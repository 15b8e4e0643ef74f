SPECIFICATION Spec
CONSTANTS
    Conn = {c1, c2}
    Topic = {t1, t2}
    BadTopics = {}
    SubId = {s1}
    None = None
    MaxId = 4
    MaxChanges = 2
    DistinctIds = FALSE
    QueryMayFail = TRUE
SYMMETRY Symmetry
INVARIANTS
    AtMostOneLogin
    ClientsKnowChannels
    SubscriptionsAgree
    OnlyFailuresLeaveStale
PROPERTIES
    OnlyLoginOutdates
