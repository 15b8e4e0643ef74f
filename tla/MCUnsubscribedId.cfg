SPECIFICATION Spec
CONSTANTS
    Conn = {c1, c2}
    Topic = {t1, t2}
    BadTopics = {}
    SubId = {s1, s2}
    None = None
    MaxId = 3
    MaxChanges = 1
    DistinctIds = TRUE
    QueryMayFail = TRUE
SYMMETRY Symmetry
PROPERTIES
    UnsubscribedIdIsFree
