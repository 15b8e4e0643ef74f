SPECIFICATION FairSpec
CONSTANTS
    Conn = {c1}
    Topic = {t1, t2}
    BadTopics = {t2}
    SubId = {s1}
    None = None
    MaxId = 3
    MaxChanges = 2
    DistinctIds = FALSE
    QueryMayFail = FALSE
PROPERTIES
    ChannelsFollowGraph
    DepartedClientsForgotten
