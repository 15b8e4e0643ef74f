SPECIFICATION FairSpec
CONSTANTS
    a1 = a1
    a2 = a2
    b1 = b1
    s1 = s1
    x1 = x1
    na = na
    nb = nb
    ns = ns
    nx = nx
    Param = {a1, a2, b1, s1, x1}
    NodeOf <- MCNodeOf
    Self = ns
    BadNode = {nx}
    White = {a1, b1, s1, x1}
    ReadOnly = {b1}
    Unset = Unset
    Bad = Bad
    IntRange = 2
    Start <- MCStart
    Requests <- MCRequests
    None = None
    MaxRequests = 2
    MaxFaults = 1
    IntLimit = 4
    Byte = {0, 1, 63, 128, 252, 255}
    MaxBytes = 4
    MaxLength = 2
INVARIANTS
    ValuesReturn
    WhitelistGuards
    ReadBackIsFresh
    AnsweredNodesComplete
PROPERTIES
    RequestsEnd
