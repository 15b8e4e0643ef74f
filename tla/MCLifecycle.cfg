SPECIFICATION FairSpec
CONSTANTS
    c1 = c1
    c2 = c2
    p1 = p1
    p2 = p2
    Conn = {c1, c2}
    Silent = {c2}
    Pub = {p1, p2}
    Profile <- MCProfile
    Exec = {e1, e2}
    SubId = {s1, s2}
    None = None
    MinDepth = 1
    MaxDepth = 3
    MaxWaits = 1
    Budgets <- MCBudgets
INVARIANTS
    ReliableKept
    OrderKept
    LateMessagesBounded
    NothingOutlives
    MisuseOnlyOfLeftovers
PROPERTIES
    KnownPublishersHeard
    DroppedOnlyMidway
    ShutdownCompletes
