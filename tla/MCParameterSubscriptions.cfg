SPECIFICATION Spec
CONSTANTS
    p1 = p1
    p2 = p2
    p3 = p3
    n1 = n1
    n2 = n2
    None = None
    Conn = {c1, c2}
    Param = {p1, p2, p3}
    NodeOf <- MCNodeOf
    White = {p1, p2}
    MaxChanges = 2
SYMMETRY Symmetry
INVARIANTS
    TablesAgree
    ChangesReachSubscribers
