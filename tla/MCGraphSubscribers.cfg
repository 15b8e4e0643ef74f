SPECIFICATION Spec
CONSTANTS
    Conn = {c1, c2}
    Name = {n1}
    Ids = {i1, i2}
    Absent = Absent
    Keep = Keep
    None = None
    MaxCount = 3
    MaxChanges = 2
SYMMETRY Symmetry
PROPERTIES
    UpdatesReachSubscribers
