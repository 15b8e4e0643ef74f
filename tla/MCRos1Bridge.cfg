CONSTANTS
    Conn = {c1}
    Topic = {t1}
    Service = {v1}
    None = None
    Width = 3
    MinMs = 2
    MaxMs = 4
    MaxId = 3
    MaxChanges = 2
    MaxFailures = 1

SPECIFICATION Spec

INVARIANT TablesAgree
INVARIANT GraphNotBlanked
PROPERTY SteadyEntriesKept
PROPERTY BackOffGrows
PROPERTY MasterIsFollowed
