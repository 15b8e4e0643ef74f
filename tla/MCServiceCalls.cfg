SPECIFICATION Spec
CONSTANTS
    Conn = {c1}
    Name = {v1, v2}
    BadNames = {}
    Call = {k1, k2}
    Asset = Asset
    None = None
    MaxId = 3
    MaxChanges = 2
SYMMETRY Symmetry
INVARIANTS
    ClientsKnowServices
    BridgeKnowsServices
    AnswersMatchCalls
    NoCallForgotten
