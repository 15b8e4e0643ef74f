SPECIFICATION MCSpec
CONSTANTS
    Worker = {w1, w2}
    Callback = {b1, b2, b3}
    Conn = {c1, c2}
    Channel = {h1, h2}
    None = None
INVARIANTS
    RecordsAgree
    NothingLeftBehind
PROPERTIES
    ImplementsFifo
    StopReturnsUnlessMissed
