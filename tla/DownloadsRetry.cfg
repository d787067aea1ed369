\* Two requests for one model, the second once the first download is shown as failed.
SPECIFICATION Spec
CONSTANTS
    d1 = d1
    d2 = d2
    d3 = d3
    m1 = m1
    m2 = m2
    p1 = p1
    p2 = p2
    Downloads = {d1, d2}
    Models = {m1}
    ModelOf <- OneModel
    Paths = {p1}
    PathOf <- OnePath
    MaxConcurrent = 2
    MaxRetries = 1
    Length = 2
    MaxCrashes = 0
    Asks = "answered"
    NoFile = NoFile
CHECK_DEADLOCK FALSE
INVARIANTS
    CompletedIsWhole
