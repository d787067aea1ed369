\* Two models whose URLs end in the same file name, downloaded one after the other.
SPECIFICATION Spec
CONSTANTS
    d1 = d1
    d2 = d2
    d3 = d3
    m1 = m1
    m2 = m2
    p1 = p1
    p2 = p2
    Downloads = {d1, d2}
    Models = {m1, m2}
    ModelOf <- OneEach
    Paths = {p1}
    PathOf <- OnePath
    MaxConcurrent = 1
    MaxRetries = 1
    Length = 2
    MaxCrashes = 0
    Asks = "ended"
    NoFile = NoFile
CHECK_DEADLOCK FALSE
INVARIANTS
    CompletedIsWhole
