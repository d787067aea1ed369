\* Two requests for one model at any time and one for another, two permits, one stop or crash.
SPECIFICATION Spec
CONSTANTS
    d1 = d1
    d2 = d2
    d3 = d3
    m1 = m1
    m2 = m2
    p1 = p1
    p2 = p2
    Downloads = {d1, d2, d3}
    Models = {m1, m2}
    ModelOf <- LastAsksSecond
    Paths = {p1, p2}
    PathOf <- OwnPath
    MaxConcurrent = 2
    MaxRetries = 0
    Length = 1
    MaxCrashes = 1
    Asks = "any"
    NoFile = NoFile
SYMMETRY FirstTwo
CHECK_DEADLOCK FALSE
INVARIANTS
    TypeOK
    PermitsConserved
