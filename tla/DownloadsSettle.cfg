\* Two requests for one model at any time, a single permit, two retries, no process end.
SPECIFICATION FairSpec
CONSTANTS
    d1 = d1
    d2 = d2
    d3 = d3
    m1 = m1
    m2 = m2
    p1 = p1
    p2 = p2
    Downloads = {d1, d2}
    Models = {m1}
    ModelOf <- OneModel
    Paths = {p1}
    PathOf <- OnePath
    MaxConcurrent = 1
    MaxRetries = 2
    Length = 2
    MaxCrashes = 0
    Asks = "any"
    NoFile = NoFile
CHECK_DEADLOCK FALSE
PROPERTY
    ActiveSettles
