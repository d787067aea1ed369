\* Three requests for one model, asked for again once the earlier run is over, one retry each, one
\* stop or crash.
SPECIFICATION Spec
CONSTANTS
    d1 = d1
    d2 = d2
    d3 = d3
    m1 = m1
    m2 = m2
    p1 = p1
    p2 = p2
    Downloads = {d1, d2, d3}
    Models = {m1}
    ModelOf <- OneModel
    Paths = {p1}
    PathOf <- OnePath
    MaxConcurrent = 1
    MaxRetries = 1
    Length = 2
    MaxCrashes = 1
    Asks = "ended"
    NoFile = NoFile
SYMMETRY SameModel
CHECK_DEADLOCK FALSE
INVARIANTS
    CompletedIsWhole
    ResumesOnlyTransient
PROPERTY
    LifecycleSpec
