\* One job, three requests of any kind, clients that may hang up: every interleaving of the
\* mutations with a run and with each other.
SPECIFICATION Spec
CONSTANTS
    Jobs = {j1}
    Recordings = {rec1}
    RecordingOf <- OneRecording
    CorrectedJobs = {j1}
    Requests = {r1, r2, r3}
    MaxVersion = 4
    MaxCrashes = 0
    HangUps = TRUE
SYMMETRY RequestSymmetry
CHECK_DEADLOCK FALSE
INVARIANTS
    TypeOK
    ResumeFindsTranscript
    IInv
PROPERTY
    OutcomeStands
