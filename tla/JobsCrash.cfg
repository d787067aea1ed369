\* One job, two requests of any kind and two crashes: a run is resumed after any of its steps, and
\* the resumed run is resumed again.
SPECIFICATION Spec
CONSTANTS
    Jobs = {j1}
    Recordings = {rec1}
    RecordingOf <- OneRecording
    CorrectedJobs = {j1}
    Requests = {r1, r2}
    MaxVersion = 4
    MaxCrashes = 2
    HangUps = TRUE
SYMMETRY RequestSymmetry
CHECK_DEADLOCK FALSE
INVARIANTS
    DoneMeansAnnounced
    StoredOnce
    ResumeFindsTranscript
    InFlightIsRun
