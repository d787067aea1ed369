\* Two jobs of one recording give the same version to two notes of one transcript.
SPECIFICATION Spec
CONSTANTS
    Jobs = {j1, j2}
    Recordings = {rec1}
    RecordingOf <- OneRecording
    CorrectedJobs = {j1}
    Requests = {r1, r2}
    MaxVersion = 4
    MaxCrashes = 1
    HangUps = FALSE
CHECK_DEADLOCK FALSE
INVARIANTS
    VersionsDistinct
