\* A cancelled job is put back in flight by the run that had loaded it.
SPECIFICATION FairSpec
CONSTANTS
    Jobs = {j1}
    Recordings = {rec1}
    RecordingOf <- OneRecording
    CorrectedJobs = {j1}
    Requests = {r1, r2}
    MaxVersion = 4
    MaxCrashes = 0
    HangUps = FALSE
CHECK_DEADLOCK FALSE
PROPERTIES
    CancelledStaysCancelled
