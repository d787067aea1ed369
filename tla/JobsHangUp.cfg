\* A retry whose client goes away leaves the job queued without a trigger.
SPECIFICATION Spec
CONSTANTS
    Jobs = {j1}
    Recordings = {rec1}
    RecordingOf <- OneRecording
    CorrectedJobs = {j1}
    Requests = {r1, r2}
    MaxVersion = 4
    MaxCrashes = 0
    HangUps = TRUE
CHECK_DEADLOCK FALSE
INVARIANTS
    QueuedIsScheduled
