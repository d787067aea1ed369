\* A queued job stays scheduled and is settled: one job, two requests and a crash, under
\* fairness, clients that wait for their answers.
SPECIFICATION FairSpec
CONSTANTS
    Jobs = {j1}
    Recordings = {rec1}
    RecordingOf <- OneRecording
    CorrectedJobs = {j1}
    Requests = {r1, r2}
    MaxVersion = 4
    MaxCrashes = 1
    HangUps = FALSE
CHECK_DEADLOCK FALSE
INVARIANTS
    QueuedIsScheduled
PROPERTIES
    QueuedSettles
