\* Two jobs of one recording, which share its transcripts and notes.
SPECIFICATION Spec
CONSTANTS
    Jobs = {j1, j2}
    Recordings = {rec1}
    RecordingOf <- OneRecording
    CorrectedJobs = {}
    Requests = {r1, r2, r3}
    MaxVersion = 4
    MaxCrashes = 0
    HangUps = FALSE
SYMMETRY RequestSymmetry
CHECK_DEADLOCK FALSE
INVARIANTS
    DoneMeansAnnounced
    ResumeFindsTranscript
