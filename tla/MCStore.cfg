SPECIFICATION Spec
CONSTANTS
  Pages = {"notes", "profiles", "prompts", "routines", "jobs", "models", "recordings", "dictation", "settings", "devices", "sync", "obsidian", "onboarding", "ask", "backups", "monitoring"}
  MaxMoves <- PageMoves
  MaxTasks = 3
  Failing = "once"
  NoteIds = {n1, n2}
  OldNotes = {n1}
  ProfileIds = {p1, p2, p3}
  BuiltInProfiles = {p1}
  ProfileNone = p0
  Texts = {x, y}
  Drafts <- SomeDrafts
  TemplateIds = {t1, t2}
  OldTemplates = {t1}
  Bodies = {b1, b2}
  PromptNone = b0
  RoutineKeys = {r1, r2}
  MaxRuns = 2
  JobIds = {j1, j2}
  FailedJobs = {j2}
  CatalogueIds = {m1}
  DownloadIds = {d1, d2}
  OldDownloads = {}
  DownloadNone = nod
  MaxUnread = 1
  Fields = {"llmEndpoint", "vaultPath", "whisperModelPath", "llmModel"}
  DownloadsAgain = FALSE
  Questions = {q1, q2}
  MaxEdits = 2
  MaxSeconds = 2
  MAX_RECONNECT_ATTEMPTS = 2
  MaxFrames = 4
  MaxSyncEvents = 2
  SyncDevices = {s1, s2}
  SyncthingMayBeDown = TRUE
  MayReopen = TRUE
  MaxSessions = 2
  RecordingIds = {v1, v2}
  OldRecordings = {v1}
  FailingStages = {"Transcribing audio"}
INVARIANTS StoreTypeOK StoreShown SpinnersEnd StreamsFollowed WritesAreMeant DictationOwned
PROPERTIES PreviewsOK
CHECK_DEADLOCK FALSE
