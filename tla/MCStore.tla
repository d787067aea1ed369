------------------------------ MODULE MCStore ------------------------------
(***************************************************************************)
(* The store of the user interface, one page of it at a time: the page is  *)
(* chosen at the start, and with it the slice, its sagas and what of the   *)
(* backend they call.  The slices share the engine (Sagas) and no data.    *)
(* A property of the store says of every page what the slices say of       *)
(* theirs.                                                                 *)
(***************************************************************************)
EXTENDS NotesStore, ProfilesStore, PromptsStore, RoutinesStore, JobsStore, ModelsStore,
        RecordingsStore, DictationStore, SettingsStore, DevicesStore, SyncStore, OnboardingStore, ObsidianStore,
        AskStore, BackupsStore, MonitoringStore

CONSTANTS
  Pages,        \* the pages that are started
  MaxMoves      \* bound: how often a page's user, or another hand, may act
VARIABLE page

SomeDrafts ==
  {d \in ProfileDraft : d.default => d.prompt = Plain} \ [default : {FALSE}, text : Texts \ {Plain}, prompt : Texts \ {Plain}]

PageMoves ==
  [notes |-> 4, profiles |-> 3, prompts |-> 4, routines |-> 4, jobs |-> 3, models |-> 2, recordings |-> 3,
   dictation |-> 4, settings |-> 2, devices |-> 3, sync |-> 2, obsidian |-> 2, onboarding |-> 3, ask |-> 4,
   backups |-> 4, monitoring |-> 5]

vars == <<sagaVars, page>>

On(name, A) == page = name /\ A /\ UNCHANGED page

Init ==
  \/ page = "notes" /\ page \in Pages /\ NotesInit(MaxMoves[page])
  \/ page = "profiles" /\ page \in Pages /\ ProfilesInit(MaxMoves[page])
  \/ page = "prompts" /\ page \in Pages /\ PromptsInit(MaxMoves[page])
  \/ page = "routines" /\ page \in Pages /\ RoutinesInit(MaxMoves[page])
  \/ page = "jobs" /\ page \in Pages /\ JobsInit(MaxMoves[page])
  \/ page = "models" /\ page \in Pages /\ ModelsInit(MaxMoves[page])
  \/ page = "recordings" /\ page \in Pages /\ RecordingsInit(MaxMoves[page])
  \/ page = "dictation" /\ page \in Pages /\ DictationStoreInit(MaxMoves[page])
  \/ page = "settings" /\ page \in Pages /\ SettingsInit(MaxMoves[page])
  \/ page = "devices" /\ page \in Pages /\ DevicesInit(MaxMoves[page])
  \/ page = "sync" /\ page \in Pages /\ SyncInit(MaxMoves[page])
  \/ page = "obsidian" /\ page \in Pages /\ ObsidianInit(MaxMoves[page])
  \/ page = "onboarding" /\ page \in Pages /\ OnboardingInit(MaxMoves[page])
  \/ page = "ask" /\ page \in Pages /\ AskInit(MaxMoves[page])
  \/ page = "backups" /\ page \in Pages /\ BackupsInit(MaxMoves[page])
  \/ page = "monitoring" /\ page \in Pages /\ MonitoringInit(MaxMoves[page])
Next ==
  \/ On("notes", NotesNext)
  \/ On("profiles", ProfilesNext)
  \/ On("prompts", PromptsNext)
  \/ On("routines", RoutinesNext)
  \/ On("jobs", JobsNext)
  \/ On("models", ModelsNext)
  \/ On("recordings", RecordingsNext)
  \/ On("dictation", DictationStoreNext)
  \/ On("settings", SettingsNext)
  \/ On("devices", DevicesNext)
  \/ On("sync", SyncNext)
  \/ On("obsidian", ObsidianNext)
  \/ On("onboarding", OnboardingNext)
  \/ On("ask", AskNext)
  \/ On("backups", BackupsNext)
  \/ On("monitoring", MonitoringNext)

Spec == Init /\ [][Next]_vars

(***************************************************************************)
(* Properties.                                                             *)
(***************************************************************************)
\* Every slice holds values of its types, and every saga puts only actions its slice knows.
StoreTypeOK ==
  CASE page = "notes" -> NotesTypeOK
    [] page = "profiles" -> ProfilesTypeOK
    [] page = "prompts" -> PromptsTypeOK
    [] page = "routines" -> RoutinesTypeOK
    [] page = "jobs" -> JobsTypeOK
    [] page = "models" -> ModelsTypeOK
    [] page = "recordings" -> RecordingsTypeOK
    [] page = "dictation" -> DictationStoreTypeOK
    [] page = "settings" -> SettingsTypeOK
    [] page = "devices" -> DevicesTypeOK
    [] page = "sync" -> SyncTypeOK
    [] page = "onboarding" -> OnboardingTypeOK
    [] page = "obsidian" -> ObsidianTypeOK
    [] page = "ask" -> AskTypeOK
    [] page = "backups" -> BackupsTypeOK
    [] page = "monitoring" -> MonitoringTypeOK

\* What a page shows is what the backend holds, once its requests and events are through and
\* as long as no answer was lost or overtaken by another change since the page last loaded
\* (the reducers replace, merge, append or delete what each answer names).
StoreShown ==
  /\ page = "notes" => NotesShown
  /\ page = "profiles" => ProfilesListedOnce /\ ProfilesShown
  /\ page = "prompts" => PromptsShown
  /\ page = "routines" => RoutinesShown
  /\ page = "jobs" => JobsShown
  /\ page = "models" => InstalledIsShown
  /\ page = "recordings" => RecordingsShown
  /\ page = "settings" => SettingsShown
  /\ page = "devices" => HealthShown /\ LastChangeShown
  /\ page = "sync" => SyncShown
  /\ page = "obsidian" => ObsidianIsShown
  /\ page = "onboarding" => InstalledIsShown /\ ProbedIsShown /\ GuardHolds
  /\ page = "ask" => AnswersBelong
  /\ page = "backups" => BackupsShown
  /\ page = "monitoring" => MonitoringIsShown

\* No busy mark (a spinner, a disabled button, a transient phase of the dictation) outlives the
\* saga that will clear it, when a request fails, is refused or is cancelled by a newer one.  Exempt
\* are the two loads of the sync page that Syncthing's absence answers with null: their sagas put
\* nothing (SyncLoadsEnd).
SpinnersEnd ==
  /\ page = "notes" => NotesSpinnersEnd
  /\ page = "profiles" => ProfilesSpinnersEnd
  /\ page = "prompts" => PromptsSpinnersEnd
  /\ page = "routines" => RoutinesSpinnersEnd
  /\ page = "models" => ModelsSpinnersEnd
  /\ page = "recordings" => RecordingsSpinnersEnd
  /\ page = "dictation" => DictationPhasesEnd
  /\ page = "settings" => SettingsSpinnersEnd
  /\ page = "sync" => SyncSpinnersEnd
  /\ page = "obsidian" => ObsidianSpinnersEnd
  /\ page = "onboarding" => ModelsSpinnersEnd
  /\ page = "ask" => AskSpinnersEnd
  /\ page = "backups" => BackupsSpinnersEnd
  /\ page = "monitoring" => MonitoringSpinnersEnd

\* What a subscription delivers is followed to its end: a list says it is live while its
\* consumer runs; a download, a live transcript and a pairing request are each followed by one
\* consumer and left by none; the frames of the hotkey are acted on once, in order, all of them.
StreamsFollowed ==
  /\ page = "jobs" => StreamingIsTold
  /\ page = "models" => EntriesAreFollowed
  /\ page = "recordings" => PartialsBelong /\ FollowedOnce
  /\ page = "devices" => FramesActedInOrder /\ EveryFrameIsActedOn
  /\ page = "sync" => PendingIsListed
  /\ page = "onboarding" => ProbesFollowStep
  /\ page = "monitoring" => FollowedByOne

\* The backend is asked to write only what the user meant, and once: a button that is busy does
\* not send its request again, as long as no request failed and no deletion was refused, which
\* clears the marks of all; and the snapshot of the settings that a save sends resets none of the
\* other fields, as long as it was sent after the settings were loaded.  Exempt as well is the cache
\* lifetime, which every save resets (TtlIsSaved, NoSettingIsEverReset, VaultPickNeverResets).
WritesAreMeant ==
  /\ page = "prompts" => OneDeletePerTemplate
  /\ page = "routines" => OneRunPerRoutine
  /\ page = "settings" => NoSettingIsReset
  /\ page = "obsidian" => VaultPickKeepsSettings

\* The dictation leaves nothing behind: at rest the backend has no session that the dashboard
\* forgot, and the microphone is open exactly while a recorder runs (in the order DictationStore
\* states: no failure, no second start or cancel, the dashboard not left).
DictationOwned == page = "dictation" => SessionIsOwnedInOrder /\ MicrophoneIsReleasedInOrder

\* The prompt test runner never shows the rendering of a body it was not last asked for.
PreviewsOK == [][page = "prompts" => PreviewStep]_vars
=============================================================================
