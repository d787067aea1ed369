---------------------------- MODULE SettingsStore ----------------------------
(* The settings and web-search slices, their sagas, the Settings page with *)
(* its unsaved draft and its timers, and the settings rows of the backend. *)
(* A snapshot is a function from fields to values; 0 is the default.       *)
EXTENDS Sagas, FiniteSets

CONSTANT
  Fields                   \* the fields that are edited, one of which is "llmEndpoint"

Ttl == "webCacheTtlHours"
AppSettings == [Fields \cup {Ttl} -> 0..2]
DefaultSettings == [k \in Fields \cup {Ttl} |-> 0]
OldSettings == [k \in Fields \cup {Ttl} |-> 1]

initialSettingsState ==
  [settings |-> {}, isLoading |-> FALSE, isSaving |-> FALSE, probing |-> FALSE, caps |-> FALSE,
   models |-> [loading |-> FALSE, of |-> {}, error |-> FALSE],
   config |-> {}, configLoading |-> FALSE, configSaving |-> FALSE,
   draft |-> DefaultSettings, timers |-> << >>, category |-> "general", endpointTimer |-> FALSE,
   focused |-> {},                           \* the field that was changed and is saved when it is left
   early |-> FALSE,                          \* ghost: a save was sent before anything was loaded
   typed |-> << >>]                          \* ghost: what the user last entered in each field
SettingsAction ==
  {"LOAD_SETTINGS", "LOAD_SETTINGS_SUCCESS", "LOAD_SETTINGS_FAILURE", "SAVE_SETTINGS", "SAVE_SETTINGS_SUCCESS",
   "SAVE_SETTINGS_FAILURE", "CHECK_LLM", "CHECK_LLM_DONE", "LOAD_LLM_CAPABILITIES",
   "LOAD_LLM_CAPABILITIES_SUCCESS", "LOAD_LLM_MODELS_REQUESTED", "LOAD_LLM_MODELS_SUCCEEDED",
   "LOAD_LLM_MODELS_FAILED"}
WebSearchAction ==
  {"LOAD_WEB_SEARCH_CONFIG", "LOAD_WEB_SEARCH_CONFIG_SUCCESS", "LOAD_WEB_SEARCH_CONFIG_FAILURE",
   "SAVE_WEB_SEARCH_CONFIG", "SAVE_WEB_SEARCH_CONFIG_SUCCESS", "SAVE_WEB_SEARCH_CONFIG_FAILURE"}

settingsReducer(s, a) ==
  CASE a.type = "LOAD_SETTINGS" -> [s EXCEPT !.isLoading = TRUE]
    [] a.type = "LOAD_SETTINGS_SUCCESS" -> [s EXCEPT !.settings = {a.settings}, !.isLoading = FALSE]
    [] a.type = "LOAD_SETTINGS_FAILURE" -> [s EXCEPT !.isLoading = FALSE]
    [] a.type = "SAVE_SETTINGS" -> [s EXCEPT !.isSaving = TRUE]
    [] a.type = "SAVE_SETTINGS_SUCCESS" -> [s EXCEPT !.settings = {a.settings}, !.isSaving = FALSE]
    [] a.type = "SAVE_SETTINGS_FAILURE" -> [s EXCEPT !.isSaving = FALSE]
    [] a.type = "CHECK_LLM" -> [s EXCEPT !.probing = TRUE]
    [] a.type = "CHECK_LLM_DONE" -> [s EXCEPT !.probing = FALSE]
    [] a.type = "LOAD_LLM_CAPABILITIES_SUCCESS" -> [s EXCEPT !.caps = a.caps]
    [] a.type = "LOAD_LLM_MODELS_REQUESTED" -> [s EXCEPT !.models.loading = TRUE, !.models.error = FALSE]
    [] a.type = "LOAD_LLM_MODELS_SUCCEEDED" -> [s EXCEPT !.models = [loading |-> FALSE, of |-> {a.of}, error |-> FALSE]]
    [] a.type = "LOAD_LLM_MODELS_FAILED" -> [s EXCEPT !.models = [loading |-> FALSE, of |-> {}, error |-> TRUE]]
    [] OTHER -> s

webSearchReducer(s, a) ==
  CASE a.type = "LOAD_WEB_SEARCH_CONFIG" -> [s EXCEPT !.configLoading = TRUE]
    [] a.type = "LOAD_WEB_SEARCH_CONFIG_SUCCESS" -> [s EXCEPT !.configLoading = FALSE, !.config = {a.config}]
    [] a.type = "LOAD_WEB_SEARCH_CONFIG_FAILURE" -> [s EXCEPT !.configLoading = FALSE]
    [] a.type = "SAVE_WEB_SEARCH_CONFIG" -> [s EXCEPT !.configSaving = TRUE]
    [] a.type = "SAVE_WEB_SEARCH_CONFIG_SUCCESS" -> [s EXCEPT !.configSaving = FALSE, !.config = {a.config}]
    [] a.type = "SAVE_WEB_SEARCH_CONFIG_FAILURE" -> [s EXCEPT !.configSaving = FALSE]
    [] OTHER -> s

\* The page's draft: whatever is loaded or saved replaces it, typed fields included.  With
\* the LLM category open, a changed endpoint starts the timer that reloads the models.
withDraft(s, draft) ==
  [s EXCEPT !.draft = draft,
            !.endpointTimer = @ \/ (s.category = "llm" /\ draft["llmEndpoint"] # s.draft["llmEndpoint"])]
\* Mutant: the draft keeps what the page started with when the settings have been loaded.
settingsShownStale(s, a) ==
  LET r == webSearchReducer(settingsReducer(s, a), a)
  IN  IF a.type = "SAVE_SETTINGS_SUCCESS" THEN withDraft(r, a.settings) ELSE r
settingsShown(s, a) ==
  LET r == webSearchReducer(settingsReducer(s, a), a)
  IN  IF a.type \in {"LOAD_SETTINGS_SUCCESS", "SAVE_SETTINGS_SUCCESS"} THEN withDraft(r, a.settings) ELSE r

watchSettingsSagas(ts, a) ==
  CASE a.type = "LOAD_SETTINGS" -> takeLatestQuery(ts, gqlRequest("loadSettingsSaga", Nothing))
    [] a.type = "SAVE_SETTINGS" -> takeLatest(ts, gqlRequest("saveSettingsSaga", a.settings))
    [] a.type = "CHECK_LLM" -> takeLatestQuery(ts, gqlRequest("checkLlmSaga", Nothing))
    [] a.type = "LOAD_LLM_CAPABILITIES" -> takeLatestQuery(ts, gqlRequest("loadLlmCapabilitiesSaga", Nothing))
    [] a.type = "LOAD_LLM_MODELS_REQUESTED" -> takeLatestQuery(ts, gqlRequest("loadLlmModelsSaga", Nothing))
    [] OTHER -> ts
webSearchSaga(ts, a) ==
  CASE a.type = "LOAD_WEB_SEARCH_CONFIG" -> takeLatestQuery(ts, gqlRequest("loadWebSearchConfigSaga", Nothing))
    [] a.type = "SAVE_WEB_SEARCH_CONFIG" -> takeLatest(ts, gqlRequest("saveWebSearchConfigSaga", a.config))
    [] OTHER -> ts
watchSettingsPage(ts, a) == webSearchSaga(watchSettingsSagas(ts, a), a)

(***************************************************************************)
(* What each saga puts when its request has come back.                     *)
(***************************************************************************)
loadSettingsSaga(t) ==
  IF t.ok THEN << [type |-> "LOAD_SETTINGS_SUCCESS", settings |-> t.ans] >>
          ELSE << notifyError, [type |-> "LOAD_SETTINGS_FAILURE"] >>
\* (The backend always answers a save with the settings, so the failure without a toast
\* that the saga keeps for an answer without them is left out.)
saveSettingsSaga(t) ==
  IF t.ok THEN << [type |-> "SAVE_SETTINGS_SUCCESS", settings |-> t.ans], notifySuccess("settings.savedToast") >>
          ELSE << notifyError, [type |-> "SAVE_SETTINGS_FAILURE"] >>
checkLlmSaga(t) ==
  << IF t.ok /\ t.ans THEN notifySuccess("settings.llmCheckSuccessToast")
                      ELSE notifyWarning("settings.llmCheckFailureToast"),
     [type |-> "CHECK_LLM_DONE"] >>
loadLlmCapabilitiesSaga(t) == << [type |-> "LOAD_LLM_CAPABILITIES_SUCCESS", caps |-> t.ok /\ t.ans] >>
loadLlmModelsSaga(t) ==
  << IF t.ok THEN [type |-> "LOAD_LLM_MODELS_SUCCEEDED", of |-> t.ans] ELSE [type |-> "LOAD_LLM_MODELS_FAILED"] >>
loadWebSearchConfigSaga(t) ==
  << IF t.ok THEN [type |-> "LOAD_WEB_SEARCH_CONFIG_SUCCESS", config |-> t.ans]
             ELSE [type |-> "LOAD_WEB_SEARCH_CONFIG_FAILURE"] >>
saveWebSearchConfigSaga(t) ==
  << IF t.ok THEN [type |-> "SAVE_WEB_SEARCH_CONFIG_SUCCESS", config |-> t.ans]
             ELSE [type |-> "SAVE_WEB_SEARCH_CONFIG_FAILURE"] >>
settingsPuts(t) ==
  CASE t.saga = "loadSettingsSaga" -> loadSettingsSaga(t)
    [] t.saga = "saveSettingsSaga" -> saveSettingsSaga(t)
    [] t.saga = "checkLlmSaga" -> checkLlmSaga(t)
    [] t.saga = "loadLlmCapabilitiesSaga" -> loadLlmCapabilitiesSaga(t)
    [] t.saga = "loadLlmModelsSaga" -> loadLlmModelsSaga(t)
    [] t.saga = "loadWebSearchConfigSaga" -> loadWebSearchConfigSaga(t)
    [] t.saga = "saveWebSearchConfigSaga" -> saveWebSearchConfigSaga(t)

(***************************************************************************)
(* The backend: srv.stored are the settings rows.                          *)
(***************************************************************************)
\* The page loads the settings when it is mounted.
SettingsMounted == << [type |-> "LOAD_SETTINGS"] >>
SettingsInit(budget) ==
  SagaBoot(Reduced(settingsShown, initialSettingsState, SettingsMounted), [stored |-> OldSettings],
           Watched(watchSettingsPage, << >>, SettingsMounted), budget)

LoadSettings(i) == tasks[i].saga = "loadSettingsSaga" /\ Answer(i, srv, srv.stored)
\* The input of the mutation has no webCacheTtlHours: the backend's default takes its place.
mapSettingsToInput(s) == [s EXCEPT ![Ttl] = 0]
UpdateSettings(i) ==
  LET saved == mapSettingsToInput(tasks[i].arg)
  IN  /\ tasks[i].saga = "saveSettingsSaga"
      /\ AnswerTelling(i, [srv EXCEPT !.stored = saved], saved, tasks[i].live)
LlmHealth(i) ==
  /\ tasks[i].saga \in {"checkLlmSaga", "loadLlmCapabilitiesSaga"}
  /\ \E available \in BOOLEAN : Answer(i, srv, available)
\* The models served at the stored endpoint.
LlmModels(i) == tasks[i].saga = "loadLlmModelsSaga" /\ Answer(i, srv, srv.stored["llmEndpoint"])
WebSearchConfig(i) == tasks[i].saga = "loadWebSearchConfigSaga" /\ Answer(i, srv, srv.stored[Ttl])
\* The configuration is saved with a whole snapshot of the settings, of which it changes one
\* field: what was saved between the snapshot and the save is lost, and no answer tells it.
UpdateWebSearchConfig(i) ==
  /\ tasks[i].saga = "saveWebSearchConfigSaga"
  /\ \/ Halfway(i, srv, srv.stored)
     \/ /\ tasks[i].pc = "half"
        /\ LET saved == [tasks[i].ans EXCEPT ![Ttl] = tasks[i].arg]
           IN  AnswerTelling(i, [srv EXCEPT !.stored = saved], tasks[i].arg,
                             tasks[i].live /\ \A k \in Fields \ {Ttl} : saved[k] = srv.stored[k])
\* A routine's switch, a vault that is set up: other parts of the backend save a field.
SettingsChangeOutside ==
  \E k \in Fields : Idle /\ Outside([srv EXCEPT !.stored[k] = 2])

(***************************************************************************)
(* The Settings page.  A category shows cards of fields of three kinds: a   *)
(* typed field is saved by a timer or when it is left, a blurred one only   *)
(* when it is left, and one that is switched or chosen at once.             *)
(***************************************************************************)
GeneralCategory ==
  [typed |-> {"vaultPath"}, blurred |-> {"language", "themeMode"},
   atOnce |-> {"obsidianFeatureEnabled", "sidecarEnrichmentEnabled"}]
VoiceTranscription ==
  [typed |-> {"vadModelPath", "whisperThreads"}, blurred |-> {"whisperModelPath"}, atOnce |-> {}]
VoiceDictation ==
  [typed |-> {"dictationMouseButton", "dictationWhisperModelId", "dictationCaptureSampleRate",
              "dictationModelUnloadMinutes", "dictationTempAudioPath"},
   blurred |-> {},
   atOnce |-> {"dictationEnabled", "dictationHotkeyType", "dictationKeyboardHotkey", "dictationPushToTalk",
               "dictationLanguage", "dictationLlmPolish", "dictationInjectMode", "dictationOverlayEnabled",
               "dictationOverlayPosition", "dictationSoundFeedback", "dictationClassifyIntentEnabled"}]
VoiceDump ==
  [typed |-> {}, blurred |-> {},
   atOnce |-> {"dictationDumpEnabled", "dictationDumpHotkeyToggle", "dictationDumpHotkeyHold"}]
\* The model can be chosen only from a list that has been loaded.
LlmCategory(models) ==
  [typed |-> {"llmEndpoint", "llmApiKey", Ttl}, blurred |-> {},
   atOnce |-> {"llmProvider"} \cup {k \in {"llmModel"} : ~models.loading /\ models.of # {}}]
KnowledgeCategory == [typed |-> {"obsidianApiHost", "obsidianApiToken"}, blurred |-> {}, atOnce |-> {}]
SystemCategory ==
  [typed |-> {"syncthingObsidianVaultPath", "syncthingApiKey", "syncthingBaseUrl", "mcpServerPort",
              "mcpServerToken", "claudeCliPath"},
   blurred |-> {},
   atOnce |-> {"syncthingEnabled", "mcpServerEnabled", "actionsSkillEnabled", "remindersSkillEnabled"}]
Categories == {"general", "voice", "llm", "knowledge", "system"}
Cards ==
  CASE ui.category = "general" -> {GeneralCategory}
    [] ui.category = "voice" -> {VoiceTranscription, VoiceDictation, VoiceDump}
    [] ui.category = "llm" -> {LlmCategory(ui.models)}
    [] ui.category = "knowledge" -> {KnowledgeCategory}
    [] ui.category = "system" -> {SystemCategory}
Shown(kind) == (UNION {card[kind] : card \in Cards}) \cap (Fields \cup {Ttl})

SettingsDo(a) == Dispatch(settingsShown, watchSettingsPage, a)
Entered(k, v) == [withDraft(ui, [ui.draft EXCEPT ![k] = v]) EXCEPT !.typed = (k :> v) @@ @]
\* Typing changes the draft and starts the field's timer (update, scheduleAutosave).
scheduleAutosave(k, v) ==
  /\ moves > 0
  /\ ui.draft[k] # v
  /\ moves' = moves - 1
  /\ ui' = [Entered(k, v) EXCEPT !.timers = [m \in DOMAIN @ \cup {k} |-> IF m = k THEN v ELSE @[m]]]
  /\ toast' = NoToast
  /\ UNCHANGED <<tasks, srv, drift, broken>>
\* A select or a path that only changes the draft, until it is left.
changeOnly(k, v) ==
  /\ moves > 0
  /\ ui.draft[k] # v
  /\ moves' = moves - 1
  /\ ui' = [Entered(k, v) EXCEPT !.focused = {k}]
  /\ toast' = NoToast
  /\ UNCHANGED <<tasks, srv, drift, broken>>
\* Saving a field saves the whole draft with it; s is the page at that moment.
saveField(s, k, v) ==
  LET next == [s.draft EXCEPT ![k] = v]
      shown == settingsShown(withDraft(s, next), [type |-> "SAVE_SETTINGS"])
  IN  /\ Len(tasks) < MaxTasks
      /\ ui' = [shown EXCEPT !.early = @ \/ s.settings = {}]
      /\ tasks' = watchSettingsPage(tasks, [type |-> "SAVE_SETTINGS", settings |-> next])
      /\ toast' = NoToast
      /\ UNCHANGED <<srv, drift, broken>>
Unfocused(s, k) == [s EXCEPT !.timers = [m \in DOMAIN @ \ {k} |-> @[m]], !.focused = @ \ {k}]
autosaveTimer == \E k \in DOMAIN ui.timers : saveField(Unfocused(ui, k), k, ui.timers[k]) /\ UNCHANGED moves
\* Leaving a field saves what it shows at once and clears its timer: the edited ones, and
\* at the cost of a move of the user one that was only visited.
handleBlurSave ==
  \/ \E k \in DOMAIN ui.timers \cup ui.focused : saveField(Unfocused(ui, k), k, ui.draft[k]) /\ UNCHANGED moves
  \/ /\ moves > 0
     /\ \E k \in Shown("typed") \cup Shown("blurred") : saveField(Unfocused(ui, k), k, ui.draft[k])
     /\ moves' = moves - 1
\* A switch, a choice, a recorded hotkey and a picked file change the draft and save it at once.
changeAndSave(k, v) ==
  /\ moves > 0
  /\ saveField(Unfocused(Entered(k, v), k), k, v)
  /\ moves' = moves - 1
pickWhisperFile == "whisperModelPath" \in Shown("blurred") /\ changeAndSave("whisperModelPath", 2)
\* Opening the LLM category probes the endpoint and starts the timer as well; leaving it
\* clears the timer.  (The field with the focus is left before.)
setActiveCategory(c) ==
  /\ c # ui.category /\ ui.focused = {}
  /\ Len(tasks) + 1 < MaxTasks
  /\ moves > 0 /\ moves' = moves - 1
  /\ LET probes == IF c = "llm" THEN << [type |-> "LOAD_LLM_CAPABILITIES"], [type |-> "LOAD_LLM_MODELS_REQUESTED"] >>
                                ELSE << >>
     IN  /\ ui' = Reduced(settingsShown, [ui EXCEPT !.category = c, !.endpointTimer = (c = "llm")], probes)
         /\ tasks' = Watched(watchSettingsPage, tasks, probes)
  /\ toast' = NoToast
  /\ UNCHANGED <<srv, drift, broken>>
endpointTimer ==
  /\ ui.endpointTimer
  /\ Len(tasks) < MaxTasks
  /\ ui' = settingsShown([ui EXCEPT !.endpointTimer = FALSE], [type |-> "LOAD_LLM_MODELS_REQUESTED"])
  /\ tasks' = watchSettingsPage(tasks, [type |-> "LOAD_LLM_MODELS_REQUESTED"])
  /\ toast' = NoToast
  /\ UNCHANGED <<srv, drift, broken, moves>>
SettingsPage ==
  \/ SettingsDo([type |-> "LOAD_SETTINGS"])
  \/ ui.category = "llm" /\ ~ui.probing /\ SettingsDo([type |-> "CHECK_LLM"])
  \/ \E k \in Shown("typed") : scheduleAutosave(k, 2)
  \/ \E k \in Shown("blurred") : changeOnly(k, 2)
  \/ \E k \in Shown("atOnce") : changeAndSave(k, 2)
  \/ pickWhisperFile
  \/ \E c \in Categories : setActiveCategory(c)
SettingsTimers == autosaveTimer \/ handleBlurSave \/ endpointTimer
\* The web-search card loads when it is mounted, and saves what it shows.
WebSearchSettings ==
  \/ SettingsDo([type |-> "LOAD_WEB_SEARCH_CONFIG"])
  \/ ~ui.configSaving /\ SettingsDo([type |-> "SAVE_WEB_SEARCH_CONFIG", config |-> 2])

SettingsAnswers ==
  \E i \in InFlight :
    \/ LoadSettings(i) \/ UpdateSettings(i) \/ LlmHealth(i) \/ LlmModels(i)
    \/ WebSearchConfig(i) \/ UpdateWebSearchConfig(i)
SettingsResumes ==
  \E i \in InState("back") :
    Resume(settingsShown, watchSettingsPage, i, settingsPuts(tasks[i]), << >>,
           tasks[i].saga \in {"loadSettingsSaga", "saveSettingsSaga"})
SettingsNext ==
  \/ SettingsPage \/ SettingsTimers \/ WebSearchSettings \/ SettingsChangeOutside
  \/ SettingsAnswers \/ Dropped \/ SettingsResumes

(***************************************************************************)
(* Properties.                                                             *)
(***************************************************************************)
\* The snapshots are complete, a field that waits to be saved was entered, and the sagas put
\* only actions the slices know.
SettingsTypeOK ==
  /\ ui.settings \subseteq AppSettings /\ ui.draft \in AppSettings
  /\ DOMAIN ui.timers \cup ui.focused \subseteq DOMAIN ui.typed
  /\ \A i \in InState("back") : \A k \in DOMAIN settingsPuts(tasks[i]) :
       settingsPuts(tasks[i])[k].type \in SettingsAction \cup WebSearchAction \cup {"NOTIFY"}

Settled == Idle /\ DOMAIN ui.timers = {} /\ ui.focused = {} /\ ~drift

\* Once the timers have fired and every request was answered, none failed or overtaken,
\* the settings in the store are the stored ones, and the page's draft holds nothing that
\* was not saved.  (A save that fails leaves the draft, and the answer of the save it
\* cancelled, behind: the store then shows neither.)
SettingsShown ==
  Settled /\ ~broken => \A s \in ui.settings : \A k \in Fields :
    s[k] = srv.stored[k] /\ ui.draft[k] = srv.stored[k]

\* No setting falls back to its default because another one was edited: what a save sends
\* beside the edited field was loaded, or typed, as long as no save was sent before the
\* settings were loaded (saveField, DEFAULT_SETTINGS).  The cache lifetime is another
\* matter: every save resets it (TtlIsSaved).
NoSettingIsReset == ~ui.early => \A k \in Fields \ {Ttl} : srv.stored[k] # DefaultSettings[k]

\* The same whenever the save was sent, and for every field the page offers.
NoSettingIsEverReset == \A k \in Fields \cup {Ttl} : srv.stored[k] # DefaultSettings[k]

\* Once all is settled, every field the user edited is stored as it was last typed,
\* however the autosaves, their answers and the draft crossed.
EditsAreSaved ==
  Settled /\ ~broken => \A k \in Fields \cap DOMAIN ui.typed : srv.stored[k] = ui.typed[k]

\* The same for the cache lifetime, which the page offers beside the others.
TtlIsSaved == Settled /\ ~broken /\ Ttl \in DOMAIN ui.typed => srv.stored[Ttl] = ui.typed[Ttl]

\* The models offered are those of the stored endpoint (the timer of Settings.tsx).
ModelsFitEndpoint ==
  Settled /\ ~broken /\ ui.category = "llm" /\ ~ui.endpointTimer => ui.models.of \subseteq {srv.stored["llmEndpoint"]}

\* No busy mark of the page outlives its request.
SettingsSpinnersEnd ==
  /\ ui.isLoading => Running("loadSettingsSaga") # {}
  /\ ui.isSaving => \E i \in Running("saveSettingsSaga") : tasks[i].live
  /\ ui.probing => Running("checkLlmSaga") # {}
  /\ ui.models.loading => Running("loadLlmModelsSaga") # {}
  /\ ui.configLoading => Running("loadWebSearchConfigSaga") # {}
  /\ ui.configSaving => \E i \in Running("saveWebSearchConfigSaga") : tasks[i].live
=============================================================================
