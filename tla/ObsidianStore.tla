---------------------------- MODULE ObsidianStore ----------------------------
(* The obsidian and wizard slices with the Obsidian page, against the      *)
(* vault on the disk.  A vault is the set of what the diagnostics look for *)
(* in its folder; a path is a value of the setting "vaultPath", 0 is none. *)
EXTENDS SettingsStore

Vaults == 1..2
Contents == {"obsidian", "installed", "enabled", "bootstrap", "templater"}
Stored == srv.stored["vaultPath"]

initialObsidianState ==
  [isSetupInProgress |-> FALSE, isDiagnosticsLoading |-> FALSE, isReapplyingBootstrap |-> FALSE,
   isReinstallingPlugins |-> FALSE, diagnostics |-> {}, diagnosticsError |-> FALSE]
NoStep == 0
initialObsidianWizardState ==
  [currentStep |-> 1, nextStep |-> 1, isStepRunning |-> FALSE, error |-> FALSE, isComplete |-> FALSE]
ObsidianAction ==
  {"SETUP_OBSIDIAN", "SETUP_OBSIDIAN_DONE", "FETCH_DIAGNOSTICS", "FETCH_DIAGNOSTICS_DONE",
   "FETCH_DIAGNOSTICS_FAILED", "REAPPLY_BOOTSTRAP", "REAPPLY_BOOTSTRAP_DONE", "REINSTALL_PLUGINS",
   "REINSTALL_PLUGINS_DONE"}
ObsidianWizardActionType == {"RUN_WIZARD_STEP", "RUN_WIZARD_STEP_DONE", "RUN_WIZARD_STEP_FAILED"}

setDiagnostics(s, report) ==
  [s EXCEPT !.isDiagnosticsLoading = FALSE, !.diagnostics = {report}, !.diagnosticsError = FALSE]
\* A failure keeps the last report.
setDiagnosticsError(s) == [s EXCEPT !.isDiagnosticsLoading = FALSE, !.diagnosticsError = TRUE]
obsidianReducer(s, a) ==
  CASE a.type = "SETUP_OBSIDIAN" -> [s EXCEPT !.isSetupInProgress = TRUE]
    [] a.type = "SETUP_OBSIDIAN_DONE" -> [s EXCEPT !.isSetupInProgress = FALSE]
    [] a.type = "FETCH_DIAGNOSTICS" -> [s EXCEPT !.isDiagnosticsLoading = TRUE, !.diagnosticsError = FALSE]
    [] a.type = "FETCH_DIAGNOSTICS_DONE" -> setDiagnostics(s, a.report)
    [] a.type = "FETCH_DIAGNOSTICS_FAILED" -> setDiagnosticsError(s)
    [] a.type = "REAPPLY_BOOTSTRAP" -> [s EXCEPT !.isReapplyingBootstrap = TRUE]
    [] a.type = "REAPPLY_BOOTSTRAP_DONE" -> [s EXCEPT !.isReapplyingBootstrap = FALSE]
    [] a.type = "REINSTALL_PLUGINS" -> [s EXCEPT !.isReinstallingPlugins = TRUE]
    [] a.type = "REINSTALL_PLUGINS_DONE" -> [s EXCEPT !.isReinstallingPlugins = FALSE]
    [] OTHER -> s
obsidianWizardReducer(s, a) ==
  CASE a.type = "RUN_WIZARD_STEP" -> [s EXCEPT !.isStepRunning = TRUE, !.error = FALSE]
    [] a.type = "RUN_WIZARD_STEP_DONE" ->
         [currentStep |-> a.step, nextStep |-> a.next, isStepRunning |-> FALSE, error |-> FALSE,
          isComplete |-> a.next = NoStep]
    [] a.type = "RUN_WIZARD_STEP_FAILED" -> [s EXCEPT !.isStepRunning = FALSE, !.error = TRUE]
    [] OTHER -> s

\* The page keeps a snapshot of the settings, replaced by every one that is loaded or saved.
obsidianShown(s, a) ==
  LET r == settingsReducer(s, a)
  IN  [r EXCEPT !.obsidian = obsidianReducer(@, a), !.wizard = obsidianWizardReducer(@, a),
                !.snapshot = IF a.type \in {"LOAD_SETTINGS_SUCCESS", "SAVE_SETTINGS_SUCCESS"} THEN a.settings ELSE @]

\* All four, and the wizard's, are takeLatest; the first and the last two change the disk.
watchObsidianSagas(ts, a) ==
  CASE a.type = "SETUP_OBSIDIAN" -> takeLatest(ts, gqlRequest("setupObsidianSaga", a.vaultPath))
    [] a.type = "FETCH_DIAGNOSTICS" -> takeLatestQuery(ts, gqlRequest("diagnosticsSaga", Nothing))
    [] a.type = "REAPPLY_BOOTSTRAP" -> takeLatest(ts, gqlRequest("reapplyBootstrapSaga", Nothing))
    [] a.type = "REINSTALL_PLUGINS" -> takeLatest(ts, gqlRequest("reinstallPluginsSaga", Nothing))
    [] a.type = "RUN_WIZARD_STEP" -> takeLatest(ts, gqlRequest("wizardSaga", a.step))
    [] OTHER -> watchSettingsSagas(ts, a)

(***************************************************************************)
(* What each saga puts when its request has come back; an empty answer is  *)
(* a payload with errors.                                                  *)
(***************************************************************************)
Done(t) == t.ok /\ t.ans # {}
setupObsidianSaga(t) ==
  << IF Done(t) THEN notifySuccess("obsidian.setupSuccess") ELSE notifyError, [type |-> "SETUP_OBSIDIAN_DONE"] >>
diagnosticsSaga(t) ==
  << IF t.ok THEN [type |-> "FETCH_DIAGNOSTICS_DONE", report |-> t.ans] ELSE [type |-> "FETCH_DIAGNOSTICS_FAILED"] >>
\* What was repaired is looked at again.
Repaired(t, key, done) ==
  IF Done(t) THEN << notifySuccess(key), [type |-> "FETCH_DIAGNOSTICS"], [type |-> done] >>
             ELSE << notifyError, [type |-> done] >>
reapplyBootstrapSaga(t) == Repaired(t, "obsidian.diagnostics.reapplyBootstrapSuccess", "REAPPLY_BOOTSTRAP_DONE")
reinstallPluginsSaga(t) == Repaired(t, "obsidian.diagnostics.reinstallPluginsSuccess", "REINSTALL_PLUGINS_DONE")
wizardSaga(t) ==
  << IF Done(t) THEN [type |-> "RUN_WIZARD_STEP_DONE", step |-> t.arg, next |-> CHOOSE n \in t.ans : TRUE]
                ELSE [type |-> "RUN_WIZARD_STEP_FAILED"] >>
obsidianPuts(t) ==
  CASE t.saga = "setupObsidianSaga" -> setupObsidianSaga(t)
    [] t.saga = "diagnosticsSaga" -> diagnosticsSaga(t)
    [] t.saga = "reapplyBootstrapSaga" -> reapplyBootstrapSaga(t)
    [] t.saga = "reinstallPluginsSaga" -> reinstallPluginsSaga(t)
    [] t.saga = "wizardSaga" -> wizardSaga(t)
    [] OTHER -> settingsPuts(t)

(***************************************************************************)
(* The backend and the disk: srv.disk[v] is what the vault v contains,     *)
(* srv.rest whether the REST plugin answers ("off": no token is stored).   *)
(***************************************************************************)
\* Installing downloads the plugins that are not there as they should be, into .obsidian;
\* a folder of theirs that is there is replaced, its settings included.  A download that
\* fails is no error for the caller.
Install(d, downloads) ==
  IF "installed" \in d THEN d \cup {"enabled"}
  ELSE IF downloads THEN (d \ {"templater"}) \cup {"obsidian", "installed", "enabled"} ELSE d
EnsureVaultPrepared(d) == d \cup {"obsidian", "bootstrap", "templater"}
Reinstalled(d, downloads) == Install(d \ {"installed", "enabled", "templater"}, downloads)

CheckVault(sv) ==
  LET v == sv.stored["vaultPath"] IN v # 0 /\ "obsidian" \in sv.disk[v]
Report(sv) == [vaultOk |-> CheckVault(sv), found |-> IF CheckVault(sv) THEN sv.disk[sv.stored["vaultPath"]] ELSE {}]
\* The first step whose condition the report does not show; the fifth ends the wizard.
ComputeNextStep(step, sv) ==
  LET found == Report(sv).found
      met == << CheckVault(sv), "installed" \in found, "enabled" \in found, sv.rest # "down",
                {"bootstrap", "templater"} \subseteq found >>
      unmet == {k \in 1..5 : ~met[k]}
  IN  IF step >= 5 \/ unmet = {} THEN NoStep ELSE CHOOSE k \in unmet : \A m \in unmet : k <= m

\* The page starts with its two loads; the first vault is an empty folder or complete, the
\* second one was opened in Obsidian.
ObsidianMounted == << [type |-> "LOAD_SETTINGS"], [type |-> "FETCH_DIAGNOSTICS"] >>
ObsidianInit(budget) ==
  LET state == [settings |-> {}, isLoading |-> FALSE, isSaving |-> FALSE, snapshot |-> DefaultSettings, early |-> FALSE,
                obsidian |-> initialObsidianState, wizard |-> initialObsidianWizardState]
  IN  \E v \in {0, 1}, one \in {{}, Contents} :
        SagaBoot(Reduced(obsidianShown, state, ObsidianMounted),
                 [stored |-> [OldSettings EXCEPT !["vaultPath"] = v], disk |-> << one, {"obsidian"} >>, rest |-> "down"],
                 Watched(watchObsidianSagas, << >>, ObsidianMounted), budget)

\* The path is saved only when none was stored.
SetupObsidian(i) ==
  /\ tasks[i].saga = "setupObsidianSaga"
  /\ LET v == tasks[i].arg
     IN  \E downloads \in BOOLEAN :
           AnswerTelling(i, [srv EXCEPT !.disk[v] = EnsureVaultPrepared(Install(@, downloads)),
                                        !.stored["vaultPath"] = IF @ = 0 THEN v ELSE @], {"report"}, FALSE)
ObsidianRunDiagnostics(i) == tasks[i].saga = "diagnosticsSaga" /\ Answer(i, srv, Report(srv))
WizardBackend(step, downloads, captured) ==
  [srv EXCEPT !.disk[Stored] = CASE step = 2 -> Install(@, downloads)
                                 [] step = 5 -> EnsureVaultPrepared(@)
                                 [] OTHER -> @,
              !.rest = IF step = 4 /\ captured /\ @ = "down" THEN "ok" ELSE @]
RunWizardStep(i) ==
  /\ tasks[i].saga = "wizardSaga"
  /\ IF Stored = 0 THEN Answer(i, srv, {})
     ELSE \E downloads \in BOOLEAN, captured \in BOOLEAN :
       LET step == tasks[i].arg
           sv == WizardBackend(step, downloads, captured)
       IN  AnswerTelling(i, sv, {ComputeNextStep(step, sv)}, FALSE)
\* Both repairs are of the stored vault, and need one.
Repair(i, d) ==
  IF Stored = 0 THEN Answer(i, srv, {}) ELSE Answer(i, [srv EXCEPT !.disk[Stored] = d], {"repaired"})
ObsidianReapplyBootstrap(i) ==
  tasks[i].saga = "reapplyBootstrapSaga" /\ Repair(i, EnsureVaultPrepared(srv.disk[Stored]))
ObsidianReinstallPlugins(i) ==
  /\ tasks[i].saga = "reinstallPluginsSaga"
  /\ \E downloads \in BOOLEAN : Repair(i, Reinstalled(srv.disk[Stored], downloads))
\* Another path is another vault: the answer of the save does not tell its diagnostics.
SaveVaultPath(i) ==
  LET saved == mapSettingsToInput(tasks[i].arg)
  IN  tasks[i].saga = "saveSettingsSaga" /\ AnswerTelling(i, [srv EXCEPT !.stored = saved], saved, FALSE)
\* The user opens the folder in Obsidian, or switches the plugins off there.
ObsidianActs ==
  /\ Idle /\ Stored # 0
  /\ \E d \in {srv.disk[Stored] \cup {"obsidian"}, srv.disk[Stored] \ {"enabled"}} :
       Outside([srv EXCEPT !.disk[Stored] = d])

(***************************************************************************)
(* The page.                                                               *)
(***************************************************************************)
ObsidianDo(a) == Dispatch(obsidianShown, watchObsidianSagas, a)
vaultPath == ui.snapshot["vaultPath"]
vaultOk == \E r \in ui.obsidian.diagnostics : r.vaultOk
\* Picking a folder saves the whole snapshot with it.  Ghost early: it was picked before
\* anything was loaded.
pickShown(next, s, a) == [obsidianShown(s, a) EXCEPT !.snapshot = next, !.early = @ \/ s.settings = {}]
pickVault ==
  \E v \in Vaults \ {vaultPath} :
    LET next == [ui.snapshot EXCEPT !["vaultPath"] = v]
    IN  DispatchAll(LAMBDA s, a : pickShown(next, s, a), watchObsidianSagas,
                    << [type |-> "SAVE_SETTINGS", settings |-> next] >>)
applySetup ==
  /\ ~vaultOk /\ vaultPath # 0 /\ ~ui.obsidian.isSetupInProgress
  /\ ObsidianDo([type |-> "SETUP_OBSIDIAN", vaultPath |-> vaultPath])
\* The button names the next step, or the current one when there is none.
runWizardStep ==
  /\ ~vaultOk /\ vaultPath # 0 /\ ~ui.wizard.isStepRunning /\ ~ui.wizard.isComplete
  /\ ObsidianDo([type |-> "RUN_WIZARD_STEP",
                 step |-> IF ui.wizard.nextStep = NoStep THEN ui.wizard.currentStep ELSE ui.wizard.nextStep])
refreshDiagnostics == vaultOk /\ ObsidianDo([type |-> "FETCH_DIAGNOSTICS"])
reapplyPressed ==
  vaultOk /\ vaultPath # 0 /\ ~ui.obsidian.isReapplyingBootstrap /\ ObsidianDo([type |-> "REAPPLY_BOOTSTRAP"])
reinstallPressed ==
  vaultOk /\ vaultPath # 0 /\ ~ui.obsidian.isReinstallingPlugins /\ ObsidianDo([type |-> "REINSTALL_PLUGINS"])
ObsidianPage ==
  \/ pickVault \/ applySetup \/ runWizardStep \/ refreshDiagnostics \/ reapplyPressed \/ reinstallPressed

ObsidianAnswers ==
  \E i \in InFlight :
    \/ LoadSettings(i) \/ SaveVaultPath(i) \/ SetupObsidian(i) \/ ObsidianRunDiagnostics(i) \/ RunWizardStep(i)
    \/ ObsidianReapplyBootstrap(i) \/ ObsidianReinstallPlugins(i)
ObsidianResumes ==
  \E i \in InState("back") :
    Resume(obsidianShown, watchObsidianSagas, i, obsidianPuts(tasks[i]), << >>, tasks[i].saga = "diagnosticsSaga")
ObsidianNext == ObsidianPage \/ ObsidianAnswers \/ ObsidianActs \/ Dropped \/ ObsidianResumes

(***************************************************************************)
(* Properties.                                                             *)
(***************************************************************************)
ObsidianTypeOK ==
  /\ ui.settings \subseteq AppSettings /\ ui.snapshot \in AppSettings /\ srv.disk \in [Vaults -> SUBSET Contents]
  /\ ui.wizard.currentStep \in 1..5 /\ ui.wizard.nextStep \in 0..5
  /\ \A r \in ui.obsidian.diagnostics : r.found \subseteq Contents
  /\ \A i \in InState("back") : \A k \in DOMAIN obsidianPuts(tasks[i]) :
       obsidianPuts(tasks[i])[k].type \in SettingsAction \cup ObsidianAction \cup ObsidianWizardActionType \cup {"NOTIFY"}

\* At rest, with nothing failed, the report the page shows is that of the stored vault, unless a
\* setup, a wizard's step, another path or Obsidian itself changed the vault after it: a repair,
\* at least, is looked at again before its spinner is forgotten.
ObsidianIsShown == Idle /\ ~drift /\ ~broken => ui.obsidian.diagnostics = {Report(srv)}

\* Each busy mark of the page and of the wizard ends with its request.
ObsidianSpinnersEnd ==
  LET runs(saga) == \E i \in Running(saga) : tasks[i].live
  IN  /\ ui.isLoading => runs("loadSettingsSaga")
      /\ ui.isSaving => runs("saveSettingsSaga")
      /\ ui.obsidian.isSetupInProgress => runs("setupObsidianSaga")
      /\ ui.obsidian.isDiagnosticsLoading => runs("diagnosticsSaga")
      /\ ui.obsidian.isReapplyingBootstrap => runs("reapplyBootstrapSaga")
      /\ ui.obsidian.isReinstallingPlugins => runs("reinstallPluginsSaga")
      /\ ui.wizard.isStepRunning => runs("wizardSaga")

\* Picking a vault resets no other setting (the snapshot of Obsidian.tsx 75-83), unless one
\* was picked before the settings were loaded; the cache lifetime again is reset by it.
VaultPickKeepsSettings == ~ui.early => \A k \in Fields \ {"vaultPath", Ttl} : srv.stored[k] # DefaultSettings[k]

\* The same whenever it was picked.
VaultPickNeverResets == \A k \in Fields \ {"vaultPath", Ttl} : srv.stored[k] # DefaultSettings[k]

\* A reinstallation that is reported as done has left the plugins installed.
ReinstalledIsInstalled ==
  toast.key = "obsidian.diagnostics.reinstallPluginsSuccess" => "installed" \in srv.disk[Stored]

\* The report the page shows at rest is that of the vault as it is, if only the page changed it.
ReportIsCurrent == Idle /\ ~broken /\ ui.obsidian.diagnostics # {} => ui.obsidian.diagnostics = {Report(srv)}
=============================================================================
