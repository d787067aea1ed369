--------------------------- MODULE OnboardingStore ---------------------------
(* The onboarding slice with its probes, the onboarding page and the guard  *)
(* that sends every other page to it, over the models slice, which the      *)
(* page's models step loads and blocks on.  Every model of the catalogue is *)
(* of the bundle.                                                           *)
EXTENDS ModelsStore

CONSTANTS DownloadsAgain          \* bound: may the user press "download all" while a download runs

ALL_STEPS == << "welcome", "tryItNow", "models", "llm", "obsidian", "mic", "dictation", "ready" >>
stepsForPlatform(platform) ==
  IF platform = "macos" THEN ALL_STEPS ELSE SelectSeq(ALL_STEPS, LAMBDA s : s \notin {"mic", "dictation"})
isRequiredStep(step) == step \in {"welcome", "tryItNow", "models", "ready"}

Probes == {"llmHealthProbe", "obsidianDetectProbe", "audioCapabilitiesProbe"}
NoProbe == "none"
\* A probe found what it looks for, or it did not, or it has not answered yet.
Findings == {"yes", "no", "unknown"}
initialOnboardingState ==
  [completed |-> FALSE, currentStepIndex |-> 0, error |-> FALSE, probed |-> [p \in Probes |-> "unknown"]]
OnboardingAction ==
  {"SET_STEP", "NEXT_STEP", "COMPLETE_ONBOARDING", "RESET_ONBOARDING", "COMPLETION_LOADED", "COMPLETION_PERSIST_FAILED",
   "START_PROBE", "STOP_PROBE", "PROBE_UPDATED"}

advance(s, max) == [s EXCEPT !.currentStepIndex = IF @ < max THEN @ + 1 ELSE max]
onboardingReducer(s, a) ==
  CASE a.type = "SET_STEP" -> [s EXCEPT !.currentStepIndex = a.index]
    [] a.type = "NEXT_STEP" -> advance(s, a.max)
    [] a.type = "COMPLETE_ONBOARDING" -> [s EXCEPT !.completed = TRUE, !.error = FALSE]
    [] a.type = "RESET_ONBOARDING" -> initialOnboardingState
    [] a.type = "COMPLETION_LOADED" -> [s EXCEPT !.completed = a.completed]
    [] a.type = "COMPLETION_PERSIST_FAILED" -> [s EXCEPT !.error = TRUE]
    [] a.type = "PROBE_UPDATED" -> [s EXCEPT !.probed[a.probe] = a.found]
    [] OTHER -> s

\* persistCompletionSaga runs inside the dispatch: it writes the flag, or it says that it could not.
persistCompletionSaga(written) ==
  << [type |-> "COMPLETE_ONBOARDING", written |-> written] >>
  \o (IF written THEN << >> ELSE << [type |-> "COMPLETION_PERSIST_FAILED"] >>)
\* The page is mounted or not (a pseudo action of the router); the flag is the browser's storage.
onboardingShown(s, a) ==
  LET r == modelsReducer(s, a)
  IN  [r EXCEPT !.onboarding = onboardingReducer(@, a),
                !.mounted = IF a.type = "NAVIGATE" THEN a.here ELSE @,
                !.stored = @ \/ (a.type = "COMPLETE_ONBOARDING" /\ a.written)]

\* A probe polls until it is stopped; starting it again stops the one before.
watchOnboardingSagas(ts, a) ==
  CASE a.type = "START_PROBE" -> takeLatestQuery(ts, gqlRequest(a.probe, "poll"))
    [] a.type = "STOP_PROBE" -> SelectSeq(ts, LAMBDA t : t.saga # a.probe)
    [] OTHER -> watchModelsSagas(ts, a)
\* pollLoop: what was found is put, a request that fails has found nothing, and after a delay it asks again.
pollLoop(t) == << [type |-> "PROBE_UPDATED", probe |-> t.saga, found |-> IF t.ok THEN t.ans ELSE "no"] >>
pollDelay(t) == << gqlRequest(t.saga, "delay") >>
onboardingPuts(t) == IF t.saga \in Probes THEN pollLoop(t) ELSE modelsPuts(t)

(***************************************************************************)
(* The page.                                                               *)
(***************************************************************************)
steps(s) == stepsForPlatform(s.platform)
lastIndex(s) == Len(steps(s)) - 1
currentStep(s) == IF s.mounted THEN steps(s)[s.onboarding.currentStepIndex + 1] ELSE "elsewhere"
ProbeOf(step) ==
  CASE step = "llm" -> "llmHealthProbe"
    [] step = "obsidian" -> "obsidianDetectProbe"
    [] step \in {"mic", "dictation"} -> "audioCapabilitiesProbe"
    [] OTHER -> NoProbe
\* The hooks' effects when the step has changed: what was started is stopped first.
stepEffects(from, to) ==
  LET changed == ProbeOf(from) # ProbeOf(to)
  IN  (IF changed /\ ProbeOf(from) # NoProbe THEN << [type |-> "STOP_PROBE", probe |-> ProbeOf(from)] >> ELSE << >>)
      \o (IF changed /\ ProbeOf(to) # NoProbe THEN << [type |-> "START_PROBE", probe |-> ProbeOf(to)] >> ELSE << >>)
      \o (IF to = "models" /\ from # to THEN << [type |-> "LOAD_MODELS"] >> ELSE << >>)
\* Every dispatch of the page is followed by the effects of the step it leads to.
OnboardingDo(actions) ==
  LET after == Reduced(onboardingShown, ui, actions)
  IN  DispatchAll(onboardingShown, watchOnboardingSagas, actions \o stepEffects(currentStep(ui), currentStep(after)))
Left == << [type |-> "NAVIGATE", here |-> FALSE] >>
Complete == \E written \in BOOLEAN : OnboardingDo(persistCompletionSaga(written) \o Left)

missingBundleModels == {c \in DOMAIN ui.byId : ~ui.byId[c]}
modelsBlockingNext == currentStep(ui) = "models" /\ missingBundleModels # {}
next ==
  /\ ui.mounted /\ ~modelsBlockingNext
  /\ IF ui.onboarding.currentStepIndex >= lastIndex(ui) THEN Complete
     ELSE OnboardingDo(<< [type |-> "NEXT_STEP", max |-> lastIndex(ui)] >>)
skip == ui.mounted /\ ~isRequiredStep(currentStep(ui)) /\ Complete
\* The flag that disables the button is set and cleared within one handler.
handleDownloadAll ==
  /\ currentStep(ui) = "models" /\ missingBundleModels # {}
  /\ \A c \in missingBundleModels : CanRequest(c)
  /\ DownloadsAgain \/ (srv.jobs = << >> /\ Running("downloadModelSaga") = {})
  /\ OnboardingDo([k \in 1..Cardinality(missingBundleModels) |->
                     [type |-> "DOWNLOAD_MODEL_REQUESTED", model |-> SetToSeq(missingBundleModels)[k]]])
OnboardingPage == next \/ skip \/ handleDownloadAll
\* The sidebar completes the onboarding before it leads away; its other button starts it again.
onNavClick == ui.mounted /\ ~ui.onboarding.completed /\ Complete
onRestartOnboarding == OnboardingDo(<< [type |-> "RESET_ONBOARDING"], [type |-> "NAVIGATE", here |-> TRUE] >>)
\* OnboardingCompleteGuard: any other page is the onboarding until it is completed.
OnboardingCompleteGuard(s) == s.mounted \/ s.onboarding.completed

\* Nothing was loaded, the guard has led to the page, and it is at one of its steps; the flag may
\* be stored from an earlier run of the application.
OnboardingInit(budget) ==
  \E platform \in {"macos", "linux"}, index \in 0..7, stored \in BOOLEAN :
    LET s == initialModelsState @@ [onboarding |-> [initialOnboardingState EXCEPT !.currentStepIndex = index],
                 platform |-> platform, mounted |-> TRUE, stored |-> stored]
    IN  /\ index <= lastIndex(s)
        /\ LET effects == stepEffects("elsewhere", currentStep(s))
           IN  SagaStart(Reduced(onboardingShown, s, effects),
                         [jobs |-> << >>, installed |-> {}, joined |-> {}, found |-> [p \in Probes |-> "no"]],
                         Watched(watchOnboardingSagas, << >>, effects), FALSE, budget)

(***************************************************************************)
(* What the probes ask.                                                    *)
(***************************************************************************)
Probe(i) ==
  /\ tasks[i].saga \in Probes /\ tasks[i].arg = "poll"
  /\ Answer(i, srv, srv.found[tasks[i].saga])
ProbeWaits(i) ==
  /\ tasks[i].saga \in Probes /\ tasks[i].arg = "delay"
  /\ tasks' = [tasks EXCEPT ![i] = gqlRequest(tasks[i].saga, "poll")]
  /\ UNCHANGED <<ui, srv, toast, drift, broken, moves>>
\* The user starts the model's server, opens a vault or gives a permission.
ProbedChanges == \E p \in Probes : ProbeOf(currentStep(ui)) = p /\ Outside([srv EXCEPT !.found[p] = "yes"])

OnboardingAnswers ==
  \/ \E i \in InState("call") : Models(i) \/ DownloadNow(i) \/ Probe(i) \/ ProbeWaits(i)
  \/ \E i \in InState("call") \ Running("lingering") : tasks[i].arg # "delay" /\ Unreached(i)
OnboardingResumes ==
  \E i \in InState("back") :
    Resume(onboardingShown, watchOnboardingSagas, i, onboardingPuts(tasks[i]),
           IF tasks[i].saga \in Probes THEN pollDelay(tasks[i]) ELSE << >>, tasks[i].saga \in Probes)
OnboardingConsume ==
  \E i \in DOMAIN tasks :
    \/ Buffered(i) /\ Take(onboardingShown, watchOnboardingSagas, i, consumeProgress(tasks[i]), consumerNext(tasks[i]))
    \/ Ended(i) /\ Take(onboardingShown, watchOnboardingSagas, i, << >>, << >>)
OnboardingNext ==
  \/ OnboardingPage \/ onNavClick \/ onRestartOnboarding \/ ProbedChanges
  \/ OnboardingAnswers \/ OnboardingResumes \/ OnboardingConsume \/ Coordinator \/ Streams \/ Delays

(***************************************************************************)
(* Properties.                                                             *)
(***************************************************************************)
OnboardingTypeOK ==
  /\ ui.onboarding.currentStepIndex \in 0..lastIndex(ui) /\ ui.onboarding.probed \in [Probes -> Findings]
  /\ \A i \in InState("back") : \A k \in DOMAIN onboardingPuts(tasks[i]) :
       onboardingPuts(tasks[i])[k].type \in ModelsAction \cup OnboardingAction \cup {"NOTIFY"}

\* Exactly the probe of the step the page shows runs, once; none runs when the page was left.
ProbesFollowStep ==
  \A p \in Probes : Cardinality(Running(p)) = IF ProbeOf(currentStep(ui)) = p THEN 1 ELSE 0

\* While a probe waits for its next poll, what it found is shown, unless that changed since it asked.
ProbedIsShown ==
  LET p == ProbeOf(currentStep(ui))
      waits == p # NoProbe /\ \A i \in Running(p) : tasks[i].arg = "delay"
  IN  waits /\ ~drift /\ ~broken => ui.onboarding.probed[p] = srv.found[p]

\* No page but the onboarding is reached before the onboarding is completed.
GuardHolds == OnboardingCompleteGuard(ui)

\* The models step is passed only when every model of the bundle is installed (of a step).
ModelsStepHolds ==
  ui'.onboarding.currentStepIndex > ui.onboarding.currentStepIndex /\ currentStep(ui) = "models" => srv.installed = CatalogueIds
\* An onboarding that was once completed is not asked for at the next start (of the initial states).
CompletionIsRemembered == ui.stored => ui.onboarding.completed
\* A model is asked for by one request at a time.
OneDownloadPerModel ==
  \A i, j \in Running("downloadModelSaga") : tasks[i].arg = tasks[j].arg => i = j
=============================================================================
