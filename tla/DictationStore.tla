----------------------------- MODULE DictationStore -----------------------------
(* The dictation slice and the dashboard that records with it, against the  *)
(* one session the backend's DictationSessionManager holds.  The refs of    *)
(* the dashboard and the promises it awaits (the microphone, the recorder's *)
(* stop, the injection) are modelled beside the sagas; the audio is not.    *)
EXTENDS Sagas, FiniteSets

CONSTANTS MaxSessions                   \* bound: sessions the backend starts

NoSession == 0
Phases == {"idle", "starting", "active", "stopping", "cancelling", "stopped", "failed"}

\* home, mount, held, recording, mics: the dashboard is mounted, for the how manieth time, its
\* sessionRef, whether the recorder there runs, and the streams that were opened and not stopped.
initialDictationState ==
  [phase |-> "idle", session |-> NoSession, persist |-> FALSE, text |-> FALSE,
   home |-> TRUE, mount |-> 0, held |-> NoSession, recording |-> FALSE, mics |-> 0]
DictationAction ==
  {"DICTATION_START_REQUESTED", "DICTATION_STARTED", "DICTATION_STOP_REQUESTED", "DICTATION_STOPPED", "DICTATION_FAILED",
   "DICTATION_RESET", "DICTATION_CANCEL_REQUESTED", "DICTATION_CANCELLED", "DICTATION_CANCEL_FAILED"}

dictationReducer(s, a) ==
  CASE a.type = "DICTATION_START_REQUESTED" /\ s.phase = "idle" -> [s EXCEPT !.phase = "starting", !.persist = a.persist]
    [] a.type = "DICTATION_STARTED" /\ s.phase = "starting" -> [s EXCEPT !.phase = "active", !.session = a.id]
    [] a.type = "DICTATION_STOP_REQUESTED" /\ s.phase = "active" -> [s EXCEPT !.phase = "stopping"]
    [] a.type = "DICTATION_STOPPED" /\ s.phase = "stopping" -> [s EXCEPT !.phase = "stopped", !.session = NoSession, !.text = a.text]
    [] a.type = "DICTATION_FAILED" /\ s.phase \in {"starting", "active", "stopping"} ->
         [s EXCEPT !.phase = "failed", !.session = NoSession, !.persist = FALSE]
    [] \/ a.type = "DICTATION_RESET" /\ s.phase \in {"stopped", "failed"}
       \/ a.type \in {"DICTATION_CANCELLED", "DICTATION_CANCEL_FAILED"} ->
         [s EXCEPT !.phase = "idle", !.session = NoSession, !.persist = FALSE, !.text = FALSE]
    [] a.type = "DICTATION_CANCEL_REQUESTED" /\ s.phase \in {"active", "stopping"} -> [s EXCEPT !.phase = "cancelling"]
    [] OTHER -> s

\* The dashboard's own state.  A dashboard that was left no longer changes the one that is there.
dashboardReducer(s, a) ==
  CASE a.type = "MICROPHONE_OPENED" -> [s EXCEPT !.held = a.id, !.recording = TRUE, !.mics = @ + 1]
    [] a.type = "RECORDER_STOPPED" -> [s EXCEPT !.recording = FALSE, !.mics = IF s.recording THEN @ - 1 ELSE @]
    [] a.type = "SESSION_FORGOTTEN" /\ a.mount = s.mount -> [s EXCEPT !.held = NoSession, !.recording = FALSE]
    [] a.type = "LEFT" -> [s EXCEPT !.home = FALSE, !.mount = @ + 1, !.held = NoSession, !.recording = FALSE]
    [] a.type = "OPENED" -> [s EXCEPT !.home = TRUE]
    [] OTHER -> dictationReducer(s, a)

\* The stop and the cancel saga select the status first, and end unless it is theirs (`id`).
watchDictationSagas(ts, a) ==
  CASE a.type = "DICTATION_START_REQUESTED" -> takeEvery(ts, gqlRequest("dictationStartSaga", Nothing))
    [] a.type = "DICTATION_STOP_REQUESTED" /\ a.id # NoSession -> takeEvery(ts, gqlRequest("dictationStopSaga", a.id))
    [] a.type = "DICTATION_CANCEL_REQUESTED" /\ a.id # NoSession -> takeEvery(ts, gqlRequest("dictationCancelSaga", a.id))
    [] OTHER -> ts

StartRequested(persist) == [type |-> "DICTATION_START_REQUESTED", persist |-> persist]
StopRequested ==
  [type |-> "DICTATION_STOP_REQUESTED", id |-> IF ui.phase \in {"active", "stopping"} THEN ui.session ELSE NoSession]
CancelRequested ==
  [type |-> "DICTATION_CANCEL_REQUESTED",
   id |-> IF ui.phase \in {"active", "stopping", "cancelling"} THEN ui.session ELSE NoSession]
DictationFailed == [type |-> "DICTATION_FAILED"]
Forgotten(mount) == [type |-> "SESSION_FORGOTTEN", mount |-> mount]

\* Mutant: a start that brings no session is taken for one.
dictationStartUnchecked(t) ==
  << IF t.ok THEN [type |-> "DICTATION_STARTED", id |-> t.ans] ELSE DictationFailed >>
dictationStartSaga(t) ==
  << IF t.ok /\ t.ans # NoSession THEN [type |-> "DICTATION_STARTED", id |-> t.ans] ELSE DictationFailed >>
dictationStopSaga(t) == << IF t.ok THEN [type |-> "DICTATION_STOPPED", text |-> t.ans] ELSE DictationFailed >>
dictationCancelSaga(t) ==
  IF t.ok THEN << [type |-> "DICTATION_CANCELLED"] >> ELSE << [type |-> "DICTATION_CANCEL_FAILED"], notifyError >>
\* The microphone is given back at once when the status has changed since it was asked for;
\* when it is refused, the session of whatever status there is fails.
microphone(t) ==
  CASE ~t.ok -> << DictationFailed, Forgotten(t.arg.mount) >>
    [] t.ok /\ t.arg = [id |-> ui.session, mount |-> ui.mount] /\ ui.phase = "active" ->
         << [type |-> "MICROPHONE_OPENED", id |-> ui.session] >>
    [] OTHER -> << >>
dictationPuts(t) ==
  CASE t.saga = "dictationStartSaga" -> dictationStartSaga(t)
    [] t.saga = "dictationStopSaga" -> dictationStopSaga(t)
    [] t.saga = "dictationCancelSaga" -> dictationCancelSaga(t)
    [] t.saga = "getUserMedia" -> microphone(t)
    [] t.saga = "recorderStop" -> << StopRequested >>
    [] t.saga = "dictationInject" -> << Forgotten(t.arg), [type |-> "DICTATION_RESET"] >>

(***************************************************************************)
(* The backend: the active session, and the number of sessions started.    *)
(* Ghost: upset, a start was asked for while the dictation was not idle, a  *)
(* microphone was refused, a cancel was asked for twice, or the dashboard   *)
(* was left while it recorded.                                             *)
(***************************************************************************)
DictationStoreInit(budget) ==
  SagaInit(initialDictationState, [active |-> NoSession, started |-> 0, upset |-> FALSE], budget)
Upset(sv) == [sv EXCEPT !.upset = TRUE]

DictationStart(i) ==
  /\ tasks[i].saga = "dictationStartSaga"
  /\ IF srv.active # NoSession THEN Answer(i, srv, NoSession)
     ELSE /\ srv.started < MaxSessions
          /\ Answer(i, [srv EXCEPT !.active = srv.started + 1, !.started = @ + 1], srv.started + 1)
\* The errors of the payload are not looked at: a session that is not there has no text.
DictationStop(i) ==
  /\ tasks[i].saga = "dictationStopSaga"
  /\ IF srv.active = tasks[i].arg THEN \E text \in BOOLEAN : Answer(i, [srv EXCEPT !.active = NoSession], text)
                                  ELSE Answer(i, srv, FALSE)
DictationCancel(i) ==
  /\ tasks[i].saga = "dictationCancelSaga"
  /\ Answer(i, IF srv.active = tasks[i].arg THEN [srv EXCEPT !.active = NoSession] ELSE srv, Nothing)

(***************************************************************************)
(* The dashboard.                                                          *)
(***************************************************************************)
DictationDo(actions) == DispatchAll(dashboardReducer, watchDictationSagas, actions)
\* stopRecording: the recorder and its stream are stopped, the recorder's stop event awaited, and
\* the stop requested; a recorder that has stopped already throws, and the stop is requested at once.
Awaited(saga, arg) == \* a promise the dashboard awaits, made by a handler
  /\ moves > 0
  /\ moves' = moves - 1
  /\ ui' = dashboardReducer(ui, [type |-> "RECORDER_STOPPED"])
  /\ tasks' = Append(tasks, gqlRequest(saga, arg))
  /\ toast' = NoToast
  /\ UNCHANGED <<srv, drift, broken>>
\* A request whose action the reducer may ignore; its saga runs all the same.
Pressed(a, upset) ==
  /\ moves > 0 /\ Len(tasks) < MaxTasks
  /\ moves' = moves - 1
  /\ ui' = dashboardReducer(ui, a)
  /\ tasks' = watchDictationSagas(tasks, a)
  /\ srv' = IF upset THEN Upset(srv) ELSE srv
  /\ toast' = NoToast
  /\ UNCHANGED <<drift, broken>>
stopRecording ==
  CASE ui.held = NoSession -> DictationDo(<< [type |-> "DICTATION_RESET"] >>)
    [] ui.held # NoSession /\ ui.recording -> Awaited("recorderStop", ui.mount)
    [] OTHER -> DictationDo(<< StopRequested >>)
toggleRecord ==
  /\ ui.home
  /\ \/ ui.phase = "idle" /\ DictationDo(<< StartRequested(TRUE) >>)
     \/ ui.phase = "active" /\ stopRecording
handleGlobalHotkey ==
  /\ ui.home
  /\ IF ui.held # NoSession THEN stopRecording ELSE Pressed(StartRequested(FALSE), ui.phase # "idle")
onRelease == ui.home /\ ui.held # NoSession /\ stopRecording
\* The button of the dashboard while it records, and the overlay at any time: a second one goes
\* to the backend as well.
cancelPressed == Pressed(CancelRequested, ui.phase = "cancelling")
\* Another page is opened, and the dashboard again.
DashboardLeft ==
  /\ ui.home /\ moves > 0
  /\ moves' = moves - 1
  /\ ui' = dashboardReducer(ui, [type |-> "LEFT"])
  /\ srv' = IF ui.phase # "idle" THEN Upset(srv) ELSE srv
  /\ UNCHANGED <<tasks, toast, drift, broken>>
DashboardOpened == ~ui.home /\ DictationDo(<< [type |-> "OPENED"] >>)

\* The effects of React, which it runs with the render, before anything else happens.
Starts ==                                          \* the active status asks for the microphone
  /\ ui.home /\ ui.phase = "active" /\ ui.held # ui.session
  /\ ~\E i \in Running("getUserMedia") : tasks[i].arg = [id |-> ui.session, mount |-> ui.mount]
Stops == ui.home /\ ui.phase = "stopped" /\ ~\E i \in Running("dictationInject") : tasks[i].arg = ui.mount
Fails == ui.home /\ ui.phase = "failed"
Cancels == ui.home /\ ui.phase = "cancelling" /\ ui.held # NoSession
DashboardAwaits(saga, arg) ==
  /\ tasks' = Append(tasks, gqlRequest(saga, arg))
  /\ UNCHANGED <<ui, srv, toast, drift, broken, moves>>
DictationEffect(actions) == Effect(dashboardReducer, watchDictationSagas, actions)
StartsEffect == Starts /\ DashboardAwaits("getUserMedia", [id |-> ui.session, mount |-> ui.mount])
StopsEffect ==
  Stops /\ IF ui.text /\ ~ui.persist THEN DashboardAwaits("dictationInject", ui.mount)
           ELSE DictationEffect(<< Forgotten(ui.mount), [type |-> "DICTATION_RESET"] >>)
\* The ref is dropped, and the recorder it held is not stopped.
FailsEffect == Fails /\ DictationEffect(<< Forgotten(ui.mount), [type |-> "DICTATION_RESET"] >>)
\* Mutant: a cancelled session is forgotten with its recorder running.
CancelsForgetting == Cancels /\ DictationEffect(<< Forgotten(ui.mount) >>)
CancelsEffect == Cancels /\ DictationEffect(<< [type |-> "RECORDER_STOPPED"], Forgotten(ui.mount) >>)

Promises == Running("getUserMedia") \cup Running("recorderStop") \cup Running("dictationInject")
MicrophoneRefused(i) ==
  /\ tasks[i].saga = "getUserMedia"
  /\ Deliver(tasks, i, FALSE, Nothing)
  /\ srv' = Upset(srv)
  /\ UNCHANGED <<ui, toast, drift, broken, moves>>
\* The recorder's stop event is not waited for as long as an answer of the backend.
DictationAnswers ==
  \E i \in InState("call") :
    \/ Running("recorderStop") = {} /\ (DictationStart(i) \/ DictationStop(i) \/ DictationCancel(i))
    \/ i \in Promises /\ Elapse(i)
    \/ MicrophoneRefused(i)
    \/ i \notin Promises /\ Unreached(i)
DictationResumes ==
  \E i \in InState("back") :
    Resume(dashboardReducer, watchDictationSagas, i, dictationPuts(tasks[i]), << >>, FALSE)
DictationStoreNext ==
  \/ StartsEffect \/ StopsEffect \/ FailsEffect \/ CancelsEffect
  \/ /\ ~(Starts \/ Stops \/ Fails \/ Cancels)
     /\ \/ toggleRecord \/ handleGlobalHotkey \/ onRelease \/ cancelPressed \/ DashboardLeft \/ DashboardOpened
        \/ DictationAnswers \/ DictationResumes

(***************************************************************************)
(* Properties.                                                             *)
(***************************************************************************)
DictationStoreTypeOK ==
  /\ ui.phase \in Phases /\ {ui.session, ui.held, srv.active} \subseteq 0 .. MaxSessions
  /\ {ui.persist, ui.text, ui.home, ui.recording} \subseteq BOOLEAN /\ ui.mics \in Nat
  /\ ui.session # NoSession <=> ui.phase \in {"active", "stopping", "cancelling"}
  /\ \A i \in InState("back") : \A k \in DOMAIN dictationPuts(tasks[i]) :
       dictationPuts(tasks[i])[k].type \in
         DictationAction \cup {"NOTIFY", "MICROPHONE_OPENED", "SESSION_FORGOTTEN"}

\* No phase lasts for ever: while it starts, stops or cancels, a saga runs that will end it,
\* whatever was pressed, refused or lost.
DictationPhasesEnd ==
  /\ ui.phase = "starting" => Running("dictationStartSaga") # {}
  /\ ui.phase = "stopping" => \E i \in Running("dictationStopSaga") : tasks[i].arg = ui.session
  /\ ui.phase = "cancelling" => \E i \in Running("dictationCancelSaga") : tasks[i].arg = ui.session

\* The backend has no session that the dashboard forgot, which would refuse every start to come.
SessionIsOwned ==
  ui.phase = "idle" /\ Idle => srv.active = NoSession
\* A stream that was opened and not stopped is the one of the recorder that runs: the
\* microphone is off when nothing is recorded.
MicrophoneIsReleased == ui.mics = (IF ui.recording THEN 1 ELSE 0)
\* Both, as long as no request failed, no microphone was refused, no start was asked for while
\* another ran, no cancel twice, and the dashboard was not left during one.
SessionIsOwnedInOrder == ~broken /\ ~srv.upset => SessionIsOwned
MicrophoneIsReleasedInOrder == ~broken /\ ~srv.upset => MicrophoneIsReleased
==================================================================================
