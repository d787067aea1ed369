-------------------------- MODULE MonitoringStore --------------------------
(* The monitoring slice, its page, and the backend's runtime state: whether *)
(* the LLM is online, as the last probe found it or as the cached           *)
(* capabilities have it.  The services of the desktop shell are always      *)
(* empty: the mutation that main.ts sends selects a field its payload has   *)
(* not, so the backend refuses it.                                          *)
EXTENDS Sagas, FiniteSets

CONSTANTS MAX_RECONNECT_ATTEMPTS  \* bound: the code makes 5 attempts

Unknown == "unknown"
initialMonitoringState ==
  [runtimeState |-> Unknown, isLoading |-> FALSE, isSubscribed |-> FALSE, isReprobing |-> FALSE, error |-> FALSE]
MonitoringAction ==
  {"MONITORING_LOAD_REQUESTED", "MONITORING_LOAD_SUCCEEDED", "MONITORING_LOAD_FAILED", "MONITORING_SUBSCRIBE",
   "MONITORING_UNSUBSCRIBE", "MONITORING_STATE_UPDATED", "MONITORING_REPROBE_REQUESTED", "MONITORING_REPROBE_SUCCEEDED",
   "MONITORING_REPROBE_FAILED"}
monitoringReducer(s, a) ==
  CASE a.type = "MONITORING_LOAD_REQUESTED" -> [s EXCEPT !.isLoading = TRUE, !.error = FALSE]
    [] a.type = "MONITORING_LOAD_SUCCEEDED" -> [s EXCEPT !.isLoading = FALSE, !.runtimeState = a.online, !.error = FALSE]
    [] a.type = "MONITORING_LOAD_FAILED" -> [s EXCEPT !.isLoading = FALSE, !.error = TRUE]
    [] a.type = "MONITORING_SUBSCRIBE" -> [s EXCEPT !.isSubscribed = TRUE]
    [] a.type = "MONITORING_UNSUBSCRIBE" -> [s EXCEPT !.isSubscribed = FALSE]
    [] a.type = "MONITORING_STATE_UPDATED" -> [s EXCEPT !.runtimeState = a.online]
    [] a.type = "MONITORING_REPROBE_REQUESTED" -> [s EXCEPT !.isReprobing = TRUE]
    [] a.type = "MONITORING_REPROBE_SUCCEEDED" -> [s EXCEPT !.isReprobing = FALSE]
    [] a.type = "MONITORING_REPROBE_FAILED" -> [s EXCEPT !.isReprobing = FALSE, !.error = TRUE]
    [] OTHER -> s

(***************************************************************************)
(* subscribeRuntimeStateSaga is, one after the other, the channel with its *)
(* consumer and the race against MONITORING_UNSUBSCRIBE, and the backoff,  *)
(* which races against nothing; its argument is the attempt.               *)
(***************************************************************************)
Follows(t) == t.saga = "subscribeRuntimeStateSaga"
channelAt(attempt) == gqlSubscriptionChannel("subscribeRuntimeStateSaga", attempt)
backoffAt(attempt) == gqlRequest("subscribeRuntimeStateSaga", attempt)
unsubscribe(ts) == SelectSeq(ts, LAMBDA t : ~(Follows(t) /\ t.pc \in {"dial", "open"}))
watchMonitoringSagas(ts, a) ==
  CASE a.type = "MONITORING_LOAD_REQUESTED" -> takeLatestQuery(ts, gqlRequest("loadRuntimeStateSaga", Nothing))
    [] a.type = "MONITORING_SUBSCRIBE" -> takeLatestQuery(ts, channelAt(0))
    [] a.type = "MONITORING_UNSUBSCRIBE" -> unsubscribe(ts)
    [] a.type = "MONITORING_REPROBE_REQUESTED" -> takeLatest(ts, gqlRequest("reprobeRuntimeStateSaga", Nothing))
    [] OTHER -> ts

Succeeded(online) == [type |-> "MONITORING_LOAD_SUCCEEDED", online |-> online]
loadRuntimeStateSaga(t) == << IF t.ok THEN Succeeded(t.ans) ELSE [type |-> "MONITORING_LOAD_FAILED"] >>
reprobeRuntimeStateSaga(t) ==
  IF t.ok THEN << [type |-> "MONITORING_REPROBE_SUCCEEDED"], Succeeded(t.ans) >> ELSE << [type |-> "MONITORING_REPROBE_FAILED"] >>
givesUp(t) == t.arg >= MAX_RECONNECT_ATTEMPTS
monitoringPuts(t) ==
  CASE t.saga = "loadRuntimeStateSaga" -> loadRuntimeStateSaga(t)
    [] t.saga = "reprobeRuntimeStateSaga" -> reprobeRuntimeStateSaga(t)
    [] Follows(t) -> IF givesUp(t) THEN << [type |-> "MONITORING_LOAD_FAILED"] >> ELSE << >>
subscribeRuntimeStateSaga(t) == IF Follows(t) /\ ~givesUp(t) THEN << channelAt(t.arg) >> ELSE << >>

(***************************************************************************)
(* The page.                                                               *)
(***************************************************************************)
\* The effect of the mounted page, and its clean-up; the saga's first put is part of it.
monitoringShown(s, a) ==
  [s EXCEPT !.monitoring = monitoringReducer(@, a),
            !.mounted = IF a.type = "MONITORING_SUBSCRIBE" THEN TRUE ELSE IF a.type = "MONITORING_UNSUBSCRIBE" THEN FALSE ELSE @]
MonitoringDo(actions) == DispatchAll(monitoringShown, watchMonitoringSagas, actions)
Opens == << [type |-> "MONITORING_SUBSCRIBE"], [type |-> "MONITORING_LOAD_REQUESTED"] >>
MonitoringOpened == ~ui.mounted /\ MonitoringDo(Opens)
MonitoringLeft == ui.mounted /\ MonitoringDo(<< [type |-> "MONITORING_UNSUBSCRIBE"] >>)
onReprobe == ui.mounted /\ ~ui.monitoring.isReprobing /\ MonitoringDo(<< [type |-> "MONITORING_REPROBE_REQUESTED"] >>)
MonitoringPage == MonitoringOpened \/ MonitoringLeft \/ onReprobe

(***************************************************************************)
(* The backend: whether the LLM answers, the capabilities that were cached *)
(* when it once did, and what it has told last.                            *)
(***************************************************************************)
MonitoringInit(budget) ==
  \E reachable, cached \in BOOLEAN :
    SagaInit([monitoring |-> initialMonitoringState, mounted |-> FALSE],
             [reachable |-> reachable, cached |-> cached, told |-> Unknown, probed |-> Unknown], budget)

BuildCurrentState == IF srv.cached THEN "online" ELSE "offline"
RuntimeState(i) ==
  tasks[i].saga = "loadRuntimeStateSaga" /\ Answer(i, [srv EXCEPT !.told = BuildCurrentState], BuildCurrentState)
\* The probe ends, its result is published to the open channels, and then answered.
ReprobeAsync(i) ==
  /\ tasks[i].saga = "reprobeRuntimeStateSaga"
  /\ \/ /\ tasks[i].pc = "call"
        /\ LET found == IF srv.reachable THEN "online" ELSE "offline"
           IN  Broadcast([tasks EXCEPT ![i].pc = "half", ![i].ans = found],
                         [srv EXCEPT !.cached = @ \/ srv.reachable, !.told = found, !.probed = found], Follows, found)
     \/ tasks[i].pc = "half" /\ Answer(i, [srv EXCEPT !.told = tasks[i].ans], tasks[i].ans)
\* The LLM's server is started or stopped.
LlmChanges ==
  /\ moves > 0 /\ moves' = moves - 1
  /\ srv' = [srv EXCEPT !.reachable = ~@]
  /\ UNCHANGED <<ui, tasks, toast, drift, broken>>
\* The socket is given up; as a loss that may happen again and again.
ChannelEnds(i) ==
  /\ moves > 0 /\ moves' = moves - 1
  /\ tasks[i].pc \in {"dial", "open"} /\ tasks[i].ok
  /\ tasks' = [tasks EXCEPT ![i].ok = FALSE]
  /\ UNCHANGED <<ui, srv, toast, drift, broken>>

MonitoringAnswers ==
  \/ \E i \in InFlight : (tasks[i].pc = "call" /\ RuntimeState(i)) \/ ReprobeAsync(i) \/ (Follows(tasks[i]) /\ Elapse(i))
  \/ \E i \in InState("call") : ~Follows(tasks[i]) /\ Unreached(i)
MonitoringResumes ==
  \E i \in InState("back") :
    Resume(monitoringShown, watchMonitoringSagas, i, monitoringPuts(tasks[i]), subscribeRuntimeStateSaga(tasks[i]),
           ~Follows(tasks[i]))
consumeRuntimeStateEvents(i) ==
  /\ Buffered(i)
  /\ Take(monitoringShown, watchMonitoringSagas, i,
       << [type |-> "MONITORING_STATE_UPDATED", online |-> Head(tasks[i].ans)] >>, << rest(tasks[i]) >>)
channelClosed(i) == Ended(i) /\ Take(monitoringShown, watchMonitoringSagas, i, << >>, << backoffAt(tasks[i].arg + 1) >>)
MonitoringStream ==
  \/ \E i \in Channels : consumeRuntimeStateEvents(i) \/ channelClosed(i) \/ ChannelEnds(i)
  \/ Socket
MonitoringNext == MonitoringPage \/ LlmChanges \/ MonitoringAnswers \/ MonitoringResumes \/ MonitoringStream

(***************************************************************************)
(* Properties.                                                             *)
(***************************************************************************)
MonitoringTypeOK ==
  /\ ui.monitoring \in [runtimeState : {"online", "offline", Unknown}, isLoading : BOOLEAN, isSubscribed : BOOLEAN,
                        isReprobing : BOOLEAN, error : BOOLEAN]
  /\ \A i \in InState("back") : \A k \in DOMAIN monitoringPuts(tasks[i]) : monitoringPuts(tasks[i])[k].type \in MonitoringAction

FollowersOf(pcs) == {i \in Running("subscribeRuntimeStateSaga") : tasks[i].pc \in pcs}
\* A page that is followed and has no request under way shows what the backend told last, unless
\* that was lost.
MonitoringIsShown ==
  LET quiet == InFlight \cup InState("back") = {} /\ ~\E i \in DOMAIN tasks : Buffered(i)
  IN  quiet /\ FollowersOf({"open"}) # {} /\ ~drift /\ ~broken => ui.monitoring.runtimeState = srv.told
\* The busy marks of the page last no longer than their requests.
MonitoringSpinnersEnd ==
  /\ ui.monitoring.isLoading => Running("loadRuntimeStateSaga") # {}
  /\ ui.monitoring.isReprobing => \E i \in Running("reprobeRuntimeStateSaga") : tasks[i].live
\* The state is followed once.  The page that is shown is followed, or the slice claims to be
\* subscribed after the attempts were used up; a page that was left has a channel only after a
\* backoff that its leaving did not end.
FollowedByOne ==
  /\ Cardinality(Running("subscribeRuntimeStateSaga")) <= 1
  /\ ~ui.mounted => \A i \in FollowersOf({"dial", "open"}) : tasks[i].arg > 0
\* The same without the exception: a page that was left is not followed.
LeftIsUnsubscribed == ~ui.mounted => FollowersOf({"dial", "open"}) = {}
\* The slice is subscribed while, and only while, its saga follows the state.
SubscribedIsTold == ui.monitoring.isSubscribed <=> Running("subscribeRuntimeStateSaga") # {}
\* The backend does not tell that the LLM is online when the last probe did not reach it.
ProbeIsRemembered == srv.probed # Unknown /\ srv.told # Unknown => srv.told = srv.probed
=============================================================================
