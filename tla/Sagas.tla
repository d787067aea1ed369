------------------------------- MODULE Sagas -------------------------------
(***************************************************************************)
(* The engine of the user interface's store: a redux state, the redux-saga *)
(* tasks that are running, and the backend they call.  A slice module      *)
(* (NotesStore, ModelsStore, ...) supplies its reducer, the sagas its       *)
(* watchers fork and what the backend does with each request; this module  *)
(* supplies what all of them share: put, takeEvery and takeLatest, a       *)
(* request in flight, its answer, its loss, and a subscription's channel.  *)
(*                                                                         *)
(* What a saga does between two yields is one step, as in the code: the    *)
(* event loop runs it to the next request, delay or take.  The backend     *)
(* executes a request at any moment of its flight, and the answers come    *)
(* back in any order.                                                      *)
(***************************************************************************)
EXTENDS Naturals, Sequences, SequencesExt

CONSTANTS
  MaxTasks,     \* bound: tasks that may run at once
  Failing       \* how often a request (refused connection, lost answer) or a socket may fail:
                \* "never", "once" (a bound) or "always"

VARIABLES
  ui,           \* the slice's state in the redux store
  tasks,        \* the running saga tasks; the answered ones in the order of their answers
  srv,          \* what the backend holds for this slice
  toast,        \* the last notification, cleared by the next step of a saga that shows none
  drift,        \* ghost: nothing was loaded yet, or the backend changed or an answer was
                \* overtaken since the last whole load
  broken,       \* ghost: some request has failed
  moves         \* bound: dispatches and outside changes still to come

sagaVars == <<ui, tasks, srv, toast, drift, broken, moves>>

NoToast == [kind |-> "none", key |-> "none"]
Nothing == "nothing"

(***************************************************************************)
(* Tasks.  pc = "call": a request (or a timer) is outstanding; "half": the *)
(* backend has begun to execute it; "back": its answer is here and the     *)
(* saga has not resumed; "dial" and "open": a subscription; "wait": a saga *)
(* that waits for an action.                                               *)
(***************************************************************************)
\* gqlRequest: the saga is suspended until the answer, or the rejection, comes back.
gqlRequest(saga, arg) ==
  [saga |-> saga, arg |-> arg, pc |-> "call", ok |-> TRUE, ans |-> Nothing, live |-> TRUE, late |-> FALSE]
\* gqlSubscriptionChannel: an event channel that buffers what the socket delivers
\* (`ans`), until it is closed or the socket ends it (`ok` = FALSE, END).  It is made
\* at once, and hears nothing until the socket is connected.
gqlSubscriptionChannel(saga, arg) ==
  [gqlRequest(saga, arg) EXCEPT !.pc = "dial", !.ans = << >>]

Running(saga) == {i \in DOMAIN tasks : tasks[i].saga = saga}
InState(pc) == {i \in DOMAIN tasks : tasks[i].pc = pc}
InFlight == InState("call") \cup InState("half")
Idle == tasks = << >>
Channels == InState("dial") \cup InState("open")

takeEvery(ts, task) == Append(ts, task)
\* What a newer task of the watcher `saga` leaves of the tasks: the others, and of its own
\* the requests already `sent`, which are not recalled; nobody waits for their answers.
Superseded(ts, saga, sent) ==
  FoldLeft(LAMBDA kept, t : CASE t.saga # saga -> Append(kept, t)
                              [] t.saga = saga /\ t.pc \in sent -> Append(kept, [t EXCEPT !.live = FALSE])
                              [] OTHER -> kept,
           << >>, ts)
takeLatest(ts, task) == Append(Superseded(ts, task.saga, {"call", "half"}), task)
\* The same for a request that only reads: what becomes of it no longer matters.
takeLatestQuery(ts, task) == Append(Superseded(ts, task.saga, {}), task)

(***************************************************************************)
(* put: the reducer first, then the watchers.                              *)
(***************************************************************************)
\* showNotification: one toast per notification action.
Notify(kind, key) == [type |-> "NOTIFY", kind |-> kind, key |-> key]
notifySuccess(key) == Notify("success", key)
notifyError == Notify("error", "errors.genericErrorWithMessage")
notifyWarning(key) == Notify("warning", key)
showNotification(puts) ==
  LET shown == SelectSeq(puts, LAMBDA a : a.type = "NOTIFY")
  IN  IF shown = << >> THEN NoToast ELSE [kind |-> Last(shown).kind, key |-> Last(shown).key]

Reduced(Reduce(_, _), s, puts) == FoldLeft(LAMBDA st, a : Reduce(st, a), s, puts)
Watched(Watch(_, _), ts, puts) == FoldLeft(LAMBDA q, a : Watch(q, a), ts, puts)

\* A component's handler dispatches actions, one after the other.
DispatchAll(Reduce(_, _), Watch(_, _), actions) ==
  /\ moves > 0
  /\ Len(tasks) < MaxTasks
  /\ moves' = moves - 1
  /\ ui' = Reduced(Reduce, ui, actions)
  /\ tasks' = Watched(Watch, tasks, actions)
  /\ toast' = NoToast
  /\ UNCHANGED <<srv, drift, broken>>
Dispatch(Reduce(_, _), Watch(_, _), a) == DispatchAll(Reduce, Watch, << a >>)
\* A component's effect dispatches, without the user.
Effect(Reduce(_, _), Watch(_, _), actions) ==
  /\ ui' = Reduced(Reduce, ui, actions)
  /\ tasks' = Watched(Watch, tasks, actions)
  /\ toast' = NoToast
  /\ UNCHANGED <<srv, drift, broken, moves>>

\* Answers that are here describe an older backend than the present one.
Overtaken(ts) == [k \in DOMAIN ts |-> IF ts[k].pc = "back" THEN [ts[k] EXCEPT !.late = TRUE] ELSE ts[k]]

\* The backend's data changes under the user interface: another window, a job, a file.
Outside(sv) ==
  /\ moves > 0
  /\ sv # srv
  /\ moves' = moves - 1
  /\ srv' = sv
  /\ tasks' = Overtaken(tasks)
  /\ drift' = TRUE
  /\ UNCHANGED <<ui, toast, broken>>

MayFail == Failing = "always" \/ (Failing = "once" /\ ~broken)

(***************************************************************************)
(* The flight of a request.                                                *)
(***************************************************************************)
Deliver(ts, i, ok, ans) ==
  tasks' = IF tasks[i].live
           THEN Append(RemoveAt(ts, i), [tasks[i] EXCEPT !.pc = "back", !.ok = ok, !.ans = ans])
           ELSE RemoveAt(ts, i)

\* The backend executes request i, becomes sv and answers; the answer may be lost.
\* `told`: the answer tells what has changed, so that the slice need not load it.
AnswerTelling(i, sv, ans, told) ==
  /\ srv' = sv
  /\ \E ok \in {TRUE, ~MayFail} :
       LET unseen == ~(ok /\ told) /\ sv # srv
       IN  /\ Deliver(IF unseen THEN Overtaken(tasks) ELSE tasks, i, ok, ans)
           /\ drift' = (drift \/ unseen)
           /\ broken' = (broken \/ ~ok)
  /\ UNCHANGED <<ui, toast, moves>>
Answer(i, sv, ans) == AnswerTelling(i, sv, ans, TRUE)

\* The backend is halfway through request i: it has become sv and remembers `read`.
Halfway(i, sv, read) ==
  /\ tasks[i].pc = "call"
  /\ srv' = sv
  /\ tasks' = [tasks EXCEPT ![i].pc = "half", ![i].ans = read]
  /\ UNCHANGED <<ui, toast, drift, broken, moves>>

\* The request never reaches the backend.
Unreached(i) ==
  /\ MayFail
  /\ tasks[i].pc = "call"
  /\ Deliver(tasks, i, FALSE, Nothing)
  /\ broken' = TRUE
  /\ UNCHANGED <<ui, srv, toast, drift, moves>>

\* A timer (delay) runs out.
Elapse(i) ==
  /\ tasks[i].pc = "call"
  /\ Deliver(tasks, i, TRUE, Nothing)
  /\ UNCHANGED <<ui, srv, toast, drift, broken, moves>>

\* The saga resumes with its answer, puts `puts`, and goes on with the tasks `next`.
\* `whole`: the answer replaces all the slice shows, so that a drift before it is
\* forgotten.
Resume(Reduce(_, _), Watch(_, _), i, puts, next, whole) ==
  LET t == tasks[i]
      crossed == \E k \in Channels : tasks[k].ans # << >>    \* an older event is still to be taken
      others == Overtaken(SubSeq(tasks, 1, i - 1)) \o SubSeq(tasks, i + 1, Len(tasks))
  IN  /\ t.pc = "back"
      /\ ui' = Reduced(Reduce, ui, puts)
      /\ tasks' = Watched(Watch, others \o next, puts)
      /\ toast' = showNotification(puts)
      /\ drift' = (t.late \/ crossed \/ (drift /\ ~(whole /\ t.ok)))
      /\ UNCHANGED <<srv, broken, moves>>

(***************************************************************************)
(* Subscriptions.                                                          *)
(***************************************************************************)
\* The socket delivers event e to every open channel that asked for it.
Emitted(ts, Wants(_), e) ==
  [i \in DOMAIN ts |-> IF ts[i].pc = "open" /\ ts[i].ok /\ Wants(ts[i])
                       THEN [ts[i] EXCEPT !.ans = Append(@, e)] ELSE ts[i]]
\* The backend becomes sv and publishes e, while the tasks are ts: a change that no
\* open channel hears of is a drift.
Broadcast(ts, sv, Wants(_), e) ==
  /\ srv' = sv
  /\ tasks' = Emitted(Overtaken(ts), Wants, e)
  /\ drift' = (drift \/ (sv # srv /\ ~\E i \in DOMAIN ts : ts[i].pc = "open" /\ ts[i].ok /\ Wants(ts[i])))
  /\ UNCHANGED <<ui, toast, broken, moves>>
\* The socket is connected, for the first time or again after it dropped.
Connect(i) ==
  /\ tasks[i].pc = "dial" /\ tasks[i].ok
  /\ tasks' = [tasks EXCEPT ![i].pc = "open"]
  /\ UNCHANGED <<ui, srv, toast, drift, broken, moves>>
\* The socket drops: the client tries again, or gives up (error and complete emit END).
Disconnect(i) ==
  /\ MayFail
  /\ i \in Channels /\ tasks[i].ok
  /\ \/ tasks[i].pc = "open" /\ tasks' = [tasks EXCEPT ![i].pc = "dial"]
     \/ tasks' = [tasks EXCEPT ![i].ok = FALSE]
  /\ broken' = TRUE
  /\ UNCHANGED <<ui, srv, toast, drift, moves>>
Socket == \E i \in Channels : Connect(i) \/ Disconnect(i)

\* A saga takes what it waited for: it puts `puts`, and its task becomes `next`.
Take(Reduce(_, _), Watch(_, _), i, puts, next) ==
  /\ ui' = Reduced(Reduce, ui, puts)
  /\ tasks' = Watched(Watch, SubSeq(tasks, 1, i - 1) \o next \o SubSeq(tasks, i + 1, Len(tasks)), puts)
  /\ toast' = showNotification(puts)
  /\ UNCHANGED <<srv, drift, broken, moves>>
\* take(channel): the next buffered event, after which the channel is `rest`.
Buffered(i) == i \in Channels /\ tasks[i].ans # << >>
rest(t) == [t EXCEPT !.ans = Tail(@)]
\* take(channel) of END: the consumer ends after what it buffered.
Ended(i) == i \in Channels /\ tasks[i].ans = << >> /\ ~tasks[i].ok

\* The store starts with the tasks its root saga forks.
SagaStart(s, sv, boot, unseen, budget) ==      \* unseen: nothing was loaded yet
  /\ ui = s
  /\ srv = sv
  /\ tasks = boot
  /\ toast = NoToast
  /\ drift = unseen
  /\ broken = FALSE
  /\ moves = budget
SagaBoot(s, sv, boot, budget) == SagaStart(s, sv, boot, TRUE, budget)
SagaInit(s, sv, budget) == SagaBoot(s, sv, << >>, budget)

\* What a step of the backend or of the scheduler may always do next.
Dropped == \E i \in InState("call") : Unreached(i)
============================================================================
