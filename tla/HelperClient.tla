---------------------------- MODULE HelperClient ----------------------------
(***************************************************************************)
(* NativeHelperClient: requests written to the helper's standard input,    *)
(* the table of promises waiting for their answers, and the messages the   *)
(* helper prints.  A client is a record: the child process it holds, the   *)
(* requests in the pipe to the helper, the promises pending, and the lines *)
(* the helper printed that were not read yet.  A request is identified by  *)
(* its method and the session it is about (the code draws a fresh id).     *)
(***************************************************************************)
EXTENDS Naturals, Sequences, FiniteSets

Request(method, session) == [method |-> method, session |-> session]
Reply(request, outcome) == [kind |-> "reply", request |-> request, outcome |-> outcome]
HotkeyEvent(kind) == [kind |-> kind]

\* start(): the child is spawned and the pipes are empty.
StartedClient == [process |-> TRUE, pipe |-> <<>>, pending |-> {}, lines |-> <<>>]

\* send(): without a child the promise is rejected at once, see CanSend.
CanSend(c) == c.process
Send(c, request) ==
    [c EXCEPT !.pipe = Append(@, request), !.pending = @ \cup {request}]

\* The helper (external): it takes the next request and prints an answer.
Printed(c, line) == [c EXCEPT !.lines = Append(@, line)]
Handled(c, outcome) ==
    [c EXCEPT !.pipe = Tail(@), !.lines = Append(@, Reply(Head(c.pipe), outcome))]

\* handleStdout / handleMessage: one line is read; the promise of an answer
\* is taken out of the table, an answer nobody waits for is ignored.
NextLine(c) == Head(c.lines)
IsAnswer(c) == NextLine(c).kind = "reply" /\ NextLine(c).request \in c.pending
LineRead(c) ==
    [c EXCEPT !.lines = Tail(@),
              !.pending = IF IsAnswer(c) THEN @ \ {NextLine(c).request} ELSE @]

\* The exit handler: the child is forgotten and every promise is rejected.
Exited(c) == [c EXCEPT !.process = FALSE, !.pipe = <<>>, !.pending = {}]

\* stop(): the handle is dropped; the exit event comes later.
Stopped(c) == [c EXCEPT !.process = FALSE]

ClientType(Requests) ==
    [process: BOOLEAN, pipe: Seq(Requests), pending: SUBSET Requests,
     lines: Seq({Reply(r, o) : r \in Requests, o \in {"ok", "error"}}
                   \cup {HotkeyEvent(k) : k \in {"press", "release"}})]

-----------------------------------------------------------------------------
(* Where a request is: in the pipe, or answered by a line that was not read. *)
Piped(c, r) == \E i \in 1..Len(c.pipe) : c.pipe[i] = r
Told(c, line) == \E i \in 1..Len(c.lines) : c.lines[i] = line
Answered(c, r) == Told(c, Reply(r, "ok")) \/ Told(c, Reply(r, "error"))
OnItsWay(c, r) == Piped(c, r) \/ Answered(c, r)

\* a is in front of b on the way through the pipe and the lines.
Ahead(c, a, b) ==
    \/ \E i, j \in 1..Len(c.pipe) : i < j /\ c.pipe[i] = a /\ c.pipe[j] = b
    \/ \E i, j \in 1..Len(c.lines) : \E o, p \in {"ok", "error"} :
            i < j /\ c.lines[i] = Reply(a, o) /\ c.lines[j] = Reply(b, p)
    \/ Answered(c, a) /\ Piped(c, b)
=============================================================================
