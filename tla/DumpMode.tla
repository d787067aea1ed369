------------------------------ MODULE DumpMode ------------------------------
(***************************************************************************)
(* Recording through the native helper: the dump-mode orchestrator, which  *)
(* turns a toggle key and a hold key into one capture at a time and sends  *)
(* each file to the import, and the bridge through which the backend       *)
(* starts and stops captures of its own on the same helper.                *)
(*                                                                         *)
(* Electron runs the callbacks of one process one after the other; a step  *)
(* here is what one callback does, with the continuations it resumes.      *)
(***************************************************************************)
EXTENDS Naturals, HelperClient, Overlay

CONSTANTS
    DumpSessions,    \* bound: ids startCapture draws, 1 .. n
    BridgeSessions,  \* ids the bridge draws
    NoSession,
    StartsFail,      \* TRUE: the helper may refuse to start a capture
    MaxLines         \* bound: unread lines when the helper reports the key

RecordingSessions == DumpSessions \cup BridgeSessions

ASSUME DumpAssumption ==
    /\ DumpSessions \subseteq Nat /\ NoSession \notin RecordingSessions
    /\ DumpSessions \cap BridgeSessions = {} /\ StartsFail \in BOOLEAN
    /\ MaxLines \in Nat

VARIABLES
    dump,       \* the orchestrator's fields, and the sessions it has drawn
    dumpOverlay,    \* its OverlayWindow
    dumpStreams,    \* partial-text requests that are open
    bridge,     \* the bridge's session table, the ids drawn and handed out
    recorder,     \* the NativeHelperClient both use
    recorderHelper,     \* the helper process (external): alive, sessions it captures,
                \* the hold key as it last reported it
    imports,    \* importRecordings: sent and unanswered, times sent per file
    dumpQuit        \* TRUE once before-quit has torn everything down

orchestrator == <<dump, dumpOverlay, dumpStreams>>
dumpVars == <<orchestrator, bridge, recorder, recorderHelper, imports, dumpQuit>>

StartFile(s) == Request("capture.startFile", s)
StopFile(s) == Request("capture.stopFile", s)
DumpRequests == UNION {{StartFile(s), StopFile(s)} : s \in RecordingSessions}

DumpInit ==
    /\ dump = [phase |-> "idle", current |-> NoSession, holding |-> FALSE,
               sse |-> NoSession, drawn |-> {}, byHold |-> {}]
    /\ dumpOverlay = NoOverlay
    /\ dumpStreams = {}
    /\ bridge = [table |-> {}, known |-> {}, drawn |-> {}]
    /\ recorder = StartedClient
    /\ recorderHelper = [alive |-> TRUE, captures |-> {}, key |-> "up"]
    /\ imports = [inFlight |-> {}, sent |-> [s \in DumpSessions |-> 0]]
    /\ dumpQuit = FALSE

-----------------------------------------------------------------------------
(* The orchestrator. *)

\* (mutant) a failure is kept as a phase, as the dictation orchestrator does.
DumpForgottenInError(d) == [d EXCEPT !.phase = "error", !.current = NoSession]

\* cleanup(): whatever session is current is forgotten, its stream aborted,
\* the key taken as released and the overlay told to hide.
DumpForgotten(d) ==
    [d EXCEPT !.phase = "idle", !.current = NoSession, !.holding = FALSE, !.sse = NoSession]
DumpCleanup ==
    /\ dump' = DumpForgotten(dump)
    /\ dumpStreams' = dumpStreams \ {dump.sse}
    /\ dumpOverlay' = HideScheduled(dumpOverlay)

NextDumpSession(s) == s \notin dump.drawn /\ \A r \in DumpSessions : r < s => r \in dump.drawn

\* startCapture up to its await.  A request that cannot be sent is rejected
\* at once, and cleanup runs before the next callback.
DumpBegun(d, s, held) ==
    [d EXCEPT !.phase = "recording", !.current = s, !.holding = held,
              !.drawn = @ \cup {s}, !.byHold = IF held THEN @ \cup {s} ELSE @]
StartCapture(c, s, held) ==
    /\ NextDumpSession(s)
    /\ IF CanSend(c)
       THEN /\ dump' = DumpBegun(dump, s, held)
            /\ recorder' = Send(c, StartFile(s))
            /\ dumpOverlay' = Shown(dumpOverlay)
            /\ UNCHANGED dumpStreams
       ELSE /\ dump' = DumpForgotten(DumpBegun(dump, s, held))
            /\ recorder' = c
            /\ dumpOverlay' = HideScheduled(Shown(dumpOverlay))
            /\ dumpStreams' = dumpStreams \ {dump.sse}

\* stopCaptureAndSubmit up to its await.
StopCapture(c, holding) ==
    IF CanSend(c)
    THEN /\ dump' = [dump EXCEPT !.phase = "processing", !.holding = holding]
         /\ recorder' = Send(c, StopFile(dump.current))
         /\ UNCHANGED <<dumpOverlay, dumpStreams>>
    ELSE DumpCleanup /\ recorder' = c

\* handleToggle: the global shortcut works whether the helper lives or not.
Toggle ==
    /\ ~dumpQuit
    /\ \/ dump.phase = "idle" /\ \E s \in DumpSessions : StartCapture(recorder, s, FALSE)
       \/ dump.phase = "recording" /\ StopCapture(recorder, dump.holding)
    /\ UNCHANGED <<bridge, recorderHelper, imports, dumpQuit>>

\* handleHoldPress and handleHoldRelease, on the helper's dumpHotkey events.
DumpReadsHotkey(kind) ==
    ~dumpQuit /\ recorder.lines # <<>> /\ NextLine(recorder).kind = kind
HoldPress ==
    /\ DumpReadsHotkey("press")
    /\ IF dump.phase # "idle" \/ dump.holding
       THEN recorder' = LineRead(recorder) /\ UNCHANGED orchestrator
       ELSE \E s \in DumpSessions : StartCapture(LineRead(recorder), s, TRUE)
    /\ UNCHANGED <<bridge, recorderHelper, imports, dumpQuit>>
\* (mutant) a release before the capture was confirmed is ignored.
HoldReleaseOfConfirmed ==
    /\ DumpReadsHotkey("release")
    /\ IF dump.holding /\ dump.phase = "recording" /\ dump.sse # NoSession
       THEN StopCapture(LineRead(recorder), FALSE)
       ELSE /\ dump' = [dump EXCEPT !.holding = FALSE]
            /\ recorder' = LineRead(recorder)
            /\ UNCHANGED <<dumpOverlay, dumpStreams>>
    /\ UNCHANGED <<bridge, recorderHelper, imports, dumpQuit>>
HoldRelease ==
    /\ DumpReadsHotkey("release")
    /\ IF dump.holding /\ dump.phase = "recording"
       THEN StopCapture(LineRead(recorder), FALSE)
       ELSE /\ dump' = [dump EXCEPT !.holding = FALSE]
            /\ recorder' = LineRead(recorder)
            /\ UNCHANGED <<dumpOverlay, dumpStreams>>
    /\ UNCHANGED <<bridge, recorderHelper, imports, dumpQuit>>

DumpReads(request, outcome) ==
    /\ ~dumpQuit /\ recorder.lines # <<>> /\ NextLine(recorder) = Reply(request, outcome)
    /\ recorder' = LineRead(recorder)

\* startFileCapture resolved: the stream is subscribed to whatever happened
\* to the phase meanwhile.  Rejected: cleanup, whoever is current by now.
StartResolved(s) ==
    /\ DumpReads(StartFile(s), "ok") /\ IsAnswer(recorder)
    /\ dump' = [dump EXCEPT !.sse = s]
    /\ dumpStreams' = dumpStreams \cup {s}
    /\ UNCHANGED <<dumpOverlay, bridge, recorderHelper, imports, dumpQuit>>
StartRejected(s) ==
    /\ DumpReads(StartFile(s), "error") /\ IsAnswer(recorder)
    /\ DumpCleanup
    /\ UNCHANGED <<bridge, recorderHelper, imports, dumpQuit>>

\* stopFileCapture resolved: the file goes to the import.
Submitted(i, s) == [i EXCEPT !.inFlight = @ \cup {s}, !.sent[s] = @ + 1]
StopResolved(s) ==
    /\ DumpReads(StopFile(s), "ok") /\ IsAnswer(recorder)
    /\ imports' = Submitted(imports, s)
    /\ UNCHANGED <<orchestrator, bridge, recorderHelper, dumpQuit>>
StopRejected(s) ==
    /\ DumpReads(StopFile(s), "error") /\ IsAnswer(recorder)
    /\ DumpCleanup
    /\ UNCHANGED <<bridge, recorderHelper, imports, dumpQuit>>

\* (mutant) a failed mutation is sent again.
ImportRetried(s) ==
    /\ ~dumpQuit /\ s \in imports.inFlight /\ imports.sent[s] < 3
    /\ imports' = Submitted(imports, s)
    /\ UNCHANGED <<orchestrator, bridge, recorder, recorderHelper, dumpQuit>>
\* submitToPipeline returns, whether the mutation failed or not.
ImportAnswered(s) ==
    /\ ~dumpQuit /\ s \in imports.inFlight
    /\ imports' = [imports EXCEPT !.inFlight = @ \ {s}]
    /\ DumpCleanup
    /\ UNCHANGED <<bridge, recorder, recorderHelper, dumpQuit>>

\* The backend ends a stream: the controller is dropped whosever it is.
DumpStreamEnds(s) ==
    /\ ~dumpQuit /\ s \in dumpStreams
    /\ dumpStreams' = dumpStreams \ {s}
    /\ dump' = [dump EXCEPT !.sse = NoSession]
    /\ UNCHANGED <<dumpOverlay, bridge, recorder, recorderHelper, imports, dumpQuit>>

DumpHideTimer ==
    /\ ~dumpQuit /\ dumpOverlay.hideTimer
    /\ dumpOverlay' = HideFired(dumpOverlay)
    /\ UNCHANGED <<dump, dumpStreams, bridge, recorder, recorderHelper, imports, dumpQuit>>

-----------------------------------------------------------------------------
(* The bridge: HTTP requests of the backend. *)

\* POST record/start: the session is in the table before the helper is asked.
BridgeStart(b) ==
    /\ ~dumpQuit /\ b \notin bridge.drawn
    /\ bridge' = [bridge EXCEPT !.table = @ \cup {b}, !.drawn = @ \cup {b}]
    /\ recorder' = IF CanSend(recorder) THEN Send(recorder, StartFile(b)) ELSE recorder
    /\ UNCHANGED <<orchestrator, recorderHelper, imports, dumpQuit>>

\* The answer: 200 tells the backend the id, an error leaves the table as is.
BridgeStarted(b) ==
    /\ \/ DumpReads(StartFile(b), "ok") /\ bridge' = [bridge EXCEPT !.known = @ \cup {b}]
       \/ DumpReads(StartFile(b), "error") /\ UNCHANGED bridge
    /\ UNCHANGED <<orchestrator, recorderHelper, imports, dumpQuit>>

\* POST record/stop/{id}: an id that is not in the table is 404.
BridgeStop(b) ==
    /\ ~dumpQuit /\ b \in bridge.known \cap bridge.table
    /\ bridge' = [bridge EXCEPT !.table = @ \ {b}]
    /\ recorder' = IF CanSend(recorder) THEN Send(recorder, StopFile(b)) ELSE recorder
    /\ UNCHANGED <<orchestrator, recorderHelper, imports, dumpQuit>>

BridgeStopped(b) ==
    /\ DumpReads(StopFile(b), "ok") \/ DumpReads(StopFile(b), "error")
    /\ UNCHANGED <<orchestrator, bridge, recorderHelper, imports, dumpQuit>>

-----------------------------------------------------------------------------
(* The helper process (external), its end, and the end of the shell. *)

RecorderStarts(s) ==
    /\ recorderHelper.alive /\ recorder.pipe # <<>> /\ Head(recorder.pipe) = StartFile(s)
    /\ \/ /\ recorderHelper' = [recorderHelper EXCEPT !.captures = @ \cup {s}]
          /\ recorder' = Handled(recorder, "ok")
       \/ /\ StartsFail
          /\ recorder' = Handled(recorder, "error") /\ UNCHANGED recorderHelper
    /\ UNCHANGED <<orchestrator, bridge, imports, dumpQuit>>
RecorderStops(s) ==
    /\ recorderHelper.alive /\ recorder.pipe # <<>> /\ Head(recorder.pipe) = StopFile(s)
    /\ recorderHelper' = [recorderHelper EXCEPT !.captures = @ \ {s}]
    /\ recorder' = Handled(recorder, IF s \in recorderHelper.captures THEN "ok" ELSE "error")
    /\ UNCHANGED <<orchestrator, bridge, imports, dumpQuit>>
RecorderKey ==
    /\ recorderHelper.alive /\ ~dumpQuit /\ Len(recorder.lines) < MaxLines
    /\ recorderHelper' = [recorderHelper EXCEPT !.key = IF @ = "up" THEN "down" ELSE "up"]
    /\ recorder' = Printed(recorder, HotkeyEvent(IF recorderHelper.key = "up"
                                                 THEN "press" ELSE "release"))
    /\ UNCHANGED <<orchestrator, bridge, imports, dumpQuit>>
RecorderDies ==
    /\ recorderHelper.alive /\ ~dumpQuit
    /\ recorderHelper' = [recorderHelper EXCEPT !.alive = FALSE, !.captures = {}]
    /\ UNCHANGED <<orchestrator, bridge, recorder, imports, dumpQuit>>

\* The exit event: every pending promise is rejected, and the rejected calls
\* of the orchestrator clean up before any other callback.
RecorderExit ==
    /\ ~dumpQuit /\ ~recorderHelper.alive /\ recorder.process
    /\ recorder' = Exited(recorder)
    /\ IF \E s \in DumpSessions : {StartFile(s), StopFile(s)} \cap recorder.pending # {}
       THEN DumpCleanup
       ELSE UNCHANGED orchestrator
    /\ UNCHANGED <<bridge, recorderHelper, imports, dumpQuit>>

\* An answer to a promise that was already rejected.
DumpStaleAnswer ==
    /\ ~dumpQuit /\ recorder.lines # <<>> /\ NextLine(recorder).kind = "reply"
    /\ ~IsAnswer(recorder)
    /\ recorder' = LineRead(recorder)
    /\ UNCHANGED <<orchestrator, bridge, recorderHelper, imports, dumpQuit>>

\* before-quit: destroy() of the orchestrator, stop() of bridge and client.
DumpQuit ==
    /\ ~dumpQuit /\ dumpQuit' = TRUE
    /\ dumpOverlay' = NoOverlay
    /\ bridge' = [bridge EXCEPT !.table = {}]
    /\ recorder' = Stopped(recorder)
    /\ recorderHelper' = [recorderHelper EXCEPT !.alive = FALSE, !.captures = {}]
    /\ UNCHANGED <<dump, dumpStreams, imports>>

DumpAnswers ==
    \/ \E s \in DumpSessions :
          StartResolved(s) \/ StartRejected(s) \/ StopResolved(s) \/ StopRejected(s)
    \/ \E b \in BridgeSessions : BridgeStarted(b) \/ BridgeStopped(b)
    \/ DumpStaleAnswer \/ HoldPress \/ HoldRelease
DumpImports == \E s \in DumpSessions : ImportAnswered(s)
DumpHelperActs == \E s \in RecordingSessions : RecorderStarts(s) \/ RecorderStops(s)

DumpNext ==
    \/ Toggle \/ DumpAnswers \/ DumpImports \/ DumpHideTimer
    \/ \E s \in DumpSessions : DumpStreamEnds(s)
    \/ \E b \in BridgeSessions : BridgeStart(b) \/ BridgeStop(b)
    \/ DumpHelperActs \/ RecorderKey \/ RecorderDies \/ RecorderExit
    \/ DumpQuit

DumpSpec == DumpInit /\ [][DumpNext]_dumpVars

\* Fairness: a living helper answers what it is asked, a dead one is seen to
\* exit, printed lines are read, the import mutation is answered.
DumpFairSpec ==
    /\ DumpSpec
    /\ WF_dumpVars(DumpHelperActs) /\ WF_dumpVars(RecorderExit)
    /\ WF_dumpVars(DumpAnswers) /\ WF_dumpVars(DumpImports)

-----------------------------------------------------------------------------
(* Properties. *)

DumpTypeOK ==
    /\ dump \in [phase: {"idle", "recording", "processing"},
                 current: DumpSessions \cup {NoSession}, holding: BOOLEAN, sse: DumpSessions \cup {NoSession},
                 drawn: SUBSET DumpSessions, byHold: SUBSET DumpSessions]
    /\ dumpOverlay \in OverlayType
    /\ dumpStreams \subseteq DumpSessions
    /\ bridge \in [table: SUBSET BridgeSessions, known: SUBSET BridgeSessions,
                   drawn: SUBSET BridgeSessions]
    /\ recorder \in ClientType(DumpRequests)
    /\ recorderHelper \in [alive: BOOLEAN, captures: SUBSET RecordingSessions,
                           key: {"up", "down"}]
    /\ imports \in [inFlight: SUBSET DumpSessions, sent: [DumpSessions -> Nat]]
    /\ dumpQuit \in BOOLEAN

\* A recording is imported at most once, and only a file the helper has
\* closed: two keys, their events in any order and a dying helper never send
\* the same session twice.
ImportedWhenClosed ==
    \A s \in DumpSessions :
        imports.sent[s] <= 1 /\ (imports.sent[s] = 1 => s \notin recorderHelper.captures)

\* No microphone and no stream is left open that nobody will close: a
\* capture of the dump mode is the current one or is being stopped, and the
\* only open stream is the one the controller can abort, none when idle.
\* (Only while no start is refused: see StartsFail.)
DumpLeavesNothingOpen ==
    /\ \A s \in recorderHelper.captures \cap DumpSessions :
          s = dump.current \/ StopFile(s) \in recorder.pending
    /\ dumpStreams \subseteq {dump.sse}
    /\ dump.phase = "idle" => dump.sse = NoSession

\* A recording begun by holding the key down goes on only while the
\* orchestrator still expects the release that ends it.
HeldRecordingEnds ==
    dump.phase = "recording" /\ dump.current \in dump.byHold => dump.holding

\* While it records the user sees so: the overlay is visible and no timer of
\* an earlier recording is about to hide it.
DumpRecordingIsShown ==
    dump.phase = "recording" /\ ~dumpQuit =>
        dumpOverlay.window = "visible" /\ ~dumpOverlay.hideTimer

\* A capture of the backend can be stopped by its id or is being stopped.
BridgeCaptureIsKept ==
    \A b \in recorderHelper.captures \cap BridgeSessions :
        b \in bridge.table \/ StopFile(b) \in recorder.pending

\* Processing ends whatever becomes of the helper and of the mutation.
DumpProcessingEnds == dump.phase = "processing" ~> (dump.phase # "processing" \/ dumpQuit)

-----------------------------------------------------------------------------
(* The inductive invariant behind the safety properties. *)

\* A session that was not drawn yet is known to nobody.
NothingBeforeDrawn ==
    /\ \A s \in RecordingSessions \ (dump.drawn \cup bridge.drawn) :
          /\ ~OnItsWay(recorder, StartFile(s)) /\ ~OnItsWay(recorder, StopFile(s))
          /\ StartFile(s) \notin recorder.pending /\ StopFile(s) \notin recorder.pending
          /\ s \notin recorderHelper.captures
    /\ \A s \in DumpSessions \ dump.drawn : imports.sent[s] = 0
    /\ dump.current \in dump.drawn \cup {NoSession} /\ dump.byHold \subseteq dump.drawn
    /\ bridge.table \subseteq bridge.drawn
    /\ dump.phase # "idle" => dump.current # NoSession

\* Somebody may still ask to stop the capture, so nobody has asked yet.
Stoppable(s) == (dump.phase = "recording" /\ dump.current = s) \/ s \in bridge.table
StoppedOnce ==
    \A s \in RecordingSessions :
        Stoppable(s) => /\ ~OnItsWay(recorder, StopFile(s)) /\ StopFile(s) \notin recorder.pending
                        /\ s \in DumpSessions => imports.sent[s] = 0

\* A capture whose stop was answered is over.
StartBeforeStop ==
    \A s \in RecordingSessions :
        /\ ~Ahead(recorder, StopFile(s), StartFile(s))
        /\ Answered(recorder, StopFile(s)) => s \notin recorderHelper.captures

ImportsOnce ==
    \A s \in DumpSessions :
        /\ imports.sent[s] <= 1
        /\ imports.sent[s] = 1 => s \notin recorderHelper.captures /\ ~Piped(recorder, StartFile(s))
        /\ StopFile(s) \in recorder.pending => imports.sent[s] = 0

\* A helper that is gone captures nothing, and a client without one has nothing to wait for.
DeadIsSilent ==
    /\ ~recorderHelper.alive => recorderHelper.captures = {}
    /\ ~recorder.process => ~recorderHelper.alive /\ (dumpQuit \/ recorder.pending = {})

BridgeKeeps ==
    \A b \in BridgeSessions :
        b \in recorderHelper.captures \/ (recorderHelper.alive /\ Piped(recorder, StartFile(b)))
            => b \in bridge.table \/ StopFile(b) \in recorder.pending

\* While no start is refused, whatever goes on is about the current session.
AllIsCurrent ==
    /\ \A s \in DumpSessions :
          /\ ~Told(recorder, Reply(StartFile(s), "error"))
          /\ StartFile(s) \in recorder.pending => /\ dump.current = s /\ dump.phase # "idle"
                                                  /\ OnItsWay(recorder, StartFile(s))
          /\ StopFile(s) \in recorder.pending => dump.current = s /\ dump.phase = "processing"
          /\ s \in imports.inFlight => /\ dump.current = s /\ dump.phase = "processing"
                                       /\ imports.sent[s] = 1
                                       /\ StartFile(s) \notin recorder.pending
          /\ s \in recorderHelper.captures \/ (recorderHelper.alive /\ Piped(recorder, StartFile(s)))
                => dump.current = s
    /\ dump.phase = "idle" => dump.current = NoSession /\ dump.sse = NoSession
    /\ dumpStreams \subseteq {dump.sse} /\ dump.sse \in {dump.current, NoSession}

DumpInv ==
    /\ NothingBeforeDrawn /\ StoppedOnce /\ StartBeforeStop /\ ImportsOnce /\ DeadIsSilent
    /\ BridgeKeeps /\ HeldRecordingEnds /\ DumpRecordingIsShown
    /\ ~StartsFail => AllIsCurrent
=============================================================================
