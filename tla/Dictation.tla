----------------------------- MODULE Dictation ------------------------------
(***************************************************************************)
(* Push-to-talk dictation: the desktop orchestrator, its own native helper *)
(* that reports the key, captures the microphone and injects text, and the *)
(* backend's DictationSessionManager, which knows one active session.      *)
(*                                                                         *)
(* A session is named after the press that asked for it.  The REST routes  *)
(* the orchestrator calls are not served by the backend at this commit;    *)
(* they are modelled as calls of the manager that may also fail.           *)
(***************************************************************************)
EXTENDS Naturals, HelperClient, Overlay

CONSTANTS
    Presses,      \* bound: presses the orchestrator reacts to, 1 .. n
    NoPress,
    Renderer,     \* a session the user interface started
    MaxEvents,    \* bound: unread lines when the helper reports the key
    Faults        \* what may go wrong, see FaultKinds

\* The helper answers capture.start, capture.stop or inject.text with an error;
\* a session stop that throws, a request that fails on its way, a dictation of
\* the user interface, a dying helper.
FaultKinds == {"capture", "microphone", "inject", "stop", "request", "renderer", "helper"}

ASSUME DictationAssumption ==
    /\ Presses \subseteq Nat /\ MaxEvents \in Nat /\ Faults \subseteq FaultKinds
    /\ NoPress # Renderer /\ {NoPress, Renderer} \cap Presses = {}

VARIABLES
    voice,      \* the orchestrator: phase, sessionId, controller, and the
                \* presses it has reacted to
    pressing,   \* where handlePress of each press stands
    releasing,  \* where handleRelease of each session stands
    hud,        \* its OverlayWindow
    cues,       \* the sound cues played, the last two
    partials,   \* partial-text requests that are open
    mic,        \* the NativeHelperClient of the orchestrator
    micHelper,  \* the helper (external): alive, capturing, key, texts injected
    manager,    \* DictationSessionManager: the active session, those in the
                \* table, those finalised
    faulted     \* faults that have happened, and "overlap" when a refused
                \* capture was heard of after the release had begun

orchestratorVars == <<voice, pressing, releasing, hud, cues, partials>>
dictationVars == <<orchestratorVars, mic, micHelper, manager, faulted>>

CaptureStart(n) == Request("capture.start", n)
CaptureStop(n) == Request("capture.stop", n)
InjectText(n) == Request("inject.text", n)
InjectNothing(n) == Request("inject.none", n)     \* inject.text without a text
RequestsOf(n) == {CaptureStart(n), CaptureStop(n), InjectText(n), InjectNothing(n)}
DictationRequests == UNION {RequestsOf(n) : n \in Presses}

DictationInit ==
    /\ voice = [phase |-> "idle", session |-> NoPress, sse |-> NoPress, drawn |-> {}]
    /\ pressing = [n \in Presses |-> "none"]
    /\ releasing = [n \in Presses |-> "none"]
    /\ hud = NoOverlay
    /\ cues = <<"none", "none">>
    /\ partials = {}
    /\ mic = StartedClient
    /\ micHelper = [alive |-> TRUE, capturing |-> FALSE, key |-> "up", injected |-> <<>>]
    /\ manager = [active |-> NoPress, table |-> {}, final |-> {}]
    /\ faulted = {}

-----------------------------------------------------------------------------
(* The orchestrator. *)

\* selectCue: entering recording, injecting or error plays a sound.
SelectCue(previous, next) ==
    CASE next = "recording" /\ previous # next -> <<"start">>
      [] next = "injecting" /\ previous # next -> <<"done">>
      [] next = "error" /\ previous # next -> <<"error">>
      [] OTHER -> <<>>
Played(c, played) == IF played = <<>> THEN c ELSE <<c[2], played[1]>>

\* setPhase, once or twice in a row: tray and sounds follow the phase.
SetPhase(next) ==
    /\ voice' = [voice EXCEPT !.phase = next]
    /\ cues' = Played(cues, SelectCue(voice.phase, next))

\* cleanupAfterFailure, and the finally of handleRelease.
Dropped(v) == [v EXCEPT !.phase = "idle", !.session = NoPress, !.sse = NoPress]
Finish(played) ==
    /\ voice' = Dropped(voice)
    /\ partials' = partials \ {voice.sse}
    /\ cues' = Played(cues, played)

\* The catch of handlePress: error for a moment, then cleanupAfterFailure.
PressFails(n) ==
    /\ Finish(SelectCue(voice.phase, "error"))
    /\ hud' = HideScheduled(StateSent(hud, "error"))
    /\ pressing' = [pressing EXCEPT ![n] = "threw"]
    /\ UNCHANGED releasing

\* The end of handleRelease: it threw, or a text ("done") or nothing was typed.
ReleaseEnds(n, end) ==
    /\ Finish(IF end = "threw" THEN SelectCue(voice.phase, "error") ELSE <<>>)
    /\ hud' = HideScheduled(hud)
    /\ releasing' = [releasing EXCEPT ![n] = end]
    /\ UNCHANGED pressing

ReadsEvent(kind) == mic.lines # <<>> /\ NextLine(mic).kind = kind

\* handlePress up to its first await: anything but idle is ignored.
NextPress(n) == n \notin voice.drawn /\ \A r \in Presses : r < n => r \in voice.drawn
HandlePress ==
    /\ ReadsEvent("press")
    /\ mic' = LineRead(mic)
    /\ IF voice.phase # "idle"
       THEN UNCHANGED <<voice, pressing, hud, cues>>
       ELSE \E n \in Presses :
              /\ NextPress(n)
              /\ voice' = [voice EXCEPT !.phase = "recording", !.drawn = @ \cup {n}]
              /\ cues' = Played(cues, SelectCue("idle", "recording"))
              /\ hud' = Shown(hud)
              /\ pressing' = [pressing EXCEPT ![n] = "fetching"]
    /\ UNCHANGED <<releasing, partials, micHelper, manager, faulted>>

\* The start request was answered with a session: the microphone is asked
\* for.  An answer without one leaves sessionId undefined and goes on.
StartFetched(n) ==
    /\ pressing[n] \in {"opened", "refused"}
    /\ IF CanSend(mic)
       THEN /\ voice' = [voice EXCEPT !.session = IF pressing[n] = "opened" THEN n ELSE NoPress]
            /\ mic' = Send(mic, CaptureStart(n))
            /\ pressing' = [pressing EXCEPT ![n] = "capturing"]
            /\ UNCHANGED <<releasing, hud, cues, partials>>
       ELSE PressFails(n) /\ UNCHANGED mic
    /\ UNCHANGED <<micHelper, manager, faulted>>
StartFetchFailed(n) ==
    /\ pressing[n] = "failed"
    /\ PressFails(n)
    /\ UNCHANGED <<mic, micHelper, manager, faulted>>

MicReads(request, outcome) ==
    /\ mic.lines # <<>> /\ NextLine(mic) = Reply(request, outcome) /\ IsAnswer(mic)
    /\ mic' = LineRead(mic)

\* captureStart resolved: the partial text is subscribed to.
CaptureStarted(n) ==
    /\ MicReads(CaptureStart(n), "ok")
    /\ voice' = [voice EXCEPT !.sse = n]
    /\ partials' = partials \cup {n}
    /\ pressing' = [pressing EXCEPT ![n] = "done"]
    /\ UNCHANGED <<releasing, hud, cues, micHelper, manager, faulted>>
CaptureRefused(n) ==
    /\ MicReads(CaptureStart(n), "error")
    /\ PressFails(n)
    /\ faulted' = IF releasing[n] = "none" THEN faulted ELSE faulted \cup {"overlap"}
    /\ UNCHANGED <<micHelper, manager>>

\* (mutant) the session is stopped without stopping the capture.
HandleReleaseKeepsMic ==
    /\ ReadsEvent("release")
    /\ mic' = LineRead(mic)
    /\ IF voice.phase # "recording" \/ voice.session = NoPress
       THEN UNCHANGED orchestratorVars
       ELSE /\ SetPhase("processing")
            /\ releasing' = [releasing EXCEPT ![voice.session] = "finishing"]
            /\ UNCHANGED <<pressing, hud, partials>>
    /\ UNCHANGED <<micHelper, manager, faulted>>

\* handleRelease up to its first await: ignored until the session is known.
HandleRelease ==
    /\ ReadsEvent("release")
    /\ LET n == voice.session c == LineRead(mic)
       IN  IF voice.phase # "recording" \/ n = NoPress
           THEN mic' = c /\ UNCHANGED orchestratorVars
           ELSE IF CanSend(c)
           THEN /\ SetPhase("processing")
                /\ releasing' = [releasing EXCEPT ![n] = "stopping"]
                /\ mic' = Send(c, CaptureStop(n))
                /\ UNCHANGED <<pressing, hud, partials>>
           ELSE ReleaseEnds(n, "threw") /\ mic' = c
    /\ UNCHANGED <<micHelper, manager, faulted>>

\* captureStop resolved: the session is stopped; rejected: the catch.
CaptureStopped(n) ==
    /\ MicReads(CaptureStop(n), "ok")
    /\ releasing' = [releasing EXCEPT ![n] = "finishing"]
    /\ UNCHANGED <<voice, pressing, hud, cues, partials, micHelper, manager, faulted>>
StopRefused(n) ==
    /\ MicReads(CaptureStop(n), "error")
    /\ ReleaseEnds(n, "threw")
    /\ UNCHANGED <<micHelper, manager, faulted>>

\* (mutant) without a polished text the partial one is typed.
PartialTextOf(n) == InjectText(n)

\* What injectText is sent: an error body has no polishedText, and the request no text.
TextOf(n) == IF releasing[n] = "final" THEN InjectText(n) ELSE InjectNothing(n)

\* The stop request was answered, whatever the status: backendFetch resolves
\* with the body, and what it says is injected.
StopFetched(n) ==
    /\ releasing[n] \in {"final", "error"}
    /\ IF CanSend(mic)
       THEN /\ SetPhase("injecting")
            /\ mic' = Send(mic, TextOf(n))
            /\ releasing' = [releasing EXCEPT ![n] = IF TextOf(n) = InjectText(n) THEN "injecting"
                                                    ELSE "blank"]
            /\ UNCHANGED <<pressing, hud, partials>>
       ELSE ReleaseEnds(n, "threw") /\ UNCHANGED mic
    /\ UNCHANGED <<micHelper, manager, faulted>>
\* The request was rejected, or its body is no JSON.
StopFetchFailed(n) ==
    /\ releasing[n] = "failed"
    /\ ReleaseEnds(n, "threw")
    /\ UNCHANGED <<mic, micHelper, manager, faulted>>

\* injectText resolved or rejected.
Injected(n) ==
    /\ \/ MicReads(InjectText(n), "ok") /\ ReleaseEnds(n, "done")
       \/ MicReads(InjectNothing(n), "ok") /\ ReleaseEnds(n, "nothing")
       \/ MicReads(InjectText(n), "error") /\ ReleaseEnds(n, "threw")
       \/ MicReads(InjectNothing(n), "error") /\ ReleaseEnds(n, "threw")
    /\ UNCHANGED <<micHelper, manager, faulted>>

PartialsEnd(n) ==
    /\ n \in partials
    /\ partials' = partials \ {n}
    /\ voice' = [voice EXCEPT !.sse = NoPress]
    /\ UNCHANGED <<pressing, releasing, hud, cues, mic, micHelper, manager, faulted>>

HudHides ==
    /\ hud.hideTimer
    /\ hud' = HideFired(hud)
    /\ UNCHANGED <<voice, pressing, releasing, cues, partials, mic, micHelper, manager, faulted>>

-----------------------------------------------------------------------------
(* The backend: DictationSessionManager. *)

MayFault(kind) == kind \in Faults /\ faulted' = faulted \cup {kind}

\* Start: one active session, under the lock; otherwise it throws, and the
\* error body is taken for the answer.
ManagerStart(n) ==
    /\ pressing[n] = "fetching"
    /\ IF manager.active = NoPress
       THEN /\ manager' = [manager EXCEPT !.active = n, !.table = @ \cup {n}]
            /\ pressing' = [pressing EXCEPT ![n] = "opened"]
       ELSE /\ pressing' = [pressing EXCEPT ![n] = "refused"]
            /\ UNCHANGED manager
    /\ UNCHANGED <<voice, releasing, hud, cues, partials, mic, micHelper, faulted>>

\* StopAsync finalises the session, clears it and removes it from the table.
Finalised(m, n) ==
    [m EXCEPT !.active = IF @ = n THEN NoPress ELSE @, !.table = @ \ {n}, !.final = @ \cup {n}]
ManagerStop(n) ==
    /\ releasing[n] = "finishing" /\ n \in manager.table
    /\ manager' = Finalised(manager, n)
    /\ releasing' = [releasing EXCEPT ![n] = "final"]
    /\ UNCHANGED <<voice, pressing, hud, cues, partials, mic, micHelper, faulted>>
\* An exception out of the transcription: MarkError, still active.  The error
\* body is taken for the transcript, or is no JSON and rejects the request.
ManagerStopThrows(n) ==
    /\ releasing[n] = "finishing" /\ MayFault("stop")
    /\ \E body \in {"error", "failed"} : releasing' = [releasing EXCEPT ![n] = body]
    /\ UNCHANGED <<voice, pressing, hud, cues, partials, mic, micHelper, manager>>

\* A request that never reaches the manager, or whose answer is lost.
RequestFails(n) ==
    /\ MayFault("request")
    /\ \/ /\ pressing[n] \in {"fetching", "opened", "refused"}
          /\ pressing' = [pressing EXCEPT ![n] = "failed"] /\ UNCHANGED releasing
       \/ /\ releasing[n] \in {"finishing", "final", "error"}
          /\ releasing' = [releasing EXCEPT ![n] = "failed"] /\ UNCHANGED pressing
    /\ UNCHANGED <<voice, hud, cues, partials, mic, micHelper, manager>>

\* The user interface starts, and stops or cancels, a session of its own.
RendererDictates ==
    /\ MayFault("renderer")
    /\ \/ manager.active = NoPress
          /\ manager' = [manager EXCEPT !.active = Renderer, !.table = @ \cup {Renderer}]
       \/ manager.active = Renderer
          /\ manager' = [manager EXCEPT !.active = NoPress, !.table = @ \ {Renderer}]
    /\ UNCHANGED <<orchestratorVars, mic, micHelper>>

-----------------------------------------------------------------------------
(* The helper (external). *)

MicTakes(request) == micHelper.alive /\ mic.pipe # <<>> /\ Head(mic.pipe) = request
MicSwitches(n) ==
    \/ /\ MicTakes(CaptureStart(n)) /\ micHelper' = [micHelper EXCEPT !.capturing = TRUE]
       /\ mic' = Handled(mic, "ok") /\ UNCHANGED faulted
    \/ /\ MicTakes(CaptureStop(n)) /\ micHelper' = [micHelper EXCEPT !.capturing = FALSE]
       /\ mic' = Handled(mic, "ok") /\ UNCHANGED faulted
\* The text is typed; an error may come after some or all of it.
MicTypes(n) ==
    /\ MicTakes(InjectText(n)) /\ micHelper' = [micHelper EXCEPT !.injected = Append(@, n)]
    /\ \/ mic' = Handled(mic, "ok") /\ UNCHANGED faulted
       \/ mic' = Handled(mic, "error") /\ MayFault("inject")
\* Any request may be answered with an error; one without a text types nothing.
MicRefuses(n) ==
    /\ \/ MicTakes(CaptureStart(n)) /\ mic' = Handled(mic, "error") /\ MayFault("capture")
       \/ MicTakes(CaptureStop(n)) /\ mic' = Handled(mic, "error") /\ MayFault("microphone")
       \/ MicTakes(InjectText(n)) /\ mic' = Handled(mic, "error") /\ MayFault("inject")
       \/ /\ MicTakes(InjectNothing(n)) /\ UNCHANGED faulted
          /\ \E o \in {"ok", "error"} : mic' = Handled(mic, o)
    /\ UNCHANGED micHelper
MicActs(n) ==
    /\ MicSwitches(n) \/ MicTypes(n) \/ MicRefuses(n)
    /\ UNCHANGED <<orchestratorVars, manager>>
MicKey ==
    /\ micHelper.alive /\ Len(mic.lines) < MaxEvents
    /\ micHelper' = [micHelper EXCEPT !.key = IF @ = "up" THEN "down" ELSE "up"]
    /\ mic' = Printed(mic, HotkeyEvent(IF micHelper.key = "up" THEN "press" ELSE "release"))
    /\ UNCHANGED <<orchestratorVars, manager, faulted>>
MicDies ==
    /\ micHelper.alive /\ MayFault("helper")
    /\ micHelper' = [micHelper EXCEPT !.alive = FALSE, !.capturing = FALSE]
    /\ UNCHANGED <<orchestratorVars, mic, manager>>

\* The exit event rejects what is pending; the catches of the calls run
\* before any other callback, and leave the orchestrator idle.
MicExit ==
    /\ ~micHelper.alive /\ mic.process
    /\ mic' = Exited(mic)
    /\ LET starts == {n \in Presses : CaptureStart(n) \in mic.pending}
           stops == {n \in Presses :
                        {CaptureStop(n), InjectText(n), InjectNothing(n)} \cap mic.pending # {}}
       IN  IF starts \cup stops = {}
           THEN UNCHANGED orchestratorVars
           ELSE /\ Finish(SelectCue(voice.phase, "error"))
                /\ hud' = HideScheduled(IF starts # {} THEN StateSent(hud, "error") ELSE hud)
                /\ pressing' = [n \in Presses |-> IF n \in starts THEN "threw" ELSE pressing[n]]
                /\ releasing' = [n \in Presses |-> IF n \in stops THEN "threw" ELSE releasing[n]]
    /\ UNCHANGED <<micHelper, manager, faulted>>
LateAnswer ==
    /\ mic.lines # <<>> /\ NextLine(mic).kind = "reply" /\ ~IsAnswer(mic)
    /\ mic' = LineRead(mic)
    /\ UNCHANGED <<orchestratorVars, micHelper, manager, faulted>>

MicAnswers ==
    \/ HandlePress \/ HandleRelease \/ LateAnswer
    \/ \E n \in Presses :
          \/ CaptureStarted(n) \/ CaptureRefused(n)
          \/ CaptureStopped(n) \/ StopRefused(n) \/ Injected(n)
BackendAnswers ==
    \E n \in Presses : \/ StartFetched(n) \/ StartFetchFailed(n) \/ StopFetched(n)
                       \/ StopFetchFailed(n)
ManagerActs ==
    \E n \in Presses : ManagerStart(n) \/ ManagerStop(n) \/ ManagerStopThrows(n) \/ RequestFails(n)
MicHelperActs == \E n \in Presses : MicActs(n)

DictationNext ==
    \/ MicAnswers \/ BackendAnswers \/ ManagerActs \/ MicHelperActs
    \/ RendererDictates \/ MicKey \/ MicDies \/ MicExit \/ HudHides
    \/ \E n \in Presses : PartialsEnd(n)

DictationSpec == DictationInit /\ [][DictationNext]_dictationVars

\* Fairness: answers are read, requests are answered one way or another, a
\* living helper serves its pipe and a dead one is seen to exit.
DictationFairSpec ==
    /\ DictationSpec
    /\ WF_dictationVars(MicAnswers) /\ WF_dictationVars(BackendAnswers)
    /\ WF_dictationVars(ManagerActs) /\ WF_dictationVars(MicHelperActs)
    /\ WF_dictationVars(MicExit)

-----------------------------------------------------------------------------
(* Properties. *)

Phases == {"idle", "recording", "processing", "injecting", "error"}

DictationTypeOK ==
    /\ voice \in [phase: Phases, session: Presses \cup {NoPress}, sse: Presses \cup {NoPress},
                  drawn: SUBSET Presses]
    /\ pressing \in [Presses -> {"none", "fetching", "opened", "refused", "failed", "capturing",
                                 "done", "threw"}]
    /\ releasing \in [Presses -> {"none", "stopping", "finishing", "final", "error", "failed",
                                  "injecting", "blank", "done", "nothing", "threw"}]
    /\ hud \in OverlayType
    /\ cues \in {"none", "start", "done", "error"} \X {"none", "start", "done", "error"}
    /\ partials \subseteq Presses
    /\ mic \in ClientType(DictationRequests)
    /\ micHelper \in [alive: BOOLEAN, capturing: BOOLEAN, key: {"up", "down"},
                      injected: Seq(Presses)]
    /\ manager \in [active: Presses \cup {NoPress, Renderer},
                    table: SUBSET (Presses \cup {Renderer}), final: SUBSET Presses]
    /\ faulted \subseteq FaultKinds \cup {"overlap"}

\* The one disorder the handlers do not survive: a release that begins while the
\* capture of its press is being refused.  Both handlers then end on their own.
Orderly == "overlap" \notin faulted

\* What is typed into the user's application was finalised by the backend - an
\* error body taken for a transcript types nothing - and nothing is typed twice,
\* nor (Orderly) in another order than that of the presses.
InjectedIsFinal ==
    \A i \in DOMAIN micHelper.injected :
        /\ micHelper.injected[i] \in manager.final
        /\ \A j \in 1 .. i - 1 :
              /\ micHelper.injected[j] # micHelper.injected[i]
              /\ Orderly => micHelper.injected[j] < micHelper.injected[i]

\* While it records the user sees so.
DictationIsShown ==
    voice.phase = "recording" => hud.window = "visible" /\ ~hud.hideTimer

\* A request or helper call of this press failed, or its stop got an error body.
CallFailed(n) ==
    \/ pressing[n] \in {"failed", "threw"}
    \/ releasing[n] \in {"failed", "error", "blank", "nothing", "threw"}

\* The active session of the backend is one the orchestrator is about to learn,
\* knows, or has begun to stop, or one a call of whose OWN press failed (nobody
\* ends it then): a failing session leaves no other one behind (Orderly).
ActiveSessionIsOwned ==
    Orderly => \A n \in Presses : manager.active = n =>
        \/ pressing[n] = "opened" \/ voice.session = n
        \/ releasing[n] \in {"stopping", "finishing"} \/ CallFailed(n)

\* The microphone is open only while the phase says so or a stop is under way;
\* idle, it is closed.  (Orderly, and while the helper refused no capture.stop.)
MicOrderly == Orderly /\ "microphone" \notin faulted
MicrophoneFollowsPhase ==
    MicOrderly /\ micHelper.capturing =>
        \/ voice.phase = "recording"
        \/ \E n \in Presses : CaptureStop(n) \in mic.pending

\* Every recording announced by a sound ends with one: two recordings never
\* begin without a done or an error between them (Orderly).
CuesAlternate == Orderly => cues # <<"start", "start">>

\* Once the key is released the session comes to an end whatever fails.
DictationEnds == voice.phase \in {"processing", "injecting"} ~> voice.phase = "idle"

\* A recording goes on only while the key is held: when every event was read
\* and every request answered, key up means not recording.
RecordsOnlyWhileHeld ==
    /\ micHelper.key = "up" /\ mic.lines = <<>> /\ mic.pipe = <<>>
    /\ \A n \in Presses : pressing[n] \in {"none", "done", "threw"}
    => voice.phase # "recording"

\* A failure of one session leaves the others alone - Orderly or not.
FailuresStayApart ==
    \A n \in Presses : manager.active = n =>
        \/ pressing[n] = "opened" \/ voice.session = n
        \/ releasing[n] \in {"stopping", "finishing"} \/ CallFailed(n)

\* The next press finds the backend free of sessions the orchestrator began.
NothingLeftActive == voice.phase = "idle" => manager.active \notin Presses

\* A recording whose press was answered can be ended: it has a session to stop.
RecordingHasSession ==
    voice.phase = "recording" /\ (\A n \in Presses : pressing[n] \in {"none", "done", "threw"})
    => voice.session # NoPress

\* The sound that says done is played for a final text.
DoneMeansFinal == voice.phase = "injecting" /\ Orderly => voice.session \in manager.final

-----------------------------------------------------------------------------
(* The inductive invariant behind the safety properties. *)

\* A helper that is gone captures nothing, and a client without one has nothing to wait for.
DeadMicIsSilent ==
    /\ ~micHelper.alive => ~micHelper.capturing
    /\ ~mic.process => ~micHelper.alive /\ mic.pending = {}

\* Presses are reacted to in order; a release begins once, after its press has opened the session.
ReleasedOnce ==
    /\ voice.phase # "error" /\ \A n \in voice.drawn, m \in Presses : m < n => m \in voice.drawn
    /\ \A n \in Presses :
          /\ n \notin voice.drawn => pressing[n] = "none"
          /\ pressing[n] \in {"none", "fetching", "opened", "refused", "failed"}
                => releasing[n] = "none" /\ voice.session # n
          /\ voice.session = n /\ voice.phase \in {"idle", "recording"} => releasing[n] = "none"

\* Who waits for an answer of the helper.
WaitsForAnswer ==
    \A n \in Presses :
        /\ pressing[n] = "capturing" <=> CaptureStart(n) \in mic.pending
        /\ releasing[n] = "stopping" <=> CaptureStop(n) \in mic.pending
        /\ releasing[n] = "injecting" <=> InjectText(n) \in mic.pending
        /\ releasing[n] = "blank" <=> InjectNothing(n) \in mic.pending

\* A text is typed once, and only when it is final.
Typed(n) == \E i \in DOMAIN micHelper.injected : micHelper.injected[i] = n
TypedOnce ==
    \A n \in Presses :
        /\ releasing[n] \in {"final", "injecting"} => n \in manager.final
        /\ OnItsWay(mic, InjectText(n)) \/ Typed(n) =>
                releasing[n] \in {"injecting", "done", "threw"} /\ n \in manager.final
        /\ Piped(mic, InjectText(n)) => ~Typed(n)
        /\ ~Ahead(mic, InjectText(n), InjectText(n))

\* The newest press; while it is Orderly it is the only one under way.
Newest(n) == n \in voice.drawn /\ \A m \in voice.drawn : m <= n
Ended == {"done", "nothing", "threw"}
PlaceOf(n) ==
    CASE releasing[n] \in {"stopping", "finishing", "final", "error", "failed"} -> {"processing"}
      [] releasing[n] \in {"injecting", "blank"} -> {"injecting"}
      [] OTHER -> Phases
OneAtATime ==
    /\ \A n \in Presses :
          /\ pressing[n] \in {"fetching", "opened", "refused", "failed"} =>
                voice.phase = "recording" /\ voice.session = NoPress /\ Newest(n)
          /\ pressing[n] = "capturing" => voice.phase # "idle" /\ Newest(n)
          /\ releasing[n] \notin Ended \cup {"none"} => voice.session = n
          /\ releasing[n] \in {"finishing", "final", "error", "failed", "injecting", "blank"} =>
                pressing[n] = "done"
          /\ voice.session = n => /\ Newest(n) /\ pressing[n] \in {"capturing", "done"}
                                  /\ voice.phase \in PlaceOf(n) \ {"idle", "error"}
    /\ voice.phase \in {"processing", "injecting"} =>
            voice.session # NoPress /\ releasing[voice.session] \notin Ended \cup {"none"}
    /\ voice.phase = "idle" => cues[2] # "start"
    /\ voice.phase = "injecting" => cues[2] = "done"

\* While it lives the helper has every request that is waited for, and answers each once.
AnswersComeOnce ==
    \A n \in Presses :
        /\ CaptureStart(n) \in mic.pending => OnItsWay(mic, CaptureStart(n))
        /\ mic.process => \A r \in RequestsOf(n) :
                /\ OnItsWay(mic, r) => r \in mic.pending
                /\ ~Ahead(mic, r, r)
        /\ mic.process => \A m \in Presses : ~Ahead(mic, CaptureStop(n), CaptureStart(m))

\* The microphone is closed until capture.start is carried out, and after capture.stop.
MicClosed ==
    \A n \in Presses :
        /\ pressing[n] \in {"fetching", "opened", "refused", "failed"} => ~micHelper.capturing
        /\ ~Told(mic, Reply(CaptureStop(n), "error"))
        /\ mic.process /\ (Piped(mic, CaptureStart(n)) \/ Told(mic, Reply(CaptureStart(n), "error")))
                => ~micHelper.capturing
        /\ mic.process /\ Answered(mic, CaptureStop(n)) => ~micHelper.capturing

SessionKept ==
    \A n \in Presses : manager.active = n =>
        \/ pressing[n] = "opened" \/ CallFailed(n)
        \/ voice.session = n /\ releasing[n] \in {"none", "stopping", "finishing"}

\* While it is Orderly one session at a time is under way, and its calls are answered once.
OneSessionInv == OneAtATime /\ AnswersComeOnce /\ CuesAlternate /\ SessionKept
\* While the microphone obeys too, it follows.
MicrophoneInv == MicClosed /\ MicrophoneFollowsPhase

VoiceInv ==
    /\ DeadMicIsSilent /\ ReleasedOnce /\ WaitsForAnswer /\ TypedOnce /\ InjectedIsFinal
    /\ DictationIsShown
    /\ Orderly => OneSessionInv
    /\ MicOrderly => MicrophoneInv
=============================================================================
