----------------------------- MODULE MCDesktop ------------------------------
(***************************************************************************)
(* The three parts of the desktop shell that record and bind keys, each    *)
(* explored by itself: they share no state (two helper processes, two      *)
(* overlays, and keys that are bound once), so one of them runs.           *)
(***************************************************************************)
EXTENDS DumpMode, Dictation, HotkeyBindings

CONSTANT Parts
VARIABLE part
desktopVars == <<part, dumpVars, dictationVars, bindingVars>>

\* A setting that only matters to an orchestrator that is not there, or that is switched
\* off with the dump mode, has one value.
Relevant ==
    /\ chosen.hold => chosen.dumpEnabled /\ "dump" \in chosen.ready
    /\ chosen.pushToTalk => chosen.custom # Unset /\ "dictation" \in chosen.ready
DesktopInit == part \in Parts /\ DumpInit /\ DictationInit /\ BindingInit
                 /\ IF part = "hotkeys" THEN Relevant
                    ELSE /\ chosen.custom = Unset /\ chosen.toggle = Unset /\ chosen.ready = {}
                         /\ ~chosen.pushToTalk /\ ~chosen.dumpEnabled /\ ~chosen.hold
                         /\ \A a \in Accelerators : registry[a] = "free"

Dump(A) == part = "dump" /\ A /\ UNCHANGED <<part, dictationVars, bindingVars>>
Voice(A) == part = "dictation" /\ A /\ UNCHANGED <<part, dumpVars, bindingVars>>
Keys(A) == part = "hotkeys" /\ A /\ UNCHANGED <<part, dumpVars, dictationVars>>

DesktopNext == Dump(DumpNext) \/ Voice(DictationNext) \/ Keys(BindingNext)
DesktopSpec == DesktopInit /\ [][DesktopNext]_desktopVars

\* The fairness of each part, as its own module states it.
DesktopFairSpec ==
    /\ DesktopSpec
    /\ WF_desktopVars(Dump(DumpHelperActs)) /\ WF_desktopVars(Dump(RecorderExit))
    /\ WF_desktopVars(Dump(DumpAnswers)) /\ WF_desktopVars(Dump(DumpImports))
    /\ WF_desktopVars(Voice(MicAnswers)) /\ WF_desktopVars(Voice(BackendAnswers))
    /\ WF_desktopVars(Voice(ManagerActs)) /\ WF_desktopVars(Voice(MicHelperActs))
    /\ WF_desktopVars(Voice(MicExit)) /\ WF_desktopVars(Keys(BindingSteps))

(***************************************************************************)
(* Properties: what the parts promise, one statement for one hazard.       *)
(***************************************************************************)
\* Every part holds values of its types: a recording that is forgotten leaves no session, number
\* or phase of its own behind (the cleanups of both orchestrators), and attempts stay in bounds.
DesktopTypeOK == DumpTypeOK /\ DictationTypeOK /\ BindingTypeOK

\* A recording that began can end: one begun by holding a key ends with the key, whoever answers
\* late; a capture of dump mode or of the backend is the current one, or is being stopped, or can
\* still be stopped by its id; no stream stays open (DumpModeOrchestrator 124-257, RecordingBridge).
RecordingsCanEnd == HeldRecordingEnds /\ DumpLeavesNothingOpen /\ BridgeCaptureIsKept

\* Whatever records is to be seen: neither overlay hides, or stays from an earlier recording,
\* while its recording goes on (OverlayWindow's timer against the next recording's show), and no
\* two dictations begin with a sound without one that ends the first, unless one was released
\* while its capture was being refused (PhaseSoundPlayer).
RecordingIsShown == DumpRecordingIsShown /\ DictationIsShown /\ CuesAlternate

\* The backend's active session is the orchestrator's own or a finished one, and the microphone
\* is open only in the phases that record.  Exempt are a session whose own start or stop failed
\* (nothing closes it: NothingLeftActive), both halves once a key was released while its capture
\* was being refused, and the microphone once the helper refused to close it.
SessionFollowsPhase == ActiveSessionIsOwned /\ MicrophoneFollowsPhase

\* The key the user chose for dictation works once the settings are applied, and none calls into
\* a dump mode that is off, whatever the order of the functions that bind keys (main.ts 364-568).
KeysAreBound == DictationKeyWorks /\ DumpKeysOnlyWhenEnabled

\* Every function of the start-up ends, where it is the part that runs.
KeysSettle == part = "hotkeys" => BindingsSettle

\* Every recording that is being processed, every dictation and every function of the start-up
\* comes to its end, even if the helper dies while it is awaited.
DesktopSettles == DumpProcessingEnds /\ DictationEnds /\ KeysSettle
=============================================================================
