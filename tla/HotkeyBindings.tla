--------------------------- MODULE HotkeyBindings ---------------------------
(***************************************************************************)
(* The end of the shell's start-up: three unawaited functions of main.ts   *)
(* fetch the settings from a backend that may not be up yet and bind the   *)
(* keys of dictation, dump mode and the ask overlay, through Electron's    *)
(* globalShortcut registry and the native helpers.                         *)
(***************************************************************************)
EXTENDS Naturals, FiniteSets

CONSTANTS
    Accelerators,
    Default,        \* GLOBAL_HOTKEY_ACCELERATOR
    Unset,          \* an empty setting
    MaxAttempts     \* 8 in each of the three functions

ASSUME BindingAssumption ==
    Default \in Accelerators /\ Unset \notin Accelerators /\ MaxAttempts \in Nat \ {0}

VARIABLES
    registry,    \* globalShortcut: who is called for each accelerator
    chosen,      \* what the settings say; ready: which functions find their orchestrator or helper
    task,        \* the three functions: where each stands, attempts made
    toggleKey,   \* DumpModeOrchestrator.toggleAccelerator
    helperKeys,  \* the keys the helpers were told to watch
    askWindow    \* AskOverlay's window

bindingVars == <<registry, chosen, task, toggleKey, helperKeys, askWindow>>

Binders == {"dictation", "dump", "ask"}
\* Each starts or fails on its own; the dump mode is not started without the recording
\* helper, the one the ask overlay uses.
Started == {r \in SUBSET Binders : "dump" \in r => "ask" \in r}
Accelerator == Accelerators \cup {Unset}

BindingInit ==
    /\ registry \in [Accelerators -> {"free", "elsewhere"}]
    /\ chosen \in [custom: Accelerator, pushToTalk: BOOLEAN, dumpEnabled: BOOLEAN,
                   toggle: Accelerator, hold: BOOLEAN, ready: Started]
    /\ task = [b \in Binders |-> [at |-> "fetch", attempts |-> 0]]
    /\ toggleKey = Unset
    /\ helperKeys = {}
    /\ askWindow = "none"

At(b, place) == task' = [task EXCEPT ![b].at = place]

\* The fetch of the settings fails: wait, try again, give up at the last.
FetchFails(b) ==
    /\ task[b].at = "fetch"
    /\ task' = [task EXCEPT ![b].attempts = @ + 1,
                            ![b].at = IF task[b].attempts + 1 = MaxAttempts THEN "gaveUp" ELSE @]
    /\ UNCHANGED <<registry, chosen, toggleKey, helperKeys, askWindow>>

\* globalShortcut.register takes only what is free; unregisterAll gives up
\* every key of the process, whoever registered it.
Register(r, a, owner) == IF r[a] = "free" THEN [r EXCEPT ![a] = owner] ELSE r
UnregisterAll(r) == [a \in Accelerators |-> IF r[a] = "elsewhere" THEN "elsewhere" ELSE "free"]

\* registerGlobalDictationHotkey(custom), and the default when it fails.
CustomOrDefault(r, custom) ==
    IF r[custom] = "free" THEN Register(r, custom, "dictation")
    ELSE Register(r, Default, "dictation")

\* applyCustomHotkeyFromSettings, the settings at hand.
PushToTalk == chosen.pushToTalk /\ "dictation" \in chosen.ready /\ chosen.custom # Unset
BindPushToTalk ==
    /\ task["dictation"].at = "fetch" /\ PushToTalk
    /\ registry' = UnregisterAll(registry)
    /\ At("dictation", "helper")
    /\ UNCHANGED <<chosen, toggleKey, helperKeys, askWindow>>
KeepDefault ==
    /\ task["dictation"].at = "fetch" /\ chosen.custom = Unset
    /\ At("dictation", "done")
    /\ UNCHANGED <<registry, chosen, toggleKey, helperKeys, askWindow>>
BindCustom ==
    /\ task["dictation"].at = "fetch" /\ ~PushToTalk /\ chosen.custom # Unset
    /\ registry' = CustomOrDefault(UnregisterAll(registry), chosen.custom)
    /\ At("dictation", "done")
    /\ UNCHANGED <<chosen, toggleKey, helperKeys, askWindow>>
\* (mutant) a helper that refuses the key is not made up for.
PushToTalkBoundOnly ==
    /\ task["dictation"].at = "helper"
    /\ helperKeys' = helperKeys \cup {"dictation"} \/ UNCHANGED helperKeys
    /\ At("dictation", "done")
    /\ UNCHANGED <<registry, chosen, toggleKey, askWindow>>
\* configurePushToTalk returned: hotkey.start at the dictation helper, or
\* the toggle through globalShortcut instead.
PushToTalkBound ==
    /\ task["dictation"].at = "helper"
    /\ \/ helperKeys' = helperKeys \cup {"dictation"} /\ UNCHANGED registry
       \/ /\ registry' = Register(registry, chosen.custom, "dictation")
          /\ UNCHANGED helperKeys
    /\ At("dictation", "done")
    /\ UNCHANGED <<chosen, toggleKey, askWindow>>

\* bindToggle: a key claimed elsewhere in this process is taken over.
TakenOver(r, a) ==
    LET free == IF r[a] \in {"dictation", "dump"} THEN [r EXCEPT ![a] = "free"] ELSE r
    IN  Register(free, a, "dump")
BindToggle ==
    IF chosen.toggle = Unset
    THEN UNCHANGED <<registry, toggleKey>>
    ELSE /\ registry' = TakenOver(registry, chosen.toggle)
         /\ toggleKey' = IF registry'[chosen.toggle] = "dump" THEN chosen.toggle ELSE Unset

\* applyDumpModeFromSettings: the toggle at once, the hold key by the helper.
ApplyDumpMode ==
    /\ task["dump"].at = "fetch"
    /\ IF "dump" \in chosen.ready /\ chosen.dumpEnabled
       THEN /\ BindToggle
            /\ At("dump", IF chosen.hold THEN "helper" ELSE "done")
       ELSE At("dump", "done") /\ UNCHANGED <<registry, toggleKey>>
    /\ UNCHANGED <<chosen, helperKeys, askWindow>>

\* applyAskCorpusHotkeyFromSettings: only through the helper.
ApplyAsk ==
    /\ task["ask"].at = "fetch"
    /\ At("ask", IF "ask" \in chosen.ready THEN "helper" ELSE "done")
    /\ UNCHANGED <<registry, chosen, toggleKey, helperKeys, askWindow>>

\* (mutant) a refused key is never reported to the caller.
HelperBoundOrSilent(b) ==
    /\ b \in {"dump", "ask"} /\ task[b].at = "helper"
    /\ helperKeys' = helperKeys \cup {b}
    /\ UNCHANGED <<registry, chosen, task, toggleKey, askWindow>>
\* bindHold and startAskCorpusHotkey return, the key watched or not.
HelperBound(b) ==
    /\ b \in {"dump", "ask"} /\ task[b].at = "helper"
    /\ \/ helperKeys' = helperKeys \cup {b}
       \/ UNCHANGED helperKeys
    /\ At(b, "done")
    /\ UNCHANGED <<registry, chosen, toggleKey, askWindow>>

\* The ask key shows the overlay, created when it is needed; Escape and the
\* renderer hide it.
AskPressed ==
    /\ "ask" \in helperKeys /\ task["ask"].at = "done"
    /\ askWindow' = "visible"
    /\ UNCHANGED <<registry, chosen, task, toggleKey, helperKeys>>
AskHidden ==
    /\ askWindow = "visible" /\ askWindow' = "hidden"
    /\ UNCHANGED <<registry, chosen, task, toggleKey, helperKeys>>

BindingSteps ==
    \/ \E b \in Binders : FetchFails(b) \/ HelperBound(b)
    \/ BindPushToTalk \/ KeepDefault \/ BindCustom \/ PushToTalkBound
    \/ ApplyDumpMode \/ ApplyAsk
BindingNext == BindingSteps \/ AskPressed \/ AskHidden

BindingSpec == BindingInit /\ [][BindingNext]_bindingVars
\* Fairness: fetches, timers and helper calls end.
BindingFairSpec == BindingSpec /\ WF_bindingVars(BindingSteps)

-----------------------------------------------------------------------------
BindingTypeOK ==
    /\ registry \in [Accelerators -> {"free", "elsewhere", "dictation", "dump"}]
    /\ task \in [Binders -> [at: {"fetch", "helper", "done", "gaveUp"},
                             attempts: 0 .. MaxAttempts]]
    /\ toggleKey \in Accelerator
    /\ helperKeys \subseteq Binders
    /\ askWindow \in {"none", "visible", "hidden"}

\* A user who chose a key for dictation, one that neither another application
\* nor the dump mode holds, can dictate once the settings were applied,
\* whatever the order of the three functions and whatever the helper says.
DictationKeyWorks ==
    /\ task["dictation"].at = "done" /\ chosen.custom # Unset
    /\ registry[chosen.custom] # "elsewhere" /\ chosen.toggle # chosen.custom
    => "dictation" \in helperKeys \/ registry[chosen.custom] = "dictation"

\* No key calls into a dump mode that is switched off or not there.
DumpKeysOnlyWhenEnabled ==
    ~(chosen.dumpEnabled /\ "dump" \in chosen.ready) =>
        toggleKey = Unset /\ "dump" \notin helperKeys /\ \A a \in Accelerators : registry[a] # "dump"

\* Every function ends within its attempts, whether the backend comes up.
BindingsSettle == <>(\A b \in Binders : task[b].at \in {"done", "gaveUp"})

\* The key the dump mode believes to hold still calls it.
DumpToggleIsHeard == toggleKey # Unset => registry[toggleKey] = "dump"

\* Without a key of the user's own, the default one is there.
DefaultIsKept ==
    /\ task["dictation"].at = "gaveUp" \/ (task["dictation"].at = "done" /\ chosen.custom = Unset)
    /\ registry[Default] # "elsewhere" /\ chosen.toggle # Default
    => registry[Default] = "dictation"
=============================================================================
