----------------------------- MODULE StoreProofs -----------------------------
(****************************************************************************)
(* Proofs about the store of the user interface, whichever page it runs,    *)
(* for any templates, routines, settings, sessions and bounds, from the     *)
(* invariants of the pages.                                                 *)
(****************************************************************************)
EXTENDS MCStore, PagesProofs

\* The test runner of the prompts never shows the rendering of a body it was not last asked for
\* (promptsSlice.reducer.ts, previewPromptSaga.ts).
THEOREM PreviewsAreCurrent == Spec => PreviewsOK
<1> DEFINE Inv == page = "prompts" => PromptsInv
<1>1. Init => Inv
  BY PromptsInitOK DEF Init
<1>2. Inv /\ [Next]_vars => Inv'
  <2> SUFFICES ASSUME Inv, [Next]_vars, page' = "prompts" PROVE PromptsInv'
    OBVIOUS
  <2>1. CASE Next
    BY <2>1, PromptsSteps DEF Next, On
  <2>2. CASE UNCHANGED vars
    BY <2>2, PromptsStutters DEF vars
  <2> QED BY <2>1, <2>2
<1>3. Inv /\ [Next]_vars => [page = "prompts" => PreviewStep]_vars
  <2> SUFFICES ASSUME Inv, Next, page = "prompts" PROVE PreviewStep
    OBVIOUS
  <2> QED BY PromptsSteps DEF Next, On
<1> QED BY <1>1, <1>2, <1>3, PTL DEF Spec, PreviewsOK

WritesInv ==
  /\ page = "prompts" => PromptsInv
  /\ page = "routines" => RoutinesInv
  /\ page = "settings" => SettingsInv
  /\ page = "obsidian" => ObsidianInv
LEMMA WritesInit == Init => WritesInv
BY PromptsInitOK, RoutinesInitOK, SettingsInitOK, ObsidianInitOK DEF Init, WritesInv
LEMMA WritesStep == WritesInv /\ [Next]_vars => WritesInv'
<1> SUFFICES ASSUME WritesInv, [Next]_vars PROVE WritesInv'
  OBVIOUS
<1>1. CASE Next
  BY <1>1, PromptsSteps, RoutinesSteps, SettingsSteps, ObsidianSteps DEF Next, On, WritesInv
<1>2. CASE UNCHANGED vars
  BY <1>2, PromptsStutters, RoutinesStutters, SettingsStutters, ObsidianStutters DEF vars, WritesInv
<1> QED BY <1>1, <1>2
LEMMA WritesMeant == WritesInv => WritesAreMeant
<1> SUFFICES ASSUME WritesInv PROVE WritesAreMeant
  OBVIOUS
<1>1. page = "prompts" => OneDeletePerTemplate
  BY DEF WritesInv, PromptsInv, MarkedDeletes, OneDeletePerTemplate, Running
<1>2. page = "routines" => OneRunPerRoutine
  BY DEF WritesInv, RoutinesInv, MarkedRuns, OneRunPerRoutine, Running
<1>3. page = "settings" => NoSettingIsReset
  BY DEF WritesInv, SettingsInv, SettingsOf, SettingsUi, Kept, Chosen, NoSettingIsReset, DefaultSettings
<1>4. page = "obsidian" => VaultPickKeepsSettings
  BY DEF WritesInv, ObsidianInv, ObsidianOf, Kept, Chosen, VaultPickKeepsSettings, DefaultSettings, OtherFields
<1> QED BY <1>1, <1>2, <1>3, <1>4 DEF WritesAreMeant

\* The backend is asked to write what the user meant, and once: no second deletion of a template
\* and no second run of a routine while one is under way (no request failed and no deletion was refused),
\* and no setting but the cache lifetime is reset by a snapshot, if no save was sent before the settings
\* were loaded; for any fields, moves and failures.
THEOREM OnlyMeantWrites == Spec => []WritesAreMeant
<1>1. WritesInv /\ [Next]_vars => WritesInv'
  BY WritesStep
<1> QED BY <1>1, WritesInit, WritesMeant, PTL DEF Spec

OwnedInv == page = "dictation" => DictationInv
LEMMA OwnedInit == Init => OwnedInv
<1> SUFFICES ASSUME Init, page = "dictation" PROVE DictationInv
  BY DEF OwnedInv
<1>1. DictationStoreInit(MaxMoves[page])
  BY DEF Init
<1> QED BY <1>1, DictationInitOK
LEMMA OwnedStep == OwnedInv /\ [Next]_vars => OwnedInv'
<1> SUFFICES ASSUME OwnedInv, [Next]_vars, page' = "dictation" PROVE DictationInv'
  BY DEF OwnedInv
<1>1. CASE Next
  <2>1. DictationStoreNext /\ page = "dictation"
    BY <1>1, Zenon DEF Next, On
  <2> QED BY <2>1, DictationSteps DEF OwnedInv
<1>2. CASE UNCHANGED vars
  BY <1>2, DictationStutters DEF vars, sagaVars, OwnedInv
<1> QED BY <1>1, <1>2

\* At rest the backend holds no session that the dashboard forgot, and the microphone is open exactly
\* while a recorder runs, for any number of sessions and presses, as long as no request failed, no
\* start was asked for while another ran, no cancel twice, and the dashboard was not left during one.
THEOREM DictationLeavesNothing == Spec => []DictationOwned
<1>1. OwnedInv => DictationOwned
  BY DictationImplies DEF OwnedInv, DictationOwned
<1> QED BY <1>1, OwnedInit, OwnedStep, PTL DEF Spec
==============================================================================
