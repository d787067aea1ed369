-------------------------- MODULE ModelDownloadsProofs --------------------------
(***************************************************************************)
(* Proofs about ModelDownloads, for any downloads, catalogue and bounds:   *)
(* the types, and that no way out of a run leaks or doubles a permit; and, *)
(* when no two runs share a file, that a Completed download has its whole  *)
(* model, that only transient failures leave bytes behind, and that the    *)
(* runs implement the life cycle of DownloadLifecycle.                     *)
(***************************************************************************)
EXTENDS ModelDownloads, FiniteSetTheorems, TLAPS

\* What TypeOK says without the bound on permits, which rests on PermitsConserved.
Typed ==
    /\ row \in [Downloads -> [state : DownloadState, kind : DownloadErrorKind]]
    /\ partial \in [Paths -> Content \cup {NoFile}]
    /\ dest \in [Paths -> Content \cup {NoFile}]
    /\ w \in [Downloads -> RunState]
    /\ permits \in Nat
    /\ cancelled \subseteq Downloads /\ accepted \subseteq Downloads
    /\ stopping \in BOOLEAN
    /\ crashes \in 0..MaxCrashes

\* The path of a download is a path.
LEMMA PathType == ASSUME NEW d \in Downloads PROVE Path(d) \in Paths /\ ModelOf[d] \in Models
BY ModelsAssumption DEF Path

\* The runs keep their type and their place when a file is deleted or moved under their handles.
LEMMA HandlesFollow ==
    ASSUME w \in [Downloads -> RunState], NEW p
    PROVE  /\ AfterDelete(p) \in [Downloads -> RunState]
           /\ \A d \in Downloads : AfterDelete(p)[d].pc = w[d].pc
           /\ AfterMove(p) \in [Downloads -> RunState]
           /\ \A d \in Downloads : AfterMove(p)[d].pc = w[d].pc
<1>1. AfterDelete(p) \in [Downloads -> RunState] /\ \A d \in Downloads : AfterDelete(p)[d].pc = w[d].pc
    BY DEF AfterDelete, RunState, Handle
<1>2. AfterMove(p) \in [Downloads -> RunState] /\ \A d \in Downloads : AfterMove(p)[d].pc = w[d].pc
    BY DEF AfterMove, RunState, Handle
<1> QED BY <1>1, <1>2

\* Moving on changes no handle; leaving the transfer closes the run's own.
LEMMA Moving ==
    ASSUME w \in [Downloads -> RunState], NEW d \in Downloads, NEW pc \in Place
    PROVE  /\ Go(d, pc) => /\ w' \in [Downloads -> RunState]
                           /\ w'[d].pc = pc
                           /\ \A e \in Downloads : w'[e].at = w[e].at
                           /\ \A e \in Downloads \ {d} : w'[e].pc = w[e].pc
           /\ CloseAndGo(d, pc) => /\ w' \in [Downloads -> RunState]
                                   /\ w'[d].pc = pc /\ w'[d].at = "closed"
                                   /\ \A e \in Downloads \ {d} : w'[e] = w[e]
BY DEF Go, CloseAndGo, RunState, Handle

\* Setting fields of one run to values of their types keeps the type, and every other run: the
\* place, the place and the sizes, the place and the handle, the position.
LEMMA PlaceSet ==
    ASSUME NEW v \in [Downloads -> RunState], NEW d \in Downloads, NEW pc \in Place,
           w' = [v EXCEPT ![d].pc = pc]
    PROVE  w' \in [Downloads -> RunState] /\ \A e \in Downloads : w'[e].at = v[e].at
BY DEF RunState

LEMMA SizesSet ==
    ASSUME w \in [Downloads -> RunState], NEW d \in Downloads, NEW pc \in Place, NEW n \in Nat,
           w' = [w EXCEPT ![d].pc = pc, ![d].from = n, ![d].pos = n]
    PROVE  w' \in [Downloads -> RunState] /\ \A e \in Downloads : w'[e].at = w[e].at
BY DEF RunState

LEMMA HandleSet ==
    ASSUME w \in [Downloads -> RunState], NEW d \in Downloads, NEW pc \in Place, NEW at \in Handle,
           w' = [w EXCEPT ![d].pc = pc, ![d].at = at]
    PROVE  /\ w' \in [Downloads -> RunState] /\ w'[d].at = at
           /\ \A e \in Downloads \ {d} : w'[e].at = w[e].at
BY DEF RunState

LEMMA PositionSet ==
    ASSUME w \in [Downloads -> RunState], NEW d \in Downloads, NEW n \in Nat,
           w' = [w EXCEPT ![d].pos = n]
    PROVE  w' \in [Downloads -> RunState] /\ \A e \in Downloads : w'[e].at = w[e].at
BY DEF RunState

\* Appending to a file gives a file.
LEMMA AppendTyped ==
    ASSUME NEW file \in Content, NEW chunk \in Models \X (1..Length)
    PROVE  Append(file, chunk) \in Content /\ Append(file, chunk) # NoFile
<1>1. Append(file, chunk) \in Seq(Models \X (1..Length)) BY DEF Content
<1> QED BY <1>1, NoFileAssumption DEF Content

\* Rows keep their type.
LEMMA RowTyped ==
    ASSUME row \in [Downloads -> [state : DownloadState, kind : DownloadErrorKind]],
           NEW d \in Downloads, NEW state \in DownloadState, NEW kind \in DownloadErrorKind,
           SetRow(d, state, kind)
    PROVE  row' \in [Downloads -> [state : DownloadState, kind : DownloadErrorKind]]
BY DEF SetRow

\* Handles stay right when neither they nor the files change, or a run only closes its own.
LEMMA HandlesStay ==
    ASSUME HandlesOpen, UNCHANGED Files,
           \A e \in Downloads : w'[e].at \in {w[e].at, "closed"}
    PROVE  HandlesOpen'
BY DEF HandlesOpen, Files, Path

\* A request keeps the types.
LEMMA RequestTyped ==
    ASSUME PermitsInv, NEW d \in Downloads, Request(d) PROVE Typed' /\ HandlesOpen'
<1> USE DEF PermitsInv, TypeOK, Typed, Files, Process, Tokens, At,
        Place, Asking, Holding, DownloadState, Active, DownloadErrorKind
<1>1. CASE Ask(d)
    <2>1. PICK pc \in Place : Go(d, pc) BY <1>1 DEF Ask
    <2> QED BY <1>1, <2>1, Moving, HandlesStay, NumbersAssumption DEF Ask
<1>2. CASE LookUp(d)
    <2>1. PICK pc \in Place : Go(d, pc) BY <1>2 DEF LookUp
    <2> QED BY <1>2, <2>1, Moving, HandlesStay, NumbersAssumption DEF LookUp
<1>3. CASE Add(d)
    <2>1. PICK pc \in Place : Go(d, pc) BY <1>3 DEF Add
    <2>2. row' \in [Downloads -> [state : DownloadState, kind : DownloadErrorKind]]
        BY <1>3, RowTyped DEF Add
    <2> QED BY <1>3, <2>1, <2>2, Moving, HandlesStay, NumbersAssumption DEF Add
<1> QED BY <1>1, <1>2, <1>3 DEF Request

\* A cancellation keeps the types.
LEMMA CancelTyped ==
    ASSUME PermitsInv, NEW d \in Downloads, Cancel(d) PROVE Typed' /\ HandlesOpen'
BY HandlesStay, NumbersAssumption
   DEF Cancel, CancelRead, CancelSignal, PermitsInv, TypeOK, Typed, Files, Process

\* The steps that touch no file keep the types.
LEMMA PlainRunTyped ==
    ASSUME PermitsInv, NEW d \in Downloads,
           \/ AcquirePermit(d) \/ CancelWaiting(d) \/ Begin(d) \/ Finalize(d) \/ MoveFails(d)
           \/ Complete(d) \/ MarkCancelled(d) \/ Release(d)
           \/ Interrupted(d) \/ RequestSucceeds(d) \/ RequestFails(d) \/ OpenFails(d)
           \/ BreakOff(d) \/ EndOfBody(d)
    PROVE  Typed' /\ HandlesOpen'
<1> USE DEF PermitsInv, TypeOK, Typed, Files, Process, Tokens, At,
        Place, Asking, Holding, DownloadState, Active, DownloadErrorKind
<1>1. /\ \E pc \in Place : Go(d, pc) \/ CloseAndGo(d, pc)
      /\ \/ UNCHANGED row
         \/ \E state \in DownloadState, kind \in DownloadErrorKind : SetRow(d, state, kind)
      /\ permits' \in Nat
      /\ UNCHANGED <<Files, Tokens, Process>>
    <2>1. CASE AcquirePermit(d) BY <2>1, NumbersAssumption DEF AcquirePermit
    <2>2. CASE CancelWaiting(d) BY <2>2 DEF CancelWaiting
    <2>3. CASE Begin(d) BY <2>3 DEF Begin
    <2>4. CASE Finalize(d) BY <2>4 DEF Finalize
    <2>5. CASE MoveFails(d) BY <2>5 DEF MoveFails, MarkFailed
    <2>6. CASE Complete(d) BY <2>6 DEF Complete
    <2>7. CASE MarkCancelled(d) BY <2>7 DEF MarkCancelled
    <2>8. CASE Release(d) BY <2>8 DEF Release
    <2>9. CASE Interrupted(d) BY <2>9 DEF Interrupted
    <2>10. CASE RequestSucceeds(d) BY <2>10 DEF RequestSucceeds
    <2>11. CASE RequestFails(d) BY <2>11 DEF RequestFails, MarkFailed
    <2>12. CASE OpenFails(d) BY <2>12 DEF OpenFails, MarkFailed
    <2>13. CASE BreakOff(d) BY <2>13 DEF BreakOff, MarkFailed
    <2>14. CASE EndOfBody(d) BY <2>14 DEF EndOfBody
    <2> QED BY <2>1, <2>2, <2>3, <2>4, <2>5, <2>6, <2>7, <2>8, <2>9, <2>10, <2>11, <2>12, <2>13, <2>14
<1>2. /\ w' \in [Downloads -> RunState]
      /\ \A e \in Downloads : w'[e].at \in {w[e].at, "closed"}
    <2>1. PICK pc \in Place : Go(d, pc) \/ CloseAndGo(d, pc) BY <1>1
    <2> QED BY <2>1, Moving
<1>3. row' \in [Downloads -> [state : DownloadState, kind : DownloadErrorKind]]
    BY <1>1, RowTyped
<1>4. HandlesOpen' BY <1>1, <1>2, HandlesStay
<1> QED BY <1>1, <1>2, <1>3, <1>4

\* The steps that count an attempt or change a file keep the types.
LEMMA FileRunTyped ==
    ASSUME PermitsInv, NEW d \in Downloads,
           \/ Measure(d) \/ RequestTransient(d) \/ EndEarly(d) \/ Open(d) \/ Copy(d) \/ Move(d)
           \/ DeleteFailed(d) \/ Drop(d)
    PROVE  Typed' /\ HandlesOpen'
<1> USE DEF PermitsInv, TypeOK, Typed, Process, Tokens, At
<1>0. /\ w \in [Downloads -> RunState]
      /\ Path(d) \in Paths /\ ModelOf[d] \in Models
      /\ {"measure", "request", "copy", "complete", "release", "markCancelled", "drop"} \subseteq Place
    BY PathType DEF Place, Holding
<1>1. CASE Measure(d)
    <2>1. SizeOf(partial[Path(d)]) \in Nat BY <1>0 DEF SizeOf, Content
    <2>2. /\ w' \in [Downloads -> RunState]
          /\ \A e \in Downloads : w'[e].at = w[e].at
        <3>1. CASE d \in cancelled BY <1>0, <1>1, <3>1, Moving DEF Measure
        <3>2. CASE d \notin cancelled
            <4>1. w' = [w EXCEPT ![d].pc = "request", ![d].from = SizeOf(partial[Path(d)]),
                                 ![d].pos = SizeOf(partial[Path(d)])]
                BY <1>1, <3>2 DEF Measure
            <4> QED BY <1>0, <2>1, <4>1, SizesSet
        <3> QED BY <3>1, <3>2
    <2> QED BY <1>1, <2>2, HandlesStay DEF Measure, Files
<1>2. CASE RequestTransient(d) \/ EndEarly(d)
    <2>1. RetryOrGiveUp(d) /\ UNCHANGED <<Files, permits, Tokens, Process>>
        BY <1>2 DEF RequestTransient, EndEarly
    <2>2. /\ w' \in [Downloads -> RunState]
          /\ \A e \in Downloads : w'[e].at \in {w[e].at, "closed"}
        <3>1. CASE w[d].attempt < MaxRetries
            BY <1>0, <2>1, <3>1, NumbersAssumption DEF RetryOrGiveUp, RunState, Handle
        <3>2. CASE ~(w[d].attempt < MaxRetries)
            BY <1>0, <2>1, <3>2, Moving DEF RetryOrGiveUp
        <3> QED BY <3>1, <3>2
    <2>3. row' \in [Downloads -> [state : DownloadState, kind : DownloadErrorKind]]
        BY <2>1, RowTyped DEF RetryOrGiveUp, DownloadState, DownloadErrorKind
    <2> QED BY <2>1, <2>2, <2>3, HandlesStay DEF Files
<1>3. CASE Open(d)
    <2>1. Opened(d, partial[Path(d)]) \in Content BY <1>0 DEF Opened, Content
    <2>2. Opened(d, partial[Path(d)]) # NoFile BY <2>1, NoFileAssumption DEF Content
    <2>3. /\ w' \in [Downloads -> RunState]
          /\ w'[d].at = "partial"
          /\ \A e \in Downloads \ {d} : w'[e].at = w[e].at
        <3>1. w' = [w EXCEPT ![d].pc = "copy", ![d].at = "partial"] BY <1>3 DEF Open
        <3>2. "partial" \in Handle BY DEF Handle
        <3>3. "copy" \in Place BY <1>0
        <3> HIDE DEF PermitsInv, TypeOK, Typed
        <3> QED BY <1>0, <3>1, <3>2, <3>3, HandleSet
    <2>4. partial' = [partial EXCEPT ![Path(d)] = Opened(d, partial[Path(d)])] /\ UNCHANGED dest
        BY <1>3 DEF Open
    <2>5. HandlesOpen'
        <3> SUFFICES ASSUME NEW e \in Downloads
                     PROVE  /\ w'[e].at = "partial" => partial'[Path(e)] # NoFile
                            /\ w'[e].at = "dest" => dest'[Path(e)] # NoFile
            BY DEF HandlesOpen, Path
        <3>1. Path(e) \in Paths BY PathType
        <3>2. CASE Path(e) = Path(d) BY <1>0, <2>2, <2>3, <2>4, <3>1, <3>2 DEF HandlesOpen
        <3>3. CASE Path(e) # Path(d) BY <1>0, <2>2, <2>3, <2>4, <3>1, <3>3 DEF HandlesOpen
        <3> QED BY <3>2, <3>3
    <2>6. partial' \in [Paths -> Content \cup {NoFile}] BY <1>0, <2>1, <2>4
    <2>7. UNCHANGED <<row, dest, permits, Tokens, Process>> BY <1>3 DEF Open
    <2> QED BY <2>3, <2>5, <2>6, <2>7
<1>4. CASE Copy(d)
    <2>1. /\ w' \in [Downloads -> RunState]
          /\ \A e \in Downloads : w'[e].at = w[e].at
        <3>1. w[d].pos + 1 \in Nat BY <1>0 DEF RunState
        <3>2. w' = [w EXCEPT ![d].pos = w[d].pos + 1] BY <1>4 DEF Copy
        <3> QED BY <1>0, <3>1, <3>2, PositionSet
    <2> DEFINE chunk == <<ModelOf[d], w[d].pos + 1>>
    <2>2. chunk \in Models \X (1..Length)
        BY <1>0, <1>4, NumbersAssumption DEF Copy, RunState
    <2>3. \A file \in Content : Append(file, chunk) \in Content /\ Append(file, chunk) # NoFile
        BY <2>2, AppendTyped
    <2>4. /\ w[d].at = "partial" => partial[Path(d)] \in Content
          /\ w[d].at = "dest" => dest[Path(d)] \in Content
        BY <1>0 DEF HandlesOpen
    <2>5. /\ partial' = IF w[d].at = "partial"
                        THEN [partial EXCEPT ![Path(d)] = Append(partial[Path(d)], chunk)] ELSE partial
          /\ dest' = IF w[d].at = "dest"
                     THEN [dest EXCEPT ![Path(d)] = Append(dest[Path(d)], chunk)] ELSE dest
        BY <1>4 DEF Copy
    <2> HIDE DEF chunk
    <2>6. HandlesOpen' BY <1>0, <2>1, <2>3, <2>4, <2>5, PathType DEF HandlesOpen, Path
    <2>7. partial' \in [Paths -> Content \cup {NoFile}] /\ dest' \in [Paths -> Content \cup {NoFile}]
        BY <1>0, <2>3, <2>4, <2>5
    <2> QED BY <1>4, <2>1, <2>6, <2>7 DEF Copy
<1>5. CASE Move(d)
    <2>1. CASE partial[Path(d)] = NoFile
        <3>1. Go(d, "complete") /\ UNCHANGED Files BY <1>5, <2>1 DEF Move
        <3> QED BY <1>0, <1>5, <3>1, Moving, HandlesStay DEF Move, Files
    <2>2. CASE partial[Path(d)] # NoFile
        <3>1. /\ dest' = [dest EXCEPT ![Path(d)] = partial[Path(d)]]
              /\ partial' = [partial EXCEPT ![Path(d)] = NoFile]
              /\ w' = [AfterMove(Path(d)) EXCEPT ![d].pc = "complete"]
            BY <1>5, <2>2 DEF Move
        <3>2. /\ w' \in [Downloads -> RunState]
              /\ \A e \in Downloads : w'[e].at = AfterMove(Path(d))[e].at
            BY <1>0, <3>1, HandlesFollow, PlaceSet
        <3>4. \A e \in Downloads : AfterMove(Path(d))[e].at =
                IF Path(e) # Path(d) THEN w[e].at
                ELSE IF w[e].at = "partial" THEN "dest"
                ELSE IF w[e].at = "dest" THEN "gone" ELSE w[e].at
            BY <1>0 DEF AfterMove, RunState
        <3>5. HandlesOpen' BY <1>0, <2>2, <3>1, <3>2, <3>4, PathType DEF HandlesOpen, Path
        <3>6. partial' \in [Paths -> Content \cup {NoFile}] /\ dest' \in [Paths -> Content \cup {NoFile}]
            BY <1>0, <3>1
        <3> QED BY <1>5, <3>2, <3>5, <3>6 DEF Move
    <2> QED BY <2>1, <2>2
<1>6. CASE DeleteFailed(d) \/ Drop(d)
    <2>1. PICK pc \in Place : DeletePartialAndGo(d, pc)
        BY <1>0, <1>6 DEF DeleteFailed, Drop
    <2>2. /\ partial' = [partial EXCEPT ![Path(d)] = NoFile] /\ UNCHANGED dest
          /\ w' = [AfterDelete(Path(d)) EXCEPT ![d].pc = pc]
        BY <1>6, <2>1 DEF DeletePartialAndGo, DeleteFailed, Drop
    <2>3. /\ w' \in [Downloads -> RunState]
          /\ \A e \in Downloads : w'[e].at = AfterDelete(Path(d))[e].at
        BY <1>0, <2>2, HandlesFollow, PlaceSet
    <2>5. \A e \in Downloads : AfterDelete(Path(d))[e].at =
            IF Path(e) = Path(d) /\ w[e].at = "partial" THEN "gone" ELSE w[e].at
        BY <1>0 DEF AfterDelete, RunState
    <2>6. HandlesOpen' BY <1>0, <2>2, <2>3, <2>5, PathType DEF HandlesOpen, Path
    <2>7. partial' \in [Paths -> Content \cup {NoFile}] BY <1>0, <2>2
    <2> QED BY <1>6, <2>2, <2>3, <2>6, <2>7 DEF DeleteFailed, Drop
<1> QED BY <1>1, <1>2, <1>3, <1>4, <1>5, <1>6

-----------------------------------------------------------------------------
(* Permits.                                                                *)

LEMMA HoldersFinite == IsFiniteSet(Holders)
BY DownloadsAssumption, FS_Subset DEF Holders

\* Nothing happens to the permits when every run stays on its side of the semaphore.
LEMMA SameHolders ==
    ASSUME PermitsConserved, permits' = permits,
           \A e \in Downloads : w'[e].pc \in Holding <=> w[e].pc \in Holding
    PROVE  PermitsConserved'
<1>1. Holders' = Holders BY DEF Holders
<1> QED BY <1>1 DEF PermitsConserved

\* What a step of a run other than taking and returning its permit does to the places.
LEMMA PlacesOfRun ==
    ASSUME PermitsInv, NEW d \in Downloads, Run(d), ~AcquirePermit(d), ~Release(d)
    PROVE  /\ permits' = permits
           /\ \A e \in Downloads : w'[e].pc \in Holding <=> w[e].pc \in Holding
<1>0. w \in [Downloads -> RunState] BY DEF PermitsInv, TypeOK
<1>1. CASE CancelWaiting(d)
    <2>1. permits' = permits /\ w[d].pc \notin Holding /\ Go(d, "ended")
        BY <1>1 DEF CancelWaiting, At, Holding
    <2>2. "ended" \in Place /\ "ended" \notin Holding BY DEF Place, Holding
    <2> QED BY <1>0, <2>1, <2>2, Moving
<1>2. ASSUME NEW pc \in Holding, w[d].pc \in Holding, permits' = permits,
             Go(d, pc) \/ CloseAndGo(d, pc) \/ DeletePartialAndGo(d, pc)
      PROVE  /\ permits' = permits
             /\ \A e \in Downloads : w'[e].pc \in Holding <=> w[e].pc \in Holding
    <2>1. pc \in Place BY DEF Place
    <2>2. CASE Go(d, pc) \/ CloseAndGo(d, pc) BY <1>0, <1>2, <2>1, <2>2, Moving
    <2>3. CASE DeletePartialAndGo(d, pc)
        <3>1. w' = [AfterDelete(Path(d)) EXCEPT ![d].pc = pc] BY <2>3 DEF DeletePartialAndGo
        <3>2. w'[d].pc = pc /\ \A e \in Downloads \ {d} : w'[e].pc = w[e].pc
            BY <1>0, <3>1, HandlesFollow DEF RunState
        <3> QED BY <1>2, <3>2
    <2> QED BY <1>2, <2>2, <2>3
<1>3. ASSUME Begin(d) \/ Finalize(d) \/ MoveFails(d) \/ Complete(d) \/ DeleteFailed(d) \/ Drop(d)
             \/ MarkCancelled(d) \/ Interrupted(d) \/ RequestSucceeds(d) \/ RequestFails(d)
             \/ OpenFails(d) \/ BreakOff(d) \/ EndOfBody(d)
      PROVE  /\ permits' = permits /\ w[d].pc \in Holding
             /\ \E pc \in Holding : Go(d, pc) \/ CloseAndGo(d, pc) \/ DeletePartialAndGo(d, pc)
    <2> USE DEF At, Holding, MarkFailed
    <2>1. CASE Begin(d) BY <2>1 DEF Begin
    <2>2. CASE Finalize(d) BY <2>2 DEF Finalize
    <2>3. CASE MoveFails(d) BY <2>3 DEF MoveFails
    <2>4. CASE Complete(d) BY <2>4 DEF Complete
    <2>5. CASE DeleteFailed(d) BY <2>5 DEF DeleteFailed
    <2>6. CASE Drop(d) BY <2>6 DEF Drop
    <2>7. CASE MarkCancelled(d) BY <2>7 DEF MarkCancelled
    <2>8. CASE Interrupted(d) BY <2>8 DEF Interrupted
    <2>9. CASE RequestSucceeds(d) BY <2>9 DEF RequestSucceeds
    <2>10. CASE RequestFails(d) BY <2>10 DEF RequestFails
    <2>11. CASE OpenFails(d) BY <2>11 DEF OpenFails
    <2>12. CASE BreakOff(d) BY <2>12 DEF BreakOff
    <2>13. CASE EndOfBody(d) BY <2>13 DEF EndOfBody
    <2> QED BY <1>3, <2>1, <2>2, <2>3, <2>4, <2>5, <2>6, <2>7, <2>8, <2>9, <2>10, <2>11, <2>12, <2>13
<1>5. CASE Measure(d)
    <2>1. /\ permits' = permits /\ w[d].pc \in Holding /\ w'[d].pc \in Holding
          /\ \A e \in Downloads \ {d} : w'[e].pc = w[e].pc
        <3>1. permits' = permits /\ w[d].pc \in Holding BY <1>5 DEF Measure, At, Holding
        <3>2. CASE d \in cancelled
            <4>1. Go(d, "drop") /\ "drop" \in Place BY <1>5, <3>2 DEF Measure, Place, Holding
            <4>2. "drop" \in Holding BY DEF Holding
            <4> QED BY <1>0, <3>1, <4>1, <4>2, Moving
        <3>3. CASE d \notin cancelled
            BY <1>0, <1>5, <3>1, <3>3 DEF Measure, RunState, Holding
        <3> QED BY <3>2, <3>3
    <2> QED BY <2>1
<1>6. CASE RequestTransient(d) \/ EndEarly(d)
    <2>1. permits' = permits /\ w[d].pc \in Holding /\ RetryOrGiveUp(d)
        BY <1>6 DEF RequestTransient, EndEarly, At, Holding
    <2>2. w'[d].pc \in Holding /\ \A e \in Downloads \ {d} : w'[e].pc = w[e].pc
        BY <1>0, <2>1 DEF RetryOrGiveUp, CloseAndGo, RunState, Holding
    <2> QED BY <2>1, <2>2
<1>7. CASE Open(d) \/ Copy(d)
    <2>1. permits' = permits /\ w[d].pc \in Holding BY <1>7 DEF Open, Copy, At, Holding
    <2>2. w'[d].pc \in Holding /\ \A e \in Downloads \ {d} : w'[e].pc = w[e].pc
        BY <1>0, <1>7 DEF Open, Copy, At, RunState, Holding
    <2> QED BY <2>1, <2>2
<1>8. CASE Move(d)
    <2>1. permits' = permits /\ w[d].pc \in Holding /\ "complete" \in Holding /\ "complete" \in Place
        BY <1>8 DEF Move, At, Holding, Place
    <2>2. CASE Go(d, "complete") BY <1>0, <2>1, <2>2, Moving
    <2>3. CASE w' = [AfterMove(Path(d)) EXCEPT ![d].pc = "complete"]
        <3>1. w'[d].pc = "complete" /\ \A e \in Downloads \ {d} : w'[e].pc = w[e].pc
            BY <1>0, <2>3, HandlesFollow DEF RunState
        <3> QED BY <2>1, <3>1
    <2> QED BY <1>8, <2>2, <2>3 DEF Move
<1> QED BY <1>1, <1>2, <1>3, <1>5, <1>6, <1>7, <1>8 DEF Run, Attempt

\* A run takes a free permit before it begins and gives it back once, at its end.
LEMMA RunConserves ==
    ASSUME PermitsInv, NEW d \in Downloads, Run(d) PROVE PermitsConserved'
<1>0. w \in [Downloads -> RunState] /\ permits \in Nat /\ PermitsConserved /\ MaxConcurrent \in Nat
    BY NumbersAssumption DEF PermitsInv, TypeOK
<1>f. IsFiniteSet(Holders) /\ Cardinality(Holders) \in Nat
    BY HoldersFinite, FS_CardinalityType
<1>1. CASE AcquirePermit(d)
    <2>1. /\ w[d].pc = "wait" /\ permits' = permits - 1 /\ Go(d, "begin")
        BY <1>1 DEF AcquirePermit, At
    <2>2. d \notin Holders BY <2>1 DEF Holders, Holding
    <2>3. Holders' = Holders \cup {d}
        BY <1>0, <2>1 DEF Holders, Go, RunState, Holding
    <2>4. Cardinality(Holders') = Cardinality(Holders) + 1
        BY <1>f, <2>2, <2>3, FS_AddElement
    <2> QED BY <1>0, <1>f, <2>1, <2>4 DEF PermitsConserved
<1>2. CASE Release(d)
    <2>1. /\ w[d].pc = "release" /\ permits' = permits + 1 /\ Go(d, "ended")
        BY <1>2 DEF Release, At
    <2>2. d \in Holders BY <2>1 DEF Holders, Holding
    <2>3. Holders' = Holders \ {d}
        BY <1>0, <2>1 DEF Holders, Go, RunState, Holding
    <2>4. Cardinality(Holders') = Cardinality(Holders) - 1
        BY <1>f, <2>2, <2>3, FS_RemoveElement
    <2> QED BY <1>0, <1>f, <2>1, <2>4 DEF PermitsConserved
<1>3. CASE ~AcquirePermit(d) /\ ~Release(d)
    BY <1>0, <1>3, PlacesOfRun, SameHolders
<1> QED BY <1>1, <1>2, <1>3

\* Requests and cancellations do not touch the semaphore.
LEMMA OthersConserve ==
    ASSUME PermitsInv, NEW d \in Downloads, Request(d) \/ Cancel(d) PROVE PermitsConserved'
<1>0. w \in [Downloads -> RunState] /\ PermitsConserved BY DEF PermitsInv, TypeOK
<1>1. CASE Request(d)
    <2>1. permits' = permits /\ w[d].pc \notin Holding
        BY <1>1 DEF Request, Ask, LookUp, Add, At, Holding
    <2>2. PICK pc \in Place \ Holding : Go(d, pc)
        BY <1>1 DEF Request, Ask, LookUp, Add, Place, Asking, Holding
    <2>3. w'[d].pc = pc /\ \A e \in Downloads \ {d} : w'[e].pc = w[e].pc
        BY <1>0, <2>2, Moving
    <2> QED BY <1>0, <2>1, <2>2, <2>3, SameHolders
<1>2. CASE Cancel(d) BY <1>0, <1>2, SameHolders DEF Cancel, CancelRead, CancelSignal
<1> QED BY <1>1, <1>2

\* A restart forgets every run and has all permits free; a stop touches none.
LEMMA ProcessPreserves ==
    ASSUME PermitsInv, Stop \/ Restart PROVE Typed' /\ HandlesOpen' /\ PermitsConserved'
<1> USE DEF PermitsInv
<1>0. w \in [Downloads -> RunState] BY DEF TypeOK
<1>1. CASE Stop
    <2>1. Typed' BY <1>1 DEF Stop, TypeOK, Typed, Files
    <2>2. HandlesOpen' BY <1>1, HandlesStay DEF Stop, Files
    <2>3. PermitsConserved' BY <1>1, SameHolders DEF Stop
    <2> QED BY <2>1, <2>2, <2>3
<1>2. CASE Restart
    <2>1. \A d \in Downloads :
            w'[d] = IF Live(d) THEN [IdleRun EXCEPT !.pc = "lost"]
                    ELSE IF w[d].pc \in {"lookUp", "add"} THEN [IdleRun EXCEPT !.pc = "answered"]
                    ELSE w[d]
        BY <1>2 DEF Restart, Live, Holding
    <2>2. \A d \in Downloads : w'[d] \in RunState
        BY <1>0, <2>1, NumbersAssumption DEF IdleRun, RunState, Place, Asking, Handle
    <2>3. w' \in [Downloads -> RunState] BY <1>2, <2>2 DEF Restart
    <2>4. Typed'
        <3>1. crashes' \in 0..MaxCrashes
            BY <1>2, NumbersAssumption DEF Restart, TypeOK
        <3>2. permits' \in Nat /\ stopping' \in BOOLEAN BY <1>2, NumbersAssumption DEF Restart
        <3>3. UNCHANGED <<row, partial, dest, cancelled, accepted>> BY <1>2 DEF Restart, Files, Tokens
        <3> QED BY <2>3, <3>1, <3>2, <3>3 DEF TypeOK, Typed
    <2>5. \A d \in Downloads : w'[d].at \in {w[d].at, "closed"} BY <2>1 DEF IdleRun
    <2>6. HandlesOpen' BY <1>2, <2>5, HandlesStay DEF Restart
    <2>7. \A d \in Downloads : w'[d].pc \notin Holding BY <2>1 DEF IdleRun, Live, Holding
    <2>8. Holders' = {} BY <2>7 DEF Holders
    <2>9. PermitsConserved'
        BY <1>2, <2>8, FS_EmptySet, NumbersAssumption DEF Restart, PermitsConserved
    <2> QED BY <2>4, <2>6, <2>9
<1> QED BY <1>1, <1>2

-----------------------------------------------------------------------------
(* Theorems.                                                               *)

\* The initial state satisfies the invariant.
LEMMA InitPermits == Init => PermitsInv
<1> SUFFICES ASSUME Init PROVE PermitsInv OBVIOUS
<1>1. TypeOK
    <2>1. IdleRun \in RunState
        BY NumbersAssumption DEF IdleRun, RunState, Place, Asking, Handle
    <2>2. [state |-> "Absent", kind |-> "none"] \in [state : DownloadState, kind : DownloadErrorKind]
        BY DEF DownloadState, DownloadErrorKind
    <2>3. /\ row \in [Downloads -> [state : DownloadState, kind : DownloadErrorKind]]
          /\ w \in [Downloads -> RunState]
        BY <2>1, <2>2 DEF Init
    <2>4. /\ partial \in [Paths -> Content \cup {NoFile}]
          /\ dest \in [Paths -> Content \cup {NoFile}]
        BY DEF Init
    <2>5. permits \in 0..MaxConcurrent /\ crashes \in 0..MaxCrashes
        BY NumbersAssumption DEF Init
    <2> QED BY <2>3, <2>4, <2>5 DEF Init, TypeOK
<1>2. HandlesOpen BY DEF Init, HandlesOpen, IdleRun
<1>3. Holders = {} BY DEF Init, Holders, IdleRun, Holding
<1>4. PermitsConserved BY <1>3, FS_EmptySet, NumbersAssumption DEF Init, PermitsConserved
<1> QED BY <1>1, <1>2, <1>4 DEF PermitsInv

\* The bound on permits follows from their conservation.
LEMMA TypeFromConservation == (Typed /\ PermitsConserved => TypeOK)'
<1>1. Cardinality(Holders') \in Nat
    BY DownloadsAssumption, FS_Subset, FS_CardinalityType DEF Holders
<1> QED BY <1>1, NumbersAssumption DEF Typed, PermitsConserved, TypeOK

\* Every step preserves the invariant.
LEMMA NextPermits == PermitsInv /\ [Next]_vars => PermitsInv'
<1> SUFFICES ASSUME PermitsInv, [Next]_vars PROVE PermitsInv' OBVIOUS
<1>1. ASSUME NEW d \in Downloads, Request(d) \/ Cancel(d) \/ Run(d)
      PROVE  Typed' /\ HandlesOpen' /\ PermitsConserved'
    <2>1. Typed' /\ HandlesOpen'
        <3>1. CASE Request(d) BY <3>1, RequestTyped
        <3>2. CASE Cancel(d) BY <3>2, CancelTyped
        <3>3. CASE Run(d) BY <3>3, PlainRunTyped, FileRunTyped DEF Run, Attempt
        <3> QED BY <1>1, <3>1, <3>2, <3>3
    <2>2. PermitsConserved' BY <1>1, RunConserves, OthersConserve
    <2> QED BY <2>1, <2>2
<1>2. CASE Stop \/ Restart BY <1>2, ProcessPreserves, TypeFromConservation DEF PermitsInv
<1>3. CASE UNCHANGED vars
    BY <1>3 DEF vars, PermitsInv, TypeOK, HandlesOpen, PermitsConserved, Holders
<1>4. CASE \E d \in Downloads : Request(d) \/ Cancel(d) \/ Run(d)
    BY <1>1, <1>4, TypeFromConservation DEF PermitsInv
<1> QED BY <1>2, <1>3, <1>4 DEF Next

\* Whatever the clients, the server and the process do, every permit of the semaphore is free or
\* held by exactly one run.
THEOREM PermitsAreConserved == Spec => []PermitsConserved
<1>1. PermitsInv => PermitsConserved BY DEF PermitsInv
<1> QED BY <1>1, InitPermits, NextPermits, PTL DEF Spec

\* The variables keep their types; in particular a run never counts more attempts than allowed.
THEOREM DownloadsTypeCorrect == Spec => []TypeOK
<1>1. PermitsInv => TypeOK BY DEF PermitsInv
<1> QED BY <1>1, InitPermits, NextPermits, PTL DEF Spec

-------------------------------------------------------------------------------
(* The files, when no two runs share one. *)

\* Downloads of one file are downloads of one model.
LEMMA OneModelPerFile ==
    ASSUME NoSharing, NEW d \in Downloads, NEW e \in Downloads, Path(e) = Path(d)
    PROVE  ModelOf[e] = ModelOf[d]
BY PathType DEF NoSharing, Path

\* While a request or run of a file is under way, the others of the file are not begun or over.
LEMMA OthersRest ==
    ASSUME PermitsInv, FilesInv, NEW d \in Downloads, Busy(d),
           NEW e \in Downloads \ {d}, Path(e) = Path(d)
    PROVE  ~Busy(e) /\ w[e].pc \in {"idle", "answered", "ended", "lost"} /\ w[e].at = "closed" /\ ~Writes(e)
<1>1. ~Busy(e) BY DEF FilesInv, OneRunPerFile
<1>2. w[e].pc \in Place BY DEF PermitsInv, TypeOK, RunState
<1>3. w[e].pc \in {"idle", "answered", "ended", "lost"}
    BY <1>1, <1>2 DEF Busy, Live, Place, Asking, Holding
<1>4. w[e].at = "closed" BY <1>3 DEF FilesInv, PartialFits, At
<1> QED BY <1>1, <1>3, <1>4 DEF Writes

-----------------------------------------------------------------------------
(* First chunks.                                                           *)

LEMMA FirstType ==
    ASSUME NEW m \in Models, NEW n \in 0..Length
    PROVE  First(m, n) \in Content /\ First(m, n) # NoFile /\ Len(First(m, n)) = n
<1>1. n \in Nat /\ \A i \in 1..n : <<m, i>> \in Models \X (1..Length) BY NumbersAssumption
<1>2. First(m, n) \in Seq(Models \X (1..Length)) /\ Len(First(m, n)) = n BY <1>1 DEF First
<1> QED BY <1>2, NoFileAssumption DEF Content

\* The next chunk makes the file one longer.
LEMMA NextChunk ==
    ASSUME NEW m \in Models, NEW n \in 0..Length
    PROVE  Append(First(m, n), <<m, n + 1>>) = First(m, n + 1)
<1>1. n \in Nat BY NumbersAssumption
<1> DEFINE a == Append(First(m, n), <<m, n + 1>>)
<1>2. Len(First(m, n)) = n /\ First(m, n) \in Content BY FirstType
<1>3. a \in [1..(n + 1) -> Models \X Nat] /\ \A i \in 1..(n + 1) : a[i] = <<m, i>>
    <2>1. First(m, n) \in Seq(Models \X Nat) BY <1>1 DEF First
    <2>2. <<m, n + 1>> \in Models \X Nat BY <1>1
    <2>3. a \in Seq(Models \X Nat) /\ Len(a) = n + 1 BY <1>2, <2>1, <2>2
    <2>4. \A i \in 1..(n + 1) : a[i] = IF i <= n THEN First(m, n)[i] ELSE <<m, n + 1>>
        BY <1>1, <1>2, <2>1, <2>2
    <2>5. \A i \in 1..n : First(m, n)[i] = <<m, i>> BY DEF First
    <2> HIDE DEF a
    <2>6. \A i \in 1..(n + 1) : a[i] = <<m, i>> BY <1>1, <2>4, <2>5
    <2>7. a \in [1..(n + 1) -> Models \X Nat] BY <1>1, <2>3
    <2> QED BY <2>6, <2>7
<1> HIDE DEF a
<1>4. a = [i \in 1..(n + 1) |-> <<m, i>>] BY <1>3
<1> QED BY <1>4 DEF First, a

LEMMA WholeIsFirst == ASSUME NEW m \in Models PROVE Whole(m) = First(m, Length)
BY DEF Whole, First

-----------------------------------------------------------------------------
(* One step of one run.                                                    *)

Fits(d) == RowFits(d) /\ PartialFits(d) /\ DestFits(d)

\* Only this download, and only its files, change; the destination changes to the whole model.
StepOf(d) ==
    /\ \A e \in Downloads \ {d} : w'[e] = w[e] /\ row'[e] = row[e]
    /\ \A p \in Paths \ {Path(d)} : partial'[p] = partial[p] /\ dest'[p] = dest[p]
    /\ dest'[Path(d)] \in {dest[Path(d)], Whole(ModelOf[d])}

\* What failed downloads and lost runs left is still theirs.
LEMMA LeftStays ==
    ASSUME FilesInv, NEW d \in Downloads, StepOf(d), ~At(d, "lost"),
           At(d, "release") => UNCHANGED row, w[d].pc # "ended",
           NEW e \in Downloads, Left(e)
    PROVE  Left(e)'
<1>1. PICK f \in Downloads : Path(f) = Path(e) /\ (row[f].kind = "Transient" \/ At(f, "lost"))
    BY DEF Left
<1>2. row[d].kind = "Transient" => At(d, "release") BY DEF FilesInv, RowFits, At
<1>3. row'[f].kind = "Transient" \/ w'[f].pc = "lost" BY <1>1, <1>2 DEF StepOf, At
<1> QED BY <1>1, <1>3 DEF Left, At, Path

\* Bytes the run under way has not written were left by an earlier one.
LEMMA Inherited ==
    ASSUME PermitsInv, FilesInv, NEW d \in Downloads, Busy(d), ~Writes(d),
           SizeOf(partial[Path(d)]) > 0
    PROVE  Left(d)
BY OthersRest DEF FilesInv, OriginKnown

\* When a step leaves the files and the run of its download right, it leaves all right.
LEMMA OthersKeep ==
    ASSUME NoSharing, PermitsInv, FilesInv, NEW d \in Downloads, Busy(d), StepOf(d), Fits(d)',
           At(d, "release") => UNCHANGED row,
           /\ w'[d].pc \in {"request", "open", "copy"}
           /\ w'[d].attempt = 0
           /\ w'[d].from > 0
           => Left(d),
           SizeOf(partial'[Path(d)]) > 0 =>
                Left(d) \/ Writes(d)' \/ row'[d].kind = "Transient"
    PROVE  FilesInv'
<1>b. ~At(d, "lost") /\ w[d].pc # "ended" BY DEF Busy, Live, Holding, At
<1>0. \A e \in Downloads : Left(e) => Left(e)' BY <1>b, LeftStays
<1>1. OneRunPerFile'
    <2>1. \A e \in Downloads \ {d} : Busy(e)' <=> Busy(e) BY DEF StepOf, Busy, Live
    <2> QED BY <2>1 DEF FilesInv, OneRunPerFile, Path
<1>2. ASSUME NEW e \in Downloads, Path(e) # Path(d)
      PROVE  (Fits(e) /\ OriginKnown(e))'
    <2>1. Path(e) \in Paths /\ Path(d) \in Paths /\ e # d BY <1>2, PathType
    <2>2. /\ w'[e] = w[e] /\ row'[e] = row[e]
          /\ partial'[Path(e)] = partial[Path(e)] /\ dest'[Path(e)] = dest[Path(e)]
        BY <1>2, <2>1 DEF StepOf
    <2>3. Fits(e)' BY <2>2 DEF FilesInv, Fits, RowFits, PartialFits, DestFits, At, Path
    <2>4. \A f \in Downloads : Path(f) = Path(e) /\ Writes(f) => Writes(f)'
        BY <1>2 DEF StepOf, Writes
    <2>5. OriginKnown(e)' BY <1>0, <2>2, <2>4 DEF FilesInv, OriginKnown, Path
    <2> QED BY <2>3, <2>5
<1>3. ASSUME NEW e \in Downloads, Path(e) = Path(d)
      PROVE  (SizeOf(partial[Path(e)]) > 0 =>
                Left(e) \/ \E f \in Downloads : Path(f) = Path(e) /\ Writes(f))'
    <2>1. Left(d)' => Left(e)' BY <1>3 DEF Left, Path
    <2>2. row'[d].kind = "Transient" => Left(e)' BY <1>3 DEF Left, Path
    <2>3. partial'[Path(e)] = partial'[Path(d)] BY <1>3
    <2> QED BY <1>0, <1>3, <2>1, <2>2, <2>3 DEF Path
<1>4. ASSUME NEW e \in Downloads \ {d}, Path(e) = Path(d)
      PROVE  (Fits(e) /\ OriginKnown(e))'
    <2>1. w[e].pc \in {"idle", "answered", "ended", "lost"} /\ w[e].at = "closed"
        BY <1>4, OthersRest
    <2>2. w'[e] = w[e] /\ row'[e] = row[e] BY DEF StepOf
    <2>3. ModelOf[e] = ModelOf[d] BY <1>4, OneModelPerFile
    <2>4. RowFits(e)' BY <2>2 DEF FilesInv, RowFits
    <2>5. PartialFits(e)'
        <3>1. partial'[Path(e)] = NoFile \/ \E n \in 0..Length : partial'[Path(e)] = First(ModelOf[e], n)
            BY <1>4, <2>3 DEF Fits, PartialFits, Path
        <3> QED BY <2>1, <2>2, <3>1 DEF PartialFits, At, Path
    <2>6. DestFits(e)'
        <3>1. dest'[Path(e)] \in {NoFile, Whole(ModelOf[e])}
            BY <1>4, <2>3 DEF Fits, DestFits, Path
        <3>2. dest[Path(e)] = Whole(ModelOf[e]) => dest'[Path(e)] = Whole(ModelOf[e])
            BY <1>4, <2>3 DEF StepOf
        <3> QED BY <2>1, <2>2, <3>1, <3>2 DEF FilesInv, DestFits, At, Path
    <2>7. OriginKnown(e)' BY <1>3, <1>4, <2>1, <2>2 DEF OriginKnown
    <2> QED BY <2>4, <2>5, <2>6, <2>7 DEF Fits
<1>5. OriginKnown(d)' BY <1>0, <1>3 DEF OriginKnown
<1> QED BY <1>1, <1>2, <1>4, <1>5 DEF FilesInv, Fits

\* The facts about one run that its steps need.
LEMMA RunFacts ==
    ASSUME PermitsInv, FilesInv, NEW d \in Downloads
    PROVE  /\ w \in [Downloads -> RunState] /\ w[d] \in RunState
           /\ row \in [Downloads -> [state : DownloadState, kind : DownloadErrorKind]]
           /\ partial \in [Paths -> Content \cup {NoFile}] /\ dest \in [Paths -> Content \cup {NoFile}]
           /\ Path(d) \in Paths /\ ModelOf[d] \in Models
           /\ Fits(d) /\ OriginKnown(d)
BY PathType DEF PermitsInv, TypeOK, FilesInv, Fits

\* A step that moves the run on, with its handle closed, and perhaps sets the row.
LEMMA MovedOn ==
    ASSUME NoSharing, PermitsInv, FilesInv, NEW d \in Downloads, Busy(d),
           NEW pc, (Go(d, pc) /\ ~At(d, "copy")) \/ CloseAndGo(d, pc)
    PROVE  /\ w'[d].pc = pc /\ w'[d].at = "closed"
           /\ w'[d].attempt = w[d].attempt /\ w'[d].from = w[d].from /\ w'[d].pos = w[d].pos
           /\ UNCHANGED Files => ((UNCHANGED row \/ \E state, kind : SetRow(d, state, kind)) => StepOf(d))
           /\ \A state, kind : SetRow(d, state, kind) => row'[d] = [state |-> state, kind |-> kind]
<1>0. w \in [Downloads -> RunState] /\ row \in [Downloads -> [state : DownloadState, kind : DownloadErrorKind]]
      /\ (~At(d, "copy") => w[d].at = "closed")
    BY RunFacts DEF Fits, PartialFits
<1>1. /\ w'[d].pc = pc /\ w'[d].at = "closed"
      /\ w'[d].attempt = w[d].attempt /\ w'[d].from = w[d].from /\ w'[d].pos = w[d].pos
      /\ \A e \in Downloads \ {d} : w'[e] = w[e]
    BY <1>0 DEF Go, CloseAndGo, RunState
<1>2. \A state, kind : SetRow(d, state, kind) =>
        /\ row'[d] = [state |-> state, kind |-> kind]
        /\ \A e \in Downloads \ {d} : row'[e] = row[e]
    BY <1>0 DEF SetRow
<1>3. UNCHANGED Files => ((UNCHANGED row \/ \E state, kind : SetRow(d, state, kind)) => StepOf(d))
    BY <1>1, <1>2 DEF StepOf, Files
<1> QED BY <1>1, <1>2, <1>3

\* The steps that leave the row and the files alone.
LEMMA QuietSteps ==
    ASSUME NoSharing, PermitsInv, FilesInv, NEW d \in Downloads,
           \/ AcquirePermit(d) \/ RequestSucceeds(d) \/ Interrupted(d) \/ EndOfBody(d) \/ Release(d)
           \/ Measure(d) /\ d \in cancelled
    PROVE  FilesInv'
<1>0. Fits(d) /\ OriginKnown(d) /\ ModelOf[d] \in Models BY RunFacts
<1>1. PICK pc : /\ (Go(d, pc) /\ ~At(d, "copy")) \/ CloseAndGo(d, pc)
                /\ UNCHANGED <<row, Files>>
                /\ \/ At(d, "wait") /\ pc = "begin"
                   \/ At(d, "request") /\ pc = "open"
                   \/ w[d].pc \in {"measure", "request", "open", "copy"} /\ pc = "drop"
                   \/ At(d, "copy") /\ w[d].pos = Length /\ pc = "finalize"
                   \/ At(d, "release") /\ pc = "ended"
    <2>1. CASE AcquirePermit(d) BY <2>1 DEF AcquirePermit, At
    <2>2. CASE RequestSucceeds(d) BY <2>2 DEF RequestSucceeds, At
    <2>3. CASE Interrupted(d) BY <2>3 DEF Interrupted, At
    <2>4. CASE EndOfBody(d) BY <2>4 DEF EndOfBody, At
    <2>5. CASE Release(d) BY <2>5 DEF Release, At
    <2>6. CASE Measure(d) /\ d \in cancelled BY <2>6 DEF Measure, At
    <2> QED BY <2>1, <2>2, <2>3, <2>4, <2>5, <2>6
<1>2. Busy(d) BY <1>1 DEF Busy, Live, Holding, At
<1>3. StepOf(d) /\ w'[d].pc = pc /\ w'[d].at = "closed" /\ w'[d].attempt = w[d].attempt
      /\ w'[d].from = w[d].from /\ w'[d].pos = w[d].pos
    BY <1>1, <1>2, MovedOn
<1>4. row' = row /\ partial' = partial /\ dest' = dest BY <1>1 DEF Files
<1>5. Fits(d)'
    <2>1. RowFits(d)' BY <1>0, <1>1, <1>3, <1>4 DEF Fits, RowFits, At, Asking
    <2>2. PartialFits(d)'
        BY <1>0, <1>1, <1>3, <1>4, WholeIsFirst DEF Fits, PartialFits, At, Path
    <2>3. DestFits(d)' BY <1>0, <1>1, <1>3, <1>4 DEF Fits, DestFits, At, Path
    <2> QED BY <2>1, <2>2, <2>3 DEF Fits
<1>6. /\ w'[d].pc \in {"request", "open", "copy"}
      /\ w'[d].attempt = 0
      /\ w'[d].from > 0
      => Left(d)
    BY <1>0, <1>1, <1>3 DEF OriginKnown, At
<1>7. SizeOf(partial'[Path(d)]) > 0 => Left(d) \/ Writes(d)'
    <2>1. Writes(d) => Writes(d)' BY <1>1, <1>3 DEF Writes, At
    <2> QED BY <1>2, <1>4, <2>1, Inherited
<1> QED BY <1>1, <1>2, <1>3, <1>4, <1>5, <1>6, <1>7, OthersKeep

\* The steps that set the row and leave the files alone.
LEMMA RowSteps ==
    ASSUME NoSharing, PermitsInv, FilesInv, NEW d \in Downloads,
           \/ CancelWaiting(d) \/ Begin(d) \/ Finalize(d) \/ Complete(d) \/ MarkCancelled(d)
           \/ RequestFails(d) \/ OpenFails(d) \/ BreakOff(d) \/ MoveFails(d)
           \/ (RequestTransient(d) \/ EndEarly(d)) /\ ~(w[d].attempt < MaxRetries)
    PROVE  FilesInv'
<1>0. Fits(d) /\ OriginKnown(d) /\ ModelOf[d] \in Models BY RunFacts
<1>1. PICK pc, state, kind :
                /\ (Go(d, pc) /\ ~At(d, "copy")) \/ CloseAndGo(d, pc)
                /\ SetRow(d, state, kind) /\ UNCHANGED Files
                /\ \/ At(d, "wait") /\ pc = "ended" /\ state = "Cancelled" /\ kind = "none"
                   \/ At(d, "begin") /\ pc = "measure" /\ state = "Downloading" /\ kind = "none"
                   \/ At(d, "finalize") /\ pc = "move" /\ state = "Finalizing" /\ kind = "none"
                   \/ At(d, "complete") /\ pc = "release" /\ state = "Completed" /\ kind = "none"
                   \/ At(d, "markCancelled") /\ pc = "release" /\ state = "Cancelled" /\ kind = "none"
                   \/ w[d].pc \in {"request", "open", "copy", "move"} /\ pc = "deleteFailed"
                        /\ state = "Failed" /\ kind = "Fatal"
                   \/ w[d].pc \in {"request", "copy"} /\ pc = "release"
                        /\ state = "Failed" /\ kind = "Transient"
    <2> USE DEF At, MarkFailed
    <2>1. CASE CancelWaiting(d) BY <2>1 DEF CancelWaiting
    <2>2. CASE Begin(d) BY <2>2 DEF Begin
    <2>3. CASE Finalize(d) BY <2>3 DEF Finalize
    <2>4. CASE Complete(d) BY <2>4 DEF Complete
    <2>5. CASE MarkCancelled(d) BY <2>5 DEF MarkCancelled
    <2>6. CASE RequestFails(d) \/ OpenFails(d) \/ BreakOff(d) \/ MoveFails(d)
        BY <2>6 DEF RequestFails, OpenFails, BreakOff, MoveFails
    <2>7. CASE (RequestTransient(d) \/ EndEarly(d)) /\ ~(w[d].attempt < MaxRetries)
        BY <2>7 DEF RequestTransient, EndEarly, RetryOrGiveUp
    <2> QED BY <2>1, <2>2, <2>3, <2>4, <2>5, <2>6, <2>7
<1>2. Busy(d) BY <1>1 DEF Busy, Live, Holding, At
<1>3. /\ StepOf(d) /\ w'[d].pc = pc /\ w'[d].at = "closed" /\ w'[d].attempt = w[d].attempt
      /\ w'[d].from = w[d].from /\ w'[d].pos = w[d].pos
      /\ row'[d] = [state |-> state, kind |-> kind]
    BY <1>1, <1>2, MovedOn
<1>4. partial' = partial /\ dest' = dest BY <1>1 DEF Files
<1>5. Fits(d)'
    <2>1. RowFits(d)' BY <1>1, <1>3 DEF RowFits, At, Asking
    <2>2. PartialFits(d)' BY <1>0, <1>1, <1>3, <1>4 DEF Fits, PartialFits, At, Path
    <2>3. DestFits(d)' BY <1>0, <1>1, <1>3, <1>4 DEF Fits, DestFits, At, Path
    <2> QED BY <2>1, <2>2, <2>3 DEF Fits
<1>6. w'[d].pc \notin {"request", "open", "copy"} BY <1>1, <1>3
<1>7. SizeOf(partial'[Path(d)]) > 0 => Left(d) \/ Writes(d)' \/ row'[d].kind = "Transient"
    <2>1. Writes(d) => Writes(d)' \/ row'[d].kind = "Transient"
        BY <1>1, <1>3 DEF Writes, At
    <2> QED BY <1>2, <1>4, <2>1, Inherited
<1>8. ~At(d, "release") BY <1>1 DEF At
<1> QED BY <1>2, <1>3, <1>5, <1>6, <1>7, <1>8, OthersKeep

\* The next attempt after a transient error.
LEMMA RetryStep ==
    ASSUME NoSharing, PermitsInv, FilesInv, NEW d \in Downloads,
           (RequestTransient(d) \/ EndEarly(d)) /\ w[d].attempt < MaxRetries
    PROVE  FilesInv'
<1>0. w \in [Downloads -> RunState] /\ w[d] \in RunState /\ Fits(d) /\ OriginKnown(d)
    BY RunFacts
<1>1. /\ w' = [w EXCEPT ![d].pc = "measure", ![d].at = "closed", ![d].attempt = @ + 1]
      /\ row' = row /\ partial' = partial /\ dest' = dest
      /\ At(d, "request") \/ At(d, "copy")
    BY DEF RequestTransient, EndEarly, RetryOrGiveUp, Files
<1>2. Busy(d) /\ ~At(d, "release") BY <1>1 DEF Busy, Live, Holding, At
<1>3. /\ w'[d].pc = "measure" /\ w'[d].at = "closed" /\ w'[d].attempt = w[d].attempt + 1
      /\ \A e \in Downloads \ {d} : w'[e] = w[e]
    BY <1>0, <1>1 DEF RunState
<1>4. StepOf(d) BY <1>1, <1>3 DEF StepOf
<1>5. Fits(d)'
    <2>1. RowFits(d)' BY <1>0, <1>1, <1>3 DEF Fits, RowFits, At, Asking
    <2>2. PartialFits(d)' BY <1>0, <1>1, <1>3 DEF Fits, PartialFits, At, Path
    <2>3. DestFits(d)' BY <1>0, <1>1, <1>3 DEF Fits, DestFits, At, Path
    <2> QED BY <2>1, <2>2, <2>3 DEF Fits
<1>6. Writes(d)' BY <1>0, <1>3, NumbersAssumption DEF Writes, RunState
<1> QED BY <1>2, <1>3, <1>4, <1>5, <1>6, OthersKeep

\* A run measures what it resumes from.
LEMMA MeasureStep ==
    ASSUME NoSharing, PermitsInv, FilesInv, NEW d \in Downloads, Measure(d), d \notin cancelled
    PROVE  FilesInv'
<1>0. w \in [Downloads -> RunState] /\ w[d] \in RunState /\ Fits(d) /\ OriginKnown(d)
    BY RunFacts
<1> DEFINE size == SizeOf(partial[Path(d)])
<1>1. /\ w' = [w EXCEPT ![d].pc = "request", ![d].from = size, ![d].pos = size]
      /\ row' = row /\ partial' = partial /\ dest' = dest /\ At(d, "measure")
    BY DEF Measure, Files
<1> HIDE DEF size
<1>2. Busy(d) /\ ~At(d, "release") BY <1>1 DEF Busy, Live, Holding, At
<1>3. /\ w'[d].pc = "request" /\ w'[d].at = w[d].at /\ w'[d].attempt = w[d].attempt
      /\ w'[d].from = size /\ w'[d].pos = size
      /\ \A e \in Downloads \ {d} : w'[e] = w[e]
    BY <1>0, <1>1 DEF RunState
<1>4. StepOf(d) BY <1>1, <1>3 DEF StepOf
<1>5. Fits(d)'
    <2>1. RowFits(d)' BY <1>0, <1>1, <1>3 DEF Fits, RowFits, At, Asking
    <2>2. PartialFits(d)' BY <1>0, <1>1, <1>3 DEF Fits, PartialFits, At, Path, size
    <2>3. DestFits(d)' BY <1>0, <1>1, <1>3 DEF Fits, DestFits, At, Path
    <2> QED BY <2>1, <2>2, <2>3 DEF Fits
<1>6. Writes(d) => Writes(d)' BY <1>1, <1>3 DEF Writes, At
<1>7. SizeOf(partial[Path(d)]) > 0 => Left(d) \/ Writes(d) BY <1>2, Inherited
<1>8. w[d].attempt = 0 => ~Writes(d) BY <1>1 DEF Writes, At
<1>9. /\ w'[d].attempt = 0 /\ w'[d].from > 0 => Left(d)
      /\ SizeOf(partial'[Path(d)]) > 0 => Left(d) \/ Writes(d)'
    BY <1>1, <1>3, <1>6, <1>7, <1>8 DEF size
<1> QED BY <1>2, <1>3, <1>4, <1>5, <1>9, OthersKeep

\* The partial file is opened where the run resumes it.
LEMMA OpenStep ==
    ASSUME NoSharing, PermitsInv, FilesInv, NEW d \in Downloads, Open(d) PROVE FilesInv'
<1>0. /\ w \in [Downloads -> RunState] /\ w[d] \in RunState /\ Fits(d) /\ OriginKnown(d)
      /\ Path(d) \in Paths /\ ModelOf[d] \in Models
      /\ partial \in [Paths -> Content \cup {NoFile}]
    BY RunFacts
<1> DEFINE file == Opened(d, partial[Path(d)])
<1>1. /\ w' = [w EXCEPT ![d].pc = "copy", ![d].at = "partial"]
      /\ partial' = [partial EXCEPT ![Path(d)] = file]
      /\ row' = row /\ dest' = dest /\ At(d, "open")
    BY DEF Open
<1>2. w[d].pos <= Length /\ file = First(ModelOf[d], w[d].pos)
    <2>1. w[d].pos = w[d].from /\ w[d].from = SizeOf(partial[Path(d)])
        BY <1>0, <1>1 DEF Fits, PartialFits, At
    <2>2. PICK n \in 0..Length : \/ partial[Path(d)] = NoFile /\ n = 0
                                 \/ partial[Path(d)] = First(ModelOf[d], n)
        BY <1>0, NumbersAssumption DEF Fits, PartialFits
    <2>3. First(ModelOf[d], n) # NoFile /\ Len(First(ModelOf[d], n)) = n BY <1>0, FirstType
    <2>4. w[d].pos = n BY <2>1, <2>2, <2>3 DEF SizeOf
    <2>5. CASE n = 0
        <3>1. First(ModelOf[d], 0) = <<>> BY <1>0, FirstType, NumbersAssumption DEF First
        <3>2. file = <<>> BY <2>1, <2>4, <2>5 DEF Opened
        <3> QED BY <2>4, <2>5, <3>1, <3>2, NumbersAssumption
    <2>6. CASE n # 0
        <3>1. w[d].from > 0 /\ partial[Path(d)] # NoFile BY <2>1, <2>2, <2>3, <2>4, <2>6
        <3> QED BY <2>2, <2>4, <2>6, <3>1 DEF Opened
    <2> QED BY <2>5, <2>6
<1> HIDE DEF file
<1>3. Busy(d) /\ ~At(d, "release") BY <1>1 DEF Busy, Live, Holding, At
<1>4. /\ w'[d].pc = "copy" /\ w'[d].at = "partial" /\ w'[d].attempt = w[d].attempt
      /\ w'[d].from = w[d].from /\ w'[d].pos = w[d].pos
      /\ \A e \in Downloads \ {d} : w'[e] = w[e]
    BY <1>0, <1>1 DEF RunState
<1>5. StepOf(d) /\ partial'[Path(d)] = file BY <1>0, <1>1, <1>4 DEF StepOf
<1>6. Fits(d)'
    <2>1. RowFits(d)' BY <1>0, <1>1, <1>4 DEF Fits, RowFits, At, Asking
    <2>2. PartialFits(d)'
        <3>1. w[d].pos \in 0..Length BY <1>0, <1>2, NumbersAssumption DEF RunState
        <3> QED BY <1>2, <1>4, <1>5, <3>1 DEF PartialFits, At, Path
    <2>3. DestFits(d)' BY <1>0, <1>1, <1>4 DEF Fits, DestFits, At, Path
    <2> QED BY <2>1, <2>2, <2>3 DEF Fits
<1>7. /\ w'[d].attempt = 0 /\ w'[d].from > 0 => Left(d)
      /\ Writes(d)'
    BY <1>0, <1>1, <1>4 DEF OriginKnown, At, Writes
<1> QED BY <1>3, <1>5, <1>6, <1>7, OthersKeep

\* The next chunk goes to the end of the partial file.
LEMMA CopyStep ==
    ASSUME NoSharing, PermitsInv, FilesInv, NEW d \in Downloads, Copy(d) PROVE FilesInv'
<1>0. /\ w \in [Downloads -> RunState] /\ w[d] \in RunState /\ Fits(d) /\ OriginKnown(d)
      /\ Path(d) \in Paths /\ ModelOf[d] \in Models
      /\ partial \in [Paths -> Content \cup {NoFile}]
    BY RunFacts
<1>1. w[d].at = "partial" /\ partial[Path(d)] = First(ModelOf[d], w[d].pos)
    BY <1>0 DEF Copy, Fits, PartialFits
<1>2. w[d].pos \in 0..Length /\ w[d].pos + 1 \in 0..Length
    BY <1>0, NumbersAssumption DEF Copy, RunState
<1>3. /\ w' = [w EXCEPT ![d].pos = w[d].pos + 1]
      /\ partial' = [partial EXCEPT ![Path(d)] = Append(partial[Path(d)], <<ModelOf[d], w[d].pos + 1>>)]
      /\ row' = row /\ dest' = dest /\ At(d, "copy")
    BY <1>1 DEF Copy
<1>4. Busy(d) /\ ~At(d, "release") BY <1>3 DEF Busy, Live, Holding, At
<1>5. /\ w'[d].pc = "copy" /\ w'[d].at = w[d].at /\ w'[d].attempt = w[d].attempt
      /\ w'[d].from = w[d].from /\ w'[d].pos = w[d].pos + 1
      /\ \A e \in Downloads \ {d} : w'[e] = w[e]
    BY <1>0, <1>3 DEF RunState, At
<1>6. partial'[Path(d)] = First(ModelOf[d], w[d].pos + 1)
    BY <1>0, <1>1, <1>2, <1>3, NextChunk
<1>7. StepOf(d) BY <1>0, <1>3, <1>5 DEF StepOf
<1>8. Fits(d)'
    <2>1. RowFits(d)' BY <1>0, <1>3, <1>5 DEF Fits, RowFits, At, Asking
    <2>2. PartialFits(d)' BY <1>1, <1>2, <1>5, <1>6, NumbersAssumption DEF PartialFits, At, Path
    <2>3. DestFits(d)' BY <1>0, <1>3, <1>5 DEF Fits, DestFits, At, Path
    <2> QED BY <2>1, <2>2, <2>3 DEF Fits
<1>9. /\ w'[d].attempt = 0 /\ w'[d].from > 0 => Left(d)
      /\ Writes(d)'
    BY <1>0, <1>3, <1>5 DEF OriginKnown, At, Writes
<1> QED BY <1>4, <1>7, <1>8, <1>9, OthersKeep

\* No handle is open on a file that is deleted or moved: only the run changes.
LEMMA HandlesUndisturbed ==
    ASSUME PermitsInv, FilesInv, NEW d \in Downloads, Busy(d), ~At(d, "copy")
    PROVE  AfterDelete(Path(d)) = w /\ AfterMove(Path(d)) = w
<1>1. \A e \in Downloads : Path(e) = Path(d) => w[e].at = "closed"
    BY OthersRest DEF FilesInv, PartialFits
<1>2. w \in [Downloads -> RunState] BY RunFacts
<1> QED BY <1>1, <1>2 DEF AfterDelete, AfterMove

\* The partial file of a failed or cancelled download is deleted.
LEMMA DeleteSteps ==
    ASSUME NoSharing, PermitsInv, FilesInv, NEW d \in Downloads, DeleteFailed(d) \/ Drop(d)
    PROVE  FilesInv'
<1>0. /\ w \in [Downloads -> RunState] /\ w[d] \in RunState /\ Fits(d)
      /\ Path(d) \in Paths /\ partial \in [Paths -> Content \cup {NoFile}]
    BY RunFacts
<1>1. PICK pc : /\ DeletePartialAndGo(d, pc) /\ row' = row /\ dest' = dest
                /\ \/ At(d, "deleteFailed") /\ pc = "release"
                   \/ At(d, "drop") /\ pc = "markCancelled"
    <2>1. CASE DeleteFailed(d) BY <2>1 DEF DeleteFailed
    <2>2. CASE Drop(d) BY <2>2 DEF Drop
    <2> QED BY <2>1, <2>2
<1>2. Busy(d) /\ ~At(d, "release") /\ ~At(d, "copy") BY <1>1 DEF Busy, Live, Holding, At
<1>3. w' = [w EXCEPT ![d].pc = pc] /\ partial' = [partial EXCEPT ![Path(d)] = NoFile]
    BY <1>1, <1>2, HandlesUndisturbed DEF DeletePartialAndGo
<1>4. /\ w'[d].pc = pc /\ w'[d].at = w[d].at
      /\ \A e \in Downloads \ {d} : w'[e] = w[e]
    BY <1>0, <1>3 DEF RunState
<1>5. StepOf(d) /\ partial'[Path(d)] = NoFile BY <1>0, <1>1, <1>3, <1>4 DEF StepOf
<1>6. Fits(d)'
    <2>1. RowFits(d)' BY <1>0, <1>1, <1>4 DEF Fits, RowFits, At, Asking
    <2>2. PartialFits(d)' BY <1>0, <1>1, <1>2, <1>4, <1>5 DEF Fits, PartialFits, At, Path
    <2>3. DestFits(d)' BY <1>0, <1>1, <1>4 DEF Fits, DestFits, At, Path
    <2> QED BY <2>1, <2>2, <2>3 DEF Fits
<1>7. w'[d].pc \notin {"request", "open", "copy"} /\ ~(SizeOf(partial'[Path(d)]) > 0)
    BY <1>1, <1>4, <1>5 DEF SizeOf
<1> QED BY <1>2, <1>5, <1>6, <1>7, OthersKeep

\* The complete partial file becomes the destination.
LEMMA MoveStep ==
    ASSUME NoSharing, PermitsInv, FilesInv, NEW d \in Downloads, Move(d)
    PROVE  /\ FilesInv'
           /\ row' = row /\ w' = [w EXCEPT ![d].pc = "complete"]
           /\ dest' = [dest EXCEPT ![Path(d)] = Whole(ModelOf[d])]
<1>0. /\ w \in [Downloads -> RunState] /\ w[d] \in RunState /\ Fits(d)
      /\ Path(d) \in Paths /\ ModelOf[d] \in Models
      /\ partial \in [Paths -> Content \cup {NoFile}] /\ dest \in [Paths -> Content \cup {NoFile}]
    BY RunFacts
<1>1. At(d, "move") /\ partial[Path(d)] = Whole(ModelOf[d])
    BY <1>0 DEF Move, Fits, PartialFits, At
<1>2. partial[Path(d)] # NoFile BY <1>0, <1>1, WholeIsFirst, FirstType, NumbersAssumption
<1>3. Busy(d) /\ ~At(d, "release") /\ ~At(d, "copy") BY <1>1 DEF Busy, Live, Holding, At
<1>4. /\ w' = [w EXCEPT ![d].pc = "complete"] /\ row' = row
      /\ partial' = [partial EXCEPT ![Path(d)] = NoFile]
      /\ dest' = [dest EXCEPT ![Path(d)] = Whole(ModelOf[d])]
    BY <1>1, <1>2, <1>3, HandlesUndisturbed DEF Move
<1>5. /\ w'[d].pc = "complete" /\ w'[d].at = w[d].at
      /\ \A e \in Downloads \ {d} : w'[e] = w[e]
    BY <1>0, <1>4 DEF RunState
<1>6. /\ StepOf(d) /\ partial'[Path(d)] = NoFile /\ dest'[Path(d)] = Whole(ModelOf[d])
    BY <1>0, <1>4, <1>5 DEF StepOf
<1>7. Fits(d)'
    <2>1. RowFits(d)' BY <1>0, <1>1, <1>4, <1>5 DEF Fits, RowFits, At, Asking
    <2>2. PartialFits(d)' BY <1>0, <1>1, <1>5, <1>6 DEF Fits, PartialFits, At, Path
    <2>3. DestFits(d)' BY <1>6 DEF DestFits, Path
    <2> QED BY <2>1, <2>2, <2>3 DEF Fits
<1>8. w'[d].pc \notin {"request", "open", "copy"} /\ ~(SizeOf(partial'[Path(d)]) > 0)
    BY <1>5, <1>6 DEF SizeOf
<1>9. FilesInv' BY <1>3, <1>6, <1>7, <1>8, OthersKeep
<1> QED BY <1>4, <1>9

\* A request is made when no other request or run of the file is under way.
LEMMA AskStep ==
    ASSUME NoSharing, PermitsInv, FilesInv, NEW d \in Downloads, Ask(d) PROVE FilesInv'
<1>0. w \in [Downloads -> RunState] /\ Fits(d) BY RunFacts
<1>1. PICK pc \in {"lookUp", "answered"} :
        /\ w' = [w EXCEPT ![d].pc = pc]
        /\ row' = row /\ partial' = partial /\ dest' = dest /\ At(d, "idle")
    BY DEF Ask, Go, Files
<1>2. /\ w'[d].pc = pc /\ w'[d].at = w[d].at
      /\ \A e \in Downloads \ {d} : w'[e] = w[e]
    BY <1>0, <1>1 DEF RunState
<1>3. ASSUME NEW e \in Downloads \ {d}, Path(e) = Path(d) PROVE ~Busy(e)
    <2>1. e \in RunsOf(ModelOf[d]) \ {d} BY <1>3, OneModelPerFile DEF RunsOf
    <2> QED BY <2>1 DEF Ask, MayAsk, NoSharing, Busy
<1>4. OneRunPerFile'
    <2>1. \A e \in Downloads \ {d} : Busy(e)' <=> Busy(e) BY <1>2 DEF Busy, Live
    <2> QED BY <1>3, <2>1 DEF FilesInv, OneRunPerFile, Path
<1>5. Fits(d)'
    <2>1. RowFits(d)' BY <1>0, <1>1, <1>2 DEF Fits, RowFits, At, Asking
    <2>2. PartialFits(d)' BY <1>0, <1>1, <1>2 DEF Fits, PartialFits, At, Path
    <2>3. DestFits(d)' BY <1>0, <1>1, <1>2 DEF Fits, DestFits, At, Path
    <2> QED BY <2>1, <2>2, <2>3 DEF Fits
<1>6. ASSUME NEW e \in Downloads \ {d} PROVE Fits(e)'
    BY <1>1, <1>2 DEF FilesInv, Fits, RowFits, PartialFits, DestFits, At, Path
<1>7. \A e \in Downloads : (Left(e) => Left(e)') /\ (Writes(e) => Writes(e)')
    <2>1. ~Writes(d) /\ ~At(d, "lost") BY <1>1 DEF Writes, At
    <2> QED BY <1>1, <1>2, <2>1 DEF Left, Writes, At, Path
<1>8. ASSUME NEW e \in Downloads PROVE OriginKnown(e)'
    <2>1. w'[e].pc \in {"request", "open", "copy"} => w'[e] = w[e] BY <1>2
    <2>2. OriginKnown(e) BY DEF FilesInv
    <2> QED BY <1>1, <1>7, <2>1, <2>2 DEF OriginKnown, Path
<1> QED BY <1>4, <1>5, <1>6, <1>8 DEF FilesInv, Fits

\* The look-up and the addition of the row.
LEMMA RequestSteps ==
    ASSUME NoSharing, PermitsInv, FilesInv, NEW d \in Downloads, LookUp(d) \/ Add(d)
    PROVE  FilesInv'
<1>0. Fits(d) /\ OriginKnown(d) BY RunFacts
<1>1. PICK pc : /\ Go(d, pc) /\ ~At(d, "copy")
                /\ UNCHANGED Files
                /\ \/ /\ UNCHANGED row
                      /\ w[d].pc \in {"lookUp", "add"} /\ pc \in {"answered", "add"}
                   \/ SetRow(d, "Queued", "none") /\ At(d, "add") /\ pc = "wait"
    <2>1. CASE LookUp(d) BY <2>1 DEF LookUp, At
    <2>2. CASE Add(d) BY <2>2 DEF Add, At
    <2> QED BY <2>1, <2>2
<1>2. Busy(d) /\ ~At(d, "release") BY <1>1 DEF Busy, At
<1>3. /\ StepOf(d) /\ w'[d].pc = pc /\ w'[d].at = "closed"
      /\ \/ row' = row /\ w[d].pc \in {"lookUp", "add"} /\ pc \in {"answered", "add"}
         \/ row'[d] = [state |-> "Queued", kind |-> "none"] /\ At(d, "add") /\ pc = "wait"
    BY <1>1, <1>2, MovedOn
<1>4. partial' = partial /\ dest' = dest BY <1>1 DEF Files
<1>5. Fits(d)'
    <2>1. RowFits(d)' BY <1>0, <1>3 DEF Fits, RowFits, At, Asking
    <2>2. PartialFits(d)' BY <1>0, <1>3, <1>4 DEF Fits, PartialFits, At, Path
    <2>3. DestFits(d)' BY <1>0, <1>3, <1>4 DEF Fits, DestFits, At, Path
    <2> QED BY <2>1, <2>2, <2>3 DEF Fits
<1>6. w'[d].pc \notin {"request", "open", "copy"} BY <1>3
<1>7. SizeOf(partial'[Path(d)]) > 0 => Left(d)
    <2>1. ~Writes(d) BY <1>3 DEF Writes, At
    <2> QED BY <1>2, <1>4, <2>1, Inherited
<1> QED BY <1>2, <1>3, <1>5, <1>6, <1>7, OthersKeep

\* What changes neither rows nor files nor runs changes nothing about them.
LEMMA SameFiles ==
    ASSUME FilesInv, UNCHANGED <<row, partial, dest, w>> PROVE FilesInv'
<1>1. OneRunPerFile' BY DEF FilesInv, OneRunPerFile, Busy, Live, Path
<1>2. ASSUME NEW d \in Downloads PROVE (RowFits(d) /\ PartialFits(d) /\ DestFits(d))'
    BY DEF FilesInv, RowFits, PartialFits, DestFits, At, Path
<1>3. ASSUME NEW d \in Downloads PROVE OriginKnown(d)'
    <2>1. OriginKnown(d) BY DEF FilesInv
    <2> QED BY <2>1 DEF OriginKnown, Left, Writes, At, Path
<1> QED BY <1>1, <1>2, <1>3 DEF FilesInv

\* After a restart no run is under way, and what the lost ones wrote is theirs.
LEMMA RestartStep ==
    ASSUME PermitsInv, FilesInv, Restart PROVE FilesInv'
<1>0. w \in [Downloads -> RunState] BY DEF PermitsInv, TypeOK
<1>1. \A d \in Downloads :
        \/ Live(d) /\ w'[d] = [IdleRun EXCEPT !.pc = "lost"]
        \/ ~Live(d) /\ w[d].pc \in {"lookUp", "add"} /\ w'[d] = [IdleRun EXCEPT !.pc = "answered"]
        \/ ~Busy(d) /\ w'[d] = w[d]
    BY DEF Restart, Busy, Live, Holding
<1>2. row' = row /\ partial' = partial /\ dest' = dest BY DEF Restart, Files
<1>3. \A d \in Downloads : ~Busy(d)'
    BY <1>1 DEF Busy, Live, Holding, IdleRun
<1>4. ASSUME NEW d \in Downloads PROVE (RowFits(d) /\ PartialFits(d) /\ DestFits(d))'
    <2>1. RowFits(d)'
        <3>1. ~Live(d) => row[d].kind # "Transient" \/ w[d].pc \in {"ended", "lost"}
            BY DEF FilesInv, RowFits, Live, Holding
        <3> QED BY <1>1, <1>2, <3>1 DEF FilesInv, RowFits, Asking, IdleRun
    <2>2. PartialFits(d)'
        <3>1. partial'[Path(d)] = NoFile \/ \E n \in 0..Length : partial'[Path(d)] = First(ModelOf[d], n)
            BY <1>2 DEF FilesInv, PartialFits
        <3>2. w'[d].at = "closed"
            BY <1>1 DEF FilesInv, PartialFits, IdleRun, Busy, Live, Holding, At
        <3>3. w'[d].pc \notin {"request", "open", "copy", "finalize", "move"}
            BY <1>3 DEF Busy, Live, Holding
        <3> QED BY <3>1, <3>2, <3>3 DEF PartialFits, At, Path
    <2>3. DestFits(d)'
        <3>1. w'[d].pc # "complete" BY <1>3 DEF Busy, Live, Holding
        <3> QED BY <1>2, <3>1 DEF FilesInv, DestFits, At, Path
    <2> QED BY <2>1, <2>2, <2>3
<1>5. ASSUME NEW d \in Downloads PROVE OriginKnown(d)'
    <2>1. \A e \in Downloads : Writes(e) => w'[e].pc = "lost"
        BY <1>1 DEF Writes, Live, Holding, Busy, IdleRun
    <2>2. \A e \in Downloads : At(e, "lost") => w'[e].pc = "lost"
        BY <1>1 DEF At, Live, Holding, Busy
    <2>3. Left(d) => Left(d)' BY <1>2, <2>2 DEF Left, At, Path
    <2>4. ASSUME NEW e \in Downloads, Path(e) = Path(d), Writes(e) PROVE Left(d)'
        BY <2>1, <2>4 DEF Left, At, Path
    <2>5. w'[d].pc \notin {"request", "open", "copy"} BY <1>3 DEF Busy, Live, Holding
    <2> QED BY <1>2, <2>3, <2>4, <2>5 DEF FilesInv, OriginKnown, Path
<1>6. OneRunPerFile' BY <1>3 DEF OneRunPerFile
<1> QED BY <1>4, <1>5, <1>6 DEF FilesInv

LEMMA InitFiles == Init => FilesInv
<1> SUFFICES ASSUME Init PROVE FilesInv OBVIOUS
<1>1. \A d \in Downloads : /\ w[d] = IdleRun /\ row[d] = [state |-> "Absent", kind |-> "none"]
                           /\ partial[Path(d)] = NoFile /\ dest[Path(d)] = NoFile
    BY PathType DEF Init
<1>2. OneRunPerFile BY <1>1 DEF OneRunPerFile, Busy, Live, Holding, IdleRun
<1>3. ASSUME NEW d \in Downloads PROVE RowFits(d) /\ PartialFits(d) /\ DestFits(d) /\ OriginKnown(d)
    BY <1>1 DEF RowFits, PartialFits, DestFits, OriginKnown, IdleRun, Asking, At, SizeOf
<1> QED BY <1>2, <1>3 DEF FilesInv

\* Every step preserves the invariant about the files.
LEMMA NextFiles ==
    ASSUME NoSharing PROVE PermitsInv /\ FilesInv /\ [Next]_vars => FilesInv'
<1> SUFFICES ASSUME PermitsInv, FilesInv, [Next]_vars PROVE FilesInv' OBVIOUS
<1>1. ASSUME NEW d \in Downloads, Request(d) PROVE FilesInv'
    BY <1>1, AskStep, RequestSteps DEF Request
<1>2. ASSUME NEW d \in Downloads, Cancel(d) PROVE FilesInv'
    BY <1>2, SameFiles DEF Cancel, CancelRead, CancelSignal, Files
<1>3. ASSUME NEW d \in Downloads, Run(d) PROVE FilesInv'
    <2>1. CASE \/ CancelWaiting(d) \/ Begin(d) \/ Finalize(d) \/ Complete(d) \/ MarkCancelled(d)
               \/ RequestFails(d) \/ OpenFails(d) \/ BreakOff(d) \/ MoveFails(d)
        BY <2>1, RowSteps
    <2>2. CASE \/ AcquirePermit(d) \/ RequestSucceeds(d) \/ Interrupted(d) \/ EndOfBody(d) \/ Release(d)
        BY <2>2, QuietSteps
    <2>3. CASE RequestTransient(d) \/ EndEarly(d) BY <2>3, RowSteps, RetryStep
    <2>4. CASE Measure(d) BY <2>4, QuietSteps, MeasureStep
    <2>5. CASE Open(d) \/ Copy(d) \/ Move(d) BY <2>5, OpenStep, CopyStep, MoveStep
    <2>6. CASE DeleteFailed(d) \/ Drop(d) BY <2>6, DeleteSteps
    <2> QED BY <1>3, <2>1, <2>2, <2>3, <2>4, <2>5, <2>6 DEF Run, Attempt
<1>4. CASE Stop BY <1>4, SameFiles DEF Stop, Files
<1>5. CASE Restart BY <1>5, RestartStep
<1>6. CASE UNCHANGED vars BY <1>6, SameFiles DEF vars
<1> QED BY <1>1, <1>2, <1>3, <1>4, <1>5, <1>6 DEF Next

-----------------------------------------------------------------------------
(* Theorems.                                                               *)

LEMMA FilesAlways == ASSUME NoSharing PROVE Spec => [](PermitsInv /\ FilesInv)
<1>1. Init => PermitsInv /\ FilesInv BY InitPermits, InitFiles
<1>2. PermitsInv /\ FilesInv /\ [Next]_vars => (PermitsInv /\ FilesInv)' BY NextPermits, NextFiles
<1> QED BY <1>1, <1>2, PTL DEF Spec

\* When a model is asked for again only after its runs, and no two models share a file name, what
\* is shown as Completed is the whole file, whatever was resumed, retried, cancelled or lost before.
THEOREM CompletedModelIsWhole == ASSUME NoSharing PROVE Spec => []CompletedIsWhole
<1>1. FilesInv => CompletedIsWhole BY DEF FilesInv, DestFits, CompletedIsWhole
<1> QED BY <1>1, FilesAlways, PTL

\* Under the same condition the bytes a first attempt resumes from are never those of a download
\* that failed for good or was cancelled.
THEOREM OnlyTransientResumed == ASSUME NoSharing PROVE Spec => []ResumesOnlyTransient
<1>1. FilesInv => ResumesOnlyTransient BY DEF FilesInv, OriginKnown, Left, ResumesOnlyTransient
<1> QED BY <1>1, FilesAlways, PTL

-----------------------------------------------------------------------------
(* The runs implement the life cycle.                                      *)

\* A run's step loses no run, its own included, and moves no other.
LEMMA OwnPlaceOnly ==
    ASSUME PermitsInv, FilesInv, NEW d \in Downloads, Run(d) \/ Request(d)
    PROVE  /\ ~At(d, "lost") /\ w'[d].pc # "lost"
           /\ \A e \in Downloads \ {d} : w'[e].pc = w[e].pc
<1>0. w \in [Downloads -> RunState] BY RunFacts
<1> USE DEF At, RunState
<1>1. ASSUME NEW pc, pc # "lost", ~At(d, "lost"), Go(d, pc) \/ CloseAndGo(d, pc)
      PROVE  /\ ~At(d, "lost") /\ w'[d].pc # "lost"
             /\ \A e \in Downloads \ {d} : w'[e].pc = w[e].pc
    BY <1>0, <1>1 DEF Go, CloseAndGo
<1>2. ASSUME NEW pc, pc # "lost", ~At(d, "lost"), ~At(d, "copy"), Busy(d),
             DeletePartialAndGo(d, pc)
      PROVE  /\ ~At(d, "lost") /\ w'[d].pc # "lost"
             /\ \A e \in Downloads \ {d} : w'[e].pc = w[e].pc
    <2>1. w' = [w EXCEPT ![d].pc = pc] BY <1>2, HandlesUndisturbed DEF DeletePartialAndGo
    <2> QED BY <1>0, <1>2, <2>1
<1>3. CASE Request(d) BY <1>1, <1>3 DEF Request, Ask, LookUp, Add
<1>4. CASE AcquirePermit(d) \/ CancelWaiting(d) \/ Begin(d) \/ Finalize(d) \/ Complete(d)
           \/ MarkCancelled(d) \/ Release(d) \/ MoveFails(d)
    BY <1>1, <1>4 DEF AcquirePermit, CancelWaiting, Begin, Finalize, Complete, MarkCancelled, Release,
       MoveFails, MarkFailed
<1>5. CASE Interrupted(d) \/ RequestSucceeds(d) \/ RequestFails(d) \/ OpenFails(d) \/ BreakOff(d)
           \/ EndOfBody(d)
    BY <1>1, <1>5 DEF Interrupted, RequestSucceeds, RequestFails, OpenFails, BreakOff, EndOfBody,
       MarkFailed
<1>6. CASE Measure(d)
    <2>1. CASE d \in cancelled BY <1>1, <1>6, <2>1 DEF Measure
    <2>2. CASE d \notin cancelled BY <1>0, <1>6, <2>2 DEF Measure
    <2> QED BY <2>1, <2>2
<1>7. CASE RequestTransient(d) \/ EndEarly(d)
    <2>1. ~At(d, "lost") /\ RetryOrGiveUp(d) BY <1>7 DEF RequestTransient, EndEarly
    <2>2. CASE w[d].attempt < MaxRetries BY <1>0, <2>1, <2>2 DEF RetryOrGiveUp
    <2>3. CASE ~(w[d].attempt < MaxRetries) BY <1>1, <2>1, <2>3 DEF RetryOrGiveUp
    <2> QED BY <2>2, <2>3
<1>8. CASE Open(d) \/ Copy(d) BY <1>0, <1>8 DEF Open, Copy
<1>9. CASE DeleteFailed(d) \/ Drop(d)
    BY <1>2, <1>9 DEF DeleteFailed, Drop, Busy, Live, Holding
<1>10. CASE Move(d)
    <2>1. Busy(d) /\ ~At(d, "lost") /\ ~At(d, "copy") BY <1>10 DEF Move, Busy, Live, Holding
    <2>2. Go(d, "complete") BY <1>10, <2>1, HandlesUndisturbed DEF Move, Go
    <2> QED BY <1>1, <2>1, <2>2
<1> QED BY <1>3, <1>4, <1>5, <1>6, <1>7, <1>8, <1>9, <1>10 DEF Run, Attempt

\* What a step that moves one run, and changes no destination, is in the life cycle.
LEMMA InLifecycle ==
    ASSUME PermitsInv, FilesInv, NEW d \in Downloads, ~At(d, "lost"), w'[d].pc # "lost",
           \A e \in Downloads \ {d} : w'[e].pc = w[e].pc, dest' = dest
    PROVE  /\ row' = row => UNCHANGED Lifecycle!vars
           /\ \A from, to, kind :
                SetRow(d, to, kind) /\ row[d].state \in from => Lifecycle!Becomes(d, from, to)
<1> DEFINE lost == {e \in Downloads : At(e, "lost") /\ row[e].state \in Active}
           state == [e \in Downloads |-> row[e].state]
           installed == {m \in Models : dest[PathOf[m]] = Whole(m)}
<1>0. row \in [Downloads -> [state : DownloadState, kind : DownloadErrorKind]] BY RunFacts
<1>1. installed' = installed BY DEF Whole
<1>2. row' = row => lost' = lost /\ state' = state BY DEF At
<1>3. ASSUME NEW from, NEW to, NEW kind, SetRow(d, to, kind), row[d].state \in from
      PROVE  Lifecycle!Becomes(d, from, to)
    <2>1. \A e \in Downloads \ {d} : row'[e] = row[e] BY <1>0, <1>3 DEF SetRow
    <2>2. row'[d].state = to BY <1>0, <1>3 DEF SetRow
    <2>3. lost' = lost /\ d \notin lost BY <2>1 DEF At
    <2>4. state' = [state EXCEPT ![d] = to] BY <2>1, <2>2
    <2>5. state[d] \in from BY <1>3
    <2> QED BY <1>1, <2>3, <2>4, <2>5 DEF Lifecycle!Becomes
<1>4. row' = row => UNCHANGED Lifecycle!vars BY <1>1, <1>2 DEF Lifecycle!vars
<1> QED BY <1>3, <1>4

\* The life cycle counts as this module does.
LEMMA SameCardinality == \A S : Lifecycle!Cardinality(S) = Cardinality(S)
BY DEF Lifecycle!Cardinality, Cardinality

\* A download starts to transfer only while fewer than MaxConcurrent do: each of those has a permit.
LEMMA StartsBelowLimit ==
    ASSUME PermitsInv, FilesInv, NEW d \in Downloads, At(d, "begin")
    PROVE  Cardinality(Lifecycle!Transferring) < MaxConcurrent
<1> DEFINE UnderWay == {e \in Downloads : row[e].state \in {"Downloading", "Finalizing"} /\ ~At(e, "lost")}
<1>1. Lifecycle!Transferring \subseteq UnderWay BY DEF Lifecycle!Transferring, Active
<1>2. UnderWay \subseteq Holders \ {d}
    <2> SUFFICES ASSUME NEW e \in UnderWay PROVE e \in Holders \ {d} OBVIOUS
    <2>1. RowFits(e) /\ RowFits(d) /\ w[e].pc \in Place
        BY DEF FilesInv, PermitsInv, TypeOK, RunState
    <2>2. w[e].pc \in Holding BY <2>1 DEF RowFits, Place, Asking, At
    <2>3. e # d BY <2>1 DEF RowFits, At
    <2> QED BY <2>2, <2>3 DEF Holders
<1>3. d \in Holders BY DEF Holders, Holding, At
<1>4. IsFiniteSet(Holders) /\ Cardinality(Holders) \in Nat BY HoldersFinite, FS_CardinalityType
<1>5. Cardinality(Holders \ {d}) = Cardinality(Holders) - 1 /\ IsFiniteSet(Holders \ {d})
    BY <1>3, <1>4, FS_RemoveElement
<1> HIDE DEF UnderWay
<1>6. Lifecycle!Transferring \subseteq Holders \ {d} BY <1>1, <1>2
<1>7. /\ Cardinality(Lifecycle!Transferring) \in Nat
      /\ Cardinality(Lifecycle!Transferring) <= Cardinality(Holders \ {d})
    BY <1>5, <1>6, FS_Subset, FS_CardinalityType
<1>8. Cardinality(Holders) <= MaxConcurrent /\ MaxConcurrent \in Nat
    BY <1>4, NumbersAssumption DEF PermitsInv, TypeOK, PermitsConserved
<1> QED BY <1>4, <1>5, <1>7, <1>8

\* A step of a run is a step of its life cycle, or none.
LEMMA RunImplements ==
    ASSUME NoSharing, PermitsInv, FilesInv, NEW d \in Downloads, Run(d)
    PROVE  [Lifecycle!Next]_(Lifecycle!vars)
<1>0. /\ ~At(d, "lost") /\ w'[d].pc # "lost"
      /\ \A e \in Downloads \ {d} : w'[e].pc = w[e].pc
    BY OwnPlaceOnly
<1>f. Fits(d) /\ Path(d) \in Paths /\ ModelOf[d] \in Models /\ row[d] \in [state : DownloadState, kind : DownloadErrorKind]
    BY RunFacts
<1>1. ASSUME UNCHANGED row, UNCHANGED dest PROVE UNCHANGED Lifecycle!vars
    BY <1>0, <1>1, InLifecycle
<1>2. ASSUME NEW from, NEW to, NEW kind, SetRow(d, to, kind), row[d].state \in from, UNCHANGED dest
      PROVE  Lifecycle!Becomes(d, from, to)
    BY <1>0, <1>2, InLifecycle
<1>3. CASE \/ AcquirePermit(d) \/ RequestSucceeds(d) \/ Interrupted(d) \/ EndOfBody(d) \/ Release(d)
           \/ Measure(d) \/ Open(d) \/ DeleteFailed(d) \/ Drop(d)
    <2>1. UNCHANGED row /\ UNCHANGED dest
        BY <1>3 DEF AcquirePermit, RequestSucceeds, Interrupted, EndOfBody, Release, Measure, Open,
           DeleteFailed, Drop, Files, DeletePartialAndGo
    <2> QED BY <1>1, <2>1
<1>4. CASE Copy(d)
    <2>1. UNCHANGED row /\ UNCHANGED dest BY <1>4, <1>f DEF Copy, Fits, PartialFits
    <2> QED BY <1>1, <2>1
<1>5. CASE CancelWaiting(d) \/ MarkCancelled(d)
    <2>1. SetRow(d, "Cancelled", "none") /\ row[d].state \in {"Queued", "Downloading"} /\ UNCHANGED dest
        BY <1>5, <1>f DEF CancelWaiting, MarkCancelled, Fits, RowFits, At, Files
    <2>2. Lifecycle!Cancel(d) BY <1>2, <2>1 DEF Lifecycle!Cancel
    <2> QED BY <2>2 DEF Lifecycle!Next
<1>6. CASE Begin(d)
    <2>1. SetRow(d, "Downloading", "none") /\ row[d].state \in {"Queued"} /\ UNCHANGED dest
        BY <1>6, <1>f DEF Begin, Fits, RowFits, At, Files
    <2>2. Lifecycle!Becomes(d, {"Queued"}, "Downloading") BY <1>2, <2>1
    <2>3. Cardinality(Lifecycle!Transferring) < MaxConcurrent BY <1>6, StartsBelowLimit DEF Begin
    <2>4. Lifecycle!Start(d) BY <2>2, <2>3, SameCardinality DEF Lifecycle!Start
    <2> QED BY <2>4 DEF Lifecycle!Next
<1>7. CASE Finalize(d)
    <2>1. SetRow(d, "Finalizing", "none") /\ row[d].state \in {"Downloading"} /\ UNCHANGED dest
        BY <1>7, <1>f DEF Finalize, Fits, RowFits, At, Files
    <2>2. Lifecycle!Finalize(d) BY <1>2, <2>1 DEF Lifecycle!Finalize
    <2> QED BY <2>2 DEF Lifecycle!Next
<1>8. CASE Complete(d)
    <2>1. SetRow(d, "Completed", "none") /\ row[d].state \in {"Finalizing"} /\ UNCHANGED dest
        BY <1>8, <1>f DEF Complete, Fits, RowFits, At, Files
    <2>2. ModelOf[d] \in {m \in Models : dest[PathOf[m]] = Whole(m)}
        BY <1>8, <1>f DEF Complete, Fits, DestFits, Path
    <2>3. Lifecycle!Complete(d) BY <1>2, <2>1, <2>2 DEF Lifecycle!Complete
    <2> QED BY <2>3 DEF Lifecycle!Next
<1>9. CASE RequestFails(d) \/ OpenFails(d) \/ BreakOff(d) \/ MoveFails(d)
    <2>1. SetRow(d, "Failed", "Fatal") /\ row[d].state \in {"Downloading", "Finalizing"} /\ UNCHANGED dest
        BY <1>9, <1>f DEF RequestFails, OpenFails, BreakOff, MoveFails, MarkFailed, Fits, RowFits, At, Files
    <2>2. Lifecycle!Fail(d) BY <1>2, <2>1 DEF Lifecycle!Fail
    <2> QED BY <2>2 DEF Lifecycle!Next
<1>10. CASE RequestTransient(d) \/ EndEarly(d)
    <2>1. UNCHANGED dest /\ (UNCHANGED row \/ SetRow(d, "Failed", "Transient"))
          /\ row[d].state \in {"Downloading", "Finalizing"}
        BY <1>10, <1>f DEF RequestTransient, EndEarly, RetryOrGiveUp, Fits, RowFits, At, Files
    <2>2. CASE UNCHANGED row BY <1>1, <2>1, <2>2
    <2>3. CASE SetRow(d, "Failed", "Transient")
        <3>1. Lifecycle!Fail(d) BY <1>2, <2>1, <2>3 DEF Lifecycle!Fail
        <3> QED BY <3>1 DEF Lifecycle!Next
    <2> QED BY <2>1, <2>2, <2>3
<1>11. CASE Move(d)
    <2> DEFINE installed == {m \in Models : dest[PathOf[m]] = Whole(m)}
               lost == {e \in Downloads : At(e, "lost") /\ row[e].state \in Active}
               state == [e \in Downloads |-> row[e].state]
    <2>1. row' = row /\ dest' = [dest EXCEPT ![Path(d)] = Whole(ModelOf[d])] BY <1>11, MoveStep
    <2>2. row[d].state = "Finalizing" BY <1>11, <1>f DEF Move, Fits, RowFits, At
    <2>3. installed' = installed \cup {ModelOf[d]}
        <3>1. dest \in [Paths -> Content \cup {NoFile}] BY RunFacts
        <3>2. ASSUME NEW m \in Models PROVE dest'[PathOf[m]] = IF m = ModelOf[d] THEN Whole(m) ELSE dest[PathOf[m]]
            <4>1. PathOf[m] \in Paths BY ModelsAssumption
            <4>2. PathOf[m] = Path(d) <=> m = ModelOf[d] BY <1>f DEF NoSharing, Path
            <4> QED BY <2>1, <3>1, <4>1, <4>2
        <3>3. \A m \in Models : Whole(m)' = Whole(m) BY DEF Whole
        <3> QED BY <1>f, <3>2, <3>3
    <2>4. lost' = lost /\ d \notin lost BY <1>0, <2>1 DEF At
    <2>5. state' = state /\ state[d] = "Finalizing" BY <2>1, <2>2
    <2>6. Lifecycle!Install(d) BY <2>3, <2>4, <2>5 DEF Lifecycle!Install
    <2> QED BY <2>6 DEF Lifecycle!Next
<1> QED BY <1>3, <1>4, <1>5, <1>6, <1>7, <1>8, <1>9, <1>10, <1>11 DEF Run, Attempt

\* A request adds at most its own download.
LEMMA RequestImplements ==
    ASSUME NoSharing, PermitsInv, FilesInv, NEW d \in Downloads, Request(d)
    PROVE  [Lifecycle!Next]_(Lifecycle!vars)
<1>0. /\ ~At(d, "lost") /\ w'[d].pc # "lost"
      /\ \A e \in Downloads \ {d} : w'[e].pc = w[e].pc
    BY OwnPlaceOnly
<1>1. /\ UNCHANGED dest
      /\ UNCHANGED row \/ (SetRow(d, "Queued", "none") /\ At(d, "add"))
    BY DEF Request, Ask, LookUp, Add, Files
<1>2. CASE UNCHANGED row BY <1>0, <1>1, <1>2, InLifecycle
<1>3. CASE SetRow(d, "Queued", "none") /\ At(d, "add")
    <2>1. row[d].state \in {"Absent"} BY <1>3 DEF FilesInv, RowFits, At, Asking
    <2>2. Lifecycle!Queue(d) BY <1>0, <1>1, <1>3, <2>1, InLifecycle DEF Lifecycle!Queue
    <2> QED BY <2>2 DEF Lifecycle!Next
<1> QED BY <1>1, <1>2, <1>3

\* A restart loses the downloads under way, and no other.
LEMMA RestartImplements ==
    ASSUME PermitsInv, FilesInv, Restart PROVE Lifecycle!Restart
<1> DEFINE lost == {e \in Downloads : At(e, "lost") /\ row[e].state \in Active}
           state == [e \in Downloads |-> row[e].state]
           installed == {m \in Models : dest[PathOf[m]] = Whole(m)}
<1>1. row' = row /\ dest' = dest BY DEF Restart, Files
<1>2. ASSUME NEW d \in Downloads PROVE w'[d].pc = "lost" <=> Live(d) \/ At(d, "lost")
    BY DEF Restart, Live, Holding, IdleRun, At
<1>3. ASSUME NEW d \in Downloads, row[d].state \in Active PROVE Live(d) \/ At(d, "lost")
    <2>1. w[d].pc \in Place /\ RowFits(d) BY DEF PermitsInv, TypeOK, RunState, FilesInv
    <2> QED BY <1>3, <2>1 DEF RowFits, Place, Asking, Holding, Live, At, Active
<1>4. lost' = lost \cup {d \in Downloads : state[d] \in Active}
    BY <1>1, <1>2, <1>3 DEF At
<1>5. state' = state /\ installed' = installed BY <1>1 DEF Whole
<1> QED BY <1>4, <1>5 DEF Lifecycle!Restart, Lifecycle!Ongoing, Active

LEMMA InitImplements == Init => Lifecycle!Init
<1> SUFFICES ASSUME Init PROVE Lifecycle!Init OBVIOUS
<1>1. [d \in Downloads |-> row[d].state] = [d \in Downloads |-> "Absent"] BY DEF Init
<1>2. {d \in Downloads : At(d, "lost") /\ row[d].state \in Active} = {} BY DEF Init, Active
<1>3. ASSUME NEW m \in Models PROVE dest[PathOf[m]] # Whole(m)
    <2>1. dest[PathOf[m]] = NoFile BY ModelsAssumption DEF Init
    <2> QED BY <2>1, WholeIsFirst, FirstType, NumbersAssumption
<1>4. {m \in Models : dest[PathOf[m]] = Whole(m)} = {} BY <1>3
<1> QED BY <1>1, <1>2, <1>4 DEF Lifecycle!Init

\* Under the same condition the files, retries, permits and restarts implement the state diagram of
\* the runbook: no more than MaxConcurrent downloads transfer, and a Completed one is installed.
THEOREM ImplementsLifecycle == ASSUME NoSharing PROVE Spec => LifecycleSpec
<1>1. Init => Lifecycle!Init BY InitImplements
<1>2. PermitsInv /\ FilesInv /\ [Next]_vars => [Lifecycle!Next]_(Lifecycle!vars)
    <2> SUFFICES ASSUME PermitsInv, FilesInv, [Next]_vars PROVE [Lifecycle!Next]_(Lifecycle!vars)
        OBVIOUS
    <2>1. ASSUME UNCHANGED <<row, dest, w>> PROVE UNCHANGED Lifecycle!vars
        BY <2>1 DEF Lifecycle!vars, At, Whole
    <2>2. ASSUME NEW d \in Downloads, Request(d) \/ Run(d) PROVE [Lifecycle!Next]_(Lifecycle!vars)
        BY <2>2, RequestImplements, RunImplements
    <2>3. ASSUME NEW d \in Downloads, Cancel(d) PROVE UNCHANGED Lifecycle!vars
        BY <2>1, <2>3 DEF Cancel, CancelRead, CancelSignal, Files
    <2>4. CASE Stop BY <2>1, <2>4 DEF Stop, Files
    <2>5. CASE Restart BY <2>5, RestartImplements DEF Lifecycle!Next
    <2>6. CASE UNCHANGED vars BY <2>1, <2>6 DEF vars
    <2> QED BY <2>2, <2>3, <2>4, <2>5, <2>6 DEF Next
<1> QED BY <1>1, <1>2, FilesAlways, PTL DEF Spec, LifecycleSpec, Lifecycle!Spec
===============================================================================
