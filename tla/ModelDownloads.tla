---------------------------- MODULE ModelDownloads ----------------------------
(***************************************************************************)
(* Downloading of models: the mutations downloadModel and                  *)
(* cancelModelDownload (ModelMutationType), the coordinator that runs each *)
(* download as a task under a semaphore (ModelDownloadCoordinator), the    *)
(* HTTP transfer into a .partial file (ModelDownloadService) and the rows  *)
(* of DownloadJobs.  Runs share a destination and its .partial by name     *)
(* only; two ids of the catalogue may even resolve to one destination.     *)
(***************************************************************************)
EXTENDS Naturals, Sequences, FiniteSets

CONSTANTS
    Downloads,      \* requests to download, and the downloads they become
    Models,         \* ids of the catalogue
    ModelOf,        \* the model a request asks for
    Paths,          \* destination files
    PathOf,         \* the destination a model's URL resolves to (its last segment)
    MaxConcurrent,  \* DownloadsOptions.MaxConcurrentDownloads
    MaxRetries,     \* DownloadsOptions.MaxRetries
    Length,         \* chunks of a model's file
    MaxCrashes,     \* bound: ends of the process
    Asks,           \* when a model may be asked for again, see MayAsk
    NoFile          \* a file that does not exist

ASSUME ModelsAssumption == ModelOf \in [Downloads -> Models] /\ PathOf \in [Models -> Paths]
ASSUME DownloadsAssumption == IsFiniteSet(Downloads)
ASSUME NumbersAssumption == /\ MaxConcurrent \in Nat \ {0}
                            /\ MaxRetries \in Nat
                            /\ Length \in Nat \ {0}
                            /\ MaxCrashes \in Nat
ASSUME AsksAssumption == Asks \in {"any", "answered", "ended"}
ASSUME NoFileAssumption == NoFile \notin Seq(Models \X (1..Length))

VARIABLES
    row,        \* DownloadJobs: state and error kind of each download
    partial,    \* the content of each path's .partial file, chunk by chunk
    dest,       \* the content of the file at each path
    w,          \* each request, then its run: where it stands and what it holds
    permits,    \* free permits of the semaphore
    cancelled,  \* downloads whose CancellationTokenSource is cancelled
    accepted,   \* history: downloads whose cancellation was answered without error
    stopping,   \* is the host stopping
    crashes     \* how often the process has ended

vars == <<row, partial, dest, w, permits, cancelled, accepted, stopping, crashes>>

Active == {"Queued", "Downloading", "Finalizing"}
DownloadState == Active \cup {"Absent", "Completed", "Failed", "Cancelled"}
\* Fatal stands for NotFound and Unknown: the kinds whose partial file is deleted.
DownloadErrorKind == {"none", "Transient", "Fatal"}

Content == Seq(Models \X (1..Length))

\* The file the server has for a model.
Whole(m) == [i \in 1..Length |-> <<m, i>>]

\* Where a request is: not made, at the look-up, about to add its row, answered with no new run.
Asking == {"idle", "lookUp", "add", "answered"}
\* Where a run is while it holds a permit.
Holding == {"begin", "measure", "request", "open", "copy", "finalize", "move", "complete",
            "deleteFailed", "drop", "markCancelled", "release"}
Place == Asking \cup {"wait", "ended", "lost"} \cup Holding

\* What the open FileStream of a run refers to: a handle follows its file when that is moved and
\* keeps it when that is deleted.
Handle == {"closed", "partial", "dest", "gone"}

Live(d) == w[d].pc \in {"wait"} \cup Holding

Path(d) == PathOf[ModelOf[d]]

RunsOf(m) == {d \in Downloads : ModelOf[d] = m}

IdleRun == [pc |-> "idle", attempt |-> 0, from |-> 0, pos |-> 0, at |-> "closed"]

Init == /\ row = [d \in Downloads |-> [state |-> "Absent", kind |-> "none"]]
        /\ partial = [p \in Paths |-> NoFile]
        /\ dest = [p \in Paths |-> NoFile]
        /\ w = [d \in Downloads |-> IdleRun]
        /\ permits = MaxConcurrent
        /\ cancelled = {} /\ accepted = {}
        /\ stopping = FALSE
        /\ crashes = 0

-----------------------------------------------------------------------------
(* Helpers.                                                                *)

At(d, pc) == w[d].pc = pc

Go(d, pc) == w' = [w EXCEPT ![d].pc = pc]

\* Disposing the stream of a run that leaves the transfer.
CloseAndGo(d, pc) == w' = [w EXCEPT ![d].pc = pc, ![d].at = "closed"]

SetRow(d, state, kind) == row' = [row EXCEPT ![d] = [state |-> state, kind |-> kind]]

SizeOf(file) == IF file = NoFile THEN 0 ELSE Len(file)

\* FileShare.None: a run that has the partial file open keeps every other from opening it.
Locked(d) == \E e \in Downloads \ {d} : Path(e) = Path(d) /\ w[e].at = "partial"

\* The runs with their handles after the partial file of a path was deleted.
AfterDelete(p) ==
    [d \in Downloads |-> IF Path(d) = p /\ w[d].at = "partial"
                         THEN [w[d] EXCEPT !.at = "gone"] ELSE w[d]]

\* ... and after it was moved over the destination.
AfterMove(p) ==
    [d \in Downloads |-> IF Path(d) # p THEN w[d]
                         ELSE CASE w[d].at = "partial" -> [w[d] EXCEPT !.at = "dest"]
                                [] w[d].at = "dest" -> [w[d] EXCEPT !.at = "gone"]
                                [] OTHER -> w[d]]

\* DeletePartial, and on to pc.
DeletePartialAndGo(d, pc) ==
    /\ partial' = [partial EXCEPT ![Path(d)] = NoFile]
    /\ w' = [AfterDelete(Path(d)) EXCEPT ![d].pc = pc]

Files == <<partial, dest>>
Process == <<stopping, crashes>>
Tokens == <<cancelled, accepted>>

-----------------------------------------------------------------------------
(* downloadModel.                                                          *)

\* Clients: "any" asks whenever it likes (a double click, two windows), "answered" once no row of
\* the model is active (the Retry button of a failed download), "ended" once its runs are over.
MayAsk(d) ==
    \A e \in RunsOf(ModelOf[d]) \ {d} :
        /\ Asks # "any" => /\ w[e].pc \notin {"lookUp", "add"}
                           /\ row[e].state \notin Active \/ At(e, "lost")
        /\ Asks = "ended" => ~Live(e)

\* The mutation begins: an installed model is refused.
Ask(d) == /\ At(d, "idle")
          /\ ~stopping
          /\ MayAsk(d)
          /\ Go(d, IF dest[Path(d)] = NoFile THEN "lookUp" ELSE "answered")
          /\ UNCHANGED <<row, Files, permits, Tokens, Process>>

\* TryGetActiveByCatalogueIdAsync: an active download of the model is the answer.
LookUp(d) == /\ At(d, "lookUp")
             /\ Go(d, IF \E e \in RunsOf(ModelOf[d]) : row[e].state \in Active
                      THEN "answered" ELSE "add")
             /\ UNCHANGED <<row, Files, permits, Tokens, Process>>

\* StartAsync: the row, the slot and the task. The host's stopping token is passed to the save.
Add(d) == /\ At(d, "add")
          /\ IF stopping
             THEN Go(d, "answered") /\ UNCHANGED row
             ELSE Go(d, "wait") /\ SetRow(d, "Queued", "none")
          /\ UNCHANGED <<Files, permits, Tokens, Process>>

-----------------------------------------------------------------------------
(* cancelModelDownload: the row is read, then the token is cancelled.      *)

\* The answer is given: no error, unless the download is Finalizing. The slot exists from Add on.
CancelRead(d) == /\ Live(d)
                 /\ row[d].state \in {"Queued", "Downloading"}
                 /\ ~stopping
                 /\ accepted' = accepted \cup {d}
                 /\ UNCHANGED <<row, Files, w, permits, cancelled, Process>>

CancelSignal(d) == /\ d \in accepted \ cancelled
                   /\ ~At(d, "lost")
                   /\ cancelled' = cancelled \cup {d}
                   /\ UNCHANGED <<row, Files, w, permits, accepted, Process>>

-----------------------------------------------------------------------------
(* RunJobAsync.                                                            *)

AcquirePermit(d) == /\ At(d, "wait")
                    /\ permits > 0
                    /\ d \notin cancelled
                    /\ permits' = permits - 1
                    /\ Go(d, "begin")
                    /\ UNCHANGED <<row, Files, Tokens, Process>>

\* WaitAsync throws: the run ends without a permit, and leaves the partial file of an earlier one.
CancelWaiting(d) == /\ At(d, "wait")
                    /\ d \in cancelled
                    /\ SetRow(d, "Cancelled", "none")
                    /\ Go(d, "ended")
                    /\ UNCHANGED <<Files, permits, Tokens, Process>>

Begin(d) == /\ At(d, "begin")
            /\ SetRow(d, "Downloading", "none")
            /\ Go(d, "measure")
            /\ UNCHANGED <<Files, permits, Tokens, Process>>

\* RunWithRetryAsync, top of the loop: the token, the back-off, the size to resume from.
Measure(d) ==
    /\ At(d, "measure")
    /\ IF d \in cancelled
       THEN Go(d, "drop")
       ELSE LET size == SizeOf(partial[Path(d)])
            IN  w' = [w EXCEPT ![d].pc = "request", ![d].from = size, ![d].pos = size]
    /\ UNCHANGED <<row, Files, permits, Tokens, Process>>

\* Mutants: one attempt too many, or an attempt that is not counted.
RetryOneTooMany(d) ==
    IF w[d].attempt <= MaxRetries
    THEN /\ w' = [w EXCEPT ![d].pc = "measure", ![d].at = "closed", ![d].attempt = @ + 1]
         /\ UNCHANGED row
    ELSE /\ CloseAndGo(d, "release")
         /\ SetRow(d, "Failed", "Transient")

RetryUncounted(d) == CloseAndGo(d, "measure") /\ UNCHANGED row

\* An attempt ended with a transient error: the next one, or Failed with the partial file kept.
RetryOrGiveUp(d) ==
    IF w[d].attempt < MaxRetries
    THEN /\ w' = [w EXCEPT ![d].pc = "measure", ![d].at = "closed", ![d].attempt = @ + 1]
         /\ UNCHANGED row
    ELSE /\ CloseAndGo(d, "release")
         /\ SetRow(d, "Failed", "Transient")

\* FailAndDeletePartialAsync, its first half: the row and the event. The file is deleted after.
MarkFailed(d) == /\ SetRow(d, "Failed", "Fatal")
                 /\ CloseAndGo(d, "deleteFailed")

\* The server answers with content; it has none past the end (416).
RequestSucceeds(d) == /\ At(d, "request")
                      /\ w[d].from < Length
                      /\ Go(d, "open")
                      /\ UNCHANGED <<row, Files, permits, Tokens, Process>>

\* No connection, a timeout, a 5xx.
RequestTransient(d) == /\ At(d, "request")
                       /\ RetryOrGiveUp(d)
                       /\ UNCHANGED <<Files, permits, Tokens, Process>>

\* A 4xx, or an exception that is not transient.
RequestFails(d) == /\ At(d, "request")
                   /\ MarkFailed(d)
                   /\ UNCHANGED <<Files, permits, Tokens, Process>>

\* Any await of the attempt that takes the token.
Interrupted(d) == /\ w[d].pc \in {"request", "open", "copy"}
                  /\ d \in cancelled
                  /\ CloseAndGo(d, "drop")
                  /\ UNCHANGED <<row, Files, permits, Tokens, Process>>

\* Mutant: every attempt starts the file again, wherever its content continues.
OpenedFresh(d, file) == <<>>

\* The partial file is appended to when resuming (and created if it is gone), else truncated.
Opened(d, file) == IF w[d].from > 0 /\ file # NoFile THEN file ELSE <<>>

Open(d) == /\ At(d, "open")
           /\ ~Locked(d)
           /\ partial' = [partial EXCEPT ![Path(d)] = Opened(d, @)]
           /\ w' = [w EXCEPT ![d].pc = "copy", ![d].at = "partial"]
           /\ UNCHANGED <<row, dest, permits, Tokens, Process>>

\* The file is open elsewhere: an IOException.
OpenFails(d) == /\ At(d, "open")
                /\ Locked(d)
                /\ MarkFailed(d)
                /\ UNCHANGED <<Files, permits, Tokens, Process>>

\* One chunk read from the response and written at the end of the file the handle refers to.
Copy(d) ==
    LET chunk == <<ModelOf[d], w[d].pos + 1>>
    IN  /\ At(d, "copy")
        /\ w[d].pos < Length
        /\ w' = [w EXCEPT ![d].pos = @ + 1]
        /\ partial' = IF w[d].at = "partial"
                      THEN [partial EXCEPT ![Path(d)] = Append(@, chunk)] ELSE partial
        /\ dest' = IF w[d].at = "dest"
                   THEN [dest EXCEPT ![Path(d)] = Append(@, chunk)] ELSE dest
        /\ UNCHANGED <<row, permits, Tokens, Process>>

\* The connection breaks, or the disk is full: an exception.
BreakOff(d) == /\ At(d, "copy")
               /\ MarkFailed(d)
               /\ UNCHANGED <<Files, permits, Tokens, Process>>

\* The body ends before the announced length: transient.
EndEarly(d) == /\ At(d, "copy")
               /\ w[d].pos < Length
               /\ RetryOrGiveUp(d)
               /\ UNCHANGED <<Files, permits, Tokens, Process>>

\* Mutant: the length of the body is not compared with the announced one.
EndOfAnyBody(d) == /\ At(d, "copy")
                   /\ CloseAndGo(d, "finalize")
                   /\ UNCHANGED <<row, Files, permits, Tokens, Process>>

\* The stream is closed; the partial file is complete as far as the run can tell.
EndOfBody(d) == /\ At(d, "copy")
                /\ w[d].pos = Length
                /\ CloseAndGo(d, "finalize")
                /\ UNCHANGED <<row, Files, permits, Tokens, Process>>

Finalize(d) == /\ At(d, "finalize")
               /\ SetRow(d, "Finalizing", "none")
               /\ Go(d, "move")
               /\ UNCHANGED <<Files, permits, Tokens, Process>>

\* MovePartialToDestinationAsync: a missing partial file is no error.
Move(d) ==
    LET p == Path(d)
    IN  /\ At(d, "move")
        /\ IF partial[p] = NoFile
           THEN Go(d, "complete") /\ UNCHANGED Files
           ELSE /\ dest' = [dest EXCEPT ![p] = partial[p]]
                /\ partial' = [partial EXCEPT ![p] = NoFile]
                /\ w' = [AfterMove(p) EXCEPT ![d].pc = "complete"]
        /\ UNCHANGED <<row, permits, Tokens, Process>>

MoveFails(d) == /\ At(d, "move")
                /\ MarkFailed(d)
                /\ UNCHANGED <<Files, permits, Tokens, Process>>

Complete(d) == /\ At(d, "complete")
               /\ SetRow(d, "Completed", "none")
               /\ Go(d, "release")
               /\ UNCHANGED <<Files, permits, Tokens, Process>>

\* Mutant: the partial file of a failed download stays.
KeepFailed(d) == /\ At(d, "deleteFailed")
                 /\ Go(d, "release")
                 /\ UNCHANGED <<row, Files, permits, Tokens, Process>>

DeleteFailed(d) == /\ At(d, "deleteFailed")
                   /\ DeletePartialAndGo(d, "release")
                   /\ UNCHANGED <<row, dest, permits, Tokens, Process>>

\* Cancelled: here the file goes first and the row after.
Drop(d) == /\ At(d, "drop")
           /\ DeletePartialAndGo(d, "markCancelled")
           /\ UNCHANGED <<row, dest, permits, Tokens, Process>>

\* Mutant: a cancelled run returns without releasing its permit.
MarkCancelledLeaks(d) == /\ At(d, "markCancelled")
                         /\ SetRow(d, "Cancelled", "none")
                         /\ Go(d, "ended")
                         /\ UNCHANGED <<Files, permits, Tokens, Process>>

MarkCancelled(d) == /\ At(d, "markCancelled")
                    /\ SetRow(d, "Cancelled", "none")
                    /\ Go(d, "release")
                    /\ UNCHANGED <<Files, permits, Tokens, Process>>

Release(d) == /\ At(d, "release")
              /\ permits' = permits + 1
              /\ Go(d, "ended")
              /\ UNCHANGED <<row, Files, Tokens, Process>>

-----------------------------------------------------------------------------
(* The process.                                                            *)

\* The host stops: the token every download's is linked to is cancelled.
Stop == /\ ~stopping
        /\ crashes < MaxCrashes
        /\ stopping' = TRUE
        /\ cancelled' = cancelled \cup {d \in Downloads : Live(d)}
        /\ UNCHANGED <<row, Files, w, permits, accepted, crashes>>

\* The process ends, by a crash or after Stop, which waits for no run, and starts again. Rows and
\* files stay, and no code at start-up looks at them.
Restart ==
    /\ crashes < MaxCrashes
    /\ crashes' = crashes + 1
    /\ stopping' = FALSE
    /\ permits' = MaxConcurrent
    /\ w' = [d \in Downloads |->
                CASE Live(d) -> [IdleRun EXCEPT !.pc = "lost"]
                  [] w[d].pc \in {"lookUp", "add"} -> [IdleRun EXCEPT !.pc = "answered"]
                  [] OTHER -> w[d]]
    /\ UNCHANGED <<row, Files, Tokens>>

-----------------------------------------------------------------------------

Request(d) == Ask(d) \/ LookUp(d) \/ Add(d)

Cancel(d) == CancelRead(d) \/ CancelSignal(d)

\* One attempt of RunWithRetryAsync.
Attempt(d) == \/ Measure(d) \/ Interrupted(d)
              \/ RequestSucceeds(d) \/ RequestTransient(d) \/ RequestFails(d)
              \/ Open(d) \/ OpenFails(d)
              \/ Copy(d) \/ BreakOff(d) \/ EndEarly(d) \/ EndOfBody(d)

Run(d) == \/ AcquirePermit(d) \/ CancelWaiting(d) \/ Begin(d) \/ Attempt(d)
          \/ Finalize(d) \/ Move(d) \/ MoveFails(d) \/ Complete(d)
          \/ DeleteFailed(d) \/ Drop(d) \/ MarkCancelled(d) \/ Release(d)

Next == \/ \E d \in Downloads : Request(d) \/ Cancel(d) \/ Run(d)
        \/ Stop \/ Restart

Spec == Init /\ [][Next]_vars

\* A run goes on: its task is scheduled, and the server or the connection answers or breaks.
Fairness == \A d \in Downloads : WF_vars(Run(d)) /\ WF_vars(LookUp(d) \/ Add(d))

FairSpec == Spec /\ Fairness

-----------------------------------------------------------------------------
(* Properties.                                                             *)

RunState == [pc : Place, attempt : 0..MaxRetries, from : Nat, pos : Nat, at : Handle]

\* The variables have their types.
TypeOK ==
    /\ row \in [Downloads -> [state : DownloadState, kind : DownloadErrorKind]]
    /\ partial \in [Paths -> Content \cup {NoFile}]
    /\ dest \in [Paths -> Content \cup {NoFile}]
    /\ w \in [Downloads -> RunState]
    /\ permits \in 0..MaxConcurrent
    /\ cancelled \subseteq Downloads /\ accepted \subseteq Downloads
    /\ stopping \in BOOLEAN
    /\ crashes \in 0..MaxCrashes

Holders == {d \in Downloads : w[d].pc \in Holding}

\* Every permit is free or held by one run, on every way out of RunJobAsync and RunWithRetryAsync:
\* none is leaked (downloads would queue for ever) and none is released twice.
PermitsConserved == permits + Cardinality(Holders) = MaxConcurrent

\* An open handle refers to a file that exists, until the file is deleted or replaced.
HandlesOpen ==
    \A d \in Downloads : /\ w[d].at = "partial" => partial[Path(d)] # NoFile
                         /\ w[d].at = "dest" => dest[Path(d)] # NoFile

\* Inductive: the type of the files rests on HandlesOpen, the bound on permits on their conservation.
PermitsInv == TypeOK /\ HandlesOpen /\ PermitsConserved

\* A download shown as Completed has its whole model at the destination, through every resumption,
\* failure, cancellation and restart before it.
CompletedIsWhole ==
    \A d \in Downloads : row[d].state = "Completed" => dest[Path(d)] = Whole(ModelOf[d])

\* The bytes a run resumes from are those of a download that failed transiently, or that died with
\* the process: those of a download that failed for good or was cancelled are gone.
ResumesOnlyTransient ==
    \A d \in Downloads :
        w[d].pc \in {"request", "open", "copy"} /\ w[d].attempt = 0 /\ w[d].from > 0 =>
            \E e \in Downloads : Path(e) = Path(d) /\ (row[e].kind = "Transient" \/ At(e, "lost"))

\* While no process end intervenes, every download that was added comes to one of the three ends,
\* whatever the server answers and however many wait for a permit.
ActiveSettles ==
    \A d \in Downloads : row[d].state = "Queued" ~> row[d].state \notin Active

\* The files, retries and permits implement the state diagram of the runbook.
Lifecycle ==
    INSTANCE DownloadLifecycle WITH
        state <- [d \in Downloads |-> row[d].state],
        lost <- {d \in Downloads : At(d, "lost") /\ row[d].state \in Active},
        installed <- {m \in Models : dest[PathOf[m]] = Whole(m)}

LifecycleSpec == Lifecycle!Spec

-----------------------------------------------------------------------------
(* The inductive invariant behind CompletedIsWhole, ResumesOnlyTransient and LifecycleSpec: what   *)
(* holds when no two runs share a file.                                                            *)

\* A model is asked for again once its runs are over, and no other model has its file name.
NoSharing == /\ Asks = "ended"
             /\ \A m, n \in Models : PathOf[m] = PathOf[n] => m = n

Busy(d) == Live(d) \/ w[d].pc \in {"lookUp", "add"}

\* A file has at most one request or run under way.
OneRunPerFile == \A d, e \in Downloads : Busy(d) /\ Busy(e) /\ Path(d) = Path(e) => d = e

\* The state of a row says where its run is.
RowFits(d) ==
    LET pc == w[d].pc
        is(places, states) == pc \in places => row[d].state \in states
    IN  /\ is(Asking, {"Absent"})
        /\ is({"wait", "begin"}, {"Queued"})
        /\ is({"measure", "request", "open", "copy", "finalize", "drop", "markCancelled"},
              {"Downloading"})
        /\ is({"move", "complete"}, {"Finalizing"})
        /\ is({"deleteFailed"}, {"Failed"})
        /\ is({"release", "ended"}, {"Completed", "Failed", "Cancelled"})
        /\ row[d].kind = "Transient" => pc \in {"release", "ended", "lost"}

\* The first chunks of a model's file.
First(m, n) == [i \in 1..n |-> <<m, i>>]

\* The partial file holds the first chunks of the model, as many as the run of it counts.
PartialFits(d) ==
    LET file == partial[Path(d)]
    IN  /\ file = NoFile \/ \E n \in 0..Length : file = First(ModelOf[d], n)
        /\ w[d].at = IF At(d, "copy") THEN "partial" ELSE "closed"
        /\ w[d].pc \in {"request", "open"} => w[d].pos = w[d].from /\ w[d].from = SizeOf(file)
        /\ At(d, "copy") => w[d].pos <= Length /\ file = First(ModelOf[d], w[d].pos)
        /\ w[d].pc \in {"finalize", "move"} => file = Whole(ModelOf[d])

\* The destination holds the whole model or nothing, and the whole once the run has moved it there.
DestFits(d) ==
    /\ dest[Path(d)] \in {NoFile, Whole(ModelOf[d])}
    /\ At(d, "complete") \/ row[d].state = "Completed" => dest[Path(d)] = Whole(ModelOf[d])

\* An earlier download left the partial file behind.
Left(d) == \E e \in Downloads : Path(e) = Path(d) /\ (row[e].kind = "Transient" \/ At(e, "lost"))

\* The run may have written the partial file itself.
Writes(d) == \/ w[d].pc \in {"measure", "request", "open"} /\ w[d].attempt > 0
             \/ w[d].pc \in {"copy", "finalize", "move", "drop", "deleteFailed"}

\* Bytes in the partial file have an origin, and so have those a first attempt resumes from.
OriginKnown(d) ==
    /\ SizeOf(partial[Path(d)]) > 0 =>
            Left(d) \/ \E e \in Downloads : Path(e) = Path(d) /\ Writes(e)
    /\ w[d].pc \in {"request", "open", "copy"} /\ w[d].attempt = 0 /\ w[d].from > 0 => Left(d)

FilesInv ==
    /\ OneRunPerFile
    /\ \A d \in Downloads : RowFits(d) /\ PartialFits(d) /\ DestFits(d) /\ OriginKnown(d)

-----------------------------------------------------------------------------
(* What the runbook and the answers of the mutations say and the code does not keep.           *)

\* A cancellation answered with success is not followed by Completed: the runbook has it rejected
\* once the download is finalizing, and lead to Cancelled before.
CancelHonoured == \A d \in accepted : row[d].state # "Completed"

\* Runbook: after Cancelled a new download starts fresh, the partial file is already deleted.
CancelledLeavesNothing ==
    [][\A d \in Downloads : row[d].state # "Cancelled" /\ row'[d].state = "Cancelled"
          => partial'[Path(d)] = NoFile]_vars

=============================================================================
