--------------------------- MODULE ProcessingJobs ---------------------------
(***************************************************************************)
(* The processing-job pipeline of the backend: the ProcessingJobs and      *)
(* ProcessingJobStages tables, the Quartz trigger of a job, the in-process *)
(* cancellation registry, one ProcessQueueWorker run per job and the       *)
(* GraphQL mutations that enqueue, cancel, pause, resume and retry jobs.   *)
(*                                                                         *)
(* A step of the model is the code between two accesses to the shared job  *)
(* row: the worker and the mutations read a row, await, and later write    *)
(* back their own copy of EVERY column of it.                              *)
(***************************************************************************)
EXTENDS Naturals, FiniteSets

CONSTANTS
    Jobs,            \* ids of the jobs that may be enqueued
    Recordings,      \* ids of the recordings
    RecordingOf,     \* the recording each job processes
    CorrectedJobs,   \* the jobs whose profile has LlmCorrectionEnabled
    Requests,        \* GraphQL requests; each is served once
    MaxVersion,      \* bound on note versions
    MaxCrashes,      \* bound on backend crashes
    HangUps          \* can a client abort its request half-way?

ASSUME JobsAssumption == RecordingOf \in [Jobs -> Recordings] /\ CorrectedJobs \subseteq Jobs
ASSUME BoundsAssumption == MaxVersion \in Nat /\ MaxCrashes \in Nat /\ HangUps \in BOOLEAN

InFlight == {"PreflightChecks", "Transcribing", "Correcting", "Summarizing", "Exporting"}
Terminal == {"Done", "Failed", "Cancelled"}
Outcomes == {"Done", "Failed", "Paused"}
Statuses == InFlight \cup Terminal \cup {"Queued", "Paused"}

\* The stages a retry can name, in pipeline order.
Stages == {"Transcribing", "Cleaning", "LlmCorrection", "Summarizing", "Exporting"}
StageOrder == [s \in Stages |->
    CASE s = "Transcribing" -> 0 [] s = "Cleaning" -> 1 [] s = "LlmCorrection" -> 2
      [] s = "Summarizing" -> 3 [] s = "Exporting" -> 4]

\* What TransitionAsync can be asked to enter; "Finish" is the call that has no step name.
Targets == Stages \cup {"Preflight", "Finish"}
\* Mutant: the status is the name of the stage.
StageAsStatus == [t \in Targets |-> IF t = "Finish" THEN "Done" ELSE t]
StatusOf == [t \in Targets |->
    CASE t = "Preflight" -> "PreflightChecks" [] t = "Cleaning" -> "Correcting"
      [] t = "LlmCorrection" -> "Correcting"  [] t = "Finish" -> "Done"
      [] OTHER -> t]

Row == [status : Statuses \cup {"Absent"}, pauseReq : BOOLEAN, cancelReq : BOOLEAN]
\* The row of a job that was never enqueued.
NoRow == [status |-> "Absent", pauseReq |-> FALSE, cancelReq |-> FALSE]
NewRow == [status |-> "Queued", pauseReq |-> FALSE, cancelReq |-> FALSE]

VARIABLES
    job,          \* the ProcessingJobs table
    stage,        \* per job and stage name, the states of its ProcessingJobStages rows
    skips,        \* history: the stages of a job some retry marked SKIPPED
    recordings,   \* the Recordings table
    transcripts,  \* per recording, the number of transcripts stored; the last is the newest
    notes,        \* the ProcessedNotes table
    announced,    \* notes for which ProcessedNoteSaved was published
    trigger,      \* has Quartz a trigger of this job that has not fired?
    token,        \* the job's CancellationTokenSource in JobCancellationRegistry
    w,            \* the run of ProcessQueueWorker for the job
    req,          \* the GraphQL requests
    up,           \* is the backend process running?
    crashes       \* how often it has crashed

vars == <<job, stage, skips, recordings, transcripts, notes, announced,
          trigger, token, w, req, up, crashes>>
store == <<stage, skips, recordings, transcripts, notes, announced>>
process == <<up, crashes>>

Pcs == {"idle", "begin", "pauseAtStart", "stages", "close", "reload", "pauseWrite", "write",
        "openStage", "transcribe", "loadTranscript", "announce", "updateRecording",
        "fail", "cancelled", "publish", "unregister"} \cup Targets

RequestPcs == {"new", "schedule", "cancelQueued", "setCancel", "tryCancel", "setPause",
               "clearPause", "requeue", "retry", "reread", "served"}

\* A request that serves nothing yet, or has been answered.
NoRequest == [pc |-> "new", job |-> "none", seen |-> NoRow, from |-> "none", skip |-> FALSE]
Served == [NoRequest EXCEPT !.pc = "served"]
IdleRun == [pc |-> "idle", row |-> NoRow, cur |-> "none", to |-> "Preflight", done |-> {},
            tr |-> 0, ver |-> 0, llm |-> "unknown"]

Init ==
    /\ job = [j \in Jobs |-> NoRow]
    /\ stage = [j \in Jobs |-> [s \in Stages |-> {}]]
    /\ skips = [j \in Jobs |-> {}]
    /\ recordings = Recordings
    /\ transcripts = [r \in Recordings |-> 0]
    /\ notes = {} /\ announced = {}
    /\ trigger = [j \in Jobs |-> FALSE]
    /\ token = [j \in Jobs |-> "none"]
    /\ w = [j \in Jobs |-> IdleRun]
    /\ req = [r \in Requests |-> NoRequest]
    /\ up = TRUE /\ crashes = 0

---------------------------------------------------------------------------
(* The worker: ProcessJobAsync, RunPipelineAsync, TransitionAsync.          *)

At(j, pc) == up /\ w[j].pc = pc
Run(j, v) == w' = [w EXCEPT ![j] = v]
Goto(j, pc) == Run(j, [w[j] EXCEPT !.pc = pc])
\* UpdateAsync(job): the whole local copy replaces the stored row.
Save(j, row, pc) == job' = [job EXCEPT ![j] = row] /\ Run(j, [w[j] EXCEPT !.row = row, !.pc = pc])

\* The call of TransitionAsync for t; the job is reloaded only when a stage is open.
Enter(v, t) == [v EXCEPT !.to = t, !.pc = IF v.cur = "none" THEN "write" ELSE "close"]
\* Mutant: a resumed run enters every stage again.
EnterAlways(v, s) == Enter(v, s)
\* A stage whose rows say it completed is not entered: its code runs on without a transition.
EnterUnlessDone(v, s) ==
    IF s \notin v.done THEN Enter(v, s)
    ELSE CASE s = "Transcribing" -> [v EXCEPT !.pc = "loadTranscript"]
           [] s = "Exporting" -> Enter(v, "Finish")
           [] OTHER -> [v EXCEPT !.pc = s]

\* The row of the open stage gets FinishedAt, and an error message when it failed. If a retry
\* marked it SKIPPED meanwhile, so were the stage's rows of earlier runs, if there are any.
CloseStage(j, outcome) ==
    IF w[j].cur \notin Stages THEN UNCHANGED stage
    ELSE LET rows == stage[j][w[j].cur] IN
         \E others \in {rows \ {"open"}} \cup (IF "open" \in rows THEN {} ELSE {{}}) :
             stage' = [stage EXCEPT ![j][w[j].cur] = others \cup {outcome}]

Completed == {"done", "skipped"}
\* Mutants: a row without FinishedAt counts, a row with an error counts, or the rows of any job
\* of the recording count.
CompletedIfOpened(j) == {s \in Stages : stage[j][s] # {}}
CompletedIfFailed(j) == {s \in Stages : stage[j][s] \cap (Completed \cup {"failed"}) # {}}
CompletedByAnyJob(j) == {s \in Stages : \E k \in Jobs : RecordingOf[k] = RecordingOf[j]
                                                         /\ stage[k][s] \cap Completed # {}}
CompletedStages(j) == {s \in Stages : stage[j][s] \cap Completed # {}}
\* Awaits that take the job's own token; when it is cancelled they throw instead.
Cancellable == Targets \cup
    {"stages", "close", "reload", "pauseWrite", "write", "openStage", "loadTranscript",
     "transcribe", "announce", "updateRecording", "publish"}
Proceeds(j, pc) == At(j, pc) /\ (pc \in Cancellable => token[j] # "cancelled")

\* Mutant: the status guard of ProcessJobAsync is gone.
LoadAnyStatus(j) ==
    /\ At(j, "idle") /\ trigger[j]
    /\ trigger' = [trigger EXCEPT ![j] = FALSE]
    /\ Run(j, [IdleRun EXCEPT !.pc = "begin", !.row = job[j]])
    /\ UNCHANGED <<job, store, token, req, process>>

\* Quartz fires the trigger and the run loads the job; a settled or paused job is left alone.
Load(j) ==
    /\ At(j, "idle") /\ trigger[j]
    /\ trigger' = [trigger EXCEPT ![j] = FALSE]
    /\ IF job[j].status \in InFlight \cup {"Queued"}
       THEN Run(j, [IdleRun EXCEPT !.pc = "begin", !.row = job[j]])
       ELSE UNCHANGED w
    /\ UNCHANGED <<job, store, token, req, process>>

\* The run registers its token and looks at the flags of the row it loaded earlier.
Begin(j) ==
    /\ At(j, "begin")
    /\ token' = [token EXCEPT ![j] = "live"]
    /\ Goto(j, IF w[j].row.cancelReq THEN "cancelled"
               ELSE IF w[j].row.pauseReq THEN "pauseAtStart" ELSE "stages")
    /\ UNCHANGED <<job, store, trigger, req, process>>

PauseAtStart(j) ==
    /\ At(j, "pauseAtStart")
    /\ Save(j, [w[j].row EXCEPT !.status = "Paused"], "unregister")
    /\ UNCHANGED <<store, trigger, token, req, process>>

ReadStages(j) ==
    /\ Proceeds(j, "stages")
    /\ IF RecordingOf[j] \in recordings
       THEN Run(j, Enter([w[j] EXCEPT !.done = CompletedStages(j)], "Preflight"))
       ELSE Goto(j, "fail")
    /\ UNCHANGED <<job, store, trigger, token, req, process>>

\* TransitionAsync, first half: close the open stage's row, then reload the job.
CloseStageRow(j) ==
    /\ Proceeds(j, "close")
    /\ CloseStage(j, "done")
    /\ Run(j, [w[j] EXCEPT !.cur = "none", !.pc = "reload"])
    /\ UNCHANGED <<job, skips, recordings, transcripts, notes, announced, trigger, token, req, process>>

Reload(j) ==
    /\ Proceeds(j, "reload")
    /\ Run(j, IF job[j].pauseReq
              THEN [w[j] EXCEPT !.pc = "pauseWrite",
                                !.row = [@ EXCEPT !.status = "Paused", !.pauseReq = TRUE]]
              ELSE [w[j] EXCEPT !.pc = "write"])
    /\ UNCHANGED <<job, store, trigger, token, req, process>>

\* The pause is written; only the call that finishes the job goes on after it.
PauseWrite(j) ==
    /\ Proceeds(j, "pauseWrite")
    /\ Save(j, w[j].row, IF w[j].to = "Finish" THEN "Finish" ELSE "publish")
    /\ UNCHANGED <<store, trigger, token, req, process>>

\* TransitionAsync, second half: write the copy with the new status, then add the stage's row.
Write(j) ==
    /\ Proceeds(j, "write")
    /\ Save(j, [w[j].row EXCEPT !.status = StatusOf[w[j].to]],
            IF w[j].to = "Finish" THEN "Finish" ELSE "openStage")
    /\ UNCHANGED <<store, trigger, token, req, process>>

AddStageRow(j) ==
    stage' = IF w[j].to \in Stages THEN [stage EXCEPT ![j][w[j].to] = @ \cup {"open"}] ELSE stage

OpenStageRow(j) ==
    /\ Proceeds(j, "openStage")
    /\ AddStageRow(j)
    /\ Run(j, [w[j] EXCEPT !.cur = w[j].to, !.pc = w[j].to])
    /\ UNCHANGED <<job, skips, recordings, transcripts, notes, announced, trigger, token, req, process>>

PreflightPasses(j) ==
    /\ Proceeds(j, "Preflight")
    /\ Run(j, EnterUnlessDone(w[j], "Transcribing"))
    /\ UNCHANGED <<job, store, trigger, token, req, process>>

\* No whisper model, or the vault cannot be written: MarkFailedAsync and return.
PreflightFails(j) ==
    /\ Proceeds(j, "Preflight")
    /\ Save(j, [w[j].row EXCEPT !.status = "Failed"], "publish")
    /\ UNCHANGED <<store, trigger, token, req, process>>

\* The transcript of an earlier run: the newest one of the recording.
LoadTranscript(j) ==
    /\ Proceeds(j, "loadTranscript")
    /\ LET n == transcripts[RecordingOf[j]]
       IN  IF n = 0 THEN Goto(j, "fail")
           ELSE Run(j, EnterUnlessDone([w[j] EXCEPT !.tr = n], "Cleaning"))
    /\ UNCHANGED <<job, store, trigger, token, req, process>>

\* job.StartedAt is set: the copy is written a second time in this stage.
SetStartedAt(j) ==
    /\ Proceeds(j, "Transcribing")
    /\ Save(j, w[j].row, "transcribe")
    /\ UNCHANGED <<store, trigger, token, req, process>>

StoreTranscript(j) == transcripts' = [transcripts EXCEPT ![RecordingOf[j]] = @ + 1]

Transcribe(j) ==
    /\ Proceeds(j, "transcribe")
    /\ StoreTranscript(j)
    /\ Run(j, EnterUnlessDone([w[j] EXCEPT !.tr = transcripts[RecordingOf[j]] + 1], "Cleaning"))
    /\ UNCHANGED <<job, stage, skips, recordings, notes, announced, trigger, token, req, process>>

\* The availability of the LLM is asked once per run, here if the profile corrects by LLM.
Clean(j) ==
    /\ Proceeds(j, "Cleaning")
    /\ \E llm \in (IF j \in CorrectedJobs THEN {"yes", "no"} ELSE {"unknown"}) :
         Run(j, EnterUnlessDone([w[j] EXCEPT !.llm = llm],
                                IF llm = "yes" THEN "LlmCorrection" ELSE "Summarizing"))
    /\ UNCHANGED <<job, store, trigger, token, req, process>>

LlmCorrect(j) ==
    /\ Proceeds(j, "LlmCorrection")
    /\ Run(j, EnterUnlessDone(w[j], "Summarizing"))
    /\ UNCHANGED <<job, store, trigger, token, req, process>>

NotesOf(rec, tr) == {n \in notes : n.recording = rec /\ n.transcript = tr}
\* One more than the largest version the transcript's notes have.
IsNextVersion(v, ns) == /\ \A n \in ns : n.version < v
                        /\ v = 1 \/ \E n \in ns : n.version + 1 = v

\* The summary, and the version of the note to be: read here, used after the next transition.
Summarize(j) ==
    /\ Proceeds(j, "Summarizing")
    /\ \E v \in 1..MaxVersion :
         /\ IsNextVersion(v, NotesOf(RecordingOf[j], w[j].tr))
         /\ Run(j, EnterUnlessDone([w[j] EXCEPT !.ver = v], "Exporting"))
    /\ UNCHANGED <<job, store, trigger, token, req, process>>

NoteOf(j) == [job |-> j, recording |-> RecordingOf[j], transcript |-> w[j].tr, version |-> w[j].ver]

\* Mutant: the note is saved and the exporters are not told.
AddNoteSilently(j) ==
    /\ Proceeds(j, "Exporting")
    /\ notes' = notes \cup {NoteOf(j)}
    /\ Goto(j, "updateRecording")
    /\ UNCHANGED <<job, stage, skips, recordings, transcripts, announced, trigger, token, req, process>>

AddNote(j) ==
    /\ Proceeds(j, "Exporting")
    /\ notes' = notes \cup {NoteOf(j)}
    /\ Goto(j, "announce")
    /\ UNCHANGED <<job, stage, skips, recordings, transcripts, announced, trigger, token, req, process>>

PublishNote(j) ==
    /\ Proceeds(j, "announce")
    /\ announced' = announced \cup {NoteOf(j)}
    /\ Goto(j, "updateRecording")
    /\ UNCHANGED <<job, stage, skips, recordings, transcripts, notes, trigger, token, req, process>>

\* When the recording is gone the write throws, and it stays pending in the run's
\* DbContext: MarkFailedAsync's own save throws too and the job row is never written.
\* (The sidecar's enrichment that follows changes nothing and catches its own errors.)
UpdateRecording(j) ==
    /\ Proceeds(j, "updateRecording")
    /\ IF RecordingOf[j] \in recordings THEN Run(j, Enter(w[j], "Finish")) ELSE Goto(j, "unregister")
    /\ UNCHANGED <<job, store, trigger, token, req, process>>

\* After the final transition, FinishedAt is set and the copy written once more.
Finish(j) ==
    /\ Proceeds(j, "Finish")
    /\ Save(j, w[j].row, "publish")
    /\ UNCHANGED <<store, trigger, token, req, process>>

\* The converter, whisper or the summary throws.
EngineFails(j) ==
    /\ Proceeds(j, "transcribe") \/ (Proceeds(j, "Summarizing") /\ w[j].llm # "no")
    /\ Goto(j, "fail")
    /\ UNCHANGED <<job, store, trigger, token, req, process>>

\* An HTTP timeout of the LLM client surfaces as an OperationCanceledException too.
LlmTimesOut(j) ==
    /\ Proceeds(j, "LlmCorrection") \/ (Proceeds(j, "Summarizing") /\ w[j].llm # "no")
    /\ Goto(j, "cancelled")
    /\ UNCHANGED <<job, store, trigger, token, req, process>>

\* An await sees the cancelled token. What was pending in the run's DbContext - a closed
\* or new stage row, a new transcript or note - is saved by MarkCancelledAsync's own save, and
\* a pending update of a deleted recording makes that save throw.
ThrowCancelled(j) ==
    LET pc == w[j].pc IN
    /\ up /\ pc \in Cancellable /\ token[j] = "cancelled"
    /\ \E pending \in BOOLEAN :
         /\ IF pc = "close" THEN CloseStage(j, "done")
            ELSE IF pending /\ pc = "openStage" THEN AddStageRow(j) ELSE UNCHANGED stage
         /\ IF pending /\ pc = "transcribe" THEN StoreTranscript(j) ELSE UNCHANGED transcripts
         /\ notes' = IF pending /\ pc = "Exporting" THEN notes \cup {NoteOf(j)} ELSE notes
    /\ Goto(j, IF pc = "updateRecording" /\ RecordingOf[j] \notin recordings
               THEN "unregister" ELSE "cancelled")
    /\ UNCHANGED <<job, skips, recordings, announced, trigger, token, req, process>>

MarkFailed(j) ==
    /\ At(j, "fail")
    /\ CloseStage(j, "failed")
    /\ Save(j, [w[j].row EXCEPT !.status = "Failed"], "unregister")
    /\ UNCHANGED <<skips, recordings, transcripts, notes, announced, trigger, token, req, process>>

MarkCancelled(j) ==
    /\ At(j, "cancelled")
    /\ Save(j, [w[j].row EXCEPT !.status = "Cancelled"], "unregister")
    /\ UNCHANGED <<store, trigger, token, req, process>>

Unregister(j) ==
    /\ At(j, "unregister") \/ Proceeds(j, "publish")
    /\ token' = [token EXCEPT ![j] = "none"]
    /\ Run(j, IdleRun)
    /\ UNCHANGED <<job, store, trigger, req, process>>

WorkerStep(j) ==
    \/ Load(j) \/ Begin(j) \/ PauseAtStart(j) \/ ReadStages(j) \/ CloseStageRow(j)
    \/ Reload(j) \/ PauseWrite(j) \/ Write(j) \/ OpenStageRow(j) \/ PreflightPasses(j)
    \/ PreflightFails(j) \/ LoadTranscript(j) \/ SetStartedAt(j) \/ Transcribe(j)
    \/ Clean(j) \/ LlmCorrect(j) \/ Summarize(j)
    \/ AddNote(j) \/ PublishNote(j) \/ UpdateRecording(j) \/ Finish(j) \/ EngineFails(j)
    \/ LlmTimesOut(j) \/ ThrowCancelled(j) \/ MarkFailed(j) \/ MarkCancelled(j) \/ Unregister(j)

---------------------------------------------------------------------------
(* The mutations. A request holds the row it read until its next write.     *)

Serving(r, pc) == up /\ req[r].pc = pc
Continue(r, pc) == req' = [req EXCEPT ![r].pc = pc]
Answer(r) == req' = [req EXCEPT ![r] = Served]
Accept(r, j, pc, seen) ==
    req' = [req EXCEPT ![r] = [NoRequest EXCEPT !.pc = pc, !.job = j, !.seen = seen]]

\* EnqueueJob, and EnqueueAndScheduleAsync of the import and recording paths.
Enqueue(r, j) ==
    /\ Serving(r, "new") /\ job[j] = NoRow /\ RecordingOf[j] \in recordings
    /\ job' = [job EXCEPT ![j] = NewRow]
    /\ Accept(r, j, "schedule", NoRow)
    /\ UNCHANGED <<store, trigger, token, w, process>>

\* ScheduleAsync: one trigger per job, replaced if it is there.
Schedule(r) ==
    /\ Serving(r, "schedule")
    /\ trigger' = [trigger EXCEPT ![req[r].job] = TRUE]
    /\ Answer(r)
    /\ UNCHANGED <<job, store, token, w, process>>

CancelJob(r, j) ==
    /\ Serving(r, "new") /\ job[j].status \notin Terminal \cup {"Absent"}
    /\ IF job[j].status = "Queued" THEN Accept(r, j, "cancelQueued", job[j])
       ELSE Accept(r, j, "setCancel", NoRow)
    /\ UNCHANGED <<job, store, trigger, token, w, process>>

\* The branch for a queued job writes the whole row it read.
CancelQueued(r) ==
    /\ Serving(r, "cancelQueued")
    /\ job' = [job EXCEPT ![req[r].job] =
                   [req[r].seen EXCEPT !.status = "Cancelled", !.cancelReq = TRUE]]
    /\ Answer(r)
    /\ UNCHANGED <<store, trigger, token, w, process>>

SetCancelRequested(r) ==
    /\ Serving(r, "setCancel")
    /\ job' = [job EXCEPT ![req[r].job].cancelReq = TRUE]
    /\ Continue(r, "tryCancel")
    /\ UNCHANGED <<store, trigger, token, w, process>>

TryCancel(r) ==
    /\ Serving(r, "tryCancel")
    /\ token' = [token EXCEPT ![req[r].job] = IF @ = "none" THEN "none" ELSE "cancelled"]
    /\ Answer(r)
    /\ UNCHANGED <<job, store, trigger, w, process>>

PauseJob(r, j) ==
    /\ Serving(r, "new") /\ job[j].status \in InFlight
    /\ Accept(r, j, "setPause", NoRow)
    /\ UNCHANGED <<job, store, trigger, token, w, process>>

SetPauseRequested(r) ==
    /\ Serving(r, "setPause")
    /\ job' = [job EXCEPT ![req[r].job].pauseReq = TRUE]
    /\ Answer(r)
    /\ UNCHANGED <<store, trigger, token, w, process>>

ResumeJob(r, j) ==
    /\ Serving(r, "new") /\ job[j].status = "Paused"
    /\ Accept(r, j, "clearPause", NoRow)
    /\ UNCHANGED <<job, store, trigger, token, w, process>>

ClearPauseRequested(r) ==
    /\ Serving(r, "clearPause")
    /\ job' = [job EXCEPT ![req[r].job].pauseReq = FALSE]
    /\ Continue(r, "requeue")
    /\ UNCHANGED <<store, trigger, token, w, process>>

\* UpdateAsync(job) of the copy read without tracking: the request's DbContext already
\* tracks the row ClearPauseRequestedAsync loaded, so Update throws and nothing is saved.
Requeue(r) ==
    /\ Serving(r, "requeue")
    /\ Answer(r)
    /\ UNCHANGED <<job, store, trigger, token, w, process>>

RetryJobFromStage(r, j) ==
    /\ Serving(r, "new") /\ job[j].status \in Terminal \cup {"Paused"}
    /\ \E from \in Stages, skip \in BOOLEAN :
         req' = [req EXCEPT ![r] = [NoRequest EXCEPT !.pc = "retry", !.job = j,
                                                     !.from = from, !.skip = skip]]
    /\ UNCHANGED <<job, store, trigger, token, w, process>>

\* The stage rows of a job after a retry from a stage; no row is made.
RowsAfterRetry(rows, from, skip) ==
    [s \in Stages |->
        CASE rows[s] = {} \/ StageOrder[s] < StageOrder[from] -> rows[s]
          [] s = from /\ skip -> {"skipped"}
          [] OTHER -> {"open"}]

\* RequestRetryFromStageAsync: whatever the status is by now.
RequestRetryFromStage(r) ==
    LET j == req[r].job
        rows == RowsAfterRetry(stage[j], req[r].from, req[r].skip) IN
    /\ Serving(r, "retry")
    /\ job' = [job EXCEPT ![j] = NewRow]
    /\ stage' = [stage EXCEPT ![j] = rows]
    /\ skips' = [skips EXCEPT ![j] = @ \cup {s \in Stages : "skipped" \in rows[s]}]
    /\ Continue(r, "reread")
    /\ UNCHANGED <<recordings, transcripts, notes, announced, trigger, token, w, process>>

\* Mutant: the retried job is answered and not scheduled.
RereadOnly(r) ==
    /\ Serving(r, "reread")
    /\ Answer(r)
    /\ UNCHANGED <<job, store, trigger, token, w, process>>

\* The job is read again for the payload: the last await a client that went away aborts.
Reread(r) ==
    /\ Serving(r, "reread")
    /\ \/ Continue(r, "schedule")
       \/ HangUps /\ Answer(r)
    /\ UNCHANGED <<job, store, trigger, token, w, process>>

\* Mutant: the transcripts of a deleted recording go with it.
DeleteWithTranscripts(r, rec) ==
    /\ Serving(r, "new") /\ rec \in recordings
    /\ recordings' = recordings \ {rec}
    /\ transcripts' = [transcripts EXCEPT ![rec] = 0]
    /\ Answer(r)
    /\ UNCHANGED <<job, stage, skips, notes, announced, trigger, token, w, process>>

DeleteRecording(r, rec) ==
    /\ Serving(r, "new") /\ rec \in recordings
    /\ recordings' = recordings \ {rec}
    /\ Answer(r)
    /\ UNCHANGED <<job, stage, skips, transcripts, notes, announced, trigger, token, w, process>>

Receive(r) ==
    \/ \E j \in Jobs : \/ Enqueue(r, j) \/ CancelJob(r, j) \/ PauseJob(r, j)
                      \/ ResumeJob(r, j) \/ RetryJobFromStage(r, j)
    \/ \E rec \in Recordings : DeleteRecording(r, rec)

RequestStep(r) ==
    \/ Schedule(r) \/ CancelQueued(r) \/ SetCancelRequested(r) \/ TryCancel(r) \/ SetPauseRequested(r)
    \/ ClearPauseRequested(r) \/ Requeue(r) \/ RequestRetryFromStage(r) \/ Reread(r)

---------------------------------------------------------------------------
(* The process: a crash loses all but the tables (Quartz stores its jobs in *)
(* memory); ProcessingJobRehydrator runs before requests are served.        *)

Crash ==
    /\ up /\ crashes < MaxCrashes
    /\ up' = FALSE /\ crashes' = crashes + 1
    /\ trigger' = [j \in Jobs |-> FALSE]
    /\ token' = [j \in Jobs |-> "none"]
    /\ w' = [j \in Jobs |-> IdleRun]
    /\ req' = [r \in Requests |-> IF req[r].pc = "new" THEN req[r] ELSE Served]
    /\ UNCHANGED <<job, store>>

\* Mutant: a status that an interrupted run can leave is missing from the list.
WithoutCorrecting == InFlight \ {"PreflightChecks", "Correcting"}
InFlightStatuses == InFlight \ {"PreflightChecks"}

\* Mutant: only the jobs that were in flight get a trigger.
RehydrateInFlightOnly ==
    /\ ~up /\ up' = TRUE
    /\ job' = [j \in Jobs |-> IF job[j].status \in InFlightStatuses
                              THEN [job[j] EXCEPT !.status = "Queued"] ELSE job[j]]
    /\ trigger' = [j \in Jobs |-> job[j].status \in InFlightStatuses]
    /\ UNCHANGED <<store, token, w, req, crashes>>

Rehydrate ==
    /\ ~up /\ up' = TRUE
    /\ job' = [j \in Jobs |-> IF job[j].status \in InFlightStatuses
                              THEN [job[j] EXCEPT !.status = "Queued"] ELSE job[j]]
    /\ trigger' = [j \in Jobs |-> job'[j].status = "Queued"]
    /\ UNCHANGED <<store, token, w, req, crashes>>

Next ==
    \/ \E j \in Jobs : WorkerStep(j)
    \/ \E r \in Requests : Receive(r) \/ RequestStep(r)
    \/ Crash \/ Rehydrate

Spec == Init /\ [][Next]_vars

\* Quartz runs a fired trigger to its end, a request that was accepted is carried on, and
\* the backend is started again.
Fairness ==
    /\ \A j \in Jobs : WF_vars(WorkerStep(j))
    /\ \A r \in Requests : WF_vars(RequestStep(r))
    /\ WF_vars(Rehydrate)

FairSpec == Spec /\ Fairness

---------------------------------------------------------------------------
(* Properties.                                                              *)

Notes == [job : Jobs, recording : Recordings, transcript : Nat, version : 0..MaxVersion]
StageRows == [Stages -> SUBSET {"open", "done", "failed", "skipped"}]
Runs == [pc : Pcs, row : Row, cur : Targets \cup {"none"}, to : Targets,
         done : SUBSET Stages, tr : Nat, ver : 0..MaxVersion, llm : {"unknown", "yes", "no"}]
RequestStates == [pc : RequestPcs, job : Jobs \cup {"none"}, seen : Row,
                  from : Stages \cup {"none"}, skip : BOOLEAN]

\* Every variable has its type; a job that was never enqueued has the row NoRow.
TypeOK ==
    /\ job \in [Jobs -> Row]
    /\ stage \in [Jobs -> StageRows]
    /\ skips \in [Jobs -> SUBSET Stages]
    /\ recordings \subseteq Recordings
    /\ transcripts \in [Recordings -> Nat]
    /\ notes \subseteq Notes /\ announced \subseteq Notes
    /\ trigger \in [Jobs -> BOOLEAN]
    /\ token \in [Jobs -> {"none", "live", "cancelled"}]
    /\ w \in [Jobs -> Runs]
    /\ req \in [Requests -> RequestStates]
    /\ up \in BOOLEAN /\ crashes \in 0..MaxCrashes

Exported(j) == (\E n \in announced : n.job = j) \/ "Exporting" \in skips[j]

\* A job is reported Done only after a note of its own was saved AND announced to the
\* exporters, through any history of crashes, retries, cancels and resumed runs, unless
\* the user asked for the export to be skipped.
DoneMeansAnnounced ==
    /\ announced \subseteq notes
    /\ \A j \in Jobs : job[j].status = "Done" => Exported(j)

\* What a completed stage stored is not stored twice: while the row of the transcribing stage says
\* finished no run of the job transcribes, and while that of the exporting stage does no run saves or
\* announces a note, after any crashes, retries and resumptions. Only these two stages are spared:
\* the correction and the summary of a completed stage are run again (CompletedIsSkipped).
StoredOnce ==
    \A j \in Jobs :
        /\ w[j].pc \in {"Transcribing", "transcribe"} => "done" \notin stage[j]["Transcribing"]
        /\ w[j].pc \in {"Exporting", "announce"} => "done" \notin stage[j]["Exporting"]

\* A run that resumes after its transcribing stage always finds a transcript, unless the
\* user skipped that stage: "Transcript not found on resume" is never raised.
ResumeFindsTranscript ==
    \A j \in Jobs : w[j].pc = "loadTranscript" =>
        transcripts[RecordingOf[j]] > 0 \/ "Transcribing" \in skips[j]

\* A run that has loaded its job while it was queued and not written it since.
Held(v) == v.pc # "idle" /\ v.row.status = "Queued"

\* A queued job is never forgotten: Quartz has a trigger for it, a request is about to make
\* one, or a run has loaded it and not yet written it.
QueuedIsScheduled ==
    \A j \in Jobs : up /\ job[j].status = "Queued" =>
        \/ trigger[j]
        \/ \E r \in Requests : req[r].job = j /\ req[r].pc \in {"reread", "schedule"}
        \/ Held(w[j])

\* What the code leaves behind: a crash during the preflight checks, and a recording
\* deleted before the run updated it, leave the job in flight without a run.
Stranded(j) ==
    \/ job[j].status = "PreflightChecks" /\ crashes > 0
    \/ job[j].status = "Exporting" /\ RecordingOf[j] \notin recordings

\* While the backend is up, a job shown as being in flight has a live run behind it, but
\* for the two cases of Stranded.
InFlightIsRun ==
    \A j \in Jobs : up /\ job[j].status \in InFlight => w[j].pc # "idle" \/ Stranded(j)

\* A job that finished, failed or was paused is moved only by a retry (to Queued) or a late
\* cancel: no run and no stale copy puts it back in flight or exchanges one outcome for another.
OutcomeStands ==
    [][\A j \in Jobs : job[j].status \in Outcomes =>
          job'[j].status \in {job[j].status, "Queued", "Cancelled"}]_vars

\* A queued job is eventually settled (or stranded): no interleaving of mutations,
\* crash and restart leaves it waiting or running for ever.
QueuedSettles ==
    \A j \in Jobs : job[j].status = "Queued" ~>
        job[j].status \in Terminal \cup {"Paused"} \/ Stranded(j)

---------------------------------------------------------------------------
(* The inductive invariant behind these properties.                         *)

\* A run whose copy still says Queued has not written the job row yet; the copy SetStartedAt
\* writes is the one the transition to Transcribing wrote.
CopyKnown(v) ==
    /\ v.row.status = "Queued" =>
         v.cur = "none" /\ v.pc \in {"begin", "pauseAtStart", "stages", "write", "fail", "cancelled"}
    /\ v.pc = "openStage" => v.row.status = StatusOf[v.to]
    /\ v.pc = "Transcribing" => v.row.status = "Transcribing"

\* Where a run stands when its job shows an outcome: at its end, or before the write
\* that repeats the outcome.
AtItsEnd(v, status) ==
    \/ v.pc \in {"idle", "publish", "unregister", "cancelled"}
    \/ v.pc = "Finish" /\ v.row.status = status

RunsKnown ==
    \A j \in Jobs : /\ CopyKnown(w[j])
                    /\ job[j].status \in Outcomes => AtItsEnd(w[j], job[j].status)

\* Whatever makes a run finish - the stage row, its snapshot, its open stage, its target -
\* stands for a note saved and announced.
ExportKnownOf(j) ==
    /\ stage[j]["Exporting"] \cap Completed # {} => Exported(j)
    /\ "Exporting" \in w[j].done => Exported(j)
    /\ w[j].cur = "Exporting" =>
         Exported(j) \/ w[j].pc \in {"Exporting", "announce", "cancelled", "unregister"}
    /\ w[j].to = "Finish" => Exported(j)
    /\ w[j].row.status = "Done" => Exported(j)
    /\ w[j].pc = "announce" => NoteOf(j) \in notes
    /\ w[j].pc = "updateRecording" => Exported(j)

ExportKnown == \A j \in Jobs : ExportKnownOf(j)

\* The order of what a run may enter.
Rank == [t \in Targets |->
    CASE t = "Preflight" -> 0 [] t = "Transcribing" -> 1 [] t = "Cleaning" -> 2
      [] t = "LlmCorrection" -> 3 [] t = "Summarizing" -> 4 [] t = "Exporting" -> 5 [] OTHER -> 6]

Entering == {"close", "reload", "write", "openStage"}

\* The stage whose code a run executes, or which it is about to enter.
Place(v) ==
    CASE v.pc \in Entering -> v.to
      [] v.pc \in {"loadTranscript", "Transcribing", "transcribe"} -> "Transcribing"
      [] v.pc \in {"Exporting", "announce", "updateRecording"} -> "Exporting"
      [] v.pc \in {"Preflight", "Cleaning", "LlmCorrection", "Summarizing"} -> v.pc
      [] OTHER -> "none"

\* A run goes through the stages in their order: what is finished was finished when it took its
\* snapshot or lies behind it, and its open stage does not lie before it.
InOrder(v, rows) ==
    /\ v.pc \in {"begin", "pauseAtStart", "stages"} => v.cur = "none"
    /\ Place(v) # "none" => \A s \in Stages :
         /\ "done" \in rows[s] => s \in v.done \/ Rank[s] < Rank[Place(v)]
         /\ v.cur = s => Rank[s] < Rank[Place(v)] \/ (Rank[s] = Rank[Place(v)] /\ v.pc \notin Entering)
    /\ v.pc \in Entering => v.to \notin v.done
    /\ v.pc \in {"Transcribing", "transcribe"} => "Transcribing" \notin v.done
    /\ v.pc \in {"Exporting", "announce", "updateRecording"} => "Exporting" \notin v.done
    /\ v.pc = "openStage" => v.to # "Finish"

\* Whatever lets a run pass by its transcribing stage stands for a stored transcript or a skip.
Found(j) == transcripts[RecordingOf[j]] > 0 \/ "Transcribing" \in skips[j]
TranscriptKnown(j) ==
    /\ stage[j]["Transcribing"] \cap Completed # {} => Found(j)
    /\ "Transcribing" \in w[j].done => Found(j)
    /\ w[j].cur = "Transcribing" =>
         Found(j) \/ w[j].pc \in {"Transcribing", "transcribe", "fail", "cancelled", "unregister"}
    /\ w[j].pc = "loadTranscript" => Found(j)

\* A run that ends, or has ended, leaves its job in flight only as Stranded says.
InExport(v) == v.pc \in {"Exporting", "announce", "updateRecording"}
                 \/ (v.pc = "openStage" /\ v.to = "Exporting")
LeavesNothing(j) ==
    /\ up /\ w[j].pc = "idle" => job[j].status \notin InFlight \/ Stranded(j)
    /\ w[j].pc \in {"publish", "unregister"} => job[j].status \notin InFlight \/ Stranded(j)
    /\ w[j].pc = "Finish" => w[j].row.status \notin InFlight
    /\ w[j].pc = "pauseWrite" => w[j].row.status = "Paused"
    /\ InExport(w[j]) => job[j].status \notin InFlight \ {"Exporting"}

RunInvOf(j) == InOrder(w[j], stage[j]) /\ TranscriptKnown(j) /\ LeavesNothing(j)
\* The backend is down only after a crash.
RunInv == TypeOK /\ (~up => crashes > 0) /\ \A j \in Jobs : RunInvOf(j)

IInv ==
    /\ TypeOK
    /\ RunsKnown
    /\ ExportKnown /\ DoneMeansAnnounced
    /\ RunInv

---------------------------------------------------------------------------
(* What the ADRs and the README promise and the code does not keep.         *)

\* ADR-EE-002: resuming clears PauseRequested, sets the job Queued and schedules it. So a
\* paused job without the flag is one whose resume is still being served.
ResumeRequeues ==
    \A j \in Jobs : job[j].status = "Paused" /\ ~job[j].pauseReq =>
        \E r \in Requests : req[r].pc = "requeue" /\ req[r].job = j

\* ADR-EE-002: Cancelled is terminal; only a retry takes a job out of it.
CancelledStaysCancelled ==
    [][\A j \in Jobs : job[j].status = "Cancelled" => job'[j].status \in {"Cancelled", "Queued"}]_vars

\* ADR-EE-002: a pause request is honoured at the next stage boundary. So while the job is
\* in flight the flag is not taken back.
PauseNotForgotten ==
    [][\A j \in Jobs : job[j].status \in InFlight /\ job[j].pauseReq /\ job'[j].status \in InFlight
          => job'[j].pauseReq]_vars

\* ADR-EE-002: a paused job can be retried, which queues and schedules it. So a queued job
\* whose flags are cleared is not paused again before it runs.
RetryNotUndone ==
    [][\A j \in Jobs : job[j].status = "Queued" /\ ~job[j].pauseReq => job'[j].status # "Paused"]_vars

\* ADR-EE-002: the stage rows before FromStage are left intact, "they will be skipped by the
\* worker". So a run executes no stage its snapshot shows completed.
CompletedIsSkipped == \A j \in Jobs : w[j].pc \in Stages => w[j].pc \notin w[j].done

\* ADR-EE-002: a user can skip the LLM correction and keep the raw transcript. So the LLM is
\* not asked to correct the text of a job whose LLM correction stage is SKIPPED.
SkippedCorrectionNotRun ==
    \A j \in Jobs : w[j].pc = "LlmCorrection" => "skipped" \notin stage[j]["LlmCorrection"]

\* README: re-running creates a new version of the note. So the notes of one transcript are
\* told apart by their version.
VersionsDistinct ==
    \A n, m \in notes : n.recording = m.recording /\ n.transcript = m.transcript
                        /\ n.version = m.version => n = m
=============================================================================
