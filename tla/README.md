# Mozgoslav in TLA+

Mozgoslav turns recordings into structured notes: a .NET backend transcribes, cleans, summarises
and exports them; an Electron shell records, dictates and supervises the backend; a React UI shows
the jobs. This directory holds TLA+ models of its stateful parts, the TLC configurations that check
them, and proofs checked by TLAPS. Run `tlc -config X.cfg M` for a run and `tlapm M.tla` for a
module of proofs.

## 1. The system

| Part | State it keeps | Operations | What is hard |
|---|---|---|---|
| Processing-job pipeline (`ProcessQueueWorker`, `JobMutationType`, `EfProcessingJobRepository`, `ProcessingJobRehydrator`) | tables `ProcessingJobs`, `ProcessingJobStages`, `Transcripts`, `ProcessedNotes`; Quartz triggers in memory; cancellation tokens | run a job; enqueue, cancel, pause, resume, retry; rehydrate after a restart | whole-row writes of stale copies, crash between two saves, retries racing with a run, lost triggers |
| Model downloads (`ModelDownloadCoordinator`, `ModelDownloadService`) | table `DownloadJobs`, `.partial` and model files, slots, a semaphore | download, cancel, stream, list | two downloads of one file, cancel against finalizing, resume of a partial file, crash |
| Dictation (`DictationSessionManager` in the backend, `DictationOrchestrator` in the shell, the dashboard in the UI) | the one active session; phase and session id of each client | start, push, stop, cancel; press, release, inject | two clients of one session, a stop that throws, a key released before the answer to the press |
| Dump mode and recording bridge (`DumpModeOrchestrator`, `RecordingBridge`, `NativeHelperClient`) | current session, pending calls, overlay | toggle, hold, helper answers, import | two keys, a helper that dies, a late overlay timer |
| Key bindings (`main.ts`, `globalHotkey.ts`) | the shortcut registry, the helpers' keys | three start-up functions | they run at once and rebind what the others bound |
| Service supervisor (`serviceSupervisor.ts`) | per service: running, stopped, restart count, health timer | start all, stop all, health tick, restart | stop during a start, overlapping health ticks |
| Domain events and Obsidian export (`ChannelDomainEventBus`, `ObsidianDomainEventConsumer`) | in-memory channels, a bounded queue, files of the vault | publish, plan the path, write, mark exported | events lost with the process, dropped oldest, overwritten notes |
| The store of the UI (16 groups of redux slices with their sagas and pages) | what each page shows, drafts, busy marks, streams | load, create, change, delete, subscribe | answers out of order, lost events, a failure that clears the marks of others |
| Import, recording, reprocessing | recordings, notes | import, finalise, reprocess, delete | versions of notes |
| Obsidian vault, Syncthing, routines, backups, runtime state | files, another program's state, registries | set up, pair, run, archive, probe | several steps of which one fails |
| Retrieval index, agent, MCP, correction | indexes | index, query, ask, run | mostly external calls; chunk merging and rank fusion are pure |

The parts meet in a few places. Import, recording and the UI enqueue jobs; Quartz starts a
`ProcessQueueWorker` per job; the worker reads the tables that the mutations write, without a lock
or a row version; it publishes `ProcessedNoteSaved` on the in-memory bus, from which the exporter
writes the vault; the shell starts and stops the backend, so every step can be the last one.

### What makes each part correct

- *Jobs*: a job that says Done stands for a note that was saved and announced; a settled job stays
  settled; what a completed stage stored is not stored again and is found again; a queued job
  is never forgotten and settles; cancel, pause, resume, retry and skip do what ADR-EE-002 says.
- *Downloads*: a download that says Completed stands for a whole file; two downloads never write one
  file; a download that was cancelled does not complete; permits of the semaphore are not lost; the
  states follow the diagram of `docs/runbooks/model-downloads.md`.
- *Dictation*: one active session; every session that starts can be ended; the backend's session and
  the shell's phase agree when nothing is in flight.
- *Supervisor*: restarts are bounded; no child is lost from sight, and the quit reaches every one.
- *Dump mode, bindings*: what records can be stopped and is to be seen; one recording is imported
  once; the key the user chose works.
- *Store*: what a page shows is what the backend holds, once its requests are through; no spinner
  outlives its request; a stream is followed to its end by one consumer; a request is sent once, and
  changes nothing the user left alone.
- *Export*: every announced note is written once, and not over another one.

## 2. `ProcessingJobs`: the pipeline

One module models the tables, the worker's run of every job, the mutations, Quartz's triggers, the
registry of cancellation tokens, crash and rehydration.

**A step** is the code between two accesses to state another actor can see. The worker loads its
job once and then writes back *its copy*, every column of it (`EfProcessingJobRepository.UpdateAsync`
is `DbSet.Update` of an untracked entity); so `w[j].row` is that copy and `Save` replaces the row
with it. In `TransitionAsync` closing the stage's row (`CloseStageRow`), reloading the job
(`Reload`), writing the pause (`PauseWrite`), writing the job (`Write`) and adding the next stage's
row (`OpenStageRow`) are separate steps, and a mutation can come between any two. A mutation is a
request that holds what it read (`req[r].seen`) until its next write. `SetCancelRequested`,
`SetPauseRequested`, `ClearPauseRequested` and `RequestRetryFromStage` load, change and save a
tracked entity: EF writes the changed columns only, and each is one step.

| Variable | Code |
|---|---|
| `job` | table `ProcessingJobs`: status and the two request flags; `Absent` before it is enqueued |
| `stage` | table `ProcessingJobStages`: per job and stage name the *set* of states of its rows (`open` no `FinishedAt`, `done`, `failed` with an error, `skipped`); `{}` no row |
| `skips` | history: stages a retry marked `SKIPPED` |
| `recordings`, `transcripts`, `notes` | the tables; of a recording's transcripts only how many there are, the last is the one `GetByRecordingIdAsync` returns |
| `announced` | notes for which `ProcessedNoteSaved` was published |
| `trigger` | does Quartz hold a trigger of the job (one per job: `ScheduleAsync` replaces it) |
| `token` | the job's entry of `JobCancellationRegistry` |
| `w` | the run: its program counter, its copy of the row, the open stage, the transition's target, the snapshot `_completedStageNames`, transcript and version in hand, the cached availability of the LLM |
| `req`, `up`, `crashes` | requests, the process |

The worker's actions follow `RunPipelineAsync` from top to bottom: `Load`, `Begin`, `PauseAtStart`,
`ReadStages`, the five of a transition, `PreflightPasses`/`PreflightFails`, `SetStartedAt`,
`Transcribe` or `LoadTranscript`, `Clean`, `LlmCorrect`, `Summarize`, `AddNote`, `PublishNote`,
`UpdateRecording`, `Finish`. A stage that is complete is not *entered*, but its code runs on: that is
`EnterUnlessDone`. Failure is `EngineFails` and `MarkFailed`; cancellation is `ThrowCancelled` at any
await that takes the job's token, and `MarkCancelled`. An HTTP timeout of the LLM client surfaces as
an `OperationCanceledException` as well (`LlmTimesOut`).

What was pending in the run's `DbContext` when an await threw is saved by the next save of the same
context: `ThrowCancelled` chooses whether the row, transcript or note of the interrupted call is
kept. A pending update of a recording deleted meanwhile makes every later save throw: the run ends
without marking its job (`ThrowCancelled`, `UpdateRecording`).

*Abstractions.* The preflight stage's row is not kept (nothing asks for it by name). The enrichment
of the transcript by the sidecar before `UpdateRecording` (`ProcessQueueWorker.cs:331`) changes no row. The stage row
and the job row of `MarkFailedAsync` are written in one step. Progress, timestamps, hints and
progress notifications are left out. Database writes do not fail, but for the case above. Mutations
that are refused change nothing and are left out. Profiles and settings do not change. A graceful
stop of the host is a crash: it cancels nothing a user could have cancelled. Rehydration is one
step, for Quartz (`AwaitApplicationStarted`) and the HTTP server start after it. Reprocessing and
the deletion of notes are not in the module.

### Runs

Model-checked with TLC, all with `CHECK_DEADLOCK FALSE`: requests are served once and a system with
nothing to do stops.

| Run | Instance | Shows |
|---|---|---|
| `jobs` (`MCProcessingJobs.cfg`) | 1 job, 3 requests, no crash, clients hang up | `TypeOK`, `ResumeFindsTranscript`, `IInv`, `OutcomeStands`: every race of the mutations with a run and with each other |
| `jobs_crash` (`JobsCrash.cfg`) | 1 job, 2 requests, 2 crashes, clients hang up | `DoneMeansAnnounced`, `StoredOnce`, `ResumeFindsTranscript`, `InFlightIsRun`: resumption after a crash at any step, twice (125 376 states) |
| `jobs_settle` (`JobsSettle.cfg`) | 1 job, 2 requests, 1 crash, fairness | `QueuedIsScheduled`, `QueuedSettles` |
| `jobs_shared` (`JobsShared.cfg`) | 2 jobs on one recording, 3 requests | `DoneMeansAnnounced`, `ResumeFindsTranscript` |
| `jobs_cancel` (`JobsCancel.cfg`) | 1 job, violation | `CancelledStaysCancelled`: a run overwrites the cancel |

Seven more properties state what the code does not keep; TLC finds each violated in a few seconds:

| Configuration | Violated |
|---|---|
| `JobsCancel.cfg` with 3 requests, this property | `ResumeRequeues`: a resume throws half-way (ADR-EE-002) |
| `JobsCancel.cfg` with this property | `CompletedIsSkipped`: the stages before the one a retry starts from "will be skipped by the worker" (ADR-EE-002:51-52); the correction and the summary of a completed stage are run again (`ProcessQueueWorker.cs:283`, `:295-298`), only their transition is spared |
| `JobsCancel.cfg` with this property | `SkippedCorrectionNotRun`: skipping skips the transition, not the work |
| `JobsCancel.cfg` with this property | `PauseNotForgotten`: the copy without the flag overwrites it |
| `JobsCancel.cfg` with 3 requests, this property | `RetryNotUndone`: the run's last write pauses the retried job |
| `JobsVersions.cfg` | `VersionsDistinct`: two jobs on one recording save two notes with one version |
| `JobsHangUp.cfg` | `QueuedIsScheduled`: a retry whose client hung up is never scheduled |

*Bounds.* Three requests are an enqueue and two mutations that race with the run, with each other
and, when the second is a retry, with what the first left behind; all findings need two or three.
Two crashes let a resumed run, with the stages its predecessor left, be resumed again.
`MaxVersion = 4` is above what the requests can produce, so it never disables `Summarize`. Requests
are interchangeable, hence `RequestSymmetry` in the runs without liveness.

*Fairness.* `Fairness` is weak fairness of each run, of each accepted request and of the restart. A
run is a task Quartz awaits to its end and a request is served by the web server to its answer. The
restart is the next start of the program: `main.ts` registers the backend after `startAll`, so the
supervisor neither checks nor restarts it, and "after a crash" means "after the user has started
Mozgoslav again". No request is obliged to come, and no crash. Awaits on whisper
and the LLM end: both have time limits or local work (the LLM client's timeout is `LlmTimesOut`).

`Stranded` names what the code leaves behind, and `InFlightIsRun` and `QueuedSettles` allow it: a
crash in the preflight checks (the status is not in `ProcessingJobRehydrator.InFlightStatuses`), and
a recording deleted before the run updates it.

### Proofs

`ProcessingJobsProofs` proves, for any sets
of jobs, recordings and requests and any bounds, from the named assumptions on the constants alone:

- `TypeCorrect`: `Spec => []TypeOK`.
- `QueuedStaysScheduled`: `HangUps = FALSE => (Spec => []QueuedIsScheduled)`. The strengthening is
  `CopyKnown`: a run whose copy still says Queued has not written the job yet. So a queued row is
  either new, retried or rehydrated - each with its trigger or its request - or held by such a run.
- `OutcomesStand`: `Spec => OutcomeStands`, from `RunsKnown`: while a job shows an outcome its run is
  at its end or about to repeat it (`AtItsEnd`).
- `DoneWasAnnounced`: `Spec => []DoneMeansAnnounced`. Whatever makes a run finish - the stage's row, the
  snapshot of completed stages, the open stage, the target of the transition, the copy of the row -
  must stand for a note announced, across crashes and retries: `ExportKnownOf` says so for each.
- `NothingStoredTwice`: `Spec => []StoredOnce`: no run transcribes, saves or announces over a finished
  row of that stage. It is about two moments and rests on the order of the whole run (`InOrder`): a
  stage whose row says done is in the snapshot the run took or lies behind it, so what it is about to
  enter is neither. Only a run adds "done", and only to the stage it has open; a retry takes it away.
- `ResumeFinds`: `Spec => []ResumeFindsTranscript`. `TranscriptKnown` says of everything that lets a run
  pass by its transcribing stage - the row, the snapshot, the open stage - that it stands for a stored
  transcript or a skip.
- `InFlightHasRun`: `Spec => []InFlightIsRun`. `LeavesNothing` follows the run to its end: at `publish`
  and `unregister` the job is settled, or stranded as `Stranded` says; the way there is the last copy it
  writes (`Finish`, `pauseWrite`) or the export during which the recording went (`InExport`).
- `InductiveInvariant`: `Spec => []IInv`, the conjunction TLC checks in `jobs`, with the three above.

Each is proved from a lemma per actor (worker, request, process), one step per action. Every invariant
the runs check of this module is proved. Only model-checked: `QueuedSettles` (liveness, out of the
prover's reach) and the violations.

## 3. `ModelDownloads`: the downloads manager

`ModelDownloads` models the mutations `downloadModel` and `cancelModelDownload`, the task each
download runs as, and the files it writes. `DownloadLifecycle` is what clients are promised: the
states of `docs/runbooks/model-downloads.md`, at most `MaxConcurrent` transfers at once, and a model
installed when its download is Completed.

A request `d` that finds no active download *is* the download `d` from then on: `w[d].pc` walks
through the mutation (`Ask`, `LookUp`, `Add`) and then the run (`AcquirePermit` ... `Release`). The
look-up and the save of the row are separate steps, and so are the save of Failed and the deletion
of the partial file (`MarkFailed`, `DeleteFailed`), the check of a cancellation and its signal
(`CancelRead`, `CancelSignal`), measuring the partial file and opening it (`Measure`, `Open`).

| Variable | Code |
|---|---|
| `row` | table `DownloadJobs`: state and error kind; `Fatal` stands for NotFound and Unknown |
| `partial`, `dest` | contents of `<destination>.partial` and of the destination, a sequence of chunks `<<model, number>>`, or `NoFile` |
| `w` | request and run: place, attempt, offset of the Range header, chunks received, and what its open handle refers to |
| `permits` | the semaphore |
| `cancelled`, `accepted` | cancelled tokens; history: cancellations answered without an error |
| `stopping`, `crashes` | the host's stopping token, ends of the process |

`PathOf` is `ResolveDestination`: the last segment of a model's URL, which two entries of the
catalogue share. Files behave as on macOS and Linux: `FileShare.None` keeps a second stream from
opening the partial file, but neither a move nor a deletion is stopped by an open handle, which then
refers to the moved file (`dest`) or to none that has a name (`gone`). `Copy` writes at the end of
whatever the handle refers to; a stream opened to resume appends, any other truncates.

`Stop` is the host's stopping token, to which every download's is linked; `Restart` is the end of the
process, after a stop or not: rows and files stay, runs are `lost`, and nothing reconciles them.

`Asks` says when clients ask for a model that was asked for before: `"any"` time (a double click, two
windows), once it is `"answered"` by an outcome (the Retry button), or once the run has `"ended"`.

*Abstractions.* A file has `Length` chunks; servers announce the length and honour Range, and refuse
a Range past the end (416). Saves of rows do not fail. The SHA check is not in the module: the only
caller passes no hash. Progress events, their throttling and `StreamAsync` are left out.

| Run | Instance | Shows |
|---|---|---|
| `downloads` (`MCModelDownloads.cfg`) | 3 downloads of 1 model, `"ended"`, 1 permit, 1 retry, 2 chunks, 1 stop or crash | `CompletedIsWhole`, `ResumesOnlyTransient`, `LifecycleSpec` (refinement of `DownloadLifecycle`) |
| `downloads_any` | 2 + 1 downloads of 2 models, `"any"`, 2 permits, 1 stop or crash | `TypeOK`, `PermitsConserved` |
| `downloads_settle` | 2 downloads, `"any"`, 1 permit, 2 retries, fairness | `ActiveSettles` |

What the code does not keep; TLC finds each violated:

| Configuration | Violated |
|---|---|
| `DownloadsSameFile.cfg` (2 models, one path) | `CompletedIsWhole`: the second model is completed on the first one's bytes, without any race |
| `DownloadsQueuedCancel.cfg` | `CancelledLeavesNothing`: a cancel in the queue leaves an earlier partial file |
| `DownloadsRetry.cfg` (`"answered"`) | `CompletedIsWhole`: the failed run deletes its successor's file, and moving a missing file is no error |
| the same with `Asks = "any"`, `Downloads = {d1, d2}`, `MaxConcurrent = 2`, `MaxCrashes = 0` | `CompletedIsWhole`: of two runs on one file the loser deletes the winner's |
| `MCModelDownloads.cfg` with `Downloads = {d1}`, `MaxRetries = 0`, `MaxCrashes = 0`, property `CancelHonoured` | success is answered, the download completes |

*Bounds.* Two chunks tell a resumed file from a fresh one and from a mixture; three downloads of a
model are a failure, a resumption and what that leaves; one retry distinguishes an attempt that
resumes from one that gives up. `downloads_any` has one chunk and no retry: permits do not depend on
the content, and two permits with three downloads make one wait.

*Fairness.* Weak fairness of each run and of each request's look-up and save: tasks are scheduled,
and an exchange with the server goes on, ends or breaks. For the headers that is the client's
timeout; a body that stalls for ever has no limit in the code, so this is an assumption about the
network. Nobody is obliged to ask or to cancel. A restart ends the promise: `ActiveSettles` is
checked without one, because rows of lost runs stay active (the runbook has an operator fix them).

*Proofs.* `ModelDownloadsProofs`, for any downloads (finitely many), catalogue, paths and bounds:
`PermitsAreConserved` (`Spec => []PermitsConserved`) and `DownloadsTypeCorrect` (`Spec => []TypeOK`).
The inductive invariant is `PermitsInv`: the type of the files needs `HandlesOpen` (one appends to a
file that exists), and the bound on `permits` needs their conservation. `PlacesOfRun` is the heart:
no step but taking and releasing the permit moves a run across the semaphore.

Its second part proves what the runbook promises of the files, under `NoSharing`: a model is
asked for again once its last run has ended (`Asks = "ended"`), and no two models have one file name.
Both halves are needed: `DownloadsRetry.cfg` and `DownloadsSameFile.cfg` drop one each and violate
`CompletedIsWhole`. Then `CompletedModelIsWhole` (`Spec => []CompletedIsWhole`), `OnlyTransientResumed`
(`Spec => []ResumesOnlyTransient`) and `ImplementsLifecycle` (`Spec => LifecycleSpec`: the first state
and every step map to one of `DownloadLifecycle` or to a stutter). `FilesInv` is the strengthening:
of a model's downloads one is busy at most (`OneRunPerFile`), a row fits the place of its run
(`RowFits`), the partial file holds the chunks from the first on of the one model that writes it
(`PartialFits`), the destination is absent or whole (`DestFits`), and what an ended download left
tells how it ended (`OriginKnown`). TLC agreed on `FilesInv` with the instance of `downloads` and with two
models of two downloads, before it was proved. Only model-checked: `ActiveSettles` (liveness) and
the violations.

## 4. `ServiceSupervisor`: the shell's child processes

`serviceSupervisor.ts` starts the registered services one after the other, checks each on a timer,
restarts what does not answer and stops all of them before the program ends. The launchers hold one
process handle per service in a module variable. Every await is a step boundary; a health tick is an
asynchronous body that later ticks do not wait for, so several of one service may be under way
(`flow[s][f]`).

| Variable | Code |
|---|---|
| `managed`, `globalStopped` | the supervisor's map: stopped, running, timer, restart count; its stop flag |
| `flow`, `boot`, `quit`, `restart` | where each health tick, `app.whenReady`, `before-quit` and the sidecar's restart stand |
| `handle`, `waiting` | the launchers' module variables; the child each pending stop waits for |
| `proc` | the children: which service, who spawned it, alive, its exit seen by Node, signalled |

`Boot` is `app.whenReady` with `startAll`, `Health(s)` the tick with `handleUnhealthy`, `Settings` the
backend's settings event that restarts the search sidecar without the supervisor (`restartSearxng`),
`Quit` `stopAll` and `app.exit`; `Die` and `ExitEvent` are the operating system and Node.

The launchers stop in two ways. Python's, SearXNG's and the backend's send SIGTERM and wait for the
exit or the end of the grace. Syncthing's (`Gentle`, `syncthingLauncher.ts:77`) asks it to shut down
over HTTP, sends SIGTERM once that is answered, and returns without waiting; its exit handler clears
the handle whatever it holds by then. So a restarted Syncthing may be overtaken by its predecessor's
exit: its handle is cleared and no later stop finds it. `told` marks a child whose end was asked for
or signalled, `killed` one that was signalled, `crowded` one that was spawned while another child of its
service had not ended.

*Abstractions.* A check may fail at any time, and must when no child of the service lives.
`cleanupZombies` is one step. Reports to the backend (`publishStates`) are left out; so is a quit
before `startAll` was called. `Punctual` names services whose children exit within the grace, so
that the stop and the back-off of one restart end before the next failing check of the service
(checks come every 10 s; the grace is 5 s at most and the back-off 1 s): the second half of
`NoChildLost` is about them, everything else needs nothing of it. The settings events may overlap
with each other and with the health ticks.

| Run | Instance | Shows |
|---|---|---|
| `shell` (`MCServiceSupervisor.cfg`) | Syncthing, SearXNG and the backend, 1 tick each, 4 children, 1 restart, 1 settings event, a quit at any time (1 044 372 states) | `TypeOK`, `NoChildLost`, `ExitReachesChildren` |
| `shell_settles` (`ShellSettles.cfg`) | SearXNG and the backend, 2 overlapping ticks, children that may outlive the grace, fairness (303 093 states) | `RestartBudget`, `QuitEnds`, `CrashIsNoticed` |

*Bounds.* `MaxRestarts` is 3 in the code; 1 is enough for two ticks to compete for the last restart
and for a service to be given up. A service needs at most its first child, one restart and one of
the settings event; the children are shared. Python's sidecar is like SearXNG without settings
events; only the proofs have it beside the others.

*Fairness.* Timers fire, awaits return, exit events are delivered and a child that was signalled
ends. No child has to crash and no check of a live child has to fail. `softShutdown` has no timeout, so
no fairness is assumed of the steps that follow it, and `shell_settles` has no `Gentle` service.

*Proofs.* `ServiceSupervisorProofs`, for any services of both kinds, ticks, children, settings events and
bounds (finitely many ticks and children): `SupervisorTypeCorrect` (`Spec => []TypeOK`) and
`RestartsBounded` (`Spec => []RestartBudget`). The budget alone is not inductive: a tick counts its
restart before the stop and the back-off, and spawns after them. `RestartsCounted` closes the gap: what
the ticks have spawned and the ticks that are on their way to a spawn are together no more than the
count. `TickSpawns` and `OthersSpawn` say which steps add to the first, `FlowMoves` which move the
second; `AwaitsRegistered` keeps the index of an awaited start inside the list.

The children: `NoChildIsLost` (`Spec => []NoChildLost`) and `ExitReaches`
(`Spec => []ExitReachesChildren`), with no hypothesis but those inside the properties. The invariant
`ChildrenInv` has two layers. Of every service (`ChildrenRight`): a handle holds a child that has not
ended (`HandlesHold`), a child that has not ended is in its handle, was told to end, or belongs to a
crowded service (`HandlesKnow`), two such children make the service crowded (`CrowdsKnown`), and a stop
is about a child it told (`WaitsRight`, `FlagsRight`). Of a `Calm` service, whose stop waits and that no
settings event restarts: it is never crowded (`CrowdsRight`), because a tick that restarts has emptied
the handle and waits for its child, alone (`RestartsRight`), and what was signalled is in no handle
(`SignalsRight`). Start-up comes to a service nobody has started or watches (`StartUpRight`), and once
the quit has begun a stopped service's handle stays empty (`QuitRight`). TLC checked `ChildrenInv` on
the instance of `shell` before it was proved. Only model-checked: `QuitEnds`, `CrashIsNoticed`
(liveness) and the violations.

What the code does not keep:

| Configuration | Violated |
|---|---|
| `ShellQuit.cfg` | `NothingStartsAfterStopAll` (what `serviceSupervisor.test.ts:139` says): a `startAll` that was awaited goes on after `stopAll`, and its children outlive the program |
| `MCServiceSupervisor.cfg` with `Events = {}`, invariant `NoChildEverLost` | Syncthing, told to shut down by a restart, outlives the back-off; its exit clears the handle of its successor (`syncthingLauncher.ts:58`), which nothing stops any more |
| `ShellQuit.cfg` with `Punctual = {}`, invariant `OutlivedGraceIsKilled` | Node sets `killed` when SIGTERM was sent, so SIGKILL after the grace is never reached (`backendLauncher.ts:176`) |
| the exceptions of `NoChildLost` | two settings events, or one and a health tick, may both spawn a sidecar: the handle keeps the second only |

## 5. The desktop shell records: `DumpMode`, `Dictation`, `HotkeyBindings`

The shell keeps two native helpers, processes that report keys, capture files or the microphone and
type text. `HelperClient` models `NativeHelperClient`: a pipe of requests, the table of promises, the
lines that were printed and not read; a helper's exit rejects what is pending. `Overlay` models
`OverlayWindow` with its timer. Both are operators on records; the modules below own the state.

- `DumpMode`: `DumpModeOrchestrator` (toggle key, hold key, capture, stop, import) and
  `RecordingBridge`, through which the backend records on the same helper. `dump` holds the
  orchestrator's fields, `dumpStreams` its open event streams, `bridge` the bridge's table,
  `recorder` the client, `recorderHelper` the helper, `imports` the mutation `importRecordings`.
- `Dictation`: `DictationOrchestrator` with the backend's `DictationSessionManager`. A session is named
  after the press that asked for it; `pressing[n]` and `releasing[n]` are where the two handlers stand
  at their awaits, `manager` is the active session, the table and what was finalised. `Faults` lists
  what may go wrong: the helper answers the start of a capture, its stop or the text with an error, a
  stop throws, a request fails, the UI has a session, the helper dies.
- `HotkeyBindings`: the three unawaited functions of `main.ts` that fetch the settings from a backend
  that may not be up and bind keys, over Electron's registry and the helpers. Which of the
  orchestrators and helpers they find (`main.ts:398`, `:499`, `:566`) is `chosen.ready`.

The routes `/api/dictation/...` the orchestrator calls are served by no controller of the backend at
this commit, and the Swift helper speaks gRPC where the client writes JSON lines. `Dictation` models
what the TypeScript is written for: calls of the manager, which may also fail, and a helper that
answers, refuses or does not. `backendFetch` does not look at the status (`DictationOrchestrator.ts:240`):
an error body of the start is a session without an id, one of the stop is a transcript without a text,
for which the sound of success is played and `inject.text` is sent without a text, which the helper
refuses (`TextInjectionService.swift:18`). Permissions, the choice of the device, the texts, the
renderer's calls `dictation:inject` and `record:start` (`main.ts:304-329`) and the mouse-button monitor
are left out.

A release may begin while the capture of its own press is being refused: both handlers then clear the
orchestrator's one pair of fields, whoever holds them by then. `faulted` records that this happened
(`"overlap"`), and the properties of dictation that do not survive it say so (`Orderly`); every other
fault they are checked and proved with.

`MCDesktop` explores the three parts side by side: they share no state, so `part` chooses the one that
runs and every property is that of each part.

| Run | Instance | Shows |
|---|---|---|
| `desktop` (`MCDesktop.cfg`) | 2 sessions and 1 of the backend; 2 presses with every fault; 2 keys, any settings that matter (`Relevant`), any of the orchestrators missing, 2 attempts; fairness (467 517 states) | `DesktopTypeOK`, `ImportedWhenClosed`, `RecordingsCanEnd`, `RecordingIsShown`, `InjectedIsFinal`, `SessionFollowsPhase`, `KeysAreBound`, `DesktopSettles` |

*Bounds.* Two sessions or presses are one recording and its successor, which is what the late answer,
the `finally` and the overlay's timer of the first meet. Two unread lines let a release overtake the
answer to its press. Eight attempts behave like two: one fails, one is the last.

*Fairness.* A helper answers what it was sent or dies, its exit is delivered, a request ends, the
start-up functions are scheduled. Nobody has to press a key.

*Proofs: dump mode.* `DesktopProofs`, for any number of recordings and sessions of the backend and any
bounds: `RecordingImportedOnce` (`DesktopSpec => []ImportedWhenClosed`) needs no hypothesis;
`EveryRecordingCanEnd` (`DesktopSpec => []RecordingsCanEnd`) needs a helper that refuses no start
(`~StartsFail`; the table below has what happens with one). First come lemmas about the client that both
orchestrators use: a request is in the pipe, answered on a line nobody has read, or answered for good
(`OnItsWay`, `Answered`, `Ahead`), and `SendEffect`, `HandledEffect`, `PrintedEffect`, `LineReadEffect`,
`ExitedEffect` and `StoppedEffect` say what each operation does to that. `DumpInv` is the invariant over it:
a session nobody drew has left no trace (`NothingBeforeDrawn`), a stop is sent once (`StoppedOnce`) and
after its start (`StartBeforeStop`), so the answer to a stop, which alone leads to an import, means a closed
file and comes once (`ImportsOnce`); a dead helper says and holds nothing (`DeadIsSilent`); the bridge
forgets a session only with its capture (`BridgeKeeps`); a key that is up has its release on the way
(`HeldRecordingEnds`); and where no start is refused an open capture is the current session's
(`AllIsCurrent`).

*Proofs: dictation.* For any number of presses and all faults together:
`FinalTextTypedOnce`, `SessionStaysOwned` and `RecordingStaysShown` (`[]InjectedIsFinal`,
`[]SessionFollowsPhase`, `[]RecordingIsShown`). The orchestrator has one pair of fields for any number of
handlers at their awaits, so `VoiceInv` has layers, each as strong as the disorder allows. Always: a
press is released once (`ReleasedOnce`), a handler that awaits has its request pending
(`WaitsForAnswer`), a text is typed once (`TypedOnce`), a dead helper holds no microphone
(`DeadMicIsSilent`). While no release overlapped the refusal of its press (`Orderly`, `OneSessionInv`):
one press is under way and its place fits the phase, every request is answered once, and the active
session is the current press's or one whose own call failed. While moreover the helper refused no stop
(`MicOrderly`, `MicrophoneInv`): an open microphone belongs to the press that records or stops. TLC
checked `DumpInv` and `VoiceInv` with 2 presses and every fault before they were proved. The proof found
`CuesAlternate` too strong as it had been stated, without its condition: 2 presses cannot show it, 4 can
(last row of the table below).

*Proofs: keys.* For any keys, settings and number of attempts: `KeysStayBound`
(`DesktopSpec => []KeysAreBound`). A key of the registry may be taken from another function, so the
invariant needs whose key it can be (`DumpTakesItsToggle`: the dump mode holds no key but its toggle
and asks a helper only when it is on), that the dictation asks only about a key the user chose
(`DictationAsksForKey`), and that a function that still fetches has an attempt left (`AttemptsLeft`).
The other two parts leave these variables alone. `DesktopTypeCorrect` (`DesktopSpec => []DesktopTypeOK`)
joins the types of the three parts. Only model-checked: `DesktopSettles` (liveness) and the violations.

What the code does not keep (`MCDesktop.cfg` with the changes named):

| Changes | Violated |
|---|---|
| `Parts = {"dump"}`, `StartsFail = TRUE`, `DesktopSpec` | `DumpLeavesNothingOpen`: the stop of a capture that was refused fails, and its error path resets the fields of the next session, whose capture nobody will stop |
| `Parts = {"dictation"}`, `Faults = {}`, `DesktopSpec` | `RecordsOnlyWhileHeld`: a tap is released before the session is open, and recording starts afterwards |
| `Parts = {"dictation"}`, `Faults = {"renderer"}`, `DesktopSpec` | `RecordingHasSession`: an error body of the start is taken for a session without an id, which no release stops |
| `Parts = {"dictation"}`, `DesktopSpec` | `NothingLeftActive`: after a capture that was refused or a stop that threw the session stays active, and every later start is refused |
| `Parts = {"dictation"}`, `DesktopSpec` | `FailuresStayApart`: the `finally` of one session resets the fields of the next |
| `Parts = {"dictation"}`, `DesktopSpec` | `DoneMeansFinal`: the sound of success for an error body |
| `Parts = {"hotkeys"}`, `DesktopSpec` | `DumpToggleIsHeard`: `unregisterAll` of the dictation takes the dump mode's key away |
| `Parts = {"hotkeys"}`, `DesktopSpec` | `DefaultIsKept`: with no key chosen the log announces the default one, and nothing registers it |
| `Parts = {"dictation"}`, `Presses = {1, 2, 3, 4}`, `Faults = {"capture"}`, `DesktopSpec`, `CuesAlternate` without `Orderly` | two recordings begin to sound in a row: the late end of a refused capture's release resets the next press's phase without a sound |

## 6. The store of the user interface: `Sagas` and the pages

The React UI keeps its data in redux slices; redux-saga tasks call the backend over GraphQL and put
actions. `Sagas` is the engine every page shares: `Dispatch` (a component's handler: reducers, then
watchers), `Effect` (a component's effect), `takeEvery`, `takeLatest`, a request in flight
(`gqlRequest`, `Answer`, `Halfway`, `Unreached`), `Resume` (the saga goes on with its answer),
subscriptions (`gqlSubscriptionChannel`, `Connect`, `Disconnect`, `Broadcast`, `Take`, `Ended`) and
`Outside` (the backend changes by another hand). What a saga does between two yields is one step. The
backend executes a request at any moment of its flight; answers come back in any order.

| Variable | Code |
|---|---|
| `ui` | the slice's redux state, with the React state (draft, refs, what is mounted) its handlers read |
| `tasks` | the running sagas: their request, its answer, or the channel they read |
| `srv` | what the backend, the disk or the other program holds of this page |
| `toast` | the last notification |
| `drift`, `broken` | ghosts: the last load was overtaken or an answer lost; a request or socket failed |
| `moves` | bound on dispatches and outside changes |

A page is a module that EXTENDS the engine (or, where it reads another's slice, that page): its
reducers under the code's names, one operator per saga with the actions it puts, its handlers and
effects as dispatches, and the resolvers and services its requests reach. Each has a next-state
relation and its own properties.

| Module | Page and backend |
|---|---|
| `NotesStore`, `ProfilesStore`, `PromptsStore`, `RoutinesStore` | lists, editors, the prompt's test runner, the routine switches, with the mutations that answer them |
| `RecordingsStore` | the home list with live transcripts, import, deletion, opening of a note |
| `JobsStore` | the job list, seeded by a query and kept by the progress subscription |
| `ModelsStore`, `OnboardingStore` | catalogue, downloads drawer with a stream per download; the onboarding steps with their probes over the same slice |
| `DictationStore`, `DevicesStore` | the dashboard's dictation with microphone and session; the frames of the hotkeys, device changes, health |
| `SettingsStore`, `ObsidianStore` | the Settings page with draft, autosave timers and its tables of fields; the vault, its wizard and diagnostics over the same slice |
| `SyncStore` | Syncthing's status, pairing, event stream and conflict files |
| `AskStore`, `BackupsStore`, `MonitoringStore` | questions and reindexing, archives, the runtime state and its reconnecting subscription |

`MCStore` starts one page at a time: the slices share the engine and no data, but for the two pairs
above, where one module extends the other. Its properties collect what the pages say.

| Run | Instance | Shows |
|---|---|---|
| `store` (`MCStore.cfg`) | every page, at most 3 sagas at once, 2 to 5 moves beside the page's first load, one failing request or socket | `StoreTypeOK`, `StoreShown`, `SpinnersEnd`, `StreamsFollowed`, `WritesAreMeant`, `DictationOwned`, `PreviewsOK` |

*Bounds.* `Failing = "once"` lets any one request or socket fail, before or after it was executed;
two failures in a row add no state a page distinguishes, for a failure only clears marks. The moves
are per page (`PageMoves`): two operations that cross, a change from outside and a reload. Three tasks
are two requests that cross and the stream (2 298 893 states in all). The settings have one field of each way the page saves
(typed, saved on blur, at once, picked): the page's three tables of fields (the cards, `allFields`,
the focus map) agree on all 44 of them; the page's further fields behave like one of these.

*No fairness.* `SpinnersEnd` is an invariant, "a mark is set only while a saga that will clear it
runs": it says more than a liveness property and does not lean on the network.

*Proofs.* A page's tasks are a sequence, which watchers and answers rewrite with folds of an
operator that is passed to them. Four modules lead to the theorems.

- `PutsProofs` says what a fold of one, two or three puts computes, and of one put more. An operator
  cannot be passed to a theorem, so it is a constant of this module, instantiated with each
  reducer and each watcher. The fold is defined by a choice among functions on the subsets of
  `1 .. n`, and that such a function exists is shown by induction over `n`, in the form the provers
  can use: the numbers a statement holds of are a set with 0 and the successor of each member
  (`NaturalsInductive`).
- `SagasProofs` is about the engine, for any tasks: what `takeEvery` and `takeLatest` add and cancel
  (`Joined`), what an answer delivered, late or lost leaves (`HandedOver`), and what remains when a
  saga resumes (`Without`). Each relates the new sequence to the old by a one-to-one map of the
  indices, so that a statement about every task, or every two, is carried over by an instance of it.
- `PagesProofs` has an invariant per page and one lemma per handler, answer and saga. `PromptsInv`: at most
  one preview runs and none while a rendering is shown (`OnePreview`); while nothing failed or was
  refused, a deletion under way has its mark and is alone (`MarkedDeletes`). `RoutinesInv`: the same of runs.
  `SettingsInv`, `ObsidianInv`: no snapshot, loaded, answered, drafted, about to be saved or in
  the backend, has the default in a field that is kept (`Kept`: every field but the cache lifetime, as
  long as no save was sent before the settings were loaded, which the ghost `ui.early` records). `DictationInv`: while the page is calm (no failure,
  no second start, no second cancel, not left), every task is as its press sent it and no two of them
  clash (`Crowd`); phase and session of the dashboard agree with them (`Dashboard`); the backend's
  active session is the dashboard's, or in an answer under way, or what a stop or cancel still to
  execute will end (`Owned`); and while the dashboard is stopping, a stop of its session is
  under way or that session has ended (`Stopping`).
- `StoreProofs` joins the pages: only the page that was started moves.

TLC checked each invariant before it was proved, on instances wider than the run's (the dictation with
10 moves: 9 186 843 states). That is how `OneDeletePerTemplate` was found too strong as it had been
stated, without its condition on refused deletions (first row of prompts below). None of the three
theorems assumes anything of the constants beyond their types.

*Conditions.* The properties carry the conditions the code needs (`~drift`, `~broken`, "at rest"):
`StoreShown` is about a page at rest whose last load was not overtaken and of which no request failed;
`SpinnersEnd` exempts the sync page's loads that were answered with null (`srv.down`: H34's case, stated by
`SyncLoadsEnd`); `WritesAreMeant` exempts the cache lifetime, which every save resets (`TtlIsSaved`), and
the snapshots sent before the settings were loaded.
For most of them the module also states the property without; those are the findings below. To see
one, run `MCStore.cfg` with `Pages` reduced to the page and that property alone.

| Page | Violated | What happens |
|---|---|---|
| notes | `DeletedStaysGone` | a load answered before a deletion and taken after it brings the note back |
| profiles | `OneDefaultStored` | two saves both demote before either writes (`ProfileMutationType.cs:144`) |
| | `OneDefaultShown` | the answer replaces the saved row only, the demoted one keeps its mark |
| | `SavesTheDraft` | the Whisper prompt has no field in the mutation's input |
| prompts | `OneDeletePerTemplate` without its conditions (6 moves) | a load that was overtaken shows a deleted template again; the second deletion is refused, and its failure clears the marks of all (`prompts/reducer.ts:88`): a template whose deletion is under way can be deleted again |
| routines | `SwitchesShown`, `OneRunEver` | two switches overwrite each other's file; one failure clears the marks of all |
| jobs | `JobsShownEver` | an event between the query and the connected socket is lost for good |
| | `RetryIsOffered` | the worker names stages as they run ("Transcribing audio", `ProcessQueueWorker.cs:235`), the timeline compares with ADR-EE-002's names (`JobTimeline.tsx:201`), and no route mounts it |
| models | `OldEntryIsFollowed` (`OldDownloads = {d1}`), `JoinedEntryIsFollowed` | a download that ran before is listed and not subscribed; two consumers of one queue |
| recordings | `UploadingShown`, `OpenNoteEnds` | one flag for two uploads; the saga that opens a note is forked by no root (`rootSaga.ts:50`) |
| | `DeletedIsGone` (`Failing = "always"`) | a deletion that failed is announced as done when the backend's unavailability has emptied the list |
| dictation | `SessionIsOwned`, `MicrophoneIsReleased` | a second start, a lost answer or leaving the dashboard leaves a session or a stream behind |
| devices | `NoFrameIsReplayed` | the dashboard, mounted again, acts on the last press once more |
| settings | `EditsAreSaved` | the answer of an earlier save replaces a draft typed since |
| | `TtlIsSaved` | the cache lifetime is sent by no mutation |
| | `ModelsFitEndpoint` | the models are asked for before the endpoint is saved |
| | `NoSettingIsEverReset` | an edit before the load sends the defaults of all other fields; every save resets the cache lifetime |
| sync | `SyncLoadsEnd` | a saga that is answered `null` puts nothing (`slices/sync/saga.ts:78`) |
| | `PageListens`, `LiveIsTrue` | closing the pairing panel stops the page's stream (`Sync.tsx:35`) |
| | `AcceptedIsNotPending` | a second acceptance cancels the first one's saga |
| | `ConflictFilesAreShown` | the page asks for the folder's id where a path is meant (`Sync.tsx:43`) |
| obsidian | `ReinstalledIsInstalled` | a reinstallation whose downloads failed reports success (`VaultSidecarOrchestrator.cs:147`) |
| | `ReportIsCurrent` | set-up and the wizard change the vault and fetch no report |
| | `VaultPickNeverResets` | a vault picked before the load resets the other settings |
| onboarding | `CompletionIsRemembered` | the flag is written to the local storage and read by nothing |
| | `[][ModelsStepHolds]_vars` | the step can be left before the catalogue is loaded |
| | `OneDownloadPerModel` (`DownloadsAgain = TRUE`) | "download all" can be pressed twice |
| ask | `AnnouncedIsIndexed`, `[][IndexMovesOn]_vars` | errors in the payload are ignored; two reindexings interleave |
| backups | `ListedIsWhole`, `AnnouncedIsListed` | a failed archive stays listed; a second one in the same second replaces the first |
| monitoring | `LeftIsUnsubscribed`, `SubscribedIsTold` | leaving is heard only while the channel is open |
| | `ProbeIsRemembered` | after a failed probe the cached capabilities still say online |

Further observations, met while translating: the live SQLite file is copied into a backup without its
write-ahead log; `publishElectronServices` (`main.ts:217`) selects a field its payload lacks, so the
list of services is always empty; the monitoring page shows "gave up" only if no state was ever
known; Syncthing's event ids start anew after its restart while the backend keeps the last one it
saw; the wizard is not reset for another vault; `?focus=profiles` (`App.tsx:113`) is in no table of
the settings; the answer and error events of the ask overlay are sent by nobody.

*Abstractions.* The backend always answers a save of the settings with the settings, so the branch for
an answer without them (`saveSettingsSaga.ts:137`) is left out. The web-search configuration is saved in two
steps, a snapshot and a write (`WebSearchMutationType.cs:28-30`), between which another save is lost;
nothing tells the page, so `SettingsShown` counts it as a drift. Data is reduced to what the properties
tell apart: a profile to the fields that take
different ways, a note to its export mark, a vault to what the diagnostics look for, an archive to
whole or partial. The effects a mount fires come before anything else. The Settings page stays
mounted; its search, which hides categories, is left out. Texts, bytes, speeds and validation
messages are left out.

## 7. What is proved, what is checked

| Theorem | Says, for all values of the constants | Rests on |
|---|---|---|
| `ProcessingJobsProofs`: `TypeCorrect`, `QueuedStaysScheduled`, `OutcomesStand`, `DoneWasAnnounced` | types; a queued job has a trigger or a holder; an outcome stands; Done stands for a note announced | `CopyKnown`, `RunsKnown`, `ExportKnownOf` |
| `ProcessingJobsProofs`: `NothingStoredTwice`, `ResumeFinds`, `InFlightHasRun`, `InductiveInvariant` | a run resumes what it finds, stores nothing twice and leaves nothing in flight | `RunInv` |
| `ModelDownloadsProofs`: `PermitsAreConserved`, `DownloadsTypeCorrect` | permits of the semaphore; types | `PermitsInv` |
| `ModelDownloadsProofs`: `CompletedModelIsWhole`, `OnlyTransientResumed`, `ImplementsLifecycle` | a completed model is whole; what is resumed; the runbook's diagram is implemented (under `NoSharing`) | `FilesInv` |
| `DesktopProofs`: `RecordingImportedOnce`, `EveryRecordingCanEnd` | a file is imported once, when closed; every recording can end (no refused start) | `DumpInv` |
| `DesktopProofs`: `FinalTextTypedOnce`, `SessionStaysOwned`, `RecordingStaysShown` | what is typed is final, once and in order; the session and the microphone have an owner; the overlays show what records (order, owners and sounds while `Orderly`) | `VoiceInv`, `DumpInv` |
| `DesktopProofs`: `KeysStayBound`, `DesktopTypeCorrect` | the chosen keys work, and no key of a dump mode that is off; types of all three parts | `KeysInv` |
| `ServiceSupervisorProofs`: `RestartsBounded`, `SupervisorTypeCorrect` | restarts stay within what was counted; types | `RestartsCounted` |
| `ServiceSupervisorProofs`: `NoChildIsLost`, `ExitReaches` | a live child is in its handle or was told to end; the quit reaches it (of a service that never had two children at once, as none has whose stop waits and that no settings event restarts) | `ChildrenInv` |
| `StoreProofs`: `DictationLeavesNothing` | at rest no session the dashboard forgot; the microphone is open while a recorder runs (in order) | `DictationInv` |
| `StoreProofs`: `OnlyMeantWrites` | no deletion and no run sent twice (no failure); no chosen setting but the cache lifetime reset by a snapshot sent after the load | `PromptsInv`, `RoutinesInv`, `SettingsInv`, `ObsidianInv` |
| `StoreProofs`: `PreviewsAreCurrent` | the rendering shown is that of the body last asked for | `PromptsInv` |

Every invariant the runs of sections 2 to 5 check is proved. Of the store's properties `StoreTypeOK`,
`StoreShown`, `SpinnersEnd` and `StreamsFollowed` are only model-checked: each is a conjunction over all
sixteen pages, and each page needs an invariant of its own. Liveness (`QueuedSettles`,
`ActiveSettles`, `QuitEnds`, `CrashIsNoticed`, `DesktopSettles`) is only model-checked: fairness is out of
the provers' reach.

## 8. Not modelled

- *Domain events and the Obsidian export* (`ChannelDomainEventBus`, `ObsidianDomainEventConsumer`): from
  `announced` to the file in the vault. Two dangers are known: announcements live in memory only, and
  the consumer's queue drops its oldest entry when it is full.
- *Reprocessing* computes the next version of a note as the pipeline does and can race with it.
- *Slices with one request and one answer* (agent, meeting notes, graph entries), rendering, routing,
  styles, translations; the rag slice's chat, which no page dispatches; creation of pending jobs and
  retries from a stage, which no mounted page offers.
- *Inference and hardware*: whisper, LLM, embeddings, ranking, audio, the Swift helper and the Python
  sidecar; external outcomes stand for them where a module waits for one.
- *Other programs*: Syncthing, Obsidian, SearXNG, LM Studio: their answers and failures only.
- *No behaviour of the running program*: generated GraphQL code, migrations, build and deployment.

Dangers that were met and lead to nothing a property here could tell apart, or that a configuration
above already shows: the late `Progress<T>` callback (`ModelDownloadCoordinator.cs:380`), the open
circuit of the resilience handler (`Program.cs:177`), `unregisterAll` (`globalHotkey.ts:42`), the
mouse-button monitor that `main.ts` never arms.

## 9. Plan

Done: `ProcessingJobs`, `ModelDownloads` with `DownloadLifecycle`, `ServiceSupervisor`, the desktop
shell's recordings and bindings, the store with its pages, and the proofs of section 7. Left, in this
order:

1. `NoteExport`: bus, queue and vault, continuing from `announced`; reprocessing and versions.
2. `JobLifecycle`: the abstract life of a job; `ProcessingJobs` shown to implement it.
3. Pure algorithms against their definitions: chunking and merging of the LLM correction, fusion of
   ranks, scaling of progress.
4. The rest of the store's properties (`SpinnersEnd` first), page by page, over the lemmas of `SagasProofs`.
