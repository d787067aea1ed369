------------------------------ MODULE JobsStore ------------------------------
(* The jobs slice: the list of processing jobs, seeded by a query when the  *)
(* program starts and kept up to date by the job-progress subscription, and *)
(* the controls of the queue, the home list and the job timeline.  The      *)
(* pipeline itself is the module ProcessingJobs; here it is a worker that   *)
(* moves jobs on and publishes each step.  "Transcribing" stands for the    *)
(* five statuses of a running job.  No page creates a pending job, and none *)
(* retries a stage: the only one that would never offers it (see            *)
(* RetryIsOffered).                                                         *)
EXTENDS Sagas, FiniteSets

CONSTANTS
  JobIds, FailedJobs,             \* the jobs there are, and those that had failed at the start
  FailingStages                   \* the stages, as the backend names them, that may fail

Terminal == {"Done", "Failed", "Cancelled"}
JobStatus == Terminal \cup {"Queued", "Transcribing", "Paused"}
\* The step the worker writes into a stage's record, and the stages the timeline looks for.
StageNames ==
  {"Transcribing audio", "Cleaning transcript", "LLM correction", "Summarizing via LLM", "Exporting to vault"}
ORDERED_STAGES == {"Transcribing", "Correcting", "LlmCorrection", "Summarizing", "Exporting"}
NoStage == "none"
\* A job as the list has it: its status, and the stage whose record carries an error.
ProcessingJob == [status : JobStatus, failedStage : StageNames \cup {NoStage}]

initialJobsState == [byId |-> << >>, isStreaming |-> FALSE, lastError |-> FALSE, errors |-> {}]
JobsAction ==
  {"JOBS_SEEDED", "JOBS_SEED_FAILED", "JOB_UPDATED", "JOBS_STREAM_OPENED", "JOBS_STREAM_CLOSED", "CANCEL_JOB",
   "PAUSE_JOB_REQUESTED", "PAUSE_JOB_SUCCEEDED", "PAUSE_JOB_FAILED", "RESUME_JOB_REQUESTED", "RESUME_JOB_SUCCEEDED",
   "RESUME_JOB_FAILED"}

seedJobs(s, jobs) == [s EXCEPT !.byId = jobs, !.lastError = FALSE]
upsertJob(s, id, job) == [s EXCEPT !.byId = (id :> job) @@ @]
jobsReducer(s, a) ==
  CASE a.type = "JOBS_SEEDED" -> seedJobs(s, a.jobs)
    [] a.type = "JOBS_SEED_FAILED" -> [s EXCEPT !.lastError = TRUE]
    [] a.type \in {"JOB_UPDATED", "RESUME_JOB_SUCCEEDED"} -> upsertJob(s, a.id, a.job)
    [] a.type = "JOBS_STREAM_OPENED" -> [s EXCEPT !.isStreaming = TRUE]
    [] a.type = "JOBS_STREAM_CLOSED" -> [s EXCEPT !.isStreaming = FALSE]
    [] a.type = "PAUSE_JOB_SUCCEEDED" /\ a.id \in DOMAIN s.byId ->
         [s EXCEPT !.byId[a.id].status = "Paused", !.errors = @ \ {a.id}]
    [] a.type = "PAUSE_JOB_FAILED" -> [s EXCEPT !.errors = @ \cup {a.id}]
    [] OTHER -> s

watchJobsSagas(ts, a) ==
  CASE a.type = "CANCEL_JOB" -> takeEvery(ts, gqlRequest("cancelJobSaga", a.id))
    [] a.type = "PAUSE_JOB_REQUESTED" -> takeEvery(ts, gqlRequest("pauseJobSaga", a.id))
    [] a.type = "RESUME_JOB_REQUESTED" -> takeEvery(ts, gqlRequest("resumeJobSaga", a.id))
    [] OTHER -> ts

(***************************************************************************)
(* The sagas.  A refusal is an answer without a job.                       *)
(***************************************************************************)
Refusal == [accepted |-> FALSE]
Accepted(job) == [accepted |-> TRUE, job |-> job]

cancelJobSaga(t) == << >>         \* neither the payload's errors nor a failure is shown
pauseJobSaga(t) == << [type |-> IF t.ok /\ t.ans.accepted THEN "PAUSE_JOB_SUCCEEDED" ELSE "PAUSE_JOB_FAILED", id |-> t.arg] >>
resumeJobSaga(t) ==
  IF t.ok /\ t.ans.accepted THEN << [type |-> "RESUME_JOB_SUCCEEDED", id |-> t.arg, job |-> t.ans.job] >>
                            ELSE << [type |-> "RESUME_JOB_FAILED", id |-> t.arg] >>
\* The list is seeded or not; either way the channel is made then, and the consumer forked.
subscribeJobsSaga(t) ==
  << IF t.ok THEN [type |-> "JOBS_SEEDED", jobs |-> t.ans] ELSE [type |-> "JOBS_SEED_FAILED"],
     [type |-> "JOBS_STREAM_OPENED"] >>
consumeJobs == gqlSubscriptionChannel("consumeChannel", Nothing)

jobsPuts(t) ==
  CASE t.saga = "subscribeJobsSaga" -> subscribeJobsSaga(t)
    [] t.saga = "cancelJobSaga" -> cancelJobSaga(t)
    [] t.saga = "pauseJobSaga" -> pauseJobSaga(t)
    [] t.saga = "resumeJobSaga" -> resumeJobSaga(t)

(***************************************************************************)
(* The backend: the jobs with the marks a user's request leaves on a       *)
(* running one.  The worker publishes what it changes.                     *)
(***************************************************************************)
JobsInit(budget) ==
  SagaBoot(initialJobsState,
    [jobs |-> [j \in JobIds |-> IF j \in FailedJobs THEN [status |-> "Failed", failedStage |-> CHOOSE s \in FailingStages : TRUE]
                                                    ELSE [status |-> "Queued", failedStage |-> NoStage]],
     pauseRequested |-> {}, cancelRequested |-> {}],
    << gqlRequest("subscribeJobsSaga", Nothing) >>, budget)

Wanted(t) == TRUE
Published(ts, j, sv) == Broadcast(ts, sv, Wanted, [id |-> j, job |-> sv.jobs[j]])
ProcessJob(j) ==
  LET Becomes(status) == [srv EXCEPT !.jobs[j].status = status]
  IN  \/ /\ srv.jobs[j].status = "Queued"
         /\ Published(tasks, j, Becomes(IF j \in srv.cancelRequested THEN "Cancelled"
                                        ELSE IF j \in srv.pauseRequested THEN "Paused" ELSE "Transcribing"))
      \/ /\ srv.jobs[j].status = "Transcribing"
         /\ \/ Published(tasks, j, Becomes("Done"))
            \/ \E s \in FailingStages : Published(tasks, j, [srv EXCEPT !.jobs[j] = [status |-> "Failed", failedStage |-> s]])
            \/ j \in srv.pauseRequested /\ Published(tasks, j, Becomes("Paused"))
            \/ j \in srv.cancelRequested /\ Published(tasks, j, Becomes("Cancelled"))

Called(i, saga) == tasks[i].saga = saga /\ tasks[i].pc = "call"
QueryJobs(i) == Called(i, "subscribeJobsSaga") /\ Answer(i, srv, srv.jobs)
\* A queued job is cancelled and published before the answer; a running one is marked.
CancelJob(i) ==
  LET j == tasks[i].arg
      status == srv.jobs[j].status
  IN  \/ /\ Called(i, "cancelJobSaga") /\ status = "Queued"
         /\ Published([tasks EXCEPT ![i].pc = "half"], j,
              [srv EXCEPT !.jobs[j].status = "Cancelled", !.cancelRequested = @ \cup {j}])
      \/ tasks[i].saga = "cancelJobSaga" /\ tasks[i].pc = "half" /\ Answer(i, srv, Nothing)
      \/ /\ Called(i, "cancelJobSaga") /\ status # "Queued"
         /\ Answer(i, IF status \in Terminal THEN srv ELSE [srv EXCEPT !.cancelRequested = @ \cup {j}], Nothing)
PauseJob(i) ==
  LET j == tasks[i].arg
  IN  /\ Called(i, "pauseJobSaga")
      /\ IF srv.jobs[j].status = "Transcribing"
         THEN Answer(i, [srv EXCEPT !.pauseRequested = @ \cup {j}], [accepted |-> TRUE])
         ELSE Answer(i, srv, Refusal)
ResumeJob(i) ==
  LET j == tasks[i].arg
      resumed == [srv EXCEPT !.jobs[j].status = "Queued", !.pauseRequested = @ \ {j}]
  IN  /\ Called(i, "resumeJobSaga")
      /\ IF srv.jobs[j].status = "Paused" THEN Answer(i, resumed, Accepted(resumed.jobs[j])) ELSE Answer(i, srv, Refusal)

(***************************************************************************)
(* The pages.                                                              *)
(***************************************************************************)
JobsDo(a) == Dispatch(jobsReducer, watchJobsSagas, a)
\* The timeline offers a retry on the chip of a failed stage, which it finds by name.
showRetryButtons(job, stage) == job.failedStage = stage /\ job.status \in Terminal \cup {"Paused"}
JobTimeline(j) ==
  LET job == ui.byId[j]
  IN  \/ job.status = "Transcribing" /\ JobsDo([type |-> "PAUSE_JOB_REQUESTED", id |-> j])
      \/ job.status = "Paused" /\ JobsDo([type |-> "RESUME_JOB_REQUESTED", id |-> j])
\* The queue and the home list cancel what is not terminal; so does the timeline.
Queue(j) == ui.byId[j].status \notin Terminal /\ JobsDo([type |-> "CANCEL_JOB", id |-> j])
JobsPages == \E j \in DOMAIN ui.byId : JobTimeline(j) \/ Queue(j)

JobsAnswers ==
  \E i \in InFlight : QueryJobs(i) \/ CancelJob(i) \/ PauseJob(i) \/ ResumeJob(i)
JobsResumes ==
  \E i \in InState("back") :
    LET seed == tasks[i].saga = "subscribeJobsSaga"
    IN  Resume(jobsReducer, watchJobsSagas, i, jobsPuts(tasks[i]), IF seed THEN << consumeJobs >> ELSE << >>, seed)
consumeChannel ==
  \/ \E i \in DOMAIN tasks : Buffered(i) /\ LET e == Head(tasks[i].ans) IN
       Take(jobsReducer, watchJobsSagas, i, << [type |-> "JOB_UPDATED", id |-> e.id, job |-> e.job] >>, << rest(tasks[i]) >>)
  \/ \E i \in DOMAIN tasks : Ended(i) /\ Take(jobsReducer, watchJobsSagas, i, << [type |-> "JOBS_STREAM_CLOSED"] >>, << >>)
Worker == \E j \in JobIds : ProcessJob(j)
JobsNext == JobsPages \/ Worker \/ JobsAnswers \/ Dropped \/ JobsResumes \/ consumeChannel \/ Socket

(***************************************************************************)
(* Properties.                                                             *)
(***************************************************************************)
JobsTypeOK ==
  /\ DOMAIN ui.byId \subseteq JobIds /\ \A j \in DOMAIN ui.byId : ui.byId[j] \in ProcessingJob
  /\ ui.isStreaming \in BOOLEAN /\ ui.lastError \in BOOLEAN /\ ui.errors \subseteq JobIds
  /\ \A i \in InState("back") : \A k \in DOMAIN jobsPuts(tasks[i]) : jobsPuts(tasks[i])[k].type \in JobsAction

\* When no request is under way and every event was consumed, the list shows each job as
\* the backend has it, or as paused while the worker has yet to honour the pause, as long
\* as no change fell between the seed and the connected channel and no answer crossed an
\* event.
CaughtUp == InFlight \cup InState("back") = {} /\ ~\E i \in DOMAIN tasks : Buffered(i)
JobsShown ==
  CaughtUp /\ ~drift =>
    \A j \in JobIds : \/ ui.byId[j] = srv.jobs[j]
                      \/ ui.byId[j].status = "Paused" /\ srv.jobs[j].status = "Transcribing" /\ j \in srv.pauseRequested
\* The same without the condition, though no request has failed: the gap before the
\* channel is connected, or an answer that crosses an event, leaves the list wrong for
\* good, for nothing ever loads it again.
JobsShownEver ==
  CaughtUp /\ ~broken /\ InState("dial") = {} =>
    \A j \in JobIds : ui.byId[j] = srv.jobs[j] \/ (ui.byId[j].status = "Paused" /\ j \in srv.pauseRequested)

\* The list claims to be live exactly while the consumer of the channel runs.
StreamingIsTold == ui.isStreaming <=> Running("consumeChannel") # {}

\* A job that is shown as failed can be retried from the stage that failed.
RetryIsOffered ==
  \A j \in DOMAIN ui.byId :
    ui.byId[j].status = "Failed" => \E stage \in ORDERED_STAGES : showRetryButtons(ui.byId[j], stage)
=============================================================================
