------------------------ MODULE ProcessingJobsProofs ------------------------
(* Proofs about ProcessingJobs, for every value of its constants.           *)
EXTENDS ProcessingJobs, TLAPS

USE DEF store, process
USE JobsAssumption, BoundsAssumption

\* The statuses and successors the worker writes are of their types.
LEMMA StatusOfType == StatusOf \in [Targets -> Statuses]
BY DEF StatusOf, Targets, Stages, Statuses, InFlight, Terminal

\* Entering a target, or passing by a completed stage, keeps a run of its type.
LEMMA EnterType ==
    ASSUME NEW v \in Runs, NEW t \in Targets
    PROVE  Enter(v, t) \in Runs
BY DEF Enter, Runs, Pcs

LEMMA EnterUnlessDoneType ==
    ASSUME NEW v \in Runs, NEW s \in Stages
    PROVE  EnterUnlessDone(v, s) \in Runs
<1>1. CASE s \notin v.done
  BY <1>1, EnterType DEF EnterUnlessDone, Targets
<1>2. CASE s \in v.done
  BY <1>2, EnterType DEF EnterUnlessDone, Targets, Runs, Pcs, Stages
<1> QED BY <1>1, <1>2

LEMMA IdleRunType == IdleRun \in Runs /\ NoRow \in Row /\ NewRow \in Row
BY DEF IdleRun, Runs, Row, NoRow, NewRow, Pcs, Targets, Stages, Statuses

LEMMA RequestType == NoRequest \in RequestStates /\ Served \in RequestStates
<1>1. NoRequest \in RequestStates
  BY IdleRunType DEF NoRequest, RequestStates, RequestPcs
<1> QED BY <1>1 DEF Served, RequestStates, RequestPcs

LEMMA TypeInit == Init => TypeOK
BY JobsAssumption, BoundsAssumption
   DEF Init, TypeOK, Row, NoRow, NewRow, IdleRun, NoRequest, RequestStates, RequestPcs,
       StageRows, Runs, Pcs, Targets, Stages, Statuses,
       InFlight, Terminal

\* A step of a run keeps the types.
LEMMA TypeWorkerStep ==
    ASSUME TypeOK, NEW j \in Jobs, WorkerStep(j)
    PROVE  TypeOK'
<1> DEFINE v == w[j]
<1>t. v \in Runs /\ w \in [Jobs -> Runs] /\ job \in [Jobs -> Row]
  BY DEF TypeOK
<1>r. ASSUME NEW u \in Runs PROVE Run(j, u) => w' \in [Jobs -> Runs]
  BY <1>t DEF Run
<1>g. ASSUME NEW pc \in Pcs PROVE Goto(j, pc) => w' \in [Jobs -> Runs]
  BY <1>t, <1>r DEF Goto, Runs
<1>s. ASSUME NEW row \in Row, NEW pc \in Pcs
      PROVE  Save(j, row, pc) => w' \in [Jobs -> Runs] /\ job' \in [Jobs -> Row]
  BY <1>t, <1>r DEF Save, Runs
<1>e. ASSUME NEW u \in Runs, NEW x \in Targets PROVE Run(j, Enter(u, x)) => w' \in [Jobs -> Runs]
  BY <1>r, EnterType
<1>u. ASSUME NEW u \in Runs, NEW x \in Stages PROVE Run(j, EnterUnlessDone(u, x)) => w' \in [Jobs -> Runs]
  BY <1>r, EnterUnlessDoneType
<1>c. ASSUME NEW o \in {"done", "failed"}, CloseStage(j, o)
      PROVE  stage' \in [Jobs -> StageRows]
  <2>1. CASE v.cur \notin Stages
    BY <1>c, <2>1 DEF CloseStage, TypeOK
  <2>2. CASE v.cur \in Stages
    <3>1. PICK others \in SUBSET {"open", "done", "failed", "skipped"} :
             stage' = [stage EXCEPT ![j][v.cur] = others \cup {o}]
      <4>1. stage[j][v.cur] \in SUBSET {"open", "done", "failed", "skipped"}
        BY <2>2 DEF TypeOK, StageRows
      <4> QED BY <1>c, <2>2, <4>1 DEF CloseStage
    <3> QED BY <2>2, <3>1 DEF TypeOK, StageRows
  <2> QED BY <2>1, <2>2
<1>a. ASSUME AddStageRow(j) PROVE stage' \in [Jobs -> StageRows]
  BY <1>a, <1>t DEF AddStageRow, TypeOK, StageRows, Runs
<1>n. NoteOf(j) \in Notes
  BY <1>t DEF NoteOf, Notes, Runs
<1>1. CASE Load(j)
  <2>1. [IdleRun EXCEPT !.pc = "begin", !.row = job[j]] \in Runs
    BY <1>t, IdleRunType DEF Runs, Pcs
  <2> QED BY <1>1, <1>t, <1>r, <2>1 DEF Load, TypeOK
<1>2. CASE Begin(j)
  BY <1>2, <1>t, <1>g DEF Begin, TypeOK, Pcs
<1>3. CASE PauseAtStart(j)
  BY <1>3, <1>t, <1>s DEF PauseAtStart, TypeOK, Runs, Row, Statuses, Pcs
<1>4. CASE ReadStages(j)
  BY <1>4, <1>t, <1>e, <1>g DEF ReadStages, TypeOK, Runs, CompletedStages, Pcs, Targets
<1>5. CASE Reload(j)
  BY <1>5, <1>t, <1>r DEF Reload, TypeOK, Runs, Row, Statuses, Pcs
<1>6. CASE PauseWrite(j)
  BY <1>6, <1>t, <1>s DEF PauseWrite, TypeOK, Runs, Row, Pcs, Targets
<1>7. CASE Write(j)
  <2>1. [v.row EXCEPT !.status = StatusOf[v.to]] \in Row
    BY <1>t, StatusOfType DEF Runs, Row
  <2> QED BY <1>7, <1>t, <1>s, <2>1 DEF Write, TypeOK, Pcs, Targets
<1>8. CASE PreflightPasses(j)
  BY <1>8, <1>t, <1>u DEF PreflightPasses, TypeOK, Stages
<1>9. CASE PreflightFails(j)
  BY <1>9, <1>t, <1>s DEF PreflightFails, TypeOK, Runs, Row, Statuses, Terminal, Pcs
<1>10. CASE LoadTranscript(j)
  BY <1>10, <1>t, <1>u, <1>g DEF LoadTranscript, TypeOK, Runs, Stages, Pcs
<1>11. CASE SetStartedAt(j)
  BY <1>11, <1>t, <1>s DEF SetStartedAt, TypeOK, Runs, Pcs
<1>12. CASE Transcribe(j)
  <2>1. transcripts[RecordingOf[j]] + 1 \in Nat /\ "Cleaning" \in Stages
    BY DEF TypeOK, Stages
  <2>2. [v EXCEPT !.tr = transcripts[RecordingOf[j]] + 1] \in Runs
    BY <1>t, <2>1 DEF Runs
  <2>3. w' \in [Jobs -> Runs]
    BY <1>12, <1>u, <2>1, <2>2 DEF Transcribe
  <2>4. transcripts' \in [Recordings -> Nat]
    BY <1>12 DEF Transcribe, StoreTranscript, TypeOK
  <2> QED BY <1>12, <2>3, <2>4 DEF Transcribe, TypeOK
<1>13. CASE Clean(j)
  BY <1>13, <1>t, <1>u DEF Clean, TypeOK, Runs, Stages
<1>14. CASE LlmCorrect(j)
  BY <1>14, <1>t, <1>u DEF LlmCorrect, TypeOK, Stages
<1>15. CASE Summarize(j)
  <2>1. PICK n \in 1..MaxVersion : Run(j, EnterUnlessDone([v EXCEPT !.ver = n], "Exporting"))
    BY <1>15 DEF Summarize
  <2>2. [v EXCEPT !.ver = n] \in Runs /\ "Exporting" \in Stages
    BY <1>t DEF Runs, Stages
  <2>3. w' \in [Jobs -> Runs]
    BY <1>u, <2>1, <2>2
  <2> QED BY <1>15, <2>3 DEF Summarize, TypeOK
<1>16. CASE AddNote(j)
  BY <1>16, <1>t, <1>g, <1>n DEF AddNote, TypeOK, Pcs
<1>17. CASE PublishNote(j)
  BY <1>17, <1>t, <1>g, <1>n DEF PublishNote, TypeOK, Pcs
<1>18. CASE UpdateRecording(j)
  BY <1>18, <1>t, <1>e, <1>g DEF UpdateRecording, TypeOK, Pcs, Targets
<1>19. CASE Finish(j)
  BY <1>19, <1>t, <1>s DEF Finish, TypeOK, Runs, Pcs
<1>20. CASE EngineFails(j)
  BY <1>20, <1>t, <1>g DEF EngineFails, TypeOK, Pcs
<1>21. CASE LlmTimesOut(j)
  BY <1>21, <1>t, <1>g DEF LlmTimesOut, TypeOK, Pcs
<1>22. CASE ThrowCancelled(j)
  <2>1. stage' \in [Jobs -> StageRows]
    BY <1>22, <1>c, <1>a DEF ThrowCancelled, TypeOK
  <2>2. w' \in [Jobs -> Runs]
    BY <1>22, <1>g DEF ThrowCancelled, Pcs
  <2>3. transcripts' \in [Recordings -> Nat] /\ notes' \subseteq Notes
    BY <1>22, <1>n DEF ThrowCancelled, StoreTranscript, TypeOK
  <2> QED BY <1>22, <2>1, <2>2, <2>3 DEF ThrowCancelled, TypeOK
<1>23. CASE MarkFailed(j)
  BY <1>23, <1>t, <1>s, <1>c DEF MarkFailed, TypeOK, Runs, Row, Statuses, Terminal, Pcs
<1>24. CASE MarkCancelled(j)
  BY <1>24, <1>t, <1>s DEF MarkCancelled, TypeOK, Runs, Row, Statuses, Terminal, Pcs
<1>25. CASE Unregister(j)
  BY <1>25, <1>t, <1>r, IdleRunType DEF Unregister, TypeOK
<1>26. CASE CloseStageRow(j)
  BY <1>26, <1>t, <1>r, <1>c DEF CloseStageRow, TypeOK, Runs, Targets, Pcs
<1>27. CASE OpenStageRow(j)
  BY <1>27, <1>t, <1>r, <1>a DEF OpenStageRow, TypeOK, Runs, Pcs
<1> QED BY <1>26, <1>27, <1>1, <1>2, <1>3, <1>4, <1>5, <1>6, <1>7, <1>8, <1>9, <1>10, <1>11, <1>12, <1>13, <1>14, <1>15, <1>16, <1>17, <1>18, <1>19, <1>20, <1>21, <1>22, <1>23, <1>24, <1>25 DEF WorkerStep

\* A request's step keeps the types.
LEMMA TypeRequestStep ==
    ASSUME TypeOK, NEW r \in Requests, Receive(r) \/ RequestStep(r)
    PROVE  TypeOK'
<1>a. ASSUME NEW j \in Jobs, NEW pc \in RequestPcs, NEW seen \in Row
      PROVE  Accept(r, j, pc, seen) => req' \in [Requests -> RequestStates]
  <2>1. [NoRequest EXCEPT !.pc = pc, !.job = j, !.seen = seen] \in RequestStates
    BY RequestType DEF RequestStates
  <2> QED BY <2>1 DEF Accept, TypeOK
<1>c. ASSUME NEW pc \in RequestPcs PROVE Continue(r, pc) => req' \in [Requests -> RequestStates]
  BY DEF Continue, TypeOK, RequestStates
<1>s. Answer(r) => req' \in [Requests -> RequestStates]
  BY RequestType DEF Answer, TypeOK
<1>1. ASSUME NEW j \in Jobs, Enqueue(r, j) PROVE TypeOK'
  BY <1>1, <1>a, IdleRunType DEF Enqueue, TypeOK, RequestPcs
<1>2. ASSUME NEW j \in Jobs, CancelJob(r, j) PROVE TypeOK'
  BY <1>2, <1>a, IdleRunType DEF CancelJob, TypeOK, RequestPcs
<1>3. ASSUME NEW j \in Jobs, PauseJob(r, j) PROVE TypeOK'
  BY <1>3, <1>a, IdleRunType DEF PauseJob, TypeOK, RequestPcs
<1>4. ASSUME NEW j \in Jobs, ResumeJob(r, j) PROVE TypeOK'
  BY <1>4, <1>a, IdleRunType DEF ResumeJob, TypeOK, RequestPcs
<1>5. ASSUME NEW j \in Jobs, RetryJobFromStage(r, j) PROVE TypeOK'
  <2>1. ASSUME NEW from \in Stages, NEW skip \in BOOLEAN
        PROVE  [NoRequest EXCEPT !.pc = "retry", !.job = j, !.from = from, !.skip = skip]
                 \in RequestStates
    BY RequestType DEF RequestStates, RequestPcs
  <2>2. PICK from \in Stages, skip \in BOOLEAN :
            req' = [req EXCEPT ![r] = [NoRequest EXCEPT !.pc = "retry", !.job = j,
                                                        !.from = from, !.skip = skip]]
    BY <1>5 DEF RetryJobFromStage
  <2>3. req' \in [Requests -> RequestStates]
    BY <2>1, <2>2 DEF TypeOK
  <2> QED BY <1>5, <2>3 DEF RetryJobFromStage, TypeOK
<1>6. ASSUME NEW rec \in Recordings, DeleteRecording(r, rec) PROVE TypeOK'
  BY <1>6, <1>s DEF DeleteRecording, TypeOK
<1>7. CASE Schedule(r)
  BY <1>7, <1>s DEF Schedule, TypeOK
<1>8. CASE CancelQueued(r)
  <2>1. [req[r].seen EXCEPT !.status = "Cancelled", !.cancelReq = TRUE] \in Row
    <3>1. req[r].seen \in Row
      BY DEF TypeOK, RequestStates
    <3> QED BY <3>1 DEF Row, Statuses, Terminal
  <2> QED BY <1>8, <1>s, <2>1 DEF CancelQueued, TypeOK
<1>9. CASE SetCancelRequested(r)
  BY <1>9, <1>c DEF SetCancelRequested, TypeOK, RequestPcs, Row
<1>10. CASE TryCancel(r)
  BY <1>10, <1>s DEF TryCancel, TypeOK
<1>11. CASE SetPauseRequested(r)
  BY <1>11, <1>s DEF SetPauseRequested, TypeOK, Row
<1>12. CASE ClearPauseRequested(r)
  BY <1>12, <1>c DEF ClearPauseRequested, TypeOK, RequestPcs, Row
<1>13. CASE Requeue(r)
  BY <1>13, <1>s DEF Requeue, TypeOK
<1>14. CASE RequestRetryFromStage(r)
  <2> DEFINE j == req[r].job
             rows == RowsAfterRetry(stage[j], req[r].from, req[r].skip)
  <2>1. j \in Jobs => rows \in StageRows
    BY DEF TypeOK, RowsAfterRetry, StageRows
  <2>2. stage' \in [Jobs -> StageRows]
    BY <1>14, <2>1 DEF RequestRetryFromStage, TypeOK
  <2>3. skips' \in [Jobs -> SUBSET Stages]
    BY <1>14 DEF RequestRetryFromStage, TypeOK
  <2> QED BY <1>14, <1>c, <2>2, <2>3, IdleRunType DEF RequestRetryFromStage, TypeOK, RequestPcs
<1>15. CASE Reread(r)
  BY <1>15, <1>c, <1>s DEF Reread, TypeOK, RequestPcs
<1> QED BY <1>1, <1>2, <1>3, <1>4, <1>5, <1>6, <1>7, <1>8, <1>9, <1>10, <1>11, <1>12, <1>13, <1>14, <1>15
        DEF Receive, RequestStep

\* A crash and the rehydration after it keep the types.
LEMMA TypeProcessStep ==
    ASSUME TypeOK, Crash \/ Rehydrate
    PROVE  TypeOK'
<1>1. CASE Crash
  <2>1. req' \in [Requests -> RequestStates]
    BY <1>1, RequestType DEF Crash, TypeOK
  <2>2. crashes' \in 0..MaxCrashes
    BY <1>1 DEF Crash, TypeOK
  <2>3. w' \in [Jobs -> Runs] /\ trigger' \in [Jobs -> BOOLEAN] /\ up' \in BOOLEAN
        /\ token' \in [Jobs -> {"none", "live", "cancelled"}]
    BY <1>1, IdleRunType DEF Crash
  <2> QED BY <1>1, <2>1, <2>2, <2>3 DEF Crash, TypeOK
<1>2. CASE Rehydrate
  <2>1. job' \in [Jobs -> Row]
    BY <1>2 DEF Rehydrate, TypeOK, Row, Statuses
  <2> QED BY <1>2, <2>1 DEF Rehydrate, TypeOK
<1> QED BY <1>1, <1>2

LEMMA TypeNext == TypeOK /\ [Next]_vars => TypeOK'
<1>1. ASSUME TypeOK, UNCHANGED vars PROVE TypeOK'
  BY <1>1 DEF TypeOK, vars
<1> QED BY <1>1, TypeWorkerStep, TypeRequestStep, TypeProcessStep DEF Next

\* Type correctness: whatever the jobs, requests, crashes and bounds.
THEOREM TypeCorrect == Spec => []TypeOK
BY TypeInit, TypeNext, PTL DEF Spec

---------------------------------------------------------------------------
(* Control: where the runs stand, and what a step may do to a job row.       *)

\* A step of job j's run concerns its own row, copy and trigger.
LocalStep(j) ==
    /\ \A k \in Jobs \ {j} : job'[k] = job[k] /\ w'[k] = w[k] /\ trigger'[k] = trigger[k]
    /\ req' = req /\ up' = up /\ up

\* It does not queue the job, and a queued job it leaves queued stays scheduled.
KeepsQueued(j) ==
    job'[j].status = "Queued" =>
        /\ job[j].status = "Queued"
        /\ trigger[j] => trigger'[j] \/ Held(w'[j])
        /\ Held(w[j]) => Held(w'[j])

\* The run is known afterwards, and an outcome stands.
KeepsKnown(j) ==
    /\ CopyKnown(w'[j])
    /\ job'[j].status \in Outcomes => AtItsEnd(w'[j], job'[j].status)
    /\ job[j].status \in Outcomes => job'[j].status \in {job[j].status, "Queued", "Cancelled"}

\* What a transition to t changes of a run.
LEMMA EnterEffect ==
    ASSUME NEW v \in Runs, NEW t \in Targets
    PROVE  /\ Enter(v, t).row = v.row /\ Enter(v, t).cur = v.cur /\ Enter(v, t).pc \in {"write", "close"}
           /\ v.cur = "none" => Enter(v, t).pc = "write"
BY DEF Enter, Runs

LEMMA EnterUnlessDoneEffect ==
    ASSUME NEW v \in Runs, NEW s \in Stages
    PROVE  /\ EnterUnlessDone(v, s).row = v.row
           /\ EnterUnlessDone(v, s).cur = v.cur
           /\ EnterUnlessDone(v, s).pc \in
                {"write", "close", "loadTranscript", "Cleaning", "LlmCorrection", "Summarizing"}
<1>1. CASE s \notin v.done
  BY <1>1, EnterEffect DEF EnterUnlessDone, Targets
<1>2. CASE s \in v.done
  <2>1. "Finish" \in Targets
    BY DEF Targets
  <2>2. CASE s = "Exporting"
    BY <1>2, <2>1, <2>2, EnterEffect DEF EnterUnlessDone
  <2>3. CASE s = "Transcribing"
    BY <1>2, <2>3 DEF EnterUnlessDone, Runs
  <2>4. CASE s \in {"Cleaning", "LlmCorrection", "Summarizing"}
    BY <1>2, <2>4 DEF EnterUnlessDone, Runs
  <2> QED BY <2>2, <2>3, <2>4 DEF Stages
<1> QED BY <1>1, <1>2

LEMMA ControlWorkerStep ==
    ASSUME TypeOK, RunsKnown, NEW j \in Jobs, WorkerStep(j)
    PROVE  LocalStep(j) /\ KeepsQueued(j) /\ KeepsKnown(j)
<1> DEFINE v == w[j]
           Goal == LocalStep(j) /\ KeepsQueued(j) /\ KeepsKnown(j)
<1>t. /\ w \in [Jobs -> Runs] /\ job \in [Jobs -> Row] /\ v \in Runs /\ v.row \in Row
      /\ trigger \in [Jobs -> BOOLEAN]
  BY DEF TypeOK, Runs
<1>k. CopyKnown(v) /\ (job[j].status \in Outcomes => AtItsEnd(v, job[j].status))
  BY DEF RunsKnown
<1>r. ASSUME NEW u, Run(j, u) PROVE w'[j] = u /\ \A k \in Jobs \ {j} : w'[k] = w[k]
  BY <1>r, <1>t DEF Run
<1>g. ASSUME NEW pc, Goto(j, pc)
      PROVE  /\ w'[j].pc = pc /\ w'[j].row = v.row /\ w'[j].cur = v.cur
             /\ \A k \in Jobs \ {j} : w'[k] = w[k]
  BY <1>g, <1>r, <1>t DEF Goto, Runs
<1>s. ASSUME NEW x, NEW pc, Save(j, x, pc)
      PROVE  /\ job'[j] = x /\ w'[j].pc = pc /\ w'[j].row = x /\ w'[j].cur = v.cur
             /\ \A k \in Jobs \ {j} : job'[k] = job[k] /\ w'[k] = w[k]
  <2> DEFINE u == [v EXCEPT !.row = x, !.pc = pc]
  <2>1. u.pc = pc /\ u.row = x /\ u.cur = v.cur
    BY <1>t DEF Runs
  <2>2. Run(j, u) /\ job' = [job EXCEPT ![j] = x]
    BY <1>s DEF Save
  <2>3. w'[j] = u /\ \A k \in Jobs \ {j} : w'[k] = w[k]
    BY <2>2, <1>r
  <2> HIDE DEF u
  <2> QED BY <2>1, <2>2, <2>3, <1>t
<1> USE DEF Outcomes, KeepsQueued, KeepsKnown, CopyKnown, AtItsEnd, Held
\* A step that only moves the run on: the copy stays, the place is not an early one.
<1>m. ASSUME NEW u, Run(j, u), UNCHANGED <<job, trigger, req, up>>, up,
             u.row = v.row, u.cur = v.cur, job[j].status \notin Outcomes,
             v.row.status # "Queued", u.pc \notin {"Transcribing", "openStage"}
      PROVE  Goal
  BY <1>m, <1>r, <1>t, <1>k DEF LocalStep
<1>e. ASSUME NEW u \in Runs, NEW s \in Stages, Run(j, EnterUnlessDone(u, s)), u.row = v.row, u.cur = v.cur,
             UNCHANGED <<job, trigger, req, up>>, up, job[j].status \notin Outcomes, v.row.status # "Queued"
      PROVE  Goal
  BY <1>e, <1>m, EnterUnlessDoneEffect
<1>1. CASE Load(j)
  <2>1. CASE job[j].status \in InFlight \cup {"Queued"}
    <3> DEFINE u == [IdleRun EXCEPT !.pc = "begin", !.row = job[j]]
    <3>1. u.pc = "begin" /\ u.row = job[j] /\ u.cur = "none"
      BY DEF IdleRun
    <3>2. Run(j, u)
      BY <1>1, <2>1 DEF Load
    <3>3. w'[j] = u /\ \A k \in Jobs \ {j} : w'[k] = w[k]
      BY <3>2, <1>r
    <3> HIDE DEF u
    <3> QED BY <1>1, <2>1, <3>1, <3>3, <1>t, <1>k DEF Load, At, LocalStep, InFlight
  <2>2. CASE job[j].status \notin InFlight \cup {"Queued"}
    BY <1>1, <2>2, <1>t, <1>k DEF Load, At, LocalStep
  <2> QED BY <2>1, <2>2
<1>2. CASE Begin(j)
  BY <1>2, <1>g, <1>t, <1>k DEF Begin, At, LocalStep
<1>3. CASE PauseAtStart(j)
  <2> DEFINE x == [v.row EXCEPT !.status = "Paused"]
  <2>1. x.status = "Paused"
    BY <1>t DEF Row
  <2>2. Save(j, x, "unregister")
    BY <1>3 DEF PauseAtStart
  <2> HIDE DEF x
  <2>3. /\ job'[j] = x /\ w'[j].pc = "unregister" /\ w'[j].row = x
        /\ \A k \in Jobs \ {j} : job'[k] = job[k] /\ w'[k] = w[k]
    BY <2>2, <1>s
  <2> QED BY <1>3, <2>1, <2>3, <1>t, <1>k DEF PauseAtStart, At, LocalStep
<1>4. CASE ReadStages(j)
  <2> DEFINE u == [v EXCEPT !.done = CompletedStages(j)]
  <2>1. u \in Runs /\ u.row = v.row /\ u.cur = v.cur /\ "Preflight" \in Targets
    BY <1>t DEF Runs, CompletedStages, Targets
  <2>2. CASE Run(j, Enter(u, "Preflight"))
    <3> HIDE DEF u
    <3> DEFINE x == Enter(u, "Preflight")
    <3>1. x.row = v.row /\ x.cur = v.cur /\ x.pc \in {"write", "close"} /\ (v.cur = "none" => x.pc = "write")
      BY <2>1, EnterEffect
    <3>2. w'[j] = x /\ \A k \in Jobs \ {j} : w'[k] = w[k]
      BY <2>2, <1>r
    <3> HIDE DEF x
    <3> QED BY <1>4, <3>1, <3>2, <1>t, <1>k DEF ReadStages, Proceeds, At, LocalStep
  <2>3. CASE Goto(j, "fail")
    BY <1>4, <2>3, <1>g, <1>t, <1>k DEF ReadStages, Proceeds, At, LocalStep
  <2> QED BY <1>4, <2>2, <2>3 DEF ReadStages
<1>5. CASE Reload(j)
  <2> DEFINE paused == [v EXCEPT !.pc = "pauseWrite", !.row = [@ EXCEPT !.status = "Paused", !.pauseReq = TRUE]]
             reloaded == [v EXCEPT !.pc = "write"]
  <2>1. paused.pc = "pauseWrite" /\ paused.row.status = "Paused"
    BY <1>t DEF Runs, Row
  <2>2. reloaded.pc = "write" /\ reloaded.row = v.row /\ v.row.status # "Queued"
    BY <1>5, <1>t, <1>k DEF Runs, Reload, Proceeds, At
  <2>3. w'[j] \in {paused, reloaded} /\ \A k \in Jobs \ {j} : w'[k] = w[k]
    BY <1>5, <1>r DEF Reload
  <2> QED BY <1>5, <2>1, <2>2, <2>3, <1>t, <1>k DEF Reload, Proceeds, At, LocalStep
<1>6. CASE PauseWrite(j)
  BY <1>6, <1>s, <1>t, <1>k DEF PauseWrite, Proceeds, At, LocalStep
<1>7. CASE Write(j)
  <2> DEFINE x == [v.row EXCEPT !.status = StatusOf[v.to]]
             pc == IF v.to = "Finish" THEN "Finish" ELSE "openStage"
  <2>1. /\ StatusOf[v.to] \in InFlight \cup {"Done"}
        /\ StatusOf[v.to] = "Done" => v.to = "Finish"
    BY <1>t DEF Runs, StatusOf, Targets, Stages, InFlight
  <2>2. x.status = StatusOf[v.to] /\ v.to \in Targets
    BY <1>t DEF Row, Runs
  <2>3. Save(j, x, pc) /\ UNCHANGED <<trigger, req, up>> /\ up /\ job[j].status \notin Outcomes
    BY <1>7, <1>k DEF Write, Proceeds, At
  <2>4. w'[j].to = v.to
    BY <1>7, <1>t DEF Write, Save, Run, Runs
  <2> HIDE DEF x, pc
  <2>5. /\ job'[j] = x /\ w'[j].pc = pc /\ w'[j].row = x
        /\ \A k \in Jobs \ {j} : job'[k] = job[k] /\ w'[k] = w[k]
    BY <2>3, <1>s
  <2> QED BY <2>1, <2>2, <2>3, <2>4, <2>5, <1>t DEF LocalStep, InFlight, pc
<1>8. CASE PreflightPasses(j)
  BY <1>8, <1>e, <1>t, <1>k DEF PreflightPasses, Proceeds, At, Stages
<1>9. CASE PreflightFails(j)
  <2> DEFINE x == [v.row EXCEPT !.status = "Failed"]
  <2>1. x.status = "Failed"
    BY <1>t DEF Row
  <2>2. Save(j, x, "publish")
    BY <1>9 DEF PreflightFails
  <2> HIDE DEF x
  <2>3. /\ job'[j] = x /\ w'[j].pc = "publish" /\ w'[j].row = x
        /\ \A k \in Jobs \ {j} : job'[k] = job[k] /\ w'[k] = w[k]
    BY <2>2, <1>s
  <2> QED BY <1>9, <2>1, <2>3, <1>t, <1>k DEF PreflightFails, Proceeds, At, LocalStep
<1>10. CASE LoadTranscript(j)
  <2> DEFINE u == [v EXCEPT !.tr = transcripts[RecordingOf[j]]]
  <2>1. u \in Runs /\ u.row = v.row /\ u.cur = v.cur /\ "Cleaning" \in Stages
    <3>1. transcripts[RecordingOf[j]] \in Nat
      BY DEF TypeOK
    <3> QED BY <3>1, <1>t DEF Runs, Stages
  <2>2. CASE Goto(j, "fail")
    BY <1>10, <2>2, <1>g, <1>t, <1>k DEF LoadTranscript, Proceeds, At, LocalStep
  <2>3. CASE Run(j, EnterUnlessDone(u, "Cleaning"))
    BY <1>10, <2>1, <2>3, <1>e, <1>k DEF LoadTranscript, Proceeds, At
  <2> QED BY <1>10, <2>2, <2>3 DEF LoadTranscript
<1>11. CASE SetStartedAt(j)
  BY <1>11, <1>s, <1>t, <1>k DEF SetStartedAt, Proceeds, At, LocalStep
<1>12. CASE Transcribe(j)
  <2> DEFINE u == [v EXCEPT !.tr = transcripts[RecordingOf[j]] + 1]
  <2>1. u \in Runs /\ u.row = v.row /\ u.cur = v.cur /\ "Cleaning" \in Stages
    <3>1. transcripts[RecordingOf[j]] + 1 \in Nat
      BY DEF TypeOK
    <3> QED BY <3>1, <1>t DEF Runs, Stages
  <2> QED BY <1>12, <2>1, <1>e, <1>k DEF Transcribe, Proceeds, At
<1>13. CASE Clean(j)
  <2>1. PICK llm \in {"yes", "no", "unknown"} :
             Run(j, EnterUnlessDone([v EXCEPT !.llm = llm],
                                    IF llm = "yes" THEN "LlmCorrection" ELSE "Summarizing"))
    BY <1>13 DEF Clean
  <2>2. /\ [v EXCEPT !.llm = llm] \in Runs
        /\ [v EXCEPT !.llm = llm].row = v.row /\ [v EXCEPT !.llm = llm].cur = v.cur
        /\ (IF llm = "yes" THEN "LlmCorrection" ELSE "Summarizing") \in Stages
    BY <1>t DEF Runs, Stages
  <2> QED BY <1>13, <2>1, <2>2, <1>e, <1>k DEF Clean, Proceeds, At
<1>14. CASE LlmCorrect(j)
  BY <1>14, <1>e, <1>t, <1>k DEF LlmCorrect, Proceeds, At, Stages
<1>15. CASE Summarize(j)
  <2>1. PICK n \in 1..MaxVersion : Run(j, EnterUnlessDone([v EXCEPT !.ver = n], "Exporting"))
    BY <1>15 DEF Summarize
  <2>2. /\ [v EXCEPT !.ver = n] \in Runs /\ "Exporting" \in Stages
        /\ [v EXCEPT !.ver = n].row = v.row /\ [v EXCEPT !.ver = n].cur = v.cur
    BY <1>t DEF Runs, Stages
  <2> QED BY <1>15, <2>1, <2>2, <1>e, <1>k DEF Summarize, Proceeds, At
<1>16. CASE AddNote(j)
  BY <1>16, <1>g, <1>t, <1>k DEF AddNote, Proceeds, At, LocalStep
<1>17. CASE PublishNote(j)
  BY <1>17, <1>g, <1>t, <1>k DEF PublishNote, Proceeds, At, LocalStep
<1>18. CASE UpdateRecording(j)
  <2>1. CASE Goto(j, "unregister")
    BY <1>18, <2>1, <1>g, <1>t, <1>k DEF UpdateRecording, Proceeds, At, LocalStep
  <2>2. CASE Run(j, Enter(v, "Finish"))
    <3>1. "Finish" \in Targets
      BY DEF Targets
    <3> QED BY <1>18, <2>2, <3>1, <1>m, <1>t, <1>k, EnterEffect DEF UpdateRecording, Proceeds, At
  <2> QED BY <1>18, <2>1, <2>2 DEF UpdateRecording
<1>19. CASE Finish(j)
  BY <1>19, <1>s, <1>t, <1>k DEF Finish, Proceeds, At, LocalStep
<1>20. CASE EngineFails(j)
  BY <1>20, <1>g, <1>t, <1>k DEF EngineFails, Proceeds, At, LocalStep
<1>21. CASE LlmTimesOut(j)
  BY <1>21, <1>g, <1>t, <1>k DEF LlmTimesOut, Proceeds, At, LocalStep
<1>22. CASE ThrowCancelled(j)
  <2>1. PICK pc \in {"unregister", "cancelled"} : Goto(j, pc)
        /\ (pc = "unregister" => v.pc = "updateRecording")
    BY <1>22 DEF ThrowCancelled
  <2> QED BY <1>22, <2>1, <1>g, <1>t, <1>k DEF ThrowCancelled, Cancellable, LocalStep
<1>23. CASE MarkFailed(j)
  <2> DEFINE x == [v.row EXCEPT !.status = "Failed"]
  <2>1. x.status = "Failed"
    BY <1>t DEF Row
  <2>2. Save(j, x, "unregister")
    BY <1>23 DEF MarkFailed
  <2> HIDE DEF x
  <2>3. /\ job'[j] = x /\ w'[j].pc = "unregister" /\ w'[j].row = x
        /\ \A k \in Jobs \ {j} : job'[k] = job[k] /\ w'[k] = w[k]
    BY <2>2, <1>s
  <2> QED BY <1>23, <2>1, <2>3, <1>t, <1>k DEF MarkFailed, At, LocalStep
<1>24. CASE MarkCancelled(j)
  <2> DEFINE x == [v.row EXCEPT !.status = "Cancelled"]
  <2>1. x.status = "Cancelled"
    BY <1>t DEF Row
  <2>2. Save(j, x, "unregister")
    BY <1>24 DEF MarkCancelled
  <2> HIDE DEF x
  <2>3. /\ job'[j] = x /\ w'[j].pc = "unregister" /\ w'[j].row = x
        /\ \A k \in Jobs \ {j} : job'[k] = job[k] /\ w'[k] = w[k]
    BY <2>2, <1>s
  <2> QED BY <1>24, <2>1, <2>3, <1>t, <1>k DEF MarkCancelled, At, LocalStep
<1>25. CASE Unregister(j)
  <2>1. w'[j] = IdleRun /\ (\A k \in Jobs \ {j} : w'[k] = w[k]) /\ UNCHANGED <<job, trigger, req, up>> /\ up
    BY <1>25, <1>r DEF Unregister, Proceeds, At
  <2>2. IdleRun.pc = "idle" /\ IdleRun.row.status = "Absent"
    BY DEF IdleRun, NoRow
  <2>3. v.pc \in {"publish", "unregister"}
    BY <1>25 DEF Unregister, Proceeds, At
  <2> QED BY <2>1, <2>2, <2>3, <1>t, <1>k DEF LocalStep
<1>26. CASE CloseStageRow(j)
  <2> DEFINE u == [v EXCEPT !.cur = "none", !.pc = "reload"]
  <2>1. u.pc = "reload" /\ u.row = v.row /\ v.row.status # "Queued"
    BY <1>26, <1>t, <1>k DEF Runs, CloseStageRow, Proceeds, At
  <2>2. w'[j] = u /\ \A k \in Jobs \ {j} : w'[k] = w[k]
    BY <1>26, <1>r DEF CloseStageRow
  <2> HIDE DEF u
  <2> QED BY <1>26, <2>1, <2>2, <1>t, <1>k DEF CloseStageRow, Proceeds, At, LocalStep
<1>27. CASE OpenStageRow(j)
  <2> DEFINE u == [v EXCEPT !.cur = v.to, !.pc = v.to]
  <2>1. u.pc = v.to /\ u.row = v.row /\ v.to \in Targets
    BY <1>t DEF Runs
  <2>2. v.row.status = StatusOf[v.to] /\ v.row.status # "Queued" /\ job[j].status \notin Outcomes
    BY <1>27, <1>k DEF OpenStageRow, Proceeds, At
  <2>3. StatusOf["Transcribing"] = "Transcribing" /\ v.to # "openStage"
    BY <2>1 DEF StatusOf, Targets, Stages
  <2>4. w'[j] = u /\ \A k \in Jobs \ {j} : w'[k] = w[k]
    BY <1>27, <1>r DEF OpenStageRow
  <2> HIDE DEF u
  <2> QED BY <1>27, <2>1, <2>2, <2>3, <2>4, <1>t, <1>k DEF OpenStageRow, Proceeds, At, LocalStep
<1> QED BY <1>26, <1>27, <1>1, <1>2, <1>3, <1>4, <1>5, <1>6, <1>7, <1>8, <1>9, <1>10, <1>11, <1>12, <1>13, <1>14, <1>15, <1>16, <1>17, <1>18, <1>19, <1>20, <1>21, <1>22, <1>23, <1>24, <1>25 DEF WorkerStep

\* The invariants the control argument carries.
ControlInv == TypeOK /\ RunsKnown /\ (HangUps = FALSE => QueuedIsScheduled)

LEMMA ControlWorker ==
    ASSUME ControlInv, NEW j \in Jobs, WorkerStep(j)
    PROVE  RunsKnown' /\ (HangUps = FALSE => QueuedIsScheduled')
<1>1. LocalStep(j) /\ KeepsQueued(j) /\ KeepsKnown(j)
  BY ControlWorkerStep DEF ControlInv
<1>2. RunsKnown'
  BY <1>1 DEF ControlInv, RunsKnown, LocalStep, KeepsKnown
<1>3. HangUps = FALSE => QueuedIsScheduled'
  BY <1>1 DEF ControlInv, QueuedIsScheduled, LocalStep, KeepsQueued
<1> QED BY <1>2, <1>3

\* A request queues a job only on its way to schedule it, and never touches a run.
LEMMA ControlRequest ==
    ASSUME ControlInv, NEW r \in Requests, Receive(r) \/ RequestStep(r)
    PROVE  RunsKnown' /\ (HangUps = FALSE => QueuedIsScheduled')
<1> USE DEF ControlInv
<1>t. /\ job \in [Jobs -> Row] /\ req \in [Requests -> RequestStates] /\ trigger \in [Jobs -> BOOLEAN]
  BY DEF TypeOK
\* The requests that will schedule a job are still there, unless one was just served.
<1>a. ASSUME NEW x, req' = [req EXCEPT ![r] = x],
             req[r].pc \notin {"reread", "schedule"} \/ (x.pc \in {"reread", "schedule"} /\ x.job = req[r].job)
      PROVE  \A k \in Jobs : (\E q \in Requests : req[q].job = k /\ req[q].pc \in {"reread", "schedule"})
               => \E q \in Requests : req'[q].job = k /\ req'[q].pc \in {"reread", "schedule"}
  BY <1>a, <1>t
\* A step that leaves runs and triggers alone and queues nothing.
<1>b. ASSUME UNCHANGED <<trigger, w, up>>,
             \A k \in Jobs : job'[k].status = job[k].status \/ job'[k].status = "Cancelled",
             \A k \in Jobs : (\E q \in Requests : req[q].job = k /\ req[q].pc \in {"reread", "schedule"})
               => \E q \in Requests : req'[q].job = k /\ req'[q].pc \in {"reread", "schedule"}
      PROVE  RunsKnown' /\ (HangUps = FALSE => QueuedIsScheduled')
  BY <1>b DEF RunsKnown, QueuedIsScheduled, Outcomes
<1>1. ASSUME NEW j \in Jobs, Enqueue(r, j) PROVE RunsKnown' /\ (HangUps = FALSE => QueuedIsScheduled')
  <2> DEFINE x == [NoRequest EXCEPT !.pc = "schedule", !.job = j, !.seen = NoRow]
  <2>1. x.pc = "schedule" /\ x.job = j
    BY DEF NoRequest
  <2>2. req' = [req EXCEPT ![r] = x] /\ req[r].pc = "new"
    BY <1>1 DEF Enqueue, Accept, Serving
  <2> HIDE DEF x
  <2>3. req'[r].job = j /\ req'[r].pc = "schedule"
    BY <2>1, <2>2, <1>t
  <2>4. job' = [job EXCEPT ![j] = NewRow] /\ UNCHANGED <<trigger, w, up>> /\ NewRow.status = "Queued"
    BY <1>1 DEF Enqueue, NewRow
  <2>5. RunsKnown'
    BY <2>4, <1>t DEF RunsKnown, Outcomes
  <2>6. HangUps = FALSE => QueuedIsScheduled'
    BY <2>2, <2>3, <2>4, <1>a, <1>t DEF QueuedIsScheduled
  <2> QED BY <2>5, <2>6
<1>2. ASSUME NEW j \in Jobs, CancelJob(r, j) \/ PauseJob(r, j) \/ ResumeJob(r, j) \/ RetryJobFromStage(r, j)
      PROVE  RunsKnown' /\ (HangUps = FALSE => QueuedIsScheduled')
  <2>1. UNCHANGED <<job, trigger, w, up>> /\ req[r].pc = "new"
    BY <1>2 DEF CancelJob, PauseJob, ResumeJob, RetryJobFromStage, Serving
  <2>2. \E x : req' = [req EXCEPT ![r] = x]
    BY <1>2 DEF CancelJob, PauseJob, ResumeJob, RetryJobFromStage, Accept
  <2> QED BY <2>1, <2>2, <1>a, <1>b
<1>3. ASSUME NEW rec \in Recordings, DeleteRecording(r, rec)
      PROVE  RunsKnown' /\ (HangUps = FALSE => QueuedIsScheduled')
  BY <1>3, <1>a, <1>b DEF DeleteRecording, Answer, Serving
<1>4. CASE Schedule(r)
  <2>1. /\ trigger' = [trigger EXCEPT ![req[r].job] = TRUE] /\ UNCHANGED <<job, w, up>>
        /\ req' = [req EXCEPT ![r] = Served]
    BY <1>4 DEF Schedule, Answer
  <2>2. RunsKnown'
    BY <2>1 DEF RunsKnown
  <2>3. ASSUME NEW k \in Jobs, trigger[k] \/ req[r].job = k PROVE trigger'[k]
    BY <2>1, <2>3, <1>t
  <2>4. ASSUME NEW q \in Requests, q # r PROVE req'[q] = req[q]
    BY <2>1, <2>4, <1>t
  <2>5. HangUps = FALSE => QueuedIsScheduled'
    BY <2>1, <2>3, <2>4 DEF QueuedIsScheduled
  <2> QED BY <2>2, <2>5
<1>5. CASE CancelQueued(r)
  <2> DEFINE x == [req[r].seen EXCEPT !.status = "Cancelled", !.cancelReq = TRUE]
  <2>0. req[r].seen \in Row
    BY <1>t DEF RequestStates
  <2>1. x.status = "Cancelled"
    BY <2>0 DEF Row
  <2>2. /\ job' = [job EXCEPT ![req[r].job] = x] /\ req' = [req EXCEPT ![r] = Served]
        /\ req[r].pc = "cancelQueued" /\ UNCHANGED <<trigger, w, up>>
    BY <1>5 DEF CancelQueued, Answer, Serving
  <2> HIDE DEF x
  <2>3. \A k \in Jobs : job'[k].status = job[k].status \/ job'[k].status = "Cancelled"
    BY <2>1, <2>2, <1>t
  <2> QED BY <2>2, <2>3, <1>a, <1>b
<1>6. CASE SetCancelRequested(r) \/ SetPauseRequested(r) \/ ClearPauseRequested(r)
  <2>1. /\ UNCHANGED <<trigger, w, up>> /\ req[r].pc \in {"setCancel", "setPause", "clearPause"}
        /\ \E x : req' = [req EXCEPT ![r] = x]
    BY <1>6 DEF SetCancelRequested, SetPauseRequested, ClearPauseRequested, Serving, Continue, Answer
  <2>2. \A k \in Jobs : job'[k].status = job[k].status
    <3>1. CASE SetCancelRequested(r)
      BY <3>1, <1>t DEF SetCancelRequested, Row
    <3>2. CASE SetPauseRequested(r)
      BY <3>2, <1>t DEF SetPauseRequested, Row
    <3>3. CASE ClearPauseRequested(r)
      BY <3>3, <1>t DEF ClearPauseRequested, Row
    <3> QED BY <1>6, <3>1, <3>2, <3>3
  <2> QED BY <2>1, <2>2, <1>a, <1>b
<1>7. CASE TryCancel(r) \/ Requeue(r)
  BY <1>7, <1>a, <1>b DEF TryCancel, Requeue, Answer, Serving
<1>8. CASE RequestRetryFromStage(r)
  <2> DEFINE x == [req[r] EXCEPT !.pc = "reread"]
             j == req[r].job
  <2>1. x.pc = "reread" /\ x.job = j
    BY <1>t DEF RequestStates
  <2>2. /\ req' = [req EXCEPT ![r] = x] /\ req[r].pc = "retry"
        /\ job' = [job EXCEPT ![j] = NewRow] /\ UNCHANGED <<trigger, w, up>>
    BY <1>8 DEF RequestRetryFromStage, Continue, Serving
  <2> HIDE DEF x
  <2>3. req'[r].job = j /\ req'[r].pc = "reread"
    BY <2>1, <2>2, <1>t
  <2>4. \A k \in Jobs : job'[k] = job[k] \/ (k = j /\ job'[k].status = "Queued")
    BY <2>2, <1>t DEF NewRow
  <2>5. RunsKnown'
    BY <2>2, <2>4, <1>t DEF RunsKnown, Outcomes
  <2>6. HangUps = FALSE => QueuedIsScheduled'
    BY <2>2, <2>3, <2>4, <1>a DEF QueuedIsScheduled
  <2> QED BY <2>5, <2>6
<1>9. CASE Reread(r)
  <2>1. UNCHANGED <<job, trigger, w, up>>
    BY <1>9 DEF Reread
  <2>2. RunsKnown'
    BY <2>1 DEF RunsKnown
  <2>3. HangUps = FALSE => QueuedIsScheduled'
    <3> DEFINE x == [req[r] EXCEPT !.pc = "schedule"]
    <3>1. HangUps = FALSE => req' = [req EXCEPT ![r] = x]
      BY <1>9 DEF Reread, Continue
    <3>2. x.pc = "schedule" /\ x.job = req[r].job
      BY <1>t DEF RequestStates
    <3> HIDE DEF x
    <3> QED BY <2>1, <3>1, <3>2, <1>a, <1>b
  <2> QED BY <2>2, <2>3
<1> QED BY <1>1, <1>2, <1>3, <1>4, <1>5, <1>6, <1>7, <1>8, <1>9 DEF Receive, RequestStep

LEMMA ControlProcess ==
    ASSUME ControlInv, Crash \/ Rehydrate
    PROVE  RunsKnown' /\ QueuedIsScheduled'
<1>1. CASE Crash
  <2>1. \A j \in Jobs : w'[j] = IdleRun /\ job'[j] = job[j]
    BY <1>1 DEF Crash
  <2>2. IdleRun.pc = "idle" /\ IdleRun.row.status = "Absent"
    BY DEF IdleRun, NoRow
  <2>3. RunsKnown'
    BY <2>1, <2>2 DEF RunsKnown, CopyKnown, AtItsEnd
  <2> QED BY <1>1, <2>3 DEF Crash, QueuedIsScheduled
<1>2. CASE Rehydrate
  <2>1. \A j \in Jobs : job'[j] = job[j] \/ job'[j].status = "Queued"
    BY <1>2 DEF Rehydrate, ControlInv, TypeOK, Row
  <2>2. RunsKnown'
    BY <1>2, <2>1 DEF Rehydrate, ControlInv, RunsKnown, Outcomes
  <2>3. QueuedIsScheduled'
    BY <1>2 DEF Rehydrate, QueuedIsScheduled
  <2> QED BY <2>2, <2>3
<1> QED BY <1>1, <1>2

LEMMA ControlInit == Init => ControlInv
<1>1. IdleRun.pc = "idle" /\ IdleRun.row.status = "Absent" /\ NoRow.status = "Absent"
  BY DEF IdleRun, NoRow
<1>2. Init => RunsKnown /\ QueuedIsScheduled
  BY <1>1 DEF Init, RunsKnown, CopyKnown, AtItsEnd, QueuedIsScheduled, Outcomes
<1> QED BY <1>2, TypeInit DEF ControlInv

LEMMA ControlNext == ControlInv /\ [Next]_vars => ControlInv'
<1>1. ASSUME ControlInv, UNCHANGED vars PROVE RunsKnown' /\ (HangUps = FALSE => QueuedIsScheduled')
  BY <1>1 DEF ControlInv, vars, RunsKnown, QueuedIsScheduled
<1>2. ASSUME ControlInv, Next PROVE RunsKnown' /\ (HangUps = FALSE => QueuedIsScheduled')
  BY <1>2, ControlWorker, ControlRequest, ControlProcess DEF Next
<1> QED BY <1>1, <1>2, TypeNext DEF ControlInv

\* No queued job is forgotten: while no client aborts its request half-way, every interleaving
\* of mutations, runs, crashes and restarts keeps a queued job scheduled.
THEOREM QueuedStaysScheduled == HangUps = FALSE => (Spec => []QueuedIsScheduled)
<1> SUFFICES ASSUME HangUps = FALSE PROVE Spec => []QueuedIsScheduled
  OBVIOUS
<1>1. Spec => []ControlInv
  BY ControlInit, ControlNext, PTL DEF Spec
<1>2. ControlInv => QueuedIsScheduled
  BY DEF ControlInv
<1> QED BY <1>1, <1>2, PTL

\* No step exchanges one outcome for another: only a worker step, a late cancel, a retry or the
\* rehydration moves a job row, and where the runs stand tells which of them can.
LEMMA OutcomeStep ==
    ASSUME ControlInv, [Next]_vars, NEW j \in Jobs, job[j].status \in Outcomes
    PROVE  job'[j].status \in {job[j].status, "Queued", "Cancelled"}
<1>t. job \in [Jobs -> Row] /\ req \in [Requests -> RequestStates]
  BY DEF ControlInv, TypeOK
<1>1. ASSUME NEW k \in Jobs, WorkerStep(k) PROVE job'[j].status \in {job[j].status, "Queued", "Cancelled"}
  <2>1. LocalStep(k) /\ KeepsKnown(k)
    BY <1>1, ControlWorkerStep DEF ControlInv
  <2> QED BY <2>1 DEF LocalStep, KeepsKnown
<1>2. ASSUME NEW r \in Requests, Receive(r) \/ RequestStep(r)
      PROVE  job'[j].status \in {job[j].status, "Queued", "Cancelled"}
  <2>1. CASE CancelQueued(r)
    <3> DEFINE x == [req[r].seen EXCEPT !.status = "Cancelled", !.cancelReq = TRUE]
    <3>1. x.status = "Cancelled"
      BY <1>t DEF RequestStates, Row
    <3>2. job' = [job EXCEPT ![req[r].job] = x]
      BY <2>1 DEF CancelQueued
    <3> HIDE DEF x
    <3> QED BY <3>1, <3>2, <1>t
  <2>2. CASE RequestRetryFromStage(r)
    BY <2>2, <1>t DEF RequestRetryFromStage, NewRow
  <2>3. CASE SetCancelRequested(r)
    BY <2>3, <1>t DEF SetCancelRequested, Row
  <2>4. CASE SetPauseRequested(r)
    BY <2>4, <1>t DEF SetPauseRequested, Row
  <2>5. CASE ClearPauseRequested(r)
    BY <2>5, <1>t DEF ClearPauseRequested, Row
  <2>6. ASSUME NEW k \in Jobs, Enqueue(r, k) PROVE job'[j].status \in {job[j].status, "Queued", "Cancelled"}
    BY <2>6, <1>t DEF Enqueue, NewRow
  <2>7. CASE UNCHANGED job
    BY <2>7
  <2> QED BY <1>2, <2>1, <2>2, <2>3, <2>4, <2>5, <2>6, <2>7
          DEF Receive, RequestStep, CancelJob, PauseJob, ResumeJob, RetryJobFromStage, DeleteRecording,
              Schedule, TryCancel, Requeue, Reread
<1>3. CASE Crash \/ Rehydrate
  BY <1>3, <1>t DEF Crash, Rehydrate, Outcomes, InFlight, InFlightStatuses
<1> QED BY <1>1, <1>2, <1>3 DEF Next, vars

\* A finished, failed or paused job is moved only by a retry or a late cancel.
THEOREM OutcomesStand == Spec => OutcomeStands
<1>1. Spec => []ControlInv
  BY ControlInit, ControlNext, PTL DEF Spec
<1>2. ControlInv /\ [Next]_vars =>
        [\A j \in Jobs : job[j].status \in Outcomes => job'[j].status \in {job[j].status, "Queued", "Cancelled"}]_vars
  BY OutcomeStep
<1> QED BY <1>1, <1>2, PTL DEF Spec, OutcomeStands

---------------------------------------------------------------------------
(* That a job is Done only when its note was saved and announced.           *)

\* What the argument carries from state to state.
ExportInv == TypeOK /\ ExportKnown /\ DoneMeansAnnounced

\* A step of job j's run that announces nothing and opens no Exporting stage: whatever it makes
\* stand for an exported note stood for one already.
QuietStep(j) ==
    /\ \A k \in Jobs \ {j} : job'[k] = job[k] /\ w'[k] = w[k] /\ stage'[k] = stage[k]
    /\ UNCHANGED <<skips, announced>> /\ notes \subseteq notes'
    /\ stage'[j]["Exporting"] \cap Completed # {} =>
         stage[j]["Exporting"] \cap Completed # {} \/ Exported(j)
    /\ job'[j].status = "Done" => job[j].status = "Done" \/ w[j].row.status = "Done" \/ Exported(j)
    /\ "Exporting" \in w'[j].done => "Exporting" \in w[j].done \/ Exported(j)
    /\ \/ w'[j].cur # "Exporting" \/ w'[j].pc = "Exporting"
       \/ w'[j].cur = w[j].cur /\ w'[j].pc \in {"cancelled", "unregister"}
       \/ w'[j].cur = w[j].cur /\ w[j].pc \notin {"Exporting", "announce", "cancelled", "unregister"}
    /\ w'[j].to = "Finish" => w[j].to = "Finish" \/ Exported(j)
    /\ w'[j].row.status = "Done" => w[j].row.status = "Done" \/ Exported(j)
    /\ w'[j].pc \notin {"announce", "updateRecording"}

LEMMA QuietStepKeeps ==
    ASSUME ExportInv, NEW j \in Jobs, QuietStep(j)
    PROVE  ExportKnown' /\ DoneMeansAnnounced'
<1>1. \A k \in Jobs : Exported(k)' = Exported(k)
  BY DEF Exported, QuietStep
<1>2. \A k \in Jobs \ {j} : NoteOf(k)' = NoteOf(k)
  BY DEF NoteOf, QuietStep
<1>3. ExportKnown'
  <2>1. ASSUME NEW k \in Jobs \ {j} PROVE ExportKnownOf(k)'
    BY <2>1, <1>1, <1>2 DEF QuietStep, ExportInv, ExportKnown, ExportKnownOf
  <2>2. ExportKnownOf(j)'
    BY <1>1 DEF QuietStep, ExportInv, ExportKnown, ExportKnownOf
  <2> QED BY <2>1, <2>2 DEF ExportKnown
<1>4. DoneMeansAnnounced'
  BY <1>1 DEF QuietStep, ExportInv, ExportKnown, ExportKnownOf, DoneMeansAnnounced
<1> QED BY <1>3, <1>4

\* What entering a target, or passing by a completed stage, makes of the run.
LEMMA EnterRun ==
    ASSUME NEW v \in Runs, NEW t \in Targets
    PROVE  /\ Enter(v, t).row = v.row /\ Enter(v, t).cur = v.cur /\ Enter(v, t).done = v.done
           /\ Enter(v, t).to = t /\ Enter(v, t).pc \in {"write", "close"}
BY DEF Enter, Runs

LEMMA EnterUnlessDoneRun ==
    ASSUME NEW v \in Runs, NEW s \in Stages
    PROVE  /\ EnterUnlessDone(v, s).done = v.done
           /\ EnterUnlessDone(v, s).to = "Finish" => v.to = "Finish" \/ "Exporting" \in v.done
<1>1. CASE s \notin v.done
  BY <1>1, EnterRun DEF EnterUnlessDone, Targets, Stages
<1>2. CASE s \in v.done
  <2>1. "Finish" \in Targets
    BY DEF Targets
  <2>2. CASE s = "Exporting"
    BY <1>2, <2>1, <2>2, EnterRun DEF EnterUnlessDone
  <2>3. CASE s = "Transcribing"
    BY <1>2, <2>3 DEF EnterUnlessDone, Runs
  <2>4. CASE s \in {"Cleaning", "LlmCorrection", "Summarizing"}
    BY <1>2, <2>4 DEF EnterUnlessDone, Runs
  <2> QED BY <2>2, <2>3, <2>4 DEF Stages
<1> QED BY <1>1, <1>2

LEMMA ExportWorkerStep ==
    ASSUME ExportInv, NEW j \in Jobs, WorkerStep(j)
    PROVE  ExportKnown' /\ DoneMeansAnnounced'
<1> DEFINE v == w[j]
<1>t. /\ w \in [Jobs -> Runs] /\ job \in [Jobs -> Row] /\ v \in Runs /\ v.row \in Row
      /\ stage \in [Jobs -> StageRows]
  BY DEF ExportInv, TypeOK, Runs
<1>k. ExportKnownOf(j)
  BY DEF ExportInv, ExportKnown
<1>r. ASSUME NEW u, Run(j, u) PROVE w'[j] = u /\ \A k \in Jobs \ {j} : w'[k] = w[k]
  BY <1>r, <1>t DEF Run
<1>g. ASSUME NEW pc, Goto(j, pc)
      PROVE  /\ w'[j].pc = pc /\ w'[j].row = v.row /\ w'[j].cur = v.cur /\ w'[j].done = v.done
             /\ w'[j].to = v.to /\ w'[j].tr = v.tr /\ w'[j].ver = v.ver
             /\ \A k \in Jobs \ {j} : w'[k] = w[k]
  <2> DEFINE u == [v EXCEPT !.pc = pc]
  <2>1. /\ u.pc = pc /\ u.row = v.row /\ u.cur = v.cur /\ u.done = v.done
        /\ u.to = v.to /\ u.tr = v.tr /\ u.ver = v.ver
    BY <1>t DEF Runs
  <2>2. w'[j] = u /\ \A k \in Jobs \ {j} : w'[k] = w[k]
    BY <1>g, <1>r DEF Goto
  <2> HIDE DEF u
  <2> QED BY <2>1, <2>2
<1>s. ASSUME NEW x, NEW pc, Save(j, x, pc)
      PROVE  /\ job'[j] = x /\ w'[j].pc = pc /\ w'[j].row = x /\ w'[j].cur = v.cur
             /\ w'[j].done = v.done /\ w'[j].to = v.to
             /\ \A k \in Jobs \ {j} : job'[k] = job[k] /\ w'[k] = w[k]
  <2> DEFINE u == [v EXCEPT !.row = x, !.pc = pc]
  <2>1. u.pc = pc /\ u.row = x /\ u.cur = v.cur /\ u.done = v.done /\ u.to = v.to
    BY <1>t DEF Runs
  <2>2. Run(j, u) /\ job' = [job EXCEPT ![j] = x]
    BY <1>s DEF Save
  <2>3. w'[j] = u /\ \A k \in Jobs \ {j} : w'[k] = w[k]
    BY <2>2, <1>r
  <2> HIDE DEF u
  <2> QED BY <2>1, <2>2, <2>3, <1>t
\* A step that enters a stage or passes it by, from a place that is not in the export.
<1>e. ASSUME NEW u \in Runs, NEW s \in Stages, Run(j, EnterUnlessDone(u, s)),
             u.row = v.row, u.cur = v.cur, u.done = v.done, u.to = v.to,
             UNCHANGED <<job, stage, skips, notes, announced>>,
             v.pc \notin {"Exporting", "announce", "cancelled", "unregister"}
      PROVE  QuietStep(j)
  <2> DEFINE x == EnterUnlessDone(u, s)
  <2>1. /\ x.row = v.row /\ x.cur = v.cur /\ x.done = v.done
        /\ x.to = "Finish" => v.to = "Finish" \/ "Exporting" \in v.done
        /\ x.pc \notin {"announce", "updateRecording"}
    BY <1>e, EnterUnlessDoneRun, EnterUnlessDoneEffect
  <2>2. w'[j] = x /\ \A k \in Jobs \ {j} : w'[k] = w[k]
    BY <1>e, <1>r
  <2> HIDE DEF x
  <2> QED BY <1>e, <2>1, <2>2, <1>k DEF QuietStep, ExportKnownOf
\* A step that writes the copy.
<1>w. ASSUME NEW x, NEW pc \in {"unregister", "Finish", "publish", "transcribe", "openStage"}, Save(j, x, pc),
             x.status = "Done" => v.row.status = "Done" \/ v.to = "Finish",
             UNCHANGED <<skips, notes, announced>>,
             \A k \in Jobs \ {j} : stage'[k] = stage[k],
             stage'[j]["Exporting"] \cap Completed # {} => stage[j]["Exporting"] \cap Completed # {},
             v.pc \notin {"Exporting", "announce", "cancelled", "unregister"} \/ pc = "unregister"
      PROVE  QuietStep(j)
  BY <1>w, <1>s, <1>k DEF QuietStep, ExportKnownOf
<1>m. ASSUME QuietStep(j) PROVE ExportKnown' /\ DoneMeansAnnounced'
  BY <1>m, QuietStepKeeps
<1>1. CASE Load(j)
  <2>1. CASE job[j].status \in InFlight \cup {"Queued"}
    <3> DEFINE u == [IdleRun EXCEPT !.pc = "begin", !.row = job[j]]
    <3>1. u.pc = "begin" /\ u.row = job[j] /\ u.cur = "none" /\ u.done = {} /\ u.to = "Preflight"
      BY DEF IdleRun
    <3>2. w'[j] = u /\ \A k \in Jobs \ {j} : w'[k] = w[k]
      BY <1>1, <2>1, <1>r DEF Load
    <3> HIDE DEF u
    <3> QED BY <1>1, <2>1, <3>1, <3>2, <1>m DEF Load, QuietStep, InFlight
  <2>2. CASE job[j].status \notin InFlight \cup {"Queued"}
    BY <1>1, <2>2, <1>m DEF Load, At, QuietStep
  <2> QED BY <2>1, <2>2
<1>2. CASE Begin(j)
  BY <1>2, <1>g, <1>m DEF Begin, At, QuietStep
<1>3. CASE PauseAtStart(j)
  <2> DEFINE x == [v.row EXCEPT !.status = "Paused"]
  <2>1. x.status = "Paused"
    BY <1>t DEF Row
  <2>2. Save(j, x, "unregister")
    BY <1>3 DEF PauseAtStart
  <2> HIDE DEF x
  <2> QED BY <1>3, <2>1, <2>2, <1>w, <1>m DEF PauseAtStart
<1>4. CASE ReadStages(j)
  <2> DEFINE u == [v EXCEPT !.done = CompletedStages(j)]
  <2>1. /\ u \in Runs /\ u.row = v.row /\ u.cur = v.cur /\ u.done = CompletedStages(j)
        /\ "Preflight" \in Targets
    BY <1>t DEF Runs, CompletedStages, Targets
  <2>2. CASE Run(j, Enter(u, "Preflight"))
    <3> HIDE DEF u
    <3> DEFINE x == Enter(u, "Preflight")
    <3>1. x.row = v.row /\ x.cur = v.cur /\ x.done = CompletedStages(j) /\ x.to = "Preflight"
          /\ x.pc \in {"write", "close"}
      BY <2>1, EnterRun
    <3>2. w'[j] = x /\ \A k \in Jobs \ {j} : w'[k] = w[k]
      BY <2>2, <1>r
    <3>3. "Exporting" \in CompletedStages(j) => Exported(j)
      BY <1>k DEF CompletedStages, ExportKnownOf
    <3> HIDE DEF x
    <3> QED BY <1>4, <3>1, <3>2, <3>3, <1>m DEF ReadStages, Proceeds, At, QuietStep
  <2>3. CASE Goto(j, "fail")
    BY <1>4, <2>3, <1>g, <1>m DEF ReadStages, Proceeds, At, QuietStep
  <2> QED BY <1>4, <2>2, <2>3 DEF ReadStages
<1>c. ASSUME NEW o \in {"done", "failed"}, CloseStage(j, o),
             o = "done" => v.pc = "close"
      PROVE  /\ \A k \in Jobs \ {j} : stage'[k] = stage[k]
             /\ stage'[j]["Exporting"] \cap Completed # {} =>
                  stage[j]["Exporting"] \cap Completed # {} \/ Exported(j)
  <2>1. CASE v.cur \notin Stages
    BY <1>c, <2>1 DEF CloseStage
  <2>2. CASE v.cur \in Stages
    <3>1. PICK others \in SUBSET stage[j][v.cur] : stage' = [stage EXCEPT ![j][v.cur] = others \cup {o}]
      BY <1>c, <2>2 DEF CloseStage
    <3>2. v.cur # "Exporting" => stage'[j]["Exporting"] = stage[j]["Exporting"]
      BY <2>2, <3>1, <1>t DEF StageRows, Stages
    <3>3. v.cur = "Exporting" => stage'[j]["Exporting"] = others \cup {o}
      BY <2>2, <3>1, <1>t DEF StageRows, Stages
    <3>4. v.cur = "Exporting" /\ o = "done" => Exported(j)
      BY <1>c, <1>k DEF ExportKnownOf
    <3> QED BY <3>1, <3>2, <3>3, <3>4, <1>t DEF Completed
  <2> QED BY <2>1, <2>2
<1>o. ASSUME AddStageRow(j)
      PROVE  /\ \A k \in Jobs \ {j} : stage'[k] = stage[k]
             /\ stage'[j]["Exporting"] \cap Completed # {} => stage[j]["Exporting"] \cap Completed # {}
  <2>1. CASE v.to \notin Stages
    BY <1>o, <2>1 DEF AddStageRow
  <2>2. CASE v.to \in Stages
    <3>1. stage' = [stage EXCEPT ![j][v.to] = stage[j][v.to] \cup {"open"}]
      BY <1>o, <2>2, <1>t DEF AddStageRow
    <3>2. stage'[j]["Exporting"] \in {stage[j]["Exporting"], stage[j]["Exporting"] \cup {"open"}}
      BY <2>2, <3>1, <1>t DEF StageRows, Stages
    <3> QED BY <3>1, <3>2, <1>t DEF Completed
  <2> QED BY <2>1, <2>2
<1>5. CASE Reload(j)
  <2> DEFINE row == [v.row EXCEPT !.status = "Paused", !.pauseReq = TRUE]
             paused == [v EXCEPT !.pc = "pauseWrite", !.row = row]
             reloaded == [v EXCEPT !.pc = "write"]
  <2>1. /\ paused.pc = "pauseWrite" /\ paused.row.status = "Paused" /\ paused.cur = v.cur
        /\ paused.done = v.done /\ paused.to = v.to
    BY <1>t DEF Runs, Row
  <2>2. /\ reloaded.pc = "write" /\ reloaded.row = v.row /\ reloaded.cur = v.cur
        /\ reloaded.done = v.done /\ reloaded.to = v.to
    BY <1>t DEF Runs
  <2>3. w'[j] \in {paused, reloaded} /\ \A k \in Jobs \ {j} : w'[k] = w[k]
    BY <1>5, <1>r DEF Reload
  <2>4. v.pc = "reload" /\ UNCHANGED <<job, stage, skips, notes, announced>>
    BY <1>5 DEF Reload, Proceeds, At
  <2> HIDE DEF paused, reloaded
  <2> QED BY <2>1, <2>2, <2>3, <2>4, <1>m DEF QuietStep
<1>6. CASE PauseWrite(j)
  BY <1>6, <1>w, <1>m DEF PauseWrite, Proceeds, At
<1>7. CASE Write(j)
  <2> DEFINE x == [v.row EXCEPT !.status = StatusOf[v.to]]
             pc == IF v.to = "Finish" THEN "Finish" ELSE "openStage"
  <2>1. x.status = StatusOf[v.to]
    BY <1>t DEF Row, Runs
  <2>2. x.status = "Done" => v.to = "Finish"
    BY <2>1, <1>t DEF Runs, StatusOf, Targets, Stages
  <2>3. Save(j, x, pc) /\ pc \in {"Finish", "openStage"} /\ v.pc = "write" /\ UNCHANGED store
    BY <1>7 DEF Write, Proceeds, At
  <2> HIDE DEF x, pc
  <2> QED BY <2>2, <2>3, <1>w, <1>m
<1>8. CASE PreflightPasses(j)
  BY <1>8, <1>e, <1>t, <1>m DEF PreflightPasses, Proceeds, At, Stages
<1>9. CASE PreflightFails(j)
  <2> DEFINE x == [v.row EXCEPT !.status = "Failed"]
  <2>1. x.status = "Failed"
    BY <1>t DEF Row
  <2>2. Save(j, x, "publish")
    BY <1>9 DEF PreflightFails
  <2> HIDE DEF x
  <2> QED BY <1>9, <2>1, <2>2, <1>w, <1>m DEF PreflightFails, Proceeds, At
<1>10. CASE LoadTranscript(j)
  <2> DEFINE u == [v EXCEPT !.tr = transcripts[RecordingOf[j]]]
  <2>1. /\ u \in Runs /\ u.row = v.row /\ u.cur = v.cur /\ u.done = v.done /\ u.to = v.to
        /\ "Cleaning" \in Stages
    <3>1. transcripts[RecordingOf[j]] \in Nat
      BY DEF ExportInv, TypeOK
    <3> QED BY <3>1, <1>t DEF Runs, Stages
  <2>2. CASE Goto(j, "fail")
    BY <1>10, <2>2, <1>g, <1>m DEF LoadTranscript, Proceeds, At, QuietStep
  <2>3. CASE Run(j, EnterUnlessDone(u, "Cleaning"))
    BY <1>10, <2>1, <2>3, <1>e, <1>m DEF LoadTranscript, Proceeds, At
  <2> QED BY <1>10, <2>2, <2>3 DEF LoadTranscript
<1>11. CASE SetStartedAt(j)
  BY <1>11, <1>w, <1>m DEF SetStartedAt, Proceeds, At
<1>12. CASE Transcribe(j)
  <2> DEFINE u == [v EXCEPT !.tr = transcripts[RecordingOf[j]] + 1]
  <2>1. /\ u \in Runs /\ u.row = v.row /\ u.cur = v.cur /\ u.done = v.done /\ u.to = v.to
        /\ "Cleaning" \in Stages
    <3>1. transcripts[RecordingOf[j]] + 1 \in Nat
      BY DEF ExportInv, TypeOK
    <3> QED BY <3>1, <1>t DEF Runs, Stages
  <2> QED BY <1>12, <2>1, <1>e, <1>m DEF Transcribe, Proceeds, At
<1>13. CASE Clean(j)
  <2>1. PICK llm \in {"yes", "no", "unknown"} :
             Run(j, EnterUnlessDone([v EXCEPT !.llm = llm],
                                    IF llm = "yes" THEN "LlmCorrection" ELSE "Summarizing"))
    BY <1>13 DEF Clean
  <2> DEFINE u == [v EXCEPT !.llm = llm]
             s == IF llm = "yes" THEN "LlmCorrection" ELSE "Summarizing"
  <2>2. /\ u \in Runs /\ u.row = v.row /\ u.cur = v.cur /\ u.done = v.done /\ u.to = v.to
        /\ s \in Stages
    BY <1>t DEF Runs, Stages
  <2>3. Run(j, EnterUnlessDone(u, s))
    BY <2>1
  <2> HIDE DEF u, s
  <2> QED BY <1>13, <2>2, <2>3, <1>e, <1>m DEF Clean, Proceeds, At
<1>14. CASE LlmCorrect(j)
  BY <1>14, <1>e, <1>t, <1>m DEF LlmCorrect, Proceeds, At, Stages
<1>15. CASE Summarize(j)
  <2>1. PICK n \in 1..MaxVersion : Run(j, EnterUnlessDone([v EXCEPT !.ver = n], "Exporting"))
    BY <1>15 DEF Summarize
  <2> DEFINE u == [v EXCEPT !.ver = n]
  <2>2. /\ u \in Runs /\ u.row = v.row /\ u.cur = v.cur /\ u.done = v.done /\ u.to = v.to
        /\ "Exporting" \in Stages
    BY <1>t DEF Runs, Stages
  <2>3. Run(j, EnterUnlessDone(u, "Exporting"))
    BY <2>1
  <2> HIDE DEF u
  <2> QED BY <1>15, <2>2, <2>3, <1>e, <1>m DEF Summarize, Proceeds, At
\* The two steps of the export proper.
<1>16. CASE AddNote(j)
  <2>1. Goto(j, "announce") /\ notes' = notes \cup {NoteOf(j)} /\ UNCHANGED <<job, stage, skips, announced>>
        /\ v.pc = "Exporting"
    BY <1>16 DEF AddNote, Proceeds, At
  <2>2. \A k \in Jobs : NoteOf(k)' = NoteOf(k)
    BY <2>1, <1>g DEF NoteOf
  <2>3. \A k \in Jobs : Exported(k)' = Exported(k)
    BY <2>1 DEF Exported
  <2>4. ASSUME NEW k \in Jobs PROVE ExportKnownOf(k)'
    BY <2>1, <2>2, <2>3, <2>4, <1>g DEF ExportInv, ExportKnown, ExportKnownOf
  <2>5. DoneMeansAnnounced'
    BY <2>1, <2>3 DEF ExportInv, DoneMeansAnnounced
  <2> QED BY <2>4, <2>5 DEF ExportKnown
<1>17. CASE PublishNote(j)
  <2>1. Goto(j, "updateRecording") /\ announced' = announced \cup {NoteOf(j)}
        /\ UNCHANGED <<job, stage, skips, notes>> /\ v.pc = "announce"
    BY <1>17 DEF PublishNote, Proceeds, At
  <2>2. \A k \in Jobs : NoteOf(k)' = NoteOf(k)
    BY <2>1, <1>g DEF NoteOf
  <2>3. NoteOf(j).job = j /\ NoteOf(j) \in notes
    BY <2>1, <1>k DEF NoteOf, ExportKnownOf
  <2>4. (\A k \in Jobs : Exported(k) => Exported(k)') /\ Exported(j)'
    BY <2>1, <2>3 DEF Exported
  <2>5. ASSUME NEW k \in Jobs PROVE ExportKnownOf(k)'
    BY <2>1, <2>2, <2>4, <2>5, <1>g DEF ExportInv, ExportKnown, ExportKnownOf
  <2>6. DoneMeansAnnounced'
    BY <2>1, <2>3, <2>4 DEF ExportInv, DoneMeansAnnounced
  <2> QED BY <2>5, <2>6 DEF ExportKnown
<1>18. CASE UpdateRecording(j)
  <2>1. CASE Goto(j, "unregister")
    BY <1>18, <2>1, <1>g, <1>m DEF UpdateRecording, Proceeds, At, QuietStep
  <2>2. CASE Run(j, Enter(v, "Finish"))
    <3> DEFINE x == Enter(v, "Finish")
    <3>1. x.row = v.row /\ x.cur = v.cur /\ x.done = v.done /\ x.pc \in {"write", "close"}
      BY <1>t, EnterRun DEF Targets
    <3>2. w'[j] = x /\ \A k \in Jobs \ {j} : w'[k] = w[k]
      BY <2>2, <1>r
    <3> HIDE DEF x
    <3> QED BY <1>18, <3>1, <3>2, <1>k, <1>m DEF UpdateRecording, Proceeds, At, QuietStep, ExportKnownOf
  <2> QED BY <1>18, <2>1, <2>2 DEF UpdateRecording
<1>19. CASE Finish(j)
  BY <1>19, <1>w, <1>m DEF Finish, Proceeds, At
<1>20. CASE EngineFails(j)
  BY <1>20, <1>g, <1>m DEF EngineFails, Proceeds, At, QuietStep
<1>21. CASE LlmTimesOut(j)
  BY <1>21, <1>g, <1>m DEF LlmTimesOut, Proceeds, At, QuietStep
<1>22. CASE ThrowCancelled(j)
  <2>1. PICK pc \in {"unregister", "cancelled"} : Goto(j, pc)
    BY <1>22 DEF ThrowCancelled
  <2>2. UNCHANGED <<job, skips, announced>> /\ notes \subseteq notes'
    BY <1>22 DEF ThrowCancelled
  <2>3. /\ \A k \in Jobs \ {j} : stage'[k] = stage[k]
        /\ stage'[j]["Exporting"] \cap Completed # {} =>
             stage[j]["Exporting"] \cap Completed # {} \/ Exported(j)
    <3>1. CASE v.pc = "close"
      BY <1>22, <3>1, <1>c DEF ThrowCancelled
    <3>2. CASE v.pc # "close"
      <4>1. AddStageRow(j) \/ UNCHANGED stage
        BY <1>22, <3>2 DEF ThrowCancelled
      <4> QED BY <4>1, <1>o
    <3> QED BY <3>1, <3>2
  <2> QED BY <2>1, <2>2, <2>3, <1>g, <1>m DEF QuietStep
<1>23. CASE MarkFailed(j)
  <2> DEFINE x == [v.row EXCEPT !.status = "Failed"]
  <2>1. x.status = "Failed"
    BY <1>t DEF Row
  <2>2. Save(j, x, "unregister") /\ CloseStage(j, "failed") /\ UNCHANGED <<skips, notes, announced>>
    BY <1>23 DEF MarkFailed
  <2>3. /\ \A k \in Jobs \ {j} : stage'[k] = stage[k]
        /\ stage'[j]["Exporting"] \cap Completed # {} =>
             stage[j]["Exporting"] \cap Completed # {} \/ Exported(j)
    BY <2>2, <1>c
  <2> HIDE DEF x
  <2>4. QuietStep(j)
    BY <2>1, <2>2, <2>3, <1>s DEF QuietStep
  <2> QED BY <2>4, <1>m
<1>24. CASE MarkCancelled(j)
  <2> DEFINE x == [v.row EXCEPT !.status = "Cancelled"]
  <2>1. x.status = "Cancelled"
    BY <1>t DEF Row
  <2>2. Save(j, x, "unregister")
    BY <1>24 DEF MarkCancelled
  <2> HIDE DEF x
  <2> QED BY <1>24, <2>1, <2>2, <1>w, <1>m DEF MarkCancelled
<1>25. CASE Unregister(j)
  <2>1. w'[j] = IdleRun /\ (\A k \in Jobs \ {j} : w'[k] = w[k]) /\ UNCHANGED <<job, store>>
    BY <1>25, <1>r DEF Unregister
  <2>2. /\ IdleRun.pc = "idle" /\ IdleRun.row.status = "Absent" /\ IdleRun.cur = "none"
        /\ IdleRun.done = {} /\ IdleRun.to = "Preflight"
    BY DEF IdleRun, NoRow
  <2> QED BY <2>1, <2>2, <1>m DEF QuietStep
<1>26. CASE CloseStageRow(j)
  <2> DEFINE u == [v EXCEPT !.cur = "none", !.pc = "reload"]
  <2>1. u.pc = "reload" /\ u.row = v.row /\ u.cur = "none" /\ u.done = v.done /\ u.to = v.to
    BY <1>t DEF Runs
  <2>2. w'[j] = u /\ \A k \in Jobs \ {j} : w'[k] = w[k]
    BY <1>26, <1>r DEF CloseStageRow
  <2>3. CloseStage(j, "done") /\ v.pc = "close" /\ UNCHANGED <<job, skips, notes, announced>>
    BY <1>26 DEF CloseStageRow, Proceeds, At
  <2> HIDE DEF u
  <2> QED BY <2>1, <2>2, <2>3, <1>c, <1>m DEF QuietStep
<1>27. CASE OpenStageRow(j)
  <2> DEFINE u == [v EXCEPT !.cur = v.to, !.pc = v.to]
  <2>1. /\ u.pc = v.to /\ u.row = v.row /\ u.cur = v.to /\ u.done = v.done /\ u.to = v.to
        /\ v.to \notin {"announce", "updateRecording"}
    BY <1>t DEF Runs, Targets, Stages
  <2>2. w'[j] = u /\ \A k \in Jobs \ {j} : w'[k] = w[k]
    BY <1>27, <1>r DEF OpenStageRow
  <2>3. AddStageRow(j) /\ UNCHANGED <<job, skips, notes, announced>>
    BY <1>27 DEF OpenStageRow
  <2> HIDE DEF u
  <2> QED BY <2>1, <2>2, <2>3, <1>o, <1>m DEF QuietStep
<1> QED BY <1>26, <1>27, <1>1, <1>2, <1>3, <1>4, <1>5, <1>6, <1>7, <1>8, <1>9, <1>10, <1>11, <1>12, <1>13, <1>14, <1>15, <1>16, <1>17, <1>18, <1>19, <1>20, <1>21, <1>22, <1>23, <1>24, <1>25 DEF WorkerStep

\* A request step announces nothing, and marks no Exporting row done; a row it marks SKIPPED
\* is remembered in skips.
LEMMA ExportRequestStep ==
    ASSUME ExportInv, NEW r \in Requests, Receive(r) \/ RequestStep(r)
    PROVE  ExportKnown' /\ DoneMeansAnnounced'
<1>t. job \in [Jobs -> Row] /\ req \in [Requests -> RequestStates] /\ stage \in [Jobs -> StageRows]
      /\ skips \in [Jobs -> SUBSET Stages]
  BY DEF ExportInv, TypeOK
<1>a. ASSUME UNCHANGED <<w, notes, announced>>,
             \A k \in Jobs : skips[k] \subseteq skips'[k],
             \A k \in Jobs : stage'[k]["Exporting"] \cap Completed # {} =>
               stage'[k]["Exporting"] = stage[k]["Exporting"] \/ "Exporting" \in skips'[k],
             \A k \in Jobs : job'[k].status = "Done" => job[k].status = "Done"
      PROVE  ExportKnown' /\ DoneMeansAnnounced'
  <2>1. \A k \in Jobs : Exported(k) => Exported(k)'
    BY <1>a DEF Exported
  <2>2. \A k \in Jobs : "Exporting" \in skips'[k] => Exported(k)'
    BY DEF Exported
  <2>3. \A k \in Jobs : NoteOf(k)' = NoteOf(k)
    BY <1>a DEF NoteOf
  <2>4. ASSUME NEW k \in Jobs PROVE ExportKnownOf(k)'
    BY <1>a, <2>1, <2>2, <2>3, <2>4 DEF ExportInv, ExportKnown, ExportKnownOf
  <2> QED BY <1>a, <2>1, <2>4 DEF ExportKnown, ExportInv, DoneMeansAnnounced
<1>1. CASE CancelQueued(r)
  <2> DEFINE x == [req[r].seen EXCEPT !.status = "Cancelled", !.cancelReq = TRUE]
  <2>1. x.status = "Cancelled"
    BY <1>t DEF RequestStates, Row
  <2>2. job' = [job EXCEPT ![req[r].job] = x] /\ UNCHANGED <<store, w>>
    BY <1>1 DEF CancelQueued
  <2> HIDE DEF x
  <2> QED BY <2>1, <2>2, <1>a, <1>t
<1>2. CASE RequestRetryFromStage(r)
  <2> DEFINE j == req[r].job
             rows == RowsAfterRetry(stage[j], req[r].from, req[r].skip)
  <2>1. rows["Exporting"] \cap Completed # {} =>
         rows["Exporting"] = stage[j]["Exporting"] \/ "skipped" \in rows["Exporting"]
    BY DEF RowsAfterRetry, Stages, Completed
  <2>2. /\ job' = [job EXCEPT ![j] = NewRow] /\ stage' = [stage EXCEPT ![j] = rows]
        /\ skips' = [skips EXCEPT ![j] = @ \cup {s \in Stages : "skipped" \in rows[s]}]
        /\ UNCHANGED <<notes, announced, w>>
    BY <1>2 DEF RequestRetryFromStage
  <2> HIDE DEF rows
  <2>3. \A k \in Jobs : job'[k].status = "Done" => job[k].status = "Done"
    BY <2>2, <1>t DEF NewRow
  <2>4. \A k \in Jobs : skips[k] \subseteq skips'[k]
    BY <2>2, <1>t
  <2>5. \A k \in Jobs : stage'[k]["Exporting"] \cap Completed # {} =>
               stage'[k]["Exporting"] = stage[k]["Exporting"] \/ "Exporting" \in skips'[k]
    BY <2>1, <2>2, <1>t DEF Stages
  <2> QED BY <2>2, <2>3, <2>4, <2>5, <1>a
<1>3. CASE SetCancelRequested(r)
  BY <1>3, <1>a, <1>t DEF SetCancelRequested, Row
<1>4. CASE SetPauseRequested(r)
  BY <1>4, <1>a, <1>t DEF SetPauseRequested, Row
<1>5. CASE ClearPauseRequested(r)
  BY <1>5, <1>a, <1>t DEF ClearPauseRequested, Row
<1>6. ASSUME NEW k \in Jobs, Enqueue(r, k) PROVE ExportKnown' /\ DoneMeansAnnounced'
  BY <1>6, <1>a, <1>t DEF Enqueue, NewRow
<1>7. CASE UNCHANGED <<job, stage, skips, notes, announced, w>>
  BY <1>7, <1>a
<1> QED BY <1>1, <1>2, <1>3, <1>4, <1>5, <1>6, <1>7
        DEF Receive, RequestStep, CancelJob, PauseJob, ResumeJob, RetryJobFromStage, DeleteRecording,
            Schedule, TryCancel, Requeue, Reread

LEMMA ExportProcessStep ==
    ASSUME ExportInv, Crash \/ Rehydrate
    PROVE  ExportKnown' /\ DoneMeansAnnounced'
<1>1. UNCHANGED store
  BY DEF Crash, Rehydrate
<1>2. \A k \in Jobs : Exported(k)' = Exported(k)
  BY <1>1 DEF Exported
<1>3. ASSUME NEW k \in Jobs PROVE job'[k].status = "Done" => job[k].status = "Done"
  BY <1>3 DEF Crash, Rehydrate, ExportInv, TypeOK, Row
<1>4. DoneMeansAnnounced'
  BY <1>1, <1>2, <1>3 DEF ExportInv, DoneMeansAnnounced
<1>5. CASE Crash
  <2>1. \A j \in Jobs : w'[j] = IdleRun
    BY <1>5 DEF Crash
  <2>2. /\ IdleRun.pc = "idle" /\ IdleRun.row.status = "Absent" /\ IdleRun.cur = "none"
        /\ IdleRun.done = {} /\ IdleRun.to = "Preflight"
    BY DEF IdleRun, NoRow
  <2> QED BY <1>1, <1>2, <1>4, <2>1, <2>2 DEF ExportInv, ExportKnown, ExportKnownOf
<1>6. CASE Rehydrate
  <2>1. w' = w
    BY <1>6 DEF Rehydrate
  <2>2. \A k \in Jobs : NoteOf(k)' = NoteOf(k)
    BY <2>1 DEF NoteOf
  <2> QED BY <1>1, <1>2, <1>4, <2>1, <2>2 DEF ExportInv, ExportKnown, ExportKnownOf
<1> QED BY <1>5, <1>6

LEMMA ExportInit == Init => ExportInv
<1> SUFFICES ASSUME Init PROVE ExportInv
  OBVIOUS
<1>1. /\ IdleRun.pc = "idle" /\ IdleRun.row.status = "Absent" /\ IdleRun.cur = "none"
      /\ IdleRun.done = {} /\ IdleRun.to = "Preflight" /\ NoRow.status = "Absent"
  BY DEF IdleRun, NoRow
<1>2. \A j \in Jobs : stage[j]["Exporting"] = {} /\ w[j] = IdleRun /\ job[j] = NoRow
  BY DEF Init, Stages
<1>3. ExportKnown
  BY <1>1, <1>2 DEF ExportKnown, ExportKnownOf
<1>4. DoneMeansAnnounced
  BY <1>1, <1>2 DEF Init, DoneMeansAnnounced
<1> QED BY <1>3, <1>4, TypeInit DEF ExportInv

LEMMA ExportNext == ExportInv /\ [Next]_vars => ExportInv'
<1>1. ASSUME ExportInv, UNCHANGED vars PROVE ExportKnown' /\ DoneMeansAnnounced'
  BY <1>1 DEF ExportInv, vars, ExportKnown, ExportKnownOf, DoneMeansAnnounced, Exported, NoteOf
<1>2. ASSUME ExportInv, Next PROVE ExportKnown' /\ DoneMeansAnnounced'
  BY <1>2, ExportWorkerStep, ExportRequestStep, ExportProcessStep DEF Next
<1> QED BY <1>1, <1>2, TypeNext DEF ExportInv

\* A job is Done only after a note of its own was saved and announced, or its export was skipped
\* on request: through any history of crashes, retries, pauses, cancels and resumed runs.
THEOREM DoneWasAnnounced == Spec => []DoneMeansAnnounced
<1>1. Spec => []ExportInv
  BY ExportInit, ExportNext, PTL DEF Spec
<1>2. ExportInv => DoneMeansAnnounced
  BY DEF ExportInv
<1> QED BY <1>1, <1>2, PTL

(****************************************************************************)
(* What a run that resumes an earlier one finds and repeats, and what a run *)
(* leaves when it ends.                                                     *)
(****************************************************************************)

---------------------------------------------------------------------------
(* What the steps of a run are built from.                                 *)

LEMMA RankOrder ==
    /\ \A t \in Targets : Rank[t] \in 0 .. 6
    /\ Rank["Preflight"] = 0 /\ Rank["Transcribing"] = 1 /\ Rank["Cleaning"] = 2
    /\ Rank["LlmCorrection"] = 3 /\ Rank["Summarizing"] = 4 /\ Rank["Exporting"] = 5
    /\ Rank["Finish"] = 6
BY DEF Rank, Targets, Stages

LEMMA RunEffect ==
    ASSUME TypeOK, NEW j \in Jobs, NEW u, Run(j, u)
    PROVE  w'[j] = u /\ \A k \in Jobs \ {j} : w'[k] = w[k]
BY DEF Run, TypeOK

LEMMA GotoEffect ==
    ASSUME TypeOK, NEW j \in Jobs, NEW pc, Goto(j, pc)
    PROVE  /\ w'[j].pc = pc /\ w'[j].row = w[j].row /\ w'[j].cur = w[j].cur
           /\ w'[j].done = w[j].done /\ w'[j].to = w[j].to
           /\ \A k \in Jobs \ {j} : w'[k] = w[k]
<1> DEFINE u == [w[j] EXCEPT !.pc = pc]
<1>1. u.pc = pc /\ u.row = w[j].row /\ u.cur = w[j].cur /\ u.done = w[j].done /\ u.to = w[j].to
  BY DEF TypeOK, Runs
<1>2. Run(j, u)
  BY DEF Goto
<1> HIDE DEF u
<1> QED BY <1>1, <1>2, RunEffect

LEMMA SaveEffect ==
    ASSUME TypeOK, NEW j \in Jobs, NEW x, NEW pc, Save(j, x, pc)
    PROVE  /\ job'[j] = x /\ w'[j].pc = pc /\ w'[j].row = x /\ w'[j].cur = w[j].cur
           /\ w'[j].done = w[j].done /\ w'[j].to = w[j].to
           /\ \A k \in Jobs \ {j} : job'[k] = job[k] /\ w'[k] = w[k]
<1> DEFINE u == [w[j] EXCEPT !.row = x, !.pc = pc]
<1>1. u.pc = pc /\ u.row = x /\ u.cur = w[j].cur /\ u.done = w[j].done /\ u.to = w[j].to
  BY DEF TypeOK, Runs
<1>2. Run(j, u) /\ job' = [job EXCEPT ![j] = x]
  BY DEF Save
<1> HIDE DEF u
<1> QED BY <1>1, <1>2, RunEffect DEF TypeOK

\* Entering a target, or passing by a completed stage, moves a run forward.
LEMMA EnterMoves ==
    ASSUME NEW v \in Runs, NEW t \in Targets
    PROVE  /\ Enter(v, t).cur = v.cur /\ Enter(v, t).done = v.done /\ Enter(v, t).to = t
           /\ Enter(v, t).row = v.row /\ Enter(v, t).pc \in {"write", "close"}
           /\ Place(Enter(v, t)) = t
BY DEF Enter, Runs, Place, Entering

LEMMA EnterUnlessDoneMoves ==
    ASSUME NEW v \in Runs, NEW s \in Stages
    PROVE  LET x == EnterUnlessDone(v, s) IN
           /\ x.cur = v.cur /\ x.done = v.done /\ x.row = v.row
           /\ x.pc \in {"write", "close", "loadTranscript", "Cleaning", "LlmCorrection", "Summarizing"}
           /\ x.pc = "loadTranscript" => "Transcribing" \in v.done
           /\ x.pc \in Entering => x.to \notin v.done
           /\ Place(x) \in Targets /\ Rank[Place(x)] >= Rank[s]
<1> DEFINE x == EnterUnlessDone(v, s)
<1>1. CASE s \notin v.done
  BY <1>1, EnterMoves, RankOrder DEF EnterUnlessDone, Targets
<1>2. CASE s \in v.done /\ s = "Transcribing"
  <2>1. x = [v EXCEPT !.pc = "loadTranscript"]
    BY <1>2 DEF EnterUnlessDone
  <2> QED BY <1>2, <2>1, RankOrder DEF Runs, Place, Entering, Targets, Stages
<1>3. CASE s \in v.done /\ s = "Exporting"
  <2>1. x = Enter(v, "Finish") /\ "Finish" \in Targets /\ "Finish" \notin v.done
    BY <1>3 DEF EnterUnlessDone, Targets, Runs, Stages
  <2> QED BY <1>3, <2>1, EnterMoves, RankOrder
<1>4. CASE s \in v.done /\ s \in {"Cleaning", "LlmCorrection", "Summarizing"}
  <2>1. x = [v EXCEPT !.pc = s]
    BY <1>4 DEF EnterUnlessDone
  <2>2. x.pc = s /\ x.cur = v.cur /\ x.done = v.done /\ x.row = v.row /\ s \in Targets
    BY <2>1 DEF Runs, Targets
  <2>3. Place(x) = s /\ x.pc \notin Entering
    BY <1>4, <2>2 DEF Place, Entering
  <2>4. Rank[Place(x)] >= Rank[s]
    BY <2>2, <2>3, RankOrder
  <2> HIDE DEF x
  <2>5. /\ x.cur = v.cur /\ x.done = v.done /\ x.row = v.row
        /\ x.pc \in {"write", "close", "loadTranscript", "Cleaning", "LlmCorrection", "Summarizing"}
        /\ x.pc = "loadTranscript" => "Transcribing" \in v.done
        /\ x.pc \in Entering => x.to \notin v.done
        /\ Place(x) \in Targets /\ Rank[Place(x)] >= Rank[s]
    BY <1>4, <2>2, <2>3, <2>4
  <2> QED BY <2>5 DEF x
<1> QED BY <1>1, <1>2, <1>3, <1>4 DEF Stages

\* ... and stays in order.
LEMMA EnterInOrder ==
    ASSUME NEW v \in Runs, NEW rows, NEW s \in Stages, InOrder(v, rows),
           Place(v) \in Targets, v.pc \notin Entering, Rank[Place(v)] < Rank[s],
           NEW u \in Runs, u.cur = v.cur, u.done = v.done
    PROVE  InOrder(EnterUnlessDone(u, s), rows)
<1> DEFINE x == EnterUnlessDone(u, s)
<1>1. /\ x.cur = v.cur /\ x.done = v.done
      /\ x.pc \in {"write", "close", "loadTranscript", "Cleaning", "LlmCorrection", "Summarizing"}
      /\ x.pc \in Entering => x.to \notin v.done
      /\ Place(x) \in Targets /\ Rank[Place(x)] >= Rank[s]
  BY EnterUnlessDoneMoves
<1>2. "none" \notin Targets /\ Stages \subseteq Targets
  BY DEF Targets, Stages
<1>3. \A t \in Targets : Rank[t] \in Nat
  BY RankOrder
<1>4. Place(v) # "none" /\ Rank[Place(v)] \in Nat /\ Rank[Place(x)] \in Nat /\ Rank[s] \in Nat
  BY <1>1, <1>2, <1>3
<1> HIDE DEF x
<1>5. x.pc \notin {"begin", "pauseAtStart", "stages"} \cup
               {"Transcribing", "transcribe", "Exporting", "announce", "updateRecording"}
  BY <1>1
<1>6. Rank[Place(v)] < Rank[Place(x)]
  BY <1>1, <1>4
<1>7. ASSUME NEW t \in Stages
      PROVE  /\ "done" \in rows[t] => t \in x.done \/ Rank[t] < Rank[Place(x)]
             /\ x.cur = t => Rank[t] < Rank[Place(x)]
  <2>1. Rank[t] \in Nat
    BY <1>2, <1>3
  <2>2. "done" \in rows[t] => t \in v.done \/ Rank[t] < Rank[Place(v)]
    BY <1>4 DEF InOrder
  <2>3. v.cur = t => Rank[t] < Rank[Place(v)] \/ Rank[t] = Rank[Place(v)]
    BY <1>4 DEF InOrder
  <2> QED BY <1>1, <1>4, <1>6, <2>1, <2>2, <2>3
<1>8. InOrder(x, rows)
  BY <1>1, <1>5, <1>7 DEF InOrder
<1> QED BY <1>8 DEF x
---------------------------------------------------------------------------
(* A step of a run.                                                        *)

\* A run's step concerns its own row, stages and copy; no transcript is lost.
OwnStep(j) ==
    /\ \A k \in Jobs \ {j} : job'[k] = job[k] /\ w'[k] = w[k] /\ stage'[k] = stage[k]
    /\ UNCHANGED <<skips, recordings, process>> /\ up
    /\ transcripts' \in [Recordings -> Nat] /\ \A r \in Recordings : transcripts'[r] >= transcripts[r]

\* Finishing a stage's row marks no other stage; opening one finishes none.
LEMMA CloseStageEffect ==
    ASSUME TypeOK, NEW j \in Jobs, NEW o \in {"done", "failed"}, CloseStage(j, o)
    PROVE  /\ \A k \in Jobs \ {j} : stage'[k] = stage[k]
           /\ \A s \in Stages :
                \/ stage'[j][s] = stage[j][s]
                \/ s = w[j].cur /\ stage'[j][s] \subseteq stage[j][s] \cup {o}
<1>t. stage \in [Jobs -> StageRows]
  BY DEF TypeOK
<1>1. CASE w[j].cur \notin Stages
  BY <1>1 DEF CloseStage
<1>2. CASE w[j].cur \in Stages
  <2>1. PICK others \in SUBSET stage[j][w[j].cur] : stage' = [stage EXCEPT ![j][w[j].cur] = others \cup {o}]
    BY <1>2 DEF CloseStage
  <2> QED BY <1>2, <1>t, <2>1 DEF StageRows
<1> QED BY <1>1, <1>2

LEMMA AddStageRowEffect ==
    ASSUME TypeOK, NEW j \in Jobs, AddStageRow(j)
    PROVE  /\ \A k \in Jobs \ {j} : stage'[k] = stage[k]
           /\ \A s \in Stages : stage'[j][s] \in {stage[j][s], stage[j][s] \cup {"open"}}
BY DEF AddStageRow, TypeOK, StageRows

LEMMA StoreTranscriptEffect ==
    ASSUME TypeOK, NEW j \in Jobs, StoreTranscript(j)
    PROVE  /\ \A r \in Recordings : transcripts'[r] >= transcripts[r]
           /\ transcripts'[RecordingOf[j]] > 0
BY DEF StoreTranscript, TypeOK
LEMMA OwnWorkerStep ==
    ASSUME TypeOK, NEW j \in Jobs, WorkerStep(j)
    PROVE  OwnStep(j)
<1>r. ASSUME NEW u, Run(j, u) PROVE \A k \in Jobs \ {j} : w'[k] = w[k]
  BY <1>r, RunEffect
<1>g. ASSUME NEW pc, Goto(j, pc) PROVE \A k \in Jobs \ {j} : w'[k] = w[k]
  BY <1>g, GotoEffect
<1>s. ASSUME NEW x, NEW pc, Save(j, x, pc)
      PROVE  \A k \in Jobs \ {j} : job'[k] = job[k] /\ w'[k] = w[k]
  BY <1>s, SaveEffect
<1>t. transcripts \in [Recordings -> Nat] /\ transcripts' \in [Recordings -> Nat]
  BY TypeWorkerStep DEF TypeOK
<1>1. CASE Load(j) \/ Begin(j) \/ ReadStages(j) \/ Reload(j) \/ PreflightPasses(j) \/ LoadTranscript(j)
  BY <1>1, <1>r, <1>g, <1>t
     DEF OwnStep, Load, Begin, ReadStages, Reload, PreflightPasses, LoadTranscript, Proceeds, At
<1>9. CASE LlmCorrect(j) \/ AddNote(j) \/ PublishNote(j)
  BY <1>9, <1>r, <1>g, <1>t DEF OwnStep, LlmCorrect, AddNote, PublishNote, Proceeds, At
<1>10. CASE Clean(j)
  <2>1. \E u : Run(j, u)
    BY <1>10 DEF Clean
  <2> QED BY <1>10, <1>r, <1>t, <2>1 DEF OwnStep, Clean, Proceeds, At
<1>11. CASE Summarize(j)
  <2>1. \E u : Run(j, u)
    BY <1>11 DEF Summarize
  <2> QED BY <1>11, <1>r, <1>t, <2>1 DEF OwnStep, Summarize, Proceeds, At
<1>2. CASE UpdateRecording(j) \/ EngineFails(j) \/ LlmTimesOut(j) \/ Unregister(j)
  BY <1>2, <1>r, <1>g, <1>t
     DEF OwnStep, UpdateRecording, EngineFails, LlmTimesOut, Unregister, Proceeds, At
<1>3. CASE PauseAtStart(j) \/ PauseWrite(j) \/ Write(j) \/ PreflightFails(j) \/ SetStartedAt(j)
             \/ Finish(j) \/ MarkCancelled(j)
  BY <1>3, <1>s, <1>t
     DEF OwnStep, PauseAtStart, PauseWrite, Write, PreflightFails, SetStartedAt, Finish, MarkCancelled,
         Proceeds, At
<1>4. CASE MarkFailed(j)
  BY <1>4, <1>s, <1>t, CloseStageEffect DEF OwnStep, MarkFailed, At
<1>5. CASE CloseStageRow(j)
  BY <1>5, <1>r, <1>t, CloseStageEffect DEF OwnStep, CloseStageRow, Proceeds, At
<1>6. CASE OpenStageRow(j)
  BY <1>6, <1>r, <1>t, AddStageRowEffect DEF OwnStep, OpenStageRow, Proceeds, At
<1>7. CASE Transcribe(j)
  BY <1>7, <1>r, <1>t, StoreTranscriptEffect DEF OwnStep, Transcribe, Proceeds, At
<1>8. CASE ThrowCancelled(j)
  <2>1. (\A k \in Jobs \ {j} : w'[k] = w[k]) /\ up /\ UNCHANGED <<job, skips, recordings, process>>
    BY <1>8, <1>g DEF ThrowCancelled
  <2>2. \A k \in Jobs \ {j} : stage'[k] = stage[k]
    BY <1>8, CloseStageEffect, AddStageRowEffect DEF ThrowCancelled
  <2>3. \A r \in Recordings : transcripts'[r] >= transcripts[r]
    BY <1>8, <1>t, StoreTranscriptEffect DEF ThrowCancelled
  <2> QED BY <1>t, <2>1, <2>2, <2>3 DEF OwnStep
<1> QED BY <1>1, <1>2, <1>3, <1>4, <1>5, <1>6, <1>7, <1>8, <1>9, <1>10, <1>11 DEF WorkerStep

\* What the invariants of the other jobs are about, a run's step leaves alone.
LEMMA OtherRuns ==
    ASSUME TypeOK, NEW j \in Jobs, OwnStep(j), NEW k \in Jobs \ {j}, RunInvOf(k)
    PROVE  RunInvOf(k)'
<1>1. w'[k] = w[k] /\ job'[k] = job[k] /\ stage'[k] = stage[k]
  BY DEF OwnStep
<1>2. Found(k) => Found(k)'
  BY DEF Found, OwnStep, TypeOK
<1>3. Stranded(k) => Stranded(k)'
  BY <1>1 DEF Stranded, OwnStep
<1>4. InOrder(w'[k], stage'[k])
  BY <1>1 DEF RunInvOf
<1>5. TranscriptKnown(k)'
  BY <1>1, <1>2 DEF RunInvOf, TranscriptKnown
<1>6. LeavesNothing(k)'
  BY <1>1, <1>3 DEF RunInvOf, LeavesNothing, OwnStep, InExport
<1> QED BY <1>4, <1>5, <1>6 DEF RunInvOf
LEMMA RunWorkerStep ==
    ASSUME TypeOK, NEW j \in Jobs, RunInvOf(j), WorkerStep(j)
    PROVE  RunInvOf(j)'
<1> DEFINE v == w[j]
           x == w'[j]
<1>t. /\ w \in [Jobs -> Runs] /\ job \in [Jobs -> Row] /\ v \in Runs /\ v.row \in Row
      /\ stage \in [Jobs -> StageRows] /\ transcripts \in [Recordings -> Nat]
  BY DEF TypeOK, Runs
<1>o. OwnStep(j)
  BY OwnWorkerStep
<1>k. InOrder(v, stage[j]) /\ TranscriptKnown(j) /\ LeavesNothing(j)
  BY DEF RunInvOf
<1>f. /\ Found(j) => Found(j)'
      /\ Stranded(j) /\ job'[j].status = job[j].status => Stranded(j)'
  BY <1>o, <1>t DEF Found, Stranded, OwnStep
<1>p. /\ "none" \notin Targets /\ Stages \subseteq Targets /\ \A t \in Targets : Rank[t] \in Nat
      /\ Entering = {"close", "reload", "write", "openStage"}
  BY RankOrder DEF Targets, Stages, Entering
\* What a step makes of the transcribing stage's rows.
<1> DEFINE Rows == stage'[j]["Transcribing"] \cap Completed # {} =>
                       stage[j]["Transcribing"] \cap Completed # {} \/ Found(j)
\* The run leaves the pipeline: for its error handlers or to end.
<1>l. ASSUME x.pc \in {"fail", "cancelled", "publish", "unregister"}, x.cur = v.cur, x.done = v.done, Rows,
             x.pc \in {"publish", "unregister"} => job'[j].status \notin InFlight \/ Stranded(j)',
             x.pc = "publish" => v.pc \notin {"Transcribing", "transcribe", "fail", "cancelled", "unregister"}
      PROVE  RunInvOf(j)'
  <2>1. Place(x) = "none" /\ ~InExport(x)
    BY <1>l DEF Place, Entering, InExport
  <2>2. InOrder(x, stage'[j])
    BY <1>l, <1>p, <2>1 DEF InOrder
  <2>3. TranscriptKnown(j)'
    BY <1>l, <1>k, <1>f DEF TranscriptKnown
  <2>4. LeavesNothing(j)'
    BY <1>l, <2>1 DEF LeavesNothing
  <2> QED BY <2>2, <2>3, <2>4 DEF RunInvOf
\* The run enters a stage behind the one it is in, or passes it by.
<1>e. ASSUME NEW u \in Runs, NEW s \in Stages, Run(j, EnterUnlessDone(u, s)),
             u.cur = v.cur, u.done = v.done, UNCHANGED <<job, stage>>,
             v.pc \in {"Preflight", "loadTranscript", "transcribe", "Cleaning", "LlmCorrection", "Summarizing"},
             Rank[Place(v)] < Rank[s], v.pc = "transcribe" => Found(j)'
      PROVE  RunInvOf(j)'
  <2> DEFINE y == EnterUnlessDone(u, s)
  <2>1. x = y
    BY <1>e, RunEffect
  <2>2. /\ y.cur = v.cur /\ y.done = v.done
        /\ y.pc \in {"write", "close", "loadTranscript", "Cleaning", "LlmCorrection", "Summarizing"}
        /\ y.pc = "loadTranscript" => "Transcribing" \in v.done
    BY <1>e, EnterUnlessDoneMoves
  <2>3. Place(v) \in Targets /\ v.pc \notin Entering
    BY <1>e DEF Place, Targets, Stages, Entering
  <2>4. InOrder(y, stage[j])
    BY <1>e, <1>k, <1>t, <2>3, EnterInOrder
  <2> HIDE DEF y
  <2>5. InOrder(x, stage'[j])
    BY <1>e, <2>1, <2>4
  <2>6. TranscriptKnown(j)'
    BY <1>e, <1>k, <1>f, <2>1, <2>2 DEF TranscriptKnown
  <2>7. LeavesNothing(j)'
    BY <2>1, <2>2 DEF LeavesNothing, InExport
  <2> QED BY <2>5, <2>6, <2>7 DEF RunInvOf
\* The run goes on in the same place.
<1>i. ASSUME x.pc \notin {"idle", "begin", "pauseAtStart", "stages", "loadTranscript", "Transcribing",
                          "publish", "unregister", "Finish", "pauseWrite"},
             x.cur = v.cur, x.done = v.done, x.to = v.to, UNCHANGED stage,
             Place(x) = Place(v), x.pc \in Entering <=> v.pc \in Entering,
             x.pc = "transcribe" \/ v.pc \notin {"Transcribing", "transcribe", "fail", "cancelled", "unregister"},
             x.pc = "openStage" => x.to # "Finish",
             InExport(x) => job'[j].status \notin InFlight \ {"Exporting"}, v.pc # "loadTranscript"
      PROVE  RunInvOf(j)'
  <2>4. /\ x.pc \in {"Transcribing", "transcribe"} => v.pc \in {"Transcribing", "transcribe"}
        /\ InExport(x) /\ x.pc \notin Entering => InExport(v) /\ v.pc \notin Entering
    BY <1>i DEF Place, Entering, InExport
  <2>5. /\ x.pc \in {"Transcribing", "transcribe"} => "Transcribing" \notin x.done
        /\ x.pc \in {"Exporting", "announce", "updateRecording"} => "Exporting" \notin x.done
    BY <1>i, <1>k, <2>4 DEF InOrder, InExport, Entering
  <2>1. InOrder(x, stage'[j])
    BY <1>i, <1>k, <2>5 DEF InOrder
  <2>2. TranscriptKnown(j)'
    BY <1>i, <1>k, <1>f DEF TranscriptKnown
  <2>3. LeavesNothing(j)'
    BY <1>i DEF LeavesNothing
  <2> QED BY <2>1, <2>2, <2>3 DEF RunInvOf
<1>c. UNCHANGED stage => Rows
  OBVIOUS
<1>1. CASE Load(j)
  <2>1. CASE job[j].status \in InFlight \cup {"Queued"}
    <3> DEFINE u == [IdleRun EXCEPT !.pc = "begin", !.row = job[j]]
    <3>1. u.pc = "begin" /\ u.cur = "none" /\ u.done = {}
      BY DEF IdleRun
    <3>2. x = u /\ UNCHANGED <<job, stage>>
      BY <1>1, <2>1, RunEffect DEF Load
    <3> HIDE DEF u
    <3>3. Place(x) = "none" /\ ~InExport(x)
      BY <3>1, <3>2 DEF Place, Entering, InExport
    <3>4. InOrder(x, stage'[j])
      BY <3>1, <3>2, <3>3, <1>p DEF InOrder
    <3>5. TranscriptKnown(j)'
      BY <3>1, <3>2, <1>k, <1>f DEF TranscriptKnown
    <3>6. LeavesNothing(j)'
      BY <3>1, <3>2, <3>3 DEF LeavesNothing
    <3> QED BY <3>4, <3>5, <3>6 DEF RunInvOf
  <2>2. CASE job[j].status \notin InFlight \cup {"Queued"}
    <3>1. UNCHANGED <<w, job, stage>>
      BY <1>1, <2>2 DEF Load
    <3>2. InOrder(x, stage'[j]) /\ TranscriptKnown(j)'
      BY <3>1, <1>k, <1>f DEF TranscriptKnown
    <3>3. LeavesNothing(j)'
      BY <3>1, <1>k, <1>f, <1>o DEF LeavesNothing, InExport, OwnStep
    <3> QED BY <3>2, <3>3 DEF RunInvOf
  <2> QED BY <2>1, <2>2
<1>2. CASE Begin(j)
  <2>1. /\ x.pc \in {"cancelled", "pauseAtStart", "stages"} /\ x.cur = v.cur /\ x.done = v.done
        /\ UNCHANGED <<job, stage>> /\ v.pc = "begin"
    BY <1>2, GotoEffect DEF Begin, At
  <2>2. Place(x) = "none" /\ ~InExport(x)
    BY <2>1 DEF Place, Entering, InExport
  <2>3. InOrder(x, stage'[j])
    BY <2>1, <2>2, <1>k, <1>p DEF InOrder
  <2>4. TranscriptKnown(j)'
    BY <2>1, <1>k, <1>f DEF TranscriptKnown
  <2>5. LeavesNothing(j)'
    BY <2>1, <2>2 DEF LeavesNothing
  <2> QED BY <2>3, <2>4, <2>5 DEF RunInvOf
<1>3. CASE PauseAtStart(j)
  <2> DEFINE y == [v.row EXCEPT !.status = "Paused"]
  <2>1. y.status = "Paused"
    BY <1>t DEF Row
  <2>2. Save(j, y, "unregister") /\ UNCHANGED stage
    BY <1>3 DEF PauseAtStart
  <2> HIDE DEF y
  <2> QED BY <2>1, <2>2, <1>l, SaveEffect DEF InFlight
<1>4. CASE ReadStages(j)
  <2> DEFINE u == [v EXCEPT !.done = CompletedStages(j)]
             y == Enter(u, "Preflight")
  <2>1. u \in Runs /\ u.cur = v.cur /\ u.done = CompletedStages(j) /\ "Preflight" \in Targets
    BY <1>t DEF Runs, CompletedStages, Targets
  <2>2. v.pc = "stages" /\ v.cur = "none" /\ UNCHANGED <<job, stage>>
    BY <1>4, <1>k DEF ReadStages, Proceeds, At, InOrder
  <2>3. CASE Run(j, y)
    <3>1. y.cur = "none" /\ y.done = CompletedStages(j) /\ y.to = "Preflight"
          /\ y.pc \in {"write", "close"} /\ Place(y) = "Preflight"
      BY <2>1, <2>2, EnterMoves
    <3>2. x = y
      BY <2>3, RunEffect
    <3>3. /\ \A s \in Stages : "done" \in stage[j][s] => s \in CompletedStages(j)
          /\ "Preflight" \notin CompletedStages(j)
          /\ "Transcribing" \in CompletedStages(j) => Found(j)
      BY <1>k DEF CompletedStages, Completed, TranscriptKnown, Stages
    <3> HIDE DEF y, u
    <3>4. InOrder(x, stage'[j])
      BY <2>2, <3>1, <3>2, <3>3 DEF InOrder, Stages
    <3>5. TranscriptKnown(j)'
      BY <2>2, <3>1, <3>2, <3>3, <1>k, <1>f DEF TranscriptKnown
    <3>6. LeavesNothing(j)'
      BY <3>1, <3>2 DEF LeavesNothing, InExport
    <3> QED BY <3>4, <3>5, <3>6 DEF RunInvOf
  <2>4. CASE Goto(j, "fail")
    BY <2>2, <2>4, <1>l, <1>c, GotoEffect
  <2> QED BY <1>4, <2>3, <2>4 DEF ReadStages
<1>5. CASE CloseStageRow(j)
  <2> DEFINE u == [v EXCEPT !.cur = "none", !.pc = "reload"]
  <2>1. u.pc = "reload" /\ u.cur = "none" /\ u.done = v.done /\ u.to = v.to
    BY <1>t DEF Runs
  <2>2. x = u
    BY <1>5, RunEffect DEF CloseStageRow
  <2>3. CloseStage(j, "done") /\ v.pc = "close" /\ UNCHANGED job
    BY <1>5 DEF CloseStageRow, Proceeds, At
  <2> HIDE DEF u
  <2>4. \A s \in Stages : \/ stage'[j][s] = stage[j][s]
                          \/ s = v.cur /\ stage'[j][s] \subseteq stage[j][s] \cup {"done"}
    BY <2>3, CloseStageEffect
  <2>5. Place(v) = v.to /\ Place(x) = v.to /\ v.to \in Targets /\ v.pc \in Entering /\ x.pc \in Entering
    BY <2>1, <2>2, <2>3, <1>t DEF Place, Entering, Runs
  <2>6. ASSUME NEW s \in Stages, "done" \in stage'[j][s]
        PROVE  s \in v.done \/ Rank[s] < Rank[v.to]
    BY <2>4, <2>5, <2>6, <1>k, <1>p DEF InOrder
  <2>7. InOrder(x, stage'[j])
    BY <2>1, <2>2, <2>5, <2>6, <1>k, <1>p DEF InOrder
  <2>8. Rows
    <3>1. "Transcribing" \in Stages
      BY DEF Stages
    <3>2. v.cur = "Transcribing" => Found(j)
      BY <2>3, <1>k DEF TranscriptKnown
    <3> QED BY <2>4, <3>1, <3>2
  <2>9. TranscriptKnown(j)'
    BY <2>1, <2>2, <2>8, <1>k, <1>f DEF TranscriptKnown
  <2>10. LeavesNothing(j)'
    BY <2>1, <2>2 DEF LeavesNothing, InExport
  <2> QED BY <2>7, <2>9, <2>10 DEF RunInvOf
<1>6. CASE Reload(j)
  <2> DEFINE row == [v.row EXCEPT !.status = "Paused", !.pauseReq = TRUE]
             paused == [v EXCEPT !.pc = "pauseWrite", !.row = row]
             reloaded == [v EXCEPT !.pc = "write"]
  <2>1. paused.pc = "pauseWrite" /\ paused.row.status = "Paused" /\ paused.cur = v.cur /\ paused.done = v.done
    BY <1>t DEF Runs, Row
  <2>2. reloaded.pc = "write" /\ reloaded.cur = v.cur /\ reloaded.done = v.done /\ reloaded.to = v.to
    BY <1>t DEF Runs
  <2>3. v.pc = "reload" /\ UNCHANGED <<job, stage>> /\ x \in {paused, reloaded}
    BY <1>6, RunEffect DEF Reload, Proceeds, At
  <2> HIDE DEF paused, reloaded
  <2>4. CASE x = paused
    <3>1. Place(x) = "none" /\ ~InExport(x)
      BY <2>1, <2>4 DEF Place, Entering, InExport
    <3>2. InOrder(x, stage'[j])
      BY <2>1, <2>4, <3>1, <1>p DEF InOrder
    <3>3. TranscriptKnown(j)'
      BY <2>1, <2>3, <2>4, <1>k, <1>f DEF TranscriptKnown
    <3>4. LeavesNothing(j)'
      BY <2>1, <2>4, <3>1 DEF LeavesNothing
    <3> QED BY <3>2, <3>3, <3>4 DEF RunInvOf
  <2>5. CASE x = reloaded
    <3>1. Place(x) = Place(v) /\ ~InExport(x)
      BY <2>2, <2>3, <2>5 DEF Place, Entering, InExport
    <3> QED BY <2>2, <2>3, <2>5, <3>1, <1>i, <1>p
  <2> QED BY <2>3, <2>4, <2>5
\* A write that leaves the pipeline, or goes on to Finish with a status that is not in flight.
<1>w. ASSUME NEW y, NEW pc \in {"publish", "unregister", "Finish"}, Save(j, y, pc), y.status \notin InFlight, Rows,
             pc \in {"publish", "Finish"} => v.pc \notin {"Transcribing", "transcribe", "fail", "cancelled", "unregister"}
      PROVE  RunInvOf(j)'
  <2>1. x.pc = pc /\ x.row = y /\ x.cur = v.cur /\ x.done = v.done /\ job'[j] = y
    BY <1>w, SaveEffect
  <2>2. CASE pc \in {"publish", "unregister"}
    BY <1>w, <2>1, <2>2, <1>l
  <2>3. CASE pc = "Finish"
    <3>1. Place(x) = "none" /\ ~InExport(x)
      BY <2>1, <2>3 DEF Place, Entering, InExport
    <3>2. InOrder(x, stage'[j])
      BY <2>1, <2>3, <3>1, <1>p DEF InOrder
    <3>3. TranscriptKnown(j)'
      BY <1>w, <2>1, <2>3, <1>k, <1>f DEF TranscriptKnown
    <3>4. LeavesNothing(j)'
      BY <1>w, <2>1, <2>3, <3>1 DEF LeavesNothing
    <3> QED BY <3>2, <3>3, <3>4 DEF RunInvOf
  <2> QED BY <2>2, <2>3
<1>7. CASE PauseWrite(j)
  <2>1. v.row.status \notin InFlight
    BY <1>7, <1>k DEF PauseWrite, Proceeds, At, LeavesNothing, InFlight
  <2> QED BY <1>7, <2>1, <1>w DEF PauseWrite, Proceeds, At
<1>8. CASE Write(j)
  <2> DEFINE y == [v.row EXCEPT !.status = StatusOf[v.to]]
  <2>1. y.status = StatusOf[v.to] /\ v.to \in Targets
    BY <1>t DEF Row, Runs
  <2>2. Save(j, y, IF v.to = "Finish" THEN "Finish" ELSE "openStage") /\ v.pc = "write" /\ UNCHANGED stage
    BY <1>8 DEF Write, Proceeds, At
  <2> HIDE DEF y
  <2>3. CASE v.to = "Finish"
    <3>1. y.status \notin InFlight
      BY <2>1, <2>3 DEF StatusOf, InFlight
    <3> QED BY <2>2, <2>3, <3>1, <1>w
  <2>4. CASE v.to # "Finish"
    <3>1. x.pc = "openStage" /\ x.cur = v.cur /\ x.done = v.done /\ x.to = v.to /\ job'[j] = y
      BY <2>2, <2>4, SaveEffect
    <3>2. Place(x) = Place(v)
      BY <2>2, <3>1 DEF Place, Entering
    <3>3. v.to = "Exporting" => y.status = "Exporting"
      BY <2>1 DEF StatusOf
    <3>4. InExport(x) => job'[j].status \notin InFlight \ {"Exporting"}
      BY <3>1, <3>3 DEF InExport
    <3> HIDE DEF x
    <3> QED BY <2>2, <2>4, <3>1, <3>2, <3>4, <1>i, <1>p
  <2> QED BY <2>3, <2>4
<1>9. CASE OpenStageRow(j)
  <2> DEFINE u == [v EXCEPT !.cur = v.to, !.pc = v.to]
  <2>1. u.pc = v.to /\ u.cur = v.to /\ u.done = v.done /\ v.to \in Targets
    BY <1>t DEF Runs
  <2>2. x = u
    BY <1>9, RunEffect DEF OpenStageRow
  <2>3. AddStageRow(j) /\ v.pc = "openStage" /\ UNCHANGED job
    BY <1>9 DEF OpenStageRow, Proceeds, At
  <2> HIDE DEF u
  <2>4. \A s \in Stages : stage'[j][s] \in {stage[j][s], stage[j][s] \cup {"open"}}
    BY <2>3, AddStageRowEffect
  <2>5. Place(v) = v.to /\ x.pc \notin Entering /\ v.pc \in Entering /\ (v.to # "Finish" => Place(x) = v.to)
        /\ (v.to = "Finish" => Place(x) = "none")
    BY <2>1, <2>2, <2>3 DEF Place, Entering, Targets, Stages
  <2>6. InOrder(x, stage'[j])
    <3>1. x.pc \notin {"begin", "pauseAtStart", "stages"}
      BY <2>1, <2>2 DEF Targets, Stages
    <3>2. ASSUME NEW s \in Stages, "done" \in stage'[j][s]
          PROVE  s \in v.done \/ Rank[s] < Rank[v.to]
      BY <2>1, <2>4, <2>5, <3>2, <1>k, <1>p DEF InOrder
    <3>3. x.pc # "Finish" /\ x.pc # "openStage" /\ x.cur = v.to /\ x.done = v.done /\ v.to # "Finish"
      BY <2>1, <2>2, <2>3, <1>k DEF InOrder, Targets, Stages
    <3>4. Place(x) = v.to
      BY <2>5, <3>3
    <3>5. x.pc = v.to /\ v.to \in Targets /\ v.to \notin v.done
      BY <2>1, <2>2, <2>3, <1>k, <1>t DEF InOrder, Entering, Runs
    <3>6. /\ x.pc \in {"Transcribing", "transcribe"} => "Transcribing" \notin x.done
          /\ x.pc \in {"Exporting", "announce", "updateRecording"} => "Exporting" \notin x.done
      BY <3>3, <3>5 DEF Targets, Stages
    <3> HIDE DEF x
    <3> QED BY <2>5, <3>1, <3>2, <3>3, <3>4, <3>6 DEF InOrder
  <2>7. Rows
    BY <2>4 DEF Stages, Completed
  <2>8. TranscriptKnown(j)'
    BY <2>1, <2>2, <2>7, <1>k, <1>f DEF TranscriptKnown, Targets, Stages
  <2>9. LeavesNothing(j)'
    <3>1. x.pc \notin {"idle", "publish", "unregister", "pauseWrite", "openStage", "announce", "updateRecording"}
      BY <2>1, <2>2 DEF Targets, Stages
    <3>2. x.pc # "Finish"
      BY <2>1, <2>2, <2>3, <1>k DEF InOrder
    <3>3. x.pc = "Exporting" => job[j].status \notin InFlight \ {"Exporting"}
      BY <2>1, <2>2, <2>3, <1>k DEF LeavesNothing, InExport
    <3> QED BY <2>3, <3>1, <3>2, <3>3 DEF LeavesNothing, InExport
  <2> QED BY <2>6, <2>8, <2>9 DEF RunInvOf
<1>10. CASE PreflightPasses(j)
  <2>1. v.pc = "Preflight" /\ "Transcribing" \in Stages /\ Rank[Place(v)] < Rank["Transcribing"]
    BY <1>10, RankOrder DEF PreflightPasses, Proceeds, At, Place, Entering, Stages
  <2> QED BY <1>10, <2>1, <1>e, <1>t DEF PreflightPasses
<1>11. CASE PreflightFails(j)
  <2> DEFINE y == [v.row EXCEPT !.status = "Failed"]
  <2>1. y.status = "Failed"
    BY <1>t DEF Row
  <2>2. Save(j, y, "publish") /\ UNCHANGED stage /\ v.pc = "Preflight"
    BY <1>11 DEF PreflightFails, Proceeds, At
  <2> HIDE DEF y
  <2> QED BY <2>1, <2>2, <1>w DEF InFlight
<1>12. CASE LoadTranscript(j)
  <2> DEFINE u == [v EXCEPT !.tr = transcripts[RecordingOf[j]]]
  <2>1. u \in Runs /\ u.cur = v.cur /\ u.done = v.done /\ "Cleaning" \in Stages
    <3>1. transcripts[RecordingOf[j]] \in Nat
      BY <1>t
    <3> QED BY <3>1, <1>t DEF Runs, Stages
  <2>2. v.pc = "loadTranscript" /\ UNCHANGED <<job, stage>> /\ Rank[Place(v)] < Rank["Cleaning"]
    BY <1>12, RankOrder DEF LoadTranscript, Proceeds, At, Place, Entering
  <2>3. CASE Goto(j, "fail")
    BY <2>2, <2>3, <1>l, <1>c, GotoEffect
  <2>4. CASE Run(j, EnterUnlessDone(u, "Cleaning"))
    BY <2>1, <2>2, <2>4, <1>e
  <2> QED BY <1>12, <2>3, <2>4 DEF LoadTranscript
<1>13. CASE SetStartedAt(j)
  <2>1. Save(j, v.row, "transcribe") /\ UNCHANGED stage /\ v.pc = "Transcribing"
    BY <1>13 DEF SetStartedAt, Proceeds, At
  <2>2. x.pc = "transcribe" /\ x.cur = v.cur /\ x.done = v.done /\ x.to = v.to
    BY <2>1, SaveEffect
  <2>3. Place(x) = Place(v) /\ ~InExport(x)
    BY <2>1, <2>2 DEF Place, Entering, InExport
  <2> HIDE DEF x
  <2> QED BY <2>1, <2>2, <2>3, <1>i, <1>p
<1>14. CASE Transcribe(j)
  <2> DEFINE u == [v EXCEPT !.tr = transcripts[RecordingOf[j]] + 1]
  <2>1. u \in Runs /\ u.cur = v.cur /\ u.done = v.done /\ "Cleaning" \in Stages
    <3>1. transcripts[RecordingOf[j]] + 1 \in Nat
      BY <1>t
    <3> QED BY <3>1, <1>t DEF Runs, Stages
  <2>2. v.pc = "transcribe" /\ UNCHANGED <<job, stage>> /\ Rank[Place(v)] < Rank["Cleaning"]
    BY <1>14, RankOrder DEF Transcribe, Proceeds, At, Place, Entering
  <2>3. Found(j)'
    BY <1>14, StoreTranscriptEffect DEF Transcribe, Found
  <2> QED BY <1>14, <2>1, <2>2, <2>3, <1>e DEF Transcribe
<1>15. CASE Clean(j)
  <2>1. PICK llm \in {"yes", "no", "unknown"} :
             Run(j, EnterUnlessDone([v EXCEPT !.llm = llm],
                                    IF llm = "yes" THEN "LlmCorrection" ELSE "Summarizing"))
    BY <1>15 DEF Clean
  <2> DEFINE u == [v EXCEPT !.llm = llm]
             s == IF llm = "yes" THEN "LlmCorrection" ELSE "Summarizing"
  <2>2. u \in Runs /\ u.cur = v.cur /\ u.done = v.done /\ s \in Stages
    BY <1>t DEF Runs, Stages
  <2>3. Run(j, EnterUnlessDone(u, s))
    BY <2>1
  <2>4. v.pc = "Cleaning" /\ UNCHANGED <<job, stage>> /\ Rank[Place(v)] < Rank[s]
    BY <1>15, RankOrder DEF Clean, Proceeds, At, Place, Entering
  <2> HIDE DEF u, s
  <2> QED BY <2>2, <2>3, <2>4, <1>e
<1>16. CASE LlmCorrect(j)
  <2>1. v.pc = "LlmCorrection" /\ "Summarizing" \in Stages /\ Rank[Place(v)] < Rank["Summarizing"]
    BY <1>16, RankOrder DEF LlmCorrect, Proceeds, At, Place, Entering, Stages
  <2> QED BY <1>16, <2>1, <1>e, <1>t DEF LlmCorrect
<1>17. CASE Summarize(j)
  <2>1. PICK n \in 1..MaxVersion : Run(j, EnterUnlessDone([v EXCEPT !.ver = n], "Exporting"))
    BY <1>17 DEF Summarize
  <2> DEFINE u == [v EXCEPT !.ver = n]
  <2>2. u \in Runs /\ u.cur = v.cur /\ u.done = v.done /\ "Exporting" \in Stages
    BY <1>t DEF Runs, Stages
  <2>3. Run(j, EnterUnlessDone(u, "Exporting"))
    BY <2>1
  <2>4. v.pc = "Summarizing" /\ UNCHANGED <<job, stage>> /\ Rank[Place(v)] < Rank["Exporting"]
    BY <1>17, RankOrder DEF Summarize, Proceeds, At, Place, Entering
  <2> HIDE DEF u
  <2> QED BY <2>2, <2>3, <2>4, <1>e
<1>18. CASE AddNote(j) \/ PublishNote(j)
  <2>1. /\ x.pc \in {"announce", "updateRecording"} /\ x.cur = v.cur /\ x.done = v.done /\ x.to = v.to
        /\ v.pc \in {"Exporting", "announce"} /\ UNCHANGED <<job, stage>>
    BY <1>18, GotoEffect DEF AddNote, PublishNote, Proceeds, At
  <2>2. Place(x) = Place(v)
    BY <2>1 DEF Place, Entering
  <2>3. job'[j].status \notin InFlight \ {"Exporting"}
    BY <2>1, <1>k DEF LeavesNothing, InExport
  <2> HIDE DEF x
  <2> QED BY <2>1, <2>2, <2>3, <1>i, <1>p
<1>19. CASE UpdateRecording(j)
  <2>1. v.pc = "updateRecording" /\ UNCHANGED <<job, stage>> /\ job[j].status \notin InFlight \ {"Exporting"}
    BY <1>19, <1>k DEF UpdateRecording, Proceeds, At, LeavesNothing, InExport
  <2>2. CASE RecordingOf[j] \notin recordings
    <3>1. Goto(j, "unregister")
      BY <1>19, <2>2 DEF UpdateRecording
    <3>2. job'[j].status \notin InFlight \/ Stranded(j)'
      BY <2>1, <2>2, <1>o DEF Stranded, OwnStep
    <3> QED BY <2>1, <3>1, <3>2, <1>l, <1>c, GotoEffect
  <2>3. CASE RecordingOf[j] \in recordings
    <3> DEFINE y == Enter(v, "Finish")
    <3>1. /\ y.cur = v.cur /\ y.done = v.done /\ y.to = "Finish" /\ y.pc \in {"write", "close"}
          /\ Place(y) = "Finish"
      BY <1>t, EnterMoves DEF Targets
    <3>2. x = y
      BY <1>19, <2>3, RunEffect DEF UpdateRecording
    <3> HIDE DEF y
    <3>3. Place(v) = "Exporting" /\ Rank["Exporting"] = 5 /\ Rank["Finish"] = 6
      BY <2>1, RankOrder DEF Place, Entering
    <3>4. "Finish" \notin v.done /\ \A s \in Stages : Rank[s] \in Nat
      BY <1>t, <1>p DEF Runs, Stages
    <3>5. InOrder(x, stage'[j])
      BY <2>1, <3>1, <3>2, <3>3, <3>4, <1>k DEF InOrder
    <3>6. TranscriptKnown(j)'
      BY <2>1, <3>1, <3>2, <1>k, <1>f DEF TranscriptKnown
    <3>7. LeavesNothing(j)'
      BY <3>1, <3>2 DEF LeavesNothing, InExport
    <3> QED BY <3>5, <3>6, <3>7 DEF RunInvOf
  <2> QED BY <2>2, <2>3
<1>20. CASE Finish(j)
  <2>1. v.row.status \notin InFlight /\ v.pc = "Finish" /\ Save(j, v.row, "publish") /\ UNCHANGED stage
    BY <1>20, <1>k DEF Finish, Proceeds, At, LeavesNothing
  <2> QED BY <2>1, <1>w
<1>21. CASE EngineFails(j)
  <2>1. Goto(j, "fail") /\ UNCHANGED stage
    BY <1>21 DEF EngineFails
  <2> QED BY <2>1, <1>l, <1>c, GotoEffect
<1>22. CASE LlmTimesOut(j)
  <2>1. Goto(j, "cancelled") /\ UNCHANGED stage
    BY <1>22 DEF LlmTimesOut
  <2> QED BY <2>1, <1>l, <1>c, GotoEffect
<1>23. CASE ThrowCancelled(j)
  <2>1. Goto(j, IF v.pc = "updateRecording" /\ RecordingOf[j] \notin recordings
                THEN "unregister" ELSE "cancelled") /\ UNCHANGED job
    BY <1>23 DEF ThrowCancelled
  <2>2. Rows
    <3>1. "Transcribing" \in Stages
      BY DEF Stages
    <3>2. CASE v.pc = "close"
      <4>1. CloseStage(j, "done")
        BY <1>23, <3>2 DEF ThrowCancelled
      <4>2. v.cur = "Transcribing" => Found(j)
        BY <3>2, <1>k DEF TranscriptKnown
      <4> QED BY <3>1, <4>1, <4>2, CloseStageEffect
    <3>3. CASE v.pc # "close"
      <4>1. AddStageRow(j) \/ UNCHANGED stage
        BY <1>23, <3>3 DEF ThrowCancelled
      <4> QED BY <3>1, <4>1, AddStageRowEffect DEF Completed
    <3> QED BY <3>2, <3>3
  <2>3. CASE v.pc = "updateRecording" /\ RecordingOf[j] \notin recordings
    <3>1. job[j].status \notin InFlight \ {"Exporting"}
      BY <2>3, <1>k DEF LeavesNothing, InExport
    <3>2. job'[j].status \notin InFlight \/ Stranded(j)'
      BY <2>1, <2>3, <3>1, <1>o DEF Stranded, OwnStep
    <3> QED BY <2>1, <2>2, <2>3, <3>2, <1>l, GotoEffect
  <2>4. CASE ~(v.pc = "updateRecording" /\ RecordingOf[j] \notin recordings)
    BY <2>1, <2>2, <2>4, <1>l, GotoEffect
  <2> QED BY <2>3, <2>4
<1>24. CASE MarkFailed(j)
  <2> DEFINE y == [v.row EXCEPT !.status = "Failed"]
  <2>1. y.status = "Failed"
    BY <1>t DEF Row
  <2>2. Save(j, y, "unregister") /\ CloseStage(j, "failed")
    BY <1>24 DEF MarkFailed
  <2>3. Rows
    BY <2>2, CloseStageEffect DEF Stages, Completed
  <2> HIDE DEF y
  <2> QED BY <2>1, <2>2, <2>3, <1>w DEF InFlight
<1>25. CASE MarkCancelled(j)
  <2> DEFINE y == [v.row EXCEPT !.status = "Cancelled"]
  <2>1. y.status = "Cancelled"
    BY <1>t DEF Row
  <2>2. Save(j, y, "unregister") /\ UNCHANGED stage
    BY <1>25 DEF MarkCancelled
  <2> HIDE DEF y
  <2> QED BY <2>1, <2>2, <1>w DEF InFlight
<1>26. CASE Unregister(j)
  <2>1. x = IdleRun /\ UNCHANGED <<job, stage>> /\ v.pc \in {"publish", "unregister"}
    BY <1>26, RunEffect DEF Unregister, Proceeds, At
  <2>2. IdleRun.pc = "idle" /\ IdleRun.cur = "none" /\ IdleRun.done = {}
    BY DEF IdleRun
  <2>3. Place(x) = "none" /\ ~InExport(x)
    BY <2>1, <2>2 DEF Place, Entering, InExport
  <2>4. InOrder(x, stage'[j])
    BY <2>1, <2>2, <2>3, <1>p DEF InOrder
  <2>5. TranscriptKnown(j)'
    BY <2>1, <2>2, <1>k, <1>f DEF TranscriptKnown
  <2>6. LeavesNothing(j)'
    BY <2>1, <2>2, <2>3, <1>k, <1>f DEF LeavesNothing
  <2> QED BY <2>4, <2>5, <2>6 DEF RunInvOf
<1> QED BY <1>1, <1>2, <1>3, <1>4, <1>5, <1>6, <1>7, <1>8, <1>9, <1>10, <1>11, <1>12, <1>13, <1>14, <1>15,
           <1>16, <1>17, <1>18, <1>19, <1>20, <1>21, <1>22, <1>23, <1>24, <1>25, <1>26 DEF WorkerStep

---------------------------------------------------------------------------
(* The mutations and the process.                                          *)

\* A request puts no job in flight, finishes no stage and touches no run; the stage rows it
\* marks SKIPPED are remembered.
LEMMA RunRequestStep ==
    ASSUME TypeOK, NEW r \in Requests, Receive(r) \/ RequestStep(r), NEW k \in Jobs, RunInvOf(k)
    PROVE  RunInvOf(k)'
<1>t. job \in [Jobs -> Row] /\ req \in [Requests -> RequestStates] /\ stage \in [Jobs -> StageRows]
      /\ skips \in [Jobs -> SUBSET Stages]
  BY DEF TypeOK
<1>a. ASSUME UNCHANGED <<w, transcripts, process>>, recordings' \subseteq recordings,
             skips[k] \subseteq skips'[k],
             \A s \in Stages : "done" \in stage'[k][s] => "done" \in stage[k][s],
             \A s \in Stages : stage'[k][s] \cap Completed # {} => stage[k][s] \cap Completed # {} \/ s \in skips'[k],
             job'[k].status \in InFlight => job'[k].status = job[k].status
      PROVE  RunInvOf(k)'
  <2>1. (Found(k) => Found(k)') /\ ("Transcribing" \in skips'[k] => Found(k)')
    BY <1>a DEF Found
  <2>2. Stranded(k) /\ job'[k].status = job[k].status => Stranded(k)'
    BY <1>a DEF Stranded
  <2>3. InOrder(w'[k], stage'[k])
    BY <1>a DEF RunInvOf, InOrder
  <2>4. TranscriptKnown(k)'
    BY <1>a, <2>1 DEF RunInvOf, TranscriptKnown, Stages
  <2>5. LeavesNothing(k)'
    BY <1>a, <2>2 DEF RunInvOf, LeavesNothing, InExport
  <2> QED BY <2>3, <2>4, <2>5 DEF RunInvOf
<1>1. CASE CancelQueued(r)
  <2> DEFINE x == [req[r].seen EXCEPT !.status = "Cancelled", !.cancelReq = TRUE]
  <2>1. x.status = "Cancelled"
    BY <1>t DEF RequestStates, Row
  <2>2. job' = [job EXCEPT ![req[r].job] = x] /\ UNCHANGED <<store, w, process>>
    BY <1>1 DEF CancelQueued
  <2> HIDE DEF x
  <2> QED BY <2>1, <2>2, <1>a, <1>t DEF InFlight
<1>2. CASE RequestRetryFromStage(r)
  <2> DEFINE j == req[r].job
             rows == RowsAfterRetry(stage[j], req[r].from, req[r].skip)
  <2>1. \A s \in Stages : rows[s] = stage[j][s] \/ rows[s] \in {{"skipped"}, {"open"}}
    BY DEF RowsAfterRetry
  <2>2. /\ job' = [job EXCEPT ![j] = NewRow] /\ stage' = [stage EXCEPT ![j] = rows]
        /\ skips' = [skips EXCEPT ![j] = @ \cup {s \in Stages : "skipped" \in rows[s]}]
        /\ UNCHANGED <<transcripts, recordings, w, process>>
    BY <1>2 DEF RequestRetryFromStage
  <2> HIDE DEF rows
  <2>3. job'[k].status \in InFlight => job'[k].status = job[k].status
    BY <2>2, <1>t DEF NewRow, InFlight
  <2>4. skips[k] \subseteq skips'[k]
    BY <2>2, <1>t
  <2>5. \A s \in Stages : "done" \in stage'[k][s] => "done" \in stage[k][s]
    BY <2>1, <2>2, <1>t
  <2>6. \A s \in Stages : stage'[k][s] \cap Completed # {} => stage[k][s] \cap Completed # {} \/ s \in skips'[k]
    BY <2>1, <2>2, <1>t DEF Completed
  <2> QED BY <2>2, <2>3, <2>4, <2>5, <2>6, <1>a
<1>3. CASE SetCancelRequested(r)
  BY <1>3, <1>a, <1>t DEF SetCancelRequested, Row
<1>4. CASE SetPauseRequested(r)
  BY <1>4, <1>a, <1>t DEF SetPauseRequested, Row
<1>5. CASE ClearPauseRequested(r)
  BY <1>5, <1>a, <1>t DEF ClearPauseRequested, Row
<1>6. ASSUME NEW j \in Jobs, Enqueue(r, j) PROVE RunInvOf(k)'
  BY <1>6, <1>a, <1>t DEF Enqueue, NewRow, InFlight
<1>7. ASSUME NEW rec \in Recordings, DeleteRecording(r, rec) PROVE RunInvOf(k)'
  BY <1>7, <1>a DEF DeleteRecording
<1>8. CASE UNCHANGED <<job, store, w, process>>
  BY <1>8, <1>a
<1> QED BY <1>1, <1>2, <1>3, <1>4, <1>5, <1>6, <1>7, <1>8
        DEF Receive, RequestStep, CancelJob, PauseJob, ResumeJob, RetryJobFromStage,
            Schedule, TryCancel, Requeue, Reread

\* A crash ends every run, and the rehydration requeues what they left in flight but the jobs
\* in their preflight checks.
LEMMA RunProcessStep ==
    ASSUME RunInv, Crash \/ Rehydrate
    PROVE  (~up => crashes > 0)' /\ \A k \in Jobs : RunInvOf(k)'
<1>t. TypeOK /\ \A k \in Jobs : RunInvOf(k)
  BY DEF RunInv
<1>i. IdleRun.pc = "idle" /\ IdleRun.cur = "none" /\ IdleRun.done = {}
  BY DEF IdleRun
<1>1. CASE Crash
  <2>1. up' = FALSE /\ crashes' > 0 /\ UNCHANGED <<job, store>> /\ \A k \in Jobs : w'[k] = IdleRun
    BY <1>1, <1>t DEF Crash, TypeOK
  <2>2. ASSUME NEW k \in Jobs PROVE RunInvOf(k)'
    <3>1. Place(w'[k]) = "none" /\ ~InExport(w'[k])
      BY <2>1, <1>i DEF Place, Entering, InExport
    <3>2. InOrder(w'[k], stage'[k])
      BY <2>1, <3>1, <1>i DEF InOrder, Entering
    <3>3. TranscriptKnown(k)'
      BY <2>1, <1>t, <1>i DEF RunInvOf, TranscriptKnown, Found
    <3>4. LeavesNothing(k)'
      BY <2>1, <3>1, <1>i DEF LeavesNothing
    <3> QED BY <3>2, <3>3, <3>4 DEF RunInvOf
  <2> QED BY <2>1, <2>2
<1>2. CASE Rehydrate
  <2>1. UNCHANGED <<store, w, crashes>> /\ crashes > 0 /\ up'
    BY <1>2 DEF Rehydrate, RunInv
  <2>2. ASSUME NEW k \in Jobs PROVE RunInvOf(k)'
    <3> DEFINE queued == [job[k] EXCEPT !.status = "Queued"]
    <3>1. queued.status = "Queued"
      BY <1>t DEF TypeOK, Row
    <3>2. job'[k] = IF job[k].status \in InFlightStatuses THEN queued ELSE job[k]
      BY <1>2 DEF Rehydrate
    <3> HIDE DEF queued
    <3>3. job'[k].status \in InFlight => job'[k] = job[k] /\ Stranded(k)'
      BY <2>1, <3>1, <3>2 DEF InFlightStatuses, InFlight, Stranded
    <3>4. InOrder(w'[k], stage'[k])
      BY <2>1, <1>t DEF RunInvOf
    <3>5. TranscriptKnown(k)'
      BY <2>1, <1>t DEF RunInvOf, TranscriptKnown, Found
    <3>6. LeavesNothing(k)'
      BY <2>1, <3>3, <1>t DEF RunInvOf, LeavesNothing, InExport
    <3> QED BY <3>4, <3>5, <3>6 DEF RunInvOf
  <2> QED BY <2>1, <2>2
<1> QED BY <1>1, <1>2

LEMMA RunInit == Init => RunInv
<1> SUFFICES ASSUME Init PROVE RunInv
  OBVIOUS
<1>1. IdleRun.pc = "idle" /\ IdleRun.cur = "none" /\ IdleRun.done = {} /\ NoRow.status = "Absent"
  BY DEF IdleRun, NoRow
<1>2. up /\ \A k \in Jobs : w[k] = IdleRun /\ job[k] = NoRow /\ \A s \in Stages : stage[k][s] = {}
  BY DEF Init
<1>3. ASSUME NEW k \in Jobs PROVE RunInvOf(k)
  <2>1. Place(w[k]) = "none" /\ ~InExport(w[k]) /\ w[k].pc \notin Entering
    BY <1>1, <1>2 DEF Place, Entering, InExport
  <2>2. InOrder(w[k], stage[k])
    BY <1>1, <1>2, <2>1 DEF InOrder
  <2>3. TranscriptKnown(k)
    BY <1>1, <1>2 DEF TranscriptKnown, Stages
  <2>4. LeavesNothing(k)
    BY <1>1, <1>2, <2>1 DEF LeavesNothing, InFlight
  <2> QED BY <2>2, <2>3, <2>4 DEF RunInvOf
<1> QED BY <1>2, <1>3, TypeInit DEF RunInv

LEMMA RunNext == RunInv /\ [Next]_vars => RunInv'
<1> SUFFICES ASSUME RunInv, [Next]_vars PROVE RunInv'
  OBVIOUS
<1>t. TypeOK /\ (\A k \in Jobs : RunInvOf(k)) /\ (~up => crashes > 0)
  BY DEF RunInv
<1>1. ASSUME NEW j \in Jobs, WorkerStep(j)
      PROVE  (~up => crashes > 0)' /\ \A k \in Jobs : RunInvOf(k)'
  <2>1. OwnStep(j)
    BY <1>1, <1>t, OwnWorkerStep
  <2>2. RunInvOf(j)'
    BY <1>1, <1>t, RunWorkerStep
  <2>3. \A k \in Jobs \ {j} : RunInvOf(k)'
    BY <1>t, <2>1, OtherRuns
  <2> QED BY <2>1, <2>2, <2>3 DEF OwnStep
<1>2. ASSUME NEW r \in Requests, Receive(r) \/ RequestStep(r)
      PROVE  (~up => crashes > 0)' /\ \A k \in Jobs : RunInvOf(k)'
  <2>1. UNCHANGED process
    BY <1>2 DEF Receive, RequestStep, Enqueue, CancelJob, PauseJob, ResumeJob, RetryJobFromStage,
                DeleteRecording, Schedule, CancelQueued, SetCancelRequested, TryCancel,
                SetPauseRequested, ClearPauseRequested, Requeue, RequestRetryFromStage, Reread
  <2> QED BY <1>2, <1>t, <2>1, RunRequestStep
<1>3. ASSUME Crash \/ Rehydrate
      PROVE  (~up => crashes > 0)' /\ \A k \in Jobs : RunInvOf(k)'
  BY <1>3, RunProcessStep
<1>4. ASSUME UNCHANGED vars
      PROVE  (~up => crashes > 0)' /\ \A k \in Jobs : RunInvOf(k)'
  <2>1. ASSUME NEW k \in Jobs PROVE RunInvOf(k)'
    BY <1>4, <1>t DEF vars, RunInvOf, TranscriptKnown, Found, LeavesNothing, Stranded
  <2> QED BY <1>4, <1>t, <2>1 DEF vars
<1>5. (~up => crashes > 0)' /\ \A k \in Jobs : RunInvOf(k)'
  BY <1>1, <1>2, <1>3, <1>4 DEF Next
<1> QED BY <1>5, <1>t, TypeNext DEF RunInv

LEMMA RunInvariant == Spec => []RunInv
BY RunInit, RunNext, PTL DEF Spec

\* A resumed run never fails for want of a transcript: one was stored for the recording, or the
\* user skipped the stage that stores it.
THEOREM ResumeFinds == Spec => []ResumeFindsTranscript
<1>1. RunInv => ResumeFindsTranscript
  BY DEF RunInv, RunInvOf, TranscriptKnown, Found, ResumeFindsTranscript
<1> QED BY <1>1, RunInvariant, PTL

\* No run transcribes, or saves or announces a note, over a finished row of that stage: neither over
\* the rows of earlier runs, nor those this run closed, nor those a retry rewrote while it ran.
THEOREM NothingStoredTwice == Spec => []StoredOnce
<1>1. ASSUME RunInv, NEW j \in Jobs, NEW s \in Stages, Place(w[j]) = s, s \notin w[j].done
      PROVE  "done" \notin stage[j][s]
  <2>1. s # "none" /\ InOrder(w[j], stage[j])
    BY <1>1 DEF Stages, RunInv, RunInvOf
  <2>2. Rank[s] \in Nat
    BY <1>1, RankOrder DEF Targets
  <2> QED BY <1>1, <2>1, <2>2 DEF InOrder
<1>2. ASSUME RunInv, NEW j \in Jobs, w[j].pc \in {"Transcribing", "transcribe"}
      PROVE  "done" \notin stage[j]["Transcribing"]
  <2>1. Place(w[j]) = "Transcribing" /\ "Transcribing" \in Stages
    BY <1>2 DEF Place, Entering, Stages
  <2>2. "Transcribing" \notin w[j].done
    BY <1>2 DEF RunInv, RunInvOf, InOrder
  <2> QED BY <1>1, <1>2, <2>1, <2>2
<1>3. ASSUME RunInv, NEW j \in Jobs, w[j].pc \in {"Exporting", "announce"}
      PROVE  "done" \notin stage[j]["Exporting"]
  <2>1. Place(w[j]) = "Exporting" /\ "Exporting" \in Stages
    BY <1>3 DEF Place, Entering, Stages
  <2>2. "Exporting" \notin w[j].done
    BY <1>3 DEF RunInv, RunInvOf, InOrder
  <2> QED BY <1>1, <1>3, <2>1, <2>2
<1>4. RunInv => StoredOnce
  BY <1>2, <1>3 DEF StoredOnce
<1> QED BY <1>4, RunInvariant, PTL

\* While the backend is up, a job shown in flight has a run behind it, or is one of the two kinds
\* of job the code strands.
THEOREM InFlightHasRun == Spec => []InFlightIsRun
<1>1. RunInv => InFlightIsRun
  BY DEF RunInv, RunInvOf, LeavesNothing, InFlightIsRun
<1> QED BY <1>1, RunInvariant, PTL

\* The whole inductive invariant the run MCProcessingJobs checks.
THEOREM InductiveInvariant == Spec => []IInv
<1>1. Spec => []ExportInv
  BY ExportInit, ExportNext, PTL DEF Spec
<1>2. Spec => []ControlInv
  BY ControlInit, ControlNext, PTL DEF Spec
<1>3. ExportInv /\ ControlInv /\ RunInv => IInv
  BY DEF ExportInv, ControlInv, IInv
<1> QED BY <1>1, <1>2, <1>3, RunInvariant, PTL
==============================================================================
