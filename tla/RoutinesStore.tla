---------------------------- MODULE RoutinesStore ----------------------------
(* The routines slice and its page: switching a routine on or off and       *)
(* running it, against the routine registry of the backend.                 *)
EXTENDS Sagas, FiniteSets

CONSTANTS RoutineKeys, MaxRuns     \* the registered routines; bound: runs counted per routine

initialRoutinesState ==
  [routines |-> << >>, isLoading |-> FALSE, error |-> FALSE, togglingKeys |-> {}, runningKeys |-> {}]
RoutinesAction ==
  {"LOAD_ROUTINES", "LOAD_ROUTINES_SUCCESS", "LOAD_ROUTINES_FAILURE", "TOGGLE_ROUTINE", "TOGGLE_ROUTINE_SUCCESS",
   "TOGGLE_ROUTINE_FAILURE", "RUN_ROUTINE_NOW", "RUN_ROUTINE_NOW_SUCCESS", "RUN_ROUTINE_NOW_FAILURE"}
\* A routine as it is listed, with its latest run: its number, 0 if none, and whether it ended.
RoutineDefinition == [isEnabled : BOOLEAN, lastRun : [n : 0..MaxRuns, done : BOOLEAN]]
NoRun == [n |-> 0, done |-> TRUE]

\* A success touches only routines that are listed.
routinesReducer(s, a) ==
  CASE a.type = "LOAD_ROUTINES" -> [s EXCEPT !.isLoading = TRUE, !.error = FALSE]
    [] a.type = "LOAD_ROUTINES_SUCCESS" -> [s EXCEPT !.isLoading = FALSE, !.routines = a.routines, !.error = FALSE]
    [] a.type = "LOAD_ROUTINES_FAILURE" -> [s EXCEPT !.isLoading = FALSE, !.error = TRUE]
    [] a.type = "TOGGLE_ROUTINE" -> [s EXCEPT !.togglingKeys = @ \cup {a.key}]
    [] a.type = "TOGGLE_ROUTINE_SUCCESS" ->
         [s EXCEPT !.togglingKeys = @ \ {a.key},
                   !.routines = [r \in DOMAIN @ |-> IF r = a.key THEN a.routine ELSE @[r]]]
    [] a.type = "TOGGLE_ROUTINE_FAILURE" -> [s EXCEPT !.togglingKeys = {}, !.error = TRUE]
    [] a.type = "RUN_ROUTINE_NOW" -> [s EXCEPT !.runningKeys = @ \cup {a.key}]
    [] a.type = "RUN_ROUTINE_NOW_SUCCESS" ->
         [s EXCEPT !.runningKeys = @ \ {a.key},
                   !.routines = [r \in DOMAIN @ |-> IF r = a.key THEN [@[r] EXCEPT !.lastRun = a.run] ELSE @[r]]]
    [] a.type = "RUN_ROUTINE_NOW_FAILURE" -> [s EXCEPT !.runningKeys = {}, !.error = TRUE]
    [] OTHER -> s

watchRoutinesSagas(ts, a) ==
  CASE a.type = "LOAD_ROUTINES" -> takeLatestQuery(ts, gqlRequest("loadRoutinesSaga", Nothing))
    [] a.type = "TOGGLE_ROUTINE" -> takeEvery(ts, gqlRequest("toggleRoutineSaga", [key |-> a.key, enabled |-> a.enabled]))
    [] a.type = "RUN_ROUTINE_NOW" -> takeEvery(ts, gqlRequest("runRoutineNowSaga", a.key))
    [] OTHER -> ts

loadRoutinesSaga(t) ==
  IF t.ok THEN << [type |-> "LOAD_ROUTINES_SUCCESS", routines |-> t.ans] >> ELSE << [type |-> "LOAD_ROUTINES_FAILURE"] >>
toggleRoutineSaga(t) ==
  IF t.ok THEN << [type |-> "TOGGLE_ROUTINE_SUCCESS", key |-> t.arg.key, routine |-> t.ans] >>
          ELSE << [type |-> "TOGGLE_ROUTINE_FAILURE"] >>
runRoutineNowSaga(t) ==
  IF t.ok THEN << [type |-> "RUN_ROUTINE_NOW_SUCCESS", key |-> t.arg, run |-> t.ans] >>
          ELSE << [type |-> "RUN_ROUTINE_NOW_FAILURE"] >>
routinesPuts(t) ==
  CASE t.saga = "loadRoutinesSaga" -> loadRoutinesSaga(t)
    [] t.saga = "toggleRoutineSaga" -> toggleRoutineSaga(t)
    [] t.saga = "runRoutineNowSaga" -> runRoutineNowSaga(t)

(***************************************************************************)
(* The backend's registry: the switches are settings, of which a toggle    *)
(* reads all and then writes all; a run is recorded when it begins.  Ghost *)
(* clobbered: a toggle has written over another one's.                     *)
(***************************************************************************)
RoutinesInit(budget) ==
  SagaInit(initialRoutinesState,
    [enabled |-> [r \in RoutineKeys |-> TRUE], lastRun |-> [r \in RoutineKeys |-> NoRun], clobbered |-> FALSE], budget)
Definition(r, enabled, lastRun) == [isEnabled |-> enabled[r], lastRun |-> lastRun[r]]
ListAsync(s) == [r \in RoutineKeys |-> Definition(r, s.enabled, s.lastRun)]

QueryRoutines(i) == tasks[i].saga = "loadRoutinesSaga" /\ Answer(i, srv, ListAsync(srv))
ToggleAsync(i) == tasks[i].saga = "toggleRoutineSaga" /\ Halfway(i, srv, srv.enabled)
ToggleRoutine(i) ==
  /\ tasks[i].saga = "toggleRoutineSaga" /\ tasks[i].pc = "half"
  /\ LET key == tasks[i].arg.key
         saved == [srv EXCEPT !.enabled = [tasks[i].ans EXCEPT ![key] = tasks[i].arg.enabled],
                              !.clobbered = @ \/ srv.enabled # tasks[i].ans]
     IN  Answer(i, saved, ListAsync(saved)[key])
\* RunNowAsync records the run before it executes it.
RunNowAsync(i) ==
  /\ tasks[i].saga = "runRoutineNowSaga"
  /\ LET key == tasks[i].arg
         run == [n |-> srv.lastRun[key].n + 1, done |-> FALSE]
     IN  run.n <= MaxRuns /\ Halfway(i, [srv EXCEPT !.lastRun[key] = run], run)
RunRoutineNow(i) ==
  /\ tasks[i].saga = "runRoutineNowSaga" /\ tasks[i].pc = "half"
  /\ LET key == tasks[i].arg
         run == [tasks[i].ans EXCEPT !.done = TRUE]
     IN  Answer(i, IF srv.lastRun[key].n = run.n THEN [srv EXCEPT !.lastRun[key] = run] ELSE srv, run)

RoutinesDo(a) == Dispatch(routinesReducer, watchRoutinesSagas, a)
selectAllRoutines == DOMAIN ui.routines
Routines ==
  \/ RoutinesDo([type |-> "LOAD_ROUTINES"])
  \/ \E r \in selectAllRoutines \ ui.togglingKeys :
       RoutinesDo([type |-> "TOGGLE_ROUTINE", key |-> r, enabled |-> ~ui.routines[r].isEnabled])
  \/ \E r \in selectAllRoutines \ ui.runningKeys :
       ui.routines[r].isEnabled /\ RoutinesDo([type |-> "RUN_ROUTINE_NOW", key |-> r])

RoutinesAnswers == \E i \in InFlight : QueryRoutines(i) \/ ToggleAsync(i) \/ ToggleRoutine(i) \/ RunNowAsync(i) \/ RunRoutineNow(i)
RoutinesResumes ==
  \E i \in InState("back") :
    Resume(routinesReducer, watchRoutinesSagas, i, routinesPuts(tasks[i]), << >>, tasks[i].saga = "loadRoutinesSaga")
RoutinesNext == Routines \/ RoutinesAnswers \/ Dropped \/ RoutinesResumes

(***************************************************************************)
(* Properties.                                                             *)
(***************************************************************************)
RoutinesTypeOK ==
  /\ DOMAIN ui.routines \subseteq RoutineKeys /\ \A r \in DOMAIN ui.routines : ui.routines[r] \in RoutineDefinition
  /\ ui.isLoading \in BOOLEAN /\ ui.error \in BOOLEAN /\ ui.togglingKeys \cup ui.runningKeys \subseteq RoutineKeys
  /\ \A i \in InState("back") : \A k \in DOMAIN routinesPuts(tasks[i]) : routinesPuts(tasks[i])[k].type \in RoutinesAction

\* At rest, with no answer lost or overtaken since the last load, the page shows each
\* routine's switch as the registry has it, unless a toggle wrote over another one's.
RoutinesShown ==
  Idle /\ ~drift /\ ~srv.clobbered => \A r \in RoutineKeys : ui.routines[r].isEnabled = srv.enabled[r]
\* The same without the condition: two switches flipped at once can undo one another.
SwitchesShown ==
  Idle /\ ~drift => \A r \in RoutineKeys : ui.routines[r].isEnabled = srv.enabled[r]

\* A busy mark is set only while a saga that will clear it runs.
RoutinesSpinnersEnd ==
  /\ ui.isLoading => Running("loadRoutinesSaga") # {}
  /\ \A r \in ui.togglingKeys : \E i \in Running("toggleRoutineSaga") : tasks[i].arg.key = r
  /\ \A r \in ui.runningKeys : \E i \in Running("runRoutineNowSaga") : tasks[i].arg = r

\* A routine is run once per request of the user: while one run is asked for, the button
\* is disabled, as long as no request has failed.
OneRunPerRoutine ==
  ~broken => \A i, j \in Running("runRoutineNowSaga") : tasks[i].arg = tasks[j].arg => i = j
\* The same without the condition: a failed run of one routine clears the marks of all,
\* and a routine still running can be started again.
OneRunEver ==
  \A i, j \in Running("runRoutineNowSaga") : tasks[i].arg = tasks[j].arg => i = j
=============================================================================
