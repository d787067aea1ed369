------------------------- MODULE ServiceSupervisor -------------------------
(***************************************************************************)
(* The desktop shell's child processes: the supervisor that starts them,   *)
(* watches their health and restarts them, the launchers that hold one     *)
(* process handle per service, the start-up and the quit of main.ts, and   *)
(* the settings events of the backend that restart the search sidecar      *)
(* behind the supervisor's back.                                           *)
(*                                                                         *)
(* The launchers stop their child in two ways.  Python's, SearXNG's and    *)
(* the backend's send SIGTERM and wait for the exit, for as long as the    *)
(* grace lasts; Syncthing's (Gentle) asks it to shut down, sends SIGTERM   *)
(* once that request is answered, and waits for no exit.                   *)
(*                                                                         *)
(* Every await of the code is a step boundary here; what runs between two  *)
(* awaits is one action.                                                   *)
(***************************************************************************)
EXTENDS Naturals, Sequences, FiniteSets

CONSTANTS
    Order,        \* services in the order main.ts registers them
    Backend,      \* the service main.ts starts itself, after startAll
    Installed,    \* supervised services whose script or binary is found
    AwaitsReady,  \* services whose startFn awaits readiness after the spawn
    Sidecar,      \* the service the backend's settings event restarts
    Flows,        \* health ticks of one service that may be in flight at once
    Procs,        \* process identities (bounds the number of spawns)
    NoProc,
    MaxRestarts,  \* ServiceSpec.maxRestarts, 3 in every spec
    Events,       \* the settings events that the backend may print
    Gentle,       \* services stopped by a request: Syncthing
    Punctual      \* services whose children exit within the grace of a stop that
                  \* waits: their restarts are over before the next failing check

Supervised == {Order[i] : i \in 1 .. Len(Order)}
Services == Supervised \cup {Backend}

ASSUME SupervisorAssumption ==
    /\ Order \in Seq(Services)
    /\ IsFiniteSet(Flows) /\ IsFiniteSet(Procs)
    /\ Backend \notin Supervised
    /\ AwaitsReady \subseteq Supervised
    /\ Installed \subseteq Supervised
    /\ Sidecar \in Supervised \ Gentle
    /\ Gentle \subseteq Supervised
    /\ Punctual \subseteq Services \ Gentle
    /\ NoProc \notin Procs
    /\ MaxRestarts \in Nat

\* main.ts registers each service once.
ASSUME OrderAssumption ==
    \A i, j \in 1 .. Len(Order) : Order[i] = Order[j] => i = j

VARIABLES
    managed,        \* the supervisor's record of each service
    globalStopped,
    flow,           \* where each health tick's async body stands
    boot,           \* where the start-up of main.ts stands
    quit,           \* "no", "stopping" (stopAll awaited) or "exited"
    restart,        \* where each settings event's restartSearxng stands
    handle,         \* the launcher's module variable: a process or null
    waiting,        \* the process each pending stopFn call is about
    proc            \* the operating system's and Node's view of the children

supervisorVars == <<managed, globalStopped, flow, boot, quit>>
vars == <<supervisorVars, restart, handle, waiting, proc>>

HealthTask(s, f) == <<s, f>>
QuitTask(s) == <<s, "quit">>
SettingsTask(e) == <<Sidecar, "settings", e>>
Tasks == {HealthTask(s, f) : s \in Supervised, f \in Flows}
            \cup {QuitTask(s) : s \in Services} \cup {SettingsTask(e) : e \in Events}

FlowSteps == {"idle", "check", "stop", "sleep", "start"}

TypeOK ==
    /\ managed \in [Services -> [stopped : BOOLEAN, running : BOOLEAN,
                                 timer : BOOLEAN, registered : BOOLEAN,
                                 restarts : 0 .. MaxRestarts]]
    /\ globalStopped \in BOOLEAN
    /\ flow \in [Supervised -> [Flows -> FlowSteps]]
    /\ boot \in [pc : {"cleanup", "next", "await", "backend", "ready"},
                 at : 1 .. Len(Order) + 1]
    /\ quit \in {"no", "stopping", "exited"}
    /\ restart \in [Events -> {"idle", "stop", "start", "done"}]
    /\ handle \in [Services -> Procs \cup {NoProc}]
    /\ waiting \in [Tasks -> Procs \cup {NoProc}]
    /\ proc \in [Procs -> [svc : Services, by : {"none", "boot", "flow", "settings"},
                           alive : BOOLEAN, reaped : BOOLEAN, told : BOOLEAN,
                           killed : BOOLEAN, forced : BOOLEAN, crowded : BOOLEAN]]

Spawned(p) == proc[p].by # "none"
Running == quit # "exited"    \* the shell's event loop still runs
Live(s) == {p \in Procs : proc[p].svc = s /\ proc[p].alive}

\* The children of s that have not ended as far as Node knows.
Unreaped(s) == {p \in Procs : Spawned(p) /\ proc[p].svc = s /\ ~proc[p].reaped}

Init ==
    /\ managed = [s \in Services |->
                    [stopped |-> FALSE, running |-> FALSE, timer |-> FALSE,
                     registered |-> s # Backend, restarts |-> 0]]
    /\ globalStopped = FALSE
    /\ flow = [s \in Supervised |-> [f \in Flows |-> "idle"]]
    /\ boot = [pc |-> "cleanup", at |-> 1]
    /\ quit = "no"
    /\ restart = [e \in Events |-> "idle"]
    /\ handle = [s \in Services |-> NoProc]
    /\ waiting = [t \in Tasks |-> NoProc]
    /\ proc = [p \in Procs |-> [svc |-> Backend, by |-> "none", alive |-> FALSE,
                                reaped |-> FALSE, told |-> FALSE, killed |-> FALSE,
                                forced |-> FALSE, crowded |-> FALSE]]

(***************************************************************************)
(* The launchers.  A start overwrites the handle without looking at it     *)
(* (crowded records that another child of the service had not ended by     *)
(* then).  A stop takes the handle and tells its child to end: by SIGTERM, *)
(* or by the request of a Gentle launcher.  Node sets ChildProcess.killed  *)
(* when a signal was sent.                                                 *)
(***************************************************************************)
Spawn(s, by) ==
    /\ \E p \in Procs : ~Spawned(p)
    /\ LET p == CHOOSE q \in Procs : ~Spawned(q) IN
         /\ proc' = [proc EXCEPT ![p].svc = s, ![p].by = by, ![p].alive = TRUE,
                                 ![p].crowded = Unreaped(s) # {}]
         /\ handle' = [handle EXCEPT ![s] = p]

\* A start function that finds no script returns normally.
TryStart(s, by) ==
    IF s \in Installed THEN Spawn(s, by) ELSE UNCHANGED <<proc, handle>>

\* What a stop finds in the handle and tells to end.
Signalled(s) ==
    IF handle[s] = NoProc \/ proc[handle[s]].killed \/ proc[handle[s]].reaped
    THEN NoProc ELSE handle[s]

BeginStop(tasks) ==
    /\ handle' = [s \in Services |->
                    IF \E t \in tasks : t[1] = s THEN NoProc ELSE handle[s]]
    /\ waiting' = [t \in Tasks |-> IF t \in tasks THEN Signalled(t[1]) ELSE waiting[t]]
    /\ proc' = [p \in Procs |->
                  IF \E t \in tasks : Signalled(t[1]) = p
                  THEN [proc[p] EXCEPT !.told = TRUE,
                                       !.killed = @ \/ proc[p].svc \notin Gentle]
                  ELSE proc[p]]

\* (mutant) No stop waits for the exit of its child.
StopAtOnce(t) == TRUE

\* The race between the exit event and the grace timer, which a punctual child
\* wins.  The answer to a Gentle launcher's request may come at any time.
StopOver(t) ==
    t[1] \in Punctual /\ waiting[t] # NoProc => proc[waiting[t]].reaped

\* After the race SIGKILL, but only when no signal was sent before; after the
\* answer to the request SIGTERM.
EndStop(t) ==
    /\ StopOver(t)
    /\ waiting' = [waiting EXCEPT ![t] = NoProc]
    /\ proc' = [p \in Procs |->
                  IF p = waiting[t] /\ ~proc[p].reaped /\ ~proc[p].killed
                  THEN [proc[p] EXCEPT !.killed = TRUE, !.forced = t[1] \notin Gentle]
                  ELSE proc[p]]

\* A child ends, by itself or because it was told to.
Die(p) ==
    /\ proc[p].alive
    /\ proc' = [proc EXCEPT ![p].alive = FALSE]
    /\ UNCHANGED <<supervisorVars, restart, handle, waiting>>

\* (mutant) The exit is noticed only while the handle still holds the child.
ExitOfCurrent(p) ==
    /\ Running
    /\ Spawned(p) /\ ~proc[p].alive /\ ~proc[p].reaped /\ handle[proc[p].svc] = p
    /\ proc' = [proc EXCEPT ![p].reaped = TRUE]
    /\ handle' = [handle EXCEPT ![proc[p].svc] = NoProc]
    /\ UNCHANGED <<supervisorVars, restart, waiting>>

\* Node's exit event: the launcher clears its handle, whatever it holds by now.
ExitEvent(p) ==
    /\ Running
    /\ Spawned(p) /\ ~proc[p].alive /\ ~proc[p].reaped
    /\ proc' = [proc EXCEPT ![p].reaped = TRUE]
    /\ handle' = [handle EXCEPT ![proc[p].svc] = NoProc]
    /\ UNCHANGED <<supervisorVars, restart, waiting>>

(***************************************************************************)
(* Start-up of main.ts: clean the ports, start the registered services one *)
(* after the other, then register the backend and start it directly.       *)
(***************************************************************************)
\* startService of a start function that does not wait: running and watched.
Started(s) == [managed EXCEPT ![s].stopped = FALSE, ![s].running = TRUE, ![s].timer = TRUE]

\* startAll resets the stop flag once, then awaits the clean-up of the ports.
CleanupZombies ==
    /\ Running /\ boot.pc = "cleanup"
    /\ boot' = [boot EXCEPT !.pc = "next"]
    /\ UNCHANGED <<managed, globalStopped, flow, quit, restart, handle, waiting, proc>>

StartNext ==
    /\ Running /\ boot.pc = "next" /\ boot.at <= Len(Order)
    /\ LET s == Order[boot.at] IN
         /\ TryStart(s, "boot")
         /\ IF s \in AwaitsReady
            THEN /\ managed' = [managed EXCEPT ![s].stopped = FALSE]
                 /\ boot' = [boot EXCEPT !.pc = "await"]
            ELSE /\ managed' = Started(s)
                 /\ boot' = [boot EXCEPT !.at = @ + 1]
    /\ UNCHANGED <<globalStopped, flow, quit, restart, waiting>>

\* (mutant) No health loop is scheduled once the service is up.
StartedUnwatched ==
    /\ Running /\ boot.pc = "await"
    /\ managed' = [managed EXCEPT ![Order[boot.at]].running = TRUE]
    /\ boot' = [pc |-> "next", at |-> boot.at + 1]
    /\ UNCHANGED <<globalStopped, flow, quit, restart, handle, waiting, proc>>

StartedNext ==
    /\ Running /\ boot.pc = "await"
    /\ LET s == Order[boot.at] IN
         managed' = [managed EXCEPT ![s].running = TRUE, ![s].timer = TRUE]
    /\ boot' = [pc |-> "next", at |-> boot.at + 1]
    /\ UNCHANGED <<globalStopped, flow, quit, restart, handle, waiting, proc>>

RegisterBackend ==
    /\ Running /\ boot.pc = "next" /\ boot.at = Len(Order) + 1
    /\ managed' = [managed EXCEPT ![Backend].registered = TRUE]
    /\ boot' = [boot EXCEPT !.pc = "backend"]
    /\ UNCHANGED <<globalStopped, flow, quit, restart, handle, waiting, proc>>

\* Attach to a backend that answers, or spawn one once the port is free.
StartBackend ==
    /\ Running /\ boot.pc = "backend"
    /\ Spawn(Backend, "boot") \/ UNCHANGED <<proc, handle>>
    /\ boot' = [boot EXCEPT !.pc = "ready"]
    /\ UNCHANGED <<managed, globalStopped, flow, quit, restart, waiting>>

(***************************************************************************)
(* The health loop.  A tick starts an asynchronous body that later ticks   *)
(* do not wait for.                                                        *)
(***************************************************************************)
To(s, f, step) == flow' = [flow EXCEPT ![s][f] = step]

TickStopped(s) ==
    /\ Running /\ managed[s].timer
    /\ managed[s].stopped \/ globalStopped
    /\ managed' = [managed EXCEPT ![s].timer = FALSE]
    /\ UNCHANGED <<globalStopped, flow, boot, quit, restart, handle, waiting, proc>>

Tick(s, f) ==
    /\ Running /\ managed[s].timer
    /\ ~managed[s].stopped /\ ~globalStopped
    /\ flow[s][f] = "idle"
    /\ To(s, f, "check")
    /\ UNCHANGED <<managed, globalStopped, boot, quit, restart, handle, waiting, proc>>

CheckHealthy(s, f) ==
    /\ Running /\ flow[s][f] = "check"
    /\ Live(s) # {}
    /\ To(s, f, "idle")
    /\ UNCHANGED <<managed, globalStopped, boot, quit, restart, handle, waiting, proc>>

\* (mutant) The budget is compared one restart too late.
ExhaustedLate(s) == managed[s].restarts > MaxRestarts

Exhausted(s) == managed[s].restarts >= MaxRestarts

\* No answer, a bad status or an exception: handleUnhealthy up to its first await.
CheckUnhealthy(s, f) ==
    /\ Running /\ flow[s][f] = "check"
    /\ s \in Punctual => \A g \in Flows : flow[s][g] \notin {"stop", "sleep"}
    /\ IF managed[s].stopped \/ globalStopped
       THEN To(s, f, "idle") /\ UNCHANGED <<managed, handle, waiting, proc>>
       ELSE IF Exhausted(s)
       THEN /\ managed' = [managed EXCEPT ![s].stopped = TRUE, ![s].running = FALSE]
            /\ To(s, f, "idle")
            /\ UNCHANGED <<handle, waiting, proc>>
       ELSE /\ managed' = [managed EXCEPT ![s].restarts = @ + 1, ![s].running = FALSE]
            /\ BeginStop({HealthTask(s, f)})
            /\ To(s, f, "stop")
    /\ UNCHANGED <<globalStopped, boot, quit, restart>>

StopReturned(s, f) ==
    /\ Running /\ flow[s][f] = "stop"
    /\ EndStop(HealthTask(s, f))
    /\ To(s, f, "sleep")
    /\ UNCHANGED <<managed, globalStopped, boot, quit, restart, handle>>

\* (mutant) Nobody looks again after the back-off.
RestartAnyway(s) == TRUE

MayRestart(s) == ~managed[s].stopped /\ ~globalStopped

\* The back-off is over: look again whether the service is still wanted.
Wake(s, f) ==
    /\ Running /\ flow[s][f] = "sleep"
    /\ IF ~MayRestart(s)
       THEN To(s, f, "idle") /\ UNCHANGED <<managed, proc, handle>>
       ELSE /\ TryStart(s, "flow")
            /\ IF s \in AwaitsReady
               THEN To(s, f, "start") /\ UNCHANGED managed
               ELSE /\ To(s, f, "idle")
                    /\ managed' = [managed EXCEPT ![s].running = TRUE, ![s].timer = TRUE]
    /\ UNCHANGED <<globalStopped, boot, quit, restart, waiting>>

\* startFn returned: running again, even when it was stopped meanwhile.
Restarted(s, f) ==
    /\ Running /\ flow[s][f] = "start"
    /\ To(s, f, "idle")
    /\ managed' = [managed EXCEPT ![s].running = TRUE, ![s].timer = TRUE]
    /\ UNCHANGED <<globalStopped, boot, quit, restart, handle, waiting, proc>>

(***************************************************************************)
(* The backend's settings events restart the sidecar directly.  Nothing    *)
(* keeps two of them apart, nor one of them and a health tick.             *)
(***************************************************************************)
\* The backend's output is read until its exit is known.
SettingsEvent(e) ==
    /\ Running /\ restart[e] = "idle"
    /\ Unreaped(Backend) # {}
    /\ BeginStop({SettingsTask(e)})
    /\ restart' = [restart EXCEPT ![e] = "stop"]
    /\ UNCHANGED supervisorVars

SettingsSpawn(e) ==
    /\ Running /\ restart[e] = "stop"
    /\ StopOver(SettingsTask(e))
    /\ TryStart(Sidecar, "settings")
    /\ waiting' = [waiting EXCEPT ![SettingsTask(e)] = NoProc]
    /\ restart' = [restart EXCEPT ![e] = "start"]
    /\ UNCHANGED supervisorVars

SettingsDone(e) ==
    /\ Running /\ restart[e] = "start"
    /\ restart' = [restart EXCEPT ![e] = "done"]
    /\ UNCHANGED <<supervisorVars, handle, waiting, proc>>

(***************************************************************************)
(* before-quit: stopAll calls every stopFn in one turn, then waits for all *)
(* of them; app.exit follows.                                              *)
(***************************************************************************)
Registered == {s \in Services : managed[s].registered}

StopAll ==
    /\ quit = "no"
    /\ quit' = "stopping"
    /\ globalStopped' = TRUE
    /\ managed' = [s \in Services |->
                     IF s \in Registered
                     THEN [managed[s] EXCEPT !.stopped = TRUE, !.running = FALSE,
                                             !.timer = FALSE]
                     ELSE managed[s]]
    /\ BeginStop({QuitTask(s) : s \in Registered})
    /\ UNCHANGED <<flow, boot, restart>>

StoppedOne(s) ==
    /\ quit = "stopping" /\ waiting[QuitTask(s)] # NoProc
    /\ EndStop(QuitTask(s))
    /\ UNCHANGED <<supervisorVars, restart, handle>>

Exit ==
    /\ quit = "stopping"
    /\ \A s \in Services : waiting[QuitTask(s)] = NoProc
    /\ quit' = "exited"
    /\ UNCHANGED <<managed, globalStopped, flow, boot, restart, handle, waiting, proc>>

Boot == CleanupZombies \/ StartNext \/ StartedNext \/ RegisterBackend \/ StartBackend

Health(s) ==
    \/ TickStopped(s)
    \/ \E f \in Flows : \/ Tick(s, f) \/ CheckHealthy(s, f) \/ CheckUnhealthy(s, f)
                        \/ StopReturned(s, f) \/ Wake(s, f) \/ Restarted(s, f)

Settings == \E e \in Events : SettingsEvent(e) \/ SettingsSpawn(e) \/ SettingsDone(e)

Quit == StopAll \/ Exit \/ \E s \in Services : StoppedOne(s)

Next ==
    \/ Boot
    \/ \E s \in Supervised : Health(s)
    \/ Settings
    \/ Quit
    \/ \E p \in Procs : Die(p) \/ ExitEvent(p)

\* Timers fire, awaits return and exit events arrive; nothing obliges a child
\* to crash, a check to fail while the child lives, the user to quit, or a service
\* to answer the request of a Gentle launcher, which has no timeout.
Fairness ==
    /\ WF_vars(Boot)
    /\ \A s \in Supervised :
         /\ WF_vars(\E f \in Flows : Tick(s, f))
         /\ \A f \in Flows :
              /\ WF_vars(CheckHealthy(s, f) \/ CheckUnhealthy(s, f))
              /\ s \notin Gentle => WF_vars(StopReturned(s, f))
              /\ WF_vars(Wake(s, f))
              /\ WF_vars(Restarted(s, f))
    /\ \A e \in Events : WF_vars(SettingsSpawn(e) \/ SettingsDone(e))
    /\ \A s \in Services \ Gentle : WF_vars(StoppedOne(s))
    /\ WF_vars(Exit)
    /\ \A p \in Procs : WF_vars(ExitEvent(p)) /\ WF_vars(proc[p].killed /\ Die(p))

Spec == Init /\ [][Next]_vars /\ Fairness

(***************************************************************************)
(* Properties                                                              *)
(***************************************************************************)

SpawnedBy(s, by) == {p \in Procs : proc[p].by = by /\ proc[p].svc = s}

\* The health ticks of a service overlap, and each may restart it: between them
\* they start it again at most as often as they counted, and never more than
\* maxRestarts times.
RestartBudget ==
    \A s \in Supervised :
        /\ Cardinality(SpawnedBy(s, "flow")) <= managed[s].restarts
        /\ managed[s].restarts <= MaxRestarts

\* Some child of s was spawned before another one of s had ended.
Crowded(s) == \E p \in Procs : proc[p].svc = s /\ proc[p].crowded

\* No settings event has restarted s behind the supervisor's back.
Undisturbed(s) == s # Sidecar \/ \A e \in Events : restart[e] = "idle"

\* A child is lost from sight (it lives, nobody told it to end, and no handle
\* holds it, so that no later stop reaches it) only when a child of its service
\* was spawned before another one had ended; and that happens neither to a
\* service whose stop waits for the exit and that no settings event restarts,
\* nor to any service at start-up.
NoChildLost ==
    /\ \A p \in Procs : proc[p].alive /\ ~proc[p].told =>
            handle[proc[p].svc] = p \/ Crowded(proc[p].svc)
    /\ \A p \in Procs : proc[p].crowded =>
            /\ proc[p].by # "boot"
            /\ proc[p].svc \in Punctual => ~Undisturbed(proc[p].svc)

\* When the shell has exited, every live child of a supervised service that
\* start-up did not start after stopAll and no settings event restarted was told
\* to end, restarts that were under way when the quit came included; but for a
\* child that its service had lost from sight before.
ExitReachesChildren ==
    quit = "exited" =>
        \A s \in Supervised : managed[s].stopped /\ Undisturbed(s) =>
            \A p \in Live(s) : proc[p].told \/ Crowded(s)

\* A quit ends: stopAll waits for the children, never for a restart.
QuitEnds == quit = "stopping" ~> quit = "exited"

\* A supervised service whose child is gone gets a new one, is given up for
\* good, or the shell quits.
CrashIsNoticed ==
    \A s \in Installed :
        (managed[s].running /\ Live(s) = {})
            ~> (Live(s) # {} \/ managed[s].stopped \/ globalStopped)

\* What serviceSupervisor.test.ts:139 says: no startFn is called after stopAll.
NothingStartsAfterStopAll ==
    [][quit # "no" => \A p \in Procs : Spawned(p)' => Spawned(p)]_vars

\* What the shell would like: no child is ever lost from sight.  Syncthing's is, when
\* it outlives the back-off and exits after the next one was spawned.
NoChildEverLost ==
    \A p \in Procs : proc[p].alive /\ ~proc[p].told => handle[proc[p].svc] = p

\* What the launchers' log says: a child that outlives the grace is killed.
OutlivedGraceIsKilled ==
    \A p \in Procs :
        (proc[p].alive /\ proc[p].killed /\ \A t \in Tasks : waiting[t] # p) => proc[p].forced

(***************************************************************************)
(* The inductive invariant behind NoChildLost and ExitReachesChildren.     *)
(***************************************************************************)

\* A child is spawned before it lives or is told anything, told to end when it is
\* signalled, and dead when Node knows it ended.
FlagsRight ==
    \A p \in Procs :
        /\ ~Spawned(p) => /\ ~proc[p].alive /\ ~proc[p].told /\ ~proc[p].killed
                          /\ ~proc[p].reaped /\ ~proc[p].crowded
        /\ proc[p].reaped => ~proc[p].alive
        /\ proc[p].killed => proc[p].told

\* A handle holds a child of its service that has not ended.
HandlesHold ==
    \A s \in Services : handle[s] # NoProc => handle[s] \in Unreaped(s)

\* A child that has not ended is in its handle, was told to end, or is crowded.
HandlesKnow ==
    \A s \in Services : \A p \in Unreaped(s) : handle[s] = p \/ proc[p].told \/ Crowded(s)

\* Two children of a service that have not ended: one was spawned beside the other.
CrowdsKnown ==
    \A s \in Services : \A p, q \in Unreaped(s) : p = q \/ Crowded(s)

\* A stop is about a child of its service that was told to end.
WaitsRight ==
    \A t \in Tasks : waiting[t] # NoProc =>
        Spawned(waiting[t]) /\ proc[waiting[t]].svc = t[1] /\ proc[waiting[t]].told

ChildrenRight == FlagsRight /\ HandlesHold /\ HandlesKnow /\ CrowdsKnown /\ WaitsRight

\* The health ticks of s that have counted a restart and not carried it out.
Restarting(s) == {f \in Flows : flow[s][f] \in {"stop", "sleep"}}

\* The services whose stops wait and that only the supervisor restarts.
Calm == {s \in Punctual : Undisturbed(s)}

\* At a calm service no signalled child is in the handle, and a child that was
\* signalled and has not ended leaves the handle empty.
SignalsRight ==
    \A s \in Calm : \A p \in Unreaped(s) :
        /\ handle[s] = p => ~proc[p].killed
        /\ handle[s] # p => proc[p].killed /\ handle[s] = NoProc

\* One restart of a calm service is under way at a time; it has emptied the handle,
\* and a child that has not ended is in the handle or waited for by it.
RestartsRight ==
    \A s \in Calm \cap Supervised :
        /\ \A f, g \in Restarting(s) : f = g
        /\ Restarting(s) # {} => handle[s] = NoProc
        /\ ~globalStopped => \A p \in Unreaped(s) :
                \/ handle[s] = p
                \/ \E f \in Flows : flow[s][f] = "stop" /\ waiting[HealthTask(s, f)] = p

\* The services that start-up has still to start.
Pending == {Order[i] : i \in (IF boot.pc = "await" THEN boot.at + 1 ELSE boot.at) .. Len(Order)}

\* A service that start-up has not come to has no child and is not watched, and
\* no settings event comes before the backend is started.
StartUpRight ==
    /\ \A s \in Pending : /\ ~managed[s].timer
                          /\ \A f \in Flows : flow[s][f] = "idle"
                          /\ \A p \in Procs : Spawned(p) => proc[p].svc # s
    /\ boot.pc # "ready" => /\ \A p \in Procs : Spawned(p) => proc[p].svc # Backend
                            /\ \A e \in Events : restart[e] = "idle"
    /\ boot.pc \in {"backend", "ready"} => Pending = {}

\* Once the quit has begun the handle of a stopped service is empty.
QuitRight ==
    /\ globalStopped <=> quit # "no"
    /\ \A s \in Supervised : managed[s].registered
    /\ quit # "no" =>
            \A s \in Supervised : managed[s].stopped /\ Undisturbed(s) => handle[s] = NoProc

\* No calm service, and no service at start-up, is crowded.
CrowdsRight ==
    \A p \in Procs : proc[p].crowded =>
        proc[p].svc \notin Calm /\ proc[p].by # "boot"

ChildrenInv ==
    /\ ChildrenRight /\ SignalsRight /\ RestartsRight
    /\ StartUpRight /\ QuitRight /\ CrowdsRight

=============================================================================
