----------------------- MODULE ServiceSupervisorProofs -----------------------
(***************************************************************************)
(* Proofs about ServiceSupervisor, for any services, health ticks, child   *)
(* processes and bounds: its types, and that overlapping health ticks      *)
(* never restart a service more often than they counted.                   *)
(***************************************************************************)
EXTENDS ServiceSupervisor, FiniteSetTheorems, TLAPS

ManagedType == [stopped : BOOLEAN, running : BOOLEAN, timer : BOOLEAN, registered : BOOLEAN,
                restarts : 0 .. MaxRestarts]
ProcType == [svc : Services, by : {"none", "boot", "flow", "settings"}, alive : BOOLEAN,
             reaped : BOOLEAN, told : BOOLEAN, killed : BOOLEAN, forced : BOOLEAN,
             crowded : BOOLEAN]

\* The launchers' part of TypeOK.
LaunchersOK ==
    /\ handle \in [Services -> Procs \cup {NoProc}]
    /\ waiting \in [Tasks -> Procs \cup {NoProc}]
    /\ proc \in [Procs -> ProcType]

\* Who spawned what: unchanged unless a service is spawned.
Origins == [p \in Procs |-> <<proc[p].by, proc[p].svc>>]

\* What each counted restart stands for: a spawn that was made, or one still to come.
RestartsCounted ==
    \A s \in Supervised :
        Cardinality(SpawnedBy(s, "flow")) + Cardinality(Restarting(s)) <= managed[s].restarts

\* A start that is awaited is that of a registered service.
AwaitsRegistered == boot.pc = "await" => boot.at <= Len(Order)

SupervisorInv == TypeOK /\ RestartsCounted /\ AwaitsRegistered

LEMMA ServiceKinds ==
    /\ Supervised \subseteq Services /\ Backend \in Services /\ Sidecar \in Services
    /\ Len(Order) \in Nat
    /\ \A i \in 1 .. Len(Order) : Order[i] \in Supervised
BY SupervisorAssumption DEF Supervised, Services

LEMMA TaskKinds ==
    /\ \A s \in Supervised, f \in Flows : HealthTask(s, f) \in Tasks /\ HealthTask(s, f)[1] = s
    /\ \A s \in Services : QuitTask(s) \in Tasks /\ QuitTask(s)[1] = s
    /\ \A e \in Events : SettingsTask(e) \in Tasks /\ SettingsTask(e)[1] = Sidecar
    /\ \A t \in Tasks : t[1] \in Services
BY ServiceKinds DEF HealthTask, QuitTask, SettingsTask, Tasks

\* A spawn takes a child that was not spawned before, and no other.
LEMMA SpawnTakes ==
    ASSUME LaunchersOK, NEW s \in Services, NEW by \in {"boot", "flow", "settings"}, Spawn(s, by)
    PROVE  \E p \in Procs :
             /\ ~Spawned(p)
             /\ proc' \in [Procs -> ProcType] /\ handle' \in [Services -> Procs \cup {NoProc}]
             /\ proc'[p].by = by /\ proc'[p].svc = s
             /\ \A q \in Procs \ {p} : proc'[q] = proc[q]
<1>1. PICK p \in Procs : /\ ~Spawned(p) /\ p = CHOOSE q \in Procs : ~Spawned(q)
                         /\ proc' = [proc EXCEPT ![p].svc = s, ![p].by = by, ![p].alive = TRUE,
                                                 ![p].crowded = Unreaped(s) # {}]
                         /\ handle' = [handle EXCEPT ![s] = p]
  BY Zenon DEF Spawn
<1>2. proc[p] \in ProcType
  BY <1>1 DEF LaunchersOK
<1> DEFINE child == [proc[p] EXCEPT !.svc = s, !.by = by, !.alive = TRUE,
                                    !.crowded = Unreaped(s) # {}]
<1>3. child \in ProcType /\ child.by = by /\ child.svc = s
  BY <1>2 DEF ProcType
<1>4. proc' = [proc EXCEPT ![p] = child]
  BY <1>1 DEF LaunchersOK, ProcType
<1> HIDE DEF child
<1>5. handle' \in [Services -> Procs \cup {NoProc}]
  BY <1>1 DEF LaunchersOK
<1>6. proc' \in [Procs -> ProcType] /\ proc'[p] = child /\ \A q \in Procs \ {p} : proc'[q] = proc[q]
  BY <1>3, <1>4 DEF LaunchersOK
<1> QED
  BY <1>1, <1>3, <1>5, <1>6

LEMMA TryStartType ==
    ASSUME LaunchersOK, NEW s \in Services, NEW by \in {"boot", "flow", "settings"}, TryStart(s, by)
    PROVE  proc' \in [Procs -> ProcType] /\ handle' \in [Services -> Procs \cup {NoProc}]
<1>1. CASE s \in Installed
  <2>1. Spawn(s, by)
    BY <1>1 DEF TryStart
  <2> QED BY <2>1, SpawnTakes
<1>2. CASE s \notin Installed
  BY <1>2 DEF TryStart, LaunchersOK
<1> QED BY <1>1, <1>2

\* A start that no health tick made adds nothing to what the ticks have spawned.
LEMMA OthersSpawn ==
    ASSUME LaunchersOK, NEW s \in Services, NEW by \in {"boot", "settings"}, TryStart(s, by),
           NEW t \in Services
    PROVE  SpawnedBy(t, "flow")' = SpawnedBy(t, "flow")
<1>1. CASE s \in Installed
  <2>0. Spawn(s, by)
    BY <1>1 DEF TryStart
  <2>1. PICK p \in Procs : ~Spawned(p) /\ proc'[p].by = by /\ \A q \in Procs \ {p} : proc'[q] = proc[q]
    BY <2>0, SpawnTakes
  <2> QED BY <2>1 DEF SpawnedBy, Spawned
<1>2. CASE s \notin Installed
  BY <1>2 DEF TryStart, SpawnedBy
<1> QED BY <1>1, <1>2

\* A start that a health tick made adds one child at most, to its own service.
LEMMA TickSpawns ==
    ASSUME LaunchersOK, NEW s \in Services, TryStart(s, "flow"), NEW t \in Services
    PROVE  \/ SpawnedBy(t, "flow")' = SpawnedBy(t, "flow")
           \/ t = s /\ \E p \in Procs : SpawnedBy(t, "flow")' = SpawnedBy(t, "flow") \cup {p}
<1>1. CASE s \in Installed
  <2>0. Spawn(s, "flow")
    BY <1>1 DEF TryStart
  <2>1. PICK p \in Procs : /\ ~Spawned(p) /\ proc'[p].by = "flow" /\ proc'[p].svc = s
                           /\ \A q \in Procs \ {p} : proc'[q] = proc[q]
    BY <2>0, SpawnTakes
  <2>2. CASE t = s
    BY <2>1, <2>2 DEF SpawnedBy, Spawned
  <2>3. CASE t # s
    BY <2>1, <2>3 DEF SpawnedBy, Spawned
  <2> QED BY <2>2, <2>3
<1>2. CASE s \notin Installed
  BY <1>2 DEF TryStart, SpawnedBy
<1> QED BY <1>1, <1>2

LEMMA StopBegins ==
    ASSUME LaunchersOK, NEW tasks \in SUBSET Tasks, BeginStop(tasks)
    PROVE  LaunchersOK' /\ Origins' = Origins
<1>1. \A t \in Tasks : Signalled(t[1]) \in Procs \cup {NoProc}
  BY TaskKinds DEF Signalled, LaunchersOK
<1>2. handle' \in [Services -> Procs \cup {NoProc}]
  BY DEF BeginStop, LaunchersOK
<1>3. waiting' \in [Tasks -> Procs \cup {NoProc}]
  BY <1>1 DEF BeginStop, LaunchersOK
<1>4. proc' \in [Procs -> ProcType] /\ \A p \in Procs : proc'[p].by = proc[p].by /\ proc'[p].svc = proc[p].svc
  BY DEF BeginStop, LaunchersOK, ProcType
<1> QED BY <1>2, <1>3, <1>4 DEF LaunchersOK, Origins

LEMMA StopEnds ==
    ASSUME LaunchersOK, NEW t \in Tasks, EndStop(t), UNCHANGED handle
    PROVE  LaunchersOK' /\ Origins' = Origins
<1>1. waiting' \in [Tasks -> Procs \cup {NoProc}]
  BY DEF EndStop, LaunchersOK
<1>2. proc' \in [Procs -> ProcType] /\ \A p \in Procs : proc'[p].by = proc[p].by /\ proc'[p].svc = proc[p].svc
  <2> DEFINE ended(p) == [proc[p] EXCEPT !.killed = TRUE, !.forced = t[1] \notin Gentle]
  <2>1. \A p \in Procs : ended(p) \in ProcType /\ ended(p).by = proc[p].by /\ ended(p).svc = proc[p].svc
    BY DEF LaunchersOK, ProcType
  <2>2. proc' = [p \in Procs |-> IF p = waiting[t] /\ ~proc[p].reaped /\ ~proc[p].killed
                                 THEN ended(p) ELSE proc[p]]
    BY DEF EndStop
  <2> HIDE DEF ended
  <2> QED BY <2>1, <2>2 DEF LaunchersOK
<1> QED BY <1>1, <1>2 DEF LaunchersOK, Origins

LEMMA SameOrigins ==
    ASSUME Origins' = Origins, NEW s
    PROVE  SpawnedBy(s, "flow")' = SpawnedBy(s, "flow")
<1>1. \A p \in Procs : proc'[p].by = proc[p].by /\ proc'[p].svc = proc[p].svc
  BY DEF Origins
<1> QED BY <1>1 DEF SpawnedBy

\* The budget's sets are finite.
LEMMA Counted ==
    ASSUME NEW s
    PROVE  /\ IsFiniteSet(SpawnedBy(s, "flow")) /\ Cardinality(SpawnedBy(s, "flow")) \in Nat
           /\ IsFiniteSet(Restarting(s)) /\ Cardinality(Restarting(s)) \in Nat
<1>1. IsFiniteSet(SpawnedBy(s, "flow"))
  BY SupervisorAssumption, FS_Subset DEF SpawnedBy
<1>2. IsFiniteSet(Restarting(s))
  BY SupervisorAssumption, FS_Subset DEF Restarting
<1> QED BY <1>1, <1>2, FS_CardinalityType

LEMMA TypeSplit ==
    TypeOK <=>
      /\ managed \in [Services -> ManagedType] /\ globalStopped \in BOOLEAN
      /\ flow \in [Supervised -> [Flows -> FlowSteps]]
      /\ boot \in [pc : {"cleanup", "next", "await", "backend", "ready"}, at : 1 .. Len(Order) + 1]
      /\ quit \in {"no", "stopping", "exited"}
      /\ restart \in [Events -> {"idle", "stop", "start", "done"}]
      /\ LaunchersOK
BY DEF TypeOK, ManagedType, LaunchersOK, ProcType

LEMMA TypeSplitNext ==
    TypeOK' <=>
      /\ managed' \in [Services -> ManagedType] /\ globalStopped' \in BOOLEAN
      /\ flow' \in [Supervised -> [Flows -> FlowSteps]]
      /\ boot' \in [pc : {"cleanup", "next", "await", "backend", "ready"}, at : 1 .. Len(Order) + 1]
      /\ quit' \in {"no", "stopping", "exited"}
      /\ restart' \in [Events -> {"idle", "stop", "start", "done"}]
      /\ LaunchersOK'
BY DEF TypeOK, ManagedType, LaunchersOK, ProcType

(***************************************************************************)
(* Each step keeps the invariant.  A step that changes neither the flows,  *)
(* the counts nor the origins of the children keeps RestartsCounted.       *)
(***************************************************************************)
LEMMA NothingCounted ==
    ASSUME RestartsCounted, UNCHANGED flow,
           \A s \in Supervised : managed'[s].restarts = managed[s].restarts,
           \A s \in Supervised : SpawnedBy(s, "flow")' = SpawnedBy(s, "flow")
    PROVE  RestartsCounted'
<1>1. \A s \in Supervised : Restarting(s)' = Restarting(s)
  BY DEF Restarting
<1> QED BY <1>1 DEF RestartsCounted

LEMMA InvInit == Init => SupervisorInv
<1> SUFFICES ASSUME Init PROVE SupervisorInv
  OBVIOUS
<1>1. TypeOK
  <2>1. boot \in [pc : {"cleanup", "next", "await", "backend", "ready"}, at : 1 .. Len(Order) + 1]
    BY ServiceKinds DEF Init
  <2>2. managed \in [Services -> ManagedType]
    BY SupervisorAssumption DEF Init, ManagedType
  <2>3. restart \in [Events -> {"idle", "stop", "start", "done"}]
    BY SupervisorAssumption DEF Init
  <2>4. LaunchersOK
    BY ServiceKinds DEF Init, LaunchersOK, ProcType
  <2> QED BY <2>1, <2>2, <2>3, <2>4, TypeSplit DEF Init, FlowSteps
<1>2. ASSUME NEW s \in Supervised
      PROVE  Cardinality(SpawnedBy(s, "flow")) + Cardinality(Restarting(s)) <= managed[s].restarts
  <2>1. SpawnedBy(s, "flow") = {} /\ Restarting(s) = {}
    BY DEF Init, SpawnedBy, Restarting
  <2>2. managed[s].restarts = 0
    BY ServiceKinds DEF Init
  <2> QED BY <2>1, <2>2, FS_EmptySet
<1> QED BY <1>1, <1>2 DEF SupervisorInv, RestartsCounted, Init, AwaitsRegistered

\* Marks of one service change, not its count: the types and the counts stay.
LEMMA MarksSet ==
    ASSUME managed \in [Services -> ManagedType], NEW s \in Services, NEW r \in ManagedType,
           r.restarts = managed[s].restarts, managed' = [managed EXCEPT ![s] = r]
    PROVE  /\ managed' \in [Services -> ManagedType]
           /\ \A t \in Supervised : managed'[t].restarts = managed[t].restarts
BY ServiceKinds

LEMMA BootStep == ASSUME SupervisorInv, Boot PROVE SupervisorInv'
<1> USE DEF SupervisorInv
<1>0. /\ managed \in [Services -> ManagedType] /\ LaunchersOK
      /\ boot \in [pc : {"cleanup", "next", "await", "backend", "ready"}, at : 1 .. Len(Order) + 1]
  BY TypeSplit
<1>1. CASE CleanupZombies
  <2>1. TypeOK' /\ AwaitsRegistered'
    BY <1>0, <1>1, TypeSplit, TypeSplitNext DEF CleanupZombies, LaunchersOK, AwaitsRegistered
  <2>2. RestartsCounted'
    BY <1>1, NothingCounted DEF CleanupZombies, SpawnedBy
  <2> QED BY <2>1, <2>2
<1>2. CASE StartNext
  <2> DEFINE s == Order[boot.at]
  <2>1. s \in Supervised /\ s \in Services
    BY <1>0, <1>2, ServiceKinds DEF StartNext
  <2>2. TryStart(s, "boot") /\ UNCHANGED <<globalStopped, flow, quit, restart, waiting>>
    BY <1>2 DEF StartNext
  <2>3. proc' \in [Procs -> ProcType] /\ handle' \in [Services -> Procs \cup {NoProc}]
    BY <1>0, <2>1, <2>2, TryStartType
  <2>4. \A t \in Supervised : SpawnedBy(t, "flow")' = SpawnedBy(t, "flow")
    BY <1>0, <2>1, <2>2, OthersSpawn, ServiceKinds
  <2>5. /\ managed' \in [Services -> ManagedType]
        /\ \A t \in Supervised : managed'[t].restarts = managed[t].restarts
    <3>1. managed[s] \in ManagedType
      BY <1>0, <2>1
    <3> DEFINE up == [managed[s] EXCEPT !.stopped = FALSE, !.running = TRUE, !.timer = TRUE]
               begun == [managed[s] EXCEPT !.stopped = FALSE]
    <3>2. /\ up \in ManagedType /\ up.restarts = managed[s].restarts
          /\ begun \in ManagedType /\ begun.restarts = managed[s].restarts
      BY <3>1 DEF ManagedType
    <3>3. managed' = [managed EXCEPT ![s] = up] \/ managed' = [managed EXCEPT ![s] = begun]
      BY <1>0, <1>2, <2>1 DEF StartNext, Started, ManagedType
    <3> HIDE DEF up, begun, s
    <3> QED BY <1>0, <2>1, <3>2, <3>3, MarksSet
  <2>6. /\ boot' \in [pc : {"cleanup", "next", "await", "backend", "ready"}, at : 1 .. Len(Order) + 1]
        /\ boot'.pc = "await" => boot'.at <= Len(Order)
    BY <1>0, <1>2, ServiceKinds DEF StartNext
  <2>7. TypeOK'
    BY <1>0, <2>2, <2>3, <2>5, <2>6, TypeSplit, TypeSplitNext DEF LaunchersOK
  <2>8. RestartsCounted'
    BY <2>2, <2>4, <2>5, NothingCounted
  <2> QED BY <2>6, <2>7, <2>8 DEF AwaitsRegistered
<1>3. CASE StartedNext
  <2>1. boot.at \in 1 .. Len(Order)
    BY <1>0, <1>3, ServiceKinds DEF StartedNext, AwaitsRegistered
  <2>2. /\ managed' \in [Services -> ManagedType]
        /\ \A t \in Supervised : managed'[t].restarts = managed[t].restarts
    <3> DEFINE s == Order[boot.at]
               up == [managed[s] EXCEPT !.running = TRUE, !.timer = TRUE]
    <3>1. s \in Services /\ managed[s] \in ManagedType
      BY <1>0, <2>1, ServiceKinds
    <3>2. up \in ManagedType /\ up.restarts = managed[s].restarts
      BY <3>1 DEF ManagedType
    <3>3. managed' = [managed EXCEPT ![s] = up]
      BY <1>0, <1>3, <3>1 DEF StartedNext, ManagedType
    <3> HIDE DEF up, s
    <3> QED BY <1>0, <3>1, <3>2, <3>3, MarksSet
  <2>3. boot' \in [pc : {"cleanup", "next", "await", "backend", "ready"}, at : 1 .. Len(Order) + 1]
    BY <1>3, <2>1, ServiceKinds DEF StartedNext
  <2>4. TypeOK' /\ AwaitsRegistered'
    BY <1>0, <1>3, <2>2, <2>3, TypeSplit, TypeSplitNext DEF StartedNext, LaunchersOK, AwaitsRegistered
  <2>5. RestartsCounted'
    BY <1>3, <2>2, NothingCounted DEF StartedNext, SpawnedBy
  <2> QED BY <2>4, <2>5
<1>4. CASE RegisterBackend
  <2>1. /\ managed' \in [Services -> ManagedType]
        /\ \A t \in Supervised : managed'[t].restarts = managed[t].restarts
    BY <1>0, <1>4, ServiceKinds DEF RegisterBackend, ManagedType
  <2>2. boot' \in [pc : {"cleanup", "next", "await", "backend", "ready"}, at : 1 .. Len(Order) + 1]
    BY <1>0, <1>4 DEF RegisterBackend
  <2>3. TypeOK' /\ AwaitsRegistered'
    BY <1>0, <1>4, <2>1, <2>2, TypeSplit, TypeSplitNext DEF RegisterBackend, LaunchersOK, AwaitsRegistered
  <2>4. RestartsCounted'
    BY <1>4, <2>1, NothingCounted DEF RegisterBackend, SpawnedBy
  <2> QED BY <2>3, <2>4
<1>5. CASE StartBackend
  <2>1. UNCHANGED <<managed, globalStopped, flow, quit, restart, waiting>> /\ boot' = [boot EXCEPT !.pc = "ready"]
    BY <1>5 DEF StartBackend
  <2>2. /\ proc' \in [Procs -> ProcType] /\ handle' \in [Services -> Procs \cup {NoProc}]
        /\ \A t \in Supervised : SpawnedBy(t, "flow")' = SpawnedBy(t, "flow")
    <3>1. CASE Spawn(Backend, "boot")
      <4>1. PICK p \in Procs : /\ ~Spawned(p) /\ proc'[p].by = "boot"
                               /\ \A q \in Procs \ {p} : proc'[q] = proc[q]
                               /\ proc' \in [Procs -> ProcType] /\ handle' \in [Services -> Procs \cup {NoProc}]
        BY <1>0, <3>1, SpawnTakes, ServiceKinds
      <4> QED BY <4>1 DEF SpawnedBy, Spawned
    <3>2. CASE UNCHANGED <<proc, handle>>
      BY <1>0, <3>2 DEF LaunchersOK, SpawnedBy
    <3> QED BY <1>5, <3>1, <3>2 DEF StartBackend
  <2>3. boot' \in [pc : {"cleanup", "next", "await", "backend", "ready"}, at : 1 .. Len(Order) + 1] /\ boot'.pc = "ready"
    BY <1>0, <2>1
  <2>4. TypeOK' /\ AwaitsRegistered'
    BY <1>0, <2>1, <2>2, <2>3, TypeSplit, TypeSplitNext DEF LaunchersOK, AwaitsRegistered
  <2>5. RestartsCounted'
    BY <2>1, <2>2, NothingCounted
  <2> QED BY <2>4, <2>5
<1> QED BY <1>1, <1>2, <1>3, <1>4, <1>5 DEF Boot

LEMMA OneMore ==
    ASSUME NEW S, IsFiniteSet(S), NEW x
    PROVE  Cardinality(S \cup {x}) <= Cardinality(S) + 1 /\ Cardinality(S \cup {x}) \in Nat
<1>1. Cardinality(S) \in Nat /\ IsFiniteSet(S \cup {x})
  BY FS_CardinalityType, FS_AddElement
<1>2. CASE x \in S
  <2>1. S \cup {x} = S
    BY <1>2
  <2> QED BY <1>1, <2>1
<1>3. CASE x \notin S
  <2>1. Cardinality(S \cup {x}) = Cardinality(S) + 1
    BY <1>3, FS_AddElement
  <2> QED BY <1>1, <2>1
<1> QED BY <1>2, <1>3

\* A health tick goes on to a step: it counts as a restart in the two steps of one.
LEMMA FlowMoves ==
    ASSUME flow \in [Supervised -> [Flows -> FlowSteps]],
           NEW s \in Supervised, NEW f \in Flows, NEW step \in FlowSteps, To(s, f, step)
    PROVE  /\ flow' \in [Supervised -> [Flows -> FlowSteps]]
           /\ \A t \in Supervised \ {s} : Restarting(t)' = Restarting(t)
           /\ step \in {"stop", "sleep"} => Restarting(s)' = Restarting(s) \cup {f}
           /\ step \notin {"stop", "sleep"} => Restarting(s)' = Restarting(s) \ {f}
<1>1. /\ flow' \in [Supervised -> [Flows -> FlowSteps]]
      /\ \A t \in Supervised \ {s} : flow'[t] = flow[t]
      /\ flow'[s][f] = step /\ \A g \in Flows \ {f} : flow'[s][g] = flow[s][g]
  BY DEF To
<1> QED BY <1>1 DEF Restarting

\* One tick at most joins those that restart s, and the count pays for it.
LEMMA TicksCounted ==
    ASSUME RestartsCounted, managed \in [Services -> ManagedType],
           \A t \in Supervised : SpawnedBy(t, "flow")' = SpawnedBy(t, "flow"),
           NEW s \in Supervised,
           \A t \in Supervised \ {s} : /\ Restarting(t)' = Restarting(t)
                                        /\ managed'[t].restarts = managed[t].restarts,
           \/ /\ Restarting(s)' \subseteq Restarting(s)
              /\ managed'[s].restarts = managed[s].restarts
           \/ /\ \E f \in Flows : Restarting(s)' = Restarting(s) \cup {f}
              /\ managed'[s].restarts = managed[s].restarts + 1
    PROVE  RestartsCounted'
<1>1. \A t \in Supervised \ {s} :
        Cardinality(SpawnedBy(t, "flow")') + Cardinality(Restarting(t)') <= managed'[t].restarts
  BY DEF RestartsCounted
<1>2. /\ Cardinality(SpawnedBy(s, "flow")') = Cardinality(SpawnedBy(s, "flow"))
      /\ Cardinality(SpawnedBy(s, "flow")) \in Nat /\ Cardinality(Restarting(s)) \in Nat
      /\ IsFiniteSet(Restarting(s)) /\ managed[s].restarts \in Nat
      /\ Cardinality(SpawnedBy(s, "flow")) + Cardinality(Restarting(s)) <= managed[s].restarts
  BY Counted, ServiceKinds, SupervisorAssumption DEF RestartsCounted, ManagedType
<1>3. CASE /\ Restarting(s)' \subseteq Restarting(s)
           /\ managed'[s].restarts = managed[s].restarts
  <2>1. Cardinality(Restarting(s)') <= Cardinality(Restarting(s)) /\ Cardinality(Restarting(s)') \in Nat
    BY <1>2, <1>3, FS_Subset, FS_CardinalityType
  <2> QED BY <1>1, <1>2, <1>3, <2>1 DEF RestartsCounted
<1>4. ASSUME NEW f \in Flows, Restarting(s)' = Restarting(s) \cup {f},
             managed'[s].restarts = managed[s].restarts + 1
      PROVE  RestartsCounted'
  <2>1. /\ Cardinality(Restarting(s)') <= Cardinality(Restarting(s)) + 1
        /\ Cardinality(Restarting(s)') \in Nat
    BY <1>2, <1>4, OneMore
  <2> QED BY <1>1, <1>2, <1>4, <2>1 DEF RestartsCounted
<1> QED BY <1>3, <1>4

LEMMA CheckStep ==
    ASSUME SupervisorInv, NEW s \in Supervised, NEW f \in Flows, CheckUnhealthy(s, f)
    PROVE  SupervisorInv'
<1> USE DEF SupervisorInv
<1>0. /\ managed \in [Services -> ManagedType] /\ LaunchersOK
      /\ flow \in [Supervised -> [Flows -> FlowSteps]]
      /\ s \in Services /\ managed[s] \in ManagedType /\ MaxRestarts \in Nat
      /\ UNCHANGED <<globalStopped, boot, quit, restart>>
  BY TypeSplit, ServiceKinds, SupervisorAssumption DEF CheckUnhealthy
<1>1. CASE To(s, f, "idle") /\ UNCHANGED <<managed, handle, waiting, proc>>
  <2>1. /\ flow' \in [Supervised -> [Flows -> FlowSteps]]
        /\ \A t \in Supervised \ {s} : Restarting(t)' = Restarting(t)
        /\ Restarting(s)' \subseteq Restarting(s)
    BY <1>0, <1>1, FlowMoves DEF FlowSteps
  <2>2. TypeOK' /\ AwaitsRegistered'
    BY <1>0, <1>1, <2>1, TypeSplit, TypeSplitNext DEF LaunchersOK, AwaitsRegistered
  <2>3. RestartsCounted'
    BY <1>0, <1>1, <2>1, TicksCounted DEF SpawnedBy
  <2> QED BY <2>2, <2>3
<1>2. CASE /\ managed' = [managed EXCEPT ![s].stopped = TRUE, ![s].running = FALSE]
           /\ To(s, f, "idle")
           /\ UNCHANGED <<handle, waiting, proc>>
  <2>1. /\ flow' \in [Supervised -> [Flows -> FlowSteps]]
        /\ \A t \in Supervised \ {s} : Restarting(t)' = Restarting(t)
        /\ Restarting(s)' \subseteq Restarting(s)
    BY <1>0, <1>2, FlowMoves DEF FlowSteps
  <2>2. /\ managed' \in [Services -> ManagedType]
        /\ \A t \in Supervised : managed'[t].restarts = managed[t].restarts
    <3> DEFINE given == [managed[s] EXCEPT !.stopped = TRUE, !.running = FALSE]
    <3>1. given \in ManagedType /\ given.restarts = managed[s].restarts
      BY <1>0 DEF ManagedType
    <3>2. managed' = [managed EXCEPT ![s] = given]
      BY <1>0, <1>2 DEF ManagedType
    <3> HIDE DEF given
    <3> QED BY <1>0, <3>1, <3>2, MarksSet
  <2>3. TypeOK' /\ AwaitsRegistered'
    BY <1>0, <1>2, <2>1, <2>2, TypeSplit, TypeSplitNext DEF LaunchersOK, AwaitsRegistered
  <2>4. RestartsCounted'
    BY <1>0, <1>2, <2>1, <2>2, TicksCounted DEF SpawnedBy
  <2> QED BY <2>3, <2>4
<1>3. CASE /\ ~Exhausted(s)
           /\ managed' = [managed EXCEPT ![s].restarts = @ + 1, ![s].running = FALSE]
           /\ BeginStop({HealthTask(s, f)})
           /\ To(s, f, "stop")
  <2>1. /\ flow' \in [Supervised -> [Flows -> FlowSteps]]
        /\ \A t \in Supervised \ {s} : Restarting(t)' = Restarting(t)
        /\ Restarting(s)' = Restarting(s) \cup {f}
    BY <1>0, <1>3, FlowMoves DEF FlowSteps
  <2>2. /\ managed' \in [Services -> ManagedType]
        /\ \A t \in Supervised \ {s} : managed'[t].restarts = managed[t].restarts
        /\ managed'[s].restarts = managed[s].restarts + 1
    <3> DEFINE counted == [managed[s] EXCEPT !.restarts = managed[s].restarts + 1, !.running = FALSE]
    <3>1. counted \in ManagedType /\ counted.restarts = managed[s].restarts + 1
      <4>1. managed[s].restarts + 1 \in 0 .. MaxRestarts
        BY <1>0, <1>3 DEF ManagedType, Exhausted
      <4> QED BY <1>0, <4>1 DEF ManagedType
    <3>2. managed' = [managed EXCEPT ![s] = counted]
      BY <1>0, <1>3 DEF ManagedType
    <3> HIDE DEF counted
    <3> QED BY <1>0, <3>1, <3>2, ServiceKinds
  <2>3. LaunchersOK' /\ Origins' = Origins
    BY <1>0, <1>3, StopBegins, TaskKinds
  <2>4. TypeOK' /\ AwaitsRegistered'
    BY <1>0, <2>1, <2>2, <2>3, TypeSplit, TypeSplitNext DEF AwaitsRegistered
  <2>5. RestartsCounted'
    BY <1>0, <2>1, <2>2, <2>3, SameOrigins, TicksCounted
  <2> QED BY <2>4, <2>5
<1> QED BY <1>1, <1>2, <1>3 DEF CheckUnhealthy

\* The tick's start is the restart it counted: the one leaves the sum as the
\* other enters it.
LEMMA WakeStep ==
    ASSUME SupervisorInv, NEW s \in Supervised, NEW f \in Flows, Wake(s, f)
    PROVE  SupervisorInv'
<1> USE DEF SupervisorInv
<1>0. /\ managed \in [Services -> ManagedType] /\ LaunchersOK
      /\ flow \in [Supervised -> [Flows -> FlowSteps]]
      /\ s \in Services /\ managed[s] \in ManagedType
      /\ flow[s][f] = "sleep"
      /\ UNCHANGED <<globalStopped, boot, quit, restart, waiting>>
  BY TypeSplit, ServiceKinds DEF Wake
<1>1. \E step \in {"idle", "start"} : To(s, f, step)
  BY DEF Wake
<1>2. /\ flow' \in [Supervised -> [Flows -> FlowSteps]]
      /\ \A t \in Supervised \ {s} : Restarting(t)' = Restarting(t)
      /\ Restarting(s)' = Restarting(s) \ {f}
  BY <1>0, <1>1, FlowMoves DEF FlowSteps
<1>3. /\ managed' \in [Services -> ManagedType]
      /\ \A t \in Supervised : managed'[t].restarts = managed[t].restarts
  <2> DEFINE up == [managed[s] EXCEPT !.running = TRUE, !.timer = TRUE]
  <2>1. up \in ManagedType /\ up.restarts = managed[s].restarts
    BY <1>0 DEF ManagedType
  <2>2. managed' = [managed EXCEPT ![s] = up] \/ managed' = managed
    BY <1>0 DEF Wake, ManagedType
  <2> HIDE DEF up
  <2> QED BY <1>0, <2>1, <2>2, MarksSet
<1>4. /\ proc' \in [Procs -> ProcType] /\ handle' \in [Services -> Procs \cup {NoProc}]
      /\ \A t \in Supervised :
           \/ SpawnedBy(t, "flow")' = SpawnedBy(t, "flow")
           \/ t = s /\ \E p \in Procs : SpawnedBy(t, "flow")' = SpawnedBy(t, "flow") \cup {p}
  <2>1. CASE TryStart(s, "flow")
    BY <1>0, <2>1, TryStartType, TickSpawns, ServiceKinds
  <2>2. CASE UNCHANGED <<proc, handle>>
    BY <1>0, <2>2 DEF LaunchersOK, SpawnedBy
  <2> QED BY <2>1, <2>2 DEF Wake
<1>5. TypeOK' /\ AwaitsRegistered'
  BY <1>0, <1>2, <1>3, <1>4, TypeSplit, TypeSplitNext DEF LaunchersOK, AwaitsRegistered
<1>6. ASSUME NEW t \in Supervised
      PROVE  Cardinality(SpawnedBy(t, "flow")') + Cardinality(Restarting(t)') <= managed'[t].restarts
  <2>1. /\ Cardinality(SpawnedBy(t, "flow")) \in Nat /\ Cardinality(Restarting(t)) \in Nat
        /\ IsFiniteSet(SpawnedBy(t, "flow")) /\ IsFiniteSet(Restarting(t))
        /\ managed[t].restarts \in Nat /\ managed'[t].restarts = managed[t].restarts
        /\ Cardinality(SpawnedBy(t, "flow")) + Cardinality(Restarting(t)) <= managed[t].restarts
    BY <1>0, <1>3, Counted, ServiceKinds, SupervisorAssumption DEF RestartsCounted, ManagedType
  <2>2. CASE t # s
    BY <1>2, <1>4, <2>1, <2>2
  <2>3. CASE t = s
    <3>1. f \in Restarting(s)
      BY <1>0 DEF Restarting
    <3>2. Cardinality(Restarting(s)') = Cardinality(Restarting(s)) - 1
      BY <1>2, <2>1, <2>3, <3>1, FS_RemoveElement
    <3>3. /\ Cardinality(SpawnedBy(s, "flow")') <= Cardinality(SpawnedBy(s, "flow")) + 1
          /\ Cardinality(SpawnedBy(s, "flow")') \in Nat
      BY <1>4, <2>1, <2>3, OneMore
    <3> QED BY <2>1, <2>3, <3>2, <3>3
  <2> QED BY <2>2, <2>3
<1> QED BY <1>5, <1>6 DEF RestartsCounted


LEMMA TickStep ==
    ASSUME SupervisorInv, NEW s \in Supervised, NEW f \in Flows,
           Tick(s, f) \/ CheckHealthy(s, f) \/ StopReturned(s, f) \/ Restarted(s, f)
    PROVE  SupervisorInv'
<1> USE DEF SupervisorInv
<1>0. /\ managed \in [Services -> ManagedType] /\ LaunchersOK
      /\ flow \in [Supervised -> [Flows -> FlowSteps]]
      /\ s \in Services /\ managed[s] \in ManagedType
      /\ UNCHANGED <<globalStopped, boot, quit, restart>>
  BY TypeSplit, ServiceKinds DEF Tick, CheckHealthy, StopReturned, Restarted
<1>1. /\ flow' \in [Supervised -> [Flows -> FlowSteps]]
      /\ \A t \in Supervised \ {s} : Restarting(t)' = Restarting(t)
      /\ Restarting(s)' \subseteq Restarting(s)
  <2>1. CASE \E step \in {"check", "idle"} : To(s, f, step)
    BY <1>0, <2>1, FlowMoves DEF FlowSteps
  <2>2. CASE flow[s][f] = "stop" /\ To(s, f, "sleep")
    <3>1. f \in Restarting(s)
      BY <2>2 DEF Restarting
    <3> QED BY <1>0, <2>2, <3>1, FlowMoves DEF FlowSteps
  <2> QED BY <2>1, <2>2 DEF Tick, CheckHealthy, StopReturned, Restarted
<1>2. /\ managed' \in [Services -> ManagedType]
      /\ \A t \in Supervised : managed'[t].restarts = managed[t].restarts
  <2> DEFINE up == [managed[s] EXCEPT !.running = TRUE, !.timer = TRUE]
  <2>1. up \in ManagedType /\ up.restarts = managed[s].restarts
    BY <1>0 DEF ManagedType
  <2>2. managed' = [managed EXCEPT ![s] = up] \/ managed' = managed
    BY <1>0 DEF Tick, CheckHealthy, StopReturned, Restarted, ManagedType
  <2> HIDE DEF up
  <2> QED BY <1>0, <2>1, <2>2, MarksSet
<1>3. LaunchersOK' /\ \A t \in Supervised : SpawnedBy(t, "flow")' = SpawnedBy(t, "flow")
  <2>1. CASE UNCHANGED <<handle, waiting, proc>>
    BY <1>0, <2>1 DEF LaunchersOK, SpawnedBy
  <2>2. CASE EndStop(HealthTask(s, f)) /\ UNCHANGED handle
    <3>1. LaunchersOK' /\ Origins' = Origins
      BY <1>0, <2>2, StopEnds, TaskKinds
    <3> QED BY <3>1, SameOrigins
  <2> QED BY <2>1, <2>2 DEF Tick, CheckHealthy, StopReturned, Restarted
<1>4. TypeOK' /\ AwaitsRegistered'
  BY <1>0, <1>1, <1>2, <1>3, TypeSplit, TypeSplitNext DEF AwaitsRegistered
<1>5. RestartsCounted'
  BY <1>0, <1>1, <1>2, <1>3, TicksCounted
<1> QED BY <1>4, <1>5

LEMMA HealthStep == ASSUME SupervisorInv, NEW s \in Supervised, Health(s) PROVE SupervisorInv'
<1>1. CASE TickStopped(s)
  <2> USE DEF SupervisorInv
  <2>0. /\ managed \in [Services -> ManagedType] /\ LaunchersOK
        /\ s \in Services /\ managed[s] \in ManagedType
    BY TypeSplit, ServiceKinds
  <2> DEFINE off == [managed[s] EXCEPT !.timer = FALSE]
  <2>1. off \in ManagedType /\ off.restarts = managed[s].restarts
    BY <2>0 DEF ManagedType
  <2>2. managed' = [managed EXCEPT ![s] = off]
    BY <1>1, <2>0 DEF TickStopped, ManagedType
  <2>3. /\ managed' \in [Services -> ManagedType]
        /\ \A t \in Supervised : managed'[t].restarts = managed[t].restarts
    <3> HIDE DEF off
    <3> QED BY <2>0, <2>1, <2>2, MarksSet
  <2>4. TypeOK' /\ AwaitsRegistered'
    BY <1>1, <2>0, <2>3, TypeSplit, TypeSplitNext DEF TickStopped, LaunchersOK, AwaitsRegistered
  <2>5. RestartsCounted'
    BY <1>1, <2>3, NothingCounted DEF TickStopped, SpawnedBy
  <2> QED BY <2>4, <2>5
<1>2. ASSUME NEW f \in Flows, \/ Tick(s, f) \/ CheckHealthy(s, f) \/ CheckUnhealthy(s, f)
                               \/ StopReturned(s, f) \/ Wake(s, f) \/ Restarted(s, f)
      PROVE  SupervisorInv'
  BY <1>2, TickStep, CheckStep, WakeStep
<1> QED BY <1>1, <1>2 DEF Health

LEMMA SettingsStep == ASSUME SupervisorInv, Settings PROVE SupervisorInv'
<1> USE DEF SupervisorInv
<1>0. /\ LaunchersOK
      /\ restart \in [Events -> {"idle", "stop", "start", "done"}]
  BY TypeSplit
<1>1. PICK e \in Events : SettingsEvent(e) \/ SettingsSpawn(e) \/ SettingsDone(e)
  BY DEF Settings
<1>2. /\ UNCHANGED supervisorVars
      /\ restart' \in [Events -> {"idle", "stop", "start", "done"}]
  BY <1>0, <1>1 DEF SettingsEvent, SettingsSpawn, SettingsDone
<1>3. LaunchersOK' /\ \A t \in Supervised : SpawnedBy(t, "flow")' = SpawnedBy(t, "flow")
  <2>1. CASE SettingsEvent(e)
    <3>1. LaunchersOK' /\ Origins' = Origins
      BY <1>0, <2>1, StopBegins, TaskKinds DEF SettingsEvent
    <3> QED BY <3>1, SameOrigins
  <2>2. CASE SettingsSpawn(e)
    <3>1. proc' \in [Procs -> ProcType] /\ handle' \in [Services -> Procs \cup {NoProc}]
      BY <1>0, <2>2, TryStartType, ServiceKinds DEF SettingsSpawn
    <3>2. waiting' \in [Tasks -> Procs \cup {NoProc}]
      BY <1>0, <2>2 DEF SettingsSpawn, LaunchersOK
    <3>3. \A t \in Supervised : SpawnedBy(t, "flow")' = SpawnedBy(t, "flow")
      BY <1>0, <2>2, OthersSpawn, ServiceKinds DEF SettingsSpawn
    <3> QED BY <3>1, <3>2, <3>3 DEF LaunchersOK
  <2>3. CASE SettingsDone(e)
    BY <1>0, <2>3 DEF SettingsDone, LaunchersOK, SpawnedBy
  <2> QED BY <1>1, <2>1, <2>2, <2>3
<1>4. TypeOK' /\ AwaitsRegistered'
  BY <1>0, <1>2, <1>3, TypeSplit, TypeSplitNext DEF supervisorVars, AwaitsRegistered
<1>5. RestartsCounted'
  BY <1>2, <1>3, NothingCounted DEF supervisorVars
<1> QED BY <1>4, <1>5

LEMMA QuitStep == ASSUME SupervisorInv, Quit PROVE SupervisorInv'
<1> USE DEF SupervisorInv
<1>0. managed \in [Services -> ManagedType] /\ LaunchersOK
  BY TypeSplit
<1>1. CASE StopAll
  <2>1. LaunchersOK' /\ Origins' = Origins
    <3>1. {QuitTask(s) : s \in Registered} \in SUBSET Tasks
      BY TaskKinds DEF Registered
    <3> QED BY <1>0, <1>1, <3>1, StopBegins DEF StopAll
  <2>2. /\ managed' \in [Services -> ManagedType]
        /\ \A t \in Supervised : managed'[t].restarts = managed[t].restarts
    BY <1>0, <1>1, ServiceKinds DEF StopAll, ManagedType
  <2>3. TypeOK' /\ AwaitsRegistered'
    BY <1>1, <2>1, <2>2, TypeSplit, TypeSplitNext DEF StopAll, AwaitsRegistered
  <2>4. RestartsCounted'
    BY <1>1, <2>1, <2>2, SameOrigins, NothingCounted DEF StopAll
  <2> QED BY <2>3, <2>4
<1>2. CASE Exit
  <2>1. TypeOK' /\ AwaitsRegistered'
    BY <1>0, <1>2, TypeSplit, TypeSplitNext DEF Exit, LaunchersOK, AwaitsRegistered
  <2>2. RestartsCounted'
    BY <1>2, NothingCounted DEF Exit, SpawnedBy
  <2> QED BY <2>1, <2>2
<1>3. ASSUME NEW s \in Services, StoppedOne(s)
      PROVE  SupervisorInv'
  <2>1. LaunchersOK' /\ Origins' = Origins
    BY <1>0, <1>3, StopEnds, TaskKinds DEF StoppedOne
  <2>2. TypeOK' /\ AwaitsRegistered'
    BY <1>3, <2>1, TypeSplit, TypeSplitNext DEF StoppedOne, supervisorVars, AwaitsRegistered
  <2>3. RestartsCounted'
    BY <1>3, <2>1, SameOrigins, NothingCounted DEF StoppedOne, supervisorVars
  <2> QED BY <2>2, <2>3
<1> QED BY <1>1, <1>2, <1>3 DEF Quit

LEMMA ChildStep ==
    ASSUME SupervisorInv, NEW p \in Procs, Die(p) \/ ExitEvent(p)
    PROVE  SupervisorInv'
<1> USE DEF SupervisorInv
<1>0. LaunchersOK /\ UNCHANGED <<supervisorVars, restart, waiting>> /\ proc[p] \in ProcType
  BY TypeSplit DEF Die, ExitEvent, LaunchersOK
<1>1. /\ proc' \in [Procs -> ProcType]
      /\ \A q \in Procs : proc'[q].by = proc[q].by /\ proc'[q].svc = proc[q].svc
  <2> DEFINE gone == [proc[p] EXCEPT !.alive = FALSE]
             seen == [proc[p] EXCEPT !.reaped = TRUE]
  <2>1. /\ gone \in ProcType /\ gone.by = proc[p].by /\ gone.svc = proc[p].svc
        /\ seen \in ProcType /\ seen.by = proc[p].by /\ seen.svc = proc[p].svc
    BY <1>0 DEF ProcType
  <2>2. proc' = [proc EXCEPT ![p] = gone] \/ proc' = [proc EXCEPT ![p] = seen]
    BY <1>0 DEF Die, ExitEvent, LaunchersOK, ProcType
  <2> HIDE DEF gone, seen
  <2> QED BY <1>0, <2>1, <2>2 DEF LaunchersOK
<1>2. handle' \in [Services -> Procs \cup {NoProc}]
  BY <1>0 DEF Die, ExitEvent, LaunchersOK
<1>3. TypeOK' /\ AwaitsRegistered'
  BY <1>0, <1>1, <1>2, TypeSplit, TypeSplitNext DEF supervisorVars, LaunchersOK, AwaitsRegistered
<1>4. RestartsCounted'
  <2>1. \A t \in Supervised : SpawnedBy(t, "flow")' = SpawnedBy(t, "flow")
    BY <1>1 DEF SpawnedBy
  <2> QED BY <1>0, <2>1, NothingCounted DEF supervisorVars
<1> QED BY <1>3, <1>4

LEMMA StutterStep == ASSUME SupervisorInv, UNCHANGED vars PROVE SupervisorInv'
<1>1. TypeOK'
  BY TypeSplit, TypeSplitNext DEF SupervisorInv, vars, supervisorVars, LaunchersOK
<1>2. RestartsCounted'
  BY NothingCounted DEF SupervisorInv, vars, supervisorVars, SpawnedBy
<1> QED BY <1>1, <1>2 DEF SupervisorInv, AwaitsRegistered, vars, supervisorVars

LEMMA SupervisorInvariant == Spec => []SupervisorInv
<1>1. SupervisorInv /\ [Next]_vars => SupervisorInv'
  BY BootStep, HealthStep, SettingsStep, QuitStep, ChildStep, StutterStep DEF Next
<1> QED BY InvInit, <1>1, PTL DEF Spec

\* Types: what the supervisor records of each service stays within its bounds
\* (the restart counter above all) and every handle and every awaited stop
\* refers to a child or to none.
THEOREM SupervisorTypeCorrect == Spec => []TypeOK
<1>1. SupervisorInv => TypeOK
  BY DEF SupervisorInv
<1> QED BY SupervisorInvariant, <1>1, PTL

\* However many health ticks of a service overlap, the children they spawned are
\* no more than the restarts they counted, and those no more than maxRestarts.
THEOREM RestartsBounded == Spec => []RestartBudget
<1>1. SupervisorInv => RestartBudget
  <2> SUFFICES ASSUME SupervisorInv, NEW s \in Supervised
               PROVE  /\ Cardinality(SpawnedBy(s, "flow")) <= managed[s].restarts
                      /\ managed[s].restarts <= MaxRestarts
    BY DEF RestartBudget
  <2>1. managed[s] \in ManagedType /\ MaxRestarts \in Nat
    BY TypeSplit, ServiceKinds, SupervisorAssumption DEF SupervisorInv
  <2>2. Cardinality(SpawnedBy(s, "flow")) \in Nat /\ Cardinality(Restarting(s)) \in Nat
    BY Counted
  <2>3. Cardinality(SpawnedBy(s, "flow")) + Cardinality(Restarting(s)) <= managed[s].restarts
    BY DEF SupervisorInv, RestartsCounted
  <2> QED BY <2>1, <2>2, <2>3 DEF ManagedType
<1> QED BY SupervisorInvariant, <1>1, PTL

(****************************************************************************)
(* The children, for any services, health ticks, settings events, child     *)
(* processes and bounds.  First what holds of every service, whether its    *)
(* stops wait or not: a child leaves its handle only when it is told to     *)
(* end, or when its service is crowded.                                     *)
(****************************************************************************)

\* A spawn puts an unused child into the handle of its service.
LEMMA SpawnEffect ==
    ASSUME LaunchersOK, FlagsRight, NEW s \in Services, NEW by \in {"boot", "flow", "settings"},
           Spawn(s, by)
    PROVE  \E p \in Procs :
             /\ ~Spawned(p) /\ Spawned(p)'
             /\ proc'[p].by = by /\ proc'[p].svc = s
             /\ ~proc'[p].told /\ ~proc'[p].killed /\ ~proc'[p].reaped
             /\ proc'[p].crowded <=> Unreaped(s) # {}
             /\ \A q \in Procs \ {p} : proc'[q] = proc[q]
             /\ handle'[s] = p /\ \A t \in Services \ {s} : handle'[t] = handle[t]
<1>1. PICK p \in Procs : /\ ~Spawned(p) /\ p = CHOOSE q \in Procs : ~Spawned(q)
                         /\ proc' = [proc EXCEPT ![p].svc = s, ![p].by = by, ![p].alive = TRUE,
                                                 ![p].crowded = Unreaped(s) # {}]
                         /\ handle' = [handle EXCEPT ![s] = p]
  BY Zenon DEF Spawn
<1>2. /\ proc'[p].by = by /\ proc'[p].svc = s
      /\ proc'[p].told = proc[p].told
      /\ proc'[p].killed = proc[p].killed /\ proc'[p].reaped = proc[p].reaped
      /\ proc'[p].crowded <=> Unreaped(s) # {}
      /\ \A q \in Procs \ {p} : proc'[q] = proc[q]
  <2> DEFINE beside == Unreaped(s) # {}
             child == [proc[p] EXCEPT !.svc = s, !.by = by, !.alive = TRUE, !.crowded = beside]
  <2>1. proc[p] \in ProcType /\ beside \in BOOLEAN
    BY <1>1 DEF LaunchersOK
  <2>2. proc' = [proc EXCEPT ![p] = child]
    BY <1>1 DEF LaunchersOK, ProcType
  <2> HIDE DEF beside
  <2>3. /\ child.by = by /\ child.svc = s /\ child.told = proc[p].told
        /\ child.killed = proc[p].killed /\ child.reaped = proc[p].reaped /\ child.crowded = beside
    BY <2>1 DEF ProcType
  <2> HIDE DEF child
  <2>4. proc'[p] = child /\ \A q \in Procs \ {p} : proc'[q] = proc[q]
    BY <1>1, <2>2 DEF LaunchersOK
  <2>5. /\ proc'[p].by = by /\ proc'[p].svc = s /\ proc'[p].told = proc[p].told
        /\ proc'[p].killed = proc[p].killed /\ proc'[p].reaped = proc[p].reaped
        /\ proc'[p].crowded = beside
    BY <2>3, <2>4
  <2>6. proc'[p].crowded <=> Unreaped(s) # {}
    BY <2>5 DEF beside
  <2> QED BY <2>4, <2>5, <2>6
<1>3. handle'[s] = p /\ \A t \in Services \ {s} : handle'[t] = handle[t]
  BY <1>1 DEF LaunchersOK
<1>4. ~proc[p].told /\ ~proc[p].killed /\ ~proc[p].reaped
  BY <1>1 DEF FlagsRight
<1>5. Spawned(p)'
  BY <1>2 DEF Spawned
<1> QED BY <1>1, <1>2, <1>3, <1>4, <1>5

\* What a spawn for s leaves of the other services, and what it makes of s.
LEMMA SpawnAround ==
    ASSUME LaunchersOK, FlagsRight, NEW s \in Services, NEW by \in {"boot", "flow", "settings"},
           Spawn(s, by)
    PROVE  /\ \A t \in Services \ {s} :
                /\ Unreaped(t)' = Unreaped(t) /\ handle'[t] = handle[t]
                /\ \A q \in Unreaped(t) : proc'[q] = proc[q]
           /\ \A q \in Procs : Spawned(q)' => proc'[q].svc = s \/ (Spawned(q) /\ proc'[q] = proc[q])
           /\ \E p \in Procs :
                /\ ~Spawned(p) /\ Spawned(p)' /\ proc'[p].by = by /\ proc'[p].svc = s
                /\ ~proc'[p].told /\ ~proc'[p].killed
                /\ proc'[p].crowded <=> Unreaped(s) # {}
                /\ \A q \in Procs \ {p} : proc'[q] = proc[q]
                /\ handle'[s] = p /\ Unreaped(s)' = Unreaped(s) \cup {p}
<1>1. PICK p \in Procs :
             /\ ~Spawned(p) /\ Spawned(p)'
             /\ proc'[p].by = by /\ proc'[p].svc = s
             /\ ~proc'[p].told /\ ~proc'[p].killed /\ ~proc'[p].reaped
             /\ proc'[p].crowded <=> Unreaped(s) # {}
             /\ \A q \in Procs \ {p} : proc'[q] = proc[q]
             /\ handle'[s] = p /\ \A t \in Services \ {s} : handle'[t] = handle[t]
  BY SpawnEffect
<1>2. \A q \in Procs \ {p} : Spawned(q)' <=> Spawned(q)
  BY <1>1 DEF Spawned
<1>3. Unreaped(s)' = Unreaped(s) \cup {p}
  BY <1>1, <1>2 DEF Unreaped
<1>4. \A t \in Services \ {s} : Unreaped(t)' = Unreaped(t) /\ \A q \in Unreaped(t) : proc'[q] = proc[q]
  BY <1>1, <1>2 DEF Unreaped
<1>5. \A t \in Services \ {s} : handle'[t] = handle[t]
  BY <1>1
<1>6. ASSUME NEW q \in Procs, Spawned(q)'
      PROVE  proc'[q].svc = s \/ (Spawned(q) /\ proc'[q] = proc[q])
  <2>1. CASE q = p
    BY <1>1, <2>1
  <2>2. CASE q # p
    BY <1>1, <1>2, <1>6, <2>2
  <2> QED BY <2>1, <2>2
<1>7. \E r \in Procs :
                /\ ~Spawned(r) /\ Spawned(r)' /\ proc'[r].by = by /\ proc'[r].svc = s
                /\ ~proc'[r].told /\ ~proc'[r].killed
                /\ proc'[r].crowded <=> Unreaped(s) # {}
                /\ \A q \in Procs \ {r} : proc'[q] = proc[q]
                /\ handle'[s] = r /\ Unreaped(s)' = Unreaped(s) \cup {r}
  BY <1>1, <1>3
<1> QED BY <1>4, <1>5, <1>6, <1>7

LEMMA SpawnKeepsChildren ==
    ASSUME LaunchersOK, ChildrenRight, NEW s \in Services, NEW by \in {"boot", "flow", "settings"},
           Spawn(s, by), \A u \in Tasks : waiting'[u] \in {waiting[u], NoProc}
    PROVE  ChildrenRight'
<1>0. FlagsRight /\ HandlesHold /\ HandlesKnow /\ CrowdsKnown /\ WaitsRight
  BY DEF ChildrenRight
<1>1. PICK p \in Procs :
                /\ ~Spawned(p) /\ Spawned(p)' /\ proc'[p].by = by /\ proc'[p].svc = s
                /\ ~proc'[p].told /\ ~proc'[p].killed
                /\ proc'[p].crowded <=> Unreaped(s) # {}
                /\ \A q \in Procs \ {p} : proc'[q] = proc[q]
                /\ handle'[s] = p /\ Unreaped(s)' = Unreaped(s) \cup {p}
  BY <1>0, SpawnAround
<1>2. \A t \in Services \ {s} : /\ Unreaped(t)' = Unreaped(t) /\ handle'[t] = handle[t]
                                /\ \A q \in Unreaped(t) : proc'[q] = proc[q]
  BY <1>0, SpawnAround
<1>3. \A q \in Procs \ {p} : Spawned(q)' <=> Spawned(q)
  BY <1>1 DEF Spawned
<1>4. ~proc[p].crowded /\ ~proc'[p].reaped
  BY <1>0, <1>1 DEF FlagsRight, Unreaped
<1>5. /\ \A t : Crowded(t) => Crowded(t)'
      /\ Unreaped(s) # {} => Crowded(s)'
  BY <1>1, <1>4 DEF Crowded
<1>6. FlagsRight'
  <2> SUFFICES ASSUME NEW q \in Procs
               PROVE  /\ ~Spawned(q)' => /\ ~proc'[q].alive /\ ~proc'[q].told /\ ~proc'[q].killed
                                         /\ ~proc'[q].reaped /\ ~proc'[q].crowded
                      /\ proc'[q].reaped => ~proc'[q].alive
                      /\ proc'[q].killed => proc'[q].told
    BY DEF FlagsRight, Spawned
  <2> QED BY <1>0, <1>1, <1>3, <1>4 DEF FlagsRight
<1>7. HandlesHold'
  <2> SUFFICES ASSUME NEW t \in Services, handle'[t] # NoProc PROVE handle'[t] \in Unreaped(t)'
    BY DEF HandlesHold
  <2> QED BY <1>0, <1>1, <1>2 DEF HandlesHold
<1>8. HandlesKnow'
  <2> SUFFICES ASSUME NEW t \in Services, NEW q \in Unreaped(t)'
               PROVE  handle'[t] = q \/ proc'[q].told \/ Crowded(t)'
    BY DEF HandlesKnow
  <2> QED BY <1>0, <1>1, <1>2, <1>5 DEF HandlesKnow
<1>9. CrowdsKnown'
  <2> SUFFICES ASSUME NEW t \in Services, NEW q \in Unreaped(t)', NEW r \in Unreaped(t)'
               PROVE  q = r \/ Crowded(t)'
    BY DEF CrowdsKnown
  <2> QED BY <1>0, <1>1, <1>2, <1>5 DEF CrowdsKnown
<1>10. WaitsRight'
  <2> SUFFICES ASSUME NEW u \in Tasks, waiting'[u] # NoProc
               PROVE  /\ Spawned(waiting[u])' /\ proc'[waiting'[u]].svc = u[1]
                      /\ proc'[waiting'[u]].told
    BY DEF WaitsRight
  <2>1. waiting'[u] = waiting[u] /\ waiting[u] \in Procs \ {p}
    BY <1>0, <1>1 DEF WaitsRight, LaunchersOK
  <2> QED BY <1>0, <1>1, <1>3, <2>1 DEF WaitsRight
<1> QED BY <1>6, <1>7, <1>8, <1>9, <1>10 DEF ChildrenRight

\* What a stop finds in a handle is a child of the service, or the handle holds
\* one that was signalled before.
LEMMA StopTells ==
    ASSUME LaunchersOK, HandlesHold, NEW s \in Services
    PROVE  /\ Signalled(s) # NoProc => Signalled(s) = handle[s] /\ Signalled(s) \in Unreaped(s)
           /\ handle[s] # NoProc /\ Signalled(s) = NoProc => proc[handle[s]].killed
BY DEF Signalled, HandlesHold, Unreaped

\* What a stop leaves and what it changes.
LEMMA StopEffect ==
    ASSUME LaunchersOK, HandlesHold, NEW tasks \in SUBSET Tasks, BeginStop(tasks)
    PROVE  /\ \A s \in Services : handle'[s] = IF \E t \in tasks : t[1] = s THEN NoProc ELSE handle[s]
           /\ \A t \in Tasks : waiting'[t] = IF t \in tasks THEN Signalled(t[1]) ELSE waiting[t]
           /\ \A p \in Procs : /\ proc'[p].by = proc[p].by /\ proc'[p].svc = proc[p].svc
                               /\ proc'[p].alive = proc[p].alive /\ proc'[p].reaped = proc[p].reaped
                               /\ proc'[p].crowded = proc[p].crowded
                               /\ Spawned(p)' <=> Spawned(p)
                               /\ proc'[p].told <=> proc[p].told \/ \E t \in tasks : Signalled(t[1]) = p
                               /\ proc'[p].killed <=>
                                    \/ proc[p].killed
                                    \/ proc[p].svc \notin Gentle /\ \E t \in tasks : Signalled(t[1]) = p
           /\ \A s : Unreaped(s)' = Unreaped(s) /\ (Crowded(s)' <=> Crowded(s))
<1>1. \A s \in Services : handle'[s] = IF \E t \in tasks : t[1] = s THEN NoProc ELSE handle[s]
  BY DEF BeginStop
<1>2. \A t \in Tasks : waiting'[t] = IF t \in tasks THEN Signalled(t[1]) ELSE waiting[t]
  BY DEF BeginStop
<1>3. ASSUME NEW p \in Procs
      PROVE  /\ proc'[p].by = proc[p].by /\ proc'[p].svc = proc[p].svc
             /\ proc'[p].alive = proc[p].alive /\ proc'[p].reaped = proc[p].reaped
             /\ proc'[p].crowded = proc[p].crowded
             /\ proc'[p].told <=> proc[p].told \/ \E t \in tasks : Signalled(t[1]) = p
             /\ proc'[p].killed <=> \/ proc[p].killed
                                    \/ proc[p].svc \notin Gentle /\ \E t \in tasks : Signalled(t[1]) = p
  <2>1. proc[p] \in ProcType
    BY DEF LaunchersOK
  <2>2. proc'[p] = IF \E t \in tasks : Signalled(t[1]) = p
                   THEN [proc[p] EXCEPT !.told = TRUE,
                                        !.killed = proc[p].killed \/ proc[p].svc \notin Gentle]
                   ELSE proc[p]
    BY DEF BeginStop
  <2>3. CASE \E t \in tasks : Signalled(t[1]) = p
    <3>1. proc'[p] = [proc[p] EXCEPT !.told = TRUE,
                                     !.killed = proc[p].killed \/ proc[p].svc \notin Gentle]
      BY <2>2, <2>3
    <3> QED BY <2>1, <2>3, <3>1 DEF ProcType
  <2>4. CASE ~\E t \in tasks : Signalled(t[1]) = p
    BY <2>2, <2>4
  <2> QED BY <2>3, <2>4
<1>4. \A p \in Procs : Spawned(p)' <=> Spawned(p)
  BY <1>3 DEF Spawned
<1>5. \A s : Unreaped(s)' = Unreaped(s) /\ (Crowded(s)' <=> Crowded(s))
  BY <1>3, <1>4 DEF Unreaped, Crowded
<1> QED BY <1>1, <1>2, <1>3, <1>4, <1>5

LEMMA StopKeepsChildren ==
    ASSUME LaunchersOK, ChildrenRight, NEW tasks \in SUBSET Tasks, BeginStop(tasks)
    PROVE  ChildrenRight'
<1>0. FlagsRight /\ HandlesHold /\ HandlesKnow /\ CrowdsKnown /\ WaitsRight
  BY DEF ChildrenRight
<1>1. /\ \A s \in Services : handle'[s] = IF \E t \in tasks : t[1] = s THEN NoProc ELSE handle[s]
      /\ \A t \in Tasks : waiting'[t] = IF t \in tasks THEN Signalled(t[1]) ELSE waiting[t]
      /\ \A p \in Procs : /\ proc'[p].svc = proc[p].svc
                          /\ proc'[p].alive = proc[p].alive /\ proc'[p].reaped = proc[p].reaped
                          /\ proc'[p].crowded = proc[p].crowded
                          /\ Spawned(p)' <=> Spawned(p)
                          /\ proc'[p].told <=> proc[p].told \/ \E t \in tasks : Signalled(t[1]) = p
                          /\ proc'[p].killed => proc[p].killed \/ \E t \in tasks : Signalled(t[1]) = p
      /\ \A s : Unreaped(s)' = Unreaped(s) /\ (Crowded(s)' <=> Crowded(s))
  BY <1>0, StopEffect
<1>2. ASSUME NEW t \in tasks, Signalled(t[1]) # NoProc
      PROVE  Signalled(t[1]) = handle[t[1]] /\ Signalled(t[1]) \in Unreaped(t[1])
  BY <1>0, <1>2, TaskKinds, StopTells
<1>3. FlagsRight'
  <2> SUFFICES ASSUME NEW p \in Procs
               PROVE  /\ ~Spawned(p)' => /\ ~proc'[p].alive /\ ~proc'[p].told /\ ~proc'[p].killed
                                         /\ ~proc'[p].reaped /\ ~proc'[p].crowded
                      /\ proc'[p].reaped => ~proc'[p].alive
                      /\ proc'[p].killed => proc'[p].told
    BY DEF FlagsRight, Spawned
  <2>1. (\E t \in tasks : Signalled(t[1]) = p) => Spawned(p)
    BY <1>2, SupervisorAssumption DEF Unreaped
  <2> QED BY <1>0, <1>1, <2>1 DEF FlagsRight
<1>4. HandlesHold'
  BY <1>0, <1>1 DEF HandlesHold
<1>5. HandlesKnow'
  <2> SUFFICES ASSUME NEW s \in Services, NEW p \in Unreaped(s)
               PROVE  handle'[s] = p \/ proc'[p].told \/ Crowded(s)'
    BY <1>1 DEF HandlesKnow
  <2>0. p \in Procs
    BY DEF Unreaped
  <2>1. CASE ~\E t \in tasks : t[1] = s
    BY <1>0, <1>1, <2>0, <2>1 DEF HandlesKnow
  <2>2. CASE handle[s] # p
    BY <1>0, <1>1, <2>0, <2>2 DEF HandlesKnow
  <2>3. ASSUME NEW t \in tasks, t[1] = s, handle[s] = p PROVE proc'[p].told \/ Crowded(s)'
    <3>1. CASE Signalled(s) # NoProc
      BY <1>1, <1>2, <2>0, <2>3, <3>1
    <3>2. CASE Signalled(s) = NoProc
      <4>1. proc[p].killed
        BY <1>0, <2>0, <2>3, <3>2, StopTells, SupervisorAssumption
      <4> QED BY <1>0, <1>1, <2>0, <4>1 DEF FlagsRight
    <3> QED BY <3>1, <3>2
  <2> QED BY <2>1, <2>2, <2>3
<1>6. CrowdsKnown'
  BY <1>0, <1>1 DEF CrowdsKnown
<1>7. WaitsRight'
  <2> SUFFICES ASSUME NEW t \in Tasks, waiting'[t] # NoProc
               PROVE  /\ Spawned(waiting[t])' /\ proc'[waiting'[t]].svc = t[1]
                      /\ proc'[waiting'[t]].told
    BY DEF WaitsRight
  <2>1. CASE t \in tasks
    <3>1. waiting'[t] = Signalled(t[1]) /\ waiting'[t] \in Unreaped(t[1])
      BY <1>1, <1>2, <2>1
    <3>2. waiting'[t] \in Procs /\ Spawned(waiting'[t]) /\ proc[waiting'[t]].svc = t[1]
      BY <3>1 DEF Unreaped
    <3>3. proc'[waiting'[t]].told /\ proc'[waiting'[t]].svc = t[1]
      BY <1>1, <2>1, <3>1, <3>2
    <3>4. proc'[waiting'[t]].by # "none"
      BY <1>0, <2>1, <3>2, StopEffect DEF Spawned
    <3> QED BY <3>3, <3>4 DEF Spawned
  <2>2. CASE t \notin tasks
    <3>1. waiting'[t] = waiting[t] /\ waiting[t] \in Procs
      BY <1>1, <2>2 DEF LaunchersOK
    <3>2. proc'[waiting[t]].told /\ proc'[waiting[t]].svc = t[1] /\ proc'[waiting[t]].by # "none"
      BY <1>0, <1>1, <3>1, StopEffect DEF WaitsRight, Spawned
    <3> QED BY <3>1, <3>2 DEF Spawned
  <2> QED BY <2>1, <2>2
<1> QED BY <1>3, <1>4, <1>5, <1>6, <1>7 DEF ChildrenRight

\* The end of a stop signals the child of the stop, if anyone.
LEMMA StopEndEffect ==
    ASSUME LaunchersOK, NEW t \in Tasks, EndStop(t)
    PROVE  /\ \A u \in Tasks : waiting'[u] = IF u = t THEN NoProc ELSE waiting[u]
           /\ \A p \in Procs : /\ proc'[p].by = proc[p].by /\ proc'[p].svc = proc[p].svc
                               /\ proc'[p].alive = proc[p].alive /\ proc'[p].reaped = proc[p].reaped
                               /\ proc'[p].told = proc[p].told /\ proc'[p].crowded = proc[p].crowded
                               /\ Spawned(p)' <=> Spawned(p)
                               /\ proc'[p].killed <=>
                                    proc[p].killed \/ (p = waiting[t] /\ ~proc[p].reaped)
           /\ \A s : Unreaped(s)' = Unreaped(s) /\ (Crowded(s)' <=> Crowded(s))
<1>1. \A u \in Tasks : waiting'[u] = IF u = t THEN NoProc ELSE waiting[u]
  BY DEF EndStop, LaunchersOK
<1>2. ASSUME NEW p \in Procs
      PROVE  /\ proc'[p].by = proc[p].by /\ proc'[p].svc = proc[p].svc
             /\ proc'[p].alive = proc[p].alive /\ proc'[p].reaped = proc[p].reaped
             /\ proc'[p].told = proc[p].told /\ proc'[p].crowded = proc[p].crowded
             /\ proc'[p].killed <=> proc[p].killed \/ (p = waiting[t] /\ ~proc[p].reaped)
  <2>1. proc[p] \in ProcType
    BY DEF LaunchersOK
  <2> DEFINE hard == t[1] \notin Gentle
             ended == [proc[p] EXCEPT !.killed = TRUE, !.forced = hard]
  <2>2. proc'[p] = IF p = waiting[t] /\ ~proc[p].reaped /\ ~proc[p].killed THEN ended ELSE proc[p]
    BY DEF EndStop
  <2> HIDE DEF hard
  <2>3. CASE p = waiting[t] /\ ~proc[p].reaped /\ ~proc[p].killed
    <3>1. proc'[p] = ended
      BY <2>2, <2>3
    <3>2. /\ ended.by = proc[p].by /\ ended.svc = proc[p].svc
          /\ ended.alive = proc[p].alive /\ ended.reaped = proc[p].reaped
          /\ ended.told = proc[p].told /\ ended.crowded = proc[p].crowded /\ ended.killed = TRUE
      BY <2>1 DEF ProcType
    <3> HIDE DEF ended
    <3> QED BY <2>3, <3>1, <3>2
  <2>4. CASE ~(p = waiting[t] /\ ~proc[p].reaped /\ ~proc[p].killed)
    <3>1. proc'[p] = proc[p]
      BY <2>2, <2>4 DEF ended
    <3> QED BY <2>4, <3>1
  <2> QED BY <2>3, <2>4
<1>3. \A p \in Procs : Spawned(p)' <=> Spawned(p)
  BY <1>2 DEF Spawned
<1>4. \A s : Unreaped(s)' = Unreaped(s) /\ (Crowded(s)' <=> Crowded(s))
  BY <1>2, <1>3 DEF Unreaped, Crowded
<1> QED BY <1>1, <1>2, <1>3, <1>4

LEMMA StopEndKeepsChildren ==
    ASSUME LaunchersOK, ChildrenRight, NEW t \in Tasks, EndStop(t), UNCHANGED handle
    PROVE  ChildrenRight'
<1>0. FlagsRight /\ HandlesHold /\ HandlesKnow /\ CrowdsKnown /\ WaitsRight
  BY DEF ChildrenRight
<1>1. /\ \A u \in Tasks : waiting'[u] = IF u = t THEN NoProc ELSE waiting[u]
      /\ \A p \in Procs : /\ proc'[p].svc = proc[p].svc
                          /\ proc'[p].alive = proc[p].alive /\ proc'[p].reaped = proc[p].reaped
                          /\ proc'[p].told = proc[p].told /\ proc'[p].crowded = proc[p].crowded
                          /\ Spawned(p)' <=> Spawned(p)
                          /\ proc'[p].killed <=> proc[p].killed \/ (p = waiting[t] /\ ~proc[p].reaped)
      /\ \A s : Unreaped(s)' = Unreaped(s) /\ (Crowded(s)' <=> Crowded(s))
  BY StopEndEffect
<1>2. \A p \in Procs : p = waiting[t] => Spawned(p) /\ proc[p].told
  BY <1>0, SupervisorAssumption DEF WaitsRight
<1>3. FlagsRight'
  <2> SUFFICES ASSUME NEW p \in Procs
               PROVE  /\ ~Spawned(p)' => /\ ~proc'[p].alive /\ ~proc'[p].told /\ ~proc'[p].killed
                                         /\ ~proc'[p].reaped /\ ~proc'[p].crowded
                      /\ proc'[p].reaped => ~proc'[p].alive
                      /\ proc'[p].killed => proc'[p].told
    BY DEF FlagsRight, Spawned
  <2> QED BY <1>0, <1>1, <1>2 DEF FlagsRight
<1>4. HandlesHold'
  BY <1>0, <1>1 DEF HandlesHold
<1>5. HandlesKnow'
  <2> SUFFICES ASSUME NEW s \in Services, NEW p \in Unreaped(s)
               PROVE  handle[s] = p \/ proc'[p].told \/ Crowded(s)'
    BY <1>1 DEF HandlesKnow
  <2>1. p \in Procs
    BY DEF Unreaped
  <2> QED BY <1>0, <1>1, <2>1 DEF HandlesKnow
<1>6. CrowdsKnown'
  BY <1>0, <1>1 DEF CrowdsKnown
<1>7. WaitsRight'
  <2> SUFFICES ASSUME NEW u \in Tasks, waiting'[u] # NoProc
               PROVE  /\ Spawned(waiting[u])' /\ proc'[waiting'[u]].svc = u[1]
                      /\ proc'[waiting'[u]].told
    BY DEF WaitsRight
  <2>1. waiting'[u] = waiting[u] /\ waiting[u] \in Procs
    BY <1>1 DEF LaunchersOK
  <2>2. proc'[waiting[u]].told /\ proc'[waiting[u]].svc = u[1] /\ proc'[waiting[u]].by # "none"
    BY <1>0, <1>1, <2>1, StopEndEffect DEF WaitsRight, Spawned
  <2> QED BY <2>1, <2>2 DEF Spawned
<1> QED BY <1>3, <1>4, <1>5, <1>6, <1>7 DEF ChildrenRight

(***************************************************************************)
(* What is right at one calm service.                                      *)
(***************************************************************************)
SignalsAt(s) ==
    \A p \in Unreaped(s) :
        /\ handle[s] = p => ~proc[p].killed
        /\ handle[s] # p => proc[p].killed /\ handle[s] = NoProc

Awaited(s, p) == \E f \in Flows : flow[s][f] = "stop" /\ waiting[HealthTask(s, f)] = p

RestartsAt(s) ==
    /\ \A f, g \in Restarting(s) : f = g
    /\ Restarting(s) # {} => handle[s] = NoProc
    /\ ~globalStopped => \A p \in Unreaped(s) : handle[s] = p \/ Awaited(s, p)

CalmAt(s) == SignalsAt(s) /\ (s \in Supervised => RestartsAt(s))

\* What a step must keep of the children beside start-up and the quit.
CareRight == ChildrenRight /\ (\A s \in Calm : CalmAt(s)) /\ CrowdsRight

LEMMA CareSplit ==
    /\ CareRight <=> ChildrenRight /\ SignalsRight /\ RestartsRight /\ CrowdsRight
    /\ ChildrenInv <=> CareRight /\ StartUpRight /\ QuitRight
BY DEF CareRight, CalmAt, SignalsAt, RestartsAt, Awaited, SignalsRight, RestartsRight, ChildrenInv

LEMMA CareSplitNext ==
    /\ CareRight' <=> ChildrenRight' /\ SignalsRight' /\ RestartsRight' /\ CrowdsRight'
    /\ ChildrenInv' <=> CareRight' /\ StartUpRight' /\ QuitRight'
BY DEF CareRight, CalmAt, SignalsAt, RestartsAt, Awaited, SignalsRight, RestartsRight, ChildrenInv

LEMMA CalmKinds == Calm \subseteq Services /\ Calm \subseteq Services \ Gentle
BY SupervisorAssumption DEF Calm

\* At a calm service every child but one has ended.
LEMMA CalmAlone ==
    ASSUME ChildrenRight, CrowdsRight, NEW s \in Calm, NEW p \in Unreaped(s), NEW q \in Unreaped(s)
    PROVE  p = q
<1>1. ~Crowded(s)
  BY DEF Crowded, CrowdsRight
<1> QED BY <1>1, CalmKinds DEF ChildrenRight, CrowdsKnown

\* A settings event only ever disturbs.
LEMMA CalmShrinks ==
    ASSUME restart' = restart \/ Settings, restart \in [Events -> {"idle", "stop", "start", "done"}]
    PROVE  /\ \A s : Undisturbed(s)' => Undisturbed(s)
           /\ Calm' \subseteq Calm
<1>1. \A e \in Events : restart'[e] = "idle" => restart[e] = "idle"
  BY DEF Settings, SettingsEvent, SettingsSpawn, SettingsDone
<1>2. \A s : Undisturbed(s)' => Undisturbed(s)
  BY <1>1 DEF Undisturbed
<1> QED BY <1>2 DEF Calm

\* A calm service whose handle stays, whose children are signalled no more, and
\* whose waiting restart goes on, stays right.
LEMMA CalmStays ==
    ASSUME NEW s \in Services, CalmAt(s), handle'[s] = handle[s],
           Unreaped(s)' \subseteq Unreaped(s),
           \A p \in Unreaped(s)' : proc'[p].killed = proc[p].killed,
           s \in Supervised =>
             /\ Restarting(s)' \subseteq Restarting(s)
             /\ ~globalStopped' =>
                  /\ ~globalStopped
                  /\ \A p \in Unreaped(s)' : Awaited(s, p) => Awaited(s, p)'
    PROVE  CalmAt(s)'
<1>1. SignalsAt(s)'
  BY DEF CalmAt, SignalsAt
<1>2. ASSUME s \in Supervised PROVE RestartsAt(s)'
  <2>1. RestartsAt(s)
    BY <1>2 DEF CalmAt
  <2>2. \A f, g \in Restarting(s)' : f = g
    BY <1>2, <2>1 DEF RestartsAt
  <2>3. Restarting(s)' # {} => handle'[s] = NoProc
    BY <1>2, <2>1 DEF RestartsAt
  <2>4. ~globalStopped' => \A p \in Unreaped(s)' : handle'[s] = p \/ Awaited(s, p)'
    BY <1>2, <2>1 DEF RestartsAt
  <2> QED BY <2>2, <2>3, <2>4 DEF RestartsAt
<1> QED BY <1>1, <1>2 DEF CalmAt

\* No child that is crowded and was not before: no service becomes crowded.
LEMMA CrowdsStay ==
    ASSUME CrowdsRight, Calm' \subseteq Calm,
           \A p \in Procs : proc'[p].crowded => /\ proc[p].crowded
                                                /\ proc'[p].by = proc[p].by /\ proc'[p].svc = proc[p].svc
    PROVE  CrowdsRight'
BY DEF CrowdsRight

\* A step of the supervisor alone: no child, no handle and no stop changes.
LEMMA LullKeeps ==
    ASSUME CareRight, UNCHANGED <<proc, handle, waiting, globalStopped>>, Calm' \subseteq Calm,
           \A s \in Supervised : \A f \in Flows :
               /\ flow[s][f] = "stop" => flow'[s][f] = "stop"
               /\ flow'[s][f] \in {"stop", "sleep"} => flow[s][f] \in {"stop", "sleep"}
    PROVE  CareRight'
<1>1. ChildrenRight'
  BY DEF CareRight, ChildrenRight, FlagsRight, HandlesHold, HandlesKnow, CrowdsKnown, WaitsRight,
         Unreaped, Spawned, Crowded
<1>2. CrowdsRight'
  BY CrowdsStay DEF CareRight
<1>3. ASSUME NEW s \in Calm' PROVE CalmAt(s)'
  <2>1. s \in Calm /\ s \in Services
    BY <1>3, CalmKinds
  <2>2. Unreaped(s)' = Unreaped(s)
    BY DEF Unreaped, Spawned
  <2>3. s \in Supervised => Restarting(s)' \subseteq Restarting(s)
    BY DEF Restarting
  <2>4. s \in Supervised => \A p : Awaited(s, p) => Awaited(s, p)'
    BY DEF Awaited, HealthTask
  <2> QED BY <2>1, <2>2, <2>3, <2>4, CalmStays DEF CareRight
<1> QED BY <1>1, <1>2, <1>3 DEF CareRight

\* A spawn for a service: a calm one has no child left and no restart under way.
LEMMA SpawnKeeps ==
    ASSUME LaunchersOK, CareRight, NEW s \in Services, NEW by \in {"boot", "flow", "settings"},
           Spawn(s, by), Calm' \subseteq Calm, globalStopped' = globalStopped,
           \A u \in Tasks : waiting'[u] \in {waiting[u], NoProc},
           s \in Calm' \/ by = "boot" => Unreaped(s) = {},
           s \in Calm' /\ s \in Supervised => Restarting(s)' = {},
           \A t \in Supervised \ {s} : /\ flow'[t] = flow[t]
                                       /\ \A f \in Flows : waiting'[HealthTask(t, f)] = waiting[HealthTask(t, f)]
    PROVE  CareRight'
<1>0. FlagsRight
  BY DEF CareRight, ChildrenRight
<1>1. ChildrenRight'
  BY SpawnKeepsChildren DEF CareRight
<1>2. PICK p \in Procs :
                /\ ~Spawned(p) /\ Spawned(p)' /\ proc'[p].by = by /\ proc'[p].svc = s
                /\ ~proc'[p].told /\ ~proc'[p].killed
                /\ proc'[p].crowded <=> Unreaped(s) # {}
                /\ \A q \in Procs \ {p} : proc'[q] = proc[q]
                /\ handle'[s] = p /\ Unreaped(s)' = Unreaped(s) \cup {p}
  BY <1>0, SpawnAround
<1>3. CrowdsRight'
  <2> SUFFICES ASSUME NEW q \in Procs, proc'[q].crowded
               PROVE  proc'[q].svc \notin Calm' /\ proc'[q].by # "boot"
    BY DEF CrowdsRight
  <2>1. CASE q = p
    BY <1>2, <2>1
  <2>2. CASE q # p
    BY <1>2, <2>2 DEF CareRight, CrowdsRight
  <2> QED BY <2>1, <2>2
<1>4. ASSUME NEW t \in Calm' PROVE CalmAt(t)'
  <2>0. t \in Calm /\ t \in Services
    BY <1>4, CalmKinds
  <2>1. CASE t = s
    <3>1. Unreaped(s)' = {p} /\ handle'[s] = p
      BY <1>2, <1>4, <2>1
    <3>2. SignalsAt(s)'
      BY <1>2, <3>1 DEF SignalsAt
    <3>3. s \in Supervised => RestartsAt(s)'
      BY <1>4, <2>1, <3>1 DEF RestartsAt
    <3> QED BY <2>1, <3>2, <3>3 DEF CalmAt
  <2>2. CASE t # s
    <3>1. /\ Unreaped(t)' = Unreaped(t) /\ handle'[t] = handle[t]
          /\ \A q \in Unreaped(t) : proc'[q] = proc[q]
      BY <1>0, <2>0, <2>2, SpawnAround
    <3>2. t \in Supervised => /\ Restarting(t)' \subseteq Restarting(t)
                              /\ \A q : Awaited(t, q) => Awaited(t, q)'
      BY <2>2 DEF Restarting, Awaited, HealthTask
    <3> QED BY <2>0, <3>1, <3>2, CalmStays DEF CareRight
  <2> QED BY <2>1, <2>2
<1> QED BY <1>1, <1>3, <1>4 DEF CareRight

\* A stop of a calm service empties the handle and signals the child it held,
\* and waits for it.
LEMMA StopOfCalm ==
    ASSUME LaunchersOK, CareRight, NEW tasks \in SUBSET Tasks, BeginStop(tasks),
           NEW s \in Calm, NEW u \in tasks, u[1] = s
    PROVE  /\ SignalsAt(s)' /\ handle'[s] = NoProc
           /\ \A p \in Unreaped(s) : handle[s] = p => waiting'[u] = p
<1>0. HandlesHold /\ SignalsAt(s) /\ s \in Services /\ s \notin Gentle /\ NoProc \notin Procs
  BY CalmKinds, SupervisorAssumption DEF CareRight, ChildrenRight, CalmAt
<1>1. /\ handle'[s] = NoProc
      /\ waiting'[u] = Signalled(s)
      /\ Unreaped(s)' = Unreaped(s)
      /\ \A p \in Procs : proc'[p].killed <=>
                                    \/ proc[p].killed
                                    \/ proc[p].svc \notin Gentle /\ \E t \in tasks : Signalled(t[1]) = p
  BY <1>0, StopEffect
<1>2. ASSUME NEW p \in Unreaped(s)
      PROVE  /\ proc'[p].killed /\ p # NoProc
             /\ handle[s] = p => waiting'[u] = p
  <2>1. p \in Procs /\ proc[p].svc = s /\ ~proc[p].reaped /\ p # NoProc
    BY <1>0 DEF Unreaped
  <2>2. CASE handle[s] = p
    <3>1. ~proc[p].killed
      BY <1>0, <2>2 DEF SignalsAt
    <3>2. Signalled(s) = p
      BY <2>1, <2>2, <3>1 DEF Signalled
    <3> QED BY <1>0, <1>1, <2>1, <3>2
  <2>3. CASE handle[s] # p
    BY <1>0, <1>1, <2>1, <2>3 DEF SignalsAt
  <2> QED BY <2>2, <2>3
<1> QED BY <1>1, <1>2 DEF SignalsAt

\* A stop elsewhere leaves a calm service as it is.
LEMMA StopElsewhere ==
    ASSUME LaunchersOK, CareRight, NEW tasks \in SUBSET Tasks, BeginStop(tasks),
           NEW s \in Calm, \A u \in tasks : u[1] # s
    PROVE  /\ handle'[s] = handle[s] /\ Unreaped(s)' = Unreaped(s)
           /\ \A p \in Unreaped(s) : proc'[p].killed = proc[p].killed
           /\ s \in Supervised => \A f \in Flows : waiting'[HealthTask(s, f)] = waiting[HealthTask(s, f)]
<1>0. HandlesHold /\ s \in Services /\ NoProc \notin Procs
  BY CalmKinds, SupervisorAssumption DEF CareRight, ChildrenRight
<1>1. /\ handle'[s] = handle[s] /\ Unreaped(s)' = Unreaped(s)
      /\ \A t \in Tasks : waiting'[t] = IF t \in tasks THEN Signalled(t[1]) ELSE waiting[t]
      /\ \A p \in Procs : proc'[p].killed <=>
                                    \/ proc[p].killed
                                    \/ proc[p].svc \notin Gentle /\ \E t \in tasks : Signalled(t[1]) = p
  BY <1>0, StopEffect
<1>2. ASSUME NEW p \in Unreaped(s) PROVE proc'[p].killed = proc[p].killed
  <2>1. p \in Procs /\ proc[p].svc = s /\ p # NoProc
    BY <1>0 DEF Unreaped
  <2>2. ASSUME NEW t \in tasks, Signalled(t[1]) = p PROVE FALSE
    <3>1. t[1] \in Services /\ Signalled(t[1]) \in Unreaped(t[1])
      BY <1>0, <2>1, <2>2, TaskKinds, StopTells
    <3> QED BY <2>1, <2>2, <3>1 DEF Unreaped
  <2>3. proc[p].killed \in BOOLEAN /\ proc'[p].killed \in BOOLEAN
    BY <2>1, StopBegins DEF LaunchersOK, ProcType
  <2> QED BY <1>1, <2>1, <2>2, <2>3
<1>3. ASSUME s \in Supervised, NEW f \in Flows
      PROVE  waiting'[HealthTask(s, f)] = waiting[HealthTask(s, f)]
  <2>1. HealthTask(s, f) \in Tasks /\ HealthTask(s, f) \notin tasks
    BY <1>3, TaskKinds
  <2> QED BY <1>1, <2>1
<1> QED BY <1>1, <1>2, <1>3

LEMMA StopKeepsCrowds ==
    ASSUME LaunchersOK, CareRight, NEW tasks \in SUBSET Tasks, BeginStop(tasks), Calm' \subseteq Calm
    PROVE  ChildrenRight' /\ CrowdsRight'
<1>1. ChildrenRight'
  BY StopKeepsChildren DEF CareRight
<1>2. HandlesHold
  BY DEF CareRight, ChildrenRight
<1>3. \A p \in Procs : /\ proc'[p].crowded = proc[p].crowded
                       /\ proc'[p].by = proc[p].by /\ proc'[p].svc = proc[p].svc
  BY <1>2, StopEffect
<1> QED BY <1>1, <1>3, CrowdsStay DEF CareRight

\* The end of a stop signals no child of a calm service: that one has ended.
LEMMA StopEndKeeps ==
    ASSUME LaunchersOK, CareRight, NEW t \in Tasks, EndStop(t), UNCHANGED handle, Calm' \subseteq Calm
    PROVE  /\ ChildrenRight' /\ CrowdsRight'
           /\ \A s \in Calm : /\ Unreaped(s)' = Unreaped(s)
                              /\ \A p \in Unreaped(s) : /\ proc'[p].killed = proc[p].killed
                                                        /\ p # waiting[t]
<1>0. ChildrenRight /\ WaitsRight /\ NoProc \notin Procs
  BY SupervisorAssumption DEF CareRight, ChildrenRight
<1>1. ChildrenRight'
  BY <1>0, StopEndKeepsChildren
<1>2. /\ \A p \in Procs : /\ proc'[p].by = proc[p].by /\ proc'[p].svc = proc[p].svc
                          /\ proc'[p].crowded = proc[p].crowded
                          /\ proc'[p].killed <=>
                                    proc[p].killed \/ (p = waiting[t] /\ ~proc[p].reaped)
      /\ \A s : Unreaped(s)' = Unreaped(s)
  BY StopEndEffect
<1>3. CrowdsRight'
  BY <1>2, CrowdsStay DEF CareRight
<1>4. ASSUME NEW s \in Calm, NEW p \in Unreaped(s)
      PROVE  proc'[p].killed = proc[p].killed /\ p # waiting[t]
  <2>1. p \in Procs /\ proc[p].svc = s /\ ~proc[p].reaped /\ p # NoProc /\ s \in Punctual
    BY <1>0 DEF Unreaped, Calm
  <2>2. p # waiting[t]
    BY <1>0, <2>1 DEF EndStop, StopOver, WaitsRight
  <2>3. proc[p].killed \in BOOLEAN /\ proc'[p].killed \in BOOLEAN
    BY <2>1, StopEnds DEF LaunchersOK, ProcType
  <2> QED BY <1>2, <2>1, <2>2, <2>3
<1> QED BY <1>1, <1>2, <1>3, <1>4

(***************************************************************************)
(* What keeps the parts about start-up and the quit.                       *)
(***************************************************************************)

\* Start-up stays right when no pending service is touched or gets a child.
LEMMA StartUpStays ==
    ASSUME StartUpRight, UNCHANGED boot, boot.pc # "ready" => restart' = restart,
           \A t \in Pending : managed'[t].timer = managed[t].timer /\ flow'[t] = flow[t],
           \A p \in Procs : Spawned(p)' =>
                \/ Spawned(p) /\ proc'[p].svc = proc[p].svc
                \/ proc'[p].svc \notin Pending /\ (boot.pc # "ready" => proc'[p].svc # Backend)
    PROVE  StartUpRight'
<1>1. Pending' = Pending
  BY DEF Pending
<1> QED BY <1>1 DEF StartUpRight

\* The quit stays right when no stopped service's handle is filled.
LEMMA QuitStays ==
    ASSUME QuitRight, UNCHANGED <<globalStopped, quit>>,
           \A t \in Supervised : managed'[t].registered = managed[t].registered,
           \A t : Undisturbed(t)' => Undisturbed(t),
           quit # "no" => \A t \in Supervised :
                managed'[t].stopped /\ Undisturbed(t)' =>
                    managed[t].stopped /\ handle'[t] \in {handle[t], NoProc}
    PROVE  QuitRight'
<1>1. globalStopped' <=> quit' # "no"
  BY DEF QuitRight
<1>2. \A t \in Supervised : managed'[t].registered
  BY DEF QuitRight
<1>3. ASSUME quit' # "no", NEW t \in Supervised, managed'[t].stopped, Undisturbed(t)'
      PROVE  handle'[t] = NoProc
  BY <1>3 DEF QuitRight
<1> QED BY <1>1, <1>2, <1>3 DEF QuitRight

LEMMA PendingKinds == ASSUME SupervisorInv PROVE Pending \subseteq Supervised
<1>1. boot.at \in 1 .. Len(Order) + 1
  BY TypeSplit DEF SupervisorInv
<1> QED BY <1>1, ServiceKinds DEF Pending

LEMMA ChildTypes ==
    ASSUME SupervisorInv
    PROVE  /\ managed \in [Services -> ManagedType] /\ LaunchersOK
           /\ flow \in [Supervised -> [Flows -> FlowSteps]]
           /\ boot \in [pc : {"cleanup", "next", "await", "backend", "ready"}, at : 1 .. Len(Order) + 1]
           /\ globalStopped \in BOOLEAN
           /\ restart \in [Events -> {"idle", "stop", "start", "done"}]
BY TypeSplit DEF SupervisorInv

\* Moving one health tick to a step.
LEMMA TickMoves ==
    ASSUME flow \in [Supervised -> [Flows -> FlowSteps]], NEW s \in Supervised, NEW f \in Flows,
           NEW step, To(s, f, step)
    PROVE  /\ flow'[s][f] = step
           /\ \A g \in Flows \ {f} : flow'[s][g] = flow[s][g]
           /\ \A t \in Supervised \ {s} : flow'[t] = flow[t]
BY DEF To

(***************************************************************************)
(* Start-up.                                                               *)
(***************************************************************************)
LEMMA StartNextKeeps == ASSUME SupervisorInv, ChildrenInv, StartNext PROVE ChildrenInv'
<1>a. boot.at \in 1 .. Len(Order) /\ boot.pc = "next"
  BY ChildTypes, ServiceKinds DEF StartNext
<1>b. PICK s \in Supervised : s = Order[boot.at]
  BY <1>a, ServiceKinds
<1>c. Supervised \subseteq Services /\ Pending \subseteq Supervised
  BY ServiceKinds, PendingKinds
<1>0. /\ managed \in [Services -> ManagedType] /\ LaunchersOK
      /\ s \in Supervised /\ s \in Services
      /\ flow \in [Supervised -> [Flows -> FlowSteps]]
      /\ restart \in [Events -> {"idle", "stop", "start", "done"}]
      /\ CareRight /\ StartUpRight /\ QuitRight
  BY ChildTypes, ServiceKinds, CareSplit
<1>1. /\ boot' = [boot EXCEPT !.pc = "await"] \/ boot' = [boot EXCEPT !.at = boot.at + 1]
      /\ boot \in [pc : {"cleanup", "next", "await", "backend", "ready"}, at : 1 .. Len(Order) + 1]
      /\ UNCHANGED <<globalStopped, flow, quit, restart, waiting>>
      /\ TryStart(s, "boot")
  BY <1>b, ChildTypes DEF StartNext
<1>2. s \in Pending /\ Pending' = Pending \ {s}
  <2>1. Pending = {Order[i] : i \in boot.at .. Len(Order)}
    BY <1>a DEF Pending
  <2>2. Pending' = {Order[i] : i \in boot.at + 1 .. Len(Order)}
    BY <1>a, <1>1 DEF Pending
  <2>3. s \in Pending
    BY <1>a, <1>b, <2>1, ServiceKinds
  <2>4. boot.at .. Len(Order) = {boot.at} \cup (boot.at + 1 .. Len(Order))
    BY <1>a, ServiceKinds
  <2>5. \A i \in boot.at + 1 .. Len(Order) : Order[i] # s
    BY <1>a, <1>b, OrderAssumption, ServiceKinds
  <2>6. \A t : t \in Pending' <=> t \in Pending /\ t # s
    BY <1>b, <2>1, <2>2, <2>4, <2>5
  <2> QED BY <2>3, <2>6
<1>3. Unreaped(s) = {} /\ Restarting(s) = {}
  BY <1>0, <1>2 DEF StartUpRight, Unreaped, Restarting
<1>4. boot'.pc \notin {"backend", "ready"}
  BY <1>a, <1>1
<1>5. /\ managed'[s].stopped = FALSE /\ managed'[s].registered = managed[s].registered
      /\ \A t \in Services \ {s} : managed'[t] = managed[t]
  <2>1. \/ managed' = [managed EXCEPT ![s].stopped = FALSE, ![s].running = TRUE, ![s].timer = TRUE]
        \/ managed' = [managed EXCEPT ![s].stopped = FALSE]
    BY <1>b DEF StartNext, Started
  <2> QED BY <1>0, <2>1 DEF ManagedType
<1>6. /\ \A t \in Supervised : managed'[t].registered = managed[t].registered
      /\ \A t \in Supervised : managed'[t].stopped => t # s /\ managed[t].stopped
  BY <1>5, ServiceKinds
<1>7. Calm' = Calm /\ \A t : Undisturbed(t)' => Undisturbed(t)
  BY <1>1 DEF Calm, Undisturbed
<1>8. CASE s \in Installed
  <2>1. Spawn(s, "boot")
    BY <1>1, <1>8 DEF TryStart
  <2>2. CareRight'
    <3>1. Restarting(s)' = {}
      BY <1>1, <1>3 DEF Restarting
    <3> QED BY <1>0, <1>1, <1>3, <1>7, <2>1, <3>1, SpawnKeeps
  <2>3. FlagsRight
    BY <1>0 DEF CareRight, ChildrenRight
  <2>4. /\ \A t \in Services \ {s} : handle'[t] = handle[t]
        /\ \A q \in Procs : Spawned(q)' => proc'[q].svc = s \/ (Spawned(q) /\ proc'[q] = proc[q])
    BY <1>0, <2>1, <2>3, SpawnAround
  <2>5. StartUpRight'
    <3>1. \A t \in Pending' : /\ ~managed'[t].timer
                              /\ \A f \in Flows : flow'[t][f] = "idle"
                              /\ \A q \in Procs : Spawned(q)' => proc'[q].svc # t
      BY <1>c, <1>0, <1>1, <1>2, <1>5, <2>4 DEF StartUpRight
    <3>2. \A q \in Procs : Spawned(q)' => proc'[q].svc # Backend
      <4>1. s # Backend
        BY <1>0, SupervisorAssumption
      <4> QED BY <1>a, <1>0, <2>4, <4>1 DEF StartUpRight
    <3>3. \A e \in Events : restart'[e] = "idle"
      BY <1>a, <1>0, <1>1 DEF StartUpRight
    <3> QED BY <1>4, <3>1, <3>2, <3>3 DEF StartUpRight
  <2>6. QuitRight'
    <3>1. ASSUME NEW t \in Supervised, managed'[t].stopped
          PROVE  managed[t].stopped /\ handle'[t] = handle[t]
      <4>1. t # s /\ managed[t].stopped
        BY <1>6, <3>1
      <4>2. t \in Services \ {s}
        BY <1>c, <4>1
      <4> QED BY <2>4, <4>1, <4>2
    <3> QED BY <1>0, <1>1, <1>6, <1>7, <3>1, QuitStays
  <2> QED BY <2>2, <2>5, <2>6, CareSplitNext
<1>9. CASE s \notin Installed
  <2>1. UNCHANGED <<proc, handle>>
    BY <1>1, <1>9 DEF TryStart
  <2>2. CareRight'
    BY <1>0, <1>1, <1>7, <2>1, LullKeeps
  <2>3. StartUpRight'
    BY <1>a, <1>c, <1>0, <1>1, <1>2, <1>4, <1>5, <2>1 DEF StartUpRight, Spawned
  <2>4. QuitRight'
    BY <1>0, <1>1, <1>6, <1>7, <2>1, QuitStays
  <2> QED BY <2>2, <2>3, <2>4, CareSplitNext
<1> QED BY <1>8, <1>9

LEMMA StartBackendKeeps == ASSUME SupervisorInv, ChildrenInv, StartBackend PROVE ChildrenInv'
<1>0. /\ LaunchersOK /\ Backend \in Services /\ Backend \notin Supervised
      /\ boot.pc = "backend" /\ boot' = [boot EXCEPT !.pc = "ready"]
      /\ boot \in [pc : {"cleanup", "next", "await", "backend", "ready"}, at : 1 .. Len(Order) + 1]
      /\ UNCHANGED <<managed, globalStopped, flow, quit, restart, waiting>>
      /\ Spawn(Backend, "boot") \/ UNCHANGED <<proc, handle>>
      /\ CareRight /\ StartUpRight /\ QuitRight
  BY ChildTypes, SupervisorAssumption, ServiceKinds, CareSplit DEF StartBackend
<1>1. Pending = {} /\ Pending' = {} /\ boot'.pc = "ready"
  BY <1>0 DEF Pending, StartUpRight
<1>2. Unreaped(Backend) = {}
  BY <1>0 DEF StartUpRight, Unreaped
<1>3. Calm' = Calm /\ \A t : Undisturbed(t)' => Undisturbed(t)
  BY <1>0 DEF Calm, Undisturbed
<1>4. StartUpRight'
  BY <1>1 DEF StartUpRight
<1>5. CASE Spawn(Backend, "boot")
  <2>1. CareRight'
    BY <1>0, <1>2, <1>3, <1>5, SpawnKeeps
  <2>2. \A t \in Supervised : handle'[t] = handle[t]
    <3>1. FlagsRight
      BY <1>0 DEF CareRight, ChildrenRight
    <3>2. \A t \in Services \ {Backend} : handle'[t] = handle[t]
      BY <1>0, <1>5, <3>1, SpawnAround
    <3>3. Supervised \subseteq Services \ {Backend}
      BY <1>0, ServiceKinds
    <3> QED BY <3>2, <3>3
  <2>3. QuitRight'
    BY <1>0, <1>3, <2>2, QuitStays
  <2> QED BY <1>4, <2>1, <2>3, CareSplitNext
<1>6. CASE UNCHANGED <<proc, handle>>
  <2>1. CareRight'
    BY <1>0, <1>3, <1>6, LullKeeps
  <2>2. QuitRight'
    BY <1>0, <1>3, <1>6, QuitStays
  <2> QED BY <1>4, <2>1, <2>2, CareSplitNext
<1> QED BY <1>0, <1>5, <1>6

\* The steps of the start-up that start nothing.
LEMMA BootKeeps ==
    ASSUME SupervisorInv, ChildrenInv, CleanupZombies \/ StartedNext \/ RegisterBackend
    PROVE  ChildrenInv'
<1>0. /\ managed \in [Services -> ManagedType] /\ LaunchersOK
      /\ boot \in [pc : {"cleanup", "next", "await", "backend", "ready"}, at : 1 .. Len(Order) + 1]
      /\ UNCHANGED <<globalStopped, flow, quit, restart, handle, waiting, proc>>
      /\ CareRight /\ StartUpRight /\ QuitRight
  BY ChildTypes, CareSplit DEF CleanupZombies, StartedNext, RegisterBackend
<1>1. Calm' = Calm /\ \A t : Undisturbed(t)' => Undisturbed(t)
  BY <1>0 DEF Calm, Undisturbed
<1>2. CareRight'
  BY <1>0, <1>1, LullKeeps
<1>3. /\ Pending' = Pending /\ boot.pc # "ready" /\ boot'.pc # "ready"
      /\ boot'.pc = "backend" => Pending = {}
      /\ \A t \in Pending : managed'[t].timer = managed[t].timer
      /\ \A t \in Supervised : /\ managed'[t].registered = managed[t].registered
                               /\ managed'[t].stopped = managed[t].stopped
  <2>1. CASE CleanupZombies
    BY <1>0, <2>1 DEF CleanupZombies, Pending
  <2>2. CASE StartedNext
    <3> DEFINE s == Order[boot.at]
    <3>1. boot.pc = "await" /\ boot.at \in 1 .. Len(Order) /\ boot' = [pc |-> "next", at |-> boot.at + 1]
      BY <1>0, <2>2, ServiceKinds DEF StartedNext, SupervisorInv, AwaitsRegistered
    <3>2. s \in Services
      BY <3>1, ServiceKinds
    <3>3. managed' = [managed EXCEPT ![s].running = TRUE, ![s].timer = TRUE]
      BY <2>2 DEF StartedNext
    <3>4. Pending' = Pending /\ s \notin Pending
      BY <3>1, OrderAssumption, ServiceKinds DEF Pending
    <3> HIDE DEF s
    <3>5. \A t \in Services : /\ managed'[t].registered = managed[t].registered
                              /\ managed'[t].stopped = managed[t].stopped
                              /\ t # s => managed'[t].timer = managed[t].timer
      BY <1>0, <3>2, <3>3 DEF ManagedType
    <3>6. Pending \subseteq Supervised /\ Supervised \subseteq Services
      BY PendingKinds, ServiceKinds
    <3>7. ASSUME NEW t \in Pending PROVE managed'[t].timer = managed[t].timer
      BY <3>4, <3>5, <3>6
    <3>8. ASSUME NEW t \in Supervised
          PROVE  /\ managed'[t].registered = managed[t].registered
                 /\ managed'[t].stopped = managed[t].stopped
      BY <3>5, <3>6
    <3> QED BY <3>1, <3>4, <3>7, <3>8
  <2>3. CASE RegisterBackend
    <3>1. Backend \notin Supervised
      BY SupervisorAssumption
    <3>2. \A t \in Supervised : managed'[t] = managed[t]
      BY <1>0, <2>3, <3>1, ServiceKinds DEF RegisterBackend
    <3>3. Pending' = Pending /\ boot.pc # "ready" /\ boot'.pc # "ready"
      BY <1>0, <2>3 DEF RegisterBackend, Pending
    <3>4. Pending = {}
      BY <2>3, ServiceKinds DEF RegisterBackend, Pending
    <3> QED BY <3>2, <3>3, <3>4, PendingKinds
  <2> QED BY <2>1, <2>2, <2>3
<1>4. StartUpRight'
  BY <1>0, <1>3 DEF StartUpRight, Spawned
<1>5. QuitRight'
  BY <1>0, <1>1, <1>3, QuitStays
<1> QED BY <1>2, <1>4, <1>5, CareSplitNext

(***************************************************************************)
(* The health loop.                                                        *)
(***************************************************************************)
LEMMA TickStoppedKeeps ==
    ASSUME SupervisorInv, ChildrenInv, NEW s \in Supervised, TickStopped(s) PROVE ChildrenInv'
<1>0. /\ managed \in [Services -> ManagedType] /\ LaunchersOK
      /\ UNCHANGED <<globalStopped, flow, boot, quit, restart, handle, waiting, proc>>
      /\ Supervised \subseteq Services /\ Pending \subseteq Supervised
      /\ CareRight /\ StartUpRight /\ QuitRight
  BY ChildTypes, ServiceKinds, PendingKinds, CareSplit DEF TickStopped
<1>1. \A t \in Supervised : /\ managed'[t].registered = managed[t].registered
                            /\ managed'[t].stopped = managed[t].stopped
                            /\ ~managed[t].timer => ~managed'[t].timer
  BY <1>0 DEF TickStopped, ManagedType
<1>2. Calm' = Calm /\ \A t : Undisturbed(t)' => Undisturbed(t)
  BY <1>0 DEF Calm, Undisturbed
<1>3. CareRight'
  BY <1>0, <1>2, LullKeeps
<1>4. StartUpRight'
  <2>1. Pending' = Pending
    BY <1>0 DEF Pending
  <2> QED BY <1>0, <1>1, <2>1 DEF StartUpRight, Spawned
<1>5. QuitRight'
  BY <1>0, <1>1, <1>2, QuitStays
<1> QED BY <1>3, <1>4, <1>5, CareSplitNext

\* A tick, a healthy check, the end of a restart: no stop or back-off begins or ends.
LEMMA TickKeeps ==
    ASSUME SupervisorInv, ChildrenInv, NEW s \in Supervised, NEW f \in Flows,
           Tick(s, f) \/ CheckHealthy(s, f) \/ Restarted(s, f)
    PROVE  ChildrenInv'
<1>0. /\ managed \in [Services -> ManagedType] /\ LaunchersOK
      /\ flow \in [Supervised -> [Flows -> FlowSteps]]
      /\ UNCHANGED <<globalStopped, boot, quit, restart, handle, waiting, proc>>
      /\ s \in Services /\ Supervised \subseteq Services /\ Pending \subseteq Supervised
      /\ CareRight /\ StartUpRight /\ QuitRight
  BY ChildTypes, ServiceKinds, PendingKinds, CareSplit DEF Tick, CheckHealthy, Restarted
<1>1. PICK step \in {"check", "idle"} : To(s, f, step) /\ flow[s][f] \notin {"stop", "sleep"}
  BY DEF Tick, CheckHealthy, Restarted
<1>2. /\ flow'[s][f] = step
      /\ \A g \in Flows \ {f} : flow'[s][g] = flow[s][g]
      /\ \A t \in Supervised \ {s} : flow'[t] = flow[t]
  BY <1>0, <1>1, TickMoves
<1>3. \A t \in Supervised : \A g \in Flows :
        /\ flow[t][g] = "stop" => flow'[t][g] = "stop"
        /\ flow'[t][g] \in {"stop", "sleep"} => flow[t][g] \in {"stop", "sleep"}
  BY <1>1, <1>2
<1>4. /\ \A t \in Services \ {s} : managed'[t] = managed[t]
      /\ managed'[s].registered = managed[s].registered /\ managed'[s].stopped = managed[s].stopped
  BY <1>0 DEF Tick, CheckHealthy, Restarted, ManagedType
<1>5. Calm' = Calm /\ \A t : Undisturbed(t)' => Undisturbed(t)
  BY <1>0 DEF Calm, Undisturbed
<1>6. CareRight'
  BY <1>0, <1>3, <1>5, LullKeeps
<1>7. StartUpRight'
  <2>1. s \notin Pending
    BY <1>0 DEF StartUpRight, Tick, CheckHealthy, Restarted
  <2>2. \A t \in Pending : managed'[t].timer = managed[t].timer /\ flow'[t] = flow[t]
    BY <1>0, <1>2, <1>4, <2>1
  <2> QED BY <1>0, <2>2, StartUpStays DEF Spawned
<1>8. QuitRight'
  BY <1>0, <1>4, <1>5, QuitStays
<1> QED BY <1>6, <1>7, <1>8, CareSplitNext

\* The stop of a restart returns: at a calm service its child has ended.
LEMMA StopReturnedKeeps ==
    ASSUME SupervisorInv, ChildrenInv, NEW s \in Supervised, NEW f \in Flows, StopReturned(s, f)
    PROVE  ChildrenInv'
<1>0. /\ LaunchersOK /\ flow \in [Supervised -> [Flows -> FlowSteps]]
      /\ UNCHANGED <<managed, globalStopped, boot, quit, restart, handle>>
      /\ flow[s][f] = "stop" /\ To(s, f, "sleep") /\ EndStop(HealthTask(s, f))
      /\ HealthTask(s, f) \in Tasks /\ Pending \subseteq Supervised
      /\ CareRight /\ StartUpRight /\ QuitRight
  BY ChildTypes, TaskKinds, PendingKinds, CareSplit DEF StopReturned
<1>1. Calm' = Calm /\ \A t : Undisturbed(t)' => Undisturbed(t)
  BY <1>0 DEF Calm, Undisturbed
<1>2. /\ ChildrenRight' /\ CrowdsRight'
      /\ \A t \in Calm : /\ Unreaped(t)' = Unreaped(t)
                         /\ \A p \in Unreaped(t) : /\ proc'[p].killed = proc[p].killed
                                                   /\ p # waiting[HealthTask(s, f)]
  BY <1>0, <1>1, StopEndKeeps
<1>3. /\ \A u \in Tasks : waiting'[u] = IF u = HealthTask(s, f) THEN NoProc ELSE waiting[u]
      /\ \A p \in Procs : Spawned(p)' => Spawned(p) /\ proc'[p].svc = proc[p].svc
  BY <1>0, StopEndEffect
<1>4. /\ flow'[s][f] = "sleep"
      /\ \A g \in Flows \ {f} : flow'[s][g] = flow[s][g]
      /\ \A t \in Supervised \ {s} : flow'[t] = flow[t]
  BY <1>0, TickMoves
<1>5. ASSUME NEW t \in Calm PROVE CalmAt(t)'
  <2>1. t \in Services /\ CalmAt(t)
    BY <1>0, CalmKinds DEF CareRight
  <2>2. ASSUME t \in Supervised PROVE Restarting(t)' \subseteq Restarting(t)
    <3>1. \A g \in Flows : flow'[t][g] = flow[t][g] \/ (t = s /\ g = f)
      BY <1>4, <2>2
    <3> QED BY <1>0, <3>1 DEF Restarting
  <2>3. ASSUME t \in Supervised, NEW p \in Unreaped(t), Awaited(t, p)
        PROVE  Awaited(t, p)'
    <3>1. PICK g \in Flows : flow[t][g] = "stop" /\ waiting[HealthTask(t, g)] = p
      BY <2>3 DEF Awaited
    <3>2. HealthTask(t, g) # HealthTask(s, f) /\ HealthTask(t, g) \in Tasks
      BY <1>2, <2>3, <3>1, TaskKinds
    <3>3. t # s \/ g # f
      BY <3>2
    <3>4. flow'[t][g] = "stop" /\ waiting'[HealthTask(t, g)] = p
      BY <1>3, <1>4, <2>3, <3>1, <3>2, <3>3
    <3> QED BY <3>4 DEF Awaited, HealthTask
  <2> QED BY <1>0, <1>2, <2>1, <2>2, <2>3, CalmStays
<1>6. CareRight'
  BY <1>1, <1>2, <1>5 DEF CareRight
<1>7. StartUpRight'
  <2>1. s \notin Pending
    BY <1>0 DEF StartUpRight
  <2> QED BY <1>0, <1>3, <1>4, <2>1, StartUpStays
<1>8. QuitRight'
  BY <1>0, <1>1, QuitStays
<1> QED BY <1>6, <1>7, <1>8, CareSplitNext

\* A failing check begins a restart: its stop takes the child out of the handle
\* and, at a calm service, waits for it.
LEMMA CheckKeeps ==
    ASSUME SupervisorInv, ChildrenInv, NEW s \in Supervised, NEW f \in Flows, CheckUnhealthy(s, f)
    PROVE  ChildrenInv'
<1>0. /\ managed \in [Services -> ManagedType] /\ LaunchersOK
      /\ flow \in [Supervised -> [Flows -> FlowSteps]]
      /\ UNCHANGED <<globalStopped, boot, quit, restart>>
      /\ flow[s][f] = "check"
      /\ s \in Services /\ Supervised \subseteq Services /\ Pending \subseteq Supervised
      /\ CareRight /\ StartUpRight /\ QuitRight
  BY ChildTypes, ServiceKinds, PendingKinds, CareSplit DEF CheckUnhealthy
<1>1. s \notin Pending
  BY <1>0 DEF StartUpRight
<1>2. s \in Calm => Restarting(s) = {}
  BY DEF CheckUnhealthy, Restarting, Calm
<1>3. Calm' = Calm /\ \A t : Undisturbed(t)' => Undisturbed(t)
  BY <1>0 DEF Calm, Undisturbed
<1>4. PICK step \in {"idle", "stop"} :
          /\ To(s, f, step)
          /\ step = "stop" => (BeginStop({HealthTask(s, f)}) /\ ~globalStopped)
          /\ step = "idle" => UNCHANGED <<handle, waiting, proc>>
  BY DEF CheckUnhealthy
<1>5. /\ flow'[s][f] = step
      /\ \A g \in Flows \ {f} : flow'[s][g] = flow[s][g]
      /\ \A t \in Supervised \ {s} : flow'[t] = flow[t]
  BY <1>0, <1>4, TickMoves
<1>6. /\ \A t \in Services \ {s} : managed'[t] = managed[t]
      /\ managed'[s].registered = managed[s].registered
      /\ managed'[s].stopped => managed[s].stopped \/ ~globalStopped
  BY <1>0 DEF CheckUnhealthy, ManagedType
<1>7. quit # "no" <=> globalStopped
  BY <1>0 DEF QuitRight
<1>8. CASE step = "idle"
  <2>1. CareRight'
    BY <1>0, <1>3, <1>4, <1>5, <1>8, LullKeeps
  <2>2. StartUpRight'
    BY <1>0, <1>1, <1>4, <1>5, <1>6, <1>8, StartUpStays DEF Spawned
  <2>3. QuitRight'
    BY <1>0, <1>3, <1>4, <1>6, <1>7, <1>8, QuitStays
  <2> QED BY <2>1, <2>2, <2>3, CareSplitNext
<1>9. CASE step = "stop"
  <2> DEFINE task == HealthTask(s, f)
  <2>0. task \in Tasks /\ task[1] = s /\ {task} \in SUBSET Tasks /\ BeginStop({task}) /\ ~globalStopped
    BY <1>4, <1>9, TaskKinds
  <2> HIDE DEF task
  <2>1. ChildrenRight' /\ CrowdsRight'
    BY <1>0, <1>3, <2>0, StopKeepsCrowds
  <2>2. HandlesHold
    BY <1>0 DEF CareRight, ChildrenRight
  <2>3. /\ \A t \in Services : handle'[t] \in {handle[t], NoProc}
        /\ \A p \in Procs : Spawned(p)' => Spawned(p) /\ proc'[p].svc = proc[p].svc
        /\ \A t : Unreaped(t)' = Unreaped(t)
    BY <1>0, <2>0, <2>2, StopEffect
  <2>4. ASSUME s \in Calm PROVE CalmAt(s)'
    <3>1. /\ SignalsAt(s)' /\ handle'[s] = NoProc
          /\ \A p \in Unreaped(s) : handle[s] = p => waiting'[task] = p
      BY <1>0, <2>0, <2>4, StopOfCalm
    <3>2. Restarting(s)' = {f}
      BY <1>2, <1>5, <1>9, <2>4 DEF Restarting
    <3>3. ASSUME NEW p \in Unreaped(s) PROVE Awaited(s, p)'
      <4>1. RestartsAt(s)
        BY <1>0, <2>4 DEF CareRight, CalmAt
      <4>2. handle[s] = p
        BY <1>2, <2>0, <2>4, <4>1 DEF RestartsAt, Awaited, Restarting
      <4>3. flow'[s][f] = "stop" /\ waiting'[HealthTask(s, f)] = p
        BY <1>5, <1>9, <3>1, <4>2 DEF task
      <4> QED BY <4>3 DEF Awaited, HealthTask
    <3>4. RestartsAt(s)'
      BY <2>3, <3>1, <3>2, <3>3 DEF RestartsAt
    <3> QED BY <3>1, <3>4 DEF CalmAt
  <2>5. ASSUME NEW t \in Calm, t # s PROVE CalmAt(t)'
    <3>1. /\ handle'[t] = handle[t] /\ Unreaped(t)' = Unreaped(t)
          /\ \A p \in Unreaped(t) : proc'[p].killed = proc[p].killed
          /\ t \in Supervised => \A g \in Flows : waiting'[HealthTask(t, g)] = waiting[HealthTask(t, g)]
      BY <1>0, <2>0, <2>5, StopElsewhere
    <3>2. t \in Supervised => /\ Restarting(t)' = Restarting(t)
                              /\ \A q : Awaited(t, q) => Awaited(t, q)'
      BY <1>5, <2>5, <3>1 DEF Restarting, Awaited, HealthTask
    <3>3. t \in Services /\ CalmAt(t)
      BY <1>0, CalmKinds DEF CareRight
    <3> QED BY <1>0, <3>1, <3>2, <3>3, CalmStays
  <2>6. CareRight'
    BY <1>3, <2>1, <2>4, <2>5 DEF CareRight
  <2>7. StartUpRight'
    BY <1>0, <1>1, <1>5, <1>6, <2>3, StartUpStays
  <2>8. QuitRight'
    BY <1>0, <1>3, <1>6, <1>7, <2>0, QuitStays
  <2> QED BY <2>6, <2>7, <2>8, CareSplitNext
<1> QED BY <1>8, <1>9

\* After the back-off the service is started again, if it is still wanted: the
\* child of a calm one has ended.
LEMMA WakeKeeps ==
    ASSUME SupervisorInv, ChildrenInv, NEW s \in Supervised, NEW f \in Flows, Wake(s, f)
    PROVE  ChildrenInv'
<1>0. /\ managed \in [Services -> ManagedType] /\ LaunchersOK
      /\ flow \in [Supervised -> [Flows -> FlowSteps]]
      /\ UNCHANGED <<globalStopped, boot, quit, restart, waiting>>
      /\ flow[s][f] = "sleep" /\ f \in Restarting(s)
      /\ s \in Services /\ Supervised \subseteq Services /\ s # Backend /\ Pending \subseteq Supervised
      /\ CareRight /\ StartUpRight /\ QuitRight
  BY ChildTypes, ServiceKinds, PendingKinds, SupervisorAssumption, CareSplit DEF Wake, Restarting
<1>1. s \notin Pending
  BY <1>0 DEF StartUpRight
<1>2. Calm' = Calm /\ \A t : Undisturbed(t)' => Undisturbed(t)
  BY <1>0 DEF Calm, Undisturbed
<1>3. PICK step \in {"idle", "start"} : To(s, f, step)
  BY DEF Wake
<1>4. /\ flow'[s][f] = step
      /\ \A g \in Flows \ {f} : flow'[s][g] = flow[s][g]
      /\ \A t \in Supervised \ {s} : flow'[t] = flow[t]
  BY <1>0, <1>3, TickMoves
<1>5. /\ \A t \in Services \ {s} : managed'[t] = managed[t]
      /\ managed'[s].registered = managed[s].registered /\ managed'[s].stopped = managed[s].stopped
  BY <1>0 DEF Wake, ManagedType
<1>6. CASE MayRestart(s) /\ Spawn(s, "flow")
  <2>1. ~globalStopped
    BY <1>6 DEF MayRestart
  <2>2. ASSUME s \in Calm PROVE Unreaped(s) = {} /\ Restarting(s)' = {}
    <3>1. RestartsAt(s)
      BY <1>0, <2>2 DEF CareRight, CalmAt
    <3>2. Restarting(s) = {f} /\ handle[s] = NoProc
      BY <1>0, <3>1 DEF RestartsAt
    <3>3. \A p \in Unreaped(s) : p # NoProc /\ ~Awaited(s, p)
      BY <1>0, <3>2, SupervisorAssumption DEF Awaited, Restarting, Unreaped
    <3>4. Unreaped(s) = {}
      BY <2>1, <3>1, <3>2, <3>3 DEF RestartsAt
    <3>5. Restarting(s)' = {}
      BY <1>4, <3>2 DEF Restarting
    <3> QED BY <3>4, <3>5
  <2>3. CareRight'
    BY <1>0, <1>2, <1>4, <1>6, <2>2, SpawnKeeps
  <2>4. /\ \A t \in Services \ {s} : handle'[t] = handle[t]
        /\ \A q \in Procs : Spawned(q)' => proc'[q].svc = s \/ (Spawned(q) /\ proc'[q] = proc[q])
    <3>1. FlagsRight
      BY <1>0 DEF CareRight, ChildrenRight
    <3> QED BY <1>0, <1>6, <3>1, SpawnAround
  <2>5. StartUpRight'
    BY <1>0, <1>1, <1>4, <1>5, <2>4, StartUpStays
  <2>6. QuitRight'
    <3>1. quit = "no"
      BY <1>0, <2>1 DEF QuitRight
    <3> QED BY <1>0, <1>2, <1>5, <3>1, QuitStays
  <2> QED BY <2>3, <2>5, <2>6, CareSplitNext
<1>7. CASE UNCHANGED <<proc, handle>>
  <2>1. CareRight'
    BY <1>0, <1>2, <1>4, <1>7, LullKeeps
  <2>2. StartUpRight'
    BY <1>0, <1>1, <1>4, <1>5, <1>7, StartUpStays DEF Spawned
  <2>3. QuitRight'
    BY <1>0, <1>2, <1>5, <1>7, QuitStays
  <2> QED BY <2>1, <2>2, <2>3, CareSplitNext
<1> QED BY <1>6, <1>7 DEF Wake, TryStart

(***************************************************************************)
(* The settings events: the sidecar is calm no more once one has begun.    *)
(***************************************************************************)
LEMMA SettingsKeep == ASSUME SupervisorInv, ChildrenInv, Settings PROVE ChildrenInv'
<1>0. /\ LaunchersOK /\ restart \in [Events -> {"idle", "stop", "start", "done"}]
      /\ UNCHANGED <<managed, globalStopped, flow, boot, quit>>
      /\ Sidecar \in Services /\ Sidecar \in Supervised /\ Supervised \subseteq Services
      /\ boot \in [pc : {"cleanup", "next", "await", "backend", "ready"}, at : 1 .. Len(Order) + 1]
      /\ CareRight /\ StartUpRight /\ QuitRight
  BY ChildTypes, ServiceKinds, SupervisorAssumption, CareSplit
     DEF Settings, SettingsEvent, SettingsSpawn, SettingsDone, supervisorVars
<1>1. Calm' \subseteq Calm /\ \A t : Undisturbed(t)' => Undisturbed(t)
  BY <1>0, CalmShrinks
<1>2. PICK e \in Events : SettingsEvent(e) \/ SettingsSpawn(e) \/ SettingsDone(e)
  BY DEF Settings
<1>3. restart'[e] # "idle"
  BY <1>0, <1>2 DEF SettingsEvent, SettingsSpawn, SettingsDone
<1>4. ~Undisturbed(Sidecar)' /\ Sidecar \notin Calm'
  BY <1>3 DEF Undisturbed, Calm
<1>5. boot.pc = "ready" /\ Pending = {} /\ Pending' = {}
  <2>1. boot.pc = "ready"
    <3>1. CASE SettingsEvent(e)
      BY <1>0, <3>1 DEF SettingsEvent, StartUpRight, Unreaped
    <3>2. CASE SettingsSpawn(e) \/ SettingsDone(e)
      BY <1>0, <3>2 DEF SettingsSpawn, SettingsDone, StartUpRight
    <3> QED BY <1>2, <3>1, <3>2
  <2>2. Pending' = Pending
    BY <1>0 DEF Pending
  <2> QED BY <1>0, <2>1, <2>2 DEF StartUpRight
<1>6. StartUpRight'
  BY <1>0, <1>5 DEF StartUpRight
<1>7. ASSUME \A t \in Services \ {Sidecar} : handle'[t] \in {handle[t], NoProc}
      PROVE  QuitRight'
  BY <1>0, <1>1, <1>4, <1>7, QuitStays
<1>8. CASE SettingsEvent(e)
  <2> DEFINE task == SettingsTask(e)
  <2>0. task \in Tasks /\ task[1] = Sidecar /\ {task} \in SUBSET Tasks /\ BeginStop({task})
    BY <1>8, TaskKinds DEF SettingsEvent
  <2> HIDE DEF task
  <2>1. ChildrenRight' /\ CrowdsRight'
    BY <1>0, <1>1, <2>0, StopKeepsCrowds
  <2>2. ASSUME NEW t \in Calm' PROVE CalmAt(t)'
    <3>0. t \in Calm /\ t \in Services /\ CalmAt(t) /\ t # Sidecar
      BY <1>0, <1>1, <1>4, <2>2, CalmKinds DEF CareRight
    <3>1. /\ handle'[t] = handle[t] /\ Unreaped(t)' = Unreaped(t)
          /\ \A p \in Unreaped(t) : proc'[p].killed = proc[p].killed
          /\ t \in Supervised => \A g \in Flows : waiting'[HealthTask(t, g)] = waiting[HealthTask(t, g)]
      BY <1>0, <2>0, <3>0, StopElsewhere
    <3>2. t \in Supervised => /\ Restarting(t)' = Restarting(t)
                              /\ \A q : Awaited(t, q) => Awaited(t, q)'
      BY <1>0, <3>1 DEF Restarting, Awaited, HealthTask
    <3> QED BY <1>0, <3>0, <3>1, <3>2, CalmStays
  <2>3. \A t \in Services \ {Sidecar} : handle'[t] = handle[t]
    <3>1. HandlesHold
      BY <1>0 DEF CareRight, ChildrenRight
    <3> QED BY <1>0, <2>0, <3>1, StopEffect
  <2> QED BY <1>6, <1>7, <2>1, <2>2, <2>3, CareSplitNext DEF CareRight
<1>9. CASE SettingsSpawn(e)
  <2>0. /\ TryStart(Sidecar, "settings")
        /\ waiting' = [waiting EXCEPT ![SettingsTask(e)] = NoProc]
    BY <1>9 DEF SettingsSpawn
  <2>1. \A u \in Tasks : waiting'[u] \in {waiting[u], NoProc}
    BY <1>0, <2>0 DEF LaunchersOK
  <2>2. \A t \in Supervised \ {Sidecar}, f \in Flows : waiting'[HealthTask(t, f)] = waiting[HealthTask(t, f)]
    <3>1. \A t \in Supervised \ {Sidecar}, f \in Flows :
             HealthTask(t, f) # SettingsTask(e) /\ HealthTask(t, f) \in Tasks
      BY TaskKinds
    <3> QED BY <1>0, <2>0, <3>1 DEF LaunchersOK
  <2>3. CASE Sidecar \in Installed
    <3>1. Spawn(Sidecar, "settings")
      BY <2>0, <2>3 DEF TryStart
    <3>2. CareRight'
      BY <1>0, <1>1, <1>4, <2>1, <2>2, <3>1, SpawnKeeps
    <3>3. FlagsRight
      BY <1>0 DEF CareRight, ChildrenRight
    <3>4. \A t \in Services \ {Sidecar} : handle'[t] = handle[t]
      BY <1>0, <3>1, <3>3, SpawnAround
    <3> QED BY <1>6, <1>7, <3>2, <3>4, CareSplitNext
  <2>4. CASE Sidecar \notin Installed
    <3>1. UNCHANGED <<proc, handle>>
      BY <2>0, <2>4 DEF TryStart
    <3>2. /\ \A t : Unreaped(t)' = Unreaped(t)
          /\ \A t : Crowded(t)' <=> Crowded(t)
          /\ \A p : Spawned(p)' <=> Spawned(p)
      BY <3>1 DEF Unreaped, Spawned, Crowded
    <3>3. ChildrenRight'
      <4>1. FlagsRight' /\ HandlesHold' /\ HandlesKnow' /\ CrowdsKnown'
        BY <1>0, <3>1 DEF CareRight, ChildrenRight, FlagsRight, HandlesHold, HandlesKnow, CrowdsKnown,
                          Unreaped, Spawned, Crowded
      <4>2. WaitsRight'
        BY <1>0, <2>1, <3>1, <3>2 DEF CareRight, ChildrenRight, WaitsRight, Spawned
      <4> QED BY <4>1, <4>2 DEF ChildrenRight
    <3>4. CrowdsRight'
      BY <1>0, <1>1, <3>1, CrowdsStay DEF CareRight
    <3>5. ASSUME NEW t \in Calm' PROVE CalmAt(t)'
      <4>1. t \in Calm /\ t \in Services /\ CalmAt(t) /\ t # Sidecar
        BY <1>0, <1>1, <1>4, <3>5, CalmKinds DEF CareRight
      <4>2. t \in Supervised => /\ Restarting(t)' = Restarting(t)
                                /\ \A q : Awaited(t, q) => Awaited(t, q)'
        BY <1>0, <2>2, <4>1 DEF Restarting, Awaited, HealthTask
      <4> QED BY <1>0, <3>1, <3>2, <4>1, <4>2, CalmStays
    <3>6. CareRight'
      BY <3>3, <3>4, <3>5 DEF CareRight
    <3> QED BY <1>6, <1>7, <3>1, <3>6, CareSplitNext
  <2> QED BY <2>3, <2>4
<1>10. CASE SettingsDone(e)
  <2>1. UNCHANGED <<proc, handle, waiting>>
    BY <1>10 DEF SettingsDone
  <2>2. CareRight'
    BY <1>0, <1>1, <2>1, LullKeeps
  <2> QED BY <1>6, <1>7, <2>1, <2>2, CareSplitNext
<1> QED BY <1>2, <1>8, <1>9, <1>10

(***************************************************************************)
(* The quit.                                                               *)
(***************************************************************************)

\* stopAll empties every registered service's handle in one turn, and nothing
\* is restarted after it.
LEMMA StopAllKeeps == ASSUME SupervisorInv, ChildrenInv, StopAll PROVE ChildrenInv'
<1> DEFINE tasks == {QuitTask(s) : s \in Registered}
<1>0. /\ managed \in [Services -> ManagedType] /\ LaunchersOK
      /\ BeginStop(tasks) /\ UNCHANGED <<flow, boot, restart>>
      /\ globalStopped' = TRUE /\ quit' = "stopping"
      /\ Supervised \subseteq Services /\ Pending \subseteq Supervised
      /\ CareRight /\ StartUpRight /\ QuitRight
  BY ChildTypes, ServiceKinds, PendingKinds, CareSplit DEF StopAll
<1>1. tasks \in SUBSET Tasks
  BY DEF Registered, Tasks
<1>2. ASSUME NEW s \in Supervised PROVE \E t \in tasks : t[1] = s
  <2>1. QuitTask(s) \in tasks
    BY <1>0 DEF QuitRight, Registered
  <2> QED BY <2>1 DEF QuitTask
<1> HIDE DEF tasks
<1>3. Calm' = Calm /\ \A t : Undisturbed(t)' => Undisturbed(t)
  BY <1>0 DEF Calm, Undisturbed
<1>4. ChildrenRight' /\ CrowdsRight'
  BY <1>0, <1>1, <1>3, StopKeepsCrowds
<1>5. HandlesHold
  BY <1>0 DEF CareRight, ChildrenRight
<1>6. /\ \A s \in Services : handle'[s] = IF \E t \in tasks : t[1] = s THEN NoProc ELSE handle[s]
      /\ \A p \in Procs : Spawned(p)' => Spawned(p) /\ proc'[p].svc = proc[p].svc
  BY <1>0, <1>1, <1>5, StopEffect
<1>7. \A s \in Supervised : handle'[s] = NoProc
  BY <1>0, <1>2, <1>6
<1>8. ASSUME NEW s \in Calm PROVE CalmAt(s)'
  <2>0. s \in Services /\ CalmAt(s)
    BY <1>0, CalmKinds DEF CareRight
  <2>1. CASE \E t \in tasks : t[1] = s
    <3>1. SignalsAt(s)' /\ handle'[s] = NoProc
      BY <1>0, <1>1, <2>1, StopOfCalm
    <3>2. s \in Supervised => RestartsAt(s)'
      BY <1>0, <2>0, <3>1 DEF CalmAt, RestartsAt, Restarting
    <3> QED BY <3>1, <3>2 DEF CalmAt
  <2>2. CASE ~\E t \in tasks : t[1] = s
    <3>1. s \notin Supervised
      BY <1>2, <2>2
    <3>2. /\ handle'[s] = handle[s] /\ Unreaped(s)' = Unreaped(s)
          /\ \A p \in Unreaped(s) : proc'[p].killed = proc[p].killed
      BY <1>0, <1>1, <2>2, StopElsewhere
    <3> QED BY <2>0, <3>1, <3>2, CalmStays
  <2> QED BY <2>1, <2>2
<1>9. CareRight'
  BY <1>3, <1>4, <1>8 DEF CareRight
<1>10. \A s \in Supervised : /\ managed'[s].registered = managed[s].registered
                             /\ ~managed'[s].timer
  BY <1>0 DEF StopAll, QuitRight, Registered, ManagedType
<1>11. StartUpRight'
  <2>1. Pending' = Pending
    BY <1>0 DEF Pending
  <2> QED BY <1>0, <1>6, <1>10, <2>1 DEF StartUpRight
<1>12. QuitRight'
  BY <1>0, <1>7, <1>10 DEF QuitRight
<1> QED BY <1>9, <1>11, <1>12, CareSplitNext

\* A stop of the quit has returned, or all have and the shell exits.
LEMMA QuitKeeps ==
    ASSUME SupervisorInv, ChildrenInv, Exit \/ \E s \in Services : StoppedOne(s)
    PROVE  ChildrenInv'
<1>0. /\ LaunchersOK /\ CareRight /\ StartUpRight /\ QuitRight
      /\ UNCHANGED <<managed, globalStopped, flow, boot, restart, handle>>
      /\ quit # "no" /\ quit' # "no" /\ globalStopped
  BY ChildTypes, CareSplit DEF Exit, StoppedOne, supervisorVars, QuitRight
<1>1. Calm' = Calm /\ \A t : Undisturbed(t)' <=> Undisturbed(t)
  BY <1>0 DEF Calm, Undisturbed
<1>2. QuitRight'
  BY <1>0, <1>1 DEF QuitRight
<1>3. CASE Exit
  <2>1. CareRight'
    BY <1>0, <1>1, <1>3, LullKeeps DEF Exit
  <2>2. StartUpRight'
    BY <1>0, <1>3, StartUpStays DEF Exit, Spawned
  <2> QED BY <1>2, <2>1, <2>2, CareSplitNext
<1>4. ASSUME NEW s \in Services, StoppedOne(s) PROVE ChildrenInv'
  <2>0. QuitTask(s) \in Tasks /\ EndStop(QuitTask(s))
    BY <1>4, TaskKinds DEF StoppedOne
  <2>1. /\ ChildrenRight' /\ CrowdsRight'
        /\ \A t \in Calm : /\ Unreaped(t)' = Unreaped(t)
                           /\ \A p \in Unreaped(t) : proc'[p].killed = proc[p].killed
    BY <1>0, <1>1, <2>0, StopEndKeeps
  <2>2. \A p \in Procs : Spawned(p)' => Spawned(p) /\ proc'[p].svc = proc[p].svc
    BY <1>0, <2>0, StopEndEffect
  <2>3. ASSUME NEW t \in Calm PROVE CalmAt(t)'
    <3>1. t \in Services /\ CalmAt(t)
      BY <1>0, CalmKinds DEF CareRight
    <3>2. t \in Supervised => Restarting(t)' = Restarting(t)
      BY <1>0 DEF Restarting
    <3> QED BY <1>0, <2>1, <3>1, <3>2, CalmStays
  <2>4. CareRight'
    BY <1>1, <2>1, <2>3 DEF CareRight
  <2>5. StartUpRight'
    BY <1>0, <2>2, StartUpStays
  <2> QED BY <1>2, <2>4, <2>5, CareSplitNext
<1> QED BY <1>3, <1>4

(***************************************************************************)
(* The children themselves.                                                *)
(***************************************************************************)
LEMMA DieKeeps == ASSUME SupervisorInv, ChildrenInv, NEW p \in Procs, Die(p) PROVE ChildrenInv'
<1>0. /\ LaunchersOK /\ UNCHANGED <<managed, globalStopped, flow, boot, quit, restart, handle, waiting>>
      /\ proc[p].alive /\ proc' = [proc EXCEPT ![p].alive = FALSE]
      /\ CareRight /\ StartUpRight /\ QuitRight
  BY ChildTypes, CareSplit DEF Die, supervisorVars
<1>1. \A q \in Procs : /\ proc'[q].by = proc[q].by /\ proc'[q].svc = proc[q].svc
                       /\ proc'[q].killed = proc[q].killed /\ proc'[q].reaped = proc[q].reaped
                       /\ proc'[q].told = proc[q].told /\ proc'[q].crowded = proc[q].crowded
                       /\ proc'[q].alive => proc[q].alive
  BY <1>0 DEF LaunchersOK, ProcType
<1>2. /\ \A q \in Procs : Spawned(q)' <=> Spawned(q)
      /\ \A t : Unreaped(t)' = Unreaped(t) /\ (Crowded(t)' <=> Crowded(t))
  BY <1>1 DEF Spawned, Unreaped, Crowded
<1>3. Calm' = Calm /\ \A t : Undisturbed(t)' => Undisturbed(t)
  BY <1>0 DEF Calm, Undisturbed
<1>4. ChildrenRight'
  <2>0. FlagsRight /\ HandlesHold /\ HandlesKnow /\ CrowdsKnown /\ WaitsRight
    BY <1>0 DEF CareRight, ChildrenRight
  <2>1. FlagsRight'
    <3> SUFFICES ASSUME NEW q \in Procs
                 PROVE  /\ ~Spawned(q)' => /\ ~proc'[q].alive /\ ~proc'[q].told /\ ~proc'[q].killed
                                           /\ ~proc'[q].reaped /\ ~proc'[q].crowded
                        /\ proc'[q].reaped => ~proc'[q].alive
                        /\ proc'[q].killed => proc'[q].told
      BY DEF FlagsRight, Spawned
    <3> QED BY <1>1, <1>2, <2>0 DEF FlagsRight
  <2>2. HandlesHold' /\ CrowdsKnown'
    BY <1>0, <1>2, <2>0 DEF HandlesHold, CrowdsKnown
  <2>3. HandlesKnow'
    <3> SUFFICES ASSUME NEW s \in Services, NEW q \in Unreaped(s)
                 PROVE  handle[s] = q \/ proc'[q].told \/ Crowded(s)'
      BY <1>0, <1>2 DEF HandlesKnow
    <3>1. q \in Procs
      BY DEF Unreaped
    <3> QED BY <1>1, <1>2, <2>0, <3>1 DEF HandlesKnow
  <2>4. WaitsRight'
    <3> SUFFICES ASSUME NEW u \in Tasks, waiting[u] # NoProc
                 PROVE  /\ Spawned(waiting[u])' /\ proc'[waiting[u]].svc = u[1]
                        /\ proc'[waiting[u]].told
      BY <1>0 DEF WaitsRight, Spawned
    <3>1. waiting[u] \in Procs
      BY <1>0 DEF LaunchersOK
    <3>2. Spawned(waiting[u]) /\ proc[waiting[u]].svc = u[1] /\ proc[waiting[u]].told
      BY <2>0 DEF WaitsRight
    <3> QED BY <1>0, <1>1, <3>1, <3>2 DEF Spawned
  <2> QED BY <2>1, <2>2, <2>3, <2>4 DEF ChildrenRight
<1>5. CrowdsRight'
  BY <1>0, <1>1, <1>3, CrowdsStay DEF CareRight
<1>6. ASSUME NEW t \in Calm PROVE CalmAt(t)'
  <2>1. t \in Services /\ CalmAt(t)
    BY <1>0, CalmKinds DEF CareRight
  <2>2. \A q \in Unreaped(t) : proc'[q].killed = proc[q].killed
    BY <1>1 DEF Unreaped
  <2>3. t \in Supervised => /\ Restarting(t)' = Restarting(t)
                            /\ \A q : Awaited(t, q) => Awaited(t, q)'
    BY <1>0 DEF Restarting, Awaited, HealthTask
  <2> QED BY <1>0, <1>2, <2>1, <2>2, <2>3, CalmStays
<1>7. CareRight'
  BY <1>3, <1>4, <1>5, <1>6 DEF CareRight
<1>8. StartUpRight'
  BY <1>0, <1>1, <1>2, StartUpStays
<1>9. QuitRight'
  BY <1>0, <1>3, QuitStays
<1> QED BY <1>7, <1>8, <1>9, CareSplitNext

\* The exit event clears the handle of its service, whatever it holds: at a calm
\* service this child or none.
LEMMA ExitEventKeeps ==
    ASSUME SupervisorInv, ChildrenInv, NEW p \in Procs, ExitEvent(p) PROVE ChildrenInv'
<1>0. /\ LaunchersOK /\ UNCHANGED <<managed, globalStopped, flow, boot, quit, restart, waiting>>
      /\ Spawned(p) /\ ~proc[p].alive /\ ~proc[p].reaped
      /\ proc' = [proc EXCEPT ![p].reaped = TRUE]
      /\ handle' = [handle EXCEPT ![proc[p].svc] = NoProc]
      /\ NoProc \notin Procs /\ Supervised \subseteq Services
      /\ CareRight /\ StartUpRight /\ QuitRight
  BY ChildTypes, SupervisorAssumption, ServiceKinds, CareSplit DEF ExitEvent, supervisorVars
<1>1. /\ \A q \in Procs : /\ proc'[q].by = proc[q].by /\ proc'[q].svc = proc[q].svc
                          /\ proc'[q].killed = proc[q].killed /\ proc'[q].alive = proc[q].alive
                          /\ proc'[q].told = proc[q].told /\ proc'[q].crowded = proc[q].crowded
      /\ proc'[p].reaped
      /\ \A q \in Procs \ {p} : proc'[q].reaped = proc[q].reaped
  BY <1>0 DEF LaunchersOK, ProcType
<1>2. PICK c \in Services : c = proc[p].svc
  BY <1>0 DEF LaunchersOK, ProcType
<1>3. /\ \A q \in Procs : Spawned(q)' <=> Spawned(q)
      /\ \A t : Crowded(t)' <=> Crowded(t)
      /\ \A t : Unreaped(t)' = Unreaped(t) \ {p}
      /\ p \in Unreaped(c)
  BY <1>0, <1>1, <1>2 DEF Spawned, Unreaped, Crowded
<1>4. handle'[c] = NoProc /\ \A s \in Services \ {c} : handle'[s] = handle[s]
  BY <1>0, <1>2 DEF LaunchersOK
<1>5. Calm' = Calm /\ \A t : Undisturbed(t)' => Undisturbed(t)
  BY <1>0 DEF Calm, Undisturbed
<1>6. FlagsRight /\ HandlesHold /\ HandlesKnow /\ CrowdsKnown /\ WaitsRight /\ ChildrenRight
  BY <1>0 DEF CareRight, ChildrenRight
<1>7. \A s \in Services \ {c} : p \notin Unreaped(s)
  BY <1>2 DEF Unreaped
<1>8. ChildrenRight'
  <2>1. FlagsRight'
    <3> SUFFICES ASSUME NEW q \in Procs
                 PROVE  /\ ~Spawned(q)' => /\ ~proc'[q].alive /\ ~proc'[q].told /\ ~proc'[q].killed
                                           /\ ~proc'[q].reaped /\ ~proc'[q].crowded
                        /\ proc'[q].reaped => ~proc'[q].alive
                        /\ proc'[q].killed => proc'[q].told
      BY DEF FlagsRight, Spawned
    <3>1. CASE q = p
      BY <1>0, <1>1, <1>3, <1>6, <3>1 DEF FlagsRight
    <3>2. CASE q # p
      BY <1>1, <1>3, <1>6, <3>2 DEF FlagsRight
    <3> QED BY <3>1, <3>2
  <2>2. HandlesHold'
    BY <1>3, <1>4, <1>6, <1>7 DEF HandlesHold
  <2>3. HandlesKnow'
    <3> SUFFICES ASSUME NEW s \in Services, NEW q \in Unreaped(s), q # p
                 PROVE  handle'[s] = q \/ proc'[q].told \/ Crowded(s)'
      BY <1>3 DEF HandlesKnow
    <3>1. q \in Procs
      BY DEF Unreaped
    <3>2. CASE s = c
      BY <1>3, <1>6, <3>2 DEF CrowdsKnown
    <3>3. CASE s # c
      BY <1>1, <1>3, <1>4, <1>6, <3>1, <3>3 DEF HandlesKnow
    <3> QED BY <3>2, <3>3
  <2>4. CrowdsKnown'
    BY <1>3, <1>6 DEF CrowdsKnown
  <2>5. WaitsRight'
    <3> SUFFICES ASSUME NEW u \in Tasks, waiting[u] # NoProc
                 PROVE  /\ Spawned(waiting[u])' /\ proc'[waiting[u]].svc = u[1]
                        /\ proc'[waiting[u]].told
      BY <1>0 DEF WaitsRight, Spawned
    <3>1. waiting[u] \in Procs
      BY <1>0 DEF LaunchersOK
    <3>2. Spawned(waiting[u]) /\ proc[waiting[u]].svc = u[1] /\ proc[waiting[u]].told
      BY <1>6 DEF WaitsRight
    <3> QED BY <1>0, <1>1, <3>1, <3>2 DEF Spawned
  <2> QED BY <2>1, <2>2, <2>3, <2>4, <2>5 DEF ChildrenRight
<1>9. CrowdsRight'
  BY <1>0, <1>1, <1>5, CrowdsStay DEF CareRight
<1>10. ASSUME NEW t \in Calm PROVE CalmAt(t)'
  <2>0. t \in Services /\ CalmAt(t)
    BY <1>0, CalmKinds DEF CareRight
  <2>1. CASE t = c
    <3>1. Unreaped(t)' = {}
      <4>1. \A q \in Unreaped(c) : q = p
        BY <1>0, <1>3, <1>6, <1>10, <2>1, CalmAlone DEF CareRight
      <4> QED BY <1>3, <2>1, <4>1
    <3>2. SignalsAt(t)'
      BY <3>1 DEF SignalsAt
    <3>3. t \in Supervised => RestartsAt(t)'
      BY <1>0, <1>4, <2>0, <2>1, <3>1 DEF CalmAt, RestartsAt, Restarting
    <3> QED BY <3>2, <3>3 DEF CalmAt
  <2>2. CASE t # c
    <3>1. handle'[t] = handle[t] /\ Unreaped(t)' = Unreaped(t)
      BY <1>3, <1>4, <1>7, <2>0, <2>2
    <3>2. \A q \in Unreaped(t) : proc'[q].killed = proc[q].killed
      BY <1>1 DEF Unreaped
    <3>3. t \in Supervised => /\ Restarting(t)' = Restarting(t)
                              /\ \A q : Awaited(t, q) => Awaited(t, q)'
      BY <1>0 DEF Restarting, Awaited, HealthTask
    <3> QED BY <1>0, <2>0, <3>1, <3>2, <3>3, CalmStays
  <2> QED BY <2>1, <2>2
<1>11. CareRight'
  BY <1>5, <1>8, <1>9, <1>10 DEF CareRight
<1>12. StartUpRight'
  BY <1>0, <1>1, <1>3, StartUpStays
<1>13. QuitRight'
  <2>1. \A t \in Supervised : handle'[t] \in {handle[t], NoProc}
    BY <1>0, <1>4
  <2> QED BY <1>0, <1>5, <2>1, QuitStays
<1> QED BY <1>11, <1>12, <1>13, CareSplitNext

(***************************************************************************)
(* The whole.                                                              *)
(***************************************************************************)
LEMMA ChildrenInit == Init => ChildrenInv
<1> SUFFICES ASSUME Init PROVE ChildrenInv
  OBVIOUS
<1>1. /\ \A p \in Procs : /\ ~Spawned(p) /\ ~proc[p].alive /\ ~proc[p].told /\ ~proc[p].killed
                          /\ ~proc[p].reaped /\ ~proc[p].crowded
      /\ \A s \in Services : handle[s] = NoProc
      /\ \A t \in Tasks : waiting[t] = NoProc
      /\ \A s \in Supervised : /\ s \in Services /\ s # Backend
                               /\ managed[s].registered /\ ~managed[s].timer
                               /\ \A f \in Flows : flow[s][f] = "idle"
      /\ globalStopped = FALSE /\ quit = "no" /\ boot.pc = "cleanup" /\ boot.at = 1
      /\ \A e \in Events : restart[e] = "idle"
  BY ServiceKinds, SupervisorAssumption DEF Init, Spawned
<1>2. Pending \subseteq Supervised
  BY PendingKinds, InvInit
<1>3. \A s : Unreaped(s) = {}
  BY <1>1 DEF Unreaped
<1>4. ChildrenRight
  BY <1>1, <1>3 DEF ChildrenRight, FlagsRight, HandlesHold, HandlesKnow, CrowdsKnown, WaitsRight
<1>5. SignalsRight /\ RestartsRight /\ CrowdsRight
  BY <1>1, <1>3 DEF SignalsRight, RestartsRight, Restarting, CrowdsRight
<1>6. StartUpRight /\ QuitRight
  BY <1>1, <1>2 DEF StartUpRight, QuitRight
<1> QED BY <1>4, <1>5, <1>6 DEF ChildrenInv

LEMMA ChildrenStep == ASSUME SupervisorInv, ChildrenInv, [Next]_vars PROVE ChildrenInv'
<1>1. CASE Boot
  BY <1>1, StartNextKeeps, StartBackendKeeps, BootKeeps DEF Boot
<1>2. ASSUME NEW s \in Supervised, Health(s) PROVE ChildrenInv'
  BY <1>2, TickStoppedKeeps, TickKeeps, CheckKeeps, StopReturnedKeeps, WakeKeeps DEF Health
<1>3. CASE Settings
  BY <1>3, SettingsKeep
<1>4. CASE Quit
  BY <1>4, StopAllKeeps, QuitKeeps DEF Quit
<1>5. ASSUME NEW p \in Procs, Die(p) \/ ExitEvent(p) PROVE ChildrenInv'
  BY <1>5, DieKeeps, ExitEventKeeps
<1>6. CASE UNCHANGED vars
  <2>1. /\ UNCHANGED <<managed, globalStopped, flow, boot, quit, restart, handle, waiting, proc>>
        /\ CareRight /\ StartUpRight /\ QuitRight
    BY <1>6, CareSplit DEF vars, supervisorVars
  <2>2. Calm' = Calm /\ \A t : Undisturbed(t)' => Undisturbed(t)
    BY <2>1 DEF Calm, Undisturbed
  <2>3. CareRight'
    BY <2>1, <2>2, LullKeeps
  <2>4. StartUpRight' /\ QuitRight'
    BY <2>1, <2>2, StartUpStays, QuitStays DEF Spawned
  <2> QED BY <2>3, <2>4, CareSplitNext
<1> QED BY <1>1, <1>2, <1>3, <1>4, <1>5, <1>6 DEF Next

LEMMA ChildrenInvariant == Spec => []ChildrenInv
<1>1. SupervisorInv /\ ChildrenInv /\ [Next]_vars => ChildrenInv'
  BY ChildrenStep
<1> QED BY SupervisorInvariant, ChildrenInit, <1>1, PTL DEF Spec

\* However the ticks, the start-up, the quit, the settings events, the stops and
\* the exits interleave: a live child that nobody told to end and that no handle
\* holds is one of a service at which a child was spawned beside another one, and
\* that happens neither at start-up nor at a service that only the supervisor
\* restarts and whose children exit within the grace of their stops.
THEOREM NoChildIsLost == Spec => []NoChildLost
<1>1. SupervisorInv /\ ChildrenInv => NoChildLost
  <2> SUFFICES ASSUME SupervisorInv, ChildrenInv, NEW p \in Procs
               PROVE  /\ proc[p].alive /\ ~proc[p].told =>
                            handle[proc[p].svc] = p \/ Crowded(proc[p].svc)
                      /\ proc[p].crowded =>
                            /\ proc[p].by # "boot"
                            /\ proc[p].svc \in Punctual => ~Undisturbed(proc[p].svc)
    BY DEF NoChildLost
  <2>1. proc[p].svc \in Services
    BY ChildTypes DEF LaunchersOK, ProcType
  <2>2. proc[p].alive => p \in Unreaped(proc[p].svc)
    BY DEF ChildrenInv, ChildrenRight, FlagsRight, Unreaped
  <2> QED BY <2>1, <2>2 DEF ChildrenInv, ChildrenRight, HandlesKnow, CrowdsRight, Calm
<1> QED BY SupervisorInvariant, ChildrenInvariant, <1>1, PTL

\* The exit: every live child of a service that stayed stopped and that no
\* settings event restarted was told to end, the one of a restart that was between
\* its stop and its start when the quit came included; but for a child that was
\* lost before, beside another one of its service.
THEOREM ExitReaches == Spec => []ExitReachesChildren
<1>1. SupervisorInv /\ ChildrenInv => ExitReachesChildren
  <2> SUFFICES ASSUME SupervisorInv, ChildrenInv, quit = "exited",
                      NEW s \in Supervised, managed[s].stopped, Undisturbed(s), NEW p \in Live(s)
               PROVE  proc[p].told \/ Crowded(s)
    BY DEF ExitReachesChildren
  <2>1. p \in Unreaped(s) /\ p # NoProc /\ s \in Services
    BY SupervisorAssumption, ServiceKinds DEF Live, ChildrenInv, ChildrenRight, FlagsRight, Unreaped
  <2>2. handle[s] = NoProc
    BY DEF ChildrenInv, QuitRight
  <2> QED BY <2>1, <2>2 DEF ChildrenInv, ChildrenRight, HandlesKnow
<1> QED BY SupervisorInvariant, ChildrenInvariant, <1>1, PTL
==============================================================================
