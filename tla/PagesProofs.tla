----------------------------- MODULE PagesProofs -----------------------------
(****************************************************************************)
(* Proofs about five pages of the user interface, each by itself, for any   *)
(* templates, routines, settings, sessions and bounds: an invariant of the  *)
(* page, which every action of its keeps.                                   *)
(****************************************************************************)
EXTENDS SagasProofs, PromptsStore, RoutinesStore, SettingsStore, ObsidianStore, DictationStore

(****************************************************************************)
(* The dictation: as long as no request failed and nothing upset its order, *)
(* the backend's session is that of the dashboard, of an answer under way   *)
(* or of a stop or cancel that will end it, and the recorder runs in one    *)
(* phase alone.                                                             *)
(****************************************************************************)

DR == INSTANCE PutsProofs WITH Op <- LAMBDA x, s, a : dashboardReducer(s, a)
DW == INSTANCE PutsProofs WITH Op <- LAMBDA x, s, a : watchDictationSagas(s, a)
DictationSagas ==
  {"dictationStartSaga", "dictationStopSaga", "dictationCancelSaga", "getUserMedia", "recorderStop", "dictationInject"}
Asked(u) == [id |-> u.session, mount |-> u.mount]
Sound(t, u, s) ==
  /\ t.saga \in DictationSagas /\ t.pc \in {"call", "back"} /\ t.ok = TRUE /\ t.live = TRUE
  /\ t.saga = "dictationStartSaga" => u.phase = "starting" /\ (t.pc = "back" => t.ans \in 0 .. s.started)
  /\ t.saga \in {"dictationStopSaga", "dictationCancelSaga"} =>
       t.arg \in 1 .. s.started /\ (t.pc = "back" => t.arg # s.active)
  /\ t.saga = "dictationCancelSaga" => u.phase = "cancelling" /\ t.arg = u.session
  /\ t.saga = "getUserMedia" =>
       t.arg.id \in 1 .. s.started /\ (u.phase = "active" /\ t.arg = Asked(u) => u.held # u.session)
  /\ t.saga = "recorderStop" /\ u.phase = "active" => u.recording = FALSE /\ u.held = u.session
  /\ t.saga = "dictationInject" => u.phase = "stopped" /\ t.arg = u.mount
Clash(t, v) ==
  \/ t.saga = v.saga /\ t.saga \in {"dictationStartSaga", "dictationCancelSaga", "dictationInject"}
  \/ t.saga = "getUserMedia" /\ v.saga = "getUserMedia" /\ t.arg = v.arg
  \/ t.saga = "dictationStartSaga" /\ t.pc = "back" /\ v.saga = "recorderStop"
  \/ t.saga = "dictationStartSaga" /\ t.pc = "back" /\ v.saga = "getUserMedia" /\ v.arg.id = t.ans
Owns(t, id) ==
  \/ t.saga = "dictationStartSaga" /\ t.pc = "back" /\ t.ans = id
  \/ t.saga \in {"dictationStopSaga", "dictationCancelSaga"} /\ t.pc = "call" /\ t.arg = id
Ends(t, id) == t.saga = "dictationStopSaga" /\ t.pc = "call" /\ t.arg = id
Dashboard(u, s) ==
  /\ DOMAIN u = {"phase", "session", "persist", "text", "home", "mount", "held", "recording", "mics"}
  /\ u.phase \in Phases /\ s.started \in Nat /\ s.active \in 0 .. s.started /\ u.session \in 0 .. s.started
  /\ u.session # 0 <=> u.phase \in {"active", "stopping", "cancelling"}
  /\ u.home \in BOOLEAN /\ u.recording \in BOOLEAN
  /\ u.recording = TRUE => u.mics = 1
  /\ u.recording = FALSE => u.mics = 0
  /\ u.recording = TRUE => u.home = TRUE /\ u.held = u.session /\ u.phase \in {"active", "cancelling"}
  /\ u.home = FALSE => u.phase = "idle"
Crowd(I, ts, u, s) ==
  /\ \A i \in I : Sound(ts[i], u, s)
  /\ \A i, j \in I : i # j => ~Clash(ts[i], ts[j])
Owned(I, ts, u, s) == s.active # 0 => u.session = s.active \/ \E i \in I : Owns(ts[i], s.active)
Stopping(I, ts, u, s) == u.phase = "stopping" => s.active # u.session \/ \E i \in I : Ends(ts[i], u.session)
Sessions(I, ts, u, s) == Crowd(I, ts, u, s) /\ Dashboard(u, s) /\ Owned(I, ts, u, s) /\ Stopping(I, ts, u, s)

LEMMA SoundSame == ASSUME NEW t, NEW v, NEW u, NEW s, Same(t, v), t.live = v.live, Sound(v, u, s) PROVE Sound(t, u, s)
BY DEF Same, Sound
LEMMA ClashSame == ASSUME NEW t, NEW v, NEW a, NEW b, Same(t, a), Same(v, b), Clash(t, v) PROVE Clash(a, b)
BY DEF Same, Clash

LEMMA SessionsCarry ==
  ASSUME NEW ts, NEW new, NEW I \in SUBSET DOMAIN ts, NEW h, Indices(h, new, ts),
         \A k \in DOMAIN new : h[k] \in I /\ Same(new[k], ts[h[k]]) /\ new[k].live = ts[h[k]].live,
         \A j \in I : Hits(h, j), NEW u, NEW s, Sessions(I, ts, u, s)
  PROVE  Sessions(DOMAIN new, new, u, s)
<1>1. \A k \in DOMAIN new : Sound(new[k], u, s)
  BY SoundSame DEF Sessions, Crowd
<1>2. ASSUME NEW k \in DOMAIN new, NEW l \in DOMAIN new, k # l PROVE ~Clash(new[k], new[l])
  <2>1. h[k] # h[l] /\ h[k] \in I /\ h[l] \in I
    BY <1>2 DEF Indices, OneToOne
  <2> QED BY <2>1, ClashSame DEF Sessions, Crowd
<1>3. ASSUME NEW j \in I PROVE \E k \in DOMAIN new : Same(new[k], ts[j])
  <2>1. PICK k \in DOMAIN h : h[k] = j
    BY <1>3 DEF Hits
  <2> QED BY <2>1 DEF Indices
<1>4. Owned(DOMAIN new, new, u, s)
  BY <1>3 DEF Sessions, Owned, Owns, Same
<1>5. Stopping(DOMAIN new, new, u, s)
  BY <1>3 DEF Sessions, Stopping, Ends, Same
<1> QED BY <1>1, <1>2, <1>4, <1>5 DEF Sessions, Crowd

\* One more task.
LEMMA SessionsMore ==
  ASSUME NEW ts, AreTasks(ts), NEW t, IsTask(t), NEW u, NEW s, Crowd(DOMAIN ts, ts, u, s), Dashboard(u, s), Owned(DOMAIN ts, ts, u, s),
         Stopping(DOMAIN ts, ts, u, s) \/ Ends(t, u.session), Sound(t, u, s),
         \A i \in DOMAIN ts : ~Clash(ts[i], t) /\ ~Clash(t, ts[i])
  PROVE  AreTasks(Append(ts, t)) /\ Sessions(DOMAIN Append(ts, t), Append(ts, t), u, s)
<1> DEFINE n == Len(ts)
           new == Append(ts, t)
<1>1. n \in Nat /\ DOMAIN ts = 1 .. n
  BY TasksAre
<1>2. AreTasks(new) /\ DOMAIN new = 1 .. n + 1 /\ new[n + 1] = t /\ \A k \in 1 .. n : new[k] = ts[k]
  BY <1>1, AppendTask
<1>3. n + 1 \in DOMAIN new /\ \A k \in DOMAIN new : k = n + 1 \/ k \in DOMAIN ts
  BY <1>1, <1>2
<1>4. \A k \in DOMAIN ts : k \in DOMAIN new /\ new[k] = ts[k]
  BY <1>1, <1>2
<1> HIDE DEF n, new
<1>5. \A k \in DOMAIN new : Sound(new[k], u, s)
  BY <1>2, <1>3, <1>4 DEF Crowd
<1>6. ASSUME NEW k \in DOMAIN new, NEW l \in DOMAIN new, k # l PROVE ~Clash(new[k], new[l])
  <2>1. CASE k = n + 1
    BY <2>1, <1>2, <1>3, <1>4, <1>6
  <2>2. CASE l = n + 1
    BY <2>2, <1>2, <1>3, <1>4, <1>6
  <2>3. CASE k # n + 1 /\ l # n + 1
    BY <2>3, <1>3, <1>4, <1>6 DEF Crowd
  <2> QED BY <2>1, <2>2, <2>3
<1>7. Owned(DOMAIN new, new, u, s)
  BY <1>4 DEF Owned
<1>8. Stopping(DOMAIN new, new, u, s)
  BY <1>2, <1>3, <1>4 DEF Stopping
<1> QED BY <1>2, <1>5, <1>6, <1>7, <1>8 DEF Sessions, Crowd, new

Calm == broken = FALSE /\ srv.upset = FALSE
DictationShape == DOMAIN srv = {"active", "started", "upset"} /\ srv.upset \in BOOLEAN /\ broken \in BOOLEAN
DictationCore == AreTasks(tasks) /\ Sessions(DOMAIN tasks, tasks, ui, srv)
DictationInv == DictationShape /\ (Calm => DictationCore)

LEMMA DictationInitOK == ASSUME NEW budget, DictationStoreInit(budget) PROVE DictationInv
<1>1. ui = initialDictationState /\ tasks = << >> /\ broken = FALSE /\ srv = [active |-> NoSession, started |-> 0, upset |-> FALSE]
  BY DEF DictationStoreInit, SagaInit, SagaBoot, SagaStart
<1>2. AreTasks(tasks) /\ DOMAIN tasks = {}
  BY <1>1, NoTasks
<1>3. Dashboard(ui, srv)
  BY <1>1 DEF Dashboard, initialDictationState, Phases, NoSession
<1>4. Crowd(DOMAIN tasks, tasks, ui, srv)
  BY <1>2 DEF Crowd
<1>5. Owned(DOMAIN tasks, tasks, ui, srv) /\ Stopping(DOMAIN tasks, tasks, ui, srv)
  BY <1>1 DEF Owned, Stopping, NoSession, initialDictationState
<1>6. DictationShape
  BY <1>1 DEF DictationShape
<1> QED BY <1>2, <1>3, <1>4, <1>5, <1>6 DEF DictationInv, DictationCore, Sessions

LEMMA DictationStarting ==
  ASSUME DictationCore, ui.phase = "idle", ui.home = TRUE, NEW p, ui' = dashboardReducer(ui, StartRequested(p)),
         tasks' = watchDictationSagas(tasks, StartRequested(p)), srv' = srv
  PROVE  DictationCore'
<1> DEFINE v == [ui EXCEPT !.phase = "starting", !.persist = p]
           t == gqlRequest("dictationStartSaga", Nothing)
<1>1. ui' = v
  BY DEF StartRequested, dashboardReducer, dictationReducer
<1>2. tasks' = Append(tasks, t)
  BY DEF StartRequested, watchDictationSagas, takeEvery
<1>3. /\ DOMAIN v = DOMAIN ui /\ v.phase = "starting" /\ v.session = ui.session /\ v.home = ui.home
      /\ v.recording = ui.recording /\ v.mics = ui.mics /\ v.held = ui.held /\ v.mount = ui.mount
  BY DEF DictationCore, Sessions, Dashboard
<1>4. IsTask(t) /\ t.saga = "dictationStartSaga" /\ t.pc = "call" /\ t.ok = TRUE /\ t.live = TRUE
  BY DEF gqlRequest, IsTask
<1> HIDE DEF v, t
<1>5. Dashboard(v, srv)
  BY <1>3 DEF DictationCore, Sessions, Dashboard, Phases
<1>6. \A i \in DOMAIN tasks : Sound(tasks[i], ui, srv)
  BY DEF DictationCore, Sessions, Crowd
<1>7. \A i \in DOMAIN tasks : Sound(tasks[i], v, srv) /\ tasks[i].saga # "dictationStartSaga"
  BY <1>3, <1>6 DEF Sound
<1>8. Crowd(DOMAIN tasks, tasks, v, srv)
  BY <1>7 DEF DictationCore, Sessions, Crowd
<1>9. Owned(DOMAIN tasks, tasks, v, srv) /\ Stopping(DOMAIN tasks, tasks, v, srv)
  BY <1>3 DEF DictationCore, Sessions, Owned, Stopping
<1>10. Sound(t, v, srv)
  BY <1>3, <1>4 DEF Sound, DictationSagas
<1>11. \A i \in DOMAIN tasks : ~Clash(tasks[i], t) /\ ~Clash(t, tasks[i])
  BY <1>4, <1>7 DEF Clash
<1>12. AreTasks(Append(tasks, t)) /\ Sessions(DOMAIN Append(tasks, t), Append(tasks, t), v, srv)
  BY <1>4, <1>5, <1>8, <1>9, <1>10, <1>11, SessionsMore DEF DictationCore
<1> QED BY <1>1, <1>2, <1>12 DEF DictationCore

\* Stop is asked for: while it is active only when nothing is recorded.
LEMMA DictationStopping ==
  ASSUME NEW I, NEW ts, AreTasks(ts), I = DOMAIN ts, Sessions(I, ts, ui, srv), ui.phase = "active" => ui.recording = FALSE,
         ui' = dashboardReducer(ui, StopRequested), tasks' = watchDictationSagas(ts, StopRequested), srv' = srv
  PROVE  DictationCore'
<1> DEFINE v == IF ui.phase = "active" THEN [ui EXCEPT !.phase = "stopping"] ELSE ui
           t == gqlRequest("dictationStopSaga", ui.session)
<1>1. ui' = v
  BY DEF StopRequested, dashboardReducer, dictationReducer
<1>2. tasks' = IF ui.phase \in {"active", "stopping"} THEN Append(ts, t) ELSE ts
  BY DEF StopRequested, watchDictationSagas, takeEvery, Sessions, Dashboard, NoSession
<1>3. /\ DOMAIN v = DOMAIN ui /\ v.phase = (IF ui.phase = "active" THEN "stopping" ELSE ui.phase) /\ v.session = ui.session /\ v.home = ui.home
      /\ v.recording = ui.recording /\ v.mics = ui.mics /\ v.held = ui.held /\ v.mount = ui.mount
  BY DEF Sessions, Dashboard
<1>4. IsTask(t) /\ t.saga = "dictationStopSaga" /\ t.pc = "call" /\ t.ok = TRUE /\ t.live = TRUE /\ t.arg = ui.session
  BY DEF gqlRequest, IsTask
<1>0. ui.phase \notin {"active", "stopping"} => v = ui
  OBVIOUS
<1> HIDE DEF v, t
<1>5. Dashboard(v, srv)
  BY <1>3 DEF Sessions, Dashboard, Phases
<1>6. \A i \in DOMAIN ts : Sound(ts[i], ui, srv)
  BY DEF Sessions, Crowd
<1>7. ASSUME ui.phase \in {"active", "stopping"} PROVE DictationCore'
  <2>1. \A i \in DOMAIN ts : Sound(ts[i], v, srv)
    BY <1>3, <1>6, <1>7 DEF Sound
  <2>2. Crowd(DOMAIN ts, ts, v, srv)
    BY <2>1 DEF Sessions, Crowd
  <2>3. Owned(DOMAIN ts, ts, v, srv)
    BY <1>3 DEF Sessions, Owned
  <2>4. Sound(t, v, srv)
    BY <1>3, <1>4, <1>7 DEF Sound, DictationSagas, Sessions, Dashboard
  <2>5. Ends(t, v.session)
    BY <1>3, <1>4 DEF Ends
  <2>6. \A i \in DOMAIN ts : ~Clash(ts[i], t) /\ ~Clash(t, ts[i])
    BY <1>4 DEF Clash
  <2>7. AreTasks(Append(ts, t)) /\ Sessions(DOMAIN Append(ts, t), Append(ts, t), v, srv)
    BY <1>4, <1>5, <2>2, <2>3, <2>4, <2>5, <2>6, SessionsMore
  <2> QED BY <1>1, <1>2, <1>7, <2>7 DEF DictationCore
<1>8. ASSUME ui.phase \notin {"active", "stopping"} PROVE DictationCore'
  BY <1>0, <1>1, <1>2, <1>8 DEF DictationCore
<1> QED BY <1>7, <1>8

LEMMA DictationCancelling ==
  ASSUME DictationCore, ui.phase # "cancelling", ui' = dashboardReducer(ui, CancelRequested),
         tasks' = watchDictationSagas(tasks, CancelRequested), srv' = srv
  PROVE  DictationCore'
<1> DEFINE v == IF ui.phase \in {"active", "stopping"} THEN [ui EXCEPT !.phase = "cancelling"] ELSE ui
           t == gqlRequest("dictationCancelSaga", ui.session)
<1>1. ui' = v
  BY DEF CancelRequested, dashboardReducer, dictationReducer
<1>2. tasks' = IF ui.phase \in {"active", "stopping"} THEN Append(tasks, t) ELSE tasks
  BY DEF CancelRequested, watchDictationSagas, takeEvery, DictationCore, Sessions, Dashboard, NoSession
<1>3. /\ DOMAIN v = DOMAIN ui /\ v.session = ui.session /\ v.home = ui.home
      /\ v.recording = ui.recording /\ v.mics = ui.mics /\ v.held = ui.held /\ v.mount = ui.mount
      /\ ui.phase \in {"active", "stopping"} => v.phase = "cancelling"
  BY DEF DictationCore, Sessions, Dashboard
<1>4. IsTask(t) /\ t.saga = "dictationCancelSaga" /\ t.pc = "call" /\ t.ok = TRUE /\ t.live = TRUE /\ t.arg = ui.session
  BY DEF gqlRequest, IsTask
<1>0. ui.phase \notin {"active", "stopping"} => v = ui
  OBVIOUS
<1> HIDE DEF v, t
<1>6. \A i \in DOMAIN tasks : Sound(tasks[i], ui, srv)
  BY DEF DictationCore, Sessions, Crowd
<1>7. ASSUME ui.phase \in {"active", "stopping"} PROVE DictationCore'
  <2>0. Dashboard(v, srv)
    BY <1>3, <1>7 DEF DictationCore, Sessions, Dashboard, Phases
  <2>1. \A i \in DOMAIN tasks : Sound(tasks[i], v, srv) /\ tasks[i].saga # "dictationCancelSaga"
    BY <1>3, <1>6, <1>7 DEF Sound
  <2>2. Crowd(DOMAIN tasks, tasks, v, srv)
    BY <2>1 DEF DictationCore, Sessions, Crowd
  <2>3. Owned(DOMAIN tasks, tasks, v, srv) /\ Stopping(DOMAIN tasks, tasks, v, srv)
    BY <1>3, <1>7 DEF DictationCore, Sessions, Owned, Stopping
  <2>4. Sound(t, v, srv)
    BY <1>3, <1>4, <1>7 DEF Sound, DictationSagas, DictationCore, Sessions, Dashboard
  <2>6. \A i \in DOMAIN tasks : ~Clash(tasks[i], t) /\ ~Clash(t, tasks[i])
    BY <1>4, <2>1 DEF Clash
  <2>7. AreTasks(Append(tasks, t)) /\ Sessions(DOMAIN Append(tasks, t), Append(tasks, t), v, srv)
    BY <1>4, <2>0, <2>2, <2>3, <2>4, <2>6, SessionsMore DEF DictationCore
  <2> QED BY <1>1, <1>2, <1>7, <2>7 DEF DictationCore
<1>8. ASSUME ui.phase \notin {"active", "stopping"} PROVE DictationCore'
  BY <1>0, <1>1, <1>2, <1>8 DEF DictationCore
<1> QED BY <1>7, <1>8

\* The recorder is stopped, and its stop awaited.
LEMMA DictationRecorder ==
  ASSUME DictationCore, ui.recording = TRUE, ui.phase = "active",
         ui' = dashboardReducer(ui, [type |-> "RECORDER_STOPPED"]),
         tasks' = Append(tasks, gqlRequest("recorderStop", ui.mount)), srv' = srv
  PROVE  DictationCore'
<1> DEFINE v == [ui EXCEPT !.recording = FALSE, !.mics = IF ui.recording THEN @ - 1 ELSE @]
           t == gqlRequest("recorderStop", ui.mount)
<1>1. ui' = v
  BY DEF dashboardReducer
<1>2. tasks' = Append(tasks, t)
  OBVIOUS
<1>3. /\ DOMAIN v = DOMAIN ui /\ v.session = ui.session /\ v.home = ui.home /\ v.phase = "active"
      /\ v.recording = FALSE /\ v.mics = ui.mics - 1 /\ v.held = ui.held /\ v.mount = ui.mount
  BY DEF DictationCore, Sessions, Dashboard
<1>0. ui.mics - 1 = 0 /\ ui.held = ui.session
  BY DEF DictationCore, Sessions, Dashboard
<1>4. IsTask(t) /\ t.saga = "recorderStop" /\ t.pc = "call" /\ t.ok = TRUE /\ t.live = TRUE /\ t.arg = ui.mount
  BY DEF gqlRequest, IsTask
<1> HIDE DEF v, t
<1>5. Dashboard(v, srv) /\ v.held = v.session
  BY <1>0, <1>3 DEF DictationCore, Sessions, Dashboard, Phases
<1>6. \A i \in DOMAIN tasks : Sound(tasks[i], ui, srv)
  BY DEF DictationCore, Sessions, Crowd
<1>7. \A i \in DOMAIN tasks : Sound(tasks[i], v, srv) /\ tasks[i].saga # "dictationStartSaga"
  BY <1>3, <1>5, <1>6 DEF Sound, Asked
<1>8. Crowd(DOMAIN tasks, tasks, v, srv)
  BY <1>7 DEF DictationCore, Sessions, Crowd
<1>9. Owned(DOMAIN tasks, tasks, v, srv) /\ Stopping(DOMAIN tasks, tasks, v, srv)
  BY <1>3 DEF DictationCore, Sessions, Owned, Stopping
<1>10. Sound(t, v, srv)
  BY <1>3, <1>4, <1>5 DEF Sound, DictationSagas
<1>11. \A i \in DOMAIN tasks : ~Clash(tasks[i], t) /\ ~Clash(t, tasks[i])
  BY <1>4, <1>7 DEF Clash
<1>12. AreTasks(Append(tasks, t)) /\ Sessions(DOMAIN Append(tasks, t), Append(tasks, t), v, srv)
  BY <1>4, <1>5, <1>8, <1>9, <1>10, <1>11, SessionsMore DEF DictationCore
<1> QED BY <1>1, <1>2, <1>12 DEF DictationCore

LEMMA DictationLeft ==
  ASSUME DictationCore, ui.phase = "idle", ui' = dashboardReducer(ui, [type |-> "LEFT"]), tasks' = tasks, srv' = srv
  PROVE  DictationCore'
<1> DEFINE v == [ui EXCEPT !.home = FALSE, !.mount = @ + 1, !.held = NoSession, !.recording = FALSE]
<1>1. ui' = v
  BY DEF dashboardReducer
<1>2. DOMAIN v = DOMAIN ui /\ v.session = ui.session /\ v.home = FALSE /\ v.phase = "idle" /\ v.recording = FALSE /\ v.mics = ui.mics
  BY DEF DictationCore, Sessions, Dashboard
<1> HIDE DEF v
<1>3. Dashboard(v, srv)
  BY <1>2 DEF DictationCore, Sessions, Dashboard
<1>4. \A i \in DOMAIN tasks : Sound(tasks[i], ui, srv)
  BY DEF DictationCore, Sessions, Crowd
<1>5. \A i \in DOMAIN tasks : Sound(tasks[i], v, srv)
  BY <1>2, <1>4 DEF Sound
<1>6. Crowd(DOMAIN tasks, tasks, v, srv)
  BY <1>5 DEF DictationCore, Sessions, Crowd
<1>7. Owned(DOMAIN tasks, tasks, v, srv) /\ Stopping(DOMAIN tasks, tasks, v, srv)
  BY <1>2 DEF DictationCore, Sessions, Owned, Stopping
<1> QED BY <1>1, <1>3, <1>6, <1>7 DEF DictationCore, Sessions

LEMMA DictationOpened ==
  ASSUME DictationCore, ui' = dashboardReducer(ui, [type |-> "OPENED"]), tasks' = tasks, srv' = srv PROVE DictationCore'
<1> DEFINE v == [ui EXCEPT !.home = TRUE]
<1>1. ui' = v
  BY DEF dashboardReducer
<1>2. /\ DOMAIN v = DOMAIN ui /\ v.session = ui.session /\ v.home = TRUE /\ v.phase = ui.phase
      /\ v.recording = ui.recording /\ v.mics = ui.mics /\ v.held = ui.held /\ v.mount = ui.mount
  BY DEF DictationCore, Sessions, Dashboard
<1> HIDE DEF v
<1>3. Dashboard(v, srv)
  BY <1>2 DEF DictationCore, Sessions, Dashboard
<1>4. \A i \in DOMAIN tasks : Sound(tasks[i], ui, srv)
  BY DEF DictationCore, Sessions, Crowd
<1>5. \A i \in DOMAIN tasks : Sound(tasks[i], v, srv)
  BY <1>2, <1>4 DEF Sound, Asked
<1>6. Crowd(DOMAIN tasks, tasks, v, srv)
  BY <1>5 DEF DictationCore, Sessions, Crowd
<1>7. Owned(DOMAIN tasks, tasks, v, srv) /\ Stopping(DOMAIN tasks, tasks, v, srv)
  BY <1>2 DEF DictationCore, Sessions, Owned, Stopping
<1> QED BY <1>1, <1>3, <1>6, <1>7 DEF DictationCore, Sessions

\* The session is forgotten, and the dictation idle again.
Forgot(u) == dashboardReducer(dashboardReducer(u, Forgotten(u.mount)), [type |-> "DICTATION_RESET"])
LEMMA DictationForgot ==
  ASSUME NEW I \in SUBSET DOMAIN tasks, Sessions(I, tasks, ui, srv), ui.phase \in {"stopped", "failed"},
         \A i \in I : tasks[i].saga # "dictationInject"
  PROVE  Sessions(I, tasks, Forgot(ui), srv)
<1> DEFINE f == [ui EXCEPT !.held = NoSession, !.recording = FALSE]
           v == [f EXCEPT !.phase = "idle", !.session = NoSession, !.persist = FALSE, !.text = FALSE]
<1>1. dashboardReducer(ui, Forgotten(ui.mount)) = f
  BY DEF dashboardReducer, Forgotten
<1>2. f.phase = ui.phase /\ DOMAIN f = DOMAIN ui /\ f.mics = ui.mics /\ f.home = ui.home /\ f.recording = FALSE
  BY DEF Sessions, Dashboard
<1>3. v.phase = "idle" /\ DOMAIN v = DOMAIN f /\ v.mics = f.mics /\ v.home = f.home /\ v.recording = f.recording /\ v.session = 0
  BY <1>2 DEF Sessions, Dashboard, NoSession
<1> HIDE DEF f
<1>4. dashboardReducer(f, [type |-> "DICTATION_RESET"]) = v
  BY <1>2 DEF dashboardReducer, dictationReducer
<1> HIDE DEF v
<1>5. Dashboard(v, srv) /\ ui.session = 0
  BY <1>2, <1>3 DEF Sessions, Dashboard, Phases
<1>6. \A i \in I : Sound(tasks[i], v, srv)
  BY <1>3 DEF Sessions, Crowd, Sound
<1>7. Crowd(I, tasks, v, srv)
  BY <1>6 DEF Sessions, Crowd
<1>8. Owned(I, tasks, v, srv) /\ Stopping(I, tasks, v, srv)
  BY <1>3, <1>5 DEF Sessions, Owned, Stopping
<1> QED BY <1>1, <1>4, <1>5, <1>7, <1>8 DEF Sessions, Forgot

LEMMA DictationForgets ==
  ASSUME DictationCore, ui.phase \in {"stopped", "failed"}, \A i \in DOMAIN tasks : tasks[i].saga # "dictationInject",
         DictationEffect(<< Forgotten(ui.mount), [type |-> "DICTATION_RESET"] >>)
  PROVE  DictationCore'
<1> DEFINE a == Forgotten(ui.mount)
           b == [type |-> "DICTATION_RESET"]
<1>1. /\ ui' = Reduced(dashboardReducer, ui, <<a, b>>) /\ tasks' = Watched(watchDictationSagas, tasks, <<a, b>>) /\ srv' = srv
  BY DEF DictationEffect, Effect
<1>2. ui' = Forgot(ui)
  <2>1. DR!Fold(0, ui, <<a, b>>) = Reduced(dashboardReducer, ui, <<a, b>>)
    BY DEF DR!Fold, Reduced, DR!Folds, DR!Step, DR!Greatest, FoldLeft, MapThenFoldSet, Max
  <2>2. DR!Fold(0, ui, <<a, b>>) = dashboardReducer(dashboardReducer(ui, a), b)
    BY DR!FoldTwo
  <2> QED BY <1>1, <2>1, <2>2, Zenon DEF Forgot
<1>3. tasks' = tasks
  <2>1. DW!Fold(0, tasks, <<a, b>>) = Watched(watchDictationSagas, tasks, <<a, b>>)
    BY DEF DW!Fold, Watched, DW!Folds, DW!Step, DW!Greatest, FoldLeft, MapThenFoldSet, Max
  <2>2. DW!Fold(0, tasks, <<a, b>>) = watchDictationSagas(watchDictationSagas(tasks, a), b)
    BY DW!FoldTwo
  <2>3. watchDictationSagas(tasks, a) = tasks /\ watchDictationSagas(tasks, b) = tasks
    BY DEF watchDictationSagas, Forgotten
  <2> QED BY <1>1, <2>1, <2>2, <2>3, Zenon
<1>4. Sessions(DOMAIN tasks, tasks, Forgot(ui), srv)
  BY DictationForgot DEF DictationCore
<1> QED BY <1>1, <1>2, <1>3, <1>4 DEF DictationCore

LEMMA DictationCancels == ASSUME DictationCore, CancelsEffect PROVE DictationCore'
<1> DEFINE a == [type |-> "RECORDER_STOPPED"]
           b == Forgotten(ui.mount)
           f == [ui EXCEPT !.recording = FALSE, !.mics = IF ui.recording THEN @ - 1 ELSE @]
           v == [f EXCEPT !.held = NoSession, !.recording = FALSE]
<1>1. /\ ui' = Reduced(dashboardReducer, ui, <<a, b>>) /\ tasks' = Watched(watchDictationSagas, tasks, <<a, b>>) /\ srv' = srv
      /\ ui.phase = "cancelling"
  BY DEF CancelsEffect, Cancels, DictationEffect, Effect
<1>2. dashboardReducer(ui, a) = f
  BY DEF dashboardReducer
<1>3. f.phase = ui.phase /\ DOMAIN f = DOMAIN ui /\ f.home = ui.home /\ f.mount = ui.mount /\ f.session = ui.session
  BY DEF DictationCore, Sessions, Dashboard
<1>4. f.mics = 0
  BY DEF DictationCore, Sessions, Dashboard
<1>5. v.phase = f.phase /\ DOMAIN v = DOMAIN f /\ v.mics = f.mics /\ v.home = f.home /\ v.recording = FALSE /\ v.session = f.session
  BY <1>3 DEF DictationCore, Sessions, Dashboard
<1> HIDE DEF f
<1>6. dashboardReducer(f, b) = v
  BY <1>3 DEF dashboardReducer, Forgotten
<1> HIDE DEF v
<1>7. ui' = v
  <2>1. DR!Fold(0, ui, <<a, b>>) = Reduced(dashboardReducer, ui, <<a, b>>)
    BY DEF DR!Fold, Reduced, DR!Folds, DR!Step, DR!Greatest, FoldLeft, MapThenFoldSet, Max
  <2>2. DR!Fold(0, ui, <<a, b>>) = dashboardReducer(dashboardReducer(ui, a), b)
    BY DR!FoldTwo
  <2> HIDE DEF a, b
  <2> QED BY <1>1, <1>2, <1>6, <2>1, <2>2, Zenon
<1>8. tasks' = tasks
  <2>1. DW!Fold(0, tasks, <<a, b>>) = Watched(watchDictationSagas, tasks, <<a, b>>)
    BY DEF DW!Fold, Watched, DW!Folds, DW!Step, DW!Greatest, FoldLeft, MapThenFoldSet, Max
  <2>2. DW!Fold(0, tasks, <<a, b>>) = watchDictationSagas(watchDictationSagas(tasks, a), b)
    BY DW!FoldTwo
  <2>3. watchDictationSagas(tasks, a) = tasks /\ watchDictationSagas(tasks, b) = tasks
    BY DEF watchDictationSagas, Forgotten
  <2> HIDE DEF a, b
  <2> QED BY <1>1, <2>1, <2>2, <2>3, Zenon
<1>9. Dashboard(v, srv)
  BY <1>1, <1>3, <1>4, <1>5 DEF DictationCore, Sessions, Dashboard
<1>10. \A i \in DOMAIN tasks : Sound(tasks[i], ui, srv)
  BY DEF DictationCore, Sessions, Crowd
<1>11. \A i \in DOMAIN tasks : Sound(tasks[i], v, srv)
  BY <1>1, <1>3, <1>5, <1>10 DEF Sound
<1>12. Crowd(DOMAIN tasks, tasks, v, srv)
  BY <1>11 DEF DictationCore, Sessions, Crowd
<1>13. Owned(DOMAIN tasks, tasks, v, srv) /\ Stopping(DOMAIN tasks, tasks, v, srv)
  BY <1>1, <1>3, <1>5 DEF DictationCore, Sessions, Owned, Stopping
<1> QED BY <1>1, <1>7, <1>8, <1>9, <1>12, <1>13 DEF DictationCore, Sessions

\* The microphone is asked for, once a session and a mount.
LEMMA DictationStarts == ASSUME DictationCore, StartsEffect PROVE DictationCore'
<1> DEFINE t == gqlRequest("getUserMedia", Asked(ui))
<1>1. tasks' = Append(tasks, t) /\ ui' = ui /\ srv' = srv
  BY DEF StartsEffect, DashboardAwaits, Asked
<1>2. ui.phase = "active" /\ ui.held # ui.session /\ \A i \in Running("getUserMedia") : tasks[i].arg # Asked(ui)
  BY DEF StartsEffect, Starts, Asked
<1>3. IsTask(t) /\ t.saga = "getUserMedia" /\ t.pc = "call" /\ t.ok = TRUE /\ t.live = TRUE /\ t.arg = Asked(ui)
  BY DEF gqlRequest, IsTask
<1> HIDE DEF t
<1>4. \A i \in DOMAIN tasks : Sound(tasks[i], ui, srv)
  BY DEF DictationCore, Sessions, Crowd
<1>5. \A i \in DOMAIN tasks : tasks[i].saga # "dictationStartSaga" /\ (tasks[i].saga = "getUserMedia" => tasks[i].arg # Asked(ui))
  BY <1>2, <1>4 DEF Sound, Running
<1>6. t.arg.id = ui.session
  BY <1>3 DEF Asked
<1>7. Sound(t, ui, srv)
  BY <1>2, <1>3, <1>6 DEF Sound, DictationSagas, DictationCore, Sessions, Dashboard
<1>8. \A i \in DOMAIN tasks : ~Clash(tasks[i], t) /\ ~Clash(t, tasks[i])
  BY <1>3, <1>5 DEF Clash
<1>9. AreTasks(Append(tasks, t)) /\ Sessions(DOMAIN Append(tasks, t), Append(tasks, t), ui, srv)
  BY <1>3, <1>7, <1>8, SessionsMore DEF DictationCore, Sessions
<1> QED BY <1>1, <1>9 DEF DictationCore

LEMMA DictationStops == ASSUME DictationCore, StopsEffect PROVE DictationCore'
<1>1. ui.phase = "stopped" /\ ~\E i \in Running("dictationInject") : tasks[i].arg = ui.mount
  BY DEF StopsEffect, Stops
<1>2. \A i \in DOMAIN tasks : Sound(tasks[i], ui, srv)
  BY DEF DictationCore, Sessions, Crowd
<1>3. \A i \in DOMAIN tasks : tasks[i].saga # "dictationInject"
  BY <1>1, <1>2 DEF Sound, Running
<1>4. CASE DictationEffect(<< Forgotten(ui.mount), [type |-> "DICTATION_RESET"] >>)
  BY <1>1, <1>3, <1>4, DictationForgets
<1>5. CASE DashboardAwaits("dictationInject", ui.mount)
  <2> DEFINE t == gqlRequest("dictationInject", ui.mount)
  <2>1. tasks' = Append(tasks, t) /\ ui' = ui /\ srv' = srv
    BY <1>5 DEF DashboardAwaits
  <2>2. IsTask(t) /\ t.saga = "dictationInject" /\ t.pc = "call" /\ t.ok = TRUE /\ t.live = TRUE /\ t.arg = ui.mount
    BY DEF gqlRequest, IsTask
  <2> HIDE DEF t
  <2>3. Sound(t, ui, srv)
    BY <1>1, <2>2 DEF Sound, DictationSagas
  <2>4. \A i \in DOMAIN tasks : ~Clash(tasks[i], t) /\ ~Clash(t, tasks[i])
    BY <2>2, <1>3 DEF Clash
  <2>5. AreTasks(Append(tasks, t)) /\ Sessions(DOMAIN Append(tasks, t), Append(tasks, t), ui, srv)
    BY <2>2, <2>3, <2>4, SessionsMore DEF DictationCore, Sessions
  <2> QED BY <2>1, <2>5 DEF DictationCore
<1> QED BY <1>4, <1>5 DEF StopsEffect

LEMMA DictationFails == ASSUME DictationCore, FailsEffect PROVE DictationCore'
<1>1. ui.phase = "failed" /\ DictationEffect(<< Forgotten(ui.mount), [type |-> "DICTATION_RESET"] >>)
  BY DEF FailsEffect, Fails
<1>2. \A i \in DOMAIN tasks : Sound(tasks[i], ui, srv)
  BY DEF DictationCore, Sessions, Crowd
<1>3. \A i \in DOMAIN tasks : tasks[i].saga # "dictationInject"
  BY <1>1, <1>2 DEF Sound
<1> QED BY <1>1, <1>3, DictationForgets

LEMMA DictationDispatched ==
  ASSUME NEW a, DictationDo(<< a >>)
  PROVE  ui' = dashboardReducer(ui, a) /\ tasks' = watchDictationSagas(tasks, a) /\ srv' = srv
<1>1. /\ ui' = Reduced(dashboardReducer, ui, <<a>>) /\ tasks' = Watched(watchDictationSagas, tasks, <<a>>) /\ srv' = srv
  BY DEF DictationDo, DispatchAll
<1>2. DR!Fold(0, ui, <<a>>) = Reduced(dashboardReducer, ui, <<a>>)
  BY DEF DR!Fold, Reduced, DR!Folds, DR!Step, DR!Greatest, FoldLeft, MapThenFoldSet, Max
<1>3. DW!Fold(0, tasks, <<a>>) = Watched(watchDictationSagas, tasks, <<a>>)
  BY DEF DW!Fold, Watched, DW!Folds, DW!Step, DW!Greatest, FoldLeft, MapThenFoldSet, Max
<1>4. DR!Fold(0, ui, <<a>>) = dashboardReducer(ui, a) /\ DW!Fold(0, tasks, <<a>>) = watchDictationSagas(tasks, a)
  BY DR!FoldOne, DW!FoldOne
<1> QED BY <1>1, <1>2, <1>3, <1>4, Zenon

\* stopRecording, of a dashboard that is there, with no session cancelled under it.
LEMMA DictationRecorded ==
  ASSUME DictationCore, stopRecording, ~Cancels, ui.home = TRUE, ui.held # NoSession \/ ui.phase = "active" PROVE DictationCore'
<1>1. CASE ui.held = NoSession
  <2>1. DictationDo(<< [type |-> "DICTATION_RESET"] >>) /\ ui.phase = "active"
    BY <1>1 DEF stopRecording
  <2> DEFINE a == [type |-> "DICTATION_RESET"]
  <2>2. ui' = dashboardReducer(ui, a) /\ tasks' = watchDictationSagas(tasks, a) /\ srv' = srv
    BY <2>1, DictationDispatched
  <2>3. dashboardReducer(ui, a) = ui /\ watchDictationSagas(tasks, a) = tasks
    BY <2>1 DEF dashboardReducer, dictationReducer, watchDictationSagas
  <2> QED BY <2>2, <2>3 DEF DictationCore
<1>2. CASE ui.held # NoSession /\ ui.recording = TRUE
  <2>1. Awaited("recorderStop", ui.mount)
    BY <1>2 DEF stopRecording
  <2>2. ui.phase = "active"
    BY <1>2 DEF Cancels, DictationCore, Sessions, Dashboard
  <2>3. ui' = dashboardReducer(ui, [type |-> "RECORDER_STOPPED"]) /\ tasks' = Append(tasks, gqlRequest("recorderStop", ui.mount)) /\ srv' = srv
    BY <2>1 DEF Awaited
  <2> QED BY <1>2, <2>2, <2>3, DictationRecorder
<1>3. CASE ui.held # NoSession /\ ui.recording = FALSE
  <2>1. DictationDo(<< StopRequested >>)
    BY <1>3 DEF stopRecording
  <2>2. ui' = dashboardReducer(ui, StopRequested) /\ tasks' = watchDictationSagas(tasks, StopRequested) /\ srv' = srv
    BY <2>1, DictationDispatched
  <2> QED BY <1>3, <2>2, DictationStopping DEF DictationCore
<1> QED BY <1>1, <1>2, <1>3 DEF DictationCore, Sessions, Dashboard

LEMMA DictationPressed ==
  ASSUME DictationShape, DictationCore, Calm', ~Cancels, toggleRecord \/ handleGlobalHotkey \/ onRelease \/ cancelPressed
  PROVE  DictationCore'
<1>1. CASE toggleRecord
  <2>1. CASE ui.phase = "idle" /\ DictationDo(<< StartRequested(TRUE) >>)
    <3>1. /\ ui' = dashboardReducer(ui, StartRequested(TRUE)) /\ tasks' = watchDictationSagas(tasks, StartRequested(TRUE))
          /\ srv' = srv /\ ui.home = TRUE
      BY <1>1, <2>1, DictationDispatched DEF toggleRecord, DictationCore, Sessions, Dashboard
    <3> QED BY <2>1, <3>1, DictationStarting
  <2>2. CASE ui.phase = "active" /\ stopRecording
    <3>1. ui.home = TRUE
      BY <1>1 DEF toggleRecord, DictationCore, Sessions, Dashboard
    <3> QED BY <2>2, <3>1, DictationRecorded
  <2> QED BY <1>1, <2>1, <2>2 DEF toggleRecord
<1>2. CASE handleGlobalHotkey
  <2>0. ui.home = TRUE
    BY <1>2 DEF handleGlobalHotkey, DictationCore, Sessions, Dashboard
  <2>1. CASE ui.held # NoSession
    BY <1>2, <2>0, <2>1, DictationRecorded DEF handleGlobalHotkey
  <2>2. CASE ui.held = NoSession
    <3>1. Pressed(StartRequested(FALSE), ui.phase # "idle")
      BY <1>2, <2>2 DEF handleGlobalHotkey
    <3>2. ui.phase = "idle"
      <4>1. srv' = IF ui.phase # "idle" THEN Upset(srv) ELSE srv
        BY <3>1, Zenon DEF Pressed
      <4> QED BY <4>1 DEF Upset, Calm, DictationShape
    <3>3. /\ ui' = dashboardReducer(ui, StartRequested(FALSE)) /\ tasks' = watchDictationSagas(tasks, StartRequested(FALSE))
          /\ srv' = srv
      BY <3>1, <3>2, Zenon DEF Pressed
    <3> QED BY <2>0, <3>2, <3>3, DictationStarting
  <2> QED BY <2>1, <2>2
<1>3. CASE onRelease
  <2>0. ui.home = TRUE
    BY <1>3 DEF onRelease, DictationCore, Sessions, Dashboard
  <2> QED BY <1>3, <2>0, DictationRecorded DEF onRelease
<1>4. CASE cancelPressed
  <2>1. Pressed(CancelRequested, ui.phase = "cancelling")
    BY <1>4 DEF cancelPressed
  <2>2. ui.phase # "cancelling"
    <3>1. srv' = IF ui.phase = "cancelling" THEN Upset(srv) ELSE srv
      BY <2>1, Zenon DEF Pressed
    <3> QED BY <3>1 DEF Upset, Calm, DictationShape
  <2>3. /\ ui' = dashboardReducer(ui, CancelRequested) /\ tasks' = watchDictationSagas(tasks, CancelRequested) /\ srv' = srv
    BY <2>1, <2>2, Zenon DEF Pressed
  <2> QED BY <2>2, <2>3, DictationCancelling
<1> QED BY <1>1, <1>2, <1>3, <1>4

LEMMA DictationOpens ==
  ASSUME DictationShape, DictationCore, Calm', DashboardLeft \/ DashboardOpened PROVE DictationCore'
<1>1. CASE DashboardLeft
  <2>1. ui.phase = "idle"
    BY <1>1 DEF DashboardLeft, Upset, Calm, DictationShape
  <2>2. ui' = dashboardReducer(ui, [type |-> "LEFT"]) /\ tasks' = tasks /\ srv' = srv
    BY <1>1, <2>1 DEF DashboardLeft
  <2> QED BY <2>1, <2>2, DictationLeft
<1>2. CASE DashboardOpened
  <2> DEFINE a == [type |-> "OPENED"]
  <2>1. DictationDo(<< a >>)
    BY <1>2 DEF DashboardOpened
  <2>2. ui' = dashboardReducer(ui, a) /\ tasks' = watchDictationSagas(tasks, a) /\ srv' = srv
    BY <2>1, DictationDispatched
  <2>3. watchDictationSagas(tasks, a) = tasks
    BY DEF watchDictationSagas
  <2> QED BY <2>2, <2>3, DictationOpened
<1> QED BY <1>1, <1>2

(* The answers. *)
Answered(i, ans) == [tasks EXCEPT ![i] = [tasks[i] EXCEPT !.pc = "back", !.ok = TRUE, !.ans = ans]]
LEMMA DictationBack ==
  ASSUME AreTasks(tasks), NEW i \in DOMAIN tasks, NEW ans
  PROVE  /\ \A j \in DOMAIN tasks : j # i => Answered(i, ans)[j] = tasks[j]
         /\ Back(Answered(i, ans)[i], tasks[i], TRUE, ans) /\ DOMAIN Answered(i, ans) = DOMAIN tasks
<1> DEFINE b == [tasks[i] EXCEPT !.pc = "back", !.ok = TRUE, !.ans = ans]
<1>1. Back(b, tasks[i], TRUE, ans)
  BY DEF AreTasks, IsTask, Back
<1>2. DOMAIN tasks = 1 .. Len(tasks) /\ Len(tasks) \in Nat /\ tasks = [k \in 1 .. Len(tasks) |-> tasks[k]]
  BY TasksAre DEF AreTasks
<1> HIDE DEF b
<1> DEFINE us == [tasks EXCEPT ![i] = b]
<1>3. us[i] = b /\ DOMAIN us = DOMAIN tasks /\ \A j \in DOMAIN tasks : j # i => us[j] = tasks[j]
  BY <1>2
<1> QED BY <1>1, <1>3 DEF Answered, b

LEMMA DictationDelivered ==
  ASSUME AreTasks(tasks), NEW i \in DOMAIN tasks, tasks[i].live = TRUE, NEW ans, NEW h,
         HandedOver(tasks', tasks, i, TRUE, ans, h), NEW u, NEW s, Sessions(DOMAIN tasks, Answered(i, ans), u, s)
  PROVE  AreTasks(tasks') /\ Sessions(DOMAIN tasks', tasks', u, s)
<1> DEFINE us == Answered(i, ans)
<1>1. Back(us[i], tasks[i], TRUE, ans) /\ DOMAIN us = DOMAIN tasks /\ \A j \in DOMAIN tasks : j # i => us[j] = tasks[j]
  BY DictationBack
<1>0. Sessions(DOMAIN us, us, u, s)
  BY <1>1
<1> HIDE DEF us
<1>6. us[i].live = TRUE
  BY <1>1 DEF Back
<1>2. Indices(h, tasks', us)
  BY <1>1 DEF HandedOver, Indices
<1>3. ASSUME NEW k \in DOMAIN tasks' PROVE h[k] \in DOMAIN us /\ Same(tasks'[k], us[h[k]]) /\ tasks'[k].live = us[h[k]].live
  <2>1. h[k] \in DOMAIN us
    BY <1>2 DEF Indices
  <2>2. CASE h[k] # i
    BY <1>1, <2>1, <2>2 DEF HandedOver
  <2>3. CASE h[k] = i
    <3>1. Back(tasks'[k], tasks[i], TRUE, ans)
      BY <2>3 DEF HandedOver
    <3> QED BY <1>1, <1>6, <2>1, <2>3, <3>1 DEF Back, Same
  <2> QED BY <2>1, <2>2, <2>3
<1>4. \A j \in DOMAIN us : Hits(h, j)
  BY <1>1 DEF HandedOver
<1>5. Sessions(DOMAIN tasks', tasks', u, s)
  BY <1>0, <1>2, <1>3, <1>4, SessionsCarry
<1> QED BY <1>5 DEF HandedOver

\* A request is answered: s is the backend then.
LEMMA DictationTold ==
  ASSUME DictationCore, NEW i \in DOMAIN tasks, tasks[i].pc = "call", tasks[i].saga \in {"dictationStopSaga", "dictationCancelSaga"},
         NEW s, s.started = srv.started, s.active = IF srv.active = tasks[i].arg THEN 0 ELSE srv.active, NEW ans
  PROVE  Sessions(DOMAIN tasks, Answered(i, ans), ui, s)
<1> DEFINE us == Answered(i, ans)
<1>1. Back(us[i], tasks[i], TRUE, ans) /\ \A j \in DOMAIN tasks : j # i => us[j] = tasks[j]
  BY DictationBack DEF DictationCore
<1> HIDE DEF us
<1>2. \A j \in DOMAIN tasks : Sound(tasks[j], ui, srv)
  BY DEF DictationCore, Sessions, Crowd
<1>3. \A j \in DOMAIN tasks : us[j].saga = tasks[j].saga /\ us[j].arg = tasks[j].arg
  BY <1>1 DEF Back
<1>4. ASSUME NEW j \in DOMAIN tasks PROVE Sound(us[j], ui, s)
  <2>1. CASE j # i
    BY <1>1, <1>2, <2>1 DEF Sound
  <2>2. CASE j = i
    BY <1>1, <1>2, <2>2 DEF Sound, Back
  <2> QED BY <2>1, <2>2
<1>5. ASSUME NEW j \in DOMAIN tasks, NEW k \in DOMAIN tasks, j # k PROVE ~Clash(us[j], us[k])
  <2>1. ~Clash(tasks[j], tasks[k])
    BY <1>5 DEF DictationCore, Sessions, Crowd
  <2>2. CASE j # i
    BY <1>1, <1>3, <2>1, <2>2 DEF Clash
  <2>3. CASE j = i
    BY <1>1, <1>3, <2>1, <2>3 DEF Clash
  <2> QED BY <2>2, <2>3
<1>6. Dashboard(ui, s)
  <2>1. srv.started \in Nat /\ srv.active \in 0 .. srv.started /\ s.active \in {0, srv.active}
    BY DEF DictationCore, Sessions, Dashboard
  <2>2. s.active \in 0 .. s.started
    BY <2>1
  <2> QED BY <2>1, <2>2 DEF DictationCore, Sessions, Dashboard
<1>7. Owned(DOMAIN tasks, us, ui, s)
  <2> SUFFICES ASSUME s.active # 0, ui.session # s.active PROVE \E j \in DOMAIN tasks : Owns(us[j], s.active)
    BY DEF Owned
  <2>1. s.active = srv.active /\ srv.active # tasks[i].arg
    OBVIOUS
  <2>2. PICK j \in DOMAIN tasks : Owns(tasks[j], s.active)
    BY <2>1 DEF DictationCore, Sessions, Owned
  <2>3. j # i
    BY <2>1, <2>2 DEF Owns
  <2> QED BY <1>1, <2>2, <2>3
<1>8. Stopping(DOMAIN tasks, us, ui, s)
  <2> SUFFICES ASSUME ui.phase = "stopping", s.active = ui.session PROVE \E j \in DOMAIN tasks : Ends(us[j], ui.session)
    BY DEF Stopping
  <2>1. ui.session # 0
    BY DEF DictationCore, Sessions, Dashboard
  <2>2. s.active = srv.active /\ srv.active # tasks[i].arg
    BY <2>1
  <2>3. PICK j \in DOMAIN tasks : Ends(tasks[j], ui.session)
    BY <2>2 DEF DictationCore, Sessions, Stopping
  <2>4. j # i
    BY <2>2, <2>3 DEF Ends
  <2> QED BY <1>1, <2>3, <2>4
<1> QED BY <1>4, <1>5, <1>6, <1>7, <1>8 DEF Sessions, Crowd, us

\* The start is refused: the backend has a session.
LEMMA DictationRefused ==
  ASSUME DictationCore, NEW i \in DOMAIN tasks, tasks[i].pc = "call", tasks[i].saga = "dictationStartSaga",
         Running("recorderStop") = {}
  PROVE  Sessions(DOMAIN tasks, Answered(i, 0), ui, srv)
<1> DEFINE us == Answered(i, 0)
<1>1. Back(us[i], tasks[i], TRUE, 0) /\ \A j \in DOMAIN tasks : j # i => us[j] = tasks[j]
  BY DictationBack DEF DictationCore
<1> HIDE DEF us
<1>2. \A j \in DOMAIN tasks : Sound(tasks[j], ui, srv)
  BY DEF DictationCore, Sessions, Crowd
<1>3. \A j \in DOMAIN tasks : us[j].saga = tasks[j].saga /\ us[j].arg = tasks[j].arg
  BY <1>1 DEF Back
<1>4. srv.started \in Nat /\ 0 \in 0 .. srv.started
  BY DEF DictationCore, Sessions, Dashboard
<1>5. ASSUME NEW j \in DOMAIN tasks PROVE Sound(us[j], ui, srv)
  <2>1. CASE j # i
    BY <1>1, <1>2, <2>1
  <2>2. CASE j = i
    BY <1>1, <1>2, <1>4, <2>2 DEF Sound, Back
  <2> QED BY <2>1, <2>2
<1>6. ASSUME NEW j \in DOMAIN tasks, NEW k \in DOMAIN tasks, j # k PROVE ~Clash(us[j], us[k])
  <2>1. ~Clash(tasks[j], tasks[k]) /\ us[k].saga # "recorderStop"
    BY <1>3, <1>6 DEF DictationCore, Sessions, Crowd, Running
  <2>2. CASE j # i
    BY <1>1, <1>3, <2>1, <2>2 DEF Clash
  <2>3. CASE j = i
    <3>1. us[j].ans = 0 /\ (us[k].saga = "getUserMedia" => us[k].arg.id # 0)
      BY <1>1, <1>2, <1>3, <1>4, <2>3 DEF Sound, Back
    <3> QED BY <1>3, <2>1, <2>3, <3>1 DEF Clash
  <2> QED BY <2>2, <2>3
<1>7. Owned(DOMAIN tasks, us, ui, srv)
  <2> SUFFICES ASSUME srv.active # 0, ui.session # srv.active PROVE \E j \in DOMAIN tasks : Owns(us[j], srv.active)
    BY DEF Owned
  <2>1. PICK j \in DOMAIN tasks : Owns(tasks[j], srv.active)
    BY DEF DictationCore, Sessions, Owned
  <2>2. j # i
    BY <2>1 DEF Owns
  <2> QED BY <1>1, <2>1, <2>2
<1>8. Stopping(DOMAIN tasks, us, ui, srv)
  BY <1>2 DEF Sound, Stopping
<1> QED BY <1>5, <1>6, <1>7, <1>8 DEF Sessions, Crowd, DictationCore, us

\* The start is granted: the session is that of the answer under way.
LEMMA DictationGranted ==
  ASSUME DictationCore, NEW i \in DOMAIN tasks, tasks[i].pc = "call", tasks[i].saga = "dictationStartSaga",
         Running("recorderStop") = {}, srv.active = 0, NEW s, s.started = srv.started + 1, s.active = srv.started + 1
  PROVE  Sessions(DOMAIN tasks, Answered(i, srv.started + 1), ui, s)
<1> DEFINE us == Answered(i, srv.started + 1)
           n == srv.started
<1>1. Back(us[i], tasks[i], TRUE, n + 1) /\ \A j \in DOMAIN tasks : j # i => us[j] = tasks[j]
  BY DictationBack DEF DictationCore
<1> HIDE DEF us
<1>2. \A j \in DOMAIN tasks : Sound(tasks[j], ui, srv)
  BY DEF DictationCore, Sessions, Crowd
<1>3. \A j \in DOMAIN tasks : us[j].saga = tasks[j].saga /\ us[j].arg = tasks[j].arg
  BY <1>1 DEF Back
<1>4. n \in Nat /\ ui.phase = "starting" /\ n + 1 \in 0 .. s.started
  BY <1>2 DEF DictationCore, Sessions, Dashboard, Sound
<1>5. ASSUME NEW j \in DOMAIN tasks PROVE Sound(us[j], ui, s)
  <2>0. (0 .. n) \subseteq 0 .. s.started /\ (1 .. n) \subseteq 1 .. s.started /\ \A x \in 1 .. n : x # s.active
    BY <1>4
  <2>1. CASE j # i
    <3>1. Sound(tasks[j], ui, srv) /\ us[j] = tasks[j]
      BY <1>1, <1>2, <2>1
    <3> QED BY <3>1, <2>0 DEF Sound
  <2>2. CASE j = i
    BY <1>1, <1>2, <1>4, <2>2 DEF Sound, Back
  <2> QED BY <2>1, <2>2
<1>6. ASSUME NEW j \in DOMAIN tasks, NEW k \in DOMAIN tasks, j # k PROVE ~Clash(us[j], us[k])
  <2>1. ~Clash(tasks[j], tasks[k]) /\ us[k].saga # "recorderStop"
    BY <1>3, <1>6 DEF DictationCore, Sessions, Crowd, Running
  <2>2. CASE j # i
    BY <1>1, <1>3, <2>1, <2>2 DEF Clash
  <2>3. CASE j = i
    <3>1. us[j].ans = n + 1 /\ (us[k].saga = "getUserMedia" => us[k].arg.id \in 1 .. n)
      BY <1>1, <1>2, <1>3, <2>3 DEF Sound, Back
    <3>2. us[k].saga = "getUserMedia" => us[k].arg.id # us[j].ans
      BY <1>4, <3>1
    <3> QED BY <1>3, <2>1, <2>3, <3>2 DEF Clash
  <2> QED BY <2>2, <2>3
<1>7. Owned(DOMAIN tasks, us, ui, s)
  BY <1>1 DEF Owned, Owns, Back
<1>8. Stopping(DOMAIN tasks, us, ui, s)
  BY <1>4 DEF Stopping
<1>9. Dashboard(ui, s)
  <2>1. n \in Nat /\ ui.session \in 0 .. n
    BY DEF DictationCore, Sessions, Dashboard
  <2>2. s.started \in Nat /\ s.active \in 0 .. s.started /\ ui.session \in 0 .. s.started
    BY <2>1
  <2> QED BY <2>2 DEF DictationCore, Sessions, Dashboard
<1> QED BY <1>5, <1>6, <1>7, <1>8, <1>9 DEF Sessions, Crowd, us

\* A promise of the dashboard is kept.
LEMMA DictationKept ==
  ASSUME DictationCore, NEW i \in DOMAIN tasks, tasks[i].saga \in {"getUserMedia", "recorderStop", "dictationInject"}, NEW ans
  PROVE  Sessions(DOMAIN tasks, Answered(i, ans), ui, srv)
<1> DEFINE us == Answered(i, ans)
<1>1. Back(us[i], tasks[i], TRUE, ans) /\ \A j \in DOMAIN tasks : j # i => us[j] = tasks[j]
  BY DictationBack DEF DictationCore
<1> HIDE DEF us
<1>2. \A j \in DOMAIN tasks : Sound(tasks[j], ui, srv)
  BY DEF DictationCore, Sessions, Crowd
<1>3. \A j \in DOMAIN tasks : us[j].saga = tasks[j].saga /\ us[j].arg = tasks[j].arg
  BY <1>1 DEF Back
<1>5. ASSUME NEW j \in DOMAIN tasks PROVE Sound(us[j], ui, srv)
  <2>1. CASE j # i
    BY <1>1, <1>2, <2>1
  <2>2. CASE j = i
    BY <1>1, <1>2, <2>2 DEF Sound, Back
  <2> QED BY <2>1, <2>2
<1>6. ASSUME NEW j \in DOMAIN tasks, NEW k \in DOMAIN tasks, j # k PROVE ~Clash(us[j], us[k])
  <2>1. ~Clash(tasks[j], tasks[k])
    BY <1>6 DEF DictationCore, Sessions, Crowd
  <2>2. CASE j # i
    BY <1>1, <1>3, <2>1, <2>2 DEF Clash
  <2>3. CASE j = i
    BY <1>3, <2>1, <2>3 DEF Clash
  <2> QED BY <2>2, <2>3
<1>7. \A j \in DOMAIN tasks : Owns(tasks[j], srv.active) \/ Ends(tasks[j], ui.session) => j # i
  BY DEF Owns, Ends
<1>8. Owned(DOMAIN tasks, us, ui, srv)
  BY <1>1, <1>7 DEF DictationCore, Sessions, Owned
<1>9. Stopping(DOMAIN tasks, us, ui, srv)
  BY <1>1, <1>7 DEF DictationCore, Sessions, Stopping
<1> QED BY <1>5, <1>6, <1>8, <1>9 DEF Sessions, Crowd, DictationCore, us

LEMMA DictationAnswer ==
  ASSUME DictationCore, Calm', NEW i \in DOMAIN tasks, NEW sv, NEW ans, Answer(i, sv, ans), Sessions(DOMAIN tasks, Answered(i, ans), ui, sv)
  PROVE  DictationCore'
<1>1. AnswerTelling(i, sv, ans, TRUE) /\ ui' = ui /\ srv' = sv
  BY DEF Answer, AnswerTelling
<1>2. PICK ok, h : ok \in BOOLEAN /\ HandedOver(tasks', tasks, i, ok, ans, h) /\ (ok \/ broken')
  BY <1>1, AnswerTasks DEF DictationCore
<1>3. ok = TRUE /\ tasks[i].live = TRUE
  BY <1>2 DEF Calm, DictationCore, Sessions, Crowd, Sound
<1>4. HandedOver(tasks', tasks, i, TRUE, ans, h)
  BY <1>2, <1>3
<1>5. AreTasks(tasks') /\ Sessions(DOMAIN tasks', tasks', ui, sv)
  BY <1>3, <1>4, DictationDelivered DEF DictationCore
<1> QED BY <1>1, <1>5 DEF DictationCore

LEMMA DictationAnswered == ASSUME DictationShape, DictationCore, Calm', DictationAnswers PROVE DictationCore'
<1>1. PICK i \in InState("call") :
        \/ Running("recorderStop") = {} /\ (DictationStart(i) \/ DictationStop(i) \/ DictationCancel(i))
        \/ i \in Promises /\ Elapse(i)
        \/ MicrophoneRefused(i)
        \/ i \notin Promises /\ Unreached(i)
  BY DEF DictationAnswers
<1>2. i \in DOMAIN tasks /\ tasks[i].pc = "call"
  BY DEF InState
<1>3. CASE Running("recorderStop") = {} /\ DictationStart(i)
  <2>1. tasks[i].saga = "dictationStartSaga"
    BY <1>3 DEF DictationStart
  <2>2. CASE srv.active # 0
    <3>1. Answer(i, srv, 0)
      BY <1>3, <2>2 DEF DictationStart, NoSession
    <3> QED BY <1>2, <1>3, <2>1, <3>1, DictationRefused, DictationAnswer
  <2>3. CASE srv.active = 0
    <3> DEFINE sv == [srv EXCEPT !.active = srv.started + 1, !.started = @ + 1]
    <3>1. Answer(i, sv, srv.started + 1)
      BY <1>3, <2>3 DEF DictationStart, NoSession
    <3>2. sv.started = srv.started + 1 /\ sv.active = srv.started + 1
      BY DEF DictationShape
    <3> HIDE DEF sv
    <3>3. Sessions(DOMAIN tasks, Answered(i, srv.started + 1), ui, sv)
      BY <1>2, <1>3, <2>1, <2>3, <3>2, DictationGranted
    <3> QED BY <1>2, <3>1, <3>3, DictationAnswer
  <2> QED BY <2>2, <2>3
<1>4. CASE DictationStop(i)
  <2> DEFINE sv == [srv EXCEPT !.active = NoSession]
  <2>1. sv.started = srv.started /\ sv.active = 0
    BY DEF DictationShape, NoSession
  <2>2. tasks[i].saga = "dictationStopSaga"
    BY <1>4 DEF DictationStop
  <2> HIDE DEF sv
  <2>3. CASE srv.active = tasks[i].arg
    <3>1. PICK text \in BOOLEAN : Answer(i, sv, text)
      BY <1>4, <2>3, Zenon DEF DictationStop, sv
    <3>2. Sessions(DOMAIN tasks, Answered(i, text), ui, sv)
      BY <1>2, <2>1, <2>2, <2>3, DictationTold
    <3> QED BY <1>2, <3>1, <3>2, DictationAnswer
  <2>4. CASE srv.active # tasks[i].arg
    <3>1. Answer(i, srv, FALSE)
      BY <1>4, <2>4, Zenon DEF DictationStop
    <3>2. Sessions(DOMAIN tasks, Answered(i, FALSE), ui, srv)
      BY <1>2, <2>2, <2>4, DictationTold
    <3> QED BY <1>2, <3>1, <3>2, DictationAnswer
  <2> QED BY <2>3, <2>4
<1>5. CASE DictationCancel(i)
  <2> DEFINE sv == IF srv.active = tasks[i].arg THEN [srv EXCEPT !.active = NoSession] ELSE srv
  <2>1. sv.started = srv.started /\ sv.active = IF srv.active = tasks[i].arg THEN 0 ELSE srv.active
    BY DEF DictationShape, NoSession
  <2>2. tasks[i].saga = "dictationCancelSaga" /\ Answer(i, sv, Nothing)
    BY <1>5 DEF DictationCancel
  <2> HIDE DEF sv
  <2>3. Sessions(DOMAIN tasks, Answered(i, Nothing), ui, sv)
    BY <1>2, <2>1, <2>2, DictationTold
  <2> QED BY <1>2, <2>2, <2>3, DictationAnswer
<1>6. CASE i \in Promises /\ Elapse(i)
  <2>1. tasks[i].saga \in {"getUserMedia", "recorderStop", "dictationInject"}
    BY <1>6 DEF Promises, Running
  <2>2. Deliver(tasks, i, TRUE, Nothing) /\ ui' = ui /\ srv' = srv
    BY <1>6 DEF Elapse
  <2>3. PICK h : HandedOver(tasks', tasks, i, TRUE, Nothing, h)
    BY <1>2, <2>2, DeliverTasks DEF DictationCore
  <2>4. tasks[i].live = TRUE
    BY <1>2 DEF DictationCore, Sessions, Crowd, Sound
  <2>5. Sessions(DOMAIN tasks, Answered(i, Nothing), ui, srv)
    BY <1>2, <2>1, DictationKept
  <2>6. AreTasks(tasks') /\ Sessions(DOMAIN tasks', tasks', ui, srv)
    BY <1>2, <2>3, <2>4, <2>5, DictationDelivered DEF DictationCore
  <2> QED BY <2>2, <2>6 DEF DictationCore
<1>7. CASE MicrophoneRefused(i)
  BY <1>7 DEF MicrophoneRefused, Upset, Calm, DictationShape
<1>8. CASE Unreached(i)
  BY <1>8 DEF Unreached, Calm
<1> QED BY <1>1, <1>3, <1>4, <1>5, <1>6, <1>7, <1>8

(* The sagas resume. *)
LEMMA DictationOthers ==
  ASSUME AreTasks(tasks), NEW i \in DOMAIN tasks, NEW v, NEW s, Sessions(DOMAIN tasks \ {i}, tasks, v, s)
  PROVE  AreTasks(Rest(i)) /\ Sessions(DOMAIN Rest(i), Rest(i), v, s)
<1> DEFINE others == Rest(i)
           I == DOMAIN tasks \ {i}
<1>1. PICK h : Without(others, tasks, i, h)
  BY RestTasks
<1> HIDE DEF others
<1>2. \A k \in DOMAIN others : h[k] \in I /\ Same(others[k], tasks[h[k]]) /\ others[k].live = tasks[h[k]].live
  BY <1>1 DEF Without, Indices
<1>3. Indices(h, others, tasks) /\ \A j \in I : Hits(h, j)
  BY <1>1 DEF Without
<1>4. I \in SUBSET DOMAIN tasks
  OBVIOUS
<1>5. Sessions(I, tasks, v, s)
  OBVIOUS
<1> HIDE DEF I
<1>6. Sessions(DOMAIN others, others, v, s)
  BY <1>2, <1>3, <1>4, <1>5, SessionsCarry
<1>7. AreTasks(others)
  BY <1>1 DEF Without
<1> QED BY <1>6, <1>7 DEF others

Resumed(i, puts) == Resume(dashboardReducer, watchDictationSagas, i, puts, << >>, FALSE)
LEMMA DictationPutNone ==
  ASSUME NEW i, Resumed(i, << >>) PROVE ui' = ui /\ tasks' = Rest(i) /\ srv' = srv
<1>1. /\ ui' = Reduced(dashboardReducer, ui, << >>) /\ tasks' = Watched(watchDictationSagas, Rest(i), << >>) /\ srv' = srv
  BY DEF Resumed, Resume, Rest
<1>2. DR!Fold(0, ui, << >>) = Reduced(dashboardReducer, ui, << >>)
  BY DEF DR!Fold, Reduced, DR!Folds, DR!Step, DR!Greatest, FoldLeft, MapThenFoldSet, Max
<1>3. DW!Fold(0, Rest(i), << >>) = Watched(watchDictationSagas, Rest(i), << >>)
  BY DEF DW!Fold, Watched, DW!Folds, DW!Step, DW!Greatest, FoldLeft, MapThenFoldSet, Max
<1>4. DR!Fold(0, ui, << >>) = ui /\ DW!Fold(0, Rest(i), << >>) = Rest(i)
  BY DR!FoldNone, DW!FoldNone
<1> QED BY <1>1, <1>2, <1>3, <1>4, Zenon
LEMMA DictationPutOne ==
  ASSUME NEW i, NEW a, Resumed(i, <<a>>)
  PROVE  ui' = dashboardReducer(ui, a) /\ tasks' = watchDictationSagas(Rest(i), a) /\ srv' = srv
<1>1. /\ ui' = Reduced(dashboardReducer, ui, <<a>>) /\ tasks' = Watched(watchDictationSagas, Rest(i), <<a>>) /\ srv' = srv
  BY DEF Resumed, Resume, Rest
<1>2. DR!Fold(0, ui, <<a>>) = Reduced(dashboardReducer, ui, <<a>>)
  BY DEF DR!Fold, Reduced, DR!Folds, DR!Step, DR!Greatest, FoldLeft, MapThenFoldSet, Max
<1>3. DW!Fold(0, Rest(i), <<a>>) = Watched(watchDictationSagas, Rest(i), <<a>>)
  BY DEF DW!Fold, Watched, DW!Folds, DW!Step, DW!Greatest, FoldLeft, MapThenFoldSet, Max
<1>4. DR!Fold(0, ui, <<a>>) = dashboardReducer(ui, a) /\ DW!Fold(0, Rest(i), <<a>>) = watchDictationSagas(Rest(i), a)
  BY DR!FoldOne, DW!FoldOne
<1> QED BY <1>1, <1>2, <1>3, <1>4, Zenon
LEMMA DictationPutTwo ==
  ASSUME NEW i, NEW a, NEW b, Resumed(i, <<a, b>>)
  PROVE  /\ ui' = dashboardReducer(dashboardReducer(ui, a), b)
         /\ tasks' = watchDictationSagas(watchDictationSagas(Rest(i), a), b) /\ srv' = srv
<1>1. /\ ui' = Reduced(dashboardReducer, ui, <<a, b>>) /\ tasks' = Watched(watchDictationSagas, Rest(i), <<a, b>>) /\ srv' = srv
  BY DEF Resumed, Resume, Rest
<1>2. DR!Fold(0, ui, <<a, b>>) = Reduced(dashboardReducer, ui, <<a, b>>)
  BY DEF DR!Fold, Reduced, DR!Folds, DR!Step, DR!Greatest, FoldLeft, MapThenFoldSet, Max
<1>3. DW!Fold(0, Rest(i), <<a, b>>) = Watched(watchDictationSagas, Rest(i), <<a, b>>)
  BY DEF DW!Fold, Watched, DW!Folds, DW!Step, DW!Greatest, FoldLeft, MapThenFoldSet, Max
<1>4. DR!Fold(0, ui, <<a, b>>) = dashboardReducer(dashboardReducer(ui, a), b)
  BY DR!FoldTwo
<1>5. DW!Fold(0, Rest(i), <<a, b>>) = watchDictationSagas(watchDictationSagas(Rest(i), a), b)
  BY DW!FoldTwo
<1> QED BY <1>1, <1>2, <1>3, <1>4, <1>5, Zenon

\* What was sound stays so without a task that owns and ends nothing.
LEMMA DictationWithout ==
  ASSUME DictationCore, NEW i \in DOMAIN tasks, ~Owns(tasks[i], srv.active), ~Ends(tasks[i], ui.session)
  PROVE  Sessions(DOMAIN tasks \ {i}, tasks, ui, srv)
BY DEF DictationCore, Sessions, Crowd, Owned, Stopping

LEMMA DictationShown ==
  ASSUME DictationCore, NEW i \in DOMAIN tasks, NEW v, Sessions(DOMAIN tasks \ {i}, tasks, v, srv), ui' = v, tasks' = Rest(i), srv' = srv
  PROVE  DictationCore'
BY DictationOthers DEF DictationCore

LEMMA DictationStarted ==
  ASSUME DictationCore, NEW i \in DOMAIN tasks, tasks[i].saga = "dictationStartSaga", tasks[i].pc = "back", tasks[i].ans # 0,
         Resumed(i, << [type |-> "DICTATION_STARTED", id |-> tasks[i].ans] >>)
  PROVE  DictationCore'
<1> DEFINE a == [type |-> "DICTATION_STARTED", id |-> tasks[i].ans]
           v == [ui EXCEPT !.phase = "active", !.session = tasks[i].ans]
           I == DOMAIN tasks \ {i}
<1>1. ui.phase = "starting" /\ tasks[i].ans \in 0 .. srv.started
  BY DEF DictationCore, Sessions, Crowd, Sound
<1>2. ui' = dashboardReducer(ui, a) /\ tasks' = watchDictationSagas(Rest(i), a) /\ srv' = srv
  BY DictationPutOne
<1>3. dashboardReducer(ui, a) = v
  BY <1>1 DEF dashboardReducer, dictationReducer
<1>4. watchDictationSagas(Rest(i), a) = Rest(i)
  BY DEF watchDictationSagas
<1>5. /\ DOMAIN v = DOMAIN ui /\ v.phase = "active" /\ v.session = tasks[i].ans /\ v.home = ui.home
      /\ v.recording = ui.recording /\ v.mics = ui.mics /\ v.held = ui.held /\ v.mount = ui.mount
  BY DEF DictationCore, Sessions, Dashboard
<1> HIDE DEF v, a
<1>6. Dashboard(v, srv)
  BY <1>1, <1>5 DEF DictationCore, Sessions, Dashboard, Phases
<1>7. ASSUME NEW j \in I PROVE Sound(tasks[j], v, srv)
  <2>1. Sound(tasks[j], ui, srv) /\ ~Clash(tasks[i], tasks[j])
    BY DEF DictationCore, Sessions, Crowd
  <2>2. tasks[j].saga \notin {"dictationStartSaga", "recorderStop", "dictationCancelSaga", "dictationInject"}
    BY <1>1, <2>1 DEF Clash, Sound
  <2>3. tasks[j].saga = "getUserMedia" => tasks[j].arg.id # v.session
    BY <1>5, <2>1 DEF Clash
  <2>4. tasks[j].saga = "getUserMedia" => tasks[j].arg # Asked(v)
    BY <2>3 DEF Asked
  <2> QED BY <2>1, <2>2, <2>4 DEF Sound
<1>8. Crowd(I, tasks, v, srv)
  BY <1>7 DEF DictationCore, Sessions, Crowd
<1>9. Owned(I, tasks, v, srv)
  <2> SUFFICES ASSUME srv.active # 0, v.session # srv.active PROVE \E j \in I : Owns(tasks[j], srv.active)
    BY DEF Owned
  <2>1. ui.session = 0
    BY <1>1 DEF DictationCore, Sessions, Dashboard
  <2>2. PICK j \in DOMAIN tasks : Owns(tasks[j], srv.active)
    BY <2>1 DEF DictationCore, Sessions, Owned
  <2>3. j # i
    BY <1>5, <2>2 DEF Owns
  <2> QED BY <2>2, <2>3
<1>10. Stopping(I, tasks, v, srv)
  BY <1>5 DEF Stopping
<1>11. Sessions(I, tasks, v, srv)
  BY <1>6, <1>8, <1>9, <1>10 DEF Sessions
<1> QED BY <1>2, <1>3, <1>4, <1>11, DictationShown

LEMMA DictationNotStarted ==
  ASSUME DictationCore, NEW i \in DOMAIN tasks, tasks[i].saga = "dictationStartSaga", tasks[i].pc = "back", tasks[i].ans = 0,
         Resumed(i, << DictationFailed >>)
  PROVE  DictationCore'
<1> DEFINE a == DictationFailed
           v == [ui EXCEPT !.phase = "failed", !.session = NoSession, !.persist = FALSE]
           I == DOMAIN tasks \ {i}
<1>1. ui.phase = "starting"
  BY DEF DictationCore, Sessions, Crowd, Sound
<1>2. ui' = dashboardReducer(ui, a) /\ tasks' = watchDictationSagas(Rest(i), a) /\ srv' = srv
  BY DictationPutOne
<1>3. dashboardReducer(ui, a) = v
  BY <1>1 DEF dashboardReducer, dictationReducer, DictationFailed
<1>4. watchDictationSagas(Rest(i), a) = Rest(i)
  BY DEF watchDictationSagas, DictationFailed
<1>5. /\ DOMAIN v = DOMAIN ui /\ v.phase = "failed" /\ v.session = 0 /\ v.home = ui.home
      /\ v.recording = ui.recording /\ v.mics = ui.mics /\ v.held = ui.held /\ v.mount = ui.mount
  BY DEF DictationCore, Sessions, Dashboard, NoSession
<1> HIDE DEF v, a
<1>6. Dashboard(v, srv)
  BY <1>1, <1>5 DEF DictationCore, Sessions, Dashboard, Phases
<1>7. ASSUME NEW j \in I PROVE Sound(tasks[j], v, srv)
  <2>1. Sound(tasks[j], ui, srv) /\ ~Clash(tasks[i], tasks[j])
    BY DEF DictationCore, Sessions, Crowd
  <2>2. tasks[j].saga # "dictationStartSaga"
    BY <2>1 DEF Clash
  <2> QED BY <1>1, <1>5, <2>1, <2>2 DEF Sound
<1>8. Crowd(I, tasks, v, srv)
  BY <1>7 DEF DictationCore, Sessions, Crowd
<1>9. Owned(I, tasks, v, srv)
  <2> SUFFICES ASSUME srv.active # 0 PROVE \E j \in I : Owns(tasks[j], srv.active)
    BY DEF Owned
  <2>1. ui.session = 0
    BY <1>1 DEF DictationCore, Sessions, Dashboard
  <2>2. PICK j \in DOMAIN tasks : Owns(tasks[j], srv.active)
    BY <2>1 DEF DictationCore, Sessions, Owned
  <2>3. j # i
    BY <2>2 DEF Owns
  <2> QED BY <2>2, <2>3
<1>10. Stopping(I, tasks, v, srv)
  BY <1>5 DEF Stopping
<1>11. Sessions(I, tasks, v, srv)
  BY <1>6, <1>8, <1>9, <1>10 DEF Sessions
<1> QED BY <1>2, <1>3, <1>4, <1>11, DictationShown

LEMMA DictationStopped ==
  ASSUME DictationCore, NEW i \in DOMAIN tasks, tasks[i].saga = "dictationStopSaga", tasks[i].pc = "back", NEW text,
         Resumed(i, << [type |-> "DICTATION_STOPPED", text |-> text] >>)
  PROVE  DictationCore'
<1> DEFINE a == [type |-> "DICTATION_STOPPED", text |-> text]
           I == DOMAIN tasks \ {i}
<1>1. ui' = dashboardReducer(ui, a) /\ tasks' = watchDictationSagas(Rest(i), a) /\ srv' = srv
  BY DictationPutOne
<1>2. watchDictationSagas(Rest(i), a) = Rest(i)
  BY DEF watchDictationSagas
<1>3. ~Owns(tasks[i], srv.active) /\ ~Ends(tasks[i], ui.session)
  BY DEF Owns, Ends
<1>4. CASE ui.phase # "stopping"
  <2>1. dashboardReducer(ui, a) = ui
    BY <1>4 DEF dashboardReducer, dictationReducer
  <2>2. Sessions(I, tasks, ui, srv)
    BY <1>3, DictationWithout
  <2> QED BY <1>1, <1>2, <2>1, <2>2, DictationShown
<1>5. CASE ui.phase = "stopping"
  <2> DEFINE v == [ui EXCEPT !.phase = "stopped", !.session = NoSession, !.text = text]
  <2>1. dashboardReducer(ui, a) = v
    BY <1>5 DEF dashboardReducer, dictationReducer
  <2>2. /\ DOMAIN v = DOMAIN ui /\ v.phase = "stopped" /\ v.session = 0 /\ v.home = ui.home
        /\ v.recording = ui.recording /\ v.mics = ui.mics /\ v.held = ui.held /\ v.mount = ui.mount
    BY DEF DictationCore, Sessions, Dashboard, NoSession
  <2> HIDE DEF v
  <2>3. Dashboard(v, srv)
    BY <1>5, <2>2 DEF DictationCore, Sessions, Dashboard, Phases
  <2>4. ASSUME NEW j \in I PROVE Sound(tasks[j], v, srv)
    <3>1. Sound(tasks[j], ui, srv)
      BY DEF DictationCore, Sessions, Crowd
    <3> QED BY <1>5, <2>2, <3>1 DEF Sound
  <2>5. Crowd(I, tasks, v, srv)
    BY <2>4 DEF DictationCore, Sessions, Crowd
  <2>6. Owned(I, tasks, v, srv)
    <3> SUFFICES ASSUME srv.active # 0 PROVE \E j \in I : Owns(tasks[j], srv.active)
      BY DEF Owned
    <3>1. CASE srv.active = ui.session
      <4>1. PICK j \in DOMAIN tasks : Ends(tasks[j], ui.session)
        BY <1>5, <3>1 DEF DictationCore, Sessions, Stopping
      <4>2. j # i /\ Owns(tasks[j], srv.active)
        BY <3>1, <4>1 DEF Ends, Owns
      <4> QED BY <4>1, <4>2
    <3>2. CASE srv.active # ui.session
      <4>1. PICK j \in DOMAIN tasks : Owns(tasks[j], srv.active)
        BY <3>2 DEF DictationCore, Sessions, Owned
      <4>2. j # i
        BY <1>3, <4>1
      <4> QED BY <4>1, <4>2
    <3> QED BY <3>1, <3>2
  <2>7. Stopping(I, tasks, v, srv)
    BY <2>2 DEF Stopping
  <2>8. Sessions(I, tasks, v, srv)
    BY <2>3, <2>5, <2>6, <2>7 DEF Sessions
  <2> QED BY <1>1, <1>2, <2>1, <2>8, DictationShown
<1> QED BY <1>4, <1>5

LEMMA DictationCancelled ==
  ASSUME DictationCore, ~Cancels, NEW i \in DOMAIN tasks, tasks[i].saga = "dictationCancelSaga", tasks[i].pc = "back",
         Resumed(i, << [type |-> "DICTATION_CANCELLED"] >>)
  PROVE  DictationCore'
<1> DEFINE a == [type |-> "DICTATION_CANCELLED"]
           v == [ui EXCEPT !.phase = "idle", !.session = NoSession, !.persist = FALSE, !.text = FALSE]
           I == DOMAIN tasks \ {i}
<1>1. ui.phase = "cancelling" /\ tasks[i].arg = ui.session /\ tasks[i].arg # srv.active
  BY DEF DictationCore, Sessions, Crowd, Sound
<1>2. ui' = dashboardReducer(ui, a) /\ tasks' = watchDictationSagas(Rest(i), a) /\ srv' = srv
  BY DictationPutOne
<1>3. dashboardReducer(ui, a) = v
  BY <1>1 DEF dashboardReducer, dictationReducer
<1>4. watchDictationSagas(Rest(i), a) = Rest(i)
  BY DEF watchDictationSagas
<1>5. /\ DOMAIN v = DOMAIN ui /\ v.phase = "idle" /\ v.session = 0 /\ v.home = ui.home
      /\ v.recording = ui.recording /\ v.mics = ui.mics /\ v.held = ui.held /\ v.mount = ui.mount
  BY DEF DictationCore, Sessions, Dashboard, NoSession
<1>0. ui.recording = FALSE
  <2>1. ui.recording = TRUE => ui.home = TRUE /\ ui.held = ui.session /\ ui.session # 0
    BY <1>1 DEF DictationCore, Sessions, Dashboard
  <2>2. ~(ui.home /\ ui.held # 0)
    BY <1>1 DEF Cancels, NoSession
  <2>3. ui.recording \in BOOLEAN
    BY DEF DictationCore, Sessions, Dashboard
  <2> QED BY <2>1, <2>2, <2>3
<1> HIDE DEF v, a
<1>6. Dashboard(v, srv)
  BY <1>0, <1>1, <1>5 DEF DictationCore, Sessions, Dashboard, Phases
<1>7. ASSUME NEW j \in I PROVE Sound(tasks[j], v, srv)
  <2>1. Sound(tasks[j], ui, srv) /\ ~Clash(tasks[i], tasks[j])
    BY DEF DictationCore, Sessions, Crowd
  <2>2. tasks[j].saga # "dictationCancelSaga"
    BY <2>1 DEF Clash
  <2> QED BY <1>1, <1>5, <2>1, <2>2 DEF Sound
<1>8. Crowd(I, tasks, v, srv)
  BY <1>7 DEF DictationCore, Sessions, Crowd
<1>9. Owned(I, tasks, v, srv)
  <2> SUFFICES ASSUME srv.active # 0 PROVE \E j \in I : Owns(tasks[j], srv.active)
    BY DEF Owned
  <2>2. PICK j \in DOMAIN tasks : Owns(tasks[j], srv.active)
    BY <1>1 DEF DictationCore, Sessions, Owned
  <2>3. j # i
    BY <2>2 DEF Owns
  <2> QED BY <2>2, <2>3
<1>10. Stopping(I, tasks, v, srv)
  BY <1>5 DEF Stopping
<1>11. Sessions(I, tasks, v, srv)
  BY <1>6, <1>8, <1>9, <1>10 DEF Sessions
<1> QED BY <1>2, <1>3, <1>4, <1>11, DictationShown

LEMMA DictationOpensMicrophone ==
  ASSUME DictationCore, NEW i \in DOMAIN tasks, tasks[i].saga = "getUserMedia", tasks[i].arg = Asked(ui), ui.phase = "active",
         Resumed(i, << [type |-> "MICROPHONE_OPENED", id |-> ui.session] >>)
  PROVE  DictationCore'
<1> DEFINE a == [type |-> "MICROPHONE_OPENED", id |-> ui.session]
           v == [ui EXCEPT !.held = ui.session, !.recording = TRUE, !.mics = @ + 1]
           I == DOMAIN tasks \ {i}
<1>1. ui.held # ui.session
  BY DEF DictationCore, Sessions, Crowd, Sound
<1>2. ui' = dashboardReducer(ui, a) /\ tasks' = watchDictationSagas(Rest(i), a) /\ srv' = srv
  BY DictationPutOne
<1>3. dashboardReducer(ui, a) = v
  BY DEF dashboardReducer
<1>4. watchDictationSagas(Rest(i), a) = Rest(i)
  BY DEF watchDictationSagas
<1>0. ui.recording = FALSE /\ ui.mics + 1 = 1 /\ ui.home = TRUE
  BY <1>1 DEF DictationCore, Sessions, Dashboard
<1>5. /\ DOMAIN v = DOMAIN ui /\ v.phase = ui.phase /\ v.session = ui.session /\ v.home = ui.home
      /\ v.recording = TRUE /\ v.mics = ui.mics + 1 /\ v.held = ui.session /\ v.mount = ui.mount
  BY DEF DictationCore, Sessions, Dashboard
<1> HIDE DEF v, a
<1>6. Dashboard(v, srv)
  BY <1>0, <1>5 DEF DictationCore, Sessions, Dashboard
<1>7. ASSUME NEW j \in I PROVE Sound(tasks[j], v, srv)
  <2>1. Sound(tasks[j], ui, srv) /\ ~Clash(tasks[i], tasks[j])
    BY DEF DictationCore, Sessions, Crowd
  <2>2. tasks[j].saga # "recorderStop"
    BY <1>1, <2>1 DEF Sound
  <2>3. tasks[j].saga = "getUserMedia" => tasks[j].arg # Asked(ui)
    BY <2>1 DEF Clash
  <2>4. Asked(v) = Asked(ui)
    BY <1>5 DEF Asked
  <2> QED BY <1>5, <2>1, <2>2, <2>3, <2>4 DEF Sound
<1>8. Crowd(I, tasks, v, srv)
  BY <1>7 DEF DictationCore, Sessions, Crowd
<1>9. ~Owns(tasks[i], srv.active) /\ ~Ends(tasks[i], ui.session)
  BY DEF Owns, Ends
<1>10. Owned(I, tasks, v, srv)
  BY <1>5, <1>9 DEF DictationCore, Sessions, Owned
<1>11. Stopping(I, tasks, v, srv)
  BY <1>5 DEF Stopping
<1>12. Sessions(I, tasks, v, srv)
  BY <1>6, <1>8, <1>10, <1>11 DEF Sessions
<1> QED BY <1>2, <1>3, <1>4, <1>12, DictationShown

LEMMA DictationMicrophone ==
  ASSUME DictationCore, NEW i \in DOMAIN tasks, tasks[i].saga = "getUserMedia", Resumed(i, microphone(tasks[i])) PROVE DictationCore'
<1>1. tasks[i].ok = TRUE
  BY DEF DictationCore, Sessions, Crowd, Sound
<1>2. CASE tasks[i].arg = Asked(ui) /\ ui.phase = "active"
  <2>1. microphone(tasks[i]) = << [type |-> "MICROPHONE_OPENED", id |-> ui.session] >>
    BY <1>1, <1>2 DEF microphone, Asked
  <2> QED BY <1>2, <2>1, DictationOpensMicrophone
<1>3. CASE ~(tasks[i].arg = Asked(ui) /\ ui.phase = "active")
  <2>1. microphone(tasks[i]) = << >>
    BY <1>1, <1>3 DEF microphone, Asked
  <2>2. ui' = ui /\ tasks' = Rest(i) /\ srv' = srv
    BY <2>1, DictationPutNone
  <2>3. ~Owns(tasks[i], srv.active) /\ ~Ends(tasks[i], ui.session)
    BY DEF Owns, Ends
  <2>4. Sessions(DOMAIN tasks \ {i}, tasks, ui, srv)
    BY <2>3, DictationWithout
  <2> QED BY <2>2, <2>4, DictationShown
<1> QED BY <1>2, <1>3

LEMMA DictationRecorderStopped ==
  ASSUME DictationCore, NEW i \in DOMAIN tasks, tasks[i].saga = "recorderStop", Resumed(i, << StopRequested >>) PROVE DictationCore'
<1>1. ui' = dashboardReducer(ui, StopRequested) /\ tasks' = watchDictationSagas(Rest(i), StopRequested) /\ srv' = srv
  BY DictationPutOne
<1>2. ui.phase = "active" => ui.recording = FALSE
  BY DEF DictationCore, Sessions, Crowd, Sound
<1>3. ~Owns(tasks[i], srv.active) /\ ~Ends(tasks[i], ui.session)
  BY DEF Owns, Ends
<1>4. Sessions(DOMAIN tasks \ {i}, tasks, ui, srv)
  BY <1>3, DictationWithout
<1>5. AreTasks(Rest(i)) /\ Sessions(DOMAIN Rest(i), Rest(i), ui, srv)
  BY <1>4, DictationOthers DEF DictationCore
<1> QED BY <1>1, <1>2, <1>5, DictationStopping

LEMMA DictationInjected ==
  ASSUME DictationCore, NEW i \in DOMAIN tasks, tasks[i].saga = "dictationInject",
         Resumed(i, << Forgotten(tasks[i].arg), [type |-> "DICTATION_RESET"] >>)
  PROVE  DictationCore'
<1> DEFINE a == Forgotten(ui.mount)
           b == [type |-> "DICTATION_RESET"]
           I == DOMAIN tasks \ {i}
<1>1. ui.phase = "stopped" /\ tasks[i].arg = ui.mount
  BY DEF DictationCore, Sessions, Crowd, Sound
<1>2. Resumed(i, <<a, b>>)
  BY <1>1
<1>3. /\ ui' = dashboardReducer(dashboardReducer(ui, a), b)
      /\ tasks' = watchDictationSagas(watchDictationSagas(Rest(i), a), b) /\ srv' = srv
  BY <1>2, DictationPutTwo
<1>4. ui' = Forgot(ui)
  BY <1>3 DEF Forgot
<1>5. tasks' = Rest(i)
  BY <1>3 DEF watchDictationSagas, Forgotten
<1>6. ~Owns(tasks[i], srv.active) /\ ~Ends(tasks[i], ui.session)
  BY DEF Owns, Ends
<1>7. Sessions(I, tasks, ui, srv)
  BY <1>6, DictationWithout
<1>8. \A j \in I : tasks[j].saga # "dictationInject"
  BY DEF DictationCore, Sessions, Crowd, Clash
<1>9. I \in SUBSET DOMAIN tasks
  OBVIOUS
<1> HIDE DEF I
<1>10. Sessions(I, tasks, Forgot(ui), srv)
  BY <1>1, <1>7, <1>8, <1>9, DictationForgot
<1> QED BY <1>3, <1>4, <1>5, <1>10, DictationShown DEF I

LEMMA DictationResumed == ASSUME DictationCore, ~Cancels, DictationResumes PROVE DictationCore'
<1>1. PICK i \in InState("back") : Resumed(i, dictationPuts(tasks[i]))
  BY Zenon DEF DictationResumes, Resumed
<1>2. i \in DOMAIN tasks /\ tasks[i].pc = "back"
  BY DEF InState
<1>3. tasks[i].saga \in DictationSagas /\ tasks[i].ok = TRUE
  BY <1>2 DEF DictationCore, Sessions, Crowd, Sound
<1>4. CASE tasks[i].saga = "dictationStartSaga"
  <2>1. CASE tasks[i].ans # 0
    <3>1. dictationPuts(tasks[i]) = << [type |-> "DICTATION_STARTED", id |-> tasks[i].ans] >>
      BY <1>3, <1>4, <2>1 DEF dictationPuts, dictationStartSaga, NoSession
    <3> QED BY <1>1, <1>2, <1>4, <2>1, <3>1, DictationStarted
  <2>2. CASE tasks[i].ans = 0
    <3>1. dictationPuts(tasks[i]) = << DictationFailed >>
      BY <1>3, <1>4, <2>2 DEF dictationPuts, dictationStartSaga, NoSession
    <3> QED BY <1>1, <1>2, <1>4, <2>2, <3>1, DictationNotStarted
  <2> QED BY <2>1, <2>2
<1>5. CASE tasks[i].saga = "dictationStopSaga"
  <2>1. dictationPuts(tasks[i]) = << [type |-> "DICTATION_STOPPED", text |-> tasks[i].ans] >>
    BY <1>3, <1>5 DEF dictationPuts, dictationStopSaga
  <2> QED BY <1>1, <1>2, <1>5, <2>1, DictationStopped
<1>6. CASE tasks[i].saga = "dictationCancelSaga"
  <2>1. dictationPuts(tasks[i]) = << [type |-> "DICTATION_CANCELLED"] >>
    BY <1>3, <1>6 DEF dictationPuts, dictationCancelSaga
  <2> QED BY <1>1, <1>2, <1>6, <2>1, DictationCancelled
<1>7. CASE tasks[i].saga = "getUserMedia"
  <2>1. dictationPuts(tasks[i]) = microphone(tasks[i])
    BY <1>7 DEF dictationPuts
  <2> QED BY <1>1, <1>2, <1>7, <2>1, DictationMicrophone
<1>8. CASE tasks[i].saga = "recorderStop"
  <2>1. dictationPuts(tasks[i]) = << StopRequested >>
    BY <1>8 DEF dictationPuts
  <2> QED BY <1>1, <1>2, <1>8, <2>1, DictationRecorderStopped
<1>9. CASE tasks[i].saga = "dictationInject"
  <2>1. dictationPuts(tasks[i]) = << Forgotten(tasks[i].arg), [type |-> "DICTATION_RESET"] >>
    BY <1>9 DEF dictationPuts
  <2> QED BY <1>1, <1>2, <1>9, <2>1, DictationInjected
<1> QED BY <1>3, <1>4, <1>5, <1>6, <1>7, <1>8, <1>9 DEF DictationSagas

\* What is not calm never becomes so.
StaysUpset == DictationShape' /\ (Calm' => Calm)
LEMMA DictationAnswerUpset ==
  ASSUME DictationShape, NEW i, NEW sv, NEW ans, Answer(i, sv, ans), DOMAIN sv = DOMAIN srv, sv.upset = srv.upset PROVE StaysUpset
<1>0. MayFail \in BOOLEAN
  BY DEF MayFail
<1>1. srv' = sv /\ \E ok \in {TRUE, ~MayFail} : broken' = (broken \/ ~ok)
  BY DEF Answer, AnswerTelling
<1>2. PICK ok \in BOOLEAN : broken' = (broken \/ ~ok)
  BY <1>0, <1>1
<1> QED BY <1>1, <1>2 DEF StaysUpset, DictationShape, Calm
LEMMA DictationStaysUpset == ASSUME DictationShape, DictationStoreNext PROVE StaysUpset
<1>1. CASE StartsEffect \/ StopsEffect \/ FailsEffect \/ CancelsEffect
  <2>1. UNCHANGED <<srv, broken>>
    BY <1>1, Zenon DEF StartsEffect, StopsEffect, FailsEffect, CancelsEffect, DashboardAwaits, DictationEffect, Effect
  <2> QED BY <2>1 DEF StaysUpset, DictationShape, Calm
<1>2. CASE toggleRecord \/ handleGlobalHotkey \/ onRelease \/ cancelPressed \/ DashboardLeft \/ DashboardOpened
  <2>1. srv' \in {srv, Upset(srv)} /\ UNCHANGED broken
    <3>1. stopRecording => srv' = srv /\ UNCHANGED broken
      BY Zenon DEF stopRecording, Awaited, DictationDo, DispatchAll
    <3>2. \A a, b : Pressed(a, b) => (srv' = srv \/ srv' = Upset(srv)) /\ UNCHANGED broken
      BY DEF Pressed
    <3>3. \A actions : DictationDo(actions) => srv' = srv /\ UNCHANGED broken
      BY DEF DictationDo, DispatchAll
    <3>4. DashboardLeft => (srv' = srv \/ srv' = Upset(srv)) /\ UNCHANGED broken
      BY DEF DashboardLeft
    <3> QED BY <1>2, <3>1, <3>2, <3>3, <3>4, Zenon DEF toggleRecord, handleGlobalHotkey, onRelease, cancelPressed, DashboardOpened
  <2> QED BY <2>1 DEF StaysUpset, DictationShape, Calm, Upset
<1>3. CASE DictationAnswers
  <2>1. PICK i : \/ DictationStart(i) \/ DictationStop(i) \/ DictationCancel(i)
                 \/ Elapse(i) \/ MicrophoneRefused(i) \/ Unreached(i)
    BY <1>3 DEF DictationAnswers
  <2>2. CASE DictationStart(i)
    <3> DEFINE sv == [srv EXCEPT !.active = srv.started + 1, !.started = @ + 1]
    <3>1. Answer(i, srv, NoSession) \/ Answer(i, sv, srv.started + 1)
      BY <2>2, Zenon DEF DictationStart
    <3>2. DOMAIN sv = DOMAIN srv /\ sv.upset = srv.upset
      BY DEF DictationShape
    <3> HIDE DEF sv
    <3> QED BY <3>1, <3>2, DictationAnswerUpset
  <2> DEFINE sv == [srv EXCEPT !.active = NoSession]
  <2>3. DOMAIN sv = DOMAIN srv /\ sv.upset = srv.upset
    BY DEF DictationShape
  <2>4. CASE DictationStop(i)
    <3>1. Answer(i, srv, FALSE) \/ \E text \in BOOLEAN : Answer(i, sv, text)
      BY <2>4, Zenon DEF DictationStop
    <3> HIDE DEF sv
    <3> QED BY <3>1, <2>3, DictationAnswerUpset
  <2>5. CASE DictationCancel(i)
    <3>1. Answer(i, srv, Nothing) \/ Answer(i, sv, Nothing)
      BY <2>5 DEF DictationCancel
    <3> HIDE DEF sv
    <3> QED BY <3>1, <2>3, DictationAnswerUpset
  <2>6. CASE Elapse(i) \/ MicrophoneRefused(i) \/ Unreached(i)
    BY <2>6 DEF Elapse, MicrophoneRefused, Unreached, Upset, StaysUpset, DictationShape, Calm
  <2> QED BY <2>1, <2>2, <2>4, <2>5, <2>6
<1>4. CASE DictationResumes
  <2>1. UNCHANGED <<srv, broken>>
    BY <1>4 DEF DictationResumes, Resume
  <2> QED BY <2>1 DEF StaysUpset, DictationShape, Calm
<1> QED BY <1>1, <1>2, <1>3, <1>4 DEF DictationStoreNext

LEMMA DictationSteps == ASSUME DictationInv, DictationStoreNext PROVE DictationInv'
<1>1. StaysUpset
  BY DictationStaysUpset DEF DictationInv
<1> SUFFICES ASSUME Calm' PROVE DictationCore'
  BY <1>1 DEF StaysUpset, DictationInv
<1>2. DictationShape /\ DictationCore
  BY <1>1 DEF StaysUpset, DictationInv
<1>3. CASE StartsEffect \/ StopsEffect \/ FailsEffect \/ CancelsEffect
  BY <1>2, <1>3, DictationStarts, DictationStops, DictationFails, DictationCancels
<1>4. CASE ~Cancels /\ (toggleRecord \/ handleGlobalHotkey \/ onRelease \/ cancelPressed)
  BY <1>2, <1>4, DictationPressed
<1>5. CASE DashboardLeft \/ DashboardOpened
  BY <1>2, <1>5, DictationOpens
<1>6. CASE DictationAnswers
  BY <1>2, <1>6, DictationAnswered
<1>7. CASE ~Cancels /\ DictationResumes
  BY <1>2, <1>7, DictationResumed
<1> QED BY <1>3, <1>4, <1>5, <1>6, <1>7 DEF DictationStoreNext

LEMMA DictationStutters == ASSUME DictationInv, UNCHANGED sagaVars PROVE DictationInv'
BY DEF sagaVars, DictationInv, DictationShape, DictationCore, Calm

LEMMA DictationImplies == ASSUME DictationInv PROVE SessionIsOwnedInOrder /\ MicrophoneIsReleasedInOrder
<1>1. ASSUME ~broken, ~srv.upset PROVE SessionIsOwned /\ MicrophoneIsReleased
  <2>1. DictationCore
    BY <1>1 DEF DictationInv, DictationShape, Calm
  <2>2. MicrophoneIsReleased
    BY <2>1 DEF DictationCore, Sessions, Dashboard, MicrophoneIsReleased
  <2>3. ASSUME ui.phase = "idle", tasks = << >> PROVE srv.active = NoSession
    <3>1. DOMAIN tasks = {}
      BY <2>3
    <3>2. ui.session = 0
      BY <2>1, <2>3 DEF DictationCore, Sessions, Dashboard
    <3> QED BY <2>1, <3>1, <3>2 DEF DictationCore, Sessions, Owned, NoSession
  <2> QED BY <2>2, <2>3 DEF SessionIsOwned, Idle
<1> QED BY <1>1 DEF SessionIsOwnedInOrder, MicrophoneIsReleasedInOrder

(****************************************************************************)
(* The prompts page: one preview at a time, and a deletion under way has    *)
(* its mark.                                                                *)
(****************************************************************************)

\* A task has joined those of the others, and what is left of its own watcher's.
Joined(new, ts, task, h) ==
  /\ AreTasks(new) /\ Len(new) \in Nat \ {0} /\ DOMAIN new = 1 .. Len(new) /\ new[Len(new)] = task
  /\ h \in [1 .. Len(new) - 1 -> DOMAIN ts] /\ OneToOne(h)
  /\ \A k \in 1 .. Len(new) - 1 : Same(new[k], ts[h[k]]) /\ (new[k].saga # task.saga => new[k] = ts[h[k]])
  /\ \A j \in DOMAIN ts : ts[j].saga # task.saga => Hits(h, j)
\* Its watcher takes the latest: of its own only those already sent are left, cancelled.
TakenLatest(new, ts, task, sent, h) ==
  /\ Joined(new, ts, task, h)
  /\ \A k \in 1 .. Len(new) - 1 : new[k].saga = task.saga => new[k].pc \in sent /\ new[k].live = FALSE
  /\ \A j \in DOMAIN ts : ts[j].pc \in sent => Hits(h, j)
\* Its watcher takes every: all are left as they were.
TakenEvery(new, ts, task, h) ==
  /\ Joined(new, ts, task, h)
  /\ Len(new) = Len(ts) + 1 /\ h = [k \in 1 .. Len(new) - 1 |-> k] /\ \A k \in 1 .. Len(new) - 1 : new[k] = ts[k]

LEMMA LatestTasks ==
  ASSUME NEW ts, AreTasks(ts), NEW task, IsTask(task), NEW sent
  PROVE  \E h : TakenLatest(Append(Superseded(ts, task.saga, sent), task), ts, task, sent, h)
<1> DEFINE kept == Superseded(ts, task.saga, sent)
           new == Append(kept, task)
<1>1. PICK h : Leaves(kept, ts, task.saga, sent, h)
  BY SupersededLeaves
<1>2. AreTasks(kept) /\ Len(kept) \in Nat /\ DOMAIN kept = 1 .. Len(kept)
  BY <1>1, TasksAre DEF Leaves
<1>3. /\ AreTasks(new) /\ DOMAIN new = 1 .. Len(kept) + 1 /\ new[Len(kept) + 1] = task
      /\ \A k \in 1 .. Len(kept) : new[k] = kept[k]
  BY <1>2, AppendTask
<1>4. Len(new) \in Nat /\ DOMAIN new = 1 .. Len(new)
  BY <1>3, TasksAre
<1> HIDE DEF new, kept
<1>5. Len(new) = Len(kept) + 1
  <2>1. Len(kept) + 1 \in 1 .. Len(new)
    BY <1>2, <1>3, <1>4
  <2>2. Len(new) \in 1 .. Len(new)
    BY <2>1, <1>4
  <2> QED BY <2>1, <2>2, <1>2, <1>3, <1>4
<1>6. Len(new) - 1 = Len(kept)
  BY <1>2, <1>5
<1>7. Joined(new, ts, task, h)
  BY <1>1, <1>2, <1>3, <1>4, <1>5, <1>6 DEF Joined, Leaves, Indices
<1>8. TakenLatest(new, ts, task, sent, h)
  BY <1>1, <1>2, <1>3, <1>5, <1>6, <1>7 DEF TakenLatest, Leaves, Indices
<1> QED BY <1>8 DEF new, kept
LEMMA EveryTask ==
  ASSUME NEW ts, AreTasks(ts), NEW task, IsTask(task)
  PROVE  \E h : TakenEvery(Append(ts, task), ts, task, h)
<1> DEFINE new == Append(ts, task)
           n == Len(ts)
           h == [k \in 1 .. n |-> k]
<1>1. n \in Nat /\ DOMAIN ts = 1 .. n
  BY TasksAre
<1>2. AreTasks(new) /\ DOMAIN new = 1 .. n + 1 /\ new[n + 1] = task /\ \A k \in 1 .. n : new[k] = ts[k]
  BY <1>1, AppendTask
<1>3. Len(new) \in Nat /\ DOMAIN new = 1 .. Len(new)
  BY <1>2, TasksAre
<1> HIDE DEF new, n
<1>4. Len(new) = n + 1
  <2>1. n + 1 \in 1 .. Len(new)
    BY <1>1, <1>2, <1>3
  <2>2. Len(new) \in 1 .. Len(new)
    BY <2>1, <1>3
  <2> QED BY <2>1, <2>2, <1>1, <1>2, <1>3
<1>5. Len(new) - 1 = n
  BY <1>1, <1>4
<1>6. h \in [1 .. n -> DOMAIN ts] /\ OneToOne(h) /\ \A j \in 1 .. n : Hits(h, j) /\ h[j] = j
  BY <1>1 DEF OneToOne, Hits
<1> HIDE DEF h
<1>7. Joined(new, ts, task, h)
  BY <1>1, <1>2, <1>3, <1>4, <1>5, <1>6 DEF Joined, Same
<1>8. h = [k \in 1 .. Len(new) - 1 |-> k]
  BY <1>5 DEF h
<1>9. TakenEvery(new, ts, task, h)
  BY <1>2, <1>4, <1>5, <1>7, <1>8 DEF TakenEvery, n
<1> QED BY <1>9 DEF new

LEMMA LatestQuery ==
  ASSUME NEW ts, AreTasks(ts), NEW saga, NEW arg
  PROVE  LET t == gqlRequest(saga, arg) IN \E h : TakenLatest(takeLatestQuery(ts, t), ts, t, {}, h)
BY LatestTasks, Request DEF takeLatestQuery
LEMMA LatestRequest ==
  ASSUME NEW ts, AreTasks(ts), NEW saga, NEW arg
  PROVE  LET t == gqlRequest(saga, arg) IN \E h : TakenLatest(takeLatest(ts, t), ts, t, {"call", "half"}, h)
BY LatestTasks, Request DEF takeLatest
LEMMA EveryRequest ==
  ASSUME NEW ts, AreTasks(ts), NEW saga, NEW arg
  PROVE  LET t == gqlRequest(saga, arg) IN \E h : TakenEvery(takeEvery(ts, t), ts, t, h)
BY EveryTask, Request DEF takeEvery

(* prompts *)
PR == INSTANCE PutsProofs WITH Op <- LAMBDA x, s, a : promptsReducer(s, a)
PW == INSTANCE PutsProofs WITH Op <- LAMBDA x, s, a : watchPromptsSagas(s, a)
LEMMA PromptsReduced == ASSUME NEW s, NEW a PROVE Reduced(promptsReducer, s, <<a>>) = promptsReducer(s, a)
<1>1. PR!Fold(0, s, <<a>>) = Reduced(promptsReducer, s, <<a>>)
  BY DEF PR!Fold, Reduced, PR!Folds, PR!Step, PR!Greatest, FoldLeft, MapThenFoldSet, Max
<1> QED BY <1>1, PR!FoldOne
LEMMA PromptsWatched == ASSUME NEW s, NEW a PROVE Watched(watchPromptsSagas, s, <<a>>) = watchPromptsSagas(s, a)
<1>1. PW!Fold(0, s, <<a>>) = Watched(watchPromptsSagas, s, <<a>>)
  BY DEF PW!Fold, Watched, PW!Folds, PW!Step, PW!Greatest, FoldLeft, MapThenFoldSet, Max
<1> QED BY <1>1, PW!FoldOne

PromptsSagas == {"loadPromptsSaga", "createPromptSaga", "updatePromptSaga", "deletePromptSaga", "previewPromptSaga"}
PromptsShape ==
  /\ AreTasks(tasks) /\ \A i \in DOMAIN tasks : tasks[i].saga \in PromptsSagas
  /\ DOMAIN ui = {"templates", "isLoading", "error", "savingIds", "deletingIds", "previewResult", "isPreviewLoading"}
  /\ DOMAIN srv = {"bodies", "fresh", "refused"} /\ srv.refused \in BOOLEAN /\ broken \in BOOLEAN
\* One preview at a time, and nothing is shown while it runs.
OnePreview ==
  /\ \A i, j \in Running("previewPromptSaga") : i = j
  /\ Running("previewPromptSaga") # {} => ui.previewResult = PromptNone
  /\ \A i \in Running("previewPromptSaga") : tasks[i].pc = "back" /\ tasks[i].ok => tasks[i].ans = tasks[i].arg
\* A deletion under way has its mark, and will succeed.
MarkedDeletes ==
  ~broken /\ ~srv.refused =>
    /\ \A i, j \in Running("deletePromptSaga") : tasks[i].arg = tasks[j].arg => i = j
    /\ \A i \in Running("deletePromptSaga") :
         tasks[i].arg \in ui.deletingIds /\ (tasks[i].pc = "back" => tasks[i].ok = TRUE /\ tasks[i].ans = TRUE)
PromptsInv == PromptsShape /\ OnePreview /\ MarkedDeletes

LEMMA PromptsDispatched ==
  ASSUME PromptsInv, NEW a, PromptsDo(a)
  PROVE  ui' = promptsReducer(ui, a) /\ tasks' = watchPromptsSagas(tasks, a) /\ UNCHANGED <<srv, broken>>
BY PromptsReduced, PromptsWatched DEF PromptsDo, Dispatch, DispatchAll

\* A new task of another watcher disturbs neither.
LEMMA PromptsInitOK == ASSUME NEW budget, PromptsInit(budget) PROVE PromptsInv
<1>1. /\ ui = initialPromptsState /\ tasks = << >> /\ broken = FALSE /\ srv.refused = FALSE
      /\ DOMAIN srv = {"bodies", "fresh", "refused"}
  BY DEF PromptsInit, SagaInit, SagaBoot, SagaStart
<1>2. PromptsShape
  <2>1. AreTasks(tasks) /\ DOMAIN tasks = {}
    BY <1>1, NoTasks
  <2> QED BY <1>1, <2>1 DEF PromptsShape, initialPromptsState
<1>3. Running("previewPromptSaga") = {} /\ Running("deletePromptSaga") = {}
  BY <1>1 DEF Running
<1> QED BY <1>2, <1>3 DEF PromptsInv, OnePreview, MarkedDeletes

LEMMA PromptsJoined ==
  ASSUME PromptsInv, NEW t, NEW h, Joined(tasks', tasks, t, h), t.saga \in PromptsSagas
  PROVE  \A k \in DOMAIN tasks' : tasks'[k].saga \in PromptsSagas
<1> SUFFICES ASSUME NEW k \in DOMAIN tasks' PROVE tasks'[k].saga \in PromptsSagas
  OBVIOUS
<1>1. CASE k = Len(tasks')
  BY <1>1 DEF Joined
<1>2. CASE k # Len(tasks')
  <2>1. k \in 1 .. Len(tasks') - 1
    BY <1>2 DEF Joined
  <2> QED BY <2>1 DEF Joined, Same, PromptsInv, PromptsShape
<1> QED BY <1>1, <1>2

\* The task of another watcher disturbs neither.
LEMMA PromptsOthers ==
  ASSUME PromptsInv, NEW t, NEW h, Joined(tasks', tasks, t, h),
         t.saga \in PromptsSagas \ {"previewPromptSaga", "deletePromptSaga"},
         DOMAIN ui' = DOMAIN ui, ui'.previewResult = ui.previewResult, ui'.deletingIds = ui.deletingIds, UNCHANGED <<srv, broken>>
  PROVE  PromptsInv' /\ PreviewStep
<1>1. ASSUME NEW k \in DOMAIN tasks', tasks'[k].saga \in {"previewPromptSaga", "deletePromptSaga"}
      PROVE  h[k] \in DOMAIN tasks /\ k \in DOMAIN h /\ tasks'[k] = tasks[h[k]]
  <2>1. k \in 1 .. Len(tasks') - 1
    BY <1>1 DEF Joined
  <2>2. tasks'[k].saga # t.saga
    BY <1>1
  <2> QED BY <2>1, <2>2 DEF Joined
<1>2. OneToOne(h)
  BY DEF Joined
<1>3. PromptsShape'
  BY PromptsJoined DEF PromptsInv, PromptsShape, Joined
<1>4. OnePreview'
  BY <1>1, <1>2 DEF PromptsInv, OnePreview, Running, OneToOne
<1>5. MarkedDeletes'
  BY <1>1, <1>2 DEF PromptsInv, MarkedDeletes, Running, OneToOne
<1>6. PreviewStep
  BY <1>1 DEF PromptsInv, OnePreview, PreviewStep, Running
<1> QED BY <1>3, <1>4, <1>5, <1>6 DEF PromptsInv

LEMMA PromptsLoad == ASSUME PromptsInv, PromptsDo([type |-> "LOAD_PROMPTS"]) PROVE PromptsInv' /\ PreviewStep
<1> DEFINE a == [type |-> "LOAD_PROMPTS"]
           t == gqlRequest("loadPromptsSaga", Nothing)
<1>0. ui' = promptsReducer(ui, a) /\ tasks' = watchPromptsSagas(tasks, a) /\ UNCHANGED <<srv, broken>>
  BY PromptsDispatched
<1>1. tasks' = takeLatestQuery(tasks, t)
  BY <1>0 DEF watchPromptsSagas
<1>2. DOMAIN ui' = DOMAIN ui /\ ui'.previewResult = ui.previewResult /\ ui'.deletingIds = ui.deletingIds
  BY <1>0 DEF promptsReducer, PromptsInv, PromptsShape
<1>3. PICK h : TakenLatest(tasks', tasks, t, {}, h)
  BY <1>1, LatestQuery DEF PromptsInv, PromptsShape
<1>4. t.saga = "loadPromptsSaga" /\ Joined(tasks', tasks, t, h)
  BY <1>3, Request DEF TakenLatest
<1> HIDE DEF t
<1> QED BY <1>0, <1>2, <1>4, PromptsOthers DEF PromptsSagas

LEMMA PromptsCreate == ASSUME PromptsInv, NEW b, PromptsDo([type |-> "CREATE_PROMPT", body |-> b]) PROVE PromptsInv' /\ PreviewStep
<1> DEFINE a == [type |-> "CREATE_PROMPT", body |-> b]
           t == gqlRequest("createPromptSaga", b)
<1>0. ui' = promptsReducer(ui, a) /\ tasks' = watchPromptsSagas(tasks, a) /\ UNCHANGED <<srv, broken>>
  BY PromptsDispatched
<1>1. tasks' = takeEvery(tasks, t)
  BY <1>0 DEF watchPromptsSagas
<1>2. DOMAIN ui' = DOMAIN ui /\ ui'.previewResult = ui.previewResult /\ ui'.deletingIds = ui.deletingIds
  BY <1>0 DEF promptsReducer, PromptsInv, PromptsShape
<1>3. PICK h : TakenEvery(tasks', tasks, t, h)
  BY <1>1, EveryRequest DEF PromptsInv, PromptsShape
<1>4. t.saga = "createPromptSaga" /\ Joined(tasks', tasks, t, h)
  BY <1>3, Request DEF TakenEvery
<1> HIDE DEF t
<1> QED BY <1>0, <1>2, <1>4, PromptsOthers DEF PromptsSagas

LEMMA PromptsUpdate ==
  ASSUME PromptsInv, NEW id, NEW b, PromptsDo([type |-> "UPDATE_PROMPT", id |-> id, body |-> b]) PROVE PromptsInv' /\ PreviewStep
<1> DEFINE a == [type |-> "UPDATE_PROMPT", id |-> id, body |-> b]
           t == gqlRequest("updatePromptSaga", [id |-> id, body |-> b])
<1>0. ui' = promptsReducer(ui, a) /\ tasks' = watchPromptsSagas(tasks, a) /\ UNCHANGED <<srv, broken>>
  BY PromptsDispatched
<1>1. tasks' = takeEvery(tasks, t)
  BY <1>0 DEF watchPromptsSagas
<1>2. DOMAIN ui' = DOMAIN ui /\ ui'.previewResult = ui.previewResult /\ ui'.deletingIds = ui.deletingIds
  BY <1>0 DEF promptsReducer, PromptsInv, PromptsShape
<1>3. PICK h : TakenEvery(tasks', tasks, t, h)
  BY <1>1, EveryRequest DEF PromptsInv, PromptsShape
<1>4. t.saga = "updatePromptSaga" /\ Joined(tasks', tasks, t, h)
  BY <1>3, Request DEF TakenEvery
<1> HIDE DEF t
<1> QED BY <1>0, <1>2, <1>4, PromptsOthers DEF PromptsSagas

LEMMA PromptsDelete ==
  ASSUME PromptsInv, NEW id, id \notin ui.deletingIds, PromptsDo([type |-> "DELETE_PROMPT", id |-> id])
  PROVE  PromptsInv' /\ PreviewStep
<1> DEFINE a == [type |-> "DELETE_PROMPT", id |-> id]
           t == gqlRequest("deletePromptSaga", id)
<1>0. ui' = promptsReducer(ui, a) /\ tasks' = watchPromptsSagas(tasks, a) /\ UNCHANGED <<srv, broken>>
  BY PromptsDispatched
<1>1. tasks' = takeEvery(tasks, t)
  BY <1>0 DEF watchPromptsSagas
<1>2. DOMAIN ui' = DOMAIN ui /\ ui'.previewResult = ui.previewResult /\ ui'.deletingIds = ui.deletingIds \cup {id}
  BY <1>0 DEF promptsReducer, PromptsInv, PromptsShape
<1>3. PICK h : TakenEvery(tasks', tasks, t, h)
  BY <1>1, EveryRequest DEF PromptsInv, PromptsShape
<1>4. t.saga = "deletePromptSaga" /\ t.arg = id /\ t.pc = "call" /\ Joined(tasks', tasks, t, h)
  <2>1. t.saga = "deletePromptSaga" /\ t.arg = id /\ t.pc = "call"
    BY DEF gqlRequest
  <2> QED BY <1>3, <2>1 DEF TakenEvery
<1> HIDE DEF t
<1>5. /\ Len(tasks) \in Nat /\ DOMAIN tasks = 1 .. Len(tasks) /\ DOMAIN tasks' = 1 .. Len(tasks) + 1
      /\ tasks'[Len(tasks) + 1] = t /\ \A k \in 1 .. Len(tasks) : tasks'[k] = tasks[k]
  BY <1>3, TasksAre DEF TakenEvery, Joined, PromptsInv, PromptsShape
<1>6. ASSUME NEW k \in DOMAIN tasks' PROVE (k = Len(tasks) + 1 /\ tasks'[k] = t) \/ (k \in DOMAIN tasks /\ tasks'[k] = tasks[k])
  BY <1>5
<1>7. PromptsShape'
  BY <1>0, <1>2, <1>4, PromptsJoined DEF PromptsInv, PromptsShape, Joined, PromptsSagas
<1>8. OnePreview'
  BY <1>2, <1>4, <1>6 DEF PromptsInv, OnePreview, Running
<1>9. MarkedDeletes'
  <2> SUFFICES ASSUME ~broken /\ ~srv.refused
               PROVE  /\ \A i, j \in Running("deletePromptSaga")' : tasks'[i].arg = tasks'[j].arg => i = j
                      /\ \A i \in Running("deletePromptSaga")' :
                           tasks'[i].arg \in ui'.deletingIds /\ (tasks'[i].pc = "back" => tasks'[i].ok = TRUE /\ tasks'[i].ans = TRUE)
    BY <1>0 DEF MarkedDeletes
  <2>1. \A i \in Running("deletePromptSaga") : tasks[i].arg # id
    BY DEF PromptsInv, MarkedDeletes
  <2>2. ASSUME NEW i \in Running("deletePromptSaga")', NEW j \in Running("deletePromptSaga")', tasks'[i].arg = tasks'[j].arg PROVE i = j
    <3>1. i \in DOMAIN tasks' /\ j \in DOMAIN tasks' /\ tasks'[i].saga = "deletePromptSaga" /\ tasks'[j].saga = "deletePromptSaga"
      BY DEF Running
    <3>2. CASE i \in DOMAIN tasks /\ j \in DOMAIN tasks /\ tasks'[i] = tasks[i] /\ tasks'[j] = tasks[j]
      BY <2>2, <3>1, <3>2 DEF PromptsInv, MarkedDeletes, Running
    <3> QED BY <1>4, <1>6, <2>1, <2>2, <3>1, <3>2 DEF Running
  <2>3. ASSUME NEW i \in Running("deletePromptSaga")'
        PROVE tasks'[i].arg \in ui'.deletingIds /\ (tasks'[i].pc = "back" => tasks'[i].ok = TRUE /\ tasks'[i].ans = TRUE)
    BY <1>2, <1>4, <1>6 DEF PromptsInv, MarkedDeletes, Running
  <2> QED BY <2>2, <2>3
<1>10. PreviewStep
  BY <1>2, <1>4, <1>6 DEF PromptsInv, OnePreview, PreviewStep, Running
<1> QED BY <1>7, <1>8, <1>9, <1>10 DEF PromptsInv

LEMMA PromptsPreview ==
  ASSUME PromptsInv, NEW b, PromptsDo([type |-> "PREVIEW_PROMPT", body |-> b]) PROVE PromptsInv' /\ PreviewStep
<1> DEFINE a == [type |-> "PREVIEW_PROMPT", body |-> b]
           t == gqlRequest("previewPromptSaga", b)
<1>0. ui' = promptsReducer(ui, a) /\ tasks' = watchPromptsSagas(tasks, a) /\ UNCHANGED <<srv, broken>>
  BY PromptsDispatched
<1>1. tasks' = takeLatestQuery(tasks, t)
  BY <1>0 DEF watchPromptsSagas
<1>2. DOMAIN ui' = DOMAIN ui /\ ui'.previewResult = PromptNone /\ ui'.deletingIds = ui.deletingIds
  BY <1>0 DEF promptsReducer, previewReducer, PromptsInv, PromptsShape
<1>3. PICK h : TakenLatest(tasks', tasks, t, {}, h)
  BY <1>1, LatestQuery DEF PromptsInv, PromptsShape
<1>4. t.saga = "previewPromptSaga" /\ t.pc = "call" /\ Joined(tasks', tasks, t, h)
  <2>1. t.saga = "previewPromptSaga" /\ t.pc = "call"
    BY DEF gqlRequest
  <2> QED BY <1>3, <2>1 DEF TakenLatest
<1> HIDE DEF t
<1>5. ASSUME NEW k \in DOMAIN tasks', tasks'[k].saga = "previewPromptSaga" PROVE k = Len(tasks') /\ tasks'[k] = t
  <2>1. k \notin 1 .. Len(tasks') - 1
    BY <1>3, <1>4, <1>5 DEF TakenLatest
  <2> QED BY <2>1, <1>4 DEF Joined
<1>6. ASSUME NEW k \in DOMAIN tasks', tasks'[k].saga # "previewPromptSaga"
      PROVE  h[k] \in DOMAIN tasks /\ k \in DOMAIN h /\ tasks'[k] = tasks[h[k]]
  <2>1. k \in 1 .. Len(tasks') - 1
    BY <1>4, <1>6 DEF Joined
  <2> QED BY <2>1, <1>4, <1>6 DEF Joined
<1>7. OneToOne(h)
  BY <1>4 DEF Joined
<1>8. PromptsShape'
  BY <1>0, <1>2, <1>4, PromptsJoined DEF PromptsInv, PromptsShape, Joined, PromptsSagas
<1>9. OnePreview'
  BY <1>2, <1>4, <1>5 DEF OnePreview, Running
<1>10. MarkedDeletes'
  BY <1>0, <1>2, <1>6, <1>7 DEF PromptsInv, MarkedDeletes, Running, OneToOne
<1> QED BY <1>2, <1>8, <1>9, <1>10 DEF PromptsInv, PreviewStep

LEMMA PromptsClear ==
  ASSUME PromptsInv, ui.previewResult # PromptNone, PromptsDo([type |-> "PREVIEW_PROMPT_CLEAR"]) PROVE PromptsInv' /\ PreviewStep
<1> DEFINE a == [type |-> "PREVIEW_PROMPT_CLEAR"]
<1>0. ui' = promptsReducer(ui, a) /\ tasks' = watchPromptsSagas(tasks, a) /\ UNCHANGED <<srv, broken>>
  BY PromptsDispatched
<1>1. tasks' = tasks
  BY <1>0 DEF watchPromptsSagas
<1>2. DOMAIN ui' = DOMAIN ui /\ ui'.previewResult = PromptNone /\ ui'.deletingIds = ui.deletingIds
  BY <1>0 DEF promptsReducer, previewReducer, PromptsInv, PromptsShape
<1> QED BY <1>0, <1>1, <1>2 DEF PromptsInv, PromptsShape, OnePreview, MarkedDeletes, PreviewStep, Running

\* An answer of the backend, or the loss of one.
LEMMA PromptsDelivered ==
  ASSUME PromptsInv, NEW i \in DOMAIN tasks, NEW ok \in BOOLEAN, NEW ans, NEW h, HandedOver(tasks', tasks, i, ok, ans, h),
         ui' = ui, broken' \in BOOLEAN, broken => broken', ok \/ broken',
         DOMAIN srv' = DOMAIN srv, srv'.refused \in BOOLEAN, srv.refused => srv'.refused,
         tasks[i].saga = "previewPromptSaga" /\ ok => ans = tasks[i].arg,
         tasks[i].saga = "deletePromptSaga" /\ ok => ans = TRUE \/ srv'.refused
  PROVE  PromptsInv' /\ PreviewStep
<1>1. ASSUME NEW k \in DOMAIN tasks'
      PROVE  /\ k \in DOMAIN h /\ h[k] \in DOMAIN tasks
             /\ tasks'[k].saga = tasks[h[k]].saga /\ tasks'[k].arg = tasks[h[k]].arg
             /\ h[k] # i => Same(tasks'[k], tasks[h[k]])
             /\ h[k] = i => Back(tasks'[k], tasks[i], ok, ans)
  BY DEF HandedOver, Indices, Same, Back
<1>2. OneToOne(h)
  BY DEF HandedOver, Indices
<1>3. PromptsShape'
  BY <1>1 DEF PromptsInv, PromptsShape, HandedOver
<1>4. OnePreview'
  BY <1>1, <1>2 DEF PromptsInv, OnePreview, Running, OneToOne, Same, Back
<1>5. MarkedDeletes'
  <2> SUFFICES ASSUME ~broken' /\ ~srv'.refused
               PROVE  /\ \A k, l \in Running("deletePromptSaga")' : tasks'[k].arg = tasks'[l].arg => k = l
                      /\ \A k \in Running("deletePromptSaga")' :
                           tasks'[k].arg \in ui'.deletingIds /\ (tasks'[k].pc = "back" => tasks'[k].ok = TRUE /\ tasks'[k].ans = TRUE)
    BY DEF MarkedDeletes
  <2>1. ~broken /\ ~srv.refused /\ ok
    BY DEF PromptsInv, PromptsShape
  <2>2. \A k \in Running("deletePromptSaga")' : h[k] \in Running("deletePromptSaga")
    BY <1>1 DEF Running
  <2>3. /\ \A k, l \in Running("deletePromptSaga") : tasks[k].arg = tasks[l].arg => k = l
        /\ \A k \in Running("deletePromptSaga") :
             tasks[k].arg \in ui.deletingIds /\ (tasks[k].pc = "back" => tasks[k].ok = TRUE /\ tasks[k].ans = TRUE)
    BY <2>1 DEF PromptsInv, MarkedDeletes
  <2>4. ASSUME NEW k \in Running("deletePromptSaga")', NEW l \in Running("deletePromptSaga")', tasks'[k].arg = tasks'[l].arg PROVE k = l
    <3>1. k \in DOMAIN tasks' /\ l \in DOMAIN tasks'
      BY DEF Running
    <3>2. tasks[h[k]].arg = tasks[h[l]].arg
      BY <1>1, <2>4, <3>1
    <3>3. h[k] = h[l]
      BY <2>2, <2>3, <3>2
    <3> QED BY <1>1, <1>2, <3>1, <3>3 DEF OneToOne
  <2>5. ASSUME NEW k \in Running("deletePromptSaga")'
        PROVE  tasks'[k].arg \in ui'.deletingIds /\ (tasks'[k].pc = "back" => tasks'[k].ok = TRUE /\ tasks'[k].ans = TRUE)
    <3>1. k \in DOMAIN tasks' /\ tasks'[k].arg \in ui'.deletingIds
      BY <1>1, <2>2, <2>3 DEF Running
    <3>2. CASE h[k] # i
      <4>1. Same(tasks'[k], tasks[h[k]])
        BY <3>1, <3>2, <1>1
      <4> QED BY <3>1, <4>1, <2>2, <2>3 DEF Same
    <3>3. CASE h[k] = i
      <4>1. Back(tasks'[k], tasks[i], ok, ans) /\ tasks[i].saga = "deletePromptSaga"
        BY <3>1, <3>3, <1>1, <2>2 DEF Running
      <4> QED BY <3>1, <4>1, <2>1 DEF Back
    <3> QED BY <3>2, <3>3
  <2> QED BY <2>4, <2>5
<1>6. PreviewStep
  BY <1>1 DEF PromptsInv, OnePreview, PreviewStep, Running
<1> QED BY <1>3, <1>4, <1>5, <1>6 DEF PromptsInv

LEMMA PromptsAnswer ==
  ASSUME PromptsInv, NEW i \in DOMAIN tasks, NEW sv, NEW ans, Answer(i, sv, ans),
         DOMAIN sv = DOMAIN srv, sv.refused \in BOOLEAN, srv.refused => sv.refused,
         tasks[i].saga = "previewPromptSaga" => ans = tasks[i].arg,
         tasks[i].saga = "deletePromptSaga" => ans = TRUE \/ sv.refused
  PROVE  PromptsInv' /\ PreviewStep
<1>1. AreTasks(tasks) /\ broken \in BOOLEAN
  BY DEF PromptsInv, PromptsShape
<1>2. AnswerTelling(i, sv, ans, TRUE)
  BY DEF Answer
<1>3. srv' = sv /\ ui' = ui
  BY <1>2 DEF AnswerTelling
<1>4. PICK ok, h : ok \in BOOLEAN /\ HandedOver(tasks', tasks, i, ok, ans, h) /\ broken' = (broken \/ ~ok)
  BY <1>1, <1>2, AnswerTasks
<1>5. broken' \in BOOLEAN /\ (broken => broken') /\ (ok \/ broken')
  BY <1>1, <1>4
<1> QED BY <1>3, <1>4, <1>5, PromptsDelivered

LEMMA PromptsAnswered == ASSUME PromptsInv, PromptsAnswers PROVE PromptsInv' /\ PreviewStep
<1>1. PICK i \in InFlight : \/ QueryPromptTemplates(i) \/ CreatePromptTemplate(i) \/ UpdatePromptTemplate(i)
                            \/ DeletePromptTemplate(i) \/ PreviewPrompt(i)
  BY DEF PromptsAnswers
<1>2. i \in DOMAIN tasks /\ DOMAIN srv = {"bodies", "fresh", "refused"} /\ srv.refused \in BOOLEAN
  BY DEF InFlight, InState, PromptsInv, PromptsShape
<1>3. CASE QueryPromptTemplates(i)
  BY <1>2, <1>3, PromptsAnswer DEF QueryPromptTemplates
<1>4. CASE CreatePromptTemplate(i)
  <2>1. PICK t \in srv.fresh : Answer(i, [srv EXCEPT !.bodies = (t :> tasks[i].arg) @@ @, !.fresh = @ \ {t}],
                                      [id |-> t, body |-> tasks[i].arg])
    BY <1>4 DEF CreatePromptTemplate
  <2> DEFINE sv == [srv EXCEPT !.bodies = (t :> tasks[i].arg) @@ @, !.fresh = @ \ {t}]
  <2>2. DOMAIN sv = DOMAIN srv /\ sv.refused = srv.refused
    BY <1>2
  <2>3. tasks[i].saga = "createPromptSaga"
    BY <1>4 DEF CreatePromptTemplate
  <2> HIDE DEF sv
  <2> QED BY <1>2, <2>1, <2>2, <2>3, PromptsAnswer DEF sv
<1>5. CASE UpdatePromptTemplate(i)
  <2> DEFINE found == tasks[i].arg.id \in DOMAIN srv.bodies
             sv == IF found THEN [srv EXCEPT !.bodies[tasks[i].arg.id] = tasks[i].arg.body] ELSE srv
  <2>1. Answer(i, sv, found) /\ tasks[i].saga = "updatePromptSaga"
    BY <1>5 DEF UpdatePromptTemplate
  <2>2. DOMAIN sv = DOMAIN srv /\ sv.refused = srv.refused
    BY <1>2
  <2> HIDE DEF sv, found
  <2> QED BY <1>2, <2>1, <2>2, PromptsAnswer
<1>6. CASE DeletePromptTemplate(i)
  <2> DEFINE found == tasks[i].arg \in DOMAIN srv.bodies
             sv == [srv EXCEPT !.bodies = [t \in DOMAIN @ \ {tasks[i].arg} |-> @[t]], !.refused = @ \/ ~found]
  <2>1. Answer(i, sv, found) /\ tasks[i].saga = "deletePromptSaga"
    BY <1>6 DEF DeletePromptTemplate
  <2>2. DOMAIN sv = DOMAIN srv /\ sv.refused = (srv.refused \/ ~found) /\ found \in BOOLEAN
    BY <1>2
  <2> HIDE DEF sv, found
  <2>3. sv.refused \in BOOLEAN /\ (srv.refused => sv.refused) /\ (found = TRUE \/ sv.refused)
    BY <1>2, <2>2
  <2> QED BY <1>2, <2>1, <2>2, <2>3, PromptsAnswer
<1>7. CASE PreviewPrompt(i)
  BY <1>2, <1>7, PromptsAnswer DEF PreviewPrompt
<1> QED BY <1>1, <1>3, <1>4, <1>5, <1>6, <1>7

LEMMA PromptsDropped == ASSUME PromptsInv, Dropped PROVE PromptsInv' /\ PreviewStep
<1>1. PICK i \in InState("call") : Unreached(i)
  BY DEF Dropped
<1>2. /\ Deliver(tasks, i, FALSE, Nothing) /\ broken' = TRUE /\ UNCHANGED <<ui, srv>>
      /\ i \in DOMAIN tasks /\ AreTasks(tasks) /\ srv.refused \in BOOLEAN
  BY <1>1 DEF Unreached, InState, PromptsInv, PromptsShape
<1>3. \E h : HandedOver(tasks', tasks, i, FALSE, Nothing, h)
  BY <1>2, DeliverTasks
<1> QED BY <1>2, <1>3, PromptsDelivered

\* A saga that resumes puts one action, which no watcher takes.
PromptsPuts(t, a) ==
  /\ promptsPuts(t) = <<a>>
  /\ \A ts : watchPromptsSagas(ts, a) = ts
  /\ DOMAIN promptsReducer(ui, a) = DOMAIN ui
  /\ promptsReducer(ui, a).previewResult = IF t.saga = "previewPromptSaga" /\ t.ok THEN t.ans ELSE ui.previewResult
  /\ t.saga # "deletePromptSaga" => promptsReducer(ui, a).deletingIds = ui.deletingIds
  /\ t.saga = "deletePromptSaga" /\ t.ok /\ t.ans = TRUE => promptsReducer(ui, a).deletingIds = ui.deletingIds \ {t.arg}
LEMMA PromptsPut ==
  ASSUME NEW t, t.saga \in {"loadPromptsSaga", "createPromptSaga", "updatePromptSaga", "deletePromptSaga", "previewPromptSaga"},
         t.ok \in BOOLEAN, DOMAIN ui = {"templates", "isLoading", "error", "savingIds", "deletingIds", "previewResult", "isPreviewLoading"}
  PROVE  \E a : PromptsPuts(t, a)
<1>1. CASE t.saga = "loadPromptsSaga"
  BY <1>1 DEF promptsPuts, loadPromptsSaga, watchPromptsSagas, promptsReducer, PromptsPuts
<1>2. CASE t.saga = "createPromptSaga"
  BY <1>2 DEF promptsPuts, createPromptSaga, watchPromptsSagas, promptsReducer, PromptsPuts
<1>3. CASE t.saga = "updatePromptSaga"
  <2>1. CASE t.ok /\ t.ans
    <3> DEFINE a == [type |-> "UPDATE_PROMPT_SUCCESS", template |-> t.arg]
    <3>1. promptsPuts(t) = <<a>>
      BY <1>3, <2>1 DEF promptsPuts, updatePromptSaga
    <3>2. \A ts : watchPromptsSagas(ts, a) = ts
      BY DEF watchPromptsSagas
    <3>3. DOMAIN promptsReducer(ui, a) = DOMAIN ui /\ promptsReducer(ui, a).previewResult = ui.previewResult
          /\ promptsReducer(ui, a).deletingIds = ui.deletingIds
      BY DEF promptsReducer
    <3> QED BY <1>3, <3>1, <3>2, <3>3 DEF PromptsPuts
  <2>2. CASE ~(t.ok /\ t.ans)
    <3> DEFINE a == [type |-> "UPDATE_PROMPT_FAILURE"]
    <3>1. promptsPuts(t) = <<a>>
      BY <1>3, <2>2 DEF promptsPuts, updatePromptSaga
    <3>2. \A ts : watchPromptsSagas(ts, a) = ts
      BY DEF watchPromptsSagas
    <3>3. DOMAIN promptsReducer(ui, a) = DOMAIN ui /\ promptsReducer(ui, a).previewResult = ui.previewResult
          /\ promptsReducer(ui, a).deletingIds = ui.deletingIds
      BY DEF promptsReducer
    <3> QED BY <1>3, <3>1, <3>2, <3>3 DEF PromptsPuts
  <2> QED BY <2>1, <2>2
<1>4. CASE t.saga = "deletePromptSaga"
  BY <1>4 DEF promptsPuts, deletePromptSaga, watchPromptsSagas, promptsReducer, PromptsPuts
<1>5. CASE t.saga = "previewPromptSaga"
  BY <1>5 DEF promptsPuts, previewPromptSaga, watchPromptsSagas, promptsReducer, previewReducer, PromptsPuts
<1> QED BY <1>1, <1>2, <1>3, <1>4, <1>5

LEMMA PromptsResumed == ASSUME PromptsInv, PromptsResumes PROVE PromptsInv' /\ PreviewStep
<1>1. PICK i \in InState("back") :
        Resume(promptsReducer, watchPromptsSagas, i, promptsPuts(tasks[i]), << >>, tasks[i].saga = "loadPromptsSaga")
  BY DEF PromptsResumes
<1> DEFINE t == tasks[i]
           others == Overtaken(SubSeq(tasks, 1, i - 1)) \o SubSeq(tasks, i + 1, Len(tasks))
<1>2. i \in DOMAIN tasks /\ t.pc = "back" /\ t.saga \in PromptsSagas /\ AreTasks(tasks) /\ t.ok \in BOOLEAN
  BY DEF InState, PromptsInv, PromptsShape, AreTasks, IsTask
<1>3. PICK h : Without(others, tasks, i, h)
  BY <1>2, ResumeTasks
<1>4. PICK a : PromptsPuts(t, a)
  BY <1>2, PromptsPut DEF PromptsInv, PromptsShape, PromptsSagas
<1>5. ui' = promptsReducer(ui, a) /\ UNCHANGED <<srv, broken>>
  BY <1>1, <1>4, PromptsReduced DEF Resume, PromptsPuts
<1>6. tasks' = others
  <2> DEFINE S == {tasks[k] : k \in DOMAIN tasks}
  <2>1. others \o << >> = others
    <3>1. others \in Seq({others[k] : k \in DOMAIN others})
      BY <1>3 DEF Without, AreTasks
    <3> HIDE DEF others
    <3> QED BY <3>1, ConcatEmptySeq
  <2>2. tasks' = Watched(watchPromptsSagas, others \o << >>, <<a>>)
    BY <1>1, <1>4 DEF Resume, PromptsPuts
  <2> QED BY <1>4, <2>1, <2>2, PromptsWatched DEF PromptsPuts
<1> HIDE DEF others
<1>7. ASSUME NEW k \in DOMAIN tasks'
      PROVE  k \in DOMAIN h /\ h[k] \in DOMAIN tasks /\ h[k] # i /\ Same(tasks'[k], tasks[h[k]])
  BY <1>3, <1>6 DEF Without, Indices
<1>8. OneToOne(h) /\ AreTasks(tasks')
  BY <1>3, <1>6 DEF Without, Indices
<1>9. ASSUME NEW k \in DOMAIN tasks', t.saga = "previewPromptSaga" PROVE tasks'[k].saga # "previewPromptSaga"
  BY <1>2, <1>7, <1>9 DEF PromptsInv, OnePreview, Running, Same
<1>10. PromptsShape'
  <2>1. \A k \in DOMAIN tasks' : tasks'[k].saga \in PromptsSagas
    BY <1>7 DEF PromptsInv, PromptsShape, Same
  <2> QED BY <2>1, <1>4, <1>5, <1>8 DEF PromptsInv, PromptsShape, PromptsPuts
<1>11. OnePreview'
  <2>1. CASE t.saga = "previewPromptSaga"
    BY <2>1, <1>9 DEF OnePreview, Running
  <2>2. CASE t.saga # "previewPromptSaga"
    <3>1. ui'.previewResult = ui.previewResult
      BY <2>2, <1>4, <1>5 DEF PromptsPuts
    <3> QED BY <3>1, <1>7, <1>8 DEF PromptsInv, OnePreview, Running, Same, OneToOne
  <2> QED BY <2>1, <2>2
<1>12. MarkedDeletes'
  <2> SUFFICES ASSUME ~broken /\ ~srv.refused
               PROVE  /\ \A k, l \in Running("deletePromptSaga")' : tasks'[k].arg = tasks'[l].arg => k = l
                      /\ \A k \in Running("deletePromptSaga")' :
                           tasks'[k].arg \in ui'.deletingIds /\ (tasks'[k].pc = "back" => tasks'[k].ok = TRUE /\ tasks'[k].ans = TRUE)
    BY <1>5 DEF MarkedDeletes
  <2>1. /\ \A k, l \in Running("deletePromptSaga") : tasks[k].arg = tasks[l].arg => k = l
        /\ \A k \in Running("deletePromptSaga") :
             tasks[k].arg \in ui.deletingIds /\ (tasks[k].pc = "back" => tasks[k].ok = TRUE /\ tasks[k].ans = TRUE)
    BY DEF PromptsInv, MarkedDeletes
  <2>2. ASSUME NEW k \in Running("deletePromptSaga")'
        PROVE  /\ k \in DOMAIN h /\ h[k] \in Running("deletePromptSaga") /\ h[k] # i
               /\ tasks'[k].arg = tasks[h[k]].arg /\ Same(tasks'[k], tasks[h[k]])
    BY <1>7 DEF Running, Same
  <2>3. ASSUME NEW k \in Running("deletePromptSaga")', NEW l \in Running("deletePromptSaga")', tasks'[k].arg = tasks'[l].arg PROVE k = l
    BY <1>8, <2>1, <2>2, <2>3 DEF OneToOne
  <2>4. ASSUME NEW k \in Running("deletePromptSaga")'
        PROVE  tasks'[k].arg \in ui'.deletingIds /\ (tasks'[k].pc = "back" => tasks'[k].ok = TRUE /\ tasks'[k].ans = TRUE)
    <3>1. tasks'[k].pc = "back" => tasks'[k].ok = TRUE /\ tasks'[k].ans = TRUE
      BY <2>1, <2>2 DEF Same
    <3>2. tasks'[k].arg \in ui'.deletingIds
      <4>1. CASE t.saga = "deletePromptSaga"
        <5>1. i \in Running("deletePromptSaga")
          BY <4>1, <1>2 DEF Running
        <5>2. t.ok = TRUE /\ t.ans = TRUE /\ tasks'[k].arg # t.arg
          BY <5>1, <1>2, <2>1, <2>2
        <5>3. ui'.deletingIds = ui.deletingIds \ {t.arg}
          BY <4>1, <5>2, <1>4, <1>5 DEF PromptsPuts
        <5> QED BY <5>2, <5>3, <2>1, <2>2
      <4>2. CASE t.saga # "deletePromptSaga"
        BY <4>2, <1>4, <1>5, <2>1, <2>2 DEF PromptsPuts
      <4> QED BY <4>1, <4>2
    <3> QED BY <3>1, <3>2
  <2> QED BY <2>3, <2>4
<1>13. PreviewStep
  <2>1. CASE t.saga = "previewPromptSaga"
    <3>1. i \in Running("previewPromptSaga")
      BY <2>1, <1>2 DEF Running
    <3>2. \A j \in Running("previewPromptSaga") : j = i /\ (t.ok => t.ans = tasks[j].arg)
      BY <3>1, <1>2 DEF PromptsInv, OnePreview
    <3>3. ui'.previewResult = IF t.ok THEN t.ans ELSE ui.previewResult
      BY <2>1, <1>4, <1>5 DEF PromptsPuts
    <3>4. \A k \in DOMAIN tasks' : tasks'[k].saga # "previewPromptSaga"
      BY <2>1, <1>9
    <3> QED BY <3>2, <3>3, <3>4, <1>2 DEF PreviewStep
  <2>2. CASE t.saga # "previewPromptSaga"
    <3>1. ui'.previewResult = ui.previewResult
      BY <2>2, <1>4, <1>5 DEF PromptsPuts
    <3> QED BY <3>1, <1>7 DEF PromptsInv, OnePreview, PreviewStep, Running, Same
  <2> QED BY <2>1, <2>2
<1> QED BY <1>10, <1>11, <1>12, <1>13 DEF PromptsInv

LEMMA PromptsSteps == ASSUME PromptsInv, PromptsNext PROVE PromptsInv' /\ PreviewStep
<1>1. CASE Prompts
  BY <1>1, PromptsLoad, PromptsDelete DEF Prompts
<1>2. CASE PromptEditor
  BY <1>2, PromptsCreate, PromptsUpdate DEF PromptEditor
<1>3. CASE PromptTestRunner
  BY <1>3, PromptsPreview, PromptsClear DEF PromptTestRunner
<1> QED BY <1>1, <1>2, <1>3, PromptsAnswered, PromptsDropped, PromptsResumed DEF PromptsNext
LEMMA PromptsStutters == ASSUME PromptsInv, UNCHANGED sagaVars PROVE PromptsInv' /\ PreviewStep
BY DEF sagaVars, PromptsInv, PromptsShape, OnePreview, MarkedDeletes, PreviewStep, Running

(****************************************************************************)
(* The routines page: a run under way has its mark.                         *)
(****************************************************************************)

RR == INSTANCE PutsProofs WITH Op <- LAMBDA x, s, a : routinesReducer(s, a)
RW == INSTANCE PutsProofs WITH Op <- LAMBDA x, s, a : watchRoutinesSagas(s, a)
LEMMA RoutinesReduced == ASSUME NEW s, NEW a PROVE Reduced(routinesReducer, s, <<a>>) = routinesReducer(s, a)
<1>1. RR!Fold(0, s, <<a>>) = Reduced(routinesReducer, s, <<a>>)
  BY DEF RR!Fold, Reduced, RR!Folds, RR!Step, RR!Greatest, FoldLeft, MapThenFoldSet, Max
<1> QED BY <1>1, RR!FoldOne
LEMMA RoutinesWatched == ASSUME NEW s, NEW a PROVE Watched(watchRoutinesSagas, s, <<a>>) = watchRoutinesSagas(s, a)
<1>1. RW!Fold(0, s, <<a>>) = Watched(watchRoutinesSagas, s, <<a>>)
  BY DEF RW!Fold, Watched, RW!Folds, RW!Step, RW!Greatest, FoldLeft, MapThenFoldSet, Max
<1> QED BY <1>1, RW!FoldOne

RoutinesSagas == {"loadRoutinesSaga", "toggleRoutineSaga", "runRoutineNowSaga"}
RoutinesShape ==
  /\ AreTasks(tasks) /\ \A i \in DOMAIN tasks : tasks[i].saga \in RoutinesSagas
  /\ DOMAIN ui = {"routines", "isLoading", "error", "togglingKeys", "runningKeys"}
  /\ broken \in BOOLEAN
\* A run under way has its mark, and will not fail.
MarkedRuns ==
  ~broken =>
    /\ \A i, j \in Running("runRoutineNowSaga") : tasks[i].arg = tasks[j].arg => i = j
    /\ \A i \in Running("runRoutineNowSaga") :
         tasks[i].arg \in ui.runningKeys /\ (tasks[i].pc = "back" => tasks[i].ok = TRUE)
RoutinesInv == RoutinesShape /\ MarkedRuns

LEMMA RoutinesInitOK == ASSUME NEW budget, RoutinesInit(budget) PROVE RoutinesInv
<1>1. ui = initialRoutinesState /\ tasks = << >> /\ broken = FALSE
  BY DEF RoutinesInit, SagaInit, SagaBoot, SagaStart
<1>2. AreTasks(tasks) /\ DOMAIN tasks = {}
  BY <1>1, NoTasks
<1>3. RoutinesShape
  BY <1>1, <1>2 DEF RoutinesShape, initialRoutinesState
<1>4. Running("runRoutineNowSaga") = {}
  BY <1>2 DEF Running
<1> QED BY <1>3, <1>4 DEF RoutinesInv, MarkedRuns

LEMMA RoutinesDispatched ==
  ASSUME NEW a, RoutinesDo(a)
  PROVE  ui' = routinesReducer(ui, a) /\ tasks' = watchRoutinesSagas(tasks, a) /\ UNCHANGED broken
BY RoutinesReduced, RoutinesWatched DEF RoutinesDo, Dispatch, DispatchAll

\* The task of another watcher disturbs no run.
LEMMA RoutinesOthers ==
  ASSUME RoutinesInv, NEW t, NEW h, Joined(tasks', tasks, t, h), t.saga \in RoutinesSagas \ {"runRoutineNowSaga"},
         DOMAIN ui' = DOMAIN ui, ui'.runningKeys = ui.runningKeys, UNCHANGED broken
  PROVE  RoutinesInv'
<1>1. ASSUME NEW k \in DOMAIN tasks' PROVE k = Len(tasks') \/ (k \in DOMAIN h /\ h[k] \in DOMAIN tasks /\ Same(tasks'[k], tasks[h[k]]))
  BY DEF Joined
<1>2. OneToOne(h) /\ AreTasks(tasks') /\ tasks'[Len(tasks')] = t
  BY DEF Joined
<1>3. RoutinesShape'
  BY <1>1, <1>2 DEF RoutinesInv, RoutinesShape, Same
<1>4. MarkedRuns'
  BY <1>1, <1>2 DEF RoutinesInv, MarkedRuns, Running, OneToOne, Same
<1> QED BY <1>3, <1>4 DEF RoutinesInv

LEMMA RoutinesLoad == ASSUME RoutinesInv, RoutinesDo([type |-> "LOAD_ROUTINES"]) PROVE RoutinesInv'
<1> DEFINE a == [type |-> "LOAD_ROUTINES"]
           t == gqlRequest("loadRoutinesSaga", Nothing)
<1>1. ui' = routinesReducer(ui, a) /\ tasks' = watchRoutinesSagas(tasks, a) /\ UNCHANGED broken
  BY RoutinesDispatched
<1>2. tasks' = takeLatestQuery(tasks, t)
  BY <1>1 DEF watchRoutinesSagas
<1>3. DOMAIN ui' = DOMAIN ui /\ ui'.runningKeys = ui.runningKeys
  BY <1>1 DEF routinesReducer, RoutinesInv, RoutinesShape
<1>4. PICK h : TakenLatest(tasks', tasks, t, {}, h)
  BY <1>2, LatestQuery DEF RoutinesInv, RoutinesShape
<1>5. t.saga = "loadRoutinesSaga" /\ Joined(tasks', tasks, t, h)
  BY <1>4, Request DEF TakenLatest
<1> HIDE DEF t
<1> QED BY <1>1, <1>3, <1>5, RoutinesOthers DEF RoutinesSagas

LEMMA RoutinesToggle ==
  ASSUME RoutinesInv, NEW r, NEW e, RoutinesDo([type |-> "TOGGLE_ROUTINE", key |-> r, enabled |-> e]) PROVE RoutinesInv'
<1> DEFINE a == [type |-> "TOGGLE_ROUTINE", key |-> r, enabled |-> e]
           t == gqlRequest("toggleRoutineSaga", [key |-> r, enabled |-> e])
<1>1. ui' = routinesReducer(ui, a) /\ tasks' = watchRoutinesSagas(tasks, a) /\ UNCHANGED broken
  BY RoutinesDispatched
<1>2. tasks' = takeEvery(tasks, t)
  BY <1>1 DEF watchRoutinesSagas
<1>3. DOMAIN ui' = DOMAIN ui /\ ui'.runningKeys = ui.runningKeys
  BY <1>1 DEF routinesReducer, RoutinesInv, RoutinesShape
<1>4. PICK h : TakenEvery(tasks', tasks, t, h)
  BY <1>2, EveryRequest DEF RoutinesInv, RoutinesShape
<1>5. t.saga = "toggleRoutineSaga" /\ Joined(tasks', tasks, t, h)
  BY <1>4, Request DEF TakenEvery
<1> HIDE DEF t
<1> QED BY <1>1, <1>3, <1>5, RoutinesOthers DEF RoutinesSagas

LEMMA RoutinesRun ==
  ASSUME RoutinesInv, NEW r, r \notin ui.runningKeys, RoutinesDo([type |-> "RUN_ROUTINE_NOW", key |-> r]) PROVE RoutinesInv'
<1> DEFINE a == [type |-> "RUN_ROUTINE_NOW", key |-> r]
           t == gqlRequest("runRoutineNowSaga", r)
<1>1. ui' = routinesReducer(ui, a) /\ tasks' = watchRoutinesSagas(tasks, a) /\ UNCHANGED broken
  BY RoutinesDispatched
<1>2. tasks' = takeEvery(tasks, t)
  BY <1>1 DEF watchRoutinesSagas
<1>3. DOMAIN ui' = DOMAIN ui /\ ui'.runningKeys = ui.runningKeys \cup {r}
  BY <1>1 DEF routinesReducer, RoutinesInv, RoutinesShape
<1>4. PICK h : TakenEvery(tasks', tasks, t, h)
  BY <1>2, EveryRequest DEF RoutinesInv, RoutinesShape
<1>5. t.saga = "runRoutineNowSaga" /\ t.arg = r /\ t.pc = "call"
  BY DEF gqlRequest
<1>6. Joined(tasks', tasks, t, h)
  BY <1>4 DEF TakenEvery
<1> HIDE DEF t
<1>7. ASSUME NEW k \in DOMAIN tasks' PROVE k = Len(tasks') \/ (k \in DOMAIN h /\ h[k] \in DOMAIN tasks /\ Same(tasks'[k], tasks[h[k]]))
  BY <1>6 DEF Joined
<1>8. OneToOne(h) /\ AreTasks(tasks') /\ tasks'[Len(tasks')] = t
  BY <1>6 DEF Joined
<1>9. RoutinesShape'
  BY <1>1, <1>3, <1>5, <1>7, <1>8 DEF RoutinesInv, RoutinesShape, Same, RoutinesSagas
<1>10. MarkedRuns'
  <2> SUFFICES ASSUME ~broken
               PROVE  /\ \A k, l \in Running("runRoutineNowSaga")' : tasks'[k].arg = tasks'[l].arg => k = l
                      /\ \A k \in Running("runRoutineNowSaga")' :
                           tasks'[k].arg \in ui'.runningKeys /\ (tasks'[k].pc = "back" => tasks'[k].ok = TRUE)
    BY <1>1 DEF MarkedRuns
  <2>1. /\ \A k, l \in Running("runRoutineNowSaga") : tasks[k].arg = tasks[l].arg => k = l
        /\ \A k \in Running("runRoutineNowSaga") :
             tasks[k].arg \in ui.runningKeys /\ tasks[k].arg # r /\ (tasks[k].pc = "back" => tasks[k].ok = TRUE)
    BY DEF RoutinesInv, MarkedRuns
  <2>2. ASSUME NEW k \in Running("runRoutineNowSaga")'
        PROVE  \/ k = Len(tasks') /\ tasks'[k].arg = r /\ tasks'[k].pc = "call"
               \/ k \in DOMAIN h /\ h[k] \in Running("runRoutineNowSaga") /\ Same(tasks'[k], tasks[h[k]])
    BY <1>5, <1>7, <1>8 DEF Running, Same
  <2>3. ASSUME NEW k \in Running("runRoutineNowSaga")', NEW l \in Running("runRoutineNowSaga")', tasks'[k].arg = tasks'[l].arg PROVE k = l
    BY <1>8, <2>1, <2>2, <2>3 DEF OneToOne, Same
  <2>4. ASSUME NEW k \in Running("runRoutineNowSaga")'
        PROVE tasks'[k].arg \in ui'.runningKeys /\ (tasks'[k].pc = "back" => tasks'[k].ok = TRUE)
    BY <1>3, <2>1, <2>2 DEF Same
  <2> QED BY <2>3, <2>4
<1> QED BY <1>9, <1>10 DEF RoutinesInv

LEMMA RoutinesDelivered ==
  ASSUME RoutinesInv, NEW i \in DOMAIN tasks, NEW ok \in BOOLEAN, NEW ans, NEW h, HandedOver(tasks', tasks, i, ok, ans, h),
         ui' = ui, broken' \in BOOLEAN, broken => broken', ok \/ broken'
  PROVE  RoutinesInv'
<1>1. ASSUME NEW k \in DOMAIN tasks'
      PROVE  /\ k \in DOMAIN h /\ h[k] \in DOMAIN tasks
             /\ tasks'[k].saga = tasks[h[k]].saga /\ tasks'[k].arg = tasks[h[k]].arg
             /\ (Same(tasks'[k], tasks[h[k]]) \/ Back(tasks'[k], tasks[i], ok, ans))
  BY DEF HandedOver, Indices, Same, Back
<1>2. OneToOne(h)
  BY DEF HandedOver, Indices
<1>3. RoutinesShape'
  BY <1>1 DEF RoutinesInv, RoutinesShape, HandedOver
<1>4. MarkedRuns'
  <2> SUFFICES ASSUME ~broken'
               PROVE  /\ \A k, l \in Running("runRoutineNowSaga")' : tasks'[k].arg = tasks'[l].arg => k = l
                      /\ \A k \in Running("runRoutineNowSaga")' :
                           tasks'[k].arg \in ui'.runningKeys /\ (tasks'[k].pc = "back" => tasks'[k].ok = TRUE)
    BY DEF MarkedRuns
  <2>1. /\ \A k, l \in Running("runRoutineNowSaga") : tasks[k].arg = tasks[l].arg => k = l
        /\ \A k \in Running("runRoutineNowSaga") :
             tasks[k].arg \in ui.runningKeys /\ (tasks[k].pc = "back" => tasks[k].ok = TRUE)
        /\ ok = TRUE
    BY DEF RoutinesInv, RoutinesShape, MarkedRuns
  <2>2. ASSUME NEW k \in Running("runRoutineNowSaga")'
        PROVE  /\ k \in DOMAIN h /\ h[k] \in Running("runRoutineNowSaga") /\ tasks'[k].arg = tasks[h[k]].arg
               /\ (Same(tasks'[k], tasks[h[k]]) \/ Back(tasks'[k], tasks[i], ok, ans))
    BY <1>1 DEF Running
  <2>3. ASSUME NEW k \in Running("runRoutineNowSaga")', NEW l \in Running("runRoutineNowSaga")', tasks'[k].arg = tasks'[l].arg PROVE k = l
    <3>1. /\ k \in DOMAIN h /\ h[k] \in Running("runRoutineNowSaga") /\ tasks'[k].arg = tasks[h[k]].arg
          /\ l \in DOMAIN h /\ h[l] \in Running("runRoutineNowSaga") /\ tasks'[l].arg = tasks[h[l]].arg
      BY <2>2
    <3>2. tasks[h[k]].arg = tasks[h[l]].arg
      BY <3>1, <2>3
    <3>3. h[k] = h[l]
      BY <3>1, <3>2, <2>1
    <3> QED BY <3>1, <3>3, <1>2 DEF OneToOne
  <2>4. ASSUME NEW k \in Running("runRoutineNowSaga")'
        PROVE tasks'[k].arg \in ui'.runningKeys /\ (tasks'[k].pc = "back" => tasks'[k].ok = TRUE)
    <3>1. /\ h[k] \in Running("runRoutineNowSaga") /\ tasks'[k].arg = tasks[h[k]].arg
          /\ (Same(tasks'[k], tasks[h[k]]) \/ Back(tasks'[k], tasks[i], ok, ans))
      BY <2>2
    <3>2. tasks'[k].arg \in ui'.runningKeys
      BY <3>1, <2>1
    <3>3. tasks'[k].pc = "back" => tasks'[k].ok = TRUE
      BY <3>1, <2>1 DEF Same, Back
    <3> QED BY <3>2, <3>3
  <2> QED BY <2>3, <2>4
<1> QED BY <1>3, <1>4 DEF RoutinesInv

LEMMA RoutinesAnswer == ASSUME RoutinesInv, NEW i \in DOMAIN tasks, NEW sv, NEW ans, Answer(i, sv, ans) PROVE RoutinesInv'
<1>1. AreTasks(tasks) /\ broken \in BOOLEAN
  BY DEF RoutinesInv, RoutinesShape
<1>2. AnswerTelling(i, sv, ans, TRUE)
  BY DEF Answer
<1>3. ui' = ui
  BY <1>2 DEF AnswerTelling
<1>4. PICK ok, h : ok \in BOOLEAN /\ HandedOver(tasks', tasks, i, ok, ans, h) /\ broken' = (broken \/ ~ok)
  BY <1>1, <1>2, AnswerTasks
<1>5. broken' \in BOOLEAN /\ (broken => broken') /\ (ok \/ broken')
  BY <1>1, <1>4
<1> QED BY <1>3, <1>4, <1>5, RoutinesDelivered

LEMMA RoutinesHalfway == ASSUME RoutinesInv, NEW i \in DOMAIN tasks, NEW sv, NEW read, Halfway(i, sv, read) PROVE RoutinesInv'
<1>1. /\ AreTasks(tasks') /\ DOMAIN tasks' = DOMAIN tasks /\ UNCHANGED <<ui, broken>>
      /\ \A k \in DOMAIN tasks : tasks'[k].saga = tasks[k].saga /\ tasks'[k].arg = tasks[k].arg /\ tasks'[k].ok = tasks[k].ok
      /\ \A k \in DOMAIN tasks : tasks'[k].pc = "back" => tasks[k].pc = "back"
  <2>1. AreTasks(tasks) /\ UNCHANGED <<ui, broken>>
    BY DEF Halfway, RoutinesInv, RoutinesShape
  <2> QED BY <2>1, HalfwayTasks
<1>2. RoutinesShape'
  BY <1>1 DEF RoutinesInv, RoutinesShape
<1>3. MarkedRuns'
  BY <1>1 DEF RoutinesInv, MarkedRuns, Running
<1> QED BY <1>2, <1>3 DEF RoutinesInv

LEMMA RoutinesAnswered == ASSUME RoutinesInv, RoutinesAnswers PROVE RoutinesInv'
<1>1. PICK i \in InFlight : QueryRoutines(i) \/ ToggleAsync(i) \/ ToggleRoutine(i) \/ RunNowAsync(i) \/ RunRoutineNow(i)
  BY DEF RoutinesAnswers
<1>2. i \in DOMAIN tasks
  BY DEF InFlight, InState
<1>3. (\E sv, ans : Answer(i, sv, ans)) \/ (\E sv, read : Halfway(i, sv, read))
  BY <1>1 DEF QueryRoutines, ToggleAsync, ToggleRoutine, RunNowAsync, RunRoutineNow
<1> QED BY <1>2, <1>3, RoutinesAnswer, RoutinesHalfway

LEMMA RoutinesDropped == ASSUME RoutinesInv, Dropped PROVE RoutinesInv'
<1>1. PICK i \in InState("call") : Unreached(i)
  BY DEF Dropped
<1>2. /\ Deliver(tasks, i, FALSE, Nothing) /\ broken' = TRUE /\ UNCHANGED ui
      /\ i \in DOMAIN tasks /\ AreTasks(tasks)
  BY <1>1 DEF Unreached, InState, RoutinesInv, RoutinesShape
<1>3. \E h : HandedOver(tasks', tasks, i, FALSE, Nothing, h)
  BY <1>2, DeliverTasks
<1> QED BY <1>2, <1>3, RoutinesDelivered

RoutinesPuts(t, a) ==
  /\ routinesPuts(t) = <<a>>
  /\ \A ts : watchRoutinesSagas(ts, a) = ts
  /\ DOMAIN routinesReducer(ui, a) = DOMAIN ui
  /\ t.saga # "runRoutineNowSaga" => routinesReducer(ui, a).runningKeys = ui.runningKeys
  /\ t.saga = "runRoutineNowSaga" /\ t.ok => routinesReducer(ui, a).runningKeys = ui.runningKeys \ {t.arg}
LEMMA RoutinesPut ==
  ASSUME NEW t, t.saga \in RoutinesSagas, t.ok \in BOOLEAN, RoutinesShape PROVE \E a : RoutinesPuts(t, a)
<1>1. CASE t.saga = "loadRoutinesSaga"
  BY <1>1 DEF routinesPuts, loadRoutinesSaga, watchRoutinesSagas, routinesReducer, RoutinesPuts, RoutinesShape
<1>2. CASE t.saga = "toggleRoutineSaga" /\ t.ok
  <2> DEFINE a == [type |-> "TOGGLE_ROUTINE_SUCCESS", key |-> t.arg.key, routine |-> t.ans]
  <2>1. routinesPuts(t) = <<a>>
    BY <1>2 DEF routinesPuts, toggleRoutineSaga
  <2>2. \A ts : watchRoutinesSagas(ts, a) = ts
    BY DEF watchRoutinesSagas
  <2>3. DOMAIN routinesReducer(ui, a) = DOMAIN ui /\ routinesReducer(ui, a).runningKeys = ui.runningKeys
    BY DEF routinesReducer, RoutinesShape
  <2> QED BY <1>2, <2>1, <2>2, <2>3 DEF RoutinesPuts
<1>3. CASE t.saga = "toggleRoutineSaga" /\ ~t.ok
  BY <1>3 DEF routinesPuts, toggleRoutineSaga, watchRoutinesSagas, routinesReducer, RoutinesPuts, RoutinesShape
<1>4. CASE t.saga = "runRoutineNowSaga" /\ t.ok
  <2> DEFINE a == [type |-> "RUN_ROUTINE_NOW_SUCCESS", key |-> t.arg, run |-> t.ans]
  <2>1. routinesPuts(t) = <<a>>
    BY <1>4 DEF routinesPuts, runRoutineNowSaga
  <2>2. \A ts : watchRoutinesSagas(ts, a) = ts
    BY DEF watchRoutinesSagas
  <2>3. DOMAIN routinesReducer(ui, a) = DOMAIN ui /\ routinesReducer(ui, a).runningKeys = ui.runningKeys \ {t.arg}
    BY DEF routinesReducer, RoutinesShape
  <2> QED BY <1>4, <2>1, <2>2, <2>3 DEF RoutinesPuts
<1>5. CASE t.saga = "runRoutineNowSaga" /\ ~t.ok
  BY <1>5 DEF routinesPuts, runRoutineNowSaga, watchRoutinesSagas, routinesReducer, RoutinesPuts, RoutinesShape
<1> QED BY <1>1, <1>2, <1>3, <1>4, <1>5 DEF RoutinesSagas

LEMMA RoutinesResumed == ASSUME RoutinesInv, RoutinesResumes PROVE RoutinesInv'
<1>1. PICK i \in InState("back") :
        Resume(routinesReducer, watchRoutinesSagas, i, routinesPuts(tasks[i]), << >>, tasks[i].saga = "loadRoutinesSaga")
  BY DEF RoutinesResumes
<1> DEFINE t == tasks[i]
           others == Overtaken(SubSeq(tasks, 1, i - 1)) \o SubSeq(tasks, i + 1, Len(tasks))
<1>2. i \in DOMAIN tasks /\ t.pc = "back" /\ t.saga \in RoutinesSagas /\ AreTasks(tasks) /\ t.ok \in BOOLEAN /\ RoutinesShape
  BY DEF InState, RoutinesInv, RoutinesShape, AreTasks, IsTask
<1>3. PICK h : Without(others, tasks, i, h)
  BY <1>2, ResumeTasks
<1>4. PICK a : RoutinesPuts(t, a)
  BY <1>2, RoutinesPut
<1>5. ui' = routinesReducer(ui, a) /\ UNCHANGED broken
  BY <1>1, <1>4, RoutinesReduced DEF Resume, RoutinesPuts
<1>6. tasks' = others
  <2>1. others \o << >> = others
    <3>1. others \in Seq({others[k] : k \in DOMAIN others})
      BY <1>3 DEF Without, AreTasks
    <3> HIDE DEF others
    <3> QED BY <3>1, ConcatEmptySeq
  <2>2. tasks' = Watched(watchRoutinesSagas, others \o << >>, <<a>>)
    BY <1>1, <1>4 DEF Resume, RoutinesPuts
  <2> QED BY <1>4, <2>1, <2>2, RoutinesWatched DEF RoutinesPuts
<1> HIDE DEF others
<1>7. ASSUME NEW k \in DOMAIN tasks'
      PROVE  k \in DOMAIN h /\ h[k] \in DOMAIN tasks /\ h[k] # i /\ Same(tasks'[k], tasks[h[k]])
  BY <1>3, <1>6 DEF Without, Indices
<1>8. OneToOne(h) /\ AreTasks(tasks')
  BY <1>3, <1>6 DEF Without, Indices
<1>9. RoutinesShape'
  <2>1. \A k \in DOMAIN tasks' : tasks'[k].saga \in RoutinesSagas
    BY <1>7 DEF RoutinesInv, RoutinesShape, Same
  <2> QED BY <2>1, <1>4, <1>5, <1>8 DEF RoutinesInv, RoutinesShape, RoutinesPuts
<1>10. MarkedRuns'
  <2> SUFFICES ASSUME ~broken
               PROVE  /\ \A k, l \in Running("runRoutineNowSaga")' : tasks'[k].arg = tasks'[l].arg => k = l
                      /\ \A k \in Running("runRoutineNowSaga")' :
                           tasks'[k].arg \in ui'.runningKeys /\ (tasks'[k].pc = "back" => tasks'[k].ok = TRUE)
    BY <1>5 DEF MarkedRuns
  <2>1. /\ \A k, l \in Running("runRoutineNowSaga") : tasks[k].arg = tasks[l].arg => k = l
        /\ \A k \in Running("runRoutineNowSaga") :
             tasks[k].arg \in ui.runningKeys /\ (tasks[k].pc = "back" => tasks[k].ok = TRUE)
    BY DEF RoutinesInv, MarkedRuns
  <2>2. ASSUME NEW k \in Running("runRoutineNowSaga")'
        PROVE  /\ k \in DOMAIN h /\ h[k] \in Running("runRoutineNowSaga") /\ h[k] # i
               /\ tasks'[k].arg = tasks[h[k]].arg /\ Same(tasks'[k], tasks[h[k]])
    BY <1>7 DEF Running, Same
  <2>3. ASSUME NEW k \in Running("runRoutineNowSaga")', NEW l \in Running("runRoutineNowSaga")', tasks'[k].arg = tasks'[l].arg PROVE k = l
    BY <1>8, <2>1, <2>2, <2>3 DEF OneToOne
  <2>4. ASSUME NEW k \in Running("runRoutineNowSaga")'
        PROVE  tasks'[k].arg \in ui'.runningKeys /\ (tasks'[k].pc = "back" => tasks'[k].ok = TRUE)
    <3>1. tasks'[k].pc = "back" => tasks'[k].ok = TRUE
      BY <2>1, <2>2 DEF Same
    <3>2. CASE t.saga = "runRoutineNowSaga"
      <4>1. i \in Running("runRoutineNowSaga")
        BY <3>2, <1>2 DEF Running
      <4>2. t.ok = TRUE /\ tasks'[k].arg # t.arg
        BY <4>1, <1>2, <2>1, <2>2
      <4>3. ui'.runningKeys = ui.runningKeys \ {t.arg}
        BY <3>2, <4>2, <1>4, <1>5 DEF RoutinesPuts
      <4> QED BY <3>1, <4>2, <4>3, <2>1, <2>2
    <3>3. CASE t.saga # "runRoutineNowSaga"
      BY <3>1, <3>3, <1>4, <1>5, <2>1, <2>2 DEF RoutinesPuts
    <3> QED BY <3>2, <3>3
  <2> QED BY <2>3, <2>4
<1> QED BY <1>9, <1>10 DEF RoutinesInv

LEMMA RoutinesSteps == ASSUME RoutinesInv, RoutinesNext PROVE RoutinesInv'
<1>1. CASE Routines
  BY <1>1, RoutinesLoad, RoutinesToggle, RoutinesRun DEF Routines
<1> QED BY <1>1, RoutinesAnswered, RoutinesDropped, RoutinesResumed DEF RoutinesNext
LEMMA RoutinesStutters == ASSUME RoutinesInv, UNCHANGED sagaVars PROVE RoutinesInv'
BY DEF sagaVars, RoutinesInv, RoutinesShape, MarkedRuns, Running

(****************************************************************************)
(* The settings page: no field that was chosen gets its default back.       *)
(****************************************************************************)

SR == INSTANCE PutsProofs WITH Op <- LAMBDA x, s, a : settingsShown(s, a)
SW == INSTANCE PutsProofs WITH Op <- LAMBDA x, s, a : watchSettingsPage(s, a)

SettingsSagas ==
  {"loadSettingsSaga", "saveSettingsSaga", "checkLlmSaga", "loadLlmCapabilitiesSaga", "loadLlmModelsSaga",
   "loadWebSearchConfigSaga", "saveWebSearchConfigSaga"}
\* No field of K has its default.
Chosen(s, K) == \A k \in K : k \in DOMAIN s /\ s[k] # 0
ChosenTask(t, K, S) ==
  /\ t.saga \in S
  /\ t.saga = "saveSettingsSaga" => Chosen(t.arg, K)
  /\ t.saga \in {"loadSettingsSaga", "saveSettingsSaga"} /\ t.pc = "back" /\ t.ok = TRUE => Chosen(t.ans, K)
  /\ t.saga = "saveWebSearchConfigSaga" /\ t.pc = "half" => Chosen(t.ans, K)
ChosenTasks(ts, K, S) == AreTasks(ts) /\ \A i \in DOMAIN ts : ChosenTask(ts[i], K, S)
ChosenPut(a, K) == a.type \in {"SAVE_SETTINGS", "LOAD_SETTINGS_SUCCESS", "SAVE_SETTINGS_SUCCESS"} => Chosen(a.settings, K)

LEMMA ChosenAgain ==
  ASSUME NEW K, NEW s, Chosen(s, K), NEW k, NEW v, k \in K => v # 0 PROVE Chosen([s EXCEPT ![k] = v], K)
BY DEF Chosen
LEMMA ChosenInput == ASSUME NEW K, Ttl \notin K, NEW s, Chosen(s, K) PROVE Chosen(mapSettingsToInput(s), K)
BY DEF Chosen, mapSettingsToInput
LEMMA ChosenSame == ASSUME NEW K, NEW S, NEW t, NEW u, Same(t, u), ChosenTask(u, K, S) PROVE ChosenTask(t, K, S)
BY DEF Same, ChosenTask

LEMMA ChosenJoined ==
  ASSUME NEW K, NEW S, NEW ts, ChosenTasks(ts, K, S), NEW t, t.pc = "call", t.saga \in S, t.saga = "saveSettingsSaga" => Chosen(t.arg, K),
         NEW new, NEW h, Joined(new, ts, t, h)
  PROVE  ChosenTasks(new, K, S)
<1> SUFFICES ASSUME NEW k \in DOMAIN new PROVE ChosenTask(new[k], K, S)
  BY DEF Joined, ChosenTasks
<1>1. CASE k = Len(new)
  BY <1>1 DEF Joined, ChosenTask
<1>2. CASE k # Len(new)
  <2>1. k \in 1 .. Len(new) - 1
    BY <1>2 DEF Joined
  <2>2. h[k] \in DOMAIN ts /\ Same(new[k], ts[h[k]])
    BY <2>1 DEF Joined
  <2> QED BY <2>2, ChosenSame DEF ChosenTasks
<1> QED BY <1>1, <1>2

LEMMA ChosenQuery ==
  ASSUME NEW K, NEW S, NEW ts, ChosenTasks(ts, K, S), NEW saga \in S, NEW arg, saga # "saveSettingsSaga"
  PROVE  ChosenTasks(takeLatestQuery(ts, gqlRequest(saga, arg)), K, S)
<1> DEFINE t == gqlRequest(saga, arg)
           new == takeLatestQuery(ts, t)
<1>1. PICK h : TakenLatest(new, ts, t, {}, h)
  BY LatestQuery DEF ChosenTasks
<1>2. t.pc = "call" /\ t.saga = saga
  BY DEF gqlRequest
<1> HIDE DEF t, new
<1>3. Joined(new, ts, t, h)
  BY <1>1 DEF TakenLatest
<1>4. ChosenTasks(new, K, S)
  BY <1>2, <1>3, ChosenJoined
<1> QED BY <1>4 DEF new, t
LEMMA ChosenRequest ==
  ASSUME NEW K, NEW S, NEW ts, ChosenTasks(ts, K, S), NEW saga \in S, NEW arg, saga = "saveSettingsSaga" => Chosen(arg, K)
  PROVE  ChosenTasks(takeLatest(ts, gqlRequest(saga, arg)), K, S)
<1> DEFINE t == gqlRequest(saga, arg)
           new == takeLatest(ts, t)
<1>1. PICK h : TakenLatest(new, ts, t, {"call", "half"}, h)
  BY LatestRequest DEF ChosenTasks
<1>2. t.pc = "call" /\ t.saga = saga /\ t.arg = arg
  BY DEF gqlRequest
<1> HIDE DEF t, new
<1>3. Joined(new, ts, t, h)
  BY <1>1 DEF TakenLatest
<1>4. ChosenTasks(new, K, S)
  BY <1>2, <1>3, ChosenJoined
<1> QED BY <1>4 DEF new, t

LEMMA ChosenSagas ==
  ASSUME NEW K, NEW S, SettingsSagas \subseteq S, NEW ts, ChosenTasks(ts, K, S), NEW a, ChosenPut(a, K) PROVE ChosenTasks(watchSettingsSagas(ts, a), K, S)
<1>1. CASE a.type = "SAVE_SETTINGS"
  <2>1. watchSettingsSagas(ts, a) = takeLatest(ts, gqlRequest("saveSettingsSaga", a.settings))
    BY <1>1 DEF watchSettingsSagas
  <2> QED BY <1>1, <2>1, ChosenRequest DEF ChosenPut, SettingsSagas
<1>2. CASE a.type = "LOAD_SETTINGS"
  BY <1>2, ChosenQuery DEF watchSettingsSagas, SettingsSagas
<1>3. CASE a.type = "CHECK_LLM"
  BY <1>3, ChosenQuery DEF watchSettingsSagas, SettingsSagas
<1>4. CASE a.type = "LOAD_LLM_CAPABILITIES"
  BY <1>4, ChosenQuery DEF watchSettingsSagas, SettingsSagas
<1>5. CASE a.type = "LOAD_LLM_MODELS_REQUESTED"
  BY <1>5, ChosenQuery DEF watchSettingsSagas, SettingsSagas
<1> QED BY <1>1, <1>2, <1>3, <1>4, <1>5 DEF watchSettingsSagas
LEMMA ChosenPage ==
  ASSUME NEW K, NEW S, SettingsSagas \subseteq S, NEW ts, ChosenTasks(ts, K, S), NEW a, ChosenPut(a, K) PROVE ChosenTasks(watchSettingsPage(ts, a), K, S)
<1> DEFINE us == watchSettingsSagas(ts, a)
<1>1. ChosenTasks(us, K, S)
  BY ChosenSagas
<1> HIDE DEF us
<1>2. ChosenTasks(webSearchSaga(us, a), K, S)
  <2>1. CASE a.type = "LOAD_WEB_SEARCH_CONFIG"
    BY <1>1, <2>1, ChosenQuery DEF webSearchSaga, SettingsSagas
  <2>2. CASE a.type = "SAVE_WEB_SEARCH_CONFIG"
    BY <1>1, <2>2, ChosenRequest DEF webSearchSaga, SettingsSagas
  <2> QED BY <1>1, <2>1, <2>2 DEF webSearchSaga
<1> QED BY <1>2 DEF watchSettingsPage, us

LEMMA ChosenDelivered ==
  ASSUME NEW K, NEW S, ChosenTasks(tasks, K, S), NEW i \in DOMAIN tasks, NEW ok \in BOOLEAN, NEW ans, NEW h, HandedOver(tasks', tasks, i, ok, ans, h),
         ok /\ tasks[i].saga \in {"loadSettingsSaga", "saveSettingsSaga"} => Chosen(ans, K)
  PROVE  ChosenTasks(tasks', K, S)
<1> SUFFICES ASSUME NEW k \in DOMAIN tasks' PROVE ChosenTask(tasks'[k], K, S)
  BY DEF HandedOver, ChosenTasks
<1>1. h[k] \in DOMAIN tasks
  BY DEF HandedOver, Indices
<1>2. CASE h[k] # i
  BY <1>1, <1>2, ChosenSame DEF HandedOver, ChosenTasks
<1>3. CASE h[k] = i
  <2>1. Back(tasks'[k], tasks[i], ok, ans) /\ ChosenTask(tasks[i], K, S)
    BY <1>3 DEF HandedOver, ChosenTasks
  <2> QED BY <2>1 DEF Back, ChosenTask
<1> QED BY <1>2, <1>3
LEMMA ChosenAnswer ==
  ASSUME NEW K, NEW S, ChosenTasks(tasks, K, S), NEW i \in DOMAIN tasks, NEW sv, NEW ans, NEW told \in BOOLEAN, AnswerTelling(i, sv, ans, told),
         tasks[i].saga \in {"loadSettingsSaga", "saveSettingsSaga"} => Chosen(ans, K)
  PROVE  ChosenTasks(tasks', K, S)
<1>1. PICK ok, h : ok \in BOOLEAN /\ HandedOver(tasks', tasks, i, ok, ans, h)
  BY AnswerTasks DEF ChosenTasks
<1> QED BY <1>1, ChosenDelivered
LEMMA ChosenDropped == ASSUME NEW K, NEW S, ChosenTasks(tasks, K, S), Dropped PROVE ChosenTasks(tasks', K, S) /\ UNCHANGED <<ui, srv>>
<1>1. PICK i \in InState("call") : Unreached(i)
  BY DEF Dropped
<1>2. Deliver(tasks, i, FALSE, Nothing) /\ UNCHANGED <<ui, srv>> /\ i \in DOMAIN tasks /\ AreTasks(tasks)
  BY <1>1 DEF Unreached, InState, ChosenTasks
<1>3. PICK h : HandedOver(tasks', tasks, i, FALSE, Nothing, h)
  BY <1>2, DeliverTasks
<1> QED BY <1>2, <1>3, ChosenDelivered
LEMMA ChosenOutside == ASSUME NEW K, NEW S, ChosenTasks(tasks, K, S), NEW sv, Outside(sv) PROVE ChosenTasks(tasks', K, S)
<1>1. tasks' = Overtaken(tasks) /\ AreTasks(tasks)
  BY DEF Outside, ChosenTasks
<1>2. AreTasks(tasks') /\ DOMAIN tasks' = DOMAIN tasks /\ \A k \in DOMAIN tasks : Same(tasks'[k], tasks[k])
  BY <1>1, OvertakenTasks
<1> QED BY <1>2, ChosenSame DEF ChosenTasks
LEMMA ChosenRest == ASSUME NEW K, NEW S, ChosenTasks(tasks, K, S), NEW i \in DOMAIN tasks PROVE ChosenTasks(Rest(i), K, S)
<1> DEFINE others == Rest(i)
<1>1. PICK h : Without(others, tasks, i, h)
  BY RestTasks DEF ChosenTasks
<1> HIDE DEF others
<1>2. ASSUME NEW k \in DOMAIN others PROVE ChosenTask(others[k], K, S)
  BY <1>1, ChosenSame DEF Without, Indices, ChosenTasks
<1>3. ChosenTasks(others, K, S)
  BY <1>1, <1>2 DEF Without, ChosenTasks
<1> QED BY <1>3 DEF others

\* The fields that no save has sent from before the first load.
Kept(s) == IF s.early THEN {} ELSE Fields \ {Ttl}
SettingsUi(s, K) ==
  /\ {"settings", "draft", "timers", "focused", "early"} \subseteq DOMAIN s
  /\ s.settings # {} => Chosen(s.draft, K)
  /\ \A k \in DOMAIN s.timers : s.timers[k] # 0
SettingsOf(K) ==
  /\ ChosenTasks(tasks, K, SettingsSagas)
  /\ SettingsUi(ui, K)
  /\ "stored" \in DOMAIN srv /\ Chosen(srv.stored, K)
SettingsInv == SettingsOf(Kept(ui))
\* A step keeps K, and whether the page was saved too early.
SettingsKeep(K) == SettingsOf(K)' /\ ui'.early = ui.early

LEMMA SettingsReduce ==
  ASSUME NEW K, NEW s, SettingsUi(s, K), NEW a,
         a.type \in {"LOAD_SETTINGS_SUCCESS", "SAVE_SETTINGS_SUCCESS"} => Chosen(a.settings, K)
  PROVE  SettingsUi(settingsShown(s, a), K) /\ settingsShown(s, a).early = s.early
<1> DEFINE r == webSearchReducer(settingsReducer(s, a), a)
<1>1. CASE a.type \in {"LOAD_SETTINGS_SUCCESS", "SAVE_SETTINGS_SUCCESS"}
  <2>1. DOMAIN r = DOMAIN s /\ r.timers = s.timers /\ r.settings = {a.settings} /\ r.early = s.early
    BY <1>1 DEF settingsReducer, webSearchReducer, SettingsUi
  <2>2. settingsShown(s, a) = withDraft(r, a.settings)
    BY <1>1 DEF settingsShown
  <2> HIDE DEF r
  <2> QED BY <1>1, <2>1, <2>2 DEF withDraft, SettingsUi
<1>2. CASE a.type \notin {"LOAD_SETTINGS_SUCCESS", "SAVE_SETTINGS_SUCCESS"}
  <2> DEFINE q == settingsReducer(s, a)
  <2>1. DOMAIN q = DOMAIN s /\ q.timers = s.timers /\ q.settings = s.settings /\ q.draft = s.draft /\ q.early = s.early
    BY <1>2 DEF settingsReducer, SettingsUi
  <2> HIDE DEF q
  <2>2. /\ DOMAIN webSearchReducer(q, a) = DOMAIN s /\ webSearchReducer(q, a).timers = s.timers
        /\ webSearchReducer(q, a).settings = s.settings /\ webSearchReducer(q, a).draft = s.draft
        /\ webSearchReducer(q, a).early = s.early
    BY <1>2, <2>1 DEF webSearchReducer, SettingsUi
  <2>3. settingsShown(s, a) = webSearchReducer(q, a)
    BY <1>2 DEF settingsShown, q
  <2> QED BY <2>2, <2>3 DEF SettingsUi
<1> QED BY <1>1, <1>2

LEMMA SettingsPutOne ==
  ASSUME NEW K, NEW s, SettingsUi(s, K), NEW ts, ChosenTasks(ts, K, SettingsSagas), NEW a, ChosenPut(a, K)
  PROVE  /\ SettingsUi(Reduced(settingsShown, s, <<a>>), K) /\ Reduced(settingsShown, s, <<a>>).early = s.early
         /\ ChosenTasks(Watched(watchSettingsPage, ts, <<a>>), K, SettingsSagas)
<1>1. SR!Fold(0, s, <<a>>) = Reduced(settingsShown, s, <<a>>)
  BY DEF SR!Fold, Reduced, SR!Folds, SR!Step, SR!Greatest, FoldLeft, MapThenFoldSet, Max
<1>2. SW!Fold(0, ts, <<a>>) = Watched(watchSettingsPage, ts, <<a>>)
  BY DEF SW!Fold, Watched, SW!Folds, SW!Step, SW!Greatest, FoldLeft, MapThenFoldSet, Max
<1>3. Reduced(settingsShown, s, <<a>>) = settingsShown(s, a)
  BY <1>1, SR!FoldOne
<1>4. Watched(watchSettingsPage, ts, <<a>>) = watchSettingsPage(ts, a)
  BY <1>2, SW!FoldOne
<1> QED BY <1>3, <1>4, SettingsReduce, ChosenPage DEF ChosenPut
LEMMA SettingsPutTwo ==
  ASSUME NEW K, NEW s, SettingsUi(s, K), NEW ts, ChosenTasks(ts, K, SettingsSagas), NEW a, ChosenPut(a, K), NEW b, ChosenPut(b, K)
  PROVE  /\ SettingsUi(Reduced(settingsShown, s, <<a, b>>), K) /\ Reduced(settingsShown, s, <<a, b>>).early = s.early
         /\ ChosenTasks(Watched(watchSettingsPage, ts, <<a, b>>), K, SettingsSagas)
<1>1. SR!Fold(0, s, <<a, b>>) = Reduced(settingsShown, s, <<a, b>>)
  BY DEF SR!Fold, Reduced, SR!Folds, SR!Step, SR!Greatest, FoldLeft, MapThenFoldSet, Max
<1>2. SW!Fold(0, ts, <<a, b>>) = Watched(watchSettingsPage, ts, <<a, b>>)
  BY DEF SW!Fold, Watched, SW!Folds, SW!Step, SW!Greatest, FoldLeft, MapThenFoldSet, Max
<1>3. Reduced(settingsShown, s, <<a, b>>) = settingsShown(settingsShown(s, a), b)
  <2>1. SR!Fold(0, s, <<a, b>>) = settingsShown(settingsShown(s, a), b)
    BY SR!FoldTwo
  <2> QED BY <1>1, <2>1
<1>4. Watched(watchSettingsPage, ts, <<a, b>>) = watchSettingsPage(watchSettingsPage(ts, a), b)
  <2>1. SW!Fold(0, ts, <<a, b>>) = watchSettingsPage(watchSettingsPage(ts, a), b)
    BY SW!FoldTwo
  <2> QED BY <1>2, <2>1
<1>5. /\ SettingsUi(settingsShown(s, a), K) /\ settingsShown(s, a).early = s.early
      /\ ChosenTasks(watchSettingsPage(ts, a), K, SettingsSagas)
  BY SettingsReduce, ChosenPage DEF ChosenPut
<1> QED BY <1>3, <1>4, <1>5, SettingsReduce, ChosenPage DEF ChosenPut

LEMMA SettingsInitOK == ASSUME NEW budget, SettingsInit(budget) PROVE SettingsInv
<1> DEFINE s == initialSettingsState
           a == [type |-> "LOAD_SETTINGS"]
           K == Fields \ {Ttl}
<1>1. ui = Reduced(settingsShown, s, <<a>>) /\ tasks = Watched(watchSettingsPage, << >>, <<a>>) /\ srv = [stored |-> OldSettings]
  BY DEF SettingsInit, SagaBoot, SagaStart, SettingsMounted
<1>2. AreTasks(<< >>) /\ DOMAIN << >> = {}
  BY NoTasks
<1>3. ChosenTasks(<< >>, K, SettingsSagas)
  BY <1>2 DEF ChosenTasks
<1>4. SettingsUi(s, K) /\ s.early = FALSE
  BY DEF initialSettingsState, SettingsUi
<1>5. "stored" \in DOMAIN srv /\ Chosen(srv.stored, K)
  BY <1>1 DEF OldSettings, Chosen
<1>6. ChosenPut(a, K)
  BY DEF ChosenPut
<1> HIDE DEF s, a, K
<1>7. SettingsUi(ui, K) /\ ui.early = FALSE /\ ChosenTasks(tasks, K, SettingsSagas)
  BY <1>1, <1>3, <1>4, <1>6, SettingsPutOne
<1>8. Kept(ui) = K
  BY <1>7 DEF Kept, K
<1> QED BY <1>5, <1>7, <1>8 DEF SettingsInv, SettingsOf

\* What the page dispatches itself.
LEMMA SettingsDispatch ==
  ASSUME NEW K, SettingsOf(K), NEW a, ChosenPut(a, K), SettingsDo(a) PROVE SettingsKeep(K)
<1>1. ui' = Reduced(settingsShown, ui, <<a>>) /\ tasks' = Watched(watchSettingsPage, tasks, <<a>>) /\ srv' = srv
  BY DEF SettingsDo, Dispatch, DispatchAll
<1> QED BY <1>1, SettingsPutOne DEF SettingsOf, SettingsKeep

LEMMA SettingsEntered ==
  ASSUME NEW K, SettingsUi(ui, K), NEW k, NEW v, v # 0
  PROVE  /\ SettingsUi(Entered(k, v), K) /\ Entered(k, v).settings = ui.settings
         /\ Entered(k, v).timers = ui.timers /\ Entered(k, v).early = ui.early
<1> DEFINE d == [ui.draft EXCEPT ![k] = v]
<1>1. ui.settings # {} => Chosen(d, K)
  BY ChosenAgain DEF SettingsUi
<1> HIDE DEF d
<1>2. Entered(k, v) = [withDraft(ui, d) EXCEPT !.typed = (k :> v) @@ @]
  BY DEF Entered, d
<1>3. withDraft(ui, d).draft = d /\ withDraft(ui, d).settings = ui.settings /\ withDraft(ui, d).timers = ui.timers
      /\ withDraft(ui, d).early = ui.early /\ DOMAIN withDraft(ui, d) = DOMAIN ui
  BY DEF withDraft, SettingsUi
<1>4. Entered(k, v).draft = d /\ Entered(k, v).settings = ui.settings /\ Entered(k, v).timers = ui.timers
      /\ Entered(k, v).early = ui.early /\ DOMAIN Entered(k, v) = DOMAIN ui
  BY <1>2, <1>3 DEF SettingsUi
<1> QED BY <1>1, <1>4 DEF SettingsUi
LEMMA SettingsUnfocused ==
  ASSUME NEW K, NEW s, SettingsUi(s, K), NEW k
  PROVE  /\ SettingsUi(Unfocused(s, k), K) /\ Unfocused(s, k).settings = s.settings
         /\ Unfocused(s, k).draft = s.draft /\ Unfocused(s, k).early = s.early
BY DEF SettingsUi, Unfocused

LEMMA SettingsTyped ==
  ASSUME NEW K, SettingsOf(K), NEW k, NEW v, v # 0, scheduleAutosave(k, v) \/ changeOnly(k, v) PROVE SettingsKeep(K)
<1>1. UNCHANGED <<tasks, srv>>
  BY DEF scheduleAutosave, changeOnly
<1> DEFINE s == Entered(k, v)
<1>2. SettingsUi(s, K) /\ s.early = ui.early
  BY <1>1, SettingsEntered DEF SettingsOf
<1>3. ui' = [s EXCEPT !.timers = [m \in DOMAIN @ \cup {k} |-> IF m = k THEN v ELSE @[m]]] \/ ui' = [s EXCEPT !.focused = {k}]
  BY DEF scheduleAutosave, changeOnly
<1> HIDE DEF s
<1>4. CASE ui' = [s EXCEPT !.timers = [m \in DOMAIN @ \cup {k} |-> IF m = k THEN v ELSE @[m]]]
  <2>1. ui'.timers = [m \in DOMAIN s.timers \cup {k} |-> IF m = k THEN v ELSE s.timers[m]]
    BY <1>2, <1>4 DEF SettingsUi
  <2>2. \A m \in DOMAIN ui'.timers : ui'.timers[m] # 0
    BY <1>2, <2>1 DEF SettingsUi
  <2>3. SettingsUi(ui', K) /\ ui'.early = s.early
    BY <1>2, <1>4, <2>2 DEF SettingsUi
  <2> QED BY <1>1, <1>2, <2>3 DEF SettingsOf, SettingsKeep
<1>5. CASE ui' = [s EXCEPT !.focused = {k}]
  <2>1. SettingsUi(ui', K) /\ ui'.early = s.early
    BY <1>2, <1>5 DEF SettingsUi
  <2> QED BY <1>1, <1>2, <2>1 DEF SettingsOf, SettingsKeep
<1> QED BY <1>3, <1>4, <1>5

\* A save of a page that has loaded the settings keeps K; one of a page that has not keeps nothing.
LEMMA SettingsSaved ==
  ASSUME NEW K, SettingsOf(K), NEW s, SettingsUi(s, K), s.settings # {} \/ K = {}, NEW k, NEW v, k \in K => v # 0, saveField(s, k, v)
  PROVE  SettingsOf(K)' /\ ui'.early = (s.early \/ s.settings = {})
<1> DEFINE d == [s.draft EXCEPT ![k] = v]
           a == [type |-> "SAVE_SETTINGS", settings |-> d]
           b == [type |-> "SAVE_SETTINGS"]
           u == withDraft(s, d)
           shown == settingsShown(u, b)
<1>1. Chosen(d, K)
  BY ChosenAgain DEF SettingsUi, Chosen
<1>2. ui' = [shown EXCEPT !.early = @ \/ s.settings = {}] /\ tasks' = watchSettingsPage(tasks, a) /\ srv' = srv
  BY DEF saveField
<1>3. ChosenPut(a, K)
  BY <1>1 DEF ChosenPut
<1> HIDE DEF d
<1>5. SettingsUi(u, K) /\ u.early = s.early
  <2>1. u.draft = d /\ u.settings = s.settings /\ u.timers = s.timers /\ u.early = s.early /\ DOMAIN u = DOMAIN s
    BY DEF withDraft, SettingsUi
  <2> QED BY <1>1, <2>1 DEF SettingsUi
<1>6. SettingsUi(shown, K) /\ shown.early = s.early
  BY <1>5, SettingsReduce
<1> HIDE DEF u, a, shown
<1>7. SettingsUi(ui', K) /\ ui'.early = (s.early \/ s.settings = {})
  BY <1>2, <1>6 DEF SettingsUi
<1>8. ChosenTasks(tasks', K, SettingsSagas)
  BY <1>2, <1>3, ChosenPage DEF SettingsOf
<1> QED BY <1>2, <1>7, <1>8 DEF SettingsOf
LEMMA NothingKept == ASSUME NEW K, SettingsOf(K) PROVE SettingsOf({})
BY DEF SettingsOf, ChosenTasks, ChosenTask, SettingsUi, Chosen
LEMMA SettingsSavedAny ==
  ASSUME SettingsInv, NEW s, SettingsUi(s, Kept(ui)), s.early = ui.early, NEW k, NEW v, k \in Kept(ui) /\ s.settings # {} => v # 0,
         saveField(s, k, v)
  PROVE  SettingsInv'
<1>1. PICK K : K = Kept(ui)
  OBVIOUS
<1>2. SettingsOf(K) /\ SettingsUi(s, K)
  BY <1>1 DEF SettingsInv
<1>3. CASE s.settings # {}
  <2>1. SettingsOf(K)' /\ ui'.early = (s.early \/ s.settings = {})
    BY <1>1, <1>2, <1>3, SettingsSaved
  <2>2. Kept(ui') = K
    BY <1>1, <1>3, <2>1 DEF Kept
  <2> QED BY <2>1, <2>2 DEF SettingsInv
<1>4. CASE s.settings = {}
  <2>1. SettingsOf({}) /\ SettingsUi(s, {})
    BY <1>2, NothingKept DEF SettingsUi, Chosen
  <2>2. SettingsOf({})' /\ ui'.early = (s.early \/ s.settings = {})
    BY <2>1, SettingsSaved
  <2>3. Kept(ui') = {}
    BY <1>4, <2>2 DEF Kept
  <2> QED BY <2>2, <2>3 DEF SettingsInv
<1> QED BY <1>3, <1>4

LEMMA SettingsChanged == ASSUME SettingsInv, NEW k, NEW v, v # 0, changeAndSave(k, v) PROVE SettingsInv'
<1>1. saveField(Unfocused(Entered(k, v), k), k, v)
  BY DEF changeAndSave
<1> DEFINE e == Entered(k, v)
<1>2. SettingsUi(e, Kept(ui)) /\ e.early = ui.early
  BY SettingsEntered DEF SettingsInv, SettingsOf
<1> HIDE DEF e
<1>3. SettingsUi(Unfocused(e, k), Kept(ui)) /\ Unfocused(e, k).early = ui.early
  BY <1>2, SettingsUnfocused
<1> QED BY <1>1, <1>3, SettingsSavedAny DEF e

LEMMA SettingsLeft == ASSUME SettingsInv, handleBlurSave \/ autosaveTimer PROVE SettingsInv'
<1>1. PICK k, v : saveField(Unfocused(ui, k), k, v) /\ (k \in Kept(ui) /\ ui.settings # {} => v # 0)
  <2>1. CASE autosaveTimer
    <3>1. PICK k \in DOMAIN ui.timers : saveField(Unfocused(ui, k), k, ui.timers[k])
      BY <2>1 DEF autosaveTimer
    <3> QED BY <3>1 DEF SettingsInv, SettingsOf, SettingsUi
  <2>2. CASE handleBlurSave
    <3>1. PICK k : saveField(Unfocused(ui, k), k, ui.draft[k])
      BY <2>2 DEF handleBlurSave
    <3> QED BY <3>1 DEF SettingsInv, SettingsOf, SettingsUi, Chosen
  <2> QED BY <2>1, <2>2
<1>2. /\ SettingsUi(Unfocused(ui, k), Kept(ui)) /\ Unfocused(ui, k).settings = ui.settings
      /\ Unfocused(ui, k).early = ui.early
  BY <1>1, SettingsUnfocused DEF SettingsInv, SettingsOf
<1> QED BY <1>1, <1>2, SettingsSavedAny

LEMMA SettingsCategory == ASSUME NEW K, SettingsOf(K), NEW c, setActiveCategory(c) PROVE SettingsKeep(K)
<1> DEFINE s == [ui EXCEPT !.category = c, !.endpointTimer = (c = "llm")]
           a == [type |-> "LOAD_LLM_CAPABILITIES"]
           b == [type |-> "LOAD_LLM_MODELS_REQUESTED"]
<1>1. SettingsUi(s, K) /\ s.early = ui.early
  BY DEF SettingsOf, SettingsUi
<1>2. ChosenPut(a, K) /\ ChosenPut(b, K)
  BY DEF ChosenPut
<1>3. srv' = srv
  BY DEF setActiveCategory
<1>4. CASE c = "llm"
  <2>1. ui' = Reduced(settingsShown, s, <<a, b>>) /\ tasks' = Watched(watchSettingsPage, tasks, <<a, b>>)
    BY <1>4 DEF setActiveCategory
  <2> HIDE DEF a, b, s
  <2> QED BY <1>1, <1>2, <1>3, <2>1, SettingsPutTwo DEF SettingsOf, SettingsKeep
<1>5. CASE c # "llm"
  <2>1. ui' = Reduced(settingsShown, s, << >>) /\ tasks' = Watched(watchSettingsPage, tasks, << >>)
    BY <1>5 DEF setActiveCategory
  <2> HIDE DEF s
  <2>2. SR!Fold(0, s, << >>) = Reduced(settingsShown, s, << >>)
    BY DEF SR!Fold, Reduced, SR!Folds, SR!Step, SR!Greatest, FoldLeft, MapThenFoldSet, Max
  <2>3. SW!Fold(0, tasks, << >>) = Watched(watchSettingsPage, tasks, << >>)
    BY DEF SW!Fold, Watched, SW!Folds, SW!Step, SW!Greatest, FoldLeft, MapThenFoldSet, Max
  <2>4. ui' = s /\ tasks' = tasks
    BY <2>1, <2>2, <2>3, SR!FoldNone, SW!FoldNone
  <2> QED BY <1>1, <1>3, <2>4 DEF SettingsOf, SettingsKeep
<1> QED BY <1>4, <1>5

LEMMA SettingsEndpoint == ASSUME NEW K, SettingsOf(K), endpointTimer PROVE SettingsKeep(K)
<1> DEFINE s == [ui EXCEPT !.endpointTimer = FALSE]
           a == [type |-> "LOAD_LLM_MODELS_REQUESTED"]
<1>1. SettingsUi(s, K) /\ s.early = ui.early /\ ChosenPut(a, K)
  BY DEF SettingsOf, SettingsUi, ChosenPut
<1>2. ui' = settingsShown(s, a) /\ tasks' = watchSettingsPage(tasks, a) /\ srv' = srv
  BY DEF endpointTimer
<1> HIDE DEF s, a
<1> QED BY <1>1, <1>2, SettingsReduce, ChosenPage DEF SettingsOf, SettingsKeep, ChosenPut

LEMMA SettingsAnswer ==
  ASSUME NEW K, SettingsOf(K), NEW i \in DOMAIN tasks, NEW sv, NEW ans, NEW told \in BOOLEAN, AnswerTelling(i, sv, ans, told),
         tasks[i].saga \in {"loadSettingsSaga", "saveSettingsSaga"} => Chosen(ans, K),
         "stored" \in DOMAIN sv, Chosen(sv.stored, K)
  PROVE  SettingsKeep(K)
<1>1. ChosenTasks(tasks', K, SettingsSagas)
  BY ChosenAnswer DEF SettingsOf
<1>2. ui' = ui /\ srv' = sv
  BY DEF AnswerTelling
<1> QED BY <1>1, <1>2 DEF SettingsOf, SettingsKeep

LEMMA SettingsAnswered == ASSUME NEW K, SettingsOf(K), Ttl \notin K, SettingsAnswers PROVE SettingsKeep(K)
<1>1. PICK i \in InFlight : \/ LoadSettings(i) \/ UpdateSettings(i) \/ LlmHealth(i) \/ LlmModels(i)
                            \/ WebSearchConfig(i) \/ UpdateWebSearchConfig(i)
  BY DEF SettingsAnswers
<1>2. i \in DOMAIN tasks /\ tasks[i].live \in BOOLEAN /\ "stored" \in DOMAIN srv /\ Chosen(srv.stored, K)
  BY DEF InFlight, InState, SettingsOf, ChosenTasks, AreTasks, IsTask
<1>3. CASE UpdateSettings(i)
  <2> DEFINE saved == mapSettingsToInput(tasks[i].arg)
             sv == [srv EXCEPT !.stored = saved]
  <2>1. Chosen(saved, K)
    BY <1>2, <1>3, ChosenInput DEF UpdateSettings, SettingsOf, ChosenTasks, ChosenTask
  <2>2. AnswerTelling(i, sv, saved, tasks[i].live)
    BY <1>3 DEF UpdateSettings
  <2> HIDE DEF saved
  <2>3. "stored" \in DOMAIN sv /\ sv.stored = saved
    BY <1>2
  <2> HIDE DEF sv
  <2> QED BY <1>2, <2>1, <2>2, <2>3, SettingsAnswer
<1>4. CASE UpdateWebSearchConfig(i)
  <2>1. tasks[i].saga = "saveWebSearchConfigSaga"
    BY <1>4 DEF UpdateWebSearchConfig
  <2>2. CASE Halfway(i, srv, srv.stored)
    <3>1. /\ AreTasks(tasks') /\ DOMAIN tasks' = DOMAIN tasks
          /\ \A k \in DOMAIN tasks : k # i => tasks'[k] = tasks[k]
          /\ tasks'[i].pc = "half" /\ tasks'[i].ans = srv.stored /\ tasks'[i].saga = tasks[i].saga
      BY <1>2, <2>2, HalfwayTasks DEF SettingsOf, ChosenTasks
    <3>2. ChosenTask(tasks'[i], K, SettingsSagas)
      BY <1>2, <2>1, <3>1 DEF ChosenTask, SettingsSagas
    <3>3. ChosenTasks(tasks', K, SettingsSagas)
      BY <3>1, <3>2 DEF SettingsOf, ChosenTasks
    <3>4. UNCHANGED <<ui, srv>>
      BY <2>2 DEF Halfway
    <3> QED BY <3>3, <3>4 DEF SettingsOf, SettingsKeep
  <2>3. CASE tasks[i].pc = "half" /\ ~Halfway(i, srv, srv.stored)
    <3> DEFINE saved == [tasks[i].ans EXCEPT ![Ttl] = tasks[i].arg]
               sv == [srv EXCEPT !.stored = saved]
    <3>1. PICK told \in BOOLEAN : AnswerTelling(i, sv, tasks[i].arg, told)
      BY <1>2, <1>4, <2>3 DEF UpdateWebSearchConfig
    <3>2. Chosen(tasks[i].ans, K)
      BY <1>2, <2>1, <2>3 DEF SettingsOf, ChosenTasks, ChosenTask
    <3>3. Chosen(saved, K)
      BY <3>2, ChosenAgain
    <3> HIDE DEF saved
    <3>4. "stored" \in DOMAIN sv /\ sv.stored = saved
      BY <1>2
    <3> HIDE DEF sv
    <3> QED BY <1>2, <2>1, <3>1, <3>3, <3>4, SettingsAnswer
  <2> QED BY <1>4, <2>2, <2>3 DEF UpdateWebSearchConfig
<1>5. CASE LoadSettings(i)
  BY <1>2, <1>5, SettingsAnswer DEF LoadSettings, Answer
<1>6. CASE LlmHealth(i) \/ LlmModels(i) \/ WebSearchConfig(i)
  <2>1. PICK ans : AnswerTelling(i, srv, ans, TRUE) /\ tasks[i].saga \notin {"loadSettingsSaga", "saveSettingsSaga"}
    BY <1>6 DEF LlmHealth, LlmModels, WebSearchConfig, Answer
  <2> QED BY <1>2, <2>1, SettingsAnswer
<1> QED BY <1>1, <1>3, <1>4, <1>5, <1>6

LEMMA SettingsOutside == ASSUME NEW K, SettingsOf(K), SettingsChangeOutside PROVE SettingsKeep(K)
<1>1. PICK k \in Fields : Outside([srv EXCEPT !.stored[k] = 2])
  BY DEF SettingsChangeOutside
<1> DEFINE sv == [srv EXCEPT !.stored[k] = 2]
<1>2. "stored" \in DOMAIN sv /\ sv.stored = [srv.stored EXCEPT ![k] = 2]
  BY DEF SettingsOf
<1>3. ui' = ui /\ srv' = sv
  BY <1>1 DEF Outside
<1>4. ChosenTasks(tasks', K, SettingsSagas)
  BY <1>1, ChosenOutside DEF SettingsOf
<1> HIDE DEF sv
<1>5. Chosen(sv.stored, K)
  BY <1>2, ChosenAgain DEF SettingsOf
<1> QED BY <1>2, <1>3, <1>4, <1>5 DEF SettingsOf, SettingsKeep

\* What a saga that resumes puts: one action or two, with what was loaded or saved.
SettingsPuts(t, a, b, K) ==
  (settingsPuts(t) = <<a>> \/ settingsPuts(t) = <<a, b>>) /\ ChosenPut(a, K) /\ ChosenPut(b, K)
LEMMA SettingsPut ==
  ASSUME NEW K, NEW S, NEW t, t.saga \in SettingsSagas, t.ok \in BOOLEAN, t.pc = "back", ChosenTask(t, K, S) PROVE \E a, b : SettingsPuts(t, a, b, K)
<1> DEFINE n == notifyError
<1>0. ChosenPut(n, K)
  BY DEF notifyError, Notify, ChosenPut
<1> HIDE DEF n
<1>1. CASE t.saga = "loadSettingsSaga" /\ t.ok
  <2> DEFINE a == [type |-> "LOAD_SETTINGS_SUCCESS", settings |-> t.ans]
  <2>1. settingsPuts(t) = <<a>>
    BY <1>1 DEF settingsPuts, loadSettingsSaga
  <2>2. ChosenPut(a, K)
    BY <1>1 DEF ChosenPut, ChosenTask
  <2> QED BY <2>1, <2>2 DEF SettingsPuts
<1>2. CASE t.saga = "loadSettingsSaga" /\ ~t.ok
  <2> DEFINE b == [type |-> "LOAD_SETTINGS_FAILURE"]
  <2>1. settingsPuts(t) = <<n, b>>
    BY <1>2 DEF settingsPuts, loadSettingsSaga, n
  <2>2. ChosenPut(b, K)
    BY DEF ChosenPut
  <2> QED BY <1>0, <2>1, <2>2 DEF SettingsPuts
<1>3. CASE t.saga = "saveSettingsSaga" /\ t.ok
  <2> DEFINE a == [type |-> "SAVE_SETTINGS_SUCCESS", settings |-> t.ans]
             b == notifySuccess("settings.savedToast")
  <2>1. settingsPuts(t) = <<a, b>>
    BY <1>3 DEF settingsPuts, saveSettingsSaga
  <2>2. ChosenPut(a, K) /\ ChosenPut(b, K)
    BY <1>3 DEF ChosenPut, ChosenTask, notifySuccess, Notify
  <2> QED BY <2>1, <2>2 DEF SettingsPuts
<1>4. CASE t.saga = "saveSettingsSaga" /\ ~t.ok
  <2> DEFINE b == [type |-> "SAVE_SETTINGS_FAILURE"]
  <2>1. settingsPuts(t) = <<n, b>>
    BY <1>4 DEF settingsPuts, saveSettingsSaga, n
  <2>2. ChosenPut(b, K)
    BY DEF ChosenPut
  <2> QED BY <1>0, <2>1, <2>2 DEF SettingsPuts
<1>5. CASE t.saga = "checkLlmSaga"
  <2> DEFINE a == IF t.ok /\ t.ans THEN notifySuccess("settings.llmCheckSuccessToast")
                                   ELSE notifyWarning("settings.llmCheckFailureToast")
             b == [type |-> "CHECK_LLM_DONE"]
  <2>1. settingsPuts(t) = <<a, b>>
    BY <1>5 DEF settingsPuts, checkLlmSaga
  <2>2. ChosenPut(a, K) /\ ChosenPut(b, K)
    BY DEF ChosenPut, notifySuccess, notifyWarning, Notify
  <2> HIDE DEF a
  <2> QED BY <2>1, <2>2 DEF SettingsPuts
<1>6. CASE t.saga = "loadLlmCapabilitiesSaga"
  <2> DEFINE a == [type |-> "LOAD_LLM_CAPABILITIES_SUCCESS", caps |-> t.ok /\ t.ans]
  <2>1. settingsPuts(t) = <<a>>
    BY <1>6 DEF settingsPuts, loadLlmCapabilitiesSaga
  <2>2. ChosenPut(a, K)
    BY DEF ChosenPut
  <2> HIDE DEF a
  <2> QED BY <2>1, <2>2 DEF SettingsPuts
<1>7. CASE t.saga = "loadLlmModelsSaga"
  <2> DEFINE a == IF t.ok THEN [type |-> "LOAD_LLM_MODELS_SUCCEEDED", of |-> t.ans] ELSE [type |-> "LOAD_LLM_MODELS_FAILED"]
  <2>1. settingsPuts(t) = <<a>>
    BY <1>7 DEF settingsPuts, loadLlmModelsSaga
  <2>2. ChosenPut(a, K)
    BY DEF ChosenPut
  <2> HIDE DEF a
  <2> QED BY <2>1, <2>2 DEF SettingsPuts
<1>8. CASE t.saga = "loadWebSearchConfigSaga"
  <2> DEFINE a == IF t.ok THEN [type |-> "LOAD_WEB_SEARCH_CONFIG_SUCCESS", config |-> t.ans]
                          ELSE [type |-> "LOAD_WEB_SEARCH_CONFIG_FAILURE"]
  <2>1. settingsPuts(t) = <<a>>
    BY <1>8 DEF settingsPuts, loadWebSearchConfigSaga
  <2>2. ChosenPut(a, K)
    BY DEF ChosenPut
  <2> HIDE DEF a
  <2> QED BY <2>1, <2>2 DEF SettingsPuts
<1>9. CASE t.saga = "saveWebSearchConfigSaga"
  <2> DEFINE a == IF t.ok THEN [type |-> "SAVE_WEB_SEARCH_CONFIG_SUCCESS", config |-> t.ans]
                          ELSE [type |-> "SAVE_WEB_SEARCH_CONFIG_FAILURE"]
  <2>1. settingsPuts(t) = <<a>>
    BY <1>9 DEF settingsPuts, saveWebSearchConfigSaga
  <2>2. ChosenPut(a, K)
    BY DEF ChosenPut
  <2> HIDE DEF a
  <2> QED BY <2>1, <2>2 DEF SettingsPuts
<1> QED BY <1>1, <1>2, <1>3, <1>4, <1>5, <1>6, <1>7, <1>8, <1>9 DEF SettingsSagas

LEMMA SettingsResumed == ASSUME NEW K, SettingsOf(K), SettingsResumes PROVE SettingsKeep(K)
<1>1. PICK i \in InState("back") :
        Resume(settingsShown, watchSettingsPage, i, settingsPuts(tasks[i]), << >>, tasks[i].saga \in {"loadSettingsSaga", "saveSettingsSaga"})
  BY DEF SettingsResumes
<1> DEFINE t == tasks[i]
           puts == settingsPuts(t)
<1>2. /\ i \in DOMAIN tasks /\ t.pc = "back" /\ t.saga \in SettingsSagas /\ t.ok \in BOOLEAN
      /\ ChosenTask(t, K, SettingsSagas)
  BY DEF InState, SettingsOf, ChosenTasks, ChosenTask, AreTasks, IsTask
<1>3. /\ ui' = Reduced(settingsShown, ui, puts) /\ srv' = srv
      /\ tasks' = Watched(watchSettingsPage, Rest(i), puts)
  BY <1>1 DEF Resume, Rest
<1>4. ChosenTasks(Rest(i), K, SettingsSagas)
  BY <1>2, ChosenRest DEF SettingsOf
<1>5. PICK a, b : SettingsPuts(t, a, b, K)
  BY <1>2, SettingsPut
<1> HIDE DEF puts
<1>6. CASE puts = <<a>>
  BY <1>3, <1>4, <1>5, <1>6, SettingsPutOne DEF SettingsOf, SettingsKeep, SettingsPuts
<1>7. CASE puts = <<a, b>>
  BY <1>3, <1>4, <1>5, <1>7, SettingsPutTwo DEF SettingsOf, SettingsKeep, SettingsPuts
<1> QED BY <1>5, <1>6, <1>7 DEF SettingsPuts, puts

LEMMA SettingsSteps == ASSUME SettingsInv, SettingsNext PROVE SettingsInv'
<1>1. PICK K : K = Kept(ui)
  OBVIOUS
<1>2. SettingsOf(K) /\ Ttl \notin K
  BY <1>1 DEF SettingsInv, Kept
<1>3. SettingsKeep(K) => SettingsInv'
  BY <1>1 DEF SettingsKeep, SettingsInv, Kept
<1>4. CASE SettingsPage
  <2>1. CASE \E a : SettingsDo(a) /\ a.type \in {"LOAD_SETTINGS", "CHECK_LLM"}
    BY <1>2, <1>3, <2>1, SettingsDispatch DEF ChosenPut
  <2>2. CASE (\E k \in Shown("typed") : scheduleAutosave(k, 2)) \/ (\E k \in Shown("blurred") : changeOnly(k, 2))
    <3>1. PICK k : scheduleAutosave(k, 2) \/ changeOnly(k, 2)
      BY <2>2
    <3>2. 2 # 0
      OBVIOUS
    <3> QED BY <1>2, <1>3, <3>1, <3>2, SettingsTyped
  <2>3. CASE (\E k \in Shown("atOnce") : changeAndSave(k, 2)) \/ pickWhisperFile
    <3>1. PICK k : changeAndSave(k, 2)
      BY <2>3 DEF pickWhisperFile
    <3>2. 2 # 0
      OBVIOUS
    <3> QED BY <3>1, <3>2, SettingsChanged
  <2>4. CASE \E c \in Categories : setActiveCategory(c)
    BY <1>2, <1>3, <2>4, SettingsCategory
  <2> QED BY <1>4, <2>1, <2>2, <2>3, <2>4 DEF SettingsPage
<1>5. CASE SettingsTimers
  BY <1>2, <1>3, <1>5, SettingsLeft, SettingsEndpoint DEF SettingsTimers
<1>6. CASE WebSearchSettings
  <2>1. PICK a : SettingsDo(a) /\ a.type \in {"LOAD_WEB_SEARCH_CONFIG", "SAVE_WEB_SEARCH_CONFIG"}
    BY <1>6 DEF WebSearchSettings
  <2> QED BY <1>2, <1>3, <2>1, SettingsDispatch DEF ChosenPut
<1>7. CASE Dropped
  BY <1>2, <1>3, <1>7, ChosenDropped DEF SettingsOf, SettingsKeep
<1> QED BY <1>2, <1>3, <1>4, <1>5, <1>6, <1>7, SettingsAnswered, SettingsOutside, SettingsResumed DEF SettingsNext
LEMMA SettingsStutters == ASSUME SettingsInv, UNCHANGED sagaVars PROVE SettingsInv'
BY DEF sagaVars, SettingsInv, SettingsOf

(****************************************************************************)
(* The Obsidian page, with a snapshot of the settings beside them.          *)
(****************************************************************************)

OR == INSTANCE PutsProofs WITH Op <- LAMBDA x, s, a : obsidianShown(s, a)
OW == INSTANCE PutsProofs WITH Op <- LAMBDA x, s, a : watchObsidianSagas(s, a)
OP == INSTANCE PutsProofs WITH Op <- LAMBDA x, s, a : pickShown(x, s, a)

OtherFields(s) == Kept(s) \ {"vaultPath"}
ObsidianSagas ==
  SettingsSagas \cup {"setupObsidianSaga", "diagnosticsSaga", "reapplyBootstrapSaga", "reinstallPluginsSaga", "wizardSaga"}
ObsidianUi(s, K) ==
  /\ {"settings", "snapshot", "early"} \subseteq DOMAIN s
  /\ s.settings # {} => Chosen(s.snapshot, K)
ObsidianOf(K) ==
  /\ ChosenTasks(tasks, K, ObsidianSagas)
  /\ ObsidianUi(ui, K)
  /\ {"stored", "disk", "rest"} = DOMAIN srv /\ Chosen(srv.stored, K)
ObsidianInv == ObsidianOf(OtherFields(ui))
ObsidianKeep(K) == ObsidianOf(K)' /\ ui'.early = ui.early

LEMMA ObsidianReduce ==
  ASSUME NEW K, NEW s, ObsidianUi(s, K), NEW a,
         a.type \in {"LOAD_SETTINGS_SUCCESS", "SAVE_SETTINGS_SUCCESS"} => Chosen(a.settings, K)
  PROVE  ObsidianUi(obsidianShown(s, a), K) /\ obsidianShown(s, a).early = s.early
<1> DEFINE r == settingsReducer(s, a)
<1>1. DOMAIN r = DOMAIN s /\ r.snapshot = s.snapshot /\ r.early = s.early
  BY DEF settingsReducer, ObsidianUi
<1>2. a.type \notin {"LOAD_SETTINGS_SUCCESS", "SAVE_SETTINGS_SUCCESS"} => r.settings = s.settings
  BY DEF settingsReducer, ObsidianUi
<1> HIDE DEF r
<1>3. LET o == obsidianShown(s, a)
      IN  /\ DOMAIN o = DOMAIN s /\ o.settings = r.settings /\ o.early = s.early
          /\ o.snapshot = IF a.type \in {"LOAD_SETTINGS_SUCCESS", "SAVE_SETTINGS_SUCCESS"} THEN a.settings ELSE s.snapshot
  BY <1>1 DEF obsidianShown, r, ObsidianUi
<1> QED BY <1>1, <1>2, <1>3 DEF ObsidianUi

LEMMA ObsidianWatch ==
  ASSUME NEW K, NEW ts, ChosenTasks(ts, K, ObsidianSagas), NEW a, ChosenPut(a, K)
  PROVE  ChosenTasks(watchObsidianSagas(ts, a), K, ObsidianSagas)
<1>1. CASE a.type = "SETUP_OBSIDIAN"
  BY <1>1, ChosenRequest DEF watchObsidianSagas, ObsidianSagas
<1>2. CASE a.type = "FETCH_DIAGNOSTICS"
  BY <1>2, ChosenQuery DEF watchObsidianSagas, ObsidianSagas
<1>3. CASE a.type = "REAPPLY_BOOTSTRAP"
  BY <1>3, ChosenRequest DEF watchObsidianSagas, ObsidianSagas
<1>4. CASE a.type = "REINSTALL_PLUGINS"
  BY <1>4, ChosenRequest DEF watchObsidianSagas, ObsidianSagas
<1>5. CASE a.type = "RUN_WIZARD_STEP"
  BY <1>5, ChosenRequest DEF watchObsidianSagas, ObsidianSagas
<1>6. CASE a.type \notin {"SETUP_OBSIDIAN", "FETCH_DIAGNOSTICS", "REAPPLY_BOOTSTRAP", "REINSTALL_PLUGINS", "RUN_WIZARD_STEP"}
  <2>1. watchObsidianSagas(ts, a) = watchSettingsSagas(ts, a)
    BY <1>6 DEF watchObsidianSagas
  <2> QED BY <2>1, ChosenSagas DEF ObsidianSagas
<1> QED BY <1>1, <1>2, <1>3, <1>4, <1>5, <1>6

LEMMA ObsidianPutOne ==
  ASSUME NEW K, NEW s, ObsidianUi(s, K), NEW ts, ChosenTasks(ts, K, ObsidianSagas), NEW a, ChosenPut(a, K)
  PROVE  /\ ObsidianUi(Reduced(obsidianShown, s, <<a>>), K) /\ Reduced(obsidianShown, s, <<a>>).early = s.early
         /\ ChosenTasks(Watched(watchObsidianSagas, ts, <<a>>), K, ObsidianSagas)
<1>1. OR!Fold(0, s, <<a>>) = Reduced(obsidianShown, s, <<a>>)
  BY DEF OR!Fold, Reduced, OR!Folds, OR!Step, OR!Greatest, FoldLeft, MapThenFoldSet, Max
<1>2. OW!Fold(0, ts, <<a>>) = Watched(watchObsidianSagas, ts, <<a>>)
  BY DEF OW!Fold, Watched, OW!Folds, OW!Step, OW!Greatest, FoldLeft, MapThenFoldSet, Max
<1>3. Reduced(obsidianShown, s, <<a>>) = obsidianShown(s, a)
  BY <1>1, OR!FoldOne
<1>4. Watched(watchObsidianSagas, ts, <<a>>) = watchObsidianSagas(ts, a)
  BY <1>2, OW!FoldOne
<1> QED BY <1>3, <1>4, ObsidianReduce, ObsidianWatch DEF ChosenPut
LEMMA ObsidianPutTwo ==
  ASSUME NEW K, NEW s, ObsidianUi(s, K), NEW ts, ChosenTasks(ts, K, ObsidianSagas),
         NEW a, ChosenPut(a, K), NEW b, ChosenPut(b, K)
  PROVE  /\ ObsidianUi(Reduced(obsidianShown, s, <<a, b>>), K) /\ Reduced(obsidianShown, s, <<a, b>>).early = s.early
         /\ ChosenTasks(Watched(watchObsidianSagas, ts, <<a, b>>), K, ObsidianSagas)
<1>1. OR!Fold(0, s, <<a, b>>) = Reduced(obsidianShown, s, <<a, b>>)
  BY DEF OR!Fold, Reduced, OR!Folds, OR!Step, OR!Greatest, FoldLeft, MapThenFoldSet, Max
<1>2. OW!Fold(0, ts, <<a, b>>) = Watched(watchObsidianSagas, ts, <<a, b>>)
  BY DEF OW!Fold, Watched, OW!Folds, OW!Step, OW!Greatest, FoldLeft, MapThenFoldSet, Max
<1>3. OR!Fold(0, s, <<a, b>>) = obsidianShown(obsidianShown(s, a), b)
  BY OR!FoldTwo
<1>4. OW!Fold(0, ts, <<a, b>>) = watchObsidianSagas(watchObsidianSagas(ts, a), b)
  BY OW!FoldTwo
<1>5. /\ ObsidianUi(obsidianShown(s, a), K) /\ obsidianShown(s, a).early = s.early
      /\ ChosenTasks(watchObsidianSagas(ts, a), K, ObsidianSagas)
  BY ObsidianReduce, ObsidianWatch DEF ChosenPut
<1>6. /\ ObsidianUi(obsidianShown(obsidianShown(s, a), b), K)
      /\ obsidianShown(obsidianShown(s, a), b).early = s.early
  BY <1>5, ObsidianReduce DEF ChosenPut
<1>7. ChosenTasks(watchObsidianSagas(watchObsidianSagas(ts, a), b), K, ObsidianSagas)
  BY <1>5, ObsidianWatch
<1>8. Reduced(obsidianShown, s, <<a, b>>) = obsidianShown(obsidianShown(s, a), b)
  BY <1>1, <1>3
<1>9. Watched(watchObsidianSagas, ts, <<a, b>>) = watchObsidianSagas(watchObsidianSagas(ts, a), b)
  BY <1>2, <1>4
<1> QED BY <1>6, <1>7, <1>8, <1>9
LEMMA ObsidianPutThree ==
  ASSUME NEW K, NEW s, ObsidianUi(s, K), NEW ts, ChosenTasks(ts, K, ObsidianSagas),
         NEW a, ChosenPut(a, K), NEW b, ChosenPut(b, K), NEW c, ChosenPut(c, K)
  PROVE  /\ ObsidianUi(Reduced(obsidianShown, s, <<a, b, c>>), K) /\ Reduced(obsidianShown, s, <<a, b, c>>).early = s.early
         /\ ChosenTasks(Watched(watchObsidianSagas, ts, <<a, b, c>>), K, ObsidianSagas)
<1>1. OR!Fold(0, s, <<a, b, c>>) = Reduced(obsidianShown, s, <<a, b, c>>)
  BY DEF OR!Fold, Reduced, OR!Folds, OR!Step, OR!Greatest, FoldLeft, MapThenFoldSet, Max
<1>2. OW!Fold(0, ts, <<a, b, c>>) = Watched(watchObsidianSagas, ts, <<a, b, c>>)
  BY DEF OW!Fold, Watched, OW!Folds, OW!Step, OW!Greatest, FoldLeft, MapThenFoldSet, Max
<1>3. OR!Fold(0, s, <<a, b, c>>) = obsidianShown(obsidianShown(obsidianShown(s, a), b), c)
  BY OR!FoldThree
<1>4. OW!Fold(0, ts, <<a, b, c>>) = watchObsidianSagas(watchObsidianSagas(watchObsidianSagas(ts, a), b), c)
  BY OW!FoldThree
<1>5. /\ ObsidianUi(obsidianShown(s, a), K) /\ obsidianShown(s, a).early = s.early
      /\ ChosenTasks(watchObsidianSagas(ts, a), K, ObsidianSagas)
  BY ObsidianReduce, ObsidianWatch DEF ChosenPut
<1>6. /\ ObsidianUi(obsidianShown(obsidianShown(s, a), b), K) /\ obsidianShown(obsidianShown(s, a), b).early = s.early
      /\ ChosenTasks(watchObsidianSagas(watchObsidianSagas(ts, a), b), K, ObsidianSagas)
  BY <1>5, ObsidianReduce, ObsidianWatch DEF ChosenPut
<1>7. /\ ObsidianUi(obsidianShown(obsidianShown(obsidianShown(s, a), b), c), K)
      /\ obsidianShown(obsidianShown(obsidianShown(s, a), b), c).early = s.early
  BY <1>6, ObsidianReduce DEF ChosenPut
<1>8. ChosenTasks(watchObsidianSagas(watchObsidianSagas(watchObsidianSagas(ts, a), b), c), K, ObsidianSagas)
  BY <1>6, ObsidianWatch
<1>9. Reduced(obsidianShown, s, <<a, b, c>>) = obsidianShown(obsidianShown(obsidianShown(s, a), b), c)
  BY <1>1, <1>3
<1>10. Watched(watchObsidianSagas, ts, <<a, b, c>>) = watchObsidianSagas(watchObsidianSagas(watchObsidianSagas(ts, a), b), c)
  BY <1>2, <1>4
<1> QED BY <1>7, <1>8, <1>9, <1>10

LEMMA ObsidianInitOK == ASSUME NEW budget, ObsidianInit(budget) PROVE ObsidianInv
<1> DEFINE s == [settings |-> {}, isLoading |-> FALSE, isSaving |-> FALSE, snapshot |-> DefaultSettings, early |-> FALSE,
                 obsidian |-> initialObsidianState, wizard |-> initialObsidianWizardState]
           a == [type |-> "LOAD_SETTINGS"]
           b == [type |-> "FETCH_DIAGNOSTICS"]
           K == Fields \ {Ttl, "vaultPath"}
<1>1. /\ ui = Reduced(obsidianShown, s, <<a, b>>) /\ tasks = Watched(watchObsidianSagas, << >>, <<a, b>>)
      /\ \E v \in {0, 1}, one \in {{}, Contents} :
            srv = [stored |-> [OldSettings EXCEPT !["vaultPath"] = v], disk |-> << one, {"obsidian"} >>, rest |-> "down"]
  BY DEF ObsidianInit, SagaBoot, SagaStart, ObsidianMounted
<1>2. AreTasks(<< >>) /\ DOMAIN << >> = {}
  BY NoTasks
<1>3. ChosenTasks(<< >>, K, ObsidianSagas)
  BY <1>2 DEF ChosenTasks
<1>4. ChosenPut(a, K) /\ ChosenPut(b, K)
  BY DEF ChosenPut
<1>5. ObsidianUi(s, K) /\ s.early = FALSE
  BY DEF ObsidianUi
<1>6. {"stored", "disk", "rest"} = DOMAIN srv /\ Chosen(srv.stored, K)
  <2>0. PICK v, one : srv = [stored |-> [OldSettings EXCEPT !["vaultPath"] = v], disk |-> << one, {"obsidian"} >>, rest |-> "down"]
    BY <1>1, Zenon
  <2> DEFINE old == [OldSettings EXCEPT !["vaultPath"] = v]
             disk == << one, {"obsidian"} >>
  <2> HIDE DEF old, disk
  <2>1. srv.stored = old /\ {"stored", "disk", "rest"} = DOMAIN srv
    BY <2>0 DEF old, disk
  <2>2. Chosen(OldSettings, K)
    BY DEF Chosen, OldSettings, K
  <2>3. Chosen(old, K)
    BY <2>2, ChosenAgain DEF K, old
  <2> QED BY <2>1, <2>3
<1> HIDE DEF s, a, b, K
<1>7. ObsidianUi(ui, K) /\ ui.early = FALSE /\ ChosenTasks(tasks, K, ObsidianSagas)
  BY <1>1, <1>3, <1>4, <1>5, ObsidianPutTwo
<1>8. OtherFields(ui) = K
  BY <1>7 DEF OtherFields, Kept, K
<1> QED BY <1>6, <1>7, <1>8 DEF ObsidianInv, ObsidianOf

LEMMA ObsidianDispatch == ASSUME NEW K, ObsidianOf(K), NEW a, ChosenPut(a, K), ObsidianDo(a) PROVE ObsidianKeep(K)
<1>1. ui' = Reduced(obsidianShown, ui, <<a>>) /\ tasks' = Watched(watchObsidianSagas, tasks, <<a>>) /\ srv' = srv
  BY DEF ObsidianDo, Dispatch, DispatchAll
<1> QED BY <1>1, ObsidianPutOne DEF ObsidianOf, ObsidianKeep

\* A folder picked once the settings are loaded keeps K; one picked earlier keeps nothing.
LEMMA ObsidianPickedOf ==
  ASSUME NEW K, ObsidianOf(K), "vaultPath" \notin K, ui.settings # {} \/ K = {}, pickVault
  PROVE  ObsidianOf(K)' /\ ui'.early = (ui.early \/ ui.settings = {})
<1>1. PICK v \in Vaults \ {vaultPath} :
        LET chosen == [ui.snapshot EXCEPT !["vaultPath"] = v]
        IN  DispatchAll(LAMBDA s, a : pickShown(chosen, s, a),
                        watchObsidianSagas, << [type |-> "SAVE_SETTINGS", settings |-> chosen] >>)
  BY Zenon DEF pickVault
<1> DEFINE chosen == [ui.snapshot EXCEPT !["vaultPath"] = v]
           a == [type |-> "SAVE_SETTINGS", settings |-> chosen]
<1>2. Chosen(chosen, K)
  BY ChosenAgain DEF ObsidianOf, ObsidianUi, Chosen
<1>3. ChosenPut(a, K)
  BY <1>2 DEF ChosenPut
<1>4. ui' = Reduced(LAMBDA s, b : pickShown(chosen, s, b), ui, <<a>>)
  BY <1>1, Zenon DEF DispatchAll
<1>5. tasks' = Watched(watchObsidianSagas, tasks, <<a>>)
  BY <1>1, Zenon DEF DispatchAll
<1>6. srv' = srv
  BY <1>1, Zenon DEF DispatchAll
<1> HIDE DEF chosen
<1>7. OP!Fold(chosen, ui, <<a>>)
        = Reduced(LAMBDA s, b : pickShown(chosen, s, b), ui, <<a>>)
  BY DEF OP!Fold, Reduced, OP!Folds, OP!Step, OP!Greatest, FoldLeft, MapThenFoldSet, Max
<1>8. OP!Fold(chosen, ui, <<a>>) = pickShown(chosen, ui, a)
  BY OP!FoldOne
<1> HIDE DEF a
<1>9. ObsidianUi(obsidianShown(ui, a), K) /\ obsidianShown(ui, a).early = ui.early
  BY <1>3, ObsidianReduce DEF ObsidianOf, ChosenPut
<1>10. ObsidianUi(ui', K) /\ ui'.early = (ui.early \/ ui.settings = {})
  <2>1. ui' = pickShown(chosen, ui, a)
    BY <1>4, <1>7, <1>8, Zenon
  <2> QED BY <2>1, <1>2, <1>9 DEF ObsidianUi, pickShown
<1>11. ChosenTasks(tasks', K, ObsidianSagas)
  BY <1>3, <1>5, ObsidianPutOne DEF ObsidianOf
<1> QED BY <1>6, <1>10, <1>11 DEF ObsidianOf
LEMMA ObsidianPicked == ASSUME ObsidianInv, pickVault PROVE ObsidianInv'
<1>1. PICK K : K = OtherFields(ui)
  OBVIOUS
<1>2. ObsidianOf(K) /\ "vaultPath" \notin K
  BY <1>1 DEF ObsidianInv, OtherFields
<1>3. CASE ui.settings # {}
  <2>1. ObsidianOf(K)' /\ ui'.early = (ui.early \/ ui.settings = {})
    BY <1>2, <1>3, ObsidianPickedOf
  <2>2. OtherFields(ui') = K
    BY <1>1, <1>3, <2>1 DEF OtherFields, Kept
  <2> QED BY <2>1, <2>2 DEF ObsidianInv
<1>4. CASE ui.settings = {}
  <2>1. ObsidianOf({})
    BY <1>2 DEF ObsidianOf, ChosenTasks, ChosenTask, ObsidianUi, Chosen
  <2>2. ObsidianOf({})' /\ ui'.early = (ui.early \/ ui.settings = {})
    BY <2>1, ObsidianPickedOf
  <2>3. OtherFields(ui') = {}
    BY <1>4, <2>2 DEF OtherFields, Kept
  <2> QED BY <2>2, <2>3 DEF ObsidianInv
<1> QED BY <1>3, <1>4

LEMMA ObsidianAnswer ==
  ASSUME NEW K, ObsidianOf(K), NEW i \in DOMAIN tasks, NEW sv, NEW ans, NEW told \in BOOLEAN, AnswerTelling(i, sv, ans, told),
         tasks[i].saga \in {"loadSettingsSaga", "saveSettingsSaga"} => Chosen(ans, K),
         DOMAIN sv = DOMAIN srv, Chosen(sv.stored, K)
  PROVE  ObsidianKeep(K)
<1>1. ChosenTasks(tasks', K, ObsidianSagas)
  BY ChosenAnswer DEF ObsidianOf
<1>2. ui' = ui /\ srv' = sv
  BY DEF AnswerTelling
<1> QED BY <1>1, <1>2 DEF ObsidianOf, ObsidianKeep

LEMMA ObsidianAnswered == ASSUME NEW K, ObsidianOf(K), Ttl \notin K, "vaultPath" \notin K, ObsidianAnswers PROVE ObsidianKeep(K)
<1>1. PICK i \in InFlight : \/ LoadSettings(i) \/ SaveVaultPath(i) \/ SetupObsidian(i) \/ ObsidianRunDiagnostics(i)
                            \/ RunWizardStep(i) \/ ObsidianReapplyBootstrap(i) \/ ObsidianReinstallPlugins(i)
  BY DEF ObsidianAnswers
<1>2. i \in DOMAIN tasks /\ {"stored", "disk", "rest"} = DOMAIN srv /\ Chosen(srv.stored, K)
  BY DEF InFlight, InState, ObsidianOf
<1>3. CASE LoadSettings(i)
  BY <1>2, <1>3, ObsidianAnswer DEF LoadSettings, Answer
<1>4. CASE SaveVaultPath(i)
  <2> DEFINE saved == mapSettingsToInput(tasks[i].arg)
             sv == [srv EXCEPT !.stored = saved]
  <2>1. Chosen(saved, K)
    BY <1>2, <1>4, ChosenInput DEF SaveVaultPath, ObsidianOf, ChosenTasks, ChosenTask
  <2>2. AnswerTelling(i, sv, saved, FALSE)
    BY <1>4 DEF SaveVaultPath
  <2> HIDE DEF saved
  <2>3. DOMAIN sv = DOMAIN srv /\ sv.stored = saved
    BY <1>2
  <2> HIDE DEF sv
  <2> QED BY <1>2, <2>1, <2>2, <2>3, ObsidianAnswer
<1>5. CASE SetupObsidian(i)
  <2> DEFINE sv(downloads) == [srv EXCEPT !.disk[tasks[i].arg] = EnsureVaultPrepared(Install(@, downloads)),
                                          !.stored["vaultPath"] = IF @ = 0 THEN tasks[i].arg ELSE @]
  <2>1. PICK downloads \in BOOLEAN : AnswerTelling(i, sv(downloads), {"report"}, FALSE)
    BY <1>5, Zenon DEF SetupObsidian
  <2>2. /\ DOMAIN sv(downloads) = DOMAIN srv
        /\ sv(downloads).stored = [srv.stored EXCEPT !["vaultPath"] = IF @ = 0 THEN tasks[i].arg ELSE @]
    BY <1>2
  <2> HIDE DEF sv
  <2>3. Chosen(sv(downloads).stored, K)
    BY <1>2, <2>2, ChosenAgain
  <2>4. tasks[i].saga = "setupObsidianSaga"
    BY <1>5 DEF SetupObsidian
  <2> QED BY <1>2, <2>1, <2>2, <2>3, <2>4, ObsidianAnswer
<1>6. CASE ObsidianRunDiagnostics(i)
  BY <1>2, <1>6, ObsidianAnswer DEF ObsidianRunDiagnostics, Answer
<1>7. CASE RunWizardStep(i)
  <2>1. tasks[i].saga = "wizardSaga"
    BY <1>7 DEF RunWizardStep
  <2>2. CASE Stored = 0
    <3>1. AnswerTelling(i, srv, {}, TRUE)
      BY <1>7, <2>2, Zenon DEF RunWizardStep, Answer
    <3> QED BY <1>2, <2>1, <3>1, ObsidianAnswer
  <2>3. CASE Stored # 0
    <3>1. PICK downloads \in BOOLEAN, captured \in BOOLEAN :
            LET sv == WizardBackend(tasks[i].arg, downloads, captured)
            IN  AnswerTelling(i, sv, {ComputeNextStep(tasks[i].arg, sv)}, FALSE)
      BY <1>7, <2>3, Zenon DEF RunWizardStep
    <3> DEFINE sv == WizardBackend(tasks[i].arg, downloads, captured)
               ans == {ComputeNextStep(tasks[i].arg, sv)}
    <3>2. AnswerTelling(i, sv, ans, FALSE)
      BY <3>1, Zenon
    <3>3. DOMAIN sv = DOMAIN srv /\ sv.stored = srv.stored
      BY <1>2 DEF WizardBackend
    <3> HIDE DEF sv, ans
    <3> QED BY <1>2, <2>1, <3>2, <3>3, ObsidianAnswer
  <2> QED BY <2>2, <2>3
<1>8. CASE ObsidianReapplyBootstrap(i) \/ ObsidianReinstallPlugins(i)
  <2>1. PICK d : Repair(i, d) /\ tasks[i].saga \in {"reapplyBootstrapSaga", "reinstallPluginsSaga"}
    BY <1>8 DEF ObsidianReapplyBootstrap, ObsidianReinstallPlugins
  <2> DEFINE sv == [srv EXCEPT !.disk[Stored] = d]
  <2>2. DOMAIN sv = DOMAIN srv /\ sv.stored = srv.stored
    BY <1>2
  <2>3. AnswerTelling(i, srv, {}, TRUE) \/ AnswerTelling(i, sv, {"repaired"}, TRUE)
    BY <2>1 DEF Repair, Answer
  <2> HIDE DEF sv
  <2> QED BY <1>2, <2>1, <2>2, <2>3, ObsidianAnswer
<1> QED BY <1>1, <1>3, <1>4, <1>5, <1>6, <1>7, <1>8

LEMMA ObsidianActed == ASSUME NEW K, ObsidianOf(K), ObsidianActs PROVE ObsidianKeep(K)
<1>1. PICK d : Outside([srv EXCEPT !.disk[Stored] = d])
  BY DEF ObsidianActs
<1> DEFINE sv == [srv EXCEPT !.disk[Stored] = d]
<1>2. DOMAIN sv = DOMAIN srv /\ sv.stored = srv.stored
  BY DEF ObsidianOf
<1>3. ui' = ui /\ srv' = sv
  BY <1>1 DEF Outside
<1>4. ChosenTasks(tasks', K, ObsidianSagas)
  BY <1>1, ChosenOutside DEF ObsidianOf
<1> HIDE DEF sv
<1> QED BY <1>2, <1>3, <1>4 DEF ObsidianOf, ObsidianKeep

\* What a saga that resumes puts: up to three actions, with what was loaded or saved.
ObsidianPuts(t, a, b, c, K) ==
  /\ obsidianPuts(t) \in {<<a>>, <<a, b>>, <<a, b, c>>}
  /\ ChosenPut(a, K) /\ ChosenPut(b, K) /\ ChosenPut(c, K)
LEMMA ObsidianPut ==
  ASSUME NEW K, NEW t, t.ok \in BOOLEAN, t.pc = "back", ChosenTask(t, K, ObsidianSagas) PROVE \E a, b, c : ObsidianPuts(t, a, b, c, K)
<1> DEFINE n == notifyError
           plain(type) == [type |-> type]
<1>1. ChosenPut(n, K) /\ \A key : ChosenPut(notifySuccess(key), K)
  BY DEF notifyError, notifySuccess, Notify, ChosenPut
<1>2. \A type : type \notin {"SAVE_SETTINGS", "LOAD_SETTINGS_SUCCESS", "SAVE_SETTINGS_SUCCESS"} => ChosenPut(plain(type), K)
  BY DEF ChosenPut
<1>3. CASE t.saga = "setupObsidianSaga"
  <2> DEFINE a == IF Done(t) THEN notifySuccess("obsidian.setupSuccess") ELSE notifyError
             b == plain("SETUP_OBSIDIAN_DONE")
  <2>1. obsidianPuts(t) = <<a, b>>
    BY <1>3 DEF obsidianPuts, setupObsidianSaga
  <2>2. ChosenPut(a, K) /\ ChosenPut(b, K)
    BY <1>1, <1>2
  <2> HIDE DEF a, b
  <2> QED BY <2>1, <2>2 DEF ObsidianPuts
<1>4. CASE t.saga = "diagnosticsSaga"
  <2> DEFINE a == IF t.ok THEN [type |-> "FETCH_DIAGNOSTICS_DONE", report |-> t.ans] ELSE [type |-> "FETCH_DIAGNOSTICS_FAILED"]
  <2>1. obsidianPuts(t) = <<a>>
    BY <1>4 DEF obsidianPuts, diagnosticsSaga
  <2>2. ChosenPut(a, K)
    BY DEF ChosenPut
  <2> HIDE DEF a
  <2> QED BY <2>1, <2>2 DEF ObsidianPuts
<1>5. CASE t.saga \in {"reapplyBootstrapSaga", "reinstallPluginsSaga"}
  <2>1. PICK key, done : obsidianPuts(t) = Repaired(t, key, done) /\ ChosenPut(plain(done), K)
    <3>1. CASE t.saga = "reapplyBootstrapSaga"
      BY <1>2, <3>1 DEF obsidianPuts, reapplyBootstrapSaga
    <3>2. CASE t.saga = "reinstallPluginsSaga"
      BY <1>2, <3>2 DEF obsidianPuts, reinstallPluginsSaga
    <3> QED BY <1>5, <3>1, <3>2
  <2> DEFINE a == notifySuccess(key)
             b == plain("FETCH_DIAGNOSTICS")
             c == plain(done)
  <2>2. obsidianPuts(t) = <<a, b, c>> \/ obsidianPuts(t) = <<n, c>>
    BY <2>1 DEF Repaired
  <2>3. ChosenPut(a, K) /\ ChosenPut(b, K) /\ ChosenPut(c, K)
    BY <1>1, <1>2, <2>1
  <2> HIDE DEF a, b, c, n
  <2> QED BY <1>1, <2>2, <2>3 DEF ObsidianPuts
<1>6. CASE t.saga = "wizardSaga"
  <2> DEFINE a == IF Done(t) THEN [type |-> "RUN_WIZARD_STEP_DONE", step |-> t.arg, next |-> CHOOSE m \in t.ans : TRUE]
                             ELSE [type |-> "RUN_WIZARD_STEP_FAILED"]
  <2>1. obsidianPuts(t) = <<a>>
    BY <1>6 DEF obsidianPuts, wizardSaga
  <2>2. ChosenPut(a, K)
    BY DEF ChosenPut
  <2> HIDE DEF a
  <2> QED BY <2>1, <2>2 DEF ObsidianPuts
<1>7. CASE t.saga \in SettingsSagas
  <2>1. PICK a, b : SettingsPuts(t, a, b, K)
    BY <1>7, SettingsPut
  <2>2. obsidianPuts(t) = settingsPuts(t)
    BY <1>7 DEF obsidianPuts, SettingsSagas
  <2> QED BY <2>1, <2>2 DEF SettingsPuts, ObsidianPuts
<1> QED BY <1>3, <1>4, <1>5, <1>6, <1>7 DEF ChosenTask, ObsidianSagas

LEMMA ObsidianResumed == ASSUME NEW K, ObsidianOf(K), ObsidianResumes PROVE ObsidianKeep(K)
<1>1. PICK i \in InState("back") :
        Resume(obsidianShown, watchObsidianSagas, i, obsidianPuts(tasks[i]), << >>, tasks[i].saga = "diagnosticsSaga")
  BY DEF ObsidianResumes
<1> DEFINE t == tasks[i]
           puts == obsidianPuts(t)
<1>2. i \in DOMAIN tasks /\ t.pc = "back" /\ t.ok \in BOOLEAN /\ ChosenTask(t, K, ObsidianSagas)
  BY DEF InState, ObsidianOf, ChosenTasks, AreTasks, IsTask
<1>3. /\ ui' = Reduced(obsidianShown, ui, puts) /\ srv' = srv
      /\ tasks' = Watched(watchObsidianSagas, Rest(i), puts)
  BY <1>1 DEF Resume, Rest
<1>4. ChosenTasks(Rest(i), K, ObsidianSagas)
  BY <1>2, ChosenRest DEF ObsidianOf
<1>5. PICK a, b, c : ObsidianPuts(t, a, b, c, K)
  BY <1>2, ObsidianPut
<1> HIDE DEF puts
<1>6. CASE puts = <<a>>
  BY <1>3, <1>4, <1>5, <1>6, ObsidianPutOne DEF ObsidianOf, ObsidianKeep, ObsidianPuts
<1>7. CASE puts = <<a, b>>
  BY <1>3, <1>4, <1>5, <1>7, ObsidianPutTwo DEF ObsidianOf, ObsidianKeep, ObsidianPuts
<1>8. CASE puts = <<a, b, c>>
  BY <1>3, <1>4, <1>5, <1>8, ObsidianPutThree DEF ObsidianOf, ObsidianKeep, ObsidianPuts
<1> QED BY <1>5, <1>6, <1>7, <1>8 DEF ObsidianPuts, puts

LEMMA ObsidianSteps == ASSUME ObsidianInv, ObsidianNext PROVE ObsidianInv'
<1>1. PICK K : K = OtherFields(ui)
  OBVIOUS
<1>2. ObsidianOf(K) /\ Ttl \notin K /\ "vaultPath" \notin K
  BY <1>1 DEF ObsidianInv, OtherFields, Kept
<1>3. ObsidianKeep(K) => ObsidianInv'
  BY <1>1 DEF ObsidianKeep, ObsidianInv, OtherFields, Kept
<1>4. CASE ObsidianPage
  <2>1. CASE \E a : ObsidianDo(a) /\ a.type \in {"SETUP_OBSIDIAN", "RUN_WIZARD_STEP", "FETCH_DIAGNOSTICS", "REAPPLY_BOOTSTRAP", "REINSTALL_PLUGINS"}
    BY <1>2, <1>3, <2>1, ObsidianDispatch DEF ChosenPut
  <2>2. CASE applySetup
    BY <2>1, <2>2 DEF applySetup
  <2>3. CASE runWizardStep
    BY <2>1, <2>3 DEF runWizardStep
  <2>4. CASE refreshDiagnostics \/ reapplyPressed \/ reinstallPressed
    BY <2>1, <2>4 DEF refreshDiagnostics, reapplyPressed, reinstallPressed
  <2> QED BY <1>4, <2>2, <2>3, <2>4, ObsidianPicked DEF ObsidianPage
<1>5. CASE Dropped
  BY <1>2, <1>3, <1>5, ChosenDropped DEF ObsidianOf, ObsidianKeep
<1> QED BY <1>2, <1>3, <1>4, <1>5, ObsidianAnswered, ObsidianActed, ObsidianResumed DEF ObsidianNext
LEMMA ObsidianStutters == ASSUME ObsidianInv, UNCHANGED sagaVars PROVE ObsidianInv'
BY DEF sagaVars, ObsidianInv, ObsidianOf
==============================================================================
