----------------------------- MODULE SyncStore -----------------------------
(* The sync slice (status, pairing, pending devices, the stream of         *)
(* Syncthing's events) with the Sync page, its conflict files, and the     *)
(* pairing panel, which the page opens in a modal and the settings embed.  *)
EXTENDS Sagas, FiniteSets

CONSTANTS
  SyncDevices,        \* devices that know, or ask to know, this one
  MaxSyncEvents,      \* bound: events of Syncthing
  SyncthingMayBeDown  \* whether Syncthing may be out of reach while the backend answers

\* The shared folder: Syncthing names it by an id, the disk by a path.
FolderId == "mozgoslav-notes"
FolderPath == "/vault/notes"

\* host: what is mounted (the Sync page with its devices, with its conflict files, or the
\* settings); panel: whether the pairing panel is; told (ghost): the
\* devices of whose request an event told.
initialSyncState(host) ==
  [host |-> host, panel |-> FALSE, status |-> {}, pendingDevices |-> {}, streamConnected |-> FALSE,
   isLoadingStatus |-> FALSE, isLoadingPairing |-> FALSE, accepting |-> {}, files |-> {}, told |-> {}]

mergePending(existing, incoming) == existing \cup incoming
\* A connection of a device the status does not list changes nothing.
updateDevice(snapshots, e) ==
  {[st EXCEPT !.connected = IF e.device \notin st.known THEN @ ELSE IF e.on THEN @ \cup {e.device} ELSE @ \ {e.device}]
    : st \in snapshots}
applyEvent(s, e) ==
  IF e.kind = "pendingDevices" THEN [s EXCEPT !.pendingDevices = mergePending(@, {e.device}), !.told = @ \cup {e.device}]
                               ELSE [s EXCEPT !.status = updateDevice(@, e)]

syncReducer(s, a) ==
  CASE a.type = "LOAD_STATUS" -> [s EXCEPT !.isLoadingStatus = TRUE]
    [] a.type = "LOAD_STATUS_SUCCESS" ->
         [s EXCEPT !.isLoadingStatus = FALSE, !.status = {a.status}]
    [] a.type = "LOAD_STATUS_FAILURE" -> [s EXCEPT !.isLoadingStatus = FALSE]
    [] a.type = "LOAD_PAIRING" -> [s EXCEPT !.isLoadingPairing = TRUE]
    [] a.type = "LOAD_PAIRING_SUCCESS" ->
         [s EXCEPT !.isLoadingPairing = FALSE]
    [] a.type = "LOAD_PAIRING_FAILURE" -> [s EXCEPT !.isLoadingPairing = FALSE]
    [] a.type = "ACCEPT_DEVICE" -> [s EXCEPT !.accepting = {a.device}]
    [] a.type = "ACCEPT_DEVICE_SUCCESS" -> [s EXCEPT !.accepting = {}, !.pendingDevices = @ \ {a.device}]
    [] a.type = "ACCEPT_DEVICE_FAILURE" -> [s EXCEPT !.accepting = {}]
    [] a.type = "EVENT_STREAM_CONNECTED" -> [s EXCEPT !.streamConnected = TRUE]
    [] a.type = "EVENT_STREAM_DISCONNECTED" -> [s EXCEPT !.streamConnected = FALSE]
    [] a.type = "EVENT_RECEIVED" -> applyEvent(s, a.event)
    [] OTHER -> s

\* The watcher of the stream forks one saga per START; a STOP reaches all of them, and
\* each closes its channel.
watchSyncSagas(ts, a) ==
  CASE a.type = "LOAD_STATUS" -> takeLatestQuery(ts, gqlRequest("loadStatusSaga", Nothing))
    [] a.type = "LOAD_PAIRING" -> takeLatestQuery(ts, gqlRequest("loadPairingSaga", Nothing))
    [] a.type = "ACCEPT_DEVICE" -> takeLatest(ts, gqlRequest("acceptDeviceSaga", a.device))
    [] a.type = "START_EVENT_STREAM" -> takeEvery(ts, gqlSubscriptionChannel("syncEventStreamSaga", Nothing))
    [] a.type = "STOP_EVENT_STREAM" -> SelectSeq(ts, LAMBDA t : t.saga # "syncEventStreamSaga")
    [] a.type = "LIST_CONFLICTS" -> takeLatestQuery(ts, gqlRequest("listSyncConflicts", a.folders))
    [] OTHER -> ts

(***************************************************************************)
(* The sagas.  A status, or a pairing, that Syncthing did not give is      *)
(* answered with null, and then nothing is put.                            *)
(***************************************************************************)
loadStatusSaga(t) ==
  IF ~t.ok THEN << [type |-> "LOAD_STATUS_FAILURE"] >>
  ELSE IF t.ans = {} THEN << >>
  ELSE << [type |-> "LOAD_STATUS_SUCCESS", status |-> CHOOSE st \in t.ans : TRUE] >>
loadPairingSaga(t) ==
  IF ~t.ok THEN << [type |-> "LOAD_PAIRING_FAILURE"] >>
  ELSE IF t.ans = {} THEN << >> ELSE << [type |-> "LOAD_PAIRING_SUCCESS"] >>
acceptDeviceSaga(t) ==
  IF t.ok /\ t.ans = "accepted" THEN << [type |-> "ACCEPT_DEVICE_SUCCESS", device |-> t.arg] >>
                                ELSE << [type |-> "ACCEPT_DEVICE_FAILURE"] >>
\* The consumer tells that it is connected when it starts, and the opposite when it ends.
startSyncEventStream == << [type |-> "START_EVENT_STREAM"], [type |-> "EVENT_STREAM_CONNECTED"] >>
stopSyncEventStream == << [type |-> "STOP_EVENT_STREAM"], [type |-> "EVENT_STREAM_DISCONNECTED"] >>
consumeSyncEvent(e) == << [type |-> "EVENT_RECEIVED", event |-> e] >>

(***************************************************************************)
(* The page and the panel.                                                 *)
(***************************************************************************)
syncPageMounted == << [type |-> "LOAD_STATUS"] >> \o startSyncEventStream
panelMounted == << [type |-> "LOAD_STATUS"], [type |-> "LOAD_PAIRING"] >> \o startSyncEventStream
\* The conflict files are listed again when the status is another object: after a load of
\* it, and after each event about a folder or a device.
conflictsEffect(s, puts) ==
  IF s.host = "conflicts" /\ \E k \in DOMAIN puts :
       puts[k].type = "LOAD_STATUS_SUCCESS" \/ (puts[k].type = "EVENT_RECEIVED" /\ puts[k].event.kind # "pendingDevices")
  THEN << [type |-> "LIST_CONFLICTS", folders |-> {FolderId}] >> ELSE << >>

\* The page shows its devices, with a button that opens the panel, or its conflict files;
\* the panel of the settings is mounted with them.
SyncInit(budget) ==
  \E host \in {"sync", "conflicts", "settings"}, known \in {{}, {CHOOSE d \in SyncDevices : TRUE}} :
    LET mounted == IF host = "settings" THEN panelMounted ELSE syncPageMounted
    IN  SagaBoot([Reduced(syncReducer, initialSyncState(host), mounted) EXCEPT !.panel = host = "settings"],
                 [events |-> 0, down |-> {}, known |-> known, connected |-> {}, asked |-> {}, conflicts |-> {"file"}],
                 Watched(watchSyncSagas, << >>, mounted), budget)

PairingOpened ==
  /\ ui.host = "sync" /\ ~ui.panel
  /\ DispatchAll(LAMBDA s, a : [syncReducer(s, a) EXCEPT !.panel = TRUE], watchSyncSagas, panelMounted)
PairingClosed ==
  /\ ui.host = "sync" /\ ui.panel
  /\ ui' = [Reduced(syncReducer, ui, stopSyncEventStream) EXCEPT !.panel = FALSE]
  /\ tasks' = Watched(watchSyncSagas, tasks, stopSyncEventStream)
  /\ toast' = NoToast
  /\ drift' = (drift \/ \E i \in Channels : tasks[i].ans # << >>)     \* what was on its way is lost
  /\ UNCHANGED <<srv, broken, moves>>
\* Both buttons are disabled while their load is under way.
StatusRetried == ui.panel /\ ~ui.isLoadingStatus /\ Dispatch(syncReducer, watchSyncSagas, [type |-> "LOAD_STATUS"])
PairingRetried == ui.panel /\ ~ui.isLoadingPairing /\ Dispatch(syncReducer, watchSyncSagas, [type |-> "LOAD_PAIRING"])
\* The button of a device is disabled only while that device is being accepted.
AcceptPressed ==
  \E d \in ui.pendingDevices \ ui.accepting :
    ui.panel /\ Dispatch(syncReducer, watchSyncSagas, [type |-> "ACCEPT_DEVICE", device |-> d])

(***************************************************************************)
(* The backend, Syncthing, and the walk of the disk.                       *)
(***************************************************************************)
\* Syncthing out of reach: the backend answers all the same, with null or with an error.
\* srv.down (ghost): the loads it has answered so.
OutOfReach(i, ans) == SyncthingMayBeDown /\ Answer(i, [srv EXCEPT !.down = @ \cup {tasks[i].saga}], ans)
SyncStatus(i) ==
  /\ tasks[i].saga = "loadStatusSaga"
  /\ Answer(i, srv, {[known |-> srv.known, connected |-> srv.connected]}) \/ OutOfReach(i, {})
SyncPairingPayload(i) ==
  tasks[i].saga = "loadPairingSaga" /\ (Answer(i, srv, {"payload"}) \/ OutOfReach(i, {}))
AcceptSyncDevice(i) ==
  /\ tasks[i].saga = "acceptDeviceSaga"
  /\ \/ Answer(i, [srv EXCEPT !.known = @ \cup {tasks[i].arg}, !.asked = @ \ {tasks[i].arg}], "accepted")
     \/ OutOfReach(i, "unavailable")
\* A folder that does not exist lists nothing.
walkForConflicts(path) == IF path = FolderPath THEN srv.conflicts ELSE {}
ListConflicts(i) ==
  /\ tasks[i].saga = "listSyncConflicts"
  /\ Deliver(tasks, i, TRUE, UNION {walkForConflicts(p) : p \in tasks[i].arg})
  /\ UNCHANGED <<ui, srv, toast, drift, broken, moves>>

Publish(sv, e) ==
  srv.events < MaxSyncEvents /\ Broadcast(tasks, [sv EXCEPT !.events = @ + 1], LAMBDA t : t.saga = "syncEventStreamSaga", e)
DeviceConnects ==
  \E d \in srv.known, on \in BOOLEAN :
    /\ on # (d \in srv.connected)
    /\ Publish([srv EXCEPT !.connected = IF on THEN @ \cup {d} ELSE @ \ {d}],
               [kind |-> "deviceConnection", device |-> d, on |-> on])
DeviceAsks ==
  \E d \in SyncDevices \ (srv.known \cup srv.asked) :
    Publish([srv EXCEPT !.asked = @ \cup {d}], [kind |-> "pendingDevices", device |-> d])

SyncAnswers ==
  \E i \in InFlight : SyncStatus(i) \/ SyncPairingPayload(i) \/ AcceptSyncDevice(i) \/ ListConflicts(i)
syncPuts(t) ==
  CASE t.saga = "loadStatusSaga" -> loadStatusSaga(t)
    [] t.saga = "loadPairingSaga" -> loadPairingSaga(t)
    [] t.saga = "acceptDeviceSaga" -> acceptDeviceSaga(t)
SyncResumes ==
  \E i \in InState("back") :
    /\ tasks[i].saga # "listSyncConflicts"
    /\ LET puts == syncPuts(tasks[i])
       IN  Resume(syncReducer, watchSyncSagas, i, puts \o conflictsEffect(ui, puts), << >>, tasks[i].saga = "loadStatusSaga" /\ puts # << >>)
ConflictsShown ==
  \E i \in InState("back") :
    /\ tasks[i].saga = "listSyncConflicts"
    /\ Resume(LAMBDA s, a : [s EXCEPT !.files = a.files], watchSyncSagas, i,
              << [type |-> "FILES", files |-> tasks[i].ans] >>, << >>, FALSE)
ConsumeSyncEvent ==
  \E i \in Running("syncEventStreamSaga") :
    /\ Buffered(i)
    /\ LET puts == consumeSyncEvent(Head(tasks[i].ans))
       IN  Take(syncReducer, watchSyncSagas, i, puts \o conflictsEffect(ui, puts), << rest(tasks[i]) >>)
SyncStreamEnds ==
  \E i \in Channels :
    Ended(i) /\ Take(syncReducer, watchSyncSagas, i, << [type |-> "EVENT_STREAM_DISCONNECTED"] >>, << >>)

SyncDropped == \E i \in InState("call") \ Running("listSyncConflicts") : Unreached(i)
SyncNext ==
  \/ PairingOpened \/ PairingClosed \/ StatusRetried \/ PairingRetried \/ AcceptPressed
  \/ DeviceConnects \/ DeviceAsks
  \/ SyncAnswers \/ SyncResumes \/ ConflictsShown \/ ConsumeSyncEvent \/ SyncStreamEnds
  \/ Socket \/ SyncDropped

(***************************************************************************)
(* Properties.                                                             *)
(***************************************************************************)
SyncTypeOK ==
  /\ ui.pendingDevices \subseteq SyncDevices /\ ui.accepting \subseteq SyncDevices
  /\ \A st \in ui.status : st.connected \subseteq st.known
  /\ Cardinality(Running("loadStatusSaga")) <= 1 /\ Cardinality(Running("listSyncConflicts")) <= 1

SyncQuiet == \A i \in DOMAIN tasks : i \in Channels /\ tasks[i].ans = << >>

\* With nothing under way, lost or missed, a device the status lists is shown connected
\* exactly when Syncthing is connected to it, although events crossed the loads.
SyncShown ==
  SyncQuiet /\ ~drift /\ ~broken =>
    \A st \in ui.status : st.connected = srv.connected \cap st.known

\* A device whose request reached the user interface stays listed until it is accepted.
PendingIsListed == ui.told \subseteq ui.pendingDevices \cup srv.known

\* No busy mark of the page or the panel outlives the request it stands for, but for the
\* spinner of a load that was answered with null, about which nothing is put.
SyncSpinnersEnd ==
  /\ ui.isLoadingStatus => Running("loadStatusSaga") # {} \/ "loadStatusSaga" \in srv.down
  /\ ui.isLoadingPairing => Running("loadPairingSaga") # {} \/ "loadPairingSaga" \in srv.down
  /\ ui.accepting # {} => \E i \in Running("acceptDeviceSaga") : tasks[i].live

\* The same without the exception.
SyncLoadsEnd == SyncQuiet => ~ui.isLoadingStatus /\ ~ui.isLoadingPairing

\* The page that is open listens, as long as no socket broke.
PageListens == ~broken => Running("syncEventStreamSaga") # {}

\* "Live" is shown exactly when a stream runs.
LiveIsTrue == ui.streamConnected <=> Running("syncEventStreamSaga") # {}

\* With nothing under way and nothing lost, a device that was accepted is no longer pending.
AcceptedIsNotPending == SyncQuiet /\ ~broken => ui.pendingDevices \cap srv.known = {}

\* The conflict files of the shared folder are shown once they were listed.
ConflictFilesAreShown == SyncQuiet /\ ui.host = "conflicts" /\ ui.status # {} => ui.files = srv.conflicts
============================================================================
