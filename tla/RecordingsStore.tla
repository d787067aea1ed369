---------------------------- MODULE RecordingsStore ----------------------------
(* The recording slice: the list on the home page, its live transcripts and *)
(* the import on the dashboard, against the recording queries and mutations *)
(* of the backend and its stream of partial texts.  A recording is its      *)
(* status; of a partial text only that there is one is kept.                *)
EXTENDS Sagas, FiniteSets

CONSTANTS
  RecordingIds,                 \* the recordings there can be
  OldRecordings                 \* those stored at the start: their capture is running

RecordingNew == "New"            \* being captured, or imported and not transcribed yet
Transcribed == "Transcribed"

\* `home` and `shownLive` are React's: whether HomeList is mounted and which of its rows have
\* a mounted LiveTranscript; prevDeletingIds is a ref of HomeList; opening are the
\* pending openNoteResolutions of the ui slice.
initialRecordingState ==
  [recordings |-> << >>, isLoading |-> FALSE, isBackendUnavailable |-> FALSE, error |-> FALSE, deletingIds |-> {},
   isUploading |-> FALSE, lastUploadError |-> FALSE, livePartials |-> {},
   home |-> FALSE, shownLive |-> {}, prevDeletingIds |-> {}, opening |-> {}]
RecordingAction ==
  {"LOAD_RECORDINGS", "LOAD_RECORDINGS_SUCCESS", "LOAD_RECORDINGS_FAILURE", "LOAD_RECORDINGS_UNAVAILABLE", "DELETE_RECORDING",
   "DELETE_RECORDING_SUCCESS", "DELETE_RECORDING_FAILURE", "UPLOAD_RECORDINGS_REQUESTED", "UPLOAD_RECORDINGS_SUCCESS",
   "UPLOAD_RECORDINGS_FAILURE", "IMPORT_RECORDINGS_REQUESTED", "IMPORT_RECORDINGS_SUCCESS", "IMPORT_RECORDINGS_FAILURE",
   "LIVE_TRANSCRIPT_SUBSCRIBE", "LIVE_TRANSCRIPT_UNSUBSCRIBE", "LIVE_TRANSCRIPT_PARTIAL", "LIVE_TRANSCRIPT_CLEARED",
   "OPEN_NOTE_REQUESTED"}

recordingReducer(s, a) ==
  CASE a.type = "LOAD_RECORDINGS" -> [s EXCEPT !.isLoading = TRUE, !.error = FALSE, !.isBackendUnavailable = FALSE]
    [] a.type = "LOAD_RECORDINGS_SUCCESS" ->
         [s EXCEPT !.recordings = a.recordings, !.isLoading = FALSE, !.error = FALSE, !.isBackendUnavailable = FALSE]
    [] a.type = "LOAD_RECORDINGS_FAILURE" -> [s EXCEPT !.isLoading = FALSE, !.error = TRUE, !.isBackendUnavailable = FALSE]
    [] a.type = "LOAD_RECORDINGS_UNAVAILABLE" ->
         [s EXCEPT !.isLoading = FALSE, !.error = FALSE, !.isBackendUnavailable = TRUE, !.recordings = << >>]
    [] a.type = "DELETE_RECORDING" -> [s EXCEPT !.deletingIds = @ \cup {a.id}]
    [] a.type = "DELETE_RECORDING_SUCCESS" ->
         [s EXCEPT !.recordings = [r \in DOMAIN @ \ {a.id} |-> @[r]], !.deletingIds = @ \ {a.id}]
    [] a.type = "DELETE_RECORDING_FAILURE" -> [s EXCEPT !.deletingIds = @ \ {a.id}, !.error = TRUE]
    [] a.type \in {"UPLOAD_RECORDINGS_REQUESTED", "IMPORT_RECORDINGS_REQUESTED"} ->
         [s EXCEPT !.isUploading = TRUE, !.lastUploadError = FALSE]
    [] a.type \in {"UPLOAD_RECORDINGS_SUCCESS", "IMPORT_RECORDINGS_SUCCESS"} ->
         [s EXCEPT !.isUploading = FALSE, !.lastUploadError = FALSE]
    [] a.type \in {"UPLOAD_RECORDINGS_FAILURE", "IMPORT_RECORDINGS_FAILURE"} ->
         [s EXCEPT !.isUploading = FALSE, !.lastUploadError = TRUE]
    [] a.type = "LIVE_TRANSCRIPT_PARTIAL" -> [s EXCEPT !.livePartials = @ \cup {a.id}]
    [] a.type = "LIVE_TRANSCRIPT_CLEARED" -> [s EXCEPT !.livePartials = @ \ {a.id}]
    [] OTHER -> s
\* The ui slice.  The root saga forks no watcher of it: nobody resolves the request.
uiReducer(s, a) == IF a.type = "OPEN_NOTE_REQUESTED" THEN [s EXCEPT !.opening = @ \cup {a.id}] ELSE s

\* The saga of a live transcript owns a channel and its consumer, and waits for the
\* action that unsubscribes, also when the socket has ended the channel.
watchRecordingSagas(ts, a) ==
  CASE a.type = "LOAD_RECORDINGS" -> takeLatestQuery(ts, gqlRequest("loadRecordingsSaga", Nothing))
    [] a.type = "DELETE_RECORDING" -> takeEvery(ts, gqlRequest("deleteRecordingSaga", a.id))
    [] a.type = "UPLOAD_RECORDINGS_REQUESTED" -> takeEvery(ts, gqlRequest("uploadRecordingsSaga", Nothing))
    [] a.type = "IMPORT_RECORDINGS_REQUESTED" -> takeEvery(ts, gqlRequest("importRecordingsSaga", Nothing))
    [] a.type = "LIVE_TRANSCRIPT_SUBSCRIBE" -> takeEvery(ts, gqlSubscriptionChannel("liveTranscriptSubscribeSaga", a.id))
    [] a.type = "LIVE_TRANSCRIPT_UNSUBSCRIBE" ->
         SelectSeq(ts, LAMBDA t : t.saga # "liveTranscriptSubscribeSaga" \/ t.arg # a.id)
    [] OTHER -> ts

(***************************************************************************)
(* The sagas.                                                              *)
(***************************************************************************)
\* isBackendDown: a refused connection, and not an error that the backend answered.
loadRecordingsSaga(t, isBackendDown) ==
  CASE t.ok -> << [type |-> "LOAD_RECORDINGS_SUCCESS", recordings |-> t.ans] >>
    [] ~t.ok /\ isBackendDown -> << [type |-> "LOAD_RECORDINGS_UNAVAILABLE"] >>
    [] OTHER -> << [type |-> "LOAD_RECORDINGS_FAILURE"] >>
deleteRecordingSaga(t) ==
  << [type |-> IF t.ok THEN "DELETE_RECORDING_SUCCESS" ELSE "DELETE_RECORDING_FAILURE", id |-> t.arg] >>
uploadRecordingsSaga(t) ==
  IF t.ok THEN << [type |-> "UPLOAD_RECORDINGS_SUCCESS"], [type |-> "LOAD_RECORDINGS"] >>
          ELSE << [type |-> "UPLOAD_RECORDINGS_FAILURE"] >>
importRecordingsSaga(t) ==
  IF t.ok THEN << [type |-> "IMPORT_RECORDINGS_SUCCESS"], [type |-> "LOAD_RECORDINGS"] >>
          ELSE << [type |-> "IMPORT_RECORDINGS_FAILURE"] >>
consumeLivePartials(t) == << [type |-> "LIVE_TRANSCRIPT_PARTIAL", id |-> t.arg] >>
recordingPuts(t, isBackendDown) ==
  CASE t.saga = "loadRecordingsSaga" -> loadRecordingsSaga(t, isBackendDown)
    [] t.saga = "deleteRecordingSaga" -> deleteRecordingSaga(t)
    [] t.saga = "uploadRecordingsSaga" -> uploadRecordingsSaga(t)
    [] t.saga = "importRecordingsSaga" -> importRecordingsSaga(t)

(***************************************************************************)
(* The backend: srv.stored maps the recordings to their status.            *)
(***************************************************************************)
RecordingsInit(budget) ==
  SagaInit(initialRecordingState,
           [stored |-> [r \in OldRecordings |-> RecordingNew], fresh |-> RecordingIds \ OldRecordings], budget)

Recordings(i) == tasks[i].saga = "loadRecordingsSaga" /\ Answer(i, srv, srv.stored)
DeleteRecording(i) ==
  /\ tasks[i].saga = "deleteRecordingSaga"
  /\ Answer(i, [srv EXCEPT !.stored = [r \in DOMAIN @ \ {tasks[i].arg} |-> @[r]]], Nothing)
\* The files are imported one after the other; an empty one gives no recording, and a missing
\* or unknown one stops the import with an error in the payload, which nobody looks at.
Imported(i, new) ==
  AnswerTelling(i, [stored |-> [r \in new |-> RecordingNew] @@ srv.stored, fresh |-> srv.fresh \ new], Nothing, FALSE)
UploadRecordings(i) == tasks[i].saga = "uploadRecordingsSaga" /\ \E new \in SUBSET srv.fresh : Imported(i, new)
ImportRecordings(i) == tasks[i].saga = "importRecordingsSaga" /\ \E new \in SUBSET srv.fresh : Imported(i, new)
\* A capture ends (StopRecording) or the worker has transcribed: the recording is new no more.
Transcription ==
  \E r \in DOMAIN srv.stored : srv.stored[r] = RecordingNew /\ Outside([srv EXCEPT !.stored[r] = Transcribed])
\* A partial text of a running capture; a channel holds at most one that its consumer has not taken.
RecordingPartials ==
  \E i \in InState("open") :
    /\ tasks[i].ok /\ tasks[i].ans = << >>
    /\ tasks[i].arg \in DOMAIN srv.stored \cap OldRecordings /\ srv.stored[tasks[i].arg] = RecordingNew
    /\ Broadcast(tasks, srv, LAMBDA t : t.arg = tasks[i].arg, Nothing)

(***************************************************************************)
(* The pages.                                                              *)
(***************************************************************************)
RecordingsDo(a) == Dispatch(recordingReducer, watchRecordingSagas, a)
\* The home page is opened: its list is mounted and loads, as the recording list does and as
\* the event of a finished recording asks it to.
HomeOpened ==
  DispatchAll(LAMBDA s, a : [recordingReducer(s, a) EXCEPT !.home = TRUE], watchRecordingSagas, << [type |-> "LOAD_RECORDINGS"] >>)
RecordingList == RecordingsDo([type |-> "LOAD_RECORDINGS"])
HomeLeft ==
  LET unsubscribed == SetToSeq({[type |-> type, id |-> r] : type \in {"LIVE_TRANSCRIPT_UNSUBSCRIBE", "LIVE_TRANSCRIPT_CLEARED"},
                                                            r \in ui.shownLive})
  IN  /\ ui.home /\ unsubscribed # << >>
      /\ DispatchAll(LAMBDA s, a : [recordingReducer(s, a) EXCEPT !.home = FALSE, !.shownLive = {}, !.prevDeletingIds = {}],
                     watchRecordingSagas, unsubscribed)
DeletePressed ==
  ui.home /\ \E r \in DOMAIN ui.recordings \ ui.deletingIds : RecordingsDo([type |-> "DELETE_RECORDING", id |-> r])
\* The note of a recording whose job is done; its button is disabled while it opens.
openNote ==
  ui.home /\ \E r \in DOMAIN ui.recordings \ ui.opening :
    /\ ui.recordings[r] = Transcribed
    /\ Dispatch(uiReducer, watchRecordingSagas, [type |-> "OPEN_NOTE_REQUESTED", id |-> r])
\* The files dropped on the dashboard, and those picked in a dialog.
onDrop == RecordingsDo([type |-> "UPLOAD_RECORDINGS_REQUESTED"])
pickViaDialog == ~ui.isUploading /\ RecordingsDo([type |-> "IMPORT_RECORDINGS_REQUESTED"])

\* The effects of React, which it runs with the render, before anything else happens: a row that
\* is new subscribes, and unsubscribes when it goes.
ShowsLive == IF ui.home THEN {r \in DOMAIN ui.recordings : ui.recordings[r] = RecordingNew} ELSE {}
LiveTranscript ==
  \/ \E r \in ShowsLive \ ui.shownLive :
       Effect(LAMBDA s, a : [recordingReducer(s, a) EXCEPT !.shownLive = @ \cup {r}], watchRecordingSagas,
              << [type |-> "LIVE_TRANSCRIPT_SUBSCRIBE", id |-> r] >>)
  \/ \E r \in ui.shownLive \ ShowsLive :
       Effect(LAMBDA s, a : [recordingReducer(s, a) EXCEPT !.shownLive = @ \ {r}], watchRecordingSagas,
              << [type |-> "LIVE_TRANSCRIPT_UNSUBSCRIBE", id |-> r], [type |-> "LIVE_TRANSCRIPT_CLEARED", id |-> r] >>)
\* The toast for a recording that is being deleted no longer, and is not listed.
DeletedToast ==
  LET deleted == (ui.prevDeletingIds \ ui.deletingIds) \ DOMAIN ui.recordings
  IN  /\ ui.home /\ ui.prevDeletingIds # ui.deletingIds
      /\ ui' = [ui EXCEPT !.prevDeletingIds = ui.deletingIds]
      /\ IF deleted = {} THEN toast' = NoToast ELSE \E r \in deleted : toast' = [kind |-> "deleted", key |-> r]
      /\ UNCHANGED <<tasks, srv, drift, broken, moves>>

RecordingAnswers ==
  \E i \in InState("call") : Recordings(i) \/ DeleteRecording(i) \/ UploadRecordings(i) \/ ImportRecordings(i)
RecordingResumes ==
  \E i \in InState("back"), down \in BOOLEAN :
    Resume(recordingReducer, watchRecordingSagas, i, recordingPuts(tasks[i], down), << >>, tasks[i].saga = "loadRecordingsSaga")
RecordingConsume ==
  \E i \in DOMAIN tasks : Buffered(i)
    /\ Take(recordingReducer, watchRecordingSagas, i, consumeLivePartials(tasks[i]), << rest(tasks[i]) >>)
RecordingsNext ==
  \/ LiveTranscript \/ DeletedToast
  \/ /\ ui.shownLive = ShowsLive /\ (ui.home => ui.prevDeletingIds = ui.deletingIds)
     /\ \/ HomeOpened \/ RecordingList \/ HomeLeft \/ DeletePressed \/ openNote \/ onDrop \/ pickViaDialog \/ Transcription
        \/ RecordingPartials \/ RecordingAnswers \/ RecordingResumes \/ RecordingConsume \/ Socket \/ Dropped

(***************************************************************************)
(* Properties.                                                             *)
(***************************************************************************)
RecordingsTypeOK ==
  /\ \A r \in DOMAIN ui.recordings : r \in RecordingIds /\ ui.recordings[r] \in {RecordingNew, Transcribed}
  /\ {ui.isLoading, ui.isBackendUnavailable, ui.error, ui.isUploading, ui.lastUploadError, ui.home} \subseteq BOOLEAN
  /\ ui.deletingIds \cup ui.livePartials \cup ui.shownLive \cup ui.prevDeletingIds \subseteq RecordingIds
  /\ \A i \in InState("back") : \A k \in DOMAIN recordingPuts(tasks[i], TRUE) :
       recordingPuts(tasks[i], TRUE)[k].type \in RecordingAction

\* Only the sagas of live transcripts are left, no answer was lost or overtaken and no error
\* is shown: the list is the stored recordings, each with its status.
RecordingsShown ==
  DOMAIN tasks = Running("liveTranscriptSubscribeSaga") /\ ~drift /\ ~ui.error /\ ~ui.isBackendUnavailable
    => ui.recordings = srv.stored

\* A partial text is kept only while the saga that follows its recording runs: none is left
\* behind by a page that was closed or a row that went.
PartialsBelong == \A r \in ui.livePartials : \E i \in Running("liveTranscriptSubscribeSaga") : tasks[i].arg = r
\* A recording is followed by at most one saga, whatever loads and navigations came between.
FollowedOnce ==
  \A i, k \in Running("liveTranscriptSubscribeSaga") : tasks[i].arg = tasks[k].arg => i = k

\* A busy mark is set only while a saga that will clear it runs.
RecordingsSpinnersEnd ==
  /\ ui.isLoading => Running("loadRecordingsSaga") # {}
  /\ \A r \in ui.deletingIds : \E i \in Running("deleteRecordingSaga") : tasks[i].arg = r
  /\ ui.isUploading => Running("uploadRecordingsSaga") \cup Running("importRecordingsSaga") # {}
\* While files are imported, the button says so.
UploadingShown == Running("uploadRecordingsSaga") \cup Running("importRecordingsSaga") # {} => ui.isUploading
\* The button that opens a note waits only while a saga looks the note up.
OpenNoteEnds == ui.opening # {} => Running("openNoteSaga") # {}
\* The toast that a recording was deleted is true.
DeletedIsGone == toast.kind = "deleted" => toast.key \notin DOMAIN srv.stored
==============================================================================
