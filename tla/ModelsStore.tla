----------------------------- MODULE ModelsStore -----------------------------
(* The models slice: the model catalogue, the downloads drawer and the      *)
(* progress subscription of each download, against the stream the download  *)
(* coordinator serves.  The downloads themselves are the module             *)
(* ModelDownloads; here each one only moves through its states and emits    *)
(* them.  The number of bytes is left out.                                  *)
EXTENDS Sagas, FiniteSets

CONSTANTS
  CatalogueIds,                   \* the models of the catalogue
  DownloadIds,                    \* the downloads there can be
  OldDownloads,                   \* those that were running when the user interface started
  DownloadNone,
  MaxUnread                       \* bound: progress a channel holds that its consumer has not taken

Active == {"Queued", "Downloading", "Finalizing"}
TERMINAL_STATES == {"Completed", "Failed", "Cancelled"}

initialModelsState ==
  [byId |-> << >>, isLoading |-> FALSE, isLoadingActiveDownloads |-> FALSE, requestingDownloadId |-> DownloadNone,
   cancellingDownloadId |-> DownloadNone, activeDownloads |-> << >>, activeDownloadList |-> << >>,
   isDownloadsDrawerOpen |-> FALSE, highlightedDownloadId |-> DownloadNone]
ModelsAction ==
  {"LOAD_MODELS", "LOAD_MODELS_SUCCESS", "LOAD_MODELS_FAILURE", "LOAD_ACTIVE_DOWNLOADS", "LOAD_ACTIVE_DOWNLOADS_SUCCESS",
   "LOAD_ACTIVE_DOWNLOADS_FAILURE", "DOWNLOAD_MODEL_REQUESTED", "DOWNLOAD_MODEL_STARTED", "DOWNLOAD_MODEL_REQUEST_FAILED",
   "CANCEL_MODEL_DOWNLOAD_REQUESTED", "CANCEL_MODEL_DOWNLOAD_SUCCESS", "CANCEL_MODEL_DOWNLOAD_FAILURE",
   "SUBSCRIBE_MODEL_DOWNLOAD", "MODEL_DOWNLOAD_PROGRESS", "MODEL_DOWNLOAD_COMPLETED", "OPEN_DOWNLOADS_DRAWER",
   "CLOSE_DOWNLOADS_DRAWER", "SET_HIGHLIGHTED_DOWNLOAD", "CLEAR_HIGHLIGHTED_DOWNLOAD"}
ActiveDownload == [catalogueId : CatalogueIds, state : Active \cup TERMINAL_STATES]

\* The drawer's list maps each download to its entry.  A started download replaces the
\* ended ones of its model, and is listed as queued unless it is there already.
downloadModelStarted(s, c, d) ==
  LET ended == {e \in DOMAIN s.activeDownloadList :
                  s.activeDownloadList[e].catalogueId = c /\ s.activeDownloadList[e].state \in TERMINAL_STATES}
      kept == [e \in DOMAIN s.activeDownloadList \ ended |-> s.activeDownloadList[e]]
  IN  [s EXCEPT !.requestingDownloadId = DownloadNone, !.activeDownloads = (c :> d) @@ @,
                !.activeDownloadList = kept @@ (d :> [catalogueId |-> c, state |-> "Queued"]), !.isDownloadsDrawerOpen = TRUE]
modelDownloadCompleted(s, d) ==
  [s EXCEPT !.activeDownloads = [c \in {x \in DOMAIN @ : @[x] # d} |-> @[c]],
            !.activeDownloadList = [e \in DOMAIN @ \ {d} |-> @[e]]]
modelsReducer(s, a) ==
  CASE a.type = "LOAD_MODELS" -> [s EXCEPT !.isLoading = TRUE]
    [] a.type = "LOAD_MODELS_SUCCESS" -> [s EXCEPT !.isLoading = FALSE, !.byId = a.models]
    [] a.type = "LOAD_MODELS_FAILURE" -> [s EXCEPT !.isLoading = FALSE]
    [] a.type = "LOAD_ACTIVE_DOWNLOADS" -> [s EXCEPT !.isLoadingActiveDownloads = TRUE]
    [] a.type = "LOAD_ACTIVE_DOWNLOADS_SUCCESS" -> [s EXCEPT !.isLoadingActiveDownloads = FALSE, !.activeDownloadList = a.downloads]
    [] a.type = "LOAD_ACTIVE_DOWNLOADS_FAILURE" -> [s EXCEPT !.isLoadingActiveDownloads = FALSE]
    [] a.type = "DOWNLOAD_MODEL_REQUESTED" -> [s EXCEPT !.requestingDownloadId = a.model]
    [] a.type = "DOWNLOAD_MODEL_STARTED" -> downloadModelStarted(s, a.model, a.id)
    [] a.type = "DOWNLOAD_MODEL_REQUEST_FAILED" -> [s EXCEPT !.requestingDownloadId = DownloadNone]
    [] a.type = "CANCEL_MODEL_DOWNLOAD_REQUESTED" -> [s EXCEPT !.cancellingDownloadId = a.id]
    [] a.type \in {"CANCEL_MODEL_DOWNLOAD_SUCCESS", "CANCEL_MODEL_DOWNLOAD_FAILURE"} -> [s EXCEPT !.cancellingDownloadId = DownloadNone]
    [] a.type = "MODEL_DOWNLOAD_PROGRESS" ->
         [s EXCEPT !.activeDownloadList = [d \in DOMAIN @ |-> IF d = a.id THEN [@[d] EXCEPT !.state = a.phase] ELSE @[d]]]
    [] a.type = "MODEL_DOWNLOAD_COMPLETED" -> modelDownloadCompleted(s, a.id)
    [] a.type = "OPEN_DOWNLOADS_DRAWER" -> [s EXCEPT !.isDownloadsDrawerOpen = TRUE]
    [] a.type = "CLOSE_DOWNLOADS_DRAWER" -> [s EXCEPT !.isDownloadsDrawerOpen = FALSE, !.highlightedDownloadId = DownloadNone]
    [] a.type = "SET_HIGHLIGHTED_DOWNLOAD" -> [s EXCEPT !.highlightedDownloadId = a.id]
    [] a.type = "CLEAR_HIGHLIGHTED_DOWNLOAD" -> [s EXCEPT !.highlightedDownloadId = DownloadNone]
    [] OTHER -> s

\* perDownloadSaga makes the channel and forks its consumer; no page unsubscribes.
watchModelsSagas(ts, a) ==
  CASE a.type = "LOAD_MODELS" -> takeLatestQuery(ts, gqlRequest("loadModelsSaga", Nothing))
    [] a.type = "LOAD_ACTIVE_DOWNLOADS" -> takeLatestQuery(ts, gqlRequest("loadActiveDownloadsSaga", Nothing))
    [] a.type = "DOWNLOAD_MODEL_REQUESTED" -> takeEvery(ts, gqlRequest("downloadModelSaga", a.model))
    [] a.type = "CANCEL_MODEL_DOWNLOAD_REQUESTED" -> takeEvery(ts, gqlRequest("cancelModelDownloadSaga", a.id))
    [] a.type = "SUBSCRIBE_MODEL_DOWNLOAD" -> takeEvery(ts, gqlSubscriptionChannel("perDownloadSaga", a.id))
    [] a.type = "SET_HIGHLIGHTED_DOWNLOAD" -> takeLatestQuery(ts, gqlRequest("clearAfterDelay", Nothing))
    [] OTHER -> ts

(***************************************************************************)
(* The sagas.                                                              *)
(***************************************************************************)
loadModelsSaga(t) ==
  IF t.ok THEN << [type |-> "LOAD_MODELS_SUCCESS", models |-> t.ans] >> ELSE << [type |-> "LOAD_MODELS_FAILURE"], notifyError >>
loadActiveDownloadsSaga(t) ==
  IF t.ok THEN << [type |-> "LOAD_ACTIVE_DOWNLOADS_SUCCESS", downloads |-> t.ans] >> ELSE << [type |-> "LOAD_ACTIVE_DOWNLOADS_FAILURE"] >>
downloadModelSaga(t) ==
  IF t.ok /\ t.ans # DownloadNone
  THEN << [type |-> "DOWNLOAD_MODEL_STARTED", model |-> t.arg, id |-> t.ans], [type |-> "SUBSCRIBE_MODEL_DOWNLOAD", id |-> t.ans] >>
  ELSE << [type |-> "DOWNLOAD_MODEL_REQUEST_FAILED"], notifyError >>
cancelModelDownloadSaga(t) ==
  IF t.ok /\ t.ans # DownloadNone THEN << [type |-> "CANCEL_MODEL_DOWNLOAD_SUCCESS"] >>
                                  ELSE << [type |-> "CANCEL_MODEL_DOWNLOAD_FAILURE"], notifyError >>
clearAfterDelay(t) == << [type |-> "CLEAR_HIGHLIGHTED_DOWNLOAD"] >>
\* After a terminal event the entry lingers, unless it failed.
lingering(t) == << [type |-> "MODEL_DOWNLOAD_COMPLETED", id |-> t.arg] >>
modelsPuts(t) ==
  CASE t.saga = "loadModelsSaga" -> loadModelsSaga(t)
    [] t.saga = "loadActiveDownloadsSaga" -> loadActiveDownloadsSaga(t)
    [] t.saga = "downloadModelSaga" -> downloadModelSaga(t)
    [] t.saga = "cancelModelDownloadSaga" -> cancelModelDownloadSaga(t)
    [] t.saga = "clearAfterDelay" -> clearAfterDelay(t)
    [] t.saga = "lingering" -> lingering(t)

\* What the consumer puts for an event, and what becomes of it.
consumeProgress(t) ==
  LET phase == Head(t.ans)
  IN  << [type |-> "MODEL_DOWNLOAD_PROGRESS", id |-> t.arg, phase |-> phase] >>
      \o (IF phase \in TERMINAL_STATES THEN << [type |-> "LOAD_MODELS"] >> ELSE << >>)
      \o (IF phase = "Cancelled" THEN << notifySuccess("downloads.cancelledToast") >> ELSE << >>)
\* Mutant: the consumer ends with the download, and nobody takes its entry away.
consumerEnds(t) == IF Head(t.ans) \in Active THEN << rest(t) >> ELSE << >>
\* What follows the last event.  (The coordinator sends an error with Failed only, so that
\* the saga's second way out, an event with an error, adds nothing.)
consumerNext(t) ==
  CASE Head(t.ans) \in Active -> << rest(t) >>
    [] Head(t.ans) \in {"Cancelled", "Completed"} -> << gqlRequest("lingering", t.arg) >>
    [] OTHER -> << >>

(***************************************************************************)
(* The coordinator: a download's state, the last progress it emitted (the  *)
(* snapshot a new reader gets), and the queue its readers share.  Ghosts:  *)
(* joined, the downloads a second request was answered with.               *)
(***************************************************************************)
NewDownload(c) == [catalogueId |-> c, state |-> "Queued", queue |-> << "Queued" >>, cancelled |-> FALSE]
OldJobs == [d \in OldDownloads |-> [NewDownload(CHOOSE c \in CatalogueIds : TRUE) EXCEPT !.state = "Downloading", !.queue = << >>]]
\* The application and the models page are mounted, and their two loads have been answered.
ModelsInit(budget) ==
  SagaStart([initialModelsState EXCEPT !.byId = [c \in CatalogueIds |-> FALSE],
               !.activeDownloadList = [d \in OldDownloads |-> [catalogueId |-> OldJobs[d].catalogueId, state |-> "Downloading"]]],
            [jobs |-> OldJobs, installed |-> {}, joined |-> {}], << >>, FALSE, budget)

Becomes(d, state) == [srv EXCEPT !.jobs[d].state = state, !.jobs[d].queue = Append(@, state)]
\* A state is stored and emitted in one step; nothing but the reader of the queue hears of it.
Moves(sv) ==
  /\ srv' = sv
  /\ tasks' = Overtaken(tasks)
  /\ UNCHANGED <<ui, toast, drift, broken, moves>>
RunJobAsync(d) ==
  LET job == srv.jobs[d]
  IN  \/ job.state = "Queued" /\ Moves(Becomes(d, IF job.cancelled THEN "Cancelled" ELSE "Downloading"))
      \/ job.state = "Downloading" /\ job.cancelled /\ Moves(Becomes(d, "Cancelled"))
      \/ job.state = "Downloading" /\ \E next \in {"Finalizing", "Failed"} : Moves(Becomes(d, next))
      \/ /\ job.state = "Finalizing"
         /\ \/ Moves([Becomes(d, "Completed") EXCEPT !.installed = @ \cup {job.catalogueId}])
            \/ Moves(Becomes(d, "Failed"))

DownloadNow(i) == tasks[i].saga = "downloadModelSaga" /\
  LET c == tasks[i].arg
      current == {d \in DOMAIN srv.jobs : srv.jobs[d].catalogueId = c /\ srv.jobs[d].state \in Active}
      fresh == DownloadIds \ DOMAIN srv.jobs
  IN  CASE c \in srv.installed -> Answer(i, srv, DownloadNone)
        [] c \notin srv.installed /\ current # {} ->
             LET d == CHOOSE x \in current : TRUE IN Answer(i, [srv EXCEPT !.joined = @ \cup {d}], d)
        [] OTHER -> \E d \in fresh : Answer(i, [srv EXCEPT !.jobs = (d :> NewDownload(c)) @@ @], d)
CancelNow(i) == tasks[i].saga = "cancelModelDownloadSaga" /\
  LET d == tasks[i].arg
  IN  IF srv.jobs[d].state = "Finalizing" THEN Answer(i, srv, DownloadNone)
      ELSE Answer(i, IF srv.jobs[d].state \in Active THEN [srv EXCEPT !.jobs[d].cancelled = TRUE] ELSE srv, d)
Models(i) == tasks[i].saga = "loadModelsSaga" /\ Answer(i, srv, [c \in CatalogueIds |-> c \in srv.installed])
ActiveDownloads(i) ==
  /\ tasks[i].saga = "loadActiveDownloadsSaga"
  /\ Answer(i, srv, [d \in {x \in DOMAIN srv.jobs : srv.jobs[x].state \in Active} |->
                       [catalogueId |-> srv.jobs[d].catalogueId, state |-> srv.jobs[d].state]])

\* StreamAsync: a reader first gets the snapshot, then competes for the queue; after a
\* terminal progress, or an empty queue that is complete, its stream is over.
Delivered(i, phase, sv, over) ==
  /\ tasks' = [tasks EXCEPT ![i].pc = "open", ![i].ans = IF phase = Nothing THEN @ ELSE Append(@, phase), ![i].ok = ~over]
  /\ srv' = sv
  /\ UNCHANGED <<ui, toast, drift, broken, moves>>
StreamAsync(i) ==
  LET d == tasks[i].arg
      job == srv.jobs[d]
  IN  /\ tasks[i].ok /\ Len(tasks[i].ans) < MaxUnread
      /\ \/ tasks[i].pc = "dial" /\ Delivered(i, job.state, srv, job.state \in TERMINAL_STATES)
         \/ /\ tasks[i].pc = "open" /\ job.queue # << >>
            /\ Delivered(i, Head(job.queue), [srv EXCEPT !.jobs[d].queue = Tail(@)], Head(job.queue) \in TERMINAL_STATES)
         \/ tasks[i].pc = "open" /\ job.queue = << >> /\ job.state \in TERMINAL_STATES /\ Delivered(i, Nothing, srv, TRUE)

(***************************************************************************)
(* The pages.                                                              *)
(***************************************************************************)
ModelsDo(actions) == DispatchAll(modelsReducer, watchModelsSagas, actions)
CanRequest(c) == Cardinality(Running("downloadModelSaga")) < Cardinality(DownloadIds \ DOMAIN srv.jobs)
ModelsPage ==
  \/ ModelsDo(<< [type |-> "LOAD_MODELS"] >>)
  \/ \E c \in DOMAIN ui.byId : ~ui.byId[c] /\ ui.requestingDownloadId # c /\ CanRequest(c)
                               /\ ModelsDo(<< [type |-> "DOWNLOAD_MODEL_REQUESTED", model |-> c] >>)
  \/ \E c \in DOMAIN ui.activeDownloads :
       ModelsDo(<< [type |-> "SET_HIGHLIGHTED_DOWNLOAD", id |-> ui.activeDownloads[c]], [type |-> "OPEN_DOWNLOADS_DRAWER"] >>)
Layout == ~ui.isDownloadsDrawerOpen /\ ModelsDo(<< [type |-> "OPEN_DOWNLOADS_DRAWER"] >>)
DownloadsDrawer ==
  /\ ui.isDownloadsDrawerOpen
  /\ \/ ModelsDo(<< [type |-> "CLOSE_DOWNLOADS_DRAWER"] >>)
     \/ \E d \in DOMAIN ui.activeDownloadList :
          LET entry == ui.activeDownloadList[d]
          IN  \/ /\ entry.state \in {"Queued", "Downloading"} /\ ui.cancellingDownloadId # d
                 /\ ModelsDo(<< [type |-> "CANCEL_MODEL_DOWNLOAD_REQUESTED", id |-> d] >>)
              \/ /\ entry.state = "Failed" /\ CanRequest(entry.catalogueId)
                 /\ ModelsDo(<< [type |-> "DOWNLOAD_MODEL_REQUESTED", model |-> entry.catalogueId] >>)

Coordinator == \E d \in DOMAIN srv.jobs : RunJobAsync(d)
Streams == \E i \in Channels : StreamAsync(i) \/ Disconnect(i)
Delays == \E i \in Running("clearAfterDelay") \cup Running("lingering") : Elapse(i)
ModelsAnswers == \E i \in InState("call") : Models(i) \/ ActiveDownloads(i) \/ DownloadNow(i) \/ CancelNow(i)
ModelsDropped == \E i \in InState("call") \ (Running("clearAfterDelay") \cup Running("lingering")) : Unreached(i)
ModelsResumes ==
  \E i \in InState("back") :
    Resume(modelsReducer, watchModelsSagas, i, modelsPuts(tasks[i]), << >>, tasks[i].saga = "loadActiveDownloadsSaga")
ModelsConsume ==
  \/ \E i \in DOMAIN tasks : Buffered(i) /\ Take(modelsReducer, watchModelsSagas, i, consumeProgress(tasks[i]), consumerNext(tasks[i]))
  \/ \E i \in DOMAIN tasks : Ended(i) /\ Take(modelsReducer, watchModelsSagas, i, << >>, << >>)
ModelsNext ==
  ModelsPage \/ Layout \/ DownloadsDrawer \/ Coordinator \/ Streams \/ Delays \/ ModelsAnswers \/ ModelsDropped
  \/ ModelsResumes \/ ModelsConsume

(***************************************************************************)
(* Properties.                                                             *)
(***************************************************************************)
ModelsTypeOK ==
  /\ \A c \in DOMAIN ui.byId : c \in CatalogueIds /\ ui.byId[c] \in BOOLEAN
  /\ {ui.isLoading, ui.isLoadingActiveDownloads, ui.isDownloadsDrawerOpen} \subseteq BOOLEAN
  /\ ui.requestingDownloadId \in CatalogueIds \cup {DownloadNone}
  /\ {ui.cancellingDownloadId, ui.highlightedDownloadId} \subseteq DownloadIds \cup {DownloadNone}
  /\ \A c \in DOMAIN ui.activeDownloads : c \in CatalogueIds /\ ui.activeDownloads[c] \in DownloadIds
  /\ \A d \in DOMAIN ui.activeDownloadList : d \in DownloadIds /\ ui.activeDownloadList[d] \in ActiveDownload
  /\ \A i \in InState("back") : \A k \in DOMAIN modelsPuts(tasks[i]) :
       modelsPuts(tasks[i])[k].type \in ModelsAction \cup {"NOTIFY"}

\* An entry of the drawer does not stay as it is for ever: the consumer of its download
\* still runs, or the entry is about to be removed, or it failed; unless the download was
\* running before, was asked for twice, a request or a socket failed, or the list was
\* replaced by an answer older than an event.
Followed(d) ==
  IF ui.activeDownloadList[d].state \in Active
  THEN \/ \E i \in Running("perDownloadSaga") : tasks[i].arg = d
       \/ \E i \in Running("downloadModelSaga") : tasks[i].arg = ui.activeDownloadList[d].catalogueId
  ELSE ui.activeDownloadList[d].state = "Failed" \/ \E i \in Running("lingering") : tasks[i].arg = d
EntriesAreFollowed ==
  ~broken /\ ~drift => \A d \in DOMAIN ui.activeDownloadList : d \notin OldDownloads /\ d \notin srv.joined => Followed(d)
\* The same for the download that was running when the user interface started: it is
\* listed, and nothing subscribes to it.
OldEntryIsFollowed == ~drift => \A d \in DOMAIN ui.activeDownloadList \cap OldDownloads : Followed(d)
\* The same for a download that was asked for again while it ran: its two consumers share
\* the coordinator's queue, and the one that is behind has the last word.
JoinedEntryIsFollowed ==
  ~broken /\ ~drift => \A d \in DOMAIN ui.activeDownloadList : d \in srv.joined => Followed(d)

\* At rest and with no failure, a model that a download of this session installed is shown
\* as installed: the consumer of its last event loads the catalogue again.
InstalledIsShown ==
  Idle /\ ~broken => \A c \in DOMAIN ui.byId : (\A d \in OldDownloads : srv.jobs[d].catalogueId # c) => ui.byId[c] = (c \in srv.installed)

\* A busy mark is set only while a saga that will clear it runs.
ModelsSpinnersEnd ==
  /\ ui.isLoading => Running("loadModelsSaga") # {}
  /\ ui.isLoadingActiveDownloads => Running("loadActiveDownloadsSaga") # {}
  /\ ui.requestingDownloadId # DownloadNone => Running("downloadModelSaga") # {}
  /\ ui.cancellingDownloadId # DownloadNone => Running("cancelModelDownloadSaga") # {}
  /\ ui.highlightedDownloadId # DownloadNone => Running("clearAfterDelay") # {}
=============================================================================
