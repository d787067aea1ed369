------------------------------ MODULE AskStore ------------------------------
(* The ask slice with its page, and the reindexing that the command palette *)
(* offers on every page: what the answers are found in.  The chat of the    *)
(* rag slice is dispatched by no page and is left out.                      *)
EXTENDS Sagas, FiniteSets

CONSTANTS
  Questions,                      \* what the user may ask
  MaxEdits                        \* bound: edits of the notes

\* A question with its answer: two messages of the list, added and changed together.
AskMessage == [question : Questions, state : {"pending", "done", "error"}, answer : Questions \cup {Nothing}]
initialAskState == [messages |-> << >>, isAsking |-> FALSE, error |-> FALSE]
AskAction == {"SUBMIT_ASK", "ASK_PENDING", "ASK_SUCCESS", "ASK_FAILURE"}
askReducer(s, a) ==
  CASE a.type = "SUBMIT_ASK" -> [s EXCEPT !.isAsking = TRUE, !.error = FALSE]
    [] a.type = "ASK_PENDING" ->
         [s EXCEPT !.messages = Append(@, [question |-> a.question, state |-> "pending", answer |-> Nothing])]
    [] a.type = "ASK_SUCCESS" ->
         [s EXCEPT !.isAsking = FALSE, !.error = FALSE, !.messages[a.id].state = "done", !.messages[a.id].answer = a.answer]
    [] a.type = "ASK_FAILURE" -> [s EXCEPT !.isAsking = FALSE, !.error = TRUE, !.messages[a.id].state = "error"]
    [] OTHER -> s

\* Of the rag slice: the status is what the backend counts, notes and chunks.
NoStatus == [notes |-> 0, chunks |-> 0]
initialRagState == [status |-> NoStatus, isLoadingStatus |-> FALSE, isReindexing |-> FALSE, lastReindexCount |-> 0]
RagAction ==
  {"LOAD_RAG_STATUS", "LOAD_RAG_STATUS_SUCCESS", "LOAD_RAG_STATUS_FAILURE", "REINDEX_RAG", "REINDEX_RAG_SUCCESS",
   "REINDEX_RAG_FAILURE"}
ragReducer(s, a) ==
  CASE a.type = "LOAD_RAG_STATUS" -> [s EXCEPT !.isLoadingStatus = TRUE]
    [] a.type = "LOAD_RAG_STATUS_SUCCESS" -> [s EXCEPT !.isLoadingStatus = FALSE, !.status = a.status]
    [] a.type = "LOAD_RAG_STATUS_FAILURE" -> [s EXCEPT !.isLoadingStatus = FALSE]
    [] a.type = "REINDEX_RAG" -> [s EXCEPT !.isReindexing = TRUE]
    [] a.type = "REINDEX_RAG_SUCCESS" ->
         [s EXCEPT !.isReindexing = FALSE, !.lastReindexCount = a.count,
                   !.status = IF @ = NoStatus THEN @ ELSE [@ EXCEPT !.notes = a.count]]
    [] a.type = "REINDEX_RAG_FAILURE" -> [s EXCEPT !.isReindexing = FALSE]
    [] OTHER -> s
askShown(s, a) == [s EXCEPT !.ask = askReducer(@, a), !.rag = ragReducer(@, a)]

\* submitAskSaga puts its pending message, whose identity it keeps, before it asks.
watchAskSagas(ts, a) ==
  CASE a.type = "ASK_PENDING" -> takeLatestQuery(ts, gqlRequest("submitAskSaga", [id |-> a.id, question |-> a.question]))
    [] a.type = "LOAD_RAG_STATUS" -> takeLatestQuery(ts, gqlRequest("loadRagStatusSaga", Nothing))
    [] a.type = "REINDEX_RAG" -> takeLatest(ts, gqlRequest("reindexRagSaga", Nothing))
    [] OTHER -> ts

submitAskSaga(t) ==
  << IF t.ok THEN [type |-> "ASK_SUCCESS", id |-> t.arg.id, answer |-> t.ans] ELSE [type |-> "ASK_FAILURE", id |-> t.arg.id] >>
loadRagStatusSaga(t) ==
  << IF t.ok THEN [type |-> "LOAD_RAG_STATUS_SUCCESS", status |-> t.ans] ELSE [type |-> "LOAD_RAG_STATUS_FAILURE"] >>
\* The payload's errors are not looked at: a reindexing that failed is announced with no note.
reindexRagSaga(t) ==
  IF t.ok THEN << [type |-> "REINDEX_RAG_SUCCESS", count |-> t.ans], notifySuccess("rag.reindexedToast"), [type |-> "LOAD_RAG_STATUS"] >>
          ELSE << [type |-> "REINDEX_RAG_FAILURE"], notifyError >>
askPuts(t) ==
  CASE t.saga = "submitAskSaga" -> submitAskSaga(t)
    [] t.saga = "loadRagStatusSaga" -> loadRagStatusSaga(t)
    [] t.saga = "reindexRagSaga" -> reindexRagSaga(t)

(***************************************************************************)
(* The backend: one note, in a version, and the version that the vector    *)
(* index has of it.                                                        *)
(***************************************************************************)
UnifiedSearch(i) == tasks[i].saga = "submitAskSaga" /\ Answer(i, srv, tasks[i].arg.question)
\* The status counts the notes there are, not those that are embedded.
RagStatus(i) ==
  tasks[i].saga = "loadRagStatusSaga" /\ Answer(i, srv, [notes |-> 1, chunks |-> IF srv.indexed = 0 THEN 0 ELSE 1])
\* The notes are read first and embedded one after the other, or the embedding fails on the way,
\* when the note's old chunks are removed already.
RagReindex(i) ==
  /\ tasks[i].saga = "reindexRagSaga"
  /\ \/ Halfway(i, srv, srv.version)
     \/ /\ tasks[i].pc = "half"
        /\ \/ Answer(i, [srv EXCEPT !.indexed = tasks[i].ans], 1)
           \/ Answer(i, [srv EXCEPT !.indexed = 0], 0)
NoteEdited == srv.version <= MaxEdits /\ Outside([srv EXCEPT !.version = @ + 1])

AskInit(budget) ==
  SagaInit([ask |-> initialAskState, rag |-> initialRagState], [version |-> 1, indexed |-> 0], budget)

(***************************************************************************)
(* The page, and the palette.                                              *)
(***************************************************************************)
\* One question at a time, and not an empty one.
submit(q) ==
  /\ ~ui.ask.isAsking
  /\ DispatchAll(askShown, watchAskSagas,
       << [type |-> "SUBMIT_ASK"], [type |-> "ASK_PENDING", id |-> Len(ui.ask.messages) + 1, question |-> q] >>)
\* The palette's action has no busy mark: it can be chosen again while the index is built.
quickReindexRag == Dispatch(askShown, watchAskSagas, [type |-> "REINDEX_RAG"])

AskAnswers == \E i \in InFlight : (tasks[i].pc = "call" /\ (UnifiedSearch(i) \/ RagStatus(i))) \/ RagReindex(i)
AskResumes ==
  \E i \in InState("back") :
    Resume(askShown, watchAskSagas, i, askPuts(tasks[i]), << >>, tasks[i].saga = "loadRagStatusSaga")
AskNext ==
  (\E q \in Questions : submit(q)) \/ quickReindexRag \/ NoteEdited \/ AskAnswers \/ Dropped \/ AskResumes

(***************************************************************************)
(* Properties.                                                             *)
(***************************************************************************)
AskTypeOK ==
  /\ Range(ui.ask.messages) \subseteq AskMessage /\ ui.ask.isAsking \in BOOLEAN
  /\ ui.rag.status \in [notes : 0..1, chunks : 0..1] /\ ui.rag.lastReindexCount \in 0..1
  /\ \A i \in InState("back") : \A k \in DOMAIN askPuts(tasks[i]) :
       askPuts(tasks[i])[k].type \in AskAction \cup RagAction \cup {"NOTIFY"}

\* Each answer stands under its own question, whatever else was asked or indexed meanwhile.
AnswersBelong ==
  \A k \in DOMAIN ui.ask.messages :
    LET m == ui.ask.messages[k] IN m.answer = IF m.state = "done" THEN m.question ELSE Nothing

\* The typing dots, the disabled input and the busy marks of the index last no longer than their sagas.
AskSpinnersEnd ==
  /\ ui.ask.isAsking => Running("submitAskSaga") # {}
  /\ \A k \in DOMAIN ui.ask.messages :
       ui.ask.messages[k].state = "pending" => \E i \in Running("submitAskSaga") : tasks[i].arg.id = k
  /\ ui.rag.isReindexing => \E i \in Running("reindexRagSaga") : tasks[i].live
  /\ ui.rag.isLoadingStatus => Running("loadRagStatusSaga") # {}

\* A reindexing that is announced has indexed the notes.
AnnouncedIsIndexed == toast.key = "rag.reindexedToast" => ui.rag.lastReindexCount > 0
\* What was indexed is never replaced by an older version of the note (of a step).
IndexMovesOn == srv'.indexed = 0 \/ srv'.indexed >= srv.indexed
=============================================================================
