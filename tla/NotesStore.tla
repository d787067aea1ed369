----------------------------- MODULE NotesStore -----------------------------
(* The notes slice of the store, its sagas, and the two pages that use it  *)
(* (NotesList, NoteViewer), against the note queries and mutations of the  *)
(* backend.  A note's copy in the UI is what can change of it: whether it  *)
(* was exported to the vault.                                              *)
EXTENDS Sagas, FiniteSets

CONSTANTS NoteIds, OldNotes       \* the notes there can be, and those stored at the start

NoteNull == "null"                \* a payload without a note

initialNotesState ==
  [byId |-> << >>, isLoadingList |-> FALSE, isSubmitting |-> FALSE, deletingIds |-> {}, exportingIds |-> {}]
NotesAction ==
  {"LOAD_NOTES", "LOAD_NOTES_SUCCESS", "LOAD_NOTES_FAILURE", "LOAD_NOTE", "LOAD_NOTE_SUCCESS",
   "LOAD_NOTE_FAILURE", "DELETE_NOTE", "DELETE_NOTE_SUCCESS", "DELETE_NOTE_FAILURE", "CREATE_NOTE",
   "CREATE_NOTE_SUCCESS", "CREATE_NOTE_FAILURE", "EXPORT_NOTE", "EXPORT_NOTE_SUCCESS", "EXPORT_NOTE_FAILURE"}

notesReducer(s, a) ==
  CASE a.type = "LOAD_NOTES" -> [s EXCEPT !.isLoadingList = TRUE]
    [] a.type = "LOAD_NOTES_SUCCESS" -> [s EXCEPT !.byId = a.notes, !.isLoadingList = FALSE]
    [] a.type = "LOAD_NOTES_FAILURE" -> [s EXCEPT !.isLoadingList = FALSE]
    [] a.type = "LOAD_NOTE_SUCCESS" -> [s EXCEPT !.byId = (a.id :> a.note) @@ @]
    [] a.type = "DELETE_NOTE" -> [s EXCEPT !.deletingIds = @ \cup {a.id}]
    [] a.type = "DELETE_NOTE_SUCCESS" ->
         [s EXCEPT !.byId = [n \in DOMAIN @ \ {a.id} |-> @[n]], !.deletingIds = @ \ {a.id}]
    [] a.type = "DELETE_NOTE_FAILURE" -> [s EXCEPT !.deletingIds = @ \ {a.id}]
    [] a.type = "CREATE_NOTE" -> [s EXCEPT !.isSubmitting = TRUE]
    [] a.type = "CREATE_NOTE_SUCCESS" -> [s EXCEPT !.byId = (a.id :> a.note) @@ @, !.isSubmitting = FALSE]
    [] a.type = "CREATE_NOTE_FAILURE" -> [s EXCEPT !.isSubmitting = FALSE]
    [] a.type = "EXPORT_NOTE" -> [s EXCEPT !.exportingIds = @ \cup {a.id}]
    [] a.type = "EXPORT_NOTE_SUCCESS" ->
         [s EXCEPT !.byId = (a.id :> a.note) @@ @, !.exportingIds = @ \ {a.id}]
    [] a.type = "EXPORT_NOTE_FAILURE" -> [s EXCEPT !.exportingIds = @ \ {a.id}]
    [] OTHER -> s

watchNotesSagas(ts, a) ==
  CASE a.type = "LOAD_NOTES" -> takeLatestQuery(ts, gqlRequest("loadNotesSaga", Nothing))
    [] a.type = "LOAD_NOTE" -> takeEvery(ts, gqlRequest("loadNoteSaga", a.id))
    [] a.type = "DELETE_NOTE" -> takeEvery(ts, gqlRequest("deleteNoteSaga", a.id))
    [] a.type = "CREATE_NOTE" -> takeEvery(ts, gqlRequest("createNoteSaga", Nothing))
    [] a.type = "EXPORT_NOTE" -> takeEvery(ts, gqlRequest("exportNoteSaga", a.id))
    [] OTHER -> ts

(***************************************************************************)
(* What each saga puts when its request has come back.                     *)
(***************************************************************************)
loadNotesSaga(t) ==
  IF t.ok THEN << [type |-> "LOAD_NOTES_SUCCESS", notes |-> t.ans] >> ELSE << [type |-> "LOAD_NOTES_FAILURE"] >>
loadNoteSaga(t) ==
  IF t.ok /\ t.ans.found THEN << [type |-> "LOAD_NOTE_SUCCESS", id |-> t.arg, note |-> t.ans.exported] >>
                         ELSE << [type |-> "LOAD_NOTE_FAILURE", id |-> t.arg] >>
\* Mutant: a failed deletion takes the note from the list.
deleteNoteAlways(t) == << [type |-> "DELETE_NOTE_SUCCESS", id |-> t.arg], notifySuccess("notes.deleted") >>
\* The payload's errors are not looked at: a note that was not found is gone as well.
deleteNoteSaga(t) ==
  IF t.ok THEN << [type |-> "DELETE_NOTE_SUCCESS", id |-> t.arg], notifySuccess("notes.deleted") >>
          ELSE << [type |-> "DELETE_NOTE_FAILURE", id |-> t.arg], notifyError >>
\* Mutant: a failed creation only shows the error.
createNoteSilent(t) ==
  IF t.ok THEN << [type |-> "CREATE_NOTE_SUCCESS", id |-> t.ans, note |-> FALSE], notifySuccess("notes.created") >>
          ELSE << notifyError >>
createNoteSaga(t) ==
  IF t.ok THEN << [type |-> "CREATE_NOTE_SUCCESS", id |-> t.ans, note |-> FALSE], notifySuccess("notes.created") >>
          ELSE << [type |-> "CREATE_NOTE_FAILURE"], notifyError >>
\* A refusal carries no note: the reducer throws on it, inside put, and the saga's
\* catch reports a failure.
exportNoteSaga(t) ==
  IF t.ok /\ t.ans.found
  THEN << [type |-> "EXPORT_NOTE_SUCCESS", id |-> t.arg, note |-> t.ans.exported], notifySuccess("common.apply") >>
  ELSE << [type |-> "EXPORT_NOTE_FAILURE", id |-> t.arg], notifyError >>

notesPuts(t) ==
  CASE t.saga = "loadNotesSaga" -> loadNotesSaga(t)
    [] t.saga = "loadNoteSaga" -> loadNoteSaga(t)
    [] t.saga = "deleteNoteSaga" -> deleteNoteSaga(t)
    [] t.saga = "createNoteSaga" -> createNoteSaga(t)
    [] t.saga = "exportNoteSaga" -> exportNoteSaga(t)

(***************************************************************************)
(* The backend: srv.stored maps the stored notes to whether they were      *)
(* exported; srv.fresh are the identities not given yet.                   *)
(***************************************************************************)
NotesInit(budget) ==
  SagaInit(initialNotesState, [stored |-> [n \in OldNotes |-> FALSE], fresh |-> NoteIds \ OldNotes], budget)

Note(stored, id) == [found |-> id \in DOMAIN stored, exported |-> id \in DOMAIN stored /\ stored[id]]
QueryNotes(i) == tasks[i].saga = "loadNotesSaga" /\ Answer(i, srv, srv.stored)
QueryNote(i) == tasks[i].saga = "loadNoteSaga" /\ Answer(i, srv, Note(srv.stored, tasks[i].arg))
DeleteNote(i) ==
  /\ tasks[i].saga = "deleteNoteSaga"
  /\ Answer(i, [srv EXCEPT !.stored = [n \in DOMAIN @ \ {tasks[i].arg} |-> @[n]]], Nothing)
CreateNote(i) ==
  /\ tasks[i].saga = "createNoteSaga"
  /\ \E n \in srv.fresh :
       Answer(i, [srv EXCEPT !.stored = (n :> FALSE) @@ @, !.fresh = @ \ {n}], n)
\* The export may also be refused: no vault, no profile, no transcript, an exporter that throws.
ExportNote(i) ==
  LET id == tasks[i].arg
      exported == [srv EXCEPT !.stored = (id :> TRUE) @@ @]
  IN  /\ tasks[i].saga = "exportNoteSaga"
      /\ \/ id \in DOMAIN srv.stored /\ Answer(i, exported, Note(exported.stored, id))
         \/ Answer(i, srv, [found |-> FALSE, exported |-> FALSE])

(***************************************************************************)
(* The pages.                                                              *)
(***************************************************************************)
NotesDo(a) == Dispatch(notesReducer, watchNotesSagas, a)
selectAllNotes == DOMAIN ui.byId
\* The list loads when it is mounted, deletes after a confirmation, and submits a new
\* note unless one is being submitted.
NotesList ==
  \/ NotesDo([type |-> "LOAD_NOTES"])
  \/ \E n \in selectAllNotes : NotesDo([type |-> "DELETE_NOTE", id |-> n])
  \/ /\ ~ui.isSubmitting
     /\ Cardinality(srv.fresh) > Cardinality(Running("createNoteSaga"))
     /\ NotesDo([type |-> "CREATE_NOTE"])
\* The viewer loads its note when it is mounted, from any link, and exports it.
NoteViewer ==
  \/ \E n \in NoteIds \ srv.fresh : NotesDo([type |-> "LOAD_NOTE", id |-> n])
  \/ \E n \in selectAllNotes \ ui.exportingIds : NotesDo([type |-> "EXPORT_NOTE", id |-> n])

NotesAnswers ==
  \E i \in InFlight : QueryNotes(i) \/ QueryNote(i) \/ DeleteNote(i) \/ CreateNote(i) \/ ExportNote(i)
NotesResumes ==
  \E i \in InState("back") :
    Resume(notesReducer, watchNotesSagas, i, notesPuts(tasks[i]), << >>, tasks[i].saga = "loadNotesSaga")
NotesNext == NotesList \/ NoteViewer \/ NotesAnswers \/ Dropped \/ NotesResumes

(***************************************************************************)
(* Properties.                                                             *)
(***************************************************************************)
NotesTypeOK ==
  /\ DOMAIN ui.byId \subseteq NoteIds /\ \A n \in DOMAIN ui.byId : ui.byId[n] \in BOOLEAN
  /\ ui.isLoadingList \in BOOLEAN /\ ui.isSubmitting \in BOOLEAN
  /\ ui.deletingIds \cup ui.exportingIds \subseteq NoteIds
  /\ \A i \in InState("back") : \A k \in DOMAIN notesPuts(tasks[i]) :
       notesPuts(tasks[i])[k].type \in NotesAction \cup {"NOTIFY"}

\* When every saga has ended and no answer was lost or overtaken since the list was
\* last loaded, the list shows exactly the stored notes, each with its export mark.
NotesShown == Idle /\ ~drift => ui.byId = srv.stored

\* A note that is shown at rest is stored, though a load was overtaken by a deletion.
DeletedStaysGone == Idle /\ ~broken => DOMAIN ui.byId \subseteq DOMAIN srv.stored

\* No spinner outlives its request: a busy mark is set only while a saga that will
\* clear it runs, whatever failed in between (notesReducer, the sagas' catch blocks).
NotesSpinnersEnd ==
  /\ ui.isLoadingList => Running("loadNotesSaga") # {}
  /\ ui.isSubmitting => Running("createNoteSaga") # {}
  /\ \A n \in ui.deletingIds : \E i \in Running("deleteNoteSaga") : tasks[i].arg = n
  /\ \A n \in ui.exportingIds : \E i \in Running("exportNoteSaga") : tasks[i].arg = n
=============================================================================
