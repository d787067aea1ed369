---------------------------- MODULE BackupsStore ----------------------------
(* The backups slice, its page, and the palette's action that creates a     *)
(* backup from any page.  An archive is named after the second in which it  *)
(* was begun; one that is there is replaced.                                *)
EXTENDS Sagas, FiniteSets

CONSTANTS MaxSeconds              \* bound: the clock of the archives' names

initialBackupsState == [items |-> {}, isLoading |-> FALSE, isCreating |-> FALSE]
BackupsAction ==
  {"LOAD_BACKUPS", "LOAD_BACKUPS_SUCCESS", "LOAD_BACKUPS_FAILURE", "CREATE_BACKUP", "CREATE_BACKUP_SUCCESS",
   "CREATE_BACKUP_FAILURE"}
backupsReducer(s, a) ==
  CASE a.type = "LOAD_BACKUPS" -> [s EXCEPT !.isLoading = TRUE]
    [] a.type = "LOAD_BACKUPS_SUCCESS" -> [s EXCEPT !.isLoading = FALSE, !.items = a.items]
    [] a.type = "LOAD_BACKUPS_FAILURE" -> [s EXCEPT !.isLoading = FALSE]
    [] a.type = "CREATE_BACKUP" -> [s EXCEPT !.isCreating = TRUE]
    [] a.type \in {"CREATE_BACKUP_SUCCESS", "CREATE_BACKUP_FAILURE"} -> [s EXCEPT !.isCreating = FALSE]
    [] OTHER -> s

watchBackupsSagas(ts, a) ==
  CASE a.type = "LOAD_BACKUPS" -> takeLatestQuery(ts, gqlRequest("loadBackupsSaga", Nothing))
    [] a.type = "CREATE_BACKUP" -> takeEvery(ts, gqlRequest("createBackupSaga", Nothing))
    [] OTHER -> ts

loadBackupsSaga(t) ==
  << IF t.ok THEN [type |-> "LOAD_BACKUPS_SUCCESS", items |-> t.ans] ELSE [type |-> "LOAD_BACKUPS_FAILURE"] >>
createBackupSaga(t) ==
  IF t.ok /\ t.ans = "created"
  THEN << [type |-> "CREATE_BACKUP_SUCCESS"], notifySuccess("backup.successToast"), [type |-> "LOAD_BACKUPS"] >>
  ELSE << [type |-> "CREATE_BACKUP_FAILURE"], notifyError >>
backupsPuts(t) == IF t.saga = "loadBackupsSaga" THEN loadBackupsSaga(t) ELSE createBackupSaga(t)

(***************************************************************************)
(* The backend: the archives by the second of their name, with the run     *)
(* that writes or wrote each: open, whole or partial.                      *)
(***************************************************************************)
\* List: every file of the directory, those that are being written included.
Backups(i) == tasks[i].saga = "loadBackupsSaga" /\ Answer(i, srv, DOMAIN srv.archives)
\* CreateAsync deletes an archive of the same second, also one that is being written, begins
\* its own and writes the entries; an entry that cannot be read leaves the archive as it is.
Begin(second) ==
  [srv EXCEPT !.begun = @ + 1, !.archives = (second :> [by |-> srv.begun + 1, is |-> "open"]) @@ @]
End(run, becomes) ==
  IF srv.archives[run.second].by = run.by THEN [srv EXCEPT !.archives[run.second].is = becomes] ELSE srv
CreateBackup(i) ==
  /\ tasks[i].saga = "createBackupSaga"
  /\ \/ Halfway(i, Begin(srv.clock), [second |-> srv.clock, by |-> srv.begun + 1])
     \/ /\ tasks[i].pc = "half"
        /\ \/ AnswerTelling(i, End(tasks[i].ans, "whole"), "created", FALSE)
           \/ AnswerTelling(i, End(tasks[i].ans, "partial"), "refused", FALSE)
ClockTicks == srv.clock < MaxSeconds /\ Outside([srv EXCEPT !.clock = @ + 1])

BackupsInit(budget) ==
  SagaInit(initialBackupsState, [archives |-> << >>, begun |-> 0, clock |-> 1], budget)

(***************************************************************************)
(* The page, and the palette.                                              *)
(***************************************************************************)
BackupsDo(a) == Dispatch(backupsReducer, watchBackupsSagas, a)
BackupsPage ==
  \/ BackupsDo([type |-> "LOAD_BACKUPS"])
  \/ ~ui.isCreating /\ BackupsDo([type |-> "CREATE_BACKUP"])
\* The palette does not look whether a backup is being created.
quickCreateBackup == BackupsDo([type |-> "CREATE_BACKUP"])

BackupsAnswers == \E i \in InFlight : (tasks[i].pc = "call" /\ Backups(i)) \/ CreateBackup(i)
BackupsResumes ==
  \E i \in InState("back") :
    Resume(backupsReducer, watchBackupsSagas, i, backupsPuts(tasks[i]), << >>, tasks[i].saga = "loadBackupsSaga")
BackupsNext == BackupsPage \/ quickCreateBackup \/ ClockTicks \/ BackupsAnswers \/ Dropped \/ BackupsResumes

(***************************************************************************)
(* Properties.                                                             *)
(***************************************************************************)
BackupsTypeOK ==
  /\ ui.items \subseteq 1..MaxSeconds /\ ui.isLoading \in BOOLEAN /\ ui.isCreating \in BOOLEAN
  /\ \A i \in InState("back") : \A k \in DOMAIN backupsPuts(tasks[i]) :
       backupsPuts(tasks[i])[k].type \in BackupsAction \cup {"NOTIFY"}
\* At rest, with nothing missed since the list was loaded, the archives on the disk are listed.
BackupsShown == Idle /\ ~drift => ui.items = DOMAIN srv.archives
\* The busy marks of the page and of the palette last no longer than their sagas.
BackupsSpinnersEnd ==
  /\ ui.isLoading => Running("loadBackupsSaga") # {}
  /\ ui.isCreating => Running("createBackupSaga") # {}
\* Every archive the page lists is a whole backup, and one was made for each that was announced.
ListedIsWhole == Idle => \A k \in ui.items : srv.archives[k].is = "whole"
AnnouncedIsListed == Idle /\ ~broken => Cardinality(ui.items) = srv.begun
=============================================================================
