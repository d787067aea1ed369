---------------------------- MODULE ProfilesStore ----------------------------
(* The profiles slice: the profile list, the editor and the glossary        *)
(* suggestions, against the profile mutations of the backend.  A profile is *)
(* reduced to the fields that behave differently: `text` stands for those   *)
(* the editor's draft carries to the backend, `prompt` for the Whisper      *)
(* prompt, which it does not, and `default` for the flag of which the       *)
(* backend lets one profile at most hold.                                   *)
EXTENDS Sagas, FiniteSets

CONSTANTS
  ProfileIds, BuiltInProfiles,    \* the profiles there can be, and the one seeded at the start
  Texts,                          \* what a text field may hold
  Drafts,                         \* the drafts an editor submits
  ProfileNone

initialProfilesState ==
  [profiles |-> << >>, order |-> << >>, isLoading |-> FALSE, error |-> FALSE, saving |-> FALSE,
   deletingId |-> ProfileNone, suggestions |-> {}, suggestingKey |-> ProfileNone]
ProfilesAction ==
  {"LOAD_PROFILES", "LOAD_PROFILES_SUCCESS", "LOAD_PROFILES_FAILURE", "CREATE_PROFILE", "CREATE_PROFILE_SUCCESS",
   "CREATE_PROFILE_FAILURE", "UPDATE_PROFILE", "UPDATE_PROFILE_SUCCESS", "UPDATE_PROFILE_FAILURE",
   "DELETE_PROFILE", "DELETE_PROFILE_SUCCESS", "DELETE_PROFILE_FAILURE", "DUPLICATE_PROFILE",
   "DUPLICATE_PROFILE_SUCCESS", "DUPLICATE_PROFILE_FAILURE", "SUGGEST_GLOSSARY_TERMS",
   "SUGGEST_GLOSSARY_TERMS_SUCCESS", "SUGGEST_GLOSSARY_TERMS_FAILURE"}
ProfileDraft == [default : BOOLEAN, text : Texts, prompt : Texts]

toOrdered(s, profiles) == [s EXCEPT !.profiles = profiles, !.order = SetToSeq(DOMAIN profiles)]
applyCreateOrReplace(s, id, profile) ==
  [s EXCEPT !.profiles = (id :> profile) @@ @, !.order = IF Contains(@, id) THEN @ ELSE Append(@, id)]
applyDelete(s, id) ==
  [s EXCEPT !.profiles = [p \in DOMAIN @ \ {id} |-> @[p]], !.order = SelectSeq(@, LAMBDA p : p # id)]

Saved == {"CREATE_PROFILE_SUCCESS", "UPDATE_PROFILE_SUCCESS", "DUPLICATE_PROFILE_SUCCESS"}
SaveFailed == {"CREATE_PROFILE_FAILURE", "UPDATE_PROFILE_FAILURE", "DUPLICATE_PROFILE_FAILURE"}
profilesReducer(s, a) ==
  CASE a.type = "LOAD_PROFILES" -> [s EXCEPT !.isLoading = TRUE, !.error = FALSE]
    [] a.type = "LOAD_PROFILES_SUCCESS" ->
         toOrdered([s EXCEPT !.isLoading = FALSE, !.error = FALSE], a.profiles)
    [] a.type = "LOAD_PROFILES_FAILURE" -> [s EXCEPT !.isLoading = FALSE, !.error = TRUE]
    [] a.type \in {"CREATE_PROFILE", "UPDATE_PROFILE", "DUPLICATE_PROFILE"} ->
         [s EXCEPT !.saving = TRUE, !.error = FALSE]
    [] a.type \in Saved ->
         applyCreateOrReplace([s EXCEPT !.saving = FALSE, !.deletingId = ProfileNone], a.id, a.profile)
    [] a.type \in SaveFailed -> [s EXCEPT !.saving = FALSE, !.error = TRUE]
    [] a.type = "DELETE_PROFILE" -> [s EXCEPT !.deletingId = a.id, !.error = FALSE]
    [] a.type = "DELETE_PROFILE_SUCCESS" -> applyDelete([s EXCEPT !.deletingId = ProfileNone], a.id)
    [] a.type = "DELETE_PROFILE_FAILURE" -> [s EXCEPT !.deletingId = ProfileNone, !.error = TRUE]
    [] a.type = "SUGGEST_GLOSSARY_TERMS" -> [s EXCEPT !.suggestingKey = a.id]
    [] a.type = "SUGGEST_GLOSSARY_TERMS_SUCCESS" ->
         [s EXCEPT !.suggestingKey = ProfileNone, !.suggestions = @ \cup {a.id}]
    [] a.type = "SUGGEST_GLOSSARY_TERMS_FAILURE" -> [s EXCEPT !.suggestingKey = ProfileNone]
    [] OTHER -> s

watchProfilesSagas(ts, a) ==
  CASE a.type = "LOAD_PROFILES" -> takeLatestQuery(ts, gqlRequest("loadProfilesSaga", Nothing))
    [] a.type = "CREATE_PROFILE" -> takeEvery(ts, gqlRequest("createProfileSaga", a.draft))
    [] a.type = "UPDATE_PROFILE" -> takeEvery(ts, gqlRequest("updateProfileSaga", [id |-> a.id, draft |-> a.draft]))
    [] a.type = "DELETE_PROFILE" -> takeEvery(ts, gqlRequest("deleteProfileSaga", a.id))
    [] a.type = "DUPLICATE_PROFILE" -> takeEvery(ts, gqlRequest("duplicateProfileSaga", a.id))
    [] a.type = "SUGGEST_GLOSSARY_TERMS" -> takeLatestQuery(ts, gqlRequest("suggestGlossaryTermsSaga", a.id))
    [] OTHER -> ts

(***************************************************************************)
(* What each saga puts.  A payload is [found, id, profile].                *)
(***************************************************************************)
loadProfilesSaga(t) ==
  IF t.ok THEN << [type |-> "LOAD_PROFILES_SUCCESS", profiles |-> t.ans] >>
          ELSE << [type |-> "LOAD_PROFILES_FAILURE"] >>
createProfileSaga(t) ==
  IF t.ok THEN << [type |-> "CREATE_PROFILE_SUCCESS", id |-> t.ans.id, profile |-> t.ans.profile] >>
          ELSE << [type |-> "CREATE_PROFILE_FAILURE"] >>
updateProfileSaga(t) ==
  IF t.ok /\ t.ans.found
  THEN << [type |-> "UPDATE_PROFILE_SUCCESS", id |-> t.ans.id, profile |-> t.ans.profile] >>
  ELSE << [type |-> "UPDATE_PROFILE_FAILURE"] >>
deleteProfileSaga(t) ==
  IF t.ok /\ t.ans.found THEN << [type |-> "DELETE_PROFILE_SUCCESS", id |-> t.arg] >>
                         ELSE << [type |-> "DELETE_PROFILE_FAILURE", id |-> t.arg] >>
duplicateProfileSaga(t) ==
  IF t.ok /\ t.ans.found
  THEN << [type |-> "DUPLICATE_PROFILE_SUCCESS", id |-> t.ans.id, profile |-> t.ans.profile] >>
  ELSE << [type |-> "DUPLICATE_PROFILE_FAILURE"] >>
suggestGlossaryTermsSaga(t) ==
  << [type |-> IF t.ok THEN "SUGGEST_GLOSSARY_TERMS_SUCCESS" ELSE "SUGGEST_GLOSSARY_TERMS_FAILURE", id |-> t.arg] >>

profilesPuts(t) ==
  CASE t.saga = "loadProfilesSaga" -> loadProfilesSaga(t)
    [] t.saga = "createProfileSaga" -> createProfileSaga(t)
    [] t.saga = "updateProfileSaga" -> updateProfileSaga(t)
    [] t.saga = "deleteProfileSaga" -> deleteProfileSaga(t)
    [] t.saga = "duplicateProfileSaga" -> duplicateProfileSaga(t)
    [] t.saga = "suggestGlossaryTermsSaga" -> suggestGlossaryTermsSaga(t)

(***************************************************************************)
(* The backend.                                                            *)
(***************************************************************************)
Plain == CHOOSE x \in Texts : TRUE      \* the text of a field nobody has filled in
ProfilesInit(budget) ==
  SagaInit(initialProfilesState,
    [profiles |-> [p \in BuiltInProfiles |-> [default |-> TRUE, text |-> Plain, prompt |-> Plain]],
     fresh |-> ProfileIds \ BuiltInProfiles], budget)

\* The draft without what the mutation's input has no field for.
mapDomainProfileToInput(draft) == [default |-> draft.default, text |-> draft.text]
NotFound == [found |-> FALSE]

QueryProfiles(i) == tasks[i].saga = "loadProfilesSaga" /\ Answer(i, srv, srv.profiles)
\* A save that sets the flag first takes it from whoever has it, in writes of their own.
DemotesFirst(t) ==
  \/ t.saga = "createProfileSaga" /\ t.arg.default
  \/ /\ t.saga = "updateProfileSaga" /\ t.arg.draft.default
     /\ t.arg.id \in DOMAIN srv.profiles /\ ~srv.profiles[t.arg.id].default
DemoteCurrentDefaultAsync(i) ==
  /\ DemotesFirst(tasks[i])
  /\ Halfway(i, [srv EXCEPT !.profiles = [p \in DOMAIN @ |-> [@[p] EXCEPT !.default = FALSE]]], Nothing)
MayWrite(t) == t.pc = "half" \/ ~DemotesFirst(t)
CreateProfile(i) ==
  /\ tasks[i].saga = "createProfileSaga"
  /\ MayWrite(tasks[i])
  /\ \E p \in srv.fresh :
       LET input == mapDomainProfileToInput(tasks[i].arg)
           profile == [default |-> input.default, text |-> input.text, prompt |-> Plain]
       IN  Answer(i, [profiles |-> (p :> profile) @@ srv.profiles, fresh |-> srv.fresh \ {p}],
                  [found |-> TRUE, id |-> p, profile |-> profile])
UpdateProfile(i) ==
  /\ tasks[i].saga = "updateProfileSaga"
  /\ MayWrite(tasks[i])
  /\ LET id == tasks[i].arg.id
         input == mapDomainProfileToInput(tasks[i].arg.draft)
     IN  IF id \in DOMAIN srv.profiles
         THEN LET profile == [srv.profiles[id] EXCEPT !.default = input.default, !.text = input.text]
              IN  Answer(i, [srv EXCEPT !.profiles[id] = profile], [found |-> TRUE, id |-> id, profile |-> profile])
         ELSE Answer(i, srv, NotFound)
DeleteProfile(i) ==
  /\ tasks[i].saga = "deleteProfileSaga"
  /\ IF tasks[i].arg \in DOMAIN srv.profiles
     THEN Answer(i, [srv EXCEPT !.profiles = [p \in DOMAIN @ \ {tasks[i].arg} |-> @[p]]], [found |-> TRUE])
     ELSE Answer(i, srv, NotFound)
DuplicateProfile(i) ==
  /\ tasks[i].saga = "duplicateProfileSaga"
  /\ IF tasks[i].arg \in DOMAIN srv.profiles
     THEN \E p \in srv.fresh :
            LET copy == [srv.profiles[tasks[i].arg] EXCEPT !.default = FALSE]
            IN  Answer(i, [profiles |-> (p :> copy) @@ srv.profiles, fresh |-> srv.fresh \ {p}],
                       [found |-> TRUE, id |-> p, profile |-> copy])
     ELSE Answer(i, srv, NotFound)
SuggestGlossaryTerms(i) == tasks[i].saga = "suggestGlossaryTermsSaga" /\ Answer(i, srv, Nothing)

(***************************************************************************)
(* The pages.                                                              *)
(***************************************************************************)
ProfilesDo(a) == Dispatch(profilesReducer, watchProfilesSagas, a)
selectAllProfiles == {p \in DOMAIN ui.profiles : Contains(ui.order, p)}
RoomForProfile == Cardinality(srv.fresh) > Cardinality(Running("createProfileSaga") \cup Running("duplicateProfileSaga"))
\* The list: nothing is disabled while a request runs; only a built-in profile is kept
\* from being deleted, and only here.
Profiles ==
  \/ ProfilesDo([type |-> "LOAD_PROFILES"])
  \/ \E p \in selectAllProfiles \ BuiltInProfiles : ProfilesDo([type |-> "DELETE_PROFILE", id |-> p])
  \/ \E p \in selectAllProfiles : RoomForProfile /\ ProfilesDo([type |-> "DUPLICATE_PROFILE", id |-> p])
\* The editor saves any draft with a name, closes at once, and asks for suggestions
\* for a profile that has an identity.
ProfileEditor ==
  \/ \E d \in Drafts : RoomForProfile /\ ProfilesDo([type |-> "CREATE_PROFILE", draft |-> d])
  \/ \E p \in selectAllProfiles, d \in Drafts :
       ProfilesDo([type |-> "UPDATE_PROFILE", id |-> p, draft |-> d])
  \/ \E p \in selectAllProfiles : ProfilesDo([type |-> "SUGGEST_GLOSSARY_TERMS", id |-> p])

ProfilesAnswers ==
  \E i \in InFlight :
    \/ QueryProfiles(i) \/ DemoteCurrentDefaultAsync(i) \/ CreateProfile(i) \/ UpdateProfile(i) \/ DeleteProfile(i)
    \/ DuplicateProfile(i) \/ SuggestGlossaryTerms(i)
ProfilesResumes ==
  \E i \in InState("back") :
    Resume(profilesReducer, watchProfilesSagas, i, profilesPuts(tasks[i]), << >>, tasks[i].saga = "loadProfilesSaga")
ProfilesNext == Profiles \/ ProfileEditor \/ ProfilesAnswers \/ Dropped \/ ProfilesResumes

(***************************************************************************)
(* Properties.                                                             *)
(***************************************************************************)
ProfilesTypeOK ==
  /\ DOMAIN ui.profiles \subseteq ProfileIds
  /\ \A p \in DOMAIN ui.profiles : ui.profiles[p] \in ProfileDraft
  /\ ui.isLoading \in BOOLEAN /\ ui.error \in BOOLEAN /\ ui.saving \in BOOLEAN
  /\ {ui.deletingId, ui.suggestingKey} \subseteq ProfileIds \cup {ProfileNone}
  /\ \A i \in InState("back") : \A k \in DOMAIN profilesPuts(tasks[i]) : profilesPuts(tasks[i])[k].type \in ProfilesAction

\* The order and the table of the slice never part (toOrdered, applyCreateOrReplace,
\* applyDelete): each profile is listed once, whatever answers arrive in whatever order.
ProfilesListedOnce == IsInjective(ui.order) /\ Range(ui.order) = DOMAIN ui.profiles

\* At rest, with no answer lost or overtaken since the last load, the list shows the
\* stored profiles with their texts and prompts, and the backend's default among those
\* marked as default.
ProfilesShown ==
  Idle /\ ~drift =>
    /\ DOMAIN ui.profiles = DOMAIN srv.profiles
    /\ \A p \in DOMAIN srv.profiles :
         /\ ui.profiles[p].text = srv.profiles[p].text /\ ui.profiles[p].prompt = srv.profiles[p].prompt
         /\ srv.profiles[p].default => ui.profiles[p].default

\* A busy mark is set only while a saga that will clear it runs.
ProfilesSpinnersEnd ==
  /\ ui.isLoading => Running("loadProfilesSaga") # {}
  /\ ui.saving => Running("createProfileSaga") \cup Running("updateProfileSaga") \cup Running("duplicateProfileSaga") # {}
  /\ ui.deletingId # ProfileNone => \E i \in Running("deleteProfileSaga") : tasks[i].arg = ui.deletingId
  /\ ui.suggestingKey # ProfileNone => \E i \in Running("suggestGlossaryTermsSaga") : tasks[i].arg = ui.suggestingKey

\* The backend keeps at most one default profile.  It does not when two saves race:
\* both may demote before either writes.
OneDefaultStored == Cardinality({p \in DOMAIN srv.profiles : srv.profiles[p].default}) <= 1

\* What was saved is what the editor held.  It is not: the Whisper prompt has no field
\* in the mutation's input, so the edit is dropped although the save succeeds.
SavesTheDraft ==
  \A i \in InState("back") :
    tasks[i].saga = "updateProfileSaga" /\ tasks[i].ok /\ tasks[i].ans.found
      => tasks[i].ans.profile = tasks[i].arg.draft

\* The list never shows two defaults at rest.  It does: a save that demotes another
\* profile in the backend replaces only its own row in the store.
OneDefaultShown ==
  Idle /\ ~drift => Cardinality({p \in DOMAIN ui.profiles : ui.profiles[p].default}) <= 1
=============================================================================
