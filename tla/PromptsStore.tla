---------------------------- MODULE PromptsStore ----------------------------
(* The prompts slice: the template list, its editor and the test runner,   *)
(* against the template mutations of the backend.                          *)
EXTENDS Sagas, FiniteSets

CONSTANTS TemplateIds, OldTemplates, Bodies, PromptNone

initialPromptsState ==
  [templates |-> << >>, isLoading |-> FALSE, error |-> FALSE, savingIds |-> {}, deletingIds |-> {},
   previewResult |-> PromptNone, isPreviewLoading |-> FALSE]
PromptsAction ==
  {"LOAD_PROMPTS", "LOAD_PROMPTS_SUCCESS", "LOAD_PROMPTS_FAILURE", "CREATE_PROMPT", "CREATE_PROMPT_SUCCESS",
   "CREATE_PROMPT_FAILURE", "UPDATE_PROMPT", "UPDATE_PROMPT_SUCCESS", "UPDATE_PROMPT_FAILURE", "DELETE_PROMPT",
   "DELETE_PROMPT_SUCCESS", "DELETE_PROMPT_FAILURE", "PREVIEW_PROMPT", "PREVIEW_PROMPT_SUCCESS",
   "PREVIEW_PROMPT_FAILURE", "PREVIEW_PROMPT_CLEAR"}
PromptTemplate == [id : TemplateIds, body : Bodies]

\* Mutant: the last rendering stays while the next one is made.
previewKept(s, a) ==
  CASE a.type = "PREVIEW_PROMPT" -> [s EXCEPT !.isPreviewLoading = TRUE]
    [] a.type = "PREVIEW_PROMPT_SUCCESS" -> [s EXCEPT !.isPreviewLoading = FALSE, !.previewResult = a.result]
    [] a.type = "PREVIEW_PROMPT_FAILURE" -> [s EXCEPT !.isPreviewLoading = FALSE, !.error = TRUE]
    [] OTHER -> s
\* The test runner's part of the reducer.
previewReducer(s, a) ==
  CASE a.type = "PREVIEW_PROMPT" -> [s EXCEPT !.isPreviewLoading = TRUE, !.previewResult = PromptNone]
    [] a.type = "PREVIEW_PROMPT_SUCCESS" -> [s EXCEPT !.isPreviewLoading = FALSE, !.previewResult = a.result]
    [] a.type = "PREVIEW_PROMPT_FAILURE" -> [s EXCEPT !.isPreviewLoading = FALSE, !.error = TRUE]
    [] a.type = "PREVIEW_PROMPT_CLEAR" -> [s EXCEPT !.previewResult = PromptNone, !.isPreviewLoading = FALSE]
    [] OTHER -> s

\* The templates are an array: what the backend created is appended to it, twice if it
\* is there already.
promptsReducer(s, a) ==
  CASE a.type = "LOAD_PROMPTS" -> [s EXCEPT !.isLoading = TRUE, !.error = FALSE]
    [] a.type = "LOAD_PROMPTS_SUCCESS" -> [s EXCEPT !.isLoading = FALSE, !.templates = a.templates, !.error = FALSE]
    [] a.type = "LOAD_PROMPTS_FAILURE" -> [s EXCEPT !.isLoading = FALSE, !.error = TRUE]
    [] a.type = "CREATE_PROMPT" -> [s EXCEPT !.error = FALSE]
    [] a.type = "CREATE_PROMPT_SUCCESS" -> [s EXCEPT !.templates = Append(@, a.template)]
    [] a.type = "CREATE_PROMPT_FAILURE" -> [s EXCEPT !.error = TRUE]
    [] a.type = "UPDATE_PROMPT" -> [s EXCEPT !.savingIds = @ \cup {a.id}, !.error = FALSE]
    [] a.type = "UPDATE_PROMPT_SUCCESS" ->
         [s EXCEPT !.savingIds = @ \ {a.template.id},
                   !.templates = [k \in DOMAIN @ |-> IF @[k].id = a.template.id THEN a.template ELSE @[k]]]
    [] a.type = "UPDATE_PROMPT_FAILURE" -> [s EXCEPT !.savingIds = {}, !.error = TRUE]
    [] a.type = "DELETE_PROMPT" -> [s EXCEPT !.deletingIds = @ \cup {a.id}, !.error = FALSE]
    [] a.type = "DELETE_PROMPT_SUCCESS" ->
         [s EXCEPT !.deletingIds = @ \ {a.id}, !.templates = SelectSeq(@, LAMBDA t : t.id # a.id)]
    [] a.type = "DELETE_PROMPT_FAILURE" -> [s EXCEPT !.deletingIds = {}, !.error = TRUE]
    [] OTHER -> previewReducer(s, a)

watchPromptsSagas(ts, a) ==
  CASE a.type = "LOAD_PROMPTS" -> takeLatestQuery(ts, gqlRequest("loadPromptsSaga", Nothing))
    [] a.type = "CREATE_PROMPT" -> takeEvery(ts, gqlRequest("createPromptSaga", a.body))
    [] a.type = "UPDATE_PROMPT" -> takeEvery(ts, gqlRequest("updatePromptSaga", [id |-> a.id, body |-> a.body]))
    [] a.type = "DELETE_PROMPT" -> takeEvery(ts, gqlRequest("deletePromptSaga", a.id))
    [] a.type = "PREVIEW_PROMPT" -> takeLatestQuery(ts, gqlRequest("previewPromptSaga", a.body))
    [] OTHER -> ts

loadPromptsSaga(t) ==
  IF t.ok THEN << [type |-> "LOAD_PROMPTS_SUCCESS", templates |-> t.ans] >> ELSE << [type |-> "LOAD_PROMPTS_FAILURE"] >>
createPromptSaga(t) ==
  IF t.ok THEN << [type |-> "CREATE_PROMPT_SUCCESS", template |-> t.ans] >> ELSE << [type |-> "CREATE_PROMPT_FAILURE"] >>
\* The backend answers null for a template that is gone.
updatePromptSaga(t) ==
  IF t.ok /\ t.ans THEN << [type |-> "UPDATE_PROMPT_SUCCESS", template |-> t.arg] >>
                   ELSE << [type |-> "UPDATE_PROMPT_FAILURE"] >>
deletePromptSaga(t) ==
  IF t.ok /\ t.ans THEN << [type |-> "DELETE_PROMPT_SUCCESS", id |-> t.arg] >>
                   ELSE << [type |-> "DELETE_PROMPT_FAILURE"] >>
previewPromptSaga(t) ==
  IF t.ok THEN << [type |-> "PREVIEW_PROMPT_SUCCESS", result |-> t.ans] >> ELSE << [type |-> "PREVIEW_PROMPT_FAILURE"] >>

promptsPuts(t) ==
  CASE t.saga = "loadPromptsSaga" -> loadPromptsSaga(t)
    [] t.saga = "createPromptSaga" -> createPromptSaga(t)
    [] t.saga = "updatePromptSaga" -> updatePromptSaga(t)
    [] t.saga = "deletePromptSaga" -> deletePromptSaga(t)
    [] t.saga = "previewPromptSaga" -> previewPromptSaga(t)

(***************************************************************************)
(* The backend: srv.bodies maps the stored templates to their bodies;      *)
(* srv.refused is a ghost: it was asked to delete a template it had not.   *)
(***************************************************************************)
AnyBody == CHOOSE b \in Bodies : TRUE
PromptsInit(budget) ==
  SagaInit(initialPromptsState, [bodies |-> [t \in OldTemplates |-> AnyBody], fresh |-> TemplateIds \ OldTemplates,
                                refused |-> FALSE], budget)

TemplateList(bodies) == [k \in 1..Cardinality(DOMAIN bodies) |->
  LET t == SetToSeq(DOMAIN bodies)[k] IN [id |-> t, body |-> bodies[t]]]
QueryPromptTemplates(i) == tasks[i].saga = "loadPromptsSaga" /\ Answer(i, srv, TemplateList(srv.bodies))
CreatePromptTemplate(i) ==
  /\ tasks[i].saga = "createPromptSaga"
  /\ \E t \in srv.fresh :
       Answer(i, [srv EXCEPT !.bodies = (t :> tasks[i].arg) @@ @, !.fresh = @ \ {t}],
              [id |-> t, body |-> tasks[i].arg])
UpdatePromptTemplate(i) ==
  /\ tasks[i].saga = "updatePromptSaga"
  /\ LET found == tasks[i].arg.id \in DOMAIN srv.bodies
     IN  Answer(i, IF found THEN [srv EXCEPT !.bodies[tasks[i].arg.id] = tasks[i].arg.body] ELSE srv, found)
DeletePromptTemplate(i) ==
  /\ tasks[i].saga = "deletePromptSaga"
  /\ LET found == tasks[i].arg \in DOMAIN srv.bodies
     IN  Answer(i, [srv EXCEPT !.bodies = [t \in DOMAIN @ \ {tasks[i].arg} |-> @[t]], !.refused = @ \/ ~found], found)
PreviewPrompt(i) == tasks[i].saga = "previewPromptSaga" /\ Answer(i, srv, tasks[i].arg)

(***************************************************************************)
(* The pages.                                                              *)
(***************************************************************************)
PromptsDo(a) == Dispatch(promptsReducer, watchPromptsSagas, a)
selectAllPrompts == {ui.templates[k].id : k \in DOMAIN ui.templates}
\* Mutant: the delete button stays enabled while its deletion runs.
PromptsDeletedAgain ==
  \/ PromptsDo([type |-> "LOAD_PROMPTS"])
  \/ \E t \in selectAllPrompts : PromptsDo([type |-> "DELETE_PROMPT", id |-> t])
Prompts ==
  \/ PromptsDo([type |-> "LOAD_PROMPTS"])
  \/ \E t \in selectAllPrompts \ ui.deletingIds : PromptsDo([type |-> "DELETE_PROMPT", id |-> t])
\* The editor closes when it submits; it is not told how the save ended.
PromptEditor ==
  \E b \in Bodies :
    \/ /\ Cardinality(srv.fresh) > Cardinality(Running("createPromptSaga"))
       /\ PromptsDo([type |-> "CREATE_PROMPT", body |-> b])
    \/ \E t \in selectAllPrompts : PromptsDo([type |-> "UPDATE_PROMPT", id |-> t, body |-> b])
PromptTestRunner ==
  \/ ~ui.isPreviewLoading /\ \E b \in Bodies : PromptsDo([type |-> "PREVIEW_PROMPT", body |-> b])
  \/ ui.previewResult # PromptNone /\ PromptsDo([type |-> "PREVIEW_PROMPT_CLEAR"])

PromptsAnswers ==
  \E i \in InFlight :
    \/ QueryPromptTemplates(i) \/ CreatePromptTemplate(i) \/ UpdatePromptTemplate(i)
    \/ DeletePromptTemplate(i) \/ PreviewPrompt(i)
PromptsResumes ==
  \E i \in InState("back") :
    Resume(promptsReducer, watchPromptsSagas, i, promptsPuts(tasks[i]), << >>, tasks[i].saga = "loadPromptsSaga")
PromptsNext == Prompts \/ PromptEditor \/ PromptTestRunner \/ PromptsAnswers \/ Dropped \/ PromptsResumes

(***************************************************************************)
(* Properties.                                                             *)
(***************************************************************************)
PromptsTypeOK ==
  /\ \A k \in DOMAIN ui.templates : ui.templates[k] \in PromptTemplate
  /\ ui.isLoading \in BOOLEAN /\ ui.error \in BOOLEAN /\ ui.isPreviewLoading \in BOOLEAN
  /\ ui.savingIds \cup ui.deletingIds \subseteq TemplateIds /\ ui.previewResult \in Bodies \cup {PromptNone}
  /\ \A i \in InState("back") : \A k \in DOMAIN promptsPuts(tasks[i]) : promptsPuts(tasks[i])[k].type \in PromptsAction

\* At rest, with no answer lost or overtaken since the last load, the list shows each
\* stored template once, with its body.
PromptsShown ==
  Idle /\ ~drift =>
    /\ Len(ui.templates) = Cardinality(DOMAIN srv.bodies)
    /\ \A k \in DOMAIN ui.templates :
         /\ ui.templates[k].id \in DOMAIN srv.bodies
         /\ ui.templates[k].body = srv.bodies[ui.templates[k].id]

\* The test runner shows the rendering of the body it was last asked for, or nothing: an answer
\* for an earlier body never reaches it, not even as what a failure of the later one leaves.
PreviewStep ==
  /\ ui'.previewResult # PromptNone => \A i \in DOMAIN tasks' : tasks'[i].saga # "previewPromptSaga"
  /\ ui'.previewResult \notin {ui.previewResult, PromptNone} =>
       \A i \in Running("previewPromptSaga") : ui'.previewResult = tasks[i].arg

\* A busy mark is set only while a saga that will clear it runs.
PromptsSpinnersEnd ==
  /\ ui.isLoading => Running("loadPromptsSaga") # {}
  /\ ui.isPreviewLoading => Running("previewPromptSaga") # {}
  /\ \A t \in ui.savingIds : \E i \in Running("updatePromptSaga") : tasks[i].arg.id = t
  /\ \A t \in ui.deletingIds : \E i \in Running("deletePromptSaga") : tasks[i].arg = t

\* A delete button is enabled again only when its own request has come back, unless a
\* request has failed or a deletion was refused, because an overtaken list showed the template
\* again (DELETE_PROMPT_FAILURE clears the marks of every template).
OneDeletePerTemplate ==
  ~broken /\ ~srv.refused => \A i, j \in Running("deletePromptSaga") : tasks[i].arg = tasks[j].arg => i = j
=============================================================================
