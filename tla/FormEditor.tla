------------------------------ MODULE FormEditor ------------------------------
(***************************************************************************)
(* The form builder and the drafts it keeps in the browser's localStorage: *)
(* the draft being edited, stored again after every change, and the drafts *)
(* saved under a name, of which there is an index and one item each.  The  *)
(* browser has one tab, in which the builder and the list of drafts take   *)
(* turns.  What a question needs to be published, and what the page that   *)
(* is filled in shows for it, goes by the type of the question.            *)
(***************************************************************************)
EXTENDS FiniteSets, Integers, SequencesExt

CONSTANTS
    Types,           \* the types offered, some of InputTypes and BlockTypes
    Ids, DraftIds,   \* random identifiers, of questions and of saved drafts
    Names, None,
    MinQuestions,    \* to publish
    MaxQuestions,    \* bound: questions of a form
    MaxSaved,        \* bound: questions of a draft with a name
    SavedTypes       \* bound: types of the questions of a draft with a name

ASSUME NoneAssumption  == None \notin Ids \cup DraftIds
ASSUME BoundAssumption == {MinQuestions, MaxQuestions, MaxSaved} \subseteq Nat

-----------------------------------------------------------------------------
(***************************************************************************)
(* Questions                                                               *)
(***************************************************************************)

ChoiceTypes == {"multiple_choice", "checkbox", "dropdown", "multi_select"}

(* QUESTION_TYPES: the inputs; layouts, embeds and advanced blocks.        *)
InputTypes == ChoiceTypes \cup
    {"short_text", "long_text", "number", "email", "phone", "link", "file_upload", "date",
     "time", "linear_scale", "matrix", "rating", "payment", "signature", "ranking"}
BlockTypes ==
    {"new_page", "thank_you", "text", "h1", "h2", "h3", "divider", "title", "label", "image",
     "video", "audio", "embed_anything", "conditional_logic", "calculated_field",
     "hidden_field", "recaptcha", "country"}

ASSUME TypesAssumption == Types \subseteq InputTypes \cup BlockTypes

LabelTypes == ChoiceTypes \cup
    {"short_text", "long_text", "number", "email", "phone", "link", "linear_scale", "matrix",
     "rating"}

(* The types for which QuestionCard shows something to fill in.            *)
CardTypes == ChoiceTypes \cup
    {"short_text", "long_text", "number", "email", "phone", "link", "date", "time", "rating",
     "linear_scale"}

(* The options of a choice: none, only blank labels, or one with a name.   *)
Options == {"none", "blank", "named"}

Questions == [id : Ids, type : Types \cup {"short_text"}, required : BOOLEAN,
              labelled : BOOLEAN, options : Options]

(* createQuestion: a new question is required and has no label; a choice   *)
(* has two options with names.                                             *)
NewQuestion(id, type) ==
    [id |-> id, type |-> type, required |-> TRUE, labelled |-> FALSE,
     options |-> IF type \in ChoiceTypes THEN "named" ELSE "none"]

IdsOf(qs) == {qs[i].id : i \in DOMAIN qs}

(* What handleInitialize asks of a question: it counts the options, and    *)
(* does not read their labels.                                             *)
Publishable(q) ==
    /\ q.type \in LabelTypes => q.labelled
    /\ q.type \in ChoiceTypes => q.options # "none"

Complete(qs) == Len(qs) >= MinQuestions /\ \A i \in DOMAIN qs : Publishable(qs[i])

(* There is something to fill in that is not the empty answer.  The one    *)
(* answer of a single choice is the label of an option; that of a multiple *)
(* choice is a list of labels, and one blank label makes it not empty.     *)
Fillable(q) ==
    /\ q.type \in CardTypes
    /\ q.type \in {"multiple_choice", "dropdown"} => q.options = "named"
    /\ q.type \in {"checkbox", "multi_select"}    => q.options # "none"

(* validateAnswers.  The limits on the words of a text, which nothing      *)
(* keeps in order, are not modelled: they are not asked of an answer of    *)
(* blanks, and that one is not the empty answer, so that a text always has *)
(* an answer that passes.                                                  *)
Answerable(q) == q.required => Fillable(q)

-----------------------------------------------------------------------------
VARIABLES
    (* localStorage *)
    current,     \* okaform_current_draft, or NoDraft
    index,       \* okaform_saved_drafts
    content,     \* okaform_draft_<id>
    (* the tab *)
    page, questions, selected,
    restored,    \* what the builder read when it opened and has not shown yet
    publishing,  \* the form, as it was at the click, is being published
    shown,       \* the entries in the list of drafts
    deletions,   \* timeouts of deletions, each with the entries it will leave
    (* history *)
    lastSaved    \* what the user saved under a name and did not delete

vars == <<current, index, content, page, questions, selected, restored, publishing, shown,
          deletions, lastSaved>>

saved  == <<index, content, lastSaved>>
editor == <<questions, selected, restored>>
list   == <<shown, deletions>>

Draft(qs, sel) == [questions |-> qs, selected |-> sel]
NoDraft == Draft(<<>>, None)

Init ==
    /\ current = NoDraft /\ index = {} /\ content = [d \in DraftIds |-> None]
    /\ page = "list" /\ questions = <<>> /\ selected = None /\ restored = NoDraft
    /\ publishing = FALSE /\ shown = {} /\ deletions = {}
    /\ lastSaved = [n \in Names |-> None]

-----------------------------------------------------------------------------
(***************************************************************************)
(* FormBuilder                                                             *)
(***************************************************************************)

(* The list of drafts is left; its deletions go on.                        *)
LeaveList ==
    /\ shown' = {}
    /\ deletions' = {[x EXCEPT !.seen = FALSE] : x \in deletions}

(* The effects of the first rendering: the draft is read, and then stored  *)
(* is what is shown so far, nothing.                                       *)
OpenBuilder ==
    /\ page = "list" /\ page' = "opening"
    /\ restored' = current /\ current' = NoDraft
    /\ questions' = <<>> /\ selected' = None /\ LeaveList
    /\ UNCHANGED <<saved, publishing>>

(* Every change is stored.                                                 *)
Show(qs, sel) ==
    /\ questions' = qs /\ selected' = sel
    /\ current' = Draft(qs, sel)

(* The second rendering.                                                   *)
Restore ==
    /\ page = "opening" /\ page' = "builder"
    /\ Show(restored.questions, IF restored.selected \in IdsOf(restored.questions)
                                THEN restored.selected ELSE None)
    /\ restored' = NoDraft
    /\ UNCHANGED <<saved, list, publishing>>

Edit(qs, sel) ==
    /\ page = "builder" /\ Show(qs, sel)
    /\ UNCHANGED <<saved, page, restored, list, publishing>>

Select(id) == id \in IdsOf(questions) /\ Edit(questions, id)

(* crypto.randomUUID: an identifier that is found nowhere.                 *)
Fresh(id) ==
    /\ id \notin IdsOf(questions)
    /\ \A d \in DraftIds : content[d] # None => id \notin IdsOf(content[d])
    /\ Len(questions) < MaxQuestions

Add(id, type) == Fresh(id) /\ Edit(Append(questions, NewQuestion(id, type)), id)

AddBetween(id, i) ==
    Fresh(id) /\ Edit(InsertAt(questions, i + 1, NewQuestion(id, "short_text")), id)

(* Mutant: the question that is deleted stays selected.                    *)
DeleteSelected(i) == Edit(RemoveAt(questions, i), selected)

Delete(i) ==
    Edit(RemoveAt(questions, i), IF selected = questions[i].id THEN None ELSE selected)

(* arrayMove.                                                              *)
Reorder(i, j) ==
    i # j /\ Edit(InsertAt(RemoveAt(questions, i), j, questions[i]), selected)

(* The title of the card; an empty one is no label.                        *)
Label(i) ==
    /\ questions[i].type \in LabelTypes
    /\ Edit([questions EXCEPT ![i].labelled = ~@], selected)

(* The options of the card and of the settings: a label is edited, also to *)
(* nothing, an option is removed, also the last, and one that is added has *)
(* a name.                                                                 *)
EditOptions(i, options) ==
    /\ questions[i].type \in ChoiceTypes
    /\ questions[i].options = "none" => options = "named"
    /\ Edit([questions EXCEPT ![i].options = options], selected)

(* The toggle of the settings is only there for inputs.                    *)
Require(i) ==
    /\ questions[i].type \in InputTypes
    /\ Edit([questions EXCEPT ![i].required = ~@], selected)

(* handleInitialize: the questions are those of the click; the builder can *)
(* be edited, and left, meanwhile.                                         *)
Publish ==
    /\ page = "builder" /\ ~publishing /\ Complete(questions)
    /\ publishing' = TRUE
    /\ UNCHANGED <<current, saved, page, editor, list>>

(* createForm succeeded: the draft is removed and the dashboard opened,    *)
(* wherever the user is by then; or something failed (Publication).        *)
Published ==
    /\ publishing /\ publishing' = FALSE
    /\ \/ /\ current' = NoDraft /\ page' = "list"
          /\ shown' = IF page = "list" THEN shown ELSE index
          /\ questions' = <<>> /\ selected' = None /\ restored' = NoDraft
          /\ UNCHANGED <<saved, deletions>>
       \/ UNCHANGED <<current, saved, page, editor, list>>

-----------------------------------------------------------------------------
(***************************************************************************)
(* Drafts with a name                                                      *)
(***************************************************************************)

(* To open the builder and name a draft takes longer than the 200 ms after *)
(* which what was deleted is gone.                                         *)
Saving(name) ==
    /\ page = "builder" /\ deletions = {}
    /\ Len(questions) <= MaxSaved
    /\ \A i \in DOMAIN questions : questions[i].type \in SavedTypes
    /\ lastSaved' = [lastSaved EXCEPT ![name] = questions]
    /\ UNCHANGED <<current, page, editor, list, publishing>>

(* crypto.randomUUID, of a draft.                                          *)
Unused(d) == content[d] = None /\ \A e \in index : e.id # d

(* Mutant: of a draft with the name the item is not written again.         *)
SaveNewOnly(name, d) ==
    /\ Saving(name)
    /\ IF \E e \in index : e.name = name
       THEN [id |-> d, name |-> name] \in index /\ UNCHANGED <<index, content>>
       ELSE /\ Unused(d)
            /\ content' = [content EXCEPT ![d] = questions]
            /\ index' = index \cup {[id |-> d, name |-> name]}

(* saveDraft: a draft with the name is written again, its entry is not.    *)
Save(name, d) ==
    /\ Saving(name)
    /\ content' = [content EXCEPT ![d] = questions]
    /\ IF \E e \in index : e.name = name
       THEN [id |-> d, name |-> name] \in index /\ UNCHANGED index
       ELSE Unused(d) /\ index' = index \cup {[id |-> d, name |-> name]}

(* handleLoad: an entry without its item is removed.                       *)
Load(e) ==
    /\ page = "list" /\ e \in shown
    /\ IF content[e.id] = None
       THEN /\ shown' = shown \ {e} /\ index' = shown \ {e}
            /\ UNCHANGED <<current, page, editor, deletions>>
       ELSE /\ page' = "opening" /\ restored' = Draft(content[e.id], None)
            /\ current' = NoDraft /\ questions' = <<>> /\ selected' = None /\ LeaveList
            /\ UNCHANGED index
    /\ UNCHANGED <<content, lastSaved, publishing>>

(* handleDelete: what will be left is known before the timeout.            *)
StartDelete(e) ==
    /\ page = "list" /\ e \in shown
    /\ deletions' = deletions \cup {[entry |-> e, left |-> shown \ {e}, seen |-> TRUE]}
    /\ UNCHANGED <<current, saved, page, editor, shown, publishing>>

FinishDelete(x) ==
    /\ deletions' = deletions \ {x}
    /\ index' = x.left /\ content' = [content EXCEPT ![x.entry.id] = None]
    /\ lastSaved' = [lastSaved EXCEPT ![x.entry.name] = None]
    /\ shown' = IF x.seen THEN x.left ELSE shown
    /\ UNCHANGED <<current, page, editor, publishing>>

(* The link to the dashboard; and a reload, which forgets what is pending. *)
Leave ==
    /\ page = "builder" /\ page' = "list" /\ shown' = index
    /\ questions' = <<>> /\ selected' = None
    /\ UNCHANGED <<current, saved, restored, deletions, publishing>>

Reload ==
    /\ page' = "list" /\ shown' = index /\ deletions' = {} /\ publishing' = FALSE
    /\ questions' = <<>> /\ selected' = None /\ restored' = NoDraft
    /\ UNCHANGED <<current, saved>>

Next ==
    \/ OpenBuilder \/ Restore \/ Publish \/ Published \/ Leave \/ Reload
    \/ \E id \in Ids : Select(id)
    \/ \E id \in Ids, type \in Types : Add(id, type)
    \/ \E i \in DOMAIN questions :
          \/ Delete(i) \/ Label(i) \/ Require(i)
          \/ \E options \in Options : EditOptions(i, options)
          \/ \E id \in Ids : AddBetween(id, i)
          \/ \E j \in DOMAIN questions : Reorder(i, j)
    \/ \E name \in Names, d \in DraftIds : Save(name, d)
    \/ \E e \in shown : Load(e) \/ StartDelete(e)
    \/ \E x \in deletions : FinishDelete(x)

Spec == Init /\ [][Next]_vars

-----------------------------------------------------------------------------
(* The builder never has a question selected that is not there, in what it *)
(* shows and in what it stores: after deletions, reloads, and drafts that  *)
(* were loaded, and that do not say what was selected in them.             *)
SelectionExists ==
    /\ selected \in IdsOf(questions) \cup {None}
    /\ current.selected \in IdsOf(current.questions) \cup {None}

(* Of a list of drafts: what can be loaded is what was saved last; ...     *)
LoadsLastSaved(drafts) ==
    \A e \in drafts :
        content[e.id] # None /\ lastSaved[e.name] # None => content[e.id] = lastSaved[e.name]

(* ... and what was saved can be loaded.                                   *)
Keeps(drafts, names) ==
    \A n \in names :
        lastSaved[n] # None => \E e \in drafts : e.name = n /\ content[e.id] # None

(* What was saved under a name and not deleted is in the index, and loads  *)
(* as it was saved last, whatever deletions of other drafts, of which      *)
(* several may be pending and each writes the index it began with, have    *)
(* overlapped.                                                             *)
LoadsWhatWasSaved == LoadsLastSaved(index) /\ Keeps(index, Names)

(* A survey that the builder publishes can be answered on the page where   *)
(* it is filled in.                                                        *)
PublishedIsAnswerable ==
    [][publishing' /\ ~publishing => \A i \in DOMAIN questions : Answerable(questions[i])]_vars

-----------------------------------------------------------------------------
(* The inductive invariant: the entries in all the lists, those of the     *)
(* storage, of the page and of the pending deletions, have an item and a   *)
(* name of their own; every list has all that was saved, but for what its  *)
(* deletion is about; ...                                                  *)
Entries   == [id : DraftIds, name : Names]
Deletions == [entry : Entries, left : SUBSET Entries, seen : BOOLEAN]

Known == index \cup shown \cup UNION {x.left \cup {x.entry} : x \in deletions}

ListsAreConsistent ==
    /\ index \subseteq Entries /\ shown \subseteq Entries /\ deletions \subseteq Deletions
    /\ \A e, f \in Known : e.id = f.id \/ e.name = f.name => e = f
    /\ LoadsLastSaved(Known)
    /\ Keeps(index, Names)
    /\ page = "list" => Keeps(shown, Names)
    /\ \A x \in deletions : Keeps(x.left, Names \ {x.entry.name})
    /\ page # "list" => shown = {} /\ \A x \in deletions : ~x.seen

(* and whatever is edited, stored or read is a sequence of questions.      *)
Forms == Seq(Questions)

FormsOK ==
    /\ questions \in Forms /\ current.questions \in Forms /\ restored.questions \in Forms
    /\ content \in [DraftIds -> Forms \cup {None}]
    /\ lastSaved \in [Names -> Forms \cup {None}]

Inductive == FormsOK /\ SelectionExists /\ ListsAreConsistent
=============================================================================
