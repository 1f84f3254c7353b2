-------------------------- MODULE FormEditor_proofs --------------------------
(***************************************************************************)
(* Theorems about FormEditor, for every number of questions, drafts and    *)
(* pending deletions.                                                      *)
(***************************************************************************)
EXTENDS FormEditor, SequenceTheorems, TLAPS

(* The first and the last questions of a form.                             *)
LEMMA Slices ==
  ASSUME NEW qs \in Forms, NEW i \in 1..Len(qs) + 1
  PROVE  /\ SubSeq(qs, 1, i - 1) \in Forms /\ Len(SubSeq(qs, 1, i - 1)) = i - 1
         /\ \A j \in 1..i - 1 : SubSeq(qs, 1, i - 1)[j] = qs[j]
         /\ SubSeq(qs, i, Len(qs)) \in Forms /\ Len(SubSeq(qs, i, Len(qs))) = Len(qs) + 1 - i
         /\ \A j \in 1..Len(qs) + 1 - i : SubSeq(qs, i, Len(qs))[j] = qs[i + j - 1]
<1>1. /\ Len(qs) \in Nat /\ i \in Int /\ 1 <= i /\ i <= Len(qs) + 1
      /\ \A j \in 1..Len(qs) : qs[j] \in Questions
  BY ElementOfSeq, LenProperties DEF Forms
<1>2. /\ SubSeq(qs, 1, i - 1) \in Seq(Questions)
      /\ Len(SubSeq(qs, 1, i - 1)) = IF 1 <= i - 1 THEN (i - 1) - 1 + 1 ELSE 0
      /\ \A j \in 1..(i - 1) - 1 + 1 : SubSeq(qs, 1, i - 1)[j] = qs[1 + j - 1]
  <2>1. 1 \in Int /\ i - 1 \in Int /\ \A j \in 1..i - 1 : qs[j] \in Questions
    BY <1>1
  <2>2. QED
    BY <2>1, SubSeqProperties
<1>3. /\ SubSeq(qs, i, Len(qs)) \in Seq(Questions)
      /\ Len(SubSeq(qs, i, Len(qs))) = IF i <= Len(qs) THEN Len(qs) - i + 1 ELSE 0
      /\ \A j \in 1..Len(qs) - i + 1 : SubSeq(qs, i, Len(qs))[j] = qs[i + j - 1]
  <2>1. i \in Int /\ Len(qs) \in Int /\ \A j \in i..Len(qs) : qs[j] \in Questions
    BY <1>1
  <2>2. QED
    BY <2>1, SubSeqProperties
<1>4. /\ (i - 1) - 1 + 1 = i - 1 /\ Len(qs) - i + 1 = Len(qs) + 1 - i
      /\ \A j \in 1..i - 1 : 1 + j - 1 = j
  BY <1>1
<1>5. QED
  BY <1>1, <1>2, <1>3, <1>4 DEF Forms

(* Where the questions are after two forms were joined.                    *)
LEMMA JoinedIds ==
  ASSUME NEW qs \in Forms, NEW rs \in Forms
  PROVE  qs \o rs \in Forms /\ IdsOf(qs \o rs) = IdsOf(qs) \cup IdsOf(rs)
<1>. DEFINE s == qs \o rs
<1>1. /\ s \in Seq(Questions) /\ Len(s) = Len(qs) + Len(rs)
      /\ \A i \in 1..Len(qs) + Len(rs) : s[i] = IF i <= Len(qs) THEN qs[i] ELSE rs[i - Len(qs)]
  BY ConcatProperties DEF Forms
<1>. HIDE DEF s
<1>2. /\ Len(qs) \in Nat /\ Len(rs) \in Nat /\ Len(s) \in Nat
      /\ DOMAIN qs = 1..Len(qs) /\ DOMAIN rs = 1..Len(rs) /\ DOMAIN s = 1..Len(s)
  BY <1>1, LenProperties DEF Forms
<1>3. \A i \in DOMAIN qs : i \in DOMAIN s /\ s[i] = qs[i]
  BY <1>1, <1>2
<1>4. \A i \in DOMAIN rs : i + Len(qs) \in DOMAIN s /\ s[i + Len(qs)] = rs[i]
  BY <1>1, <1>2
<1>5. \A i \in DOMAIN s : \/ i \in DOMAIN qs /\ s[i] = qs[i]
                          \/ i - Len(qs) \in DOMAIN rs /\ s[i] = rs[i - Len(qs)]
  BY <1>1, <1>2
<1>6. IdsOf(s) = IdsOf(qs) \cup IdsOf(rs)
  <2>1. IdsOf(qs) \subseteq IdsOf(s) /\ IdsOf(rs) \subseteq IdsOf(s)
    BY <1>3, <1>4 DEF IdsOf
  <2>2. IdsOf(s) \subseteq IdsOf(qs) \cup IdsOf(rs)
    BY <1>5 DEF IdsOf
  <2>3. QED
    BY <2>1, <2>2
<1>7. QED
  BY <1>1, <1>6 DEF s, Forms

(* A form of one question.                                                 *)
LEMMA OneQuestion ==
  ASSUME NEW q \in Questions
  PROVE  <<q>> \in Forms /\ Len(<<q>>) = 1 /\ IdsOf(<<q>>) = {q.id}
BY DEF Forms, IdsOf

(* A form is its first and its last questions.                             *)
LEMMA SliceIds ==
  ASSUME NEW qs \in Forms, NEW i \in 1..Len(qs) + 1
  PROVE  IdsOf(qs) = IdsOf(SubSeq(qs, 1, i - 1)) \cup IdsOf(SubSeq(qs, i, Len(qs)))
<1>. DEFINE f == SubSeq(qs, 1, i - 1)
            l == SubSeq(qs, i, Len(qs))
<1>1. /\ f \in Seq(Questions) /\ Len(f) = i - 1
      /\ \A j \in 1..i - 1 : f[j] = qs[j]
      /\ l \in Seq(Questions) /\ Len(l) = Len(qs) + 1 - i
      /\ \A j \in 1..Len(qs) + 1 - i : l[j] = qs[i + j - 1]
  BY Slices DEF Forms
<1>. HIDE DEF f, l
<1>2. /\ Len(qs) \in Nat /\ i \in Int /\ 1 <= i /\ i <= Len(qs) + 1
      /\ DOMAIN qs = 1..Len(qs) /\ DOMAIN f = 1..i - 1 /\ DOMAIN l = 1..Len(qs) + 1 - i
  BY <1>1, LenProperties DEF Forms
<1>3. \A j \in DOMAIN f : j \in DOMAIN qs /\ f[j] = qs[j]
  BY <1>1, <1>2
<1>4. \A j \in DOMAIN l : i + j - 1 \in DOMAIN qs /\ l[j] = qs[i + j - 1]
  BY <1>1, <1>2
<1>5. \A j \in DOMAIN qs : \/ j \in DOMAIN f /\ f[j] = qs[j]
                           \/ j - i + 1 \in DOMAIN l /\ l[j - i + 1] = qs[j]
  <2>1. ASSUME NEW j \in DOMAIN qs, i <= j
        PROVE  j - i + 1 \in DOMAIN l /\ l[j - i + 1] = qs[j]
    <3>1. j - i + 1 \in 1..Len(qs) + 1 - i /\ i + (j - i + 1) - 1 = j
      BY <1>2, <2>1
    <3>2. QED
      BY <1>1, <1>2, <3>1
  <2>2. ASSUME NEW j \in DOMAIN qs, j < i
        PROVE  j \in DOMAIN f /\ f[j] = qs[j]
    BY <1>1, <1>2, <2>2
  <2>3. QED
    BY <1>2, <2>1, <2>2
<1>6. IdsOf(qs) = IdsOf(f) \cup IdsOf(l)
  <2>1. IdsOf(f) \subseteq IdsOf(qs) /\ IdsOf(l) \subseteq IdsOf(qs)
    BY <1>3, <1>4 DEF IdsOf
  <2>2. IdsOf(qs) \subseteq IdsOf(f) \cup IdsOf(l)
    BY <1>5 DEF IdsOf
  <2>3. QED
    BY <2>1, <2>2
<1>7. QED
  BY <1>6 DEF f, l

(* A question that is inserted adds its identifier, ...                    *)
LEMMA InsertAtIds ==
  ASSUME NEW qs \in Forms, NEW q \in Questions, NEW i \in 1..Len(qs) + 1
  PROVE  /\ InsertAt(qs, i, q) \in Forms
         /\ IdsOf(InsertAt(qs, i, q)) = IdsOf(qs) \cup {q.id}
<1>. DEFINE f == SubSeq(qs, 1, i - 1)
            l == SubSeq(qs, i, Len(qs))
<1>1. f \in Forms /\ l \in Forms /\ IdsOf(qs) = IdsOf(f) \cup IdsOf(l)
  BY Slices, SliceIds
<1>2. InsertAt(qs, i, q) = f \o <<q>> \o l
  BY DEF InsertAt
<1>. HIDE DEF f, l
<1>3. f \o <<q>> \in Forms /\ IdsOf(f \o <<q>>) = IdsOf(f) \cup {q.id}
  BY <1>1, OneQuestion, JoinedIds
<1>4. /\ f \o <<q>> \o l \in Forms
      /\ IdsOf(f \o <<q>> \o l) = IdsOf(f \o <<q>>) \cup IdsOf(l)
  BY <1>1, <1>3, JoinedIds
<1>5. QED
  BY <1>1, <1>2, <1>3, <1>4

(* ... and one that is removed no other than its own.                      *)
LEMMA RemoveAtIds ==
  ASSUME NEW qs \in Forms, NEW i \in 1..Len(qs)
  PROVE  /\ RemoveAt(qs, i) \in Forms /\ Len(RemoveAt(qs, i)) = Len(qs) - 1
         /\ IdsOf(qs) = IdsOf(RemoveAt(qs, i)) \cup {qs[i].id}
<1>1. PICK n \in Nat : n = Len(qs)
  BY LenProperties DEF Forms
<1>2. /\ i \in Nat /\ 1 <= i /\ i <= n
      /\ i \in 1..n + 1 /\ i + 1 \in 1..n + 1
  BY <1>1
<1>3. /\ n + 1 - (i + 1) = n - i /\ 1 \in 1..n + 1 - i /\ i + 1 - 1 = i
      /\ \A j \in 1..n - i : i + 1 + j - 1 = i + j /\ j + 1 \in 1..n + 1 - i /\ i + (j + 1) - 1 = i + j
      /\ \A j \in 1..n + 1 - i : j = 1 \/ (j - 1 \in 1..n - i /\ i + j - 1 = i + (j - 1))
  BY <1>2
<1>. DEFINE f == SubSeq(qs, 1, i - 1)
            l == SubSeq(qs, i, Len(qs))
            r == SubSeq(qs, i + 1, Len(qs))
<1>4. /\ f \in Forms /\ Len(f) = i - 1
      /\ l \in Forms /\ IdsOf(qs) = IdsOf(f) \cup IdsOf(l)
      /\ \A j \in 1..n + 1 - i : l[j] = qs[i + j - 1]
      /\ Len(l) = n + 1 - i
  BY <1>1, <1>2, Slices, SliceIds
<1>5. /\ r \in Forms /\ Len(r) = n - i
      /\ \A j \in 1..n - i : r[j] = qs[i + j]
  BY <1>1, <1>2, <1>3, Slices
<1>6. RemoveAt(qs, i) = f \o r
  BY DEF RemoveAt
<1>. HIDE DEF f, l, r
<1>7. DOMAIN l = 1..n + 1 - i /\ DOMAIN r = 1..n - i
  BY <1>4, <1>5, LenProperties DEF Forms
<1>8. IdsOf(l) = IdsOf(r) \cup {qs[i].id}
  <2>1. 1 \in DOMAIN l /\ l[1] = qs[i]
    BY <1>3, <1>4, <1>7
  <2>2. \A j \in DOMAIN r : j + 1 \in DOMAIN l /\ l[j + 1] = r[j]
    BY <1>3, <1>4, <1>5, <1>7
  <2>3. \A j \in DOMAIN l : j = 1 \/ (j - 1 \in DOMAIN r /\ l[j] = r[j - 1])
    BY <1>3, <1>4, <1>5, <1>7
  <2>4. IdsOf(r) \subseteq IdsOf(l) /\ qs[i].id \in IdsOf(l)
    BY <2>1, <2>2 DEF IdsOf
  <2>5. IdsOf(l) \subseteq IdsOf(r) \cup {qs[i].id}
    BY <2>1, <2>3 DEF IdsOf
  <2>6. QED
    BY <2>4, <2>5
<1>9. f \o r \in Forms /\ IdsOf(f \o r) = IdsOf(f) \cup IdsOf(r)
  BY <1>4, <1>5, JoinedIds
<1>10. Len(f \o r) = n - 1
  <2>1. Len(f \o r) = Len(f) + Len(r)
    BY <1>4, <1>5, ConcatProperties DEF Forms
  <2>2. QED
    BY <1>2, <1>4, <1>5, <2>1
<1>11. QED
  BY <1>1, <1>4, <1>6, <1>8, <1>9, <1>10

(* A question that is replaced by one with its identifier.                 *)
LEMMA ReplacedIds ==
  ASSUME NEW qs \in Forms, NEW i \in 1..Len(qs), NEW q \in Questions, q.id = qs[i].id
  PROVE  [qs EXCEPT ![i] = q] \in Forms /\ IdsOf([qs EXCEPT ![i] = q]) = IdsOf(qs)
<1>. DEFINE r == [qs EXCEPT ![i] = q]
<1>1. /\ r \in Seq(Questions) /\ DOMAIN r = DOMAIN qs
      /\ \A j \in DOMAIN qs : r[j].id = qs[j].id
  BY ExceptSeq, LenProperties DEF Forms
<1>. HIDE DEF r
<1>2. IdsOf(r) = IdsOf(qs)
  BY <1>1 DEF IdsOf
<1>3. QED
  BY <1>1, <1>2 DEF r, Forms

-----------------------------------------------------------------------------
(* A form without questions.                                               *)
LEMMA EmptyForm == <<>> \in Forms /\ IdsOf(<<>>) = {}
  BY DEF Forms, IdsOf

(* A browser that has stored nothing.                                      *)
LEMMA InitInductive == Init => Inductive
<1>. SUFFICES ASSUME Init PROVE Inductive
  OBVIOUS
<1>. USE DEF Init
<1>1. FormsOK
  BY EmptyForm DEF FormsOK, NoDraft, Draft
<1>2. SelectionExists
  BY DEF SelectionExists, NoDraft, Draft
<1>3. ListsAreConsistent
  BY DEF ListsAreConsistent, Known, LoadsLastSaved, Keeps
<1>4. QED
  BY <1>1, <1>2, <1>3 DEF Inductive

(* A new question.                                                         *)
LEMMA NewQuestions ==
  ASSUME NEW id \in Ids, NEW type \in Types \cup {"short_text"}
  PROVE  NewQuestion(id, type) \in Questions /\ NewQuestion(id, type).id = id
BY DEF NewQuestion, Questions, Options

(* The lists on the page and in the deletions may be forgotten, or read    *)
(* again from the index.                                                   *)
LEMMA ListsInductive ==
  ASSUME ListsAreConsistent, UNCHANGED <<index, content, lastSaved>>,
         shown' \in {{}, shown, index}, page' # "list" => shown' = {},
         page' = "list" => shown' = index \/ (page = "list" /\ shown' = shown),
         \/ deletions' = deletions /\ (page = "list" => page' = "list")
         \/ deletions' = {}
         \/ deletions' = {[x EXCEPT !.seen = FALSE] : x \in deletions}
  PROVE  ListsAreConsistent'
<1>. USE DEF ListsAreConsistent
<1>1. /\ deletions' \subseteq Deletions
      /\ \A x \in deletions' : \E y \in deletions : x.left = y.left /\ x.entry = y.entry
      /\ page' # "list" => \A x \in deletions' : ~x.seen
  <2>1. CASE deletions' = {} \/ (deletions' = deletions /\ (page = "list" => page' = "list"))
    BY <2>1
  <2>2. CASE deletions' = {[x EXCEPT !.seen = FALSE] : x \in deletions}
    BY <2>2 DEF Deletions
  <2>3. QED
    BY <2>1, <2>2
<1>2. Known' \subseteq Known
  BY <1>1 DEF Known
<1>3. /\ \A e, f \in Known' : e.id = f.id \/ e.name = f.name => e = f
      /\ LoadsLastSaved(Known)'
  BY <1>2 DEF LoadsLastSaved
<1>4. /\ Keeps(index, Names)' /\ (page' = "list" => Keeps(shown, Names)')
      /\ \A x \in deletions' : Keeps(x.left, Names \ {x.entry.name})'
  BY <1>1 DEF Keeps
<1>5. QED
  BY <1>1, <1>3, <1>4

(* The callbacks of the builder leave a form and a selection in it.        *)
LEMMA EditInductive ==
  ASSUME Inductive, NEW qs \in Forms, NEW sel \in IdsOf(qs) \cup {None}, Edit(qs, sel)
  PROVE  Inductive'
<1>1. /\ questions' = qs /\ selected' = sel /\ current' = Draft(qs, sel)
      /\ UNCHANGED <<index, content, lastSaved, page, restored, shown, deletions>>
  BY DEF Edit, Show, saved, list
<1>2. FormsOK'
  BY <1>1 DEF Inductive, FormsOK, Draft
<1>3. SelectionExists'
  BY <1>1 DEF SelectionExists, Draft
<1>4. ListsAreConsistent'
  <2>1. page' # "list" => shown' = {}
    BY <1>1 DEF Inductive, ListsAreConsistent
  <2>2. QED
    BY <1>1, <2>1, ListsInductive DEF Inductive
<1>5. QED
  BY <1>2, <1>3, <1>4 DEF Inductive

(* A question is added at the end, or between two.                         *)
LEMMA AddInductive ==
  ASSUME Inductive, NEW id \in Ids,
         \/ \E type \in Types : Add(id, type)
         \/ \E i \in DOMAIN questions : AddBetween(id, i)
  PROVE  Inductive'
<1>1. questions \in Forms /\ questions \in Seq(Questions)
  BY DEF Inductive, FormsOK, Forms
<1>2. ASSUME NEW type \in Types, Add(id, type) PROVE Inductive'
  <2>. DEFINE q == NewQuestion(id, type)
  <2>1. q \in Questions /\ q.id = id
    BY NewQuestions
  <2>. HIDE DEF q
  <2>2. Append(questions, q) = questions \o <<q>>
    BY <1>1, <2>1, AppendIsConcat
  <2>3. Append(questions, q) \in Forms /\ id \in IdsOf(Append(questions, q))
    BY <1>1, <2>1, <2>2, OneQuestion, JoinedIds
  <2>4. Edit(Append(questions, q), id)
    BY <1>2 DEF Add, q
  <2>5. QED
    BY <2>3, <2>4, EditInductive
<1>3. ASSUME NEW i \in DOMAIN questions, AddBetween(id, i) PROVE Inductive'
  <2>. DEFINE q == NewQuestion(id, "short_text")
  <2>1. q \in Questions /\ q.id = id
    BY NewQuestions
  <2>2. i + 1 \in 1..Len(questions) + 1
    BY <1>1, LenProperties
  <2>. DEFINE qs == InsertAt(questions, i + 1, q)
  <2>3. Edit(qs, id)
    BY <1>3 DEF AddBetween
  <2>. HIDE DEF q
  <2>4. qs \in Forms /\ id \in IdsOf(qs)
    BY <1>1, <2>1, <2>2, InsertAtIds
  <2>. HIDE DEF qs
  <2>5. QED
    BY <2>3, <2>4, EditInductive
<1>4. QED
  BY <1>2, <1>3

(* A question is deleted, labelled, switched to optional, given options,   *)
(* or moved.                                                               *)
LEMMA ChangeInductive ==
  ASSUME Inductive, NEW i \in DOMAIN questions,
         \/ Delete(i) \/ Label(i) \/ Require(i)
         \/ \E options \in Options : EditOptions(i, options)
         \/ \E j \in DOMAIN questions : Reorder(i, j)
  PROVE  Inductive'
<1>1. /\ questions \in Forms /\ questions \in Seq(Questions)
      /\ selected \in IdsOf(questions) \cup {None}
  BY DEF Inductive, FormsOK, Forms, SelectionExists
<1>2. /\ Len(questions) \in Nat /\ i \in 1..Len(questions)
      /\ DOMAIN questions = 1..Len(questions)
      /\ questions[i] \in Questions
  BY <1>1, LenProperties, ElementOfSeq
<1>. DEFINE qs == RemoveAt(questions, i)
<1>3. /\ qs \in Forms /\ Len(qs) = Len(questions) - 1
      /\ IdsOf(questions) = IdsOf(qs) \cup {questions[i].id}
  BY <1>1, <1>2, RemoveAtIds
<1>4. CASE Delete(i)
  <2>. DEFINE sel == IF selected = questions[i].id THEN None ELSE selected
  <2>1. Edit(qs, sel)
    BY <1>4 DEF Delete
  <2>2. sel \in IdsOf(qs) \cup {None}
    BY <1>1, <1>3
  <2>. HIDE DEF qs, sel
  <2>3. QED
    BY <1>3, <2>1, <2>2, EditInductive
<1>5. ASSUME NEW q \in Questions, q.id = questions[i].id,
             Edit([questions EXCEPT ![i] = q], selected)
      PROVE  Inductive'
  <2>1. /\ [questions EXCEPT ![i] = q] \in Forms
        /\ IdsOf([questions EXCEPT ![i] = q]) = IdsOf(questions)
    BY <1>1, <1>2, <1>5, ReplacedIds
  <2>2. QED
    BY <1>1, <1>5, <2>1, EditInductive
<1>6. CASE Label(i)
  <2>. DEFINE q == [questions[i] EXCEPT !.labelled = ~@]
  <2>1. Edit([questions EXCEPT ![i].labelled = ~@], selected)
    BY <1>6 DEF Label
  <2>2. [questions EXCEPT ![i].labelled = ~@] = [questions EXCEPT ![i] = q]
    BY Zenon
  <2>3. q \in Questions /\ q.id = questions[i].id
    BY <1>2 DEF Questions
  <2>. HIDE DEF q
  <2>4. QED
    BY <1>5, <2>1, <2>2, <2>3
<1>7. CASE Require(i)
  <2>. DEFINE q == [questions[i] EXCEPT !.required = ~@]
  <2>1. Edit([questions EXCEPT ![i].required = ~@], selected)
    BY <1>7 DEF Require
  <2>2. [questions EXCEPT ![i].required = ~@] = [questions EXCEPT ![i] = q]
    BY Zenon
  <2>3. q \in Questions /\ q.id = questions[i].id
    BY <1>2 DEF Questions
  <2>. HIDE DEF q
  <2>4. QED
    BY <1>5, <2>1, <2>2, <2>3
<1>8. ASSUME NEW j \in DOMAIN questions, Reorder(i, j) PROVE Inductive'
  <2>1. Edit(InsertAt(qs, j, questions[i]), selected)
    BY <1>8 DEF Reorder
  <2>2. j \in 1..Len(qs) + 1
    BY <1>2, <1>3
  <2>. HIDE DEF qs
  <2>3. /\ InsertAt(qs, j, questions[i]) \in Forms
        /\ IdsOf(InsertAt(qs, j, questions[i])) = IdsOf(questions)
    BY <1>2, <1>3, <2>2, InsertAtIds
  <2>4. QED
    BY <1>1, <2>1, <2>3, EditInductive
<1>9. ASSUME NEW options \in Options, EditOptions(i, options) PROVE Inductive'
  <2>. DEFINE q == [questions[i] EXCEPT !.options = options]
  <2>1. Edit([questions EXCEPT ![i].options = options], selected)
    BY <1>9 DEF EditOptions
  <2>2. [questions EXCEPT ![i].options = options] = [questions EXCEPT ![i] = q]
    BY Zenon
  <2>3. q \in Questions /\ q.id = questions[i].id
    BY <1>2 DEF Questions
  <2>. HIDE DEF q
  <2>4. QED
    BY <1>5, <2>1, <2>2, <2>3
<1>10. QED
  BY <1>4, <1>6, <1>7, <1>8, <1>9

(* The pages are opened, left and reloaded, and a form is published.       *)
LEMMA PageInductive ==
  ASSUME Inductive,
         OpenBuilder \/ Restore \/ Publish \/ Published \/ Leave \/ Reload
  PROVE  Inductive'
<1>. USE DEF Inductive
<1>1. ASSUME UNCHANGED saved,
             shown' \in {{}, shown, index}, page' # "list" => shown' = {},
             page' = "list" => shown' = index \/ (page = "list" /\ shown' = shown),
             \/ deletions' = deletions /\ (page = "list" => page' = "list")
             \/ deletions' = {}
             \/ deletions' = {[x EXCEPT !.seen = FALSE] : x \in deletions}
      PROVE  ListsAreConsistent'
  BY <1>1, ListsInductive DEF saved
<1>2. ASSUME UNCHANGED saved,
             questions' \in Forms, current'.questions \in Forms, restored'.questions \in Forms
      PROVE  FormsOK'
  BY <1>2 DEF FormsOK, saved
<1>3. NoDraft.questions = <<>> /\ NoDraft.selected = None
  BY DEF NoDraft, Draft
<1>4. CASE OpenBuilder
  <2>1. FormsOK'
    BY <1>2, <1>3, <1>4, EmptyForm DEF OpenBuilder, FormsOK
  <2>2. SelectionExists'
    BY <1>3, <1>4, EmptyForm DEF OpenBuilder, SelectionExists
  <2>3. ListsAreConsistent'
    BY <1>1, <1>4 DEF OpenBuilder, LeaveList
  <2>4. QED
    BY <2>1, <2>2, <2>3
<1>5. CASE Restore
  <2>1. PICK sel \in IdsOf(restored.questions) \cup {None} : Show(restored.questions, sel)
    BY <1>5 DEF Restore
  <2>2. /\ questions' = restored.questions /\ selected' = sel
        /\ current'.questions = restored.questions /\ current'.selected = sel
    BY <2>1 DEF Show, Draft
  <2>3. FormsOK'
    BY <1>2, <1>3, <1>5, <2>2, EmptyForm DEF Restore, FormsOK
  <2>4. SelectionExists'
    BY <2>2 DEF SelectionExists
  <2>5. ListsAreConsistent'
    BY <1>1, <1>5 DEF Restore, list, ListsAreConsistent
  <2>6. QED
    BY <2>3, <2>4, <2>5
<1>6. CASE Publish
  <2>1. UNCHANGED <<current, saved, page, editor, list>>
    BY <1>6 DEF Publish
  <2>2. FormsOK'
    BY <1>2, <2>1 DEF FormsOK, editor
  <2>3. SelectionExists'
    BY <2>1 DEF SelectionExists, editor
  <2>4. ListsAreConsistent'
    BY <1>1, <2>1 DEF list, ListsAreConsistent
  <2>5. QED
    BY <2>2, <2>3, <2>4
<1>7. CASE Published
  <2>1. CASE UNCHANGED <<current, saved, page, editor, list>>
    <3>1. FormsOK'
      BY <1>2, <2>1 DEF FormsOK, editor
    <3>2. SelectionExists'
      BY <2>1 DEF SelectionExists, editor
    <3>3. ListsAreConsistent'
      BY <1>1, <2>1 DEF list, ListsAreConsistent
    <3>4. QED
      BY <3>1, <3>2, <3>3
  <2>2. CASE /\ current' = NoDraft /\ page' = "list"
             /\ shown' = IF page = "list" THEN shown ELSE index
             /\ questions' = <<>> /\ selected' = None /\ restored' = NoDraft
             /\ UNCHANGED <<saved, deletions>>
    <3>1. FormsOK'
      BY <1>2, <1>3, <2>2, EmptyForm
    <3>2. SelectionExists'
      BY <1>3, <2>2, EmptyForm DEF SelectionExists
    <3>3. ListsAreConsistent'
      BY <1>1, <2>2
    <3>4. QED
      BY <3>1, <3>2, <3>3
  <2>3. QED
    BY <1>7, <2>1, <2>2 DEF Published
<1>8. CASE Leave
  <2>1. FormsOK'
    BY <1>2, <1>8, EmptyForm DEF Leave, FormsOK
  <2>2. SelectionExists'
    BY <1>8, EmptyForm DEF Leave, SelectionExists
  <2>3. ListsAreConsistent'
    BY <1>1, <1>8 DEF Leave
  <2>4. QED
    BY <2>1, <2>2, <2>3
<1>9. CASE Reload
  <2>1. FormsOK'
    BY <1>2, <1>3, <1>9, EmptyForm DEF Reload, FormsOK
  <2>2. SelectionExists'
    BY <1>9, EmptyForm DEF Reload, SelectionExists
  <2>3. ListsAreConsistent'
    BY <1>1, <1>9 DEF Reload
  <2>4. QED
    BY <2>1, <2>2, <2>3
<1>10. QED
  BY <1>4, <1>5, <1>6, <1>7, <1>8, <1>9

(* A draft is saved under a name, its index and its item.                  *)
LEMMA SaveInductive ==
  ASSUME Inductive, NEW name \in Names, NEW d \in DraftIds, Save(name, d)
  PROVE  Inductive'
<1>. USE DEF Inductive
<1>1. /\ lastSaved' = [lastSaved EXCEPT ![name] = questions]
      /\ content' = [content EXCEPT ![d] = questions]
      /\ shown = {} /\ deletions = {}
      /\ UNCHANGED <<current, page, questions, selected, restored, shown, deletions>>
  BY DEF Save, Saving, editor, list, ListsAreConsistent
<1>. DEFINE e == [id |-> d, name |-> name]
<1>2. /\ e \in Entries /\ e.id = d /\ e.name = name
      /\ index \subseteq Entries /\ Known = index
      /\ \A f, g \in index : f.id = g.id \/ f.name = g.name => f = g
  BY <1>1 DEF ListsAreConsistent, Known, Entries
<1>. HIDE DEF e
<1>3. /\ index' = index \cup {e}
      /\ \A f \in index : f.id = d \/ f.name = name => f = e
  <2>1. CASE \E f \in index : f.name = name
    BY <1>2, <2>1 DEF Save, e
  <2>2. CASE ~\E f \in index : f.name = name
    BY <2>2 DEF Save, Unused, e
  <2>3. QED
    BY <2>1, <2>2
<1>4. FormsOK'
  BY <1>1 DEF FormsOK
<1>5. SelectionExists'
  BY <1>1 DEF SelectionExists
<1>6. ListsAreConsistent'
  <2>1. Known' = index' /\ index' \subseteq Entries
    BY <1>1, <1>2, <1>3 DEF Known
  <2>2. \A f, g \in index' : f.id = g.id \/ f.name = g.name => f = g
    BY <1>2, <1>3
  <2>3. content'[d] = questions /\ lastSaved'[name] = questions
    BY <1>1 DEF FormsOK
  <2>4. ASSUME NEW f \in index, f # e
        PROVE  content'[f.id] = content[f.id] /\ lastSaved'[f.name] = lastSaved[f.name]
    <3>1. f.id # d /\ f.name # name /\ f.id \in DraftIds /\ f.name \in Names
      BY <1>2, <1>3, <2>4 DEF Entries
    <3>2. QED
      BY <1>1, <3>1 DEF FormsOK
  <2>5. LoadsLastSaved(index)'
    BY <1>2, <1>3, <2>3, <2>4 DEF ListsAreConsistent, LoadsLastSaved
  <2>6. Keeps(index, Names)'
    <3>1. SUFFICES ASSUME NEW n \in Names, lastSaved'[n] # None
                   PROVE  \E f \in index' : f.name = n /\ content'[f.id] # None
      BY DEF Keeps
    <3>2. CASE n = name
      BY <1>2, <1>3, <2>3, <3>1, <3>2
    <3>3. CASE n # name
      <4>1. lastSaved[n] # None
        BY <1>1, <3>1, <3>3 DEF FormsOK
      <4>2. PICK f \in index : f.name = n /\ content[f.id] # None
        BY <4>1 DEF ListsAreConsistent, Keeps
      <4>3. QED
        BY <1>2, <1>3, <2>4, <3>3, <4>2
    <3>4. QED
      BY <3>2, <3>3
  <2>7. QED
    BY <1>1, <2>1, <2>2, <2>5, <2>6 DEF ListsAreConsistent, Save, Saving
<1>7. QED
  BY <1>4, <1>5, <1>6

(* A draft is loaded, and its entry is removed if its item is gone.        *)
LEMMA LoadInductive ==
  ASSUME Inductive, NEW e \in shown, Load(e)
  PROVE  Inductive'
<1>. USE DEF Inductive
<1>1. /\ page = "list" /\ UNCHANGED <<content, lastSaved>>
      /\ e \in [id : DraftIds, name : Names]
  BY DEF Load, ListsAreConsistent, Entries
<1>2. CASE content[e.id] = None
  <2>1. /\ shown' = shown \ {e} /\ index' = shown \ {e}
        /\ UNCHANGED <<current, page, editor, deletions>>
    BY <1>2 DEF Load
  <2>2. FormsOK' /\ SelectionExists'
    BY <1>1, <2>1 DEF FormsOK, SelectionExists, editor
  <2>3. Known' \subseteq Known
    BY <2>1 DEF Known
  <2>4. Keeps(shown, Names)' /\ Keeps(index, Names)'
    BY <1>1, <1>2, <2>1 DEF ListsAreConsistent, Keeps
  <2>5. ListsAreConsistent'
    BY <1>1, <2>1, <2>3, <2>4 DEF ListsAreConsistent, LoadsLastSaved, Keeps
  <2>6. QED
    BY <2>2, <2>5
<1>3. CASE content[e.id] # None
  <2>1. /\ page' = "opening" /\ restored' = Draft(content[e.id], None)
        /\ current' = NoDraft /\ questions' = <<>> /\ selected' = None /\ LeaveList
        /\ index' = index
    BY <1>3 DEF Load
  <2>2. restored'.questions \in Forms
    BY <1>1, <1>3, <2>1 DEF Draft, FormsOK
  <2>3. current'.questions = <<>> /\ current'.selected = None
    BY <2>1 DEF NoDraft, Draft
  <2>4. FormsOK'
    BY <1>1, <2>1, <2>2, <2>3, EmptyForm DEF FormsOK
  <2>5. SelectionExists'
    BY <2>1, <2>3 DEF SelectionExists
  <2>6. ListsAreConsistent'
    BY <1>1, <2>1, ListsInductive DEF LeaveList
  <2>7. QED
    BY <2>4, <2>5, <2>6
<1>4. QED
  BY <1>2, <1>3

(* A deletion begins with the list that is shown, and ends with it.        *)
LEMMA DeletionInductive ==
  ASSUME Inductive,
         \/ \E e \in shown : StartDelete(e)
         \/ \E x \in deletions : FinishDelete(x)
  PROVE  Inductive'
<1>. USE DEF Inductive
<1>1. ASSUME NEW e \in shown, StartDelete(e) PROVE Inductive'
  <2>1. /\ deletions' = deletions \cup {[entry |-> e, left |-> shown \ {e}, seen |-> TRUE]}
        /\ UNCHANGED <<current, index, content, lastSaved, page, questions, selected, restored,
                       shown>>
    BY <1>1 DEF StartDelete, saved, editor
  <2>2. FormsOK' /\ SelectionExists'
    BY <2>1 DEF FormsOK, SelectionExists
  <2>. DEFINE x == [entry |-> e, left |-> shown \ {e}, seen |-> TRUE]
  <2>3. x \in Deletions /\ x.entry = e /\ x.left = shown \ {e}
    BY DEF ListsAreConsistent, Deletions
  <2>. HIDE DEF x
  <2>4. deletions' = deletions \cup {x} /\ page = "list"
    BY <1>1, <2>1 DEF x, StartDelete
  <2>5. Known' = Known
    BY <2>1, <2>3, <2>4 DEF Known
  <2>6. Keeps(shown \ {e}, Names \ {e.name})'
    BY <2>1, <2>4 DEF ListsAreConsistent, Keeps
  <2>7. \A y \in deletions' : Keeps(y.left, Names \ {y.entry.name})'
    BY <2>1, <2>3, <2>4, <2>6 DEF ListsAreConsistent, Keeps
  <2>8. ListsAreConsistent'
    BY <2>1, <2>3, <2>4, <2>5, <2>7 DEF ListsAreConsistent, LoadsLastSaved, Keeps
  <2>9. QED
    BY <2>2, <2>8
<1>2. ASSUME NEW x \in deletions, FinishDelete(x) PROVE Inductive'
  <2>1. /\ deletions' = deletions \ {x} /\ index' = x.left
        /\ content' = [content EXCEPT ![x.entry.id] = None]
        /\ lastSaved' = [lastSaved EXCEPT ![x.entry.name] = None]
        /\ shown' \in {shown, x.left} /\ (page # "list" => shown' = {})
        /\ UNCHANGED <<current, page, questions, selected, restored>>
    BY <1>2 DEF FinishDelete, editor, ListsAreConsistent
  <2>2. FormsOK' /\ SelectionExists'
    BY <2>1 DEF FormsOK, SelectionExists
  <2>3. /\ x.entry \in Entries /\ x.left \subseteq Entries /\ x.entry \in Known
        /\ x.left \subseteq Known /\ Known \subseteq Entries
        /\ \A y \in deletions : y.left \subseteq Known
        /\ index \subseteq Known /\ shown \subseteq Known
    BY DEF ListsAreConsistent, Known, Deletions
  <2>4. Known' \subseteq Known
    BY <2>1, <2>3 DEF Known
  <2>5. LoadsLastSaved(Known)'
    <3>1. ASSUME NEW f \in Entries
          PROVE  /\ content'[f.id] \in {content[f.id], None}
                 /\ lastSaved'[f.name] \in {lastSaved[f.name], None}
      BY <2>1 DEF Entries, FormsOK
    <3>2. QED
      BY <2>3, <2>4, <3>1 DEF ListsAreConsistent, LoadsLastSaved
  <2>6. ASSUME NEW drafts \in SUBSET Known, NEW names \in SUBSET Names,
               Keeps(drafts, names \ {x.entry.name})
        PROVE  Keeps(drafts, names)'
    <3>1. SUFFICES ASSUME NEW n \in names, lastSaved'[n] # None
                   PROVE  \E f \in drafts : f.name = n /\ content'[f.id] # None
      BY DEF Keeps
    <3>2. n # x.entry.name /\ lastSaved[n] # None
      BY <2>1, <2>3, <3>1 DEF FormsOK, Entries
    <3>3. PICK f \in drafts : f.name = n /\ content[f.id] # None
      BY <2>6, <3>2 DEF Keeps
    <3>4. f.id # x.entry.id /\ f.id \in DraftIds
      BY <2>3, <3>2, <3>3 DEF ListsAreConsistent, Entries
    <3>5. QED
      BY <2>1, <3>3, <3>4 DEF FormsOK
  <2>7. Keeps(x.left, Names)'
    BY <2>3, <2>6 DEF ListsAreConsistent
  <2>8. page = "list" => Keeps(shown, Names \ {x.entry.name})
    BY DEF ListsAreConsistent, Keeps
  <2>9. page = "list" => shown' = x.left \/ (shown' = shown /\ Keeps(shown, Names)')
    BY <2>1, <2>3, <2>6, <2>8
  <2>10. Keeps(index, Names)' /\ (page' = "list" => Keeps(shown, Names)')
    BY <2>1, <2>7, <2>9 DEF Keeps
  <2>11. ASSUME NEW y \in deletions
         PROVE  Keeps(y.left, Names \ {y.entry.name})'
    <3>1. Keeps(y.left, (Names \ {y.entry.name}) \ {x.entry.name})
      BY DEF ListsAreConsistent, Keeps
    <3>2. QED
      BY <2>3, <2>6, <3>1
  <2>12. ListsAreConsistent'
    BY <2>1, <2>3, <2>4, <2>5, <2>10, <2>11 DEF ListsAreConsistent, LoadsLastSaved, Keeps
  <2>13. QED
    BY <2>2, <2>12
<1>3. QED
  BY <1>1, <1>2

(* The inductive step, action by action.                                   *)
LEMMA NextInductive == Inductive /\ [Next]_vars => Inductive'
<1>. SUFFICES ASSUME Inductive, [Next]_vars PROVE Inductive'
  OBVIOUS
<1>1. CASE OpenBuilder \/ Restore \/ Publish \/ Published \/ Leave \/ Reload
  BY <1>1, PageInductive
<1>2. ASSUME NEW id \in Ids, Select(id) PROVE Inductive'
  <2>1. questions \in Forms /\ id \in IdsOf(questions) /\ Edit(questions, id)
    BY <1>2 DEF Select, Inductive, FormsOK
  <2>2. QED
    BY <2>1, EditInductive
<1>3. ASSUME NEW id \in Ids, NEW type \in Types, Add(id, type) PROVE Inductive'
  BY <1>3, AddInductive
<1>4. ASSUME NEW i \in DOMAIN questions, NEW id \in Ids, AddBetween(id, i) PROVE Inductive'
  BY <1>4, AddInductive
<1>5. ASSUME NEW i \in DOMAIN questions,
             \/ Delete(i) \/ Label(i) \/ Require(i)
             \/ \E options \in Options : EditOptions(i, options)
             \/ \E j \in DOMAIN questions : Reorder(i, j)
      PROVE  Inductive'
  BY <1>5, ChangeInductive
<1>6. ASSUME NEW name \in Names, NEW d \in DraftIds, Save(name, d) PROVE Inductive'
  BY <1>6, SaveInductive
<1>7. ASSUME NEW e \in shown, Load(e) PROVE Inductive'
  BY <1>7, LoadInductive
<1>8. ASSUME \/ \E e \in shown : StartDelete(e)
             \/ \E x \in deletions : FinishDelete(x)
      PROVE  Inductive'
  BY <1>8, DeletionInductive
<1>9. CASE UNCHANGED vars
  BY <1>9 DEF vars, Inductive, FormsOK, SelectionExists, ListsAreConsistent, Known,
              LoadsLastSaved, Keeps
<1>10. QED
  BY <1>1, <1>2, <1>3, <1>4, <1>5, <1>6, <1>7, <1>8, <1>9 DEF Next

-----------------------------------------------------------------------------
(* Whatever is edited, saved, loaded and deleted, and however often the    *)
(* page is reloaded: forms are sequences of questions, the selection is in *)
(* them, and every list of drafts is consistent.                           *)
THEOREM InductiveHolds == Spec => []Inductive
<1>1. QED
  BY InitInductive, NextInductive, PTL DEF Spec

(* The settings of the builder are always about a question that is there.  *)
THEOREM SelectionIsThere == Spec => []SelectionExists
<1>1. Inductive => SelectionExists
  BY DEF Inductive
<1>2. QED
  BY <1>1, InductiveHolds, PTL

(* saveDraft, handleLoad and handleDelete: what was saved under a name is  *)
(* in the index until it is deleted, and loads as it was saved last,       *)
(* whatever deletions overlap.                                             *)
THEOREM NamesLoadLastSaved == Spec => []LoadsWhatWasSaved
<1>1. Inductive => LoadsWhatWasSaved
  BY DEF Inductive, ListsAreConsistent, Known, LoadsLastSaved, LoadsWhatWasSaved
<1>2. QED
  BY <1>1, InductiveHolds, PTL
====
