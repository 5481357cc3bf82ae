---------------------- MODULE CategoryReferencesProofs ----------------------
(***************************************************************************)
(* Theorems about CategoryReferences, for any number of requests, articles  *)
(* and categories.                                                         *)
(***************************************************************************)
EXTENDS CategoryReferences, TLAPS

Checking(r) == request[r].pc = "check"
Deleting(r) == request[r].pc \in {"remove", "commit"}

\* Who is to write has an article.
FieldInv == \A r \in Requests : Checking(r) =>
    /\ request[r].article \in Articles
    /\ request[r].checked \subseteq request[r].want

\* What a request has checked is there, or it knows of the deletion.
CheckedInv == \A r \in Requests : \A c \in Categories :
    Checking(r) /\ c \in request[r].checked /\ c \notin request[r].unsure
    => c \in Existing /\ ~BeingDeleted(c)

\* An open deletion will pull its category from every article, but from those
\* whose writer has checked the category next to it.
DeletionInv == \A o \in Requests : Deleting(o) =>
    \A a \in made \ wrote[o] :
       request[o].category \in categories[a] => request[o].category \in raced[a]

RefInv == RefTypeOK /\ FieldInv /\ CheckedInv /\ DeletionInv /\ DanglingOnlyByOverlap

----------------------------------------------------------------------------
LEMMA RefInitInv == RefInit => RefInv
<1> SUFFICES ASSUME RefInit PROVE RefInv
  OBVIOUS
<1> USE DEF RefInit
<1>1. Idle \in RequestStates
  BY DEF Idle, RequestStates
<1>2. Existing \subseteq Categories
  BY DEF Existing
<1>3. RefTypeOK
  BY <1>1, <1>2 DEF RefTypeOK
<1>4. \A r \in Requests : request[r].pc = "idle"
  BY DEF Idle
<1>5. FieldInv /\ CheckedInv /\ DeletionInv
  BY <1>4 DEF FieldInv, CheckedInv, DeletionInv, Checking, Deleting
<1>6. DanglingOnlyByOverlap
  BY DEF DanglingOnlyByOverlap
<1> QED BY <1>3, <1>5, <1>6 DEF RefInv

\* A request is over, or idle, or its process died.
Ended(r) ==
    /\ request' = [request EXCEPT ![r] = request'[r]]
    /\ request'[r] \in RequestStates
    /\ request'[r].pc \in {"over", "lost"}

LEMMA EndEnds ==
    ASSUME RefTypeOK, NEW r \in Requests, End(r) \/ Lose(r)
    PROVE  Ended(r)
<1>1. ASSUME NEW p \in {"over", "lost"}
      PROVE  [Idle EXCEPT !.pc = p] \in RequestStates /\ [Idle EXCEPT !.pc = p].pc = p
  BY DEF Idle, RequestStates
<1>2. PICK p \in {"over", "lost"} : request' = [request EXCEPT ![r] = [Idle EXCEPT !.pc = p]]
  BY DEF End, Lose
<1>3. request'[r] = [Idle EXCEPT !.pc = p]
  BY <1>2 DEF RefTypeOK
<1> QED BY <1>1, <1>2, <1>3 DEF Ended

\* What a step leaves of the other requests.
LEMMA OthersStay ==
    ASSUME RefTypeOK, NEW r \in Requests,
           Ended(r) \/ AskCreate(r) \/ AskPatch(r) \/ AskDelete(r) \/ Check(r) \/ Remove(r)
    PROVE  \A o \in Requests : o # r => request'[o] = request[o]
BY DEF Ended, End, AskCreate, AskPatch, AskDelete, Check, Remove, RefTypeOK

LEMMA AskType ==
    ASSUME RefTypeOK, NEW r \in Requests, AskCreate(r) \/ AskPatch(r) \/ AskDelete(r)
    PROVE  /\ request' \in [Requests -> RequestStates]
           /\ request'[r].pc \in {"check", "pull"}
           /\ request'[r].pc = "check" => request'[r].article \in Articles
           /\ request'[r].checked = {}
<1>1. CASE AskCreate(r) \/ AskPatch(r)
  <2>1. PICK a \in Articles, w \in SUBSET Categories, k \in {"create", "patch"} :
           request' = [request EXCEPT ![r] =
             [Idle EXCEPT !.pc = "check", !.kind = k, !.article = a, !.want = w]]
    BY <1>1 DEF AskCreate, AskPatch, RefTypeOK
  <2> DEFINE to == [Idle EXCEPT !.pc = "check", !.kind = k, !.article = a, !.want = w]
  <2>2. to \in RequestStates /\ to.pc = "check" /\ to.article = a /\ to.checked = {}
    BY DEF Idle, RequestStates
  <2> HIDE DEF to
  <2> QED BY <2>1, <2>2 DEF RefTypeOK, to
<1>2. CASE AskDelete(r)
  <2>1. PICK c \in Categories :
           request' = [request EXCEPT ![r] =
             [Idle EXCEPT !.pc = "pull", !.kind = "delete", !.category = c]]
    BY <1>2 DEF AskDelete
  <2> DEFINE to == [Idle EXCEPT !.pc = "pull", !.kind = "delete", !.category = c]
  <2>2. to \in RequestStates /\ to.pc = "pull" /\ to.checked = {}
    BY DEF Idle, RequestStates
  <2> HIDE DEF to
  <2> QED BY <2>1, <2>2 DEF RefTypeOK, to
<1> QED BY <1>1, <1>2

\* What Check, Pull and Remove do to a request.
LEMMA CheckType ==
    ASSUME RefTypeOK, NEW r \in Requests, NEW c \in Categories, Checking(r),
           request' = [request EXCEPT
              ![r].checked = @ \cup {c},
              ![r].unsure = IF BeingDeleted(c) THEN @ \cup {c} ELSE @]
    PROVE  /\ request' \in [Requests -> RequestStates]
           /\ request'[r].pc = "check"
           /\ request'[r].article = request[r].article
           /\ request'[r].category = request[r].category
           /\ request'[r].want = request[r].want
           /\ request'[r].checked = request[r].checked \cup {c}
           /\ request'[r].unsure = IF BeingDeleted(c) THEN request[r].unsure \cup {c}
                                                      ELSE request[r].unsure
<1> DEFINE B == BeingDeleted(c)
           to == [request[r] EXCEPT !.checked = @ \cup {c},
                                    !.unsure = IF B THEN @ \cup {c} ELSE @]
<1>1. request[r] \in RequestStates
  BY DEF RefTypeOK
<1>2. request' = [request EXCEPT ![r] = to]
  BY DEF RefTypeOK
<1> HIDE DEF B
<1>3. /\ to \in RequestStates
      /\ to.pc = request[r].pc /\ to.article = request[r].article
      /\ to.category = request[r].category /\ to.want = request[r].want
      /\ to.checked = request[r].checked \cup {c}
      /\ to.unsure = IF B THEN request[r].unsure \cup {c} ELSE request[r].unsure
  BY <1>1 DEF RequestStates
<1>4. request'[r] = to
  BY <1>2 DEF RefTypeOK
<1> HIDE DEF to
<1> QED BY <1>2, <1>3, <1>4 DEF RefTypeOK, Checking, B

LEMMA PullType ==
    ASSUME RefTypeOK, NEW r \in Requests, Pull(r)
    PROVE  /\ request' \in [Requests -> RequestStates]
           /\ \A o \in Requests :
                 /\ request'[o].pc = IF o = r THEN "remove" ELSE request[o].pc
                 /\ request'[o].article = request[o].article
                 /\ request'[o].category = request[o].category
                 /\ request'[o].want = request[o].want
                 /\ request'[o].checked = request[o].checked
                 /\ request'[o].unsure =
                       IF request[r].category \in request[o].checked
                         THEN request[o].unsure \cup {request[r].category}
                         ELSE request[o].unsure
<1> DEFINE c == request[r].category
           W == Warned(c)
<1>1. \A o \in Requests : request[o] \in RequestStates
  BY DEF RefTypeOK
<1>2. ASSUME NEW o \in Requests
      PROVE  /\ W[o] \in RequestStates
             /\ W[o].pc = request[o].pc /\ W[o].article = request[o].article
             /\ W[o].category = request[o].category /\ W[o].want = request[o].want
             /\ W[o].checked = request[o].checked
             /\ W[o].unsure = IF c \in request[o].checked THEN request[o].unsure \cup {c}
                                                           ELSE request[o].unsure
  <2>1. W[o] = IF c \in request[o].checked
                 THEN [request[o] EXCEPT !.unsure = @ \cup {c}] ELSE request[o]
    BY DEF Warned
  <2> HIDE DEF W
  <2> QED BY <1>1, <2>1 DEF RequestStates
<1>3. W = [o \in Requests |-> W[o]]
  BY DEF Warned
<1>4. PICK f \in BOOLEAN : request' = [W EXCEPT ![r].pc = "remove", ![r].found = f]
  <2> DEFINE F == c \in Existing
  <2>1. request' = [W EXCEPT ![r].pc = "remove", ![r].found = F]
    BY DEF Pull
  <2>2. F \in BOOLEAN
    OBVIOUS
  <2> HIDE DEF F, W
  <2> QED BY <2>1, <2>2
<1> HIDE DEF W
<1> DEFINE to == [W[r] EXCEPT !.pc = "remove", !.found = f]
<1>5. request' = [o \in Requests |-> IF o = r THEN to ELSE W[o]]
  BY <1>3, <1>4
<1>6. W[r] \in RequestStates
  BY <1>2
<1>7. /\ to \in RequestStates
      /\ to.pc = "remove" /\ to.article = W[r].article /\ to.category = W[r].category
      /\ to.want = W[r].want /\ to.checked = W[r].checked /\ to.unsure = W[r].unsure
  BY <1>6 DEF RequestStates
<1> HIDE DEF to
<1>8. request' \in [Requests -> RequestStates]
  BY <1>2, <1>5, <1>7
<1>9. \A o \in Requests : request'[o] = IF o = r THEN to ELSE W[o]
  BY <1>5
<1> QED BY <1>2, <1>7, <1>8, <1>9

LEMMA RemoveType ==
    ASSUME RefTypeOK, NEW r \in Requests, Remove(r)
    PROVE  /\ request' \in [Requests -> RequestStates]
           /\ request'[r].pc = "commit" /\ request[r].pc = "remove"
           /\ request'[r].category = request[r].category
<1>1. request[r] \in RequestStates
  BY DEF RefTypeOK
<1>2. request' = [request EXCEPT ![r] = [request[r] EXCEPT !.pc = "commit"]]
  BY DEF Remove, RefTypeOK
<1>3. [request[r] EXCEPT !.pc = "commit"] \in RequestStates
  BY <1>1 DEF RequestStates
<1> QED BY <1>1, <1>2, <1>3 DEF Remove, RefTypeOK, RequestStates

----------------------------------------------------------------------------
\* The documents, the transactions and the marks of the articles keep their types.
LEMMA OtherTypes ==
    ASSUME RefTypeOK, FieldInv, RefNext
    PROVE  /\ status' \in [Categories -> {"new", "exists", "deleted"}]
           /\ made' \subseteq Articles
           /\ categories' \in [Articles -> SUBSET Categories]
           /\ wrote' \in [Requests -> SUBSET Articles]
           /\ raced' \in [Articles -> SUBSET Categories]
<1> DEFINE Types == /\ status' \in [Categories -> {"new", "exists", "deleted"}]
                    /\ made' \subseteq Articles
                    /\ categories' \in [Articles -> SUBSET Categories]
                    /\ wrote' \in [Requests -> SUBSET Articles]
                    /\ raced' \in [Articles -> SUBSET Categories]
<1>1. ASSUME NEW r \in Requests,
             AskCreate(r) \/ AskPatch(r) \/ AskDelete(r) \/ Check(r) \/ Remove(r) \/ Conflict(r)
               \/ Fail(r) \/ Reap(r) \/ Lose(r)
      PROVE  Types
  <2>1. UNCHANGED <<documents, raced>>
        /\ (wrote' = wrote \/ wrote' = [wrote EXCEPT ![r] = {}])
    BY <1>1 DEF AskCreate, AskPatch, AskDelete, Check, Remove, Conflict, Fail, Reap, Lose, End,
                  documents
  <2> QED BY <2>1 DEF documents, RefTypeOK
<1>2. ASSUME NEW r \in Requests, Write(r) PROVE Types
  <2>1. /\ request[r].article \in Articles
        /\ request[r].want \subseteq Categories /\ request[r].unsure \subseteq Categories
    BY <1>2 DEF Write, FieldInv, Checking, RefTypeOK, RequestStates
  <2> QED BY <1>2, <2>1 DEF Write, End, RefTypeOK
<1>3. ASSUME NEW r \in Requests, Pull(r) PROVE Types
  BY <1>3 DEF Pull, documents, RefTypeOK
<1>4. ASSUME NEW r \in Requests, Commit(r) PROVE Types
  BY <1>4 DEF Commit, End, RefTypeOK
<1>5. ASSUME NEW c \in Categories, AddCategory(c) PROVE Types
  BY <1>5 DEF AddCategory, RefTypeOK
<1> QED BY <1>1, <1>2, <1>3, <1>4, <1>5 DEF RefNext, Proceed

\* r begins, or ends: it has checked nothing, and no transaction of its own has
\* written anything.
Quiet(r) ==
    /\ \A o \in Requests : o # r => request'[o] = request[o]
    /\ request'[r].pc \in {"check", "pull", "over", "lost"}
    /\ request'[r].pc = "check" =>
          request'[r].article \in Articles /\ request'[r].checked = {}

LEMMA QuietSteps ==
    ASSUME RefTypeOK, NEW r \in Requests,
           \/ AskCreate(r) \/ AskPatch(r) \/ AskDelete(r) \/ End(r) \/ Lose(r)
    PROVE  Quiet(r) /\ request' \in [Requests -> RequestStates]
<1>1. CASE End(r) \/ Lose(r)
  <2>1. Ended(r)
    BY <1>1, EndEnds
  <2>2. \A o \in Requests : o # r => request'[o] = request[o]
    BY <2>1, OthersStay
  <2>3. request' \in [Requests -> RequestStates]
    BY <2>1 DEF Ended, RefTypeOK
  <2> QED BY <2>1, <2>2, <2>3 DEF Ended, Quiet
<1>2. CASE AskCreate(r) \/ AskPatch(r) \/ AskDelete(r)
  BY <1>2, AskType, OthersStay DEF Quiet
<1> QED BY <1>1, <1>2

\* Whoever begins or ends disturbs nothing.
LEMMA QuietStep ==
    ASSUME RefInv, NEW r \in Requests, Quiet(r), UNCHANGED <<documents, raced>>,
           \A o \in Requests : o # r => wrote'[o] = wrote[o]
    PROVE  FieldInv' /\ CheckedInv' /\ DeletionInv' /\ DanglingOnlyByOverlap'
<1>1. status' = status /\ made' = made /\ categories' = categories /\ raced' = raced
  BY DEF documents
<1>2. FieldInv'
  BY DEF RefInv, FieldInv, Checking, Quiet
<1>3. \A c : BeingDeleted(c)' => BeingDeleted(c)
  BY DEF BeingDeleted, Quiet
<1>4. CheckedInv'
  BY <1>1, <1>3 DEF RefInv, CheckedInv, Checking, Quiet, Existing
<1>5. DeletionInv'
  BY <1>1 DEF RefInv, DeletionInv, Deleting, Quiet
<1>6. DanglingOnlyByOverlap'
  BY <1>1 DEF RefInv, DanglingOnlyByOverlap, Existing
<1> QED BY <1>2, <1>4, <1>5, <1>6

\* A category that is found to exist may be being deleted: then the request knows.
LEMMA CheckStep ==
    ASSUME RefInv, NEW r \in Requests, NEW c \in Categories, Checking(r),
           c \in request[r].want, c \in Existing,
           request' = [request EXCEPT
              ![r].checked = @ \cup {c},
              ![r].unsure = IF BeingDeleted(c) THEN @ \cup {c} ELSE @],
           UNCHANGED <<documents, wrote, raced>>
    PROVE  /\ request' \in [Requests -> RequestStates]
           /\ FieldInv' /\ CheckedInv' /\ DeletionInv' /\ DanglingOnlyByOverlap'
<1>1. status' = status /\ made' = made /\ categories' = categories /\ raced' = raced
      /\ wrote' = wrote
  BY DEF documents
<1>2. RefTypeOK
  BY DEF RefInv
<1>3. /\ request' \in [Requests -> RequestStates]
      /\ request'[r].pc = "check"
      /\ request'[r].article = request[r].article
      /\ request'[r].category = request[r].category
      /\ request'[r].want = request[r].want
      /\ request'[r].checked = request[r].checked \cup {c}
      /\ request'[r].unsure = IF BeingDeleted(c) THEN request[r].unsure \cup {c}
                                                 ELSE request[r].unsure
  BY <1>2, CheckType
<1>4. \A o \in Requests : o # r => request'[o] = request[o]
  BY <1>2 DEF RefTypeOK
<1>5. FieldInv'
  BY <1>3, <1>4 DEF RefInv, FieldInv, Checking
<1>6. \A d : BeingDeleted(d)' <=> BeingDeleted(d)
  BY <1>3, <1>4 DEF BeingDeleted, Checking
<1>7. CheckedInv'
  BY <1>1, <1>3, <1>4, <1>6 DEF RefInv, CheckedInv, Checking, Existing
<1>8. DeletionInv'
  BY <1>1, <1>3, <1>4 DEF RefInv, DeletionInv, Deleting, Checking
<1>9. DanglingOnlyByOverlap'
  BY <1>1 DEF RefInv, DanglingOnlyByOverlap, Existing
<1> QED BY <1>3, <1>5, <1>7, <1>8, <1>9

\* The article gets categories that were checked, and no open deletion has written
\* the article.
LEMMA WriteStep ==
    ASSUME RefInv, NEW r \in Requests, Write(r)
    PROVE  FieldInv' /\ CheckedInv' /\ DeletionInv' /\ DanglingOnlyByOverlap'
<1> DEFINE a == request[r].article
<1>1. /\ Checking(r) /\ request[r].checked = request[r].want /\ a \in Articles
      /\ request[r].want \subseteq Categories
  BY DEF Write, RefInv, FieldInv, Checking, RefTypeOK, RequestStates
<1>2. /\ \A o \in Requests : a \notin wrote[o]
      /\ made' = made \cup {a} /\ status' = status
      /\ \A x \in Articles :
            /\ categories'[x] = IF x = a THEN request[r].want ELSE categories[x]
            /\ raced'[x] = IF x = a THEN request[r].unsure ELSE raced[x]
      /\ \A o \in Requests : o # r => wrote'[o] = wrote[o]
  BY <1>1 DEF Write, Locked, End, RefInv, RefTypeOK
<1>3. Quiet(r) /\ request'[r].pc \in {"over", "lost"}
  BY QuietSteps, EndEnds DEF Write, RefInv, Ended
<1>4. FieldInv'
  BY <1>3 DEF RefInv, FieldInv, Checking, Quiet
<1>5. \A c : BeingDeleted(c)' => BeingDeleted(c)
  BY <1>3 DEF BeingDeleted, Quiet
<1>6. CheckedInv'
  BY <1>2, <1>3, <1>5 DEF RefInv, CheckedInv, Checking, Quiet, Existing
<1>7. \A c \in request[r].want \ request[r].unsure : c \in Existing /\ ~BeingDeleted(c)
  BY <1>1 DEF RefInv, CheckedInv
<1> HIDE DEF a
<1>8. DeletionInv'
  <2> SUFFICES ASSUME NEW o \in Requests, Deleting(o)', NEW x \in made' \ wrote'[o],
                      request'[o].category \in categories'[x]
               PROVE  request'[o].category \in raced'[x]
    BY DEF DeletionInv
  <2>1. o # r /\ request'[o] = request[o] /\ wrote'[o] = wrote[o] /\ Deleting(o)
    BY <1>2, <1>3 DEF Quiet, Deleting
  <2>2. x \in Articles
    BY <1>1, <1>2 DEF RefInv, RefTypeOK
  <2>3. CASE x = a
    <3>1. BeingDeleted(request[o].category)
      BY <2>1 DEF BeingDeleted, Deleting
    <3> QED BY <1>2, <1>7, <2>1, <2>2, <2>3, <3>1
  <2>4. CASE x # a
    BY <1>2, <2>1, <2>2, <2>4 DEF RefInv, DeletionInv
  <2> QED BY <2>3, <2>4
<1>9. DanglingOnlyByOverlap'
  <2> SUFFICES ASSUME NEW x \in made', NEW c \in categories'[x] \ Existing'
               PROVE  c \in raced'[x]
    BY DEF DanglingOnlyByOverlap
  <2>1. x \in Articles /\ Existing' = Existing
    BY <1>1, <1>2 DEF RefInv, RefTypeOK, Existing
  <2>2. CASE x = a
    BY <1>2, <1>7, <2>1, <2>2
  <2>3. CASE x # a
    BY <1>2, <2>1, <2>3 DEF RefInv, DanglingOnlyByOverlap
  <2> QED BY <2>2, <2>3
<1> QED BY <1>4, <1>6, <1>8, <1>9

\* Everybody who has checked the category is warned.
LEMMA PullStep ==
    ASSUME RefInv, NEW r \in Requests, Pull(r)
    PROVE  FieldInv' /\ CheckedInv' /\ DeletionInv' /\ DanglingOnlyByOverlap'
<1>1. /\ status' = status /\ made' = made /\ categories' = categories /\ raced' = raced
      /\ request[r].pc = "pull"
      /\ \A o \in Requests : wrote'[o] = IF o = r THEN made ELSE wrote[o]
  BY DEF Pull, documents, RefInv, RefTypeOK
<1>2. RefTypeOK
  BY DEF RefInv
<1>3. \A o \in Requests :
         /\ request'[o].pc = IF o = r THEN "remove" ELSE request[o].pc
         /\ request'[o].article = request[o].article
         /\ request'[o].category = request[o].category
         /\ request'[o].want = request[o].want
         /\ request'[o].checked = request[o].checked
         /\ request'[o].unsure =
               IF request[r].category \in request[o].checked
                 THEN request[o].unsure \cup {request[r].category} ELSE request[o].unsure
  BY <1>2, PullType
<1>4. FieldInv'
  BY <1>3 DEF RefInv, FieldInv, Checking
<1>5. \A d : d # request[r].category /\ BeingDeleted(d)' => BeingDeleted(d)
  BY <1>3 DEF BeingDeleted
<1>6. CheckedInv'
  <2> SUFFICES ASSUME NEW o \in Requests, NEW d \in Categories, Checking(o)',
                      d \in request'[o].checked, d \notin request'[o].unsure
               PROVE  d \in Existing' /\ ~BeingDeleted(d)'
    BY DEF CheckedInv
  <2>1. Checking(o) /\ d \in request[o].checked /\ d \notin request[o].unsure
        /\ d # request[r].category
    BY <1>1, <1>3 DEF Checking
  <2>2. d \in Existing /\ ~BeingDeleted(d)
    BY <2>1 DEF RefInv, CheckedInv
  <2> QED BY <1>1, <1>5, <2>1, <2>2 DEF Existing
<1>7. DeletionInv'
  BY <1>1, <1>3 DEF RefInv, DeletionInv, Deleting
<1>8. DanglingOnlyByOverlap'
  BY <1>1 DEF RefInv, DanglingOnlyByOverlap, Existing
<1> QED BY <1>4, <1>6, <1>7, <1>8

LEMMA RemoveStep ==
    ASSUME RefInv, NEW r \in Requests, Remove(r)
    PROVE  /\ request' \in [Requests -> RequestStates]
           /\ FieldInv' /\ CheckedInv' /\ DeletionInv' /\ DanglingOnlyByOverlap'
<1>1. status' = status /\ made' = made /\ categories' = categories /\ raced' = raced
      /\ wrote' = wrote
  BY DEF Remove, documents
<1>2. /\ request' \in [Requests -> RequestStates]
      /\ request'[r].pc = "commit" /\ request[r].pc = "remove"
      /\ request'[r].category = request[r].category
      /\ \A o \in Requests : o # r => request'[o] = request[o]
  BY RemoveType, OthersStay DEF RefInv
<1>3. FieldInv'
  BY <1>2 DEF RefInv, FieldInv, Checking
<1>4. \A d : BeingDeleted(d)' => BeingDeleted(d)
  BY <1>2 DEF BeingDeleted
<1>5. CheckedInv'
  BY <1>1, <1>2, <1>4 DEF RefInv, CheckedInv, Checking, Existing
<1>6. DeletionInv'
  BY <1>1, <1>2 DEF RefInv, DeletionInv, Deleting
<1>7. DanglingOnlyByOverlap'
  BY <1>1 DEF RefInv, DanglingOnlyByOverlap, Existing
<1> QED BY <1>2, <1>3, <1>5, <1>6, <1>7

\* What the deletion has not pulled from was written next to it.
LEMMA CommitStep ==
    ASSUME RefInv, NEW r \in Requests, Commit(r)
    PROVE  FieldInv' /\ CheckedInv' /\ DeletionInv' /\ DanglingOnlyByOverlap'
<1> DEFINE c == request[r].category
<1>1. /\ request[r].pc = "commit" /\ made' = made /\ raced' = raced
      /\ \A a \in Articles :
            categories'[a] = IF a \in wrote[r] THEN categories[a] \ {c} ELSE categories[a]
      /\ \A d \in Categories : d # c => status'[d] = status[d]
      /\ \A o \in Requests : o # r => wrote'[o] = wrote[o]
  BY DEF Commit, End, RefInv, RefTypeOK
<1>2. Quiet(r) /\ request'[r].pc \in {"over", "lost"}
  BY QuietSteps, EndEnds DEF Commit, RefInv, Ended
<1>3. BeingDeleted(c)
  BY <1>1 DEF BeingDeleted
<1> HIDE DEF c
<1>4. FieldInv'
  BY <1>2 DEF RefInv, FieldInv, Checking, Quiet
<1>5. \A d : BeingDeleted(d)' => BeingDeleted(d)
  BY <1>2 DEF BeingDeleted, Quiet
<1>6. CheckedInv'
  BY <1>1, <1>2, <1>3, <1>5 DEF RefInv, CheckedInv, Checking, Quiet, Existing
<1>7. \A a \in made : a \in Articles /\ categories'[a] \subseteq categories[a]
  BY <1>1 DEF RefInv, RefTypeOK
<1>8. DeletionInv'
  BY <1>1, <1>2, <1>7 DEF RefInv, DeletionInv, Deleting, Quiet
<1>9. DanglingOnlyByOverlap'
  <2> SUFFICES ASSUME NEW a \in made, NEW d \in categories'[a] \ Existing'
               PROVE  d \in raced[a]
    BY <1>1 DEF DanglingOnlyByOverlap
  <2>1. d \in Categories /\ d \in categories[a]
    BY <1>7 DEF RefInv, RefTypeOK
  <2>2. CASE d \notin Existing
    BY <2>1, <2>2 DEF RefInv, DanglingOnlyByOverlap
  <2>3. CASE d \in Existing
    <3>1. d = c /\ a \notin wrote[r]
      BY <1>1, <1>7, <2>1, <2>3 DEF Existing
    <3> QED BY <1>1, <2>1, <3>1 DEF RefInv, DeletionInv, Deleting, c
  <2> QED BY <2>2, <2>3
<1> QED BY <1>4, <1>6, <1>8, <1>9

LEMMA AddStep ==
    ASSUME RefInv, NEW c \in Categories, AddCategory(c)
    PROVE  /\ request' \in [Requests -> RequestStates]
           /\ FieldInv' /\ CheckedInv' /\ DeletionInv' /\ DanglingOnlyByOverlap'
<1>1. /\ made' = made /\ categories' = categories /\ raced' = raced /\ wrote' = wrote
      /\ request' = request /\ Existing \subseteq Existing'
  BY DEF AddCategory, Existing, RefInv, RefTypeOK
<1>2. \A d : BeingDeleted(d)' <=> BeingDeleted(d)
  BY <1>1 DEF BeingDeleted
<1> QED BY <1>1, <1>2 DEF RefInv, RefTypeOK, FieldInv, CheckedInv, DeletionInv, Checking, Deleting,
                          DanglingOnlyByOverlap

----------------------------------------------------------------------------
LEMMA RefNextInv == RefInv /\ RefNext => RefInv'
<1> SUFFICES ASSUME RefInv, RefNext PROVE RefInv'
  OBVIOUS
<1> DEFINE Inv == FieldInv /\ CheckedInv /\ DeletionInv /\ DanglingOnlyByOverlap
           Req == request' \in [Requests -> RequestStates]
<1>1. RefTypeOK /\ FieldInv
  BY DEF RefInv
<1>2. ASSUME NEW r \in Requests, AskCreate(r) \/ AskPatch(r) \/ AskDelete(r) \/ Conflict(r)
                                    \/ Fail(r) \/ Reap(r) \/ Lose(r)
      PROVE  Req /\ Inv'
  <2>1. Quiet(r) /\ Req
    BY <1>1, <1>2, QuietSteps DEF Conflict, Fail, Reap
  <2>2. /\ UNCHANGED <<documents, raced>>
        /\ \A o \in Requests : o # r => wrote'[o] = wrote[o]
    BY <1>1, <1>2 DEF AskCreate, AskPatch, AskDelete, Conflict, Fail, Reap, Lose, End,
                            RefTypeOK
  <2> QED BY <2>1, <2>2, QuietStep
<1>3. ASSUME NEW r \in Requests, Check(r) PROVE Req /\ Inv'
  <2>1. PICK c \in request[r].want \ request[r].checked :
           \/ /\ ~Refused(r, c)
              /\ request' = [request EXCEPT
                    ![r].checked = @ \cup {c},
                    ![r].unsure = IF BeingDeleted(c) THEN @ \cup {c} ELSE @]
              /\ UNCHANGED wrote
           \/ Refused(r, c) /\ End(r)
    BY <1>3 DEF Check
  <2>2. Checking(r) /\ UNCHANGED <<documents, raced>> /\ c \in Categories
    BY <1>1, <1>3 DEF Check, Checking, RefTypeOK, RequestStates
  <2>3. CASE Refused(r, c)
    <3>1. End(r)
      BY <2>1, <2>3
    <3>2. Quiet(r) /\ Req
      BY <1>1, <3>1, QuietSteps
    <3>3. \A o \in Requests : o # r => wrote'[o] = wrote[o]
      BY <1>1, <3>1 DEF End, RefTypeOK
    <3> QED BY <2>2, <3>2, <3>3, QuietStep
  <2>4. CASE ~Refused(r, c)
    <3>1. c \in Existing /\ UNCHANGED wrote
      BY <2>1, <2>4 DEF Refused
    <3> QED BY <2>1, <2>2, <2>4, <3>1, CheckStep
  <2> QED BY <2>3, <2>4
<1>4. ASSUME NEW r \in Requests, Write(r) \/ Commit(r) PROVE Req /\ Inv'
  BY <1>1, <1>4, WriteStep, CommitStep, QuietSteps DEF Write, Commit
<1>5. ASSUME NEW r \in Requests, Pull(r) PROVE Req /\ Inv'
  BY <1>1, <1>5, PullStep, PullType
<1>6. ASSUME NEW r \in Requests, Remove(r) PROVE Req /\ Inv'
  BY <1>6, RemoveStep
<1>7. ASSUME NEW c \in Categories, AddCategory(c) PROVE Req /\ Inv'
  BY <1>7, AddStep
<1>8. Req /\ Inv'
  BY <1>2, <1>3, <1>4, <1>5, <1>6, <1>7 DEF RefNext, Proceed
<1> QED BY <1>1, <1>8, OtherTypes DEF RefInv, RefTypeOK

LEMMA RefStutterInv == RefInv /\ UNCHANGED refVars => RefInv'
<1> SUFFICES ASSUME RefInv, UNCHANGED refVars PROVE RefInv'
  OBVIOUS
<1>1. \A d : BeingDeleted(d)' <=> BeingDeleted(d)
  BY DEF BeingDeleted, refVars
<1> QED BY <1>1 DEF refVars, documents, RefInv, RefTypeOK, FieldInv, CheckedInv, DeletionInv,
                    DanglingOnlyByOverlap, Existing, Checking, Deleting

LEMMA RefStep == RefInv /\ [RefNext]_refVars => RefInv'
BY RefNextInv, RefStutterInv

LEMMA RefInvariance == RefSpec => []RefInv
BY RefInitInv, RefStep, PTL DEF RefSpec

\* Every variable keeps its type, whoever fails or dies.
THEOREM RefTypeCorrect == RefSpec => []RefTypeOK
<1>1. RefInv => RefTypeOK
  BY DEF RefInv
<1> QED BY <1>1, RefInvariance, PTL

\* However many articles are written while categories are deleted, a reference is
\* left without its category only where check, deletion and write overlap.
THEOREM DanglingOnlyByOverlapThm == RefSpec => []DanglingOnlyByOverlap
<1>1. RefInv => DanglingOnlyByOverlap
  BY DEF RefInv
<1> QED BY <1>1, RefInvariance, PTL

\* A category leaves an article with the category itself, or by an edit of the
\* article: deletions that fail or are abandoned have pulled nothing.
THEOREM PulledWithCategoryThm == RefSpec => PulledWithCategory
<1> DEFINE Pulled == \A a \in made : \A c \in categories[a] \ categories'[a] :
                        status'[c] = "deleted" \/ \E r \in Requests : Edits(r, a)
<1>1. RefInv /\ [RefNext]_refVars => [Pulled]_refVars
  <2> SUFFICES ASSUME RefInv, RefNext, NEW a \in made, NEW c \in categories[a] \ categories'[a]
               PROVE  status'[c] = "deleted" \/ \E r \in Requests : Edits(r, a)
    OBVIOUS
  <2>1. a \in Articles /\ c \in Categories
    BY DEF RefInv, RefTypeOK
  <2>2. categories' # categories
    OBVIOUS
  <2>3. PICK r \in Requests : Write(r) \/ Commit(r)
    BY <2>2 DEF RefNext, Proceed, AskCreate, AskPatch, AskDelete, Check, Pull, Remove, Conflict, Fail,
                Reap, Lose, AddCategory, documents
  <2>4. CASE Write(r)
    <3>1. request'[r].pc \in {"over", "lost"} /\ request'[r] = [Idle EXCEPT !.pc = "over"]
      BY <2>4, EndEnds DEF Write, RefInv, Ended, End, RefTypeOK
    <3>2. request'[r].pc = "over"
      BY <3>1 DEF Idle
    <3>3. a = request[r].article
      BY <2>1, <2>4 DEF Write, RefInv, RefTypeOK
    <3> QED BY <2>4, <3>2, <3>3 DEF Write, Edits
  <2>5. CASE Commit(r)
    BY <2>1, <2>5 DEF Commit, RefInv, RefTypeOK
  <2> QED BY <2>3, <2>4, <2>5
<1> QED BY <1>1, RefInvariance, PTL DEF RefSpec, PulledWithCategory
=============================================================================
