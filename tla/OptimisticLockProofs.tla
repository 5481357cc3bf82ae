----------------------- MODULE OptimisticLockProofs -----------------------
(***************************************************************************)
(* Theorems about OptimisticLock, for any number of requests and writes.   *)
(***************************************************************************)
EXTENDS OptimisticLock, TLAPS

\* Writes advance the version by at most one
\* each, and the time by at most one unit.
BoundInv == doc.version <= doc.revision + touches /\ doc.updatedAt <= doc.revision + touches

\* Etags are ordered by the version of an article, by the time of the others: no
\* etag is ahead of the document, and one that is level with it names its content.
Rank(e) == IF kind = "article" THEN e.version ELSE e.updatedAt
Names(e, n) == Rank(e) <= Rank(doc) /\ (Rank(e) = Rank(doc) => n = doc.revision)
EtagInv ==
    Precise => /\ \A c \in copies : Names(c.etag, c.revision)
               /\ \A r \in Requests : request[r].pc = "load"
                                         => Names(request[r].etag, request[r].base)

\* Until it is overtaken, an admitted write knows the content it overwrites.
WriteInv ==
    Precise /\ HasEtag =>
        \A r \in Requests :
            LET q == request[r] IN
            q.verb = "put" /\ q.pc \in {"load", "write"} /\ ~q.overtaken
               => q.copy.revision = doc.revision /\ q.base = doc.revision

\* Only a PATCH or PUT gets as far as the write.
VerbInv == \A r \in Requests : request[r].pc = "write" => request[r].verb = "put"

IInv == TypeOK /\ BoundInv /\ VerbInv /\ EtagInv /\ WriteInv

----------------------------------------------------------------------------
LEMMA InitInv == Init => IInv
<1> SUFFICES ASSUME Init PROVE IInv
  OBVIOUS
<1> USE BoundsAssumption DEF Init
<1>1. 0 \in Times /\ 0 \in 0..MaxRevision /\ 0 \in 0..MaxTouches
  BY DEF Times
<1>2. NewDoc \in Docs /\ NewRequest \in RequestStates
  BY <1>1 DEF NewDoc, Docs, NewRequest, RequestStates, Copies, Etags
<1>3. TypeOK
  BY <1>1, <1>2 DEF TypeOK, Kinds
<1>4. BoundInv
  BY DEF BoundInv, NewDoc
<1>5. VerbInv /\ EtagInv /\ WriteInv
  BY DEF VerbInv, EtagInv, WriteInv, NewRequest
<1> QED BY <1>3, <1>4, <1>5 DEF IInv

LEMMA EtagType == ASSUME TypeOK, BoundsAssumption PROVE EtagOf(doc) \in Etags
BY DEF TypeOK, EtagOf, Docs, Etags, Times

LEMMA AdmitType ==
    ASSUME TypeOK, NEW r \in Requests, NEW v \in {"get", "put"}, NEW c \in Copies,
           NEW p \in {"idle", "load", "write", "done"}, Admit(r, v, c, p)
    PROVE  request' \in [Requests -> RequestStates]
BY EtagType, BoundsAssumption DEF Admit, TypeOK, RequestStates, Docs

LEMMA GotoType ==
    ASSUME TypeOK, NEW r \in Requests, NEW p \in {"idle", "load", "write", "done"}, Goto(r, p)
    PROVE  request' \in [Requests -> RequestStates]
BY DEF Goto, TypeOK, RequestStates

LEMMA TouchedType ==
    ASSUME TypeOK, BoundInv, BoundsAssumption, touches < MaxTouches,
           NEW t \in Now(doc.updatedAt)
    PROVE  /\ Touched(t) \in Docs
           /\ Touched(t).revision = doc.revision
           /\ Touched(t).version = doc.version + 1
           /\ Touched(t).updatedAt = t
           /\ Touched(t).version <= doc.revision + touches + 1
           /\ Touched(t).updatedAt <= doc.revision + touches + 1
<1>1. /\ doc.revision \in 0..MaxRevision /\ touches \in 0..MaxTouches
      /\ doc.version \in Nat /\ doc.updatedAt \in Nat
  BY DEF TypeOK, Docs, Times
<1>2. doc.version + 1 \in Times /\ t \in Times
  BY <1>1 DEF BoundInv, Now, Times
<1> QED BY <1>1, <1>2 DEF Touched, Docs, BoundInv, Now

LEMMA TypeStep == TypeOK /\ BoundInv /\ [Next]_vars => TypeOK' /\ BoundInv'
<1> SUFFICES ASSUME TypeOK, BoundInv, [Next]_vars PROVE TypeOK' /\ BoundInv'
  OBVIOUS
<1> USE BoundsAssumption
<1>1. ASSUME NEW r \in Requests, Fetch(r) PROVE TypeOK' /\ BoundInv'
  <2>1. request[r].copy \in Copies
    BY DEF TypeOK, RequestStates
  <2>2. request' \in [Requests -> RequestStates]
    BY <1>1, <2>1, AdmitType DEF Fetch
  <2> QED BY <1>1, <2>2 DEF Fetch, TypeOK, BoundInv, exists
<1>2. ASSUME NEW r \in Requests, Revalidate(r) PROVE TypeOK' /\ BoundInv'
  <2>1. request' \in [Requests -> RequestStates]
    BY <1>2, AdmitType DEF Revalidate, TypeOK
  <2> QED BY <1>2, <2>1 DEF Revalidate, TypeOK, BoundInv, exists
<1>3. ASSUME NEW r \in Requests, Edit(r) PROVE TypeOK' /\ BoundInv'
  <2>1. request' \in [Requests -> RequestStates]
    BY <1>3, AdmitType DEF Edit, TypeOK
  <2> QED BY <1>3, <2>1 DEF Edit, TypeOK, BoundInv, exists
<1>4. ASSUME NEW r \in Requests, NotFound(r) PROVE TypeOK' /\ BoundInv'
  BY <1>4, GotoType DEF NotFound, TypeOK, BoundInv, exists
<1>5. ASSUME NEW r \in Requests, Answer(r) PROVE TypeOK' /\ BoundInv'
  <2>1. request' \in [Requests -> RequestStates]
    BY <1>5, GotoType DEF Answer
  <2>2. [etag |-> request[r].etag, revision |-> Body(r)] \in Copies
    BY DEF TypeOK, RequestStates, Body, Copies, Docs
  <2> QED BY <1>5, <2>1, <2>2 DEF Answer, TypeOK, BoundInv, exists
<1>6. ASSUME NEW r \in Requests, LoadArticle(r) PROVE TypeOK' /\ BoundInv'
  <2>1. [request[r] EXCEPT !.pc = "write", !.base = doc.revision] \in RequestStates
    BY DEF TypeOK, RequestStates, Docs
  <2>2. request' \in [Requests -> RequestStates]
    BY <1>6, <2>1 DEF LoadArticle, TypeOK
  <2> QED BY <1>6, <2>2 DEF LoadArticle, TypeOK, BoundInv, exists
<1>7. ASSUME NEW r \in Requests, Refuse(r) PROVE TypeOK' /\ BoundInv'
  BY <1>7, GotoType DEF Refuse, TypeOK, BoundInv, exists
<1>8. ASSUME NEW r \in Requests, Save(r) PROVE TypeOK' /\ BoundInv'
  <2>1. request' \in [Requests -> RequestStates]
    BY <1>8 DEF Save, TypeOK, RequestStates
  <2>2. doc' \in Docs /\ BoundInv'
    BY <1>8 DEF Save, TypeOK, BoundInv, Docs, Times, Now
  <2> QED BY <1>8, <2>1, <2>2 DEF Save, TypeOK
<1>9. ASSUME NEW r \in Requests, SaveNothing(r) PROVE TypeOK' /\ BoundInv'
  BY <1>9, GotoType DEF SaveNothing, TypeOK, BoundInv, exists
<1>10. CASE Touch
  <2>1. doc' \in Docs /\ BoundInv'
    <3>1. PICK t \in Now(doc.updatedAt) : doc' = Touched(t)
      BY <1>10 DEF Touch
    <3>2. touches < MaxTouches /\ touches' = touches + 1
      BY <1>10 DEF Touch
    <3>3. doc' \in Docs /\ doc'.revision = doc.revision
          /\ doc'.version <= doc.revision + touches + 1
          /\ doc'.updatedAt <= doc.revision + touches + 1
      BY <3>1, <3>2, TouchedType
    <3> QED BY <3>2, <3>3 DEF BoundInv, TypeOK, Docs
  <2> QED BY <1>10, <2>1 DEF Touch, TypeOK, exists
<1>11. CASE Delete
  <2>1. CASE kind = "article"
    <3>1. PICK t \in Now(doc.updatedAt) : doc' = Touched(t)
      BY <1>11, <2>1 DEF Delete
    <3>2. touches < MaxTouches /\ touches' = touches + 1
      BY <1>11 DEF Delete
    <3>3. doc' \in Docs /\ doc'.revision = doc.revision
          /\ doc'.version <= doc.revision + touches + 1
          /\ doc'.updatedAt <= doc.revision + touches + 1
      BY <3>1, <3>2, TouchedType
    <3>4. BoundInv'
      BY <3>2, <3>3 DEF BoundInv, TypeOK, Docs
    <3> QED BY <1>11, <3>2, <3>3, <3>4 DEF Delete, TypeOK
  <2>2. CASE kind # "article"
    BY <1>11, <2>2 DEF Delete, TypeOK, BoundInv, Docs, Times
  <2> QED BY <2>1, <2>2
<1>12. CASE UNCHANGED vars
  BY <1>12 DEF vars, TypeOK, BoundInv, exists
<1> QED
  BY <1>1, <1>2, <1>3, <1>4, <1>5, <1>6, <1>7, <1>8, <1>9, <1>10, <1>11, <1>12 DEF Next

----------------------------------------------------------------------------
\* Nothing but the document, its etag's precision and the copies made of it
\* decides what the etags name.
LEMMA NamesOwn == ASSUME TypeOK PROVE Names(EtagOf(doc), doc.revision)
BY DEF Names, Rank, EtagOf, TypeOK, Docs, Times

LEMMA NamesStable ==
    ASSUME UNCHANGED <<kind, doc>>, NEW e, NEW n, Names(e, n)
    PROVE  Names(e, n)'
BY DEF Names, Rank

LEMMA EtagStep ==
    ASSUME TypeOK, EtagInv, WriteInv, BoundsAssumption, [Next]_vars, TypeOK'
    PROVE  EtagInv'
<1> SUFFICES ASSUME Precise'
             PROVE  /\ \A c \in copies' : Names(c.etag, c.revision)'
                    /\ \A r \in Requests : request'[r].pc = "load"
                          => Names(request[r].etag, request[r].base)'
  BY DEF EtagInv
<1>p. Precise
  BY DEF Precise, Next, vars, exists, Fetch, Revalidate, Edit, NotFound, Answer,
         LoadArticle, Refuse, Save, SaveNothing, Touch, Delete
<1>i. /\ \A c \in copies : Names(c.etag, c.revision)
      /\ \A r \in Requests : request[r].pc = "load" => Names(request[r].etag, request[r].base)
  BY <1>p DEF EtagInv
<1>t. /\ \A c \in copies : c.etag \in Etags
      /\ \A r \in Requests : request[r].etag \in Etags
  BY DEF TypeOK, Copies, RequestStates
<1>1. ASSUME NEW r \in Requests, Fetch(r) \/ Revalidate(r) \/ Edit(r)
      PROVE  EtagInv'
  <2>1. PICK v \in {"get", "put"}, k \in Copies, p \in {"load", "write", "done"} :
           Admit(r, v, k, p)
    BY <1>1 DEF Fetch, Revalidate, Edit, TypeOK, RequestStates
  <2>2. UNCHANGED <<kind, doc, copies>>
    BY <1>1 DEF Fetch, Revalidate, Edit
  <2>3. \A c \in copies : Names(c.etag, c.revision)'
    BY <1>i, <2>2, NamesStable
  <2>4. ASSUME NEW o \in Requests, request'[o].pc = "load"
        PROVE  Names(request[o].etag, request[o].base)'
    <3>1. CASE o = r
      <4>1. request'[r].etag = EtagOf(doc) /\ request'[r].base = doc.revision
        BY <2>1 DEF Admit, TypeOK
      <4> QED BY <3>1, <4>1, <2>2, NamesOwn DEF Names, Rank
    <3>2. CASE o # r
      <4>1. request'[o] = request[o]
        BY <2>1, <3>2 DEF Admit, TypeOK
      <4> QED BY <4>1, <2>4, <2>2, <1>i DEF Names, Rank
    <3> QED BY <3>1, <3>2
  <2> QED BY <2>2, <2>3, <2>4 DEF EtagInv
<1>2. ASSUME NEW r \in Requests, NotFound(r) \/ Refuse(r) \/ SaveNothing(r) \/ LoadArticle(r)
      PROVE  EtagInv'
  <2>1. UNCHANGED <<kind, doc, copies>>
    BY <1>2 DEF NotFound, Refuse, SaveNothing, LoadArticle
  <2>2. \A o \in Requests : request'[o].pc = "load" => request'[o] = request[o]
    BY <1>2 DEF NotFound, Refuse, SaveNothing, LoadArticle, Goto, TypeOK, RequestStates
  <2> QED BY <1>i, <2>1, <2>2 DEF EtagInv, Names, Rank
<1>3. ASSUME NEW r \in Requests, Answer(r) PROVE EtagInv'
  <2>1. UNCHANGED <<kind, doc>>
    BY <1>3 DEF Answer
  <2>2. \A o \in Requests : request'[o].pc = "load" => request'[o] = request[o]
    BY <1>3 DEF Answer, Goto, TypeOK, RequestStates
  <2>3. Names(request[r].etag, Body(r))
    BY <1>3, <1>i DEF Answer, Body, Names
  <2>4. \A c \in copies' : Names(c.etag, c.revision)
    BY <1>3, <1>i, <2>3 DEF Answer
  <2> QED BY <1>i, <2>1, <2>2, <2>4 DEF EtagInv, Names, Rank
<1>4. ASSUME NEW r \in Requests, Save(r) PROVE EtagInv'
  <2>1. PICK t \in Now(doc.updatedAt) :
           /\ doc' = [revision |-> doc.revision + 1, updatedAt |-> t,
                      version |-> IF kind = "category" THEN 0 ELSE doc.version + 1]
           /\ aliased' = (aliased \/ t = doc.updatedAt)
    BY <1>4 DEF Save
  <2>2. UNCHANGED <<kind, copies>>
    BY <1>4 DEF Save
  <2>3. \A e \in Etags : \A n : Names(e, n) => Names(e, n)'
    <3>1. kind = "article" \/ t # doc.updatedAt
      BY <2>1, <2>2 DEF Precise
    <3>2. /\ doc.updatedAt \in Nat /\ doc.version \in Nat
          /\ t = doc.updatedAt \/ t = doc.updatedAt + 1
      BY DEF Now, TypeOK, Docs, Times
    <3>3. CASE kind = "article"
      BY <2>1, <2>2, <3>2, <3>3 DEF Names, Rank, Etags, Times
    <3>4. CASE kind # "article"
      BY <2>1, <2>2, <3>1, <3>2, <3>4 DEF Names, Rank, Etags, Times
    <3> QED BY <3>3, <3>4
  <2>4. \A o \in Requests : /\ request'[o].pc = "load" => request[o].pc = "load"
                            /\ request'[o].etag = request[o].etag
                            /\ request'[o].base = request[o].base
    BY <1>4 DEF Save, TypeOK, RequestStates
  <2>5. ASSUME NEW c \in copies PROVE Names(c.etag, c.revision)'
    <3>1. c.etag \in Etags /\ Names(c.etag, c.revision)
      BY <1>i, <1>t
    <3> QED BY <3>1, <2>3
  <2>6. ASSUME NEW o \in Requests, request'[o].pc = "load"
        PROVE  Names(request[o].etag, request[o].base)'
    <3>1. PICK e \in Etags, n \in {request[o].base} : e = request[o].etag /\ Names(e, n)
      BY <1>i, <1>t, <2>4, <2>6
    <3>2. Names(e, n)'
      BY <3>1, <2>3
    <3> QED BY <3>1, <3>2, <2>4 DEF Names
  <2> QED BY <2>2, <2>5, <2>6 DEF EtagInv
<1>5. CASE Touch \/ Delete
  <2>1. /\ kind' = kind /\ copies' = copies /\ request' = request
        /\ \/ doc' = doc
           \/ \E t \in Now(doc.updatedAt) : doc' = Touched(t)
    BY <1>5 DEF Touch, Delete
  <2>2. \A e \in Etags : \A n : Names(e, n) => Names(e, n)'
    BY <2>1 DEF Touched, Names, Rank, Now, TypeOK, Docs, Times, Etags, Kinds
  <2> QED BY <1>i, <1>t, <2>1, <2>2 DEF EtagInv, Names, Rank
<1>6. CASE UNCHANGED vars
  BY <1>6, <1>i DEF vars, Names, Rank
<1> QED BY <1>1, <1>2, <1>3, <1>4, <1>5, <1>6 DEF Next, EtagInv

----------------------------------------------------------------------------
\* A copy with the current etag has the current content.
LEMMA CopyExact ==
    ASSUME TypeOK, EtagInv, Precise, NEW c \in copies, c.etag = EtagOf(doc)
    PROVE  c.revision = doc.revision
<1>1. Rank(c.etag) = Rank(doc)
  BY DEF Rank, EtagOf
<1> QED BY <1>1 DEF EtagInv, Names

LEMMA WriteStep ==
    ASSUME TypeOK, EtagInv, WriteInv, [Next]_vars PROVE WriteInv'
<1> DEFINE Knows(q) == q.verb = "put" /\ q.pc \in {"load", "write"} /\ ~q.overtaken
                          => q.copy.revision = doc.revision /\ q.base = doc.revision
<1> SUFFICES ASSUME Precise', HasEtag', NEW o \in Requests
             PROVE  Knows(request[o])'
  BY DEF WriteInv
<1>k. kind' = kind
  BY DEF Next, vars, Fetch, Revalidate, Edit, NotFound, Answer, LoadArticle, Refuse, Save,
         SaveNothing, Touch, Delete
<1>a. aliased => aliased'
  BY DEF Next, vars, Fetch, Revalidate, Edit, NotFound, Answer, LoadArticle, Refuse, Save,
         SaveNothing, Touch, Delete
<1>d. deleted => deleted'
  BY DEF Next, vars, exists, Fetch, Revalidate, Edit, NotFound, Answer, LoadArticle,
         Refuse, Save, SaveNothing, Touch, Delete
<1>p. Precise /\ HasEtag
  BY <1>k, <1>a, <1>d DEF Precise, HasEtag
<1>i. Knows(request[o])
  BY <1>p DEF WriteInv
<1>1. ASSUME NEW r \in Requests, Fetch(r) \/ Revalidate(r) PROVE Knows(request[o])'
  <2>1. doc' = doc /\ (o # r => request'[o] = request[o])
           /\ (o = r => request'[o].verb = "get")
    BY <1>1 DEF Fetch, Revalidate, Admit, TypeOK
  <2> QED BY <2>1, <1>i
<1>2. ASSUME NEW r \in Requests, Edit(r) PROVE Knows(request[o])'
  <2>1. doc' = doc /\ (o # r => request'[o] = request[o])
    BY <1>2 DEF Edit, Admit, TypeOK
  <2>2. PICK c \in copies :
           \/ /\ c.etag = EtagOf(doc)
              /\ Admit(r, "put", c, IF kind = "article" THEN "load" ELSE "write")
           \/ Admit(r, "put", c, "done")
    BY <1>2, <1>p DEF Edit
  <2>3. CASE c.etag = EtagOf(doc)
    <3>1. c.revision = doc.revision
      BY <2>3, <1>p, CopyExact
    <3>2. o = r => request'[o].copy = c /\ request'[o].base = doc.revision
      BY <2>2 DEF Admit, TypeOK
    <3> QED BY <2>1, <3>1, <3>2, <1>i
  <2>4. CASE Admit(r, "put", c, "done")
    <3>1. o = r => request'[o].pc = "done"
      BY <2>4 DEF Admit, TypeOK
    <3> QED BY <2>1, <3>1, <1>i
  <2> QED BY <2>2, <2>3, <2>4
<1>3. ASSUME NEW r \in Requests, NotFound(r) \/ Refuse(r) \/ SaveNothing(r) \/ Answer(r)
      PROVE  Knows(request[o])'
  <2>1. doc' = doc /\ (o # r => request'[o] = request[o])
           /\ (o = r => request'[o].pc = "done")
    BY <1>3 DEF NotFound, Refuse, SaveNothing, Answer, Goto, TypeOK, RequestStates
  <2> QED BY <2>1, <1>i
<1>4. ASSUME NEW r \in Requests, LoadArticle(r) PROVE Knows(request[o])'
  <2>1. doc' = doc /\ (o # r => request'[o] = request[o])
    BY <1>4 DEF LoadArticle, TypeOK, RequestStates
  <2>2. o = r => /\ request[o].verb = "put" /\ request[o].pc = "load"
                 /\ request'[o].copy = request[o].copy
                 /\ request'[o].overtaken = request[o].overtaken
                 /\ request'[o].base = doc.revision
    BY <1>4 DEF LoadArticle, TypeOK, RequestStates
  <2> QED BY <2>1, <2>2, <1>i
<1>5. ASSUME NEW r \in Requests, Save(r) PROVE Knows(request[o])'
  <2>1. (o = r => request'[o].pc = "done") /\ (o # r => request'[o].overtaken)
    BY <1>5 DEF Save, TypeOK, RequestStates
  <2> QED BY <2>1
<1>6. CASE Touch \/ Delete
  BY <1>6, <1>i DEF Touch, Delete, Touched
<1>7. CASE UNCHANGED vars
  BY <1>7, <1>i DEF vars
<1> QED BY <1>1, <1>2, <1>3, <1>4, <1>5, <1>6, <1>7 DEF Next

LEMMA VerbStep == TypeOK /\ VerbInv /\ [Next]_vars => VerbInv'
<1> SUFFICES ASSUME TypeOK, VerbInv, [Next]_vars, NEW o \in Requests
             PROVE  request'[o].pc = "write" => request'[o].verb = "put"
  BY DEF VerbInv
<1>1. ASSUME NEW r \in Requests, Fetch(r) \/ Revalidate(r) \/ Edit(r)
      PROVE  request'[o].pc = "write" => request'[o].verb = "put"
  BY <1>1 DEF Fetch, Revalidate, Edit, Admit, TypeOK, VerbInv
<1>2. ASSUME NEW r \in Requests,
             NotFound(r) \/ Answer(r) \/ Refuse(r) \/ SaveNothing(r) \/ LoadArticle(r) \/ Save(r)
      PROVE  request'[o].pc = "write" => request'[o].verb = "put"
  BY <1>2 DEF NotFound, Answer, Refuse, SaveNothing, LoadArticle, Save, Goto, TypeOK,
              RequestStates, VerbInv
<1>3. CASE Touch \/ Delete \/ UNCHANGED vars
  BY <1>3 DEF Touch, Delete, vars, VerbInv
<1> QED BY <1>1, <1>2, <1>3 DEF Next

LEMMA Step == IInv /\ [Next]_vars => IInv'
BY TypeStep, VerbStep, EtagStep, WriteStep, BoundsAssumption DEF IInv

----------------------------------------------------------------------------
\* Every variable keeps its type: versions and times stay within the writes made.
THEOREM TypeCorrect == Spec => []TypeOK
<1>1. IInv => TypeOK
  BY DEF IInv
<1> QED BY <1>1, InitInv, Step, PTL DEF Spec

\* Whatever is written while clients fetch copies, a copy whose etag is current
\* has the current content.
THEOREM CopiesAreExactThm == Spec => []CopiesAreExact
<1>1. IInv => CopiesAreExact
  BY CopyExact DEF IInv, CopiesAreExact
<1> QED BY <1>1, InitInv, Step, PTL DEF Spec

\* Content is overwritten unseen only if it was written while the overwriting
\* request was handled.
THEOREM LostOnlyToOverlapThm == Spec => LostOnlyToOverlap
<1> DEFINE Keeps ==
      \A r \in Requests : Saves(r) /\ Precise /\ ~request[r].overtaken
         => request[r].copy.revision = doc.revision /\ Basis(r) = doc.revision
<1>1. IInv /\ [Next]_vars => [Keeps]_vars
  <2> SUFFICES ASSUME IInv, [Next]_vars, NEW r \in Requests,
                      Saves(r), Precise, ~request[r].overtaken
               PROVE  request[r].copy.revision = doc.revision /\ Basis(r) = doc.revision
    OBVIOUS
  <2>1. PICK w \in Requests : Save(w)
    BY DEF Saves, Next, vars, exists, Fetch, Revalidate, Edit, NotFound, Answer,
           LoadArticle, Refuse, SaveNothing, Touch, Touched, Delete
  <2>2. w = r
    BY <2>1 DEF Save, Saves, IInv, TypeOK, RequestStates
  <2>3. HasEtag
    BY <2>1 DEF Save
  <2>4. request[r].verb = "put"
    BY DEF IInv, VerbInv, Saves
  <2> QED BY <2>3, <2>4 DEF IInv, WriteInv, Saves, Basis
<1>2. Spec => [][Keeps]_vars
  BY <1>1, InitInv, Step, PTL DEF Spec
<1> QED BY <1>2 DEF LostOnlyToOverlap
============================================================================
