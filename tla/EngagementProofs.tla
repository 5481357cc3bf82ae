-------------------------- MODULE EngagementProofs --------------------------
(***************************************************************************)
(* Theorems about Engagement, for any number of requests, users and         *)
(* articles and any depth, whether likes of a user overlap or not.         *)
(***************************************************************************)
EXTENDS Engagement, FiniteSetTheorems, SequenceTheorems, WellFoundedInduction, TLAPS

\* Who is in progress has a target that exists; a comment in progress does not
\* exist yet, and a reply in progress is not too deep.
HandlerOK(r) ==
    /\ handler[r].pc = "find" => handler[r].kind = "like" /\ handler[r].done = 0
    /\ handler[r].pc = "run" => handler[r].kind \in {"like", "comment"}
    /\ handler[r].kind = "comment" => ~Unlikes(r)
    /\ handler[r].kind = "like" => handler[r].user \in Users
    /\ handler[r].pc # "over" => ~Exists(r)
    /\ InProgress(r) =>
          \/ handler[r].target \in Articles
          \/ /\ handler[r].target \in Requests
             /\ Exists(handler[r].target)
             /\ handler[r].kind = "comment" => comments[handler[r].target].depth + 1 <= MaxDepth
    /\ Written(r) # {} => handler[r].pc \in {"run", "lost"}
    /\ handler[r].pc = "run" /\ handler[r].done = 0 => Written(r) = {}

\* No two open transactions have written one document.
ExclusiveInv == \A r, o \in Requests : r # o => Written(r) \cap Written(o) = {}

\* The article of the thread that r comments on.
Thread(r) ==
    IF handler[r].target \in Articles THEN handler[r].target
                                      ELSE comments[handler[r].target].entityId

\* A comment in progress has written the documents of its statements so far, and
\* stages the committed counters, each with one more.
StagedOK(r) == handler[r].pc = "run" /\ handler[r].kind = "comment" =>
    /\ \A d \in Documents :
          d \in Written(r) <=> \/ (handler[r].done >= 1 /\ d = r)
                               \/ (handler[r].done >= 2 /\ d = handler[r].target)
                               \/ (handler[r].done >= 3 /\ d = Thread(r))
    /\ \A d \in Written(r) : wrote[r][d] = Incremented(r, d)

\* A like of a comment has emitted its event when its last statement is executed.
EmittedOK(r) ==
    /\ handler[r].pc = "run" /\ handler[r].kind = "like" /\ ~Unlikes(r)
    /\ handler[r].target \in Requests /\ handler[r].done >= 2
    => r \in notified

HandlerInv == \A r \in Requests : HandlerOK(r)
ProgressInv == HandlerInv /\ \A r \in Requests : StagedOK(r) /\ EmittedOK(r)

IInv == /\ TypeOK /\ ProgressInv /\ ExclusiveInv
        /\ CountersExact /\ ThreadsWellFormed /\ LikesAnnounced

----------------------------------------------------------------------------
LEMMA InitInv == Init => IInv
<1> USE NamesAssumption, DepthAssumption
<1> SUFFICES ASSUME Init PROVE IInv
  OBVIOUS
<1>1. \A r \in Requests :
         /\ handler[r].pc = "idle" /\ handler[r].kind = "none" /\ wrote[r] = <<>>
         /\ Written(r) = {} /\ ~Exists(r)
  BY DEF Init, At, Written, Exists
<1>2. At("idle") \in Handlers
  BY DEF At, Handlers
<1>3. TypeOK
  <2>1. ASSUME NEW r \in Requests PROVE wrote[r] \in [Written(r) -> Int]
    <3>1. <<>> \in [{} -> Int]
      OBVIOUS
    <3> QED BY <1>1, <3>1
  <2> QED BY <1>1, <1>2, <2>1 DEF Init, TypeOK
<1>4. ProgressInv /\ ExclusiveInv
  BY <1>1 DEF ProgressInv, HandlerInv, HandlerOK, ExclusiveInv, StagedOK, EmittedOK, InProgress
<1>5. CountersExact
  <2>1. \A a \in Articles : {c \in Requests : comments[c].entityId = a} = {}
    BY DEF Init, NoComment
  <2>2. \A p \in Requests : {c \in Requests : Exists(c) /\ comments[c].parentId = p} = {}
    BY <1>1
  <2> QED BY <2>1, <2>2, FS_EmptySet DEF Init, CountersExact
<1>6. ThreadsWellFormed /\ LikesAnnounced
  BY <1>1 DEF Init, ThreadsWellFormed, LikesAnnounced, LikesOf
<1> QED BY <1>3, <1>4, <1>5, <1>6 DEF IInv

----------------------------------------------------------------------------
(* How far handlers get in each step.                                       *)

\* o's handler is where it was; only its snapshot may have become stale.
Same(o) ==
    /\ handler'[o].pc = handler[o].pc /\ handler'[o].kind = handler[o].kind
    /\ handler'[o].user = handler[o].user /\ handler'[o].target = handler[o].target
    /\ handler'[o].found = handler[o].found /\ handler'[o].done = handler[o].done

OthersSame(r) == \A o \in Requests : o # r => Same(o)

\* r's handler is over or lost.
Left(r) ==
    /\ handler'[r].pc \in {"over", "lost"}
    /\ handler'[r].kind = "none" /\ handler'[r].found = Nobody

LEMMA AtType ==
    ASSUME NEW p \in {"idle", "find", "run", "over", "lost"}
    PROVE  /\ At(p) \in Handlers /\ At(p).pc = p /\ At(p).kind = "none"
           /\ At(p).found = Nobody /\ At(p).done = 0
BY DEF At, Handlers

LEMMA OutdatedSame ==
    ASSUME NEW h \in [Requests -> Handlers], NEW s \in SUBSET Documents
    PROVE  /\ Outdated(h, s) \in [Requests -> Handlers]
           /\ \A o \in Requests :
                 /\ Outdated(h, s)[o].pc = h[o].pc /\ Outdated(h, s)[o].kind = h[o].kind
                 /\ Outdated(h, s)[o].user = h[o].user /\ Outdated(h, s)[o].target = h[o].target
                 /\ Outdated(h, s)[o].found = h[o].found /\ Outdated(h, s)[o].done = h[o].done
<1> DEFINE to(o) == [h[o] EXCEPT !.stale = @ \cup s]
<1>1. ASSUME NEW o \in Requests
      PROVE  /\ to(o) \in Handlers
             /\ to(o).pc = h[o].pc /\ to(o).kind = h[o].kind /\ to(o).user = h[o].user
             /\ to(o).target = h[o].target /\ to(o).found = h[o].found /\ to(o).done = h[o].done
  BY DEF Handlers
<1>2. Outdated(h, s) = [o \in Requests |-> IF h[o].pc = "run" /\ h[o].done > 0 THEN to(o) ELSE h[o]]
  BY DEF Outdated
<1> HIDE DEF to
<1> QED BY <1>1, <1>2

LEMMA ArriveView ==
    ASSUME TypeOK, NEW r \in Requests, NEW p \in {"find", "run", "over"},
           NEW k \in {"none", "like", "comment"}, NEW u \in Users \cup {Nobody},
           NEW d \in Documents \cup {Nobody}, Arrive(r, p, k, u, d)
    PROVE  /\ handler' \in [Requests -> Handlers]
           /\ OthersSame(r)
           /\ handler'[r].pc = p /\ handler'[r].kind = k /\ handler'[r].user = u
           /\ handler'[r].target = d /\ handler'[r].found = Nobody /\ handler'[r].done = 0
<1> DEFINE to == [At(p) EXCEPT !.kind = k, !.user = u, !.target = d]
<1>0. At(p) \in Handlers /\ At(p).pc = p /\ At(p).found = Nobody /\ At(p).done = 0
  BY AtType
<1>1. /\ to \in Handlers /\ to.pc = p /\ to.kind = k /\ to.user = u /\ to.target = d
      /\ to.found = Nobody /\ to.done = 0
  BY <1>0 DEF Handlers
<1>2. handler' = [handler EXCEPT ![r] = to]
  BY DEF Arrive
<1> HIDE DEF to
<1> QED BY <1>1, <1>2 DEF TypeOK, OthersSame, Same

LEMMA FindView ==
    ASSUME TypeOK, NEW r \in Requests, FindLike(r)
    PROVE  /\ handler' \in [Requests -> Handlers]
           /\ OthersSame(r)
           /\ handler[r].pc = "find" /\ handler'[r].pc = "run"
           /\ handler'[r].kind = handler[r].kind /\ handler'[r].user = handler[r].user
           /\ handler'[r].target = handler[r].target /\ handler'[r].done = handler[r].done
<1>1. PICK l \in Likes \cup {Nobody} :
         handler' = [handler EXCEPT ![r].pc = "run", ![r].found = l]
  BY DEF FindLike, TypeOK
<1> DEFINE to == [handler[r] EXCEPT !.pc = "run", !.found = l]
<1>2. handler[r] \in Handlers
  BY DEF TypeOK
<1>3. /\ to \in Handlers /\ to.pc = "run" /\ to.kind = handler[r].kind
      /\ to.user = handler[r].user /\ to.target = handler[r].target
      /\ to.done = handler[r].done
  BY <1>2 DEF Handlers
<1>4. handler' = [handler EXCEPT ![r] = to]
  BY <1>1 DEF TypeOK
<1> HIDE DEF to
<1> QED BY <1>3, <1>4 DEF FindLike, TypeOK, OthersSame, Same

\* The documents that r's statements write.
LEMMA PlanOf ==
    ASSUME NEW r \in Requests, handler[r].kind = "comment" => ~Unlikes(r)
    PROVE  LET d == handler[r].target IN
           /\ Unlikes(r) => Plan(r) = <<d, handler[r].found.id>>
           /\ handler[r].kind = "comment" /\ d \in Requests => Plan(r) = <<r, d, comments[d].entityId>>
           /\ ~Unlikes(r) /\ ~(handler[r].kind = "comment" /\ d \in Requests) => Plan(r) = <<r, d>>
<1> DEFINE d == handler[r].target
<1>1. CASE Unlikes(r)
  BY <1>1 DEF Plan
<1>2. CASE ~Unlikes(r) /\ handler[r].kind = "comment" /\ d \in Requests
  BY <1>2 DEF Plan
<1>3. CASE ~Unlikes(r) /\ ~(handler[r].kind = "comment" /\ d \in Requests)
  BY <1>3 DEF Plan
<1> QED BY <1>1, <1>2, <1>3

LEMMA PlanLength ==
    ASSUME NEW r \in Requests, handler[r].kind = "comment" => ~Unlikes(r)
    PROVE  Len(Plan(r)) \in {2, 3}
<1>1. Plan(r) = <<handler[r].target, handler[r].found.id>> \/ Plan(r) = <<r, handler[r].target>>
      \/ Plan(r) = <<r, handler[r].target, comments[handler[r].target].entityId>>
  BY PlanOf
<1> QED BY <1>1

LEMMA StatementView ==
    ASSUME TypeOK, HandlerInv, NEW r \in Requests, Statement(r)
    PROVE  /\ handler' \in [Requests -> Handlers]
           /\ OthersSame(r)
           /\ handler[r].pc = "run" /\ handler'[r].pc = "run"
           /\ handler'[r].kind = handler[r].kind /\ handler'[r].user = handler[r].user
           /\ handler'[r].target = handler[r].target /\ handler'[r].found = handler[r].found
           /\ handler[r].done \in 0..2 /\ handler'[r].done = handler[r].done + 1
<1> DEFINE to == [handler[r] EXCEPT !.done = @ + 1]
<1>1. handler[r] \in Handlers
  BY DEF TypeOK
<1>2. handler[r].pc = "run" /\ handler[r].done \in 0..2
  <2> DEFINE n == Len(Plan(r))
             m == handler[r].done
  <2>1. n \in {2, 3}
    BY PlanLength DEF HandlerInv, HandlerOK
  <2>2. handler[r].pc = "run" /\ m < n
    BY DEF Statement, Executes
  <2>3. m \in 0..3
    BY <1>1 DEF Handlers
  <2> HIDE DEF n, m
  <2>4. m \in 0..2
    BY <2>1, <2>2, <2>3
  <2> QED BY <2>2, <2>4 DEF m
<1>3. /\ to \in Handlers /\ to.pc = handler[r].pc /\ to.kind = handler[r].kind
      /\ to.user = handler[r].user /\ to.target = handler[r].target
      /\ to.found = handler[r].found /\ to.done = handler[r].done + 1
  BY <1>1, <1>2 DEF Handlers
<1>4. handler' = [handler EXCEPT ![r] = to]
  BY DEF Statement, TypeOK
<1> HIDE DEF to
<1> QED BY <1>2, <1>3, <1>4 DEF TypeOK, OthersSame, Same

LEMMA LeftView ==
    ASSUME TypeOK, NEW r \in Requests, StatementFails(r) \/ Commit(r) \/ Lose(r) \/ Reap(r)
    PROVE  handler' \in [Requests -> Handlers] /\ OthersSame(r) /\ Left(r)
<1>1. \A p \in {"over", "lost"} : At(p) \in Handlers /\ At(p).pc = p /\ At(p).kind = "none"
                                  /\ At(p).found = Nobody
  BY AtType
<1>2. CASE StatementFails(r) \/ Lose(r) \/ Reap(r)
  <2>1. PICK p \in {"over", "lost"} : handler' = [handler EXCEPT ![r] = At(p)]
    BY <1>2 DEF StatementFails, Lose, Reap
  <2> QED BY <1>1, <2>1 DEF TypeOK, OthersSame, Same, Left
<1>3. CASE Commit(r)
  <2> DEFINE h == [handler EXCEPT ![r] = At("over")]
  <2>1. h \in [Requests -> Handlers] /\ h[r] = At("over")
        /\ \A o \in Requests : o # r => h[o] = handler[o]
    BY <1>1 DEF TypeOK
  <2>2. handler' = Outdated(h, Written(r)) /\ Written(r) \in SUBSET Documents
    BY <1>3 DEF Commit, TypeOK
  <2> HIDE DEF h
  <2> QED BY <1>1, <2>1, <2>2, OutdatedSame DEF OthersSame, Same, Left
<1> QED BY <1>2, <1>3

LEMMA WriteView ==
    ASSUME TypeOK, NEW d \in Documents, Write(d)
    PROVE  handler' \in [Requests -> Handlers] /\ \A o \in Requests : Same(o)
<1>1. handler \in [Requests -> Handlers] /\ {d} \in SUBSET Documents
  BY DEF TypeOK
<1>2. handler' = Outdated(handler, {d})
  BY DEF Write
<1> QED BY <1>1, <1>2, OutdatedSame DEF Same

----------------------------------------------------------------------------
(* What transactions write.                                                 *)

OthersWrote(r) == \A o \in Requests : o # r => wrote'[o] = wrote[o]

LEMMA CloseWrites ==
    ASSUME TypeOK, NEW r \in Requests, Close(r)
    PROVE  /\ OthersWrote(r) /\ Written(r)' = {} /\ wrote'[r] \in [{} -> Int]
           /\ wrote' = [o \in Requests |-> wrote'[o]]
<1>1. wrote' = [o \in Requests |-> IF o = r THEN <<>> ELSE wrote[o]]
  BY DEF Close, TypeOK
<1>2. <<>> \in [{} -> Int]
  OBVIOUS
<1>3. wrote'[r] = <<>> /\ OthersWrote(r)
  BY <1>1 DEF OthersWrote
<1> QED BY <1>1, <1>2, <1>3 DEF Written

LEMMA NextDocType ==
    ASSUME TypeOK, HandlerInv, NEW r \in Requests, Executes(r)
    PROVE  /\ NextDoc(r) \in Documents
           /\ handler[r].kind = "comment" =>
                 NextDoc(r) = CASE handler[r].done = 0 -> r
                                [] handler[r].done = 1 -> handler[r].target
                                [] handler[r].done = 2 -> Thread(r)
           /\ handler[r].kind = "comment" /\ handler[r].done = 2 => handler[r].target \in Requests
<1> USE NamesAssumption
<1> DEFINE d == handler[r].target
           n == handler[r].done
<1>1. /\ handler[r].pc = "run" /\ n \in 0..3 /\ n < Len(Plan(r))
      /\ handler[r].found \in Likes \cup {Nobody}
  BY DEF Executes, TypeOK, Handlers
<1>2. /\ handler[r].kind \in {"like", "comment"}
      /\ handler[r].kind = "comment" => ~Unlikes(r)
      /\ d \in Articles \/ (d \in Requests /\ Exists(d))
  BY <1>1 DEF HandlerInv, HandlerOK, InProgress
<1>3. d \in Documents /\ r \in Documents
  BY <1>2 DEF Documents
<1>4. d \in Requests => comments[d].entityId \in Articles
  BY <1>2 DEF TypeOK, Exists, Comments
<1>5. d \in Requests => Thread(r) = comments[d].entityId
  BY DEF Thread
<1>6. CASE Unlikes(r)
  <2>1. handler[r].found.id \in Requests
    BY <1>1, <1>6 DEF Unlikes, Likes
  <2>2. Plan(r) = <<d, handler[r].found.id>>
    BY <1>2, <1>6, PlanOf
  <2> QED BY <1>1, <1>2, <1>3, <1>6, <2>1, <2>2 DEF NextDoc, Documents
<1>7. CASE ~Unlikes(r) /\ handler[r].kind = "comment" /\ d \in Requests
  <2>1. Plan(r) = <<r, d, comments[d].entityId>>
    BY <1>2, <1>7, PlanOf
  <2>2. comments[d].entityId \in Documents
    BY <1>4, <1>7 DEF Documents
  <2>3. n \in {0, 1, 2}
    BY <1>1, <2>1
  <2> QED BY <1>3, <1>5, <1>7, <2>1, <2>2, <2>3 DEF NextDoc
<1>8. CASE ~Unlikes(r) /\ ~(handler[r].kind = "comment" /\ d \in Requests)
  <2>1. Plan(r) = <<r, d>>
    BY <1>2, <1>8, PlanOf
  <2>2. n \in {0, 1}
    BY <1>1, <2>1
  <2> QED BY <1>3, <1>8, <2>1, <2>2 DEF NextDoc
<1> QED BY <1>6, <1>7, <1>8

LEMMA StatementWrites ==
    ASSUME TypeOK, HandlerInv, NEW r \in Requests, Statement(r)
    PROVE  LET d == NextDoc(r) IN
           /\ OthersWrote(r) /\ wrote' = [o \in Requests |-> wrote'[o]]
           /\ Written(r)' = Written(r) \cup (IF Gone(r, d) THEN {} ELSE {d})
           /\ \A x \in Written(r)' :
                 wrote'[r][x] = IF x = d /\ ~Gone(r, d) THEN Incremented(r, x) ELSE wrote[r][x]
           /\ wrote'[r] \in [Written(r)' -> Int]
           /\ \A o \in Requests \ {r} : d \notin Written(o)
<1> DEFINE d == NextDoc(r)
           T == {x \in {d} : ~Gone(r, x)}
           W == [x \in Written(r) \cup T |-> IF x \in T THEN Incremented(r, x) ELSE wrote[r][x]]
<1>1. wrote' = [o \in Requests |-> IF o = r THEN W ELSE wrote[o]]
  BY DEF Statement, TypeOK
<1>2. T = IF Gone(r, d) THEN {} ELSE {d}
  OBVIOUS
<1>3. d \in Documents
  BY NextDocType DEF Statement
<1>4. Incremented(r, d) \in Int
  BY <1>3 DEF Incremented, TypeOK, Documents
<1>5. \A o \in Requests \ {r} : d \notin Written(o)
  BY DEF Statement, Conflict
<1> HIDE DEF d, T
<1>6. W \in [Written(r) \cup T -> Int]
  <2>1. ASSUME NEW x \in Written(r) \cup T
        PROVE  (IF x \in T THEN Incremented(r, x) ELSE wrote[r][x]) \in Int
    BY <1>2, <1>4 DEF TypeOK
  <2> QED BY <2>1
<1>7. DOMAIN W = Written(r) \cup T
      /\ \A x \in Written(r) \cup T :
            W[x] = IF x \in T THEN Incremented(r, x) ELSE wrote[r][x]
  OBVIOUS
<1> HIDE DEF W
<1>8. wrote'[r] = W /\ OthersWrote(r)
  BY <1>1 DEF OthersWrote
<1>9. Written(r)' = Written(r) \cup T
  BY <1>7, <1>8 DEF Written
<1> QED BY <1>1, <1>2, <1>5, <1>6, <1>7, <1>8, <1>9 DEF d

----------------------------------------------------------------------------
(* Invariants of a request that a step leaves where it was.                 *)

\* Comments that exist keep their fields.
CommentsStay == \A c \in Requests : Exists(c) => comments'[c] = comments[c]

LEMMA SameKeeps ==
    ASSUME TypeOK, NEW o \in Requests, HandlerOK(o), StagedOK(o), EmittedOK(o),
           Same(o), wrote'[o] = wrote[o], CommentsStay, Exists(o)' => Exists(o),
           \A d \in Written(o) : /\ d \in Articles => commentsCount'[d] = commentsCount[d]
                                 /\ d \notin Articles => repliesCount'[d] = repliesCount[d],
           notified \subseteq notified'
    PROVE  HandlerOK(o)' /\ StagedOK(o)' /\ EmittedOK(o)' /\ Written(o)' = Written(o)
<1>1. Written(o)' = Written(o)
  BY DEF Written
<1>2. Unlikes(o)' <=> Unlikes(o)
  BY DEF Unlikes, Same
<1>3. InProgress(o)' <=> InProgress(o)
  BY DEF InProgress, Same
<1>4. HandlerOK(o)'
  <2>1. ASSUME handler[o].target \in Requests, Exists(handler[o].target)
        PROVE  Exists(handler[o].target)'
                 /\ comments'[handler[o].target].depth = comments[handler[o].target].depth
    BY <2>1 DEF CommentsStay, Exists, Same
  <2> QED BY <1>1, <1>2, <1>3, <2>1 DEF HandlerOK, Same
<1>5. StagedOK(o)'
  <2> SUFFICES ASSUME handler[o].pc = "run", handler[o].kind = "comment" PROVE StagedOK(o)'
    BY DEF StagedOK, Same
  <2>1. Thread(o)' = Thread(o)
    BY DEF Thread, Same, CommentsStay, HandlerOK, InProgress
  <2>2. \A d \in Written(o) : Incremented(o, d)' = Incremented(o, d)
    BY DEF Incremented, Same
  <2> QED BY <1>1, <2>1, <2>2 DEF StagedOK, Same
<1>6. EmittedOK(o)'
  BY <1>2 DEF EmittedOK, Same
<1> QED BY <1>1, <1>4, <1>5, <1>6

\* A step that changes no like, comment or counter keeps what relates them.
LEMMA Frame ==
    ASSUME UNCHANGED documents, notified \subseteq notified',
           CountersExact, ThreadsWellFormed, LikesAnnounced
    PROVE  CountersExact' /\ ThreadsWellFormed' /\ LikesAnnounced'
BY DEF documents, counters, CountersExact, ThreadsWellFormed, LikesAnnounced, LikesOf, Exists

\* What a step of r has to show: the rest follows.
Fine(r) == HandlerOK(r)' /\ StagedOK(r)' /\ EmittedOK(r)'

LEMMA LightStep ==
    ASSUME IInv, NEW r \in Requests, OthersSame(r), OthersWrote(r), Fine(r),
           handler' \in [Requests -> Handlers],
           wrote' = [o \in Requests |-> wrote'[o]],
           Written(r)' \subseteq Documents, wrote'[r] \in [Written(r)' -> Int],
           \A o \in Requests \ {r} : Written(r)' \cap Written(o) = {},
           UNCHANGED <<documents, moderation>>, notified \subseteq notified',
           notified' \subseteq Requests
    PROVE  IInv'
<1>1. /\ likes' = likes /\ comments' = comments /\ likesCount' = likesCount
      /\ repliesCount' = repliesCount /\ commentsCount' = commentsCount
      /\ status' = status /\ withdrawn' = withdrawn
  BY DEF documents, counters, moderation
<1>2. ASSUME NEW o \in Requests, o # r
      PROVE  HandlerOK(o)' /\ StagedOK(o)' /\ EmittedOK(o)' /\ Written(o)' = Written(o)
  <2>1. CommentsStay /\ (Exists(o)' => Exists(o))
    BY <1>1 DEF CommentsStay, Exists
  <2>2. TypeOK /\ HandlerOK(o) /\ StagedOK(o) /\ EmittedOK(o)
    BY DEF IInv, ProgressInv, HandlerInv
  <2>3. Same(o) /\ wrote'[o] = wrote[o]
    BY <1>2 DEF OthersSame, OthersWrote
  <2> QED BY <1>1, <2>1, <2>2, <2>3, SameKeeps
<1>3. ProgressInv'
  BY <1>2 DEF ProgressInv, HandlerInv, Fine
<1>4. ExclusiveInv'
  BY <1>2 DEF IInv, ExclusiveInv
<1>5. TypeOK'
  <2>1. ASSUME NEW o \in Requests
        PROVE  Written(o)' \subseteq Documents /\ wrote'[o] \in [Written(o)' -> Int]
    <3>1. CASE o = r
      BY <3>1
    <3>2. CASE o # r
      BY <1>2, <3>2 DEF OthersWrote, IInv, TypeOK
    <3> QED BY <3>1, <3>2
  <2> QED BY <1>1, <2>1 DEF IInv, TypeOK
<1>6. CountersExact' /\ ThreadsWellFormed' /\ LikesAnnounced'
  BY Frame DEF IInv
<1> QED BY <1>3, <1>4, <1>5, <1>6 DEF IInv

\* A request arrives, its like is looked up, or its process dies.
LEMMA QuietStep ==
    ASSUME IInv, NEW r \in Requests,
           AskLike(r) \/ AskComment(r) \/ AskReply(r) \/ FindLike(r) \/ Lose(r)
    PROVE  IInv'
<1> USE NamesAssumption
<1>1. TypeOK /\ HandlerOK(r) /\ EmittedOK(r)
  BY DEF IInv, ProgressInv, HandlerInv
<1>2. UNCHANGED <<wrote, documents, moderation, notified>>
  BY DEF AskLike, AskComment, AskReply, Arrive, FindLike, Lose
<1>3. /\ comments' = comments /\ Written(r)' = Written(r)
      /\ \A c \in Requests : Exists(c)' <=> Exists(c)
  BY <1>2 DEF documents, Written, Exists
<1>4. ASSUME handler' \in [Requests -> Handlers], OthersSame(r), Fine(r) PROVE IInv'
  <2>1. /\ OthersWrote(r) /\ wrote' = [o \in Requests |-> wrote'[o]]
        /\ Written(r)' \subseteq Documents /\ wrote'[r] \in [Written(r)' -> Int]
        /\ notified \subseteq notified' /\ notified' \subseteq Requests
    BY <1>1, <1>2, <1>3 DEF OthersWrote, TypeOK
  <2>2. \A o \in Requests \ {r} : Written(r)' \cap Written(o) = {}
    BY <1>3 DEF IInv, ExclusiveInv
  <2> QED BY <1>2, <1>4, <2>1, <2>2, LightStep
<1>5. ASSUME NEW p \in {"find", "run", "over"}, NEW k \in {"none", "like", "comment"},
             NEW u \in Users \cup {Nobody}, NEW d \in Documents \cup {Nobody},
             Arrive(r, p, k, u, d),
             p # "over" => \/ d \in Articles
                           \/ /\ d \in Requests /\ Exists(d)
                              /\ k = "comment" => comments[d].depth + 1 <= MaxDepth,
             p = "find" => k = "like", p = "run" => k = "comment",
             k = "like" => u \in Users
      PROVE  IInv'
  <2>1. /\ handler' \in [Requests -> Handlers] /\ OthersSame(r)
        /\ handler'[r].pc = p /\ handler'[r].kind = k /\ handler'[r].user = u
        /\ handler'[r].target = d /\ handler'[r].found = Nobody /\ handler'[r].done = 0
    BY <1>1, <1>5, ArriveView
  <2>2. handler[r].pc = "idle"
    BY <1>5 DEF Arrive
  <2>3. ~Unlikes(r)' /\ Written(r)' = {} /\ ~Exists(r)'
    BY <1>1, <1>3, <2>1, <2>2 DEF Unlikes, HandlerOK
  <2>4. HandlerOK(r)'
    BY <1>3, <1>5, <2>1, <2>3 DEF HandlerOK, InProgress
  <2>5. StagedOK(r)' /\ EmittedOK(r)'
    BY <2>1, <2>3 DEF StagedOK, EmittedOK
  <2> QED BY <1>4, <2>1, <2>4, <2>5 DEF Fine
<1>6. CASE AskLike(r)
  <2>1. PICK u \in Users, d \in Published \cup Visible : Arrive(r, "find", "like", u, d)
    BY <1>6 DEF AskLike
  <2>2. d \in Articles \/ (d \in Requests /\ Exists(d))
    BY DEF Published, Visible
  <2> QED BY <1>5, <2>1, <2>2 DEF Documents
<1>7. CASE AskComment(r)
  <2>1. PICK a \in Articles : Arrive(r, "run", "comment", Nobody, a)
    BY <1>7 DEF AskComment, Published
  <2> QED BY <1>5, <2>1 DEF Documents
<1>8. CASE AskReply(r)
  <2>1. PICK c \in Requests :
           /\ Exists(c)
           /\ \/ comments[c].depth + 1 <= MaxDepth /\ Arrive(r, "run", "comment", Nobody, c)
              \/ Arrive(r, "over", "none", Nobody, Nobody)
    BY <1>8 DEF AskReply, Visible
  <2> QED BY <1>5, <2>1 DEF Documents
<1>9. CASE FindLike(r)
  <2>1. /\ handler' \in [Requests -> Handlers] /\ OthersSame(r)
        /\ handler[r].pc = "find" /\ handler'[r].pc = "run"
        /\ handler'[r].kind = handler[r].kind /\ handler'[r].user = handler[r].user
        /\ handler'[r].target = handler[r].target /\ handler'[r].done = handler[r].done
    BY <1>1, <1>9, FindView
  <2>2. HandlerOK(r)'
    BY <1>1, <1>3, <2>1 DEF HandlerOK, InProgress
  <2>3. StagedOK(r)' /\ EmittedOK(r)'
    BY <1>1, <2>1 DEF StagedOK, EmittedOK, HandlerOK
  <2> QED BY <1>4, <2>1, <2>2, <2>3 DEF Fine
<1>10. CASE Lose(r)
  <2>1. /\ handler' \in [Requests -> Handlers] /\ OthersSame(r) /\ Left(r)
        /\ handler'[r].pc = "lost"
    BY <1>1, <1>10, LeftView, AtType DEF Lose, TypeOK
  <2>2. ~Exists(r)
    BY <1>1, <1>10 DEF Lose, InProgress, HandlerOK
  <2>3. Fine(r)
    BY <1>3, <2>1, <2>2 DEF Fine, HandlerOK, StagedOK, EmittedOK, Left, InProgress
  <2> QED BY <1>4, <2>1, <2>3
<1> QED BY <1>6, <1>7, <1>8, <1>9, <1>10

\* A transaction is aborted.
LEMMA AbortStep ==
    ASSUME IInv, NEW r \in Requests, StatementFails(r) \/ Reap(r)
    PROVE  IInv'
<1>1. TypeOK
  BY DEF IInv
<1>2. /\ handler' \in [Requests -> Handlers] /\ OthersSame(r) /\ Left(r)
      /\ handler'[r].pc = "over"
  BY <1>1, LeftView, AtType DEF StatementFails, Reap, TypeOK
<1>3. /\ OthersWrote(r) /\ Written(r)' = {} /\ wrote'[r] \in [{} -> Int]
      /\ wrote' = [o \in Requests |-> wrote'[o]]
  BY <1>1, CloseWrites DEF StatementFails, Reap
<1>4. UNCHANGED <<documents, moderation, notified>>
  BY DEF StatementFails, Reap
<1>5. Fine(r)
  BY <1>2, <1>3 DEF Fine, HandlerOK, StagedOK, EmittedOK, Left, InProgress
<1> QED BY <1>1, <1>2, <1>3, <1>4, <1>5, LightStep DEF TypeOK

\* The statement writes what no open transaction has written.
LEMMA StatementStep == ASSUME IInv, NEW r \in Requests, Statement(r) PROVE IInv'
<1> USE NamesAssumption
<1> DEFINE d == NextDoc(r)
           n == handler[r].done
<1>1. TypeOK /\ HandlerInv /\ HandlerOK(r) /\ StagedOK(r) /\ EmittedOK(r)
  BY DEF IInv, ProgressInv, HandlerInv
<1>2. /\ handler' \in [Requests -> Handlers] /\ OthersSame(r)
      /\ handler[r].pc = "run" /\ handler'[r].pc = "run"
      /\ handler'[r].kind = handler[r].kind /\ handler'[r].user = handler[r].user
      /\ handler'[r].target = handler[r].target /\ handler'[r].found = handler[r].found
      /\ n \in 0..2 /\ handler'[r].done = n + 1
  BY <1>1, StatementView
<1>3. /\ OthersWrote(r) /\ wrote' = [o \in Requests |-> wrote'[o]]
      /\ Written(r)' = Written(r) \cup (IF Gone(r, d) THEN {} ELSE {d})
      /\ \A x \in Written(r)' :
            wrote'[r][x] = IF x = d /\ ~Gone(r, d) THEN Incremented(r, x) ELSE wrote[r][x]
      /\ wrote'[r] \in [Written(r)' -> Int]
      /\ \A o \in Requests \ {r} : d \notin Written(o)
  BY <1>1, StatementWrites
<1>4. /\ d \in Documents
      /\ handler[r].kind = "comment" =>
            /\ n = 0 => d = r
            /\ n = 1 => d = handler[r].target
            /\ n = 2 => d = Thread(r) /\ handler[r].target \in Requests
  <2>1. Executes(r)
    BY DEF Statement
  <2> QED BY <1>1, <2>1, NextDocType
<1>5. /\ comments' = comments /\ repliesCount' = repliesCount /\ commentsCount' = commentsCount
      /\ likesCount' = likesCount /\ UNCHANGED <<documents, moderation>>
      /\ notified' = (IF Emits(r) THEN notified \cup {r} ELSE notified)
  BY DEF Statement, documents, counters
<1> HIDE DEF d, n
<1>6. HandlerOK(r)'
  BY <1>1, <1>2, <1>5 DEF HandlerOK, InProgress, Unlikes, Exists, n
<1>7. StagedOK(r)'
  <2> SUFFICES ASSUME handler[r].kind = "comment" PROVE StagedOK(r)'
    BY <1>2 DEF StagedOK
  <2>1. ~Unlikes(r) /\ ~Gone(r, d)
    BY <1>1 DEF HandlerOK, Gone
  <2>2. Thread(r)' = Thread(r) /\ \A x : Incremented(r, x)' = Incremented(r, x)
    BY <1>2, <1>5, <2>1 DEF Thread, Incremented
  <2>3. /\ \A x \in Documents : x \in Written(r) <=> \/ (n >= 1 /\ x = r)
                                                     \/ (n >= 2 /\ x = handler[r].target)
                                                     \/ (n >= 3 /\ x = Thread(r))
        /\ \A x \in Written(r) : wrote[r][x] = Incremented(r, x)
    BY <1>1, <1>2 DEF StagedOK, n
  <2>4. \A x \in Documents : x \in Written(r)' <=> \/ (n + 1 >= 1 /\ x = r)
                                                 \/ (n + 1 >= 2 /\ x = handler[r].target)
                                                 \/ (n + 1 >= 3 /\ x = Thread(r))
    <3>1. \A x : x \in Written(r)' <=> x \in Written(r) \/ x = d
      BY <1>3, <2>1
    <3>2. CASE n = 0 /\ d = r
      BY <2>3, <3>1, <3>2
    <3>3. CASE n = 1 /\ d = handler[r].target
      BY <2>3, <3>1, <3>3
    <3>4. CASE n = 2 /\ d = Thread(r)
      BY <2>3, <3>1, <3>4
    <3> QED BY <1>2, <1>4, <3>2, <3>3, <3>4
  <2>5. \A x \in Written(r)' : wrote'[r][x] = Incremented(r, x)
    BY <1>3, <2>1, <2>3
  <2> QED BY <1>2, <2>2, <2>4, <2>5 DEF StagedOK, Thread
<1>8. EmittedOK(r)'
  <2> SUFFICES ASSUME handler[r].kind = "like", ~Unlikes(r), handler[r].target \in Requests,
                      n + 1 >= 2
               PROVE  r \in notified'
    BY <1>2 DEF EmittedOK, Unlikes
  <2>1. CASE n >= 2
    BY <1>1, <1>2, <1>5, <2>1 DEF EmittedOK, n
  <2>2. CASE n = 1
    <3>1. Plan(r) = <<r, handler[r].target>>
      BY PlanOf
    <3>2. d = handler[r].target
      BY <2>2, <3>1 DEF d, n, NextDoc
    <3>3. handler[r].target # r
      BY <1>1, <1>2 DEF HandlerOK, InProgress
    <3> QED BY <1>5, <3>2, <3>3 DEF Emits, d
  <2> QED BY <1>2, <2>1, <2>2
<1>9. Written(r)' \subseteq Documents
      /\ \A o \in Requests \ {r} : Written(r)' \cap Written(o) = {}
  BY <1>1, <1>3, <1>4 DEF IInv, ExclusiveInv, TypeOK
<1>10. notified \subseteq notified' /\ notified' \subseteq Requests
  BY <1>1, <1>5 DEF TypeOK
<1> QED BY <1>2, <1>3, <1>5, <1>6, <1>7, <1>8, <1>9, <1>10, LightStep DEF Fine

\* A write outside transactions waits for the open ones, and touches no counter.
LEMMA WriteStep ==
    ASSUME IInv,
           \/ \E c \in Requests : Activate(c) \/ DeleteComment(c)
           \/ \E a \in Articles : DeleteArticle(a)
           \/ \E d \in Documents : Patch(d)
    PROVE  IInv'
<1>1. PICK d \in Documents : Write(d)
  BY DEF Activate, DeleteComment, DeleteArticle, Patch, Documents
<1>2. /\ status' \in [Requests -> {"pending", "active", "deleted"}]
      /\ withdrawn' \subseteq Articles
  BY DEF Activate, DeleteComment, DeleteArticle, Patch, Published, moderation, IInv, TypeOK
<1>3. TypeOK
  BY DEF IInv
<1>4. handler' \in [Requests -> Handlers] /\ \A o \in Requests : Same(o)
  BY <1>1, <1>3, WriteView
<1>5. UNCHANGED <<wrote, documents, notified>>
  BY <1>1 DEF Write
<1>6. ASSUME NEW o \in Requests
      PROVE  HandlerOK(o)' /\ StagedOK(o)' /\ EmittedOK(o)' /\ Written(o)' = Written(o)
  <2>1. CommentsStay /\ (Exists(o)' => Exists(o))
        /\ commentsCount' = commentsCount /\ repliesCount' = repliesCount
    BY <1>5 DEF CommentsStay, Exists, documents, counters
  <2>2. HandlerOK(o) /\ StagedOK(o) /\ EmittedOK(o)
    BY DEF IInv, ProgressInv, HandlerInv
  <2> QED BY <1>3, <1>4, <1>5, <2>1, <2>2, SameKeeps
<1>7. ProgressInv' /\ ExclusiveInv'
  BY <1>6 DEF IInv, ProgressInv, HandlerInv, ExclusiveInv
<1>8. TypeOK'
  BY <1>2, <1>4, <1>5, <1>6 DEF IInv, TypeOK, documents, counters
<1>9. CountersExact' /\ ThreadsWellFormed' /\ LikesAnnounced'
  BY <1>5, Frame DEF IInv
<1> QED BY <1>7, <1>8, <1>9 DEF IInv

----------------------------------------------------------------------------
(* Commits.                                                                 *)

LEMMA CommitView ==
    ASSUME IInv, NEW r \in Requests, Commit(r)
    PROVE  /\ handler' \in [Requests -> Handlers] /\ OthersSame(r) /\ Left(r)
           /\ handler'[r].pc = "over" /\ handler[r].pc = "run" /\ ~Exists(r)
           /\ OthersWrote(r) /\ Written(r)' = {} /\ wrote'[r] \in [{} -> Int]
           /\ wrote' = [o \in Requests |-> wrote'[o]]
           /\ UNCHANGED <<moderation, notified>>
<1>1. TypeOK /\ HandlerOK(r)
  BY DEF IInv, ProgressInv, HandlerInv
<1>2. handler[r].pc = "run" /\ ~Exists(r)
  BY <1>1 DEF Commit, HandlerOK
<1>3. handler'[r].pc = "over"
  <2> DEFINE h == [handler EXCEPT ![r] = At("over")]
  <2>1. h \in [Requests -> Handlers] /\ h[r].pc = "over"
    BY <1>1, AtType DEF TypeOK
  <2>2. handler' = Outdated(h, Written(r)) /\ Written(r) \in SUBSET Documents
    BY <1>1 DEF Commit, TypeOK
  <2> HIDE DEF h
  <2> QED BY <2>1, <2>2, OutdatedSame
<1>4. /\ OthersWrote(r) /\ Written(r)' = {} /\ wrote'[r] \in [{} -> Int]
      /\ wrote' = [o \in Requests |-> wrote'[o]]
  BY <1>1, CloseWrites DEF Commit
<1> QED BY <1>1, <1>2, <1>3, <1>4, LeftView DEF Commit

\* A commit changes counters of the documents that it has written, and at most
\* the comment r: the other requests stay where they were.
LEMMA CommitOthers ==
    ASSUME IInv, NEW r \in Requests, Commit(r),
           \A c \in Requests : c # r => comments'[c] = comments[c],
           \A d \in Articles : d \notin Written(r) => commentsCount'[d] = commentsCount[d],
           \A d \in Requests : d \notin Written(r) => repliesCount'[d] = repliesCount[d]
    PROVE  /\ ProgressInv' /\ ExclusiveInv'
           /\ \A o \in Requests : Written(o)' \subseteq Documents /\ wrote'[o] \in [Written(o)' -> Int]
<1>1. /\ OthersSame(r) /\ Left(r) /\ handler'[r].pc = "over" /\ ~Exists(r)
      /\ OthersWrote(r) /\ Written(r)' = {} /\ wrote'[r] \in [{} -> Int]
      /\ notified' = notified
  BY CommitView
<1>2. TypeOK /\ ExclusiveInv
  BY DEF IInv
<1>3. ASSUME NEW o \in Requests, o # r
      PROVE  HandlerOK(o)' /\ StagedOK(o)' /\ EmittedOK(o)' /\ Written(o)' = Written(o)
  <2>1. CommentsStay /\ (Exists(o)' => Exists(o))
    BY <1>1, <1>3 DEF CommentsStay, Exists
  <2>2. HandlerOK(o) /\ StagedOK(o) /\ EmittedOK(o)
    BY DEF IInv, ProgressInv, HandlerInv
  <2>3. Same(o) /\ wrote'[o] = wrote[o]
    BY <1>1, <1>3 DEF OthersSame, OthersWrote
  <2>4. \A d \in Written(o) : /\ d \in Documents /\ d \notin Written(r)
                              /\ d \in Articles => commentsCount'[d] = commentsCount[d]
                              /\ d \notin Articles => repliesCount'[d] = repliesCount[d]
    BY <1>2, <1>3 DEF ExclusiveInv, TypeOK, Documents
  <2> QED BY <1>1, <1>2, <2>1, <2>2, <2>3, <2>4, SameKeeps
<1>4. HandlerOK(r)' /\ StagedOK(r)' /\ EmittedOK(r)'
  BY <1>1 DEF HandlerOK, StagedOK, EmittedOK, Left, InProgress
<1>5. ProgressInv' /\ ExclusiveInv'
  BY <1>1, <1>2, <1>3, <1>4 DEF ProgressInv, HandlerInv, ExclusiveInv
<1> QED BY <1>1, <1>2, <1>3, <1>5 DEF OthersWrote, TypeOK

LEMMA StagedCounter ==
    ASSUME NEW r \in Requests, NEW S, NEW f \in [S -> Int], NEW D
    PROVE  /\ DOMAIN Staged(r, f, D) = S
           /\ \A d \in S : Staged(r, f, D)[d] = IF d \in D \cap Written(r) THEN wrote[r][d] ELSE f[d]
           /\ Staged(r, f, D) = [d \in S |-> Staged(r, f, D)[d]]
BY DEF Staged

LEMMA CommitLikeStep ==
    ASSUME IInv, NEW r \in Requests, Commit(r), CommitLike(r)
    PROVE  IInv'
<1> USE NamesAssumption
<1>1. TypeOK /\ HandlerOK(r) /\ EmittedOK(r)
  BY DEF IInv, ProgressInv, HandlerInv
<1>2. /\ handler' \in [Requests -> Handlers] /\ handler[r].pc = "run"
      /\ wrote' = [o \in Requests |-> wrote'[o]]
      /\ UNCHANGED <<moderation, notified>>
  BY CommitView
<1>3. /\ comments' = comments /\ repliesCount' = repliesCount /\ commentsCount' = commentsCount
      /\ handler[r].kind = "like"
  BY DEF CommitLike
<1>4. /\ ProgressInv' /\ ExclusiveInv'
      /\ \A o \in Requests : Written(o)' \subseteq Documents /\ wrote'[o] \in [Written(o)' -> Int]
  BY <1>3, CommitOthers
<1>5. likes' \subseteq Likes
  <2>1. [id |-> r, owner |-> handler[r].user, entityId |-> handler[r].target] \in Likes
    BY <1>1, <1>2, <1>3 DEF HandlerOK, InProgress, Likes, Documents
  <2> QED BY <1>1, <2>1 DEF CommitLike, TypeOK
<1>6. likesCount' \in [Documents -> Int]
  <2>1. /\ likesCount \in [Documents -> Int]
        /\ likesCount' = Staged(r, likesCount, {handler[r].target})
        /\ \A d \in Written(r) : wrote[r][d] \in Int
    BY <1>1 DEF CommitLike, TypeOK
  <2>2. \A d \in Documents : likesCount'[d] \in Int
    BY <2>1, StagedCounter
  <2> QED BY <2>1, <2>2, StagedCounter
<1>7. TypeOK'
  BY <1>1, <1>2, <1>3, <1>4, <1>5, <1>6 DEF TypeOK, moderation
<1>8. CountersExact' /\ ThreadsWellFormed'
  BY <1>3 DEF IInv, CountersExact, ThreadsWellFormed, Exists
<1>9. LikesAnnounced'
  <2> SUFFICES ASSUME NEW l \in likes', EntityType(l.entityId) = "Comment" PROVE l.id \in notified
    BY <1>2 DEF LikesAnnounced, LikesOf
  <2>1. CASE l \in likes
    BY <2>1 DEF IInv, LikesAnnounced, LikesOf
  <2>2. CASE l \notin likes
    <3>1. /\ ~Unlikes(r)
          /\ l = [id |-> r, owner |-> handler[r].user, entityId |-> handler[r].target]
      BY <2>2 DEF CommitLike
    <3>2. handler[r].target \in Requests
      BY <1>1, <1>2, <3>1 DEF EntityType, HandlerOK, InProgress
    <3>3. Plan(r) = <<r, handler[r].target>>
      BY <1>3, <3>1, PlanOf
    <3>4. handler[r].done = 2
      BY <3>3 DEF Commit
    <3> QED BY <1>1, <1>2, <1>3, <3>1, <3>2, <3>4 DEF EmittedOK
  <2> QED BY <2>1, <2>2
<1> QED BY <1>4, <1>7, <1>8, <1>9 DEF IInv

\* What a comment has written when it commits: itself, its parent and its article.
LEMMA CommentWrote ==
    ASSUME IInv, NEW r \in Requests, Commit(r), handler[r].kind = "comment"
    PROVE  /\ Thread(r) \in Articles
           /\ \A a \in Articles : /\ a \in Written(r) <=> a = Thread(r)
                                  /\ a \in Written(r) => wrote[r][a] = commentsCount[a] + 1
           /\ \A p \in Requests \ {r} :
                 /\ p \in Written(r) <=> p = handler[r].target
                 /\ p \in Written(r) => wrote[r][p] = repliesCount[p] + 1
<1> USE NamesAssumption
<1> DEFINE d == handler[r].target
           n == handler[r].done
<1>1. TypeOK /\ HandlerOK(r) /\ StagedOK(r) /\ handler[r].pc = "run"
  BY DEF IInv, ProgressInv, HandlerInv, Commit
<1>2. ~Unlikes(r) /\ (d \in Articles \/ (d \in Requests /\ Exists(d)))
  BY <1>1 DEF HandlerOK, InProgress
<1>3. d \notin Articles => d \in Requests /\ Thread(r) = comments[d].entityId
  BY <1>2 DEF Thread
<1>4. Thread(r) \in Articles
  BY <1>1, <1>2 DEF TypeOK, Exists, Comments, Thread
<1>5. /\ d \in Articles => n = 2 /\ Thread(r) = d
      /\ d \notin Articles => n = 3
  <2>1. n = Len(Plan(r))
    BY DEF Commit
  <2>2. CASE d \in Articles
    <3>1. Plan(r) = <<r, d>>
      BY <1>2, <2>2, PlanOf
    <3> QED BY <2>1, <2>2, <3>1 DEF Thread
  <2>3. CASE d \notin Articles
    <3>1. Plan(r) = <<r, d, comments[d].entityId>>
      BY <1>2, <2>3, PlanOf
    <3> QED BY <2>1, <2>3, <3>1
  <2> QED BY <2>2, <2>3
<1>6. /\ \A x \in Documents : x \in Written(r) <=> \/ (n >= 1 /\ x = r)
                                                   \/ (n >= 2 /\ x = d)
                                                   \/ (n >= 3 /\ x = Thread(r))
      /\ \A x \in Written(r) : wrote[r][x] = Incremented(r, x)
  BY <1>1 DEF StagedOK
<1> HIDE DEF d, n
<1>7. \A x \in Documents : x \in Written(r) <=> x = r \/ x = d \/ x = Thread(r)
  BY <1>5, <1>6
<1>8. /\ \A a \in Articles : Incremented(r, a) = commentsCount[a] + 1
      /\ \A p \in Requests : Incremented(r, p) = repliesCount[p] + 1
  BY DEF Incremented
<1>9. ASSUME NEW a \in Articles
      PROVE  (a \in Written(r) <=> a = Thread(r))
             /\ (a \in Written(r) => wrote[r][a] = commentsCount[a] + 1)
  BY <1>3, <1>5, <1>6, <1>7, <1>8 DEF Documents
<1>10. ASSUME NEW p \in Requests \ {r}
       PROVE  (p \in Written(r) <=> p = d)
              /\ (p \in Written(r) => wrote[r][p] = repliesCount[p] + 1)
  BY <1>4, <1>6, <1>7, <1>8 DEF Documents
<1> QED BY <1>4, <1>9, <1>10 DEF d

LEMMA PathType ==
    ASSUME NEW p
    PROVE  p \in Paths <=> p \in Seq(Requests) /\ Len(p) \in 1..(MaxDepth + 1)
<1> USE DepthAssumption
<1>1. ASSUME p \in Paths PROVE p \in Seq(Requests) /\ Len(p) \in 1..(MaxDepth + 1)
  <2>1. PICK n \in 1..(MaxDepth + 1) : p \in [1..n -> Requests]
    BY <1>1 DEF Paths
  <2>2. p \in Seq(Requests)
    BY <2>1, SeqDef
  <2> QED BY <2>1, <2>2, LenProperties
<1>2. ASSUME p \in Seq(Requests), Len(p) \in 1..(MaxDepth + 1) PROVE p \in Paths
  <2>1. p \in [1..Len(p) -> Requests]
    BY <1>2, LenProperties
  <2> QED BY <1>2, <2>1 DEF Paths
<1> QED BY <1>1, <1>2

\* The document of a new comment or reply.
LEMMA NewCommentIs ==
    ASSUME IInv, NEW r \in Requests, Commit(r), handler[r].kind = "comment"
    PROVE  LET d == handler[r].target
               new == NewComment(r)
           IN /\ new \in Comments /\ new # NoComment
              /\ new.entityId = Thread(r)
              /\ Len(new.path) = new.depth + 1 /\ new.path[new.depth + 1] = r
              /\ new.rootId = new.path[1]
              /\ d \in Articles => new.parentId = Nobody /\ new.depth = 0
              /\ d \notin Articles => /\ d \in Requests /\ Exists(d) /\ new.parentId = d
                                      /\ new.path = Append(comments[d].path, r)
<1> USE NamesAssumption, DepthAssumption
<1> DEFINE d == handler[r].target
           new == NewComment(r)
<1>1. TypeOK /\ HandlerOK(r) /\ handler[r].pc = "run" /\ ThreadsWellFormed
  BY DEF IInv, ProgressInv, HandlerInv, Commit
<1>2. \/ d \in Articles
      \/ d \in Requests /\ Exists(d) /\ comments[d].depth + 1 <= MaxDepth
  BY <1>1 DEF HandlerOK, InProgress
<1>3. Thread(r) \in Articles
  BY CommentWrote
<1>4. CASE d \in Articles
  <2>1. new = [entityId |-> d, parentId |-> Nobody, rootId |-> r, depth |-> 0, path |-> <<r>>]
    BY <1>4 DEF NewComment
  <2>2. <<r>> \in Paths
    <3>1. 1 \in 1..(MaxDepth + 1) /\ <<r>> \in [1..1 -> Requests]
      OBVIOUS
    <3> QED BY <3>1 DEF Paths
  <2>3. /\ new \in Comments /\ new.entityId = d /\ new.parentId = Nobody /\ new.depth = 0
        /\ new.path = <<r>> /\ new.rootId = r
    BY <1>4, <2>1, <2>2 DEF Comments
  <2>4. new # NoComment
    BY <1>4, <2>3 DEF NoComment
  <2> HIDE DEF new
  <2> QED BY <1>4, <2>3, <2>4 DEF Thread, new
<1>5. CASE d \notin Articles
  <2> DEFINE up == comments[d]
  <2>1. up \in Comments /\ d \in Requests /\ Exists(d) /\ up.depth + 1 <= MaxDepth
    BY <1>1, <1>2, <1>5 DEF TypeOK, Exists
  <2>2. new = [up EXCEPT !.parentId = d, !.depth = @ + 1, !.path = Append(@, r)]
    BY <1>5 DEF NewComment
  <2>3. up.depth \in 0..MaxDepth /\ up.path \in Paths /\ up.rootId \in Requests
        /\ up.entityId \in Articles
    BY <2>1 DEF Comments
  <2>4. Len(up.path) = up.depth + 1 /\ up.rootId = up.path[1]
    BY <1>1, <2>1 DEF ThreadsWellFormed
  <2> DEFINE path == up.path
             depth == up.depth
             longer == Append(path, r)
  <2>5. /\ path \in Seq(Requests) /\ Len(path) = depth + 1 /\ depth \in 0..MaxDepth
        /\ depth + 1 <= MaxDepth
    BY <2>1, <2>3, <2>4, PathType
  <2>6. /\ longer \in Seq(Requests) /\ Len(longer) = depth + 2
        /\ longer[depth + 2] = r /\ longer[1] = path[1]
    <3> HIDE DEF path, depth
    <3> QED BY <2>5
  <2>7. longer \in Paths
    <3> HIDE DEF longer, depth
    <3> QED BY <2>5, <2>6, PathType
  <2>8. /\ new \in Comments /\ new.entityId = up.entityId /\ new.parentId = d
        /\ new.depth = depth + 1 /\ new.path = longer /\ new.rootId = up.rootId
    <3> HIDE DEF longer
    <3>1. new = [up EXCEPT !.parentId = d, !.depth = depth + 1, !.path = longer]
      BY <2>2 DEF longer
    <3>2. new = [entityId |-> up.entityId, parentId |-> d, rootId |-> up.rootId,
                 depth |-> depth + 1, path |-> longer]
      <4> HIDE DEF d
      <4> QED BY <2>1, <3>1 DEF Comments
    <3> HIDE DEF new
    <3> QED BY <2>1, <2>3, <2>5, <2>7, <3>2 DEF Comments
  <2>9. new # NoComment /\ new.entityId = Thread(r)
    BY <1>5, <2>3, <2>8 DEF NoComment, Thread
  <2>10. new.depth + 1 = depth + 2 /\ new.depth \in Nat
    BY <2>5, <2>8
  <2> HIDE DEF new, longer
  <2> QED BY <1>5, <2>1, <2>4, <2>6, <2>8, <2>9, <2>10 DEF new, longer
<1> QED BY <1>4, <1>5

LEMMA OneMore ==
    ASSUME NEW A \in SUBSET Requests, NEW r \in Requests, r \notin A
    PROVE  Cardinality(A \cup {r}) = Cardinality(A) + 1
<1>1. IsFiniteSet(A)
  BY FiniteAssumption, FS_Subset
<1> QED BY <1>1, FS_AddElement

\* The commit of a comment adds its document and one to each counter of it.
LEMMA CommentCounts ==
    ASSUME IInv, NEW r \in Requests, Commit(r), CommitComment(r)
    PROVE  LET d == handler[r].target
               top == Thread(r)
           IN /\ comments[r] = NoComment /\ comments'[r] = NewComment(r) /\ DOMAIN comments' = Requests
              /\ comments' \in [Requests -> Comments \cup {NoComment}]
              /\ \A c \in Requests : c # r => comments'[c] = comments[c]
              /\ commentsCount' \in [Articles -> Nat]
              /\ \A a \in Articles :
                    commentsCount'[a] = IF a = top THEN commentsCount[a] + 1 ELSE commentsCount[a]
              /\ repliesCount' \in [Requests -> Nat]
              /\ \A p \in Requests : repliesCount'[p] =
                    IF p = d /\ p # r THEN repliesCount[p] + 1 ELSE repliesCount[p]
<1> USE NamesAssumption
<1> DEFINE d == handler[r].target
           new == NewComment(r)
           top == Thread(r)
<1>1. /\ TypeOK /\ CountersExact /\ ThreadsWellFormed /\ LikesAnnounced
      /\ handler[r].kind = "comment"
  BY DEF IInv, CommitComment
<1>2. /\ handler' \in [Requests -> Handlers] /\ ~Exists(r)
      /\ wrote' = [o \in Requests |-> wrote'[o]]
      /\ UNCHANGED <<moderation, notified>>
  BY CommitView
<1>3. /\ likes' = likes /\ likesCount' = likesCount
      /\ comments' = [comments EXCEPT ![r] = new]
      /\ commentsCount' = Staged(r, commentsCount, Articles)
      /\ repliesCount' = Staged(r, repliesCount, Requests \ {r})
  BY DEF CommitComment
<1>4. /\ top \in Articles
      /\ \A a \in Articles : /\ a \in Written(r) <=> a = top
                             /\ a \in Written(r) => wrote[r][a] = commentsCount[a] + 1
      /\ \A p \in Requests \ {r} : /\ p \in Written(r) <=> p = d
                                   /\ p \in Written(r) => wrote[r][p] = repliesCount[p] + 1
  BY <1>1, CommentWrote
<1>5. /\ new \in Comments /\ new # NoComment /\ new.entityId = top
      /\ Len(new.path) = new.depth + 1 /\ new.path[new.depth + 1] = r
      /\ new.rootId = new.path[1]
      /\ d \in Articles => new.parentId = Nobody /\ new.depth = 0
      /\ d \notin Articles => /\ d \in Requests /\ Exists(d) /\ new.parentId = d
                              /\ new.path = Append(comments[d].path, r)
  BY <1>1, NewCommentIs
<1> HIDE DEF d, new, top
<1>6. /\ comments[r] = NoComment /\ comments'[r] = new /\ DOMAIN comments' = Requests
      /\ comments' \in [Requests -> Comments \cup {NoComment}]
      /\ \A c \in Requests : c # r => comments'[c] = comments[c]
  BY <1>1, <1>2, <1>3, <1>5 DEF TypeOK, Exists
<1>7. /\ commentsCount' \in [Articles -> Nat]
      /\ \A a \in Articles : commentsCount'[a] = IF a = top THEN commentsCount[a] + 1 ELSE commentsCount[a]
  <2>1. commentsCount \in [Articles -> Nat]
    BY <1>1 DEF TypeOK
  <2>2. \A a \in Articles : commentsCount'[a] =
           IF a \in Written(r) THEN wrote[r][a] ELSE commentsCount[a]
    BY <1>3, <2>1 DEF Staged
  <2>3. \A a \in Articles : commentsCount'[a] = IF a = top THEN commentsCount[a] + 1 ELSE commentsCount[a]
    BY <1>4, <2>2
  <2>4. commentsCount' = [a \in Articles |-> commentsCount'[a]]
    BY <1>3, <2>1 DEF Staged
  <2> QED BY <2>1, <2>3, <2>4
<1>8. /\ repliesCount' \in [Requests -> Nat]
      /\ \A p \in Requests : repliesCount'[p] =
            IF p = d /\ p # r THEN repliesCount[p] + 1 ELSE repliesCount[p]
  <2>1. repliesCount \in [Requests -> Nat]
    BY <1>1 DEF TypeOK
  <2>2. \A p \in Requests : repliesCount'[p] =
           IF p # r /\ p \in Written(r) THEN wrote[r][p] ELSE repliesCount[p]
    BY <1>3, <2>1 DEF Staged
  <2>3. \A p \in Requests : repliesCount'[p] =
           IF p = d /\ p # r THEN repliesCount[p] + 1 ELSE repliesCount[p]
    BY <1>4, <2>2
  <2>4. repliesCount' = [p \in Requests |-> repliesCount'[p]]
    BY <1>3, <2>1 DEF Staged
  <2> QED BY <2>1, <2>3, <2>4
<1> QED BY <1>6, <1>7, <1>8 DEF d, new, top

LEMMA CommitCommentStep ==
    ASSUME IInv, NEW r \in Requests, Commit(r), CommitComment(r)
    PROVE  IInv'
<1> USE NamesAssumption
<1> DEFINE d == handler[r].target
           new == NewComment(r)
           top == Thread(r)
<1>1. /\ TypeOK /\ CountersExact /\ ThreadsWellFormed /\ LikesAnnounced
      /\ handler[r].kind = "comment"
  BY DEF IInv, CommitComment
<1>2. /\ handler' \in [Requests -> Handlers] /\ ~Exists(r)
      /\ wrote' = [o \in Requests |-> wrote'[o]]
      /\ UNCHANGED <<moderation, notified>>
  BY CommitView
<1>3. /\ likes' = likes /\ likesCount' = likesCount
      /\ comments' = [comments EXCEPT ![r] = new]
      /\ commentsCount' = Staged(r, commentsCount, Articles)
      /\ repliesCount' = Staged(r, repliesCount, Requests \ {r})
  BY DEF CommitComment
<1>4. /\ top \in Articles
      /\ \A a \in Articles : /\ a \in Written(r) <=> a = top
                             /\ a \in Written(r) => wrote[r][a] = commentsCount[a] + 1
      /\ \A p \in Requests \ {r} : /\ p \in Written(r) <=> p = d
                                   /\ p \in Written(r) => wrote[r][p] = repliesCount[p] + 1
  BY <1>1, CommentWrote
<1>5. /\ new \in Comments /\ new # NoComment /\ new.entityId = top
      /\ Len(new.path) = new.depth + 1 /\ new.path[new.depth + 1] = r
      /\ new.rootId = new.path[1]
      /\ d \in Articles => new.parentId = Nobody /\ new.depth = 0
      /\ d \notin Articles => /\ d \in Requests /\ Exists(d) /\ new.parentId = d
                              /\ new.path = Append(comments[d].path, r)
  BY <1>1, NewCommentIs
<1> HIDE DEF d, new, top
<1>6. /\ comments[r] = NoComment /\ comments'[r] = new /\ DOMAIN comments' = Requests
      /\ comments' \in [Requests -> Comments \cup {NoComment}]
      /\ \A c \in Requests : c # r => comments'[c] = comments[c]
  BY CommentCounts DEF new
<1>7. /\ commentsCount' \in [Articles -> Nat]
      /\ \A a \in Articles : commentsCount'[a] = IF a = top THEN commentsCount[a] + 1 ELSE commentsCount[a]
  BY CommentCounts DEF top
<1>8. /\ repliesCount' \in [Requests -> Nat]
      /\ \A p \in Requests : repliesCount'[p] =
            IF p = d /\ p # r THEN repliesCount[p] + 1 ELSE repliesCount[p]
  BY CommentCounts DEF d
<1>9. /\ ProgressInv' /\ ExclusiveInv'
      /\ \A o \in Requests : Written(o)' \subseteq Documents /\ wrote'[o] \in [Written(o)' -> Int]
  <2>1. \A a \in Articles : a \notin Written(r) => commentsCount'[a] = commentsCount[a]
    BY <1>4, <1>7
  <2>2. \A p \in Requests : p \notin Written(r) => repliesCount'[p] = repliesCount[p]
    <3>1. d # r
      BY <1>2, <1>5, <1>6
    <3> QED BY <1>4, <1>8, <3>1
  <2> QED BY <1>6, <2>1, <2>2, CommitOthers
<1>10. TypeOK'
  BY <1>1, <1>2, <1>3, <1>6, <1>7, <1>8, <1>9 DEF TypeOK, moderation
<1>11. CountersExact'
  <2>1. ASSUME NEW a \in Articles
        PROVE  commentsCount'[a] = Cardinality({c \in Requests : comments'[c].entityId = a})
    <3> DEFINE before == {c \in Requests : comments[c].entityId = a}
               after == {c \in Requests : comments'[c].entityId = a}
    <3>1. r \notin before /\ before \in SUBSET Requests
      BY <1>6 DEF NoComment
    <3>2. commentsCount[a] = Cardinality(before) /\ commentsCount[a] \in Nat
      BY <1>1 DEF CountersExact, TypeOK
    <3>3. after = IF a = top THEN before \cup {r} ELSE before
      BY <1>5, <1>6, <3>1
    <3> HIDE DEF before, after
    <3>4. Cardinality(after) = IF a = top THEN Cardinality(before) + 1 ELSE Cardinality(before)
      BY <3>1, <3>2, <3>3, OneMore
    <3>5. commentsCount'[a] = Cardinality(after)
      BY <1>7, <3>2, <3>4
    <3> QED BY <3>5 DEF after
  <2>2. ASSUME NEW p \in Requests
        PROVE  repliesCount'[p] = Cardinality({c \in Requests : Exists(c)' /\ comments'[c].parentId = p})
    <3> DEFINE before == {c \in Requests : Exists(c) /\ comments[c].parentId = p}
               after == {c \in Requests : Exists(c)' /\ comments'[c].parentId = p}
    <3>1. r \notin before /\ before \in SUBSET Requests
      BY <1>2
    <3>2. repliesCount[p] = Cardinality(before) /\ repliesCount[p] \in Nat
      BY <1>1 DEF CountersExact, TypeOK
    <3>3. new.parentId = p <=> p = d /\ p # r
      BY <1>2, <1>5
    <3>4. after = IF p = d /\ p # r THEN before \cup {r} ELSE before
      BY <1>2, <1>5, <1>6, <3>1, <3>3 DEF Exists
    <3> HIDE DEF before, after
    <3>5. Cardinality(after) =
            IF p = d /\ p # r THEN Cardinality(before) + 1 ELSE Cardinality(before)
      BY <3>1, <3>2, <3>4, OneMore
    <3>6. repliesCount'[p] = Cardinality(after)
      BY <1>8, <3>2, <3>5
    <3> QED BY <3>6 DEF after
  <2> QED BY <2>1, <2>2 DEF CountersExact
<1>12. ThreadsWellFormed'
  <2> SUFFICES ASSUME NEW c \in Requests, Exists(c)'
               PROVE  LET doc == comments'[c] IN
                      /\ doc.path[doc.depth + 1] = c /\ Len(doc.path) = doc.depth + 1
                      /\ doc.rootId = doc.path[1]
                      /\ IF doc.parentId = Nobody
                           THEN doc.depth = 0
                           ELSE /\ comments'[doc.parentId] # NoComment
                                /\ LET up == comments'[doc.parentId] IN
                                   /\ doc.entityId = up.entityId
                                   /\ doc.path = Append(up.path, c)
    BY DEF ThreadsWellFormed, Exists
  <2>1. \A p \in Requests : Exists(p) => Exists(p)' /\ comments'[p] = comments[p]
    BY <1>2, <1>6 DEF Exists
  <2>2. CASE c = r
    <3>1. CASE d \in Articles
      BY <1>5, <1>6, <2>2, <3>1
    <3>2. CASE d \notin Articles
      <4>1. new.entityId = comments[d].entityId
        BY <1>5, <3>2 DEF Thread, top, d
      <4>2. comments'[d] = comments[d] /\ comments'[d] # NoComment /\ new.parentId # Nobody
        BY <1>5, <2>1, <3>2 DEF Exists
      <4> QED BY <1>5, <1>6, <2>2, <3>2, <4>1, <4>2
    <3> QED BY <3>1, <3>2
  <2>3. CASE c # r
    <3> DEFINE doc == comments[c]
    <3>1. comments'[c] = doc /\ Exists(c) /\ doc \in Comments
      BY <1>1, <1>6, <2>3 DEF Exists, TypeOK
    <3>2. doc.parentId \in Requests \cup {Nobody}
      BY <3>1 DEF Comments
    <3>3. /\ doc.path[doc.depth + 1] = c /\ Len(doc.path) = doc.depth + 1
          /\ doc.rootId = doc.path[1]
          /\ doc.parentId = Nobody => doc.depth = 0
          /\ doc.parentId # Nobody =>
                /\ doc.parentId \in Requests /\ Exists(doc.parentId)
                /\ doc.entityId = comments[doc.parentId].entityId
                /\ doc.path = Append(comments[doc.parentId].path, c)
      BY <1>1, <3>1, <3>2 DEF ThreadsWellFormed
    <3> HIDE DEF doc
    <3> QED BY <2>1, <3>1, <3>3 DEF Exists
  <2> QED BY <2>2, <2>3
<1>13. LikesAnnounced'
  BY <1>1, <1>2, <1>3 DEF LikesAnnounced, LikesOf
<1> QED BY <1>9, <1>10, <1>11, <1>12, <1>13 DEF IInv

----------------------------------------------------------------------------
LEMMA NextInv == IInv /\ [Next]_vars => IInv'
<1> SUFFICES ASSUME IInv, [Next]_vars PROVE IInv'
  OBVIOUS
<1>1. ASSUME NEW r \in Requests,
             AskLike(r) \/ AskComment(r) \/ AskReply(r) \/ FindLike(r) \/ Lose(r)
      PROVE  IInv'
  BY <1>1, QuietStep
<1>2. ASSUME NEW r \in Requests, StatementFails(r) \/ Reap(r)
      PROVE  IInv'
  BY <1>2, AbortStep
<1>3. ASSUME NEW r \in Requests, Statement(r)
      PROVE  IInv'
  BY <1>3, StatementStep
<1>4. ASSUME NEW r \in Requests, Commit(r)
      PROVE  IInv'
  <2>1. CommitLike(r) \/ CommitComment(r)
    BY <1>4 DEF Commit
  <2> QED BY <1>4, <2>1, CommitLikeStep, CommitCommentStep
<1>5. ASSUME \/ \E c \in Requests : Activate(c) \/ DeleteComment(c)
             \/ \E a \in Articles : DeleteArticle(a)
             \/ \E d \in Documents : Patch(d)
      PROVE  IInv'
  BY <1>5, WriteStep
<1>6. CASE UNCHANGED vars
  <2>1. /\ handler' = handler /\ wrote' = wrote /\ likes' = likes /\ comments' = comments
        /\ status' = status /\ withdrawn' = withdrawn /\ likesCount' = likesCount
        /\ repliesCount' = repliesCount /\ commentsCount' = commentsCount /\ notified' = notified
    BY <1>6 DEF vars, documents, counters, moderation
  <2>2. TypeOK'
    BY <2>1 DEF IInv, TypeOK, Written
  <2>3. HandlerInv' /\ ExclusiveInv'
    BY <2>1 DEF IInv, ProgressInv, HandlerInv, HandlerOK, ExclusiveInv, Unlikes, InProgress,
                Written, Exists
  <2>4. \A r \in Requests : StagedOK(r)' /\ EmittedOK(r)'
    BY <2>1 DEF IInv, ProgressInv, StagedOK, EmittedOK, Unlikes, Written, Incremented, Thread
  <2>5. CountersExact' /\ ThreadsWellFormed' /\ LikesAnnounced'
    BY <2>1 DEF IInv, CountersExact, ThreadsWellFormed, LikesAnnounced, LikesOf, Exists
  <2> QED BY <2>2, <2>3, <2>4, <2>5 DEF IInv, ProgressInv
<1> QED BY <1>1, <1>2, <1>3, <1>4, <1>5, <1>6 DEF Next

LEMMA Invariance == Spec => []IInv
BY InitInv, NextInv, PTL DEF Spec

----------------------------------------------------------------------------
(* Sums over finite sets.                                                   *)

\* Induction over the subsets of a finite set: of the subsets that are bad, one
\* contains no other.
LEMMA SmallestBad ==
    ASSUME NEW S, IsFiniteSet(S), NEW Bad \in SUBSET SUBSET S, Bad # {}
    PROVE  \E T \in Bad : \A U \in Bad : U \subseteq T => U = T
<1>1. IsWellFoundedOn(StrictSubsetOrdering(S), SUBSET S)
  BY FS_StrictSubsetOrderingWellFounded, FS_FiniteSubsetsOfFinite
<1>2. PICK T \in Bad : \A U \in Bad : <<U, T>> \notin StrictSubsetOrdering(S)
  BY <1>1, WFMin
<1> QED BY <1>2 DEF StrictSubsetOrdering

First(s) == CHOOSE x \in s : TRUE

LEMMA FirstIn == ASSUME NEW s, s # {} PROVE First(s) \in s
BY DEF First

\* sums[s] is the sum of f over s, for the subsets s of S.
Sums(f, S, sums) ==
    sums = [s \in SUBSET S |-> IF s = {} THEN 0 ELSE f[First(s)] + sums[s \ {First(s)}]]

Sum(f, S) == MapThenSumSet(LAMBDA d : f[d], S)

LEMMA SumIs == ASSUME NEW f, NEW S PROVE Sum(f, S) = (CHOOSE sums : Sums(f, S, sums))[S]
BY DEF Sum, MapThenSumSet, MapThenFoldSet, Sums, First

LEMMA SumsUnique ==
    ASSUME NEW f, NEW S, IsFiniteSet(S), NEW g, Sums(f, S, g), NEW h, Sums(f, S, h)
    PROVE  g = h
<1> DEFINE Bad == {s \in SUBSET S : g[s] # h[s]}
<1>1. /\ \A s \in SUBSET S : g[s] = IF s = {} THEN 0 ELSE f[First(s)] + g[s \ {First(s)}]
      /\ \A s \in SUBSET S : h[s] = IF s = {} THEN 0 ELSE f[First(s)] + h[s \ {First(s)}]
      /\ g = [s \in SUBSET S |-> g[s]] /\ h = [s \in SUBSET S |-> h[s]]
  BY DEF Sums
<1>2. Bad = {}
  <2> SUFFICES ASSUME Bad # {} PROVE FALSE
    OBVIOUS
  <2>0. Bad \in SUBSET SUBSET S
    OBVIOUS
  <2> HIDE DEF Bad
  <2>1. PICK T \in Bad : \A U \in Bad : U \subseteq T => U = T
    BY <2>0, SmallestBad
  <2> USE DEF Bad
  <2>2. T # {}
    BY <1>1
  <2>3. T \ {First(T)} \notin Bad /\ T \ {First(T)} \in SUBSET S
    BY <2>1, <2>2, FirstIn
  <2>4. T \in SUBSET S /\ g[T] # h[T]
    BY <2>1
  <2>5. g[T \ {First(T)}] = h[T \ {First(T)}]
    BY <2>3
  <2> QED BY <1>1, <2>2, <2>4, <2>5
<1> QED BY <1>1, <1>2

LEMMA SumsRestricted ==
    ASSUME NEW f, NEW S, NEW g, Sums(f, S, g), NEW T \in SUBSET S
    PROVE  Sums(f, T, [s \in SUBSET T |-> g[s]])
<1> DEFINE h == [s \in SUBSET T |-> g[s]]
<1>1. \A s \in SUBSET S : g[s] = IF s = {} THEN 0 ELSE f[First(s)] + g[s \ {First(s)}]
  BY DEF Sums
<1>2. \A s \in SUBSET T : h[s] = IF s = {} THEN 0 ELSE f[First(s)] + h[s \ {First(s)}]
  BY <1>1
<1> QED BY <1>2 DEF Sums

LEMMA SumsExist ==
    ASSUME NEW f, NEW S, IsFiniteSet(S)
    PROVE  \E g : Sums(f, S, g)
<1> DEFINE Bad == {s \in SUBSET S : ~\E g : Sums(f, s, g)}
<1> SUFFICES ASSUME Bad # {} PROVE FALSE
  OBVIOUS
<1>0. Bad \in SUBSET SUBSET S
  OBVIOUS
<1> HIDE DEF Bad
<1>1. PICK T \in Bad : \A U \in Bad : U \subseteq T => U = T
  BY <1>0, SmallestBad
<1> USE DEF Bad
<1> DEFINE of(s) == CHOOSE g : Sums(f, s, g)
           value(s) == IF s = {} THEN 0 ELSE f[First(s)] + of(s \ {First(s)})[s \ {First(s)}]
           h == [s \in SUBSET T |-> value(s)]
<1>2. ASSUME NEW s \in SUBSET T, s # T PROVE Sums(f, s, of(s))
  <2>1. s \notin Bad /\ s \in SUBSET S
    BY <1>1, <1>2
  <2> QED BY <2>1
<1> HIDE DEF of
<1>3. ASSUME NEW s \in SUBSET T, s # T PROVE of(s)[s] = value(s)
  <2>1. CASE s = {}
    <3>1. Sums(f, {}, of({})) /\ {} \in SUBSET {}
      BY <1>2, <1>3, <2>1
    <3>2. of({})[{}] = 0
      BY <3>1 DEF Sums
    <3> QED BY <2>1, <3>2
  <2>2. CASE s # {}
    <3> DEFINE u == s \ {First(s)}
    <3>1. First(s) \in s /\ u \in SUBSET s /\ u \in SUBSET T /\ u # T /\ IsFiniteSet(u)
      BY <1>3, <2>2, FirstIn, FS_Subset
    <3>2. Sums(f, s, of(s)) /\ Sums(f, u, of(u))
      BY <1>2, <1>3, <3>1
    <3>3. [v \in SUBSET u |-> of(s)[v]] = of(u)
      <4>1. Sums(f, u, [v \in SUBSET u |-> of(s)[v]])
        BY <3>1, <3>2, SumsRestricted
      <4> QED BY <3>1, <3>2, <4>1, SumsUnique
    <3>4. of(s)[u] = of(u)[u]
      BY <3>3
    <3>5. of(s)[s] = f[First(s)] + of(s)[u]
      BY <2>2, <3>2 DEF Sums
    <3> QED BY <2>2, <3>4, <3>5
  <2> QED BY <2>1, <2>2
<1>4. \A s \in SUBSET T : h[s] = IF s = {} THEN 0 ELSE f[First(s)] + h[s \ {First(s)}]
  <2> SUFFICES ASSUME NEW s \in SUBSET T, s # {}
               PROVE  value(s) = f[First(s)] + value(s \ {First(s)})
    BY FirstIn
  <2> DEFINE u == s \ {First(s)}
  <2>1. u \in SUBSET T /\ u # T
    BY FirstIn
  <2>2. of(u)[u] = value(u)
    BY <1>3, <2>1
  <2> HIDE DEF u
  <2> QED BY <2>2 DEF u
<1>5. Sums(f, T, h)
  BY <1>4 DEF Sums
<1> QED BY <1>1, <1>5

\* The recursion of the sum.
LEMMA SumStep ==
    ASSUME NEW f, NEW S, IsFiniteSet(S)
    PROVE  /\ S = {} => Sum(f, S) = 0
           /\ S # {} => Sum(f, S) = f[First(S)] + Sum(f, S \ {First(S)})
<1> DEFINE of(s) == CHOOSE g : Sums(f, s, g)
           u == S \ {First(S)}
<1>1. \A s : IsFiniteSet(s) => Sums(f, s, of(s))
  BY SumsExist
<1>2. \A s : Sum(f, s) = of(s)[s]
  BY SumIs
<1> HIDE DEF of
<1>3. CASE S = {}
  BY <1>1, <1>2, <1>3 DEF Sums
<1>4. CASE S # {}
  <2>1. u \in SUBSET S /\ IsFiniteSet(u)
    BY FS_Subset
  <2>2. Sums(f, S, of(S)) /\ Sums(f, u, of(u))
    BY <1>1, <2>1
  <2>3. [v \in SUBSET u |-> of(S)[v]] = of(u)
    BY <2>1, <2>2, SumsRestricted, SumsUnique
  <2>4. of(S)[u] = of(u)[u]
    BY <2>3
  <2>5. of(S)[S] = f[First(S)] + of(S)[u]
    BY <1>4, <2>2 DEF Sums
  <2> QED BY <1>2, <1>4, <2>4, <2>5
<1> QED BY <1>3, <1>4

LEMMA SumType ==
    ASSUME NEW S, IsFiniteSet(S), NEW f, \A d \in S : f[d] \in Int
    PROVE  Sum(f, S) \in Int
<1> DEFINE Bad == {s \in SUBSET S : Sum(f, s) \notin Int}
<1> SUFFICES ASSUME Bad # {} PROVE FALSE
  OBVIOUS
<1>0. Bad \in SUBSET SUBSET S
  OBVIOUS
<1> HIDE DEF Bad
<1>1. PICK T \in Bad : \A U \in Bad : U \subseteq T => U = T
  BY <1>0, SmallestBad
<1> USE DEF Bad
<1>2. IsFiniteSet(T)
  BY FS_Subset
<1>3. T # {}
  <2>1. Sum(f, T) \notin Int
    BY <1>1
  <2>2. T = {} => Sum(f, T) = 0
    BY <1>2, SumStep
  <2> QED BY <2>1, <2>2
<1>4. First(T) \in T /\ Sum(f, T \ {First(T)}) \in Int
  BY <1>1, <1>3, FirstIn
<1> QED BY <1>1, <1>2, <1>3, <1>4, SumStep

\* Any element may be taken out.
LEMMA SumRemove ==
    ASSUME NEW S, IsFiniteSet(S), NEW f, \A d \in S : f[d] \in Int, NEW x \in S
    PROVE  Sum(f, S) = f[x] + Sum(f, S \ {x})
<1> DEFINE Bad == {s \in SUBSET S : \E y \in s : Sum(f, s) # f[y] + Sum(f, s \ {y})}
<1> SUFFICES ASSUME Bad # {} PROVE FALSE
  OBVIOUS
<1>0. Bad \in SUBSET SUBSET S
  OBVIOUS
<1> HIDE DEF Bad
<1>1. PICK T \in Bad : \A U \in Bad : U \subseteq T => U = T
  BY <1>0, SmallestBad
<1> USE DEF Bad
<1>2. PICK y \in T : Sum(f, T) # f[y] + Sum(f, T \ {y})
  BY <1>1
<1> DEFINE z == First(T)
           rest == (T \ {y}) \ {z}
<1>3. /\ z \in T /\ IsFiniteSet(T) /\ Sum(f, T) = f[z] + Sum(f, T \ {z})
  BY <1>2, FirstIn, SumStep, FS_Subset
<1>4. z # y
  BY <1>2, <1>3
<1>5. Sum(f, T \ {z}) = f[y] + Sum(f, rest)
  <2>1. y \in T \ {z} /\ (T \ {z}) \ {y} = rest /\ T \ {z} \in SUBSET S
    BY <1>3, <1>4
  <2>2. T \ {z} \notin Bad
    BY <1>1, <1>3
  <2> QED BY <2>1, <2>2
<1>6. Sum(f, T \ {y}) = f[z] + Sum(f, rest)
  <2>1. z \in T \ {y} /\ T \ {y} \in SUBSET S
    BY <1>3, <1>4
  <2>2. T \ {y} \notin Bad
    BY <1>1, <1>2
  <2> QED BY <2>1, <2>2
<1>7. Sum(f, rest) \in Int /\ f[y] \in Int /\ f[z] \in Int
  BY <1>1, <1>3, SumType, FS_Subset
<1> HIDE DEF rest, z, Bad
<1>8. f[z] + (f[y] + Sum(f, rest)) = f[y] + (f[z] + Sum(f, rest))
  BY <1>7
<1> QED BY <1>2, <1>3, <1>5, <1>6, <1>8

\* The sum depends on the values in the set only.
LEMMA SumSame ==
    ASSUME NEW S, IsFiniteSet(S), NEW f, NEW g, \A d \in S : f[d] = g[d]
    PROVE  Sum(f, S) = Sum(g, S)
<1>1. PICK h : Sums(f, S, h)
  BY SumsExist
<1>2. \A s \in SUBSET S : (IF s = {} THEN 0 ELSE f[First(s)] + h[s \ {First(s)}])
                         = (IF s = {} THEN 0 ELSE g[First(s)] + h[s \ {First(s)}])
  BY FirstIn
<1>3. Sums(g, S, h)
  BY <1>1, <1>2 DEF Sums
<1>4. Sum(f, S) = h[S] /\ Sum(g, S) = h[S]
  BY <1>1, <1>3, SumIs, SumsUnique
<1> QED BY <1>4

\* The counter of one document changes.
LEMMA SumUpdate ==
    ASSUME NEW S, IsFiniteSet(S), NEW f, \A d \in S : f[d] \in Int,
           NEW g, NEW x \in S, NEW n \in Int, g[x] = f[x] + n,
           \A d \in S \ {x} : g[d] = f[d]
    PROVE  Sum(g, S) = Sum(f, S) + n
<1>1. IsFiniteSet(S \ {x}) /\ \A d \in S : g[d] \in Int
  BY FS_Subset
<1>2. Sum(f, S \ {x}) = Sum(g, S \ {x}) /\ Sum(f, S \ {x}) \in Int
  BY <1>1, SumSame, SumType
<1>3. Sum(f, S) = f[x] + Sum(f, S \ {x}) /\ Sum(g, S) = g[x] + Sum(g, S \ {x})
  BY <1>1, SumRemove
<1> DEFINE rest == Sum(f, S \ {x})
<1>4. rest \in Int /\ f[x] \in Int
  BY <1>2
<1> QED BY <1>2, <1>3, <1>4

LEMMA SumZero ==
    ASSUME NEW S, IsFiniteSet(S), NEW f, \A d \in S : f[d] = 0
    PROVE  Sum(f, S) = 0
<1> DEFINE Bad == {s \in SUBSET S : Sum(f, s) # 0}
<1> SUFFICES ASSUME Bad # {} PROVE FALSE
  OBVIOUS
<1>0. Bad \in SUBSET SUBSET S
  OBVIOUS
<1> HIDE DEF Bad
<1>1. PICK T \in Bad : \A U \in Bad : U \subseteq T => U = T
  BY <1>0, SmallestBad
<1> USE DEF Bad
<1>2. IsFiniteSet(T) /\ Sum(f, T) # 0
  BY <1>1, FS_Subset
<1>3. T # {}
  BY <1>2, SumStep
<1>4. First(T) \in T /\ Sum(f, T \ {First(T)}) = 0
  BY <1>1, <1>3, FirstIn
<1>5. f[First(T)] = 0
  BY <1>1, <1>4
<1> QED BY <1>2, <1>3, <1>4, <1>5, SumStep

----------------------------------------------------------------------------
(* Likes and the sums of their counters.                                    *)

\* r is a like in progress.
Liking(r) == InProgress(r) /\ handler[r].kind = "like"

\* The likes of r's user of the type of entity that r likes.
Mine(r) == {l \in likes : /\ l.owner = handler[r].user
                          /\ EntityType(l.entityId) = EntityType(handler[r].target)}

\* What r has found is still all there is, and r stages committed counters, with
\* one more or less.
LikeOK(r) == Liking(r) /\ handler[r].pc = "run" =>
    /\ Mine(r) = IF Unlikes(r) THEN {handler[r].found} ELSE {}
    /\ \A d \in Written(r) : wrote[r][d] = Incremented(r, d)
    /\ handler[r].done >= 2 \/ (handler[r].done >= 1 /\ Unlikes(r))
       => handler[r].target \in Written(r)

\* A user has one like in progress.
Alone == \A r, o \in Requests :
    Liking(r) /\ Liking(o) /\ handler[r].user = handler[o].user => r = o

\* A user likes one article and one comment.
OneLike == \A k, l \in likes :
    k.owner = l.owner /\ EntityType(k.entityId) = EntityType(l.entityId) => k = l

Types == {"Article", "Comment"}
Entities(t) == IF t = "Article" THEN Articles ELSE Requests
AddUp(t) == Sum(likesCount, Entities(t)) = Cardinality(LikesOf(t))

LikesInv == ~Overlap =>
    /\ Alone /\ OneLike /\ IsFiniteSet(likes)
    /\ \A r \in Requests : LikeOK(r)
    /\ \A t \in Types : AddUp(t)

LEMMA EntitiesOf ==
    ASSUME NEW d \in Documents, NEW t \in Types
    PROVE  /\ EntityType(d) \in Types /\ (d \in Entities(t) <=> EntityType(d) = t)
           /\ IsFiniteSet(Entities(t)) /\ Entities(t) \subseteq Documents
BY NamesAssumption, FiniteAssumption DEF EntityType, Entities, Types, Documents

LEMMA AddUpIs == LikesInv => LikesAddUp
<1>1. \A D : Total(D) = Sum(likesCount, D)
  BY DEF Total, Sum
<1>2. \A t \in Types : AddUp(t) <=> Total(Entities(t)) = Cardinality(LikesOf(t))
  BY <1>1 DEF AddUp
<1> QED BY <1>2 DEF LikesInv, LikesAddUp, OneLike, Types, Entities

LEMMA InitLikes == Init => LikesInv
<1> SUFFICES ASSUME Init PROVE LikesInv
  OBVIOUS
<1>1. /\ likes = {} /\ \A r \in Requests : handler[r].pc = "idle"
      /\ \A d \in Documents : likesCount[d] = 0
  BY DEF Init, At
<1>2. ASSUME NEW t \in Types PROVE AddUp(t)
  <2>1. IsFiniteSet(Entities(t)) /\ \A d \in Entities(t) : likesCount[d] = 0
    BY <1>1, FiniteAssumption DEF Entities, Documents
  <2>2. Sum(likesCount, Entities(t)) = 0
    BY <2>1, SumZero
  <2>3. LikesOf(t) = {}
    BY <1>1 DEF LikesOf
  <2> QED BY <2>2, <2>3, FS_EmptySet DEF AddUp
<1> QED BY <1>1, <1>2, FS_EmptySet
        DEF LikesInv, Alone, OneLike, LikeOK, Liking, InProgress

LEMMA LikeKeeps ==
    ASSUME TypeOK, NEW o \in Requests, LikeOK(o), Same(o), wrote'[o] = wrote[o],
           \A l : l.owner = handler[o].user => (l \in likes' <=> l \in likes),
           \A d \in Written(o) : likesCount'[d] = likesCount[d]
    PROVE  LikeOK(o)'
<1>1. /\ Written(o)' = Written(o) /\ (Unlikes(o)' <=> Unlikes(o))
      /\ (Liking(o)' <=> Liking(o))
  BY DEF Written, Unlikes, Liking, InProgress, Same
<1>2. Mine(o)' = Mine(o)
  BY DEF Mine, Same
<1>3. Liking(o) => \A d \in Written(o) : Incremented(o, d)' = Incremented(o, d)
  BY <1>1 DEF Incremented, Same, Liking
<1> QED BY <1>1, <1>2, <1>3 DEF LikeOK, Same

\* A step that changes no like and no counter of likes.
LEMMA LikesFrame ==
    ASSUME TypeOK, LikesInv, ~Overlap, likes' = likes, likesCount' = likesCount, NEW r,
           \A o \in Requests : o # r => Same(o) /\ wrote'[o] = wrote[o],
           r \in Requests =>
              /\ LikeOK(r)'
              /\ Liking(r)' => \A o \in Requests :
                    o # r /\ Liking(o) => handler[o].user # handler'[r].user
    PROVE  LikesInv'
<1>1. ASSUME NEW o \in Requests, o # r
      PROVE  LikeOK(o)' /\ (Liking(o)' <=> Liking(o)) /\ handler'[o].user = handler[o].user
  <2>1. Same(o) /\ wrote'[o] = wrote[o] /\ LikeOK(o)
    BY <1>1 DEF LikesInv
  <2>2. LikeOK(o)'
    BY <2>1, LikeKeeps
  <2> QED BY <2>1, <2>2 DEF Same, Liking, InProgress
<1>2. \A o \in Requests : LikeOK(o)'
  BY <1>1
<1>3. Alone'
  BY <1>1 DEF LikesInv, Alone
<1>4. OneLike' /\ \A t \in Types : AddUp(t)'
  BY DEF LikesInv, OneLike, AddUp, LikesOf
<1> QED BY <1>2, <1>3, <1>4 DEF LikesInv

LEMMA AskLikes ==
    ASSUME IInv, LikesInv, ~Overlap, NEW r \in Requests,
           AskLike(r) \/ AskComment(r) \/ AskReply(r) \/ FindLike(r)
    PROVE  LikesInv'
<1> USE NamesAssumption
<1>1. TypeOK /\ HandlerOK(r)
  BY DEF IInv, ProgressInv, HandlerInv
<1>2. likes' = likes /\ likesCount' = likesCount /\ wrote' = wrote
  BY DEF AskLike, AskComment, AskReply, Arrive, FindLike, documents, counters
<1>3. ASSUME OthersSame(r), LikeOK(r)',
             Liking(r)' => \A o \in Requests :
                    o # r /\ Liking(o) => handler[o].user # handler'[r].user
      PROVE  LikesInv'
  <2>1. \A o \in Requests : o # r => Same(o) /\ wrote'[o] = wrote[o]
    BY <1>2, <1>3 DEF OthersSame
  <2> QED BY <1>1, <1>2, <1>3, <2>1, LikesFrame
<1>4. ASSUME NEW p \in {"find", "run", "over"}, NEW k \in {"none", "like", "comment"},
             NEW u \in Users \cup {Nobody}, NEW d \in Documents \cup {Nobody},
             Arrive(r, p, k, u, d), k = "like" => p = "find" /\ MayLike(u)
      PROVE  LikesInv'
  <2>1. /\ OthersSame(r) /\ handler'[r].pc = p /\ handler'[r].kind = k /\ handler'[r].user = u
    BY <1>1, <1>4, ArriveView
  <2>2. LikeOK(r)'
    BY <1>4, <2>1 DEF LikeOK, Liking
  <2>3. ASSUME Liking(r)', NEW o \in Requests, Liking(o) PROVE handler[o].user # u
    BY <1>4, <2>1, <2>3 DEF Liking, MayLike
  <2> QED BY <1>3, <2>1, <2>2, <2>3
<1>5. CASE AskLike(r)
  <2>1. PICK u \in Users, d \in Published \cup Visible :
           MayLike(u) /\ Arrive(r, "find", "like", u, d)
    BY <1>5 DEF AskLike
  <2>2. d \in Documents
    BY DEF Published, Visible, Documents
  <2> QED BY <1>4, <2>1, <2>2
<1>6. CASE AskComment(r)
  <2>1. PICK a \in Articles : Arrive(r, "run", "comment", Nobody, a)
    BY <1>6 DEF AskComment, Published
  <2> QED BY <1>4, <2>1 DEF Documents
<1>7. CASE AskReply(r)
  <2>1. PICK c \in Requests : \/ Arrive(r, "run", "comment", Nobody, c)
                              \/ Arrive(r, "over", "none", Nobody, Nobody)
    BY <1>7 DEF AskReply, Visible
  <2> QED BY <1>4, <2>1 DEF Documents
<1>8. CASE FindLike(r)
  <2>1. /\ OthersSame(r) /\ handler[r].pc = "find" /\ handler'[r].pc = "run"
        /\ handler'[r].kind = handler[r].kind /\ handler'[r].user = handler[r].user
        /\ handler'[r].target = handler[r].target /\ handler'[r].done = handler[r].done
    BY <1>1, <1>8, FindView
  <2>2. Liking(r) /\ Written(r) = {} /\ handler[r].done = 0
    BY <1>1, <2>1 DEF HandlerOK, Liking, InProgress
  <2>3. PICK l \in IF Mine(r) = {} THEN {Nobody} ELSE Mine(r) :
           handler' = [handler EXCEPT ![r].pc = "run", ![r].found = l]
    BY <1>8 DEF FindLike, Mine
  <2>4. handler'[r].found = l
    BY <1>1, <2>3 DEF TypeOK, Handlers
  <2>5. Mine(r)' = Mine(r) /\ Written(r)' = {}
    BY <1>2, <2>1, <2>2 DEF Mine, Written
  <2>6. Mine(r)' = IF Unlikes(r)' THEN {handler'[r].found} ELSE {}
    <3>1. CASE Mine(r) = {}
      BY <2>3, <2>4, <2>5, <3>1 DEF Unlikes
    <3>2. CASE Mine(r) # {}
      <4>1. l \in Mine(r) /\ l # Nobody
        BY <1>1, <2>3, <3>2, NobodyAssumption DEF Mine, TypeOK
      <4>2. Mine(r) = {l}
        BY <4>1 DEF Mine, LikesInv, OneLike
      <4> QED BY <2>4, <2>5, <4>1, <4>2 DEF Unlikes
    <3> QED BY <3>1, <3>2
  <2>7. LikeOK(r)'
    BY <2>1, <2>2, <2>5, <2>6 DEF LikeOK
  <2>8. \A o \in Requests : o # r /\ Liking(o) => handler[o].user # handler'[r].user
    BY <2>1, <2>2 DEF LikesInv, Alone
  <2> QED BY <1>3, <2>1, <2>7, <2>8
<1> QED BY <1>5, <1>6, <1>7, <1>8

LEMMA LeaveLikes ==
    ASSUME IInv, LikesInv, ~Overlap, NEW r \in Requests,
           StatementFails(r) \/ Lose(r) \/ Reap(r) \/ (Commit(r) /\ CommitComment(r))
    PROVE  LikesInv'
<1>1. TypeOK
  BY DEF IInv
<1>2. OthersSame(r) /\ ~Liking(r)'
  BY <1>1, LeftView DEF Left, Liking
<1>3. likes' = likes /\ likesCount' = likesCount
  BY DEF StatementFails, Lose, Reap, CommitComment, documents, counters
<1>4. OthersWrote(r)
  BY <1>1, CloseWrites DEF StatementFails, Lose, Reap, Commit, OthersWrote
<1> QED BY <1>1, <1>2, <1>3, <1>4, LikesFrame DEF OthersSame, OthersWrote, LikeOK

LEMMA StatementLikes ==
    ASSUME IInv, LikesInv, ~Overlap, NEW r \in Requests, Statement(r)
    PROVE  LikesInv'
<1> DEFINE d == NextDoc(r)
           n == handler[r].done
<1>1. TypeOK /\ HandlerInv /\ HandlerOK(r) /\ LikeOK(r)
  BY DEF IInv, ProgressInv, HandlerInv, LikesInv
<1>2. /\ OthersSame(r) /\ handler[r].pc = "run" /\ handler'[r].pc = "run"
      /\ handler'[r].kind = handler[r].kind /\ handler'[r].user = handler[r].user
      /\ handler'[r].target = handler[r].target /\ handler'[r].found = handler[r].found
      /\ n \in 0..2 /\ handler'[r].done = n + 1
  BY <1>1, StatementView
<1>3. /\ OthersWrote(r)
      /\ Written(r)' = Written(r) \cup (IF Gone(r, d) THEN {} ELSE {d})
      /\ \A x \in Written(r)' :
            wrote'[r][x] = IF x = d /\ ~Gone(r, d) THEN Incremented(r, x) ELSE wrote[r][x]
  BY <1>1, StatementWrites
<1>4. likes' = likes /\ likesCount' = likesCount
  BY DEF Statement, documents, counters
<1>5. /\ (Liking(r)' <=> Liking(r)) /\ (Unlikes(r)' <=> Unlikes(r)) /\ Mine(r)' = Mine(r)
  BY <1>2, <1>4 DEF Liking, InProgress, Unlikes, Mine
<1>6. LikeOK(r)'
  <2> SUFFICES ASSUME Liking(r) PROVE LikeOK(r)'
    BY <1>5 DEF LikeOK
  <2>1. /\ Mine(r) = IF Unlikes(r) THEN {handler[r].found} ELSE {}
        /\ \A x \in Written(r) : wrote[r][x] = Incremented(r, x)
        /\ n >= 2 \/ (n >= 1 /\ Unlikes(r)) => handler[r].target \in Written(r)
    BY <1>1, <1>2 DEF LikeOK
  <2>2. ~Gone(r, d)
    <3>1. Unlikes(r) => handler[r].found \in likes
      BY <2>1 DEF Mine
    <3> QED BY <3>1 DEF Gone
  <2>3. \A x : Incremented(r, x)' = Incremented(r, x)
    BY <1>2, <1>4, <1>5 DEF Incremented, Liking
  <2>4. \A x \in Written(r)' : wrote'[r][x] = Incremented(r, x)'
    BY <1>3, <2>1, <2>2, <2>3
  <2>5. /\ Unlikes(r) => Plan(r) = <<handler[r].target, handler[r].found.id>>
        /\ ~Unlikes(r) => Plan(r) = <<r, handler[r].target>>
    BY <1>1, PlanOf DEF HandlerOK, Liking
  <2>6. /\ Unlikes(r) /\ n = 0 => d = handler[r].target
        /\ ~Unlikes(r) /\ n = 1 => d = handler[r].target
    BY <2>5 DEF NextDoc
  <2> HIDE DEF d, n
  <2>7. n + 1 >= 2 \/ (n + 1 >= 1 /\ Unlikes(r)) => handler[r].target \in Written(r)'
    BY <1>2, <1>3, <2>1, <2>2, <2>6
  <2> QED BY <1>2, <1>5, <2>1, <2>4, <2>7 DEF LikeOK
<1>7. Liking(r)' => \A o \in Requests :
         o # r /\ Liking(o) => handler[o].user # handler'[r].user
  BY <1>2, <1>5 DEF LikesInv, Alone
<1> QED BY <1>1, <1>2, <1>3, <1>4, <1>6, <1>7, LikesFrame DEF OthersSame, OthersWrote

LEMMA WriteLikes ==
    ASSUME IInv, LikesInv, ~Overlap, NEW d \in Documents, Write(d)
    PROVE  LikesInv'
<1>1. TypeOK /\ \A o \in Requests : Same(o)
  BY WriteView DEF IInv
<1>2. likes' = likes /\ likesCount' = likesCount /\ wrote' = wrote
  BY DEF Write, documents, counters
<1> QED BY <1>1, <1>2, NamesAssumption, LikesFrame

\* The commit of a like: the counter and the document change together.
LEMMA LikeCounts ==
    ASSUME IInv, LikesInv, ~Overlap, NEW r \in Requests, Commit(r), CommitLike(r)
    PROVE  LET d == handler[r].target
               u == handler[r].user
               n == IF Unlikes(r) THEN -1 ELSE 1
               one == IF Unlikes(r) THEN handler[r].found
                      ELSE [id |-> r, owner |-> u, entityId |-> d]
           IN /\ d \in Documents /\ u \in Users /\ handler[r].done = 2
              /\ Mine(r) = IF Unlikes(r) THEN {handler[r].found} ELSE {}
              /\ d \in Written(r)
              /\ one.owner = u /\ EntityType(one.entityId) = EntityType(d)
              /\ Unlikes(r) <=> one \in likes
              /\ likes' = IF Unlikes(r) THEN likes \ {one} ELSE likes \cup {one}
              /\ likesCount \in [Documents -> Int] /\ likesCount' \in [Documents -> Int]
              /\ \A x \in Documents :
                    likesCount'[x] = IF x = d THEN likesCount[x] + n ELSE likesCount[x]
<1> USE NamesAssumption
<1> DEFINE d == handler[r].target
           u == handler[r].user
           n == IF Unlikes(r) THEN -1 ELSE 1
           one == IF Unlikes(r) THEN handler[r].found
                  ELSE [id |-> r, owner |-> u, entityId |-> d]
           ty == EntityType(d)
<1>1. TypeOK /\ HandlerOK(r) /\ LikeOK(r) /\ ExclusiveInv /\ handler[r] \in Handlers
  BY DEF IInv, ProgressInv, HandlerInv, LikesInv, TypeOK
<1>2. /\ OthersSame(r) /\ Left(r) /\ handler[r].pc = "run" /\ OthersWrote(r)
      /\ handler[r].kind = "like" /\ Liking(r)
  BY CommitView DEF CommitLike, Liking, InProgress
<1>3. d \in Documents /\ u \in Users
  BY <1>1, <1>2 DEF HandlerOK, InProgress, Documents
<1>4. handler[r].done = 2
  <2>1. \/ Plan(r) = <<d, handler[r].found.id>>
        \/ Plan(r) = <<r, d>>
    BY <1>2, PlanOf
  <2>2. handler[r].done = Len(Plan(r))
    BY DEF Commit
  <2> QED BY <2>1, <2>2
<1>5. /\ Mine(r) = IF Unlikes(r) THEN {handler[r].found} ELSE {}
      /\ d \in Written(r) /\ wrote[r][d] = Incremented(r, d)
  BY <1>1, <1>2, <1>4 DEF LikeOK
<1>6. one.owner = u /\ EntityType(one.entityId) = ty /\ (Unlikes(r) <=> one \in likes)
  <2>1. CASE Unlikes(r)
    BY <1>5, <2>1 DEF Mine
  <2>2. CASE ~Unlikes(r)
    BY <1>5, <2>2 DEF Mine
  <2> QED BY <2>1, <2>2
<1>7. likes' = IF Unlikes(r) THEN likes \ {one} ELSE likes \cup {one}
  BY DEF CommitLike
<1>8. /\ likesCount \in [Documents -> Int] /\ likesCount' \in [Documents -> Int] /\ n \in Int
      /\ \A x \in Documents : likesCount'[x] = IF x = d THEN likesCount[x] + n ELSE likesCount[x]
  <2>1. likesCount \in [Documents -> Int] /\ n \in Int
    BY <1>1 DEF TypeOK
  <2>2. likesCount' = Staged(r, likesCount, {d})
    BY DEF CommitLike
  <2>3. \A x \in Documents : likesCount'[x] = IF x = d THEN wrote[r][d] ELSE likesCount[x]
    BY <1>5, <2>1, <2>2 DEF Staged
  <2>4. wrote[r][d] = likesCount[d] + n
    BY <1>2, <1>5 DEF Incremented
  <2>5. likesCount' = [x \in Documents |-> likesCount'[x]]
    BY <2>1, <2>2 DEF Staged
  <2>6. \A x \in Documents : likesCount'[x] = IF x = d THEN likesCount[x] + n ELSE likesCount[x]
    BY <2>3, <2>4
  <2> HIDE DEF n
  <2>7. \A x \in Documents : likesCount'[x] \in Int
    BY <2>1, <2>6
  <2> QED BY <2>1, <2>5, <2>6, <2>7
<1> HIDE DEF one, n, ty
<1> QED BY <1>3, <1>4, <1>5, <1>6, <1>7, <1>8 DEF one, n, ty

LEMMA CommitLikes ==
    ASSUME IInv, LikesInv, ~Overlap, NEW r \in Requests, Commit(r), CommitLike(r)
    PROVE  LikesInv'
<1> USE NamesAssumption
<1> DEFINE d == handler[r].target
           u == handler[r].user
           n == IF Unlikes(r) THEN -1 ELSE 1
           one == IF Unlikes(r) THEN handler[r].found
                  ELSE [id |-> r, owner |-> u, entityId |-> d]
           ty == EntityType(d)
<1>1. TypeOK /\ HandlerOK(r) /\ LikeOK(r) /\ ExclusiveInv /\ handler[r] \in Handlers
  BY DEF IInv, ProgressInv, HandlerInv, LikesInv, TypeOK
<1>2. /\ OthersSame(r) /\ Left(r) /\ handler[r].pc = "run" /\ OthersWrote(r)
      /\ handler[r].kind = "like" /\ Liking(r)
  BY CommitView DEF CommitLike, Liking, InProgress
<1>3. /\ d \in Documents /\ d \in Written(r) /\ n \in Int
      /\ Mine(r) = IF Unlikes(r) THEN {handler[r].found} ELSE {}
      /\ one.owner = u /\ EntityType(one.entityId) = ty /\ (Unlikes(r) <=> one \in likes)
      /\ likes' = IF Unlikes(r) THEN likes \ {one} ELSE likes \cup {one}
      /\ likesCount \in [Documents -> Int]
      /\ \A x \in Documents : likesCount'[x] = IF x = d THEN likesCount[x] + n ELSE likesCount[x]
  BY LikeCounts
<1> HIDE DEF one, n, d, ty, u
<1>9. IsFiniteSet(likes)'
  BY <1>3, FS_AddElement, FS_RemoveElement DEF LikesInv
<1>10. OneLike'
  <2> SUFFICES ASSUME NEW k \in likes', NEW l \in likes', k.owner = l.owner,
                      EntityType(k.entityId) = EntityType(l.entityId)
               PROVE  k = l
    BY DEF OneLike
  <2>1. ASSUME NEW m \in likes, m.owner = u, EntityType(m.entityId) = ty, ~Unlikes(r)
        PROVE  FALSE
    BY <1>3, <2>1 DEF Mine, u, ty, d
  <2> QED BY <1>3, <2>1 DEF LikesInv, OneLike
<1>11. Alone'
  <2>1. \A o \in Requests : Liking(o)' => o # r /\ Liking(o) /\ handler'[o].user = handler[o].user
    BY <1>2 DEF Left, Liking, InProgress, OthersSame, Same
  <2> QED BY <2>1 DEF LikesInv, Alone
<1>12. ASSUME NEW o \in Requests PROVE LikeOK(o)'
  <2>1. CASE o = r \/ ~Liking(o)
    <3>1. ~Liking(o)'
      BY <1>2, <2>1 DEF Left, Liking, InProgress, OthersSame, Same
    <3> QED BY <3>1 DEF LikeOK
  <2>2. CASE o # r /\ Liking(o)
    <3>1. handler[o].user # u
      BY <1>2, <2>2 DEF LikesInv, Alone, u
    <3>2. \A l : l.owner = handler[o].user => (l \in likes' <=> l \in likes)
      BY <1>3, <3>1
    <3>3. \A x \in Written(o) : likesCount'[x] = likesCount[x]
      BY <1>1, <1>3, <2>2 DEF ExclusiveInv, TypeOK
    <3>4. Same(o) /\ wrote'[o] = wrote[o] /\ LikeOK(o)
      BY <1>2, <2>2 DEF OthersSame, OthersWrote, LikesInv
    <3> QED BY <1>1, <3>2, <3>3, <3>4, LikeKeeps
  <2> QED BY <2>1, <2>2
<1>13. ASSUME NEW t \in Types PROVE AddUp(t)'
  <2> DEFINE E == Entities(t)
             C == LikesOf(t)
  <2>1. IsFiniteSet(E) /\ E \subseteq Documents /\ (d \in E <=> ty = t)
    BY <1>3, EntitiesOf DEF ty
  <2>2. Sum(likesCount, E) = Cardinality(C)
    BY DEF LikesInv, AddUp
  <2>3. IsFiniteSet(C) /\ Cardinality(C) \in Nat
    BY FS_Subset, FS_CardinalityType DEF LikesOf, LikesInv
  <2>4. C' = IF t # ty THEN C ELSE IF Unlikes(r) THEN C \ {one} ELSE C \cup {one}
    BY <1>3 DEF LikesOf
  <2>5. ty = t => (Unlikes(r) <=> one \in C)
    BY <1>3 DEF LikesOf
  <2>6. \A x \in E : likesCount[x] \in Int
    BY <1>3, <2>1
  <2> HIDE DEF E, C
  <2>7. CASE t # ty
    <3>1. \A x \in E : likesCount[x] = likesCount'[x]
      BY <1>3, <2>1, <2>7
    <3>2. Sum(likesCount', E) = Sum(likesCount, E)
      BY <2>1, <3>1, SumSame
    <3> QED BY <2>2, <2>4, <2>7, <3>2 DEF AddUp, E, C
  <2>8. CASE t = ty
    <3>1. /\ d \in E /\ likesCount'[d] = likesCount[d] + n
          /\ \A x \in E \ {d} : likesCount'[x] = likesCount[x]
      BY <1>3, <2>1, <2>8
    <3>2. Sum(likesCount', E) = Sum(likesCount, E) + n
      BY <1>3, <2>1, <2>6, <3>1, SumUpdate
    <3>3. Cardinality(C') = Cardinality(C) + n
      <4>1. CASE Unlikes(r)
        <5>1. Cardinality(C \ {one}) = Cardinality(C) - 1
          BY <2>3, <2>5, <2>8, <4>1, FS_RemoveElement
        <5> QED BY <2>3, <2>4, <2>8, <4>1, <5>1 DEF n
      <4>2. CASE ~Unlikes(r)
        <5>1. Cardinality(C \cup {one}) = Cardinality(C) + 1
          BY <2>3, <2>5, <2>8, <4>2, FS_AddElement
        <5> QED BY <2>3, <2>4, <2>8, <4>2, <5>1 DEF n
      <4> QED BY <4>1, <4>2
    <3> QED BY <2>2, <3>2, <3>3 DEF AddUp, E, C
  <2> QED BY <2>7, <2>8
<1> QED BY <1>9, <1>10, <1>11, <1>12, <1>13 DEF LikesInv

LEMMA NextLikes == IInv /\ LikesInv /\ [Next]_vars => LikesInv'
<1> SUFFICES ASSUME IInv, LikesInv, [Next]_vars, ~Overlap PROVE LikesInv'
  BY DEF LikesInv
<1>1. ASSUME NEW r \in Requests, AskLike(r) \/ AskComment(r) \/ AskReply(r) \/ FindLike(r)
      PROVE  LikesInv'
  BY <1>1, AskLikes
<1>2. ASSUME NEW r \in Requests, StatementFails(r) \/ Lose(r) \/ Reap(r)
      PROVE  LikesInv'
  BY <1>2, LeaveLikes
<1>3. ASSUME NEW r \in Requests, Statement(r)
      PROVE  LikesInv'
  BY <1>3, StatementLikes
<1>4. ASSUME NEW r \in Requests, Commit(r)
      PROVE  LikesInv'
  <2>1. CommitLike(r) \/ CommitComment(r)
    BY <1>4 DEF Commit
  <2> QED BY <1>4, <2>1, CommitLikes, LeaveLikes
<1>5. ASSUME NEW d \in Documents, Write(d)
      PROVE  LikesInv'
  BY <1>5, WriteLikes
<1>6. CASE UNCHANGED vars
  <2>1. /\ handler' = handler /\ wrote' = wrote /\ likes' = likes /\ likesCount' = likesCount
    BY <1>6 DEF vars, documents, counters
  <2>2. TypeOK /\ \A o \in Requests : Same(o)
    BY <2>1 DEF Same, IInv
  <2> QED BY <2>1, <2>2, NamesAssumption, LikesFrame
<1>7. CASE \/ \E c \in Requests : Activate(c) \/ DeleteComment(c)
           \/ \E a \in Articles : DeleteArticle(a)
           \/ \E d \in Documents : Patch(d)
  <2>1. \E d \in Documents : Write(d)
    BY <1>7 DEF Activate, DeleteComment, DeleteArticle, Patch, Documents
  <2> QED BY <1>5, <2>1
<1> QED BY <1>1, <1>2, <1>3, <1>4, <1>6, <1>7 DEF Next

----------------------------------------------------------------------------
(* Ancestors.                                                               *)

\* The path of a comment names its ancestors, each with the path that leads to it.
Ancestors(c) ==
    \A i \in 1..Len(comments[c].path) :
        LET up == comments[c].path[i] IN
        /\ up \in Requests /\ Exists(up)
        /\ comments[up].path = SubSeq(comments[c].path, 1, i)
        /\ comments[up].entityId = comments[c].entityId
        /\ comments[up].rootId = comments[c].rootId
Ancestry ==
    \A c \in Requests : Exists(c) =>
        /\ Ancestors(c)
        /\ \A i, j \in 1..Len(comments[c].path) :
              comments[c].path[i] = comments[c].path[j] => i = j

\* Of some comments one is not deeper than any other.
LEMMA Shallowest ==
    ASSUME NEW B, B # {}, \A b \in B : comments[b].depth \in Nat
    PROVE  \E c \in B : \A b \in B : comments[c].depth <= comments[b].depth
<1> DEFINE T == {comments[b].depth : b \in B}
<1>1. T \subseteq Nat /\ T # {}
  OBVIOUS
<1> HIDE DEF T
<1>2. PICK n \in T : \A m \in T : <<m, n>> \notin OpToRel(<, Nat)
  BY <1>1, NatLessThanWellFounded, WFMin
<1>3. \A m \in T : ~(m < n)
  BY <1>1, <1>2 DEF OpToRel
<1>4. PICK c \in B : comments[c].depth = n
  BY DEF T
<1>5. ASSUME NEW b \in B PROVE comments[c].depth <= comments[b].depth
  <2>1. comments[b].depth \in T
    BY DEF T
  <2> QED BY <1>1, <1>3, <1>4, <2>1
<1> QED BY <1>5

\* A comment on the article is its own and only ancestor; a reply has those of its
\* parent and itself.
LEMMA AncestorsOf ==
    ASSUME TypeOK, ThreadsWellFormed, NEW c \in Requests, Exists(c),
           comments[c].parentId # Nobody => Ancestors(comments[c].parentId)
    PROVE  Ancestors(c)
<1> DEFINE doc == comments[c]
           path == doc.path
           n == doc.depth
<1>1. doc \in Comments /\ path \in Seq(Requests) /\ n \in Nat
      /\ Len(path) = n + 1 /\ path[n + 1] = c /\ doc.rootId = path[1]
  <2>1. doc \in Comments
    BY DEF TypeOK, Exists
  <2> QED BY <2>1, PathType, DepthAssumption DEF ThreadsWellFormed, Comments
<1>2. SubSeq(path, 1, Len(path)) = path
  <2> HIDE DEF path
  <2> QED BY <1>1
<1>3. CASE doc.parentId = Nobody
  <2>1. n = 0
    BY <1>3 DEF ThreadsWellFormed
  <2> QED BY <1>1, <1>2, <2>1 DEF Ancestors
<1>4. CASE doc.parentId # Nobody
  <2> DEFINE p == doc.parentId
             up == comments[p]
  <2>1. p \in Requests /\ Exists(p) /\ doc.entityId = up.entityId /\ path = Append(up.path, c)
    BY <1>1, <1>4 DEF ThreadsWellFormed, Comments
  <2>2. up.path \in Seq(Requests) /\ Len(up.path) \in Nat /\ Len(up.path) >= 1
        /\ up.rootId = up.path[1] /\ Ancestors(p)
    <3>1. up \in Comments
      BY <2>1 DEF TypeOK, Exists
    <3> QED BY <1>4, <2>1, <3>1, PathType, DepthAssumption DEF ThreadsWellFormed, Comments
  <2> DEFINE above == up.path
  <2>3. path = Append(above, c) /\ above \in Seq(Requests) /\ Len(above) \in Nat
        /\ Len(path) = Len(above) + 1 /\ Len(above) >= 1
    BY <2>1, <2>2
  <2> HIDE DEF path, above
  <2>4. /\ path[1] = above[1]
        /\ \A i \in 1..Len(above) : path[i] = above[i] /\ SubSeq(path, 1, i) = SubSeq(above, 1, i)
    BY <2>3
  <2>5. doc.rootId = up.rootId
    BY <1>1, <2>2, <2>4 DEF above
  <2>6. \A i \in 1..Len(above) :
           /\ above[i] \in Requests /\ Exists(above[i])
           /\ comments[above[i]].path = SubSeq(above, 1, i)
           /\ comments[above[i]].entityId = up.entityId
           /\ comments[above[i]].rootId = up.rootId
    BY <2>2 DEF Ancestors, above
  <2> HIDE DEF doc, up, p
  <2> SUFFICES ASSUME NEW i \in 1..Len(path)
               PROVE  /\ path[i] \in Requests /\ Exists(path[i])
                      /\ comments[path[i]].path = SubSeq(path, 1, i)
                      /\ comments[path[i]].entityId = doc.entityId
                      /\ comments[path[i]].rootId = doc.rootId
    BY DEF Ancestors, path, doc
  <2>7. CASE i \in 1..Len(above)
    BY <2>1, <2>4, <2>5, <2>6, <2>7
  <2>8. CASE i = Len(path)
    BY <1>1, <1>2, <2>8 DEF path, doc
  <2> QED BY <2>3, <2>7, <2>8
<1> QED BY <1>3, <1>4

LEMMA ThreadsHaveAncestry == TypeOK /\ ThreadsWellFormed => Ancestry
<1> SUFFICES ASSUME TypeOK, ThreadsWellFormed PROVE Ancestry
  OBVIOUS
<1> DEFINE B == {c \in Requests : Exists(c) /\ ~Ancestors(c)}
<1>1. ASSUME NEW c \in Requests, Exists(c)
      PROVE  /\ comments[c].depth \in Nat /\ comments[c].path \in Seq(Requests)
             /\ Len(comments[c].path) = comments[c].depth + 1
  <2>1. comments[c] \in Comments
    BY <1>1 DEF TypeOK, Exists
  <2> QED BY <1>1, <2>1, PathType, DepthAssumption DEF Comments, ThreadsWellFormed
<1>2. B = {}
  <2> SUFFICES ASSUME B # {} PROVE FALSE
    OBVIOUS
  <2>1. PICK c \in B : \A b \in B : comments[c].depth <= comments[b].depth
    BY <1>1, Shallowest
  <2> DEFINE p == comments[c].parentId
  <2>2. ASSUME p # Nobody PROVE Ancestors(p)
    <3>1. Exists(p) /\ p \in Requests /\ comments[c].path = Append(comments[p].path, c)
      <4>1. comments[c] \in Comments
        BY <2>1 DEF TypeOK, Exists
      <4> QED BY <2>1, <2>2, <4>1 DEF ThreadsWellFormed, Comments
    <3>2. comments[c].depth = comments[p].depth + 1
      <4>1. comments[p].path \in Seq(Requests)
        BY <1>1, <3>1
      <4>2. Len(comments[c].path) = Len(comments[p].path) + 1
        BY <3>1, <4>1
      <4>3. /\ Len(comments[c].path) = comments[c].depth + 1 /\ comments[c].depth \in Nat
            /\ Len(comments[p].path) = comments[p].depth + 1 /\ comments[p].depth \in Nat
        BY <1>1, <3>1
      <4> HIDE DEF p
      <4> QED BY <4>2, <4>3
    <3>3. ~(comments[c].depth <= comments[p].depth)
      BY <1>1, <3>1, <3>2
    <3> QED BY <2>1, <3>1, <3>3
  <2> QED BY <2>1, <2>2, AncestorsOf
<1>3. ASSUME NEW c \in Requests, Exists(c),
             NEW i \in 1..Len(comments[c].path), NEW j \in 1..Len(comments[c].path),
             comments[c].path[i] = comments[c].path[j]
      PROVE  i = j
  <2> DEFINE path == comments[c].path
  <2>1. path \in Seq(Requests) /\ SubSeq(path, 1, i) = SubSeq(path, 1, j)
    BY <1>1, <1>2, <1>3 DEF Ancestors
  <2> HIDE DEF path
  <2>2. Len(SubSeq(path, 1, i)) = i /\ Len(SubSeq(path, 1, j)) = j
    <3>1. i \in 1..Len(path) /\ j \in 1..Len(path)
      BY DEF path
    <3> QED BY <2>1, <3>1
  <2> QED BY <2>1, <2>2
<1> QED BY <1>2, <1>3 DEF Ancestry

----------------------------------------------------------------------------
(* Engagement implements Discussion.                                        *)

DiscussionVars ==
    <<Promise!thread, Promise!favour, notified, Promise!moderation>>

LEMMA PostsAre ==
    /\ DOMAIN Posts = {x \in Requests : Exists(x)}
    /\ \A c \in DOMAIN Posts :
          Posts[c] = [article |-> comments[c].entityId, path |-> comments[c].path]
BY DEF Posts

LEMMA PostsStay == comments' = comments => Posts' = Posts
BY DEF Posts, Exists

\* A step that commits nothing and is no write outside of a transaction.
LEMMA RestRefines ==
    ASSUME UNCHANGED <<documents, moderation>>,
           notified' = notified \/ \E r \in Requests : notified' = notified \cup {r}
    PROVE  [Promise!Next]_DiscussionVars
<1>1. /\ UNCHANGED <<Promise!thread, Promise!favour, Promise!moderation>>
  BY PostsStay DEF documents, counters, moderation, Promise!thread, Promise!favour,
                   Promise!moderation
<1>2. ASSUME NEW r \in Requests, notified' = notified \cup {r} PROVE Promise!Next
  <2>1. Promise!Announce(r)
    BY <1>1, <1>2 DEF Promise!Announce
  <2> QED BY <2>1 DEF Promise!Next
<1> QED BY <1>1, <1>2 DEF DiscussionVars

LEMMA CommentRefines ==
    ASSUME IInv, NEW r \in Requests, Commit(r), CommitComment(r)
    PROVE  Promise!Next
<1> USE NamesAssumption
<1> DEFINE d == handler[r].target
           new == NewComment(r)
           top == Thread(r)
<1>1. /\ TypeOK /\ ThreadsWellFormed /\ HandlerOK(r) /\ handler[r].kind = "comment"
      /\ handler[r].pc = "run" /\ UNCHANGED <<moderation, notified>>
      /\ likes' = likes /\ likesCount' = likesCount /\ ~Exists(r)
  BY CommitView DEF IInv, ProgressInv, HandlerInv, CommitComment
<1>2. /\ new # NoComment /\ new.entityId = top /\ top \in Articles
      /\ Len(new.path) = new.depth + 1 /\ new.path[new.depth + 1] = r
      /\ d \notin Articles => /\ d \in Requests /\ Exists(d)
                              /\ new.path = Append(comments[d].path, r)
  BY <1>1, NewCommentIs, CommentWrote
<1>3. /\ comments[r] = NoComment /\ comments'[r] = new
      /\ \A c \in Requests : c # r => comments'[c] = comments[c]
      /\ commentsCount' \in [Articles -> Nat] /\ repliesCount' \in [Requests -> Nat]
      /\ \A a \in Articles :
            commentsCount'[a] = IF a = top THEN commentsCount[a] + 1 ELSE commentsCount[a]
      /\ \A p \in Requests : repliesCount'[p] =
            IF p = d /\ p # r THEN repliesCount[p] + 1 ELSE repliesCount[p]
  BY CommentCounts
<1>4. commentsCount \in [Articles -> Nat] /\ repliesCount \in [Requests -> Nat]
  BY <1>1 DEF TypeOK
<1>5. d \in Articles => new.path = <<r>> /\ top = d
  BY DEF NewComment, Thread
<1>6. d \notin Articles => comments[d].depth + 1 <= MaxDepth /\ top = comments[d].entityId
  BY <1>1, <1>2 DEF HandlerOK, InProgress, Thread
<1> HIDE DEF d, new, top
<1>7. commentsCount' = [commentsCount EXCEPT ![top] = @ + 1]
  BY <1>2, <1>3, <1>4
<1>8. Posts' = [x \in DOMAIN Posts \cup {r} |->
                   IF x = r THEN [article |-> top, path |-> new.path] ELSE Posts[x]]
  <2>1. \A c \in Requests : Exists(c)' <=> Exists(c) \/ c = r
    BY <1>2, <1>3 DEF Exists
  <2>2. Posts' = [c \in {x \in Requests : Exists(x)'} |->
                     [article |-> comments'[c].entityId, path |-> comments'[c].path]]
    BY DEF Posts
  <2>3. {x \in Requests : Exists(x)'} = DOMAIN Posts \cup {r}
    BY <2>1, PostsAre
  <2>4. \A c \in DOMAIN Posts \cup {r} :
           [article |-> comments'[c].entityId, path |-> comments'[c].path] =
              IF c = r THEN [article |-> top, path |-> new.path] ELSE Posts[c]
    BY <1>1, <1>2, <1>3, PostsAre
  <2> QED BY <2>2, <2>3, <2>4
<1>9. ASSUME NEW a, a = top, NEW path, path = new.path PROVE Promise!Add(r, a, path)
  <2>1. r \notin DOMAIN Posts
    BY <1>1, PostsAre
  <2> QED BY <1>1, <1>7, <1>8, <1>9, <2>1
          DEF Promise!Add, Promise!favour, Promise!moderation, moderation
<1>10. CASE d \in Articles
  <2>1. repliesCount' = repliesCount
    <3>1. \A p \in Requests : p # d
      BY <1>10
    <3> QED BY <1>3, <1>4, <3>1
  <2>2. Promise!Post(r, d)
    BY <1>5, <1>9, <1>10, <2>1 DEF Promise!Post
  <2> QED BY <1>10, <2>2 DEF Promise!Next
<1>11. CASE d \notin Articles
  <2>1. d \in DOMAIN Posts /\ d # r /\ d \in Requests
        /\ Posts[d].article = comments[d].entityId /\ Posts[d].path = comments[d].path
    BY <1>1, <1>2, <1>11, PostsAre
  <2>2. Len(Posts[d].path) <= MaxDepth
    <3>1. Len(comments[d].path) = comments[d].depth + 1
      BY <1>1, <1>2, <1>11 DEF ThreadsWellFormed
    <3> QED BY <1>6, <1>11, <2>1, <3>1
  <2>3. repliesCount' = [repliesCount EXCEPT ![d] = @ + 1]
    BY <1>3, <1>4, <2>1
  <2>4. Promise!Add(r, Posts[d].article, Append(Posts[d].path, r))
    BY <1>2, <1>6, <1>9, <1>11, <2>1
  <2>5. Promise!Reply(r, d)
    BY <2>1, <2>2, <2>3, <2>4 DEF Promise!Reply
  <2> QED BY <2>1, <2>5 DEF Promise!Next
<1> QED BY <1>10, <1>11

LEMMA LikeRefines ==
    ASSUME IInv, LikesInv, NEW r \in Requests, Commit(r), CommitLike(r)
    PROVE  Promise!Next
<1> USE NamesAssumption
<1> DEFINE d == handler[r].target
           u == handler[r].user
           n == IF Unlikes(r) THEN -1 ELSE 1
           one == IF Unlikes(r) THEN handler[r].found
                  ELSE [id |-> r, owner |-> u, entityId |-> d]
<1>1. /\ TypeOK /\ HandlerOK(r) /\ EmittedOK(r) /\ handler[r].kind = "like"
      /\ handler[r].pc = "run" /\ UNCHANGED <<moderation, notified>>
      /\ comments' = comments /\ commentsCount' = commentsCount /\ repliesCount' = repliesCount
  BY CommitView DEF IInv, ProgressInv, HandlerInv, CommitLike
<1>2. UNCHANGED <<Promise!thread, notified, Promise!moderation>>
  BY <1>1, PostsStay DEF Promise!thread, Promise!moderation, moderation
<1>3. CASE Overlap
  BY <1>2, <1>3 DEF Promise!Overlapping, Promise!Next
<1>4. CASE ~Overlap
  <2>1. /\ d \in Documents /\ u \in Users /\ handler[r].done = 2
        /\ Mine(r) = IF Unlikes(r) THEN {handler[r].found} ELSE {}
        /\ one.owner = u /\ EntityType(one.entityId) = EntityType(d)
        /\ Unlikes(r) <=> one \in likes
        /\ likes' = IF Unlikes(r) THEN likes \ {one} ELSE likes \cup {one}
        /\ likesCount \in [Documents -> Int] /\ likesCount' \in [Documents -> Int]
        /\ \A x \in Documents : likesCount'[x] = IF x = d THEN likesCount[x] + n ELSE likesCount[x]
    BY <1>4, LikeCounts
  <2>2. d \in Promise!Likable /\ \A x : Promise!Kind(x) = EntityType(x)
    BY <1>1, <2>1, PostsAre
       DEF HandlerOK, InProgress, Promise!Likable, Promise!Kind, EntityType
  <2>3. CASE Unlikes(r)
    <3>1. likesCount' = [likesCount EXCEPT ![d] = @ - 1]
      <4>1. \A x \in Documents : likesCount'[x] = IF x = d THEN likesCount[x] - 1 ELSE likesCount[x]
        BY <2>1, <2>3
      <4> HIDE DEF d
      <4> QED BY <2>1, <4>1
    <3>2. one \in likes /\ likes' = likes \ {one}
      BY <2>1, <2>3
    <3> HIDE DEF one, d
    <3>3. Promise!TakeBack(one, d)
      BY <1>2, <2>1, <2>2, <3>1, <3>2 DEF Promise!TakeBack
    <3> QED BY <2>2, <3>2, <3>3 DEF Promise!Next
  <2>4. CASE ~Unlikes(r)
    <3>1. likesCount' = [likesCount EXCEPT ![d] = @ + 1]
      <4>1. \A x \in Documents : likesCount'[x] = IF x = d THEN likesCount[x] + 1 ELSE likesCount[x]
        BY <2>1, <2>4
      <4> HIDE DEF d
      <4> QED BY <2>1, <4>1
    <3>2. likes' = likes \cup {[id |-> r, owner |-> u, entityId |-> d]}
      BY <2>1, <2>4
    <3>3. \A l \in likes : l.owner = u => EntityType(l.entityId) # EntityType(d)
      BY <2>1, <2>4 DEF Mine
    <3>4. EntityType(d) = "Comment" => r \in notified
      BY <1>1, <2>1, <2>4 DEF EntityType, EmittedOK, Documents
    <3> HIDE DEF d, u
    <3>5. Promise!Like(r, u, d)
      BY <1>2, <2>2, <3>1, <3>2, <3>3, <3>4 DEF Promise!Like
    <3> QED BY <2>1, <2>2, <3>5 DEF Promise!Next
  <2> QED BY <2>3, <2>4
<1> QED BY <1>3, <1>4, OverlapAssumption

LEMMA StepRefines == IInv /\ LikesInv /\ [Next]_vars => [Promise!Next]_DiscussionVars
<1> SUFFICES ASSUME IInv, LikesInv, [Next]_vars PROVE [Promise!Next]_DiscussionVars
  OBVIOUS
<1>1. ASSUME NEW r \in Requests,
             \/ AskLike(r) \/ AskComment(r) \/ AskReply(r) \/ FindLike(r)
             \/ StatementFails(r) \/ Lose(r) \/ Reap(r)
      PROVE  UNCHANGED <<documents, moderation, notified>>
  BY <1>1 DEF AskLike, AskComment, AskReply, Arrive, FindLike, StatementFails, Lose, Reap
<1>2. ASSUME NEW r \in Requests, Statement(r)
      PROVE  /\ UNCHANGED <<documents, moderation>>
             /\ notified' = notified \/ notified' = notified \cup {r}
  BY <1>2 DEF Statement
<1>3. ASSUME NEW r \in Requests, Commit(r) PROVE Promise!Next
  BY <1>3, CommentRefines, LikeRefines DEF Commit
<1>4. ASSUME NEW d, Write(d)
      PROVE  UNCHANGED <<Promise!thread, Promise!favour, notified>>
  BY <1>4, PostsStay DEF Write, documents, counters, Promise!thread, Promise!favour
<1>5. ASSUME NEW c \in Requests, Activate(c) \/ DeleteComment(c) PROVE Promise!Next
  <2>1. Write(c) /\ withdrawn' = withdrawn /\ Exists(c)
    BY <1>5 DEF Activate, DeleteComment, Visible
  <2>2. status[c] # "deleted" /\ c \in DOMAIN Posts
        /\ status' = [status EXCEPT ![c] = IF @ = "pending" THEN "active" ELSE "deleted"]
    BY <1>5, <2>1, PostsAre DEF Activate, DeleteComment, Visible
  <2>3. Promise!Moderate(c)
    BY <1>4, <2>1, <2>2 DEF Promise!Moderate
  <2> QED BY <2>3 DEF Promise!Next
<1>6. ASSUME NEW a \in Articles, DeleteArticle(a) PROVE Promise!Next
  <2>1. Promise!Withdraw(a)
    BY <1>4, <1>6 DEF DeleteArticle, Promise!Withdraw
  <2> QED BY <2>1 DEF Promise!Next
<1>7. ASSUME NEW d \in Documents, Patch(d) PROVE UNCHANGED DiscussionVars
  BY <1>4, <1>7 DEF Patch, DiscussionVars, moderation, Promise!moderation
<1>8. CASE UNCHANGED vars
  BY <1>8, RestRefines DEF vars
<1> QED BY <1>1, <1>2, <1>3, <1>5, <1>6, <1>7, <1>8, RestRefines DEF Next

LEMMA InitRefines == Init => Promise!Init
<1> SUFFICES ASSUME Init PROVE Promise!Init
  OBVIOUS
<1>1. \A c \in Requests : ~Exists(c)
  BY DEF Init, Exists
<1>2. Posts = <<>>
  BY <1>1 DEF Posts
<1> QED BY <1>2 DEF Init, Promise!Init, Documents

----------------------------------------------------------------------------
\* The documents, counters and handlers keep their types; a reply is never
\* deeper than MaxDepth.
THEOREM TypeCorrect == Spec => []TypeOK
<1>1. IInv => TypeOK
  BY DEF IInv
<1> QED BY <1>1, Invariance, PTL

\* However many requests run, conflict, die or are reaped, the number of comments
\* of an article and of replies to a comment is what the documents say.
THEOREM CountersExactThm == Spec => []CountersExact
<1>1. IInv => CountersExact
  BY DEF IInv
<1> QED BY <1>1, Invariance, PTL

\* Whatever is committed by transactions that overlap, the comments of an article
\* form trees: parents exist, and root, depth and path agree with them.
THEOREM ThreadsWellFormedThm == Spec => []ThreadsWellFormed
<1>1. IInv => ThreadsWellFormed
  BY DEF IInv
<1> QED BY <1>1, Invariance, PTL

\* Every comment on the way from a comment to its article exists, on the same
\* article and with the same root, and no comment is its own ancestor: what the
\* paths say is a forest, although each reply knew no more than its parent.
THEOREM AncestryThm == Spec => []Ancestry
<1>1. IInv => Ancestry
  BY ThreadsHaveAncestry DEF IInv
<1> QED BY <1>1, Invariance, PTL

\* No like of a comment is committed before its event is emitted.
THEOREM LikesAnnouncedThm == Spec => []LikesAnnounced
<1>1. IInv => LikesAnnounced
  BY DEF IInv
<1> QED BY <1>1, Invariance, PTL

\* If the likes of a user do not overlap, the counters of all articles add up to
\* the likes of articles, those of comments to the likes of comments, and no user
\* likes a thing twice: whatever conflicts, dies or is reaped.
THEOREM LikesAddUpThm == Spec => []LikesAddUp
BY InitInv, NextInv, InitLikes, NextLikes, AddUpIs, PTL DEF Spec

\* Likes and comments are atomic: handlers with their statements, conflicts, lost
\* processes and staged counters implement comments, replies and likes that are
\* made and counted in one step each, and never change afterwards.
THEOREM RefinementThm == Spec => Refinement
BY InitInv, NextInv, InitLikes, NextLikes, InitRefines, StepRefines, PTL
   DEF Spec, Refinement, Promise!Spec, DiscussionVars
=============================================================================
