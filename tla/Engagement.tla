---------------------------- MODULE Engagement ----------------------------
(***************************************************************************)
(* Likes and comments: LikeService and CommentService, which keep counters *)
(* on articles and comments beside the like and comment documents, in      *)
(* MongoDB transactions that several requests run at once.                 *)
(*                                                                         *)
(* A like or comment document is named by the request that creates it.     *)
(* With snapshot isolation a statement fails when another open transaction *)
(* has written its document, or when one committed a write of it since the *)
(* snapshot, which the first statement takes.  Nothing catches the error,  *)
(* and MongoDB aborts the transaction.                                     *)
(***************************************************************************)
EXTENDS Integers, Sequences, FiniteSets, FiniteSetsExt

CONSTANTS
    Requests,  \* requests, and the documents they create
    Users,
    Articles,
    Nobody,    \* no document
    MaxDepth,  \* MAXIMUM_COMMENTS_DEPTH
    Overlap    \* a user may have two likes in progress

ASSUME DepthAssumption == MaxDepth \in Nat
ASSUME FiniteAssumption == IsFiniteSet(Requests) /\ IsFiniteSet(Articles)
ASSUME OverlapAssumption == Overlap \in BOOLEAN
ASSUME NamesAssumption ==
    Requests \cap Articles = {} /\ Nobody \notin Requests \cup Articles

VARIABLES
    handler,        \* handler[r]: what request r asks and how far it got
    wrote,          \* wrote[r]: the documents its open transaction has written,
                    \* each with the counter it stages
    likes,          \* committed like documents
    comments,       \* comments[c]: the committed comment document c
    status,         \* status[c]: pending, active, or deleted (deletedAt is set)
    withdrawn,      \* articles deleted
    likesCount,     \* of articles and comments
    repliesCount,   \* of comments
    commentsCount,  \* of articles
    notified        \* requests that emitted COMMENT_LIKED

counters == <<likesCount, repliesCount, commentsCount>>
documents == <<likes, comments, counters>>
moderation == <<status, withdrawn>>
vars == <<handler, wrote, documents, moderation, notified>>

Documents == Articles \cup Requests

Likes == [id : Requests, owner : Users, entityId : Documents]
ASSUME NobodyAssumption == Nobody \notin Likes
EntityType(d) == IF d \in Articles THEN "Article" ELSE "Comment"

Paths == UNION {[1..n -> Requests] : n \in 1..(MaxDepth + 1)}
Comments == [entityId : Articles, parentId : Requests \cup {Nobody}, rootId : Requests,
             depth : 0..MaxDepth, path : Paths]
NoComment == [entityId |-> Nobody]
Exists(c) == comments[c] # NoComment
Visible == {c \in Requests : Exists(c) /\ status[c] = "active"}

\* done: statements executed; stale: documents that others have committed since
\* the snapshot.
Handlers ==
    [pc : {"idle", "find", "run", "over", "lost"}, kind : {"none", "like", "comment"},
     user : Users \cup {Nobody}, target : Documents \cup {Nobody},
     found : Likes \cup {Nobody}, done : 0..3, stale : SUBSET Documents]
At(p) == [pc |-> p, kind |-> "none", user |-> Nobody, target |-> Nobody,
          found |-> Nobody, done |-> 0, stale |-> {}]

InProgress(r) == handler[r].pc \in {"find", "run"}
Unlikes(r) == handler[r].found # Nobody
Written(r) == DOMAIN wrote[r]

TypeOK ==
    /\ handler \in [Requests -> Handlers]
    /\ wrote = [r \in Requests |-> wrote[r]]
    /\ \A r \in Requests : Written(r) \subseteq Documents /\ wrote[r] \in [Written(r) -> Int]
    /\ likes \subseteq Likes
    /\ comments \in [Requests -> Comments \cup {NoComment}]
    /\ status \in [Requests -> {"pending", "active", "deleted"}]
    /\ withdrawn \subseteq Articles
    /\ likesCount \in [Documents -> Int]
    /\ repliesCount \in [Requests -> Nat]
    /\ commentsCount \in [Articles -> Nat]
    /\ notified \subseteq Requests

Init ==
    /\ handler = [r \in Requests |-> At("idle")]
    /\ wrote = [r \in Requests |-> <<>>]
    /\ likes = {}
    /\ comments = [c \in Requests |-> NoComment]
    /\ status = [c \in Requests |-> "pending"]
    /\ withdrawn = {}
    /\ likesCount = [d \in Documents |-> 0]
    /\ repliesCount = [c \in Requests |-> 0]
    /\ commentsCount = [a \in Articles |-> 0]
    /\ notified = {}

----------------------------------------------------------------------------
(* A request arrives and its pipe resolves the target: articleByIdPipe and  *)
(* commentByIdPipe refuse what is deleted, unpublished or not ACTIVE.       *)

Published == Articles \ withdrawn

Arrive(r, p, k, u, d) ==
    /\ handler[r].pc = "idle"
    /\ handler' = [handler EXCEPT ![r] = [At(p) EXCEPT !.kind = k, !.user = u, !.target = d]]
    /\ UNCHANGED <<wrote, documents, moderation, notified>>

\* Without Overlap a user's client waits for the answer of a like.
MayLike(u) ==
    Overlap \/ ~\E o \in Requests : InProgress(o) /\ handler[o].user = u

AskLike(r) ==
    \E u \in Users, d \in Published \cup Visible :
        MayLike(u) /\ Arrive(r, "find", "like", u, d)

AskComment(r) == \E a \in Published : Arrive(r, "run", "comment", Nobody, a)

\* Mutant of AskReply: the limit is one off.
AskReplyTooDeep(r) ==
    \E c \in Visible :
        \/ comments[c].depth <= MaxDepth /\ Arrive(r, "run", "comment", Nobody, c)
        \/ comments[c].depth > MaxDepth /\ Arrive(r, "over", "none", Nobody, Nobody)

\* createReplyComment: beyond the limit, 'maximum depth exceeded!'.
AskReply(r) ==
    \E c \in Visible :
        \/ comments[c].depth + 1 <= MaxDepth /\ Arrive(r, "run", "comment", Nobody, c)
        \/ comments[c].depth + 1 > MaxDepth /\ Arrive(r, "over", "none", Nobody, Nobody)

\* findOne({owner, entityType}): any like of the user of this type of entity,
\* read before the transaction starts.
FindLike(r) ==
    LET mine == {l \in likes : /\ l.owner = handler[r].user
                               /\ EntityType(l.entityId) = EntityType(handler[r].target)}
    IN
    /\ handler[r].pc = "find"
    /\ \E l \in IF mine = {} THEN {Nobody} ELSE mine :
          handler' = [handler EXCEPT ![r].pc = "run", ![r].found = l]
    /\ UNCHANGED <<wrote, documents, moderation, notified>>

----------------------------------------------------------------------------
(* Transactions *)

\* r's transaction is over, committed or aborted.
Close(r) == wrote' = [wrote EXCEPT ![r] = <<>>]

\* The documents r's statements write, in order.
Plan(r) ==
    LET d == handler[r].target IN
    CASE Unlikes(r) -> <<d, handler[r].found.id>>
      [] handler[r].kind = "comment" /\ d \in Requests -> <<r, d, comments[d].entityId>>
      [] OTHER -> <<r, d>>

NextDoc(r) == Plan(r)[handler[r].done + 1]

\* Mutant of Conflict: open transactions do not exclude each other.
ConflictWithCommitted(r, d) == d \in handler[r].stale

Conflict(r, d) ==
    d \in handler[r].stale \/ \E o \in Requests \ {r} : d \in Written(o)

\* deleteOne of a like that was gone before the snapshot matches nothing.
Gone(r, d) == Unlikes(r) /\ handler[r].found.id = d /\ handler[r].found \notin likes

\* $inc: the counter of document d that r's statement stages.
Incremented(r, d) ==
    IF handler[r].kind = "like" THEN likesCount[d] + (IF Unlikes(r) THEN -1 ELSE 1)
    ELSE IF d \in Articles THEN commentsCount[d] + 1
    ELSE repliesCount[d] + 1

Executes(r) == handler[r].pc = "run" /\ handler[r].done < Len(Plan(r))

\* The statement that adds a like to a comment's counter is followed by the event.
Emits(r) ==
    handler[r].kind = "like" /\ ~Unlikes(r) /\ NextDoc(r) \in Requests \ {r}

Statement(r) ==
    /\ Executes(r)
    /\ ~Conflict(r, NextDoc(r))
    /\ handler' = [handler EXCEPT ![r].done = @ + 1]
    /\ LET touched == {d \in {NextDoc(r)} : ~Gone(r, d)} IN
       wrote' = [wrote EXCEPT ![r] = [d \in Written(r) \cup touched |->
                    IF d \in touched THEN Incremented(r, d) ELSE @[d]]]
    /\ notified' = IF Emits(r) THEN notified \cup {r} ELSE notified
    /\ UNCHANGED <<documents, moderation>>

StatementFails(r) ==
    /\ Executes(r)
    /\ Conflict(r, NextDoc(r))
    /\ handler' = [handler EXCEPT ![r] = At("over")]
    /\ Close(r)
    /\ UNCHANGED <<documents, moderation, notified>>

\* h once writes of the documents in s are visible: stale for the open snapshots.
Outdated(h, s) ==
    [o \in Requests |-> IF h[o].pc = "run" /\ h[o].done > 0
                          THEN [h[o] EXCEPT !.stale = @ \cup s] ELSE h[o]]

\* counter f with the values r has staged for its documents in D.
Staged(r, f, D) ==
    [d \in DOMAIN f |-> IF d \in D \cap Written(r) THEN wrote[r][d] ELSE f[d]]

\* Mutant of NewComment: the root of a reply is its parent.
NewCommentRootedAtParent(r) ==
    LET d == handler[r].target IN
    IF d \in Articles
      THEN [entityId |-> d, parentId |-> Nobody, rootId |-> r, depth |-> 0, path |-> <<r>>]
      ELSE [comments[d] EXCEPT !.parentId = d, !.rootId = d, !.depth = @ + 1,
                               !.path = Append(@, r)]

NewComment(r) ==
    LET d == handler[r].target IN
    IF d \in Articles
      THEN [entityId |-> d, parentId |-> Nobody, rootId |-> r, depth |-> 0, path |-> <<r>>]
      ELSE [comments[d] EXCEPT !.parentId = d, !.depth = @ + 1, !.path = Append(@, r)]

\* Mutant of CommitLike: taking a like back leaves its document.
CommitLikeKept(r) ==
    /\ handler[r].kind = "like"
    /\ likes' = IF Unlikes(r) THEN likes
                ELSE likes \cup {[id |-> r, owner |-> handler[r].user,
                                  entityId |-> handler[r].target]}
    /\ likesCount' = Staged(r, likesCount, {handler[r].target})
    /\ UNCHANGED <<comments, repliesCount, commentsCount>>

CommitLike(r) ==
    /\ handler[r].kind = "like"
    /\ likes' = IF Unlikes(r) THEN likes \ {handler[r].found}
                ELSE likes \cup {[id |-> r, owner |-> handler[r].user,
                                  entityId |-> handler[r].target]}
    /\ likesCount' = Staged(r, likesCount, {handler[r].target})
    /\ UNCHANGED <<comments, repliesCount, commentsCount>>

\* Mutant of CommitComment: a reply is not counted on the article.
CommitCommentUncounted(r) ==
    /\ handler[r].kind = "comment"
    /\ comments' = [comments EXCEPT ![r] = NewComment(r)]
    /\ commentsCount' = Staged(r, commentsCount, {handler[r].target})
    /\ repliesCount' = Staged(r, repliesCount, Requests \ {r})
    /\ UNCHANGED <<likes, likesCount>>

CommitComment(r) ==
    /\ handler[r].kind = "comment"
    /\ comments' = [comments EXCEPT ![r] = NewComment(r)]
    /\ commentsCount' = Staged(r, commentsCount, Articles)
    /\ repliesCount' = Staged(r, repliesCount, Requests \ {r})
    /\ UNCHANGED <<likes, likesCount>>

Commit(r) ==
    /\ handler[r].pc = "run" /\ handler[r].done = Len(Plan(r))
    /\ CommitLike(r) \/ CommitComment(r)
    /\ handler' = Outdated([handler EXCEPT ![r] = At("over")], Written(r))
    /\ Close(r)
    /\ UNCHANGED <<moderation, notified>>

\* The handler never gets to its next step: its process died, or lost the
\* database.  Its open transaction stays.
Lose(r) ==
    /\ InProgress(r)
    /\ handler' = [handler EXCEPT ![r] = At("lost")]
    /\ UNCHANGED <<wrote, documents, moderation, notified>>

\* MongoDB aborts a transaction that outlives its time limit.
Reap(r) ==
    /\ handler[r].pc = "lost"
    /\ handler' = [handler EXCEPT ![r] = At("over")]
    /\ Close(r)
    /\ UNCHANGED <<documents, moderation, notified>>

----------------------------------------------------------------------------
(* Writes outside transactions wait for the open ones. *)

Write(d) ==
    /\ \A o \in Requests : d \notin Written(o)
    /\ handler' = Outdated(handler, {d})
    /\ UNCHANGED <<wrote, documents, notified>>

\* A moderator activates a PENDING comment (no code of the API does).
Activate(c) ==
    /\ Exists(c) /\ status[c] = "pending"
    /\ Write(c)
    /\ status' = [status EXCEPT ![c] = "active"]
    /\ UNCHANGED withdrawn

\* CommentService.deleteOne: a soft delete that leaves counters and replies.
DeleteComment(c) ==
    /\ c \in Visible
    /\ Write(c)
    /\ status' = [status EXCEPT ![c] = "deleted"]
    /\ UNCHANGED withdrawn

\* ArticleService.deleteOne
DeleteArticle(a) ==
    /\ a \in Published
    /\ Write(a)
    /\ withdrawn' = withdrawn \cup {a}
    /\ UNCHANGED status

\* patchOne of an article or a comment: no field that is modelled changes.
Patch(d) ==
    /\ d \in Published \cup Visible
    /\ Write(d)
    /\ UNCHANGED moderation

----------------------------------------------------------------------------
Next ==
    \/ \E r \in Requests : \/ AskLike(r) \/ AskComment(r) \/ AskReply(r)
                           \/ FindLike(r) \/ Statement(r) \/ StatementFails(r)
                           \/ Commit(r) \/ Lose(r) \/ Reap(r)
    \/ \E c \in Requests : Activate(c) \/ DeleteComment(c)
    \/ \E a \in Articles : DeleteArticle(a)
    \/ \E d \in Documents : Patch(d)

Spec == Init /\ [][Next]_vars

----------------------------------------------------------------------------
(* Properties *)

\* The counters are exact whatever commits, conflicts or dies: an article counts
\* its comments and replies, deleted ones included, a comment its replies.
CountersExact ==
    /\ \A a \in Articles :
          commentsCount[a] = Cardinality({c \in Requests : comments[c].entityId = a})
    /\ \A p \in Requests :
          repliesCount[p] = Cardinality({c \in Requests : Exists(c) /\ comments[c].parentId = p})

\* Threads are trees of bounded depth: a reply hangs one level below an existing
\* comment of the same article, with its root, and its path spells its ancestry.
ThreadsWellFormed ==
    \A c \in Requests : Exists(c) =>
        LET doc == comments[c] IN
        /\ doc.path[doc.depth + 1] = c /\ Len(doc.path) = doc.depth + 1
        /\ doc.rootId = doc.path[1]
        /\ IF doc.parentId = Nobody
             THEN doc.depth = 0
             ELSE /\ Exists(doc.parentId)
                  /\ LET up == comments[doc.parentId] IN
                     /\ doc.entityId = up.entityId
                     /\ doc.path = Append(up.path, c)

LikesOf(type) == {l \in likes : EntityType(l.entityId) = type}
Total(D) == MapThenSumSet(LAMBDA d : likesCount[d], D)

\* If no user overlaps likes, none is counted without its document or lost: the
\* counters of all articles (comments) add up to the likes of articles
\* (comments), and no user likes one thing twice.
LikesAddUp ==
    ~Overlap =>
        /\ Total(Articles) = Cardinality(LikesOf("Article"))
        /\ Total(Requests) = Cardinality(LikesOf("Comment"))
        /\ \A k, l \in likes :
              k.entityId = l.entityId /\ k.owner = l.owner => k = l

\* A like of a comment is never committed without its COMMENT_LIKED event,
\* whenever its process dies.
LikesAnnounced == {l.id : l \in LikesOf("Comment")} \subseteq notified

\* The transactions implement Discussion: each commit is one atomic comment, reply
\* or like of it, whatever overlaps, conflicts or dies.
Posts == [c \in {x \in Requests : Exists(x)} |->
             [article |-> comments[c].entityId, path |-> comments[c].path]]
Promise == INSTANCE Discussion WITH
    Ids <- Requests, posts <- Posts,
    total <- commentsCount, replies <- repliesCount,
    liked <- likesCount, announced <- notified
Refinement == Promise!Spec

\* likesCount has min: 0 in the article's schema.
LikesCountNotNegative == \A a \in Articles : likesCount[a] >= 0
============================================================================
