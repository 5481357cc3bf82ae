----------------------------- MODULE Discussion -----------------------------
(***************************************************************************)
(* What the API promises of comments and likes, with no transaction,       *)
(* handler or staged value: whoever comments, replies, likes or takes a    *)
(* like back does it in one step, which changes the document and every     *)
(* counter of it together.  Comments are never lost, moved or changed.     *)
(***************************************************************************)
EXTENDS Integers, Sequences

CONSTANTS Ids, Users, Articles, MaxDepth,
          Overlap   \* a user may have two likes in progress

VARIABLES posts,     \* posts[c]: article and path (root to c) of comment c
          total,     \* total[a]: the number article a shows of its comments
          replies,   \* replies[c]: the number comment c shows of its replies
          likes,     \* like documents
          liked,     \* liked[x]: the number x shows of its likes
          announced, \* likes whose event was emitted
          status,    \* of comments
          withdrawn  \* articles deleted

thread == <<posts, total, replies>>
favour == <<likes, liked>>
moderation == <<status, withdrawn>>

Init == /\ posts = <<>>
        /\ total = [a \in Articles |-> 0] /\ replies = [c \in Ids |-> 0]
        /\ likes = {} /\ liked = [x \in Articles \cup Ids |-> 0]
        /\ announced = {}
        /\ status = [c \in Ids |-> "pending"] /\ withdrawn = {}

Add(c, article, path) ==
    /\ c \notin DOMAIN posts
    /\ posts' = [x \in DOMAIN posts \cup {c} |->
                    IF x = c THEN [article |-> article, path |-> path] ELSE posts[x]]
    /\ total' = [total EXCEPT ![article] = @ + 1]
    /\ UNCHANGED <<favour, announced, moderation>>

Post(c, a) == Add(c, a, <<c>>) /\ UNCHANGED replies

Reply(c, p) ==
    /\ p \in DOMAIN posts
    /\ Len(posts[p].path) <= MaxDepth
    /\ Add(c, posts[p].article, Append(posts[p].path, c))
    /\ replies' = [replies EXCEPT ![p] = @ + 1]

Kind(x) == IF x \in Articles THEN "Article" ELSE "Comment"
Likable == Articles \cup DOMAIN posts

\* The user's first like of an article, or of a comment; that of a comment was
\* announced before.
Like(r, u, x) ==
    /\ \A l \in likes : l.owner = u => Kind(l.entityId) # Kind(x)
    /\ Kind(x) = "Comment" => r \in announced
    /\ likes' = likes \cup {[id |-> r, owner |-> u, entityId |-> x]}
    /\ liked' = [liked EXCEPT ![x] = @ + 1]
    /\ UNCHANGED <<thread, announced, moderation>>

\* The user's like of that kind goes, whichever article or comment it was for, and
\* x is counted down.
TakeBack(l, x) ==
    /\ l \in likes /\ Kind(l.entityId) = Kind(x)
    /\ likes' = likes \ {l}
    /\ liked' = [liked EXCEPT ![x] = @ - 1]
    /\ UNCHANGED <<thread, announced, moderation>>

\* Nothing is promised of the likes of users who do not wait for their answers.
Overlapping == Overlap /\ UNCHANGED <<thread, announced, moderation>>

Announce(r) ==
    /\ announced' = announced \cup {r}
    /\ UNCHANGED <<thread, favour, moderation>>

Moderate(c) ==
    /\ c \in DOMAIN posts /\ status[c] # "deleted"
    /\ status' = [status EXCEPT ![c] = IF @ = "pending" THEN "active" ELSE "deleted"]
    /\ UNCHANGED <<thread, favour, announced, withdrawn>>

Withdraw(a) ==
    /\ withdrawn' = withdrawn \cup {a}
    /\ UNCHANGED <<thread, favour, announced, status>>

Next ==
    \/ \E c \in Ids : \/ \E a \in Articles : Post(c, a)
                      \/ \E p \in DOMAIN posts : Reply(c, p)
                      \/ Announce(c) \/ Moderate(c)
    \/ \E x \in Likable : \/ \E r \in Ids, u \in Users : Like(r, u, x)
                          \/ \E l \in likes : TakeBack(l, x)
    \/ \E a \in Articles : Withdraw(a)
    \/ Overlapping

Spec == Init /\ [][Next]_<<thread, favour, announced, moderation>>
============================================================================
