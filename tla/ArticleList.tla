---------------------------- MODULE ArticleList ----------------------------
(***************************************************************************)
(* ArticleService.listAll: a client follows nextCursor from page to page   *)
(* as long as hasNextPage, while articles are published, withdrawn, liked  *)
(* and commented between the pages.                                        *)
(*                                                                         *)
(* Articles are their ObjectIds, whose order is that of creation.  value   *)
(* is the field the list is sorted by; of the words for a direction, desc  *)
(* stands for desc, descending and -1, asc for asc and ascending.          *)
(***************************************************************************)
EXTENDS Integers, FiniteSets

CONSTANTS
    ArticleIds,
    Limits,      \* values of the query parameter limit
    MaxValue,    \* bound on the counters
    MaxChanges   \* bound on the changes while the client reads

ASSUME IdsAssumption ==
    /\ ArticleIds \subseteq Int /\ IsFiniteSet(ArticleIds)
    /\ Limits \subseteq Int
    /\ MaxValue \in Nat /\ MaxChanges \in Nat

VARIABLES
    sort,       \* the query parameter
    limit,      \* the query parameter
    value,      \* value[a]: the field of the article that the list is sorted by
    publication,\* publication[a]: draft, published or deleted
    cursor,     \* nextCursor of the last page
    more,       \* hasNextPage of the last page
    shown,      \* articles on some page
    again,      \* articles on more than one
    stayed,     \* articles published all the time since the first request
    ahead,      \* articles that have moved towards the front of the list
    back,       \* articles that have moved towards its end
    changes

query == <<sort, limit>>
articles == <<value, publication, stayed, ahead, back, changes>>
listVars == <<query, articles, cursor, more, shown, again>>

Fields == {"createdAt", "likesCount", "commentsCount"}

\* thenNewest: a second key, {likesCount: .., createdAt: desc}.
Sorts == [field : Fields, direction : {"desc", "asc", "1"}, thenNewest : BOOLEAN]
Values == 0..MaxValue

\* First: no cursor; Nowhere: one that was signed without an article, of which
\* JSON keeps {primary: null}.
First == [at |-> "first"]
Nowhere == [at |-> "nowhere"]
Cursors == {First, Nowhere} \cup [at : {"article"}, primary : Values, id : ArticleIds]

ListTypeOK ==
    /\ sort \in Sorts /\ limit \in Limits
    /\ value \in [ArticleIds -> Values]
    /\ publication \in [ArticleIds -> {"draft", "published", "deleted"}]
    /\ cursor \in Cursors
    /\ more \in BOOLEAN
    /\ shown \subseteq ArticleIds /\ again \subseteq shown
    /\ stayed \subseteq ArticleIds
    /\ ahead \subseteq ArticleIds /\ back \subseteq ArticleIds
    /\ changes \in 0..MaxChanges

Listed == {a \in ArticleIds : publication[a] = "published"}

ListInit ==
    /\ sort \in Sorts /\ limit \in Limits
    /\ sort.field = "createdAt" => ~sort.thenNewest
    /\ value \in [ArticleIds -> Values]
    /\ publication \in [ArticleIds -> {"draft", "published"}]
    /\ cursor = First
    /\ more = TRUE
    /\ shown = {} /\ again = {}
    /\ stayed = Listed
    /\ ahead = {} /\ back = {}
    /\ changes = 0

----------------------------------------------------------------------------
(* One page *)

\* The order of find().sort({field: direction, createdAt: desc, _id: 1}).
Before(a, b) ==
    \/ IF sort.direction = "desc" THEN value[a] > value[b] ELSE value[a] < value[b]
    \/ value[a] = value[b] /\ IF sort.thenNewest THEN a > b ELSE a < b

\* Mutant of AfterCursor: without the tie breaker.
AfterCursorByField(a) ==
    \/ cursor.at = "first"
    \/ cursor.at = "article"
         /\ IF sort.direction = "1" THEN value[a] > cursor.primary
                                    ELSE value[a] < cursor.primary

\* Mutant of AfterCursor: $gte for the tie breaker.
AfterCursorInclusive(a) ==
    \/ cursor.at = "first"
    \/ cursor.at = "article"
         /\ \/ IF sort.direction = "1" THEN value[a] > cursor.primary
                                       ELSE value[a] < cursor.primary
            \/ value[a] = cursor.primary /\ a >= cursor.id

\* createCursorQuery.  Of the words only 1 and -1 compare with 0: the operator
\* for asc is $lt.  A cursor without an id gets a new ObjectId, which no article
\* has, and no article has the value null.
AfterCursor(a) ==
    \/ cursor.at = "first"
    \/ cursor.at = "article"
         /\ \/ IF sort.direction = "1" THEN value[a] > cursor.primary
                                       ELSE value[a] < cursor.primary
            \/ value[a] = cursor.primary /\ a > cursor.id

Matching == {a \in Listed : AfterCursor(a)}

\* docs is what MongoDB answers of S with limit(n): 0 is no limit, and a negative
\* one its absolute value.
Limited(docs, S, n) ==
    /\ docs \subseteq S
    /\ \A x \in docs, y \in S \ docs : Before(x, y)
    /\ \/ docs = S /\ (n = 0 \/ Cardinality(S) <= n \/ Cardinality(S) <= -n)
       \/ docs # S /\ (Cardinality(docs) = n \/ Cardinality(docs) = -n)

Final(S) == {x \in S : \A y \in S : y = x \/ Before(y, x)}

\* sign, verify: the value and the id of the last article of the page; without
\* one both are lost.
Sign(page) ==
    IF page = {} THEN {Nowhere}
    ELSE {[at |-> "article", primary |-> value[a], id |-> a] : a \in Final(page)}

\* Mutant of HasNextPage: >= instead of >.
HasNextPageEqual(docs) == Cardinality(docs) >= limit

HasNextPage(docs) == Cardinality(docs) > limit

NextPage ==
    /\ more
    /\ \E docs \in SUBSET Matching :
          LET page == IF HasNextPage(docs) THEN docs \ Final(docs) ELSE docs IN
          /\ Limited(docs, Matching, limit + 1)
          /\ more' = HasNextPage(docs)
          /\ cursor' \in IF HasNextPage(docs) THEN Sign(page) ELSE {cursor}
          /\ shown' = shown \cup page
          /\ again' = again \cup (shown \cap page)
    /\ UNCHANGED <<query, articles>>

----------------------------------------------------------------------------
(* What happens to the articles between two pages *)

Changes == more /\ changes < MaxChanges /\ changes' = changes + 1

\* The field of a changes by d.
Move(a, d) ==
    /\ Changes
    /\ value[a] + d \in Values
    /\ value' = [value EXCEPT ![a] = @ + d]
    /\ IF (d > 0) = (sort.direction = "desc")
         THEN ahead' = ahead \cup {a} /\ UNCHANGED back
         ELSE back' = back \cup {a} /\ UNCHANGED ahead
    /\ UNCHANGED <<query, publication, stayed, cursor, more, shown, again>>

Like(a) == sort.field = "likesCount" /\ a \in Listed /\ Move(a, 1)
Unlike(a) == sort.field = "likesCount" /\ a \in Listed /\ Move(a, -1)
Comment(a) == sort.field = "commentsCount" /\ a \in Listed /\ Move(a, 1)

Become(a, p) ==
    /\ Changes
    /\ publication' = [publication EXCEPT ![a] = p]
    /\ stayed' = stayed \ {a}
    /\ UNCHANGED <<query, value, ahead, back, cursor, more, shown, again>>

\* deleteOne; patchOne with isPublished: false
Withdraw(a) == a \in Listed /\ \E p \in {"draft", "deleted"} : Become(a, p)

\* A moderator publishes a draft (no code of the API does).
Publish(a) == publication[a] = "draft" /\ Become(a, "published")

----------------------------------------------------------------------------
ListNext ==
    \/ NextPage
    \/ \E a \in ArticleIds : Like(a) \/ Unlike(a) \/ Comment(a) \/ Withdraw(a) \/ Publish(a)

\* The client asks for the next page as long as there is one.
ListFairness == WF_listVars(NextPage)

ListSpec == ListInit /\ [][ListNext]_listVars /\ ListFairness

----------------------------------------------------------------------------
(* Properties *)

\* The cursor goes the way the list is sorted: for all but the words asc and
\* ascending, and lists with a second key, which the cursor leaves out.
Followed == sort.direction # "asc" /\ ~sort.thenNewest

\* When the last page was read, every article that was published all the time was
\* on a page, unless it moved towards the front past the reader.
NothingSkipped ==
    ~more /\ Followed /\ limit >= 1 => stayed \ ahead \subseteq shown

\* An article is on two pages only if it moved towards the end meanwhile: never in
\* the lists by date, nor in that by comments, most commented first.
RepeatsFellBack == Followed => again \subseteq back
============================================================================
