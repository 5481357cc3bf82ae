----------------------------- MODULE PartsProofs -----------------------------
(***************************************************************************)
(* Theorems about ArticleList and QuietHours, for any articles, limits and *)
(* values and any length of day and week, and about the composition of     *)
(* PartsMC: what is proved of each component holds of the composition.     *)
(***************************************************************************)
EXTENDS PartsMC, AvatarsProofs, CategoryReferencesProofs, FiniteSetTheorems

(* Lists of articles.                                                       *)

\* The articles shown lie before the cursor, unless they have moved back since.
Read ==
    /\ shown # {} => cursor.at # "first"
    /\ \A a \in shown \ back : ~AfterCursor(a)
RepeatsInv == Followed => again \subseteq back /\ (more => Read)

\* The articles to be shown lie after the cursor.
Unread == \A a \in stayed \ ahead : a \in shown \/ AfterCursor(a)
SkipInv == Followed /\ limit >= 1 => IF more THEN Unread ELSE stayed \ ahead \subseteq shown

ListInv == ListTypeOK /\ stayed \subseteq Listed /\ RepeatsInv /\ SkipInv

LEMMA ListInitInv == ListInit => ListInv
<1> SUFFICES ASSUME ListInit PROVE ListInv
  OBVIOUS
<1>1. ListTypeOK
  BY IdsAssumption DEF ListInit, ListTypeOK, Listed, Cursors
<1>2. RepeatsInv /\ SkipInv
  BY DEF ListInit, RepeatsInv, SkipInv, Read, Unread, AfterCursor, First
<1> QED BY <1>1, <1>2 DEF ListInit, ListInv

\* Article a lies behind the one that has id i and the value v.
Behind(a, v, i) ==
    \/ IF sort.direction = "1" THEN value[a] > v ELSE value[a] < v
    \/ value[a] = v /\ a > i

LEMMA BehindOrders ==
    ASSUME ListTypeOK, NEW a \in ArticleIds, NEW b \in ArticleIds
    PROVE  /\ Followed => (Before(a, b) <=> Behind(b, value[a], a))
           /\ Behind(a, value[b], b) => ~Behind(b, value[a], a)
           /\ \A v \in Values, i \in ArticleIds :
                 Behind(b, value[a], a) /\ Behind(a, v, i) => Behind(b, v, i)
<1>1. a \in Int /\ b \in Int /\ value[a] \in Int /\ value[b] \in Int /\ Values \subseteq Int
      /\ ArticleIds \subseteq Int
  BY IdsAssumption DEF ListTypeOK, Values
<1>2. Followed => (Before(a, b) <=> Behind(b, value[a], a))
  <2>1. Followed => sort.direction \in {"desc", "1"} /\ ~sort.thenNewest
    BY DEF Followed, ListTypeOK, Sorts
  <2> QED BY <1>1, <2>1 DEF Before, Behind
<1>3. Behind(a, value[b], b) => ~Behind(b, value[a], a)
  BY <1>1 DEF Behind
<1>4. \A v \in Values, i \in ArticleIds :
         Behind(b, value[a], a) /\ Behind(a, v, i) => Behind(b, v, i)
  BY <1>1 DEF Behind
<1> QED BY <1>2, <1>3, <1>4

LEMMA CursorIs ==
    ASSUME ListTypeOK, NEW a
    PROVE  /\ AfterCursor(a) <=> \/ cursor.at = "first"
                                 \/ cursor.at = "article" /\ Behind(a, cursor.primary, cursor.id)
           /\ cursor.at = "article" => cursor.primary \in Values /\ cursor.id \in ArticleIds
BY DEF AfterCursor, Behind, ListTypeOK, Cursors, First, Nowhere

\* The cursor of a page that is not the last names its final article.
LEMMA PageIs ==
    ASSUME ListTypeOK, NextPage
    PROVE  \E docs \in SUBSET Matching :
             LET page == IF more' THEN docs \ Final(docs) ELSE docs IN
             /\ Limited(docs, Matching, limit + 1)
             /\ more' = (Cardinality(docs) > limit) /\ more' \in BOOLEAN
             /\ shown' = shown \cup page /\ again' = again \cup (shown \cap page)
             /\ ~more' => cursor' = cursor
             /\ more' /\ page = {} => cursor' = Nowhere
             /\ more' /\ page # {} => \E f \in page :
                   /\ cursor' = [at |-> "article", primary |-> value[f], id |-> f]
                   /\ \A y \in page : y = f \/ Before(y, f)
<1>1. PICK docs \in SUBSET Matching :
         LET page == IF HasNextPage(docs) THEN docs \ Final(docs) ELSE docs IN
         /\ Limited(docs, Matching, limit + 1)
         /\ more' = HasNextPage(docs)
         /\ cursor' \in IF HasNextPage(docs) THEN Sign(page) ELSE {cursor}
         /\ shown' = shown \cup page
         /\ again' = again \cup (shown \cap page)
  BY DEF NextPage
<1>2. (HasNextPage(docs) <=> Cardinality(docs) > limit) /\ HasNextPage(docs) \in BOOLEAN
      /\ HasNextPage(docs) = (Cardinality(docs) > limit)
  BY DEF HasNextPage
<1> DEFINE page == docs \ Final(docs)
<1>3. page = {} => Sign(page) = {Nowhere}
  BY DEF Sign
<1>4. page # {} => Sign(page) = {[at |-> "article", primary |-> value[a], id |-> a] :
                                    a \in Final(page)}
  BY DEF Sign
<1>5. Final(page) = {x \in page : \A y \in page : y = x \/ Before(y, x)}
  BY DEF Final
<1> HIDE DEF page
<1>6. more' /\ page # {} => \E f \in page :
         /\ cursor' = [at |-> "article", primary |-> value[f], id |-> f]
         /\ \A y \in page : y = f \/ Before(y, f)
  BY <1>1, <1>4, <1>5 DEF page
<1>7. more' /\ page = {} => cursor' = Nowhere
  BY <1>1, <1>3 DEF page
<1> WITNESS docs \in SUBSET Matching
<1> QED BY <1>1, <1>2, <1>6, <1>7 DEF page

LEMMA PageStep == ASSUME ListInv, NextPage PROVE ListInv'
<1>1. /\ ListTypeOK /\ stayed \subseteq Listed /\ RepeatsInv /\ SkipInv /\ more
      /\ sort' = sort /\ limit' = limit /\ value' = value /\ publication' = publication
      /\ stayed' = stayed /\ ahead' = ahead /\ back' = back /\ changes' = changes
  BY DEF ListInv, NextPage, query, articles
<1>2. PICK docs \in SUBSET Matching :
         LET page == IF more' THEN docs \ Final(docs) ELSE docs IN
         /\ Limited(docs, Matching, limit + 1)
         /\ more' = (Cardinality(docs) > limit) /\ more' \in BOOLEAN
         /\ shown' = shown \cup page /\ again' = again \cup (shown \cap page)
         /\ ~more' => cursor' = cursor
         /\ more' /\ page = {} => cursor' = Nowhere
         /\ more' /\ page # {} => \E f \in page :
               /\ cursor' = [at |-> "article", primary |-> value[f], id |-> f]
               /\ \A y \in page : y = f \/ Before(y, f)
  BY <1>1, PageIs
<1> DEFINE page == IF more' THEN docs \ Final(docs) ELSE docs
<1>3. page \subseteq docs /\ docs \subseteq ArticleIds /\ \A a \in docs : AfterCursor(a)
  BY DEF Matching, Listed
<1>4. /\ shown' = shown \cup page /\ again' = again \cup (shown \cap page)
      /\ ~more' => cursor' = cursor
      /\ more' /\ page = {} => cursor' = Nowhere
      /\ more' /\ page # {} => \E f \in page :
            /\ cursor' = [at |-> "article", primary |-> value[f], id |-> f]
            /\ \A y \in page : y = f \/ Before(y, f)
  BY <1>2
<1>5. more' => page = docs \ Final(docs)
  OBVIOUS
<1>6. ~more' => page = docs
  OBVIOUS
<1> HIDE DEF page
<1>7. cursor' \in Cursors
  <2>1. CASE ~more'
    BY <1>1, <1>4, <2>1 DEF ListTypeOK
  <2>2. CASE more' /\ page = {}
    BY <1>4, <2>2 DEF Cursors
  <2>3. CASE more' /\ page # {}
    <3>1. PICK f \in page : cursor' = [at |-> "article", primary |-> value[f], id |-> f]
      BY <1>4, <2>3
    <3>2. f \in ArticleIds /\ value[f] \in Values
      BY <1>1, <1>3 DEF ListTypeOK
    <3> QED BY <3>1, <3>2 DEF Cursors
  <2> QED BY <2>1, <2>2, <2>3
<1>8. ListTypeOK'
  BY <1>1, <1>2, <1>3, <1>4, <1>7 DEF ListTypeOK
<1>9. /\ Followed' <=> Followed
      /\ \A a, v, i : Behind(a, v, i)' <=> Behind(a, v, i)
      /\ \A a : AfterCursor(a)' <=> \/ cursor'.at = "first"
                                    \/ /\ cursor'.at = "article"
                                       /\ Behind(a, cursor'.primary, cursor'.id)
  BY <1>1 DEF Followed, Behind, AfterCursor
<1>10. RepeatsInv'
  <2> SUFFICES ASSUME Followed PROVE again' \subseteq back /\ (more' => Read')
    BY <1>1, <1>9 DEF RepeatsInv
  <2>1. again \subseteq back /\ Read
    BY <1>1 DEF RepeatsInv
  <2>2. again' \subseteq back
    BY <1>3, <1>4, <2>1 DEF Read
  <2>3. ASSUME more', page = {} PROVE Read'
    BY <1>4, <1>9, <2>3 DEF Read, Nowhere
  <2>4. ASSUME more', page # {} PROVE Read'
    <3>1. PICK f \in page :
             /\ cursor' = [at |-> "article", primary |-> value[f], id |-> f]
             /\ \A y \in page : y = f \/ Before(y, f)
      BY <1>4, <2>4
    <3>2. f \in ArticleIds /\ AfterCursor(f)
      BY <1>3
    <3>3. \A a : AfterCursor(a)' <=> Behind(a, value[f], f)
      BY <1>9, <3>1
    <3>4. ASSUME NEW a \in page PROVE ~Behind(a, value[f], f)
      <4>1. a \in ArticleIds /\ (a = f \/ Before(a, f))
        BY <1>3, <3>1
      <4> QED BY <1>1, <3>2, <4>1, BehindOrders
    <3>5. ASSUME NEW a \in shown \ back PROVE ~Behind(a, value[f], f)
      <4>1. a \in ArticleIds /\ ~AfterCursor(a) /\ cursor.at # "first"
        BY <1>1, <2>1 DEF Read, ListTypeOK
      <4>2. cursor.at = "article" /\ Behind(f, cursor.primary, cursor.id)
            /\ ~Behind(a, cursor.primary, cursor.id)
            /\ cursor.primary \in Values /\ cursor.id \in ArticleIds
        BY <1>1, <3>2, <4>1, CursorIs
      <4> QED BY <1>1, <3>2, <4>1, <4>2, BehindOrders
    <3>6. shown' \ back' \subseteq page \cup (shown \ back)
      BY <1>1, <1>4
    <3> QED BY <3>1, <3>3, <3>4, <3>5, <3>6 DEF Read
  <2> QED BY <2>2, <2>3, <2>4
<1>11. SkipInv'
  <2> SUFFICES ASSUME Followed, limit >= 1
               PROVE  IF more' THEN Unread' ELSE stayed \ ahead \subseteq shown'
    BY <1>1, <1>9 DEF SkipInv
  <2>1. Unread /\ limit \in Int
    BY <1>1, IdsAssumption DEF SkipInv, ListTypeOK
  <2> DEFINE size == Cardinality(docs)
  <2>2. IsFiniteSet(docs) /\ size \in Nat /\ (more' <=> size > limit)
    BY <1>2, <1>3, IdsAssumption, FS_Subset, FS_CardinalityType
  <2>3. \A a \in stayed \ ahead : a \in shown \/ a \in Matching
    BY <1>1, <2>1 DEF Unread, Matching
  <2>4. \A x \in docs, y \in Matching \ docs : Before(x, y)
    BY <1>2 DEF Limited
  <2>5. ASSUME ~more' PROVE stayed \ ahead \subseteq shown'
    <3>1. docs = Matching
      <4>1. docs = Matching \/ size = limit + 1 \/ size = -(limit + 1)
        BY <1>2 DEF Limited
      <4> HIDE DEF size
      <4> QED BY <2>1, <2>2, <2>5, <4>1
    <3> QED BY <1>4, <1>6, <2>3, <2>5, <3>1
  <2>6. ASSUME more' PROVE Unread'
    <3>1. page # {}
      <4> SUFFICES ASSUME page = {} PROVE FALSE
        OBVIOUS
      <4>1. \A x, y \in docs : x = y
        <5>1. \A x, y \in docs : x = y \/ (Before(x, y) /\ Before(y, x))
          BY <1>5, <2>6 DEF Final
        <5> QED BY <1>1, <1>3, <5>1, BehindOrders
      <4>2. docs = {} \/ \E x \in docs : docs = {x}
        BY <4>1
      <4>3. size \in {0, 1}
        BY <4>2, FS_EmptySet, FS_Singleton
      <4> HIDE DEF size
      <4> QED BY <2>1, <2>2, <2>6, <4>3
    <3>2. PICK f \in page :
             /\ cursor' = [at |-> "article", primary |-> value[f], id |-> f]
             /\ \A y \in page : y = f \/ Before(y, f)
      BY <1>4, <2>6, <3>1
    <3>3. \A a : AfterCursor(a)' <=> Behind(a, value[f], f)
      BY <1>9, <3>2
    <3>4. ASSUME NEW a \in stayed \ ahead, a \notin shown' PROVE Behind(a, value[f], f)
      <4>1. a \in Matching /\ a \in ArticleIds /\ f \in docs /\ f \in ArticleIds /\ f # a
        BY <1>3, <1>4, <2>3, <3>4 DEF Matching, Listed
      <4>2. a \in docs => a \in Final(docs)
        BY <1>4, <1>5, <2>6, <3>4
      <4>3. Before(f, a)
        BY <2>4, <4>1, <4>2 DEF Final
      <4> QED BY <1>1, <4>1, <4>3, BehindOrders
    <3> QED BY <1>1, <3>3, <3>4 DEF Unread
  <2> QED BY <2>5, <2>6
<1> QED BY <1>1, <1>8, <1>10, <1>11 DEF ListInv, Listed

\* An article moves: towards the front or towards the end.
LEMMA MoveStep ==
    ASSUME ListInv, NEW a \in ArticleIds, NEW d \in {1, -1}, Move(a, d) PROVE ListInv'
<1> USE IdsAssumption
<1>1. /\ ListTypeOK /\ RepeatsInv /\ SkipInv /\ more /\ more' = more
      /\ sort' = sort /\ limit' = limit /\ publication' = publication /\ cursor' = cursor
      /\ stayed' = stayed /\ shown' = shown /\ again' = again /\ stayed \subseteq Listed
      /\ changes' = changes + 1 /\ changes < MaxChanges
  BY DEF ListInv, Move, query, Changes
<1>2. /\ value \in [ArticleIds -> Values] /\ value' \in [ArticleIds -> Values]
      /\ value'[a] = value[a] + d /\ \A b \in ArticleIds : b # a => value'[b] = value[b]
      /\ shown \subseteq ArticleIds /\ stayed \subseteq ArticleIds
  BY <1>1 DEF Move, ListTypeOK
<1>3. IF (d > 0) = (sort.direction = "desc")
        THEN ahead' = ahead \cup {a} /\ back' = back
        ELSE back' = back \cup {a} /\ ahead' = ahead
  BY DEF Move
<1>4. ListTypeOK'
  <2>1. changes' \in 0..MaxChanges
    BY <1>1 DEF ListTypeOK
  <2> QED BY <1>1, <1>2, <1>3, <2>1 DEF ListTypeOK
<1>5. Followed' <=> Followed
  BY <1>1 DEF Followed
<1>6. ASSUME NEW b \in ArticleIds, b # a PROVE AfterCursor(b)' <=> AfterCursor(b)
  BY <1>1, <1>2, <1>6 DEF AfterCursor
<1>7. ASSUME Followed
      PROVE  /\ a \notin back' => (AfterCursor(a)' => AfterCursor(a))
             /\ a \notin ahead' => (AfterCursor(a) => AfterCursor(a)')
  <2>1. sort.direction \in {"desc", "1"}
    BY <1>1, <1>7 DEF Followed, ListTypeOK, Sorts
  <2>2. value[a] \in Int /\ value'[a] \in Int /\ value'[a] = value[a] + d
    BY <1>2 DEF Values
  <2>3. cursor.at = "article" => cursor.primary \in Int /\ cursor.id \in ArticleIds
    BY <1>1, CursorIs DEF Values
  <2>4. CASE d = 1
    BY <1>1, <1>3, <2>1, <2>2, <2>3, <2>4 DEF AfterCursor
  <2>5. CASE d = -1
    BY <1>1, <1>3, <2>1, <2>2, <2>3, <2>5 DEF AfterCursor
  <2> QED BY <2>4, <2>5
<1>8. back \subseteq back' /\ ahead \subseteq ahead'
  BY <1>3
<1>9. RepeatsInv'
  BY <1>1, <1>2, <1>5, <1>6, <1>7, <1>8 DEF RepeatsInv, Read
<1>10. SkipInv'
  BY <1>1, <1>2, <1>5, <1>6, <1>7, <1>8 DEF SkipInv, Unread
<1> QED BY <1>1, <1>4, <1>9, <1>10 DEF ListInv, Listed

LEMMA BecomeStep ==
    ASSUME ListInv, NEW a \in ArticleIds, NEW p \in {"draft", "published", "deleted"}, Become(a, p)
    PROVE  ListInv'
<1> USE IdsAssumption
<1>1. /\ ListTypeOK /\ RepeatsInv /\ SkipInv /\ more /\ more' = more
      /\ sort' = sort /\ limit' = limit /\ value' = value /\ cursor' = cursor
      /\ ahead' = ahead /\ back' = back /\ shown' = shown /\ again' = again
      /\ stayed \subseteq Listed /\ changes' = changes + 1 /\ changes < MaxChanges
      /\ publication' = [publication EXCEPT ![a] = p] /\ stayed' = stayed \ {a}
  BY DEF ListInv, Become, query, Changes
<1>2. ListTypeOK'
  <2>1. changes' \in 0..MaxChanges
    BY <1>1 DEF ListTypeOK
  <2> QED BY <1>1, <2>1 DEF ListTypeOK
<1>3. stayed' \subseteq Listed'
  BY <1>1 DEF Listed, ListTypeOK
<1>4. (Followed' <=> Followed) /\ \A b : AfterCursor(b)' <=> AfterCursor(b)
  BY <1>1 DEF Followed, AfterCursor
<1>5. RepeatsInv' /\ SkipInv'
  BY <1>1, <1>4 DEF RepeatsInv, SkipInv, Read, Unread
<1> QED BY <1>2, <1>3, <1>5 DEF ListInv

LEMMA ListStep == ListInv /\ [ListNext]_listVars => ListInv'
<1> SUFFICES ASSUME ListInv, [ListNext]_listVars PROVE ListInv'
  OBVIOUS
<1>1. ASSUME NEW a \in ArticleIds, Like(a) \/ Unlike(a) \/ Comment(a) PROVE ListInv'
  BY <1>1, MoveStep DEF Like, Unlike, Comment
<1>2. ASSUME NEW a \in ArticleIds, Withdraw(a) \/ Publish(a) PROVE ListInv'
  BY <1>2, BecomeStep DEF Withdraw, Publish
<1>3. CASE UNCHANGED listVars
  BY <1>3 DEF listVars, query, articles, ListInv, ListTypeOK, RepeatsInv, SkipInv, Read, Unread,
              Followed, AfterCursor, Listed
<1> QED BY <1>1, <1>2, <1>3, PageStep DEF ListNext

LEMMA ListInvariance == ListSpec => []ListInv
BY ListInitInv, ListStep, PTL DEF ListSpec

\* Whatever is published, withdrawn, liked or commented between two pages, a reader
\* who comes to the end of a list that is followed has seen every article that was
\* there all the time, but those that moved ahead past the reader.
THEOREM NothingSkippedThm == ListSpec => []NothingSkipped
<1>1. ListInv => NothingSkipped
  BY DEF ListInv, SkipInv, NothingSkipped, ListTypeOK
<1> QED BY <1>1, ListInvariance, PTL

\* An article that is shown twice has moved back since it was shown first.
THEOREM RepeatsFellBackThm == ListSpec => []RepeatsFellBack
<1>1. ListInv => RepeatsFellBack
  BY DEF ListInv, RepeatsInv, RepeatsFellBack
<1> QED BY <1>1, ListInvariance, PTL

\* A page that has a next one leaves fewer articles to it.
PageShrinks == NextPage /\ more' /\ limit >= 0 => Matching' \subseteq Matching /\ Matching' # Matching

LEMMA PageLeavesFewer == ListInv => PageShrinks
<1> SUFFICES ASSUME ListInv, NextPage, more', limit >= 0
             PROVE  Matching' \subseteq Matching /\ Matching' # Matching
  BY DEF PageShrinks
<1>1. /\ ListTypeOK /\ sort' = sort /\ value' = value /\ publication' = publication
      /\ limit \in Int
  BY IdsAssumption DEF ListInv, ListTypeOK, NextPage, query, articles
<1>2. PICK docs \in SUBSET Matching :
         LET page == IF more' THEN docs \ Final(docs) ELSE docs IN
         /\ Limited(docs, Matching, limit + 1)
         /\ more' = (Cardinality(docs) > limit) /\ more' \in BOOLEAN
         /\ shown' = shown \cup page /\ again' = again \cup (shown \cap page)
         /\ ~more' => cursor' = cursor
         /\ more' /\ page = {} => cursor' = Nowhere
         /\ more' /\ page # {} => \E f \in page :
               /\ cursor' = [at |-> "article", primary |-> value[f], id |-> f]
               /\ \A y \in page : y = f \/ Before(y, f)
  BY <1>1, PageIs
<1>3. docs # {}
  <2>1. Cardinality(docs) > limit
    BY <1>2
  <2>2. docs = {} => Cardinality(docs) = 0
    BY FS_EmptySet
  <2> QED BY <1>1, <2>1, <2>2
<1>4. /\ Listed' = Listed /\ Matching \subseteq ArticleIds
      /\ \A a : AfterCursor(a)' <=> \/ cursor'.at = "first"
                                    \/ /\ cursor'.at = "article"
                                       /\ Behind(a, cursor'.primary, cursor'.id)
  BY <1>1 DEF Listed, Matching, Behind, AfterCursor
<1>5. CASE cursor' = Nowhere
  <2>1. Matching' = {}
    BY <1>4, <1>5 DEF Matching, Nowhere
  <2> QED BY <1>3, <2>1
<1>6. CASE \E f \in docs : cursor' = [at |-> "article", primary |-> value[f], id |-> f]
  <2>1. PICK f \in docs : cursor' = [at |-> "article", primary |-> value[f], id |-> f]
    BY <1>6
  <2>2. f \in ArticleIds /\ f \in Matching /\ AfterCursor(f)
    BY <1>4 DEF Matching
  <2>3. \A a : AfterCursor(a)' <=> Behind(a, value[f], f)
    BY <1>4, <2>1
  <2>4. f \notin Matching'
    BY <1>1, <2>2, <2>3, BehindOrders DEF Matching
  <2>5. ASSUME NEW a \in Matching' PROVE a \in Matching
    <3>1. a \in Listed /\ a \in ArticleIds /\ Behind(a, value[f], f)
      BY <1>4, <2>3 DEF Matching, Listed
    <3>2. AfterCursor(a)
      BY <1>1, <2>2, <3>1, BehindOrders, CursorIs
    <3> QED BY <3>1, <3>2 DEF Matching
  <2> QED BY <2>2, <2>4, <2>5
<1>7. cursor' = Nowhere \/ \E f \in docs : cursor' = [at |-> "article", primary |-> value[f], id |-> f]
  BY <1>2
<1> QED BY <1>5, <1>6, <1>7

\* However a list is sorted, the asc that the cursor reads the wrong way and second
\* keys included, a page that has a next one leaves it a smaller set of articles;
\* with a limit that is not negative, then, a list that nobody writes to has an end.
THEOREM PagesShrinkThm == ListSpec => [][PageShrinks]_listVars
BY ListInvariance, PageLeavesFewer, PTL

----------------------------------------------------------------------------
(* Quiet hours.                                                             *)

\* A job that was put off today is due in the minute after the quiet hours.
QuietInv ==
    /\ QuietTypeOK
    /\ OneDelayIsEnough
    /\ ~PassMidnight /\ putOffs = 1 /\ job.state = "waiting"
       => job.due = now - Time + preference.end + 1

\* The minutes of a day pass one by one.
LEMMA MinutePasses ==
    ASSUME NEW n \in Nat
    PROVE  /\ n % Day \in Minutes
           /\ (n + 1) % Day = 0 \/ (n + 1) % Day = (n % Day) + 1
<1> USE DayAssumption
<1> DEFINE q == n \div Day
           t == n % Day
<1>1. q \in Nat /\ t \in 0..(Day - 1) /\ n = Day * q + t
  OBVIOUS
<1> HIDE DEF q, t
<1>2. CASE t + 1 = Day
  <2>1. n + 1 = Day * (q + 1)
    BY <1>1, <1>2
  <2>2. (n + 1) % Day = 0
    BY <1>1, <2>1
  <2> QED BY <1>1, <2>2 DEF Minutes, t
<1>3. CASE t + 1 < Day
  <2>1. n + 1 = Day * q + (t + 1) /\ t + 1 \in 0..(Day - 1)
    BY <1>1, <1>3
  <2>2. (n + 1) % Day = t + 1
    BY <1>1, <2>1
  <2> QED BY <1>1, <2>2 DEF Minutes, t
<1> QED BY <1>1, <1>2, <1>3

LEMMA QuietInitInv == QuietInit => QuietInv
<1> SUFFICES ASSUME QuietInit PROVE QuietInv
  OBVIOUS
<1>1. QuietTypeOK
  BY DayAssumption DEF QuietInit, QuietTypeOK, Jobs
<1> QED BY <1>1 DEF QuietInit, QuietInv, OneDelayIsEnough

\* What the step of a job has to show.
LEMMA JobStep ==
    ASSUME QuietInv, preference' = preference, now' = now, job' \in Jobs, putOffs' \in 0..2,
           ~PassMidnight =>
              /\ putOffs' <= 1
              /\ job'.state = "dropped" => preference.muted
              /\ putOffs' = 1 /\ job'.state = "waiting"
                 => job'.due = now - Time + preference.end + 1
    PROVE  QuietInv'
BY DEF QuietInv, QuietTypeOK, OneDelayIsEnough, PassMidnight, Time

LEMMA QuietHoursStep == QuietInv /\ [QuietNext]_quietVars => QuietInv'
<1> USE DayAssumption
<1> SUFFICES ASSUME QuietInv, [QuietNext]_quietVars PROVE QuietInv'
  OBVIOUS
<1> DEFINE t == Time
           e == preference.end
<1>1. /\ preference \in Preferences /\ now \in 0..MaxNow /\ job \in Jobs /\ putOffs \in 0..2
      /\ OneDelayIsEnough
      /\ ~PassMidnight /\ putOffs = 1 /\ job.state = "waiting" => job.due = now - t + e + 1
  BY DEF QuietInv, QuietTypeOK
<1>2. /\ t \in Minutes /\ e \in Minutes /\ preference.start \in Minutes
      /\ (now + 1) % Day = 0 \/ (now + 1) % Day = t + 1
  <2>1. now \in Nat
    BY <1>1
  <2>2. preference.start \in Minutes /\ preference.end \in Minutes
    BY <1>1 DEF Preferences
  <2> QED BY <2>1, <2>2, MinutePasses DEF Time
<1>3. job.state \in {"waiting", "delivered", "dropped"} /\ job.due \in 0..(MaxNow + Day)
  BY <1>1 DEF Jobs
<1>4. ~PassMidnight /\ InQuietHours => preference.start <= t /\ t <= e
  BY <1>2 DEF PassMidnight, InQuietHours, IsQuietHours, Minutes
<1>5. Delay = e + 1 - t
  BY DEF Delay, DelayUntilQuietHoursEnd
<1> HIDE DEF t, e
<1>6. CASE Tick
  <2>1. /\ now' = now + 1 /\ now' \in 0..MaxNow /\ preference' = preference /\ job' = job
        /\ putOffs' = IF (now + 1) % Day = 0 THEN 0 ELSE putOffs
    BY <1>1, <1>6 DEF Tick
  <2>2. QuietTypeOK' /\ OneDelayIsEnough'
    BY <1>1, <2>1 DEF QuietTypeOK, OneDelayIsEnough, PassMidnight
  <2>3. Time' = (now + 1) % Day
    BY <2>1 DEF Time
  <2>4. ASSUME ~PassMidnight', putOffs' = 1, job'.state = "waiting"
        PROVE  job'.due = now' - Time' + preference'.end + 1
    <3>1. ~PassMidnight /\ preference'.end = e
      BY <2>1, <2>4 DEF PassMidnight, e
    <3>2. Time' = t + 1 /\ putOffs = 1
      BY <1>1, <1>2, <2>1, <2>3, <2>4
    <3>3. job'.due = now - t + e + 1
      BY <1>1, <2>1, <2>4, <3>1, <3>2
    <3>4. now \in Int /\ t \in Int /\ e \in Int /\ now' = now + 1
      BY <1>1, <1>2, <2>1 DEF Minutes
    <3> QED BY <3>1, <3>2, <3>3, <3>4
  <2> QED BY <2>2, <2>4 DEF QuietInv
<1>7. CASE Deliver
  <2>1. /\ preference' = preference /\ now' = now /\ putOffs' = putOffs
        /\ job' = [job EXCEPT !.state = "delivered"]
    BY <1>7 DEF Deliver
  <2>2. job' \in Jobs /\ job'.state = "delivered"
    BY <1>1, <2>1 DEF Jobs
  <2> QED BY <1>1, <2>1, <2>2, JobStep DEF OneDelayIsEnough
<1>8. CASE Drop
  <2>1. /\ preference' = preference /\ now' = now /\ putOffs' = putOffs
        /\ job' = [job EXCEPT !.state = "dropped"]
        /\ preference.muted \/ (InQuietHours /\ Delay = 0)
    BY <1>8 DEF Drop
  <2>2. job' \in Jobs /\ job'.state = "dropped"
    BY <1>1, <2>1 DEF Jobs
  <2>3. ~PassMidnight => preference.muted
    BY <1>2, <1>4, <1>5, <2>1 DEF Minutes
  <2> QED BY <1>1, <2>1, <2>2, <2>3, JobStep DEF OneDelayIsEnough
<1>9. CASE PutOff
  <2> DEFINE wait == IF Delay < 0 THEN 0 ELSE Delay
  <2>1. /\ preference' = preference /\ now' = now /\ job.state = "waiting" /\ job.due <= now
        /\ job' = [job EXCEPT !.due = now + wait] /\ InQuietHours
        /\ putOffs' = IF putOffs = 2 THEN 2 ELSE putOffs + 1
    BY <1>9 DEF PutOff, Due
  <2>2. wait \in 0..Day /\ (~PassMidnight => wait = e + 1 - t)
    BY <1>2, <1>4, <1>5, <2>1 DEF Minutes
  <2> HIDE DEF wait
  <2>3. job' \in Jobs /\ job'.state = "waiting" /\ job'.due = now + wait
    <3>1. now + wait \in 0..(MaxNow + Day)
      BY <1>1, <2>2
    <3> QED BY <1>1, <2>1, <3>1 DEF Jobs
  <2>4. ~PassMidnight => putOffs = 0
    <3>1. ~PassMidnight /\ putOffs = 1 => FALSE
      BY <1>1, <1>2, <1>4, <2>1 DEF Minutes
    <3> QED BY <1>1, <3>1 DEF OneDelayIsEnough
  <2>5. ~PassMidnight => job'.due = now - t + e + 1
    BY <1>1, <1>2, <2>2, <2>3 DEF Minutes
  <2> QED BY <1>1, <2>1, <2>3, <2>4, <2>5, JobStep DEF t, e
<1>10. CASE UNCHANGED quietVars
  BY <1>10 DEF quietVars, QuietInv, QuietTypeOK, OneDelayIsEnough, PassMidnight, Time
<1> QED BY <1>6, <1>7, <1>8, <1>9, <1>10 DEF QuietNext

LEMMA QuietInvariance == QuietSpec => []QuietInv
BY QuietInitInv, QuietHoursStep, PTL DEF QuietSpec

\* For any length of day and week, and whenever the job is taken, one delay leads
\* out of the quiet hours, and only what is muted is dropped.
THEOREM OneDelayIsEnoughThm == QuietSpec => []OneDelayIsEnough
<1>1. QuietInv => OneDelayIsEnough
  BY DEF QuietInv
<1> QED BY <1>1, QuietInvariance, PTL

----------------------------------------------------------------------------
(* The composition.                                                         *)

PartsInv == ListInv /\ RefInv /\ AvatarInv /\ QuietInv

\* In the composition a component takes a step of its own or rests.
LEMMA PartsStart == Init => ListInit /\ RefInit /\ AvatarInit /\ QuietInit
BY DEF Init, ListRests, RefRests, AvatarsRest, QuietRests

LEMMA PartsMove ==
    [Next]_partVars => /\ [ListNext]_listVars /\ [RefNext]_refVars
                       /\ [AvatarNext]_avatarVars /\ [QuietNext]_quietVars
BY DEF Next, partVars

LEMMA PartsInvariance == Spec => []PartsInv
<1>1. Init => PartsInv
  BY PartsStart, ListInitInv, RefInitInv, AvatarInitInv, QuietInitInv DEF PartsInv
<1>2. PartsInv /\ [Next]_partVars => PartsInv'
  BY PartsMove, ListStep, RefStep, AvatarStep, QuietHoursStep DEF PartsInv
<1> QED BY <1>1, <1>2, PTL DEF Spec

\* Every variable of the four components keeps its type, whichever runs.
THEOREM PartsTypeCorrect == Spec => []PartsTypeOK
<1>1. PartsInv => PartsTypeOK
  BY DEF PartsInv, PartsTypeOK, ListInv, RefInv, AvatarInv, QuietInv
<1> QED BY <1>1, PartsInvariance, PTL

\* A behaviour of the composition is a safe behaviour of each component.
THEOREM PartsRefineComponents ==
    Spec => /\ ListInit /\ [][ListNext]_listVars
            /\ RefInit /\ [][RefNext]_refVars
            /\ AvatarInit /\ [][AvatarNext]_avatarVars
            /\ QuietInit /\ [][QuietNext]_quietVars
BY PartsStart, PartsMove, PTL DEF Spec
=============================================================================
