------------------------ MODULE CategoryReferences ------------------------
(***************************************************************************)
(* The categories that articles refer to.  ArticleService.create and       *)
(* patchOne check that they exist, outside any transaction, before they    *)
(* write the article; CategoryService.deleteOne pulls a category from all  *)
(* articles and removes it in one transaction.                             *)
(*                                                                         *)
(* updateMany writes every article, as it matches all of them: it fails if *)
(* another open transaction has written one, and writes outside            *)
(* transactions wait for it.  It does not see articles inserted after its  *)
(* snapshot.  deleteOne catches nothing: a statement that MongoDB refuses  *)
(* ends the transaction there; when the process dies, or MongoDB is not    *)
(* reached, it stays open until MongoDB's time limit.                      *)
(***************************************************************************)
EXTENDS FiniteSets

CONSTANTS
    Requests,
    Articles,
    Categories,
    Nothing      \* no article or category

ASSUME NothingAssumption == Nothing \notin Articles \cup Categories

VARIABLES
    status,      \* status[c]: whether the category is still to come, there, or deleted
    made,        \* articles in MongoDB
    categories,  \* categories[a]: the field of the article
    request,     \* request[r]: what r asks and how far its handler got
    wrote,       \* wrote[r]: articles that r's open transaction has pulled from
    raced        \* raced[a]: categories of a that were being deleted between the
                 \* check and the write

documents == <<status, made, categories>>
refVars == <<documents, request, wrote, raced>>

\* unsure: categories wanted whose deletion overlaps the request since its check;
\* found: the category was there when the transaction began.
RequestStates ==
    [pc : {"idle", "check", "pull", "remove", "commit", "lost", "over"},
     kind : {"none", "create", "patch", "delete"},
     article : Articles \cup {Nothing}, category : Categories \cup {Nothing},
     want : SUBSET Categories, checked : SUBSET Categories,
     unsure : SUBSET Categories, found : BOOLEAN]
Idle == [pc |-> "idle", kind |-> "none", article |-> Nothing, category |-> Nothing,
         want |-> {}, checked |-> {}, unsure |-> {}, found |-> FALSE]

RefTypeOK ==
    /\ status \in [Categories -> {"new", "exists", "deleted"}]
    /\ made \subseteq Articles
    /\ categories \in [Articles -> SUBSET Categories]
    /\ request \in [Requests -> RequestStates]
    /\ wrote \in [Requests -> SUBSET Articles]
    /\ raced \in [Articles -> SUBSET Categories]

Existing == {c \in Categories : status[c] = "exists"}

RefInit ==
    /\ status \in [Categories -> {"new", "exists"}]
    /\ made \in SUBSET Articles
    /\ categories \in [Articles -> SUBSET Existing]
    /\ \A a \in Articles \ made : categories[a] = {}
    /\ request = [r \in Requests |-> Idle]
    /\ wrote = [r \in Requests |-> {}]
    /\ raced = [a \in Articles |-> {}]

\* r's handler ends, and with it a transaction of its.
End(r) ==
    /\ request' = [request EXCEPT ![r] = [Idle EXCEPT !.pc = "over"]]
    /\ wrote' = [wrote EXCEPT ![r] = {}]

----------------------------------------------------------------------------
(* Requests *)

AskCreate(r) ==
    /\ request[r].pc = "idle"
    /\ \E a \in Articles \ made, w \in SUBSET Categories :
          /\ \A o \in Requests : request[o].article # a
          /\ request' = [request EXCEPT ![r] =
                [Idle EXCEPT !.pc = "check", !.kind = "create", !.article = a, !.want = w]]
    /\ UNCHANGED <<documents, wrote, raced>>

\* The patch is applied to the article that the pipe has read: whatever it is
\* about, the categories are those it read or those it says.
AskPatch(r) ==
    /\ request[r].pc = "idle"
    /\ \E a \in made : \E w \in {categories[a]} \cup SUBSET Categories :
          request' = [request EXCEPT ![r] =
             [Idle EXCEPT !.pc = "check", !.kind = "patch", !.article = a, !.want = w]]
    /\ UNCHANGED <<documents, wrote, raced>>

AskDelete(r) ==
    /\ request[r].pc = "idle"
    /\ \E c \in Categories :
          /\ status[c] # "new"
          /\ request' = [request EXCEPT ![r] =
                [Idle EXCEPT !.pc = "pull", !.kind = "delete", !.category = c]]
    /\ UNCHANGED <<documents, wrote, raced>>

----------------------------------------------------------------------------
(* Creating and patching articles *)

\* A deletion of c has taken its snapshot and is not over.
BeingDeleted(c) ==
    \E o \in Requests : request[o].category = c /\ request[o].pc \in {"remove", "commit"}

\* Mutant of Refused: .some() instead of .every().
RefusedIfNone(r, c) == request[r].want \cap Existing = {}

\* One or more categories do not exist.
Refused(r, c) == c \notin Existing

\* Promise.all of categoryModel.exists: each at a moment of its own.
Check(r) ==
    /\ request[r].pc = "check"
    /\ \E c \in request[r].want \ request[r].checked :
          \/ /\ ~Refused(r, c)
             /\ request' = [request EXCEPT
                   ![r].checked = @ \cup {c},
                   ![r].unsure = IF BeingDeleted(c) THEN @ \cup {c} ELSE @]
             /\ UNCHANGED wrote
          \/ Refused(r, c) /\ End(r)
    /\ UNCHANGED <<documents, raced>>

Locked(a) == \E o \in Requests : a \in wrote[o]

\* updateOne with every field of the patched article, or the commit of a new one.
Write(r) ==
    LET a == request[r].article IN
    /\ request[r].pc = "check"
    /\ request[r].checked = request[r].want
    /\ ~Locked(a)
    /\ made' = made \cup {a}
    /\ categories' = [categories EXCEPT ![a] = request[r].want]
    /\ raced' = [raced EXCEPT ![a] = request[r].unsure]
    /\ End(r)
    /\ UNCHANGED status

----------------------------------------------------------------------------
(* CategoryService.deleteOne *)

\* From here on the deletion of c overlaps every request that has checked c.
Warned(c) ==
    [o \in Requests |-> IF c \in request[o].checked
                          THEN [request[o] EXCEPT !.unsure = @ \cup {c}] ELSE request[o]]

\* Mutant of Pull: updateMany without the session.
PullAtOnce(r) ==
    LET c == request[r].category IN
    /\ request[r].pc = "pull"
    /\ \A a \in made : ~Locked(a)
    /\ request' = [Warned(c) EXCEPT ![r].pc = "remove", ![r].found = (c \in Existing)]
    /\ wrote' = [wrote EXCEPT ![r] = made]
    /\ categories' = [a \in Articles |-> categories[a] \ {c}]
    /\ UNCHANGED <<status, made, raced>>

Pull(r) ==
    LET c == request[r].category IN
    /\ request[r].pc = "pull"
    /\ \A a \in made : ~Locked(a)
    /\ request' = [Warned(c) EXCEPT ![r].pc = "remove", ![r].found = (c \in Existing)]
    /\ wrote' = [wrote EXCEPT ![r] = made]
    /\ UNCHANGED <<documents, raced>>

\* deleteOne, which conflicts with another deletion of the category.
Remove(r) ==
    LET c == request[r].category IN
    /\ request[r].pc = "remove"
    /\ request[r].found = (c \in Existing)
    /\ \A o \in Requests : ~(request[o].pc = "commit" /\ request[o].category = c)
    /\ request' = [request EXCEPT ![r].pc = "commit"]
    /\ UNCHANGED <<documents, wrote, raced>>

Commit(r) ==
    LET c == request[r].category IN
    /\ request[r].pc = "commit"
    /\ categories' = [a \in Articles |->
                        IF a \in wrote[r] THEN categories[a] \ {c} ELSE categories[a]]
    /\ status' = [status EXCEPT ![c] = "deleted"]
    /\ End(r)
    /\ UNCHANGED <<made, raced>>

\* The statement writes what another open transaction has written, or what was
\* written since the snapshot: MongoDB refuses it at once.
Conflict(r) ==
    /\ \/ /\ request[r].pc = "pull"
          /\ \E a \in made : Locked(a)
       \/ /\ request[r].pc = "remove"
          /\ \/ request[r].found # (request[r].category \in Existing)
             \/ \E o \in Requests : /\ request[o].pc = "commit"
                                    /\ request[o].category = request[r].category
    /\ End(r)
    /\ UNCHANGED <<documents, raced>>

\* MongoDB refuses a statement or the commit for a reason of its own.
Fail(r) ==
    /\ request[r].pc \in {"check", "pull", "remove", "commit"}
    /\ End(r)
    /\ UNCHANGED <<documents, raced>>

\* The process dies, or does not reach MongoDB any more.
Lose(r) ==
    /\ request[r].pc \in {"check", "pull", "remove", "commit"}
    /\ request' = [request EXCEPT ![r] = [Idle EXCEPT !.pc = "lost"]]
    /\ UNCHANGED <<documents, wrote, raced>>

\* Mutant of Reap: MongoDB does not know of it.
ReapUnlocked(r) ==
    /\ request[r].pc = "lost" /\ wrote[r] = {}
    /\ End(r)
    /\ UNCHANGED <<documents, raced>>

Reap(r) ==
    /\ request[r].pc = "lost"
    /\ End(r)
    /\ UNCHANGED <<documents, raced>>

\* CategoryService.create, with an id that no category has had.
AddCategory(c) ==
    /\ status[c] = "new"
    /\ status' = [status EXCEPT ![c] = "exists"]
    /\ UNCHANGED <<made, categories, request, wrote, raced>>

----------------------------------------------------------------------------
Proceed(r) ==
    \/ Check(r) \/ Write(r)
    \/ Pull(r) \/ Remove(r) \/ Commit(r) \/ Conflict(r) \/ Reap(r)

RefNext ==
    \/ \E r \in Requests : \/ AskCreate(r) \/ AskPatch(r) \/ AskDelete(r)
                           \/ Proceed(r) \/ Fail(r) \/ Lose(r)
    \/ \E c \in Categories : AddCategory(c)

\* The event loop and MongoDB go on, and refuse conflicting writes; an abandoned
\* transaction reaches its limit.  Nothing makes any other request fail, least of all
\* an edit that waits for a lock.
RefFairness == \A r \in Requests : WF_refVars(Proceed(r))

RefSpec == RefInit /\ [][RefNext]_refVars /\ RefFairness

----------------------------------------------------------------------------
(* Properties *)

\* An article refers to a category that is gone only if the category was being
\* deleted between the check of its existence and the write of the article.
DanglingOnlyByOverlap ==
    \A a \in made : \A c \in categories[a] \ Existing : c \in raced[a]

Edits(r, a) ==
    request[r].article = a /\ request[r].pc = "check" /\ request'[r].pc = "over"

\* A category leaves an article by an edit of this article, or together with the
\* category itself: a deletion that fails has pulled nothing.
PulledWithCategory ==
    [][\A a \in made : \A c \in categories[a] \ categories'[a] :
          status'[c] = "deleted" \/ \E r \in Requests : Edits(r, a)]_refVars

\* Every creation and edit of an article ends, whoever dies: the locks of
\* deletions, which have written all articles, do not hold it up for good, even
\* if nobody is left to commit or abort.
EditsEnd ==
    \A r \in Requests : request[r].pc = "check" ~> request[r].pc = "over"
============================================================================
