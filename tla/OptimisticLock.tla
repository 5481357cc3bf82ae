-------------------------- MODULE OptimisticLock --------------------------
(***************************************************************************)
(* Conditional requests on one article, category or user: EtagInterceptor  *)
(* reads the resource's etag, OptimisticLockInterceptor compares If-Match   *)
(* with it, CacheWithEtagInterceptor If-None-Match, and only then a pipe    *)
(* or the service reads the document again and the service writes it.      *)
(*                                                                         *)
(* The content of the document is its revision, which every write of       *)
(* content makes a new one.  version is the field that the middleware of   *)
(* the schema counts, updatedAt the time of the last write in milliseconds; *)
(* several writes may fall into the same one.                              *)
(***************************************************************************)
EXTENDS Integers

CONSTANTS
    Requests,
    MaxRevision,  \* bound on the writes of content
    MaxTouches    \* bound on the writes of other fields

ASSUME BoundsAssumption == MaxRevision \in Nat /\ MaxTouches \in Nat

VARIABLES
    kind,       \* which resource it is
    doc,        \* the document in MongoDB
    deleted,    \* it was deleted
    published,  \* an article's isPublished
    touches,    \* writes of other fields so far
    aliased,    \* a write of content fell into the millisecond of the write before
    copies,     \* etags and contents that clients have been sent
    request     \* request[r]: what r asks and how far its handler got

exists == <<deleted, published>>
vars == <<kind, doc, exists, touches, aliased, copies, request>>

Kinds == {"article", "category", "user"}
Times == 0..(MaxRevision + MaxTouches)
Docs == [revision : 0..MaxRevision, version : Times, updatedAt : Times]
Etags == [version : Times, updatedAt : Times]
Copies == [etag : Etags, revision : 0..MaxRevision]

\* copy: the one the precondition names; etag, base: the etag and the revision
\* read for the request; overtaken: content was written since the etag was read.
RequestStates ==
    [pc : {"idle", "load", "write", "done"}, verb : {"get", "put"},
     copy : Copies, etag : Etags, base : 0..MaxRevision, overtaken : BOOLEAN]

\* Mutant of EtagOf: the etag is made of the time alone.
EtagOfTime(d) == [version |-> 0, updatedAt |-> d.updatedAt]

\* generateEntityEtag.  The guard loads users without their version.
EtagOf(d) == [version |-> IF kind = "user" THEN 0 ELSE d.version,
              updatedAt |-> d.updatedAt]

NewDoc == [revision |-> 0, version |-> 0, updatedAt |-> 0]
NewRequest ==
    [pc |-> "idle", verb |-> "get", base |-> 0, overtaken |-> FALSE,
     etag |-> [version |-> 0, updatedAt |-> 0],
     copy |-> [etag |-> [version |-> 0, updatedAt |-> 0], revision |-> 0]]

TypeOK ==
    /\ kind \in Kinds
    /\ doc \in Docs
    /\ deleted \in BOOLEAN
    /\ published \in BOOLEAN
    /\ touches \in 0..MaxTouches
    /\ aliased \in BOOLEAN
    /\ copies \subseteq Copies
    /\ request \in [Requests -> RequestStates]

Init ==
    /\ kind \in Kinds
    /\ doc = NewDoc
    /\ deleted = FALSE
    /\ published = TRUE
    /\ touches = 0
    /\ aliased = FALSE
    /\ copies = {}
    /\ request = [r \in Requests |-> NewRequest]

Goto(r, p) == request' = [request EXCEPT ![r].pc = p]

----------------------------------------------------------------------------
(* The interceptors.  They read the etag and check the precondition without  *)
(* waiting in between; a resource that is gone has no etag, and its request  *)
(* goes on to a handler that finds nothing.  articleByIdPipe refuses what is *)
(* deleted, findById does not.                                              *)

HasEtag == ~deleted \/ kind = "article"
Present == ~deleted /\ published

Admit(r, v, c, p) ==
    request' = [request EXCEPT ![r] =
        [pc |-> p, verb |-> v, copy |-> c, etag |-> EtagOf(doc),
         base |-> doc.revision, overtaken |-> FALSE]]

\* GET of what the client has no copy of.
Fetch(r) ==
    /\ request[r].pc = "idle"
    /\ Admit(r, "get", request[r].copy, "load")
    /\ UNCHANGED <<kind, doc, exists, touches, aliased, copies>>

\* CacheWithEtag: 304 if If-None-Match is the etag.
Revalidate(r) ==
    /\ request[r].pc = "idle"
    /\ \E c \in copies :
          \/ HasEtag /\ c.etag = EtagOf(doc) /\ Admit(r, "get", c, "done")
          \/ ~(HasEtag /\ c.etag = EtagOf(doc)) /\ Admit(r, "get", c, "load")
    /\ UNCHANGED <<kind, doc, exists, touches, aliased, copies>>

\* Mutant of Edit: If-Match is required, but not compared.
EditUnchecked(r) ==
    /\ request[r].pc = "idle"
    /\ \E c \in copies :
          Admit(r, "put", c, IF kind = "article" THEN "load" ELSE "write")
    /\ UNCHANGED <<kind, doc, exists, touches, aliased, copies>>

\* OptimisticLock: 412 'Resource has been modified by another request'.  PUT of
\* a category and PATCH of a user read nothing more.
Edit(r) ==
    /\ request[r].pc = "idle"
    /\ \E c \in copies :
          \/ /\ HasEtag => c.etag = EtagOf(doc)
             /\ Admit(r, "put", c, IF kind = "article" THEN "load" ELSE "write")
          \/ /\ HasEtag /\ c.etag # EtagOf(doc)
             /\ Admit(r, "put", c, "done")
    /\ UNCHANGED <<kind, doc, exists, touches, aliased, copies>>

----------------------------------------------------------------------------
(* The handlers *)

\* articleByIdPipe, CategoryService.getOne: 404 if nothing is found.
NotFound(r) ==
    /\ request[r].pc = "load"
    /\ ~Present
    /\ Goto(r, "done")
    /\ UNCHANGED <<kind, doc, exists, touches, aliased, copies>>

\* The content a GET answers with; the user is the one the guard loaded.
Body(r) == IF kind = "user" THEN request[r].base ELSE doc.revision

\* The response carries the etag read at first, with the content read now.
Answer(r) ==
    /\ request[r].pc = "load" /\ request[r].verb = "get"
    /\ Present
    /\ copies' = copies \cup {[etag |-> request[r].etag, revision |-> Body(r)]}
    /\ Goto(r, "done")
    /\ UNCHANGED <<kind, doc, exists, touches, aliased>>

LoadArticle(r) ==
    /\ request[r].pc = "load" /\ request[r].verb = "put"
    /\ Present
    /\ request' = [request EXCEPT ![r].pc = "write", ![r].base = doc.revision]
    /\ UNCHANGED <<kind, doc, exists, touches, aliased, copies>>

\* The JSON patch or a category in it is refused.
Refuse(r) ==
    /\ request[r].pc = "write"
    /\ Goto(r, "done")
    /\ UNCHANGED <<kind, doc, exists, touches, aliased, copies>>

Now(t) == {t, t + 1}

\* updateOne({_id}, {$set: every field}) of an article, which may be unpublished
\* or published again by it, or of a user; replaceOne of a category, which puts
\* its version back to 0.  None has a condition on the version.
Save(r) ==
    /\ request[r].pc = "write"
    /\ HasEtag
    /\ doc.revision < MaxRevision
    /\ \E t \in Now(doc.updatedAt) :
          /\ doc' = [revision |-> doc.revision + 1, updatedAt |-> t,
                     version |-> IF kind = "category" THEN 0 ELSE doc.version + 1]
          /\ aliased' = (aliased \/ t = doc.updatedAt)
    /\ request' = [o \in Requests |->
                     IF o = r THEN [request[o] EXCEPT !.pc = "done"]
                     ELSE [request[o] EXCEPT !.overtaken = TRUE]]
    /\ published' \in IF kind = "article" THEN BOOLEAN ELSE {published}
    /\ UNCHANGED <<kind, deleted, touches, copies>>

\* A write that matches nothing: the category is gone.
SaveNothing(r) ==
    /\ request[r].pc = "write"
    /\ ~HasEtag
    /\ Goto(r, "done")
    /\ UNCHANGED <<kind, doc, exists, touches, aliased, copies>>

----------------------------------------------------------------------------
(* Other writes *)

\* Mutant of Touched: the middleware counts the version twice.
TouchedTwice(t) ==
    [revision |-> doc.revision, version |-> doc.version + 2, updatedAt |-> t]

Touched(t) == [revision |-> doc.revision, version |-> doc.version + 1, updatedAt |-> t]

\* A like or a comment counts on the article, the deletion of a category pulls
\* it from every article, the avatar job writes the user.
Touch ==
    /\ kind # "category"
    /\ touches < MaxTouches
    /\ touches' = touches + 1
    /\ \E t \in Now(doc.updatedAt) : doc' = Touched(t)
    /\ UNCHANGED <<kind, exists, aliased, copies, request>>

\* deleteOne of an article sets deletedAt, that of a category removes it.
Delete ==
    /\ kind # "user"
    /\ Present
    /\ touches < MaxTouches
    /\ deleted' = TRUE
    /\ touches' = touches + 1
    /\ \/ kind = "article" /\ \E t \in Now(doc.updatedAt) : doc' = Touched(t)
       \/ kind = "category" /\ UNCHANGED doc
    /\ UNCHANGED <<kind, published, aliased, copies, request>>

----------------------------------------------------------------------------
Next ==
    \/ \E r \in Requests :
          \/ Fetch(r) \/ Revalidate(r) \/ Edit(r) \/ NotFound(r) \/ Answer(r)
          \/ LoadArticle(r) \/ Refuse(r) \/ Save(r) \/ SaveNothing(r)
    \/ Touch \/ Delete

Spec == Init /\ [][Next]_vars

----------------------------------------------------------------------------
(* Properties *)

\* An etag names one content: by its version for articles, by its time for what
\* is not written twice in a millisecond.
Precise == kind = "article" \/ ~aliased

\* A copy whose etag is the current one has the current content, so a 304 and a
\* precondition that holds tell the truth: whatever was written while the copy
\* was made, its content is not older than its etag.
CopiesAreExact ==
    Precise => \A c \in copies : c.etag = EtagOf(doc) => c.revision = doc.revision

Saves(r) == request[r].pc = "write" /\ doc'.revision # doc.revision
              /\ request'[r].pc = "done"

\* What the new content is made from: a patch is applied to what the handler
\* read, a category is replaced by what the client makes of its copy.
Basis(r) == IF kind = "category" THEN request[r].copy.revision ELSE request[r].base

\* A write overwrites content its client has not seen only if that content was
\* written while the request was handled.
LostOnlyToOverlap ==
    [][\A r \in Requests :
          Saves(r) /\ Precise /\ ~request[r].overtaken
             => request[r].copy.revision = doc.revision /\ Basis(r) = doc.revision]_vars

\* 412 'Resource has been modified by another request' keeps modifications from
\* being overwritten.
NoLostUpdate ==
    [][\A r \in Requests : Saves(r) /\ Precise => Basis(r) = doc.revision]_vars
============================================================================
