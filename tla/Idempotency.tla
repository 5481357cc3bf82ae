---------------------------- MODULE Idempotency ----------------------------
(***************************************************************************)
(* Idempotent creation (articles, categories) of the API: the Redis lock   *)
(* and its heartbeat taken by IdempotencyInterceptor, the record kept by    *)
(* IdempotencyService in MongoDB, and IdempotentService.executeIdempotent,  *)
(* which runs the business logic and the record's update in one MongoDB     *)
(* transaction.                                                            *)
(*                                                                         *)
(* A request r belongs to a key (the header), a scope (the user and the     *)
(* operation: the record's unique index is on key and scope, the lock's    *)
(* name on the key alone), a body (whose title or name is unique in the     *)
(* collection it is saved to) and the server that handles it.  Time is     *)
(* counted in whole days, the unit of a record's lifetime; shorter delays   *)
(* (lock TTL, request timeout, TTL monitor) are nondeterministic.           *)
(***************************************************************************)
EXTENDS Integers, FiniteSets

CONSTANTS
    Requests,    \* requests clients may send (a retry is another request)
    Keys,        \* values of the idempotency-key header
    Scopes,      \* pairs of a user and an operation
    Bodies,      \* payloads, identified by their unique title or name
    Servers,     \* processes of the API
    Nobody,      \* not a request
    Faults,      \* which faults of the environment happen
    NewTitles,   \* bound: the titles of Bodies that documents are renamed to
    MaxDay,      \* bound on the clock
    MaxRevision, \* bound on the changes of a user document
    MaxCrashes   \* bound on server crashes

\* timeout: a handler outlives requestTimeoutMs. stall: the heartbeat does not
\* renew the lock in time. redis: a DEL of the lock fails. db: MongoDB aborts a
\* transaction (write conflict, lost connection). commit: commitTransaction
\* throws, with or without having committed.
AllFaults == {"timeout", "stall", "redis", "db", "commit"}

ASSUME FaultsAssumption == Faults \subseteq AllFaults
ASSUME TitlesAssumption == NewTitles \subseteq Bodies
ASSUME BoundsAssumption ==
    MaxDay \in Nat /\ MaxRevision \in Nat /\ MaxCrashes \in Nat
ASSUME NobodyAssumption == Nobody \notin Requests

VARIABLES
    call,     \* call[r]: what request r asks, and of which server
    revision, \* revision[s]: version of the user document of scope s
    day,      \* the clock
    boot,     \* boot[p]: the day process p loaded its modules
    crashes,  \* crashes so far
    title,    \* title[r]: which of Bodies gives r's document, once committed, its
              \* title or name; none of them ({}) after it is renamed or deleted
    lock,     \* Redis: the request whose token the key's lock holds
    beat,     \* beat[r]: r's renewal interval is running
    record,   \* MongoDB: the committed idempotency record of a key and scope
    effects,  \* requests whose business document is committed
    pc,       \* pc[r]: the next step of r's handler
    seen,     \* seen[r]: user revision in r's fingerprint
    doc,      \* doc[r]: creator of the record r works on
    replay,   \* replay[r]: request whose stored response r answers with
    txn,      \* txn[r]: state of r's MongoDB transaction
    staged,   \* staged[r]: status r's transaction gave the record
    reply     \* reply[r]: what the client of r was answered

reqVars == <<pc, seen, doc, replay, txn, staged, reply>>
envVars == <<call, revision, day, boot, crashes, title>>
vars == <<envVars, lock, beat, record, effects, reqVars>>

Ids == Keys \X Scopes
Statuses == {"in_progress", "completed", "failed"}
NoRecord == [creator |-> Nobody]
Records == [creator : Requests, status : Statuses, by : Requests,
            expiresAt : 0..(MaxDay + 1)]
Calls == [key : Keys, scope : Scopes, body : Bodies, server : Servers]
\* late: the SET of the lock is not answered when the request times out.
\* orphan: it was answered after that; the handler will never run.
Steps == {"idle", "late", "orphan", "locked", "replay", "create", "reopen", "run",
          "complete", "commit", "catch", "abort", "release", "done", "dead"}
TxnStates == {"none", "active", "behind", "aborted", "committed", "ended"}
Replies == {"none", "created", "replayed", "busy", "inprogress", "mismatch",
            "failed", "timeout"}

Id(r) == <<call[r].key, call[r].scope>>
Fingerprint(r) == <<call[r].scope, call[r].body, seen[r]>>
Answer(r, a) == reply' = [reply EXCEPT ![r] = IF @ = "none" THEN a ELSE @]

\* The response, or the error, ends the observable: finalize stops the heartbeat.
Finish(r, a) == /\ Answer(r, a)
                /\ beat' = [beat EXCEPT ![r] = FALSE]
                /\ pc' = [pc EXCEPT ![r] = "done"]
Goto(r, s) == pc' = [pc EXCEPT ![r] = s]

TypeOK ==
    /\ call \in [Requests -> Calls]
    /\ revision \in [Scopes -> 0..MaxRevision]
    /\ day \in 0..MaxDay
    /\ boot \in [Servers -> 0..MaxDay]
    /\ crashes \in 0..MaxCrashes
    /\ title \in [Requests -> SUBSET Bodies]
    /\ lock \in [Keys -> Requests \cup {Nobody}]
    /\ beat \in [Requests -> BOOLEAN]
    /\ record \in [Ids -> Records \cup {NoRecord}]
    /\ effects \in SUBSET Requests
    /\ pc \in [Requests -> Steps]
    /\ seen \in [Requests -> 0..MaxRevision]
    /\ doc \in [Requests -> Requests \cup {Nobody}]
    /\ replay \in [Requests -> Requests \cup {Nobody}]
    /\ txn \in [Requests -> TxnStates]
    /\ staged \in [Requests -> Statuses \cup {"none"}]
    /\ reply \in [Requests -> Replies]

Init ==
    /\ call \in [Requests -> Calls]
    /\ revision = [s \in Scopes |-> 0]
    /\ day = 0
    /\ boot = [p \in Servers |-> 0]
    /\ crashes = 0
    /\ title = [r \in Requests |-> {call[r].body}]
    /\ lock = [k \in Keys |-> Nobody]
    /\ beat = [r \in Requests |-> FALSE]
    /\ record = [i \in Ids |-> NoRecord]
    /\ effects = {}
    /\ pc = [r \in Requests |-> "idle"]
    /\ seen = [r \in Requests |-> 0]
    /\ doc = [r \in Requests |-> Nobody]
    /\ replay = [r \in Requests |-> Nobody]
    /\ txn = [r \in Requests |-> "none"]
    /\ staged = [r \in Requests |-> "none"]
    /\ reply = [r \in Requests |-> "none"]

----------------------------------------------------------------------------
(* The MongoDB transaction of a request. *)

InTxn(r) == txn[r] \in {"active", "behind"}

\* Another open transaction has written the record of identity i.
WrittenByOther(r, i) ==
    \E o \in Requests \ {r} : InTxn(o) /\ staged[o] # "none" /\ Id(o) = i

\* A committed write of record i leaves the snapshot of every other open
\* transaction on i behind: its next write of the record conflicts.
Overtake(r, i, t) ==
    [o \in Requests |-> IF o # r /\ t[o] = "active" /\ Id(o) = i
                          THEN "behind" ELSE t[o]]

\* r's open transaction has saved its document.
Saved(r) == InTxn(r) /\ pc[r] \in {"complete", "commit"}

\* The unique title or name is taken: by a committed document that still, or by
\* now, has it, or by one that an open transaction has saved.
NameTaken(b) ==
    \E o \in Requests :
        \/ o \in effects /\ title[o] = {b}
        \/ Saved(o) /\ call[o].body = b

----------------------------------------------------------------------------
(* IdempotencyInterceptor.intercept *)

\* SET key token EX 30 NX succeeds; the fingerprint is taken from the request
\* with its user document, and the heartbeat starts.
Lock(r) ==
    /\ pc[r] = "idle"
    /\ lock[call[r].key] = Nobody
    /\ lock' = [lock EXCEPT ![call[r].key] = r]
    /\ beat' = [beat EXCEPT ![r] = TRUE]
    /\ seen' = [seen EXCEPT ![r] = revision[call[r].scope]]
    /\ Goto(r, "locked")
    /\ UNCHANGED <<envVars, record, effects, doc, replay, txn, staged, reply>>

\* The lock is held: 409 'Another request with same idempotency key ...'.
Busy(r) ==
    /\ pc[r] = "idle"
    /\ lock[call[r].key] # Nobody
    /\ Finish(r, "busy")
    /\ UNCHANGED <<envVars, lock, record, effects, seen, doc, replay, txn, staged>>

\* The parameter and body pipes run behind the interceptor and reject r.
Invalid(r) ==
    /\ pc[r] = "locked"
    /\ Finish(r, "failed")
    /\ UNCHANGED <<envVars, lock, record, effects, seen, doc, replay, txn, staged>>

\* timeout() of ResponseInterceptor unsubscribes: the client gets 408 and
\* finalize stops the heartbeat, but the promise of the handler goes on, or that
\* of intercept, if Redis has not answered the SET.
Timeout(r) ==
    /\ "timeout" \in Faults
    /\ pc[r] \notin {"done", "dead"}
    /\ reply[r] = "none"
    /\ Answer(r, "timeout")
    /\ beat' = [beat EXCEPT ![r] = FALSE]
    /\ pc' = IF pc[r] = "idle" THEN [pc EXCEPT ![r] = "late"] ELSE pc
    /\ UNCHANGED <<envVars, lock, record, effects, seen, doc, replay, txn, staged>>

\* The SET is answered after the 408.  Nobody subscribes to what intercept
\* returns: the handler does not run, and no finalize stops the heartbeat of a
\* lock that was free.
LateLock(r) ==
    /\ pc[r] = "late"
    /\ \/ /\ lock[call[r].key] = Nobody
          /\ lock' = [lock EXCEPT ![call[r].key] = r]
          /\ beat' = [beat EXCEPT ![r] = TRUE]
          /\ Goto(r, "orphan")
       \/ /\ lock[call[r].key] # Nobody
          /\ Goto(r, "done")
          /\ UNCHANGED <<lock, beat>>
    /\ UNCHANGED <<envVars, record, effects, seen, doc, replay, txn, staged, reply>>

----------------------------------------------------------------------------
(* IdempotencyService.process: findOne, validateFingerPrint, resolveStatus *)

Found(r) == record[Id(r)] # NoRecord /\ record[Id(r)].expiresAt > day
\* Mutant of SameFingerprint: validateFingerPrint is not called.
AnyFingerprint(r) == Fingerprint(r) = Fingerprint(r)
SameFingerprint(r) == Fingerprint(r) = Fingerprint(record[Id(r)].creator)

Find(r) ==
    LET rec == record[Id(r)] IN
    /\ pc[r] = "locked"
    /\ \/ /\ ~Found(r)
          /\ Goto(r, "create")
          /\ UNCHANGED <<beat, doc, replay, reply>>
       \/ /\ Found(r) /\ ~SameFingerprint(r)
          /\ Finish(r, "mismatch")
          /\ UNCHANGED <<doc, replay>>
       \/ /\ Found(r) /\ SameFingerprint(r) /\ rec.status = "completed"
          /\ replay' = [replay EXCEPT ![r] = rec.by]
          /\ Goto(r, "replay")
          /\ UNCHANGED <<beat, doc, reply>>
       \/ /\ Found(r) /\ SameFingerprint(r) /\ rec.status = "in_progress"
          /\ Finish(r, "inprogress")
          /\ UNCHANGED <<doc, replay>>
       \/ /\ Found(r) /\ SameFingerprint(r) /\ rec.status = "failed"
          /\ doc' = [doc EXCEPT ![r] = rec.creator]
          /\ Goto(r, "reopen")
          /\ UNCHANGED <<beat, replay, reply>>
    /\ UNCHANGED <<envVars, lock, record, effects, seen, txn, staged>>

\* Mutant of WriteStatus: the update upserts a record nobody created.
WriteStatusUpserts(r, s) ==
    /\ ~WrittenByOther(r, Id(r))
    /\ record' = [record EXCEPT ![Id(r)] =
                    [creator |-> Nobody, status |-> s, by |-> r, expiresAt |-> day]]
    /\ txn' = Overtake(r, Id(r), txn)

WithStatus(rec, s) == [creator |-> rec.creator, status |-> s, by |-> rec.by,
                       expiresAt |-> rec.expiresAt]

\* Writes status s to r's record, if it still exists, outside a transaction;
\* such a write waits for a transaction that has written the record.
WriteStatus(r, s) ==
    LET i == Id(r) IN
    /\ ~WrittenByOther(r, i)
    /\ IF record[i] # NoRecord /\ record[i].creator = doc[r]
         THEN /\ record' = [record EXCEPT ![i] = WithStatus(@, s)]
              /\ txn' = Overtake(r, i, txn)
         ELSE UNCHANGED <<record, txn>>

\* handleFailedStatus: no session is passed to process().
Reopen(r) ==
    /\ pc[r] = "reopen"
    /\ WriteStatus(r, "in_progress")
    /\ Goto(r, "run")
    /\ UNCHANGED <<envVars, lock, beat, effects, seen, doc, replay, staged, reply>>

----------------------------------------------------------------------------
(* IdempotentService.executeIdempotent *)

\* The stored response is sent once the lock is deleted, whoever holds it.
Replay(r) ==
    /\ pc[r] = "replay"
    /\ \/ /\ lock' = [lock EXCEPT ![call[r].key] = Nobody]
          /\ Finish(r, "replayed")
       \/ /\ "redis" \in Faults
          /\ Finish(r, "failed")
          /\ UNCHANGED lock
    /\ UNCHANGED <<envVars, record, effects, seen, doc, replay, txn, staged>>

\* Mutant of Create: the unique index of the records is missing.
CreateUnindexed(r) ==
    /\ pc[r] = "create"
    /\ doc' = [doc EXCEPT ![r] = r]
    /\ txn' = [txn EXCEPT ![r] = "active"]
    /\ staged' = [staged EXCEPT ![r] = "in_progress"]
    /\ Goto(r, "run")
    /\ UNCHANGED <<envVars, lock, beat, record, effects, seen, replay, reply>>

\* The record's insert opens the transaction.  A committed record of the same
\* identity, even an expired one, is a duplicate key; one inserted by another
\* open transaction a write conflict.  Both are outside the try block: the
\* filter answers and the lock stays.
Create(r) ==
    /\ pc[r] = "create"
    /\ \/ /\ record[Id(r)] = NoRecord /\ ~WrittenByOther(r, Id(r))
          /\ doc' = [doc EXCEPT ![r] = r]
          /\ txn' = [txn EXCEPT ![r] = "active"]
          /\ staged' = [staged EXCEPT ![r] = "in_progress"]
          /\ Goto(r, "run")
          /\ UNCHANGED <<beat, reply>>
       \/ /\ \/ record[Id(r)] # NoRecord
             \/ WrittenByOther(r, Id(r))
             \/ "db" \in Faults
          /\ txn' = [txn EXCEPT ![r] = "aborted"]
          /\ Finish(r, "failed")
          /\ UNCHANGED <<doc, staged>>
    /\ UNCHANGED <<envVars, lock, record, effects, seen, replay>>

Discard(r) == /\ txn' = [txn EXCEPT ![r] = "aborted"]
              /\ staged' = [staged EXCEPT ![r] = "none"]

\* Mutant of Run: the document is saved without the session.
RunOutsideTxn(r) ==
    /\ pc[r] = "run"
    /\ \/ /\ ~NameTaken(call[r].body)
          /\ effects' = effects \cup {r}
          /\ Goto(r, "complete")
       \/ /\ Goto(r, "catch")
          /\ UNCHANGED effects
    /\ UNCHANGED <<envVars, lock, beat, record, seen, doc, replay, txn, staged, reply>>

\* The business logic saves its document in the transaction, fails before
\* saving it (a category is missing, the name exists), or its save fails on
\* the unique index or in the database, which aborts the transaction.
Run(r) ==
    /\ pc[r] = "run"
    /\ \/ /\ ~NameTaken(call[r].body)
          /\ txn' = [txn EXCEPT ![r] = IF @ = "none" THEN "active" ELSE @]
          /\ Goto(r, "complete")
          /\ UNCHANGED staged
       \/ /\ Goto(r, "catch")
          /\ UNCHANGED <<txn, staged>>
       \/ /\ NameTaken(call[r].body) \/ "db" \in Faults
          /\ Discard(r)
          /\ Goto(r, "catch")
    /\ UNCHANGED <<envVars, lock, beat, record, effects, seen, doc, replay, reply>>

\* The record r works on is the one r's transaction inserted, or still there.
Matches(r) == \/ doc[r] = r
              \/ record[Id(r)] # NoRecord /\ record[Id(r)].creator = doc[r]

\* Mutant of Complete: the update to COMPLETED is left out.
CompleteSkipped(r) ==
    /\ pc[r] = "complete"
    /\ Goto(r, "commit")
    /\ UNCHANGED <<envVars, lock, beat, record, effects, seen, doc, replay, txn,
                   staged, reply>>

\* updateOne({status: COMPLETED, ...}, {session})
Complete(r) ==
    LET conflict == /\ doc[r] # r
                    /\ \/ txn[r] = "behind"
                       \/ Matches(r) /\ WrittenByOther(r, Id(r))
    IN
    /\ pc[r] = "complete"
    /\ \/ /\ ~conflict
          /\ staged' = IF Matches(r) THEN [staged EXCEPT ![r] = "completed"] ELSE staged
          /\ Goto(r, "commit")
          /\ UNCHANGED txn
       \/ /\ conflict \/ "db" \in Faults
          /\ Discard(r)
          /\ Goto(r, "catch")
    /\ UNCHANGED <<envVars, lock, beat, record, effects, seen, doc, replay, reply>>

\* Next24Hours is computed when the module is loaded, not when r is saved.
ExpiryFrom(r) ==
    IF doc[r] = r THEN boot[call[r].server] + 1 ELSE record[Id(r)].expiresAt

\* Mutant of Apply: the record is written without the session, and lost.
ApplyDocumentOnly(r) == effects' = effects \cup {r} /\ UNCHANGED record

\* What the commit makes visible: the business document and the record.
Apply(r) ==
    /\ effects' = effects \cup {r}
    /\ record' = IF staged[r] = "none" THEN record
                 ELSE [record EXCEPT ![Id(r)] =
                         [creator |-> doc[r], status |-> staged[r], by |-> r,
                          expiresAt |-> ExpiryFrom(r)]]

\* commitTransaction succeeds, or throws, with the transaction committed or not.
Commit(r) ==
    /\ pc[r] = "commit"
    /\ \/ /\ Apply(r)
          /\ txn' = [Overtake(r, Id(r), txn) EXCEPT ![r] = "committed"]
          /\ Goto(r, "release")
       \/ /\ "commit" \in Faults
          /\ Apply(r)
          /\ txn' = [Overtake(r, Id(r), txn) EXCEPT ![r] = "ended"]
          /\ Goto(r, "catch")
       \/ /\ "commit" \in Faults
          /\ txn' = [txn EXCEPT ![r] = "ended"]
          /\ Goto(r, "catch")
          /\ UNCHANGED <<effects, record>>
    /\ staged' = [staged EXCEPT ![r] = "none"]
    /\ UNCHANGED <<envVars, lock, beat, seen, doc, replay, reply>>

\* Mutant of Catch: nothing follows the error of an update MongoDB refused.
CatchHangs(r) ==
    /\ pc[r] = "catch"
    /\ txn[r] \in {"none", "active", "behind"}
    /\ staged' = [staged EXCEPT ![r] = "failed"]
    /\ Goto(r, "abort")
    /\ UNCHANGED <<envVars, lock, beat, record, effects, seen, doc, replay, txn, reply>>

\* updateOne({status: FAILED}, {session}): part of the transaction that is
\* about to abort; after a failed commit the session has no transaction, so
\* the write stands; on a transaction MongoDB aborted it throws.
Catch(r) ==
    /\ pc[r] = "catch"
    /\ \/ /\ txn[r] \in {"none", "active", "behind"}
          /\ staged' = IF staged[r] # "none" THEN [staged EXCEPT ![r] = "failed"] ELSE staged
          /\ Goto(r, "abort")
          /\ UNCHANGED <<record, txn>>
       \/ /\ txn[r] = "ended"
          /\ WriteStatus(r, "failed")
          /\ Goto(r, "release")
          /\ UNCHANGED staged
       \/ /\ txn[r] = "aborted"
          /\ Goto(r, "release")
          /\ UNCHANGED <<record, txn, staged>>
    /\ UNCHANGED <<envVars, lock, beat, effects, seen, doc, replay, reply>>

Abort(r) ==
    /\ pc[r] = "abort"
    /\ Discard(r)
    /\ Goto(r, "release")
    /\ UNCHANGED <<envVars, lock, beat, record, effects, seen, doc, replay, reply>>

\* Mutant of Release: the error of commitTransaction is swallowed.
ReleaseSwallowsError(r) ==
    /\ pc[r] = "release"
    /\ lock' = [lock EXCEPT ![call[r].key] = Nobody]
    /\ Finish(r, IF txn[r] \in {"committed", "ended"} THEN "created" ELSE "failed")
    /\ UNCHANGED <<envVars, record, effects, seen, doc, replay, txn, staged>>

\* finally: DEL of the lock's key, whoever holds it, then the answer.
Release(r) ==
    /\ pc[r] = "release"
    /\ \/ /\ lock' = [lock EXCEPT ![call[r].key] = Nobody]
          /\ Finish(r, IF txn[r] = "committed" THEN "created" ELSE "failed")
       \/ /\ "redis" \in Faults
          /\ Finish(r, "failed")
          /\ UNCHANGED lock
    /\ UNCHANGED <<envVars, record, effects, seen, doc, replay, txn, staged>>

----------------------------------------------------------------------------
(* The environment *)

\* Mutant of LockExpires: the heartbeat does not renew the lock.
LockExpiresUnrenewed(k) ==
    /\ lock[k] # Nobody
    /\ lock' = [lock EXCEPT ![k] = Nobody]
    /\ UNCHANGED <<envVars, beat, record, effects, reqVars>>

\* Mutant of LockExpires: SET without EX, only a new owner ends the lock.
LockWithoutTtl(k) ==
    /\ lock[k] # Nobody
    /\ \E r \in Requests \ {lock[k]} : pc[r] = "idle" /\ call[r].key = k
    /\ lock' = [lock EXCEPT ![k] = Nobody]
    /\ UNCHANGED <<envVars, beat, record, effects, reqVars>>

\* The lock's TTL passes: nobody renews it, or the heartbeat stalled.
LockExpires(k) ==
    /\ lock[k] # Nobody
    /\ ~beat[lock[k]] \/ "stall" \in Faults
    /\ lock' = [lock EXCEPT ![k] = Nobody]
    /\ UNCHANGED <<envVars, beat, record, effects, reqVars>>

NextDay ==
    /\ day < MaxDay
    /\ day' = day + 1
    /\ UNCHANGED <<call, revision, boot, crashes, title, lock, beat, record, effects,
                   reqVars>>

\* MongoDB's TTL monitor removes an expired record.
TtlDelete(i) ==
    /\ record[i] # NoRecord
    /\ record[i].expiresAt <= day
    /\ ~WrittenByOther(Nobody, i)
    /\ record' = [record EXCEPT ![i] = NoRecord]
    /\ txn' = Overtake(Nobody, i, txn)
    /\ UNCHANGED <<envVars, lock, beat, effects, pc, seen, doc, replay, staged, reply>>

\* PATCH of the current user: the user document in later fingerprints differs.  An
\* edit that no fingerprint will show is left out.
EditProfile(s) ==
    /\ \E r \in Requests : call[r].scope = s /\ pc[r] = "idle"
    /\ revision[s] < MaxRevision
    /\ revision' = [revision EXCEPT ![s] = @ + 1]
    /\ UNCHANGED <<call, day, boot, crashes, title, lock, beat, record, effects, reqVars>>

\* PATCH of an article, PUT of a category: the document of r gets another title
\* or name, {b} if it is one that a request asks for; or DELETE of a category.
Retitle(r, t) ==
    /\ r \in effects
    /\ title[r] # t
    /\ \A b, c \in t : b = c /\ ~NameTaken(b)
    /\ title' = [title EXCEPT ![r] = t]
    /\ UNCHANGED <<call, revision, day, boot, crashes, lock, beat, record, effects, reqVars>>

\* A process dies and restarts: its handlers and heartbeats are gone.
Crash(p) ==
    LET hit == {r \in Requests : call[r].server = p /\ pc[r] \notin {"idle", "done"}} IN
    /\ crashes < MaxCrashes
    /\ crashes' = crashes + 1
    /\ boot' = [boot EXCEPT ![p] = day]
    /\ pc' = [r \in Requests |-> IF r \in hit THEN "dead" ELSE pc[r]]
    /\ beat' = [r \in Requests |-> beat[r] /\ r \notin hit]
    /\ UNCHANGED <<call, revision, day, title, lock, record, effects, seen, doc, replay,
                   txn, staged, reply>>

\* MongoDB aborts the transaction a dead process left open.
Reap(r) ==
    /\ pc[r] = "dead"
    /\ InTxn(r)
    /\ Discard(r)
    /\ UNCHANGED <<envVars, lock, beat, record, effects, pc, seen, doc, replay, reply>>

----------------------------------------------------------------------------
\* The steps of r's handler, once it holds the lock.
Handle(r) == \/ Find(r) \/ Replay(r) \/ Reopen(r) \/ Create(r) \/ Run(r)
             \/ Complete(r) \/ Commit(r) \/ Catch(r) \/ Abort(r) \/ Release(r)

Next ==
    \/ \E r \in Requests : \/ Lock(r) \/ Busy(r) \/ Invalid(r) \/ Timeout(r)
                           \/ LateLock(r) \/ Handle(r) \/ Reap(r)
                           \/ \E t \in SUBSET NewTitles : Retitle(r, t)
    \/ \E k \in Keys : LockExpires(k)
    \/ \E i \in Ids : TtlDelete(i)
    \/ \E s \in Scopes : EditProfile(s)
    \/ \E p \in Servers : Crash(p)
    \/ NextDay

\* The event loop and MongoDB make progress, and a lock has a TTL.  Nothing
\* makes clients send requests, users edit profiles or days pass.
Fairness ==
    /\ \A r \in Requests : WF_vars(Handle(r)) /\ WF_vars(Reap(r))
    /\ \A k \in Keys : WF_vars(LockExpires(k))

Spec == Init /\ [][Next]_vars
FairSpec == Spec /\ Fairness

----------------------------------------------------------------------------
(* Properties *)

\* A retry may repeat what o did: o committed, but commitTransaction threw, so that
\* its record was marked FAILED; and its document lost its title or name since.
MayBeRepeated(o) == txn[o] = "ended" /\ title[o] # {call[o].body}

\* However many requests, retries, faults and lost locks: a document is committed
\* at most once for as long as the record of its key, user and operation lasts,
\* unless the commit of the same payload was reported as an error and its document
\* has been renamed or deleted: nothing but its unique title stops a retry then.
AtMostOnce ==
    [][\A r \in effects' \ effects :
          \/ record[Id(r)] = NoRecord
          \/ \E o \in effects : /\ Id(o) = Id(r) /\ call[o].body = call[r].body
                                /\ MayBeRepeated(o)]_vars

\* A replayed response is the response of a request of the same user,
\* operation, key and payload whose document is committed.
ReplayIsFaithful ==
    \A r \in Requests : reply[r] = "replayed" =>
        /\ replay[r] \in effects
        /\ Id(replay[r]) = Id(r)
        /\ call[replay[r]].body = call[r].body

\* A 201 is never answered to a request whose document is not committed.
SuccessIsDurable ==
    \A r \in Requests : reply[r] = "created" => r \in effects

\* The steps between looking the record up and deleting the lock.
Executing(r) == pc[r] \in {"replay", "create", "reopen", "run", "complete",
                           "commit", "catch", "abort", "release"}

\* Every request with this key has been answered by its handler, or waits for it.
InTime(k) == \A r \in Requests : call[r].key = k => reply[r] # "timeout"

\* Unless the heartbeat stalls, in spite of crashes and of DELs that ignore the
\* lock's owner: requests of one key execute one at a time until one of them
\* outlives its timeout.
MutualExclusion ==
    \A a, b \in Requests :
        Executing(a) /\ Executing(b) /\ call[a].key = call[b].key
        => a = b \/ ~InTime(call[a].key)

\* Unless a commit's outcome is unknown, only finished work is ever visible in
\* the records, and only with its document: the branches of resolveStatus for
\* IN_PROGRESS and FAILED are not reached.
RecordMeansEffect ==
    \A i \in Ids : record[i] # NoRecord =>
        /\ record[i].status = "completed"
        /\ record[i].by \in effects
        /\ Id(record[i].by) = i

\* If Redis and the commit do not fail, an error answered to a client that
\* waited means that nothing was saved for its request.
FailureMeansNothing ==
    \A r \in Requests :
        reply[r] \in {"failed", "mismatch", "busy", "inprogress"} => r \notin effects

\* Every request that takes the lock is answered, unless its process dies.
Answered == \A r \in Requests : pc[r] = "locked" ~> pc[r] \in {"done", "dead"}

\* No path through the handler, error, timeout or crash leaves a key locked for
\* good, but one: a 408 that comes before the lock is taken (LateLock).
LockIsFreed ==
    \A k \in Keys, r \in Requests :
        lock[k] = r ~> lock[k] # r \/ pc[r] = "orphan"

\* 422 'same key used with different payload': the payloads do differ.
MismatchMeansOtherPayload ==
    \A r \in Requests : reply[r] = "mismatch" =>
        \E o \in effects : Id(o) = Id(r) /\ call[o].body # call[r].body

\* 409 'Another request with same idempotency key is in progress': one is.
BusyMeansInProgress ==
    [][\A r \in Requests : reply'[r] = "busy" /\ reply[r] # "busy" =>
        \E o \in Requests \ {r} : call[o].key = call[r].key
                                  /\ pc[o] \notin {"idle", "done", "dead"}]_vars

----------------------------------------------------------------------------
(* Idempotency implements IdempotentApi when commits do not fail: the memory *)
(* of a slot is its completed record's request.                            *)
Memory == [i \in Ids |-> IF record[i] = NoRecord THEN Nobody ELSE record[i].by]
Asked == [r \in Requests |-> [slot |-> Id(r), payload |-> call[r].body]]
Told == [r \in Requests |->
           CASE reply[r] \in {"none", "created", "replayed"} -> reply[r]
             [] OTHER -> "rejected"]

Api == INSTANCE IdempotentApi
         WITH Slots <- Ids, Payloads <- Bodies, ask <- Asked,
              memory <- Memory, executed <- effects, answer <- Told
Refinement == Api!Spec
============================================================================
