------------------------- MODULE IdempotencyProofs -------------------------
(***************************************************************************)
(* Theorems about Idempotency, for any number of requests, keys, users,    *)
(* payloads and servers and any faults.                                    *)
(***************************************************************************)
EXTENDS Idempotency, TLAPS

USE DEF AllFaults

\* r inserted the record it works on, in a transaction that is still open.
Inserted(r) == doc[r] = r /\ InTxn(r) /\ staged[r] # "none"

\* The steps before a transaction is used.
Early == {"idle", "late", "orphan", "locked", "create", "replay", "reopen"}

\* Who runs the business logic either inserted the record, or was let in by one
\* that another request created; what is committed stays so.
RunInv == \A r \in Requests :
    /\ pc[r] \in Early => txn[r] = "none" /\ staged[r] = "none"
    /\ pc[r] = "reopen" => doc[r] \in Requests \ {r}
    /\ pc[r] \in {"run", "complete", "commit"} =>
          /\ doc[r] \in Requests
          /\ doc[r] = r => Inserted(r)
    /\ pc[r] = "run" /\ doc[r] # r => txn[r] = "none"
    /\ pc[r] \in {"run", "complete"} /\ doc[r] # r => staged[r] = "none"
    /\ pc[r] \in {"complete", "commit"} => InTxn(r)
    /\ pc[r] = "commit" => staged[r] \in {"none", "completed"}
    /\ pc[r] = "abort" => txn[r] \notin {"committed", "ended"}
    /\ txn[r] = "ended" => doc[r] \in Requests
    /\ r \in effects => txn[r] \in {"committed", "ended"}

\* Open transactions write different records: their own, which do not exist yet,
\* or those that let their requests in.
InsertInv ==
    /\ \A r \in Requests : staged[r] # "none" =>
          /\ InTxn(r)
          /\ IF doc[r] = r THEN record[Id(r)] = NoRecord
             ELSE record[Id(r)] # NoRecord /\ record[Id(r)].creator = doc[r]
    /\ \A a, b \in Requests : staged[a] # "none" /\ staged[b] # "none" /\ a # b
                                => Id(a) # Id(b)

\* o is committed, for the identity and payload of r.
Twin(r, o) == o \in effects /\ Id(o) = Id(r) /\ call[o].body = call[r].body

\* Another request's record lets in only those who repeat it, after a commit that
\* was reported as an error.
DocInv == \A r \in Requests : doc[r] \in Requests \ {r} =>
    Twin(r, doc[r]) /\ txn[doc[r]] = "ended"

\* A record exists only with the documents of the request that created it and of
\* the one that completed it; it is reopened only after such a commit.
RecordInv == \A i \in Ids : record[i] # NoRecord =>
    /\ record[i].creator \in effects /\ Id(record[i].creator) = i
    /\ Twin(record[i].creator, record[i].by)
    /\ record[i].status # "completed" => txn[record[i].creator] = "ended"

\* What is saved in open transactions has titles that differ from each other and
\* from those of the committed documents.
UniqueInv ==
    /\ \A r \in Requests \ effects : title[r] = {call[r].body}
    /\ \A r \in Requests, o \in effects : Saved(r) => title[o] # {call[r].body}
    /\ \A a, b \in Requests : Saved(a) /\ Saved(b) /\ a # b
                                => call[a].body # call[b].body

ReplayInv == \A r \in Requests :
    pc[r] = "replay" \/ reply[r] = "replayed" => Twin(r, replay[r])

SuccessInv == \A r \in Requests :
    txn[r] = "committed" \/ reply[r] = "created" => r \in effects

IInv == TypeOK /\ RunInv /\ InsertInv /\ DocInv /\ RecordInv /\ UniqueInv
        /\ ReplayInv /\ SuccessInv

----------------------------------------------------------------------------
LEMMA TypeInit == Init => TypeOK
<1> SUFFICES ASSUME Init PROVE TypeOK
  OBVIOUS
<1>1. \A r \in Requests : call[r].body \in Bodies
  BY DEF Init, Calls
<1>2. title \in [Requests -> SUBSET Bodies]
  BY <1>1 DEF Init
<1>3. /\ call \in [Requests -> Calls] /\ revision \in [Scopes -> 0..MaxRevision]
      /\ day \in 0..MaxDay /\ boot \in [Servers -> 0..MaxDay] /\ crashes \in 0..MaxCrashes
  BY BoundsAssumption DEF Init
<1>4. /\ record \in [Ids -> Records \cup {NoRecord}]
      /\ lock \in [Keys -> Requests \cup {Nobody}] /\ effects \in SUBSET Requests
      /\ beat \in [Requests -> BOOLEAN] /\ pc \in [Requests -> Steps]
  BY DEF Init, Steps
<1>5. /\ seen \in [Requests -> 0..MaxRevision]
      /\ doc \in [Requests -> Requests \cup {Nobody}]
      /\ replay \in [Requests -> Requests \cup {Nobody}]
      /\ txn \in [Requests -> TxnStates]
      /\ staged \in [Requests -> Statuses \cup {"none"}]
      /\ reply \in [Requests -> Replies]
  BY BoundsAssumption DEF Init, TxnStates, Replies
<1> QED
  BY <1>2, <1>3, <1>4, <1>5 DEF TypeOK

LEMMA FinishType ==
    ASSUME TypeOK, NEW r \in Requests, NEW a \in Replies, Finish(r, a)
    PROVE  /\ reply' \in [Requests -> Replies]
           /\ beat' \in [Requests -> BOOLEAN]
           /\ pc' \in [Requests -> Steps]
BY DEF Finish, Answer, TypeOK, Steps

LEMMA GotoType ==
    ASSUME TypeOK, NEW r \in Requests, NEW s \in Steps, Goto(r, s)
    PROVE  pc' \in [Requests -> Steps]
BY DEF Goto, TypeOK

LEMMA IdType == ASSUME TypeOK, NEW r \in Requests PROVE Id(r) \in Ids
BY DEF TypeOK, Calls, Id, Ids

LEMMA RecordType ==
    ASSUME TypeOK, NEW i \in Ids, record[i] # NoRecord
    PROVE  /\ record[i] \in Records
           /\ record[i].creator \in Requests
           /\ record[i].by \in Requests
           /\ record[i].expiresAt \in 0..(MaxDay + 1)
<1>1. record[i] \in Records
  BY DEF TypeOK
<1> QED
  BY <1>1 DEF Records

LEMMA OvertakeType ==
    ASSUME TypeOK, NEW r, NEW i, NEW t \in [Requests -> TxnStates]
    PROVE  Overtake(r, i, t) \in [Requests -> TxnStates]
BY DEF Overtake, TxnStates

\* The update of a status keeps the other fields, and creates no record.
LEMMA WriteStatusType ==
    ASSUME TypeOK, NEW r \in Requests, NEW s \in Statuses, WriteStatus(r, s)
    PROVE  /\ record' \in [Ids -> Records \cup {NoRecord}]
           /\ txn' \in [Requests -> TxnStates]
<1>1. Id(r) \in Ids
  BY IdType
<1>2. CASE record[Id(r)] # NoRecord /\ record[Id(r)].creator = doc[r]
  <2>1. WithStatus(record[Id(r)], s) \in Records
    BY <1>1, <1>2, RecordType DEF WithStatus, Records
  <2>2. record' = [record EXCEPT ![Id(r)] = WithStatus(record[Id(r)], s)]
    BY <1>2 DEF WriteStatus, WithStatus
  <2>3. record' \in [Ids -> Records \cup {NoRecord}]
    BY <1>1, <2>1, <2>2 DEF TypeOK
  <2>4. txn' = Overtake(r, Id(r), txn)
    BY <1>2 DEF WriteStatus
  <2> QED
    BY <2>3, <2>4, OvertakeType DEF TypeOK
<1>3. CASE ~(record[Id(r)] # NoRecord /\ record[Id(r)].creator = doc[r])
  BY <1>3 DEF WriteStatus, TypeOK
<1> QED
  BY <1>2, <1>3

LEMMA TypeStep == TypeOK /\ RunInv /\ InsertInv /\ [Next]_vars => TypeOK'
<1> SUFFICES ASSUME TypeOK, RunInv, InsertInv, [Next]_vars PROVE TypeOK'
  OBVIOUS
<1> USE BoundsAssumption, NobodyAssumption
<1> USE DEF TypeOK, Steps, TxnStates, Replies, Statuses, Calls, envVars, reqVars
<1>1. ASSUME NEW r \in Requests, Lock(r) PROVE TypeOK'
  BY <1>1 DEF Lock, Goto
<1>2. ASSUME NEW r \in Requests, Busy(r) PROVE TypeOK'
  BY <1>2 DEF Busy, Finish, Answer
<1>3. ASSUME NEW r \in Requests, Invalid(r) PROVE TypeOK'
  BY <1>3 DEF Invalid, Finish, Answer
<1>4. ASSUME NEW r \in Requests, Timeout(r) PROVE TypeOK'
  BY <1>4 DEF Timeout, Answer
<1>5. ASSUME NEW r \in Requests, Find(r) PROVE TypeOK'
  <2>1. /\ replay' \in [Requests -> Requests \cup {Nobody}]
        /\ doc' \in [Requests -> Requests \cup {Nobody}]
    <3>1. Id(r) \in Ids
      BY IdType
    <3>2. Found(r) => record[Id(r)].by \in Requests /\ record[Id(r)].creator \in Requests
      BY <3>1, RecordType DEF Found
    <3>3. /\ \/ replay' = replay
             \/ Found(r) /\ replay' = [replay EXCEPT ![r] = record[Id(r)].by]
          /\ \/ doc' = doc
             \/ Found(r) /\ doc' = [doc EXCEPT ![r] = record[Id(r)].creator]
      BY <1>5 DEF Find
    <3> QED
      BY <3>2, <3>3
  <2>2. /\ pc' \in [Requests -> Steps]
        /\ beat' \in [Requests -> BOOLEAN]
        /\ reply' \in [Requests -> Replies]
    BY <1>5, FinishType, GotoType DEF Find
  <2> QED
    BY <1>5, <2>1, <2>2 DEF Find
<1>6. ASSUME NEW r \in Requests, Replay(r) PROVE TypeOK'
  BY <1>6 DEF Replay, Finish, Answer
<1>7. ASSUME NEW r \in Requests, Reopen(r) PROVE TypeOK'
  <2>1. /\ record' \in [Ids -> Records \cup {NoRecord}]
        /\ txn' \in [Requests -> TxnStates]
    BY <1>7, WriteStatusType DEF Reopen
  <2> QED
    BY <1>7, <2>1 DEF Reopen, Goto
<1>8. ASSUME NEW r \in Requests, Create(r) PROVE TypeOK'
  <2>1. CASE /\ doc' = [doc EXCEPT ![r] = r]
             /\ txn' = [txn EXCEPT ![r] = "active"]
             /\ staged' = [staged EXCEPT ![r] = "in_progress"]
             /\ Goto(r, "run")
             /\ UNCHANGED <<beat, reply>>
    BY <1>8, <2>1, GotoType DEF Create
  <2>2. CASE /\ txn' = [txn EXCEPT ![r] = "aborted"]
             /\ Finish(r, "failed")
             /\ UNCHANGED <<doc, staged>>
    BY <1>8, <2>2, FinishType DEF Create
  <2> QED
    BY <1>8, <2>1, <2>2 DEF Create
<1>9. ASSUME NEW r \in Requests, Run(r) PROVE TypeOK'
  BY <1>9 DEF Run, Goto, Discard
<1>10. ASSUME NEW r \in Requests, Complete(r) PROVE TypeOK'
  BY <1>10 DEF Complete, Goto, Discard
<1>11. ASSUME NEW r \in Requests, Commit(r) PROVE TypeOK'
  <2>1. Id(r) \in Ids
    BY IdType
  <2>2. doc[r] \in Requests
    BY <1>11 DEF Commit, RunInv
  <2>3. staged[r] # "none" => ExpiryFrom(r) \in 0..(MaxDay + 1)
    <3>1. staged[r] # "none" /\ doc[r] # r => record[Id(r)] # NoRecord
      BY DEF InsertInv
    <3> QED
      BY <2>1, <3>1, RecordType DEF ExpiryFrom
  <2>4. ASSUME Apply(r)
        PROVE  record' \in [Ids -> Records \cup {NoRecord}] /\ effects' \in SUBSET Requests
    <3>1. [creator |-> doc[r], status |-> staged[r], by |-> r,
           expiresAt |-> ExpiryFrom(r)] \in Records \/ staged[r] = "none"
      BY <2>2, <2>3 DEF Records
    <3> QED
      BY <2>1, <2>4, <3>1 DEF Apply
  <2>5. Overtake(r, Id(r), txn) \in [Requests -> TxnStates]
    BY OvertakeType
  <2> QED
    BY <1>11, <2>4, <2>5 DEF Commit, Goto
<1>12. ASSUME NEW r \in Requests, Catch(r) PROVE TypeOK'
  <2>1. CASE txn[r] = "ended" /\ WriteStatus(r, "failed")
    <3>1. /\ record' \in [Ids -> Records \cup {NoRecord}]
          /\ txn' \in [Requests -> TxnStates]
      BY <2>1, WriteStatusType
    <3> QED
      BY <1>12, <2>1, <3>1 DEF Catch, Goto
  <2>2. CASE txn[r] # "ended"
    BY <1>12, <2>2 DEF Catch, Goto
  <2> QED
    BY <1>12, <2>1, <2>2 DEF Catch
<1>13. ASSUME NEW r \in Requests, Abort(r) PROVE TypeOK'
  BY <1>13 DEF Abort, Goto, Discard
<1>14. ASSUME NEW r \in Requests, Release(r) PROVE TypeOK'
  BY <1>14 DEF Release, Finish, Answer
<1>15. ASSUME NEW r \in Requests, Reap(r) PROVE TypeOK'
  BY <1>15 DEF Reap, Discard
<1>16. ASSUME NEW k \in Keys, LockExpires(k) PROVE TypeOK'
  BY <1>16 DEF LockExpires
<1>17. ASSUME NEW i \in Ids, TtlDelete(i) PROVE TypeOK'
  BY <1>17 DEF TtlDelete, Records, Overtake
<1>18. ASSUME NEW s \in Scopes, EditProfile(s) PROVE TypeOK'
  BY <1>18 DEF EditProfile
<1>19. ASSUME NEW p \in Servers, Crash(p) PROVE TypeOK'
  BY <1>19 DEF Crash
<1>20. CASE NextDay
  BY <1>20 DEF NextDay
<1>21. CASE UNCHANGED vars
  BY <1>21 DEF vars
<1>23. ASSUME NEW r \in Requests, LateLock(r) PROVE TypeOK'
  <2>1. pc' \in [Requests -> Steps]
    BY <1>23, GotoType DEF LateLock
  <2>2. /\ lock' \in {lock, [lock EXCEPT ![call[r].key] = r]}
        /\ beat' \in {beat, [beat EXCEPT ![r] = TRUE]}
    BY <1>23 DEF LateLock
  <2>3. [lock EXCEPT ![call[r].key] = r] \in [Keys -> Requests \cup {Nobody}]
    OBVIOUS
  <2> QED
    BY <1>23, <2>1, <2>2, <2>3 DEF LateLock
<1>24. ASSUME NEW r \in Requests, NEW t \in SUBSET NewTitles, Retitle(r, t) PROVE TypeOK'
  BY <1>24, TitlesAssumption DEF Retitle
<1>22. QED
  BY <1>1, <1>2, <1>3, <1>4, <1>5, <1>6, <1>7, <1>8, <1>9, <1>10, <1>11, <1>12, <1>13, <1>14, <1>15, <1>16, <1>17, <1>18, <1>19, <1>20, <1>21, <1>23, <1>24 DEF Next, Handle

LEMMA RecordExists ==
    ASSUME NEW x \in Records PROVE x # NoRecord
<1>1. x.creator \in Requests
  BY DEF Records
<1>2. NoRecord.creator = Nobody
  BY DEF NoRecord
<1> QED
  BY <1>1, <1>2, NobodyAssumption

\* A committed write only turns open transactions into overtaken ones.
LEMMA OvertakeFrame ==
    ASSUME TypeOK, NEW r, NEW i, NEW o \in Requests
    PROVE  \/ Overtake(r, i, txn)[o] = txn[o]
           \/ txn[o] = "active" /\ Overtake(r, i, txn)[o] = "behind"
BY DEF Overtake, TypeOK

LEMMA WriteStatusFrame ==
    ASSUME TypeOK, NEW r \in Requests, NEW s \in Statuses, WriteStatus(r, s)
    PROVE  /\ \A i \in Ids : /\ record'[i] = NoRecord <=> record[i] = NoRecord
                             /\ record[i] # NoRecord =>
                                  /\ record'[i].creator = record[i].creator
                                  /\ record'[i].by = record[i].by
                                  /\ \/ record'[i].status = record[i].status
                                     \/ record[i].creator = doc[r]
           /\ \A o \in Requests : \/ txn'[o] = txn[o]
                                  \/ txn[o] = "active" /\ txn'[o] = "behind"
<1>1. Id(r) \in Ids
  BY IdType
<1>2. CASE record[Id(r)] # NoRecord /\ record[Id(r)].creator = doc[r]
  <2>1. WithStatus(record[Id(r)], s) \in Records
    BY <1>1, <1>2, RecordType DEF WithStatus, Records
  <2>2. WithStatus(record[Id(r)], s) # NoRecord
    BY <2>1, RecordExists
  <2>3. /\ WithStatus(record[Id(r)], s).creator = record[Id(r)].creator
        /\ WithStatus(record[Id(r)], s).by = record[Id(r)].by
    BY DEF WithStatus
  <2>4. /\ record' = [record EXCEPT ![Id(r)] = WithStatus(record[Id(r)], s)]
        /\ txn' = Overtake(r, Id(r), txn)
    BY <1>2 DEF WriteStatus, WithStatus
  <2>5. \A i \in Ids : record'[i] = IF i = Id(r) THEN WithStatus(record[Id(r)], s)
                                    ELSE record[i]
    BY <1>1, <2>4 DEF TypeOK
  <2> QED
    BY <1>1, <1>2, <2>2, <2>3, <2>4, <2>5, OvertakeFrame
<1>3. CASE ~(record[Id(r)] # NoRecord /\ record[Id(r)].creator = doc[r])
  BY <1>3 DEF WriteStatus
<1> QED
  BY <1>2, <1>3

\* A commit, whatever the driver reports of it: what it makes visible, and the
\* transactions it leaves.
LEMMA CommitFrame ==
    ASSUME TypeOK, RunInv, NEW r \in Requests, Commit(r)
    PROVE  /\ doc[r] \in Requests /\ doc' = doc /\ call' = call /\ title' = title
           /\ \/ effects' = effects /\ record' = record
              \/ /\ effects' = effects \cup {r}
                 /\ \A i \in Ids \ {Id(r)} : record'[i] = record[i]
                 /\ \/ staged[r] = "none" /\ record' = record
                    \/ /\ staged[r] = "completed" /\ record'[Id(r)] # NoRecord
                       /\ record'[Id(r)].creator = doc[r] /\ record'[Id(r)].by = r
                       /\ record'[Id(r)].status = "completed"
           /\ txn'[r] = "ended" \/ (txn'[r] = "committed" /\ r \in effects')
           /\ \A o \in Requests \ {r} : \/ txn'[o] = txn[o]
                                        \/ txn[o] = "active" /\ txn'[o] = "behind"
           /\ \A o \in Requests : staged'[o] = IF o = r THEN "none" ELSE staged[o]
           /\ \A o \in Requests \ {r} : pc'[o] = pc[o]
           /\ pc'[r] \in {"release", "catch"}
           /\ UNCHANGED <<replay, reply>>
<1> DEFINE new == [creator |-> doc[r], status |-> staged[r], by |-> r,
                   expiresAt |-> ExpiryFrom(r)]
<1>1. doc[r] \in Requests /\ staged[r] \in {"none", "completed"}
  BY DEF Commit, RunInv
<1>2. Id(r) \in Ids
  BY IdType
<1>3. new.creator = doc[r] /\ new.by = r /\ new.status = staged[r] /\ new # NoRecord
  <2>1. new.creator = doc[r] /\ new.by = r /\ new.status = staged[r]
    OBVIOUS
  <2>2. NoRecord.creator = Nobody
    BY DEF NoRecord
  <2> QED
    BY <1>1, <2>1, <2>2, NobodyAssumption
<1>4. ASSUME Apply(r)
      PROVE  /\ effects' = effects \cup {r}
             /\ \A i \in Ids \ {Id(r)} : record'[i] = record[i]
             /\ \/ staged[r] = "none" /\ record' = record
                \/ staged[r] # "none" /\ record'[Id(r)] = new
  BY <1>2, <1>4 DEF Apply, TypeOK
<1>5. \A o \in Requests : \/ Overtake(r, Id(r), txn)[o] = txn[o]
                          \/ txn[o] = "active" /\ Overtake(r, Id(r), txn)[o] = "behind"
  BY OvertakeFrame
<1>6. Overtake(r, Id(r), txn) \in [Requests -> TxnStates]
  BY OvertakeType DEF TypeOK
<1>7. /\ \A o \in Requests : staged'[o] = IF o = r THEN "none" ELSE staged[o]
      /\ \A o \in Requests \ {r} : pc'[o] = pc[o]
      /\ pc'[r] \in {"release", "catch"}
      /\ doc' = doc /\ call' = call /\ title' = title
      /\ UNCHANGED <<replay, reply>>
  BY DEF Commit, Goto, TypeOK, envVars
<1>8. /\ \/ effects' = effects /\ record' = record
         \/ Apply(r)
      /\ \/ txn' = [txn EXCEPT ![r] = "ended"]
         \/ txn' = [Overtake(r, Id(r), txn) EXCEPT ![r] = "ended"]
         \/ txn' = [Overtake(r, Id(r), txn) EXCEPT ![r] = "committed"] /\ Apply(r)
  BY DEF Commit
<1>9. /\ txn'[r] = "ended" \/ (txn'[r] = "committed" /\ r \in effects')
      /\ \A o \in Requests \ {r} : \/ txn'[o] = txn[o]
                                   \/ txn[o] = "active" /\ txn'[o] = "behind"
  BY <1>4, <1>5, <1>6, <1>8 DEF TypeOK
<1> HIDE DEF new
<1>10. \/ effects' = effects /\ record' = record
       \/ /\ effects' = effects \cup {r}
          /\ \A i \in Ids \ {Id(r)} : record'[i] = record[i]
          /\ \/ staged[r] = "none" /\ record' = record
             \/ /\ staged[r] = "completed" /\ record'[Id(r)] # NoRecord
                /\ record'[Id(r)].creator = doc[r] /\ record'[Id(r)].by = r
                /\ record'[Id(r)].status = "completed"
  BY <1>1, <1>3, <1>4, <1>8
<1> QED
  BY <1>1, <1>7, <1>9, <1>10

\* What commits has saved its document, in a transaction of its own.
LEMMA CommitStart ==
    ASSUME TypeOK, RunInv, NEW r \in Requests, Commit(r)
    PROVE  /\ pc[r] = "commit" /\ InTxn(r) /\ Saved(r) /\ doc[r] \in Requests
           /\ r \notin effects /\ txn[r] \notin {"ended", "committed"}
BY DEF Commit, RunInv, Saved, InTxn

\* No step takes back a commit, or forgets that it was reported as an error.
Kept == /\ call' = call /\ effects \subseteq effects'
        /\ \A o \in Requests : txn[o] = "ended" => txn'[o] = "ended"

LEMMA KeptStep == TypeOK /\ RunInv /\ [Next]_vars => Kept
<1> SUFFICES ASSUME TypeOK, RunInv, [Next]_vars PROVE Kept
  OBVIOUS
<1> USE DEF TypeOK, RunInv, Kept, envVars, reqVars, Early, Inserted, InTxn
<1>1. ASSUME NEW r \in Requests, Lock(r) PROVE Kept
  BY <1>1 DEF Lock, Goto
<1>2. ASSUME NEW r \in Requests, Busy(r) PROVE Kept
  BY <1>2 DEF Busy, Finish, Answer
<1>3. ASSUME NEW r \in Requests, Invalid(r) PROVE Kept
  BY <1>3 DEF Invalid, Finish, Answer
<1>4. ASSUME NEW r \in Requests, Timeout(r) PROVE Kept
  BY <1>4 DEF Timeout, Answer
<1>5. ASSUME NEW r \in Requests, LateLock(r) PROVE Kept
  BY <1>5 DEF LateLock, Goto
<1>6. ASSUME NEW r \in Requests, Find(r) PROVE Kept
  BY <1>6 DEF Find, Finish, Goto, Answer
<1>7. ASSUME NEW r \in Requests, Replay(r) PROVE Kept
  BY <1>7 DEF Replay, Finish, Answer
<1>8. ASSUME NEW r \in Requests, Reopen(r) PROVE Kept
  <2>1. \A o \in Requests : \/ txn'[o] = txn[o]
                            \/ txn[o] = "active" /\ txn'[o] = "behind"
    BY <1>8, WriteStatusFrame DEF Reopen, Statuses
  <2> QED
    BY <1>8, <2>1 DEF Reopen, Goto
<1>9. ASSUME NEW r \in Requests, Create(r) PROVE Kept
  BY <1>9 DEF Create, Goto, Finish, Answer
<1>10. ASSUME NEW r \in Requests, Run(r) PROVE Kept
  BY <1>10 DEF Run, Goto, Discard
<1>11. ASSUME NEW r \in Requests, Complete(r) PROVE Kept
  BY <1>11 DEF Complete, Goto, Discard
<1>12. ASSUME NEW r \in Requests, Commit(r) PROVE Kept
  <2> HIDE DEF TypeOK, RunInv
  <2>1. /\ call' = call /\ effects \subseteq effects'
        /\ \A o \in Requests \ {r} : \/ txn'[o] = txn[o]
                                     \/ txn[o] = "active" /\ txn'[o] = "behind"
    BY <1>12, CommitFrame
  <2>2. txn[r] # "ended"
    BY <1>12, CommitStart
  <2> QED
    BY <2>1, <2>2
<1>13. ASSUME NEW r \in Requests, Catch(r) PROVE Kept
  <2>1. \A o \in Requests : \/ txn'[o] = txn[o]
                            \/ txn[o] = "active" /\ txn'[o] = "behind"
    BY <1>13, WriteStatusFrame DEF Catch, Statuses
  <2> QED
    BY <1>13, <2>1 DEF Catch, Goto
<1>14. ASSUME NEW r \in Requests, Abort(r) PROVE Kept
  BY <1>14 DEF Abort, Goto, Discard
<1>15. ASSUME NEW r \in Requests, Release(r) PROVE Kept
  BY <1>15 DEF Release, Finish, Answer
<1>16. ASSUME NEW r \in Requests, Reap(r) PROVE Kept
  BY <1>16 DEF Reap, Discard
<1>17. ASSUME NEW r \in Requests, NEW t \in SUBSET NewTitles, Retitle(r, t) PROVE Kept
  BY <1>17 DEF Retitle
<1>18. ASSUME NEW k \in Keys, LockExpires(k) PROVE Kept
  BY <1>18 DEF LockExpires
<1>19. ASSUME NEW i \in Ids, TtlDelete(i) PROVE Kept
  BY <1>19 DEF TtlDelete, Overtake
<1>20. ASSUME NEW s \in Scopes, EditProfile(s) PROVE Kept
  BY <1>20 DEF EditProfile
<1>21. ASSUME NEW p \in Servers, Crash(p) PROVE Kept
  BY <1>21 DEF Crash
<1>22. CASE NextDay
  BY <1>22 DEF NextDay
<1>23. CASE UNCHANGED vars
  BY <1>23 DEF vars
<1>24. QED
  BY <1>1, <1>2, <1>3, <1>4, <1>5, <1>6, <1>7, <1>8, <1>9, <1>10, <1>11, <1>12,
     <1>13, <1>14, <1>15, <1>16, <1>17, <1>18, <1>19, <1>20, <1>21, <1>22, <1>23 DEF Next, Handle

\* The record found under r's own fingerprint is that of requests of the same
\* identity and payload whose documents are committed.
LEMMA FoundMeansTwin ==
    ASSUME TypeOK, RunInv, RecordInv, NEW r \in Requests, pc[r] = "locked",
           Found(r), SameFingerprint(r)
    PROVE  /\ Twin(r, record[Id(r)].by) /\ Twin(r, record[Id(r)].creator)
           /\ record[Id(r)].creator \in Requests \ {r}
           /\ record[Id(r)].status # "completed" => txn[record[Id(r)].creator] = "ended"
<1>1. Id(r) \in Ids /\ record[Id(r)] # NoRecord
  BY IdType DEF Found
<1>2. /\ record[Id(r)].creator \in effects /\ Id(record[Id(r)].creator) = Id(r)
      /\ Twin(record[Id(r)].creator, record[Id(r)].by)
      /\ record[Id(r)].status # "completed" => txn[record[Id(r)].creator] = "ended"
  BY <1>1 DEF RecordInv
<1>3. call[record[Id(r)].creator].body = call[r].body
  BY DEF SameFingerprint, Fingerprint
<1>4. r \notin effects
  BY DEF RunInv, Early
<1>5. record[Id(r)].creator \in Requests
  BY <1>2 DEF TypeOK
<1> QED
  BY <1>2, <1>3, <1>4, <1>5 DEF Twin

LEMMA TwinKept ==
    ASSUME Kept, NEW r, NEW o, Twin(r, o) PROVE Twin(r, o)'
BY DEF Kept, Twin, Id

LEMMA SuccessStep == TypeOK /\ RunInv /\ SuccessInv /\ [Next]_vars => SuccessInv'
<1> SUFFICES ASSUME TypeOK, RunInv, SuccessInv, [Next]_vars PROVE SuccessInv'
  OBVIOUS
<1> USE DEF TypeOK, SuccessInv, envVars, reqVars
<1>1. ASSUME NEW r \in Requests, Lock(r) PROVE SuccessInv'
  BY <1>1 DEF Lock, Goto
<1>2. ASSUME NEW r \in Requests, Busy(r) PROVE SuccessInv'
  BY <1>2 DEF Busy, Finish, Answer
<1>3. ASSUME NEW r \in Requests, Invalid(r) PROVE SuccessInv'
  BY <1>3 DEF Invalid, Finish, Answer
<1>4. ASSUME NEW r \in Requests, Timeout(r) PROVE SuccessInv'
  BY <1>4 DEF Timeout, Answer
<1>5. ASSUME NEW r \in Requests, LateLock(r) PROVE SuccessInv'
  BY <1>5 DEF LateLock, Goto
<1>6. ASSUME NEW r \in Requests, Find(r) PROVE SuccessInv'
  BY <1>6 DEF Find, Finish, Goto, Answer
<1>7. ASSUME NEW r \in Requests, Replay(r) PROVE SuccessInv'
  BY <1>7 DEF Replay, Finish, Answer
<1>8. ASSUME NEW r \in Requests, Reopen(r) PROVE SuccessInv'
  <2>1. \A o \in Requests : \/ txn'[o] = txn[o]
                            \/ txn[o] = "active" /\ txn'[o] = "behind"
    BY <1>8, WriteStatusFrame DEF Reopen, Statuses
  <2> QED
    BY <1>8, <2>1 DEF Reopen, Goto
<1>9. ASSUME NEW r \in Requests, Create(r) PROVE SuccessInv'
  BY <1>9 DEF Create, Goto, Finish, Answer
<1>10. ASSUME NEW r \in Requests, Run(r) PROVE SuccessInv'
  BY <1>10 DEF Run, Goto, Discard
<1>11. ASSUME NEW r \in Requests, Complete(r) PROVE SuccessInv'
  BY <1>11 DEF Complete, Goto, Discard
<1>12. ASSUME NEW r \in Requests, Commit(r) PROVE SuccessInv'
  BY <1>12, CommitFrame
<1>13. ASSUME NEW r \in Requests, Catch(r) PROVE SuccessInv'
  <2>1. \A o \in Requests : \/ txn'[o] = txn[o]
                            \/ txn[o] = "active" /\ txn'[o] = "behind"
    BY <1>13, WriteStatusFrame DEF Catch, Statuses
  <2> QED
    BY <1>13, <2>1 DEF Catch, Goto
<1>14. ASSUME NEW r \in Requests, Abort(r) PROVE SuccessInv'
  BY <1>14 DEF Abort, Goto, Discard
<1>15. ASSUME NEW r \in Requests, Release(r) PROVE SuccessInv'
  BY <1>15 DEF Release, Finish, Answer
<1>16. ASSUME NEW r \in Requests, Reap(r) PROVE SuccessInv'
  BY <1>16 DEF Reap, Discard
<1>17. ASSUME NEW r \in Requests, NEW t \in SUBSET NewTitles, Retitle(r, t) PROVE SuccessInv'
  BY <1>17 DEF Retitle
<1>18. ASSUME NEW k \in Keys, LockExpires(k) PROVE SuccessInv'
  BY <1>18 DEF LockExpires
<1>19. ASSUME NEW i \in Ids, TtlDelete(i) PROVE SuccessInv'
  BY <1>19 DEF TtlDelete, Overtake
<1>20. ASSUME NEW s \in Scopes, EditProfile(s) PROVE SuccessInv'
  BY <1>20 DEF EditProfile
<1>21. ASSUME NEW p \in Servers, Crash(p) PROVE SuccessInv'
  BY <1>21 DEF Crash
<1>22. CASE NextDay
  BY <1>22 DEF NextDay
<1>23. CASE UNCHANGED vars
  BY <1>23 DEF vars
<1>24. QED
  BY <1>1, <1>2, <1>3, <1>4, <1>5, <1>6, <1>7, <1>8, <1>9, <1>10, <1>11, <1>12,
     <1>13, <1>14, <1>15, <1>16, <1>17, <1>18, <1>19, <1>20, <1>21, <1>22, <1>23 DEF Next, Handle

LEMMA ReplayStep == TypeOK /\ RunInv /\ RecordInv /\ ReplayInv /\ [Next]_vars => ReplayInv'
<1> SUFFICES ASSUME TypeOK, RunInv, RecordInv, ReplayInv, [Next]_vars PROVE ReplayInv'
  OBVIOUS
<1> USE DEF TypeOK, ReplayInv, envVars, reqVars, Twin, Id
<1>1. ASSUME NEW r \in Requests, Lock(r) PROVE ReplayInv'
  BY <1>1 DEF Lock, Goto
<1>2. ASSUME NEW r \in Requests, Busy(r) PROVE ReplayInv'
  BY <1>2 DEF Busy, Finish, Answer
<1>3. ASSUME NEW r \in Requests, Invalid(r) PROVE ReplayInv'
  BY <1>3 DEF Invalid, Finish, Answer
<1>4. ASSUME NEW r \in Requests, Timeout(r) PROVE ReplayInv'
  BY <1>4 DEF Timeout, Answer
<1>5. ASSUME NEW r \in Requests, LateLock(r) PROVE ReplayInv'
  BY <1>5 DEF LateLock, Goto
<1>6. ASSUME NEW r \in Requests, Find(r) PROVE ReplayInv'
  <2>1. Found(r) /\ SameFingerprint(r) => Twin(r, record[Id(r)].by)
    BY <1>6, FoundMeansTwin DEF Find
  <2>2. UNCHANGED <<call, effects>>
    BY <1>6 DEF Find
  <2> QED
    BY <1>6, <2>1, <2>2 DEF Find, Finish, Goto, Answer
<1>7. ASSUME NEW r \in Requests, Replay(r) PROVE ReplayInv'
  BY <1>7 DEF Replay, Finish, Answer
<1>8. ASSUME NEW r \in Requests, Reopen(r) PROVE ReplayInv'
  BY <1>8 DEF Reopen, Goto
<1>9. ASSUME NEW r \in Requests, Create(r) PROVE ReplayInv'
  BY <1>9 DEF Create, Goto, Finish, Answer
<1>10. ASSUME NEW r \in Requests, Run(r) PROVE ReplayInv'
  BY <1>10 DEF Run, Goto, Discard
<1>11. ASSUME NEW r \in Requests, Complete(r) PROVE ReplayInv'
  BY <1>11 DEF Complete, Goto, Discard
<1>12. ASSUME NEW r \in Requests, Commit(r) PROVE ReplayInv'
  <2> HIDE DEF TypeOK, Twin, Id
  <2>1. \A o \in Requests : (pc'[o] = "replay" => pc[o] = "replay") /\ reply'[o] = reply[o]
                            /\ replay'[o] = replay[o]
    BY <1>12, CommitFrame
  <2>2. \A o \in Requests : Twin(o, replay[o]) => Twin(o, replay[o])'
    BY <1>12, <2>1, KeptStep, TwinKept DEF Next, Handle, Twin, Id, Kept
  <2> QED
    BY <2>1, <2>2
<1>13. ASSUME NEW r \in Requests, Catch(r) PROVE ReplayInv'
  BY <1>13 DEF Catch, Goto
<1>14. ASSUME NEW r \in Requests, Abort(r) PROVE ReplayInv'
  BY <1>14 DEF Abort, Goto, Discard
<1>15. ASSUME NEW r \in Requests, Release(r) PROVE ReplayInv'
  BY <1>15 DEF Release, Finish, Answer
<1>16. ASSUME NEW r \in Requests, Reap(r) PROVE ReplayInv'
  BY <1>16 DEF Reap, Discard
<1>17. ASSUME NEW r \in Requests, NEW t \in SUBSET NewTitles, Retitle(r, t) PROVE ReplayInv'
  BY <1>17 DEF Retitle
<1>18. ASSUME NEW k \in Keys, LockExpires(k) PROVE ReplayInv'
  BY <1>18 DEF LockExpires
<1>19. ASSUME NEW i \in Ids, TtlDelete(i) PROVE ReplayInv'
  BY <1>19 DEF TtlDelete
<1>20. ASSUME NEW s \in Scopes, EditProfile(s) PROVE ReplayInv'
  BY <1>20 DEF EditProfile
<1>21. ASSUME NEW p \in Servers, Crash(p) PROVE ReplayInv'
  BY <1>21 DEF Crash
<1>22. CASE NextDay
  BY <1>22 DEF NextDay
<1>23. CASE UNCHANGED vars
  BY <1>23 DEF vars
<1>24. QED
  BY <1>1, <1>2, <1>3, <1>4, <1>5, <1>6, <1>7, <1>8, <1>9, <1>10, <1>11, <1>12,
     <1>13, <1>14, <1>15, <1>16, <1>17, <1>18, <1>19, <1>20, <1>21, <1>22, <1>23 DEF Next, Handle

LEMMA DocStep == TypeOK /\ RunInv /\ RecordInv /\ DocInv /\ [Next]_vars => DocInv'
<1> SUFFICES ASSUME TypeOK, RunInv, RecordInv, DocInv, [Next]_vars,
                    NEW q \in Requests, doc'[q] \in Requests \ {q}
             PROVE  (Twin(q, doc[q]) /\ txn[doc[q]] = "ended")'
  BY DEF DocInv
<1>1. Kept
  BY KeptStep
<1>2. CASE doc'[q] = doc[q]
  <2>1. Twin(q, doc[q]) /\ txn[doc[q]] = "ended"
    BY <1>2 DEF DocInv
  <2>2. Twin(q, doc[q])'
    BY <1>1, <1>2, <2>1 DEF Kept, Twin, Id
  <2> QED
    BY <1>1, <1>2, <2>1, <2>2 DEF Kept
<1>3. CASE doc'[q] # doc[q]
  <2>1. PICK r \in Requests : Find(r) \/ Create(r)
    BY <1>3 DEF Next, Handle, vars, envVars, reqVars, Lock, Busy, Invalid, Timeout,
       LateLock, Replay, Reopen, Run, Complete, Commit, Catch, Abort, Release, Reap,
       Retitle, LockExpires, TtlDelete, EditProfile, Crash, NextDay
  <2>2. CASE Create(r)
    BY <1>3, <2>2 DEF Create, TypeOK
  <2>3. CASE Find(r)
    <3>1. /\ q = r /\ Found(q) /\ SameFingerprint(q) /\ pc[q] = "locked"
          /\ record[Id(q)].status = "failed" /\ doc'[q] = record[Id(q)].creator
      BY <1>3, <2>3 DEF Find, TypeOK
    <3>2. Twin(q, doc'[q]) /\ txn[doc'[q]] = "ended"
      BY <3>1, FoundMeansTwin
    <3> QED
      BY <1>1, <3>2 DEF Kept, Twin, Id
  <2> QED
    BY <2>1, <2>2, <2>3
<1> QED
  BY <1>2, <1>3

\* A write of a status outside a transaction is that of a request that knows of
\* the failed commit.
LEMMA StatusKeepsRecordInv ==
    ASSUME TypeOK, RecordInv, DocInv, Kept, NEW r \in Requests, NEW s \in Statuses,
           WriteStatus(r, s), doc[r] = r => txn[r] = "ended"
    PROVE  RecordInv'
<1> SUFFICES ASSUME NEW i \in Ids, record'[i] # NoRecord
             PROVE  (/\ record[i].creator \in effects /\ Id(record[i].creator) = i
                     /\ Twin(record[i].creator, record[i].by)
                     /\ record[i].status # "completed" => txn[record[i].creator] = "ended")'
  BY DEF RecordInv
<1>1. /\ record[i] # NoRecord
      /\ record'[i].creator = record[i].creator /\ record'[i].by = record[i].by
      /\ record'[i].status = record[i].status \/ record[i].creator = doc[r]
  BY WriteStatusFrame
<1>2. /\ record[i].creator \in effects /\ Id(record[i].creator) = i
      /\ Twin(record[i].creator, record[i].by)
      /\ record[i].status # "completed" => txn[record[i].creator] = "ended"
  BY <1>1 DEF RecordInv
<1>3. record[i].creator = doc[r] => txn[record[i].creator] = "ended"
  BY <1>2 DEF DocInv, TypeOK
<1>4. record[i].creator \in Requests
  BY <1>2 DEF TypeOK
<1> QED
  BY <1>1, <1>2, <1>3, <1>4 DEF Kept, Twin, Id

LEMMA RecordStep == TypeOK /\ RunInv /\ DocInv /\ RecordInv /\ [Next]_vars => RecordInv'
<1> SUFFICES ASSUME TypeOK, RunInv, DocInv, RecordInv, [Next]_vars PROVE RecordInv'
  OBVIOUS
<1>1. Kept
  BY KeptStep
<1>2. ASSUME NEW i \in Ids, record'[i] # NoRecord, record'[i] = record[i]
      PROVE  (/\ record[i].creator \in effects /\ Id(record[i].creator) = i
              /\ Twin(record[i].creator, record[i].by)
              /\ record[i].status # "completed" => txn[record[i].creator] = "ended")'
  <2>1. /\ record[i].creator \in effects /\ Id(record[i].creator) = i
        /\ Twin(record[i].creator, record[i].by)
        /\ record[i].status # "completed" => txn[record[i].creator] = "ended"
    BY <1>2 DEF RecordInv
  <2>2. record[i].creator \in Requests
    BY <2>1 DEF TypeOK
  <2> QED
    BY <1>1, <1>2, <2>1, <2>2 DEF Kept, Twin, Id
<1>3. ASSUME NEW r \in Requests, Reopen(r) PROVE RecordInv'
  <2>1. doc[r] # r
    BY <1>3 DEF Reopen, RunInv
  <2> QED
    BY <1>1, <1>3, <2>1, StatusKeepsRecordInv DEF Reopen, Statuses
<1>4. ASSUME NEW r \in Requests, Catch(r) PROVE RecordInv'
  <2>1. CASE txn[r] = "ended" /\ WriteStatus(r, "failed")
    BY <1>1, <2>1, StatusKeepsRecordInv DEF Statuses
  <2>2. CASE record' = record
    BY <1>2, <2>2 DEF RecordInv
  <2> QED
    BY <1>4, <2>1, <2>2 DEF Catch
<1>5. ASSUME NEW r \in Requests, Commit(r) PROVE RecordInv'
  <2>1. CASE record' = record
    BY <1>2, <2>1 DEF RecordInv
  <2>2. CASE record' # record
    <3>1. /\ \A i \in Ids \ {Id(r)} : record'[i] = record[i]
          /\ record'[Id(r)].creator = doc[r] /\ record'[Id(r)].by = r
          /\ record'[Id(r)].status = "completed"
          /\ effects' = effects \cup {r} /\ doc[r] \in Requests /\ call' = call
      BY <1>5, <2>2, CommitFrame
    <3>2. doc[r] = r \/ Twin(r, doc[r])
      BY <3>1 DEF DocInv
    <3>3. Id(doc[r]) = Id(r) /\ call[doc[r]].body = call[r].body /\ doc[r] \in effects'
      BY <3>1, <3>2 DEF Twin
    <3>4. Id(doc[r])' = Id(r) /\ Id(r)' = Id(r) /\ doc'[r] = doc[r]
      BY <1>5, <3>1, <3>3, CommitFrame DEF Id
    <3>5. ASSUME NEW i \in Ids, i = Id(r)
          PROVE  (/\ record[i].creator \in effects /\ Id(record[i].creator) = i
                  /\ Twin(record[i].creator, record[i].by)
                  /\ record[i].status # "completed" => txn[record[i].creator] = "ended")'
      <4> DEFINE c == record'[i].creator
                 m == record'[i].by
      <4>1. c = doc[r] /\ m = r /\ record'[i].status = "completed"
        BY <3>1, <3>5
      <4> HIDE DEF c, m
      <4>2. c \in effects' /\ m \in effects'
        BY <3>1, <3>3, <4>1
      <4>3. <<call'[c].key, call'[c].scope>> = i /\ <<call'[m].key, call'[m].scope>> = i
            /\ call'[m].body = call'[c].body
        BY <3>1, <3>3, <3>5, <4>1 DEF Id
      <4> QED
        BY <4>1, <4>2, <4>3 DEF Twin, Id, c, m
    <3> QED
      BY <1>2, <3>1, <3>5 DEF RecordInv
  <2> QED
    BY <2>1, <2>2
<1>6. ASSUME NEW j \in Ids, TtlDelete(j) PROVE RecordInv'
  <2>1. \A i \in Ids : record'[i] \in {record[i], NoRecord}
    BY <1>6 DEF TtlDelete, TypeOK
  <2> QED
    BY <1>2, <2>1 DEF RecordInv
<1>7. CASE record' = record
  BY <1>2, <1>7 DEF RecordInv
<1> QED
  BY <1>3, <1>4, <1>5, <1>6, <1>7 DEF Next, Handle, vars, envVars, reqVars, Lock, Busy,
     Invalid, Timeout, LateLock, Find, Replay, Create, Run, Complete, Abort, Release,
     Reap, Retitle, LockExpires, EditProfile, Crash, NextDay

LEMMA InsertStep == TypeOK /\ RunInv /\ InsertInv /\ [Next]_vars => InsertInv'
<1> SUFFICES ASSUME TypeOK, RunInv, InsertInv, [Next]_vars PROVE InsertInv'
  OBVIOUS
<1> USE DEF TypeOK, InsertInv, envVars, reqVars, InTxn, Id
<1>1. ASSUME NEW r \in Requests, Lock(r) PROVE InsertInv'
  BY <1>1 DEF Lock, Goto
<1>2. ASSUME NEW r \in Requests, Busy(r) PROVE InsertInv'
  BY <1>2 DEF Busy, Finish, Answer
<1>3. ASSUME NEW r \in Requests, Invalid(r) PROVE InsertInv'
  BY <1>3 DEF Invalid, Finish, Answer
<1>4. ASSUME NEW r \in Requests, Timeout(r) PROVE InsertInv'
  BY <1>4 DEF Timeout, Answer
<1>5. ASSUME NEW r \in Requests, LateLock(r) PROVE InsertInv'
  BY <1>5 DEF LateLock, Goto
<1>6. ASSUME NEW r \in Requests, Find(r) PROVE InsertInv'
  <2>1. staged[r] = "none"
    BY <1>6 DEF Find, RunInv, Early
  <2>2. \A o \in Requests \ {r} : doc'[o] = doc[o]
    BY <1>6 DEF Find
  <2> QED
    BY <1>6, <2>1, <2>2 DEF Find
<1>7. ASSUME NEW r \in Requests, Replay(r) PROVE InsertInv'
  BY <1>7 DEF Replay, Finish, Answer
<1>8. ASSUME NEW r \in Requests, Reopen(r) PROVE InsertInv'
  <2>1. /\ \A i \in Ids : /\ record'[i] = NoRecord <=> record[i] = NoRecord
                          /\ record[i] # NoRecord => record'[i].creator = record[i].creator
        /\ \A o \in Requests : \/ txn'[o] = txn[o]
                               \/ txn[o] = "active" /\ txn'[o] = "behind"
    BY <1>8, WriteStatusFrame DEF Reopen, Statuses
  <2>2. UNCHANGED <<call, staged, doc>>
    BY <1>8 DEF Reopen
  <2> QED
    BY <2>1, <2>2, IdType
<1>9. ASSUME NEW r \in Requests, Create(r) PROVE InsertInv'
  <2>1. CASE /\ record[Id(r)] = NoRecord /\ ~WrittenByOther(r, Id(r))
             /\ doc' = [doc EXCEPT ![r] = r]
             /\ txn' = [txn EXCEPT ![r] = "active"]
             /\ staged' = [staged EXCEPT ![r] = "in_progress"]
    <3>1. \A o \in Requests \ {r} : staged[o] # "none" => Id(o) # Id(r)
      BY <2>1 DEF WrittenByOther
    <3>2. UNCHANGED <<call, record>>
      BY <1>9 DEF Create
    <3> QED
      BY <2>1, <3>1, <3>2
  <2>2. CASE txn' = [txn EXCEPT ![r] = "aborted"] /\ UNCHANGED <<doc, staged>>
    <3>1. staged[r] = "none"
      BY <1>9 DEF Create, RunInv, Early
    <3> QED
      BY <1>9, <2>2, <3>1 DEF Create
  <2> QED
    BY <1>9, <2>1, <2>2 DEF Create
<1>10. ASSUME NEW r \in Requests, Run(r) PROVE InsertInv'
  BY <1>10 DEF Run, Goto, Discard
<1>11. ASSUME NEW r \in Requests, Complete(r) PROVE InsertInv'
  <2>1. CASE staged' = staged \/ Discard(r)
    BY <1>11, <2>1 DEF Complete, Goto, Discard
  <2>2. CASE staged' # staged /\ ~Discard(r)
    <3>1. /\ Matches(r) /\ UNCHANGED <<txn, call, record, doc>>
          /\ staged' = [staged EXCEPT ![r] = "completed"]
          /\ doc[r] # r => ~WrittenByOther(r, Id(r))
      BY <1>11, <2>2 DEF Complete, Matches
    <3>2. CASE doc[r] = r
      <4>1. staged[r] # "none"
        BY <1>11, <3>2 DEF Complete, RunInv, Inserted
      <4> QED
        BY <3>1, <4>1
    <3>3. CASE doc[r] # r
      <4>1. record[Id(r)] # NoRecord /\ record[Id(r)].creator = doc[r]
        BY <3>1, <3>3 DEF Matches
      <4>2. \A o \in Requests \ {r} : staged[o] # "none" => Id(o) # Id(r)
        BY <3>1, <3>3 DEF WrittenByOther
      <4>3. InTxn(r)
        BY <1>11 DEF Complete, RunInv
      <4> QED
        BY <3>1, <3>3, <4>1, <4>2, <4>3
    <3> QED
      BY <3>2, <3>3
  <2> QED
    BY <2>1, <2>2
<1>12. ASSUME NEW r \in Requests, Commit(r) PROVE InsertInv'
  <2>1. /\ \A o \in Requests : staged'[o] = IF o = r THEN "none" ELSE staged[o]
        /\ UNCHANGED <<call, doc>>
    BY <1>12, CommitFrame
  <2>2. \A o \in Requests \ {r} : staged[o] # "none" => record'[Id(o)] = record[Id(o)]
    <3>1. \A o \in Requests \ {r} : staged[o] # "none" /\ staged[r] # "none" => Id(o) # Id(r)
      OBVIOUS
    <3> HIDE DEF Id
    <3> QED
      BY <1>12, <3>1, CommitFrame, IdType
  <2>3. \A o \in Requests \ {r} : \/ txn'[o] = txn[o]
                                  \/ txn[o] = "active" /\ txn'[o] = "behind"
    BY <1>12, CommitFrame
  <2> QED
    BY <2>1, <2>2, <2>3
<1>13. ASSUME NEW r \in Requests, Catch(r) PROVE InsertInv'
  <2>1. /\ \A i \in Ids : /\ record'[i] = NoRecord <=> record[i] = NoRecord
                          /\ record[i] # NoRecord => record'[i].creator = record[i].creator
        /\ \A o \in Requests : \/ txn'[o] = txn[o]
                               \/ txn[o] = "active" /\ txn'[o] = "behind"
    BY <1>13, WriteStatusFrame DEF Catch, Statuses
  <2>2. UNCHANGED <<call, doc>> /\ \A o \in Requests : staged'[o] # "none" => staged[o] # "none"
    BY <1>13 DEF Catch
  <2> QED
    BY <2>1, <2>2, IdType
<1>14. ASSUME NEW r \in Requests, Abort(r) PROVE InsertInv'
  BY <1>14 DEF Abort, Goto, Discard
<1>15. ASSUME NEW r \in Requests, Release(r) PROVE InsertInv'
  BY <1>15 DEF Release, Finish, Answer
<1>16. ASSUME NEW r \in Requests, Reap(r) PROVE InsertInv'
  BY <1>16 DEF Reap, Discard
<1>17. ASSUME NEW r \in Requests, NEW t \in SUBSET NewTitles, Retitle(r, t) PROVE InsertInv'
  BY <1>17 DEF Retitle
<1>18. ASSUME NEW k \in Keys, LockExpires(k) PROVE InsertInv'
  BY <1>18 DEF LockExpires
<1>19. ASSUME NEW i \in Ids, TtlDelete(i) PROVE InsertInv'
  <2>1. \A o \in Requests : staged[o] # "none" => Id(o) # i
    BY <1>19, NobodyAssumption DEF TtlDelete, WrittenByOther
  <2> QED
    BY <1>19, <2>1 DEF TtlDelete, Overtake
<1>20. ASSUME NEW s \in Scopes, EditProfile(s) PROVE InsertInv'
  BY <1>20 DEF EditProfile
<1>21. ASSUME NEW p \in Servers, Crash(p) PROVE InsertInv'
  BY <1>21 DEF Crash
<1>22. CASE NextDay
  BY <1>22 DEF NextDay
<1>23. CASE UNCHANGED vars
  BY <1>23 DEF vars
<1>24. QED
  BY <1>1, <1>2, <1>3, <1>4, <1>5, <1>6, <1>7, <1>8, <1>9, <1>10, <1>11, <1>12,
     <1>13, <1>14, <1>15, <1>16, <1>17, <1>18, <1>19, <1>20, <1>21, <1>22, <1>23 DEF Next, Handle

LEMMA RunStep == TypeOK /\ RecordInv /\ RunInv /\ [Next]_vars => RunInv'
<1> SUFFICES ASSUME TypeOK, RecordInv, RunInv, [Next]_vars PROVE RunInv'
  OBVIOUS
<1> USE DEF TypeOK, RunInv, envVars, reqVars, Inserted, InTxn, Early
<1>1. ASSUME NEW r \in Requests, Lock(r) PROVE RunInv'
  BY <1>1 DEF Lock, Goto
<1>2. ASSUME NEW r \in Requests, Busy(r) PROVE RunInv'
  BY <1>2 DEF Busy, Finish, Answer
<1>3. ASSUME NEW r \in Requests, Invalid(r) PROVE RunInv'
  BY <1>3 DEF Invalid, Finish, Answer
<1>4. ASSUME NEW r \in Requests, Timeout(r) PROVE RunInv'
  BY <1>4 DEF Timeout, Answer
<1>5. ASSUME NEW r \in Requests, LateLock(r) PROVE RunInv'
  BY <1>5 DEF LateLock, Goto
<1>6. ASSUME NEW r \in Requests, Find(r) PROVE RunInv'
  <2>1. Found(r) /\ SameFingerprint(r) /\ record[Id(r)].status = "failed"
        => record[Id(r)].creator \in Requests \ {r}
    BY <1>6, FoundMeansTwin DEF Find
  <2> QED
    BY <1>6, <2>1 DEF Find, Finish, Goto, Answer
<1>7. ASSUME NEW r \in Requests, Replay(r) PROVE RunInv'
  BY <1>7 DEF Replay, Finish, Answer
<1>8. ASSUME NEW r \in Requests, Reopen(r) PROVE RunInv'
  <2>1. \A o \in Requests : \/ txn'[o] = txn[o]
                            \/ txn[o] = "active" /\ txn'[o] = "behind"
    BY <1>8, WriteStatusFrame DEF Reopen, Statuses
  <2> QED
    BY <1>8, <2>1 DEF Reopen, Goto
<1>9. ASSUME NEW r \in Requests, Create(r) PROVE RunInv'
  BY <1>9 DEF Create, Goto, Finish, Answer
<1>10. ASSUME NEW r \in Requests, Run(r) PROVE RunInv'
  BY <1>10 DEF Run, Goto, Discard
<1>11. ASSUME NEW r \in Requests, Complete(r) PROVE RunInv'
  <2>0. /\ pc[r] = "complete" /\ InTxn(r) /\ doc[r] \in Requests /\ r \notin effects
        /\ doc[r] = r => staged[r] # "none"
    BY <1>11 DEF Complete
  <2>1. CASE Discard(r) /\ Goto(r, "catch")
    BY <1>11, <2>0, <2>1 DEF Complete, Goto, Discard
  <2>2. ASSUME UNCHANGED txn, Goto(r, "commit"),
               staged' = IF Matches(r) THEN [staged EXCEPT ![r] = "completed"] ELSE staged
        PROVE  RunInv'
    <3>1. staged'[r] = "completed" \/ (staged'[r] = staged[r] /\ doc[r] # r)
      BY <2>2 DEF Matches
    <3>2. \A o \in Requests \ {r} : staged'[o] = staged[o] /\ pc'[o] = pc[o]
      BY <2>2 DEF Goto
    <3>3. pc'[r] = "commit" /\ UNCHANGED <<txn, doc, effects>>
      BY <1>11, <2>2 DEF Complete, Goto
    <3>4. doc[r] # r => staged[r] = "none"
      BY <2>0
    <3> QED
      BY <2>0, <3>1, <3>2, <3>3, <3>4
  <2> QED
    BY <1>11, <2>1, <2>2 DEF Complete
<1>12. ASSUME NEW r \in Requests, Commit(r) PROVE RunInv'
  <2>1. /\ doc' = doc /\ effects' \subseteq effects \cup {r}
        /\ txn'[r] \in {"ended", "committed"} /\ staged'[r] = "none"
        /\ pc'[r] \in {"release", "catch"} /\ doc[r] \in Requests
    BY <1>12, CommitFrame
  <2>2. \A o \in Requests \ {r} :
           /\ pc'[o] = pc[o] /\ staged'[o] = staged[o]
           /\ txn'[o] = txn[o] \/ (txn[o] = "active" /\ txn'[o] = "behind")
    BY <1>12, CommitFrame
  <2> QED
    BY <2>1, <2>2
<1>13. ASSUME NEW r \in Requests, Catch(r) PROVE RunInv'
  <2>1. \A o \in Requests : \/ txn'[o] = txn[o]
                            \/ txn[o] = "active" /\ txn'[o] = "behind"
    BY <1>13, WriteStatusFrame DEF Catch, Statuses
  <2> QED
    BY <1>13, <2>1 DEF Catch, Goto
<1>14. ASSUME NEW r \in Requests, Abort(r) PROVE RunInv'
  BY <1>14 DEF Abort, Goto, Discard
<1>15. ASSUME NEW r \in Requests, Release(r) PROVE RunInv'
  BY <1>15 DEF Release, Finish, Answer
<1>16. ASSUME NEW r \in Requests, Reap(r) PROVE RunInv'
  BY <1>16 DEF Reap, Discard
<1>17. ASSUME NEW r \in Requests, NEW t \in SUBSET NewTitles, Retitle(r, t) PROVE RunInv'
  BY <1>17 DEF Retitle
<1>18. ASSUME NEW k \in Keys, LockExpires(k) PROVE RunInv'
  BY <1>18 DEF LockExpires
<1>19. ASSUME NEW i \in Ids, TtlDelete(i) PROVE RunInv'
  BY <1>19 DEF TtlDelete, Overtake
<1>20. ASSUME NEW s \in Scopes, EditProfile(s) PROVE RunInv'
  BY <1>20 DEF EditProfile
<1>21. ASSUME NEW p \in Servers, Crash(p) PROVE RunInv'
  BY <1>21 DEF Crash
<1>22. CASE NextDay
  BY <1>22 DEF NextDay
<1>23. CASE UNCHANGED vars
  BY <1>23 DEF vars
<1>24. QED
  BY <1>1, <1>2, <1>3, <1>4, <1>5, <1>6, <1>7, <1>8, <1>9, <1>10, <1>11, <1>12,
     <1>13, <1>14, <1>15, <1>16, <1>17, <1>18, <1>19, <1>20, <1>21, <1>22, <1>23 DEF Next, Handle

LEMMA UniqueStep == TypeOK /\ RunInv /\ UniqueInv /\ [Next]_vars => UniqueInv'
<1> SUFFICES ASSUME TypeOK, RunInv, UniqueInv, [Next]_vars PROVE UniqueInv'
  OBVIOUS
<1> USE DEF TypeOK, UniqueInv, Saved, InTxn, envVars, reqVars
<1>0. ASSUME UNCHANGED <<call, effects, title>>, \A o \in Requests : Saved(o)' => Saved(o)
      PROVE  UniqueInv'
  BY <1>0
<1>1. ASSUME NEW r \in Requests, Lock(r) PROVE UniqueInv'
  <2>1. \A o \in Requests : Saved(o)' => Saved(o)
    BY <1>1 DEF Lock, Goto
  <2> QED BY <1>1, <2>1, <1>0 DEF Lock
<1>2. ASSUME NEW r \in Requests, Busy(r) PROVE UniqueInv'
  <2>1. \A o \in Requests : Saved(o)' => Saved(o)
    BY <1>2 DEF Busy, Finish, Answer
  <2> QED BY <1>2, <2>1, <1>0 DEF Busy
<1>3. ASSUME NEW r \in Requests, Invalid(r) PROVE UniqueInv'
  <2>1. \A o \in Requests : Saved(o)' => Saved(o)
    BY <1>3 DEF Invalid, Finish, Answer
  <2> QED BY <1>3, <2>1, <1>0 DEF Invalid
<1>4. ASSUME NEW r \in Requests, Timeout(r) PROVE UniqueInv'
  <2>1. \A o \in Requests : Saved(o)' => Saved(o)
    BY <1>4 DEF Timeout, Answer
  <2> QED BY <1>4, <2>1, <1>0 DEF Timeout
<1>5. ASSUME NEW r \in Requests, LateLock(r) PROVE UniqueInv'
  <2>1. \A o \in Requests : Saved(o)' => Saved(o)
    BY <1>5 DEF LateLock, Goto
  <2> QED BY <1>5, <2>1, <1>0 DEF LateLock
<1>6. ASSUME NEW r \in Requests, Find(r) PROVE UniqueInv'
  <2>1. \A o \in Requests : Saved(o)' => Saved(o)
    BY <1>6 DEF Find, Finish, Goto, Answer
  <2> QED BY <1>6, <2>1, <1>0 DEF Find
<1>7. ASSUME NEW r \in Requests, Replay(r) PROVE UniqueInv'
  <2>1. \A o \in Requests : Saved(o)' => Saved(o)
    BY <1>7 DEF Replay, Finish, Answer
  <2> QED BY <1>7, <2>1, <1>0 DEF Replay
<1>8. ASSUME NEW r \in Requests, Reopen(r) PROVE UniqueInv'
  <2>1. \A o \in Requests : txn'[o] = txn[o] \/ (InTxn(o) /\ InTxn(o)')
    BY <1>8, WriteStatusFrame DEF Reopen, Statuses, InTxn
  <2>2. \A o \in Requests : Saved(o)' => Saved(o)
    BY <1>8, <2>1 DEF Reopen, Goto
  <2> QED BY <1>8, <2>2, <1>0 DEF Reopen
<1>9. ASSUME NEW r \in Requests, Create(r) PROVE UniqueInv'
  <2>1. \A o \in Requests : Saved(o)' => Saved(o)
    BY <1>9 DEF Create, Goto, Finish, Answer
  <2> QED BY <1>9, <2>1, <1>0 DEF Create
<1>10. ASSUME NEW r \in Requests, Run(r) PROVE UniqueInv'
  <2>1. \A o \in Requests \ {r} : Saved(o)' => Saved(o)
    BY <1>10 DEF Run, Goto, Discard
  <2>2. Saved(r)' => ~NameTaken(call[r].body)
    BY <1>10 DEF Run, Goto, Discard
  <2>3. UNCHANGED <<effects, title, call>>
    BY <1>10 DEF Run
  <2> QED
    BY <2>1, <2>2, <2>3 DEF NameTaken
<1>11. ASSUME NEW r \in Requests, Complete(r) PROVE UniqueInv'
  <2>1. \A o \in Requests : Saved(o)' => Saved(o)
    BY <1>11 DEF Complete, Goto, Discard
  <2> QED BY <1>11, <2>1, <1>0 DEF Complete
<1>12. ASSUME NEW r \in Requests, Commit(r) PROVE UniqueInv'
  <2>1. \A o \in Requests \ {r} : Saved(o)' => Saved(o)
    BY <1>12, CommitFrame
  <2>2. ~Saved(r)' /\ Saved(r)
    BY <1>12, CommitFrame DEF Commit, RunInv
  <2>3. UNCHANGED <<title, call>> /\ effects' \in {effects, effects \cup {r}}
    BY <1>12, CommitFrame
  <2>4. r \notin effects
    BY <2>2 DEF RunInv
  <2>5. title[r] = {call[r].body}
    BY <2>4
  <2> HIDE DEF Saved
  <2>6. \A o \in Requests, e \in effects' : Saved(o)' => title[e] # {call[o].body}
    <3> SUFFICES ASSUME NEW o \in Requests, NEW e \in effects', Saved(o)'
                 PROVE  title[e] # {call[o].body}
      OBVIOUS
    <3>1. o # r /\ Saved(o)
      BY <2>1, <2>2
    <3>2. CASE e \in effects
      BY <3>1, <3>2
    <3>3. CASE e = r
      <4>1. call[r].body # call[o].body
        BY <2>2, <3>1
      <4> QED
        BY <2>5, <3>3, <4>1
    <3> QED
      BY <2>3, <3>2, <3>3
  <2> QED
    BY <2>1, <2>2, <2>3, <2>6
<1>13. ASSUME NEW r \in Requests, Catch(r) PROVE UniqueInv'
  <2>1. \A o \in Requests : txn'[o] = txn[o] \/ (InTxn(o) /\ InTxn(o)')
    BY <1>13, WriteStatusFrame DEF Catch, Statuses, InTxn
  <2>2. \A o \in Requests : Saved(o)' => Saved(o)
    BY <1>13, <2>1 DEF Catch, Goto
  <2> QED BY <1>13, <2>2, <1>0 DEF Catch
<1>14. ASSUME NEW r \in Requests, Abort(r) PROVE UniqueInv'
  <2>1. \A o \in Requests : Saved(o)' => Saved(o)
    BY <1>14 DEF Abort, Goto, Discard
  <2> QED BY <1>14, <2>1, <1>0 DEF Abort
<1>15. ASSUME NEW r \in Requests, Release(r) PROVE UniqueInv'
  <2>1. \A o \in Requests : Saved(o)' => Saved(o)
    BY <1>15 DEF Release, Finish, Answer
  <2> QED BY <1>15, <2>1, <1>0 DEF Release
<1>16. ASSUME NEW r \in Requests, Reap(r) PROVE UniqueInv'
  <2>1. \A o \in Requests : Saved(o)' => Saved(o)
    BY <1>16 DEF Reap, Discard
  <2> QED BY <1>16, <2>1, <1>0 DEF Reap
<1>17. ASSUME NEW r \in Requests, NEW t \in SUBSET NewTitles, Retitle(r, t) PROVE UniqueInv'
  <2>1. \A o \in Requests : Saved(o)' <=> Saved(o)
    BY <1>17 DEF Retitle
  <2>2. UNCHANGED <<effects, call>> /\ title' = [title EXCEPT ![r] = t] /\ r \in effects
    BY <1>17 DEF Retitle
  <2>3. \A o \in Requests : Saved(o) => t # {call[o].body}
    BY <1>17 DEF Retitle, NameTaken
  <2> QED
    BY <2>1, <2>2, <2>3
<1>18. ASSUME NEW k \in Keys, LockExpires(k) PROVE UniqueInv'
  <2>1. \A o \in Requests : Saved(o)' => Saved(o)
    BY <1>18 DEF LockExpires
  <2> QED BY <1>18, <2>1, <1>0 DEF LockExpires
<1>19. ASSUME NEW i \in Ids, TtlDelete(i) PROVE UniqueInv'
  <2>1. \A o \in Requests : Saved(o)' => Saved(o)
    BY <1>19 DEF TtlDelete, Overtake
  <2> QED BY <1>19, <2>1, <1>0 DEF TtlDelete
<1>20. ASSUME NEW s \in Scopes, EditProfile(s) PROVE UniqueInv'
  <2>1. \A o \in Requests : Saved(o)' => Saved(o)
    BY <1>20 DEF EditProfile
  <2> QED BY <1>20, <2>1, <1>0 DEF EditProfile
<1>21. ASSUME NEW p \in Servers, Crash(p) PROVE UniqueInv'
  <2>1. \A o \in Requests : Saved(o)' => Saved(o)
    BY <1>21 DEF Crash
  <2> QED BY <1>21, <2>1, <1>0 DEF Crash
<1>22. CASE NextDay
  BY <1>22 DEF NextDay
<1>23. CASE UNCHANGED vars
  BY <1>23 DEF vars
<1>24. QED
  BY <1>1, <1>2, <1>3, <1>4, <1>5, <1>6, <1>7, <1>8, <1>9, <1>10, <1>11, <1>12,
     <1>13, <1>14, <1>15, <1>16, <1>17, <1>18, <1>19, <1>20, <1>21, <1>22, <1>23 DEF Next, Handle

LEMMA InvInit == Init => IInv
<1> SUFFICES ASSUME Init PROVE IInv
  OBVIOUS
<1>1. TypeOK
  BY TypeInit
<1>2. RunInv /\ InsertInv /\ DocInv /\ RecordInv /\ ReplayInv /\ SuccessInv
  BY NobodyAssumption DEF Init, RunInv, InsertInv, DocInv, RecordInv, ReplayInv, SuccessInv, Early
<1>3. UniqueInv
  BY DEF Init, UniqueInv, Saved, InTxn
<1> QED
  BY <1>1, <1>2, <1>3 DEF IInv

LEMMA InvStep == IInv /\ [Next]_vars => IInv'
BY TypeStep, RunStep, InsertStep, DocStep, RecordStep, UniqueStep, ReplayStep,
   SuccessStep DEF IInv

LEMMA Invariant == Spec => []IInv
BY InvInit, InvStep, PTL DEF Spec

\* Every variable keeps its type, under every fault.
THEOREM TypeCorrect == Spec => []TypeOK
<1>1. IInv => TypeOK
  BY DEF IInv
<1> QED
  BY <1>1, Invariant, PTL

\* A replayed response belongs to a committed document of the same user,
\* operation, key and payload, under every fault.
THEOREM ReplayIsFaithfulThm == Spec => []ReplayIsFaithful
<1>1. IInv => ReplayIsFaithful
  BY DEF IInv, ReplayInv, ReplayIsFaithful, Twin
<1> QED
  BY <1>1, Invariant, PTL

\* A 201 is answered only once the document is committed, under every fault.
THEOREM SuccessIsDurableThm == Spec => []SuccessIsDurable
<1>1. IInv => SuccessIsDurable
  BY DEF IInv, SuccessInv, SuccessIsDurable
<1> QED
  BY <1>1, Invariant, PTL

\* Only a commit adds a document.  The request that commits has inserted its
\* record, or was let in by one: then its twin, the creator of that one, was told
\* that its commit had failed, and its document has not the title any more that
\* the request has just saved.
LEMMA CommitIsFirst ==
    ASSUME IInv, [Next]_vars, NEW q \in effects' \ effects
    PROVE  \/ record[Id(q)] = NoRecord
           \/ \E o \in effects : /\ Id(o) = Id(q) /\ call[o].body = call[q].body
                                 /\ MayBeRepeated(o)
<1>1. PICK r \in Requests : Commit(r)
  BY DEF Next, Handle, vars, envVars, reqVars, Lock, Busy, Invalid, Timeout, LateLock,
         Find, Replay, Reopen, Create, Run, Complete, Catch, Abort, Release, Reap,
         Retitle, LockExpires, TtlDelete, EditProfile, Crash, NextDay
<1>2. q = r
  BY <1>1, CommitFrame DEF IInv
<1>3. pc[r] = "commit" /\ Saved(r) /\ doc[r] \in Requests
  BY <1>1 DEF Commit, IInv, RunInv, Saved
<1>4. CASE doc[r] = r
  <2>1. staged[r] # "none"
    BY <1>3, <1>4 DEF IInv, RunInv, Inserted
  <2> QED
    BY <1>2, <1>4, <2>1 DEF IInv, InsertInv
<1>5. CASE doc[r] # r
  <2>1. Twin(r, doc[r]) /\ txn[doc[r]] = "ended"
    BY <1>3, <1>5 DEF IInv, DocInv
  <2>2. title[doc[r]] # {call[r].body}
    BY <1>3, <2>1 DEF IInv, UniqueInv, Twin
  <2> QED
    BY <1>2, <2>1, <2>2 DEF Twin, MayBeRepeated
<1> QED
  BY <1>4, <1>5

\* Under every fault: as long as the record lasts, a document is committed once,
\* unless its commit was reported as an error and its title was given up.
THEOREM AtMostOnceThm == Spec => AtMostOnce
<1>1. IInv /\ [Next]_vars
      => [\A r \in effects' \ effects :
             \/ record[Id(r)] = NoRecord
             \/ \E o \in effects : /\ Id(o) = Id(r) /\ call[o].body = call[r].body
                                   /\ MayBeRepeated(o)]_vars
  BY CommitIsFirst
<1> QED
  BY <1>1, Invariant, PTL DEF Spec, AtMostOnce

----------------------------------------------------------------------------
(* The lock.  Without stalls, a handler that runs owns the lock of its key  *)
(* and renews it until a request of the key outlives its timeout, so that a *)
(* DEL that ignores the owner is harmless.                                  *)
Steady == "stall" \notin Faults

LockInv == \A r \in Requests :
    /\ Executing(r) \/ pc[r] = "locked"
    /\ InTime(call[r].key)
    => lock[call[r].key] = r /\ beat[r]

LEMMA InTimeBefore ==
    ASSUME TypeOK, [Next]_vars, NEW k, InTime(k)'
    PROVE  InTime(k)
<1>1. \A r \in Requests : reply[r] = "timeout" => reply'[r] = "timeout"
  BY DEF TypeOK, Next, Handle, vars, envVars, reqVars, Lock, Busy, Invalid, Timeout,
         LateLock, Find, Replay, Reopen, Create, Run, Complete, Commit, Catch, Abort,
         Release, Reap, Retitle, LockExpires, TtlDelete, EditProfile, Crash, NextDay,
         Finish, Answer
<1>2. call' = call
  BY DEF Next, Handle, vars, envVars, reqVars, Lock, Busy, Invalid, Timeout,
         LateLock, Find, Replay, Reopen, Create, Run, Complete, Commit, Catch, Abort,
         Release, Reap, Retitle, LockExpires, TtlDelete, EditProfile, Crash, NextDay
<1> QED
  BY <1>1, <1>2 DEF InTime

LEMMA LockStep == Steady /\ TypeOK /\ LockInv /\ [Next]_vars => LockInv'
<1> SUFFICES ASSUME Steady, TypeOK, LockInv, [Next]_vars PROVE LockInv'
  OBVIOUS
<1>0. \A k : InTime(k)' => InTime(k)
  BY InTimeBefore
<1> USE DEF Steady, TypeOK, LockInv, Executing, Calls, Steps, envVars, reqVars
<1> USE NobodyAssumption, <1>0
<1>1. ASSUME NEW r \in Requests, Lock(r) PROVE LockInv'
  BY <1>1 DEF Lock, Goto
<1>2. ASSUME NEW r \in Requests, Busy(r) PROVE LockInv'
  BY <1>2 DEF Busy, Finish, Answer
<1>3. ASSUME NEW r \in Requests, Invalid(r) PROVE LockInv'
  BY <1>3 DEF Invalid, Finish, Answer
<1>4. ASSUME NEW r \in Requests, Timeout(r) PROVE LockInv'
  <2>1. reply'[r] = "timeout" /\ call' = call
    BY <1>4 DEF Timeout, Answer
  <2>2. \A q \in Requests : InTime(call[q].key)' => q # r
    BY <2>1 DEF InTime
  <2> QED
    BY <1>4, <2>1, <2>2 DEF Timeout
<1>5. ASSUME NEW r \in Requests, Find(r) PROVE LockInv'
  BY <1>5 DEF Find, Found, SameFingerprint, Fingerprint, Finish, Goto, Answer
<1>6. ASSUME NEW r \in Requests, Replay(r) PROVE LockInv'
  BY <1>6 DEF Replay, Finish, Answer
<1>7. ASSUME NEW r \in Requests, Reopen(r) PROVE LockInv'
  BY <1>7 DEF Reopen, WriteStatus, WithStatus, Goto, Overtake
<1>8. ASSUME NEW r \in Requests, Create(r) PROVE LockInv'
  BY <1>8 DEF Create, Goto, Finish, Answer
<1>9. ASSUME NEW r \in Requests, Run(r) PROVE LockInv'
  BY <1>9 DEF Run, Goto, Discard
<1>10. ASSUME NEW r \in Requests, Complete(r) PROVE LockInv'
  BY <1>10 DEF Complete, Goto, Discard
<1>11. ASSUME NEW r \in Requests, Commit(r) PROVE LockInv'
  BY <1>11 DEF Commit, Apply, Goto, Overtake
<1>12. ASSUME NEW r \in Requests, Catch(r) PROVE LockInv'
  BY <1>12 DEF Catch, WriteStatus, WithStatus, Goto, Overtake
<1>13. ASSUME NEW r \in Requests, Abort(r) PROVE LockInv'
  BY <1>13 DEF Abort, Goto, Discard
<1>14. ASSUME NEW r \in Requests, Release(r) PROVE LockInv'
  <2> SUFFICES ASSUME NEW q \in Requests, (Executing(q) \/ pc[q] = "locked")',
                      InTime(call[q].key)'
               PROVE  (lock[call[q].key] = q /\ beat[q])'
    BY DEF LockInv
  <2>1. /\ pc[r] = "release" /\ call' = call
        /\ pc' = [pc EXCEPT ![r] = "done"] /\ beat' = [beat EXCEPT ![r] = FALSE]
        /\ lock' = lock \/ lock' = [lock EXCEPT ![call[r].key] = Nobody]
    BY <1>14 DEF Release, Finish
  <2>2. q # r /\ (Executing(q) \/ pc[q] = "locked") /\ InTime(call[q].key)
    BY <2>1
  <2>3. lock[call[q].key] = q /\ beat[q]
    BY <2>2
  <2>4. call[r].key # call[q].key
    BY <2>1, <2>2, <2>3
  <2> QED
    BY <2>1, <2>2, <2>3, <2>4
<1>15. ASSUME NEW r \in Requests, Reap(r) PROVE LockInv'
  BY <1>15 DEF Reap, Discard
<1>16. ASSUME NEW k \in Keys, LockExpires(k) PROVE LockInv'
  BY <1>16 DEF LockExpires
<1>17. ASSUME NEW i \in Ids, TtlDelete(i) PROVE LockInv'
  BY <1>17 DEF TtlDelete, Overtake
<1>18. ASSUME NEW s \in Scopes, EditProfile(s) PROVE LockInv'
  BY <1>18 DEF EditProfile
<1>19. ASSUME NEW p \in Servers, Crash(p) PROVE LockInv'
  BY <1>19 DEF Crash
<1>20. CASE NextDay
  BY <1>20 DEF NextDay
<1>21. CASE UNCHANGED vars
  BY <1>21 DEF vars
<1>23. ASSUME NEW r \in Requests, LateLock(r) PROVE LockInv'
  BY <1>23 DEF LateLock, Goto
<1>24. ASSUME NEW r \in Requests, NEW t \in SUBSET NewTitles, Retitle(r, t) PROVE LockInv'
  BY <1>24 DEF Retitle
<1>22. QED
  BY <1>1, <1>2, <1>3, <1>4, <1>5, <1>6, <1>7, <1>8, <1>9, <1>10, <1>11,
     <1>12, <1>13, <1>14, <1>15, <1>16, <1>17, <1>18, <1>19, <1>20, <1>21, <1>23, <1>24 DEF Next, Handle

\* Requests that carry one key execute one at a time, however many there are
\* and wherever processes crash, if the heartbeat renews the lock in time, until
\* one of them outlives its timeout.
THEOREM MutualExclusionThm == Steady /\ Spec => []MutualExclusion
<1> SUFFICES ASSUME Steady PROVE Spec => []MutualExclusion
  OBVIOUS
<1>1. Init => LockInv
  BY DEF Init, LockInv, Executing
<1>2. TypeOK /\ LockInv => MutualExclusion
  BY DEF TypeOK, LockInv, MutualExclusion
<1>3. TypeOK /\ LockInv /\ [Next]_vars => LockInv'
  BY LockStep
<1> QED
  BY <1>1, <1>2, <1>3, TypeCorrect, PTL DEF Spec

----------------------------------------------------------------------------
(* Commits whose outcome is known.  No session is left without its          *)
(* transaction then, so that no FAILED is ever written to a record, and     *)
(* what reads one never runs.                                              *)
Known == "commit" \notin Faults

KnownInv ==
    /\ \A r \in Requests : /\ pc[r] # "reopen" /\ txn[r] # "ended"
                           /\ pc[r] = "commit" => staged[r] = "completed"
    /\ \A i \in Ids : record[i] # NoRecord => record[i].status = "completed"

LEMMA KnownStep ==
    Known /\ TypeOK /\ RunInv /\ DocInv /\ KnownInv /\ [Next]_vars => KnownInv'
<1> SUFFICES ASSUME Known, TypeOK, RunInv, DocInv, KnownInv, [Next]_vars
             PROVE  KnownInv'
  OBVIOUS
<1> USE DEF Known, TypeOK, KnownInv, envVars, reqVars
<1>1. ASSUME NEW r \in Requests, Lock(r) PROVE KnownInv'
  BY <1>1 DEF Lock, Goto
<1>2. ASSUME NEW r \in Requests, Busy(r) PROVE KnownInv'
  BY <1>2 DEF Busy, Finish, Answer
<1>3. ASSUME NEW r \in Requests, Invalid(r) PROVE KnownInv'
  BY <1>3 DEF Invalid, Finish, Answer
<1>4. ASSUME NEW r \in Requests, Timeout(r) PROVE KnownInv'
  BY <1>4 DEF Timeout, Answer
<1>5. ASSUME NEW r \in Requests, Find(r) PROVE KnownInv'
  <2>1. Found(r) => record[Id(r)].status = "completed"
    BY IdType DEF Found
  <2> QED BY <1>5, <2>1 DEF Find, Finish, Goto
<1>6. ASSUME NEW r \in Requests, Replay(r) PROVE KnownInv'
  BY <1>6 DEF Replay, Finish, Answer
<1>7. ASSUME NEW r \in Requests, Reopen(r) PROVE KnownInv'
  BY <1>7 DEF Reopen
<1>8. ASSUME NEW r \in Requests, Create(r) PROVE KnownInv'
  BY <1>8 DEF Create, Goto, Finish, Answer
<1>9. ASSUME NEW r \in Requests, Run(r) PROVE KnownInv'
  BY <1>9 DEF Run, Goto, Discard
<1>10. ASSUME NEW r \in Requests, Complete(r) PROVE KnownInv'
  <2>1. Matches(r)
    <3>1. doc[r] = r
      BY <1>10 DEF Complete, RunInv, DocInv
    <3> QED BY <3>1 DEF Matches
  <2> QED BY <1>10, <2>1 DEF Complete, Goto, Discard
<1>11. ASSUME NEW r \in Requests, Commit(r) PROVE KnownInv'
  <2>1. /\ staged[r] = "completed" /\ Apply(r) /\ Id(r) \in Ids
        /\ txn' = [Overtake(r, Id(r), txn) EXCEPT ![r] = "committed"]
        /\ pc' = [pc EXCEPT ![r] = "release"]
        /\ staged' = [staged EXCEPT ![r] = "none"]
    BY <1>11, IdType DEF Commit, Goto
  <2>2. \A o \in Requests : txn'[o] # "ended"
    BY <2>1, OvertakeFrame, OvertakeType
  <2>3. \A i \in Ids : record'[i] # NoRecord => record'[i].status = "completed"
    BY <2>1 DEF Apply
  <2> QED BY <2>1, <2>2, <2>3
<1>12. ASSUME NEW r \in Requests, Catch(r) PROVE KnownInv'
  <2>1. txn[r] \in {"none", "active", "behind"} \/ txn[r] = "aborted"
    BY <1>12 DEF Catch
  <2> QED BY <1>12, <2>1 DEF Catch, Goto
<1>13. ASSUME NEW r \in Requests, Abort(r) PROVE KnownInv'
  BY <1>13 DEF Abort, Goto, Discard
<1>14. ASSUME NEW r \in Requests, Release(r) PROVE KnownInv'
  BY <1>14 DEF Release, Finish, Answer
<1>15. ASSUME NEW r \in Requests, Reap(r) PROVE KnownInv'
  BY <1>15 DEF Reap, Discard
<1>16. ASSUME NEW k \in Keys, LockExpires(k) PROVE KnownInv'
  BY <1>16 DEF LockExpires
<1>17. ASSUME NEW i \in Ids, TtlDelete(i) PROVE KnownInv'
  BY <1>17 DEF TtlDelete, Overtake
<1>18. ASSUME NEW s \in Scopes, EditProfile(s) PROVE KnownInv'
  BY <1>18 DEF EditProfile
<1>19. ASSUME NEW p \in Servers, Crash(p) PROVE KnownInv'
  BY <1>19 DEF Crash
<1>20. CASE NextDay
  BY <1>20 DEF NextDay
<1>21. CASE UNCHANGED vars
  BY <1>21 DEF vars
<1>23. ASSUME NEW r \in Requests, LateLock(r) PROVE KnownInv'
  BY <1>23 DEF LateLock, Goto
<1>24. ASSUME NEW r \in Requests, NEW t \in SUBSET NewTitles, Retitle(r, t) PROVE KnownInv'
  BY <1>24 DEF Retitle
<1>22. QED
  BY <1>1, <1>2, <1>3, <1>4, <1>5, <1>6, <1>7, <1>8, <1>9, <1>10, <1>11,
     <1>12, <1>13, <1>14, <1>15, <1>16, <1>17, <1>18, <1>19, <1>20, <1>21, <1>23, <1>24 DEF Next, Handle

\* As long as the outcome of commits is known, a visible record is that of finished
\* work whose document is committed: the branches of resolveStatus for other
\* records are dead.
THEOREM RecordMeansEffectThm == Known /\ Spec => []RecordMeansEffect
<1> SUFFICES ASSUME Known PROVE Spec => []RecordMeansEffect
  OBVIOUS
<1>1. Init => KnownInv
  BY DEF Init, KnownInv
<1>2. IInv /\ KnownInv => RecordMeansEffect
  BY DEF IInv, RecordInv, KnownInv, RecordMeansEffect, Twin
<1>3. IInv /\ KnownInv /\ [Next]_vars => KnownInv'
  BY KnownStep DEF IInv
<1> QED
  BY <1>1, <1>2, <1>3, Invariant, PTL DEF Spec

\* Whose document is committed is about to be told so; if Redis deletes locks, it
\* is told nothing else.
ToldInv == \A r \in Requests :
    /\ pc[r] # "done" => reply[r] \in {"none", "timeout"}
    /\ r \in effects => /\ txn[r] = "committed"
                        /\ pc[r] \in {"release", "done", "dead"}
                        /\ "redis" \notin Faults => reply[r] \in {"none", "timeout", "created"}

LEMMA ToldStep == Known /\ TypeOK /\ RunInv /\ ToldInv /\ [Next]_vars => ToldInv'
<1> SUFFICES ASSUME Known, TypeOK, RunInv, ToldInv, [Next]_vars PROVE ToldInv'
  OBVIOUS
<1> USE DEF Known, TypeOK, ToldInv, envVars, reqVars
<1>1. ASSUME NEW r \in Requests, Lock(r) PROVE ToldInv'
  BY <1>1 DEF Lock, Goto
<1>2. ASSUME NEW r \in Requests, Busy(r) PROVE ToldInv'
  BY <1>2 DEF Busy, Finish, Answer
<1>3. ASSUME NEW r \in Requests, Invalid(r) PROVE ToldInv'
  BY <1>3 DEF Invalid, Finish, Answer
<1>4. ASSUME NEW r \in Requests, Timeout(r) PROVE ToldInv'
  BY <1>4 DEF Timeout, Answer
<1>5. ASSUME NEW r \in Requests, Find(r) PROVE ToldInv'
  BY <1>5 DEF Find, Finish, Goto, Answer
<1>6. ASSUME NEW r \in Requests, Replay(r) PROVE ToldInv'
  BY <1>6 DEF Replay, Finish, Answer
<1>7. ASSUME NEW r \in Requests, Reopen(r) PROVE ToldInv'
  <2>1. \A o \in Requests : txn'[o] = txn[o] \/ (txn[o] = "active" /\ txn'[o] = "behind")
    BY <1>7, WriteStatusFrame DEF Reopen, Statuses
  <2> QED BY <1>7, <2>1 DEF Reopen, Goto
<1>8. ASSUME NEW r \in Requests, Create(r) PROVE ToldInv'
  BY <1>8 DEF Create, Goto, Finish, Answer
<1>9. ASSUME NEW r \in Requests, Run(r) PROVE ToldInv'
  BY <1>9 DEF Run, Goto, Discard
<1>10. ASSUME NEW r \in Requests, Complete(r) PROVE ToldInv'
  BY <1>10 DEF Complete, Goto, Discard
<1>11. ASSUME NEW r \in Requests, Commit(r) PROVE ToldInv'
  <2>1. /\ effects' = effects \cup {r} /\ txn'[r] = "committed"
        /\ \A o \in Requests \ {r} : \/ txn'[o] = txn[o]
                                     \/ txn[o] = "active" /\ txn'[o] = "behind"
    BY <1>11, OvertakeFrame, OvertakeType DEF Commit, Apply
  <2> QED BY <1>11, <2>1 DEF Commit, Goto
<1>12. ASSUME NEW r \in Requests, Catch(r) PROVE ToldInv'
  <2>1. \A o \in Requests : txn'[o] = txn[o] \/ (txn[o] = "active" /\ txn'[o] = "behind")
    BY <1>12, WriteStatusFrame DEF Catch, Statuses
  <2> QED BY <1>12, <2>1 DEF Catch, Goto
<1>13. ASSUME NEW r \in Requests, Abort(r) PROVE ToldInv'
  BY <1>13 DEF Abort, Goto, Discard
<1>14. ASSUME NEW r \in Requests, Release(r) PROVE ToldInv'
  BY <1>14 DEF Release, Finish, Answer
<1>15. ASSUME NEW r \in Requests, Reap(r) PROVE ToldInv'
  BY <1>15 DEF Reap, Discard, InTxn
<1>16. ASSUME NEW k \in Keys, LockExpires(k) PROVE ToldInv'
  BY <1>16 DEF LockExpires
<1>17. ASSUME NEW i \in Ids, TtlDelete(i) PROVE ToldInv'
  BY <1>17 DEF TtlDelete, Overtake
<1>18. ASSUME NEW s \in Scopes, EditProfile(s) PROVE ToldInv'
  BY <1>18 DEF EditProfile
<1>19. ASSUME NEW p \in Servers, Crash(p) PROVE ToldInv'
  BY <1>19 DEF Crash
<1>20. CASE NextDay
  BY <1>20 DEF NextDay
<1>21. CASE UNCHANGED vars
  BY <1>21 DEF vars
<1>23. ASSUME NEW r \in Requests, LateLock(r) PROVE ToldInv'
  BY <1>23 DEF LateLock, Goto
<1>24. ASSUME NEW r \in Requests, NEW t \in SUBSET NewTitles, Retitle(r, t) PROVE ToldInv'
  BY <1>24 DEF Retitle
<1>22. QED
  BY <1>1, <1>2, <1>3, <1>4, <1>5, <1>6, <1>7, <1>8, <1>9, <1>10, <1>11,
     <1>12, <1>13, <1>14, <1>15, <1>16, <1>17, <1>18, <1>19, <1>20, <1>21, <1>23, <1>24 DEF Next, Handle

\* As long as the outcome of commits is known and Redis deletes locks, an error
\* means that nothing was saved: the client may send the request again.
THEOREM FailureMeansNothingThm ==
    Known /\ "redis" \notin Faults /\ Spec => []FailureMeansNothing
<1> SUFFICES ASSUME Known, "redis" \notin Faults PROVE Spec => []FailureMeansNothing
  OBVIOUS
<1>1. Init => ToldInv
  BY DEF Init, ToldInv
<1>2. ToldInv => FailureMeansNothing
  BY DEF ToldInv, FailureMeansNothing
<1>3. IInv /\ ToldInv /\ [Next]_vars => ToldInv'
  BY ToldStep DEF IInv
<1> QED
  BY <1>1, <1>2, <1>3, Invariant, PTL DEF Spec

----------------------------------------------------------------------------
(* The refinement of IdempotentApi.                                         *)

LEMMA AskedSame == call' = call => Asked' = Asked
BY DEF Asked, Id

LEMMA MemorySame == record' = record => Memory' = Memory
BY DEF Memory

\* An answer is a step of the abstract endpoint; a second one is none.
LEMMA AnswerTells ==
    ASSUME TypeOK, NEW r \in Requests, NEW a \in Replies \ {"none"}, Answer(r, a),
           call' = call, record' = record, effects' = effects,
           a = "created" => r \in effects,
           a = "replayed" => \E o \in effects : Asked[o] = Asked[r]
    PROVE  [Api!Next]_<<Asked, Memory, effects, Told>>
<1>1. Asked' = Asked /\ Memory' = Memory
  BY AskedSame, MemorySame
<1>2. CASE reply[r] # "none"
  <2>1. reply' = reply
    BY <1>2 DEF Answer, TypeOK
  <2> QED BY <1>1, <2>1 DEF Told
<1>3. CASE reply[r] = "none"
  <2> DEFINE b == IF a \in {"created", "replayed"} THEN a ELSE "rejected"
  <2>1. reply' = [reply EXCEPT ![r] = a]
    BY <1>3 DEF Answer, TypeOK
  <2>2. Told[r] = "none" /\ Told' = [Told EXCEPT ![r] = b]
    BY <1>3, <2>1 DEF Told, TypeOK
  <2>3. Api!Tell(r, b)
    BY <1>1, <2>2 DEF Api!Tell
  <2>4. \/ b = "created" /\ r \in effects
        \/ b = "replayed" /\ \E o \in effects : Asked[o] = Asked[r]
        \/ b = "rejected"
    OBVIOUS
  <2> HIDE DEF b
  <2>5. Api!Created(r) \/ Api!Replayed(r) \/ Api!Rejected(r)
    BY <2>3, <2>4 DEF Api!Created, Api!Replayed, Api!Rejected
  <2> QED BY <2>5 DEF Api!Next
<1> QED BY <1>2, <1>3

\* A commit executes the request.
LEMMA CommitExecutes ==
    ASSUME Known, IInv, KnownInv, ToldInv, NEW r \in Requests, Commit(r)
    PROVE  Api!Execute(r)
<1>1. /\ TypeOK /\ pc[r] = "commit" /\ doc[r] = r /\ staged[r] # "none"
      /\ record[Id(r)] = NoRecord /\ Id(r) \in Ids
  <2>1. TypeOK /\ pc[r] = "commit" /\ Id(r) \in Ids
    BY IdType DEF IInv, Commit
  <2>2. doc[r] = r
    BY <2>1 DEF IInv, RunInv, DocInv, KnownInv
  <2>3. staged[r] # "none"
    BY <2>1, <2>2 DEF IInv, RunInv, Inserted
  <2> QED
    BY <2>1, <2>2, <2>3 DEF IInv, InsertInv
<1>2. r \notin effects /\ reply[r] \in {"none", "timeout"}
  BY <1>1 DEF ToldInv
<1>3. /\ effects' = effects \cup {r}
      /\ \A i \in Ids \ {Id(r)} : record'[i] = record[i]
      /\ record'[Id(r)] # NoRecord /\ record'[Id(r)].by = r
  <2>1. effects' = effects \cup {r}
    BY DEF Known, Commit, Apply
  <2> QED BY <1>1, <1>2, <2>1, CommitFrame DEF IInv
<1>4. call' = call /\ reply' = reply
  BY DEF Commit, envVars
<1>5. Asked[r].slot = Id(r) /\ Memory[Id(r)] = Nobody
  BY <1>1 DEF Asked, Memory
<1>6. Memory' = [Memory EXCEPT ![Id(r)] = r]
  BY <1>1, <1>3 DEF Memory
<1>7. Told[r] \in {"none", "rejected"} /\ Told' = Told /\ Asked' = Asked
  BY <1>2, <1>4, AskedSame DEF Told
<1> QED BY <1>2, <1>3, <1>5, <1>6, <1>7 DEF Api!Execute

LEMMA TtlForgets ==
    ASSUME TypeOK, NEW i \in Ids, TtlDelete(i)
    PROVE  Api!Forget(i)
<1>1. /\ record[i] # NoRecord /\ record' = [record EXCEPT ![i] = NoRecord]
      /\ call' = call /\ effects' = effects /\ reply' = reply
  BY DEF TtlDelete, envVars
<1>2. Memory[i] # Nobody
  BY <1>1, RecordType, NobodyAssumption DEF Memory
<1>3. Memory' = [Memory EXCEPT ![i] = Nobody]
  BY <1>1 DEF Memory, TypeOK
<1>4. Asked' = Asked /\ Told' = Told
  BY <1>1, AskedSame DEF Told
<1> QED BY <1>1, <1>2, <1>3, <1>4 DEF Api!Forget

LEMMA ApiStep ==
    Known /\ IInv /\ KnownInv /\ ToldInv /\ [Next]_vars
    => [Api!Next]_<<Asked, Memory, effects, Told>>
<1> SUFFICES ASSUME Known, IInv, KnownInv, ToldInv, [Next]_vars
             PROVE  [Api!Next]_<<Asked, Memory, effects, Told>>
  OBVIOUS
<1> DEFINE Goal == [Api!Next]_<<Asked, Memory, effects, Told>>
           Still == call' = call /\ record' = record /\ effects' = effects
<1>1. TypeOK
  BY DEF IInv
<1>2. ASSUME Still, reply' = reply PROVE Goal
  BY <1>2, AskedSame, MemorySame DEF Told
<1>3. ASSUME Still, NEW r \in Requests, NEW a \in Replies \ {"none", "created", "replayed"},
             Answer(r, a)
      PROVE  Goal
  BY <1>1, <1>3, AnswerTells
<1>4. ASSUME NEW r \in Requests, Lock(r) PROVE Goal
  BY <1>2, <1>4 DEF Lock, envVars
<1>5. ASSUME NEW r \in Requests, Busy(r) PROVE Goal
  BY <1>3, <1>5 DEF Busy, Finish, Replies, envVars
<1>6. ASSUME NEW r \in Requests, Invalid(r) PROVE Goal
  BY <1>3, <1>6 DEF Invalid, Finish, Replies, envVars
<1>7. ASSUME NEW r \in Requests, Timeout(r) PROVE Goal
  BY <1>3, <1>7 DEF Timeout, Replies, envVars
<1>8. ASSUME NEW r \in Requests, Find(r) PROVE Goal
  <2>1. Still /\ \/ reply' = reply
                 \/ Finish(r, "mismatch")
                 \/ Finish(r, "inprogress")
    BY <1>8 DEF Find, envVars
  <2> QED BY <1>2, <1>3, <2>1 DEF Finish, Replies
<1>9. ASSUME NEW r \in Requests, Replay(r) PROVE Goal
  <2>1. Still /\ (Finish(r, "replayed") \/ Finish(r, "failed")) /\ pc[r] = "replay"
    BY <1>9 DEF Replay, envVars
  <2>2. replay[r] \in effects /\ Asked[replay[r]] = Asked[r]
    BY <1>1, <2>1 DEF IInv, ReplayInv, Twin, Asked, TypeOK
  <2> QED BY <1>1, <1>3, <2>1, <2>2, AnswerTells DEF Finish, Replies
<1>10. ASSUME NEW r \in Requests, Reopen(r) PROVE Goal
  BY <1>10 DEF Reopen, KnownInv
<1>11. ASSUME NEW r \in Requests, Create(r) PROVE Goal
  <2>1. Still /\ (reply' = reply \/ Finish(r, "failed"))
    BY <1>11 DEF Create, envVars
  <2> QED BY <1>2, <1>3, <2>1 DEF Finish, Replies
<1>12. ASSUME NEW r \in Requests, Run(r) \/ Complete(r) \/ Abort(r) \/ Reap(r) PROVE Goal
  BY <1>2, <1>12 DEF Run, Complete, Abort, Reap, envVars
<1>13. ASSUME NEW r \in Requests, Commit(r) PROVE Goal
  BY <1>13, CommitExecutes DEF Api!Next
<1>14. ASSUME NEW r \in Requests, Catch(r) PROVE Goal
  BY <1>2, <1>14 DEF Catch, KnownInv, envVars
<1>15. ASSUME NEW r \in Requests, Release(r) PROVE Goal
  <2>1. Still /\ (Finish(r, "failed") \/ (Finish(r, "created") /\ txn[r] = "committed"))
    BY <1>15 DEF Release, envVars
  <2>2. txn[r] = "committed" => r \in effects
    BY DEF IInv, SuccessInv
  <2> QED BY <1>1, <1>3, <2>1, <2>2, AnswerTells DEF Finish, Replies
<1>16. ASSUME NEW k \in Keys, LockExpires(k) PROVE Goal
  BY <1>2, <1>16 DEF LockExpires, envVars, reqVars
<1>17. ASSUME NEW i \in Ids, TtlDelete(i) PROVE Goal
  BY <1>1, <1>17, TtlForgets DEF Api!Next
<1>18. ASSUME NEW s \in Scopes, EditProfile(s) PROVE Goal
  BY <1>2, <1>18 DEF EditProfile, reqVars
<1>19. ASSUME NEW p \in Servers, Crash(p) PROVE Goal
  BY <1>2, <1>19 DEF Crash
<1>20. ASSUME NextDay PROVE Goal
  BY <1>2, <1>20 DEF NextDay, reqVars
<1>21. ASSUME UNCHANGED vars PROVE Goal
  BY <1>2, <1>21 DEF vars, envVars, reqVars
<1>22. ASSUME NEW r \in Requests, Handle(r) PROVE Goal
  BY <1>8, <1>9, <1>10, <1>11, <1>12, <1>13, <1>14, <1>15, <1>22 DEF Handle
<1>25. ASSUME NEW r \in Requests, LateLock(r) PROVE Goal
  BY <1>2, <1>25 DEF LateLock, envVars
<1>26. ASSUME NEW r \in Requests, NEW t \in SUBSET NewTitles, Retitle(r, t) PROVE Goal
  BY <1>2, <1>26 DEF Retitle, reqVars
<1> HIDE DEF Goal, Still
<1>23. ASSUME Next PROVE Goal
  BY <1>4, <1>5, <1>6, <1>7, <1>12, <1>16, <1>17, <1>18, <1>19, <1>20, <1>22, <1>23,
     <1>25, <1>26 DEF Next
<1> QED BY <1>21, <1>23 DEF Goal

\* As long as the outcome of commits is known, the handler with its lock, record
\* and transaction is an endpoint that executes a request and remembers it in one
\* step, whichever other faults happen.
THEOREM RefinementThm == Known /\ Spec => Refinement
<1> SUFFICES ASSUME Known PROVE Spec => Refinement
  OBVIOUS
<1>1. Init => KnownInv /\ ToldInv
  BY DEF Init, KnownInv, ToldInv
<1>2. Init => Api!Init
  <2> SUFFICES ASSUME Init PROVE Api!Init
    OBVIOUS
  <2>1. TypeOK
    BY TypeInit
  <2>2. Asked \in [Requests -> [slot : Ids, payload : Bodies]]
    BY <2>1, IdType DEF Asked, TypeOK, Calls
  <2>3. Memory = [i \in Ids |-> Nobody] /\ Told = [r \in Requests |-> "none"]
    BY DEF Init, Memory, Told
  <2> QED BY <2>2, <2>3 DEF Api!Init, Init
<1>3. IInv /\ KnownInv /\ ToldInv /\ [Next]_vars => KnownInv' /\ ToldInv'
  BY KnownStep, ToldStep DEF IInv
<1>4. IInv /\ KnownInv /\ ToldInv /\ [Next]_vars
      => [Api!Next]_<<Asked, Memory, effects, Told>>
  BY ApiStep
<1> QED
  BY <1>1, <1>2, <1>3, <1>4, Invariant, PTL DEF Spec, Refinement, Api!Spec
============================================================================
