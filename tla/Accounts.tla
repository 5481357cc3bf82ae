------------------------------ MODULE Accounts ------------------------------
(***************************************************************************)
(* AuthService and OtpService: a client asks for an OTP, which Redis keeps  *)
(* for two minutes, and answers it.  The first correct answer for an        *)
(* identifier creates a user with preferences in one transaction; each one  *)
(* signs the client's session in.                                          *)
(*                                                                         *)
(* An OTP is named by the request that issued it, a user by the request     *)
(* that created it.  Whether an answer or a password is right is left open. *)
(***************************************************************************)
EXTENDS FiniteSets

CONSTANTS
    Requests,
    Identifiers, \* e-mail addresses and phone numbers
    Sessions,
    None         \* no OTP, nobody

ASSUME NoneAssumption == None \notin Requests /\ None \notin Identifiers

VARIABLES
    identifier, \* identifier[r]: the one r is about
    browser,    \* browser[r]: session of the client that sends r
    pc,         \* pc[r]: what r does next
    read,       \* read[r]: the OTP that r answered
    found,      \* found[r]: the user that r found or creates
    staged,     \* staged[r]: documents that r's open transaction has written
    late,       \* requests whose client was answered that they timed out
    otp,        \* otp[i]: Redis: the OTP of identifier i
    user,       \* user[u]: identifier of user u
    preferences, \* users that have preferences
    session     \* session[s]: the user who is signed in

inputs == <<identifier, browser>>
handlers == <<pc, read, found, staged, late>>
documents == <<user, preferences>>
vars == <<inputs, handlers, otp, documents, session>>

Issuing == {"get", "check", "set"}
Verifying == {"fetch", "del", "find", "password", "create", "lookup", "prefer", "commit", "sign"}
PCs == {"new", "issued", "signed", "failed"} \cup Issuing \cup Verifying

TypeOK ==
    /\ identifier \in [Requests -> Identifiers]
    /\ browser \in [Requests -> Sessions]
    /\ pc \in [Requests -> PCs]
    /\ read \in [Requests -> Requests \cup {None}]
    /\ found \in [Requests -> Requests \cup {None}]
    /\ staged \in [Requests -> SUBSET {"user", "preference"}]
    /\ late \subseteq Requests
    /\ otp \in [Identifiers -> Requests \cup {None}]
    /\ user \in [Requests -> Identifiers \cup {None}]
    /\ preferences \subseteq Requests
    /\ session \in [Sessions -> Requests \cup {None}]

Init ==
    /\ identifier \in [Requests -> Identifiers]
    /\ browser \in [Requests -> Sessions]
    /\ pc = [r \in Requests |-> "new"]
    /\ read = [r \in Requests |-> None]
    /\ found = [r \in Requests |-> None]
    /\ staged = [r \in Requests |-> {}]
    /\ late = {}
    /\ otp = [i \in Identifiers |-> None]
    /\ user = [r \in Requests |-> None]
    /\ preferences = {}
    /\ session = [s \in Sessions |-> None]

Step(r, from, to) == pc[r] = from /\ pc' = [pc EXCEPT ![r] = to]

\* BlockIfAuthenticatedGuard lets r pass.
Begin(r) ==
    /\ session[browser[r]] = None
    /\ \E first \in {"get", "fetch", "password"} : Step(r, "new", first)
    /\ UNCHANGED <<inputs, read, found, staged, late, otp, documents, session>>

----------------------------------------------------------------------------
(* issueOtp *)

\* Two looks, one by the service and one by createFor.
Look(r) ==
    /\ otp[identifier[r]] = None
    /\ Step(r, "get", "check") \/ Step(r, "check", "set")
    /\ UNCHANGED <<inputs, read, found, staged, late, otp, documents, session>>

SetOtp(r) ==
    /\ Step(r, "set", "issued")
    /\ otp' = [otp EXCEPT ![identifier[r]] = r]
    /\ UNCHANGED <<inputs, read, found, staged, late, documents, session>>

\* GETDEL, whatever the id that the client sent.
CancelOtp(i) ==
    /\ otp[i] # None
    /\ otp' = [otp EXCEPT ![i] = None]
    /\ UNCHANGED <<inputs, handlers, documents, session>>

Expire(i) ==
    /\ otp[i] # None
    /\ otp' = [otp EXCEPT ![i] = None]
    /\ UNCHANGED <<inputs, handlers, documents, session>>

----------------------------------------------------------------------------
(* verifyByOtp *)

Fetch(r) ==
    /\ otp[identifier[r]] # None
    /\ Step(r, "fetch", "del")
    /\ read' = [read EXCEPT ![r] = otp[identifier[r]]]
    /\ UNCHANGED <<inputs, found, staged, late, otp, documents, session>>

\* Mutant of Del: the OTP is left to its TTL.
DelLater(r) ==
    /\ Step(r, "del", "find")
    /\ UNCHANGED <<inputs, read, found, staged, late, otp, documents, session>>

\* DEL of whatever the key holds by now.
Del(r) ==
    /\ Step(r, "del", "find")
    /\ otp' = [otp EXCEPT ![identifier[r]] = None]
    /\ UNCHANGED <<inputs, read, found, staged, late, documents, session>>

UsersOf(i) == {u \in Requests : user[u] = i}

\* Mutant of Find: the identifier is taken for the user's id.
FindIdentifier(r) ==
    /\ \/ /\ UsersOf(identifier[r]) # {}
          /\ found' = [found EXCEPT ![r] = identifier[r]]
          /\ Step(r, "find", "sign")
       \/ /\ UsersOf(identifier[r]) = {}
          /\ Step(r, "find", "create")
          /\ UNCHANGED found
    /\ UNCHANGED <<inputs, read, staged, late, otp, documents, session>>

\* findOneByIdentifier; startSession and startTransaction if there is no user.
Find(r) ==
    /\ \/ /\ \E u \in UsersOf(identifier[r]) : found' = [found EXCEPT ![r] = u]
          /\ Step(r, "find", "sign")
       \/ /\ UsersOf(identifier[r]) = {}
          /\ Step(r, "find", "create")
          /\ UNCHANGED found
    /\ UNCHANGED <<inputs, read, staged, late, otp, documents, session>>

\* verifyByPassword, of a user who has one.
VerifyByPassword(r) ==
    /\ \E u \in UsersOf(identifier[r]) : found' = [found EXCEPT ![r] = u]
    /\ Step(r, "password", "sign")
    /\ UNCHANGED <<inputs, read, staged, late, otp, documents, session>>

\* Mutant of Taken: only users that are committed count.
TakenByUser(i) == UsersOf(i) # {}
\* The unique indexes of email and phone refuse another user of i, committed or not.
Taken(i) ==
    UsersOf(i) # {} \/ \E q \in Requests : "user" \in staged[q] /\ identifier[q] = i

\* Mutant of CreateUser: save() without the session.
CreateUserOutside(r) ==
    /\ ~Taken(identifier[r])
    /\ Step(r, "create", "lookup")
    /\ found' = [found EXCEPT ![r] = r]
    /\ user' = [user EXCEPT ![r] = identifier[r]]
    /\ staged' = [staged EXCEPT ![r] = {"user"}]
    /\ UNCHANGED <<inputs, read, late, otp, preferences, session>>

CreateUser(r) ==
    /\ ~Taken(identifier[r])
    /\ Step(r, "create", "lookup")
    /\ found' = [found EXCEPT ![r] = r]
    /\ staged' = [staged EXCEPT ![r] = {"user"}]
    /\ UNCHANGED <<inputs, read, late, otp, documents, session>>

\* findOne of createPreference is not part of the transaction.
LookupPreference(r) ==
    /\ found[r] \notin preferences
    /\ Step(r, "lookup", "prefer")
    /\ UNCHANGED <<inputs, read, found, staged, late, otp, documents, session>>

CreatePreference(r) ==
    /\ staged[r] # {}
    /\ Step(r, "prefer", "commit")
    /\ staged' = [staged EXCEPT ![r] = @ \cup {"preference"}]
    /\ UNCHANGED <<inputs, read, found, late, otp, documents, session>>

\* Mutant of Commit: nobody waits for it.
CommitUnawaited(r) ==
    /\ Step(r, "commit", "sign")
    /\ UNCHANGED <<inputs, read, found, staged, late, otp, documents, session>>

\* The answer of a commit may be lost: then it throws.
Commit(r) ==
    /\ staged[r] # {}
    /\ Step(r, "commit", "sign") \/ Step(r, "commit", "failed")
    /\ user' = [user EXCEPT ![r] = IF "user" \in staged[r] THEN identifier[r] ELSE @]
    /\ preferences' = preferences \cup (IF "preference" \in staged[r] THEN {r} ELSE {})
    /\ staged' = [staged EXCEPT ![r] = {}]
    /\ UNCHANGED <<inputs, read, found, late, otp, session>>

\* The session is saved with the response, unless that was sent before.
Sign(r) ==
    /\ IF r \in late
         THEN Step(r, "sign", "failed") /\ UNCHANGED session
         ELSE Step(r, "sign", "signed") /\ session' = [session EXCEPT ![browser[r]] = found[r]]
    /\ UNCHANGED <<inputs, read, found, staged, late, otp, documents>>

----------------------------------------------------------------------------
\* A check or a call of r fails, or its process dies.  Nothing aborts its
\* transaction or ends its session.
Fail(r) ==
    /\ pc[r] \in Issuing \cup Verifying
    /\ Step(r, pc[r], "failed")
    /\ UNCHANGED <<inputs, read, found, staged, late, otp, documents, session>>

\* MongoDB aborts it, on an error or after transactionLifetimeLimitSeconds.
Reap(r) ==
    /\ staged[r] # {}
    /\ staged' = [staged EXCEPT ![r] = {}]
    /\ UNCHANGED <<inputs, pc, read, found, late, otp, documents, session>>

\* ResponseInterceptor answers 408, and r goes on.
Timeout(r) ==
    /\ pc[r] \in Issuing \cup Verifying
    /\ late' = late \cup {r}
    /\ UNCHANGED <<inputs, pc, read, found, staged, otp, documents, session>>

Logout(s) ==
    /\ session[s] # None
    /\ session' = [session EXCEPT ![s] = None]
    /\ UNCHANGED <<inputs, handlers, otp, documents>>

Next ==
    \/ \E r \in Requests :
          \/ Begin(r) \/ Look(r) \/ SetOtp(r) \/ Fetch(r) \/ Del(r) \/ Find(r)
          \/ VerifyByPassword(r) \/ CreateUser(r) \/ LookupPreference(r)
          \/ CreatePreference(r) \/ Commit(r) \/ Sign(r) \/ Fail(r) \/ Reap(r) \/ Timeout(r)
    \/ \E i \in Identifiers : CancelOtp(i) \/ Expire(i)
    \/ \E s \in Sessions : Logout(s)

Spec == Init /\ [][Next]_vars

----------------------------------------------------------------------------
(* Properties *)

\* Whatever step of a first sign-in fails, times out or loses its answer, there is
\* no user without preferences, and there are no preferences without a user.
UsersHavePreferences == {u \in Requests : user[u] # None} = preferences

\* Overlapping first sign-ins with one OTP do not make two users of an identifier,
\* though each of them looked and found none.
OneUserPerIdentifier ==
    \A u, v \in Requests : user[u] # None /\ user[u] = user[v] => u = v

\* An OTP that was answered correctly is never accepted of a request that comes
\* later, even if that sign-in fails afterwards, whatever expires or is issued in
\* between.
Spent(r) == read[r] # None /\ (pc[r] \in {"find", "create"} \/ found[r] # None)
SpentStaysSpent == \A r \in Requests : Spent(r) => otp[identifier[r]] # read[r]

\* Who is signed in has an account, with preferences, of the identifier that a
\* request of this very session verified with an OTP issued for it or a password.
SignedInIsVerified ==
    \A s \in Sessions : session[s] # None =>
        /\ session[s] \in preferences
        /\ \E r \in Requests :
              /\ browser[r] = s /\ pc[r] = "signed" /\ identifier[r] = user[session[s]]
              /\ read[r] # None => identifier[read[r]] = identifier[r]
============================================================================
