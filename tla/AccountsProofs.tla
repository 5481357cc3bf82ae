--------------------------- MODULE AccountsProofs ---------------------------
(***************************************************************************)
(* Theorems about Accounts, for any number of requests, identifiers and     *)
(* sessions.                                                               *)
(***************************************************************************)
EXTENDS Accounts, TLAPS

\* OTPs in Redis, and those that were read, were issued for the identifier; only
\* who has deleted one has found a user.
OtpInv ==
    /\ \A i \in Identifiers : otp[i] # None => pc[otp[i]] = "issued" /\ identifier[otp[i]] = i
    /\ \A r \in Requests :
          /\ read[r] # None => pc[read[r]] = "issued" /\ identifier[read[r]] = identifier[r]
          /\ pc[r] \in {"new", "password"} => read[r] = None
          /\ pc[r] \in Issuing \cup {"new", "fetch", "del", "password"} => found[r] = None

Open(r) == staged[r] # {}

\* An open transaction is the only one that creates a user of its identifier, who
\* does not exist yet.
StagedInv == \A r \in Requests : Open(r) =>
    /\ "user" \in staged[r] /\ found[r] = r /\ UsersOf(identifier[r]) = {}
    /\ pc[r] \in {"lookup", "prefer", "commit", "failed"}
    /\ pc[r] = "commit" => "preference" \in staged[r]
    /\ \A q \in Requests : Open(q) /\ identifier[q] = identifier[r] => q = r

UserInv == \A r \in Requests :
    /\ user[r] # None => user[r] = identifier[r]
    /\ pc[r] \in {"lookup", "prefer", "commit"} => found[r] = r
    /\ pc[r] = "sign" => found[r] # None /\ user[found[r]] = identifier[r]

IInv == /\ TypeOK /\ OtpInv /\ StagedInv /\ UserInv
        /\ UsersHavePreferences /\ OneUserPerIdentifier /\ SpentStaysSpent /\ SignedInIsVerified

----------------------------------------------------------------------------
LEMMA InitInv == Init => IInv
<1> USE NoneAssumption
<1> SUFFICES ASSUME Init PROVE IInv
  OBVIOUS
<1>1. TypeOK
  BY DEF Init, TypeOK, PCs
<1>2. OtpInv /\ StagedInv /\ UserInv
  BY DEF Init, OtpInv, StagedInv, UserInv, Open
<1>3. UsersHavePreferences /\ OneUserPerIdentifier /\ SpentStaysSpent /\ SignedInIsVerified
  BY DEF Init, UsersHavePreferences, OneUserPerIdentifier, SpentStaysSpent, Spent,
         SignedInIsVerified
<1> QED BY <1>1, <1>2, <1>3 DEF IInv

LEMMA TypeStep == TypeOK /\ [Next]_vars => TypeOK'
<1> SUFFICES ASSUME TypeOK, [Next]_vars PROVE TypeOK'
  OBVIOUS
<1> USE DEF TypeOK, PCs, Issuing, Verifying
<1> USE DEF inputs, handlers, documents, Step, UsersOf
<1>1. ASSUME NEW r \in Requests, Begin(r) \/ Look(r) \/ SetOtp(r) PROVE TypeOK'
  BY <1>1 DEF Begin, Look, SetOtp
<1>2. ASSUME NEW r \in Requests, Fetch(r) \/ Del(r) PROVE TypeOK'
  BY <1>2 DEF Fetch, Del
<1>3. ASSUME NEW r \in Requests, Find(r) \/ VerifyByPassword(r) PROVE TypeOK'
  BY <1>3 DEF Find, VerifyByPassword
<1>4. ASSUME NEW r \in Requests, CreateUser(r) \/ LookupPreference(r) PROVE TypeOK'
  BY <1>4 DEF CreateUser, LookupPreference
<1>5. ASSUME NEW r \in Requests, CreatePreference(r) \/ Commit(r) PROVE TypeOK'
  BY <1>5 DEF CreatePreference, Commit
<1>6. ASSUME NEW r \in Requests, Sign(r) PROVE TypeOK'
  BY <1>6 DEF Sign
<1>7. ASSUME NEW r \in Requests, Fail(r) \/ Reap(r) \/ Timeout(r) PROVE TypeOK'
  BY <1>7 DEF Fail, Reap, Timeout
<1>8. ASSUME NEW i \in Identifiers, CancelOtp(i) \/ Expire(i) PROVE TypeOK'
  BY <1>8 DEF CancelOtp, Expire
<1>9. ASSUME NEW s \in Sessions, Logout(s) PROVE TypeOK'
  BY <1>9 DEF Logout
<1>10. CASE UNCHANGED vars
  BY <1>10 DEF vars
<1> QED BY <1>1, <1>2, <1>3, <1>4, <1>5, <1>6, <1>7, <1>8, <1>9, <1>10 DEF Next

----------------------------------------------------------------------------
\* An OTP enters Redis when it is issued, and leaves it before it is spent.
LEMMA OtpStep ==
    ASSUME TypeOK, OtpInv, SpentStaysSpent, [Next]_vars
    PROVE  OtpInv' /\ SpentStaysSpent'
<1> USE NoneAssumption
<1> USE DEF TypeOK, OtpInv, SpentStaysSpent, Spent, Issuing, Verifying, Step
<1> USE DEF inputs, handlers, documents
<1>1. ASSUME NEW r \in Requests, Begin(r) \/ Look(r) PROVE OtpInv' /\ SpentStaysSpent'
  BY <1>1 DEF Begin, Look
<1>2. ASSUME NEW r \in Requests, SetOtp(r) PROVE OtpInv' /\ SpentStaysSpent'
  BY <1>2 DEF SetOtp
<1>3. ASSUME NEW r \in Requests, Fetch(r) PROVE OtpInv' /\ SpentStaysSpent'
  BY <1>3 DEF Fetch
<1>4. ASSUME NEW r \in Requests, Del(r) PROVE OtpInv' /\ SpentStaysSpent'
  BY <1>4 DEF Del
<1>5. ASSUME NEW r \in Requests, Find(r) PROVE OtpInv' /\ SpentStaysSpent'
  BY <1>5 DEF Find
<1>6. ASSUME NEW r \in Requests, VerifyByPassword(r) PROVE OtpInv' /\ SpentStaysSpent'
  BY <1>6 DEF VerifyByPassword
<1>7. ASSUME NEW r \in Requests, CreateUser(r) PROVE OtpInv' /\ SpentStaysSpent'
  BY <1>7 DEF CreateUser
<1>8. ASSUME NEW r \in Requests,
             LookupPreference(r) \/ CreatePreference(r) \/ Commit(r) \/ Sign(r) \/ Fail(r)
      PROVE  OtpInv' /\ SpentStaysSpent'
  BY <1>8 DEF LookupPreference, CreatePreference, Commit, Sign, Fail
<1>9. ASSUME NEW r \in Requests, Reap(r) \/ Timeout(r) PROVE OtpInv' /\ SpentStaysSpent'
  BY <1>9 DEF Reap, Timeout
<1>10. ASSUME NEW i \in Identifiers, CancelOtp(i) \/ Expire(i)
       PROVE  OtpInv' /\ SpentStaysSpent'
  BY <1>10 DEF CancelOtp, Expire
<1>11. ASSUME NEW s \in Sessions, Logout(s) PROVE OtpInv' /\ SpentStaysSpent'
  BY <1>11 DEF Logout
<1>12. CASE UNCHANGED vars
  BY <1>12 DEF vars
<1> QED BY <1>1, <1>2, <1>3, <1>4, <1>5, <1>6, <1>7, <1>8, <1>9, <1>10, <1>11, <1>12
        DEF Next

\* Only Commit makes users, together with their preferences.
LEMMA UserStep ==
    ASSUME TypeOK, OtpInv, StagedInv, UserInv, UsersHavePreferences, OneUserPerIdentifier,
           [Next]_vars
    PROVE  StagedInv' /\ UserInv' /\ UsersHavePreferences' /\ OneUserPerIdentifier'
<1> DEFINE DocInv == StagedInv /\ UserInv /\ UsersHavePreferences /\ OneUserPerIdentifier
<1> SUFFICES DocInv'
  OBVIOUS
<1> USE NoneAssumption
<1> USE DEF TypeOK, StagedInv, UserInv, UsersHavePreferences, OneUserPerIdentifier, Open
<1> USE DEF UsersOf, Step
<1> USE DEF inputs, handlers, documents
<1>1. ASSUME NEW r \in Requests,
             Begin(r) \/ Look(r) \/ SetOtp(r) \/ Fetch(r) \/ Del(r)
      PROVE  DocInv'
  BY <1>1 DEF Begin, Look, SetOtp, Fetch, Del
<1>2. ASSUME NEW r \in Requests, Find(r) \/ VerifyByPassword(r) PROVE DocInv'
  BY <1>2 DEF Find, VerifyByPassword
<1>3. ASSUME NEW r \in Requests, CreateUser(r) PROVE DocInv'
  BY <1>3 DEF CreateUser, Taken
<1>4. ASSUME NEW r \in Requests, LookupPreference(r) PROVE DocInv'
  BY <1>4 DEF LookupPreference
<1>5. ASSUME NEW r \in Requests, CreatePreference(r) PROVE DocInv'
  BY <1>5 DEF CreatePreference
<1>6. ASSUME NEW r \in Requests, Commit(r) PROVE DocInv'
  <2>1. /\ pc[r] = "commit" /\ "user" \in staged[r] /\ "preference" \in staged[r]
        /\ found[r] = r /\ UsersOf(identifier[r]) = {}
    BY <1>6 DEF Commit
  <2>2. /\ user' = [user EXCEPT ![r] = identifier[r]] /\ preferences' = preferences \cup {r}
        /\ staged' = [staged EXCEPT ![r] = {}] /\ UNCHANGED <<identifier, found>>
        /\ \/ pc' = [pc EXCEPT ![r] = "sign"]
           \/ pc' = [pc EXCEPT ![r] = "failed"]
    BY <1>6, <2>1 DEF Commit
  <2>3. UsersHavePreferences' /\ OneUserPerIdentifier'
    BY <2>1, <2>2
  <2>4. StagedInv'
    BY <2>1, <2>2, <1>6 DEF Commit
  <2>5. UserInv'
    BY <2>1, <2>2
  <2> QED BY <2>3, <2>4, <2>5
<1>7. ASSUME NEW r \in Requests, Sign(r) \/ Fail(r) PROVE DocInv'
  BY <1>7 DEF Sign, Fail
<1>8. ASSUME NEW r \in Requests, Reap(r) \/ Timeout(r) PROVE DocInv'
  BY <1>8 DEF Reap, Timeout
<1>9. ASSUME NEW i \in Identifiers, CancelOtp(i) \/ Expire(i) PROVE DocInv'
  BY <1>9 DEF CancelOtp, Expire
<1>10. ASSUME NEW s \in Sessions, Logout(s) PROVE DocInv'
  BY <1>10 DEF Logout
<1>11. CASE UNCHANGED vars
  BY <1>11 DEF vars
<1> QED BY <1>1, <1>2, <1>3, <1>4, <1>5, <1>6, <1>7, <1>8, <1>9, <1>10, <1>11 DEF Next

\* Nobody who is signed in loses the account or the request that verified it.
LEMMA SignedStep ==
    ASSUME IInv, [Next]_vars PROVE SignedInIsVerified'
<1> USE NoneAssumption
<1>1. /\ identifier' = identifier /\ browser' = browser
      /\ \A u \in Requests : u \in preferences => u \in preferences' /\ user'[u] = user[u]
  <2>1. ASSUME NEW r \in Requests, Commit(r)
        PROVE  user[r] = None /\ \A u \in Requests \ {r} : user'[u] = user[u]
    BY <2>1 DEF IInv, TypeOK, Commit, StagedInv, UserInv, UsersOf, Open
  <2>2. ASSUME NEW r \in Requests, Commit(r)
        PROVE  UNCHANGED inputs /\ preferences \subseteq preferences'
    BY <2>2 DEF Commit
  <2>3. UNCHANGED <<inputs, documents>> \/ \E r \in Requests : Commit(r)
    BY DEF Next, vars, Begin, Look, SetOtp, Fetch, Del, Find, VerifyByPassword, CreateUser,
           LookupPreference, CreatePreference, Sign, Fail, Reap, Timeout, CancelOtp,
           Expire, Logout, handlers
  <2> QED BY <2>1, <2>2, <2>3 DEF IInv, UsersHavePreferences, inputs, documents
<1>2. ASSUME NEW q \in Requests, pc[q] = "signed"
      PROVE  pc'[q] = "signed" /\ read'[q] = read[q]
  <2>1. ASSUME NEW r \in Requests, NEW a \in Issuing \cup Verifying \cup {"new"}, NEW b,
               Step(r, a, b)
        PROVE  pc'[q] = "signed" /\ q # r
    BY <2>1, <1>2 DEF Step, IInv, TypeOK, Issuing, Verifying
  <2>2. ASSUME NEW r \in Requests, Fetch(r) PROVE pc'[q] = "signed" /\ read'[q] = read[q]
    <3>1. Step(r, "fetch", "del")
      BY <2>2 DEF Fetch
    <3>2. pc'[q] = "signed" /\ q # r
      BY <3>1, <2>1 DEF Verifying
    <3> QED BY <3>2, <2>2 DEF Fetch, IInv, TypeOK
  <2>3. \/ UNCHANGED <<pc, read>>
        \/ \E r \in Requests : Fetch(r)
        \/ /\ read' = read
           /\ \E r \in Requests, a \in Issuing \cup Verifying \cup {"new"}, b \in PCs :
                 Step(r, a, b)
    BY DEF Next, vars, handlers, Begin, Look, SetOtp, Del, Find, VerifyByPassword, CreateUser,
           LookupPreference, CreatePreference, Commit, Sign, Fail, Reap, Timeout, CancelOtp,
           Expire, Logout, Issuing, Verifying, PCs
  <2> QED BY <1>2, <2>1, <2>2, <2>3
<1>3. ASSUME NEW s \in Sessions, session'[s] # None
      PROVE  \/ session'[s] = session[s]
             \/ \E r \in Requests : Sign(r) /\ browser[r] = s /\ session'[s] = found[r]
                                    /\ pc'[r] = "signed"
  <2>1. ASSUME NEW r \in Requests, Sign(r)
        PROVE  \/ session'[s] = session[s]
               \/ browser[r] = s /\ session'[s] = found[r] /\ pc'[r] = "signed"
    BY <2>1 DEF Sign, Step, IInv, TypeOK
  <2>2. ASSUME NEW z \in Sessions, Logout(z) PROVE session'[s] = session[s]
    BY <1>3, <2>2 DEF Logout, IInv, TypeOK
  <2>3. \/ UNCHANGED session
        \/ \E r \in Requests : Sign(r)
        \/ \E z \in Sessions : Logout(z)
    BY DEF Next, vars, handlers, Begin, Look, SetOtp, Fetch, Del, Find, VerifyByPassword,
           CreateUser, LookupPreference, CreatePreference, Commit, Fail, Reap, Timeout,
           CancelOtp, Expire
  <2> QED BY <2>1, <2>2, <2>3
<1> SUFFICES ASSUME NEW s \in Sessions, session'[s] # None
             PROVE  /\ session'[s] \in preferences'
                    /\ \E r \in Requests :
                          /\ browser'[r] = s /\ pc'[r] = "signed"
                          /\ identifier'[r] = user'[session'[s]]
                          /\ read'[r] # None => identifier'[read'[r]] = identifier'[r]
  BY DEF SignedInIsVerified
<1>4. CASE session'[s] = session[s]
  <2>1. session[s] \in preferences /\ session[s] \in Requests
    BY <1>4 DEF IInv, SignedInIsVerified, TypeOK
  <2>2. PICK r \in Requests :
           /\ browser[r] = s /\ pc[r] = "signed" /\ identifier[r] = user[session[s]]
           /\ read[r] # None => identifier[read[r]] = identifier[r]
    BY <1>4 DEF IInv, SignedInIsVerified
  <2>3. pc'[r] = "signed" /\ read'[r] = read[r]
    BY <2>2, <1>2
  <2> QED BY <1>1, <1>4, <2>1, <2>2, <2>3
<1>5. CASE \E r \in Requests : Sign(r) /\ browser[r] = s /\ session'[s] = found[r]
                               /\ pc'[r] = "signed"
  <2>1. PICK r \in Requests : Sign(r) /\ browser[r] = s /\ session'[s] = found[r]
                              /\ pc'[r] = "signed"
    BY <1>5
  <2>2. /\ pc[r] = "sign" /\ read' = read
        /\ read[r] # None => identifier[read[r]] = identifier[r]
    BY <2>1 DEF Sign, Step, IInv, OtpInv
  <2>3. found[r] \in Requests /\ user[found[r]] = identifier[r] /\ found[r] \in preferences
    BY <2>2 DEF IInv, UserInv, TypeOK, UsersHavePreferences
  <2> QED BY <1>1, <2>1, <2>2, <2>3
<1> QED BY <1>3, <1>4, <1>5

LEMMA InvStep == IInv /\ [Next]_vars => IInv'
BY TypeStep, OtpStep, UserStep, SignedStep DEF IInv

----------------------------------------------------------------------------
\* Every variable keeps its type, whatever fails and whoever is late.
THEOREM TypeCorrect == Spec => []TypeOK
<1>1. IInv => TypeOK
  BY DEF IInv
<1> QED BY InitInv, InvStep, <1>1, PTL DEF Spec

\* User and preferences are made together or not at all.
THEOREM UsersHavePreferencesThm == Spec => []UsersHavePreferences
<1>1. IInv => UsersHavePreferences
  BY DEF IInv
<1> QED BY InitInv, InvStep, <1>1, PTL DEF Spec

\* However many first sign-ins of an identifier overlap, one user comes of them.
THEOREM OneUserPerIdentifierThm == Spec => []OneUserPerIdentifier
<1>1. IInv => OneUserPerIdentifier
  BY DEF IInv
<1> QED BY InitInv, InvStep, <1>1, PTL DEF Spec

\* An OTP that was answered is not accepted again by a later request.
THEOREM SpentStaysSpentThm == Spec => []SpentStaysSpent
<1>1. IInv => SpentStaysSpent
  BY DEF IInv
<1> QED BY InitInv, InvStep, <1>1, PTL DEF Spec

\* Every session that is signed in is that of a complete account that was verified in it.
THEOREM SignedInIsVerifiedThm == Spec => []SignedInIsVerified
<1>1. IInv => SignedInIsVerified
  BY DEF IInv
<1> QED BY InitInv, InvStep, <1>1, PTL DEF Spec
============================================================================
