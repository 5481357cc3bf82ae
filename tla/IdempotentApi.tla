--------------------------- MODULE IdempotentApi ---------------------------
(***************************************************************************)
(* What an idempotent endpoint promises, with no lock, transaction or      *)
(* handler step: a slot (a key of one user's operation) remembers the      *)
(* request that was executed for it, for a time; executing a request and   *)
(* remembering it are one step; a client is told "created" or "replayed"   *)
(* only about an executed request of its own slot and payload.              *)
(***************************************************************************)
CONSTANTS Requests, Slots, Payloads, Nobody

VARIABLES ask,      \* ask[r]: the slot and the payload of request r
          memory,   \* memory[s]: the request remembered for slot s, or Nobody
          executed, \* the requests that took effect
          answer    \* answer[r]: what the client of r was told

Answers == {"none", "created", "replayed", "rejected"}

Init == /\ ask \in [Requests -> [slot : Slots, payload : Payloads]]
        /\ memory = [s \in Slots |-> Nobody]
        /\ executed = {}
        /\ answer = [r \in Requests |-> "none"]

\* r takes effect, and its slot remembers it, if it remembers nothing.
Execute(r) ==
    /\ r \notin executed
    /\ answer[r] \in {"none", "rejected"}
    /\ memory[ask[r].slot] = Nobody
    /\ memory' = [memory EXCEPT ![ask[r].slot] = r]
    /\ executed' = executed \cup {r}
    /\ UNCHANGED <<ask, answer>>

Tell(r, a) == /\ answer[r] = "none"
              /\ answer' = [answer EXCEPT ![r] = a]
              /\ UNCHANGED <<ask, memory, executed>>

Created(r) == r \in executed /\ Tell(r, "created")
Replayed(r) ==
    /\ \E o \in executed : ask[o] = ask[r]
    /\ Tell(r, "replayed")

\* A rejection promises nothing when the request may still be running.
Rejected(r) == Tell(r, "rejected")

Forget(s) == /\ memory[s] # Nobody
             /\ memory' = [memory EXCEPT ![s] = Nobody]
             /\ UNCHANGED <<ask, executed, answer>>

Next == \/ \E r \in Requests :
              Execute(r) \/ Created(r) \/ Replayed(r) \/ Rejected(r)
        \/ \E s \in Slots : Forget(s)

Spec == Init /\ [][Next]_<<ask, memory, executed, answer>>
============================================================================
