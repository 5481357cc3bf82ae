--------------------------- MODULE IdempotencyMC ---------------------------
(* Instances of Idempotency for TLC. *)
EXTENDS Idempotency, TLC

CONSTANTS r1, r2, r3, k1, u1, u2, b1, b2, p1

MCRequests == {r1, r2, r3}
MCKeys == {k1}
MCScopes == {u1, u2}
MCBodies == {b1, b2}
MCServers == {p1}

\* Requests are interchangeable: nothing but their calls tells them apart.
RequestSymmetry == Permutations(MCRequests)
============================================================================
