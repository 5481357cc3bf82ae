------------------------- MODULE OptimisticLockMC -------------------------
(* Instances of OptimisticLock for TLC. *)
EXTENDS OptimisticLock, TLC

CONSTANTS r1, r2, r3, r4

\* Requests are interchangeable.
Symmetry == Permutations({r1, r2, r3, r4})
============================================================================
