--------------------------- MODULE EngagementMC ---------------------------
(* Instances of Engagement for TLC. *)
EXTENDS Engagement, TLC

CONSTANTS r1, r2, r3, r4, u1, u2, a1, a2

\* Requests are interchangeable, and so are users.
Symmetry == Permutations({r1, r2, r3, r4}) \cup Permutations({u1, u2})
============================================================================
