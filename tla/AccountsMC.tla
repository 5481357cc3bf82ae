----------------------------- MODULE AccountsMC -----------------------------
(* Instances of Accounts for TLC. *)
EXTENDS Accounts, TLC

Symmetry == Permutations(Requests) \cup Permutations(Identifiers)
============================================================================
