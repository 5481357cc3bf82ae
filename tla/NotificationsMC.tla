-------------------------- MODULE NotificationsMC --------------------------
(* Small instances of Notifications. *)
EXTENDS Notifications, TLC

Symmetry == Permutations(Streams) \cup Permutations(Notifications)
            \cup Permutations(Jobs) \cup Permutations(Servers)
============================================================================
