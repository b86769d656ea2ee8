---------------------------- MODULE MCBlocklist ----------------------------
(* Instances of Blocklist for TLC. *)
EXTENDS Blocklist, TLC

CONSTANTS q1, q2, a1, a2

Symmetry == Permutations(Requests) \cup Permutations(Admins)
=============================================================================
