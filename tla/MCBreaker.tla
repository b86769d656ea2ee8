----------------------------- MODULE MCBreaker -----------------------------
(* Instances of Breaker for TLC. *)
EXTENDS Breaker, TLC

CONSTANTS r1, r2, r3

Symmetry == Permutations(Requests)

=============================================================================
