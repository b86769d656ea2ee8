----------------------------- MODULE MCGateway -----------------------------
(* Instances of Gateway for TLC. *)
EXTENDS Gateway

CONSTANTS r1, r2

\* The classes the breaker tells apart, with the codes at their edge.
BackendAnswers == {200, 499, 500}

Sound ==
  [parses |-> TRUE, alg |-> "HMAC", signed |-> TRUE,
   exp |-> "future", nbf |-> "absent", iat |-> "present",
   user_id |-> TRUE, tier |-> TRUE, requests_per_minute |-> TRUE]

\* One that passes, and each with one thing wrong that makes a difference.
Tokens ==
  {Sound, [Sound EXCEPT !.iat = "absent"], [Sound EXCEPT !.alg = "other"],
   [Sound EXCEPT !.signed = FALSE, !.exp = "past"],
   [Sound EXCEPT !.exp = "past"], [Sound EXCEPT !.exp = "absent"],
   [Sound EXCEPT !.tier = FALSE]}

HeadersOfAllKinds ==
  [format : {"bearer"}, token : Tokens] \cup {[format |-> "other", token |-> Sound]}
=============================================================================
