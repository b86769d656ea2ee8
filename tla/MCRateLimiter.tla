--------------------------- MODULE MCRateLimiter ---------------------------
(* Instances of RateLimiter for TLC. *)
EXTENDS RateLimiter, TLC

CONSTANTS q1, q2, q3, x1, x2

\* All tokens of one tier, and one clock.
OneTier == [r \in Requests |-> 2]
OneThreshold == [r \in Requests |-> 1]
OneClock == [r \in Requests |-> 0]

\* A user with tokens of two tiers, served by two gateways whose clocks
\* differ by a tick.
TwoTiers == [r \in Requests |-> IF r = q1 THEN 1 ELSE 2]
TwoThresholds == [r \in Requests |-> IF r = q1 THEN 0 ELSE 1]
TwoClocks == [r \in Requests |-> IF r = q1 THEN 1 ELSE 0]

\* Scripts sent again, for one of three requests and for none.
OneSentTwice == [r \in Requests |-> IF r = q1 THEN 2 ELSE 1]
SentOnce == [r \in Requests |-> 1]

Alike == Permutations(Requests \ {q1}) \cup Permutations(Suffixes)
=============================================================================
