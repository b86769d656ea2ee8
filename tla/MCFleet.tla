------------------------------- MODULE MCFleet -------------------------------
(* Instances of Fleet for TLC. *)
EXTENDS Fleet

CONSTANTS p1, p2, p3, v1, v2, noAdmin, badURL, noHost

Complete == [JWT_SECRET |-> "set", ADMIN_TOKEN |-> "set",
             BACKEND_URL |-> "valid", numbers |-> "decimal",
             databases |-> {"rateLimit", "cache"}]

\* Two that work, the second by what Load falls back to, two that do not start
\* and one that starts and cannot work.
Environment ==
  [r \in Revisions |->
     CASE r = v1 -> Complete
       [] r = v2 -> [Complete EXCEPT !.BACKEND_URL = "", !.numbers = ""]
       [] r = noAdmin -> [Complete EXCEPT !.ADMIN_TOKEN = ""]
       [] r = badURL -> [Complete EXCEPT !.BACKEND_URL = "unparsable"]
       [] r = noHost -> [Complete EXCEPT !.BACKEND_URL = "unusable"]]
=============================================================================
