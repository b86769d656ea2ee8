------------------------------ MODULE Service ------------------------------
(***************************************************************************)
(* What a gateway process promises the clients of its requests             *)
(* (internal/server/server.go, the comments on buildRouter and Start): a   *)
(* request it has taken gets one status, which does not change any more; it*)
(* is forwarded at most once, and not after it has been answered, so that a*)
(* layer that refuses it has the last word; and it is lost only by a       *)
(* process that ends with an error.                                        *)
(***************************************************************************)
CONSTANTS Requests, Codes, NoCode

VARIABLES up, where, answer

serviceVars == <<up, where, answer>>

Init ==
  /\ up = TRUE
  /\ where = [r \in Requests |-> "new"]
  /\ answer = [r \in Requests |-> NoCode]

UnderWay(r) == where[r] \in {"here", "forwarded"}

Take(r) ==
  /\ up /\ where[r] = "new"
  /\ where' = [where EXCEPT ![r] = "here"]
  /\ UNCHANGED <<up, answer>>

Forward(r) ==
  /\ up /\ where[r] = "here" /\ answer[r] = NoCode
  /\ where' = [where EXCEPT ![r] = "forwarded"]
  /\ UNCHANGED <<up, answer>>

Answer(r, code) ==
  /\ up /\ UnderWay(r) /\ answer[r] = NoCode
  /\ answer' = [answer EXCEPT ![r] = code]
  /\ UNCHANGED <<up, where>>

\* A request without an answer gets one as it ends.
End(r, code) ==
  /\ up /\ UnderWay(r)
  /\ where' = [where EXCEPT ![r] = "over"]
  /\ answer' = [answer EXCEPT ![r] = IF @ = NoCode THEN code ELSE @]
  /\ UNCHANGED up

Stop ==
  /\ up /\ \A r \in Requests : ~UnderWay(r)
  /\ up' = FALSE
  /\ UNCHANGED <<where, answer>>

Crash ==
  /\ up /\ up' = FALSE
  /\ where' = [r \in Requests |-> IF UnderWay(r) THEN "lost" ELSE where[r]]
  /\ UNCHANGED answer

Next ==
  \/ \E r \in Requests :
       Take(r) \/ Forward(r) \/ \E code \in Codes : Answer(r, code) \/ End(r, code)
  \/ Stop \/ Crash

Spec == Init /\ [][Next]_serviceVars
=============================================================================
