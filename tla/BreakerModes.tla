---------------------------- MODULE BreakerModes ----------------------------
(***************************************************************************)
(* What a circuit breaker promises (internal/circuitbreaker/breaker.go,   *)
(* the comments on its states, on Allow and on the Record methods), when   *)
(* several calls of it may be under way.                                   *)
(*                                                                         *)
(* It is opened by a failure that reached the threshold, and not by an     *)
(* earlier one.  The first of the calls that open it notes the time, and   *)
(* it is not tried again before the recovery duration has gone by since    *)
(* that note.  Then it is half open: a probe is let out, or the answer of  *)
(* an earlier request is taken for its answer, and an answer that comes    *)
(* after that closes it, with no failures counted, or opens it again.      *)
(***************************************************************************)
EXTENDS Integers

CONSTANTS Threshold, Recovery

VARIABLES
  mode,
  failures, \* in a row
  due,      \* has a failure reached the threshold of this closed breaker?
  probing,  \* has a probe been let out?
  opening,  \* has a call that opens it noted the time?
  age       \* of the note

modeVars == <<mode, failures, due, probing, opening, age>>

Init ==
  /\ mode = "closed"
  /\ failures = 0
  /\ due = FALSE
  /\ probing = FALSE
  /\ opening = FALSE
  /\ age = Recovery

Fail ==
  /\ mode = "closed"
  /\ failures' = failures + 1
  /\ due' = (due \/ failures' >= Threshold)
  /\ UNCHANGED <<mode, probing, opening, age>>

\* A success takes the count back, but not the failure that reached the
\* threshold before it.
Succeed ==
  /\ \/ mode = "closed"
     \/ mode = "half_open" /\ probing
  /\ failures' = 0
  /\ UNCHANGED <<mode, due, probing, opening, age>>

\* A failure is about to open the breaker: this is when its outage starts.
Note ==
  /\ \/ due
     \/ mode = "half_open" /\ probing
  /\ ~opening
  /\ opening' = TRUE
  /\ age' = 0
  /\ UNCHANGED <<mode, failures, due, probing>>

Open ==
  /\ mode # "open" /\ opening
  /\ mode' = "open"
  /\ due' = FALSE
  /\ opening' = FALSE
  /\ probing' = FALSE
  /\ UNCHANGED <<failures, age>>

TryAgain ==
  /\ mode = "open" /\ age = Recovery
  /\ mode' = "half_open"
  /\ UNCHANGED <<failures, due, probing, opening, age>>

Probe ==
  /\ mode = "half_open" /\ ~probing
  /\ probing' = TRUE
  /\ UNCHANGED <<mode, failures, due, opening, age>>

\* Two answers may race for the decision: the first transition makes it.
Recover ==
  /\ mode = "half_open" /\ probing
  /\ failures = 0
  /\ mode' = "closed"
  /\ probing' = FALSE
  /\ opening' = FALSE
  /\ UNCHANGED <<failures, due, age>>

Elapse ==
  /\ age < Recovery
  /\ age' = age + 1
  /\ UNCHANGED <<mode, failures, due, probing, opening>>

Next ==
  \/ Fail \/ Succeed \/ Note \/ Open
  \/ TryAgain \/ Probe \/ Recover \/ Elapse

Spec == Init /\ [][Next]_modeVars
=============================================================================
