------------------------------ MODULE Breaker ------------------------------
(***************************************************************************)
(* The gateway's circuit breaker, internal/circuitbreaker/breaker.go, as   *)
(* the CircuitBreaker middleware drives it: Allow before the backend call, *)
(* RecordSuccess or RecordFailure after it, neither when the call panics.  *)
(*                                                                         *)
(* The breaker has no lock.  Its methods are sequences of atomic loads,    *)
(* stores, adds and compare-and-swaps on four words, so an action is one   *)
(* such access and pc[r] names the next access of request r.  Several      *)
(* requests run the same methods at the same time.                         *)
(*                                                                         *)
(* A time stamp is represented by its age, which Tick advances and which   *)
(* stops at Recovery: the code only ever compares an age with the recovery *)
(* duration.  The zero time stamp a new breaker starts with is as old as   *)
(* can be.                                                                 *)
(***************************************************************************)
EXTENDS Integers, FiniteSets

CONSTANTS
  Requests,         \* goroutines serving requests
  FailureThreshold, \* failures in a row that open the breaker
  Recovery,         \* recovery duration, in ticks
  Outcomes          \* how a forwarded request may end: "ok", "fail", "abort"

ASSUME BreakerAssumption ==
  /\ IsFiniteSet(Requests)
  /\ FailureThreshold \in Int \* cut to 32 bits, and not checked to be positive
  /\ Recovery \in Nat         \* a negative one is over as soon as zero is
  /\ Outcomes \subseteq {"ok", "fail", "abort"}

StateClosed   == "closed"
StateOpen     == "open"
StateHalfOpen == "half_open"
State == {StateClosed, StateOpen, StateHalfOpen}

VARIABLES
  state,               \* Breaker.state
  consecutiveFailures, \* Breaker.consecutiveFailures
  openedAge,           \* age of Breaker.openedAt
  probeInFlight,       \* Breaker.probeInFlight
  gauge,               \* gateway_circuit_breaker_state
  entered,             \* transitions counted into a state minus those out of it
  pc,                  \* next access of each request
  readAge,             \* age of the time stamp a request holds in a local
  edge                 \* transition a request has won and not yet reported

\* History variables: no guard reads them.  They say which of the accesses
\* that other calls get in between have hit the words.
VARIABLES
  fresh,               \* requests that loaded or set the state after it last
                       \* changed: the others' calls go by a state that is over
  stray,               \* what has gone astray, see Strays
  outageAge            \* age of the first clock reading of the calls that
                       \* opened, or are opening, the breaker

shared == <<state, consecutiveFailures, openedAge, probeInFlight>>
metrics == <<gauge, entered>>
history == <<fresh, stray, outageAge>>
vars == <<state, consecutiveFailures, openedAge, probeInFlight, gauge,
          entered, pc, readAge, edge, fresh, stray, outageAge>>

(* "lateWrite": a call that is not fresh wrote the state, the count, the    *)
(* time stamp or the flag; over when a fresh call tries the breaker again. *)
(* "lateReport": such a call set the gauge; over when a fresh call sets it.*)
(* "lateClaim": the flag was claimed when the breaker was not half open or *)
(* when the call that decides had taken it down already; "lostProbe": a    *)
(* probe panicked.  Both are over when the flag is taken down.             *)
Strays == {"lateWrite", "lateReport", "lateClaim", "lostProbe"}

\* A request is outside the breaker while it does not run, and while it
\* waits for the backend, admitted normally or as the half-open probe.
InFlight == {"backend", "probe"}
Outside == InFlight \cup {"idle"}
Reporting == {"setGauge", "countTransition"}
Points == Outside \cup Reporting \cup
  {"loadOpenedAt", "elapsed", "toHalfOpen", "claim",
   "reset", "closeReset", "closeRelease", "close",
   "addFailure", "tripStamp", "tripStore", "trip",
   "reopenRelease", "reopenStamp", "reopenStore", "reopen"}

Edges == [from : State, to : State]
NoEdge == [from |-> "none", to |-> "none"]

Goto(r, from, to) ==
  /\ pc[r] = from
  /\ pc' = [pc EXCEPT ![r] = to]

Init ==
  /\ state = StateClosed
  /\ consecutiveFailures = 0
  /\ openedAge = Recovery
  /\ probeInFlight = FALSE
  /\ gauge = StateClosed
  /\ entered = [s \in State |-> 0]
  /\ pc = [r \in Requests |-> "idle"]
  /\ readAge = [r \in Requests |-> Recovery]
  /\ edge = [r \in Requests |-> NoEdge]
  /\ fresh = {}
  /\ stray = {}
  /\ outageAge = Recovery

\* What a write of r leaves in stray.
AfterWrite(r) == IF r \in fresh THEN stray ELSE stray \cup {"lateWrite"}

\* Calls that have taken the flag down and are about to decide.
Decided == {r \in Requests :
              pc[r] \in {"close", "reopenStamp", "reopenStore", "reopen"}}

\* Fresh calls whose failure opens the breaker and that have read the clock.
Opening == {r \in fresh :
              pc[r] \in {"tripStore", "trip", "reopenStore", "reopen"}}

----------------------------------------------------------------------------
(* transitionTo *)

\* Mutant: a plain store, so that every caller reports a transition.
TransitionToByStore(r, at, from, to, loser) ==
  /\ state' = to
  /\ Goto(r, at, "setGauge")
  /\ edge' = [edge EXCEPT ![r] = [from |-> from, to |-> to]]
  /\ fresh' = {r}
  /\ stray' = AfterWrite(r)

\* The compare-and-swap: only its winner goes on to report the transition.
TransitionTo(r, at, from, to, loser) ==
  \/ /\ state = from
     /\ state' = to
     /\ Goto(r, at, "setGauge")
     /\ edge' = [edge EXCEPT ![r] = [from |-> from, to |-> to]]
     /\ fresh' = {r}
     /\ stray' = IF r \in fresh /\ to = StateHalfOpen
                   THEN stray \ {"lateWrite"} ELSE AfterWrite(r)
  \/ /\ state # from
     /\ Goto(r, at, loser)
     /\ UNCHANGED <<state, edge, fresh, stray>>

\* Mutant: the two arguments of transitionTo are mixed up.
SetGaugeToOldState(r) ==
  /\ Goto(r, "setGauge", "countTransition")
  /\ gauge' = edge[r].from
  /\ stray' = IF r \in fresh THEN stray \ {"lateReport"}
                              ELSE stray \cup {"lateReport"}
  /\ UNCHANGED <<shared, entered, readAge, edge, fresh, outageAge>>

SetGauge(r) ==
  /\ Goto(r, "setGauge", "countTransition")
  /\ gauge' = edge[r].to
  /\ stray' = IF r \in fresh THEN stray \ {"lateReport"}
                              ELSE stray \cup {"lateReport"}
  /\ UNCHANGED <<shared, entered, readAge, edge, fresh, outageAge>>

\* Inc on the transition counter, and return to the caller: Allow still has
\* to claim the probe, the Record methods are done.
CountTransition(r) ==
  /\ Goto(r, "countTransition",
          IF edge[r].to = StateHalfOpen THEN "claim" ELSE "idle")
  /\ entered' = [entered EXCEPT ![edge[r].from] = @ - 1, ![edge[r].to] = @ + 1]
  /\ edge' = [edge EXCEPT ![r] = NoEdge]
  /\ UNCHANGED <<shared, gauge, readAge, history>>

----------------------------------------------------------------------------
(* Allow, called for every request before it is forwarded *)

Allow(r) ==
  /\ \/ state = StateClosed   /\ Goto(r, "idle", "backend")
     \/ state = StateOpen     /\ Goto(r, "idle", "loadOpenedAt")
     \/ state = StateHalfOpen /\ Goto(r, "idle", "claim")
  /\ fresh' = fresh \cup {r}
  /\ UNCHANGED <<shared, metrics, readAge, edge, stray, outageAge>>

LoadOpenedAt(r) ==
  /\ Goto(r, "loadOpenedAt", "elapsed")
  /\ readAge' = [readAge EXCEPT ![r] = openedAge]
  /\ UNCHANGED <<shared, metrics, edge, history>>

\* Mutant: the recovery window is not looked at.
ElapsedAlways(r) ==
  /\ Goto(r, "elapsed", "toHalfOpen")
  /\ readAge' = [readAge EXCEPT ![r] = Recovery]
  /\ UNCHANGED <<shared, metrics, edge, history>>

\* Mutant: the comparison is the wrong way round.
ElapsedInverted(r) ==
  /\ \/ readAge[r] < Recovery  /\ Goto(r, "elapsed", "toHalfOpen")
     \/ readAge[r] >= Recovery /\ Goto(r, "elapsed", "idle")
  /\ readAge' = [readAge EXCEPT ![r] = Recovery]
  /\ UNCHANGED <<shared, metrics, edge, history>>

\* The clock is read after openedAt was: 503 inside the recovery window.
Elapsed(r) ==
  /\ \/ readAge[r] < Recovery  /\ Goto(r, "elapsed", "idle")
     \/ readAge[r] >= Recovery /\ Goto(r, "elapsed", "toHalfOpen")
  /\ readAge' = [readAge EXCEPT ![r] = Recovery]
  /\ UNCHANGED <<shared, metrics, edge, history>>

ToHalfOpen(r) ==
  /\ TransitionTo(r, "toHalfOpen", StateOpen, StateHalfOpen, "claim")
  /\ UNCHANGED <<consecutiveFailures, openedAge, probeInFlight, metrics,
                 readAge, outageAge>>

\* Mutant: the flag is stored without looking at what it was.
ClaimProbeByStore(r) ==
  /\ Goto(r, "claim", "probe")
  /\ probeInFlight' = TRUE
  /\ stray' = IF ~probeInFlight /\ (state # StateHalfOpen \/ Decided # {})
                THEN stray \cup {"lateClaim"} ELSE stray
  /\ UNCHANGED <<state, consecutiveFailures, openedAge, metrics, readAge,
                 edge, fresh, outageAge>>

\* Whoever finds the flag down is forwarded; the others get 503.  The state
\* is not looked at again.
ClaimProbe(r) ==
  /\ \/ ~probeInFlight /\ Goto(r, "claim", "probe")
     \/ probeInFlight  /\ Goto(r, "claim", "idle")
  /\ probeInFlight' = TRUE
  /\ stray' = IF ~probeInFlight /\ (state # StateHalfOpen \/ Decided # {})
                THEN stray \cup {"lateClaim"} ELSE stray
  /\ UNCHANGED <<state, consecutiveFailures, openedAge, metrics, readAge,
                 edge, fresh, outageAge>>

----------------------------------------------------------------------------
(* RecordSuccess, called when the backend answered below 500 *)

\* Mutant: only the closed breaker looks at successes.
RecordSuccessWhenClosed(r) ==
  /\ "ok" \in Outcomes
  /\ pc[r] \in InFlight
  /\ \/ state = StateClosed /\ Goto(r, pc[r], "reset")
     \/ state # StateClosed /\ Goto(r, pc[r], "idle")
  /\ fresh' = fresh \cup {r}
  /\ UNCHANGED <<shared, metrics, readAge, edge, stray, outageAge>>

RecordSuccess(r) ==
  /\ "ok" \in Outcomes
  /\ pc[r] \in InFlight
  /\ \/ state = StateClosed   /\ Goto(r, pc[r], "reset")
     \/ state = StateHalfOpen /\ Goto(r, pc[r], "closeReset")
     \/ state = StateOpen     /\ Goto(r, pc[r], "idle")
  /\ fresh' = fresh \cup {r}
  /\ UNCHANGED <<shared, metrics, readAge, edge, stray, outageAge>>

\* Mutant: a success takes back one failure only.
ForgiveOneFailure(r) ==
  /\ \/ Goto(r, "reset", "idle")
     \/ Goto(r, "closeReset", "closeRelease")
  /\ consecutiveFailures' = consecutiveFailures - 1
  /\ stray' = AfterWrite(r)
  /\ UNCHANGED <<state, openedAge, probeInFlight, metrics, readAge, edge,
                 fresh, outageAge>>

\* Mutant: closing the breaker keeps the count that opened it.
ResetFailuresWhenClosed(r) ==
  /\ \/ Goto(r, "reset", "idle") /\ consecutiveFailures' = 0
     \/ Goto(r, "closeReset", "closeRelease") /\ UNCHANGED consecutiveFailures
  /\ stray' = AfterWrite(r)
  /\ UNCHANGED <<state, openedAge, probeInFlight, metrics, readAge, edge,
                 fresh, outageAge>>

ResetFailures(r) ==
  /\ \/ Goto(r, "reset", "idle")
     \/ Goto(r, "closeReset", "closeRelease")
  /\ consecutiveFailures' = 0
  /\ stray' = AfterWrite(r)
  /\ UNCHANGED <<state, openedAge, probeInFlight, metrics, readAge, edge,
                 fresh, outageAge>>

\* Mutant: a failed probe does not take the flag down.
ReleaseProbeOnSuccess(r) ==
  /\ \/ Goto(r, "closeRelease", "close") /\ probeInFlight' = FALSE
     \/ Goto(r, "reopenRelease", "reopenStamp") /\ UNCHANGED probeInFlight
  /\ stray' = AfterWrite(r) \ {"lateClaim", "lostProbe"}
  /\ UNCHANGED <<state, consecutiveFailures, openedAge, metrics, readAge,
                 edge, fresh, outageAge>>

ReleaseProbe(r) ==
  /\ \/ Goto(r, "closeRelease", "close")
     \/ Goto(r, "reopenRelease", "reopenStamp")
  /\ probeInFlight' = FALSE
  /\ stray' = AfterWrite(r) \ {"lateClaim", "lostProbe"}
  /\ UNCHANGED <<state, consecutiveFailures, openedAge, metrics, readAge,
                 edge, fresh, outageAge>>

Close(r) ==
  /\ TransitionTo(r, "close", StateHalfOpen, StateClosed, "idle")
  /\ UNCHANGED <<consecutiveFailures, openedAge, probeInFlight, metrics,
                 readAge, outageAge>>

----------------------------------------------------------------------------
(* RecordFailure, called when the backend answered 500 or above, or the    *)
(* proxy turned a transport error into 502                                 *)

RecordFailure(r) ==
  /\ "fail" \in Outcomes
  /\ pc[r] \in InFlight
  /\ \/ state = StateClosed   /\ Goto(r, pc[r], "addFailure")
     \/ state = StateHalfOpen /\ Goto(r, pc[r], "reopenRelease")
     \/ state = StateOpen     /\ Goto(r, pc[r], "idle")
  /\ fresh' = fresh \cup {r}
  /\ UNCHANGED <<shared, metrics, readAge, edge, stray, outageAge>>

\* Mutant: one failure more than the threshold opens the breaker.
AddFailureBeyond(r) ==
  /\ consecutiveFailures' = consecutiveFailures + 1
  /\ \/ consecutiveFailures' > FailureThreshold
        /\ Goto(r, "addFailure", "tripStamp")
     \/ consecutiveFailures' <= FailureThreshold
        /\ Goto(r, "addFailure", "idle")
  /\ stray' = AfterWrite(r)
  /\ UNCHANGED <<state, openedAge, probeInFlight, metrics, readAge, edge,
                 fresh, outageAge>>

AddFailure(r) ==
  /\ consecutiveFailures' = consecutiveFailures + 1
  /\ \/ consecutiveFailures' >= FailureThreshold
        /\ Goto(r, "addFailure", "tripStamp")
     \/ consecutiveFailures' < FailureThreshold
        /\ Goto(r, "addFailure", "idle")
  /\ stray' = AfterWrite(r)
  /\ UNCHANGED <<state, openedAge, probeInFlight, metrics, readAge, edge,
                 fresh, outageAge>>

\* time.Now() is read into a local; openedAt is stored a moment later, and
\* the state changes only after that.
StampNow(r) ==
  /\ \/ Goto(r, "tripStamp", "tripStore")
     \/ Goto(r, "reopenStamp", "reopenStore")
  /\ readAge' = [readAge EXCEPT ![r] = 0]
  /\ outageAge' = IF r \in fresh /\ Opening = {} THEN 0 ELSE outageAge
  /\ UNCHANGED <<shared, metrics, edge, fresh, stray>>

\* Mutant: a failed probe keeps the time stamp of the first failure.
StoreOpenedAtOnce(r) ==
  /\ \/ Goto(r, "tripStore", "trip") /\ openedAge' = readAge[r]
     \/ Goto(r, "reopenStore", "reopen") /\ UNCHANGED openedAge
  /\ stray' = AfterWrite(r)
  /\ UNCHANGED <<state, consecutiveFailures, probeInFlight, metrics, readAge,
                 edge, fresh, outageAge>>

StoreOpenedAt(r) ==
  /\ \/ Goto(r, "tripStore", "trip")
     \/ Goto(r, "reopenStore", "reopen")
  /\ openedAge' = readAge[r]
  /\ stray' = AfterWrite(r)
  /\ UNCHANGED <<state, consecutiveFailures, probeInFlight, metrics, readAge,
                 edge, fresh, outageAge>>

Trip(r) ==
  /\ TransitionTo(r, "trip", StateClosed, StateOpen, "idle")
  /\ readAge' = [readAge EXCEPT ![r] = Recovery]
  /\ UNCHANGED <<consecutiveFailures, openedAge, probeInFlight, metrics,
                 outageAge>>

Reopen(r) ==
  /\ TransitionTo(r, "reopen", StateHalfOpen, StateOpen, "idle")
  /\ readAge' = [readAge EXCEPT ![r] = Recovery]
  /\ UNCHANGED <<consecutiveFailures, openedAge, probeInFlight, metrics,
                 outageAge>>

----------------------------------------------------------------------------
\* The proxy panics with http.ErrAbortHandler when copying the response body
\* fails half way.  Recovery catches it above the middleware, whose calls of
\* the Record methods are not deferred: the breaker is never told.
Abort(r) ==
  /\ "abort" \in Outcomes
  /\ \/ Goto(r, "backend", "idle")
     \/ Goto(r, "probe", "idle")
  /\ stray' = IF pc[r] = "probe" THEN stray \cup {"lostProbe"} ELSE stray
  /\ UNCHANGED <<shared, metrics, readAge, edge, fresh, outageAge>>

Older(age) == IF age < Recovery THEN age + 1 ELSE age

Tick ==
  /\ openedAge' = Older(openedAge)
  /\ readAge' = [r \in Requests |-> Older(readAge[r])]
  /\ outageAge' = Older(outageAge)
  /\ UNCHANGED <<state, consecutiveFailures, probeInFlight, metrics, pc, edge,
                 fresh, stray>>

Step(r) ==
  \/ LoadOpenedAt(r) \/ Elapsed(r) \/ ToHalfOpen(r) \/ ClaimProbe(r)
  \/ ResetFailures(r) \/ ReleaseProbe(r) \/ Close(r)
  \/ AddFailure(r) \/ StampNow(r) \/ StoreOpenedAt(r) \/ Trip(r) \/ Reopen(r)
  \/ SetGauge(r) \/ CountTransition(r)

Answer(r) == RecordSuccess(r) \/ RecordFailure(r) \/ Abort(r)

Next ==
  \/ \E r \in Requests : Allow(r) \/ Answer(r) \/ Step(r)
  \/ Tick

Spec == Init /\ [][Next]_vars

(* Goroutines inside a method are scheduled; time passes; the backend      *)
(* answers or the call is cut off; and each goroutine slot keeps receiving *)
(* requests.                                                               *)
Fairness ==
  /\ WF_vars(Tick)
  /\ \A r \in Requests :
       /\ WF_vars(Step(r))
       /\ WF_vars(Answer(r))
       /\ WF_vars(Allow(r))

FairSpec == Spec /\ Fairness

----------------------------------------------------------------------------
(* Properties *)

\* Values the words and counters may hold.
TypeOK ==
  /\ state \in State
  /\ consecutiveFailures \in Nat
  /\ openedAge \in 0..Recovery
  /\ probeInFlight \in BOOLEAN
  /\ gauge \in State
  /\ entered \in [State -> Int]
  /\ pc \in [Requests -> Points]
  /\ readAge \in [Requests -> 0..Recovery]
  /\ outageAge \in 0..Recovery
  /\ fresh \subseteq Requests
  /\ stray \subseteq Strays
  /\ edge \in [Requests -> Edges \cup {NoEdge}]
  /\ \A r \in Requests : edge[r] # NoEdge <=> pc[r] \in Reporting

Entering(s) == {r \in Requests : edge[r] # NoEdge /\ edge[r].to = s}
Leaving(s) == {r \in Requests : edge[r] # NoEdge /\ edge[r].from = s}
Is(s, t) == IF s = t THEN 1 ELSE 0

\* Two goroutines never both make the same transition (breaker.go:207): the
\* transition counters, with the transitions still being reported added,
\* always tell which state the breaker is in, however the calls overlap.
TransitionsAccountForState ==
  \A s \in State :
    entered[s] + Cardinality(Entering(s)) - Cardinality(Leaving(s))
      = Is(s, state) - Is(s, StateClosed)

Quiet == \A r \in Requests : pc[r] \in Outside

\* A threshold below one is reached by the first failure.
ThresholdReached ==
  consecutiveFailures > 0 /\ consecutiveFailures >= FailureThreshold

\* The probe flag is up only while the breaker is half open and a request
\* admitted as the probe is out or is recording its outcome.  Only two things
\* can break this, whatever the calls interleave: a claim between another
\* call's release of the flag and its transition, or after it, and a probe
\* that panics (breaker.go:74, :117, :129, :153, :182).
ProbeOwned ==
  probeInFlight /\ stray \cap {"lateClaim", "lostProbe"} = {} =>
    /\ state = StateHalfOpen
    /\ \E r \in Requests :
         pc[r] \in {"probe", "closeReset", "closeRelease", "reopenRelease"}

\* When no call is under way a closed breaker has not counted the failures
\* that open it, also where the threshold is zero or negative, and however
\* calls overlapped since the breaker was last tried, unless one of them wrote
\* by a state that was over (breaker.go:88, :145-152, :167-176).
ClosedBelowThreshold ==
  Quiet /\ state = StateClosed /\ "lateWrite" \notin stray => ~ThresholdReached

\* When no call is under way the Prometheus gauge shows the state of the
\* breaker, unless the last to set it was overtaken between its transition and
\* its Set (breaker.go:210, :221).
GaugeShowsState == Quiet /\ "lateReport" \notin stray => gauge = state

\* The breaker does not start probing before the recovery duration has gone
\* by since the first of the calls that opened it read the clock, unless a
\* call wrote the time stamp, or tries the breaker, by a state that is over
\* (breaker.go:23, :112-119, :176, :183).
OpenHonoursRecoveryWindow ==
  [][(state = StateOpen /\ state' = StateHalfOpen)
       => outageAge = Recovery \/ "lateWrite" \in stray \cup stray']_vars

\* At most one request is at the backend as a probe (breaker.go:27, :74;
\* middleware/circuitbreaker.go:19).
OneProbe == \A r, q \in Requests : pc[r] = "probe" /\ pc[q] = "probe" => r = q

\* An open breaker is eventually tried again, however the calls overlap and
\* however forwarded requests end (breaker.go:114-119).
OpenIsLeft == state = StateOpen ~> state # StateOpen

\* A half-open breaker does not stay half open: the probe decides
\* (breaker.go:27-28).
ProbeDecides == state = StateHalfOpen ~> state # StateHalfOpen

FlagAstray == stray \cap {"lateClaim", "lostProbe"} # {}

\* A half-open breaker is left, however the calls overlap, or a claim comes
\* late or a probe panics: nothing else can keep it half open
\* (breaker.go:27-28, :128-132).
HalfOpenIsLeft ==
  state = StateHalfOpen /\ ~FlagAstray ~> state # StateHalfOpen \/ FlagAstray

\* If from some time on no request fails, no claim is late and no probe
\* panics, then from some time on the breaker is closed and rejects nothing.
EventuallyRecovers ==
  <>[][\A r \in Requests : ~RecordFailure(r)]_vars /\ <>[](~FlagAstray)
    => <>[](state = StateClosed)

\* Half open, the flag up, and no request on its way that was let through.
Wedged ==
  /\ state = StateHalfOpen /\ probeInFlight
  /\ \A r \in Requests :
       pc[r] \in {"idle", "loadOpenedAt", "elapsed", "toHalfOpen", "claim"}

\* A panic of the probe is for good: once the breaker is half open with the
\* flag up and nobody is left who will report to it, every request that comes
\* is refused, in any interleaving (breaker.go:122-133;
\* middleware/circuitbreaker.go:50).
WedgeIsForever == [][Wedged => Wedged']_vars

\* Fresh calls that found the threshold reached, and those that record the
\* outcome of a probe.
Tripping == {r \in fresh : pc[r] \in {"tripStamp", "tripStore", "trip"}}
Deciding == {r \in fresh :
               pc[r] \in {"closeReset", "closeRelease", "close",
                          "reopenRelease", "reopenStamp", "reopenStore", "reopen"}}

\* What the breaker's callers see of it, in the terms of BreakerModes.
Modes == INSTANCE BreakerModes WITH
  Threshold <- FailureThreshold,
  mode <- state,
  failures <- consecutiveFailures,
  due <- Tripping # {},
  probing <- state = StateHalfOpen /\ (probeInFlight \/ Deciding # {}),
  opening <- Opening # {},
  age <- outageAge

Orderly == stray \cap {"lateWrite", "lateClaim"} = {}

\* While no call has written or claimed by a state that is over, the breaker
\* does what BreakerModes promises its callers, however the calls interleave.
ImplementsModes ==
  Modes!Init /\ [][Orderly /\ Orderly' => [Modes!Next]_(Modes!modeVars)]_vars

----------------------------------------------------------------------------
(* The inductive invariant, of every interleaving *)

\* A fresh call goes by the state the breaker is in.
PointAgrees(r) ==
  /\ pc[r] \in {"loadOpenedAt", "elapsed", "toHalfOpen"} => state = StateOpen
  /\ pc[r] \in {"reset", "addFailure", "tripStamp", "tripStore", "trip"}
       => state = StateClosed
  /\ pc[r] \in {"closeReset", "closeRelease", "close", "reopenRelease",
                "reopenStamp", "reopenStore", "reopen"}
       => state = StateHalfOpen
  /\ pc[r] = "setGauge" => edge[r].to = state

\* The gauge is right or a fresh call is about to put it right.
GaugeAgrees ==
  "lateReport" \notin stray =>
    gauge = state \/ \E r \in fresh : pc[r] = "setGauge"

\* The flag goes down before the state changes, and whoever is answered for
\* it is under way.
FlagAgrees ==
  probeInFlight =>
    /\ "lateClaim" \notin stray => state = StateHalfOpen /\ Decided = {}
    /\ stray \cap {"lateClaim", "lostProbe"} = {} =>
         \E r \in Requests :
           pc[r] \in {"probe", "closeReset", "closeRelease", "reopenRelease"}

\* The count and the time stamp are what the fresh calls take them for.
WordsAgree ==
  "lateWrite" \notin stray =>
    /\ state = StateClosed /\ ThresholdReached => Tripping # {}
    /\ state = StateOpen => openedAge <= outageAge
    /\ \A r \in Opening : readAge[r] <= outageAge
    /\ \A r \in fresh :
         /\ pc[r] \in {"trip", "reopen"} => openedAge <= outageAge
         /\ pc[r] \in {"closeRelease", "close"} => consecutiveFailures = 0
         /\ pc[r] = "elapsed" => readAge[r] = openedAge
         /\ pc[r] = "toHalfOpen" => openedAge = Recovery

Consistent ==
  /\ \A r \in fresh : PointAgrees(r)
  /\ GaugeAgrees
  /\ FlagAgrees
  /\ WordsAgree
=============================================================================
