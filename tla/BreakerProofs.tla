--------------------------- MODULE BreakerProofs ---------------------------
(***************************************************************************)
(* Theorems about Breaker for any number of requests, any threshold and    *)
(* any recovery duration.                                                  *)
(***************************************************************************)
EXTENDS Breaker, FiniteSetTheorems, TLAPS

\* The actions that end in a compare-and-swap or fall through it.
LEMMA TypingOfTransition ==
  ASSUME TypeOK, NEW r \in Requests, NEW from \in State, NEW to \in State,
         NEW at \in Points \ Reporting, NEW loser \in Points \ Reporting,
         TransitionTo(r, at, from, to, loser)
  PROVE  /\ state' \in State
         /\ pc' \in [Requests -> Points]
         /\ edge' \in [Requests -> Edges \cup {NoEdge}]
         /\ \A q \in Requests : edge'[q] # NoEdge <=> pc'[q] \in Reporting
         /\ fresh' \subseteq Requests /\ stray' \subseteq Strays
<1>1. fresh' \subseteq Requests /\ stray' \subseteq Strays
  BY DEF TypeOK, TransitionTo, AfterWrite, Strays
<1>2. /\ state' \in State
      /\ pc' \in [Requests -> Points]
      /\ edge' \in [Requests -> Edges \cup {NoEdge}]
      /\ \A q \in Requests : edge'[q] # NoEdge <=> pc'[q] \in Reporting
  BY DEF TypeOK, TransitionTo, Goto, Edges, NoEdge, State, Points, Reporting,
         Outside, InFlight, StateClosed, StateOpen, StateHalfOpen
<1> QED  BY <1>1, <1>2

\* No step of any schedule takes a variable out of its type.
THEOREM Typing == Spec => []TypeOK
<1>1. Init => TypeOK
  <2> SUFFICES ASSUME Init PROVE TypeOK
    OBVIOUS
  <2> USE BreakerAssumption DEF Init
  <2>1. "idle" \in Points /\ "idle" \notin Reporting
    BY DEF Points, Outside, InFlight, Reporting
  <2>2. state \in State /\ gauge \in State /\ entered \in [State -> Int]
    BY DEF State
  <2>3. /\ openedAge \in 0..Recovery /\ outageAge \in 0..Recovery
        /\ readAge \in [Requests -> 0..Recovery]
    OBVIOUS
  <2>4. edge \in [Requests -> Edges \cup {NoEdge}]
    OBVIOUS
  <2>5. \A r \in Requests : edge[r] # NoEdge <=> pc[r] \in Reporting
    BY <2>1
  <2> QED  BY <2>1, <2>2, <2>3, <2>4, <2>5 DEF TypeOK
<1>2. TypeOK /\ [Next]_vars => TypeOK'
  <2> SUFFICES ASSUME TypeOK, [Next]_vars PROVE TypeOK'
    OBVIOUS
  <2> USE BreakerAssumption
          DEF TypeOK, Goto, AfterWrite, Strays, shared, metrics, history, Points, Outside, InFlight, Reporting
  <2>1. ASSUME NEW r \in Requests, Allow(r) PROVE TypeOK'
    BY <2>1 DEF Allow
  <2>2. ASSUME NEW r \in Requests, Answer(r) PROVE TypeOK'
    BY <2>2 DEF Answer, RecordSuccess, RecordFailure, Abort
  <2>3. ASSUME NEW r \in Requests, LoadOpenedAt(r) PROVE TypeOK'
    BY <2>3 DEF LoadOpenedAt
  <2>4. ASSUME NEW r \in Requests, Elapsed(r) PROVE TypeOK'
    BY <2>4 DEF Elapsed
  <2>5. ASSUME NEW r \in Requests, ClaimProbe(r) PROVE TypeOK'
    BY <2>5 DEF ClaimProbe
  <2>6. ASSUME NEW r \in Requests, ResetFailures(r) PROVE TypeOK'
    BY <2>6 DEF ResetFailures
  <2>7. ASSUME NEW r \in Requests, ReleaseProbe(r) PROVE TypeOK'
    BY <2>7 DEF ReleaseProbe
  <2>8. ASSUME NEW r \in Requests, AddFailure(r) PROVE TypeOK'
    BY <2>8 DEF AddFailure
  <2>9. ASSUME NEW r \in Requests, StampNow(r) PROVE TypeOK'
    BY <2>9 DEF StampNow
  <2>10. ASSUME NEW r \in Requests, StoreOpenedAt(r) PROVE TypeOK'
    BY <2>10 DEF StoreOpenedAt
  <2>11. ASSUME NEW r \in Requests, ToHalfOpen(r) \/ Close(r) PROVE TypeOK'
    <3>1. {StateClosed, StateOpen, StateHalfOpen} \subseteq State
      BY DEF State
    <3>2. \/ TransitionTo(r, "toHalfOpen", StateOpen, StateHalfOpen, "claim")
          \/ TransitionTo(r, "close", StateHalfOpen, StateClosed, "idle")
      BY <2>11 DEF ToHalfOpen, Close
    <3>3. {"toHalfOpen", "claim", "close", "idle"} \subseteq Points \ Reporting
      OBVIOUS
    <3>4. UNCHANGED <<consecutiveFailures, openedAge, probeInFlight, metrics,
                      readAge, outageAge>>
      BY <2>11 DEF ToHalfOpen, Close
    <3> HIDE DEF TypeOK
    <3>5. /\ state' \in State
          /\ pc' \in [Requests -> Points]
          /\ edge' \in [Requests -> Edges \cup {NoEdge}]
          /\ \A q \in Requests : edge'[q] # NoEdge <=> pc'[q] \in Reporting
          /\ fresh' \subseteq Requests /\ stray' \subseteq Strays
      BY <3>1, <3>2, <3>3, TypingOfTransition
    <3> QED  BY <3>4, <3>5 DEF TypeOK, metrics
  <2>12. ASSUME NEW r \in Requests, Trip(r) \/ Reopen(r) PROVE TypeOK'
    <3>1. {StateClosed, StateOpen, StateHalfOpen} \subseteq State
      BY DEF State
    <3>2. \/ TransitionTo(r, "trip", StateClosed, StateOpen, "idle")
          \/ TransitionTo(r, "reopen", StateHalfOpen, StateOpen, "idle")
      BY <2>12 DEF Trip, Reopen
    <3>3. {"trip", "reopen", "idle"} \subseteq Points \ Reporting
      OBVIOUS
    <3>4. /\ UNCHANGED <<consecutiveFailures, openedAge, probeInFlight, metrics>>
          /\ UNCHANGED outageAge
          /\ readAge' \in [Requests -> 0..Recovery]
      BY <2>12 DEF Trip, Reopen
    <3> HIDE DEF TypeOK
    <3>5. /\ state' \in State
          /\ pc' \in [Requests -> Points]
          /\ edge' \in [Requests -> Edges \cup {NoEdge}]
          /\ \A q \in Requests : edge'[q] # NoEdge <=> pc'[q] \in Reporting
          /\ fresh' \subseteq Requests /\ stray' \subseteq Strays
      BY <3>1, <3>2, <3>3, TypingOfTransition
    <3> QED  BY <3>4, <3>5 DEF TypeOK, metrics
  <2>13. ASSUME NEW r \in Requests, SetGauge(r) \/ CountTransition(r)
        PROVE TypeOK'
    <3>1. pc[r] \in Reporting /\ edge[r] \in Edges
      BY <2>13 DEF SetGauge, CountTransition
    <3>2. edge[r].from \in State /\ edge[r].to \in State
      BY <3>1 DEF Edges, State
    <3>3. CASE SetGauge(r)
      BY <3>2, <3>3 DEF SetGauge
    <3>4. CASE CountTransition(r)
      <4>1. entered' \in [State -> Int]
        BY <3>2, <3>4 DEF CountTransition
      <4> QED
        BY <3>4, <4>1 DEF CountTransition
    <3> QED  BY <2>13, <3>3, <3>4
  <2>14. CASE Tick
    BY <2>14 DEF Tick, Older
  <2>15. CASE UNCHANGED vars
    BY <2>15 DEF vars
  <2> QED
    BY <2>1, <2>2, <2>3, <2>4, <2>5, <2>6, <2>7, <2>8, <2>9, <2>10, <2>11,
       <2>12, <2>13, <2>14, <2>15 DEF Next, Step
<1> QED  BY <1>1, <1>2, PTL DEF Spec

----------------------------------------------------------------------------
(* The transition counters *)

In(x, S) == IF x \in S THEN 1 ELSE 0

\* Taking an element out of a finite set.
LEMMA CardinalityWithout ==
  ASSUME NEW S, IsFiniteSet(S), NEW x
  PROVE  Cardinality(S \ {x}) = Cardinality(S) - In(x, S)
<1>1. Cardinality(S) \in Int
  BY FS_CardinalityType
<1>2. Cardinality(S \ {x})
        = IF x \in S THEN Cardinality(S) - 1 ELSE Cardinality(S)
  BY FS_RemoveElement
<1> QED  BY <1>1, <1>2 DEF In

\* Finitely many goroutines hold an edge.
LEMMA PendingFinite ==
  ASSUME NEW s
  PROVE  /\ IsFiniteSet(Entering(s)) /\ IsFiniteSet(Leaving(s))
         /\ Cardinality(Entering(s)) \in Int /\ Cardinality(Leaving(s)) \in Int
<1>1. Entering(s) \subseteq Requests /\ Leaving(s) \subseteq Requests
  BY DEF Entering, Leaving
<1>2. IsFiniteSet(Entering(s)) /\ IsFiniteSet(Leaving(s))
  BY <1>1, BreakerAssumption, FS_Subset
<1> QED  BY <1>2, FS_CardinalityType

\* Winning the compare-and-swap adds one pending transition.
LEMMA WinningAccounts ==
  ASSUME TypeOK, TransitionsAccountForState,
         NEW r \in Requests, NEW from \in State, NEW to \in State,
         pc[r] \notin Reporting, state = from, state' = to,
         edge' = [edge EXCEPT ![r] = [from |-> from, to |-> to]],
         entered' = entered
  PROVE  TransitionsAccountForState'
<1> SUFFICES ASSUME NEW s \in State
    PROVE entered'[s] + Cardinality(Entering(s)') - Cardinality(Leaving(s)')
            = Is(s, to) - Is(s, StateClosed)
  BY DEF TransitionsAccountForState, Is
<1>1. /\ edge[r] = NoEdge /\ edge'[r] = [from |-> from, to |-> to]
      /\ \A q \in Requests : q # r => edge'[q] = edge[q]
  BY DEF TypeOK
<1>2. edge'[r] # NoEdge
  <2>1. from # "none"
    BY DEF State, StateClosed, StateOpen, StateHalfOpen
  <2> QED  BY <1>1, <2>1 DEF NoEdge
<1>3. /\ r \notin Entering(s) /\ r \notin Leaving(s)
      /\ Entering(s)' = IF s = to THEN Entering(s) \cup {r} ELSE Entering(s)
      /\ Leaving(s)' = IF s = from THEN Leaving(s) \cup {r} ELSE Leaving(s)
  BY <1>1, <1>2 DEF Entering, Leaving
<1>4. /\ Cardinality(Entering(s) \cup {r}) = Cardinality(Entering(s)) + 1
      /\ Cardinality(Leaving(s) \cup {r}) = Cardinality(Leaving(s)) + 1
  BY <1>3, PendingFinite, FS_AddElement
<1>5. /\ Cardinality(Entering(s)') = Cardinality(Entering(s)) + Is(s, to)
      /\ Cardinality(Leaving(s)') = Cardinality(Leaving(s)) + Is(s, from)
  BY <1>3, <1>4, PendingFinite DEF Is
<1>6. /\ entered[s] \in Int
      /\ entered[s] + Cardinality(Entering(s)) - Cardinality(Leaving(s))
           = Is(s, from) - Is(s, StateClosed)
  BY DEF TypeOK, TransitionsAccountForState
<1> QED  BY <1>5, <1>6, PendingFinite DEF Is

\* Counting a transition takes it off the pending ones.
LEMMA CountingAccounts ==
  ASSUME TypeOK, TransitionsAccountForState,
         NEW r \in Requests, CountTransition(r)
  PROVE  TransitionsAccountForState'
<1> DEFINE from == edge[r].from
           to == edge[r].to
<1> SUFFICES ASSUME NEW s \in State
    PROVE entered'[s] + Cardinality(Entering(s)') - Cardinality(Leaving(s)')
            = Is(s, state) - Is(s, StateClosed)
  BY DEF TransitionsAccountForState, Is, CountTransition, shared
<1>1. /\ edge[r] # NoEdge /\ edge'[r] = NoEdge
      /\ \A q \in Requests : q # r => edge'[q] = edge[q]
  BY DEF TypeOK, CountTransition, Goto, Reporting
<1>2. from \in State /\ to \in State
  BY <1>1 DEF TypeOK, Edges
<1>3. /\ r \in Entering(s) <=> s = to
      /\ r \in Leaving(s) <=> s = from
      /\ Entering(s)' = Entering(s) \ {r}
      /\ Leaving(s)' = Leaving(s) \ {r}
  BY <1>1 DEF Entering, Leaving
<1>4. /\ Cardinality(Entering(s)') = Cardinality(Entering(s)) - Is(s, to)
      /\ Cardinality(Leaving(s)') = Cardinality(Leaving(s)) - Is(s, from)
  <2>1. Is(s, to) = In(r, Entering(s)) /\ Is(s, from) = In(r, Leaving(s))
    BY <1>3 DEF Is, In
  <2>2. /\ Cardinality(Entering(s) \ {r})
             = Cardinality(Entering(s)) - In(r, Entering(s))
        /\ Cardinality(Leaving(s) \ {r})
             = Cardinality(Leaving(s)) - In(r, Leaving(s))
    BY PendingFinite, CardinalityWithout
  <2> QED  BY <1>3, <2>1, <2>2
<1>5. entered'[s] = entered[s] + Is(s, to) - Is(s, from)
  BY <1>2 DEF TypeOK, CountTransition, Is
<1>6. /\ entered[s] \in Int
      /\ entered[s] + Cardinality(Entering(s)) - Cardinality(Leaving(s))
           = Is(s, state) - Is(s, StateClosed)
  BY DEF TypeOK, TransitionsAccountForState
<1> HIDE DEF from, to
<1> QED  BY <1>4, <1>5, <1>6, PendingFinite DEF Is

\* However the calls overlap, each transition of the state is counted once.
THEOREM EveryTransitionCounted == Spec => []TransitionsAccountForState
<1>1. Init => TransitionsAccountForState
  <2> SUFFICES ASSUME Init, NEW s \in State
      PROVE entered[s] + Cardinality(Entering(s)) - Cardinality(Leaving(s))
              = Is(s, state) - Is(s, StateClosed)
    BY DEF TransitionsAccountForState
  <2>1. Entering(s) = {} /\ Leaving(s) = {}
    BY DEF Init, Entering, Leaving
  <2> QED  BY <2>1, FS_EmptySet DEF Init, Is
<1>2. TypeOK /\ TransitionsAccountForState /\ [Next]_vars
        => TransitionsAccountForState'
  <2> SUFFICES ASSUME TypeOK, TransitionsAccountForState, [Next]_vars
      PROVE TransitionsAccountForState'
    OBVIOUS
  <2>1. CASE UNCHANGED <<state, entered, edge>>
    BY <2>1 DEF TransitionsAccountForState, Entering, Leaving, Is
  <2>2. ASSUME NEW r \in Requests,
               ToHalfOpen(r) \/ Close(r) \/ Trip(r) \/ Reopen(r)
        PROVE TransitionsAccountForState'
    <3>1. PICK from \in State, to \in State,
               at \in {"toHalfOpen", "close", "trip", "reopen"},
               loser \in Points :
            TransitionTo(r, at, from, to, loser)
      BY <2>2 DEF ToHalfOpen, Close, Trip, Reopen, State, Points, Outside
    <3>2. entered' = entered
      BY <2>2 DEF ToHalfOpen, Close, Trip, Reopen, metrics
    <3>3. pc[r] \notin Reporting
      BY <3>1 DEF TransitionTo, Goto, Reporting
    <3> QED  BY <2>1, <3>1, <3>2, <3>3, WinningAccounts DEF TransitionTo
  <2>3. ASSUME NEW r \in Requests, CountTransition(r)
        PROVE TransitionsAccountForState'
    BY <2>3, CountingAccounts
  <2>4. ASSUME NEW r \in Requests, Allow(r) \/ Answer(r)
        PROVE UNCHANGED <<state, entered, edge>>
    BY <2>4 DEF Allow, Answer, RecordSuccess, RecordFailure, Abort, shared,
                metrics
  <2>5. ASSUME NEW r \in Requests, Step(r)
        PROVE TransitionsAccountForState'
    BY <2>1, <2>2, <2>3, <2>5
    DEF Step, LoadOpenedAt, Elapsed, ClaimProbe, ResetFailures, ReleaseProbe,
        AddFailure, StampNow, StoreOpenedAt, SetGauge, shared, metrics
  <2> QED  BY <2>1, <2>4, <2>5 DEF Next, Tick, metrics, vars
<1> QED  BY <1>1, <1>2, Typing, PTL DEF Spec

----------------------------------------------------------------------------
(* The words, the flag and the gauge *)

\* However the calls interleave, fresh calls go by the state the breaker is
\* in, and the gauge, the flag, the count and the time stamp are right but for
\* what has gone astray (breaker.go:100-188).
THEOREM Consistency == Spec => []Consistent
<1> DEFINE Pts == \A r \in fresh : PointAgrees(r)
<1>1. Init => Consistent
  BY BreakerAssumption
  DEF Init, Consistent, PointAgrees, GaugeAgrees, FlagAgrees, WordsAgree,
      ThresholdReached, Opening, StateClosed, StateOpen, StateHalfOpen
<1>2. TypeOK /\ Consistent /\ [Next]_vars => Pts'
  <2> SUFFICES ASSUME TypeOK, Pts, [Next]_vars PROVE Pts'
    BY DEF Consistent
  <2> USE DEF TypeOK, PointAgrees, Goto, TransitionTo, shared, metrics, history,
              Points, Outside, InFlight, Reporting, State, StateClosed,
              StateOpen, StateHalfOpen
  <2>1. ASSUME NEW r \in Requests, Allow(r) \/ Answer(r) PROVE Pts'
    BY <2>1 DEF Allow, Answer, RecordSuccess, RecordFailure, Abort
  <2>2. ASSUME NEW r \in Requests, LoadOpenedAt(r) \/ Elapsed(r) \/ ClaimProbe(r)
        PROVE Pts'
    BY <2>2 DEF LoadOpenedAt, Elapsed, ClaimProbe
  <2>3. ASSUME NEW r \in Requests,
               ToHalfOpen(r) \/ Close(r) \/ Trip(r) \/ Reopen(r)
        PROVE Pts'
    BY <2>3 DEF ToHalfOpen, Close, Trip, Reopen
  <2>4. ASSUME NEW r \in Requests, ResetFailures(r) \/ ReleaseProbe(r)
        PROVE Pts'
    BY <2>4 DEF ResetFailures, ReleaseProbe
  <2>5. ASSUME NEW r \in Requests,
               AddFailure(r) \/ StampNow(r) \/ StoreOpenedAt(r)
        PROVE Pts'
    BY <2>5 DEF AddFailure, StampNow, StoreOpenedAt
  <2>6. ASSUME NEW r \in Requests, SetGauge(r) \/ CountTransition(r)
        PROVE Pts'
    BY <2>6 DEF SetGauge, CountTransition
  <2>7. CASE Tick \/ UNCHANGED vars
    BY <2>7 DEF Tick, vars
  <2> QED  BY <2>1, <2>2, <2>3, <2>4, <2>5, <2>6, <2>7 DEF Next, Step
<1>3. TypeOK /\ Consistent /\ [Next]_vars => GaugeAgrees'
  <2> SUFFICES ASSUME TypeOK, Pts, GaugeAgrees, [Next]_vars PROVE GaugeAgrees'
    BY DEF Consistent
  <2> USE DEF TypeOK, GaugeAgrees, Goto, TransitionTo, AfterWrite, shared,
              metrics, history, Outside, InFlight
  <2>1. ASSUME NEW r \in Requests, Allow(r) \/ Answer(r) PROVE GaugeAgrees'
    BY <2>1 DEF Allow, Answer, RecordSuccess, RecordFailure, Abort
  <2>2. ASSUME NEW r \in Requests, LoadOpenedAt(r) \/ Elapsed(r) \/ ClaimProbe(r)
        PROVE GaugeAgrees'
    BY <2>2 DEF LoadOpenedAt, Elapsed, ClaimProbe
  <2>3. ASSUME NEW r \in Requests,
               ToHalfOpen(r) \/ Close(r) \/ Trip(r) \/ Reopen(r)
        PROVE GaugeAgrees'
    BY <2>3 DEF ToHalfOpen, Close, Trip, Reopen
  <2>4. ASSUME NEW r \in Requests,
               \/ ResetFailures(r) \/ ReleaseProbe(r) \/ AddFailure(r)
               \/ StampNow(r) \/ StoreOpenedAt(r)
        PROVE GaugeAgrees'
    BY <2>4 DEF ResetFailures, ReleaseProbe, AddFailure, StampNow, StoreOpenedAt
  <2>5. ASSUME NEW r \in Requests, SetGauge(r) PROVE GaugeAgrees'
    BY <2>5 DEF SetGauge, PointAgrees
  <2>6. ASSUME NEW r \in Requests, CountTransition(r) PROVE GaugeAgrees'
    BY <2>6 DEF CountTransition
  <2>7. CASE Tick \/ UNCHANGED vars
    BY <2>7 DEF Tick, vars
  <2> QED  BY <2>1, <2>2, <2>3, <2>4, <2>5, <2>6, <2>7 DEF Next, Step
<1>4. TypeOK /\ Consistent /\ [Next]_vars => FlagAgrees'
  <2> SUFFICES ASSUME TypeOK, FlagAgrees, [Next]_vars PROVE FlagAgrees'
    BY DEF Consistent
  <2> USE DEF TypeOK, FlagAgrees, Decided, Goto, AfterWrite, shared, metrics,
              history, InFlight, StateClosed, StateOpen, StateHalfOpen
  <2>1. ASSUME NEW r \in Requests, Allow(r) PROVE FlagAgrees'
    BY <2>1 DEF Allow
  <2>2. ASSUME NEW r \in Requests, RecordSuccess(r) PROVE FlagAgrees'
    BY <2>2 DEF RecordSuccess
  <2>3. ASSUME NEW r \in Requests, RecordFailure(r) PROVE FlagAgrees'
    BY <2>3 DEF RecordFailure
  <2>4. ASSUME NEW r \in Requests, Abort(r) PROVE FlagAgrees'
    BY <2>4 DEF Abort
  <2>5. ASSUME NEW r \in Requests, LoadOpenedAt(r) \/ Elapsed(r)
        PROVE FlagAgrees'
    BY <2>5 DEF LoadOpenedAt, Elapsed
  <2>6. ASSUME NEW r \in Requests, ClaimProbe(r) PROVE FlagAgrees'
    BY <2>6 DEF ClaimProbe
  <2>7. ASSUME NEW r \in Requests, ReleaseProbe(r) PROVE FlagAgrees'
    BY <2>7 DEF ReleaseProbe
  <2>8. ASSUME NEW r \in Requests, ToHalfOpen(r) PROVE FlagAgrees'
    BY <2>8 DEF ToHalfOpen, TransitionTo
  <2>9. ASSUME NEW r \in Requests, Close(r) PROVE FlagAgrees'
    BY <2>9 DEF Close, TransitionTo
  <2>10. ASSUME NEW r \in Requests, Trip(r) PROVE FlagAgrees'
    BY <2>10 DEF Trip, TransitionTo
  <2>11. ASSUME NEW r \in Requests, Reopen(r) PROVE FlagAgrees'
    BY <2>11 DEF Reopen, TransitionTo
  <2>12. ASSUME NEW r \in Requests, ResetFailures(r) \/ AddFailure(r)
        PROVE FlagAgrees'
    BY <2>12 DEF ResetFailures, AddFailure
  <2>13. ASSUME NEW r \in Requests, StampNow(r) \/ StoreOpenedAt(r)
        PROVE FlagAgrees'
    BY <2>13 DEF StampNow, StoreOpenedAt
  <2>14. ASSUME NEW r \in Requests, SetGauge(r) \/ CountTransition(r)
        PROVE FlagAgrees'
    BY <2>14 DEF SetGauge, CountTransition
  <2>15. CASE Tick \/ UNCHANGED vars
    BY <2>15 DEF Tick, vars
  <2> QED
    BY <2>1, <2>2, <2>3, <2>4, <2>5, <2>6, <2>7, <2>8, <2>9, <2>10, <2>11,
       <2>12, <2>13, <2>14, <2>15 DEF Next, Step, Answer
<1>5. TypeOK /\ Consistent /\ [Next]_vars => WordsAgree'
  <2> SUFFICES ASSUME TypeOK, Pts, WordsAgree, [Next]_vars PROVE WordsAgree'
    BY DEF Consistent
  <2> USE BreakerAssumption
          DEF TypeOK, WordsAgree, Tripping, Opening, ThresholdReached, Goto,
              AfterWrite, shared, metrics, history, InFlight,
              StateClosed, StateOpen, StateHalfOpen
  <2>1. ASSUME NEW r \in Requests, Allow(r) PROVE WordsAgree'
    BY <2>1 DEF Allow
  <2>2. ASSUME NEW r \in Requests, RecordSuccess(r) \/ RecordFailure(r)
        PROVE WordsAgree'
    BY <2>2 DEF RecordSuccess, RecordFailure
  <2>3. ASSUME NEW r \in Requests, Abort(r) \/ ClaimProbe(r) PROVE WordsAgree'
    BY <2>3 DEF Abort, ClaimProbe, Strays
  <2>4. ASSUME NEW r \in Requests, LoadOpenedAt(r) PROVE WordsAgree'
    BY <2>4 DEF LoadOpenedAt
  <2>5. ASSUME NEW r \in Requests, Elapsed(r) PROVE WordsAgree'
    BY <2>5 DEF Elapsed
  <2>6. ASSUME NEW r \in Requests, ToHalfOpen(r) PROVE WordsAgree'
    BY <2>6 DEF ToHalfOpen, TransitionTo
  <2>7. ASSUME NEW r \in Requests, Close(r) PROVE WordsAgree'
    BY <2>7 DEF Close, TransitionTo
  <2>8. ASSUME NEW r \in Requests, Trip(r) PROVE WordsAgree'
    BY <2>8 DEF Trip, TransitionTo, PointAgrees
  <2>9. ASSUME NEW r \in Requests, Reopen(r) PROVE WordsAgree'
    BY <2>9 DEF Reopen, TransitionTo, PointAgrees
  <2>10. ASSUME NEW r \in Requests, ResetFailures(r) PROVE WordsAgree'
    BY <2>10 DEF ResetFailures
  <2>11. ASSUME NEW r \in Requests, ReleaseProbe(r) PROVE WordsAgree'
    BY <2>11 DEF ReleaseProbe
  <2>12. ASSUME NEW r \in Requests, AddFailure(r) PROVE WordsAgree'
    BY <2>12 DEF AddFailure, PointAgrees
  <2>13. ASSUME NEW r \in Requests, StampNow(r) PROVE WordsAgree'
    BY <2>13 DEF StampNow, PointAgrees
  <2>14. ASSUME NEW r \in Requests, StoreOpenedAt(r) PROVE WordsAgree'
    BY <2>14 DEF StoreOpenedAt, PointAgrees
  <2>15. ASSUME NEW r \in Requests, SetGauge(r) \/ CountTransition(r)
        PROVE WordsAgree'
    BY <2>15 DEF SetGauge, CountTransition
  <2>16. CASE Tick
    BY <2>16 DEF Tick, Older
  <2>17. CASE UNCHANGED vars
    BY <2>17 DEF vars
  <2> QED
    BY <2>1, <2>2, <2>3, <2>4, <2>5, <2>6, <2>7, <2>8, <2>9, <2>10, <2>11,
       <2>12, <2>13, <2>14, <2>15, <2>16, <2>17 DEF Next, Step, Answer
<1>6. TypeOK /\ Consistent /\ [Next]_vars => Consistent'
  BY <1>2, <1>3, <1>4, <1>5 DEF Consistent
<1> QED  BY <1>1, <1>6, Typing, PTL DEF Spec

\* The probe flag always has an owner who will take it down, in every
\* interleaving, but for claims that come late and probes that panic
\* (breaker.go:117, :129, :153, :182).
THEOREM ProbeFlagIsOwned == Spec => []ProbeOwned
<1>1. Consistent => ProbeOwned
  BY DEF Consistent, FlagAgrees, ProbeOwned
<1> QED  BY <1>1, Consistency, PTL

\* A closed breaker at rest has counted fewer failures than the threshold,
\* unless a call wrote by a state that was over (breaker.go:145-152, :167-176).
THEOREM ClosedIsBelowThreshold == Spec => []ClosedBelowThreshold
<1>1. TypeOK /\ Consistent => ClosedBelowThreshold
  BY DEF Consistent, WordsAgree, ClosedBelowThreshold, Tripping, Quiet, Outside,
         InFlight, TypeOK
<1> QED  BY <1>1, Typing, Consistency, PTL

\* The gauge of a breaker at rest shows its state, unless the last to set it
\* had been overtaken (breaker.go:210, :221).
THEOREM GaugeIsRight == Spec => []GaugeShowsState
<1>1. TypeOK /\ Consistent => GaugeShowsState
  BY DEF TypeOK, Consistent, GaugeAgrees, GaugeShowsState, Quiet, Outside,
         InFlight
<1> QED  BY <1>1, Typing, Consistency, PTL

\* In every interleaving an open breaker is not tried before its recovery
\* duration has gone by, unless a call wrote by a state that was over
\* (breaker.go:112-116).
THEOREM RecoveryWindowIsHonoured == Spec => OpenHonoursRecoveryWindow
<1>1. TypeOK /\ Consistent /\ [Next]_vars
        => [(state = StateOpen /\ state' = StateHalfOpen)
              => outageAge = Recovery \/ "lateWrite" \in stray \cup stray']_vars
  <2> SUFFICES ASSUME TypeOK, Consistent, Next, state = StateOpen,
                      state' = StateHalfOpen, "lateWrite" \notin stray \cup stray'
      PROVE outageAge = Recovery
    BY DEF vars, StateOpen, StateHalfOpen
  <2>1. PICK r \in Requests : ToHalfOpen(r) \/ Close(r) \/ Trip(r) \/ Reopen(r)
    BY DEF Next, Answer, Step, Allow, RecordSuccess, RecordFailure, Abort,
           LoadOpenedAt, Elapsed, ClaimProbe, ResetFailures, ReleaseProbe,
           AddFailure, StampNow, StoreOpenedAt, SetGauge, CountTransition,
           Tick, shared, StateOpen, StateHalfOpen
  <2>2. ToHalfOpen(r)
    BY <2>1 DEF Close, Trip, Reopen, TransitionTo, StateClosed, StateOpen,
                StateHalfOpen
  <2>3. pc[r] = "toHalfOpen" /\ r \in fresh
    BY <2>2 DEF ToHalfOpen, TransitionTo, Goto, AfterWrite, StateOpen
  <2>4. openedAge = Recovery /\ openedAge <= outageAge
    BY <2>3 DEF Consistent, WordsAgree
  <2> QED  BY <2>4, BreakerAssumption DEF TypeOK
<1> QED
  BY <1>1, Typing, Consistency, PTL DEF Spec, OpenHonoursRecoveryWindow

----------------------------------------------------------------------------
(* The breaker implements BreakerModes *)

\* The state functions BreakerModes sees for its probe and for its openers.
Probing == state = StateHalfOpen /\ (probeInFlight \/ Deciding # {})
Due == Tripping # {}
IsOpening == Opening # {}

\* A step that leaves the words the abstract breaker has, the fresh calls and
\* the points they are counted by alone cannot be seen.
LEMMA Invisible ==
  ASSUME UNCHANGED <<state, consecutiveFailures, probeInFlight, outageAge>>,
         Tripping' = Tripping, Opening' = Opening, Deciding' = Deciding
  PROVE  UNCHANGED <<state, consecutiveFailures, Due, Probing, IsOpening, outageAge>>
  BY DEF Due, Probing, IsOpening

\* When all but the one that makes a transition stop being fresh, nobody is
\* left that trips, opens or decides.
LEMMA NobodyLeft ==
  ASSUME TypeOK, NEW r \in Requests, fresh' = {r},
         pc' = [pc EXCEPT ![r] = "setGauge"]
  PROVE  Tripping' = {} /\ Opening' = {} /\ Deciding' = {}
  BY DEF TypeOK, Tripping, Opening, Deciding

\* In every interleaving, while nothing has been written or claimed by a state
\* that is over, every step of the calls is a step of the abstract breaker or
\* none (breaker.go:100-226).
THEOREM BreakerImplementsModes == Spec => ImplementsModes
<1>1. Init => Modes!Init
  <2> SUFFICES ASSUME Init PROVE Modes!Init
    OBVIOUS
  <2>1. Tripping = {} /\ Opening = {} /\ ~Probing
    BY DEF Init, Tripping, Opening, Probing, StateClosed, StateHalfOpen
  <2> QED  BY <2>1 DEF Init, Modes!Init, Probing, StateClosed
<1>2. TypeOK /\ Consistent /\ [Next]_vars
        => [Orderly /\ Orderly' => [Modes!Next]_(Modes!modeVars)]_vars
  <2> DEFINE Goal ==
        \/ Modes!Next
        \/ UNCHANGED <<state, consecutiveFailures, Due, Probing, IsOpening, outageAge>>
  <2> SUFFICES ASSUME TypeOK, Consistent, Next, Orderly, Orderly' PROVE Goal
    BY DEF Modes!modeVars, Due, Probing, IsOpening
  <2>1. /\ WordsAgree /\ "lateWrite" \notin stray /\ "lateWrite" \notin stray'
        /\ "lateClaim" \notin stray /\ "lateClaim" \notin stray'
        /\ \A q \in fresh : PointAgrees(q)
        /\ probeInFlight => state = StateHalfOpen /\ Decided = {}
    BY DEF Orderly, Consistent, FlagAgrees
  <2>2. ASSUME NEW r \in Requests, Allow(r) PROVE Goal
    <3>1. UNCHANGED <<state, consecutiveFailures, probeInFlight, outageAge>>
      BY <2>2 DEF Allow, shared
    <3>2. Tripping' = Tripping /\ Opening' = Opening /\ Deciding' = Deciding
      BY <2>2 DEF Allow, Goto, Tripping, Opening, Deciding, TypeOK
    <3> QED  BY <3>1, <3>2, Invisible
  <2>3. ASSUME NEW r \in Requests, RecordSuccess(r) \/ RecordFailure(r)
        PROVE Goal
    <3>1. UNCHANGED <<state, consecutiveFailures, probeInFlight, outageAge>>
      BY <2>3 DEF RecordSuccess, RecordFailure, shared
    <3>2. Tripping' = Tripping /\ Opening' = Opening
      BY <2>3 DEF RecordSuccess, RecordFailure, Goto, Tripping, Opening,
                  InFlight, TypeOK
    <3>3. \/ Deciding' = Deciding
          \/ state = StateHalfOpen /\ Deciding' = Deciding \cup {r}
      BY <2>3 DEF RecordSuccess, RecordFailure, Goto, Deciding, InFlight, TypeOK
    <3>4. CASE Deciding' = Deciding
      BY <3>1, <3>2, <3>4, Invisible
    <3>5. CASE state = StateHalfOpen /\ Deciding' = Deciding \cup {r}
      <4>1. Probing'
        BY <3>1, <3>5 DEF Probing
      <4> QED
        BY <3>1, <3>2, <3>5, <4>1
        DEF Modes!Next, Modes!Probe, Due, Probing, IsOpening, StateHalfOpen
    <3> QED  BY <3>3, <3>4, <3>5
  <2>4. ASSUME NEW r \in Requests,
               \/ Abort(r) \/ LoadOpenedAt(r) \/ Elapsed(r)
               \/ SetGauge(r) \/ CountTransition(r)
        PROVE Goal
    <3>1. UNCHANGED <<state, consecutiveFailures, probeInFlight, outageAge>>
      BY <2>4 DEF Abort, LoadOpenedAt, Elapsed, SetGauge, CountTransition,
                  shared, history
    <3>2. Tripping' = Tripping /\ Opening' = Opening /\ Deciding' = Deciding
      BY <2>4 DEF Abort, LoadOpenedAt, Elapsed, SetGauge, CountTransition, Goto,
                  Tripping, Opening, Deciding, TypeOK, history
    <3> QED  BY <3>1, <3>2, Invisible
  <2>5. ASSUME NEW r \in Requests, ClaimProbe(r) PROVE Goal
    <3>1. UNCHANGED <<state, consecutiveFailures, outageAge>> /\ probeInFlight'
      BY <2>5 DEF ClaimProbe
    <3>2. Tripping' = Tripping /\ Opening' = Opening /\ Deciding' = Deciding
      BY <2>5 DEF ClaimProbe, Goto, Tripping, Opening, Deciding, TypeOK
    <3>3. CASE probeInFlight
      BY <3>1, <3>2, <3>3 DEF Due, Probing, IsOpening
    <3>4. CASE ~probeInFlight
      <4>1. state = StateHalfOpen
        BY <2>1, <2>5, <3>4 DEF ClaimProbe
      <4>2. Probing'
        BY <3>1, <4>1 DEF Probing
      <4> QED
        BY <3>1, <3>2, <4>1, <4>2
        DEF Modes!Next, Modes!Probe, Due, Probing, IsOpening, StateHalfOpen
    <3> QED  BY <3>3, <3>4 DEF TypeOK
  <2>6. ASSUME NEW r \in Requests, ResetFailures(r) PROVE Goal
    <3>1. /\ UNCHANGED <<state, probeInFlight, outageAge>>
          /\ consecutiveFailures' = 0
      BY <2>6 DEF ResetFailures
    <3>2. Tripping' = Tripping /\ Opening' = Opening /\ Deciding' \subseteq Requests
      BY <2>6 DEF ResetFailures, Goto, Tripping, Opening, Deciding, TypeOK
    <3>3. r \in fresh
      BY <2>1, <2>6 DEF ResetFailures, AfterWrite
    <3>4. CASE pc[r] = "reset"
      <4>1. state = StateClosed /\ ~Probing /\ ~Probing'
        BY <2>1, <3>1, <3>3, <3>4
        DEF PointAgrees, Probing, StateClosed, StateHalfOpen
      <4> QED
        BY <3>1, <3>2, <4>1
        DEF Modes!Next, Modes!Succeed, Due, Probing, IsOpening, StateClosed
    <3>5. CASE pc[r] = "closeReset"
      <4>1. state = StateHalfOpen /\ r \in Deciding
        BY <2>1, <3>3, <3>5 DEF PointAgrees, Deciding
      <4>2. r \in Deciding'
        BY <2>6, <3>3, <3>5 DEF ResetFailures, Goto, Deciding, TypeOK
      <4>3. Probing /\ Probing'
        BY <3>1, <4>1, <4>2 DEF Probing
      <4> QED
        BY <3>1, <3>2, <4>1, <4>3
        DEF Modes!Next, Modes!Succeed, Due, Probing, IsOpening, StateHalfOpen
    <3> QED  BY <2>6, <3>4, <3>5 DEF ResetFailures, Goto
  <2>7. ASSUME NEW r \in Requests, ReleaseProbe(r) PROVE Goal
    <3>1. UNCHANGED <<state, consecutiveFailures, outageAge>>
      BY <2>7 DEF ReleaseProbe
    <3>2. Tripping' = Tripping /\ Opening' = Opening
      BY <2>7 DEF ReleaseProbe, Goto, Tripping, Opening, TypeOK
    <3>3. r \in fresh
      BY <2>1, <2>7 DEF ReleaseProbe, AfterWrite
    <3>4. r \in Deciding /\ r \in Deciding' /\ state = StateHalfOpen
      BY <2>1, <2>7, <3>3 DEF ReleaseProbe, Goto, Deciding, PointAgrees, TypeOK
    <3>5. Probing /\ Probing'
      BY <3>1, <3>4 DEF Probing
    <3> QED  BY <3>1, <3>2, <3>5 DEF Due, IsOpening, Probing
  <2>8. ASSUME NEW r \in Requests, AddFailure(r) PROVE Goal
    <3>1. /\ UNCHANGED <<state, probeInFlight, outageAge>>
          /\ consecutiveFailures' = consecutiveFailures + 1
      BY <2>8 DEF AddFailure
    <3>2. r \in fresh /\ state = StateClosed
      BY <2>1, <2>8 DEF AddFailure, AfterWrite, Goto, PointAgrees
    <3>3. Opening' = Opening /\ ~Probing /\ ~Probing'
      BY <2>8, <3>1, <3>2 DEF AddFailure, Goto, Opening, Probing, StateClosed,
                              StateHalfOpen, TypeOK
    <3>4. Tripping' = IF consecutiveFailures' >= FailureThreshold
                        THEN Tripping \cup {r} ELSE Tripping
      BY <2>8, <3>1, <3>2, BreakerAssumption
      DEF AddFailure, Goto, Tripping, TypeOK
    <3>5. Due' = (Due \/ consecutiveFailures' >= FailureThreshold)
      BY <3>4 DEF Due
    <3> QED
      BY <3>1, <3>2, <3>3, <3>5
      DEF Modes!Next, Modes!Fail, Due, Probing, IsOpening, StateClosed
  <2>9. ASSUME NEW r \in Requests, StampNow(r) PROVE Goal
    <3>1. UNCHANGED <<state, consecutiveFailures, probeInFlight, fresh>>
      BY <2>9 DEF StampNow, shared
    <3>2. Tripping' = Tripping /\ Deciding' = Deciding
      BY <2>9 DEF StampNow, Goto, Tripping, Deciding, TypeOK
    <3>3. CASE r \notin fresh \/ Opening # {}
      <4>1. outageAge' = outageAge
        BY <2>9, <3>3 DEF StampNow
      <4>2. Opening' = Opening \/ (Opening # {} /\ Opening' = Opening \cup {r})
        BY <2>9, <3>3 DEF StampNow, Goto, Opening, TypeOK
      <4>3. IsOpening' = IsOpening
        BY <4>2 DEF IsOpening
      <4> QED  BY <3>1, <3>2, <4>1, <4>3 DEF Due, Probing
    <3>4. CASE r \in fresh /\ Opening = {}
      <4>1. outageAge' = 0 /\ r \in Opening'
        BY <2>9, <3>4 DEF StampNow, Goto, Opening, TypeOK
      <4>2. \/ r \in Tripping
            \/ state = StateHalfOpen /\ r \in Deciding
        BY <2>1, <2>9, <3>4 DEF StampNow, Goto, Tripping, Deciding, PointAgrees
      <4>3. Due \/ (state = StateHalfOpen /\ Probing)
        BY <4>2 DEF Due, Probing
      <4>4. Due' = Due /\ Probing' = Probing /\ ~IsOpening /\ IsOpening'
        BY <3>1, <3>2, <3>4, <4>1 DEF Due, Probing, IsOpening
      <4> QED
        BY <3>1, <4>1, <4>3, <4>4
        DEF Modes!Next, Modes!Note, Due, Probing, IsOpening, StateHalfOpen
    <3> QED  BY <3>3, <3>4
  <2>10. ASSUME NEW r \in Requests, StoreOpenedAt(r) PROVE Goal
    <3>1. UNCHANGED <<state, consecutiveFailures, probeInFlight, outageAge>>
      BY <2>10 DEF StoreOpenedAt
    <3>2. Tripping' = Tripping /\ Opening' = Opening /\ Deciding' = Deciding
      BY <2>10 DEF StoreOpenedAt, Goto, Tripping, Opening, Deciding, TypeOK
    <3> QED  BY <3>1, <3>2, Invisible
  <2>11. ASSUME NEW r \in Requests, Trip(r) \/ Reopen(r) PROVE Goal
    <3>1. UNCHANGED <<consecutiveFailures, probeInFlight, outageAge>>
      BY <2>11 DEF Trip, Reopen
    <3>2. CASE state' = state /\ fresh' = fresh /\ pc' = [pc EXCEPT ![r] = "idle"]
      <4>1. r \notin fresh
        BY <2>1, <2>11, <3>2
        DEF Trip, Reopen, TransitionTo, Goto, PointAgrees, TypeOK, Points,
            State, StateClosed, StateOpen, StateHalfOpen
      <4>2. Tripping' = Tripping /\ Opening' = Opening /\ Deciding' = Deciding
        BY <3>2, <4>1 DEF Tripping, Opening, Deciding, TypeOK
      <4> QED  BY <3>1, <3>2, <4>2, Invisible
    <3>3. CASE /\ state # StateOpen /\ state' = StateOpen /\ fresh' = {r}
               /\ pc' = [pc EXCEPT ![r] = "setGauge"] /\ r \in fresh
      <4>1. Tripping' = {} /\ Opening' = {} /\ Deciding' = {}
        BY <3>3, NobodyLeft
      <4>2. IsOpening
        BY <2>11, <3>3
        DEF Trip, Reopen, TransitionTo, Goto, Opening, IsOpening
      <4>3. ~Due' /\ ~IsOpening' /\ ~Probing'
        BY <3>3, <4>1 DEF Due, IsOpening, Probing, StateOpen, StateHalfOpen
      <4> QED
        BY <3>1, <3>3, <4>2, <4>3
        DEF Modes!Next, Modes!Open, Due, Probing, IsOpening, StateOpen
    <3> QED
      BY <2>1, <2>11, <3>2, <3>3
      DEF Trip, Reopen, TransitionTo, Goto, AfterWrite, StateClosed, StateOpen,
          StateHalfOpen
  <2>12. ASSUME NEW r \in Requests, ToHalfOpen(r) PROVE Goal
    <3>1. UNCHANGED <<consecutiveFailures, probeInFlight, outageAge>>
      BY <2>12 DEF ToHalfOpen
    <3>2. CASE state # StateOpen
      <4>1. /\ UNCHANGED <<state, fresh>>
            /\ pc[r] = "toHalfOpen" /\ pc' = [pc EXCEPT ![r] = "claim"]
        BY <2>12, <3>2 DEF ToHalfOpen, TransitionTo, Goto
      <4>2. Tripping' = Tripping /\ Opening' = Opening /\ Deciding' = Deciding
        BY <4>1 DEF Tripping, Opening, Deciding, TypeOK
      <4> QED  BY <3>1, <4>1, <4>2, Invisible
    <3>3. CASE state = StateOpen
      <4>1. /\ state' = StateHalfOpen /\ fresh' = {r} /\ r \in fresh
            /\ pc[r] = "toHalfOpen" /\ pc' = [pc EXCEPT ![r] = "setGauge"]
        BY <2>1, <2>12, <3>3
        DEF ToHalfOpen, TransitionTo, Goto, AfterWrite, StateOpen
      <4>2. Tripping' = {} /\ Opening' = {} /\ Deciding' = {}
        BY <4>1, NobodyLeft
      <4>3. Tripping = {} /\ Opening = {} /\ ~probeInFlight
        BY <2>1, <3>3 DEF Tripping, Opening, PointAgrees, StateClosed,
                          StateOpen, StateHalfOpen
      <4>4. outageAge = Recovery
        <5>1. openedAge = Recovery /\ openedAge <= outageAge
          BY <2>1, <3>3, <4>1 DEF WordsAgree
        <5> QED  BY <5>1, BreakerAssumption DEF TypeOK
      <4>5. /\ ~Due /\ ~Due' /\ ~IsOpening /\ ~IsOpening'
            /\ ~Probing /\ ~Probing'
        BY <3>1, <3>3, <4>2, <4>3
        DEF Due, IsOpening, Probing, StateOpen, StateHalfOpen
      <4> QED
        BY <3>1, <3>3, <4>1, <4>4, <4>5
        DEF Modes!Next, Modes!TryAgain, Due, Probing, IsOpening, StateOpen,
            StateHalfOpen
    <3> QED  BY <3>2, <3>3
  <2>13. ASSUME NEW r \in Requests, Close(r) PROVE Goal
    <3>1. UNCHANGED <<consecutiveFailures, probeInFlight, outageAge>>
      BY <2>13 DEF Close
    <3>2. CASE state # StateHalfOpen
      <4>1. /\ UNCHANGED <<state, fresh>>
            /\ pc[r] = "close" /\ pc' = [pc EXCEPT ![r] = "idle"]
        BY <2>13, <3>2 DEF Close, TransitionTo, Goto
      <4>2. r \notin fresh
        BY <2>1, <3>2, <4>1 DEF PointAgrees
      <4>3. Tripping' = Tripping /\ Opening' = Opening /\ Deciding' = Deciding
        BY <4>1, <4>2 DEF Tripping, Opening, Deciding, TypeOK
      <4> QED  BY <3>1, <4>1, <4>3, Invisible
    <3>3. CASE state = StateHalfOpen
      <4>1. /\ state' = StateClosed /\ fresh' = {r} /\ r \in fresh
            /\ pc[r] = "close" /\ pc' = [pc EXCEPT ![r] = "setGauge"]
        BY <2>1, <2>13, <3>3
        DEF Close, TransitionTo, Goto, AfterWrite, StateClosed, StateHalfOpen
      <4>2. Tripping' = {} /\ Opening' = {} /\ Deciding' = {}
        BY <4>1, NobodyLeft
      <4>3. Tripping = {} /\ r \in Deciding /\ consecutiveFailures = 0
        BY <2>1, <3>3, <4>1 DEF Tripping, Deciding, PointAgrees, WordsAgree,
                                StateClosed, StateHalfOpen
      <4>4. /\ ~Due /\ ~Due' /\ ~IsOpening' /\ Probing /\ ~Probing'
        BY <3>3, <4>1, <4>2, <4>3
        DEF Due, IsOpening, Probing, StateClosed, StateHalfOpen
      <4> QED
        BY <3>1, <3>3, <4>1, <4>3, <4>4
        DEF Modes!Next, Modes!Recover, Due, Probing, IsOpening, StateClosed,
            StateHalfOpen
    <3> QED  BY <3>2, <3>3
  <2>14. CASE Tick
    <3>1. /\ UNCHANGED <<state, consecutiveFailures, probeInFlight>>
          /\ Tripping' = Tripping /\ Opening' = Opening /\ Deciding' = Deciding
      BY <2>14 DEF Tick, Tripping, Opening, Deciding
    <3>2. \/ outageAge < Recovery /\ outageAge' = outageAge + 1
          \/ outageAge' = outageAge
      BY <2>14 DEF Tick, Older
    <3>3. Due' = Due /\ Probing' = Probing /\ IsOpening' = IsOpening
      BY <3>1 DEF Due, Probing, IsOpening
    <3> QED
      BY <3>1, <3>2, <3>3
      DEF Modes!Next, Modes!Elapse, Due, Probing, IsOpening
  <2> HIDE DEF Goal
  <2> QED
    BY <2>2, <2>3, <2>4, <2>5, <2>6, <2>7, <2>8, <2>9, <2>10, <2>11,
       <2>12, <2>13, <2>14 DEF Next, Step, Answer
<1> QED
  BY <1>1, <1>2, Typing, Consistency, PTL DEF Spec, ImplementsModes

----------------------------------------------------------------------------
(* The wedge *)

\* However calls overlap and whatever the constants are, a probe that panics
\* leaves a breaker that refuses every request from then on
\* (breaker.go:122-133; middleware/circuitbreaker.go:50).
THEOREM WedgesStay == Spec => WedgeIsForever
<1>1. TypeOK /\ [Next]_vars => [Wedged => Wedged']_vars
  <2> SUFFICES ASSUME TypeOK, Next, Wedged PROVE Wedged'
    BY DEF vars
  <2> USE DEF TypeOK, Wedged, Goto, shared
  <2>1. ASSUME NEW r \in Requests, Allow(r) PROVE Wedged'
    BY <2>1 DEF Allow, StateClosed, StateOpen, StateHalfOpen
  <2>2. ASSUME NEW r \in Requests, Answer(r) PROVE FALSE
    BY <2>2 DEF Answer, RecordSuccess, RecordFailure, Abort, InFlight
  <2>3. ASSUME NEW r \in Requests, LoadOpenedAt(r) PROVE Wedged'
    BY <2>3 DEF LoadOpenedAt
  <2>4. ASSUME NEW r \in Requests, Elapsed(r) PROVE Wedged'
    BY <2>4 DEF Elapsed
  <2>5. ASSUME NEW r \in Requests, ToHalfOpen(r) PROVE Wedged'
    BY <2>5 DEF ToHalfOpen, TransitionTo, StateOpen, StateHalfOpen
  <2>6. ASSUME NEW r \in Requests, ClaimProbe(r) PROVE Wedged'
    BY <2>6 DEF ClaimProbe
  <2>7. ASSUME NEW r \in Requests,
               \/ ResetFailures(r) \/ ReleaseProbe(r) \/ Close(r)
               \/ AddFailure(r) \/ StampNow(r) \/ StoreOpenedAt(r)
               \/ Trip(r) \/ Reopen(r) \/ SetGauge(r) \/ CountTransition(r)
        PROVE FALSE
    BY <2>7 DEF ResetFailures, ReleaseProbe, Close, AddFailure, StampNow,
                StoreOpenedAt, Trip, Reopen, SetGauge, CountTransition,
                TransitionTo
  <2>8. CASE Tick
    BY <2>8 DEF Tick
  <2> QED
    BY <2>1, <2>2, <2>3, <2>4, <2>5, <2>6, <2>7, <2>8 DEF Next, Step
<1> QED  BY <1>1, Typing, PTL DEF Spec, WedgeIsForever
=============================================================================
