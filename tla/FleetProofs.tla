----------------------------- MODULE FleetProofs -----------------------------
(***************************************************************************)
(* Proofs about Fleet, for any number of pods, replicas, templates and     *)
(* rollouts.                                                               *)
(***************************************************************************)
EXTENDS Fleet, FiniteSetTheorems, TLAPS

\* What a process has got through, by how far it is.
Configured ==
  \A p \in Pods :
    /\ phase[p] = "connecting" =>
         Load(Env[revision[p]]) /\ "rateLimit" \in Env[revision[p]].databases
    /\ phase[p] \in {"listening", "draining"} => Accepted(Env[revision[p]])

\* Without outages no probe fails, and only deaths cost a place in rotation.
Calm ==
  past = {} =>
    /\ redis
    /\ \A p \in Pods : probe[p] \in {"idle", "ok"}
    /\ Cardinality(ready) + deaths >= Replicas

\* Templates with an unusable value leave their mark.
Usable ==
  "unusable" \notin past =>
    ~Unusable(Env[current]) /\ \A p \in Pods : ~Unusable(Env[revision[p]])

IInv == TypeOK /\ Configured /\ Calm /\ Usable

----------------------------------------------------------------------------
(* The configuration *)

\* A process starts where nothing is missing, wrong or out of reach.
LEMMA AcceptedIsChecked ==
  ASSUME NEW env \in Environments, Accepted(env)
  PROVE  /\ env.JWT_SECRET = "set" /\ env.ADMIN_TOKEN = "set"
         /\ env.BACKEND_URL # "unparsable" /\ env.numbers # "text"
         /\ env.databases = {"rateLimit", "cache"}
  BY DEF Environments, Accepted, Load, New, getEnv, getEnvInt, BackendURL

\* It can work there unless a value is unusable.
LEMMA AcceptedIsSound ==
  ASSUME NEW env \in Environments, Accepted(env), ~Unusable(env)
  PROVE  Sound(env)
<1>1. env.BACKEND_URL \in {"", "valid"} /\ env.numbers \in {"", "decimal"}
  BY AcceptedIsChecked DEF Environments, Unusable
<1> QED
  BY <1>1, AcceptedIsChecked DEF Sound

\* And the other way round.
LEMMA SoundIsAccepted ==
  ASSUME NEW env \in Environments, Sound(env)
  PROVE  Accepted(env) /\ ~Unusable(env)
  BY DEF Sound, Accepted, Unusable, Load, New, getEnv, getEnvInt, BackendURL

----------------------------------------------------------------------------
(* Type correctness *)

LEMMA InitTypeOK == Init => TypeOK
  BY FleetAssumption DEF Init, TypeOK, Phases, Starting

\* A process that does not listen yet takes a step.
LEMMA MoveTypeOK ==
  ASSUME TypeOK, NEW p \in Pods, NEW to \in Phases, phase[p] # "listening",
         phase' = [phase EXCEPT ![p] = to],
         UNCHANGED <<redis, deployment, revision, probe, failures, ready, history>>
  PROVE  TypeOK'
<1>1. phase' \in [Pods -> Phases]
  BY DEF TypeOK
<1>2. ready' \subseteq {q \in Pods : phase'[q] = "listening"}
  BY DEF TypeOK
<1> QED
  BY <1>1, <1>2 DEF TypeOK, deployment, history

\* The steps of main, one by one.
LEMMA StartCases ==
  ASSUME NEW p \in Pods, Start(p)
  PROVE  /\ UNCHANGED <<redis, deployment, revision, probe, failures, ready, history>>
         /\ \/ /\ phase[p] = "loading"
               /\ phase' = [phase EXCEPT ![p] = "connecting"]
               /\ Load(Env[revision[p]])
               /\ "rateLimit" \in Env[revision[p]].databases
            \/ /\ phase[p] = "connecting"
               /\ phase' = [phase EXCEPT ![p] = "listening"]
               /\ New(Env[revision[p]])
               /\ "cache" \in Env[revision[p]].databases
            \/ /\ phase[p] \in {"loading", "connecting"}
               /\ phase' = [phase EXCEPT ![p] = "crashed"]
  BY DEF Start, Step, Goto, Ping

LEMMA NextTypeOK == TypeOK /\ [Next]_vars => TypeOK'
<1> SUFFICES ASSUME TypeOK, [Next]_vars PROVE TypeOK'
  OBVIOUS
<1>1. ASSUME NEW p \in Pods, Start(p) PROVE TypeOK'
  <2>1. /\ UNCHANGED <<redis, deployment, revision, probe, failures, ready, history>>
        /\ phase[p] # "listening"
        /\ \/ phase' = [phase EXCEPT ![p] = "connecting"]
           \/ phase' = [phase EXCEPT ![p] = "listening"]
           \/ phase' = [phase EXCEPT ![p] = "crashed"]
    BY <1>1, StartCases
  <2> QED
    BY <2>1, MoveTypeOK DEF Phases, Starting
<1>2. ASSUME NEW p \in Pods, Restart(p) PROVE TypeOK'
  <2>1. /\ UNCHANGED <<redis, deployment, revision, probe, failures, ready, history>>
        /\ phase[p] # "listening" /\ phase' = [phase EXCEPT ![p] = "loading"]
    BY <1>2 DEF Restart, Step, Goto
  <2> QED
    BY <2>1, MoveTypeOK DEF Phases, Starting
<1>3. ASSUME NEW p \in Pods, ReadinessRateLimit(p) PROVE TypeOK'
  BY <1>3 DEF ReadinessRateLimit, TypeOK, deployment, history
<1>4. ASSUME NEW p \in Pods, ReadinessCache(p) PROVE TypeOK'
  <2>1. failures' \in [Pods -> 0..FailureThreshold]
    BY <1>4, FleetAssumption DEF ReadinessCache, TypeOK
  <2>2. ready' \subseteq {q \in Pods : phase'[q] = "listening"}
    BY <1>4 DEF ReadinessCache, TypeOK
  <2> QED
    BY <1>4, <2>1, <2>2 DEF ReadinessCache, TypeOK, deployment, history
<1>5. ASSUME NEW p \in Pods, Stop(p) PROVE TypeOK'
  BY <1>5, FleetAssumption DEF Stop, Goto, Forgotten, TypeOK, Phases, deployment, history
<1>6. ASSUME NEW p \in Pods, ProbeLiveness(p) PROVE TypeOK'
  BY <1>6 DEF ProbeLiveness, Liveness, TypeOK, deployment, history
<1>7. ASSUME NEW p \in Pods, Die(p) PROVE TypeOK'
  BY <1>7, FleetAssumption DEF Die, Goto, TypeOK, Phases, deployment
<1>8. ASSUME NEW p \in Pods, ScaleUp(p) PROVE TypeOK'
  BY <1>8 DEF ScaleUp, Goto, TypeOK, Phases, Starting, deployment, history
<1>9. ASSUME NEW p \in Pods, ScaleDown(p) PROVE TypeOK'
  <2>1. phase' \in [Pods -> Phases]
    BY <1>9 DEF ScaleDown, TypeOK, Phases
  <2>2. ready' \subseteq {q \in Pods : phase'[q] = "listening"}
    BY <1>9 DEF ScaleDown, TypeOK
  <2>3. revision' \in [Pods -> Revisions]
    BY <1>9, FleetAssumption DEF ScaleDown, Forgotten, TypeOK
  <2> QED
    BY <1>9, <2>1, <2>2, <2>3, FleetAssumption DEF ScaleDown, TypeOK, deployment, history
<1>10. CASE Rollout
  BY <1>10, FleetAssumption DEF Rollout, TypeOK, pod
<1>11. CASE RedisFails
  BY <1>11 DEF RedisFails, TypeOK, pod, deployment
<1>12. CASE RedisRecovers
  BY <1>12 DEF RedisRecovers, TypeOK, pod, deployment, history
<1>13. CASE UNCHANGED vars
  BY <1>13 DEF vars, TypeOK
<1> QED
  BY <1>1, <1>2, <1>3, <1>4, <1>5, <1>6, <1>7, <1>8, <1>9, <1>10, <1>11, <1>12, <1>13
  DEF Next, Pod, Readiness, Controller

\* The variables keep their types.
THEOREM FleetTypeCorrect == Spec => []TypeOK
<1> QED
  BY InitTypeOK, NextTypeOK, PTL DEF Spec

----------------------------------------------------------------------------
(* The rollout *)

LEMMA InitIInv == Init => IInv
<1> SUFFICES ASSUME Init PROVE IInv
  OBVIOUS
<1>1. TypeOK
  BY InitTypeOK
<1>2. Accepted(Env[First]) /\ ~Unusable(Env[First])
  BY FleetAssumption, SoundIsAccepted
<1>3. Configured
  BY <1>2 DEF Init, Configured
<1>4. Calm
  BY FleetAssumption DEF Init, Calm
<1>5. Usable
  BY <1>2 DEF Init, Usable
<1> QED
  BY <1>1, <1>3, <1>4, <1>5 DEF IInv

LEMMA NextConfigured ==
  ASSUME TypeOK, Configured, [Next]_vars PROVE Configured'
<1>1. ASSUME NEW p \in Pods, Start(p) PROVE Configured'
  <2> SUFFICES ASSUME NEW q \in Pods
      PROVE  /\ phase'[q] = "connecting" =>
                  /\ Load(Env[revision[q]])
                  /\ "rateLimit" \in Env[revision[q]].databases
             /\ phase'[q] \in {"listening", "draining"} =>
                  Accepted(Env[revision[q]])
    BY <1>1, StartCases DEF Configured
  <2>1. CASE q = p
    <3>1. Env[revision[p]].databases \subseteq {"rateLimit", "cache"}
      BY FleetAssumption DEF TypeOK, Environments
    <3> QED
      BY <1>1, <2>1, <3>1, StartCases DEF Configured, Accepted, TypeOK
  <2>2. CASE q # p
    <3>1. phase'[q] = phase[q]
      BY <1>1, <2>2, StartCases DEF TypeOK
    <3> QED
      BY <3>1 DEF Configured
  <2> QED
    BY <2>1, <2>2
<1>2. ASSUME NEW p \in Pods, Restart(p) PROVE Configured'
  BY <1>2 DEF Restart, Step, Goto, Configured, TypeOK
<1>3. ASSUME NEW p \in Pods, Readiness(p) PROVE Configured'
  BY <1>3 DEF Readiness, ReadinessRateLimit, ReadinessCache, Configured
<1>4. ASSUME NEW p \in Pods, Stop(p) PROVE Configured'
  BY <1>4 DEF Stop, Goto, Forgotten, Configured, TypeOK
<1>5. ASSUME NEW p \in Pods, ProbeLiveness(p) PROVE Configured'
  BY <1>5 DEF ProbeLiveness, Liveness, Configured
<1>6. ASSUME NEW p \in Pods, Die(p) PROVE Configured'
  BY <1>6 DEF Die, Goto, Configured, TypeOK
<1>7. ASSUME NEW p \in Pods, ScaleUp(p) PROVE Configured'
  BY <1>7 DEF ScaleUp, Goto, Configured, TypeOK
<1>8. ASSUME NEW p \in Pods, ScaleDown(p) PROVE Configured'
  BY <1>8 DEF ScaleDown, Forgotten, Configured, TypeOK
<1>9. CASE Rollout \/ RedisFails \/ RedisRecovers \/ UNCHANGED vars
  BY <1>9 DEF Rollout, RedisFails, RedisRecovers, vars, pod, Configured
<1> QED
  BY <1>1, <1>2, <1>3, <1>4, <1>5, <1>6, <1>7, <1>8, <1>9
  DEF Next, Pod, Controller

\* A pod that joins or leaves the rotation.
LEMMA OneMoreOrLess ==
  ASSUME TypeOK, NEW p \in Pods
  PROVE  /\ Cardinality(ready) \in Nat /\ Cardinality(ready \ {p}) \in Nat
         /\ Cardinality(ready \cup {p}) >= Cardinality(ready)
         /\ Cardinality(ready \cup {p}) \in Nat
         /\ Cardinality(ready \ {p}) =
              IF p \in ready THEN Cardinality(ready) - 1 ELSE Cardinality(ready)
<1>1. IsFiniteSet(ready)
  BY FS_Subset, FleetAssumption DEF TypeOK
<1>2. Cardinality(ready) \in Nat
  BY <1>1, FS_CardinalityType
<1>3. /\ IsFiniteSet(ready \cup {p})
      /\ Cardinality(ready \cup {p}) =
           IF p \in ready THEN Cardinality(ready) ELSE Cardinality(ready) + 1
  BY <1>1, FS_AddElement, Zenon
<1>4. Cardinality(ready \ {p}) =
        IF p \in ready THEN Cardinality(ready) - 1 ELSE Cardinality(ready)
  BY <1>1, FS_RemoveElement, Zenon
<1>5. Cardinality(ready \ {p}) \in Nat
  BY <1>1, FS_RemoveElement, FS_CardinalityType, Zenon
<1> QED
  BY <1>2, <1>3, <1>4, <1>5

LEMMA NextCalm ==
  ASSUME TypeOK, Calm, [Next]_vars PROVE Calm'
<1> SUFFICES ASSUME past' = {}
    PROVE  /\ redis'
           /\ \A p \in Pods : probe'[p] \in {"idle", "ok"}
           /\ Cardinality(ready') + deaths' >= Replicas
  BY DEF Calm
<1>1. past = {} /\ ~RedisFails
  BY DEF Next, vars, Pod, Start, Restart, Step, Readiness, ReadinessRateLimit,
         ReadinessCache, Stop, ProbeLiveness, Die, Controller, ScaleUp,
         ScaleDown, Rollout, RedisFails, RedisRecovers, history
<1>2. /\ redis
      /\ \A p \in Pods : probe[p] \in {"idle", "ok"}
      /\ Cardinality(ready) + deaths >= Replicas
      /\ deaths \in Nat /\ deaths <= Replicas
  BY <1>1, FleetAssumption DEF Calm, TypeOK
<1>3. ASSUME NEW p \in Pods, ReadinessRateLimit(p)
      PROVE  /\ redis'
             /\ \A q \in Pods : probe'[q] \in {"idle", "ok"}
             /\ ready' = ready /\ deaths' = deaths
  BY <1>2, <1>3 DEF ReadinessRateLimit, TypeOK, history
<1>4. ASSUME NEW p \in Pods, ReadinessCache(p)
      PROVE  /\ redis'
             /\ \A q \in Pods : probe'[q] \in {"idle", "ok"}
             /\ ready' = ready \cup {p} /\ deaths' = deaths
  BY <1>2, <1>4 DEF ReadinessCache, Verdict, TypeOK, history
<1>5. ASSUME NEW p \in Pods, ScaleDown(p)
      PROVE  /\ redis'
             /\ \A q \in Pods : probe'[q] \in {"idle", "ok"}
             /\ ready' = ready \ {p} /\ deaths' = deaths
             /\ p \in ready => Cardinality(ready) > Replicas
  BY <1>2, <1>5 DEF ScaleDown, TypeOK, history
<1>6. ASSUME NEW p \in Pods,
             Start(p) \/ Restart(p) \/ Stop(p) \/ ProbeLiveness(p) \/ ScaleUp(p)
      PROVE  UNCHANGED <<redis, probe, ready, deaths>>
  BY <1>6 DEF Start, Restart, Step, Stop, ProbeLiveness, Liveness, ScaleUp, history
<1>7. ASSUME Rollout \/ UNCHANGED vars
      PROVE  UNCHANGED <<redis, probe, ready, deaths>>
  BY <1>7 DEF Rollout, vars, pod
<1>8. ~RedisRecovers
  BY <1>2 DEF RedisRecovers
<1>9. ASSUME NEW p \in Pods, ready' = ready \ {p}, deaths' = deaths,
             p \in ready => Cardinality(ready) > Replicas
      PROVE  Cardinality(ready') + deaths' >= Replicas
  BY <1>2, <1>9, OneMoreOrLess, FleetAssumption
<1>10. ASSUME NEW p \in Pods, ready' = ready \cup {p}, deaths' = deaths
       PROVE  Cardinality(ready') + deaths' >= Replicas
  <2>1. /\ Cardinality(ready) \in Nat /\ Cardinality(ready \cup {p}) \in Nat
        /\ Cardinality(ready \cup {p}) >= Cardinality(ready)
    BY OneMoreOrLess
  <2>2. Replicas \in Nat
    BY FleetAssumption
  <2> QED
    BY <1>2, <1>10, <2>1, <2>2
<1>11. ASSUME NEW p \in Pods, Die(p)
       PROVE  /\ redis'
              /\ \A q \in Pods : probe'[q] \in {"idle", "ok"}
              /\ Cardinality(ready') + deaths' >= Replicas
  <2>1. redis' /\ \A q \in Pods : probe'[q] \in {"idle", "ok"}
    BY <1>2, <1>11 DEF Die, TypeOK
  <2>2. /\ ready' = ready \ {p}
        /\ deaths' = IF deaths < Replicas THEN deaths + 1 ELSE deaths
    BY <1>11 DEF Die
  <2>3. /\ Cardinality(ready) \in Nat /\ Cardinality(ready \ {p}) \in Nat
        /\ Cardinality(ready \ {p}) >= Cardinality(ready) - 1
    <3>1. /\ Cardinality(ready) \in Nat /\ Cardinality(ready \ {p}) \in Nat
          /\ Cardinality(ready \ {p}) =
               IF p \in ready THEN Cardinality(ready) - 1 ELSE Cardinality(ready)
      BY OneMoreOrLess, Zenon
    <3> QED
      BY <3>1
  <2>4. Replicas \in Nat
    BY FleetAssumption
  <2>5. Cardinality(ready \ {p}) + deaths' >= Replicas
    <3>1. CASE deaths < Replicas
      BY <1>2, <2>2, <2>3, <2>4, <3>1
    <3>2. CASE ~(deaths < Replicas)
      BY <1>2, <2>2, <2>3, <2>4, <3>2
    <3> QED
      BY <3>1, <3>2
  <2> QED
    BY <2>1, <2>2, <2>5
<1> QED
  BY <1>1, <1>2, <1>3, <1>4, <1>5, <1>6, <1>7, <1>8, <1>9, <1>10, <1>11
  DEF Next, Pod, Readiness, Controller

LEMMA NextUsable ==
  ASSUME TypeOK, Usable, [Next]_vars PROVE Usable'
<1>1. ASSUME NEW p \in Pods, Start(p) \/ Restart(p) \/ Readiness(p)
                              \/ ProbeLiveness(p) \/ Die(p)
      PROVE  UNCHANGED <<current, revision, past>>
  BY <1>1 DEF Start, Restart, Step, Readiness, ReadinessRateLimit, ReadinessCache,
              ProbeLiveness, Die, deployment, history
<1>2. CASE RedisRecovers \/ UNCHANGED vars
  BY <1>2 DEF RedisRecovers, vars, pod, deployment, history, Usable
<1>3. CASE RedisFails
  BY <1>3 DEF RedisFails, pod, deployment, Usable
<1>4. CASE Rollout
  BY <1>4 DEF Rollout, pod, Usable
<1>5. ~Unusable(Env[First])
  BY FleetAssumption, SoundIsAccepted
<1>6. ASSUME NEW p \in Pods, Stop(p) \/ ScaleUp(p) \/ ScaleDown(p) PROVE Usable'
  <2>1. /\ UNCHANGED <<current, past>>
        /\ \/ revision' = revision
           \/ revision' = [revision EXCEPT ![p] = First]
           \/ revision' = [revision EXCEPT ![p] = current]
    BY <1>6 DEF Stop, ScaleUp, ScaleDown, Forgotten, deployment, history
  <2> QED
    BY <1>5, <2>1 DEF Usable, TypeOK
<1> QED
  BY <1>1, <1>2, <1>3, <1>4, <1>6 DEF Next, Pod, Controller, Usable

LEMMA NextIInv == IInv /\ [Next]_vars => IInv'
  BY NextTypeOK, NextConfigured, NextCalm, NextUsable DEF IInv

THEOREM Inductive == Spec => []IInv
<1> QED
  BY InitIInv, NextIInv, PTL DEF Spec

LEMMA KnownEnvironments ==
  ASSUME TypeOK PROVE \A p \in Pods : Env[revision[p]] \in Environments
  BY FleetAssumption DEF TypeOK

\* No process listens without a secret, with a URL that does not parse, a number
\* that is none or a database out of reach, whatever the templates hold.
THEOREM CheckedConfigurations == Spec => []NoneMisconfigured
<1>1. IInv => NoneMisconfigured
  BY AcceptedIsChecked, KnownEnvironments DEF IInv, Configured, NoneMisconfigured
<1> QED
  BY <1>1, Inductive, PTL

\* A rollout keeps all of the replicas that have not died in rotation, and able
\* to work, however many there are and whatever it rolls out, as long as no value
\* of it is unusable.
THEOREM RolloutsKeepCapacity == Spec => []RolloutKeepsCapacity
<1>1. IInv => RolloutKeepsCapacity
  <2> SUFFICES ASSUME IInv, past = {}
      PROVE Cardinality(Serving) + deaths >= Replicas
    BY DEF RolloutKeepsCapacity
  <2>1. \A p \in ready : phase[p] = "listening" /\ Sound(Env[revision[p]])
    BY AcceptedIsSound, KnownEnvironments DEF IInv, Configured, Usable, TypeOK
  <2>2. Serving = ready
    BY <2>1 DEF Serving
  <2> QED
    BY <2>2 DEF IInv, Calm
<1> QED
  BY <1>1, Inductive, PTL

----------------------------------------------------------------------------
(* Outages *)

\* A process that listens ends by its shutdown or of something that no outage
\* of Redis brings about.
THEOREM OutagesEndNoProcess == Spec => OutageEndsNoProcess
<1>1. TypeOK /\ [Next]_vars =>
        [\A p \in Pods :
           phase[p] = "listening" /\ phase'[p] = "crashed" => Die(p)]_vars
  <2> SUFFICES ASSUME TypeOK, [Next]_vars, NEW q \in Pods,
                      phase[q] = "listening", phase'[q] = "crashed"
      PROVE  Die(q)
    OBVIOUS
  <2>1. ASSUME NEW p \in Pods, Start(p) \/ Restart(p) \/ Stop(p) \/ ScaleUp(p)
        PROVE  FALSE
    BY <2>1 DEF Start, Restart, Step, Stop, ScaleUp, Goto, TypeOK
  <2>2. ASSUME NEW p \in Pods, ScaleDown(p) PROVE FALSE
    BY <2>2 DEF ScaleDown, TypeOK
  <2>3. ASSUME NEW p \in Pods, Readiness(p) \/ ProbeLiveness(p) PROVE FALSE
    BY <2>3 DEF Readiness, ReadinessRateLimit, ReadinessCache, ProbeLiveness,
                Liveness
  <2>4. ASSUME NEW p \in Pods, Die(p) PROVE p = q
    BY <2>4 DEF Die, Goto, TypeOK
  <2>5. ASSUME Rollout \/ RedisFails \/ RedisRecovers \/ UNCHANGED vars
        PROVE  FALSE
    BY <2>5 DEF Rollout, RedisFails, RedisRecovers, vars, pod
  <2> QED
    BY <2>1, <2>2, <2>3, <2>4, <2>5 DEF Next, Pod, Controller
<1> QED
  BY <1>1, FleetTypeCorrect, PTL DEF Spec, OutageEndsNoProcess
=============================================================================
