-------------------------------- MODULE Fleet --------------------------------
(***************************************************************************)
(* The gateway's pods: how a process starts or refuses to (cmd/main.go,    *)
(* internal/config/config.go, internal/database/redis.go), what its probes *)
(* answer (internal/handlers/health.go), and the rolling update of         *)
(* deployments/k8s/api-gateway/deployment.yaml around it, with outages of  *)
(* the one Redis all pods share.                                           *)
(*                                                                         *)
(* Kubernetes is modelled from that manifest: the kubelet restarts a       *)
(* container that has ended and calls the probes, the deployment           *)
(* controller adds and removes pods.  Which pods a Service routes to       *)
(* follows their readiness with a delay that is left out.                  *)
(***************************************************************************)
EXTENDS Naturals, FiniteSets

CONSTANTS
  Pods,             \* names of pods; a name is used again after its pod is gone
  Replicas,         \* spec.replicas
  FailureThreshold, \* readinessProbe.failureThreshold
  Revisions,        \* pod templates the deployment may be given
  First,            \* the one that runs at first
  Env,              \* the environment each gives the process
  MaxRollouts       \* bound on the updates of the deployment

VARIABLES
  redis,    \* does Redis answer a ping?
  current,  \* the template the deployment has now
  rollouts, \* updates so far
  revision, \* the template of each pod, First where there is none
  phase,    \* how far the process of each pod is
  probe,    \* what a readiness probe under way has found so far
  failures, \* consecutive readiness probes that failed
  ready,    \* pods in rotation
  deaths,   \* history: processes that died while listening, counted up to Replicas
  past      \* history: outages, and rollouts of templates with an unusable value

pod == <<revision, phase, probe, failures, ready>>
deployment == <<current, rollouts>>
history == <<deaths, past>>
vars == <<redis, current, rollouts, revision, phase, probe, failures, ready,
          deaths, past>>

----------------------------------------------------------------------------
(* The configuration *)

\* A URL that is "unusable" parses and leads nowhere, for want of a scheme or a
\* host ("mock-backend:8081"): each request is answered with 502.  Numbers that
\* are "unusable" parse and make no sense, as a negative window.
Environments ==
  [JWT_SECRET: {"", "set"}, ADMIN_TOKEN: {"", "set"},
   BACKEND_URL: {"", "valid", "unusable", "unparsable"},
   numbers: {"", "decimal", "unusable", "text"},
   databases: SUBSET {"rateLimit", "cache"}] \* those Redis has under the settings

getEnv(value, fallback) == IF value # "" THEN value ELSE fallback

\* strconv.Atoi of any of the integer settings, unless it is absent.
getEnvInt(value) == getEnv(value, "decimal") # "text"

BackendURL(env) == getEnv(env.BACKEND_URL, "valid")

\* Mutant: the administrator's token may be missing.
LoadWithoutAdmin(env) ==
  getEnv(env.JWT_SECRET, "") # "" /\ BackendURL(env) # "" /\ getEnvInt(env.numbers)

\* Does Load return a configuration?  BACKEND_URL has a fallback, so the check
\* that it is set never fails.
Load(env) ==
  /\ getEnv(env.JWT_SECRET, "") # ""
  /\ getEnv(env.ADMIN_TOKEN, "") # ""
  /\ BackendURL(env) # ""
  /\ getEnvInt(env.numbers)

\* Mutant: the URL is looked at when the first request comes.
NewLazily(env) == TRUE

\* Does proxy.New return a handler?  url.Parse asks for neither scheme nor host.
New(env) == BackendURL(env) # "unparsable"

\* An environment the gateway can work with.
Sound(env) ==
  /\ env.JWT_SECRET = "set" /\ env.ADMIN_TOKEN = "set"
  /\ env.BACKEND_URL \in {"", "valid"}
  /\ env.numbers \in {"", "decimal"}
  /\ env.databases = {"rateLimit", "cache"}

\* One with a value that parses and with which nothing works: nobody checks.
Unusable(env) == "unusable" \in {env.BACKEND_URL, env.numbers}

\* One in which the process starts.
Accepted(env) == Load(env) /\ env.databases = {"rateLimit", "cache"} /\ New(env)

ASSUME FleetAssumption ==
  /\ IsFiniteSet(Pods)
  /\ Replicas \in Nat /\ Replicas < Cardinality(Pods)
  /\ FailureThreshold \in Nat \ {0}
  /\ First \in Revisions
  /\ Env \in [Revisions -> Environments]
  /\ Sound(Env[First])
  /\ MaxRollouts \in Nat

----------------------------------------------------------------------------
(* The process of a pod *)

Starting == {"loading", "connecting"}
Phases == {"none", "crashed", "listening", "draining"} \cup Starting

Goto(p, from, to) ==
  /\ phase[p] = from
  /\ phase' = [phase EXCEPT ![p] = to]

\* One step of main: on to the next one, or Fatal.
Step(p, from, succeeds, to) ==
  /\ Goto(p, from, IF succeeds THEN to ELSE "crashed")
  /\ UNCHANGED <<redis, deployment, revision, probe, failures, ready, history>>

\* A connection selects its database before the ping.
Ping(p, database) == redis /\ database \in Env[revision[p]].databases

\* Load and the ping of the rate limiter's database; then the ping of the
\* cache's and the proxy, before the server listens.
Start(p) ==
  \/ Step(p, "loading", Load(Env[revision[p]]) /\ Ping(p, "rateLimit"), "connecting")
  \/ Step(p, "connecting", Ping(p, "cache") /\ New(Env[revision[p]]), "listening")

\* The kubelet starts the container again.
Restart(p) == Step(p, "crashed", TRUE, "loading")

\* The listener breaks, or the process is killed for the memory it uses.
Die(p) ==
  /\ Goto(p, "listening", "crashed")
  /\ probe' = [probe EXCEPT ![p] = "idle"]
  /\ failures' = [failures EXCEPT ![p] = 0]
  /\ ready' = ready \ {p}
  /\ deaths' = IF deaths < Replicas THEN deaths + 1 ELSE deaths
  /\ UNCHANGED <<redis, deployment, revision, past>>

----------------------------------------------------------------------------
(* The probes *)

\* Readiness, its first ping.
ReadinessRateLimit(p) ==
  /\ phase[p] = "listening" /\ probe[p] = "idle"
  /\ probe' = [probe EXCEPT ![p] = IF redis THEN "ok" ELSE "unreachable"]
  /\ UNCHANGED <<redis, deployment, revision, phase, failures, ready, history>>

\* Mutant: the status is "ok" whatever the pings say.
VerdictOfProcess(p) == "ok"

\* Mutant: the status outlives the probe it was found in.
VerdictKept(p) == IF redis /\ failures[p] = 0 THEN probe[p] ELSE "unreachable"

\* The second ping does not take back what the first has found.
Verdict(p) == IF redis THEN probe[p] ELSE "unreachable"

\* The second ping, the answer, and what the kubelet makes of it.
ReadinessCache(p) ==
  /\ phase[p] = "listening" /\ probe[p] # "idle"
  /\ probe' = [probe EXCEPT ![p] = "idle"]
  /\ \/ /\ Verdict(p) = "ok"
        /\ failures' = [failures EXCEPT ![p] = 0]
        /\ ready' = ready \cup {p}
     \/ /\ Verdict(p) # "ok"
        /\ failures' = [failures EXCEPT ![p] = IF @ < FailureThreshold THEN @ + 1 ELSE @]
        /\ ready' = IF failures'[p] = FailureThreshold THEN ready \ {p} ELSE ready
  /\ UNCHANGED <<redis, deployment, revision, phase, history>>

\* Mutant: liveness pings Redis, as readiness does.
LivenessOfRedis(p) == redis

\* Liveness asks for nothing: a process that answers is alive.
Liveness(p) == TRUE

\* A liveness probe; the kubelet ends a container that does not pass it.
ProbeLiveness(p) ==
  /\ phase[p] = "listening"
  /\ IF Liveness(p)
       THEN UNCHANGED <<phase, probe, failures, ready>>
       ELSE /\ phase' = [phase EXCEPT ![p] = "crashed"]
            /\ probe' = [probe EXCEPT ![p] = "idle"]
            /\ failures' = [failures EXCEPT ![p] = 0]
            /\ ready' = ready \ {p}
  /\ UNCHANGED <<redis, deployment, revision, history>>

----------------------------------------------------------------------------
(* The deployment: maxSurge 1, maxUnavailable 0 *)

Running == {p \in Pods : phase[p] \notin {"none", "draining"}}
Updated == {p \in Running : revision[p] = current}

Rollout ==
  /\ rollouts < MaxRollouts
  /\ rollouts' = rollouts + 1
  /\ \E r \in Revisions \ {current} :
       /\ current' = r
       /\ past' = IF Unusable(Env[r])
                    THEN past \cup {"unusable"} ELSE past
  /\ UNCHANGED <<redis, pod, deaths>>

ScaleUp(p) ==
  /\ Cardinality(Running) < Replicas + 1
  /\ Cardinality(Updated) < Replicas
  /\ Goto(p, "none", "loading")
  /\ revision' = [revision EXCEPT ![p] = current]
  /\ UNCHANGED <<redis, deployment, probe, failures, ready, history>>

\* A name without a pod has the template First.
Forgotten(p) == [revision EXCEPT ![p] = First]

\* Mutant: a pod stays in rotation while its process shuts down.
ScaleDownInRotation(p) ==
  /\ p \in Running \ Updated
  /\ Cardinality(Running) > Replicas + Cardinality(Updated \ ready)
  /\ p \in ready => Cardinality(ready) > Replicas
  /\ phase' = [phase EXCEPT ![p] = IF @ = "listening" THEN "draining" ELSE "none"]
  /\ probe' = [probe EXCEPT ![p] = "idle"]
  /\ failures' = [failures EXCEPT ![p] = 0]
  /\ revision' = IF phase[p] = "listening" THEN revision ELSE Forgotten(p)
  /\ UNCHANGED <<redis, deployment, ready, history>>

\* A pod of an old template is deleted if the updated ones that are not ready
\* leave room for that: one that is not ready itself, or one that is not
\* needed.  A process that listens gets its SIGTERM and drains; any other has
\* no handler for it yet.
ScaleDown(p) ==
  /\ p \in Running \ Updated
  /\ Cardinality(Running) > Replicas + Cardinality(Updated \ ready)
  /\ p \in ready => Cardinality(ready) > Replicas
  /\ phase' = [phase EXCEPT ![p] = IF @ = "listening" THEN "draining" ELSE "none"]
  /\ probe' = [probe EXCEPT ![p] = "idle"]
  /\ failures' = [failures EXCEPT ![p] = 0]
  /\ ready' = ready \ {p}
  /\ revision' = IF phase[p] = "listening" THEN revision ELSE Forgotten(p)
  /\ UNCHANGED <<redis, deployment, history>>

\* Server.Start returns, or the kubelet kills the container (Gateway).
Stop(p) ==
  /\ Goto(p, "draining", "none")
  /\ revision' = Forgotten(p)
  /\ UNCHANGED <<redis, deployment, probe, failures, ready, history>>

----------------------------------------------------------------------------
RedisFails ==
  /\ redis
  /\ redis' = FALSE
  /\ past' = past \cup {"outage"}
  /\ UNCHANGED <<deployment, pod, deaths>>

RedisRecovers ==
  /\ ~redis
  /\ redis' = TRUE
  /\ UNCHANGED <<deployment, pod, history>>

\* The pods of the first template run and are ready.
Init ==
  /\ redis = TRUE
  /\ current = First
  /\ rollouts = 0
  /\ revision = [p \in Pods |-> First]
  /\ ready \in SUBSET Pods /\ Cardinality(ready) = Replicas
  /\ phase = [p \in Pods |-> IF p \in ready THEN "listening" ELSE "none"]
  /\ probe = [p \in Pods |-> "idle"]
  /\ failures = [p \in Pods |-> 0]
  /\ deaths = 0
  /\ past = {}

Readiness(p) == ReadinessRateLimit(p) \/ ReadinessCache(p)

\* What a pod and its kubelet do of themselves.
Pod(p) == Start(p) \/ Restart(p) \/ Readiness(p) \/ Stop(p)

Controller == \E p \in Pods : ScaleUp(p) \/ ScaleDown(p)

Next ==
  \/ \E p \in Pods : Pod(p) \/ ProbeLiveness(p) \/ Die(p)
  \/ Controller \/ Rollout \/ RedisFails \/ RedisRecovers

Spec == Init /\ [][Next]_vars

(* Processes are scheduled, every shutdown ends (Gateway, ShutdownEnds),   *)
(* the kubelet probes and restarts, the controller reconciles.  Redis need *)
(* not come back, nor stay.                                                *)
Fairness == (\A p \in Pods : WF_vars(Pod(p))) /\ WF_vars(Controller)

FairSpec == Spec /\ Fairness

----------------------------------------------------------------------------
(* Properties *)

\* Values the variables may hold.
TypeOK ==
  /\ redis \in BOOLEAN
  /\ current \in Revisions
  /\ rollouts \in 0..MaxRollouts
  /\ revision \in [Pods -> Revisions]
  /\ phase \in [Pods -> Phases]
  /\ probe \in [Pods -> {"idle", "ok", "unreachable"}]
  /\ failures \in [Pods -> 0..FailureThreshold]
  /\ ready \subseteq {p \in Pods : phase[p] = "listening"}
  /\ deaths \in 0..Replicas
  /\ past \subseteq {"outage", "unusable"}

Serving == {p \in ready : phase[p] = "listening" /\ Sound(Env[revision[p]])}

\* A rollout costs no capacity, also when it is rolled back half way, when a
\* template cannot start and when processes die in the middle: there are as many
\* pods in rotation that can do their work as the deployment asks for, less one
\* for each death (main.go:21-27, deployment.yaml:14-18).  Left out are outages
\* of Redis and templates with an unusable value: nothing checks a process beyond
\* its start and the pings, and a rollout of such a template does replace pods
\* that work by pods that answer 502.
RolloutKeepsCapacity ==
  past = {} => Cardinality(Serving) + deaths >= Replicas

\* No process listens without a secret, with a URL that does not parse, with a
\* number that is none or on a database Redis does not have, whatever is rolled
\* out and restarted (main.go:22-23, :34-35, :74-83; config.go:74-151).  That its
\* URL has a scheme and a host nothing checks, against main.go:75-76.
NoneMisconfigured ==
  \A p \in Pods : phase[p] \in {"listening", "draining"} =>
    LET env == Env[revision[p]] IN
      /\ "" \notin {env.JWT_SECRET, env.ADMIN_TOKEN}
      /\ env.BACKEND_URL # "unparsable" /\ env.numbers # "text"
      /\ {"rateLimit", "cache"} \subseteq env.databases

\* An outage of Redis ends no process: each one runs to its shutdown unless it
\* dies of something else, so the pods are there when Redis is back
\* (health.go:37-39).
OutageEndsNoProcess ==
  [][\A p \in Pods :
       phase[p] = "listening" /\ phase'[p] = "crashed" => Die(p)]_vars

\* While Redis stays away no pod stays in rotation (health.go:49-51).
OutageEmptiesRotation == <>[]~redis => <>[](ready = {})

\* Once Redis stays up, processes stop dying and the template is left alone and
\* is one that starts, the rotation fills up with pods of that template and
\* nothing else (health.go:49-51, deployment.yaml:167-168).
RotationRefills ==
  /\ <>[]redis
  /\ <>[][\A p \in Pods : ~Die(p)]_vars
  /\ <>[]Accepted(Env[current])
  => <>[](Cardinality(ready) = Replicas /\ ready = Updated)
=============================================================================
