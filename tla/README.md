# Verification of the API gateway

TLA+ models of `api-gateway`: the layers that decide, under concurrency and
failure, whether a request gets through (authentication, rate limiter, IP
blocklist, circuit breaker), the process that chains them, and the pods it is
deployed in. Each is checked with TLC on small instances, and its main safety
properties are proved with TLAPS for every value of the constants.

Paths are relative to `src/api-gateway/internal/` unless they start with `src/`.

## 1. The system

A Go gateway (several replicas) in front of one backend, with one Redis that the
replicas share. A request under `/api/v1` goes through the chain that
`server/server.go` builds:

    Recovery > RequestID > Observability > IPBlocklist > Authenticate > RateLimit > CircuitBreaker > Proxy

Admin, health and metrics routes go through the first three only.

| component | state | operations | correct when |
|---|---|---|---|
| circuit breaker, `circuitbreaker/breaker.go`, `middleware/circuitbreaker.go` | four atomic words per process (state, failures, openedAt, probe flag), gauge, transition counters | Allow, RecordSuccess, RecordFailure, transitionTo, RetryAfter | opens at the threshold, not tried before the recovery time, one probe at a time, always decided again, metrics agree with the state |
| rate limiter, `ratelimiter/limiter.go`, `ratelimiter/rate_limit.lua`, `middleware/ratelimit.go` | a sorted set per user in Redis DB 0, with an expiry | Evaluate, the script, throttle delay, fail-open | at most the limit in the window, nobody rejected or delayed without cause, nobody held by a dead Redis |
| IP blocklist, `ipblocklist/blocklist.go`, `repository/cache_repo.go`, `middleware/ipblocklist.go`, `handlers/admin.go` | a set and one expiring sentinel per address in Redis DB 0 | IsIPBlocked with lazy clean-up, BlockIP, UnblockIP, ListBlockedIPs | an acknowledged ban holds until it expires or is lifted, a lifted one rejects nobody, expired ones are forgotten |
| reverse proxy, `proxy/reverseproxy.go` | connection pool | forward, rewrite headers, turn transport errors into 502 | every outcome reaches the breaker |
| panic recovery, `middleware/recovery.go` | none | recover, 500 | a panic leaves nothing inconsistent |
| authentication, `auth/`, `middleware/auth.go` | none (key set at start) | validate, classify, put the user into the context | only valid tokens pass; error, code and label agree |
| observability, `middleware/observability.go`, `metrics/prometheus.go` | counters, histograms, gauge of active requests | count and log each request | each request counted once, with its own tier and status |
| server, `server/server.go`, `src/api-gateway/cmd/main.go` | listener, 15 s of grace | start, signal, shutdown | nothing accepted is dropped |
| health, `handlers/health.go` | none | liveness, readiness (pings both databases of Redis) | an outage takes pods out of rotation and ends none of them |
| deployment, `src/deployments/k8s/api-gateway/` | pods | rolling update, restart, probes | a rollout costs no capacity |
| configuration, `config/config.go`, `database/redis.go` | read once at start | Load, the pings, proxy.New | a process that cannot do its work does not listen |
| logging, request ids, tiers | constants, or passed along | | |
| mock backend, `src/mock_backend/` | a random source | answers, slow answers, 500s | a test double |

What is hard here: the breaker is lock-free, so goroutines act on loads that are
out of date; a stamp or a look-up made in a gateway is used in Redis later, after
others'; the client library resends scripts, loses answers, and executes what the
gateway has given up on; Redis pipelines interleave with other connections and
can stop half way; proxied requests may panic, fail long after the state of the
breaker has changed, or not end at all; a probe straddles an outage, a rollout is
replaced by another before it is over. The repository has no tests of any of it
(`src/load-tests/main.js` drives load only). `PROJECT.json` lists each hazard at
its line with the properties about it.

## 2. The modules

| module | contents |
|---|---|
| `Breaker` | the breaker, one action per atomic access, and its middleware |
| `BreakerModes` | what a breaker promises its callers: the abstract specification |
| `BreakerProofs` | theorems about `Breaker`, and that it implements `BreakerModes` |
| `RateLimiter` | `Evaluate`, the script, the delivery of commands, the middleware |
| `RateLimiterProofs` | theorems about `RateLimiter` |
| `Blocklist` | look-up and clean-up, admin calls, the Redis commands of both |
| `BlocklistProofs` | theorems about `Blocklist` |
| `Auth` | what an Authorization header is worth: pure operators |
| `AuthProofs` | theorems about `Auth` |
| `Gateway` | one process: the chain of handlers, panics, what is counted, shutdown |
| `Service` | what a process promises its clients: the abstract specification |
| `GatewayProofs` | theorems about `Gateway`, and that it implements `Service` |
| `Fleet` | the pods: start, probes, rolling update, outages of Redis |
| `FleetProofs` | theorems about `Fleet` |
| `MCBreaker`, `MCRateLimiter`, `MCBlocklist`, `MCGateway`, `MCFleet` | instances for TLC |

`Gateway` composes the layers. It extends `Auth` and decides by it; why the other
layers decide as they do it leaves open, since `Breaker`, `RateLimiter` and
`Blocklist` are about that, and they leave open what surrounds them. They meet at
few points: a request `Gateway` calls `told[r] = "admitted"` is at the backend in
`Breaker`; `Unwind` from there is its `Abort`; a code of 500 and above is its
`"fail"`; `"throttled"` is where `RateLimiter` ends and the delay of `Gateway`
begins. `Fleet` sees a process from outside: its `"listening"` is `Gateway`'s
`"serving"`, its `"draining"` the same as there, and its `Stop` is taken in the
end because of `Gateway`'s `ShutdownEnds`.

`PROJECT.json` maps each definition to the lines it translates. Operators
commented as *Mutant* are deliberate faults, one per checked property, that show
which bug of the code the property would catch; no specification uses them.

### Breaker

`state`, `consecutiveFailures`, `openedAge` and `probeInFlight` are the four
words. `pc[r]` names the next access of the goroutine serving `r`, so `Allow` is
`Allow`, `LoadOpenedAt`, `Elapsed`, `ToHalfOpen`, `ClaimProbe`; `RecordSuccess`
is `RecordSuccess`, `ResetFailures`, `ReleaseProbe`, `Close`; `RecordFailure` is
`RecordFailure`, `AddFailure` or `ReleaseProbe`, `StampNow`, `StoreOpenedAt`,
`Trip` or `Reopen`. `TransitionTo` is the compare-and-swap; its winner then does
`SetGauge` and `CountTransition`. Nothing in `breaker.go` keeps two calls apart,
and nothing in the model does: every access interleaves with every other. A
request waits at the backend at `"backend"`, or at `"probe"` when it got in
through `ClaimProbe`; the code does not keep the difference, and no guard looks
at it. `Abort` is a panic: the Record calls of `middleware/circuitbreaker.go:50`
are not deferred.

Times are ages that stop growing at `Recovery`, since the code only compares an
age with the recovery duration; this keeps the state space finite without a bound
on the clock. The wall clock of the code, cut to milliseconds, can also be set
back; the model's cannot. The threshold is any integer: `Load` accepts every one and
nothing checks it, and 0 or less opens the breaker at the first failure. A backend that answers 499 or below is `"ok"`, 500 and
above `"fail"`. The `ErrorHandler` of the proxy writes 502 for any transport
error, so a client that goes away counts as a failure of the backend.

Several promises of the breaker do not survive every interleaving. Three history
variables, which no guard reads, say when one has been broken and by what, so that
the properties are about all schedules and name their exceptions. A call is
`fresh` if it has loaded or set the state since that last changed; any other goes
by a state that is over. `stray` holds what has gone astray and has not been put
right: `"lateWrite"`, a call that is not fresh wrote one of the words;
`"lateReport"`, such a call set the gauge; `"lateClaim"`, the flag was claimed in a
breaker that is not half open, or between the release of the flag and the
transition of the call that decides; `"lostProbe"`, a probe panicked. `outageAge`
is the age of the first clock reading among the calls that opened the breaker.

`BreakerModes` is what a breaker promises its callers: the failure that reaches the
threshold opens it and no earlier one does, a success forgets the failures before
it, the outage starts when the first of the failing calls reads the clock, nothing
is tried before the recovery duration is over, and a half-open breaker lets a probe
out and is decided only after that. It has no program points and no requests; that
several calls may be under way shows in `due` and `opening`.

### RateLimiter

One user, hence one key: users share nothing. `Evaluate` takes the stamp and
sends a command; `RunScript` is one atomic execution of `rate_limit.lua` (`Kept`
trims, `Reject` or `Record` decide); `Answered` brings the decision to the
request only if it still waits for that attempt. `Resend`, `LoseCommand` and
`FailOpen` are the client library and the network: a reply that is lost is one
that `Forget` drops, because the call goes on without it. Nothing bounds the time
between a stamp and the execution of the last command that carries it: the dial,
read and write timeouts of the client (`database/redis.go:65-67`) bound how long a
gateway waits. `MaxAttempts` bounds how often a script is sent. `Decide` is the
middleware. `Live` is key expiry and `Evict` the `allkeys-lru` policy of
`src/docker-compose.yml:28`. `Skew` is how far a gateway's clock is ahead.

`admitted` and `latest` are history; an eviction starts `admitted` again, since
nothing can be held against a Redis that was told to forget. So are `merged`, the
executions that drew the suffix of a member of their millisecond, and `expired`,
those that went with a key whose life was over: the two ways in which the set can
come to hold less than was admitted. A request is served once, so the instances
end, and runs of this module do not check for deadlock.

### Blocklist

One address. `inSet` is membership in `blocklist:ips`, `left` the remaining life
of its sentinel. A look-up is `IsMember`, then `CheckExpiry`; a member without a
sentinel is let through and a goroutine for `CleanUp` is started. The goroutines
are alike, so `cleaning` counts them; `MaxCleanUps` bounds how many there are, and
a look-up that would start one more waits. A ttl may be zero or negative, since `admin.go:68` does
not look at its sign; then `BlockIP` sets no sentinel. An admin call
queues the commands of its pipeline, `Execute` runs them one by one between the
commands of others, and the call ends in `Acknowledge` (200), `GiveUp` (500, the
commands may still run) or `Break` (500, half a pipeline).

`database/redis.go:59-68` leaves the retries of the client at their default, so a
pipeline and the background `SREM` are sent again when no answer comes (`Resend`,
`ResendCleanUp`; how often is left open). `Abandon` is what the earlier attempt
leaves: nothing, or commands Redis has yet to execute, which take a slot of
`Admins` of their own that nobody is `waiting` for. Such an attempt runs, or is lost
(`Break`), at any time, also after its call has been answered with 200.
`ListBlockedIPs` only reads.

`promise` is history: what the last answer lets the admins believe. It is
`"none"` where a call overlapped one of the other kind, or an abandoned attempt of
one, because then either may win; `"doubtful"` when a background `SREM` ran during
the call or is still to come. `lasting` is history too: whether the member was last
added without a ttl. The address is its own key: normalisation is not modelled.

### Auth

A header is described by what the checks ask of it, one field for each question
(does it parse, which family of methods, does the signature fit, `exp`, `nbf`,
`iat`, the three claims of the gateway). golang-jwt returns errors that wrap
others: `Parse` returns the set of sentinels `errors.Is` finds, and `mapError`
asks it in the order of the code. `Validate` is the function of that name,
`classifyAuthError` and `writeAuthError` are the two places that turn its error
into a label and into the code of the answer. The library's stages are modelled
from how `jwt.go` uses them and marked external.

### Gateway

`pc[r]` names the handler a request is in. A handler either answers itself
(`Fail`, after which control returns through the outer handlers: `Record` if the
breaker admitted the request, then `Return`, which is the second half of
`Observability`) or calls the next (`Pass`). `status[r]` is the first code that
reached net/http, the one the client gets; `seen[r]` is the last one written, which
the recorders keep (`recovery.go:24-27`). The three recorders around the proxy see
the same writes and are one variable, because only the proxy writes below the
inner ones, and it writes once. `Proxy` ends when the header of an answer is
there, or in 502; `Stream` copies the body, and panics with `http.ErrAbortHandler`
when it breaks off. `Unwind` runs the deferred `Dec` and nothing else, `Recover`
writes past the recorders.

`Authenticate` chooses a header and does what `Auth` makes of it: `HeaderRefused`,
`TokenRefused`, `ClaimsPanic` for a valid token without `iat`, or `Authenticated`,
which puts the token into `user[r]`, the context of the request that goes on.
`reason[r]` is the code in the answer of a refusal and `authFailures` the counter.
`GetUserContext` depends on who asks: `r.WithContext` makes a new request, and the
layers above `Authenticate` keep the one without a user. `RateLimit` leaves out
its branch for a request without a user: `GenuinePass` shows that none arrives.

`phase` is the process. `Signal` begins `http.Server.Shutdown`, which ends when no
request is under way (`Drained`) or at its deadline. After the first, `main`
returns: its deferred call closes the Redis clients (`Close`), under whatever
request would still run, and then the process ends (`Exit`). At the deadline
`Shutdown` returns an error, `Start` passes it on (`server.go:171-173`) and
`main.go:98-100` calls `l.Fatal`, which is an `os.Exit` and runs no deferred call
(`GraceOver`; `ListenFails` is another): the requests that outlast the grace period
end with the process and never see a closed client. Connections that were
made before the signal can still bring a request, so `Accept` is possible while draining.
The background `SREM` of the blocklist is no request: it may find the clients
closed at exit, and ignores the error.

`Service` is what is left of this to a client: a request is new, here, forwarded,
over or lost, and has an answer or none. `Where` maps the places of the chain to
those; what the breaker was told tells a forwarded request from one that is still
on its way in. In `Service` a forwarded request cannot have been answered before,
an answer does not change, and only `Crash` loses requests.

### Fleet

`phase[p]` is how far `main` is in a pod: `"loading"` (`Load` and the first ping),
`"connecting"` (the second ping and `proxy.New`), `"listening"`, `"draining"`.
Every step may end in `"crashed"` (`Fatal`), from where the kubelet restarts the
container. `Load` and `New` are evaluated on the environment of the pod's
template; the settings that are numbers are one field, because `Load` treats them
alike. An environment may hold values the code takes and cannot use: `Load` and
`New` ask of a number that it is one and of a URL that `url.Parse` accepts it, so
`mock-backend:8081` or a negative window is `"unusable"`. `databases` are those of
the two configured ones that Redis has; a ping of another fails (`Ping`). `Sound`,
`Unusable` and `Accepted` are what a template is worth: one the gateway works with,
one with such a value, one that starts.

The bodies of the probes are those of `handlers/health.go`: `Liveness` asks
for nothing, readiness pings twice, in two steps (`ReadinessRateLimit`,
`ReadinessCache`), so that Redis may go or come between them. What the kubelet
makes of the answers (`failures`, `ready`), the restart and the controller
(`ScaleUp`, `ScaleDown` with `maxSurge: 1` and `maxUnavailable: 0`) are external
and modelled from the manifest. `Rollout` changes the template at any time, also
in the middle of another rollout. `Die` ends a process that listens. History are
`deaths`, their number (no more than `Replicas` are counted), and `past`: whether
there has been an outage, or a rollout of a template with an unusable value.

## 3. What the runs show

| run | instance | shows |
|---|---|---|
| `BreakerTwo` | 2 requests, threshold 2, recovery 2, panics, every access interleaved, under fairness, 132 000 states | types; each transition is made and counted once (`TransitionsAccountForState`); the probe flag has an owner (`ProbeOwned`); closed means below the threshold; an open breaker is tried again (`OpenIsLeft`); a half-open one is left (`HalfOpenIsLeft`); a healthy backend closes it for good; a lost probe is for good (`WedgeIsForever`) |
| `BreakerThree` | 3 requests, threshold 2, recovery 1, every access interleaved, 1.6 million states | the inductive invariant `Consistent`; the gauge shows the state; the recovery window is honoured; `BreakerModes` is implemented |
| `RateLimiter` | 3 requests, two tiers (limits 1 and 2), two clocks a tick apart, window 3, key life 5, one script sent up to twice, equal suffixes, eviction, commands as late as the clock allows, 2.7 million states | the window is bounded (`WindowBounded`, `StampsBounded`), a key goes early only under a late script (`KeyOutlivesWindow`), rejections are justified (`NoFalseReject`), scripts that run in stamp order decide as one counter would (`DecisionsAreExact`) |
| `Blocklist` | 2 look-ups, 2 slots for admin calls and abandoned attempts, ttl 0 or 1, up to 2 clean-ups at once, 509 000 states | `BanHolds`, `UnblockHolds`; the list shows what was promised (`ListTellsPromises`); an expired ban leaves it (`ExpiredBanIsForgotten`) |
| `Gateway` | 2 requests, headers with one thing wrong each, backend answers 200, 499 and 500, grace 2, 113 000 states | gauge, totals and breaker agree with what clients were sent; only genuine tokens pass, and refusals are counted under the code that was told; no request runs while the Redis clients are closed; a clean exit drops nothing; the process ends; no layer holds a request; `Service` is implemented |
| `Fleet` | 3 pods for 1 replica, threshold 2, two templates that work, two that cannot start and one whose URL leads nowhere, 2 rollouts, 195 000 states | a rollout costs no capacity; nothing the start checks and refuses listens; an outage ends no process and empties the rotation; the rotation fills up again |
| `BreakerTwoProbes` | 2 requests | *violated:* a request admitted before the outage fails while the probe is out, takes its flag down, and a second probe follows |
| `BreakerAbortWedge` | 1 request | *violated:* a probe that panics leaves the flag up: the breaker rejects until restart |
| `RateLimiterCollision` | 3 requests in a millisecond | *violated:* two draw one suffix, are one member, and more than the limit gets in |
| `BlocklistInstant` | ttl 1 | *violated:* a clean-up decided earlier, or between `SADD` and `SET`, removes an acknowledged ban |
| `BlocklistPermanent` | ttl 0 | *violated:* a permanent ban has no sentinel, so the first look-up lets the request through and has the ban removed |
| `GatewayTierLabel` | 1 request | *violated:* a request with a valid token is counted as `unauthenticated`: the label is looked up in the request without the user, against `middleware/observability.go:37-40` |

**Bounds.** Thresholds, windows and recovery times are the least with which every
case differs from its neighbours: a threshold of 2 has a count below, at and beyond
it, and a failure that a success takes back; a recovery of 2 has an instant that is
neither the start nor the end. Two requests are the least for a race, and each of
the exceptions named below already occurs with two; three have a late answer, a
probe and a new request coexist inside the methods. A slot serves one request after
another, so that the number of requests in a behaviour is not bounded, and no
counter of the breaker has a bound of the model's.
A window of 3 ticks has stamps inside, at the edge and outside of it, and a key
life of 5 a margin of 2, of which a clock difference of 1 takes a part and not all;
six ticks are enough for a script to come later than that. Three requests with a
limit of 2 are the least with which a window can overflow, and a second attempt of
one of them the least with which a request is counted twice. Two look-ups and two
slots for attempts have every pair of attempts overlap, an abandoned one and
the next call among them; all further ones repeat those pairs; two clean-ups at
once are the least with which one can be left over when another has run. Requests meet in `Gateway` only in the
counters and in the shutdown, for which two are enough: one that ends and one that
is dropped. 499 and 500 are the codes on either side of what the breaker takes for
a failure, and a grace of 2 has a tick in which requests end. Each header of
`MCGateway` has one thing wrong that leads to another branch (one has two, to see
that the signature is looked at before the expiry); `AuthProofs` covers all
tokens. Three names for one replica have room for the pod that surges and for one
that drains; with two rollouts the second may begin in the middle of the first
and lead back; a readiness threshold of 2 (3 in the manifest) has a count between
0 and itself. The theorems below lift the bounds for the
safety properties.

**Fairness.** *Breaker:* goroutines inside a method are scheduled, time passes,
the backend answers and traffic continues, all weakly and for each goroutine by
itself. The transport has no `ResponseHeaderTimeout`
(`proxy/reverseproxy.go:169-183`), so that the backend answers is an assumption
on the backend: one that never does keeps a probe out and the breaker half open,
as the panic does. Continuing traffic is needed because the breaker moves only
when called. *RateLimiter:* none, its properties are safety; that the delay ends is
`Gateway`'s. *Blocklist:* the
address keeps sending requests and Redis does not fail every time; without either
the lazy clean-up never happens. *Gateway:* handlers are scheduled, the throttle
timer and the deadline of the shutdown fire, and `main` goes on; the backend may
never answer, so that `ShutdownEnds` rests on the deadline and `LayersLetGo` ends
at the proxy. The process stops in the end, so this run does not check for
deadlock. *Fleet:* processes are scheduled, a shutdown ends, the kubelet probes
and restarts, the controller reconciles; Redis need not come back, nor stay.

**What overlapping calls break.** `TransitionsAccountForState`, `OpenIsLeft` and
`WedgeIsForever` hold of the breaker without exception. Each of the others names
what can break it, in terms of `stray`. None of these exceptions is for
convenience: without it TLC violates the property with two requests.

- `GaugeShowsState`: the `Set`s of two transitions in the other order leave the
  gauge wrong until the next one (21 states to it). Exception: the last to set it
  had been overtaken (`"lateReport"`).
- `ProbeOwned`, and with it `HalfOpenIsLeft` and `EventuallyRecovers`: besides a
  panic of the probe (`"lostProbe"`), a claim succeeds between another goroutine's
  `ReleaseProbe` and its transition, and the flag survives into a state whose Record
  methods never take it down (26 states). Exception: `"lateClaim"`. Until either
  happens, a half-open breaker is left and its flag has an owner, also when the
  answer of an earlier request takes the flag down from under the probe.
- `OpenHonoursRecoveryWindow`: `openedAt` is stored before the compare-and-swap,
  and also by goroutines that lose it, so that an older reading overwrites the newer
  and the recovery is cut short (30 states). Exception: a call stored it, or tries
  the breaker, by a state that is over (`"lateWrite"`).
- `ClosedBelowThreshold`: a success resets the count some accesses before it closes
  the breaker, and what is counted in between stays. It may be the failure of a call
  that loaded "closed" long ago, whose own transition to open then fails: the breaker
  is closed at its threshold until the next failure or success (54 states).
  Exception: `"lateWrite"` since the breaker was last tried.
- `ImplementsModes`: as long as there is neither `"lateWrite"` nor `"lateClaim"`.

So a breaker is right in the midst of overlapping calls, late answers and races
for a transition as long as those that write have seen its present state, and the
hazards listed at `breaker.go:121`, `:163`, `:174`, `:168` and `:222` are real ones:
nothing in the code prevents what the exceptions name. What the properties add is
that nothing else goes wrong. A plausible bug, such as a reset that forgives one
failure or a flag taken down too early, is not among the exceptions and violates
them (see the mutants).

**The rate limiter.** Nothing is assumed of delays, clocks, suffixes or the life of
the key. `WindowBounded` counts what was admitted since the last eviction, but for
two kinds of executions the set has lost: those that were `merged`, and those that
went with an `expired` key. After an eviction the script lets another limit through, as it
must. The other two are limits of the code, and two properties say how far they reach.
`StampsBounded`: only requests of one millisecond can be merged, so that the window
still holds admitted requests of at most as many milliseconds as the limit.
`KeyOutlivesWindow`: the key outlives the window by the margin of
`rate_limit.lua:53`, so that it takes an execution of the window along only under a
script that runs later after its stamp than that margin (one second), less the
difference of the clocks. Nothing keeps a script below that: the dial, read and
write timeouts of the client add up to more, it sends a command again, and an
abandoned command may run later still. `RateLimiterCollision` shows the bound
without these exceptions (`LimitKept`) violated.

`WindowBounded` also bounds only the window of the newest stamp Redis has seen. The
window of an older stamp can have held more than the limit: scripts do not run in
stamp order, and trimming for a newer stamp removes what an older one would have
counted. For the same reason `DecisionsAreExact` speaks of scripts that run in stamp
order, and it compares with a counter of what the set holds.

**The blocklist.** An abandoned attempt of an acknowledged unblock can run after
the next acknowledged ban and lift it, and the other way round; nothing in the code
prevents it. Where only calls somebody still waits for are taken to contest a
promise, TLC violates `BanHolds` (9 states) and `UnblockHolds` (11 states). The
properties therefore promise nothing while an attempt of the other kind is left
over. They do promise that late attempts of the same kind, look-ups at any of their
points, and calls that failed and are gone leave an acknowledged ban or lift alone.
`BanHolds` leaves out the bans a clean-up has met, of which `BlocklistInstant`
shows that they may fail; `ExpiredBanIsForgotten` leaves out the bans without a ttl,
which are meant to stay and, as `BlocklistPermanent` shows, do not.

**What outages do.** `RolloutKeepsCapacity` is about what a rollout does of
itself: one outage of Redis takes every pod out of rotation at
once (`OutageEmptiesRotation`), which is what `health.go:49-51` asks for and
undoes the fail-open of limiter and blocklist for those outages that last longer
than the probes do. Deaths in the middle of a rollout are counted: each costs one
pod at most.

**What a start does not check.** The other exception of `RolloutKeepsCapacity` is
a template with an unusable value. `proxy.New` asks only `url.Parse`, and readiness
only Redis, so a rollout of `BACKEND_URL=mock-backend:8081` goes through and replaces
the pods that work by pods that answer every request with 502; without the exception
TLC shows it in 8 states. `NoneMisconfigured` lists what the start does check.

## 4. What is proved

Each theorem is stated for every number of requests, calls or pods, every schedule
and every value of the constants that satisfies the named assumption. Those only
give the constants their types (and `FleetAssumption` a first template that
works): none restricts schedules, delays, clocks, retries or what the backend does.

| theorem | says | assumes |
|---|---|---|
| `BreakerProofs!Typing`, `EveryTransitionCounted` | types; transitions account for the state | `BreakerAssumption` |
| `Consistency` | the inductive invariant `Consistent` | `BreakerAssumption` |
| `ProbeFlagIsOwned`, `ClosedIsBelowThreshold`, `GaugeIsRight`, `RecoveryWindowIsHonoured` | the properties of those words, each with the exception section 3 names | `BreakerAssumption` |
| `BreakerImplementsModes` | every step is a step or a stutter of `BreakerModes`, until a call writes or claims by a state that is over | `BreakerAssumption` |
| `WedgesStay` | a half-open breaker whose probe nobody will report refuses for ever | `BreakerAssumption` |
| `RateLimiterProofs!Typing`, `RejectsAreJustified` | a rejection has the limit of admitted executions behind it | `RateLimiterAssumption` |
| `SetIsBounded` | the set holds at most the largest limit | `RateLimiterAssumption` |
| `WindowIsBounded`, `StampsAreBounded` | the newest window holds at most the largest limit, but for merged and expired executions; of milliseconds, but for expired ones | `RateLimiterAssumption` |
| `KeyOutlives` | the key takes executions of the window along only under a script that is later than its margin | `RateLimiterAssumption` |
| `DecisionsExact` | a script in stamp order allows, delays and rejects as one counter of what the set holds would | `RateLimiterAssumption` |
| `BlocklistProofs!Typing`, `BansHold`, `UnblocksHold`, `ListsTellPromises` | acknowledged bans and lifts hold, and the list shows them, where no attempt of the other kind is left over | `BlocklistAssumption` |
| `BansWithoutTtlBlockNobody` | without a positive ttl the list blocks no request, whatever was acknowledged | and every ttl asked for is 0 or less |
| `AuthProofs!ValidateIsExact`, `ExpiredIsSigned` | exactly the genuine tokens pass; "expired" is told of signed tokens only | |
| `GatewayProofs!Typing`, `GaugeIsExact`, `TotalsAreBalanced`, `BreakerIsTold` | what is counted and told agrees with what was sent | `GatewayAssumption` |
| `UsersAreCountedAsNobody` | no request is ever counted under a tier, all users' are among the unauthenticated | `GatewayAssumption` |
| `OnlyGenuinePass`, `RefusalsAreCounted` | only genuine tokens get past authentication; each refusal is counted once, as it was told | `GatewayAssumption` |
| `RedisIsOpenWhileBusy`, `CleanExits` | no request runs with closed clients, at the deadline of a shutdown either; a clean exit drops none | `GatewayAssumption` |
| `GatewayServes` | every step is a step or a stutter of `Service` | `GatewayAssumption` |
| `FleetProofs!FleetTypeCorrect`, `CheckedConfigurations`, `RolloutsKeepCapacity`, `OutagesEndNoProcess` | nothing the start checks and refuses listens; a rollout costs no capacity but for deaths, outages and unusable values; outages end nothing | `FleetAssumption` |

*Transitions.* A compare-and-swap moves the state and puts an edge into the set
of those still to be reported; reporting takes it out and counts it. The sum of
both is unchanged by every other access, so the invariant is inductive with the
types (of which "an edge is held exactly while reporting" is a part).

*Overlapping calls.* None of the properties of the words is inductive alone. What
makes them so is to ask which calls know the present state: `Consistent` says of
the `fresh` ones that their program point fits the state (`PointAgrees`), and of
the words that they are what the fresh calls take them for, unless a call that is
not fresh has written them (`WordsAgree`, `FlagAgrees`, `GaugeAgrees`). A successful
compare-and-swap leaves its winner as the only fresh call, so whatever the others
still do is either a write that leaves its mark in `stray` or changes nothing. The
count of a closed breaker is below the threshold or a fresh call is about to trip
it; the stored time stamp is no older than `outageAge`, and so is each reading a
fresh call may still store; the flag is down once the deciding call has released
it. From this each property follows at the points it speaks of. The refinement maps `due` to a
fresh call about to trip, `probing` to a half-open breaker whose flag is up or
which a fresh call is about to decide, `opening` to fresh calls that have read
the clock, and `age` to `outageAge`. Most accesses are stutters (`Invisible`);
after a transition nobody trips, opens or decides any more (`NobodyLeft`).

*The wedge.* `Wedged` needs no invariant but the types: with the flag up every
`Allow` of a half-open breaker is refused, so nobody gets to where the flag is
taken down. `BreakerAbortWedge` shows that one panic leads there.

*The window.* `WindowBounded` speaks of executions, the script counts members.
`NoLostMember` compares the two: for every start not older than that of the
newest window, no more executions were admitted after it, merged and expired ones
apart, than members are in the set; the set itself holds at most the largest limit
(`SetBounded`). An execution that draws a member the set has joins `merged`, and one
that finds an expired key puts all before it into `expired`, so that the comparison
survives both. `NoLostStamp` is the same for stamps instead of executions; merging
loses none, and it gives `StampsAreBounded`. When executions may go with the key
is `KeyLife`: the key of one that has not gone lives for `Ttl` from its stamp, less
the clock difference, and no script runs before its stamp; a script that finds the
key expired is therefore late (`KeyOutlives`).
`NoInventedMember` is the converse comparison, for every start; it survives
collisions, eviction and expiry, and gives `RejectsAreJustified`.
Where a script runs in stamp order both comparisons hold
of its window, so that members and executions are as many (`KeptIsExact`), and the
script decides by the one as it would by the other: `DecisionsExact`.
All rest on `Bookkeeping`: no execution happens twice,
none before its request has its stamp, and all sets are finite.

*Promises.* `PromiseInv` adds to the types what each promise means for the state.
`Alone`: a call that overlapped no call and no abandoned attempt of the other kind
has the address to itself while it waits, and has had its effect by the time the
commands of its last attempt are executed. `Clear`: after `"clear"` there is no sentinel
and no attempt of a ban is left. `Banned`: after `"banned"` the address is a member with a
sentinel, no attempt of a lift is left, and no clean-up is pending or can be started,
because a clean-up starts only where the sentinel is missing. An abandoned attempt
keeps its slot until it has run or is lost, so that `UnderWay` sees it, and sending a
call again starts its commands from the first. Where no ttl is
positive there is never a sentinel at all, and a look-up rejects only where it
finds one: the finding of `BlocklistPermanent` is no matter of timing.

*Tokens.* `Validate` is unfolded into one case for each stage of the library
(`ValidateCases`), from which both theorems follow. The second is not obvious from
the code: `mapError` asks for "expired" whatever else is wrapped in the error, and
it is the library's order, signature before claims, that makes the answer true.

*The chain.* Neither counter is inductive alone: that `Return` counts the status
the client has needs that the last code written is the first one too. `Point` says
for each place in the chain what has been written and told by then: nothing before
the proxy, one code from then on, and at the return either that code or none (the
client of a throttled request has left; net/http then writes the 200 the recorder
starts with). The steps inside the chain are brought to five forms first
(`WithinForms`), so that each conjunct has five cases and not eighteen.
`LifeAgrees` says which phases leave requests running: a process whose clients are
closed was drained before, since the deadline leads to `Fatal` and not to `Close`. `Identity` says who has a
user at which place and that each refusal has one reason. The refinement needs all
of them: that `Proxy` answers a request nobody has answered, and that `Exit` finds
nobody under way. `UsersAreCountedAsNobody` lifts the finding of `GatewayTierLabel`:
`Return` is the only step that counts, and the context it asks never has a user.

*The rollout.* Neither readiness nor configuration is inductive alone: a pod stays
ready while its template is replaced. `Configured` says of each pod that a process
past `Load` has an environment `Load` accepts, and one that listens one that `New`
and the pings accept. `Calm` says that without outages Redis is up, no
probe under way has found it missing, and the pods that are ready and the deaths
make up `Replicas`: `ScaleDown` takes one away only if there is one more. `Usable`
says that an unusable value is in no template as long as `past` does not say so, so
that a ready pod is one that works.

Only model-checked: the liveness properties (`OpenIsLeft`, `HalfOpenIsLeft`,
`EventuallyRecovers`, `ExpiredBanIsForgotten`, `ShutdownEnds`, `LayersLetGo`,
`OutageEmptiesRotation`, `RotationRefills`), because fairness and `ENABLED` are
beyond the prover. No module with a theorem uses recursion.

## 5. Comments and code

Differences met while translating that no run is about:

- `rate_limit.lua:13` describes the third result as the count before this
  request; the script returns the count after it for admitted ones.
- `rate_limit.lua:22` says members with a score below the start of the window are
  removed; `ZREMRANGEBYSCORE` with an inclusive bound removes those at it too.
- `breaker.go:66-67` says any success resets the count; successes that end while
  the breaker is open do not.
- `breaker.go:54-56` mentions a mutex; there is none.
- `src/docker-compose.yml:28` gives one eviction policy to all databases, while
  `config/config.go:28` says the counters are never evicted.
- `ListBlockedIPs` returns expired bans until a look-up has removed them, while
  `ipblocklist/blocklist.go:70` speaks of currently banned addresses.
- `Recovery` logs no request id, for the reason `GatewayTierLabel` shows: it holds
  the request from before the id was put into its context.
- A panicked request is missing from `RequestsTotal` and from the log, against
  "every single request" (`observability.go:14`).
- `recovery.go:35` promises a clean 500. After a body that broke off the header is
  already out, and recovering from `http.ErrAbortHandler` keeps net/http from
  aborting the connection: the error body is appended to the answer.
- `Validate` requires `exp` and not `iat`, and `claims.go:36` dereferences both:
  a valid token without `iat` ends in a recovered panic, a 500.
- `server.go:137-138` says no requests are dropped. Those that need longer than
  the 15 seconds of grace are, by an exit with an error; the write timeout alone
  is 35 seconds.
- A throttled request whose client has left is counted as 200.
- A missing token is counted as `MISSING_TOKEN` (`middleware/auth.go:48`);
  `classifyAuthError` has a `TOKEN_MISSING` for it (`:148`) that is never reached,
  as is the branch of `middleware/ratelimit.go` for a request without a user.
- `jwt.go:27` and `:32` speak of HMAC-SHA256; `keyFunc` accepts HS384 and HS512 too.
- `main.go:22-23` calls a missing `BACKEND_URL` a deployment error; `config.go:70`
  has a fallback, so the check behind it never fails.
- `main.go:75-76` says that invalid backend URLs exit at start rather than fail on
  the first request. `proxy/reverseproxy.go:28` asks only `url.Parse`, which takes
  `mock-backend:8081` and `backend` as well: such a process listens, is ready, and
  answers every request with 502 (`Fleet`, `Unusable`; section 3, what a start does
  not check).
- `server.go:124` calls `/api/v1/slow` a trigger of the breaker. There is no time
  limit on the header of an answer, and a slow 200 is a success.
- `server.go:137-138` speaks of rolling deployments. The manifest has no `preStop`
  hook, so the listener is closed while endpoints are still being updated;
  `Fleet` leaves that lag out.
- `health.go:49-51` takes a pod without Redis out of rotation;
  `ipblocklist/blocklist.go:35-36` says an outage must not deny all traffic.
- `allkeys-lru` (`src/docker-compose.yml:28`,
  `src/deployments/k8s/redis/statefulset.yaml:31-36`) may evict bans as well.
- `ipblocklist/blocklist.go:98-99` promises a consistent format. `normaliseIP`
  strips a port and nothing else: a ban of `[::1]`, or of another spelling of the
  address a request comes from, matches no request.
- `X-Forwarded-For` is appended to by `mutateOutboundRequest`
  (`proxy/reverseproxy.go:94-98`) and once more by `httputil.ReverseProxy`.

## 6. Not modelled, and what could be next

The order of the work was: the breaker, whose words are the most intricate shared
state; the limiter and the blocklist; the process that chains them, with
authentication; the pods around it.

Not modelled, and why:

- Two runs of the limiter's or the blocklist's model inside `Gateway`. Their state
  is in Redis and `Gateway`'s in a process; the product is beyond TLC, and the
  points at which they meet are named in section 2.
- The cut of the threshold to 32 bits (`breaker.go:88`); what comes out of it may
  be any integer, and the theorems hold for each. The product of `ttl_seconds` with
  a second, which may overflow to another ttl (`admin.go:68`). Any range checks on
  settings: there are none.
- How often the client library sends a command again, and its backoff: the
  blocklist leaves the number open, the limiter bounds it by a constant the
  theorems hold for every value of.
- A wall clock that is set back (`breaker.go:114`): the model's clock only moves on.
- `RetryAfter` and `FormatRetryAfter`: they read two words and format a header.
- The bytes of an answer that broke off (`recovery.go:41`); the status is modelled.
- Address normalisation and `ExtractIP`: string functions, whose one consequence is
  named in section 5.
- The check of the admin token and of request bodies: no state depends on them but
  the call that follows, which is modelled.
- Eviction of bans: like that of counters, it forgets, and there is nothing to hold
  against it but that it is configured.
- The time between a pod's readiness and the routing of requests to it, and the
  autoscaler: the manifests give neither an order nor a bound.
- Header rewriting, request ids, latency histograms, logging, response formatting,
  the constants of the tiers: no behaviour depends on them.
- The cryptography of tokens, Redis connection set-up, and the unused `Get`, `Set`
  and `Delete` of the repository.
- The mock backend, the load and token scripts: test doubles and tools.

What could be added: a bound on how many probes overlap; how long a late write
can keep a breaker closed at its threshold; the lag of the routing in `Fleet`,
once the deployment has a hook that bounds it.
