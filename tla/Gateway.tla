------------------------------ MODULE Gateway ------------------------------
(***************************************************************************)
(* A gateway process: the chain of handlers each request runs through      *)
(* (internal/server/server.go, internal/middleware, internal/proxy), what  *)
(* a panic in it undoes and what it leaves (internal/middleware/           *)
(* recovery.go), what is counted (internal/middleware/observability.go)    *)
(* and how the process ends (Server.Start, cmd/main.go).                   *)
(*                                                                         *)
(* Authentication decides by the header (Auth).  What makes the other      *)
(* layers decide as they do is left open: Blocklist, RateLimiter and       *)
(* Breaker are about that, and here their verdicts are possible at any     *)
(* time.                                                                   *)
(***************************************************************************)
EXTENDS Auth, Integers, FiniteSets

CONSTANTS
  Requests, \* requests, each served once
  Headers,  \* Authorization headers requests may come with
  Answers,  \* status codes the backend may answer with
  Grace     \* shutdownGracePeriod, in ticks

ASSUME GatewayAssumption ==
  /\ IsFiniteSet(Requests)
  /\ Headers \subseteq Header
  /\ Answers \subseteq Nat \ {0}
  /\ Grace \in Nat

VARIABLES
  pc,            \* the handler each request is in
  status,        \* the status line net/http has taken for the client
  seen,          \* statusCode in the recorders around the request
  told,          \* what the breaker has been told of it
  internal,      \* requests for the probes, the metrics and the administrator
  user,          \* the user in the context from Authenticate on, by the token
  reason,        \* the code in the answer of Authenticate
  gone,          \* requests whose client has gone: their context is cancelled
  active,        \* gateway_active_connections
  requestsTotal, \* gateway_requests_total, by tier and status code
  authFailures,  \* gateway_auth_failures_total, by reason
  phase,         \* the process
  grace,         \* ticks left to the shutdown
  redisOpen      \* are the Redis clients open?

perRequest == <<status, seen, told>>
identity == <<internal, user, reason, authFailures>>
requests == <<perRequest, identity, gone, active, requestsTotal>>
process == <<phase, grace, redisOpen>>
vars == <<pc, requests, process>>

NoStatus == 0
Statuses == Answers \cup {200, 400, 401, 403, 404, 405, 429, 500, 502, 503}

NoUser == {}
NoReason == "none"
Labels == {"internal", "unauthenticated", "tier"} \* "tier": the user's

Waiting == {"proxy", "streaming"}
Layers == {"route", "blocklist", "authenticate", "ratelimit", "throttled",
           "breaker", "record", "return", "panicking"}
Counted == Layers \cup Waiting       \* between Inc and the deferred Dec
Busy == Counted \cup {"recovering"}
Ended == {"done", "recovered", "dropped"}

Init ==
  /\ pc = [r \in Requests |-> "idle"]
  /\ status = [r \in Requests |-> NoStatus]
  /\ seen = [r \in Requests |-> 200]
  /\ told = [r \in Requests |-> "nothing"]
  /\ internal = {}
  /\ user = [r \in Requests |-> NoUser]
  /\ reason = [r \in Requests |-> NoReason]
  /\ gone = {}
  /\ active = 0
  /\ requestsTotal = [label \in Labels |-> [code \in Statuses |-> 0]]
  /\ authFailures = [code \in Reasons |-> 0]
  /\ phase = "serving"
  /\ grace = Grace
  /\ redisOpen = TRUE

Alive == phase \in {"serving", "draining", "closing", "closed"}

Goto(r, from, to) ==
  /\ Alive
  /\ pc[r] = from
  /\ pc' = [pc EXCEPT ![r] = to]

\* net/http keeps the first status line; the recorders keep the last.
Sent(r, code) ==
  status' = [status EXCEPT ![r] = IF @ = NoStatus THEN code ELSE @]

WriteHeader(r, code) ==
  /\ Sent(r, code)
  /\ seen' = [seen EXCEPT ![r] = code]

\* The handler at "from" answers itself, and the next one never runs.
Fail(r, from, code) ==
  /\ Goto(r, from, "return")
  /\ WriteHeader(r, code)
  /\ UNCHANGED told

\* The handler at "from" calls the next one.
Pass(r, from, to) ==
  /\ Goto(r, from, to)
  /\ UNCHANGED perRequest

----------------------------------------------------------------------------
(* Recovery, RequestID and Observability, on the way in *)

\* Mutant: no Inc.
AcceptUncounted(r) ==
  /\ phase \in {"serving", "draining"}
  /\ Goto(r, "idle", "route")
  /\ UNCHANGED <<perRequest, identity, gone, active, requestsTotal, process>>

\* A connection made before the shutdown may still bring a request.
Accept(r) ==
  /\ phase \in {"serving", "draining"}
  /\ Goto(r, "idle", "route")
  /\ active' = active + 1
  /\ UNCHANGED <<perRequest, identity, gone, requestsTotal, process>>

----------------------------------------------------------------------------
(* The routes and the layers of the protected one *)

\* Health, metrics and the admin endpoints answer themselves, and the router
\* where none of them is asked for in the right way.
Internal(r) ==
  /\ \E code \in {200, 400, 401, 404, 405, 500, 503} : Fail(r, "route", code)
  /\ internal' = internal \cup {r}

NotFound(r) == Fail(r, "route", 404) /\ UNCHANGED internal

Protected(r) == Pass(r, "route", "blocklist") /\ UNCHANGED internal

Route(r) ==
  /\ Internal(r) \/ NotFound(r) \/ Protected(r)
  /\ UNCHANGED <<user, reason, authFailures>>

IPBlocklist(r) ==
  Fail(r, "blocklist", 403) \/ Pass(r, "blocklist", "authenticate")

Count(code) == authFailures' = [authFailures EXCEPT ![code] = @ + 1]
Tell(r, code) == reason' = [reason EXCEPT ![r] = code]

\* Whatever is wrong with the header, there is no token.
HeaderRefused(r, h) ==
  /\ Fail(r, "authenticate", 401)
  /\ extractBearerToken(h) # "nil"
  /\ Count("MISSING_TOKEN") /\ Tell(r, "MISSING_TOKEN")
  /\ UNCHANGED user

TokenRefused(r, h) ==
  /\ Fail(r, "authenticate", 401)
  /\ extractBearerToken(h) = "nil" /\ Validate(h.token) # "nil"
  /\ Count(classifyAuthError(Validate(h.token)))
  /\ Tell(r, writeAuthError(Validate(h.token)))
  /\ UNCHANGED user

\* The iat claim is not required: where it is missing, IssuedAt is nil and
\* ToUserContext dereferences it.
ClaimsPanic(r, h) ==
  /\ Pass(r, "authenticate", "panicking")
  /\ extractBearerToken(h) = "nil" /\ Validate(h.token) = "nil"
  /\ h.token.iat = "absent"
  /\ UNCHANGED <<user, reason, authFailures>>

Authenticated(r, h) ==
  /\ Pass(r, "authenticate", "ratelimit")
  /\ extractBearerToken(h) = "nil" /\ Validate(h.token) = "nil"
  /\ h.token.iat = "present"
  /\ user' = [user EXCEPT ![r] = {h.token}]
  /\ UNCHANGED <<reason, authFailures>>

Authenticate(r) ==
  /\ \E h \in Headers :
       \/ HeaderRefused(r, h) \/ TokenRefused(r, h)
       \/ ClaimsPanic(r, h) \/ Authenticated(r, h)
  /\ UNCHANGED internal

\* r.WithContext makes a new request: the layers above Authenticate keep the
\* one whose context has no user.
GetUserContext(r, layer) ==
  IF layer \in {"ratelimit", "throttled", "breaker"} \cup Waiting
    THEN user[r] ELSE NoUser

\* Mutant: no return after the 429.
RateLimitFallsThrough(r) ==
  \/ /\ Goto(r, "ratelimit", "breaker")
     /\ WriteHeader(r, 429)
     /\ UNCHANGED told
  \/ Pass(r, "ratelimit", "throttled") \/ Pass(r, "ratelimit", "breaker")

\* The branch for a request without a user is never taken (GenuinePass).
RateLimit(r) ==
  \/ Fail(r, "ratelimit", 429)
  \/ Pass(r, "ratelimit", "throttled")
  \/ Pass(r, "ratelimit", "breaker")

\* Mutant: the delay is over only when the client has gone.
EndDelayWhenGone(r) ==
  r \in gone /\ (Pass(r, "throttled", "breaker") \/ Pass(r, "throttled", "return"))

\* The timer, or the request's context: then nothing is written.
EndDelay(r) ==
  \/ Pass(r, "throttled", "breaker")
  \/ r \in gone /\ Pass(r, "throttled", "return")

CircuitBreaker(r) ==
  \/ Fail(r, "breaker", 503)
  \/ /\ Goto(r, "breaker", "proxy")
     /\ told' = [told EXCEPT ![r] = "admitted"]
     /\ UNCHANGED <<status, seen>>

\* The proxy: the header of an answer is passed on before its body, and
\* ErrorHandler writes 502 for a transport error, a client that has gone
\* among them.
Proxy(r) ==
  \/ /\ Goto(r, "proxy", "streaming")
     /\ \E code \in Answers : WriteHeader(r, code)
     /\ UNCHANGED told
  \/ /\ Goto(r, "proxy", "record")
     /\ WriteHeader(r, 502)
     /\ UNCHANGED told

\* Mutant: a body that breaks off is answered with 502.
StreamThenFail(r) ==
  \/ Pass(r, "streaming", "record")
  \/ /\ Goto(r, "streaming", "record")
     /\ WriteHeader(r, 502)
     /\ UNCHANGED told

\* The body is copied to its end, or the copy fails on either side and the
\* proxy panics with http.ErrAbortHandler.
Stream(r) ==
  Pass(r, "streaming", "record") \/ Pass(r, "streaming", "panicking")

\* Mutant: 500 itself is taken for a success.
RecordAbove(r) ==
  /\ Goto(r, "record", "return")
  /\ told' = [told EXCEPT ![r] = IF seen[r] > 500 THEN "failure" ELSE "success"]
  /\ UNCHANGED <<status, seen>>

Record(r) ==
  /\ Goto(r, "record", "return")
  /\ told' = [told EXCEPT ![r] = IF seen[r] >= 500 THEN "failure" ELSE "success"]
  /\ UNCHANGED <<status, seen>>

\* What a layer of the gateway does by itself, and what it waits for.
Layer(r) ==
  /\ \/ Route(r) \/ Authenticate(r)
     \/ /\ \/ IPBlocklist(r) \/ RateLimit(r) \/ EndDelay(r)
           \/ CircuitBreaker(r) \/ Record(r)
        /\ UNCHANGED identity
  /\ UNCHANGED <<gone, active, requestsTotal, process>>

Backend(r) ==
  /\ Proxy(r) \/ Stream(r)
  /\ UNCHANGED <<identity, gone, active, requestsTotal, process>>

----------------------------------------------------------------------------
(* On the way out *)

resolveTierLabel(r) ==
  CASE r \in internal -> "internal"
    [] r \notin internal /\ GetUserContext(r, "return") # NoUser -> "tier"
    [] OTHER -> "unauthenticated"

\* Observability counts with what its recorder has seen; net/http writes 200
\* where no handler has written anything.
Return(r) ==
  /\ Goto(r, "return", "done")
  /\ requestsTotal' =
       [requestsTotal EXCEPT ![resolveTierLabel(r)][seen[r]] = @ + 1]
  /\ active' = active - 1
  /\ Sent(r, 200)
  /\ UNCHANGED <<seen, told, identity, gone, process>>

\* Mutant: the Dec is not deferred.
UnwindUndeferred(r) ==
  /\ Pass(r, "panicking", "recovering")
  /\ UNCHANGED <<identity, gone, active, requestsTotal, process>>

\* A panic skips everything but the deferred calls.
Unwind(r) ==
  /\ Pass(r, "panicking", "recovering")
  /\ active' = active - 1
  /\ UNCHANGED <<identity, gone, requestsTotal, process>>

\* Recovery writes to the response itself, below every recorder.
Recover(r) ==
  /\ Goto(r, "recovering", "recovered")
  /\ Sent(r, 500)
  /\ UNCHANGED <<seen, told, identity, gone, active, requestsTotal, process>>

\* The client closes its connection.
Disconnect(r) ==
  /\ Alive
  /\ pc[r] \in Busy /\ r \notin gone
  /\ gone' = gone \cup {r}
  /\ UNCHANGED <<pc, perRequest, identity, active, requestsTotal, process>>

----------------------------------------------------------------------------
(* The life of the process *)

\* SIGINT or SIGTERM.
Signal ==
  /\ phase = "serving"
  /\ phase' = "draining"
  /\ UNCHANGED <<pc, requests, grace, redisOpen>>

\* Mutant: Close in place of Shutdown.
DrainedAtOnce ==
  /\ phase = "draining"
  /\ phase' = "closing"
  /\ UNCHANGED <<pc, requests, grace, redisOpen>>

\* Shutdown returns once no connection is busy, and Start returns nil.
Drained ==
  /\ phase = "draining"
  /\ \A r \in Requests : pc[r] \notin Busy
  /\ phase' = "closing"
  /\ UNCHANGED <<pc, requests, grace, redisOpen>>

Dropped == [r \in Requests |-> IF pc[r] \in Busy THEN "dropped" ELSE pc[r]]

\* main returns, and its deferred calls run: a request still in a handler would
\* go on with closed clients.
Close ==
  /\ phase = "closing"
  /\ phase' = "closed"
  /\ redisOpen' = FALSE
  /\ UNCHANGED <<pc, requests, grace>>

\* The process ends, and whatever is still running ends with it.
Exit ==
  /\ phase = "closed"
  /\ phase' = "exited"
  /\ pc' = Dropped
  /\ UNCHANGED <<requests, grace, redisOpen>>

\* l.Fatal ends in os.Exit: no deferred call runs, so the Redis clients are not
\* closed under the requests that are still running.
Fatal ==
  /\ phase' = "failed"
  /\ pc' = Dropped
  /\ UNCHANGED <<requests, grace, redisOpen>>

\* The port is taken, or the listener breaks.
ListenFails == phase = "serving" /\ Fatal

\* Mutant: the deadline is looked at only between requests.
GraceOverWhenIdle ==
  /\ phase = "draining" /\ grace = 0
  /\ \A r \in Requests : pc[r] \notin Busy
  /\ Fatal

\* Mutant: Start logs the error of Shutdown and returns nil.
GraceOverUnreported ==
  /\ phase = "draining" /\ grace = 0
  /\ phase' = "closing"
  /\ UNCHANGED <<pc, requests, grace, redisOpen>>

\* Shutdown gives up at its deadline, Start returns its error, and main ends.
GraceOver == phase = "draining" /\ grace = 0 /\ Fatal

Tick ==
  /\ phase = "draining" /\ grace > 0
  /\ grace' = grace - 1
  /\ UNCHANGED <<pc, requests, phase, redisOpen>>

Handler(r) == Layer(r) \/ Return(r) \/ Unwind(r) \/ Recover(r)

Next ==
  \/ \E r \in Requests :
       Accept(r) \/ Handler(r) \/ Backend(r) \/ Disconnect(r)
  \/ Signal \/ Drained \/ Close \/ Exit \/ ListenFails \/ GraceOver \/ Tick

Spec == Init /\ [][Next]_vars

(* Handlers are scheduled, timers fire and main goes on after Shutdown.    *)
(* Nothing is assumed of the backend, which may never answer.              *)
Fairness ==
  /\ \A r \in Requests : WF_vars(Handler(r))
  /\ WF_vars(Tick) /\ WF_vars(Drained) /\ WF_vars(GraceOver)
  /\ WF_vars(Close) /\ WF_vars(Exit)

FairSpec == Spec /\ Fairness

----------------------------------------------------------------------------
(* Properties *)

\* Values the variables may hold.
TypeOK ==
  /\ pc \in [Requests -> {"idle"} \cup Busy \cup Ended]
  /\ status \in [Requests -> Statuses \cup {NoStatus}]
  /\ seen \in [Requests -> Statuses]
  /\ told \in [Requests -> {"nothing", "admitted", "success", "failure"}]
  /\ internal \subseteq Requests
  /\ user \in [Requests -> SUBSET Token]
  /\ reason \in [Requests -> Reasons \cup {NoReason}]
  /\ gone \subseteq Requests
  /\ active \in Nat
  /\ requestsTotal \in [Labels -> [Statuses -> Nat]]
  /\ authFailures \in [Reasons -> Nat]
  /\ phase \in {"serving", "draining", "closing", "closed", "exited", "failed"}
  /\ grace \in 0..Grace
  /\ redisOpen \in BOOLEAN

InFlight == {r \in Requests : pc[r] \in Counted}

\* The gauge of active connections is the number of requests in the chain,
\* however each of them leaves it (observability.go:28-29).
ActiveIsExact == Alive => active = Cardinality(InFlight)

Done(s) == {r \in Requests : pc[r] = "done" /\ status[r] = s}

\* Each request that ends without a panic is counted once, with the status
\* its client was sent, and apart from the users' if it was an internal one
\* (observability.go:32-56, :82-99; recovery.go:24-27).
TotalsBalance ==
  \A s \in Statuses :
    /\ requestsTotal["internal"][s] = Cardinality(Done(s) \cap internal)
    /\ requestsTotal["unauthenticated"][s] + requestsTotal["tier"][s] =
         Cardinality(Done(s) \ internal)

\* Each request that was let past authentication is counted under its tier
\* (observability.go:37-40).  It is not.
LabelsShowTier ==
  \A s \in Statuses :
    requestsTotal["tier"][s] =
      Cardinality({r \in Done(s) : user[r] # NoUser})

\* Only a request with a genuine token gets past authentication, and so only
\* such a one is admitted by the breaker and forwarded (middleware/auth.go:27-28,
\* jwt.go:33-38, :84-87).
GenuinePass ==
  \A r \in Requests :
    pc[r] \in {"ratelimit", "throttled", "breaker", "record"} \cup Waiting
    \/ told[r] # "nothing"
      => \E t \in user[r] : Genuine(t)

Refused(code) == {r \in Requests : reason[r] = code}

\* Each refusal is counted once, under the code its client was told
\* (middleware/auth.go:47, :63-64).
FailuresTellReasons ==
  \A code \in Reasons : authFailures[code] = Cardinality(Refused(code))

\* The breaker is told of each request it admitted, and of no other, and what
\* it is told is what the client was sent; only a panic leaves it without an
\* answer (middleware/circuitbreaker.go:25-65).
BreakerHearsStatus ==
  \A r \in Requests : pc[r] \in Ended \ {"dropped"} =>
    /\ told[r] = "failure"  => pc[r] = "done" /\ status[r] >= 500
    /\ told[r] = "success"  => pc[r] = "done" /\ status[r] < 500
    /\ told[r] = "admitted" => pc[r] = "recovered"
    /\ pc[r] = "done" /\ status[r] \in {401, 403, 429} \ Answers
         => told[r] = "nothing"

\* No request runs with closed Redis clients: main closes them only after Start
\* has returned without an error, and then every request had come to its end
\* (cmd/main.go:43, :98-100; server.go:169-174).
RedisOutlivesRequests == ~redisOpen => \A r \in Requests : pc[r] \notin Busy

\* A process that ends without an error drops nothing that it had accepted
\* (server.go:135-138, :166-174).
CleanExitDropsNone ==
  phase = "exited" => \A r \in Requests : pc[r] # "dropped"

\* Whatever the backend does, a process that was told to stop stops
\* (server.go:166-171).
ShutdownEnds == phase = "draining" ~> phase \in {"exited", "failed"}

\* No layer of the gateway holds a request for ever: it waits for the backend
\* or comes to an end (middleware/ratelimit.go:90-98).
LayersLetGo ==
  \A r \in Requests : pc[r] \in Layers ~> pc[r] \in Waiting \cup Ended

Where(r) ==
  CASE pc[r] = "idle" -> "new"
    [] pc[r] \in Busy -> IF told[r] = "nothing" THEN "here" ELSE "forwarded"
    [] pc[r] \in {"done", "recovered"} -> "over"
    [] pc[r] = "dropped" -> "lost"

Promise == INSTANCE Service WITH
  Codes <- Statuses, NoCode <- NoStatus, up <- phase \in {"serving", "draining"},
  where <- [r \in Requests |-> Where(r)], answer <- status

\* To its clients the process does what Service promises: one unchanging status
\* for each request, none forwarded after a refusal or twice, none lost but by
\* an exit with an error (server.go:111-114, :135-138).
ImplementsService == Promise!Spec
=============================================================================
