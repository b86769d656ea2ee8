---------------------------- MODULE RateLimiter ----------------------------
(***************************************************************************)
(* The sliding window rate limiter, for one user: Limiter.Evaluate         *)
(* (internal/ratelimiter/limiter.go), the script it runs inside Redis      *)
(* (internal/ratelimiter/rate_limit.lua) and what the RateLimit middleware *)
(* does with the decision (internal/middleware/ratelimit.go).  Users have  *)
(* keys of their own, so one user is the general case.                     *)
(*                                                                         *)
(* A request takes its time stamp in the gateway.  The script runs later,  *)
(* in Redis, in whatever order the commands arrive; the client library     *)
(* sends a command again, with the same stamp, when no answer comes; and a *)
(* command the gateway has given up on may still be executed.              *)
(***************************************************************************)
EXTENDS Integers, FiniteSets

CONSTANTS
  Requests,    \* requests of the user, each served once
  Limit,       \* request -> requests per minute of the tier in its token
  ThrottleAt,  \* request -> User.ThrottleThreshold() of that tier
  Skew,        \* request -> ticks its gateway's clock is ahead of now
  MaxLimit,    \* the greatest of these limits
  Window,      \* window size, in ticks
  Ttl,         \* life of the key after its last write (rate_limit.lua:53)
  MaxAttempts, \* request -> bound on the times its script is sent
  Suffixes,    \* values of math.random
  Eviction,    \* may Redis evict the key under memory pressure?
  MaxTime      \* bound on the clock

ASSUME RateLimiterAssumption ==
  /\ MaxLimit \in Nat
  /\ Limit \in [Requests -> 1..MaxLimit]
  /\ ThrottleAt \in [Requests -> Nat]
  /\ Skew \in [Requests -> Nat]
  /\ Window \in Nat /\ Ttl \in Nat \ {0}
  /\ MaxAttempts \in [Requests -> Nat \ {0}] /\ MaxTime \in Nat
  /\ Eviction \in BOOLEAN

VARIABLES
  now,      \* the slowest clock; Redis's only measures the life of the key
  zset,     \* members of the user's sorted set
  expireAt, \* when the key expires
  pc,       \* where each request is
  stamp,    \* nowMs of each request
  attempt,  \* how often its script has been sent
  reply,    \* decision the latest attempt is bringing back
  commands  \* scripts sent and neither executed nor dropped

\* History variables: no guard reads them.
VARIABLES
  admitted, \* the executions that recorded a request, and since which the
            \* key has not been evicted
  expired,  \* those that went with a key whose life was over
  merged,   \* those that drew the suffix of a member of their millisecond
  latest    \* the greatest stamp a script has run with

redis == <<zset, expireAt, admitted, expired, merged, latest>>
vars == <<now, zset, expireAt, pc, stamp, attempt, reply, commands, admitted,
          expired, merged, latest>>

Decisions == {"allow", "throttle", "reject"}
NoReply == "none"
Command == [req : Requests, n : Nat]
Member == [score : Nat, suffix : Suffixes]

Init ==
  /\ now = 1
  /\ zset = {}
  /\ expireAt = 0
  /\ pc = [r \in Requests |-> "idle"]
  /\ stamp = [r \in Requests |-> 0]
  /\ attempt = [r \in Requests |-> 0]
  /\ reply = [r \in Requests |-> NoReply]
  /\ commands = {}
  /\ admitted = {} /\ expired = {} /\ merged = {}
  /\ latest = 0

Goto(r, from, to) ==
  /\ pc[r] = from
  /\ pc' = [pc EXCEPT ![r] = to]

----------------------------------------------------------------------------
(* The gateway *)

\* An answer on its way is taken; or it is lost, or comes too late, and the
\* call goes on without it.
Forget(r) == reply' = [reply EXCEPT ![r] = NoReply]

Send(r) ==
  /\ attempt' = [attempt EXCEPT ![r] = @ + 1]
  /\ commands' = commands \cup {[req |-> r, n |-> attempt[r] + 1]}
  /\ Forget(r)

\* Mutant: the start of the window is sent where its end belongs.
EvaluateFromStart(r) ==
  /\ Goto(r, "idle", "waiting")
  /\ stamp' = [stamp EXCEPT ![r] = now + Skew[r] - Window]
  /\ Send(r)
  /\ UNCHANGED <<now, redis>>

\* Evaluate reads its clock once and sends the script.
Evaluate(r) ==
  /\ Goto(r, "idle", "waiting")
  /\ stamp' = [stamp EXCEPT ![r] = now + Skew[r]]
  /\ Send(r)
  /\ UNCHANGED <<now, redis>>

\* The client library sends the script again, with the same arguments.
Resend(r) ==
  /\ pc[r] = "waiting"
  /\ attempt[r] < MaxAttempts[r]
  /\ Send(r)
  /\ UNCHANGED <<now, redis, pc, stamp>>

\* Any error of the call, a cancelled request context among them, lets the
\* request through, whether or not the script has counted it.
FailOpen(r) ==
  /\ Goto(r, "waiting", "forwarded")
  /\ Forget(r)
  /\ UNCHANGED <<now, redis, stamp, attempt, commands>>

\* The decision arrives, and the middleware forwards, delays or rejects; the
\* delay and its end are Gateway's.
Decide(r) ==
  /\ \/ reply[r] = "allow"    /\ Goto(r, "waiting", "forwarded")
     \/ reply[r] = "throttle" /\ Goto(r, "waiting", "throttled")
     \/ reply[r] = "reject"   /\ Goto(r, "waiting", "rejected")
  /\ Forget(r)
  /\ UNCHANGED <<now, redis, stamp, attempt, commands>>

----------------------------------------------------------------------------
(* Redis *)

\* Mutant: the life of the key has no safety margin.
LiveWithoutMargin == IF now < expireAt - 1 THEN zset ELSE {}

\* An expired key is an empty one.
Live == IF now < expireAt THEN zset ELSE {}

\* Mutant: a score at the edge of the window is kept.
KeptInclusive(s) == {m \in Live : m.score >= s - Window}

\* Mutant: the oldest tick of the window is trimmed with what is before it.
KeptShort(s) == {m \in Live : m.score > s - Window + 1}

Kept(s) == {m \in Live : m.score > s - Window}

Answered(c, decision) ==
  IF pc[c.req] = "waiting" /\ attempt[c.req] = c.n
    THEN [reply EXCEPT ![c.req] = decision]
    ELSE reply

Later(s) == IF s > latest THEN s ELSE latest

\* At the limit: trimmed, nothing recorded.
Reject(c) ==
  /\ Cardinality(Kept(stamp[c.req])) >= Limit[c.req]
  /\ reply' = Answered(c, "reject")
  /\ zset' = Kept(stamp[c.req])
  /\ UNCHANGED <<expireAt, admitted, expired, merged>>

\* Mutant: one more request before the delay.
AdmissionBeyond(c) ==
  IF Cardinality(Kept(stamp[c.req])) > ThrottleAt[c.req]
    THEN "throttle" ELSE "allow"

\* The three zones: the count is the one before this request is recorded.
Admission(c) ==
  IF Cardinality(Kept(stamp[c.req])) >= ThrottleAt[c.req]
    THEN "throttle" ELSE "allow"

\* Mutant: the limit itself is let through.
RecordAtLimit(c) ==
  /\ Cardinality(Kept(stamp[c.req])) <= Limit[c.req]
  /\ \E suffix \in Suffixes :
       LET member == [score |-> stamp[c.req], suffix |-> suffix] IN
         /\ zset' = Kept(stamp[c.req]) \cup {member}
         /\ merged' = IF member \in Kept(stamp[c.req])
                        THEN merged \cup {c} ELSE merged
  /\ reply' = Answered(c, Admission(c))
  /\ expireAt' = now + Ttl
  /\ admitted' = admitted \cup {c}
  /\ expired' = IF Live = zset THEN expired ELSE admitted

\* Below the limit: trimmed, recorded, the life of the key renewed.  ZADD
\* of a member the set has already leaves the set as it is.
Record(c) ==
  /\ Cardinality(Kept(stamp[c.req])) < Limit[c.req]
  /\ \E suffix \in Suffixes :
       LET member == [score |-> stamp[c.req], suffix |-> suffix] IN
         /\ zset' = Kept(stamp[c.req]) \cup {member}
         /\ merged' = IF member \in Kept(stamp[c.req])
                        THEN merged \cup {c} ELSE merged
  /\ reply' = Answered(c, Admission(c))
  /\ expireAt' = now + Ttl
  /\ admitted' = admitted \cup {c}
  /\ expired' = IF Live = zset THEN expired ELSE admitted

\* One run of the script: atomic in Redis.
RunScript(c) ==
  /\ Reject(c) \/ Record(c)
  /\ commands' = commands \ {c}
  /\ latest' = Later(stamp[c.req])
  /\ UNCHANGED <<now, pc, stamp, attempt>>

\* The connection breaks under a command.
LoseCommand(c) ==
  /\ commands' = commands \ {c}
  /\ UNCHANGED <<now, redis, pc, stamp, attempt, reply>>

\* allkeys-lru may take the whole key, and all it knows with it: the history
\* starts again.
Evict ==
  /\ Eviction
  /\ zset # {}
  /\ zset' = {} /\ admitted' = {} /\ expired' = {} /\ merged' = {}
  /\ UNCHANGED <<now, expireAt, pc, stamp, attempt, reply, commands, latest>>

\* The client's timeouts bound how long it waits for an answer, and nothing
\* bounds when a command it has given up on is executed.
Tick ==
  /\ now < MaxTime
  /\ now' = now + 1
  /\ UNCHANGED <<redis, pc, stamp, attempt, reply, commands>>

Serve(r) ==
  Resend(r) \/ FailOpen(r) \/ Decide(r)

Next ==
  \/ \E r \in Requests : Evaluate(r) \/ Serve(r)
  \/ \E c \in commands : RunScript(c) \/ LoseCommand(c)
  \/ Evict
  \/ Tick

Spec == Init /\ [][Next]_vars

----------------------------------------------------------------------------
(* Properties *)

\* Values the variables may hold.
TypeOK ==
  /\ now \in Nat
  /\ zset \subseteq Member
  /\ expireAt \in Nat
  /\ pc \in [Requests -> {"idle", "waiting", "forwarded", "throttled",
                          "rejected"}]
  /\ stamp \in [Requests -> Nat]
  /\ attempt \in [Requests -> Nat]
  /\ \A r \in Requests : attempt[r] <= MaxAttempts[r]
  /\ \A r \in Requests : pc[r] = "idle" => attempt[r] = 0
  /\ reply \in [Requests -> Decisions \cup {NoReply}]
  /\ commands \subseteq Command
  /\ admitted \subseteq Command
  /\ expired \subseteq admitted /\ merged \subseteq admitted
  /\ latest \in Nat

AdmittedAfter(t) == {c \in admitted : stamp[c.req] > t}

\* Of these the set still has a member of their own.
HeldAfter(t) == AdmittedAfter(t) \ (expired \cup merged)

\* The window that ends at the greatest stamp Redis has seen never holds more
\* admitted executions than the largest limit, not counting those that drew
\* a member the set had or went with an expired or evicted key: whatever the
\* order in which the commands of how many gateways arrive, are lost, are
\* repeated or come late, nothing else is missing (rate_limit.lua:24-41).
WindowBounded == Cardinality(HeldAfter(latest - Window)) <= MaxLimit

\* The key takes an execution that is still in the window of the script that
\* finds it expired only when that script runs late: by more than what the
\* safety margin of the key's life leaves over the clock difference between
\* gateways (rate_limit.lua:50-54).
KeyOutlivesWindow ==
  [][\A c \in commands, d \in expired' \ expired :
       RunScript(c) /\ stamp[d.req] > stamp[c.req] - Window
         => now - stamp[c.req] > Ttl - Window - Skew[d.req]]_vars

\* Equal suffixes cost the limit nothing but requests of one millisecond: what
\* was admitted in the window, and not lost with an expired key, came in no
\* more milliseconds than the largest limit (rate_limit.lua:43-48).
StampsBounded ==
  Cardinality({stamp[c.req] : c \in AdmittedAfter(latest - Window) \ expired})
    <= MaxLimit

\* Between evictions the window holds no more requests than the limit: two
\* requests of one millisecond count as two (rate_limit.lua:45-46).
LimitKept == Cardinality(AdmittedAfter(latest - Window)) <= MaxLimit

\* Nobody is rejected without having had Limit executions admitted in the
\* window: nothing trimmed too little, counted twice, or remembered of what
\* was evicted (rate_limit.lua:21-41).
NoFalseReject ==
  [][\A r \in Requests :
       reply[r] # "reject" /\ reply'[r] = "reject"
         => Cardinality(AdmittedAfter(stamp[r] - Window)) >= Limit[r]]_vars

\* The decision on a request that comes after n of its window.
Zone(r, n) ==
  IF n >= Limit[r] THEN "reject"
  ELSE IF n >= ThrottleAt[r] THEN "throttle" ELSE "allow"

\* A request whose script runs in stamp order is allowed, delayed or rejected
\* exactly as one counter of the executions the set holds of its window would
\* have it, however many gateways share the set (rate_limit.lua:31-66;
\* middleware/ratelimit.go:84-101).
DecisionsAreExact ==
  [][\A r \in Requests :
       reply[r] = NoReply /\ reply'[r] # NoReply /\ stamp[r] >= latest
         => reply'[r] =
              Zone(r, Cardinality(AdmittedAfter(stamp[r] - Window)
                                    \ (expired' \cup merged)))]_vars
=============================================================================
