----------------------------- MODULE Blocklist -----------------------------
(***************************************************************************)
(* The IP blocklist, for one address: the admin endpoints that ban it and  *)
(* lift the ban (internal/handlers/admin.go), the look-up every request    *)
(* from it makes (internal/middleware/ipblocklist.go,                      *)
(* internal/ipblocklist/blocklist.go) and the Redis commands both turn     *)
(* into (internal/repository/cache_repo.go).                               *)
(*                                                                         *)
(* A ban is two pieces of Redis state: membership in a set and, because a  *)
(* member cannot expire, a sentinel key that does.  They are written by a  *)
(* pipeline and read by two separate commands, and commands of different   *)
(* connections interleave.  The client library sends a pipeline or a       *)
(* command again when no answer comes (internal/database/redis.go:59-68    *)
(* leaves its retries at their default), and an attempt it has abandoned   *)
(* may still be executed, after the call has been answered too.            *)
(***************************************************************************)
EXTENDS Integers, Sequences

CONSTANTS
  Requests, \* requests from the address that can be under way at a time
  Admins,   \* admin calls and abandoned attempts of them that can be under
            \* way at a time
  Ttls,     \* seconds an admin may ask for, in ticks; 0 is a permanent ban,
            \* and a negative number is taken like 0
  MaxCleanUps \* bound on the background SREMs pending at a time, those
              \* of abandoned attempts among them

ASSUME BlocklistAssumption == Ttls \subseteq Int /\ MaxCleanUps \in Nat

VARIABLES
  inSet,     \* is the address a member of blocklist:ips?
  left,      \* ticks until blocklist:expiry:<ip> is gone; 0: it is not there
  pc,        \* what each request has learned so far
  cleaning,  \* background SREMs that have not run yet
  call,      \* the admin call each slot is busy with an attempt of
  pipe,      \* its commands Redis has not executed yet
  asked,     \* the ttl it asked for, 0 when there is no call
  waiting,   \* does the admin still wait for its answer?
  contested, \* history: awaited calls overlapped by one of the other kind
  disturbed, \* history: awaited calls during which a background SREM ran
  lasting,   \* history: was the member last added without a ttl?
  promise    \* history: what the last answers told the admins

redis == <<inSet, left, lasting>>
requestVars == <<pc, cleaning>>
adminVars == <<call, pipe, asked, waiting, contested, disturbed>>
vars == <<inSet, left, pc, cleaning, call, pipe, asked, waiting, contested,
          disturbed, lasting, promise>>

Calls == {"block", "unblock"}
Verdicts == {"passed", "blocked", "failedOpen"}

Init ==
  /\ inSet = FALSE
  /\ left = 0
  /\ pc = [r \in Requests |-> "idle"]
  /\ cleaning = 0
  /\ call = [a \in Admins |-> "none"]
  /\ pipe = [a \in Admins |-> <<>>]
  /\ asked = [a \in Admins |-> 0]
  /\ waiting = {}
  /\ contested = {}
  /\ disturbed = {}
  /\ lasting = FALSE
  /\ promise = "none"

Goto(r, from, to) ==
  /\ pc[r] = from
  /\ pc' = [pc EXCEPT ![r] = to]

----------------------------------------------------------------------------
(* The look-up *)

\* SISMEMBER.
IsMember(r) ==
  /\ \/ inSet  /\ Goto(r, "idle", "member")
     \/ ~inSet /\ Goto(r, "idle", "passed")
  /\ UNCHANGED <<redis, cleaning, adminVars, promise>>

\* Mutant: the clean-up is started before the sentinel is looked at.
CheckExpiryAfterCleanUp(r) ==
  /\ cleaning < MaxCleanUps
  /\ \/ left > 0 /\ Goto(r, "member", "blocked")
     \/ left = 0 /\ Goto(r, "member", "passed")
  /\ cleaning' = cleaning + 1
  /\ UNCHANGED <<redis, adminVars, promise>>

\* Mutant: no clean-up.
CheckExpiryOnly(r) ==
  /\ \/ left > 0 /\ Goto(r, "member", "blocked")
     \/ left = 0 /\ Goto(r, "member", "passed")
  /\ UNCHANGED <<redis, cleaning, adminVars, promise>>

\* EXISTS of the sentinel.  A member without one is taken for a ban that has
\* expired: it is let through and removed by a goroutine of its own.
CheckExpiry(r) ==
  /\ \/ /\ left > 0
        /\ Goto(r, "member", "blocked")
        /\ UNCHANGED cleaning
     \/ /\ left = 0 /\ cleaning < MaxCleanUps
        /\ Goto(r, "member", "passed")
        /\ cleaning' = cleaning + 1
  /\ UNCHANGED <<redis, adminVars, promise>>

\* Either command fails, and the request is let through.
FailOpen(r) ==
  /\ pc[r] \in {"idle", "member"}
  /\ pc' = [pc EXCEPT ![r] = "failedOpen"]
  /\ UNCHANGED <<redis, cleaning, adminVars, promise>>

\* The request is over and its slot serves another.
Finish(r) ==
  /\ pc[r] \in Verdicts
  /\ pc' = [pc EXCEPT ![r] = "idle"]
  /\ UNCHANGED <<redis, cleaning, adminVars, promise>>

\* A background SREM: it looks at nothing again.
CleanUp ==
  /\ cleaning > 0
  /\ cleaning' = cleaning - 1
  /\ inSet' = FALSE /\ lasting' = FALSE
  /\ disturbed' = waiting
  /\ UNCHANGED <<left, pc, call, pipe, asked, waiting, contested, promise>>

\* The client library sends it again; the first may still run.
ResendCleanUp ==
  /\ cleaning > 0 /\ cleaning < MaxCleanUps
  /\ cleaning' = cleaning + 1
  /\ UNCHANGED <<redis, pc, adminVars, promise>>

\* Its error is ignored.
CleanUpFails ==
  /\ cleaning > 0
  /\ cleaning' = cleaning - 1
  /\ UNCHANGED <<redis, pc, adminVars, promise>>

----------------------------------------------------------------------------
(* The admin calls *)

UnderWay(kind) == {a \in Admins : call[a] = kind}

BlockCommands(ttl) == IF ttl > 0 THEN <<"sadd", "set">> ELSE <<"sadd">>

\* Mutant: the sentinel is removed before the member.
UnblockSentinelFirst == <<"del", "srem">>

\* Mutant: the sentinel is left to expire.
UnblockKeepingSentinel == <<"srem">>

\* Mutant: only the sentinel is removed, and the member is left to look-ups.
UnblockLazily == <<"del">>

UnblockCommands == <<"srem", "del">>

Commands(kind, ttl) ==
  IF kind = "block" THEN BlockCommands(ttl) ELSE UnblockCommands

\* A call starts.  Whatever calls of the other kind are under way, or have
\* left attempts that are, it and they leave open which of the two wins.
Start(a, kind, other, ttl) ==
  /\ call[a] = "none"
  /\ call' = [call EXCEPT ![a] = kind]
  /\ pipe' = [pipe EXCEPT ![a] = Commands(kind, ttl)]
  /\ asked' = [asked EXCEPT ![a] = ttl]
  /\ waiting' = waiting \cup {a}
  /\ contested' = contested \cup (UnderWay(other) \cap waiting)
                    \cup (IF UnderWay(other) = {} THEN {} ELSE {a})
  /\ UNCHANGED <<redis, requestVars, disturbed>>

BlockIP(a) ==
  /\ \E ttl \in Ttls : Start(a, "block", "unblock", ttl)
  /\ promise' = IF promise = "clear" THEN "none" ELSE promise

UnblockIP(a) ==
  /\ Start(a, "unblock", "block", 0)
  /\ promise' = "none"

\* What an attempt that is given up for another leaves behind: nothing, or, in
\* a slot of its own, the commands Redis has yet to execute.
Abandon(a, commands) ==
  \/ /\ pipe' = [pipe EXCEPT ![a] = commands]
     /\ UNCHANGED <<call, asked>>
  \/ \E b \in Admins :
       /\ pipe[a] # <<>> /\ call[b] = "none"
       /\ pipe' = [pipe EXCEPT ![b] = pipe[a], ![a] = commands]
       /\ call' = [call EXCEPT ![b] = call[a]]
       /\ asked' = [asked EXCEPT ![b] = asked[a]]

\* The client library sends the whole pipeline again.
Resend(a) ==
  /\ a \in waiting
  /\ Abandon(a, Commands(call[a], asked[a]))
  /\ UNCHANGED <<redis, requestVars, waiting, contested, disturbed, promise>>

Effect(command, ttl) ==
  CASE command = "sadd" ->
         inSet' = TRUE /\ lasting' = (ttl <= 0) /\ UNCHANGED left
    [] command = "srem" ->
         inSet' = FALSE /\ lasting' = FALSE /\ UNCHANGED left
    [] command = "set"  -> left' = ttl /\ UNCHANGED <<inSet, lasting>>
    [] command = "del"  -> left' = 0   /\ UNCHANGED <<inSet, lasting>>

\* The slot is free once nobody waits for the call and nothing of it is left
\* to execute.
Free(a) ==
  /\ call' = [call EXCEPT ![a] = "none"]
  /\ asked' = [asked EXCEPT ![a] = 0]

\* Nobody waits for the call any more.
Answer(a) ==
  /\ waiting' = waiting \ {a}
  /\ contested' = contested \ {a}
  /\ disturbed' = disturbed \ {a}

\* Redis executes the next command of a pipeline.
Execute(a) ==
  /\ pipe[a] # <<>>
  /\ Effect(Head(pipe[a]), asked[a])
  /\ pipe' = [pipe EXCEPT ![a] = Tail(@)]
  /\ IF pipe'[a] = <<>> /\ a \notin waiting
       THEN Free(a) ELSE UNCHANGED <<call, asked>>
  /\ promise' = IF promise \in {"banned", "doubtful"} /\ left' = 0
                  THEN "none" ELSE promise
  /\ UNCHANGED <<waiting, contested, disturbed, requestVars>>

\* What a 200 lets the admin believe.
Promised(a) ==
  CASE a \in contested -> "none"
    [] a \notin contested /\ call[a] = "unblock" -> "clear"
    [] a \notin contested /\ call[a] = "block" ->
         IF asked[a] = 0 THEN "permanent"
         ELSE IF left = 0 THEN "none"
         ELSE IF cleaning = 0 /\ a \notin disturbed THEN "banned"
         ELSE "doubtful"

\* The answer of the whole pipeline arrives: 200.
Acknowledge(a) ==
  /\ a \in waiting
  /\ pipe[a] = <<>>
  /\ promise' = Promised(a)
  /\ Answer(a)
  /\ Free(a)
  /\ UNCHANGED <<redis, pipe, requestVars>>

\* The retries are used up: the call fails with 500, but what has been sent may
\* still be executed.
GiveUp(a) ==
  /\ a \in waiting
  /\ Answer(a)
  /\ IF pipe[a] = <<>> THEN Free(a) ELSE UNCHANGED <<call, asked>>
  /\ UNCHANGED <<redis, pipe, requestVars, promise>>

\* The connection breaks for good: an attempt is lost with a part of it
\* executed, and the call that waits for it fails with 500.
Break(a) ==
  /\ pipe[a] # <<>>
  /\ pipe' = [pipe EXCEPT ![a] = <<>>]
  /\ Answer(a)
  /\ Free(a)
  /\ UNCHANGED <<redis, requestVars, promise>>

----------------------------------------------------------------------------
Tick ==
  /\ left > 0
  /\ left' = left - 1
  /\ promise' = IF promise \in {"banned", "doubtful"} /\ left' = 0
                  THEN "none" ELSE promise
  /\ UNCHANGED <<inSet, lasting, requestVars, adminVars>>

Request(r) == IsMember(r) \/ CheckExpiry(r) \/ FailOpen(r) \/ Finish(r)

Admin(a) == BlockIP(a) \/ UnblockIP(a) \/ Resend(a) \/ Execute(a)
              \/ Acknowledge(a) \/ GiveUp(a) \/ Break(a)

Next ==
  \/ \E r \in Requests : Request(r)
  \/ CleanUp \/ ResendCleanUp \/ CleanUpFails
  \/ \E a \in Admins : Admin(a)
  \/ Tick

Spec == Init /\ [][Next]_vars

(* The address keeps sending requests, handlers and goroutines are         *)
(* scheduled, and Redis does not fail every time.                          *)
Fairness ==
  /\ WF_vars(\E r \in Requests : Finish(r))
  /\ SF_vars(\E r \in Requests : IsMember(r))
  /\ SF_vars(\E r \in Requests : CheckExpiry(r))
  /\ SF_vars(CleanUp)

FairSpec == Spec /\ Fairness

----------------------------------------------------------------------------
(* Properties *)

\* Values the variables may hold.
TypeOK ==
  /\ inSet \in BOOLEAN
  /\ left \in Nat
  /\ pc \in [Requests -> {"idle", "member"} \cup Verdicts]
  /\ cleaning \in Nat
  /\ call \in [Admins -> Calls \cup {"none"}]
  /\ pipe \in [Admins -> {<<>>, <<"sadd", "set">>, <<"sadd">>, <<"set">>,
                          <<"srem", "del">>, <<"del">>}]
  /\ asked \in [Admins -> Ttls \cup {0}]
  /\ waiting \subseteq Admins
  /\ contested \subseteq waiting
  /\ disturbed \subseteq waiting
  /\ lasting \in BOOLEAN
  /\ promise \in {"none", "clear", "banned", "doubtful", "permanent"}
  /\ \A a \in Admins :
       /\ call[a] = "none" <=> pipe[a] = <<>> /\ a \notin waiting
       /\ call[a] = "block"   => pipe[a] \in {<<>>, <<"sadd", "set">>,
                                              <<"sadd">>, <<"set">>}
       /\ call[a] = "unblock" => pipe[a] \in {<<>>, <<"srem", "del">>, <<"del">>}
       /\ pipe[a] \in {<<"sadd", "set">>, <<"set">>} => asked[a] > 0

Passes(r)  == pc[r] # "passed"  /\ pc'[r] = "passed"
Rejects(r) == pc[r] # "blocked" /\ pc'[r] = "blocked"

\* What the list of GET /admin/blocklist shows of the address: SMEMBERS.
ListBlockedIPs == inSet

\* The list shows an address whose ban has been acknowledged and no clean-up
\* has met, and no longer shows one whose ban an acknowledged call has lifted,
\* unless calls or abandoned attempts of the other kind overlapped that call
\* (cache_repo.go:119-127, admin.go:136-152).
ListTellsPromises ==
  /\ promise = "banned" => ListBlockedIPs
  /\ promise = "clear"  => ~ListBlockedIPs

\* A temporary ban with no clean-up during the call that set it, or pending at
\* its end, and no unblock or abandoned attempt of one meanwhile, keeps every
\* request out until it expires or is lifted, short of a Redis error: no
\* look-up of its own time and no late attempt of another ban undoes it
\* (cache_repo.go:57-81, :99).
BanHolds == [][\A r \in Requests : promise = "banned" => ~Passes(r)]_vars

\* Once a lifted ban has been acknowledged, with no ban or abandoned attempt of
\* one meanwhile, nobody is rejected, not even a request that had already found
\* the address in the set (cache_repo.go:107-117).
UnblockHolds == [][\A r \in Requests : promise = "clear" => ~Rejects(r)]_vars

\* The member of a ban with a ttl does not stay listed without a sentinel while
\* the address sends requests (cache_repo.go:71-78).
ExpiredBanIsForgotten ==
  (inSet /\ ~lasting /\ left = 0) ~> (~inSet \/ lasting \/ left > 0)

\* A ban is effective from its acknowledgement on (admin.go:46-47).
BanIsInstant ==
  [][\A r \in Requests : promise \in {"banned", "doubtful"} => ~Passes(r)]_vars

\* A ban without a ttl is permanent (cache_repo.go:84, admin.go:43).
PermanentBanHolds ==
  [][\A r \in Requests : promise = "permanent" => ~Passes(r)]_vars
=============================================================================
