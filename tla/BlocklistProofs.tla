-------------------------- MODULE BlocklistProofs --------------------------
(***************************************************************************)
(* Theorems about Blocklist, for any number of concurrent look-ups and     *)
(* admin calls and any set of times an admin may ask for.                  *)
(***************************************************************************)
EXTENDS Blocklist, TLAPS

\* How the pipelines shrink.
LEMMA Shrinking ==
  /\ Head(<<"sadd", "set">>) = "sadd" /\ Tail(<<"sadd", "set">>) = <<"set">>
  /\ Head(<<"srem", "del">>) = "srem" /\ Tail(<<"srem", "del">>) = <<"del">>
  /\ Head(<<"sadd">>) = "sadd" /\ Tail(<<"sadd">>) = <<>>
  /\ Head(<<"set">>) = "set" /\ Tail(<<"set">>) = <<>>
  /\ Head(<<"del">>) = "del" /\ Tail(<<"del">>) = <<>>
OBVIOUS

\* No two pipelines are the same.
LEMMA Differing ==
  /\ <<"sadd", "set">> # <<>> /\ <<"srem", "del">> # <<>>
  /\ <<"sadd">> # <<>> /\ <<"set">> # <<>> /\ <<"del">> # <<>>
  /\ <<"sadd">> # <<"set">> /\ <<"sadd">> # <<"del">> /\ <<"set">> # <<"del">>
  /\ <<"sadd", "set">> # <<"sadd">> /\ <<"sadd", "set">> # <<"set">>
  /\ <<"sadd", "set">> # <<"del">> /\ <<"sadd", "set">> # <<"srem", "del">>
  /\ <<"srem", "del">> # <<"sadd">> /\ <<"srem", "del">> # <<"set">>
  /\ <<"srem", "del">> # <<"del">>
OBVIOUS

\* What one command of a pipeline does: the next in it follows.
LEMMA ExecuteCases ==
  ASSUME TypeOK, NEW a \in Admins, Execute(a)
  PROVE  \/ /\ pipe[a] = <<"sadd", "set">> /\ pipe'[a] = <<"set">>
            /\ call[a] = "block" /\ inSet' = TRUE /\ left' = left
         \/ /\ pipe[a] = <<"sadd">> /\ pipe'[a] = <<>>
            /\ call[a] = "block" /\ inSet' = TRUE /\ left' = left
         \/ /\ pipe[a] = <<"set">> /\ pipe'[a] = <<>>
            /\ call[a] = "block" /\ inSet' = inSet
            /\ left' = asked[a] /\ asked[a] > 0
         \/ /\ pipe[a] = <<"srem", "del">> /\ pipe'[a] = <<"del">>
            /\ call[a] = "unblock" /\ inSet' = FALSE /\ left' = left
         \/ /\ pipe[a] = <<"del">> /\ pipe'[a] = <<>>
            /\ call[a] = "unblock" /\ inSet' = inSet /\ left' = 0
<1>1. /\ pipe[a] # <<>> /\ pipe'[a] = Tail(pipe[a])
      /\ Effect(Head(pipe[a]), asked[a])
  BY DEF Execute, TypeOK
<1>2. pipe[a] \in {<<"sadd", "set">>, <<"sadd">>, <<"set">>,
                   <<"srem", "del">>, <<"del">>}
  BY <1>1 DEF TypeOK
<1>3. call[a] \in Calls
  BY <1>1 DEF TypeOK
<1>4. CASE pipe[a] = <<"sadd", "set">>
  BY <1>1, <1>3, <1>4, Shrinking, Differing DEF TypeOK, Calls, Effect
<1>5. CASE pipe[a] = <<"sadd">>
  BY <1>1, <1>3, <1>5, Shrinking, Differing DEF TypeOK, Calls, Effect
<1>6. CASE pipe[a] = <<"set">>
  BY <1>1, <1>3, <1>6, Shrinking, Differing DEF TypeOK, Calls, Effect
<1>7. CASE pipe[a] = <<"srem", "del">>
  BY <1>1, <1>3, <1>7, Shrinking, Differing DEF TypeOK, Calls, Effect
<1>8. CASE pipe[a] = <<"del">>
  BY <1>1, <1>3, <1>8, Shrinking, Differing DEF TypeOK, Calls, Effect
<1> QED  BY <1>2, <1>4, <1>5, <1>6, <1>7, <1>8

\* What a call sends, in the first attempt and in the others.
LEMMA CommandsSent ==
  ASSUME NEW ttl \in Int
  PROVE  /\ Commands("block", ttl) \in {<<"sadd", "set">>, <<"sadd">>}
         /\ Commands("block", ttl) = <<"sadd", "set">> => ttl > 0
         /\ Commands("unblock", ttl) = <<"srem", "del">>
BY Differing DEF Commands, BlockCommands, UnblockCommands

\* What was asked for is a number of ticks, which nobody has checked.
LEMMA AskedIsInt ==
  ASSUME TypeOK
  PROVE  \A a \in Admins : asked[a] \in Int
<1>1. Ttls \cup {0} \subseteq Int
  BY BlocklistAssumption
<1>2. asked \in [Admins -> Ttls \cup {0}]
  BY DEF TypeOK
<1> QED  BY <1>1, <1>2

\* Every step keeps the types.
LEMMA StepTyping ==
  ASSUME TypeOK, [Next]_vars
  PROVE  TypeOK'
<1>1. ASSUME NEW r \in Requests, Request(r)
      PROVE TypeOK'
  BY <1>1 DEF TypeOK, Request, IsMember, CheckExpiry, FailOpen, Finish, Goto,
              Verdicts, redis, adminVars
<1>2. ASSUME NEW a \in Admins, BlockIP(a)
      PROVE TypeOK'
  <2>1. PICK ttl \in Ttls : Start(a, "block", "unblock", ttl)
    BY <1>2 DEF BlockIP
  <2>2. /\ Commands("block", ttl) \in {<<"sadd", "set">>, <<"sadd">>}
        /\ Commands("block", ttl) = <<"sadd", "set">> => ttl > 0
    BY BlocklistAssumption, CommandsSent
  <2> QED  BY <1>2, <2>1, <2>2, Differing
           DEF TypeOK, BlockIP, Start, Calls, UnderWay, redis, requestVars
<1>3. ASSUME NEW a \in Admins, UnblockIP(a)
      PROVE TypeOK'
  <2>1. Commands("unblock", 0) = <<"srem", "del">>
    BY CommandsSent
  <2> QED  BY <1>3, <2>1, Differing
           DEF TypeOK, UnblockIP, Start, Calls, UnderWay, redis, requestVars
<1>10. ASSUME NEW a \in Admins, Resend(a)
      PROVE TypeOK'
  <2> DEFINE sent == Commands(call[a], asked[a])
  <2>1. /\ UNCHANGED <<inSet, left, lasting, pc, cleaning, waiting, contested,
                       disturbed, promise>>
        /\ a \in waiting /\ Abandon(a, sent)
    BY <1>10 DEF Resend, redis, requestVars
  <2>2. call[a] \in Calls /\ asked[a] \in Int
    BY <2>1, AskedIsInt DEF TypeOK
  <2>3. \/ /\ call[a] = "block"
           /\ sent \in {<<"sadd", "set">>, <<"sadd">>}
           /\ sent = <<"sadd", "set">> => asked[a] > 0
        \/ call[a] = "unblock" /\ sent = <<"srem", "del">>
    BY <2>2, CommandsSent DEF Calls
  <2> HIDE DEF sent
  <2>4. CASE pipe' = [pipe EXCEPT ![a] = sent] /\ UNCHANGED <<call, asked>>
    BY <2>1, <2>2, <2>3, <2>4, Differing DEF TypeOK
  <2>5. ASSUME NEW b \in Admins,
               /\ pipe[a] # <<>> /\ call[b] = "none"
               /\ pipe' = [pipe EXCEPT ![b] = pipe[a], ![a] = sent]
               /\ call' = [call EXCEPT ![b] = call[a]]
               /\ asked' = [asked EXCEPT ![b] = asked[a]]
        PROVE TypeOK'
    <3>1. a # b /\ b \notin waiting
      BY <2>2, <2>5, Differing DEF TypeOK, Calls
    <3> QED  BY <2>1, <2>2, <2>3, <2>5, <3>1, Differing DEF TypeOK
  <2> QED  BY <2>1, <2>4, <2>5 DEF Abandon
<1>4. ASSUME NEW a \in Admins, Execute(a)
      PROVE TypeOK'
  <2>1. left' \in Nat /\ inSet' \in BOOLEAN
    <3>1. asked[a] \in Int /\ left \in Nat
      BY AskedIsInt DEF TypeOK
    <3>2. left' = left \/ (left' = asked[a] /\ asked[a] > 0) \/ left' = 0
      BY <1>4, ExecuteCases
    <3>3. inSet' = inSet \/ inSet' = TRUE \/ inSet' = FALSE
      BY <1>4, ExecuteCases
    <3>4. left' \in Nat
      BY <3>1, <3>2
    <3>5. inSet' \in BOOLEAN
      BY <3>3, Zenon DEF TypeOK
    <3> QED  BY <3>4, <3>5
  <2>5. lasting' \in BOOLEAN
    <3>1. lasting' = TRUE \/ lasting' = FALSE \/ lasting' = lasting
      <4>1. /\ Effect(Head(pipe[a]), asked[a])
            /\ Head(pipe[a]) \in {"sadd", "srem", "set", "del"}
        BY <1>4, Shrinking, Differing DEF Execute, TypeOK
      <4>2. CASE asked[a] <= 0
        BY <4>1, <4>2 DEF Effect
      <4>3. CASE ~(asked[a] <= 0)
        BY <4>1, <4>3 DEF Effect
      <4> QED  BY <4>2, <4>3
    <3> QED  BY <3>1, Zenon DEF TypeOK
  <2>2. /\ pipe' = [pipe EXCEPT ![a] = pipe'[a]]
        /\ UNCHANGED <<waiting, contested, disturbed>>
        /\ \/ pipe'[a] = <<>> /\ a \notin waiting /\ Free(a)
           \/ ~(pipe'[a] = <<>> /\ a \notin waiting)
              /\ UNCHANGED <<call, asked>>
    BY <1>4 DEF Execute, TypeOK
  <2>3. pc' = pc /\ cleaning' = cleaning /\ promise' \in {promise, "none"}
    BY <1>4 DEF Execute, requestVars
  <2>4. /\ pipe'[a] \in {<<>>, <<"set">>, <<"del">>}
        /\ pipe'[a] = <<"set">> => call[a] = "block" /\ asked[a] > 0
        /\ pipe'[a] = <<"del">> => call[a] = "unblock"
        /\ call[a] # "none"
    BY <1>4, ExecuteCases, Differing DEF TypeOK
  <2> QED  BY <2>1, <2>2, <2>3, <2>4, <2>5, Differing DEF TypeOK, Free, Calls
<1>5. ASSUME NEW a \in Admins, Acknowledge(a)
      PROVE TypeOK'
  <2>1. promise' \in {"none", "clear", "banned", "doubtful", "permanent"}
    <3>1. call[a] \in Calls /\ asked[a] \in Int
      BY <1>5, AskedIsInt DEF Acknowledge, TypeOK
    <3>2. /\ asked[a] = 0 \/ asked[a] # 0
          /\ left = 0 \/ left > 0
      BY <3>1 DEF TypeOK
    <3> QED  BY <1>5, <3>1, <3>2 DEF Acknowledge, Promised, Calls
  <2> QED  BY <1>5, <2>1, Differing
           DEF TypeOK, Acknowledge, Answer, Free, redis, requestVars
<1>6. ASSUME NEW a \in Admins, GiveUp(a) \/ Break(a)
      PROVE TypeOK'
  BY <1>6, Differing
     DEF TypeOK, GiveUp, Break, Answer, Free, redis, requestVars
<1>7. CASE Tick
  BY <1>7 DEF TypeOK, Tick, requestVars, adminVars
<1>8. CASE CleanUp \/ ResendCleanUp \/ CleanUpFails
  <2>1. UNCHANGED <<left, pc, call, pipe, asked, waiting, contested, promise>>
    BY <1>8 DEF CleanUp, ResendCleanUp, CleanUpFails, redis, adminVars
  <2>2. cleaning' \in Nat
    BY <1>8 DEF CleanUp, ResendCleanUp, CleanUpFails, TypeOK
  <2>3. disturbed' \subseteq waiting
    BY <1>8 DEF CleanUp, ResendCleanUp, CleanUpFails, TypeOK, adminVars
  <2>4. /\ inSet' = FALSE \/ inSet' = inSet
        /\ lasting' = FALSE \/ lasting' = lasting
    BY <1>8 DEF CleanUp, ResendCleanUp, CleanUpFails, redis
  <2>5. inSet' \in BOOLEAN /\ lasting' \in BOOLEAN
    BY <2>4, Zenon DEF TypeOK
  <2> QED  BY <2>1, <2>2, <2>3, <2>5 DEF TypeOK
<1>9. CASE UNCHANGED vars
  BY <1>9 DEF TypeOK, vars
<1> QED
  BY <1>1, <1>2, <1>3, <1>4, <1>5, <1>6, <1>7, <1>8, <1>9, <1>10
  DEF Next, Admin

\* The variables keep the values they may hold.
THEOREM Typing == Spec => []TypeOK
<1>1. Init => TypeOK
  <2> SUFFICES ASSUME Init PROVE TypeOK
    OBVIOUS
  <2>1. \A a \in Admins : pipe[a] = <<>> /\ call[a] = "none" /\ a \notin waiting
    BY DEF Init
  <2>2. pc \in [Requests -> {"idle", "member"} \cup Verdicts]
    BY DEF Init
  <2>3. /\ call \in [Admins -> Calls \cup {"none"}]
        /\ asked \in [Admins -> Ttls \cup {0}]
    BY DEF Init
  <2>4. pipe \in [Admins -> {<<>>, <<"sadd", "set">>, <<"sadd">>, <<"set">>,
                             <<"srem", "del">>, <<"del">>}]
    BY DEF Init
  <2> QED  BY <2>1, <2>2, <2>3, <2>4, Differing DEF Init, TypeOK
<1>2. TypeOK /\ [Next]_vars => TypeOK'
  BY StepTyping
<1> QED  BY <1>1, <1>2, PTL DEF Spec

----------------------------------------------------------------------------
(* What a promise rests on.  A call no call of the other kind overlapped,  *)
(* nor an abandoned attempt of one, has had the address to itself, and as  *)
(* long as no background SREM ran, what it wrote is still there.           *)

Undisputed(kind) == (UnderWay(kind) \cap waiting) \ contested

Alone ==
  /\ \A a \in Undisputed("unblock") :
       /\ UnderWay("block") = {}
       /\ pipe[a] = <<>> => left = 0
       /\ pipe[a] \in {<<>>, <<"del">>} => ~inSet
  /\ \A a \in Undisputed("block") :
       /\ UnderWay("unblock") = {}
       /\ a \notin disturbed /\ pipe[a] \in {<<>>, <<"set">>} => inSet

Clear ==
  promise = "clear" => left = 0 /\ ~inSet /\ UnderWay("block") = {}

Banned ==
  promise = "banned" =>
    inSet /\ left > 0 /\ cleaning = 0 /\ UnderWay("unblock") = {}

PromiseInv == Alone /\ Clear /\ Banned

\* A look-up changes nothing in Redis, and under "banned" it starts no clean-up.
LEMMA RequestKeepsPromises ==
  ASSUME TypeOK, PromiseInv, NEW r \in Requests, Request(r)
  PROVE  PromiseInv'
<1>1. UNCHANGED <<inSet, left, call, pipe, waiting, contested, disturbed,
                  promise>>
  BY DEF Request, IsMember, CheckExpiry, FailOpen, Finish, redis, adminVars
<1>2. UnderWay("block")' = UnderWay("block")
      /\ UnderWay("unblock")' = UnderWay("unblock")
  BY <1>1 DEF UnderWay
<1>5. /\ Undisputed("block")' = Undisputed("block")
      /\ Undisputed("unblock")' = Undisputed("unblock")
  BY <1>1, <1>2 DEF Undisputed
<1>3. cleaning' = cleaning \/ left = 0
  BY DEF Request, IsMember, CheckExpiry, FailOpen, Finish
<1>4. promise = "banned" => cleaning' = 0
  BY <1>3 DEF PromiseInv, Banned
<1> QED  BY <1>1, <1>2, <1>4, <1>5 DEF PromiseInv, Alone, Clear, Banned

\* A clean-up disturbs every call awaited, and there is none under "banned".
LEMMA CleanUpKeepsPromises ==
  ASSUME TypeOK, PromiseInv, CleanUp \/ ResendCleanUp \/ CleanUpFails
  PROVE  PromiseInv'
<1>1. /\ UNCHANGED <<left, call, pipe, waiting, contested, promise>>
      /\ promise # "banned"
  <2>1. /\ UNCHANGED <<left, call, pipe, waiting, contested, promise>>
        /\ cleaning > 0
    BY DEF CleanUp, ResendCleanUp, CleanUpFails, redis, adminVars
  <2> QED  BY <2>1 DEF PromiseInv, Banned
<1>2. /\ UnderWay("block")' = UnderWay("block")
      /\ UnderWay("unblock")' = UnderWay("unblock")
      /\ Undisputed("block")' = Undisputed("block")
      /\ Undisputed("unblock")' = Undisputed("unblock")
  BY <1>1 DEF UnderWay, Undisputed
<1>3. CASE CleanUp
  <2>1. \A a \in Undisputed("block") : a \in disturbed'
    BY <1>3 DEF CleanUp, Undisputed
  <2>2. inSet' = FALSE
    BY <1>3 DEF CleanUp
  <2> QED  BY <1>1, <1>2, <2>1, <2>2 DEF PromiseInv, Alone, Clear, Banned
<1>4. CASE ResendCleanUp \/ CleanUpFails
  <2>1. UNCHANGED <<inSet, disturbed>>
    BY <1>4 DEF ResendCleanUp, CleanUpFails, redis, adminVars
  <2> QED  BY <1>1, <1>2, <2>1 DEF PromiseInv, Alone, Clear, Banned
<1> QED  BY <1>3, <1>4

\* A call that starts takes back the promise it will break.
LEMMA StartKeepsPromises ==
  ASSUME TypeOK, PromiseInv, NEW a \in Admins, BlockIP(a) \/ UnblockIP(a)
  PROVE  PromiseInv'
<1>1. UNCHANGED <<inSet, left, cleaning, disturbed>> /\ call[a] = "none"
  BY DEF BlockIP, UnblockIP, Start, redis, requestVars
<1>2. CASE BlockIP(a)
  <2>1. PICK ttl \in Ttls : Start(a, "block", "unblock", ttl)
    BY <1>2 DEF BlockIP
  <2>2. /\ UnderWay("block")' = UnderWay("block") \cup {a}
        /\ UnderWay("unblock")' = UnderWay("unblock")
        /\ waiting' = waiting \cup {a}
        /\ contested' = contested \cup (UnderWay("unblock") \cap waiting)
                          \cup (IF UnderWay("unblock") = {} THEN {} ELSE {a})
    BY <1>1, <2>1 DEF Start, UnderWay, TypeOK
  <2>7. Undisputed("unblock")' = {}
    BY <1>1, <2>2 DEF Undisputed, UnderWay
  <2>8. \A b \in Undisputed("block")' :
          \/ b = a /\ UnderWay("unblock") = {}
          \/ b \in Undisputed("block")
    BY <2>2 DEF Undisputed
  <2>3. /\ \A b \in Admins \ {a} : pipe'[b] = pipe[b]
        /\ pipe'[a] \in {<<"sadd", "set">>, <<"sadd">>}
    BY <2>1, BlocklistAssumption, CommandsSent DEF Start, TypeOK
  <2>4. promise' # "clear" /\ (promise' = "banned" => promise = "banned")
    BY <1>2 DEF BlockIP
  <2>5. a \notin UnderWay("block") \cup UnderWay("unblock")
    BY <1>1 DEF UnderWay
  <2>6. UnderWay("block") \subseteq Admins /\ UnderWay("unblock") \subseteq Admins
    BY DEF UnderWay
  <2> QED  BY <1>1, <2>2, <2>3, <2>4, <2>5, <2>6, <2>7, <2>8, Differing
           DEF PromiseInv, Alone, Clear, Banned, Undisputed
<1>3. CASE UnblockIP(a)
  <2>1. /\ UnderWay("unblock")' = UnderWay("unblock") \cup {a}
        /\ UnderWay("block")' = UnderWay("block")
        /\ waiting' = waiting \cup {a}
        /\ contested' = contested \cup (UnderWay("block") \cap waiting)
                          \cup (IF UnderWay("block") = {} THEN {} ELSE {a})
    BY <1>1, <1>3 DEF UnblockIP, Start, UnderWay, TypeOK
  <2>6. Undisputed("block")' = {}
    BY <1>1, <2>1 DEF Undisputed, UnderWay
  <2>7. \A b \in Undisputed("unblock")' :
          \/ b = a /\ UnderWay("block") = {}
          \/ b \in Undisputed("unblock")
    BY <2>1 DEF Undisputed
  <2>2. /\ \A b \in Admins \ {a} : pipe'[b] = pipe[b]
        /\ pipe'[a] = <<"srem", "del">>
    BY <1>3, CommandsSent DEF UnblockIP, Start, TypeOK
  <2>3. promise' = "none"
    BY <1>3 DEF UnblockIP
  <2>4. a \notin UnderWay("block") \cup UnderWay("unblock")
    BY <1>1 DEF UnderWay
  <2>5. UnderWay("block") \subseteq Admins /\ UnderWay("unblock") \subseteq Admins
    BY DEF UnderWay
  <2> QED  BY <1>1, <2>1, <2>2, <2>3, <2>4, <2>5, <2>6, <2>7, Differing
           DEF PromiseInv, Alone, Clear, Banned, Undisputed
<1> QED  BY <1>2, <1>3

\* What is sent again is the call's own, and so is what is left of it.
LEMMA ResendKeepsPromises ==
  ASSUME TypeOK, PromiseInv, NEW a \in Admins, Resend(a)
  PROVE  PromiseInv'
<1> DEFINE sent == Commands(call[a], asked[a])
<1>1. /\ UNCHANGED <<inSet, left, cleaning, waiting, contested, disturbed,
                     promise>>
      /\ a \in waiting /\ Abandon(a, sent)
  BY DEF Resend, redis, requestVars
<1>2. call[a] \in Calls /\ asked[a] \in Int
  BY <1>1, AskedIsInt DEF TypeOK
<1>3. sent \in {<<"sadd", "set">>, <<"sadd">>, <<"srem", "del">>}
  BY <1>2, CommandsSent DEF Calls
<1> HIDE DEF sent
<1>4. \A x \in Undisputed("block") \cup Undisputed("unblock") : x \in Admins
  BY DEF Undisputed, UnderWay
<1>5. CASE pipe' = [pipe EXCEPT ![a] = sent] /\ UNCHANGED <<call, asked>>
  <2>1. /\ \A x \in Admins \ {a} : pipe'[x] = pipe[x]
        /\ pipe'[a] = sent
    BY <1>5 DEF TypeOK
  <2>2. /\ UnderWay("block")' = UnderWay("block")
        /\ UnderWay("unblock")' = UnderWay("unblock")
        /\ Undisputed("block")' = Undisputed("block")
        /\ Undisputed("unblock")' = Undisputed("unblock")
    BY <1>1, <1>5 DEF UnderWay, Undisputed
  <2> QED  BY <1>1, <1>3, <1>4, <2>1, <2>2, Differing
           DEF PromiseInv, Alone, Clear, Banned
<1>6. ASSUME NEW b \in Admins,
             /\ call[b] = "none"
             /\ pipe' = [pipe EXCEPT ![b] = pipe[a], ![a] = sent]
             /\ call' = [call EXCEPT ![b] = call[a]]
      PROVE PromiseInv'
  <2>1. b # a /\ b \notin waiting
    BY <1>2, <1>6 DEF TypeOK, Calls
  <2>2. /\ \A x \in Admins \ {a, b} : pipe'[x] = pipe[x]
        /\ pipe'[a] = sent
    BY <1>6, <2>1 DEF TypeOK
  <2>3. /\ UnderWay("block")' = IF call[a] = "block"
                                  THEN UnderWay("block") \cup {b}
                                  ELSE UnderWay("block")
        /\ UnderWay("unblock")' = IF call[a] = "unblock"
                                    THEN UnderWay("unblock") \cup {b}
                                    ELSE UnderWay("unblock")
    BY <1>6 DEF UnderWay, TypeOK
  <2>4. /\ Undisputed("block")' = Undisputed("block")
        /\ Undisputed("unblock")' = Undisputed("unblock")
        /\ b \notin Undisputed("block") \cup Undisputed("unblock")
    BY <1>1, <2>1, <2>3 DEF Undisputed
  <2>5. /\ call[a] = "block" => a \in UnderWay("block")
        /\ call[a] = "unblock" => a \in UnderWay("unblock")
    BY DEF UnderWay
  <2> QED  BY <1>1, <1>3, <1>4, <2>2, <2>3, <2>4, <2>5, Differing
           DEF PromiseInv, Alone, Clear, Banned
<1> QED  BY <1>1, <1>5, <1>6 DEF Abandon

\* A slot that becomes free takes nothing from the other calls.
LEMMA FreeKeepsAlone ==
  ASSUME TypeOK, PromiseInv, NEW a \in Admins, Answer(a),
         Free(a) \/ UNCHANGED call,
         UNCHANGED <<inSet, left>>, \A b \in Admins \ {a} : pipe'[b] = pipe[b]
  PROVE  /\ Alone'
         /\ UnderWay("block")' \subseteq UnderWay("block")
         /\ UnderWay("unblock")' \subseteq UnderWay("unblock")
<1>1. /\ UnderWay("block")' \subseteq UnderWay("block")
      /\ UnderWay("unblock")' \subseteq UnderWay("unblock")
  BY DEF Free, UnderWay, TypeOK
<1>2. /\ waiting' = waiting \ {a} /\ contested' = contested \ {a}
      /\ disturbed' = disturbed \ {a}
  BY DEF Answer
<1>3. /\ Undisputed("block")' \subseteq Undisputed("block") \ {a}
      /\ Undisputed("unblock")' \subseteq Undisputed("unblock") \ {a}
  BY <1>1, <1>2 DEF Undisputed
<1>4. Undisputed("block") \subseteq Admins /\ Undisputed("unblock") \subseteq Admins
  BY DEF UnderWay, Undisputed
<1> QED  BY <1>1, <1>2, <1>3, <1>4 DEF PromiseInv, Alone

\* The end of a call, where promises are made.
LEMMA EndKeepsPromises ==
  ASSUME TypeOK, PromiseInv, NEW a \in Admins,
         Acknowledge(a) \/ GiveUp(a) \/ Break(a)
  PROVE  PromiseInv'
<1>1. /\ UNCHANGED <<inSet, left, cleaning>>
      /\ \A b \in Admins \ {a} : pipe'[b] = pipe[b]
  BY DEF Acknowledge, GiveUp, Break, redis, requestVars, TypeOK
<1>2. CASE Acknowledge(a)
  <2>1. /\ Free(a) /\ Answer(a) /\ a \in waiting
        /\ pipe[a] = <<>> /\ call[a] \in Calls /\ promise' = Promised(a)
    BY <1>2 DEF Acknowledge, TypeOK
  <2>2. /\ Alone'
        /\ UnderWay("block")' \subseteq UnderWay("block")
        /\ UnderWay("unblock")' \subseteq UnderWay("unblock")
    BY <1>1, <2>1, FreeKeepsAlone
  <2>3. CASE a \in contested
    <3>1. promise' = "none"
      BY <2>1, <2>3 DEF Promised
    <3> QED  BY <2>2, <3>1 DEF PromiseInv, Clear, Banned
  <2>4. CASE a \notin contested /\ call[a] = "unblock"
    <3>1. promise' = "clear"
      BY <2>1, <2>4 DEF Promised
    <3>2. left = 0 /\ ~inSet /\ UnderWay("block") = {}
      BY <2>1, <2>4 DEF PromiseInv, Alone, UnderWay, Undisputed
    <3> QED  BY <1>1, <2>2, <3>1, <3>2 DEF PromiseInv, Clear, Banned
  <2>5. CASE a \notin contested /\ call[a] = "block"
    <3>1. asked[a] \in Int /\ left \in Nat
      BY AskedIsInt DEF TypeOK
    <3>2. /\ promise' # "clear"
          /\ promise' = "banned" => left > 0 /\ cleaning = 0 /\ a \notin disturbed
      <4>1. CASE asked[a] = 0
        BY <2>1, <2>5, <4>1 DEF Promised
      <4>2. CASE asked[a] # 0 /\ left = 0
        BY <2>1, <2>5, <4>2 DEF Promised
      <4>3. CASE asked[a] # 0 /\ left > 0
        BY <2>1, <2>5, <4>3 DEF Promised
      <4> QED  BY <3>1, <4>1, <4>2, <4>3
    <3>3. UnderWay("unblock") = {} /\ (a \notin disturbed => inSet)
      BY <2>1, <2>5 DEF PromiseInv, Alone, UnderWay, Undisputed
    <3> QED  BY <1>1, <2>2, <3>2, <3>3 DEF PromiseInv, Clear, Banned
  <2> QED  BY <2>1, <2>3, <2>4, <2>5 DEF Calls
<1>3. CASE GiveUp(a) \/ Break(a)
  <2>1. promise' = promise /\ Answer(a) /\ (Free(a) \/ UNCHANGED call)
    BY <1>3 DEF GiveUp, Break
  <2> QED  BY <1>1, <2>1, FreeKeepsAlone DEF PromiseInv, Clear, Banned
<1> QED  BY <1>2, <1>3

\* Commands of calls the other kind has not met leave nothing to doubt.
LEMMA ExecuteKeepsPromises ==
  ASSUME TypeOK, PromiseInv, NEW a \in Admins, Execute(a)
  PROVE  PromiseInv'
<1>1. /\ cleaning' = cleaning /\ promise' \in {promise, "none"}
      /\ promise' = "banned" => left' # 0
      /\ \A b \in Admins \ {a} : pipe'[b] = pipe[b]
      /\ left' \in Nat
  <2>1. TypeOK'
    BY StepTyping DEF Next, Admin
  <2> QED  BY <2>1 DEF Execute, requestVars, TypeOK
<1>2. /\ Undisputed("block") \subseteq UnderWay("block")
      /\ Undisputed("unblock") \subseteq UnderWay("unblock")
      /\ UnderWay("block") \subseteq Admins /\ UnderWay("unblock") \subseteq Admins
  BY DEF UnderWay, Undisputed
\* What the call would leave behind if its slot stayed busy.
<1>3. /\ \A b \in Undisputed("unblock") :
           /\ UnderWay("block") = {}
           /\ pipe'[b] = <<>> => left' = 0
           /\ pipe'[b] \in {<<>>, <<"del">>} => ~inSet'
      /\ \A b \in Undisputed("block") :
           /\ UnderWay("unblock") = {}
           /\ b \notin disturbed /\ pipe'[b] \in {<<>>, <<"set">>} => inSet'
  <2>1. CASE call[a] = "block"
    <3>1. a \in UnderWay("block")
      BY <2>1 DEF UnderWay
    <3>2. inSet' = TRUE \/ (inSet' = inSet /\ pipe[a] = <<"set">>)
      BY <2>1, ExecuteCases, Zenon
    <3>3. \A b \in Undisputed("block") :
            b \notin disturbed /\ pipe'[b] \in {<<>>, <<"set">>} => inSet'
      <4>1. CASE inSet' = TRUE
        BY <4>1
      <4>2. CASE inSet' = inSet /\ pipe[a] = <<"set">>
        <5> SUFFICES ASSUME NEW b \in Undisputed("block"),
                            b \notin disturbed, pipe'[b] \in {<<>>, <<"set">>}
            PROVE inSet
          BY <4>2
        <5>1. pipe[b] \in {<<>>, <<"set">>}
          BY <1>1, <1>2, <4>2
        <5> QED  BY <5>1 DEF PromiseInv, Alone
      <4> QED  BY <3>2, <4>1, <4>2
    <3> QED  BY <1>2, <3>1, <3>3 DEF PromiseInv, Alone
  <2>2. CASE call[a] = "unblock"
    <3>1. a \in UnderWay("unblock")
      BY <2>2 DEF UnderWay
    <3>2. left' = 0 \/ (left' = left /\ pipe'[a] # <<>>)
      BY <2>2, ExecuteCases, Differing, Zenon
    <3>3. \A b \in Undisputed("unblock") : pipe'[b] = <<>> => left' = 0
      BY <1>1, <1>2, <3>1, <3>2 DEF PromiseInv, Alone
    <3>4. inSet' = FALSE \/ (inSet' = inSet /\ pipe[a] = <<"del">>)
      BY <2>2, ExecuteCases, Zenon
    <3>5. \A b \in Undisputed("unblock") :
            pipe'[b] \in {<<>>, <<"del">>} => ~inSet'
      <4>1. CASE inSet' = FALSE
        BY <4>1
      <4>2. CASE inSet' = inSet /\ pipe[a] = <<"del">>
        <5> SUFFICES ASSUME NEW b \in Undisputed("unblock"),
                            pipe'[b] \in {<<>>, <<"del">>}
            PROVE ~inSet
          BY <4>2
        <5>1. pipe[b] \in {<<>>, <<"del">>}
          BY <1>1, <1>2, <4>2
        <5> QED  BY <5>1 DEF PromiseInv, Alone
      <4> QED  BY <3>4, <4>1, <4>2
    <3> QED  BY <1>2, <3>1, <3>3, <3>5 DEF PromiseInv, Alone
  <2> QED  BY <2>1, <2>2, ExecuteCases
<1>4. promise = "clear" => left' = 0 /\ ~inSet'
  <2> SUFFICES ASSUME promise = "clear" PROVE left' = 0 /\ ~inSet'
    OBVIOUS
  <2>1. left = 0 /\ ~inSet /\ call[a] # "block"
    BY DEF PromiseInv, Clear, UnderWay
  <2> QED  BY <2>1, ExecuteCases
<1>5. promise = "banned" => inSet'
  <2> SUFFICES ASSUME promise = "banned" PROVE inSet'
    OBVIOUS
  <2>1. inSet /\ call[a] # "unblock"
    BY DEF PromiseInv, Banned, UnderWay
  <2> QED  BY <2>1, ExecuteCases
<1>6. left' # 0 => left' > 0
  BY <1>1
<1>7. UNCHANGED <<waiting, contested, disturbed>> /\ (Free(a) \/ UNCHANGED call)
  BY DEF Execute
<1>8. /\ UnderWay("block")' \subseteq UnderWay("block")
      /\ UnderWay("unblock")' \subseteq UnderWay("unblock")
  BY <1>7 DEF Free, UnderWay, TypeOK
<1>9. /\ Undisputed("block")' \subseteq Undisputed("block")
      /\ Undisputed("unblock")' \subseteq Undisputed("unblock")
  BY <1>7, <1>8 DEF Undisputed
<1> QED  BY <1>1, <1>3, <1>4, <1>5, <1>6, <1>7, <1>8, <1>9
         DEF PromiseInv, Alone, Clear, Banned

\* Every step keeps what has been promised.
LEMMA StepKeepsPromises ==
  ASSUME TypeOK, PromiseInv, [Next]_vars
  PROVE  PromiseInv'
<1>1. CASE Tick
  <2>1. /\ UNCHANGED <<inSet, cleaning, call, pipe, waiting, contested,
                       disturbed>>
        /\ promise' \in {promise, "none"} /\ promise # "clear"
        /\ promise' = "banned" => left' > 0
    <3>1. promise # "clear" /\ left' \in Nat
      BY <1>1 DEF Tick, PromiseInv, Clear, TypeOK
    <3>2. promise' = "banned" => left' # 0
      BY <1>1 DEF Tick
    <3>3. UNCHANGED <<inSet, cleaning, call, pipe, waiting, contested,
                      disturbed>>
      BY <1>1 DEF Tick, requestVars, adminVars
    <3>4. promise' \in {promise, "none"}
      BY <1>1 DEF Tick
    <3>5. left' # 0 => left' > 0
      BY <3>1
    <3> QED  BY <3>1, <3>2, <3>3, <3>4, <3>5
  <2>2. \A a \in Undisputed("unblock") : pipe[a] = <<>> => left' = 0
    BY <1>1 DEF Tick, PromiseInv, Alone, TypeOK
  <2>3. /\ UnderWay("block")' = UnderWay("block")
        /\ UnderWay("unblock")' = UnderWay("unblock")
        /\ Undisputed("block")' = Undisputed("block")
        /\ Undisputed("unblock")' = Undisputed("unblock")
    BY <2>1 DEF UnderWay, Undisputed
  <2> QED  BY <2>1, <2>2, <2>3 DEF PromiseInv, Alone, Clear, Banned
<1>2. CASE UNCHANGED vars
  BY <1>2 DEF vars, PromiseInv, Alone, Clear, Banned, UnderWay, Undisputed
<1> QED
  BY <1>1, <1>2, RequestKeepsPromises, CleanUpKeepsPromises,
     StartKeepsPromises, ResendKeepsPromises, EndKeepsPromises,
     ExecuteKeepsPromises DEF Next, Admin

\* What the last answer told the admins is so.
THEOREM PromisesHold == Spec => []PromiseInv
<1>1. Init => PromiseInv
  BY DEF Init, PromiseInv, Alone, Clear, Banned, UnderWay, Undisputed
<1>2. TypeOK /\ PromiseInv /\ [Next]_vars => PromiseInv'
  BY StepKeepsPromises
<1> QED  BY <1>1, <1>2, Typing, PTL DEF Spec

\* The list of the admin endpoint tells what the last answers told.
THEOREM ListsTellPromises == Spec => []ListTellsPromises
<1>1. PromiseInv => ListTellsPromises
  BY DEF PromiseInv, Clear, Banned, ListTellsPromises, ListBlockedIPs
<1> QED  BY <1>1, PromisesHold, PTL

\* A ban that neither a clean-up of an older one nor an unblock or an attempt
\* of one has met keeps every request out until it expires or is lifted,
\* however often its own commands are sent and whenever they are executed.
THEOREM BansHold == Spec => BanHolds
<1>1. TypeOK /\ PromiseInv /\ [Next]_vars =>
        [\A r \in Requests : promise = "banned" => ~Passes(r)]_vars
  <2> SUFFICES ASSUME TypeOK, PromiseInv, Next, NEW r \in Requests,
                      promise = "banned", Passes(r)
      PROVE FALSE
    BY DEF vars, Passes
  <2>1. inSet /\ left > 0
    BY DEF PromiseInv, Banned
  <2>2. \/ IsMember(r) /\ ~inSet
        \/ CheckExpiry(r) /\ left = 0
    BY DEF Passes, Next, Request, Admin, IsMember, CheckExpiry, FailOpen, Finish,
           CleanUp, ResendCleanUp, CleanUpFails, BlockIP, UnblockIP, Start,
           Resend, Execute, Acknowledge, GiveUp, Break, Tick, Goto, requestVars, Verdicts, TypeOK
  <2> QED  BY <2>1, <2>2
<1> QED  BY <1>1, Typing, PromisesHold, PTL DEF Spec, BanHolds

\* After the answer to an unblock that no ban or abandoned attempt of one has
\* met nobody is rejected until somebody asks for another ban.
THEOREM UnblocksHold == Spec => UnblockHolds
<1>1. TypeOK /\ PromiseInv /\ [Next]_vars =>
        [\A r \in Requests : promise = "clear" => ~Rejects(r)]_vars
  <2> SUFFICES ASSUME TypeOK, PromiseInv, Next, NEW r \in Requests,
                      promise = "clear", Rejects(r)
      PROVE FALSE
    BY DEF vars, Rejects
  <2>1. left = 0
    BY DEF PromiseInv, Clear
  <2>2. CheckExpiry(r) /\ left > 0
    BY DEF Rejects, Next, Request, Admin, IsMember, CheckExpiry, FailOpen, Finish,
           CleanUp, ResendCleanUp, CleanUpFails, BlockIP, UnblockIP, Start,
           Resend, Execute, Acknowledge, GiveUp, Break, Tick, Goto, requestVars, Verdicts, TypeOK
  <2> QED  BY <2>1, <2>2
<1> QED  BY <1>1, Typing, PromisesHold, PTL DEF Spec, UnblockHolds

----------------------------------------------------------------------------
(* Bans without a ttl *)

NobodyBlocked == \A r \in Requests : pc[r] # "blocked"

\* Only a positive ttl sets the sentinel the look-up asks for: where admins ask
\* for none, whatever they ask for and are told, the list never blocks a
\* request (cache_repo.go:69-78, :84, :92-97; admin.go:43).
THEOREM BansWithoutTtlBlockNobody ==
  ASSUME \A ttl \in Ttls : ttl <= 0
  PROVE  Spec => []NobodyBlocked
<1> DEFINE Inv == left = 0 /\ NobodyBlocked
<1>1. Init => Inv
  BY DEF Init, NobodyBlocked
<1>2. TypeOK /\ Inv /\ [Next]_vars => Inv'
  <2> SUFFICES ASSUME TypeOK, Inv, [Next]_vars PROVE Inv'
    OBVIOUS
  <2>1. ASSUME NEW r \in Requests, Request(r) PROVE Inv'
    <3>1. left' = 0
      BY <2>1 DEF Request, IsMember, CheckExpiry, FailOpen, Finish, redis
    <3>2. NobodyBlocked'
      BY <2>1 DEF Request, IsMember, CheckExpiry, FailOpen, Finish, Goto,
                  NobodyBlocked, TypeOK
    <3> QED  BY <3>1, <3>2
  <2>2. ASSUME NEW a \in Admins, Execute(a) PROVE Inv'
    <3>1. ~(asked[a] > 0)
      <4>1. asked[a] \in Ttls \cup {0} /\ asked[a] \in Int
        BY AskedIsInt DEF TypeOK
      <4> QED  BY <4>1
    <3>2. left' = 0
      BY <2>2, <3>1, ExecuteCases
    <3>3. pc' = pc
      BY <2>2 DEF Execute, requestVars
    <3> QED  BY <3>2, <3>3 DEF NobodyBlocked
  <2>3. ASSUME NEW a \in Admins,
               \/ BlockIP(a) \/ UnblockIP(a) \/ Resend(a) \/ Acknowledge(a)
               \/ GiveUp(a) \/ Break(a)
        PROVE Inv'
    <3>1. UNCHANGED <<left, pc>>
      BY <2>3 DEF BlockIP, UnblockIP, Start, Resend, Acknowledge, GiveUp,
                  Break, redis, requestVars
    <3> QED  BY <3>1 DEF NobodyBlocked
  <2>4. CASE CleanUp \/ ResendCleanUp \/ CleanUpFails \/ UNCHANGED vars
    <3>1. UNCHANGED <<left, pc>>
      BY <2>4 DEF CleanUp, ResendCleanUp, CleanUpFails, redis, vars
    <3> QED  BY <3>1 DEF NobodyBlocked
  <2>5. ~Tick
    BY DEF Tick
  <2> QED  BY <2>1, <2>2, <2>3, <2>4, <2>5 DEF Next, Admin
<1> QED  BY <1>1, <1>2, Typing, PTL DEF Spec
=============================================================================
