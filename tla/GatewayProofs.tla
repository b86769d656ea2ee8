--------------------------- MODULE GatewayProofs ---------------------------
(* Theorems about Gateway.                                                 *)
(*                                                                         *)
(* The invariant says what has been written and told at each point of the  *)
(* chain (Point), and what the phases of the process leave running         *)
(* (LifeAgrees).  The counters are compared with the requests themselves,  *)
(* so they need nothing but the types and Point.                           *)
EXTENDS Gateway, AuthProofs, FiniteSetTheorems, TLAPS

BeforeProxy == {"idle", "route", "blocklist", "authenticate", "ratelimit",
                "throttled", "breaker"}

\* The breaker has not been asked, or it has been told what was seen.
Judged(r) ==
  \/ told[r] = "nothing"
  \/ /\ told[r] = IF seen[r] >= 500 THEN "failure" ELSE "success"
     /\ seen[r] \in Answers \cup {502}

Point(r) ==
  /\ pc[r] \in BeforeProxy =>
       status[r] = NoStatus /\ seen[r] = 200 /\ told[r] = "nothing"
  /\ pc[r] = "proxy" => status[r] = NoStatus /\ told[r] = "admitted"
  /\ pc[r] \in {"streaming", "record"} =>
       /\ told[r] = "admitted" /\ status[r] = seen[r]
       /\ seen[r] \in Answers \cup {502}
  /\ pc[r] = "return" =>
       /\ status[r] = seen[r] \/ (status[r] = NoStatus /\ seen[r] = 200)
       /\ Judged(r)
  /\ pc[r] = "done" => status[r] = seen[r] /\ Judged(r)
  /\ pc[r] \in {"panicking", "recovering", "recovered"} =>
       told[r] \in {"nothing", "admitted"}

Points == \A r \in Requests : Point(r)

LifeAgrees ==
  /\ phase \in {"closing", "closed", "exited"} => \A r \in Requests : pc[r] \notin Busy
  /\ phase # "failed" => \A r \in Requests : pc[r] # "dropped"
  /\ ~redisOpen => phase \in {"closed", "exited"}

Counts == ActiveIsExact /\ TotalsBalance

\* Before the answer of Authenticate there is no code in it.
Unrefused ==
  \A r \in Requests :
    pc[r] \in {"idle", "route", "blocklist", "authenticate"} => reason[r] = NoReason

Identity == Unrefused /\ GenuinePass /\ FailuresTellReasons

IInv == TypeOK /\ Counts /\ Points /\ LifeAgrees /\ Identity

----------------------------------------------------------------------------
(* The steps of a request between Accept and Return *)

Answering == {"route", "blocklist", "authenticate", "ratelimit", "breaker"}

Edges == {<<"route", "blocklist">>, <<"blocklist", "authenticate">>,
          <<"authenticate", "panicking">>, <<"authenticate", "ratelimit">>,
          <<"ratelimit", "throttled">>, <<"ratelimit", "breaker">>,
          <<"throttled", "breaker">>, <<"throttled", "return">>,
          <<"streaming", "record">>, <<"streaming", "panicking">>}

Refuse(r) == \E from \in Answering, code \in Statuses : Fail(r, from, code)

Move(r) == \E e \in Edges : Pass(r, e[1], e[2])

Admit(r) ==
  /\ Goto(r, "breaker", "proxy")
  /\ told' = [told EXCEPT ![r] = "admitted"]
  /\ UNCHANGED <<status, seen>>

HeaderSent(r) ==
  /\ Goto(r, "proxy", "streaming") \/ Goto(r, "proxy", "record")
  /\ \E code \in Answers \cup {502} : WriteHeader(r, code)
  /\ UNCHANGED told

Within(r) == Refuse(r) \/ Move(r) \/ Admit(r) \/ HeaderSent(r) \/ Record(r)

\* Each of these steps has one of five forms.
LEMMA WithinForms ==
  ASSUME NEW r \in Requests, Layer(r) \/ Backend(r)
  PROVE  Within(r) /\ UNCHANGED <<gone, active, requestsTotal, process>>
<1>1. ASSUME NEW from \in Answering, NEW code \in Statuses, Fail(r, from, code)
      PROVE  Within(r)
  BY <1>1 DEF Within, Refuse
<1>2. ASSUME NEW e \in Edges, Pass(r, e[1], e[2])
      PROVE  Within(r)
  BY <1>2 DEF Within, Move
<1>e. /\ <<"route", "blocklist">> \in Edges
      /\ <<"blocklist", "authenticate">> \in Edges
      /\ <<"authenticate", "panicking">> \in Edges
      /\ <<"authenticate", "ratelimit">> \in Edges
      /\ <<"ratelimit", "throttled">> \in Edges
      /\ <<"ratelimit", "breaker">> \in Edges
      /\ <<"throttled", "breaker">> \in Edges
      /\ <<"throttled", "return">> \in Edges
      /\ <<"streaming", "record">> \in Edges
      /\ <<"streaming", "panicking">> \in Edges
  BY DEF Edges
<1>f. Answering = {"route", "blocklist", "authenticate", "ratelimit", "breaker"}
  BY DEF Answering
<1>3. Route(r) \/ IPBlocklist(r) => Within(r)
  <2>1. Internal(r) \/ NotFound(r) => Within(r)
    BY <1>1, <1>f DEF Internal, NotFound, Statuses
  <2>2. Pass(r, "route", "blocklist") \/ Pass(r, "blocklist", "authenticate")
          => Within(r)
    BY <1>2, <1>e
  <2>3. Fail(r, "blocklist", 403) => Within(r)
    BY <1>1, <1>f DEF Statuses
  <2> QED BY <2>1, <2>2, <2>3 DEF Route, Protected, IPBlocklist
<1>4. Authenticate(r) => Within(r)
  <2>1. ASSUME NEW h \in Headers, HeaderRefused(r, h) \/ TokenRefused(r, h)
        PROVE  Within(r)
    BY <1>1, <1>f, <2>1 DEF HeaderRefused, TokenRefused, Statuses
  <2>2. ASSUME NEW h \in Headers, ClaimsPanic(r, h) \/ Authenticated(r, h)
        PROVE  Within(r)
    BY <1>2, <1>e, <2>2 DEF ClaimsPanic, Authenticated
  <2> QED BY <2>1, <2>2 DEF Authenticate
<1>5. RateLimit(r) \/ EndDelay(r) => Within(r)
  <2>1. Fail(r, "ratelimit", 429) => Within(r)
    BY <1>1, <1>f DEF Statuses
  <2>2. Pass(r, "ratelimit", "throttled") \/ Pass(r, "ratelimit", "breaker")
          => Within(r)
    BY <1>2, <1>e
  <2>3. Pass(r, "throttled", "breaker") \/ Pass(r, "throttled", "return")
          => Within(r)
    BY <1>2, <1>e
  <2> QED BY <2>1, <2>2, <2>3 DEF RateLimit, EndDelay
<1>6. CircuitBreaker(r) \/ Record(r) => Within(r)
  <2>1. Fail(r, "breaker", 503) => Within(r)
    BY <1>1, <1>f DEF Statuses
  <2> QED BY <2>1 DEF CircuitBreaker, Within, Admit
<1>7. Proxy(r) \/ Stream(r) => Within(r)
  <2>1. Proxy(r) => HeaderSent(r)
    BY DEF Proxy, HeaderSent
  <2>2. Stream(r) => Within(r)
    BY <1>2, <1>e DEF Stream
  <2> QED BY <2>1, <2>2 DEF Within
<1> QED BY <1>3, <1>4, <1>5, <1>6, <1>7 DEF Layer, Backend

\* What the types say of one request, and that a step of it leaves the others.
LEMMA OneRequest ==
  ASSUME TypeOK, NEW r \in Requests, NEW from, NEW to, Goto(r, from, to)
  PROVE  /\ Alive /\ pc[r] = from /\ pc'[r] = to
         /\ \A q \in Requests \ {r} : pc'[q] = pc[q]
BY DEF TypeOK, Goto

\* What a first status line leaves, and that it is one request's.
LEMMA Written ==
  ASSUME TypeOK, NEW r \in Requests, NEW code \in Statuses, Sent(r, code)
  PROVE  /\ status' \in [Requests -> Statuses \cup {NoStatus}]
         /\ status'[r] = IF status[r] = NoStatus THEN code ELSE status[r]
         /\ \A q \in Requests \ {r} : status'[q] = status[q]
BY DEF TypeOK, Sent

\* No status code is the 0 that stands for none.
LEMMA StatusesAreCodes ==
  Statuses \subseteq Nat \ {NoStatus} /\ Answers \cup {502} \subseteq Statuses
BY GatewayAssumption DEF Statuses, NoStatus

\* What a recorder has seen is a status code.
LEMMA SeenIsCode ==
  ASSUME TypeOK, NEW r \in Requests
  PROVE  seen[r] \in Statuses /\ seen[r] \in Nat /\ seen[r] # NoStatus
<1>1. seen \in [Requests -> Statuses]
  BY DEF TypeOK
<1> QED BY <1>1, StatusesAreCodes

\* How the sets of places relate.
LEMMA PlacesDiffer ==
  /\ Counted \subseteq Busy /\ Busy \cap Ended = {} /\ "idle" \notin Busy
  /\ "idle" \notin Ended /\ "recovering" \notin Counted
  /\ Answering \subseteq Counted /\ "return" \in Counted
  /\ \A e \in Edges : e[1] \in Counted /\ e[2] \in Counted
  /\ {"proxy", "streaming", "record", "breaker", "panicking", "route"} \subseteq Counted
BY DEF Counted, Busy, Ended, Layers, Waiting, Answering, Edges

----------------------------------------------------------------------------
(* Types *)

\* The variables that have nothing to do with who the user is.
ChainTypes ==
  /\ pc \in [Requests -> {"idle"} \cup Busy \cup Ended]
  /\ status \in [Requests -> Statuses \cup {NoStatus}]
  /\ seen \in [Requests -> Statuses]
  /\ told \in [Requests -> {"nothing", "admitted", "success", "failure"}]
  /\ gone \subseteq Requests
  /\ active \in Nat
  /\ requestsTotal \in [Labels -> [Statuses -> Nat]]
  /\ phase \in {"serving", "draining", "closing", "closed", "exited", "failed"}
  /\ grace \in 0..Grace
  /\ redisOpen \in BOOLEAN

\* The others.
IdentityTypes ==
  /\ internal \subseteq Requests
  /\ user \in [Requests -> SUBSET Token]
  /\ reason \in [Requests -> Reasons \cup {NoReason}]
  /\ authFailures \in [Reasons -> Nat]

LEMMA TypesAreBoth == TypeOK <=> ChainTypes /\ IdentityTypes
BY DEF TypeOK, ChainTypes, IdentityTypes

\* Within the chain the types are kept.
LEMMA WithinTypes ==
  ASSUME TypeOK, NEW r \in Requests, Within(r),
         UNCHANGED <<gone, active, requestsTotal, process>>
  PROVE  ChainTypes'
<1>1. /\ gone' \subseteq Requests /\ active' \in Nat
      /\ requestsTotal' \in [Labels -> [Statuses -> Nat]]
      /\ phase' \in {"serving", "draining", "closing", "closed", "exited", "failed"}
      /\ grace' \in 0..Grace /\ redisOpen' \in BOOLEAN
  BY DEF TypeOK, ChainTypes, process
<1>2. ASSUME NEW from, NEW to \in Busy, Goto(r, from, to)
      PROVE  pc' \in [Requests -> {"idle"} \cup Busy \cup Ended]
  BY <1>2 DEF TypeOK, ChainTypes, Goto
<1>3. CASE Refuse(r)
  <2>1. PICK from \in Answering, code \in Statuses : Fail(r, from, code)
    BY <1>3 DEF Refuse
  <2>2. pc' \in [Requests -> {"idle"} \cup Busy \cup Ended]
    BY <2>1, <1>2, PlacesDiffer DEF Fail
  <2>3. status' \in [Requests -> Statuses \cup {NoStatus}]
    BY <2>1, Written DEF Fail, WriteHeader
  <2>4. /\ seen' \in [Requests -> Statuses]
        /\ told' \in [Requests -> {"nothing", "admitted", "success", "failure"}]
    BY <2>1 DEF Fail, WriteHeader, TypeOK
  <2> QED BY <1>1, <2>2, <2>3, <2>4 DEF TypeOK, ChainTypes
<1>4. CASE Move(r)
  <2>1. PICK e \in Edges : Pass(r, e[1], e[2])
    BY <1>4 DEF Move
  <2>2. pc' \in [Requests -> {"idle"} \cup Busy \cup Ended]
    BY <2>1, <1>2, PlacesDiffer DEF Pass
  <2> QED BY <1>1, <2>1, <2>2 DEF TypeOK, ChainTypes, Pass, perRequest
<1>5. CASE Admit(r)
  <2>1. pc' \in [Requests -> {"idle"} \cup Busy \cup Ended]
    BY <1>5, <1>2, PlacesDiffer DEF Admit
  <2> QED BY <1>1, <1>5, <2>1 DEF TypeOK, ChainTypes, Admit
<1>6. CASE HeaderSent(r)
  <2>1. PICK code \in Answers \cup {502} : WriteHeader(r, code)
    BY <1>6 DEF HeaderSent
  <2>2. code \in Statuses
    BY StatusesAreCodes
  <2>3. pc' \in [Requests -> {"idle"} \cup Busy \cup Ended]
    BY <1>6, <1>2, PlacesDiffer DEF HeaderSent
  <2>4. status' \in [Requests -> Statuses \cup {NoStatus}]
    BY <2>1, <2>2, Written DEF WriteHeader
  <2> QED BY <1>1, <1>6, <2>1, <2>2, <2>3, <2>4 DEF TypeOK, ChainTypes, HeaderSent, WriteHeader
<1>7. CASE Record(r)
  <2>1. pc' \in [Requests -> {"idle"} \cup Busy \cup Ended]
    BY <1>7, <1>2, PlacesDiffer DEF Record
  <2> QED BY <1>1, <1>7, <2>1 DEF TypeOK, ChainTypes, Record
<1> QED BY <1>3, <1>4, <1>5, <1>6, <1>7 DEF Within

\* A request in the chain is counted by the gauge, so that Dec does not reach
\* below zero.
LEMMA GaugeIsPositive ==
  ASSUME TypeOK, ActiveIsExact, Alive, NEW r \in Requests, pc[r] \in Counted
  PROVE  active \in Nat \ {0}
<1>1. IsFiniteSet(InFlight)
  BY GatewayAssumption, FS_Subset DEF InFlight
<1>2. r \in InFlight
  BY DEF InFlight
<1> QED BY <1>1, <1>2, FS_EmptySet DEF ActiveIsExact, TypeOK

\* Every step keeps the types of the chain.
LEMMA StepChainTypes ==
  ASSUME TypeOK, ActiveIsExact, [Next]_vars
  PROVE  ChainTypes'
<1>1. ASSUME NEW r \in Requests, Accept(r)
      PROVE  ChainTypes'
  BY <1>1, PlacesDiffer DEF Accept, Goto, TypeOK, ChainTypes, perRequest, process
<1>2. ASSUME NEW r \in Requests, Layer(r) \/ Backend(r)
      PROVE  ChainTypes'
  BY <1>2, WithinForms, WithinTypes
<1>3. ASSUME NEW r \in Requests, Return(r)
      PROVE  ChainTypes'
  <2>1. active - 1 \in Nat
    BY <1>3, GaugeIsPositive, PlacesDiffer DEF Return, Goto
  <2>2. status' \in [Requests -> Statuses \cup {NoStatus}]
    BY <1>3, Written DEF Return, Statuses
  <2>3. requestsTotal' \in [Labels -> [Statuses -> Nat]]
    <3>1. resolveTierLabel(r) \in Labels
      BY DEF resolveTierLabel, Labels
    <3>2. seen[r] \in Statuses
      BY DEF TypeOK
    <3>3. \A label \in Labels : requestsTotal[label] \in [Statuses -> Nat]
      BY DEF TypeOK
    <3> QED BY <1>3, <3>1, <3>2, <3>3 DEF Return, TypeOK
  <2>4. pc' \in [Requests -> {"idle"} \cup Busy \cup Ended]
    BY <1>3 DEF Return, Goto, TypeOK, ChainTypes, Ended
  <2> QED BY <1>3, <2>1, <2>2, <2>3, <2>4 DEF Return, TypeOK, ChainTypes, process
<1>4. ASSUME NEW r \in Requests, Unwind(r)
      PROVE  ChainTypes'
  <2>1. active - 1 \in Nat
    BY <1>4, GaugeIsPositive, PlacesDiffer DEF Unwind, Pass, Goto
  <2> QED BY <1>4, <2>1 DEF Unwind, Pass, Goto, TypeOK, ChainTypes, process, perRequest, Busy
<1>5. ASSUME NEW r \in Requests, Recover(r)
      PROVE  ChainTypes'
  <2>1. status' \in [Requests -> Statuses \cup {NoStatus}]
    BY <1>5, Written DEF Recover, Statuses
  <2> QED BY <1>5, <2>1 DEF Recover, Goto, TypeOK, ChainTypes, process, Ended
<1>6. ASSUME NEW r \in Requests, Disconnect(r)
      PROVE  ChainTypes'
  BY <1>6 DEF Disconnect, TypeOK, ChainTypes, process, perRequest
<1>7. CASE Signal \/ Drained \/ Close \/ Tick
  <2>1. UNCHANGED <<pc, status, seen, told, gone, active, requestsTotal>>
    BY <1>7 DEF Signal, Drained, Close, Tick, perRequest, requests
  <2>2. phase' \in {"serving", "draining", "closing", "closed", "exited", "failed"}
    BY <1>7 DEF Signal, Drained, Close, Tick, TypeOK
  <2>3. grace' \in 0..Grace
    <3>1. CASE Tick
      BY <3>1, GatewayAssumption DEF Tick, TypeOK
    <3> QED BY <1>7, <3>1 DEF Signal, Drained, Close, TypeOK
  <2>4. redisOpen' \in BOOLEAN
    BY <1>7 DEF Signal, Drained, Close, Tick, TypeOK
  <2> QED BY <2>1, <2>2, <2>3, <2>4 DEF TypeOK, ChainTypes
<1>8. Dropped \in [Requests -> {"idle"} \cup Busy \cup Ended]
  BY DEF Dropped, TypeOK, ChainTypes, Ended
<1>9. CASE Exit \/ ListenFails \/ GraceOver
  BY <1>8, <1>9 DEF Exit, ListenFails, GraceOver, Fatal, TypeOK, ChainTypes, perRequest, requests
<1>10. CASE UNCHANGED vars
  BY <1>10 DEF vars, TypeOK, ChainTypes, requests, perRequest, process
<1> QED BY <1>1, <1>2, <1>3, <1>4, <1>5, <1>6, <1>7, <1>9, <1>10
        DEF Next, Handler

----------------------------------------------------------------------------
(* What has been written and told *)

\* A step of one request keeps what holds of another.
LEMMA OtherPoints ==
  ASSUME NEW q \in Requests, Point(q), pc'[q] = pc[q], status'[q] = status[q],
         seen'[q] = seen[q], told'[q] = told[q]
  PROVE  Point(q)'
BY DEF Point, Judged

\* Within the chain a request comes from one point to the next as Point says.
LEMMA WithinPoints ==
  ASSUME TypeOK, Points, NEW r \in Requests, Within(r)
  PROVE  Points'
<1>0. Point(r)
  BY DEF Points
<1>1. ASSUME NEW q \in Requests \ {r}
      PROVE  Point(q)'
  <2>1. pc'[q] = pc[q] /\ status'[q] = status[q] /\ seen'[q] = seen[q]
        /\ told'[q] = told[q]
    BY DEF Within, Refuse, Move, Admit, HeaderSent, Record, Fail, Pass, Goto, Sent,
           WriteHeader, TypeOK, perRequest
  <2> QED BY <2>1, OtherPoints DEF Points
<1>2. CASE Refuse(r)
  <2>1. PICK from \in Answering, code \in Statuses : Fail(r, from, code)
    BY <1>2 DEF Refuse
  <2>2. /\ pc[r] = from /\ pc'[r] = "return"
        /\ status'[r] = IF status[r] = NoStatus THEN code ELSE status[r]
        /\ seen'[r] = code /\ told'[r] = told[r]
    BY <2>1, OneRequest, Written DEF Fail, WriteHeader, TypeOK
  <2>3. status[r] = NoStatus /\ told[r] = "nothing"
    BY <1>0, <2>2 DEF Point, BeforeProxy, Answering
  <2> QED BY <1>1, <2>2, <2>3 DEF Points, Point, Judged, BeforeProxy
<1>3. CASE Move(r)
  <2>1. PICK e \in Edges : Pass(r, e[1], e[2])
    BY <1>3 DEF Move
  <2>2. /\ pc[r] = e[1] /\ pc'[r] = e[2]
        /\ status'[r] = status[r] /\ seen'[r] = seen[r] /\ told'[r] = told[r]
    BY <2>1, OneRequest DEF Pass, perRequest
  <2> QED BY <1>0, <1>1, <2>2 DEF Points, Point, Judged, BeforeProxy, Edges
<1>4. CASE Admit(r)
  <2>1. /\ pc[r] = "breaker" /\ pc'[r] = "proxy" /\ told'[r] = "admitted"
        /\ status'[r] = status[r]
    BY <1>4, OneRequest DEF Admit, TypeOK
  <2> QED BY <1>0, <1>1, <2>1 DEF Points, Point, BeforeProxy
<1>5. CASE HeaderSent(r)
  <2>1. PICK code \in Answers \cup {502} : WriteHeader(r, code)
    BY <1>5 DEF HeaderSent
  <2>2. code \in Statuses
    BY StatusesAreCodes
  <2>3. /\ pc[r] = "proxy" /\ pc'[r] \in {"streaming", "record"}
        /\ told'[r] = told[r]
    BY <1>5, OneRequest DEF HeaderSent
  <2>4. /\ status'[r] = IF status[r] = NoStatus THEN code ELSE status[r]
        /\ seen'[r] = code
    BY <2>1, <2>2, Written DEF WriteHeader, TypeOK
  <2> QED BY <1>0, <1>1, <2>3, <2>4 DEF Points, Point, BeforeProxy
<1>6. CASE Record(r)
  <2>1. /\ pc[r] = "record" /\ pc'[r] = "return"
        /\ status'[r] = status[r] /\ seen'[r] = seen[r]
        /\ told'[r] = IF seen[r] >= 500 THEN "failure" ELSE "success"
    BY <1>6, OneRequest DEF Record, TypeOK
  <2> QED BY <1>0, <1>1, <2>1 DEF Points, Point, Judged, BeforeProxy
<1> QED BY <1>2, <1>3, <1>4, <1>5, <1>6 DEF Within

\* The end of the process says nothing new of a request.
LEMMA DroppedPoints ==
  ASSUME TypeOK, Points, pc' = Dropped, UNCHANGED perRequest
  PROVE  Points'
<1>1. ASSUME NEW q \in Requests
      PROVE  Point(q)'
  <2>1. CASE pc[q] \in Busy
    <3>1. pc'[q] = "dropped"
      BY <2>1 DEF Dropped
    <3> QED BY <3>1 DEF Point, BeforeProxy
  <2>2. CASE pc[q] \notin Busy
    <3>1. pc'[q] = pc[q]
      BY <2>2 DEF Dropped
    <3> QED BY <3>1, OtherPoints DEF perRequest, Points
  <2> QED BY <2>1, <2>2
<1> QED BY <1>1 DEF Points

\* Every step keeps what each point of the chain says.
LEMMA StepPoints ==
  ASSUME TypeOK, Points, [Next]_vars
  PROVE  Points'
<1>1. ASSUME NEW r \in Requests, Accept(r)
      PROVE  Points'
  <2>1. /\ pc[r] = "idle" /\ pc'[r] = "route"
        /\ \A q \in Requests \ {r} : pc'[q] = pc[q]
        /\ UNCHANGED perRequest
    BY <1>1, OneRequest DEF Accept
  <2> QED BY <2>1 DEF Points, Point, Judged, BeforeProxy, perRequest
<1>2. ASSUME NEW r \in Requests, Layer(r) \/ Backend(r)
      PROVE  Points'
  BY <1>2, WithinForms, WithinPoints
<1>3. ASSUME NEW r \in Requests, Return(r)
      PROVE  Points'
  <2>1. /\ pc[r] = "return" /\ pc'[r] = "done"
        /\ \A q \in Requests \ {r} : pc'[q] = pc[q]
    BY <1>3, OneRequest DEF Return
  <2>2. /\ status'[r] = IF status[r] = NoStatus THEN 200 ELSE status[r]
        /\ \A q \in Requests \ {r} : status'[q] = status[q]
    BY <1>3, Written DEF Return, Statuses
  <2>3. UNCHANGED <<seen, told>>
    BY <1>3 DEF Return
  <2>4. status[r] = seen[r] \/ (status[r] = NoStatus /\ seen[r] = 200)
    BY <2>1 DEF Points, Point
  <2>5. seen[r] # NoStatus
    BY SeenIsCode
  <2>6. Point(r)'
    BY <2>1, <2>2, <2>3, <2>4, <2>5 DEF Points, Point, Judged, BeforeProxy
  <2>7. \A q \in Requests \ {r} : Point(q)'
    BY <2>1, <2>2, <2>3, OtherPoints DEF Points
  <2> QED BY <2>6, <2>7 DEF Points
<1>4. ASSUME NEW r \in Requests, Unwind(r)
      PROVE  Points'
  <2>1. /\ pc[r] = "panicking" /\ pc'[r] = "recovering"
        /\ \A q \in Requests \ {r} : pc'[q] = pc[q]
        /\ UNCHANGED perRequest
    BY <1>4, OneRequest DEF Unwind, Pass
  <2> QED BY <2>1 DEF Points, Point, Judged, BeforeProxy, perRequest
<1>5. ASSUME NEW r \in Requests, Recover(r)
      PROVE  Points'
  <2>1. /\ pc[r] = "recovering" /\ pc'[r] = "recovered"
        /\ \A q \in Requests \ {r} : pc'[q] = pc[q]
    BY <1>5, OneRequest DEF Recover
  <2>2. \A q \in Requests \ {r} : status'[q] = status[q]
    BY <1>5, Written DEF Recover, Statuses
  <2>3. UNCHANGED <<seen, told>>
    BY <1>5 DEF Recover
  <2>4. Point(r)'
    BY <2>1, <2>3 DEF Points, Point, BeforeProxy
  <2>5. \A q \in Requests \ {r} : Point(q)'
    BY <2>1, <2>2, <2>3, OtherPoints DEF Points
  <2> QED BY <2>4, <2>5 DEF Points
<1>6. ASSUME UNCHANGED <<pc, perRequest>>
      PROVE  Points'
  BY <1>6 DEF Points, Point, Judged, perRequest
<1>7. CASE \E r \in Requests : Disconnect(r)
  BY <1>6, <1>7 DEF Disconnect
<1>8. CASE Signal \/ Drained \/ Close \/ Tick \/ UNCHANGED vars
  BY <1>6, <1>8 DEF Signal, Drained, Close, Tick, vars, perRequest, requests
<1>9. CASE Exit \/ ListenFails \/ GraceOver
  BY <1>9, DroppedPoints DEF Exit, ListenFails, GraceOver, Fatal, requests
<1> QED BY <1>1, <1>2, <1>3, <1>4, <1>5, <1>7, <1>8, <1>9 DEF Next, Handler

----------------------------------------------------------------------------
(* Who the user is *)

Early == {"idle", "route", "blocklist", "authenticate"}
Behind == {"ratelimit", "throttled", "breaker", "record"} \cup Waiting

\* What a step of the chain does to the identity, by the place it starts from.
LEMMA IdentityForms ==
  ASSUME TypeOK, NEW r \in Requests, Layer(r) \/ Backend(r)
  PROVE  \/ /\ pc[r] = "blocklist" /\ pc'[r] \in {"return", "authenticate"}
            /\ UNCHANGED <<identity, told>>
         \/ /\ pc[r] \in Behind /\ pc'[r] \notin Early
            /\ UNCHANGED identity
         \/ /\ pc[r] = "route" /\ pc'[r] \in {"return", "blocklist"}
            /\ internal' \in {internal, internal \cup {r}}
            /\ UNCHANGED <<user, reason, authFailures, told>>
         \/ /\ pc[r] = "authenticate" /\ pc'[r] = "return"
            /\ \E code \in Reasons : Count(code) /\ Tell(r, code)
            /\ UNCHANGED <<internal, user, told>>
         \/ /\ pc[r] = "authenticate" /\ pc'[r] = "panicking"
            /\ UNCHANGED <<identity, told>>
         \/ /\ pc[r] = "authenticate" /\ pc'[r] = "ratelimit"
            /\ \E t \in Token : Genuine(t) /\ user' = [user EXCEPT ![r] = {t}]
            /\ UNCHANGED <<internal, reason, authFailures, told>>
<1>1. CASE Route(r) /\ UNCHANGED <<gone, active, requestsTotal, process>>
  <2>1. pc[r] = "route" /\ pc'[r] \in {"return", "blocklist"} /\ told' = told
    BY <1>1, OneRequest DEF Route, Internal, NotFound, Protected, Fail, Pass, perRequest
  <2>2. /\ internal' \in {internal, internal \cup {r}}
        /\ UNCHANGED <<user, reason, authFailures>>
    BY <1>1 DEF Route, Internal, NotFound, Protected
  <2> QED BY <2>1, <2>2
<1>2. ASSUME NEW h \in Headers, HeaderRefused(r, h), internal' = internal
      PROVE  /\ pc[r] = "authenticate" /\ pc'[r] = "return"
             /\ \E code \in Reasons : Count(code) /\ Tell(r, code)
             /\ UNCHANGED <<internal, user, told>>
  BY <1>2, OneRequest DEF HeaderRefused, Fail, Reasons
<1>3. ASSUME NEW h \in Headers, TokenRefused(r, h), internal' = internal
      PROVE  /\ pc[r] = "authenticate" /\ pc'[r] = "return"
             /\ \E code \in Reasons : Count(code) /\ Tell(r, code)
             /\ UNCHANGED <<internal, user, told>>
  <2>1. h.token \in Token
    BY GatewayAssumption DEF Header
  <2>2. /\ classifyAuthError(Validate(h.token)) = writeAuthError(Validate(h.token))
        /\ writeAuthError(Validate(h.token)) \in Reasons
    BY <1>3, <2>1, ToldAlike DEF TokenRefused
  <2> QED BY <1>3, <2>2, OneRequest DEF TokenRefused, Fail
<1>4. ASSUME NEW h \in Headers, ClaimsPanic(r, h), internal' = internal
      PROVE  /\ pc[r] = "authenticate" /\ pc'[r] = "panicking"
             /\ UNCHANGED <<identity, told>>
  BY <1>4, OneRequest DEF ClaimsPanic, Pass, perRequest, identity
<1>5. ASSUME NEW h \in Headers, Authenticated(r, h), internal' = internal
      PROVE  /\ pc[r] = "authenticate" /\ pc'[r] = "ratelimit"
             /\ \E t \in Token : Genuine(t) /\ user' = [user EXCEPT ![r] = {t}]
             /\ UNCHANGED <<internal, reason, authFailures, told>>
  <2>1. h.token \in Token
    BY GatewayAssumption DEF Header
  <2>2. Genuine(h.token)
    BY <1>5, <2>1, ValidateIsExact DEF Authenticated
  <2> QED BY <1>5, <2>1, <2>2, OneRequest DEF Authenticated, Pass, perRequest
<1>6. CASE IPBlocklist(r) /\ UNCHANGED identity
  BY <1>6, OneRequest DEF IPBlocklist, Fail, Pass, perRequest
<1>7. CASE (RateLimit(r) \/ EndDelay(r) \/ CircuitBreaker(r) \/ Record(r))
           /\ UNCHANGED identity
  BY <1>7, OneRequest DEF RateLimit, EndDelay, CircuitBreaker, Record, Fail, Pass,
                          Behind, Early
<1>8. CASE (Proxy(r) \/ Stream(r)) /\ UNCHANGED identity
  BY <1>8, OneRequest DEF Proxy, Stream, Pass, Behind, Early, Waiting
<1>9. CASE Authenticate(r)
  BY <1>2, <1>3, <1>4, <1>5, <1>9 DEF Authenticate
<1> QED BY <1>1, <1>6, <1>7, <1>8, <1>9 DEF Layer, Backend

\* The other steps have nothing to do with it.
LEMMA OtherSteps ==
  ASSUME TypeOK, [Next]_vars, \A r \in Requests : ~Layer(r) /\ ~Backend(r)
  PROVE  /\ UNCHANGED <<internal, user, reason, authFailures, told>>
         /\ \A q \in Requests :
              \/ pc'[q] = pc[q]
              \/ pc'[q] \in {"done", "recovering", "recovered", "dropped"}
              \/ pc[q] = "idle" /\ pc'[q] = "route"
<1>1. ASSUME NEW r \in Requests, Accept(r) \/ Return(r) \/ Unwind(r) \/ Recover(r)
      PROVE  /\ UNCHANGED <<internal, user, reason, authFailures, told>>
             /\ \A q \in Requests :
                  \/ pc'[q] = pc[q]
                  \/ pc'[q] \in {"done", "recovering", "recovered", "dropped"}
                  \/ pc[q] = "idle" /\ pc'[q] = "route"
  <2>1. UNCHANGED <<internal, user, reason, authFailures, told>>
    BY <1>1 DEF Accept, Return, Unwind, Recover, Pass, perRequest, identity
  <2>2. \/ Goto(r, "idle", "route") \/ Goto(r, "return", "done")
        \/ Goto(r, "panicking", "recovering") \/ Goto(r, "recovering", "recovered")
    BY <1>1 DEF Accept, Return, Unwind, Recover, Pass
  <2> QED BY <2>1, <2>2, OneRequest
<1>2. CASE (\E r \in Requests : Disconnect(r)) \/ Signal \/ Drained \/ Close \/ Tick
           \/ UNCHANGED vars
  BY <1>2 DEF Disconnect, Signal, Drained, Close, Tick, vars, requests, perRequest, identity
<1>3. CASE Exit \/ ListenFails \/ GraceOver
  BY <1>3 DEF Exit, ListenFails, GraceOver, Fatal, Dropped, requests, perRequest,
              identity
<1> QED BY <1>1, <1>2, <1>3 DEF Next, Handler

\* A step of the chain is a step of one request.
LEMMA OthersStay ==
  ASSUME TypeOK, NEW r \in Requests, Layer(r) \/ Backend(r)
  PROVE  \A q \in Requests \ {r} : pc'[q] = pc[q] /\ told'[q] = told[q]
<1>1. Within(r)
  BY WithinForms
<1> QED
  BY <1>1, OneRequest DEF Within, Refuse, Move, Admit, HeaderSent, Record, Fail, Pass,
     WriteHeader, perRequest, TypeOK

LEMMA StepIdentityTypes ==
  ASSUME TypeOK, [Next]_vars
  PROVE  IdentityTypes'
<1>1. ASSUME NEW r \in Requests, Layer(r) \/ Backend(r)
      PROVE  IdentityTypes'
  <2>1. ASSUME NEW code \in Reasons, Count(code), Tell(r, code),
               UNCHANGED <<internal, user>>
        PROVE  IdentityTypes'
    BY <2>1 DEF TypeOK, IdentityTypes, Count, Tell
  <2>2. ASSUME NEW t \in Token, user' = [user EXCEPT ![r] = {t}],
               UNCHANGED <<internal, reason, authFailures>>
        PROVE  IdentityTypes'
    BY <2>2 DEF TypeOK, IdentityTypes
  <2>3. ASSUME internal' \in {internal, internal \cup {r}},
               UNCHANGED <<user, reason, authFailures>>
        PROVE  IdentityTypes'
    BY <2>3 DEF TypeOK, IdentityTypes
  <2> QED BY <1>1, <2>1, <2>2, <2>3, IdentityForms DEF identity
<1>2. CASE \A r \in Requests : ~Layer(r) /\ ~Backend(r)
  BY <1>2, OtherSteps DEF TypeOK, IdentityTypes
<1> QED BY <1>1, <1>2

\* Every step keeps the types.
LEMMA StepTypes ==
  ASSUME TypeOK, ActiveIsExact, [Next]_vars
  PROVE  TypeOK'
BY StepChainTypes, StepIdentityTypes DEF TypeOK, ChainTypes, IdentityTypes

\* Nobody comes past authentication but by a genuine token.
LEMMA StepGenuine ==
  ASSUME TypeOK, GenuinePass, [Next]_vars
  PROVE  GenuinePass'
<1> SUFFICES ASSUME NEW q \in Requests,
                    pc'[q] \in Behind \/ told'[q] # "nothing"
             PROVE  \E t \in user'[q] : Genuine(t)
  BY DEF GenuinePass, Behind
<1>1. pc[q] \in Behind \/ told[q] # "nothing" => \E t \in user[q] : Genuine(t)
  BY DEF GenuinePass, Behind
<1>2. ASSUME NEW r \in Requests, Layer(r) \/ Backend(r)
      PROVE  \E t \in user'[q] : Genuine(t)
  <2>1. user'[q] = user[q] \/ \E t \in Token : Genuine(t) /\ user'[q] = {t}
    BY <1>2, IdentityForms DEF identity, TypeOK
  <2>2. CASE q # r
    <3>1. pc'[q] = pc[q] /\ told'[q] = told[q]
      BY <1>2, <2>2, OthersStay
    <3> QED BY <1>1, <2>1, <3>1
  <2>3. CASE q = r /\ user'[q] = user[q]
    <3>1. pc[q] \in Behind \/ told[q] # "nothing" \/ \E t \in Token :
            Genuine(t) /\ user' = [user EXCEPT ![r] = {t}]
      BY <1>2, <2>3, IdentityForms DEF Behind, Waiting
    <3> QED BY <1>1, <2>3, <3>1 DEF TypeOK
  <2> QED BY <2>1, <2>2, <2>3
<1>3. CASE \A r \in Requests : ~Layer(r) /\ ~Backend(r)
  <2>1. /\ user' = user /\ told' = told
        /\ pc'[q] = pc[q] \/ pc'[q] \notin Behind
    BY <1>3, OtherSteps DEF Behind, Waiting
  <2> QED BY <1>1, <2>1
<1> QED BY <1>2, <1>3

LEMMA StepUnrefused ==
  ASSUME TypeOK, Unrefused, [Next]_vars
  PROVE  Unrefused'
<1> SUFFICES ASSUME NEW q \in Requests, pc'[q] \in Early
             PROVE  reason'[q] = NoReason
  BY DEF Unrefused, Early
<1>1. pc[q] \in Early => reason[q] = NoReason
  BY DEF Unrefused, Early
<1>2. ASSUME NEW r \in Requests, Layer(r) \/ Backend(r)
      PROVE  reason'[q] = NoReason
  <2>1. CASE q # r
    <3>1. pc'[q] = pc[q]
      BY <1>2, <2>1, OthersStay
    <3>2. reason'[q] = reason[q]
      BY <1>2, <2>1, IdentityForms DEF identity, Tell, TypeOK
    <3> QED BY <1>1, <3>1, <3>2
  <2>2. CASE q = r
    <3>1. pc[q] \in Early /\ reason' = reason
      BY <1>2, <2>2, IdentityForms DEF identity, Early
    <3> QED BY <1>1, <3>1
  <2> QED BY <2>1, <2>2
<1>3. CASE \A r \in Requests : ~Layer(r) /\ ~Backend(r)
  BY <1>1, <1>3, OtherSteps DEF Early
<1> QED BY <1>2, <1>3

\* A refusal is counted where it is told.
LEMMA RefusalIsCounted ==
  ASSUME TypeOK, FailuresTellReasons, NEW r \in Requests, reason[r] = NoReason,
         NEW code \in Reasons, Count(code), Tell(r, code)
  PROVE  FailuresTellReasons'
<1>0. NoReason \notin Reasons
  BY DEF NoReason, Reasons
<1>1. ASSUME NEW c \in Reasons
      PROVE  authFailures'[c] = Cardinality(Refused(c)')
  <2>1. IsFiniteSet(Refused(c)) /\ r \notin Refused(c)
    BY <1>0, GatewayAssumption, FS_Subset DEF Refused
  <2>2. CASE c = code
    <3>1. Refused(c)' = Refused(c) \cup {r}
      BY <2>2 DEF Refused, Tell, TypeOK
    <3>2. Cardinality(Refused(c)') = Cardinality(Refused(c)) + 1
      BY <2>1, <3>1, FS_AddElement
    <3> QED BY <2>2, <3>2 DEF Count, TypeOK, FailuresTellReasons
  <2>3. CASE c # code
    <3>1. Refused(c)' = Refused(c)
      BY <1>0, <2>3 DEF Refused, Tell, TypeOK
    <3> QED BY <2>3, <3>1 DEF Count, TypeOK, FailuresTellReasons
  <2> QED BY <2>2, <2>3
<1> QED BY <1>1 DEF FailuresTellReasons

LEMMA StepIdentity ==
  ASSUME TypeOK, Identity, [Next]_vars
  PROVE  Identity'
<1>1. ASSUME UNCHANGED <<reason, authFailures>>
      PROVE  FailuresTellReasons'
  BY <1>1 DEF Identity, FailuresTellReasons, Refused
<1>2. ASSUME NEW r \in Requests, Layer(r) \/ Backend(r)
      PROVE  FailuresTellReasons'
  <2>1. CASE UNCHANGED <<reason, authFailures>>
    BY <1>1, <2>1
  <2>2. CASE ~UNCHANGED <<reason, authFailures>>
    <3>1. /\ pc[r] = "authenticate"
          /\ \E code \in Reasons : Count(code) /\ Tell(r, code)
      BY <1>2, <2>2, IdentityForms DEF identity
    <3>2. reason[r] = NoReason
      BY <3>1 DEF Identity, Unrefused
    <3> QED BY <3>1, <3>2, RefusalIsCounted DEF Identity
  <2> QED BY <2>1, <2>2
<1>3. ASSUME \A r \in Requests : ~Layer(r) /\ ~Backend(r)
      PROVE  FailuresTellReasons'
  <2>1. UNCHANGED <<reason, authFailures>>
    BY <1>3, OtherSteps
  <2> QED BY <1>1, <2>1
<1>4. FailuresTellReasons'
  BY <1>2, <1>3
<1> QED BY <1>4, StepGenuine, StepUnrefused DEF Identity

----------------------------------------------------------------------------
(* The gauge and the totals *)

\* Within the chain a request stays counted and is not done.
LEMMA WithinStaysIn ==
  ASSUME TypeOK, NEW r \in Requests, Within(r)
  PROVE  /\ Alive /\ InFlight' = InFlight
         /\ \A s \in Statuses : Done(s)' = Done(s)
<1>1. /\ Alive /\ pc[r] \in Counted /\ pc'[r] \in Counted
      /\ \A q \in Requests \ {r} : pc'[q] = pc[q]
  <2>1. CASE Refuse(r)
    BY <2>1, OneRequest, PlacesDiffer DEF Refuse, Fail
  <2>2. CASE Move(r)
    BY <2>2, OneRequest, PlacesDiffer DEF Move, Pass
  <2>3. CASE Admit(r) \/ HeaderSent(r) \/ Record(r)
    BY <2>3, OneRequest, PlacesDiffer DEF Admit, HeaderSent, Record
  <2> QED BY <2>1, <2>2, <2>3 DEF Within
<1>2. \A q \in Requests \ {r} : status'[q] = status[q]
  BY DEF Within, Refuse, Move, Admit, HeaderSent, Record, Fail, Pass, Sent,
         WriteHeader, TypeOK, perRequest
<1>3. "done" \notin Counted
  BY PlacesDiffer DEF Ended
<1> QED BY <1>1, <1>2, <1>3 DEF InFlight, Done

\* A request that leaves the chain leaves the gauge.
LEMMA LeavingIsCounted ==
  ASSUME TypeOK, ActiveIsExact, NEW r \in Requests, NEW from \in Counted, NEW to,
         to \notin Counted, Goto(r, from, to), active' = active - 1
  PROVE  ActiveIsExact'
<1>1. /\ Alive /\ pc[r] = from /\ pc'[r] = to
      /\ \A q \in Requests \ {r} : pc'[q] = pc[q]
  BY OneRequest
<1>2. InFlight' = InFlight \ {r} /\ r \in InFlight
  BY <1>1 DEF InFlight
<1>3. IsFiniteSet(InFlight)
  BY GatewayAssumption, FS_Subset DEF InFlight
<1>4. Cardinality(InFlight') = Cardinality(InFlight) - 1
  BY <1>2, <1>3, FS_RemoveElement
<1> QED BY <1>1, <1>4 DEF ActiveIsExact

\* A step that keeps the requests that are done, and whether they were internal,
\* keeps the totals.
LEMMA TotalsKept ==
  ASSUME TotalsBalance, requestsTotal' = requestsTotal,
         \A s \in Statuses : Done(s)' = Done(s),
         \A q \in Requests : pc[q] = "done" => (q \in internal' <=> q \in internal)
  PROVE  TotalsBalance'
<1>1. ASSUME NEW s \in Statuses
      PROVE  /\ Done(s)' \cap internal' = Done(s) \cap internal
             /\ Done(s)' \ internal' = Done(s) \ internal
  BY DEF Done
<1> QED BY <1>1 DEF TotalsBalance

\* A request that returns is counted under the status its client was sent.
LEMMA ReturnCounts ==
  ASSUME TypeOK, Points, TotalsBalance, NEW r \in Requests, Return(r)
  PROVE  TotalsBalance'
<1>1. /\ pc[r] = "return" /\ pc'[r] = "done"
      /\ \A q \in Requests \ {r} : pc'[q] = pc[q]
  BY OneRequest DEF Return
<1>2. /\ status'[r] = IF status[r] = NoStatus THEN 200 ELSE status[r]
      /\ \A q \in Requests \ {r} : status'[q] = status[q]
  BY Written DEF Return, Statuses
<1>3. status'[r] = seen[r] /\ seen[r] \in Statuses
  <2>1. status[r] = seen[r] \/ (status[r] = NoStatus /\ seen[r] = 200)
    BY <1>1 DEF Points, Point
  <2>2. seen[r] \in Statuses /\ seen[r] # NoStatus
    BY SeenIsCode
  <2> QED BY <1>2, <2>1, <2>2
<1>4. /\ internal' = internal
      /\ r \in internal => resolveTierLabel(r) = "internal"
      /\ r \notin internal => resolveTierLabel(r) = "unauthenticated"
  BY DEF Return, identity, resolveTierLabel, GetUserContext, Waiting
<1>5. ASSUME NEW label \in Labels, NEW s \in Statuses
      PROVE  /\ requestsTotal[label][s] \in Nat
             /\ requestsTotal'[label][s] =
                  IF label = resolveTierLabel(r) /\ s = seen[r]
                    THEN requestsTotal[label][s] + 1 ELSE requestsTotal[label][s]
  <2>1. requestsTotal[label] \in [Statuses -> Nat]
    BY DEF TypeOK
  <2>2. requestsTotal' = [requestsTotal EXCEPT ![resolveTierLabel(r)][seen[r]] = @ + 1]
    BY DEF Return
  <2>3. requestsTotal \in [Labels -> [Statuses -> Nat]]
    BY DEF TypeOK
  <2> QED BY <2>1, <2>2, <2>3
<1>6. ASSUME NEW s \in Statuses
      PROVE  /\ requestsTotal'["internal"][s] = Cardinality(Done(s)' \cap internal')
             /\ requestsTotal'["unauthenticated"][s] + requestsTotal'["tier"][s] =
                  Cardinality(Done(s)' \ internal')
  <2>1. /\ IsFiniteSet(Done(s) \cap internal) /\ IsFiniteSet(Done(s) \ internal)
        /\ r \notin Done(s)
    BY <1>1, GatewayAssumption, FS_Subset DEF Done
  <2>2. Done(s)' = IF s = seen[r] THEN Done(s) \cup {r} ELSE Done(s)
    BY <1>1, <1>2, <1>3 DEF Done
  <2>3. /\ requestsTotal["internal"][s] = Cardinality(Done(s) \cap internal)
        /\ requestsTotal["unauthenticated"][s] + requestsTotal["tier"][s] =
             Cardinality(Done(s) \ internal)
    BY DEF TotalsBalance
  <2>4. {"internal", "unauthenticated", "tier"} = Labels
    BY DEF Labels
  <2>5. CASE s # seen[r]
    <3>1. \A label \in Labels : requestsTotal'[label][s] = requestsTotal[label][s]
      BY <1>5, <2>5
    <3> QED BY <1>4, <2>2, <2>3, <2>4, <2>5, <3>1
  <2>6. CASE s = seen[r] /\ r \in internal
    <3>1. /\ Done(s)' \cap internal' = (Done(s) \cap internal) \cup {r}
          /\ Done(s)' \ internal' = Done(s) \ internal
      BY <1>4, <2>2, <2>6
    <3>2. Cardinality((Done(s) \cap internal) \cup {r}) = Cardinality(Done(s) \cap internal) + 1
      BY <2>1, FS_AddElement
    <3>3. /\ requestsTotal'["internal"][s] = requestsTotal["internal"][s] + 1
          /\ requestsTotal'["unauthenticated"][s] = requestsTotal["unauthenticated"][s]
          /\ requestsTotal'["tier"][s] = requestsTotal["tier"][s]
      BY <1>4, <1>5, <2>4, <2>6
    <3>4. requestsTotal'["internal"][s] = Cardinality(Done(s)' \cap internal')
      BY <2>3, <3>1, <3>2, <3>3
    <3>5. requestsTotal'["unauthenticated"][s] + requestsTotal'["tier"][s] =
            Cardinality(Done(s)' \ internal')
      BY <2>3, <3>1, <3>3
    <3> QED BY <3>4, <3>5
  <2>7. CASE s = seen[r] /\ r \notin internal
    <3>1. /\ Done(s)' \cap internal' = Done(s) \cap internal
          /\ Done(s)' \ internal' = (Done(s) \ internal) \cup {r}
      BY <1>4, <2>2, <2>7
    <3>2. Cardinality((Done(s) \ internal) \cup {r}) = Cardinality(Done(s) \ internal) + 1
      BY <2>1, FS_AddElement
    <3>3. /\ requestsTotal'["internal"][s] = requestsTotal["internal"][s]
          /\ requestsTotal'["unauthenticated"][s] = requestsTotal["unauthenticated"][s] + 1
          /\ requestsTotal'["tier"][s] = requestsTotal["tier"][s]
          /\ requestsTotal["unauthenticated"][s] \in Nat
          /\ requestsTotal["tier"][s] \in Nat
      BY <1>4, <1>5, <2>4, <2>7
    <3>4. requestsTotal'["internal"][s] = Cardinality(Done(s)' \cap internal')
      BY <2>3, <3>1, <3>3
    <3>5. requestsTotal'["unauthenticated"][s] + requestsTotal'["tier"][s] =
            (requestsTotal["unauthenticated"][s] + requestsTotal["tier"][s]) + 1
      BY <3>3
    <3>6. requestsTotal'["unauthenticated"][s] + requestsTotal'["tier"][s] =
            Cardinality(Done(s)' \ internal')
      BY <2>3, <3>1, <3>2, <3>5
    <3> QED BY <3>4, <3>6
  <2> QED BY <2>5, <2>6, <2>7
<1> QED BY <1>6 DEF TotalsBalance

\* Every step keeps the gauge and the totals.
LEMMA StepCounts ==
  ASSUME TypeOK, Points, Counts, [Next]_vars
  PROVE  Counts'
<1>1. ASSUME NEW r \in Requests, Accept(r)
      PROVE  Counts'
  <2>1. /\ Alive /\ pc[r] = "idle" /\ pc'[r] = "route"
        /\ \A q \in Requests \ {r} : pc'[q] = pc[q]
    BY <1>1, OneRequest DEF Accept
  <2>2. IsFiniteSet(InFlight) /\ r \notin InFlight /\ InFlight' = InFlight \cup {r}
    BY <2>1, PlacesDiffer, GatewayAssumption, FS_Subset DEF InFlight
  <2>3. Cardinality(InFlight') = Cardinality(InFlight) + 1
    BY <2>2, FS_AddElement
  <2>4. ActiveIsExact'
    BY <1>1, <2>1, <2>3 DEF Accept, Counts, ActiveIsExact
  <2>5. \A s \in Statuses : Done(s)' = Done(s)
    BY <1>1, <2>1 DEF Done, Accept, perRequest
  <2> QED BY <1>1, <2>4, <2>5, TotalsKept DEF Counts, Accept, identity
<1>2. ASSUME NEW r \in Requests, Layer(r) \/ Backend(r)
      PROVE  Counts'
  <2>1. Within(r) /\ UNCHANGED <<gone, active, requestsTotal, process>>
    BY <1>2, WithinForms
  <2>2. Alive /\ InFlight' = InFlight /\ \A s \in Statuses : Done(s)' = Done(s)
    BY <2>1, WithinStaysIn
  <2>3. ActiveIsExact'
    BY <2>1, <2>2 DEF Counts, ActiveIsExact
  <2>4. \A q \in Requests : pc[q] = "done" => (q \in internal' <=> q \in internal)
    BY <1>2, IdentityForms DEF identity, Behind, Waiting
  <2> QED BY <2>1, <2>2, <2>3, <2>4, TotalsKept DEF Counts
<1>3. ASSUME NEW r \in Requests, Return(r)
      PROVE  Counts'
  <2>1. ActiveIsExact'
    BY <1>3, LeavingIsCounted, PlacesDiffer DEF Return, Counts, Ended
  <2> QED BY <1>3, <2>1, ReturnCounts DEF Counts
<1>4. ASSUME NEW r \in Requests, Unwind(r)
      PROVE  Counts'
  <2>1. ActiveIsExact'
    BY <1>4, LeavingIsCounted, PlacesDiffer DEF Unwind, Pass, Counts
  <2>2. \A s \in Statuses : Done(s)' = Done(s)
    BY <1>4, OneRequest DEF Unwind, Pass, Done, perRequest
  <2> QED BY <1>4, <2>1, <2>2, TotalsKept DEF Counts, Unwind, identity
<1>5. ASSUME NEW r \in Requests, Recover(r)
      PROVE  Counts'
  <2>1. /\ Alive /\ pc[r] = "recovering" /\ pc'[r] = "recovered"
        /\ \A q \in Requests \ {r} : pc'[q] = pc[q]
    BY <1>5, OneRequest DEF Recover
  <2>2. InFlight' = InFlight
    BY <2>1, PlacesDiffer DEF InFlight, Ended
  <2>3. \A q \in Requests \ {r} : status'[q] = status[q]
    BY <1>5, Written DEF Recover, Statuses
  <2>4. \A s \in Statuses : Done(s)' = Done(s)
    BY <2>1, <2>3 DEF Done
  <2>5. ActiveIsExact'
    BY <1>5, <2>1, <2>2 DEF Recover, Counts, ActiveIsExact
  <2> QED BY <1>5, <2>4, <2>5, TotalsKept DEF Counts, Recover, identity
<1>6. CASE (\E r \in Requests : Disconnect(r)) \/ Signal \/ Drained \/ Close \/ Tick
            \/ UNCHANGED vars
  <2>1. /\ UNCHANGED <<pc, status, internal, active, requestsTotal>>
        /\ Alive' => Alive
    BY <1>6 DEF identity, Disconnect, Signal, Drained, Close, Tick, vars, perRequest, process, Alive, requests
  <2> QED BY <2>1 DEF Counts, ActiveIsExact, TotalsBalance, InFlight, Done
<1>7. CASE Exit \/ ListenFails \/ GraceOver
  <2>1. /\ pc' = Dropped /\ UNCHANGED <<status, internal, requestsTotal>>
        /\ phase' \in {"exited", "failed"}
    BY <1>7 DEF Exit, ListenFails, GraceOver, Fatal, perRequest, requests, identity
  <2>2. \A q \in Requests : pc'[q] = "done" <=> pc[q] = "done"
    BY <2>1, PlacesDiffer DEF Dropped, Ended
  <2>3. \A s \in Statuses : Done(s)' = Done(s)
    BY <2>1, <2>2 DEF Done
  <2> QED BY <2>1, <2>3, TotalsKept DEF Counts, ActiveIsExact, Alive
<1> QED BY <1>1, <1>2, <1>3, <1>4, <1>5, <1>6, <1>7 DEF Next, Handler

----------------------------------------------------------------------------
(* The process *)

\* Every step keeps what the phases leave running.
LEMMA StepLife ==
  ASSUME TypeOK, LifeAgrees, [Next]_vars
  PROVE  LifeAgrees'
<1>1. ASSUME NEW r \in Requests, NEW from, NEW to \in Busy \cup {"done", "recovered"},
             Goto(r, from, to), UNCHANGED process,
             phase \in {"serving", "draining"} \/ from \in Busy
      PROVE  LifeAgrees'
  <2>1. /\ Alive /\ pc[r] = from /\ pc'[r] = to
        /\ \A q \in Requests \ {r} : pc'[q] = pc[q]
    BY <1>1, OneRequest
  <2>2. phase \in {"serving", "draining"}
    BY <1>1, <2>1 DEF LifeAgrees, Alive
  <2>3. to # "dropped"
    BY PlacesDiffer DEF Ended
  <2> QED BY <1>1, <2>1, <2>2, <2>3 DEF LifeAgrees, process
<1>2. ASSUME NEW r \in Requests, Accept(r)
      PROVE  LifeAgrees'
  BY <1>1, <1>2, PlacesDiffer DEF Accept
<1>3. ASSUME NEW r \in Requests, Layer(r) \/ Backend(r)
      PROVE  LifeAgrees'
  <2>1. Within(r) /\ UNCHANGED process
    BY <1>3, WithinForms
  <2>2. CASE Refuse(r)
    BY <1>1, <2>1, <2>2, PlacesDiffer DEF Refuse, Fail
  <2>3. CASE Move(r)
    BY <1>1, <2>1, <2>3, PlacesDiffer DEF Move, Pass
  <2>4. CASE Admit(r) \/ HeaderSent(r) \/ Record(r)
    BY <1>1, <2>1, <2>4, PlacesDiffer DEF Admit, HeaderSent, Record
  <2> QED BY <2>1, <2>2, <2>3, <2>4 DEF Within
<1>4. ASSUME NEW r \in Requests, Return(r) \/ Unwind(r) \/ Recover(r)
      PROVE  LifeAgrees'
  <2>1. {"return", "panicking", "recovering"} \subseteq Busy
    BY DEF Busy, Counted, Layers
  <2>2. CASE Return(r)
    BY <1>1, <2>1, <2>2 DEF Return
  <2>3. CASE Unwind(r)
    BY <1>1, <2>1, <2>3 DEF Unwind, Pass
  <2>4. CASE Recover(r)
    BY <1>1, <2>1, <2>4 DEF Recover
  <2> QED BY <1>4, <2>2, <2>3, <2>4
<1>5. CASE (\E r \in Requests : Disconnect(r)) \/ Tick \/ UNCHANGED vars
  BY <1>5 DEF Disconnect, Tick, vars, LifeAgrees, process, requests
<1>6. CASE Signal \/ Drained \/ Close
  BY <1>6 DEF Signal, Drained, Close, LifeAgrees, requests
<1>7. CASE Exit
  BY <1>7, PlacesDiffer DEF Exit, Dropped, LifeAgrees, Ended, requests
<1>8. CASE ListenFails \/ GraceOver
  BY <1>8 DEF ListenFails, GraceOver, Fatal, LifeAgrees, requests
<1> QED BY <1>2, <1>3, <1>4, <1>5, <1>6, <1>7, <1>8 DEF Next, Handler

----------------------------------------------------------------------------
(* The theorems *)

\* The invariant holds at the start.
LEMMA InitInv ==
  ASSUME Init
  PROVE  IInv
<1>1. TypeOK
  <2>1. ChainTypes
    BY GatewayAssumption DEF Init, ChainTypes, Statuses
  <2>2. IdentityTypes
    BY DEF Init, IdentityTypes, NoUser
  <2> QED BY <2>1, <2>2, TypesAreBoth
<1>2. Counts
  <2>1. InFlight = {} /\ \A s \in Statuses : Done(s) = {}
    BY PlacesDiffer DEF Init, InFlight, Done
  <2>2. ActiveIsExact
    BY <2>1, FS_EmptySet DEF Init, ActiveIsExact
  <2>3. \A s \in Statuses : \A label \in Labels : requestsTotal[label][s] = 0
    BY DEF Init
  <2>4. \A s \in Statuses : /\ Cardinality(Done(s) \cap internal) = 0
                            /\ Cardinality(Done(s) \ internal) = 0
    BY <2>1, FS_EmptySet
  <2>5. TotalsBalance
    BY <2>3, <2>4 DEF TotalsBalance, Labels
  <2> QED BY <2>2, <2>5 DEF Counts
<1>3. Points
  BY DEF Init, Points, Point, BeforeProxy
<1>4. LifeAgrees
  BY DEF Init, LifeAgrees
<1>5. Identity
  <2>1. \A code \in Reasons : Refused(code) = {}
    BY DEF Init, Refused, NoReason, Reasons
  <2>2. FailuresTellReasons
    BY <2>1, FS_EmptySet DEF Init, FailuresTellReasons
  <2>3. Unrefused /\ GenuinePass
    BY DEF Init, Unrefused, GenuinePass, Waiting
  <2> QED BY <2>2, <2>3 DEF Identity
<1> QED BY <1>1, <1>2, <1>3, <1>4, <1>5 DEF IInv

\* The invariant of the chain and the process holds in every run.
THEOREM ChainInvariant == Spec => []IInv
<1>1. Init => IInv
  BY InitInv
<1>2. IInv /\ [Next]_vars => IInv'
  BY StepTypes, StepPoints, StepCounts, StepLife, StepIdentity DEF IInv, Counts
<1> QED BY <1>1, <1>2, PTL DEF Spec

\* The variables keep their types; in particular no Dec takes the gauge below
\* zero (observability.go:28-29).
THEOREM Typing == Spec => []TypeOK
<1>1. IInv => TypeOK
  BY DEF IInv
<1> QED BY <1>1, ChainInvariant, PTL

\* The gauge of active connections is the number of requests in the chain,
\* panics included (observability.go:28-29).
THEOREM GaugeIsExact == Spec => []ActiveIsExact
<1>1. IInv => ActiveIsExact
  BY DEF IInv, Counts
<1> QED BY <1>1, ChainInvariant, PTL

\* Each request that does not panic is counted once, with the status its
\* client was sent (observability.go:32-56).
THEOREM TotalsAreBalanced == Spec => []TotalsBalance
<1>1. IInv => TotalsBalance
  BY DEF IInv, Counts
<1> QED BY <1>1, ChainInvariant, PTL

\* The breaker is told of what it admitted, and as its client was
\* (middleware/circuitbreaker.go:25-65).
THEOREM BreakerIsTold == Spec => []BreakerHearsStatus
<1>1. IInv => BreakerHearsStatus
  <2> SUFFICES ASSUME IInv, NEW r \in Requests, pc[r] \in Ended \ {"dropped"}
               PROVE  /\ told[r] = "failure" => pc[r] = "done" /\ status[r] >= 500
                      /\ told[r] = "success" => pc[r] = "done" /\ status[r] < 500
                      /\ told[r] = "admitted" => pc[r] = "recovered"
                      /\ pc[r] = "done" /\ status[r] \in {401, 403, 429} \ Answers
                           => told[r] = "nothing"
    BY DEF BreakerHearsStatus
  <2>1. Point(r) /\ seen[r] \in Nat
    BY SeenIsCode DEF IInv, Points
  <2>2. CASE pc[r] = "done"
    BY <2>1, <2>2 DEF Point, Judged
  <2>3. CASE pc[r] = "recovered"
    BY <2>1, <2>3 DEF Point
  <2> QED BY <2>2, <2>3 DEF Ended
<1> QED BY <1>1, ChainInvariant, PTL

\* Nothing is forwarded but for a genuine token (middleware/auth.go:27-28).
THEOREM OnlyGenuinePass == Spec => []GenuinePass
<1>1. IInv => GenuinePass
  BY DEF IInv, Identity
<1> QED BY <1>1, ChainInvariant, PTL

\* Each refusal is counted once and as it was told (middleware/auth.go:47, :63-64).
THEOREM RefusalsAreCounted == Spec => []FailuresTellReasons
<1>1. IInv => FailuresTellReasons
  BY DEF IInv, Identity
<1> QED BY <1>1, ChainInvariant, PTL

\* No request runs with closed Redis clients: between the deferred Close and the
\* end of the process none is left, and where some are left, at the deadline,
\* the clients are not closed (cmd/main.go:43, :98-100; server.go:169-174).
THEOREM RedisIsOpenWhileBusy == Spec => []RedisOutlivesRequests
<1>1. IInv => RedisOutlivesRequests
  BY DEF IInv, LifeAgrees, RedisOutlivesRequests
<1> QED BY <1>1, ChainInvariant, PTL

\* A process that ends without an error has dropped nothing
\* (server.go:135-138, :166-174).
THEOREM CleanExits == Spec => []CleanExitDropsNone
<1>1. IInv => CleanExitDropsNone
  BY DEF IInv, LifeAgrees, CleanExitDropsNone
<1> QED BY <1>1, ChainInvariant, PTL

----------------------------------------------------------------------------
(* Whom the totals name *)

\* No request is counted under a tier: each user's is among those of nobody,
\* which are every one that ended and was not internal.
UsersCountAsNobody ==
  \A s \in Statuses :
    /\ requestsTotal["tier"][s] = 0
    /\ requestsTotal["unauthenticated"][s] = Cardinality(Done(s) \ internal)

TierUnused == \A s \in Statuses : requestsTotal["tier"][s] = 0

\* Return is the only step that counts, and there the context is the one
\* without a user.
LEMMA StepTierUnused ==
  ASSUME TypeOK, TierUnused, [Next]_vars
  PROVE  TierUnused'
<1>1. ASSUME NEW r \in Requests, Return(r)
      PROVE  TierUnused'
  <2>1. GetUserContext(r, "return") = NoUser
    BY DEF GetUserContext, Waiting
  <2>2. resolveTierLabel(r) \in {"internal", "unauthenticated"}
    BY <2>1 DEF resolveTierLabel
  <2>3. requestsTotal'["tier"] = requestsTotal["tier"]
    BY <1>1, <2>2 DEF Return, TypeOK, Labels
  <2> QED BY <2>3 DEF TierUnused
<1>2. ASSUME \A r \in Requests : ~Return(r)
      PROVE  requestsTotal' = requestsTotal
  BY <1>2 DEF Next, Handler, Accept, Layer, Backend, Unwind, Recover, Disconnect,
              Signal, Drained, Close, Exit, ListenFails, GraceOver, Fatal, Tick, vars, requests
<1> QED BY <1>1, <1>2 DEF TierUnused

\* However many users are served, gateway_requests_total names no tier and has
\* all of them under "unauthenticated" (observability.go:37-40, :82-99;
\* auth.go:35-36).
THEOREM UsersAreCountedAsNobody == Spec => []UsersCountAsNobody
<1>1. Init => TierUnused
  BY DEF Init, TierUnused, Labels
<1>2. IInv /\ TierUnused /\ [Next]_vars => TierUnused'
  BY StepTierUnused DEF IInv
<1>3. IInv /\ TierUnused => UsersCountAsNobody
  <2> SUFFICES ASSUME IInv, TierUnused, NEW s \in Statuses
               PROVE  /\ requestsTotal["tier"][s] = 0
                      /\ requestsTotal["unauthenticated"][s] =
                           Cardinality(Done(s) \ internal)
    BY DEF UsersCountAsNobody
  <2>1. requestsTotal["unauthenticated"][s] \in Nat
    BY DEF IInv, TypeOK, Labels
  <2>2. requestsTotal["unauthenticated"][s] + requestsTotal["tier"][s] =
          Cardinality(Done(s) \ internal)
    BY DEF IInv, Counts, TotalsBalance
  <2> QED BY <2>1, <2>2 DEF TierUnused
<1> QED BY <1>1, <1>2, <1>3, ChainInvariant, PTL DEF Spec

----------------------------------------------------------------------------
(* The process implements Service *)

Up == phase \in {"serving", "draining"}
Whereabouts == [r \in Requests |-> Where(r)]

\* Where a request is, by its place.
LEMMA Places ==
  ASSUME NEW r \in Requests
  PROVE  /\ pc[r] = "idle" => Where(r) = "new"
         /\ pc[r] \in Busy =>
              Where(r) = IF told[r] = "nothing" THEN "here" ELSE "forwarded"
         /\ pc[r] \in {"done", "recovered"} => Where(r) = "over"
         /\ pc[r] = "dropped" => Where(r) = "lost"
<1>1. /\ "idle" \notin Busy /\ "done" \notin Busy /\ "recovered" \notin Busy
      /\ "dropped" \notin Busy
  BY DEF Busy, Counted, Layers, Waiting
<1> QED BY <1>1 DEF Where

\* The same in the next state.
LEMMA PlacesNext ==
  ASSUME NEW r \in Requests
  PROVE  /\ pc'[r] \in Busy =>
              Where(r)' = IF told'[r] = "nothing" THEN "here" ELSE "forwarded"
         /\ pc'[r] \in {"done", "recovered"} => Where(r)' = "over"
         /\ pc'[r] = "dropped" => Where(r)' = "lost"
<1>1. "done" \notin Busy /\ "recovered" \notin Busy /\ "dropped" \notin Busy
  BY DEF Busy, Counted, Layers, Waiting
<1> QED BY <1>1 DEF Where

\* A step of one request moves it alone.
LEMMA OneMoves ==
  ASSUME NEW r \in Requests, NEW from, NEW to, TypeOK, Goto(r, from, to),
         \A q \in Requests \ {r} : told'[q] = told[q]
  PROVE  Whereabouts' = [Whereabouts EXCEPT ![r] = Where(r)']
<1>1. \A q \in Requests \ {r} : Where(q)' = Where(q)
  BY OneRequest DEF Where
<1> QED BY <1>1 DEF Whereabouts

\* While a request runs the process is up.
LEMMA BusyIsUp ==
  ASSUME LifeAgrees, Alive, NEW r \in Requests, pc[r] \in Busy
  PROVE  Up
BY DEF LifeAgrees, Alive, Up

\* A step within the chain forwards the request, answers it, or neither.
LEMMA WithinServes ==
  ASSUME IInv, NEW r \in Requests, Within(r), UNCHANGED process
  PROVE  Promise!Next \/ UNCHANGED <<Up, Whereabouts, status>>
<1>0. TypeOK /\ LifeAgrees /\ Point(r) /\ Up' = Up
  BY DEF IInv, Points, process, Up
<1>a. ASSUME NEW from \in Counted, NEW to \in Counted, Goto(r, from, to),
             (told'[r] = "nothing") <=> (told[r] = "nothing"),
             \A q \in Requests \ {r} : told'[q] = told[q]
      PROVE  /\ Up /\ Whereabouts' = Whereabouts /\ Whereabouts[r] = Where(r)
             /\ Where(r) \in {"here", "forwarded"}
  <2>1. Alive /\ pc[r] = from /\ pc'[r] = to
    BY <1>0, <1>a, OneRequest
  <2>2. Up
    BY <1>0, <2>1, BusyIsUp, PlacesDiffer
  <2>3. Where(r)' = Where(r) /\ Where(r) \in {"here", "forwarded"}
    BY <1>a, <2>1, PlacesDiffer, Places, PlacesNext
  <2>4. Whereabouts' = [Whereabouts EXCEPT ![r] = Where(r)']
    BY <1>0, <1>a, OneMoves
  <2> QED BY <2>2, <2>3, <2>4 DEF Whereabouts
<1>b. ASSUME NEW code \in Statuses, Sent(r, code), status[r] = NoStatus,
             Up, Whereabouts' = Whereabouts, Whereabouts[r] = Where(r),
             Where(r) \in {"here", "forwarded"}
      PROVE  Promise!Next
  <2>1. status' = [status EXCEPT ![r] = code]
    BY <1>0, <1>b DEF Sent, TypeOK
  <2>2. Promise!Answer(r, code)
    BY <1>0, <1>b, <2>1 DEF Promise!Answer, Promise!UnderWay, Up, Whereabouts
  <2> QED BY <2>2 DEF Promise!Next
<1>1. CASE Refuse(r)
  <2>1. PICK from \in Answering, code \in Statuses : Fail(r, from, code)
    BY <1>1 DEF Refuse
  <2>2. status[r] = NoStatus
    BY <1>0, <2>1, OneRequest DEF Fail, Point, Answering, BeforeProxy
  <2>3. /\ Up /\ Whereabouts' = Whereabouts /\ Whereabouts[r] = Where(r)
        /\ Where(r) \in {"here", "forwarded"}
    BY <1>a, <2>1, PlacesDiffer DEF Fail
  <2> QED BY <1>b, <2>1, <2>2, <2>3 DEF Fail, WriteHeader
<1>2. CASE Move(r)
  <2>1. PICK e \in Edges : Pass(r, e[1], e[2])
    BY <1>2 DEF Move
  <2>2. Whereabouts' = Whereabouts
    BY <1>a, <2>1, PlacesDiffer DEF Pass, perRequest
  <2> QED BY <1>0, <2>1, <2>2 DEF Pass, perRequest
<1>3. CASE Admit(r)
  <2>1. /\ Alive /\ pc[r] = "breaker" /\ pc'[r] = "proxy"
        /\ told'[r] = "admitted" /\ status' = status
        /\ \A q \in Requests \ {r} : told'[q] = told[q]
    BY <1>0, <1>3, OneRequest DEF Admit, TypeOK
  <2>2. status[r] = NoStatus /\ told[r] = "nothing"
    BY <1>0, <2>1 DEF Point, BeforeProxy
  <2>3. Up /\ Where(r) = "here" /\ Where(r)' = "forwarded"
    BY <1>0, <2>1, <2>2, BusyIsUp, PlacesDiffer, Places, PlacesNext
  <2>4. Whereabouts' = [Whereabouts EXCEPT ![r] = "forwarded"]
    BY <1>0, <1>3, <2>1, <2>3, OneMoves DEF Admit
  <2>5. Promise!Forward(r)
    BY <1>0, <2>1, <2>2, <2>3, <2>4 DEF Promise!Forward, Up, Whereabouts
  <2> QED BY <2>5 DEF Promise!Next
<1>4. CASE HeaderSent(r)
  <2>1. PICK code \in Answers \cup {502} : WriteHeader(r, code)
    BY <1>4 DEF HeaderSent
  <2>2. status[r] = NoStatus
    BY <1>0, <1>4, OneRequest DEF HeaderSent, Point
  <2>3. /\ Up /\ Whereabouts' = Whereabouts /\ Whereabouts[r] = Where(r)
        /\ Where(r) \in {"here", "forwarded"}
    BY <1>4, <1>a, PlacesDiffer DEF HeaderSent
  <2>4. code \in Statuses /\ Sent(r, code)
    BY <2>1, StatusesAreCodes DEF WriteHeader
  <2> QED BY <1>b, <2>2, <2>3, <2>4
<1>5. CASE Record(r)
  <2>1. /\ pc[r] = "record" /\ told[r] = "admitted" /\ told'[r] # "nothing"
        /\ \A q \in Requests \ {r} : told'[q] = told[q]
    BY <1>0, <1>5, OneRequest DEF Record, Point, TypeOK
  <2>2. Whereabouts' = Whereabouts
    BY <1>5, <1>a, <2>1, PlacesDiffer DEF Record
  <2> QED BY <1>0, <1>5, <2>2 DEF Record
<1> QED BY <1>1, <1>2, <1>3, <1>4, <1>5 DEF Within

\* A request that leaves the chain for good ends, with the status it has or
\* with the one that is written as it leaves.
LEMMA LeavingEnds ==
  ASSUME IInv, NEW r \in Requests, NEW from \in Busy, NEW code \in Statuses,
         Goto(r, from, "done") \/ Goto(r, from, "recovered"),
         Sent(r, code), UNCHANGED <<told, process>>
  PROVE  Promise!Next
<1>0. TypeOK /\ LifeAgrees /\ Up' = Up
  BY DEF IInv, process, Up
<1>1. Alive /\ pc[r] = from /\ pc'[r] \in {"done", "recovered"}
  BY <1>0, OneRequest
<1>2. Up /\ Where(r) \in {"here", "forwarded"} /\ Where(r)' = "over"
  BY <1>0, <1>1, BusyIsUp, Places, PlacesNext
<1>3. Whereabouts' = [Whereabouts EXCEPT ![r] = "over"]
  BY <1>0, <1>2, OneMoves
<1>4. Promise!End(r, code)
  BY <1>0, <1>2, <1>3 DEF Promise!End, Promise!UnderWay, Sent, Up, Whereabouts
<1> QED BY <1>4 DEF Promise!Next

\* Every step of the process is a step or a stutter of Service.
LEMMA StepServes ==
  ASSUME IInv, [Next]_vars
  PROVE  Promise!Next \/ UNCHANGED <<Up, Whereabouts, status>>
<1>0. TypeOK /\ LifeAgrees
  BY DEF IInv
<1>1. ASSUME NEW r \in Requests, Accept(r)
      PROVE  Promise!Next
  <2>1. /\ Up /\ Up' = Up /\ pc[r] = "idle" /\ pc'[r] = "route"
        /\ told' = told /\ status' = status
    BY <1>0, <1>1, OneRequest DEF Accept, Up, process, perRequest
  <2>2. told[r] = "nothing"
    BY <2>1 DEF IInv, Points, Point, BeforeProxy
  <2>3. Where(r) = "new" /\ Where(r)' = "here"
    BY <2>1, <2>2, Places, PlacesNext, PlacesDiffer
  <2>4. Whereabouts' = [Whereabouts EXCEPT ![r] = "here"]
    BY <1>0, <1>1, <2>1, <2>3, OneMoves DEF Accept
  <2>5. Promise!Take(r)
    BY <2>1, <2>3, <2>4 DEF Promise!Take, Up, Whereabouts
  <2> QED BY <2>5 DEF Promise!Next
<1>2. ASSUME NEW r \in Requests, Layer(r) \/ Backend(r)
      PROVE  Promise!Next \/ UNCHANGED <<Up, Whereabouts, status>>
  BY <1>2, WithinForms, WithinServes
<1>3. ASSUME NEW r \in Requests, Return(r) \/ Recover(r)
      PROVE  Promise!Next
  BY <1>3, LeavingEnds, PlacesDiffer DEF Return, Recover, Statuses, Busy
<1>4. ASSUME NEW r \in Requests, Unwind(r)
      PROVE  UNCHANGED <<Up, Whereabouts, status>>
  <2>1. /\ pc[r] = "panicking" /\ pc'[r] = "recovering" /\ told' = told
        /\ status' = status /\ Up' = Up
    BY <1>0, <1>4, OneRequest DEF Unwind, Pass, perRequest, process, Up
  <2>2. Where(r)' = Where(r)
    BY <2>1, Places, PlacesNext, PlacesDiffer DEF Busy
  <2>3. Whereabouts' = [Whereabouts EXCEPT ![r] = Where(r)']
    BY <1>0, <1>4, <2>1, OneMoves DEF Unwind, Pass
  <2> QED BY <2>1, <2>2, <2>3 DEF Whereabouts
<1>5. CASE (\E r \in Requests : Disconnect(r)) \/ Signal \/ Close \/ Tick
            \/ UNCHANGED vars
  <2>1. UNCHANGED <<pc, told, status>> /\ Up' = Up
    BY <1>5 DEF Disconnect, Signal, Close, Tick, vars, requests, perRequest, process, Up
  <2> QED BY <2>1 DEF Whereabouts, Where
<1>6. CASE Drained
  <2>1. /\ UNCHANGED <<pc, told, status>> /\ Up /\ ~Up'
        /\ \A r \in Requests : pc[r] \notin Busy
    BY <1>6 DEF Drained, requests, perRequest, Up
  <2>2. Whereabouts' = Whereabouts
    BY <2>1 DEF Whereabouts, Where
  <2>3. \A r \in Requests : Where(r) \notin {"here", "forwarded"}
    BY <1>0, <2>1, Places DEF TypeOK, Ended
  <2>4. Promise!Stop
    BY <2>1, <2>2, <2>3 DEF Promise!Stop, Promise!UnderWay, Up, Whereabouts
  <2> QED BY <2>4 DEF Promise!Next
<1>7. CASE Exit
  <2>1. /\ UNCHANGED <<told, status>> /\ Up' = Up /\ pc' = Dropped
        /\ \A r \in Requests : pc[r] \notin Busy
    BY <1>0, <1>7 DEF Exit, requests, perRequest, Up, LifeAgrees
  <2>2. pc' = pc
    BY <1>0, <2>1 DEF Dropped, TypeOK
  <2> QED BY <2>1, <2>2 DEF Whereabouts, Where
<1>8. CASE ListenFails \/ GraceOver
  <2>1. /\ UNCHANGED <<told, status>> /\ Up /\ ~Up' /\ pc' = Dropped
    BY <1>8 DEF ListenFails, GraceOver, Fatal, requests, perRequest, Up
  <2>2. ASSUME NEW r \in Requests
        PROVE  Where(r)' = IF Where(r) \in {"here", "forwarded"} THEN "lost" ELSE Where(r)
    <3>1. CASE pc[r] \in Busy
      BY <2>1, <3>1, Places, PlacesNext DEF Dropped
    <3>2. CASE pc[r] \notin Busy
      <4>1. pc'[r] = pc[r]
        BY <2>1, <3>2 DEF Dropped
      <4>2. Where(r)' = Where(r)
        BY <2>1, <4>1 DEF Where
      <4>3. pc[r] \in {"idle", "done", "recovered", "dropped"}
        BY <1>0, <3>2 DEF TypeOK, Ended
      <4> QED BY <4>2, <4>3, Places
    <3> QED BY <3>1, <3>2
  <2>3. Promise!Crash
    BY <2>1, <2>2 DEF Promise!Crash, Promise!UnderWay, Up, Whereabouts
  <2> QED BY <2>3 DEF Promise!Next
<1> QED BY <1>1, <1>2, <1>3, <1>4, <1>5, <1>6, <1>7, <1>8 DEF Next, Handler

\* To its clients the process does what Service promises, for any number of
\* requests (server.go:111-114, :135-138).
THEOREM GatewayServes == Spec => ImplementsService
<1>1. Init => Promise!Init
  <2> SUFFICES ASSUME Init PROVE Promise!Init
    OBVIOUS
  <2>1. \A r \in Requests : Where(r) = "new"
    BY Places DEF Init
  <2> QED BY <2>1 DEF Init, Promise!Init
<1>2. IInv /\ [Next]_vars => [Promise!Next]_(Promise!serviceVars)
  BY StepServes DEF Promise!serviceVars, Up, Whereabouts
<1> QED BY <1>1, <1>2, ChainInvariant, PTL DEF Spec, ImplementsService, Promise!Spec
=============================================================================
