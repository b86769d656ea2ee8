------------------------- MODULE RateLimiterProofs -------------------------
(***************************************************************************)
(* Theorems about RateLimiter for any number of requests, any limits, any  *)
(* clock differences and any schedule of the commands.                     *)
(***************************************************************************)
EXTENDS RateLimiter, FiniteSetTheorems, TLAPS

\* No step takes a variable out of its type.
THEOREM Typing == Spec => []TypeOK
<1> USE RateLimiterAssumption
<1>1. Init => TypeOK
  BY DEF Init, TypeOK
<1>2. TypeOK /\ [Next]_vars => TypeOK'
  <2> SUFFICES ASSUME TypeOK, [Next]_vars PROVE TypeOK'
    OBVIOUS
  <2> USE DEF TypeOK, Goto, redis, Decisions, Command
  <2>1. ASSUME NEW r \in Requests, Evaluate(r) PROVE TypeOK'
    BY <2>1 DEF Evaluate, Send, Forget
  <2>2. ASSUME NEW r \in Requests, Resend(r) PROVE TypeOK'
    BY <2>2 DEF Resend, Send, Forget
  <2>3. ASSUME NEW r \in Requests, FailOpen(r) PROVE TypeOK'
    BY <2>3 DEF FailOpen, Forget
  <2>4. ASSUME NEW r \in Requests, Decide(r) PROVE TypeOK'
    BY <2>4 DEF Decide, Forget
  <2>5. ASSUME NEW c \in commands, RunScript(c) PROVE TypeOK'
    <3>1. c.req \in Requests /\ c \in Command /\ stamp[c.req] \in Nat
      OBVIOUS
    <3>2. Kept(stamp[c.req]) \subseteq Member
      BY DEF Kept, Live
    <3>3. latest' \in Nat /\ commands' \subseteq Command
      BY <2>5, <3>1 DEF RunScript, Later
    <3>4. CASE Reject(c)
      BY <2>5, <3>1, <3>2, <3>3, <3>4 DEF RunScript, Reject, Answered
    <3>5. CASE Record(c)
      <4>1. zset' \subseteq Member
        BY <3>1, <3>2, <3>5 DEF Record, Member
      <4>2. expireAt' \in Nat /\ admitted' \subseteq Command
        BY <3>1, <3>5 DEF Record
      <4>3. reply' \in [Requests -> Decisions \cup {NoReply}]
        BY <3>1, <3>5 DEF Record, Admission, Answered, Decisions
      <4>4. expired' \subseteq admitted' /\ merged' \subseteq admitted'
        BY <3>5 DEF Record
      <4> QED  BY <2>5, <3>3, <4>1, <4>2, <4>3, <4>4 DEF RunScript
    <3> QED  BY <2>5, <3>4, <3>5 DEF RunScript
  <2>6. ASSUME NEW c \in commands, LoseCommand(c) PROVE TypeOK'
    BY <2>6 DEF LoseCommand
  <2>7. CASE Evict
    BY <2>7 DEF Evict
  <2>8. CASE Tick
    BY <2>8 DEF Tick
  <2>9. CASE UNCHANGED vars
    BY <2>9 DEF vars
  <2> QED
    BY <2>1, <2>2, <2>3, <2>4, <2>5, <2>6, <2>7, <2>8, <2>9
    DEF Next, Serve
<1> QED  BY <1>1, <1>2, PTL DEF Spec

----------------------------------------------------------------------------
(* Executions and their stamps *)

\* An execution happens once, for a request whose stamp is taken.
Bookkeeping ==
  /\ \A c \in commands \cup admitted :
       pc[c.req] # "idle" /\ c.n <= attempt[c.req]
  /\ commands \cap admitted = {}
  /\ IsFiniteSet(zset) /\ IsFiniteSet(admitted)

\* Trimming keeps a finite set finite.
LEMMA KeptFinite ==
  ASSUME IsFiniteSet(zset), NEW s
  PROVE  IsFiniteSet(Kept(s))
<1>1. Kept(s) \subseteq zset
  BY DEF Kept, Live
<1> QED  BY <1>1, FS_Subset

\* No command runs twice or before its request has a stamp.
THEOREM BookkeepingHolds == Spec => []Bookkeeping
<1>1. Init => Bookkeeping
  BY FS_EmptySet DEF Init, Bookkeeping
<1>2. TypeOK /\ Bookkeeping /\ [Next]_vars => Bookkeeping'
  <2> SUFFICES ASSUME TypeOK, Bookkeeping, [Next]_vars PROVE Bookkeeping'
    OBVIOUS
  <2> USE DEF TypeOK, Bookkeeping, Goto, redis, Command
  <2>1. ASSUME NEW r \in Requests, Evaluate(r) PROVE Bookkeeping'
    BY <2>1 DEF Evaluate, Send, Forget
  <2>2. ASSUME NEW r \in Requests, Resend(r) PROVE Bookkeeping'
    BY <2>2 DEF Resend, Send, Forget
  <2>3. ASSUME NEW r \in Requests, FailOpen(r) PROVE Bookkeeping'
    BY <2>3 DEF FailOpen, Forget
  <2>4. ASSUME NEW r \in Requests, Decide(r) PROVE Bookkeeping'
    BY <2>4 DEF Decide, Forget
  <2>5. ASSUME NEW c \in commands, RunScript(c) PROVE Bookkeeping'
    <3>1. IsFiniteSet(zset') /\ IsFiniteSet(admitted')
      <4>1. IsFiniteSet(Kept(stamp[c.req]))
        BY KeptFinite
      <4>2. \A m : IsFiniteSet(Kept(stamp[c.req]) \cup {m})
        BY <4>1, FS_AddElement
      <4>3. IsFiniteSet(admitted \cup {c})
        BY FS_AddElement
      <4>4. \/ zset' = Kept(stamp[c.req])
            \/ \E m : zset' = Kept(stamp[c.req]) \cup {m}
        BY <2>5 DEF RunScript, Reject, Record
      <4>5. admitted' = admitted \/ admitted' = admitted \cup {c}
        BY <2>5 DEF RunScript, Reject, Record
      <4> QED  BY <4>1, <4>2, <4>3, <4>4, <4>5
    <3>2. commands' = commands \ {c} /\ admitted' \subseteq admitted \cup {c}
      BY <2>5 DEF RunScript, Reject, Record
    <3>3. UNCHANGED <<pc, attempt>>
      BY <2>5 DEF RunScript
    <3> QED  BY <3>1, <3>2, <3>3
  <2>6. ASSUME NEW c \in commands, LoseCommand(c) PROVE Bookkeeping'
    BY <2>6 DEF LoseCommand
  <2>7. CASE Evict
    BY <2>7, FS_EmptySet DEF Evict
  <2>8. CASE Tick
    BY <2>8 DEF Tick
  <2>9. CASE UNCHANGED vars
    BY <2>9 DEF vars
  <2> QED
    BY <2>1, <2>2, <2>3, <2>4, <2>5, <2>6, <2>7, <2>8, <2>9
    DEF Next, Serve
<1> QED  BY <1>1, <1>2, Typing, PTL DEF Spec

\* Only a script that records a request, and an eviction, change what was
\* admitted after t.
LEMMA AdmittedStays ==
  ASSUME TypeOK, Bookkeeping, [Next]_vars, NEW t,
         ~ \E c \in commands : RunScript(c), ~Evict
  PROVE  /\ UNCHANGED <<admitted, expired, merged>>
         /\ \A c \in admitted : stamp'[c.req] = stamp[c.req]
         /\ HeldAfter(t)' = HeldAfter(t)
<1>1. UNCHANGED <<admitted, expired, merged>>
  BY DEF Next, Serve, Evaluate, Resend, FailOpen, Decide, LoseCommand, Evict, Tick, redis, vars
<1>2. stamp' = stamp \/ \E r \in Requests : Evaluate(r)
  BY DEF Next, Serve, Resend, FailOpen, Decide, LoseCommand, Evict, Tick, vars
<1>3. \A c \in admitted : stamp'[c.req] = stamp[c.req]
  <2>1. CASE stamp' = stamp
    BY <2>1
  <2>2. ASSUME NEW r \in Requests, Evaluate(r)
        PROVE \A c \in admitted : stamp'[c.req] = stamp[c.req]
    BY <2>2 DEF Evaluate, Goto, Bookkeeping, TypeOK, Command
  <2> QED  BY <1>2, <2>1, <2>2
<1>4. HeldAfter(t)' = HeldAfter(t)
  BY <1>1, <1>3 DEF AdmittedAfter, HeldAfter
<1> QED  BY <1>1, <1>3, <1>4

\* What a script that records does: its member is one the set has already, or
\* a new one, or the first of a key whose life was over.
LEMMA RecordSteps ==
  ASSUME TypeOK, Bookkeeping, NEW c \in commands, RunScript(c), Record(c),
         NEW t
  PROVE  \E m :
           /\ m.score = stamp[c.req]
           /\ zset' = Kept(stamp[c.req]) \cup {m}
           /\ \/ /\ m \in Kept(stamp[c.req]) /\ Live = zset
                 /\ HeldAfter(t)' = HeldAfter(t)
              \/ /\ m \notin Kept(stamp[c.req]) /\ Live = zset
                 /\ HeldAfter(t)' = IF stamp[c.req] > t
                                      THEN HeldAfter(t) \cup {c}
                                      ELSE HeldAfter(t)
              \/ /\ Kept(stamp[c.req]) = {}
                 /\ HeldAfter(t)' = IF stamp[c.req] > t THEN {c} ELSE {}
<1> DEFINE s == stamp[c.req]
<1>1. PICK suffix \in Suffixes :
        LET member == [score |-> s, suffix |-> suffix] IN
          /\ zset' = Kept(s) \cup {member}
          /\ merged' = IF member \in Kept(s) THEN merged \cup {c} ELSE merged
  BY DEF Record
<1> DEFINE m == [score |-> s, suffix |-> suffix]
<1>2. /\ m.score = s /\ zset' = Kept(s) \cup {m}
      /\ merged' = IF m \in Kept(s) THEN merged \cup {c} ELSE merged
  BY <1>1
<1>3. /\ admitted' = admitted \cup {c} /\ stamp' = stamp
      /\ expired' = IF Live = zset THEN expired ELSE admitted
  BY DEF RunScript, Record
<1>4. /\ c \notin admitted /\ expired \subseteq admitted
      /\ merged \subseteq admitted
  BY DEF Bookkeeping, TypeOK
<1> HIDE DEF m
<1>5. CASE Live = zset /\ m \in Kept(s)
  <2>1. HeldAfter(t)' = HeldAfter(t)
    BY <1>2, <1>3, <1>4, <1>5 DEF AdmittedAfter, HeldAfter
  <2> QED  BY <1>2, <1>5, <2>1
<1>6. CASE Live = zset /\ m \notin Kept(s)
  <2>1. HeldAfter(t)' = IF s > t THEN HeldAfter(t) \cup {c} ELSE HeldAfter(t)
    BY <1>2, <1>3, <1>4, <1>6 DEF AdmittedAfter, HeldAfter
  <2> QED  BY <1>2, <1>6, <2>1
<1>7. CASE Live # zset
  <2>1. Kept(s) = {}
    BY <1>7 DEF Kept, Live
  <2>2. HeldAfter(t)' = IF s > t THEN {c} ELSE {}
    BY <1>2, <1>3, <1>4, <1>7, <2>1 DEF AdmittedAfter, HeldAfter
  <2> QED  BY <1>2, <2>1, <2>2
<1> QED  BY <1>5, <1>6, <1>7

\* A script that rejects has found a key that lives.
LEMMA RejectSteps ==
  ASSUME TypeOK, NEW c \in commands, RunScript(c), Reject(c), NEW t
  PROVE  /\ Live = zset /\ zset' = Kept(stamp[c.req]) /\ stamp' = stamp
         /\ UNCHANGED <<admitted, expired, merged>>
         /\ HeldAfter(t)' = HeldAfter(t)
<1>1. /\ zset' = Kept(stamp[c.req]) /\ stamp' = stamp
      /\ UNCHANGED <<admitted, expired, merged>>
  BY DEF RunScript, Reject
<1>2. Live = zset
  <2> SUFFICES ASSUME Live # zset PROVE FALSE
    OBVIOUS
  <2>1. Kept(stamp[c.req]) = {}
    BY DEF Kept, Live
  <2>2. Cardinality(Kept(stamp[c.req])) = 0
    BY <2>1, FS_EmptySet
  <2>3. Limit[c.req] \in 1..MaxLimit /\ MaxLimit \in Nat
    BY RateLimiterAssumption DEF TypeOK, Command
  <2> QED  BY <2>2, <2>3 DEF Reject
<1> QED  BY <1>1, <1>2 DEF AdmittedAfter, HeldAfter

----------------------------------------------------------------------------
(* The set against the history *)

MembersAfter(t) == {m \in zset : m.score > t}

\* The set never holds more than was admitted, and not lost since.
NoInventedMember ==
  \A t \in Int : Cardinality(MembersAfter(t)) <= Cardinality(HeldAfter(t))

\* The counts are of finite sets.
LEMMA MembersFinite ==
  ASSUME Bookkeeping, NEW t
  PROVE  /\ IsFiniteSet(MembersAfter(t)) /\ Cardinality(MembersAfter(t)) \in Nat
         /\ IsFiniteSet(HeldAfter(t)) /\ Cardinality(HeldAfter(t)) \in Nat
         /\ IsFiniteSet(AdmittedAfter(t)) /\ Cardinality(AdmittedAfter(t)) \in Nat
         /\ Cardinality(HeldAfter(t)) <= Cardinality(AdmittedAfter(t))
<1>1. /\ MembersAfter(t) \subseteq zset /\ AdmittedAfter(t) \subseteq admitted
      /\ HeldAfter(t) \subseteq AdmittedAfter(t)
  BY DEF MembersAfter, AdmittedAfter, HeldAfter
<1>2. IsFiniteSet(MembersAfter(t)) /\ IsFiniteSet(AdmittedAfter(t))
  BY <1>1, FS_Subset DEF Bookkeeping
<1> QED  BY <1>1, <1>2, FS_Subset, FS_CardinalityType

\* One element more is one more at most, and one more if it is new.
LEMMA OneMore ==
  ASSUME NEW S, NEW x, IsFiniteSet(S), NEW T, T \subseteq S \cup {x}
  PROVE  /\ Cardinality(S) \in Nat /\ Cardinality(T) \in Nat
         /\ Cardinality(T) <= Cardinality(S) + 1
         /\ T \subseteq S => Cardinality(T) <= Cardinality(S)
         /\ T = S \cup {x} /\ x \notin S => Cardinality(T) = Cardinality(S) + 1
<1>1. /\ IsFiniteSet(S \cup {x}) /\ Cardinality(S) \in Nat
      /\ Cardinality(S \cup {x})
           = IF x \in S THEN Cardinality(S) ELSE Cardinality(S) + 1
  BY FS_AddElement, FS_CardinalityType
<1>2. IsFiniteSet(T) /\ Cardinality(T) <= Cardinality(S \cup {x})
  BY <1>1, FS_Subset
<1>3. Cardinality(T) \in Nat
  BY <1>2, FS_CardinalityType
<1>4. T \subseteq S => Cardinality(T) <= Cardinality(S)
  BY FS_Subset
<1> QED  BY <1>1, <1>2, <1>3, <1>4

\* A step that only removes members keeps the comparison.
LEMMA ShrinkingSet ==
  ASSUME Bookkeeping, NoInventedMember, zset' \subseteq zset,
         \A t \in Int : HeldAfter(t)' = HeldAfter(t)
  PROVE  NoInventedMember'
<1> SUFFICES ASSUME NEW t \in Int
    PROVE Cardinality(MembersAfter(t)') <= Cardinality(HeldAfter(t)')
  BY DEF NoInventedMember
<1>1. MembersAfter(t)' \subseteq MembersAfter(t)
  BY DEF MembersAfter
<1>2. IsFiniteSet(MembersAfter(t)) /\ Cardinality(MembersAfter(t)) \in Nat
  BY MembersFinite
<1>3. /\ Cardinality(MembersAfter(t)') <= Cardinality(MembersAfter(t))
      /\ Cardinality(MembersAfter(t)') \in Nat
  BY <1>1, <1>2, FS_Subset, FS_CardinalityType
<1>4. Cardinality(HeldAfter(t)) \in Nat
  BY MembersFinite
<1> QED  BY <1>2, <1>3, <1>4 DEF NoInventedMember

\* A script that records adds to the history at least what it adds to the set.
LEMMA RecordInventsNothing ==
  ASSUME TypeOK, Bookkeeping, NoInventedMember,
         NEW c \in commands, RunScript(c), Record(c), NEW t \in Int
  PROVE  Cardinality(MembersAfter(t)') <= Cardinality(HeldAfter(t)')
<1> DEFINE s == stamp[c.req]
<1>1. PICK m :
        /\ m.score = s /\ zset' = Kept(s) \cup {m}
        /\ \/ m \in Kept(s) /\ HeldAfter(t)' = HeldAfter(t)
           \/ HeldAfter(t)' = IF s > t THEN HeldAfter(t) \cup {c}
                                       ELSE HeldAfter(t)
           \/ Kept(s) = {} /\ HeldAfter(t)' = IF s > t THEN {c} ELSE {}
  BY RecordSteps
<1>2. Kept(s) \subseteq zset
  BY DEF Kept, Live
<1>3. /\ IsFiniteSet(MembersAfter(t)) /\ IsFiniteSet(HeldAfter(t))
      /\ Cardinality(MembersAfter(t)) \in Nat /\ Cardinality(HeldAfter(t)) \in Nat
      /\ Cardinality(MembersAfter(t)) <= Cardinality(HeldAfter(t))
  BY MembersFinite DEF NoInventedMember
<1>4. c \notin HeldAfter(t)
  BY DEF HeldAfter, AdmittedAfter, Bookkeeping
<1>5. /\ MembersAfter(t)' \subseteq MembersAfter(t) \cup {m}
      /\ (m \in Kept(s) \/ ~(s > t)) => MembersAfter(t)' \subseteq MembersAfter(t)
  BY <1>1, <1>2 DEF MembersAfter
<1> HIDE DEF s
<1>6. /\ Cardinality(MembersAfter(t)') \in Nat
      /\ Cardinality(MembersAfter(t)') <= Cardinality(MembersAfter(t)) + 1
      /\ MembersAfter(t)' \subseteq MembersAfter(t)
           => Cardinality(MembersAfter(t)') <= Cardinality(MembersAfter(t))
  BY <1>3, <1>5, OneMore
<1>7. CASE m \in Kept(s) /\ HeldAfter(t)' = HeldAfter(t)
  BY <1>3, <1>5, <1>6, <1>7
<1>8. CASE HeldAfter(t)' = IF s > t THEN HeldAfter(t) \cup {c}
                                    ELSE HeldAfter(t)
  <2>1. CASE s > t
    <3>1. Cardinality(HeldAfter(t)') = Cardinality(HeldAfter(t)) + 1
      BY <1>3, <1>4, <1>8, <2>1, FS_AddElement
    <3> QED  BY <1>3, <1>6, <3>1
  <2>2. CASE ~(s > t)
    BY <1>3, <1>5, <1>6, <1>8, <2>2
  <2> QED  BY <2>1, <2>2
<1>9. CASE Kept(s) = {} /\ HeldAfter(t)' = IF s > t THEN {c} ELSE {}
  <2>1. CASE s > t
    <3>1. MembersAfter(t)' = {m} /\ HeldAfter(t)' = {c}
      BY <1>1, <1>9, <2>1 DEF MembersAfter
    <3>2. Cardinality({m}) = 1 /\ Cardinality({c}) = 1
      BY FS_Singleton
    <3> QED  BY <3>1, <3>2
  <2>2. CASE ~(s > t)
    <3>1. MembersAfter(t)' = {} /\ HeldAfter(t)' = {}
      BY <1>1, <1>9, <2>2 DEF MembersAfter
    <3> QED  BY <3>1, FS_EmptySet
  <2> QED  BY <2>1, <2>2
<1> QED  BY <1>1, <1>7, <1>8, <1>9

\* Trimming only makes the set smaller than the history, and a key that
\* expires or is evicted takes both with it (rate_limit.lua:25, :47-53).
THEOREM NoInventedMemberHolds == Spec => []NoInventedMember
<1>1. Init => NoInventedMember
  <2> SUFFICES ASSUME Init, NEW t \in Int
      PROVE Cardinality(MembersAfter(t)) <= Cardinality(HeldAfter(t))
    BY DEF NoInventedMember
  <2>1. MembersAfter(t) = {} /\ HeldAfter(t) = {}
    BY DEF Init, MembersAfter, AdmittedAfter, HeldAfter
  <2> QED  BY <2>1, FS_EmptySet
<1>2. TypeOK /\ Bookkeeping /\ NoInventedMember /\ [Next]_vars
        => NoInventedMember'
  <2> SUFFICES ASSUME TypeOK, Bookkeeping, NoInventedMember, [Next]_vars
      PROVE NoInventedMember'
    OBVIOUS
  <2>1. ASSUME NEW c \in commands, RunScript(c), Reject(c)
        PROVE NoInventedMember'
    <3>1. zset' \subseteq zset
      BY <2>1 DEF Reject, Kept, Live
    <3>2. \A t \in Int : HeldAfter(t)' = HeldAfter(t)
      BY <2>1, RejectSteps
    <3> QED  BY <3>1, <3>2, ShrinkingSet
  <2>2. ASSUME NEW c \in commands, RunScript(c), Record(c)
        PROVE NoInventedMember'
    BY <2>2, RecordInventsNothing DEF NoInventedMember
  <2>3. CASE ~Evict /\ ~ \E c \in commands : RunScript(c)
    <3>1. \A t \in Int : HeldAfter(t)' = HeldAfter(t)
      BY <2>3, AdmittedStays
    <3>2. zset' \subseteq zset
      BY <2>3 DEF Next, Serve, Evaluate, Resend, FailOpen, Decide, LoseCommand, Evict, Tick, redis, vars
    <3> QED  BY <3>1, <3>2, ShrinkingSet
  <2>4. CASE Evict
    <3>1. \A t \in Int : MembersAfter(t)' = {} /\ HeldAfter(t)' = {}
      BY <2>4 DEF Evict, MembersAfter, AdmittedAfter, HeldAfter
    <3> QED  BY <3>1, FS_EmptySet DEF NoInventedMember
  <2> QED  BY <2>1, <2>2, <2>3, <2>4 DEF RunScript
<1> QED  BY <1>1, <1>2, Typing, BookkeepingHolds, PTL DEF Spec

\* What a script counts are members of its window.
LEMMA KeptAreMembers ==
  ASSUME Bookkeeping, NEW s
  PROVE  /\ Cardinality(Kept(s)) <= Cardinality(MembersAfter(s - Window))
         /\ IsFiniteSet(Kept(s)) /\ Cardinality(Kept(s)) \in Nat
         /\ Cardinality(MembersAfter(s - Window)) \in Nat
<1>1. Kept(s) \subseteq MembersAfter(s - Window)
  BY DEF Kept, Live, MembersAfter
<1>2. /\ IsFiniteSet(MembersAfter(s - Window))
      /\ Cardinality(MembersAfter(s - Window)) \in Nat
  BY MembersFinite
<1>3. IsFiniteSet(Kept(s))
  BY KeptFinite DEF Bookkeeping
<1> QED  BY <1>1, <1>2, <1>3, FS_Subset, FS_CardinalityType

\* A rejected request has had its limit admitted in its window, whatever is
\* lost, repeated, late, colliding or evicted.
THEOREM RejectsAreJustified == Spec => NoFalseReject
<1>1. TypeOK /\ Bookkeeping /\ NoInventedMember /\ [Next]_vars
        => [\A r \in Requests :
              reply[r] # "reject" /\ reply'[r] = "reject"
                => Cardinality(AdmittedAfter(stamp[r] - Window)) >= Limit[r]]_vars
  <2> SUFFICES ASSUME TypeOK, Bookkeeping, NoInventedMember, Next,
                      NEW r \in Requests,
                      reply[r] # "reject", reply'[r] = "reject"
      PROVE Cardinality(AdmittedAfter(stamp[r] - Window)) >= Limit[r]
    BY DEF vars
  <2>1. PICK c \in commands : RunScript(c)
    BY DEF Next, Serve, Evaluate, Resend, FailOpen, Decide, LoseCommand, Evict, Tick, Send, Forget, TypeOK, NoReply, vars
  <2>2. Reject(c) /\ c.req = r
    BY <2>1 DEF RunScript, Reject, Record, Admission, Answered, TypeOK
  <2>3. Cardinality(Kept(stamp[r])) >= Limit[r]
    BY <2>2 DEF Reject
  <2>4. stamp[r] - Window \in Int /\ Limit[r] \in Nat
    BY RateLimiterAssumption DEF TypeOK
  <2>5. Cardinality(MembersAfter(stamp[r] - Window))
          <= Cardinality(HeldAfter(stamp[r] - Window))
    BY <2>4 DEF NoInventedMember
  <2>6. /\ Cardinality(HeldAfter(stamp[r] - Window)) \in Nat
        /\ Cardinality(AdmittedAfter(stamp[r] - Window)) \in Nat
        /\ Cardinality(HeldAfter(stamp[r] - Window))
             <= Cardinality(AdmittedAfter(stamp[r] - Window))
    BY MembersFinite
  <2> QED  BY <2>3, <2>4, <2>5, <2>6, KeptAreMembers
<1> QED
  BY <1>1, Typing, BookkeepingHolds, NoInventedMemberHolds, PTL
  DEF Spec, NoFalseReject

----------------------------------------------------------------------------
(* What Redis holds *)

\* A script leaves no more members than the limit it was sent with, or fewer
\* than there were.
SetBounded == Cardinality(zset) <= MaxLimit

\* What Redis holds for a user is bounded, in any schedule, with any clocks
\* and any life of the key (rate_limit.lua:25-41).
THEOREM SetIsBounded == Spec => []SetBounded
<1>1. Init => SetBounded
  BY FS_EmptySet, RateLimiterAssumption DEF Init, SetBounded
<1>2. TypeOK /\ Bookkeeping /\ Bookkeeping' /\ SetBounded /\ [Next]_vars
        => SetBounded'
  <2> SUFFICES ASSUME TypeOK, Bookkeeping, Bookkeeping', SetBounded,
                      [Next]_vars
      PROVE SetBounded'
    OBVIOUS
  <2>0. MaxLimit \in Nat
    BY RateLimiterAssumption
  <2>1. ASSUME zset' \subseteq zset PROVE SetBounded'
    <3>1. /\ Cardinality(zset') <= Cardinality(zset)
          /\ Cardinality(zset') \in Nat /\ Cardinality(zset) \in Nat
      BY <2>1, FS_Subset, FS_CardinalityType DEF Bookkeeping
    <3> QED  BY <2>0, <3>1 DEF SetBounded
  <2>2. ASSUME NEW c \in commands, RunScript(c), Record(c) PROVE SetBounded'
    <3> DEFINE kept == Kept(stamp[c.req])
    <3>1. IsFiniteSet(kept) /\ Cardinality(kept) \in Nat
      BY KeptAreMembers
    <3>2. PICK m : zset' = kept \cup {m}
      BY <2>2 DEF Record
    <3>3. Cardinality(zset') \in {Cardinality(kept), Cardinality(kept) + 1}
      <4> HIDE DEF kept
      <4> QED  BY <3>1, <3>2, FS_AddElement
    <3>4. Cardinality(kept) < Limit[c.req] /\ Limit[c.req] \in 1..MaxLimit
      BY <2>2, RateLimiterAssumption DEF Record, TypeOK, Command
    <3> HIDE DEF kept
    <3> QED  BY <2>0, <3>1, <3>3, <3>4 DEF SetBounded
  <2>3. ASSUME NEW c \in commands, RunScript(c), Reject(c) PROVE SetBounded'
    BY <2>1, <2>3 DEF Reject, Kept, Live
  <2>4. CASE ~ \E c \in commands : RunScript(c)
    <3>1. zset' \subseteq zset
      BY <2>4 DEF Next, Serve, Evaluate, Resend, FailOpen, Decide,
                  LoseCommand, Evict, Tick, redis, vars
    <3> QED  BY <2>1, <3>1
  <2> QED  BY <2>2, <2>3, <2>4 DEF RunScript
<1> QED  BY <1>1, <1>2, Typing, BookkeepingHolds, PTL DEF Spec

----------------------------------------------------------------------------
(* The life of the key *)

\* A key lives Ttl from the execution that wrote it last, and a script runs
\* no earlier than its stamp was taken.
KeyLife ==
  /\ \A r \in Requests : pc[r] # "idle" => stamp[r] <= now + Skew[r]
  /\ expireAt <= now + Ttl
  /\ \A d \in admitted \ expired :
       stamp[d.req] + Ttl <= expireAt + Skew[d.req]

\* The life of the key is never shortened.
THEOREM KeyLifeHolds == Spec => []KeyLife
<1>1. Init => KeyLife
  BY RateLimiterAssumption DEF Init, KeyLife
<1>2. TypeOK /\ Bookkeeping /\ KeyLife /\ [Next]_vars => KeyLife'
  <2> SUFFICES ASSUME TypeOK, Bookkeeping, KeyLife, [Next]_vars
      PROVE KeyLife'
    OBVIOUS
  <2>0. /\ now \in Nat /\ expireAt \in Nat /\ Ttl \in Nat
        /\ \A r \in Requests : stamp[r] \in Nat /\ Skew[r] \in Nat
        /\ \A c \in commands \cup admitted : c.req \in Requests
    BY RateLimiterAssumption DEF TypeOK, Command
  <2>1. ASSUME NEW r \in Requests, Evaluate(r) PROVE KeyLife'
    <3>1. \A q \in Requests : pc'[q] # "idle" => stamp'[q] <= now' + Skew[q]
      BY <2>0, <2>1 DEF Evaluate, Goto, TypeOK, KeyLife
    <3>2. \A d \in admitted : stamp'[d.req] = stamp[d.req]
      BY <2>1 DEF Evaluate, Goto, TypeOK, Bookkeeping, Command
    <3> QED  BY <2>1, <3>1, <3>2 DEF Evaluate, redis, KeyLife
  <2>2. ASSUME NEW r \in Requests, Serve(r) PROVE KeyLife'
    <3>1. UNCHANGED <<now, stamp, expireAt, admitted, expired>>
      BY <2>2 DEF Serve, Resend, FailOpen, Decide, redis
    <3>2. \A q \in Requests : pc'[q] # "idle" => pc[q] # "idle"
      BY <2>2 DEF Serve, Resend, FailOpen, Decide, Goto, TypeOK
    <3> QED  BY <3>1, <3>2 DEF KeyLife
  <2>3. ASSUME NEW c \in commands, RunScript(c), Reject(c) PROVE KeyLife'
    BY <2>3 DEF RunScript, Reject, KeyLife
  <2>4. ASSUME NEW c \in commands, RunScript(c), Record(c) PROVE KeyLife'
    <3>1. /\ UNCHANGED <<now, pc, stamp>> /\ expireAt' = now + Ttl
          /\ admitted' = admitted \cup {c}
          /\ expired' = expired \/ expired' = admitted
      BY <2>4 DEF RunScript, Record
    <3>2. stamp[c.req] <= now + Skew[c.req]
      BY <2>0 DEF Bookkeeping, KeyLife
    <3>3. \A d \in admitted' \ expired' :
            stamp[d.req] + Ttl <= expireAt' + Skew[d.req]
      <4> SUFFICES ASSUME NEW d \in admitted' \ expired'
          PROVE stamp[d.req] + Ttl <= now + Ttl + Skew[d.req]
        BY <3>1
      <4>1. CASE d = c
        BY <2>0, <3>2, <4>1
      <4>2. CASE d # c
        <5>1. d \in admitted \ expired
          BY <3>1, <4>2
        <5>2. stamp[d.req] + Ttl <= expireAt + Skew[d.req]
          BY <5>1 DEF KeyLife
        <5> QED  BY <2>0, <5>1, <5>2 DEF KeyLife
      <4> QED  BY <4>1, <4>2
    <3> QED  BY <2>0, <3>1, <3>3 DEF KeyLife
  <2>5. ASSUME NEW c \in commands, LoseCommand(c) PROVE KeyLife'
    BY <2>5 DEF LoseCommand, redis, KeyLife
  <2>6. CASE Evict
    BY <2>6 DEF Evict, KeyLife
  <2>7. CASE Tick
    BY <2>0, <2>7 DEF Tick, redis, KeyLife
  <2>8. CASE UNCHANGED vars
    BY <2>8 DEF vars, KeyLife
  <2> QED
    BY <2>1, <2>2, <2>3, <2>4, <2>5, <2>6, <2>7, <2>8 DEF Next, RunScript
<1> QED  BY <1>1, <1>2, Typing, BookkeepingHolds, PTL DEF Spec

\* A key that expires takes an execution of the window only from a script that
\* is late by more than the margin of the key's life leaves over the clock
\* difference, in any schedule (rate_limit.lua:50-54).
THEOREM KeyOutlives == Spec => KeyOutlivesWindow
<1>1. TypeOK /\ Bookkeeping /\ KeyLife /\ [Next]_vars
        => [\A c \in commands, d \in expired' \ expired :
              RunScript(c) /\ stamp[d.req] > stamp[c.req] - Window
                => now - stamp[c.req] > Ttl - Window - Skew[d.req]]_vars
  <2> SUFFICES ASSUME TypeOK, KeyLife, NEW c \in commands,
                      NEW d \in expired' \ expired, RunScript(c),
                      stamp[d.req] > stamp[c.req] - Window
      PROVE now - stamp[c.req] > Ttl - Window - Skew[d.req]
    OBVIOUS
  <2>1. Live # zset /\ d \in admitted \ expired
    BY DEF RunScript, Reject, Record
  <2>2. ~(now < expireAt)
    BY <2>1 DEF Live
  <2>3. stamp[d.req] + Ttl <= expireAt + Skew[d.req]
    BY <2>1 DEF KeyLife
  <2>4. /\ now \in Nat /\ expireAt \in Nat /\ Ttl \in Nat /\ Window \in Nat
        /\ stamp[c.req] \in Nat /\ stamp[d.req] \in Nat /\ Skew[d.req] \in Nat
    BY <2>1, RateLimiterAssumption DEF TypeOK, Command
  <2> QED  BY <2>2, <2>3, <2>4
<1> QED
  BY <1>1, Typing, BookkeepingHolds, KeyLifeHolds, PTL
  DEF Spec, KeyOutlivesWindow

----------------------------------------------------------------------------
(* The window is bounded *)

\* Within the current window nothing is missing from the set but what went
\* with the key or drew a member the set had.
NoLostMember ==
  \A t \in Int : t + Window >= latest =>
    Cardinality(HeldAfter(t)) <= Cardinality(MembersAfter(t))

\* Of the window that is current after a script on a key that lives, the
\* script keeps all members.
LEMMA ScriptKeepsWindow ==
  ASSUME TypeOK, NEW c \in commands, Live = zset,
         NEW t \in Int, t + Window >= stamp[c.req]
  PROVE  \A k \in zset : k.score > t => k \in Kept(stamp[c.req])
<1> DEFINE s == stamp[c.req]
<1>1. Window \in Nat /\ s \in Nat /\ t + Window >= s
  BY RateLimiterAssumption DEF TypeOK, Command
<1> SUFFICES ASSUME NEW k \in zset, k.score > t PROVE k \in Kept(s)
  OBVIOUS
<1>2. k.score \in Nat
  BY DEF TypeOK, Member
<1>3. k.score > s - Window
  <2> HIDE DEF s
  <2> QED  BY <1>1, <1>2
<1> QED  BY <1>3 DEF Kept

\* Recording: one more execution, one more member, unless the member was there.
LEMMA RecordKeepsMembers ==
  ASSUME TypeOK, Bookkeeping, NoLostMember,
         NEW c \in commands, RunScript(c), Record(c)
  PROVE  NoLostMember'
<1> DEFINE s == stamp[c.req]
<1> SUFFICES ASSUME NEW t \in Int, t + Window >= latest'
    PROVE Cardinality(HeldAfter(t)') <= Cardinality(MembersAfter(t)')
  BY DEF NoLostMember
<1>1. Window \in Nat /\ s \in Nat /\ latest \in Nat
  BY RateLimiterAssumption DEF TypeOK, Command
<1>2. t + Window >= s /\ t + Window >= latest
  BY <1>1 DEF RunScript, Later
<1>3. PICK m :
        /\ m.score = s /\ zset' = Kept(s) \cup {m}
        /\ \/ /\ m \in Kept(s) /\ Live = zset
              /\ HeldAfter(t)' = HeldAfter(t)
           \/ /\ m \notin Kept(s) /\ Live = zset
              /\ HeldAfter(t)' = IF s > t THEN HeldAfter(t) \cup {c}
                                          ELSE HeldAfter(t)
           \/ Kept(s) = {} /\ HeldAfter(t)' = IF s > t THEN {c} ELSE {}
  BY RecordSteps
<1>4. Live = zset => \A k \in zset : k.score > t => k \in Kept(s)
  BY <1>2, ScriptKeepsWindow
<1>5. Kept(s) \subseteq zset
  BY DEF Kept, Live
<1>6. /\ IsFiniteSet(MembersAfter(t)) /\ IsFiniteSet(HeldAfter(t))
      /\ Cardinality(MembersAfter(t)) \in Nat /\ Cardinality(HeldAfter(t)) \in Nat
      /\ Cardinality(HeldAfter(t)) <= Cardinality(MembersAfter(t))
  BY <1>2, MembersFinite DEF NoLostMember
<1>7. c \notin HeldAfter(t)
  BY DEF HeldAfter, AdmittedAfter, Bookkeeping
<1> HIDE DEF s
<1>8. CASE m \in Kept(s) /\ Live = zset /\ HeldAfter(t)' = HeldAfter(t)
  <2>1. MembersAfter(t)' = MembersAfter(t)
    BY <1>3, <1>4, <1>5, <1>8 DEF MembersAfter
  <2> QED  BY <1>6, <1>8, <2>1
<1>9. CASE /\ m \notin Kept(s) /\ Live = zset
           /\ HeldAfter(t)' = IF s > t THEN HeldAfter(t) \cup {c}
                                       ELSE HeldAfter(t)
  <2>1. CASE s > t
    <3>1. m \notin MembersAfter(t) /\ MembersAfter(t)' = MembersAfter(t) \cup {m}
      BY <1>3, <1>4, <1>5, <1>9, <2>1 DEF MembersAfter
    <3>2. /\ Cardinality(MembersAfter(t)') = Cardinality(MembersAfter(t)) + 1
          /\ Cardinality(HeldAfter(t)') = Cardinality(HeldAfter(t)) + 1
      BY <1>6, <1>7, <1>9, <2>1, <3>1, FS_AddElement
    <3> QED  BY <1>6, <3>2
  <2>2. CASE ~(s > t)
    <3>1. MembersAfter(t)' = MembersAfter(t)
      BY <1>3, <1>4, <1>5, <1>9, <2>2 DEF MembersAfter
    <3> QED  BY <1>6, <1>9, <2>2, <3>1
  <2> QED  BY <2>1, <2>2
<1>10. CASE Kept(s) = {} /\ HeldAfter(t)' = IF s > t THEN {c} ELSE {}
  <2>1. CASE s > t
    <3>1. MembersAfter(t)' = {m} /\ HeldAfter(t)' = {c}
      BY <1>3, <1>10, <2>1 DEF MembersAfter
    <3>2. Cardinality({m}) = 1 /\ Cardinality({c}) = 1
      BY FS_Singleton
    <3> QED  BY <3>1, <3>2
  <2>2. CASE ~(s > t)
    <3>1. MembersAfter(t)' = {} /\ HeldAfter(t)' = {}
      BY <1>3, <1>10, <2>2 DEF MembersAfter
    <3> QED  BY <3>1, FS_EmptySet
  <2> QED  BY <2>1, <2>2
<1> QED  BY <1>3, <1>8, <1>9, <1>10

\* Rejecting: the members of the window stay.
LEMMA RejectKeepsMembers ==
  ASSUME TypeOK, NoLostMember, NEW c \in commands, RunScript(c), Reject(c)
  PROVE  NoLostMember'
<1> DEFINE s == stamp[c.req]
<1> SUFFICES ASSUME NEW t \in Int, t + Window >= latest'
    PROVE Cardinality(HeldAfter(t)') <= Cardinality(MembersAfter(t)')
  BY DEF NoLostMember
<1>1. Window \in Nat /\ s \in Nat /\ latest \in Nat
  BY RateLimiterAssumption DEF TypeOK, Command
<1>2. t + Window >= s /\ t + Window >= latest
  BY <1>1 DEF RunScript, Later
<1>3. /\ Live = zset /\ zset' = Kept(s) /\ Kept(s) \subseteq zset
      /\ HeldAfter(t)' = HeldAfter(t)
  BY RejectSteps DEF Kept, Live
<1>4. \A k \in zset : k.score > t => k \in Kept(s)
  BY <1>2, <1>3, ScriptKeepsWindow
<1>5. MembersAfter(t)' = MembersAfter(t)
  BY <1>3, <1>4 DEF MembersAfter
<1> QED  BY <1>2, <1>3, <1>5 DEF NoLostMember

\* Nothing else of the current window is lost, in any schedule.
THEOREM NoLostMemberHolds == Spec => []NoLostMember
<1>1. Init => NoLostMember
  <2> SUFFICES ASSUME Init PROVE NoLostMember
    OBVIOUS
  <2>1. \A t : MembersAfter(t) = {} /\ HeldAfter(t) = {}
    BY DEF Init, MembersAfter, AdmittedAfter, HeldAfter
  <2> QED  BY <2>1, FS_EmptySet DEF NoLostMember
<1>2. TypeOK /\ Bookkeeping /\ NoLostMember /\ [Next]_vars => NoLostMember'
  <2> SUFFICES ASSUME TypeOK, Bookkeeping, NoLostMember, [Next]_vars
      PROVE NoLostMember'
    OBVIOUS
  <2>1. CASE \E c \in commands : RunScript(c)
    BY <2>1, RecordKeepsMembers, RejectKeepsMembers DEF RunScript
  <2>2. CASE ~Evict /\ ~ \E c \in commands : RunScript(c)
    <3>1. UNCHANGED <<zset, latest>>
      BY <2>2 DEF Next, Serve, Evaluate, Resend, FailOpen, Decide, LoseCommand,
                  Evict, Tick, redis, vars
    <3>2. \A t \in Int : /\ HeldAfter(t)' = HeldAfter(t)
                         /\ MembersAfter(t)' = MembersAfter(t)
      BY <2>2, <3>1, AdmittedStays DEF MembersAfter
    <3> QED  BY <3>1, <3>2 DEF NoLostMember
  <2>3. CASE Evict
    <3>1. \A t \in Int : MembersAfter(t)' = {} /\ HeldAfter(t)' = {}
      BY <2>3 DEF Evict, MembersAfter, AdmittedAfter, HeldAfter
    <3> QED  BY <3>1, FS_EmptySet DEF NoLostMember
  <2> QED  BY <2>1, <2>2, <2>3
<1> QED  BY <1>1, <1>2, Typing, BookkeepingHolds, PTL DEF Spec

\* The current window never holds more admitted executions than the largest
\* limit, not counting those that drew a member the set had or went with the
\* key (rate_limit.lua:24-41).
THEOREM WindowIsBounded == Spec => []WindowBounded
<1>1. TypeOK /\ Bookkeeping /\ SetBounded /\ NoLostMember => WindowBounded
  <2> SUFFICES ASSUME TypeOK, Bookkeeping, SetBounded, NoLostMember
      PROVE WindowBounded
    OBVIOUS
  <2> DEFINE t == latest - Window
  <2>1. t \in Int /\ t + Window >= latest /\ MaxLimit \in Nat
    BY RateLimiterAssumption DEF TypeOK
  <2>2. Cardinality(HeldAfter(t)) <= Cardinality(MembersAfter(t))
    BY <2>1 DEF NoLostMember
  <2>3. MembersAfter(t) \subseteq zset /\ IsFiniteSet(zset)
    BY DEF MembersAfter, Bookkeeping
  <2>4. /\ Cardinality(MembersAfter(t)) <= Cardinality(zset)
        /\ Cardinality(zset) \in Nat
    BY <2>3, FS_Subset, FS_CardinalityType
  <2>5. /\ Cardinality(MembersAfter(t)) \in Nat
        /\ Cardinality(HeldAfter(t)) \in Nat
    BY MembersFinite
  <2>6. Cardinality(zset) <= MaxLimit
    BY DEF SetBounded
  <2> HIDE DEF t
  <2>7. Cardinality(HeldAfter(t)) <= MaxLimit
    BY <2>1, <2>2, <2>4, <2>5, <2>6
  <2> QED  BY <2>7 DEF WindowBounded, t
<1> QED
  BY <1>1, Typing, BookkeepingHolds, SetIsBounded, NoLostMemberHolds, PTL

----------------------------------------------------------------------------
(* What is left of the bound when members collide *)

\* Each stamp of the current window that was admitted, and not lost with the
\* key, has a member.
NoLostStamp ==
  \A d \in admitted \ expired :
    stamp[d.req] + Window > latest => \E m \in zset : m.score = stamp[d.req]

\* Also with collisions every such stamp stays in the set.
THEOREM NoLostStampHolds == Spec => []NoLostStamp
<1>1. Init => NoLostStamp
  BY DEF Init, NoLostStamp
<1>2. TypeOK /\ Bookkeeping /\ NoLostStamp /\ [Next]_vars => NoLostStamp'
  <2> SUFFICES ASSUME TypeOK, Bookkeeping, NoLostStamp, [Next]_vars
      PROVE NoLostStamp'
    OBVIOUS
  <2>1. ASSUME NEW c \in commands, RunScript(c) PROVE NoLostStamp'
    <3>1. Window \in Nat /\ stamp[c.req] \in Nat /\ latest \in Nat
      BY RateLimiterAssumption DEF TypeOK, Command
    <3>2. /\ stamp' = stamp /\ latest' \in Nat
          /\ latest' >= stamp[c.req] /\ latest' >= latest
      BY <2>1, <3>1 DEF RunScript, Later
    <3> SUFFICES ASSUME NEW d \in admitted' \ expired',
                        stamp[d.req] + Window > latest'
        PROVE \E m \in zset' : m.score = stamp[d.req]
      BY <3>2 DEF NoLostStamp
    <3>3. CASE Record(c) /\ d = c
      BY <3>3 DEF Record
    <3>4. CASE d \in admitted
      <4> DEFINE t == stamp[d.req] - 1
      <4>1. stamp[d.req] \in Nat
        BY <3>4 DEF TypeOK, Command
      <4>2. stamp[d.req] + Window > latest
        BY <3>1, <3>2, <4>1
      <4>3. Live = zset /\ d \notin expired
        BY <2>1, <3>4, RejectSteps DEF RunScript, Record
      <4>4. PICK m \in zset : m.score = stamp[d.req]
        BY <3>4, <4>2, <4>3 DEF NoLostStamp
      <4>5. t \in Int /\ stamp[d.req] > t /\ t + Window >= stamp[c.req]
        BY <3>1, <3>2, <4>1
      <4>6. m \in Kept(stamp[c.req])
        <5> HIDE DEF t
        <5> QED  BY <4>3, <4>4, <4>5, ScriptKeepsWindow
      <4>7. Kept(stamp[c.req]) \subseteq zset'
        BY <2>1 DEF RunScript, Reject, Record
      <4> QED  BY <4>4, <4>6, <4>7
    <3> QED  BY <2>1, <3>3, <3>4 DEF RunScript, Reject, Record
  <2>2. CASE ~Evict /\ ~ \E c \in commands : RunScript(c)
    <3>1. UNCHANGED <<zset, latest>>
      BY <2>2 DEF Next, Serve, Evaluate, Resend, FailOpen, Decide, LoseCommand,
                  Evict, Tick, redis, vars
    <3>2. /\ UNCHANGED <<admitted, expired>>
          /\ \A d \in admitted : stamp'[d.req] = stamp[d.req]
      BY <2>2, AdmittedStays
    <3> QED  BY <3>1, <3>2 DEF NoLostStamp
  <2>3. CASE Evict
    BY <2>3 DEF Evict, NoLostStamp
  <2> QED  BY <2>1, <2>2, <2>3
<1> QED  BY <1>1, <1>2, Typing, BookkeepingHolds, PTL DEF Spec

\* What was admitted in the current window, and not lost with an expired key,
\* came in no more milliseconds than the largest limit, however math.random
\* draws (rate_limit.lua:43-48).
THEOREM StampsAreBounded == Spec => []StampsBounded
<1>1. TypeOK /\ Bookkeeping /\ SetBounded /\ NoLostStamp => StampsBounded
  <2> SUFFICES ASSUME TypeOK, Bookkeeping, SetBounded, NoLostStamp
      PROVE StampsBounded
    OBVIOUS
  <2> DEFINE S == {stamp[c.req] : c \in AdmittedAfter(latest - Window) \ expired}
             f == [x \in S |-> CHOOSE m \in zset : m.score = x]
  <2>1. \A x \in S : \E m \in zset : m.score = x
    <3> SUFFICES ASSUME NEW d \in admitted \ expired,
                        stamp[d.req] > latest - Window
        PROVE \E m \in zset : m.score = stamp[d.req]
      BY DEF AdmittedAfter
    <3>1. stamp[d.req] \in Nat /\ latest \in Nat /\ Window \in Nat
      BY RateLimiterAssumption DEF TypeOK, Command
    <3>2. stamp[d.req] + Window > latest
      BY <3>1
    <3> QED  BY <3>2 DEF NoLostStamp
  <2>2. \A x \in S : f[x] \in zset /\ f[x].score = x
    BY <2>1
  <2>3. f \in Injection(S, zset)
    <3> HIDE DEF S
    <3> QED  BY <2>2 DEF Injection, IsInjective
  <2>4. IsFiniteSet(zset) /\ Cardinality(zset) \in Nat
    BY FS_CardinalityType DEF Bookkeeping
  <2>5. IsFiniteSet(S) /\ Cardinality(S) <= Cardinality(zset)
    <3> HIDE DEF S, f
    <3> QED  BY <2>3, <2>4, FS_Injection
  <2>6. Cardinality(S) \in Nat
    BY <2>5, FS_CardinalityType
  <2>7. Cardinality(zset) <= MaxLimit /\ MaxLimit \in Nat
    BY RateLimiterAssumption DEF SetBounded
  <2> HIDE DEF S
  <2>8. Cardinality(S) <= MaxLimit
    BY <2>4, <2>5, <2>6, <2>7
  <2> QED  BY <2>8 DEF StampsBounded, S
<1> QED
  BY <1>1, Typing, BookkeepingHolds, SetIsBounded, NoLostStampHolds, PTL

----------------------------------------------------------------------------
(* Exact decisions *)

\* A script that runs in stamp order counts what the set holds of its window:
\* nothing less (NoLostMember), nothing more (NoInventedMember).
LEMMA KeptIsExact ==
  ASSUME TypeOK, Bookkeeping, NoInventedMember, NoLostMember,
         NEW c \in commands, RunScript(c), stamp[c.req] >= latest
  PROVE  Cardinality(Kept(stamp[c.req])) =
           Cardinality(AdmittedAfter(stamp[c.req] - Window)
                         \ (expired' \cup merged))
<1> DEFINE s == stamp[c.req]
           t == s - Window
<1>1. /\ s \in Nat /\ latest \in Nat /\ Window \in Nat
      /\ t \in Int /\ t + Window >= s /\ t + Window >= latest
  BY RateLimiterAssumption DEF TypeOK, Command
<1>2. CASE Live = zset
  <2>1. \A k \in zset : k.score > t => k \in Kept(s)
    <3> HIDE DEF t
    <3> QED  BY <1>1, <1>2, ScriptKeepsWindow
  <2>2. Kept(s) = MembersAfter(t)
    BY <2>1 DEF Kept, Live, MembersAfter
  <2>3. expired' = expired
    BY <1>2 DEF RunScript, Reject, Record
  <2>4. /\ Cardinality(HeldAfter(t)) <= Cardinality(MembersAfter(t))
        /\ Cardinality(MembersAfter(t)) <= Cardinality(HeldAfter(t))
    <3> HIDE DEF t
    <3> QED  BY <1>1 DEF NoLostMember, NoInventedMember
  <2>5. /\ Cardinality(HeldAfter(t)) \in Nat
        /\ Cardinality(MembersAfter(t)) \in Nat
    BY MembersFinite
  <2> HIDE DEF s, t
  <2>6. Cardinality(Kept(s)) = Cardinality(HeldAfter(t))
    BY <2>2, <2>4, <2>5
  <2> QED  BY <2>3, <2>6 DEF HeldAfter, s, t
<1>3. CASE Live # zset
  <2>1. Kept(s) = {}
    BY <1>3 DEF Kept, Live
  <2>2. expired' = admitted
    BY <1>3, RejectSteps DEF RunScript, Record
  <2>3. AdmittedAfter(t) \ (expired' \cup merged) = {}
    BY <2>2 DEF AdmittedAfter
  <2> QED  BY <2>1, <2>3
<1> QED  BY <1>2, <1>3

\* A request whose script runs in stamp order is allowed, delayed or rejected
\* as one counter of what the set holds of its window would have it
\* (rate_limit.lua:31-66).
THEOREM DecisionsExact == Spec => DecisionsAreExact
<1>1. /\ TypeOK /\ Bookkeeping /\ NoInventedMember /\ NoLostMember
      /\ [Next]_vars
      => [\A r \in Requests :
            reply[r] = NoReply /\ reply'[r] # NoReply /\ stamp[r] >= latest
              => reply'[r] =
                   Zone(r, Cardinality(AdmittedAfter(stamp[r] - Window)
                                         \ (expired' \cup merged)))]_vars
  <2> SUFFICES ASSUME TypeOK, Bookkeeping, NoInventedMember,
                      NoLostMember, Next, NEW r \in Requests,
                      reply[r] = NoReply, reply'[r] # NoReply,
                      stamp[r] >= latest
      PROVE reply'[r] = Zone(r, Cardinality(AdmittedAfter(stamp[r] - Window)
                                              \ (expired' \cup merged)))
    BY DEF vars
  <2>1. PICK c \in commands : RunScript(c)
    BY DEF Next, Serve, Evaluate, Resend, FailOpen, Decide, LoseCommand, Evict,
           Tick, Send, Forget, TypeOK, NoReply
  <2>2. c.req = r
    BY <2>1 DEF RunScript, Reject, Record, Answered, TypeOK
  <2>3. \/ Reject(c) /\ reply'[r] = "reject"
        \/ Record(c) /\ reply'[r] = Admission(c)
    BY <2>1, <2>2 DEF RunScript, Reject, Record, Answered, TypeOK
  <2>4. Cardinality(Kept(stamp[r])) =
          Cardinality(AdmittedAfter(stamp[r] - Window)
                        \ (expired' \cup merged))
    BY <2>1, <2>2, KeptIsExact
  <2>5. Cardinality(Kept(stamp[r])) \in Nat /\ Limit[r] \in Nat
    BY KeptAreMembers, RateLimiterAssumption
  <2>6. reply'[r] = Zone(r, Cardinality(Kept(stamp[r])))
    <3>1. CASE Reject(c) /\ reply'[r] = "reject"
      BY <2>2, <3>1 DEF Reject, Zone
    <3>2. CASE Record(c) /\ reply'[r] = Admission(c)
      BY <2>2, <2>5, <3>2 DEF Record, Admission, Zone
    <3> QED  BY <2>3, <3>1, <3>2
  <2> QED  BY <2>4, <2>6
<1> QED
  BY <1>1, Typing, BookkeepingHolds, NoInventedMemberHolds,
     NoLostMemberHolds, PTL
  DEF Spec, DecisionsAreExact
=============================================================================
