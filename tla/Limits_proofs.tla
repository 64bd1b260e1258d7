---------------------------- MODULE Limits_proofs ----------------------------
(***************************************************************************)
(* Theorems about the limits kept in Redis: TenantQuota, for every cap and *)
(* any number of callers, days and calls cut short; RateLimit, for every   *)
(* set of calls and keys and every limit; LoginLimiter, for any number of  *)
(* clients and any limit.                                                  *)
(***************************************************************************)
EXTENDS TenantQuota, RateLimit, LoginLimiter, FiniteSetTheorems, TLAPS

-----------------------------------------------------------------------------
(***************************************************************************)
(* The daily cap of a workspace (TenantQuota).                             *)
(***************************************************************************)
IInv == QuotaTypeOK /\ Accounting

LEMMA AtFinite ==
    ASSUME NEW s, NEW d
    PROVE  /\ IsFiniteSet(At(s, d))
           /\ Cardinality(At(s, d)) \in Nat
BY QuotaAssumption, FS_Subset, FS_CardinalityType DEF At

LEMMA AtFiniteNext ==
    ASSUME NEW s, NEW d
    PROVE  /\ IsFiniteSet(At(s, d)')
           /\ Cardinality(At(s, d)') \in Nat
BY QuotaAssumption, FS_Subset, FS_CardinalityType DEF At

\* A set that loses an element of it is one smaller.
LEMMA LosesOne ==
    ASSUME NEW S, IsFiniteSet(S), NEW x \in S
    PROVE  Cardinality(S \ {x}) = Cardinality(S) - 1
BY FS_RemoveElement

\* A set that is joined by an element not in it is one larger.
LEMMA JoinsOne ==
    ASSUME NEW S, IsFiniteSet(S), NEW x, x \notin S
    PROVE  Cardinality(S \cup {x}) = Cardinality(S) + 1
BY FS_AddElement

LEMMA InitInv == QuotaInit => IInv
<1> SUFFICES ASSUME QuotaInit PROVE IInv
  OBVIOUS
<1>1. QuotaTypeOK
  BY QuotaAssumption DEF QuotaInit, QuotaTypeOK, Day
<1>2. ASSUME NEW d \in Day, NEW s \in {"expire", "decr"} PROVE Cardinality(At(s, d)) = 0
  <2>1. At(s, d) = {}
    BY DEF QuotaInit, At
  <2> QED
    BY <2>1, FS_EmptySet
<1> QED
  BY <1>1, <1>2, QuotaAssumption DEF QuotaInit, IInv, Accounting, DayAccounts

LEMMA TypeStep == QuotaTypeOK /\ Accounting /\ [QuotaNext]_quotaVars => QuotaTypeOK'
<1> SUFFICES ASSUME QuotaTypeOK, Accounting, [QuotaNext]_quotaVars PROVE QuotaTypeOK'
  OBVIOUS
<1> USE DEF QuotaTypeOK, keys, history
<1>1. ASSUME NEW w \in Job, Incr(w) PROVE QuotaTypeOK'
  BY <1>1 DEF Incr
<1>2. ASSUME NEW w \in Job, Expire(w) PROVE QuotaTypeOK'
  BY <1>2 DEF Expire
<1>3. ASSUME NEW w \in Job, Decr(w) PROVE QuotaTypeOK'
  <2>1. w \in At("decr", day[w]) /\ day[w] \in Day
    BY <1>3 DEF Decr, At
  <2>2. Cardinality(At("decr", day[w])) # 0
    BY <2>1, AtFinite, FS_EmptySet
  <2>3. counter[day[w]] - 1 \in Nat
    <3>1. /\ slots[day[w]] + Cardinality(At("decr", day[w])) <= counter[day[w]]
          /\ slots[day[w]] \in Nat /\ counter[day[w]] \in Nat
      BY <2>1 DEF Accounting, DayAccounts
    <3>2. Cardinality(At("decr", day[w])) \in Nat
      BY AtFinite
    <3> QED
      BY <2>2, <3>1, <3>2
  <2> QED
    BY <1>3, <2>1, <2>3 DEF Decr
<1>4. ASSUME NEW w \in Job, CutShort(w) PROVE QuotaTypeOK'
  BY <1>4, QuotaAssumption DEF CutShort
<1>5. CASE NextDay
  BY <1>5, QuotaAssumption DEF NextDay, Day
<1>6. CASE UNCHANGED quotaVars
  BY <1>6 DEF quotaVars
<1> QED
  BY <1>1, <1>2, <1>3, <1>4, <1>5, <1>6 DEF QuotaNext

\* The calls at a step are those of before, less or plus the caller that moved.
LEMMA AccountingStep == QuotaTypeOK /\ Accounting /\ [QuotaNext]_quotaVars => Accounting'
<1> SUFFICES ASSUME QuotaTypeOK, Accounting, [QuotaNext]_quotaVars, NEW d \in Day
             PROVE  DayAccounts(d)'
  BY DEF Accounting
<1> DEFINE E == Cardinality(At("expire", d))
           D == Cardinality(At("decr", d))
<1> USE DEF keys, history
<1>0. /\ E \in Nat /\ D \in Nat /\ E' \in Nat /\ D' \in Nat
      /\ granted[d] \in Nat /\ slots[d] \in Nat /\ counter[d] \in Nat
      /\ granted[d] + E <= slots[d] /\ slots[d] + D <= counter[d]
      /\ slots[d] <= Cap /\ (counter[d] > slots[d] => slots[d] = Cap)
  BY AtFinite, AtFiniteNext DEF Accounting, DayAccounts, QuotaTypeOK
<1>1. ASSUME UNCHANGED <<pc, day>> PROVE E' = E /\ D' = D
  BY <1>1 DEF At
<1>2. ASSUME NEW w \in Job, Incr(w) PROVE DayAccounts(d)'
  <2> DEFINE n == counter[today] + 1
  <2>1. today \in Day /\ n \in Nat /\ pc[w] = "idle"
    BY <1>2 DEF Incr, QuotaTypeOK
  <2>2. CASE d # today
    <3>1. At("expire", d)' = At("expire", d) /\ At("decr", d)' = At("decr", d)
      BY <1>2, <2>1, <2>2 DEF Incr, At, QuotaTypeOK
    <3>2. /\ granted'[d] = granted[d] /\ slots'[d] = slots[d] /\ counter'[d] = counter[d]
      BY <1>2, <2>1, <2>2 DEF Incr, QuotaTypeOK
    <3> QED
      BY <1>0, <3>1, <3>2 DEF DayAccounts
  <2>3. CASE d = today /\ n = 1
    <3>1. At("expire", d)' = At("expire", d) \cup {w} /\ At("decr", d)' = At("decr", d)
      BY <1>2, <2>1, <2>3 DEF Incr, At, QuotaTypeOK, FirstOfDay
    <3>2. w \notin At("expire", d)
      BY <2>1 DEF At
    <3>3. E' = E + 1 /\ D' = D
      BY <3>1, <3>2, AtFinite, JoinsOne
    <3>4. granted'[d] = granted[d] /\ slots'[d] = slots[d] + 1 /\ counter'[d] = counter[d] + 1
      BY <1>2, <2>1, <2>3, QuotaAssumption DEF Incr, QuotaTypeOK, FirstOfDay, OverCap
    <3> QED
      BY <1>0, <2>3, <3>3, <3>4, QuotaAssumption DEF DayAccounts
  <2>4. CASE d = today /\ n # 1 /\ n > Cap
    <3>1. At("decr", d)' = At("decr", d) \cup {w} /\ At("expire", d)' = At("expire", d)
      BY <1>2, <2>1, <2>4 DEF Incr, At, QuotaTypeOK, FirstOfDay, OverCap
    <3>2. w \notin At("decr", d)
      BY <2>1 DEF At
    <3>3. D' = D + 1 /\ E' = E
      BY <3>1, <3>2, AtFinite, JoinsOne
    <3>4. granted'[d] = granted[d] /\ slots'[d] = slots[d] /\ counter'[d] = counter[d] + 1
      BY <1>2, <2>1, <2>4 DEF Incr, QuotaTypeOK, FirstOfDay, OverCap
    <3> QED
      BY <1>0, <2>4, <3>3, <3>4, QuotaAssumption DEF DayAccounts
  <2>5. CASE d = today /\ n # 1 /\ ~(n > Cap)
    <3>1. At("decr", d)' = At("decr", d) /\ At("expire", d)' = At("expire", d)
      BY <1>2, <2>1, <2>5 DEF Incr, At, QuotaTypeOK, FirstOfDay, OverCap
    <3>2. granted'[d] = granted[d] + 1 /\ slots'[d] = slots[d] + 1 /\ counter'[d] = counter[d] + 1
      BY <1>2, <2>1, <2>5 DEF Incr, QuotaTypeOK, FirstOfDay, OverCap
    <3> QED
      BY <1>0, <2>5, <3>1, <3>2, QuotaAssumption DEF DayAccounts
  <2> QED
    BY <2>2, <2>3, <2>4, <2>5
<1>3. ASSUME NEW w \in Job, Expire(w) PROVE DayAccounts(d)'
  <2>1. At("decr", d)' = At("decr", d) /\ slots'[d] = slots[d] /\ counter'[d] = counter[d]
    BY <1>3 DEF Expire, At, QuotaTypeOK
  <2>2. CASE d # day[w]
    <3>1. At("expire", d)' = At("expire", d) /\ granted'[d] = granted[d]
      BY <1>3, <2>2 DEF Expire, At, QuotaTypeOK
    <3> QED
      BY <1>0, <2>1, <3>1 DEF DayAccounts
  <2>3. CASE d = day[w]
    <3>1. At("expire", d)' = At("expire", d) \ {w} /\ w \in At("expire", d)
      BY <1>3, <2>3 DEF Expire, At, QuotaTypeOK
    <3>2. E' = E - 1
      BY <3>1, AtFinite, LosesOne
    <3>3. granted'[d] = granted[d] + 1
      BY <1>3, <2>3 DEF Expire, QuotaTypeOK
    <3> QED
      BY <1>0, <2>1, <3>2, <3>3 DEF DayAccounts
  <2> QED
    BY <2>2, <2>3
<1>4. ASSUME NEW w \in Job, Decr(w) PROVE DayAccounts(d)'
  <2>1. /\ At("expire", d)' = At("expire", d)
        /\ slots'[d] = slots[d] /\ granted'[d] = granted[d]
    BY <1>4 DEF Decr, At, QuotaTypeOK
  <2>2. CASE d # day[w]
    <3>1. At("decr", d)' = At("decr", d) /\ counter'[d] = counter[d]
      BY <1>4, <2>2 DEF Decr, At, QuotaTypeOK
    <3> QED
      BY <1>0, <2>1, <3>1 DEF DayAccounts
  <2>3. CASE d = day[w]
    <3>1. At("decr", d)' = At("decr", d) \ {w} /\ w \in At("decr", d)
      BY <1>4, <2>3 DEF Decr, At, QuotaTypeOK
    <3>2. D' = D - 1
      BY <3>1, AtFinite, LosesOne
    <3>3. counter'[d] = counter[d] - 1
      BY <1>4, <2>3 DEF Decr, QuotaTypeOK
    <3> QED
      BY <1>0, <2>1, <3>2, <3>3 DEF DayAccounts
  <2> QED
    BY <2>2, <2>3
<1>5. ASSUME NEW w \in Job, CutShort(w) PROVE DayAccounts(d)'
  <2>1. At("expire", d)' \subseteq At("expire", d) /\ At("decr", d)' \subseteq At("decr", d)
    BY <1>5 DEF CutShort, At, QuotaTypeOK
  <2>2. E' <= E /\ D' <= D
    BY <2>1, AtFinite, FS_Subset
  <2> QED
    BY <1>0, <1>5, <2>2 DEF CutShort, DayAccounts
<1>6. CASE NextDay
  BY <1>0, <1>1, <1>6 DEF NextDay, DayAccounts
<1>7. CASE UNCHANGED quotaVars
  BY <1>0, <1>1, <1>7 DEF quotaVars, DayAccounts
<1> QED
  BY <1>2, <1>3, <1>4, <1>5, <1>6, <1>7 DEF QuotaNext

\* The accounts of every day stay right, and with them the types: a refund
\* never takes the key below zero.
THEOREM QuotaInvariant == QuotaSpec => [](QuotaTypeOK /\ Accounting)
<1>1. IInv /\ [QuotaNext]_quotaVars => IInv'
  BY TypeStep, AccountingStep DEF IInv
<1> QED
  BY InitInv, <1>1, PTL DEF QuotaSpec, IInv

\* The daily cap is never exceeded, however many calls interleave.
THEOREM CapHolds == QuotaSpec => []NeverOverCap
<1>1. IInv => NeverOverCap
  <2> SUFFICES ASSUME IInv, NEW d \in Day PROVE granted[d] <= Cap
    BY DEF NeverOverCap
  <2>1. Cardinality(At("expire", d)) \in Nat
    BY AtFinite
  <2> QED
    BY <2>1, QuotaAssumption DEF IInv, Accounting, DayAccounts, QuotaTypeOK
<1> QED
  BY QuotaInvariant, <1>1, PTL DEF IInv

\* A call is only ever refused on a day whose slots are all taken.
THEOREM RefusalsJustified == QuotaSpec => []RefusedOnlyWhenFull
<1>1. IInv => RefusedOnlyWhenFull
  <2> SUFFICES ASSUME IInv, NEW d \in Day, At("decr", d) # {} PROVE slots[d] = Cap
    BY DEF RefusedOnlyWhenFull
  <2>1. Cardinality(At("decr", d)) \in Nat /\ Cardinality(At("decr", d)) # 0
    BY AtFinite, FS_EmptySet
  <2> QED
    BY <2>1, QuotaAssumption DEF IInv, Accounting, DayAccounts, QuotaTypeOK
<1> QED
  BY QuotaInvariant, <1>1, PTL DEF IInv

\* The key of a day has a time to live, or the call that created it is about to
\* set one, as long as no call was cut short.
THEOREM KeysGoAway == QuotaSpec => []KeysExpire
<1>1. QuotaInit => KeysExpire
  BY DEF QuotaInit, KeysExpire
<1>2. QuotaTypeOK /\ KeysExpire /\ [QuotaNext]_quotaVars => KeysExpire'
  <2> SUFFICES ASSUME QuotaTypeOK, KeysExpire, [QuotaNext]_quotaVars, lost' = 0,
                      NEW d \in Day, counter'[d] > 0
               PROVE  expires'[d] \/ At("expire", d)' # {}
    BY DEF KeysExpire
  <2> USE DEF QuotaTypeOK, keys, history
  <2>1. ASSUME NEW w \in Job, Incr(w) PROVE expires'[d] \/ At("expire", d)' # {}
    <3>1. lost = 0 /\ expires' = expires /\ pc[w] = "idle" /\ today \in Day
      BY <2>1 DEF Incr
    <3>2. At("expire", d) \subseteq At("expire", d)'
      BY <2>1, <3>1 DEF Incr, At
    <3>3. CASE counter[d] > 0
      BY <3>1, <3>2, <3>3 DEF KeysExpire
    <3>4. CASE ~(counter[d] > 0)
      <4>1. d = today /\ counter[today] = 0
        BY <2>1, <3>1, <3>4 DEF Incr
      <4>2. pc'[w] = "expire" /\ day'[w] = d
        BY <2>1, <4>1 DEF Incr, FirstOfDay
      <4>3. w \in At("expire", d)'
        BY <4>2 DEF At
      <4> QED
        BY <4>3
    <3> QED
      BY <3>3, <3>4
  <2>2. ASSUME NEW w \in Job, Expire(w) PROVE expires'[d] \/ At("expire", d)' # {}
    <3>1. lost = 0 /\ counter' = counter /\ day' = day /\ pc[w] = "expire"
      BY <2>2 DEF Expire
    <3>2. CASE d = day[w]
      BY <2>2, <3>2 DEF Expire
    <3>3. CASE d # day[w]
      <4>1. expires'[d] = expires[d]
        BY <2>2, <3>3 DEF Expire
      <4>2. At("expire", d) \subseteq At("expire", d)'
        BY <2>2, <3>1, <3>3 DEF Expire, At
      <4> QED
        BY <3>1, <4>1, <4>2 DEF KeysExpire
    <3> QED
      BY <3>2, <3>3
  <2>3. ASSUME NEW w \in Job, Decr(w) PROVE expires'[d] \/ At("expire", d)' # {}
    <3>1. lost = 0 /\ expires' = expires /\ day' = day /\ counter[d] > 0
      BY <2>3 DEF Decr
    <3>2. At("expire", d) \subseteq At("expire", d)'
      BY <2>3, <3>1 DEF Decr, At
    <3> QED
      BY <3>1, <3>2 DEF KeysExpire
  <2>4. ASSUME NEW w \in Job, CutShort(w) PROVE expires'[d] \/ At("expire", d)' # {}
    BY <2>4 DEF CutShort
  <2>5. CASE NextDay
    BY <2>5 DEF NextDay, KeysExpire, At
  <2>6. CASE UNCHANGED quotaVars
    BY <2>6 DEF quotaVars, KeysExpire, At
  <2> QED
    BY <2>1, <2>2, <2>3, <2>4, <2>5, <2>6 DEF QuotaNext
<1> QED
  BY <1>1, <1>2, QuotaInvariant, PTL DEF QuotaSpec

\* The accounts of a day put numbers to the step of the pool that a grant of a
\* slot taken earlier is: one more than was granted is still taken.
LEMMA GrantLeft ==
  ASSUME IInv, NEW w \in Job, pc[w] = "expire"
  PROVE  granted[day[w]] < slots[day[w]] /\ day[w] \in Day
<1>1. day[w] \in Day
  BY DEF IInv, QuotaTypeOK
<1>2. w \in At("expire", day[w])
  BY DEF At
<1>3. /\ Cardinality(At("expire", day[w])) \in Nat
      /\ Cardinality(At("expire", day[w])) # 0
  BY <1>1, <1>2, AtFinite, FS_EmptySet
<1>4. granted[day[w]] \in Nat /\ slots[day[w]] \in Nat
  BY <1>1 DEF IInv, QuotaTypeOK
<1>5. granted[day[w]] + Cardinality(At("expire", day[w])) <= slots[day[w]]
  BY <1>1 DEF IInv, Accounting, DayAccounts
<1> QED
  BY <1>1, <1>3, <1>4, <1>5

\* The counter and its decrements implement a pool of Cap slots a day.
THEOREM ImplementsPool == QuotaSpec => PoolOfSlots
<1> DEFINE room == [d \in Day |-> Cap - slots[d]]
<1>1. QuotaInit => Pool!Init
  BY QuotaAssumption DEF QuotaInit, Pool!Init
<1>2. IInv /\ IInv' /\ [QuotaNext]_quotaVars => [Pool!Next]_<<room, granted>>
  <2> SUFFICES ASSUME IInv, IInv', [QuotaNext]_quotaVars
               PROVE  [Pool!Next]_<<room, granted>>
    OBVIOUS
  <2>t. /\ slots \in [Day -> Nat] /\ slots' \in [Day -> Nat]
        /\ granted \in [Day -> Nat] /\ Cap \in Nat
    BY QuotaAssumption DEF IInv, QuotaTypeOK
  <2>c. \A d \in Day : slots'[d] <= Cap
    BY DEF IInv, Accounting, DayAccounts
  <2>1. ASSUME NEW w \in Job, Incr(w) PROVE [Pool!Next]_<<room, granted>>
    <3>1. today \in Day
      BY DEF IInv, QuotaTypeOK
    <3>2. CASE OverCap(counter[today] + 1)
      <4>1. slots' = slots
        BY <2>1, <3>2, <2>t DEF Incr
      <4>2. ~FirstOfDay(counter[today] + 1)
        BY <3>2, QuotaAssumption DEF OverCap, FirstOfDay
      <4>3. pc'[w] = "decr"
        BY <2>1, <3>2, <4>2 DEF Incr, IInv, QuotaTypeOK
      <4>4. granted' = granted
        BY <2>1, <4>3, <2>t DEF Incr
      <4> QED
        BY <4>1, <4>4
    <3>3. CASE ~OverCap(counter[today] + 1)
      <4>0. PICK d \in Day : d = today
        BY <3>1
      <4>1. slots' = [slots EXCEPT ![d] = @ + 1]
        BY <2>1, <3>3, <4>0 DEF Incr
      <4>2. slots[d] < Cap
        BY <4>1, <2>c, <2>t
      <4>3. room[d] > 0 /\ room' = [room EXCEPT ![d] = @ - 1]
        <5>1. room' = [e \in Day |-> Cap - slots'[e]]
          BY DEF Day
        <5>2. room[d] > 0
          BY <4>2, <2>t
        <5>3. ASSUME NEW e \in Day
              PROVE  Cap - slots'[e] = [room EXCEPT ![d] = @ - 1][e]
          BY <4>1, <2>t
        <5>4. room' = [room EXCEPT ![d] = @ - 1]
          BY <5>1, <5>3, Zenon
        <5> QED
          BY <5>2, <5>4
      <4>4. granted' = granted \/ granted' = [granted EXCEPT ![d] = @ + 1]
        BY <2>1, <2>t, <4>0 DEF Incr
      <4>5. Pool!Take(d)
        BY <4>3 DEF Pool!Take
      <4>6. Pool!TakeAndGrant(d) \/ Pool!TakeFirst(d)
        BY <4>4, <4>5 DEF Pool!TakeAndGrant, Pool!TakeFirst, Pool!Grant
      <4> QED
        BY <4>6 DEF Pool!Next
    <3> QED
      BY <3>2, <3>3
  <2>2. ASSUME NEW w \in Job, Expire(w) PROVE [Pool!Next]_<<room, granted>>
    <3>0. PICK d \in Day : d = day[w]
      BY DEF IInv, QuotaTypeOK
    <3>1. granted[d] < slots[d]
      BY <2>2, <3>0, GrantLeft DEF Expire
    <3>2. slots' = slots /\ granted' = [granted EXCEPT ![d] = @ + 1]
      BY <2>2, <3>0 DEF Expire
    <3>3. granted[d] < Cap - room[d]
      BY <3>1, <2>t
    <3>4. room' = room
      BY <3>2 DEF Day
    <3>5. Pool!GrantTaken(d)
      BY <3>2, <3>3, <3>4 DEF Pool!GrantTaken, Pool!Grant
    <3> QED
      BY <3>5 DEF Pool!Next
  <2>3. ASSUME NEW w \in Job, Decr(w) \/ CutShort(w) PROVE UNCHANGED <<room, granted>>
    BY <2>3 DEF Decr, CutShort, history
  <2>4. CASE NextDay
    BY <2>4 DEF NextDay, history
  <2>5. CASE UNCHANGED quotaVars
    BY <2>5 DEF quotaVars, history
  <2> QED
    BY <2>1, <2>2, <2>3, <2>4, <2>5 DEF QuotaNext
<1>3. QuotaSpec => []IInv
  BY QuotaInvariant DEF IInv
<1> QED
  BY <1>1, <1>2, <1>3, PTL DEF QuotaSpec, PoolOfSlots, Pool!Spec

-----------------------------------------------------------------------------
(***************************************************************************)
(* The rate limits of a send (RateLimit).                                  *)
(***************************************************************************)
\* A call touches its own keys only, and increments belong to past windows or
\* to this one.
Bookkeeping ==
    /\ \A c \in Caller : \A k \in Key \ KeysOf(c) : stage[c][k] = "unused"
    /\ \A c \in Caller, k \in Key : entered[c][k] <= window[k]

Typed == TypeOK /\ Bookkeeping

-----------------------------------------------------------------------------
(***************************************************************************)
(* Type correctness.                                                       *)
(***************************************************************************)
LEMMA KeysOfCalls == \A c \in Caller : KeysOf(c) \subseteq Key /\ Page \in KeysOf(c)
BY RateLimitAssumption DEF KeysOf

LEMMA StageRounds == FirstRound \cap SecondRound = {} /\ "unused" \notin FirstRound \cup SecondRound
BY DEF FirstRound, SecondRound

\* A call that moves on with one key stays in its round.
LEMMA MoveTyped ==
    ASSUME Typed, NEW c \in Caller, NEW k \in Key, NEW s, Move(c, k, s),
           \/ stage[c][k] \in FirstRound /\ s \in FirstRound
           \/ stage[c][k] \in SecondRound /\ s \in SecondRound
    PROVE  /\ stage' \in [Caller -> [Key -> Stage]]
           /\ \A d \in Caller :
                 (AllAt(d, {"unused"}) \/ AllAt(d, FirstRound) \/ AllAt(d, SecondRound))'
           /\ \A d \in Caller : \A i \in Key \ KeysOf(d) : stage'[d][i] = "unused"
<1> USE DEF Typed, TypeOK, Bookkeeping
<1>1. s \in Stage /\ stage[c] \in [Key -> Stage]
  BY DEF Stage
<1>2. /\ stage' = [stage EXCEPT ![c] = [stage[c] EXCEPT ![k] = s]]
      /\ [stage[c] EXCEPT ![k] = s] \in [Key -> Stage]
  BY <1>1 DEF Move
<1>3. stage' \in [Caller -> [Key -> Stage]]
  BY <1>2
<1>4. \A d \in Caller, i \in Key :
         stage'[d][i] = IF d = c /\ i = k THEN s ELSE stage[d][i]
  BY <1>2
<1>5. k \in KeysOf(c)
  BY StageRounds
<1>6. ASSUME NEW d \in Caller
      PROVE  (AllAt(d, {"unused"}) \/ AllAt(d, FirstRound) \/ AllAt(d, SecondRound))'
  BY <1>4, <1>5, KeysOfCalls, StageRounds DEF AllAt
<1>7. \A d \in Caller : \A i \in Key \ KeysOf(d) : stage'[d][i] = "unused"
  BY <1>4, <1>5
<1> QED
  BY <1>3, <1>6, <1>7

\* So does a call that goes on with all of them together.
LEMMA SetAllTyped ==
    ASSUME Typed, NEW c \in Caller, NEW s, SetAll(c, s), s \in {"unused", "check", "incr"}
    PROVE  /\ stage' \in [Caller -> [Key -> Stage]]
           /\ \A d \in Caller :
                 (AllAt(d, {"unused"}) \/ AllAt(d, FirstRound) \/ AllAt(d, SecondRound))'
           /\ \A d \in Caller : \A i \in Key \ KeysOf(d) : stage'[d][i] = "unused"
           /\ \A d \in Caller, i \in Key :
                 stage'[d][i] = IF d = c THEN IF i \in KeysOf(c) THEN s ELSE "unused"
                                         ELSE stage[d][i]
<1> USE DEF Typed, TypeOK, Bookkeeping
<1>1. "unused" \in Stage /\ s \in Stage
  BY DEF Stage, FirstRound, SecondRound
<1>2. [k \in Key |-> IF k \in KeysOf(c) THEN s ELSE "unused"] \in [Key -> Stage]
  BY <1>1
<1>3. stage' \in [Caller -> [Key -> Stage]]
  BY <1>2 DEF SetAll
<1>4. \A d \in Caller, i \in Key :
         stage'[d][i] = IF d = c THEN IF i \in KeysOf(c) THEN s ELSE "unused"
                                 ELSE stage[d][i]
  BY DEF SetAll
<1>5. ASSUME NEW d \in Caller
      PROVE  (AllAt(d, {"unused"}) \/ AllAt(d, FirstRound) \/ AllAt(d, SecondRound))'
  BY <1>4, KeysOfCalls DEF AllAt, FirstRound, SecondRound
<1>6. \A d \in Caller : \A i \in Key \ KeysOf(d) : stage'[d][i] = "unused"
  BY <1>4
<1> QED
  BY <1>3, <1>4, <1>5, <1>6

LEMMA InitTyped == Init => Typed
<1> SUFFICES ASSUME Init PROVE Typed
  OBVIOUS
<1>1. stage \in [Caller -> [Key -> Stage]]
  BY DEF Init, Stage
<1>2. \A c \in Caller : AllAt(c, {"unused"})
  BY KeysOfCalls DEF Init, AllAt
<1>3. Bookkeeping
  BY DEF Init, Bookkeeping
<1>4. /\ count \in [Key -> Int] /\ ttl \in [Key -> {"absent", "forever", "set"}]
      /\ window \in [Key -> 0..MaxWindow] /\ admitted \in [Key -> Nat] /\ late \in [Key -> Nat]
      /\ faults \in 0..MaxFault
  BY RateLimitAssumption DEF Init
<1>5. entered \in [Caller -> [Key -> 0..MaxWindow]]
  <2>1. [k \in Key |-> 0] \in [Key -> 0..MaxWindow]
    BY RateLimitAssumption
  <2> QED
    BY <2>1 DEF Init
<1> QED
  BY <1>1, <1>2, <1>3, <1>4, <1>5 DEF Typed, TypeOK

LEMMA NextTyped == Typed /\ [Next]_vars => Typed'
<1> SUFFICES ASSUME Typed, [Next]_vars PROVE Typed'
  OBVIOUS
<1>1. TypeOK /\ Bookkeeping
  BY DEF Typed
<1>2. ASSUME NEW c \in Caller, Start(c) \/ DecideSend(c) \/ DecideJob(c) \/ Return(c)
      PROVE  Typed'
  <2>1. UNCHANGED <<count, ttl, window, admitted, late, entered, faults>>
    BY <1>2 DEF Start, DecideSend, DecideJob, Return
  <2>2. PICK s \in {"unused", "check", "incr"} : SetAll(c, s)
    BY <1>2 DEF Start, DecideSend, DecideJob, Return
  <2> QED
    BY <1>1, <2>1, <2>2, SetAllTyped DEF Typed, TypeOK, Bookkeeping
<1>3. ASSUME NEW c \in Caller, NEW k \in Key,
             CheckKey(c, k) \/ ExpireKey(c, k) \/ RollbackKey(c, k) \/ FailOpen(c, k)
      PROVE  Typed'
  <2>1. PICK s : /\ Move(c, k, s)
                 /\ \/ stage[c][k] \in FirstRound /\ s \in FirstRound
                    \/ stage[c][k] \in SecondRound /\ s \in SecondRound
    BY <1>3 DEF CheckKey, ExpireKey, RollbackKey, FailOpen, FirstRound, SecondRound
  <2>2. /\ UNCHANGED <<window, admitted, entered>>
        /\ count' \in [Key -> Int] /\ late' \in [Key -> Nat] /\ faults' \in 0..MaxFault
    <3>1. CASE CheckKey(c, k) \/ ExpireKey(c, k)
      BY <1>1, <3>1 DEF CheckKey, ExpireKey, TypeOK
    <3>2. CASE RollbackKey(c, k)
      BY <1>1, <3>2 DEF RollbackKey, TypeOK
    <3>3. CASE FailOpen(c, k)
      BY <1>1, <3>3, RateLimitAssumption DEF FailOpen, TypeOK
    <3> QED
      BY <1>3, <3>1, <3>2, <3>3
  <2>3. ttl' \in [Key -> {"absent", "forever", "set"}]
    BY <1>1, <1>3 DEF CheckKey, ExpireKey, RollbackKey, FailOpen, TypeOK
  <2> QED
    BY <1>1, <2>1, <2>2, <2>3, MoveTyped DEF Typed, TypeOK, Bookkeeping
<1>4. ASSUME NEW c \in Caller, NEW k \in Key, IncrKey(c, k) PROVE Typed'
  <2>1. PICK s : /\ Move(c, k, s)
                 /\ stage[c][k] \in SecondRound /\ s \in SecondRound
    BY <1>4 DEF IncrKey, SecondRound
  <2>2. /\ UNCHANGED <<window, late, faults>>
        /\ count' \in [Key -> Int] /\ admitted' \in [Key -> Nat]
        /\ ttl' \in [Key -> {"absent", "forever", "set"}]
    BY <1>1, <1>4 DEF IncrKey, TypeOK
  <2>3. /\ entered' \in [Caller -> [Key -> 0..MaxWindow]]
        /\ \A d \in Caller, i \in Key : entered'[d][i] <= window[i]
    <3>1. entered' = [entered EXCEPT ![c] = [entered[c] EXCEPT ![k] = window[k]]]
      BY <1>4 DEF IncrKey
    <3>2. [entered[c] EXCEPT ![k] = window[k]] \in [Key -> 0..MaxWindow]
      BY <1>1 DEF TypeOK
    <3>3. window[k] <= window[k]
      BY <1>1, RateLimitAssumption DEF TypeOK
    <3> QED
      BY <1>1, <3>1, <3>2, <3>3 DEF TypeOK, Bookkeeping
  <2> QED
    BY <1>1, <2>1, <2>2, <2>3, MoveTyped DEF Typed, TypeOK, Bookkeeping
<1>5. ASSUME NEW c \in Caller, NEW k \in Key, AnswerLost(c, k) PROVE Typed'
  <2>1. /\ Move(c, k, "ok") /\ stage[c][k] \in SecondRound /\ "ok" \in SecondRound
    BY <1>5 DEF AnswerLost, SecondRound
  <2>2. /\ UNCHANGED <<window, admitted, late, entered>>
        /\ count' \in [Key -> Int] /\ faults' \in 0..MaxFault
        /\ ttl' \in [Key -> {"absent", "forever", "set"}]
    BY <1>1, <1>5, RateLimitAssumption DEF AnswerLost, TypeOK
  <2> QED
    BY <1>1, <2>1, <2>2, MoveTyped DEF Typed, TypeOK, Bookkeeping
<1>6. ASSUME NEW k \in Key, EndWindow(k) PROVE Typed'
  <2>1. /\ UNCHANGED <<stage, entered, faults>>
        /\ count' \in [Key -> Int] /\ admitted' \in [Key -> Nat] /\ late' \in [Key -> Nat]
        /\ ttl' \in [Key -> {"absent", "forever", "set"}]
    BY <1>1, <1>6 DEF EndWindow, TypeOK
  <2>2. /\ window' \in [Key -> 0..MaxWindow]
        /\ \A i \in Key : window'[i] >= window[i]
    BY <1>1, <1>6, RateLimitAssumption DEF EndWindow, TypeOK
  <2>3. \A d \in Caller, i \in Key : entered[d][i] <= window'[i]
    BY <1>1, <2>2, RateLimitAssumption DEF TypeOK, Bookkeeping
  <2>4. \A d \in Caller : (AllAt(d, {"unused"}) \/ AllAt(d, FirstRound) \/ AllAt(d, SecondRound))'
    BY <1>1, <2>1 DEF TypeOK, AllAt
  <2> QED
    BY <1>1, <2>1, <2>2, <2>3, <2>4 DEF Typed, TypeOK, Bookkeeping
<1>7. CASE UNCHANGED vars
  BY <1>1, <1>7 DEF vars, Typed, TypeOK, Bookkeeping, AllAt
<1> QED
  BY <1>2, <1>3, <1>4, <1>5, <1>6, <1>7 DEF Next

THEOREM TypedInvariant == Spec => []Typed
BY InitTyped, NextTyped, PTL DEF Spec

\* Every variable keeps to its values, and no call is in both rounds at once.
THEOREM TypeCorrect == Spec => []TypeOK
<1>1. Typed => TypeOK
  BY DEF Typed
<1> QED
  BY <1>1, TypedInvariant, PTL

-----------------------------------------------------------------------------
(***************************************************************************)
(* The window limit.  The value of a key accounts for the increments that  *)
(* were let through and for the refunds its callers still owe this window, *)
(* less what refunds of an earlier window have wrongly taken away.  Only a *)
(* failing command makes it larger than that.                              *)
(***************************************************************************)
Refunding == {"expireOver", "rollback"}

Owing(k) == {c \in Caller : stage[c][k] \in Refunding /\ entered[c][k] = window[k]}

KeyAccounts(k) ==
    /\ admitted[k] + Cardinality(Owing(k)) <= count[k] + late[k]
    /\ faults = 0 => admitted[k] + Cardinality(Owing(k)) = count[k] + late[k]
    /\ admitted[k] <= Limit[k] + late[k]

LEMMA OwingFinite ==
    ASSUME NEW k \in Key
    PROVE  IsFiniteSet(Owing(k)) /\ Cardinality(Owing(k)) \in Nat
<1>1. IsFiniteSet(Caller)
  BY RateLimitAssumption, FS_Union DEF Caller
<1>2. Owing(k) \subseteq Caller
  BY DEF Owing
<1> QED
  BY <1>1, <1>2, FS_Subset, FS_CardinalityType

\* What a key's numbers are, for the arithmetic.
LEMMA KeyNumbers ==
    ASSUME TypeOK, NEW k \in Key
    PROVE  /\ admitted[k] \in Nat /\ late[k] \in Nat /\ count[k] \in Int
           /\ Limit[k] \in Nat /\ faults \in Nat
BY RateLimitAssumption DEF TypeOK

\* The account of a key no number of which changes.
LEMMA SameAccounts ==
    ASSUME NEW k \in Key, KeyAccounts(k), Owing(k)' = Owing(k), faults' = faults,
           admitted'[k] = admitted[k], late'[k] = late[k], count'[k] = count[k]
    PROVE  KeyAccounts(k)'
BY DEF KeyAccounts

\* Step by step, what a move of c with key k does to the callers that owe.
LEMMA MoveOwing ==
    ASSUME Typed, NEW c \in Caller, NEW k \in Key, NEW s, Move(c, k, s),
           UNCHANGED window, NEW i \in Key,
           \A d \in Caller, x \in Key : (d = c /\ x = k) \/ entered'[d][x] = entered[d][x]
    PROVE  /\ i # k => Owing(i)' = Owing(i)
           /\ s \notin Refunding => Owing(k)' = Owing(k) \ {c}
           /\ s \in Refunding => Owing(k)' = IF entered'[c][k] = window[k]
                                             THEN Owing(k) \cup {c} ELSE Owing(k) \ {c}
<1>1. \A d \in Caller, x \in Key :
         stage'[d][x] = IF d = c /\ x = k THEN s ELSE stage[d][x]
  BY DEF Move, Typed, TypeOK
<1> QED
  BY <1>1 DEF Owing

LEMMA NextAccounts ==
    Typed /\ Typed' /\ (\A k \in Key : KeyAccounts(k)) /\ [Next]_vars
      => (\A k \in Key : KeyAccounts(k))'
<1> SUFFICES ASSUME Typed, Typed', \A k \in Key : KeyAccounts(k), [Next]_vars, NEW i \in Key
             PROVE  KeyAccounts(i)'
  OBVIOUS
<1>1. /\ TypeOK /\ Bookkeeping /\ KeyAccounts(i)
      /\ admitted[i] \in Nat /\ late[i] \in Nat /\ count[i] \in Int /\ Limit[i] \in Nat
      /\ faults \in Nat /\ IsFiniteSet(Owing(i)) /\ Cardinality(Owing(i)) \in Nat
  BY KeyNumbers, OwingFinite DEF Typed
<1>2. ASSUME NEW c \in Caller, Start(c) \/ DecideSend(c) \/ DecideJob(c) \/ Return(c)
      PROVE  KeyAccounts(i)'
  <2>1. UNCHANGED <<count, ttl, window, admitted, late, entered, faults>>
    BY <1>2 DEF Start, DecideSend, DecideJob, Return
  <2>2. PICK s \in {"unused", "check", "incr"} : SetAll(c, s)
    BY <1>2 DEF Start, DecideSend, DecideJob, Return
  <2>3. stage[c][i] \notin Refunding
    BY <1>1, <1>2 DEF Start, DecideSend, DecideJob, Return, AllAt, Bookkeeping, Refunding
  <2>4. /\ stage'[c][i] \notin Refunding
        /\ \A d \in Caller \ {c} : stage'[d][i] = stage[d][i]
    BY <2>2, SetAllTyped DEF Refunding
  <2>5. Owing(i)' = Owing(i)
    BY <2>1, <2>3, <2>4 DEF Owing
  <2> QED
    BY <1>1, <2>1, <2>5, SameAccounts
<1>3. ASSUME NEW c \in Caller, NEW k \in Key,
             CheckKey(c, k) \/ ExpireKey(c, k)
      PROVE  KeyAccounts(i)'
  <2>1. UNCHANGED <<count, window, admitted, late, entered, faults>>
    BY <1>3 DEF CheckKey, ExpireKey
  <2>2. PICK s : /\ Move(c, k, s)
                 /\ \/ stage[c][k] \in Refunding /\ s \in Refunding
                    \/ stage[c][k] \notin Refunding /\ s \notin Refunding
    BY <1>3 DEF CheckKey, ExpireKey, Refunding
  <2>3. \A d \in Caller, x \in Key : stage'[d][x] = IF d = c /\ x = k THEN s ELSE stage[d][x]
    BY <1>1, <2>2 DEF Move, TypeOK
  <2>4. Owing(i)' = Owing(i)
    BY <2>1, <2>2, <2>3 DEF Owing
  <2> QED
    BY <1>1, <2>1, <2>4, SameAccounts
<1>4. ASSUME NEW c \in Caller, NEW k \in Key, RollbackKey(c, k) PROVE KeyAccounts(i)'
  <2>1. /\ Move(c, k, "over") /\ "over" \notin Refunding /\ stage[c][k] \in Refunding
        /\ UNCHANGED <<window, admitted, entered, faults>>
    BY <1>4 DEF RollbackKey, Refunding
  <2>2. CASE i # k
    BY <1>1, <1>4, <2>1, <2>2, MoveOwing, SameAccounts DEF RollbackKey
  <2>3. CASE i = k
    <3>1. Owing(i)' = Owing(i) \ {c}
      BY <2>1, <2>3, MoveOwing
    <3>2. count'[i] = count[i] - 1
      BY <1>1, <1>4, <2>3 DEF RollbackKey, TypeOK
    <3>3. CASE entered[c][k] = window[k]
      <4>1. late'[i] = late[i]
        BY <1>1, <1>4, <2>3, <3>3 DEF RollbackKey, TypeOK
      <4>2. c \in Owing(i)
        BY <2>1, <2>3, <3>3 DEF Owing
      <4>3. Cardinality(Owing(i)') = Cardinality(Owing(i)) - 1
        BY <1>1, <3>1, <4>2, FS_RemoveElement
      <4> QED
        BY <1>1, <2>1, <3>2, <4>1, <4>3 DEF KeyAccounts
    <3>4. CASE entered[c][k] # window[k]
      <4>1. late'[i] = late[i] + 1
        BY <1>1, <1>4, <2>3, <3>4 DEF RollbackKey, TypeOK
      <4>2. Owing(i)' = Owing(i)
        BY <2>3, <3>1, <3>4 DEF Owing
      <4> QED
        BY <1>1, <2>1, <3>2, <4>1, <4>2 DEF KeyAccounts
    <3> QED
      BY <3>3, <3>4
  <2> QED
    BY <2>2, <2>3
<1>5. ASSUME NEW c \in Caller, NEW k \in Key, FailOpen(c, k) \/ AnswerLost(c, k)
      PROVE  KeyAccounts(i)'
  <2>1. PICK s : Move(c, k, s) /\ s \notin Refunding
    BY <1>5 DEF FailOpen, AnswerLost, Refunding
  <2>2. UNCHANGED <<window, admitted, late, entered>> /\ faults' = faults + 1
    BY <1>5 DEF FailOpen, AnswerLost
  <2>3. count'[i] \in Int /\ count'[i] >= count[i]
    BY <1>1, <1>5 DEF FailOpen, AnswerLost, TypeOK
  <2>4. Owing(i)' \subseteq Owing(i)
    BY <2>1, <2>2, MoveOwing
  <2>5. Cardinality(Owing(i)') <= Cardinality(Owing(i)) /\ Cardinality(Owing(i)') \in Nat
    BY <1>1, <2>4, FS_Subset, FS_CardinalityType
  <2> QED
    BY <1>1, <2>2, <2>3, <2>5 DEF KeyAccounts
<1>6. ASSUME NEW c \in Caller, NEW k \in Key, IncrKey(c, k) PROVE KeyAccounts(i)'
  <2>1. /\ UNCHANGED <<window, late, faults>> /\ stage[c][k] = "incr"
        /\ \A d \in Caller, x \in Key : (d = c /\ x = k) \/ entered'[d][x] = entered[d][x]
        /\ entered'[c][k] = window[k]
    BY <1>1, <1>6 DEF IncrKey, TypeOK
  <2>2. CASE i # k
    <3>1. PICK s : Move(c, k, s)
      BY <1>6 DEF IncrKey
    <3>2. admitted'[i] = admitted[i] /\ count'[i] = count[i]
      BY <1>1, <1>6, <2>2 DEF IncrKey, TypeOK
    <3> QED
      BY <1>1, <2>1, <2>2, <3>1, <3>2, MoveOwing, SameAccounts
  <2>3. CASE i = k
    <3>1. count'[i] = count[i] + 1
      BY <1>1, <1>6, <2>3 DEF IncrKey, TypeOK
    <3>2. c \notin Owing(i)
      BY <2>1, <2>3 DEF Owing, Refunding
    <3>3. CASE Within(k, count[k] + 1)
      <4>1. PICK s : Move(c, k, s) /\ s \notin Refunding
        BY <1>6, <3>3 DEF IncrKey, Refunding
      <4>2. admitted'[i] = admitted[i] + 1
        BY <1>1, <1>6, <2>3, <3>3 DEF IncrKey, TypeOK
      <4>3. Owing(i)' = Owing(i) \ {c}
        BY <2>1, <2>3, <4>1, MoveOwing
      <4>4. Owing(i)' = Owing(i)
        BY <3>2, <4>3
      <4> QED
        BY <1>1, <2>1, <2>3, <3>1, <3>3, <4>2, <4>4 DEF KeyAccounts, Within
    <3>4. CASE ~Within(k, count[k] + 1)
      <4>1. PICK s : Move(c, k, s) /\ s \in Refunding
        BY <1>6, <3>4 DEF IncrKey, Refunding
      <4>2. admitted' = admitted
        BY <1>6, <3>4 DEF IncrKey
      <4>3. Owing(i)' = Owing(i) \cup {c}
        BY <2>1, <2>3, <4>1, MoveOwing
      <4>4. Cardinality(Owing(i)') = Cardinality(Owing(i)) + 1
        BY <1>1, <3>2, <4>3, FS_AddElement
      <4> QED
        BY <1>1, <2>1, <3>1, <4>2, <4>4 DEF KeyAccounts
    <3> QED
      BY <3>3, <3>4
  <2> QED
    BY <2>2, <2>3
<1>7. ASSUME NEW k \in Key, EndWindow(k) PROVE KeyAccounts(i)'
  <2>1. UNCHANGED <<stage, entered, faults>>
    BY <1>7 DEF EndWindow
  <2>2. CASE i # k
    <3>1. /\ count'[i] = count[i] /\ admitted'[i] = admitted[i] /\ late'[i] = late[i]
          /\ window'[i] = window[i]
      BY <1>1, <1>7, <2>2 DEF EndWindow, TypeOK
    <3> QED
      BY <1>1, <2>1, <3>1, SameAccounts DEF Owing
  <2>3. CASE i = k
    <3>1. /\ count'[i] = 0 /\ admitted'[i] = 0 /\ late'[i] = 0
          /\ window'[i] = window[i] + 1
      BY <1>1, <1>7, <2>3 DEF EndWindow, TypeOK
    <3>2. \A c \in Caller : entered[c][i] \in Nat /\ window[i] \in Nat /\ entered[c][i] <= window[i]
      BY <1>1, RateLimitAssumption DEF TypeOK, Bookkeeping
    <3>3. Owing(i)' = {}
      BY <2>1, <3>1, <3>2 DEF Owing
    <3>4. Cardinality(Owing(i)') = 0
      BY <3>3, FS_EmptySet
    <3> QED
      BY <1>1, <3>1, <3>4 DEF KeyAccounts
  <2> QED
    BY <2>2, <2>3
<1>8. CASE UNCHANGED vars
  BY <1>1, <1>8, SameAccounts DEF vars, Owing
<1> QED
  BY <1>2, <1>3, <1>4, <1>5, <1>6, <1>7, <1>8 DEF Next

LEMMA InitAccounts == Init => \A k \in Key : KeyAccounts(k)
<1> SUFFICES ASSUME Init, NEW k \in Key PROVE KeyAccounts(k)
  OBVIOUS
<1>1. Owing(k) = {}
  BY DEF Init, Owing, Refunding
<1>2. Cardinality(Owing(k)) = 0 /\ Limit[k] \in Nat
  BY <1>1, FS_EmptySet, RateLimitAssumption
<1> QED
  BY <1>2 DEF Init, KeyAccounts

THEOREM AccountsInvariant == Spec => [](\A k \in Key : KeyAccounts(k))
BY InitAccounts, NextAccounts, TypedInvariant, PTL DEF Spec

\* No window lets more increments through than the limit of its key, but for
\* refunds that came too late, whatever fails and however the calls interleave.
THEOREM WindowLimitHolds == Spec => []WindowLimit
<1>1. (\A k \in Key : KeyAccounts(k)) => WindowLimit
  BY DEF KeyAccounts, WindowLimit
<1> QED
  BY <1>1, AccountsInvariant, PTL

\* When no call is under way and no command has failed, a key holds what was
\* let through, less the late refunds: refused calls leave nothing behind.
THEOREM QuietCountHolds == Spec => []QuietCountExact
<1>1. Typed /\ (\A k \in Key : KeyAccounts(k)) => QuietCountExact
  <2> SUFFICES ASSUME Typed, faults = 0, \A c \in Caller : AllAt(c, {"unused"}),
                      NEW k \in Key, KeyAccounts(k)
               PROVE  count[k] = admitted[k] - late[k]
    BY DEF QuietCountExact
  <2>1. \A c \in Caller : stage[c][k] = "unused"
    BY DEF AllAt, Typed, Bookkeeping
  <2>2. Owing(k) = {}
    BY <2>1 DEF Owing, Refunding
  <2>3. Cardinality(Owing(k)) = 0
    BY <2>2, FS_EmptySet
  <2> QED
    BY <2>3, KeyNumbers DEF KeyAccounts, Typed
<1> QED
  BY <1>1, TypedInvariant, AccountsInvariant, PTL

-----------------------------------------------------------------------------
(***************************************************************************)
(* Expiry.  A refund that comes in its own window finds the key still      *)
(* there, so that only a new key and a late refund leave one without an    *)
(* expiry, and the call that made the new key is about to set it.          *)
(***************************************************************************)
Expiring == {"expire", "expireOver"}

KeyExpiry(k) ==
    /\ Owing(k) # {} => ttl[k] # "absent"
    /\ (faults = 0 /\ ttl[k] = "forever") =>
          late[k] > 0 \/ \E c \in Caller : stage[c][k] \in Expiring

\* Expiry is kept by a step that leaves the numbers of the key and its expiry
\* alone, and neither adds to those who owe nor takes from those who expire.
LEMMA SameExpiry ==
    ASSUME NEW k \in Key, KeyExpiry(k), Owing(k)' \subseteq Owing(k),
           ttl'[k] = ttl[k], late'[k] = late[k], faults' = faults,
           \A c \in Caller : stage[c][k] \in Expiring => stage'[c][k] \in Expiring
    PROVE  KeyExpiry(k)'
BY DEF KeyExpiry

LEMMA NextExpiry ==
    Typed /\ (\A k \in Key : KeyExpiry(k)) /\ [Next]_vars => (\A k \in Key : KeyExpiry(k))'
<1> SUFFICES ASSUME Typed, \A k \in Key : KeyExpiry(k), [Next]_vars, NEW i \in Key
             PROVE  KeyExpiry(i)'
  OBVIOUS
<1>1. /\ TypeOK /\ Bookkeeping /\ KeyExpiry(i)
      /\ admitted[i] \in Nat /\ late[i] \in Nat /\ count[i] \in Int /\ faults \in Nat
  BY KeyNumbers DEF Typed
<1>2. ASSUME NEW c \in Caller, Start(c) \/ DecideSend(c) \/ DecideJob(c) \/ Return(c)
      PROVE  KeyExpiry(i)'
  <2>1. UNCHANGED <<count, ttl, window, admitted, late, entered, faults>>
    BY <1>2 DEF Start, DecideSend, DecideJob, Return
  <2>2. PICK s \in {"unused", "check", "incr"} : SetAll(c, s)
    BY <1>2 DEF Start, DecideSend, DecideJob, Return
  <2>3. stage[c][i] \notin Expiring
    BY <1>1, <1>2 DEF Start, DecideSend, DecideJob, Return, AllAt, Bookkeeping, Expiring
  <2>4. /\ stage'[c][i] \notin Refunding
        /\ \A d \in Caller \ {c} : stage'[d][i] = stage[d][i]
    BY <2>2, SetAllTyped DEF Refunding
  <2>5. Owing(i)' \subseteq Owing(i)
    BY <2>1, <2>4 DEF Owing
  <2> QED
    BY <1>1, <2>1, <2>3, <2>4, <2>5, SameExpiry
<1>3. ASSUME NEW c \in Caller, NEW k \in Key, CheckKey(c, k)
      PROVE  KeyExpiry(i)'
  <2>1. PICK s : Move(c, k, s) /\ s \notin Refunding /\ stage[c][k] \notin Expiring
    BY <1>3 DEF CheckKey, Refunding, Expiring
  <2>2. UNCHANGED <<ttl, window, late, entered, faults>>
    BY <1>3 DEF CheckKey
  <2>3. \A d \in Caller, x \in Key : stage'[d][x] = IF d = c /\ x = k THEN s ELSE stage[d][x]
    BY <1>1, <2>1 DEF Move, TypeOK
  <2>4. Owing(i)' \subseteq Owing(i)
    BY <2>1, <2>2, <2>3 DEF Owing
  <2> QED
    BY <1>1, <2>1, <2>2, <2>3, <2>4, SameExpiry
<1>4. ASSUME NEW c \in Caller, NEW k \in Key, ExpireKey(c, k)
      PROVE  KeyExpiry(i)'
  <2>1. PICK s : /\ Move(c, k, s)
                 /\ stage[c][k] \in Refunding \/ s \notin Refunding
    BY <1>4 DEF ExpireKey, Refunding
  <2>2. UNCHANGED <<window, late, entered, faults>>
    BY <1>4 DEF ExpireKey
  <2>3. \A d \in Caller, x \in Key : stage'[d][x] = IF d = c /\ x = k THEN s ELSE stage[d][x]
    BY <1>1, <2>1 DEF Move, TypeOK
  <2>4. Owing(i)' \subseteq Owing(i)
    BY <2>1, <2>2, <2>3 DEF Owing
  <2>5. CASE i # k
    <3>1. ttl'[i] = ttl[i]
      BY <1>1, <1>4, <2>5 DEF ExpireKey, TypeOK
    <3> QED
      BY <1>1, <2>2, <2>3, <2>4, <2>5, <3>1, SameExpiry
  <2>6. CASE i = k
    <3>1. ttl'[i] # "forever" /\ (ttl'[i] = "absent" => ttl[i] = "absent")
      BY <1>1, <1>4, <2>6 DEF ExpireKey, TypeOK
    <3> QED
      BY <1>1, <2>4, <3>1 DEF KeyExpiry
  <2> QED
    BY <2>5, <2>6
<1>5. ASSUME NEW c \in Caller, NEW k \in Key, RollbackKey(c, k)
      PROVE  KeyExpiry(i)'
  <2>1. /\ Move(c, k, "over") /\ stage[c][k] = "rollback"
        /\ UNCHANGED <<window, entered, faults>>
    BY <1>5 DEF RollbackKey
  <2>2. \A d \in Caller, x \in Key : stage'[d][x] = IF d = c /\ x = k THEN "over" ELSE stage[d][x]
    BY <1>1, <2>1 DEF Move, TypeOK
  <2>3. Owing(i)' \subseteq Owing(i)
    BY <2>1, <2>2 DEF Owing, Refunding
  <2>4. \A d \in Caller : stage[d][i] \in Expiring => stage'[d][i] \in Expiring
    BY <2>1, <2>2 DEF Expiring
  <2>5. CASE i # k
    <3>1. ttl'[i] = ttl[i] /\ late'[i] = late[i]
      BY <1>1, <1>5, <2>5 DEF RollbackKey, TypeOK
    <3> QED
      BY <1>1, <2>1, <2>3, <2>4, <3>1, SameExpiry
  <2>6. CASE i = k /\ entered[c][k] = window[k]
    <3>1. c \in Owing(i)
      BY <2>1, <2>6 DEF Owing, Refunding
    <3>2. ttl'[i] = ttl[i] /\ late'[i] = late[i]
      BY <1>1, <1>5, <2>6, <3>1 DEF RollbackKey, TypeOK, KeyExpiry
    <3> QED
      BY <1>1, <2>1, <2>3, <2>4, <3>2, SameExpiry
  <2>7. CASE i = k /\ entered[c][k] # window[k]
    <3>1. ttl'[i] # "absent" /\ late'[i] > 0
      BY <1>1, <1>5, <2>7 DEF RollbackKey, TypeOK
    <3> QED
      BY <3>1 DEF KeyExpiry
  <2> QED
    BY <2>5, <2>6, <2>7
<1>6. ASSUME NEW c \in Caller, NEW k \in Key, FailOpen(c, k) \/ AnswerLost(c, k)
      PROVE  KeyExpiry(i)'
  <2>1. PICK s : Move(c, k, s) /\ s \notin Refunding
    BY <1>6 DEF FailOpen, AnswerLost, Refunding
  <2>2. UNCHANGED <<window, entered>> /\ faults' = faults + 1
    BY <1>6 DEF FailOpen, AnswerLost
  <2>3. ttl'[i] = "absent" => ttl[i] = "absent"
    BY <1>1, <1>6 DEF FailOpen, AnswerLost, TypeOK
  <2>4. \A d \in Caller, x \in Key : stage'[d][x] = IF d = c /\ x = k THEN s ELSE stage[d][x]
    BY <1>1, <2>1 DEF Move, TypeOK
  <2>5. Owing(i)' \subseteq Owing(i)
    BY <2>1, <2>2, <2>4 DEF Owing
  <2>6. faults' # 0
    BY <1>1, <2>2
  <2> QED
    BY <1>1, <2>3, <2>5, <2>6 DEF KeyExpiry
<1>7. ASSUME NEW c \in Caller, NEW k \in Key, IncrKey(c, k)
      PROVE  KeyExpiry(i)'
  <2>1. /\ UNCHANGED <<window, late, faults>> /\ stage[c][k] = "incr"
        /\ \A d \in Caller, x \in Key : (d = c /\ x = k) \/ entered'[d][x] = entered[d][x]
    BY <1>1, <1>7 DEF IncrKey, TypeOK
  <2>2. PICK s : Move(c, k, s) /\ (ttl[k] # "set" => s \in Expiring)
    BY <1>7 DEF IncrKey, Expiring
  <2>3. \A d \in Caller, x \in Key : stage'[d][x] = IF d = c /\ x = k THEN s ELSE stage[d][x]
    BY <1>1, <2>2 DEF Move, TypeOK
  <2>4. CASE i # k
    <3>1. ttl'[i] = ttl[i]
      BY <1>1, <1>7, <2>4 DEF IncrKey, TypeOK
    <3>2. Owing(i)' \subseteq Owing(i)
      BY <2>1, <2>3, <2>4 DEF Owing
    <3> QED
      BY <1>1, <2>1, <2>3, <2>4, <3>1, <3>2, SameExpiry
  <2>5. CASE i = k
    <3>1. ttl'[i] = IF ttl[i] = "set" THEN "set" ELSE "forever"
      BY <1>1, <1>7, <2>5 DEF IncrKey, TypeOK
    <3>2. ttl'[i] = "forever" => stage'[c][i] \in Expiring
      BY <2>2, <2>3, <2>5, <3>1
    <3> QED
      BY <3>1, <3>2 DEF KeyExpiry
  <2> QED
    BY <2>4, <2>5
<1>8. ASSUME NEW k \in Key, EndWindow(k) PROVE KeyExpiry(i)'
  <2>1. UNCHANGED <<stage, entered, faults>>
    BY <1>8 DEF EndWindow
  <2>2. CASE i # k
    <3>1. /\ ttl'[i] = ttl[i] /\ late'[i] = late[i] /\ window'[i] = window[i]
      BY <1>1, <1>8, <2>2 DEF EndWindow, TypeOK
    <3> QED
      BY <1>1, <2>1, <3>1, SameExpiry DEF Owing
  <2>3. CASE i = k
    <3>1. ttl'[i] = "absent" /\ window'[i] = window[i] + 1
      BY <1>1, <1>8, <2>3 DEF EndWindow, TypeOK
    <3>2. \A c \in Caller : entered[c][i] \in Nat /\ window[i] \in Nat /\ entered[c][i] <= window[i]
      BY <1>1, RateLimitAssumption DEF TypeOK, Bookkeeping
    <3>3. Owing(i)' = {}
      BY <2>1, <3>1, <3>2 DEF Owing
    <3> QED
      BY <3>1, <3>3 DEF KeyExpiry
  <2> QED
    BY <2>2, <2>3
<1>9. CASE UNCHANGED vars
  BY <1>1, <1>9, SameExpiry DEF vars, Owing
<1> QED
  BY <1>2, <1>3, <1>4, <1>5, <1>6, <1>7, <1>8, <1>9 DEF Next

LEMMA InitExpiry == Init => \A k \in Key : KeyExpiry(k)
BY DEF Init, KeyExpiry, Owing, Refunding

\* While no command has failed, a key without an expiry is being given one, or
\* a refund that came after its window has made it.
THEOREM ForeverHolds == Spec => []ForeverIsBrief
<1>1. (\A k \in Key : KeyExpiry(k)) => ForeverIsBrief
  BY DEF KeyExpiry, ForeverIsBrief, Expiring
<1> QED
  BY <1>1, InitExpiry, NextExpiry, TypedInvariant, PTL DEF Spec

-----------------------------------------------------------------------------
(***************************************************************************)
(* LoginLimiter.  The sign-ins that are past the guard bound what a locked *)
(* counter can still grow by.                                              *)
(***************************************************************************)
Passed == {c \in Client : signin[c] = "password"}

LoginTypeOK ==
    /\ attempts \in Nat /\ lapses \in BOOLEAN
    /\ signin \in [Client -> {"idle", "password", "expire"}]
    /\ mishaps \in 0..MaxMishap

AttemptsBounded ==
    Locked => attempts + Cardinality(Passed) < MaxAttempts + Cardinality(Client) + mishaps

LockLapses ==
    (mishaps = 0 /\ attempts > 0) => (lapses \/ \E c \in Client : signin[c] = "expire")

LoginInv == LoginTypeOK /\ AttemptsBounded /\ LockLapses

\* The sets of sign-ins are finite, whatever the state.
LEMMA PassedFinite ==
    /\ IsFiniteSet(Passed) /\ Cardinality(Passed) \in Nat
    /\ IsFiniteSet(Client) /\ Cardinality(Client) \in Nat
    /\ Cardinality(Passed) <= Cardinality(Client)
<1>1. IsFiniteSet(Client) /\ Passed \in SUBSET Client
  BY LoginAssumption DEF Passed
<1> QED
  BY <1>1, FS_Subset, FS_CardinalityType

\* One sign-in leaves the guard behind it, or comes past it.
LEMMA PassedMoves ==
    ASSUME LoginTypeOK, NEW c \in Client, NEW step \in {"idle", "password", "expire"},
           Proceed(c, step)
    PROVE  /\ Passed' = IF step = "password" THEN Passed \cup {c} ELSE Passed \ {c}
           /\ signin' \in [Client -> {"idle", "password", "expire"}]
           /\ Cardinality(Passed') \in Nat
           /\ Cardinality(Passed') =
                IF step = "password"
                THEN IF c \in Passed THEN Cardinality(Passed) ELSE Cardinality(Passed) + 1
                ELSE IF c \in Passed THEN Cardinality(Passed) - 1 ELSE Cardinality(Passed)
<1>1. Passed' = IF step = "password" THEN Passed \cup {c} ELSE Passed \ {c}
  BY DEF LoginTypeOK, Proceed, Passed
<1>2. signin' \in [Client -> {"idle", "password", "expire"}]
  BY DEF LoginTypeOK, Proceed
<1>3. /\ IsFiniteSet(Passed \cup {c})
      /\ Cardinality(Passed \cup {c}) =
           IF c \in Passed THEN Cardinality(Passed) ELSE Cardinality(Passed) + 1
  BY PassedFinite, FS_AddElement
<1>4. /\ IsFiniteSet(Passed \ {c})
      /\ Cardinality(Passed \ {c}) =
           IF c \in Passed THEN Cardinality(Passed) - 1 ELSE Cardinality(Passed)
  BY PassedFinite, FS_RemoveElement
<1>5. IsFiniteSet(Passed')
  BY <1>1, <1>3, <1>4
<1>6. Cardinality(Passed') \in Nat
  BY <1>5, FS_CardinalityType
<1> QED
  BY <1>1, <1>2, <1>3, <1>4, <1>6

\* It holds before the first sign-in.
LEMMA LoginStart == LoginInit => LoginInv
<1> SUFFICES ASSUME LoginInit PROVE LoginInv
  OBVIOUS
<1>1. LoginTypeOK
  <2>1. mishaps \in 0..MaxMishap /\ attempts \in Nat
    BY LoginAssumption DEF LoginInit
  <2>2. lapses \in BOOLEAN /\ signin \in [Client -> {"idle", "password", "expire"}]
    BY DEF LoginInit
  <2> QED
    BY <2>1, <2>2 DEF LoginTypeOK
<1>2. ~Locked
  BY LoginAssumption DEF LoginInit, Locked
<1>3. LockLapses
  BY DEF LoginInit, LockLapses
<1> QED
  BY <1>1, <1>2, <1>3 DEF LoginInv, AttemptsBounded

\* Every step keeps it.
LEMMA LoginStep == LoginInv /\ [LoginNext]_loginVars => LoginInv'
<1> SUFFICES ASSUME LoginInv, [LoginNext]_loginVars PROVE LoginInv'
  OBVIOUS
<1> USE LoginAssumption DEF LoginInv
<1>0. /\ Cardinality(Passed) \in Nat /\ Cardinality(Client) \in Nat
      /\ attempts \in Nat /\ mishaps \in Nat
  BY PassedFinite DEF LoginTypeOK
<1>1. ASSUME NEW c \in Client, CanActivate(c) PROVE LoginInv'
  <2>1. /\ signin[c] = "idle" /\ Proceed(c, "password")
        /\ attempts' = attempts /\ lapses' = lapses
        /\ IF Locked THEN mishaps < MaxMishap /\ mishaps' = mishaps + 1 ELSE mishaps' = mishaps
    BY <1>1 DEF CanActivate, Mishap
  <2>2. Cardinality(Passed') = Cardinality(Passed) + 1
    BY <2>1, PassedMoves DEF Passed
  <2>3. signin' \in [Client -> {"idle", "password", "expire"}]
    BY <2>1, PassedMoves
  <2>4. LoginTypeOK'
    BY <1>0, <2>1, <2>3 DEF LoginTypeOK
  <2>5. AttemptsBounded'
    BY <1>0, <2>1, <2>2 DEF AttemptsBounded, Locked
  <2>6. LockLapses'
    BY <1>0, <2>1 DEF LockLapses, Proceed, LoginTypeOK
  <2> QED
    BY <2>4, <2>5, <2>6
<1>2. ASSUME NEW c \in Client, Refuse(c) PROVE LoginInv'
  BY <1>2 DEF Refuse, loginVars, LoginTypeOK, AttemptsBounded, LockLapses, Locked, Passed
<1>3. ASSUME NEW c \in Client, RecordFailedAttempt(c) PROVE LoginInv'
  <2> DEFINE step == IF attempts' = 1 THEN "expire" ELSE "idle"
  <2>1. /\ signin[c] = "password" /\ Proceed(c, step) /\ step \in {"idle", "expire"}
        /\ attempts' = attempts + 1 /\ lapses' = lapses /\ mishaps' = mishaps
    BY <1>3 DEF RecordFailedAttempt
  <2>2. /\ Cardinality(Passed') = Cardinality(Passed) - 1
        /\ signin' \in [Client -> {"idle", "password", "expire"}]
        /\ Cardinality(Passed') \in Nat
    <3> HIDE DEF step
    <3>1. c \in Passed /\ step \in {"idle", "password", "expire"} /\ step # "password"
      BY <2>1 DEF Passed
    <3> QED
      BY <2>1, <3>1, PassedMoves
  <2>3. LoginTypeOK'
    BY <1>0, <2>1, <2>2 DEF LoginTypeOK
  <2>4. AttemptsBounded'
    BY <1>0, <2>1, <2>2, PassedFinite DEF AttemptsBounded, Locked
  <2>5. LockLapses'
    <3>1. CASE attempts = 0
      BY <2>1, <3>1 DEF LockLapses, Proceed, LoginTypeOK
    <3>2. CASE attempts # 0
      BY <1>0, <2>1, <3>2 DEF LockLapses, Proceed, LoginTypeOK
    <3> QED
      BY <3>1, <3>2
  <2> QED
    BY <2>3, <2>4, <2>5
<1>4. ASSUME NEW c \in Client, Expiry(c) PROVE LoginInv'
  <2>1. /\ signin[c] = "expire" /\ Proceed(c, "idle")
        /\ attempts' = attempts /\ lapses' = (attempts > 0) /\ mishaps' = mishaps
    BY <1>4 DEF Expiry
  <2>2. /\ Cardinality(Passed') = Cardinality(Passed)
        /\ signin' \in [Client -> {"idle", "password", "expire"}]
    BY <2>1, PassedMoves DEF Passed
  <2>3. LoginTypeOK'
    BY <2>1, <2>2 DEF LoginTypeOK
  <2>4. AttemptsBounded'
    BY <2>1, <2>2 DEF AttemptsBounded, Locked
  <2>5. LockLapses'
    BY <2>1 DEF LockLapses
  <2> QED
    BY <2>3, <2>4, <2>5
<1>5. ASSUME NEW c \in Client, ClearAttempts(c) PROVE LoginInv'
  <2>1. /\ Proceed(c, "idle") /\ attempts' = 0 /\ lapses' = FALSE /\ mishaps' = mishaps
    BY <1>5 DEF ClearAttempts
  <2>2. signin' \in [Client -> {"idle", "password", "expire"}]
    BY <2>1, PassedMoves
  <2>3. LoginTypeOK'
    BY <2>1, <2>2 DEF LoginTypeOK
  <2>4. ~Locked'
    BY <2>1 DEF Locked
  <2>5. LockLapses'
    BY <2>1 DEF LockLapses
  <2> QED
    BY <2>3, <2>4, <2>5 DEF AttemptsBounded
<1>6. ASSUME NEW c \in Client, Fail(c) PROVE LoginInv'
  <2>1. /\ signin[c] # "idle" /\ Proceed(c, "idle") /\ attempts' = attempts /\ lapses' = lapses
        /\ mishaps < MaxMishap /\ mishaps' = mishaps + 1
    BY <1>6 DEF Fail, Mishap
  <2>2. /\ Cardinality(Passed') <= Cardinality(Passed) /\ Cardinality(Passed') \in Nat
        /\ signin' \in [Client -> {"idle", "password", "expire"}]
    BY <1>0, <2>1, PassedMoves
  <2>3. LoginTypeOK'
    BY <1>0, <2>1, <2>2 DEF LoginTypeOK
  <2>4. AttemptsBounded'
    BY <1>0, <2>1, <2>2 DEF AttemptsBounded, Locked
  <2>5. LockLapses'
    BY <1>0, <2>1 DEF LockLapses
  <2> QED
    BY <2>3, <2>4, <2>5
<1>7. CASE Lapse
  <2>1. LoginTypeOK'
    BY <1>7 DEF Lapse, LoginTypeOK
  <2>2. ~Locked'
    BY <1>7 DEF Lapse, Locked
  <2>3. LockLapses'
    BY <1>7 DEF Lapse, LockLapses
  <2> QED
    BY <2>1, <2>2, <2>3 DEF AttemptsBounded
<1>8. CASE UNCHANGED loginVars
  BY <1>8 DEF loginVars, LoginTypeOK, AttemptsBounded, LockLapses, Locked, Passed
<1> QED
  BY <1>1, <1>2, <1>3, <1>4, <1>5, <1>6, <1>7, <1>8 DEF LoginNext

\* The attempts of one lockout period never exceed the limit by more than the
\* sign-ins that overlap and the Redis errors, and without errors every lock goes
\* away by itself (LoginRateLimitGuard).
THEOREM LockoutHolds == LoginSpec => []LockoutKept
<1>1. LoginInv => LockoutKept
  <2> SUFFICES ASSUME LoginInv PROVE LockoutKept
    OBVIOUS
  <2>1. /\ attempts \in Nat /\ mishaps \in Nat
        /\ Cardinality(Passed) \in Nat /\ Cardinality(Client) \in Nat
    BY PassedFinite, LoginAssumption DEF LoginInv, LoginTypeOK
  <2>2. attempts < MaxAttempts + Cardinality(Client) + mishaps
    BY <2>1, LoginAssumption DEF LoginInv, AttemptsBounded, Locked
  <2> QED
    BY <2>2 DEF LockoutKept, LoginInv, LockLapses
<1> QED
  BY <1>1, LoginStart, LoginStep, PTL DEF LoginSpec
==============================================================================
