---------------------------- MODULE TenantQuota ----------------------------
(***************************************************************************)
(* The daily send cap of a workspace: TenantQuotaService.consumeSendSlot() *)
(* (tenant-quota.service.ts), called by every job of the message workers   *)
(* before it sends.  One workspace; its Redis keys are one per day, and no *)
(* other workspace touches them.                                           *)
(*                                                                         *)
(* A call is up to three awaited Redis commands, INCR, EXPIRE and DECR, so *)
(* calls interleave between them; a call may also be cut short between two *)
(* of them, by a crash of the process or an error of Redis.                *)
(***************************************************************************)
EXTENDS Naturals, FiniteSets

CONSTANTS
    Job,   \* jobs that may be inside consumeSendSlot() together
    Cap,      \* DEFAULT_TENANT_DAILY_SEND_CAP, when it is set
    MaxDay,   \* bound: days that pass
    MaxLost   \* bound: calls cut short

ASSUME QuotaAssumption ==
    /\ IsFiniteSet(Job)
    /\ Cap \in Nat \ {0}
    /\ MaxDay \in Nat \ {0}
    /\ MaxLost \in Nat

VARIABLES
    today,
    counter,  \* the value of the key quota:workspace:<id>:sends:<day>
    expires,  \* does that key have a time to live?
    pc, day,  \* where each call stands, and the day of the key it uses
    slots,    \* history: INCRs of the day that found a free slot
    granted,  \* history: calls of the day that returned normally
    lost      \* calls cut short so far

keys == <<counter, expires>>
history == <<slots, granted>>
quotaVars == <<today, keys, pc, day, history, lost>>

Day == 1..MaxDay

QuotaInit ==
    /\ today = 1
    /\ counter = [d \in Day |-> 0]
    /\ expires = [d \in Day |-> FALSE]
    /\ pc = [w \in Job |-> "idle"]
    /\ day = [w \in Job |-> 1]
    /\ slots = [d \in Day |-> 0]
    /\ granted = [d \in Day |-> 0]
    /\ lost = 0

\* Slips: the new value is compared before it is counted, or one too early.
Slip_OldValue(n) == n > Cap + 1
Slip_OneEarly(n) == n >= Cap

OverCap(n) == n > Cap

Slip_FirstIsZero(n) == n = 0
FirstOfDay(n) == n = 1

\* INCR, and what follows it up to the next command.
Incr(w) ==
    LET n == counter[today] + 1 IN
    /\ pc[w] = "idle"
    /\ counter' = [counter EXCEPT ![today] = n]
    /\ day' = [day EXCEPT ![w] = today]
    /\ pc' = [pc EXCEPT ![w] = IF FirstOfDay(n) THEN "expire"
                               ELSE IF OverCap(n) THEN "decr" ELSE "idle"]
    /\ slots' = [slots EXCEPT ![today] = IF OverCap(n) THEN @ ELSE @ + 1]
    /\ granted' = [granted EXCEPT ![today] = IF pc'[w] = "idle" THEN @ + 1 ELSE @]
    /\ UNCHANGED <<today, expires, lost>>

\* EXPIRE of a new key; its value, 1, is never over the cap.
Expire(w) ==
    /\ pc[w] = "expire"
    /\ expires' = [expires EXCEPT ![day[w]] = TRUE]
    /\ pc' = [pc EXCEPT ![w] = "idle"]
    /\ granted' = [granted EXCEPT ![day[w]] = @ + 1]
    /\ UNCHANGED <<today, counter, day, slots, lost>>

\* Slip: the count is given back twice, once more by the caller's catch block.
Slip_DecrTwice(w) ==
    /\ pc[w] = "decr"
    /\ counter' = [counter EXCEPT ![day[w]] = @ - 2]
    /\ pc' = [pc EXCEPT ![w] = "idle"]
    /\ UNCHANGED <<today, expires, day, history, lost>>

\* DECR gives the count back, and the call throws.
Decr(w) ==
    /\ pc[w] = "decr"
    /\ counter' = [counter EXCEPT ![day[w]] = @ - 1]
    /\ pc' = [pc EXCEPT ![w] = "idle"]
    /\ UNCHANGED <<today, expires, day, history, lost>>

\* The call ends where it stands, by a crash or an error of Redis.
CutShort(w) ==
    /\ lost < MaxLost
    /\ pc[w] # "idle"
    /\ pc' = [pc EXCEPT ![w] = "idle"]
    /\ lost' = lost + 1
    /\ UNCHANGED <<today, keys, day, history>>

NextDay ==
    /\ today < MaxDay
    /\ today' = today + 1
    /\ UNCHANGED <<keys, pc, day, history, lost>>

QuotaNext ==
    \/ \E w \in Job : Incr(w) \/ Expire(w) \/ Decr(w) \/ CutShort(w)
    \/ NextDay

QuotaSpec == QuotaInit /\ [][QuotaNext]_quotaVars

-----------------------------------------------------------------------------
\* Every variable keeps to its values; the key never falls below zero.
QuotaTypeOK ==
    /\ today \in Day
    /\ counter \in [Day -> Nat]
    /\ expires \in [Day -> BOOLEAN]
    /\ pc \in [Job -> {"idle", "expire", "decr"}]
    /\ day \in [Job -> Day]
    /\ slots \in [Day -> Nat]
    /\ granted \in [Day -> Nat]
    /\ lost \in 0..MaxLost

\* The cap holds however the calls interleave, also across midnight: no more
\* calls return normally on a day than it allows.
NeverOverCap == \A d \in Day : granted[d] <= Cap

\* The calls of day d that stand at step s.
At(s, d) == {w \in Job : pc[w] = s /\ day[w] = d}

\* Nobody is turned away while there is room: the counts that calls over the
\* cap have added and not yet taken back never cost another call its slot.
RefusedOnlyWhenFull == \A d \in Day : At("decr", d) # {} => slots[d] = Cap

\* Unless a call was cut short, the key of a day goes away by itself.
KeysExpire ==
    lost = 0 => \A d \in Day : counter[d] > 0 => (expires[d] \/ At("expire", d) # {})

\* The counter, its decrements and the calls cut short implement a pool of Cap
\* slots a day: a slot is taken once and granted at most once, and a decrement
\* never makes room that a call under way does not already have.
Pool == INSTANCE DailyPool WITH free <- [d \in Day |-> Cap - slots[d]]

PoolOfSlots == Pool!Spec

(***************************************************************************)
(* The inductive invariant: counter counts the slots taken and what calls  *)
(* over the cap have yet to take back (or never will).                     *)
(***************************************************************************)
DayAccounts(d) ==
    /\ granted[d] + Cardinality(At("expire", d)) <= slots[d]
    /\ slots[d] + Cardinality(At("decr", d)) <= counter[d]
    /\ slots[d] <= Cap
    /\ counter[d] > slots[d] => slots[d] = Cap

Accounting == \A d \in Day : DayAccounts(d)
=============================================================================
