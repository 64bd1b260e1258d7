----------------------------- MODULE RateLimit -----------------------------
(***************************************************************************)
(* The fixed-window limits kept in Redis by rate-limit.service.ts, and its *)
(* two users: MessagesService.sendMessage(), which asks for a page, a      *)
(* workspace and a contact limit at once (consumeMessageQuota), and the    *)
(* message workers, which ask for the page limit only.                     *)
(*                                                                         *)
(* A call works on its keys concurrently (Promise.all): every key goes     *)
(* through its own sequence of Redis commands, GET in the first round,     *)
(* MULTI, PEXPIRE and DECRBY in the second.                                *)
(***************************************************************************)
EXTENDS Integers, FiniteSets

CONSTANTS
    Api,        \* calls of consumeMessageQuota that may overlap
    Worker,     \* jobs that check and consume the page limit
    Key, Page,  \* the limit keys; the one of the page
    Limit,      \* the limit of each key
    MaxWindow,  \* bound: windows of one key
    MaxFault    \* bound: Redis commands that fail

Caller == Api \cup Worker

ASSUME RateLimitAssumption ==
    /\ IsFiniteSet(Api) /\ IsFiniteSet(Worker) /\ Api \cap Worker = {}
    /\ Page \in Key
    /\ Limit \in [Key -> Nat \ {0}]
    /\ MaxWindow \in Nat /\ MaxFault \in Nat

VARIABLES
    count,     \* the value of each key, 0 when it does not exist
    ttl,       \* "absent", "forever" (no expiry set) or "set"
    stage,     \* where each call stands with each key
    window,    \* windows of the key so far
    admitted,  \* history: increments of this window that came back allowed
    late,      \* history: refunds in this window of an earlier one's increment
    entered,   \* history: the window in which a call incremented a key
    faults

vars == <<count, ttl, stage, window, admitted, late, entered, faults>>

KeysOf(c) == IF c \in Api THEN Key ELSE {Page}

FirstRound == {"check", "pass", "full"}
SecondRound == {"incr", "expire", "expireOver", "rollback", "ok", "over"}
Stage == {"unused"} \cup FirstRound \cup SecondRound

Init ==
    /\ count = [k \in Key |-> 0]
    /\ ttl = [k \in Key |-> "absent"]
    /\ stage = [c \in Caller |-> [k \in Key |-> "unused"]]
    /\ window = [k \in Key |-> 0]
    /\ admitted = [k \in Key |-> 0]
    /\ late = [k \in Key |-> 0]
    /\ entered = [c \in Caller |-> [k \in Key |-> 0]]
    /\ faults = 0

\* The call c is at one of these stages with each of its keys.
AllAt(c, stages) == \A k \in KeysOf(c) : stage[c][k] \in stages
SetAll(c, s) ==
    stage' = [stage EXCEPT ![c] = [k \in Key |-> IF k \in KeysOf(c) THEN s ELSE "unused"]]
Move(c, k, s) == stage' = [stage EXCEPT ![c][k] = s]

Start(c) ==
    /\ AllAt(c, {"unused"})
    /\ SetAll(c, "check")
    /\ UNCHANGED <<count, ttl, window, admitted, late, entered, faults>>

\* checkRateLimit(): GET, and TTL for the message; nothing is written.
CheckKey(c, k) ==
    /\ stage[c][k] = "check"
    /\ Move(c, k, IF count[k] < Limit[k] THEN "pass" ELSE "full")
    /\ UNCHANGED <<count, ttl, window, admitted, late, entered, faults>>

\* consumeMessageQuota(): the first round is over, and any limit that is
\* reached ends the call.
DecideSend(c) ==
    /\ c \in Api
    /\ AllAt(c, {"pass", "full"})
    /\ SetAll(c, IF AllAt(c, {"pass"}) THEN "incr" ELSE "unused")
    /\ UNCHANGED <<count, ttl, window, admitted, late, entered, faults>>

\* A worker tests the status object, which is true either way, and goes on.
DecideJob(c) ==
    /\ c \in Worker
    /\ AllAt(c, {"pass", "full"})
    /\ SetAll(c, "incr")
    /\ UNCHANGED <<count, ttl, window, admitted, late, entered, faults>>

\* Slip: the increment is compared as checkRateLimit compares the old count.
Slip_OneMore(k, n) == n <= Limit[k] + 1

Within(k, n) == n <= Limit[k]

\* incrementAndCheck(): INCRBY and TTL in one MULTI, and the way to go on.
IncrKey(c, k) ==
    LET n == count[k] + 1 IN
    /\ stage[c][k] = "incr"
    /\ count' = [count EXCEPT ![k] = n]
    /\ ttl' = [ttl EXCEPT ![k] = IF @ = "set" THEN "set" ELSE "forever"]
    /\ entered' = [entered EXCEPT ![c][k] = window[k]]
    /\ IF Within(k, n)
       THEN /\ admitted' = [admitted EXCEPT ![k] = @ + 1]
            /\ Move(c, k, IF ttl[k] = "set" THEN "ok" ELSE "expire")
       ELSE /\ Move(c, k, IF ttl[k] = "set" THEN "rollback" ELSE "expireOver")
            /\ UNCHANGED admitted
    /\ UNCHANGED <<window, late, faults>>

\* Slip: the expiry of a new key is not set.
Slip_ExpireNever(c, k) ==
    /\ \/ stage[c][k] = "expire" /\ Move(c, k, "ok")
       \/ stage[c][k] = "expireOver" /\ Move(c, k, "rollback")
    /\ UNCHANGED <<count, ttl, window, admitted, late, entered, faults>>

\* PEXPIRE of a key that had no expiry.
ExpireKey(c, k) ==
    /\ \/ stage[c][k] = "expire" /\ Move(c, k, "ok")
       \/ stage[c][k] = "expireOver" /\ Move(c, k, "rollback")
    /\ ttl' = [ttl EXCEPT ![k] = IF @ = "absent" THEN "absent" ELSE "set"]
    /\ UNCHANGED <<count, window, admitted, late, entered, faults>>

\* Slip: an increment over the limit is not rolled back.
Slip_KeepIncrement(c, k) ==
    /\ stage[c][k] = "rollback"
    /\ Move(c, k, "over")
    /\ UNCHANGED <<count, ttl, window, admitted, late, entered, faults>>

\* DECRBY; on a key that expired meanwhile it makes a new one, at -1.
RollbackKey(c, k) ==
    /\ stage[c][k] = "rollback"
    /\ count' = [count EXCEPT ![k] = @ - 1]
    /\ ttl' = [ttl EXCEPT ![k] = IF @ = "absent" THEN "forever" ELSE @]
    /\ late' = [late EXCEPT ![k] = IF entered[c][k] = window[k] THEN @ ELSE @ + 1]
    /\ Move(c, k, "over")
    /\ UNCHANGED <<window, admitted, entered, faults>>

\* A command that fails is caught, and the key counts as allowed (fail open).
FailOpen(c, k) ==
    /\ faults < MaxFault
    /\ \/ stage[c][k] = "check" /\ Move(c, k, "pass")
       \/ stage[c][k] \in {"incr", "expire", "expireOver", "rollback"} /\ Move(c, k, "ok")
    /\ faults' = faults + 1
    /\ UNCHANGED <<count, ttl, window, admitted, late, entered>>

\* The same, when only the answer of the INCRBY is lost.
AnswerLost(c, k) ==
    /\ faults < MaxFault
    /\ stage[c][k] = "incr" /\ Move(c, k, "ok")
    /\ count' = [count EXCEPT ![k] = @ + 1]
    /\ ttl' = [ttl EXCEPT ![k] = IF @ = "set" THEN "set" ELSE "forever"]
    /\ faults' = faults + 1
    /\ UNCHANGED <<window, admitted, late, entered>>

\* Both rounds are over: allowed, whatever the increments answered.
Return(c) ==
    /\ AllAt(c, {"ok", "over"})
    /\ SetAll(c, "unused")
    /\ UNCHANGED <<count, ttl, window, admitted, late, entered, faults>>

\* Redis drops the key at the end of its window.
EndWindow(k) ==
    /\ ttl[k] = "set" /\ window[k] < MaxWindow
    /\ count' = [count EXCEPT ![k] = 0]
    /\ ttl' = [ttl EXCEPT ![k] = "absent"]
    /\ window' = [window EXCEPT ![k] = @ + 1]
    /\ admitted' = [admitted EXCEPT ![k] = 0]
    /\ late' = [late EXCEPT ![k] = 0]
    /\ UNCHANGED <<stage, entered, faults>>

Next ==
    \/ \E c \in Caller : Start(c) \/ DecideSend(c) \/ DecideJob(c) \/ Return(c)
    \/ \E c \in Caller, k \in Key :
          CheckKey(c, k) \/ IncrKey(c, k) \/ ExpireKey(c, k) \/ RollbackKey(c, k)
            \/ FailOpen(c, k) \/ AnswerLost(c, k)
    \/ \E k \in Key : EndWindow(k)

Spec == Init /\ [][Next]_vars

-----------------------------------------------------------------------------
\* Every variable keeps to its values (a count may go below zero), and a call is
\* in one round at a time: Promise.all waits for all of its keys.
TypeOK ==
    /\ count \in [Key -> Int]
    /\ ttl \in [Key -> {"absent", "forever", "set"}]
    /\ stage \in [Caller -> [Key -> Stage]]
    /\ \A c \in Caller :
          AllAt(c, {"unused"}) \/ AllAt(c, FirstRound) \/ AllAt(c, SecondRound)
    /\ window \in [Key -> 0..MaxWindow]
    /\ admitted \in [Key -> Nat]
    /\ late \in [Key -> Nat]
    /\ entered \in [Caller -> [Key -> 0..MaxWindow]]
    /\ faults \in 0..MaxFault

\* A window lets through no more increments than its limit, and one more for
\* each refund that came too late, after its own window had ended.
WindowLimit == \A k \in Key : admitted[k] <= Limit[k] + late[k]

\* Calls that were over the limit leave nothing behind: when no call is under
\* way the key holds what was let through, less the refunds that came late.
QuietCountExact ==
    (faults = 0 /\ \A c \in Caller : AllAt(c, {"unused"}))
      => \A k \in Key : count[k] = admitted[k] - late[k]

\* A key without an expiry is being given one, or a late refund has made it.
ForeverIsBrief ==
    faults = 0 => \A k \in Key : ttl[k] = "forever" =>
        late[k] > 0 \/ \E c \in Caller : stage[c][k] \in {"expire", "expireOver"}
=============================================================================
