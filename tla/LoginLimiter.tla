---------------------------- MODULE LoginLimiter ----------------------------
(***************************************************************************)
(* The lock on sign-ins after failed attempts (LoginRateLimitGuard in      *)
(* rate-limit.guard.ts), for one address and one name: a counter in Redis  *)
(* that the guard reads before the password is checked and that the login  *)
(* increments, or deletes, afterwards.                                     *)
(***************************************************************************)
EXTENDS Naturals, FiniteSets

CONSTANTS
    Client,        \* sign-ins that may be under way together
    MaxAttempts,   \* MAX_ATTEMPTS
    MaxMishap      \* bound: Redis errors and crashes

ASSUME LoginAssumption ==
    /\ IsFiniteSet(Client)
    /\ MaxAttempts \in Nat \ {0}
    /\ MaxMishap \in Nat

VARIABLES
    attempts,   \* the value of the key login_attempts:<ip>:<email>, 0 without it
    lapses,     \* does that key have a time to live?
    signin,     \* where each sign-in stands
    mishaps     \* errors and crashes so far

loginVars == <<attempts, lapses, signin, mishaps>>

LoginInit ==
    /\ attempts = 0 /\ lapses = FALSE /\ mishaps = 0
    /\ signin = [c \in Client |-> "idle"]

Proceed(c, step) == signin' = [signin EXCEPT ![c] = step]
Mishap == mishaps < MaxMishap /\ mishaps' = mishaps + 1

\* Slip: the attempt after the last one is let through, too.
Slip_LockLate == attempts > MaxAttempts

Locked == attempts >= MaxAttempts

\* canActivate(): reads the counter; a Redis error lets the request through.
CanActivate(c) ==
    /\ signin[c] = "idle" /\ Proceed(c, "password")
    /\ IF Locked THEN Mishap ELSE UNCHANGED mishaps
    /\ UNCHANGED <<attempts, lapses>>

Refuse(c) == signin[c] = "idle" /\ Locked /\ UNCHANGED loginVars

\* recordFailedAttempt(): INCR, and EXPIRE of a new key.
RecordFailedAttempt(c) ==
    /\ signin[c] = "password"
    /\ attempts' = attempts + 1
    /\ Proceed(c, IF attempts' = 1 THEN "expire" ELSE "idle")
    /\ UNCHANGED <<lapses, mishaps>>

Expiry(c) ==
    /\ signin[c] = "expire" /\ Proceed(c, "idle")
    /\ lapses' = (attempts > 0)
    /\ UNCHANGED <<attempts, mishaps>>

\* clearAttempts(), when the password was right.
ClearAttempts(c) ==
    /\ signin[c] = "password" /\ Proceed(c, "idle")
    /\ attempts' = 0 /\ lapses' = FALSE
    /\ UNCHANGED mishaps

\* A Redis error, which the callers log and pass over, or a crash.
Fail(c) ==
    /\ signin[c] # "idle" /\ Proceed(c, "idle") /\ Mishap
    /\ UNCHANGED <<attempts, lapses>>

\* LOCKOUT_SECONDS after the first of the attempts.
Lapse == lapses /\ attempts' = 0 /\ lapses' = FALSE /\ UNCHANGED <<signin, mishaps>>

LoginNext ==
    \/ \E c \in Client :
         \/ CanActivate(c) \/ Refuse(c) \/ RecordFailedAttempt(c)
         \/ Expiry(c) \/ ClearAttempts(c) \/ Fail(c)
    \/ Lapse

LoginSpec == LoginInit /\ [][LoginNext]_loginVars

-----------------------------------------------------------------------------
\* However sign-ins overlap, the attempts of one lockout period stay below the limit
\* plus those that were already past the guard (and one for each Redis error), and,
\* while nothing failed, a lock is always one that goes away by itself: a delete
\* that comes between INCR and EXPIRE leaves no key without an expiry.
LockoutKept ==
    /\ attempts < MaxAttempts + Cardinality(Client) + mishaps
    /\ (mishaps = 0 /\ attempts > 0) =>
         (lapses \/ \E c \in Client : signin[c] = "expire")
=============================================================================
