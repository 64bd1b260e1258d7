----------------------------- MODULE AuthSession -----------------------------
(***************************************************************************)
(* Sessions of one account: sign-in, refresh, validation and the ways to   *)
(* end them (auth.service.ts; users.service.ts for the console), over the  *)
(* rows of the table session and the cache of them in Redis.               *)
(*                                                                         *)
(* A call is cut at its awaited calls to Postgres and Redis.  Time is in   *)
(* ticks: what a call read from or wrote to a row is in the cache before   *)
(* the next tick.                                                          *)
(***************************************************************************)
EXTENDS Naturals, FiniteSets

CONSTANTS
    Caller,       \* slots for calls that are under way together
    Session,      \* session ids
    RefreshTtl,   \* lifetime of a session after a sign-in or refresh (7 days)
    RememberTtl,  \* lifetime after a sign-in with "remember me" (30 days)
    CacheTtl,     \* lifetime of a cache entry (5 minutes)
    MaxTime,      \* bound: ticks
    MaxSecret,    \* bound: refresh tokens of one session that are used
    MaxChange     \* bound: deactivations and changes of the password

ASSUME AuthAssumption ==
    /\ IsFiniteSet(Caller)
    /\ RefreshTtl \in Nat \ {0} /\ RememberTtl \in Nat \ {0} /\ CacheTtl \in Nat \ {0}
    /\ MaxTime \in Nat /\ MaxSecret \in Nat \ {0} /\ MaxChange \in Nat

VARIABLES
    time,
    account,    \* user.status, and ABSENT without a row
    epoch,      \* how often the account was deactivated or its password changed
    row,        \* the rows of session; `used` is history: the youngest refresh
                \*   token of the session that was taken
    cache,      \* the cached sessions
    call,       \* what each caller is doing
    ended,      \* history: when the row was deleted, 0 if it was not
    kept,       \* history: sessions whose row was deleted and whose entry may be left:
                \*   a call about them overlapped the logout, nothing clears the
                \*   cache there, or Redis was away
    stray       \* history: the end of all sessions was overlapped by a sign-in, or
                \*   failed

ghosts == <<ended, kept, stray>>
sessions == <<row, cache>>
authVars == <<time, account, epoch, sessions, call, ghosts>>

Secret == 1..MaxSecret
Instant == 0..(MaxTime + RefreshTtl + RememberTtl)
None == [till |-> 0]
Row == [till : Instant, secret : Nat, epoch : 0..MaxChange, used : Nat]
Entry == [till : Nat, exp : Instant]
Ready == [at |-> "ready"]

AuthInit ==
    /\ time = 1
    /\ account = "ABSENT" /\ epoch = 0
    /\ row = [s \in Session |-> None]
    /\ cache = [s \in Session |-> None]
    /\ call = [c \in Caller |-> Ready]
    /\ ended = [s \in Session |-> 0]
    /\ kept = {}
    /\ stray = FALSE

At(c, step) == call[c].at = step
Do(c, state) == call' = [call EXCEPT ![c] = state]
Done(c) == Do(c, Ready)

Live(s) == row[s] # None
Expired(s) == row[s].till < time
\* What a change of the account has yet to do to its sessions.
Endings == {"list", "deleteAll", "purge"}
FillCalls(s) == {c \in Caller : At(c, "cache") /\ call[c].s = s}

(***************************************************************************)
(* Signing in: validateUser(), or the check of startImpersonation(), then  *)
(* createSession().                                                        *)
(***************************************************************************)
SignIn(c) ==
    /\ At(c, "ready") /\ account = "ACTIVE"
    /\ \E ttl \in {RefreshTtl, RememberTtl} :
          Do(c, [at |-> "create", ttl |-> ttl, epoch |-> epoch])
    /\ UNCHANGED <<time, account, epoch, sessions, ghosts>>

CreateSession(c, s) ==
    LET till == time + call[c].ttl IN
    /\ At(c, "create")
    /\ row[s] = None /\ ended[s] = 0
    /\ row' = [row EXCEPT ![s] = [till |-> till, secret |-> 1,
                                       epoch |-> call[c].epoch, used |-> 0]]
    /\ Do(c, [at |-> "cache", s |-> s, exp |-> till])
    /\ UNCHANGED <<time, account, epoch, cache, ghosts>>

\* Slip: the entry lives as long as the session.
Slip_CacheForSession(c) ==
    /\ At(c, "cache")
    /\ cache' = [cache EXCEPT ![call[c].s] = [till |-> call[c].exp, exp |-> call[c].exp]]
    /\ Done(c)
    /\ UNCHANGED <<time, account, epoch, row, ghosts>>

\* setJson(), at the end of a sign-in, a refresh or a validation, whether or not
\* the row is still there; or Redis is away and the entry is left out.
FillCache(c) ==
    /\ At(c, "cache")
    /\ cache' \in {cache, [cache EXCEPT ![call[c].s] =
                              [till |-> time + CacheTtl, exp |-> call[c].exp]]}
    /\ Done(c)
    /\ UNCHANGED <<time, account, epoch, row, ghosts>>

(***************************************************************************)
(* refreshTokens() with the token g of session s.                          *)
(***************************************************************************)
Refresh(c, s, g) ==
    /\ At(c, "ready") /\ Live(s) /\ g <= row[s].secret
    /\ \/ Expired(s) /\ Do(c, [at |-> "drop", s |-> s])
       \/ ~Expired(s) /\ g = row[s].secret /\ Do(c, [at |-> "rotate", s |-> s, g |-> g])
    /\ UNCHANGED <<time, account, epoch, sessions, ghosts>>

Younger(g, h) == IF g > h THEN g ELSE h

\* Slip: the stored hash stays that of the token just used.
Slip_KeepSecret(c) ==
    LET s == call[c].s IN
    /\ At(c, "rotate") /\ Live(s)
    /\ row' = [row EXCEPT ![s].till = time + RefreshTtl, ![s].used = Younger(@, call[c].g)]
    /\ Do(c, [at |-> "cache", s |-> s, exp |-> time + RefreshTtl])
    /\ UNCHANGED <<time, account, epoch, cache, ended, kept, stray>>

\* The update, by id, with a new token and the short lifetime.
Rotate(c) ==
    LET s == call[c].s IN
    /\ At(c, "rotate") /\ Live(s)
    /\ row' = [row EXCEPT ![s].secret = @ + 1, ![s].till = time + RefreshTtl,
                          ![s].used = Younger(@, call[c].g)]
    /\ Do(c, [at |-> "cache", s |-> s, exp |-> time + RefreshTtl])
    /\ UNCHANGED <<time, account, epoch, cache, ended, kept, stray>>

\* A call of Postgres throws, as an update or a delete of a row that is gone does,
\* and what comes after it is left undone.
Throws(c) ==
    /\ call[c].at \in {"create", "rotate", "drop", "delete", "approve", "reject"} \cup Endings
    /\ Done(c)
    /\ stray' = (stray \/ call[c].at \in Endings)
    /\ UNCHANGED <<time, account, epoch, sessions, ended, kept>>

\* The delete of a session found expired, by id.
DropExpired(c) ==
    /\ At(c, "drop") /\ Live(call[c].s)
    /\ row' = [row EXCEPT ![call[c].s] = None]
    /\ ended' = [ended EXCEPT ![call[c].s] = time]
    /\ kept' = kept \cup {call[c].s}
    /\ Done(c)
    /\ UNCHANGED <<time, account, epoch, cache, stray>>

(***************************************************************************)
(* validateSession().  A hit in the cache changes nothing; the row is read *)
(* after a miss, or when Redis is away.                                    *)
(***************************************************************************)
Accepted(s) == cache[s] # None /\ cache[s].exp > time

Validate(c, s) ==
    /\ At(c, "ready") /\ Live(s)
    /\ \/ Expired(s) /\ Do(c, [at |-> "drop", s |-> s])
       \/ ~Expired(s) /\ Do(c, [at |-> "cache", s |-> s, exp |-> row[s].till])
    /\ UNCHANGED <<time, account, epoch, sessions, ghosts>>

(***************************************************************************)
(* Ending one session: logout(), terminateSession(), endImpersonation().   *)
(***************************************************************************)
Logout(c, s) ==
    /\ At(c, "ready") /\ (Live(s) \/ Accepted(s))
    /\ Do(c, [at |-> "delete", s |-> s])
    /\ UNCHANGED <<time, account, epoch, sessions, ghosts>>

DeleteRow(c) ==
    LET s == call[c].s IN
    /\ At(c, "delete") /\ Live(s)
    /\ row' = [row EXCEPT ![s] = None]
    /\ ended' = [ended EXCEPT ![s] = time]
    /\ kept' = IF FillCalls(s) # {} THEN kept \cup {s} ELSE kept
    /\ Do(c, [at |-> "forget", all |-> {s}])
    /\ UNCHANGED <<time, account, epoch, cache, stray>>

\* Slip: the entries are cleared for the rows that are still there.
Slip_ForgetNothing(c) ==
    /\ At(c, "forget")
    /\ cache' = [s \in Session |-> IF s \in call[c].all /\ Live(s) THEN None
                               ELSE cache[s]]
    /\ Done(c)
    /\ UNCHANGED <<time, account, epoch, row, ghosts>>

\* redis.del(), one entry after the other.
ForgetCached(c) ==
    /\ At(c, "forget")
    /\ \E s \in call[c].all :
          /\ cache' = [cache EXCEPT ![s] = None]
          /\ IF call[c].all = {s} THEN Done(c)
             ELSE Do(c, [at |-> "forget", all |-> call[c].all \ {s}])
    /\ UNCHANGED <<time, account, epoch, row, ghosts>>

\* Redis is away: the call throws, or endImpersonation() goes on without; either
\* way the entries it had not come to yet stay.
ForgetFails(c) ==
    /\ At(c, "forget")
    /\ kept' = kept \cup call[c].all
    /\ Done(c)
    /\ UNCHANGED <<time, account, epoch, sessions, ended, stray>>

(***************************************************************************)
(* logoutAllSessions(), also the end of changePassword() and of            *)
(* deactivateUser().                                                       *)
(***************************************************************************)
ListSessions(c) ==
    /\ At(c, "ready") \/ At(c, "list")
    /\ Do(c, [at |-> "deleteAll", all |-> {s \in Session : Live(s)}])
    /\ UNCHANGED <<time, account, epoch, sessions, ghosts>>

\* deleteMany() takes the rows there are now; the cache is cleared of those that
\* were listed.
DeleteAll(c) ==
    LET here == {s \in Session : Live(s)} IN
    /\ At(c, "deleteAll")
    /\ row' = [s \in Session |-> None]
    /\ ended' = [s \in Session |-> IF s \in here THEN time ELSE ended[s]]
    /\ kept' = kept \cup {s \in here : s \notin call[c].all \/ FillCalls(s) # {}}
    /\ stray' = \E d \in Caller : At(d, "create")
    /\ IF call[c].all = {} THEN Done(c) ELSE Do(c, [at |-> "forget", all |-> call[c].all])
    /\ UNCHANGED <<time, account, epoch, cache>>

(***************************************************************************)
(* The account console (users.service.ts) deletes rows as well, and leaves *)
(* their entries in the cache.                                             *)
(***************************************************************************)
\* terminateSession() of the console.
Terminate(c, s) ==
    /\ At(c, "ready") /\ Live(s)
    /\ row' = [row EXCEPT ![s] = None]
    /\ ended' = [ended EXCEPT ![s] = time]
    /\ kept' = kept \cup {s}
    /\ UNCHANGED <<time, account, epoch, cache, call, stray>>

\* terminateAllSessions(), and the end of resetPassword().
Purge(c) ==
    LET here == {s \in Session : Live(s)} IN
    /\ At(c, "ready") \/ At(c, "purge")
    /\ row' = [s \in Session |-> None]
    /\ ended' = [s \in Session |-> IF s \in here THEN time ELSE ended[s]]
    /\ kept' = kept \cup here
    /\ stray' = \E d \in Caller : At(d, "create")
    /\ Done(c)
    /\ UNCHANGED <<time, account, epoch, cache>>

(***************************************************************************)
(* The account: signup, approval, rejection, deactivation, passwords.      *)
(***************************************************************************)
Signup ==
    /\ account = "ABSENT"
    /\ account' = "PENDING"
    /\ UNCHANGED <<time, epoch, sessions, call, ghosts>>

\* approveUser() accepts any status but ACTIVE, reactivateUser() INACTIVE only;
\* rejectUser() PENDING only.
ReadAccount(c) ==
    /\ At(c, "ready")
    /\ \/ account \in {"PENDING", "INACTIVE"} /\ Do(c, [at |-> "approve"])
       \/ account = "PENDING" /\ Do(c, [at |-> "reject"])
    /\ UNCHANGED <<time, account, epoch, sessions, ghosts>>

Approve(c) ==
    /\ At(c, "approve") /\ Done(c)
    /\ account' = IF account = "ABSENT" THEN "ABSENT" ELSE "ACTIVE"
    /\ UNCHANGED <<time, epoch, sessions, ghosts>>

\* The delete of the user, approved meanwhile or not, takes the sessions along.
Reject(c) ==
    /\ At(c, "reject") /\ Done(c)
    /\ account' = "ABSENT"
    /\ row' = [s \in Session |-> None]
    /\ ended' = [s \in Session |-> IF Live(s) THEN time ELSE ended[s]]
    /\ kept' = kept \cup {s \in Session : Live(s)}
    /\ UNCHANGED <<time, epoch, cache, stray>>

\* Slip: the sessions are left alone.
Slip_KeepSessions(c) ==
    /\ At(c, "ready") /\ account # "ABSENT" /\ epoch < MaxChange
    /\ epoch' = epoch + 1
    /\ account' = "INACTIVE"
    /\ UNCHANGED <<time, sessions, call, ghosts>>

\* deactivateUser() whatever the status, changePassword() of an account in use, or
\* resetPassword() from the console.
ChangeAccount(c) ==
    /\ At(c, "ready") /\ account # "ABSENT" /\ epoch < MaxChange
    /\ epoch' = epoch + 1
    /\ \/ /\ account' \in {"INACTIVE"} \cup (IF account = "ACTIVE" THEN {"ACTIVE"} ELSE {})
          /\ Do(c, [at |-> "list"])
       \/ account' = account /\ Do(c, [at |-> "purge"])
    /\ UNCHANGED <<time, sessions, ghosts>>

\* Redis drops what is over.
Tick ==
    /\ time < MaxTime
    /\ \A c \in Caller : ~At(c, "cache")
    /\ time' = time + 1
    /\ cache' = [s \in Session |-> IF cache[s].till <= time + 1 THEN None ELSE cache[s]]
    /\ UNCHANGED <<account, epoch, row, call, ghosts>>

-----------------------------------------------------------------------------
Step(c) ==
    \/ SignIn(c) \/ FillCache(c) \/ Rotate(c) \/ Throws(c) \/ DropExpired(c)
    \/ DeleteRow(c) \/ ForgetCached(c) \/ ForgetFails(c)
    \/ ListSessions(c) \/ DeleteAll(c) \/ Purge(c)
    \/ ReadAccount(c) \/ Approve(c) \/ Reject(c) \/ ChangeAccount(c)
    \/ \E s \in Session :
         \/ CreateSession(c, s) \/ Validate(c, s) \/ Logout(c, s) \/ Terminate(c, s)
         \/ \E g \in Secret : Refresh(c, s, g)

AuthNext == (\E c \in Caller : Step(c)) \/ Signup \/ Tick

AuthSpec == AuthInit /\ [][AuthNext]_authVars

-----------------------------------------------------------------------------
(***************************************************************************)
(* Properties.                                                             *)
(***************************************************************************)
CallState ==
    {Ready, [at |-> "list"], [at |-> "purge"], [at |-> "approve"], [at |-> "reject"]}
        \cup [at : {"create"}, ttl : {RefreshTtl, RememberTtl}, epoch : 0..MaxChange]
        \cup [at : {"cache"}, s : Session, exp : Instant]
        \cup [at : {"rotate"}, s : Session, g : Secret]
        \cup [at : {"drop", "delete"}, s : Session]
        \cup [at : {"deleteAll", "forget"}, all : SUBSET Session]

\* Every variable keeps to its values.
AuthTypeOK ==
    /\ time \in 1..(MaxTime + 1)
    /\ account \in {"ABSENT", "PENDING", "ACTIVE", "INACTIVE"}
    /\ epoch \in 0..MaxChange
    /\ row \in [Session -> Row \cup {None}]
    /\ cache \in [Session -> Entry \cup {None}]
    /\ call \in [Caller -> CallState]
    /\ ended \in [Session -> Nat]
    /\ kept \subseteq Session
    /\ stray \in BOOLEAN

\* A session whose row was deleted is accepted for one lifetime of the cache at
\* most: no call that read the row before can keep it alive for longer.
EndedSessionsDie ==
    \A s \in Session : (ended[s] # 0 /\ Accepted(s)) => time < ended[s] + CacheTtl

\* It is not accepted at all once the logout is over, unless a call about it was
\* between its row and the cache when the row went, the logout of all sessions had
\* not listed it, Redis failed, or the row went in a way that leaves the cache
\* alone (the console, an expiry, a rejection).
EndedAtOnce ==
    \A s \in Session :
        (ended[s] # 0 /\ s \notin kept
           /\ ~\E c \in Caller : At(c, "forget") /\ s \in call[c].all)
        => ~Accepted(s)

\* A refresh token is single use but for refreshes that overlap: no refresh gets as
\* far as the update with a token that another has redeemed before it began.
TokenRedeemedByOverlap ==
    [][\A c \in Caller :
         (At(c, "rotate")' /\ call'[c] # call[c]) =>
             call'[c].g > row[call'[c].s].used]_authVars

\* A deactivation or a new password leaves no session that was signed in to
\* before it, unless a sign-in was under way while the sessions were ended, or
\* ending them failed when the new password was stored already.
ChangeEndsSessions ==
    (~stray /\ ~\E c \in Caller : call[c].at \in Endings)
        => \A s \in Session : Live(s) => row[s].epoch = epoch
=============================================================================
