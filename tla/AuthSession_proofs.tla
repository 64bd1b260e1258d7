-------------------------- MODULE AuthSession_proofs --------------------------
(***************************************************************************)
(* Theorems about AuthSession, for every set of callers and sessions, any  *)
(* lifetimes and every bound.                                              *)
(***************************************************************************)
EXTENDS AuthSession, TLAPS

(***************************************************************************)
(* The inductive invariant.  A row that was deleted never comes back; a    *)
(* call on its way to the cache keeps the clock from moving, so what it    *)
(* read is as old as the deletion at most; and the hash of a row is that   *)
(* of the youngest token, which nobody has redeemed yet.                   *)
(***************************************************************************)
EndedIsGone(s) ==
    /\ ended[s] <= time
    /\ ended[s] # 0 => ~Live(s)
    /\ \A c \in FillCalls(s) : ended[s] # 0 => ended[s] = time
    /\ cache[s] # None => cache[s].till > time /\ cache[s].till <= time + CacheTtl
    /\ (cache[s] # None /\ ended[s] # 0) => cache[s].till <= ended[s] + CacheTtl

ForgottenUnlessKept(s) ==
    (ended[s] # 0 /\ s \notin kept) =>
        /\ FillCalls(s) = {}
        /\ cache[s] # None => \E c \in Caller : At(c, "forget") /\ s \in call[c].all

TokenRules(s) ==
    /\ Live(s) => row[s].used < row[s].secret
    /\ \A c \in Caller : (At(c, "rotate") /\ call[c].s = s) =>
          /\ Live(s) \/ ended[s] # 0
          /\ Live(s) => call[c].g <= row[s].secret

Ending(c) == call[c].at \in Endings

SignInsCurrent ==
    (~stray /\ ~\E c \in Caller : Ending(c)) =>
        /\ \A s \in Session : Live(s) => row[s].epoch = epoch
        /\ \A c \in Caller : At(c, "create") => call[c].epoch = epoch

-----------------------------------------------------------------------------
(***************************************************************************)
(* Type correctness.                                                       *)
(***************************************************************************)
LEMMA Instants ==
    ASSUME time \in 1..(MaxTime + 1)
    PROVE  /\ time + RefreshTtl \in Instant
           /\ time + RememberTtl \in Instant
           /\ time + CacheTtl \in Nat
BY AuthAssumption DEF Instant

LEMMA Starting ==
    ASSUME AuthTypeOK, NEW c \in Caller, NEW state \in CallState, Do(c, state)
    PROVE  call' \in [Caller -> CallState]
BY DEF AuthTypeOK, Do

LEMMA CallForms ==
    ASSUME AuthTypeOK, NEW c \in Caller
    PROVE  /\ call[c] \in CallState
           /\ At(c, "create") => call[c].ttl \in {RefreshTtl, RememberTtl} /\ call[c].epoch \in 0..MaxChange
           /\ call[c].at \in {"cache", "rotate", "drop", "delete"} => call[c].s \in Session
           /\ At(c, "cache") => call[c].exp \in Instant
           /\ At(c, "rotate") => call[c].g \in Secret
           /\ call[c].at \in {"deleteAll", "forget"} => call[c].all \subseteq Session
BY DEF AuthTypeOK, CallState, At, Ready

LEMMA InitTypeOK == AuthInit => AuthTypeOK
<1> SUFFICES ASSUME AuthInit PROVE AuthTypeOK
  OBVIOUS
<1>1. time \in 1..(MaxTime + 1) /\ epoch \in 0..MaxChange
  BY AuthAssumption DEF AuthInit
<1>2. Ready \in CallState
  BY DEF CallState
<1> QED
  BY <1>1, <1>2 DEF AuthInit, AuthTypeOK

\* The row a rotation leaves.
LEMMA RotatedRow ==
    ASSUME AuthTypeOK, NEW c \in Caller, Rotate(c)
    PROVE  /\ call[c].s \in Session /\ row[call[c].s] \in Row
           /\ row' \in [Session -> Row \cup {None}]
           /\ row'[call[c].s] \in Row
           /\ row'[call[c].s].secret = row[call[c].s].secret + 1
           /\ row'[call[c].s].used = Younger(row[call[c].s].used, call[c].g)
           /\ row'[call[c].s].epoch = row[call[c].s].epoch
           /\ \A s \in Session \ {call[c].s} : row'[s] = row[s]
<1> DEFINE p == call[c].s
           new == [row[p] EXCEPT !.secret = @ + 1, !.till = time + RefreshTtl,
                                 !.used = Younger(@, call[c].g)]
<1>1. p \in Session /\ call[c].g \in Nat
  BY CallForms DEF Rotate, At, Secret
<1>2. time + RefreshTtl \in Instant
  BY Instants DEF AuthTypeOK
<1>3. row[p] \in Row
  BY <1>1 DEF Rotate, Live, AuthTypeOK
<1>4. row[p].secret + 1 \in Nat /\ Younger(row[p].used, call[c].g) \in Nat
  BY <1>1, <1>3 DEF Row, Younger
<1>5. /\ new \in Row /\ new.secret = row[p].secret + 1
      /\ new.used = Younger(row[p].used, call[c].g) /\ new.epoch = row[p].epoch
  BY <1>2, <1>3, <1>4 DEF Row
<1>6. row' = [row EXCEPT ![p] = new]
  BY DEF Rotate
<1> QED
  BY <1>1, <1>3, <1>5, <1>6 DEF AuthTypeOK

LEMMA NextTypeOK == AuthTypeOK /\ [AuthNext]_authVars => AuthTypeOK'
<1> SUFFICES ASSUME AuthTypeOK, [AuthNext]_authVars PROVE AuthTypeOK'
  OBVIOUS
<1> USE DEF sessions, ghosts
<1>0. MaxTime \in Nat /\ MaxSecret \in Nat \ {0} /\ MaxChange \in Nat /\ CacheTtl \in Nat
  BY AuthAssumption
<1>1. ASSUME NEW c \in Caller, SignIn(c) PROVE AuthTypeOK'
  <2>1. PICK ttl \in {RefreshTtl, RememberTtl} : Do(c, [at |-> "create", ttl |-> ttl, epoch |-> epoch])
    BY <1>1 DEF SignIn
  <2>2. [at |-> "create", ttl |-> ttl, epoch |-> epoch] \in CallState
    BY DEF CallState, AuthTypeOK
  <2>3. call' \in [Caller -> CallState]
    BY <2>1, <2>2, Starting
  <2> QED
    BY <1>1, <2>3 DEF SignIn, AuthTypeOK
<1>2. ASSUME NEW c \in Caller, NEW s \in Session, CreateSession(c, s) PROVE AuthTypeOK'
  <2> DEFINE till == time + call[c].ttl
  <2>1. call[c].ttl \in {RefreshTtl, RememberTtl} /\ call[c].epoch \in 0..MaxChange
    BY <1>2, CallForms DEF CreateSession
  <2>2. till \in Instant
    BY <2>1, Instants DEF AuthTypeOK
  <2>3. [at |-> "cache", s |-> s, exp |-> till] \in CallState
    BY <2>2 DEF CallState
  <2>4. call' \in [Caller -> CallState]
    BY <1>2, <2>3, Starting DEF CreateSession
  <2>5. [till |-> till, secret |-> 1, epoch |-> call[c].epoch, used |-> 0] \in Row
    BY <2>1, <2>2 DEF Row
  <2>6. row' \in [Session -> Row \cup {None}]
    BY <1>2, <2>5 DEF CreateSession, AuthTypeOK
  <2> QED
    BY <1>2, <2>4, <2>6 DEF CreateSession, AuthTypeOK
<1>3. ASSUME NEW c \in Caller, FillCache(c) PROVE AuthTypeOK'
  <2>1. call' \in [Caller -> CallState]
    <3>1. Ready \in CallState
      BY DEF CallState
    <3> QED
      BY <1>3, <3>1, Starting DEF FillCache, Done
  <2>2. cache' \in [Session -> Entry \cup {None}]
    <3>1. [till |-> time + CacheTtl, exp |-> call[c].exp] \in Entry
      BY <1>3, CallForms, Instants DEF FillCache, Entry, AuthTypeOK
    <3> QED
      BY <1>3, <3>1 DEF FillCache, AuthTypeOK
  <2> QED
    BY <1>3, <2>1, <2>2 DEF FillCache, AuthTypeOK
<1>4. ASSUME NEW c \in Caller, NEW s \in Session, NEW g \in Secret, Refresh(c, s, g) PROVE AuthTypeOK'
  <2>1. [at |-> "drop", s |-> s] \in CallState /\ [at |-> "rotate", s |-> s, g |-> g] \in CallState
    BY DEF CallState
  <2>2. call' \in [Caller -> CallState]
    BY <1>4, <2>1, Starting DEF Refresh
  <2> QED
    BY <1>4, <2>2 DEF Refresh, AuthTypeOK
<1>5. ASSUME NEW c \in Caller, Rotate(c) PROVE AuthTypeOK'
  <2>1. call[c].s \in Session /\ call[c].g \in Secret
    BY <1>5, CallForms DEF Rotate, At
  <2>2. time + RefreshTtl \in Instant
    BY Instants DEF AuthTypeOK
  <2>3. [at |-> "cache", s |-> call[c].s, exp |-> time + RefreshTtl] \in CallState
    BY <2>1, <2>2 DEF CallState
  <2>4. call' \in [Caller -> CallState]
    BY <1>5, <2>3, Starting DEF Rotate
  <2>5. row[call[c].s] \in Row
    BY <1>5, <2>1 DEF Rotate, Live, AuthTypeOK
  <2>6. row' \in [Session -> Row \cup {None}]
    BY <1>5, <2>1, <2>2, <2>5, RotatedRow DEF Rotate, AuthTypeOK
  <2> QED
    BY <1>5, <2>4, <2>6 DEF Rotate, AuthTypeOK
<1>6. ASSUME NEW c \in Caller,
             \/ Throws(c) \/ DropExpired(c) \/ ForgetFails(c)
             \/ Purge(c) \/ Approve(c) \/ Reject(c)
      PROVE  AuthTypeOK'
  <2>1. Ready \in CallState
    BY DEF CallState
  <2>2. call' \in [Caller -> CallState]
    BY <1>6, <2>1, Starting DEF Throws, DropExpired, ForgetFails, Purge, Approve, Reject, Done
  <2>3. DropExpired(c) => call[c].s \in Session
    BY CallForms DEF DropExpired, At
  <2>4. ForgetFails(c) => call[c].all \subseteq Session
    BY CallForms DEF ForgetFails, At
  <2>5. stray' \in BOOLEAN
    BY <1>6 DEF Throws, DropExpired, ForgetFails, Purge, Approve, Reject, AuthTypeOK
  <2>6. UNCHANGED <<time, epoch, cache>> /\ account' \in {account, "ABSENT", "ACTIVE"}
    BY <1>6 DEF Throws, DropExpired, ForgetFails, Purge, Approve, Reject
  <2>7. row' \in [Session -> Row \cup {None}] /\ ended' \in [Session -> Nat] /\ kept' \subseteq Session
    <3>1. CASE Throws(c) \/ Approve(c)
      BY <3>1 DEF Throws, Approve, AuthTypeOK
    <3>2. CASE DropExpired(c) \/ ForgetFails(c)
      BY <2>3, <2>4, <3>2 DEF DropExpired, ForgetFails, AuthTypeOK
    <3>3. CASE Purge(c) \/ Reject(c)
      <4>1. row' = [s \in Session |-> None]
        BY <3>3 DEF Purge, Reject
      <4>2. ended' = [s \in Session |-> IF Live(s) THEN time ELSE ended[s]]
        BY <3>3 DEF Purge, Reject
      <4>3. kept' = kept \cup {s \in Session : Live(s)}
        BY <3>3 DEF Purge, Reject
      <4> QED
        BY <4>1, <4>2, <4>3 DEF AuthTypeOK
    <3> QED
      BY <1>6, <3>1, <3>2, <3>3
  <2> QED
    BY <2>2, <2>5, <2>6, <2>7 DEF AuthTypeOK
<1>7. ASSUME NEW c \in Caller, NEW s \in Session, Validate(c, s) \/ Logout(c, s) PROVE AuthTypeOK'
  <2>1. [at |-> "drop", s |-> s] \in CallState /\ [at |-> "delete", s |-> s] \in CallState
    BY DEF CallState
  <2>2. Live(s) => [at |-> "cache", s |-> s, exp |-> row[s].till] \in CallState
    BY DEF CallState, AuthTypeOK, Live, Row
  <2>3. call' \in [Caller -> CallState]
    BY <1>7, <2>1, <2>2, Starting DEF Validate, Logout
  <2> QED
    BY <1>7, <2>3 DEF Validate, Logout, AuthTypeOK
<1>8. ASSUME NEW c \in Caller, DeleteRow(c) PROVE AuthTypeOK'
  <2>1. call[c].s \in Session
    BY <1>8, CallForms DEF DeleteRow, At
  <2>2. [at |-> "forget", all |-> {call[c].s}] \in CallState
    BY <2>1 DEF CallState
  <2>3. call' \in [Caller -> CallState]
    BY <1>8, <2>2, Starting DEF DeleteRow
  <2> QED
    BY <1>8, <2>1, <2>3 DEF DeleteRow, AuthTypeOK
<1>9. ASSUME NEW c \in Caller, ForgetCached(c) PROVE AuthTypeOK'
  <2>1. call[c].all \subseteq Session
    BY <1>9, CallForms DEF ForgetCached, At
  <2>2. PICK s \in call[c].all :
           /\ cache' = [cache EXCEPT ![s] = None]
           /\ IF call[c].all = {s} THEN Done(c) ELSE Do(c, [at |-> "forget", all |-> call[c].all \ {s}])
    BY <1>9 DEF ForgetCached
  <2>3. Ready \in CallState /\ [at |-> "forget", all |-> call[c].all \ {s}] \in CallState
    BY <2>1 DEF CallState
  <2>4. call' \in [Caller -> CallState]
    BY <2>2, <2>3, Starting DEF Done
  <2> QED
    BY <1>9, <2>1, <2>2, <2>4 DEF ForgetCached, AuthTypeOK
<1>10. ASSUME NEW c \in Caller, ListSessions(c) \/ ReadAccount(c) \/ ChangeAccount(c) PROVE AuthTypeOK'
  <2>1. /\ [at |-> "deleteAll", all |-> {s \in Session : Live(s)}] \in CallState
        /\ [at |-> "list"] \in CallState /\ [at |-> "purge"] \in CallState
        /\ [at |-> "approve"] \in CallState
        /\ [at |-> "reject"] \in CallState
    BY DEF CallState
  <2>2. call' \in [Caller -> CallState]
    BY <1>10, <2>1, Starting DEF ListSessions, ReadAccount, ChangeAccount
  <2> QED
    BY <1>0, <1>10, <2>2 DEF ListSessions, ReadAccount, ChangeAccount, AuthTypeOK
<1>11. ASSUME NEW c \in Caller, DeleteAll(c) PROVE AuthTypeOK'
  <2>1. call[c].all \subseteq Session
    BY <1>11, CallForms DEF DeleteAll, At
  <2>2. Ready \in CallState /\ [at |-> "forget", all |-> call[c].all] \in CallState
    BY <2>1 DEF CallState
  <2>3. call' \in [Caller -> CallState]
    BY <1>11, <2>2, Starting DEF DeleteAll, Done
  <2> QED
    BY <1>11, <2>3 DEF DeleteAll, AuthTypeOK
<1>12. CASE Signup
  BY <1>12 DEF Signup, AuthTypeOK
<1>13. CASE Tick
  BY <1>0, <1>13 DEF Tick, AuthTypeOK
<1>15. ASSUME NEW c \in Caller, NEW s \in Session, Terminate(c, s) PROVE AuthTypeOK'
  BY <1>15 DEF Terminate, AuthTypeOK
<1>14. CASE UNCHANGED authVars
  BY <1>14 DEF authVars, AuthTypeOK
<1> QED
  BY <1>1, <1>2, <1>3, <1>4, <1>5, <1>6, <1>7, <1>8, <1>9, <1>10, <1>11, <1>12, <1>13, <1>14, <1>15
     DEF AuthNext, Step

\* Every variable keeps to the values the code can give it.
THEOREM TypeCorrect == AuthSpec => []AuthTypeOK
BY InitTypeOK, NextTypeOK, PTL DEF AuthSpec

-----------------------------------------------------------------------------
(***************************************************************************)
(* What the step of one call leaves as it is.                              *)
(***************************************************************************)
LEMMA OtherCalls ==
    ASSUME AuthTypeOK, NEW c \in Caller, NEW state, Do(c, state)
    PROVE  /\ call'[c] = state
           /\ \A d \in Caller \ {c} : call'[d] = call[d]
BY DEF AuthTypeOK, Do

(***************************************************************************)
(* Deleted rows, the clock and the cache.                                  *)
(***************************************************************************)
LEMMA NextEnded ==
    ASSUME AuthTypeOK, [AuthNext]_authVars, NEW s \in Session, EndedIsGone(s)
    PROVE  EndedIsGone(s)'
<1> USE DEF sessions, ghosts, EndedIsGone, FillCalls, At, Live
<1>0. /\ time \in Nat /\ time # 0 /\ CacheTtl \in Nat \ {0} /\ ended[s] \in Nat
      /\ cache[s] # None => cache[s].till \in Nat
  BY AuthAssumption DEF AuthTypeOK, Entry
<1>1. ASSUME NEW c \in Caller, NEW state, Do(c, state),
             UNCHANGED <<time, row, cache, ended>>,
             state.at = "cache" /\ state.s = s => ended[s] = 0
      PROVE  EndedIsGone(s)'
  BY <1>1, OtherCalls
<1>2. ASSUME NEW c \in Caller,
             \/ SignIn(c) \/ Throws(c) \/ ForgetFails(c)
             \/ ListSessions(c) \/ ReadAccount(c) \/ Approve(c) \/ ChangeAccount(c)
      PROVE  EndedIsGone(s)'
  BY <1>1, <1>2 DEF SignIn, Throws, ForgetFails, ListSessions, ReadAccount, Approve, ChangeAccount,
                    Done, Ready
<1>3. ASSUME NEW c \in Caller, NEW p \in Session, Validate(c, p) \/ Logout(c, p)
      PROVE  EndedIsGone(s)'
  BY <1>1, <1>3 DEF Validate, Logout
<1>4. ASSUME NEW c \in Caller, NEW p \in Session, NEW g \in Secret, Refresh(c, p, g)
      PROVE  EndedIsGone(s)'
  BY <1>1, <1>4 DEF Refresh
<1>5. ASSUME NEW c \in Caller, NEW p \in Session, CreateSession(c, p) PROVE EndedIsGone(s)'
  BY <1>0, <1>5, OtherCalls DEF CreateSession, AuthTypeOK
<1>6. ASSUME NEW c \in Caller, FillCache(c) PROVE EndedIsGone(s)'
  <2>1. call[c].s \in Session
    BY <1>6, CallForms DEF FillCache
  <2>2. \A d \in Caller : At(d, "cache")' => call'[d] = call[d] /\ At(d, "cache")
    BY <1>6, OtherCalls DEF FillCache, Done, Ready
  <2>3. CASE cache'[s] = cache[s]
    BY <1>6, <2>2, <2>3 DEF FillCache
  <2>4. CASE s = call[c].s /\ cache'[s] = [till |-> time + CacheTtl, exp |-> call[c].exp]
    <3>1. ended[s] # 0 => ended[s] = time
      BY <1>6, <2>4 DEF FillCache
    <3>2. cache'[s].till = time + CacheTtl
      BY <2>4
    <3> QED
      BY <1>0, <1>6, <2>2, <3>1, <3>2 DEF FillCache
  <2> QED
    BY <1>6, <2>1, <2>3, <2>4 DEF FillCache, AuthTypeOK
<1>7. ASSUME NEW c \in Caller, Rotate(c) PROVE EndedIsGone(s)'
  <2>1. call[c].s \in Session
    BY <1>7, CallForms DEF Rotate
  <2>2. ended[s] # 0 => row'[s] = row[s] /\ s # call[c].s
    BY <1>7, <2>1 DEF Rotate, AuthTypeOK
  <2>3. \A d \in Caller : (At(d, "cache") /\ call[d].s = s)' => (call'[d] = call[d] \/ s = call[c].s)
    BY <1>7, OtherCalls DEF Rotate
  <2> QED
    BY <1>7, <2>2, <2>3 DEF Rotate
<1>8. ASSUME \A d \in Caller : At(d, "cache")' => call'[d] = call[d],
             UNCHANGED <<time, cache>>,
             \/ ended'[s] = ended[s] /\ (row'[s] = row[s] \/ row'[s] = None)
             \/ Live(s) /\ ended'[s] = time /\ row'[s] = None
      PROVE  EndedIsGone(s)'
  BY <1>0, <1>8
<1>9. ASSUME NEW c \in Caller,
             DropExpired(c) \/ DeleteRow(c) \/ Reject(c) \/ DeleteAll(c) \/ Purge(c)
      PROVE  EndedIsGone(s)'
  <2>1. call[c].at \in {"drop", "delete"} => call[c].s \in Session
    BY CallForms
  <2>2. \A d \in Caller : At(d, "cache")' => call'[d] = call[d]
    <3>1. CASE Done(c)
      BY <3>1, OtherCalls DEF Done, Ready
    <3>2. CASE \E a : Do(c, [at |-> "forget", all |-> a])
      BY <3>2, OtherCalls
    <3> QED
      BY <1>9, <3>1, <3>2 DEF DropExpired, DeleteRow, Reject, DeleteAll, Purge
  <2> QED
    BY <1>8, <1>9, <2>1, <2>2 DEF DropExpired, DeleteRow, Reject, DeleteAll, Purge, AuthTypeOK
<1>13. ASSUME NEW c \in Caller, NEW p \in Session, Terminate(c, p) PROVE EndedIsGone(s)'
  BY <1>8, <1>13 DEF Terminate, AuthTypeOK
<1>10. ASSUME NEW c \in Caller, ForgetCached(c) PROVE EndedIsGone(s)'
  <2>1. call[c].all \subseteq Session
    BY <1>10, CallForms DEF ForgetCached
  <2>2. PICK p \in call[c].all :
           /\ cache' = [cache EXCEPT ![p] = None]
           /\ IF call[c].all = {p} THEN Done(c) ELSE Do(c, [at |-> "forget", all |-> call[c].all \ {p}])
    BY <1>10 DEF ForgetCached
  <2>3. \A d \in Caller : At(d, "cache")' => call'[d] = call[d]
    BY <2>2, OtherCalls DEF Done, Ready
  <2>4. cache'[s] \in {None, cache[s]}
    BY <2>1, <2>2 DEF AuthTypeOK
  <2> QED
    BY <1>10, <2>3, <2>4 DEF ForgetCached
<1>11. CASE Signup \/ UNCHANGED authVars
  BY <1>11 DEF Signup, authVars
<1>12. CASE Tick
  BY <1>0, <1>12 DEF Tick, None
<1> QED
  BY <1>2, <1>3, <1>4, <1>5, <1>6, <1>7, <1>9, <1>10, <1>11, <1>12, <1>13 DEF AuthNext, Step

(***************************************************************************)
(* Logouts nothing overlaps.                                               *)
(***************************************************************************)
LEMMA NextForgotten ==
    ASSUME AuthTypeOK, [AuthNext]_authVars, NEW s \in Session, EndedIsGone(s),
           ForgottenUnlessKept(s)
    PROVE  ForgottenUnlessKept(s)'
<1> USE DEF sessions, ghosts, FillCalls, At, Live
<1>0. ended[s] # 0 => row[s] = None
  BY DEF EndedIsGone
<1>1. ASSUME NEW c \in Caller, NEW state, Do(c, state), call[c].at # "forget",
             UNCHANGED <<cache, ended, kept>>,
             state.at = "cache" /\ state.s = s => ended[s] = 0
      PROVE  ForgottenUnlessKept(s)'
  BY <1>1, OtherCalls DEF ForgottenUnlessKept
<1>2. ASSUME NEW c \in Caller,
             \/ SignIn(c) \/ Throws(c)
             \/ ListSessions(c) \/ ReadAccount(c) \/ Approve(c) \/ ChangeAccount(c)
      PROVE  ForgottenUnlessKept(s)'
  BY <1>1, <1>2 DEF SignIn, Throws, Endings, ListSessions, ReadAccount, Approve, ChangeAccount,
                    Done, Ready
<1>3. ASSUME NEW c \in Caller, NEW p \in Session, Validate(c, p) \/ Logout(c, p) \/ CreateSession(c, p)
      PROVE  ForgottenUnlessKept(s)'
  BY <1>0, <1>1, <1>3 DEF Validate, Logout, CreateSession
<1>4. ASSUME NEW c \in Caller, NEW p \in Session, NEW g \in Secret, Refresh(c, p, g)
      PROVE  ForgottenUnlessKept(s)'
  BY <1>1, <1>4 DEF Refresh
<1>5. ASSUME NEW c \in Caller, Rotate(c) PROVE ForgottenUnlessKept(s)'
  BY <1>0, <1>1, <1>5 DEF Rotate
<1>6. ASSUME NEW c \in Caller, FillCache(c) PROVE ForgottenUnlessKept(s)'
  <2>1. call[c].s \in Session
    BY <1>6, CallForms DEF FillCache
  <2>2. call'[c] = Ready /\ \A d \in Caller \ {c} : call'[d] = call[d]
    BY <1>6, OtherCalls DEF FillCache, Done
  <2>3. s # call[c].s => cache'[s] = cache[s]
    BY <1>6, <2>1 DEF FillCache, AuthTypeOK
  <2> QED
    BY <1>6, <2>2, <2>3 DEF FillCache, Ready, ForgottenUnlessKept
<1>a. ASSUME NEW c \in Caller, \A d \in Caller \ {c} : call'[d] = call[d],
             call[c].at # "forget", call'[c].at # "cache",
             (ended'[s] # 0 /\ s \notin kept') => (ended[s] # 0 /\ s \notin kept),
             UNCHANGED cache
      PROVE  ForgottenUnlessKept(s)'
  BY <1>a DEF ForgottenUnlessKept
<1>7. ASSUME NEW c \in Caller, DropExpired(c) PROVE ForgottenUnlessKept(s)'
  <2>1. call[c].s \in Session
    BY <1>7, CallForms DEF DropExpired
  <2>2. call'[c] = Ready /\ \A d \in Caller \ {c} : call'[d] = call[d]
    BY <1>7, OtherCalls DEF DropExpired, Done
  <2> QED
    BY <1>7, <1>a, <2>1, <2>2 DEF DropExpired, Ready, AuthTypeOK
<1>8. ASSUME NEW c \in Caller, Reject(c) \/ Purge(c) PROVE ForgottenUnlessKept(s)'
  <2>1. call'[c] = Ready /\ \A d \in Caller \ {c} : call'[d] = call[d]
    BY <1>8, OtherCalls DEF Reject, Purge, Done
  <2>2. ended'[s] = IF Live(s) THEN time ELSE ended[s]
    BY <1>8 DEF Reject, Purge
  <2>3. kept' = kept \cup {q \in Session : Live(q)} /\ cache' = cache /\ call[c].at # "forget"
    BY <1>8 DEF Reject, Purge
  <2> QED
    BY <1>a, <2>1, <2>2, <2>3 DEF Ready
<1>14. ASSUME NEW c \in Caller, NEW p \in Session, Terminate(c, p) PROVE ForgottenUnlessKept(s)'
  BY <1>14 DEF Terminate, ForgottenUnlessKept, AuthTypeOK
<1>15. ASSUME NEW c \in Caller, ForgetFails(c) PROVE ForgottenUnlessKept(s)'
  <2>1. call'[c] = Ready /\ \A d \in Caller \ {c} : call'[d] = call[d]
    BY <1>15, OtherCalls DEF ForgetFails, Done
  <2> QED
    BY <1>15, <2>1 DEF ForgetFails, Ready, ForgottenUnlessKept
<1>9. ASSUME NEW c \in Caller, DeleteRow(c) PROVE ForgottenUnlessKept(s)'
  <2>1. call[c].s \in Session
    BY <1>9, CallForms DEF DeleteRow
  <2>2. /\ call'[c] = [at |-> "forget", all |-> {call[c].s}]
        /\ \A d \in Caller \ {c} : call'[d] = call[d]
    BY <1>9, OtherCalls DEF DeleteRow
  <2>3. CASE s = call[c].s
    <3>1. FillCalls(s) # {} => s \in kept'
      BY <1>9, <2>3 DEF DeleteRow
    <3>2. At(c, "forget")' /\ s \in call'[c].all
      BY <2>2, <2>3
    <3>3. FillCalls(s) = {} => FillCalls(s)' = {}
      BY <2>2
    <3> QED
      BY <3>1, <3>2, <3>3 DEF ForgottenUnlessKept
  <2>4. CASE s # call[c].s
    BY <1>9, <1>a, <2>1, <2>2, <2>4 DEF DeleteRow, AuthTypeOK
  <2> QED
    BY <2>3, <2>4
<1>10. ASSUME NEW c \in Caller, DeleteAll(c) PROVE ForgottenUnlessKept(s)'
  <2>1. \A d \in Caller \ {c} : call'[d] = call[d]
    BY <1>10, OtherCalls DEF DeleteAll, Done
  <2>2. call'[c] = IF call[c].all = {} THEN Ready ELSE [at |-> "forget", all |-> call[c].all]
    BY <1>10, OtherCalls DEF DeleteAll, Done
  <2>3. call'[c].at # "cache"
    BY <2>2 DEF Ready
  <2>4. CASE Live(s)
    <3>1. s \notin kept' => s \in call[c].all /\ FillCalls(s) = {}
      BY <1>10, <2>4 DEF DeleteAll
    <3>2. s \in call[c].all => At(c, "forget")' /\ s \in call'[c].all
      BY <2>2
    <3>3. FillCalls(s) = {} => FillCalls(s)' = {}
      BY <2>1, <2>3
    <3> QED
      BY <3>1, <3>2, <3>3 DEF ForgottenUnlessKept
  <2>5. CASE ~Live(s)
    BY <1>10, <1>a, <2>1, <2>3, <2>5 DEF DeleteAll, AuthTypeOK
  <2> QED
    BY <2>4, <2>5
<1>11. ASSUME NEW c \in Caller, ForgetCached(c) PROVE ForgottenUnlessKept(s)'
  <2>1. call[c].all \subseteq Session
    BY <1>11, CallForms DEF ForgetCached
  <2>2. PICK p \in call[c].all :
           /\ cache' = [cache EXCEPT ![p] = None]
           /\ IF call[c].all = {p} THEN Done(c) ELSE Do(c, [at |-> "forget", all |-> call[c].all \ {p}])
    BY <1>11 DEF ForgetCached
  <2>3. \A d \in Caller \ {c} : call'[d] = call[d]
    BY <2>2, OtherCalls DEF Done
  <2>4. call'[c] = IF call[c].all = {p} THEN Ready ELSE [at |-> "forget", all |-> call[c].all \ {p}]
    BY <2>2, OtherCalls DEF Done
  <2>5. call'[c].at # "cache"
    BY <2>4 DEF Ready
  <2>6. CASE s = p
    BY <1>11, <2>1, <2>2, <2>3, <2>5, <2>6 DEF ForgetCached, ForgottenUnlessKept, AuthTypeOK
  <2>7. CASE s # p
    <3>1. cache'[s] = cache[s]
      BY <2>1, <2>2, <2>7 DEF AuthTypeOK
    <3>2. s \in call[c].all => At(c, "forget")' /\ s \in call'[c].all
      BY <2>2, <2>4, <2>7
    <3> QED
      BY <1>11, <2>3, <2>5, <3>1, <3>2 DEF ForgetCached, ForgottenUnlessKept
  <2> QED
    BY <2>6, <2>7
<1>12. CASE Signup \/ UNCHANGED authVars
  BY <1>12 DEF Signup, authVars, ForgottenUnlessKept
<1>13. CASE Tick
  BY <1>13 DEF Tick, ForgottenUnlessKept
<1> QED
  BY <1>2, <1>3, <1>4, <1>5, <1>6, <1>7, <1>8, <1>9, <1>10, <1>11, <1>12, <1>13, <1>14, <1>15
     DEF AuthNext, Step

(***************************************************************************)
(* Refresh tokens.                                                         *)
(***************************************************************************)
\* Only a refresh comes to hold a token it has compared with the row.
OldRotations == \A d \in Caller : At(d, "rotate")' => call'[d] = call[d]

LEMMA OnlyRefreshRotates ==
    ASSUME AuthTypeOK, [AuthNext]_authVars
    PROVE  \/ OldRotations
           \/ \E c \in Caller, s \in Session, g \in Secret : Refresh(c, s, g)
<1> USE DEF sessions, ghosts, At, OldRotations
<1>1. ASSUME NEW c \in Caller, NEW state, Do(c, state), state.at # "rotate"
      PROVE  OldRotations
  BY <1>1, OtherCalls
<1>2. ASSUME NEW c \in Caller, Done(c) PROVE OldRotations
  BY <1>1, <1>2 DEF Done, Ready
<1>3. ASSUME NEW c \in Caller,
             \/ SignIn(c) \/ Rotate(c) \/ DeleteRow(c) \/ ListSessions(c)
             \/ ReadAccount(c) \/ ChangeAccount(c)
      PROVE  OldRotations
  BY <1>1, <1>3 DEF SignIn, Rotate, DeleteRow, ListSessions, ReadAccount, ChangeAccount
<1>4. ASSUME NEW c \in Caller,
             \/ FillCache(c) \/ Throws(c) \/ DropExpired(c) \/ ForgetFails(c)
             \/ Purge(c) \/ Approve(c) \/ Reject(c)
      PROVE  OldRotations
  BY <1>2, <1>4 DEF FillCache, Throws, DropExpired, ForgetFails, Purge, Approve, Reject
<1>5. ASSUME NEW c \in Caller, ForgetCached(c) \/ DeleteAll(c) PROVE OldRotations
  <2>1. Done(c) \/ \E a : Do(c, [at |-> "forget", all |-> a])
    BY <1>5 DEF ForgetCached, DeleteAll
  <2> QED
    BY <1>1, <1>2, <2>1
<1>6. ASSUME NEW c \in Caller, NEW s \in Session,
             CreateSession(c, s) \/ Validate(c, s) \/ Logout(c, s)
      PROVE  OldRotations
  BY <1>1, <1>6 DEF CreateSession, Validate, Logout
<1>7. ASSUME NEW c \in Caller, NEW s \in Session, Terminate(c, s) PROVE OldRotations
  BY <1>7 DEF Terminate
<1>8. CASE Signup \/ Tick \/ UNCHANGED authVars
  BY <1>8 DEF Signup, Tick, authVars
<1> QED
  BY <1>3, <1>4, <1>5, <1>6, <1>7, <1>8 DEF AuthNext, Step

LEMMA NextTokens ==
    ASSUME AuthTypeOK, [AuthNext]_authVars, NEW s \in Session, EndedIsGone(s), TokenRules(s)
    PROVE  TokenRules(s)'
<1> USE DEF sessions, ghosts, At, Live
<1>0. /\ ended[s] # 0 => row[s] = None
      /\ ended[s] \in Nat /\ time \in Nat \ {0}
  BY DEF EndedIsGone, AuthTypeOK
<1>1. ASSUME OldRotations,
             \/ row'[s] = row[s] /\ ended'[s] = ended[s]
             \/ row'[s] = None /\ ended'[s] # 0
      PROVE  TokenRules(s)'
  BY <1>1 DEF OldRotations, TokenRules
<1>2. ASSUME NEW c \in Caller, NEW p \in Session, NEW h \in Secret, Refresh(c, p, h)
      PROVE  TokenRules(s)'
  <2>1. UNCHANGED <<row, ended>>
    BY <1>2 DEF Refresh
  <2>2. CASE Do(c, [at |-> "drop", s |-> p])
    BY <2>1, <2>2, OtherCalls DEF TokenRules
  <2>3. CASE Do(c, [at |-> "rotate", s |-> p, g |-> h]) /\ h = row[p].secret
    <3>1. Live(p) /\ h <= row[p].secret
      BY <1>2 DEF Refresh
    <3> QED
      BY <2>1, <2>3, <3>1, OtherCalls DEF TokenRules
  <2> QED
    BY <1>2, <2>2, <2>3 DEF Refresh
<1>3. ASSUME OldRotations,
             NEW c \in Caller,
             \/ SignIn(c) \/ FillCache(c) \/ Throws(c) \/ ForgetCached(c) \/ ForgetFails(c)
             \/ ListSessions(c) \/ ReadAccount(c) \/ Approve(c) \/ ChangeAccount(c)
      PROVE  TokenRules(s)'
  BY <1>1, <1>3 DEF SignIn, FillCache, Throws, ForgetCached, ForgetFails, ListSessions, ReadAccount,
                    Approve, ChangeAccount
<1>4. ASSUME OldRotations, NEW c \in Caller, DropExpired(c) \/ DeleteRow(c) PROVE TokenRules(s)'
  <2>1. call[c].s \in Session
    BY <1>4, CallForms DEF DropExpired, DeleteRow
  <2>2. /\ row' = [row EXCEPT ![call[c].s] = None]
        /\ ended' = [ended EXCEPT ![call[c].s] = time]
    BY <1>4 DEF DropExpired, DeleteRow
  <2> QED
    BY <1>0, <1>1, <1>4, <2>1, <2>2 DEF AuthTypeOK
<1>5. ASSUME OldRotations, NEW c \in Caller, Reject(c) \/ DeleteAll(c) \/ Purge(c)
      PROVE  TokenRules(s)'
  <2>1. row'[s] = None
    BY <1>5 DEF Reject, DeleteAll, Purge
  <2>2. ended'[s] = IF Live(s) THEN time ELSE ended[s]
    BY <1>5 DEF Reject, DeleteAll, Purge
  <2> QED
    BY <1>0, <1>1, <1>5, <2>1, <2>2
<1>6. ASSUME OldRotations, NEW c \in Caller, NEW p \in Session,
             Validate(c, p) \/ Logout(c, p) \/ Terminate(c, p)
      PROVE  TokenRules(s)'
  BY <1>0, <1>1, <1>6 DEF Validate, Logout, Terminate, AuthTypeOK
<1>7. ASSUME OldRotations, NEW c \in Caller, NEW p \in Session, CreateSession(c, p)
      PROVE  TokenRules(s)'
  <2>1. CASE p # s
    BY <1>1, <1>7, <2>1 DEF CreateSession, AuthTypeOK
  <2>2. CASE p = s
    <3>1. \A d \in Caller : ~(At(d, "rotate")' /\ call'[d].s = s)
      BY <1>7, <2>2 DEF CreateSession, TokenRules, OldRotations
    <3>2. row'[s].used = 0 /\ row'[s].secret = 1
      BY <1>7, <2>2 DEF CreateSession, AuthTypeOK
    <3> QED
      BY <3>1, <3>2 DEF TokenRules
  <2> QED
    BY <2>1, <2>2
<1>8. ASSUME OldRotations, NEW c \in Caller, Rotate(c) PROVE TokenRules(s)'
  <2>1. CASE call[c].s # s
    BY <1>1, <1>8, <2>1, RotatedRow DEF Rotate
  <2>2. CASE call[c].s = s
    <3>1. /\ row[s] \in Row /\ row'[s] \in Row
          /\ row'[s].secret = row[s].secret + 1
          /\ row'[s].used = Younger(row[s].used, call[c].g)
      BY <1>8, <2>2, RotatedRow
    <3>2. row[s].used < row[s].secret /\ call[c].g <= row[s].secret /\ call[c].g \in Nat
      BY <1>8, <2>2, CallForms DEF Rotate, TokenRules, Secret
    <3>3. row[s].used \in Nat /\ row[s].secret \in Nat
      BY <3>1 DEF Row
    <3>4. row'[s].used < row'[s].secret
      BY <3>1, <3>2, <3>3 DEF Younger
    <3>5. \A d \in Caller : (At(d, "rotate")' /\ call'[d].s = s) =>
             /\ call'[d].g <= row[s].secret /\ call'[d].g \in Nat
      BY <1>8, <2>2, CallForms DEF OldRotations, Rotate, TokenRules, Secret
    <3>6. row'[s] # None
      <4>1. row[s] # None /\ row'[s] = [row[s] EXCEPT !.secret = @ + 1, !.till = time + RefreshTtl,
                                                       !.used = Younger(@, call[c].g)]
        BY <1>8, <2>2, RotatedRow DEF Rotate, AuthTypeOK
      <4> QED
        BY <3>1 DEF Row, None
    <3> QED
      BY <3>1, <3>3, <3>4, <3>5, <3>6 DEF TokenRules
  <2> QED
    BY <2>1, <2>2
<1>9. CASE Signup \/ Tick \/ UNCHANGED authVars
  BY <1>1, <1>9 DEF Signup, Tick, authVars, OldRotations
<1> QED
  BY <1>2, <1>3, <1>4, <1>5, <1>6, <1>7, <1>8, <1>9, OnlyRefreshRotates DEF AuthNext, Step

(***************************************************************************)
(* Sign-ins and the end of all sessions.                                   *)
(***************************************************************************)
LEMMA NextSignIns == AuthTypeOK /\ SignInsCurrent /\ [AuthNext]_authVars => SignInsCurrent'
<1> SUFFICES ASSUME AuthTypeOK, SignInsCurrent, [AuthNext]_authVars PROVE SignInsCurrent'
  OBVIOUS
<1> USE DEF sessions, ghosts, At, Live
<1>1. ASSUME NEW c \in Caller, NEW state, Do(c, state), ~Ending(c),
             UNCHANGED <<epoch, stray>>,
             state.at = "create" => state.epoch = epoch,
             \A s \in Session : Live(s)' => (Live(s) /\ row'[s].epoch = row[s].epoch)
      PROVE  SignInsCurrent'
  BY <1>1, OtherCalls DEF SignInsCurrent, Ending
<1>2. ASSUME NEW c \in Caller,
             SignIn(c) \/ FillCache(c) \/ ForgetFails(c) \/ ReadAccount(c) \/ Approve(c)
      PROVE  SignInsCurrent'
  BY <1>1, <1>2 DEF SignIn, FillCache, ForgetFails, ReadAccount, Approve, Done, Ready, Ending, Endings
<1>3. ASSUME NEW c \in Caller, NEW p \in Session, Validate(c, p) \/ Logout(c, p)
      PROVE  SignInsCurrent'
  BY <1>1, <1>3 DEF Validate, Logout, Ending, Endings
<1>4. ASSUME NEW c \in Caller, NEW p \in Session, NEW g \in Secret, Refresh(c, p, g)
      PROVE  SignInsCurrent'
  BY <1>1, <1>4 DEF Refresh, Ending, Endings
<1>5. ASSUME NEW c \in Caller, DropExpired(c) \/ DeleteRow(c) \/ Reject(c)
      PROVE  SignInsCurrent'
  <2>1. call[c].at \in {"drop", "delete"} => call[c].s \in Session
    BY CallForms
  <2>2. \A s \in Session : Live(s)' => row'[s] = row[s]
    BY <1>5, <2>1 DEF DropExpired, DeleteRow, Reject, AuthTypeOK
  <2> QED
    BY <1>1, <1>5, <2>2 DEF DropExpired, DeleteRow, Reject, Done, Ready, Ending, Endings
<1>6. ASSUME NEW c \in Caller, ForgetCached(c) PROVE SignInsCurrent'
  <2>1. \E state : Do(c, state) /\ state.at # "create"
    BY <1>6 DEF ForgetCached, Done, Ready
  <2> QED
    BY <1>1, <1>6, <2>1 DEF ForgetCached, Ending, Endings
<1>7. ASSUME NEW c \in Caller, NEW p \in Session, CreateSession(c, p) PROVE SignInsCurrent'
  <2>1. /\ row'[p].epoch = call[c].epoch
        /\ \A s \in Session \ {p} : row'[s] = row[s]
    BY <1>7 DEF CreateSession, AuthTypeOK
  <2>2. call'[c].at = "cache" /\ \A d \in Caller \ {c} : call'[d] = call[d]
    BY <1>7, OtherCalls DEF CreateSession
  <2> QED
    BY <1>7, <2>1, <2>2 DEF CreateSession, SignInsCurrent, Ending, Endings
<1>8. ASSUME NEW c \in Caller, Rotate(c) PROVE SignInsCurrent'
  <2>6. Do(c, [at |-> "cache", s |-> call[c].s, exp |-> time + RefreshTtl])
    BY <1>8 DEF Rotate
  <2>7. \A s \in Session : Live(s)' => (Live(s) /\ row'[s].epoch = row[s].epoch)
    BY <1>8, RotatedRow DEF Rotate
  <2>8. ~Ending(c) /\ UNCHANGED <<epoch, stray>>
    BY <1>8 DEF Rotate, Ending, Endings
  <2> QED
    BY <1>1, <2>6, <2>7, <2>8
<1>9. ASSUME NEW c \in Caller, ListSessions(c) \/ ChangeAccount(c) PROVE SignInsCurrent'
  <2>1. \E state : Do(c, state) /\ state.at \in Endings
    BY <1>9 DEF ListSessions, ChangeAccount, Endings
  <2>2. Ending(c)'
    BY <2>1, OtherCalls DEF Ending
  <2> QED
    BY <2>2 DEF SignInsCurrent
<1>10. ASSUME NEW c \in Caller, DeleteAll(c) \/ Purge(c) PROVE SignInsCurrent'
  <2>1. Done(c) \/ \E a : Do(c, [at |-> "forget", all |-> a])
    BY <1>10 DEF DeleteAll, Purge
  <2>2. \A d \in Caller : At(d, "create")' => At(d, "create")
    <3>1. CASE Done(c)
      BY <3>1, OtherCalls DEF Done, Ready
    <3>2. CASE \E a : Do(c, [at |-> "forget", all |-> a])
      BY <3>2, OtherCalls
    <3> QED
      BY <2>1, <3>1, <3>2
  <2>3. \A s \in Session : ~Live(s)'
    BY <1>10 DEF DeleteAll, Purge
  <2> QED
    BY <1>10, <2>2, <2>3 DEF DeleteAll, Purge, SignInsCurrent
<1>12. ASSUME NEW c \in Caller, Throws(c) PROVE SignInsCurrent'
  <2>1. CASE Ending(c)
    BY <1>12, <2>1 DEF Throws, Ending, SignInsCurrent
  <2>2. CASE ~Ending(c)
    BY <1>1, <1>12, <2>2 DEF Throws, Done, Ready, Ending, AuthTypeOK
  <2> QED
    BY <2>1, <2>2
<1>13. ASSUME NEW c \in Caller, NEW p \in Session, Terminate(c, p) PROVE SignInsCurrent'
  BY <1>13 DEF Terminate, SignInsCurrent, Ending, AuthTypeOK
<1>11. CASE Signup \/ Tick \/ UNCHANGED authVars
  BY <1>11 DEF Signup, Tick, authVars, SignInsCurrent, Ending
<1> QED
  BY <1>2, <1>3, <1>4, <1>5, <1>6, <1>7, <1>8, <1>9, <1>10, <1>11, <1>12, <1>13 DEF AuthNext, Step

-----------------------------------------------------------------------------
(***************************************************************************)
(* The invariant holds of every behaviour, and what follows from it.       *)
(***************************************************************************)
AuthInv ==
    /\ AuthTypeOK /\ SignInsCurrent
    /\ \A s \in Session : EndedIsGone(s) /\ ForgottenUnlessKept(s) /\ TokenRules(s)

LEMMA InitAuthInv == AuthInit => AuthInv
<1> SUFFICES ASSUME AuthInit PROVE AuthInv
  OBVIOUS
<1>1. SignInsCurrent
  BY DEF AuthInit, SignInsCurrent, Live, At, Ready
<1>2. ASSUME NEW s \in Session PROVE EndedIsGone(s) /\ ForgottenUnlessKept(s) /\ TokenRules(s)
  BY DEF AuthInit, EndedIsGone, ForgottenUnlessKept, TokenRules, FillCalls, Live, At, Ready
<1> QED
  BY <1>1, <1>2, InitTypeOK DEF AuthInv

LEMMA NextAuthInv == AuthInv /\ [AuthNext]_authVars => AuthInv'
BY NextTypeOK, NextEnded, NextForgotten, NextTokens, NextSignIns DEF AuthInv

THEOREM AuthInvariant == AuthSpec => []AuthInv
BY InitAuthInv, NextAuthInv, PTL DEF AuthSpec

\* A deleted session outlives its row in the cache by one lifetime of an entry at
\* most, whatever validations and refreshes were under way.
THEOREM EndedSessionsAreOver == AuthSpec => []EndedSessionsDie
<1>1. AuthInv => EndedSessionsDie
  <2> SUFFICES ASSUME AuthInv, NEW s \in Session, ended[s] # 0, Accepted(s)
               PROVE  time < ended[s] + CacheTtl
    BY DEF EndedSessionsDie
  <2>1. cache[s] # None /\ EndedIsGone(s) /\ AuthTypeOK
    BY DEF AuthInv, Accepted
  <2>2. time \in Nat /\ ended[s] \in Nat /\ CacheTtl \in Nat /\ cache[s].till \in Nat
    BY <2>1, AuthAssumption DEF AuthTypeOK, Entry
  <2> QED
    BY <2>1, <2>2 DEF EndedIsGone
<1> QED
  BY <1>1, AuthInvariant, PTL

\* A logout ends the session at once, unless a call about it overlaps, Redis fails
\* or the row goes in one of the ways that leave the cache alone.
THEOREM LogoutEndsAtOnce == AuthSpec => []EndedAtOnce
<1>1. AuthInv => EndedAtOnce
  BY DEF AuthInv, EndedAtOnce, Accepted, ForgottenUnlessKept
<1> QED
  BY <1>1, AuthInvariant, PTL

\* Whatever else is under way, no refresh gets as far as the update with a token
\* that was redeemed before it began: only refreshes that overlap share one.
THEOREM TokensAreSingleUse == AuthSpec => TokenRedeemedByOverlap
<1> DEFINE Unredeemed(c) == (At(c, "rotate")' /\ call'[c] # call[c]) =>
                               call'[c].g > row[call'[c].s].used
<1>1. AuthInv /\ [AuthNext]_authVars => [\A c \in Caller : Unredeemed(c)]_authVars
  <2> SUFFICES ASSUME AuthInv, [AuthNext]_authVars, NEW c \in Caller,
                      At(c, "rotate")', call'[c] # call[c]
               PROVE  call'[c].g > row[call'[c].s].used
    OBVIOUS
  <2>1. AuthTypeOK
    BY DEF AuthInv
  <2>2. PICK d \in Caller, s \in Session, g \in Secret : Refresh(d, s, g)
    BY <2>1, OnlyRefreshRotates DEF OldRotations
  <2>3. d = c /\ g = row[s].secret /\ call'[c] = [at |-> "rotate", s |-> s, g |-> g]
    BY <2>1, <2>2, OtherCalls DEF Refresh, At
  <2>4. Live(s) /\ TokenRules(s)
    BY <2>2 DEF Refresh, AuthInv
  <2>5. row[s].used < row[s].secret /\ row[s] \in Row
    BY <2>1, <2>4 DEF TokenRules, AuthTypeOK, Live
  <2> QED
    BY <2>3, <2>5 DEF Row
<1> QED
  BY <1>1, AuthInvariant, PTL DEF AuthSpec, TokenRedeemedByOverlap

\* A deactivation or a new password leaves no earlier session, but for a sign-in
\* that overlaps it or a failure on the way.
THEOREM ChangeEndsAll == AuthSpec => []ChangeEndsSessions
<1>1. AuthInv => ChangeEndsSessions
  BY DEF AuthInv, SignInsCurrent, ChangeEndsSessions, Ending
<1> QED
  BY <1>1, AuthInvariant, PTL
===============================================================================
