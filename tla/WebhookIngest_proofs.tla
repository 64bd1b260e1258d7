------------------------ MODULE WebhookIngest_proofs ------------------------
(***************************************************************************)
(* Theorems about WebhookIngest, for every set of events and every bound.  *)
(***************************************************************************)
EXTENDS WebhookIngest, FiniteSetTheorems, TLAPS

\* What a handler has established by the stage it has reached, unless the contact
\* was deleted: then it is adrift.
HasWindow == {"thread", "newThread", "store", "count"}
HasThread == {"store", "count"}

StageOK(j) ==
    /\ job[j] \in Holding => contact
    /\ job[j] \in HasWindow => lastFrom # 0
    /\ job[j] \in HasThread => thread # "NONE"
    /\ job[j] = "count" => j[1] \in stored
    /\ job[j] = "adrift" => j[1] \in erased

RowsFollowStages == TypeOK /\ \A j \in Job : StageOK(j)

-----------------------------------------------------------------------------
(***************************************************************************)
(* Type correctness, the references between the rows included.             *)
(***************************************************************************)
LEMMA InitRows == Init => RowsFollowStages
<1> SUFFICES ASSUME Init PROVE RowsFollowStages
  OBVIOUS
<1>1. job \in [Job -> JobState] /\ \A j \in Job : StageOK(j)
  BY DEF Init, JobState, Active, StageOK, Holding, HasWindow, HasThread
<1>2. contact \in BOOLEAN /\ active \in BOOLEAN
  BY WebhookAssumption DEF Init
<1>3. thread # "NONE" => contact
  BY DEF Init
<1> QED
  BY <1>1, <1>2, <1>3, WebhookAssumption DEF Init, RowsFollowStages, TypeOK

LEMMA NextRows == RowsFollowStages /\ [Next]_vars => RowsFollowStages'
<1> SUFFICES ASSUME RowsFollowStages, [Next]_vars PROVE RowsFollowStages'
  OBVIOUS
<1> USE DEF RowsFollowStages, TypeOK, rows, causes, bounds, KeepRows, Go, StageOK, Holding,
            HasWindow, HasThread
<1>0. Active \subseteq JobState /\ {"none", "waiting", "stalled", "done"} \subseteq JobState
  BY DEF JobState
<1>1. ASSUME NEW e \in Event, Post(e) PROVE RowsFollowStages'
  <2>1. <<e, 0>> \in Job
    BY <1>1, WebhookAssumption DEF Job
  <2> QED
    BY <1>0, <1>1, <2>1 DEF Post
<1>2. ASSUME NEW e \in Event, Forget(e) PROVE RowsFollowStages'
  BY <1>0, <1>2, WebhookAssumption DEF Forget
<1>3. ASSUME NEW j \in Job, Take(j) \/ StalledCheck(j) PROVE RowsFollowStages'
  BY <1>0, <1>3 DEF Take, StalledCheck, Active
<1>4. ASSUME NEW j \in Job, CheckKey(j) \/ MarkKey(j) \/ Policy(j) \/ FindContact(j)
      PROVE  RowsFollowStages'
  <2>1. j[1] \in Event
    BY DEF Job
  <2> QED
    BY <1>0, <1>4, <2>1 DEF CheckKey, MarkKey, Policy, FindContact, Active
<1>5. ASSUME NEW j \in Job, NEW from, CatchTo(j, from)
      PROVE  job' \in [Job -> JobState] /\ \A i \in Job : job'[i] \in {"done", "waiting", job[i]}
  BY <1>0, <1>5 DEF CatchTo
<1>6. ASSUME NEW j \in Job, Throw(j) PROVE RowsFollowStages'
  <2>1. /\ job' \in [Job -> JobState]
        /\ \A i \in Job : job'[i] \in {"done", "waiting", job[i]}
    BY <1>5, <1>6 DEF Throw
  <2>2. \A i \in Job : StageOK(i)'
    BY <1>6, <2>1 DEF Throw
  <2>3. faults' \in 0..MaxFault
    BY <1>6, WebhookAssumption DEF Throw
  <2> QED
    BY <1>6, <2>1, <2>2, <2>3 DEF Throw
<1>7. ASSUME NEW j \in Job, NEW from, Conflict(j, from) PROVE RowsFollowStages'
  <2>1. j[1] \in Event
    BY DEF Job
  <2> QED
    BY <1>5, <1>7, <2>1 DEF Conflict
<1>8. ASSUME NEW j \in Job, CreateContact(j) PROVE RowsFollowStages'
  BY <1>0, <1>7, <1>8 DEF CreateContact, Active
<1>9. ASSUME NEW j \in Job, Touch(j) PROVE RowsFollowStages'
  <2>1. j[1] \in Event /\ j[1] # 0
    BY WebhookAssumption DEF Job
  <2> QED
    BY <1>0, <1>9, <2>1 DEF Touch, Active
<1>10. ASSUME NEW j \in Job, FindThread(j) PROVE RowsFollowStages'
  BY <1>0, <1>10 DEF FindThread, Active
<1>11. ASSUME NEW j \in Job, CreateThread(j) PROVE RowsFollowStages'
  BY <1>0, <1>7, <1>11 DEF CreateThread, Active
<1>12. ASSUME NEW j \in Job, Store(j) PROVE RowsFollowStages'
  <2>1. j[1] \in Event
    BY DEF Job
  <2> QED
    BY <1>0, <1>7, <1>12, <2>1 DEF Store, Active
<1>13. ASSUME NEW j \in Job, CountUnread(j) PROVE RowsFollowStages'
  BY <1>0, <1>13 DEF CountUnread
<1>14. CASE Resolve \/ OpenThread \/ MarkRead
  BY <1>14 DEF Resolve, OpenThread, MarkRead
<1>15. CASE Crash
  <2>1. /\ job' \in [Job -> JobState]
        /\ \A i \in Job : job'[i] \in {"stalled", job[i]}
    BY <1>0, <1>15 DEF Crash
  <2>2. \A i \in Job : StageOK(i)'
    BY <1>15, <2>1 DEF Crash
  <2>3. crashes' \in 0..MaxCrash
    BY <1>15, WebhookAssumption DEF Crash
  <2> QED
    BY <1>15, <2>1, <2>2, <2>3 DEF Crash
<1>16. CASE UNCHANGED vars
  BY <1>16 DEF vars
<1>17. ASSUME NEW j \in Job, Founder(j) PROVE RowsFollowStages'
  BY <1>5, <1>17 DEF Founder
<1>18. CASE DeleteContact
  <2>1. /\ job' \in [Job -> JobState]
        /\ \A i \in Job : job'[i] \notin Holding
    BY <1>0, <1>18 DEF DeleteContact, Active
  <2>2. deletes' \in 0..MaxDelete
    <3>1. deletes' = deletes + 1 /\ deletes < MaxDelete
      BY <1>18 DEF DeleteContact
    <3> QED
      BY <3>1, WebhookAssumption
  <2>3. erased' = erased \cup stored
                  \cup {e \in Event : \E n \in 0..MaxRetry : job[<<e, n>>] \in Holding}
    BY <1>18 DEF DeleteContact
  <2>4. \A i \in Job : job'[i] = "adrift" => i[1] \in erased'
    <3>1. ASSUME NEW i \in Job, job'[i] = "adrift"
          PROVE  job[i] \in Holding \/ i[1] \in erased
      BY <1>18, <3>1 DEF DeleteContact
    <3>2. \A i \in Job : i = <<i[1], i[2]>> /\ i[1] \in Event /\ i[2] \in 0..MaxRetry
      BY DEF Job
    <3> HIDE DEF Holding
    <3> QED
      BY <2>3, <3>1, <3>2
  <2>5. erased' \subseteq Event
    BY <2>3
  <2>6. \A i \in Job : StageOK(i)'
    BY <2>1, <2>4
  <2>7. /\ UNCHANGED <<stalledOnce, key, active, conflict, forgets, crashes, faults>>
        /\ contact' = FALSE /\ lastFrom' = 0 /\ thread' = "NONE" /\ unread' = 0 /\ stored' = {}
    BY <1>18 DEF DeleteContact
  <2> QED
    BY <2>1, <2>2, <2>5, <2>6, <2>7
<1> QED
  BY <1>1, <1>2, <1>3, <1>4, <1>6, <1>8, <1>9, <1>10, <1>11, <1>12, <1>13, <1>14,
     <1>15, <1>16, <1>17, <1>18 DEF Next, Work

THEOREM RowsInvariant == Spec => []RowsFollowStages
BY InitRows, NextRows, PTL DEF Spec

\* Every variable keeps to its values, and a conversation, a stored message and
\* an unread count never come before the rows they refer to.
THEOREM TypeCorrect == Spec => []TypeOK
<1>1. RowsFollowStages => TypeOK
  BY DEF RowsFollowStages
<1> QED
  BY <1>1, RowsInvariant, PTL

-----------------------------------------------------------------------------
(***************************************************************************)
(* Counting.                                                               *)
(***************************************************************************)
\* Jobs that have stored their message and not counted it yet.
Counting == {j \in Job : job[j] = "count"}

\* CountedOnce is not inductive: what is about to be counted has to be stored.
CountedOrCounting == unread + Cardinality(Counting) <= Cardinality(stored)

LEMMA CountingFinite == IsFiniteSet(Counting) /\ Cardinality(Counting) \in Nat
<1>1. IsFiniteSet(0..MaxRetry)
  BY WebhookAssumption, FS_Interval
<1>2. IsFiniteSet(Job)
  BY <1>1, WebhookAssumption, FS_Product DEF Job
<1>3. Counting \subseteq Job
  BY DEF Counting
<1> QED
  BY <1>2, <1>3, FS_Subset, FS_CardinalityType

LEMMA StoredFinite ==
    ASSUME TypeOK PROVE IsFiniteSet(stored) /\ Cardinality(stored) \in Nat
BY WebhookAssumption, FS_Subset, FS_CardinalityType DEF TypeOK

\* A step that counts nothing and starts no counting keeps the account.
LEMMA FewerCounting ==
    ASSUME TypeOK, TypeOK', CountedOrCounting,
           Counting' \subseteq Counting, unread' <= unread, stored' = stored
    PROVE  CountedOrCounting'
<1>1. Cardinality(Counting') <= Cardinality(Counting) /\ Cardinality(Counting') \in Nat
  BY CountingFinite, FS_Subset, FS_CardinalityType
<1>2. Cardinality(stored) \in Nat /\ Cardinality(Counting) \in Nat
  BY StoredFinite, CountingFinite
<1> QED
  BY <1>1, <1>2 DEF CountedOrCounting, TypeOK

LEMMA NextCounting ==
    RowsFollowStages /\ RowsFollowStages' /\ CountedOrCounting /\ [Next]_vars
      => CountedOrCounting'
<1> SUFFICES ASSUME RowsFollowStages, RowsFollowStages', CountedOrCounting, [Next]_vars
             PROVE  CountedOrCounting'
  OBVIOUS
<1>0. TypeOK /\ TypeOK'
  BY DEF RowsFollowStages
<1> USE DEF rows, causes, bounds, KeepRows, Go
<1>1. ASSUME UNCHANGED <<unread, stored>>, Counting' \subseteq Counting
      PROVE  CountedOrCounting'
  BY <1>0, <1>1, FewerCounting DEF TypeOK
<1>2. ASSUME NEW e \in Event, Post(e) \/ Forget(e) PROVE CountedOrCounting'
  BY <1>0, <1>1, <1>2 DEF Post, Forget, Counting, TypeOK
<1>3. ASSUME NEW j \in Job,
             \/ Take(j) \/ StalledCheck(j) \/ CheckKey(j) \/ MarkKey(j) \/ Policy(j)
             \/ FindContact(j) \/ Touch(j) \/ FindThread(j)
      PROVE  CountedOrCounting'
  BY <1>0, <1>1, <1>3 DEF Take, StalledCheck, CheckKey, MarkKey, Policy, FindContact,
                          Touch, FindThread, Counting, TypeOK
<1>4. ASSUME NEW j \in Job, NEW from, CatchTo(j, from) PROVE Counting' \subseteq Counting
  BY <1>4 DEF CatchTo, Counting
<1>5. ASSUME NEW j \in Job, Throw(j) PROVE CountedOrCounting'
  BY <1>1, <1>4, <1>5 DEF Throw
<1>6. ASSUME NEW j \in Job, NEW from, Conflict(j, from) PROVE CountedOrCounting'
  BY <1>1, <1>4, <1>6 DEF Conflict
<1>7. ASSUME NEW j \in Job, CreateContact(j) \/ CreateThread(j) PROVE CountedOrCounting'
  BY <1>0, <1>1, <1>6, <1>7 DEF CreateContact, CreateThread, Counting, TypeOK
<1>8. ASSUME NEW j \in Job, Store(j) PROVE CountedOrCounting'
  <2>1. CASE Conflict(j, "store")
    BY <1>6, <2>1
  <2>2. CASE ~Conflict(j, "store")
    <3>1. /\ j[1] \notin stored /\ stored' = stored \cup {j[1]} /\ unread' = unread
          /\ job[j] = "store" /\ job' = [job EXCEPT ![j] = "count"]
      BY <1>8, <2>2 DEF Store
    <3>2. Counting' = Counting \cup {j} /\ j \notin Counting
      BY <1>0, <3>1 DEF Counting, TypeOK
    <3>3. Cardinality(Counting') = Cardinality(Counting) + 1
      BY <3>2, CountingFinite, FS_AddElement
    <3>4. Cardinality(stored') = Cardinality(stored) + 1
      BY <1>0, <3>1, StoredFinite, FS_AddElement
    <3> QED
      BY <1>0, <3>1, <3>3, <3>4, StoredFinite, CountingFinite DEF CountedOrCounting, TypeOK
  <2> QED
    BY <2>1, <2>2
<1>9. ASSUME NEW j \in Job, CountUnread(j) PROVE CountedOrCounting'
  <2>1. /\ unread' = unread + 1 /\ stored' = stored
        /\ job[j] = "count" /\ job' = [job EXCEPT ![j] = "done"]
    BY <1>9 DEF CountUnread
  <2>2. Counting' = Counting \ {j} /\ j \in Counting
    BY <1>0, <2>1 DEF Counting, TypeOK
  <2>3. Cardinality(Counting') = Cardinality(Counting) - 1
    BY <2>2, CountingFinite, FS_RemoveElement
  <2> QED
    BY <1>0, <2>1, <2>3, StoredFinite, CountingFinite DEF CountedOrCounting, TypeOK
<1>10. CASE Resolve \/ OpenThread
  BY <1>1, <1>10 DEF Resolve, OpenThread, Counting
<1>11. CASE MarkRead
  <2>1. unread' = 0 /\ stored' = stored /\ Counting' = Counting
    BY <1>11 DEF MarkRead, Counting
  <2> QED
    BY <1>0, <2>1, FewerCounting DEF TypeOK
<1>12. CASE Crash
  BY <1>1, <1>12 DEF Crash, Counting
<1>13. CASE UNCHANGED vars
  BY <1>1, <1>13 DEF vars, Counting
<1>14. ASSUME NEW j \in Job, Founder(j) PROVE CountedOrCounting'
  BY <1>1, <1>4, <1>14 DEF Founder
<1>15. CASE DeleteContact
  <2>1. Counting' = {} /\ stored' = {} /\ unread' = 0
    BY <1>0, <1>15 DEF DeleteContact, Counting, Holding, TypeOK
  <2> QED
    BY <2>1, FS_EmptySet DEF CountedOrCounting
<1> QED
  BY <1>2, <1>3, <1>5, <1>7, <1>8, <1>9, <1>10, <1>11, <1>12, <1>13, <1>14, <1>15
     DEF Next, Work

\* A message is counted at most once, however often its event is posted, run
\* again or tried again, and however agents read the conversation meanwhile.
THEOREM MessagesCountedOnce == Spec => []CountedOnce
<1>1. Init => CountedOrCounting
  <2> SUFFICES ASSUME Init PROVE CountedOrCounting
    OBVIOUS
  <2>1. Counting = {} /\ stored = {} /\ unread = 0
    BY DEF Init, Counting
  <2> QED
    BY <2>1, FS_EmptySet DEF CountedOrCounting
<1>2. RowsFollowStages /\ CountedOrCounting => CountedOnce
  <2> SUFFICES ASSUME RowsFollowStages, CountedOrCounting PROVE CountedOnce
    OBVIOUS
  <2>1. unread \in Nat /\ Cardinality(stored) \in Nat /\ Cardinality(Counting) \in Nat
    BY StoredFinite, CountingFinite DEF RowsFollowStages, TypeOK
  <2> QED
    BY <2>1 DEF CountedOrCounting, CountedOnce
<1> QED
  BY <1>1, <1>2, RowsInvariant, NextCounting, PTL DEF Spec

-----------------------------------------------------------------------------
(***************************************************************************)
(* Losses.  As long as nothing fails or crashes, an event with a key is    *)
(* being handled or has been, and an event with a finished job has had its *)
(* key; the key alone never stands for a message that nobody handles.      *)
(***************************************************************************)
Handling == {"contact", "newContact", "touch", "thread", "newThread", "store", "count",
             "adrift"}

Settled(e) == e \in stored \cup conflict \cup erased

Followed(e) ==
    /\ e \in key => Settled(e) \/ \E n \in 0..MaxRetry : job[<<e, n>>] \in Handling
    /\ \A n \in 0..MaxRetry : job[<<e, n>>] = "done" => e \in key \/ Settled(e)
    /\ \A n \in 0..MaxRetry : job[<<e, n>>] \notin {"stalled", "policy"}

Calm == faults = 0 /\ crashes = 0
NothingUnhandled == Calm => \A e \in Messages : Followed(e)

LEMMA NextNothingUnhandled ==
    RowsFollowStages /\ NothingUnhandled /\ [Next]_vars => NothingUnhandled'
<1> SUFFICES ASSUME RowsFollowStages, NothingUnhandled, [Next]_vars, Calm',
                    NEW e \in Messages
             PROVE  Followed(e)'
  BY DEF NothingUnhandled, Messages
<1> USE DEF rows, causes, bounds, KeepRows, Go
<1>0. TypeOK /\ e \in Event /\ Kind[e] = "message" /\ \A n \in 0..MaxRetry : <<e, n>> \in Job
  BY DEF RowsFollowStages, Messages, Job
<1>1. ASSUME Calm PROVE Followed(e)
  BY <1>1 DEF NothingUnhandled
\* A step of a job of another event leaves what is known of e as it was.
<1>2. ASSUME Calm, UNCHANGED <<stored, causes>>, (e \in key') = (e \in key),
             \A n \in 0..MaxRetry : job'[<<e, n>>] = job[<<e, n>>]
      PROVE  Followed(e)'
  BY <1>1, <1>2 DEF Followed, Settled
\* So does a step of a job of e that stays before or within the handler.
<1>3. ASSUME Calm, UNCHANGED <<key, stored, causes>>, NEW j \in Job, j[1] = e,
             NEW to, job' = [job EXCEPT ![j] = to],
             to \in Handling \/ job[j] \notin Handling,
             to \notin {"stalled", "policy"},
             to = "done" => e \in key \/ Settled(e)
      PROVE  Followed(e)'
  <2>1. j[2] \in 0..MaxRetry /\ j = <<e, j[2]>>
    BY <1>3 DEF Job
  <2>2. \A i \in 0..MaxRetry : job'[<<e, i>>] = IF i = j[2] THEN to ELSE job[<<e, i>>]
    BY <1>0, <1>3, <2>1 DEF TypeOK
  <2>3. Settled(e)' = Settled(e) /\ job[<<e, j[2]>>] = job[j]
    BY <1>3, <2>1 DEF Settled
  <2>4. ASSUME e \in key', ~Settled(e)
        PROVE  \E i \in 0..MaxRetry : job'[<<e, i>>] \in Handling
    <3>1. PICK i \in 0..MaxRetry : job[<<e, i>>] \in Handling
      BY <1>1, <1>3, <2>4 DEF Followed
    <3>2. i = j[2] => to \in Handling
      BY <1>3, <2>3, <3>1
    <3> QED
      BY <2>2, <3>1, <3>2
  <2>5. \A i \in 0..MaxRetry : job'[<<e, i>>] = "done" => e \in key' \/ Settled(e)'
    BY <1>1, <1>3, <2>2, <2>3 DEF Followed
  <2>6. \A i \in 0..MaxRetry : job'[<<e, i>>] \notin {"stalled", "policy"}
    BY <1>1, <1>3, <2>2 DEF Followed
  <2> QED
    BY <2>3, <2>4, <2>5, <2>6 DEF Followed
\* And nothing is lost of an event that is settled.
<1>4. ASSUME Settled(e)', \A n \in 0..MaxRetry : job'[<<e, n>>] \notin {"stalled", "policy"}
      PROVE  Followed(e)'
  BY <1>4 DEF Followed
<1>5. ASSUME NEW j \in Job
      PROVE  /\ j[1] \in Event /\ j[2] \in 0..MaxRetry /\ j = <<j[1], j[2]>>
             /\ StageOK(j)
  BY DEF Job, RowsFollowStages
<1>6. ASSUME NEW j \in Job, NEW to, job' = [job EXCEPT ![j] = to], j[1] # e, Calm,
             UNCHANGED <<stored, causes>>, (e \in key') = (e \in key)
      PROVE  Followed(e)'
  BY <1>0, <1>2, <1>6 DEF TypeOK
<1>7. ASSUME NEW d \in Event, Post(d) PROVE Followed(e)'
  <2>1. /\ Calm /\ job' = [job EXCEPT ![<<d, 0>>] = "waiting"] /\ job[<<d, 0>>] = "none"
        /\ UNCHANGED <<key, stored, causes>> /\ <<d, 0>> \in Job /\ 0 \in 0..MaxRetry
    BY <1>7, WebhookAssumption DEF Post, Calm, Job
  <2>2. CASE d = e
    <3>1. <<d, 0>>[1] = e
      BY <2>2
    <3> QED
      BY <1>3, <2>1, <3>1 DEF Handling
  <2>3. CASE d # e
    BY <1>6, <2>1, <2>3
  <2> QED
    BY <2>2, <2>3
<1>8. ASSUME NEW d \in Event, Forget(d) PROVE Followed(e)'
  <2>1. /\ Calm /\ UNCHANGED <<stored, causes>> /\ key' = key \ {d}
        /\ job' = [j \in Job |-> IF j[1] = d THEN "none" ELSE job[j]]
    BY <1>8 DEF Forget, Calm
  <2>2. CASE d = e
    BY <1>0, <2>1, <2>2 DEF Followed
  <2>3. CASE d # e
    BY <1>0, <1>2, <2>1, <2>3
  <2> QED
    BY <2>2, <2>3
<1>9. ASSUME NEW j \in Job, Take(j) \/ FindContact(j) \/ Touch(j) \/ FindThread(j)
      PROVE  Followed(e)'
  <2>1. PICK to \in Handling \cup {"check"} :
            /\ job' = [job EXCEPT ![j] = to]
            /\ to \in Handling \/ job[j] \notin Handling
    BY <1>9 DEF Take, FindContact, Touch, FindThread, Handling
  <2>2. Calm /\ UNCHANGED <<key, stored, causes>>
    BY <1>9 DEF Take, FindContact, Touch, FindThread, Calm
  <2> QED
    BY <1>3, <1>5, <1>6, <2>1, <2>2 DEF Handling
<1>10. ASSUME NEW j \in Job, StalledCheck(j) PROVE Followed(e)'
  <2>1. /\ Calm /\ UNCHANGED <<key, stored, causes>> /\ job[j] = "stalled"
    BY <1>10 DEF StalledCheck, Calm
  <2>2. j[1] # e
    BY <1>1, <1>5, <2>1 DEF Followed
  <2> QED
    BY <1>6, <1>10, <2>1, <2>2 DEF StalledCheck
<1>11. ASSUME NEW j \in Job, CheckKey(j) PROVE Followed(e)'
  <2>1. /\ Calm /\ UNCHANGED <<key, stored, causes>> /\ job[j] = "check"
        /\ job' = [job EXCEPT ![j] = IF j[1] \in key THEN "done" ELSE "mark"]
    BY <1>11 DEF CheckKey, Calm
  <2>2. CASE j[1] = e
    <3>0. job[j] \notin Handling
      BY <2>1 DEF Handling
    <3>1. CASE e \in key
      <4>1. job' = [job EXCEPT ![j] = "done"]
        BY <2>1, <2>2, <3>1
      <4> QED
        BY <1>3, <2>1, <2>2, <3>0, <3>1, <4>1 DEF Handling
    <3>2. CASE e \notin key
      <4>1. job' = [job EXCEPT ![j] = "mark"]
        BY <2>1, <2>2, <3>2
      <4> QED
        BY <1>3, <2>1, <2>2, <3>0, <4>1 DEF Handling
    <3> QED
      BY <3>1, <3>2
  <2>3. CASE j[1] # e
    BY <1>6, <2>1, <2>3
  <2> QED
    BY <2>2, <2>3
<1>12. ASSUME NEW j \in Job, MarkKey(j) PROVE Followed(e)'
  <2>1. /\ Calm /\ UNCHANGED <<stored, causes>> /\ key' = key \cup {j[1]}
        /\ job[j] = "mark"
        /\ job' = [job EXCEPT ![j] = IF Kind[j[1]] = "message" THEN "contact" ELSE "policy"]
    BY <1>12 DEF MarkKey, Calm
  <2>2. CASE j[1] = e
    <3>1. \A n \in 0..MaxRetry :
             job'[<<e, n>>] = IF n = j[2] THEN "contact" ELSE job[<<e, n>>]
      BY <1>0, <1>5, <2>1, <2>2 DEF TypeOK
    <3>2. Settled(e)' = Settled(e) /\ e \in key'
      BY <2>1, <2>2 DEF Settled
    <3>3. \E n \in 0..MaxRetry : job'[<<e, n>>] \in Handling
      BY <1>5, <3>1 DEF Handling
    <3>4. \A n \in 0..MaxRetry : job'[<<e, n>>] \notin {"stalled", "policy"}
      BY <1>1, <2>1, <3>1 DEF Followed
    <3> QED
      BY <3>2, <3>3, <3>4 DEF Followed
  <2>3. CASE j[1] # e
    <3>1. (e \in key') = (e \in key)
      BY <2>1, <2>3
    <3> QED
      BY <1>6, <2>1, <2>3, <3>1
  <2> QED
    BY <2>2, <2>3
<1>13. ASSUME NEW j \in Job, Policy(j) PROVE Followed(e)'
  <2>1. Calm /\ UNCHANGED <<key, stored, causes>> /\ job[j] = "policy"
    BY <1>13 DEF Policy, Calm
  <2>2. j[1] # e
    BY <1>1, <1>5, <2>1 DEF Followed
  <2> QED
    BY <1>6, <1>13, <2>1, <2>2 DEF Policy
<1>14. ASSUME NEW j \in Job, NEW from, Conflict(j, from) PROVE Followed(e)'
  <2>1. /\ Calm /\ UNCHANGED <<key, stored, erased>> /\ conflict' = conflict \cup {j[1]}
        /\ \A i \in Job : job'[i] = IF i = j THEN "done"
                                   ELSE IF i = <<j[1], j[2] + 1>> THEN "waiting" ELSE job[i]
    BY <1>14 DEF Conflict, CatchTo, Calm
  <2>2. CASE j[1] = e
    <3>1. Settled(e)'
      BY <2>1, <2>2 DEF Settled
    <3>2. \A n \in 0..MaxRetry : job'[<<e, n>>] \in {"done", "waiting", job[<<e, n>>]}
      BY <1>0, <2>1
    <3>3. \A n \in 0..MaxRetry : job'[<<e, n>>] \notin {"stalled", "policy"}
      BY <1>1, <2>1, <3>2 DEF Followed
    <3> QED
      BY <1>4, <3>1, <3>3
  <2>3. CASE j[1] # e
    <3>1. \A n \in 0..MaxRetry : job'[<<e, n>>] = job[<<e, n>>]
      BY <1>0, <1>5, <2>1, <2>3
    <3>2. Settled(e)' = Settled(e)
      BY <2>1, <2>3 DEF Settled
    <3> QED
      BY <1>1, <2>1, <3>1, <3>2 DEF Followed
  <2> QED
    BY <2>2, <2>3
<1>15. ASSUME NEW j \in Job, CreateContact(j) \/ CreateThread(j) PROVE Followed(e)'
  <2>1. CASE Conflict(j, "newContact") \/ Conflict(j, "newThread")
    BY <1>14, <2>1
  <2>2. CASE ~Conflict(j, "newContact") /\ ~Conflict(j, "newThread")
    <3>1. PICK to \in Handling : job' = [job EXCEPT ![j] = to]
      BY <1>15, <2>2 DEF CreateContact, CreateThread, Handling
    <3>2. Calm /\ UNCHANGED <<key, stored, causes>>
      BY <1>15, <2>2 DEF CreateContact, CreateThread, Calm
    <3> QED
      BY <1>3, <1>5, <1>6, <3>1, <3>2 DEF Handling
  <2> QED
    BY <2>1, <2>2
<1>16. ASSUME NEW j \in Job, Store(j) PROVE Followed(e)'
  <2>1. CASE Conflict(j, "store")
    BY <1>14, <2>1
  <2>2. CASE ~Conflict(j, "store")
    <3>1. /\ Calm /\ UNCHANGED <<key, causes>> /\ stored' = stored \cup {j[1]}
          /\ job' = [job EXCEPT ![j] = "count"]
      BY <1>16, <2>2 DEF Store, Calm
    <3>2. \A n \in 0..MaxRetry : job'[<<e, n>>] \in {"count", job[<<e, n>>]}
      BY <1>0, <3>1 DEF TypeOK
    <3>3. CASE j[1] = e
      BY <1>1, <1>4, <3>1, <3>2, <3>3 DEF Followed, Settled
    <3>4. CASE j[1] # e
      <4>1. \A n \in 0..MaxRetry : job'[<<e, n>>] = job[<<e, n>>]
        BY <1>0, <3>1, <3>4 DEF TypeOK
      <4>2. Settled(e)' = Settled(e)
        BY <3>1, <3>4 DEF Settled
      <4> QED
        BY <1>1, <3>1, <4>1, <4>2 DEF Followed
    <3> QED
      BY <3>3, <3>4
  <2> QED
    BY <2>1, <2>2
<1>17. ASSUME NEW j \in Job, CountUnread(j) PROVE Followed(e)'
  <2>1. /\ Calm /\ UNCHANGED <<key, stored, causes>> /\ job[j] = "count"
        /\ job' = [job EXCEPT ![j] = "done"]
    BY <1>17 DEF CountUnread, Calm
  <2>2. CASE j[1] = e
    <3>1. Settled(e)'
      BY <1>5, <2>1, <2>2 DEF StageOK, Settled
    <3>2. \A n \in 0..MaxRetry : job'[<<e, n>>] \in {"done", job[<<e, n>>]}
      BY <1>0, <2>1 DEF TypeOK
    <3> QED
      BY <1>1, <1>4, <2>1, <3>1, <3>2 DEF Followed
  <2>3. CASE j[1] # e
    BY <1>6, <2>1, <2>3
  <2> QED
    BY <2>2, <2>3
<1>18. CASE Resolve \/ OpenThread \/ MarkRead \/ UNCHANGED vars
  BY <1>2, <1>18 DEF Resolve, OpenThread, MarkRead, vars, Calm
<1>19. ~Crash /\ \A j \in Job : ~Throw(j)
  BY <1>0 DEF Crash, Throw, Calm, TypeOK
<1>20. ASSUME NEW j \in Job, Founder(j) PROVE Followed(e)'
  <2>1. /\ Calm /\ UNCHANGED <<key, stored, causes>> /\ job[j] = "adrift"
        /\ \A i \in Job : job'[i] = IF i = j THEN "done"
                                   ELSE IF i = <<j[1], j[2] + 1>> THEN "waiting" ELSE job[i]
    BY <1>20 DEF Founder, CatchTo, Calm
  <2>2. CASE j[1] = e
    <3>1. Settled(e)'
      BY <1>5, <2>1, <2>2 DEF Settled, StageOK
    <3>2. \A n \in 0..MaxRetry : job'[<<e, n>>] \in {"done", "waiting", job[<<e, n>>]}
      BY <1>0, <2>1
    <3>3. \A n \in 0..MaxRetry : job'[<<e, n>>] \notin {"stalled", "policy"}
      BY <1>1, <2>1, <3>2 DEF Followed
    <3> QED
      BY <1>4, <3>1, <3>3
  <2>3. CASE j[1] # e
    <3>1. \A n \in 0..MaxRetry : job'[<<e, n>>] = job[<<e, n>>]
      BY <1>0, <1>5, <2>1, <2>3
    <3> QED
      BY <1>2, <2>1, <3>1
  <2> QED
    BY <2>2, <2>3
<1>21. CASE DeleteContact
  <2>1. /\ Calm /\ UNCHANGED <<key, conflict>> /\ stored \subseteq erased' /\ erased \subseteq erased'
        /\ job' = [j \in Job |-> IF job[j] \in Holding THEN "adrift" ELSE job[j]]
    BY <1>21 DEF DeleteContact, Calm
  <2>2. \A n \in 0..MaxRetry :
           job'[<<e, n>>] = IF job[<<e, n>>] \in Holding THEN "adrift" ELSE job[<<e, n>>]
    BY <1>0, <2>1
  <2>3. Settled(e) => Settled(e)'
    BY <2>1 DEF Settled
  <2>4. \A n \in 0..MaxRetry : job[<<e, n>>] \in Handling => job'[<<e, n>>] \in Handling
    BY <2>2 DEF Handling
  <2>5. \A n \in 0..MaxRetry : /\ job'[<<e, n>>] = "done" => job[<<e, n>>] = "done"
                               /\ job'[<<e, n>>] \notin {"stalled", "policy"}
    BY <1>1, <2>1, <2>2 DEF Followed
  <2> QED
    BY <1>1, <2>1, <2>3, <2>4, <2>5 DEF Followed
<1> QED
  BY <1>7, <1>8, <1>9, <1>10, <1>11, <1>12, <1>13, <1>15, <1>16, <1>17, <1>18, <1>19,
     <1>20, <1>21 DEF Next, Work

\* Without crashes and failing calls a queued message is lost only when another
\* handler or an agent forestalls an insert of its handler, or when the contact is
\* deleted while the handler has it in hand.
THEOREM LossNeedsCause == Spec => []LossHasCause
<1>1. Init => NothingUnhandled
  BY DEF Init, NothingUnhandled, Followed, Messages, Job
<1>2. NothingUnhandled => LossHasCause
  <2>1. 0 \in 0..MaxRetry
    BY WebhookAssumption
  <2> QED
    BY <2>1 DEF NothingUnhandled, Calm, Followed, Settled, LossHasCause, Over, Handling
<1> QED
  BY <1>1, <1>2, RowsInvariant, NextNothingUnhandled, PTL DEF Spec

-----------------------------------------------------------------------------
(***************************************************************************)
(* The inbox.  The count of a message is its own: no two jobs of an event  *)
(* stand before it, because the second could not have stored the message.  *)
(***************************************************************************)
OneCounter ==
    /\ \A e \in Event : \A m, n \in 0..MaxRetry :
          (job[<<e, m>>] = "count" /\ job[<<e, n>>] = "count") => m = n
    /\ \A j \in Job : job[j] \in Handling => j[1] \in Messages

LEMMA InitOneCounter == Init => OneCounter
BY DEF Init, OneCounter, Job, Handling

\* Handlers go on, and none of them comes before the count.
LEMMA SameCounter ==
    ASSUME OneCounter,
           \A j \in Job : /\ job'[j] = "count" => job[j] = "count"
                          /\ job'[j] \in Handling => job[j] \in Handling \/ j[1] \in Messages
    PROVE  OneCounter'
<1>1. \A e \in Event, n \in 0..MaxRetry : <<e, n>> \in Job
  BY DEF Job
<1> QED
  BY <1>1 DEF OneCounter

LEMMA NextOneCounter ==
    ASSUME RowsFollowStages, OneCounter, [Next]_vars
    PROVE  OneCounter'
<1> USE DEF rows, causes, bounds, KeepRows, Go
<1>0. TypeOK /\ \A j \in Job : j = <<j[1], j[2]>> /\ j[1] \in Event /\ j[2] \in 0..MaxRetry
  BY DEF RowsFollowStages, Job
<1>1. ASSUME NEW e \in Event, Post(e) \/ Forget(e) PROVE OneCounter'
  BY <1>0, <1>1, SameCounter DEF Post, Forget, Handling, TypeOK
<1>2. ASSUME NEW j \in Job, Take(j) \/ StalledCheck(j) \/ CheckKey(j) \/ Policy(j) \/ CountUnread(j)
      PROVE  OneCounter'
  BY <1>0, <1>2, SameCounter
     DEF Take, StalledCheck, CheckKey, Policy, CountUnread, Handling, TypeOK
<1>3. ASSUME NEW j \in Job, MarkKey(j) PROVE OneCounter'
  BY <1>0, <1>3, SameCounter DEF MarkKey, Handling, Messages, TypeOK
<1>4. ASSUME NEW j \in Job, FindContact(j) \/ Touch(j) \/ FindThread(j) PROVE OneCounter'
  BY <1>0, <1>4, SameCounter DEF FindContact, Touch, FindThread, Handling, TypeOK
<1>5. ASSUME NEW j \in Job, NEW from, CatchTo(j, from) PROVE OneCounter'
  BY <1>5, SameCounter DEF CatchTo, Handling
<1>6. ASSUME NEW j \in Job, Throw(j) PROVE OneCounter'
  BY <1>5, <1>6 DEF Throw
<1>7. ASSUME NEW j \in Job, CreateContact(j) \/ CreateThread(j) PROVE OneCounter'
  <2>1. CASE Conflict(j, "newContact") \/ Conflict(j, "newThread")
    BY <1>5, <2>1 DEF Conflict
  <2>2. CASE ~Conflict(j, "newContact") /\ ~Conflict(j, "newThread")
    BY <1>0, <1>7, <2>2, SameCounter DEF CreateContact, CreateThread, Handling, TypeOK
  <2> QED
    BY <2>1, <2>2
<1>8. ASSUME NEW j \in Job, Store(j) PROVE OneCounter'
  <2>1. CASE Conflict(j, "store")
    BY <1>5, <2>1 DEF Conflict
  <2>2. CASE ~Conflict(j, "store")
    <3>1. j[1] \notin stored /\ job[j] = "store" /\ job' = [job EXCEPT ![j] = "count"]
      BY <1>8, <2>2 DEF Store
    <3>2. \A i \in Job : i[1] = j[1] => job[i] # "count"
      BY <3>1 DEF RowsFollowStages, StageOK
    <3>3. \A e \in Event, n \in 0..MaxRetry : <<e, n>> \in Job
      BY DEF Job
    <3>4. \A e \in Event, n \in 0..MaxRetry : job'[<<e, n>>] = "count" =>
             <<e, n>> = j \/ (job[<<e, n>>] = "count" /\ e # j[1])
      BY <1>0, <3>1, <3>2, <3>3 DEF TypeOK
    <3>5. \A i \in Job : job'[i] \in Handling => job[i] \in Handling
      BY <1>0, <3>1 DEF TypeOK, Handling
    <3>6. ASSUME NEW e \in Event, NEW m \in 0..MaxRetry, NEW n \in 0..MaxRetry,
                 job'[<<e, m>>] = "count", job'[<<e, n>>] = "count"
          PROVE  m = n
      BY <1>0, <3>4, <3>6 DEF OneCounter
    <3> QED
      BY <3>5, <3>6 DEF OneCounter
  <2> QED
    BY <2>1, <2>2
<1>9. CASE Resolve \/ OpenThread \/ MarkRead
  BY <1>9, SameCounter DEF Resolve, OpenThread, MarkRead
<1>10. CASE Crash
  BY <1>10, SameCounter DEF Crash, Handling
<1>11. CASE UNCHANGED vars
  BY <1>11, SameCounter DEF vars
<1>12. ASSUME NEW j \in Job, Founder(j) PROVE OneCounter'
  BY <1>5, <1>12 DEF Founder
<1>13. CASE DeleteContact
  <2>1. \A j \in Job : job'[j] = IF job[j] \in Holding THEN "adrift" ELSE job[j]
    BY <1>13 DEF DeleteContact
  <2> QED
    BY <2>1, SameCounter DEF Handling, Holding
<1> QED
  BY <1>1, <1>2, <1>3, <1>4, <1>6, <1>7, <1>8, <1>9, <1>10, <1>11, <1>12, <1>13
     DEF Next, Work

\* Jobs that only leave the count have passed their messages over.
LEMMA LeavingPassesOver ==
    ASSUME UNCHANGED <<stored, unread>>, \A j \in Job : job'[j] = "count" => job[j] = "count"
    PROVE  Conversation!PassOver
<1>1. \A e \in Event, n \in 0..MaxRetry : <<e, n>> \in Job
  BY DEF Job
<1>2. Uncounted' \subseteq Uncounted
  BY <1>1 DEF Uncounted
<1> QED
  BY <1>2 DEF Conversation!PassOver

LEMMA NextKeepsInbox ==
    ASSUME RowsFollowStages, OneCounter, [Next]_vars
    PROVE  [Conversation!Next]_(Conversation!vars)
<1> USE DEF rows, causes, bounds, KeepRows, Go
<1>0. TypeOK /\ \A j \in Job : j = <<j[1], j[2]>> /\ j[1] \in Event /\ j[2] \in 0..MaxRetry
  BY DEF RowsFollowStages, Job
<1>00. \A e \in Event, n \in 0..MaxRetry : <<e, n>> \in Job
  BY DEF Job
<1>1. ASSUME UNCHANGED <<stored, unread>>, \A j \in Job : job'[j] = "count" => job[j] = "count"
      PROVE  Conversation!Next
  BY <1>1, LeavingPassesOver DEF Conversation!Next
<1>2. ASSUME NEW e \in Event, Post(e) \/ Forget(e) PROVE Conversation!Next
  BY <1>0, <1>1, <1>2 DEF Post, Forget, TypeOK
<1>3. ASSUME NEW j \in Job,
             \/ Take(j) \/ StalledCheck(j) \/ CheckKey(j) \/ MarkKey(j) \/ Policy(j)
             \/ FindContact(j) \/ Touch(j) \/ FindThread(j)
      PROVE  Conversation!Next
  BY <1>0, <1>1, <1>3
     DEF Take, StalledCheck, CheckKey, MarkKey, Policy, FindContact, Touch, FindThread, TypeOK
<1>4. ASSUME NEW j \in Job, NEW from, CatchTo(j, from), UNCHANGED <<stored, unread>>
      PROVE  Conversation!Next
  BY <1>1, <1>4 DEF CatchTo
<1>5. ASSUME NEW j \in Job, Throw(j) PROVE Conversation!Next
  BY <1>4, <1>5 DEF Throw
<1>6. ASSUME NEW j \in Job, CreateContact(j) \/ CreateThread(j) PROVE Conversation!Next
  <2>1. CASE Conflict(j, "newContact") \/ Conflict(j, "newThread")
    BY <1>4, <2>1 DEF Conflict
  <2>2. CASE ~Conflict(j, "newContact") /\ ~Conflict(j, "newThread")
    BY <1>0, <1>1, <1>6, <2>2 DEF CreateContact, CreateThread, TypeOK
  <2> QED
    BY <2>1, <2>2
<1>7. ASSUME NEW j \in Job, Store(j) PROVE Conversation!Next
  <2>1. CASE Conflict(j, "store")
    BY <1>4, <2>1 DEF Conflict
  <2>2. CASE ~Conflict(j, "store")
    <3>1. /\ j[1] \notin stored /\ stored' = stored \cup {j[1]} /\ UNCHANGED unread
          /\ job[j] = "store" /\ job' = [job EXCEPT ![j] = "count"]
      BY <1>7, <2>2 DEF Store
    <3>2. j[1] \in Messages
      BY <3>1 DEF OneCounter, Handling
    <3>3. \A e \in Event, n \in 0..MaxRetry :
             job'[<<e, n>>] = "count" <=> (<<e, n>> = j \/ job[<<e, n>>] = "count")
      BY <1>0, <1>00, <3>1 DEF TypeOK
    <3>4. Uncounted' = Uncounted \cup {j[1]}
      BY <1>0, <3>3 DEF Uncounted
    <3>5. Conversation!Receive(j[1])
      BY <3>1, <3>4 DEF Conversation!Receive
    <3> QED
      BY <3>2, <3>5 DEF Conversation!Next
  <2> QED
    BY <2>1, <2>2
<1>8. ASSUME NEW j \in Job, CountUnread(j) PROVE Conversation!Next
  <2>1. /\ UNCHANGED stored /\ unread' = unread + 1
        /\ job[j] = "count" /\ job' = [job EXCEPT ![j] = "done"]
    BY <1>8 DEF CountUnread
  <2>2. j[1] \in Messages
    BY <2>1 DEF OneCounter, Handling
  <2>3. \A e \in Event, n \in 0..MaxRetry :
           job'[<<e, n>>] = "count" <=> (<<e, n>> # j /\ job[<<e, n>>] = "count")
    BY <1>0, <1>00, <2>1 DEF TypeOK
  <2>4. \A n \in 0..MaxRetry : job[<<j[1], n>>] = "count" => n = j[2]
    BY <1>0, <2>1 DEF OneCounter
  <2>5. j[1] \in Uncounted
    BY <1>0, <2>1 DEF Uncounted
  <2>6. Uncounted' = Uncounted \ {j[1]}
    <3>1. ASSUME NEW e \in Event PROVE e \in Uncounted' <=> (e \in Uncounted /\ e # j[1])
      <4>1. CASE e = j[1]
        <5>1. \A n \in 0..MaxRetry : n = j[2] => <<e, n>> = j
          BY <1>0, <4>1
        <5>2. \A n \in 0..MaxRetry : job'[<<e, n>>] # "count"
          BY <2>3, <2>4, <4>1, <5>1
        <5> QED
          BY <4>1, <5>2 DEF Uncounted
      <4>2. CASE e # j[1]
        <5>1. \A n \in 0..MaxRetry : <<e, n>> # j
          BY <1>0, <4>2
        <5> QED
          BY <2>3, <4>2, <5>1 DEF Uncounted
      <4> QED
        BY <4>1, <4>2
    <3> QED
      BY <3>1 DEF Uncounted
  <2>7. Conversation!Count(j[1])
    BY <2>1, <2>5, <2>6 DEF Conversation!Count
  <2> QED
    BY <2>2, <2>7 DEF Conversation!Next
<1>9. CASE Resolve \/ OpenThread
  BY <1>1, <1>9 DEF Resolve, OpenThread
<1>10. CASE MarkRead
  <2>1. Conversation!MarkRead
    BY <1>10 DEF MarkRead, Conversation!MarkRead, Uncounted
  <2> QED
    BY <2>1 DEF Conversation!Next
<1>11. CASE Crash
  BY <1>1, <1>11 DEF Crash
<1>12. CASE UNCHANGED vars
  BY <1>1, <1>12 DEF vars
<1>13. ASSUME NEW j \in Job, Founder(j) PROVE Conversation!Next
  BY <1>4, <1>13 DEF Founder
<1>14. CASE DeleteContact
  <2>1. stored' = {} /\ unread' = 0
        /\ \A j \in Job : job'[j] = IF job[j] \in Holding THEN "adrift" ELSE job[j]
    BY <1>14 DEF DeleteContact
  <2>2. \A j \in Job : job'[j] # "count"
    BY <2>1 DEF Holding
  <2>3. Uncounted' = {}
    BY <1>00, <2>2 DEF Uncounted
  <2>4. Conversation!Erase
    BY <2>1, <2>3 DEF Conversation!Erase
  <2> QED
    BY <2>4 DEF Conversation!Next
<1> QED
  BY <1>2, <1>3, <1>5, <1>6, <1>7, <1>8, <1>9, <1>10, <1>11, <1>12, <1>13, <1>14
     DEF Next, Work

\* Queue, key and unique ids make an inbox: whatever is posted, run again after a
\* crash or tried again after a failure, a message of the sender comes in once and
\* is counted as unread once at most, also when agents read in between, until the
\* contact is deleted with all of it.
THEOREM IngestImplementsInbox == Spec => InboxKept
<1>1. Init => Conversation!Init
  BY DEF Init, Conversation!Init, Uncounted, Job
<1> QED
  BY <1>1, InitOneCounter, NextOneCounter, NextKeepsInbox, RowsInvariant, PTL
     DEF Spec, InboxKept, Conversation!Spec
=============================================================================
