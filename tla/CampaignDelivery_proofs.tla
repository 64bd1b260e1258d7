----------------------- MODULE CampaignDelivery_proofs -----------------------
(***************************************************************************)
(* Theorems about CampaignDelivery, for every set of campaigns, recipients *)
(* and requests and every bound.                                           *)
(***************************************************************************)
EXTENDS CampaignDelivery, FiniteSetTheorems, TLAPS

-----------------------------------------------------------------------------
\* A job names its campaign.
LEMMA JobCampaign ==
    ASSUME NEW j \in Job
    PROVE  j[1] \in Campaign
BY DEF Job

\* The state of a job is all that Step() changes.
LEMMA StepTypes ==
    ASSUME job \in [Job -> JobState], NEW j \in Job,
           NEW from, NEW to \in JobState, Step(j, from, to)
    PROVE  job' \in [Job -> JobState]
BY DEF Step

\* The counts of audiences, and so totalRecipients, are natural numbers.
LEMMA AudienceCount ==
    ASSUME NEW aud \in SUBSET Recipient
    PROVE  Cardinality(aud) \in Nat
BY CampaignAssumption, FS_Subset, FS_CardinalityType

\* Begin() leaves a well-formed request behind.
LEMMA BeginTypes ==
    ASSUME req \in [Request -> RequestState],
           NEW r \in Request, NEW op, NEW at \in Pending, NEW c \in Campaign,
           NEW aud \in SUBSET Recipient, NEW n \in Nat,
           Begin(r, op, at, c, aud, n)
    PROVE  req' \in [Request -> RequestState]
<1>1. [at |-> at, c |-> c, aud |-> aud, n |-> n] \in RequestState
  BY DEF RequestState
<1> QED
  BY <1>1 DEF Begin

\* What a request in flight holds, by the stage it has reached.
LEMMA PendingFields ==
    ASSUME req \in [Request -> RequestState], NEW r \in Request, req[r].at \in Pending
    PROVE  /\ req[r] \in [at : Pending, c : Campaign, aud : SUBSET Recipient, n : Nat]
           /\ req[r].c \in Campaign
           /\ req[r].aud \in SUBSET Recipient
           /\ req[r].n \in Nat
BY DEF RequestState, Idle, Pending

LEMMA GoToTypes ==
    ASSUME req \in [Request -> RequestState], NEW r \in Request, req[r].at \in Pending,
           NEW at \in Pending, GoTo(r, at)
    PROVE  req' \in [Request -> RequestState]
<1>1. [req[r] EXCEPT !.at = at] \in RequestState
  BY PendingFields DEF RequestState
<1>2. req' = [req EXCEPT ![r] = [req[r] EXCEPT !.at = at]]
  BY DEF GoTo
<1> QED
  BY <1>1, <1>2

LEMMA FinishTypes ==
    ASSUME req \in [Request -> RequestState], NEW r \in Request, Finish(r)
    PROVE  req' \in [Request -> RequestState]
BY DEF Finish, RequestState

-----------------------------------------------------------------------------
(***************************************************************************)
(* Type correctness.                                                       *)
(***************************************************************************)
LEMMA InitTypeOK == Init => TypeOK
<1>1. Idle \in RequestState
  BY DEF RequestState
<1> SUFFICES ASSUME Init PROVE TypeOK
  OBVIOUS
<1>2. /\ status \in [Campaign -> CampaignStatus \cup {"ABSENT", "DELETED"}]
      /\ total \in [Campaign -> Nat] /\ sent \in [Campaign -> Nat]
      /\ failed \in [Campaign -> Nat] /\ launches \in [Campaign -> 0..MaxBatch]
  BY CampaignAssumption DEF Init
<1>3. job \in [Job -> JobState] /\ accepted \in [Job -> Nat] /\ stalledOnce \subseteq Job
  <2>1. "none" \in JobState
    BY DEF JobState
  <2> QED
    BY <2>1 DEF Init
<1>4. req \in [Request -> RequestState]
  BY <1>1 DEF Init
<1>5. queuePaused \in BOOLEAN
  BY DEF Init
<1>6. crashes \in 0..MaxCrash /\ faults \in 0..MaxFault
  BY CampaignAssumption DEF Init
<1> QED
  BY <1>2, <1>3, <1>4, <1>5, <1>6 DEF TypeOK

LEMMA ReadTypeOK ==
    ASSUME TypeOK, NEW r \in Request, NEW c \in Campaign, Read(r, c)
    PROVE  TypeOK'
<1> USE DEF TypeOK
<1>1. /\ UNCHANGED <<rows, queue, crashes, faults>>
      /\ req' \in [Request -> RequestState]
      /\ launches' \in [Campaign -> 0..MaxBatch]
  <2>1. CASE ReadUpdate(r, c)
    <3>1. PICK n \in {Cardinality(aud) : aud \in SUBSET Recipient} \cup {total[c]} :
              Begin(r, "update", "update.write", c, {}, n)
      BY <2>1 DEF ReadUpdate
    <3>2. n \in Nat
      BY AudienceCount
    <3>3. req' \in [Request -> RequestState]
      BY <3>1, <3>2, BeginTypes DEF Pending
    <3> QED
      BY <2>1, <3>1, <3>3 DEF ReadUpdate, Begin
  <2>2. CASE ReadDelete(r, c)
    BY <2>2, BeginTypes DEF ReadDelete, Begin, Pending
  <2>3. CASE ReadLaunch(r, c)
    <3>1. PICK aud \in (SUBSET Recipient) \ {{}} :
              Begin(r, "launch", "launch.write", c, aud, launches[c] + 1)
      BY <2>3 DEF ReadLaunch
    <3>2. launches[c] + 1 \in 0..MaxBatch
      BY <2>3, CampaignAssumption DEF ReadLaunch
    <3>3. req' \in [Request -> RequestState]
      <4>1. launches[c] + 1 \in Nat
        OBVIOUS
      <4> QED
        BY <3>1, <4>1, BeginTypes DEF Pending
    <3>4. launches' \in [Campaign -> 0..MaxBatch]
      BY <2>3, <3>2 DEF ReadLaunch
    <3> QED
      BY <3>1, <3>3, <3>4 DEF Begin
  <2>4. CASE ReadSchedule(r, c)
    BY <2>4, BeginTypes DEF ReadSchedule, Begin, Pending
  <2>5. CASE ReadPause(r, c)
    BY <2>5, BeginTypes DEF ReadPause, Begin, Pending
  <2>6. CASE ReadResume(r, c)
    BY <2>6, BeginTypes DEF ReadResume, Begin, Pending
  <2>7. CASE ReadCancel(r, c)
    BY <2>7, BeginTypes DEF ReadCancel, Begin, Pending
  <2> QED
    BY <2>1, <2>2, <2>3, <2>4, <2>5, <2>6, <2>7 DEF Read
<1> QED
  BY <1>1 DEF rows, queue

LEMMA WriteTypeOK ==
    ASSUME TypeOK, NEW r \in Request, Write(r)
    PROVE  TypeOK'
<1> USE DEF TypeOK, rows, queue
<1>1. CASE RowGone(r)
  BY <1>1, FinishTypes DEF RowGone
<1>2. CASE WriteUpdate(r)
  <2>1. req[r].c \in Campaign /\ req[r].n \in Nat
    BY <1>2, PendingFields DEF WriteUpdate, Pending
  <2> QED
    BY <1>2, <2>1, FinishTypes DEF WriteUpdate
<1>3. ASSUME NEW at \in Pending, NEW s \in CampaignStatus \cup {"DELETED"},
             WriteStatus(r, at, s)
      PROVE  TypeOK'
  <2>1. req[r].c \in Campaign
    BY <1>3, PendingFields DEF WriteStatus
  <2> QED
    BY <1>3, <2>1, FinishTypes DEF WriteStatus
<1>4. CASE WriteDelete(r)
  BY <1>3, <1>4 DEF WriteDelete, Pending
<1>5. CASE WriteSchedule(r)
  BY <1>3, <1>5 DEF WriteSchedule, Pending, CampaignStatus
<1>6. CASE WritePause(r)
  BY <1>3, <1>6 DEF WritePause, Pending, CampaignStatus
<1>7. CASE WriteResume(r)
  BY <1>3, <1>7 DEF WriteResume, Pending, CampaignStatus
<1>8. CASE WriteCancel(r)
  BY <1>3, <1>8 DEF WriteCancel, Pending, CampaignStatus
<1>9. CASE WriteLaunch(r)
  <2>1. req[r].at \in Pending /\ req[r].c \in Campaign /\ req[r].aud \in SUBSET Recipient
    BY <1>9, PendingFields DEF WriteLaunch, Pending
  <2>2. Cardinality(req[r].aud) \in Nat
    BY <2>1, AudienceCount
  <2>3. req' \in [Request -> RequestState]
    BY <1>9, <2>1, GoToTypes DEF WriteLaunch, Pending
  <2> QED
    BY <1>9, <2>1, <2>2, <2>3 DEF WriteLaunch, CampaignStatus
<1>10. CASE Enqueue(r)
  <2>1. job' \in [Job -> JobState]
    BY <1>10 DEF Enqueue, JobState
  <2> QED
    BY <1>10, <2>1, FinishTypes DEF Enqueue
<1>11. ASSUME NEW at \in Pending, NEW paused \in BOOLEAN, NEW next \in Pending,
              SetQueue(r, at, paused, next)
       PROVE  TypeOK'
  BY <1>11, GoToTypes DEF SetQueue
<1>12. CASE PauseQueue(r)
  BY <1>11, <1>12 DEF PauseQueue, Pending
<1>13. CASE ResumeQueue(r)
  BY <1>11, <1>13 DEF ResumeQueue, Pending
<1> QED
  BY <1>1, <1>2, <1>4, <1>5, <1>6, <1>7, <1>8, <1>9, <1>10, <1>12, <1>13 DEF Write

LEMMA WorkTypeOK ==
    ASSUME TypeOK, NEW j \in Job, Take(j) \/ Work(j) \/ Throw(j) \/ StalledCheck(j)
    PROVE  TypeOK'
<1> USE DEF TypeOK, rows, queue
<1> j[1] \in Campaign
  BY JobCampaign
<1>1. job' \in [Job -> JobState]
  BY DEF Take, Work, CheckScope, Admit, Send, Post, Count, CheckComplete, Complete,
         Catch, Throw, StalledCheck, Step, JobState, Running, Ended
<1>2. CASE Take(j)
  BY <1>1, <1>2 DEF Take
<1>3. CASE Throw(j)
  BY <1>1, <1>3, CampaignAssumption DEF Throw
<1>4. CASE StalledCheck(j)
  BY <1>1, <1>4 DEF StalledCheck
<1>5. CASE CheckScope(j) \/ Admit(j) \/ Send(j) \/ CheckComplete(j)
  BY <1>1, <1>5 DEF CheckScope, Admit, Send, CheckComplete
<1>6. CASE Post(j)
  BY <1>1, <1>6 DEF Post
<1>7. CASE Count(j)
  BY <1>1, <1>7 DEF Count
<1>8. CASE Complete(j)
  BY <1>1, <1>8 DEF Complete, CampaignStatus
<1>9. CASE Catch(j)
  BY <1>1, <1>9, CampaignAssumption DEF Catch
<1> QED
  BY <1>2, <1>3, <1>4, <1>5, <1>6, <1>7, <1>8, <1>9 DEF Work

\* Whatever the requests and the workers do, every variable keeps its type: the
\* counters stay natural numbers and no request or job is lost half way.
THEOREM TypeCorrect == Spec => []TypeOK
<1>1. TypeOK /\ [Next]_vars => TypeOK'
  <2> SUFFICES ASSUME TypeOK, [Next]_vars PROVE TypeOK'
    OBVIOUS
  <2>1. CASE \E c \in Campaign : Create(c)
    <3>1. PICK c \in Campaign : Create(c)
      BY <2>1
    <3>2. PICK aud \in SUBSET Recipient : total' = [total EXCEPT ![c] = Cardinality(aud)]
      BY <3>1 DEF Create
    <3>3. total' \in [Campaign -> Nat]
      BY <3>2, AudienceCount DEF TypeOK
    <3> QED
      BY <3>1, <3>3 DEF Create, TypeOK, CampaignStatus, queue
  <2>2. CASE \E r \in Request : Write(r) \/ \E c \in Campaign : Read(r, c)
    BY <2>2, WriteTypeOK, ReadTypeOK
  <2>3. CASE \E j \in Job : Take(j) \/ Work(j) \/ Throw(j) \/ StalledCheck(j)
    BY <2>3, WorkTypeOK
  <2>4. CASE Crash
    <3>1. job' \in [Job -> JobState]
      BY <2>4 DEF Crash, TypeOK, JobState
    <3>2. crashes' \in 0..MaxCrash
      BY <2>4, CampaignAssumption DEF Crash, TypeOK
    <3> QED
      BY <2>4, <3>1, <3>2 DEF Crash, TypeOK, RequestState, rows
  <2>5. CASE UNCHANGED vars
    BY <2>5 DEF TypeOK, vars, rows, queue
  <2> QED
    BY <2>1, <2>2, <2>3, <2>4, <2>5 DEF Next
<1> QED
  BY InitTypeOK, <1>1, PTL DEF Spec

-----------------------------------------------------------------------------
(***************************************************************************)
(* The counters cover the jobs.                                            *)
(***************************************************************************)
\* A campaign has finitely many jobs: a smallest set of recipients with
\* infinitely many jobs would have a smaller one below it.
LEMMA FiniteJobs ==
    ASSUME NEW c
    PROVE  IsFiniteSet(JobsOf(c))
<1> DEFINE Of(T) == {c} \X Batch \X T
           Bad == {T \in SUBSET Recipient : ~IsFiniteSet(Of(T))}
<1> SUFFICES Bad = {}
  BY DEF JobsOf
<1> SUFFICES ASSUME Bad # {} PROVE FALSE
  OBVIOUS
<1>1. IsWellFoundedOn(StrictSubsetOrdering(Recipient), SUBSET Recipient)
  BY CampaignAssumption, FS_StrictSubsetOrderingWellFounded, FS_FiniteSubsetsOfFinite
<1>2. PICK T \in Bad : \A U \in Bad : ~ (<<U, T>> \in StrictSubsetOrdering(Recipient))
  <2>1. Bad \subseteq SUBSET Recipient
    OBVIOUS
  <2> HIDE DEF Bad
  <2> QED
    BY <1>1, <2>1, WFMin
<1>3. T # {}
  <2>1. Of({}) = {}
    OBVIOUS
  <2> QED
    BY <2>1, FS_EmptySet
<1>4. PICK x \in T : TRUE
  BY <1>3
<1>5. IsFiniteSet(Of(T \ {x}))
  <2>1. <<T \ {x}, T>> \in StrictSubsetOrdering(Recipient)
    BY <1>4 DEF StrictSubsetOrdering
  <2> QED
    BY <1>2, <2>1
<1>6. IsFiniteSet(Of({x}))
  <2> DEFINE f == [b \in Batch |-> <<c, b, x>>]
  <2>1. f \in Surjection(Batch, Of({x}))
    <3>1. f \in [Batch -> Of({x})]
      OBVIOUS
    <3>2. ASSUME NEW t \in Of({x}) PROVE t[2] \in Batch /\ f[t[2]] = t
      OBVIOUS
    <3> QED
      BY <3>1, <3>2 DEF Surjection
  <2>2. IsFiniteSet(Batch)
    BY CampaignAssumption, FS_Interval DEF Batch
  <2> QED
    BY <2>1, <2>2, FS_Surjection
<1>7. Of(T) = Of(T \ {x}) \cup Of({x})
  BY <1>4
<1>8. IsFiniteSet(Of(T \ {x}) \cup Of({x}))
  BY <1>5, <1>6, FS_Union
<1> QED
  BY <1>7, <1>8

LEMMA FiniteJobsIn ==
    ASSUME NEW c, NEW states
    PROVE  /\ IsFiniteSet(JobsIn(c, states))
           /\ Cardinality(JobsIn(c, states)) \in Nat
BY FiniteJobs, FS_Subset, FS_CardinalityType DEF JobsIn

LEMMA FiniteJobsInNext ==
    ASSUME NEW c, NEW states
    PROVE  /\ IsFiniteSet(JobsIn(c, states)')
           /\ Cardinality(JobsIn(c, states)') \in Nat
BY FiniteJobs, FS_Subset, FS_CardinalityType DEF JobsIn

\* A set that gains at most one element grows by at most one.
LEMMA GainsOne ==
    ASSUME NEW S, IsFiniteSet(S), NEW T, NEW x, T \subseteq S \cup {x}
    PROVE  Cardinality(T) <= Cardinality(S) + 1
<1>1. /\ IsFiniteSet(S \cup {x})
      /\ Cardinality(S \cup {x}) <= Cardinality(S) + 1
  <2>1. /\ IsFiniteSet(S \cup {x})
        /\ Cardinality(S \cup {x}) = IF x \in S THEN Cardinality(S) ELSE Cardinality(S) + 1
    BY FS_AddElement
  <2>2. Cardinality(S) \in Nat
    BY FS_CardinalityType
  <2> QED
    BY <2>1, <2>2
<1>2. Cardinality(T) <= Cardinality(S \cup {x})
  BY <1>1, FS_Subset
<1> QED
  BY <1>1, <1>2, FS_CardinalityType, FS_Subset

\* What one campaign's counters cover.
Covered(c) == Cardinality(JobsIn(c, Counted)) <= sent[c] + failed[c]

\* Nothing new is counted and the counters stand: still covered.
LEMMA StillCovered ==
    ASSUME TypeOK, NEW c \in Campaign, Covered(c),
           JobsIn(c, Counted)' \subseteq JobsIn(c, Counted),
           sent'[c] = sent[c], failed'[c] = failed[c]
    PROVE  Covered(c)'
<1>1. Cardinality(JobsIn(c, Counted)') <= Cardinality(JobsIn(c, Counted))
  BY FiniteJobsIn, FS_Subset
<1> QED
  BY <1>1, FiniteJobsIn, FiniteJobsInNext DEF Covered, TypeOK

\* One job more is counted, and so is its outcome.
LEMMA OneMoreCovered ==
    ASSUME TypeOK, NEW c \in Campaign, Covered(c), NEW j,
           JobsIn(c, Counted)' \subseteq JobsIn(c, Counted) \cup {j},
           sent'[c] + failed'[c] = sent[c] + failed[c] + 1
    PROVE  Covered(c)'
<1>1. Cardinality(JobsIn(c, Counted)') <= Cardinality(JobsIn(c, Counted)) + 1
  BY FiniteJobsIn, GainsOne
<1> QED
  BY <1>1, FiniteJobsIn, FiniteJobsInNext DEF Covered, TypeOK

\* No recipient whose job ran to its end is missing from the counters, however
\* many workers, launches, crashes and failing calls there are.
THEOREM CountersCoverJobs == Spec => []FinishedJobsCounted
<1> DEFINE Inv == \A c \in Campaign : Covered(c)
<1>1. Init => Inv
  <2> SUFFICES ASSUME Init, NEW c \in Campaign PROVE Covered(c)
    OBVIOUS
  <2>1. JobsIn(c, Counted) = {}
    BY DEF Init, JobsIn, JobsOf, Job, Counted
  <2> QED
    BY <2>1, FS_EmptySet DEF Init, Covered
<1>2. TypeOK /\ Inv /\ [Next]_vars => Inv'
  <2> SUFFICES ASSUME TypeOK, Inv, [Next]_vars, NEW c \in Campaign
               PROVE  Covered(c)'
    OBVIOUS
  <2> USE DEF rows, queue
  <2>0. \A j \in Job : j \in JobsOf(c) <=> j[1] = c
    BY DEF Job, JobsOf
  <2>00. JobsOf(c) \subseteq Job
    BY DEF Job, JobsOf
  <2>1. ASSUME UNCHANGED <<sent, failed>>,
               \A j \in Job : job'[j] \in Counted => job[j] \in Counted
        PROVE  Covered(c)'
    <3>1. JobsIn(c, Counted)' \subseteq JobsIn(c, Counted)
      BY <2>1, <2>00 DEF JobsIn
    <3> QED
      BY <2>1, <3>1, StillCovered
  <2>2. ASSUME NEW j \in Job, NEW next \in {"check", "done"},
               job' = [job EXCEPT ![j] = next],
               \/ sent' = [sent EXCEPT ![j[1]] = @ + 1] /\ UNCHANGED failed
               \/ failed' = [failed EXCEPT ![j[1]] = @ + 1] /\ UNCHANGED sent
        PROVE  Covered(c)'
    <3>1. CASE j[1] = c
      <4>1. JobsIn(c, Counted)' \subseteq JobsIn(c, Counted) \cup {j}
        BY <2>2, <2>00 DEF JobsIn, TypeOK
      <4>2. sent'[c] + failed'[c] = sent[c] + failed[c] + 1
        BY <2>2, <3>1 DEF TypeOK
      <4> QED
        BY <4>1, <4>2, OneMoreCovered
    <3>2. CASE j[1] # c
      <4>1. JobsIn(c, Counted)' \subseteq JobsIn(c, Counted)
        BY <2>2, <2>0, <2>00, <3>2 DEF JobsIn, TypeOK
      <4>2. sent'[c] = sent[c] /\ failed'[c] = failed[c]
        BY <2>2, <3>2 DEF TypeOK
      <4> QED
        BY <4>1, <4>2, StillCovered
    <3> QED
      BY <3>1, <3>2
  <2>3. CASE \E d \in Campaign : Create(d)
    BY <2>1, <2>3 DEF Create
  <2>4. CASE \E r \in Request : \E d \in Campaign : Read(r, d)
    BY <2>1, <2>4 DEF Read, ReadUpdate, ReadDelete, ReadLaunch, ReadSchedule,
                      ReadPause, ReadResume, ReadCancel, Begin
  <2>5. CASE \E r \in Request : Write(r)
    <3>1. PICK r \in Request : Write(r)
      BY <2>5
    <3>2. CASE Enqueue(r)
      BY <2>1, <3>2 DEF Enqueue, Counted
    <3>3. CASE ~Enqueue(r)
      BY <2>1, <3>1, <3>3
         DEF Write, RowGone, WriteUpdate, WriteDelete, WriteSchedule, WriteStatus,
             WriteLaunch, WritePause, WriteResume, WriteCancel,
             PauseQueue, ResumeQueue, SetQueue
    <3> QED
      BY <3>2, <3>3
  <2>6. CASE \E j \in Job : Take(j) \/ Work(j) \/ Throw(j) \/ StalledCheck(j)
    <3>1. PICK j \in Job : Take(j) \/ Work(j) \/ Throw(j) \/ StalledCheck(j)
      BY <2>6
    <3>2. CASE \/ Take(j) \/ CheckScope(j) \/ Admit(j) \/ Send(j) \/ Post(j)
               \/ Throw(j) \/ StalledCheck(j)
      BY <2>1, <3>2 DEF TypeOK, Counted, Step, Take, CheckScope, Admit, Send, Post, Throw,
                        StalledCheck
    <3>3. CASE CheckComplete(j) \/ Complete(j)
      BY <2>1, <3>3 DEF TypeOK, Counted, Step, CheckComplete, Complete
    <3>4. CASE Count(j)
      <4>1. CASE Exists(j[1])
        BY <2>2, <3>4, <4>1 DEF Count, Step
      <4>2. CASE ~Exists(j[1])
        BY <2>1, <3>4, <4>2 DEF TypeOK, Counted, Count, Step
      <4> QED
        BY <4>1, <4>2
    <3>5. CASE Catch(j)
      <4>1. CASE job'[j] = "done"
        BY <2>2, <3>5, <4>1 DEF Catch, Step, TypeOK
      <4>2. CASE job'[j] # "done"
        BY <2>1, <3>5, <4>2 DEF TypeOK, Counted, Catch, Step
      <4> QED
        BY <4>1, <4>2
    <3> QED
      BY <3>1, <3>2, <3>3, <3>4, <3>5 DEF Work
  <2>7. CASE Crash
    BY <2>1, <2>7 DEF Crash, Counted, Running
  <2>8. CASE UNCHANGED vars
    BY <2>1, <2>8 DEF vars
  <2> QED
    BY <2>3, <2>4, <2>5, <2>6, <2>7, <2>8 DEF Next
<1>3. Inv => FinishedJobsCounted
  BY DEF Covered, FinishedJobsCounted
<1> QED
  <2> HIDE DEF Inv
  <2> QED
    BY <1>1, <1>2, <1>3, TypeCorrect, PTL DEF Spec

-----------------------------------------------------------------------------
(***************************************************************************)
(* Sends of a job.  The bound alone is not inductive: a job that has been  *)
(* accepted must not be sent again, and an addBulk must not put a job back *)
(* that is in the queue already.  The second is what fresh batch ids give. *)
(***************************************************************************)
Launching(r) == req[r].at \in {"launch.write", "launch.enqueue"}
Untouched(c, b) == \A k \in Recipient : job[<<c, b, k>>] = "none"

\* The batch of a launch under way is its own, and has no jobs yet.
BatchesFresh ==
    /\ \A c \in Campaign, b \in Batch : b > launches[c] => Untouched(c, b)
    /\ \A r \in Request : Launching(r) =>
          /\ req[r].n \in 1..launches[req[r].c]
          /\ Untouched(req[r].c, req[r].n)
    /\ \A r, q \in Request :
          (Launching(r) /\ Launching(q) /\ req[r].c = req[q].c /\ req[r].n = req[q].n)
             => r = q

\* A job that has yet to be sent has been accepted one time less.
Unsent == {"none", "waiting", "scope", "admit", "send", "post"}
AcceptedBound(j) ==
    /\ job[j] = "none" => accepted[j] = 0
    /\ accepted[j] <= (IF j \in stalledOnce THEN 2 ELSE 1)
    /\ job[j] \in Unsent => accepted[j] <= (IF j \in stalledOnce THEN 1 ELSE 0)

LEMMA FreshInit == Init => BatchesFresh
BY DEF Init, BatchesFresh, Launching, Untouched, Idle, Batch, Job

\* Jobs move only by Enqueue and by steps from a state that is not "none".
LEMMA JobsKeepFresh ==
    ASSUME TypeOK, BatchesFresh, UNCHANGED <<launches, req>>,
           \A j \in Job : job[j] = "none" => job'[j] = "none"
    PROVE  BatchesFresh'
<1>1. ASSUME NEW c \in Campaign, NEW b \in Batch, Untouched(c, b)
      PROVE  Untouched(c, b)'
  BY <1>1 DEF Untouched, Job
<1>2. ASSUME NEW r \in Request, Launching(r)
      PROVE  req[r].c \in Campaign /\ (req[r].n \in 1..launches[req[r].c] => req[r].n \in Batch)
  <2>1. req[r].c \in Campaign
    BY <1>2, PendingFields DEF Launching, Pending, TypeOK
  <2>2. launches[req[r].c] \in 0..MaxBatch
    BY <2>1 DEF TypeOK
  <2> QED
    BY <2>1, <2>2, CampaignAssumption DEF Batch
<1> QED
  BY <1>1, <1>2 DEF BatchesFresh, Launching, Untouched

LEMMA FreshPreserved ==
    ASSUME TypeOK, BatchesFresh, [Next]_vars
    PROVE  BatchesFresh'
<1> USE DEF TypeOK, rows, queue
<1>0. ASSUME NEW r \in Request, Launching(r)
      PROVE  /\ req[r].c \in Campaign
             /\ req[r].n \in Batch
             /\ req[r].n <= launches[req[r].c]
  <2>1. req[r].c \in Campaign
    BY <1>0, PendingFields DEF Launching, Pending
  <2>2. launches[req[r].c] \in 0..MaxBatch /\ req[r].n \in 1..launches[req[r].c]
    BY <1>0, <2>1 DEF BatchesFresh
  <2> QED
    BY <2>1, <2>2, CampaignAssumption DEF Batch
<1>1. ASSUME UNCHANGED <<job, launches>>, NEW r \in Request,
             \A q \in Request \ {r} : req'[q] = req[q],
             ~Launching(r)' \/ (/\ Launching(r) /\ req'[r].c = req[r].c
                                /\ req'[r].n = req[r].n)
      PROVE  BatchesFresh'
  BY <1>1 DEF BatchesFresh, Launching, Untouched
<1>2. CASE \E c \in Campaign : Create(c)
  BY <1>2 DEF Create, BatchesFresh, Launching, Untouched
<1>3. CASE \E r \in Request : \E c \in Campaign : Read(r, c)
  <2>1. PICK r \in Request, c \in Campaign : Read(r, c)
    BY <1>3
  <2>2. CASE ReadLaunch(r, c)
    <3>1. PICK aud \in SUBSET Recipient :
              req' = [req EXCEPT ![r] = [at |-> "launch.write", c |-> c, aud |-> aud,
                                         n |-> launches[c] + 1]]
      BY <2>2 DEF ReadLaunch, Begin
    <3>2. /\ launches' = [launches EXCEPT ![c] = launches[c] + 1]
          /\ launches[c] + 1 \in Batch /\ launches[c] \in Nat
          /\ UNCHANGED job /\ ~Launching(r)
      BY <2>2, CampaignAssumption DEF ReadLaunch, Begin, Batch, Launching, Idle
    <3>3. Untouched(c, launches[c] + 1)
      BY <3>2 DEF BatchesFresh
    <3>4. ASSUME NEW d \in Campaign, NEW b \in Batch, b > launches'[d]
          PROVE  Untouched(d, b)'
      <4>1. launches'[d] >= launches[d] /\ launches[d] \in Nat /\ launches'[d] \in Nat
        BY <3>2, CampaignAssumption
      <4>2. b > launches[d]
        BY <3>4, <4>1 DEF Batch
      <4> QED
        BY <3>2, <4>2 DEF BatchesFresh, Untouched
    <3>5. ASSUME NEW q \in Request, Launching(q)'
          PROVE  /\ (req[q].n \in 1..launches[req[q].c])'
                 /\ Untouched(req[q].c, req[q].n)'
      <4>1. CASE q = r
        <5>1. req'[q].n = launches[c] + 1 /\ req'[q].c = c /\ launches'[c] = launches[c] + 1
          BY <3>1, <3>2, <4>1
        <5> QED
          BY <3>2, <3>3, <5>1 DEF Untouched
      <4>2. CASE q # r
        <5>1. req'[q] = req[q] /\ Launching(q)
          BY <3>1, <3>5, <4>2 DEF Launching
        <5>2. req[q].c \in Campaign /\ req[q].n \in Batch /\ req[q].n <= launches[req[q].c]
          BY <1>0, <5>1
        <5>3. /\ launches'[req[q].c] \in Nat /\ launches[req[q].c] \in Nat
              /\ launches'[req[q].c] >= launches[req[q].c]
          BY <3>2, <5>2, CampaignAssumption
        <5>4. Untouched(req[q].c, req[q].n)
          BY <5>1 DEF BatchesFresh
        <5> QED
          BY <3>2, <5>1, <5>2, <5>3, <5>4 DEF Untouched, Batch
      <4> QED
        BY <4>1, <4>2
    <3>6. ASSUME NEW p \in Request, NEW q \in Request, Launching(p)', Launching(q)',
                 (req[p].c = req[q].c)', (req[p].n = req[q].n)'
          PROVE  p = q
      <4>1. ASSUME NEW x \in Request, x # r, Launching(x)'
            PROVE  /\ req'[x] = req[x] /\ Launching(x)
                   /\ ~(req[x].c = c /\ req[x].n = launches[c] + 1)
        <5>1. req'[x] = req[x] /\ Launching(x)
          BY <3>1, <4>1 DEF Launching
        <5> QED
          BY <1>0, <3>2, <5>1 DEF Batch
      <4>2. req'[r].c = c /\ req'[r].n = launches[c] + 1
        BY <3>1
      <4> QED
        BY <3>6, <4>1, <4>2 DEF BatchesFresh
    <3> QED
      BY <3>4, <3>5, <3>6 DEF BatchesFresh
  <2>3. CASE ~ReadLaunch(r, c)
    <3>1. UNCHANGED <<job, launches>>
      BY <2>1, <2>3 DEF Read, ReadUpdate, ReadDelete, ReadSchedule, ReadPause,
                        ReadResume, ReadCancel, Begin
    <3>2. \A q \in Request \ {r} : req'[q] = req[q]
      BY <2>1, <2>3 DEF Read, ReadUpdate, ReadDelete, ReadSchedule, ReadPause,
                        ReadResume, ReadCancel, Begin
    <3>3. ~Launching(r)'
      BY <2>1, <2>3 DEF Launching, Read, ReadUpdate, ReadDelete, ReadSchedule,
                        ReadPause, ReadResume, ReadCancel, Begin
    <3> QED
      BY <1>1, <3>1, <3>2, <3>3
  <2> QED
    BY <2>2, <2>3
<1>4. CASE \E r \in Request : Write(r)
  <2>1. PICK r \in Request : Write(r)
    BY <1>4
  <2>2. \A q \in Request \ {r} : req'[q] = req[q]
    BY <2>1 DEF Write, RowGone, WriteUpdate, WriteDelete, WriteSchedule, WriteStatus,
                WriteLaunch, WritePause, WriteResume, WriteCancel, Enqueue,
                PauseQueue, ResumeQueue, SetQueue, Finish, GoTo
  <2>3. CASE Enqueue(r)
    <3>1. ~Launching(r)' /\ UNCHANGED launches
      BY <2>3 DEF Enqueue, Finish, Launching, Idle
    <3>2. Launching(r)
      BY <2>3 DEF Enqueue, Launching
    <3>3. ASSUME NEW c \in Campaign, NEW b \in Batch, Untouched(c, b),
                 ~(c = req[r].c /\ b = req[r].n)
          PROVE  Untouched(c, b)'
      BY <2>3, <3>3 DEF Enqueue, Untouched, Job
    <3>4. ASSUME NEW c \in Campaign, NEW b \in Batch, b > launches'[c]
          PROVE  Untouched(c, b)'
      <4>1. ~(c = req[r].c /\ b = req[r].n)
        BY <1>0, <3>1, <3>2, <3>4 DEF Batch
      <4> QED
        BY <3>1, <3>3, <3>4, <4>1 DEF BatchesFresh
    <3>5. ASSUME NEW q \in Request, Launching(q)'
          PROVE  /\ q # r /\ req'[q] = req[q] /\ Launching(q)
                 /\ req[q].n \in 1..launches[req[q].c]
                 /\ Untouched(req[q].c, req[q].n)'
      <4>1. q # r /\ req'[q] = req[q] /\ Launching(q)
        BY <2>2, <3>1, <3>5 DEF Launching
      <4>2. ~(req[q].c = req[r].c /\ req[q].n = req[r].n)
        BY <3>2, <4>1 DEF BatchesFresh
      <4>3. Untouched(req[q].c, req[q].n) /\ req[q].n \in 1..launches[req[q].c]
        BY <4>1 DEF BatchesFresh
      <4> QED
        BY <1>0, <3>3, <4>1, <4>2, <4>3
    <3>6. \A q \in Request : Launching(q)' =>
              /\ (req[q].n \in 1..launches[req[q].c])'
              /\ Untouched(req[q].c, req[q].n)'
      BY <3>1, <3>5 DEF Untouched
    <3>7. \A p, q \in Request :
             (Launching(p) /\ Launching(q) /\ req[p].c = req[q].c /\ req[p].n = req[q].n)'
                => p = q
      BY <3>5 DEF BatchesFresh
    <3> QED
      BY <3>4, <3>6, <3>7 DEF BatchesFresh
  <2>4. CASE WriteLaunch(r)
    <3>1. UNCHANGED <<job, launches>> /\ Launching(r)
      BY <2>4 DEF WriteLaunch, Launching
    <3>2. req'[r].c = req[r].c /\ req'[r].n = req[r].n
      <4>1. req[r] \in [at : Pending, c : Campaign, aud : SUBSET Recipient, n : Nat]
        BY <2>4, PendingFields DEF WriteLaunch, Pending
      <4> QED
        BY <2>4, <4>1 DEF WriteLaunch, GoTo
    <3> QED
      BY <1>1, <2>2, <3>1, <3>2
  <2>5. CASE ~Enqueue(r) /\ ~WriteLaunch(r)
    <3>1. UNCHANGED <<job, launches>>
      BY <2>1, <2>5 DEF Write, RowGone, WriteUpdate, WriteDelete, WriteSchedule,
             WriteStatus, WritePause, WriteResume, WriteCancel, PauseQueue, ResumeQueue,
             SetQueue
    <3>2. ~Launching(r)'
      <4>1. CASE Finish(r)
        BY <4>1 DEF Finish, Launching, Idle
      <4>2. CASE ~Finish(r)
        <5>1. \/ GoTo(r, "pause.write") /\ req[r].at = "pause.queue"
              \/ GoTo(r, "resume.write") /\ req[r].at = "resume.queue"
          BY <2>1, <2>5, <4>2 DEF Write, RowGone, WriteUpdate, WriteDelete, WriteSchedule,
             WriteStatus, WritePause, WriteResume, WriteCancel, PauseQueue, ResumeQueue,
             SetQueue
        <5>2. req[r] \in [at : Pending, c : Campaign, aud : SUBSET Recipient, n : Nat]
          BY <5>1, PendingFields DEF Pending
        <5> QED
          BY <5>1, <5>2 DEF GoTo, Launching
      <4> QED
        BY <4>1, <4>2
    <3> QED
      BY <1>1, <2>2, <3>1, <3>2
  <2> QED
    BY <2>3, <2>4, <2>5
<1>5. CASE \E j \in Job : Take(j) \/ Work(j) \/ Throw(j) \/ StalledCheck(j)
  <2>1. UNCHANGED <<launches, req>>
    BY <1>5 DEF Take, Work, CheckScope, Admit, Send, Post, Count, CheckComplete, Complete,
                Catch, Throw, StalledCheck
  <2>2. \A j \in Job : job[j] = "none" => job'[j] = "none"
    BY <1>5 DEF Take, Work, CheckScope, Admit, Send, Post, Count, CheckComplete, Complete,
                Catch, Throw, StalledCheck, Step
  <2> QED
    BY <2>1, <2>2, JobsKeepFresh
<1>6. CASE Crash
  <2>1. \A r \in Request : ~Launching(r)'
    BY <1>6 DEF Crash, Launching, Idle
  <2>2. \A j \in Job : job[j] = "none" => job'[j] = "none"
    BY <1>6 DEF Crash, Running
  <2>3. \A c \in Campaign, b \in Batch : Untouched(c, b) => Untouched(c, b)'
    BY <2>2 DEF Untouched, Job
  <2>4. UNCHANGED launches
    BY <1>6 DEF Crash
  <2> QED
    BY <2>1, <2>3, <2>4 DEF BatchesFresh
<1>7. CASE UNCHANGED vars
  BY <1>7 DEF vars, BatchesFresh, Launching, Untouched
<1> QED
  BY <1>2, <1>3, <1>4, <1>5, <1>6, <1>7 DEF Next

\* attempts: 1 means what it says: the Graph API accepts the message of a job
\* at most once, and at most twice when BullMQ ran it again after a crash.
THEOREM AcceptedAtMostOncePerRun == Spec => []AcceptedOncePerRun
<1> DEFINE Inv == \A j \in Job : AcceptedBound(j)
<1>1. Init => Inv
  BY DEF Init, AcceptedBound
<1>2. TypeOK /\ BatchesFresh /\ Inv /\ [Next]_vars => Inv'
  <2> SUFFICES ASSUME TypeOK, BatchesFresh, Inv, [Next]_vars, NEW j \in Job
               PROVE  AcceptedBound(j)'
    OBVIOUS
  <2> USE DEF rows, queue
  <2>0. accepted[j] \in Nat /\ AcceptedBound(j)
    BY DEF TypeOK
  <2>1. ASSUME accepted'[j] = accepted[j],
               job[j] = "none" \/ job'[j] # "none",
               (j \in stalledOnce)' \/ j \notin stalledOnce,
               \/ job'[j] \in Unsent => job[j] \in Unsent
               \/ j \notin stalledOnce /\ (j \in stalledOnce)'
        PROVE  AcceptedBound(j)'
    BY <2>0, <2>1 DEF AcceptedBound
  <2>2. CASE UNCHANGED <<job, stalledOnce, accepted>>
    BY <2>1, <2>2
  <2>3. CASE \E r \in Request : Enqueue(r)
    <3>1. PICK r \in Request : Enqueue(r)
      BY <2>3
    <3>2. ASSUME job'[j] # job[j] PROVE job[j] = "none"
      <4>1. /\ Launching(r) /\ j[1] = req[r].c /\ j[2] = req[r].n /\ j[3] \in req[r].aud
        BY <3>1, <3>2 DEF Enqueue, Launching
      <4>2. j = <<j[1], j[2], j[3]>> /\ j[3] \in Recipient
        BY DEF Job
      <4> QED
        BY <4>1, <4>2 DEF BatchesFresh, Untouched
    <3> QED
      BY <2>1, <3>1, <3>2 DEF Enqueue, Unsent
  <2>4. CASE \E i \in Job : Take(i) \/ Work(i) \/ Throw(i) \/ StalledCheck(i)
    <3>1. PICK i \in Job : Take(i) \/ Work(i) \/ Throw(i) \/ StalledCheck(i)
      BY <2>4
    <3>2. CASE StalledCheck(i)
      <4>1. CASE i = j
        BY <2>1, <3>2, <4>1 DEF StalledCheck, Step, TypeOK, Unsent
      <4>2. CASE i # j
        BY <2>1, <3>2, <4>2 DEF StalledCheck, Step, TypeOK
      <4> QED
        BY <4>1, <4>2
    <3>3. CASE Post(i)
      <4>1. CASE i = j
        BY <2>0, <3>3, <4>1 DEF Post, Step, TypeOK, AcceptedBound, Unsent
      <4>2. CASE i # j
        BY <2>1, <3>3, <4>2 DEF Post, Step, TypeOK
      <4> QED
        BY <4>1, <4>2
    <3>4. CASE Take(i) \/ CheckScope(i) \/ Admit(i) \/ Send(i)
      BY <2>1, <3>4 DEF Take, CheckScope, Admit, Send, Step, TypeOK, Unsent
    <3>5. CASE Count(i) \/ CheckComplete(i) \/ Complete(i) \/ Catch(i) \/ Throw(i)
      BY <2>1, <3>5 DEF Count, CheckComplete, Complete, Catch, Throw, Step, TypeOK, Unsent
    <3> QED
      BY <3>1, <3>2, <3>3, <3>4, <3>5 DEF Work
  <2>5. CASE Crash
    BY <2>1, <2>5 DEF Crash, Unsent, Running
  <2>6. CASE \E c \in Campaign : Create(c)
    BY <2>2, <2>6 DEF Create
  <2>7. CASE \E r \in Request : \E c \in Campaign : Read(r, c)
    BY <2>2, <2>7 DEF Read, ReadUpdate, ReadDelete, ReadLaunch, ReadSchedule,
                      ReadPause, ReadResume, ReadCancel, Begin
  <2>8. CASE \E r \in Request : Write(r) /\ ~Enqueue(r)
    BY <2>2, <2>8
       DEF Write, RowGone, WriteUpdate, WriteDelete, WriteSchedule, WriteStatus,
           WriteLaunch, WritePause, WriteResume, WriteCancel,
           PauseQueue, ResumeQueue, SetQueue
  <2>9. CASE UNCHANGED vars
    BY <2>2, <2>9 DEF vars
  <2> QED
    BY <2>3, <2>4, <2>5, <2>6, <2>7, <2>8, <2>9 DEF Next
<1>3. Inv => AcceptedOncePerRun
  BY DEF AcceptedBound, AcceptedOncePerRun
<1> QED
  <2> HIDE DEF Inv
  <2> QED
    BY <1>1, <1>2, <1>3, FreshInit, FreshPreserved, TypeCorrect, PTL DEF Spec

-----------------------------------------------------------------------------
(***************************************************************************)
(* One launch.  When requests do not overlap, nothing comes between the    *)
(* check of the status and the write of RUNNING, and a campaign that has   *)
(* jobs never looks launchable again.                                      *)
(***************************************************************************)
OneAtATime == \A r, q \in Request : r = q

Unlaunched == {"ABSENT", "DRAFT", "SCHEDULED"}
NoJobs(c) == \A b \in Batch, k \in Recipient : job[<<c, b, k>>] = "none"
OneBatch(c) ==
    \A k \in Recipient : \A a, b \in Batch :
        (job[<<c, a, k>>] # "none" /\ job[<<c, b, k>>] # "none") => a = b

\* Requests that found the campaign not launched yet, and will write it.
Early == {"launch.write", "schedule.write", "update.write"}

OneLaunch ==
    /\ \A c \in Campaign : status[c] \in Unlaunched => NoJobs(c)
    /\ \A r \in Request : req[r].at \in Early => status[req[r].c] \in Unlaunched
    /\ \A r \in Request : req[r].at = "launch.enqueue" =>
          status[req[r].c] = "RUNNING" /\ NoJobs(req[r].c)
    /\ \A c \in Campaign : OneBatch(c)

\* Jobs are only moved on, and by a worker no campaign is launched or unlaunched.
LEMMA WorkersKeepOneLaunch ==
    ASSUME TypeOK, OneLaunch,
           \A j \in Job : job'[j] = "none" <=> job[j] = "none",
           \A c \in Campaign : \/ status'[c] = status[c]
                               \/ status[c] = "ABSENT" /\ status'[c] \in Unlaunched
                               \/ status'[c] \notin Unlaunched /\ ~NoJobs(c),
           \A r \in Request : req'[r] = req[r] \/ req'[r] = Idle
    PROVE  OneLaunch'
<1>1. \A c \in Campaign : (NoJobs(c)' <=> NoJobs(c)) /\ (OneBatch(c) => OneBatch(c)')
  BY DEF NoJobs, OneBatch, Job
<1>2. \A c \in Campaign : status'[c] \in Unlaunched => NoJobs(c)'
  BY <1>1 DEF OneLaunch, Unlaunched
<1>3. ASSUME NEW r \in Request, req'[r].at \in Early \cup {"launch.enqueue"}
      PROVE  req'[r] = req[r] /\ req[r].c \in Campaign
  BY <1>3, PendingFields DEF Early, Idle, Pending, TypeOK
<1>4. \A r \in Request : req'[r].at \in Early => status'[req'[r].c] \in Unlaunched
  BY <1>3 DEF OneLaunch, Unlaunched
<1>5. \A r \in Request : req'[r].at = "launch.enqueue" =>
         status'[req'[r].c] = "RUNNING" /\ NoJobs(req[r].c)' /\ req'[r].c = req[r].c
  BY <1>1, <1>3 DEF OneLaunch, Unlaunched
<1>6. \A r \in Request : NoJobs(req[r].c)' /\ req'[r].c = req[r].c => NoJobs(req[r].c)'
  OBVIOUS
<1> QED
  BY <1>1, <1>2, <1>4, <1>5 DEF OneLaunch, NoJobs

\* So are they by a request that neither launches nor adds jobs.
LEMMA RequestKeepsOneLaunch ==
    ASSUME TypeOK, OneLaunch, OneAtATime, NEW r \in Request,
           req'[r].at \notin Early \cup {"launch.enqueue"}, UNCHANGED job,
           \A c \in Campaign : status'[c] \in Unlaunched => status[c] \in Unlaunched
    PROVE  OneLaunch'
<1>1. \A q \in Request : req'[q].at \notin Early \cup {"launch.enqueue"}
  BY DEF OneAtATime
<1> QED
  BY <1>1 DEF OneLaunch, NoJobs, OneBatch

\* A request starts at its first call; the early ones found what they need.
LEMMA ReadBegins ==
    ASSUME NEW r \in Request, NEW c \in Campaign, Read(r, c)
    PROVE  \E op, at, aud, n : /\ Begin(r, op, at, c, aud, n)
                               /\ at # "launch.enqueue"
                               /\ at \in Early => status[c] \in Unlaunched
<1>1. CASE ReadUpdate(r, c)
  BY <1>1 DEF ReadUpdate, Unlaunched
<1>2. CASE ReadLaunch(r, c)
  BY <1>2 DEF ReadLaunch, Unlaunched
<1>3. CASE ReadSchedule(r, c)
  BY <1>3 DEF ReadSchedule, Unlaunched
<1>4. CASE ReadDelete(r, c) \/ ReadPause(r, c) \/ ReadResume(r, c) \/ ReadCancel(r, c)
  BY <1>4 DEF ReadDelete, ReadPause, ReadResume, ReadCancel, Early
<1> QED
  BY <1>1, <1>2, <1>3, <1>4 DEF Read

LEMMA ReadKeepsOneLaunch ==
    ASSUME TypeOK, OneLaunch, OneAtATime, NEW r \in Request, NEW c \in Campaign, Read(r, c)
    PROVE  OneLaunch'
<1> USE DEF rows, queue
<1>1. PICK op, at, aud, n : /\ Begin(r, op, at, c, aud, n)
                            /\ at # "launch.enqueue"
                            /\ at \in Early => status[c] \in Unlaunched
  BY ReadBegins
<1>2. req'[r].at = at /\ req'[r].c = c /\ UNCHANGED <<status, job>>
  BY <1>1 DEF Begin, TypeOK
<1>3. \A q \in Request : q = r
  BY DEF OneAtATime
<1> QED
  BY <1>1, <1>2, <1>3 DEF OneLaunch, NoJobs, OneBatch

LEMMA WriteKeepsOneLaunch ==
    ASSUME TypeOK, OneLaunch, OneAtATime, NEW r \in Request, Write(r)
    PROVE  OneLaunch'
<1> USE DEF rows, queue
<1>0. Idle.at \notin Early \cup {"launch.enqueue"}
  BY DEF Idle, Early
<1>1. CASE RowGone(r) \/ WriteUpdate(r)
  <2>1. UNCHANGED <<status, job>> /\ req'[r] = Idle
    BY <1>1 DEF RowGone, WriteUpdate, Finish, TypeOK
  <2> QED
    BY <1>0, <2>1, RequestKeepsOneLaunch
<1>2. ASSUME NEW at \in Pending, NEW s, WriteStatus(r, at, s),
             s \in Unlaunched => at = "schedule.write"
      PROVE  OneLaunch'
  <2>1. UNCHANGED job /\ req'[r] = Idle
    BY <1>2 DEF WriteStatus, Finish, TypeOK
  <2>2. \A c \in Campaign : status'[c] \in Unlaunched => status[c] \in Unlaunched
    BY <1>2 DEF WriteStatus, TypeOK, OneLaunch, Early
  <2> QED
    BY <1>0, <2>1, <2>2, RequestKeepsOneLaunch
<1>3. CASE WriteDelete(r) \/ WriteSchedule(r) \/ WritePause(r) \/ WriteResume(r) \/ WriteCancel(r)
  BY <1>2, <1>3 DEF WriteDelete, WriteSchedule, WritePause, WriteResume, WriteCancel,
                    Pending, Unlaunched
<1>4. CASE PauseQueue(r) \/ ResumeQueue(r)
  <2>1. PICK at \in {"pause.queue", "resume.queue"},
             next \in {"pause.write", "resume.write"}, paused \in BOOLEAN : SetQueue(r, at, paused, next)
    BY <1>4 DEF PauseQueue, ResumeQueue
  <2>2. req[r] \in [at : Pending, c : Campaign, aud : SUBSET Recipient, n : Nat]
    BY <2>1, PendingFields DEF SetQueue, Pending, TypeOK
  <2>3. req'[r].at = next /\ UNCHANGED <<status, job>>
    BY <2>1, <2>2 DEF SetQueue, GoTo, TypeOK
  <2>4. req'[r].at \notin Early \cup {"launch.enqueue"}
    BY <2>1, <2>3 DEF Early
  <2> QED
    BY <2>3, <2>4, RequestKeepsOneLaunch
<1>5. CASE WriteLaunch(r)
  <2>1. req[r] \in [at : Pending, c : Campaign, aud : SUBSET Recipient, n : Nat]
    BY <1>5, PendingFields DEF WriteLaunch, Pending, TypeOK
  <2> DEFINE d == req[r].c
  <2>2. /\ status' = [status EXCEPT ![d] = "RUNNING"] /\ UNCHANGED job
        /\ req'[r].at = "launch.enqueue" /\ req'[r].c = d /\ d \in Campaign
    BY <1>5, <2>1 DEF WriteLaunch, GoTo, TypeOK
  <2>3. NoJobs(d)
    BY <1>5, <2>2 DEF WriteLaunch, OneLaunch, Early
  <2>4. \A q \in Request : q = r
    BY DEF OneAtATime
  <2> QED
    BY <2>2, <2>3, <2>4 DEF OneLaunch, NoJobs, OneBatch, TypeOK, Unlaunched, Early
<1>6. CASE Enqueue(r)
  <2>1. req[r].c \in Campaign /\ req[r].aud \in SUBSET Recipient
    BY <1>6, PendingFields DEF Enqueue, Pending, TypeOK
  <2>0. PICK d \in Campaign : d = req[r].c
    BY <2>1
  <2>2. UNCHANGED status /\ req'[r] = Idle /\ status[d] = "RUNNING" /\ NoJobs(d)
    BY <1>6, <2>0 DEF Enqueue, Finish, OneLaunch, TypeOK
  <2>3. \A c \in Campaign, b \in Batch, k \in Recipient :
           job'[<<c, b, k>>] = IF c = d /\ b = req[r].n /\ k \in req[r].aud
                               THEN "waiting" ELSE job[<<c, b, k>>]
    BY <1>6, <2>0 DEF Enqueue, Job
  <2>4. ASSUME NEW k \in Recipient, NEW a \in Batch, NEW b \in Batch,
               job'[<<d, a, k>>] # "none", job'[<<d, b, k>>] # "none"
        PROVE  a = b
    <3>1. job[<<d, a, k>>] = "none" /\ job[<<d, b, k>>] = "none"
      BY <2>2 DEF NoJobs
    <3> QED
      BY <2>1, <2>3, <2>4, <3>1
  <2>5. OneBatch(d)'
    BY <2>4 DEF OneBatch
  <2>6. \A c \in Campaign \ {d} : (NoJobs(c)' <=> NoJobs(c)) /\ (OneBatch(c)' <=> OneBatch(c))
    BY <2>3 DEF NoJobs, OneBatch
  <2>7. \A q \in Request : req'[q].at \notin Early \cup {"launch.enqueue"}
    BY <1>0, <2>2 DEF OneAtATime
  <2>8. \A c \in Campaign : OneBatch(c)'
    BY <2>5, <2>6 DEF OneLaunch
  <2>9. \A c \in Campaign : status'[c] \in Unlaunched => NoJobs(c)'
    BY <2>2, <2>6 DEF OneLaunch, Unlaunched
  <2> QED
    BY <2>7, <2>8, <2>9 DEF OneLaunch
<1> QED
  BY <1>1, <1>3, <1>4, <1>5, <1>6 DEF Write

LEMMA NextKeepsOneLaunch ==
    ASSUME TypeOK, OneLaunch, OneAtATime, [Next]_vars
    PROVE  OneLaunch'
<1> USE DEF rows, queue
<1>1. CASE \E c \in Campaign : Create(c)
  <2>1. PICK d \in Campaign : Create(d)
    BY <1>1
  <2>2. UNCHANGED <<job, req>>
    BY <2>1 DEF Create
  <2>3. status[d] = "ABSENT" /\ status'[d] = "DRAFT"
    BY <2>1 DEF Create, TypeOK
  <2>4. \A c \in Campaign \ {d} : status'[c] = status[c]
    BY <2>1 DEF Create, TypeOK
  <2> QED
    BY <2>2, <2>3, <2>4, WorkersKeepOneLaunch DEF Unlaunched
<1>2. CASE \E r \in Request : Write(r) \/ \E c \in Campaign : Read(r, c)
  BY <1>2, WriteKeepsOneLaunch, ReadKeepsOneLaunch
<1>3. CASE \E j \in Job : Take(j) \/ Work(j) \/ Throw(j) \/ StalledCheck(j)
  <2>1. PICK j \in Job : Take(j) \/ Work(j) \/ Throw(j) \/ StalledCheck(j)
    BY <1>3
  <2>2. UNCHANGED req /\ \A i \in Job : job'[i] = "none" <=> job[i] = "none"
    BY <2>1 DEF Take, Work, CheckScope, Admit, Send, Post, Count, CheckComplete, Complete,
                Catch, Throw, StalledCheck, Step, TypeOK
  <2>3. CASE ~Complete(j)
    <3>1. UNCHANGED status
      BY <2>1, <2>3 DEF Take, Work, CheckScope, Admit, Send, Post, Count, CheckComplete,
                        Catch, Throw, StalledCheck
    <3> QED
      BY <2>2, <3>1, WorkersKeepOneLaunch
  <2>4. CASE Complete(j)
    <3>1. ~NoJobs(j[1]) /\ j[1] \in Campaign
      <4>1. j = <<j[1], j[2], j[3]>> /\ j[1] \in Campaign /\ j[2] \in Batch /\ j[3] \in Recipient
        BY DEF Job
      <4> QED
        BY <2>4, <4>1 DEF Complete, Step, NoJobs
    <3>2. \A c \in Campaign \ {j[1]} : status'[c] = status[c]
      BY <2>4 DEF Complete, TypeOK
    <3>3. status'[j[1]] = status[j[1]] \/ status'[j[1]] = "COMPLETED"
      BY <2>4, <3>1 DEF Complete, TypeOK
    <3> QED
      BY <2>2, <3>1, <3>2, <3>3, WorkersKeepOneLaunch DEF Unlaunched
  <2> QED
    BY <2>3, <2>4
<1>4. CASE Crash
  <2>1. /\ \A i \in Job : job'[i] = "none" <=> job[i] = "none"
        /\ UNCHANGED status /\ \A r \in Request : req'[r] = Idle
    BY <1>4 DEF Crash, Running
  <2> QED
    BY <2>1, WorkersKeepOneLaunch
<1>5. CASE UNCHANGED vars
  BY <1>5, WorkersKeepOneLaunch DEF vars
<1> QED
  BY <1>1, <1>2, <1>3, <1>4, <1>5 DEF Next

LEMMA InitOneLaunch == Init => OneLaunch
BY DEF Init, OneLaunch, NoJobs, OneBatch, Job, Idle, Early

\* With requests one at a time, a recipient has one job of a campaign at most,
\* whatever crashes between the writes of a launch.
THEOREM RecipientsQueuedOnce ==
    ASSUME OneAtATime
    PROVE  Spec => []QueuedOncePerRecipient
<1>1. OneLaunch => QueuedOncePerRecipient
  <2> SUFFICES ASSUME OneLaunch, NEW c \in Campaign, NEW k \in Recipient
               PROVE  Cardinality({b \in Batch : job[<<c, b, k>>] # "none"}) <= 1
    BY DEF QueuedOncePerRecipient
  <2> DEFINE B == {b \in Batch : job[<<c, b, k>>] # "none"}
  <2>1. \A a, b \in B : a = b
    BY DEF OneLaunch, OneBatch
  <2> HIDE DEF B
  <2>2. CASE B = {}
    <3>1. Cardinality(B) = 0
      BY <2>2, FS_EmptySet
    <3> QED
      BY <3>1 DEF B
  <2>3. CASE B # {}
    <3>1. PICK b : B = {b}
      BY <2>1, <2>3
    <3>2. Cardinality(B) = 1
      BY <3>1, FS_Singleton
    <3> QED
      BY <3>2 DEF B
  <2> QED
    BY <2>2, <2>3
<1> QED
  BY <1>1, InitOneLaunch, NextKeepsOneLaunch, TypeCorrect, PTL DEF Spec

-----------------------------------------------------------------------------
(***************************************************************************)
(* Completion.  Once the jobs are queued totalRecipients is their number,  *)
(* and the counters never run ahead of the jobs that were counted, so that *)
(* the counters reach the total only when every job has been counted.      *)
(***************************************************************************)
Queued == JobState \ {"none"}

TotalsMatch ==
    /\ \A r \in Request : req[r].at = "launch.enqueue" =>
          total[req[r].c] = Cardinality(req[r].aud)
    /\ \A c \in Campaign : Cardinality(JobsIn(c, Queued)) <= total[c]

\* A campaign without jobs has no more of them than recipients.
LEMMA NoJobsMatch ==
    ASSUME NEW c \in Campaign, NoJobs(c)', total'[c] \in Nat
    PROVE  (Cardinality(JobsIn(c, Queued)) <= total[c])'
<1>1. JobsIn(c, Queued)' = {}
  BY DEF JobsIn, JobsOf, NoJobs, Queued
<1>2. Cardinality(JobsIn(c, Queued)') = 0
  BY <1>1, FS_EmptySet
<1> QED
  BY <1>2

\* Nor has one whose jobs and total stay as they are.
LEMMA SameMatch ==
    ASSUME TypeOK, NEW c \in Campaign, Cardinality(JobsIn(c, Queued)) <= total[c],
           total'[c] = total[c], JobsIn(c, Queued)' \subseteq JobsIn(c, Queued)
    PROVE  (Cardinality(JobsIn(c, Queued)) <= total[c])'
<1>1. Cardinality(JobsIn(c, Queued)') <= Cardinality(JobsIn(c, Queued))
  BY FiniteJobsIn, FS_Subset
<1> QED
  BY <1>1, FiniteJobsIn, FiniteJobsInNext DEF TypeOK

LEMMA NextTotals ==
    ASSUME TypeOK, TypeOK', OneLaunch, OneAtATime, TotalsMatch, [Next]_vars
    PROVE  TotalsMatch'
<1> USE DEF rows, queue
<1>0. \A c \in Campaign : JobsOf(c) \subseteq Job
  BY DEF JobsOf, Job
<1>1. ASSUME UNCHANGED total,
             \A j \in Job : job'[j] \in Queued => job[j] \in Queued,
             \A q \in Request : req'[q].at = "launch.enqueue" => req'[q] = req[q]
      PROVE  TotalsMatch'
  <2>1. \A c \in Campaign : JobsIn(c, Queued)' \subseteq JobsIn(c, Queued)
    BY <1>0, <1>1 DEF JobsIn
  <2>2. \A c \in Campaign : (Cardinality(JobsIn(c, Queued)) <= total[c])'
    BY <1>1, <2>1, SameMatch DEF TotalsMatch
  <2>3. \A q \in Request : req'[q].at = "launch.enqueue" =>
           total'[req'[q].c] = Cardinality(req'[q].aud)
    BY <1>1 DEF TotalsMatch
  <2> QED
    BY <2>2, <2>3 DEF TotalsMatch
<1>2. ASSUME NEW d \in Campaign, NoJobs(d), UNCHANGED job,
             \A c \in Campaign \ {d} : total'[c] = total[c],
             \A q \in Request : req'[q].at = "launch.enqueue" =>
                total'[req'[q].c] = Cardinality(req'[q].aud)
      PROVE  TotalsMatch'
  <2>1. (Cardinality(JobsIn(d, Queued)) <= total[d])'
    BY <1>2, NoJobsMatch DEF NoJobs, TypeOK
  <2>2. \A c \in Campaign : JobsIn(c, Queued)' \subseteq JobsIn(c, Queued)
    BY <1>2 DEF JobsIn
  <2>3. \A c \in Campaign \ {d} : (Cardinality(JobsIn(c, Queued)) <= total[c])'
    BY <1>2, <2>2, SameMatch DEF TotalsMatch
  <2> QED
    BY <1>2, <2>1, <2>3 DEF TotalsMatch
<1>3. CASE \E c \in Campaign : Create(c)
  <2>1. PICK d \in Campaign : Create(d)
    BY <1>3
  <2>2. /\ NoJobs(d) /\ UNCHANGED <<job, req>>
        /\ status[d] = "ABSENT" /\ \A c \in Campaign \ {d} : total'[c] = total[c]
    BY <2>1 DEF Create, OneLaunch, Unlaunched, TypeOK
  <2>3. \A q \in Request : req'[q].at = "launch.enqueue" =>
           total'[req'[q].c] = Cardinality(req'[q].aud)
    <3> SUFFICES ASSUME NEW q \in Request, req'[q].at = "launch.enqueue"
                 PROVE  total'[req'[q].c] = Cardinality(req'[q].aud)
      OBVIOUS
    <3>1. req'[q] = req[q] /\ req[q].at \in Pending
      BY <2>2 DEF Pending
    <3>2. req[q].c \in Campaign /\ status[req[q].c] = "RUNNING"
      BY <2>2, <3>1, PendingFields DEF OneLaunch, TypeOK
    <3> QED
      BY <2>2, <3>1, <3>2 DEF TotalsMatch
  <2> QED
    BY <1>2, <2>2, <2>3
<1>4. CASE \E r \in Request : \E c \in Campaign : Read(r, c)
  <2>1. PICK r \in Request, c \in Campaign : Read(r, c)
    BY <1>4
  <2>2. PICK op, at, aud, n : Begin(r, op, at, c, aud, n) /\ at # "launch.enqueue"
    BY <2>1, ReadBegins
  <2>3. UNCHANGED <<total, job>> /\ req'[r].at # "launch.enqueue"
    BY <2>2 DEF Begin, TypeOK
  <2>4. \A q \in Request : q = r
    BY DEF OneAtATime
  <2> QED
    BY <1>1, <2>3, <2>4
<1>5. CASE \E r \in Request : Write(r)
  <2>1. PICK r \in Request : Write(r)
    BY <1>5
  <2>2. \A q \in Request : q = r
    BY DEF OneAtATime
  <2>3. CASE WriteUpdate(r)
    <3>1. PICK d \in Campaign : d = req[r].c
      BY <2>3, PendingFields DEF WriteUpdate, Pending, TypeOK
    <3>2. NoJobs(d)
      BY <2>3, <3>1 DEF WriteUpdate, OneLaunch, Early
    <3>3. UNCHANGED job /\ req'[r] = Idle /\ \A c \in Campaign \ {d} : total'[c] = total[c]
      BY <2>3, <3>1 DEF WriteUpdate, Finish, TypeOK
    <3> QED
      BY <1>2, <2>2, <3>2, <3>3 DEF Idle
  <2>4. CASE WriteLaunch(r)
    <3>1. req[r] \in [at : Pending, c : Campaign, aud : SUBSET Recipient, n : Nat]
      BY <2>4, PendingFields DEF WriteLaunch, Pending, TypeOK
    <3>2. PICK d \in Campaign : d = req[r].c
      BY <3>1
    <3>3. NoJobs(d)
      BY <2>4, <3>2 DEF WriteLaunch, OneLaunch, Early
    <3>4. /\ UNCHANGED job
          /\ total' = [total EXCEPT ![d] = Cardinality(req[r].aud)]
          /\ req'[r].c = d /\ req'[r].aud = req[r].aud
      BY <2>4, <3>1, <3>2 DEF WriteLaunch, GoTo, TypeOK
    <3>5. total'[req'[r].c] = Cardinality(req'[r].aud)
      BY <3>4 DEF TypeOK
    <3>6. \A c \in Campaign \ {d} : total'[c] = total[c]
      BY <3>4 DEF TypeOK
    <3> QED
      BY <1>2, <2>2, <3>3, <3>4, <3>5, <3>6
  <2>5. CASE Enqueue(r)
    <3>1. req[r].c \in Campaign /\ req[r].aud \in SUBSET Recipient
      BY <2>5, PendingFields DEF Enqueue, Pending, TypeOK
    <3> DEFINE n == req[r].n
    <3>2. PICK d \in Campaign, aud \in SUBSET Recipient : d = req[r].c /\ aud = req[r].aud
      BY <3>1
    <3>3. /\ UNCHANGED total /\ req'[r] = Idle
          /\ NoJobs(d) /\ total[d] = Cardinality(aud)
      BY <2>5, <3>2 DEF Enqueue, Finish, OneLaunch, TotalsMatch, TypeOK
    <3>4. \A j \in Job : job'[j] = IF j[1] = d /\ j[2] = n /\ j[3] \in aud
                                   THEN "waiting" ELSE job[j]
      BY <2>5, <3>2 DEF Enqueue
    <3>5. Cardinality(JobsIn(d, Queued)') <= Cardinality(aud)
      <4> DEFINE f == [k \in aud |-> <<d, n, k>>]
                 New == {<<d, n, k>> : k \in aud}
      <4>1. JobsIn(d, Queued)' \subseteq New
        <5> SUFFICES ASSUME NEW b \in Batch, NEW k \in Recipient,
                            job'[<<d, b, k>>] \in Queued
                     PROVE  <<d, b, k>> \in New
          BY DEF JobsIn, JobsOf
        <5>1. job[<<d, b, k>>] = "none" /\ <<d, b, k>> \in Job
          BY <3>3 DEF NoJobs, Job
        <5>2. b = n /\ k \in aud
          BY <3>4, <5>1 DEF Queued
        <5> QED
          BY <5>2
      <4>2. f \in Surjection(aud, New)
        BY DEF Surjection
      <4>3. IsFiniteSet(aud)
        BY CampaignAssumption, FS_Subset
      <4>4. IsFiniteSet(New) /\ Cardinality(New) <= Cardinality(aud)
        BY <4>2, <4>3, FS_Surjection
      <4>5. Cardinality(JobsIn(d, Queued)') <= Cardinality(New)
        BY <4>1, <4>4, FS_Subset
      <4> HIDE DEF New, f
      <4> QED
        BY <4>3, <4>4, <4>5, FS_CardinalityType, FiniteJobsInNext
    <3>6. ASSUME NEW c \in Campaign \ {d}
          PROVE  JobsIn(c, Queued)' \subseteq JobsIn(c, Queued)
      <4>1. \A j \in JobsOf(c) : j \in Job /\ j[1] # d
        BY DEF JobsOf, Job
      <4> QED
        BY <3>4, <4>1 DEF JobsIn
    <3>7. \A c \in Campaign : (Cardinality(JobsIn(c, Queued)) <= total[c])'
      BY <3>3, <3>5, <3>6, SameMatch DEF TotalsMatch
    <3> QED
      BY <2>2, <3>3, <3>7 DEF TotalsMatch, Idle
  <2>6. CASE ~WriteUpdate(r) /\ ~WriteLaunch(r) /\ ~Enqueue(r)
    <3>1. UNCHANGED <<total, job>>
      BY <2>1, <2>6 DEF Write, RowGone, WriteDelete, WriteSchedule, WriteStatus, WritePause,
             WriteResume, WriteCancel, PauseQueue, ResumeQueue, SetQueue
    <3>2. req'[r].at # "launch.enqueue"
      <4>1. CASE Finish(r)
        BY <4>1 DEF Finish, Idle, TypeOK
      <4>2. CASE ~Finish(r)
        <5>1. \/ GoTo(r, "pause.write") /\ req[r].at = "pause.queue"
              \/ GoTo(r, "resume.write") /\ req[r].at = "resume.queue"
          BY <2>1, <2>6, <4>2 DEF Write, RowGone, WriteDelete, WriteSchedule, WriteStatus,
             WritePause, WriteResume, WriteCancel, PauseQueue, ResumeQueue, SetQueue
        <5>2. req[r] \in [at : Pending, c : Campaign, aud : SUBSET Recipient, n : Nat]
          BY <5>1, PendingFields DEF Pending, TypeOK
        <5> QED
          BY <5>1, <5>2 DEF GoTo, TypeOK
      <4> QED
        BY <4>1, <4>2
    <3> QED
      BY <1>1, <2>2, <3>1, <3>2
  <2> QED
    BY <2>3, <2>4, <2>5, <2>6
<1>6. CASE \E j \in Job : Take(j) \/ Work(j) \/ Throw(j) \/ StalledCheck(j)
  <2>1. UNCHANGED <<total, req>>
    BY <1>6 DEF Take, Work, CheckScope, Admit, Send, Post, Count, CheckComplete, Complete,
                Catch, Throw, StalledCheck
  <2>2. \A j \in Job : job'[j] \in Queued => job[j] \in Queued
    BY <1>6 DEF Take, Work, CheckScope, Admit, Send, Post, Count, CheckComplete, Complete,
                Catch, Throw, StalledCheck, Step, TypeOK, Queued
  <2> QED
    BY <1>1, <2>1, <2>2
<1>7. CASE Crash
  <2>1. UNCHANGED total /\ \A q \in Request : req'[q].at # "launch.enqueue"
    BY <1>7 DEF Crash, Idle
  <2>2. \A j \in Job : job'[j] \in Queued => job[j] \in Queued
    BY <1>7 DEF Crash, Running, Queued, JobState
  <2> QED
    BY <1>1, <2>1, <2>2
<1>8. CASE UNCHANGED vars
  BY <1>1, <1>8 DEF vars
<1> QED
  BY <1>3, <1>4, <1>5, <1>6, <1>7, <1>8 DEF Next

LEMMA InitTotals == Init => TotalsMatch
<1> SUFFICES ASSUME Init PROVE TotalsMatch
  OBVIOUS
<1>1. \A c \in Campaign : JobsIn(c, Queued) = {}
  BY DEF Init, JobsIn, JobsOf, Job, Queued
<1>2. \A c \in Campaign : Cardinality(JobsIn(c, Queued)) = 0
  BY <1>1, FS_EmptySet
<1>3. \A c \in Campaign : Cardinality(JobsIn(c, Queued)) <= total[c]
  BY <1>2 DEF Init
<1> QED
  BY <1>3 DEF Init, TotalsMatch, Idle

Calm == faults = 0 /\ crashes = 0

\* A worker is about to write COMPLETED, or has.
Finishing(c) == status[c] = "COMPLETED" \/ \E j \in JobsOf(c) : job[j] = "finish"

Settled(c) ==
    (Calm /\ status[c] # "DELETED") =>
        /\ sent[c] + failed[c] <= Cardinality(JobsIn(c, Counted))
        /\ Finishing(c) => JobsIn(c, Uncounted) = {}

\* The counters stand, and what is settled stays so.
LEMMA SameSettled ==
    ASSUME NEW c \in Campaign, Settled(c), Calm, status[c] # "DELETED",
           sent'[c] = sent[c], failed'[c] = failed[c],
           \A j \in JobsOf(c) : job'[j] \in Counted <=> job[j] \in Counted,
           Finishing(c)' => /\ Finishing(c)
                            /\ \A j \in JobsOf(c) : job'[j] \in Uncounted => job[j] \in Uncounted
    PROVE  Settled(c)'
<1>1. JobsIn(c, Counted)' = JobsIn(c, Counted)
  BY DEF JobsIn
<1>2. Finishing(c)' => JobsIn(c, Uncounted)' \subseteq JobsIn(c, Uncounted)
  BY DEF JobsIn
<1> QED
  BY <1>1, <1>2 DEF Settled

\* One job more is counted, by one of the counters.
LEMMA OneMoreSettled ==
    ASSUME TypeOK, NEW c \in Campaign, Settled(c), Calm, status[c] # "DELETED",
           NEW j \in JobsOf(c), NEW next \in {"check", "done"},
           job[j] \in Uncounted, job' = [job EXCEPT ![j] = next],
           sent'[c] + failed'[c] = sent[c] + failed[c] + 1, status' = status
    PROVE  Settled(c)'
<1>1. j \in Job /\ JobsOf(c) \subseteq Job
  BY DEF JobsOf, Job
<1>2. JobsIn(c, Counted)' = JobsIn(c, Counted) \cup {j} /\ j \notin JobsIn(c, Counted)
  BY <1>1 DEF JobsIn, Counted, Uncounted, TypeOK
<1>3. Cardinality(JobsIn(c, Counted)') = Cardinality(JobsIn(c, Counted)) + 1
  BY <1>2, FiniteJobsIn, FS_AddElement
<1>4. Finishing(c)' => Finishing(c)
  BY <1>1 DEF Finishing, TypeOK
<1>5. ~Finishing(c)
  BY <1>1 DEF Settled, JobsIn
<1> QED
  BY <1>3, <1>4, <1>5, FiniteJobsIn DEF Settled, TypeOK

\* The completion check passes only when every job has been counted.
LEMMA AllCountedSettles ==
    ASSUME TypeOK, OneLaunch, TotalsMatch, NEW c \in Campaign, Settled(c), Calm,
           status[c] # "DELETED", AllCounted(c)
    PROVE  JobsIn(c, Uncounted) = {}
<1>1. Cardinality(JobsIn(c, Queued)) <= Cardinality(JobsIn(c, Counted))
  BY FiniteJobsIn DEF TotalsMatch, Settled, AllCounted, TypeOK
<1>2. JobsIn(c, Counted) \subseteq JobsIn(c, Queued)
  BY DEF JobsIn, Counted, Queued, JobState, Running, Ended
<1>3. Cardinality(JobsIn(c, Counted)) = Cardinality(JobsIn(c, Queued))
  BY <1>1, <1>2, FiniteJobsIn, FS_Subset
<1>4. JobsIn(c, Counted) = JobsIn(c, Queued)
  BY <1>2, <1>3, FiniteJobsIn, FS_Subset
<1> QED
  BY <1>4 DEF JobsIn, Queued, Uncounted

LEMMA NextSettled ==
    ASSUME TypeOK, OneLaunch, TotalsMatch, \A c \in Campaign : Settled(c), [Next]_vars,
           NEW c \in Campaign
    PROVE  Settled(c)'
<1> USE DEF rows, queue
<1> SUFFICES ASSUME Calm', status'[c] # "DELETED" PROVE Settled(c)'
  BY DEF Settled
<1>0. Settled(c) /\ JobsOf(c) \subseteq Job /\ \A j \in Job : j \in JobsOf(c) <=> j[1] = c
  BY DEF JobsOf, Job
<1>1. CASE \E d \in Campaign : Create(d)
  <2>1. Calm /\ UNCHANGED <<sent, failed, job>>
    BY <1>1 DEF Create, Calm
  <2>2. status[c] # "DELETED" /\ (status'[c] = "COMPLETED" => status[c] = "COMPLETED")
    BY <1>1 DEF Create, TypeOK
  <2> QED
    BY <1>0, <2>1, <2>2, SameSettled DEF Finishing
<1>2. CASE \E r \in Request : \E d \in Campaign : Read(r, d)
  <2>1. Calm /\ UNCHANGED <<sent, failed, job, status>>
    BY <1>2, ReadBegins DEF Begin, Calm
  <2> QED
    BY <1>0, <2>1, SameSettled DEF Finishing
<1>3. CASE \E r \in Request : Write(r)
  <2>1. PICK r \in Request : Write(r)
    BY <1>3
  <2>2. CASE Enqueue(r)
    <3>1. Calm /\ UNCHANGED <<sent, failed, status>>
      BY <2>2 DEF Enqueue, Calm
    <3>2. \A j \in Job : \/ job'[j] = job[j]
                         \/ job[j] = "none" /\ job'[j] = "waiting" /\ j[1] = req[r].c
      <4> SUFFICES ASSUME NEW j \in Job, job'[j] # job[j]
                   PROVE  job[j] = "none" /\ job'[j] = "waiting" /\ j[1] = req[r].c
        OBVIOUS
      <4>1. j = <<j[1], j[2], j[3]>> /\ j[2] \in Batch /\ j[3] \in Recipient
        BY DEF Job
      <4>2. job'[j] = "waiting" /\ j[1] = req[r].c
        BY <2>2 DEF Enqueue
      <4> QED
        BY <2>2, <4>1, <4>2 DEF Enqueue, OneLaunch, NoJobs
    <3>3. CASE c # req[r].c
      <4>1. \A j \in JobsOf(c) : job'[j] = job[j]
        BY <1>0, <3>2, <3>3
      <4> QED
        BY <1>0, <3>1, <4>1, SameSettled DEF Finishing
    <3>4. CASE c = req[r].c
      <4>1. status[c] = "RUNNING" /\ \A j \in JobsOf(c) : job[j] = "none"
        <5>1. NoJobs(c) /\ status[c] = "RUNNING"
          BY <2>2, <3>4 DEF Enqueue, OneLaunch
        <5> QED
          BY <5>1 DEF NoJobs, JobsOf
      <4>2. ~Finishing(c)'
        BY <1>0, <3>1, <3>2, <4>1 DEF Finishing
      <4>3. \A j \in JobsOf(c) : job'[j] \in Counted <=> job[j] \in Counted
        BY <1>0, <3>2 DEF Counted
      <4> QED
        BY <1>0, <3>1, <4>2, <4>3, SameSettled
    <3> QED
      BY <3>3, <3>4
  <2>3. CASE ~Enqueue(r)
    <3>1. Calm /\ UNCHANGED <<sent, failed, job>>
      BY <2>1, <2>3 DEF Write, RowGone, WriteUpdate, WriteDelete, WriteSchedule,
             WriteStatus, WriteLaunch, WritePause, WriteResume, WriteCancel,
             PauseQueue, ResumeQueue, SetQueue, Calm
    <3>2. status'[c] = status[c] \/ (status[c] \in CampaignStatus /\ status'[c] # "COMPLETED")
      BY <2>1, <2>3 DEF Write, RowGone, WriteUpdate, WriteDelete, WriteSchedule,
             WriteStatus, WriteLaunch, WritePause, WriteResume, WriteCancel,
             PauseQueue, ResumeQueue, SetQueue, Exists, TypeOK
    <3>3. status[c] # "DELETED" /\ (status'[c] = "COMPLETED" => status[c] = "COMPLETED")
      BY <3>2 DEF CampaignStatus
    <3> QED
      BY <1>0, <3>1, <3>3, SameSettled DEF Finishing
  <2> QED
    BY <2>2, <2>3
<1>4. CASE \E j \in Job : Take(j) \/ Work(j) \/ Throw(j) \/ StalledCheck(j)
  <2>1. PICK j \in Job : Take(j) \/ Work(j) \/ Throw(j) \/ StalledCheck(j)
    BY <1>4
  <2>2. ~Throw(j) /\ Calm
    BY <2>1 DEF Throw, Take, Work, CheckScope, Admit, Send, Post, Count, CheckComplete, Complete,
                Catch, StalledCheck, Calm, TypeOK
  <2>3. status[c] # "DELETED" /\ job[j] # "none"
    BY <2>1 DEF Throw, Take, Work, CheckScope, Admit, Send, Post, Count, CheckComplete, Complete,
                Catch, StalledCheck, Step, Exists, CampaignStatus, TypeOK
  \* Either the row is there, or it was deleted: a campaign with jobs was created.
  <2>4. Exists(j[1]) \/ j[1] # c
    <3>1. SUFFICES ASSUME j[1] = c PROVE Exists(c)
      OBVIOUS
    <3>2. ~NoJobs(c)
      <4>1. j = <<j[1], j[2], j[3]>> /\ j[2] \in Batch /\ j[3] \in Recipient
        BY DEF Job
      <4> QED
        BY <2>3, <3>1, <4>1 DEF NoJobs
    <3> QED
      BY <2>3, <3>2 DEF OneLaunch, Unlaunched, Exists, TypeOK
  <2>5. ASSUME NEW from, NEW to, Step(j, from, to), UNCHANGED <<status, sent, failed>>,
               from \in Uncounted /\ to \in Uncounted /\ to # "finish"
        PROVE  Settled(c)'
    <3>1. \A i \in Job : job'[i] = IF i = j THEN to ELSE job[i]
      BY <2>5 DEF Step, TypeOK
    <3>2. \A i \in JobsOf(c) : job'[i] \in Counted <=> job[i] \in Counted
      BY <1>0, <2>5, <3>1 DEF Step, Uncounted
    <3>3. Finishing(c)' => Finishing(c)
      BY <1>0, <2>5, <3>1 DEF Finishing
    <3>4. \A i \in JobsOf(c) : job'[i] \in Uncounted => job[i] \in Uncounted
      BY <1>0, <2>5, <3>1 DEF Step
    <3> QED
      BY <1>0, <2>2, <2>3, <2>5, <3>2, <3>3, <3>4, SameSettled
  <2>6. ASSUME j[1] # c, sent'[c] = sent[c], failed'[c] = failed[c], status'[c] = status[c],
               \A i \in Job \ {j} : job'[i] = job[i]
        PROVE  Settled(c)'
    <3>1. \A i \in JobsOf(c) : job'[i] = job[i]
      BY <1>0, <2>6
    <3> QED
      BY <1>0, <2>2, <2>3, <2>6, <3>1, SameSettled DEF Finishing
  <2>7. CASE Take(j) \/ CheckScope(j) \/ Admit(j) \/ Send(j) \/ Post(j) \/ StalledCheck(j)
    <3>1. PICK from, to : Step(j, from, to) /\ from \in Uncounted /\ to \in Uncounted
                          /\ to # "finish"
      BY <2>7 DEF Take, CheckScope, Admit, Send, Post, StalledCheck, Uncounted, Counted, JobState,
                  Running, Ended
    <3>2. UNCHANGED <<status, sent, failed>>
      BY <2>7 DEF Take, CheckScope, Admit, Send, Post, StalledCheck
    <3> QED
      BY <2>5, <3>1, <3>2
  <2>8. ASSUME j[1] # c, Count(j) \/ CheckComplete(j) \/ Complete(j) \/ Catch(j)
        PROVE  Settled(c)'
    <3>1. sent'[c] = sent[c] /\ failed'[c] = failed[c] /\ status'[c] = status[c]
      BY <2>8 DEF Count, CheckComplete, Complete, Catch, TypeOK
    <3>2. \A i \in Job \ {j} : job'[i] = job[i]
      BY <2>8 DEF Count, CheckComplete, Complete, Catch, Step, TypeOK
    <3> QED
      BY <2>6, <2>8, <3>1, <3>2
  <2>9. CASE j[1] = c /\ (Count(j) \/ Catch(j))
    <3>1. PICK from \in {"countSent", "countFailed", "catch"}, next \in {"check", "done"} :
             Step(j, from, next)
      BY <2>2, <2>4, <2>9 DEF Count, Catch, Calm, TypeOK
    <3>2. sent'[c] + failed'[c] = sent[c] + failed[c] + 1 /\ status' = status
      BY <2>2, <2>4, <2>9 DEF Count, Catch, Calm, TypeOK
    <3>3. job[j] \in Uncounted /\ job' = [job EXCEPT ![j] = next]
      BY <3>1 DEF Step, Uncounted, Counted, JobState, Running, Ended
    <3> QED
      BY <1>0, <2>2, <2>3, <2>9, <3>1, <3>2, <3>3, OneMoreSettled
  <2>10. CASE j[1] = c /\ CheckComplete(j)
    <3>1. /\ UNCHANGED <<status, sent, failed>>
          /\ \A i \in Job \ {j} : job'[i] = job[i]
          /\ job[j] = "check" /\ job'[j] \in {"finish", "done"}
          /\ job'[j] = "finish" => AllCounted(c)
      BY <2>10 DEF CheckComplete, Step, TypeOK
    <3>2. \A i \in JobsOf(c) : /\ job'[i] \in Counted <=> job[i] \in Counted
                               /\ job'[i] \in Uncounted => job[i] \in Uncounted
      BY <1>0, <3>1 DEF Counted, Uncounted
    <3>3. CASE job'[j] = "done"
      <4>1. Finishing(c)' => Finishing(c)
        BY <1>0, <3>1, <3>3 DEF Finishing
      <4> QED
        BY <1>0, <2>2, <2>3, <3>1, <3>2, <4>1, SameSettled
    <3>4. CASE job'[j] = "finish"
      <4>1. JobsIn(c, Uncounted) = {}
        BY <1>0, <2>2, <2>3, <3>1, <3>4, AllCountedSettles
      <4>2. JobsIn(c, Uncounted)' = {} /\ JobsIn(c, Counted)' = JobsIn(c, Counted)
        BY <3>2, <4>1 DEF JobsIn
      <4> QED
        BY <1>0, <2>2, <2>3, <3>1, <4>2 DEF Settled
    <3> QED
      BY <3>1, <3>3, <3>4
  <2>11. CASE j[1] = c /\ Complete(j)
    <3>1. /\ UNCHANGED <<sent, failed>>
          /\ \A i \in Job \ {j} : job'[i] = job[i]
          /\ job[j] = "finish" /\ job'[j] = "done"
      BY <2>4, <2>11 DEF Complete, Step, TypeOK
    <3>2. \A i \in JobsOf(c) : /\ job'[i] \in Counted <=> job[i] \in Counted
                               /\ job'[i] \in Uncounted => job[i] \in Uncounted
      BY <1>0, <3>1 DEF Counted, Uncounted
    <3>3. Finishing(c)
      BY <1>0, <2>11, <3>1 DEF Finishing
    <3> QED
      BY <1>0, <2>2, <2>3, <3>1, <3>2, <3>3, SameSettled
  <2> QED
    BY <2>1, <2>2, <2>7, <2>8, <2>9, <2>10, <2>11 DEF Work
<1>5. CASE Crash
  BY <1>5 DEF Crash, Calm, TypeOK
<1>6. CASE UNCHANGED vars
  BY <1>0, <1>6, SameSettled DEF vars, Finishing, Calm
<1> QED
  BY <1>1, <1>2, <1>3, <1>4, <1>5, <1>6 DEF Next

LEMMA InitSettled == Init => \A c \in Campaign : Settled(c)
<1> SUFFICES ASSUME Init, NEW c \in Campaign PROVE Settled(c)
  OBVIOUS
<1>1. JobsIn(c, Counted) = {} /\ JobsIn(c, Uncounted) = {}
  BY DEF Init, JobsIn, JobsOf, Job, Counted, Uncounted
<1> QED
  BY <1>1, FS_EmptySet DEF Init, Settled

\* With requests one at a time, and as long as nothing fails or crashes, a
\* campaign is COMPLETED only when every queued recipient has been counted,
\* however many workers there are and whatever is paused, resumed or cancelled.
THEOREM CompletionIsTruthful ==
    ASSUME OneAtATime
    PROVE  Spec => []CompletedMeansAll
<1> DEFINE AllSettled == \A c \in Campaign : Settled(c)
<1>1. AllSettled => CompletedMeansAll
  BY DEF Settled, Finishing, Calm, CompletedMeansAll
<1>2. Init => TypeOK /\ OneLaunch /\ TotalsMatch /\ AllSettled
  BY InitTypeOK, InitOneLaunch, InitTotals, InitSettled
<1>3. /\ TypeOK /\ OneLaunch /\ [Next]_vars => OneLaunch'
      /\ TypeOK /\ TypeOK' /\ OneLaunch /\ TotalsMatch /\ [Next]_vars => TotalsMatch'
      /\ TypeOK /\ OneLaunch /\ TotalsMatch /\ AllSettled /\ [Next]_vars => AllSettled'
  BY NextKeepsOneLaunch, NextTotals, NextSettled
<1> QED
  <2> HIDE DEF AllSettled
  <2> QED
    BY <1>1, <1>2, <1>3, TypeCorrect, PTL DEF Spec
-----------------------------------------------------------------------------
(***************************************************************************)
(* No double count.  A job leaves the counted ones only by a throw or by a *)
(* crash of a worker, and a crash takes no more of them than the worker    *)
(* runs at once.                                                           *)
(***************************************************************************)
SlotsHeld == IsFiniteSet(Active) /\ Cardinality(Active) <= Concurrency

LEMMA NextSlots ==
    ASSUME TypeOK, SlotsHeld, [Next]_vars
    PROVE  SlotsHeld'
<1> USE DEF rows, queue
<1>0. Cardinality(Active) \in Nat /\ Concurrency \in Nat
  BY FS_CardinalityType, CampaignAssumption DEF SlotsHeld
<1>1. ASSUME Active' \subseteq Active PROVE SlotsHeld'
  <2>1. IsFiniteSet(Active') /\ Cardinality(Active') <= Cardinality(Active)
    BY <1>1, FS_Subset DEF SlotsHeld
  <2>2. Cardinality(Active') \in Nat
    BY <2>1, FS_CardinalityType
  <2> QED
    BY <1>0, <2>1, <2>2 DEF SlotsHeld
<1>2. CASE \E c \in Campaign : Create(c)
  BY <1>1, <1>2 DEF Create, Active
<1>3. CASE \E r \in Request : \E c \in Campaign : Read(r, c)
  BY <1>1, <1>3, ReadBegins DEF Begin, Active
<1>4. CASE \E r \in Request : Write(r)
  <2>1. \A j \in Job : job'[j] \in Running => job[j] \in Running
    BY <1>4 DEF Write, RowGone, WriteUpdate, WriteDelete, WriteSchedule, WriteStatus,
           WriteLaunch, WritePause, WriteResume, WriteCancel, PauseQueue, ResumeQueue,
           SetQueue, Enqueue, Running
  <2> QED
    BY <1>1, <2>1 DEF Active
<1>5. CASE \E j \in Job : Take(j)
  <2>1. PICK j \in Job : Take(j)
    BY <1>5
  <2>2. Active' \subseteq Active \cup {j}
    BY <2>1 DEF Take, Step, Active, Running, TypeOK
  <2>3. Cardinality(Active) < Concurrency
    BY <2>1 DEF Take
  <2>4. IsFiniteSet(Active \cup {j})
    BY FS_AddElement DEF SlotsHeld
  <2>5. IsFiniteSet(Active')
    BY <2>2, <2>4, FS_Subset
  <2>6. Cardinality(Active') <= Cardinality(Active) + 1
    BY <2>2, GainsOne DEF SlotsHeld
  <2>7. Cardinality(Active') \in Nat
    BY <2>5, FS_CardinalityType
  <2> QED
    BY <1>0, <2>3, <2>5, <2>6, <2>7 DEF SlotsHeld
<1>6. CASE \E j \in Job : Work(j) \/ Throw(j) \/ StalledCheck(j)
  <2>1. \A i \in Job : job'[i] \in Running => job[i] \in Running
    BY <1>6 DEF Work, CheckScope, Admit, Send, Post, Count, CheckComplete, Complete, Catch,
                Throw, StalledCheck, Step, Running, TypeOK
  <2> QED
    BY <1>1, <2>1 DEF Active
<1>7. CASE Crash
  BY <1>1, <1>7 DEF Crash, Active, Running
<1>8. CASE UNCHANGED vars
  BY <1>1, <1>8 DEF vars, Active
<1> QED
  BY <1>2, <1>3, <1>4, <1>5, <1>6, <1>7, <1>8 DEF Next

\* What throws and crashes have taken from the counted jobs, at most.
Excused == faults + Concurrency * crashes

NotTwice(c) ==
    /\ status[c] = "ABSENT" => sent[c] = 0 /\ failed[c] = 0
    /\ Exists(c) => sent[c] + failed[c] <= Cardinality(JobsIn(c, Counted)) + Excused

LEMMA ExcusedTypes ==
    ASSUME TypeOK
    PROVE  /\ faults \in Nat /\ crashes \in Nat /\ Excused \in Nat
           /\ (Concurrency * crashes) \in Nat
<1>1. faults \in Nat /\ crashes \in Nat /\ Concurrency \in Nat
  BY CampaignAssumption DEF TypeOK
<1>2. (Concurrency * crashes) \in Nat
  BY <1>1
<1> QED
  BY <1>1, <1>2 DEF Excused

\* The counters stand and no counted job is lost.
LEMMA SameNotTwice ==
    ASSUME TypeOK, NEW c \in Campaign, NotTwice(c),
           sent'[c] = sent[c], failed'[c] = failed[c],
           Exists(c)' => Exists(c) \/ status[c] = "ABSENT",
           status'[c] = "ABSENT" => status[c] = "ABSENT",
           crashes' = crashes, faults' = faults,
           JobsIn(c, Counted) \subseteq JobsIn(c, Counted)'
    PROVE  NotTwice(c)'
<1>1. Cardinality(JobsIn(c, Counted)) <= Cardinality(JobsIn(c, Counted)')
  BY FiniteJobsInNext, FS_Subset
<1>2. Excused \in Nat /\ Excused' = Excused
  BY ExcusedTypes DEF Excused
<1>3. sent[c] \in Nat /\ failed[c] \in Nat
  BY DEF TypeOK
<1>4. CASE status[c] = "ABSENT"
  <2>1. sent'[c] + failed'[c] = 0
    BY <1>4 DEF NotTwice
  <2> QED
    BY <1>2, <1>4, <2>1, FiniteJobsInNext DEF NotTwice
<1>5. CASE status[c] # "ABSENT"
  BY <1>1, <1>2, <1>3, <1>5, FiniteJobsIn, FiniteJobsInNext DEF NotTwice
<1> QED
  BY <1>4, <1>5

\* One job more is counted, by one of the counters.
LEMMA OneMoreNotTwice ==
    ASSUME TypeOK, NEW c \in Campaign, NotTwice(c), NEW j \in JobsOf(c),
           j \notin JobsIn(c, Counted),
           JobsIn(c, Counted)' = JobsIn(c, Counted) \cup {j},
           sent'[c] + failed'[c] = sent[c] + failed[c] + 1,
           status' = status, Exists(c), crashes' = crashes, faults' = faults
    PROVE  NotTwice(c)'
<1>1. Cardinality(JobsIn(c, Counted)') = Cardinality(JobsIn(c, Counted)) + 1
  BY FiniteJobsIn, FS_AddElement
<1>2. Excused \in Nat /\ Excused' = Excused
  BY ExcusedTypes DEF Excused
<1>3. sent[c] \in Nat /\ failed[c] \in Nat
  BY DEF TypeOK
<1>4. status[c] # "ABSENT"
  BY DEF Exists, CampaignStatus
<1> QED
  BY <1>1, <1>2, <1>3, <1>4, FiniteJobsIn DEF NotTwice

\* A throw or a crash takes counted jobs, and is excused for as many.
LEMMA FewerNotTwice ==
    ASSUME TypeOK, NEW c \in Campaign, NotTwice(c), NEW n \in Nat,
           sent'[c] = sent[c], failed'[c] = failed[c], status' = status,
           Excused' = Excused + n,
           Cardinality(JobsIn(c, Counted)) <= Cardinality(JobsIn(c, Counted)') + n
    PROVE  NotTwice(c)'
<1>1. Excused \in Nat /\ sent[c] \in Nat /\ failed[c] \in Nat
  BY ExcusedTypes DEF TypeOK
<1> QED
  BY <1>1, FiniteJobsIn, FiniteJobsInNext DEF NotTwice, Exists

LEMMA NextNotTwice ==
    ASSUME TypeOK, BatchesFresh, SlotsHeld, [Next]_vars,
           NEW c \in Campaign, NotTwice(c)
    PROVE  NotTwice(c)'
<1> USE DEF rows, queue
<1>0. /\ JobsOf(c) \subseteq Job
      /\ \A j \in Job : j \in JobsOf(c) <=> j[1] = c
  BY DEF JobsOf, Job
<1>1. CASE \E d \in Campaign : Create(d)
  <2>1. /\ UNCHANGED <<sent, failed, job, crashes, faults>>
        /\ \/ status'[c] = status[c]
           \/ status[c] = "ABSENT" /\ status'[c] = "DRAFT"
    BY <1>1 DEF Create, TypeOK
  <2>2. JobsIn(c, Counted)' = JobsIn(c, Counted)
    BY <2>1 DEF JobsIn
  <2> QED
    BY <2>1, <2>2, SameNotTwice DEF Exists
<1>2. CASE \E r \in Request : \E d \in Campaign : Read(r, d)
  <2>1. UNCHANGED <<sent, failed, status, job, crashes, faults>>
    BY <1>2, ReadBegins DEF Begin
  <2>2. JobsIn(c, Counted)' = JobsIn(c, Counted)
    BY <2>1 DEF JobsIn
  <2> QED
    BY <2>1, <2>2, SameNotTwice DEF Exists
<1>3. CASE \E r \in Request : Write(r)
  <2>1. PICK r \in Request : Write(r)
    BY <1>3
  <2>2. CASE Enqueue(r)
    <3>1. UNCHANGED <<sent, failed, status, crashes, faults>>
      BY <2>2 DEF Enqueue
    <3>2. ASSUME NEW j \in Job, job'[j] # job[j] PROVE job[j] = "none"
      <4>1. Launching(r) /\ j[1] = req[r].c /\ j[2] = req[r].n
        BY <2>2, <3>2 DEF Enqueue, Launching
      <4>2. j = <<j[1], j[2], j[3]>> /\ j[3] \in Recipient
        BY DEF Job
      <4> QED
        BY <4>1, <4>2 DEF BatchesFresh, Untouched
    <3>3. JobsIn(c, Counted) \subseteq JobsIn(c, Counted)'
      BY <1>0, <3>2 DEF JobsIn, Counted
    <3> QED
      BY <3>1, <3>3, SameNotTwice DEF Exists
  <2>3. CASE ~Enqueue(r)
    <3>1. /\ UNCHANGED <<sent, failed, job, crashes, faults>>
          /\ \/ status'[c] = status[c]
             \/ Exists(c) /\ status'[c] # "ABSENT"
      BY <2>1, <2>3 DEF Write, RowGone, WriteUpdate, WriteDelete, WriteSchedule,
           WriteStatus, WriteLaunch, WritePause, WriteResume, WriteCancel,
           PauseQueue, ResumeQueue, SetQueue, TypeOK, Exists
    <3>2. JobsIn(c, Counted)' = JobsIn(c, Counted)
      BY <3>1 DEF JobsIn
    <3> QED
      BY <3>1, <3>2, SameNotTwice DEF Exists
  <2> QED
    BY <2>2, <2>3
<1>4. CASE \E j \in Job : Take(j) \/ Work(j) \/ Throw(j) \/ StalledCheck(j)
  <2>1. PICK j \in Job : Take(j) \/ Work(j) \/ Throw(j) \/ StalledCheck(j)
    BY <1>4
  <2>2. CASE Throw(j)
    <3>1. /\ UNCHANGED <<sent, failed, status, crashes>>
          /\ faults' = faults + 1
          /\ \A i \in Job \ {j} : job'[i] = job[i]
      BY <2>2 DEF Throw, TypeOK
    <3>2. JobsIn(c, Counted) \subseteq JobsIn(c, Counted)' \cup {j}
      BY <1>0, <3>1 DEF JobsIn
    <3>3. Cardinality(JobsIn(c, Counted)) <= Cardinality(JobsIn(c, Counted)') + 1
      BY <3>2, FiniteJobsInNext, GainsOne
    <3>4. Excused' = Excused + 1
      BY <3>1, ExcusedTypes DEF Excused
    <3> QED
      BY <3>1, <3>3, <3>4, FewerNotTwice
  <2>3. CASE Take(j) \/ CheckScope(j) \/ Admit(j) \/ Send(j) \/ Post(j) \/ StalledCheck(j)
             \/ CheckComplete(j)
    <3>1. UNCHANGED <<sent, failed, status, crashes, faults>>
      BY <2>3 DEF Take, CheckScope, Admit, Send, Post, StalledCheck, CheckComplete
    <3>2. \A i \in Job : job[i] \in Counted => job'[i] \in Counted
      BY <2>3 DEF Take, CheckScope, Admit, Send, Post, StalledCheck, CheckComplete, Step,
                  Counted, TypeOK
    <3>3. JobsIn(c, Counted) \subseteq JobsIn(c, Counted)'
      BY <1>0, <3>2 DEF JobsIn
    <3> QED
      BY <3>1, <3>3, SameNotTwice DEF Exists
  <2>4. ASSUME Count(j) \/ Catch(j), sent' = sent, failed' = failed
        PROVE  NotTwice(c)'
    <3>1. status' = status /\ crashes' = crashes /\ faults' \in {faults, faults + 1}
      BY <2>4 DEF Count, Catch
    <3>2. \A i \in Job : job[i] \in Counted => job'[i] \in Counted
      BY <2>4 DEF Count, Catch, Step, Counted, TypeOK
    <3>3. JobsIn(c, Counted) \subseteq JobsIn(c, Counted)'
      BY <1>0, <3>2 DEF JobsIn
    <3>4. CASE faults' = faults
      BY <2>4, <3>1, <3>3, <3>4, SameNotTwice DEF Exists
    <3>5. CASE faults' = faults + 1
      <4>1. Excused' = Excused + 1
        BY <3>1, <3>5, ExcusedTypes DEF Excused
      <4>2. Cardinality(JobsIn(c, Counted)) <= Cardinality(JobsIn(c, Counted)') + 1
        <5>1. Cardinality(JobsIn(c, Counted)) <= Cardinality(JobsIn(c, Counted)')
          BY <3>3, FiniteJobsInNext, FS_Subset
        <5> QED
          BY <5>1, FiniteJobsIn, FiniteJobsInNext
      <4> QED
        BY <2>4, <3>1, <4>1, <4>2, FewerNotTwice
    <3> QED
      BY <3>1, <3>4, <3>5
  <2>5. ASSUME NEW next \in Counted, job' = [job EXCEPT ![j] = next], job[j] \notin Counted,
               \/ sent' = [sent EXCEPT ![j[1]] = @ + 1] /\ UNCHANGED failed
               \/ failed' = [failed EXCEPT ![j[1]] = @ + 1] /\ UNCHANGED sent,
               UNCHANGED <<status, crashes, faults>>, Exists(j[1])
        PROVE  NotTwice(c)'
    <3>1. CASE j[1] = c
      <4>1. JobsIn(c, Counted)' = JobsIn(c, Counted) \cup {j} /\ j \notin JobsIn(c, Counted)
        BY <1>0, <2>5, <3>1 DEF JobsIn, TypeOK
      <4>2. sent'[c] + failed'[c] = sent[c] + failed[c] + 1
        BY <2>5, <3>1 DEF TypeOK
      <4> QED
        BY <1>0, <2>5, <3>1, <4>1, <4>2, OneMoreNotTwice
    <3>2. CASE j[1] # c
      <4>1. JobsIn(c, Counted)' = JobsIn(c, Counted)
        BY <1>0, <2>5, <3>2 DEF JobsIn, TypeOK
      <4>2. sent'[c] = sent[c] /\ failed'[c] = failed[c]
        BY <2>5, <3>2 DEF TypeOK
      <4> QED
        BY <2>5, <4>1, <4>2, SameNotTwice DEF Exists
    <3> QED
      BY <3>1, <3>2
  <2>6. CASE Count(j)
    <3>1. CASE Exists(j[1])
      <4>1. PICK from \in {"countSent", "countFailed"} : Step(j, from, "check")
        BY <2>6, <3>1 DEF Count
      <4>2. \/ sent' = [sent EXCEPT ![j[1]] = @ + 1] /\ UNCHANGED failed
            \/ failed' = [failed EXCEPT ![j[1]] = @ + 1] /\ UNCHANGED sent
        BY <2>6, <3>1 DEF Count
      <4>3. UNCHANGED <<status, crashes, faults>>
        BY <2>6 DEF Count
      <4>4. job' = [job EXCEPT ![j] = "check"] /\ job[j] \notin Counted /\ "check" \in Counted
        BY <4>1 DEF Step, Counted
      <4> QED
        BY <2>5, <3>1, <4>2, <4>3, <4>4
    <3>2. CASE ~Exists(j[1])
      BY <2>4, <2>6, <3>2 DEF Count
    <3> QED
      BY <3>1, <3>2
  <2>7. CASE Catch(j)
    <3>1. CASE failed' = failed
      BY <2>4, <2>7, <3>1 DEF Catch
    <3>2. CASE failed' # failed
      <4>1. /\ Exists(j[1]) /\ Step(j, "catch", "done") /\ UNCHANGED <<status, sent, crashes, faults>>
            /\ failed' = [failed EXCEPT ![j[1]] = @ + 1]
        BY <2>7, <3>2 DEF Catch
      <4>2. job' = [job EXCEPT ![j] = "done"] /\ job[j] \notin Counted /\ "done" \in Counted
        BY <4>1 DEF Step, Counted
      <4> QED
        BY <2>5, <4>1, <4>2
    <3> QED
      BY <3>1, <3>2
  <2>8. CASE Complete(j)
    <3>1. /\ UNCHANGED <<sent, failed, crashes, faults>>
          /\ \A i \in Job \ {j} : job'[i] = job[i]
      BY <2>8 DEF Complete, Step, TypeOK
    <3>2. CASE Exists(j[1])
      <4>1. /\ job'[j] \in Counted
            /\ \/ status'[c] = status[c]
               \/ Exists(c) /\ status'[c] = "COMPLETED"
        BY <2>8, <3>2 DEF Complete, Step, Counted, TypeOK
      <4>2. JobsIn(c, Counted) \subseteq JobsIn(c, Counted)'
        BY <1>0, <3>1, <4>1 DEF JobsIn
      <4> QED
        BY <3>1, <4>1, <4>2, SameNotTwice DEF Exists
    \* Only a campaign that is gone loses a counted job to the catch block.
    <3>3. CASE ~Exists(j[1])
      <4>1. status' = status
        BY <2>8, <3>3 DEF Complete
      <4>2. CASE j[1] = c
        BY <3>1, <3>3, <4>1, <4>2 DEF NotTwice, Exists
      <4>3. CASE j[1] # c
        <5>1. JobsIn(c, Counted)' = JobsIn(c, Counted)
          BY <1>0, <3>1, <4>3 DEF JobsIn
        <5> QED
          BY <3>1, <4>1, <5>1, SameNotTwice DEF Exists
      <4> QED
        BY <4>2, <4>3
    <3> QED
      BY <3>2, <3>3
  <2> QED
    BY <2>1, <2>2, <2>3, <2>6, <2>7, <2>8 DEF Work
<1>5. CASE Crash
  <2>1. UNCHANGED <<sent, failed, status, faults>> /\ crashes' = crashes + 1
    BY <1>5 DEF Crash
  <2>2. JobsIn(c, Counted) \subseteq JobsIn(c, Counted)' \cup Active
    BY <1>0, <1>5 DEF Crash, JobsIn, Active, Counted
  <2>3. /\ IsFiniteSet(JobsIn(c, Counted)' \cup Active)
        /\ Cardinality(JobsIn(c, Counted)' \cup Active)
              = Cardinality(JobsIn(c, Counted)') + Cardinality(Active)
                 - Cardinality(JobsIn(c, Counted)' \cap Active)
    BY FiniteJobsInNext, FS_Union DEF SlotsHeld
  <2>4. IsFiniteSet(JobsIn(c, Counted)' \cap Active)
    BY FS_Subset DEF SlotsHeld
  <2>5. /\ Cardinality(Active) \in Nat /\ Concurrency \in Nat
        /\ Cardinality(JobsIn(c, Counted)' \cap Active) \in Nat
    BY <2>4, FS_CardinalityType, CampaignAssumption DEF SlotsHeld
  <2>6. Cardinality(JobsIn(c, Counted)) <= Cardinality(JobsIn(c, Counted)' \cup Active)
    BY <2>2, <2>3, FS_Subset
  <2>7. Cardinality(JobsIn(c, Counted)) <= Cardinality(JobsIn(c, Counted)') + Concurrency
    BY <2>3, <2>5, <2>6, FiniteJobsIn, FiniteJobsInNext DEF SlotsHeld
  <2>8. Excused' = Excused + Concurrency
    <3>1. crashes \in Nat /\ faults \in Nat
      BY ExcusedTypes
    <3>2. Concurrency * (crashes + 1) = Concurrency * crashes + Concurrency
      BY <2>5, <3>1
    <3> QED
      BY <2>1, <2>5, <3>1, <3>2, ExcusedTypes DEF Excused
  <2> QED
    BY <2>1, <2>5, <2>7, <2>8, FewerNotTwice
<1>6. CASE UNCHANGED vars
  <2>1. JobsIn(c, Counted)' = JobsIn(c, Counted)
    BY <1>6 DEF vars, JobsIn
  <2> QED
    BY <1>6, <2>1, SameNotTwice DEF vars, Exists
<1> QED
  BY <1>1, <1>2, <1>3, <1>4, <1>5, <1>6 DEF Next

\* Whatever throws, crashes and is launched again, the counters of a campaign
\* exceed the jobs they count by no more than the failures account for.
THEOREM NothingIsCountedTwice == Spec => []NothingCountedTwice
<1> DEFINE Inv == \A c \in Campaign : NotTwice(c)
<1>1. Init => SlotsHeld /\ Inv
  <2> SUFFICES ASSUME Init PROVE SlotsHeld /\ Inv
    OBVIOUS
  <2>1. Active = {}
    BY DEF Init, Active, Running
  <2>2. \A c \in Campaign : ~Exists(c) /\ sent[c] = 0 /\ failed[c] = 0
    BY DEF Init, Exists, CampaignStatus
  <2> QED
    BY <2>1, <2>2, FS_EmptySet, CampaignAssumption DEF SlotsHeld, NotTwice
<1>2. TypeOK /\ BatchesFresh /\ SlotsHeld /\ Inv /\ [Next]_vars => SlotsHeld' /\ Inv'
  BY NextSlots, NextNotTwice
<1>3. TypeOK /\ Inv => NothingCountedTwice
  <2> SUFFICES ASSUME TypeOK, Inv, NEW c \in Campaign, Exists(c)
               PROVE  sent[c] + failed[c] <= Cardinality(JobsIn(c, Counted))
                                             + faults + Concurrency * crashes
    BY DEF NothingCountedTwice
  <2>1. sent[c] + failed[c] <= Cardinality(JobsIn(c, Counted)) + Excused
    BY DEF NotTwice
  <2> QED
    BY <2>1, ExcusedTypes, FiniteJobsIn DEF Excused
<1> QED
  <2> HIDE DEF Inv
  <2> QED
    BY <1>1, <1>2, <1>3, FreshInit, FreshPreserved, TypeCorrect, PTL DEF Spec

-----------------------------------------------------------------------------
(***************************************************************************)
(* Pausing.  The queue is shared, so this needs a single campaign; a crash *)
(* between resumeQueue() and the write of RUNNING would leave the row      *)
(* PAUSED with the queue running.                                          *)
(***************************************************************************)
OneCampaignOnly == \A c, d \in Campaign : c = d

PauseKept ==
    /\ \A r \in Request : req[r].at = "pause.write" => queuePaused
    /\ \A c \in Campaign : status[c] = "PAUSED" =>
          queuePaused \/ \E r \in Request : req[r].at = "resume.write"

LEMMA NextPauseKept ==
    ASSUME TypeOK, OneAtATime, OneCampaignOnly, MaxCrash = 0, PauseKept, [Next]_vars
    PROVE  PauseKept'
<1> USE DEF rows, queue
<1>1. ASSUME UNCHANGED <<queuePaused, req>>,
             \A c \in Campaign : status'[c] = "PAUSED" => status[c] = "PAUSED"
      PROVE  PauseKept'
  BY <1>1 DEF PauseKept
<1>2. CASE \E c \in Campaign : Create(c)
  <2>1. \A c \in Campaign : status'[c] = "PAUSED" => status[c] = "PAUSED"
    BY <1>2 DEF Create, TypeOK
  <2> QED
    BY <1>1, <1>2, <2>1 DEF Create
<1>3. CASE \E r \in Request : \E c \in Campaign : Read(r, c)
  <2>1. PICK r \in Request, c \in Campaign : Read(r, c)
    BY <1>3
  <2>2. PICK op, at, aud, n : /\ Begin(r, op, at, c, aud, n)
                             /\ at \notin {"pause.write", "resume.write"}
    BY <2>1 DEF Read, ReadUpdate, ReadDelete, ReadLaunch, ReadSchedule,
                ReadPause, ReadResume, ReadCancel
  <2>3. UNCHANGED <<queuePaused, status>> /\ req[r] = Idle
    BY <2>2 DEF Begin
  <2>4. \A q \in Request : q = r
    BY DEF OneAtATime
  <2>5. req'[r].at \notin {"pause.write", "resume.write"}
    BY <2>2 DEF Begin, TypeOK
  <2> QED
    BY <2>3, <2>4, <2>5 DEF PauseKept, Idle
<1>4. CASE \E r \in Request : Write(r)
  <2>1. PICK r \in Request : Write(r)
    BY <1>4
  <2>2. \A q \in Request : q = r
    BY DEF OneAtATime
  <2>3. req[r] \in [at : Pending, c : Campaign, aud : SUBSET Recipient, n : Nat]
    BY <2>1, PendingFields DEF Write, RowGone, WriteUpdate, WriteDelete, WriteSchedule,
         WriteStatus, WriteLaunch, WritePause, WriteResume, WriteCancel,
         PauseQueue, ResumeQueue, SetQueue, Enqueue, Pending, TypeOK
  <2>4. \A c \in Campaign : c = req[r].c
    BY <2>3 DEF OneCampaignOnly
  <2>5. CASE PauseQueue(r) \/ ResumeQueue(r)
    <3>1. CASE PauseQueue(r)
      BY <2>2, <3>1 DEF PauseQueue, SetQueue, PauseKept
    <3>2. CASE ResumeQueue(r)
      <4>1. req'[r].at = "resume.write"
        BY <2>3, <3>2 DEF ResumeQueue, SetQueue, GoTo, TypeOK
      <4> QED
        BY <2>2, <4>1 DEF PauseKept
    <3> QED
      BY <2>5, <3>1, <3>2
  <2>6. CASE WriteLaunch(r)
    <3>1. req'[r].at = "launch.enqueue" /\ UNCHANGED queuePaused
      BY <2>3, <2>6 DEF WriteLaunch, GoTo, TypeOK
    <3>2. \A c \in Campaign : status'[c] # "PAUSED"
      BY <2>4, <2>6 DEF WriteLaunch, TypeOK
    <3> QED
      BY <2>2, <3>1, <3>2 DEF PauseKept
  <2>7. CASE ~PauseQueue(r) /\ ~ResumeQueue(r) /\ ~WriteLaunch(r)
    <3>1. req'[r] = Idle /\ UNCHANGED queuePaused
      BY <2>1, <2>7 DEF Write, RowGone, WriteUpdate, WriteDelete, WriteSchedule,
           WriteStatus, WritePause, WriteResume, WriteCancel, Enqueue, Finish, TypeOK
    <3>2. CASE req[r].at = "pause.write"
      BY <2>2, <3>1, <3>2 DEF PauseKept, Idle
    <3>3. CASE req[r].at = "resume.write"
      <4>1. \A c \in Campaign : status'[c] # "PAUSED"
        BY <2>1, <2>4, <2>7, <3>3 DEF Write, RowGone, WriteUpdate, WriteDelete,
           WriteSchedule, WriteStatus, WritePause, WriteResume, WriteCancel, Enqueue,
           Exists, CampaignStatus, TypeOK
      <4> QED
        BY <2>2, <3>1, <4>1 DEF PauseKept, Idle
    <3>4. CASE req[r].at \notin {"pause.write", "resume.write"}
      <4>1. \A c \in Campaign : status'[c] = "PAUSED" => status[c] = "PAUSED"
        BY <2>1, <2>4, <2>7, <3>4 DEF Write, RowGone, WriteUpdate, WriteDelete,
           WriteSchedule, WriteStatus, WritePause, WriteResume, WriteCancel, Enqueue,
           TypeOK
      <4> QED
        BY <2>2, <3>1, <3>4, <4>1 DEF PauseKept, Idle
    <3> QED
      BY <3>2, <3>3, <3>4
  <2> QED
    BY <2>5, <2>6, <2>7
<1>5. CASE \E j \in Job : Take(j) \/ Work(j) \/ Throw(j) \/ StalledCheck(j)
  <2>1. UNCHANGED <<queuePaused, req>>
    BY <1>5 DEF Take, Work, CheckScope, Admit, Send, Post, Count, CheckComplete, Complete,
                Catch, Throw, StalledCheck
  <2>2. \A c \in Campaign : status'[c] = "PAUSED" => status[c] = "PAUSED"
    BY <1>5 DEF Take, Work, CheckScope, Admit, Send, Post, Count, CheckComplete, Complete,
                Catch, Throw, StalledCheck, TypeOK
  <2> QED
    BY <1>1, <2>1, <2>2
<1>6. CASE Crash
  BY <1>6 DEF Crash, TypeOK
<1>7. CASE UNCHANGED vars
  BY <1>1, <1>7 DEF vars
<1> QED
  BY <1>2, <1>3, <1>4, <1>5, <1>6, <1>7 DEF Next

\* With a single campaign, requests one at a time and no crash, a campaign that
\* looks PAUSED between requests has its queue standing still.
THEOREM PauseStopsTheQueue ==
    ASSUME OneAtATime, OneCampaignOnly, MaxCrash = 0
    PROVE  Spec => []PausedHoldsQueue
<1>1. Init => PauseKept
  BY DEF Init, PauseKept, Idle
<1>2. TypeOK /\ PauseKept /\ [Next]_vars => PauseKept'
  BY NextPauseKept
<1>3. PauseKept => PausedHoldsQueue
  BY DEF PauseKept, PausedHoldsQueue, Quiet, Idle
<1> QED
  BY <1>1, <1>2, <1>3, TypeCorrect, PTL DEF Spec
-----------------------------------------------------------------------------
(***************************************************************************)
(* No lost completion.  The counters cover the jobs, so a worker that does *)
(* not see the full count leaves a job behind that is not counted yet.     *)
(* This fails where something else ends a job or writes RUNNING: the catch *)
(* block and the scope check have no completion check, a crash can come    *)
(* between the write of RUNNING and the addBulk, and resume() writes over  *)
(* a COMPLETED.                                                            *)
(***************************************************************************)
Undisturbed ==
    /\ MaxCrash = 0 /\ MaxFault = 0 /\ DailyCap = FALSE
    /\ Ops \cap {"pause", "resume"} = {} /\ Removable = {}

Enqueuing(c) == \E r \in Request : req[r].at = "launch.enqueue" /\ req[r].c = c
Unfinished == JobState \ ({"none"} \cup Ended)
Detour == {"catch", "stalled", "dropped", "failed"}

NoDetours ==
    /\ \A r \in Request : req[r].at \notin {"pause.queue", "pause.write",
                                            "resume.queue", "resume.write"}
    /\ \A r \in Request : Launching(r) => req[r].aud # {}
    /\ \A j \in Job : Exists(j[1]) => job[j] \notin Detour

StillWorking(c) ==
    (status[c] = "RUNNING" /\ ~Enqueuing(c)) =>
        /\ total[c] <= Cardinality(JobsIn(c, Queued))
        /\ JobsIn(c, Unfinished) # {}

LEMMA NextNoDetours ==
    ASSUME TypeOK, Undisturbed, OneLaunch, NoDetours, [Next]_vars
    PROVE  NoDetours'
<1> USE DEF rows, queue
<1>1. ASSUME UNCHANGED <<req, job>>,
             \A c \in Campaign : Exists(c)' => Exists(c) \/ status[c] = "ABSENT"
      PROVE  NoDetours'
  <2> SUFFICES ASSUME NEW j \in Job, Exists(j[1])' PROVE job'[j] \notin Detour
    BY <1>1 DEF NoDetours, Launching
  <2>1. j[1] \in Campaign /\ j = <<j[1], j[2], j[3]>> /\ j[2] \in Batch /\ j[3] \in Recipient
    BY DEF Job
  <2>2. CASE Exists(j[1])
    BY <1>1, <2>2 DEF NoDetours
  <2>3. CASE status[j[1]] = "ABSENT"
    <3>1. NoJobs(j[1])
      BY <2>1, <2>3 DEF OneLaunch, Unlaunched
    <3>2. job[j] = "none"
      BY <2>1, <3>1 DEF NoJobs
    <3> QED
      BY <1>1, <3>2 DEF Detour
  <2> QED
    BY <1>1, <2>1, <2>2, <2>3
<1>2. CASE \E c \in Campaign : Create(c)
  BY <1>1, <1>2 DEF Create, TypeOK, Exists
<1>3. CASE \E r \in Request : \E c \in Campaign : Read(r, c)
  <2>1. PICK r \in Request, c \in Campaign : Read(r, c)
    BY <1>3
  <2>2. UNCHANGED <<status, job>> /\ \A q \in Request : q # r => req'[q] = req[q]
    BY <2>1, ReadBegins DEF Begin, TypeOK
  <2>3. /\ req'[r].at \notin {"pause.queue", "pause.write", "resume.queue", "resume.write"}
        /\ Launching(r)' => req'[r].aud # {}
    <3>1. CASE ReadLaunch(r, c)
      BY <3>1 DEF ReadLaunch, Begin, TypeOK
    <3>2. CASE ~ReadLaunch(r, c)
      BY <2>1, <3>2 DEF Read, ReadUpdate, ReadDelete, ReadSchedule, ReadPause, ReadResume,
                        ReadCancel, Begin, Undisturbed, Launching, TypeOK
    <3> QED
      BY <3>1, <3>2
  <2>4. ASSUME NEW q \in Request
        PROVE  /\ req'[q].at \notin {"pause.queue", "pause.write", "resume.queue", "resume.write"}
               /\ Launching(q)' => req'[q].aud # {}
    BY <2>2, <2>3 DEF NoDetours, Launching
  <2> QED
    BY <2>2, <2>4 DEF NoDetours, Exists
<1>4. CASE \E r \in Request : Write(r)
  <2>1. PICK r \in Request : Write(r)
    BY <1>4
  <2>2. \A q \in Request : q # r => req'[q] = req[q]
    BY <2>1 DEF Write, RowGone, WriteUpdate, WriteDelete, WriteSchedule, WriteStatus,
           WriteLaunch, WritePause, WriteResume, WriteCancel, PauseQueue, ResumeQueue,
           SetQueue, Enqueue, Finish, GoTo, TypeOK
  <2>3. /\ req'[r].at \notin {"pause.queue", "pause.write", "resume.queue", "resume.write"}
        /\ Launching(r)' => req'[r].aud # {}
    <3>1. CASE WriteLaunch(r)
      <4>1. req[r] \in [at : Pending, c : Campaign, aud : SUBSET Recipient, n : Nat]
        BY <3>1, PendingFields DEF WriteLaunch, Pending, TypeOK
      <4>2. req'[r].aud = req[r].aud /\ req'[r].at = "launch.enqueue" /\ Launching(r)
        BY <3>1, <4>1 DEF WriteLaunch, GoTo, Launching, TypeOK
      <4> QED
        BY <4>2 DEF NoDetours
    <3>2. CASE ~WriteLaunch(r)
      <4>1. req'[r] = Idle
        BY <2>1, <3>2 DEF NoDetours, Write, RowGone, WriteUpdate, WriteDelete,
             WriteSchedule, WriteStatus, WritePause, WriteResume, WriteCancel, PauseQueue,
             ResumeQueue, SetQueue, Enqueue, Finish, TypeOK
      <4> QED
        BY <4>1 DEF Idle, Launching
    <3> QED
      BY <3>1, <3>2
  <2>4. \A j \in Job : job'[j] = job[j] \/ job'[j] = "waiting"
    BY <2>1 DEF Write, RowGone, WriteUpdate, WriteDelete, WriteSchedule, WriteStatus,
           WriteLaunch, WritePause, WriteResume, WriteCancel, PauseQueue, ResumeQueue,
           SetQueue, Enqueue
  <2>5. \A c \in Campaign : Exists(c)' => Exists(c)
    <3> SUFFICES ASSUME NEW c \in Campaign, Exists(c)', ~Exists(c) PROVE FALSE
      OBVIOUS
    <3>1. status'[c] # status[c]
      BY DEF Exists
    <3> QED
      BY <2>1, <3>1 DEF Write, RowGone, WriteUpdate, WriteDelete, WriteSchedule, WriteStatus,
           WriteLaunch, WritePause, WriteResume, WriteCancel, PauseQueue, ResumeQueue,
           SetQueue, Enqueue, TypeOK
  <2>6. ASSUME NEW j \in Job, Exists(j[1])' PROVE job'[j] \notin Detour
    <3>1. j[1] \in Campaign
      BY DEF Job
    <3> QED
      BY <2>4, <2>5, <2>6, <3>1 DEF NoDetours, Detour
  <2>7. ASSUME NEW q \in Request
        PROVE  /\ req'[q].at \notin {"pause.queue", "pause.write", "resume.queue", "resume.write"}
               /\ Launching(q)' => req'[q].aud # {}
    BY <2>2, <2>3 DEF NoDetours, Launching
  <2> QED
    BY <2>6, <2>7 DEF NoDetours
<1>5. CASE \E j \in Job : Take(j) \/ Work(j) \/ Throw(j) \/ StalledCheck(j)
  <2>1. PICK j \in Job : Take(j) \/ Work(j) \/ Throw(j) \/ StalledCheck(j)
    BY <1>5
  <2>2. UNCHANGED req
    BY <2>1 DEF Take, Work, CheckScope, Admit, Send, Post, Count, CheckComplete, Complete,
                Catch, Throw, StalledCheck
  <2>3. \A c \in Campaign : Exists(c)' => Exists(c)
    BY <2>1 DEF Take, Work, CheckScope, Admit, Send, Post, Count, CheckComplete, Complete,
                Catch, Throw, StalledCheck, Exists, TypeOK
  <2>4. Exists(j[1]) => job'[j] \notin Detour
    <3>1. Exists(j[1]) => job[j] \notin Detour
      BY DEF NoDetours
    <3> QED
      BY <2>1, <3>1 DEF Take, Work, CheckScope, InScope, Admit, Send, Post, Count, CheckComplete,
            Complete, Catch, Throw, StalledCheck, Step, Undisturbed, Detour, TypeOK
  <2>5. \A i \in Job : i # j => job'[i] = job[i]
    BY <2>1 DEF Take, Work, CheckScope, Admit, Send, Post, Count, CheckComplete, Complete,
                Catch, Throw, StalledCheck, Step, TypeOK
  <2>6. ASSUME NEW i \in Job, Exists(i[1])' PROVE job'[i] \notin Detour
    <3>1. i[1] \in Campaign
      BY DEF Job
    <3> QED
      BY <2>3, <2>4, <2>5, <2>6, <3>1 DEF NoDetours
  <2> QED
    BY <2>2, <2>6 DEF NoDetours, Launching
<1>6. CASE Crash
  BY <1>6 DEF Crash, TypeOK, Undisturbed
<1>7. CASE UNCHANGED vars
  BY <1>1, <1>7 DEF vars, Exists
<1> QED
  BY <1>2, <1>3, <1>4, <1>5, <1>6, <1>7 DEF Next

\* A worker that does not find the full count leaves a job that is not counted.
LEMMA UncountedLeft ==
    ASSUME TypeOK, NEW c \in Campaign, Covered(c),
           total[c] <= Cardinality(JobsIn(c, Queued)), ~AllCounted(c)
    PROVE  \E i \in JobsOf(c) : job[i] \in Uncounted
<1>1. ~(Cardinality(JobsIn(c, Queued)) <= Cardinality(JobsIn(c, Counted)))
  BY FiniteJobsIn DEF Covered, AllCounted, TypeOK
<1>2. ~(JobsIn(c, Queued) \subseteq JobsIn(c, Counted))
  BY <1>1, FiniteJobsIn, FS_Subset
<1> QED
  BY <1>2 DEF JobsIn, Queued, Uncounted

\* Nothing of the campaign ends, and no new job is needed.
LEMMA SameWorking ==
    ASSUME NEW c \in Campaign, StillWorking(c), status'[c] = "RUNNING",
           status[c] = "RUNNING" /\ (Enqueuing(c) => Enqueuing(c)'), total'[c] = total[c],
           \A j \in JobsOf(c) : /\ job'[j] \in Queued <=> job[j] \in Queued
                                /\ job[j] \in Unfinished => job'[j] \in Unfinished
    PROVE  StillWorking(c)'
<1>1. JobsIn(c, Queued)' = JobsIn(c, Queued)
  BY DEF JobsIn
<1>2. JobsIn(c, Unfinished) \subseteq JobsIn(c, Unfinished)'
  BY DEF JobsIn
<1> QED
  BY <1>1, <1>2 DEF StillWorking

LEMMA NextWorking ==
    ASSUME TypeOK, TypeOK', OneAtATime, Undisturbed, OneLaunch, TotalsMatch, NoDetours,
           BatchesFresh, FinishedJobsCounted, [Next]_vars, NEW c \in Campaign, StillWorking(c)
    PROVE  StillWorking(c)'
<1> USE DEF rows, queue
<1> SUFFICES ASSUME status'[c] = "RUNNING", ~Enqueuing(c)' PROVE StillWorking(c)'
  BY DEF StillWorking
<1>0. JobsOf(c) \subseteq Job /\ \A j \in Job : j \in JobsOf(c) <=> j[1] = c
  BY DEF JobsOf, Job
<1>1. ASSUME UNCHANGED <<job, req>>, status'[c] = status[c], total'[c] = total[c]
      PROVE  StillWorking(c)'
  BY <1>1, SameWorking DEF Enqueuing
<1>2. CASE \E d \in Campaign : Create(d)
  <2>1. PICK d \in Campaign : Create(d)
    BY <1>2
  <2>2. c # d
    BY <2>1 DEF Create, TypeOK
  <2> QED
    BY <1>1, <2>1, <2>2 DEF Create, TypeOK
<1>3. CASE \E r \in Request : \E d \in Campaign : Read(r, d)
  <2>1. PICK r \in Request, d \in Campaign : Read(r, d)
    BY <1>3
  <2>2. UNCHANGED <<job, status, total>> /\ req[r] = Idle
    BY <2>1, ReadBegins DEF Begin
  <2>3. ~Enqueuing(c)
    BY <2>2 DEF OneAtATime, Enqueuing, Idle
  <2> QED
    BY <2>2, <2>3, SameWorking
<1>4. CASE \E r \in Request : Write(r)
  <2>1. PICK r \in Request : Write(r)
    BY <1>4
  <2>2. \A q \in Request : q = r
    BY DEF OneAtATime
  <2>3. CASE Enqueue(r)
    <3>1. PICK d \in Campaign, aud \in SUBSET Recipient : d = req[r].c /\ aud = req[r].aud
      BY <2>3, PendingFields DEF Enqueue, Pending, TypeOK
    <3> DEFINE n == req[r].n
    <3>2. \A j \in Job : job'[j] = IF j[1] = d /\ j[2] = n /\ j[3] \in aud
                                   THEN "waiting" ELSE job[j]
      BY <2>3, <3>1 DEF Enqueue
    <3>3. UNCHANGED <<status, total>> /\ status[c] = "RUNNING"
      BY <2>3 DEF Enqueue
    <3>4. CASE c # d
      <4>1. \A j \in JobsOf(c) : job'[j] = job[j]
        BY <1>0, <3>2, <3>4
      <4>2. ~Enqueuing(c)
        BY <2>2, <3>1, <3>4 DEF Enqueuing
      <4> QED
        BY <3>3, <4>1, <4>2, SameWorking
    <3>5. CASE c = d
      <4>1. total[c] = Cardinality(aud)
        BY <2>3, <3>1, <3>5 DEF Enqueue, TotalsMatch
      <4>2. aud # {}
        BY <2>3, <3>1 DEF Enqueue, NoDetours, Launching
      <4>3. n \in Batch
        <5>1. Launching(r) /\ req[r].c \in Campaign
          BY <2>3, <3>1 DEF Enqueue, Launching
        <5>2. req[r].n \in 1..launches[req[r].c] /\ launches[req[r].c] \in 0..MaxBatch
          BY <5>1 DEF BatchesFresh, TypeOK
        <5> QED
          BY <5>2, CampaignAssumption DEF Batch
      <4> DEFINE New == {<<c, n, k>> : k \in aud}
                 f == [j \in New |-> j[3]]
      <4>4. New \subseteq JobsIn(c, Queued)' /\ New \subseteq JobsIn(c, Unfinished)'
        BY <3>2, <3>5, <4>3 DEF JobsIn, JobsOf, Job, Queued, Unfinished, JobState, Ended
      <4>5. IsFiniteSet(New)
        BY <4>4, FiniteJobsInNext, FS_Subset
      <4>6. f \in Surjection(New, aud)
        <5>1. f \in [New -> aud]
          OBVIOUS
        <5>2. ASSUME NEW k \in aud PROVE <<c, n, k>> \in New /\ f[<<c, n, k>>] = k
          OBVIOUS
        <5> HIDE DEF f, New
        <5> QED
          BY <5>1, <5>2 DEF Surjection
      <4>7. Cardinality(aud) <= Cardinality(New)
        BY <4>5, <4>6, FS_Surjection
      <4>8. Cardinality(New) <= Cardinality(JobsIn(c, Queued)')
        BY <4>4, FiniteJobsInNext, FS_Subset
      <4>9. New # {}
        BY <4>2
      <4>10. Cardinality(aud) \in Nat /\ Cardinality(New) \in Nat
        BY <4>5, FS_CardinalityType, FS_Subset, CampaignAssumption
      <4> HIDE DEF New, f
      <4>11. total'[c] <= Cardinality(JobsIn(c, Queued)')
        BY <3>3, <4>1, <4>7, <4>8, <4>10, FiniteJobsInNext
      <4> QED
        BY <4>4, <4>9, <4>11 DEF StillWorking
    <3> QED
      BY <3>4, <3>5
  <2>4. CASE ~Enqueue(r)
    <3>1. UNCHANGED job /\ ~WritePause(r) /\ ~WriteResume(r) /\ ~PauseQueue(r) /\ ~ResumeQueue(r)
      BY <2>1, <2>4 DEF Write, RowGone, WriteUpdate, WriteDelete, WriteSchedule, WriteStatus,
           WriteLaunch, WritePause, WriteResume, WriteCancel, PauseQueue, ResumeQueue,
           SetQueue, NoDetours
    <3>2. PICK d \in Campaign : d = req[r].c
      BY <2>1, PendingFields DEF Write, RowGone, WriteUpdate, WriteDelete, WriteSchedule,
           WriteStatus, WriteLaunch, WritePause, WriteResume, WriteCancel,
           PauseQueue, ResumeQueue, SetQueue, Enqueue, Pending, TypeOK
    <3>3. CASE WriteLaunch(r)
      <4>1. c # d
        <5>1. req[r] \in [at : Pending, c : Campaign, aud : SUBSET Recipient, n : Nat]
          BY <3>3, PendingFields DEF WriteLaunch, Pending, TypeOK
        <5>2. req'[r].at = "launch.enqueue" /\ req'[r].c = d
          BY <3>2, <3>3, <5>1 DEF WriteLaunch, GoTo, TypeOK
        <5> QED
          BY <5>2 DEF Enqueuing
      <4>2. status'[c] = status[c] /\ total'[c] = total[c]
        BY <3>2, <3>3, <4>1 DEF WriteLaunch, TypeOK
      <4>3. ~Enqueuing(c)
        BY <2>2, <3>3 DEF WriteLaunch, Enqueuing
      <4> QED
        BY <3>1, <4>2, <4>3, SameWorking
    <3>4. CASE ~WriteLaunch(r)
      <4>1. req[r].at # "launch.enqueue"
        BY <2>1, <2>4, <3>1, <3>4 DEF Write, RowGone, WriteUpdate, WriteDelete,
             WriteSchedule, WriteStatus, WriteCancel
      <4>2. ~Enqueuing(c)
        BY <2>2, <4>1 DEF Enqueuing
      <4>3. status'[c] = status[c]
        BY <2>1, <2>4, <3>1, <3>4 DEF Write, RowGone, WriteUpdate, WriteDelete,
             WriteSchedule, WriteStatus, WriteCancel, TypeOK
      <4>4. CASE WriteUpdate(r)
        <5>1. c # d
          BY <3>2, <4>3, <4>4 DEF WriteUpdate, OneLaunch, Early, Unlaunched
        <5>2. total'[c] = total[c]
          BY <3>2, <4>4, <5>1 DEF WriteUpdate, TypeOK
        <5> QED
          BY <3>1, <4>2, <4>3, <5>2, SameWorking
      <4>5. CASE ~WriteUpdate(r)
        <5>1. total' = total
          BY <2>1, <2>4, <3>1, <3>4, <4>5 DEF Write, RowGone, WriteDelete,
             WriteSchedule, WriteStatus, WriteCancel
        <5> QED
          BY <3>1, <4>2, <4>3, <5>1, SameWorking
      <4> QED
        BY <4>4, <4>5
    <3> QED
      BY <3>3, <3>4
  <2> QED
    BY <2>3, <2>4
<1>5. CASE \E j \in Job : Take(j) \/ Work(j) \/ Throw(j) \/ StalledCheck(j)
  <2>1. PICK j \in Job : Take(j) \/ Work(j) \/ Throw(j) \/ StalledCheck(j)
    BY <1>5
  <2>2. /\ UNCHANGED <<req, total>>
        /\ \A i \in Job : i # j => job'[i] = job[i]
        /\ job[j] # "none" /\ job'[j] # "none"
    BY <2>1 DEF Take, Work, CheckScope, Admit, Send, Post, Count, CheckComplete, Complete,
                Catch, Throw, StalledCheck, Step, TypeOK
  <2>3. status[c] = "RUNNING"
    BY <2>1 DEF Take, Work, CheckScope, Admit, Send, Post, Count, CheckComplete, Complete,
                Catch, Throw, StalledCheck, TypeOK
  <2>4. ~Enqueuing(c)
    BY <2>2 DEF Enqueuing
  <2>5. job'[j] \in Queued /\ job[j] \in Queued
    BY <2>2 DEF Queued, TypeOK
  <2>6. \A i \in JobsOf(c) : job'[i] \in Queued <=> job[i] \in Queued
    BY <1>0, <2>2, <2>5
  <2>7. CASE j[1] # c \/ job'[j] # "done"
    <3>1. j[1] = c => job'[j] \notin Detour
      <4>1. Exists(c)'
        BY DEF Exists, CampaignStatus
      <4> QED
        BY <4>1, NextNoDetours DEF NoDetours
    <3>2. \A i \in JobsOf(c) : job[i] \in Unfinished => job'[i] \in Unfinished
      BY <1>0, <2>2, <2>5, <2>7, <3>1 DEF Queued, Unfinished, Detour, Ended
    <3> QED
      BY <2>2, <2>3, <2>4, <2>6, <3>2, SameWorking
  <2>8. CASE j[1] = c /\ job'[j] = "done"
    <3>1. Exists(c)
      BY <2>3 DEF Exists, CampaignStatus
    <3>2. ~Complete(j)
      BY <2>8, <3>1 DEF Complete, TypeOK
    <3>3. job[j] # "catch"
      BY <2>8, <3>1 DEF NoDetours, Detour
    <3>4. CheckComplete(j) \/ job[j] = "done"
      BY <2>1, <2>8, <3>2, <3>3 DEF Take, Work, CheckScope, Admit, Send, Post, Count,
           Catch, Throw, StalledCheck, Step, TypeOK
    <3>5. job[j] = "check" /\ ~AllCounted(c)
      BY <2>1, <2>8, <3>1, <3>2, <3>3 DEF Take, Work, CheckScope, Admit, Send, Post, Count,
           CheckComplete, Catch, Throw, StalledCheck, Step, TypeOK
    <3>6. total[c] <= Cardinality(JobsIn(c, Queued)) /\ Covered(c)
      BY <2>3, <2>4 DEF StillWorking, FinishedJobsCounted, Covered
    <3>7. PICK i \in JobsOf(c) : job[i] \in Uncounted
      BY <3>5, <3>6, UncountedLeft
    <3>8. i # j /\ i \in Job
      BY <1>0, <3>5, <3>7 DEF Uncounted, Counted
    <3>9. job'[i] \in Unfinished
      <4>1. job[i] \notin Detour
        BY <1>0, <3>1, <3>7, <3>8 DEF NoDetours
      <4> QED
        BY <2>2, <3>7, <3>8, <4>1 DEF Uncounted, Counted, Unfinished, Detour, Ended
    <3>10. JobsIn(c, Unfinished)' # {}
      BY <3>7, <3>9 DEF JobsIn
    <3>11. JobsIn(c, Queued)' = JobsIn(c, Queued)
      BY <2>6 DEF JobsIn
    <3> QED
      BY <2>2, <3>6, <3>10, <3>11 DEF StillWorking
  <2> QED
    BY <2>7, <2>8
<1>6. CASE Crash
  BY <1>6 DEF Crash, TypeOK, Undisturbed
<1>7. CASE UNCHANGED vars
  BY <1>1, <1>7 DEF vars
<1> QED
  BY <1>2, <1>3, <1>4, <1>5, <1>6, <1>7 DEF Next

\* With requests one at a time, no pauses, no failures, no daily cap and nobody
\* removed, a campaign that is RUNNING between requests has a job that has not ended:
\* the workers cannot miss the last recipient, however many increment together.
THEOREM CompletionIsNotLost ==
    ASSUME OneAtATime, Undisturbed
    PROVE  Spec => []NoLostCompletion
<1> DEFINE Working == \A c \in Campaign : StillWorking(c)
<1>1. Init => OneLaunch /\ TotalsMatch /\ NoDetours /\ Working
  <2>1. Init => NoDetours /\ Working
    BY DEF Init, NoDetours, StillWorking, Idle, Launching, Job, Detour
  <2> QED
    BY <2>1, InitOneLaunch, InitTotals
<1>2. /\ TypeOK /\ OneLaunch /\ [Next]_vars => OneLaunch'
      /\ TypeOK /\ TypeOK' /\ OneLaunch /\ TotalsMatch /\ [Next]_vars => TotalsMatch'
      /\ TypeOK /\ OneLaunch /\ NoDetours /\ [Next]_vars => NoDetours'
  BY NextKeepsOneLaunch, NextTotals, NextNoDetours
<1>3. TypeOK /\ TypeOK' /\ OneLaunch /\ TotalsMatch /\ NoDetours /\ BatchesFresh
         /\ FinishedJobsCounted /\ Working /\ [Next]_vars => Working'
  BY NextWorking
<1>4. Working => NoLostCompletion
  <2> SUFFICES ASSUME Working, NEW c \in Campaign, Quiet, status[c] = "RUNNING"
               PROVE  JobsIn(c, Unfinished) # {}
    BY DEF NoLostCompletion, Unfinished
  <2>1. ~Enqueuing(c)
    BY DEF Enqueuing, Quiet, Idle
  <2> QED
    BY <2>1 DEF StillWorking
<1> QED
  <2> HIDE DEF Working
  <2> QED
    BY <1>1, <1>2, <1>3, <1>4, FreshInit, FreshPreserved, TypeCorrect, CountersCoverJobs, PTL DEF Spec

-----------------------------------------------------------------------------
(***************************************************************************)
(* A mailing.  With no crash and no failing call no job runs twice, so the *)
(* accepted messages of a recipient are those of its one job.              *)
(***************************************************************************)
NoReruns ==
    /\ stalledOnce = {}
    /\ \A j \in Job :
          /\ job[j] # "stalled" /\ accepted[j] \in {0, 1}
          /\ job[j] \in Unsent => accepted[j] = 0
          /\ job[j] = "countSent" => accepted[j] = 1

LEMMA InitNoReruns == Init => NoReruns
BY DEF Init, NoReruns

LEMMA NextNoReruns ==
    ASSUME TypeOK, BatchesFresh, NoReruns, MaxCrash = 0, MaxFault = 0, [Next]_vars
    PROVE  NoReruns'
<1> USE DEF rows, queue, NoReruns, Unsent
<1>1. ASSUME UNCHANGED <<stalledOnce, accepted>>,
             \A j \in Job : job'[j] # job[j] =>
                /\ job'[j] \notin {"stalled", "countSent"}
                /\ job'[j] \in Unsent => job[j] \in Unsent
      PROVE  NoReruns'
  BY <1>1
<1>2. CASE \E c \in Campaign : Create(c)
  BY <1>1, <1>2 DEF Create
<1>3. CASE \E r \in Request : \E c \in Campaign : Read(r, c)
  BY <1>1, <1>3, ReadBegins DEF Begin
<1>4. CASE \E r \in Request : Write(r)
  <2>1. PICK r \in Request : Write(r)
    BY <1>4
  <2>2. CASE Enqueue(r)
    <3>1. Untouched(req[r].c, req[r].n)
      BY <2>2 DEF Enqueue, BatchesFresh, Launching
    <3>2. ASSUME NEW j \in Job, job'[j] # job[j]
          PROVE  job[j] = "none" /\ job'[j] = "waiting"
      <4>1. /\ job'[j] = "waiting" /\ j[1] = req[r].c /\ j[2] = req[r].n
            /\ j = <<j[1], j[2], j[3]>> /\ j[3] \in Recipient
        BY <2>2, <3>2 DEF Enqueue, Job
      <4> QED
        BY <3>1, <4>1 DEF Untouched
    <3> QED
      BY <1>1, <2>2, <3>2 DEF Enqueue
  <2>3. CASE ~Enqueue(r)
    <3>1. UNCHANGED <<stalledOnce, accepted, job>>
      BY <2>1, <2>3 DEF Write, RowGone, WriteUpdate, WriteDelete, WriteSchedule, WriteStatus,
             WriteLaunch, WritePause, WriteResume, WriteCancel, PauseQueue, ResumeQueue, SetQueue
    <3> QED
      BY <1>1, <3>1
  <2> QED
    BY <2>2, <2>3
<1>5. CASE \E j \in Job : Take(j) \/ Work(j) \/ Throw(j) \/ StalledCheck(j)
  <2>1. PICK j \in Job : Take(j) \/ Work(j) \/ Throw(j) \/ StalledCheck(j)
    BY <1>5
  <2>2. CASE Take(j) \/ CheckScope(j) \/ Admit(j) \/ Send(j)
    BY <1>1, <2>2 DEF Take, CheckScope, Admit, Send, Step, TypeOK
  <2>3. CASE Post(j)
    BY <2>3 DEF Post, Step, TypeOK
  <2>4. CASE Count(j) \/ CheckComplete(j) \/ Complete(j) \/ Catch(j)
    BY <1>1, <2>4 DEF Count, CheckComplete, Complete, Catch, Step, TypeOK
  <2>5. CASE Throw(j) \/ StalledCheck(j)
    BY <2>5 DEF Throw, StalledCheck, Step, TypeOK
  <2> QED
    BY <2>1, <2>2, <2>3, <2>4, <2>5 DEF Work
<1>6. CASE Crash
  BY <1>6 DEF Crash, TypeOK
<1>7. CASE UNCHANGED vars
  BY <1>1, <1>7 DEF vars
<1> QED
  BY <1>2, <1>3, <1>4, <1>5, <1>6, <1>7 DEF Next

\* The messages of a recipient whose other jobs had none accepted.
LEMMA CountOfMessages ==
    ASSUME NEW acc \in [Job -> Nat], NEW j \in Job, acc[j] \in {0, 1},
           \A b \in Batch : b # j[2] => acc[<<j[1], b, j[3]>>] = 0
    PROVE  Cardinality(UNION {{b} \X (1..acc[<<j[1], b, j[3]>>]) : b \in Batch}) = acc[j]
<1> DEFINE M == UNION {{b} \X (1..acc[<<j[1], b, j[3]>>]) : b \in Batch}
<1>1. j = <<j[1], j[2], j[3]>> /\ j[2] \in Batch
  BY DEF Job
<1>2. CASE acc[j] = 0
  <2>1. \A b \in Batch : acc[<<j[1], b, j[3]>>] = 0
    BY <1>1, <1>2
  <2>2. \A b \in Batch : {b} \X (1..acc[<<j[1], b, j[3]>>]) = {}
    BY <2>1
  <2>3. M = {}
    BY <2>2
  <2> QED
    BY <1>2, <2>3, FS_EmptySet
<1>3. CASE acc[j] = 1
  <2>1. M = {<<j[2], 1>>}
    <3>1. ASSUME NEW m \in M PROVE m = <<j[2], 1>>
      <4>1. PICK b \in Batch : m \in {b} \X (1..acc[<<j[1], b, j[3]>>])
        BY <3>1
      <4>2. b = j[2]
        BY <4>1
      <4> QED
        BY <1>1, <1>3, <4>1, <4>2
    <3>2. <<j[2], 1>> \in M
      <4>1. <<j[2], 1>> \in {j[2]} \X (1..acc[<<j[1], j[2], j[3]>>])
        BY <1>1, <1>3
      <4> QED
        BY <1>1, <4>1
    <3> HIDE DEF M
    <3> QED
      BY <3>1, <3>2
  <2> HIDE DEF M
  <2>2. Cardinality(M) = 1
    BY <2>1, FS_Singleton
  <2> QED
    BY <1>3, <2>2 DEF M
<1> QED
  BY <1>2, <1>3

\* A recipient with a job of its own has the messages of that job.
LEMMA OtherJobsSilent ==
    ASSUME OneLaunch, NoReruns, NEW j \in Job, job[j] # "none",
           NEW b \in Batch, b # j[2]
    PROVE  accepted[<<j[1], b, j[3]>>] = 0
<1>1. j = <<j[1], j[2], j[3]>> /\ j[1] \in Campaign /\ j[2] \in Batch /\ j[3] \in Recipient
  BY DEF Job
<1>2. <<j[1], b, j[3]>> \in Job
  BY <1>1 DEF Job
<1>3. job[<<j[1], b, j[3]>>] = "none"
  BY <1>1 DEF OneLaunch, OneBatch
<1> QED
  BY <1>2, <1>3 DEF NoReruns, Unsent

\* Recipients whose jobs do not cross the border of a set of states.
LEMMA SameRecipients ==
    ASSUME NEW c \in Campaign, NEW S, \A j \in JobsOf(c) : job'[j] \in S <=> job[j] \in S
    PROVE  RecipientsIn(c, S)' = RecipientsIn(c, S)
<1>1. \A b \in Batch, k \in Recipient : <<c, b, k>> \in JobsOf(c)
  BY DEF JobsOf
<1> QED
  BY <1>1 DEF RecipientsIn

\* One job leaves a set of states: its recipient does, which has no other job.
LEMMA RecipientLeaves ==
    ASSUME TypeOK, OneLaunch, NEW j \in Job, NEW S, "none" \notin S, NEW next,
           job[j] \in S, next \notin S, job' = [job EXCEPT ![j] = next]
    PROVE  /\ j[3] \in RecipientsIn(j[1], S)
           /\ RecipientsIn(j[1], S)' = RecipientsIn(j[1], S) \ {j[3]}
<1> DEFINE c == j[1]
<1>1. j = <<c, j[2], j[3]>> /\ c \in Campaign /\ j[2] \in Batch /\ j[3] \in Recipient
  BY DEF Job
<1>2. \A b \in Batch, k \in Recipient : <<c, b, k>> \in Job
  BY <1>1 DEF Job
<1>3. \A b \in Batch : job[<<c, b, j[3]>>] \in S => b = j[2]
  BY <1>1 DEF OneLaunch, OneBatch
<1>4. \A b \in Batch, k \in Recipient : job'[<<c, b, k>>] \in S <=>
                                       (job[<<c, b, k>>] \in S /\ <<c, b, k>> # j)
  BY <1>2 DEF TypeOK
<1>5. \A b \in Batch, k \in Recipient : <<c, b, k>> = j <=> (b = j[2] /\ k = j[3])
  BY <1>1
<1>6. ASSUME NEW k \in Recipient
      PROVE  (\E b \in Batch : job'[<<c, b, k>>] \in S) <=>
             ((\E b \in Batch : job[<<c, b, k>>] \in S) /\ k # j[3])
  <2>1. CASE k = j[3]
    BY <1>3, <1>4, <1>5, <2>1
  <2>2. CASE k # j[3]
    BY <1>4, <1>5, <2>2
  <2> QED
    BY <2>1, <2>2
<1> HIDE DEF c
<1>7. j[3] \in RecipientsIn(c, S)
  BY <1>1 DEF RecipientsIn
<1>8. RecipientsIn(c, S)' = RecipientsIn(c, S) \ {j[3]}
  BY <1>6 DEF RecipientsIn
<1> QED
  BY <1>7, <1>8 DEF c

\* No job starts or ends a call of the Graph API.
LEMMA SamePosting ==
    ASSUME \A j \in Job : job'[j] = "post" <=> job[j] = "post"
    PROVE  mailPosting' = mailPosting
<1>1. \A c \in Campaign : \A j \in JobsOf(c) : j \in Job
  BY DEF JobsOf, Job
<1>2. \A c \in Campaign : RecipientsIn(c, {"post"})' = RecipientsIn(c, {"post"})
  BY <1>1, SameRecipients
<1> QED
  BY <1>2 DEF mailPosting

\* The call of a job ends: it was the only one for its recipient.
LEMMA PostingEnds ==
    ASSUME TypeOK, OneLaunch, NEW j \in Job, job[j] = "post", NEW next, next # "post",
           job' = [job EXCEPT ![j] = next]
    PROVE  /\ j[3] \in mailPosting[j[1]]
           /\ mailPosting' = [mailPosting EXCEPT ![j[1]] = @ \ {j[3]}]
<1>1. j[1] \in Campaign /\ \A d \in Campaign : \A i \in JobsOf(d) : i \in Job /\ i[1] = d
  BY DEF Job, JobsOf
<1>2. /\ j[3] \in RecipientsIn(j[1], {"post"})
      /\ RecipientsIn(j[1], {"post"})' = RecipientsIn(j[1], {"post"}) \ {j[3]}
  <2> DEFINE S == {"post"}
  <2>1. "none" \notin S /\ job[j] \in S /\ next \notin S
    OBVIOUS
  <2> HIDE DEF S
  <2>2. /\ j[3] \in RecipientsIn(j[1], S)
        /\ RecipientsIn(j[1], S)' = RecipientsIn(j[1], S) \ {j[3]}
    BY <2>1, RecipientLeaves
  <2> QED
    BY <2>2 DEF S
<1>3. ASSUME NEW d \in Campaign \ {j[1]}
      PROVE  RecipientsIn(d, {"post"})' = RecipientsIn(d, {"post"})
  <2>1. \A i \in JobsOf(d) : job'[i] = job[i]
    BY <1>1 DEF TypeOK
  <2> QED
    BY <2>1, SameRecipients
<1> QED
  BY <1>1, <1>2, <1>3 DEF mailPosting

\* Jobs of settled recipients stay settled, those of pending ones pending, and no
\* message is begun or ended: nothing changes in the mailing.
LEMMA MailStutters ==
    ASSUME UNCHANGED <<sent, failed, accepted>>,
           \A c \in Campaign : Stage(status'[c]) = Stage(status[c]),
           \A j \in Job : /\ job'[j] = "none" <=> job[j] = "none"
                          /\ job'[j] = "post" <=> job[j] = "post"
                          /\ \/ status[j[1]] = "DELETED"
                             \/ job'[j] \in Unsettled <=> job[j] \in Unsettled,
           TypeOK, TypeOK'
    PROVE  UNCHANGED Mailed!vars
<1>0. \A c \in Campaign : \A j \in JobsOf(c) : j \in Job /\ j[1] = c
  BY DEF JobsOf, Job
<1>1. \A c \in Campaign : status'[c] = "DELETED" <=> status[c] = "DELETED"
  BY DEF Stage
<1>2. mailStage' = mailStage
  BY DEF mailStage
<1>3. mailAudience' = mailAudience
  <2>1. \A j \in Job : job'[j] \in JobState \ {"none"} <=> job[j] \in JobState \ {"none"}
    BY DEF TypeOK
  <2>2. \A c \in Campaign : RecipientsIn(c, JobState \ {"none"})' = RecipientsIn(c, JobState \ {"none"})
    BY <1>0, <2>1, SameRecipients
  <2> QED
    BY <2>2 DEF mailAudience
<1>4. mailPending' = mailPending
  <2>1. \A c \in Campaign : status[c] # "DELETED" =>
                            RecipientsIn(c, Unsettled)' = RecipientsIn(c, Unsettled)
    BY <1>0, SameRecipients
  <2> QED
    BY <1>1, <2>1 DEF mailPending
<1>5. mailCounts' = mailCounts
  BY DEF mailCounts, Messages
<1>6. mailPosting' = mailPosting
  BY SamePosting
<1> QED
  BY <1>2, <1>3, <1>4, <1>5, <1>6 DEF Mailed!vars

\* While the job of a recipient is elsewhere, no message of it is on its way.
LEMMA NotPosting ==
    ASSUME OneLaunch, NEW j \in Job, job[j] \notin {"none", "post"}
    PROVE  j[3] \notin mailPosting[j[1]]
<1>1. j = <<j[1], j[2], j[3]>> /\ j[1] \in Campaign /\ j[2] \in Batch /\ j[3] \in Recipient
  BY DEF Job
<1>2. \A b \in Batch : job[<<j[1], b, j[3]>>] = "post" => b = j[2]
  BY <1>1 DEF OneLaunch, OneBatch
<1>3. \A b \in Batch : job[<<j[1], b, j[3]>>] # "post"
  BY <1>1, <1>2
<1> QED
  BY <1>1, <1>3 DEF mailPosting, RecipientsIn

\* A job of a campaign that is there leaves the pending stages.
LEMMA JobSettles ==
    ASSUME TypeOK, TypeOK', OneLaunch, NEW j \in Job, NEW next, next \notin Unsettled \cup {"none"},
           job[j] \in Unsettled \ {"post"}, job' = [job EXCEPT ![j] = next],
           status[j[1]] # "DELETED", UNCHANGED <<status, accepted>>
    PROVE  Mailed!Settle(j[1], j[3])
<1> DEFINE c == j[1]
           k == j[3]
<1>1. c \in Campaign /\ \A d \in Campaign : \A i \in JobsOf(d) : i \in Job /\ i[1] = d
  BY DEF Job, JobsOf
<1>2. UNCHANGED mailAudience
  <2>1. \A i \in Job : job'[i] \in JobState \ {"none"} <=> job[i] \in JobState \ {"none"}
    BY DEF TypeOK, Unsettled
  <2>2. \A d \in Campaign : RecipientsIn(d, JobState \ {"none"})' = RecipientsIn(d, JobState \ {"none"})
    BY <1>1, <2>1, SameRecipients
  <2> QED
    BY <2>2 DEF mailAudience
<1>3. UNCHANGED <<mailCounts, mailStage>>
  BY DEF mailCounts, Messages, mailStage
<1>4. k \in RecipientsIn(c, Unsettled) /\ RecipientsIn(c, Unsettled)' = RecipientsIn(c, Unsettled) \ {k}
  BY RecipientLeaves DEF Unsettled
<1>5. \A d \in Campaign \ {c} : RecipientsIn(d, Unsettled)' = RecipientsIn(d, Unsettled)
  <2> SUFFICES ASSUME NEW d \in Campaign \ {c}
               PROVE  RecipientsIn(d, Unsettled)' = RecipientsIn(d, Unsettled)
    OBVIOUS
  <2>1. \A i \in JobsOf(d) : job'[i] = job[i]
    BY <1>1 DEF TypeOK
  <2> QED
    BY <2>1, SameRecipients
<1> HIDE DEF c, k
<1>6. k \in mailPending[c]
  BY <1>1, <1>4 DEF mailPending, c
<1>7. mailPending' = [mailPending EXCEPT ![c] = @ \ {k}]
  BY <1>1, <1>4, <1>5 DEF mailPending, c
<1>8. mailPosting' = mailPosting
  <2>1. "post" \in Unsettled
    BY DEF Unsettled, JobState, Running, Counted
  <2>2. \A i \in Job : job'[i] = "post" <=> job[i] = "post"
    BY <2>1 DEF TypeOK
  <2> QED
    BY <2>2, SamePosting
<1>9. k \notin mailPosting[c]
  BY <1>1, NotPosting DEF c, k, Unsettled
<1>10. Mailed!Settle(c, k)
  BY <1>2, <1>3, <1>6, <1>7, <1>8, <1>9 DEF Mailed!Settle
<1> QED
  BY <1>10 DEF c, k

\* What the requests write of a row that is there.
LEMMA StatusMails ==
    ASSUME TypeOK, TypeOK', NEW c \in Campaign, Exists(c),
           NEW s \in CampaignStatus \cup {"DELETED"}, s # "COMPLETED",
           status' = [status EXCEPT ![c] = s], UNCHANGED <<job, accepted, sent, failed>>
    PROVE  [Mailed!Next]_(Mailed!vars)
<1>1. UNCHANGED <<mailAudience, mailPosting, mailCounts>>
  BY DEF mailAudience, mailPosting, RecipientsIn, mailCounts, Messages
<1>2. mailStage' = [mailStage EXCEPT ![c] = Stage(s)]
  BY DEF mailStage, TypeOK
<1>3. status[c] # "DELETED"
  BY DEF Exists, CampaignStatus
<1>4. CASE s = "DELETED"
  <2>1. mailPending' = [mailPending EXCEPT ![c] = {}]
    BY <1>4 DEF mailPending, RecipientsIn, TypeOK
  <2>2. mailStage[c] # "gone" /\ Stage(s) = "gone"
    BY <1>3, <1>4 DEF mailStage, Stage
  <2>3. Mailed!Delete(c)
    BY <1>1, <1>2, <2>1, <2>2 DEF Mailed!Delete
  <2> QED
    BY <2>3 DEF Mailed!Next
<1>5. CASE s # "DELETED"
  <2>1. UNCHANGED mailPending
    BY <1>3, <1>5 DEF mailPending, RecipientsIn, TypeOK
  <2>2. Stage(s) = "open"
    BY <1>5 DEF Stage
  <2>3. CASE status[c] = "COMPLETED"
    <3>1. mailStage[c] = "complete"
      BY <2>3 DEF mailStage, Stage
    <3>2. Mailed!Reopen(c)
      BY <1>1, <1>2, <2>1, <2>2, <3>1 DEF Mailed!Reopen
    <3> QED
      BY <3>2 DEF Mailed!Next
  <2>4. CASE status[c] # "COMPLETED"
    <3>1. mailStage[c] = "open" /\ mailStage \in [Campaign -> {"open", "complete", "gone"}]
      BY <1>3, <2>4 DEF mailStage, Stage
    <3>2. UNCHANGED mailStage
      BY <1>2, <2>2, <3>1
    <3> QED
      BY <1>1, <2>1, <3>2 DEF Mailed!vars
  <2> QED
    BY <2>3, <2>4
<1> QED
  BY <1>4, <1>5

\* addBulk() is the launch of the mailing (of nobody, with an empty audience).
LEMMA EnqueueMails ==
    ASSUME TypeOK, TypeOK', OneLaunch, NEW r \in Request, Enqueue(r)
    PROVE  Mailed!Next
<1> USE DEF rows
<1>1. PICK c \in Campaign, aud \in SUBSET Recipient : c = req[r].c /\ aud = req[r].aud
  BY PendingFields DEF Enqueue, Pending, TypeOK
<1>2. NoJobs(c) /\ status[c] = "RUNNING" /\ UNCHANGED <<status, sent, failed, accepted>>
  BY <1>1 DEF Enqueue, OneLaunch
<1> DEFINE New == IF req[r].n \in Batch THEN aud ELSE {}
<1>3. \A k \in Recipient, b \in Batch : <<c, b, k>> \in Job /\
         job'[<<c, b, k>>] = IF b = req[r].n /\ k \in aud THEN "waiting" ELSE "none"
  BY <1>1, <1>2 DEF Enqueue, Job, NoJobs
<1>4. ASSUME NEW S, "none" \notin S, "waiting" \in S
      PROVE  RecipientsIn(c, S) = {} /\ RecipientsIn(c, S)' = New
  BY <1>2, <1>3, <1>4 DEF RecipientsIn, NoJobs
<1>5. ASSUME NEW S
      PROVE  \A d \in Campaign \ {c} : RecipientsIn(d, S)' = RecipientsIn(d, S)
  <2> SUFFICES ASSUME NEW d \in Campaign \ {c} PROVE RecipientsIn(d, S)' = RecipientsIn(d, S)
    OBVIOUS
  <2>1. \A i \in JobsOf(d) : i \in Job /\ i[1] # c
    BY DEF JobsOf, Job
  <2>2. \A i \in JobsOf(d) : job'[i] = job[i]
    BY <1>1, <2>1 DEF Enqueue
  <2> QED
    BY <2>2, SameRecipients
<1>6. "waiting" \in Unsettled /\ "none" \notin Unsettled /\ "waiting" \in JobState
  BY DEF Unsettled, JobState, Counted
<1>7. mailAudience[c] = {} /\ mailAudience' = [mailAudience EXCEPT ![c] = New]
  <2> DEFINE S == JobState \ {"none"}
  <2>1. RecipientsIn(c, S) = {} /\ RecipientsIn(c, S)' = New
    BY <1>4, <1>6
  <2>2. \A d \in Campaign \ {c} : RecipientsIn(d, S)' = RecipientsIn(d, S)
    BY <1>5
  <2> QED
    BY <2>1, <2>2 DEF mailAudience
<1>8. mailPending' = [mailPending EXCEPT ![c] = New]
  BY <1>2, <1>4, <1>5, <1>6 DEF mailPending
<1>9. mailStage[c] = "open" /\ UNCHANGED <<mailStage, mailCounts>>
  BY <1>2 DEF mailStage, Stage, mailCounts, Messages
<1>10. New \in SUBSET Recipient
  OBVIOUS
<1>11. mailPosting' = mailPosting
  <2>1. \A d \in Campaign : RecipientsIn(d, {"post"})' = RecipientsIn(d, {"post"})
    <3>1. RecipientsIn(c, {"post"}) = {} /\ RecipientsIn(c, {"post"})' = {}
      BY <1>2, <1>3 DEF RecipientsIn, NoJobs
    <3> QED
      BY <1>5, <3>1
  <2> QED
    BY <2>1 DEF mailPosting
<1> HIDE DEF New
<1>12. Mailed!Launch(c)
  BY <1>2, <1>7, <1>8, <1>9, <1>10, <1>11 DEF Mailed!Launch
<1> QED
  BY <1>12 DEF Mailed!Next

\* The Graph API accepts the message of a recipient, its first.
LEMMA AcceptMails ==
    ASSUME TypeOK, TypeOK', OneLaunch, NoReruns, NEW j \in Job, job[j] = "post",
           NEW next \in {"countSent", "countFailed"},
           accepted' = [accepted EXCEPT ![j] = @ + 1], job' = [job EXCEPT ![j] = next],
           UNCHANGED <<status, sent, failed>>
    PROVE  Mailed!Next
<1> DEFINE c == j[1]
           k == j[3]
<1>1. c \in Campaign /\ k \in Recipient /\ j[2] \in Batch /\ j = <<j[1], j[2], j[3]>>
  BY DEF Job
<1>2. accepted[j] = 0 /\ accepted'[j] = 1
  BY DEF NoReruns, Unsent, TypeOK
<1>3. \A b \in Batch : b # j[2] => accepted[<<c, b, k>>] = 0 /\ accepted'[<<c, b, k>>] = 0
  <2> SUFFICES ASSUME NEW b \in Batch, b # j[2]
               PROVE  accepted[<<c, b, k>>] = 0 /\ accepted'[<<c, b, k>>] = 0
    OBVIOUS
  <2>1. accepted[<<c, b, k>>] = 0
    BY OtherJobsSilent
  <2>2. <<c, b, k>> # j /\ <<c, b, k>> \in Job
    BY <1>1 DEF Job
  <2> QED
    BY <2>1, <2>2 DEF TypeOK
<1>4. Cardinality(Messages(c, k)) = 0
  BY <1>2, <1>3, CountOfMessages DEF Messages, TypeOK
<1>5. Cardinality(Messages(c, k)') = 1
  BY <1>2, <1>3, CountOfMessages DEF Messages, TypeOK
<1>6. \A d \in Campaign, i \in Recipient : <<d, i>> # <<c, k>> => Messages(d, i)' = Messages(d, i)
  <2> SUFFICES ASSUME NEW d \in Campaign, NEW i \in Recipient, <<d, i>> # <<c, k>>
               PROVE  Messages(d, i)' = Messages(d, i)
    OBVIOUS
  <2>1. \A b \in Batch : <<d, b, i>> \in Job /\ <<d, b, i>> # j
    BY <1>1 DEF Job
  <2>2. \A b \in Batch : accepted'[<<d, b, i>>] = accepted[<<d, b, i>>]
    BY <2>1 DEF TypeOK
  <2> QED
    BY <2>2 DEF Messages
<1>7. \A i \in Job : /\ job'[i] \in Unsettled <=> job[i] \in Unsettled
                     /\ job'[i] = "none" <=> job[i] = "none"
  BY DEF TypeOK, Unsettled, Counted, JobState, Running
<1>8. UNCHANGED <<mailAudience, mailPending, mailStage>>
  <2>1. \A d \in Campaign : \A i \in JobsOf(d) : i \in Job
    BY DEF JobsOf, Job
  <2>2. \A i \in Job : job'[i] \in JobState \ {"none"} <=> job[i] \in JobState \ {"none"}
    BY <1>7 DEF TypeOK
  <2>3. \A d \in Campaign : /\ RecipientsIn(d, JobState \ {"none"})' = RecipientsIn(d, JobState \ {"none"})
                            /\ RecipientsIn(d, Unsettled)' = RecipientsIn(d, Unsettled)
    BY <1>7, <2>1, <2>2, SameRecipients
  <2> QED
    BY <2>3 DEF mailAudience, mailPending, mailStage
<1>9. k \in mailPosting[c] /\ mailPosting' = [mailPosting EXCEPT ![c] = @ \ {k}]
  BY PostingEnds
<1> HIDE DEF c, k
<1>10. mailCounts' = [mailCounts EXCEPT ![c][k] = 1]
  <2>1. \A d \in Campaign, i \in Recipient : Cardinality(Messages(d, i)') =
           IF d = c /\ i = k THEN 1 ELSE Cardinality(Messages(d, i))
    BY <1>5, <1>6
  <2> QED
    BY <1>1, <2>1 DEF mailCounts, c, k
<1>11. mailCounts[c][k] = 0
  BY <1>1, <1>4 DEF mailCounts, c, k
<1>12. Mailed!Mail(c, k)
  BY <1>8, <1>9, <1>10, <1>11 DEF Mailed!Mail
<1> QED
  BY <1>1, <1>12 DEF Mailed!Next, c, k

\* The job goes on to ask the Graph API.
LEMMA PostBegins ==
    ASSUME TypeOK, TypeOK', OneLaunch, NoReruns, NEW j \in Job, job[j] = "send",
           Exists(j[1]), job' = [job EXCEPT ![j] = "post"],
           UNCHANGED <<status, sent, failed, accepted>>
    PROVE  Mailed!Next
<1> DEFINE c == j[1]
           k == j[3]
<1>1. c \in Campaign /\ k \in Recipient /\ j[2] \in Batch /\ j = <<j[1], j[2], j[3]>>
  BY DEF Job
<1>2. accepted[j] = 0 /\ \A b \in Batch : b # j[2] => accepted[<<c, b, k>>] = 0
  BY OtherJobsSilent DEF NoReruns, Unsent
<1>3. mailCounts[c][k] = 0
  <2>1. Cardinality(Messages(c, k)) = 0
    BY <1>2, CountOfMessages DEF Messages, TypeOK
  <2> QED
    BY <1>1, <2>1 DEF mailCounts
<1>4. k \notin mailPosting[c]
  BY NotPosting
<1>5. k \in mailPending[c]
  <2>1. job[j] \in Unsettled /\ status[c] # "DELETED"
    BY DEF Unsettled, Counted, JobState, Running, Exists, CampaignStatus
  <2> QED
    BY <1>1, <2>1 DEF mailPending, RecipientsIn
<1>6. UNCHANGED <<mailAudience, mailPending, mailCounts, mailStage>>
  <2>1. \A d \in Campaign : \A i \in JobsOf(d) : i \in Job
    BY DEF JobsOf, Job
  <2>2. \A i \in Job : /\ job'[i] \in JobState \ {"none"} <=> job[i] \in JobState \ {"none"}
                       /\ job'[i] \in Unsettled <=> job[i] \in Unsettled
    BY DEF TypeOK, Unsettled, Counted, JobState, Running
  <2>3. \A d \in Campaign :
           /\ RecipientsIn(d, JobState \ {"none"})' = RecipientsIn(d, JobState \ {"none"})
           /\ RecipientsIn(d, Unsettled)' = RecipientsIn(d, Unsettled)
    BY <2>1, <2>2, SameRecipients
  <2> QED
    BY <2>3 DEF mailAudience, mailPending, mailCounts, Messages, mailStage
<1>7. mailPosting' = [mailPosting EXCEPT ![c] = @ \cup {k}]
  <2>1. \A d \in Campaign, b \in Batch, i \in Recipient :
           job'[<<d, b, i>>] = "post" <=> (job[<<d, b, i>>] = "post" \/ <<d, b, i>> = j)
    BY DEF TypeOK, Job
  <2>2. \A d \in Campaign, b \in Batch, i \in Recipient :
           <<d, b, i>> = j <=> (d = c /\ b = j[2] /\ i = k)
    BY <1>1
  <2> HIDE DEF c, k
  <2>3. RecipientsIn(c, {"post"})' = RecipientsIn(c, {"post"}) \cup {k}
    <3>1. \A i \in Recipient :
             (\E b \in Batch : job'[<<c, b, i>>] \in {"post"}) <=>
             ((\E b \in Batch : job[<<c, b, i>>] \in {"post"}) \/ i = k)
      BY <1>1, <2>1, <2>2
    <3> QED
      BY <1>1, <3>1 DEF RecipientsIn
  <2>4. \A d \in Campaign \ {c} : RecipientsIn(d, {"post"})' = RecipientsIn(d, {"post"})
    BY <2>1, <2>2 DEF RecipientsIn
  <2> QED
    BY <1>1, <2>3, <2>4 DEF mailPosting
<1> HIDE DEF c, k
<1>8. Mailed!Begin(c, k)
  BY <1>3, <1>4, <1>5, <1>6, <1>7 DEF Mailed!Begin
<1> QED
  BY <1>1, <1>8 DEF Mailed!Next, c, k

\* The Graph API says no.
LEMMA PostFails ==
    ASSUME TypeOK, TypeOK', OneLaunch, NEW j \in Job, job[j] = "post",
           job' = [job EXCEPT ![j] = "countFailed"],
           UNCHANGED <<status, sent, failed, accepted>>
    PROVE  Mailed!Next
<1>1. j[1] \in Campaign /\ j[3] \in Recipient
  BY DEF Job
<1>2. /\ j[3] \in mailPosting[j[1]]
      /\ mailPosting' = [mailPosting EXCEPT ![j[1]] = @ \ {j[3]}]
  BY PostingEnds
<1>3. UNCHANGED <<mailAudience, mailPending, mailCounts, mailStage>>
  <2>1. \A d \in Campaign : \A i \in JobsOf(d) : i \in Job
    BY DEF JobsOf, Job
  <2>2. \A i \in Job : /\ job'[i] \in JobState \ {"none"} <=> job[i] \in JobState \ {"none"}
                       /\ job'[i] \in Unsettled <=> job[i] \in Unsettled
    BY DEF TypeOK, Unsettled, Counted, JobState, Running
  <2>3. \A d \in Campaign :
           /\ RecipientsIn(d, JobState \ {"none"})' = RecipientsIn(d, JobState \ {"none"})
           /\ RecipientsIn(d, Unsettled)' = RecipientsIn(d, Unsettled)
    BY <2>1, <2>2, SameRecipients
  <2> QED
    BY <2>3 DEF mailAudience, mailPending, mailCounts, Messages, mailStage
<1>4. Mailed!GiveUp(j[1], j[3])
  BY <1>2, <1>3 DEF Mailed!GiveUp
<1> QED
  BY <1>1, <1>4 DEF Mailed!Next

\* The message of a job about to be counted as sent was accepted.
LEMMA SentWasMailed ==
    ASSUME TypeOK, OneLaunch, NoReruns, NEW j \in Job, job[j] = "countSent"
    PROVE  mailCounts[j[1]][j[3]] = 1
<1>1. j[1] \in Campaign /\ j[3] \in Recipient
  BY DEF Job
<1>2. accepted[j] = 1 /\ \A b \in Batch : b # j[2] => accepted[<<j[1], b, j[3]>>] = 0
  BY OtherJobsSilent DEF NoReruns
<1>3. Cardinality(Messages(j[1], j[3])) = 1
  BY <1>2, CountOfMessages DEF Messages, TypeOK
<1> QED
  BY <1>1, <1>3 DEF mailCounts

\* The recipients of counted jobs are as many as the jobs.
LEMMA CountedRecipients ==
    ASSUME TypeOK, OneLaunch, NEW c \in Campaign
    PROVE  Cardinality(RecipientsIn(c, Counted)) = Cardinality(JobsIn(c, Counted))
<1> DEFINE J == JobsIn(c, Counted)
           K == RecipientsIn(c, Counted)
           f == [j \in J |-> j[3]]
<1>1. \A j \in J : j = <<c, j[2], j[3]>> /\ j[2] \in Batch /\ j[3] \in Recipient /\ job[j] \in Counted
  BY DEF JobsIn, JobsOf
<1>2. f \in Bijection(J, K)
  <2>1. \A j \in J : j[3] \in K
    BY <1>1 DEF RecipientsIn
  <2>2. \A i, j \in J : i[3] = j[3] => i = j
    <3> SUFFICES ASSUME NEW i \in J, NEW j \in J, i[3] = j[3] PROVE i = j
      OBVIOUS
    <3>1. job[<<c, i[2], j[3]>>] # "none" /\ job[<<c, j[2], j[3]>>] # "none"
      BY <1>1 DEF Counted
    <3>2. i[2] = j[2]
      BY <1>1, <3>1 DEF OneLaunch, OneBatch
    <3> QED
      BY <1>1, <3>2
  <2>3. \A k \in K : \E j \in J : j[3] = k
    <3> SUFFICES ASSUME NEW k \in K PROVE \E j \in J : j[3] = k
      OBVIOUS
    <3>1. PICK b \in Batch : job[<<c, b, k>>] \in Counted /\ k \in Recipient
      BY DEF RecipientsIn
    <3>2. <<c, b, k>> \in J
      BY <3>1 DEF JobsIn, JobsOf
    <3> QED
      BY <3>2
  <2> HIDE DEF J, K
  <2>4. f \in [J -> K] /\ \A j \in J : f[j] = j[3]
    BY <2>1
  <2> HIDE DEF f
  <2>5. f \in Injection(J, K)
    BY <2>2, <2>4 DEF Injection, IsInjective
  <2>6. f \in Surjection(J, K)
    BY <2>3, <2>4 DEF Surjection
  <2> QED
    BY <2>5, <2>6 DEF Bijection
<1>3. IsFiniteSet(J)
  BY FiniteJobsIn
<1> HIDE DEF J, K, f
<1>4. ExistsBijection(J, K)
  BY <1>2 DEF ExistsBijection
<1> QED
  BY <1>3, <1>4, FS_Bijection DEF J, K

\* The mailing counts as the model does.
LEMMA MailCardinality == \A S : Mailed!Cardinality(S) = Cardinality(S)
BY DEF Mailed!Cardinality, Cardinality

\* A worker that writes COMPLETED finds everybody counted.
LEMMA CompleteMails ==
    ASSUME TypeOK, TypeOK', OneLaunch, FinishedJobsCounted, Calm, NEW j \in Job, Settled(j[1]),
           Exists(j[1]), job[j] = "finish", job' = [job EXCEPT ![j] = "done"],
           status' = [status EXCEPT ![j[1]] = "COMPLETED"], UNCHANGED <<sent, failed, accepted>>
    PROVE  Mailed!Next
<1> DEFINE c == j[1]
<1>1. c \in Campaign /\ j \in JobsOf(c) /\ status[c] # "DELETED"
  BY DEF Job, JobsOf, Exists, CampaignStatus
<1>2. JobsIn(c, Uncounted) = {}
  BY <1>1 DEF Settled, Finishing
<1>3. sent[c] + failed[c] = Cardinality(JobsIn(c, Counted))
  <2>1. Cardinality(JobsIn(c, Counted)) \in Nat
    BY <1>1, FiniteJobsIn
  <2> QED
    BY <1>1, <2>1 DEF Settled, FinishedJobsCounted, TypeOK
<1>4. \A b \in Batch, k \in Recipient : job[<<c, b, k>>] \in Counted \cup {"none"}
  <2> SUFFICES ASSUME NEW b \in Batch, NEW k \in Recipient
               PROVE  job[<<c, b, k>>] \in Counted \cup {"none"}
    OBVIOUS
  <2>1. <<c, b, k>> \in JobsOf(c) /\ <<c, b, k>> \in Job
    BY <1>1 DEF JobsOf, Job
  <2> QED
    BY <1>2, <2>1 DEF JobsIn, Uncounted, TypeOK
<1>5. mailAudience[c] = RecipientsIn(c, Counted) /\ mailPending[c] = {}
  <2>1. RecipientsIn(c, JobState \ {"none"}) = RecipientsIn(c, Counted)
    BY <1>4 DEF RecipientsIn, Counted, JobState, Running, Ended
  <2>2. RecipientsIn(c, Unsettled) = {}
    BY <1>4 DEF RecipientsIn, Unsettled
  <2> QED
    BY <1>1, <2>1, <2>2 DEF mailAudience, mailPending
<1>6. sent[c] + failed[c] = Cardinality(mailAudience[c])
  BY <1>1, <1>3, <1>5, CountedRecipients
<1>7. UNCHANGED <<mailAudience, mailPending, mailCounts>>
  <2>1. \A d \in Campaign : \A i \in JobsOf(d) : i \in Job
    BY DEF JobsOf, Job
  <2>2. \A i \in Job : /\ job'[i] \in JobState \ {"none"} <=> job[i] \in JobState \ {"none"}
                       /\ job'[i] \in Unsettled <=> job[i] \in Unsettled
    BY DEF TypeOK, Unsettled, Counted, JobState, Running, Ended
  <2>3. \A d \in Campaign : /\ RecipientsIn(d, JobState \ {"none"})' = RecipientsIn(d, JobState \ {"none"})
                            /\ RecipientsIn(d, Unsettled)' = RecipientsIn(d, Unsettled)
    BY <2>1, <2>2, SameRecipients
  <2>4. \A d \in Campaign : status'[d] = "DELETED" <=> status[d] = "DELETED"
    BY <1>1 DEF TypeOK
  <2> QED
    BY <2>3, <2>4 DEF mailAudience, mailPending, mailCounts, Messages
<1> HIDE DEF c
<1>8. mailStage' = [mailStage EXCEPT ![c] = "complete"] /\ mailStage[c] # "gone"
  <2>1. Stage("COMPLETED") = "complete" /\ Stage(status[c]) # "gone"
    BY <1>1 DEF Stage
  <2> QED
    BY <1>1, <2>1 DEF mailStage, TypeOK, c
<1>9. mailPosting' = mailPosting
  BY SamePosting DEF TypeOK
<1>10. Mailed!Complete(c)
  BY <1>5, <1>6, <1>7, <1>8, <1>9, MailCardinality DEF Mailed!Complete
<1> QED
  BY <1>1, <1>10 DEF Mailed!Next

LEMMA WorkMails ==
    ASSUME TypeOK, TypeOK', OneLaunch, NoReruns, FinishedJobsCounted, Calm,
           MaxFault = 0, NEW j \in Job, Settled(j[1]), Work(j)
    PROVE  [Mailed!Next]_(Mailed!vars)
<1> USE DEF rows
<1>0. j[1] \in Campaign /\ j[3] \in Recipient /\ faults = 0
  BY DEF Job, Calm
<1>1. Exists(j[1]) => status[j[1]] # "DELETED"
  BY DEF Exists, CampaignStatus
<1>2. ~Exists(j[1]) => status[j[1]] = "DELETED"
  <2>1. status[j[1]] = "ABSENT" => job[j] = "none"
    <3>1. j = <<j[1], j[2], j[3]>> /\ j[2] \in Batch
      BY DEF Job
    <3> QED
      BY <1>0, <3>1 DEF OneLaunch, Unlaunched, NoJobs
  <2>2. job[j] # "none"
    BY DEF Work, CheckScope, Admit, Send, Post, Count, CheckComplete, Complete, Catch, Step
  <2> QED
    BY <1>0, <2>1, <2>2 DEF TypeOK, Exists
\* The settled jobs, and those of a campaign that is gone.
<1>3. ASSUME UNCHANGED <<status, sent, failed, accepted>>, NEW from, NEW to, Step(j, from, to),
             from \notin {"none", "post"}, to \notin {"none", "post"},
             \/ status[j[1]] = "DELETED" \/ (from \in Unsettled <=> to \in Unsettled)
      PROVE  UNCHANGED Mailed!vars
  <2>1. \A i \in Job : /\ job'[i] = "none" <=> job[i] = "none"
                       /\ job'[i] = "post" <=> job[i] = "post"
                       /\ \/ status[i[1]] = "DELETED"
                          \/ job'[i] \in Unsettled <=> job[i] \in Unsettled
    BY <1>3 DEF Step, TypeOK
  <2> QED
    BY <1>3, <2>1, MailStutters
<1>4. ASSUME NEW from \in Unsettled \ {"post"}, NEW to, to \notin Unsettled \cup {"none"},
             Step(j, from, to), status[j[1]] # "DELETED", UNCHANGED <<status, accepted>>
      PROVE  Mailed!Settle(j[1], j[3])
  BY <1>4, JobSettles DEF Step
<1> DEFINE Before == {"scope", "admit", "send", "countSent", "countFailed", "catch"}
           After == {"check", "finish", "done", "dropped", "failed"}
<1>5. Before \subseteq Unsettled /\ \A s \in After : s \notin Unsettled \cup {"none"}
  BY DEF Unsettled, JobState, Running, Ended, Counted
<1>6. CASE CheckScope(j)
  <2>1. CASE Step(j, "scope", "admit")
    <3>1. "scope" \in Unsettled /\ "admit" \in Unsettled
      BY <1>5
    <3>2. UNCHANGED <<status, sent, failed, accepted>>
      BY <1>6 DEF CheckScope
    <3> QED
      BY <1>3, <2>1, <3>1, <3>2
  <2>2. CASE Step(j, "scope", "dropped") /\ status[j[1]] # "DELETED"
    <3>1. Mailed!Settle(j[1], j[3]) /\ UNCHANGED <<sent, failed>>
      BY <1>4, <1>5, <1>6, <2>2 DEF CheckScope
    <3>2. Mailed!Drop(j[1], j[3])
      BY <3>1 DEF Mailed!Drop
    <3> QED
      BY <1>0, <3>2 DEF Mailed!Next
  <2>3. CASE Step(j, "scope", "dropped") /\ status[j[1]] = "DELETED"
    BY <1>3, <1>6, <2>3 DEF CheckScope
  <2> QED
    BY <1>6, <2>1, <2>2, <2>3 DEF CheckScope
<1>7. CASE Admit(j)
  <2>1. "admit" \in Unsettled /\ "send" \in Unsettled /\ "catch" \in Unsettled
    BY <1>5
  <2>2. UNCHANGED <<status, sent, failed, accepted>>
    BY <1>7 DEF Admit
  <2> QED
    BY <1>3, <1>7, <2>1, <2>2 DEF Admit
<1>8. CASE Send(j)
  <2>1. UNCHANGED <<status, sent, failed>>
    BY <1>8 DEF Send
  <2>2. CASE UNCHANGED accepted /\ Step(j, "send", "countFailed")
    <3>1. "send" \in Unsettled /\ "countFailed" \in Unsettled
      BY <1>5
    <3> QED
      BY <1>3, <2>1, <2>2, <3>1
  <2>3. CASE UNCHANGED accepted /\ Exists(j[1]) /\ Step(j, "send", "post")
    BY <2>1, <2>3, PostBegins DEF Step
  <2> QED
    BY <1>8, <2>2, <2>3 DEF Send
<1>8a. CASE Post(j)
  <2>1. UNCHANGED <<status, sent, failed>>
    BY <1>8a DEF Post
  <2>2. CASE UNCHANGED accepted /\ Step(j, "post", "countFailed")
    BY <2>1, <2>2, PostFails DEF Step
  <2>3. CASE /\ accepted' = [accepted EXCEPT ![j] = @ + 1]
             /\ Step(j, "post", "countSent") \/ Step(j, "post", "countFailed")
    <3>1. PICK next \in {"countSent", "countFailed"} : Step(j, "post", next)
      BY <2>3
    <3> QED
      BY <2>1, <2>3, <3>1, AcceptMails DEF Step
  <2> QED
    BY <1>8a, <2>2, <2>3 DEF Post
<1>9. CASE Count(j)
  <2>1. UNCHANGED <<status, accepted>>
    BY <1>9 DEF Count
  <2>2. CASE Exists(j[1]) /\ Step(j, "countSent", "check")
    <3>1. Mailed!Settle(j[1], j[3])
      BY <1>1, <1>4, <1>5, <2>1, <2>2
    <3>2. sent' = [sent EXCEPT ![j[1]] = @ + 1] /\ UNCHANGED failed
      BY <1>9, <2>2 DEF Count, Step
    <3>3. mailCounts[j[1]][j[3]] = 1
      BY <2>2, SentWasMailed DEF Step
    <3>4. Mailed!CountSent(j[1], j[3])
      BY <3>1, <3>2, <3>3 DEF Mailed!CountSent
    <3> QED
      BY <1>0, <3>4 DEF Mailed!Next
  <2>3. CASE Exists(j[1]) /\ Step(j, "countFailed", "check")
    <3>1. Mailed!Settle(j[1], j[3])
      BY <1>1, <1>4, <1>5, <2>1, <2>3
    <3>2. failed' = [failed EXCEPT ![j[1]] = @ + 1] /\ UNCHANGED sent
      BY <1>9, <2>3 DEF Count, Step
    <3>3. Mailed!CountFailed(j[1], j[3])
      BY <3>1, <3>2 DEF Mailed!CountFailed
    <3> QED
      BY <1>0, <3>3 DEF Mailed!Next
  <2>4. CASE ~Exists(j[1])
    BY <1>2, <1>3, <1>9, <2>1, <2>4 DEF Count
  <2> QED
    BY <1>9, <2>2, <2>3, <2>4 DEF Count
<1>10. CASE CheckComplete(j)
  <2>1. "check" \notin Unsettled /\ "finish" \notin Unsettled /\ "done" \notin Unsettled
    BY <1>5
  <2>2. UNCHANGED <<status, sent, failed, accepted>>
    BY <1>10 DEF CheckComplete
  <2> QED
    BY <1>3, <1>10, <2>1, <2>2 DEF CheckComplete
<1>11. CASE Complete(j)
  <2>1. UNCHANGED <<sent, failed, accepted>>
    BY <1>11 DEF Complete
  <2>2. CASE Exists(j[1])
    BY <1>11, <2>1, <2>2, CompleteMails DEF Complete, Step
  <2>3. CASE ~Exists(j[1])
    BY <1>2, <1>3, <1>11, <2>1, <2>3 DEF Complete
  <2> QED
    BY <2>2, <2>3
<1>12. CASE Catch(j)
  <2>1. UNCHANGED <<status, sent, accepted>>
    BY <1>12 DEF Catch
  <2>2. CASE Exists(j[1])
    <3>1. Step(j, "catch", "done") /\ failed' = [failed EXCEPT ![j[1]] = @ + 1]
      BY <1>0, <1>12, <2>2 DEF Catch
    <3>2. Mailed!Settle(j[1], j[3])
      BY <1>1, <1>4, <1>5, <2>1, <2>2, <3>1
    <3>3. Mailed!CountFailed(j[1], j[3])
      BY <2>1, <3>1, <3>2 DEF Mailed!CountFailed
    <3> QED
      BY <1>0, <3>3 DEF Mailed!Next
  <2>3. CASE ~Exists(j[1])
    <3>1. Step(j, "catch", "failed") /\ UNCHANGED failed
      BY <1>0, <1>12, <2>3 DEF Catch
    <3> QED
      BY <1>2, <1>3, <2>1, <2>3, <3>1
  <2> QED
    BY <2>2, <2>3
<1> QED
  BY <1>6, <1>7, <1>8, <1>8a, <1>9, <1>10, <1>11, <1>12 DEF Work

LEMMA NextMails ==
    ASSUME TypeOK, TypeOK', OneLaunch, NoReruns, FinishedJobsCounted, Calm,
           \A c \in Campaign : Settled(c), MaxCrash = 0, MaxFault = 0, [Next]_vars
    PROVE  [Mailed!Next]_(Mailed!vars)
<1> USE DEF rows, queue
<1>1. ASSUME UNCHANGED <<job, status, sent, failed, accepted>>
      PROVE  UNCHANGED Mailed!vars
  BY <1>1, MailStutters
<1>2. CASE \E c \in Campaign : Create(c)
  <2>1. PICK c \in Campaign : Create(c)
    BY <1>2
  <2>2. \A d \in Campaign : Stage(status'[d]) = Stage(status[d])
    BY <2>1 DEF Create, Stage, TypeOK
  <2> QED
    BY <2>1, <2>2, MailStutters DEF Create
<1>3. CASE \E r \in Request : \E c \in Campaign : Read(r, c)
  BY <1>1, <1>3, ReadBegins DEF Begin
<1>4. CASE \E r \in Request : Write(r)
  <2>1. PICK r \in Request : Write(r)
    BY <1>4
  <2>2. CASE Enqueue(r)
    BY <2>2, EnqueueMails
  <2>3. CASE WriteDelete(r) \/ WriteSchedule(r) \/ WritePause(r) \/ WriteResume(r) \/ WriteCancel(r)
    <3>1. PICK at \in Pending, s \in {"DELETED", "SCHEDULED", "PAUSED", "RUNNING", "CANCELLED"} :
              WriteStatus(r, at, s)
      BY <2>3 DEF WriteDelete, WriteSchedule, WritePause, WriteResume, WriteCancel, Pending
    <3>2. req[r].c \in Campaign
      BY <3>1, PendingFields DEF WriteStatus, TypeOK
    <3>3. /\ Exists(req[r].c) /\ status' = [status EXCEPT ![req[r].c] = s]
          /\ UNCHANGED <<job, accepted, sent, failed>>
      BY <3>1 DEF WriteStatus
    <3>4. s \in CampaignStatus \cup {"DELETED"} /\ s # "COMPLETED"
      BY DEF CampaignStatus
    <3> QED
      BY <3>2, <3>3, <3>4, StatusMails
  <2>4. CASE WriteLaunch(r)
    <3>1. req[r].c \in Campaign
      BY <2>4, PendingFields DEF WriteLaunch, Pending, TypeOK
    <3>2. /\ Exists(req[r].c) /\ status' = [status EXCEPT ![req[r].c] = "RUNNING"]
          /\ UNCHANGED <<job, accepted, sent, failed>>
      BY <2>4 DEF WriteLaunch
    <3> QED
      BY <3>1, <3>2, StatusMails DEF CampaignStatus
  <2>5. CASE RowGone(r) \/ WriteUpdate(r) \/ PauseQueue(r) \/ ResumeQueue(r)
    BY <1>1, <2>5 DEF RowGone, WriteUpdate, PauseQueue, ResumeQueue, SetQueue
  <2> QED
    BY <2>1, <2>2, <2>3, <2>4, <2>5 DEF Write
<1>5. CASE \E j \in Job : Take(j) \/ Work(j) \/ Throw(j) \/ StalledCheck(j)
  <2>1. PICK j \in Job : Take(j) \/ Work(j) \/ Throw(j) \/ StalledCheck(j)
    BY <1>5
  <2>2. CASE Work(j)
    <3>1. j[1] \in Campaign
      BY DEF Job
    <3> QED
      BY <2>2, <3>1, WorkMails
  <2>3. CASE Take(j)
    <3>1. "waiting" \in Unsettled /\ "scope" \in Unsettled
      BY DEF Unsettled, JobState, Running, Counted
    <3>2. \A i \in Job : /\ job'[i] = "none" <=> job[i] = "none"
                         /\ job'[i] = "post" <=> job[i] = "post"
                         /\ job'[i] \in Unsettled <=> job[i] \in Unsettled
      BY <2>3, <3>1 DEF Take, Step, TypeOK
    <3> QED
      BY <2>3, <3>2, MailStutters DEF Take
  <2>4. CASE Throw(j) \/ StalledCheck(j)
    BY <2>4 DEF Throw, StalledCheck, Step, NoReruns, TypeOK
  <2> QED
    BY <2>1, <2>2, <2>3, <2>4
<1>6. CASE Crash
  BY <1>6 DEF Crash, TypeOK
<1>7. CASE UNCHANGED vars
  BY <1>1, <1>7 DEF vars
<1> QED
  BY <1>2, <1>3, <1>4, <1>5, <1>6, <1>7 DEF Next

\* With requests one at a time, no crash and no failing call, the rows, the queue
\* and its workers are a Mailing: every entry of the audience gets one message
\* at most and is settled once, and COMPLETED means all of them are counted.
THEOREM DeliveryImplementsMailing ==
    ASSUME OneAtATime, MaxCrash = 0, MaxFault = 0
    PROVE  Spec => MailedAsPromised
<1> DEFINE AllSettled == \A c \in Campaign : Settled(c)
<1>1. Init => Mailed!Init
  <2> SUFFICES ASSUME Init PROVE Mailed!Init
    OBVIOUS
  <2>1. \A c \in Campaign, k \in Recipient, b \in Batch :
           job[<<c, b, k>>] = "none" /\ accepted[<<c, b, k>>] = 0
    BY DEF Init, Job
  <2>2. ASSUME NEW c \in Campaign, NEW S, "none" \notin S
        PROVE  RecipientsIn(c, S) = {}
    BY <2>1, <2>2 DEF RecipientsIn
  <2>3. \A c \in Campaign, k \in Recipient : Messages(c, k) = {}
    <3>1. ASSUME NEW c \in Campaign, NEW k \in Recipient, NEW b \in Batch
          PROVE  {b} \X (1..accepted[<<c, b, k>>]) = {}
      <4>1. accepted[<<c, b, k>>] = 0
        BY <2>1
      <4>2. 1..0 = {}
        OBVIOUS
      <4> QED
        BY <4>1, <4>2
    <3> QED
      BY <3>1 DEF Messages
  <2>4. /\ mailAudience = [c \in Campaign |-> {}] /\ mailPending = [c \in Campaign |-> {}]
        /\ mailPosting = [c \in Campaign |-> {}]
    <3>1. \A c \in Campaign : /\ RecipientsIn(c, JobState \ {"none"}) = {}
                              /\ RecipientsIn(c, Unsettled) = {}
                              /\ RecipientsIn(c, {"post"}) = {}
      BY <2>2 DEF Unsettled
    <3> QED
      BY <3>1 DEF mailAudience, mailPending, mailPosting
  <2>5. mailCounts = [c \in Campaign |-> [k \in Recipient |-> 0]]
    BY <2>3, FS_EmptySet DEF mailCounts
  <2>6. mailStage = [c \in Campaign |-> "open"]
    BY DEF mailStage, Stage, Init
  <2> QED
    BY <2>4, <2>5, <2>6 DEF Init, Mailed!Init
<1>2. Init => OneLaunch /\ TotalsMatch /\ NoReruns /\ AllSettled
  BY InitOneLaunch, InitTotals, InitSettled, InitNoReruns
<1>3. /\ TypeOK /\ OneLaunch /\ [Next]_vars => OneLaunch'
      /\ TypeOK /\ TypeOK' /\ OneLaunch /\ TotalsMatch /\ [Next]_vars => TotalsMatch'
      /\ TypeOK /\ BatchesFresh /\ NoReruns /\ [Next]_vars => NoReruns'
  BY NextKeepsOneLaunch, NextTotals, NextNoReruns
<1>4. TypeOK /\ OneLaunch /\ TotalsMatch /\ AllSettled /\ [Next]_vars => AllSettled'
  BY NextSettled
<1>5. TypeOK => Calm
  BY DEF TypeOK, Calm
<1>6. TypeOK /\ TypeOK' /\ OneLaunch /\ NoReruns /\ FinishedJobsCounted /\ Calm
         /\ AllSettled /\ [Next]_vars => [Mailed!Next]_(Mailed!vars)
  BY NextMails
<1> QED
  <2> HIDE DEF AllSettled
  <2> QED
    BY <1>1, <1>2, <1>3, <1>4, <1>5, <1>6, FreshInit, FreshPreserved, TypeCorrect,
       CountersCoverJobs, PTL DEF Spec, MailedAsPromised, Mailed!Spec

-----------------------------------------------------------------------------
(***************************************************************************)
(* Jobs wind down: the part of JobsDrain that is about steps.              *)
(***************************************************************************)
LEMMA StagesLeftValues ==
    /\ StagesLeft["waiting"] = 10 /\ StagesLeft["scope"] = 9 /\ StagesLeft["admit"] = 8
    /\ StagesLeft["send"] = 7 /\ StagesLeft["post"] = 6
    /\ StagesLeft["countSent"] = 5 /\ StagesLeft["countFailed"] = 5
    /\ StagesLeft["check"] = 4 /\ StagesLeft["finish"] = 3 /\ StagesLeft["catch"] = 2
    /\ StagesLeft["stalled"] = 1 /\ StagesLeft["done"] = 0 /\ StagesLeft["dropped"] = 0
    /\ StagesLeft["failed"] = 0
BY DEF StagesLeft, JobState, Running, Ended

\* A step between stages, of a job whose stalls do not change.
LEMMA FewerStages ==
    ASSUME NEW j \in Job, job[j] \notin Ended, UNCHANGED stalledOnce,
           StagesLeft[job[j]] \in Nat, StagesLeft[job'[j]] \in Nat,
           StagesLeft[job'[j]] < StagesLeft[job[j]]
    PROVE  job[j] \notin Ended /\ StepsLeft(j)' < StepsLeft(j)
<1>1. CASE j \in stalledOnce
  BY <1>1 DEF StepsLeft
<1>2. CASE j \notin stalledOnce
  BY <1>2 DEF StepsLeft
<1> QED
  BY <1>1, <1>2

LEMMA NextWindsDown ==
    ASSUME TypeOK, BatchesFresh, [Next]_vars, NEW j \in Job, job[j] # "none", job'[j] # job[j]
    PROVE  job[j] \notin Ended /\ StepsLeft(j)' < StepsLeft(j)
<1> USE DEF rows, queue
<1>1. CASE UNCHANGED job
  BY <1>1
<1>2. CASE \E r \in Request : Enqueue(r)
  <2>1. PICK r \in Request : Enqueue(r)
    BY <1>2
  <2>2. Untouched(req[r].c, req[r].n)
    BY <2>1 DEF Enqueue, BatchesFresh, Launching
  <2>3. j = <<j[1], j[2], j[3]>> /\ j[1] = req[r].c /\ j[2] = req[r].n /\ j[3] \in Recipient
    BY <2>1 DEF Enqueue, Job
  <2> QED
    BY <2>2, <2>3 DEF Untouched
<1>3. CASE \E i \in Job : Take(i) \/ Work(i) \/ Throw(i)
  <2>1. PICK i \in Job : Take(i) \/ Work(i) \/ Throw(i)
    BY <1>3
  <2>2. i = j
    BY <2>1 DEF Take, Work, CheckScope, Admit, Send, Post, Count, CheckComplete, Complete,
                Catch, Throw, Step, TypeOK
  <2>3. UNCHANGED stalledOnce
    BY <2>1 DEF Take, Work, CheckScope, Admit, Send, Post, Count, CheckComplete, Complete,
                Catch, Throw
  <2>4. job[j] \notin Ended
    BY <2>1, <2>2 DEF Take, Work, CheckScope, Admit, Send, Post, Count, CheckComplete, Complete,
                      Catch, Throw, Step, Ended
  <2>5. CASE Take(j) \/ CheckScope(j) \/ Admit(j) \/ Send(j) \/ Post(j)
    <3>1. \/ job[j] = "waiting" /\ job'[j] = "scope"
          \/ job[j] = "scope" /\ job'[j] \in {"admit", "dropped"}
          \/ job[j] = "admit" /\ job'[j] \in {"send", "catch"}
          \/ job[j] = "send" /\ job'[j] \in {"post", "countFailed"}
          \/ job[j] = "post" /\ job'[j] \in {"countSent", "countFailed"}
      BY <2>5 DEF Take, CheckScope, Admit, Send, Post, Step, TypeOK
    <3> QED
      BY <2>3, <2>4, <3>1, StagesLeftValues, FewerStages
  <2>6. CASE Count(j) \/ CheckComplete(j) \/ Complete(j) \/ Catch(j)
    <3>1. \/ job[j] \in {"countSent", "countFailed"} /\ job'[j] \in {"check", "catch"}
          \/ job[j] = "check" /\ job'[j] \in {"finish", "done"}
          \/ job[j] = "finish" /\ job'[j] \in {"done", "catch"}
          \/ job[j] = "catch" /\ job'[j] \in {"done", "failed"}
      BY <2>6 DEF Count, CheckComplete, Complete, Catch, Step, TypeOK
    <3> QED
      BY <2>3, <2>4, <3>1, StagesLeftValues, FewerStages
  <2>7. CASE Throw(j)
    <3>1. /\ job[j] \in {"scope", "admit", "countSent", "countFailed", "check", "finish"}
          /\ job'[j] = "catch"
      BY <2>7 DEF Throw, TypeOK
    <3> QED
      BY <2>3, <2>4, <3>1, StagesLeftValues, FewerStages
  <2> QED
    BY <2>1, <2>2, <2>5, <2>6, <2>7 DEF Work
<1>4. CASE \E i \in Job : StalledCheck(i)
  <2>1. StalledCheck(j) /\ job[j] = "stalled"
    BY <1>4 DEF StalledCheck, Step, TypeOK
  <2>2. j \in stalledOnce'
    BY <2>1 DEF StalledCheck
  <2>3. CASE j \in stalledOnce
    <3>1. job'[j] = "failed"
      BY <2>1, <2>3 DEF StalledCheck, Step, TypeOK
    <3> QED
      BY <2>1, <2>2, <2>3, <3>1, StagesLeftValues DEF StepsLeft, Ended
  <2>4. CASE j \notin stalledOnce
    <3>1. job'[j] = "waiting"
      BY <2>1, <2>4 DEF StalledCheck, Step, TypeOK
    <3> QED
      BY <2>1, <2>2, <2>4, <3>1, StagesLeftValues DEF StepsLeft, Ended
  <2> QED
    BY <2>3, <2>4
<1>5. CASE Crash
  <2>1. job[j] \in Running /\ job'[j] = "stalled" /\ UNCHANGED stalledOnce
    BY <1>5 DEF Crash
  <2>2. job[j] \notin Ended
    BY <2>1 DEF Running, Ended
  <2> QED
    BY <2>1, <2>2, StagesLeftValues, FewerStages DEF Running
<1>6. CASE \E r \in Request : Write(r) /\ ~Enqueue(r)
  BY <1>1, <1>6 DEF Write, RowGone, WriteUpdate, WriteDelete, WriteSchedule, WriteStatus,
                    WriteLaunch, WritePause, WriteResume, WriteCancel, PauseQueue,
                    ResumeQueue, SetQueue
<1>7. CASE \E c \in Campaign : Create(c) \/ \E r \in Request : Read(r, c)
  BY <1>1, <1>7, ReadBegins DEF Create, Begin
<1>8. CASE UNCHANGED vars
  BY <1>1, <1>8 DEF vars
<1> QED
  BY <1>2, <1>3, <1>4, <1>5, <1>6, <1>7, <1>8 DEF Next

\* No step sends a job in circles, whatever crashes, stalls, throws or is launched
\* again: a job has at most 20 steps to its end and never leaves it.  What fairness
\* adds to this in JobsDrain is only that the next step is taken.
THEOREM JobsComeToAnEnd == Spec => JobsWindDown
<1>1. TypeOK /\ BatchesFresh /\ [Next]_vars =>
         [\A j \in Job : (job[j] # "none" /\ job'[j] # job[j]) =>
             job[j] \notin Ended /\ StepsLeft(j)' < StepsLeft(j)]_vars
  BY NextWindsDown
<1> QED
  BY <1>1, FreshInit, FreshPreserved, TypeCorrect, PTL DEF Spec, JobsWindDown

-----------------------------------------------------------------------------
(***************************************************************************)
(* What a Mailing adds up to, for one campaign: audience A, pending P,     *)
(* messages m, counters s and f.                                           *)
(***************************************************************************)
Reached(m) == {k \in Recipient : m[k] # 0}
Fits(A, P, m, s, f) ==
    /\ A \subseteq Recipient /\ P \subseteq A
    /\ m \in [Recipient -> {0, 1}] /\ Reached(m) \subseteq A
    /\ s \in Nat /\ f \in Nat
    /\ s + f + Cardinality(P) <= Cardinality(A)
    /\ s <= Cardinality(Reached(m) \ P)

LEMMA FiniteRecipients ==
    ASSUME NEW S \in SUBSET Recipient
    PROVE  IsFiniteSet(S) /\ Cardinality(S) \in Nat
BY CampaignAssumption, FS_Subset, FS_CardinalityType

LEMMA MailFits ==
    ASSUME NEW A, NEW P, NEW m, NEW s, NEW f, Fits(A, P, m, s, f), NEW k \in A
    PROVE  Fits(A, P, [m EXCEPT ![k] = 1], s, f)
<1> DEFINE n == [m EXCEPT ![k] = 1]
<1>1. k \in Recipient /\ n \in [Recipient -> {0, 1}]
  BY DEF Fits
<1>2. Reached(n) = Reached(m) \cup {k}
  BY <1>1 DEF Fits, Reached
<1>3. Cardinality(Reached(m) \ P) <= Cardinality(Reached(n) \ P)
  <2>1. Reached(n) \ P \in SUBSET Recipient /\ Reached(m) \ P \subseteq Reached(n) \ P
    BY <1>2 DEF Reached
  <2> QED
    BY <2>1, FiniteRecipients, FS_Subset
<1>4. Cardinality(Reached(m) \ P) \in Nat /\ Cardinality(Reached(n) \ P) \in Nat
  <2>1. Reached(n) \ P \in SUBSET Recipient /\ Reached(m) \ P \in SUBSET Recipient
    BY DEF Reached
  <2> QED
    BY <2>1, FiniteRecipients
<1>5. s \in Nat /\ s <= Cardinality(Reached(m) \ P)
  BY DEF Fits
<1>6. s <= Cardinality(Reached(n) \ P) /\ Reached(n) \subseteq A
  <2>1. Reached(m) \subseteq A
    BY DEF Fits
  <2>2. s <= Cardinality(Reached(n) \ P)
    <3> HIDE DEF n
    <3> QED
      BY <1>3, <1>4, <1>5
  <2>3. Reached(n) \subseteq A
    <3> HIDE DEF n
    <3> QED
      BY <1>2, <2>1
  <2> QED
    BY <2>2, <2>3
<1> HIDE DEF n
<1> QED
  BY <1>1, <1>6 DEF Fits, n

LEMMA SettleFits ==
    ASSUME NEW A, NEW P, NEW m, NEW s, NEW f, Fits(A, P, m, s, f), NEW k \in P
    PROVE  /\ Fits(A, P \ {k}, m, s, f + 1) /\ Fits(A, P \ {k}, m, s, f)
           /\ m[k] # 0 => Fits(A, P \ {k}, m, s + 1, f)
<1>1. /\ A \subseteq Recipient /\ P \subseteq A /\ s \in Nat /\ f \in Nat
      /\ Reached(m) \subseteq Recipient
  BY DEF Fits, Reached
<1>2. Cardinality(P \ {k}) = Cardinality(P) - 1 /\ Cardinality(P) \in Nat
  BY <1>1, FiniteRecipients, FS_RemoveElement
<1>3. Cardinality(A) \in Nat
  BY <1>1, FiniteRecipients
<1> DEFINE R == Reached(m) \ P
           Q == Reached(m) \ (P \ {k})
<1>4. R \in SUBSET Recipient /\ Q \in SUBSET Recipient /\ R \subseteq Q
  BY <1>1
<1>5. Cardinality(R) \in Nat /\ Cardinality(Q) \in Nat /\ Cardinality(R) <= Cardinality(Q)
  BY <1>4, FiniteRecipients, FS_Subset
<1>6. m[k] # 0 => Cardinality(Q) = Cardinality(R) + 1
  <2> SUFFICES ASSUME m[k] # 0 PROVE Cardinality(Q) = Cardinality(R) + 1
    OBVIOUS
  <2>1. Q = R \cup {k} /\ k \notin R
    BY <1>1 DEF Reached
  <2> QED
    BY <1>4, <2>1, FiniteRecipients, FS_AddElement
<1>7. s <= Cardinality(R) /\ s + f + Cardinality(P) <= Cardinality(A)
  BY DEF Fits
<1>8. P \ {k} \subseteq A /\ m \in [Recipient -> {0, 1}] /\ Reached(m) \subseteq A
  BY DEF Fits
<1> HIDE DEF R, Q
<1>9. s <= Cardinality(Q) /\ (m[k] # 0 => s + 1 <= Cardinality(Q))
  BY <1>1, <1>5, <1>6, <1>7
<1>10. /\ s + (f + 1) + Cardinality(P \ {k}) <= Cardinality(A)
       /\ s + f + Cardinality(P \ {k}) <= Cardinality(A)
       /\ (s + 1) + f + Cardinality(P \ {k}) <= Cardinality(A)
  BY <1>1, <1>2, <1>3, <1>7
<1> QED
  BY <1>1, <1>8, <1>9, <1>10 DEF Fits, Q

LEMMA LaunchFits ==
    ASSUME NEW P, NEW m, NEW s, NEW f, Fits({}, P, m, s, f), NEW A \in SUBSET Recipient
    PROVE  Fits(A, A, m, s, f)
<1>1. P = {} /\ Cardinality({}) = 0 /\ Reached(m) = {} /\ Reached(m) \ P = {}
  BY FS_EmptySet DEF Fits
<1>2. s = 0 /\ f = 0
  BY <1>1 DEF Fits
<1>3. Reached(m) \ A = {}
  BY <1>1
<1>4. Cardinality(A) \in Nat
  BY FiniteRecipients
<1>5. s + f + Cardinality(A) <= Cardinality(A) /\ s <= Cardinality(Reached(m) \ A)
  BY <1>1, <1>2, <1>3, <1>4
<1>6. m \in [Recipient -> {0, 1}]
  BY DEF Fits
<1> QED
  BY <1>1, <1>2, <1>5, <1>6 DEF Fits

LEMMA DeleteFits ==
    ASSUME NEW A, NEW P, NEW m, NEW s, NEW f, Fits(A, P, m, s, f)
    PROVE  Fits(A, {}, m, s, f)
<1>1. /\ A \subseteq Recipient /\ P \subseteq A /\ s \in Nat /\ f \in Nat
      /\ Reached(m) \subseteq Recipient
  BY DEF Fits, Reached
<1> DEFINE R == Reached(m) \ P
           Q == Reached(m) \ {}
<1>2. R \in SUBSET Recipient /\ Q \in SUBSET Recipient /\ R \subseteq Q
  BY <1>1
<1>3. Cardinality(R) \in Nat /\ Cardinality(Q) \in Nat /\ Cardinality(R) <= Cardinality(Q)
  BY <1>2, FiniteRecipients, FS_Subset
<1>4. Cardinality(P) \in Nat /\ Cardinality(A) \in Nat /\ Cardinality({}) = 0
  BY <1>1, FiniteRecipients, FS_EmptySet
<1>5. s <= Cardinality(R) /\ s + f + Cardinality(P) <= Cardinality(A)
  BY DEF Fits
<1>6. m \in [Recipient -> {0, 1}] /\ Reached(m) \subseteq A
  BY DEF Fits
<1> HIDE DEF R, Q
<1>7. s <= Cardinality(Q) /\ s + f + Cardinality({}) <= Cardinality(A)
  BY <1>1, <1>3, <1>4, <1>5
<1> QED
  BY <1>1, <1>6, <1>7 DEF Fits, Q

MailInv ==
    /\ mailAudience \in [Campaign -> SUBSET Recipient]
    /\ mailPending \in [Campaign -> SUBSET Recipient]
    /\ mailPosting \in [Campaign -> SUBSET Recipient]
    /\ mailCounts \in [Campaign -> [Recipient -> {0, 1}]]
    /\ sent \in [Campaign -> Nat] /\ failed \in [Campaign -> Nat]
    /\ mailStage \in [Campaign -> {"open", "complete", "gone"}]
    /\ \A c \in Campaign :
          /\ Fits(mailAudience[c], mailPending[c], mailCounts[c], sent[c], failed[c])
          /\ mailPosting[c] \subseteq mailAudience[c]
          /\ mailStage[c] = "complete" =>
                 mailPending[c] = {} /\ sent[c] + failed[c] = Cardinality(mailAudience[c])

LEMMA EmptyFits == Fits({}, {}, [k \in Recipient |-> 0], 0, 0)
<1>1. Cardinality({}) = 0 /\ Reached([k \in Recipient |-> 0]) = {}
  BY FS_EmptySet DEF Reached
<1>2. Reached([k \in Recipient |-> 0]) \ {} = {}
  BY <1>1
<1> QED
  BY <1>1, <1>2 DEF Fits

LEMMA InitMailInv == Mailed!Init => MailInv
<1> SUFFICES ASSUME Mailed!Init PROVE MailInv
  OBVIOUS
<1> USE DEF Mailed!Init
<1>1. \A c \in Campaign : /\ mailAudience[c] = {} /\ mailPending[c] = {} /\ sent[c] = 0 /\ failed[c] = 0
                          /\ mailCounts[c] = [k \in Recipient |-> 0] /\ mailStage[c] = "open"
                          /\ mailPosting[c] = {}
  OBVIOUS
<1>2. Fits({}, {}, [k \in Recipient |-> 0], 0, 0)
  BY EmptyFits
<1>3. \A c \in Campaign : Fits(mailAudience[c], mailPending[c], mailCounts[c], sent[c], failed[c])
  BY <1>1, <1>2
<1> QED
  BY <1>1, <1>3 DEF MailInv

LEMMA NextMailInv ==
    ASSUME MailInv, [Mailed!Next]_(Mailed!vars)
    PROVE  MailInv'
<1> USE DEF MailInv
<1>1. CASE UNCHANGED Mailed!vars
  BY <1>1 DEF Mailed!vars
<1>2. CASE \E c \in Campaign : Mailed!Launch(c)
  <2>1. PICK c \in Campaign, aud \in SUBSET Recipient :
            /\ mailStage[c] = "open" /\ mailAudience[c] = {}
            /\ mailAudience' = [mailAudience EXCEPT ![c] = aud]
            /\ mailPending' = [mailPending EXCEPT ![c] = aud]
            /\ UNCHANGED <<mailPosting, mailCounts, sent, failed, mailStage>>
    BY <1>2 DEF Mailed!Launch
  <2>2. Fits(aud, aud, mailCounts[c], sent[c], failed[c])
    BY <2>1, LaunchFits
  <2>3. mailPosting[c] \subseteq aud
    BY <2>1
  <2> QED
    BY <2>1, <2>2, <2>3
<1>3. CASE \E c \in Campaign : Mailed!Complete(c)
  BY <1>3, MailCardinality DEF Mailed!Complete
<1>4. CASE \E c \in Campaign : Mailed!Reopen(c)
  BY <1>4 DEF Mailed!Reopen
<1>5. CASE \E c \in Campaign : Mailed!Delete(c)
  <2>1. PICK c \in Campaign : Mailed!Delete(c)
    BY <1>5
  <2>2. Fits(mailAudience[c], {}, mailCounts[c], sent[c], failed[c])
    BY DeleteFits
  <2> QED
    BY <2>1, <2>2 DEF Mailed!Delete
<1>6. CASE \E c \in Campaign, k \in Recipient : Mailed!Mail(c, k)
  <2>1. PICK c \in Campaign, k \in Recipient : Mailed!Mail(c, k)
    BY <1>6
  <2>2. Fits(mailAudience[c], mailPending[c], [mailCounts[c] EXCEPT ![k] = 1], sent[c], failed[c])
    BY <2>1, MailFits DEF Mailed!Mail
  <2>3. /\ mailCounts' = [mailCounts EXCEPT ![c] = [mailCounts[c] EXCEPT ![k] = 1]]
        /\ mailPosting' = [mailPosting EXCEPT ![c] = @ \ {k}]
        /\ UNCHANGED <<mailAudience, mailPending, sent, failed, mailStage>>
    BY <2>1 DEF Mailed!Mail
  <2> QED
    BY <2>2, <2>3
<1>7. CASE \E c \in Campaign, k \in Recipient :
             Mailed!CountSent(c, k) \/ Mailed!CountFailed(c, k) \/ Mailed!Drop(c, k)
  <2>1. PICK c \in Campaign, k \in Recipient :
             Mailed!CountSent(c, k) \/ Mailed!CountFailed(c, k) \/ Mailed!Drop(c, k)
    BY <1>7
  <2>2. /\ k \in mailPending[c] /\ mailPending' = [mailPending EXCEPT ![c] = @ \ {k}]
        /\ UNCHANGED <<mailAudience, mailPosting, mailCounts, mailStage>>
    BY <2>1 DEF Mailed!CountSent, Mailed!CountFailed, Mailed!Drop, Mailed!Settle
  <2>3. mailStage[c] # "complete"
    BY <2>2
  <2>4. LET P == mailPending[c] \ {k} IN
          /\ Fits(mailAudience[c], P, mailCounts[c], sent[c], failed[c] + 1)
          /\ Fits(mailAudience[c], P, mailCounts[c], sent[c], failed[c])
          /\ mailCounts[c][k] # 0 => Fits(mailAudience[c], P, mailCounts[c], sent[c] + 1, failed[c])
    BY <2>2, SettleFits
  <2>5. CASE Mailed!CountSent(c, k)
    BY <2>2, <2>3, <2>4, <2>5 DEF Mailed!CountSent
  <2>6. CASE Mailed!CountFailed(c, k)
    BY <2>2, <2>3, <2>4, <2>6 DEF Mailed!CountFailed
  <2>7. CASE Mailed!Drop(c, k)
    BY <2>2, <2>3, <2>4, <2>7 DEF Mailed!Drop
  <2> QED
    BY <2>1, <2>5, <2>6, <2>7
<1>8. CASE \E c \in Campaign, k \in Recipient : Mailed!Begin(c, k)
  <2>1. PICK c \in Campaign, k \in Recipient : Mailed!Begin(c, k)
    BY <1>8
  <2>2. k \in mailAudience[c]
    BY <2>1 DEF Mailed!Begin, Fits
  <2> QED
    BY <2>1, <2>2 DEF Mailed!Begin
<1>9. CASE \E c \in Campaign, k \in Recipient : Mailed!GiveUp(c, k)
  BY <1>9 DEF Mailed!GiveUp
<1> QED
  BY <1>1, <1>2, <1>3, <1>4, <1>5, <1>6, <1>7, <1>8, <1>9 DEF Mailed!Next

\* Whatever is a Mailing adds up: nobody outside the audience is sent anything or
\* anything twice, the counters never exceed the audience, whoever is counted as
\* sent was sent the message, and a complete campaign has counted everybody.
THEOREM MailingAddsUp == Mailed!Spec => []Mailed!AddsUp
<1>1. MailInv => Mailed!AddsUp
  BY MailCardinality DEF MailInv, Fits, Reached, Mailed!AddsUp, Mailed!MailedIn
<1> QED
  BY <1>1, InitMailInv, NextMailInv, PTL DEF Mailed!Spec

\* So do the counters and the statuses of the campaign table, with requests one
\* at a time, no crash and no failing call.
COROLLARY CampaignAddsUp ==
    ASSUME OneAtATime, MaxCrash = 0, MaxFault = 0
    PROVE  Spec => []Mailed!AddsUp
BY DeliveryImplementsMailing, MailingAddsUp, PTL DEF MailedAsPromised
=============================================================================
