-------------------------- MODULE CampaignDelivery --------------------------
(***************************************************************************)
(* Delivery of campaigns: the rows of the campaign table, the requests of  *)
(* the campaign API (campaigns.service.ts), the shared BullMQ campaign     *)
(* queue (message-queue.service.ts) and the worker that drains it          *)
(* (message-worker.service.ts).                                            *)
(*                                                                         *)
(* A request and a job are both sequences of awaited database, Redis or    *)
(* Graph API calls.  One action stands for the code from one such call to  *)
(* the next, so that everything that can happen between two calls of a     *)
(* handler can happen here.                                                *)
(***************************************************************************)
EXTENDS Naturals, FiniteSets

CONSTANTS
    Campaign,     \* campaign ids
    Recipient,    \* entries of an audience: a contact, and which mention of it
    Request,      \* slots for API requests that are in flight together
    MaxBatch,     \* bound: launches of one campaign that pass the status check
    Concurrency,  \* jobs the campaign worker runs at once (3 in the code)
    Removable,    \* those whose contact may have left the workspace meanwhile
    DailyCap,     \* is DEFAULT_TENANT_DAILY_SEND_CAP set?
    Ops,          \* which operations of the campaign API the users call
    MaxCrash,     \* bound: crashes of the backend process
    MaxFault      \* bound: database or Redis calls that throw

AllOps == {"update", "delete", "launch", "schedule", "pause", "resume", "cancel"}

ASSUME CampaignAssumption ==
    /\ IsFiniteSet(Campaign) /\ IsFiniteSet(Recipient)
    /\ MaxBatch \in Nat \ {0} /\ Concurrency \in Nat \ {0}
    /\ Removable \subseteq Recipient
    /\ DailyCap \in BOOLEAN
    /\ Ops \subseteq AllOps
    /\ MaxCrash \in Nat /\ MaxFault \in Nat

VARIABLES
    status,       \* campaign.status; ABSENT before create, DELETED after delete
    total,        \* campaign.totalRecipients
    sent,         \* campaign.sentCount
    failed,       \* campaign.failedCount
    launches,     \* launches of the campaign that passed the status check
    queuePaused,  \* is the shared campaign queue paused?
    job,          \* where each campaign job stands
    stalledOnce,  \* jobs BullMQ has put back once after their worker died
    accepted,     \* history: times the Graph API accepted the job's message
    req,          \* the API requests in flight
    crashes, faults

rows  == <<status, total, sent, failed>>
queue == <<queuePaused, job, stalledOnce, accepted>>
vars  == <<rows, launches, queue, req, crashes, faults>>

(***************************************************************************)
(* Jobs.  A launch adds one job per entry of its audience; the job id      *)
(* holds the campaign, the batch and the position of the entry.  A list of *)
(* contacts chosen by hand is taken as it comes, so that a contact it      *)
(* names twice is two recipients and gets two jobs.                        *)
(***************************************************************************)
Batch == 1..MaxBatch
Job == Campaign \X Batch \X Recipient

\* Before "done": at which awaited call of processCampaignMessage the job is.
Running == {"scope", "admit", "send", "post", "countSent", "countFailed",
            "check", "finish", "catch"}
Ended == {"done", "dropped", "failed"}
JobState == {"none", "waiting", "stalled"} \cup Running \cup Ended

JobsOf(c) == {c} \X Batch \X Recipient
JobsIn(c, states) == {j \in JobsOf(c) : job[j] \in states}
Active == {j \in Job : job[j] \in Running}

(***************************************************************************)
(* Requests.  `at` is the call the request makes next, after the row was   *)
(* read and its guards passed; `aud` is the audience and `n` the count or  *)
(* the batch the request took from what it read.                           *)
(***************************************************************************)
Idle == [at |-> "idle"]
Pending == {"update.write", "delete.write", "launch.write", "launch.enqueue",
            "schedule.write", "pause.queue", "pause.write", "resume.queue",
            "resume.write", "cancel.write"}
RequestState ==
    {Idle} \cup [at : Pending, c : Campaign, aud : SUBSET Recipient, n : Nat]

CampaignStatus == {"DRAFT", "SCHEDULED", "RUNNING", "PAUSED", "COMPLETED", "CANCELLED"}
Exists(c) == status[c] \in CampaignStatus

-----------------------------------------------------------------------------
Init ==
    /\ status = [c \in Campaign |-> "ABSENT"]
    /\ total = [c \in Campaign |-> 0]
    /\ sent = [c \in Campaign |-> 0]
    /\ failed = [c \in Campaign |-> 0]
    /\ launches = [c \in Campaign |-> 0]
    /\ queuePaused = FALSE
    /\ job = [j \in Job |-> "none"]
    /\ stalledOnce = {}
    /\ accepted = [j \in Job |-> 0]
    /\ req = [r \in Request |-> Idle]
    /\ crashes = 0 /\ faults = 0

(***************************************************************************)
(* The campaign API.                                                       *)
(***************************************************************************)
\* create(): one insert, with the recipient count of the audience of now.
Create(c) ==
    /\ status[c] = "ABSENT"
    /\ \E aud \in SUBSET Recipient : total' = [total EXCEPT ![c] = Cardinality(aud)]
    /\ status' = [status EXCEPT ![c] = "DRAFT"]
    /\ UNCHANGED <<sent, failed, launches, queue, req, crashes, faults>>

\* A request has read the row, its guards hold, and it goes on to `at`.
Begin(r, op, at, c, aud, n) ==
    /\ op \in Ops
    /\ req[r] = Idle
    /\ req' = [req EXCEPT ![r] = [at |-> at, c |-> c, aud |-> aud, n |-> n]]
    /\ UNCHANGED <<rows, queue, crashes, faults>>

\* update(): drafts only.  The new totalRecipients is computed from what was
\* read: the count of a new audience, or the old total when it is unchanged.
ReadUpdate(r, c) ==
    /\ status[c] = "DRAFT"
    /\ \E n \in {Cardinality(aud) : aud \in SUBSET Recipient} \cup {total[c]} :
           Begin(r, "update", "update.write", c, {}, n)
    /\ UNCHANGED launches

ReadDelete(r, c) ==
    /\ status[c] \in {"DRAFT", "COMPLETED", "CANCELLED"}
    /\ Begin(r, "delete", "delete.write", c, {}, 0)
    /\ UNCHANGED launches

\* Slip: launch() lets a cancelled campaign be launched again.
Slip_RelaunchCancelled(r, c) ==
    /\ status[c] \in {"DRAFT", "SCHEDULED", "CANCELLED"}
    /\ total[c] # 0
    /\ launches[c] < MaxBatch
    /\ \E aud \in (SUBSET Recipient) \ {{}} :
           Begin(r, "launch", "launch.write", c, aud, launches[c] + 1)
    /\ launches' = [launches EXCEPT ![c] = @ + 1]

\* launch(): the audience is queried again, it need not be the one counted.
ReadLaunch(r, c) ==
    /\ status[c] \in {"DRAFT", "SCHEDULED"}
    /\ total[c] # 0
    /\ launches[c] < MaxBatch
    /\ \E aud \in (SUBSET Recipient) \ {{}} :
           Begin(r, "launch", "launch.write", c, aud, launches[c] + 1)
    /\ launches' = [launches EXCEPT ![c] = @ + 1]

ReadSchedule(r, c) ==
    /\ status[c] = "DRAFT"
    /\ Begin(r, "schedule", "schedule.write", c, {}, 0)
    /\ UNCHANGED launches

ReadPause(r, c) ==
    /\ status[c] = "RUNNING"
    /\ Begin(r, "pause", "pause.queue", c, {}, 0)
    /\ UNCHANGED launches

ReadResume(r, c) ==
    /\ status[c] = "PAUSED"
    /\ Begin(r, "resume", "resume.queue", c, {}, 0)
    /\ UNCHANGED launches

ReadCancel(r, c) ==
    /\ status[c] \in {"RUNNING", "PAUSED", "SCHEDULED"}
    /\ Begin(r, "cancel", "cancel.write", c, {}, 0)
    /\ UNCHANGED launches

\* The second half of a request: update() by id, which throws when the row is
\* gone and otherwise writes whatever the status has become since it was read.
Finish(r) == req' = [req EXCEPT ![r] = Idle]
GoTo(r, at) == req' = [req EXCEPT ![r].at = at]

RowGone(r) ==
    /\ req[r].at \in Pending \ {"launch.enqueue", "pause.queue", "resume.queue"}
    /\ ~Exists(req[r].c)
    /\ Finish(r)
    /\ UNCHANGED <<rows, launches, queue, crashes, faults>>

WriteUpdate(r) ==
    /\ req[r].at = "update.write" /\ Exists(req[r].c)
    /\ total' = [total EXCEPT ![req[r].c] = req[r].n]
    /\ Finish(r)
    /\ UNCHANGED <<status, sent, failed, launches, queue, crashes, faults>>

\* The status a request writes, and nothing else of the row.
WriteStatus(r, at, s) ==
    /\ req[r].at = at /\ Exists(req[r].c)
    /\ status' = [status EXCEPT ![req[r].c] = s]
    /\ Finish(r)
    /\ UNCHANGED <<total, sent, failed, launches, queue, crashes, faults>>

WriteDelete(r)   == WriteStatus(r, "delete.write", "DELETED")
WriteSchedule(r) == WriteStatus(r, "schedule.write", "SCHEDULED")
WritePause(r)    == WriteStatus(r, "pause.write", "PAUSED")
WriteResume(r)   == WriteStatus(r, "resume.write", "RUNNING")
WriteCancel(r)   == WriteStatus(r, "cancel.write", "CANCELLED")

\* launch(): first the row is RUNNING, then the jobs are added.
WriteLaunch(r) ==
    /\ req[r].at = "launch.write" /\ Exists(req[r].c)
    /\ status' = [status EXCEPT ![req[r].c] = "RUNNING"]
    /\ total' = [total EXCEPT ![req[r].c] = Cardinality(req[r].aud)]
    /\ GoTo(r, "launch.enqueue")
    /\ UNCHANGED <<sent, failed, launches, queue, crashes, faults>>

\* addCampaignMessages(): one addBulk, all the jobs of the batch or none.
Enqueue(r) ==
    /\ req[r].at = "launch.enqueue"
    /\ job' = [j \in Job |-> IF /\ j[1] = req[r].c /\ j[2] = req[r].n
                                /\ j[3] \in req[r].aud
                             THEN "waiting" ELSE job[j]]
    /\ Finish(r)
    /\ UNCHANGED <<rows, launches, queuePaused, stalledOnce, accepted, crashes, faults>>

\* pauseQueue() and resumeQueue() act on the one queue all campaigns share.
SetQueue(r, at, paused, next) ==
    /\ req[r].at = at
    /\ queuePaused' = paused
    /\ GoTo(r, next)
    /\ UNCHANGED <<rows, launches, job, stalledOnce, accepted, crashes, faults>>

\* Slip: pauseQueue() is given a name getQueue() does not know, and does nothing.
Slip_PauseUnknownQueue(r) == SetQueue(r, "pause.queue", queuePaused, "pause.write")

PauseQueue(r)  == SetQueue(r, "pause.queue", TRUE, "pause.write")
ResumeQueue(r) == SetQueue(r, "resume.queue", FALSE, "resume.write")

(***************************************************************************)
(* The campaign worker: processCampaignMessage().                          *)
(***************************************************************************)
Step(j, from, to) ==
    /\ job[j] = from
    /\ job' = [job EXCEPT ![j] = to]

\* A call of the step throws: control goes to the catch block.
Throw(j) ==
    /\ faults < MaxFault
    /\ job[j] \in {"scope", "admit", "countSent", "countFailed", "check", "finish"}
    /\ job' = [job EXCEPT ![j] = "catch"]
    /\ faults' = faults + 1
    /\ UNCHANGED <<rows, launches, queuePaused, stalledOnce, accepted, req, crashes>>

\* BullMQ hands a waiting job to a free slot of the worker.
Take(j) ==
    /\ ~queuePaused
    /\ Cardinality(Active) < Concurrency
    /\ Step(j, "waiting", "scope")
    /\ UNCHANGED <<rows, launches, queuePaused, stalledOnce, accepted, req, crashes, faults>>

\* assertJobTenantScope(): page, contact and campaign must be of the workspace.
\* When it fails the job returns at once, without touching the counters.
InScope(j) == Exists(j[1])
CheckScope(j) ==
    /\ \/ InScope(j) /\ Step(j, "scope", "admit")
       \/ (~InScope(j) \/ j[3] \in Removable) /\ Step(j, "scope", "dropped")
    /\ UNCHANGED <<rows, launches, queuePaused, stalledOnce, accepted, req, crashes, faults>>

\* Slip: the refusal by the daily cap counts a failure before it throws, and the
\* catch block counts it again.
Slip_AdmitCountsCap(j) ==
    /\ \/ Step(j, "admit", "send") /\ UNCHANGED failed
       \/ DailyCap /\ Step(j, "admit", "catch") /\ failed' = [failed EXCEPT ![j[1]] = @ + 1]
    /\ UNCHANGED <<status, total, sent, launches, queuePaused, stalledOnce, accepted,
                   req, crashes, faults>>

\* The page limits always let the job through (an object is never falsy); the
\* tenant's daily cap, when there is one, may make consumeSendSlot throw.
Admit(j) ==
    /\ \/ Step(j, "admit", "send")
       \/ DailyCap /\ Step(j, "admit", "catch")
    /\ UNCHANGED <<rows, launches, queuePaused, stalledOnce, accepted, req, crashes, faults>>

\* SendApiService.sendMessage() never throws.  It refuses (no bypass method, no
\* conversation), or it inserts the message row, which refers to the campaign and
\* cannot be inserted when the campaign row is gone.
Send(j) ==
    /\ \/ Exists(j[1]) /\ Step(j, "send", "post")
       \/ Step(j, "send", "countFailed")
    /\ UNCHANGED <<rows, launches, queuePaused, stalledOnce, accepted, req, crashes, faults>>

\* The Graph API is asked, also when the campaign was deleted since the insert.
\* It says no, or it accepts; an accepted message can be reported as a failure.
Post(j) ==
    /\ \/ /\ accepted' = [accepted EXCEPT ![j] = @ + 1]
          /\ Step(j, "post", "countSent") \/ Step(j, "post", "countFailed")
       \/ Step(j, "post", "countFailed") /\ UNCHANGED accepted
    /\ UNCHANGED <<rows, launches, queuePaused, stalledOnce, req, crashes, faults>>

\* Slip: a result that is not a success throws, so that BullMQ runs it again,
\* as processMessage() does with its errors.
Slip_CountRetries(j) ==
    /\ Step(j, "countSent", "check") \/ Step(j, "countFailed", "waiting")
    /\ UNCHANGED <<rows, launches, queuePaused, stalledOnce, accepted, req, crashes, faults>>

\* campaign.update() with an increment; it throws when the row was deleted.
Count(j) ==
    /\ \/ /\ Exists(j[1])
          /\ \/ /\ Step(j, "countSent", "check")
                /\ sent' = [sent EXCEPT ![j[1]] = @ + 1]
                /\ UNCHANGED failed
             \/ /\ Step(j, "countFailed", "check")
                /\ failed' = [failed EXCEPT ![j[1]] = @ + 1]
                /\ UNCHANGED sent
       \/ /\ ~Exists(j[1])
          /\ Step(j, "countSent", "catch") \/ Step(j, "countFailed", "catch")
          /\ UNCHANGED <<sent, failed>>
    /\ UNCHANGED <<status, total, launches, queuePaused, stalledOnce, accepted,
                   req, crashes, faults>>

\* Slips: the completion check is off by one, or forgets the failures.
Slip_OffByOne(c) == sent[c] + failed[c] + 1 >= total[c]
Slip_OnlySent(c) == sent[c] >= total[c]

\* The counters are read again to see whether this was the last recipient.
AllCounted(c) == sent[c] + failed[c] >= total[c]
CheckComplete(j) ==
    /\ IF Exists(j[1]) /\ AllCounted(j[1])
       THEN Step(j, "check", "finish")
       ELSE Step(j, "check", "done")
    /\ UNCHANGED <<rows, launches, queuePaused, stalledOnce, accepted, req, crashes, faults>>

\* COMPLETED is written whatever the status is by now.
Complete(j) ==
    /\ \/ /\ Exists(j[1])
          /\ Step(j, "finish", "done")
          /\ status' = [status EXCEPT ![j[1]] = "COMPLETED"]
       \/ /\ ~Exists(j[1])
          /\ Step(j, "finish", "catch")
          /\ UNCHANGED status
    /\ UNCHANGED <<total, sent, failed, launches, queuePaused, stalledOnce,
                   accepted, req, crashes, faults>>

\* Slips: the catch block forgets to count, or stops when the campaign row is
\* gone.
Slip_CatchForgets(j) ==
    /\ Step(j, "catch", "done")
    /\ UNCHANGED <<rows, launches, queuePaused, stalledOnce, accepted, req, crashes, faults>>

Slip_CatchNeedsRow(j) ==
    /\ Exists(j[1])
    /\ Step(j, "catch", "done")
    /\ failed' = [failed EXCEPT ![j[1]] = @ + 1]
    /\ UNCHANGED <<status, total, sent, launches, queuePaused, stalledOnce, accepted,
                   req, crashes, faults>>

\* The catch block counts a failure; when that throws too the job fails for
\* good (attempts: 1).  There is no completion check here.
Catch(j) ==
    /\ \/ /\ Exists(j[1])
          /\ Step(j, "catch", "done")
          /\ failed' = [failed EXCEPT ![j[1]] = @ + 1]
          /\ UNCHANGED faults
       \/ /\ ~Exists(j[1])
          /\ Step(j, "catch", "failed")
          /\ UNCHANGED <<failed, faults>>
       \/ /\ faults < MaxFault
          /\ Step(j, "catch", "failed")
          /\ faults' = faults + 1
          /\ UNCHANGED failed
    /\ UNCHANGED <<status, total, sent, launches, queuePaused, stalledOnce,
                   accepted, req, crashes>>

(***************************************************************************)
(* The environment: crashes of the process, and BullMQ's stalled check.    *)
(***************************************************************************)
\* API and workers are one process: requests in flight are gone, and the jobs
\* that were running keep their lock until BullMQ finds them stalled.
Crash ==
    /\ crashes < MaxCrash
    /\ crashes' = crashes + 1
    /\ req' = [r \in Request |-> Idle]
    /\ job' = [j \in Job |-> IF job[j] \in Running THEN "stalled" ELSE job[j]]
    /\ UNCHANGED <<rows, launches, queuePaused, stalledOnce, accepted, faults>>

\* A stalled job goes back to the queue once (maxStalledCount is 1 by default,
\* and counts apart from attempts); the second time it fails.
StalledCheck(j) ==
    /\ IF j \in stalledOnce THEN Step(j, "stalled", "failed")
                            ELSE Step(j, "stalled", "waiting")
    /\ stalledOnce' = stalledOnce \cup {j}
    /\ UNCHANGED <<rows, launches, queuePaused, accepted, req, crashes, faults>>

-----------------------------------------------------------------------------
Read(r, c) ==
    \/ ReadUpdate(r, c) \/ ReadDelete(r, c) \/ ReadLaunch(r, c) \/ ReadSchedule(r, c)
    \/ ReadPause(r, c) \/ ReadResume(r, c) \/ ReadCancel(r, c)

Write(r) ==
    \/ RowGone(r) \/ WriteUpdate(r) \/ WriteDelete(r) \/ WriteSchedule(r)
    \/ WriteLaunch(r) \/ Enqueue(r) \/ PauseQueue(r) \/ WritePause(r)
    \/ ResumeQueue(r) \/ WriteResume(r) \/ WriteCancel(r)

Work(j) ==
    \/ CheckScope(j) \/ Admit(j) \/ Send(j) \/ Post(j) \/ Count(j)
    \/ CheckComplete(j) \/ Complete(j) \/ Catch(j)

Next ==
    \/ \E c \in Campaign : Create(c)
    \/ \E r \in Request : Write(r) \/ \E c \in Campaign : Read(r, c)
    \/ \E j \in Job : Take(j) \/ Work(j) \/ Throw(j) \/ StalledCheck(j)
    \/ Crash

Spec == Init /\ [][Next]_vars

\* A request that was started goes on, a worker that has a job goes on, BullMQ
\* hands out jobs while the queue runs and finds the stalled ones.  Nothing
\* obliges a user to send a request.
Fairness ==
    /\ \A r \in Request : WF_vars(Write(r))
    /\ \A j \in Job : /\ WF_vars(Take(j)) /\ WF_vars(Work(j))
                      /\ WF_vars(StalledCheck(j))

FairSpec == Spec /\ Fairness

-----------------------------------------------------------------------------
(***************************************************************************)
(* Properties.                                                             *)
(***************************************************************************)
\* Every variable keeps to the values the code can store in it.
TypeOK ==
    /\ status \in [Campaign -> CampaignStatus \cup {"ABSENT", "DELETED"}]
    /\ total \in [Campaign -> Nat]
    /\ sent \in [Campaign -> Nat]
    /\ failed \in [Campaign -> Nat]
    /\ launches \in [Campaign -> 0..MaxBatch]
    /\ queuePaused \in BOOLEAN
    /\ job \in [Job -> JobState]
    /\ stalledOnce \subseteq Job
    /\ accepted \in [Job -> Nat]
    /\ req \in [Request -> RequestState]
    /\ crashes \in 0..MaxCrash
    /\ faults \in 0..MaxFault

\* The job has added to a counter of its campaign and has not lost track of it.
Counted == {"check", "finish", "done"}

\* No recipient is forgotten: whatever throws, crashes or races, every job that
\* ran to its end after the scope check is in sentCount or failedCount.
FinishedJobsCounted ==
    \A c \in Campaign : Cardinality(JobsIn(c, Counted)) <= sent[c] + failed[c]

\* Nothing is counted twice, except what a throw after the increment (the catch
\* block counts again) or a crash after it (the job runs again) accounts for.
NothingCountedTwice ==
    \A c \in Campaign : Exists(c) =>
        sent[c] + failed[c] <= Cardinality(JobsIn(c, Counted))
                                 + faults + Concurrency * crashes

\* attempts: 1 (message-queue.service.ts:131): the Graph API accepts the message
\* of a job at most once, and once more only if the worker died on the job.
AcceptedOncePerRun ==
    \A j \in Job : accepted[j] <= (IF j \in stalledOnce THEN 2 ELSE 1)

Quiet == \A r \in Request : req[r] = Idle
Uncounted == JobState \ ({"none"} \cup Counted)

\* With requests one at a time and no failing call, COMPLETED is only written
\* when the last recipient has been counted, pauses and cancels or not.
CompletedMeansAll ==
    (faults = 0 /\ crashes = 0) =>
        \A c \in Campaign : status[c] = "COMPLETED" => JobsIn(c, Uncounted) = {}

\* The last two workers may both increment before either reads: still one of
\* them sees the full count, so no launched campaign is left RUNNING for ever.
NoLostCompletion ==
    \A c \in Campaign :
        (Quiet /\ status[c] = "RUNNING") => JobsIn(c, JobState \ ({"none"} \cup Ended)) # {}

\* An entry of the audience is queued at most once per campaign, whatever is
\* paused, resumed, cancelled and tried again (requests one at a time).  A contact
\* is queued as often as the audience names it.
QueuedOncePerRecipient ==
    \A c \in Campaign, k \in Recipient :
        Cardinality({b \in Batch : job[<<c, b, k>>] # "none"}) <= 1

\* While a campaign is PAUSED, and no request is under way, nothing of it is
\* handed to a worker: the queue stands still.
PausedHoldsQueue ==
    \A c \in Campaign : (Quiet /\ status[c] = "PAUSED") => queuePaused

\* "we just mark campaign as cancelled" (campaigns.service.ts:466): a cancelled
\* campaign stays cancelled until it is deleted.
CancelledStays ==
    [][\A c \in Campaign :
         status[c] = "CANCELLED" => status'[c] \in {"CANCELLED", "DELETED"}]_vars

\* If the queue is not left paused, every job that waits is worked off, also
\* when its campaign was cancelled or deleted or its worker died.
JobsDrain ==
    <>[](~queuePaused) => \A j \in Job : (job[j] = "waiting") ~> (job[j] \in Ended)

(***************************************************************************)
(* What the queue and the counters implement (requests one at a time, no   *)
(* crash and no failing call): a Mailing, in which a recipient is pending  *)
(* until its job is counted, dropped or, with the campaign gone, moot.     *)
(***************************************************************************)
Unsettled == JobState \ ({"none", "dropped", "failed"} \cup Counted)
RecipientsIn(c, states) == {k \in Recipient : \E b \in Batch : job[<<c, b, k>>] \in states}

\* The messages of campaign c the Graph API accepted for recipient k.
Messages(c, k) == UNION {{b} \X (1..accepted[<<c, b, k>>]) : b \in Batch}

Stage(s) == CASE s = "DELETED" -> "gone" [] s = "COMPLETED" -> "complete" [] OTHER -> "open"

mailAudience == [c \in Campaign |-> RecipientsIn(c, JobState \ {"none"})]
mailPending == [c \in Campaign |->
                  IF status[c] = "DELETED" THEN {} ELSE RecipientsIn(c, Unsettled)]
mailPosting == [c \in Campaign |-> RecipientsIn(c, {"post"})]
mailCounts == [c \in Campaign |-> [k \in Recipient |-> Cardinality(Messages(c, k))]]
mailStage == [c \in Campaign |-> Stage(status[c])]

Mailed == INSTANCE Mailing WITH audience <- mailAudience, pending <- mailPending,
                                posting <- mailPosting, mails <- mailCounts,
                                stage <- mailStage

\* Every recipient is sent one message at most, which may go out when its campaign
\* was just deleted, and is settled once, and COMPLETED is only written
\* when the two counters add up to the whole audience, whatever is paused, resumed,
\* cancelled, scheduled or deleted on the way.
MailedAsPromised == Mailed!Spec

\* How far a job is from its end: the stages it may still go through, and the
\* one more round a job has that BullMQ has not put back yet.
StagesLeft ==
    [s \in JobState |->
        CASE s = "waiting" -> 10 [] s = "scope" -> 9 [] s = "admit" -> 8
          [] s = "send" -> 7 [] s = "post" -> 6 [] s \in {"countSent", "countFailed"} -> 5
          [] s = "check" -> 4 [] s = "finish" -> 3 [] s = "catch" -> 2
          [] s = "stalled" -> 1 [] OTHER -> 0]
StepsLeft(j) == StagesLeft[job[j]] + (IF j \in stalledOnce THEN 0 ELSE 10)

\* Nothing sends a job round in circles: every step of a queued job, a crash,
\* a stall, a throw or a launch tried again included, brings it nearer to its
\* end, and a job that has ended stays as it is (processCampaignMessage()).
JobsWindDown ==
    [][\A j \in Job : (job[j] # "none" /\ job'[j] # job[j]) =>
          job[j] \notin Ended /\ StepsLeft(j)' < StepsLeft(j)]_vars
=============================================================================
