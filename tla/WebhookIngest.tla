--------------------------- MODULE WebhookIngest ---------------------------
(***************************************************************************)
(* What becomes of the events Facebook posts to the webhook: processEntry  *)
(* puts each one on the BullMQ queue, workers deduplicate it by a Redis    *)
(* key and handle it (webhooks.service.ts), which for a message means      *)
(* contact, conversation, stored message and unread count.                 *)
(*                                                                         *)
(* One page and one sender.  Agents resolve, reopen and read the same      *)
(* conversation meanwhile, and may delete the contact.  A handler is a     *)
(* sequence of awaited calls; one action stands for one call and the code  *)
(* up to the next.                                                         *)
(***************************************************************************)
EXTENDS Naturals, FiniteSets

CONSTANTS
    Event,      \* events of the sender: each is its timestamp
    Kind,       \* "message", "block" or "unblock", for each event
    Known,      \* are the contact and an open conversation there already?
    MaxRetry,   \* bound: retry jobs of one event
    MaxForget,  \* bound: times an event's Redis key and finished job expire
    MaxCrash,   \* bound: crashes of the backend process
    MaxFault,   \* bound: database calls that fail
    MaxDelete   \* bound: times the contact is deleted

Kinds == {"message", "block", "unblock"}

ASSUME WebhookAssumption ==
    /\ IsFiniteSet(Event) /\ Event \subseteq Nat \ {0}
    /\ Kind \in [Event -> Kinds]
    /\ Known \in BOOLEAN
    /\ MaxRetry \in Nat /\ MaxForget \in Nat /\ MaxCrash \in Nat
    /\ MaxFault \in Nat /\ MaxDelete \in Nat

\* Job <<e, 0>> is the messaging-event job of e, <<e, n>> its n-th retry-event.
Job == Event \X (0..MaxRetry)

VARIABLES
    job,        \* where each job stands
    stalledOnce,\* jobs BullMQ has put back once
    key,        \* events whose deduplication key is in Redis
    active,     \* page.isActive
    contact,    \* is there a contact row of the sender?
    lastFrom,   \* contact.lastMessageFromContactAt, 0 for null
    thread,     \* conversation.status, "NONE" without a row; OPEN is also PENDING
    unread,     \* conversation.unreadCount
    stored,     \* events whose message row exists
    conflict,   \* history: events whose handler met a unique constraint
    erased,     \* history: events whose message, or the row their handler had
                \* in hand, went with the contact
    forgets, crashes, faults, deletes

rows == <<active, contact, lastFrom, thread, unread, stored>>
causes == <<conflict, erased>>
bounds == <<forgets, crashes, faults, deletes>>
vars == <<job, stalledOnce, key, rows, causes, bounds>>

Init ==
    /\ job = [j \in Job |-> "none"]
    /\ stalledOnce = {} /\ key = {} /\ active = TRUE
    /\ contact = Known
    /\ thread = IF Known THEN "OPEN" ELSE "NONE"
    /\ lastFrom = 0 /\ unread = 0 /\ stored = {}
    /\ conflict = {} /\ erased = {}
    /\ forgets = 0 /\ crashes = 0 /\ faults = 0 /\ deletes = 0

\* Stages of a job a worker has taken; those in which it holds the id of the
\* contact; and "adrift", when that contact has been deleted.
Holding == {"touch", "thread", "newThread", "store", "count"}
Active == {"check", "mark", "policy", "contact", "newContact", "adrift"} \cup Holding
JobState == {"none", "waiting", "stalled", "done"} \cup Active

Go(j, from, to) ==
    /\ job[j] = from
    /\ job' = [job EXCEPT ![j] = to]
KeepRows == UNCHANGED <<rows, causes, bounds>>

(***************************************************************************)
(* processEntry(): an event of an inactive page is dropped; add() does     *)
(* nothing when a job with the same id, page_sender_timestamp, is kept.    *)
(***************************************************************************)
Post(e) ==
    /\ active
    /\ Go(<<e, 0>>, "none", "waiting")
    /\ UNCHANGED <<stalledOnce, key>> /\ KeepRows

(***************************************************************************)
(* processMessagingEvent()                                                 *)
(***************************************************************************)
Take(j) ==
    /\ Go(j, "waiting", "check")
    /\ UNCHANGED <<stalledOnce, key>> /\ KeepRows

\* Slip: the key does not hold the time of the event.
Slip_KeyOfSender(j) ==
    /\ Go(j, "check", IF key # {} THEN "done" ELSE "mark")
    /\ UNCHANGED <<stalledOnce, key>> /\ KeepRows

\* The key is looked up; an event that has one is skipped.
CheckKey(j) ==
    /\ Go(j, "check", IF j[1] \in key THEN "done" ELSE "mark")
    /\ UNCHANGED <<stalledOnce, key>> /\ KeepRows

\* The key is set before the event is handled.
MarkKey(j) ==
    /\ Go(j, "mark", IF Kind[j[1]] = "message" THEN "contact" ELSE "policy")
    /\ key' = key \cup {j[1]}
    /\ UNCHANGED stalledOnce /\ KeepRows

\* The catch block: the job ends well, and the event is queued again.
CatchTo(j, from) ==
    /\ job[j] = from
    /\ job' = [i \in Job |-> IF i = j THEN "done"
                             ELSE IF i = <<j[1], j[2] + 1>> THEN "waiting"
                             ELSE job[i]]

\* A handler throws because of a call that failed.
Throw(j) ==
    /\ faults < MaxFault /\ faults' = faults + 1
    /\ \E s \in Active \ {"check", "mark"} : CatchTo(j, s)
    /\ UNCHANGED <<stalledOnce, key, rows, causes, forgets, crashes, deletes>>

\* An insert is refused by a unique constraint.
Conflict(j, from) ==
    /\ CatchTo(j, from)
    /\ conflict' = conflict \cup {j[1]}
    /\ UNCHANGED <<stalledOnce, key, rows, erased, bounds>>

\* The contact is gone: the next update throws, the search finds nothing, and
\* create() does not find the contact or an insert has nothing to refer to.
Founder(j) ==
    /\ CatchTo(j, "adrift")
    /\ UNCHANGED <<stalledOnce, key>> /\ KeepRows

\* handlePolicyEnforcement()
Policy(j) ==
    /\ Go(j, "policy", "done")
    /\ active' = (Kind[j[1]] = "unblock")
    /\ UNCHANGED <<stalledOnce, key, contact, lastFrom, thread, unread, stored, causes, bounds>>

(***************************************************************************)
(* handleIncomingMessage()                                                 *)
(***************************************************************************)
FindContact(j) ==
    /\ Go(j, "contact", IF contact THEN "touch" ELSE "newContact")
    /\ UNCHANGED <<stalledOnce, key>> /\ KeepRows

\* create(), which is subject to @@unique([pageId, psid]).
CreateContact(j) ==
    \/ /\ contact /\ Conflict(j, "newContact")
    \/ /\ ~contact /\ Go(j, "newContact", "touch")
       /\ contact' = TRUE
       /\ UNCHANGED <<stalledOnce, key, active, lastFrom, thread, unread, stored, causes, bounds>>

\* updateLastInteraction(): the time of this event, be it older than the last.
Touch(j) ==
    /\ Go(j, "touch", "thread")
    /\ lastFrom' = j[1]
    /\ UNCHANGED <<stalledOnce, key, active, contact, thread, unread, stored, causes, bounds>>

\* findByContactAndPage() and, in create(), the same search again: only
\* conversations that are not RESOLVED are found.
FindThread(j) ==
    /\ Go(j, "thread", IF thread = "OPEN" THEN "store" ELSE "newThread")
    /\ UNCHANGED <<stalledOnce, key>> /\ KeepRows

\* create(), which is subject to @@unique([pageId, contactId]).
CreateThread(j) ==
    \/ /\ thread # "NONE" /\ Conflict(j, "newThread")
    \/ /\ thread = "NONE" /\ Go(j, "newThread", "store")
       /\ thread' = "OPEN"
       /\ UNCHANGED <<stalledOnce, key, active, contact, lastFrom, unread, stored, causes, bounds>>

\* Slip: the message is stored without the id that makes it unique.
Slip_StoreAgain(j) ==
    /\ Go(j, "store", "count")
    /\ stored' = stored \cup {j[1]}
    /\ UNCHANGED <<stalledOnce, key, active, contact, lastFrom, thread, unread, causes, bounds>>

\* processWebhookMessage(); fbMessageId is unique.
Store(j) ==
    \/ /\ j[1] \in stored /\ Conflict(j, "store")
    \/ /\ j[1] \notin stored /\ Go(j, "store", "count")
       /\ stored' = stored \cup {j[1]}
       /\ UNCHANGED <<stalledOnce, key, active, contact, lastFrom, thread, unread, causes, bounds>>

CountUnread(j) ==
    /\ Go(j, "count", "done")
    /\ unread' = unread + 1
    /\ UNCHANGED <<stalledOnce, key, active, contact, lastFrom, thread, stored, causes, bounds>>

-----------------------------------------------------------------------------
\* The agents: PATCH of the status, markAsRead, and a first message from our
\* side (ensureConversation, sendQuickMessage), which may reopen or create.
Resolve ==
    /\ thread = "OPEN" /\ thread' = "RESOLVED"
    /\ UNCHANGED <<job, stalledOnce, key, active, contact, lastFrom, unread, stored, causes, bounds>>
OpenThread ==
    /\ contact /\ thread # "OPEN" /\ thread' = "OPEN"
    /\ UNCHANGED <<job, stalledOnce, key, active, contact, lastFrom, unread, stored, causes, bounds>>
MarkRead ==
    /\ thread # "NONE" /\ unread' = 0
    /\ UNCHANGED <<job, stalledOnce, key, active, contact, lastFrom, thread, stored, causes, bounds>>

\* DELETE of the contact, which takes its conversation and messages with it.
DeleteContact ==
    /\ contact /\ deletes < MaxDelete /\ deletes' = deletes + 1
    /\ contact' = FALSE /\ lastFrom' = 0
    /\ thread' = "NONE" /\ unread' = 0 /\ stored' = {}
    /\ job' = [j \in Job |-> IF job[j] \in Holding THEN "adrift" ELSE job[j]]
    /\ erased' = erased \cup stored \cup {e \in Event : \E n \in 0..MaxRetry : job[<<e, n>>] \in Holding}
    /\ UNCHANGED <<stalledOnce, key, active, conflict, forgets, crashes, faults>>

\* The process stops: what its workers had taken stalls.
Crash ==
    /\ crashes < MaxCrash /\ crashes' = crashes + 1
    /\ job' = [j \in Job |-> IF job[j] \in Active THEN "stalled" ELSE job[j]]
    /\ UNCHANGED <<stalledOnce, key, rows, causes, forgets, faults, deletes>>

\* BullMQ puts a stalled job back once, and then gives it up.
StalledCheck(j) ==
    /\ Go(j, "stalled", IF j \in stalledOnce THEN "done" ELSE "waiting")
    /\ stalledOnce' = stalledOnce \cup {j}
    /\ UNCHANGED key /\ KeepRows

\* After an hour the key expires; finished jobs are removed by then or later,
\* and Facebook may post the event again.
Forget(e) ==
    /\ forgets < MaxForget /\ forgets' = forgets + 1
    /\ \A n \in 0..MaxRetry : job[<<e, n>>] \in {"none", "done"}
    /\ e \in key /\ key' = key \ {e}
    /\ job' = [j \in Job |-> IF j[1] = e THEN "none" ELSE job[j]]
    /\ stalledOnce' = {j \in stalledOnce : j[1] # e}
    /\ UNCHANGED <<rows, causes, crashes, faults, deletes>>

Work(j) ==
    \/ CheckKey(j) \/ MarkKey(j) \/ Policy(j) \/ FindContact(j) \/ CreateContact(j)
    \/ Touch(j) \/ FindThread(j) \/ CreateThread(j) \/ Store(j) \/ CountUnread(j)
    \/ Founder(j)

Next ==
    \/ \E e \in Event : Post(e) \/ Forget(e)
    \/ \E j \in Job : Take(j) \/ Work(j) \/ Throw(j) \/ StalledCheck(j)
    \/ Resolve \/ OpenThread \/ MarkRead \/ DeleteContact
    \/ Crash

Spec == Init /\ [][Next]_vars

-----------------------------------------------------------------------------
\* Every variable keeps to its values, and the rows to their references: an
\* unread count, a stored message and a conversation need the row they are of.
TypeOK ==
    /\ job \in [Job -> JobState]
    /\ stalledOnce \subseteq Job /\ key \subseteq Event
    /\ active \in BOOLEAN /\ contact \in BOOLEAN
    /\ lastFrom \in Event \cup {0}
    /\ thread \in {"NONE", "OPEN", "RESOLVED"}
    /\ unread \in Nat
    /\ stored \subseteq Event /\ conflict \subseteq Event /\ erased \subseteq Event
    /\ forgets \in 0..MaxForget /\ crashes \in 0..MaxCrash
    /\ faults \in 0..MaxFault /\ deletes \in 0..MaxDelete
    /\ thread # "NONE" => contact
    /\ stored # {} => thread # "NONE" /\ lastFrom # 0

\* A message is counted at most once, however often its event is posted, its
\* job is run again after a crash, or it is tried again after a failure.
CountedOnce == unread <= Cardinality(stored)

Messages == {e \in Event : Kind[e] = "message"}
Over(e) == job[<<e, 0>>] = "done" /\ \A n \in 0..MaxRetry : job[<<e, n>>] \in {"none", "done"}

\* Without crashes and failing calls there are two ways to lose a queued message:
\* an insert of its handler that another handler or an agent had forestalled, and
\* a deletion of the contact while the handler had it in hand.  In both the retry
\* finds the key and skips the event.  (A message stored and deleted with its
\* contact is gone, too.)
LossHasCause ==
    (faults = 0 /\ crashes = 0) =>
        \A e \in Messages : Over(e) => e \in stored \cup conflict \cup erased

\* "Queue for retry via BullMQ if available" (webhooks.service.ts:289): a retry
\* that is over has stored the message.
RetryProcesses ==
    \A j \in Job : (j[2] > 0 /\ Kind[j[1]] = "message" /\ job[j] = "done")
                       => j[1] \in stored

(***************************************************************************)
(* What the queue, the key and the unique ids implement: an Inbox, in      *)
(* which a message is uncounted while a job stands before the count.       *)
(***************************************************************************)
Uncounted == {e \in Event : \E n \in 0..MaxRetry : job[<<e, n>>] = "count"}

Conversation == INSTANCE Inbox WITH Message <- Messages, inbox <- stored,
                                    uncounted <- Uncounted

\* Whatever is posted, run and tried again, and whoever reads meanwhile: a message
\* of the sender comes in once, and adds one to the unread count once at most,
\* until the contact is deleted with all of it.
InboxKept == Conversation!Spec
=============================================================================
