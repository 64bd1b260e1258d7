# TLA+ models of MessageSender

MessageSender is a multi-tenant service for sending Facebook Messenger
messages: campaigns to many contacts, an inbox for agents, webhooks that bring
in what contacts write. The backend (`backend/src`, NestJS) keeps its data in
Postgres through Prisma, its limits and caches in Redis, and its queues in
Redis through BullMQ. API handlers, webhook handlers and queue workers run in
the same process and interleave at every `await`.

This directory holds TLA+ modules for the parts of the backend whose
correctness depends on that interleaving, TLC configurations that check them on
small instances, and TLAPS proofs of what matters most for instances of any
size. Paths below are relative to the repository; `campaigns.service.ts` and
the like are under `backend/src/modules/`.

## 1. Inventory of the system

### 1.1 Parts on the path of a message

| Component | State it keeps | Operations | Talks to |
|---|---|---|---|
| Campaign delivery (`campaigns/campaigns.service.ts`, `messages/message-queue.service.ts`, `messages/message-worker.service.ts`) | campaign row: status, totalRecipients, sentCount, failedCount; the shared `campaign-messages` queue, its pause flag, one job per recipient | create, update, delete, launch, schedule, pause, resume, cancel; `processCampaignMessage` | queue, tenant quota, rate limits, send service |
| Tenant quota (`common/tenant/tenant-quota.service.ts`) | Redis counter per workspace and UTC day | `consumeSendSlot` (INCR, EXPIRE, DECR) | called by the workers |
| Rate limits (`messages/rate-limit.service.ts`) | Redis counters with a window per page, workspace and contact | `checkRateLimit`, `incrementAndCheck`, `consumeMessageQuota` | called by the messages API and the workers |
| Send service (`messages/send-api.service.ts`) | message row, cached window status, conversation row | `sendMessage`, `getWindowStatus`, `determineBypassMethod` | Graph API, OTN, recurring notifications |
| Webhook ingestion (`webhooks/webhooks.service.ts`) | deduplication keys in Redis, webhook queue, contact, conversation and message rows, `page.isActive` | `processEntry`, `processMessagingEvent`, message, echo, delivery, read, policy handlers | contacts, conversations, messages |
| One-time notifications, recurring notifications (`messages/otn.service.ts`, `recurring-notification.service.ts`) | token and subscription rows: used, expiry, `nextAllowedAt` | request, opt in, use, stop | send service |
| A/B tests, drips, triggers (`campaigns/ab-testing.service.ts`, `drip-campaign.service.ts`, `trigger-campaign.service.ts`) | results; progress records and active triggers in Redis | launch, send the winner (drips and triggers have no caller) | message queue |

What makes these parts hard: a handler reads a row, awaits, and writes by id
whatever the row has become; every campaign of every tenant shares one queue;
jobs of one campaign finish concurrently and the last has to notice it is the
last; a process may stop between any two calls; a Redis counter and its expiry
are set by different commands; receipts arrive in any order and repeatedly, and
before the answer of the call they are about; retries meet the marks of what
they retry.

What makes them correct:

- *Campaign delivery*: no recipient is lost or counted twice; a message is sent
  once per entry of the audience list and launch; COMPLETED means all are counted and is never
  missed; a paused campaign stands still; queued jobs are worked off.
- *Quota and limits*: never more grants than the cap, no refusal while there is
  room, refused calls leave nothing behind, and keys expire.
- *Send service*: a record claims no more than what happened, and its status
  does not go back; the caller is told the truth.
- *Webhook ingestion*: an event is handled once, its message stored and counted
  once, and lost only for a reason that can be named.
- *Window, notifications*: nothing is sent long after the window closed; a
  single-use token is used once; no two sends in a period.

### 1.2 Parts around it

| Component | State it keeps | What is hard about it |
|---|---|---|
| Sessions and sign-in (`auth/auth.service.ts`, `strategies/`) | session rows, session cache in Redis, refresh hashes | two refreshes at once; a cache entry written after a logout; sessions deleted from the account console, which leaves the cache alone; a sign-in while the account is deactivated |
| Guards and login limiter (`auth/guards/`) | failed attempts per address in Redis | the check, INCR and EXPIRE are apart |
| Facebook connection (`facebook/`), pages and page sync (`pages/`) | account and page rows with their tokens; the subscription at Facebook | find-then-create; a sync works from an old list of pages; two workspaces want one page |
| Workspaces and invitations (`workspaces/`), sponsored messages (`messages/sponsored-message.service.ts`), backups (`admin/backup.service.ts`) | a list in one setting row, and files or ads it describes | the list is read, changed and rewritten whole |
| Contacts and custom fields (`contacts/`) | contact rows; one JSON column of field values; field definitions | four writers read the column and write it back whole, others write what they were sent; definitions change under them |
| Segments (`segments/`) | filter, member rows, stored count | a count that lags behind; rows of a segment that changed kind |
| Conversations and inbox gateway (`conversations/`) | conversation rows; rooms and presence in memory | resolved conversations and new messages |
| Messages API, templates, users, analytics, reports, mail, health | single rows or none | nothing of their own |
| Storage clients, configuration, schema, shared types, scripts, frontend | none, or a client's view of the API | out of scope, or modelled from their use |

What makes them correct: an ended session is not accepted for longer than a
cache entry lives, and a refresh token is worth one refresh; a lock on sign-in
holds and goes away; a page has one row, its owner's token and a subscription
while it is active; a list agrees with what it describes, but for calls cut short; a stored count is no
further from the members than the operations in flight; field values have the
type their definition gives them, and a write leaves the other values alone.

`PROJECT.json` lists every component with its files and the reason when it is
not modelled, and every hazard at the line where it bites with the properties
about it.

### 1.3 Code that nothing calls

Several operations exist and are never reached at this commit:
`handleOtnOptIn`, the recurring `handleOptIn` and `handleOptOut`,
`incrementStats`, `recordBypassUsage`, `addBroadcast`, `scheduleMessage`,
`evaluateContactEvent`, the drip `onStepCompleted`, `markAsDelivered`,
`markAsRead` and `markAsFailed` of messages, `cancelJob`, `retryJob`,
`resetRateLimit`, `resubscribeWebhooks`, `ApiRateLimitGuard`, `emitNewMessage`,
and all of `DripCampaignService` and `TriggerCampaignService`. No job launches a
SCHEDULED campaign when its time comes. With the exception of `resubscribeWebhooks`, an
operation like any other repair of a page, the models contain only what runs.

## 2. Modules

| Module | Models | State and actions against the code |
|---|---|---|
| `CampaignDelivery` | `campaigns.service.ts`, the campaign queue, `processCampaignMessage` | `status`, `total`, `sent`, `failed` are columns of the row. A request is `Read*` (row read, guards passed), then the calls that follow, kept in `req`: `WriteUpdate`, `WriteLaunch`, `Enqueue`, `PauseQueue`, ... A job is at the awaited call named by `job[j]`: scope, admit (limits and quota), send (up to the message record), post (the Graph API), countSent or countFailed, check, finish; `Catch` is the catch block. `Throw`, `Crash`, `StalledCheck` are the environment |
| `Mailing` | what a campaign promises | abstract: an audience, drawn up once, whose entries are mailed once at most and settled once, as sent, failed or dropped; a mail that was begun goes out or not, also when its campaign is gone. `CampaignDelivery!MailedAsPromised` is its refinement: the audience is the entries that have jobs, those pending the ones whose job is neither counted nor over, the counters are the columns |
| `TenantQuota` | `consumeSendSlot` | one action per Redis command: `Incr`, `Expire`, `Decr`; `CutShort` is a crash or a Redis error, `NextDay` midnight UTC |
| `DailyPool` | what the quota promises | abstract: a pool of `Cap` slots a day, each taken by one call. `TenantQuota!PoolOfSlots` is its refinement |
| `RateLimit` | `checkRateLimit`, `incrementAndCheck`, `consumeMessageQuota`, and their callers | `stage[c][k]`: the command call `c` makes next on key `k`; the keys of a round proceed independently (`Promise.all`), `DecideSend`, `DecideJob` and `Return` wait for all of them. `FailOpen` and `AnswerLost` are the catch blocks, `EndWindow` the expiry of a key |
| `LoginLimiter` | `LoginRateLimitGuard` | `signin[c]`: between the guard, the password and the commands of `recordFailedAttempt` or `clearAttempts`; `Fail` is an error of Redis (which lets the request through) or a crash, `Lapse` the end of the lock |
| `MessageDelivery` | the message record in `sendMessage`; echo, delivery and read handlers | `call[m]` is where `sendMessage` stands; `status`, `mid`, `sentAt` are columns; `accepted`, `seen` are what Facebook knows. Each handler is one `updateMany`, one action |
| `Receipts` | what a record promises | abstract: how far each message got (accepted, delivered, read) and how far it got by its record, which follows. `MessageDelivery!RecordsFollow` is its refinement |
| `MessagingWindow` | the window of a contact: `getWindowStatus`, its cache, the choice of a bypass method, and the events that open the window | `heardAt` is `lastMessageFromContactAt`; `cache` the status that `FillCache` writes after it was computed; `Send`, `CheckTag`, `EndSend` are the awaited parts of `sendMessage`; `ContactWrites` and `HandleMessage` are a message and its event, which may be handled in any order; `RequestOtn`, `RequestSubscription`, `HandleOptin` make the permits |
| `Notifications` | `otn.service.ts`, `recurring-notification.service.ts`, the opt-in handlers, the token mark of `sendMessage` | `token`, `sub`, `expiresAt`, `nextAt` are rows; `sender[s]` is between the read, the Graph API call, the next date (`DateNext`) and the write; `SendOnTopic` is `sendMessage` on a subscription, which neither reads nor writes the date; `spent` and `lastPost` are what Facebook took |
| `PageConnection` | `facebook.service.ts`, `pages.service.ts`, `page-sync.service.ts` | `page` are the rows of one Facebook page, `linked` the accounts, `hooked` the subscription at Facebook; a request reads, calls Facebook, writes by id: connect, disconnect, deactivate, reactivate, repair, resubscribe, switch, refresh, unlink, the policy events; `Abandon` ends one between two calls. A token is that of a workspace's account, or handed in by its client (`HandedIn`) |
| `WebhookIngest` | `processEntry`, `processMessagingEvent`, `handleIncomingMessage`, `handlePolicyEnforcement` | `job[j]` is the awaited call of the handler; `key` holds the deduplication keys; an insert that a unique constraint refuses goes to the catch block (`Conflict`), which queues the retry; `Resolve`, `OpenThread`, `MarkRead`, `DeleteContact` are the agents, and `Founder` a handler whose contact is gone |
| `Inbox` | what a conversation promises | abstract: messages come in once and are counted once or passed over. `WebhookIngest!InboxKept` is its refinement: a message is in when its row is stored, and uncounted while a job stands before the count; `Erase` is the deletion of the contact |
| `AuthSession` | `auth.service.ts`: sign-in, refresh, validation, logout, and what changes an account; the deletions of `users.service.ts` | `row` are the sessions in Postgres, `cache` those in Redis; `call[c]` is between two of them; the secret of a row stands for its refresh hash; `Throws` and `ForgetFails` are a failing call of Postgres and of Redis, `Terminate` and `Purge` the account console |
| `Registries` | invitations, sponsored ads, backups: a list in one setting row each | `registry` says which list a behaviour is about; `task[c]` holds the list a clerk has read; `uses` and `disk` are the effects outside the row; `CutOff` ends a call before its write |
| `Audience` | `segments.service.ts`, the audience of a campaign | `member`, `count`, `kind`, `aimed` are rows; `matching` is what the filter of a dynamic segment selects; `EditBreaks` ends a request before its count |
| `CustomFields` | `custom-fields.service.ts` and the other writers of `contact.customFields`: imports, referrals, `update()`, `create()`, the restore of a backup | `stored` is the column, `def` the definitions; `present` whether the contact has a row; `doing[h]` is a handler with the column it has read; `BreakOff` is a failing call, also of the transaction of all contacts |
| `MCCampaign`, `MCLimits`, `MCMessage`, `MCWebhook`, `MCConsole` | instances for TLC | small sets, symmetry |
| `*_proofs` | theorems | see section 6 |

The modules meet where the code does, and each takes from its neighbour what
that one guarantees. `CampaignDelivery!Admit` lets a job through or has it
throw, as `TenantQuota` grants or refuses; the page limit never stops it, which
`RateLimit!DecideJob` explains. `CampaignDelivery!Send` accepts or refuses, and
may report a failure for an accepted message: that is `AnswersTruthful` of
`MessageDelivery`, which allows a false failure and excludes a false success.
`MessageDelivery` takes receipts as they come; how they get to the handlers is
`WebhookIngest`. `MessageDelivery` starts where `MessagingWindow` has chosen how
to send, and `Notifications` is what that choice does to tokens and
subscriptions; `MessagingWindow` sees these as permits that come and go.
`PageConnection` says when the page that a send and a webhook need is there.
`CampaignDelivery` takes any set of entries as the audience; `Audience` is how
the audience comes from a segment.

Three MC modules hold several of these side by side. The modules in them share
no variable, so a behaviour of the composition explores one of them (the
variable `explored` says which) and leaves the others in their initial states;
the states of the run are the sum of theirs.

Definitions named `Slip_...` are not part of the models. Each is a definition
as a plausible mistake would have it (a dropped guard, a missing reset, an
off-by-one) and stands before the one it alters. With the slip in its place the
run reports the property violated, so the property does depend on that code.

History variables (marked so where they are declared) record what no row says
but a property speaks of: that a call overlapped a logout, that a request wrote
from a copy that was no longer current, how often a token was taken. No guard
and no column depends on them.

### Abstractions

- A message, a contact or a page is an element of a set. Texts, tags and
  attachments are left out.
- An audience is any set of `Recipient`s, chosen anew each time the code queries
  it. A recipient is an entry of the list a launch queues: a contact, and which
  mention of it. Lists from segments and pages name a contact once; a MANUAL
  list is taken as the client sent it (`campaign.dto.ts:142`,
  `campaigns.service.ts:637`, `:672`), and `addCampaignMessages` makes a job for
  each position (`message-queue.service.ts:210`), so a contact that is named twice
  is two recipients. A segment's filter is the set of contacts it selects.
- The ids of campaign jobs contain the launch's time in milliseconds. The model
  numbers the launches, so two launches of one campaign never share an id.
- `Removable` names the recipients whose contact may have left the workspace when
  the worker looks. The scope check is the only place that matters.
- BullMQ is modelled from its use: jobs are taken while the queue is not
  paused, at most `Concurrency` run at once, a job whose worker died is put
  back once (`maxStalledCount` is 1), and a job with `attempts: 1` is not
  retried for an error.
- A failing call is one that throws without having its effect, except where the
  module says otherwise: `AnswerLost` in `RateLimit`, a lost answer of the
  Graph API in `MessageDelivery` and `Notifications`, `CutShort` in
  `TenantQuota`.
- The clocks of Facebook and the server are taken to agree; receipts are
  matched by time, and with clocks apart nothing could be said of them.
- Time is in ticks. What a call read is in the cache within the same tick
  (`AuthSession`) or within `FillTime` ticks (`MessagingWindow`).
- `WebhookIngest` has one page and one sender. Different senders share only the
  page's active flag; the policy event is there for it. A contact that is deleted
  takes its conversation and messages along (`onDelete: Cascade`); a later message
  makes it anew.
- `thread = "OPEN"` stands for OPEN and PENDING, which the code treats alike.
- `CustomFields` follows one contact. What the others do to it, by being in one
  transaction with it, is in `BreakOff`.
- `Registries` follows calls about items; a call that is cut short while it has
  changed nothing is a call that ends. What a serial repetition after a failure
  does is counted (`cuts`), not excluded.
- Tokens of one-time notifications have no expiry, as nothing in the code ever
  writes one.

## 3. Runs

| Run | Instance | What it asks and shows |
|---|---|---|
| `camp_api` | one campaign, three recipients, two launches, two workers, one request at a time, all operations | `CompletedMeansAll`, `QueuedOncePerRecipient`, `PausedHoldsQueue`: with requests that do not overlap the statuses keep their promises, and no launch queues a recipient again. `MailedAsPromised`: and the campaign is a `Mailing` |
| `camp_faults` | one recipient, two overlapping requests, two launches, one crash, two failing calls | `FinishedJobsCounted`, `NothingCountedTwice`, `AcceptedOncePerRun`: how far counters and sends drift from the jobs under double launches and faults |
| `camp_complete` | two campaigns in one queue, two recipients, no pause, no cap, no failure | `NoLostCompletion`: the last of several concurrent jobs always completes the campaign |
| `camp_drain` | fair workers, pause, resume, cancel, delete, one crash, cap | `JobsDrain`: a queue that is not left paused is emptied |
| `camp_cancelled` | launch and cancel | finding: `CancelledStays` is violated |
| `limits` | quota: four calls, cap three, two days, two calls cut short. Rates: one API call on two keys, two workers on one of them, limit one, two windows, one failing command. Sign-in: three clients, two attempts, one failing command | quota: `NeverOverCap`, `RefusedOnlyWhenFull`, `KeysExpire`, and the refinement `PoolOfSlots`. Rates: `WindowLimit`, `QuietCountExact`, `ForeverIsBrief`. Sign-in: `LockoutKept` |
| `sends` | record: two messages to one contact, three ticks, one failing call. Window: two calls, five ticks. Permissions: two senders, one token, one topic, four ticks, one lost answer. Page: two requests, two workspaces, two rows | record: `ReceiptsTruthful`, `AnswersTruthful`, `StatusForward`, and the refinement `RecordsFollow`. Window: `WindowSendsTimely`. Permissions: `TokenSpentByOverlap`, `RecurringSendsApart`. Page: `OneRowPerPage`, `TokenOfOwner`, `SubscribedWhileActive` |
| `msg_failed` | one message | finding: `FailureRecorded` is violated |
| `hook` | two messages and a block event, one retry; of a key expiry, a crash, a failing call and a deletion of the contact any three | `CountedOnce`, `LossHasCause`, and the refinement `InboxKept` |
| `hook_retry` | two messages, no faults | finding: `RetryProcesses` is violated |
| `console` | sessions: two callers, two sessions, one of them refreshed, three ticks, one change of the account, failing calls. Registries: two clerks, two items, one call about each cut short. Audience: two editors, two contacts. Fields: two handlers, one field and the referral, a contact that comes and goes | sessions: `EndedSessionsDie`, `EndedAtOnce`, `TokenRedeemedByOverlap`, `ChangeEndsSessions`. Registries: `UsedByOverlap`, `FilesMatchRegistry`. Audience: `CountDrift`, `SegmentKept`. Fields: `ValuesFollowDefinitions`, `OthersValuesKept` |
| `console_audience` | the same instance | finding: `AudienceIsSegment` is violated |

Deadlock checking is off where users may stop acting and the system then rests
(campaigns, messages, webhooks, the console); in `limits` a caller can always
start again, and the check is on.

### Bounds

Every bound is a constant whose name begins with `Max`, or the size of a set.

- *Campaigns.* Two workers show every race of two jobs; three recipients leave a
  third job in the queue while two run, so a job can start after the campaign
  was completed or cancelled. Two launches are the double launch (`MaxBatch`).
  `camp_faults` has a single recipient because two launches already give it two
  jobs, and two requests, a crash and two faults multiply the states.
- *Quota.* Four callers and cap three: one over the cap while another is about
  to give its count back. Two days put a call across midnight.
- *Rates.* Limit one and three calls give two refused increments at once, and
  two windows a refund that comes too late. One failing command leads to every
  catch block.
- *Sign-in.* Three clients and two attempts: three are past the guard when the
  second failure locks it. One mishap leaves a counter without an expiry.
- *Records.* Two messages and three ticks: a watermark before, between and
  after them. `MaxFault = 1` puts a failure in one of them.
- *Window.* A window of one tick, a cache entry of one more and one tick to
  write it leave, of five ticks, enough for a message whose window closes, a
  status that outlives it, and an older message handled after a newer one
  (`MaxUnhandled` limits how many are on their way). `AgentWindow` is longer
  than the window.
- *Permissions.* Two senders overlap on one token, and one can send around the
  date while the other keeps to it; four ticks are a period of two and a renewal
  in it; an expiry of three ends between two sends.
- *Pages.* Two requests of two workspaces are every pair of operations. The
  constraint `BeforeCrossing` ends a behaviour where a request has written from
  an outdated copy (`crossed`): all three properties are about what comes
  before, and what follows is arbitrary.
- *Webhooks.* Two messages of one sender race for both inserts; a retry and three
  of a forgotten key, a crash, a failing call and a deletion can all happen to one
  of them. The constraint `ThreeUpsets` leaves out all four at once.
- *Sessions.* A session of one tick or two (remember me) and a cache entry of
  one: in three ticks each of them ends while a call holds what it read.
  `MaxSecret = 2` is the number of tokens that callers present: the first, by two
  refreshes at once, and the one a refresh made; it does not limit what a refresh
  writes. The constraint `OneRefreshed` keeps the second session at its first
  token: sessions share callers and the end of all sessions, no secret.
- *Lists, audiences, fields.* Two actors are enough for a write from an
  outdated copy, two items or contacts for a write that loses another's. One call about
  each item is cut short (`MaxCut`), which leaves a used item open once; clerks and
  items are interchangeable, hence the symmetry.

### Fairness

Only `camp_drain` needs it. `FairSpec` has weak fairness of `Write(r)` (a
started handler goes on: its promise is settled), of `Take(j)` and `Work(j)` (a
worker with a free slot takes jobs and goes on with them) and of
`StalledCheck(j)` (BullMQ runs it on a timer). Weak fairness of `Take` is
enough, although a job may lose a free slot to another again and again: there
are finitely many jobs and none is put back more than once. No fairness is
assumed of users, crashes or failures. The other components have nothing that
must happen: their handlers end when their calls do, and no code retries what
was lost, except the webhook retry, which is `hook_retry`.

## 4. Findings

| Where | The code | What it is said to do |
|---|---|---|
| `message-worker.service.ts:243`, run `camp_cancelled` | the last job writes COMPLETED by id, over a CANCELLED status as well | `campaigns.service.ts:466`: "we just mark campaign as cancelled" |
| `send-api.service.ts:372`, run `msg_failed` | marks a record failed only if `error.messageId` is set, and no error has that field | `:371`: "If we created a message record, update it with failure" |
| `webhooks.service.ts:258`, run `hook_retry` | the deduplication key is set before the handler runs and survives its failure; the retry skips the event | `:289`: "Queue for retry via BullMQ if available" |
| `campaigns.service.ts:655`, run `console_audience` | reads the members of a segment from their rows, which a dynamic segment does not have: its campaign goes to nobody | `docs/SRS_Document.md:468`: "Admin shall select recipients by" a "Saved segment"; `:383` lists dynamic segments |

Met while reading the code. Most are in the models as they are, and are the
conditions in the properties of section 5.

*Campaigns*

- `campaigns.service.ts:190`: an update that read DRAFT overwrites a campaign
  launched meanwhile (guard at `:149`). `:438`: resuming one campaign sets the
  queue of another, still PAUSED, going. `:467`: cancelling a PAUSED campaign
  leaves the queue paused for all.
- `message-worker.service.ts:203`: when the daily cap refuses the job that would
  have been the last, the catch block counts it without looking at the totals:
  the campaign stays RUNNING. The same when a PAUSED is written over COMPLETED
  (`campaigns.service.ts:411`) and the campaign is then resumed.
- `campaign.dto.ts:142` does not ask for distinct contacts: a MANUAL audience that
  names one twice sends it the message twice and counts it twice.
- `send-api.service.ts:288` and `:307`: a campaign deleted between the message
  record and the Graph API call is still sent.
- `message-worker.service.ts:136` tests the status object of the limit check,
  which is always true: a page at its limit is not waited for, although `:134`
  and `:137` say so (`RateLimit!DecideJob`).
- `rate-limit.service.ts:292` answers "allowed" although a second-round
  increment was refused (comment at `:234`).

*Sends and permissions*

- `send-api.service.ts:358`: the window cache is cleared under a key that is
  never written. `:717`: a RESOLVED conversation makes `ensureConversation`
  throw.
- `otn.service.ts:378` ("SINGLE USE!"): a token is marked used after the send.
  `sendMessage` does not look at the token it was given, and marks it used even
  inside the window, where none is needed.
- `recurring-notification.service.ts:472`: the next date is computed before the
  awaited update, which an older date may reach last and so take `nextAllowedAt`
  back. `send-api.service.ts:433`: `sendMessage` with a `recurringSubscriptionId`
  sends whatever the date and the status of that subscription, and writes
  neither.
- A subscription's EXPIRED is written from an old read and can end an opt-in
  that renewed it meanwhile; STOP without a topic ends all topics; the topic of
  `requestSubscription` is always the default one.
- `contacts.service.ts:196`: events out of order set `lastMessageFromContactAt`
  back, which closes a window early, never late (`WindowSendsTimely`).

*Webhooks*

- `webhooks.service.ts:443`: an echo finds no record, since the id is stored
  together with SENT. `:375`: the branch that reopens a conversation cannot be
  reached. `:205`: an unblock event is dropped because the blocked page is
  inactive (`:762`). `:353`: profile-fetch jobs are put on the queue of
  messaging events, whose worker throws on them.
- `webhooks.service.ts:708`: receipts move the records of every contact of the
  page, not only those of the contact who read.

- `webhooks.service.ts:361`: a contact deleted after the search at `:337` makes the
  handler throw, and the retry is skipped: the message is lost.

*Pages*

- Overlapping connects create two rows for one page, or the later takes the page
  from the other workspace. A token refresh writes the token of the account it
  started with to a row that has changed hands.
- `disconnectPage` leaves `webhookSubscribed` true; setting `isActive` through
  the update, or an unblock, activates a page without subscribing to it; a
  subscription that Facebook refuses is logged and passed over;
  `resubscribeWebhooks` sets the flag whatever the answer
  (`page-sync.service.ts:286`); a failure after the unsubscription leaves the page
  active (`facebook.service.ts:342`, `pages.service.ts:96`).
- `facebook.service.ts:233`: a token the client hands in is stored unverified.

*Sessions*

- A refresh always gives seven days, so "remember me" (30 days,
  `docs/SRS_Document.md`, FR-1.1.6) lasts until the first refresh.
- The clean-up of an expired row deletes by id and can delete a session that a
  refresh has just renewed; a sign-in that overlaps a deactivation leaves a live
  session; `rejectUser` can delete a user who was approved meanwhile; a logout
  whose row is gone throws before it clears the cache.
- `users.service.ts:179`, `:207`, `:216` delete sessions and leave their cache
  entries: such a session is accepted for up to five minutes (`EndedSessionsDie`).
  So it is when `redis.del` fails (`auth.service.ts:659`, `:872`). A failure between
  the new password (`:993`) and the end of the sessions (`:1006`) leaves them all.
- The lock on sign-ins lasts from the first failure, not from the fifth
  (`docs/SRS_Document.md:217`).

*Lists, segments, fields*

- A list written back from an old copy makes a used or revoked invitation
  pending again; two submits of an ad buy it twice, and what was bought may not
  be listed; deleting a backup leaves its companion file.
- A write that fails after its effect leaves an invitation or an ad open: the next
  call grants or buys again (`workspaces.service.ts:500` to `:521`,
  `sponsored-message.service.ts:165` to `:192`); a backup has files and no entry, or
  an entry and no file.
- Dynamic segments are counted when asked, not updated (FR-5.4.2).
- `import-export.service.ts:173` stores text whatever the type of the field, and
  goes by the definitions read when the import began; `contacts.service.ts:236`
  replaces the column unchecked; `updateField` changes a type and leaves the
  values; a crash between a definition's deletion and its clean-up leaves them, and
  so does one contact deleted meanwhile, since the clean-up is one transaction over
  all (`custom-fields.service.ts:192`). A field may be defined with a key that
  referrals write (`:51`, `webhooks.service.ts:548`); a restore brings back values
  whose definition is gone (`backup.service.ts:195`).

*A/B tests (not modelled)*

- `launchAbTest` has no status guard, and queues on the plain queue before it
  writes RUNNING. That queue's worker counts nothing, so the campaign stays
  RUNNING with no message counted, and `sendWinnerToRemaining` throws unless
  `launch()` has sent the same campaign as well. `ab-testing.service.ts:296`
  would send the winner also to contacts whose test message has no row yet. With
  RESPONSE or CLICK as the criterion all rates are 0 and the first variant wins.
  Rounding can leave the last variant without contacts (six contacts in four
  quarters: 2, 2, 2, 0).

## 5. What the properties do not say

Some properties hold only under a condition, and the condition is where the
code is weak.

- `CompletedMeansAll`, `QueuedOncePerRecipient`, `PausedHoldsQueue` and
  `MailedAsPromised` are checked without crashes and failing calls, with one
  request at a time, and `PausedHoldsQueue` with one campaign. Overlapping
  requests break all but `PausedHoldsQueue`, and a second campaign that one.
- `MailedAsPromised` lets a campaign that was COMPLETED become PAUSED or
  CANCELLED again (`Reopen`), as a pause that read RUNNING does, and lets a
  contact be dropped: its job is refused by the cap, cancelled, or finds the
  contact gone. A recipient may be counted as failed although it was sent the
  message. Both properties are per recipient, that is per entry of the list: a
  contact gets as many messages as a MANUAL list names it.
- `InboxKept` says that a message is counted once at most. `PassOver` is the
  handler that died before the count, and `MarkRead` may come between the insert
  and the count: the conversation then shows a message as unread that was read.
- A campaign whose launch stopped before the enqueue never completes, and
  `CompletedMeansAll` says nothing after a crash.
- `NoLostCompletion` is checked without pauses, cap and removed contacts: each
  of these can leave a campaign RUNNING for ever.
- `NothingCountedTwice` allows one count too many per failing call (the catch
  block counts again) and `Concurrency` per crash (each running job may have
  counted and will run again).
- `AcceptedOncePerRun` is per job. A campaign that is launched twice has two
  jobs for a contact.
- `WindowLimit` allows one more for each refund that came after its window, and
  speaks of increments that were allowed: the workers send all the same.
- `ReceiptsTruthful` and `RecordsFollow` are for one contact on the page.
- `LossHasCause` says why a message can be lost, not that it is not: an insert that
  met a row, a contact deleted meanwhile, a crash or a failing call.
- `TokenSpentByOverlap` allows one use for each sender and each lost answer: sends
  that overlap all succeed. `TokenRedeemedByOverlap` allows the refreshes that
  compared the token before one of them wrote, and excludes any that came later.
- `WindowSendsTimely` allows a cache entry, and the time it takes to write it,
  after the window has closed. It is about the newest message: the window that
  an older event closes too early is not counted against the code.
- `RecurringSendsApart` is per sender: two senders can each send within one
  period. Nor does it speak of a sender whose answer was lost, of a topic whose
  date was set back by a late write, or of what `sendMessage` sends around the
  date.
- `OneRowPerPage`, `TokenOfOwner` and `SubscribedWhileActive` hold until a
  request writes from a copy that another one has outdated; the code has nothing
  against that. `TokenOfOwner` takes a token that the client handed in for its
  workspace's. `SubscribedWhileActive` also leaves out pages made active by the
  settings or an unblock, which do not subscribe, releases cut short after the
  unsubscription, and refusals that `resubscribeWebhooks` ignores.
- `EndedAtOnce` and `ChangeEndsSessions` except the calls that overlapped. The
  first also excepts the deletions that leave the cache alone (the console, an
  expiry, a rejection) and a Redis that failed; for all of them `EndedSessionsDie`
  is the bound that remains. The second excepts a failure before the sessions were
  ended, and has no such bound: these sessions live as long as they would have.
- `LockoutKept` allows as many further attempts as were past the guard when the
  lock came, and one for every Redis error, since the guard then lets requests
  through.
- `UsedByOverlap` and `FilesMatchRegistry` hold until a write loses another's. The
  first allows one further use for each call that was cut short before it could
  close the item: after a failed write the next call buys the ad again. The second
  leaves out the items a call about which was cut short, the companions that
  `deleteBackup` leaves, and files that could not be removed.
- `CountDrift` excepts changes that overlapped, one that broke off before its count
  and members deleted as contacts; `SegmentKept` campaigns aimed at a segment while
  it was being deleted.
- `ValuesFollowDefinitions` is about the values of the form and of imports, and
  excepts overlaps, a clean-up that did not happen and a change of the type.
  `OthersValuesKept` is about the four writers that read the column: of `update()`,
  which replaces it, it says nothing.
- `WindowSendsTimely` is about sends as RESPONSE: a bypass that the caller names
  (`bypassMethod`) is not held to any window.

Each of these is about what then remains: that requests one after the other, in
any order, keep the state together.

## 6. Proofs

The proofs hold for every value of the constants that satisfies the module's
assumption (finite sets where cardinalities are used, natural bounds, a
positive cap, limit or lifetime). Where a theorem assumes more, the table says
so. Most of the properties are not inductive: what a handler has read but not
yet written has to be said of every stage it can be in, and that is what the
named invariants add.

| Module | Theorem | Property | Argument |
|---|---|---|---|
| `CampaignDelivery_proofs` | `TypeCorrect` | `TypeOK` | inductive as it stands |
| | `CountersCoverJobs` | `FinishedJobsCounted` | inductive with `TypeOK`; a step adds at most one job to the counted ones and then a counter moves as well. Needs that a campaign has finitely many jobs (`FiniteJobs`) |
| | `AcceptedAtMostOncePerRun` | `AcceptedOncePerRun` | a job that was accepted must not be sent again, nor be put back by an `addBulk`. `AcceptedBound` adds the first, `BatchesFresh` the second (a launch under way owns its batch, which has no jobs yet) |
| | `NothingIsCountedTwice` | `NothingCountedTwice` | `SlotsHeld`: at most `Concurrency` jobs are in hand, so a crash repeats no more. `NotTwice`: the counters are at most the jobs counted plus `Excused` (a fault each, `Concurrency` a crash); a job leaves the counted ones only by a throw or a crash, which `Excused` grows by, and `FiniteJobs` bounds the cardinalities |
| | `RecipientsQueuedOnce` | `QueuedOncePerRecipient` | for requests one at a time (the theorem assumes it): `OneLaunch` says that a campaign with jobs never looks launchable and that a request before its last read belongs to a campaign without jobs, so no second batch starts. A recipient is an entry of the list, so a contact has as many jobs as the list names it |
| | `CompletionIsTruthful` | `CompletedMeansAll` | under the same assumption: `TotalsMatch` (no more jobs than `totalRecipients`) and `Settled` (while nothing failed, the counters are never ahead of the jobs counted), so that counters that reach the total leave no job uncounted |
| | `PauseStopsTheQueue` | `PausedHoldsQueue` | for one campaign, requests one at a time and no crash: `PauseKept` relates the status, the pause flag of the queue and the call between them |
| | `DeliveryImplementsMailing` | `MailedAsPromised` | for requests one at a time, no crash and no failing call (the theorem assumes all three); each step is one of `Mailing` or a stutter. It rests on `OneLaunch` (one batch, so one job for a contact), `Settled` (counters that reach the total leave nobody pending; a deleted row takes no count, while a post under way may still come out) and `NoReruns` (nothing is put back, and a job before its send was not accepted) |
| | `MailingAddsUp`, `CampaignAddsUp` | `AddsUp` of `Mailing` | an invariant of the abstract module alone, and by the refinement of the campaign rows. Its cardinalities move by one recipient at a step |
| | `JobsComeToAnEnd` | `JobsWindDown`, stated in the module | every step of a job lowers `StepsLeft`: the stages before it and the one round a stalled job may be put back for. With `BatchesFresh`, that an `addBulk` makes new jobs only. What `JobsDrain` adds is fairness |
| | `CompletionIsNotLost` | `NoLostCompletion` | for requests one at a time and no pause, failure, cap or removed contact (`Undisturbed`): `NoDetours` (no job is in the catch block, stalled, dropped or failed) and `StillWorking` (a RUNNING campaign has an unfinished job); by the lemma `UncountedLeft` a worker that does not find the full count leaves a job that is not counted |
| `Limits_proofs` | `QuotaInvariant` | `Accounting`, stated in the module | the counter is at least the slots taken plus the refunds due, and exceeds the slots only when they are all taken |
| | `CapHolds`, `RefusalsJustified` | `NeverOverCap`, `RefusedOnlyWhenFull` | follow from it |
| | `KeysGoAway` | `KeysExpire` | inductive with the type invariant and `Accounting` |
| | `ImplementsPool` | `PoolOfSlots` | the refinement of `DailyPool`: `Incr` below the cap takes a slot, by `Accounting` one that is free; a return grants it; every other command is a stutter |
| | `TypeCorrect` | the `TypeOK` of `RateLimit` | with `Bookkeeping`: a call uses only its keys, and increments belong to no later window |
| | `WindowLimitHolds`, `QuietCountHolds` | `WindowLimit`, `QuietCountExact` | `KeyAccounts`: admitted plus refunds due in this window are at most count plus late refunds, and equal to it while nothing failed |
| | `ForeverHolds` | `ForeverIsBrief` | `KeyExpiry`: a key with a refund due in this window exists, so only late refunds make keys without an expiry |
| | `LockoutHolds` | `LockoutKept` | `AttemptsBounded`: a locked counter plus the sign-ins past the guard stays below the bound; `LockLapses`: a counter without an expiry has a sign-in about to give it one |
| `MessageDelivery_proofs` | `TypeCorrect` | the module's `TypeOK` | inductive |
| | `SentIsAccepted`, `StatusMovesForward` | `SentMeansAccepted` (stated in the module), `StatusForward` | `RecordsFollowCalls`: what the record holds at each stage of the call. The id is stored with SENT, so a receipt that comes first finds nothing and the update cannot take a status back |
| | `ReceiptsAreTruthful` | `ReceiptsTruthful` | the same, for messages that all go to one contact (the theorem assumes it) |
| | `DeliveryImplementsReceipts` | `RecordsFollow` | under the same assumption; `FarOK`, which follows from the three invariants above it, keeps a record behind its message, the lemma `StatusStep` lists the steps of a status, and every step that moves a message leaves the records alone |
| | `AnswersAreTruthful` | `AnswersTruthful` | false failures are counted one by one against `faults` |
| `Notifications_proofs` | `TypeCorrect` | `NoteTypeOK` | inductive |
| | `TokensServeOverlap` | `TokenSpentByOverlap` | `SpendersKnown`: the times a token was spent plus the senders about to post with it are at most the senders and the lost answers; while it is not marked, each time it was spent is a sender about to mark it or a lost answer |
| | `SendsAreApart` | `RecurringSendsApart` | `DatesMoved`: after a sender's last send, its date is still to be computed or written and is a period later, or `nextAllowedAt` is; a write that takes it back puts the topic into `setBack`, and a direct send moves neither |
| | `SendsAreTimely` | `WindowSendsTimely` | `ReadTimely`, `CacheTimely`: an open status that a caller holds, or that is cached, was read before the newest window closed; `FillTime` and the lifetime of the entry bound how long it is used |
| `WebhookIngest_proofs` | `TypeCorrect` | the module's `TypeOK` | `RowsFollowStages`: what a handler has established by its stage |
| | `MessagesCountedOnce` | `CountedOnce` | with the jobs that have stored and not counted yet (`CountedOrCounting`); the unique message id lets one job at most get there |
| | `IngestImplementsInbox` | `InboxKept` | `OneCounter`: of the jobs of an event one at most stands before the count, so its increment takes the message out of the uncounted ones for good; every other step of the queue, the key and the agents is a stutter |
| | `LossNeedsCause` | `LossHasCause` | `NothingUnhandled`: while nothing failed, an event with a key is settled, erased with its contact, or in the hands of a job |
| `AuthSession_proofs` | `TypeCorrect` | `AuthTypeOK` | inductive |
| | `EndedSessionsAreOver` | `EndedSessionsDie` | `EndedIsGone`: a deleted row does not come back, and what a caller still holds of it is put in the cache before the next tick |
| | `LogoutEndsAtOnce` | `EndedAtOnce` | `ForgottenUnlessKept`: a cached entry of a deleted session belongs to a caller about to remove it, or the session is in `kept`, which names the ways the code leaves an entry behind |
| | `TokensAreSingleUse` | `TokenRedeemedByOverlap` | `TokenRules`: the token whose hash is in the row is younger than any that was taken; the lemma `OnlyRefreshRotates` says that only a refresh with that token gets to the update |
| | `ChangeEndsAll` | `ChangeEndsSessions` | `SignInsCurrent`: a sign-in under way belongs to the present account, or is recorded as stray; a call that fails before the sessions are ended is, too |
| `PageConnection_proofs` | `TypeCorrect` | `PageTypeOK` | inductive |
| | `PageHasOneRow`, `TokenStaysWithOwner` | `OneRowPerPage`, `TokenOfOwner` | `FreshReads`: a request that is not stale still has before it what it read; `AtMostOne`: so a create finds no row |
| | `ActiveIsSubscribed` | `SubscribedWhileActive` | `RowHooked`, `AnswerHooked`, `Unhooking`: a row that says it is subscribed is, or a request under way is about to end its use or to restore it, or the row is in `unsure`; `StillSo` carries the three over a step |
| `Console_proofs` | `CountsFollowMembers` | `CountDrift` | `CountKnown`: the stored count is that of the members, or someone is counting, or the one who was broke off and is recorded; `FreshCounts`: a count about to be written is current, or its writer is recorded as outdated |
| | `SegmentsAreKept` | `SegmentKept` | with: a campaign aimed at a segment under a delete is recorded |
| | `ValuesOfOthersAreKept`, `DefinitionsAreFollowed` | `OthersValuesKept`, `ValuesFollowDefinitions` | `CopiesCurrent`: a copy of the column that is not stale is the column; `ValuesChecked`: a value about to be set suits the definitions read with it; `AbsentIsEmpty`: without a row there are no values and no copies. The lemma `Written` carries them over any write of a row that is there |
| | `UsesStayFew` | `UsedByOverlap` | `UsesBounded`: each use of an open item is of a call that has yet to close it or was cut short, and an item is opened once, before anyone can use it; `Leaves`, `Uses` and `Introduces` are what a step of a clerk can do to that (`UsesStayBounded`) |
| | `FilesAreListed` | `FilesMatchRegistry` | `FileFollowed`: files and entry of an item agree, or a clerk is about to make them agree, and a new item has one clerk; it is claimed of items about which no call was cut short |

Model-checked only:

- `JobsDrain` is liveness under fairness, which the prover does not treat. Its
  safety half, that no job goes round in circles, is `JobsComeToAnEnd`; that the
  next step is always taken stays with TLC.
- With several requests at a time `QueuedOncePerRecipient` and
  `CompletedMeansAll` are not theorems: an update or a second launch may
  overwrite a launched campaign (`campaigns.service.ts:190`, section 4).

## 7. Not modelled, and why

The models cover the code that changes shared state over several awaited calls.
The larger part of the repository has no such protocol: about half of its lines
are the frontend, and much of the backend is controllers, DTOs, schemas,
validation and formatting. What the map in `PROJECT.json` names is therefore a
small share of all lines.

- *Drip and trigger campaigns.* No controller, queue or handler calls
  `DripCampaignService` or `TriggerCampaignService`; the campaigns controller
  has only the A/B tests.
- *A/B tests.* Their launch and their winner cannot be completed by a user on
  their own (section 4).
- *Plain and scheduled message queues.* `addBroadcast` and `scheduleMessage` have
  no caller. A plain job is a send without counters: its limits are in
  `RateLimit`, its record in `MessageDelivery`.
- *Conversations.* The steps that meet a webhook are in `WebhookIngest`;
  assignment, bulk update and notes write one row by id. Labels are read,
  changed and written like the lists of `Registries`.
- *Inbox gateway.* Rooms and presence in the memory of one process; nothing
  calls the emitters or reads the presence.
- *Workspaces.* `MAX_WORKSPACES` is a count before a create, which two creates
  can both pass; memberships are single rows under a unique constraint.
- *Webhook events* other than messages, receipts, echoes, opt-ins, referrals'
  field values and policy events: postbacks, reactions and thread control.
- *Facebook's sign-in* (the OAuth exchange), the Marketing API's forms, the
  Graph API itself: external, modelled by their answers.
- *Backup contents and restore, imports' CSV, mail, reports, health*: I/O.
- *Users, templates, tags, scores, tenancy, analytics, messages API*: single
  rows, or reads.
- *Frontend*: a client of the API. Its automatic refresh after a 401 is a caller
  of `AuthSession!Refresh`, where any caller may come at any time.
- *Storage clients, configuration, schema, shared types, scripts*: the Redis
  commands, the unique constraints and BullMQ are modelled where they are used.

## 8. Files and how to run them

    tlc -config MCCampaign_api.cfg MCCampaign      # camp_*: MCCampaign
    tlc -config MCLimits.cfg MCLimits              # limits
    tlc -config MCMessage_sends.cfg MCMessage      # sends, msg_failed: MCMessage
    tlc -config MCWebhook.cfg MCWebhook            # hook, hook_retry: MCWebhook
    tlc -config MCConsole.cfg MCConsole            # console*: MCConsole
    tlapm CampaignDelivery_proofs.tla              # any module of section 6

`PROJECT.json` has the machine-readable lists: components, runs, the slip that
breaks each property, the source lines of every definition, findings, hazards
and theorems.
