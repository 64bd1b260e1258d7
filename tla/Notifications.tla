---------------------------- MODULE Notifications ----------------------------
(***************************************************************************)
(* Permissions to write outside the window: one-time notification tokens   *)
(* (otn.service.ts) and recurring subscriptions                            *)
(* (recurring-notification.service.ts), the opt-ins and stops that arrive  *)
(* at the webhook (webhooks.service.ts), and what sendMessage() of         *)
(* send-api.service.ts writes to both.                                     *)
(*                                                                         *)
(* One contact of one page.  Each service reads the row, calls the Graph   *)
(* API and writes the row: a sender is between two of these calls.         *)
(***************************************************************************)
EXTENDS Naturals, FiniteSets

CONSTANTS
    Sender,    \* slots for sends that are under way together
    Token,     \* rows of otnToken
    Topic,     \* topics of recurring subscriptions
    Period,    \* time between two messages of a subscription
    Expiry,    \* the expiry times opt-ins come with, 0 for none
    MaxNoteTime,   \* bound: ticks of the clock
    MaxLost    \* bound: answers of the Graph API that do not arrive

ASSUME NotificationsAssumption ==
    /\ IsFiniteSet(Sender)
    /\ Period \in Nat \ {0} /\ Expiry \subseteq Nat
    /\ MaxNoteTime \in Nat \ {0} /\ MaxLost \in Nat

VARIABLES
    time,
    token,      \* otnToken: "none", "requested" (no token yet), "ready" or "used"
    sub,        \* recurringSubscription.status
    expiresAt,  \* recurringSubscription.expiresAt, 0 for null
    nextAt,     \* recurringSubscription.nextAllowedAt, 0 for null
    sender,     \* the call each sender is in
    spent,      \* history: times Facebook took a message for the token
    lastPost,   \* history: when Facebook took the last message by sender and topic
                \* that sendRecurringMessage() sent
    setBack,    \* history: topics whose nextAllowedAt an older date has replaced
    lost

subscription == <<sub, expiresAt, nextAt>>
noteVars == <<time, token, subscription, sender, spent, lastPost, setBack, lost>>

NoteTimes == 0..MaxNoteTime
TokenState == {"none", "requested", "ready", "used"}
SubStatus == {"ABSENT", "ACTIVE", "CANCELLED", "EXPIRED"}

FreeSender == [at |-> "free"]
SenderState ==
    {FreeSender} \cup [at : {"otn.post", "otn.mark", "mark"}, on : Token]
           \cup [at : {"rec.expire", "rec.post", "rec.date", "direct"}, on : Topic]
           \cup [at : {"rec.mark"}, on : Topic, date : Nat]

NoteInit ==
    /\ time = 1
    /\ token = [t \in Token |-> "none"]
    /\ sub = [p \in Topic |-> "ABSENT"]
    /\ expiresAt = [p \in Topic |-> 0]
    /\ nextAt = [p \in Topic |-> 0]
    /\ sender = [s \in Sender |-> FreeSender]
    /\ spent = [t \in Token |-> 0]
    /\ lastPost = [s \in Sender |-> [p \in Topic |-> 0]]
    /\ setBack = {} /\ lost = 0

Inside(s, at) == sender[s].at = at
Enter(s, at, on) == sender' = [sender EXCEPT ![s] = [at |-> at, on |-> on]]
Quit(s) == sender' = [sender EXCEPT ![s] = FreeSender]

\* The Graph API took the message, and the answer arrives or is lost.
Answered(s, at) ==
    \/ Enter(s, at, sender[s].on) /\ UNCHANGED lost
    \/ lost < MaxLost /\ lost' = lost + 1 /\ Quit(s)

(***************************************************************************)
(* One-time notifications.                                                 *)
(***************************************************************************)
\* requestOtn() and the opt-in each make a row of their own.
MakeToken(t) ==
    /\ token[t] = "none"
    /\ \E made \in {"requested", "ready"} : token' = [token EXCEPT ![t] = made]
    /\ UNCHANGED <<time, subscription, sender, spent, lastPost, setBack, lost>>

\* useOtnToken(): the checks, ...
ReadToken(s, t) ==
    /\ sender[s] = FreeSender
    /\ token[t] = "ready"
    /\ Enter(s, "otn.post", t)
    /\ UNCHANGED <<time, token, subscription, spent, lastPost, setBack, lost>>

\* ... the Graph API, ...
PostWithToken(s) ==
    /\ Inside(s, "otn.post")
    /\ \/ Answered(s, "otn.mark") /\ spent' = [spent EXCEPT ![sender[s].on] = @ + 1]
       \/ Quit(s) /\ UNCHANGED <<spent, lost>>
    /\ UNCHANGED <<time, token, subscription, lastPost, setBack>>

\* Slip: the token is only marked by the record of the message.
Slip_NoMark(s) ==
    /\ Inside(s, "otn.mark")
    /\ Quit(s)
    /\ UNCHANGED <<time, token, subscription, spent, lastPost, setBack, lost>>

\* ... and the mark.
MarkToken(s) ==
    /\ Inside(s, "otn.mark") \/ Inside(s, "mark")
    /\ token' = [token EXCEPT ![sender[s].on] = "used"]
    /\ Quit(s)
    /\ UNCHANGED <<time, subscription, spent, lastPost, setBack, lost>>

\* sendMessage() of send-api.service.ts with an otnTokenId: the token is not
\* looked at, the message goes to the contact's id, and the token is marked.
SendNaming(s, t) ==
    /\ sender[s] = FreeSender
    /\ token[t] # "none"
    /\ Enter(s, "mark", t)
    /\ UNCHANGED <<time, token, subscription, spent, lastPost, setBack, lost>>

(***************************************************************************)
(* Recurring notifications: sendRecurringMessage().                        *)
(***************************************************************************)
\* The checks.  A subscription past its expiry is marked so next.
ReadSubscription(s, p) ==
    LET expired == expiresAt[p] # 0 /\ expiresAt[p] < time IN
    /\ sender[s] = FreeSender
    /\ sub[p] = "ACTIVE"
    /\ \/ expired /\ Enter(s, "rec.expire", p)
       \/ ~expired /\ nextAt[p] <= time /\ Enter(s, "rec.post", p)
    /\ UNCHANGED <<time, token, subscription, spent, lastPost, setBack, lost>>

MarkExpired(s) ==
    /\ Inside(s, "rec.expire")
    /\ sub' = [sub EXCEPT ![sender[s].on] = "EXPIRED"]
    /\ Quit(s)
    /\ UNCHANGED <<time, token, expiresAt, nextAt, spent, lastPost, setBack, lost>>

PostRecurring(s) ==
    /\ Inside(s, "rec.post")
    /\ \/ /\ Answered(s, "rec.date")
          /\ lastPost' = [lastPost EXCEPT ![s][sender[s].on] = time]
       \/ Quit(s) /\ UNCHANGED <<lastPost, lost>>
    /\ UNCHANGED <<time, token, subscription, spent, setBack>>

\* The answer arrives: the next date is computed, before the awaited update.
DateNext(s) ==
    /\ Inside(s, "rec.date")
    /\ sender' = [sender EXCEPT ![s] = [at |-> "rec.mark", on |-> @.on, date |-> time + Period]]
    /\ UNCHANGED <<time, token, subscription, spent, lastPost, setBack, lost>>

MarkRecurring(s) ==
    LET p == sender[s].on IN
    /\ Inside(s, "rec.mark")
    /\ nextAt' = [nextAt EXCEPT ![p] = sender[s].date]
    /\ setBack' = IF sender[s].date < nextAt[p] THEN setBack \cup {p} ELSE setBack
    /\ Quit(s)
    /\ UNCHANGED <<time, token, sub, expiresAt, spent, lastPost, lost>>

\* sendMessage() of send-api.service.ts with a recurringSubscriptionId.  Neither
\* the status of that row nor its date is looked at (a cached status of the window
\* tells whether the contact has any subscription), and none of them is written:
\* only lastSentAt and messagesSent, which nothing reads.
SendOnTopic(s, p) ==
    /\ sender[s] = FreeSender
    /\ sub[p] # "ABSENT"
    /\ Enter(s, "direct", p)
    /\ UNCHANGED <<time, token, subscription, spent, lastPost, setBack, lost>>

CountDirect(s) ==
    /\ Inside(s, "direct")
    /\ Quit(s)
    /\ UNCHANGED <<time, token, subscription, spent, lastPost, setBack, lost>>

(***************************************************************************)
(* The contact, through the webhook: handleOptin().                        *)
(***************************************************************************)
\* Slip: an opt-in allows a message at once, as handleOptIn() of the recurring
\* service, which nothing calls, would have it.
Slip_OptInResets(p) ==
    /\ sub' = [sub EXCEPT ![p] = "ACTIVE"]
    /\ \E e \in Expiry : expiresAt' = [expiresAt EXCEPT ![p] = e]
    /\ nextAt' = [nextAt EXCEPT ![p] = time]
    /\ UNCHANGED <<time, token, sender, spent, lastPost, setBack, lost>>

\* An upsert by topic, which leaves nextAllowedAt alone.
OptIn(p) ==
    /\ sub' = [sub EXCEPT ![p] = "ACTIVE"]
    /\ \E e \in Expiry : expiresAt' = [expiresAt EXCEPT ![p] = e]
    /\ UNCHANGED <<time, token, nextAt, sender, spent, lastPost, setBack, lost>>

\* STOP_NOTIFICATIONS for one topic, or for all when the event names none.
Stop ==
    /\ \E stopped \in {{p} : p \in Topic} \cup {Topic} :
         sub' = [p \in Topic |-> IF p \in stopped /\ sub[p] # "ABSENT"
                                 THEN "CANCELLED" ELSE sub[p]]
    /\ UNCHANGED <<time, token, expiresAt, nextAt, sender, spent, lastPost, setBack, lost>>

Pass ==
    /\ time < MaxNoteTime
    /\ time' = time + 1
    /\ UNCHANGED <<token, subscription, sender, spent, lastPost, setBack, lost>>

-----------------------------------------------------------------------------
Work(s) ==
    \/ \E t \in Token : ReadToken(s, t) \/ SendNaming(s, t)
    \/ \E p \in Topic : ReadSubscription(s, p) \/ SendOnTopic(s, p)
    \/ PostWithToken(s) \/ MarkToken(s)
    \/ MarkExpired(s) \/ PostRecurring(s) \/ DateNext(s) \/ MarkRecurring(s)
    \/ CountDirect(s)

NoteNext ==
    \/ \E s \in Sender : Work(s)
    \/ \E t \in Token : MakeToken(t)
    \/ \E p \in Topic : OptIn(p)
    \/ Stop
    \/ Pass

NoteSpec == NoteInit /\ [][NoteNext]_noteVars

-----------------------------------------------------------------------------
(***************************************************************************)
(* Properties.                                                             *)
(***************************************************************************)
NoteTypeOK ==
    /\ time \in NoteTimes
    /\ token \in [Token -> TokenState]
    /\ sub \in [Topic -> SubStatus]
    /\ expiresAt \in [Topic -> Expiry \cup {0}]
    /\ nextAt \in [Topic -> Nat]
    /\ sender \in [Sender -> SenderState]
    /\ spent \in [Token -> Nat]
    /\ lastPost \in [Sender -> [Topic -> NoteTimes]]
    /\ setBack \subseteq Topic
    /\ lost \in 0..MaxLost

\* "SINGLE USE!" (otn.service.ts:378), as far as it holds: sends that overlap
\* can each use a token once, and so can one after every lost answer, but no
\* number of sends one after the other can.
TokenSpentByOverlap ==
    \A t \in Token : spent[t] <= Cardinality(Sender) + lost

\* sendRecurringMessage() never sends twice for one sender on a topic within the
\* period, whatever the contact renews or stops and whatever sendMessage() sends on
\* the subscription meanwhile (which is held to no period).  It relies on answers
\* that arrive and on dates that only move forward: a mark computed before another
\* one and written after it takes the date back.
RecurringSendsApart ==
    [][\A s \in Sender, p \in Topic :
         (lastPost'[s][p] # lastPost[s][p] /\ lastPost[s][p] > 0 /\ lost = 0 /\ p \notin setBack)
             => lastPost'[s][p] >= lastPost[s][p] + Period]_noteVars
=============================================================================
