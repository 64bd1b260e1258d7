-------------------------- MODULE MessageDelivery --------------------------
(***************************************************************************)
(* The record of an outbound message: SendApiService.sendMessage() creates *)
(* it and sends the message through the Graph API; echoes, delivery and    *)
(* read receipts of Facebook, handled by webhooks.service.ts, move its     *)
(* status on while the send itself may still be under way.                 *)
(*                                                                         *)
(* One page.  Time is the server's clock, which Facebook's watermarks are  *)
(* taken to agree with.  A receipt may arrive at any time after what it    *)
(* reports, in any order, and more than once.                              *)
(***************************************************************************)
EXTENDS Naturals, FiniteSets

CONSTANTS
    Message,   \* calls of sendMessage, and the records they create
    Contact,
    To,        \* the contact each message goes to
    MaxTime,   \* bound: ticks of the clock
    MaxFault   \* bound: database or Graph API calls that fail

ASSUME MessageAssumption ==
    /\ IsFiniteSet(Message)
    /\ To \in [Message -> Contact]
    /\ MaxTime \in Nat \ {0} /\ MaxFault \in Nat

VARIABLES
    call,      \* where each call of sendMessage stands
    status,    \* message.status, "NONE" before the record is created
    mid,       \* is message.fbMessageId set?
    sentAt,    \* message.sentAt, 0 for null
    accepted,  \* Facebook: when it took the message, 0 if it did not
    seen,      \* Facebook: "no", "delivered" or "read"
    now, faults

record == <<status, mid, sentAt>>
facebook == <<accepted, seen>>
vars == <<call, record, facebook, now, faults>>

Init ==
    /\ call = [m \in Message |-> "idle"]
    /\ status = [m \in Message |-> "NONE"]
    /\ mid = [m \in Message |-> FALSE]
    /\ sentAt = [m \in Message |-> 0]
    /\ accepted = [m \in Message |-> 0]
    /\ seen = [m \in Message |-> "no"]
    /\ now = 1 /\ faults = 0

At(m, s) == call[m] = s
Go(m, s) == call' = [call EXCEPT ![m] = s]
Fault == faults < MaxFault /\ faults' = faults + 1

(***************************************************************************)
(* sendMessage(): "success" and "failure" are its answers.                 *)
(***************************************************************************)
\* Before the record: contact or page missing, no bypass method, no
\* conversation.  Nothing is stored.
Refuse(m) ==
    /\ At(m, "idle") /\ Go(m, "failure")
    /\ UNCHANGED <<record, facebook, now, faults>>

CreateRecord(m) ==
    /\ At(m, "idle") /\ Go(m, "created")
    /\ status' = [status EXCEPT ![m] = "PENDING"]
    /\ UNCHANGED <<mid, sentAt, facebook, now, faults>>

\* The request reaches Facebook, which takes the message or answers an error.
\* The catch block looks for error.messageId, which no error has.
Post(m) ==
    /\ At(m, "created")
    /\ \/ /\ accepted' = [accepted EXCEPT ![m] = now]
          /\ Go(m, "posted")
       \/ /\ Go(m, "failure")
          /\ UNCHANGED accepted
    /\ UNCHANGED <<record, seen, now, faults>>

\* The answer arrives and the record is updated, by id.
RecordSent(m) ==
    /\ At(m, "posted") /\ Go(m, "recorded")
    /\ status' = [status EXCEPT ![m] = "SENT"]
    /\ mid' = [mid EXCEPT ![m] = TRUE]
    /\ sentAt' = [sentAt EXCEPT ![m] = now]
    /\ UNCHANGED <<facebook, now, faults>>

\* Conversation, contact, OTN token, subscription and cache are updated.
Finish(m) ==
    /\ At(m, "recorded") /\ Go(m, "success")
    /\ UNCHANGED <<record, facebook, now, faults>>

\* Slip: an error is answered as a success.
Slip_FailAsSuccess(m) ==
    /\ Fault
    /\ call[m] \in {"created", "posted", "recorded"} /\ Go(m, "success")
    /\ UNCHANGED <<record, facebook, now>>

\* A step throws: the answer is a failure, also when Facebook has the message
\* (its answer is lost, or a later update fails).
Fail(m) ==
    /\ Fault
    /\ call[m] \in {"created", "posted", "recorded"} /\ Go(m, "failure")
    /\ UNCHANGED <<record, facebook, now>>

-----------------------------------------------------------------------------
(***************************************************************************)
(* Facebook.  A watermark covers every message it took by then.            *)
(***************************************************************************)
Deliver(m) ==
    /\ accepted[m] # 0 /\ seen[m] = "no"
    /\ seen' = [seen EXCEPT ![m] = "delivered"]
    /\ UNCHANGED <<call, record, accepted, now, faults>>

\* A contact that opens the thread reads everything delivered so far.
Read(c) ==
    /\ \E m \in Message : To[m] = c /\ seen[m] = "delivered"
    /\ seen' = [m \in Message |->
                  IF To[m] = c /\ seen[m] = "delivered" THEN "read" ELSE seen[m]]
    /\ UNCHANGED <<call, record, accepted, now, faults>>

Covered(c, w) == {m \in Message : To[m] = c /\ accepted[m] \in 1..w}

(***************************************************************************)
(* The webhook handlers; each is one updateMany.                           *)
(***************************************************************************)
\* handleEchoMessage(): the record is found by the id Facebook gave it.
HandleEcho(m) ==
    /\ accepted[m] # 0
    /\ LET found == mid[m] /\ status[m] = "PENDING" IN
         /\ status' = [status EXCEPT ![m] = IF found THEN "SENT" ELSE @]
         /\ sentAt' = [sentAt EXCEPT ![m] = IF found THEN now ELSE @]
    /\ UNCHANGED <<call, mid, facebook, now, faults>>

\* Slip: the receipt is applied whatever the status of the message.
Slip_AnyStatus(m) == status[m] # "NONE"

Undelivered(m) == status[m] \in {"SENT", "PENDING"}

\* handleDelivery() with message ids.
HandleDeliveredIds(c) ==
    \E ids \in SUBSET {m \in Message : To[m] = c /\ seen[m] # "no"} \ {{}} :
        /\ status' = [m \in Message |->
             IF m \in ids /\ mid[m] /\ Undelivered(m) THEN "DELIVERED" ELSE status[m]]
        /\ UNCHANGED <<call, mid, sentAt, facebook, now, faults>>

\* Slip: records that were never sent are not left out.
Slip_SentBy(m, w) == sentAt[m] <= w

\* sentAt <= watermark, which a null does not satisfy.
SentBy(m, w) == sentAt[m] # 0 /\ sentAt[m] <= w

\* handleDelivery() without ids: every message of the page up to the watermark.
HandleDeliveredUpTo(c) ==
    \E w \in 1..now :
        /\ Covered(c, w) # {} /\ \A m \in Covered(c, w) : seen[m] # "no"
        /\ status' = [m \in Message |->
             IF SentBy(m, w) /\ Undelivered(m) THEN "DELIVERED" ELSE status[m]]
        /\ UNCHANGED <<call, mid, sentAt, facebook, now, faults>>

\* handleRead(): every message of the page up to the watermark.
HandleRead(c) ==
    \E w \in 1..now :
        /\ Covered(c, w) # {} /\ \A m \in Covered(c, w) : seen[m] = "read"
        /\ status' = [m \in Message |->
             IF SentBy(m, w) /\ status[m] \in {"SENT", "DELIVERED"}
             THEN "READ" ELSE status[m]]
        /\ UNCHANGED <<call, mid, sentAt, facebook, now, faults>>

Tick ==
    /\ now < MaxTime /\ now' = now + 1
    /\ UNCHANGED <<call, record, facebook, faults>>

Next ==
    \/ \E m \in Message :
         Refuse(m) \/ CreateRecord(m) \/ Post(m) \/ RecordSent(m) \/ Finish(m)
           \/ Fail(m) \/ Deliver(m) \/ HandleEcho(m)
    \/ \E c \in Contact :
         Read(c) \/ HandleDeliveredIds(c) \/ HandleDeliveredUpTo(c) \/ HandleRead(c)
    \/ Tick

Spec == Init /\ [][Next]_vars

-----------------------------------------------------------------------------
Status == {"NONE", "PENDING", "SENT", "DELIVERED", "READ"}
Call == {"idle", "created", "posted", "recorded", "success", "failure"}

\* Every variable keeps to its values; sentAt and fbMessageId are set together.
TypeOK ==
    /\ call \in [Message -> Call]
    /\ status \in [Message -> Status]
    /\ mid \in [Message -> BOOLEAN]
    /\ sentAt \in [Message -> 0..MaxTime]
    /\ accepted \in [Message -> 0..MaxTime]
    /\ seen \in [Message -> {"no", "delivered", "read"}]
    /\ now \in 1..MaxTime /\ faults \in 0..MaxFault
    /\ \A m \in Message : mid[m] <=> sentAt[m] # 0

Rank(s) == CASE s = "NONE" -> 0 [] s = "PENDING" -> 1 [] s = "SENT" -> 2
             [] s = "DELIVERED" -> 3 [] s = "READ" -> 4

\* The status of a record only moves forward: neither the update after the send
\* nor a late or repeated receipt takes a step of another one back.
StatusForward ==
    [][\A m \in Message : Rank(status[m]) <= Rank(status'[m])]_vars

\* A record that says sent, delivered or read is one of a message Facebook took.
SentMeansAccepted ==
    \A m \in Message : status[m] \notin {"NONE", "PENDING"} => accepted[m] # 0

\* With one contact on the page, a record says delivered or read only when the
\* message was, although the receipts are matched by time and not by message.
ReceiptsTruthful ==
    \A m \in Message :
        /\ status[m] = "DELIVERED" => seen[m] # "no"
        /\ status[m] = "READ" => seen[m] = "read"

\* sendMessage answers the truth unless a call failed: no success for a message
\* Facebook does not have, and no more false failures than failing calls.
AnswersTruthful ==
    /\ \A m \in Message : At(m, "success") => accepted[m] # 0 /\ mid[m]
    /\ Cardinality({m \in Message : At(m, "failure") /\ accepted[m] # 0}) <= faults

\* "If we created a message record, update it with failure"
\* (send-api.service.ts:371): no record of a failed send is left PENDING.
FailureRecorded ==
    \A m \in Message : At(m, "failure") => status[m] # "PENDING"

(***************************************************************************)
(* What the send, the echoes and the receipts implement: Receipts.         *)
(***************************************************************************)
Reached == [m \in Message |->
    CASE accepted[m] = 0 -> 0
      [] accepted[m] # 0 /\ seen[m] = "no" -> 1
      [] accepted[m] # 0 /\ seen[m] = "delivered" -> 2
      [] accepted[m] # 0 /\ seen[m] = "read" -> 3]

Told == [m \in Message |-> IF status[m] = "NONE" THEN 0 ELSE Rank(status[m]) - 1]

Receipt == INSTANCE Receipts WITH reached <- Reached, told <- Told

\* With one contact on the page a record follows its message, some way behind and
\* never ahead, whatever calls, echoes and receipts overtake each other.
RecordsFollow == Receipt!Spec
=============================================================================
