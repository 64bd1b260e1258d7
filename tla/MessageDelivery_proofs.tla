----------------------- MODULE MessageDelivery_proofs -----------------------
(***************************************************************************)
(* Theorems about MessageDelivery, for every set of messages and contacts  *)
(* and every bound.                                                        *)
(***************************************************************************)
EXTENDS MessageDelivery, FiniteSetTheorems, TLAPS

(***************************************************************************)
(* The inductive invariant.  How far the call has come fixes what the      *)
(* record can say; the receipts only touch records that carry the id or    *)
(* the time of the send, and so only messages Facebook has.                *)
(***************************************************************************)
RecordFollowsCall(m) ==
    /\ At(m, "idle") => status[m] = "NONE"
    /\ At(m, "created") => status[m] = "PENDING" /\ accepted[m] = 0
    /\ At(m, "posted") => status[m] = "PENDING" /\ accepted[m] # 0
    /\ call[m] \in {"recorded", "success"} => mid[m]
    /\ status[m] = "NONE" => accepted[m] = 0
    /\ mid[m] => accepted[m] # 0
    /\ status[m] \notin {"NONE", "PENDING"} => mid[m]
    /\ mid[m] => status[m] \notin {"NONE", "PENDING"}
    /\ accepted[m] <= now
    /\ mid[m] => accepted[m] <= sentAt[m]

RecordsFollowCalls == \A m \in Message : RecordFollowsCall(m)

-----------------------------------------------------------------------------
(***************************************************************************)
(* Type correctness.                                                       *)
(***************************************************************************)
LEMMA InitTypeOK == Init => TypeOK
BY MessageAssumption DEF Init, TypeOK, Status, Call

LEMMA NextTypeOK == TypeOK /\ [Next]_vars => TypeOK'
<1> SUFFICES ASSUME TypeOK, [Next]_vars PROVE TypeOK'
  OBVIOUS
<1> USE DEF TypeOK, record, facebook, At, Go, Fault, Status, Call
<1>1. ASSUME NEW m \in Message,
             \/ Refuse(m) \/ CreateRecord(m) \/ Post(m) \/ Finish(m) \/ Fail(m)
             \/ Deliver(m)
      PROVE  TypeOK'
  BY <1>1, MessageAssumption DEF Refuse, CreateRecord, Post, Finish, Fail, Deliver
<1>2. ASSUME NEW m \in Message, RecordSent(m) PROVE TypeOK'
  BY <1>2, MessageAssumption DEF RecordSent
<1>3. ASSUME NEW m \in Message, HandleEcho(m) PROVE TypeOK'
  BY <1>3, MessageAssumption DEF HandleEcho
<1>4. ASSUME NEW c \in Contact, Read(c) PROVE TypeOK'
  BY <1>4 DEF Read
<1>5. ASSUME NEW c \in Contact,
             HandleDeliveredIds(c) \/ HandleDeliveredUpTo(c) \/ HandleRead(c)
      PROVE  TypeOK'
  BY <1>5 DEF HandleDeliveredIds, HandleDeliveredUpTo, HandleRead
<1>6. CASE Tick
  BY <1>6, MessageAssumption DEF Tick
<1>7. CASE UNCHANGED vars
  BY <1>7 DEF vars
<1> QED
  BY <1>1, <1>2, <1>3, <1>4, <1>5, <1>6, <1>7 DEF Next

\* Every variable keeps to the values the code can give it, and the id and the
\* time of a send are stored together.
THEOREM TypeCorrect == Spec => []TypeOK
BY InitTypeOK, NextTypeOK, PTL DEF Spec

-----------------------------------------------------------------------------
(***************************************************************************)
(* The record and the call.                                                *)
(***************************************************************************)
LEMMA InitRecords == Init => RecordsFollowCalls
BY DEF Init, RecordsFollowCalls, RecordFollowsCall, At

LEMMA NextRecords == TypeOK /\ RecordsFollowCalls /\ [Next]_vars => RecordsFollowCalls'
<1> SUFFICES ASSUME TypeOK, RecordsFollowCalls, [Next]_vars, NEW n \in Message
             PROVE  RecordFollowsCall(n)'
  BY DEF RecordsFollowCalls
<1>0. RecordFollowsCall(n)
  BY DEF RecordsFollowCalls
<1> USE <1>0 DEF TypeOK, RecordFollowsCall, record, facebook, At, Go, Fault, Status, Call
<1>1. ASSUME NEW m \in Message,
             Refuse(m) \/ CreateRecord(m) \/ Finish(m) \/ Fail(m) \/ Deliver(m)
      PROVE  RecordFollowsCall(n)'
  BY <1>1 DEF Refuse, CreateRecord, Finish, Fail, Deliver
<1>2. ASSUME NEW m \in Message, Post(m) PROVE RecordFollowsCall(n)'
  BY <1>2 DEF Post
<1>3. ASSUME NEW m \in Message, RecordSent(m) PROVE RecordFollowsCall(n)'
  BY <1>3 DEF RecordSent
<1>4. ASSUME NEW m \in Message, HandleEcho(m) PROVE RecordFollowsCall(n)'
  BY <1>4 DEF HandleEcho
<1>5. ASSUME NEW c \in Contact, Read(c) PROVE RecordFollowsCall(n)'
  BY <1>5 DEF Read
<1>6. ASSUME NEW c \in Contact,
             HandleDeliveredIds(c) \/ HandleDeliveredUpTo(c) \/ HandleRead(c)
      PROVE  RecordFollowsCall(n)'
  BY <1>6 DEF HandleDeliveredIds, HandleDeliveredUpTo, HandleRead, SentBy, Undelivered
<1>7. CASE Tick
  BY <1>7 DEF Tick
<1>8. CASE UNCHANGED vars
  BY <1>8 DEF vars
<1> QED
  BY <1>1, <1>2, <1>3, <1>4, <1>5, <1>6, <1>7, <1>8 DEF Next

THEOREM RecordInvariant == Spec => []RecordsFollowCalls
BY InitRecords, NextRecords, TypeCorrect, PTL DEF Spec

\* A record never claims a send that did not happen.
THEOREM SentIsAccepted == Spec => []SentMeansAccepted
<1>1. RecordsFollowCalls => SentMeansAccepted
  BY DEF RecordsFollowCalls, RecordFollowsCall, SentMeansAccepted
<1> QED
  BY <1>1, RecordInvariant, PTL

\* The steps the status of a record takes.
LEMMA StatusStep ==
    ASSUME TypeOK, RecordsFollowCalls, Next, NEW n \in Message
    PROVE  \/ status'[n] = status[n]
           \/ status[n] = "NONE" /\ status'[n] = "PENDING"
           \/ status[n] = "PENDING" /\ status'[n] = "SENT"
           \/ status[n] \in {"PENDING", "SENT"} /\ status'[n] = "DELIVERED"
           \/ status[n] \in {"SENT", "DELIVERED"} /\ status'[n] = "READ"
<1>0. RecordFollowsCall(n)
  BY DEF RecordsFollowCalls
<1> USE DEF TypeOK, record, facebook, At, Go
<1>1. CASE \E m \in Message :
              Refuse(m) \/ CreateRecord(m) \/ Post(m) \/ RecordSent(m) \/ Finish(m)
                \/ Fail(m) \/ Deliver(m) \/ HandleEcho(m)
  BY <1>0, <1>1 DEF RecordFollowsCall, Refuse, CreateRecord, Post, RecordSent, Finish,
                    Fail, Deliver, HandleEcho
<1>2. CASE \E c \in Contact :
              Read(c) \/ HandleDeliveredIds(c) \/ HandleDeliveredUpTo(c) \/ HandleRead(c)
  BY <1>2 DEF Read, HandleDeliveredIds, HandleDeliveredUpTo, HandleRead, Undelivered
<1>3. CASE Tick
  BY <1>3 DEF Tick
<1> QED
  BY <1>1, <1>2, <1>3 DEF Next

\* The status of a record only moves forward, whatever the order in which the
\* answer of the send, echoes and receipts are handled.
THEOREM StatusMovesForward == Spec => StatusForward
<1>1. TypeOK /\ RecordsFollowCalls /\ [Next]_vars
        => [\A m \in Message : Rank(status[m]) <= Rank(status'[m])]_vars
  <2> SUFFICES ASSUME TypeOK, RecordsFollowCalls, Next, NEW n \in Message
               PROVE  Rank(status[n]) <= Rank(status'[n])
    OBVIOUS
  <2>1. status[n] \in Status
    BY DEF TypeOK
  <2> QED
    BY <2>1, StatusStep DEF Rank, Status
<1> QED
  BY <1>1, TypeCorrect, RecordInvariant, PTL DEF Spec, StatusForward

-----------------------------------------------------------------------------
(***************************************************************************)
(* Receipts.                                                               *)
(***************************************************************************)
\* On a page with one contact, a record says delivered or read only when the
\* message was: matching by time then finds the messages of the receipt.
THEOREM ReceiptsAreTruthful ==
    ASSUME \A m, n \in Message : To[m] = To[n]
    PROVE  Spec => []ReceiptsTruthful
<1>1. Init => ReceiptsTruthful
  BY DEF Init, ReceiptsTruthful
<1>2. TypeOK /\ RecordsFollowCalls /\ ReceiptsTruthful /\ [Next]_vars => ReceiptsTruthful'
  <2> SUFFICES ASSUME TypeOK, RecordsFollowCalls, ReceiptsTruthful, [Next]_vars,
                      NEW n \in Message
               PROVE  /\ (status[n] = "DELIVERED" => seen[n] # "no")'
                      /\ (status[n] = "READ" => seen[n] = "read")'
    BY DEF ReceiptsTruthful
  <2>0. /\ RecordFollowsCall(n)
        /\ status[n] = "DELIVERED" => seen[n] # "no"
        /\ status[n] = "READ" => seen[n] = "read"
    BY DEF RecordsFollowCalls, ReceiptsTruthful
  <2> USE <2>0 DEF TypeOK, record, facebook, At, Go
  <2>1. CASE \E m \in Message :
                Refuse(m) \/ CreateRecord(m) \/ Post(m) \/ RecordSent(m) \/ Finish(m)
                  \/ Fail(m) \/ Deliver(m) \/ HandleEcho(m)
    BY <2>1 DEF Refuse, CreateRecord, Post, RecordSent, Finish, Fail, Deliver, HandleEcho
  <2>2. CASE \E c \in Contact : Read(c)
    BY <2>2 DEF Read
  <2>3. CASE \E c \in Contact : HandleDeliveredIds(c)
    BY <2>3 DEF HandleDeliveredIds, Undelivered
  <2>4. ASSUME NEW c \in Contact, NEW w \in 1..now, Covered(c, w) # {}, SentBy(n, w)
        PROVE  n \in Covered(c, w)
    <3>1. accepted[n] \in 1..w
      BY <2>4 DEF SentBy, RecordFollowsCall
    <3> QED
      BY <2>4, <3>1 DEF Covered
  <2>5. CASE \E c \in Contact : HandleDeliveredUpTo(c)
    BY <2>4, <2>5 DEF HandleDeliveredUpTo, Undelivered
  <2>6. CASE \E c \in Contact : HandleRead(c)
    BY <2>4, <2>6 DEF HandleRead
  <2>7. CASE Tick \/ UNCHANGED vars
    BY <2>7 DEF Tick, vars
  <2> QED
    BY <2>1, <2>2, <2>3, <2>5, <2>6, <2>7 DEF Next
<1> QED
  BY <1>1, <1>2, TypeCorrect, RecordInvariant, PTL DEF Spec

-----------------------------------------------------------------------------
(***************************************************************************)
(* Answers.                                                                *)
(***************************************************************************)
\* Calls that were answered a failure although Facebook has the message.
FalseFailures == {m \in Message : At(m, "failure") /\ accepted[m] # 0}

FewFalseFailures == Cardinality(FalseFailures) <= faults

LEMMA FalseFailuresFinite == IsFiniteSet(FalseFailures) /\ Cardinality(FalseFailures) \in Nat
<1>1. FalseFailures \subseteq Message
  BY DEF FalseFailures
<1>2. IsFiniteSet(FalseFailures)
  BY <1>1, MessageAssumption, FS_Subset
<1> QED
  BY <1>2, FS_CardinalityType

LEMMA NextFalseFailures ==
    TypeOK /\ RecordsFollowCalls /\ FewFalseFailures /\ [Next]_vars => FewFalseFailures'
<1> SUFFICES ASSUME TypeOK, RecordsFollowCalls, FewFalseFailures, [Next]_vars
             PROVE  FewFalseFailures'
  OBVIOUS
<1> USE DEF record, facebook, At, Go, FewFalseFailures
<1>1. ASSUME FalseFailures' = FalseFailures, faults' = faults PROVE FewFalseFailures'
  BY <1>1
<1>2. ASSUME NEW m \in Message, Fail(m) PROVE FewFalseFailures'
  <2>1. faults' = faults + 1 /\ FalseFailures' \subseteq FalseFailures \cup {m}
    BY <1>2 DEF Fail, Fault, FalseFailures, TypeOK
  <2>2. /\ IsFiniteSet(FalseFailures \cup {m})
        /\ Cardinality(FalseFailures \cup {m}) \in Nat
        /\ Cardinality(FalseFailures \cup {m}) <= Cardinality(FalseFailures) + 1
    <3>1. IsFiniteSet(FalseFailures)
      BY FalseFailuresFinite
    <3>2. /\ IsFiniteSet(FalseFailures \cup {m})
          /\ Cardinality(FalseFailures \cup {m}) =
                IF m \in FalseFailures THEN Cardinality(FalseFailures)
                                       ELSE Cardinality(FalseFailures) + 1
      BY <3>1, FS_AddElement
    <3> QED
      BY <3>2, FalseFailuresFinite
  <2>3. Cardinality(FalseFailures') <= Cardinality(FalseFailures \cup {m})
    BY <2>1, <2>2, FS_Subset
  <2>4. Cardinality(FalseFailures') \in Nat
    BY <2>1, <2>2, FS_Subset, FS_CardinalityType
  <2> QED
    BY <2>1, <2>2, <2>3, <2>4, FalseFailuresFinite DEF TypeOK
<1>3. ASSUME NEW m \in Message, Post(m) PROVE FewFalseFailures'
  <2>1. FalseFailures' = FalseFailures
    <3>1. /\ call[m] = "created" /\ RecordFollowsCall(m)
          /\ call' \in {[call EXCEPT ![m] = "posted"], [call EXCEPT ![m] = "failure"]}
          /\ call'[m] = "failure" => accepted' = accepted
          /\ \A n \in Message \ {m} : call'[n] = call[n] /\ accepted'[n] = accepted[n]
      BY <1>3 DEF Post, RecordsFollowCalls, TypeOK
    <3> QED
      BY <3>1 DEF FalseFailures, RecordFollowsCall, TypeOK
  <2> QED
    BY <1>1, <1>3, <2>1 DEF Post
<1>4. ASSUME NEW m \in Message, Refuse(m) PROVE FewFalseFailures'
  <2>1. accepted[m] = 0
    BY <1>4 DEF Refuse, RecordsFollowCalls, RecordFollowsCall
  <2>2. FalseFailures' = FalseFailures
    BY <1>4, <2>1 DEF Refuse, FalseFailures, TypeOK
  <2> QED
    BY <1>1, <1>4, <2>2 DEF Refuse
<1>5. ASSUME NEW m \in Message,
             CreateRecord(m) \/ RecordSent(m) \/ Finish(m) \/ Deliver(m) \/ HandleEcho(m)
      PROVE  FewFalseFailures'
  <2>1. FalseFailures' = FalseFailures
    BY <1>5 DEF CreateRecord, RecordSent, Finish, Deliver, HandleEcho, FalseFailures, TypeOK
  <2> QED
    BY <1>1, <1>5, <2>1 DEF CreateRecord, RecordSent, Finish, Deliver, HandleEcho
<1>6. ASSUME UNCHANGED <<call, accepted, faults>> PROVE FewFalseFailures'
  BY <1>1, <1>6 DEF FalseFailures
<1>7. ASSUME NEW c \in Contact,
             Read(c) \/ HandleDeliveredIds(c) \/ HandleDeliveredUpTo(c) \/ HandleRead(c)
      PROVE  FewFalseFailures'
  BY <1>6, <1>7 DEF Read, HandleDeliveredIds, HandleDeliveredUpTo, HandleRead
<1>8. CASE Tick \/ UNCHANGED vars
  BY <1>6, <1>8 DEF Tick, vars
<1> QED
  BY <1>2, <1>3, <1>4, <1>5, <1>7, <1>8 DEF Next

\* sendMessage answers the truth, up to one false failure for each call that
\* fails, and never a false success.
THEOREM AnswersAreTruthful == Spec => []AnswersTruthful
<1>1. Init => FewFalseFailures
  <2> SUFFICES ASSUME Init PROVE FewFalseFailures
    OBVIOUS
  <2>1. FalseFailures = {}
    BY DEF Init, FalseFailures
  <2> QED
    BY <2>1, FS_EmptySet DEF Init, FewFalseFailures
<1>2. RecordsFollowCalls /\ FewFalseFailures => AnswersTruthful
  BY DEF RecordsFollowCalls, RecordFollowsCall, FewFalseFailures, FalseFailures,
         AnswersTruthful, At
<1> QED
  BY <1>1, <1>2, NextFalseFailures, TypeCorrect, RecordInvariant, PTL DEF Spec

-----------------------------------------------------------------------------
(***************************************************************************)
(* The abstraction: records follow their messages.                         *)
(***************************************************************************)
\* Nobody saw a message that Facebook did not take.
SeenAreAccepted == \A m \in Message : seen[m] # "no" => accepted[m] # 0

LEMMA SeenInvariant == Spec => []SeenAreAccepted
<1>1. Init => SeenAreAccepted
  BY DEF Init, SeenAreAccepted
<1>2. TypeOK /\ SeenAreAccepted /\ [Next]_vars => SeenAreAccepted'
  <2> SUFFICES ASSUME TypeOK, SeenAreAccepted, [Next]_vars PROVE SeenAreAccepted'
    OBVIOUS
  <2> USE DEF TypeOK, SeenAreAccepted, record, facebook
  <2>1. ASSUME NEW m \in Message, Post(m) PROVE SeenAreAccepted'
    BY <2>1 DEF Post
  <2>2. ASSUME NEW m \in Message, Deliver(m) PROVE SeenAreAccepted'
    BY <2>2 DEF Deliver
  <2>3. ASSUME NEW c \in Contact, Read(c) PROVE SeenAreAccepted'
    BY <2>3 DEF Read
  <2>4. ASSUME UNCHANGED facebook PROVE SeenAreAccepted'
    BY <2>4
  <2> QED
    BY <2>1, <2>2, <2>3, <2>4
       DEF Next, Refuse, CreateRecord, RecordSent, Finish, Fail, HandleEcho,
           HandleDeliveredIds, HandleDeliveredUpTo, HandleRead, Tick, vars
<1> QED
  BY <1>1, <1>2, TypeCorrect, PTL DEF Spec

\* How far a message got, and how far by its record.
FarOf(m) ==
    /\ Reached[m] \in 0..3 /\ Told[m] \in 0..Reached[m]
    /\ Reached[m] = 0 <=> accepted[m] = 0
    /\ Reached[m] = 1 <=> accepted[m] # 0 /\ seen[m] = "no"
    /\ Reached[m] = 2 <=> accepted[m] # 0 /\ seen[m] = "delivered"
    /\ Reached[m] = 3 <=> accepted[m] # 0 /\ seen[m] = "read"

FarOK ==
    /\ Reached \in [Message -> 0..3] /\ Told \in [Message -> 0..3]
    /\ \A m \in Message : FarOf(m)

LEMMA FarHolds ==
    TypeOK /\ RecordsFollowCalls /\ ReceiptsTruthful /\ SeenAreAccepted => FarOK
<1> SUFFICES ASSUME TypeOK, RecordsFollowCalls, ReceiptsTruthful, SeenAreAccepted
             PROVE  FarOK
  OBVIOUS
<1>1. ASSUME NEW m \in Message PROVE FarOf(m)
  <2>1. accepted[m] \in Nat /\ seen[m] \in {"no", "delivered", "read"} /\ status[m] \in Status
    BY MessageAssumption DEF TypeOK
  <2>2. /\ Reached[m] \in 0..3
        /\ Reached[m] = 0 <=> accepted[m] = 0
        /\ Reached[m] = 1 <=> accepted[m] # 0 /\ seen[m] = "no"
        /\ Reached[m] = 2 <=> accepted[m] # 0 /\ seen[m] = "delivered"
        /\ Reached[m] = 3 <=> accepted[m] # 0 /\ seen[m] = "read"
    BY <2>1 DEF Reached
  <2>3. /\ status[m] \notin {"NONE", "PENDING"} => accepted[m] # 0
        /\ status[m] = "DELIVERED" => seen[m] # "no"
        /\ status[m] = "READ" => seen[m] = "read"
    BY DEF RecordsFollowCalls, RecordFollowsCall, ReceiptsTruthful
  <2>4. /\ status[m] \in {"NONE", "PENDING"} => Told[m] = 0
        /\ status[m] = "SENT" => Told[m] = 1
        /\ status[m] = "DELIVERED" => Told[m] = 2
        /\ status[m] = "READ" => Told[m] = 3
    BY <2>1 DEF Told, Rank, Status
  <2> QED
    BY <2>1, <2>2, <2>3, <2>4 DEF FarOf, Status
<1>2. \A m \in Message : Reached[m] \in 0..3 /\ Told[m] \in 0..3
  BY <1>1 DEF FarOf
<1>3. Reached \in [Message -> 0..3]
  BY <1>2 DEF Reached
<1>4. Told \in [Message -> 0..3]
  BY <1>2 DEF Told
<1> QED
  BY <1>1, <1>3, <1>4 DEF FarOK

LEMMA FollowInit == Init => Receipt!Init
BY DEF Init, Receipt!Init, Reached, Told

LEMMA FollowNext ==
    TypeOK /\ RecordsFollowCalls /\ SeenAreAccepted /\ FarOK /\ FarOK' /\ [Next]_vars
        => [Receipt!Next]_Receipt!vars
<1> SUFFICES ASSUME TypeOK, RecordsFollowCalls, SeenAreAccepted, FarOK, FarOK', [Next]_vars
             PROVE  Receipt!Next \/ UNCHANGED <<Reached, Told>>
  BY DEF Receipt!vars
<1> USE DEF record, facebook
<1>1. ASSUME UNCHANGED record PROVE Told' = Told
  BY <1>1 DEF Told
<1>2. ASSUME UNCHANGED facebook PROVE Reached' = Reached
  BY <1>2 DEF Reached
<1>3. ASSUME NEW M \in SUBSET Message, \A m \in M : Reached[m] < 3, UNCHANGED record,
             \A m \in Message : Reached'[m] = IF m \in M THEN Reached[m] + 1 ELSE Reached[m]
      PROVE  Receipt!Next
  <2>1. Reached' = [m \in Message |-> IF m \in M THEN Reached[m] + 1 ELSE Reached[m]]
    BY <1>3 DEF FarOK
  <2> QED
    BY <1>1, <1>3, <2>1 DEF Receipt!Next, Receipt!GoOn
<1>4. ASSUME NEW m \in Message, Post(m) PROVE Receipt!Next \/ UNCHANGED <<Reached, Told>>
  <2>1. CASE UNCHANGED accepted
    BY <1>1, <1>2, <1>4, <2>1 DEF Post
  <2>2. CASE accepted' = [accepted EXCEPT ![m] = now]
    <3>1. accepted[m] = 0 /\ seen[m] = "no" /\ now # 0
      BY <1>4 DEF Post, At, TypeOK, RecordsFollowCalls, RecordFollowsCall, SeenAreAccepted
    <3>2. /\ accepted'[m] # 0 /\ seen' = seen /\ UNCHANGED record
          /\ \A n \in Message \ {m} : accepted'[n] = accepted[n]
      BY <1>4, <2>2, <3>1 DEF Post, TypeOK
    <3>3. \A n \in Message :
            Reached'[n] = IF n \in {m} THEN Reached[n] + 1 ELSE Reached[n]
      BY <3>1, <3>2 DEF FarOK, FarOf
    <3>4. Reached[m] < 3
      BY <3>1 DEF FarOK, FarOf
    <3> QED
      BY <1>3, <3>2, <3>3, <3>4
  <2> QED
    BY <1>4, <2>1, <2>2 DEF Post
<1>5. ASSUME NEW m \in Message, Deliver(m) PROVE Receipt!Next
  <2>1. /\ accepted' = accepted /\ seen[m] = "no" /\ seen'[m] = "delivered" /\ accepted[m] # 0
        /\ \A n \in Message \ {m} : seen'[n] = seen[n]
        /\ UNCHANGED record
    BY <1>5 DEF Deliver, TypeOK
  <2>2. \A n \in Message :
          Reached'[n] = IF n \in {m} THEN Reached[n] + 1 ELSE Reached[n]
    BY <2>1 DEF FarOK, FarOf
  <2>3. Reached[m] < 3
    BY <2>1 DEF FarOK, FarOf
  <2> QED
    BY <1>3, <2>1, <2>2, <2>3
<1>6. ASSUME NEW c \in Contact, Read(c) PROVE Receipt!Next
  <2> DEFINE M == {m \in Message : To[m] = c /\ seen[m] = "delivered"}
  <2>1. /\ accepted' = accepted /\ UNCHANGED record
        /\ \A n \in Message : seen'[n] = IF n \in M THEN "read" ELSE seen[n]
    BY <1>6 DEF Read, TypeOK
  <2>2. \A n \in M : accepted[n] # 0 /\ seen[n] = "delivered"
    BY DEF SeenAreAccepted
  <2>3. \A n \in Message : Reached'[n] = IF n \in M THEN Reached[n] + 1 ELSE Reached[n]
    BY <2>1, <2>2 DEF FarOK, FarOf
  <2>4. \A n \in M : Reached[n] < 3
    BY <2>2 DEF FarOK, FarOf
  <2> QED
    BY <1>3, <2>1, <2>3, <2>4
<1>7. ASSUME UNCHANGED facebook, Next PROVE Receipt!Next
  <2>1. ASSUME NEW m \in Message PROVE Told[m] <= Told'[m] /\ Told'[m] <= Reached[m]
    <3>1. Told'[m] <= Reached[m]
      BY <1>2, <1>7 DEF FarOK, FarOf
    <3>2. status[m] \in Status
      BY DEF TypeOK
    <3>3. Told[m] <= Told'[m]
      BY <1>7, <3>2, StatusStep DEF Told, Rank, Status
    <3> QED
      BY <3>1, <3>3
  <2>2. Told' \in [Message -> 0..3]
    BY DEF FarOK
  <2> QED
    BY <1>2, <1>7, <2>1, <2>2 DEF Receipt!Next, Receipt!Learn, Receipt!Far
<1>8. CASE Next
  <2>1. ASSUME NEW m \in Message,
               Refuse(m) \/ CreateRecord(m) \/ RecordSent(m) \/ Finish(m) \/ Fail(m)
                 \/ HandleEcho(m)
        PROVE  UNCHANGED facebook
    BY <2>1 DEF Refuse, CreateRecord, RecordSent, Finish, Fail, HandleEcho
  <2>2. ASSUME NEW c \in Contact,
               HandleDeliveredIds(c) \/ HandleDeliveredUpTo(c) \/ HandleRead(c)
        PROVE  UNCHANGED facebook
    BY <2>2 DEF HandleDeliveredIds, HandleDeliveredUpTo, HandleRead
  <2>3. ASSUME Tick PROVE UNCHANGED facebook
    BY <2>3 DEF Tick
  <2> QED
    BY <1>4, <1>5, <1>6, <1>7, <1>8, <2>1, <2>2, <2>3 DEF Next
<1>9. CASE UNCHANGED vars
  BY <1>1, <1>2, <1>9 DEF vars
<1> QED
  BY <1>8, <1>9

\* On a page with one contact the records follow their messages: what they say
\* goes forward only, and never ahead of how far the message is.
THEOREM DeliveryImplementsReceipts ==
    ASSUME \A m, n \in Message : To[m] = To[n]
    PROVE  Spec => RecordsFollow
<1>1. Spec => []ReceiptsTruthful
  BY ReceiptsAreTruthful
<1> QED
  BY <1>1, FollowInit, FollowNext, FarHolds, SeenInvariant, TypeCorrect, RecordInvariant, PTL
     DEF Spec, RecordsFollow, Receipt!Spec
=============================================================================
