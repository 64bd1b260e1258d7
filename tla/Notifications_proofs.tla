------------------------ MODULE Notifications_proofs ------------------------
(***************************************************************************)
(* Theorems about Notifications, for every set of senders, tokens and      *)
(* topics, any period and every bound, and about MessagingWindow, for any  *)
(* callers, any lengths of the window and of the cache, and every bound.   *)
(***************************************************************************)
EXTENDS Notifications, MessagingWindow, FiniteSetTheorems, TLAPS

(***************************************************************************)
(* The inductive invariants.  Until a token is marked, whoever has spent   *)
(* it is about to mark it, or has lost the answer; once it is marked only  *)
(* those who had checked it before can still spend it.  A sender that has  *)
(* posted on a topic has moved the next date of the topic, or is about to. *)
(***************************************************************************)
Posting(t) == {s \in Sender : Inside(s, "otn.post") /\ sender[s].on = t}
Marking(t) == {s \in Sender : Inside(s, "otn.mark") /\ sender[s].on = t}

SpendersKnown(t) ==
    /\ token[t] # "used" => spent[t] <= Cardinality(Marking(t)) + lost
    /\ spent[t] + Cardinality(Posting(t)) <= Cardinality(Sender) + lost

DatesMoved(s, p) ==
    /\ lastPost[s][p] <= time
    /\ (lost = 0 /\ p \notin setBack /\ lastPost[s][p] > 0) =>
          /\ \/ Inside(s, "rec.date") /\ sender[s].on = p
             \/ Inside(s, "rec.mark") /\ sender[s].on = p /\ sender[s].date >= lastPost[s][p] + Period
             \/ nextAt[p] >= lastPost[s][p] + Period
          /\ (Inside(s, "rec.post") /\ sender[s].on = p) => time >= lastPost[s][p] + Period

-----------------------------------------------------------------------------
(***************************************************************************)
(* Type correctness.                                                       *)
(***************************************************************************)
LEMMA Sending ==
    ASSUME NoteTypeOK, NEW s \in Sender
    PROVE  /\ sender[s].at \in {"otn.post", "otn.mark", "mark"} => sender[s].on \in Token
           /\ sender[s].at \in {"rec.expire", "rec.post", "rec.date", "direct", "rec.mark"} =>
                sender[s].on \in Topic
           /\ sender[s].at = "rec.mark" => sender[s].date \in Nat
BY DEF NoteTypeOK, SenderState, FreeSender

LEMMA Moving ==
    ASSUME NoteTypeOK, NEW s \in Sender, NEW state, sender' = [sender EXCEPT ![s] = state]
    PROVE  /\ sender'[s] = state
           /\ \A d \in Sender \ {s} : sender'[d] = sender[d]
           /\ state \in SenderState => sender' \in [Sender -> SenderState]
BY DEF NoteTypeOK

LEMMA InitTypeOK == NoteInit => NoteTypeOK
BY NotificationsAssumption DEF NoteInit, NoteTypeOK, NoteTimes, TokenState, SubStatus, SenderState

LEMMA NextTypeOK == NoteTypeOK /\ [NoteNext]_noteVars => NoteTypeOK'
<1> SUFFICES ASSUME NoteTypeOK, [NoteNext]_noteVars PROVE NoteTypeOK'
  OBVIOUS
<1> USE DEF subscription, TokenState, SubStatus, NoteTimes
<1>0. MaxNoteTime \in Nat \ {0} /\ MaxLost \in Nat /\ Period \in Nat
  BY NotificationsAssumption
<1>1. ASSUME NEW s \in Sender, Quit(s) PROVE sender' \in [Sender -> SenderState]
  BY <1>1, Moving DEF Quit, SenderState
<1>2. ASSUME NEW s \in Sender, NEW t \in Token, NEW at \in {"otn.post", "otn.mark", "mark"}, Enter(s, at, t)
      PROVE  sender' \in [Sender -> SenderState]
  <2>1. [at |-> at, on |-> t] \in SenderState
    BY DEF SenderState
  <2> QED
    BY <1>2, <2>1, Moving DEF Enter
<1>3. ASSUME NEW s \in Sender, NEW p \in Topic, NEW at \in {"rec.expire", "rec.post", "rec.date", "direct"},
             Enter(s, at, p)
      PROVE  sender' \in [Sender -> SenderState]
  <2>1. [at |-> at, on |-> p] \in SenderState
    BY DEF SenderState
  <2> QED
    BY <1>3, <2>1, Moving DEF Enter
<1>4. ASSUME NEW s \in Sender, NEW t \in Token, ReadToken(s, t) \/ SendNaming(s, t) PROVE NoteTypeOK'
  BY <1>2, <1>4 DEF ReadToken, SendNaming, NoteTypeOK
<1>5. ASSUME NEW s \in Sender, NEW p \in Topic, ReadSubscription(s, p) \/ SendOnTopic(s, p)
      PROVE  NoteTypeOK'
  BY <1>3, <1>5 DEF ReadSubscription, SendOnTopic, NoteTypeOK
<1>6. ASSUME NEW s \in Sender, PostWithToken(s) PROVE NoteTypeOK'
  <2>1. sender[s].on \in Token
    BY <1>6, Sending DEF PostWithToken, Inside
  <2>2. sender' \in [Sender -> SenderState] /\ lost' \in 0..MaxLost
    BY <1>0, <1>1, <1>2, <1>6, <2>1 DEF PostWithToken, Answered, NoteTypeOK
  <2>3. spent' \in [Token -> Nat]
    BY <1>6, <2>1 DEF PostWithToken, NoteTypeOK
  <2> QED
    BY <1>6, <2>2, <2>3 DEF PostWithToken, NoteTypeOK
<1>7. ASSUME NEW s \in Sender, MarkToken(s) PROVE NoteTypeOK'
  BY <1>1, <1>7, Sending DEF MarkToken, Inside, NoteTypeOK
<1>8. ASSUME NEW s \in Sender, MarkExpired(s) PROVE NoteTypeOK'
  BY <1>1, <1>8, Sending DEF MarkExpired, Inside, NoteTypeOK
<1>9. ASSUME NEW s \in Sender, PostRecurring(s) PROVE NoteTypeOK'
  <2>1. sender[s].on \in Topic
    BY <1>9, Sending DEF PostRecurring, Inside
  <2>2. sender' \in [Sender -> SenderState] /\ lost' \in 0..MaxLost
    BY <1>0, <1>1, <1>3, <1>9, <2>1 DEF PostRecurring, Answered, NoteTypeOK
  <2>3. lastPost' \in [Sender -> [Topic -> NoteTimes]]
    <3> DEFINE mine == [lastPost[s] EXCEPT ![sender[s].on] = time]
    <3>1. lastPost' \in {lastPost, [lastPost EXCEPT ![s] = mine]}
      BY <1>9 DEF PostRecurring
    <3>2. mine \in [Topic -> NoteTimes]
      BY <2>1 DEF NoteTypeOK
    <3> HIDE DEF mine
    <3> QED
      BY <3>1, <3>2 DEF NoteTypeOK
  <2> QED
    BY <1>9, <2>2, <2>3 DEF PostRecurring, NoteTypeOK
<1>10. ASSUME NEW s \in Sender, MarkRecurring(s) PROVE NoteTypeOK'
  BY <1>0, <1>1, <1>10, Sending DEF MarkRecurring, Inside, NoteTypeOK
<1>16. ASSUME NEW s \in Sender, DateNext(s) PROVE NoteTypeOK'
  <2> DEFINE state == [at |-> "rec.mark", on |-> sender[s].on, date |-> time + Period]
  <2>1. sender' = [sender EXCEPT ![s] = state]
    BY <1>16 DEF DateNext
  <2>2. state \in SenderState
    BY <1>0, <1>16, Sending DEF DateNext, Inside, SenderState, NoteTypeOK
  <2>3. sender' \in [Sender -> SenderState]
    <3> HIDE DEF state
    <3> QED
      BY <2>1, <2>2, Moving
  <2> QED
    BY <1>16, <2>3 DEF DateNext, NoteTypeOK
<1>17. ASSUME NEW s \in Sender, CountDirect(s) PROVE NoteTypeOK'
  BY <1>1, <1>17 DEF CountDirect, NoteTypeOK
<1>11. ASSUME NEW t \in Token, MakeToken(t) PROVE NoteTypeOK'
  BY <1>11 DEF MakeToken, NoteTypeOK
<1>12. ASSUME NEW p \in Topic, OptIn(p) PROVE NoteTypeOK'
  BY <1>12 DEF OptIn, NoteTypeOK
<1>13. CASE Stop
  BY <1>13 DEF Stop, NoteTypeOK
<1>14. CASE Pass
  BY <1>0, <1>14 DEF Pass, NoteTypeOK
<1>15. CASE UNCHANGED noteVars
  BY <1>15 DEF noteVars, NoteTypeOK
<1> QED
  BY <1>4, <1>5, <1>6, <1>7, <1>8, <1>9, <1>10, <1>11, <1>12, <1>13, <1>14, <1>15, <1>16,
     <1>17 DEF NoteNext, Work

\* Every variable keeps to the values the code can give it.
THEOREM TypeCorrect == NoteSpec => []NoteTypeOK
BY InitTypeOK, NextTypeOK, PTL DEF NoteSpec

-----------------------------------------------------------------------------
(***************************************************************************)
(* One-time tokens.                                                        *)
(***************************************************************************)
LEMMA TwoGroups ==
    ASSUME NEW A, NEW B, A \subseteq Sender, B \subseteq Sender, A \cap B = {}
    PROVE  /\ IsFiniteSet(A) /\ IsFiniteSet(B)
           /\ Cardinality(A) \in Nat /\ Cardinality(B) \in Nat /\ Cardinality(Sender) \in Nat
           /\ Cardinality(A) + Cardinality(B) <= Cardinality(Sender)
<1>0. IsFiniteSet(Sender)
  BY NotificationsAssumption
<1>1. /\ IsFiniteSet(A) /\ IsFiniteSet(B)
      /\ Cardinality(A) \in Nat /\ Cardinality(B) \in Nat /\ Cardinality(Sender) \in Nat
  BY <1>0, FS_Subset, FS_CardinalityType
<1>2. Cardinality(A \cup B) = Cardinality(A) + Cardinality(B) - Cardinality(A \cap B)
  BY <1>1, FS_Union
<1>3. Cardinality(A \cap B) = 0
  BY FS_EmptySet
<1>4. Cardinality(A \cup B) <= Cardinality(Sender)
  <2>1. (A \cup B) \subseteq Sender
    OBVIOUS
  <2> QED
    BY <1>0, <2>1, FS_Subset
<1> QED
  BY <1>1, <1>2, <1>3, <1>4

LEMMA SenderCounts ==
    ASSUME NEW t
    PROVE  /\ IsFiniteSet(Posting(t)) /\ IsFiniteSet(Marking(t))
           /\ Cardinality(Posting(t)) \in Nat /\ Cardinality(Marking(t)) \in Nat
           /\ Cardinality(Sender) \in Nat
           /\ Cardinality(Posting(t)) + Cardinality(Marking(t)) <= Cardinality(Sender)
<1>1. Posting(t) \subseteq Sender /\ Marking(t) \subseteq Sender /\ Posting(t) \cap Marking(t) = {}
  BY DEF Posting, Marking, Inside
<1> QED
  BY <1>1, TwoGroups

LEMMA NextSpenders ==
    ASSUME NoteTypeOK, [NoteNext]_noteVars, NEW t \in Token, SpendersKnown(t)
    PROVE  SpendersKnown(t)'
<1> USE DEF subscription, Inside
<1>0. /\ spent[t] \in Nat /\ lost \in Nat /\ token[t] \in TokenState
      /\ IsFiniteSet(Posting(t)) /\ IsFiniteSet(Marking(t))
      /\ Cardinality(Posting(t)) \in Nat /\ Cardinality(Marking(t)) \in Nat
      /\ Cardinality(Sender) \in Nat
      /\ Cardinality(Posting(t)) + Cardinality(Marking(t)) <= Cardinality(Sender)
  BY SenderCounts DEF NoteTypeOK
\* A step that spends nothing, and that takes no one off the token's markers unless
\* the token is marked.
<1>1. ASSUME spent'[t] = spent[t], lost' \in Nat, lost' >= lost,
             Posting(t)' \subseteq Posting(t),
             token'[t] # "used" => token[t] # "used" /\ Marking(t)' = Marking(t)
      PROVE  SpendersKnown(t)'
  <2>1. Cardinality(Posting(t)') <= Cardinality(Posting(t)) /\ Cardinality(Posting(t)') \in Nat
    BY <1>0, <1>1, FS_Subset, FS_CardinalityType
  <2>2. spent[t] + Cardinality(Posting(t)) <= Cardinality(Sender) + lost
    BY DEF SpendersKnown
  <2>3. spent'[t] + Cardinality(Posting(t)') <= Cardinality(Sender) + lost'
    BY <1>0, <1>1, <2>1, <2>2
  <2>4. token'[t] # "used" => spent'[t] <= Cardinality(Marking(t)') + lost'
    BY <1>0, <1>1 DEF SpendersKnown
  <2> QED
    BY <2>3, <2>4 DEF SpendersKnown
<1>2. ASSUME NEW s \in Sender, NEW state, sender' = [sender EXCEPT ![s] = state],
             state.at \notin {"otn.post", "otn.mark"}
      PROVE  /\ Posting(t)' \subseteq Posting(t)
             /\ ~Inside(s, "otn.mark") \/ sender[s].on # t => Marking(t)' = Marking(t)
  BY <1>2, Moving DEF Posting, Marking
<1>3. ASSUME NEW s \in Sender, NEW p \in Topic, ReadSubscription(s, p) \/ SendOnTopic(s, p)
      PROVE  SpendersKnown(t)'
  <2>1. /\ Posting(t)' \subseteq Posting(t) /\ Marking(t)' = Marking(t)
        /\ UNCHANGED <<spent, lost, token>>
    BY <1>2, <1>3 DEF ReadSubscription, SendOnTopic, Enter, FreeSender
  <2> QED
    BY <1>0, <1>1, <2>1
<1>4. ASSUME NEW s \in Sender, NEW n \in Token, SendNaming(s, n) PROVE SpendersKnown(t)'
  <2>1. /\ Posting(t)' \subseteq Posting(t) /\ Marking(t)' = Marking(t)
        /\ UNCHANGED <<spent, lost, token>>
    <3>1. sender' = [sender EXCEPT ![s] = [at |-> "mark", on |-> n]] /\ sender[s].at = "free"
      BY <1>4 DEF SendNaming, Enter, FreeSender
    <3> QED
      BY <1>2, <1>4, <3>1 DEF SendNaming
  <2> QED
    BY <1>0, <1>1, <2>1
<1>5. ASSUME NEW s \in Sender, NEW n \in Token, ReadToken(s, n) PROVE SpendersKnown(t)'
  <2>1. /\ UNCHANGED <<spent, lost, token>> /\ token[n] = "ready"
        /\ sender'[s] = [at |-> "otn.post", on |-> n] /\ sender[s] = FreeSender
        /\ \A d \in Sender \ {s} : sender'[d] = sender[d]
    BY <1>5, Moving DEF ReadToken, Enter
  <2>2. Marking(t)' = Marking(t)
    BY <2>1 DEF Marking, FreeSender
  <2>3. CASE n # t
    <3>1. Posting(t)' \subseteq Posting(t)
      BY <2>1, <2>3 DEF Posting
    <3> QED
      BY <1>0, <1>1, <2>1, <2>2, <3>1
  <2>4. CASE n = t
    <3>1. spent[t] <= Cardinality(Marking(t)) + lost
      BY <2>1, <2>4 DEF SpendersKnown
    <3>2. Cardinality(Posting(t)') + Cardinality(Marking(t)') <= Cardinality(Sender)
          /\ Cardinality(Posting(t)') \in Nat
      <4>1. /\ Posting(t)' \subseteq Sender /\ Marking(t)' \subseteq Sender
            /\ Posting(t)' \cap Marking(t)' = {}
        BY DEF Posting, Marking
      <4> QED
        BY <4>1, TwoGroups
    <3>3. spent'[t] + Cardinality(Posting(t)') <= Cardinality(Sender) + lost'
      BY <1>0, <2>1, <2>2, <3>1, <3>2
    <3> QED
      BY <2>1, <2>2, <3>1, <3>3 DEF SpendersKnown
  <2> QED
    BY <2>3, <2>4
<1>6. ASSUME NEW s \in Sender, MarkToken(s) PROVE SpendersKnown(t)'
  <2>1. (sender[s].on \in Token /\ UNCHANGED <<spent, lost>> /\ Inside(s, "otn.mark")) \/ Inside(s, "mark")
    BY <1>6, Sending DEF MarkToken
  <2>2. /\ Posting(t)' \subseteq Posting(t)
        /\ ~Inside(s, "otn.mark") \/ sender[s].on # t => Marking(t)' = Marking(t)
    BY <1>2, <1>6 DEF MarkToken, Quit, FreeSender
  <2>3. sender[s].on = t => token'[t] = "used"
    BY <1>6 DEF MarkToken, NoteTypeOK
  <2>4. sender[s].on # t => token'[t] = token[t]
    BY <1>6 DEF MarkToken, NoteTypeOK
  <2> QED
    BY <1>0, <1>1, <1>6, <2>2, <2>3, <2>4 DEF MarkToken
<1>7. ASSUME NEW s \in Sender, MarkExpired(s) \/ DateNext(s) \/ MarkRecurring(s) \/ CountDirect(s)
      PROVE  SpendersKnown(t)'
  <2>1. /\ Posting(t)' \subseteq Posting(t) /\ Marking(t)' = Marking(t)
        /\ UNCHANGED <<spent, lost, token>>
    BY <1>2, <1>7 DEF MarkExpired, DateNext, MarkRecurring, CountDirect, Quit, FreeSender
  <2> QED
    BY <1>0, <1>1, <2>1
<1>8. ASSUME NEW s \in Sender, PostRecurring(s) PROVE SpendersKnown(t)'
  <2>1. \E state : sender' = [sender EXCEPT ![s] = state] /\ state.at \notin {"otn.post", "otn.mark"}
    BY <1>8 DEF PostRecurring, Answered, Enter, Quit, FreeSender
  <2>2. Posting(t)' \subseteq Posting(t) /\ Marking(t)' = Marking(t)
    BY <1>2, <1>8, <2>1 DEF PostRecurring
  <2>3. UNCHANGED <<spent, token>> /\ lost' \in {lost, lost + 1}
    BY <1>8 DEF PostRecurring, Answered
  <2> QED
    BY <1>0, <1>1, <2>2, <2>3
<1>9. ASSUME NEW s \in Sender, PostWithToken(s) PROVE SpendersKnown(t)'
  <2>0. PICK n \in Token : n = sender[s].on
    BY <1>9, Sending DEF PostWithToken
  <2>1. token' = token /\ sender[s].at = "otn.post"
    BY <1>9 DEF PostWithToken
  <2>2. CASE Quit(s) /\ UNCHANGED <<spent, lost>>
    <3>1. Posting(t)' \subseteq Posting(t) /\ Marking(t)' = Marking(t)
      BY <1>2, <2>1, <2>2 DEF Quit, FreeSender
    <3> QED
      BY <1>0, <1>1, <2>1, <2>2, <3>1
  <2>3. CASE Answered(s, "otn.mark") /\ spent' = [spent EXCEPT ![n] = @ + 1]
    <3>1. CASE n # t
      <4>1. \A d \in Sender : d # s => sender'[d] = sender[d]
        BY <2>3, Moving DEF Answered, Enter, Quit
      <4>2. sender'[s] = FreeSender \/ sender'[s] = [at |-> "otn.mark", on |-> n]
        BY <2>0, <2>3, Moving DEF Answered, Enter, Quit
      <4>3. Posting(t)' \subseteq Posting(t) /\ Marking(t)' = Marking(t)
        BY <2>1, <3>1, <4>1, <4>2 DEF Posting, Marking, FreeSender
      <4>4. spent'[t] = spent[t] /\ lost' \in {lost, lost + 1}
        BY <2>3, <3>1 DEF Answered, NoteTypeOK
      <4> QED
        BY <1>0, <1>1, <2>1, <4>3, <4>4
    <3>2. CASE n = t
      <4>1. spent'[t] = spent[t] + 1
        BY <2>3, <3>2 DEF NoteTypeOK
      <4>2. s \in Posting(t) /\ s \notin Marking(t)
        BY <2>0, <2>1, <3>2 DEF Posting, Marking
      <4>3. \A d \in Sender : d # s => sender'[d] = sender[d]
        BY <2>3, Moving DEF Answered, Enter, Quit
      <4>4. sender'[s] = FreeSender \/ sender'[s] = [at |-> "otn.mark", on |-> t]
        BY <2>0, <2>3, <3>2, Moving DEF Answered, Enter, Quit
      <4>5. Posting(t)' = Posting(t) \ {s}
        BY <4>2, <4>3, <4>4 DEF Posting, FreeSender
      <4>6. Cardinality(Posting(t)') = Cardinality(Posting(t)) - 1
        BY <1>0, <4>2, <4>5, FS_RemoveElement
      <4>7. spent[t] + Cardinality(Posting(t)) <= Cardinality(Sender) + lost
        BY DEF SpendersKnown
      <4>8. \/ lost' = lost /\ sender'[s] = [at |-> "otn.mark", on |-> t]
            \/ lost' = lost + 1 /\ sender'[s] = FreeSender
        BY <2>0, <2>3, <3>2, Moving DEF Answered, Enter, Quit
      <4>9. spent'[t] + Cardinality(Posting(t)') <= Cardinality(Sender) + lost'
        BY <1>0, <4>1, <4>6, <4>7, <4>8
      <4>10. token[t] # "used" => spent'[t] <= Cardinality(Marking(t)') + lost'
        <5>1. CASE lost' = lost /\ sender'[s] = [at |-> "otn.mark", on |-> t]
          <6>1. Marking(t)' = Marking(t) \cup {s}
            BY <4>3, <5>1 DEF Marking
          <6>2. Cardinality(Marking(t)') = Cardinality(Marking(t)) + 1
            BY <1>0, <4>2, <6>1, FS_AddElement
          <6> QED
            BY <1>0, <4>1, <5>1, <6>2 DEF SpendersKnown
        <5>2. CASE lost' = lost + 1 /\ sender'[s] = FreeSender
          <6>1. Marking(t)' = Marking(t)
            BY <4>2, <4>3, <5>2 DEF Marking, FreeSender
          <6> QED
            BY <1>0, <4>1, <5>2, <6>1 DEF SpendersKnown
        <5> QED
          BY <4>8, <5>1, <5>2
      <4> QED
        BY <2>1, <4>9, <4>10 DEF SpendersKnown
    <3> QED
      BY <3>1, <3>2
  <2> QED
    BY <1>9, <2>0, <2>2, <2>3 DEF PostWithToken
<1>10. ASSUME UNCHANGED <<sender, spent, lost>>, token'[t] # "used" => token[t] # "used"
       PROVE  SpendersKnown(t)'
  <2>1. Posting(t)' = Posting(t) /\ Marking(t)' = Marking(t)
    BY <1>10 DEF Posting, Marking
  <2> QED
    BY <1>0, <1>1, <1>10, <2>1
<1>11. ASSUME NEW n \in Token, MakeToken(n) PROVE SpendersKnown(t)'
  BY <1>10, <1>11 DEF MakeToken, NoteTypeOK
<1>12. CASE (\E p \in Topic : OptIn(p)) \/ Stop \/ Pass \/ UNCHANGED noteVars
  BY <1>10, <1>12 DEF OptIn, Stop, Pass, noteVars
<1> QED
  BY <1>3, <1>4, <1>5, <1>6, <1>7, <1>8, <1>9, <1>11, <1>12 DEF NoteNext, Work

LEMMA InitSpenders == ASSUME NoteInit, NEW t \in Token PROVE SpendersKnown(t)
<1>1. Posting(t) = {} /\ spent[t] = 0 /\ lost = 0
  BY DEF NoteInit, Posting, Inside, FreeSender
<1>2. Cardinality(Posting(t)) = 0 /\ Cardinality(Marking(t)) \in Nat /\ Cardinality(Sender) \in Nat
  BY <1>1, SenderCounts, FS_EmptySet
<1> QED
  BY <1>1, <1>2 DEF SpendersKnown

\* A token serves at most the sends that overlap, and one more for every answer
\* that was lost.
THEOREM TokensServeOverlap == NoteSpec => []TokenSpentByOverlap
<1> DEFINE Spent == \A t \in Token : SpendersKnown(t)
<1>1. NoteInit => Spent
  BY InitSpenders
<1>2. NoteTypeOK /\ Spent /\ [NoteNext]_noteVars => Spent'
  BY NextSpenders
<1>3. NoteTypeOK /\ Spent => TokenSpentByOverlap
  <2> SUFFICES ASSUME NoteTypeOK, Spent, NEW t \in Token PROVE spent[t] <= Cardinality(Sender) + lost
    BY DEF TokenSpentByOverlap
  <2>1. spent[t] + Cardinality(Posting(t)) <= Cardinality(Sender) + lost
    BY DEF SpendersKnown
  <2>2. spent[t] \in Nat /\ lost \in Nat
    BY DEF NoteTypeOK
  <2> QED
    BY <2>1, <2>2, SenderCounts
<1> QED
  BY <1>1, <1>2, <1>3, TypeCorrect, PTL DEF NoteSpec

-----------------------------------------------------------------------------
(***************************************************************************)
(* Recurring notifications.                                                *)
(***************************************************************************)
LEMMA NextDates ==
    ASSUME NoteTypeOK, [NoteNext]_noteVars, NEW s \in Sender, NEW p \in Topic, DatesMoved(s, p)
    PROVE  DatesMoved(s, p)'
<1> DEFINE Dating == {"rec.date", "rec.mark"}
<1> USE DEF subscription, Inside
<1>0. /\ time \in Nat /\ nextAt[p] \in Nat /\ lastPost[s][p] \in Nat /\ Period \in Nat /\ lost \in Nat
  BY NotificationsAssumption DEF NoteTypeOK, NoteTimes
\* A step that leaves the dates alone and takes s into or out of no call on p.
<1>1. ASSUME UNCHANGED <<nextAt, lastPost, setBack>>,
             time' \in {time, time + 1}, lost' \in {lost, lost + 1},
             \/ sender'[s] = sender[s]
             \/ sender[s].at \notin Dating /\ sender'[s].at \notin {"rec.post"} \cup Dating
      PROVE  DatesMoved(s, p)'
  BY <1>0, <1>1 DEF DatesMoved
<1>2. ASSUME NEW d \in Sender, NEW state, sender' = [sender EXCEPT ![d] = state],
             sender[d].at \notin Dating, state.at \notin {"rec.post"} \cup Dating
      PROVE  \/ sender'[s] = sender[s]
             \/ sender[s].at \notin Dating /\ sender'[s].at \notin {"rec.post"} \cup Dating
  BY <1>2, Moving
<1>3. ASSUME NEW d \in Sender, NEW t \in Token, ReadToken(d, t) \/ SendNaming(d, t)
      PROVE  DatesMoved(s, p)'
  <2>1. \E state : /\ sender' = [sender EXCEPT ![d] = state]
                   /\ sender[d].at \notin Dating /\ state.at \notin {"rec.post"} \cup Dating
    BY <1>3 DEF ReadToken, SendNaming, Enter, FreeSender
  <2> QED
    BY <1>1, <1>2, <1>3, <2>1 DEF ReadToken, SendNaming
<1>4. ASSUME NEW d \in Sender, PostWithToken(d) \/ MarkToken(d) \/ MarkExpired(d) \/ CountDirect(d)
      PROVE  DatesMoved(s, p)'
  <2>1. \E state : /\ sender' = [sender EXCEPT ![d] = state]
                   /\ sender[d].at \notin Dating /\ state.at \notin {"rec.post"} \cup Dating
    BY <1>4 DEF PostWithToken, MarkToken, MarkExpired, CountDirect, Answered, Enter, Quit, FreeSender
  <2>2. UNCHANGED <<nextAt, lastPost, setBack, time>> /\ lost' \in {lost, lost + 1}
    BY <1>4 DEF PostWithToken, MarkToken, MarkExpired, CountDirect, Answered
  <2> QED
    BY <1>1, <1>2, <2>1, <2>2
<1>9. ASSUME NEW d \in Sender, NEW n \in Topic, SendOnTopic(d, n) PROVE DatesMoved(s, p)'
  <2>1. /\ sender' = [sender EXCEPT ![d] = [at |-> "direct", on |-> n]] /\ sender[d].at = "free"
        /\ UNCHANGED <<nextAt, lastPost, setBack, time, lost>>
    BY <1>9 DEF SendOnTopic, Enter, FreeSender
  <2> QED
    BY <1>1, <1>2, <2>1
<1>5. ASSUME NEW d \in Sender, NEW n \in Topic, ReadSubscription(d, n) PROVE DatesMoved(s, p)'
  <2>1. /\ UNCHANGED <<nextAt, lastPost, setBack, time, lost>> /\ sender[d].at = "free"
        /\ \/ sender' = [sender EXCEPT ![d] = [at |-> "rec.expire", on |-> n]]
           \/ sender' = [sender EXCEPT ![d] = [at |-> "rec.post", on |-> n]] /\ nextAt[n] <= time
    BY <1>5 DEF ReadSubscription, Enter, FreeSender
  <2>2. CASE d # s
    BY <1>1, <2>1, <2>2, Moving
  <2>3. CASE d = s
    <3>1. CASE sender' = [sender EXCEPT ![d] = [at |-> "rec.expire", on |-> n]]
      BY <1>1, <1>2, <2>1, <3>1
    <3>2. CASE sender' = [sender EXCEPT ![d] = [at |-> "rec.post", on |-> n]] /\ nextAt[n] <= time
      <4>1. sender'[s] = [at |-> "rec.post", on |-> n]
        BY <2>3, <3>2, Moving
      <4> QED
        BY <1>0, <2>1, <2>3, <3>2, <4>1 DEF DatesMoved
    <3> QED
      BY <2>1, <3>1, <3>2
  <2> QED
    BY <2>2, <2>3
<1>6. ASSUME NEW d \in Sender, PostRecurring(d) PROVE DatesMoved(s, p)'
  <2>0. PICK n \in Topic : n = sender[d].on
    BY <1>6, Sending DEF PostRecurring
  <2>1. UNCHANGED <<nextAt, setBack, time>> /\ sender[d].at = "rec.post"
    BY <1>6 DEF PostRecurring
  <2>2. CASE Quit(d) /\ UNCHANGED <<lastPost, lost>>
    BY <1>1, <1>2, <2>1, <2>2 DEF Quit, FreeSender
  <2>3. CASE Answered(d, "rec.date") /\ lastPost' = [lastPost EXCEPT ![d][n] = time]
    <3>1. lost' \in {lost, lost + 1}
      BY <2>3 DEF Answered
    <3>2. CASE d # s
      <4>1. sender'[s] = sender[s]
        BY <2>3, <3>2, Moving DEF Answered, Enter, Quit
      <4>2. lastPost'[s] = lastPost[s]
        BY <2>3, <3>2 DEF NoteTypeOK
      <4> QED
        BY <1>0, <2>1, <3>1, <4>1, <4>2 DEF DatesMoved
    <3>3. CASE d = s
      <4>1. lastPost'[s][p] = IF n = p THEN time ELSE lastPost[s][p]
        BY <2>3, <3>3 DEF NoteTypeOK
      <4>2. \/ lost' = lost /\ sender'[s] = [at |-> "rec.date", on |-> n]
            \/ lost' = lost + 1
        BY <2>0, <2>3, <3>3, Moving DEF Answered, Enter
      <4> QED
        BY <1>0, <2>0, <2>1, <3>3, <4>1, <4>2 DEF DatesMoved
    <3> QED
      BY <3>2, <3>3
  <2> QED
    BY <1>6, <2>0, <2>2, <2>3 DEF PostRecurring
<1>10. ASSUME NEW d \in Sender, DateNext(d) PROVE DatesMoved(s, p)'
  <2>1. /\ UNCHANGED <<nextAt, setBack, time, lastPost, lost>> /\ sender[d].at = "rec.date"
        /\ sender'[d] = [at |-> "rec.mark", on |-> sender[d].on, date |-> time + Period]
        /\ d # s => sender'[s] = sender[s]
    BY <1>10, Moving DEF DateNext
  <2> QED
    BY <1>0, <2>1 DEF DatesMoved
<1>7. ASSUME NEW d \in Sender, MarkRecurring(d) PROVE DatesMoved(s, p)'
  <2>0. PICK n \in Topic : n = sender[d].on
    BY <1>7, Sending DEF MarkRecurring
  <2>1. /\ UNCHANGED <<time, lastPost, lost>> /\ sender[d].at = "rec.mark"
        /\ sender'[d] = FreeSender /\ (d # s => sender'[s] = sender[s])
        /\ sender[d].date \in Nat
    BY <1>7, Moving, Sending DEF MarkRecurring, Quit
  <2>2. /\ nextAt'[p] = IF n = p THEN sender[d].date ELSE nextAt[p]
        /\ setBack' = IF sender[d].date < nextAt[n] THEN setBack \cup {n} ELSE setBack
    BY <1>7, <2>0 DEF MarkRecurring, NoteTypeOK
  <2>3. p \notin setBack' => p \notin setBack /\ nextAt'[p] >= nextAt[p] /\ nextAt'[p] \in Nat
    BY <1>0, <2>1, <2>2
  <2> QED
    BY <1>0, <2>0, <2>1, <2>2, <2>3 DEF DatesMoved, FreeSender
<1>8. CASE (\E t \in Token : MakeToken(t)) \/ (\E n \in Topic : OptIn(n)) \/ Stop \/ Pass \/ UNCHANGED noteVars
  BY <1>1, <1>8 DEF MakeToken, OptIn, Stop, Pass, noteVars
<1> QED
  BY <1>3, <1>4, <1>5, <1>6, <1>7, <1>8, <1>9, <1>10 DEF NoteNext, Work

\* sendRecurringMessage() leaves a period between two messages of a sender on a
\* topic, as long as it hears the answers and no older date has replaced a newer one.
THEOREM SendsAreApart == NoteSpec => RecurringSendsApart
<1> DEFINE Moved == \A s \in Sender, p \in Topic : DatesMoved(s, p)
           Apart == \A s \in Sender, p \in Topic :
                      (lastPost'[s][p] # lastPost[s][p] /\ lastPost[s][p] > 0 /\ lost = 0
                          /\ p \notin setBack)
                         => lastPost'[s][p] >= lastPost[s][p] + Period
<1>1. NoteInit => Moved
  <2> SUFFICES ASSUME NoteInit, NEW s \in Sender, NEW p \in Topic PROVE DatesMoved(s, p)
    OBVIOUS
  <2> QED
    BY NotificationsAssumption DEF NoteInit, DatesMoved
<1>2. NoteTypeOK /\ Moved /\ [NoteNext]_noteVars => Moved'
  BY NextDates
<1>3. NoteTypeOK /\ Moved /\ [NoteNext]_noteVars => [Apart]_noteVars
  <2> SUFFICES ASSUME NoteTypeOK, Moved, NoteNext, NEW s \in Sender, NEW p \in Topic,
                      lastPost'[s][p] # lastPost[s][p], lastPost[s][p] > 0, lost = 0, p \notin setBack
               PROVE  lastPost'[s][p] >= lastPost[s][p] + Period
    OBVIOUS
  <2>1. PICK d \in Sender : PostRecurring(d)
    BY DEF NoteNext, Work, ReadToken, SendNaming, ReadSubscription, PostWithToken, MarkToken,
           MarkExpired, DateNext, MarkRecurring, SendOnTopic, CountDirect, MakeToken, OptIn, Stop, Pass, subscription
  <2>2. PICK n \in Topic : n = sender[d].on
    BY <2>1, Sending DEF PostRecurring, Inside
  <2>3. lastPost' = [lastPost EXCEPT ![d][n] = time]
    BY <2>1, <2>2 DEF PostRecurring
  <2>4. d = s /\ n = p /\ lastPost'[s][p] = time
    BY <2>3 DEF NoteTypeOK
  <2>5. Inside(s, "rec.post") /\ sender[s].on = p
    BY <2>1, <2>2, <2>4 DEF PostRecurring
  <2> QED
    BY <2>4, <2>5 DEF DatesMoved
<1> QED
  BY <1>1, <1>2, <1>3, TypeCorrect, PTL DEF NoteSpec, RecurringSendsApart

-----------------------------------------------------------------------------
(***************************************************************************)
(* The messaging window.  A status that says the window is open was read   *)
(* before the newest message's window closed; what is left of FillTime and *)
(* the lifetime of the entry bound how much later it is used.              *)
(***************************************************************************)
ReadTimely(c) ==
    /\ clock <= caller[c].since + FillTime
    /\ caller[c].status.within => newest > 0 /\ caller[c].since < newest + Window

CacheTimely ==
    cache # NoEntry =>
        /\ clock < cache.till
        /\ cache.status.within => newest > 0 /\ cache.till < newest + Window + CacheTtl + FillTime

WindowInv ==
    /\ WindowTypeOK /\ heardAt <= newest /\ CacheTimely
    /\ \A c \in Caller : InCall(c, "fill") => ReadTimely(c)

LEMMA FillTypes ==
    ASSUME WindowTypeOK, NEW c \in Caller, InCall(c, "fill")
    PROVE  caller[c].status \in WindowStatus /\ caller[c].since \in ClockTimes
BY DEF WindowTypeOK, InCall, CallerState, Uncalled

LEMMA Becoming ==
    ASSUME WindowTypeOK, NEW c \in Caller, NEW state, Become(c, state)
    PROVE  /\ caller'[c] = state
           /\ \A d \in Caller \ {c} : caller'[d] = caller[d]
           /\ state \in CallerState => caller' \in [Caller -> CallerState]
BY DEF WindowTypeOK, Become

LEMMA Deciding ==
    ASSUME NEW c \in Caller, NEW wish \in Wish, NEW st \in WindowStatus, Decide(c, wish, st)
    PROVE  \E state \in CallerState :
              /\ Become(c, state) /\ state.at # "fill"
              /\ state = [at |-> "post", how |-> "WITHIN_WINDOW"] => st.within
<1>1. ASSUME NEW how \in Method, PostBy(c, how), how = "WITHIN_WINDOW" => st.within
      PROVE  \E state \in CallerState :
                /\ Become(c, state) /\ state.at # "fill"
                /\ state = [at |-> "post", how |-> "WITHIN_WINDOW"] => st.within
  <2> DEFINE state == [at |-> "post", how |-> how]
  <2>1. Become(c, state) /\ state \in CallerState /\ state.at = "post" /\ state.how = how
    BY <1>1 DEF PostBy, CallerState
  <2>2. state = [at |-> "post", how |-> "WITHIN_WINDOW"] => st.within
    BY <1>1, <2>1
  <2> HIDE DEF state
  <2> QED
    BY <2>1, <2>2
<1>2. CASE Become(c, [at |-> "tag"])
  BY <1>2 DEF CallerState
<1>3. CASE Leave(c)
  BY <1>3 DEF Leave, Uncalled, CallerState
<1> QED
  BY <1>1, <1>2, <1>3 DEF Decide, Wish, Method

LEMMA InitWindowInv == WindowInit => WindowInv
<1> SUFFICES ASSUME WindowInit PROVE WindowInv
  OBVIOUS
<1>1. clock \in ClockTimes /\ heardAt \in ClockTimes /\ newest \in ClockTimes
  BY WindowAssumption DEF WindowInit, ClockTimes
<1>2. caller \in [Caller -> CallerState]
  BY DEF WindowInit, CallerState
<1>3. WindowTypeOK
  BY <1>1, <1>2 DEF WindowInit, WindowTypeOK, SubRow
<1>4. heardAt <= newest /\ CacheTimely
  BY DEF WindowInit, CacheTimely
<1>5. \A c \in Caller : ~InCall(c, "fill")
  BY DEF WindowInit, InCall, Uncalled
<1> QED
  BY <1>3, <1>4, <1>5 DEF WindowInv

\* A caller moves on without a status, and the rest of the invariant is kept.
LEMMA CallerMoves ==
    ASSUME WindowInv, NEW c \in Caller, NEW state \in CallerState, Become(c, state),
           state.at # "fill", UNCHANGED <<clock, heardAt, newest, unhandled, subRow>>,
           tokenRow' \in BOOLEAN, UNCHANGED cache
    PROVE  WindowInv'
<1>1. WindowTypeOK'
  BY Becoming DEF WindowInv, WindowTypeOK
<1>2. ASSUME NEW d \in Caller, InCall(d, "fill")' PROVE ReadTimely(d)'
  <2>1. d # c /\ caller'[d] = caller[d]
    BY <1>2, Becoming DEF WindowInv, InCall
  <2> QED
    BY <1>2, <2>1 DEF WindowInv, InCall, ReadTimely
<1> QED
  BY <1>1, <1>2 DEF WindowInv, CacheTimely

LEMMA NextWindowInv == WindowInv /\ [WindowNext]_windowVars => WindowInv'
<1> SUFFICES ASSUME WindowInv, [WindowNext]_windowVars PROVE WindowInv'
  OBVIOUS
<1> USE DEF contact, permits
<1>0. /\ WindowTypeOK /\ clock \in Nat /\ newest \in Nat /\ heardAt \in Nat
      /\ Window \in Nat \ {0} /\ CacheTtl \in Nat \ {0} /\ FillTime \in Nat /\ MaxClock \in Nat
  BY WindowAssumption DEF WindowInv, WindowTypeOK, ClockTimes
<1>1. ASSUME NEW c \in Caller, NEW wish \in Wish, SendCached(c, wish) PROVE WindowInv'
  <2>1. cache.status \in WindowStatus
    BY <1>0, <1>1 DEF SendCached, WindowTypeOK
  <2>2. PICK state \in CallerState : Become(c, state) /\ state.at # "fill"
    BY <1>1, <2>1, Deciding DEF SendCached
  <2> QED
    BY <1>0, <1>1, <2>2, CallerMoves DEF SendCached, WindowTypeOK
<1>2. ASSUME NEW c \in Caller, SendUncached(c) PROVE WindowInv'
  <2> DEFINE state == [at |-> "fill", status |-> StatusNow, since |-> clock]
  <2>1. StatusNow \in WindowStatus
    BY <1>0 DEF StatusNow, WindowStatus, WindowOpen, WindowTypeOK
  <2>2. state \in CallerState
    BY <1>0, <2>1 DEF CallerState, WindowTypeOK
  <2>3. Become(c, state) /\ UNCHANGED <<clock, heardAt, newest, unhandled, subRow, tokenRow, cache>>
    BY <1>2 DEF SendUncached
  <2>4. state.since = clock /\ state.status.within = WindowOpen(heardAt)
    BY DEF StatusNow
  <2>5. state.status.within => newest > 0 /\ clock < newest + Window
    <3>1. WindowOpen(heardAt) => newest > 0 /\ clock < newest + Window
      BY <1>0 DEF WindowOpen, WindowInv
    <3> HIDE DEF state
    <3> QED
      BY <2>4, <3>1, Zenon
  <2> HIDE DEF state
  <2>6. WindowTypeOK'
    BY <1>0, <2>2, <2>3, Becoming DEF WindowTypeOK
  <2>7. ASSUME NEW d \in Caller, InCall(d, "fill")' PROVE ReadTimely(d)'
    <3>1. CASE d = c
      BY <1>0, <2>3, <2>4, <2>5, <3>1, Becoming DEF ReadTimely
    <3>2. CASE d # c
      BY <1>0, <2>3, <2>7, <3>2, Becoming DEF ReadTimely, InCall, WindowInv
    <3> QED
      BY <3>1, <3>2
  <2> QED
    BY <2>3, <2>6, <2>7 DEF WindowInv, CacheTimely
<1>3. ASSUME NEW c \in Caller, NEW how \in Method, SendExplicit(c, how) PROVE WindowInv'
  <2>1. \E state \in CallerState : Become(c, state) /\ state.at # "fill"
    <3>1. [at |-> "tag"] \in CallerState /\ [at |-> "post", how |-> Named] \in CallerState
      BY DEF CallerState
    <3> QED
      BY <1>3, <3>1 DEF SendExplicit, PostBy
  <2> QED
    BY <1>0, <1>3, <2>1, CallerMoves DEF SendExplicit, WindowTypeOK
<1>4. ASSUME NEW c \in Caller, FillCache(c) PROVE WindowInv'
  <2>1. caller[c].status \in WindowStatus /\ caller[c].since \in Nat /\ ReadTimely(c)
    BY <1>0, <1>4, FillTypes DEF FillCache, ClockTimes, WindowInv
  <2>2. PICK state \in CallerState : Become(c, state) /\ state.at # "fill"
    BY <1>4, <2>1, Deciding DEF FillCache
  <2>3. /\ cache' = [till |-> clock + CacheTtl, status |-> caller[c].status]
        /\ UNCHANGED <<clock, heardAt, newest, unhandled, subRow, tokenRow>>
    BY <1>4 DEF FillCache
  <2>4. cache' \in [till : Nat \ {0}, status : WindowStatus]
    BY <1>0, <2>1, <2>3
  <2>5. CacheTimely'
    BY <1>0, <2>1, <2>3 DEF CacheTimely, ReadTimely
  <2>6. WindowTypeOK'
    BY <1>0, <2>2, <2>3, <2>4, Becoming DEF WindowTypeOK
  <2>7. ASSUME NEW d \in Caller, InCall(d, "fill")' PROVE ReadTimely(d)'
    <3>1. d # c /\ caller'[d] = caller[d]
      BY <1>0, <2>2, <2>7, Becoming DEF InCall
    <3> QED
      BY <2>3, <2>7, <3>1 DEF WindowInv, InCall, ReadTimely
  <2> QED
    BY <2>3, <2>5, <2>6, <2>7 DEF WindowInv
<1>5. ASSUME NEW c \in Caller, CheckTag(c) PROVE WindowInv'
  <2>1. \E state \in CallerState : Become(c, state) /\ state.at # "fill"
    <3>1. Uncalled \in CallerState /\ [at |-> "post", how |-> "MESSAGE_TAG"] \in CallerState
      BY DEF CallerState, Method
    <3> QED
      BY <1>5, <3>1 DEF CheckTag, PostBy, Leave, Uncalled
  <2> QED
    BY <1>0, <1>5, <2>1, CallerMoves DEF CheckTag, WindowTypeOK
<1>6. ASSUME NEW c \in Caller, EndSend(c) PROVE WindowInv'
  <2>1. Uncalled \in CallerState /\ Uncalled.at # "fill" /\ Become(c, Uncalled)
    BY <1>6 DEF CallerState, Uncalled, EndSend, Leave
  <2> QED
    BY <1>0, <1>6, <2>1, CallerMoves DEF EndSend, WindowTypeOK
<1>7. CASE RequestOtn \/ RequestSubscription \/ HandleOptin
  BY <1>7 DEF RequestOtn, RequestSubscription, HandleOptin, WindowInv, WindowTypeOK, SubRow,
              CacheTimely, ReadTimely, InCall
<1>8. CASE ContactWrites
  BY <1>8 DEF ContactWrites, WindowInv, WindowTypeOK, CacheTimely, ReadTimely, InCall
<1>9. CASE HandleMessage
  <2>1. PICK at \in unhandled :
           /\ unhandled' = unhandled \ {at}
           /\ heardAt' = at
           /\ newest' = IF at > newest THEN at ELSE newest
    BY <1>9 DEF HandleMessage
  <2>2. at \in ClockTimes /\ at \in Nat
    BY <1>0, <2>1 DEF WindowTypeOK, ClockTimes
  <2>3. newest' \in ClockTimes /\ newest <= newest' /\ heardAt' <= newest' /\ newest' \in Nat
    BY <1>0, <2>1, <2>2 DEF WindowTypeOK
  <2>4. UNCHANGED <<clock, tokenRow, subRow, cache, caller>>
    BY <1>9 DEF HandleMessage
  <2>5. WindowTypeOK'
    BY <1>0, <2>1, <2>2, <2>3, <2>4 DEF WindowTypeOK
  <2>6. CacheTimely'
    <3>1. cache # NoEntry => cache.till \in Nat
      BY <1>0 DEF WindowTypeOK
    <3> QED
      BY <1>0, <2>3, <2>4, <3>1 DEF WindowInv, CacheTimely
  <2>7. ASSUME NEW d \in Caller, InCall(d, "fill")' PROVE ReadTimely(d)'
    <3>1. InCall(d, "fill") /\ caller[d].since \in Nat
      BY <1>0, <2>4, <2>7, FillTypes DEF InCall, ClockTimes
    <3> QED
      BY <1>0, <2>3, <2>4, <3>1 DEF WindowInv, ReadTimely
  <2> QED
    BY <2>3, <2>5, <2>6, <2>7 DEF WindowInv
<1>10. CASE ClockTick
  <2>1. /\ clock' = clock + 1 /\ clock' \in ClockTimes
        /\ UNCHANGED <<unhandled, heardAt, newest, tokenRow, subRow, caller>>
        /\ cache' \in {cache, NoEntry}
        /\ (cache' # NoEntry => cache' = cache /\ ~(cache.till <= clock + 1))
    BY <1>0, <1>10 DEF ClockTick, ClockTimes
  <2>2. WindowTypeOK'
    BY <1>0, <2>1 DEF WindowTypeOK
  <2>3. CacheTimely'
    <3>1. cache # NoEntry => cache.till \in Nat
      BY <1>0 DEF WindowTypeOK
    <3> QED
      BY <1>0, <2>1, <3>1 DEF WindowInv, CacheTimely
  <2>4. ASSUME NEW d \in Caller, InCall(d, "fill")' PROVE ReadTimely(d)'
    <3>1. InCall(d, "fill") /\ caller[d].since \in Nat
      BY <1>0, <2>1, <2>4, FillTypes DEF InCall, ClockTimes
    <3>2. clock < caller[d].since + FillTime
      BY <1>10, <3>1 DEF ClockTick
    <3> QED
      BY <1>0, <2>1, <3>1, <3>2 DEF WindowInv, ReadTimely
  <2> QED
    BY <2>1, <2>2, <2>3, <2>4 DEF WindowInv
<1>11. CASE UNCHANGED windowVars
  BY <1>11 DEF windowVars, WindowInv, WindowTypeOK, CacheTimely, ReadTimely, InCall
<1> QED
  BY <1>1, <1>2, <1>3, <1>4, <1>5, <1>6, <1>7, <1>8, <1>9, <1>10, <1>11 DEF WindowNext, Send

\* Every variable of MessagingWindow keeps to its values, and no status that says
\* the window is open outlives its bound.
THEOREM WindowInvariant == WindowSpec => []WindowInv
BY InitWindowInv, NextWindowInv, PTL DEF WindowSpec

\* A message goes out as one within the window at most the lifetime of a cached
\* status, and the time it took to store it, after the window has closed.
THEOREM SendsAreTimely == WindowSpec => WindowSendsTimely
<1> DEFINE Timely == \A c \in Caller :
             (PostsInWindow(c)' /\ ~PostsInWindow(c))
                 => newest > 0 /\ clock < newest + Window + CacheTtl + FillTime
<1>1. WindowInv /\ [WindowNext]_windowVars => [Timely]_windowVars
  <2> SUFFICES ASSUME WindowInv, WindowNext, NEW c \in Caller, PostsInWindow(c)', ~PostsInWindow(c)
               PROVE  newest > 0 /\ clock < newest + Window + CacheTtl + FillTime
    OBVIOUS
  <2>0. /\ WindowTypeOK /\ clock \in Nat /\ newest \in Nat
        /\ Window \in Nat \ {0} /\ CacheTtl \in Nat \ {0} /\ FillTime \in Nat
    BY WindowAssumption DEF WindowInv, WindowTypeOK, ClockTimes
  <2>1. caller'[c] # caller[c] /\ caller'[c].at = "post" /\ caller'[c].how = "WITHIN_WINDOW"
    BY DEF PostsInWindow
  <2>2. PICK d \in Caller : Send(d) \/ FillCache(d) \/ CheckTag(d) \/ EndSend(d)
    BY <2>1 DEF WindowNext, RequestOtn, RequestSubscription, ContactWrites, HandleMessage,
                HandleOptin, ClockTick
  <2>3. ASSUME NEW state, Become(d, state) PROVE c = d /\ caller'[c] = state
    BY <2>0, <2>1, <2>3, Becoming
  <2>4. ASSUME NEW wish \in Wish, SendCached(d, wish)
        PROVE  newest > 0 /\ clock < newest + Window + CacheTtl + FillTime
    <3>1. cache.status \in WindowStatus /\ cache.till \in Nat
      BY <2>0, <2>4 DEF SendCached, WindowTypeOK
    <3>2. cache.status.within
      BY <2>3, <2>4, <3>1, Deciding DEF SendCached, PostsInWindow
    <3> QED
      BY <2>0, <2>4, <3>1, <3>2 DEF SendCached, WindowInv, CacheTimely
  <2>5. ASSUME FillCache(d)
        PROVE  newest > 0 /\ clock < newest + Window + CacheTtl + FillTime
    <3>1. caller[d].status \in WindowStatus /\ caller[d].since \in Nat /\ ReadTimely(d)
      BY <2>0, <2>5, FillTypes DEF FillCache, ClockTimes, WindowInv
    <3>2. caller[d].status.within
      BY <2>3, <2>5, <3>1, Deciding DEF FillCache, PostsInWindow
    <3> QED
      BY <2>0, <3>1, <3>2 DEF ReadTimely
  <2>6. ~SendUncached(d) /\ ~CheckTag(d) /\ ~EndSend(d)
    <3>1. ~SendUncached(d)
      BY <2>1, <2>3 DEF SendUncached
    <3>2. ~Leave(d) /\ ~PostBy(d, "MESSAGE_TAG")
      BY <2>1, <2>3 DEF Leave, Uncalled, PostBy
    <3> QED
      BY <3>1, <3>2 DEF CheckTag, EndSend
  <2>7. ASSUME NEW how \in Method PROVE ~SendExplicit(d, how)
    <3>1. [at |-> "post", how |-> Named].how # "WITHIN_WINDOW" /\ [at |-> "tag"].at # "post"
      BY DEF Named
    <3> QED
      BY <2>1, <2>3, <3>1 DEF SendExplicit, PostBy
  <2> QED
    BY <2>2, <2>4, <2>5, <2>6, <2>7 DEF Send
<1> QED
  BY <1>1, WindowInvariant, PTL DEF WindowSpec, WindowSendsTimely
=============================================================================
