------------------------------ MODULE Mailing ------------------------------
(***************************************************************************)
(* What a campaign promises while requests come one at a time and nothing  *)
(* fails: its audience is drawn up once, each entry of it gets at most     *)
(* one message and is settled once, counted or dropped, and the campaign   *)
(* is called complete only when everybody has been counted.                *)
(* CampaignDelivery implements it with jobs, two counters, and a           *)
(* completion check that every worker makes for itself.                    *)
(***************************************************************************)
EXTENDS Naturals, FiniteSets

CONSTANTS Campaign, Recipient

VARIABLES
    audience,      \* the recipients the campaign was launched for
    pending,       \* those who are neither counted nor dropped
    posting,       \* those whose message is on its way to the Graph API
    mails,         \* messages of the campaign each recipient was sent
    sent, failed,  \* recipients counted, by how they were reported
    stage          \* "open", "complete" or "gone"

vars == <<audience, pending, posting, mails, sent, failed, stage>>

Init ==
    /\ audience = [c \in Campaign |-> {}]
    /\ pending = [c \in Campaign |-> {}]
    /\ posting = [c \in Campaign |-> {}]
    /\ mails = [c \in Campaign |-> [k \in Recipient |-> 0]]
    /\ sent = [c \in Campaign |-> 0]
    /\ failed = [c \in Campaign |-> 0]
    /\ stage = [c \in Campaign |-> "open"]

\* Only once: an audience is never extended or drawn up again.
Launch(c) ==
    /\ stage[c] = "open" /\ audience[c] = {}
    /\ \E aud \in SUBSET Recipient :
           /\ audience' = [audience EXCEPT ![c] = aud]
           /\ pending' = [pending EXCEPT ![c] = aud]
    /\ UNCHANGED <<posting, mails, sent, failed, stage>>

\* A message is only begun for a recipient who is pending and was sent none.
Begin(c, k) ==
    /\ k \in pending[c] \ posting[c] /\ mails[c][k] = 0
    /\ posting' = [posting EXCEPT ![c] = @ \cup {k}]
    /\ UNCHANGED <<audience, pending, mails, sent, failed, stage>>

\* It goes out or comes to nothing, also when the campaign is gone by then.
Mail(c, k) ==
    /\ k \in posting[c] /\ mails[c][k] = 0
    /\ posting' = [posting EXCEPT ![c] = @ \ {k}]
    /\ mails' = [mails EXCEPT ![c][k] = 1]
    /\ UNCHANGED <<audience, pending, sent, failed, stage>>
GiveUp(c, k) ==
    /\ k \in posting[c]
    /\ posting' = [posting EXCEPT ![c] = @ \ {k}]
    /\ UNCHANGED <<audience, pending, mails, sent, failed, stage>>

\* Nobody is settled while a message is on its way.
Settle(c, k) ==
    /\ k \in pending[c] \ posting[c]
    /\ pending' = [pending EXCEPT ![c] = @ \ {k}]
    /\ UNCHANGED <<audience, posting, mails, stage>>

\* Who is counted as sent was sent the message; the converse need not hold.
CountSent(c, k) ==
    /\ Settle(c, k) /\ mails[c][k] = 1
    /\ sent' = [sent EXCEPT ![c] = @ + 1] /\ UNCHANGED failed
CountFailed(c, k) ==
    /\ Settle(c, k)
    /\ failed' = [failed EXCEPT ![c] = @ + 1] /\ UNCHANGED sent
Drop(c, k) == Settle(c, k) /\ UNCHANGED <<sent, failed>>

\* A campaign that dropped a recipient is never complete.
Complete(c) ==
    /\ stage[c] # "gone"
    /\ pending[c] = {} /\ sent[c] + failed[c] = Cardinality(audience[c])
    /\ stage' = [stage EXCEPT ![c] = "complete"]
    /\ UNCHANGED <<audience, pending, posting, mails, sent, failed>>

\* A pause or a cancel that was under way writes over it.
Reopen(c) ==
    /\ stage[c] = "complete"
    /\ stage' = [stage EXCEPT ![c] = "open"]
    /\ UNCHANGED <<audience, pending, posting, mails, sent, failed>>

\* Whoever was still pending is not counted any more; what is on its way is not
\* called back.
Delete(c) ==
    /\ stage[c] # "gone"
    /\ stage' = [stage EXCEPT ![c] = "gone"]
    /\ pending' = [pending EXCEPT ![c] = {}]
    /\ UNCHANGED <<audience, posting, mails, sent, failed>>

Next ==
    \E c \in Campaign :
        \/ Launch(c) \/ Complete(c) \/ Reopen(c) \/ Delete(c)
        \/ \E k \in Recipient :
               \/ Begin(c, k) \/ Mail(c, k) \/ GiveUp(c, k)
               \/ CountSent(c, k) \/ CountFailed(c, k) \/ Drop(c, k)

Spec == Init /\ [][Next]_vars

\* What it comes to: nobody outside the audience is sent anything or anything
\* twice, the counters never exceed the audience, those counted as sent were
\* sent the message, and a complete campaign has counted everybody.
MailedIn(c) == {k \in Recipient : mails[c][k] # 0}
AddsUp ==
    \A c \in Campaign :
        /\ pending[c] \subseteq audience[c] /\ posting[c] \subseteq audience[c]
        /\ MailedIn(c) \subseteq audience[c] /\ \A k \in Recipient : mails[c][k] \in {0, 1}
        /\ sent[c] + failed[c] + Cardinality(pending[c]) <= Cardinality(audience[c])
        /\ sent[c] <= Cardinality(MailedIn(c) \ pending[c])
        /\ stage[c] = "complete" => /\ pending[c] = {}
                                   /\ sent[c] + failed[c] = Cardinality(audience[c])
=============================================================================
