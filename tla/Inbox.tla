------------------------------- MODULE Inbox -------------------------------
(***************************************************************************)
(* What a conversation shows of the messages of its sender: each of them   *)
(* comes in once, is counted as unread once or not at all, and is not      *)
(* counted any more when it has been passed over.  All of it goes when the *)
(* contact is deleted.  WebhookIngest implements it with a queue that may  *)
(* hand out an event several times.                                        *)
(***************************************************************************)
EXTENDS Naturals, FiniteSets

CONSTANT Message

VARIABLES
    inbox,      \* the messages that have come in
    uncounted,  \* those that still are to be counted
    unread      \* the count of the conversation

vars == <<inbox, uncounted, unread>>

Init == inbox = {} /\ uncounted = {} /\ unread = 0

Receive(m) ==
    /\ m \notin inbox
    /\ inbox' = inbox \cup {m} /\ uncounted' = uncounted \cup {m}
    /\ UNCHANGED unread

Count(m) ==
    /\ m \in uncounted
    /\ uncounted' = uncounted \ {m} /\ unread' = unread + 1
    /\ UNCHANGED inbox

\* Those who were to count them have died.
PassOver ==
    /\ uncounted' \subseteq uncounted
    /\ UNCHANGED <<inbox, unread>>

\* An agent reads the conversation; what is uncounted still will be counted.
MarkRead == unread' = 0 /\ UNCHANGED <<inbox, uncounted>>

\* The contact is deleted with its conversation and messages.
Erase == inbox' = {} /\ uncounted' = {} /\ unread' = 0

Next == (\E m \in Message : Receive(m) \/ Count(m)) \/ PassOver \/ MarkRead \/ Erase

Spec == Init /\ [][Next]_vars
=============================================================================
