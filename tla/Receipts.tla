----------------------------- MODULE Receipts -----------------------------
(***************************************************************************)
(* What the records of a page tell about the messages sent from it: a      *)
(* message gets further and further, and its record follows, some way      *)
(* behind and never ahead.  MessageDelivery implements it, on a page with  *)
(* one contact.                                                            *)
(***************************************************************************)
EXTENDS Naturals

CONSTANT Message

VARIABLES
    reached,  \* how far each message got: 0, 1 accepted, 2 delivered, 3 read
    told      \* how far it got by its record

vars == <<reached, told>>
Far == 0..3

Init ==
    /\ reached = [m \in Message |-> 0]
    /\ told = [m \in Message |-> 0]

\* Messages get one step further.
GoOn ==
    /\ \E M \in SUBSET Message :
         /\ \A m \in M : reached[m] < 3
         /\ reached' = [m \in Message |-> IF m \in M THEN reached[m] + 1 ELSE reached[m]]
    /\ UNCHANGED told

\* Word of it is recorded, of several messages at once perhaps.
Learn ==
    /\ told' \in [Message -> Far]
    /\ \A m \in Message : told[m] <= told'[m] /\ told'[m] <= reached[m]
    /\ UNCHANGED reached

Next == GoOn \/ Learn

Spec == Init /\ [][Next]_vars
=============================================================================
