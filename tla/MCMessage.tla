----------------------------- MODULE MCMessage -----------------------------
(***************************************************************************)
(* Instances of the modules about one outbound message: its record         *)
(* (MessageDelivery), the window it is sent in (MessagingWindow), the      *)
(* permissions that replace the window (Notifications) and the page it is  *)
(* sent from (PageConnection).  They share no variable: a behaviour of     *)
(* SendsSpec is one of one of them, the others stay in their initial       *)
(* states.                                                                 *)
(***************************************************************************)
EXTENDS MessageDelivery, MessagingWindow, Notifications, PageConnection, TLC

CONSTANTS m1, m2, alice, s1, s2, otn, topic, q1, q2, wa, wb, r1, r2

OneMessage == {m1}
TwoMessages == {m1, m2}
OneContact == {alice}
ToAlice == [m \in Message |-> alice]
TwoSlots == {s1, s2}
OneToken == {otn}
OneTopic == {topic}
TwoRequests == {q1, q2}
TwoWorkspaces == {wa, wb}
TwoRows == {r1, r2}
NoneOrThree == {0, 3}
Symmetry ==
    Permutations(TwoMessages) \cup Permutations(TwoSlots) \cup Permutations(TwoRequests)

\* The properties of PageConnection are about what happens before a stale write:
\* what follows one is not explored.
BeforeCrossing == ~crossed

VARIABLE explored

SendsInit ==
    /\ Init /\ WindowInit /\ NoteInit /\ PageInit
    /\ explored \in {"record", "window", "permission", "page"}

SendsNext ==
    \/ explored = "record" /\ Next /\ UNCHANGED <<windowVars, noteVars, pageVars, explored>>
    \/ explored = "window" /\ WindowNext /\ UNCHANGED <<vars, noteVars, pageVars, explored>>
    \/ explored = "permission" /\ NoteNext /\ UNCHANGED <<vars, windowVars, pageVars, explored>>
    \/ explored = "page" /\ PageNext /\ UNCHANGED <<vars, windowVars, noteVars, explored>>

SendsSpec == SendsInit /\ [][SendsNext]_<<vars, windowVars, noteVars, pageVars, explored>>
=============================================================================
