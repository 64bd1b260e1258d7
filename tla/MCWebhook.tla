----------------------------- MODULE MCWebhook -----------------------------
(* Instances of WebhookIngest for TLC. *)
EXTENDS WebhookIngest

TwoEvents == {1, 2}
ThreeEvents == {1, 2, 3}
OnlyMessages == [e \in Event |-> "message"]
\* Two messages, and a policy event that blocks the page.
MessagesAndBlock == [e \in Event |-> IF e <= 2 THEN "message" ELSE "block"]
\* Bound: what goes wrong in one behaviour, of what each bound allows once.
ThreeUpsets == forgets + crashes + faults + deletes <= 3
=============================================================================
