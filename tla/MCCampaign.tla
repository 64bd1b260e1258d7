----------------------------- MODULE MCCampaign -----------------------------
(* Instances of CampaignDelivery for TLC. *)
EXTENDS CampaignDelivery, TLC

CONSTANTS c1, c2, k1, k2, k3, r1, r2

OneCampaign == {c1}
TwoCampaigns == {c1, c2}
NoRecipient == {}
OneRecipient == {k1}
TwoRecipients == {k1, k2}
ThreeRecipients == {k1, k2, k3}
OneRequest == {r1}
TwoRequests == {r1, r2}

\* Which operations the users call.
EveryOp == AllOps
WithoutPause == AllOps \ {"pause", "resume"}
LaunchAndStop == {"launch", "pause", "resume", "cancel", "delete"}
LaunchCancel == {"launch", "cancel"}
LaunchCancelDelete == {"launch", "cancel", "delete"}

\* Recipients are alike when all or none of them are Removable; so are requests.
SymmetryR == Permutations(TwoRequests)
Symmetry3 == Permutations(ThreeRecipients)
=============================================================================
