------------------------------ MODULE DailyPool ------------------------------
(***************************************************************************)
(* What a daily cap promises: every day has Cap slots; a slot is taken     *)
(* once, and it is granted at once, or later, or (when its caller is lost) *)
(* never.  A slot never comes back, and there is no other way to a grant.  *)
(* TenantQuota implements it with a counter that is also decremented.      *)
(***************************************************************************)
EXTENDS Naturals

CONSTANTS Day, Cap

VARIABLES
    free,     \* slots of the day nobody has taken
    granted   \* slots of the day that were granted

Init ==
    /\ free = [d \in Day |-> Cap]
    /\ granted = [d \in Day |-> 0]

Take(d) == free[d] > 0 /\ free' = [free EXCEPT ![d] = @ - 1]
Grant(d) == granted' = [granted EXCEPT ![d] = @ + 1]

TakeAndGrant(d) == Take(d) /\ Grant(d)
TakeFirst(d) == Take(d) /\ UNCHANGED granted

\* Only a slot that is taken and not granted yet.
GrantTaken(d) == granted[d] < Cap - free[d] /\ Grant(d) /\ UNCHANGED free

Next == \E d \in Day : TakeAndGrant(d) \/ TakeFirst(d) \/ GrantTaken(d)

Spec == Init /\ [][Next]_<<free, granted>>
=============================================================================
