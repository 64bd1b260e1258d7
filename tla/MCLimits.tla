------------------------------ MODULE MCLimits ------------------------------
(***************************************************************************)
(* Instances of the modules that keep a limit in Redis: the daily cap of a *)
(* workspace (TenantQuota), the rate limits of a send (RateLimit) and the  *)
(* lock on failed sign-ins (LoginLimiter).  They use different keys and    *)
(* share no variable: a behaviour of LimitsSpec is one of one of them, the *)
(* others stay in their initial states.                                    *)
(***************************************************************************)
EXTENDS RateLimit, TenantQuota, LoginLimiter, TLC

CONSTANTS a1, w1, w2, j1, j2, j3, j4, l1, l2, l3, page, contact

OneCall == {a1}
TwoWorkers == {w1, w2}
TwoKeys == {page, contact}
LimitOne == [k \in Key |-> 1]
FourJobs == {j1, j2, j3, j4}
ThreeClients == {l1, l2, l3}
Symmetry == Permutations(TwoWorkers) \cup Permutations(FourJobs)

VARIABLE explored

LimitsInit == Init /\ QuotaInit /\ LoginInit /\ explored \in {"rate", "quota", "login"}

LimitsNext ==
    \/ explored = "rate" /\ Next /\ UNCHANGED <<quotaVars, loginVars, explored>>
    \/ explored = "quota" /\ QuotaNext /\ UNCHANGED <<vars, loginVars, explored>>
    \/ explored = "login" /\ LoginNext /\ UNCHANGED <<vars, quotaVars, explored>>

LimitsSpec == LimitsInit /\ [][LimitsNext]_<<vars, quotaVars, loginVars, explored>>
=============================================================================
