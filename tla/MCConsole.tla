----------------------------- MODULE MCConsole -----------------------------
(***************************************************************************)
(* Instances of the modules behind the console: the sessions of its users  *)
(* (AuthSession), the lists kept in one row (Registries), the audiences of *)
(* campaigns (Audience) and the custom fields of a contact (CustomFields). *)
(* They share no variable: a behaviour of ConsoleSpec is one of one of     *)
(* them, the others stay in their initial states.                          *)
(***************************************************************************)
EXTENDS AuthSession, Registries, Audience, CustomFields, TLC

CONSTANTS c1, c2, s1, s2, k1, k2, i1, i2, e1, e2, p1, p2, h1, h2, f1, referral

TwoCallers == {c1, c2}
TwoSessions == {s1, s2}
TwoClerks == {k1, k2}
TwoItems == {i1, i2}
TwoEditors == {e1, e2}
TwoContacts == {p1, p2}
TwoHandlers == {h1, h2}
OneField == {f1}
Symmetry ==
    Permutations(TwoCallers) \cup Permutations(TwoSessions) \cup Permutations(TwoHandlers)
        \cup Permutations(TwoClerks) \cup Permutations(TwoItems)

\* Bound: one of the sessions is refreshed, the other is not.
OneRefreshed == Cardinality({s \in Session : row[s] # None /\ row[s].secret > 1}) < 2

VARIABLE explored

ConsoleInit ==
    /\ AuthInit /\ RegistryInit /\ AudienceInit /\ FieldsInit
    /\ explored \in {"sessions", "registry", "audience", "fields"}
    \* What is not explored starts in one of its initial states.
    /\ explored # "registry" => registry = "invite"
    /\ explored # "audience" => people = {}

ConsoleNext ==
    \/ /\ explored = "sessions" /\ AuthNext
       /\ UNCHANGED <<registryVars, audienceVars, fieldVars, explored>>
    \/ /\ explored = "registry" /\ RegistryNext
       /\ UNCHANGED <<authVars, audienceVars, fieldVars, explored>>
    \/ /\ explored = "audience" /\ AudienceNext
       /\ UNCHANGED <<authVars, registryVars, fieldVars, explored>>
    \/ /\ explored = "fields" /\ FieldsNext
       /\ UNCHANGED <<authVars, registryVars, audienceVars, explored>>

ConsoleSpec ==
    ConsoleInit /\ [][ConsoleNext]_<<authVars, registryVars, audienceVars, fieldVars, explored>>
=============================================================================
