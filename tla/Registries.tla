----------------------------- MODULE Registries -----------------------------
(***************************************************************************)
(* The lists the backend keeps whole in one row of system_setting: the     *)
(* invitations of a workspace (workspaces.service.ts), its sponsored ads   *)
(* (sponsored-message.service.ts) and the backups (backup.service.ts).     *)
(*                                                                         *)
(* A call reads the list, works outside the row (grants access, buys an    *)
(* ad, writes or unlinks a file) and writes the whole list it read back    *)
(* with its change.  No call touches two lists: registry says which one a  *)
(* behaviour is about.  Any call may be cut short, by a call of Postgres   *)
(* that fails or by the end of the process.                                *)
(***************************************************************************)
EXTENDS Naturals, FiniteSets

CONSTANTS
    Clerk,      \* slots for calls that are under way together
    Item,       \* ids of invitations, ads or backups
    MaxCut      \* bound: calls about one item cut short with something to write

ASSUME RegistryAssumption == IsFiniteSet(Clerk) /\ MaxCut \in Nat

VARIABLES
    registry,   \* "invite", "ad" or "backup"
    list,       \* the row: the status of each item, "none" when not listed
    issued,     \* ids given out
    overdue,    \* items past their expiry or retention date
    uses,       \* how often an invitation granted access, or an ad was bought
    disk,       \* the files that are there: the export of a backup (json) and
                \*   its companion (sql)
    task,       \* what each clerk is doing
    lost,       \* history: a write replaced a list that was not the one read
    cuts,       \* history: calls about each item cut short before the write
    left        \* history: files left on the disk by what took their entry

upsets == <<lost, cuts, left>>
registryVars == <<registry, list, issued, overdue, uses, disk, task, upsets>>

Idle == [at |-> "idle"]

RegistryInit ==
    /\ registry \in {"invite", "ad", "backup"}
    /\ list = [i \in Item |-> "none"]
    /\ issued = {} /\ overdue = {} /\ disk = {}
    /\ uses = [i \in Item |-> 0]
    /\ task = [c \in Clerk |-> Idle]
    /\ lost = FALSE /\ cuts = [i \in Item |-> 0] /\ left = {}

On(c, step) == task[c].at = step
Turn(c, state) == task' = [task EXCEPT ![c] = state]
Outside == UNCHANGED <<registry, issued, overdue, uses, disk>>
Files(items) == {"json", "sql"} \X items
\* Invitations that can be accepted, ads that can be submitted.
Open == {"pending", "draft"}

\* The list has been read and the clerk is about to write it with item i changed.
Change(c, i, status) ==
    Turn(c, [at |-> "save", read |-> list, write |-> [list EXCEPT ![i] = status]])

\* saveRegistry(), and the upsert or update of the invitations.
Save(c) ==
    /\ On(c, "save") /\ Turn(c, Idle)
    /\ list' = task[c].write
    /\ lost' = (lost \/ list # task[c].read)
    /\ Outside /\ UNCHANGED <<cuts, left>>

\* The items a call has done something about that it has yet to write.
Unfinished(c) ==
    IF On(c, "save") THEN {i \in Item : task[c].write[i] # task[c].read[i]}
    ELSE IF task[c].at \in {"submit", "enter"} THEN {task[c].item} ELSE {}

CutOff(c) ==
    /\ ~On(c, "idle") /\ Turn(c, Idle)
    /\ \A i \in Unfinished(c) : cuts[i] < MaxCut
    /\ cuts' = [i \in Item |-> IF i \in Unfinished(c) THEN cuts[i] + 1 ELSE cuts[i]]
    /\ Outside /\ UNCHANGED <<list, lost, left>>

\* Time passes for an invitation or a backup.
Age(i) ==
    /\ i \in issued \ overdue /\ overdue' = overdue \cup {i}
    /\ UNCHANGED <<registry, list, issued, uses, disk, task, upsets>>

(***************************************************************************)
(* Invitations                                                             *)
(***************************************************************************)
CreateInvite(c, i) ==
    /\ registry = "invite" /\ On(c, "idle") /\ i \notin issued
    /\ issued' = issued \cup {i} /\ Change(c, i, "pending")
    /\ UNCHANGED <<registry, list, overdue, uses, disk, upsets>>

\* acceptInvite() up to its first write, and revokeInvite() up to its own.
ReadInvite(c, i) ==
    /\ registry = "invite" /\ On(c, "idle") /\ list[i] = "pending"
    /\ \/ i \in overdue /\ Change(c, i, "expired")
       \/ i \notin overdue /\ Turn(c, [at |-> "grant", item |-> i, read |-> list])
       \/ Change(c, i, "revoked")
    /\ Outside /\ UNCHANGED <<list, upsets>>

\* Slip: the invitation stays pending.
Slip_StillPending(c) ==
    /\ On(c, "grant") /\ Turn(c, Idle)
    /\ uses' = [uses EXCEPT ![task[c].item] = @ + 1]
    /\ UNCHANGED <<registry, list, issued, overdue, disk, upsets>>

\* Access comes first, and the list as it was read is kept for the write.
Grant(c) ==
    LET i == task[c].item  read == task[c].read IN
    /\ On(c, "grant")
    /\ uses' = [uses EXCEPT ![i] = @ + 1]
    /\ Turn(c, [at |-> "save", read |-> read, write |-> [read EXCEPT ![i] = "accepted"]])
    /\ UNCHANGED <<registry, list, issued, overdue, disk, upsets>>

(***************************************************************************)
(* Sponsored ads.  Nothing writes the status "active", so that             *)
(* pauseCampaign() and resumeCampaign() always refuse.                     *)
(***************************************************************************)
CreateAd(c, i) ==
    /\ registry = "ad" /\ On(c, "idle") /\ i \notin issued
    /\ issued' = issued \cup {i} /\ Change(c, i, "draft")
    /\ UNCHANGED <<registry, list, overdue, uses, disk, upsets>>

\* findCampaignInDb() of submitForReview() and deleteCampaign().
FindAd(c, i) ==
    /\ registry = "ad" /\ On(c, "idle") /\ list[i] = "draft"
    /\ \E step \in {"buy", "strike"} : Turn(c, [at |-> step, item |-> i])
    /\ Outside /\ UNCHANGED <<list, upsets>>

\* The Graph API call; without an account or when it fails the ad is submitted
\* all the same.
Buy(c) ==
    /\ On(c, "buy") /\ Turn(c, [at |-> "submit", item |-> task[c].item])
    /\ uses' \in {uses, [uses EXCEPT ![task[c].item] = @ + 1]}
    /\ UNCHANGED <<registry, list, issued, overdue, disk, upsets>>

\* The second read of the list, which the write follows.
ReadAd(c) ==
    LET i == task[c].item IN
    /\ \/ On(c, "submit") /\ list[i] # "none" /\ Change(c, i, "pending_review")
       \/ On(c, "submit") /\ list[i] = "none" /\ Turn(c, Idle)
       \/ On(c, "strike") /\ Change(c, i, "none")
    /\ Outside /\ UNCHANGED <<list, upsets>>

(***************************************************************************)
(* Backups                                                                 *)
(***************************************************************************)
\* createBackup() up to the registry: the export and, if pg_dump is there, its
\* companion are written, or the export fails.
WriteFile(c, i) ==
    /\ registry = "backup" /\ On(c, "idle") /\ i \notin issued
    /\ issued' = issued \cup {i}
    /\ \/ /\ disk' \in {disk \cup {<<"json", i>>}, disk \cup Files({i})}
          /\ Turn(c, [at |-> "enter", item |-> i, as |-> "completed"])
       \/ disk' = disk /\ Turn(c, [at |-> "enter", item |-> i, as |-> "failed"])
    /\ UNCHANGED <<registry, list, overdue, uses, upsets>>

EnterBackup(c) ==
    /\ On(c, "enter") /\ Change(c, task[c].item, task[c].as)
    /\ Outside /\ UNCHANGED <<list, upsets>>

\* Slip: the export stays as well.
Slip_EntryOnly(c, i) ==
    /\ registry = "backup" /\ On(c, "idle") /\ list[i] # "none"
    /\ Change(c, i, "none")
    /\ UNCHANGED <<registry, list, issued, overdue, uses, disk, upsets>>

\* deleteBackup(): the export goes between the read and the write, its companion
\* stays.
DeleteBackup(c, i) ==
    /\ registry = "backup" /\ On(c, "idle") /\ list[i] # "none"
    /\ disk' = disk \ {<<"json", i>>} /\ Change(c, i, "none")
    /\ left' = left \cup (disk \cap {<<"sql", i>>})
    /\ UNCHANGED <<registry, list, issued, overdue, uses, lost, cuts>>

\* cleanupOldBackups().  An unlink that fails leaves the file, and the companion
\* too when it was the export's; the entry goes all the same.
CleanUp(c) ==
    LET old == {i \in overdue : list[i] # "none"} IN
    /\ registry = "backup" /\ On(c, "idle") /\ old # {}
    /\ \E stuck \in SUBSET (disk \cap Files(old)) :
          /\ \A i \in old : <<"json", i>> \in stuck => disk \cap Files({i}) \subseteq stuck
          /\ disk' = disk \ (Files(old) \ stuck)
          /\ left' = left \cup stuck
    /\ Turn(c, [at |-> "save", read |-> list,
                write |-> [i \in Item |-> IF i \in old THEN "none" ELSE list[i]]])
    /\ UNCHANGED <<registry, list, issued, overdue, uses, lost, cuts>>

-----------------------------------------------------------------------------
Office(c) ==
    \/ Save(c) \/ CutOff(c) \/ Grant(c) \/ Buy(c) \/ ReadAd(c) \/ EnterBackup(c) \/ CleanUp(c)
    \/ \E i \in Item :
         \/ CreateInvite(c, i) \/ ReadInvite(c, i) \/ CreateAd(c, i) \/ FindAd(c, i)
         \/ WriteFile(c, i) \/ DeleteBackup(c, i)

RegistryNext == (\E c \in Clerk : Office(c)) \/ \E i \in Item : Age(i)

RegistrySpec == RegistryInit /\ [][RegistryNext]_registryVars

-----------------------------------------------------------------------------
(***************************************************************************)
(* Properties.                                                             *)
(***************************************************************************)
\* The calls that will take i out of the open items.
Closing(i) ==
    {c \in Clerk :
        \/ On(c, "submit") /\ task[c].item = i
        \/ On(c, "save") /\ task[c].read[i] \in Open /\ task[c].write[i] \notin Open}

\* An invitation grants access once, and an ad is bought once, but for calls that
\* overlap: while it can be used, each use it had is that of a call which is still
\* to close it, or which was cut short before it could.  Until a write loses what
\* another one wrote (and a used item is open again).
UsedByOverlap ==
    ~lost => \A i \in Item :
                list[i] \in Open => uses[i] <= Cardinality(Closing(i)) + cuts[i]

\* Between calls, and until such a write: a backup listed as completed can be
\* restored, and a file has an entry, but for items a call about which was cut
\* short, the companions deleteBackup() leaves and files that could not be removed.
FilesMatchRegistry ==
    (registry = "backup" /\ ~lost /\ \A c \in Clerk : On(c, "idle")) =>
        \A i \in Item : cuts[i] = 0 =>
            /\ list[i] = "completed" => <<"json", i>> \in disk
            /\ list[i] # "completed" => disk \cap Files({i}) \subseteq left
=============================================================================
