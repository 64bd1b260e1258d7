--------------------------- MODULE PageConnection ---------------------------
(***************************************************************************)
(* One Facebook page and the workspaces that connect it: the rows of the   *)
(* table page, the accounts they are reached through and the webhook       *)
(* subscription Facebook keeps (facebook.service.ts, pages.service.ts,     *)
(* page-sync.service.ts).                                                  *)
(*                                                                         *)
(* A request reads a row, calls Facebook and writes the row by its id.     *)
(* Several requests and the periodic sync run together; nothing tells a    *)
(* request that the row has changed since it read it.                      *)
(***************************************************************************)
EXTENDS Naturals, FiniteSets

CONSTANTS
    Request,    \* slots for requests that are under way together
    Workspace,
    PageRow     \* ids of rows

NoRow == "none"

\* A page token: one asked for through the account of a workspace is named by the
\* workspace; this is one a client handed in when it connected the page to w, and
\* nothing verifies where it comes from.
HandedIn(w) == <<"client", w>>

ASSUME PageAssumption == NoRow \notin PageRow

VARIABLES
    linked,     \* workspaces with a Facebook account
    page,       \* the rows
    hooked,     \* Facebook: is the app subscribed to the page?
    request,    \* what each request is doing
    stale,      \* history: requests whose row was written since they read it
    crossed,    \* history: did a stale request write, or call Facebook?
    unsure      \* history: rows whose webhookSubscribed is no answer of Facebook

pageGhosts == <<stale, crossed, unsure>>
pageVars == <<linked, page, hooked, request, pageGhosts>>

NoPage == [on |-> FALSE]
Waiting == [at |-> "ready"]

PageInit ==
    /\ linked = {} /\ hooked = FALSE
    /\ page = [r \in PageRow |-> NoPage]
    /\ request = [q \in Request |-> Waiting]
    /\ stale = {} /\ crossed = FALSE /\ unsure = {}

HasRow(r) == page[r] # NoPage
RowOf(w) == {r \in PageRow : HasRow(r) /\ page[r].ws = w}
Stage(q, s) == request[q].at = s
Set(q, state) == request' = [request EXCEPT ![q] = state]
Reply(q) == Set(q, Waiting)

\* A request starts: what it has read is current.
Begin(q, state) ==
    /\ Stage(q, "ready") /\ Set(q, state)
    /\ stale' = stale \ {q}
    /\ UNCHANGED <<linked, page, hooked, crossed, unsure>>

\* Request q writes row r, or creates it: who else had read it, or had read that
\* there is no row, is stale from now on.
Write(q, new, rows) ==
    /\ page' = new
    /\ crossed' = (crossed \/ q \in stale)
    /\ stale' = stale \cup
         {d \in Request \ {q} : ~Stage(d, "ready") /\ request[d].row \in rows}
    /\ Reply(q)

\* The row is gone, or a constraint is not met: the request throws.
GiveUp(q) == Reply(q) /\ UNCHANGED <<linked, page, hooked, pageGhosts>>

\* A call of the request fails, or the process stops: the request ends where it
\* is.  After the unsubscription nothing tells the row, nor who has read it.
Abandon(q) ==
    /\ ~Stage(q, "ready") /\ Reply(q)
    /\ IF Stage(q, "unhooked") /\ request[q].row # NoRow /\ HasRow(request[q].row)
       THEN /\ unsure' = unsure \cup {request[q].row}
            /\ stale' = stale \cup
                 {d \in Request \ {q} : ~Stage(d, "ready") /\ request[d].row = request[q].row}
       ELSE UNCHANGED <<unsure, stale>>
    /\ UNCHANGED <<linked, page, hooked, crossed>>

(***************************************************************************)
(* Accounts: handleCallback() and the end of disconnectAccount().          *)
(***************************************************************************)
AddAccount(w) ==
    /\ w \notin linked /\ linked' = linked \cup {w}
    /\ UNCHANGED <<page, hooked, request, pageGhosts>>

(***************************************************************************)
(* connectPage()                                                           *)
(***************************************************************************)
\* Slip: only the rows of the workspace itself are looked at.
Slip_OwnRowOnly(q, w) ==
    /\ w \in linked
    /\ \/ RowOf(w) = {} /\ Begin(q, [at |-> "connect", ws |-> w, row |-> NoRow, flag |-> FALSE])
       \/ \E r \in RowOf(w) : ~page[r].on /\ Begin(q, [at |-> "connect", ws |-> w, row |-> r, flag |-> FALSE])

\* Any row of the page is looked for; an active one refuses.
ConnectRead(q, w) ==
    /\ w \in linked
    /\ \/ /\ \A r \in PageRow : ~HasRow(r)
          /\ Begin(q, [at |-> "connect", ws |-> w, row |-> NoRow, flag |-> FALSE])
       \/ \E r \in PageRow :
            /\ HasRow(r) /\ ~page[r].on
            /\ Begin(q, [at |-> "connect", ws |-> w, row |-> r, flag |-> FALSE])

\* subscribePageToWebhook(), which never throws.  An answer that is lost counts as
\* a failure.
SubscribeFor(q) ==
    /\ request[q].at \in {"connect", "reactivate", "repair", "resubscribe"}
    /\ \E s \in BOOLEAN :
         /\ hooked' \in (IF s THEN {TRUE} ELSE {hooked, TRUE})
         /\ Set(q, [request[q] EXCEPT !.flag = s, !.at = CASE @ = "connect" -> "connected"
                                                           [] @ = "reactivate" -> "reactivated"
                                                           [] @ = "repair" -> "repaired"
                                                           [] @ = "resubscribe" -> "resubscribed"])
    /\ crossed' = (crossed \/ q \in stale)
    /\ UNCHANGED <<linked, page, stale, unsure>>

\* The constraints: one row of the page in a workspace, and its account exists.
Allowed(w, r) == w \in linked /\ RowOf(w) \subseteq {r}

\* Slip: the row is reactivated with the token it had.
Slip_OldToken(q) ==
    LET w == request[q].ws  r == request[q].row IN
    /\ Stage(q, "connected") /\ r # NoRow /\ HasRow(r) /\ Allowed(w, r)
    /\ Write(q, [page EXCEPT ![r] = [@ EXCEPT !.ws = w, !.on = TRUE]], {r})
    /\ UNCHANGED <<linked, hooked, unsure>>

\* The update of an inactive row, which may be another workspace's by its id.
ConnectUpdate(q) ==
    LET w == request[q].ws  r == request[q].row IN
    /\ Stage(q, "connected") /\ r # NoRow
    /\ IF HasRow(r) /\ Allowed(w, r)
       THEN /\ \E t \in {w, HandedIn(w)} :
                 Write(q, [page EXCEPT ![r] = [on |-> TRUE, ws |-> w, token |-> t,
                                                   flag |-> request[q].flag]], {r})
            /\ unsure' = unsure \ {r}
            /\ UNCHANGED <<linked, hooked>>
       ELSE GiveUp(q)

ConnectCreate(q, r) ==
    LET w == request[q].ws IN
    /\ Stage(q, "connected") /\ request[q].row = NoRow /\ ~HasRow(r)
    /\ IF Allowed(w, r)
       THEN /\ \E t \in {w, HandedIn(w)} :
                 Write(q, [page EXCEPT ![r] = [on |-> TRUE, ws |-> w, token |-> t,
                                                   flag |-> request[q].flag]], {NoRow})
            /\ UNCHANGED <<linked, hooked, unsure>>
       ELSE GiveUp(q)

(***************************************************************************)
(* Taking a page out of use: disconnectPage() leaves webhookSubscribed as  *)
(* it is, deactivate() clears it.  Neither looks at the answer of Facebook.*)
(***************************************************************************)
ReleaseRead(q, w) ==
    \E r \in RowOf(w), how \in {"disconnect", "deactivate"} :
        Begin(q, [at |-> "unhook", how |-> how, row |-> r])

Unhook(q) ==
    /\ Stage(q, "unhook")
    /\ hooked' \in {hooked, FALSE}
    /\ Set(q, [request[q] EXCEPT !.at = "unhooked"])
    /\ crossed' = (crossed \/ q \in stale)
    /\ UNCHANGED <<linked, page, stale, unsure>>

ReleaseWrite(q) ==
    LET r == request[q].row IN
    /\ Stage(q, "unhooked") /\ request[q].how \in {"disconnect", "deactivate"}
    /\ IF HasRow(r)
       THEN /\ Write(q, [page EXCEPT ![r].on = FALSE,
                          ![r].flag = @ /\ request[q].how = "disconnect"], {r})
            /\ UNCHANGED <<linked, hooked, unsure>>
       ELSE GiveUp(q)

\* disconnectAccount(): the active pages are unsubscribed, then the account goes
\* and its rows with it, active or not.
AccountRead(q, w) ==
    /\ w \in linked
    /\ \E r \in RowOf(w) \cup {NoRow} :
         /\ r = NoRow => \A p \in RowOf(w) : ~page[p].on
         /\ r # NoRow => page[r].on
         /\ Begin(q, [at |-> IF r = NoRow THEN "unhooked" ELSE "unhook",
                      how |-> "account", ws |-> w, row |-> r])

AccountDelete(q) ==
    LET w == request[q].ws IN
    /\ Stage(q, "unhooked") /\ request[q].how = "account"
    /\ IF w \in linked
       THEN /\ Write(q, [r \in PageRow |-> IF r \in RowOf(w) THEN NoPage ELSE page[r]], RowOf(w))
            /\ linked' = linked \ {w} /\ unsure' = unsure \ RowOf(w)
            /\ UNCHANGED hooked
       ELSE GiveUp(q)

(***************************************************************************)
(* reactivate(), checkAndFixWebhook(), and resubscribeWebhooks() for one   *)
(* page, which takes the subscription for granted whatever the answer.     *)
(***************************************************************************)
ReactivateRead(q, w) ==
    \E r \in RowOf(w) : ~page[r].on /\ Begin(q, [at |-> "reactivate", row |-> r, flag |-> FALSE])

\* Slip: the answer of Facebook is taken for granted.
Slip_AlwaysHooked(q) ==
    LET r == request[q].row IN
    /\ Stage(q, "reactivated") /\ HasRow(r)
    /\ Write(q, [page EXCEPT ![r].on = TRUE, ![r].flag = TRUE], {r})
    /\ unsure' = unsure \ {r}
    /\ UNCHANGED <<linked, hooked>>

ReactivateWrite(q) ==
    LET r == request[q].row IN
    /\ Stage(q, "reactivated")
    /\ IF HasRow(r)
       THEN /\ Write(q, [page EXCEPT ![r].on = TRUE, ![r].flag = request[q].flag], {r})
            /\ unsure' = unsure \ {r}
            /\ UNCHANGED <<linked, hooked>>
       ELSE GiveUp(q)

RepairRead(q, w) ==
    \E r \in RowOf(w) : Begin(q, [at |-> "repair", row |-> r, was |-> page[r].flag, flag |-> FALSE])

\* Written only when the answer is not what the row said.
RepairWrite(q) ==
    LET r == request[q].row IN
    /\ Stage(q, "repaired")
    /\ IF HasRow(r) /\ request[q].flag # request[q].was
       THEN /\ Write(q, [page EXCEPT ![r].flag = request[q].flag], {r})
            /\ unsure' = unsure \ {r}
            /\ UNCHANGED <<linked, hooked>>
       ELSE GiveUp(q)

ResubscribeRead(q) ==
    \E r \in PageRow :
        /\ page[r].on /\ ~page[r].flag
        /\ Begin(q, [at |-> "resubscribe", row |-> r, flag |-> FALSE])

ResubscribeWrite(q) ==
    LET r == request[q].row IN
    /\ Stage(q, "resubscribed")
    /\ IF HasRow(r)
       THEN /\ Write(q, [page EXCEPT ![r].flag = TRUE], {r})
            /\ unsure' = IF request[q].flag THEN unsure \ {r} ELSE unsure \cup {r}
            /\ UNCHANGED <<linked, hooked>>
       ELSE GiveUp(q)

(***************************************************************************)
(* The settings of the page, and handlePolicyEnforcement() for an event    *)
(* that was queued while the page was active.                              *)
(***************************************************************************)
SettingsRead(q, w) ==
    \E r \in RowOf(w), on \in BOOLEAN : Begin(q, [at |-> "switch", row |-> r, on |-> on])

PolicyEvent(q) ==
    \E r \in PageRow, on \in BOOLEAN :
        page[r].on /\ Begin(q, [at |-> "switch", row |-> r, on |-> on])

SwitchWrite(q) ==
    LET r == request[q].row IN
    /\ Stage(q, "switch")
    /\ IF HasRow(r)
       THEN /\ Write(q, [page EXCEPT ![r].on = request[q].on], {r})
            /\ unsure' = IF request[q].on THEN unsure \cup {r} ELSE unsure
            /\ UNCHANGED <<linked, hooked>>
       ELSE GiveUp(q)

(***************************************************************************)
(* refreshPageToken(), of the sync of active pages: the token is asked for *)
(* with the account the row had.                                           *)
(***************************************************************************)
RefreshRead(q) ==
    \E r \in PageRow :
        page[r].on /\ Begin(q, [at |-> "refresh", row |-> r, token |-> page[r].ws])

RefreshWrite(q) ==
    LET r == request[q].row IN
    /\ Stage(q, "refresh")
    /\ IF HasRow(r)
       THEN /\ Write(q, [page EXCEPT ![r].token = request[q].token], {r})
            /\ UNCHANGED <<linked, hooked, unsure>>
       ELSE GiveUp(q)

-----------------------------------------------------------------------------
Handle(q) ==
    \/ \E w \in Workspace :
         \/ ConnectRead(q, w) \/ ReleaseRead(q, w) \/ AccountRead(q, w)
         \/ ReactivateRead(q, w) \/ RepairRead(q, w) \/ SettingsRead(q, w)
    \/ SubscribeFor(q) \/ ConnectUpdate(q) \/ \E r \in PageRow : ConnectCreate(q, r)
    \/ Unhook(q) \/ ReleaseWrite(q) \/ AccountDelete(q) \/ ReactivateWrite(q)
    \/ RepairWrite(q) \/ ResubscribeRead(q) \/ ResubscribeWrite(q)
    \/ PolicyEvent(q) \/ SwitchWrite(q)
    \/ RefreshRead(q) \/ RefreshWrite(q) \/ Abandon(q)

PageNext == (\E q \in Request : Handle(q)) \/ \E w \in Workspace : AddAccount(w)

PageSpec == PageInit /\ [][PageNext]_pageVars

-----------------------------------------------------------------------------
(***************************************************************************)
(* Properties.                                                             *)
(***************************************************************************)
PageToken == Workspace \cup {HandedIn(w) : w \in Workspace}

PageValue ==
    [on : BOOLEAN, ws : Workspace, token : PageToken, flag : BOOLEAN] \cup {NoPage}

RequestValue ==
    {Waiting}
        \cup [at : {"connect", "connected"}, ws : Workspace, row : PageRow \cup {NoRow}, flag : BOOLEAN]
        \cup [at : {"unhook", "unhooked"}, how : {"disconnect", "deactivate"}, row : PageRow]
        \cup [at : {"unhook", "unhooked"}, how : {"account"}, ws : Workspace, row : PageRow]
        \cup [at : {"unhooked"}, how : {"account"}, ws : Workspace, row : {NoRow}]
        \cup [at : {"reactivate", "reactivated", "resubscribe", "resubscribed"},
               row : PageRow, flag : BOOLEAN]
        \cup [at : {"repair", "repaired"}, row : PageRow, was : BOOLEAN, flag : BOOLEAN]
        \cup [at : {"switch"}, row : PageRow, on : BOOLEAN]
        \cup [at : {"refresh"}, row : PageRow, token : Workspace]

\* Every variable keeps to its values.
PageTypeOK ==
    /\ linked \subseteq Workspace
    /\ page \in [PageRow -> PageValue]
    /\ hooked \in BOOLEAN /\ crossed \in BOOLEAN
    /\ request \in [Request -> RequestValue]
    /\ stale \subseteq Request /\ unsure \subseteq PageRow

\* A Facebook page has one row, and so one workspace that receives its messages,
\* until a request writes what another one has changed since it was read.
OneRowPerPage == ~crossed => Cardinality({r \in PageRow : HasRow(r)}) <= 1

\* A row's token came with its connection to the workspace it is in, from the
\* account of that workspace or from the client that connected the page: a page
\* that changes hands takes no token along, and no refresh brings one back.
TokenOfOwner ==
    ~crossed => \A r \in PageRow :
                    HasRow(r) => page[r].token \in {page[r].ws, HandedIn(page[r].ws)}

\* An active page that says it is subscribed is, when no request is under way.
\* The exceptions are stale writes, pages made active by the settings or an
\* unblock, releases cut short after the unsubscription, and refusals that
\* resubscribeWebhooks() does not look at.
SubscribedWhileActive ==
    (~crossed /\ \A q \in Request : Stage(q, "ready")) =>
        \A r \in PageRow : (page[r].on /\ page[r].flag /\ r \notin unsure) => hooked
=============================================================================
