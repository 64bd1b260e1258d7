------------------------ MODULE PageConnection_proofs ------------------------
(***************************************************************************)
(* Theorems about PageConnection, for every set of requests, workspaces    *)
(* and rows.                                                               *)
(***************************************************************************)
EXTENDS PageConnection, FiniteSetTheorems, TLAPS

(***************************************************************************)
(* The inductive invariant.  What a request has read is still so until it  *)
(* is stale; without a stale write the page has one row; and an active row *)
(* that says it is subscribed is, or there is a request between the call   *)
(* that took the subscription away and the write that says so.             *)
(***************************************************************************)
StillSo(st) ==
    /\ (st.at # "ready" /\ st.row # NoRow) => HasRow(st.row)
    /\ st.at \in {"connect", "connected"} =>
          IF st.row = NoRow THEN \A r \in PageRow : ~HasRow(r) ELSE ~page[st.row].on
    /\ st.at \in {"reactivate", "reactivated"} => ~page[st.row].on
    /\ st.at = "refresh" => page[st.row].ws = st.token
    /\ (st.at \in {"unhook", "unhooked"} /\ st.how = "account" /\ st.row # NoRow) =>
          page[st.row].on /\ page[st.row].ws = st.ws

FreshReads == \A q \in Request : q \notin stale => StillSo(request[q])

RowsHaveAccounts == \A r \in PageRow : HasRow(r) => page[r].ws \in linked

AtMostOne == \A p, r \in PageRow : (HasRow(p) /\ HasRow(r)) => p = r

TakingAway(q, r) ==
    /\ r \in PageRow /\ Stage(q, "unhooked") /\ request[q].row = r
    /\ request[q].how = "account" => HasRow(r) /\ page[r].on /\ page[r].ws = request[q].ws

Unhooking(r) == \E q \in Request : TakingAway(q, r)

RowHooked(r) ==
    (page[r].on /\ page[r].flag /\ r \notin unsure) => (hooked \/ Unhooking(r))

Answered == {"connected", "reactivated", "repaired", "resubscribed"}

AnswerHooked(q) ==
    (request[q].at \in Answered /\ request[q].flag /\ q \notin stale)
        => (hooked \/ Unhooking(request[q].row))

OneOwner == \A r \in PageRow : HasRow(r) => page[r].token \in {page[r].ws, HandedIn(page[r].ws)}

AllHooked == (\A r \in PageRow : RowHooked(r)) /\ \A q \in Request : AnswerHooked(q)

PageInv ==
    /\ PageTypeOK /\ RowsHaveAccounts /\ FreshReads
    /\ ~crossed => AtMostOne /\ OneOwner /\ AllHooked

-----------------------------------------------------------------------------
(***************************************************************************)
(* Type correctness.                                                       *)
(***************************************************************************)
LEMMA RequestForms ==
    ASSUME PageTypeOK, NEW q \in Request
    PROVE  /\ request[q].at # "ready" => request[q].row \in PageRow \cup {NoRow}
           /\ request[q].at \in {"reactivate", "reactivated", "repair", "repaired", "resubscribe",
                                "resubscribed", "switch", "refresh"} =>
                request[q].row \in PageRow
           /\ request[q].at \in {"connect", "connected"} => request[q].ws \in Workspace
           /\ request[q].at \in {"connect", "connected", "reactivate", "reactivated", "repair", "repaired",
                                "resubscribe", "resubscribed"} =>
                request[q].flag \in BOOLEAN
           /\ request[q].at \in {"unhook", "unhooked"} =>
                \/ /\ request[q].how = "account" /\ request[q].ws \in Workspace
                   /\ request[q].at = "unhook" => request[q].row \in PageRow
                \/ request[q].how \in {"disconnect", "deactivate"} /\ request[q].row \in PageRow
           /\ request[q].at = "switch" => request[q].on \in BOOLEAN
           /\ request[q].at = "refresh" => request[q].token \in Workspace
BY DEF PageTypeOK, RequestValue, Waiting

LEMMA Setting ==
    ASSUME PageTypeOK, NEW q \in Request, NEW st, Set(q, st)
    PROVE  /\ request'[q] = st
           /\ \A d \in Request \ {q} : request'[d] = request[d]
           /\ st \in RequestValue => request' \in [Request -> RequestValue]
BY DEF PageTypeOK, Set

LEMMA RowForms ==
    ASSUME PageTypeOK, NEW r \in PageRow
    PROVE  /\ page[r].on \in BOOLEAN
           /\ page[r].on => HasRow(r)
           /\ HasRow(r) => page[r] \in [on : BOOLEAN, ws : Workspace, token : PageToken, flag : BOOLEAN]
<1>1. page[r] \in PageValue
  BY DEF PageTypeOK
<1>2. CASE page[r] = NoPage
  BY <1>2 DEF NoPage, HasRow
<1>3. CASE page[r] # NoPage
  <2>1. page[r] \in [on : BOOLEAN, ws : Workspace, token : PageToken, flag : BOOLEAN]
    BY <1>1, <1>3 DEF PageValue
  <2> QED
    BY <1>3, <2>1 DEF HasRow
<1> QED
  BY <1>2, <1>3

LEMMA InitTypeOK == PageInit => PageTypeOK
BY DEF PageInit, PageTypeOK, PageValue, RequestValue

LEMMA BeginTypeOK ==
    ASSUME PageTypeOK, NEW q \in Request, NEW st \in RequestValue, Begin(q, st)
    PROVE  PageTypeOK'
<1>1. request' \in [Request -> RequestValue]
  BY Setting DEF Begin
<1> QED
  BY <1>1 DEF Begin, PageTypeOK

LEMMA WriteTypeOK ==
    ASSUME PageTypeOK, NEW q \in Request, NEW new \in [PageRow -> PageValue], NEW rows,
           Write(q, new, rows)
    PROVE  /\ page' \in [PageRow -> PageValue]
           /\ request' \in [Request -> RequestValue]
           /\ stale' \subseteq Request /\ crossed' \in BOOLEAN
<1>1. Waiting \in RequestValue
  BY DEF RequestValue
<1>2. request' \in [Request -> RequestValue]
  BY <1>1, Setting DEF Write, Reply
<1>3. crossed' \in BOOLEAN
  BY DEF Write, PageTypeOK
<1> QED
  BY <1>2, <1>3 DEF Write, PageTypeOK

\* How a request starts: what it remembers of a row is so.
ReadSteps(q) ==
    \/ \E w \in Workspace :
         \/ ConnectRead(q, w) \/ ReleaseRead(q, w) \/ AccountRead(q, w)
         \/ ReactivateRead(q, w) \/ RepairRead(q, w) \/ SettingsRead(q, w)
    \/ PolicyEvent(q) \/ RefreshRead(q) \/ ResubscribeRead(q)

LEMMA ReadsAreSo ==
    ASSUME PageTypeOK, NEW q \in Request, ReadSteps(q)
    PROVE  \E st \in RequestValue :
              /\ Begin(q, st) /\ StillSo(st)
              /\ st.at # "ready" /\ st.at \notin Answered
              /\ st.at = "unhooked" => st.how = "account" /\ st.row = NoRow
<1> USE PageAssumption DEF Answered
<1>1. ASSUME NEW w \in Workspace, ConnectRead(q, w)
      PROVE  \E r \in PageRow \cup {NoRow} :
               /\ IF r = NoRow THEN \A p \in PageRow : ~HasRow(p) ELSE HasRow(r) /\ ~page[r].on
               /\ Begin(q, [at |-> "connect", ws |-> w, row |-> r, flag |-> FALSE])
  BY <1>1 DEF ConnectRead
<1>2. ASSUME NEW w \in Workspace, NEW r \in PageRow \cup {NoRow},
             IF r = NoRow THEN \A p \in PageRow : ~HasRow(p) ELSE HasRow(r) /\ ~page[r].on
      PROVE  /\ [at |-> "connect", ws |-> w, row |-> r, flag |-> FALSE] \in RequestValue
             /\ StillSo([at |-> "connect", ws |-> w, row |-> r, flag |-> FALSE])
  BY <1>2 DEF RequestValue, StillSo
<1>3. ASSUME NEW w \in Workspace, NEW r \in RowOf(w), NEW how \in {"disconnect", "deactivate"}
      PROVE  /\ [at |-> "unhook", how |-> how, row |-> r] \in RequestValue
             /\ StillSo([at |-> "unhook", how |-> how, row |-> r])
  BY <1>3 DEF RowOf, RequestValue, StillSo
<1>4. ASSUME NEW w \in Workspace, NEW r \in RowOf(w), page[r].on
      PROVE  /\ [at |-> "unhook", how |-> "account", ws |-> w, row |-> r] \in RequestValue
             /\ StillSo([at |-> "unhook", how |-> "account", ws |-> w, row |-> r])
             /\ r # NoRow
  BY <1>4 DEF RowOf, RequestValue, StillSo
<1>5. ASSUME NEW w \in Workspace
      PROVE  /\ [at |-> "unhooked", how |-> "account", ws |-> w, row |-> NoRow] \in RequestValue
             /\ StillSo([at |-> "unhooked", how |-> "account", ws |-> w, row |-> NoRow])
  BY DEF RequestValue, StillSo
<1>6. ASSUME NEW w \in Workspace, NEW r \in RowOf(w), ~page[r].on
      PROVE  /\ [at |-> "reactivate", row |-> r, flag |-> FALSE] \in RequestValue
             /\ StillSo([at |-> "reactivate", row |-> r, flag |-> FALSE])
  BY <1>6 DEF RowOf, RequestValue, StillSo
<1>7. ASSUME NEW w \in Workspace, NEW r \in RowOf(w)
      PROVE  /\ [at |-> "repair", row |-> r, was |-> page[r].flag, flag |-> FALSE] \in RequestValue
             /\ StillSo([at |-> "repair", row |-> r, was |-> page[r].flag, flag |-> FALSE])
  <2>1. page[r].flag \in BOOLEAN
    BY RowForms DEF RowOf
  <2> QED
    BY <2>1 DEF RowOf, RequestValue, StillSo
<1>8. ASSUME NEW r \in PageRow, HasRow(r), NEW on \in BOOLEAN
      PROVE  /\ [at |-> "switch", row |-> r, on |-> on] \in RequestValue
             /\ StillSo([at |-> "switch", row |-> r, on |-> on])
  BY <1>8 DEF RequestValue, StillSo
<1>9. ASSUME NEW r \in PageRow, page[r].on
      PROVE  /\ [at |-> "refresh", row |-> r, token |-> page[r].ws] \in RequestValue
             /\ StillSo([at |-> "refresh", row |-> r, token |-> page[r].ws])
  <2>1. HasRow(r) /\ page[r].ws \in Workspace
    BY <1>9, RowForms
  <2> QED
    BY <2>1 DEF RequestValue, StillSo
<1>0. ASSUME NEW r \in PageRow, page[r].on
      PROVE  /\ [at |-> "resubscribe", row |-> r, flag |-> FALSE] \in RequestValue
             /\ StillSo([at |-> "resubscribe", row |-> r, flag |-> FALSE])
  BY <1>0, RowForms DEF RequestValue, StillSo
<1>a. CASE \E w \in Workspace : ConnectRead(q, w)
  BY <1>1, <1>2, <1>a
<1>b. CASE \E w \in Workspace : ReleaseRead(q, w)
  BY <1>3, <1>b DEF ReleaseRead
<1>c. CASE \E w \in Workspace : AccountRead(q, w)
  <2>1. PICK w \in Workspace : AccountRead(q, w)
    BY <1>c
  <2>2. PICK r \in RowOf(w) \cup {NoRow} :
             /\ r # NoRow => page[r].on
             /\ Begin(q, [at |-> IF r = NoRow THEN "unhooked" ELSE "unhook",
                          how |-> "account", ws |-> w, row |-> r])
    BY <2>1 DEF AccountRead
  <2> QED
    BY <1>4, <1>5, <2>2
<1>d. CASE \E w \in Workspace : ReactivateRead(q, w)
  BY <1>6, <1>d DEF ReactivateRead
<1>e. CASE \E w \in Workspace : RepairRead(q, w)
  BY <1>7, <1>e DEF RepairRead
<1>f. CASE \E w \in Workspace : SettingsRead(q, w)
  BY <1>8, <1>f DEF SettingsRead, RowOf
<1>g. CASE PolicyEvent(q)
  BY <1>8, <1>g, RowForms DEF PolicyEvent
<1>h. CASE RefreshRead(q)
  BY <1>9, <1>h DEF RefreshRead
<1>i. CASE ResubscribeRead(q)
  BY <1>0, <1>i DEF ResubscribeRead
<1> QED
  BY <1>a, <1>b, <1>c, <1>d, <1>e, <1>f, <1>g, <1>h, <1>i DEF ReadSteps

\* How a request ends that writes one row that is there.
RowWrites(q) ==
    \/ ConnectUpdate(q) \/ ReleaseWrite(q) \/ ReactivateWrite(q)
    \/ RepairWrite(q) \/ ResubscribeWrite(q) \/ SwitchWrite(q) \/ RefreshWrite(q)

\* What it makes of the row.
NewRow(q, v) ==
    LET st == request[q]  r == st.row IN
    \/ /\ st.at = "connected" /\ v.on /\ v.ws = st.ws /\ v.token \in {st.ws, HandedIn(st.ws)} /\ v.flag = st.flag
       /\ st.ws \in linked /\ unsure' = unsure \ {r}
    \/ /\ st.at = "unhooked" /\ ~v.on /\ v.ws = page[r].ws /\ v.token = page[r].token
       /\ unsure' = unsure
    \/ /\ st.at = "reactivated" /\ v.on /\ v.ws = page[r].ws /\ v.token = page[r].token
       /\ v.flag = st.flag /\ unsure' = unsure \ {r}
    \/ /\ st.at = "repaired" /\ v.on = page[r].on /\ v.ws = page[r].ws /\ v.token = page[r].token
       /\ v.flag = st.flag /\ unsure' = unsure \ {r}
    \/ /\ st.at = "resubscribed" /\ v.on = page[r].on /\ v.ws = page[r].ws
       /\ v.token = page[r].token /\ v.flag
       /\ unsure' = IF st.flag THEN unsure \ {r} ELSE unsure \cup {r}
    \/ /\ st.at = "switch" /\ v.on = st.on /\ v.ws = page[r].ws /\ v.token = page[r].token
       /\ v.flag = page[r].flag
       /\ unsure' = IF st.on THEN unsure \cup {r} ELSE unsure
    \/ /\ st.at = "refresh" /\ v.on = page[r].on /\ v.ws = page[r].ws /\ v.token = st.token
       /\ v.flag = page[r].flag /\ unsure' = unsure

PageRecord == [on : BOOLEAN, ws : Workspace, token : PageToken, flag : BOOLEAN]

Wrote(q) ==
    /\ request[q].row \in PageRow /\ HasRow(request[q].row)
    /\ UNCHANGED <<linked, hooked>>
    /\ \E v \in PageRecord :
         /\ Write(q, [page EXCEPT ![request[q].row] = v], {request[q].row})
         /\ NewRow(q, v)

Threw(q) ==
    /\ GiveUp(q)
    /\ Stage(q, "unhooked") => request[q].how # "account" /\ ~HasRow(request[q].row)

LEMMA OneRowWrites ==
    ASSUME PageTypeOK, NEW q \in Request, RowWrites(q)
    PROVE  Threw(q) \/ Wrote(q)
<1> SUFFICES ASSUME ~Threw(q) PROVE Wrote(q)
  OBVIOUS
<1> DEFINE st == request[q]
           r == st.row
<1> USE DEF Stage
<1>1. CASE ConnectUpdate(q)
  <2>0. PICK t \in {st.ws, HandedIn(st.ws)} :
           /\ Write(q, [page EXCEPT ![r] = [on |-> TRUE, ws |-> st.ws, token |-> t, flag |-> st.flag]], {r})
           /\ st.at = "connected" /\ r # NoRow
    BY <1>1 DEF ConnectUpdate, Threw
  <2> DEFINE v == [on |-> TRUE, ws |-> st.ws, token |-> t, flag |-> st.flag]
  <2>1. /\ Write(q, [page EXCEPT ![r] = v], {r}) /\ unsure' = unsure \ {r}
        /\ UNCHANGED <<linked, hooked>>
        /\ st.at = "connected" /\ r # NoRow /\ HasRow(r) /\ st.ws \in linked
    BY <1>1, <2>0 DEF ConnectUpdate, Allowed, Threw
  <2>2. v \in PageRecord /\ r \in PageRow
    BY <2>1, RequestForms DEF PageRecord, PageToken
  <2> QED
    BY <2>1, <2>2 DEF Wrote, NewRow
<1>2. CASE ReleaseWrite(q)
  <2> DEFINE v == [page[r] EXCEPT !.on = FALSE, !.flag = @ /\ st.how = "disconnect"]
  <2>1. /\ Write(q, [page EXCEPT ![r] = v], {r})
        /\ UNCHANGED <<linked, hooked, unsure>>
        /\ st.at = "unhooked" /\ st.how \in {"disconnect", "deactivate"} /\ HasRow(r)
    BY <1>2 DEF ReleaseWrite, Threw
  <2>2. r \in PageRow
    BY <2>1, RequestForms
  <2>3. page[r] \in PageRecord
    BY <2>1, <2>2, RowForms DEF PageRecord
  <2>4. v \in PageRecord /\ ~v.on /\ v.ws = page[r].ws /\ v.token = page[r].token
    BY <2>3 DEF PageRecord
  <2> QED
    BY <2>1, <2>2, <2>4 DEF Wrote, NewRow
<1>3. CASE ReactivateWrite(q)
  <2> DEFINE v == [page[r] EXCEPT !.on = TRUE, !.flag = st.flag]
  <2>1. /\ Write(q, [page EXCEPT ![r] = v], {r}) /\ unsure' = unsure \ {r}
        /\ UNCHANGED <<linked, hooked>> /\ st.at = "reactivated" /\ HasRow(r)
    BY <1>3 DEF ReactivateWrite, Threw
  <2>2. r \in PageRow /\ st.flag \in BOOLEAN
    BY <2>1, RequestForms
  <2>3. page[r] \in PageRecord
    BY <2>1, <2>2, RowForms DEF PageRecord
  <2>4. v \in PageRecord /\ v.on /\ v.ws = page[r].ws /\ v.token = page[r].token /\ v.flag = st.flag
    BY <2>2, <2>3 DEF PageRecord
  <2> QED
    BY <2>1, <2>2, <2>4 DEF Wrote, NewRow
<1>4. CASE RepairWrite(q)
  <2> DEFINE v == [page[r] EXCEPT !.flag = st.flag]
  <2>1. /\ Write(q, [page EXCEPT ![r] = v], {r}) /\ unsure' = unsure \ {r}
        /\ UNCHANGED <<linked, hooked>> /\ st.at = "repaired" /\ HasRow(r)
    BY <1>4 DEF RepairWrite, Threw
  <2>2. r \in PageRow /\ st.flag \in BOOLEAN
    BY <2>1, RequestForms
  <2>3. page[r] \in PageRecord
    BY <2>1, <2>2, RowForms DEF PageRecord
  <2>4. /\ v \in PageRecord /\ v.on = page[r].on /\ v.ws = page[r].ws
        /\ v.token = page[r].token /\ v.flag = st.flag
    BY <2>2, <2>3 DEF PageRecord
  <2> QED
    BY <2>1, <2>2, <2>4 DEF Wrote, NewRow
<1>5. CASE SwitchWrite(q)
  <2> DEFINE v == [page[r] EXCEPT !.on = st.on]
  <2>1. /\ Write(q, [page EXCEPT ![r] = v], {r})
        /\ unsure' = IF st.on THEN unsure \cup {r} ELSE unsure
        /\ UNCHANGED <<linked, hooked>> /\ st.at = "switch" /\ HasRow(r)
    BY <1>5 DEF SwitchWrite, Threw
  <2>2. r \in PageRow /\ st.on \in BOOLEAN
    BY <2>1, RequestForms
  <2>3. page[r] \in PageRecord
    BY <2>1, <2>2, RowForms DEF PageRecord
  <2>4. /\ v \in PageRecord /\ v.on = st.on /\ v.ws = page[r].ws
        /\ v.token = page[r].token /\ v.flag = page[r].flag
    BY <2>2, <2>3 DEF PageRecord
  <2> QED
    BY <2>1, <2>2, <2>4 DEF Wrote, NewRow
<1>6. CASE RefreshWrite(q)
  <2> DEFINE v == [page[r] EXCEPT !.token = st.token]
  <2>1. /\ Write(q, [page EXCEPT ![r] = v], {r})
        /\ UNCHANGED <<linked, hooked, unsure>> /\ st.at = "refresh" /\ HasRow(r)
    BY <1>6 DEF RefreshWrite, Threw
  <2>2. r \in PageRow /\ st.token \in Workspace
    BY <2>1, RequestForms
  <2>3. page[r] \in PageRecord
    BY <2>1, <2>2, RowForms DEF PageRecord
  <2>4. /\ v \in PageRecord /\ v.on = page[r].on /\ v.ws = page[r].ws
        /\ v.token = st.token /\ v.flag = page[r].flag
    BY <2>2, <2>3 DEF PageRecord, PageToken
  <2> QED
    BY <2>1, <2>2, <2>4 DEF Wrote, NewRow
<1>7. CASE ResubscribeWrite(q)
  <2> DEFINE v == [page[r] EXCEPT !.flag = TRUE]
  <2>1. /\ Write(q, [page EXCEPT ![r] = v], {r})
        /\ unsure' = IF st.flag THEN unsure \ {r} ELSE unsure \cup {r}
        /\ UNCHANGED <<linked, hooked>> /\ st.at = "resubscribed" /\ HasRow(r)
    BY <1>7 DEF ResubscribeWrite, Threw
  <2>2. r \in PageRow
    BY <2>1, RequestForms
  <2>3. page[r] \in PageRecord
    BY <2>1, <2>2, RowForms DEF PageRecord
  <2>4. /\ v \in PageRecord /\ v.on = page[r].on /\ v.ws = page[r].ws
        /\ v.token = page[r].token /\ v.flag
    BY <2>3 DEF PageRecord
  <2> QED
    BY <2>1, <2>2, <2>4 DEF Wrote, NewRow
<1> QED
  BY <1>1, <1>2, <1>3, <1>4, <1>5, <1>6, <1>7 DEF RowWrites

-----------------------------------------------------------------------------
(***************************************************************************)
(* The invariant, one kind of step at a time.                              *)
(***************************************************************************)
\* Who is taking the subscription of a row away still is, after the step of
\* another request that leaves the row's owner and use as they are.
LEMMA StillTakenAway ==
    ASSUME PageTypeOK, NEW q \in Request, NEW r, Unhooking(r), ~TakingAway(q, r),
           \A d \in Request \ {q} : request'[d] = request[d],
           HasRow(r)' = HasRow(r), page'[r].on = page[r].on, page'[r].ws = page[r].ws
    PROVE  Unhooking(r)'
BY DEF Unhooking, TakingAway, Stage

LEMMA PageUnchanged ==
    ASSUME NEW st, UNCHANGED page
    PROVE  StillSo(st)' <=> StillSo(st)
BY DEF StillSo, HasRow

LEMMA ReadInv ==
    ASSUME PageInv, NEW q \in Request, ReadSteps(q)
    PROVE  PageInv'
<1> USE DEF PageInv, Answered
<1>1. PICK st \in RequestValue :
         /\ Begin(q, st) /\ StillSo(st)
         /\ st.at # "ready" /\ st.at \notin Answered
         /\ st.at = "unhooked" => st.how = "account" /\ st.row = NoRow
  BY ReadsAreSo
<1>2. /\ request'[q] = st /\ \A d \in Request \ {q} : request'[d] = request[d]
      /\ Stage(q, "ready") /\ stale' = stale \ {q}
      /\ UNCHANGED <<linked, page, hooked, crossed, unsure>>
  BY <1>1, Setting DEF Begin
<1>3. PageTypeOK'
  BY <1>1, BeginTypeOK
<1>4. RowsHaveAccounts'
  BY <1>2 DEF RowsHaveAccounts, HasRow
<1>5. FreshReads'
  BY <1>1, <1>2, PageUnchanged DEF FreshReads, StillSo, HasRow
<1>6. ASSUME ~crossed PROVE AtMostOne' /\ OneOwner' /\ AllHooked'
  <2>1. \A r \in PageRow : Unhooking(r) => Unhooking(r)'
    BY <1>2, StillTakenAway DEF TakingAway, Stage, HasRow
  <2>2. ASSUME NEW r \in PageRow PROVE RowHooked(r)'
    BY <1>2, <1>6, <2>1 DEF AllHooked, RowHooked
  <2>3. ASSUME NEW d \in Request PROVE AnswerHooked(d)'
    <3>1. CASE d = q
      BY <1>1, <1>2, <3>1 DEF AnswerHooked
    <3>2. CASE d # q
      <4>1. AnswerHooked(d)
        BY <1>6 DEF AllHooked
      <4>2. Unhooking(request[d].row) => request[d].row \in PageRow
        BY DEF Unhooking, TakingAway
      <4> QED
        BY <1>2, <2>1, <3>2, <4>1, <4>2 DEF AnswerHooked
    <3> QED
      BY <3>1, <3>2
  <2>4. AtMostOne' /\ OneOwner'
    BY <1>2, <1>6 DEF AtMostOne, OneOwner, HasRow
  <2> QED
    BY <2>2, <2>3, <2>4 DEF AllHooked
<1> QED
  BY <1>2, <1>3, <1>4, <1>5, <1>6

LEMMA SubscribeInv ==
    ASSUME PageInv, NEW q \in Request, SubscribeFor(q)
    PROVE  PageInv'
<1> USE DEF PageInv, Answered
<1>1. PICK s \in BOOLEAN :
         /\ hooked' \in (IF s THEN {TRUE} ELSE {hooked, TRUE})
         /\ Set(q, [request[q] EXCEPT !.flag = s, !.at = CASE @ = "connect" -> "connected"
                                                           [] @ = "reactivate" -> "reactivated"
                                                           [] @ = "repair" -> "repaired"
                                                           [] @ = "resubscribe" -> "resubscribed"])
  BY DEF SubscribeFor
<1> DEFINE st == [request[q] EXCEPT !.flag = s, !.at = CASE @ = "connect" -> "connected"
                                                      [] @ = "reactivate" -> "reactivated"
                                                      [] @ = "repair" -> "repaired"
                                                      [] @ = "resubscribe" -> "resubscribed"]
<1>2. /\ request[q].at \in {"connect", "reactivate", "repair", "resubscribe"}
      /\ crossed' = (crossed \/ q \in stale)
      /\ UNCHANGED <<linked, page, stale, unsure>>
  BY DEF SubscribeFor
<1>3. /\ st \in RequestValue /\ st.row = request[q].row /\ st.flag = s
      /\ \/ request[q].at = "connect" /\ st.at = "connected"
         \/ request[q].at = "reactivate" /\ st.at = "reactivated"
         \/ request[q].at = "repair" /\ st.at = "repaired"
         \/ request[q].at = "resubscribe" /\ st.at = "resubscribed"
  <2>1. request[q] \in RequestValue
    BY DEF PageTypeOK
  <2>2. CASE request[q].at = "connect"
    <3>1. request[q] \in [at : {"connect", "connected"}, ws : Workspace, row : PageRow \cup {NoRow}, flag : BOOLEAN]
      BY <2>1, <2>2 DEF RequestValue, Waiting
    <3>2. st = [request[q] EXCEPT !.flag = s, !.at = "connected"]
      BY <2>2
    <3> QED
      BY <2>2, <3>1, <3>2 DEF RequestValue
  <2>3. CASE request[q].at = "reactivate"
    <3>1. request[q] \in [at : {"reactivate", "reactivated", "resubscribe", "resubscribed"},
                           row : PageRow, flag : BOOLEAN]
      BY <2>1, <2>3 DEF RequestValue, Waiting
    <3>2. st = [request[q] EXCEPT !.flag = s, !.at = "reactivated"]
      BY <2>3
    <3> QED
      BY <2>3, <3>1, <3>2 DEF RequestValue
  <2>4. CASE request[q].at = "repair"
    <3>1. request[q] \in [at : {"repair", "repaired"}, row : PageRow, was : BOOLEAN, flag : BOOLEAN]
      BY <2>1, <2>4 DEF RequestValue, Waiting
    <3>2. st = [request[q] EXCEPT !.flag = s, !.at = "repaired"]
      BY <2>4
    <3> QED
      BY <2>4, <3>1, <3>2 DEF RequestValue
  <2>5. CASE request[q].at = "resubscribe"
    <3>1. request[q] \in [at : {"reactivate", "reactivated", "resubscribe", "resubscribed"},
                           row : PageRow, flag : BOOLEAN]
      BY <2>1, <2>5 DEF RequestValue, Waiting
    <3>2. st = [request[q] EXCEPT !.flag = s, !.at = "resubscribed"]
      BY <2>5
    <3> QED
      BY <2>5, <3>1, <3>2 DEF RequestValue
  <2> QED
    BY <1>2, <2>2, <2>3, <2>4, <2>5
<1>4. /\ request'[q] = st /\ \A d \in Request \ {q} : request'[d] = request[d]
      /\ request' \in [Request -> RequestValue]
  BY <1>1, <1>3, Setting
<1> HIDE DEF st
<1>5. PageTypeOK'
  BY <1>1, <1>2, <1>4 DEF PageTypeOK
<1>6. RowsHaveAccounts'
  BY <1>2 DEF RowsHaveAccounts, HasRow
<1>7. FreshReads'
  <2>1. StillSo(request[q]) => StillSo(st)
    BY <1>3 DEF StillSo
  <2> QED
    BY <1>2, <1>4, <2>1, PageUnchanged DEF FreshReads, StillSo, HasRow
<1>8. ASSUME ~crossed' PROVE AtMostOne' /\ OneOwner' /\ AllHooked'
  <2>0. ~crossed /\ hooked \in BOOLEAN /\ crossed \in BOOLEAN
    BY <1>2, <1>8 DEF PageTypeOK
  <2>1. \A r \in PageRow : Unhooking(r) => Unhooking(r)'
    BY <1>2, <1>4, StillTakenAway DEF TakingAway, Stage, HasRow
  <2>2. ASSUME NEW r \in PageRow PROVE RowHooked(r)'
    BY <1>1, <1>2, <2>0, <2>1 DEF AllHooked, RowHooked
  <2>3. ASSUME NEW d \in Request PROVE AnswerHooked(d)'
    <3>1. CASE d = q
      BY <1>1, <1>3, <1>4, <3>1 DEF AnswerHooked
    <3>2. CASE d # q
      <4>1. AnswerHooked(d)
        BY <2>0 DEF AllHooked
      <4>2. Unhooking(request[d].row) => request[d].row \in PageRow
        BY DEF Unhooking, TakingAway
      <4> QED
        BY <1>1, <1>2, <1>4, <2>1, <3>2, <4>1, <4>2 DEF AnswerHooked
    <3> QED
      BY <3>1, <3>2
  <2>4. AtMostOne' /\ OneOwner'
    BY <1>2, <2>0 DEF AtMostOne, OneOwner, HasRow
  <2> QED
    BY <2>2, <2>3, <2>4 DEF AllHooked
<1> QED
  BY <1>5, <1>6, <1>7, <1>8

LEMMA UnhookInv ==
    ASSUME PageInv, NEW q \in Request, Unhook(q)
    PROVE  PageInv'
<1> USE DEF PageInv, Answered
<1> DEFINE st == [request[q] EXCEPT !.at = "unhooked"]
<1>1. /\ request[q].at = "unhook" /\ Set(q, st)
      /\ hooked' \in BOOLEAN /\ crossed' = (crossed \/ q \in stale)
      /\ UNCHANGED <<linked, page, stale, unsure>>
  BY DEF Unhook, PageTypeOK, Stage
<1>2. /\ st \in RequestValue /\ st.at = "unhooked" /\ st.row = request[q].row
      /\ st.how = request[q].how /\ (st.how = "account" => st.ws = request[q].ws)
      /\ st.row \in PageRow
  <2>1. request[q] \in RequestValue
    BY DEF PageTypeOK
  <2>2. \/ request[q] \in [at : {"unhook", "unhooked"}, how : {"disconnect", "deactivate"}, row : PageRow]
        \/ request[q] \in [at : {"unhook", "unhooked"}, how : {"account"}, ws : Workspace, row : PageRow]
    BY <1>1, <2>1 DEF RequestValue, Waiting
  <2> QED
    BY <2>2 DEF RequestValue
<1>3. /\ request'[q] = st /\ \A d \in Request \ {q} : request'[d] = request[d]
      /\ request' \in [Request -> RequestValue]
  BY <1>1, <1>2, Setting
<1> HIDE DEF st
<1>4. PageTypeOK'
  BY <1>1, <1>3 DEF PageTypeOK
<1>5. RowsHaveAccounts'
  BY <1>1 DEF RowsHaveAccounts, HasRow
<1>6. FreshReads'
  <2>1. StillSo(request[q]) => StillSo(st)
    BY <1>1, <1>2 DEF StillSo
  <2> QED
    BY <1>1, <1>3, <2>1, PageUnchanged DEF FreshReads, StillSo, HasRow
<1>7. ASSUME ~crossed' PROVE AtMostOne' /\ OneOwner' /\ AllHooked'
  <2>1. ~crossed /\ q \notin stale
    BY <1>1, <1>7 DEF PageTypeOK
  <2>0. PICK r \in PageRow : r = request[q].row
    BY <1>2
  <2>2. /\ HasRow(r) /\ r # NoRow
        /\ request[q].how = "account" => page[r].on /\ page[r].ws = request[q].ws
    BY <1>1, <1>2, <2>0, <2>1, PageAssumption DEF FreshReads, StillSo
  <2>3. Unhooking(r)'
    BY <1>1, <1>2, <1>3, <2>0, <2>2 DEF Unhooking, TakingAway, Stage, HasRow
  <2>4. \A p \in PageRow : HasRow(p) => p = r
    BY <2>1, <2>2 DEF AtMostOne
  <2>5. ASSUME NEW p \in PageRow PROVE RowHooked(p)'
    <3>1. page[p].on => p = r
      BY <2>4, RowForms
    <3> QED
      BY <1>1, <2>3, <3>1 DEF RowHooked
  <2>6. ASSUME NEW d \in Request PROVE AnswerHooked(d)'
    <3>1. SUFFICES ASSUME request'[d].at \in Answered, d \notin stale
                   PROVE  request'[d].row = r
      BY <1>1, <2>3 DEF AnswerHooked
    <3>2. d # q /\ request'[d] = request[d]
      BY <1>2, <1>3, <3>1
    <3>3. StillSo(request[d])
      BY <3>1 DEF FreshReads
    <3>4. request[d].row # NoRow
      BY <2>2, <3>1, <3>2, <3>3, RequestForms, PageAssumption DEF StillSo
    <3>5. request[d].row \in PageRow /\ HasRow(request[d].row)
      BY <3>1, <3>2, <3>3, <3>4, RequestForms DEF StillSo
    <3> QED
      BY <2>4, <3>2, <3>5
  <2>7. AtMostOne' /\ OneOwner'
    BY <1>1, <2>1 DEF AtMostOne, OneOwner, HasRow
  <2> QED
    BY <2>5, <2>6, <2>7 DEF AllHooked
<1> QED
  BY <1>4, <1>5, <1>6, <1>7

\* A request that throws: it was to write a row that is gone, or for an account
\* that is gone.
LEMMA GiveUpInv ==
    ASSUME PageInv, NEW q \in Request, GiveUp(q),
           Stage(q, "unhooked") =>
             \/ request[q].row = NoRow \/ ~HasRow(request[q].row)
             \/ request[q].how = "account" /\ request[q].ws \notin linked
    PROVE  PageInv'
<1> USE DEF PageInv, Answered
<1>1. /\ request'[q] = Waiting /\ \A d \in Request \ {q} : request'[d] = request[d]
      /\ request' \in [Request -> RequestValue]
      /\ UNCHANGED <<linked, page, hooked, stale, crossed, unsure>>
  BY Setting DEF GiveUp, Reply, pageGhosts, RequestValue
<1>2. PageTypeOK' /\ RowsHaveAccounts'
  BY <1>1 DEF PageTypeOK, RowsHaveAccounts, HasRow
<1>3. FreshReads'
  BY <1>1, PageUnchanged DEF FreshReads, StillSo, HasRow, Waiting
<1>4. ASSUME ~crossed PROVE AtMostOne' /\ OneOwner' /\ AllHooked'
  <2>1. ASSUME NEW r \in PageRow, HasRow(r), Unhooking(r) PROVE Unhooking(r)'
    <3>1. ~TakingAway(q, r)
      BY <2>1, PageAssumption DEF TakingAway, RowsHaveAccounts
    <3> QED
      BY <1>1, <2>1, <3>1, StillTakenAway DEF HasRow
  <2>2. ASSUME NEW r \in PageRow PROVE RowHooked(r)'
    BY <1>1, <1>4, <2>1, RowForms DEF AllHooked, RowHooked
  <2>3. ASSUME NEW d \in Request PROVE AnswerHooked(d)'
    <3>1. CASE d = q
      BY <1>1, <3>1 DEF AnswerHooked, Waiting
    <3>2. CASE d # q
      <4>1. AnswerHooked(d)
        BY <1>4 DEF AllHooked
      <4>2. Unhooking(request[d].row) => request[d].row \in PageRow
        BY DEF Unhooking, TakingAway
      <4>3. (request[d].at \in Answered /\ d \notin stale
               /\ request[d].row \in PageRow) => HasRow(request[d].row)
        BY PageAssumption DEF FreshReads, StillSo
      <4> QED
        BY <1>1, <2>1, <3>2, <4>1, <4>2, <4>3 DEF AnswerHooked
    <3> QED
      BY <3>1, <3>2
  <2>4. AtMostOne' /\ OneOwner'
    BY <1>1, <1>4 DEF AtMostOne, OneOwner, HasRow
  <2> QED
    BY <2>2, <2>3, <2>4 DEF AllHooked
<1> QED
  BY <1>1, <1>2, <1>3, <1>4

\* A request cut short after the unsubscription leaves its row in doubt, and
\* whoever has read the row with it.
LEMMA AbandonInv ==
    ASSUME PageInv, NEW q \in Request, Abandon(q),
           Stage(q, "unhooked"), request[q].row # NoRow, HasRow(request[q].row)
    PROVE  PageInv'
<1> USE DEF PageInv, Answered
<1>0. PICK r \in PageRow : r = request[q].row
  BY RequestForms DEF Stage
<1>1. /\ request'[q] = Waiting /\ \A d \in Request \ {q} : request'[d] = request[d]
      /\ request' \in [Request -> RequestValue]
      /\ UNCHANGED <<linked, page, hooked, crossed>>
      /\ unsure' = unsure \cup {r}
      /\ stale' = stale \cup {d \in Request \ {q} : ~Stage(d, "ready") /\ request[d].row = r}
  BY <1>0, Setting DEF Abandon, Reply, RequestValue
<1>2. PageTypeOK' /\ RowsHaveAccounts'
  BY <1>1 DEF PageTypeOK, RowsHaveAccounts, HasRow
<1>3. FreshReads'
  BY <1>1, PageUnchanged DEF FreshReads, StillSo, HasRow, Waiting
<1>4. ASSUME ~crossed PROVE AtMostOne' /\ OneOwner' /\ AllHooked'
  <2>1. ASSUME NEW p \in PageRow, p # r, Unhooking(p) PROVE Unhooking(p)'
    <3>1. ~TakingAway(q, p)
      BY <1>0, <2>1 DEF TakingAway
    <3> QED
      BY <1>1, <2>1, <3>1, StillTakenAway DEF HasRow
  <2>2. ASSUME NEW p \in PageRow PROVE RowHooked(p)'
    BY <1>1, <1>4, <2>1 DEF AllHooked, RowHooked
  <2>3. ASSUME NEW d \in Request PROVE AnswerHooked(d)'
    <3>1. CASE d = q
      BY <1>1, <3>1 DEF AnswerHooked, Answered, Waiting
    <3>2. CASE d # q
      <4>1. AnswerHooked(d)
        BY <1>4 DEF AllHooked
      <4>2. Unhooking(request[d].row) => request[d].row \in PageRow
        BY DEF Unhooking, TakingAway
      <4>3. (request[d].at \in Answered /\ d \notin stale') => request[d].row # r /\ d \notin stale
        BY <1>1, <3>2 DEF Stage, Answered
      <4> QED
        BY <1>1, <2>1, <3>2, <4>1, <4>2, <4>3 DEF AnswerHooked
    <3> QED
      BY <3>1, <3>2
  <2>4. AtMostOne' /\ OneOwner'
    BY <1>1, <1>4 DEF AtMostOne, OneOwner, HasRow
  <2> QED
    BY <2>2, <2>3, <2>4 DEF AllHooked
<1> QED
  BY <1>1, <1>2, <1>3, <1>4

LEMMA RowWriteInv ==
    ASSUME PageInv, NEW q \in Request, Wrote(q)
    PROVE  PageInv'
<1> USE DEF PageInv, Answered
<1>0. PICK r \in PageRow : r = request[q].row
  BY DEF Wrote
<1>1. HasRow(r) /\ UNCHANGED <<linked, hooked>> /\ r # NoRow
  BY <1>0, PageAssumption DEF Wrote
<1>2. PICK v \in PageRecord : Write(q, [page EXCEPT ![r] = v], {r}) /\ NewRow(q, v)
  BY <1>0 DEF Wrote
<1>3. v \in PageValue /\ v # NoPage
  BY DEF PageRecord, PageValue, NoPage
<1>4. /\ page'[r] = v /\ \A p \in PageRow \ {r} : page'[p] = page[p]
      /\ crossed' = (crossed \/ q \in stale)
      /\ stale' = stale \cup {d \in Request \ {q} : ~Stage(d, "ready") /\ request[d].row \in {r}}
  BY <1>1, <1>2 DEF Write, PageTypeOK
<1>5. request'[q] = Waiting /\ \A d \in Request \ {q} : request'[d] = request[d]
  BY <1>2, Setting DEF Write, Reply
<1>6. PageTypeOK'
  <2>1. [page EXCEPT ![r] = v] \in [PageRow -> PageValue]
    BY <1>3 DEF PageTypeOK
  <2>2. unsure' \subseteq PageRow
    BY <1>0, <1>1, <1>2 DEF NewRow, PageTypeOK
  <2> QED
    BY <1>1, <1>2, <2>1, <2>2, WriteTypeOK DEF PageTypeOK
<1>7. \A p \in PageRow : HasRow(p)' <=> HasRow(p)
  BY <1>1, <1>3, <1>4 DEF HasRow
<1>8. RowsHaveAccounts'
  BY <1>0, <1>1, <1>2, <1>4, <1>7 DEF RowsHaveAccounts, NewRow
<1>9. FreshReads'
  <2> SUFFICES ASSUME NEW d \in Request, d \notin stale' PROVE StillSo(request[d])'
    BY DEF FreshReads
  <2>1. CASE d = q
    BY <1>0, <1>5, <2>1 DEF StillSo, Waiting
  <2>2. CASE d # q
    <3>1. /\ StillSo(request[d]) /\ request'[d] = request[d]
          /\ request[d].at # "ready" => request[d].row # r /\ request[d].row \in PageRow \cup {NoRow}
      BY <1>4, <1>5, <2>2, RequestForms DEF FreshReads, Stage
    <3>2. request[d].at \in {"reactivate", "reactivated", "refresh"} => request[d].row \in PageRow
      BY RequestForms
    <3> QED
      BY <1>0, <1>4, <1>7, <3>1, <3>2 DEF StillSo
  <2> QED
    BY <2>1, <2>2
<1>10. ASSUME ~crossed' PROVE AtMostOne' /\ OneOwner' /\ AllHooked'
  <2>1. ~crossed /\ StillSo(request[q]) /\ hooked \in BOOLEAN
    BY <1>4, <1>10 DEF FreshReads, PageTypeOK
  <2>2. \A p \in PageRow : HasRow(p) => p = r
    BY <1>1, <2>1 DEF AtMostOne
  <2>3. AtMostOne'
    BY <1>7, <2>1 DEF AtMostOne
  <2>4. OneOwner'
    <3>1. v.token \in {v.ws, HandedIn(v.ws)}
      BY <1>0, <1>1, <1>2, <2>1 DEF NewRow, StillSo, OneOwner
    <3> QED
      BY <1>4, <1>7, <2>2, <3>1 DEF OneOwner
  <2>5. ASSUME NEW d \in Request, TakingAway(d, r), d # q,
               v.on = page[r].on \/ ~page[r].on, v.ws = page[r].ws \/ ~page[r].on
        PROVE  Unhooking(r)'
    BY <1>1, <1>4, <1>5, <1>7, <2>5 DEF Unhooking, TakingAway, Stage
  <2>6. RowHooked(r)'
    <3> SUFFICES ASSUME v.on, v.flag, r \notin unsure', ~hooked PROVE Unhooking(r)'
      BY <1>0, <1>1, <1>4 DEF RowHooked
    <3>1. AnswerHooked(q) /\ RowHooked(r)
      BY <1>1, <2>1 DEF AllHooked
    <3>2. ~Stage(q, "unhooked")
      BY <1>0, <1>2 DEF NewRow, Stage
    <3>3. q \notin stale
      BY <1>4, <1>10
    <3>4. CASE request[q].at \in Answered
      <4>1. request[q].flag
        BY <1>0, <1>2, <3>4 DEF NewRow
      <4>2. PICK d \in Request : TakingAway(d, r)
        BY <1>0, <3>1, <3>3, <3>4, <4>1 DEF AnswerHooked, Unhooking
      <4>3. \/ ~page[r].on
            \/ v.on = page[r].on /\ v.ws = page[r].ws
        BY <1>0, <1>1, <1>2, <2>1, <3>4 DEF NewRow, StillSo
      <4> QED
        BY <2>5, <3>2, <4>2, <4>3 DEF TakingAway
    <3>5. CASE request[q].at \notin Answered
      <4>1. page[r].on /\ page[r].flag /\ r \notin unsure /\ v.on = page[r].on /\ v.ws = page[r].ws
        BY <1>0, <1>2, <3>5 DEF NewRow
      <4>2. PICK d \in Request : TakingAway(d, r)
        BY <1>0, <3>1, <4>1 DEF RowHooked, Unhooking
      <4> QED
        BY <2>5, <3>2, <4>1, <4>2 DEF TakingAway
    <3> QED
      BY <3>4, <3>5
  <2>7. ASSUME NEW p \in PageRow PROVE RowHooked(p)'
    <3>1. p # r => ~page'[p].on
      BY <1>4, <2>2, RowForms
    <3> QED
      BY <1>0, <2>6, <3>1 DEF RowHooked
  <2>8. ASSUME NEW d \in Request PROVE AnswerHooked(d)'
    <3> SUFFICES ASSUME request'[d].at \in Answered, d \notin stale'
                 PROVE  FALSE
      BY DEF AnswerHooked
    <3>1. d # q /\ request'[d] = request[d] /\ d \notin stale
      BY <1>4, <1>5 DEF Waiting
    <3>2. StillSo(request[d]) /\ request[d].row # r /\ request[d].row \in PageRow \cup {NoRow}
      BY <1>4, <3>1, RequestForms DEF FreshReads, Stage
    <3> QED
      BY <1>0, <1>1, <2>2, <3>1, <3>2, PageAssumption, RequestForms DEF StillSo
  <2> QED
    BY <2>3, <2>4, <2>7, <2>8 DEF AllHooked
<1> QED
  BY <1>6, <1>8, <1>9, <1>10

LEMMA CreateInv ==
    ASSUME PageInv, NEW q \in Request, NEW r \in PageRow, ConnectCreate(q, r), ~GiveUp(q)
    PROVE  PageInv'
<1> USE DEF PageInv, Answered
<1>0. PICK t \in {request[q].ws, HandedIn(request[q].ws)} :
         Write(q, [page EXCEPT ![r] = [on |-> TRUE, ws |-> request[q].ws, token |-> t,
                                           flag |-> request[q].flag]], {NoRow})
  BY DEF ConnectCreate
<1>1. PICK v : v = [on |-> TRUE, ws |-> request[q].ws, token |-> t, flag |-> request[q].flag]
  OBVIOUS
<1>2. /\ Write(q, [page EXCEPT ![r] = v], {NoRow})
      /\ request[q].at = "connected" /\ request[q].row = NoRow /\ ~HasRow(r)
      /\ request[q].ws \in linked
      /\ UNCHANGED <<linked, hooked, unsure>>
  BY <1>0, <1>1 DEF ConnectCreate, Allowed, Stage
<1>3. v \in PageValue /\ v # NoPage
  <2>1. v \in PageRecord
    BY <1>1, <1>2, RequestForms DEF PageRecord, PageToken
  <2> QED
    BY <2>1 DEF PageRecord, PageValue, NoPage
<1>4. /\ page'[r] = v /\ \A p \in PageRow \ {r} : page'[p] = page[p]
      /\ crossed' = (crossed \/ q \in stale)
      /\ stale' = stale \cup {d \in Request \ {q} : ~Stage(d, "ready") /\ request[d].row \in {NoRow}}
  BY <1>2 DEF Write, PageTypeOK
<1>5. request'[q] = Waiting /\ \A d \in Request \ {q} : request'[d] = request[d]
  BY <1>2, Setting DEF Write, Reply
<1>6. PageTypeOK'
  <2>1. [page EXCEPT ![r] = v] \in [PageRow -> PageValue]
    BY <1>3 DEF PageTypeOK
  <2> QED
    BY <1>2, <2>1, WriteTypeOK DEF PageTypeOK
<1>7. HasRow(r)' /\ \A p \in PageRow \ {r} : HasRow(p)' <=> HasRow(p)
  BY <1>3, <1>4 DEF HasRow
<1>8. RowsHaveAccounts'
  BY <1>1, <1>2, <1>4, <1>7 DEF RowsHaveAccounts
<1>9. \A d \in Request : (d \notin stale' /\ request'[d].at # "ready") =>
         /\ d # q /\ request'[d] = request[d] /\ d \notin stale /\ StillSo(request[d])
         /\ request[d].row \in PageRow \ {r}
  BY <1>2, <1>4, <1>5, RequestForms DEF FreshReads, Stage, StillSo, Waiting
<1>10. FreshReads'
  <2> SUFFICES ASSUME NEW d \in Request, d \notin stale' PROVE StillSo(request[d])'
    BY DEF FreshReads
  <2>1. CASE request'[d].at = "ready"
    BY <2>1 DEF StillSo
  <2>2. CASE request'[d].at # "ready"
    BY <1>4, <1>7, <1>9, <2>2, PageAssumption DEF StillSo
  <2> QED
    BY <2>1, <2>2
<1>11. ASSUME ~crossed' PROVE AtMostOne' /\ OneOwner' /\ AllHooked'
  <2>1. ~crossed /\ q \notin stale
    BY <1>4, <1>11
  <2>2. \A p \in PageRow : ~HasRow(p)
    BY <1>2, <2>1 DEF FreshReads, StillSo
  <2>3. AtMostOne'
    BY <1>7, <2>2 DEF AtMostOne
  <2>4. OneOwner'
    BY <1>1, <1>4, <1>7, <2>2 DEF OneOwner
  <2>5. ASSUME NEW p \in PageRow PROVE RowHooked(p)'
    <3>1. CASE p = r
      <4>1. AnswerHooked(q) /\ ~Unhooking(NoRow)
        BY <2>1, PageAssumption DEF AllHooked, Unhooking, TakingAway
      <4> QED
        BY <1>1, <1>2, <1>4, <2>1, <3>1, <4>1 DEF AnswerHooked, RowHooked
    <3>2. CASE p # r
      BY <1>4, <2>2, <3>2, RowForms DEF RowHooked
    <3> QED
      BY <3>1, <3>2
  <2>6. ASSUME NEW d \in Request PROVE AnswerHooked(d)'
    BY <1>9, <2>2, PageAssumption DEF AnswerHooked, StillSo
  <2> QED
    BY <2>3, <2>4, <2>5, <2>6 DEF AllHooked
<1> QED
  BY <1>6, <1>8, <1>10, <1>11

LEMMA AccountDeleteInv ==
    ASSUME PageInv, NEW q \in Request, AccountDelete(q), ~GiveUp(q)
    PROVE  PageInv'
<1> USE DEF PageInv, Answered
<1>0. PICK w : w = request[q].ws
  OBVIOUS
<1> DEFINE new == [r \in PageRow |-> IF r \in RowOf(w) THEN NoPage ELSE page[r]]
<1>1. /\ Write(q, new, RowOf(w))
      /\ request[q].at = "unhooked" /\ request[q].how = "account"
      /\ w \in linked /\ linked' = linked \ {w} /\ unsure' = unsure \ RowOf(w)
      /\ UNCHANGED hooked
  BY <1>0 DEF AccountDelete, Stage
<1>2. /\ \A p \in PageRow : page'[p] = IF p \in RowOf(w) THEN NoPage ELSE page[p]
      /\ crossed' = (crossed \/ q \in stale)
      /\ stale' = stale \cup {d \in Request \ {q} : ~Stage(d, "ready") /\ request[d].row \in RowOf(w)}
  BY <1>1 DEF Write
<1>3. request'[q] = Waiting /\ \A d \in Request \ {q} : request'[d] = request[d]
  BY <1>1, Setting DEF Write, Reply
<1>4. PageTypeOK'
  <2>1. new \in [PageRow -> PageValue]
    BY DEF PageTypeOK, PageValue
  <2>2. linked' \subseteq Workspace /\ unsure' \subseteq PageRow /\ hooked' \in BOOLEAN
    BY <1>1 DEF PageTypeOK
  <2> QED
    BY <1>1, <2>1, <2>2, WriteTypeOK DEF PageTypeOK
<1>5. \A p \in PageRow : HasRow(p)' => HasRow(p) /\ page'[p] = page[p] /\ page[p].ws # w
  BY <1>2 DEF HasRow, RowOf
<1>6. \A p \in PageRow \ RowOf(w) : page'[p] = page[p] /\ (HasRow(p)' <=> HasRow(p))
  BY <1>2 DEF HasRow
<1>7. RowsHaveAccounts'
  BY <1>1, <1>5 DEF RowsHaveAccounts
<1>8. \A d \in Request : (d \notin stale' /\ request'[d].at # "ready") =>
         /\ d # q /\ request'[d] = request[d] /\ d \notin stale /\ StillSo(request[d])
         /\ request[d].row \in (PageRow \ RowOf(w)) \cup {NoRow}
  BY <1>2, <1>3, RequestForms DEF FreshReads, Stage, Waiting
<1>9. FreshReads'
  <2> SUFFICES ASSUME NEW d \in Request, d \notin stale' PROVE StillSo(request[d])'
    BY DEF FreshReads
  <2>1. CASE request'[d].at = "ready"
    BY <2>1 DEF StillSo
  <2>2. CASE request'[d].at # "ready"
    <3>1. /\ d # q /\ request'[d] = request[d] /\ StillSo(request[d])
          /\ request[d].row \in (PageRow \ RowOf(w)) \cup {NoRow}
          /\ request[d].at \in {"reactivate", "reactivated", "refresh"} => request[d].row \in PageRow
      BY <1>8, <2>2, RequestForms
    <3> QED
      BY <1>5, <1>6, <3>1, PageAssumption DEF StillSo
  <2> QED
    BY <2>1, <2>2
<1>10. ASSUME ~crossed' PROVE AtMostOne' /\ OneOwner' /\ AllHooked'
  <2>1. ~crossed
    BY <1>2, <1>10 DEF PageTypeOK
  <2>2. AtMostOne' /\ OneOwner'
    BY <1>5, <2>1 DEF AtMostOne, OneOwner
  <2>3. ASSUME NEW p \in PageRow, HasRow(p)', Unhooking(p) PROVE Unhooking(p)'
    <3>1. HasRow(p) /\ page'[p] = page[p] /\ page[p].ws # w
      BY <1>5, <2>3
    <3>2. ~TakingAway(q, p)
      BY <1>0, <1>1, <3>1 DEF TakingAway
    <3> QED
      BY <1>3, <2>3, <3>1, <3>2, StillTakenAway
  <2>4. ASSUME NEW p \in PageRow PROVE RowHooked(p)'
    <3>1. CASE HasRow(p)'
      <4>1. page'[p] = page[p] /\ p \notin RowOf(w)
        BY <1>5, <3>1 DEF RowOf
      <4>2. RowHooked(p)
        BY <2>1 DEF AllHooked
      <4> QED
        BY <1>1, <2>3, <3>1, <4>1, <4>2 DEF RowHooked
    <3>2. CASE ~HasRow(p)'
      BY <3>2 DEF HasRow, NoPage, RowHooked
    <3> QED
      BY <3>1, <3>2
  <2>5. ASSUME NEW d \in Request PROVE AnswerHooked(d)'
    <3> SUFFICES ASSUME request'[d].at \in Answered, d \notin stale',
                        request'[d].flag, ~hooked
                 PROVE  Unhooking(request[d].row)'
      BY <1>1 DEF AnswerHooked
    <3>1. d # q /\ request'[d] = request[d] /\ d \notin stale /\ StillSo(request[d])
          /\ request[d].row \in (PageRow \ RowOf(w)) \cup {NoRow}
      BY <1>8
    <3>2. Unhooking(request[d].row)
      BY <2>1, <3>1 DEF AllHooked, AnswerHooked
    <3>3. PICK p \in PageRow : p = request[d].row
      BY <3>2 DEF Unhooking, TakingAway
    <3>4. HasRow(p)'
      BY <1>6, <3>1, <3>3, PageAssumption DEF StillSo
    <3>5. Unhooking(p)'
      BY <2>3, <3>2, <3>3, <3>4
    <3> QED
      BY <3>1, <3>3, <3>5
  <2> QED
    BY <2>2, <2>4, <2>5 DEF AllHooked
<1> QED
  BY <1>4, <1>7, <1>9, <1>10

LEMMA InitPageInv == PageInit => PageInv
<1> SUFFICES ASSUME PageInit PROVE PageInv
  OBVIOUS
<1>1. \A r \in PageRow : ~HasRow(r) /\ ~page[r].on
  BY DEF PageInit, HasRow, NoPage
<1>2. \A q \in Request : request[q].at = "ready"
  BY DEF PageInit, Waiting
<1>3. RowsHaveAccounts /\ AtMostOne /\ OneOwner
  BY <1>1 DEF RowsHaveAccounts, AtMostOne, OneOwner
<1>4. FreshReads /\ AllHooked
  BY <1>1, <1>2 DEF FreshReads, StillSo, AllHooked, RowHooked, AnswerHooked, Answered
<1> QED
  BY <1>3, <1>4, InitTypeOK DEF PageInv

LEMMA NextPageInv == PageInv /\ [PageNext]_pageVars => PageInv'
<1> SUFFICES ASSUME PageInv, [PageNext]_pageVars PROVE PageInv'
  OBVIOUS
<1>1. ASSUME NEW q \in Request, ReadSteps(q) PROVE PageInv'
  BY <1>1, ReadInv
<1>2. ASSUME NEW q \in Request, SubscribeFor(q) \/ Unhook(q) PROVE PageInv'
  BY <1>2, SubscribeInv, UnhookInv
<1>3. ASSUME NEW q \in Request, RowWrites(q) PROVE PageInv'
  <2>1. CASE Threw(q)
    BY <2>1, GiveUpInv DEF Threw
  <2>2. CASE Wrote(q)
    BY <2>2, RowWriteInv
  <2> QED
    BY <1>3, <2>1, <2>2, OneRowWrites DEF PageInv
<1>4. ASSUME NEW q \in Request, NEW r \in PageRow, ConnectCreate(q, r) PROVE PageInv'
  <2>1. ~Stage(q, "unhooked")
    BY <1>4 DEF ConnectCreate, Stage
  <2> QED
    BY <1>4, <2>1, GiveUpInv, CreateInv
<1>5. ASSUME NEW q \in Request, AccountDelete(q) PROVE PageInv'
  <2>1. CASE GiveUp(q)
    <3>1. request[q].how = "account" /\ request[q].ws \notin linked
      BY <1>5, <2>1 DEF AccountDelete, GiveUp
    <3> QED
      BY <2>1, <3>1, GiveUpInv
  <2> QED
    BY <1>5, <2>1, AccountDeleteInv
<1>6. ASSUME NEW w \in Workspace, AddAccount(w) PROVE PageInv'
  <2>1. /\ UNCHANGED <<page, hooked, request, stale, crossed, unsure>>
        /\ linked' = linked \cup {w}
    BY <1>6 DEF AddAccount, pageGhosts
  <2>2. PageTypeOK' /\ RowsHaveAccounts'
    BY <2>1 DEF PageInv, PageTypeOK, RowsHaveAccounts, HasRow
  <2>3. FreshReads' /\ (AtMostOne' <=> AtMostOne) /\ (OneOwner' <=> OneOwner)
    BY <2>1 DEF PageInv, FreshReads, StillSo, HasRow, AtMostOne, OneOwner
  <2>4. AllHooked' <=> AllHooked
    BY <2>1 DEF AllHooked, RowHooked, AnswerHooked, Unhooking, TakingAway, Stage, HasRow
  <2> QED
    BY <2>1, <2>2, <2>3, <2>4 DEF PageInv
<1>8. ASSUME NEW q \in Request, Abandon(q) PROVE PageInv'
  <2>1. CASE Stage(q, "unhooked") /\ request[q].row # NoRow /\ HasRow(request[q].row)
    BY <1>8, <2>1, AbandonInv
  <2>2. CASE ~(Stage(q, "unhooked") /\ request[q].row # NoRow /\ HasRow(request[q].row))
    <3>1. GiveUp(q)
      BY <1>8, <2>2 DEF Abandon, GiveUp, pageGhosts
    <3> QED
      BY <2>2, <3>1, GiveUpInv
  <2> QED
    BY <2>1, <2>2
<1>7. CASE UNCHANGED pageVars
  <2>1. UNCHANGED <<linked, page, hooked, request, stale, crossed, unsure>>
    BY <1>7 DEF pageVars, pageGhosts
  <2>2. PageTypeOK' /\ RowsHaveAccounts'
    BY <2>1 DEF PageInv, PageTypeOK, RowsHaveAccounts, HasRow
  <2>3. FreshReads' /\ (AtMostOne' <=> AtMostOne) /\ (OneOwner' <=> OneOwner)
    BY <2>1 DEF PageInv, FreshReads, StillSo, HasRow, AtMostOne, OneOwner
  <2>4. AllHooked' <=> AllHooked
    BY <2>1 DEF AllHooked, RowHooked, AnswerHooked, Unhooking, TakingAway, Stage, HasRow
  <2> QED
    BY <2>1, <2>2, <2>3, <2>4 DEF PageInv
<1> QED
  BY <1>1, <1>2, <1>3, <1>4, <1>5, <1>6, <1>7, <1>8 DEF PageNext, Handle, ReadSteps, RowWrites

-----------------------------------------------------------------------------
THEOREM PageInvariant == PageSpec => []PageInv
BY InitPageInv, NextPageInv, PTL DEF PageSpec

\* Every variable keeps to the values the code can give it.
THEOREM TypeCorrect == PageSpec => []PageTypeOK
<1>1. PageInv => PageTypeOK
  BY DEF PageInv
<1> QED
  BY <1>1, PageInvariant, PTL

\* The page has one row until a request writes what another has changed since it
\* was read, for any number of requests and workspaces.
THEOREM PageHasOneRow == PageSpec => []OneRowPerPage
<1>1. PageInv => OneRowPerPage
  <2> SUFFICES ASSUME PageInv, ~crossed
               PROVE  Cardinality({r \in PageRow : HasRow(r)}) <= 1
    BY DEF OneRowPerPage
  <2>1. AtMostOne
    BY DEF PageInv
  <2>2. CASE \A r \in PageRow : ~HasRow(r)
    <3>1. {r \in PageRow : HasRow(r)} = {}
      BY <2>2
    <3> QED
      BY <3>1, FS_EmptySet
  <2>3. CASE \E r \in PageRow : HasRow(r)
    <3>1. PICK p \in PageRow : {r \in PageRow : HasRow(r)} = {p}
      BY <2>1, <2>3 DEF AtMostOne
    <3>2. Cardinality({p}) = 1
      BY FS_Singleton
    <3> QED
      BY <3>1, <3>2
  <2> QED
    BY <2>2, <2>3
<1> QED
  BY <1>1, PageInvariant, PTL

\* A row's token comes through the account of its own workspace or from the client
\* that connected the page to it, before any stale write.
THEOREM TokenStaysWithOwner == PageSpec => []TokenOfOwner
<1>1. PageInv => TokenOfOwner
  BY DEF PageInv, OneOwner, TokenOfOwner
<1> QED
  BY <1>1, PageInvariant, PTL

\* When nothing is under way, an active page that says it is subscribed is, but for
\* stale writes and rows whose flag is no answer of Facebook: made active by the
\* settings or an unblock, left by a release cut short, or taken for granted.
THEOREM ActiveIsSubscribed == PageSpec => []SubscribedWhileActive
<1>1. PageInv => SubscribedWhileActive
  <2> SUFFICES ASSUME PageInv, ~crossed, \A q \in Request : Stage(q, "ready"), NEW r \in PageRow,
                      page[r].on, page[r].flag, r \notin unsure
               PROVE  hooked
    BY DEF SubscribedWhileActive
  <2>1. RowHooked(r)
    BY DEF PageInv, AllHooked
  <2> QED
    BY <2>1 DEF RowHooked, Unhooking, TakingAway, Stage
<1> QED
  BY <1>1, PageInvariant, PTL
=============================================================================
