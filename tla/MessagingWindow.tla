--------------------------- MODULE MessagingWindow ---------------------------
(***************************************************************************)
(* The 24-hour messaging window of a contact: the cached window status and *)
(* the bypass method that SendApiService.sendMessage() chooses by it       *)
(* (send-api.service.ts), the events that open the window                  *)
(* (contacts.service.ts) and the requests that need it open                *)
(* (otn.service.ts, recurring-notification.service.ts).                    *)
(*                                                                         *)
(* One contact of one page.  A call of sendMessage is cut at the awaited   *)
(* calls between which the window can change.  The record it creates is    *)
(* the subject of MessageDelivery, how tokens are spent of Notifications.  *)
(***************************************************************************)
EXTENDS Naturals, FiniteSets

CONSTANTS
    Caller,        \* slots for calls of sendMessage that are under way together
    Window,        \* length of the messaging window (24 hours in the code)
    AgentWindow,   \* how long HUMAN_AGENT may follow a message (seven days)
    CacheTtl,      \* lifetime of a cached window status (60 seconds)
    FillTime,      \* bound: time from the query of a status to its cache entry
    MaxClock,      \* bound: ticks of the clock
    MaxUnhandled   \* bound: messages of the contact on their way together

ASSUME WindowAssumption ==
    /\ Window \in Nat \ {0} /\ AgentWindow \in Nat /\ CacheTtl \in Nat \ {0} /\ FillTime \in Nat
    /\ MaxClock \in Nat \ {0} /\ MaxUnhandled \in Nat

VARIABLES
    clock,
    unhandled,  \* times of messages of the contact whose events are under way
    heardAt,    \* contact.lastMessageFromContactAt, 0 for null
    newest,     \* history: time of the newest message whose event was handled
    tokenRow,   \* is there an unused row in otnToken?
    subRow,     \* recurringSubscription of the default topic
    cache,      \* the cached window status, NoEntry when there is none
    caller      \* where each call of sendMessage stands

contact == <<unhandled, heardAt, newest>>
permits == <<tokenRow, subRow>>
windowVars == <<clock, contact, permits, cache, caller>>

ClockTimes == 0..MaxClock
WindowStatus == [within : BOOLEAN, otn : BOOLEAN, rec : BOOLEAN]
NoEntry == [till |-> 0]
SubRow == {"ABSENT", "PENDING", "ACTIVE"}

\* How a message goes out: by the method the service chose, or the caller named.
Method == {"WITHIN_WINDOW", "OTN_TOKEN", "RECURRING_NOTIFICATION", "MESSAGE_TAG"}
Named == "NAMED"

\* What a call offers for a closed window: an OTN token, a subscription, a tag.
Wish == [otn : BOOLEAN, rec : BOOLEAN, tag : {"none", "HUMAN_AGENT", "other"}]

Uncalled == [at |-> "free"]
CallerState ==
    {Uncalled, [at |-> "tag"]}
        \cup [at : {"fill"}, status : WindowStatus, since : ClockTimes]
        \cup [at : {"post"}, how : Method \cup {Named}]

WindowInit ==
    /\ clock = 1
    /\ unhandled = {} /\ heardAt = 0 /\ newest = 0
    /\ tokenRow = FALSE /\ subRow = "ABSENT"
    /\ cache = NoEntry
    /\ caller = [c \in Caller |-> Uncalled]

(***************************************************************************)
(* The status of the window, and the method it leads to.                   *)
(***************************************************************************)
\* Slip: the window is taken in the wrong unit, twice as long.
Slip_WindowTooLong(at) == at > 0 /\ clock - at < 2 * Window + CacheTtl + FillTime

WindowOpen(at) == at > 0 /\ clock - at < Window

\* The query of getWindowStatus().  A token that was only requested counts too.
StatusNow ==
    [within |-> WindowOpen(heardAt), otn |-> tokenRow, rec |-> subRow = "ACTIVE"]

InCall(c, at) == caller[c].at = at
Become(c, state) == caller' = [caller EXCEPT ![c] = state]
Leave(c) == Become(c, Uncalled)
PostBy(c, how) == Become(c, [at |-> "post", how |-> how])

\* determineBypassMethod() when the call names no method: the window first, then
\* the token, the subscription, the tag, or nothing.
Decide(c, wish, status) ==
    \/ status.within /\ PostBy(c, "WITHIN_WINDOW")
    \/ ~status.within /\
       \/ wish.otn /\ status.otn /\ PostBy(c, "OTN_TOKEN")
       \/ ~(wish.otn /\ status.otn) /\
          \/ wish.rec /\ status.rec /\ PostBy(c, "RECURRING_NOTIFICATION")
          \/ ~(wish.rec /\ status.rec) /\
             \/ wish.tag = "HUMAN_AGENT" /\ Become(c, [at |-> "tag"])
             \/ wish.tag = "other" /\ PostBy(c, "MESSAGE_TAG")
             \/ wish.tag = "none" /\ Leave(c)

\* sendMessage(): the status comes from the cache ...
SendCached(c, wish) ==
    /\ InCall(c, "free")
    /\ cache # NoEntry
    /\ Decide(c, wish, cache.status)
    /\ UNCHANGED <<clock, contact, permits, cache>>

\* ... or from the rows, and then it is cached.
SendUncached(c) ==
    /\ InCall(c, "free")
    /\ cache = NoEntry
    /\ Become(c, [at |-> "fill", status |-> StatusNow, since |-> clock])
    /\ UNCHANGED <<clock, contact, permits, cache>>

FillCache(c) ==
    /\ InCall(c, "fill")
    /\ cache' = [till |-> clock + CacheTtl, status |-> caller[c].status]
    /\ \E wish \in Wish : Decide(c, wish, caller[c].status)
    /\ UNCHANGED <<clock, contact, permits>>

\* A call that names its method is not checked, but for the age of HUMAN_AGENT.
SendExplicit(c, how) ==
    /\ InCall(c, "free")
    /\ PostBy(c, Named) \/ (how = "MESSAGE_TAG" /\ Become(c, [at |-> "tag"]))
    /\ UNCHANGED <<clock, contact, permits, cache>>

\* validateMessageTagCompliance(): HUMAN_AGENT needs a message of the last
\* seven days.
CheckTag(c) ==
    /\ InCall(c, "tag")
    /\ IF heardAt > 0 /\ clock - heardAt <= AgentWindow
       THEN PostBy(c, "MESSAGE_TAG")
       ELSE Leave(c)
    /\ UNCHANGED <<clock, contact, permits, cache>>

\* The message is sent or refused.  The token that was named may have been the
\* last unused one.  The cache entry that is deleted in the end has another key:
\* the cached status stays.
EndSend(c) ==
    /\ InCall(c, "post")
    /\ Leave(c)
    /\ tokenRow' \in {tokenRow, FALSE}
    /\ UNCHANGED <<clock, contact, subRow, cache>>

(***************************************************************************)
(* Requests that need the window, read from the rows.                      *)
(***************************************************************************)
\* requestOtn(): the row is created before the Graph API is called.
RequestOtn ==
    /\ WindowOpen(heardAt)
    /\ tokenRow' = TRUE
    /\ UNCHANGED <<clock, contact, subRow, cache, caller>>

\* requestSubscription(): every request creates the row of the default topic,
\* which is unique: a row that is there, whatever its status, refuses it.
RequestSubscription ==
    /\ WindowOpen(heardAt)
    /\ subRow = "ABSENT"
    /\ subRow' = "PENDING"
    /\ UNCHANGED <<clock, contact, tokenRow, cache, caller>>

(***************************************************************************)
(* The contact, through the webhook, and the clock.                        *)
(***************************************************************************)
ContactWrites ==
    /\ Cardinality(unhandled) < MaxUnhandled
    /\ unhandled' = unhandled \cup {clock}
    /\ UNCHANGED <<clock, heardAt, newest, permits, cache, caller>>

\* updateLastInteraction(): the time of the event, older or newer.
HandleMessage ==
    /\ \E at \in unhandled :
         /\ unhandled' = unhandled \ {at}
         /\ heardAt' = at
         /\ newest' = IF at > newest THEN at ELSE newest
    /\ UNCHANGED <<clock, permits, cache, caller>>

\* handleOptin(): a token, or a subscription of the default topic.
HandleOptin ==
    /\ \/ tokenRow' = TRUE /\ UNCHANGED subRow
       \/ subRow' = "ACTIVE" /\ UNCHANGED tokenRow
    /\ UNCHANGED <<clock, contact, cache, caller>>

\* Redis drops the entry at the end of its lifetime.  A status is cached within
\* FillTime of its query.
ClockTick ==
    /\ clock < MaxClock
    /\ \A c \in Caller : InCall(c, "fill") => clock < caller[c].since + FillTime
    /\ clock' = clock + 1
    /\ cache' = IF cache # NoEntry /\ cache.till <= clock + 1 THEN NoEntry ELSE cache
    /\ UNCHANGED <<contact, permits, caller>>

-----------------------------------------------------------------------------
Send(c) ==
    \/ \E wish \in Wish : SendCached(c, wish)
    \/ SendUncached(c)
    \/ \E how \in Method : SendExplicit(c, how)

WindowNext ==
    \/ \E c \in Caller : Send(c) \/ FillCache(c) \/ CheckTag(c) \/ EndSend(c)
    \/ RequestOtn \/ RequestSubscription
    \/ ContactWrites \/ HandleMessage \/ HandleOptin
    \/ ClockTick

WindowSpec == WindowInit /\ [][WindowNext]_windowVars

-----------------------------------------------------------------------------
(***************************************************************************)
(* Properties.                                                             *)
(***************************************************************************)
\* Every variable keeps to its values.
WindowTypeOK ==
    /\ clock \in ClockTimes /\ heardAt \in ClockTimes /\ newest \in ClockTimes
    /\ unhandled \subseteq ClockTimes
    /\ tokenRow \in BOOLEAN /\ subRow \in SubRow
    /\ cache = NoEntry \/ cache \in [till : Nat \ {0}, status : WindowStatus]
    /\ caller \in [Caller -> CallerState]

PostsInWindow(c) == caller[c] = [at |-> "post", how |-> "WITHIN_WINDOW"]

\* The service chooses WITHIN_WINDOW, and with it the messaging type RESPONSE,
\* at most one lifetime of the cache after the window of the newest message has
\* closed, although no send and no event ever clears the cached status.
WindowSendsTimely ==
    [][\A c \in Caller :
         (PostsInWindow(c)' /\ ~PostsInWindow(c))
             => newest > 0 /\ clock < newest + Window + CacheTtl + FillTime]_windowVars
=============================================================================
