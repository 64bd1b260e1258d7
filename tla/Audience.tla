------------------------------ MODULE Audience ------------------------------
(***************************************************************************)
(* A segment of the contacts, its stored count, and a campaign aimed at it *)
(* (segments.service.ts, and the audience part of campaigns.service.ts).   *)
(*                                                                         *)
(* A static segment has member rows, which its operations change before    *)
(* they count them again; a dynamic one has a filter, and no member rows.  *)
(***************************************************************************)
EXTENDS Naturals, FiniteSets

CONSTANTS
    Editor,     \* slots for requests that are under way together
    Contact

ASSUME AudienceAssumption == IsFiniteSet(Contact)

VARIABLES
    people,     \* the rows of contact
    kind,       \* "STATIC" or "DYNAMIC", "NONE" before the segment is created and
                \* "GONE" when its row is deleted
    matching,   \* contacts that the filter of a dynamic segment selects
    member,     \* the rows of segment_contact
    count,      \* segment.contactCount
    aimed,      \* campaign: "none" without one, "segment", or "nothing" when its
                \* audienceSegmentId was set to null
    edit,       \* what each request is doing
    outdated,   \* history: requests whose count was taken before a later change
    drifted,    \* history: the count was made wrong by such a request, or because
                \* a member was deleted as a contact or a request broke off
    slipped     \* history: the campaign was aimed under a delete that had looked

audienceVars ==
    <<people, kind, matching, member, count, aimed, edit, outdated, drifted, slipped>>

Free == [at |-> "free"]

AudienceInit ==
    /\ people \in SUBSET Contact /\ kind = "NONE"
    /\ matching = {} /\ member = {} /\ count = 0 /\ aimed = "none"
    /\ edit = [d \in Editor |-> Free]
    /\ outdated = {} /\ drifted = FALSE /\ slipped = FALSE

In(d, step) == edit[d].at = step
Move(d, state) == edit' = [edit EXCEPT ![d] = state]
Exists == kind \in {"STATIC", "DYNAMIC"}
Counting == {d \in Editor : In(d, "write")}

\* The member rows become new: a count taken before is outdated.
SetMembers(new) ==
    /\ member' = new
    /\ outdated' = IF new = member THEN outdated ELSE outdated \cup Counting

(***************************************************************************)
(* create(), addContacts(), removeContacts(), recalculateSegment()         *)
(***************************************************************************)
CreateSegment(d) ==
    /\ In(d, "free") /\ kind = "NONE"
    /\ \/ kind' = "DYNAMIC" /\ matching' \in SUBSET people /\ Move(d, [at |-> "count"])
       \/ /\ kind' = "STATIC" /\ matching' = {}
          /\ \E new \in SUBSET people :
               Move(d, IF new = {} THEN Free ELSE [at |-> "insert", new |-> new])
    /\ UNCHANGED <<people, member, count, aimed, outdated, drifted, slipped>>

\* Which of the contacts are members already is read first.
AddRead(d) ==
    /\ In(d, "free") /\ kind = "STATIC"
    /\ \E new \in SUBSET (people \ member) \ {{}} : Move(d, [at |-> "insert", new |-> new])
    /\ UNCHANGED <<people, kind, matching, member, count, aimed, outdated, drifted, slipped>>

\* createMany() with skipDuplicates; it throws when a contact, or the segment, is gone.
AddWrite(d) ==
    LET new == edit[d].new IN
    /\ In(d, "insert")
    /\ IF new \subseteq people /\ Exists
       THEN SetMembers(member \cup new) /\ Move(d, [at |-> "count"])
       ELSE Move(d, Free) /\ UNCHANGED <<member, outdated>>
    /\ UNCHANGED <<people, kind, matching, count, aimed, drifted, slipped>>

\* Slip: the count is left for the next addition.
Slip_NoRecount(d) ==
    /\ In(d, "free") /\ kind = "STATIC"
    /\ \E out \in SUBSET Contact \ {{}} : SetMembers(member \ out)
    /\ UNCHANGED <<people, kind, matching, count, aimed, edit, drifted, slipped>>

RemoveMembers(d) ==
    /\ In(d, "free") /\ kind = "STATIC"
    /\ \E out \in SUBSET Contact \ {{}} : SetMembers(member \ out)
    /\ Move(d, [at |-> "count"])
    /\ UNCHANGED <<people, kind, matching, count, aimed, drifted, slipped>>

Recalculate(d) ==
    /\ In(d, "free") /\ kind = "DYNAMIC" /\ Move(d, [at |-> "count"])
    /\ UNCHANGED <<people, kind, matching, member, count, aimed, outdated, drifted, slipped>>

\* update() with new filters; the contacts a filter selects change without it, too.
UpdateFilters(d) ==
    /\ In(d, "free") /\ kind = "DYNAMIC" /\ Move(d, [at |-> "count"])
    /\ matching' \in SUBSET people
    /\ UNCHANGED <<people, kind, member, count, aimed, outdated, drifted, slipped>>

\* updateContactCount(), or the count of the filter's contacts; then the update,
\* which throws when the segment is gone.
CountRows(d) ==
    /\ In(d, "count")
    /\ Move(d, [at |-> "write", n |-> Cardinality(IF kind = "DYNAMIC" THEN matching
                                                                       ELSE member)])
    /\ outdated' = outdated \ {d}
    /\ UNCHANGED <<people, kind, matching, member, count, aimed, drifted, slipped>>

WriteCount(d) ==
    /\ In(d, "write") /\ Move(d, Free)
    /\ IF Exists THEN count' = edit[d].n /\ drifted' = (d \in outdated)
       ELSE UNCHANGED <<count, drifted>>
    /\ UNCHANGED <<people, kind, matching, member, aimed, outdated, slipped>>

\* A call fails, or the process stops: what changed the members is not counted.
EditBreaks(d) ==
    /\ ~In(d, "free") /\ Move(d, Free)
    /\ drifted' = (drifted \/ In(d, "count") \/ In(d, "write"))
    /\ UNCHANGED <<people, kind, matching, member, count, aimed, outdated, slipped>>

(***************************************************************************)
(* Contacts come, change and go; a deleted contact takes its member row    *)
(* along, and no one counts.                                               *)
(***************************************************************************)
NewContact(p) ==
    /\ p \notin people /\ people' = people \cup {p}
    /\ matching' \in {matching} \cup (IF kind = "DYNAMIC" THEN {matching \cup {p}} ELSE {})
    /\ UNCHANGED <<kind, member, count, aimed, edit, outdated, drifted, slipped>>

EditContact(p) ==
    /\ p \in people /\ kind = "DYNAMIC"
    /\ matching' \in {matching \cup {p}, matching \ {p}}
    /\ UNCHANGED <<people, kind, member, count, aimed, edit, outdated, drifted, slipped>>

DeleteContact(p) ==
    /\ p \in people /\ people' = people \ {p}
    /\ matching' = matching \ {p}
    /\ SetMembers(member \ {p})
    /\ drifted' = (drifted \/ p \in member)
    /\ UNCHANGED <<kind, count, aimed, edit, slipped>>

(***************************************************************************)
(* delete(): looks for campaigns, then deletes.  The campaign that was     *)
(* aimed at the segment in between has its audience set to null.           *)
(***************************************************************************)
\* Slip: the campaigns are not looked at.
Slip_DeleteUsed(d) ==
    /\ In(d, "free") /\ Exists /\ Move(d, [at |-> "delete"])
    /\ UNCHANGED <<people, kind, matching, member, count, aimed, outdated, drifted, slipped>>

CheckUse(d) ==
    /\ In(d, "free") /\ Exists /\ aimed # "segment" /\ Move(d, [at |-> "delete"])
    /\ UNCHANGED <<people, kind, matching, member, count, aimed, outdated, drifted, slipped>>

DeleteSegment(d) ==
    /\ In(d, "delete") /\ Move(d, Free)
    /\ kind' = "GONE" /\ matching' = {} /\ SetMembers({})
    /\ aimed' = IF aimed = "segment" THEN "nothing" ELSE aimed
    /\ UNCHANGED <<people, count, drifted, slipped>>

\* create() of a campaign for the segment, duplicate() of one or update() of a
\* draft: a foreign key, so the segment is there.
AimCampaign ==
    /\ Exists /\ aimed = "none" /\ aimed' = "segment"
    /\ slipped' = \E d \in Editor : In(d, "delete")
    /\ UNCHANGED <<people, kind, matching, member, count, edit, outdated, drifted>>

\* update() of the draft with another audience, or its deletion.
AimElsewhere ==
    /\ aimed = "segment" /\ aimed' = "none"
    /\ UNCHANGED <<people, kind, matching, member, count, edit, outdated, drifted, slipped>>

-----------------------------------------------------------------------------
Edit(d) ==
    \/ CreateSegment(d) \/ AddRead(d) \/ AddWrite(d) \/ RemoveMembers(d)
    \/ Recalculate(d) \/ UpdateFilters(d) \/ CountRows(d) \/ WriteCount(d) \/ EditBreaks(d)
    \/ CheckUse(d) \/ DeleteSegment(d)

AudienceNext ==
    \/ \E d \in Editor : Edit(d)
    \/ \E p \in Contact : NewContact(p) \/ EditContact(p) \/ DeleteContact(p)
    \/ AimCampaign \/ AimElsewhere

AudienceSpec == AudienceInit /\ [][AudienceNext]_audienceVars

-----------------------------------------------------------------------------
\* getContacts(): what the segment lists.
Listed == IF kind = "DYNAMIC" THEN matching ELSE member

\* getAudienceContactIds(), SEGMENT: whom a launch would send to.
Addressed == member

(***************************************************************************)
(* Properties.                                                             *)
(***************************************************************************)
\* Between requests the stored count of a static segment is the number of its
\* members, unless two changes overlapped, one broke off before its count or a
\* member was deleted as a contact.
CountDrift ==
    (kind = "STATIC" /\ ~drifted /\ \A d \in Editor : In(d, "free")) =>
        count = Cardinality(member)

\* A segment that a campaign is aimed at is not deleted under it, unless the
\* campaign was aimed at it while a delete was under way.
SegmentKept == aimed = "nothing" => slipped

\* "Admin shall select recipients by ... Saved segment" (SRS_Document.md:468):
\* a campaign for a segment goes to the contacts the segment lists.
AudienceIsSegment == Exists => Addressed = Listed
=============================================================================
