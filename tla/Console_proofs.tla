--------------------------- MODULE Console_proofs ---------------------------
(***************************************************************************)
(* Theorems about what is behind the console: Audience, for any editors    *)
(* and contacts; CustomFields, for any handlers and fields; Registries,    *)
(* for any clerks and items.                                               *)
(***************************************************************************)
EXTENDS Audience, CustomFields, Registries, FiniteSetTheorems, TLAPS

-----------------------------------------------------------------------------
(***************************************************************************)
(* Audience.  Whoever changes the members counts them afterwards, and a    *)
(* count that is about to be written is that of the members, unless it is  *)
(* outdated.                                                               *)
(***************************************************************************)
EditsKnown == edit = [d \in Editor |-> edit[d]]

CountKnown ==
    (kind = "STATIC" /\ ~drifted) =>
        \/ count = Cardinality(member)
        \/ \E d \in Editor : In(d, "count") \/ In(d, "write")

FreshCounts ==
    \A d \in Editor : (kind = "STATIC" /\ In(d, "write") /\ d \notin outdated)
                          => edit[d].n = Cardinality(member)

NothingBefore ==
    kind = "NONE" => member = {} /\ count = 0 /\ \A d \in Editor : In(d, "free")

AudienceInv == EditsKnown /\ CountKnown /\ FreshCounts /\ NothingBefore

LEMMA Moved ==
    ASSUME EditsKnown, NEW d \in Editor, NEW state, Move(d, state)
    PROVE  /\ EditsKnown' /\ edit'[d] = state
           /\ \A e \in Editor \ {d} : edit'[e] = edit[e]
BY DEF EditsKnown, Move

LEMMA InitAudienceInv == AudienceInit => AudienceInv
<1> SUFFICES ASSUME AudienceInit PROVE AudienceInv
  OBVIOUS
<1>1. EditsKnown /\ \A d \in Editor : In(d, "free") /\ edit[d] = Free
  BY DEF AudienceInit, EditsKnown, In, Free
<1> QED
  BY <1>1, FS_EmptySet DEF AudienceInit, AudienceInv, CountKnown, FreshCounts, NothingBefore, In, Free

\* The members change: counts that are under way are outdated.
LEMMA MembersChange ==
    ASSUME FreshCounts, NEW new, SetMembers(new), UNCHANGED kind,
           \A d \in Editor : In(d, "write")' => edit'[d] = edit[d]
    PROVE  FreshCounts'
<1> SUFFICES ASSUME NEW d \in Editor, kind = "STATIC", In(d, "write")', d \notin outdated'
             PROVE  edit'[d].n = Cardinality(member')
  BY DEF FreshCounts
<1>1. edit'[d] = edit[d] /\ In(d, "write")
  BY DEF In
<1>2. new = member
  BY <1>1 DEF SetMembers, Counting
<1> QED
  BY <1>1, <1>2 DEF SetMembers, FreshCounts

LEMMA NextAudienceInv == AudienceInv /\ [AudienceNext]_audienceVars => AudienceInv'
<1> SUFFICES ASSUME AudienceInv, [AudienceNext]_audienceVars PROVE AudienceInv'
  OBVIOUS
<1>0. EditsKnown /\ CountKnown /\ FreshCounts /\ NothingBefore
  BY DEF AudienceInv
\* Nothing that the count depends on changes, and no one stops counting.
<1>1. ASSUME NEW d \in Editor, NEW state, Move(d, state), state.at # "write",
             ~In(d, "count") /\ ~In(d, "write"), kind # "NONE",
             UNCHANGED <<kind, member, count, drifted, outdated>>
      PROVE  AudienceInv'
  BY <1>0, <1>1, Moved DEF AudienceInv, CountKnown, FreshCounts, NothingBefore, In
\* The members change and will be counted.
<1>2. ASSUME NEW d \in Editor, NEW new, Move(d, [at |-> "count"]), SetMembers(new),
             kind # "NONE", UNCHANGED kind
      PROVE  AudienceInv'
  <2>1. FreshCounts'
    BY <1>0, <1>2, Moved, MembersChange DEF In
  <2> QED
    BY <1>0, <1>2, <2>1, Moved DEF AudienceInv, CountKnown, NothingBefore, In
<1>3. ASSUME NEW d \in Editor, CreateSegment(d) PROVE AudienceInv'
  <2>1. kind = "NONE" /\ member' = {} /\ count' = 0 /\ kind' # "NONE" /\ outdated' = outdated
    BY <1>0, <1>3 DEF CreateSegment, NothingBefore
  <2>2. PICK state : Move(d, state) /\ state.at # "write"
    <3>1. CASE Move(d, [at |-> "count"])
      BY <3>1
    <3>2. ASSUME NEW new, Move(d, IF new = {} THEN Free ELSE [at |-> "insert", new |-> new])
          PROVE  \E state : Move(d, state) /\ state.at # "write"
      <4>1. CASE new = {}
        BY <3>2, <4>1 DEF Free
      <4>2. CASE new # {}
        BY <3>2, <4>2
      <4> QED
        BY <4>1, <4>2
    <3> QED
      BY <1>3, <3>1, <3>2 DEF CreateSegment
  <2>3. \A e \in Editor : ~In(e, "write")'
    BY <1>0, <2>1, <2>2, Moved DEF NothingBefore, In
  <2> QED
    BY <1>0, <2>1, <2>2, <2>3, Moved, FS_EmptySet
    DEF AudienceInv, CountKnown, FreshCounts, NothingBefore
<1>4. ASSUME NEW d \in Editor, AddRead(d) PROVE AudienceInv'
  BY <1>1, <1>4 DEF AddRead, In
<1>5. ASSUME NEW d \in Editor, AddWrite(d) PROVE AudienceInv'
  <2>1. kind # "NONE"
    BY <1>0, <1>5 DEF AddWrite, NothingBefore, In
  <2>2. CASE edit[d].new \subseteq people /\ Exists
    BY <1>2, <1>5, <2>1, <2>2 DEF AddWrite
  <2>3. CASE ~(edit[d].new \subseteq people /\ Exists)
    BY <1>1, <1>5, <2>1, <2>3 DEF AddWrite, In, Free
  <2> QED
    BY <2>2, <2>3
<1>6. ASSUME NEW d \in Editor, RemoveMembers(d) PROVE AudienceInv'
  BY <1>2, <1>6 DEF RemoveMembers
<1>7. ASSUME NEW d \in Editor, Recalculate(d) \/ UpdateFilters(d) \/ CheckUse(d) PROVE AudienceInv'
  BY <1>1, <1>7 DEF Recalculate, UpdateFilters, CheckUse, Exists, In
<1>8. ASSUME NEW d \in Editor, CountRows(d) PROVE AudienceInv'
  <2> DEFINE state == [at |-> "write", n |-> Cardinality(IF kind = "DYNAMIC" THEN matching ELSE member)]
  <2>1. Move(d, state) /\ outdated' = outdated \ {d} /\ UNCHANGED <<kind, member, count, drifted>>
    BY <1>8 DEF CountRows
  <2>2. state.at = "write" /\ (kind = "STATIC" => state.n = Cardinality(member))
    OBVIOUS
  <2>3. kind # "NONE"
    BY <1>0, <1>8 DEF CountRows, NothingBefore, In
  <2> HIDE DEF state
  <2> QED
    BY <1>0, <2>1, <2>2, <2>3, Moved DEF AudienceInv, CountKnown, FreshCounts, NothingBefore, In
<1>9. ASSUME NEW d \in Editor, WriteCount(d) PROVE AudienceInv'
  <2>1. In(d, "write") /\ Move(d, Free) /\ UNCHANGED <<kind, member, outdated>> /\ kind # "NONE"
    BY <1>0, <1>9 DEF WriteCount, NothingBefore, In
  <2>2. FreshCounts'
    BY <1>0, <2>1, Moved DEF FreshCounts, In, Free
  <2>3. CountKnown'
    BY <1>0, <1>9, <2>1 DEF WriteCount, CountKnown, FreshCounts, Exists
  <2> QED
    BY <1>0, <2>1, <2>2, <2>3, Moved DEF AudienceInv, NothingBefore
<1>10. ASSUME NEW d \in Editor, DeleteSegment(d) PROVE AudienceInv'
  BY <1>0, <1>10, Moved DEF DeleteSegment, AudienceInv, CountKnown, FreshCounts, NothingBefore
<1>11. ASSUME NEW p \in Contact, NewContact(p) \/ EditContact(p) PROVE AudienceInv'
  BY <1>0, <1>11 DEF NewContact, EditContact, AudienceInv, EditsKnown, CountKnown, FreshCounts, NothingBefore, In
<1>12. ASSUME NEW p \in Contact, DeleteContact(p) PROVE AudienceInv'
  <2>1. SetMembers(member \ {p}) /\ drifted' = (drifted \/ p \in member) /\ UNCHANGED <<kind, count, edit>>
    BY <1>12 DEF DeleteContact
  <2>2. FreshCounts'
    BY <1>0, <2>1, MembersChange
  <2>3. ~drifted' => member' = member
    BY <2>1 DEF SetMembers
  <2>4. member = {} => member' = {}
    BY <2>1 DEF SetMembers
  <2> QED
    BY <1>0, <2>1, <2>2, <2>3, <2>4 DEF AudienceInv, EditsKnown, CountKnown, NothingBefore, In
<1>13. CASE AimCampaign \/ AimElsewhere
  BY <1>0, <1>13 DEF AimCampaign, AimElsewhere, AudienceInv, EditsKnown, CountKnown, FreshCounts, NothingBefore, In
<1>15. ASSUME NEW d \in Editor, EditBreaks(d) PROVE AudienceInv'
  <2>1. Move(d, Free) /\ UNCHANGED <<kind, member, count, outdated>> /\ ~In(d, "free")
        /\ drifted' = (drifted \/ In(d, "count") \/ In(d, "write"))
    BY <1>15 DEF EditBreaks
  <2>2. kind # "NONE"
    BY <1>0, <2>1 DEF NothingBefore
  <2>3. EditsKnown' /\ edit'[d].at = "free" /\ \A e \in Editor \ {d} : edit'[e] = edit[e]
    BY <1>0, <2>1, Moved DEF Free
  <2>4. CountKnown'
    BY <1>0, <2>1, <2>3 DEF CountKnown, In
  <2>5. FreshCounts'
    BY <1>0, <2>1, <2>3 DEF FreshCounts, In
  <2> QED
    BY <2>1, <2>2, <2>3, <2>4, <2>5 DEF AudienceInv, NothingBefore
<1>14. CASE UNCHANGED audienceVars
  BY <1>0, <1>14 DEF audienceVars, AudienceInv, EditsKnown, CountKnown, FreshCounts, NothingBefore, In
<1> QED
  BY <1>3, <1>4, <1>5, <1>6, <1>7, <1>8, <1>9, <1>10, <1>11, <1>12, <1>13, <1>14, <1>15 DEF AudienceNext, Edit

\* The stored count of a static segment drifts from its members only under changes
\* that overlap or break off, or when a member is deleted as a contact.
THEOREM CountsFollowMembers == AudienceSpec => []CountDrift
<1>1. AudienceInv => CountDrift
  BY DEF AudienceInv, CountKnown, CountDrift, In
<1> QED
  BY <1>1, InitAudienceInv, NextAudienceInv, PTL DEF AudienceSpec

\* A campaign that is aimed at a segment does not lose it, unless it was aimed
\* under a delete that had already looked for campaigns.
THEOREM SegmentsAreKept == AudienceSpec => []SegmentKept
<1> DEFINE Warned == (aimed = "segment" /\ \E d \in Editor : In(d, "delete")) => slipped
<1>1. AudienceInit => EditsKnown /\ SegmentKept /\ Warned
  BY InitAudienceInv DEF AudienceInit, AudienceInv, SegmentKept
<1>2. EditsKnown /\ SegmentKept /\ Warned /\ [AudienceNext]_audienceVars => EditsKnown' /\ SegmentKept' /\ Warned'
  <2> SUFFICES ASSUME EditsKnown, SegmentKept, Warned, [AudienceNext]_audienceVars
               PROVE  EditsKnown' /\ SegmentKept' /\ Warned'
    OBVIOUS
  <2>1. ASSUME NEW d \in Editor, NEW state, Move(d, state), state.at = "delete" => aimed # "segment",
               UNCHANGED <<aimed, slipped>>
        PROVE  EditsKnown' /\ SegmentKept' /\ Warned'
    BY <2>1, Moved DEF SegmentKept, In
  <2>2. ASSUME NEW d \in Editor, Edit(d), ~DeleteSegment(d)
        PROVE  \E state : Move(d, state) /\ (state.at = "delete" => aimed # "segment") /\ UNCHANGED <<aimed, slipped>>
    BY <2>2 DEF Edit, CreateSegment, AddRead, AddWrite, RemoveMembers, Recalculate, UpdateFilters,
                CountRows, WriteCount, EditBreaks, CheckUse, Free
  <2>3. ASSUME NEW d \in Editor, DeleteSegment(d) PROVE EditsKnown' /\ SegmentKept' /\ Warned'
    BY <2>3, Moved DEF DeleteSegment, SegmentKept
  <2>4. ASSUME NEW p \in Contact, NewContact(p) \/ EditContact(p) \/ DeleteContact(p)
        PROVE  EditsKnown' /\ SegmentKept' /\ Warned'
    BY <2>4 DEF NewContact, EditContact, DeleteContact, SegmentKept, EditsKnown, In
  <2>5. CASE AimCampaign \/ AimElsewhere
    BY <2>5 DEF AimCampaign, AimElsewhere, SegmentKept, EditsKnown, In
  <2>6. CASE UNCHANGED audienceVars
    BY <2>6 DEF audienceVars, SegmentKept, EditsKnown, In
  <2> QED
    BY <2>1, <2>2, <2>3, <2>4, <2>5, <2>6 DEF AudienceNext
<1> QED
  <2> HIDE DEF Warned
  <2> QED
    BY <1>1, <1>2, PTL DEF AudienceSpec

-----------------------------------------------------------------------------
(***************************************************************************)
(* CustomFields.  A copy of the column that no write has made stale is     *)
(* that of the row, so that a write with such a copy changes the values it *)
(* names only; nobody holds a copy of a row that is not there; a value     *)
(* that is about to be set suits the definitions that were read with it.   *)
(***************************************************************************)
Key == Field \cup {Referral}
IsColumn(row) == row = [k \in Key |-> row[k]]
HoldsRow(h) == doing[h].at \in {"clean", "validate", "set", "merge", "refer"}

HandlersKnown == doing = [h \in Handler |-> doing[h]]

CopiesCurrent ==
    \A h \in Handler : HoldsRow(h) =>
        /\ h \in Holding /\ IsColumn(doing[h].row)
        /\ h \notin stale => doing[h].row = stored

AbsentIsEmpty == present \/ (stored = Empty /\ \A h \in Handler : ~HoldsRow(h))

FieldsNamed == \A h \in Handler : doing[h].at \in {"list", "clean", "set"} => doing[h].field \in Field

ValuesChecked ==
    \A h \in Handler : Doing(h, "set") =>
        \/ doing[h].value = NoValue
        \/ /\ doing[h].defs[doing[h].field] # "none"
           /\ doing[h].value = [type |-> doing[h].defs[doing[h].field], by |-> "form"]

FieldsInv ==
    /\ HandlersKnown /\ IsColumn(stored) /\ def = [f \in Field |-> def[f]]
    /\ CopiesCurrent /\ AbsentIsEmpty /\ FieldsNamed /\ ValuesChecked
    /\ OthersValuesKept /\ ValuesFollowDefinitions

LEMMA InitFieldsInv == FieldsInit => FieldsInv
BY DEF FieldsInit, FieldsInv, HandlersKnown, Key, IsColumn, CopiesCurrent, AbsentIsEmpty, HoldsRow, FieldsNamed,
       ValuesChecked, OthersValuesKept, ValuesFollowDefinitions, Doing, AtRest, NoValue, Empty

LEMMA Turned ==
    ASSUME HandlersKnown, NEW h \in Handler, NEW state, Now(h, state)
    PROVE  /\ HandlersKnown' /\ doing'[h] = state
           /\ \A g \in Handler \ {h} : doing'[g] = doing[g]
BY DEF HandlersKnown, Now

\* A write keeps the invariant when it names the fields whose values it changes, and
\* those suit the definitions if the copies it was made from are current.
LEMMA Written ==
    ASSUME FieldsInv, NEW h \in Handler, NEW new, NEW named, NEW current \in BOOLEAN,
           WriteRow(h, new, named, current), IsColumn(new), present,
           h \notin stale => \A k \in Key \ named : new[k] = stored[k],
           current => \A f \in Field :
                         \/ new[f] = stored[f]
                         \/ new[f].by \notin {"form", "import"}
                         \/ /\ def[f] # "none"
                            /\ new[f].by = "form" => new[f].type = def[f],
           \A f \in Field : doing[h].at \in {"list", "clean"} /\ doing[h].field = f => new[f] = NoValue
    PROVE  FieldsInv'
<1>0. Now(h, AtRest) /\ stored' = new /\ def' = def /\ present' /\ HandlersKnown
  BY DEF WriteRow, FieldsInv
<1>1. HandlersKnown' /\ doing'[h] = AtRest /\ \A g \in Handler \ {h} : doing'[g] = doing[g]
  BY <1>0, Turned
<1>2. CopiesCurrent'
  <2> SUFFICES ASSUME NEW g \in Handler, HoldsRow(g)'
               PROVE  /\ g \in Holding' /\ IsColumn(doing'[g].row)
                      /\ g \notin stale' => doing'[g].row = stored'
    BY DEF CopiesCurrent, IsColumn, Key
  <2>1. g # h /\ doing'[g] = doing[g] /\ HoldsRow(g)
    BY <1>1 DEF HoldsRow, AtRest
  <2>2. g \in Holding /\ IsColumn(doing[g].row) /\ (g \notin stale => doing[g].row = stored)
    BY <2>1 DEF FieldsInv, CopiesCurrent
  <2> QED
    BY <1>0, <2>1, <2>2 DEF WriteRow, Holding
<1>3. OthersValuesKept'
  BY DEF FieldsInv, OthersValuesKept, WriteRow, IsColumn
<1>4. ValuesFollowDefinitions'
  <2> SUFFICES ASSUME NEW f \in Field, f \notin excused', new[f].by \in {"form", "import"}, f \notin Uncleaned(Handler)'
               PROVE  /\ def[f] # "none"
                      /\ new[f].by = "form" => new[f].type = def[f]
    BY <1>0 DEF ValuesFollowDefinitions
  <2>1. f \notin excused
    BY DEF WriteRow
  <2>2. ~(doing[h].at \in {"list", "clean"} /\ doing[h].field = f)
    BY DEF NoValue
  <2>3. f \notin Uncleaned(Handler)
    BY <1>1, <2>2 DEF Uncleaned
  <2>4. CASE new[f] = stored[f]
    BY <2>1, <2>3, <2>4 DEF FieldsInv, ValuesFollowDefinitions
  <2>5. CASE new[f] # stored[f]
    <3>1. current
      BY <2>5 DEF WriteRow
    <3> QED
      BY <3>1, <2>5
  <2> QED
    BY <2>4, <2>5
<1>5. FieldsNamed' /\ ValuesChecked'
  BY <1>1 DEF FieldsInv, FieldsNamed, ValuesChecked, Doing, AtRest
<1> QED
  BY <1>0, <1>1, <1>2, <1>3, <1>4, <1>5 DEF FieldsInv, AbsentIsEmpty, IsColumn, Key

\* A handler goes on without a write, and no field stops being cleaned.
LEMMA WentOn ==
    ASSUME FieldsInv, NEW h \in Handler, NEW state, Now(h, state), UNCHANGED <<stored, excused, trampled>>,
           stale' \subseteq stale, stale \ {h} \subseteq stale',
           present => present',
           state.at \in {"clean", "validate", "set", "merge", "refer"} =>
               /\ present' /\ "row" \in DOMAIN state /\ IsColumn(state.row)
               /\ h \notin stale' => state.row = stored,
           state.at \in {"list", "clean", "set"} => state.field \in Field,
           state.at = "set" =>
               \/ state.value = NoValue
               \/ /\ state.defs[state.field] # "none"
                  /\ state.value = [type |-> state.defs[state.field], by |-> "form"],
           def' = [f \in Field |-> def'[f]],
           \A f \in Field :
               \/ state.at \in {"list", "clean"} /\ state.field = f
               \/ stored[f] = NoValue
               \/ ~(doing[h].at \in {"list", "clean"} /\ doing[h].field = f) /\ def'[f] = def[f]
    PROVE  FieldsInv'
<1>1. HandlersKnown' /\ doing'[h] = state /\ \A g \in Handler \ {h} : doing'[g] = doing[g]
  BY Turned DEF FieldsInv
<1>2. CopiesCurrent'
  <2> SUFFICES ASSUME NEW g \in Handler, HoldsRow(g)'
               PROVE  /\ g \in Holding' /\ IsColumn(doing'[g].row)
                      /\ g \notin stale' => doing'[g].row = stored'
    BY DEF CopiesCurrent, IsColumn, Key
  <2>1. CASE g = h
    BY <1>1, <2>1 DEF HoldsRow, Holding
  <2>2. CASE g # h
    BY <1>1, <2>2 DEF FieldsInv, CopiesCurrent, HoldsRow, Holding
  <2> QED
    BY <2>1, <2>2
<1>3. ValuesFollowDefinitions'
  <2> SUFFICES ASSUME NEW f \in Field, f \notin excused, stored[f].by \in {"form", "import"}, f \notin Uncleaned(Handler)'
               PROVE  /\ def'[f] # "none"
                      /\ stored[f].by = "form" => stored[f].type = def'[f]
    BY DEF ValuesFollowDefinitions
  <2>1. stored[f] # NoValue
    BY DEF NoValue
  <2>2. ~(state.at \in {"list", "clean"} /\ state.field = f)
    BY <1>1 DEF Uncleaned
  <2>3. ~(doing[h].at \in {"list", "clean"} /\ doing[h].field = f) /\ def'[f] = def[f]
    BY <2>1, <2>2
  <2>4. f \notin Uncleaned(Handler)
    BY <1>1, <2>3 DEF Uncleaned
  <2> QED
    BY <2>3, <2>4 DEF FieldsInv, ValuesFollowDefinitions
<1>4. FieldsNamed' /\ ValuesChecked'
  BY <1>1 DEF FieldsInv, FieldsNamed, ValuesChecked, Doing
<1>5. OthersValuesKept' /\ IsColumn(stored)'
  BY DEF FieldsInv, OthersValuesKept, IsColumn, Key
<1>6. AbsentIsEmpty'
  BY <1>1 DEF FieldsInv, AbsentIsEmpty, HoldsRow
<1> QED
  BY <1>1, <1>2, <1>3, <1>4, <1>5, <1>6 DEF FieldsInv

\* A row that is made keeps it when its values suit the definitions.
LEMMA Made ==
    ASSUME FieldsInv, NEW h \in Handler, NEW new, NEW current \in BOOLEAN, NewRow(h, new, current),
           IsColumn(new), doing[h].at \in {"free", "make"}, ~present,
           current => \A f \in Field :
                         \/ new[f] = NoValue
                         \/ new[f].by \notin {"form", "import"}
                         \/ def[f] # "none" /\ new[f].by = "import"
    PROVE  FieldsInv'
<1>0. Now(h, AtRest) /\ stored' = new /\ def' = def /\ stale' = stale /\ trampled' = trampled
  BY DEF NewRow
<1>1. HandlersKnown' /\ doing'[h] = AtRest /\ \A g \in Handler \ {h} : doing'[g] = doing[g]
  BY <1>0, Turned DEF FieldsInv
<1>2. AtRest.at = "free" /\ NoValue.by = "none"
  BY DEF AtRest, NoValue
<1>3. \A g \in Handler : ~HoldsRow(g)'
  BY <1>1, <1>2 DEF FieldsInv, AbsentIsEmpty, HoldsRow
<1>4. CopiesCurrent' /\ AbsentIsEmpty'
  BY <1>3 DEF CopiesCurrent, AbsentIsEmpty, NewRow
<1>5. ValuesFollowDefinitions'
  <2> SUFFICES ASSUME NEW f \in Field, f \notin excused', new[f].by \in {"form", "import"},
                      f \notin Uncleaned(Handler)'
               PROVE  def[f] # "none" /\ new[f].by = "import"
    BY <1>0 DEF ValuesFollowDefinitions
  <2>1. new[f] # NoValue
    BY <1>2
  <2>2. current
    BY <2>1 DEF NewRow
  <2> QED
    BY <2>1, <2>2
<1>6. FieldsNamed' /\ ValuesChecked'
  BY <1>1, <1>2 DEF FieldsInv, FieldsNamed, ValuesChecked, Doing
<1> QED
  BY <1>0, <1>1, <1>4, <1>5, <1>6 DEF FieldsInv, OthersValuesKept, IsColumn, Key

LEMMA NextFieldsInv == FieldsInv /\ [FieldsNext]_fieldVars => FieldsInv'
<1> SUFFICES ASSUME FieldsInv, [FieldsNext]_fieldVars PROVE FieldsInv'
  OBVIOUS
<1>0. /\ HandlersKnown /\ IsColumn(stored) /\ def = [f \in Field |-> def[f]] /\ CopiesCurrent /\ FieldsNamed
      /\ AbsentIsEmpty /\ NoValue.by = "none" /\ \A k \in Key : Empty[k] = NoValue
  BY DEF FieldsInv, NoValue, Empty, Key
<1>1. ASSUME NEW f \in Field, CreateField(f) \/ UpdateField(f) PROVE FieldsInv'
  <2>1. UNCHANGED <<present, stored, doing, stale, trampled>> /\ excused \subseteq excused'
    BY <1>1 DEF CreateField, UpdateField
  <2>2. def' = [g \in Field |-> def'[g]] /\ \A g \in Field \ {f} : def'[g] = def[g]
    BY <1>0, <1>1 DEF CreateField, UpdateField
  <2>3. f \in excused' \/ def[f] = "none"
    BY <1>1 DEF CreateField, UpdateField
  <2>4. ValuesFollowDefinitions'
    BY <2>1, <2>2, <2>3 DEF FieldsInv, ValuesFollowDefinitions, Uncleaned
  <2> QED
    BY <2>1, <2>2, <2>4 DEF FieldsInv, HandlersKnown, IsColumn, Key, CopiesCurrent, AbsentIsEmpty, HoldsRow, Holding, FieldsNamed,
                            ValuesChecked, OthersValuesKept, Doing
<1>2. ASSUME NEW h \in Handler, NEW f \in Field, DeleteField(h, f) PROVE FieldsInv'
  <2> DEFINE state == [at |-> "list", field |-> f]
  <2>1. Now(h, state) /\ def' = [def EXCEPT ![f] = "none"] /\ doing[h].at = "free"
        /\ UNCHANGED <<present, stored, stale, excused, trampled>>
    BY <1>2 DEF DeleteField, Doing
  <2>2. def' = [g \in Field |-> def'[g]] /\ \A g \in Field \ {f} : def'[g] = def[g]
    BY <1>0, <2>1
  <2>3. state.at = "list" /\ state.field = f
    OBVIOUS
  <2>4. state.at \notin {"clean", "validate", "set", "merge", "refer"}
    OBVIOUS
  <2>5. \A g \in Field : (state.at \in {"list", "clean"} /\ state.field = g)
                           \/ (~(doing[h].at \in {"list", "clean"} /\ doing[h].field = g) /\ def'[g] = def[g])
    BY <2>1, <2>2, <2>3
  <2>6. stale' \subseteq stale /\ stale \ {h} \subseteq stale' /\ (present => present')
    BY <2>1
  <2> HIDE DEF state
  <2>7. /\ state.at \in {"clean", "validate", "set", "merge", "refer"} =>
              /\ present' /\ "row" \in DOMAIN state /\ IsColumn(state.row)
              /\ h \notin stale' => state.row = stored
        /\ state.at \in {"list", "clean", "set"} => state.field \in Field
        /\ state.at = "set" =>
              \/ state.value = NoValue
              \/ /\ state.defs[state.field] # "none"
                 /\ state.value = [type |-> state.defs[state.field], by |-> "form"]
    BY <2>3, <2>4
  <2>8. \A g \in Field :
              \/ state.at \in {"list", "clean"} /\ state.field = g
              \/ stored[g] = NoValue
              \/ ~(doing[h].at \in {"list", "clean"} /\ doing[h].field = g) /\ def'[g] = def[g]
    BY <2>5
  <2>9. Now(h, state) /\ UNCHANGED <<stored, excused, trampled>>
    BY <2>1
  <2> QED
    BY <2>2, <2>6, <2>7, <2>8, <2>9, WentOn
<1>3. ASSUME NEW h \in Handler, ListValues(h) PROVE FieldsInv'
  <2>1. Doing(h, "list") /\ doing[h].field \in Field /\ UNCHANGED <<def, present, stored, stale, excused, trampled>>
    BY <1>0, <1>3 DEF ListValues, Doing, FieldsNamed
  <2>2. CASE stored[doing[h].field] = NoValue /\ Now(h, AtRest)
    <3>1. AtRest.at = "free"
      BY DEF AtRest
    <3> QED
      BY <1>0, <2>1, <2>2, <3>1, WentOn DEF Doing
  <2>3. CASE stored[doing[h].field] # NoValue /\ Now(h, [at |-> "clean", field |-> doing[h].field, row |-> stored])
    <3> DEFINE state == [at |-> "clean", field |-> doing[h].field, row |-> stored]
    <3>1. state.at = "clean" /\ state.field = doing[h].field /\ state.row = stored /\ "row" \in DOMAIN state /\ Now(h, state)
      BY <2>3
    <3>2. present
      BY <1>0, <2>1, <2>3 DEF AbsentIsEmpty, Key
    <3> HIDE DEF state
    <3> QED
      BY <1>0, <2>1, <3>1, <3>2, WentOn DEF Doing
  <2> QED
    BY <1>3, <2>2, <2>3 DEF ListValues
<1>4. ASSUME NEW h \in Handler, CleanValues(h) PROVE FieldsInv'
  <2> DEFINE f == doing[h].field
             new == [doing[h].row EXCEPT ![f] = NoValue]
             current == h \notin stale
  <2>1. f \in Field /\ IsColumn(doing[h].row) /\ (h \notin stale => doing[h].row = stored) /\ present
    BY <1>0, <1>4 DEF CleanValues, Doing, CopiesCurrent, HoldsRow, FieldsNamed, AbsentIsEmpty
  <2>2. IsColumn(new) /\ new[f] = NoValue /\ \A k \in Key \ {f} : new[k] = doing[h].row[k]
    BY <2>1 DEF IsColumn, Key
  <2>3. WriteRow(h, new, {f}, current) /\ current \in BOOLEAN
    BY <1>4 DEF CleanValues
  <2>4. NoValue.by = "none"
    BY DEF NoValue
  <2>5. current => \A g \in Field : new[g] = stored[g] \/ new[g].by \notin {"form", "import"}
    BY <2>1, <2>2, <2>4 DEF Key
  <2>6. h \notin stale => \A k \in Key \ {f} : new[k] = stored[k]
    BY <2>1, <2>2
  <2> HIDE DEF new, current
  <2> QED
    BY <2>1, <2>2, <2>3, <2>5, <2>6, Written
<1>5. ASSUME NEW h \in Handler, ReadContact(h) PROVE FieldsInv'
  <2> DEFINE state == [at |-> "validate", row |-> stored]
  <2>1. state.at = "validate" /\ state.row = stored /\ "row" \in DOMAIN state /\ Now(h, state) /\ doing[h].at = "free" /\ present
        /\ UNCHANGED <<def, present, stored, stale, excused, trampled>>
    BY <1>5 DEF ReadContact, Doing
  <2> HIDE DEF state
  <2> QED
    BY <1>0, <2>1, WentOn
<1>6. ASSUME NEW h \in Handler, ValidateFields(h) PROVE FieldsInv'
  <2>1. Doing(h, "validate") /\ UNCHANGED <<def, present, stored, excused, trampled>>
        /\ IsColumn(doing[h].row) /\ (h \notin stale => doing[h].row = stored) /\ present
    BY <1>0, <1>6 DEF ValidateFields, Doing, CopiesCurrent, HoldsRow, AbsentIsEmpty
  <2>2. ASSUME NEW f \in Field, NEW t \in Type \cup {"none"}, Valid(f, t), UNCHANGED stale,
               Now(h, [at |-> "set", row |-> doing[h].row, field |-> f, defs |-> def,
                       value |-> IF t = "none" THEN NoValue ELSE [type |-> t, by |-> "form"]])
        PROVE  FieldsInv'
    <3> DEFINE value == IF t = "none" THEN NoValue ELSE [type |-> t, by |-> "form"]
               state == [at |-> "set", row |-> doing[h].row, field |-> f, defs |-> def, value |-> value]
    <3>1. value = NoValue \/ (def[f] # "none" /\ value = [type |-> def[f], by |-> "form"])
      BY <2>2 DEF Valid
    <3> HIDE DEF value
    <3>2. state.at = "set" /\ state.row = doing[h].row /\ "row" \in DOMAIN state /\ state.field = f
          /\ state.defs = def /\ state.value = value
      OBVIOUS
    <3>3. Now(h, state)
      BY <2>2 DEF value
    <3> HIDE DEF state
    <3> QED
      BY <1>0, <2>1, <2>2, <3>1, <3>2, <3>3, WentOn DEF Doing
  <2>3. CASE Now(h, AtRest) /\ stale' = stale \ {h}
    <3>1. AtRest.at = "free"
      BY DEF AtRest
    <3> QED
      BY <1>0, <2>1, <2>3, <3>1, WentOn DEF Doing
  <2> QED
    BY <1>6, <2>2, <2>3 DEF ValidateFields
<1>7. ASSUME NEW h \in Handler, SetFields(h) PROVE FieldsInv'
  <2> DEFINE f == doing[h].field
             new == [doing[h].row EXCEPT ![f] = doing[h].value]
             current == h \notin stale /\ doing[h].defs = def
  <2>0. doing[h].at = "set" /\ WriteRow(h, new, {f}, current) /\ current \in BOOLEAN
    BY <1>7 DEF SetFields, Doing
  <2>1. f \in Field /\ IsColumn(doing[h].row) /\ (h \notin stale => doing[h].row = stored) /\ present
    BY <1>0, <2>0 DEF CopiesCurrent, HoldsRow, FieldsNamed, AbsentIsEmpty
  <2>2. IsColumn(new) /\ new[f] = doing[h].value /\ \A k \in Key \ {f} : new[k] = doing[h].row[k]
    BY <2>1 DEF IsColumn, Key
  <2>3. current => \/ new[f].by \notin {"form", "import"}
                   \/ def[f] # "none" /\ new[f].type = def[f]
    <3> HIDE DEF new
    <3>1. \/ doing[h].value = NoValue
          \/ /\ doing[h].defs[f] # "none"
             /\ doing[h].value = [type |-> doing[h].defs[f], by |-> "form"]
      BY <2>0 DEF FieldsInv, ValuesChecked, Doing
    <3> HIDE DEF f
    <3> QED
      BY <2>2, <3>1 DEF NoValue
  <2>4. current => \A g \in Field \ {f} : new[g] = stored[g]
    BY <2>1, <2>2 DEF Key
  <2>5. h \notin stale => \A k \in Key \ {f} : new[k] = stored[k]
    BY <2>1, <2>2
  <2> HIDE DEF new, current
  <2> QED
    BY <2>0, <2>1, <2>2, <2>3, <2>4, <2>5, Written
<1>8. ASSUME NEW h \in Handler, StartImport(h) PROVE FieldsInv'
  <2> DEFINE state == [at |-> "import", defs |-> def]
  <2>1. state.at = "import" /\ Now(h, state) /\ doing[h].at = "free"
        /\ UNCHANGED <<def, present, stored, stale, excused, trampled>>
    BY <1>8 DEF StartImport, Doing
  <2> HIDE DEF state
  <2> QED
    BY <1>0, <2>1, WentOn
<1>9. ASSUME NEW h \in Handler, ImportRead(h) PROVE FieldsInv'
  <2>0. doing[h].at = "import" /\ UNCHANGED <<def, present, stored, stale, excused, trampled>>
    BY <1>9 DEF ImportRead, Doing
  <2>1. CASE present /\ Now(h, [at |-> "merge", defs |-> doing[h].defs, row |-> stored])
    <3> DEFINE state == [at |-> "merge", defs |-> doing[h].defs, row |-> stored]
    <3>1. state.at = "merge" /\ state.row = stored /\ "row" \in DOMAIN state /\ Now(h, state)
      BY <2>1
    <3> HIDE DEF state
    <3> QED
      BY <1>0, <2>0, <2>1, <3>1, WentOn
  <2>2. CASE Now(h, [at |-> "make", defs |-> doing[h].defs])
    <3> DEFINE state == [at |-> "make", defs |-> doing[h].defs]
    <3>1. state.at = "make" /\ Now(h, state)
      BY <2>2
    <3> HIDE DEF state
    <3> QED
      BY <1>0, <2>0, <3>1, WentOn
  <2> QED
    BY <1>9, <2>1, <2>2 DEF ImportRead
<1>10. ASSUME NEW h \in Handler, ImportWrite(h) PROVE FieldsInv'
  <2> DEFINE current == h \notin stale /\ doing[h].defs = def
  <2>1. doing[h].at = "merge" /\ IsColumn(doing[h].row) /\ (h \notin stale => doing[h].row = stored) /\ present
    BY <1>0, <1>10 DEF ImportWrite, Doing, CopiesCurrent, HoldsRow, AbsentIsEmpty
  <2>2. PICK given \in SUBSET Columns(h) :
               WriteRow(h, Merged(doing[h].row, given), given, current)
    BY <1>10 DEF ImportWrite
  <2> DEFINE new == Merged(doing[h].row, given)
  <2>0. \A f \in given : f \in Field /\ doing[h].defs[f] # "none"
    BY <2>2 DEF Columns
  <2>3. IsColumn(new) /\ \A k \in Key : IF k \in given THEN new[k].by = "import" ELSE new[k] = doing[h].row[k]
    BY <2>1 DEF IsColumn, Merged
  <2>4. current => \A f \in Field : new[f] = stored[f] \/ (def[f] # "none" /\ new[f].by = "import")
    BY <2>0, <2>1, <2>3 DEF Key
  <2>5. h \notin stale => \A k \in Key \ given : new[k] = stored[k]
    BY <2>1, <2>3
  <2>6. WriteRow(h, new, given, current) /\ current \in BOOLEAN
    BY <2>2
  <2> HIDE DEF new, current
  <2> QED
    BY <2>1, <2>3, <2>4, <2>5, <2>6, Written
<1>11. ASSUME NEW h \in Handler, ReferralRead(h) PROVE FieldsInv'
  <2> DEFINE state == [at |-> "refer", row |-> stored]
  <2>1. state.at = "refer" /\ state.row = stored /\ "row" \in DOMAIN state /\ Now(h, state) /\ doing[h].at = "free"
        /\ UNCHANGED <<def, stored, stale, excused, trampled>> /\ present'
    BY <1>11 DEF ReferralRead, Doing
  <2> HIDE DEF state
  <2> QED
    BY <1>0, <2>1, WentOn
<1>12. ASSUME NEW h \in Handler, ReferralWrite(h) PROVE FieldsInv'
  <2> DEFINE new == [doing[h].row EXCEPT ![Referral] = Unchecked]
             current == h \notin stale
  <2>1. doing[h].at = "refer" /\ IsColumn(doing[h].row) /\ (h \notin stale => doing[h].row = stored) /\ present
    BY <1>0, <1>12 DEF ReferralWrite, Doing, CopiesCurrent, HoldsRow, AbsentIsEmpty
  <2>0. Unchecked.by = "other"
    BY DEF Unchecked
  <2>2. IsColumn(new) /\ new[Referral] = Unchecked /\ \A k \in Key \ {Referral} : new[k] = doing[h].row[k]
    BY <2>1 DEF IsColumn, Key
  <2>3. WriteRow(h, new, {Referral}, current) /\ current \in BOOLEAN
    BY <1>12 DEF ReferralWrite
  <2>4. current => \A f \in Field : new[f] = stored[f] \/ new[f].by \notin {"form", "import"}
    BY <2>1, <2>2, <2>0 DEF Key
  <2>5. h \notin stale => \A k \in Key \ {Referral} : new[k] = stored[k]
    BY <2>1, <2>2
  <2> HIDE DEF new, current
  <2> QED
    BY <2>1, <2>2, <2>3, <2>4, <2>5, Written
<1>13. ASSUME NEW h \in Handler, ReplaceFields(h) PROVE FieldsInv'
  <2>1. PICK keys \in SUBSET DOMAIN stored : WriteRow(h, Sent(keys), DOMAIN stored, TRUE)
    BY <1>13 DEF ReplaceFields
  <2> DEFINE new == Sent(keys)
  <2>2. DOMAIN stored = Key
    BY <1>0 DEF IsColumn
  <2>3. IsColumn(new) /\ \A k \in Key : new[k].by \in {"other", "none"}
    BY <2>2 DEF IsColumn, NoValue, Unchecked, Sent
  <2>4. doing[h].at = "free" /\ present /\ WriteRow(h, new, Key, TRUE)
    BY <1>13, <2>1, <2>2 DEF ReplaceFields, Doing
  <2> HIDE DEF new
  <2> QED
    BY <2>3, <2>4, Written DEF Key
<1>14. CASE Crash
  BY <1>0, <1>14 DEF Crash, FieldsInv, HandlersKnown, IsColumn, Key, CopiesCurrent, AbsentIsEmpty, HoldsRow, FieldsNamed,
                     ValuesChecked, OthersValuesKept, ValuesFollowDefinitions, Uncleaned, Doing, AtRest
<1>16. ASSUME NEW h \in Handler, ImportCreate(h) PROVE FieldsInv'
  <2> DEFINE current == doing[h].defs = def
  <2>1. PICK given \in SUBSET Columns(h) : NewRow(h, Merged(Empty, given), current)
    BY <1>16 DEF ImportCreate
  <2> DEFINE new == Merged(Empty, given)
  <2>2. doing[h].at = "make" /\ \A f \in given : f \in Field /\ doing[h].defs[f] # "none"
    BY <1>16, <2>1 DEF Columns, ImportCreate, Doing
  <2>3. IsColumn(new) /\ \A k \in Key : IF k \in given THEN new[k].by = "import" ELSE new[k] = NoValue
    BY DEF IsColumn, Merged, Empty, Key
  <2>4. NewRow(h, new, current) /\ current \in BOOLEAN
    BY <2>1
  <2>5. current => \A f \in Field : new[f] = NoValue \/ (def[f] # "none" /\ new[f].by = "import")
    BY <2>2, <2>3 DEF Key
  <2> HIDE DEF new, current
  <2> QED
    BY <1>16, <2>2, <2>3, <2>4, <2>5, Made DEF ImportCreate
<1>17. ASSUME NEW h \in Handler, CreateContact(h) PROVE FieldsInv'
  <2>1. PICK keys \in SUBSET DOMAIN stored : NewRow(h, Sent(keys), TRUE)
    BY <1>17 DEF CreateContact
  <2> DEFINE new == Sent(keys)
  <2>2. DOMAIN stored = Key
    BY <1>0 DEF IsColumn
  <2>3. IsColumn(new) /\ \A k \in Key : new[k].by \in {"other", "none"}
    BY <2>2 DEF IsColumn, NoValue, Unchecked, Sent
  <2>4. doing[h].at = "free" /\ ~present /\ NewRow(h, new, TRUE)
    BY <1>17, <2>1 DEF CreateContact, Doing
  <2> HIDE DEF new
  <2> QED
    BY <2>3, <2>4, Made DEF Key
<1>18. CASE DropContact
  <2>1. stored' = Empty /\ stale' = {} /\ UNCHANGED <<def, excused, trampled>>
        /\ doing' = [h \in Handler |-> IF h \in Holding THEN AtRest ELSE doing[h]]
    BY <1>18 DEF DropContact
  <2>2. \A h \in Handler : doing'[h] = AtRest \/ (h \notin Holding /\ doing'[h] = doing[h])
    BY <2>1
  <2>3. AtRest.at = "free" /\ NoValue.by = "none"
    BY DEF AtRest, NoValue
  <2>4. IsColumn(Empty) /\ \A k \in Key : Empty[k] = NoValue
    BY DEF IsColumn, Key, Empty
  <2>5. HandlersKnown' /\ \A h \in Handler : ~HoldsRow(h)'
    <3>1. HandlersKnown'
      BY <2>1 DEF HandlersKnown
    <3>2. ASSUME NEW h \in Handler PROVE ~HoldsRow(h)'
      <4>1. h \notin Holding => ~HoldsRow(h)
        BY <1>0 DEF CopiesCurrent
      <4> QED
        BY <2>2, <2>3, <4>1 DEF HoldsRow
    <3> QED
      BY <3>1, <3>2
  <2>6. FieldsNamed' /\ ValuesChecked'
    BY <2>2, <2>3 DEF FieldsInv, FieldsNamed, ValuesChecked, Doing
  <2>7. ValuesFollowDefinitions' /\ OthersValuesKept'
    BY <2>1, <2>3, <2>4 DEF FieldsInv, ValuesFollowDefinitions, OthersValuesKept, Key
  <2> QED
    BY <1>0, <2>1, <2>4, <2>5, <2>6, <2>7 DEF FieldsInv, CopiesCurrent, AbsentIsEmpty, IsColumn, Key
<1>19. ASSUME NEW h \in Handler, BreakOff(h) PROVE FieldsInv'
  <2>1. Now(h, AtRest) /\ stale' = stale \ {h} /\ excused' = excused \cup Uncleaned({h})
        /\ UNCHANGED <<def, present, stored, trampled>>
    BY <1>19 DEF BreakOff
  <2>2. HandlersKnown' /\ doing'[h] = AtRest /\ \A g \in Handler \ {h} : doing'[g] = doing[g]
    BY <1>0, <2>1, Turned
  <2>3. AtRest.at = "free"
    BY DEF AtRest
  <2>4. CopiesCurrent' /\ AbsentIsEmpty' /\ FieldsNamed' /\ ValuesChecked'
    BY <1>0, <2>1, <2>2, <2>3
    DEF FieldsInv, CopiesCurrent, AbsentIsEmpty, HoldsRow, Holding, FieldsNamed, ValuesChecked, Doing, IsColumn, Key
  <2>5. \A f \in Field : f \in Uncleaned(Handler) => f \in Uncleaned(Handler)' \/ f \in excused'
    BY <2>1, <2>2 DEF Uncleaned
  <2>6. ValuesFollowDefinitions'
    BY <2>1, <2>5 DEF FieldsInv, ValuesFollowDefinitions
  <2> QED
    BY <1>0, <2>1, <2>2, <2>4, <2>6 DEF FieldsInv, OthersValuesKept, IsColumn, Key
<1>15. CASE UNCHANGED fieldVars
  BY <1>15 DEF fieldVars, FieldsInv, HandlersKnown, IsColumn, Key, CopiesCurrent, AbsentIsEmpty, HoldsRow, Holding, FieldsNamed,
               ValuesChecked, OthersValuesKept, ValuesFollowDefinitions, Uncleaned, Doing
<1> QED
  BY <1>1, <1>2, <1>3, <1>4, <1>5, <1>6, <1>7, <1>8, <1>9, <1>10, <1>11, <1>12, <1>13, <1>14, <1>15, <1>16, <1>17, <1>18, <1>19
  DEF FieldsNext, Handle

\* A writer of the column whose copy of it is current leaves the values it does not
\* name alone.
THEOREM ValuesOfOthersAreKept == FieldsSpec => []OthersValuesKept
<1>1. FieldsInv => OthersValuesKept
  BY DEF FieldsInv
<1> QED
  BY <1>1, InitFieldsInv, NextFieldsInv, PTL DEF FieldsSpec

\* The values of a field follow its definition, also when the field is deleted and
\* defined again, but for overlaps, a crash in a deletion and a change of its type.
THEOREM DefinitionsAreFollowed == FieldsSpec => []ValuesFollowDefinitions
<1>1. FieldsInv => ValuesFollowDefinitions
  BY DEF FieldsInv
<1> QED
  BY <1>1, InitFieldsInv, NextFieldsInv, PTL DEF FieldsSpec

-----------------------------------------------------------------------------
(***************************************************************************)
(* Registries.  Until a write is lost, each use of an open item (a pending *)
(* invitation, a draft ad) is that of a call that has yet to close it or   *)
(* was cut short; and an item is opened once, before anyone can use it.    *)
(***************************************************************************)
IsList(l) == l = [i \in Item |-> l[i]]

TaskKnown(t) ==
    /\ t.at \in {"idle", "save", "grant", "buy", "submit", "strike", "enter"}
    /\ t.at = "save" => IsList(t.read) /\ IsList(t.write)
    /\ t.at \in {"grant", "buy", "submit", "strike", "enter"} => t.item \in Item
    /\ t.at = "grant" => IsList(t.read) /\ t.read[t.item] \in Open
    /\ t.at = "enter" => t.as \in {"completed", "failed"}
    /\ registry = "backup" => t.at \in {"idle", "save", "enter"}

RegistryKnown ==
    /\ task = [c \in Clerk |-> task[c]] /\ \A c \in Clerk : TaskKnown(task[c])
    /\ IsList(list) /\ uses \in [Item -> Nat] /\ cuts \in [Item -> Nat]
    /\ disk \subseteq Files(Item)

Enters(t, i) == t.at \in {"grant", "buy"} /\ t.item = i
Closes(t, i) == \/ t.at = "submit" /\ t.item = i
                \/ t.at = "save" /\ t.write[i] \notin Open /\ t.read[i] \in Open
Opens(t, i) == t.at = "save" /\ t.write[i] \in Open /\ t.read[i] \notin Open

Entering(i) == {c \in Clerk : Enters(task[c], i)}
Opening(i) == {c \in Clerk : Opens(task[c], i)}

UsesBounded(i) ==
    /\ list[i] \in Open => uses[i] <= Cardinality(Closing(i)) + cuts[i]
    /\ (i \notin issued \/ Opening(i) # {}) => list[i] \notin Open /\ uses[i] = 0 /\ Entering(i) = {}
    /\ Opening(i) # {} => i \in issued
    /\ \A c, d \in Opening(i) : c = d

UsesInv == ~lost => \A i \in Item : UsesBounded(i)

LEMMA TurnTaken ==
    ASSUME RegistryKnown, NEW c \in Clerk, NEW state, Turn(c, state)
    PROVE  /\ task' = [d \in Clerk |-> task'[d]] /\ task'[c] = state
           /\ \A d \in Clerk \ {c} : task'[d] = task[d]
BY DEF RegistryKnown, Turn

\* What a clerk who does not write the list may do to an item.
Leaves(t, state, i) ==
    /\ uses'[i] = uses[i] /\ ~Opens(state, i)
    /\ Enters(state, i) => Enters(t, i) \/ list[i] \in Open
    /\ Closes(t, i) => \/ Closes(state, i) \/ list[i] \notin Open
                       \/ cuts'[i] = cuts[i] + 1

Uses(t, state, i) ==
    /\ uses'[i] = uses[i] + 1
    /\ Enters(t, i) /\ ~Closes(t, i) /\ Closes(state, i) /\ ~Enters(state, i) /\ ~Opens(state, i)

Introduces(t, state, i) ==
    /\ uses'[i] = uses[i] /\ i \notin issued /\ i \in issued'
    /\ ~Closes(t, i) /\ ~Enters(state, i) /\ ~Closes(state, i)

LEMMA UsesStayBounded ==
    ASSUME RegistryKnown, NEW c \in Clerk, NEW state, Turn(c, state), list' = list, issued \subseteq issued',
           NEW i \in Item, UsesBounded(i), cuts'[i] \in {cuts[i], cuts[i] + 1},
           \/ Leaves(task[c], state, i) \/ Uses(task[c], state, i) \/ Introduces(task[c], state, i)
    PROVE  UsesBounded(i)'
<1> DEFINE E == Entering(i)
           C == Closing(i)
           O == Opening(i)
<1>1. task'[c] = state /\ \A d \in Clerk \ {c} : task'[d] = task[d]
  BY TurnTaken
<1>2. E' \ {c} = E \ {c} /\ C' \ {c} = C \ {c} /\ O' \ {c} = O \ {c}
  BY <1>1 DEF Entering, Closing, On, Opening, Enters, Opens
<1>3. /\ c \in E <=> Enters(task[c], i)
      /\ c \in C <=> Closes(task[c], i)
      /\ c \in O <=> Opens(task[c], i)
      /\ c \in E' <=> Enters(state, i)
      /\ c \in C' <=> Closes(state, i)
      /\ c \in O' <=> Opens(state, i)
  BY <1>1 DEF Entering, Closing, On, Opening, Enters, Closes, Opens
<1>4. C \subseteq Clerk /\ C' \subseteq Clerk
  BY DEF Closing
<1>5. IsFiniteSet(C) /\ IsFiniteSet(C') /\ Cardinality(C) \in Nat /\ Cardinality(C') \in Nat
  BY <1>4, RegistryAssumption, FS_Subset, FS_CardinalityType
<1>6. uses[i] \in Nat /\ cuts[i] \in Nat
  BY DEF RegistryKnown
<1>7. /\ list[i] \in Open => uses[i] <= Cardinality(C) + cuts[i]
      /\ (i \notin issued \/ O # {}) => list[i] \notin Open /\ uses[i] = 0 /\ E = {}
      /\ O # {} => i \in issued
      /\ \A a, b \in O : a = b
  BY DEF UsesBounded
<1> SUFFICES /\ list[i] \in Open => uses'[i] <= Cardinality(C') + cuts'[i]
             /\ (i \notin issued' \/ O' # {}) => list[i] \notin Open /\ uses'[i] = 0 /\ E' = {}
             /\ O' # {} => i \in issued'
             /\ \A a, b \in O' : a = b
  BY DEF UsesBounded
<1> HIDE DEF E, C, O
<1>8. CASE Leaves(task[c], state, i)
  <2>1. uses'[i] = uses[i] /\ O' \subseteq O /\ (list[i] \notin Open => E' \subseteq E)
    BY <1>2, <1>3, <1>8 DEF Leaves
  <2>2. CASE C \subseteq C'
    <3>1. Cardinality(C) <= Cardinality(C')
      BY <2>2, <1>5, FS_Subset
    <3> QED
      BY <1>5, <1>6, <1>7, <2>1, <3>1
  <2>3. CASE c \in C /\ C \ {c} \subseteq C' /\ cuts'[i] = cuts[i] + 1
    <3>1. IsFiniteSet(C \ {c}) /\ Cardinality(C \ {c}) = Cardinality(C) - 1
      BY <2>3, <1>5, FS_RemoveElement
    <3>2. Cardinality(C \ {c}) <= Cardinality(C')
      BY <2>3, <3>1, <1>5, FS_Subset
    <3> QED
      BY <1>5, <1>6, <1>7, <2>1, <2>3, <3>1, <3>2
  <2>4. list[i] \notin Open \/ C \subseteq C' \/ (c \in C /\ C \ {c} \subseteq C' /\ cuts'[i] = cuts[i] + 1)
    BY <1>2, <1>3, <1>8 DEF Leaves
  <2> QED
    BY <1>7, <2>1, <2>2, <2>3, <2>4
<1>9. CASE Uses(task[c], state, i)
  <2>1. C' = C \cup {c} /\ c \notin C /\ E' = E \ {c} /\ c \in E /\ O' \subseteq O
    BY <1>2, <1>3, <1>9 DEF Uses
  <2>2. Cardinality(C') = Cardinality(C) + 1
    BY <2>1, <1>5, FS_AddElement
  <2>3. uses'[i] = uses[i] + 1
    BY <1>9 DEF Uses
  <2> QED
    BY <1>5, <1>6, <1>7, <2>1, <2>2, <2>3
<1>10. CASE Introduces(task[c], state, i)
  <2>1. O = {} /\ list[i] \notin Open /\ uses[i] = 0 /\ E = {} /\ E' = {} /\ O' \subseteq {c}
    BY <1>2, <1>3, <1>7, <1>10 DEF Introduces
  <2>2. uses'[i] = 0 /\ i \in issued'
    BY <1>10, <2>1 DEF Introduces
  <2> QED
    BY <1>7, <2>1, <2>2
<1> QED
  BY <1>8, <1>9, <1>10

LEMMA InitRegistryKnown == RegistryInit => RegistryKnown /\ UsesInv
<1> SUFFICES ASSUME RegistryInit PROVE RegistryKnown /\ UsesInv
  OBVIOUS
<1>1. RegistryKnown
  BY DEF RegistryInit, RegistryKnown, TaskKnown, IsList, Idle
<1>2. ASSUME NEW i \in Item PROVE UsesBounded(i)
  <2>1. Entering(i) = {} /\ Opening(i) = {}
    BY DEF RegistryInit, Entering, Opening, Enters, Opens, Idle
  <2>2. list[i] \notin Open /\ uses[i] = 0
    BY DEF RegistryInit, Open
  <2> QED
    BY <2>1, <2>2 DEF UsesBounded
<1> QED
  BY <1>1, <1>2 DEF UsesInv

LEMMA RegistryStaysKnown ==
    ASSUME RegistryKnown, NEW c \in Clerk, NEW state, Turn(c, state), TaskKnown(state), registry' = registry,
           IsList(list)', uses' \in [Item -> Nat], cuts' \in [Item -> Nat], disk' \subseteq Files(Item)
    PROVE  RegistryKnown'
<1>1. task' = [d \in Clerk |-> task'[d]] /\ task'[c] = state /\ \A d \in Clerk \ {c} : task'[d] = task[d]
  BY TurnTaken
<1>2. ASSUME NEW d \in Clerk PROVE TaskKnown(task[d])'
  <2>1. TaskKnown(task'[d])
    BY <1>1 DEF RegistryKnown
  <2> QED
    BY <2>1 DEF TaskKnown, IsList
<1> QED
  BY <1>1, <1>2 DEF RegistryKnown

\* A clerk who is about to change one item leaves the others as they were read.
Altered(i, status) == [at |-> "save", read |-> list, write |-> [list EXCEPT ![i] = status]]

LEMMA Changing ==
    ASSUME RegistryKnown, NEW c \in Clerk, NEW i \in Item, NEW status, Change(c, i, status)
    PROVE  /\ Turn(c, Altered(i, status)) /\ TaskKnown(Altered(i, status))
           /\ \A j \in Item :
                /\ ~Enters(Altered(i, status), j)
                /\ Closes(Altered(i, status), j) <=> (j = i /\ list[i] \in Open /\ status \notin Open)
                /\ Opens(Altered(i, status), j) <=> (j = i /\ list[i] \notin Open /\ status \in Open)
<1> DEFINE state == Altered(i, status)
<1>1. Turn(c, state) /\ state.at = "save" /\ state.read = list /\ state.write = [list EXCEPT ![i] = status]
  BY DEF Change, Altered
<1>2. IsList(list)
  BY DEF RegistryKnown
<1> HIDE DEF state
<1>3. IsList(state.write) /\ state.write[i] = status /\ \A j \in Item \ {i} : state.write[j] = list[j]
  BY <1>1, <1>2 DEF IsList
<1>4. TaskKnown(state)
  BY <1>1, <1>2, <1>3 DEF TaskKnown
<1>5. ASSUME NEW j \in Item
      PROVE  /\ ~Enters(state, j)
             /\ Closes(state, j) <=> (j = i /\ list[i] \in Open /\ status \notin Open)
             /\ Opens(state, j) <=> (j = i /\ list[i] \notin Open /\ status \in Open)
  <2>1. CASE j = i
    BY <1>1, <1>3, <2>1 DEF Enters, Closes, Opens
  <2>2. CASE j # i
    BY <1>1, <1>3, <2>2 DEF Enters, Closes, Opens
  <2> QED
    BY <2>1, <2>2
<1> QED
  BY <1>1, <1>4, <1>5 DEF state

RegistryInv == RegistryKnown /\ UsesInv

\* The step of a clerk who does not write the list.
LEMMA ClerkWorks ==
    ASSUME RegistryInv, NEW c \in Clerk, NEW state, Turn(c, state), TaskKnown(state),
           UNCHANGED <<registry, list, lost>>, issued \subseteq issued',
           uses' \in [Item -> Nat], disk' \subseteq Files(Item),
           cuts' \in [Item -> Nat], \A i \in Item : cuts'[i] \in {cuts[i], cuts[i] + 1},
           \A i \in Item : Leaves(task[c], state, i) \/ Uses(task[c], state, i) \/ Introduces(task[c], state, i)
    PROVE  RegistryInv'
<1>1. RegistryKnown'
  BY RegistryStaysKnown DEF RegistryInv, RegistryKnown, IsList
<1>2. ASSUME NEW i \in Item, ~lost PROVE UsesBounded(i)'
  <2>1. RegistryKnown /\ UsesBounded(i)
    BY <1>2 DEF RegistryInv, UsesInv
  <2> QED
    BY <2>1, UsesStayBounded
<1> QED
  BY <1>1, <1>2 DEF RegistryInv, UsesInv

\* The write of a list that is still the one read.
LEMMA SaveKeepsBounds ==
    ASSUME RegistryKnown, NEW c \in Clerk, Save(c), list = task[c].read, NEW i \in Item, UsesBounded(i)
    PROVE  UsesBounded(i)'
<1> DEFINE E == Entering(i)
           C == Closing(i)
           O == Opening(i)
           t == task[c]
<1>1. task'[c] = Idle /\ \A d \in Clerk \ {c} : task'[d] = task[d]
  BY TurnTaken DEF Save
<1>2. t.at = "save" /\ list' = t.write /\ UNCHANGED <<uses, issued, cuts>>
  BY DEF Save, On, Outside
<1>3. E' = E /\ C' = C \ {c} /\ O' = O \ {c}
  BY <1>1, <1>2 DEF Entering, Closing, On, Opening, Enters, Opens, Idle
<1>4. /\ c \in C <=> list[i] \in Open /\ list'[i] \notin Open
      /\ c \in O <=> list[i] \notin Open /\ list'[i] \in Open
  BY <1>2 DEF Closing, On, Opening, Opens
<1>5. /\ list[i] \in Open => uses[i] <= Cardinality(C) + cuts[i]
      /\ (i \notin issued \/ O # {}) => list[i] \notin Open /\ uses[i] = 0 /\ E = {}
      /\ O # {} => i \in issued
      /\ \A a, b \in O : a = b
  BY DEF UsesBounded
<1>6. C \subseteq Clerk
  BY DEF Closing
<1> HIDE DEF E, C
<1>7. Cardinality(C') \in Nat /\ cuts[i] \in Nat
  <2>1. IsFiniteSet(C')
    BY <1>3, <1>6, RegistryAssumption, FS_Subset
  <2> QED
    BY <2>1, FS_CardinalityType DEF RegistryKnown
<1>8. list'[i] \in Open => uses[i] <= Cardinality(C') + cuts[i]
  <2>1. CASE list[i] \in Open /\ list'[i] \in Open
    <3>1. C' = C
      BY <1>3, <1>4, <2>1
    <3> QED
      BY <2>1, <3>1, <1>5
  <2>2. CASE list[i] \notin Open /\ list'[i] \in Open
    <3>1. uses[i] = 0
      BY <1>4, <1>5, <2>2
    <3> QED
      BY <3>1, <1>7
  <2> QED
    BY <2>1, <2>2
<1>9. (i \notin issued \/ O' # {}) => list'[i] \notin Open /\ uses[i] = 0 /\ E = {}
  BY <1>3, <1>4, <1>5
<1> QED
  BY <1>2, <1>3, <1>5, <1>8, <1>9 DEF UsesBounded, E, C

LEMMA NextRegistryInv == RegistryInv /\ [RegistryNext]_registryVars => RegistryInv'
<1> SUFFICES ASSUME RegistryInv, [RegistryNext]_registryVars PROVE RegistryInv'
  OBVIOUS
<1> USE DEF upsets
<1>0. RegistryKnown /\ uses \in [Item -> Nat] /\ cuts \in [Item -> Nat] /\ disk \subseteq Files(Item) /\ IsList(list)
      /\ \A c \in Clerk : TaskKnown(task[c])
  BY DEF RegistryInv, RegistryKnown
<1>1. ASSUME NEW c \in Clerk, Save(c) PROVE RegistryInv'
  <2>1. Turn(c, Idle) /\ task[c].at = "save" /\ list' = task[c].write
        /\ UNCHANGED <<registry, uses, disk, cuts>> /\ (~lost' => ~lost /\ list = task[c].read)
    BY <1>1 DEF Save, On, Outside
  <2>2. TaskKnown(Idle)
    BY DEF TaskKnown, Idle
  <2>3. IsList(list)'
    BY <1>0, <2>1 DEF TaskKnown, IsList
  <2>4. RegistryKnown'
    BY <1>0, <2>1, <2>2, <2>3, RegistryStaysKnown
  <2> QED
    BY <1>0, <1>1, <2>1, <2>4, SaveKeepsBounds DEF RegistryInv, UsesInv
\* An item that is not opened is changed.
<1>2. ASSUME NEW c \in Clerk, NEW i \in Item, NEW status, Change(c, i, status), status \notin Open,
             UNCHANGED <<registry, list, issued, uses, lost, cuts>>, disk' \subseteq Files(Item),
             task[c].at \in {"idle", "enter", "strike"}
      PROVE  RegistryInv'
  <2> DEFINE state == Altered(i, status)
  <2>1. Turn(c, state) /\ TaskKnown(state) /\ \A j \in Item : ~Enters(state, j) /\ ~Opens(state, j)
    BY <1>0, <1>2, Changing
  <2> HIDE DEF state
  <2>2. \A j \in Item : Leaves(task[c], state, j)
    BY <1>2, <2>1 DEF Leaves, Closes
  <2> QED
    BY <1>0, <1>2, <2>1, <2>2, ClerkWorks
<1>3. ASSUME NEW c \in Clerk, NEW i \in Item, CreateInvite(c, i) \/ CreateAd(c, i) PROVE RegistryInv'
  <2>1. /\ task[c].at = "idle" /\ i \notin issued /\ issued' = issued \cup {i}
        /\ UNCHANGED <<registry, list, uses, disk, lost, cuts>>
    BY <1>3 DEF CreateInvite, CreateAd, On
  <2>2. PICK status : Change(c, i, status)
    BY <1>3 DEF CreateInvite, CreateAd
  <2> DEFINE state == Altered(i, status)
  <2>3. /\ Turn(c, state) /\ TaskKnown(state)
        /\ \A j \in Item : /\ ~Enters(state, j) /\ (j # i => ~Opens(state, j))
                           /\ Closes(state, j) => j = i /\ list[i] \in Open
    BY <1>0, <2>2, Changing
  <2> HIDE DEF state
  <2>4. ASSUME NEW j \in Item PROVE Leaves(task[c], state, j) \/ Introduces(task[c], state, j)
    <3>1. CASE j # i
      BY <2>1, <2>3, <3>1 DEF Leaves, Closes
    <3>2. CASE j = i /\ ~Closes(state, i)
      BY <2>1, <2>3, <3>2 DEF Introduces, Closes
    <3>3. CASE j = i /\ Closes(state, i)
      BY <2>1, <2>3, <3>3 DEF Leaves, Closes, Opens
    <3> QED
      BY <3>1, <3>2, <3>3
  <2> QED
    BY <1>0, <2>1, <2>3, <2>4, ClerkWorks
<1>4. ASSUME NEW c \in Clerk, NEW i \in Item, ReadInvite(c, i) PROVE RegistryInv'
  <2>1. /\ registry = "invite" /\ task[c].at = "idle" /\ list[i] = "pending"
        /\ UNCHANGED <<registry, list, issued, uses, disk, lost, cuts>>
    BY <1>4 DEF ReadInvite, On, Outside
  <2>2. CASE Change(c, i, "expired") \/ Change(c, i, "revoked")
    BY <1>0, <1>2, <2>1, <2>2 DEF Open
  <2>3. CASE Turn(c, [at |-> "grant", item |-> i, read |-> list])
    <3> DEFINE state == [at |-> "grant", item |-> i, read |-> list]
    <3>1. Turn(c, state) /\ state.at = "grant" /\ state.item = i /\ state.read = list
      BY <2>3
    <3> HIDE DEF state
    <3>2. TaskKnown(state)
      BY <1>0, <2>1, <3>1 DEF TaskKnown, Open
    <3>3. \A j \in Item : Leaves(task[c], state, j)
      BY <2>1, <3>1 DEF Leaves, Enters, Closes, Opens, Open
    <3> QED
      BY <1>0, <2>1, <3>1, <3>2, <3>3, ClerkWorks
  <2> QED
    BY <1>4, <2>2, <2>3 DEF ReadInvite
<1>5. ASSUME NEW c \in Clerk, Grant(c) PROVE RegistryInv'
  <2> DEFINE i == task[c].item
             read == task[c].read
             state == [at |-> "save", read |-> read, write |-> [read EXCEPT ![i] = "accepted"]]
  <2>1. /\ task[c].at = "grant" /\ i \in Item /\ IsList(read) /\ read[i] \in Open
        /\ uses' = [uses EXCEPT ![i] = @ + 1]
        /\ UNCHANGED <<registry, list, issued, disk, lost, cuts>>
    BY <1>0, <1>5 DEF Grant, On, TaskKnown
  <2>2. Turn(c, state) /\ state.at = "save" /\ state.read = read /\ state.write = [read EXCEPT ![i] = "accepted"]
    BY <1>5 DEF Grant
  <2> HIDE DEF state
  <2>3. IsList(state.write) /\ state.write[i] = "accepted" /\ \A j \in Item \ {i} : state.write[j] = read[j]
    BY <2>1, <2>2 DEF IsList
  <2>4. TaskKnown(state)
    BY <2>1, <2>2, <2>3 DEF TaskKnown
  <2>5. uses' \in [Item -> Nat] /\ uses'[i] = uses[i] + 1 /\ \A j \in Item \ {i} : uses'[j] = uses[j]
    BY <1>0, <2>1
  <2>6. Uses(task[c], state, i)
    BY <2>1, <2>2, <2>3, <2>5 DEF Uses, Enters, Closes, Opens, Open
  <2>7. \A j \in Item \ {i} : Leaves(task[c], state, j)
    BY <2>1, <2>2, <2>3, <2>5 DEF Leaves, Enters, Closes, Opens
  <2> QED
    BY <1>0, <2>1, <2>2, <2>4, <2>5, <2>6, <2>7, ClerkWorks
<1>6. ASSUME NEW c \in Clerk, NEW i \in Item, FindAd(c, i) PROVE RegistryInv'
  <2>1. /\ registry = "ad" /\ task[c].at = "idle" /\ list[i] = "draft"
        /\ UNCHANGED <<registry, list, issued, uses, disk, lost, cuts>>
    BY <1>6 DEF FindAd, On, Outside
  <2>2. PICK step \in {"buy", "strike"} : Turn(c, [at |-> step, item |-> i])
    BY <1>6 DEF FindAd
  <2> DEFINE state == [at |-> step, item |-> i]
  <2>3. Turn(c, state) /\ state.at = step /\ state.item = i
    BY <2>2
  <2> HIDE DEF state
  <2>4. TaskKnown(state)
    BY <2>1, <2>2, <2>3 DEF TaskKnown
  <2>5. \A j \in Item : Leaves(task[c], state, j)
    BY <2>1, <2>2, <2>3 DEF Leaves, Enters, Closes, Opens, Open
  <2> QED
    BY <1>0, <2>1, <2>3, <2>4, <2>5, ClerkWorks
<1>7. ASSUME NEW c \in Clerk, Buy(c) PROVE RegistryInv'
  <2> DEFINE i == task[c].item
             state == [at |-> "submit", item |-> i]
  <2>1. /\ task[c].at = "buy" /\ i \in Item /\ registry # "backup"
        /\ uses' \in {uses, [uses EXCEPT ![i] = @ + 1]}
        /\ UNCHANGED <<registry, list, issued, disk, lost, cuts>>
    BY <1>0, <1>7 DEF Buy, On, TaskKnown
  <2>2. Turn(c, state) /\ state.at = "submit" /\ state.item = i
    BY <1>7 DEF Buy
  <2> HIDE DEF state
  <2>3. TaskKnown(state)
    BY <2>1, <2>2 DEF TaskKnown
  <2>4. uses' \in [Item -> Nat] /\ uses'[i] \in {uses[i], uses[i] + 1} /\ \A j \in Item \ {i} : uses'[j] = uses[j]
    BY <1>0, <2>1
  <2>5. Uses(task[c], state, i) \/ Leaves(task[c], state, i)
    BY <2>1, <2>2, <2>4 DEF Uses, Leaves, Enters, Closes, Opens
  <2>6. \A j \in Item \ {i} : Leaves(task[c], state, j)
    BY <2>1, <2>2, <2>4 DEF Leaves, Enters, Closes, Opens
  <2> QED
    BY <1>0, <2>1, <2>2, <2>3, <2>4, <2>5, <2>6, ClerkWorks
<1>8. ASSUME NEW c \in Clerk, ReadAd(c) PROVE RegistryInv'
  <2> DEFINE i == task[c].item
  <2>1. task[c].at \in {"submit", "strike"} /\ i \in Item /\ UNCHANGED <<registry, list, issued, uses, disk, lost, cuts>>
    BY <1>0, <1>8 DEF ReadAd, On, TaskKnown, Outside
  <2>2. CASE task[c].at = "submit" /\ Change(c, i, "pending_review")
    <3> DEFINE state == Altered(i, "pending_review")
    <3>1. /\ Turn(c, state) /\ TaskKnown(state)
          /\ \A j \in Item : /\ ~Enters(state, j) /\ ~Opens(state, j)
                             /\ j = i /\ list[i] \in Open => Closes(state, j)
      BY <1>0, <2>1, <2>2, Changing DEF Open
    <3> HIDE DEF state
    <3>2. \A j \in Item : Leaves(task[c], state, j)
      BY <2>1, <2>2, <3>1 DEF Leaves, Closes
    <3> QED
      BY <1>0, <2>1, <3>1, <3>2, ClerkWorks
  <2>3. CASE task[c].at = "submit" /\ list[i] = "none" /\ Turn(c, Idle)
    <3>1. TaskKnown(Idle)
      BY DEF TaskKnown, Idle
    <3>2. \A j \in Item : Leaves(task[c], Idle, j)
      BY <2>1, <2>3 DEF Leaves, Enters, Closes, Opens, Idle, Open
    <3> QED
      BY <1>0, <2>1, <2>3, <3>1, <3>2, ClerkWorks
  <2>4. CASE task[c].at = "strike" /\ Change(c, i, "none")
    BY <1>0, <1>2, <2>1, <2>4 DEF Open
  <2> QED
    BY <1>8, <2>2, <2>3, <2>4 DEF ReadAd, On
<1>9. ASSUME NEW c \in Clerk, NEW i \in Item, WriteFile(c, i) PROVE RegistryInv'
  <2>0. {<<"json", i>>} \subseteq Files(Item) /\ Files({i}) \subseteq Files(Item)
    BY DEF Files
  <2>1. /\ task[c].at = "idle" /\ issued \subseteq issued' /\ disk' \subseteq Files(Item)
        /\ UNCHANGED <<registry, list, uses, lost, cuts>>
    <3>1. disk' \in {disk, disk \cup {<<"json", i>>}, disk \cup Files({i})}
      BY <1>9 DEF WriteFile
    <3>2. disk' \subseteq Files(Item)
      BY <1>0, <2>0, <3>1
    <3> QED
      BY <1>9, <3>2 DEF WriteFile, On
  <2>2. PICK as \in {"completed", "failed"} : Turn(c, [at |-> "enter", item |-> i, as |-> as])
    BY <1>9 DEF WriteFile
  <2> DEFINE state == [at |-> "enter", item |-> i, as |-> as]
  <2>3. Turn(c, state) /\ state.at = "enter" /\ state.item = i /\ state.as = as
    BY <2>2
  <2> HIDE DEF state
  <2>4. TaskKnown(state)
    BY <2>3 DEF TaskKnown
  <2>5. \A j \in Item : Leaves(task[c], state, j)
    BY <2>1, <2>3 DEF Leaves, Enters, Closes, Opens
  <2> QED
    BY <1>0, <2>1, <2>3, <2>4, <2>5, ClerkWorks
<1>10. ASSUME NEW c \in Clerk, EnterBackup(c) PROVE RegistryInv'
  <2>1. /\ task[c].at = "enter" /\ task[c].item \in Item /\ task[c].as \in {"completed", "failed"}
        /\ Change(c, task[c].item, task[c].as) /\ UNCHANGED <<registry, list, issued, uses, disk, lost, cuts>>
    BY <1>0, <1>10 DEF EnterBackup, On, TaskKnown, Outside
  <2> QED
    BY <1>0, <1>2, <2>1 DEF Open
<1>11. ASSUME NEW c \in Clerk, NEW i \in Item, DeleteBackup(c, i) PROVE RegistryInv'
  <2>1. /\ task[c].at = "idle" /\ Change(c, i, "none") /\ UNCHANGED <<registry, list, issued, uses, lost, cuts>>
        /\ disk' \subseteq Files(Item)
    BY <1>0, <1>11 DEF DeleteBackup, On
  <2> QED
    BY <1>2, <2>1 DEF Open
<1>12. ASSUME NEW c \in Clerk, CleanUp(c) PROVE RegistryInv'
  <2> DEFINE write == [i \in Item |-> IF i \in {j \in overdue : list[j] # "none"} THEN "none" ELSE list[i]]
             state == [at |-> "save", read |-> list, write |-> write]
  <2>1. /\ task[c].at = "idle" /\ Turn(c, state) /\ UNCHANGED <<registry, list, issued, uses, lost, cuts>>
        /\ disk' \subseteq Files(Item)
    BY <1>0, <1>12 DEF CleanUp, On
  <2>2. state.at = "save" /\ state.read = list /\ state.write = write
        /\ IsList(write) /\ \A j \in Item : write[j] \in {"none", list[j]}
    BY DEF IsList
  <2> HIDE DEF state, write
  <2>3. TaskKnown(state)
    BY <1>0, <2>2 DEF TaskKnown
  <2>4. \A j \in Item : Leaves(task[c], state, j)
    BY <2>1, <2>2 DEF Leaves, Enters, Closes, Opens, Open
  <2> QED
    BY <1>0, <2>1, <2>3, <2>4, ClerkWorks
<1>13. ASSUME UNCHANGED <<registry, list, issued, uses, disk, task, lost, cuts>> PROVE RegistryInv'
  <2>1. ASSUME NEW c \in Clerk PROVE TaskKnown(task[c])'
    BY <1>0, <1>13 DEF TaskKnown, IsList
  <2>2. RegistryKnown'
    BY <1>13, <2>1 DEF RegistryInv, RegistryKnown, IsList
  <2>3. ASSUME NEW i \in Item, UsesBounded(i) PROVE UsesBounded(i)'
    BY <1>13, <2>3 DEF UsesBounded, Entering, Closing, On, Opening, Enters, Opens
  <2> QED
    BY <1>13, <2>2, <2>3 DEF RegistryInv, UsesInv
<1>16. ASSUME NEW c \in Clerk, CutOff(c) PROVE RegistryInv'
  <2>1. /\ task[c].at # "idle" /\ Turn(c, Idle)
        /\ UNCHANGED <<registry, list, issued, uses, disk, lost>>
        /\ cuts' = [i \in Item |-> IF i \in Unfinished(c) THEN cuts[i] + 1 ELSE cuts[i]]
    BY <1>16 DEF CutOff, On, Outside
  <2>2. TaskKnown(Idle)
    BY DEF TaskKnown, Idle
  <2>3. ASSUME NEW i \in Item PROVE Leaves(task[c], Idle, i)
    <3>1. Closes(task[c], i) => i \in Unfinished(c)
      BY DEF Closes, Unfinished, On
    <3> QED
      BY <2>1, <3>1 DEF Leaves, Enters, Opens, Idle
  <2>4. cuts' \in [Item -> Nat] /\ \A i \in Item : cuts'[i] \in {cuts[i], cuts[i] + 1}
    BY <1>0, <2>1
  <2> QED
    BY <1>0, <2>1, <2>2, <2>3, <2>4, ClerkWorks
<1>14. ASSUME NEW i \in Item, Age(i) PROVE RegistryInv'
  BY <1>13, <1>14 DEF Age
<1>15. CASE UNCHANGED registryVars
  BY <1>13, <1>15 DEF registryVars
<1> QED
  BY <1>1, <1>3, <1>4, <1>5, <1>6, <1>7, <1>8, <1>9, <1>10, <1>11, <1>12, <1>14, <1>15, <1>16
  DEF RegistryNext, Office

\* Until a write of a list is lost, each use of an invitation that is still pending,
\* or of an ad that is still a draft, is that of a call which is yet to close it or
\* was cut short.
THEOREM UsesStayFew == RegistrySpec => []UsedByOverlap
<1>1. RegistryInv => UsedByOverlap
  BY DEF RegistryInv, UsesInv, UsesBounded, UsedByOverlap
<1>2. RegistryInit => RegistryInv
  BY InitRegistryKnown DEF RegistryInv
<1> QED
  BY <1>1, <1>2, NextRegistryInv, PTL DEF RegistrySpec

-----------------------------------------------------------------------------
(***************************************************************************)
(* The backups.  A file and its entry disagree only while a call is under  *)
(* way that will make them agree, and only one enters a new item; items a  *)
(* call about which was cut short are out of it.                           *)
(***************************************************************************)
\* What is said of files d, of which those in l were left behind.
Restorable(d, i) == <<"json", i>> \in d
Loose(d, l, i) == \E ext \in {"json", "sql"} : <<ext, i>> \in d \ l
Agree(d, l, i, status) ==
    /\ status = "completed" => Restorable(d, i)
    /\ status # "completed" => ~Loose(d, l, i)
SameFiles(i) ==
    \A ext \in {"json", "sql"} :
        /\ <<ext, i>> \in disk' <=> <<ext, i>> \in disk
        /\ <<ext, i>> \in left' <=> <<ext, i>> \in left

Alters(t, i) == t.at = "save" /\ t.write[i] # t.read[i]
Enrols(t, i) == \/ t.at = "enter" /\ t.item = i
                \/ Alters(t, i) /\ t.write[i] # "none"

FileFollowed(i) ==
    /\ \/ Agree(disk, left, i, list[i])
       \/ \E c \in Clerk : Alters(task[c], i) \/ Enrols(task[c], i)
    /\ \A c \in Clerk : Alters(task[c], i) => Agree(disk, left, i, task[c].write[i])
    /\ \A c \in Clerk : task[c].at = "enter" /\ task[c].item = i => Agree(disk, left, i, task[c].as)
    /\ \A c \in Clerk : Enrols(task[c], i) => list[i] = "none"
    /\ \A c, d \in Clerk : Enrols(task[c], i) /\ Enrols(task[d], i) => c = d
    /\ i \notin issued => /\ list[i] = "none" /\ \A ext \in {"json", "sql"} : <<ext, i>> \notin disk
                         /\ \A c \in Clerk : ~Alters(task[c], i) /\ ~Enrols(task[c], i)

FilesInv == registry = "backup" /\ ~lost => \A i \in Item : cuts[i] = 0 => FileFollowed(i)

LEMMA SameAgree ==
    ASSUME NEW i \in Item, SameFiles(i), NEW status
    PROVE  Agree(disk', left', i, status) <=> Agree(disk, left, i, status)
BY DEF SameFiles, Agree, Restorable, Loose

\* A clerk who does nothing to an item.
LEMMA FileUntouched ==
    ASSUME RegistryKnown, NEW c \in Clerk, NEW state, Turn(c, state), NEW i \in Item, FileFollowed(i),
           list'[i] = list[i], SameFiles(i), i \in issued' <=> i \in issued,
           ~Alters(task[c], i), ~Enrols(task[c], i), ~Alters(state, i), ~Enrols(state, i)
    PROVE  FileFollowed(i)'
<1>1. task'[c] = state /\ \A d \in Clerk \ {c} : task'[d] = task[d]
  BY TurnTaken
<1>2. \A d \in Clerk : /\ Alters(task'[d], i) <=> Alters(task[d], i)
                       /\ Enrols(task'[d], i) <=> Enrols(task[d], i)
                       /\ Alters(task'[d], i) \/ Enrols(task'[d], i) => task'[d] = task[d]
  BY <1>1
<1>3. \A d \in Clerk : task'[d].at = "enter" /\ task'[d].item = i => Enrols(task'[d], i)
  BY DEF Enrols
<1>4. \A status : Agree(disk', left', i, status) <=> Agree(disk, left, i, status)
  BY SameAgree
<1>5. i \notin issued => \A ext \in {"json", "sql"} : <<ext, i>> \notin disk'
  BY DEF FileFollowed, SameFiles
<1> QED
  BY <1>2, <1>3, <1>4, <1>5 DEF FileFollowed, Alters, Enrols

\* A call that is under way with an item is to change it so that file and entry agree.
LEMMA FileTurned ==
    ASSUME RegistryKnown, NEW c \in Clerk, NEW state, Turn(c, state), NEW i \in Item, FileFollowed(i),
           list' = list, i \in issued', issued \subseteq issued',
           Alters(state, i) \/ Enrols(state, i),
           Alters(state, i) => Agree(disk', left', i, state.write[i]),
           state.at = "enter" => Agree(disk', left', i, state.as),
           Enrols(state, i) => Enrols(task[c], i) \/ i \notin issued,
           \/ SameFiles(i)
           \/ i \notin issued
           \/ list[i] # "none" /\ ~Loose(disk', left', i)
    PROVE  FileFollowed(i)'
<1>1. task'[c] = state /\ \A d \in Clerk \ {c} : task'[d] = task[d]
  BY TurnTaken
<1>2. \A d \in Clerk \ {c} : Alters(task'[d], i) => Agree(disk', left', i, task'[d].write[i])
  <2> SUFFICES ASSUME NEW d \in Clerk \ {c}, Alters(task[d], i) PROVE Agree(disk', left', i, task[d].write[i])
    BY <1>1
  <2>1. i \in issued /\ Agree(disk, left, i, task[d].write[i]) /\ (list[i] # "none" => ~Enrols(task[d], i))
    BY DEF FileFollowed
  <2>2. CASE SameFiles(i)
    BY <2>1, <2>2, SameAgree
  <2>3. CASE list[i] # "none" /\ ~Loose(disk', left', i)
    BY <2>1, <2>3 DEF Agree, Enrols
  <2> QED
    BY <2>1, <2>2, <2>3
<1>3. \A d \in Clerk \ {c} : task'[d].at = "enter" /\ task'[d].item = i => Agree(disk', left', i, task'[d].as)
  <2> SUFFICES ASSUME NEW d \in Clerk \ {c}, task[d].at = "enter", task[d].item = i
               PROVE  Agree(disk', left', i, task[d].as)
    BY <1>1
  <2>1. Enrols(task[d], i) /\ Agree(disk, left, i, task[d].as)
    BY DEF FileFollowed, Enrols
  <2>2. i \in issued /\ list[i] = "none"
    BY <2>1 DEF FileFollowed
  <2> QED
    BY <2>1, <2>2, SameAgree
<1>4. \A d \in Clerk : Enrols(task'[d], i) => list[i] = "none"
  BY <1>1 DEF FileFollowed
<1>5. \A d, e \in Clerk : Enrols(task'[d], i) /\ Enrols(task'[e], i) => d = e
  BY <1>1 DEF FileFollowed
<1>6. Alters(task'[c], i) => Agree(disk', left', i, task'[c].write[i])
  BY <1>1
<1>7. task'[c].at = "enter" => Agree(disk', left', i, task'[c].as)
  BY <1>1
<1>8. \E d \in Clerk : Alters(task'[d], i) \/ Enrols(task'[d], i)
  BY <1>1
<1>9. (\A d \in Clerk : Alters(task[d], i) => Agree(disk, left, i, task[d].write[i]))'
  BY <1>2, <1>6 DEF Alters
<1>10. (\A d \in Clerk : task[d].at = "enter" /\ task[d].item = i => Agree(disk, left, i, task[d].as))'
  BY <1>3, <1>7
<1>11. (\A d \in Clerk : Enrols(task[d], i) => list[i] = "none")'
  BY <1>4 DEF Enrols, Alters
<1>12. (\A d, e \in Clerk : Enrols(task[d], i) /\ Enrols(task[e], i) => d = e)'
  BY <1>5 DEF Enrols, Alters
<1>13. (\E d \in Clerk : Alters(task[d], i) \/ Enrols(task[d], i))'
  BY <1>8 DEF Enrols, Alters
<1> QED
  BY <1>9, <1>10, <1>11, <1>12, <1>13 DEF FileFollowed

LEMMA NextFilesInv == RegistryInv /\ FilesInv /\ [RegistryNext]_registryVars => FilesInv'
<1> SUFFICES ASSUME RegistryInv, FilesInv, [RegistryNext]_registryVars, registry' = "backup", ~lost',
                    NEW i \in Item, cuts'[i] = 0
             PROVE  FileFollowed(i)'
  BY DEF FilesInv
<1> USE DEF upsets
<1>0. RegistryKnown /\ IsList(list) /\ \A c \in Clerk : TaskKnown(task[c])
  BY DEF RegistryInv, RegistryKnown
<1>1. registry = "backup" /\ ~lost /\ cuts[i] = 0
  <2> DEFINE Kept == registry' = registry /\ (~lost' => ~lost) /\ (cuts'[i] = 0 => cuts[i] = 0)
  <2>1. ASSUME NEW c \in Clerk, Office(c) PROVE Kept
    <3>1. CASE Grant(c) \/ Buy(c) \/ ReadAd(c) \/ EnterBackup(c) \/ CleanUp(c)
      BY <3>1 DEF Grant, Buy, ReadAd, EnterBackup, CleanUp, Outside
    <3>2. CASE Save(c)
      BY <3>2 DEF Save, Outside
    <3>4. CASE CutOff(c)
      <4>1. cuts' = [j \in Item |-> IF j \in Unfinished(c) THEN cuts[j] + 1 ELSE cuts[j]]
        BY <3>4 DEF CutOff
      <4>2. cuts[i] \in Nat
        BY <1>0 DEF RegistryKnown
      <4> QED
        BY <3>4, <4>1, <4>2 DEF CutOff, Outside
    <3>3. ASSUME NEW j \in Item, CreateInvite(c, j) \/ ReadInvite(c, j) \/ CreateAd(c, j)
                               \/ FindAd(c, j) \/ WriteFile(c, j) \/ DeleteBackup(c, j)
          PROVE  Kept
      BY <3>3 DEF CreateInvite, ReadInvite, CreateAd, FindAd, WriteFile, DeleteBackup, Outside
    <3> QED
      BY <2>1, <3>1, <3>2, <3>3, <3>4 DEF Office
  <2>2. ASSUME NEW j \in Item, Age(j) PROVE Kept
    BY <2>2 DEF Age
  <2> QED
    BY <2>1, <2>2 DEF RegistryNext, registryVars
<1>2. FileFollowed(i) /\ \A c \in Clerk : task[c].at \in {"idle", "save", "enter"}
  BY <1>0, <1>1 DEF FilesInv, TaskKnown
<1>3. ASSUME NEW c \in Clerk, Save(c) PROVE FileFollowed(i)'
  <2>1. /\ Turn(c, Idle) /\ task[c].at = "save" /\ list' = task[c].write /\ list = task[c].read
        /\ UNCHANGED <<issued, disk, left>>
    BY <1>3 DEF Save, On, Outside
  <2>2. ~Alters(Idle, i) /\ ~Enrols(Idle, i)
    BY DEF Alters, Enrols, Idle
  <2>3. CASE list'[i] = list[i]
    <3>1. ~Alters(task[c], i) /\ ~Enrols(task[c], i) /\ SameFiles(i)
      BY <2>1, <2>3 DEF Alters, Enrols, SameFiles
    <3> QED
      BY <1>0, <1>2, <2>1, <2>2, <2>3, <3>1, FileUntouched
  <2>4. CASE list'[i] # list[i]
    <3>1. Alters(task[c], i) /\ Agree(disk, left, i, list'[i])
      BY <1>2, <2>1, <2>4 DEF Alters, FileFollowed
    <3>2. task'[c] = Idle /\ \A d \in Clerk \ {c} : task'[d] = task[d]
      BY <1>0, <2>1, TurnTaken
    <3>3. \A d \in Clerk : Enrols(task'[d], i) => list'[i] = "none"
      <4> SUFFICES ASSUME NEW d \in Clerk \ {c}, Enrols(task[d], i) PROVE list'[i] = "none"
        BY <2>2, <3>2
      <4>1. ~Enrols(task[c], i)
        BY <1>2 DEF FileFollowed
      <4> QED
        BY <2>1, <3>1, <4>1 DEF Enrols
    <3>4. i \in issued
      BY <1>2, <3>1 DEF FileFollowed
    <3>5. \A d \in Clerk : Alters(task'[d], i) \/ Enrols(task'[d], i) => task'[d] = task[d]
      BY <2>2, <3>2
    <3>6. \A d \in Clerk : task'[d].at = "enter" /\ task'[d].item = i => Enrols(task'[d], i)
      BY DEF Enrols
    <3> QED
      BY <1>2, <2>1, <3>1, <3>3, <3>4, <3>5, <3>6 DEF FileFollowed, Agree
  <2> QED
    BY <2>3, <2>4
\* Calls about one item leave the others alone.
<1>4. ASSUME NEW c \in Clerk, NEW j \in Item, j # i, NEW state, Turn(c, state), list' = list,
             task[c].at = "idle" \/ (task[c].at = "enter" /\ task[c].item = j),
             SameFiles(i), i \in issued' <=> i \in issued,
             ~Alters(state, i), ~Enrols(state, i)
      PROVE  FileFollowed(i)'
  <2>1. ~Alters(task[c], i) /\ ~Enrols(task[c], i)
    BY <1>4 DEF Alters, Enrols
  <2> QED
    BY <1>0, <1>2, <1>4, <2>1, FileUntouched
<1>5. ASSUME NEW c \in Clerk, NEW j \in Item, NEW status, Change(c, j, status)
      PROVE  /\ Turn(c, Altered(j, status))
             /\ Altered(j, status).at = "save"
             /\ Altered(j, status).read = list
             /\ Altered(j, status).write[j] = status
             /\ j # i => ~Alters(Altered(j, status), i) /\ ~Enrols(Altered(j, status), i)
  BY <1>0, <1>5 DEF Change, Altered, IsList, Alters, Enrols
<1>6. ASSUME NEW c \in Clerk, NEW j \in Item, WriteFile(c, j) PROVE FileFollowed(i)'
  <2>1. /\ task[c].at = "idle" /\ j \notin issued /\ issued' = issued \cup {j}
        /\ UNCHANGED <<list, left>>
    BY <1>6 DEF WriteFile, On
  <2>2. PICK as \in {"completed", "failed"} :
               /\ IF as = "completed" THEN disk' \in {disk \cup {<<"json", j>>}, disk \cup Files({j})}
                  ELSE disk' = disk
               /\ Turn(c, [at |-> "enter", item |-> j, as |-> as])
    BY <1>6 DEF WriteFile
  <2> DEFINE state == [at |-> "enter", item |-> j, as |-> as]
  <2>3. Turn(c, state) /\ state.at = "enter" /\ state.item = j /\ state.as = as
    BY <2>2
  <2> HIDE DEF state
  <2>4. CASE j # i
    <3>1. \A ext \in {"json", "sql"} : <<ext, i>> \notin {<<"json", j>>} /\ <<ext, i>> \notin Files({j})
      BY <2>4 DEF Files
    <3>2. SameFiles(i)
      <4>1. disk' \in {disk, disk \cup {<<"json", j>>}, disk \cup Files({j})}
        BY <2>2
      <4> QED
        BY <2>1, <3>1, <4>1 DEF SameFiles
    <3> QED
      BY <1>4, <2>1, <2>3, <2>4, <3>2 DEF Alters, Enrols
  <2>5. CASE j = i
    <3>1. \A ext \in {"json", "sql"} : <<ext, i>> \notin disk
      BY <1>2, <2>1, <2>5 DEF FileFollowed
    <3>2. Agree(disk', left', i, state.as)
      BY <2>2, <2>3, <2>5, <3>1 DEF Agree, Restorable, Loose, Files
    <3>3. Enrols(state, i) /\ ~Alters(state, i)
      BY <2>3, <2>5 DEF Enrols, Alters
    <3> QED
      BY <1>0, <1>2, <2>1, <2>3, <2>5, <3>2, <3>3, FileTurned
  <2> QED
    BY <2>4, <2>5
<1>7. ASSUME NEW c \in Clerk, EnterBackup(c) PROVE FileFollowed(i)'
  <2> DEFINE j == task[c].item
             state == Altered(j, task[c].as)
  <2>1. /\ task[c].at = "enter" /\ j \in Item /\ task[c].as # "none"
        /\ Change(c, j, task[c].as) /\ UNCHANGED <<list, issued, disk, left>>
    BY <1>0, <1>7 DEF EnterBackup, On, TaskKnown, Outside
  <2>2. /\ Turn(c, state) /\ state.at = "save" /\ state.read = list /\ state.write[j] = task[c].as
        /\ j # i => ~Alters(state, i) /\ ~Enrols(state, i)
    BY <1>5, <2>1
  <2> HIDE DEF state
  <2>5. SameFiles(i)
    BY <2>1 DEF SameFiles
  <2>3. CASE j # i
    BY <1>4, <2>1, <2>2, <2>3, <2>5
  <2>4. CASE j = i
    <3>1. Enrols(task[c], i) /\ Agree(disk, left, i, task[c].as)
      BY <1>2, <2>1, <2>4 DEF Enrols, FileFollowed
    <3>2. list[i] = "none" /\ i \in issued
      BY <1>2, <3>1 DEF FileFollowed
    <3>3. Enrols(state, i)
      BY <2>1, <2>2, <2>4, <3>2 DEF Enrols, Alters
    <3>4. Agree(disk', left', i, state.write[i])
      BY <2>1, <2>2, <2>4, <3>1 DEF Agree
    <3> QED
      BY <1>0, <1>2, <2>1, <2>2, <2>5, <3>1, <3>2, <3>3, <3>4, FileTurned
  <2> QED
    BY <2>3, <2>4
<1>8. ASSUME NEW c \in Clerk, NEW j \in Item, DeleteBackup(c, j) PROVE FileFollowed(i)'
  <2> DEFINE state == Altered(j, "none")
  <2>1. /\ task[c].at = "idle" /\ list[j] # "none"
        /\ disk' = disk \ {<<"json", j>>} /\ left' = left \cup (disk \cap {<<"sql", j>>})
        /\ Change(c, j, "none") /\ UNCHANGED <<list, issued>>
    BY <1>8 DEF DeleteBackup, On
  <2>2. /\ Turn(c, state) /\ state.at = "save" /\ state.read = list /\ state.write[j] = "none"
        /\ j # i => ~Alters(state, i) /\ ~Enrols(state, i)
    BY <1>5, <2>1
  <2> HIDE DEF state
  <2>3. CASE j # i
    <3>1. SameFiles(i)
      BY <2>1, <2>3 DEF SameFiles
    <3> QED
      BY <1>4, <2>1, <2>2, <2>3, <3>1
  <2>4. CASE j = i
    <3>1. i \in issued /\ Alters(state, i) /\ ~Enrols(state, i)
      BY <1>2, <2>1, <2>2, <2>4 DEF FileFollowed, Alters, Enrols
    <3>2. ~Loose(disk', left', i)
      BY <2>1, <2>4 DEF Loose
    <3>3. Agree(disk', left', i, state.write[i])
      BY <2>2, <2>4, <3>2 DEF Agree
    <3> QED
      BY <1>0, <1>2, <2>1, <2>2, <2>4, <3>1, <3>2, <3>3, FileTurned
  <2> QED
    BY <2>3, <2>4
<1>9. ASSUME NEW c \in Clerk, CleanUp(c) PROVE FileFollowed(i)'
  <2> DEFINE old == {j \in overdue : list[j] # "none"}
             write == [j \in Item |-> IF j \in old THEN "none" ELSE list[j]]
             state == [at |-> "save", read |-> list, write |-> write]
  <2>1. /\ task[c].at = "idle" /\ Turn(c, state) /\ UNCHANGED <<list, issued>>
    BY <1>9 DEF CleanUp, On
  <2>7. PICK stuck \in SUBSET (disk \cap Files(old)) :
               disk' = disk \ (Files(old) \ stuck) /\ left' = left \cup stuck
    BY <1>9 DEF CleanUp
  <2>2. state.at = "save" /\ state.read = list /\ state.write[i] = IF i \in old THEN "none" ELSE list[i]
    OBVIOUS
  <2>3. i \in old => list[i] # "none"
    OBVIOUS
  <2> HIDE DEF state, write, old
  <2>4. ~Alters(task[c], i) /\ ~Enrols(task[c], i)
    BY <2>1 DEF Alters, Enrols
  <2>5. CASE i \notin old
    <3>1. ~Alters(state, i) /\ ~Enrols(state, i) /\ SameFiles(i)
      BY <2>2, <2>5, <2>7 DEF Alters, Enrols, SameFiles, Files
    <3> QED
      BY <1>0, <1>2, <2>1, <2>4, <2>5, <3>1, FileUntouched
  <2>6. CASE i \in old
    <3>1. i \in issued /\ Alters(state, i) /\ ~Enrols(state, i)
      BY <1>2, <2>2, <2>3, <2>6 DEF FileFollowed, Alters, Enrols
    <3>2. ~Loose(disk', left', i)
      BY <2>6, <2>7 DEF Loose, Files
    <3>3. Agree(disk', left', i, state.write[i])
      BY <2>2, <2>6, <3>2 DEF Agree
    <3> QED
      BY <1>0, <1>2, <2>1, <2>2, <2>3, <2>6, <3>1, <3>2, <3>3, FileTurned
  <2> QED
    BY <2>5, <2>6
<1>15. ASSUME NEW c \in Clerk, CutOff(c) PROVE FileFollowed(i)'
  <2>1. /\ task[c].at \in {"save", "enter"} /\ Turn(c, Idle) /\ UNCHANGED <<list, issued, disk, left>>
        /\ cuts' = [j \in Item |-> IF j \in Unfinished(c) THEN cuts[j] + 1 ELSE cuts[j]]
    BY <1>2, <1>15 DEF CutOff, On, Outside
  <2>2. i \notin Unfinished(c)
    <3>1. cuts[i] \in Nat
      BY <1>0 DEF RegistryKnown
    <3> QED
      BY <2>1, <3>1
  <2>3. ~Alters(task[c], i) /\ ~Enrols(task[c], i) /\ ~Alters(Idle, i) /\ ~Enrols(Idle, i) /\ SameFiles(i)
    BY <2>1, <2>2 DEF Unfinished, On, Alters, Enrols, Idle, SameFiles
  <2> QED
    BY <1>0, <1>2, <2>1, <2>3, FileUntouched
<1>10. ASSUME UNCHANGED <<list, issued, disk, left, task>> PROVE FileFollowed(i)'
  BY <1>2, <1>10 DEF FileFollowed, Agree, Alters, Enrols
<1>11. ASSUME NEW j \in Item, Age(j) PROVE FileFollowed(i)'
  BY <1>10, <1>11 DEF Age
<1>12. CASE UNCHANGED registryVars
  BY <1>10, <1>12 DEF registryVars
<1>13. ASSUME NEW c \in Clerk PROVE ~Grant(c) /\ ~Buy(c) /\ ~ReadAd(c)
  BY <1>2 DEF Grant, Buy, ReadAd, On
<1>14. ASSUME NEW c \in Clerk, NEW j \in Item
       PROVE  ~CreateInvite(c, j) /\ ~ReadInvite(c, j) /\ ~CreateAd(c, j) /\ ~FindAd(c, j)
  BY <1>1 DEF CreateInvite, ReadInvite, CreateAd, FindAd
<1> QED
  BY <1>3, <1>6, <1>7, <1>8, <1>9, <1>11, <1>12, <1>13, <1>14, <1>15 DEF RegistryNext, Office

\* Until a write of the list is lost, and but for items a call about which was cut
\* short, a backup listed as completed can be restored between calls, and a file
\* without an entry is one that was left behind.
THEOREM FilesAreListed == RegistrySpec => []FilesMatchRegistry
<1>1. RegistryInit => RegistryInv /\ FilesInv
  <2> SUFFICES ASSUME RegistryInit PROVE FilesInv
    BY InitRegistryKnown DEF RegistryInv
  <2> QED
    BY DEF RegistryInit, FilesInv, FileFollowed, Agree, Loose, Alters, Enrols, Idle
<1>2. RegistryInv /\ FilesInv => FilesMatchRegistry
  <2> SUFFICES ASSUME FilesInv, registry = "backup", ~lost, \A c \in Clerk : On(c, "idle"),
                      NEW i \in Item, cuts[i] = 0
               PROVE  /\ list[i] = "completed" => <<"json", i>> \in disk
                      /\ list[i] # "completed" => disk \cap Files({i}) \subseteq left
    BY DEF FilesMatchRegistry
  <2>1. Agree(disk, left, i, list[i])
    BY DEF FilesInv, FileFollowed, Alters, Enrols, On
  <2> QED
    BY <2>1 DEF Agree, Restorable, Loose, Files
<1> QED
  BY <1>1, <1>2, NextRegistryInv, NextFilesInv, PTL DEF RegistrySpec
=============================================================================
