---------------------------- MODULE CustomFields ----------------------------
(***************************************************************************)
(* The custom fields of a workspace and their values at one contact, which *)
(* are one JSON column of the contact's row (custom-fields.service.ts, and *)
(* the imports, referrals, updates and restores that write that column).   *)
(* Four of the writers read the column, await, and write it back whole;    *)
(* the others write what they were sent.                                   *)
(***************************************************************************)
EXTENDS Naturals

CONSTANTS
    Handler,    \* slots for requests and events that are under way together
    Field,      \* keys of the fields that users define
    Referral    \* the key an advertisement's referral is stored under; createField()
                \* does not keep users from defining a field with it

VARIABLES
    def,      \* the type of each field that is defined, or "none"
    present,  \* the contact has a row
    stored,   \* contact.customFields: who wrote each value, and of what type
    doing,    \* what each handler is doing, with the rows it has read
    stale,    \* history: handlers whose copy of the column is no longer current
    excused,  \* history: fields whose values an overlap, a clean-up that did not
              \* happen or a change of the field's type has spoiled
    trampled  \* history: a handler with a current copy changed what it was not to

fieldVars == <<def, present, stored, doing, stale, excused, trampled>>

Type == {"TEXT", "NUMBER"}
NoValue == [type |-> "none", by |-> "none"]
Unchecked == [type |-> "any", by |-> "other"]   \* referrals, update(), create(), a backup
Empty == [k \in Field \cup {Referral} |-> NoValue]
AtRest == [at |-> "free"]

FieldsInit ==
    /\ def = [f \in Field |-> "none"]
    /\ present = TRUE /\ stored = Empty
    /\ doing = [h \in Handler |-> AtRest]
    /\ stale = {} /\ excused = {} /\ trampled = FALSE

Doing(h, step) == doing[h].at = step
Now(h, state) == doing' = [doing EXCEPT ![h] = state]
Holding == {h \in Handler : "row" \in DOMAIN doing[h]}

\* Handler h writes the column, to change the values at the keys in named.
WriteRow(h, new, named, current) ==
    /\ stored' = new /\ Now(h, AtRest)
    /\ stale' = (IF new = stored THEN stale ELSE stale \cup Holding) \ {h}
    /\ excused' = IF current THEN excused ELSE excused \cup {f \in Field : new[f] # stored[f]}
    /\ trampled' = (trampled \/ (h \notin stale /\ \E k \in DOMAIN new \ named : new[k] # stored[k]))
    /\ UNCHANGED <<def, present>>

\* Handler h makes the row: nobody holds a copy of its column.
NewRow(h, new, current) ==
    /\ present' = TRUE /\ stored' = new /\ Now(h, AtRest)
    /\ excused' = IF current THEN excused ELSE excused \cup {f \in Field : new[f] # NoValue}
    /\ UNCHANGED <<def, stale, trampled>>

(***************************************************************************)
(* Definitions.  The unique key decides between two createField().         *)
(***************************************************************************)
CreateField(f) ==
    /\ def[f] = "none" /\ \E t \in Type : def' = [def EXCEPT ![f] = t]
    /\ UNCHANGED <<present, stored, doing, stale, excused, trampled>>

\* updateField(): the values that are there keep their type.
UpdateField(f) ==
    /\ def[f] # "none" /\ \E t \in Type \ {def[f]} : def' = [def EXCEPT ![f] = t]
    /\ excused' = excused \cup {f}
    /\ UNCHANGED <<present, stored, doing, stale, trampled>>

\* deleteField(): the definition, then a list of the contacts, then their updates.
DeleteField(h, f) ==
    /\ Doing(h, "free") /\ def[f] # "none"
    /\ def' = [def EXCEPT ![f] = "none"] /\ Now(h, [at |-> "list", field |-> f])
    /\ UNCHANGED <<present, stored, stale, excused, trampled>>

ListValues(h) ==
    /\ Doing(h, "list")
    /\ Now(h, IF stored[doing[h].field] = NoValue THEN AtRest
              ELSE [at |-> "clean", field |-> doing[h].field, row |-> stored])
    /\ UNCHANGED <<def, present, stored, stale, excused, trampled>>

\* One transaction with the updates of the other contacts: see BreakOff.
CleanValues(h) ==
    /\ Doing(h, "clean")
    /\ WriteRow(h, [doing[h].row EXCEPT ![doing[h].field] = NoValue], {doing[h].field}, h \notin stale)

(***************************************************************************)
(* setContactCustomFields(): the contact, then the definitions, then the   *)
(* update; null removes a value.                                           *)
(***************************************************************************)
ReadContact(h) ==
    /\ Doing(h, "free") /\ present /\ Now(h, [at |-> "validate", row |-> stored])
    /\ UNCHANGED <<def, present, stored, stale, excused, trampled>>

\* Slip: the type of the value is not looked at.
Slip_AnyType(f, t) == def[f] # "none"

Valid(f, t) == def[f] # "none" /\ t \in {def[f], "none"}

ValidateFields(h) ==
    /\ Doing(h, "validate")
    /\ \/ /\ \E f \in Field : \E t \in Type \cup {"none"} :
               /\ Valid(f, t)
               /\ Now(h, [at |-> "set", row |-> doing[h].row, field |-> f, defs |-> def,
                          value |-> IF t = "none" THEN NoValue ELSE [type |-> t, by |-> "form"]])
          /\ UNCHANGED stale
       \* The request is refused.
       \/ Now(h, AtRest) /\ stale' = stale \ {h}
    /\ UNCHANGED <<def, present, stored, excused, trampled>>

SetFields(h) ==
    /\ Doing(h, "set")
    /\ WriteRow(h, [doing[h].row EXCEPT ![doing[h].field] = doing[h].value], {doing[h].field},
                h \notin stale /\ doing[h].defs = def)

(***************************************************************************)
(* importContacts(): the definitions are read once, the contact when its   *)
(* line comes.  The values of a file are texts, whatever the field's type. *)
(* Without a contact the line makes one; the unique key keeps it from      *)
(* making a second.                                                        *)
(***************************************************************************)
StartImport(h) ==
    /\ Doing(h, "free") /\ Now(h, [at |-> "import", defs |-> def])
    /\ UNCHANGED <<def, present, stored, stale, excused, trampled>>

ImportRead(h) ==
    /\ Doing(h, "import")
    /\ Now(h, IF present THEN [at |-> "merge", defs |-> doing[h].defs, row |-> stored]
                         ELSE [at |-> "make", defs |-> doing[h].defs])
    /\ UNCHANGED <<def, present, stored, stale, excused, trampled>>

\* Slip: the values of the file are written without those of the row.
Slip_NoMerge(row, given) ==
    [k \in DOMAIN row |-> IF k \in given THEN [type |-> "TEXT", by |-> "import"] ELSE NoValue]

Merged(row, given) ==
    [k \in DOMAIN row |-> IF k \in given THEN [type |-> "TEXT", by |-> "import"] ELSE row[k]]

Columns(h) == {f \in Field : doing[h].defs[f] # "none"}

ImportWrite(h) ==
    /\ Doing(h, "merge")
    /\ \E given \in SUBSET Columns(h) :
         WriteRow(h, Merged(doing[h].row, given), given, h \notin stale /\ doing[h].defs = def)

ImportCreate(h) ==
    /\ Doing(h, "make") /\ ~present
    /\ \E given \in SUBSET Columns(h) :
         NewRow(h, Merged(Empty, given), doing[h].defs = def)

(***************************************************************************)
(* handleReferral(), which makes the contact if there is none.             *)
(***************************************************************************)
ReferralRead(h) ==
    /\ Doing(h, "free") /\ Now(h, [at |-> "refer", row |-> stored]) /\ present' = TRUE
    /\ UNCHANGED <<def, stored, stale, excused, trampled>>

ReferralWrite(h) ==
    /\ Doing(h, "refer")
    /\ WriteRow(h, [doing[h].row EXCEPT ![Referral] = Unchecked], {Referral}, h \notin stale)

(***************************************************************************)
(* The writers that look at neither the column nor the definitions:        *)
(* update() with customFields puts what the client sends in place of the   *)
(* column; create() and restoreBackup() make the row with what the client  *)
(* sent and with what the backup holds.                                    *)
(***************************************************************************)
Sent(keys) == [k \in DOMAIN stored |-> IF k \in keys THEN Unchecked ELSE NoValue]

ReplaceFields(h) ==
    /\ Doing(h, "free") /\ present
    /\ \E keys \in SUBSET DOMAIN stored : WriteRow(h, Sent(keys), DOMAIN stored, TRUE)

CreateContact(h) ==
    /\ Doing(h, "free") /\ ~present
    /\ \E keys \in SUBSET DOMAIN stored : NewRow(h, Sent(keys), TRUE)

\* delete(): the next call of who holds a copy of the row throws.
DropContact ==
    /\ present /\ present' = FALSE /\ stored' = Empty /\ stale' = {}
    /\ doing' = [h \in Handler |-> IF h \in Holding THEN AtRest ELSE doing[h]]
    /\ UNCHANGED <<def, excused, trampled>>

\* Fields whose definition is gone and whose values are still to be cleaned.
Uncleaned(handlers) ==
    {f \in Field : \E h \in handlers : doing[h].at \in {"list", "clean"} /\ doing[h].field = f}

\* A call of the handler fails.  A deletion's clean-up also fails, for all contacts,
\* when one of the others it has listed is deleted before the transaction.
BreakOff(h) ==
    /\ ~Doing(h, "free") /\ Now(h, AtRest) /\ stale' = stale \ {h}
    /\ excused' = excused \cup Uncleaned({h})
    /\ UNCHANGED <<def, present, stored, trampled>>

\* The process stops: what it was doing is forgotten, also the rest of a deletion.
Crash ==
    /\ doing' = [h \in Handler |-> AtRest] /\ stale' = {}
    /\ excused' = excused \cup Uncleaned(Handler)
    /\ UNCHANGED <<def, present, stored, trampled>>

-----------------------------------------------------------------------------
Handle(h) ==
    \/ \E f \in Field : DeleteField(h, f)
    \/ ListValues(h) \/ CleanValues(h)
    \/ ReadContact(h) \/ ValidateFields(h) \/ SetFields(h)
    \/ StartImport(h) \/ ImportRead(h) \/ ImportWrite(h) \/ ImportCreate(h)
    \/ ReferralRead(h) \/ ReferralWrite(h) \/ ReplaceFields(h) \/ CreateContact(h)
    \/ BreakOff(h)

FieldsNext ==
    \/ \E h \in Handler : Handle(h)
    \/ \E f \in Field : CreateField(f) \/ UpdateField(f)
    \/ DropContact \/ Crash

FieldsSpec == FieldsInit /\ [][FieldsNext]_fieldVars

-----------------------------------------------------------------------------
(***************************************************************************)
(* Properties.                                                             *)
(***************************************************************************)
\* What the form and the imports have written follows the definition of its field,
\* through deletions and new definitions of the same key: once deleteField() is
\* through none is left, and what was set through the form has the type of the
\* field that is defined now, unless writers overlapped, the clean-up of a deletion
\* did not happen or the type was changed.
ValuesFollowDefinitions ==
    \A f \in Field \ excused :
        (stored[f].by \in {"form", "import"} /\ f \notin Uncleaned(Handler)) =>
            /\ def[f] # "none"
            /\ stored[f].by = "form" => stored[f].type = def[f]

\* The form, the imports, the referrals and the clean-up of a deletion share the
\* column, and each leaves the values of the others alone: a value is changed by
\* one that was not asked to only if that one's copy of the column was outdated.
OthersValuesKept == ~trampled
=============================================================================
