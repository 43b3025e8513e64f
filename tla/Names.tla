------------------------------- MODULE Names -------------------------------
(***************************************************************************)
(* The records of an organization that are found by a name or a document   *)
(* number: categories, customers, suppliers and expense categories.  Their *)
(* four services are one model with a parameter, the variable kind: each   *)
(* reads, compares and writes in separate statements, and only the unique  *)
(* index on the name is checked again by the write.                        *)
(*                                                                         *)
(* A name is a lookup key and a spelling.  Forms write names as they are   *)
(* typed and compare them so; an import finds a category whatever its      *)
(* letter case and creates it in title case.  Nothing is ever deleted: a   *)
(* removal makes the record inactive.                                      *)
(***************************************************************************)
EXTENDS Naturals

CONSTANTS
    NameRequests,       \* requests; each creates at most one record
    LookupKeys          \* names up to letter case

VARIABLES
    kind,               \* which of the four services
    record,             \* the records, by the request that created them
    nameRequest,        \* progress of each request
    staleEdit           \* history: an edit overlapped another change of its record

nameVars == <<kind, record, nameRequest, staleEdit>>

Kinds == {"category", "customer", "supplier", "expenseCategory"}
Spellings2 == {"typed", "Title"}
RecordNames == LookupKeys \X Spellings2
NoName == <<"none", "none">>
DefaultNames == {<<k, "Title">> : k \in LookupKeys}     \* DEFAULT_EXPENSE_CATEGORY_NAMES
RecordIds == NameRequests \cup DefaultNames

\* The names of requests are no names of records.
ASSUME NamesAssumption == NameRequests \cap (DefaultNames \cup {NoName}) = {}

NoRecord == [name |-> NoName, active |-> FALSE, used |-> FALSE, by |-> "nobody", changes |-> 0]
Recorded(h) == record[h].name # NoName
Taken(name) == \E h \in RecordIds : record[h].name = name
TakenByOther(name, h) == \E g \in RecordIds \ {h} : record[g].name = name

NameIdle == [at |-> "new", on |-> NoName, name |-> NoName, active |-> {}, changes |-> 0]
NameAt(r, step) == nameRequest[r].at = step

NamesInit ==
    /\ kind \in Kinds
    /\ record = [h \in RecordIds |-> NoRecord]
    /\ nameRequest = [r \in NameRequests |-> NameIdle]
    /\ staleEdit = FALSE

\* The first read of a request: it goes on to `step` with what it found.
BeginName(r, step, h, name, active) ==
    /\ NameAt(r, "new")
    /\ nameRequest' = [nameRequest EXCEPT ![r] =
           [at |-> step, on |-> h, name |-> name, active |-> active,
            changes |-> IF h = NoName THEN 0 ELSE record[h].changes]]
    /\ UNCHANGED <<kind, record, staleEdit>>

NameAnswer(r) == nameRequest' = [nameRequest EXCEPT ![r] = [NameIdle EXCEPT !.at = "done"]]

Insert(id, name, by) ==
    record' = [record EXCEPT ![id] = [NoRecord EXCEPT !.name = name, !.active = TRUE, !.by = by]]

Change(h, row) == record' = [record EXCEPT ![h] = [row EXCEPT !.changes = record[h].changes + 1]]

---------------------------------------------------------------------------
(* POST: the name must be free, also of inactive records *)
RecordCreateRead(r) ==
    \E name \in RecordNames : ~Taken(name) /\ BeginName(r, "create", NoName, name, {})

RecordCreateWrite(r) ==
    /\ NameAt(r, "create")
    /\ IF Taken(nameRequest[r].name) THEN UNCHANGED record
       ELSE Insert(r, nameRequest[r].name, "form")
    /\ NameAnswer(r)
    /\ UNCHANGED <<kind, staleEdit>>

\* Mutant: an inactive record may be edited.
EditableAny(h) == TRUE
\* A removed category or customer is not found; the other two are.
EditableRecord(h) == kind \in {"category", "customer"} => record[h].active

\* PUT: the new name, or the old one when none was sent; `active`, when it was
\* sent, is a field of the DTO of all but expense categories.
RecordUpdateRead(r) ==
    \E h \in RecordIds, name \in RecordNames, active \in {{}, {TRUE}, {FALSE}} :
        /\ Recorded(h)
        /\ EditableRecord(h)
        /\ ~TakenByOther(name, h)
        /\ kind = "expenseCategory" => active = {}
        /\ BeginName(r, "update", h, name, active)

RecordUpdateWrite(r) ==
    /\ NameAt(r, "update")
    /\ LET q == nameRequest[r]
       IN IF TakenByOther(q.name, q.on) THEN UNCHANGED <<record, staleEdit>>
          ELSE /\ Change(q.on, [record[q.on] EXCEPT
                       !.name = q.name,
                       !.active = IF q.active = {} THEN record[q.on].active ELSE TRUE \in q.active,
                       !.by = IF q.name = record[q.on].name THEN record[q.on].by ELSE "form"])
               /\ staleEdit' = (staleEdit \/ record[q.on].changes # q.changes)
    /\ NameAnswer(r)
    /\ UNCHANGED kind

(* DELETE: a category without products, a customer without sales *)
RecordRemoveRead(r) ==
    \E h \in RecordIds :
        /\ Recorded(h)
        /\ kind \in {"category", "customer"} => ~record[h].used
        /\ BeginName(r, "remove", h, NoName, {})

RecordRemoveWrite(r) ==
    /\ NameAt(r, "remove")
    /\ Change(nameRequest[r].on, [record[nameRequest[r].on] EXCEPT !.active = FALSE])
    /\ NameAnswer(r)
    /\ UNCHANGED <<kind, staleEdit>>

(* PATCH /suppliers/:id/reactivate *)
SupplierReactivate(r) ==
    /\ kind = "supplier"
    /\ NameAt(r, "new")
    /\ \E h \in RecordIds : Recorded(h) /\ Change(h, [record[h] EXCEPT !.active = TRUE])
    /\ NameAnswer(r)
    /\ UNCHANGED <<kind, staleEdit>>

(* A product names the category it found, a sale its customer, active or not *)
RecordUse(r) ==
    /\ kind \in {"category", "customer"}
    /\ NameAt(r, "new")
    /\ \E h \in RecordIds :
         /\ Recorded(h)
         /\ record' = [record EXCEPT ![h].used = TRUE]
    /\ NameAnswer(r)
    /\ UNCHANGED <<kind, staleEdit>>

---------------------------------------------------------------------------
(* GET /expense-categories: the first listing inserts the defaults *)
DefaultsRead(r) ==
    /\ kind = "expenseCategory"
    /\ \A h \in RecordIds : ~Recorded(h)
    /\ BeginName(r, "defaults", NoName, NoName, {})

\* createMany with skipDuplicates
DefaultsWrite(r) ==
    /\ NameAt(r, "defaults")
    /\ record' = [h \in RecordIds |->
           IF h \in DefaultNames /\ ~Taken(h) /\ ~Recorded(h)
           THEN [NoRecord EXCEPT !.name = h, !.active = TRUE, !.by = "defaults"]
           ELSE record[h]]
    /\ NameAnswer(r)
    /\ UNCHANGED <<kind, staleEdit>>

---------------------------------------------------------------------------
(* ImportsService.resolveCategory *)

Displayed(name) == <<name[1], "Title">>

\* The first category found with the key is used, and made active again;
\* otherwise one is created.
ResolveRead(r) ==
    /\ kind = "category"
    /\ \E name \in RecordNames :
         LET found == {h \in RecordIds : Recorded(h) /\ record[h].name[1] = name[1]}
         IN \/ found = {} /\ BeginName(r, "resolve", NoName, Displayed(name), {})
            \/ \E h \in found : ~record[h].active /\ BeginName(r, "revive", h, NoName, {})

ResolveCreate(r) ==
    /\ NameAt(r, "resolve")
    /\ IF Taken(nameRequest[r].name) THEN UNCHANGED record
       ELSE Insert(r, nameRequest[r].name, "import")
    /\ NameAnswer(r)
    /\ UNCHANGED <<kind, staleEdit>>

ResolveRevive(r) ==
    /\ NameAt(r, "revive")
    /\ Change(nameRequest[r].on, [record[nameRequest[r].on] EXCEPT !.active = TRUE])
    /\ NameAnswer(r)
    /\ UNCHANGED <<kind, staleEdit>>

---------------------------------------------------------------------------
NameStep(r) ==
    \/ RecordCreateWrite(r) \/ RecordUpdateWrite(r) \/ RecordRemoveWrite(r)
    \/ DefaultsWrite(r) \/ ResolveCreate(r) \/ ResolveRevive(r)

NamesNext ==
    \E r \in NameRequests :
        \/ RecordCreateRead(r) \/ RecordUpdateRead(r) \/ RecordRemoveRead(r) \/ RecordUse(r)
        \/ SupplierReactivate(r) \/ DefaultsRead(r) \/ ResolveRead(r) \/ NameStep(r)

NamesSpec == NamesInit /\ [][NamesNext]_nameVars

---------------------------------------------------------------------------
NamesTypeOK ==
    /\ kind \in Kinds
    /\ record \in [RecordIds ->
         [name : RecordNames \cup {NoName}, active : BOOLEAN, used : BOOLEAN,
          by : {"nobody", "form", "import", "defaults"}, changes : Nat]]
    /\ nameRequest \in [NameRequests ->
         [at : {"new", "create", "update", "remove", "defaults", "resolve", "revive", "done"},
          on : RecordIds \cup {NoName}, name : RecordNames \cup {NoName},
          active : SUBSET BOOLEAN, changes : Nat]]
    /\ staleEdit \in BOOLEAN

\* A removed customer or category never comes back, and its name stays taken:
\* there is no request that activates it, but an import that meets the category
\* and an edit that overlapped the removal (categories.service.ts:105-164,
\* customers.service.ts:114-174).
RemovedForGood ==
    [][\A h \in RecordIds :
          /\ kind \in {"category", "customer"}
          /\ Recorded(h) /\ ~record[h].active /\ record'[h].active
          => staleEdit' \/ \E r \in NameRequests : NameAt(r, "revive")]_nameVars
=============================================================================
