---------------------------- MODULE OfficeProofs ----------------------------
(***************************************************************************)
(* Proofs about Expenses, Settings, Tasks and Names, for every set of      *)
(* requests: overlapping requests alone leave an expense unsettled, a      *)
(* timeline with gaps or a removed record back, and nothing that was set   *)
(* is lost.                                                                *)
(*                                                                         *)
(* The four have one shape.  A request keeps what it read; the invariant   *)
(* says what that still tells of the record when the request writes, which *)
(* is everything unless another request has written since.                 *)
(***************************************************************************)
EXTENDS Expenses, Settings, Tasks, Names, TLAPS

---------------------------------------------------------------------------
(* Expenses: the inductive invariant *)

Reading == {"update", "pay", "duplicate", "remove", "upload", "replace", "attach"}
Seen(r) == expenseRequest[r].seen
Target(r) == expenseRequest[r].on

\* A request that creates an expense does nothing else.
BookedByDone(e) == Booked(e) => expenseRequest[e].at = "done"

\* What a request read was checked, and is still so when nobody has written since.
SeenChecked(r) ==
    LET q == expenseRequest[r]
    IN /\ q.at = "update" /\ q.amount = 0 => Seen(r).paid <= Seen(r).total
       /\ q.at = "update" /\ q.amount # 0 => Seen(r).paid <= q.amount
       /\ q.at = "pay" => Seen(r).paid + q.amount <= Seen(r).total
       /\ q.at = "duplicate" => Seen(r).paid <= Seen(r).total
SeenCurrent(r) ==
    expenseRequest[r].at \in Reading =>
        /\ Target(r) \in ExpenseRequests /\ Booked(Target(r))
        /\ Seen(r).writes <= expense[Target(r)].writes
        /\ Seen(r).writes = expense[Target(r)].writes =>
             Seen(r).total = expense[Target(r)].total /\ Seen(r).paid = expense[Target(r)].paid

\* An image is known once its request is done, and to one expense alone.
ImageKnown(x) == x = NoExpense \/ (x \in ExpenseRequests /\ expenseRequest[x].at = "done")
ImageOfOne(e) ==
    /\ ImageKnown(expense[e].receipt)
    /\ \A d \in ExpenseRequests :
         d # e /\ expense[e].receipt # NoExpense => expense[d].receipt # expense[e].receipt
ImageSeen(r) ==
    /\ expenseRequest[r].at \in {"replace", "attach"} => r \in receipts
    /\ ImageKnown(Seen(r).receipt)
    /\ expenseRequest[r].at \in Reading /\ Seen(r).receipt # NoExpense =>
         \A d \in ExpenseRequests \ {Target(r)} : expense[d].receipt # Seen(r).receipt

ExpensesInv ==
    /\ ExpensesTypeOK /\ SettledUnlessOverlapped /\ ReceiptsKept
    /\ \A r \in ExpenseRequests :
         BookedByDone(r) /\ SeenChecked(r) /\ SeenCurrent(r) /\ ImageOfOne(r) /\ ImageSeen(r)

---------------------------------------------------------------------------
(* Settings: the inductive invariant *)

\* The old prefix is in one of its keys, or out of the JSON for good.
PrefixKeys == {"receiptPrefix", "custom.receiptPrefix"}
PrefixIn(json) == \E k \in PrefixKeys : json[k] = Legacy
PrefixOut ==
    \/ salePrefix \in SettingsRequests \cup {Legacy}
    \/ \E r \in SettingsRequests : settingsRequest[r].at \in {"relocate", "failed"}
PrefixTyped(json) == \A k \in PrefixKeys : json[k] \in {Legacy, Unset}

\* What a request read is what there is, while the version is the same.
JsonSeen(r) ==
    LET q == settingsRequest[r]
    IN /\ q.version <= settingsVersion
       /\ PrefixTyped(q.seen)
       /\ q.at = "relocate" => q.seen["receiptPrefix"] = Legacy
       /\ q.at \in {"edit", "flags", "normalize"} =>
            /\ PrefixOut \/ PrefixIn(q.seen)
            /\ ~clobbered /\ q.version = settingsVersion =>
                 \A k \in EditableKeys : q.seen[k] = settings[k]

SettingsInv ==
    /\ SettingsTypeOK /\ EditsKept
    /\ PrefixOut \/ PrefixIn(settings)
    /\ PrefixTyped(settings)
    /\ \A r \in SettingsRequests : JsonSeen(r)

---------------------------------------------------------------------------
(* Tasks: the inductive invariant *)

Working(r) == taskRequest[r].at \notin {"new", "done"}
Events(t) == taskEvents[t]
Last(t) == Events(t)[Len(Events(t))]

\* A task that was not created has no events, one that was not removed no removal.
TaskTold(t) ==
    /\ task[t].status = "NONE" <=> Len(Events(t)) = 0
    /\ task[t].status # "NONE" => taskRequest[t].at = "done"
    /\ ~task[t].deleted => \A i \in 1..Len(Events(t)) : Events(t)[i].type # "DELETED"

\* What a request read is where the timeline ends, unless it overlapped the last event.
TaskSeen(r) ==
    Working(r) =>
        LET q == taskRequest[r]
        IN /\ q.on \in TaskRequests /\ Len(Events(q.on)) > 0 /\ q.seen \in TaskStatus
           /\ {Last(q.on).by, r} \in taskOverlap \/
                (Last(q.on).type # "DELETED" /\ Last(q.on).to = q.seen)
           /\ q.at = "status" => q.to \in AllowedTransitions[q.seen]

AllOverlap == \A r, q \in TaskRequests : r # q /\ Working(r) /\ Working(q) => {r, q} \in taskOverlap

TasksInv ==
    /\ TasksTypeOK /\ TimelineTellsStatus /\ AllOverlap
    /\ \A r \in TaskRequests : TaskTold(r) /\ TaskSeen(r)

---------------------------------------------------------------------------
(* Names: the inductive invariant *)

\* A request makes its record last; a change is of a record that is there, and an
\* edit saw it active unless it was changed since.
RequestNamed(r) ==
    LET q == nameRequest[r]
    IN /\ Recorded(r) => q.at = "done"
       /\ q.at \in {"update", "remove", "revive"} => q.on \in RecordIds /\ Recorded(q.on)
       /\ q.at \in {"create", "update", "resolve"} => q.name \in RecordNames
       /\ q.at = "update" =>
            /\ q.changes <= record[q.on].changes
            /\ q.changes = record[q.on].changes => EditableRecord(q.on)

NamesInv == NamesTypeOK /\ \A r \in NameRequests : RequestNamed(r)

---------------------------------------------------------------------------
(* Expenses: what a step leaves *)

ExpenseSteps ==
    {"new", "update", "pay", "duplicate", "remove", "upload", "replace", "attach", "done", "failed"}
Images == ExpenseRequests \cup {NoExpense}
ExpenseProgress == [at : ExpenseSteps, on : Images, seen : ExpenseRows, amount : Nat]
ExpenseDone == [ExpenseIdle EXCEPT !.at = "done"]

\* The types of expenses, by the names used here.
LEMMA ExpenseTypes ==
    ExpensesTypeOK <=>
        /\ expense \in [ExpenseRequests -> ExpenseRows] /\ receipts \subseteq ExpenseRequests
        /\ expenseRequest \in [ExpenseRequests -> ExpenseProgress]
        /\ fresh \in [ExpenseRequests -> BOOLEAN]
BY DEF ExpensesTypeOK, ExpenseProgress, ExpenseSteps, Images

\* A request that has not begun, or is done, knows of no expense.
LEMMA ExpenseIdleTyped ==
    /\ NoRow \in ExpenseRows /\ ExpenseIdle \in ExpenseProgress /\ ExpenseDone \in ExpenseProgress
    /\ ExpenseDone.at = "done" /\ ExpenseDone.seen = NoRow /\ ExpenseDone.seen.receipt = NoExpense
<1>1. NoRow \in ExpenseRows /\ NoRow.receipt = NoExpense
  BY DEF NoRow, ExpenseRows, ExpenseStatus
<1>2. ExpenseIdle \in ExpenseProgress /\ ExpenseIdle.seen = NoRow
  BY <1>1 DEF ExpenseIdle, ExpenseProgress, ExpenseSteps, Images
<1>3. ExpenseDone \in ExpenseProgress /\ ExpenseDone.at = "done" /\ ExpenseDone.seen = NoRow
  BY <1>1, <1>2 DEF ExpenseDone, ExpenseProgress, ExpenseSteps
<1> QED  BY <1>1, <1>2, <1>3

\* An expense keeps its type when its fields change within theirs.
LEMMA RowTyped ==
    ASSUME NEW row \in ExpenseRows
    PROVE  /\ row.status \in ExpenseStatus /\ row.total \in Nat /\ row.paid \in Nat
           /\ row.active \in BOOLEAN /\ row.receipt \in Images /\ row.writes \in Nat
BY DEF ExpenseRows, Images

\* The end of a request with a write of one row.
WritesRow(r, e, new) ==
    /\ expenseRequest[r].at \in Reading \cup {"new"} /\ new \in ExpenseRows
    /\ expense' = [expense EXCEPT ![e] = new]
    /\ expenseRequest' = [expenseRequest EXCEPT ![r] = ExpenseDone]
    /\ UNCHANGED receipts
    /\ fresh' \in [ExpenseRequests -> BOOLEAN]
    /\ \A d \in ExpenseRequests \ {e} : fresh'[d] = fresh[d]
    /\ new.status # "NONE" /\ (fresh'[e] => Settled(new))
    /\ ~Booked(e) => e = r
    /\ Booked(e) =>
         /\ expense[e].writes <= new.writes
         /\ expense[e].writes = new.writes =>
              new.total = expense[e].total /\ new.paid = expense[e].paid
    /\ IF expenseRequest[r].at = "attach" THEN e = Target(r) /\ new.receipt = r
       ELSE new.receipt \in {expense[e].receipt, NoExpense}

\* A write of one expense that leaves it settled, or follows another, keeps the invariant.
LEMMA RowWritten ==
    ASSUME ExpensesInv, NEW r \in ExpenseRequests, NEW e \in ExpenseRequests, NEW new,
           WritesRow(r, e, new)
    PROVE  ExpensesInv'
<1>1. /\ expense \in [ExpenseRequests -> ExpenseRows] /\ receipts \subseteq ExpenseRequests
      /\ expenseRequest \in [ExpenseRequests -> ExpenseProgress]
      /\ fresh \in [ExpenseRequests -> BOOLEAN] /\ NoExpense \notin ExpenseRequests
      /\ new \in ExpenseRows
  BY ExpenseTypes, ExpensesAssumption DEF ExpensesInv, WritesRow
<1>2. /\ expense'[e] = new /\ \A d \in ExpenseRequests : d # e => expense'[d] = expense[d]
      /\ expenseRequest'[r] = ExpenseDone
      /\ \A s \in ExpenseRequests : s # r => expenseRequest'[s] = expenseRequest[s]
      /\ receipts' = receipts
      /\ ExpenseDone.at = "done" /\ ExpenseDone.seen.receipt = NoExpense
  BY <1>1, ExpenseIdleTyped DEF WritesRow
<1>3. ExpensesTypeOK'
  BY <1>1, ExpenseIdleTyped DEF WritesRow, ExpensesTypeOK, ExpenseProgress, ExpenseSteps, Images
<1>4. \A s \in ExpenseRequests :
        /\ BookedByDone(s) /\ SeenChecked(s) /\ SeenCurrent(s) /\ ImageOfOne(s) /\ ImageSeen(s)
  BY DEF ExpensesInv
<1>5. SettledUnlessOverlapped'
  <2> SUFFICES ASSUME NEW d \in ExpenseRequests, Booked(d)', fresh'[d]
               PROVE  Settled(expense'[d])
    BY DEF SettledUnlessOverlapped, Settled, Derived
  <2>1. CASE d = e  BY <1>2, <2>1 DEF WritesRow
  <2>2. CASE d # e
    <3>1. fresh[d] /\ Booked(d) /\ expense'[d] = expense[d]  BY <1>2, <2>2 DEF WritesRow, Booked
    <3> QED  BY <3>1 DEF ExpensesInv, SettledUnlessOverlapped
  <2> QED  BY <2>1, <2>2
<1>6. expenseRequest[r].at # "done" /\ expenseRequest[r].at # "failed"
  BY DEF WritesRow, Reading
<1>7. \A x \in Images : ImageKnown(x) =>
        x # r /\ (x = NoExpense \/ (x \in ExpenseRequests /\ expenseRequest'[x].at = "done"))
  BY <1>1, <1>2, <1>6 DEF ImageKnown, Images
<1>8. \A d \in ExpenseRequests : expense[d].receipt \in Images /\ expense[d].receipt # r
  BY <1>1, <1>4, <1>6, RowTyped DEF ImageOfOne, ImageKnown
<1>9. ReceiptsKept'
  <2> SUFFICES ASSUME NEW d \in ExpenseRequests, expense'[d].receipt \notin receipts \cup {NoExpense}
               PROVE  \E s \in ExpenseRequests :
                        /\ expenseRequest'[s].at \in {"attach", "failed"}
                        /\ expenseRequest'[s].seen.receipt = expense'[d].receipt
    BY <1>2 DEF ReceiptsKept
  <2>1. CASE expense'[d].receipt = r
    <3>1. d = e /\ expenseRequest[r].at = "attach"
      BY <1>1, <1>2, <1>8, <2>1 DEF WritesRow
    <3> QED  BY <1>4, <2>1, <3>1 DEF ImageSeen
  <2>2. CASE expense'[d].receipt # r
    <3>1. expense'[d].receipt = expense[d].receipt
      <4>1. CASE d = e  BY <1>2, <2>2, <4>1 DEF WritesRow
      <4>2. CASE d # e  BY <1>2, <4>2
      <4> QED  BY <4>1, <4>2
    <3>2. PICK s \in ExpenseRequests :
            /\ expenseRequest[s].at \in {"attach", "failed"}
            /\ expenseRequest[s].seen.receipt = expense[d].receipt
      BY <3>1 DEF ExpensesInv, ReceiptsKept
    <3>3. s # r
      <4> SUFFICES ASSUME s = r PROVE FALSE  OBVIOUS
      <4>1. expenseRequest[r].at = "attach"  BY <1>6, <3>2
      <4>2. e = Target(r) /\ new.receipt = r  BY <4>1 DEF WritesRow
      <4>3. d # e  BY <1>2, <2>2, <4>2
      <4> QED  BY <1>4, <3>1, <3>2, <4>1, <4>2, <4>3 DEF ImageSeen, Seen, Reading
    <3> QED  BY <1>2, <3>1, <3>2, <3>3
  <2> QED  BY <2>1, <2>2
<1>10. ASSUME NEW s \in ExpenseRequests
       PROVE  BookedByDone(s)' /\ SeenChecked(s)' /\ SeenCurrent(s)'
  <2>1. BookedByDone(s)'
    <3>1. CASE s = r  BY <1>2, <3>1 DEF BookedByDone
    <3>2. CASE s # r
      <4>1. Booked(s)' => Booked(s)  BY <1>2, <3>2 DEF Booked, WritesRow
      <4> QED  BY <1>2, <1>4, <3>2, <4>1 DEF BookedByDone
    <3> QED  BY <3>1, <3>2
  <2>2. CASE s = r
    BY <1>2, <2>1, <2>2 DEF SeenChecked, SeenCurrent, Reading
  <2>3. CASE s # r
    <3>1. expenseRequest'[s] = expenseRequest[s]  BY <1>2, <2>3
    <3>2. SeenChecked(s)'  BY <1>4, <3>1 DEF SeenChecked, Seen
    <3>3. SeenCurrent(s)'
      <4> SUFFICES ASSUME expenseRequest[s].at \in Reading, NEW t, t = Target(s)
                   PROVE  /\ t \in ExpenseRequests /\ expense'[t].status # "NONE"
                          /\ Seen(s).writes <= expense'[t].writes
                          /\ Seen(s).writes = expense'[t].writes =>
                               Seen(s).total = expense'[t].total /\ Seen(s).paid = expense'[t].paid
        BY <3>1 DEF SeenCurrent, Seen, Target, Booked
      <4>1. /\ t \in ExpenseRequests /\ Booked(t) /\ Seen(s).writes <= expense[t].writes
            /\ Seen(s).writes = expense[t].writes =>
                 Seen(s).total = expense[t].total /\ Seen(s).paid = expense[t].paid
        BY <1>4 DEF SeenCurrent
      <4>2. CASE t # e
        BY <1>2, <4>1, <4>2 DEF Booked
      <4>3. CASE t = e
        <5>1. /\ expense[e].writes \in Nat /\ new.writes \in Nat /\ Seen(s).writes \in Nat
          BY <1>1, RowTyped DEF Seen, ExpenseProgress
        <5>2. /\ expense[e].writes <= new.writes
              /\ expense[e].writes = new.writes =>
                   new.total = expense[e].total /\ new.paid = expense[e].paid
          BY <4>1, <4>3 DEF WritesRow
        <5>3. expense'[e] = new /\ new.status # "NONE"  BY <1>2 DEF WritesRow
        <5>4. Seen(s).writes = new.writes => Seen(s).writes = expense[e].writes
          BY <4>1, <4>3, <5>1, <5>2
        <5>5. Seen(s).writes <= new.writes  BY <4>1, <4>3, <5>1, <5>2
        <5> QED  BY <4>1, <4>3, <5>2, <5>3, <5>4, <5>5
      <4> QED  BY <4>2, <4>3
    <3> QED  BY <2>1, <3>2, <3>3
  <2> QED  BY <2>2, <2>3
<1>11. ASSUME NEW s \in ExpenseRequests PROVE ImageOfOne(s)'
  <2>1. (ImageKnown(expense[s].receipt))'
    <3>1. CASE expense'[s].receipt = r  BY <1>2, <3>1 DEF ImageKnown
    <3>2. CASE expense'[s].receipt \in {expense[s].receipt, NoExpense}
      <4>1. ImageKnown(expense[s].receipt)  BY <1>4 DEF ImageOfOne
      <4> QED  BY <1>7, <1>8, <3>2, <4>1 DEF ImageKnown
    <3> QED  BY <1>2, <3>1, <3>2 DEF WritesRow
  <2>2. ASSUME NEW d \in ExpenseRequests, d # s, expense'[s].receipt # NoExpense
        PROVE  expense'[d].receipt # expense'[s].receipt
    <3>1. ImageOfOne(s) /\ ImageOfOne(d)  BY <1>4
    <3>2. new.receipt \in {expense[e].receipt, NoExpense, r}  BY DEF WritesRow
    <3>3. CASE s = e  BY <1>2, <1>8, <2>2, <3>1, <3>2, <3>3 DEF ImageOfOne
    <3>4. CASE d = e
      <4>1. s # e /\ expense'[s] = expense[s] /\ expense'[d] = new  BY <1>2, <2>2, <3>4
      <4> QED  BY <1>8, <2>2, <3>1, <3>2, <3>4, <4>1 DEF ImageOfOne
    <3>5. CASE s # e /\ d # e  BY <1>2, <2>2, <3>1, <3>5 DEF ImageOfOne
    <3> QED  BY <3>3, <3>4, <3>5
  <2> QED  BY <2>1, <2>2 DEF ImageOfOne
<1>12. ASSUME NEW s \in ExpenseRequests PROVE ImageSeen(s)'
  <2>1. CASE s = r
    <3>1. /\ expenseRequest'[r].at \notin Reading
          /\ expenseRequest'[r].at \notin {"replace", "attach"}
          /\ expenseRequest'[r].seen.receipt = NoExpense
      BY <1>2 DEF Reading
    <3> QED  BY <2>1, <3>1 DEF ImageSeen, ImageKnown, Seen
  <2>2. CASE s # r
    <3>1. expenseRequest'[s] = expenseRequest[s] /\ ImageSeen(s)  BY <1>2, <1>4, <2>2
    <3>2. Seen(s).receipt \in Images  BY <1>1, RowTyped DEF Seen, ExpenseProgress
    <3>3. /\ Seen(s).receipt # r
          /\ \/ Seen(s).receipt = NoExpense
             \/ /\ Seen(s).receipt \in ExpenseRequests
                /\ expenseRequest'[Seen(s).receipt].at = "done"
      BY <1>7, <3>1, <3>2 DEF ImageSeen
    <3>4. \A d \in ExpenseRequests : expense'[d].receipt \in {expense[d].receipt, NoExpense, r}
      BY <1>2 DEF WritesRow
    <3>5. (Seen(s).receipt)' = Seen(s).receipt /\ Target(s)' = Target(s)
      BY <3>1 DEF Seen, Target
    <3>6. expenseRequest'[s].at \in {"replace", "attach"} => s \in receipts'
      BY <1>2, <3>1 DEF ImageSeen
    <3>7. expenseRequest'[s].at \in Reading /\ Seen(s).receipt # NoExpense =>
            \A d \in ExpenseRequests \ {Target(s)} : expense'[d].receipt # Seen(s).receipt
      BY <3>1, <3>3, <3>4 DEF ImageSeen
    <3>8. (ImageKnown(Seen(s).receipt))'  BY <3>3, <3>5 DEF ImageKnown
    <3> QED  BY <3>5, <3>6, <3>7, <3>8 DEF ImageSeen
  <2> QED  BY <2>1, <2>2
<1> QED  BY <1>3, <1>5, <1>9, <1>10, <1>11, <1>12 DEF ExpensesInv

\* A request that goes on, with what it reads now or what it read, and the images it
\* puts into the store or takes out.
MovesRequest(r, new) ==
    /\ UNCHANGED <<expense, fresh>>
    /\ new \in ExpenseProgress /\ expenseRequest' = [expenseRequest EXCEPT ![r] = new]
    /\ expenseRequest[r].at # "done" /\ new.at \notin {"new", "done"}
    /\ receipts' \subseteq ExpenseRequests
    /\ \A s \in receipts : s \in receipts' \/ (new.at = "attach" /\ new.seen.receipt = s)
    /\ expenseRequest[r].at = "attach" => new.at = "failed" /\ new.seen = Seen(r)
    /\ expenseRequest[r].at # "failed"
    /\ new.at \in {"replace", "attach"} => r \in receipts'

\* A request that moves on without a write keeps the invariant if it keeps its own part.
LEMMA RequestMoved ==
    ASSUME ExpensesInv, NEW r \in ExpenseRequests, NEW new, MovesRequest(r, new),
           SeenChecked(r)', SeenCurrent(r)',
           ImageKnown(new.seen.receipt),
           new.at \in Reading /\ new.seen.receipt # NoExpense =>
               \A d \in ExpenseRequests \ {new.on} : expense[d].receipt # new.seen.receipt
    PROVE  ExpensesInv'
<1>1. /\ expense \in [ExpenseRequests -> ExpenseRows] /\ receipts \subseteq ExpenseRequests
      /\ expenseRequest \in [ExpenseRequests -> ExpenseProgress]
      /\ fresh \in [ExpenseRequests -> BOOLEAN] /\ NoExpense \notin ExpenseRequests
  BY ExpenseTypes, ExpensesAssumption DEF ExpensesInv
<1>2. /\ expense' = expense /\ fresh' = fresh /\ expenseRequest'[r] = new
      /\ expenseRequest' \in [ExpenseRequests -> ExpenseProgress]
      /\ \A s \in ExpenseRequests : s # r => expenseRequest'[s] = expenseRequest[s]
      /\ expenseRequest[r].at # "done" /\ new.at # "done"
  BY <1>1 DEF MovesRequest
<1>3. ExpensesTypeOK'
  <2>1. receipts' \subseteq ExpenseRequests  BY DEF MovesRequest
  <2> QED  BY <1>1, <1>2, <2>1 DEF ExpensesTypeOK, ExpenseProgress, ExpenseSteps, Images
<1>4. \A s \in ExpenseRequests :
        /\ BookedByDone(s) /\ SeenChecked(s) /\ SeenCurrent(s) /\ ImageOfOne(s) /\ ImageSeen(s)
  BY DEF ExpensesInv
<1>5. SettledUnlessOverlapped'
  BY <1>2 DEF ExpensesInv, SettledUnlessOverlapped, Settled, Derived, Booked
<1>6. \A x \in Images : ImageKnown(x) =>
        x # r /\ (x = NoExpense \/ (x \in ExpenseRequests /\ expenseRequest'[x].at = "done"))
  BY <1>1, <1>2 DEF ImageKnown, Images
<1>7. ReceiptsKept'
  <2> SUFFICES ASSUME NEW d \in ExpenseRequests, NEW x, x = expense[d].receipt,
                      x \notin receipts' \cup {NoExpense}
               PROVE  \E s \in ExpenseRequests :
                        /\ expenseRequest'[s].at \in {"attach", "failed"}
                        /\ expenseRequest'[s].seen.receipt = x
    BY <1>2 DEF ReceiptsKept
  <2>1. CASE x \in receipts
    BY <1>2, <2>1 DEF MovesRequest
  <2>2. CASE x \notin receipts
    <3>1. PICK s \in ExpenseRequests :
            /\ expenseRequest[s].at \in {"attach", "failed"}
            /\ expenseRequest[s].seen.receipt = x
      BY <2>2 DEF ExpensesInv, ReceiptsKept
    <3>2. CASE s # r  BY <1>2, <3>1, <3>2
    <3>3. CASE s = r  BY <1>2, <3>1, <3>3 DEF MovesRequest, Seen
    <3> QED  BY <3>2, <3>3
  <2> QED  BY <2>1, <2>2
<1>8. ASSUME NEW s \in ExpenseRequests
      PROVE  BookedByDone(s)' /\ SeenChecked(s)' /\ SeenCurrent(s)'
  <2>1. BookedByDone(s)'  BY <1>2, <1>4 DEF BookedByDone, Booked
  <2>2. CASE s = r  BY <2>1, <2>2
  <2>3. CASE s # r
    <3>1. expenseRequest'[s] = expenseRequest[s]  BY <1>2, <2>3
    <3>2. SeenChecked(s)'  BY <1>4, <3>1 DEF SeenChecked, Seen
    <3>3. SeenCurrent(s)'
      BY <1>2, <1>4, <3>1 DEF SeenCurrent, Seen, Target, Booked
    <3> QED  BY <2>1, <3>2, <3>3
  <2> QED  BY <2>2, <2>3
<1>9. ASSUME NEW s \in ExpenseRequests PROVE ImageOfOne(s)'
  <2>1. expense[s].receipt \in Images  BY <1>1, RowTyped
  <2>2. ImageKnown(expense[s].receipt)  BY <1>4 DEF ImageOfOne
  <2>3. (ImageKnown(expense[s].receipt))'  BY <1>2, <1>6, <2>1, <2>2 DEF ImageKnown
  <2> QED  BY <1>2, <1>4, <2>3 DEF ImageOfOne
<1>10. ASSUME NEW s \in ExpenseRequests PROVE ImageSeen(s)'
  <2>1. CASE s = r
    <3>1. Seen(s)' = new.seen /\ Target(s)' = new.on  BY <1>2, <2>1 DEF Seen, Target
    <3>2. new.seen.receipt \in Images
      <4>1. new.seen \in ExpenseRows  BY DEF MovesRequest, ExpenseProgress
      <4> QED  BY <4>1, RowTyped
    <3>3. (ImageKnown(Seen(s).receipt))'  BY <1>6, <3>1, <3>2 DEF ImageKnown
    <3>4. expenseRequest'[s].at \in {"replace", "attach"} => s \in receipts'
      BY <1>2, <2>1 DEF MovesRequest
    <3> QED  BY <1>2, <2>1, <3>1, <3>3, <3>4 DEF ImageSeen
  <2>2. CASE s # r
    <3>1. expenseRequest'[s] = expenseRequest[s] /\ ImageSeen(s)  BY <1>2, <1>4, <2>2
    <3>2. Seen(s)' = Seen(s) /\ Target(s)' = Target(s)  BY <3>1 DEF Seen, Target
    <3>3. Seen(s).receipt \in Images  BY <1>1, RowTyped DEF Seen, ExpenseProgress
    <3>4. (ImageKnown(Seen(s).receipt))'
      BY <1>6, <3>1, <3>2, <3>3 DEF ImageKnown, ImageSeen
    <3>5. expenseRequest'[s].at \in {"replace", "attach"} => s \in receipts'
      <4> SUFFICES ASSUME expenseRequest[s].at \in {"replace", "attach"} PROVE s \in receipts'
        BY <3>1
      <4>1. s \in receipts  BY <3>1 DEF ImageSeen
      <4>2. expenseRequest[s].at # "done"  OBVIOUS
      <4>3. s # new.seen.receipt
        BY <1>1, <4>2 DEF ImageKnown
      <4> QED  BY <4>1, <4>3 DEF MovesRequest
    <3> QED  BY <1>2, <3>1, <3>2, <3>4, <3>5 DEF ImageSeen
  <2> QED  BY <2>1, <2>2
<1> QED  BY <1>3, <1>5, <1>7, <1>8, <1>9, <1>10 DEF ExpensesInv

---------------------------------------------------------------------------
(* Expenses: the steps *)

\* A request that reads an expense knows what there is.
LEMMA ExpenseReadKeeps ==
    ASSUME ExpensesInv, NEW r \in ExpenseRequests, NEW e \in ExpenseRequests,
           NEW step \in {"update", "pay", "duplicate", "remove", "upload"}, NEW amount \in Nat,
           ReadExpense(r, e, step, amount),
           step = "update" /\ amount = 0 => expense[e].paid <= expense[e].total,
           step = "update" /\ amount # 0 => expense[e].paid <= amount,
           step = "pay" => expense[e].paid + amount <= expense[e].total,
           step = "duplicate" => expense[e].paid <= expense[e].total
    PROVE  ExpensesInv'
<1> DEFINE new == [at |-> step, on |-> e, seen |-> expense[e], amount |-> amount]
<1>1. /\ expense \in [ExpenseRequests -> ExpenseRows] /\ expense[e] \in ExpenseRows
      /\ expenseRequest \in [ExpenseRequests -> ExpenseProgress]
      /\ receipts \subseteq ExpenseRequests
  BY ExpenseTypes DEF ExpensesInv
<1>2. /\ new \in ExpenseProgress /\ new.at = step /\ new.on = e /\ new.seen = expense[e]
      /\ new.amount = amount
  BY <1>1 DEF ExpenseProgress, ExpenseSteps, Images
<1>3. /\ expenseRequest' = [expenseRequest EXCEPT ![r] = new] /\ expenseRequest[r].at = "new"
      /\ UNCHANGED <<expense, receipts, fresh>> /\ Booked(e)
  BY DEF ReadExpense, ExpenseAt
<1> HIDE DEF new
<1>4. MovesRequest(r, new)  BY <1>1, <1>2, <1>3 DEF MovesRequest
<1>5. expenseRequest'[r] = new  BY <1>1, <1>3
<1>6. SeenChecked(r)'  BY <1>2, <1>5 DEF SeenChecked, Seen
<1>7. SeenCurrent(r)'
  <2>1. expense[e].writes \in Nat  BY <1>1, RowTyped
  <2> QED  BY <1>2, <1>3, <1>5, <2>1 DEF SeenCurrent, Seen, Target, Booked
<1>8. ImageKnown(expense[e].receipt)  BY DEF ExpensesInv, ImageOfOne
<1>9. expense[e].receipt # NoExpense =>
        \A d \in ExpenseRequests \ {e} : expense[d].receipt # expense[e].receipt
  BY DEF ExpensesInv, ImageOfOne
<1> QED  BY <1>2, <1>4, <1>6, <1>7, <1>8, <1>9, RequestMoved

\* Every reading step keeps the invariant.
LEMMA ExpenseReadsKeep ==
    ASSUME ExpensesInv, NEW r \in ExpenseRequests,
           \/ ExpenseUpdateRead(r) \/ PaymentRead(r) \/ DuplicateRead(r) \/ ExpenseRemoveRead(r)
           \/ ReceiptRead(r)
    PROVE  ExpensesInv'
<1>1. /\ Amounts \subseteq Nat \ {0}
      /\ \A e \in ExpenseRequests : expense[e].paid \in Nat /\ expense[e].total \in Nat
  BY ExpenseTypes, ExpensesAssumption DEF ExpensesInv, ExpenseRows
<1>2. CASE ExpenseUpdateRead(r)
  <2>1. PICK e \in ExpenseRequests, total \in Amounts \cup {0} :
          /\ TotalAllowed(expense[e], IF total = 0 THEN expense[e].total ELSE total)
          /\ ReadExpense(r, e, "update", total)
    BY <1>2 DEF ExpenseUpdateRead
  <2>2. /\ total \in Nat
        /\ total = 0 => expense[e].paid <= expense[e].total
        /\ total # 0 => expense[e].paid <= total
    BY <1>1, <2>1 DEF TotalAllowed
  <2> QED  BY <2>1, <2>2, ExpenseReadKeeps
<1>3. CASE PaymentRead(r)
  <2>1. PICK e \in ExpenseRequests, amount \in Amounts :
          /\ expense[e].paid + amount <= expense[e].total
          /\ ReadExpense(r, e, "pay", amount)
    BY <1>3 DEF PaymentRead
  <2> QED  BY <1>1, <2>1, ExpenseReadKeeps
<1>4. CASE DuplicateRead(r)
  <2>1. PICK e \in ExpenseRequests :
          /\ expense[e].paid \in 1..expense[e].total
          /\ ReadExpense(r, e, "duplicate", 0)
    BY <1>4 DEF DuplicateRead
  <2>2. expense[e].paid <= expense[e].total  BY <1>1, <2>1
  <2> QED  BY <2>1, <2>2, ExpenseReadKeeps
<1>5. CASE ExpenseRemoveRead(r)
  BY <1>5, ExpenseReadKeeps DEF ExpenseRemoveRead
<1>6. CASE ReceiptRead(r)
  BY <1>6, ExpenseReadKeeps DEF ReceiptRead
<1> QED  BY <1>2, <1>3, <1>4, <1>5, <1>6

\* An image in the store before the write is of no expense yet.
LEMMA ImageStepsKeep ==
    ASSUME ExpensesInv, NEW r \in ExpenseRequests,
           ReceiptUpload(r) \/ ReceiptReplace(r) \/ ExpenseInterrupted(r)
    PROVE  ExpensesInv'
<1> DEFINE step == CHOOSE s \in {"replace", "attach", "failed"} : expenseRequest'[r].at = s
           new == [expenseRequest[r] EXCEPT !.at = step]
<1>1. /\ expenseRequest \in [ExpenseRequests -> ExpenseProgress]
      /\ expenseRequest[r] \in ExpenseProgress /\ receipts \subseteq ExpenseRequests
  BY ExpenseTypes DEF ExpensesInv
<1>2. \E s \in {"replace", "attach", "failed"} :
        expenseRequest' = [expenseRequest EXCEPT ![r].at = s]
  BY DEF ReceiptUpload, ReceiptReplace, ExpenseInterrupted
<1>3. /\ step \in {"replace", "attach", "failed"}
      /\ expenseRequest' = [expenseRequest EXCEPT ![r] = new]
  <2>1. PICK s \in {"replace", "attach", "failed"} :
          expenseRequest' = [expenseRequest EXCEPT ![r].at = s]
    BY <1>2
  <2>2. expenseRequest'[r].at = s  BY <1>1, <2>1 DEF ExpenseProgress
  <2>3. step = s  BY <2>2
  <2> HIDE DEF step
  <2> QED  BY <1>1, <2>1, <2>3
<1>4. expenseRequest'[r].at = step
  <2> HIDE DEF step
  <2> QED  BY <1>1, <1>3 DEF ExpenseProgress
<1> HIDE DEF step
<1>5. /\ new \in ExpenseProgress /\ new.at = step /\ new.on = Target(r) /\ new.seen = Seen(r)
      /\ new.amount = expenseRequest[r].amount
  BY <1>1, <1>3 DEF ExpenseProgress, ExpenseSteps, Target, Seen
<1>6. UNCHANGED <<expense, fresh>>
  BY DEF ReceiptUpload, ReceiptReplace, ExpenseInterrupted
<1>7. expenseRequest[r].at \in {"upload", "replace", "attach"}
  BY DEF ReceiptUpload, ReceiptReplace, ExpenseInterrupted, ExpenseAt
<1>8. /\ receipts' \subseteq ExpenseRequests
      /\ \A s \in receipts : s \in receipts' \/ (step = "attach" /\ Seen(r).receipt = s)
      /\ expenseRequest[r].at = "attach" => step = "failed"
      /\ step \in {"replace", "attach"} => r \in receipts'
  <2>1. ImageSeen(r)  BY DEF ExpensesInv
  <2>2. CASE ReceiptUpload(r)
    BY <1>1, <1>4, <2>2 DEF ReceiptUpload, ExpenseAt
  <2>3. CASE ReceiptReplace(r)
    <3>1. expenseRequest[r].at = "replace" /\ step = "attach"
      BY <1>1, <1>4, <2>3 DEF ReceiptReplace, ExpenseAt, ExpenseProgress
    <3>2. receipts' \in {receipts \ {Seen(r).receipt}, receipts}
      BY <2>3 DEF ReceiptReplace, Replaced, Seen
    <3>3. r \in receipts /\ Seen(r).receipt # r
      BY <2>1, <3>1, ExpensesAssumption DEF ImageSeen, ImageKnown
    <3> QED  BY <1>1, <3>1, <3>2, <3>3
  <2>4. CASE ExpenseInterrupted(r)
    <3>1. step = "failed" /\ receipts' = receipts
      BY <1>1, <1>4, <2>4 DEF ExpenseInterrupted, ExpenseProgress
    <3> QED  BY <1>1, <3>1
  <2> QED  BY <2>2, <2>3, <2>4
<1> HIDE DEF new
<1>9. MovesRequest(r, new)
  BY <1>3, <1>5, <1>6, <1>7, <1>8 DEF MovesRequest
<1>10. expenseRequest'[r] = new  BY <1>1, <1>3
<1>11. SeenChecked(r)'  BY <1>3, <1>5, <1>10 DEF SeenChecked
<1>12. SeenCurrent(r)'
  <2>1. SeenCurrent(r)  BY DEF ExpensesInv
  <2> QED  BY <1>5, <1>6, <1>7, <1>10, <2>1 DEF SeenCurrent, Seen, Target, Booked, Reading
<1>13. /\ ImageKnown(new.seen.receipt)
       /\ new.seen.receipt # NoExpense =>
            \A d \in ExpenseRequests \ {new.on} : expense[d].receipt # new.seen.receipt
  BY <1>5, <1>7 DEF ExpensesInv, ImageSeen, Reading
<1> QED  BY <1>9, <1>11, <1>12, <1>13, RequestMoved

\* A new expense, or a copy, begins settled and without an image.
LEMMA InsertKeeps ==
    ASSUME ExpensesInv, NEW r \in ExpenseRequests, NEW total \in Nat, NEW paid \in Nat,
           paid <= total, expenseRequest[r].at \in {"new", "duplicate"},
           InsertExpense(r, total, paid)
    PROVE  ExpensesInv'
<1> DEFINE new == [status |-> Derived(total, paid), total |-> total, paid |-> paid,
                   active |-> TRUE, receipt |-> NoExpense, writes |-> 1]
<1>1. Derived(total, paid) \in {"PAID", "PARTIAL"}  BY DEF Derived
<1>2. /\ new \in ExpenseRows /\ new.status = Derived(total, paid) /\ new.total = total
      /\ new.paid = paid /\ new.receipt = NoExpense
  BY <1>1 DEF ExpenseRows, ExpenseStatus
<1>3. /\ expense' = [expense EXCEPT ![r] = new]
      /\ expenseRequest' = [expenseRequest EXCEPT ![r] = ExpenseDone]
      /\ UNCHANGED <<receipts, fresh>>
  BY DEF InsertExpense, ExpenseDone
<1> HIDE DEF new
<1>4. ~Booked(r)  BY DEF ExpensesInv, BookedByDone
<1>5. Settled(new)  BY <1>2 DEF Settled
<1>6. fresh \in [ExpenseRequests -> BOOLEAN]  BY ExpenseTypes DEF ExpensesInv
<1>7. WritesRow(r, r, new)
  BY <1>1, <1>2, <1>3, <1>4, <1>5, <1>6 DEF WritesRow, Reading
<1> QED  BY <1>7, RowWritten

\* What was read of the row a request is about to write.
LEMMA TargetRead ==
    ASSUME ExpensesInv, NEW r \in ExpenseRequests, expenseRequest[r].at \in Reading
    PROVE  /\ Target(r) \in ExpenseRequests /\ Booked(Target(r))
           /\ expense[Target(r)] \in ExpenseRows /\ Seen(r) \in ExpenseRows
           /\ expenseRequest[r].amount \in Nat
           /\ Seen(r).writes = expense[Target(r)].writes =>
                Seen(r).total = expense[Target(r)].total /\ Seen(r).paid = expense[Target(r)].paid
<1>1. SeenCurrent(r)  BY DEF ExpensesInv
<1>2. /\ expense \in [ExpenseRequests -> ExpenseRows]
      /\ expenseRequest \in [ExpenseRequests -> ExpenseProgress]
  BY ExpenseTypes DEF ExpensesInv
<1> QED  BY <1>1, <1>2 DEF SeenCurrent, Seen, ExpenseProgress

\* A write of amounts that were checked settles the expense, unless another came first.
LEMMA MoneyKeeps ==
    ASSUME ExpensesInv, NEW r \in ExpenseRequests, expenseRequest[r].at \in {"update", "pay"},
           NEW e, e = Target(r), NEW total \in Nat, NEW paid \in Nat,
           NEW status \in {"PAID", "PARTIAL"}, NEW row, row \in ExpenseRows,
           row.total = total, row.paid = paid, row.status = status,
           row.receipt = expense[e].receipt,
           WriteMoney(r, row),
           expense[e].writes = Seen(r).writes => paid <= total /\ status = Derived(total, paid)
    PROVE  ExpensesInv'
<1>1. e \in ExpenseRequests /\ Booked(e) /\ expense[e] \in ExpenseRows
  BY TargetRead DEF Reading
<1>2. expense[e].writes \in Nat /\ expense[e].writes + 1 \in Nat  BY <1>1, RowTyped
<1> DEFINE new == [row EXCEPT !.writes = expense[e].writes + 1]
<1>3. /\ new \in ExpenseRows /\ new.total = total /\ new.paid = paid /\ new.status = status
      /\ new.receipt = expense[e].receipt /\ new.writes = expense[e].writes + 1
  BY <1>2 DEF ExpenseRows
<1>4. /\ expense' = [expense EXCEPT ![e] = new]
      /\ expenseRequest' = [expenseRequest EXCEPT ![r] = ExpenseDone]
      /\ fresh' = [fresh EXCEPT ![e] = expense[e].writes = Seen(r).writes]
      /\ UNCHANGED receipts
  BY DEF WriteMoney, WriteExpense, Target, Seen, ExpenseDone
<1> HIDE DEF new
<1>5. fresh \in [ExpenseRequests -> BOOLEAN]  BY ExpenseTypes DEF ExpensesInv
<1>6. /\ fresh' \in [ExpenseRequests -> BOOLEAN]
      /\ \A d \in ExpenseRequests \ {e} : fresh'[d] = fresh[d]
      /\ fresh'[e] = (expense[e].writes = Seen(r).writes)
  BY <1>1, <1>4, <1>5
<1>7. fresh'[e] => Settled(new)  BY <1>3, <1>6 DEF Settled
<1>8. expense[e].writes <= new.writes /\ expense[e].writes # new.writes  BY <1>2, <1>3
<1>9. WritesRow(r, e, new)
  BY <1>1, <1>3, <1>4, <1>6, <1>7, <1>8 DEF WritesRow, Reading
<1> QED  BY <1>1, <1>9, RowWritten

\* Every other write keeps the invariant.
LEMMA ExpenseWritesKeep ==
    ASSUME ExpensesInv, NEW r \in ExpenseRequests,
           \/ ExpenseCreate(r) \/ ExpenseUpdateWrite(r) \/ PaymentWrite(r) \/ DuplicateWrite(r)
           \/ ExpenseRemoveWrite(r) \/ ReceiptAttach(r)
    PROVE  ExpensesInv'
<1> DEFINE e == Target(r)
           amount == expenseRequest[r].amount
<1>1. SeenChecked(r)  BY DEF ExpensesInv
<1>2. CASE ExpenseCreate(r)
  <2>1. PICK total \in Amounts, paid \in Amounts : paid <= total /\ InsertExpense(r, total, paid)
    BY <1>2 DEF ExpenseCreate
  <2>2. total \in Nat /\ paid \in Nat  BY <2>1, ExpensesAssumption
  <2>3. expenseRequest[r].at = "new"  BY <1>2 DEF ExpenseCreate, ExpenseAt
  <2> QED  BY <2>1, <2>2, <2>3, InsertKeeps
<1>3. CASE DuplicateWrite(r)
  <2>1. expenseRequest[r].at = "duplicate" /\ InsertExpense(r, Seen(r).total, Seen(r).paid)
    BY <1>3 DEF DuplicateWrite, ExpenseAt, Seen
  <2>2. Seen(r).total \in Nat /\ Seen(r).paid \in Nat  BY <2>1, TargetRead, RowTyped DEF Reading
  <2>3. Seen(r).paid <= Seen(r).total  BY <1>1, <2>1 DEF SeenChecked
  <2> QED  BY <2>1, <2>2, <2>3, InsertKeeps
<1>4. CASE ExpenseUpdateWrite(r)
  <2> DEFINE sent == IF amount = 0 THEN Seen(r).total ELSE amount
             total == IF amount = 0 THEN expense[e].total ELSE sent
             status == Derived(sent, Seen(r).paid)
             row == [expense[e] EXCEPT !.total = total, !.status = status]
  <2>1. expenseRequest[r].at = "update" /\ WriteMoney(r, row)
    BY <1>4 DEF ExpenseUpdateWrite, ExpenseAt, Seen, Target
  <2>2. /\ e \in ExpenseRequests /\ expense[e] \in ExpenseRows /\ Seen(r) \in ExpenseRows
        /\ amount \in Nat
        /\ Seen(r).writes = expense[e].writes =>
             Seen(r).total = expense[e].total /\ Seen(r).paid = expense[e].paid
    BY <2>1, TargetRead DEF Reading
  <2>3. /\ Seen(r).total \in Nat /\ Seen(r).paid \in Nat
        /\ expense[e].total \in Nat /\ expense[e].paid \in Nat
    BY <2>2, RowTyped
  <2>4. /\ total \in Nat /\ sent \in Nat /\ status \in {"PAID", "PARTIAL"}
        /\ Seen(r).paid <= sent
    BY <1>1, <2>1, <2>2, <2>3 DEF Derived, SeenChecked
  <2>5. expense[e].writes = Seen(r).writes =>
          expense[e].paid <= total /\ status = Derived(total, expense[e].paid)
    BY <2>2, <2>4
  <2> HIDE DEF status, total
  <2>6. /\ row \in ExpenseRows /\ row.total = total /\ row.status = status
        /\ row.paid = expense[e].paid /\ row.receipt = expense[e].receipt
    BY <2>2, <2>4 DEF ExpenseRows, ExpenseStatus
  <2> HIDE DEF row
  <2> QED  BY <2>1, <2>3, <2>4, <2>5, <2>6, MoneyKeeps
<1>5. CASE PaymentWrite(r)
  <2> DEFINE paid == expense[e].paid + amount
             status == Derived(Seen(r).total, Seen(r).paid + amount)
             row == [expense[e] EXCEPT !.paid = paid, !.status = status]
  <2>1. expenseRequest[r].at = "pay" /\ WriteMoney(r, row)
    BY <1>5 DEF PaymentWrite, PaymentStatus, ExpenseAt, Seen, Target
  <2>2. /\ e \in ExpenseRequests /\ expense[e] \in ExpenseRows /\ Seen(r) \in ExpenseRows
        /\ amount \in Nat
        /\ Seen(r).writes = expense[e].writes =>
             Seen(r).total = expense[e].total /\ Seen(r).paid = expense[e].paid
    BY <2>1, TargetRead DEF Reading
  <2>3. /\ Seen(r).total \in Nat /\ Seen(r).paid \in Nat
        /\ expense[e].total \in Nat /\ expense[e].paid \in Nat
    BY <2>2, RowTyped
  <2>4. /\ paid \in Nat /\ status \in {"PAID", "PARTIAL"}
        /\ Seen(r).paid + amount <= Seen(r).total
    BY <1>1, <2>1, <2>2, <2>3 DEF Derived, SeenChecked
  <2>5. expense[e].writes = Seen(r).writes =>
          paid <= expense[e].total /\ status = Derived(expense[e].total, paid)
    BY <2>2, <2>4
  <2> HIDE DEF status, paid
  <2>6. /\ row \in ExpenseRows /\ row.total = expense[e].total /\ row.status = status
        /\ row.paid = paid /\ row.receipt = expense[e].receipt
    BY <2>2, <2>4 DEF ExpenseRows, ExpenseStatus
  <2> HIDE DEF row
  <2> QED  BY <2>1, <2>3, <2>4, <2>5, <2>6, MoneyKeeps
<1>6. CASE ExpenseRemoveWrite(r) \/ ReceiptAttach(r)
  <2> DEFINE removed == [expense[e] EXCEPT !.active = FALSE]
             attached == [expense[e] EXCEPT !.receipt = r]
             new == IF expenseRequest[r].at = "attach" THEN attached ELSE removed
  <2>1. expenseRequest[r].at \in {"remove", "attach"}
    BY <1>6 DEF ExpenseRemoveWrite, ReceiptAttach, ExpenseAt
  <2>2. e \in ExpenseRequests /\ Booked(e) /\ expense[e] \in ExpenseRows
    BY <2>1, TargetRead DEF Reading
  <2>3. /\ new \in ExpenseRows /\ new.total = expense[e].total /\ new.paid = expense[e].paid
        /\ new.status = expense[e].status /\ new.writes = expense[e].writes
        /\ new.receipt = IF expenseRequest[r].at = "attach" THEN r ELSE expense[e].receipt
    <3>1. /\ removed \in ExpenseRows /\ removed.total = expense[e].total
          /\ removed.paid = expense[e].paid /\ removed.status = expense[e].status
          /\ removed.writes = expense[e].writes /\ removed.receipt = expense[e].receipt
      BY <2>2 DEF ExpenseRows
    <3>2. /\ attached \in ExpenseRows /\ attached.total = expense[e].total
          /\ attached.paid = expense[e].paid /\ attached.status = expense[e].status
          /\ attached.writes = expense[e].writes /\ attached.receipt = r
      BY <2>2 DEF ExpenseRows
    <3> HIDE DEF removed, attached
    <3> QED  BY <3>1, <3>2
  <2>4. expense' = [expense EXCEPT ![e] = new]
    <3>1. CASE ExpenseRemoveWrite(r)
      <4>1. expenseRequest[r].at = "remove"  BY <3>1 DEF ExpenseRemoveWrite, ExpenseAt
      <4>2. expense' = [expense EXCEPT ![e] = removed]
        BY <3>1 DEF ExpenseRemoveWrite, WriteExpense, Target
      <4> QED  BY <4>1, <4>2
    <3>2. CASE ReceiptAttach(r)
      <4>1. expenseRequest[r].at = "attach"  BY <3>2 DEF ReceiptAttach, ExpenseAt
      <4>2. expense' = [expense EXCEPT ![e] = attached]
        BY <3>2 DEF ReceiptAttach, WriteExpense, Target
      <4> QED  BY <4>1, <4>2
    <3> QED  BY <1>6, <3>1, <3>2
  <2>5. /\ expenseRequest' = [expenseRequest EXCEPT ![r] = ExpenseDone]
        /\ UNCHANGED <<receipts, fresh>>
    BY <1>6 DEF ExpenseRemoveWrite, ReceiptAttach, WriteExpense, ExpenseDone
  <2> HIDE DEF new
  <2>6. fresh \in [ExpenseRequests -> BOOLEAN] /\ expense[e].writes \in Nat
    BY <2>2, ExpenseTypes, RowTyped DEF ExpensesInv
  <2>7. fresh'[e] => Settled(new)
    BY <2>2, <2>3, <2>5 DEF ExpensesInv, SettledUnlessOverlapped, Settled
  <2>8. new.status # "NONE"  BY <2>2, <2>3 DEF Booked
  <2>9. WritesRow(r, e, new)
    BY <2>1, <2>2, <2>3, <2>4, <2>5, <2>6, <2>7, <2>8 DEF WritesRow, Reading
  <2> QED  BY <2>2, <2>9, RowWritten
<1> QED  BY <1>2, <1>3, <1>4, <1>5, <1>6

\* There are no expenses at the start.
LEMMA ExpensesInitInv ==
    ASSUME ExpensesInit
    PROVE  ExpensesInv
<1>1. \A r \in ExpenseRequests :
        /\ expense[r] = NoRow /\ expenseRequest[r] = ExpenseIdle /\ fresh[r] = TRUE
  BY DEF ExpensesInit
<1>2. receipts = {} /\ NoRow.receipt = NoExpense /\ NoRow.status = "NONE"
  BY DEF ExpensesInit, NoRow
<1>3. ExpenseIdle.at = "new" /\ ExpenseIdle.seen = NoRow  BY DEF ExpenseIdle
<1>4. ExpensesTypeOK
  BY ExpenseTypes, ExpenseIdleTyped DEF ExpensesInit
<1> QED
  BY <1>1, <1>2, <1>3, <1>4
  DEF ExpensesInv, SettledUnlessOverlapped, ReceiptsKept, BookedByDone, SeenChecked, SeenCurrent,
      ImageOfOne, ImageSeen, ImageKnown, Booked, Seen, Reading

\* Every step keeps the invariant.
LEMMA ExpensesNextInv ==
    ASSUME ExpensesInv, [ExpensesNext]_expenseVars
    PROVE  ExpensesInv'
<1>1. CASE ExpensesNext
  BY <1>1, ExpenseReadsKeep, ExpenseWritesKeep, ImageStepsKeep DEF ExpensesNext, ExpenseStep
<1>2. CASE UNCHANGED expenseVars
  <2>1. UNCHANGED <<expense, receipts, expenseRequest, fresh>>  BY <1>2 DEF expenseVars
  <2>2. ExpensesTypeOK'  BY <2>1 DEF ExpensesInv, ExpensesTypeOK
  <2>3. SettledUnlessOverlapped' /\ ReceiptsKept'
    BY <2>1 DEF ExpensesInv, SettledUnlessOverlapped, ReceiptsKept, Settled, Derived, Booked
  <2>4. ASSUME NEW r \in ExpenseRequests
        PROVE  BookedByDone(r)' /\ SeenChecked(r)' /\ SeenCurrent(r)' /\ ImageOfOne(r)' /\ ImageSeen(r)'
    BY <2>1 DEF ExpensesInv, BookedByDone, SeenChecked, SeenCurrent, ImageOfOne, ImageSeen,
       ImageKnown, Booked, Seen, Target
  <2> QED  BY <2>2, <2>3, <2>4 DEF ExpensesInv
<1> QED  BY <1>1, <1>2

\* The invariant holds of every behavior.
LEMMA ExpensesInvariant == ExpensesSpec => []ExpensesInv
<1> QED  BY ExpensesInitInv, ExpensesNextInv, PTL DEF ExpensesSpec

\* An edit or a payment that saw the last one settles its expense; only overlapping
\* ones overpay it or leave a wrong status (expenses.service.ts:323-333, 407-416).
THEOREM ExpensesSettled == ExpensesSpec => []SettledUnlessOverlapped
<1>1. ExpensesInv => SettledUnlessOverlapped  BY DEF ExpensesInv
<1> QED  BY <1>1, ExpensesInvariant, PTL

\* The image of a receipt is in the store, unless an upload has just replaced it
\* (expenses.service.ts:577-589).
THEOREM ReceiptsInStore == ExpensesSpec => []ReceiptsKept
<1>1. ExpensesInv => ReceiptsKept  BY DEF ExpensesInv
<1> QED  BY <1>1, ExpensesInvariant, PTL

---------------------------------------------------------------------------
(* Settings *)

SettingsSteps ==
    {"new", "edit", "flags", "stay", "upgrade", "normalize", "relocate", "done", "failed"}
Jsons == [SettingsKeys -> SettingsWriters]
SettingsProgress ==
    [at : SettingsSteps, seen : Jsons, version : Nat, keys : SUBSET EditableKeys]
LatestKeys == EditableKeys \cup {"downgradeFlags"}
SettingsDone == [SettingsIdle EXCEPT !.at = "done"]

\* The types of settings, by the names used here.
LEMMA SettingsTypes ==
    SettingsTypeOK <=>
        /\ settings \in Jsons /\ settingsVersion \in Nat /\ plan \in {"PRO", "BASIC"}
        /\ salePrefix \in SettingsWriters
        /\ settingsRequest \in [SettingsRequests -> SettingsProgress]
        /\ latest \in [LatestKeys -> SettingsRequests \cup {Unset}] /\ clobbered \in BOOLEAN
BY DEF SettingsTypeOK, SettingsProgress, SettingsSteps, Jsons, LatestKeys

\* A request that has not begun, or is done, knows of no settings.
LEMMA SettingsIdleTyped ==
    /\ SettingsIdle \in SettingsProgress /\ SettingsDone \in SettingsProgress
    /\ SettingsDone.at = "done" /\ SettingsDone.version = 0
    /\ SettingsDone.seen = SettingsIdle.seen
    /\ SettingsIdle.at = "new" /\ SettingsIdle.version = 0
    /\ \A k \in SettingsKeys : SettingsIdle.seen[k] = Unset
<1> DEFINE unset == [k \in SettingsKeys |-> Unset]
<1>1. unset \in Jsons /\ \A k \in SettingsKeys : unset[k] = Unset
  BY DEF Jsons, SettingsWriters
<1>2. SettingsIdle = [at |-> "new", seen |-> unset, version |-> 0, keys |-> {}]
  BY DEF SettingsIdle
<1> HIDE DEF unset
<1>3. SettingsIdle \in SettingsProgress /\ SettingsIdle.seen = unset
  BY <1>1, <1>2 DEF SettingsProgress, SettingsSteps
<1>4. SettingsDone \in SettingsProgress /\ SettingsDone.at = "done" /\ SettingsDone.version = 0
      /\ SettingsDone.seen = unset
  BY <1>2, <1>3 DEF SettingsDone, SettingsProgress, SettingsSteps
<1> QED  BY <1>1, <1>2, <1>3, <1>4

\* A step of r: it goes on as `new`, and the prefix is not forgotten.
SettingsStepOf(r, new) ==
    /\ settingsRequest' = [settingsRequest EXCEPT ![r] = new] /\ new \in SettingsProgress
    /\ settingsVersion <= settingsVersion'
    /\ clobbered => clobbered'
    /\ PrefixOut => PrefixOut'
    /\ settingsVersion' = settingsVersion /\ ~clobbered' =>
         \A k \in EditableKeys : settings'[k] = settings[k]

\* Another request's step, to a newer version if it writes, leaves what a request saw true.
LEMMA OtherSeen ==
    ASSUME SettingsInv, SettingsTypeOK', NEW r \in SettingsRequests, NEW new,
           SettingsStepOf(r, new), NEW s \in SettingsRequests, s # r
    PROVE  JsonSeen(s)'
<1>1. /\ settingsRequest \in [SettingsRequests -> SettingsProgress]
      /\ settingsVersion \in Nat /\ settingsVersion' \in Nat
  <2>1. settingsVersion' \in Nat  BY DEF SettingsTypeOK
  <2> QED  BY <2>1, SettingsTypes DEF SettingsInv
<1>2. settingsRequest'[s] = settingsRequest[s]  BY <1>1 DEF SettingsStepOf
<1>3. JsonSeen(s) /\ settingsRequest[s].version \in Nat
  BY <1>1 DEF SettingsInv, SettingsProgress
<1>4. settingsRequest[s].version <= settingsVersion'
  BY <1>1, <1>3 DEF JsonSeen, SettingsStepOf
<1>5. settingsRequest[s].version = settingsVersion' => settingsVersion = settingsVersion'
  BY <1>1, <1>3 DEF JsonSeen, SettingsStepOf
<1>6. PrefixTyped(settingsRequest[s].seen)  BY <1>3 DEF JsonSeen
<1>7. (PrefixTyped(settingsRequest[s].seen))'
  BY <1>2, <1>6 DEF PrefixTyped
<1>8. PrefixIn(settingsRequest[s].seen) => (PrefixIn(settingsRequest[s].seen))'
  BY <1>2 DEF PrefixIn
<1> QED
  BY <1>2, <1>3, <1>4, <1>5, <1>7, <1>8 DEF JsonSeen, SettingsStepOf

\* Facts about the prefix from its type.
LEMMA PrefixWhere ==
    ASSUME NEW json, PrefixTyped(json)
    PROVE  /\ json["receiptPrefix"] \in {Legacy, Unset}
           /\ json["custom.receiptPrefix"] \in {Legacy, Unset}
           /\ PrefixIn(json) <=> Legacy \in {json["receiptPrefix"], json["custom.receiptPrefix"]}
BY DEF PrefixTyped, PrefixIn, PrefixKeys

\* The steps that write no JSON.
LEMMA SettingsRestKeeps ==
    ASSUME SettingsInv, NEW r \in SettingsRequests, NEW new \in SettingsProgress,
           settingsRequest' = [settingsRequest EXCEPT ![r] = new],
           UNCHANGED <<settings, settingsVersion, latest, clobbered>>,
           plan' \in {"PRO", "BASIC"}, salePrefix' \in SettingsWriters,
           PrefixOut => PrefixOut',
           new.version <= settingsVersion, PrefixTyped(new.seen),
           new.at # "relocate",
           new.at \in {"edit", "flags", "normalize"} =>
               new.seen = settings /\ new.version = settingsVersion
    PROVE  SettingsInv'
<1>1. /\ settingsRequest \in [SettingsRequests -> SettingsProgress] /\ settingsVersion \in Nat
      /\ SettingsTypeOK
  BY SettingsTypes DEF SettingsInv
<1>2. settingsRequest'[r] = new /\ settingsRequest' \in [SettingsRequests -> SettingsProgress]
  BY <1>1
<1>3. SettingsTypeOK'
  BY <1>1, <1>2, SettingsTypes DEF SettingsTypeOK, SettingsProgress, SettingsSteps, Jsons
<1>4. SettingsStepOf(r, new)  BY <1>1 DEF SettingsStepOf
<1>5. EditsKept'  BY DEF SettingsInv, EditsKept
<1>6. PrefixOut' \/ (PrefixIn(settings))'
  BY DEF SettingsInv, PrefixIn
<1>7. (PrefixTyped(settings))'  BY DEF SettingsInv, PrefixTyped
<1>8. JsonSeen(r)'
  <2>1. (PrefixTyped(settingsRequest[r].seen))'  BY <1>2 DEF PrefixTyped
  <2>2. new.at \in {"edit", "flags", "normalize"} =>
          ((PrefixIn(settings))' => (PrefixIn(settingsRequest[r].seen))')
    BY <1>2 DEF PrefixIn
  <2> QED  BY <1>2, <1>6, <2>1, <2>2 DEF JsonSeen
<1>9. \A s \in SettingsRequests : JsonSeen(s)'
  <2> SUFFICES ASSUME NEW s \in SettingsRequests PROVE JsonSeen(s)'  OBVIOUS
  <2>1. CASE s = r  BY <1>8, <2>1
  <2>2. CASE s # r  BY <1>3, <1>4, <2>2, OtherSeen
  <2> QED  BY <2>1, <2>2
<1> QED  BY <1>3, <1>5, <1>6, <1>7, <1>9 DEF SettingsInv

\* The steps that write the JSON.
LEMMA SettingsWriteKeeps ==
    ASSUME SettingsInv, NEW r \in SettingsRequests, NEW new \in SettingsProgress,
           NEW json \in Jsons,
           settingsRequest' = [settingsRequest EXCEPT ![r] = new], settings' = json,
           settingsVersion' \in {settingsVersion, settingsVersion + 1},
           plan' \in {"PRO", "BASIC"}, salePrefix' = salePrefix,
           latest' \in [LatestKeys -> SettingsRequests \cup {Unset}], clobbered' \in BOOLEAN,
           clobbered => clobbered',
           ~clobbered' => \A k \in EditableKeys : json[k] = latest'[k],
           ~clobbered' /\ settingsVersion' = settingsVersion =>
               \A k \in EditableKeys : json[k] = settings[k],
           PrefixTyped(json), PrefixOut => PrefixOut', PrefixOut' \/ PrefixIn(json),
           \/ new = SettingsDone
           \/ /\ new.at = "relocate" /\ new.seen["receiptPrefix"] = Legacy
              /\ PrefixTyped(new.seen) /\ new.version <= settingsVersion
    PROVE  SettingsInv'
<1>1. /\ settingsRequest \in [SettingsRequests -> SettingsProgress] /\ settingsVersion \in Nat
      /\ salePrefix \in SettingsWriters
  BY SettingsTypes DEF SettingsInv
<1>2. /\ settingsRequest'[r] = new /\ settingsRequest' \in [SettingsRequests -> SettingsProgress]
      /\ settingsVersion' \in Nat /\ settingsVersion <= settingsVersion'
  BY <1>1
<1>3. SettingsTypeOK'
  BY <1>1, <1>2 DEF SettingsTypeOK, SettingsProgress, SettingsSteps, Jsons, LatestKeys
<1>4. SettingsStepOf(r, new)  BY <1>2 DEF SettingsStepOf
<1>5. EditsKept'  BY DEF EditsKept
<1>6. PrefixOut' \/ (PrefixIn(settings))'  BY DEF PrefixIn
<1>7. (PrefixTyped(settings))'  BY DEF PrefixTyped
<1>8. JsonSeen(r)'
  <2>1. CASE new = SettingsDone
    <3>1. new.at = "done" /\ new.version = 0 /\ \A k \in SettingsKeys : new.seen[k] = Unset
      BY <2>1, SettingsIdleTyped
    <3>2. (PrefixTyped(settingsRequest[r].seen))'
      BY <1>2, <3>1 DEF PrefixTyped, PrefixKeys, SettingsKeys
    <3>3. settingsRequest'[r].version <= settingsVersion'  BY <1>2, <3>1
    <3> QED  BY <1>2, <3>1, <3>2, <3>3 DEF JsonSeen
  <2>2. CASE new.at = "relocate" /\ new # SettingsDone
    <3>1. (PrefixTyped(settingsRequest[r].seen))'  BY <1>2, <2>2 DEF PrefixTyped
    <3>2. settingsRequest'[r].version <= settingsVersion'
      <4>1. new.version \in Nat  BY DEF SettingsProgress
      <4> QED  BY <1>1, <1>2, <2>2, <4>1
    <3> QED  BY <1>2, <2>2, <3>1, <3>2 DEF JsonSeen
  <2> QED  BY <2>1, <2>2
<1>9. \A s \in SettingsRequests : JsonSeen(s)'
  <2> SUFFICES ASSUME NEW s \in SettingsRequests PROVE JsonSeen(s)'  OBVIOUS
  <2>1. CASE s = r  BY <1>8, <2>1
  <2>2. CASE s # r  BY <1>3, <1>4, <2>2, OtherSeen
  <2> QED  BY <2>1, <2>2
<1> QED  BY <1>3, <1>5, <1>6, <1>7, <1>9 DEF SettingsInv

\* A prefix that is out of the JSON, or on its way out, stays so.
LEMMA OutStays ==
    ASSUME SettingsInv, NEW r \in SettingsRequests, NEW new \in SettingsProgress,
           settingsRequest' = [settingsRequest EXCEPT ![r] = new],
           \/ settingsRequest[r].at \notin {"relocate", "failed"}
           \/ new.at \in {"relocate", "failed"}
           \/ salePrefix' = Legacy,
           salePrefix' \in {salePrefix, Legacy} \cup SettingsRequests
    PROVE  PrefixOut => PrefixOut'
<1>1. /\ settingsRequest \in [SettingsRequests -> SettingsProgress]
      /\ settingsRequest'[r] = new
      /\ \A s \in SettingsRequests : s # r => settingsRequest'[s] = settingsRequest[s]
  BY SettingsTypes DEF SettingsInv
<1> SUFFICES ASSUME PrefixOut PROVE PrefixOut'  OBVIOUS
<1>2. CASE salePrefix' \in SettingsRequests \cup {Legacy}  BY <1>2 DEF PrefixOut
<1>3. CASE salePrefix' \notin SettingsRequests \cup {Legacy}
  <2>1. PICK s \in SettingsRequests : settingsRequest[s].at \in {"relocate", "failed"}
    BY <1>3 DEF PrefixOut
  <2>2. CASE s = r  BY <1>1, <1>3, <2>1, <2>2 DEF PrefixOut
  <2>3. CASE s # r  BY <1>1, <2>1, <2>3 DEF PrefixOut
  <2> QED  BY <2>2, <2>3
<1> QED  BY <1>2, <1>3

\* A request that reads the settings knows what there is.
LEMMA SettingsReadsKeep ==
    ASSUME SettingsInv, NEW r \in SettingsRequests,
           EditSettingsRead(r) \/ PlanRead(r) \/ MigrateRead(r)
    PROVE  SettingsInv'
<1>1. PICK step \in {"edit", "flags", "stay", "upgrade", "normalize"}, keys \in SUBSET EditableKeys :
        ReadSettings(r, step, keys)
  BY DEF EditSettingsRead, PlanRead, MigrateRead
<1> DEFINE new == [at |-> step, seen |-> settings, version |-> settingsVersion, keys |-> keys]
<1>2. /\ settings \in Jsons /\ settingsVersion \in Nat /\ plan \in {"PRO", "BASIC"}
      /\ salePrefix \in SettingsWriters
  BY SettingsTypes DEF SettingsInv
<1>3. /\ new \in SettingsProgress /\ new.at = step /\ new.seen = settings
      /\ new.version = settingsVersion
  BY <1>2 DEF SettingsProgress, SettingsSteps
<1>4. /\ settingsRequest' = [settingsRequest EXCEPT ![r] = new] /\ settingsRequest[r].at = "new"
      /\ UNCHANGED <<settings, settingsVersion, plan, salePrefix, latest, clobbered>>
  BY <1>1 DEF ReadSettings, SettingsAt
<1> HIDE DEF new
<1>5. PrefixOut => PrefixOut'
  <2>1. salePrefix' \in {salePrefix, Legacy} \cup SettingsRequests  BY <1>4
  <2>2. \/ settingsRequest[r].at \notin {"relocate", "failed"}
        \/ new.at \in {"relocate", "failed"}
        \/ salePrefix' = Legacy
    BY <1>4
  <2>3. new \in SettingsProgress /\ settingsRequest' = [settingsRequest EXCEPT ![r] = new]
    BY <1>3, <1>4
  <2> QED  BY <2>1, <2>2, <2>3, OutStays
<1>6. PrefixTyped(settings)  BY DEF SettingsInv
<1>7. /\ plan' \in {"PRO", "BASIC"} /\ salePrefix' \in SettingsWriters
      /\ UNCHANGED <<settings, settingsVersion, latest, clobbered>>
  BY <1>2, <1>4
<1>8. /\ new.version <= settingsVersion /\ PrefixTyped(new.seen) /\ new.at # "relocate"
      /\ (new.at \in {"edit", "flags", "normalize"} =>
             new.seen = settings /\ new.version = settingsVersion)
  BY <1>2, <1>3, <1>6
<1>9. new \in SettingsProgress /\ settingsRequest' = [settingsRequest EXCEPT ![r] = new]
  BY <1>3, <1>4
<1> QED  BY <1>5, <1>7, <1>8, <1>9, SettingsRestKeeps

\* What a request that is done saw has no prefix of a wrong type.
LEMMA DoneIsTyped ==
    PrefixTyped(SettingsDone.seen)
BY SettingsIdleTyped DEF PrefixTyped, PrefixKeys, SettingsKeys

\* An edit of the prefix writes its column alone.
LEMMA EditPrefixKeeps ==
    ASSUME SettingsInv, NEW r \in SettingsRequests, EditPrefix(r)
    PROVE  SettingsInv'
<1>1. /\ settingsRequest[r].at = "new" /\ salePrefix' = r
      /\ settingsRequest' = [settingsRequest EXCEPT ![r] = SettingsDone]
      /\ UNCHANGED <<settings, settingsVersion, plan, latest, clobbered>>
  BY DEF EditPrefix, SettingsAt, SettingsAnswer, SettingsDone
<1>2. settingsVersion \in Nat /\ plan \in {"PRO", "BASIC"} /\ salePrefix' \in SettingsWriters
  BY <1>1, SettingsTypes DEF SettingsInv, SettingsWriters
<1>3. PrefixOut => PrefixOut'  BY <1>1, SettingsIdleTyped, OutStays
<1>4. SettingsDone.version <= settingsVersion  BY <1>2, SettingsIdleTyped
<1> QED  BY <1>1, <1>2, <1>3, <1>4, SettingsIdleTyped, DoneIsTyped, SettingsRestKeeps

\* An upgrade, or an unchanged plan, writes no settings.
LEMMA PlanWriteKeeps ==
    ASSUME SettingsInv, NEW r \in SettingsRequests, PlanWrite(r)
    PROVE  SettingsInv'
<1>1. /\ settingsRequest[r].at \in {"stay", "upgrade"} /\ plan' \in {"PRO", "BASIC"}
      /\ settingsRequest' = [settingsRequest EXCEPT ![r] = SettingsDone]
      /\ UNCHANGED <<settings, settingsVersion, salePrefix, latest, clobbered>>
  BY DEF PlanWrite, SettingsAnswer, SettingsDone
<1>2. settingsVersion \in Nat /\ salePrefix' \in SettingsWriters
  BY <1>1, SettingsTypes DEF SettingsInv
<1>3. PrefixOut => PrefixOut'  BY <1>1, SettingsIdleTyped, OutStays
<1>4. SettingsDone.version <= settingsVersion  BY <1>2, SettingsIdleTyped
<1> QED  BY <1>1, <1>2, <1>3, <1>4, SettingsIdleTyped, DoneIsTyped, SettingsRestKeeps

\* The migration moves the old prefix to its column.
LEMMA MigratePrefixKeeps ==
    ASSUME SettingsInv, NEW r \in SettingsRequests, MigratePrefix(r)
    PROVE  SettingsInv'
<1>1. /\ settingsRequest[r].at = "relocate"
      /\ salePrefix' = settingsRequest[r].seen["receiptPrefix"]
      /\ settingsRequest' = [settingsRequest EXCEPT ![r] = SettingsDone]
      /\ UNCHANGED <<settings, settingsVersion, plan, latest, clobbered>>
  BY DEF MigratePrefix, Relocated, SettingsAt, SettingsAnswer, SettingsDone
<1>2. salePrefix' = Legacy  BY <1>1 DEF SettingsInv, JsonSeen
<1>3. settingsVersion \in Nat /\ plan \in {"PRO", "BASIC"} /\ salePrefix' \in SettingsWriters
  BY <1>2, SettingsTypes DEF SettingsInv, SettingsWriters
<1>4. PrefixOut => PrefixOut'  BY <1>1, <1>2, SettingsIdleTyped, OutStays
<1>5. SettingsDone.version <= settingsVersion  BY <1>3, SettingsIdleTyped
<1> QED  BY <1>1, <1>3, <1>4, <1>5, SettingsIdleTyped, DoneIsTyped, SettingsRestKeeps

\* An interrupted migration leaves the prefix on its way.
LEMMA MigrationInterruptedKeeps ==
    ASSUME SettingsInv, NEW r \in SettingsRequests, MigrationInterrupted(r)
    PROVE  SettingsInv'
<1> DEFINE new == [settingsRequest[r] EXCEPT !.at = "failed"]
<1>1. /\ settingsRequest[r].at = "relocate"
      /\ settingsRequest' = [settingsRequest EXCEPT ![r].at = "failed"]
      /\ UNCHANGED <<settings, settingsVersion, plan, salePrefix, latest, clobbered>>
  BY DEF MigrationInterrupted, SettingsAt, SettingsGoto
<1>2. /\ settingsRequest \in [SettingsRequests -> SettingsProgress]
      /\ settingsRequest[r] \in SettingsProgress
      /\ settingsVersion \in Nat /\ plan \in {"PRO", "BASIC"} /\ salePrefix \in SettingsWriters
  BY SettingsTypes DEF SettingsInv
<1>3. /\ new \in SettingsProgress /\ new.at = "failed" /\ new.seen = settingsRequest[r].seen
      /\ new.version = settingsRequest[r].version
  BY <1>2 DEF SettingsProgress, SettingsSteps
<1>4. settingsRequest' = [settingsRequest EXCEPT ![r] = new]  BY <1>1, <1>2
<1> HIDE DEF new
<1>5. JsonSeen(r)  BY DEF SettingsInv
<1>6. PrefixOut => PrefixOut'  BY <1>1, <1>3, <1>4, OutStays
<1> QED  BY <1>1, <1>2, <1>3, <1>4, <1>5, <1>6, SettingsRestKeeps DEF JsonSeen

\* An edit of the version that it read keeps what others set.
LEMMA EditSettingsWriteKeeps ==
    ASSUME SettingsInv, NEW r \in SettingsRequests, EditSettingsWrite(r)
    PROVE  SettingsInv'
<1> DEFINE q == settingsRequest[r]
           json == Merged(q.seen, r, q.keys)
<1>1. /\ q.at = "edit" /\ settingsRequest' = [settingsRequest EXCEPT ![r] = SettingsDone]
      /\ UNCHANGED <<plan, salePrefix, clobbered>>
  BY DEF EditSettingsWrite, SettingsAt, SettingsAnswer, SettingsDone
<1>2. /\ q \in SettingsProgress /\ q.seen \in Jsons /\ q.keys \subseteq EditableKeys
      /\ settings \in Jsons /\ settingsVersion \in Nat
      /\ plan \in {"PRO", "BASIC"} /\ salePrefix \in SettingsWriters /\ clobbered \in BOOLEAN
      /\ latest \in [LatestKeys -> SettingsRequests \cup {Unset}]
  BY SettingsTypes DEF SettingsInv, SettingsProgress
<1>3. JsonSeen(r) /\ PrefixTyped(q.seen)  BY DEF SettingsInv, JsonSeen
<1>4. PrefixOut => PrefixOut'  BY <1>1, SettingsIdleTyped, OutStays
<1>5. CASE SameVersion(r)
  <2>1. /\ settings' = json /\ settingsVersion' = settingsVersion + 1
        /\ latest' = [k \in DOMAIN latest |-> IF k \in q.keys THEN r ELSE latest[k]]
    BY <1>5 DEF EditSettingsWrite
  <2>2. \A k \in SettingsKeys :
          json[k] = IF k \in q.keys THEN r
                    ELSE IF k = "receiptPrefix" THEN Unset
                    ELSE IF k = "custom.receiptPrefix" /\ q.seen["receiptPrefix"] # Unset
                         THEN q.seen["receiptPrefix"]
                    ELSE q.seen[k]
    BY DEF Merged
  <2>3. json \in Jsons
    <3>1. \A k \in SettingsKeys : json[k] \in SettingsWriters
      <4>1. /\ \A k \in SettingsKeys : q.seen[k] \in SettingsWriters
            /\ "receiptPrefix" \in SettingsKeys /\ r \in SettingsWriters /\ Unset \in SettingsWriters
        BY <1>2 DEF Jsons, SettingsKeys, SettingsWriters
      <4> HIDE DEF json, q
      <4> QED  BY <2>2, <4>1
    <3>2. json = [k \in SettingsKeys |-> json[k]]  BY DEF Merged
    <3> HIDE DEF json
    <3> QED  BY <3>1, <3>2 DEF Jsons
  <2>4. latest' \in [LatestKeys -> SettingsRequests \cup {Unset}]
    BY <1>2, <2>1
  <2>5. ~clobbered => \A k \in EditableKeys : json[k] = latest'[k]
    <3> SUFFICES ASSUME ~clobbered, NEW k \in EditableKeys PROVE json[k] = latest'[k]  OBVIOUS
    <3>1. /\ k \in SettingsKeys /\ k \in LatestKeys
          /\ k # "receiptPrefix" /\ k # "custom.receiptPrefix"
      BY DEF EditableKeys, SettingsKeys, LatestKeys
    <3>2. latest'[k] = IF k \in q.keys THEN r ELSE latest[k]  BY <1>2, <2>1, <3>1
    <3>3. json[k] = IF k \in q.keys THEN r ELSE q.seen[k]  BY <2>2, <3>1
    <3>4. q.seen[k] = settings[k]
      BY <1>1, <1>3, <1>5 DEF JsonSeen, SameVersion
    <3>5. settings[k] = latest[k]  BY DEF SettingsInv, EditsKept
    <3> QED  BY <3>2, <3>3, <3>4, <3>5
  <2>6. "receiptPrefix" \notin q.keys /\ "custom.receiptPrefix" \notin q.keys
    BY <1>2 DEF EditableKeys
  <2>7. /\ json["receiptPrefix"] = Unset
        /\ json["custom.receiptPrefix"] =
             IF q.seen["receiptPrefix"] # Unset THEN q.seen["receiptPrefix"]
             ELSE q.seen["custom.receiptPrefix"]
    BY <2>2, <2>6 DEF SettingsKeys
  <2>8. /\ q.seen["receiptPrefix"] \in {Legacy, Unset}
        /\ q.seen["custom.receiptPrefix"] \in {Legacy, Unset}
        /\ PrefixIn(q.seen) => Legacy \in {q.seen["receiptPrefix"], q.seen["custom.receiptPrefix"]}
    BY <1>3, PrefixWhere
  <2>9. Legacy # Unset  BY SettingsAssumption
  <2>10. PrefixTyped(json) /\ (PrefixIn(q.seen) => PrefixIn(json))
    <3> HIDE DEF json, q
    <3> QED  BY <2>7, <2>8, <2>9 DEF PrefixTyped, PrefixIn, PrefixKeys
  <2>11. PrefixOut' \/ PrefixIn(json)
    BY <1>1, <1>3, <1>4, <2>10 DEF JsonSeen
  <2>12. settingsVersion' # settingsVersion  BY <1>2, <2>1
  <2> HIDE DEF json
  <2> QED
    BY <1>1, <1>2, <1>4, <2>1, <2>3, <2>4, <2>5, <2>10, <2>11, <2>12, SettingsIdleTyped,
       SettingsWriteKeeps
<1>6. CASE ~SameVersion(r)
  <2>1. UNCHANGED <<settings, settingsVersion, latest>>  BY <1>6 DEF EditSettingsWrite
  <2>2. SettingsDone.version <= settingsVersion  BY <1>2, SettingsIdleTyped
  <2> HIDE DEF q, json
  <2> QED
    BY <1>1, <1>2, <1>4, <2>1, <2>2, SettingsIdleTyped, DoneIsTyped, SettingsRestKeeps
<1> QED  BY <1>5, <1>6

\* A downgrade overwrites what was set since it read, and clobbers it.
LEMMA DowngradeWriteKeeps ==
    ASSUME SettingsInv, NEW r \in SettingsRequests, DowngradeWrite(r)
    PROVE  SettingsInv'
<1> DEFINE q == settingsRequest[r]
           json == WithFlags(r)
<1>1. /\ q.at = "flags" /\ settingsRequest' = [settingsRequest EXCEPT ![r] = SettingsDone]
      /\ settings' = json /\ clobbered' = (clobbered \/ settingsVersion # q.version)
      /\ plan' = "BASIC" /\ latest' = [latest EXCEPT !["downgradeFlags"] = r]
      /\ UNCHANGED <<settingsVersion, salePrefix>>
  BY DEF DowngradeWrite, WriteUnversioned, SettingsAt, SettingsAnswer, SettingsDone
<1>2. /\ q.seen \in Jsons /\ settingsVersion \in Nat /\ clobbered \in BOOLEAN
      /\ latest \in [LatestKeys -> SettingsRequests \cup {Unset}]
  BY SettingsTypes DEF SettingsInv, SettingsProgress
<1>3. JsonSeen(r) /\ PrefixTyped(q.seen)  BY DEF SettingsInv, JsonSeen
<1>4. PrefixOut => PrefixOut'  BY <1>1, SettingsIdleTyped, OutStays
<1>5. json \in Jsons /\ \A k \in SettingsKeys : k # "downgradeFlags" => json[k] = q.seen[k]
  BY <1>2 DEF WithFlags, Jsons, SettingsWriters
<1>6. "downgradeFlags" \notin EditableKeys /\ "downgradeFlags" \notin PrefixKeys
      /\ EditableKeys \subseteq SettingsKeys /\ PrefixKeys \subseteq SettingsKeys
      /\ EditableKeys \subseteq LatestKeys
  BY DEF EditableKeys, PrefixKeys, SettingsKeys, LatestKeys
<1> HIDE DEF json
<1>7. ~clobbered' => \A k \in EditableKeys : json[k] = settings[k] /\ settings[k] = latest'[k]
  <2> SUFFICES ASSUME ~clobbered, settingsVersion = q.version, NEW k \in EditableKeys
               PROVE  json[k] = settings[k] /\ settings[k] = latest'[k]
    BY <1>1
  <2>1. json[k] = q.seen[k]  BY <1>5, <1>6
  <2>2. q.seen[k] = settings[k]  BY <1>1, <1>3 DEF JsonSeen
  <2>3. settings[k] = latest[k]  BY DEF SettingsInv, EditsKept
  <2>4. latest'[k] = latest[k]  BY <1>1, <1>2, <1>6
  <2> QED  BY <2>1, <2>2, <2>3, <2>4
<1>8. PrefixTyped(json) /\ (PrefixIn(q.seen) => PrefixIn(json))
  BY <1>3, <1>5, <1>6 DEF PrefixTyped, PrefixIn
<1>9. PrefixOut' \/ PrefixIn(json)  BY <1>1, <1>3, <1>4, <1>8 DEF JsonSeen
<1>10. latest' \in [LatestKeys -> SettingsRequests \cup {Unset}] /\ clobbered' \in BOOLEAN
  BY <1>1, <1>2
<1>11. clobbered => clobbered'  BY <1>1
<1> HIDE DEF q
<1> QED
  BY <1>1, <1>4, <1>5, <1>7, <1>8, <1>9, <1>10, <1>11, SettingsIdleTyped, SettingsWriteKeeps

\* The migration of the JSON moves keys and takes the old prefix out.
LEMMA MigrateWriteKeeps ==
    ASSUME SettingsInv, NEW r \in SettingsRequests, MigrateWrite(r)
    PROVE  SettingsInv'
<1> DEFINE q == settingsRequest[r]
           json == Normalized(q.seen)
           moved == [q EXCEPT !.at = "relocate"]
           new == IF q.seen["receiptPrefix"] = Unset THEN SettingsDone ELSE moved
<1>1. /\ q.at = "normalize" /\ settings' = json
      /\ clobbered' = (clobbered \/ settingsVersion # q.version)
      /\ UNCHANGED <<settingsVersion, plan, salePrefix, latest>>
  BY DEF MigrateWrite, WriteUnversioned, SettingsAt
<1>2. /\ settingsRequest \in [SettingsRequests -> SettingsProgress] /\ q \in SettingsProgress
      /\ q.seen \in Jsons /\ q.version \in Nat /\ settingsVersion \in Nat /\ clobbered \in BOOLEAN
      /\ plan \in {"PRO", "BASIC"}
      /\ latest \in [LatestKeys -> SettingsRequests \cup {Unset}]
  BY SettingsTypes DEF SettingsInv, SettingsProgress
<1>3. JsonSeen(r) /\ PrefixTyped(q.seen)  BY DEF SettingsInv, JsonSeen
<1>4. /\ q.seen["receiptPrefix"] \in {Legacy, Unset}
      /\ q.seen["custom.receiptPrefix"] \in {Legacy, Unset}
      /\ PrefixIn(q.seen) => Legacy \in {q.seen["receiptPrefix"], q.seen["custom.receiptPrefix"]}
  BY <1>3, PrefixWhere
<1>5. /\ moved \in SettingsProgress /\ moved.at = "relocate" /\ moved.seen = q.seen
      /\ moved.version = q.version
  BY <1>2 DEF SettingsProgress, SettingsSteps
<1>6. settingsRequest' = [settingsRequest EXCEPT ![r] = new]
  <2>1. CASE q.seen["receiptPrefix"] = Unset
    <3>1. SettingsAnswer(r)  BY <2>1 DEF MigrateWrite
    <3> QED  BY <2>1, <3>1 DEF SettingsAnswer, SettingsDone
  <2>2. CASE q.seen["receiptPrefix"] # Unset
    <3>1. SettingsGoto(r, "relocate")  BY <2>2 DEF MigrateWrite
    <3> QED  BY <1>2, <2>2, <3>1 DEF SettingsGoto
  <2> QED  BY <2>1, <2>2
<1>7. json \in Jsons /\ \A k \in SettingsKeys :
        json[k] = IF k = "receiptPrefix" THEN Unset ELSE q.seen[k]
  BY <1>2 DEF Normalized, Jsons, SettingsWriters
<1> HIDE DEF json, moved
<1>8. /\ new \in SettingsProgress
      /\ \/ new = SettingsDone
         \/ /\ new.at = "relocate" /\ new.seen["receiptPrefix"] = Legacy
            /\ PrefixTyped(new.seen) /\ new.version <= settingsVersion
  <2>1. CASE q.seen["receiptPrefix"] = Unset  BY <2>1, SettingsIdleTyped
  <2>2. CASE q.seen["receiptPrefix"] # Unset
    <3>1. new = moved  BY <2>2
    <3>2. q.version <= settingsVersion  BY <1>3 DEF JsonSeen
    <3> QED  BY <1>3, <1>4, <1>5, <2>2, <3>1, <3>2
  <2> QED  BY <2>1, <2>2
<1>9. "receiptPrefix" \notin EditableKeys /\ EditableKeys \subseteq SettingsKeys
      /\ PrefixKeys \subseteq SettingsKeys
  BY DEF EditableKeys, PrefixKeys, SettingsKeys
<1>10. ~clobbered' => \A k \in EditableKeys : json[k] = settings[k] /\ settings[k] = latest'[k]
  <2> SUFFICES ASSUME ~clobbered, settingsVersion = q.version, NEW k \in EditableKeys
               PROVE  json[k] = settings[k] /\ settings[k] = latest'[k]
    BY <1>1
  <2>1. json[k] = q.seen[k]  BY <1>7, <1>9
  <2>2. q.seen[k] = settings[k]  BY <1>1, <1>3 DEF JsonSeen
  <2>3. settings[k] = latest[k]  BY DEF SettingsInv, EditsKept
  <2> QED  BY <1>1, <2>1, <2>2, <2>3
<1>11. PrefixTyped(json)  BY <1>3, <1>7, <1>9 DEF PrefixTyped
<1>12. PrefixOut => PrefixOut'  BY <1>1, <1>6, <1>8, OutStays
<1>13. PrefixOut' \/ PrefixIn(json)
  <2>1. CASE q.seen["receiptPrefix"] # Unset
    <3>1. new.at = "relocate"  BY <1>5, <2>1
    <3>2. settingsRequest'[r] = new  BY <1>2, <1>6
    <3> QED  BY <3>1, <3>2 DEF PrefixOut
  <2>2. CASE q.seen["receiptPrefix"] = Unset
    <3>1. Legacy # Unset  BY SettingsAssumption
    <3>2. PrefixIn(q.seen) => PrefixIn(json)
      BY <1>4, <1>7, <1>9, <2>2, <3>1 DEF PrefixIn, PrefixKeys
    <3> QED  BY <1>1, <1>3, <1>12, <3>2 DEF JsonSeen
  <2> QED  BY <2>1, <2>2
<1>14. clobbered' \in BOOLEAN /\ (clobbered => clobbered')  BY <1>1, <1>2
<1> HIDE DEF q, new
<1> QED
  BY <1>1, <1>2, <1>6, <1>7, <1>8, <1>10, <1>11, <1>12, <1>13, <1>14, SettingsWriteKeeps

\* The settings begin with the old prefix in its key.
LEMMA SettingsInitInv ==
    ASSUME SettingsInit
    PROVE  SettingsInv
<1>1. /\ \A r \in SettingsRequests : settingsRequest[r] = SettingsIdle
      /\ settingsVersion = 0 /\ clobbered = FALSE
      /\ \A k \in SettingsKeys : settings[k] = IF k = "receiptPrefix" THEN Legacy ELSE Unset
      /\ \A k \in LatestKeys : latest[k] = Unset
  BY DEF SettingsInit, LatestKeys
<1>2. SettingsTypeOK
  BY SettingsTypes, SettingsIdleTyped DEF SettingsInit, Jsons, SettingsWriters, LatestKeys
<1>3. EditsKept
  BY <1>1 DEF EditsKept, EditableKeys, SettingsKeys, LatestKeys
<1>4. PrefixIn(settings) /\ PrefixTyped(settings)
  BY <1>1 DEF PrefixIn, PrefixTyped, PrefixKeys, SettingsKeys
<1>5. ASSUME NEW r \in SettingsRequests PROVE JsonSeen(r)
  <2>1. PrefixTyped(SettingsIdle.seen)
    BY SettingsIdleTyped DEF PrefixTyped, PrefixKeys, SettingsKeys
  <2> QED  BY <1>1, <2>1, SettingsIdleTyped DEF JsonSeen
<1> QED  BY <1>2, <1>3, <1>4, <1>5 DEF SettingsInv

\* Every step keeps the invariant.
LEMMA SettingsNextInv ==
    ASSUME SettingsInv, [SettingsNext]_settingsVars
    PROVE  SettingsInv'
<1>1. CASE SettingsNext
  BY <1>1, SettingsReadsKeep, EditPrefixKeeps, EditSettingsWriteKeeps, DowngradeWriteKeeps,
     PlanWriteKeeps, MigrateWriteKeeps, MigratePrefixKeeps, MigrationInterruptedKeeps
  DEF SettingsNext, SettingsStep
<1>2. CASE UNCHANGED settingsVars
  <2>1. UNCHANGED <<settings, settingsVersion, plan, salePrefix, settingsRequest, latest, clobbered>>
    BY <1>2 DEF settingsVars
  <2>2. SettingsTypeOK' /\ EditsKept'
    BY <2>1 DEF SettingsInv, SettingsTypeOK, EditsKept
  <2>3. (PrefixOut \/ PrefixIn(settings))' /\ (PrefixTyped(settings))'
    BY <2>1 DEF SettingsInv, PrefixOut, PrefixIn, PrefixTyped
  <2>4. ASSUME NEW r \in SettingsRequests PROVE JsonSeen(r)'
    BY <2>1 DEF SettingsInv, JsonSeen, PrefixOut, PrefixIn, PrefixTyped
  <2> QED  BY <2>2, <2>3, <2>4 DEF SettingsInv
<1> QED  BY <1>1, <1>2

\* The invariant holds of every behavior.
LEMMA SettingsAreKept ==
    ASSUME SettingsInv
    PROVE  SettingsKept
<1>1. PrefixIn(settings) => Legacy \in {settings["receiptPrefix"], settings["custom.receiptPrefix"]}
  BY PrefixWhere DEF SettingsInv
<1> QED  BY <1>1 DEF SettingsInv, SettingsKept, LegacyPrefixKept, PrefixOut

\* Neither an accepted edit nor the prefix of before the migration is lost, in
\* whatever order edits, plan changes and migrations come (settings.service.ts:55-79,
\* 159-171, admin.service.ts:217-227, migration.ts:113-133).
THEOREM NothingSetIsLost == SettingsSpec => []SettingsKept
<1>1. SettingsSpec => []SettingsInv
  BY SettingsInitInv, SettingsNextInv, PTL DEF SettingsSpec
<1> QED  BY <1>1, SettingsAreKept, PTL

---------------------------------------------------------------------------
(* Tasks *)

TaskProgress ==
    [at : {"new", "update", "status", "remove", "done"}, on : TaskRequests \cup {"none"},
     seen : TaskStatus \cup {"NONE"}, to : TaskStatus \cup {"NONE"},
     assignee : TaskUsers \cup {Nobody, "unsent"}]
TaskRow == [status : TaskStatus \cup {"NONE"}, createdBy : TaskUsers \cup {Nobody},
            assignee : TaskUsers \cup {Nobody}, deleted : BOOLEAN]

\* The types of tasks, by the names used here.
LEMMA TaskTypes ==
    ASSUME TasksTypeOK
    PROVE  /\ task \in [TaskRequests -> TaskRow] /\ taskEvents \in [TaskRequests -> Seq(TaskEvent)]
           /\ taskRequest \in [TaskRequests -> TaskProgress] /\ taskOverlap \subseteq SUBSET TaskRequests
  BY DEF TasksTypeOK, TaskProgress, TaskRow

\* And back.
LEMMA TaskTyped ==
    ASSUME task \in [TaskRequests -> TaskRow], taskEvents \in [TaskRequests -> Seq(TaskEvent)],
           taskRequest \in [TaskRequests -> TaskProgress], taskOverlap \subseteq SUBSET TaskRequests
    PROVE  TasksTypeOK
  BY DEF TasksTypeOK, TaskProgress, TaskRow

\* There are no tasks at the start.
LEMMA TasksInitHolds == TasksInit => TasksInv
<1> SUFFICES ASSUME TasksInit PROVE TasksInv  OBVIOUS
<1>1. NoTask \in TaskRow /\ TaskIdle \in TaskProgress /\ <<>> \in Seq(TaskEvent)
  BY DEF NoTask, TaskIdle, TaskRow, TaskProgress
<1>2. TasksTypeOK
  <2>1. /\ task \in [TaskRequests -> TaskRow] /\ taskEvents \in [TaskRequests -> Seq(TaskEvent)]
        /\ taskRequest \in [TaskRequests -> TaskProgress] /\ taskOverlap \subseteq SUBSET TaskRequests
    BY <1>1 DEF TasksInit
  <2> QED  BY <2>1, TaskTyped
<1>3. \A t \in TaskRequests :
        /\ taskEvents[t] = <<>> /\ Len(taskEvents[t]) = 0 /\ DOMAIN taskEvents[t] = {}
        /\ task[t].status = "NONE" /\ taskRequest[t].at = "new"
  BY DEF TasksInit, NoTask, TaskIdle
<1>4. TimelineTellsStatus
  BY <1>3 DEF TimelineTellsStatus, Replayed
<1> QED  BY <1>2, <1>3, <1>4 DEF TasksInv, AllOverlap, TaskTold, TaskSeen, Working, Events

\* A request that finds a task is one that works now, and overlaps all the others.
LEMMA FindKeeps ==
    ASSUME TasksInv, NEW r \in TaskRequests, NEW t \in TaskRequests,
           NEW step \in {"update", "status", "remove"}, NEW to \in TaskStatus \cup {"NONE"},
           NEW assignee \in TaskUsers \cup {Nobody, "unsent"},
           step = "status" => to \in AllowedTransitions[task[t].status],
           FindTask(r, t, step, to, assignee)
    PROVE  TasksInv'
<1> USE TaskTypes DEF TasksInv
<1> DEFINE new == [at |-> step, on |-> t, seen |-> task[t].status, to |-> to, assignee |-> assignee]
           pairs == {{r, q} : q \in {s \in TaskRequests : taskRequest[s].at \notin {"new", "done"}}}
<1>1. task[t] \in TaskRow /\ task[t].status \in TaskStatus \cup {"NONE"}  BY DEF TaskRow
<1>2. /\ new \in TaskProgress /\ new.at = step /\ new.on = t /\ new.seen = task[t].status
      /\ new.to = to
  BY <1>1 DEF TaskProgress
<1>3. /\ taskRequest' = [taskRequest EXCEPT ![r] = new] /\ taskOverlap' = taskOverlap \cup pairs
      /\ task' = task /\ taskEvents' = taskEvents /\ taskRequest[r].at = "new"
      /\ task[t].status # "NONE" /\ ~task[t].deleted
  BY DEF FindTask, TaskAt, Findable
<1>4. \A q \in TaskRequests : Working(q) => {r, q} \in taskOverlap'
  BY <1>3 DEF Working
<1>5. pairs \subseteq SUBSET TaskRequests  OBVIOUS
<1> HIDE DEF new, pairs
<1>6. taskRequest'[r] = new /\ \A q \in TaskRequests : q # r => taskRequest'[q] = taskRequest[q]
  BY <1>3
<1>7. TasksTypeOK'
  <2>1. taskRequest' \in [TaskRequests -> TaskProgress]  BY <1>2, <1>3
  <2>2. taskOverlap' \subseteq SUBSET TaskRequests  BY <1>3, <1>5
  <2>3. task' \in [TaskRequests -> TaskRow] /\ taskEvents' \in [TaskRequests -> Seq(TaskEvent)]
    BY <1>3
  <2> QED  BY <2>1, <2>2, <2>3 DEF TasksTypeOK, TaskProgress, TaskRow
<1>8. TimelineTellsStatus'
  BY <1>3 DEF TimelineTellsStatus, Replayed, Chained
<1>9. AllOverlap'
  <2> SUFFICES ASSUME NEW p \in TaskRequests, NEW q \in TaskRequests, p # q, Working(p)', Working(q)'
               PROVE  {p, q} \in taskOverlap'
    BY DEF AllOverlap
  <2>1. CASE p = r
    <3>1. Working(q)  BY <1>6, <2>1 DEF Working
    <3> QED  BY <1>4, <2>1, <3>1
  <2>2. CASE q = r
    <3>1. Working(p)  BY <1>6, <2>2 DEF Working
    <3>2. {p, q} = {q, p}  OBVIOUS
    <3> QED  BY <1>4, <2>2, <3>1, <3>2
  <2>3. CASE p # r /\ q # r
    <3>1. Working(p) /\ Working(q)  BY <1>6, <2>3 DEF Working
    <3> QED  BY <1>3, <3>1 DEF AllOverlap
  <2> QED  BY <2>1, <2>2, <2>3
<1>10. \A q \in TaskRequests : TaskTold(q)'
  <2> SUFFICES ASSUME NEW q \in TaskRequests PROVE TaskTold(q)'  OBVIOUS
  <2>1. TaskTold(q)  OBVIOUS
  <2>2. task[q].status # "NONE" => taskRequest'[q].at = "done"
    BY <1>3, <1>6, <2>1 DEF TaskTold
  <2> QED  BY <1>3, <2>1, <2>2 DEF TaskTold, Events
<1>11. \A q \in TaskRequests : TaskSeen(q)'
  <2> SUFFICES ASSUME NEW q \in TaskRequests PROVE TaskSeen(q)'  OBVIOUS
  <2>1. CASE q = r
    <3>1. TaskTold(t) /\ Replayed(t)  BY DEF TimelineTellsStatus
    <3>2. taskEvents[t] \in Seq(TaskEvent)  OBVIOUS
    <3>3. /\ Len(taskEvents[t]) \in Nat \ {0}
          /\ \A i \in 1..Len(taskEvents[t]) : taskEvents[t][i].type # "DELETED"
      BY <1>3, <3>1, <3>2 DEF TaskTold, Events
    <3>4. DOMAIN taskEvents[t] = 1..Len(taskEvents[t])  BY <3>2
    <3>5. /\ taskEvents[t][Len(taskEvents[t])].to = task[t].status
          /\ taskEvents[t][Len(taskEvents[t])].type # "DELETED"
      <4>1. PICK i \in 1..Len(taskEvents[t]) :
              task[t].status = taskEvents[t][i].to /\ \A j \in 1..Len(taskEvents[t]) : j <= i
        BY <1>3, <3>1, <3>3, <3>4 DEF Replayed
      <4>2. i = Len(taskEvents[t])  BY <3>3, <4>1
      <4> QED  BY <3>3, <4>1, <4>2
    <3>6. task[t].status \in TaskStatus  BY <1>1, <1>3
    <3>7. new.at = "status" => new.to \in AllowedTransitions[new.seen]  BY <1>2
    <3>8. taskEvents' = taskEvents /\ taskRequest'[q] = new  BY <1>3, <1>6, <2>1
    <3>9. taskRequest'[q].on = t /\ taskRequest'[q].seen = task[t].status  BY <1>2, <3>8
    <3> QED  BY <3>3, <3>5, <3>6, <3>7, <3>8, <3>9 DEF TaskSeen, Last, Events
  <2>2. CASE q # r
    <3>1. taskRequest'[q] = taskRequest[q] /\ taskEvents' = taskEvents /\ taskOverlap \subseteq taskOverlap'
      BY <1>3, <1>6, <2>2
    <3>2. TaskSeen(q)  OBVIOUS
    <3> QED  BY <3>1, <3>2 DEF TaskSeen, Last, Events, Working
  <2> QED  BY <2>1, <2>2
<1> QED  BY <1>7, <1>8, <1>9, <1>10, <1>11

\* A timeline that grows by one event.
LEMMA Appended ==
    ASSUME NEW s \in Seq(TaskEvent), NEW event \in TaskEvent
    PROVE  /\ Append(s, event) \in Seq(TaskEvent) /\ Len(Append(s, event)) = Len(s) + 1
           /\ Len(s) \in Nat /\ Append(s, event)[Len(s) + 1] = event
           /\ \A i \in 1..Len(s) : Append(s, event)[i] = s[i]
           /\ DOMAIN s = 1..Len(s) /\ DOMAIN Append(s, event) = 1..(Len(s) + 1)
  OBVIOUS

\* Where a timeline without a removal at its end leaves its task.
LEMMA LastTells ==
    ASSUME TasksInv, NEW t \in TaskRequests, Len(Events(t)) > 0, Last(t).type # "DELETED"
    PROVE  task[t].status = Last(t).to
<1> USE TaskTypes DEF TasksInv
<1>1. taskEvents[t] \in Seq(TaskEvent) /\ Len(taskEvents[t]) \in Nat \ {0}  BY DEF Events
<1>2. DOMAIN taskEvents[t] = 1..Len(taskEvents[t])  BY <1>1
<1>3. Len(taskEvents[t]) \in {i \in DOMAIN taskEvents[t] : taskEvents[t][i].type # "DELETED"}
  BY <1>1, <1>2 DEF Last, Events
<1>4. Replayed(t)  BY DEF TimelineTellsStatus
<1>5. PICK i \in DOMAIN taskEvents[t] :
        task[t].status = taskEvents[t][i].to /\ Len(taskEvents[t]) <= i
  BY <1>3, <1>4 DEF Replayed
<1>6. i = Len(taskEvents[t])  BY <1>1, <1>2, <1>5
<1> QED  BY <1>5, <1>6 DEF Last, Events

\* A write adds one event, which ends at the status that it leaves and starts
\* where the timeline ended, unless its request overlapped the one before.
WriteSound(r, t, row, event) ==
    /\ event.by = r /\ row.status # "NONE" /\ (t = r \/ task[t].status # "NONE")
    /\ (IF event.type = "DELETED" THEN row.status = task[t].status ELSE row.status = event.to)
    /\ (~row.deleted =>
          event.type # "DELETED" /\ \A i \in 1..Len(Events(t)) : Events(t)[i].type # "DELETED")
    /\ (Len(Events(t)) > 0 =>
          \/ {Last(t).by, r} \in taskOverlap
          \/ /\ Last(t).type # "DELETED" /\ event.from = Last(t).to
             /\ (event.type = "STATUS_CHANGED" /\ event.to \in {"COMPLETED", "CANCELLED"} =>
                   event.from \in {"PENDING", "IN_PROGRESS"}))
    /\ (\A q \in TaskRequests :
          q # r /\ Working(q) /\ taskRequest[q].on = t => {r, q} \in taskOverlap)

\* A sound write keeps the invariant.
LEMMA WriteKeeps ==
    ASSUME TasksInv, NEW r \in TaskRequests, NEW t \in TaskRequests, NEW row \in TaskRow,
           NEW event \in TaskEvent, WriteTask(r, t, row, event),
           WriteSound(r, t, row, event)
    PROVE  TasksInv'
<1> USE TaskTypes DEF TasksInv
<1> /\ event.by = r /\ row.status # "NONE" /\ (t = r \/ task[t].status # "NONE")
    /\ (IF event.type = "DELETED" THEN row.status = task[t].status ELSE row.status = event.to)
    /\ (~row.deleted =>
          event.type # "DELETED" /\ \A i \in 1..Len(Events(t)) : Events(t)[i].type # "DELETED")
    /\ (Len(Events(t)) > 0 =>
          \/ {Last(t).by, r} \in taskOverlap
          \/ /\ Last(t).type # "DELETED" /\ event.from = Last(t).to
             /\ (event.type = "STATUS_CHANGED" /\ event.to \in {"COMPLETED", "CANCELLED"} =>
                   event.from \in {"PENDING", "IN_PROGRESS"}))
    /\ (\A q \in TaskRequests :
          q # r /\ Working(q) /\ taskRequest[q].on = t => {r, q} \in taskOverlap)
  BY DEF WriteSound
<1> DEFINE done == [TaskIdle EXCEPT !.at = "done"]
           n == Len(taskEvents[t])
<1>1. done \in TaskProgress /\ done.at = "done"  BY DEF TaskIdle, TaskProgress
<1>2. /\ task' = [task EXCEPT ![t] = row]
      /\ taskEvents' = [taskEvents EXCEPT ![t] = Append(taskEvents[t], event)]
      /\ taskRequest' = [taskRequest EXCEPT ![r] = done] /\ taskOverlap' = taskOverlap
  BY DEF WriteTask
<1> HIDE DEF done
<1>3. /\ taskEvents[t] \in Seq(TaskEvent) /\ n \in Nat
      /\ taskEvents'[t] \in Seq(TaskEvent) /\ Len(taskEvents'[t]) = n + 1
      /\ taskEvents'[t][n + 1] = event /\ \A i \in 1..n : taskEvents'[t][i] = taskEvents[t][i]
      /\ DOMAIN taskEvents[t] = 1..n /\ DOMAIN taskEvents'[t] = 1..(n + 1)
  <2>1. taskEvents[t] \in Seq(TaskEvent) /\ taskEvents'[t] = Append(taskEvents[t], event)
    BY <1>2
  <2> QED  BY <2>1, Appended
<1>4. \A q \in TaskRequests : q # t => taskEvents'[q] = taskEvents[q] /\ task'[q] = task[q]
  BY <1>2
<1>5. task'[t] = row  BY <1>2
<1>6. /\ taskRequest'[r] = done
      /\ \A q \in TaskRequests : q # r => taskRequest'[q] = taskRequest[q]
  BY <1>2
<1>7. TasksTypeOK'
  <2>1. /\ task' \in [TaskRequests -> TaskRow] /\ taskRequest' \in [TaskRequests -> TaskProgress]
        /\ taskOverlap' \subseteq SUBSET TaskRequests
    BY <1>1, <1>2
  <2>2. taskEvents' \in [TaskRequests -> Seq(TaskEvent)]
    <3>1. Append(taskEvents[t], event) \in Seq(TaskEvent)  BY <1>3, Appended
    <3> QED  BY <1>2, <3>1
  <2> QED  BY <2>1, <2>2 DEF TasksTypeOK, TaskProgress, TaskRow
<1> HIDE DEF n
<1>8. \A q \in TaskRequests : (Replayed(q))'
  <2> SUFFICES ASSUME NEW q \in TaskRequests PROVE (Replayed(q))'  OBVIOUS
  <2>1. Replayed(q)  BY DEF TimelineTellsStatus
  <2>2. CASE q # t
    <3>1. taskEvents'[q] = taskEvents[q] /\ task'[q] = task[q]  BY <1>4, <2>2
    <3> QED  BY <2>1, <3>1 DEF Replayed
  <2>3. CASE q = t /\ event.type # "DELETED"
    <3>1. n + 1 \in {i \in DOMAIN taskEvents'[t] : taskEvents'[t][i].type # "DELETED"}
      BY <1>3, <2>3
    <3>2. task'[t].status = taskEvents'[t][n + 1].to  BY <1>3, <1>5, <2>3
    <3>3. \A j \in DOMAIN taskEvents'[t] : j <= n + 1  BY <1>3
    <3> QED  BY <2>3, <3>1, <3>2, <3>3 DEF Replayed
  <2>4. CASE q = t /\ event.type = "DELETED"
    <3>1. {i \in DOMAIN taskEvents'[t] : taskEvents'[t][i].type # "DELETED"} =
          {i \in DOMAIN taskEvents[t] : taskEvents[t][i].type # "DELETED"}
      BY <1>3, <2>4
    <3>2. \A i \in DOMAIN taskEvents[t] : taskEvents'[t][i] = taskEvents[t][i]  BY <1>3
    <3>3. task'[t].status = task[t].status  BY <1>5, <2>4
    <3> QED  BY <2>1, <2>4, <3>1, <3>2, <3>3 DEF Replayed
  <2> QED  BY <2>2, <2>3, <2>4
<1>9. \A q \in TaskRequests : \A i \in 2..Len(taskEvents'[q]) : (Chained(q, i))'
  <2> SUFFICES ASSUME NEW q \in TaskRequests, NEW i \in 2..Len(taskEvents'[q])
               PROVE  (Chained(q, i))'
    OBVIOUS
  <2>1. CASE q # t
    <3>1. taskEvents'[q] = taskEvents[q] /\ Chained(q, i)  BY <1>4, <2>1 DEF TimelineTellsStatus
    <3> QED  BY <1>2, <3>1 DEF Chained
  <2>2. CASE q = t /\ i # n + 1
    <3>1. i \in 2..n /\ i \in 1..n /\ i - 1 \in 1..n  BY <1>3, <2>2
    <3>2. Chained(q, i)  BY <2>2, <3>1 DEF TimelineTellsStatus, n
    <3>3. taskEvents'[t][i] = taskEvents[t][i] /\ taskEvents'[t][i - 1] = taskEvents[t][i - 1]
      BY <1>3, <3>1
    <3> QED  BY <1>2, <2>2, <3>2, <3>3 DEF Chained
  <2>3. CASE q = t /\ i = n + 1
    <3>1. n \in 1..n /\ i - 1 = n /\ n > 0  BY <1>3, <2>3
    <3>2. taskEvents'[t][i] = event /\ taskEvents'[t][i - 1] = taskEvents[t][n]
      BY <1>3, <2>3, <3>1
    <3>3. Last(t) = taskEvents[t][n] /\ Len(Events(t)) > 0  BY <3>1 DEF Last, Events, n
    <3> QED  BY <1>2, <2>3, <3>2, <3>3 DEF Chained
  <2> QED  BY <2>1, <2>2, <2>3
<1>10. AllOverlap'
  <2> SUFFICES ASSUME NEW p \in TaskRequests, NEW q \in TaskRequests, p # q, Working(p)', Working(q)'
               PROVE  {p, q} \in taskOverlap
    BY <1>2 DEF AllOverlap
  <2>1. p # r /\ q # r  BY <1>1, <1>6 DEF Working
  <2>2. Working(p) /\ Working(q)  BY <1>6, <2>1 DEF Working
  <2> QED  BY <2>2 DEF AllOverlap
<1>11. \A q \in TaskRequests : TaskTold(q)'
  <2> SUFFICES ASSUME NEW q \in TaskRequests PROVE TaskTold(q)'  OBVIOUS
  <2>1. TaskTold(q)  OBVIOUS
  <2>2. (task[q].status # "NONE" => taskRequest[q].at = "done")'
    BY <1>1, <1>4, <1>6, <2>1 DEF TaskTold
  <2>3. CASE q # t  BY <1>4, <2>1, <2>2, <2>3 DEF TaskTold, Events
  <2>4. CASE q = t
    <3>1. Len(taskEvents'[t]) # 0 /\ task'[t].status # "NONE"  BY <1>3, <1>5
    <3>2. ~task'[t].deleted => \A i \in 1..(n + 1) : taskEvents'[t][i].type # "DELETED"
      <4> SUFFICES ASSUME ~row.deleted, NEW i \in 1..(n + 1)
                   PROVE  taskEvents'[t][i].type # "DELETED"
        BY <1>5
      <4>1. CASE i = n + 1  BY <1>3, <4>1
      <4>2. CASE i # n + 1
        <5>1. i \in 1..n  BY <1>3, <4>2
        <5> QED  BY <1>3, <5>1 DEF Events, n
      <4> QED  BY <4>1, <4>2
    <3> QED  BY <1>3, <2>2, <2>4, <3>1, <3>2 DEF TaskTold, Events
  <2> QED  BY <2>3, <2>4
<1>12. \A q \in TaskRequests : TaskSeen(q)'
  <2> SUFFICES ASSUME NEW q \in TaskRequests, Working(q)' PROVE TaskSeen(q)'  BY DEF TaskSeen
  <2>1. q # r  BY <1>1, <1>6 DEF Working
  <2>2. taskRequest'[q] = taskRequest[q] /\ Working(q)  BY <1>6, <2>1 DEF Working
  <2>3. TaskSeen(q)  OBVIOUS
  <2>4. CASE taskRequest[q].on = t
    <3>1. {r, q} \in taskOverlap  BY <2>1, <2>2, <2>4
    <3>2. taskEvents'[t][Len(taskEvents'[t])].by = r /\ Len(taskEvents'[t]) > 0  BY <1>3
    <3> QED  BY <1>2, <2>2, <2>3, <2>4, <3>1, <3>2 DEF TaskSeen, Last, Events
  <2>5. CASE taskRequest[q].on # t
    <3>1. taskRequest[q].on \in TaskRequests  BY <2>2, <2>3 DEF TaskSeen
    <3>2. taskEvents'[taskRequest[q].on] = taskEvents[taskRequest[q].on]  BY <1>4, <2>5, <3>1
    <3> QED  BY <1>2, <2>2, <2>3, <3>2 DEF TaskSeen, Last, Events
  <2> QED  BY <2>4, <2>5
<1> QED  BY <1>7, <1>8, <1>9, <1>10, <1>11, <1>12 DEF TimelineTellsStatus

\* What a request that is about to write knows of its task.
LEMMA WriterKnows ==
    ASSUME TasksInv, NEW r \in TaskRequests, Working(r)
    PROVE  LET q == taskRequest[r]
           IN /\ q.on \in TaskRequests /\ task[q.on] \in TaskRow /\ task[q.on].status \in TaskStatus
              /\ q.seen \in TaskStatus /\ TaskSeen(r) /\ TaskTold(q.on)
              /\ \A p \in TaskRequests : p # r /\ Working(p) => {r, p} \in taskOverlap
<1>1. TaskSeen(r) /\ AllOverlap  BY DEF TasksInv
<1>2. taskRequest[r].on \in TaskRequests /\ Len(Events(taskRequest[r].on)) > 0
      /\ taskRequest[r].seen \in TaskStatus
  BY <1>1 DEF TaskSeen
<1>3. TaskTold(taskRequest[r].on)  BY <1>2 DEF TasksInv
<1>4. task[taskRequest[r].on] \in TaskRow  BY <1>2, TaskTypes DEF TasksInv
<1>5. task[taskRequest[r].on].status # "NONE"  BY <1>2, <1>3 DEF TaskTold
<1>6. \A p \in TaskRequests : p # r /\ Working(p) => {r, p} \in taskOverlap
  BY <1>1 DEF AllOverlap
<1> QED  BY <1>1, <1>2, <1>3, <1>4, <1>5, <1>6 DEF TaskRow

\* A task that is created has no events, and nobody works on it.
LEMMA CreateKeeps ==
    ASSUME TasksInv, NEW r \in TaskRequests, TaskCreate(r)
    PROVE  TasksInv'
<1>1. PICK user \in TaskUsers, assignee \in TaskUsers \cup {Nobody} :
        WriteTask(r, r, [status |-> "PENDING", createdBy |-> user, assignee |-> assignee,
                         deleted |-> FALSE], Event(r, "CREATED", "NONE", "PENDING"))
  BY DEF TaskCreate
<1> DEFINE row == [status |-> "PENDING", createdBy |-> user, assignee |-> assignee, deleted |-> FALSE]
           event == Event(r, "CREATED", "NONE", "PENDING")
<1>2. row \in TaskRow /\ row.status = "PENDING" /\ row.deleted = FALSE
  BY DEF TaskRow, TaskStatus
<1>3. /\ event \in TaskEvent /\ event.by = r /\ event.type = "CREATED" /\ event.to = "PENDING"
  BY DEF Event, TaskEvent, TaskStatus
<1>4. TaskTold(r) /\ taskRequest[r].at = "new"  BY DEF TasksInv, TaskCreate, TaskAt
<1>5. Len(Events(r)) = 0  BY <1>4 DEF TaskTold
<1>6. \A q \in TaskRequests : Working(q) => taskRequest[q].on # r
  <2> SUFFICES ASSUME NEW q \in TaskRequests, Working(q), taskRequest[q].on = r PROVE FALSE
    OBVIOUS
  <2>1. TaskSeen(q)  BY DEF TasksInv
  <2>2. Len(Events(taskRequest[q].on)) > 0  BY <2>1 DEF TaskSeen
  <2> QED  BY <1>5, <2>2
<1>7. WriteTask(r, r, row, event)  BY <1>1
<1> HIDE DEF row, event
<1>8. IF event.type = "DELETED" THEN row.status = task[r].status ELSE row.status = event.to
  BY <1>2, <1>3
<1>9. event.type # "DELETED" /\ \A i \in 1..Len(Events(r)) : Events(r)[i].type # "DELETED"
  BY <1>3, <1>5
<1>10. row.status # "NONE" /\ ~(Len(Events(r)) > 0)  BY <1>2, <1>5
<1>11. row \in TaskRow /\ event \in TaskEvent /\ event.by = r  BY <1>2, <1>3
<1>12. PICK t \in TaskRequests : t = r  OBVIOUS
<1>13. WriteTask(r, t, row, event) /\ row.status # "NONE" /\ (t = r \/ task[t].status # "NONE")
  BY <1>7, <1>10, <1>12
<1>14. IF event.type = "DELETED" THEN row.status = task[t].status ELSE row.status = event.to
  BY <1>8, <1>12
<1>15. ~row.deleted => event.type # "DELETED" /\
         \A i \in 1..Len(Events(t)) : Events(t)[i].type # "DELETED"
  BY <1>9, <1>12
<1>16. Len(Events(t)) > 0 =>
         \/ {Last(t).by, r} \in taskOverlap
         \/ /\ Last(t).type # "DELETED" /\ event.from = Last(t).to
            /\ (event.type = "STATUS_CHANGED" /\ event.to \in {"COMPLETED", "CANCELLED"} =>
                  event.from \in {"PENDING", "IN_PROGRESS"})
  BY <1>10, <1>12
<1>17. \A q \in TaskRequests :
         q # r /\ Working(q) /\ taskRequest[q].on = t => {r, q} \in taskOverlap
  BY <1>6, <1>12
<1>18. WriteSound(r, t, row, event)  BY <1>11, <1>13, <1>15, <1>16, <1>17, <1>14 DEF WriteSound
<1> QED  BY <1>11, <1>13, <1>18, WriteKeeps

\* An update tells the status it finds when it writes.
LEMMA UpdateKeeps ==
    ASSUME TasksInv, NEW r \in TaskRequests, TaskUpdateWrite(r)
    PROVE  TasksInv'
<1>1. Working(r)  BY DEF TaskUpdateWrite, TaskAt, Working
<1>2. PICK t \in TaskRequests : t = taskRequest[r].on  BY <1>1, WriterKnows
<1>3. /\ task[t] \in TaskRow /\ task[t].status \in TaskStatus /\ TaskSeen(r) /\ TaskTold(t)
      /\ \A p \in TaskRequests : p # r /\ Working(p) => {r, p} \in taskOverlap
  BY <1>1, <1>2, WriterKnows
<1> DEFINE sent == taskRequest[r].assignee
           event == UpdatedEvent(r, t)
           chosen == IF sent = "unsent" THEN task[t].assignee ELSE sent
           row == [task[t] EXCEPT !.assignee = chosen]
<1>4. chosen \in TaskUsers \cup {Nobody}
  <2>1. sent \in TaskUsers \cup {Nobody, "unsent"}  BY TaskTypes DEF TasksInv, TaskProgress
  <2> QED  BY <1>3, <2>1 DEF TaskRow
<1>5. WriteTask(r, t, row, event)  BY <1>2 DEF TaskUpdateWrite
<1> HIDE DEF chosen
<1>6. row \in TaskRow /\ row.status = task[t].status /\ row.deleted = task[t].deleted
  BY <1>3, <1>4 DEF TaskRow
<1>7. /\ event \in TaskEvent /\ event.by = r /\ event.type = "UPDATED"
      /\ event.from = task[t].status /\ event.to = task[t].status
  BY <1>3 DEF UpdatedEvent, Event, TaskEvent
<1> HIDE DEF row, event
<1>8. Len(Events(t)) > 0 =>
        {Last(t).by, r} \in taskOverlap \/ (Last(t).type # "DELETED" /\ event.from = Last(t).to)
  BY <1>1, <1>2, <1>3, <1>7, LastTells DEF TaskSeen
<1>9. ~row.deleted => \A i \in 1..Len(Events(t)) : Events(t)[i].type # "DELETED"
  BY <1>3, <1>6 DEF TaskTold
<1>10. row.status # "NONE" /\ task[t].status # "NONE"  BY <1>3, <1>6 DEF TaskStatus
<1>11. IF event.type = "DELETED" THEN row.status = task[t].status ELSE row.status = event.to
  BY <1>6, <1>7
<1>12. event.type # "DELETED" /\ event.type # "STATUS_CHANGED"  BY <1>7
<1>13. WriteSound(r, t, row, event)  BY <1>3, <1>5, <1>6, <1>7, <1>8, <1>9, <1>10, <1>11, <1>12 DEF WriteSound
<1> QED  BY <1>5, <1>6, <1>7, <1>13, WriteKeeps

\* A change of status tells the one it saw, and makes a transition allowed from it.
LEMMA StatusKeeps ==
    ASSUME TasksInv, NEW r \in TaskRequests, TaskStatusWrite(r)
    PROVE  TasksInv'
<1>1. Working(r) /\ taskRequest[r].at = "status"  BY DEF TaskStatusWrite, TaskAt, Working
<1>2. PICK t \in TaskRequests : t = taskRequest[r].on  BY <1>1, WriterKnows
<1>3. /\ task[t] \in TaskRow /\ task[t].status \in TaskStatus /\ TaskSeen(r) /\ TaskTold(t)
      /\ taskRequest[r].seen \in TaskStatus
      /\ \A p \in TaskRequests : p # r /\ Working(p) => {r, p} \in taskOverlap
  BY <1>1, <1>2, WriterKnows
<1> DEFINE seen == taskRequest[r].seen
           to == taskRequest[r].to
           event == Event(r, "STATUS_CHANGED", seen, to)
           row == [task[t] EXCEPT !.status = to]
<1>4. to \in AllowedTransitions[seen]  BY <1>1, <1>3 DEF TaskSeen
<1>5. to \in TaskStatus /\ (to \in {"COMPLETED", "CANCELLED"} => seen \in {"PENDING", "IN_PROGRESS"})
  BY <1>3, <1>4 DEF AllowedTransitions, TaskStatus
<1>6. WriteTask(r, t, row, event)  BY <1>2 DEF TaskStatusWrite, StatusWritten
<1> HIDE DEF to
<1>7. row \in TaskRow /\ row.status = to /\ row.deleted = task[t].deleted
  BY <1>3, <1>5 DEF TaskRow
<1>8. /\ event \in TaskEvent /\ event.by = r /\ event.type = "STATUS_CHANGED"
      /\ event.from = seen /\ event.to = to
  BY <1>3, <1>5 DEF Event, TaskEvent
<1>9. Len(Events(t)) > 0 =>
        {Last(t).by, r} \in taskOverlap \/ (Last(t).type # "DELETED" /\ Last(t).to = seen)
  BY <1>1, <1>2, <1>3 DEF TaskSeen
<1> HIDE DEF row, event
<1>10. ~row.deleted => \A i \in 1..Len(Events(t)) : Events(t)[i].type # "DELETED"
  BY <1>3, <1>7 DEF TaskTold
<1>11. row.status # "NONE" /\ task[t].status # "NONE"  BY <1>3, <1>5, <1>7 DEF TaskStatus
<1>12. IF event.type = "DELETED" THEN row.status = task[t].status ELSE row.status = event.to
  BY <1>7, <1>8
<1>13. Len(Events(t)) > 0 =>
         \/ {Last(t).by, r} \in taskOverlap
         \/ /\ Last(t).type # "DELETED" /\ event.from = Last(t).to
            /\ (event.type = "STATUS_CHANGED" /\ event.to \in {"COMPLETED", "CANCELLED"} =>
                  event.from \in {"PENDING", "IN_PROGRESS"})
  BY <1>5, <1>8, <1>9
<1>14. event.type # "DELETED"  BY <1>8
<1>15. WriteSound(r, t, row, event)  BY <1>3, <1>6, <1>7, <1>8, <1>10, <1>11, <1>12, <1>13, <1>14 DEF WriteSound
<1> QED  BY <1>6, <1>7, <1>8, <1>15, WriteKeeps

\* A removal touches no status.
LEMMA TaskRemoveKeeps ==
    ASSUME TasksInv, NEW r \in TaskRequests, TaskRemoveWrite(r)
    PROVE  TasksInv'
<1>1. Working(r)  BY DEF TaskRemoveWrite, TaskAt, Working
<1>2. PICK t \in TaskRequests : t = taskRequest[r].on  BY <1>1, WriterKnows
<1>3. /\ task[t] \in TaskRow /\ task[t].status \in TaskStatus /\ TaskSeen(r)
      /\ taskRequest[r].seen \in TaskStatus
      /\ \A p \in TaskRequests : p # r /\ Working(p) => {r, p} \in taskOverlap
  BY <1>1, <1>2, WriterKnows
<1> DEFINE seen == taskRequest[r].seen
           event == Event(r, "DELETED", seen, seen)
           row == [task[t] EXCEPT !.deleted = TRUE]
<1>4. WriteTask(r, t, row, event)  BY <1>2 DEF TaskRemoveWrite
<1>5. row \in TaskRow /\ row.status = task[t].status /\ row.deleted = TRUE
  BY <1>3 DEF TaskRow
<1>6. event \in TaskEvent /\ event.by = r /\ event.type = "DELETED" /\ event.from = seen
  BY <1>3 DEF Event, TaskEvent
<1>7. Len(Events(t)) > 0 =>
        {Last(t).by, r} \in taskOverlap \/ (Last(t).type # "DELETED" /\ Last(t).to = seen)
  BY <1>1, <1>2, <1>3 DEF TaskSeen
<1> HIDE DEF row, event
<1>8. row.status # "NONE" /\ task[t].status # "NONE"  BY <1>3, <1>5 DEF TaskStatus
<1>9. IF event.type = "DELETED" THEN row.status = task[t].status ELSE row.status = event.to
  BY <1>5, <1>6
<1>10. event.type # "STATUS_CHANGED" /\ row.deleted  BY <1>5, <1>6
<1>11. WriteSound(r, t, row, event)  BY <1>3, <1>4, <1>5, <1>6, <1>7, <1>8, <1>9, <1>10 DEF WriteSound
<1> QED  BY <1>4, <1>5, <1>6, <1>11, WriteKeeps

\* Every step keeps the invariant.
LEMMA TasksNextKeeps == TasksInv /\ TasksNext => TasksInv'
<1> SUFFICES ASSUME TasksInv, NEW r \in TaskRequests,
                    TaskCreate(r) \/ TaskUpdateRead(r) \/ TaskStatusRead(r) \/ TaskRemoveRead(r)
                        \/ TaskStep(r)
             PROVE  TasksInv'
  BY DEF TasksNext
<1>1. CASE TaskCreate(r)  BY <1>1, CreateKeeps
<1>2. CASE TaskUpdateRead(r)
  <2>1. PICK t \in TaskRequests, assignee \in TaskUsers \cup {Nobody, "unsent"} :
          FindTask(r, t, "update", "NONE", assignee)
    BY <1>2 DEF TaskUpdateRead
  <2> QED  BY <2>1, FindKeeps
<1>3. CASE TaskStatusRead(r)
  <2>1. PICK t \in TaskRequests :
          Findable(t) /\ \E to \in AllowedTransitions[task[t].status] :
              FindTask(r, t, "status", to, Nobody)
    BY <1>3 DEF TaskStatusRead
  <2>2. PICK to \in AllowedTransitions[task[t].status] : FindTask(r, t, "status", to, Nobody)
    BY <2>1
  <2>3. task[t].status \in TaskStatus
    BY <2>1, TaskTypes DEF TasksInv, TaskRow, Findable
  <2>4. to \in TaskStatus \cup {"NONE"}  BY <2>2, <2>3 DEF AllowedTransitions, TaskStatus
  <2> QED  BY <2>2, <2>4, FindKeeps
<1>4. CASE TaskRemoveRead(r)
  <2>1. PICK t \in TaskRequests : FindTask(r, t, "remove", "NONE", Nobody)
    BY <1>4 DEF TaskRemoveRead
  <2> QED  BY <2>1, FindKeeps
<1>5. CASE TaskStep(r)  BY <1>5, UpdateKeeps, StatusKeeps, TaskRemoveKeeps DEF TaskStep
<1> QED  BY <1>1, <1>2, <1>3, <1>4, <1>5

\* So does a step that changes nothing.
LEMMA TasksRestKeeps == TasksInv /\ UNCHANGED taskVars => TasksInv'
<1> SUFFICES ASSUME TasksInv, UNCHANGED taskVars PROVE TasksInv'  OBVIOUS
<1>1. TasksTypeOK'  BY DEF TasksInv, TasksTypeOK, taskVars
<1>2. TimelineTellsStatus'  BY DEF TasksInv, TimelineTellsStatus, Replayed, Chained, taskVars
<1>3. AllOverlap'  BY DEF TasksInv, AllOverlap, Working, taskVars
<1>4. \A r \in TaskRequests : TaskTold(r)'  BY DEF TasksInv, TaskTold, Events, taskVars
<1>5. \A r \in TaskRequests : TaskSeen(r)'
  BY DEF TasksInv, TaskSeen, Working, Events, Last, taskVars
<1> QED  BY <1>1, <1>2, <1>3, <1>4, <1>5 DEF TasksInv

\* A timeline ends at the status of its task, and only overlapping requests leave
\* a gap in it, a forbidden transition or an event after a removal
\* (tasks.service.ts:188-238).
THEOREM TimelinesTrue == TasksSpec => []TimelineTellsStatus
<1>1. TasksInv /\ [TasksNext]_taskVars => TasksInv'  BY TasksNextKeeps, TasksRestKeeps
<1>2. TasksInv => TimelineTellsStatus  BY DEF TasksInv
<1> QED  BY <1>1, <1>2, TasksInitHolds, PTL DEF TasksSpec

---------------------------------------------------------------------------
(* Names: every step keeps the invariant *)

Rows == [name : RecordNames \cup {NoName}, active : BOOLEAN, used : BOOLEAN,
         by : {"nobody", "form", "import", "defaults"}, changes : Nat]
Asks == [at : {"new", "create", "update", "remove", "defaults", "resolve", "revive", "done"},
         on : RecordIds \cup {NoName}, name : RecordNames \cup {NoName},
         active : SUBSET BOOLEAN, changes : Nat]
Answered == [NameIdle EXCEPT !.at = "done"]

\* The types, by the names used here.
LEMMA NamesTypes ==
    NamesTypeOK <=>
        /\ kind \in Kinds /\ record \in [RecordIds -> Rows]
        /\ nameRequest \in [NameRequests -> Asks] /\ staleEdit \in BOOLEAN
BY DEF NamesTypeOK, Rows, Asks

\* No name is the missing one.
LEMMA NamesDiffer == NoName \notin RecordNames
BY DEF NoName, RecordNames, Spellings2

\* A request names the record it may create.
LEMMA RequestsAreIds == \A r \in NameRequests : r \in RecordIds /\ r # NoName /\ r \notin DefaultNames
BY NamesAssumption DEF RecordIds

\* The request that is over, and the one that has not begun.
LEMMA AnsweredTypes == Answered \in Asks /\ Answered.at = "done" /\ NameIdle \in Asks /\ NameIdle.at = "new"
BY DEF Answered, NameIdle, Asks

\* A request that is answered, and writes records so that nothing recorded is lost and no
\* record becomes active or inactive without being counted as changed.
LEMMA NamesMove ==
    ASSUME NamesInv, NEW r \in NameRequests, record' \in [RecordIds -> Rows],
           kind' = kind, staleEdit' \in BOOLEAN,
           nameRequest' = [nameRequest EXCEPT ![r] = Answered],
           \A h \in RecordIds : Recorded(h) =>
             /\ (Recorded(h))' /\ record[h].changes <= record'[h].changes
             /\ record'[h].changes = record[h].changes => (record'[h].active <=> record[h].active),
           \A h \in RecordIds : (Recorded(h))' => Recorded(h) \/ h = r \/ h \in DefaultNames
    PROVE  NamesInv'
<1>1. /\ nameRequest \in [NameRequests -> Asks] /\ kind \in Kinds /\ record \in [RecordIds -> Rows]
  BY NamesTypes DEF NamesInv
<1>2. NamesTypeOK'
  <2>1. nameRequest' \in [NameRequests -> Asks]  BY <1>1, AnsweredTypes
  <2> QED  BY <1>1, <2>1 DEF NamesTypeOK, Rows, Asks
<1>3. nameRequest'[r] = Answered /\ \A u \in NameRequests \ {r} : nameRequest'[u] = nameRequest[u]
  BY <1>1
<1>4. RequestNamed(r)'
  <2>1. nameRequest'[r].at = "done"  BY <1>3, AnsweredTypes
  <2> QED  BY <2>1 DEF RequestNamed
<1>5. ASSUME NEW u \in NameRequests \ {r} PROVE RequestNamed(u)'
  <2> DEFINE q == nameRequest[u]
  <2>1. /\ RequestNamed(u) /\ nameRequest'[u] = q  BY <1>3 DEF NamesInv
  <2>2. (Recorded(u))' => q.at = "done"  BY <2>1, RequestsAreIds DEF RequestNamed
  <2>3. q.at \in {"update", "remove", "revive"} => q.on \in RecordIds /\ (Recorded(q.on))'
    <3>1. q.at \in {"update", "remove", "revive"} => q.on \in RecordIds /\ Recorded(q.on)
      BY <2>1 DEF RequestNamed
    <3>2. q.on \in RecordIds /\ Recorded(q.on) => record'[q.on].name # NoName  BY DEF Recorded
    <3> QED  BY <2>1, <3>1, <3>2 DEF Recorded
  <2>4. ASSUME q.at = "update"
        PROVE  /\ q.changes <= record'[q.on].changes
               /\ q.changes = record'[q.on].changes =>
                    (kind \in {"category", "customer"} => record'[q.on].active)
    <3> DEFINE h == q.on
    <3>1. /\ h \in RecordIds /\ Recorded(h) /\ q.changes <= record[h].changes
          /\ q.changes = record[h].changes => (kind \in {"category", "customer"} => record[h].active)
      BY <2>1, <2>4 DEF RequestNamed, EditableRecord
    <3>2. /\ record[h].changes \in Nat /\ record'[h].changes \in Nat /\ q.changes \in Nat
      BY <1>1, <3>1 DEF Rows, Asks
    <3>3. /\ record[h].changes <= record'[h].changes
          /\ record'[h].changes = record[h].changes => (record'[h].active <=> record[h].active)
      BY <3>1
    <3>4. q.changes <= record'[h].changes  BY <3>1, <3>2, <3>3
    <3>5. q.changes = record'[h].changes =>
            record'[h].changes = record[h].changes /\ q.changes = record[h].changes
      BY <3>1, <3>2, <3>3
    <3> HIDE DEF h
    <3>6. ASSUME q.changes = record'[h].changes, kind \in {"category", "customer"}
          PROVE  record'[h].active
      BY <3>1, <3>3, <3>5, <3>6, Zenon
    <3> QED  BY <3>4, <3>6 DEF h
  <2>5. q.at \in {"create", "update", "resolve"} => q.name \in RecordNames
    BY <2>1 DEF RequestNamed
  <2> QED
    BY <2>1, <2>2, <2>3, <2>4, <2>5 DEF RequestNamed, EditableRecord, Recorded
<1> QED  BY <1>2, <1>4, <1>5 DEF NamesInv

\* A request that has read: what it goes on with is there.
LEMMA NamesRead ==
    ASSUME NamesInv, NEW r \in NameRequests,
           NEW step \in {"create", "update", "remove", "defaults", "resolve", "revive"},
           NEW h \in RecordIds \cup {NoName}, NEW name \in RecordNames \cup {NoName},
           NEW active \in SUBSET BOOLEAN, BeginName(r, step, h, name, active),
           step \in {"update", "remove", "revive"} => h \in RecordIds /\ Recorded(h),
           step \in {"create", "update", "resolve"} => name \in RecordNames,
           step = "update" => EditableRecord(h)
    PROVE  NamesInv'
<1> DEFINE q == [at |-> step, on |-> h, name |-> name, active |-> active,
                 changes |-> IF h = NoName THEN 0 ELSE record[h].changes]
<1>1. /\ nameRequest \in [NameRequests -> Asks] /\ kind \in Kinds /\ record \in [RecordIds -> Rows]
      /\ staleEdit \in BOOLEAN
  BY NamesTypes DEF NamesInv
<1>2. /\ nameRequest[r].at = "new" /\ nameRequest' = [nameRequest EXCEPT ![r] = q]
      /\ UNCHANGED <<kind, record, staleEdit>>
  BY DEF BeginName, NameAt
<1>3. h # NoName => record[h].changes \in Nat  BY <1>1 DEF Rows
<1>4. q \in Asks  BY <1>3 DEF Asks
<1>5. nameRequest'[r] = q /\ \A u \in NameRequests \ {r} : nameRequest'[u] = nameRequest[u]
  BY <1>1, <1>2
<1>6. NamesTypeOK'
  <2> HIDE DEF q
  <2>1. nameRequest' \in [NameRequests -> Asks]  BY <1>1, <1>2, <1>4
  <2> QED  BY <1>1, <1>2, <2>1 DEF NamesTypeOK, Rows, Asks
<1>7. RequestNamed(r)'
  <2>1. ~Recorded(r)  BY <1>2 DEF NamesInv, RequestNamed
  <2>2. step = "update" => q.changes = record[h].changes /\ record[h].changes \in Nat
    BY <1>3, NamesAssumption DEF RecordIds, NoName, DefaultNames
  <2>3. /\ q.at = step /\ q.on = h /\ q.name = name  OBVIOUS
  <2> HIDE DEF q
  <2> QED  BY <1>2, <1>5, <2>1, <2>2, <2>3 DEF RequestNamed, EditableRecord, Recorded
<1>8. ASSUME NEW u \in NameRequests \ {r} PROVE RequestNamed(u)'
  BY <1>2, <1>5 DEF NamesInv, RequestNamed, EditableRecord, Recorded
<1> QED  BY <1>6, <1>7, <1>8 DEF NamesInv

\* What a change of a record does to the records.
LEMMA ChangeMoves ==
    ASSUME NamesInv, NEW h \in RecordIds, NEW row \in Rows, row.name # NoName, Change(h, row)
    PROVE  /\ record' \in [RecordIds -> Rows] /\ (Recorded(h))'
           /\ record'[h].changes = record[h].changes + 1 /\ (record'[h].active <=> row.active)
           /\ \A g \in RecordIds \ {h} : record'[g] = record[g]
<1> DEFINE new == [row EXCEPT !.changes = record[h].changes + 1]
<1>1. record \in [RecordIds -> Rows] /\ record[h].changes \in Nat
  BY NamesTypes DEF NamesInv, Rows
<1>2. record' = [record EXCEPT ![h] = new]  BY DEF Change
<1>3. /\ new \in Rows /\ new.name = row.name /\ new.active = row.active
      /\ new.changes = record[h].changes + 1
  BY <1>1 DEF Rows
<1> HIDE DEF new
<1> QED  BY <1>1, <1>2, <1>3 DEF Recorded

\* An answered request that changed a record, or none.
LEMMA ChangedKeeps ==
    ASSUME NamesInv, NEW r \in NameRequests, NEW h \in RecordIds, NEW row \in Rows,
           row.name # NoName, Change(h, row), kind' = kind, staleEdit' \in BOOLEAN, NameAnswer(r),
           Recorded(h)
    PROVE  NamesInv'
<1>1. /\ record \in [RecordIds -> Rows] /\ record[h].changes \in Nat  BY NamesTypes DEF NamesInv, Rows
<1>2. /\ record' \in [RecordIds -> Rows] /\ (Recorded(h))' /\ record'[h].changes = record[h].changes + 1
      /\ \A g \in RecordIds \ {h} : record'[g] = record[g]
  BY ChangeMoves
<1>3. \A g \in RecordIds : Recorded(g) =>
        /\ (Recorded(g))' /\ record[g].changes <= record'[g].changes
        /\ record'[g].changes = record[g].changes => (record'[g].active <=> record[g].active)
  <2>1. record[h].changes <= record'[h].changes /\ record'[h].changes # record[h].changes
    BY <1>1, <1>2
  <2>2. \A g \in RecordIds \ {h} : record[g].changes \in Nat /\ record[g].changes <= record'[g].changes
    BY <1>1, <1>2 DEF Rows
  <2> QED  BY <1>2, <2>1, <2>2 DEF Recorded
<1>4. \A g \in RecordIds : (Recorded(g))' => Recorded(g)  BY <1>2 DEF Recorded
<1>5. nameRequest' = [nameRequest EXCEPT ![r] = Answered]  BY DEF NameAnswer, Answered
<1> QED  BY <1>2, <1>3, <1>4, <1>5, NamesMove

\* An answered request that inserted its record, or found the name taken.
LEMMA RecordInsertKeeps ==
    ASSUME NamesInv, NEW r \in NameRequests, NEW name \in RecordNames,
           NEW by \in {"form", "import"}, record' = record \/ Insert(r, name, by),
           ~Recorded(r), kind' = kind, staleEdit' = staleEdit, NameAnswer(r)
    PROVE  NamesInv' /\ \A g \in RecordIds \ {r} : record'[g] = record[g]
<1> DEFINE new == [NoRecord EXCEPT !.name = name, !.active = TRUE, !.by = by]
<1>1. record \in [RecordIds -> Rows] /\ r \in RecordIds /\ staleEdit \in BOOLEAN
  BY NamesTypes, RequestsAreIds DEF NamesInv
<1>2. new \in Rows  BY DEF NoRecord, Rows
<1>3. record' = record \/ record' = [record EXCEPT ![r] = new]  BY DEF Insert
<1> HIDE DEF new
<1>4. record' \in [RecordIds -> Rows] /\ \A g \in RecordIds \ {r} : record'[g] = record[g]
  BY <1>1, <1>2, <1>3
<1>5. \A g \in RecordIds : Recorded(g) => g # r /\ record'[g] = record[g] /\ record[g].changes \in Nat
  BY <1>1, <1>4 DEF Rows
<1>6. \A g \in RecordIds : Recorded(g) =>
        /\ (Recorded(g))' /\ record[g].changes <= record'[g].changes
        /\ record'[g].changes = record[g].changes => (record'[g].active <=> record[g].active)
  BY <1>5 DEF Recorded
<1>7. \A g \in RecordIds : (Recorded(g))' => Recorded(g) \/ g = r  BY <1>4 DEF Recorded
<1>8. nameRequest' = [nameRequest EXCEPT ![r] = Answered]  BY DEF NameAnswer, Answered
<1> QED  BY <1>1, <1>4, <1>6, <1>7, <1>8, NamesMove

\* A removed category or customer that this step makes active again.
ComesBack(h) ==
    kind \in {"category", "customer"} /\ Recorded(h) /\ ~record[h].active /\ record'[h].active

\* An edit that saw its record as it still is saw it active.
LEMMA RecordUpdateKeeps ==
    ASSUME NamesInv, NEW r \in NameRequests, RecordUpdateWrite(r)
    PROVE  NamesInv' /\ \A h \in RecordIds : ComesBack(h) => staleEdit'
<1> DEFINE q == nameRequest[r]
           h == q.on
           row == [record[h] EXCEPT
                     !.name = q.name,
                     !.active = IF q.active = {} THEN record[h].active ELSE TRUE \in q.active,
                     !.by = IF q.name = record[h].name THEN record[h].by ELSE "form"]
<1>1. /\ record \in [RecordIds -> Rows] /\ staleEdit \in BOOLEAN /\ RequestNamed(r) /\ q.at = "update"
  BY NamesTypes DEF NamesInv, RecordUpdateWrite, NameAt
<1>2. /\ h \in RecordIds /\ Recorded(h) /\ q.name \in RecordNames
      /\ q.changes = record[h].changes => EditableRecord(h)
  BY <1>1 DEF RequestNamed
<1>3. row \in Rows /\ row.name # NoName
  <2> DEFINE on == IF q.active = {} THEN record[h].active ELSE TRUE \in q.active
  <2>1. record[h] \in Rows  BY <1>1, <1>2
  <2>2. record[h].active \in BOOLEAN  BY <2>1 DEF Rows
  <2>3. on \in BOOLEAN
    <3>1. (TRUE \in q.active) \in BOOLEAN  OBVIOUS
    <3>2. CASE q.active = {}  BY <2>2, <3>2
    <3>3. CASE q.active # {}  BY <3>1, <3>3, Zenon
    <3> QED  BY <3>2, <3>3
  <2> HIDE DEF on
  <2>4. [record[h] EXCEPT !.name = q.name, !.active = on,
                          !.by = IF q.name = record[h].name THEN record[h].by ELSE "form"] \in Rows
    BY <1>2, <2>1, <2>3 DEF Rows
  <2>5. row.name = q.name  BY <2>1 DEF Rows
  <2> QED  BY <1>2, <2>4, <2>5, NamesDiffer DEF on
<1>4. kind' = kind /\ NameAnswer(r) /\ nameRequest' = [nameRequest EXCEPT ![r] = Answered]
  BY DEF RecordUpdateWrite, NameAnswer, Answered
<1>5. \/ UNCHANGED <<record, staleEdit>>
      \/ Change(h, row) /\ staleEdit' = (staleEdit \/ record[h].changes # q.changes)
  BY DEF RecordUpdateWrite
<1> HIDE DEF row
<1>6. CASE UNCHANGED <<record, staleEdit>>
  <2>1. \A g \in RecordIds : record[g].changes \in Nat  BY <1>1 DEF Rows
  <2>2. \A g \in RecordIds : (Recorded(g))' <=> Recorded(g)  BY <1>6 DEF Recorded
  <2>3. \A g \in RecordIds : record'[g] = record[g] /\ record[g].changes <= record'[g].changes
    BY <1>6, <2>1
  <2>4. record' \in [RecordIds -> Rows] /\ staleEdit' \in BOOLEAN  BY <1>1, <1>6
  <2> HIDE DEF h
  <2>5. NamesInv'  BY <1>4, <2>2, <2>3, <2>4, NamesMove
  <2> QED  BY <2>3, <2>5 DEF ComesBack
<1>7. CASE Change(h, row) /\ staleEdit' = (staleEdit \/ record[h].changes # q.changes)
  <2>1. staleEdit' \in BOOLEAN  BY <1>7
  <2>2. NamesInv'  BY <1>2, <1>3, <1>4, <1>7, <2>1, ChangedKeeps
  <2>3. \A g \in RecordIds \ {h} : record'[g] = record[g]  BY <1>2, <1>3, <1>7, ChangeMoves
  <2>4. ASSUME ComesBack(h) PROVE staleEdit'
    <3>1. ~EditableRecord(h)  BY <2>4 DEF ComesBack, EditableRecord
    <3>2. record[h].changes # q.changes  BY <1>2, <3>1
    <3> QED  BY <1>7, <3>2
  <2>5. \A g \in RecordIds \ {h} : ~ComesBack(g)  BY <2>3 DEF ComesBack
  <2> HIDE DEF h
  <2> QED  BY <2>2, <2>4, <2>5
<1> QED  BY <1>5, <1>6, <1>7

\* A removal, a reactivated supplier, a category an import revives.
LEMMA ActiveKeeps ==
    ASSUME NamesInv, NEW r \in NameRequests,
           RecordRemoveWrite(r) \/ SupplierReactivate(r) \/ ResolveRevive(r)
    PROVE  NamesInv' /\ \A h \in RecordIds : ComesBack(h) => NameAt(r, "revive")
<1>1. /\ record \in [RecordIds -> Rows] /\ staleEdit \in BOOLEAN /\ RequestNamed(r)
  BY NamesTypes DEF NamesInv
<1>2. kind' = kind /\ staleEdit' = staleEdit /\ NameAnswer(r)
  BY DEF RecordRemoveWrite, SupplierReactivate, ResolveRevive
<1>3. PICK h \in RecordIds :
        /\ Recorded(h)
        /\ \/ Change(h, [record[h] EXCEPT !.active = FALSE])
           \/ /\ Change(h, [record[h] EXCEPT !.active = TRUE])
              /\ kind = "supplier" \/ NameAt(r, "revive")
  BY <1>1 DEF RecordRemoveWrite, SupplierReactivate, ResolveRevive, NameAt, RequestNamed
<1>4. PICK on \in BOOLEAN :
        /\ Change(h, [record[h] EXCEPT !.active = on])
        /\ on => kind = "supplier" \/ NameAt(r, "revive")
  BY <1>3
<1> DEFINE row == [record[h] EXCEPT !.active = on]
<1>5. row \in Rows /\ row.name = record[h].name /\ row.active = on  BY <1>1 DEF Rows
<1>6. Change(h, row)  BY <1>4
<1>7. row.name # NoName  BY <1>3, <1>5 DEF Recorded
<1> HIDE DEF row
<1>8. NamesInv'  BY <1>1, <1>2, <1>3, <1>5, <1>6, <1>7, ChangedKeeps
<1>9. /\ record'[h].active <=> row.active
      /\ \A g \in RecordIds \ {h} : record'[g] = record[g]
  BY <1>5, <1>6, <1>7, ChangeMoves
<1>10. ASSUME ComesBack(h) PROVE NameAt(r, "revive")
  <2>1. on  BY <1>5, <1>9, <1>10, Zenon DEF ComesBack
  <2> QED  BY <1>4, <1>10, <2>1 DEF ComesBack
<1>11. \A g \in RecordIds \ {h} : ~ComesBack(g)  BY <1>9 DEF ComesBack
<1> QED  BY <1>8, <1>10, <1>11

\* A use, the defaults, and the records that are created leave what is recorded as it was.
LEMMA OthersKeep ==
    ASSUME NamesInv, NEW r \in NameRequests,
           \/ RecordUse(r) \/ DefaultsWrite(r) \/ RecordCreateWrite(r) \/ ResolveCreate(r)
    PROVE  NamesInv' /\ \A h \in RecordIds : ~ComesBack(h)
<1>1. /\ record \in [RecordIds -> Rows] /\ staleEdit \in BOOLEAN /\ RequestNamed(r)
      /\ \A h \in RecordIds : record[h].changes \in Nat
  BY NamesTypes DEF NamesInv, Rows
<1>2. /\ kind' = kind /\ staleEdit' = staleEdit /\ NameAnswer(r)
      /\ nameRequest' = [nameRequest EXCEPT ![r] = Answered]
  BY DEF RecordUse, DefaultsWrite, RecordCreateWrite, ResolveCreate, NameAnswer, Answered
<1>3. CASE RecordUse(r)
  <2>1. PICK h \in RecordIds : Recorded(h) /\ record' = [record EXCEPT ![h].used = TRUE]
    BY <1>3 DEF RecordUse
  <2>2. /\ record' \in [RecordIds -> Rows]
        /\ \A g \in RecordIds : /\ record'[g].name = record[g].name
                                /\ record'[g].changes = record[g].changes
                                /\ record'[g].active = record[g].active
    BY <1>1, <2>1 DEF Rows
  <2>3. \A g \in RecordIds : (Recorded(g))' <=> Recorded(g)  BY <2>2 DEF Recorded
  <2>4. \A g \in RecordIds : Recorded(g) =>
          /\ (Recorded(g))' /\ record[g].changes <= record'[g].changes
          /\ record'[g].changes = record[g].changes => (record'[g].active <=> record[g].active)
    BY <1>1, <2>2, <2>3
  <2>5. staleEdit' \in BOOLEAN /\ \A g \in RecordIds : (Recorded(g))' => Recorded(g)
    BY <1>1, <1>2, <2>3
  <2>6. NamesInv'  BY <1>2, <2>2, <2>4, <2>5, NamesMove
  <2> QED  BY <2>2, <2>6 DEF ComesBack
<1>4. CASE DefaultsWrite(r)
  <2> DEFINE new(h) == [NoRecord EXCEPT !.name = h, !.active = TRUE, !.by = "defaults"]
  <2>1. /\ kind = kind'
        /\ record' = [h \in RecordIds |->
             IF h \in DefaultNames /\ ~Taken(h) /\ ~Recorded(h) THEN new(h) ELSE record[h]]
    BY <1>2, <1>4 DEF DefaultsWrite
  <2>2. \A h \in DefaultNames : h \in RecordNames /\ new(h) \in Rows
    <3> SUFFICES ASSUME NEW h \in DefaultNames PROVE h \in RecordNames /\ new(h) \in Rows
      OBVIOUS
    <3>1. h \in RecordNames  BY DEF DefaultNames, RecordNames, Spellings2
    <3> QED  BY <3>1 DEF NoRecord, Rows
  <2> HIDE DEF new
  <2>3. record' \in [RecordIds -> Rows]  BY <1>1, <2>1, <2>2
  <2>4. \A h \in RecordIds : Recorded(h) => record'[h] = record[h]  BY <2>1
  <2>5. \A h \in RecordIds : (Recorded(h))' => Recorded(h) \/ h \in DefaultNames
    BY <2>1 DEF Recorded
  <2>6. \A h \in RecordIds : Recorded(h) =>
          /\ (Recorded(h))' /\ record[h].changes <= record'[h].changes
          /\ record'[h].changes = record[h].changes => (record'[h].active <=> record[h].active)
    BY <1>1, <2>4 DEF Recorded
  <2>7. NamesInv'  BY <1>1, <1>2, <2>3, <2>5, <2>6, NamesMove
  <2> QED  BY <2>4, <2>7 DEF ComesBack
<1>5. CASE RecordCreateWrite(r) \/ ResolveCreate(r)
  <2>1. /\ nameRequest[r].at \in {"create", "resolve"}
        /\ nameRequest[r].name \in RecordNames /\ ~Recorded(r)
    BY <1>1, <1>5 DEF RecordCreateWrite, ResolveCreate, NameAt, RequestNamed
  <2>2. \E by \in {"form", "import"} : record' = record \/ Insert(r, nameRequest[r].name, by)
    BY <1>5 DEF RecordCreateWrite, ResolveCreate
  <2>3. NamesInv' /\ \A g \in RecordIds \ {r} : record'[g] = record[g]
    BY <1>2, <2>1, <2>2, RecordInsertKeeps
  <2> QED  BY <2>1, <2>3 DEF ComesBack
<1> QED  BY <1>3, <1>4, <1>5

\* What a request reads before it goes on.
LEMMA ReadsKeep ==
    ASSUME NamesInv, NEW r \in NameRequests,
           \/ RecordCreateRead(r) \/ RecordUpdateRead(r) \/ RecordRemoveRead(r)
           \/ DefaultsRead(r) \/ ResolveRead(r)
    PROVE  NamesInv' /\ \A h \in RecordIds : ~ComesBack(h)
<1>1. record' = record
  BY DEF RecordCreateRead, RecordUpdateRead, RecordRemoveRead, DefaultsRead, ResolveRead, BeginName
<1>2. CASE RecordCreateRead(r)
  <2>1. PICK name \in RecordNames : BeginName(r, "create", NoName, name, {})
    BY <1>2 DEF RecordCreateRead
  <2> QED  BY <1>1, <2>1, NamesRead DEF ComesBack
<1>3. CASE RecordUpdateRead(r)
  <2>1. PICK h \in RecordIds, name \in RecordNames, active \in {{}, {TRUE}, {FALSE}} :
          Recorded(h) /\ EditableRecord(h) /\ BeginName(r, "update", h, name, active)
    BY <1>3 DEF RecordUpdateRead
  <2> QED  BY <1>1, <2>1, NamesRead DEF ComesBack
<1>4. CASE RecordRemoveRead(r)
  <2>1. PICK h \in RecordIds : Recorded(h) /\ BeginName(r, "remove", h, NoName, {})
    BY <1>4 DEF RecordRemoveRead
  <2> QED  BY <1>1, <2>1, NamesRead DEF ComesBack
<1>5. CASE DefaultsRead(r)
  <2>1. BeginName(r, "defaults", NoName, NoName, {})  BY <1>5 DEF DefaultsRead
  <2> QED  BY <1>1, <2>1, NamesRead DEF ComesBack
<1>6. CASE ResolveRead(r)
  <2>1. PICK name \in RecordNames :
          \/ BeginName(r, "resolve", NoName, Displayed(name), {})
          \/ \E h \in RecordIds : Recorded(h) /\ BeginName(r, "revive", h, NoName, {})
    BY <1>6 DEF ResolveRead
  <2>2. CASE BeginName(r, "resolve", NoName, Displayed(name), {})
    <3>1. Displayed(name) \in RecordNames  BY DEF Displayed, RecordNames, Spellings2
    <3> QED  BY <1>1, <2>2, <3>1, NamesRead DEF ComesBack
  <2>3. ASSUME NEW h \in RecordIds, Recorded(h), BeginName(r, "revive", h, NoName, {})
        PROVE  NamesInv'
    BY <2>3, NamesRead
  <2> QED  BY <1>1, <2>1, <2>2, <2>3 DEF ComesBack
<1> QED  BY <1>2, <1>3, <1>4, <1>5, <1>6

\* At first nothing is recorded.
LEMMA NamesInitKeeps ==
    ASSUME NamesInit
    PROVE  NamesInv
<1>1. NoRecord \in Rows /\ NoRecord.name = NoName  BY DEF NoRecord, Rows
<1>2. NamesTypeOK  BY <1>1, AnsweredTypes, NamesTypes DEF NamesInit
<1>3. ASSUME NEW r \in NameRequests PROVE RequestNamed(r)
  <2>1. nameRequest[r].at = "new" /\ ~Recorded(r)
    BY <1>1, AnsweredTypes, RequestsAreIds DEF NamesInit, Recorded
  <2> QED  BY <2>1 DEF RequestNamed
<1> QED  BY <1>2, <1>3 DEF NamesInv

\* One lemma for each kind of step, which also says what comes back.
LEMMA NamesNextKeeps ==
    ASSUME NamesInv, NamesNext
    PROVE  /\ NamesInv'
           /\ \A h \in RecordIds : ComesBack(h) => staleEdit' \/ \E r \in NameRequests : NameAt(r, "revive")
<1>1. PICK r \in NameRequests :
        \/ RecordUpdateWrite(r)
        \/ RecordRemoveWrite(r) \/ SupplierReactivate(r) \/ ResolveRevive(r)
        \/ RecordUse(r) \/ DefaultsWrite(r) \/ RecordCreateWrite(r) \/ ResolveCreate(r)
        \/ RecordCreateRead(r) \/ RecordUpdateRead(r) \/ RecordRemoveRead(r)
        \/ DefaultsRead(r) \/ ResolveRead(r)
  BY DEF NamesNext, NameStep
<1>2. CASE RecordUpdateWrite(r)  BY <1>2, RecordUpdateKeeps
<1>3. CASE RecordRemoveWrite(r) \/ SupplierReactivate(r) \/ ResolveRevive(r)
  BY <1>3, ActiveKeeps
<1>4. CASE RecordUse(r) \/ DefaultsWrite(r) \/ RecordCreateWrite(r) \/ ResolveCreate(r)
  BY <1>4, OthersKeep
<1>5. CASE \/ RecordCreateRead(r) \/ RecordUpdateRead(r) \/ RecordRemoveRead(r)
           \/ DefaultsRead(r) \/ ResolveRead(r)
  BY <1>5, ReadsKeep
<1> QED  BY <1>1, <1>2, <1>3, <1>4, <1>5

\* A step of another service changes nothing here.
LEMMA NamesRest ==
    ASSUME NamesInv, UNCHANGED nameVars
    PROVE  NamesInv'
BY DEF nameVars, NamesInv, NamesTypeOK, RequestNamed, Recorded, EditableRecord

\* The invariant, from the steps.
LEMMA NamesAlways == NamesSpec => []NamesInv
<1>1. NamesInit => NamesInv  BY NamesInitKeeps
<1>2. NamesInv /\ [NamesNext]_nameVars => NamesInv'  BY NamesNextKeeps, NamesRest
<1> QED  BY <1>1, <1>2, PTL DEF NamesSpec

\* The records alone: a removed category or customer comes back only with an import or an
\* edit that overlapped the removal (categories.service.ts:105-164, customers.service.ts:114-174).
THEOREM RemovedStayRemoved == NamesSpec => RemovedForGood
<1>1. NamesInv /\ [NamesNext]_nameVars =>
        [\A h \in RecordIds :
          /\ kind \in {"category", "customer"}
          /\ Recorded(h) /\ ~record[h].active /\ record'[h].active
          => staleEdit' \/ \E r \in NameRequests : NameAt(r, "revive")]_nameVars
  BY NamesNextKeeps DEF ComesBack
<1> QED  BY <1>1, NamesAlways, PTL DEF NamesSpec, RemovedForGood
=============================================================================
