------------------------------ MODULE Expenses ------------------------------
(***************************************************************************)
(* ExpensesService: the expenses ("salidas") of one organization, their    *)
(* payments and their receipts.                                            *)
(*                                                                         *)
(* Every operation reads the expense with its payments, checks what it     *)
(* read, and writes in a transaction that reads nothing again: the write   *)
(* takes effect at once, but on whatever other requests wrote meanwhile.   *)
(* Payments are only ever added, so an expense keeps their sum.  Amounts   *)
(* are whole: the columns are Decimal(12, 2) and the arithmetic exact.     *)
(* A refused request changes nothing and is not modelled.                  *)
(***************************************************************************)
EXTENDS Naturals

CONSTANTS
    ExpenseRequests,    \* requests to /expenses; each creates at most one expense
    Amounts,            \* what a total or a payment may be
    NoExpense           \* no expense, no receipt

ASSUME ExpensesAssumption ==
    /\ Amounts \subseteq Nat \ {0}
    /\ NoExpense \notin ExpenseRequests

VARIABLES
    expense,            \* the expenses, by the request that created them
    receipts,           \* the images in the store, by the request that uploaded them
    expenseRequest,     \* progress of each request
    fresh               \* history: the last write of money or status saw the one before it

expenseVars == <<expense, receipts, expenseRequest, fresh>>

ExpenseStatus == {"NONE", "PARTIAL", "PAID"}
NoRow == [status |-> "NONE", total |-> 0, paid |-> 0, active |-> FALSE,
          receipt |-> NoExpense, writes |-> 0]
Booked(e) == expense[e].status # "NONE"

ExpenseIdle == [at |-> "new", on |-> NoExpense, seen |-> NoRow, amount |-> 0]
ExpenseAt(r, step) == expenseRequest[r].at = step

ExpensesInit ==
    /\ expense = [e \in ExpenseRequests |-> NoRow]
    /\ receipts = {}
    /\ expenseRequest = [r \in ExpenseRequests |-> ExpenseIdle]
    /\ fresh = [e \in ExpenseRequests |-> TRUE]

Derived(total, paid) == IF paid >= total THEN "PAID" ELSE "PARTIAL"

\* findFirst of an expense: the request keeps the row it read.
ReadExpense(r, e, step, amount) ==
    /\ ExpenseAt(r, "new")
    /\ Booked(e)
    /\ expenseRequest' = [expenseRequest EXCEPT ![r] =
           [at |-> step, on |-> e, seen |-> expense[e], amount |-> amount]]
    /\ UNCHANGED <<expense, receipts, fresh>>

\* The transaction of a request: one UPDATE of the expense.
WriteExpense(r, row) ==
    /\ expense' = [expense EXCEPT ![expenseRequest[r].on] = row]
    /\ expenseRequest' = [expenseRequest EXCEPT ![r] = [ExpenseIdle EXCEPT !.at = "done"]]

\* An update of the total, the payments or the status.
WriteMoney(r, row) ==
    LET e == expenseRequest[r].on
    IN /\ WriteExpense(r, [row EXCEPT !.writes = expense[e].writes + 1])
       /\ fresh' = [fresh EXCEPT ![e] = expense[e].writes = expenseRequest[r].seen.writes]
       /\ UNCHANGED receipts

\* A new expense: the row and its payments are one insert.
InsertExpense(r, total, paid) ==
    /\ expense' = [expense EXCEPT ![r] =
           [status |-> Derived(total, paid), total |-> total, paid |-> paid, active |-> TRUE,
            receipt |-> NoExpense, writes |-> 1]]
    /\ expenseRequest' = [expenseRequest EXCEPT ![r] = [ExpenseIdle EXCEPT !.at = "done"]]
    /\ UNCHANGED <<receipts, fresh>>

---------------------------------------------------------------------------
(* POST /expenses: at least one payment, and no more than the total *)
ExpenseCreate(r) ==
    /\ ExpenseAt(r, "new")
    /\ \E total \in Amounts, paid \in Amounts : paid <= total /\ InsertExpense(r, total, paid)

\* PATCH /expenses/:id, also of a removed expense; without a total it keeps the one it read.
\* Mutant: the new total is not compared with the payments.
TotalUnchecked(row, total) == total > 0
TotalAllowed(row, total) == total >= row.paid

ExpenseUpdateRead(r) ==
    \E e \in ExpenseRequests, total \in Amounts \cup {0} :
        /\ TotalAllowed(expense[e], IF total = 0 THEN expense[e].total ELSE total)
        /\ ReadExpense(r, e, "update", total)

\* The total is written only when it was sent; the status is always written.
ExpenseUpdateWrite(r) ==
    /\ ExpenseAt(r, "update")
    /\ LET q == expenseRequest[r]
           row == expense[q.on]
           total == IF q.amount = 0 THEN q.seen.total ELSE q.amount
       IN WriteMoney(r, [row EXCEPT
              !.total = IF q.amount = 0 THEN row.total ELSE total,
              !.status = Derived(total, q.seen.paid)])

(* POST /expenses/:id/payments: the expense is active and the payment fits *)
PaymentRead(r) ==
    \E e \in ExpenseRequests, amount \in Amounts :
        /\ expense[e].active
        /\ expense[e].paid + amount <= expense[e].total
        /\ ReadExpense(r, e, "pay", amount)

PaymentStatus(q) == Derived(q.seen.total, q.seen.paid + q.amount)

PaymentWrite(r) ==
    /\ ExpenseAt(r, "pay")
    /\ LET q == expenseRequest[r]
           row == expense[q.on]
       IN WriteMoney(r, [row EXCEPT !.paid = row.paid + q.amount, !.status = PaymentStatus(q)])

(* POST /expenses/:id/duplicate: an active, paid-for expense that is not overpaid *)
DuplicateRead(r) ==
    \E e \in ExpenseRequests :
        /\ expense[e].active
        /\ expense[e].paid \in 1..expense[e].total
        /\ ReadExpense(r, e, "duplicate", 0)

DuplicateWrite(r) ==
    /\ ExpenseAt(r, "duplicate")
    /\ InsertExpense(r, expenseRequest[r].seen.total, expenseRequest[r].seen.paid)

(* DELETE /expenses/:id: the row stays *)
ExpenseRemoveRead(r) == \E e \in ExpenseRequests : ReadExpense(r, e, "remove", 0)

ExpenseRemoveWrite(r) ==
    /\ ExpenseAt(r, "remove")
    /\ WriteExpense(r, [expense[expenseRequest[r].on] EXCEPT !.active = FALSE])
    /\ UNCHANGED <<receipts, fresh>>

---------------------------------------------------------------------------
(* POST /expenses/:id/receipt: upload, delete the old image, write the row *)
ReceiptRead(r) == \E e \in ExpenseRequests : ReadExpense(r, e, "upload", 0)

ReceiptUpload(r) ==
    /\ ExpenseAt(r, "upload")
    /\ receipts' = receipts \cup {r}
    /\ expenseRequest' = [expenseRequest EXCEPT ![r].at =
           IF expenseRequest[r].seen.receipt = NoExpense THEN "attach" ELSE "replace"]
    /\ UNCHANGED <<expense, fresh>>

\* Mutant: the image just uploaded is deleted instead of the old one.
ReplacedNew(r) == r
Replaced(r) == expenseRequest[r].seen.receipt

\* The image the request read is deleted; an error of the store is ignored.
ReceiptReplace(r) ==
    /\ ExpenseAt(r, "replace")
    /\ receipts' \in {receipts \ {Replaced(r)}, receipts}
    /\ expenseRequest' = [expenseRequest EXCEPT ![r].at = "attach"]
    /\ UNCHANGED <<expense, fresh>>

ReceiptAttach(r) ==
    /\ ExpenseAt(r, "attach")
    /\ WriteExpense(r, [expense[expenseRequest[r].on] EXCEPT !.receipt = r])
    /\ UNCHANGED <<receipts, fresh>>

---------------------------------------------------------------------------
\* The process ends, or a statement fails: what was written stays.  The request
\* keeps what it read, for the properties.
ExpenseInterrupted(r) ==
    /\ expenseRequest[r].at \in {"replace", "attach"}
    /\ expenseRequest' = [expenseRequest EXCEPT ![r].at = "failed"]
    /\ UNCHANGED <<expense, receipts, fresh>>

ExpenseStep(r) ==
    \/ ExpenseUpdateWrite(r) \/ PaymentWrite(r) \/ DuplicateWrite(r) \/ ExpenseRemoveWrite(r)
    \/ ReceiptUpload(r) \/ ReceiptReplace(r) \/ ReceiptAttach(r) \/ ExpenseInterrupted(r)

ExpensesNext ==
    \E r \in ExpenseRequests :
        \/ ExpenseCreate(r) \/ ExpenseUpdateRead(r) \/ PaymentRead(r) \/ DuplicateRead(r)
        \/ ExpenseRemoveRead(r) \/ ReceiptRead(r) \/ ExpenseStep(r)

ExpensesSpec == ExpensesInit /\ [][ExpensesNext]_expenseVars

---------------------------------------------------------------------------
ExpenseRows == [status : ExpenseStatus, total : Nat, paid : Nat, active : BOOLEAN,
                receipt : ExpenseRequests \cup {NoExpense}, writes : Nat]

ExpensesTypeOK ==
    /\ expense \in [ExpenseRequests -> ExpenseRows]
    /\ receipts \subseteq ExpenseRequests
    /\ expenseRequest \in [ExpenseRequests ->
         [at : {"new", "update", "pay", "duplicate", "remove", "upload", "replace", "attach",
                "done", "failed"},
          on : ExpenseRequests \cup {NoExpense}, seen : ExpenseRows, amount : Nat]]
    /\ fresh \in [ExpenseRequests -> BOOLEAN]

\* The status and the total: paid at most the total, and PAID exactly when it is reached.
Settled(row) ==
    /\ row.paid <= row.total
    /\ row.status = Derived(row.total, row.paid)

\* An edit or a payment that saw the one before it settles the expense, whatever
\* overlapping ones left, and no stale removal, receipt or copy unsettles it
\* again: only edits and payments that overlap overpay an expense or leave a
\* wrong status (expenses.service.ts:323-333, 407-416).
SettledUnlessOverlapped == \A e \in ExpenseRequests : Booked(e) /\ fresh[e] => Settled(expense[e])

\* The receipt of an expense is in the store, but for an upload that has
\* deleted it and not (or never) written its own (expenses.service.ts:577-589).
ReceiptsKept ==
    \A e \in ExpenseRequests :
        expense[e].receipt \in receipts \cup {NoExpense} \/
        \E r \in ExpenseRequests :
            /\ expenseRequest[r].at \in {"attach", "failed"}
            /\ expenseRequest[r].seen.receipt = expense[e].receipt

=============================================================================
