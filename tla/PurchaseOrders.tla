-------------------------- MODULE PurchaseOrders --------------------------
(***************************************************************************)
(* PurchaseOrdersService of the backend for one organization: create,      *)
(* update, confirm, receive and cancel.                                    *)
(*                                                                         *)
(* Every operation reads the order and checks its status first, outside    *)
(* any transaction, and writes by the order's id alone afterwards.  create *)
(* runs a Serializable transaction that takes the next PO number; update   *)
(* replaces the items, and receive increments stock and received           *)
(* quantities, in Read Committed transactions.  Suppliers, costs, totals,  *)
(* notes and the audit log of costs are left out.                          *)
(***************************************************************************)
EXTENDS ProductRows, Sequences

CONSTANTS
    Orders,         \* POST /purchase-orders requests; each creates at most one order
    OrderChanges,   \* PUT, confirm and cancel requests
    Receipts,       \* receive requests
    OrderLists,     \* the item lists POST and PUT may carry
    MaxReceiptLines \* bound on the items of a receipt

ASSUME OrdersAssumption ==
    /\ Receipts \subseteq Requests
    /\ NoOne \notin Orders
    /\ Orders \cap OrderChanges = {}
    /\ OrderLists \subseteq Seq([product : Products, quantity : Nat \ {0}]) \ {<<>>}
    /\ MaxReceiptLines \in Nat

VARIABLES
    order,          \* the committed orders, by the request that created them
    lines,          \* the committed items each POST or PUT inserted; <<>> once deleted
    orderNumber,    \* the committed counter of the PO sequence row
    orderSeqHolder, \* the transaction that locked that row, or NoOne
    orderCreate,    \* progress of each POST
    orderChange,    \* progress of each PUT, confirm and cancel
    receipt         \* progress of each receive

orderVars == <<order, lines, orderNumber, orderSeqHolder, orderCreate, orderChange, receipt>>

OrderSequence ==
    INSTANCE SequenceRow WITH current <- orderNumber, holder <- orderSeqHolder

Writers == Orders \cup OrderChanges

OrdersInit ==
    /\ order = [o \in Orders |-> [status |-> "NONE", number |-> 0]]
    /\ lines = [w \in Writers |-> <<>>]
    /\ orderNumber = 0
    /\ orderSeqHolder = NoOne
    /\ orderCreate = [o \in Orders |-> [pc |-> "new", items |-> <<>>, seen |-> 0]]
    /\ orderChange = [x \in OrderChanges |->
         [pc |-> "new", order |-> NoOne, items |-> <<>>, doomed |-> {}]]
    /\ receipt = [r \in Receipts |->
         [pc |-> "new", order |-> NoOne, items |-> <<>>, line |-> 1, version |-> 0,
          previousStock |-> 0, status |-> "NONE", log |-> {}]]

---------------------------------------------------------------------------
(* An item of an order is named by the request that inserted it and its    *)
(* place in that request's list.                                           *)

WritersOf(o) == {o} \cup {x \in OrderChanges : orderChange[x].order = o}
ItemsOf(o) == UNION {{w} \X DOMAIN lines[w] : w \in WritersOf(o)}
ItemRow(i) == lines[i[1]][i[2]]
ItemExists(i) == i[2] \in DOMAIN lines[i[1]]
Pending(i) == ItemRow(i).ordered - ItemRow(i).received

\* computeItems: every product exists and is active.
Computable(items) == \A k \in DOMAIN items : ReadActive(items[k].product)

\* The rows inserted for them; their foreign keys need the products.
NewLines(items) ==
    [k \in DOMAIN items |->
        [product |-> items[k].product, ordered |-> items[k].quantity, received |-> 0]]
Insertable(items) == \A k \in DOMAIN items : Live(items[k].product)

---------------------------------------------------------------------------
(* POST /purchase-orders *)

OrderRead(o) ==
    /\ orderCreate[o].pc = "new"
    /\ \E items \in OrderLists :
         /\ Computable(items)
         /\ orderCreate' = [orderCreate EXCEPT ![o] =
                [@ EXCEPT !.pc = "begin",
                          !.items = items]]
    /\ UNCHANGED <<rowVars, order, lines, orderNumber, orderSeqHolder, orderChange, receipt>>

OrderBegin(o) ==
    /\ orderCreate[o].pc = "begin"
    /\ orderCreate' = [orderCreate EXCEPT ![o] =
           [@ EXCEPT !.pc = "number",
                     !.seen = orderNumber]]
    /\ UNCHANGED <<rowVars, order, lines, orderNumber, orderSeqHolder, orderChange, receipt>>

OrderTakeNumber(o) ==
    /\ orderCreate[o].pc = "number"
    /\ OrderSequence!Lock(o, orderCreate[o].seen)
    /\ orderCreate' = [orderCreate EXCEPT ![o].pc = "insert"]
    /\ UNCHANGED <<rowVars, order, lines, orderChange, receipt>>

\* The order and its items only become visible when the transaction commits.
OrderCommit(o) ==
    /\ orderCreate[o].pc = "insert"
    /\ Insertable(orderCreate[o].items)
    /\ order' = [order EXCEPT ![o] = [status |-> "DRAFT",
                                      number |-> OrderSequence!Number(orderCreate[o].seen)]]
    /\ lines' = [lines EXCEPT ![o] = NewLines(orderCreate[o].items)]
    /\ OrderSequence!Commit(orderCreate[o].seen)
    /\ orderCreate' = [orderCreate EXCEPT ![o] = [@ EXCEPT !.pc = "done", !.seen = 0]]
    /\ UNCHANGED <<rowVars, orderChange, receipt>>

OrderAbort(o) ==
    /\ orderCreate[o].pc \in {"begin", "number", "insert"}
    /\ OrderSequence!Rollback(o)
    /\ orderCreate' = [orderCreate EXCEPT ![o] = [@ EXCEPT !.pc = "failed", !.seen = 0]]
    /\ UNCHANGED <<rowVars, order, lines, orderChange, receipt>>

---------------------------------------------------------------------------
(* PUT /purchase-orders/:id, POST :id/confirm and POST :id/cancel *)

\* The status an operation needs of the order when it reads it.
Editable(o) == order[o].status = "DRAFT"
Confirmable(o) == order[o].status = "DRAFT" /\ ItemsOf(o) # {}
Cancellable(o) == order[o].status \in {"DRAFT", "PENDING"}

ChangeRead(x) ==
    /\ orderChange[x].pc = "new"
    /\ \E o \in Orders :
         \/ /\ Editable(o)
            /\ \E items \in OrderLists :
                 /\ Computable(items)
                 /\ orderChange' = [orderChange EXCEPT ![x] =
                        [@ EXCEPT !.pc = "delete",
                                  !.order = o,
                                  !.items = items]]
         \/ /\ Confirmable(o)
            /\ orderChange' = [orderChange EXCEPT ![x] =
                   [@ EXCEPT !.pc = "confirm",
                             !.order = o]]
         \/ /\ Cancellable(o)
            /\ orderChange' = [orderChange EXCEPT ![x] =
                   [@ EXCEPT !.pc = "cancel",
                             !.order = o]]
    /\ UNCHANGED <<rowVars, order, lines, orderNumber, orderSeqHolder, orderCreate, receipt>>

\* update with items: deleteMany deletes the items committed when it starts ...
EditDelete(x) ==
    /\ orderChange[x].pc = "delete"
    /\ orderChange' = [orderChange EXCEPT ![x] =
           [@ EXCEPT !.pc = "insert",
                     !.doomed = {w \in WritersOf(orderChange[x].order) : lines[w] # <<>>}]]
    /\ UNCHANGED <<rowVars, order, lines, orderNumber, orderSeqHolder, orderCreate, receipt>>

\* An open receipt keeps the rows of the items it updated locked.
Held(w) ==
    \E r \in Receipts :
        /\ receipt[r].pc \in {"item", "product", "write", "status"}
        /\ \E k \in 1..(receipt[r].line - 1) : receipt[r].items[k].item[1] = w

\* ... and the new ones are inserted.
EditCommit(x) ==
    /\ orderChange[x].pc = "insert"
    /\ \A w \in orderChange[x].doomed : ~Held(w)
    /\ Insertable(orderChange[x].items)
    /\ lines' = [w \in Writers |-> IF w = x THEN NewLines(orderChange[x].items)
                                   ELSE IF w \in orderChange[x].doomed THEN <<>>
                                   ELSE lines[w]]
    /\ orderChange' = [orderChange EXCEPT ![x] = [@ EXCEPT !.pc = "done", !.doomed = {}]]
    /\ UNCHANGED <<rowVars, order, orderNumber, orderSeqHolder, orderCreate, receipt>>

EditAbort(x) ==
    /\ orderChange[x].pc \in {"delete", "insert"}
    /\ orderChange' = [orderChange EXCEPT ![x] = [@ EXCEPT !.pc = "failed", !.doomed = {}]]
    /\ UNCHANGED <<rowVars, order, lines, orderNumber, orderSeqHolder, orderCreate, receipt>>

\* confirm and cancel write the status whatever it is by now.
ChangeStatus(x) ==
    /\ orderChange[x].pc \in {"confirm", "cancel"}
    /\ order' = [order EXCEPT ![orderChange[x].order].status =
                    IF orderChange[x].pc = "confirm" THEN "PENDING" ELSE "CANCELLED"]
    /\ orderChange' = [orderChange EXCEPT ![x].pc = "done"]
    /\ UNCHANGED <<rowVars, lines, orderNumber, orderSeqHolder, orderCreate, receipt>>

---------------------------------------------------------------------------
(* POST /purchase-orders/:id/receive *)

MayReceive(o) == order[o].status \in {"PENDING", "PARTIAL_RECEIVED"}

\* What may be received: at least one unit of an item, at most what is pending.
Receivable(o) ==
    UNION {{[item |-> i, quantity |-> q] : q \in 1..Pending(i)} : i \in ItemsOf(o)}

\* normalizeReceiveItems: no item twice.
ReceiptLists(o) ==
    {list \in UNION {[1..n -> Receivable(o)] : n \in 1..MaxReceiptLines} :
        \A j, k \in DOMAIN list : j # k => list[j].item # list[k].item}

\* Outside the transaction: status and pending quantities.
ReceiveRead(r) ==
    /\ receipt[r].pc = "new"
    /\ \E o \in Orders :
         /\ MayReceive(o)
         /\ \E list \in ReceiptLists(o) :
              receipt' = [receipt EXCEPT ![r] =
                  [@ EXCEPT !.pc = "item",
                            !.order = o,
                            !.items = list]]
    /\ UNCHANGED <<rowVars, order, lines, orderNumber, orderSeqHolder, orderCreate, orderChange>>

Received(r) == receipt[r].items[receipt[r].line]
ReceiptLinesLeft(r) == receipt[r].line <= Len(receipt[r].items)

\* In the transaction, one item: its row is read and the quantity checked again.
ReceiveItem(r) ==
    /\ receipt[r].pc = "item"
    /\ ReceiptLinesLeft(r)
    /\ ItemExists(Received(r).item)
    /\ Received(r).quantity <= Pending(Received(r).item)
    /\ receipt' = [receipt EXCEPT ![r].pc = "product"]
    /\ UNCHANGED <<rowVars, order, lines, orderNumber, orderSeqHolder, orderCreate, orderChange>>

\* ... its product is read ...
ReceiveProduct(r) ==
    /\ receipt[r].pc = "product"
    /\ ItemExists(Received(r).item)
    /\ LET row == Visible(r, ItemRow(Received(r).item).product)
       IN /\ row.life = "live"
          /\ receipt' = [receipt EXCEPT ![r] =
                 [@ EXCEPT !.pc = "write",
                           !.version = row.version,
                           !.previousStock = row.stock]]
    /\ UNCHANGED <<rowVars, order, lines, orderNumber, orderSeqHolder, orderCreate, orderChange>>

\* Mutants: no version is asked for; the stock read is written, increased.
Modified(r, row) == row.life = "live"
Overstocked(r, row) ==
    [row EXCEPT !.stock = receipt[r].previousStock + Received(r).quantity, !.version = row.version + 1]

\* product.updateMany({ id, version }) matches the row, and what it writes.
Unmodified(r, row) == row.version = receipt[r].version
Restocked(r, row) ==
    [row EXCEPT !.stock = row.stock + Received(r).quantity, !.version = row.version + 1]

\* ... and the stock incremented if the version is still the one read.  The
\* item's own update fails when the item was deleted.
ReceiveWrite(r) ==
    /\ receipt[r].pc = "write"
    /\ ItemExists(Received(r).item)
    /\ LET p == ItemRow(Received(r).item).product
           quantity == Received(r).quantity
           previous == receipt[r].previousStock
           row == Visible(r, p)
       IN /\ Unmodified(r, row)
          /\ Stage(r, p, Restocked(r, row))
          /\ receipt' = [receipt EXCEPT ![r] =
                 [@ EXCEPT !.pc = "item",
                           !.line = receipt[r].line + 1,
                           !.log = receipt[r].log \cup
                    {[by |-> r, line |-> receipt[r].line, product |-> p, type |-> "PURCHASE",
                      quantity |-> quantity, previousStock |-> previous,
                      newStock |-> previous + quantity, sale |-> NoOne]}]]
    /\ UNCHANGED <<product, movements, order, lines, orderNumber, orderSeqHolder, orderCreate,
                   orderChange>>

\* Mutant: only the first line of the receipt is counted.
AddsFirst(r, i) ==
    IF Len(receipt[r].items) > 0 /\ receipt[r].items[1].item = i
    THEN receipt[r].items[1].quantity
    ELSE 0

\* What r's open transaction added to the received quantity of item i.
Adds(r, i) ==
    IF \E k \in DOMAIN receipt[r].items : receipt[r].items[k].item = i
    THEN receipt[r].items[CHOOSE k \in DOMAIN receipt[r].items :
                            receipt[r].items[k].item = i].quantity
    ELSE 0

\* The order's items are read again to choose its new status.
ReceiveRefresh(r) ==
    /\ receipt[r].pc = "item"
    /\ ~ReceiptLinesLeft(r)
    /\ LET allReceived == \A i \in ItemsOf(receipt[r].order) : Adds(r, i) >= Pending(i)
       IN receipt' = [receipt EXCEPT ![r] =
              [@ EXCEPT !.pc = "status",
                        !.status = IF allReceived THEN "RECEIVED" ELSE "PARTIAL_RECEIVED"]]
    /\ UNCHANGED <<rowVars, order, lines, orderNumber, orderSeqHolder, orderCreate, orderChange>>

ReceiveCommit(r) ==
    /\ receipt[r].pc = "status"
    /\ CommitRows(r)
    /\ movements' = movements \cup receipt[r].log
    /\ order' = [order EXCEPT ![receipt[r].order].status = receipt[r].status]
    /\ lines' = [w \in Writers |-> [k \in DOMAIN lines[w] |->
                    [lines[w][k] EXCEPT !.received = lines[w][k].received + Adds(r, <<w, k>>)]]]
    /\ receipt' = [receipt EXCEPT ![r].pc = "done"]
    /\ UNCHANGED <<orderNumber, orderSeqHolder, orderCreate, orderChange>>

ReceiveAbort(r) ==
    /\ receipt[r].pc \in {"item", "product", "write", "status"}
    /\ RollbackRows(r)
    /\ receipt' = [receipt EXCEPT ![r] = [@ EXCEPT !.pc = "failed", !.log = {}]]
    /\ UNCHANGED <<movements, order, lines, orderNumber, orderSeqHolder, orderCreate, orderChange>>

---------------------------------------------------------------------------
OrderStep(o) ==
    \/ OrderRead(o)
    \/ OrderBegin(o)
    \/ OrderTakeNumber(o)
    \/ OrderCommit(o)
    \/ OrderAbort(o)

ChangeStep(x) ==
    \/ ChangeRead(x)
    \/ EditDelete(x)
    \/ EditCommit(x)
    \/ EditAbort(x)
    \/ ChangeStatus(x)

ReceiptStep(r) ==
    \/ ReceiveRead(r)
    \/ ReceiveItem(r)
    \/ ReceiveProduct(r)
    \/ ReceiveWrite(r)
    \/ ReceiveRefresh(r)
    \/ ReceiveCommit(r)
    \/ ReceiveAbort(r)

OrdersNext == \/ \E o \in Orders : OrderStep(o)
              \/ \E x \in OrderChanges : ChangeStep(x)
              \/ \E r \in Receipts : ReceiptStep(r)

---------------------------------------------------------------------------
OrderItems == Seq([product : Products, quantity : Nat \ {0}])

OrderStatus == {"NONE", "DRAFT", "PENDING", "PARTIAL_RECEIVED", "RECEIVED", "CANCELLED"}

OrderLine == [product : Products, ordered : Nat \ {0}, received : Nat]

OrderCreateState ==
    [pc : {"new", "begin", "number", "insert", "done", "failed"},
     items : OrderItems, seen : Nat]

OrderChangeState ==
    [pc : {"new", "delete", "insert", "confirm", "cancel", "done", "failed"},
     order : Orders \cup {NoOne}, items : OrderItems, doomed : SUBSET Writers]

ReceiptLine == [item : Writers \X (Nat \ {0}), quantity : Nat \ {0}]

ReceiptState ==
    [pc : {"new", "item", "product", "write", "status", "done", "failed"},
     order : Orders \cup {NoOne}, items : Seq(ReceiptLine), line : Nat \ {0},
     version : Nat, previousStock : Int, status : OrderStatus, log : SUBSET Movement]

OrdersTypeOK ==
    /\ order \in [Orders -> [status : OrderStatus, number : Nat]]
    /\ lines \in [Writers -> Seq(OrderLine)]
    /\ orderNumber \in Nat
    /\ orderSeqHolder \in Orders \cup {NoOne}
    /\ orderCreate \in [Orders -> OrderCreateState]
    /\ orderChange \in [OrderChanges -> OrderChangeState]
    /\ receipt \in [Receipts -> ReceiptState]
=============================================================================
