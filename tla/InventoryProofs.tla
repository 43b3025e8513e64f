-------------------------- MODULE InventoryProofs --------------------------
(***************************************************************************)
(* Proofs about Inventory for every set of products and requests.          *)
(***************************************************************************)
EXTENDS Inventory, SequenceTheorems, TLAPS


---------------------------------------------------------------------------
(* The inductive invariant, one part per component. *)

\* No row, committed or written by an open transaction, has negative stock.
RowsInv ==
    /\ RowsTypeOK
    /\ \A p \in Products : product[p].stock >= 0 /\ draft[p].stock >= 0

\* A sale is committed once, by its checkout's last step.
CommittedOnce == \A c \in Checkouts : Committed(c) => checkout[c].pc = "done"

\* A sale update works on a committed sale, gives back an item of it, and has
\* read a stock that some row had.
UpdatesLinked ==
    \A u \in SaleUpdates :
        /\ saleUpdate[u].previousStock >= 0
        /\ saleUpdate[u].pc \in {"cancel", "write", "return"} =>
              saleUpdate[u].sale \in Checkouts /\ Committed(saleUpdate[u].sale)
        /\ saleUpdate[u].pc = "write" =>
              saleUpdate[u].line <= Len(sale[saleUpdate[u].sale].items)

\* The checkout that is past nextNumber holds the sequence row, which has not
\* moved since its snapshot.
NumberReserved ==
    \A c \in Checkouts :
        checkout[c].pc = "items" => seqHolder = c /\ checkout[c].seen = currentNumber

SalesInv ==
    /\ SalesTypeOK
    /\ CommittedOnce
    /\ UpdatesLinked
    /\ NumberReserved
    /\ SalesNumberedConsecutively

\* A catalog request past its first statement works on one product; one that
\* writes a movement was asked to set the stock.
TargetsKnown ==
    \A r \in ProductRequests :
        /\ ~At(r, "new") => Target(r) \in Products
        /\ At(r, "movement") => productRequest[r].dto.stock \in Stocks

CatalogInv == CatalogTypeOK /\ TargetsKnown

\* An order is committed once, by its creation's last step; until then it has no
\* number.
OrderCreatedOnce ==
    \A o \in Orders :
        IF order[o].status = "NONE" THEN order[o].number = 0 ELSE orderCreate[o].pc = "done"

\* The creation that is past nextNumber holds the sequence row, which has not
\* moved since its snapshot.
OrderNumberReserved ==
    \A o \in Orders :
        orderCreate[o].pc = "insert" =>
            orderSeqHolder = o /\ orderCreate[o].seen = orderNumber

\* A change works on a committed order.
ChangesLinked ==
    \A x \in OrderChanges :
        orderChange[x].pc \in {"delete", "insert", "confirm", "cancel"} =>
            orderChange[x].order \in Orders /\ order[orderChange[x].order].status # "NONE"

\* A receipt works on a committed order, and past its first read of an item on
\* an item of its list; the status it will write is one of an order.
ReceiptsLinked ==
    \A r \in Receipts :
        /\ receipt[r].pc \in {"item", "product", "write", "status"} =>
              receipt[r].order \in Orders /\ order[receipt[r].order].status # "NONE"
        /\ receipt[r].pc \in {"product", "write"} => ReceiptLinesLeft(r)
        /\ receipt[r].pc = "status" => receipt[r].status # "NONE"

OrdersInv ==
    /\ OrdersTypeOK
    /\ OrderCreatedOnce
    /\ OrderNumberReserved
    /\ ChangesLinked
    /\ ReceiptsLinked
    /\ OrdersNumberedConsecutively

---------------------------------------------------------------------------
(* What the row operators preserve. *)

\* A statement reads a row whose stock is not negative.
LEMMA VisibleRow ==
    ASSUME RowsInv, NEW r, NEW p \in Products
    PROVE  Visible(r, p) \in Row /\ Visible(r, p).stock >= 0
  BY DEF RowsInv, RowsTypeOK, Visible

\* An update with a stock that is not negative keeps the rows' invariant, and so
\* does whatever ends its transaction.
LEMMA StageInv ==
    ASSUME RowsInv, NEW r \in Requests, NEW p \in Products, NEW row \in Row, row.stock >= 0,
           Stage(r, p, row), UNCHANGED <<product, movements>>
    PROVE  RowsInv'
  <1>1. [row EXCEPT !.writer = r] \in Row /\ [row EXCEPT !.writer = r].stock >= 0
    BY DEF Row
  <1>. QED BY <1>1 DEF RowsInv, RowsTypeOK, Stage

LEMMA WriteNowInv ==
    ASSUME RowsInv, NEW r \in Requests, NEW p \in Products, NEW row \in Row, row.stock >= 0,
           WriteNow(r, p, row), UNCHANGED movements
    PROVE  RowsInv'
  <1>1. [row EXCEPT !.writer = r] \in Row /\ [row EXCEPT !.writer = r].stock >= 0
    BY DEF Row
  <1>. QED BY <1>1 DEF RowsInv, RowsTypeOK, WriteNow

LEMMA CommitRowsInv ==
    ASSUME RowsInv, NEW r \in Requests, CommitRows(r), movements' \subseteq Movement
    PROVE  RowsInv'
  BY DEF RowsInv, RowsTypeOK, CommitRows

LEMMA RollbackRowsInv ==
    ASSUME RowsInv, NEW r \in Requests, RollbackRows(r), UNCHANGED movements
    PROVE  RowsInv'
  BY DEF RowsInv, RowsTypeOK, RollbackRows

LEMMA UnchangedRows ==
    ASSUME RowsInv, UNCHANGED rowVars
    PROVE  RowsInv'
  BY DEF RowsInv, RowsTypeOK, rowVars

---------------------------------------------------------------------------
(* Sales *)

LEMMA ItemAt ==
    ASSUME NEW items \in Items, NEW i \in Nat \ {0}, i <= Len(items)
    PROVE  items[i].product \in Products /\ items[i].quantity \in Nat \ {0}
  <1>1. i \in 1..Len(items)
    BY DEF Items
  <1>2. items[i] \in [product : Products, quantity : Nat \ {0}]
    BY <1>1, ElementOfSeq DEF Items
  <1>. QED BY <1>2

LEMMA CheckoutReadInv ==
    ASSUME RowsInv, SalesInv, NEW c \in Checkouts, CheckoutRead(c)
    PROVE  RowsInv' /\ SalesInv'
  <1>1. RowsInv'
    BY UnchangedRows DEF CheckoutRead
  <1>2. checkout \in [Checkouts -> CheckoutState]
    BY DEF SalesInv, SalesTypeOK
  <1>3. PICK items \in Carts :
          checkout' = [checkout EXCEPT ![c] = [@ EXCEPT !.items = items, !.pc = "begin"]]
    BY DEF CheckoutRead
  <1>4. checkout' \in [Checkouts -> CheckoutState]
    <2>1. items \in Items
      BY SalesAssumption DEF Items
    <2>. QED BY <1>2, <1>3, <2>1 DEF CheckoutState
  <1>5. SalesTypeOK'
    BY <1>4 DEF CheckoutRead, SalesInv, SalesTypeOK
  <1>6. CommittedOnce' /\ NumberReserved' /\ UpdatesLinked' /\ SalesNumberedConsecutively'
    BY <1>2, <1>3
    DEF CheckoutRead, SalesInv, CommittedOnce, NumberReserved, UpdatesLinked,
        SalesNumberedConsecutively, Committed, CheckoutState
  <1>. QED BY <1>1, <1>5, <1>6 DEF SalesInv

LEMMA CheckoutBeginInv ==
    ASSUME RowsInv, SalesInv, NEW c \in Checkouts, CheckoutBegin(c)
    PROVE  RowsInv' /\ SalesInv'
  <1>1. RowsInv'
    BY UnchangedRows DEF CheckoutBegin
  <1>2. checkout \in [Checkouts -> CheckoutState] /\ currentNumber \in Nat
    BY DEF SalesInv, SalesTypeOK
  <1>3. checkout' \in [Checkouts -> CheckoutState]
    <2>1. [p \in Products |-> product[p].writer] \in [Products -> Requests \cup {NoOne}]
      BY DEF RowsInv, RowsTypeOK, Row
    <2>. QED BY <1>2, <2>1 DEF CheckoutBegin, CheckoutState
  <1>4. SalesTypeOK'
    BY <1>3 DEF CheckoutBegin, SalesInv, SalesTypeOK
  <1>5. CommittedOnce' /\ NumberReserved' /\ UpdatesLinked' /\ SalesNumberedConsecutively'
    BY <1>2
    DEF CheckoutBegin, SalesInv, CommittedOnce, NumberReserved, UpdatesLinked,
        SalesNumberedConsecutively, Committed, CheckoutState
  <1>. QED BY <1>1, <1>4, <1>5 DEF SalesInv

LEMMA NextNumberInv ==
    ASSUME RowsInv, SalesInv, NEW c \in Checkouts, NextNumber(c)
    PROVE  RowsInv' /\ SalesInv'
  <1>1. RowsInv'
    BY UnchangedRows DEF NextNumber
  <1>2. checkout \in [Checkouts -> CheckoutState]
    BY DEF SalesInv, SalesTypeOK
  <1>3. SalesTypeOK'
    <2>1. checkout' \in [Checkouts -> CheckoutState]
      BY <1>2 DEF NextNumber, CheckoutState
    <2>. QED BY <2>1 DEF NextNumber, SaleSequence!Lock, SalesInv, SalesTypeOK
  <1>4. CommittedOnce' /\ NumberReserved' /\ UpdatesLinked' /\ SalesNumberedConsecutively'
    <2>1. \A d \in Checkouts : checkout[d].pc # "items"
      BY NoOneAssumption, SalesAssumption
      DEF NextNumber, SaleSequence!Lock, SalesInv, NumberReserved
    <2>. QED
      BY <1>2, <2>1
      DEF NextNumber, SaleSequence!Lock, SalesInv, CommittedOnce, NumberReserved,
          UpdatesLinked, SalesNumberedConsecutively, Committed, CheckoutState
  <1>. QED BY <1>1, <1>3, <1>4 DEF SalesInv
LEMMA CheckoutItemInv ==
    ASSUME RowsInv, SalesInv, NEW c \in Checkouts, CheckoutItem(c)
    PROVE  RowsInv' /\ SalesInv'
  <1>. DEFINE p == Item(c).product
              quantity == Item(c).quantity
              row == Visible(c, p)
              moved == SaleMovement(c, checkout[c].line, p, "SALE", -quantity, row.stock, c)
  <1>1. checkout \in [Checkouts -> CheckoutState] /\ c \in Requests
    BY SalesAssumption DEF SalesInv, SalesTypeOK
  <1>2. p \in Products /\ quantity \in Nat \ {0}
    <2>1. checkout[c].items \in Items /\ checkout[c].line \in Nat \ {0}
      BY <1>1 DEF CheckoutState
    <2>. QED BY <2>1, ItemAt DEF CheckoutItem, ItemsLeft, Item
  <1>3. row \in Row /\ row.stock >= quantity
    BY <1>2, VisibleRow DEF CheckoutItem, Sellable
  <1>4. RowsInv'
    <2>1. /\ [row EXCEPT !.stock = row.stock - quantity] \in Row
          /\ [row EXCEPT !.stock = row.stock - quantity].stock >= 0
      BY <1>2, <1>3 DEF Row
    <2>2. Stage(c, p, [row EXCEPT !.stock = row.stock - quantity]) /\ UNCHANGED <<product, movements>>
      BY DEF CheckoutItem
    <2>. QED BY <1>1, <1>2, <2>1, <2>2, StageInv
  <1>5. checkout' = [checkout EXCEPT ![c] =
          [@ EXCEPT !.line = checkout[c].line + 1, !.log = checkout[c].log \cup {moved}]]
    BY DEF CheckoutItem
  <1>6. checkout' \in [Checkouts -> CheckoutState]
    <2>1. moved \in Movement
      BY <1>1, <1>2, <1>3 DEF SaleMovement, Movement, MovementTypes, CheckoutState, Row
    <2>. HIDE DEF moved
    <2>2. checkout[c].line + 1 \in Nat \ {0} /\ checkout[c].log \cup {moved} \in SUBSET Movement
      BY <1>1, <2>1 DEF CheckoutState
    <2>. QED BY <1>1, <1>5, <2>2 DEF CheckoutState
  <1>7. SalesTypeOK'
    BY <1>6 DEF CheckoutItem, SalesInv, SalesTypeOK
  <1>8. CommittedOnce' /\ NumberReserved' /\ UpdatesLinked' /\ SalesNumberedConsecutively'
    BY <1>1, <1>5
    DEF CheckoutItem, SalesInv, CommittedOnce, NumberReserved, UpdatesLinked,
        SalesNumberedConsecutively, Committed, CheckoutState
  <1>. QED BY <1>4, <1>7, <1>8 DEF SalesInv

\* The new sale gets the number after the last: the set of numbers stays an interval.
LEMMA CheckoutCommitInv ==
    ASSUME RowsInv, SalesInv, NEW c \in Checkouts, CheckoutCommit(c)
    PROVE  RowsInv' /\ SalesInv'
  <1>1. /\ checkout \in [Checkouts -> CheckoutState]
        /\ sale \in [Checkouts -> SaleRow]
        /\ currentNumber \in Nat
        /\ c \in Requests
    BY SalesAssumption DEF SalesInv, SalesTypeOK
  <1>2. RowsInv'
    <2>1. movements' \subseteq Movement
      BY <1>1 DEF CheckoutCommit, RowsInv, RowsTypeOK, CheckoutState
    <2>. QED BY <1>1, <2>1, CommitRowsInv DEF CheckoutCommit
  <1>3. checkout' = [checkout EXCEPT ![c] =
                        [@ EXCEPT !.pc = "done", !.seen = 0, !.snapshot = NoSnapshot]]
    BY DEF CheckoutCommit
  <1>4. checkout' \in [Checkouts -> CheckoutState]
    <2>1. NoSnapshot \in [Products -> Requests \cup {NoOne}]
      BY DEF NoSnapshot
    <2>. QED BY <1>1, <1>3, <2>1 DEF CheckoutState
  <1>5. /\ sale' = [sale EXCEPT ![c] = [status |-> "COMPLETED", number |-> currentNumber + 1,
                                       items |-> checkout[c].items]]
        /\ currentNumber' = currentNumber + 1
        /\ seqHolder' = NoOne
        /\ seqHolder = c
    BY DEF CheckoutCommit, SaleSequence!Commit, SaleSequence!Number, SalesInv, NumberReserved
  <1>6. sale' \in [Checkouts -> SaleRow]
    BY <1>1, <1>5 DEF SaleRow, SaleStatus, CheckoutState
  <1>7. SalesTypeOK'
    BY <1>1, <1>4, <1>5, <1>6 DEF CheckoutCommit, SalesInv, SalesTypeOK
  <1>8. ~Committed(c) /\ Committed(c)' /\ (\A d \in Checkouts \ {c} : sale'[d] = sale[d])
    BY <1>1, <1>5 DEF CheckoutCommit, SalesInv, CommittedOnce, Committed, SaleRow
  <1>9. CommittedOnce' /\ NumberReserved'
    BY <1>1, <1>3, <1>5, <1>8
    DEF SalesInv, CommittedOnce, NumberReserved, Committed, CheckoutState
  <1>10. UpdatesLinked'
    BY <1>8 DEF CheckoutCommit, SalesInv, UpdatesLinked, Committed
  <1>11. SalesNumberedConsecutively'
    <2>1. {s \in Checkouts : Committed(s)'} = {s \in Checkouts : Committed(s)} \cup {c}
      BY <1>8 DEF Committed
    <2>2. sale'[c].number = currentNumber + 1
      BY <1>1, <1>5
    <2>3. \A s \in Checkouts : Committed(s) => sale[s].number \in 1..currentNumber
      BY DEF SalesInv, SalesNumberedConsecutively
    <2>4. {sale'[s].number : s \in {x \in Checkouts : Committed(x)'}} =
          {sale[s].number : s \in {x \in Checkouts : Committed(x)}} \cup {currentNumber + 1}
      BY <1>8, <2>1, <2>2
    <2>5. 1..currentNumber \cup {currentNumber + 1} = 1..(currentNumber + 1)
      BY <1>1
    <2>6. {sale'[s].number : s \in {x \in Checkouts : Committed(x)'}} = 1..currentNumber'
      BY <1>5, <2>4, <2>5 DEF SalesInv, SalesNumberedConsecutively
    <2>7. ASSUME NEW d \in Checkouts, NEW e \in Checkouts, Committed(d)', Committed(e)',
                 sale'[d].number = sale'[e].number
          PROVE  d = e
      BY <1>1, <1>8, <2>2, <2>3, <2>7 DEF SalesInv, SalesNumberedConsecutively, Committed
    <2>. QED BY <2>6, <2>7 DEF SalesNumberedConsecutively, Committed
  <1>. QED BY <1>2, <1>7, <1>9, <1>10, <1>11 DEF SalesInv
LEMMA CheckoutAbortInv ==
    ASSUME RowsInv, SalesInv, NEW c \in Checkouts, CheckoutAbort(c)
    PROVE  RowsInv' /\ SalesInv'
  <1>1. checkout \in [Checkouts -> CheckoutState] /\ c \in Requests
    BY SalesAssumption DEF SalesInv, SalesTypeOK
  <1>2. RowsInv'
    BY <1>1, RollbackRowsInv DEF CheckoutAbort
  <1>3. checkout' = [checkout EXCEPT ![c] =
          [@ EXCEPT !.pc = "failed", !.log = {}, !.seen = 0, !.snapshot = NoSnapshot]]
    BY DEF CheckoutAbort, CheckoutFails
  <1>4. checkout' \in [Checkouts -> CheckoutState]
    <2>1. NoSnapshot \in [Products -> Requests \cup {NoOne}] /\ {} \in SUBSET Movement
      BY DEF NoSnapshot
    <2>. QED BY <1>1, <1>3, <2>1 DEF CheckoutState
  <1>5. SalesTypeOK'
    BY <1>4 DEF CheckoutAbort, SaleSequence!Rollback, SalesInv, SalesTypeOK
  <1>6. ~Committed(c)
    BY DEF CheckoutAbort, SalesInv, CommittedOnce
  <1>7. CommittedOnce' /\ NumberReserved' /\ UpdatesLinked' /\ SalesNumberedConsecutively'
    BY <1>1, <1>3, <1>6
    DEF CheckoutAbort, SaleSequence!Rollback, SalesInv, CommittedOnce, NumberReserved,
        UpdatesLinked, SalesNumberedConsecutively, Committed, CheckoutState
  <1>. QED BY <1>2, <1>5, <1>7 DEF SalesInv

\* What a checkout established stays true while sale updates only change statuses.
LEMMA UnchangedCheckouts ==
    ASSUME SalesInv, UNCHANGED <<checkout, currentNumber, seqHolder>>,
           NEW s, NEW status \in SaleStatus \ {"NONE"},
           \/ UNCHANGED sale
           \/ s \in Checkouts /\ Committed(s) /\ sale' = [sale EXCEPT ![s].status = status]
    PROVE  /\ sale' \in [Checkouts -> SaleRow]
           /\ \A c \in Checkouts : /\ Committed(c)' <=> Committed(c)
                                   /\ sale'[c].items = sale[c].items
           /\ CommittedOnce' /\ NumberReserved' /\ SalesNumberedConsecutively'
  <1>1. sale \in [Checkouts -> SaleRow]
    BY DEF SalesInv, SalesTypeOK
  <1>2. sale' \in [Checkouts -> SaleRow]
    BY <1>1 DEF SaleRow, SaleStatus
  <1>3. \A c \in Checkouts : /\ Committed(c)' <=> Committed(c)
                             /\ sale'[c].items = sale[c].items
                             /\ sale'[c].number = sale[c].number
    BY <1>1 DEF Committed, SaleRow, SaleStatus
  <1>4. CommittedOnce' /\ NumberReserved'
    BY <1>3 DEF SalesInv, CommittedOnce, NumberReserved
  <1>5. SalesNumberedConsecutively'
    <2>1. {c \in Checkouts : Committed(c)'} = {c \in Checkouts : Committed(c)}
      BY <1>3
    <2>2. {sale'[c].number : c \in {x \in Checkouts : Committed(x)'}} =
          {sale[c].number : c \in {x \in Checkouts : Committed(x)}}
      BY <1>3, <2>1
    <2>. QED BY <1>3, <2>2 DEF SalesInv, SalesNumberedConsecutively, Committed
  <1>. QED BY <1>2, <1>3, <1>4, <1>5

LEMMA SaleUpdateReadInv ==
    ASSUME RowsInv, SalesInv, NEW u \in SaleUpdates, SaleUpdateRead(u)
    PROVE  RowsInv' /\ SalesInv'
  <1>1. RowsInv'
    BY UnchangedRows DEF SaleUpdateRead
  <1>2. saleUpdate \in [SaleUpdates -> SaleUpdateState]
    BY DEF SalesInv, SalesTypeOK
  <1>3. PICK s \in Checkouts, next \in {"cancel", "return"} :
          /\ sale[s].status = "COMPLETED"
          /\ saleUpdate' = [saleUpdate EXCEPT ![u] = [@ EXCEPT !.sale = s, !.pc = next]]
    BY DEF SaleUpdateRead
  <1>4. saleUpdate' \in [SaleUpdates -> SaleUpdateState]
    BY <1>2, <1>3 DEF SaleUpdateState
  <1>5. SalesTypeOK'
    BY <1>4 DEF SaleUpdateRead, SalesInv, SalesTypeOK
  <1>6. UpdatesLinked'
    BY <1>2, <1>3 DEF SaleUpdateRead, SalesInv, UpdatesLinked, Committed, SaleUpdateState
  <1>7. CommittedOnce' /\ NumberReserved' /\ SalesNumberedConsecutively'
    BY UnchangedCheckouts DEF SaleUpdateRead, SaleStatus
  <1>. QED BY <1>1, <1>5, <1>6, <1>7 DEF SalesInv
LEMMA CancelReadItemInv ==
    ASSUME RowsInv, SalesInv, NEW u \in SaleUpdates, CancelReadItem(u)
    PROVE  RowsInv' /\ SalesInv'
  <1>1. RowsInv'
    BY UnchangedRows DEF CancelReadItem
  <1>2. /\ saleUpdate \in [SaleUpdates -> SaleUpdateState]
        /\ sale \in [Checkouts -> SaleRow]
        /\ saleUpdate[u].sale \in Checkouts
    BY DEF CancelReadItem, SalesInv, SalesTypeOK, UpdatesLinked
  <1>3. Returned(u).product \in Products
    <2>1. saleUpdate[u].line \in Nat \ {0} /\ sale[saleUpdate[u].sale].items \in Items
      BY <1>2 DEF SaleUpdateState, SaleRow
    <2>. QED BY <2>1, ItemAt DEF CancelReadItem, ReturnsLeft, Returned
  <1>. DEFINE previous == Visible(u, Returned(u).product).stock
  <1>4. previous \in Int /\ previous >= 0
    BY <1>3, VisibleRow DEF Row
  <1>5. saleUpdate' = [saleUpdate EXCEPT ![u] =
          [@ EXCEPT !.pc = "write", !.previousStock = previous]]
    BY DEF CancelReadItem
  <1>. HIDE DEF previous
  <1>6. saleUpdate' \in [SaleUpdates -> SaleUpdateState]
    BY <1>2, <1>4, <1>5 DEF SaleUpdateState
  <1>7. SalesTypeOK'
    BY <1>6 DEF CancelReadItem, SalesInv, SalesTypeOK
  <1>8. UpdatesLinked'
    <2>1. /\ saleUpdate'[u].previousStock = previous
          /\ saleUpdate'[u].sale = saleUpdate[u].sale
          /\ saleUpdate'[u].line = saleUpdate[u].line
      BY <1>2, <1>5 DEF SaleUpdateState
    <2>2. \A v \in SaleUpdates \ {u} : saleUpdate'[v] = saleUpdate[v]
      BY <1>2, <1>5
    <2>3. /\ Committed(saleUpdate[u].sale)
          /\ saleUpdate[u].line <= Len(sale[saleUpdate[u].sale].items)
          /\ UNCHANGED sale
      BY DEF CancelReadItem, ReturnsLeft, SalesInv, UpdatesLinked
    <2>. QED BY <1>2, <1>4, <2>1, <2>2, <2>3 DEF SalesInv, UpdatesLinked, Committed
  <1>9. CommittedOnce' /\ NumberReserved' /\ SalesNumberedConsecutively'
    BY UnchangedCheckouts DEF CancelReadItem, SaleStatus
  <1>. QED BY <1>1, <1>7, <1>8, <1>9 DEF SalesInv

\* A cancellation writes a stock it read, plus the units it gives back.
LEMMA CancelWriteItemInv ==
    ASSUME RowsInv, SalesInv, NEW u \in SaleUpdates, CancelWriteItem(u)
    PROVE  RowsInv' /\ SalesInv'
  <1>. DEFINE p == Returned(u).product
              quantity == Returned(u).quantity
              previous == saleUpdate[u].previousStock
              moved == SaleMovement(u, saleUpdate[u].line, p, "RETURN", quantity, previous,
                                    saleUpdate[u].sale)
  <1>1. /\ saleUpdate \in [SaleUpdates -> SaleUpdateState]
        /\ sale \in [Checkouts -> SaleRow]
        /\ saleUpdate[u].sale \in Checkouts
        /\ u \in Requests
        /\ Checkouts \subseteq Requests
    BY SalesAssumption DEF CancelWriteItem, SalesInv, SalesTypeOK, UpdatesLinked
  <1>2. saleUpdate[u].line \in Nat \ {0} /\ previous \in Int /\ previous >= 0
    BY <1>1 DEF SaleUpdateState, SalesInv, UpdatesLinked
  <1>3. p \in Products /\ quantity \in Nat \ {0}
    <2>1. sale[saleUpdate[u].sale].items \in Items
      BY <1>1 DEF SaleRow
    <2>2. saleUpdate[u].line <= Len(sale[saleUpdate[u].sale].items)
      BY DEF CancelWriteItem, SalesInv, UpdatesLinked
    <2>. QED BY <1>2, <2>1, <2>2, ItemAt DEF Returned
  <1>4. RowsInv'
    <2>. DEFINE row == [Visible(u, p) EXCEPT !.stock = previous + quantity]
    <2>1. row \in Row /\ row.stock >= 0
      BY <1>2, <1>3, VisibleRow DEF Row
    <2>2. Stage(u, p, row) /\ UNCHANGED <<product, movements>>
      BY DEF CancelWriteItem
    <2>. HIDE DEF row
    <2>. QED BY <1>1, <1>3, <2>1, <2>2, StageInv
  <1>5. saleUpdate' = [saleUpdate EXCEPT ![u] =
          [@ EXCEPT !.pc = "cancel", !.line = saleUpdate[u].line + 1,
                    !.log = saleUpdate[u].log \cup {moved}]]
    BY DEF CancelWriteItem
  <1>6. saleUpdate' \in [SaleUpdates -> SaleUpdateState]
    <2>1. moved \in Movement
      BY <1>1, <1>2, <1>3 DEF SaleMovement, Movement, MovementTypes
    <2>. HIDE DEF moved
    <2>2. saleUpdate[u].line + 1 \in Nat \ {0}
          /\ saleUpdate[u].log \cup {moved} \in SUBSET Movement
      BY <1>1, <2>1 DEF SaleUpdateState
    <2>. QED BY <1>1, <1>5, <2>2 DEF SaleUpdateState
  <1>7. SalesTypeOK'
    BY <1>6 DEF CancelWriteItem, SalesInv, SalesTypeOK
  <1>8. UpdatesLinked'
    BY <1>1, <1>5
    DEF CancelWriteItem, SalesInv, UpdatesLinked, Committed, SaleUpdateState
  <1>9. CommittedOnce' /\ NumberReserved' /\ SalesNumberedConsecutively'
    BY UnchangedCheckouts DEF CancelWriteItem, SaleStatus
  <1>. QED BY <1>4, <1>7, <1>8, <1>9 DEF SalesInv

LEMMA CancelCommitInv ==
    ASSUME RowsInv, SalesInv, NEW u \in SaleUpdates, CancelCommit(u)
    PROVE  RowsInv' /\ SalesInv'
  <1>1. saleUpdate \in [SaleUpdates -> SaleUpdateState] /\ u \in Requests
    BY SalesAssumption DEF SalesInv, SalesTypeOK
  <1>2. RowsInv'
    <2>1. movements' \subseteq Movement
      BY <1>1 DEF CancelCommit, RowsInv, RowsTypeOK, SaleUpdateState
    <2>. QED BY <1>1, <2>1, CommitRowsInv DEF CancelCommit
  <1>3. saleUpdate' \in [SaleUpdates -> SaleUpdateState]
    BY <1>1 DEF CancelCommit, SaleUpdateState
  <1>4. /\ sale' \in [Checkouts -> SaleRow]
        /\ \A c \in Checkouts : /\ Committed(c)' <=> Committed(c)
                                /\ sale'[c].items = sale[c].items
        /\ CommittedOnce' /\ NumberReserved' /\ SalesNumberedConsecutively'
    <2>. DEFINE s == saleUpdate[u].sale
                status == "CANCELLED"
    <2>1. s \in Checkouts /\ Committed(s) /\ status \in SaleStatus \ {"NONE"}
      BY DEF CancelCommit, SalesInv, UpdatesLinked, SaleStatus
    <2>2. /\ sale' = [sale EXCEPT ![s].status = status]
          /\ UNCHANGED <<checkout, currentNumber, seqHolder>>
      BY DEF CancelCommit
    <2>. HIDE DEF s, status
    <2>. QED BY <2>1, <2>2, UnchangedCheckouts
  <1>5. SalesTypeOK'
    BY <1>3, <1>4 DEF CancelCommit, SalesInv, SalesTypeOK
  <1>6. UpdatesLinked'
    BY <1>1, <1>4 DEF CancelCommit, SalesInv, UpdatesLinked, SaleUpdateState
  <1>. QED BY <1>2, <1>4, <1>5, <1>6 DEF SalesInv

LEMMA CancelAbortInv ==
    ASSUME RowsInv, SalesInv, NEW u \in SaleUpdates, CancelAbort(u)
    PROVE  RowsInv' /\ SalesInv'
  <1>1. saleUpdate \in [SaleUpdates -> SaleUpdateState] /\ u \in Requests
    BY SalesAssumption DEF SalesInv, SalesTypeOK
  <1>2. RowsInv'
    BY <1>1, RollbackRowsInv DEF CancelAbort
  <1>3. saleUpdate' \in [SaleUpdates -> SaleUpdateState]
    BY <1>1 DEF CancelAbort, SaleUpdateState
  <1>4. SalesTypeOK'
    BY <1>3 DEF CancelAbort, SalesInv, SalesTypeOK
  <1>5. UpdatesLinked'
    BY <1>1 DEF CancelAbort, SalesInv, UpdatesLinked, Committed, SaleUpdateState
  <1>6. CommittedOnce' /\ NumberReserved' /\ SalesNumberedConsecutively'
    BY UnchangedCheckouts DEF CancelAbort, SaleStatus
  <1>. QED BY <1>2, <1>4, <1>5, <1>6 DEF SalesInv

LEMMA ReturnPartialInv ==
    ASSUME RowsInv, SalesInv, NEW u \in SaleUpdates, ReturnPartial(u)
    PROVE  RowsInv' /\ SalesInv'
  <1>1. RowsInv'
    BY UnchangedRows DEF ReturnPartial
  <1>2. saleUpdate \in [SaleUpdates -> SaleUpdateState]
    BY DEF SalesInv, SalesTypeOK
  <1>3. saleUpdate' \in [SaleUpdates -> SaleUpdateState]
    BY <1>2 DEF ReturnPartial, SaleUpdateState
  <1>4. /\ sale' \in [Checkouts -> SaleRow]
        /\ \A c \in Checkouts : /\ Committed(c)' <=> Committed(c)
                                /\ sale'[c].items = sale[c].items
        /\ CommittedOnce' /\ NumberReserved' /\ SalesNumberedConsecutively'
    <2>. DEFINE s == saleUpdate[u].sale
                status == "RETURNED_PARTIAL"
    <2>1. s \in Checkouts /\ Committed(s) /\ status \in SaleStatus \ {"NONE"}
      BY DEF ReturnPartial, SalesInv, UpdatesLinked, SaleStatus
    <2>2. /\ sale' = [sale EXCEPT ![s].status = status]
          /\ UNCHANGED <<checkout, currentNumber, seqHolder>>
      BY DEF ReturnPartial
    <2>. HIDE DEF s, status
    <2>. QED BY <2>1, <2>2, UnchangedCheckouts
  <1>5. SalesTypeOK'
    BY <1>3, <1>4 DEF ReturnPartial, SalesInv, SalesTypeOK
  <1>6. UpdatesLinked'
    BY <1>2, <1>4 DEF ReturnPartial, SalesInv, UpdatesLinked, SaleUpdateState
  <1>. QED BY <1>1, <1>4, <1>5, <1>6 DEF SalesInv
LEMMA SellInv ==
    ASSUME RowsInv, SalesInv, SalesNext
    PROVE  RowsInv' /\ SalesInv'
  <1>1. ASSUME NEW c \in Checkouts, CheckoutStep(c)
        PROVE  RowsInv' /\ SalesInv'
    BY <1>1, CheckoutReadInv, CheckoutBeginInv, NextNumberInv, CheckoutItemInv, CheckoutCommitInv,
       CheckoutAbortInv
    DEF CheckoutStep
  <1>2. ASSUME NEW u \in SaleUpdates, SaleUpdateStep(u)
        PROVE  RowsInv' /\ SalesInv'
    BY <1>2, SaleUpdateReadInv, CancelReadItemInv, CancelWriteItemInv, CancelCommitInv,
       CancelAbortInv, ReturnPartialInv
    DEF SaleUpdateStep
  <1>. QED BY <1>1, <1>2 DEF SalesNext

LEMMA UnchangedSales ==
    ASSUME SalesInv, UNCHANGED saleVars
    PROVE  SalesInv'
  BY DEF saleVars, SalesInv, SalesTypeOK, CommittedOnce, NumberReserved, UpdatesLinked,
         SalesNumberedConsecutively, Committed

---------------------------------------------------------------------------
(* Catalog *)

\* A request that goes on with the product it has.
LEMMA GoToInv ==
    ASSUME CatalogInv, NEW r \in ProductRequests, ~At(r, "new"),
           NEW pc \in {"done", "failed", "movement"}, GoTo(r, pc),
           pc = "movement" => productRequest[r].dto.stock \in Stocks
    PROVE  CatalogInv'
  <1>1. productRequest \in [ProductRequests -> ProductRequestState]
    BY DEF CatalogInv, CatalogTypeOK
  <1>2. productRequest' \in [ProductRequests -> ProductRequestState]
    BY <1>1 DEF GoTo, ProductRequestState
  <1>3. TargetsKnown'
    BY <1>1 DEF GoTo, CatalogInv, TargetsKnown, At, Target, ProductRequestState
  <1>. QED BY <1>2, <1>3 DEF CatalogInv, CatalogTypeOK

LEMMA RecordMovementInv ==
    ASSUME RowsInv, CatalogInv, NEW r \in ProductRequests, ~At(r, "new"),
           NEW type \in MovementTypes, NEW previousStock \in Int, NEW newStock \in Int,
           RecordMovement(r, type, previousStock, newStock), UNCHANGED <<product, lock, draft>>
    PROVE  RowsInv' /\ CatalogInv'
  <1>1. StockMovement(r, type, previousStock, newStock) \in Movement
    BY CatalogAssumption DEF StockMovement, Movement, CatalogInv, TargetsKnown
  <1>2. movements' \subseteq Movement
    BY <1>1 DEF RecordMovement, RowsInv, RowsTypeOK
  <1>3. CatalogInv'
    BY GoToInv DEF RecordMovement
  <1>. QED BY <1>2, <1>3 DEF RowsInv, RowsTypeOK

LEMMA CreateInsertInv ==
    ASSUME RowsInv, CatalogInv, NEW r \in ProductRequests, CreateInsert(r)
    PROVE  RowsInv' /\ CatalogInv'
  <1>1. productRequest \in [ProductRequests -> ProductRequestState] /\ r \in Requests
    BY CatalogAssumption DEF CatalogInv, CatalogTypeOK
  <1>2. PICK p \in Products, stock \in Stocks :
          /\ WriteNow(r, p, [life |-> "live", stock |-> stock, version |-> 0,
                             active |-> TRUE, writer |-> r])
          /\ productRequest' = [productRequest EXCEPT
               ![r] = [@ EXCEPT !.pc = "created", !.product = p, !.previousStock = stock]]
    BY DEF CreateInsert
  <1>3. stock \in Nat
    BY CatalogAssumption
  <1>4. RowsInv'
    <2>. DEFINE row == [life |-> "live", stock |-> stock, version |-> 0,
                        active |-> TRUE, writer |-> r]
    <2>1. row \in Row /\ row.stock >= 0
      BY <1>1, <1>3 DEF Row
    <2>2. WriteNow(r, p, row) /\ UNCHANGED movements
      BY <1>2 DEF CreateInsert
    <2>. HIDE DEF row
    <2>. QED BY <1>1, <2>1, <2>2, WriteNowInv
  <1>5. productRequest' \in [ProductRequests -> ProductRequestState]
    <2>1. productRequest' = [productRequest EXCEPT
               ![r] = [@ EXCEPT !.pc = "created", !.product = p, !.previousStock = stock]]
      BY <1>2
    <2>2. stock \in Int
      BY <1>3
    <2>. QED BY <1>1, <2>1, <2>2 DEF ProductRequestState
  <1>6. TargetsKnown'
    BY <1>1, <1>2 DEF CatalogInv, TargetsKnown, ProductRequestState, At, Target
  <1>. QED BY <1>4, <1>5, <1>6 DEF CatalogInv, CatalogTypeOK

LEMMA UpdateReadInv ==
    ASSUME RowsInv, CatalogInv, NEW r \in ProductRequests, UpdateRead(r)
    PROVE  RowsInv' /\ CatalogInv'
  <1>1. productRequest \in [ProductRequests -> ProductRequestState]
    BY DEF CatalogInv, CatalogTypeOK
  <1>2. PICK p \in Products, dto \in Dto :
          productRequest' = [productRequest EXCEPT
               ![r] = [@ EXCEPT !.pc = "update", !.product = p, !.dto = dto,
                                !.version = product[p].version,
                                !.previousStock = product[p].stock]]
    BY DEF UpdateRead
  <1>3. product[p].version \in Nat /\ product[p].stock \in Int
    BY DEF RowsInv, RowsTypeOK, Row
  <1>4. productRequest' \in [ProductRequests -> ProductRequestState]
    BY <1>1, <1>2, <1>3 DEF ProductRequestState
  <1>5. TargetsKnown'
    BY <1>1, <1>2 DEF CatalogInv, TargetsKnown, ProductRequestState, At, Target
  <1>. QED BY <1>4, <1>5, UnchangedRows DEF UpdateRead, CatalogInv, CatalogTypeOK

\* What an edit writes is the stock it carries, or the stock of the row.
LEMMA UpdatedRow ==
    ASSUME NEW row \in Row, row.stock >= 0, NEW dto \in Dto
    PROVE  Updated(row, dto) \in Row /\ Updated(row, dto).stock >= 0
  <1>. DEFINE stock == IF dto.stock = Keep THEN row.stock ELSE dto.stock
              active == row.active /\ ~dto.off
              version == row.version + 1
  <1>1. stock \in Int /\ stock >= 0
    <2>1. CASE dto.stock = Keep
      BY <2>1 DEF Row
    <2>2. CASE dto.stock # Keep
      <3>1. dto.stock \in Nat
        BY <2>2, CatalogAssumption DEF Dto
      <3>. QED BY <2>2, <3>1
    <2>. QED BY <2>1, <2>2
  <1>2. active \in BOOLEAN
    OBVIOUS
  <1>3. version \in Nat
    BY DEF Row
  <1>4. Updated(row, dto) = [row EXCEPT !.stock = stock, !.active = active, !.version = version]
    BY DEF Updated
  <1>. HIDE DEF stock, active, version
  <1>. QED BY <1>1, <1>2, <1>3, <1>4 DEF Row

LEMMA UpdateWriteInv ==
    ASSUME RowsInv, CatalogInv, NEW r \in ProductRequests, UpdateWrite(r)
    PROVE  RowsInv' /\ CatalogInv'
  <1>1. productRequest \in [ProductRequests -> ProductRequestState] /\ r \in Requests
    BY CatalogAssumption DEF CatalogInv, CatalogTypeOK
  <1>2. Target(r) \in Products
    BY DEF UpdateWrite, CatalogInv, TargetsKnown, At
  <1>3. RowsInv'
    <2>. DEFINE row == Updated(product[Target(r)], productRequest[r].dto)
    <2>1. row \in Row /\ row.stock >= 0
      <3>1. product[Target(r)] \in Row /\ product[Target(r)].stock >= 0
        BY <1>2 DEF RowsInv, RowsTypeOK
      <3>2. productRequest[r].dto \in Dto
        BY <1>1 DEF ProductRequestState
      <3>. QED BY <3>1, <3>2, UpdatedRow
    <2>2. WriteNow(r, Target(r), row) /\ UNCHANGED movements
      BY DEF UpdateWrite
    <2>. HIDE DEF row
    <2>. QED BY <1>1, <1>2, <2>1, <2>2, WriteNowInv
  <1>4. productRequest' \in [ProductRequests -> ProductRequestState]
    BY <1>1 DEF UpdateWrite, ProductRequestState
  <1>5. TargetsKnown'
    BY <1>1, <1>2 DEF UpdateWrite, CatalogInv, TargetsKnown, ProductRequestState, At, Target
  <1>. QED BY <1>3, <1>4, <1>5 DEF CatalogInv, CatalogTypeOK

LEMMA UpdateRereadInv ==
    ASSUME RowsInv, CatalogInv, NEW r \in ProductRequests, UpdateReread(r)
    PROVE  RowsInv' /\ CatalogInv'
  <1>1. productRequest[r].dto.stock \in Stocks \cup {Keep}
    BY DEF CatalogInv, CatalogTypeOK, ProductRequestState, Dto
  <1>2. ~At(r, "new")
    BY DEF UpdateReread, At
  <1>3. CatalogInv'
    BY <1>1, <1>2, GoToInv DEF UpdateReread
  <1>. QED BY <1>3, UnchangedRows DEF UpdateReread

LEMMA UpdateMovementInv ==
    ASSUME RowsInv, CatalogInv, NEW r \in ProductRequests, UpdateMovement(r)
    PROVE  RowsInv' /\ CatalogInv'
  <1>. DEFINE previous == productRequest[r].previousStock
              stock == productRequest[r].dto.stock
              type == IF stock > previous THEN "ADJUSTMENT_IN" ELSE "ADJUSTMENT_OUT"
  <1>1. previous \in Int /\ stock \in Int /\ type \in MovementTypes /\ ~At(r, "new")
    <2>1. ~At(r, "new") /\ stock \in Stocks
      BY DEF UpdateMovement, At, CatalogInv, TargetsKnown
    <2>2. previous \in Int
      BY DEF CatalogInv, CatalogTypeOK, ProductRequestState
    <2>3. type \in MovementTypes
      BY DEF MovementTypes
    <2>. HIDE DEF stock, previous, type
    <2>4. stock \in Nat
      BY <2>1, CatalogAssumption
    <2>. QED BY <2>1, <2>2, <2>3, <2>4
  <1>2. RecordMovement(r, type, previous, stock) /\ UNCHANGED <<product, lock, draft>>
    BY DEF UpdateMovement
  <1>. HIDE DEF previous, stock, type
  <1>. QED BY <1>1, <1>2, RecordMovementInv
LEMMA ReadInv ==
    ASSUME RowsInv, CatalogInv, NEW r \in ProductRequests, NEW p \in Products,
           NEW pc \in {"deactivate", "reactivate", "remove"},
           productRequest' = [productRequest EXCEPT ![r] = [@ EXCEPT !.pc = pc, !.product = p]],
           UNCHANGED rowVars
    PROVE  RowsInv' /\ CatalogInv'
  <1>1. productRequest \in [ProductRequests -> ProductRequestState]
    BY DEF CatalogInv, CatalogTypeOK
  <1>2. productRequest' \in [ProductRequests -> ProductRequestState]
    BY <1>1 DEF ProductRequestState
  <1>3. TargetsKnown'
    BY <1>1 DEF CatalogInv, TargetsKnown, ProductRequestState, At, Target
  <1>. QED BY <1>2, <1>3, UnchangedRows DEF CatalogInv, CatalogTypeOK

\* A write of a live row that leaves its stock alone, or a failure.
LEMMA WriteOrFail ==
    ASSUME RowsInv, CatalogInv, NEW r \in ProductRequests, ~At(r, "new"), NEW row,
           product[Target(r)] \in Row => row \in Row /\ row.stock = product[Target(r)].stock,
           \/ WriteNow(r, Target(r), row) /\ GoTo(r, "done")
           \/ GoTo(r, "failed") /\ UNCHANGED <<product, lock, draft>>,
           UNCHANGED movements
    PROVE  RowsInv' /\ CatalogInv'
  <1>1. Target(r) \in Products /\ r \in Requests
    BY CatalogAssumption DEF CatalogInv, TargetsKnown
  <1>2. row \in Row /\ row.stock >= 0
    BY <1>1 DEF RowsInv, RowsTypeOK
  <1>3. RowsInv'
    BY <1>1, <1>2, WriteNowInv, UnchangedRows DEF rowVars
  <1>. QED BY <1>3, GoToInv

LEMMA SetActiveInv ==
    ASSUME RowsInv, CatalogInv, NEW r \in ProductRequests, SetActive(r)
    PROVE  RowsInv' /\ CatalogInv'
  <1>. DEFINE row == [product[Target(r)] EXCEPT !.active = At(r, "reactivate")]
  <1>1. product[Target(r)] \in Row => row \in Row /\ row.stock = product[Target(r)].stock
    BY DEF Row, At
  <1>2. ~At(r, "new")
    BY DEF SetActive, At
  <1>3. /\ \/ WriteNow(r, Target(r), row) /\ GoTo(r, "done")
           \/ GoTo(r, "failed") /\ UNCHANGED <<product, lock, draft>>
        /\ UNCHANGED movements
    BY DEF SetActive
  <1>. HIDE DEF row
  <1>. QED BY <1>1, <1>2, <1>3, WriteOrFail

LEMMA RemoveWriteInv ==
    ASSUME RowsInv, CatalogInv, NEW r \in ProductRequests, NEW others, RemoveWrite(r, others)
    PROVE  RowsInv' /\ CatalogInv'
  <1>. DEFINE row == [product[Target(r)] EXCEPT !.life = "deleted"]
  <1>1. product[Target(r)] \in Row => row \in Row /\ row.stock = product[Target(r)].stock
    BY DEF Row
  <1>2. ~At(r, "new")
    BY DEF RemoveWrite, At
  <1>3. /\ \/ WriteNow(r, Target(r), row) /\ GoTo(r, "done")
           \/ GoTo(r, "failed") /\ UNCHANGED <<product, lock, draft>>
        /\ UNCHANGED movements
    BY DEF RemoveWrite
  <1>. HIDE DEF row
  <1>. QED BY <1>1, <1>2, <1>3, WriteOrFail

LEMMA ProductStepInv ==
    ASSUME RowsInv, CatalogInv, NEW r \in ProductRequests, NEW others, ProductStep(r, others)
    PROVE  RowsInv' /\ CatalogInv'
  <1>1. CASE CreateMovement(r)
    <2>1. ~At(r, "new") /\ productRequest[r].previousStock \in Int
      BY <1>1 DEF CreateMovement, At, CatalogInv, CatalogTypeOK, ProductRequestState
    <2>. QED BY <1>1, <2>1, RecordMovementInv DEF CreateMovement, MovementTypes
  <1>2. CASE DeactivateRead(r) \/ ReactivateRead(r) \/ RemoveRead(r)
    <2>1. PICK pc \in {"deactivate", "reactivate", "remove"}, p \in Products :
            productRequest' = [productRequest EXCEPT ![r] = [@ EXCEPT !.pc = pc, !.product = p]]
      BY <1>2 DEF DeactivateRead, ReactivateRead, RemoveRead, Read
    <2>2. UNCHANGED rowVars
      BY <1>2 DEF DeactivateRead, ReactivateRead, RemoveRead, Read
    <2>. QED BY <2>1, <2>2, ReadInv
  <1>3. CASE UpdateConflict(r) \/ Interrupted(r)
    <2>1. ~At(r, "new") /\ GoTo(r, "failed") /\ UNCHANGED rowVars
      BY <1>3 DEF UpdateConflict, Interrupted, At
    <2>. QED BY <2>1, GoToInv, UnchangedRows
  <1>. QED
    BY <1>1, <1>2, <1>3, CreateInsertInv, UpdateReadInv, UpdateWriteInv, UpdateRereadInv,
       UpdateMovementInv, SetActiveInv, RemoveWriteInv
    DEF ProductStep

LEMMA UnchangedCatalog ==
    ASSUME CatalogInv, UNCHANGED productRequest
    PROVE  CatalogInv'
  BY DEF CatalogInv, CatalogTypeOK, TargetsKnown, At, Target
---------------------------------------------------------------------------
(* Purchase orders: creation *)

LEMMA OrderReadInv ==
    ASSUME OrdersInv, NEW o \in Orders, OrderRead(o)
    PROVE  OrdersInv'
  <1>1. orderCreate \in [Orders -> OrderCreateState]
    BY DEF OrdersInv, OrdersTypeOK
  <1>2. PICK items \in OrderLists :
          orderCreate' = [orderCreate EXCEPT ![o] = [@ EXCEPT !.pc = "begin", !.items = items]]
    BY DEF OrderRead
  <1>3. orderCreate' \in [Orders -> OrderCreateState]
    <2>1. items \in OrderItems
      BY OrdersAssumption DEF OrderItems
    <2>. QED BY <1>1, <1>2, <2>1 DEF OrderCreateState
  <1>4. OrdersTypeOK'
    BY <1>3 DEF OrderRead, OrdersInv, OrdersTypeOK
  <1>5. OrderCreatedOnce' /\ OrderNumberReserved'
    BY <1>1, <1>2
    DEF OrderRead, OrdersInv, OrderCreatedOnce, OrderNumberReserved, OrderCreateState
  <1>6. ChangesLinked' /\ ReceiptsLinked' /\ OrdersNumberedConsecutively'
    BY DEF OrderRead, OrdersInv, ChangesLinked, ReceiptsLinked, ReceiptLinesLeft,
           OrdersNumberedConsecutively
  <1>. QED BY <1>4, <1>5, <1>6 DEF OrdersInv

LEMMA OrderBeginInv ==
    ASSUME OrdersInv, NEW o \in Orders, OrderBegin(o)
    PROVE  OrdersInv'
  <1>1. orderCreate \in [Orders -> OrderCreateState] /\ orderNumber \in Nat
    BY DEF OrdersInv, OrdersTypeOK
  <1>2. orderCreate' \in [Orders -> OrderCreateState]
    BY <1>1 DEF OrderBegin, OrderCreateState
  <1>3. OrdersTypeOK'
    BY <1>2 DEF OrderBegin, OrdersInv, OrdersTypeOK
  <1>4. OrderCreatedOnce' /\ OrderNumberReserved'
    BY <1>1 DEF OrderBegin, OrdersInv, OrderCreatedOnce, OrderNumberReserved, OrderCreateState
  <1>5. ChangesLinked' /\ ReceiptsLinked' /\ OrdersNumberedConsecutively'
    BY DEF OrderBegin, OrdersInv, ChangesLinked, ReceiptsLinked, ReceiptLinesLeft,
           OrdersNumberedConsecutively
  <1>. QED BY <1>3, <1>4, <1>5 DEF OrdersInv

LEMMA OrderTakeNumberInv ==
    ASSUME OrdersInv, NEW o \in Orders, OrderTakeNumber(o)
    PROVE  OrdersInv'
  <1>1. orderCreate \in [Orders -> OrderCreateState]
    BY DEF OrdersInv, OrdersTypeOK
  <1>2. orderCreate' \in [Orders -> OrderCreateState]
    BY <1>1 DEF OrderTakeNumber, OrderCreateState
  <1>3. OrdersTypeOK'
    BY <1>2 DEF OrderTakeNumber, OrderSequence!Lock, OrdersInv, OrdersTypeOK
  <1>4. OrderCreatedOnce' /\ OrderNumberReserved'
    <2>1. \A q \in Orders : orderCreate[q].pc # "insert"
      BY OrdersAssumption
      DEF OrderTakeNumber, OrderSequence!Lock, OrdersInv, OrderNumberReserved
    <2>. QED
      BY <1>1, <2>1
      DEF OrderTakeNumber, OrderSequence!Lock, OrdersInv, OrderCreatedOnce,
          OrderNumberReserved, OrderCreateState
  <1>5. ChangesLinked' /\ ReceiptsLinked' /\ OrdersNumberedConsecutively'
    BY DEF OrderTakeNumber, OrderSequence!Lock, OrdersInv, ChangesLinked, ReceiptsLinked,
           ReceiptLinesLeft, OrdersNumberedConsecutively
  <1>. QED BY <1>3, <1>4, <1>5 DEF OrdersInv

\* Items accepted by computeItems become lines of which nothing was received.
LEMMA NewLinesType ==
    ASSUME NEW items \in OrderItems
    PROVE  NewLines(items) \in Seq(OrderLine)
  <1>1. DOMAIN items = 1..Len(items) /\ Len(items) \in Nat
    BY DEF OrderItems
  <1>2. \A k \in 1..Len(items) : items[k] \in [product : Products, quantity : Nat \ {0}]
    BY ElementOfSeq DEF OrderItems
  <1>3. \A k \in 1..Len(items) :
          [product |-> items[k].product, ordered |-> items[k].quantity, received |-> 0]
            \in OrderLine
    BY <1>2 DEF OrderLine
  <1>. QED BY <1>1, <1>3 DEF NewLines

\* The new order gets the number after the last.
LEMMA OrderCommitInv ==
    ASSUME OrdersInv, NEW o \in Orders, OrderCommit(o)
    PROVE  OrdersInv'
  <1>1. /\ orderCreate \in [Orders -> OrderCreateState]
        /\ order \in [Orders -> [status : OrderStatus, number : Nat]]
        /\ lines \in [Writers -> Seq(OrderLine)]
        /\ orderNumber \in Nat
    BY DEF OrdersInv, OrdersTypeOK
  <1>2. /\ order' = [order EXCEPT ![o] = [status |-> "DRAFT", number |-> orderNumber + 1]]
        /\ orderNumber' = orderNumber + 1
        /\ orderSeqHolder' = NoOne
        /\ orderSeqHolder = o
        /\ UNCHANGED <<orderChange, receipt>>
    BY DEF OrderCommit, OrderSequence!Commit, OrderSequence!Number, OrdersInv,
           OrderNumberReserved
  <1>3. lines' \in [Writers -> Seq(OrderLine)]
    <2>1. NewLines(orderCreate[o].items) \in Seq(OrderLine)
      BY <1>1, NewLinesType DEF OrderCreateState
    <2>2. lines' = [lines EXCEPT ![o] = NewLines(orderCreate[o].items)]
      BY DEF OrderCommit
    <2>. QED BY <1>1, <2>1, <2>2
  <1>4. orderCreate' = [orderCreate EXCEPT ![o] = [@ EXCEPT !.pc = "done", !.seen = 0]]
    BY DEF OrderCommit
  <1>5. orderCreate' \in [Orders -> OrderCreateState]
    BY <1>1, <1>4 DEF OrderCreateState
  <1>6. OrdersTypeOK'
    <2>1. order' \in [Orders -> [status : OrderStatus, number : Nat]]
      BY <1>1, <1>2 DEF OrderStatus
    <2>. QED BY <1>1, <1>2, <1>3, <1>5, <2>1 DEF OrdersInv, OrdersTypeOK
  <1>7. /\ order[o].status = "NONE"
        /\ order'[o].status # "NONE"
        /\ order'[o].number = orderNumber + 1
        /\ \A q \in Orders \ {o} : order'[q] = order[q]
    BY <1>1, <1>2 DEF OrderCommit, OrdersInv, OrderCreatedOnce
  <1>8. OrderCreatedOnce' /\ OrderNumberReserved'
    BY <1>1, <1>2, <1>4, <1>7
    DEF OrdersInv, OrderCreatedOnce, OrderNumberReserved, OrderCreateState
  <1>9. ChangesLinked' /\ ReceiptsLinked'
    BY <1>2, <1>7 DEF OrdersInv, ChangesLinked, ReceiptsLinked, ReceiptLinesLeft
  <1>10. OrdersNumberedConsecutively'
    <2>1. \A q \in Orders : order[q].number \in 0..orderNumber
      BY <1>1 DEF OrdersInv, OrderCreatedOnce, OrdersNumberedConsecutively
    <2>2. {q \in Orders : order'[q].status # "NONE"} =
          {q \in Orders : order[q].status # "NONE"} \cup {o}
      BY <1>7
    <2>3. {order'[q].number : q \in {x \in Orders : order'[x].status # "NONE"}} =
          {order[q].number : q \in {x \in Orders : order[x].status # "NONE"}}
            \cup {orderNumber + 1}
      BY <1>7, <2>2
    <2>4. 1..orderNumber \cup {orderNumber + 1} = 1..(orderNumber + 1)
      BY <1>1
    <2>5. {order'[q].number : q \in {x \in Orders : order'[x].status # "NONE"}} =
          1..orderNumber'
      BY <1>2, <2>3, <2>4 DEF OrdersInv, OrdersNumberedConsecutively
    <2>6. ASSUME NEW p \in Orders, NEW q \in Orders,
                 order'[p].number = order'[q].number, order'[p].number # 0
          PROVE  p = q
      BY <1>1, <1>7, <2>1, <2>6 DEF OrdersInv, OrdersNumberedConsecutively
    <2>. QED BY <2>5, <2>6 DEF OrdersNumberedConsecutively
  <1>. QED BY <1>6, <1>8, <1>9, <1>10 DEF OrdersInv

LEMMA OrderAbortInv ==
    ASSUME OrdersInv, NEW o \in Orders, OrderAbort(o)
    PROVE  OrdersInv'
  <1>1. orderCreate \in [Orders -> OrderCreateState]
    BY DEF OrdersInv, OrdersTypeOK
  <1>2. orderCreate' \in [Orders -> OrderCreateState]
    BY <1>1 DEF OrderAbort, OrderCreateState
  <1>3. OrdersTypeOK'
    BY <1>2 DEF OrderAbort, OrderSequence!Rollback, OrdersInv, OrdersTypeOK
  <1>4. OrderCreatedOnce' /\ OrderNumberReserved'
    BY <1>1
    DEF OrderAbort, OrderSequence!Rollback, OrdersInv, OrderCreatedOnce, OrderNumberReserved,
        OrderCreateState
  <1>5. ChangesLinked' /\ ReceiptsLinked' /\ OrdersNumberedConsecutively'
    BY DEF OrderAbort, OrderSequence!Rollback, OrdersInv, ChangesLinked, ReceiptsLinked,
           ReceiptLinesLeft, OrdersNumberedConsecutively
  <1>. QED BY <1>3, <1>4, <1>5 DEF OrdersInv
---------------------------------------------------------------------------
(* Purchase orders: changes *)

\* What creation established stays true while only the status of an order changes.
LEMMA UnchangedOrders ==
    ASSUME OrdersInv, UNCHANGED <<orderCreate, orderNumber, orderSeqHolder>>,
           NEW o, NEW status \in OrderStatus \ {"NONE"},
           \/ UNCHANGED order
           \/ /\ o \in Orders
              /\ order[o].status # "NONE"
              /\ order' = [order EXCEPT ![o].status = status]
    PROVE  /\ order' \in [Orders -> [status : OrderStatus, number : Nat]]
           /\ \A q \in Orders : order'[q].status = "NONE" <=> order[q].status = "NONE"
           /\ OrderCreatedOnce' /\ OrderNumberReserved' /\ OrdersNumberedConsecutively'
  <1>1. order \in [Orders -> [status : OrderStatus, number : Nat]]
    BY DEF OrdersInv, OrdersTypeOK
  <1>2. order' \in [Orders -> [status : OrderStatus, number : Nat]]
    BY <1>1
  <1>3. \A q \in Orders : /\ order'[q].status = "NONE" <=> order[q].status = "NONE"
                          /\ order'[q].number = order[q].number
    BY <1>1
  <1>4. OrderCreatedOnce' /\ OrderNumberReserved'
    BY <1>3 DEF OrdersInv, OrderCreatedOnce, OrderNumberReserved
  <1>5. OrdersNumberedConsecutively'
    <2>1. {q \in Orders : order'[q].status # "NONE"} = {q \in Orders : order[q].status # "NONE"}
      BY <1>3
    <2>2. {order'[q].number : q \in {x \in Orders : order'[x].status # "NONE"}} =
          {order[q].number : q \in {x \in Orders : order[x].status # "NONE"}}
      BY <1>3, <2>1
    <2>. QED BY <1>3, <2>2 DEF OrdersInv, OrdersNumberedConsecutively
  <1>. QED BY <1>2, <1>3, <1>4, <1>5

LEMMA ChangeReadInv ==
    ASSUME OrdersInv, NEW x \in OrderChanges, ChangeRead(x)
    PROVE  OrdersInv'
  <1>1. orderChange \in [OrderChanges -> OrderChangeState]
    BY DEF OrdersInv, OrdersTypeOK
  <1>2. PICK o \in Orders :
          \/ /\ Editable(o)
             /\ \E items \in OrderLists :
                  orderChange' = [orderChange EXCEPT
                     ![x] = [@ EXCEPT !.pc = "delete", !.order = o, !.items = items]]
          \/ /\ Confirmable(o)
             /\ orderChange' = [orderChange EXCEPT ![x] = [@ EXCEPT !.pc = "confirm", !.order = o]]
          \/ /\ Cancellable(o)
             /\ orderChange' = [orderChange EXCEPT ![x] = [@ EXCEPT !.pc = "cancel", !.order = o]]
    BY DEF ChangeRead
  <1>3. order[o].status # "NONE"
    BY <1>2 DEF Editable, Confirmable, Cancellable
  <1>4. orderChange' \in [OrderChanges -> OrderChangeState]
    <2>1. ASSUME NEW items \in OrderLists,
                 orderChange' = [orderChange EXCEPT
                   ![x] = [@ EXCEPT !.pc = "delete", !.order = o, !.items = items]]
          PROVE  orderChange' \in [OrderChanges -> OrderChangeState]
      <3>1. items \in OrderItems
        BY OrdersAssumption DEF OrderItems
      <3>. QED BY <1>1, <2>1, <3>1 DEF OrderChangeState
    <2>2. ASSUME NEW pc \in {"confirm", "cancel"},
                 orderChange' = [orderChange EXCEPT ![x] = [@ EXCEPT !.pc = pc, !.order = o]]
          PROVE  orderChange' \in [OrderChanges -> OrderChangeState]
      BY <1>1, <2>2 DEF OrderChangeState
    <2>. QED BY <1>2, <2>1, <2>2
  <1>5. OrdersTypeOK'
    BY <1>4 DEF ChangeRead, OrdersInv, OrdersTypeOK
  <1>6. ChangesLinked'
    <2>1. orderChange'[x].order = o
      BY <1>1, <1>2 DEF OrderChangeState
    <2>2. \A y \in OrderChanges \ {x} : orderChange'[y] = orderChange[y]
      BY <1>1, <1>2
    <2>. QED BY <1>3, <2>1, <2>2 DEF ChangeRead, OrdersInv, ChangesLinked
  <1>7. OrderCreatedOnce' /\ OrderNumberReserved' /\ OrdersNumberedConsecutively'
    <2>1. UNCHANGED <<order, orderCreate, orderNumber, orderSeqHolder>>
      BY DEF ChangeRead
    <2>2. "DRAFT" \in OrderStatus \ {"NONE"}
      BY DEF OrderStatus
    <2>. QED BY <2>1, <2>2, UnchangedOrders
  <1>8. ReceiptsLinked'
    BY DEF ChangeRead, OrdersInv, ReceiptsLinked, ReceiptLinesLeft
  <1>. QED BY <1>5, <1>6, <1>7, <1>8 DEF OrdersInv

LEMMA EditDeleteInv ==
    ASSUME OrdersInv, NEW x \in OrderChanges, EditDelete(x)
    PROVE  OrdersInv'
  <1>. DEFINE doomed == {w \in WritersOf(orderChange[x].order) : lines[w] # <<>>}
  <1>1. orderChange \in [OrderChanges -> OrderChangeState]
    BY DEF OrdersInv, OrdersTypeOK
  <1>2. doomed \in SUBSET Writers
    BY DEF EditDelete, OrdersInv, ChangesLinked, WritersOf, Writers
  <1>3. orderChange' = [orderChange EXCEPT ![x] = [@ EXCEPT !.pc = "insert", !.doomed = doomed]]
    BY DEF EditDelete
  <1>. HIDE DEF doomed
  <1>4. orderChange' \in [OrderChanges -> OrderChangeState]
    BY <1>1, <1>2, <1>3 DEF OrderChangeState
  <1>5. OrdersTypeOK'
    BY <1>4 DEF EditDelete, OrdersInv, OrdersTypeOK
  <1>6. ChangesLinked'
    BY <1>1, <1>3 DEF EditDelete, OrdersInv, ChangesLinked, OrderChangeState
  <1>7. OrderCreatedOnce' /\ OrderNumberReserved' /\ OrdersNumberedConsecutively'
    BY UnchangedOrders DEF EditDelete, OrderStatus
  <1>8. ReceiptsLinked'
    BY DEF EditDelete, OrdersInv, ReceiptsLinked, ReceiptLinesLeft
  <1>. QED BY <1>5, <1>6, <1>7, <1>8 DEF OrdersInv

LEMMA EditCommitInv ==
    ASSUME OrdersInv, NEW x \in OrderChanges, EditCommit(x)
    PROVE  OrdersInv'
  <1>1. /\ orderChange \in [OrderChanges -> OrderChangeState]
        /\ lines \in [Writers -> Seq(OrderLine)]
    BY DEF OrdersInv, OrdersTypeOK
  <1>2. orderChange' \in [OrderChanges -> OrderChangeState]
    BY <1>1 DEF EditCommit, OrderChangeState
  <1>3. lines' \in [Writers -> Seq(OrderLine)]
    <2>1. NewLines(orderChange[x].items) \in Seq(OrderLine)
      BY <1>1, NewLinesType DEF OrderChangeState
    <2>2. <<>> \in Seq(OrderLine)
      OBVIOUS
    <2>. QED BY <1>1, <2>1, <2>2 DEF EditCommit
  <1>4. OrdersTypeOK'
    BY <1>2, <1>3 DEF EditCommit, OrdersInv, OrdersTypeOK
  <1>5. ChangesLinked'
    BY <1>1 DEF EditCommit, OrdersInv, ChangesLinked, OrderChangeState
  <1>6. OrderCreatedOnce' /\ OrderNumberReserved' /\ OrdersNumberedConsecutively'
    BY UnchangedOrders DEF EditCommit, OrderStatus
  <1>7. ReceiptsLinked'
    BY DEF EditCommit, OrdersInv, ReceiptsLinked, ReceiptLinesLeft
  <1>. QED BY <1>4, <1>5, <1>6, <1>7 DEF OrdersInv

LEMMA EditAbortInv ==
    ASSUME OrdersInv, NEW x \in OrderChanges, EditAbort(x)
    PROVE  OrdersInv'
  <1>1. orderChange \in [OrderChanges -> OrderChangeState]
    BY DEF OrdersInv, OrdersTypeOK
  <1>2. orderChange' \in [OrderChanges -> OrderChangeState]
    BY <1>1 DEF EditAbort, OrderChangeState
  <1>3. OrdersTypeOK'
    BY <1>2 DEF EditAbort, OrdersInv, OrdersTypeOK
  <1>4. ChangesLinked'
    BY <1>1 DEF EditAbort, OrdersInv, ChangesLinked, OrderChangeState
  <1>5. OrderCreatedOnce' /\ OrderNumberReserved' /\ OrdersNumberedConsecutively'
    BY UnchangedOrders DEF EditAbort, OrderStatus
  <1>6. ReceiptsLinked'
    BY DEF EditAbort, OrdersInv, ReceiptsLinked, ReceiptLinesLeft
  <1>. QED BY <1>3, <1>4, <1>5, <1>6 DEF OrdersInv

LEMMA ChangeStatusInv ==
    ASSUME OrdersInv, NEW x \in OrderChanges, ChangeStatus(x)
    PROVE  OrdersInv'
  <1>. DEFINE o == orderChange[x].order
              status == IF orderChange[x].pc = "confirm" THEN "PENDING" ELSE "CANCELLED"
  <1>1. orderChange \in [OrderChanges -> OrderChangeState]
    BY DEF OrdersInv, OrdersTypeOK
  <1>2. orderChange' \in [OrderChanges -> OrderChangeState]
    BY <1>1 DEF ChangeStatus, OrderChangeState
  <1>3. /\ order' \in [Orders -> [status : OrderStatus, number : Nat]]
        /\ \A q \in Orders : order'[q].status = "NONE" <=> order[q].status = "NONE"
        /\ OrderCreatedOnce' /\ OrderNumberReserved' /\ OrdersNumberedConsecutively'
    <2>1. o \in Orders /\ order[o].status # "NONE" /\ status \in OrderStatus \ {"NONE"}
      BY DEF ChangeStatus, OrdersInv, ChangesLinked, OrderStatus
    <2>2. /\ order' = [order EXCEPT ![o].status = status]
          /\ UNCHANGED <<orderCreate, orderNumber, orderSeqHolder>>
      BY DEF ChangeStatus
    <2>. HIDE DEF o, status
    <2>. QED BY <2>1, <2>2, UnchangedOrders
  <1>4. OrdersTypeOK'
    BY <1>2, <1>3 DEF ChangeStatus, OrdersInv, OrdersTypeOK
  <1>5. ChangesLinked'
    BY <1>1, <1>3 DEF ChangeStatus, OrdersInv, ChangesLinked, OrderChangeState
  <1>6. ReceiptsLinked'
    BY <1>3 DEF ChangeStatus, OrdersInv, ReceiptsLinked, ReceiptLinesLeft
  <1>. QED BY <1>3, <1>4, <1>5, <1>6 DEF OrdersInv
---------------------------------------------------------------------------
(* Purchase orders: receipts *)

\* A receipt that goes on while orders and lines stay as they are.
LEMMA ReceiptMoves ==
    ASSUME OrdersInv, NEW r \in Receipts, NEW next \in ReceiptState,
           next.pc \in {"item", "product", "write", "status"} =>
               next.order \in Orders /\ order[next.order].status # "NONE",
           next.pc \in {"product", "write"} => next.line <= Len(next.items),
           next.pc = "status" => next.status # "NONE",
           receipt' = [receipt EXCEPT ![r] = next],
           UNCHANGED <<order, lines, orderNumber, orderSeqHolder, orderCreate, orderChange>>
    PROVE  OrdersInv'
  <1>1. receipt \in [Receipts -> ReceiptState]
    BY DEF OrdersInv, OrdersTypeOK
  <1>2. receipt' \in [Receipts -> ReceiptState]
    BY <1>1
  <1>3. receipt'[r] = next /\ \A q \in Receipts \ {r} : receipt'[q] = receipt[q]
    BY <1>1
  <1>4. OrdersTypeOK'
    BY <1>2 DEF OrdersInv, OrdersTypeOK
  <1>5. ReceiptsLinked'
    BY <1>3 DEF OrdersInv, ReceiptsLinked, ReceiptLinesLeft
  <1>6. /\ OrderCreatedOnce' /\ OrderNumberReserved' /\ ChangesLinked'
        /\ OrdersNumberedConsecutively'
    BY DEF OrdersInv, OrderCreatedOnce, OrderNumberReserved, ChangesLinked,
           OrdersNumberedConsecutively
  <1>. QED BY <1>4, <1>5, <1>6 DEF OrdersInv

\* The line a receipt is at names an item of the order, of an existing product id.
LEMMA ReceivedLine ==
    ASSUME OrdersInv, NEW r \in Receipts, ReceiptLinesLeft(r), ItemExists(Received(r).item)
    PROVE  /\ Received(r).quantity \in Nat \ {0}
           /\ ItemRow(Received(r).item).product \in Products
  <1>1. /\ receipt[r].items \in Seq(ReceiptLine)
        /\ receipt[r].line \in Nat \ {0}
        /\ lines \in [Writers -> Seq(OrderLine)]
    BY DEF OrdersInv, OrdersTypeOK, ReceiptState
  <1>2. Received(r) \in ReceiptLine
    <2>1. receipt[r].line \in 1..Len(receipt[r].items)
      BY <1>1 DEF ReceiptLinesLeft
    <2>. QED BY <1>1, <2>1, ElementOfSeq DEF Received
  <1>. DEFINE i == Received(r).item
  <1>3. Received(r).quantity \in Nat \ {0} /\ i \in Writers \X (Nat \ {0})
    BY <1>2 DEF ReceiptLine
  <1>. HIDE DEF i
  <1>4. lines[i[1]] \in Seq(OrderLine)
    BY <1>1, <1>3
  <1>5. lines[i[1]][i[2]] \in OrderLine
    <2>1. i[2] \in 1..Len(lines[i[1]])
      BY <1>4 DEF ItemExists, i
    <2>. QED BY <1>4, <2>1, ElementOfSeq
  <1>. QED BY <1>3, <1>5 DEF ItemRow, OrderLine, i

LEMMA ReceiptListsType ==
    ASSUME OrdersInv, NEW o \in Orders, NEW list \in ReceiptLists(o)
    PROVE  list \in Seq(ReceiptLine)
  <1>1. \A w \in Writers : lines[w] \in Seq(OrderLine)
    BY DEF OrdersInv, OrdersTypeOK
  <1>2. \A i \in ItemsOf(o) : i \in Writers \X (Nat \ {0})
    <2>1. WritersOf(o) \subseteq Writers
      BY DEF WritersOf, Writers
    <2>2. \A w \in Writers : DOMAIN lines[w] \subseteq Nat \ {0}
      BY <1>1
    <2>. QED BY <2>1, <2>2 DEF ItemsOf
  <1>3. Receivable(o) \subseteq ReceiptLine
    BY <1>2 DEF Receivable, ReceiptLine
  <1>4. PICK n \in 1..MaxReceiptLines : list \in [1..n -> Receivable(o)]
    BY DEF ReceiptLists
  <1>5. list \in [1..n -> ReceiptLine] /\ n \in Nat
    BY <1>3, <1>4, OrdersAssumption
  <1>. QED BY <1>5

LEMMA ReceiveReadInv ==
    ASSUME OrdersInv, NEW r \in Receipts, ReceiveRead(r)
    PROVE  OrdersInv'
  <1>0. PICK o \in Orders :
          /\ order[o].status \in {"PENDING", "PARTIAL_RECEIVED"}
          /\ \E list \in ReceiptLists(o) :
               receipt' = [receipt EXCEPT
                 ![r] = [@ EXCEPT !.pc = "item", !.order = o, !.items = list]]
    BY DEF ReceiveRead, MayReceive
  <1>1. PICK list \in ReceiptLists(o) :
          receipt' = [receipt EXCEPT
            ![r] = [@ EXCEPT !.pc = "item", !.order = o, !.items = list]]
    BY <1>0
  <1>. DEFINE next == [receipt[r] EXCEPT !.pc = "item", !.order = o, !.items = list]
  <1>2. receipt[r] \in ReceiptState /\ list \in Seq(ReceiptLine)
    BY ReceiptListsType DEF OrdersInv, OrdersTypeOK
  <1>3. next \in ReceiptState /\ next.pc = "item" /\ next.order = o
    BY <1>2 DEF ReceiptState
  <1>4. receipt' = [receipt EXCEPT ![r] = next]
    BY <1>1
  <1>. HIDE DEF next
  <1>. QED BY <1>0, <1>3, <1>4, ReceiptMoves DEF ReceiveRead

LEMMA ReceiveItemInv ==
    ASSUME OrdersInv, NEW r \in Receipts, ReceiveItem(r)
    PROVE  OrdersInv'
  <1>. DEFINE next == [receipt[r] EXCEPT !.pc = "product"]
  <1>1. receipt[r] \in ReceiptState
    BY DEF OrdersInv, OrdersTypeOK
  <1>2. /\ next \in ReceiptState
        /\ next.pc = "product"
        /\ next.order = receipt[r].order
        /\ next.line = receipt[r].line
        /\ next.items = receipt[r].items
    BY <1>1 DEF ReceiptState
  <1>3. receipt' = [receipt EXCEPT ![r] = next]
    BY DEF ReceiveItem
  <1>4. /\ receipt[r].order \in Orders
        /\ order[receipt[r].order].status # "NONE"
        /\ receipt[r].line <= Len(receipt[r].items)
    BY DEF ReceiveItem, ReceiptLinesLeft, OrdersInv, ReceiptsLinked
  <1>. HIDE DEF next
  <1>. QED BY <1>2, <1>3, <1>4, ReceiptMoves DEF ReceiveItem

LEMMA ReceiveProductInv ==
    ASSUME RowsInv, OrdersInv, NEW r \in Receipts, ReceiveProduct(r)
    PROVE  OrdersInv'
  <1>. DEFINE row == Visible(r, ItemRow(Received(r).item).product)
              next == [receipt[r] EXCEPT !.pc = "write", !.version = row.version,
                                         !.previousStock = row.stock]
  <1>1. receipt[r] \in ReceiptState
    BY DEF OrdersInv, OrdersTypeOK
  <1>2. /\ receipt[r].order \in Orders
        /\ order[receipt[r].order].status # "NONE"
        /\ ReceiptLinesLeft(r)
    BY DEF ReceiveProduct, OrdersInv, ReceiptsLinked
  <1>3. row.version \in Nat /\ row.stock \in Int
    BY <1>2, ReceivedLine, VisibleRow DEF ReceiveProduct, Row
  <1>4. receipt' = [receipt EXCEPT ![r] = next]
    BY DEF ReceiveProduct
  <1>. HIDE DEF row
  <1>5. /\ next \in ReceiptState
        /\ next.pc = "write"
        /\ next.order = receipt[r].order
        /\ next.line = receipt[r].line
        /\ next.items = receipt[r].items
    BY <1>1, <1>3 DEF ReceiptState
  <1>. HIDE DEF next
  <1>. QED BY <1>2, <1>4, <1>5, ReceiptMoves DEF ReceiveProduct, ReceiptLinesLeft
\* A receipt only adds to the stock.
LEMMA ReceiveWriteInv ==
    ASSUME RowsInv, OrdersInv, NEW r \in Receipts, ReceiveWrite(r)
    PROVE  RowsInv' /\ OrdersInv'
  <1>. DEFINE p == ItemRow(Received(r).item).product
              quantity == Received(r).quantity
              previous == receipt[r].previousStock
              row == Visible(r, p)
              moved == [by |-> r, line |-> receipt[r].line, product |-> p, type |-> "PURCHASE",
                        quantity |-> quantity, previousStock |-> previous,
                        newStock |-> previous + quantity, sale |-> NoOne]
              next == [receipt[r] EXCEPT !.pc = "item",
                                         !.line = receipt[r].line + 1,
                                         !.log = receipt[r].log \cup {moved}]
  <1>1. /\ receipt[r] \in ReceiptState
        /\ previous \in Int
        /\ receipt[r].line \in Nat \ {0}
        /\ r \in Requests
    BY OrdersAssumption DEF OrdersInv, OrdersTypeOK, ReceiptState
  <1>2. /\ receipt[r].order \in Orders
        /\ order[receipt[r].order].status # "NONE"
        /\ ReceiptLinesLeft(r)
    BY DEF ReceiveWrite, OrdersInv, ReceiptsLinked
  <1>3. p \in Products /\ quantity \in Nat \ {0}
    BY <1>2, ReceivedLine DEF ReceiveWrite
  <1>4. Stage(r, p, Restocked(r, row)) /\ UNCHANGED <<product, movements>>
    BY DEF ReceiveWrite
  <1>5. receipt' = [receipt EXCEPT ![r] = next]
    BY DEF ReceiveWrite
  <1>6. RowsInv'
    <2>1. row \in Row /\ row.stock >= 0
      BY <1>3, VisibleRow
    <2>. HIDE DEF row
    <2>2. /\ row.stock + Received(r).quantity \in Int
          /\ row.stock + Received(r).quantity >= 0
          /\ row.version + 1 \in Nat
      BY <1>3, <2>1 DEF Row
    <2>3. Restocked(r, row) \in Row /\ Restocked(r, row).stock >= 0
      BY <2>1, <2>2 DEF Restocked, Row
    <2>. QED BY <1>1, <1>3, <1>4, <2>3, StageInv
  <1>7. OrdersInv'
    <2>1. moved \in Movement
      BY <1>1, <1>3 DEF Movement, MovementTypes
    <2>. HIDE DEF moved
    <2>2. receipt[r].line + 1 \in Nat \ {0} /\ receipt[r].log \cup {moved} \in SUBSET Movement
      BY <1>1, <2>1 DEF ReceiptState
    <2>3. next \in ReceiptState /\ next.pc = "item" /\ next.order = receipt[r].order
      BY <1>1, <2>2 DEF ReceiptState
    <2>. HIDE DEF next
    <2>. QED BY <1>2, <1>5, <2>3, ReceiptMoves DEF ReceiveWrite
  <1>. QED BY <1>6, <1>7

LEMMA ReceiveRefreshInv ==
    ASSUME OrdersInv, NEW r \in Receipts, ReceiveRefresh(r)
    PROVE  OrdersInv'
  <1>. DEFINE allReceived == \A i \in ItemsOf(receipt[r].order) : Adds(r, i) >= Pending(i)
              status == IF allReceived THEN "RECEIVED" ELSE "PARTIAL_RECEIVED"
              next == [receipt[r] EXCEPT !.pc = "status", !.status = status]
  <1>1. receipt[r] \in ReceiptState
    BY DEF OrdersInv, OrdersTypeOK
  <1>2. receipt[r].order \in Orders /\ order[receipt[r].order].status # "NONE"
    BY DEF ReceiveRefresh, OrdersInv, ReceiptsLinked
  <1>3. receipt' = [receipt EXCEPT ![r] = next]
    BY DEF ReceiveRefresh
  <1>4. status \in OrderStatus \ {"NONE"}
    BY DEF OrderStatus
  <1>. HIDE DEF status
  <1>5. /\ next \in ReceiptState
        /\ next.pc = "status"
        /\ next.order = receipt[r].order
        /\ next.status = status
    BY <1>1, <1>4 DEF ReceiptState
  <1>6. UNCHANGED <<order, lines, orderNumber, orderSeqHolder, orderCreate, orderChange>>
    BY DEF ReceiveRefresh
  <1>. HIDE DEF next
  <1>7. next.status # "NONE"
    BY <1>4, <1>5
  <1>. QED BY <1>2, <1>3, <1>5, <1>6, <1>7, ReceiptMoves

LEMMA AddsType ==
    ASSUME OrdersInv, NEW r \in Receipts, NEW i
    PROVE  Adds(r, i) \in Nat
  <1>1. receipt[r].items \in Seq(ReceiptLine)
    BY DEF OrdersInv, OrdersTypeOK, ReceiptState
  <1>. DEFINE items == receipt[r].items
              k == CHOOSE k \in DOMAIN items : items[k].item = i
  <1>2. ASSUME NEW n \in DOMAIN items
        PROVE  items[n].quantity \in Nat
    <2>1. n \in 1..Len(items)
      BY <1>1
    <2>. HIDE DEF items
    <2>2. items[n] \in ReceiptLine
      BY <1>1, <2>1, ElementOfSeq DEF items
    <2>. QED BY <2>2 DEF ReceiptLine
  <1>3. CASE \E n \in DOMAIN items : items[n].item = i
    <2>1. k \in DOMAIN items
      BY <1>3
    <2>2. Adds(r, i) = items[k].quantity
      BY <1>3 DEF Adds
    <2>. HIDE DEF items, k
    <2>. QED BY <1>2, <2>1, <2>2
  <1>4. CASE ~ \E n \in DOMAIN items : items[n].item = i
    BY <1>4 DEF Adds
  <1>. QED BY <1>3, <1>4

LEMMA ReceiveCommitInv ==
    ASSUME RowsInv, OrdersInv, NEW r \in Receipts, ReceiveCommit(r)
    PROVE  RowsInv' /\ OrdersInv'
  <1>1. /\ receipt \in [Receipts -> ReceiptState]
        /\ lines \in [Writers -> Seq(OrderLine)]
        /\ r \in Requests
    BY OrdersAssumption DEF OrdersInv, OrdersTypeOK
  <1>2. RowsInv'
    <2>1. movements' \subseteq Movement
      BY <1>1 DEF ReceiveCommit, RowsInv, RowsTypeOK, ReceiptState
    <2>. QED BY <1>1, <2>1, CommitRowsInv DEF ReceiveCommit
  <1>3. receipt' \in [Receipts -> ReceiptState]
    BY <1>1 DEF ReceiveCommit, ReceiptState
  <1>4. lines' \in [Writers -> Seq(OrderLine)]
    <2>1. ASSUME NEW w \in Writers
          PROVE  lines'[w] \in Seq(OrderLine)
      <3>. DEFINE increased(k) ==
                    [lines[w][k] EXCEPT !.received = lines[w][k].received + Adds(r, <<w, k>>)]
      <3>1. lines[w] \in Seq(OrderLine)
        BY <1>1
      <3>2. lines'[w] = [k \in 1..Len(lines[w]) |-> increased(k)]
        BY <3>1 DEF ReceiveCommit
      <3>3. ASSUME NEW k \in 1..Len(lines[w])
            PROVE  increased(k) \in OrderLine
        <4>1. lines[w][k] \in OrderLine
          BY <3>1, ElementOfSeq
        <4>2. Adds(r, <<w, k>>) \in Nat
          BY AddsType
        <4>. QED BY <4>1, <4>2 DEF OrderLine
      <3>. HIDE DEF increased
      <3>. QED BY <3>1, <3>2, <3>3
    <2>2. lines' = [w \in Writers |-> lines'[w]]
      BY DEF ReceiveCommit
    <2>. QED BY <2>1, <2>2
  <1>5. /\ order' \in [Orders -> [status : OrderStatus, number : Nat]]
        /\ \A q \in Orders : order'[q].status = "NONE" <=> order[q].status = "NONE"
        /\ OrderCreatedOnce' /\ OrderNumberReserved' /\ OrdersNumberedConsecutively'
    <2>. DEFINE o == receipt[r].order
                status == receipt[r].status
    <2>1. o \in Orders /\ order[o].status # "NONE" /\ status \in OrderStatus \ {"NONE"}
      <3>1. status \in OrderStatus
        BY <1>1 DEF ReceiptState
      <3>. QED BY <3>1 DEF ReceiveCommit, OrdersInv, ReceiptsLinked
    <2>2. /\ order' = [order EXCEPT ![o].status = status]
          /\ UNCHANGED <<orderCreate, orderNumber, orderSeqHolder>>
      BY DEF ReceiveCommit
    <2>. HIDE DEF o, status
    <2>. QED BY <2>1, <2>2, UnchangedOrders
  <1>6. OrdersTypeOK'
    BY <1>3, <1>4, <1>5 DEF ReceiveCommit, OrdersInv, OrdersTypeOK
  <1>7. ChangesLinked'
    BY <1>5 DEF ReceiveCommit, OrdersInv, ChangesLinked
  <1>8. ReceiptsLinked'
    BY <1>1, <1>5
    DEF ReceiveCommit, OrdersInv, ReceiptsLinked, ReceiptLinesLeft, ReceiptState
  <1>. QED BY <1>2, <1>5, <1>6, <1>7, <1>8 DEF OrdersInv

LEMMA ReceiveAbortInv ==
    ASSUME RowsInv, OrdersInv, NEW r \in Receipts, ReceiveAbort(r)
    PROVE  RowsInv' /\ OrdersInv'
  <1>. DEFINE next == [receipt[r] EXCEPT !.pc = "failed", !.log = {}]
  <1>1. receipt[r] \in ReceiptState /\ r \in Requests
    BY OrdersAssumption DEF OrdersInv, OrdersTypeOK
  <1>2. RowsInv'
    BY <1>1, RollbackRowsInv DEF ReceiveAbort
  <1>3. next \in ReceiptState /\ next.pc = "failed"
    BY <1>1 DEF ReceiptState
  <1>4. receipt' = [receipt EXCEPT ![r] = next]
    BY DEF ReceiveAbort
  <1>. HIDE DEF next
  <1>. QED BY <1>2, <1>3, <1>4, ReceiptMoves DEF ReceiveAbort

LEMMA PurchaseInv ==
    ASSUME RowsInv, OrdersInv, OrdersNext
    PROVE  RowsInv' /\ OrdersInv'
  <1>1. ASSUME NEW o \in Orders, OrderStep(o)
        PROVE  RowsInv' /\ OrdersInv'
    <2>1. UNCHANGED rowVars
      BY <1>1 DEF OrderStep, OrderRead, OrderBegin, OrderTakeNumber, OrderCommit, OrderAbort
    <2>2. OrdersInv'
      BY <1>1, OrderReadInv, OrderBeginInv, OrderTakeNumberInv, OrderCommitInv, OrderAbortInv
      DEF OrderStep
    <2>. QED BY <2>1, <2>2, UnchangedRows
  <1>2. ASSUME NEW x \in OrderChanges, ChangeStep(x)
        PROVE  RowsInv' /\ OrdersInv'
    <2>1. UNCHANGED rowVars
      BY <1>2 DEF ChangeStep, ChangeRead, EditDelete, EditCommit, EditAbort, ChangeStatus
    <2>2. OrdersInv'
      BY <1>2, ChangeReadInv, EditDeleteInv, EditCommitInv, EditAbortInv, ChangeStatusInv
      DEF ChangeStep
    <2>. QED BY <2>1, <2>2, UnchangedRows
  <1>3. ASSUME NEW r \in Receipts, ReceiptStep(r)
        PROVE  RowsInv' /\ OrdersInv'
    <2>1. CASE ReceiveRead(r) \/ ReceiveItem(r) \/ ReceiveProduct(r) \/ ReceiveRefresh(r)
      <3>1. UNCHANGED rowVars
        BY <2>1 DEF ReceiveRead, ReceiveItem, ReceiveProduct, ReceiveRefresh
      <3>. QED
        BY <2>1, <3>1, UnchangedRows, ReceiveReadInv, ReceiveItemInv, ReceiveProductInv,
           ReceiveRefreshInv
    <2>. QED
      BY <1>3, <2>1, ReceiveWriteInv, ReceiveCommitInv, ReceiveAbortInv DEF ReceiptStep
  <1>. QED BY <1>1, <1>2, <1>3 DEF OrdersNext

LEMMA UnchangedPurchases ==
    ASSUME OrdersInv, UNCHANGED orderVars
    PROVE  OrdersInv'
  BY DEF orderVars, OrdersInv, OrdersTypeOK, OrderCreatedOnce, OrderNumberReserved,
         ChangesLinked, ReceiptsLinked, ReceiptLinesLeft, OrdersNumberedConsecutively

---------------------------------------------------------------------------
(* The whole *)

IInv == RowsInv /\ SalesInv /\ CatalogInv /\ OrdersInv

LEMMA InitIInv == Init => IInv
  <1>. SUFFICES ASSUME Init PROVE IInv
    OBVIOUS
  <1>1. RowsInv
    <2>1. \A p \in Products : OpeningRow(p) \in Row /\ OpeningRow(p).stock >= 0
      BY InventoryAssumption DEF OpeningRow, Row
    <2>2. \A p \in DOMAIN OpeningStock : OpeningMovement(p) \in Movement
      BY InventoryAssumption DEF OpeningMovement, Movement, MovementTypes
    <2>. QED BY <2>1, <2>2 DEF Init, RowsInv, RowsTypeOK
  <1>2. SalesInv
    <2>1. <<>> \in Items /\ NoSnapshot \in [Products -> Requests \cup {NoOne}]
      BY DEF Items, NoSnapshot
    <2>2. SalesTypeOK
      BY <2>1
      DEF Init, SalesInit, SalesTypeOK, NoSale, SaleRow, SaleStatus, CheckoutState, SaleUpdateState
    <2>3. \A c \in Checkouts : ~Committed(c)
      BY DEF Init, SalesInit, NoSale, Committed
    <2>4. CommittedOnce /\ UpdatesLinked /\ NumberReserved
      BY <2>3 DEF Init, SalesInit, CommittedOnce, UpdatesLinked, NumberReserved
    <2>5. SalesNumberedConsecutively
      BY <2>3 DEF Init, SalesInit, SalesNumberedConsecutively
    <2>. QED BY <2>2, <2>4, <2>5 DEF SalesInv
  <1>3. CatalogInv
    BY DEF Init, CatalogInit, CatalogInv, CatalogTypeOK, TargetsKnown, ProductRequestState, Dto,
           At
  <1>4. OrdersInv
    <2>1. <<>> \in OrderItems /\ <<>> \in Seq(ReceiptLine) /\ <<>> \in Seq(OrderLine)
      BY DEF OrderItems
    <2>2. OrdersTypeOK
      BY <2>1
      DEF Init, OrdersInit, OrdersTypeOK, OrderStatus, OrderCreateState, OrderChangeState,
          ReceiptState
    <2>3. OrderCreatedOnce /\ OrderNumberReserved /\ ChangesLinked /\ ReceiptsLinked
      BY DEF Init, OrdersInit, OrderCreatedOnce, OrderNumberReserved, ChangesLinked,
             ReceiptsLinked
    <2>4. OrdersNumberedConsecutively
      BY DEF Init, OrdersInit, OrdersNumberedConsecutively
    <2>. QED BY <2>2, <2>3, <2>4 DEF OrdersInv
  <1>. QED BY <1>1, <1>2, <1>3, <1>4 DEF IInv

LEMMA NextIInv == IInv /\ [Next]_vars => IInv'
  <1>. SUFFICES ASSUME IInv, [Next]_vars PROVE IInv'
    OBVIOUS
  <1>1. CASE Sell
    BY <1>1, SellInv, UnchangedCatalog, UnchangedPurchases DEF Sell, IInv, orderVars
  <1>2. ASSUME NEW r \in ProductRequests, Maintain(r)
        PROVE  IInv'
    BY <1>2, ProductStepInv, UnchangedSales, UnchangedPurchases DEF Maintain, IInv
  <1>3. CASE Purchase
    BY <1>3, PurchaseInv, UnchangedSales, UnchangedCatalog DEF Purchase, IInv
  <1>4. CASE UNCHANGED vars
    BY <1>4, UnchangedRows, UnchangedSales, UnchangedCatalog, UnchangedPurchases DEF vars, IInv
  <1>. QED BY <1>1, <1>2, <1>3, <1>4 DEF Next

LEMMA SpecIInv == Spec => []IInv
  BY InitIInv, NextIInv, PTL DEF Spec

\* Every variable keeps its type: no statement of the services writes a row, a
\* movement or a request's progress of another shape.
THEOREM TypeCorrect == Spec => []TypeOK
  <1>1. IInv => TypeOK
    BY DEF IInv, RowsInv, SalesInv, CatalogInv, CatalogTypeOK, OrdersInv, TypeOK
  <1>. QED BY <1>1, SpecIInv, PTL

\* No interleaving of checkouts, cancellations, catalog requests and receipts
\* leaves a product with negative stock (sales.service.ts:216).
THEOREM StockSafe == Spec => []StockNonNegative
  <1>1. IInv => StockNonNegative
    BY DEF IInv, RowsInv, StockNonNegative
  <1>. QED BY <1>1, SpecIInv, PTL

\* Committed sales are numbered 1, 2, ... without gap or duplicate
\* (sequence.service.ts:10-47, sales.service.ts:177).
THEOREM SalesNumbered == Spec => []SalesNumberedConsecutively
  <1>1. IInv => SalesNumberedConsecutively
    BY DEF IInv, SalesInv
  <1>. QED BY <1>1, SpecIInv, PTL

\* Committed purchase orders are numbered like sales (purchase-orders.service.ts:153).
THEOREM OrdersNumbered == Spec => []OrdersNumberedConsecutively
  <1>1. IInv => OrdersNumberedConsecutively
    BY DEF IInv, OrdersInv
  <1>. QED BY <1>1, SpecIInv, PTL
=============================================================================
