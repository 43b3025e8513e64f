------------------------------- MODULE Sales -------------------------------
(***************************************************************************)
(* SalesService.create and SalesService.update of the backend, with the    *)
(* numbering of SequenceService, for one organization.                     *)
(*                                                                         *)
(* A checkout (POST /sales) checks its products before its transaction     *)
(* opens, then runs one Serializable transaction: it locks the sequence    *)
(* row, subtracts each item's quantity from the stock, and commits the     *)
(* sale with its movements.  A Serializable transaction works on the       *)
(* snapshot its first statement took: it fails when it would write a row   *)
(* committed by somebody else since.  A sale update (PUT /sales/:id)       *)
(* checks the sale before its transaction opens; a cancellation then gives *)
(* the stock back in a Read Committed transaction.                         *)
(*                                                                         *)
(* Prices, taxes and payments only decide whether a checkout is accepted   *)
(* before it touches the database: Carts holds accepted carts.  A          *)
(* transaction may end in rollback at any time (a timeout, a deadlock, a   *)
(* serialization failure, a missing sequence row, insufficient stock).     *)
(***************************************************************************)
EXTENDS ProductRows, Sequences

CONSTANTS
    Checkouts,      \* POST /sales requests; each creates at most one sale
    SaleUpdates,    \* PUT /sales/:id requests
    Carts           \* the item lists checkouts may carry

ASSUME SalesAssumption ==
    /\ Checkouts \subseteq Requests
    /\ SaleUpdates \subseteq Requests
    /\ Checkouts \cap SaleUpdates = {}
    /\ Carts \subseteq Seq([product : Products, quantity : Nat \ {0}]) \ {<<>>}

VARIABLES
    sale,           \* the committed sales, by the checkout that created them
    currentNumber,  \* the committed counter of the SALE sequence row
    seqHolder,      \* the checkout whose transaction locked that row, or NoOne
    checkout,       \* progress of each POST /sales
    saleUpdate      \* progress of each PUT /sales/:id

SaleSequence == INSTANCE SequenceRow WITH current <- currentNumber, holder <- seqHolder

saleVars == <<sale, currentNumber, seqHolder, checkout, saleUpdate>>

NoSale == [status |-> "NONE", number |-> 0, items |-> <<>>]
Committed(s) == sale[s].status # "NONE"

SaleMovement(by, line, p, type, quantity, previousStock, s) ==
    [by |-> by, line |-> line, product |-> p, type |-> type, quantity |-> quantity,
     previousStock |-> previousStock, newStock |-> previousStock + quantity, sale |-> s]

NoSnapshot == [p \in Products |-> NoOne]

SalesInit ==
    /\ sale = [c \in Checkouts |-> NoSale]
    /\ currentNumber = 0
    /\ seqHolder = NoOne
    /\ checkout = [c \in Checkouts |->
         [pc |-> "new", items |-> <<>>, line |-> 1, seen |-> 0, log |-> {},
          snapshot |-> NoSnapshot]]
    /\ saleUpdate = [u \in SaleUpdates |->
         [pc |-> "new", sale |-> NoOne, line |-> 1, previousStock |-> 0, log |-> {}]]

---------------------------------------------------------------------------
(* POST /sales *)

Item(c) == checkout[c].items[checkout[c].line]
\* Mutant: the loop over the items stops one early.
ItemsLeftButOne(c) == checkout[c].line < Len(checkout[c].items)
ItemsLeft(c) == checkout[c].line <= Len(checkout[c].items)

\* Before the transaction: every product must exist and be active.  A request
\* refused here changes nothing.
CheckoutRead(c) ==
    /\ checkout[c].pc = "new"
    /\ \E items \in Carts :
         /\ \A i \in DOMAIN items : ReadActive(items[i].product)
         /\ checkout' = [checkout EXCEPT ![c] = [@ EXCEPT !.items = items, !.pc = "begin"]]
    /\ UNCHANGED <<rowVars, sale, currentNumber, seqHolder, saleUpdate>>

\* The transaction's first statement takes its snapshot; it may then have to
\* wait for the lock of the sequence row.
CheckoutBegin(c) ==
    /\ checkout[c].pc = "begin"
    /\ checkout' = [checkout EXCEPT ![c] =
           [@ EXCEPT !.pc = "number",
                     !.seen = currentNumber,
                     !.snapshot = [p \in Products |-> product[p].writer]]]
    /\ UNCHANGED <<rowVars, sale, currentNumber, seqHolder, saleUpdate>>

\* nextNumber: SELECT ... FOR UPDATE, refused when the row changed since the snapshot.
NextNumber(c) ==
    /\ checkout[c].pc = "number"
    /\ SaleSequence!Lock(c, checkout[c].seen)
    /\ checkout' = [checkout EXCEPT ![c].pc = "items"]
    /\ UNCHANGED <<rowVars, sale, saleUpdate>>

\* The row of the item's product is the one of the snapshot, or its own write.
Unchanged(c, p) == Visible(c, p).writer \in {checkout[c].snapshot[p], c}

\* Mutants: the update does not ask for the stock, or for an active product.
SellableUnchecked(c, p, quantity) == Live(p) /\ Visible(c, p).active
SellableInactive(c, p, quantity) == Live(p) /\ Visible(c, p).stock >= quantity

\* product.updateMany({ id, active: true, stock: { gte } }) matches the row.
Sellable(c, p, quantity) ==
    /\ Live(p)
    /\ Visible(c, p).active
    /\ Visible(c, p).stock >= quantity

\* One item: the sale item, the guarded decrement and the SALE movement.
CheckoutItem(c) ==
    /\ checkout[c].pc = "items"
    /\ ItemsLeft(c)
    /\ LET p == Item(c).product
           quantity == Item(c).quantity
           row == Visible(c, p)
       IN /\ Unchanged(c, p)
          /\ Sellable(c, p, quantity)
          /\ Stage(c, p, [row EXCEPT !.stock = row.stock - quantity])
          /\ checkout' = [checkout EXCEPT ![c] =
                 [@ EXCEPT !.line = checkout[c].line + 1,
                           !.log = checkout[c].log \cup
                                   {SaleMovement(c, checkout[c].line, p, "SALE",
                                                -quantity, row.stock, c)}]]
    /\ UNCHANGED <<product, movements, sale, currentNumber, seqHolder, saleUpdate>>

CheckoutCommit(c) ==
    /\ checkout[c].pc = "items"
    /\ ~ItemsLeft(c)
    /\ CommitRows(c)
    /\ movements' = movements \cup checkout[c].log
    /\ sale' = [sale EXCEPT ![c] =
           [status |-> "COMPLETED", number |-> SaleSequence!Number(checkout[c].seen),
            items |-> checkout[c].items]]
    /\ SaleSequence!Commit(checkout[c].seen)
    /\ checkout' = [checkout EXCEPT ![c] =
           [@ EXCEPT !.pc = "done", !.seen = 0, !.snapshot = NoSnapshot]]
    /\ UNCHANGED saleUpdate

CheckoutFails(c) ==
    checkout' = [checkout EXCEPT ![c] =
        [@ EXCEPT !.pc = "failed", !.log = {}, !.seen = 0, !.snapshot = NoSnapshot]]

\* Mutant: the lock on the sequence row is not released on rollback.
CheckoutAbortKeepsLock(c) ==
    /\ checkout[c].pc = "items"
    /\ RollbackRows(c)
    /\ CheckoutFails(c)
    /\ UNCHANGED <<movements, sale, currentNumber, seqHolder, saleUpdate>>

\* Conflict, 40001, P2028 or a lost connection: nothing the transaction wrote remains.
CheckoutAbort(c) ==
    /\ checkout[c].pc \in {"begin", "number", "items"}
    /\ RollbackRows(c)
    /\ SaleSequence!Rollback(c)
    /\ CheckoutFails(c)
    /\ UNCHANGED <<movements, sale, saleUpdate>>

---------------------------------------------------------------------------
(* PUT /sales/:id *)

Returned(u) == sale[saleUpdate[u].sale].items[saleUpdate[u].line]
\* Mutant: the loop over the items stops one early.
ReturnsLeftButOne(u) == saleUpdate[u].line < Len(sale[saleUpdate[u].sale].items)
ReturnsLeft(u) == saleUpdate[u].line <= Len(sale[saleUpdate[u].sale].items)

\* Outside the transaction: only a COMPLETED sale may be updated.
SaleUpdateRead(u) ==
    /\ saleUpdate[u].pc = "new"
    /\ \E s \in Checkouts, next \in {"cancel", "return"} :
         /\ sale[s].status = "COMPLETED"
         /\ saleUpdate' = [saleUpdate EXCEPT ![u] = [@ EXCEPT !.sale = s, !.pc = next]]
    /\ UNCHANGED <<rowVars, sale, currentNumber, seqHolder, checkout>>

\* status CANCELLED, one item: the product is read.  The product of a sale
\* item exists: its foreign key keeps the row.
CancelReadItem(u) ==
    /\ saleUpdate[u].pc = "cancel"
    /\ ReturnsLeft(u)
    /\ saleUpdate' = [saleUpdate EXCEPT ![u] =
           [@ EXCEPT !.pc = "write",
                     !.previousStock = Visible(u, Returned(u).product).stock]]
    /\ UNCHANGED <<rowVars, sale, currentNumber, seqHolder, checkout>>

\* ... and its stock overwritten with the value read plus the quantity.
CancelWriteItem(u) ==
    /\ saleUpdate[u].pc = "write"
    /\ LET p == Returned(u).product
           quantity == Returned(u).quantity
           previous == saleUpdate[u].previousStock
       IN /\ Stage(u, p, [Visible(u, p) EXCEPT !.stock = previous + quantity])
          /\ saleUpdate' = [saleUpdate EXCEPT ![u] =
                 [@ EXCEPT !.pc = "cancel",
                           !.line = saleUpdate[u].line + 1,
                           !.log = saleUpdate[u].log \cup
                                   {SaleMovement(u, saleUpdate[u].line, p, "RETURN",
                                                quantity, previous, saleUpdate[u].sale)}]]
    /\ UNCHANGED <<product, movements, sale, currentNumber, seqHolder, checkout>>

CancelCommit(u) ==
    /\ saleUpdate[u].pc = "cancel"
    /\ ~ReturnsLeft(u)
    /\ CommitRows(u)
    /\ movements' = movements \cup saleUpdate[u].log
    /\ sale' = [sale EXCEPT ![saleUpdate[u].sale].status = "CANCELLED"]
    /\ saleUpdate' = [saleUpdate EXCEPT ![u].pc = "done"]
    /\ UNCHANGED <<currentNumber, seqHolder, checkout>>

CancelAbort(u) ==
    /\ saleUpdate[u].pc \in {"cancel", "write"}
    /\ RollbackRows(u)
    /\ saleUpdate' = [saleUpdate EXCEPT ![u] = [@ EXCEPT !.pc = "failed", !.log = {}]]
    /\ UNCHANGED <<movements, sale, currentNumber, seqHolder, checkout>>

\* Mutant: the update writes the status it read back.
ReturnNothing(u) ==
    /\ saleUpdate[u].pc = "return"
    /\ sale' = [sale EXCEPT ![saleUpdate[u].sale].status = "COMPLETED"]
    /\ saleUpdate' = [saleUpdate EXCEPT ![u].pc = "done"]
    /\ UNCHANGED <<rowVars, currentNumber, seqHolder, checkout>>

\* status RETURNED_PARTIAL: the status alone is written.
ReturnPartial(u) ==
    /\ saleUpdate[u].pc = "return"
    /\ sale' = [sale EXCEPT ![saleUpdate[u].sale].status = "RETURNED_PARTIAL"]
    /\ saleUpdate' = [saleUpdate EXCEPT ![u].pc = "done"]
    /\ UNCHANGED <<rowVars, currentNumber, seqHolder, checkout>>

---------------------------------------------------------------------------
CheckoutStep(c) ==
    \/ CheckoutRead(c)
    \/ CheckoutBegin(c)
    \/ NextNumber(c)
    \/ CheckoutItem(c)
    \/ CheckoutCommit(c)
    \/ CheckoutAbort(c)

SaleUpdateStep(u) ==
    \/ SaleUpdateRead(u)
    \/ CancelReadItem(u)
    \/ CancelWriteItem(u)
    \/ CancelCommit(u)
    \/ CancelAbort(u)
    \/ ReturnPartial(u)

SalesNext == \/ \E c \in Checkouts : CheckoutStep(c)
             \/ \E u \in SaleUpdates : SaleUpdateStep(u)

---------------------------------------------------------------------------
SaleStatus == {"NONE", "COMPLETED", "CANCELLED", "RETURNED_PARTIAL"}

Items == Seq([product : Products, quantity : Nat \ {0}])

SaleRow == [status : SaleStatus, number : Nat, items : Items]

CheckoutState ==
    [pc : {"new", "begin", "number", "items", "done", "failed"}, items : Items,
     line : Nat \ {0}, seen : Nat, log : SUBSET Movement,
     snapshot : [Products -> Requests \cup {NoOne}]]

SaleUpdateState ==
    [pc : {"new", "cancel", "write", "return", "done", "failed"},
     sale : Checkouts \cup {NoOne}, line : Nat \ {0}, previousStock : Int,
     log : SUBSET Movement]

SalesTypeOK ==
    /\ sale \in [Checkouts -> SaleRow]
    /\ currentNumber \in Nat
    /\ seqHolder \in Checkouts \cup {NoOne}
    /\ checkout \in [Checkouts -> CheckoutState]
    /\ saleUpdate \in [SaleUpdates -> SaleUpdateState]
=============================================================================
