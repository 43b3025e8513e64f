----------------------------- MODULE Inventory -----------------------------
(***************************************************************************)
(* The sales, the catalog and the purchase orders of one organization      *)
(* working on the same product rows: what holds of them together.          *)
(***************************************************************************)
EXTENDS Sales, Catalog, PurchaseOrders

CONSTANT OpeningStock   \* the products that exist at first, with their stock

ASSUME InventoryAssumption ==
    /\ ProductRequests \cap (Checkouts \cup SaleUpdates) = {}
    /\ Receipts \cap (Checkouts \cup SaleUpdates \cup ProductRequests) = {}
    /\ DOMAIN OpeningStock \subseteq Products
    /\ \A p \in DOMAIN OpeningStock : OpeningStock[p] \in Nat

vars == <<rowVars, saleVars, productRequest, orderVars>>

OpeningRow(p) ==
    IF p \in DOMAIN OpeningStock
    THEN [life |-> "live", stock |-> OpeningStock[p], version |-> 0, active |-> TRUE,
          writer |-> NoOne]
    ELSE [life |-> "absent", stock |-> 0, version |-> 0, active |-> FALSE, writer |-> NoOne]

OpeningMovement(p) ==
    [by |-> NoOne, line |-> 1, product |-> p, type |-> "PURCHASE",
     quantity |-> OpeningStock[p], previousStock |-> 0, newStock |-> OpeningStock[p],
     sale |-> NoOne]

Init ==
    /\ product = [p \in Products |-> OpeningRow(p)]
    /\ draft = [p \in Products |-> OpeningRow(p)]
    /\ lock = [p \in Products |-> NoOne]
    /\ movements = {OpeningMovement(p) : p \in DOMAIN OpeningStock}
    /\ SalesInit
    /\ CatalogInit
    /\ OrdersInit

\* The products the items of purchase orders refer to.  Sale items are
\* committed with their movements, which refer to the same products.
OrderedProducts == UNION {{lines[w][k].product : k \in DOMAIN lines[w]} : w \in Writers}

Sell == SalesNext /\ UNCHANGED <<productRequest, orderVars>>
Maintain(r) == ProductStep(r, OrderedProducts) /\ UNCHANGED <<saleVars, orderVars>>
Purchase == OrdersNext /\ UNCHANGED <<saleVars, productRequest>>

Next == Sell \/ (\E r \in ProductRequests : Maintain(r)) \/ Purchase

Spec == Init /\ [][Next]_vars

\* Node runs every request it accepted, and Prisma ends every transaction: a
\* request waiting for a lock either gets it or is rolled back.
Fairness ==
    /\ \A c \in Checkouts : WF_vars(CheckoutStep(c) /\ UNCHANGED <<productRequest, orderVars>>)
    /\ \A u \in SaleUpdates : WF_vars(SaleUpdateStep(u) /\ UNCHANGED <<productRequest, orderVars>>)
    /\ \A r \in ProductRequests : WF_vars(Maintain(r))
    /\ \A o \in Orders : WF_vars(OrderStep(o) /\ UNCHANGED <<saleVars, productRequest>>)
    /\ \A x \in OrderChanges : WF_vars(ChangeStep(x) /\ UNCHANGED <<saleVars, productRequest>>)
    /\ \A r \in Receipts : WF_vars(ReceiptStep(r) /\ UNCHANGED <<saleVars, productRequest>>)

FairSpec == Spec /\ Fairness

---------------------------------------------------------------------------
TypeOK == RowsTypeOK /\ SalesTypeOK /\ CatalogTypeOK /\ OrdersTypeOK

\* No interleaving of checkouts, cancellations and edits sells a unit the
\* stock does not have: sales.service.ts:216 decrements under "stock >= quantity".
StockNonNegative == \A p \in Products : product[p].stock >= 0

\* Committed sales are numbered 1, 2, ... without gap or duplicate, whatever
\* transactions rolled back in between (sequence.service.ts, sales.service.ts:177).
SalesNumberedConsecutively ==
    /\ {sale[c].number : c \in {s \in Checkouts : Committed(s)}} = 1..currentNumber
    /\ \A c, d \in Checkouts :
         Committed(c) /\ Committed(d) /\ sale[c].number = sale[d].number => c = d

\* The movements of type t that refer to sale s.
MovementsOf(s, t) == {m \in movements : m.sale = s /\ m.type = t}

\* Each cancellation that gave units of a sale back gave back all of them, and
\* the sale is no longer COMPLETED (sales.service.ts:476-520).
ReturnsWholeSale ==
    \A c \in Checkouts, u \in SaleUpdates :
        LET given == {m \in MovementsOf(c, "RETURN") : m.by = u}
        IN given # {} =>
             /\ {<<m.line, m.product, m.quantity>> : m \in given} =
                {<<i, sale[c].items[i].product, sale[c].items[i].quantity>> :
                    i \in DOMAIN sale[c].items}
             /\ sale[c].status # "COMPLETED"

\* The version-checked writes that succeeded: who, on which product, from which
\* version.  Of a receipt with several lines, the last one.
GuardedWrites ==
    {<<r, Target(r), productRequest[r].version>> :
        r \in {q \in ProductRequests : productRequest[q].wrote}} \cup
    UNION {{<<r, m.product, receipt[r].version>> :
              m \in {n \in receipt[r].log : n.line = Len(receipt[r].items)}} :
           r \in {q \in Receipts : receipt[q].pc = "done"}}

\* Two edits of a product, or an edit and a receipt of its goods, never both
\* succeed from one version: the second gets a conflict
\* (products.service.ts:243-255, purchase-orders.service.ts:491-500).
OneWritePerVersion ==
    \A a, b \in GuardedWrites : a # b /\ a[2] = b[2] => a[3] # b[3]

\* A product that a committed sale or a movement names is never deleted, even
\* by a removal that started before (products.service.ts:317-331).
ReferencedProductsLive ==
    /\ \A m \in movements : Live(m.product)
    /\ \A c \in Checkouts : \A i \in DOMAIN sale[c].items : Live(sale[c].items[i].product)

\* A sale that commits takes products that are active at that moment, although
\* the checkout looked at them before its transaction (sales.service.ts:107,219).
SoldWhileActive ==
    [][\A c \in Checkouts : ~Committed(c) /\ Committed(c)' =>
          \A i \in DOMAIN sale'[c].items : product[sale'[c].items[i].product].active]_vars

\* A sale never goes back to COMPLETED, and keeps its number and items for ever
\* (plan-multi-tenant-completo.md: a cancelled sale keeps its number).
SalesArePermanent ==
    [][\A c \in Checkouts : Committed(c) =>
          /\ sale'[c].number = sale[c].number
          /\ sale'[c].items = sale[c].items
          /\ sale[c].status # "COMPLETED" => sale'[c].status # "COMPLETED"
          /\ sale'[c].status # "NONE"]_vars

\* Purchase orders are numbered like sales (purchase-orders.service.ts:153).
OrdersNumberedConsecutively ==
    /\ {order[o].number : o \in {x \in Orders : order[x].status # "NONE"}} = 1..orderNumber
    /\ \A o, q \in Orders :
         order[o].number = order[q].number /\ order[o].number # 0 => o = q

\* An order never loses all its items, although every edit deletes them before
\* it inserts the new ones, edits overlap, and each may fail in between
\* (purchase-orders.service.ts:332-360).
OrdersKeepItems == \A o \in Orders : order[o].status # "NONE" => ItemsOf(o) # {}

\* Every request is answered: no request waits for ever on a row lock, the
\* sequence row or a deadlock (transaction timeouts, sales.service.ts:275-279).
EveryRequestEnds ==
    /\ \A c \in Checkouts : checkout[c].pc # "new" ~> checkout[c].pc \in {"done", "failed"}
    /\ \A u \in SaleUpdates : saleUpdate[u].pc # "new" ~> saleUpdate[u].pc \in {"done", "failed"}
    /\ \A r \in ProductRequests : ~At(r, "new") ~> (At(r, "done") \/ At(r, "failed"))
    /\ \A o \in Orders :
         orderCreate[o].pc # "new" ~> orderCreate[o].pc \in {"done", "failed"}
    /\ \A x \in OrderChanges :
         orderChange[x].pc # "new" ~> orderChange[x].pc \in {"done", "failed"}
    /\ \A r \in Receipts : receipt[r].pc # "new" ~> receipt[r].pc \in {"done", "failed"}
=============================================================================
