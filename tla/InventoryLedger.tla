-------------------------- MODULE InventoryLedger --------------------------
(***************************************************************************)
(* What the quantities of Inventory add up to: the stock and the movements *)
(* of a product, the receipts of an order item, the units sold.            *)
(***************************************************************************)
EXTENDS Inventory, FiniteSetsExt

Units(set) == MapThenSumSet(LAMBDA m : m.quantity, set)

\* The stock of a product is the sum of its movements ("Movimientos de
\* inventario: Auditoria de cada cambio de stock", guia-maestra-proyecto.md:464).
\* It holds while checkouts, receipts, deactivations and edits that carry no
\* stock run; cancellations and edits of the stock are the other runs' subject.
LedgerExact ==
    \A p \in Products : Live(p) => product[p].stock = Units({m \in movements : m.product = p})

\* What an order item says was received is what its receipts put in the stock
\* (purchase-orders.service.ts:491-536).
ReceiptsAddUp ==
    \A o \in Orders : \A i \in ItemsOf(o) :
        ItemRow(i).received =
            Units({m \in movements : /\ m.by \in Receipts
                                     /\ receipt[m.by].items[m.line].item = i})

\* An order that was edited, confirmed or received keeps its items, and what
\* they say was received.
OrdersAddUp == OrdersKeepItems /\ ReceiptsAddUp

\* "prevent over-receiving purchase order items": no item gets more than was ordered.
NeverOverReceived ==
    \A o \in Orders : \A i \in ItemsOf(o) : ItemRow(i).received <= ItemRow(i).ordered

\* "Una OC en PARTIAL_RECEIVED NO se puede cancelar": no order goes from
\* partially received to cancelled.
PartialNeverCancelled ==
    [][\A o \in Orders :
          order[o].status = "PARTIAL_RECEIVED" => order'[o].status # "CANCELLED"]_vars

\* The units of p in the sales that stand.
Sold(p) ==
    MapThenSumSet(
        LAMBDA c : MapThenSumSet(LAMBDA i : sale[c].items[i].quantity,
                                 {i \in DOMAIN sale[c].items : sale[c].items[i].product = p}),
        {c \in Checkouts : sale[c].status = "COMPLETED"})

\* "nunca vendamos productos que no tenemos": the sales that stand never hold
\* more units than the shop had, when nothing is received or adjusted.
NeverSellsMoreThanItHad ==
    \A p \in DOMAIN OpeningStock : Sold(p) <= OpeningStock[p]

\* "Only completed sales can be updated": one cancellation gives the units of a sale back.
ReturnedAtMostOnce ==
    \A c \in Checkouts : \A m, n \in MovementsOf(c, "RETURN") : m.by = n.by

\* "validamos que la version ... coincida con la de la BD": an edit that sets
\* the stock only succeeds if the stock is still the one it read.
EditSeesCurrentStock ==
    [][\A r \in ProductRequests :
          /\ ~productRequest[r].wrote
          /\ productRequest'[r].wrote
          /\ productRequest[r].dto.stock # Keep
          => product[Target(r)].stock = productRequest[r].previousStock]_vars

---------------------------------------------------------------------------
\* The abstract book: the items of each committed sale, by number.
Book == INSTANCE SaleBook WITH
    book <- [n \in 1..currentNumber |->
                sale[CHOOSE c \in Checkouts : Committed(c) /\ sale[c].number = n].items],
    stock <- [p \in Products |-> product[p].stock]

\* Every step of the services is a sale of the book, another movement of the
\* stock, or invisible: a checkout's many statements take effect as one event.
ImplementsSaleBook == Book!BookSpec
=============================================================================
