---------------------------- MODULE MCInventory ----------------------------
(* Small instances of InventoryLedger: which requests run is set by each cfg.    *)
EXTENDS InventoryLedger, TLC

CONSTANTS p1, p2, p3

Line(p, q) == [product |-> p, quantity |-> q]

\* One product or the other, and both in either order.
MCCarts ==
    {<<Line(p1, 2)>>, <<Line(p2, 1)>>, <<Line(p1, 1), Line(p2, 1)>>, <<Line(p2, 1), Line(p1, 1)>>}
\* One product only.
MCSmallCarts == {<<Line(p1, 2)>>, <<Line(p1, 1)>>, <<Line(p1, 1), Line(p1, 1)>>}
MCSmallOpening == p1 :> 3
MCSmallOrderLists == {<<Line(p1, 2)>>}
MCOpening == (p1 :> 3) @@ (p2 :> 1)
MCOrderLists == {<<Line(p1, 2)>>, <<Line(p1, 1), Line(p2, 1)>>}
MCRequests == Checkouts \cup SaleUpdates \cup ProductRequests \cup Receipts
MCSymmetry == Permutations(Checkouts) \cup Permutations(SaleUpdates)
                \cup Permutations(ProductRequests) \cup Permutations(Orders)
                \cup Permutations(OrderChanges) \cup Permutations(Receipts)

\* Five requests of two orders, changes and receipts alone, or one of each, the receipt of
\* one item, among checkouts and product requests.
Begun(requests) == {r \in DOMAIN requests : requests[r].pc # "new"}
PurchasesBegun ==
    Cardinality(Begun(orderCreate)) + Cardinality(Begun(orderChange)) + Cardinality(Begun(receipt))
Narrow ==
    \/ Begun(checkout) = {} /\ Begun(productRequest) = {} /\ PurchasesBegun <= 5
    \/ /\ \A requests \in {orderCreate, orderChange, receipt} : Cardinality(Begun(requests)) <= 1
       /\ \A r \in Receipts : Len(receipt[r].items) <= 1
=============================================================================
