\* Any five of two purchase orders, two changes and two receipts; or one of each, the receipt of
\* one item, a checkout and an edit without stock.
INIT Init
NEXT Next
CONSTRAINT Narrow
CONSTANTS
    p1 = p1
    p2 = p2
    p3 = p3
    NoOne = NoOne
    Keep = Keep
    Requests <- MCRequests
    MaxReceiptLines = 2
    Carts <- MCSmallCarts
    OpeningStock <- MCOpening
    OrderLists <- MCOrderLists
    Products = {p1, p2}
    Checkouts = {c1}
    SaleUpdates = {}
    ProductRequests = {e1}
    Stocks = {}
    Orders = {o1, o2}
    OrderChanges = {x1, x2}
    Receipts = {r1, r2}
SYMMETRY MCSymmetry
INVARIANTS
    TypeOK
    LedgerExact
    OneWritePerVersion
    OrdersNumberedConsecutively
    OrdersAddUp
\* Every request may have ended.
CHECK_DEADLOCK FALSE
