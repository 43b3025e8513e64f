\* Two cancellations of one sale.
SPECIFICATION Spec
CONSTANTS
    p1 = p1
    p2 = p2
    p3 = p3
    NoOne = NoOne
    Keep = Keep
    Requests <- MCRequests
    MaxReceiptLines = 2
    Carts <- MCSmallCarts
    OpeningStock <- MCSmallOpening
    OrderLists <- MCSmallOrderLists
    Products = {p1}
    Checkouts = {c1}
    SaleUpdates = {u1, u2}
    ProductRequests = {}
    Stocks = {}
    Orders = {}
    OrderChanges = {}
    Receipts = {}
SYMMETRY MCSymmetry
INVARIANTS
    ReturnedAtMostOnce
\* Every request may have ended.
CHECK_DEADLOCK FALSE
