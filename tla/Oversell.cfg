\* Three checkouts around one cancellation.
SPECIFICATION Spec
CONSTANTS
    p1 = p1
    p2 = p2
    p3 = p3
    NoOne = NoOne
    Keep = Keep
    Requests <- MCRequests
    MaxReceiptLines = 2
    Carts <- MCSmallCarts
    OpeningStock <- MCSmallOpening
    OrderLists <- MCSmallOrderLists
    Products = {p1}
    Checkouts = {c1, c2, c3}
    SaleUpdates = {u1}
    ProductRequests = {}
    Stocks = {}
    Orders = {}
    OrderChanges = {}
    Receipts = {}
SYMMETRY MCSymmetry
INVARIANTS
    NeverSellsMoreThanItHad
\* Every request may have ended.
CHECK_DEADLOCK FALSE
