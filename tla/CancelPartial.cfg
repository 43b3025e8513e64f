\* A cancellation around a receipt of one order.
SPECIFICATION Spec
CONSTANTS
    p1 = p1
    p2 = p2
    p3 = p3
    NoOne = NoOne
    Keep = Keep
    Requests <- MCRequests
    MaxReceiptLines = 2
    Carts <- MCSmallCarts
    OpeningStock <- MCSmallOpening
    OrderLists <- MCSmallOrderLists
    Products = {p1}
    Checkouts = {}
    SaleUpdates = {}
    ProductRequests = {}
    Stocks = {}
    Orders = {o1}
    OrderChanges = {x1, x2}
    Receipts = {r1}
SYMMETRY MCSymmetry
PROPERTIES
    PartialNeverCancelled
\* Every request may have ended.
CHECK_DEADLOCK FALSE
