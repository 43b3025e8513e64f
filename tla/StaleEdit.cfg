\* An edit of the stock around a checkout.
SPECIFICATION Spec
CONSTANTS
    p1 = p1
    p2 = p2
    p3 = p3
    NoOne = NoOne
    Keep = Keep
    Requests <- MCRequests
    MaxReceiptLines = 2
    Carts <- MCSmallCarts
    OpeningStock <- MCSmallOpening
    OrderLists <- MCSmallOrderLists
    Products = {p1}
    Checkouts = {c1}
    SaleUpdates = {}
    ProductRequests = {e1}
    Stocks = {3}
    Orders = {}
    OrderChanges = {}
    Receipts = {}
SYMMETRY MCSymmetry
PROPERTIES
    EditSeesCurrentStock
\* Every request may have ended.
CHECK_DEADLOCK FALSE
