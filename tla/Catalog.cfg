\* One checkout and a cancellation against two catalog requests, which may also
\* create and remove the product p3.
SPECIFICATION Spec
CONSTANTS
    p1 = p1
    p2 = p2
    p3 = p3
    NoOne = NoOne
    Keep = Keep
    Requests <- MCRequests
    MaxReceiptLines = 2
    Carts <- MCSmallCarts
    OpeningStock <- MCSmallOpening
    OrderLists <- MCSmallOrderLists
    Products = {p1, p3}
    Checkouts = {c1}
    SaleUpdates = {u1}
    ProductRequests = {e1, e2}
    Stocks = {0, 3}
    Orders = {}
    OrderChanges = {}
    Receipts = {}
SYMMETRY MCSymmetry
INVARIANTS
    StockNonNegative
    OneWritePerVersion
    ReferencedProductsLive
PROPERTIES
    SoldWhileActive
\* Every request may have ended.
CHECK_DEADLOCK FALSE
