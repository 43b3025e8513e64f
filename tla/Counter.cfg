\* Two checkouts and two sale updates on two products, under fairness.
SPECIFICATION FairSpec
CONSTANTS
    p1 = p1
    p2 = p2
    p3 = p3
    NoOne = NoOne
    Keep = Keep
    Requests <- MCRequests
    MaxReceiptLines = 2
    Carts <- MCCarts
    OpeningStock <- MCOpening
    OrderLists <- MCOrderLists
    Products = {p1, p2}
    Checkouts = {c1, c2}
    SaleUpdates = {u1, u2}
    ProductRequests = {}
    Stocks = {}
    Orders = {}
    OrderChanges = {}
    Receipts = {}
INVARIANTS
    SalesNumberedConsecutively
    ReturnsWholeSale
PROPERTIES
    SalesArePermanent
    ImplementsSaleBook
    EveryRequestEnds
\* Every request may have ended.
CHECK_DEADLOCK FALSE
