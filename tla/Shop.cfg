\* Three requests to each service, two tabs, tills, organizations
\* and accounts next to the owner, a file of two rows.
INIT MCInit
NEXT MCNext
CONSTANTS
    Services = {"browser", "members", "registers", "till", "reports", "imports"}
    MCRequests = {r1, r2, r3}
    MCPair = {a1, a2}
    MCOtherPair = {b1, b2}
    SessionRequests = {r1, r2, r3}
    FirstOrg = "first"
    OtherOrg = "other"
    NoPair = none
    Tabs = {a1, a2}
    MemberRequests = {r1, r2, r3}
    Accounts <- MCAccounts
    Owner = owner
    Firms = {b1, b2}
    RegisterRequests = {r1, r2, r3}
    Opening = opening
    RegisterNames = {"n1", "n2"}
    OpeningName = "n1"
    Limit = 1
    Lines = {a1, a2}
    Tills = {b1, b2}
    Checkouts = {"c1", "c2"}
    NoCheckout = "none"
    ReportSales = {a1, a2}
    Cancellations = {"cancel"}
    ReportReads = {"read"}
    LastTick = 2
    FileRows = 2
    ImportRetries = {a1, a2}
    SkuKeys = {"k"}
    Spellings = {b1, b2}
SYMMETRY MCSymmetry
INVARIANTS
    ShopTypeOK
    ExchangedOnce
    RevocationEndsSessions
    CookieUsable
    OrganizationsGoverned
    LinesReachOneSale
    DashboardShowsSales
    PeriodsMeet
    TallyAddsUp
    KeysUniqueUnlessOverlapped
PROPERTIES
    RegistersOrdered
    ClosedDaysStayBooked
    KeepsPromise
\* Every request may have ended.
CHECK_DEADLOCK FALSE
