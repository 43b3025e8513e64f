\* Three requests of one browser, in two tabs.
INIT MCInit
NEXT MCNext
CONSTANTS
    Services = {"browser"}
    MCRequests = {r1, r2, r3}
    MCPair = {a1, a2}
    MCOtherPair = {b1, b2}
    SessionRequests = {r1, r2, r3}
    FirstOrg = "first"
    OtherOrg = "other"
    NoPair = none
    Tabs = {a1, a2}
    MemberRequests = {r1, r2, r3}
    Accounts <- MCAccounts
    Owner = owner
    Firms = {b1, b2}
    RegisterRequests = {r1, r2, r3}
    Opening = opening
    RegisterNames = {"n1", "n2"}
    OpeningName = "n1"
    Limit = 1
    Lines = {a1, a2}
    Tills = {b1, b2}
    Checkouts = {"c1", "c2"}
    NoCheckout = "none"
    ReportSales = {a1, a2}
    Cancellations = {"cancel"}
    ReportReads = {"read"}
    LastTick = 2
    FileRows = 2
    ImportRetries = {a1, a2}
    SkuKeys = {"k"}
    Spellings = {b1, b2}
SYMMETRY MCSymmetry
INVARIANT RefreshKeepsOrganization
\* Every request may have ended.
CHECK_DEADLOCK FALSE
