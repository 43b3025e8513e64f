\* Three requests to each service, an import of two rows, one line of a cart, two organizations.
SPECIFICATION MCSpec
CONSTANTS
    Services = {"expenses", "settings", "tasks", "names", "screen", "cart", "cache", "board",
                "forms", "lists", "access"}
    ExpenseRequests = {"r1", "r2", "r3"}
    Amounts = {1, 2}
    NoExpense = "none"
    SettingsRequests = {"r1", "r2", "r3"}
    Unset = "unset"
    Legacy = "legacy"
    TaskRequests = {"r1", "r2", "r3"}
    TaskUsers = {"u1", "u2"}
    TaskAdmins = {"u1"}
    Nobody = "nobody"
    NameRequests = {r1, r2, r3}
    LookupKeys = {"k"}
    JobRows = 2
    RowRetries = {"q1", "q2"}
    SalePrice = 20
    Prices = {0, 10, 30}
    Stocks = {0, 1, 2, 3}
    Percents = {10, 20, 50}
    Discounts = {0, 5, 25}
    Edits = {"edit"}
    Tenants = {"first", "other"}
    FirstTenant = "first"
    NoData = none
    BoardTasks = {"t1", "t2", "t3"}
    FirstTasks <- MCFirstTasks
    TaskLimit = 2
    BoardCalls = {"a1", "a2"}
    NoneSelected = none
    Records = {a, b}
    FirstRecords = {a}
    Forms = {1, 2}
    NothingEdited = none
    MaxTyped = 1
    MaxMatching = 5
    PageSize = 2
    AccessOrgs = {"o1", "o2"}
    JoinedFirst = "o1"
    SignedOut = "none"
INVARIANTS
    OfficeTypeOK
    SettledUnlessOverlapped
    ReceiptsKept
    SettingsKept
    TimelineTellsStatus
    LineExact
    FreshShowsAnswered
    BoardIsTrue
    FormsKeepTheirRecord
    EmptyMeansNone
    PagesFitRoles
PROPERTIES
    RemovedForGood
    CompletionShown
\* Every request may have ended.
CHECK_DEADLOCK FALSE
