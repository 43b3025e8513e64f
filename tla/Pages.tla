-------------------------------- MODULE Pages -------------------------------
(***************************************************************************)
(* The pages of the frontend: what each one asks the server for when it is *)
(* opened, what it offers, and where it leads, each for the roles it is    *)
(* shown to.                                                               *)
(*                                                                         *)
(* Calls are named by their hooks (module QueryTables).  An address is the *)
(* sequence of its parts, without parameters.                              *)
(***************************************************************************)
EXTENDS QueryTables

AppRoles == {"OWNER", "ADMIN", "MEMBER", "CASHIER", "INVENTORY_USER", "SUPER_ADMIN"}

\* getEffectiveRoles
EffectiveRoles(role) ==
    CASE role \in {"OWNER", "ADMIN", "SUPER_ADMIN"} ->
            {role, "ADMIN", "MEMBER", "CASHIER", "INVENTORY_USER"}
      [] role = "MEMBER" -> {"MEMBER", "CASHIER"}
      [] OTHER -> {role}

\* hasAnyRole; other conditions compare the role itself.
Having(roles) == {r \in AppRoles : EffectiveRoles(r) \cap roles # {}}
InventoryManagers == {"ADMIN", "INVENTORY_USER"}

\* Called without a hook.
ExportCalls ==
    Mutations({<<"exportExpenses", "POST", "/exports/expenses">>,
               <<"exportEconomic", "POST", "/exports/economic">>}, {}, {})
SessionCalls ==
    Mutations({<<"switchOrganization", "POST", "/auth/select-org">>,
               <<"logout", "POST", "/auth/logout">>}, {}, {})

Offer(roles, calls) == [to |-> roles, calls |-> calls]
\* A link is there once its query has answered; "none": at once.
Link(roles, query, target) == [to |-> roles, needs |-> query, page |-> target]
LinksTo(pages) == {Link(AppRoles, "none", target) : target \in pages}
Page(at, loads, offers, links) ==
    [at |-> at, loads |-> loads, offers |-> offers, links |-> links]

---------------------------------------------------------------------------
(* Around every page *)

\* routeRoleMap, by the first part of an address
RouteRoles ==
    [section \in {"dashboard", "pos", "inventory", "suppliers", "purchase-orders", "sales",
                  "expenses", "customers", "reports", "users", "tasks", "categories",
                  "settings", "profile"} |->
        CASE section \in {"pos", "sales", "customers"} -> {"ADMIN", "CASHIER"}
          [] section \in {"inventory", "tasks", "profile"} -> {"ADMIN", "CASHIER", "INVENTORY_USER"}
          [] section \in {"expenses", "reports", "users", "settings"} -> {"ADMIN"}
          [] OTHER -> {"ADMIN", "INVENTORY_USER"}]

\* navItems
SidebarLinks ==
    {Link(Having({"ADMIN", "INVENTORY_USER"}), "none", <<section>>) :
        section \in {"dashboard", "categories", "suppliers", "purchase-orders"}}
    \cup {Link(Having({"ADMIN", "CASHIER"}), "none", <<section>>) :
        section \in {"pos", "sales", "customers"}}
    \cup {Link(Having({"ADMIN", "CASHIER", "INVENTORY_USER"}), "none", <<section>>) :
        section \in {"inventory", "tasks"}}
    \cup {Link(Having({"ADMIN"}), "none", <<section>>) :
        section \in {"expenses", "reports", "settings"}}
    \cup LinksTo({<<"profile">>})
    \cup {Link(Having({"SUPER_ADMIN"}), "none", <<"admin">>)}

\* The switcher and the banner are on every page.  An answer to a login does not say that its
\* user is a super administrator, a reload does.
SwitcherLoads(role) ==
    {"userQuery"} \cup (IF role = "SUPER_ADMIN" THEN {"useOrganizations"} ELSE {})
BannerLoads == {"usePlanLimits"}
SidebarOffers == {Offer(AppRoles \ {"SUPER_ADMIN"}, {"switchOrganization"}),
                  Offer(AppRoles, {"logout"})}

\* The admin pages have a layout of their own.
AdminLinks == LinksTo({<<"dashboard">>, <<"admin">>, <<"admin", "organizations">>})

SettingsLinks ==
    LinksTo({<<"settings", "general">>, <<"settings", "invoicing">>, <<"settings", "team">>})

---------------------------------------------------------------------------
(* Components with calls of their own *)

QuickActionLinks ==
    {Link(Having({"ADMIN", "INVENTORY_USER"}), "none", <<"inventory">>),
     Link(Having({"ADMIN", "CASHIER"}), "none", <<"pos">>),
     Link(Having({"ADMIN"}), "none", <<"expenses">>)}
TodayStatsLoads == {"useDailySales", "useDashboard", "useExpenses"}
AlertPanelLoads == {"useLowStockProducts", "useExpenses", "useTasks"}
AlertPanelLinks ==
    {Link(AppRoles, "useLowStockProducts", <<"inventory">>),
     Link(AppRoles, "useExpenses", <<"expenses">>)}
ImportSectionCalls == {"startImport", "statusQuery", "retryRow", "downloadTemplate"}
EditDraftCalls == {"useUpdatePurchaseOrder", "useSuppliers", "useProducts"}
ExpenseFormCalls ==
    {"useCreateExpense", "useUpdateExpense", "useUploadExpenseReceipt",
     "useExpenseCategories", "useSuppliers", "usePurchaseOrders"}

---------------------------------------------------------------------------
(* Pages *)

DashboardPage ==
    Page(<<"dashboard">>,
         {"useDashboard", "useSalesByCategoryDaily"} \cup TodayStatsLoads \cup AlertPanelLoads,
         {}, QuickActionLinks \cup AlertPanelLinks)

PosPage ==
    Page(<<"pos">>, {"useProducts", "useCustomers", "useSettings"},
         {Offer(AppRoles, {"useCreateSale", "useQuickSearchProduct", "printReceipt"})}, {})

SalesPage == Page(<<"sales">>, {"useSales"}, {Offer(AppRoles, {"printReceipt"})}, {})
SalePage ==
    Page(<<"sales", "id">>, {"useSale"}, {Offer(AppRoles, {"printReceipt"})},
         LinksTo({<<"sales">>}))

CustomersPage ==
    Page(<<"customers">>, {"useCustomers"},
         {Offer({"ADMIN", "CASHIER"}, {"useCreateCustomer"}),
          Offer({"ADMIN"}, {"useUpdateCustomer", "useDeleteCustomer"})},
         {Link(AppRoles, "useCustomers", <<"sales">>)})

InventoryPage ==
    Page(<<"inventory">>, {"useProducts", "useCategories"},
         {Offer(InventoryManagers,
                {"useCreateProduct", "useUpdateProduct", "useDeactivateProduct",
                 "useDeleteProduct", "useReactivateProduct", "useUploadProductImage",
                 "useUploadProductImageById"} \cup ImportSectionCalls)},
         {})

CategoriesPage ==
    Page(<<"categories">>, {"useCategories"},
         {Offer(AppRoles, {"useCreateCategory", "useUpdateCategory", "useDeleteCategory"})}, {})

SuppliersPage ==
    Page(<<"suppliers">>, {"useSuppliers"},
         {Offer(InventoryManagers,
                {"useCreateSupplier", "useUpdateSupplier", "useDeactivateSupplier",
                 "useReactivateSupplier"})}, {})

OrdersPage ==
    Page(<<"purchase-orders">>, {"useSuppliers", "usePurchaseOrders"}, {},
         {Link(InventoryManagers, "none", <<"purchase-orders", "new">>),
          Link(AppRoles, "usePurchaseOrders", <<"purchase-orders", "id">>)})
NewOrderPage ==
    Page(<<"purchase-orders", "new">>, {"useSuppliers", "useProducts"},
         {Offer(AppRoles, {"useCreatePurchaseOrder"})},
         LinksTo({<<"purchase-orders">>})
             \cup {Link(AppRoles, "useCreatePurchaseOrder", <<"purchase-orders", "id">>)})
OrderPage ==
    Page(<<"purchase-orders", "id">>, {"usePurchaseOrder"},
         {Offer(InventoryManagers,
                {"useConfirmPurchaseOrder", "useReceivePurchaseOrder", "useCancelPurchaseOrder"}
                    \cup EditDraftCalls)},
         LinksTo({<<"purchase-orders">>}))

ExpensesPage ==
    Page(<<"expenses">>,
         {"useExpenseSummary", "useExpenseCategories", "useSuppliers", "useExpenses"},
         {Offer(AppRoles,
                {"useDeleteExpense", "useDuplicateExpense", "useUploadExpenseReceipt",
                 "useAddExpensePayment", "useExpenseHistory", "exportExpenses"}
                    \cup ExpenseFormCalls)}, {})

ReportsPage ==
    Page(<<"reports">>,
         {"useEconomicOverview", "useCashFlow", "useInventorySnapshot", "useSalesByPaymentMethod",
          "useSalesByCategory", "useTopSellingProducts", "useCustomerStatistics"},
         {Offer(AppRoles, {"exportEconomic"})}, {})

TasksPage ==
    Page(<<"tasks">>, {"useTasks"},
         {Offer(AppRoles, {"useTaskTimeline", "useCreateTask", "useUpdateTask",
                           "useUpdateTaskStatus", "useDeleteTask"})}, {})

ProfilePage ==
    Page(<<"profile">>, {"useProfile"},
         {Offer(AppRoles, {"useUpdateProfile", "useChangePassword"})}, {})

GeneralPage ==
    Page(<<"settings", "general">>, {"useSettings"},
         {Offer(AppRoles, {"useUploadLogo", "useUpdateOrganizationName"})}, SettingsLinks)
InvoicingPage ==
    Page(<<"settings", "invoicing">>, {"useSettings"},
         {Offer(AppRoles, {"useUpdateSettings", "useUpdateReceiptPrefix"})}, SettingsLinks)
AdvancedPage ==
    Page(<<"settings", "advanced">>, {"useSettings"},
         {Offer(AppRoles, {"useUpdateSettings"})}, SettingsLinks)
LocalePage == Page(<<"settings", "locale">>, {"useSettings"}, {}, SettingsLinks)
BillingPage ==
    Page(<<"settings", "billing">>,
         {"usePlanLimits", "useBillingStatus", "useBillingPayments"},
         {Offer({"SUPER_ADMIN"}, {"useRegisterPayment"})}, SettingsLinks)
TeamPage ==
    Page(<<"settings", "team">>, {"useUsers"},
         {Offer(AppRoles, {"useCreateUser", "useUpdateUser", "useDeleteUser",
                           "useToggleUserActive", "useResetUserPassword"})}, SettingsLinks)

AdminPage == Page(<<"admin">>, {"useAdminMetrics"}, {}, AdminLinks)
OrganizationsPage ==
    Page(<<"admin", "organizations">>, {"useOrganizations"},
         {Offer(AppRoles, {"useCreateOrganization", "useUpdateOrganizationStatus",
                           "useUpdateOrganizationPlan"})},
         AdminLinks \cup {Link(AppRoles, "useOrganizations", <<"admin", "organizations", "id">>)})
OrganizationPage ==
    Page(<<"admin", "organizations", "id">>, {"useOrganization"},
         {Offer(AppRoles, {"useUpdateOrganizationStatus", "useUpdateOrganizationPlan",
                           "useUpdateOrganization", "useAddOrganizationMember",
                           "useUpdateMemberRole", "useRemoveOrganizationMember",
                           "useDeleteOrganization"})}, AdminLinks)

\* Addresses that only lead elsewhere.
Forwards == [section \in {"home", "settings", "users"} |->
    CASE section = "home" -> <<"dashboard">>
      [] section = "settings" -> <<"settings", "general">>
      [] section = "users" -> <<"settings", "team">>]

AllPages ==
    {DashboardPage, PosPage, SalesPage, SalePage, CustomersPage, InventoryPage, CategoriesPage,
     SuppliersPage, OrdersPage, NewOrderPage, OrderPage, ExpensesPage, ReportsPage, TasksPage,
     ProfilePage, GeneralPage, InvoicingPage, AdvancedPage, LocalePage, BillingPage, TeamPage,
     AdminPage, OrganizationsPage, OrganizationPage}
=============================================================================
