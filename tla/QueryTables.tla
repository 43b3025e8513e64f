---------------------------- MODULE QueryTables -----------------------------
(***************************************************************************)
(* What the hooks of src/frontend/src/hooks ask the server for, and what   *)
(* each of their mutations invalidates when it is answered.                *)
(*                                                                         *)
(* A hook calls one route.  A query has a key, whose parameters stand for  *)
(* themselves ("params", "id"), and shows the records of some kinds; a     *)
(* mutation writes records of some kinds on the server.  What is computed  *)
(* of other records is a kind of its own: the products a category has      *)
(* (productCount), the tax a category gives its products (categoryTax),    *)
(* the members of an organization (headcount), how many products or        *)
(* customers are active.  Records that only label a row with a name or a   *)
(* number (the customer of a sale) are not what the query shows.  What is  *)
(* called without a hook is listed with the mutations.                     *)
(***************************************************************************)
EXTENDS Sequences

Query(name, at, key, shows) == [name |-> name, at |-> at, key |-> key, shows |-> shows]
Mutation(name, at, writes, invalidates) ==
    [name |-> name, at |-> at, writes |-> writes, invalidates |-> invalidates]
\* Several, each with its name, method and path, that write and invalidate the same.
Mutations(hooks, writes, invalidates) ==
    {Mutation(hook[1], <<hook[2], hook[3]>>, writes, invalidates) : hook \in hooks}

---------------------------------------------------------------------------
(* One definition for the queries and one for the mutations of a file. *)

ProductQueries ==
    {Query("useProducts", <<"GET", "/products">>, <<"products", "params">>,
           {"product", "categoryTax"}),
     Query("useProduct", <<"GET", "/products/id">>, <<"product", "id">>,
           {"product", "categoryTax"}),
     Query("useLowStockProducts", <<"GET", "/products/low-stock">>,
           <<"products", "low-stock">>, {"product"}),
     Query("useSearchProducts", <<"GET", "/products/search">>,
           <<"products", "search", "query", "limit">>, {"product", "categoryTax"}),
     Query("useQuickSearch", <<"GET", "/products/quick-search">>,
           <<"products", "quick-search", "code">>, {"product", "categoryTax"})}
ProductMutations ==
    Mutations({<<"useCreateProduct", "POST", "/products">>,
               <<"useDeleteProduct", "DELETE", "/products/id">>},
              {"product", "productCount", "activeProducts"}, {<<"products">>})
    \cup Mutations({<<"useUpdateProduct", "PUT", "/products/id">>},
                   {"product", "productCount"}, {<<"products">>})
    \cup Mutations({<<"useDeactivateProduct", "PUT", "/products/id/deactivate">>,
                    <<"useReactivateProduct", "PUT", "/products/id/reactivate">>},
                   {"product", "activeProducts"}, {<<"products">>})
    \cup Mutations({<<"useUploadProductImageById", "POST", "/products/id/upload">>},
                   {"product"}, {<<"products">>, <<"product", "id">>})
    \cup Mutations({<<"useUploadProductImage", "POST", "/products/upload">>,
                    <<"useQuickSearchProduct", "GET", "/products/quick-search">>}, {}, {})

SaleQueries ==
    {Query("useSales", <<"GET", "/sales">>, <<"sales", "params">>, {"sale"}),
     Query("useSale", <<"GET", "/sales/id">>, <<"sale", "id">>, {"sale"}),
     Query("useSaleByNumber", <<"GET", "/sales/number">>,
           <<"sale", "number", "saleNumber">>, {"sale"})}
SaleMutations ==
    Mutations({<<"useCreateSale", "POST", "/sales">>},
              {"sale", "product"}, {<<"sales">>, <<"products">>, <<"dashboard">>})
    \cup Mutations({<<"useUpdateSaleStatus", "PUT", "/sales/id">>},
                   {"sale", "product"}, {<<"sales">>, <<"products">>})
ReceiptCalls == Mutations({<<"printReceipt", "POST", "/sales/id/receipt">>}, {}, {})

CategoryQueries ==
    {Query("useCategories", <<"GET", "/categories">>, <<"categories", "params">>,
           {"category", "productCount"}),
     Query("useCategory", <<"GET", "/categories/id">>, <<"category", "id">>,
           {"category", "product"})}
CategoryMutations ==
    Mutations({<<"useCreateCategory", "POST", "/categories">>,
               <<"useDeleteCategory", "DELETE", "/categories/id">>},
              {"category"}, {<<"categories">>})
    \cup Mutations({<<"useUpdateCategory", "PUT", "/categories/id">>},
                   {"category", "categoryTax"}, {<<"categories">>})

CustomerQueries ==
    {Query("useCustomers", <<"GET", "/customers">>, <<"customers", "params">>, {"customer"}),
     Query("useCustomer", <<"GET", "/customers/id">>, <<"customer", "id">>,
           {"customer", "sale"}),
     Query("useCustomerByDocument", <<"GET", "/customers/document">>,
           <<"customer", "document", "number">>, {"customer"})}
CustomerMutations ==
    Mutations({<<"useCreateCustomer", "POST", "/customers">>,
               <<"useDeleteCustomer", "DELETE", "/customers/id">>},
              {"customer", "activeCustomers"}, {<<"customers">>})
    \cup Mutations({<<"useUpdateCustomer", "PUT", "/customers/id">>},
                   {"customer"}, {<<"customers">>})

SupplierQueries ==
    {Query("useSuppliers", <<"GET", "/suppliers">>, <<"suppliers", "params">>, {"supplier"}),
     Query("useSupplier", <<"GET", "/suppliers/id">>, <<"supplier", "id">>, {"supplier"})}
SupplierMutations ==
    Mutations({<<"useCreateSupplier", "POST", "/suppliers">>,
               <<"useUpdateSupplier", "PATCH", "/suppliers/id">>,
               <<"useDeactivateSupplier", "DELETE", "/suppliers/id">>,
               <<"useReactivateSupplier", "POST", "/suppliers/id/reactivate">>},
              {"supplier"}, {<<"suppliers">>})

OrderQueries ==
    {Query("usePurchaseOrders", <<"GET", "/purchase-orders">>,
           <<"purchase-orders", "params">>, {"orders", "order"}),
     Query("usePurchaseOrder", <<"GET", "/purchase-orders/id">>,
           <<"purchase-order", "id">>, {"order"})}
\* invalidateAll without an id, and with one.
AllOrders == {<<"purchase-orders">>, <<"products">>}
OrderMutations ==
    Mutations({<<"useCreatePurchaseOrder", "POST", "/purchase-orders">>}, {"orders"}, AllOrders)
    \cup Mutations({<<"useReceivePurchaseOrder", "POST", "/purchase-orders/id/receive">>},
                   {"order", "product"}, AllOrders \cup {<<"purchase-order", "id">>})
    \cup Mutations({<<"useUpdatePurchaseOrder", "PATCH", "/purchase-orders/id">>,
                    <<"useConfirmPurchaseOrder", "POST", "/purchase-orders/id/confirm">>,
                    <<"useCancelPurchaseOrder", "POST", "/purchase-orders/id/cancel">>},
                   {"order"}, AllOrders \cup {<<"purchase-order", "id">>})

ExpenseQueries ==
    {Query("useExpenses", <<"GET", "/expenses">>, <<"expenses", "params">>, {"expense"}),
     Query("useExpense", <<"GET", "/expenses/id">>, <<"expense", "id">>, {"expense"}),
     Query("useExpenseSummary", <<"GET", "/expenses/summary/monthly">>,
           <<"expenses", "summary", "month">>, {"expense"}),
     Query("useExpenseHistory", <<"GET", "/expenses/id/history">>,
           <<"expenses", "history", "id">>, {"expense"}),
     Query("useExpenseCategories", <<"GET", "/expense-categories">>,
           <<"expense-categories">>, {"expenseCategory"})}
ExpenseMutations ==
    Mutations({<<"useCreateExpense", "POST", "/expenses">>,
               <<"useUpdateExpense", "PATCH", "/expenses/id">>,
               <<"useDeleteExpense", "DELETE", "/expenses/id">>,
               <<"useAddExpensePayment", "POST", "/expenses/id/payments">>,
               <<"useDuplicateExpense", "POST", "/expenses/id/duplicate">>,
               <<"useUploadExpenseReceipt", "POST", "/expenses/id/upload">>},
              {"expense"}, {<<"expenses">>})
    \cup Mutations({<<"useCreateExpenseCategory", "POST", "/expense-categories">>,
                    <<"useUpdateExpenseCategory", "PATCH", "/expense-categories/id">>,
                    <<"useDeleteExpenseCategory", "DELETE", "/expense-categories/id">>},
                   {"expenseCategory"}, {<<"expense-categories">>})

TaskQueries ==
    {Query("useTasks", <<"GET", "/tasks">>, <<"tasks">>, {"task"}),
     Query("useTaskTimeline", <<"GET", "/tasks/id/timeline">>,
           <<"tasks", "id", "timeline">>, {"task"})}
TaskMutations ==
    Mutations({<<"useCreateTask", "POST", "/tasks">>}, {"task"}, {<<"tasks">>})
    \cup Mutations({<<"useUpdateTask", "PUT", "/tasks/id">>,
                    <<"useUpdateTaskStatus", "PUT", "/tasks/id/status">>,
                    <<"useDeleteTask", "DELETE", "/tasks/id">>},
                   {"task"}, {<<"tasks">>, <<"tasks", "id", "timeline">>})

UserQueries == {Query("useUsers", <<"GET", "/users">>, <<"users">>, {"staff"})}
UserMutations ==
    Mutations({<<"useCreateUser", "POST", "/users">>,
               <<"useDeleteUser", "DELETE", "/users/id">>},
              {"staff", "headcount", "user"}, {<<"users">>})
    \cup Mutations({<<"useUpdateUser", "PUT", "/users/id">>},
                   {"staff", "profile"}, {<<"users">>})
    \cup Mutations({<<"useToggleUserActive", "PUT", "/users/id/toggle-active">>},
                   {"staff"}, {<<"users">>})
    \cup Mutations({<<"useResetUserPassword", "POST", "/users/id/reset-password">>}, {}, {})

SettingsQueries ==
    {Query("useSettings", <<"GET", "/settings">>, <<"settings">>,
           {"settings", "organizationName"}),
     Query("useInventoryMovements", <<"GET", "/exports/inventory">>,
           <<"inventory-movements", "params">>, {"product"})}
SettingsMutations ==
    Mutations({<<"useUpdateSettings", "PUT", "/settings">>,
               <<"useUploadLogo", "POST", "/settings/logo">>,
               <<"useUpdateReceiptPrefix", "PATCH", "/settings/receipt-prefix">>},
              {"settings"}, {<<"settings">>})
    \cup Mutations({<<"useUpdateOrganizationName", "PATCH", "/settings/organization">>},
                   {"organizationName", "ownMembership"}, {<<"settings">>})

AdminQueries ==
    {Query("useOrganizations", <<"GET", "/admin/organizations">>, <<"admin", "organizations">>,
           {"organizations", "organization", "organizationName", "headcount"}),
     Query("useOrganization", <<"GET", "/admin/organizations/id">>,
           <<"admin", "organization", "id">>,
           {"organization", "organizationName", "staff", "role"}),
     Query("useAdminMetrics", <<"GET", "/admin/metrics">>, <<"admin", "metrics">>,
           {"organizations", "status", "plan", "user"})}
AllOrganizations == {<<"admin", "organizations">>, <<"admin", "organization">>}
AdminMutations ==
    Mutations({<<"useCreateOrganization", "POST", "/admin/organizations">>},
              {"organizations", "user"}, {<<"admin", "organizations">>, <<"admin", "metrics">>})
    \cup Mutations({<<"useDeleteOrganization", "DELETE", "/admin/organizations/id">>},
                   {"organizations", "organization"},
                   {<<"admin", "organizations">>, <<"admin", "metrics">>})
    \cup Mutations({<<"useUpdateOrganizationStatus", "PATCH", "/admin/organizations/id/status">>},
                   {"organization", "status"}, AllOrganizations \cup {<<"admin", "metrics">>})
    \cup Mutations({<<"useUpdateOrganizationPlan", "PATCH", "/admin/organizations/id/plan">>},
                   {"organization", "plan"}, AllOrganizations)
    \cup Mutations({<<"useUpdateOrganization", "PATCH", "/admin/organizations/id">>},
                   {"organization", "organizationName"}, AllOrganizations)
    \cup Mutations({<<"useAddOrganizationMember", "POST", "/admin/organizations/id/members">>},
                   {"staff", "headcount", "user"}, AllOrganizations)
    \cup Mutations({<<"useRemoveOrganizationMember", "DELETE",
                      "/admin/organizations/id/members/id">>},
                   {"staff", "headcount"}, AllOrganizations)
    \cup Mutations({<<"useUpdateMemberRole", "PATCH", "/admin/organizations/id/members/id/role">>},
                   {"role"}, AllOrganizations)
\* OrganizationSwitcher, but for a super administrator.
SwitcherQueries ==
    {Query("userQuery", <<"GET", "/auth/organizations">>,
           <<"auth", "organizations">>, {"ownMembership"})}

BillingQueries ==
    {Query("useBillingStatus", <<"GET", "/billing/status">>, <<"billing", "status">>,
           {"payment", "status", "plan"}),
     Query("useBillingPayments", <<"GET", "/billing/payments">>,
           <<"billing", "payments">>, {"payment"})}
BillingMutations ==
    Mutations({<<"useRegisterPayment", "POST", "/billing/payments">>},
              {"payment", "organization", "status"},
              {<<"billing", "payments">>, <<"billing", "status">>})

PlanLimitQueries ==
    {Query("usePlanLimits", <<"GET", "/plan-limits/status">>, <<"plan-limits">>,
           {"activeProducts", "activeCustomers", "headcount", "plan"})}

ProfileQueries == {Query("useProfile", <<"GET", "/auth/profile">>, <<"profile">>, {"profile"})}
ProfileMutations ==
    Mutations({<<"useUpdateProfile", "PUT", "/auth/profile">>},     \* setQueryData(["auth"])
              {"profile", "staff"}, {})
    \cup Mutations({<<"useChangePassword", "POST", "/auth/change-password">>}, {}, {})

\* The rows are written after the answer; a retried row before it.  A row may bring its category.
ImportQueries ==
    {Query("statusQuery", <<"GET", "/imports/id/status">>, <<"imports", "products", "id">>, {})}
ImportMutations ==
    Mutations({<<"startImport", "POST", "/imports/products">>},
              {"product", "productCount", "activeProducts", "category"}, {})
    \cup Mutations({<<"retryRow", "POST", "/imports/id/retry-row">>},
                   {"product", "productCount", "activeProducts", "category"}, {<<"products">>})
    \cup Mutations({<<"downloadTemplate", "GET", "/imports/products/template">>}, {}, {})

Report(name, path, key, shows) ==
    Query(name, <<"GET", path>>, key \o <<"start", "end">>, shows)
ReportQueries ==
    {Report("useDashboard", "/reports/dashboard", <<"dashboard">>,
            {"sale", "product", "activeProducts", "activeCustomers"}),
     Report("useInventorySnapshot", "/reports/economic/inventory",
            <<"reports", "economic", "inventory">>, {"product"}),
     Report("useEconomicOverview", "/reports/economic", <<"reports", "economic">>,
            {"sale", "expense"}),
     Report("useCashFlow", "/reports/economic/cash", <<"reports", "economic", "cash">>,
            {"sale", "expense"}),
     Report("useSalesByPaymentMethod", "/reports/sales/payment-method",
            <<"reports", "sales", "payment-method">>, {"sale"}),
     Report("useSalesByCategory", "/reports/sales/category",
            <<"reports", "sales", "category">>, {"sale"}),
     Report("useSalesByCategoryDaily", "/reports/sales/category-daily",
            <<"reports", "sales", "category-daily">>, {"sale"}),
     Report("useTopSellingProducts", "/reports/products/top-selling",
            <<"reports", "products", "top-selling">>, {"sale"}),
     Report("useCustomerStatistics", "/reports/customers/statistics",
            <<"reports", "customers", "statistics">>, {"sale", "activeCustomers"}),
     Report("useDailySales", "/reports/sales/daily", <<"reports", "sales", "daily">>, {"sale"})}

---------------------------------------------------------------------------

HookQueries ==
    UNION {ProductQueries, SaleQueries, CategoryQueries, CustomerQueries, SupplierQueries,
           OrderQueries, ExpenseQueries, TaskQueries, UserQueries, SettingsQueries,
           AdminQueries, SwitcherQueries, BillingQueries, PlanLimitQueries,
           ProfileQueries, ImportQueries, ReportQueries}
HookMutations ==
    UNION {ProductMutations, SaleMutations, ReceiptCalls, CategoryMutations, CustomerMutations,
           SupplierMutations, OrderMutations, ExpenseMutations, TaskMutations, UserMutations,
           SettingsMutations, AdminMutations, BillingMutations, ProfileMutations, ImportMutations}
=============================================================================
