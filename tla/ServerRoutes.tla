---------------------------- MODULE ServerRoutes ----------------------------
(***************************************************************************)
(* The routes of the server, a definition or two for each controller that  *)
(* a module registers, and the roles that @Roles demands for them.         *)
(*                                                                         *)
(* A route is a method and a path, whose parameters stand for themselves   *)
(* ("id").  ProductsSearchController is in no module, so its routes, which *)
(* name cashiers, are not served: the ones of ProductsController are.      *)
(***************************************************************************)
Routes(roles, endpoints) == {[at |-> endpoint, roles |-> roles] : endpoint \in endpoints}

\* No @Roles: the guard lets everyone pass who is signed in.
Everybody == {}
Administrators == {"ADMIN"}
Staff == {"ADMIN", "MEMBER"}
Tellers == {"ADMIN", "MEMBER", "CASHIER"}
System == {"SUPER_ADMIN"}

ProductsRoutes ==
    Routes(Everybody, {<<"GET", "/products">>, <<"GET", "/products/id">>})
    \cup Routes(Staff,
        {<<"POST", "/products">>, <<"GET", "/products/low-stock">>, <<"GET", "/products/search">>,
         <<"GET", "/products/quick-search">>})
ProductChangeRoutes ==
    Routes(Staff,
        {<<"PUT", "/products/id">>, <<"PUT", "/products/id/deactivate">>,
         <<"PUT", "/products/id/reactivate">>, <<"DELETE", "/products/id">>,
         <<"POST", "/products/upload">>, <<"POST", "/products/id/upload">>})

SalesRoutes ==
    Routes(Tellers,
        {<<"POST", "/sales">>, <<"GET", "/sales">>, <<"GET", "/sales/number">>,
         <<"GET", "/sales/id">>, <<"POST", "/sales/id/receipt">>})
    \cup Routes(Administrators, {<<"PUT", "/sales/id">>, <<"POST", "/sales/id/force-close">>})

CustomersRoutes ==
    Routes(Tellers,
        {<<"POST", "/customers">>, <<"GET", "/customers">>, <<"GET", "/customers/document">>,
         <<"GET", "/customers/id">>})
    \cup Routes(Administrators, {<<"PUT", "/customers/id">>, <<"DELETE", "/customers/id">>})

CategoriesRoutes ==
    Routes(Staff,
        {<<"POST", "/categories">>, <<"GET", "/categories">>, <<"GET", "/categories/id">>,
         <<"PUT", "/categories/id">>, <<"DELETE", "/categories/id">>})

SuppliersRoutes ==
    Routes(Staff,
        {<<"POST", "/suppliers">>, <<"GET", "/suppliers">>, <<"GET", "/suppliers/id">>,
         <<"PATCH", "/suppliers/id">>, <<"DELETE", "/suppliers/id">>,
         <<"POST", "/suppliers/id/reactivate">>})

PurchaseOrdersRoutes ==
    Routes(Staff,
        {<<"POST", "/purchase-orders">>, <<"GET", "/purchase-orders">>,
         <<"GET", "/purchase-orders/id">>, <<"PATCH", "/purchase-orders/id">>,
         <<"POST", "/purchase-orders/id/confirm">>, <<"POST", "/purchase-orders/id/receive">>,
         <<"POST", "/purchase-orders/id/cancel">>})

ExpensesRoutes ==
    Routes(Administrators,
        {<<"POST", "/expenses">>, <<"GET", "/expenses">>, <<"GET", "/expenses/summary/monthly">>,
         <<"GET", "/expenses/id">>, <<"GET", "/expenses/id/history">>, <<"PATCH", "/expenses/id">>,
         <<"POST", "/expenses/id/payments">>, <<"POST", "/expenses/id/duplicate">>,
         <<"POST", "/expenses/id/upload">>, <<"DELETE", "/expenses/id">>})

ExpenseCategoriesRoutes ==
    Routes(Administrators,
        {<<"GET", "/expense-categories">>, <<"POST", "/expense-categories">>,
         <<"PATCH", "/expense-categories/id">>, <<"DELETE", "/expense-categories/id">>})

TasksRoutes ==
    Routes(Staff,
        {<<"POST", "/tasks">>, <<"GET", "/tasks">>, <<"GET", "/tasks/id/timeline">>,
         <<"GET", "/tasks/id">>, <<"PUT", "/tasks/id">>, <<"PUT", "/tasks/id/status">>,
         <<"DELETE", "/tasks/id">>})

UsersRoutes ==
    Routes(Administrators,
        {<<"POST", "/users">>, <<"GET", "/users">>, <<"PUT", "/users/id">>,
         <<"PUT", "/users/id/toggle-active">>, <<"POST", "/users/id/reset-password">>,
         <<"DELETE", "/users/id">>})

SettingsRoutes ==
    Routes(Administrators,
        {<<"GET", "/settings">>, <<"GET", "/settings/default">>, <<"PUT", "/settings">>,
         <<"POST", "/settings/logo">>, <<"PATCH", "/settings/organization">>,
         <<"PATCH", "/settings/receipt-prefix">>})

CashRegistersRoutes ==
    Routes(Administrators,
        {<<"POST", "/cash-registers">>, <<"PUT", "/cash-registers/id">>,
         <<"DELETE", "/cash-registers/id">>})
    \cup Routes(Staff, {<<"GET", "/cash-registers">>, <<"GET", "/cash-registers/id">>})

EconomicRoutes ==
    Routes(Administrators,
        {<<"GET", "/reports/dashboard">>, <<"GET", "/reports/economic">>,
         <<"GET", "/reports/economic/cash">>, <<"GET", "/reports/economic/inventory">>})
ReportsRoutes ==
    Routes(Administrators,
        {<<"GET", "/reports/sales/payment-method">>, <<"GET", "/reports/sales/category">>,
         <<"GET", "/reports/sales/category-daily">>, <<"GET", "/reports/products/top-selling">>,
         <<"GET", "/reports/customers/statistics">>, <<"GET", "/reports/users/performance">>,
         <<"GET", "/reports/sales/daily">>})

ExportsRoutes ==
    Routes(Staff,
        {<<"GET", "/exports/inventory">>, <<"POST", "/exports/products">>,
         <<"POST", "/exports/inventory">>})
    \cup Routes(Administrators,
        {<<"POST", "/exports/sales">>, <<"POST", "/exports/customers">>,
         <<"POST", "/exports/expenses">>, <<"POST", "/exports/economic">>})

ImportsRoutes ==
    Routes({"ADMIN", "CASHIER"},
        {<<"GET", "/imports/products/template">>, <<"POST", "/imports/products">>,
         <<"GET", "/imports/id/status">>, <<"POST", "/imports/id/retry-row">>})

PlanLimitsRoutes == Routes(Everybody, {<<"GET", "/plan-limits/status">>})

BillingRoutes ==
    Routes({"ADMIN", "OWNER"}, {<<"GET", "/billing/payments">>})
    \cup Routes({"ADMIN", "CASHIER", "INVENTORY_USER"}, {<<"GET", "/billing/status">>})
    \cup Routes(System, {<<"POST", "/billing/payments">>})

AdminRoutes ==
    Routes(System,
        {<<"POST", "/admin/organizations">>, <<"GET", "/admin/organizations">>,
         <<"GET", "/admin/organizations/id">>, <<"PATCH", "/admin/organizations/id/status">>,
         <<"PATCH", "/admin/organizations/id/plan">>,
         <<"POST", "/admin/organizations/id/transfer-owner">>, <<"GET", "/admin/metrics">>,
         <<"PATCH", "/admin/organizations/id">>, <<"POST", "/admin/organizations/id/members">>,
         <<"PATCH", "/admin/organizations/id/members/id/role">>,
         <<"DELETE", "/admin/organizations/id/members/id">>,
         <<"DELETE", "/admin/organizations/id">>})

\* Those of a session; the others need none.
AuthRoutes ==
    Routes(Everybody,
        {<<"GET", "/auth/organizations">>, <<"GET", "/auth/profile">>, <<"PUT", "/auth/profile">>,
         <<"POST", "/auth/change-password">>, <<"POST", "/auth/select-org">>,
         <<"POST", "/auth/logout">>})

ServedRoutes ==
    UNION {ProductsRoutes, ProductChangeRoutes, SalesRoutes, CustomersRoutes, CategoriesRoutes,
           SuppliersRoutes, PurchaseOrdersRoutes, ExpensesRoutes, ExpenseCategoriesRoutes,
           TasksRoutes, UsersRoutes, SettingsRoutes, CashRegistersRoutes, EconomicRoutes,
           ReportsRoutes, ExportsRoutes, ImportsRoutes, PlanLimitsRoutes, BillingRoutes,
           AdminRoutes, AuthRoutes}
=============================================================================
