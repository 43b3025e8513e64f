----------------------------- MODULE QueryCache -----------------------------
(***************************************************************************)
(* The cache of server data behind every page: one entry of TanStack       *)
(* Query's cache, under the options of QueryProvider, and what the hooks,  *)
(* AuthContext and the sidebar do to it.                                   *)
(*                                                                         *)
(* A behaviour watches one query, while mutations that write what it shows *)
(* run in the same tab and the user changes organization.  By which hook a *)
(* mutation was sent is chosen when it is answered, and what is kept of it *)
(* is what it wrote of the query's data and whether it is late.            *)
(* TanStack Query itself is external: an answer makes its entry fresh; an  *)
(* invalidation makes it stale and fetches it again if a page shows it,    *)
(* which cancels the fetch under way only when the entry has data to show  *)
(* meanwhile; a fetch nobody waits for any more goes on.                   *)
(***************************************************************************)
EXTENDS QueryTables, FiniteSets, Naturals, SequencesExt

CONSTANTS
    Edits,              \* requests of mutations
    Tenants,            \* organizations the user belongs to
    FirstTenant,
    NoData

ASSUME QueryCacheAssumption == FirstTenant \in Tenants

VARIABLES
    watched,            \* the query, by name
    tenant,             \* the organization of the tab's access token
    entry,              \* the watched query's entry in the cache
    fetching,           \* its fetch
    edit                \* the requests

cacheVars == <<watched, tenant, entry, fetching, edit>>

Concerns(m, q) == m.writes \cap q.shows # {}

\* Queries whose keys no mutation invalidates, but for two: reports and limits, the profile,
\* the hooks for one record, and the export of movements.
LateQueries ==
    {q.name : q \in ReportQueries \cup PlanLimitQueries \cup ProfileQueries}
    \cup {"useProduct", "useSale", "useSaleByNumber", "useCategory", "useCustomer",
          "useCustomerByDocument", "useSupplier", "useExpense", "useInventoryMovements"}
Heard == {<<"useCreateSale", "useDashboard">>, <<"useUploadProductImageById", "useProduct">>}

\* Mutations that forget a list of other records which shows what they wrote.
Forgotten ==
    UNION {{"useCreateProduct", "useUpdateProduct", "useDeleteProduct", "retryRow"}
               \X {"useCategories"},
           {"useUpdateCategory"} \X {"useProducts", "useSearchProducts", "useQuickSearch"},
           {"useUpdateOrganizationName"} \X {"useOrganizations", "useOrganization", "userQuery"},
           {"useUpdateOrganization"} \X {"useSettings"},
           {"useUpdateOrganizationStatus", "useUpdateOrganizationPlan"} \X {"useBillingStatus"},
           {"useRegisterPayment", "useCreateUser", "useDeleteUser"}
               \X {"useOrganizations", "useOrganization", "useAdminMetrics"},
           {"useUpdateUser", "useToggleUserActive", "useUpdateProfile", "useDeleteOrganization"}
               \X {"useOrganization"},
           {"useUpdateProfile", "useAddOrganizationMember", "useRemoveOrganizationMember"}
               \X {"useUsers"},
           {"useUpdateOrganizationPlan", "useAddOrganizationMember"} \X {"useAdminMetrics"}}

\* By names: the query only learns of the mutation when its data grow stale.
Late(mutation, query) ==
    \/ query \in LateQueries /\ <<mutation, query>> \notin Heard
    \/ mutation = "startImport"
    \/ <<mutation, query>> \in Forgotten

\* The row of the table by name.
HookQuery == [name \in {q.name : q \in HookQueries} |->
    CHOOSE q \in HookQueries : q.name = name]

NotFetching == [at |-> "idle"]
CacheInit ==
    /\ watched \in DOMAIN HookQuery
    /\ tenant = FirstTenant
    /\ entry = [data |-> NoData, stale |-> TRUE, open |-> FALSE]
    /\ fetching = NotFetching
    /\ edit = [e \in Edits |-> [at |-> "new"]]

---------------------------------------------------------------------------
(* Fetches *)

\* blind, for the properties: the fetch began before something it must not miss.
NewFetch(org) == [at |-> "sent", tenant |-> org, blind |-> FALSE]

\* A page that shows the query is mounted: stale data are fetched again.
PageOpens ==
    /\ ~entry.open
    /\ entry' = [entry EXCEPT !.open = TRUE]
    /\ fetching' = IF entry.stale /\ fetching = NotFetching THEN NewFetch(tenant) ELSE fetching
    /\ UNCHANGED <<watched, tenant, edit>>

PageCloses ==
    /\ entry.open
    /\ entry' = [entry EXCEPT !.open = FALSE]
    /\ UNCHANGED <<watched, tenant, fetching, edit>>

Committed(org) == {e \in Edits : edit[e].at \in {"committed", "answered", "lost"}
                                 /\ edit[e].tenant = org}

FetchServed ==
    /\ fetching.at = "sent"
    /\ fetching' = [at |-> "served", blind |-> fetching.blind,
                    answer |-> [tenant |-> fetching.tenant, seen |-> Committed(fetching.tenant)]]
    /\ UNCHANGED <<watched, tenant, entry, edit>>

FetchArrives ==
    /\ fetching.at = "served"
    /\ LET answer == fetching.answer
       IN  entry' = [entry EXCEPT !.stale = FALSE,
              !.data = [tenant |-> answer.tenant, seen |-> answer.seen, blind |-> fetching.blind]]
    /\ fetching' = NotFetching
    /\ UNCHANGED <<watched, tenant, edit>>

\* An answer is lost: it is asked for again, with the access token of now, or given up.
FetchFails ==
    /\ fetching # NotFetching
    /\ \/ fetching' = [NewFetch(tenant) EXCEPT !.blind = fetching.blind]
       \/ fetching' = NotFetching
    /\ UNCHANGED <<watched, tenant, entry, edit>>

\* staleTime has passed.
GrowsStale ==
    /\ ~entry.stale
    /\ entry' = [entry EXCEPT !.stale = TRUE]
    /\ UNCHANGED <<watched, tenant, fetching, edit>>

\* gcTime has passed without a page.
Collected ==
    /\ ~entry.open /\ fetching = NotFetching /\ entry.data # NoData
    /\ entry' = [entry EXCEPT !.data = NoData, !.stale = TRUE]
    /\ UNCHANGED <<watched, tenant, edit, fetching>>

\* invalidateQueries, for a query it matches: the fetch the page waits for first is kept, and
\* so is one that no page waits for.
Invalidated(org) ==
    /\ entry' = [entry EXCEPT !.stale = TRUE]
    /\ fetching' =
        IF entry.open /\ (fetching = NotFetching \/ entry.data # NoData) THEN NewFetch(org)
        ELSE IF fetching = NotFetching THEN fetching
        ELSE [fetching EXCEPT !.blind = TRUE]

---------------------------------------------------------------------------
(* Mutations *)

EditSent(e) ==
    /\ edit[e].at = "new"
    /\ edit' = [edit EXCEPT ![e] = [at |-> "sent", tenant |-> tenant]]
    /\ UNCHANGED <<watched, tenant, entry, fetching>>

EditCommits(e) ==
    /\ edit[e].at = "sent"
    /\ edit' = [edit EXCEPT ![e].at = "committed"]
    /\ UNCHANGED <<watched, tenant, entry, fetching>>

\* Mutant: keys match only when they are equal.
ToldExactly(m, q) == q.key \in m.invalidates

\* A key matches every key that begins with it.
Told(m, q) == \E prefix \in m.invalidates : IsPrefix(prefix, q.key)

\* onSuccess
EditAnswered(e) ==
    /\ edit[e].at = "committed"
    /\ \E m \in HookMutations :
          /\ Concerns(m, HookQuery[watched])
          /\ edit' = [edit EXCEPT ![e] =
                [at |-> "answered", tenant |-> @.tenant, late |-> Late(m.name, watched),
                 wrote |-> m.writes \cap HookQuery[watched].shows]]
          /\ IF Told(m, HookQuery[watched]) THEN Invalidated(tenant)
             ELSE UNCHANGED <<entry, fetching>>
    /\ UNCHANGED <<watched, tenant>>

\* Refused, or its answer is lost: nothing is invalidated.
EditFails(e) ==
    /\ edit[e].at \in {"sent", "committed"}
    /\ edit' = [edit EXCEPT ![e] = IF @.at = "sent" THEN [at |-> "refused"]
                                   ELSE [@ EXCEPT !.at = "lost"]]
    /\ UNCHANGED <<watched, tenant, entry, fetching>>

---------------------------------------------------------------------------
(* Organizations.  The user leaves the first one once. *)

OfTenant(q) == ~Contains(q.key, "admin")

\* switchOrganization; the sidebar of a super administrator invalidates every key.
SwitchOrganization(org) ==
    /\ tenant = FirstTenant /\ org # tenant
    /\ tenant' = org
    /\ IF OfTenant(HookQuery[watched]) THEN Invalidated(org) ELSE UNCHANGED <<entry, fetching>>
    /\ UNCHANGED <<watched, edit>>

\* logout and login: both leave the cache as it is.
SignInAgain(org) ==
    /\ tenant = FirstTenant /\ org # tenant
    /\ tenant' = org
    /\ entry' = [entry EXCEPT !.open = FALSE,
                              !.data = IF @ = NoData THEN @ ELSE [@ EXCEPT !.blind = TRUE]]
    /\ fetching' = IF fetching = NotFetching THEN fetching ELSE [fetching EXCEPT !.blind = TRUE]
    /\ UNCHANGED <<watched, edit>>

---------------------------------------------------------------------------

CacheNext ==
    \/ PageOpens \/ PageCloses
    \/ FetchServed \/ FetchArrives \/ FetchFails
    \/ GrowsStale \/ Collected
    \/ \E e \in Edits : EditSent(e) \/ EditCommits(e) \/ EditAnswered(e) \/ EditFails(e)
    \/ \E org \in Tenants : SwitchOrganization(org) \/ SignInAgain(org)

CacheSpec == CacheInit /\ [][CacheNext]_cacheVars

CacheTypeOK ==
    /\ watched \in DOMAIN HookQuery
    /\ tenant \in Tenants
    /\ entry \in [data : {NoData} \cup [tenant : Tenants, seen : SUBSET Edits, blind : BOOLEAN],
                  stale : BOOLEAN, open : BOOLEAN]
    /\ fetching.at \in {"idle", "sent", "served"}
    /\ \A e \in Edits : edit[e].at \in
        {"new", "sent", "committed", "answered", "lost", "refused"}

---------------------------------------------------------------------------
(* Properties *)

TakenForFresh == entry.data # NoData /\ ~entry.stale /\ ~entry.data.blind

\* Mutations that were answered and are not late for the watched query.
Answered(org) ==
    {e \in Committed(org) : edit[e].at = "answered" /\ ~edit[e].late}

\* Data a page takes for fresh belong to the organization of the session and show every
\* mutation this tab was told of, but those that are late for the query, unless their fetch was
\* already under way when the mutation was answered or the organization changed, or the user
\* signed in again over them.
FreshShowsAnswered ==
    TakenForFresh =>
        /\ OfTenant(HookQuery[watched]) => entry.data.tenant = tenant
        /\ Answered(entry.data.tenant) \subseteq entry.data.seen

\* Expected to fail: categories that a page shows and takes for fresh count the products this
\* tab was told were created, moved or deleted ("invalidateQueries correctos al mutar datos").
\* The hooks of products only invalidate products.
CategoriesCountProducts ==
    TakenForFresh /\ entry.open /\ watched = "useCategories" =>
        \A e \in Committed(entry.data.tenant) :
            edit[e].at = "answered" /\ "productCount" \in edit[e].wrote => e \in entry.data.seen

=============================================================================
