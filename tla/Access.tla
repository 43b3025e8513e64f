------------------------------- MODULE Access -------------------------------
(***************************************************************************)
(* Who is shown which page, and who is served what it calls: the role a    *)
(* tab shows, the redirects of the layouts, and RolesGuard.                *)
(*                                                                         *)
(* The server reads the role of a member at every request (JwtStrategy).   *)
(* The tab keeps the one it was told when its user signed in, switched the *)
(* organization or loaded a page; a role that is changed, and a refresh of *)
(* the access token, which leads into the organization joined first, leave *)
(* it as it is.                                                            *)
(*                                                                         *)
(* OrganizationStatusGuard is not modelled: it is global, so it runs       *)
(* before a controller's JwtAuthGuard has found a user, and passes.        *)
(***************************************************************************)
EXTENDS Pages, ServerRoutes

CONSTANTS
    AccessOrgs,         \* organizations the user belongs to
    JoinedFirst,        \* the one with the oldest membership
    SignedOut

ASSUME AccessAssumption == JoinedFirst \in AccessOrgs /\ SignedOut \notin AccessOrgs

VARIABLES
    grantedRole,        \* the role in each organization, on the server
    session,            \* the organization of the tab's access token
    shownRole,          \* user.role in the tab
    address             \* the page it shows

accessVars == <<grantedRole, session, shownRole, address>>

AccessRoles == AppRoles \ {"SUPER_ADMIN"}
SuperAdmin == \A org \in AccessOrgs : grantedRole[org] = "SUPER_ADMIN"
Login == <<"login">>

\* validateUser: the profile shows an owner as an administrator.
ProfileRole(role) == IF role = "OWNER" THEN "ADMIN" ELSE role

---------------------------------------------------------------------------
(* The server *)

\* Mutant: no role inherits another one.
InheritedByNobody(role) == {role}

\* getInheritedRoles
InheritedRoles(role) ==
    CASE role = "OWNER" -> {"OWNER", "ADMIN", "MEMBER", "CASHIER"}
      [] role = "ADMIN" -> {"ADMIN", "MEMBER", "CASHIER"}
      [] role = "MEMBER" -> {"MEMBER", "CASHIER"}
      [] OTHER -> {role}

\* RolesGuard
Passes(role, required) ==
    \/ required = {}
    \/ role = "SUPER_ADMIN"
    \/ InheritedRoles(role) \cap required # {}

AllCalls ==
    {[name |-> hook.name, at |-> hook.at] :
        hook \in HookQueries \cup HookMutations \cup ExportCalls \cup SessionCalls}
\* The calls that are answered to a role.
ServedCalls == [role \in AppRoles |->
    {hook.name : hook \in {c \in AllCalls :
        \E route \in ServedRoutes : route.at = c.at /\ Passes(role, route.roles)}}]

---------------------------------------------------------------------------
(* The tab *)

PageAt == [a \in {p.at : p \in AllPages} |-> CHOOSE p \in AllPages : p.at = a]
OfAdmin(a) == Head(a) = "admin"

\* DashboardLayout and AdminLayout: the role may see the page.
InPlace(role, a) ==
    IF OfAdmin(a) THEN role = "SUPER_ADMIN"
    ELSE \/ role = "SUPER_ADMIN"
         \/ Head(a) \notin DOMAIN RouteRoles
         \/ role \in Having(RouteRoles[Head(a)])
\* Where it is sent to otherwise.
Refuge(role, a) == IF role = "CASHIER" /\ ~OfAdmin(a) THEN <<"pos">> ELSE <<"dashboard">>
Landing(role) == IF role = "SUPER_ADMIN" THEN <<"admin">> ELSE <<"dashboard">>

AccessInit ==
    /\ \/ grantedRole \in [AccessOrgs -> AccessRoles]
       \/ grantedRole = [org \in AccessOrgs |-> "SUPER_ADMIN"]
    /\ session = SignedOut
    /\ shownRole = "nobody"
    /\ address = Login

\* The answer to a login, a choice or a switch of the organization.
Enter(org) ==
    /\ session' = org
    /\ shownRole' = grantedRole[org]
    /\ address' = Landing(grantedRole[org])
    /\ UNCHANGED grantedRole

SignIn(org) == session = SignedOut /\ Enter(org)

Switch(org) == session # SignedOut /\ ~SuperAdmin /\ Enter(org)

SignOut ==
    /\ session # SignedOut
    /\ session' = SignedOut /\ shownRole' = "nobody" /\ address' = Login
    /\ UNCHANGED grantedRole

\* A page is loaded: restoreSession refreshes the token and reads the profile.
OpenAddress(a) ==
    /\ session # SignedOut
    /\ session' = JoinedFirst
    /\ shownRole' = ProfileRole(grantedRole[JoinedFirst])
    /\ address' = a
    /\ UNCHANGED grantedRole

\* The access token has expired or was refused.
TokenRefreshed ==
    /\ session # SignedOut
    /\ session' = JoinedFirst
    /\ UNCHANGED <<grantedRole, shownRole, address>>

\* The links of a page and those of the layout around it.
Shown(a) ==
    PageAt[a].links \cup (IF OfAdmin(a) THEN {} ELSE SidebarLinks)

Follow ==
    /\ session # SignedOut /\ address \in DOMAIN PageAt
    /\ OfAdmin(address) => InPlace(shownRole, address)
    /\ \E link \in Shown(address) :
        /\ shownRole \in link.to
        /\ link.needs = "none" \/ link.needs \in ServedCalls[grantedRole[session]]
        /\ address' = link.page
    /\ UNCHANGED <<grantedRole, session, shownRole>>

\* The effect of a layout; and the pages that only lead elsewhere.
Redirect ==
    /\ session # SignedOut
    /\ \/ address \in DOMAIN PageAt /\ ~InPlace(shownRole, address)
          /\ address' = Refuge(shownRole, address)
       \/ Len(address) = 1 /\ Head(address) \in DOMAIN Forwards
          /\ address' = Forwards[Head(address)]
    /\ UNCHANGED <<grantedRole, session, shownRole>>

\* AdminService.updateMemberRole; no route of an organization changes a role
GrantRole(org, role) ==
    /\ ~SuperAdmin
    /\ grantedRole' = [grantedRole EXCEPT ![org] = role]
    /\ UNCHANGED <<session, shownRole, address>>

AccessNext ==
    \/ \E org \in AccessOrgs : SignIn(org) \/ Switch(org)
    \/ SignOut \/ TokenRefreshed \/ Follow \/ Redirect
    \/ \E a \in DOMAIN PageAt \cup {<<section>> : section \in DOMAIN Forwards} : OpenAddress(a)
    \/ \E org \in AccessOrgs, role \in AccessRoles : GrantRole(org, role)

AccessSpec == AccessInit /\ [][AccessNext]_accessVars

AccessTypeOK ==
    /\ grantedRole \in [AccessOrgs -> AppRoles]
    /\ session \in AccessOrgs \cup {SignedOut}
    /\ shownRole \in AppRoles \cup {"nobody"}
    /\ address \in DOMAIN PageAt \cup {<<section>> : section \in DOMAIN Forwards} \cup {Login}

---------------------------------------------------------------------------
(* Properties *)

\* What a page calls when it is opened, and all it may call.
Loaded(role, a) ==
    PageAt[a].loads
        \cup (IF OfAdmin(a) THEN {} ELSE SwitcherLoads(role) \cup BannerLoads)
Callable == [role \in AppRoles |-> [a \in DOMAIN PageAt |->
    Loaded(role, a) \cup UNION {offer.calls : offer \in
        {o \in PageAt[a].offers \cup (IF OfAdmin(a) THEN {} ELSE SidebarOffers) : role \in o.to}}]]

\* The calls that pages of a role make although RolesGuard refuses them: an inventory user's,
\* the tasks and categories of a cashier and the scanner of the point of sale, and its settings.
Mismatched == [role \in AppRoles |->
    CASE role = "MEMBER" -> {"useSettings"}
      [] role = "CASHIER" ->
            {"useSettings", "useCategories", "useQuickSearchProduct"} \cup Callable[role][<<"tasks">>]
      [] role = "INVENTORY_USER" -> UNION {Callable[role][a] : a \in DOMAIN PageAt}
      [] OTHER -> {}]

\* The tab shows the role the server would answer with.
Current == session # SignedOut /\ shownRole \in {grantedRole[session], ProfileRole(grantedRole[session])}

\* On a page of its own role a tab is answered what it calls, and no link leads to a page it is
\* sent away from (products.controller.ts:50, roles.guard.ts:56-74, DashboardLayout.tsx:12-66).
CallsServed ==
    \/ ~InPlace(shownRole, address)
    \/ Callable[shownRole][address] \subseteq
           ServedCalls[grantedRole[session]] \cup Mismatched[grantedRole[session]]
LinksStay ==
    \A link \in Shown(address) :
        shownRole \in link.to /\ link.needs \in ServedCalls[grantedRole[session]] \cup {"none"} =>
            InPlace(shownRole, link.page) \/ Head(link.page) \in DOMAIN Forwards
\* A layout sends a user to a page of the role, from an admin page by way of another one; a
\* member stays on one that is not.
RedirectsEnd ==
    LET refuge == Refuge(shownRole, address)
    IN  \/ InPlace(shownRole, address)
        \/ InPlace(shownRole, refuge)
        \/ OfAdmin(address) /\ InPlace(shownRole, Refuge(shownRole, refuge))
        \/ shownRole = "MEMBER"
PagesFitRoles ==
    Current /\ address \in DOMAIN PageAt =>
        CallsServed /\ (InPlace(shownRole, address) => LinksStay) /\ RedirectsEnd
=============================================================================
