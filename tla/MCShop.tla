------------------------------ MODULE MCShop ------------------------------
(***************************************************************************)
(* Small instances of what the people of an organization share: sessions   *)
(* and the browser in front of them, members, cash registers, tills,       *)
(* reports and imports.  As in MCOffice, a behaviour runs one of these     *)
(* modules.                                                                *)
(***************************************************************************)
EXTENDS Browser, Members, CashRegisters, Till, Reports, Imports, TLC

CONSTANTS
    Services,           \* the modules a run looks at
    MCRequests, MCPair, MCOtherPair

MCSymmetry ==
    Permutations(MCRequests) \cup Permutations(MCPair) \cup Permutations(MCOtherPair)
MCAccounts == MCPair \cup {Owner}

VARIABLE service        \* the one this behaviour runs

\* A tab has logged in: a state that BrowserInit leads to, so that it adds no other, and from
\* which TLC finds sooner what needs several exchanges.
LoggedIn ==
    /\ userActive = TRUE /\ tokenVersion = 0 /\ memberOf = Orgs /\ dropped = {}
    /\ orgStatus = [org \in Orgs |-> "ACTIVE"]
    /\ before = [r \in SessionRequests |-> {}]
    /\ \E first \in SessionRequests, t \in Tabs, org \in Orgs :
          /\ pair = [r \in SessionRequests |->
                IF r = first THEN [NoPairYet EXCEPT !.issued = TRUE, !.org = org] ELSE NoPairYet]
          /\ sessionRequest = [r \in SessionRequests |->
                IF r = first THEN [SessionIdle EXCEPT !.at = "answered", !.op = "login", !.org = org]
                ELSE SessionIdle]
          /\ jar = first
          /\ tab = [u \in Tabs |->
                [ClosedTab EXCEPT !.page = IF u = t THEN "ready" ELSE "login",
                                  !.token = IF u = t THEN first ELSE NoPair]]

\* Two retries, or a product of somebody else next to one.
FewImporters ==
    \/ skus \cap ImportSkus \subseteq {made[2] : made \in madeBy}
    \/ Cardinality({t \in ImportRetries : retry[t].at # "new"}) <= 1

\* The modules that rest are in one state.
MCInit ==
    /\ service \in Services
    /\ BrowserInit \/ (service = "browser" /\ LoggedIn)
    /\ MembersInit
    /\ service = "members" \/ \A u \in MCPair, f \in Firms : membership[u][f].role = "CASHIER"
    /\ RegistersInit /\ (service = "registers" \/ basic)
    /\ TillInit
    /\ ReportsInit
    /\ ImportsInit /\ (service = "imports" \/ skus = {})

\* Every module but that one is left alone.
Rest(name, variables) == IF service = name THEN TRUE ELSE UNCHANGED variables
OthersRest ==
    /\ UNCHANGED service
    /\ Rest("browser", browserVars)
    /\ Rest("members", memberVars)
    /\ Rest("registers", registerVars)
    /\ Rest("till", tillVars)
    /\ Rest("reports", reportVars)
    /\ Rest("imports", importVars)

MCNext ==
    \/ service = "browser" /\ BrowserNext /\ OthersRest
    \/ service = "members" /\ MembersNext /\ OthersRest
    \/ service = "registers" /\ RegistersNext /\ OthersRest
    \/ service = "till" /\ TillNext /\ OthersRest
    \/ service = "reports" /\ ReportsNext /\ OthersRest
    \/ service = "imports" /\ ImportsNext /\ FewImporters' /\ OthersRest

\* Every module keeps its types.
ShopTypeOK ==
    /\ service = "browser" => BrowserTypeOK
    /\ service = "members" => MembersTypeOK
    /\ service = "registers" => RegistersTypeOK
    /\ service = "till" => TillTypeOK
    /\ service = "reports" => ReportsTypeOK
    /\ service = "imports" => ImportsTypeOK
=============================================================================
