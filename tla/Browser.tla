------------------------------ MODULE Browser ------------------------------
(***************************************************************************)
(* ApiClient and AuthContext: the tabs of one browser, in front of         *)
(* Sessions.                                                               *)
(*                                                                         *)
(* A tab keeps its access token in memory, and the browser one refresh     *)
(* token in a cookie that all tabs share.  When it loads, a tab restores   *)
(* its session with POST /auth/refresh while the queries of its page are   *)
(* already under way; a query that is answered 401 refreshes the session   *)
(* too, once for all queries of the tab.  The cookie travels when the      *)
(* request is sent and is written when the answer arrives, so answers can  *)
(* be lost, or come in another order than the server gave them.            *)
(*                                                                         *)
(* The user also logs in from other devices, and administrators act on the *)
(* organizations.  The profile a tab reads after a refresh is a query like *)
(* any other.                                                              *)
(***************************************************************************)
EXTENDS Sessions

CONSTANT Tabs

VARIABLES
    jar,                \* the refresh_token cookie
    tab,                \* the tabs
    dropped             \* history: requests whose answer did not reach the browser

browserVars == <<sessionVars, jar, tab, dropped>>

ClosedTab == [page |-> "closed", token |-> NoPair, restore |-> NoPair, refresh |-> NoPair,
              sign |-> NoPair]

\* Every tab shows the login page: it was loaded before, when there was no cookie.
BrowserInit ==
    /\ SessionsInit
    /\ jar = NoPair
    /\ tab = [t \in Tabs |-> [ClosedTab EXCEPT !.page = "login"]]
    /\ dropped = {}

Waits(t) == {tab[t].restore, tab[t].refresh, tab[t].sign} \ {NoPair}
Succeeded(r) == SessionAt(r, "done")

---------------------------------------------------------------------------
(* What a tab sends *)

\* A reload forgets the token and whatever the tab was waiting for; restoreSession.
TabLoads(t, r) ==
    /\ Send(r, "refresh", jar, FirstOrg)
    /\ tab' = [tab EXCEPT ![t] = [ClosedTab EXCEPT !.page = "loading", !.restore = r]]
    /\ dropped' = dropped \cup Waits(t)
    /\ UNCHANGED jar

\* A query of the page is answered 401: it had no token, or one that is revoked or
\* has expired.  The interceptor starts a refresh, or joins the one it started.
TabUnauthorized(t, r) ==
    /\ tab[t].page \in {"loading", "ready"}
    /\ tab[t].refresh = NoPair
    /\ Send(r, "refresh", jar, FirstOrg)
    /\ tab' = [tab EXCEPT ![t].refresh = r]
    /\ UNCHANGED <<jar, dropped>>

TabLogsIn(t, r) ==
    /\ tab[t].page = "login" /\ tab[t].sign = NoPair
    /\ \E org \in Orgs : Send(r, "login", NoPair, org)
    /\ tab' = [tab EXCEPT ![t].sign = r]
    /\ UNCHANGED <<jar, dropped>>

TabSwitches(t, r) ==
    /\ tab[t].page = "ready" /\ tab[t].sign = NoPair
    /\ \E org \in Orgs : Send(r, "switch", tab[t].token, org)
    /\ tab' = [tab EXCEPT ![t].sign = r]
    /\ UNCHANGED <<jar, dropped>>

\* logout does not wait for the answer.
TabLogsOut(t, r) ==
    /\ tab[t].page = "ready"
    /\ Send(r, "logout", jar, FirstOrg)
    /\ tab' = [tab EXCEPT ![t].page = "login", ![t].token = NoPair]
    /\ UNCHANGED <<jar, dropped>>

---------------------------------------------------------------------------
(* What a tab does with an answer *)

\* Mutant: a rotated pair is only returned in the body.
JarAfterSign(r) == IF sessionRequest[r].op = "refresh" THEN jar ELSE r
JarAfter(r) == r

\* Tokens: the cookie of the browser and the token of the tab are replaced.
SessionArrives(t, r) ==
    /\ Succeeded(r) /\ r \in Waits(t)
    /\ sessionRequest[r].op # "logout"
    /\ jar' = JarAfter(r)
    /\ tab' = [tab EXCEPT ![t] = [tab[t] EXCEPT
           !.token = r,
           !.page = IF r = tab[t].refresh THEN tab[t].page ELSE "ready",
           !.restore = IF @ = r THEN NoPair ELSE @,
           !.refresh = IF @ = r THEN NoPair ELSE @,
           !.sign = IF @ = r THEN NoPair ELSE @]]
    /\ SessionGoto(r, "answered")
    /\ UNCHANGED <<userVars, tokenVersion, pair, before, dropped>>

\* restoreSession gives up: the login page.  So does the interceptor, which loads
\* that page anew, like any other.
Refused(t, r) ==
    IF r = tab[t].sign THEN [tab[t] EXCEPT !.sign = NoPair]
    ELSE IF r = tab[t].restore
         THEN [tab[t] EXCEPT !.page = "login", !.token = NoPair, !.restore = NoPair]
    ELSE ClosedTab

RefusalArrives(t, r) ==
    /\ sessionRequest[r].at \in {"refused", "failed"} /\ r \in Waits(t)
    /\ tab' = [tab EXCEPT ![t] = Refused(t, r)]
    /\ dropped' = IF r = tab[t].refresh THEN dropped \cup (Waits(t) \ {r}) ELSE dropped
    /\ SessionGoto(r, "answered")
    /\ UNCHANGED <<userVars, tokenVersion, pair, before, jar>>

\* The network loses an answer: for the tab that is an error, like a refusal.
AnswerLost(t, r) ==
    /\ Succeeded(r) /\ r \in Waits(t)
    /\ tab' = [tab EXCEPT ![t] = Refused(t, r)]
    /\ dropped' = dropped \cup (IF r = tab[t].refresh THEN Waits(t) ELSE {r})
    /\ SessionGoto(r, "answered")
    /\ UNCHANGED <<userVars, tokenVersion, pair, before, jar>>

\* The answer of a logout clears the cookies of the browser as they are then.
LogoutArrives(r) ==
    /\ Succeeded(r) /\ sessionRequest[r].op = "logout"
    /\ jar' = NoPair
    /\ SessionGoto(r, "answered")
    /\ UNCHANGED <<userVars, tokenVersion, pair, before, tab, dropped>>

---------------------------------------------------------------------------
ElsewhereLogsIn(r) == \E org \in Orgs : Send(r, "login", NoPair, org) /\ UNCHANGED <<jar, tab, dropped>>

ServerStep(r) ==
    /\ SessionStep(r) \/ SessionInterrupted(r) \/ AdminSends(r)
    /\ UNCHANGED <<jar, tab, dropped>>

TabStep(t, r) ==
    \/ TabLoads(t, r) \/ TabUnauthorized(t, r) \/ TabLogsIn(t, r) \/ TabSwitches(t, r)
    \/ TabLogsOut(t, r) \/ SessionArrives(t, r) \/ RefusalArrives(t, r) \/ AnswerLost(t, r)

BrowserNext ==
    \E r \in SessionRequests :
        ServerStep(r) \/ ElsewhereLogsIn(r) \/ LogoutArrives(r) \/ \E t \in Tabs : TabStep(t, r)

BrowserSpec == BrowserInit /\ [][BrowserNext]_browserVars

---------------------------------------------------------------------------
BrowserTypeOK ==
    /\ SessionsTypeOK
    /\ jar \in SessionRequests \cup {NoPair}
    /\ tab \in [Tabs -> [page : {"closed", "loading", "ready", "login"},
                         token : SessionRequests \cup {NoPair},
                         restore : SessionRequests \cup {NoPair},
                         refresh : SessionRequests \cup {NoPair},
                         sign : SessionRequests \cup {NoPair}]]
    /\ dropped \subseteq SessionRequests

\* The cookie of the browser can be exchanged, unless a logout, a switch or a
\* suspension has revoked it, an exchange of it is not answered yet or has
\* failed, or its answer was lost: tabs that share the cookie do not use up one
\* another's session (api.ts:188-218, AuthContext.tsx:95-113).
CookieUsable ==
    jar = NoPair \/ Live(jar) \/
    LET by == pair[jar].revokedBy
    IN \/ sessionRequest[by].op # "refresh"
       \/ ~pair[by].issued \/ ~SessionAt(by, "answered") \/ by \in dropped
=============================================================================
