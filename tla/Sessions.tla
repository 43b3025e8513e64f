------------------------------ MODULE Sessions ------------------------------
(***************************************************************************)
(* AuthService and JwtStrategy: the sessions of one user who belongs to    *)
(* two organizations, with what AdminService and UsersService do to them.  *)
(*                                                                         *)
(* A session is a pair of tokens: an access token, which carries an        *)
(* organization and the tokenVersion of the user, and a refresh token, a   *)
(* row that can be revoked.  A request presents a token, reads the user,   *)
(* the membership and the organization one after another, and then writes  *)
(* without looking again.  A pair is known by the request that made it.    *)
(*                                                                         *)
(* An expired refresh token is refused like a revoked one, and the status  *)
(* values TRIAL and PAST_DUE are allowed like ACTIVE.  A change or a reset *)
(* of the password touches no token.  The super administrator, who has no  *)
(* organization, is left out.                                              *)
(***************************************************************************)
EXTENDS Naturals

CONSTANTS
    SessionRequests,
    FirstOrg, OtherOrg, \* the organizations of the user, in the order they were joined
    NoPair              \* no token

ASSUME SessionsAssumption == FirstOrg # OtherOrg /\ NoPair \notin SessionRequests

VARIABLES
    userActive,
    tokenVersion,       \* User.tokenVersion
    memberOf,           \* the organizations the user belongs to
    orgStatus,
    pair,               \* the pairs issued, with whoever revoked their refresh token
    sessionRequest,     \* progress of each request
    before              \* history: the requests that had ended when a request began

userVars == <<userActive, memberOf, orgStatus>>
sessionVars == <<userVars, tokenVersion, pair, sessionRequest, before>>

Orgs == {FirstOrg, OtherOrg}
NoPairYet == [issued |-> FALSE, org |-> FirstOrg, version |-> 0, revokedBy |-> NoPair]
Live(p) == p # NoPair /\ pair[p].issued /\ pair[p].revokedBy = NoPair

SessionIdle == [at |-> "new", op |-> "none", token |-> NoPair, org |-> FirstOrg, version |-> 0]
SessionAt(r, step) == sessionRequest[r].at = step
Ended(r) == sessionRequest[r].at \in {"done", "refused", "failed", "answered"}
Overlapped(r, s) == r \notin before[s] /\ s \notin before[r]

SessionsInit ==
    /\ userActive = TRUE
    /\ tokenVersion = 0
    /\ memberOf = Orgs
    /\ orgStatus = [o \in Orgs |-> "ACTIVE"]
    /\ pair = [r \in SessionRequests |-> NoPairYet]
    /\ sessionRequest = [r \in SessionRequests |-> SessionIdle]
    /\ before = [r \in SessionRequests |-> {}]

\* The client sends a request with a token and, for a login or a switch, an organization.
Send(r, op, token, org) ==
    /\ SessionAt(r, "new")
    /\ sessionRequest' = [sessionRequest EXCEPT ![r] =
           [at |-> "sent", op |-> op, token |-> token, org |-> org, version |-> 0]]
    /\ UNCHANGED <<userVars, tokenVersion, pair, before>>

SessionGoto(r, step) == sessionRequest' = [sessionRequest EXCEPT ![r].at = step]

\* The first statement of a request.
BeginSession(r, op) ==
    /\ SessionAt(r, "sent") /\ sessionRequest[r].op = op
    /\ before' = [before EXCEPT ![r] = {q \in SessionRequests : Ended(q)}]

Revoke(revoked, r) ==
    pair' = [p \in SessionRequests |->
        IF p \in revoked /\ Live(p) THEN [pair[p] EXCEPT !.revokedBy = r] ELSE pair[p]]

---------------------------------------------------------------------------
(* login and selectOrganization, refresh, selectOrg: one shape *)

\* JwtStrategy.validate: user, version and membership of an access token.
Accepted(p) ==
    /\ p # NoPair
    /\ userActive
    /\ pair[p].issued /\ pair[p].version = tokenVersion
    /\ pair[p].org \in memberOf

\* Mutant: a refresh token is not asked whether it was revoked.
PresentableToken(op, p) ==
    /\ op = "refresh" => p # NoPair /\ pair[p].issued
    /\ op = "switch" => Accepted(p)
Presentable(op, p) ==
    /\ op = "refresh" => Live(p)
    /\ op = "switch" => Accepted(p)

ReadUser(r, op) ==
    /\ BeginSession(r, op)
    /\ IF userActive /\ Presentable(op, sessionRequest[r].token)
       THEN sessionRequest' = [sessionRequest EXCEPT ![r].at = "member",
                                                     ![r].version = tokenVersion]
       ELSE SessionGoto(r, "refused")
    /\ UNCHANGED <<userVars, tokenVersion, pair>>

\* The organization asked for, or for a refresh the first one the user joined.
SoughtOrgs(r) ==
    IF sessionRequest[r].op # "refresh" THEN memberOf \cap {sessionRequest[r].org}
    ELSE IF FirstOrg \in memberOf THEN {FirstOrg} ELSE memberOf

ReadMembership(r) ==
    /\ SessionAt(r, "member")
    /\ \/ \E o \in SoughtOrgs(r) :
            sessionRequest' = [sessionRequest EXCEPT ![r].at = "status", ![r].org = o]
       \/ SoughtOrgs(r) = {} /\ SessionGoto(r, "refused")
    /\ UNCHANGED <<userVars, tokenVersion, pair, before>>

Suspended(r) == orgStatus[sessionRequest[r].org] = "SUSPENDED"

WriteStep(op) == CASE op = "login" -> "issue" [] op = "refresh" -> "rotate" [] op = "switch" -> "bump"

ReadStatus(r) ==
    /\ SessionAt(r, "status")
    /\ SessionGoto(r, IF Suspended(r) THEN "refused" ELSE WriteStep(sessionRequest[r].op))
    /\ UNCHANGED <<userVars, tokenVersion, pair, before>>

\* refresh revokes the token it was given, and no other.
RotateToken(r) ==
    /\ SessionAt(r, "rotate")
    /\ Revoke({sessionRequest[r].token}, r)
    /\ SessionGoto(r, "issue")
    /\ UNCHANGED <<userVars, tokenVersion, before>>

\* revokeUserTokens, in two statements.
BumpVersion(r) ==
    /\ SessionAt(r, "bump")
    /\ tokenVersion' = tokenVersion + 1
    /\ sessionRequest' = [sessionRequest EXCEPT ![r].at = "revoke", ![r].version = tokenVersion + 1]
    /\ UNCHANGED <<userVars, pair, before>>

RevokeUser(r) ==
    /\ SessionAt(r, "revoke")
    /\ Revoke(SessionRequests, r)
    /\ SessionGoto(r, "issue")
    /\ UNCHANGED <<userVars, tokenVersion, before>>

\* generateTokenPair
IssuePair(r) ==
    /\ SessionAt(r, "issue")
    /\ pair' = [pair EXCEPT ![r] = [issued |-> TRUE, org |-> sessionRequest[r].org,
                                    version |-> sessionRequest[r].version, revokedBy |-> NoPair]]
    /\ SessionGoto(r, "done")
    /\ UNCHANGED <<userVars, tokenVersion, before>>

\* logout never fails.
LogoutToken(r) ==
    /\ BeginSession(r, "logout")
    /\ Revoke({sessionRequest[r].token}, r)
    /\ SessionGoto(r, "done")
    /\ UNCHANGED <<userVars, tokenVersion>>

---------------------------------------------------------------------------
(* AdminService.updateStatus: the status, the members, and one transaction *)

SuspendOrg(r) ==
    /\ BeginSession(r, "suspend")
    /\ orgStatus' = [orgStatus EXCEPT ![sessionRequest[r].org] = "SUSPENDED"]
    /\ SessionGoto(r, "members")
    /\ UNCHANGED <<userActive, memberOf, tokenVersion, pair>>

ReadMembers(r) ==
    /\ SessionAt(r, "members")
    /\ SessionGoto(r, IF sessionRequest[r].org \in memberOf THEN "revokeMembers" ELSE "done")
    /\ UNCHANGED <<userVars, tokenVersion, pair, before>>

\* Mutant: the access tokens keep their version.
VersionKept == tokenVersion
NextVersion == tokenVersion + 1

RevokeMembers(r) ==
    /\ SessionAt(r, "revokeMembers")
    /\ Revoke(SessionRequests, r)
    /\ tokenVersion' = NextVersion
    /\ SessionGoto(r, "done")
    /\ UNCHANGED <<userVars, before>>

ReactivateOrg(r) ==
    /\ BeginSession(r, "reactivate")
    /\ orgStatus' = [orgStatus EXCEPT ![sessionRequest[r].org] = "ACTIVE"]
    /\ SessionGoto(r, "done")
    /\ UNCHANGED <<userActive, memberOf, tokenVersion, pair>>

\* removeOrganizationMember
LeaveOrg(r) ==
    /\ BeginSession(r, "leave")
    /\ memberOf' = memberOf \ {sessionRequest[r].org}
    /\ SessionGoto(r, "done")
    /\ UNCHANGED <<userActive, orgStatus, tokenVersion, pair>>

\* UsersService.toggleActive writes the opposite of what it read.
ToggleRead(r) ==
    /\ BeginSession(r, "toggle")
    /\ SessionGoto(r, IF userActive THEN "deactivate" ELSE "activate")
    /\ UNCHANGED <<userVars, tokenVersion, pair>>

ToggleWrite(r) ==
    /\ sessionRequest[r].at \in {"deactivate", "activate"}
    /\ userActive' = SessionAt(r, "activate")
    /\ SessionGoto(r, "done")
    /\ UNCHANGED <<memberOf, orgStatus, tokenVersion, pair, before>>

\* The process ends, or the connection to the database.  Before its first write a
\* request that fails leaves what a refused one leaves.
SessionInterrupted(r) ==
    /\ sessionRequest[r].at \in {"revoke", "issue", "revokeMembers"}
    /\ SessionGoto(r, "failed")
    /\ UNCHANGED <<userVars, tokenVersion, pair, before>>

---------------------------------------------------------------------------
\* Who sends "suspend", "reactivate", "leave" and "toggle" is an administrator.
AdminSends(r) ==
    \/ \E op \in {"suspend", "leave"}, o \in Orgs : Send(r, op, NoPair, o)
    \/ \E o \in Orgs : orgStatus[o] = "SUSPENDED" /\ Send(r, "reactivate", NoPair, o)
    \/ Send(r, "toggle", NoPair, FirstOrg)

SessionStep(r) ==
    \/ \E op \in {"login", "refresh", "switch"} : ReadUser(r, op)
    \/ ReadMembership(r) \/ ReadStatus(r) \/ RotateToken(r) \/ BumpVersion(r) \/ RevokeUser(r)
    \/ IssuePair(r) \/ LogoutToken(r) \/ SuspendOrg(r) \/ ReadMembers(r) \/ RevokeMembers(r)
    \/ ReactivateOrg(r) \/ LeaveOrg(r) \/ ToggleRead(r) \/ ToggleWrite(r)

---------------------------------------------------------------------------
SessionsTypeOK ==
    /\ userActive \in BOOLEAN
    /\ tokenVersion \in Nat
    /\ memberOf \subseteq Orgs
    /\ orgStatus \in [Orgs -> {"ACTIVE", "SUSPENDED"}]
    /\ pair \in [SessionRequests -> [issued : BOOLEAN, org : Orgs, version : Nat,
                                     revokedBy : SessionRequests \cup {NoPair}]]
    /\ sessionRequest \in [SessionRequests ->
         [at : {"new", "sent", "member", "status", "rotate", "bump", "revoke", "issue", "members",
                "revokeMembers", "deactivate", "activate", "done", "refused", "failed", "answered"},
          op : {"none", "login", "refresh", "switch", "logout", "suspend", "reactivate", "leave",
                "toggle"},
          token : SessionRequests \cup {NoPair}, org : Orgs, version : Nat]]
    /\ before \in [SessionRequests -> SUBSET SessionRequests]

\* A refresh token is exchanged once, unless two exchanges of it overlapped: the
\* read and the revocation are two statements (auth.service.ts:275-335).
ExchangedOnce ==
    \A r, s \in SessionRequests :
        /\ r # s
        /\ sessionRequest[r].op = "refresh" /\ sessionRequest[s].op = "refresh"
        /\ sessionRequest[r].token = sessionRequest[s].token
        /\ pair[r].issued /\ pair[s].issued
        => Overlapped(r, s)

\* A session that a switch or a suspension found is over for good: neither its
\* refresh token nor its access token is accepted again, whatever overlapped; a
\* session that outlives one was opened while it ran, or later
\* (auth.service.ts:359-371, 422-441).
RevocationEndsSessions ==
    \A v, p \in SessionRequests :
        /\ sessionRequest[v].op \in {"switch", "suspend"} /\ SessionAt(v, "done")
        /\ p \in before[v] /\ pair[p].issued
        /\ sessionRequest[v].op = "suspend" => sessionRequest[v].org \in memberOf
        => ~Live(p) /\ ~Accepted(p)

\* A session that was refreshed is in the organization it was in
\* (src/frontend/src/lib/session.ts:6-8: a reload "intentionally loses the
\* token; AuthContext restores the session silently").
RefreshKeepsOrganization ==
    \A r \in SessionRequests :
        LET from == sessionRequest[r].token
        IN sessionRequest[r].op = "refresh" /\ pair[r].issued /\ pair[from].org \in memberOf
            => pair[r].org = pair[from].org
=============================================================================
