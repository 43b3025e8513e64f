------------------------------ MODULE Members ------------------------------
(***************************************************************************)
(* AdminService and UsersService: who belongs to which organization, with  *)
(* which role, and who is its primary owner.                               *)
(*                                                                         *)
(* The super administrator transfers the primary ownership, adds and       *)
(* removes members and changes roles; an administrator of an organization  *)
(* creates, removes and (de)activates its users.  Each request reads,      *)
(* checks and then writes by the id of the row it read, which fails when   *)
(* that row is gone.  An account is shared by all its organizations, and   *)
(* is deleted with its last membership.                                    *)
(***************************************************************************)
EXTENDS Naturals, FiniteSets

CONSTANTS
    MemberRequests,
    Accounts,           \* the users
    Owner,              \* the account each organization was created for
    Firms               \* the organizations

ASSUME MembersAssumption == Owner \in Accounts /\ MemberRequests \cap {"first", "none"} = {}

VARIABLES
    account,            \* the rows of User
    membership,         \* the rows of OrganizationUser, with the request that inserted them
    memberRequest,      \* progress of each request
    memberOverlap,      \* history: the pairs of requests that ran at the same time
    outside             \* history: where the super administrator or another firm interfered

memberVars == <<account, membership, memberRequest, memberOverlap, outside>>

Roles == {"ADMIN", "CASHIER"}
Stranger == [row |-> "none", role |-> "CASHIER", primary |-> FALSE]
Member(u, f) == membership[u][f].row # "none"
Admin(u, f) == Member(u, f) /\ membership[u][f].role = "ADMIN"
ActiveAdmin(u, f) == Admin(u, f) /\ account[u] = "active"

MemberIdle == [at |-> "new", op |-> "none", firm |-> "none", user |-> Owner, row |-> "none",
               other |-> Owner, otherRow |-> "none", role |-> "CASHIER", active |-> TRUE]
MemberAt(r, step) == memberRequest[r].at = step
Serving(r) == memberRequest[r].at \notin {"new", "done"}

\* Two firms of one owner; the first has a second member of any role.
MembersInit ==
    /\ \E role \in Roles : membership =
           [u \in Accounts |-> [f \in Firms |->
               IF u = Owner THEN [row |-> "first", role |-> "ADMIN", primary |-> TRUE]
               ELSE [row |-> "first", role |-> role, primary |-> FALSE]]]
    /\ account = [u \in Accounts |-> "active"]
    /\ memberRequest = [r \in MemberRequests |-> MemberIdle]
    /\ memberOverlap = {}
    /\ outside = {}

\* A request has read what it needs and goes on.
BeginMember(r, local) ==
    /\ MemberAt(r, "new")
    /\ memberRequest' = [memberRequest EXCEPT ![r] = local]
    /\ memberOverlap' = memberOverlap \cup {{r, q} : q \in {s \in MemberRequests : Serving(s)}}
    /\ UNCHANGED <<membership, outside>>

\* What a request has read is forgotten when it ends.
MemberGoto(r, step) ==
    LET q == memberRequest[r]
    IN /\ memberRequest' = [memberRequest EXCEPT ![r] =
              IF step = "done" THEN [MemberIdle EXCEPT !.at = "done", !.op = q.op, !.firm = q.firm]
              ELSE [q EXCEPT !.at = step]]
       /\ UNCHANGED memberOverlap

\* update or delete by the id that was read: nothing happens when the row is gone.
\* The mark of the primary owner is not among the fields of a role change.
WriteMember(r, u, f, row, new) ==
    membership' = IF membership[u][f].row = row THEN [membership EXCEPT ![u][f] = new]
                  ELSE membership

---------------------------------------------------------------------------
(* AdminService *)

TransferRead(r) ==
    /\ UNCHANGED account
    /\ \E f \in Firms, u, v \in Accounts :
        /\ u # v
        /\ membership[u][f].primary
        /\ Admin(v, f)
        /\ BeginMember(r, [MemberIdle EXCEPT
               !.at = "transfer", !.op = "transfer", !.firm = f,
               !.user = u, !.row = membership[u][f].row,
               !.other = v, !.otherRow = membership[v][f].row])

\* Mutant: the new owner is marked, the old one stays.
Added(u, v, f) == [membership EXCEPT ![v][f].primary = TRUE]
Transferred(u, v, f) == [membership EXCEPT ![u][f].primary = FALSE, ![v][f].primary = TRUE]

TransferWrite(r) ==
    /\ MemberAt(r, "transfer")
    /\ LET q == memberRequest[r]
           found == membership[q.user][q.firm].row = q.row
                    /\ membership[q.other][q.firm].row = q.otherRow
       IN membership' = IF found THEN Transferred(q.user, q.other, q.firm) ELSE membership
    /\ MemberGoto(r, "done")
    /\ UNCHANGED <<account, outside>>

\* addOrganizationMember: the account is inserted before the membership, when there is none.
MemberAddRead(r) ==
    \E f \in Firms, u \in Accounts, role \in Roles :
        /\ ~Member(u, f)
        /\ account' = [account EXCEPT ![u] = IF @ = "none" THEN "active" ELSE @]
        /\ BeginMember(r, [MemberIdle EXCEPT !.at = "add", !.op = "add", !.firm = f, !.user = u,
                                             !.role = role])

Joined(q, r) ==
    membership' = [membership EXCEPT ![q.user][q.firm] =
        [row |-> r, role |-> q.role, primary |-> FALSE]]

\* The unique index refuses a second membership, the foreign key one of a deleted account.
MemberAddWrite(r) ==
    /\ MemberAt(r, "add")
    /\ LET q == memberRequest[r]
       IN IF Member(q.user, q.firm) \/ account[q.user] = "none" THEN UNCHANGED membership
          ELSE Joined(q, r)
    /\ MemberGoto(r, "done")
    /\ UNCHANGED <<account, outside>>

\* UsersService.create: the account and its membership are one insert.
UserCreateRead(r) ==
    /\ UNCHANGED account
    /\ \E f \in Firms, u \in Accounts, role \in Roles :
        /\ account[u] = "none"
        /\ BeginMember(r, [MemberIdle EXCEPT !.at = "create", !.op = "add", !.firm = f, !.user = u,
                                             !.role = role])

UserCreateWrite(r) ==
    /\ MemberAt(r, "create")
    /\ LET q == memberRequest[r]
       IN IF account[q.user] # "none" THEN UNCHANGED <<account, membership>>
          ELSE Joined(q, r) /\ account' = [account EXCEPT ![q.user] = "active"]
    /\ MemberGoto(r, "done")
    /\ UNCHANGED outside

RoleRead(r) ==
    /\ UNCHANGED account
    /\ \E f \in Firms, u \in Accounts, role \in Roles :
        /\ Member(u, f)
        /\ BeginMember(r, [MemberIdle EXCEPT !.at = "role", !.op = "role", !.firm = f, !.user = u,
                                             !.row = membership[u][f].row, !.role = role])

RoleWrite(r) ==
    /\ MemberAt(r, "role")
    /\ LET q == memberRequest[r]
       IN /\ WriteMember(r, q.user, q.firm, q.row,
                         [membership[q.user][q.firm] EXCEPT !.role = q.role])
          /\ outside' = outside \cup {q.firm}
    /\ MemberGoto(r, "done")
    /\ UNCHANGED account

Removable(u, f) == Member(u, f) /\ ~membership[u][f].primary

ExpelRead(r) ==
    /\ UNCHANGED account
    /\ \E f \in Firms, u \in Accounts :
        /\ Removable(u, f)
        /\ BeginMember(r, [MemberIdle EXCEPT !.at = "expel", !.op = "expel", !.firm = f,
                                             !.user = u, !.row = membership[u][f].row])

ExpelWrite(r) ==
    /\ MemberAt(r, "expel")
    /\ LET q == memberRequest[r]
       IN /\ WriteMember(r, q.user, q.firm, q.row, Stranger)
          /\ outside' = outside \cup {q.firm}
    /\ MemberGoto(r, "done")
    /\ UNCHANGED account

---------------------------------------------------------------------------
(* UsersService: the request of an active administrator of the firm *)

OtherAdministrator(u, f) == \E by \in Accounts \ {u} : ActiveAdmin(by, f)

\* remove: not a primary owner, and not the last ADMIN, whom a second query counts.
RemoveRead(r) ==
    /\ UNCHANGED account
    /\ \E f \in Firms, u \in Accounts :
        /\ OtherAdministrator(u, f)
        /\ Removable(u, f)
        /\ BeginMember(r, [MemberIdle EXCEPT
               !.at = IF Admin(u, f) THEN "countAdmins" ELSE "delete", !.op = "remove",
               !.firm = f, !.user = u, !.row = membership[u][f].row])

RemoveCountAdmins(r) ==
    /\ MemberAt(r, "countAdmins")
    /\ LET admins == Cardinality({u \in Accounts : Admin(u, memberRequest[r].firm)})
       IN MemberGoto(r, IF admins <= 1 THEN "done" ELSE "delete")
    /\ UNCHANGED <<account, membership, outside>>

RemoveDelete(r) ==
    /\ MemberAt(r, "delete")
    /\ LET q == memberRequest[r]
       IN /\ WriteMember(r, q.user, q.firm, q.row, Stranger)
          /\ MemberGoto(r, IF membership[q.user][q.firm].row = q.row THEN "countOthers" ELSE "done")
    /\ UNCHANGED <<account, outside>>

Remaining(r) == {f \in Firms : Member(memberRequest[r].user, f)}

RemoveCountOthers(r) ==
    /\ MemberAt(r, "countOthers")
    /\ MemberGoto(r, IF Remaining(r) = {} THEN "deleteAccount" ELSE "done")
    /\ UNCHANGED <<account, membership, outside>>

\* user.delete takes the memberships along; it fails when the user has sold or bought.
RemoveAccount(r) ==
    /\ MemberAt(r, "deleteAccount")
    /\ LET u == memberRequest[r].user
       IN \/ /\ account' = [account EXCEPT ![u] = "none"]
             /\ membership' = [membership EXCEPT ![u] = [f \in Firms |-> Stranger]]
          \/ UNCHANGED <<account, membership>>
    /\ MemberGoto(r, "done")
    /\ UNCHANGED outside

\* toggleActive writes the opposite of what it read, in all the firms of the account.
AccountToggleRead(r) ==
    /\ UNCHANGED account
    /\ \E f \in Firms, u \in Accounts :
        /\ OtherAdministrator(u, f)
        /\ Member(u, f)
        /\ BeginMember(r, [MemberIdle EXCEPT !.at = "toggle", !.op = "toggle", !.firm = f,
                                             !.user = u, !.active = account[u] # "active"])

AccountToggleWrite(r) ==
    /\ MemberAt(r, "toggle")
    /\ LET q == memberRequest[r]
       IN /\ account' = [account EXCEPT ![q.user] =
                 IF @ = "none" THEN "none" ELSE IF q.active THEN "active" ELSE "inactive"]
          /\ outside' = outside \cup {f \in Firms \ {q.firm} : Member(q.user, f)}
    /\ MemberGoto(r, "done")
    /\ UNCHANGED membership

---------------------------------------------------------------------------
\* The process ends between two statements.
MemberInterrupted(r) ==
    /\ memberRequest[r].at \in {"add", "countOthers", "deleteAccount"}
    /\ MemberGoto(r, "done")
    /\ UNCHANGED <<account, membership, outside>>

MemberStep(r) ==
    \/ TransferWrite(r) \/ MemberAddWrite(r) \/ UserCreateWrite(r) \/ RoleWrite(r) \/ ExpelWrite(r)
    \/ RemoveCountAdmins(r) \/ RemoveDelete(r) \/ RemoveCountOthers(r) \/ RemoveAccount(r)
    \/ AccountToggleWrite(r) \/ MemberInterrupted(r)

MembersNext ==
    \E r \in MemberRequests :
        \/ TransferRead(r) \/ MemberAddRead(r) \/ UserCreateRead(r) \/ RoleRead(r) \/ ExpelRead(r)
        \/ RemoveRead(r) \/ AccountToggleRead(r) \/ MemberStep(r)

MembersSpec == MembersInit /\ [][MembersNext]_memberVars

---------------------------------------------------------------------------
MembersTypeOK ==
    /\ account \in [Accounts -> {"active", "inactive", "none"}]
    /\ membership \in [Accounts -> [Firms ->
         [row : MemberRequests \cup {"first", "none"}, role : Roles, primary : BOOLEAN]]]
    /\ memberRequest \in [MemberRequests ->
         [at : {"new", "transfer", "add", "create", "role", "expel", "countAdmins", "delete", "countOthers",
                "deleteAccount", "toggle", "done"},
          op : {"none", "transfer", "add", "role", "expel", "remove", "toggle"},
          firm : Firms \cup {"none"}, user : Accounts, other : Accounts,
          row : MemberRequests \cup {"first", "none"},
          otherRow : MemberRequests \cup {"first", "none"}, role : Roles, active : BOOLEAN]]
    /\ memberOverlap \subseteq SUBSET MemberRequests
    /\ outside \subseteq Firms

Op(r) == memberRequest[r].op

\* An organization has exactly one primary owner: more, or none, means that a
\* transfer overlapped another one or a removal (admin.service.ts:277-313, 491-507).
OnePrimaryOwner ==
    \A f \in Firms :
        \/ Cardinality({u \in Accounts : membership[u][f].primary}) = 1
        \/ \E r, q \in MemberRequests :
             /\ Op(r) = "transfer" /\ Op(q) \in {"transfer", "expel", "remove"}
             /\ memberRequest[r].firm = f /\ {r, q} \in memberOverlap

\* Administrators cannot lock each other out of their organization one after
\* the other, only by requests that overlap; the super administrator and the
\* administrators of another organization of the user can
\* (users.service.ts:180-193, 242-287).
ActiveAdminRemains ==
    \A f \in Firms \ outside :
        \/ \E u \in Accounts : ActiveAdmin(u, f)
        \/ \E r, q \in MemberRequests :
             /\ Op(r) \in {"toggle", "remove"} /\ memberRequest[r].firm = f
             /\ r # q /\ {r, q} \in memberOverlap

\* Every organization keeps one primary owner and an administrator who can sign in.
OrganizationsGoverned == OnePrimaryOwner /\ ActiveAdminRemains
=============================================================================
