--------------------------- MODULE CashRegisters ---------------------------
(***************************************************************************)
(* CashRegistersService behind PlanLimitGuard and PlanLimitService: the    *)
(* cash registers of one organization, which its plan limits.              *)
(*                                                                         *)
(* POST /cash-registers passes the guard first: it reads the plan, then    *)
(* the number of active registers, cached for a minute.  The count is read *)
(* and stored in two steps, so an answer read before an insertion can be   *)
(* stored after that insertion cleared the cache.  No operation has a      *)
(* transaction: a new default register clears the others in a statement    *)
(* before its own.  Users, products and customers pass the same guard.     *)
(***************************************************************************)
EXTENDS Integers, FiniteSets

CONSTANTS
    RegisterRequests,
    Opening,            \* the register the organization was created with
    RegisterNames,
    OpeningName,        \* its name
    Limit               \* maxCashRegisters of the BASIC plan

ASSUME CashRegistersAssumption ==
    /\ Opening \notin RegisterRequests
    /\ OpeningName \in RegisterNames
    /\ Limit \in Nat \ {0}

VARIABLES
    register,           \* the registers, by the request that created them
    basic,              \* the organization is on the BASIC plan
    cachedCount,        \* PlanLimitService.cache, or NoCount
    registerRequest,    \* progress of each request
    overlapped,         \* history: the pairs of requests that ran at the same time
    reactivated         \* history: an inactive register was made active again

registerVars == <<register, basic, cachedCount, registerRequest, overlapped, reactivated>>

NoCount == -1
Registers == RegisterRequests \cup {Opening}
Absent == [name |-> "none", default |-> "none", active |-> FALSE]
Exists(g) == register[g] # Absent
ActiveCount == Cardinality({g \in Registers : register[g].active})
NameFree(name, g) == \A h \in Registers \ {g} : register[h].name # name

\* `sent` is what the body of the request changes; a new register is active.
RegisterIdle == [at |-> "new", on |-> Opening, name |-> "none", sent |-> {},
                 limited |-> FALSE, count |-> 0]
RegisterAt(r, step) == registerRequest[r].at = step
InProgress(r) == registerRequest[r].at \notin {"new", "done"}

\* The caja principal of AdminService.createOrganization.
RegistersInit ==
    /\ register = [g \in Registers |->
           IF g = Opening THEN [name |-> OpeningName, default |-> Opening, active |-> TRUE]
           ELSE Absent]
    /\ basic \in BOOLEAN
    /\ cachedCount = NoCount
    /\ registerRequest = [r \in RegisterRequests |-> RegisterIdle]
    /\ overlapped = {}
    /\ reactivated = FALSE

\* A request begins with `local`; one that ends at once overlaps nobody.
BeginRegister(r, local) ==
    /\ RegisterAt(r, "new")
    /\ registerRequest' = [registerRequest EXCEPT ![r] = local]
    /\ overlapped' = overlapped \cup {{r, q} : q \in {s \in RegisterRequests : InProgress(s)}}

RegisterGoto(r, step) ==
    /\ registerRequest' = [registerRequest EXCEPT ![r].at = step]
    /\ UNCHANGED overlapped

RegisterAnswer(r) ==
    /\ registerRequest' = [registerRequest EXCEPT ![r] = [RegisterIdle EXCEPT !.at = "done"]]
    /\ UNCHANGED overlapped

---------------------------------------------------------------------------
(* PlanLimitGuard and PlanLimitService *)

\* POST /cash-registers: the guard reads the plan.
GuardRead(r) ==
    /\ \E name \in RegisterNames, sent \in {{"name"}, {"name", "default"}} :
         BeginRegister(r, [RegisterIdle EXCEPT !.at = "count", !.on = r, !.name = name,
                                               !.sent = sent, !.limited = basic])
    /\ UNCHANGED <<register, basic, cachedCount, reactivated>>

\* GET /plan-limits/status: the same count, for information.
StatusRead(r) ==
    /\ BeginRegister(r, [RegisterIdle EXCEPT !.at = "count"])
    /\ UNCHANGED <<register, basic, cachedCount, reactivated>>

AtLimit(n) == n >= Limit

\* The count is known: a status request ends, a full plan refuses, a creation goes on.
Counted(r, n) ==
    IF registerRequest[r].on # r \/ (registerRequest[r].limited /\ AtLimit(n))
    THEN RegisterAnswer(r)
    ELSE RegisterGoto(r, "name")

CountCached(r) ==
    /\ RegisterAt(r, "count")
    /\ cachedCount # NoCount
    /\ Counted(r, cachedCount)
    /\ UNCHANGED <<register, basic, cachedCount, reactivated>>

CountQuery(r) ==
    /\ RegisterAt(r, "count")
    /\ cachedCount = NoCount
    /\ registerRequest' = [registerRequest EXCEPT ![r] = [registerRequest[r] EXCEPT
           !.at = "store", !.count = ActiveCount]]
    /\ UNCHANGED <<register, basic, cachedCount, overlapped, reactivated>>

CountStore(r) ==
    /\ RegisterAt(r, "store")
    /\ cachedCount' = registerRequest[r].count
    /\ Counted(r, registerRequest[r].count)
    /\ UNCHANGED <<register, basic, reactivated>>

\* The minute is over.
CountExpires ==
    /\ cachedCount # NoCount
    /\ cachedCount' = NoCount
    /\ UNCHANGED <<register, basic, registerRequest, overlapped, reactivated>>

\* AdminService.updatePlan; the registers beyond the limit stay active.  The count
\* it takes for the flags of a downgrade is that of a status request.
ChangePlan(r) ==
    /\ BeginRegister(r, [RegisterIdle EXCEPT !.at = "done"])
    /\ basic' = ~basic
    /\ UNCHANGED <<register, cachedCount, reactivated>>

---------------------------------------------------------------------------
(* CashRegistersService *)

\* A default register takes the mark from the others first.
AfterChecks(sent) == IF "default" \in sent THEN "clear" ELSE "write"

\* The name of a new register, or of an edited one that is renamed.
CheckName(r) ==
    /\ RegisterAt(r, "name")
    /\ IF NameFree(registerRequest[r].name, registerRequest[r].on)
       THEN RegisterGoto(r, AfterChecks(registerRequest[r].sent))
       ELSE RegisterAnswer(r)
    /\ UNCHANGED <<register, basic, cachedCount, reactivated>>

\* PUT /cash-registers/:id.  What is not sent is not written.
RegisterUpdateRead(r) ==
    /\ \E g \in Registers, name \in RegisterNames,
          sent \in {{"name"}, {"default"}, {"other"}, {"active"}, {"inactive"}} :
         /\ Exists(g)
         /\ BeginRegister(r, [RegisterIdle EXCEPT
                !.at = IF "name" \in sent THEN "name" ELSE AfterChecks(sent),
                !.on = g, !.name = IF "name" \in sent THEN name ELSE "none", !.sent = sent])
    /\ UNCHANGED <<register, basic, cachedCount, reactivated>>

\* Mutant: only inactive registers lose the mark.
ClearsInactive(g) == ~register[g].active
Clears(g) == register[g].default # "none"

\* updateMany({ isDefault: true }), both for a new and an edited register.
ClearDefaults(r) ==
    /\ RegisterAt(r, "clear")
    /\ register' = [g \in Registers |->
           IF Clears(g) THEN [register[g] EXCEPT !.default = "none"] ELSE register[g]]
    /\ RegisterGoto(r, "write")
    /\ UNCHANGED <<basic, cachedCount, reactivated>>

\* The row after the insertion, or after the update, of what was sent.
Written(r, q) ==
    LET row == IF q.on = r THEN [Absent EXCEPT !.active = TRUE] ELSE register[q.on]
    IN [name |-> IF "name" \in q.sent THEN q.name ELSE row.name,
        default |-> IF "default" \in q.sent THEN r ELSE IF "other" \in q.sent THEN "none"
                    ELSE row.default,
        active |-> (row.active \/ "active" \in q.sent) /\ "inactive" \notin q.sent]

\* register.create or register.update: the unique index refuses a name taken
\* meanwhile, and the update a register deleted meanwhile.  A creation goes on.
RegisterWrite(r) ==
    /\ RegisterAt(r, "write")
    /\ LET q == registerRequest[r]
           allowed == /\ q.on = r \/ Exists(q.on)
                      /\ NameFree(Written(r, q).name, q.on)
       IN \/ /\ allowed
             /\ register' = [register EXCEPT ![q.on] = Written(r, q)]
             /\ reactivated' = (reactivated \/ ("active" \in q.sent /\ ~register[q.on].active))
             /\ IF q.on = r THEN RegisterGoto(r, "invalidate") ELSE RegisterAnswer(r)
          \/ ~allowed /\ RegisterAnswer(r) /\ UNCHANGED <<register, reactivated>>
    /\ UNCHANGED <<basic, cachedCount>>

\* invalidateCache, once the insertion is answered.
InvalidateCount(r) ==
    /\ RegisterAt(r, "invalidate")
    /\ cachedCount' = NoCount
    /\ RegisterAnswer(r)
    /\ UNCHANGED <<register, basic, reactivated>>

\* DELETE /cash-registers/:id; the count stays in the cache.
RegisterRemove(r) ==
    /\ \E g \in Registers :
         /\ Exists(g)
         /\ register' = [register EXCEPT ![g] = Absent]
    /\ BeginRegister(r, [RegisterIdle EXCEPT !.at = "done"])
    /\ UNCHANGED <<basic, cachedCount, reactivated>>

\* The end of the process after an insertion would take the cached count along.
RegisterInterrupted(r) ==
    /\ InProgress(r) /\ ~RegisterAt(r, "invalidate")
    /\ RegisterAnswer(r)
    /\ UNCHANGED <<register, basic, cachedCount, reactivated>>

---------------------------------------------------------------------------
RegisterStep(r) ==
    \/ CountCached(r) \/ CountQuery(r) \/ CountStore(r) \/ CheckName(r)
    \/ ClearDefaults(r) \/ RegisterWrite(r) \/ InvalidateCount(r)
    \/ RegisterInterrupted(r)

RegistersNext ==
    \/ CountExpires
    \/ \E r \in RegisterRequests :
         \/ GuardRead(r) \/ StatusRead(r) \/ ChangePlan(r) \/ RegisterUpdateRead(r)
         \/ RegisterRemove(r) \/ RegisterStep(r)

RegistersSpec == RegistersInit /\ [][RegistersNext]_registerVars

---------------------------------------------------------------------------
RegistersTypeOK ==
    /\ register \in [Registers ->
         [name : RegisterNames \cup {"none"}, default : Registers \cup {"none"}, active : BOOLEAN]]
    /\ basic \in BOOLEAN
    /\ cachedCount \in Nat \cup {NoCount}
    /\ registerRequest \in [RegisterRequests ->
         [at : {"new", "count", "store", "name", "clear", "write", "invalidate", "done"},
          on : Registers, name : RegisterNames \cup {"none"},
          sent : SUBSET {"name", "default", "other", "active", "inactive"},
          limited : BOOLEAN, count : Nat]]
    /\ overlapped \subseteq SUBSET RegisterRequests
    /\ reactivated \in BOOLEAN

\* Two registers are both the default one only when the requests that marked
\* them overlapped (cash-registers.service.ts:33-38, 92-97).
TwoDefaultsMeanOverlap ==
    \A g, h \in Registers :
        g # h /\ register[g].default # "none" /\ register[h].default # "none" =>
            {register[g].default, register[h].default} \in overlapped

\* A creation takes the active registers past the limit of the plan.
PassesLimit(r) ==
    /\ ~Exists(r) /\ register'[r] # Absent
    /\ registerRequest[r].limited
    /\ ActiveCount' > Limit

\* Requests served one at a time leave one default register and, although a
\* creation trusts a cached count, no more registers than the plan allows: each
\* one clears the count.  Reactivations pass no guard
\* (plan-limits.service.ts:79-119, cash-registers.service.ts:33-48, 92-97).
RegistersOrdered ==
    [][/\ TwoDefaultsMeanOverlap'
       /\ \A r \in RegisterRequests :
            PassesLimit(r) => overlapped # {} \/ reactivated]_registerVars
=============================================================================
