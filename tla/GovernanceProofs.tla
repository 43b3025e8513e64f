-------------------------- MODULE GovernanceProofs --------------------------
(***************************************************************************)
(* Proofs about Members and CashRegisters, for every set of accounts,      *)
(* organizations and requests: requests one after the other leave one      *)
(* primary owner, one active administrator at least, one default register  *)
(* and no more registers than the plan allows.                             *)
(*                                                                         *)
(* What a request has checked stays true until it writes unless another    *)
(* request wrote in between, and that one overlapped it.                   *)
(***************************************************************************)
EXTENDS CashRegisters, Members, FiniteSetTheorems, TLAPS

---------------------------------------------------------------------------
(* Cash registers: the inductive invariant *)

ActiveRegisters == {g \in Registers : register[g].active}

\* Two requests that are both in progress overlap.
ProgressOverlaps ==
    \A r, q \in RegisterRequests :
        r # q /\ InProgress(r) /\ InProgress(q) => {r, q} \in overlapped

\* A request that is about to mark its register has cleared the other marks:
\* the ones there are, are of requests that overlap it.
MarkCleared(r) ==
    RegisterAt(r, "write") /\ "default" \in registerRequest[r].sent =>
        \A g \in Registers : register[g].default # "none" => {register[g].default, r} \in overlapped

\* The register of a request is there once it was written.
CreatedByWrite(r) == Exists(r) => registerRequest[r].at \in {"invalidate", "done"}

\* While requests come one at a time, a count is never below the registers that
\* are active, but between an insertion and its invalidation; and a creation that
\* passed the guard leaves room for itself.
OneAtATime == overlapped = {} /\ ~reactivated
CountCovers ==
    cachedCount # NoCount =>
        ActiveCount <= cachedCount \/ \E r \in RegisterRequests : RegisterAt(r, "invalidate")
RoomLeft(r) ==
    /\ RegisterAt(r, "store") => ActiveCount <= registerRequest[r].count
    /\ (/\ registerRequest[r].at \in {"name", "clear", "write"}
        /\ registerRequest[r].on = r
        /\ registerRequest[r].limited) => ActiveCount < Limit

RegistersInv ==
    /\ RegistersTypeOK /\ TwoDefaultsMeanOverlap /\ ProgressOverlaps /\ IsFiniteSet(ActiveRegisters)
    /\ \A r \in RegisterRequests : MarkCleared(r) /\ CreatedByWrite(r)
    /\ OneAtATime =>
         /\ CountCovers
         /\ \A r \in RegisterRequests : RoomLeft(r)

---------------------------------------------------------------------------
(* Members: the inductive invariant *)

Primary(u, f) == membership[u][f].primary

\* A step of an operation belongs to it.
StepOfOp(q) ==
    /\ q.at = "new" => q.op = "none"
    /\ q.at \notin {"new", "done"} => q.firm \in Firms
    /\ q.at = "transfer" =>
         q.op = "transfer" /\ q.user # q.other /\ q.row # "none" /\ q.otherRow # "none"
    /\ q.at = "expel" => q.op = "expel"
    /\ q.at \in {"countAdmins", "delete", "countOthers", "deleteAccount"} => q.op = "remove"
    /\ q.at = "toggle" => q.op = "toggle"

ServingOverlap ==
    \A r, q \in MemberRequests : r # q /\ Serving(r) /\ Serving(q) => {r, q} \in memberOverlap

\* A primary owner is a member, and a member has an account.
MembersReal ==
    \A u \in Accounts, f \in Firms :
        (Primary(u, f) => Member(u, f)) /\ (Member(u, f) => account[u] # "none")

\* A transfer overlapped another one or a removal; an administrator another request.
TransferDisturbed(f) ==
    \E r, q \in MemberRequests :
        /\ Op(r) = "transfer" /\ Op(q) \in {"transfer", "expel", "remove"}
        /\ memberRequest[r].firm = f /\ {r, q} \in memberOverlap
AdminDisturbed(f) ==
    \E r, q \in MemberRequests :
        /\ Op(r) \in {"toggle", "remove"} /\ memberRequest[r].firm = f
        /\ r # q /\ {r, q} \in memberOverlap

\* A transfer comes from the primary owner, and no removal is of the primary owner.
OwnerSafe(q, f) ==
    /\ q.at = "transfer" /\ q.firm = f => Primary(q.user, f)
    /\ q.at \in {"expel", "countAdmins", "delete"} /\ q.firm = f => ~Primary(q.user, f)
    /\ q.at = "deleteAccount" => ~Primary(q.user, f)
OwnerOf(f) ==
    \/ TransferDisturbed(f)
    \/ /\ \E p \in Accounts : \A u \in Accounts : Primary(u, f) <=> u = p
       /\ \A r \in MemberRequests : OwnerSafe(memberRequest[r], f)

\* No removal or deactivation under way is of the administrator who remains.
Spares(q, f, by) ==
    /\ q.at \notin {"new", "done"} /\ q.op \in {"toggle", "remove"} /\ q.firm = f => q.user # by
    /\ q.at = "deleteAccount" => q.user # by
AdminOf(f) ==
    \/ f \in outside \/ AdminDisturbed(f)
    \/ \E by \in Accounts :
         ActiveAdmin(by, f) /\ \A r \in MemberRequests : Spares(memberRequest[r], f, by)

MembersInv ==
    /\ MembersTypeOK /\ ServingOverlap /\ MembersReal
    /\ \A r \in MemberRequests : StepOfOp(memberRequest[r])
    /\ \A f \in Firms : OwnerOf(f) /\ AdminOf(f)

---------------------------------------------------------------------------
(* Cash registers *)

RegisterProgress ==
    [at : {"new", "count", "store", "name", "clear", "write", "invalidate", "done"},
     on : Registers, name : RegisterNames \cup {"none"}, sent : SUBSET {"name", "default", "other", "active", "inactive"},
     limited : BOOLEAN, count : Nat]
RegisterRow == [name : RegisterNames \cup {"none"}, default : Registers \cup {"none"}, active : BOOLEAN]
RegisterDone == [RegisterIdle EXCEPT !.at = "done"]

\* The types, by the names used here.
LEMMA RegisterTypes ==
    ASSUME RegistersTypeOK
    PROVE  /\ register \in [Registers -> RegisterRow] /\ basic \in BOOLEAN
           /\ cachedCount \in Nat \cup {NoCount}
           /\ registerRequest \in [RegisterRequests -> RegisterProgress]
           /\ overlapped \subseteq SUBSET RegisterRequests /\ reactivated \in BOOLEAN
  BY DEF RegistersTypeOK, RegisterProgress, RegisterRow

\* The progress a request begins and ends with, and the row of a removed register.
LEMMA RegisterIdleTyped ==
    /\ RegisterIdle \in RegisterProgress /\ RegisterDone \in RegisterProgress
    /\ RegisterIdle.at = "new" /\ RegisterDone.at = "done" /\ RegisterIdle.limited = FALSE
    /\ Absent \in RegisterRow /\ Absent.default = "none" /\ Absent.active = FALSE
    /\ Absent.name = "none"
<1>1. Opening \in Registers  BY DEF Registers
<1> QED  BY <1>1 DEF RegisterIdle, RegisterDone, RegisterProgress, Absent, RegisterRow

\* Counting the active registers.
LEMMA CountBounds ==
    ASSUME NEW S, NEW T, NEW g, IsFiniteSet(S), T \subseteq S \cup {g}
    PROVE  /\ IsFiniteSet(T) /\ Cardinality(S) \in Nat /\ Cardinality(T) \in Nat
           /\ Cardinality(T) <= Cardinality(S) + 1
           /\ T \subseteq S => Cardinality(T) <= Cardinality(S)
<1>1. IsFiniteSet(S \cup {g}) /\ Cardinality(S \cup {g}) \in Nat /\ Cardinality(S) \in Nat
      /\ Cardinality(S \cup {g}) <= Cardinality(S) + 1
  BY FS_AddElement, FS_CardinalityType
<1>2. IsFiniteSet(T) /\ Cardinality(T) \in Nat /\ Cardinality(T) <= Cardinality(S \cup {g})
  BY <1>1, FS_Subset, FS_CardinalityType
<1>3. T \subseteq S => Cardinality(T) <= Cardinality(S)  BY FS_Subset
<1> QED  BY <1>1, <1>2, <1>3

\* A request moves on, or begins.
RegisterMoves(r, new) ==
    /\ new \in RegisterProgress
    /\ registerRequest' = [registerRequest EXCEPT ![r] = new]
    /\ \/ InProgress(r) /\ overlapped' = overlapped
       \/ /\ RegisterAt(r, "new")
          /\ overlapped' = overlapped \cup {{r, q} : q \in {s \in RegisterRequests : InProgress(s)}}

\* A step of one request leaves the others, and overlaps the ones in progress.
LEMMA MoveFacts ==
    ASSUME RegistersInv, NEW r \in RegisterRequests, NEW new, RegisterMoves(r, new)
    PROVE  /\ registerRequest' \in [RegisterRequests -> RegisterProgress]
           /\ registerRequest'[r] = new
           /\ \A s \in RegisterRequests : s # r => registerRequest'[s] = registerRequest[s]
           /\ overlapped \subseteq overlapped' /\ overlapped' \subseteq SUBSET RegisterRequests
           /\ \A s \in RegisterRequests : s # r /\ InProgress(s) => {r, s} \in overlapped'
           /\ registerRequest[r].at # "done"
<1>1. registerRequest \in [RegisterRequests -> RegisterProgress] /\ overlapped \subseteq SUBSET RegisterRequests
  BY RegisterTypes DEF RegistersInv
<1>2. new \in RegisterProgress /\ registerRequest' = [registerRequest EXCEPT ![r] = new]
  BY DEF RegisterMoves
<1>3. /\ overlapped \subseteq overlapped' /\ overlapped' \subseteq SUBSET RegisterRequests
      /\ \A s \in RegisterRequests : s # r /\ InProgress(s) => {r, s} \in overlapped'
      /\ registerRequest[r].at # "done"
  <2>1. CASE InProgress(r) /\ overlapped' = overlapped
    BY <1>1, <2>1 DEF RegistersInv, ProgressOverlaps, InProgress
  <2>2. CASE /\ RegisterAt(r, "new")
             /\ overlapped' = overlapped \cup {{r, q} : q \in {s \in RegisterRequests : InProgress(s)}}
    <3>1. {{r, q} : q \in {s \in RegisterRequests : InProgress(s)}} \subseteq SUBSET RegisterRequests
      OBVIOUS
    <3> QED  BY <1>1, <2>2, <3>1 DEF RegisterAt
  <2> QED  BY <2>1, <2>2 DEF RegisterMoves
<1> QED  BY <1>1, <1>2, <1>3

\* Such a step keeps the record of who overlapped whom.
LEMMA ProgressKept ==
    ASSUME RegistersInv, NEW r \in RegisterRequests, NEW new, RegisterMoves(r, new)
    PROVE  ProgressOverlaps'
<1> SUFFICES ASSUME NEW p \in RegisterRequests, NEW q \in RegisterRequests, p # q,
                    InProgress(p)', InProgress(q)'
             PROVE  {p, q} \in overlapped'
  BY DEF ProgressOverlaps
<1>1. CASE p = r
  <2>1. InProgress(q)  BY <1>1, MoveFacts DEF InProgress
  <2> QED  BY <1>1, <2>1, MoveFacts
<1>2. CASE q = r
  <2>1. InProgress(p) /\ {p, q} = {q, p}  BY <1>2, MoveFacts DEF InProgress
  <2> QED  BY <1>2, <2>1, MoveFacts
<1>3. CASE p # r /\ q # r
  <2>1. InProgress(p) /\ InProgress(q)  BY <1>3, MoveFacts DEF InProgress
  <2>2. {p, q} \in overlapped  BY <2>1 DEF RegistersInv, ProgressOverlaps
  <2> QED  BY <2>2, MoveFacts
<1> QED  BY <1>1, <1>2, <1>3

\* One at a time, a step is of the only request in progress.
LEMMA NobodyElse ==
    ASSUME RegistersInv, NEW r \in RegisterRequests, NEW new, RegisterMoves(r, new),
           (OneAtATime)', reactivated => reactivated'
    PROVE  /\ \A s \in RegisterRequests : s # r => ~InProgress(s)
           /\ OneAtATime
<1>1. overlapped' = {} /\ ~reactivated'  BY DEF OneAtATime
<1> QED  BY <1>1, MoveFacts DEF OneAtATime

\* A request that has no other next to it.
Alone(r) == OneAtATime /\ \A s \in RegisterRequests : s # r => ~InProgress(s)

\* Such a request may trust the cached count until it inserts.
LEMMA CountTrusted ==
    ASSUME RegistersInv, NEW r \in RegisterRequests, Alone(r), cachedCount # NoCount,
           registerRequest[r].at # "invalidate"
    PROVE  ActiveCount <= cachedCount
BY DEF RegistersInv, CountCovers, Alone, RegisterAt, InProgress

\* The steps that touch no register.
LEMMA RequestStepKeeps ==
    ASSUME RegistersInv, NEW r \in RegisterRequests, NEW new, RegisterMoves(r, new),
           registerRequest[r].at = "invalidate" => new.at = "done",
           register' = register, reactivated' = reactivated, basic' \in BOOLEAN,
           cachedCount' \in Nat \cup {NoCount},
           ~(new.at = "write" /\ "default" \in new.sent),
           Alone(r) =>
             /\ cachedCount' # NoCount => ActiveCount <= cachedCount'
             /\ new.at = "store" => ActiveCount <= new.count
             /\ (new.at \in {"name", "clear", "write"} /\ new.on = r /\ new.limited) =>
                  ActiveCount < Limit
    PROVE  RegistersInv'
<1>1. ActiveRegisters' = ActiveRegisters /\ ActiveCount' = ActiveCount
  BY DEF ActiveRegisters, ActiveCount
<1>2. RegistersTypeOK'
  <2>1. register' \in [Registers -> RegisterRow] /\ reactivated' \in BOOLEAN
    BY RegisterTypes DEF RegistersInv
  <2>2. /\ registerRequest' \in [RegisterRequests -> RegisterProgress]
        /\ overlapped' \subseteq SUBSET RegisterRequests
    BY MoveFacts
  <2> QED  BY <2>1, <2>2 DEF RegistersTypeOK, RegisterProgress, RegisterRow
<1>3. TwoDefaultsMeanOverlap'
  BY MoveFacts DEF RegistersInv, TwoDefaultsMeanOverlap
<1>4. ProgressOverlaps'  BY ProgressKept
<1>5. \A s \in RegisterRequests : MarkCleared(s)' /\ CreatedByWrite(s)'
  <2> SUFFICES ASSUME NEW s \in RegisterRequests PROVE MarkCleared(s)' /\ CreatedByWrite(s)'
    OBVIOUS
  <2>1. MarkCleared(s) /\ CreatedByWrite(s)  BY DEF RegistersInv
  <2>2. CASE s = r
    BY <2>1, <2>2, MoveFacts DEF MarkCleared, CreatedByWrite, RegisterAt, Exists
  <2>3. CASE s # r
    BY <2>1, <2>3, MoveFacts DEF MarkCleared, CreatedByWrite, RegisterAt, Exists
  <2> QED  BY <2>2, <2>3
<1>6. ASSUME OneAtATime'
      PROVE  CountCovers' /\ \A s \in RegisterRequests : RoomLeft(s)'
  <2>1. Alone(r) /\ \A s \in RegisterRequests : s # r => ~InProgress(s)
    BY <1>6, NobodyElse DEF Alone
  <2>2. CountCovers'  BY <1>1, <2>1 DEF CountCovers
  <2>3. \A s \in RegisterRequests : RoomLeft(s)'
    <3> SUFFICES ASSUME NEW s \in RegisterRequests PROVE RoomLeft(s)'  OBVIOUS
    <3>1. CASE s = r  BY <1>1, <2>1, <3>1, MoveFacts DEF RoomLeft, RegisterAt
    <3>2. CASE s # r
      <4>1. registerRequest'[s].at \in {"new", "done"}  BY <2>1, <3>2, MoveFacts DEF InProgress
      <4> QED  BY <4>1 DEF RoomLeft, RegisterAt
    <3> QED  BY <3>1, <3>2
  <2> QED  BY <2>2, <2>3
<1>7. IsFiniteSet(ActiveRegisters)'  BY <1>1 DEF RegistersInv
<1> QED  BY <1>2, <1>3, <1>4, <1>5, <1>6, <1>7 DEF RegistersInv

\* A count that expires is asked again.
LEMMA CountExpiresKeeps ==
    ASSUME RegistersInv, CountExpires
    PROVE  RegistersInv'
<1>1. /\ cachedCount' = NoCount
      /\ UNCHANGED <<register, basic, registerRequest, overlapped, reactivated>>
  BY DEF CountExpires
<1>2. ActiveRegisters' = ActiveRegisters /\ ActiveCount' = ActiveCount
  BY <1>1 DEF ActiveRegisters, ActiveCount
<1>3. RegistersTypeOK'  BY <1>1 DEF RegistersInv, RegistersTypeOK
<1>4. TwoDefaultsMeanOverlap' /\ ProgressOverlaps' /\ IsFiniteSet(ActiveRegisters)'
  BY <1>1, <1>2 DEF RegistersInv, TwoDefaultsMeanOverlap, ProgressOverlaps, InProgress
<1>5. \A r \in RegisterRequests : MarkCleared(r)' /\ CreatedByWrite(r)'
  BY <1>1 DEF RegistersInv, MarkCleared, CreatedByWrite, RegisterAt, Exists
<1>6. OneAtATime' => CountCovers' /\ \A r \in RegisterRequests : RoomLeft(r)'
  BY <1>1, <1>2 DEF RegistersInv, OneAtATime, CountCovers, RoomLeft, RegisterAt
<1> QED  BY <1>1, <1>3, <1>4, <1>5, <1>6 DEF RegistersInv

\* The steps that write registers: they take marks away, or give one.
WritesRegister(r, new, e) ==
    /\ RegisterMoves(r, new) /\ new.at \in {"write", "invalidate", "done"}
    /\ registerRequest[r].at # "invalidate"
    /\ register' \in [Registers -> RegisterRow]
    /\ basic' \in BOOLEAN /\ cachedCount' \in Nat \cup {NoCount}
    /\ reactivated' \in BOOLEAN /\ (reactivated => reactivated')
    /\ (new.at = "write" => \A g \in Registers : register'[g].default = "none")
    /\ \A g \in Registers :
         \/ register'[g].default \in {"none", register[g].default}
         \/ /\ g = e /\ register'[g].default = r
            /\ RegisterAt(r, "write") /\ "default" \in registerRequest[r].sent
    /\ \A g \in Registers :
         register'[g] # Absent => register[g] # Absent \/ (g = r /\ new.at # "write")
    /\ ActiveRegisters' \subseteq ActiveRegisters \cup {e}

\* Two marked registers: the later mark was set by a request that cleared the other,
\* or that overlapped it.
LEMMA MarksKept ==
    ASSUME RegistersInv, NEW r \in RegisterRequests, NEW new, NEW e \in Registers,
           WritesRegister(r, new, e)
    PROVE  /\ TwoDefaultsMeanOverlap'
           /\ \A s \in RegisterRequests : MarkCleared(s)'
<1>1. RegisterMoves(r, new)  BY DEF WritesRegister
<1>2. \A g \in Registers :
        \/ register'[g].default \in {"none", register[g].default}
        \/ /\ g = e /\ register'[g].default = r
           /\ RegisterAt(r, "write") /\ "default" \in registerRequest[r].sent
  BY DEF WritesRegister
<1>3. overlapped \subseteq overlapped'  BY <1>1, MoveFacts
<1>4. TwoDefaultsMeanOverlap'
  <2> SUFFICES ASSUME NEW g \in Registers, NEW h \in Registers, g # h,
                      register'[g].default # "none", register'[h].default # "none"
               PROVE  {register'[g].default, register'[h].default} \in overlapped'
    BY DEF TwoDefaultsMeanOverlap
  <2>1. CASE register'[g].default = register[g].default /\ register'[h].default = register[h].default
    BY <1>3, <2>1 DEF RegistersInv, TwoDefaultsMeanOverlap
  <2>2. ASSUME RegisterAt(r, "write"), "default" \in registerRequest[r].sent,
               NEW k \in Registers, register[k].default # "none"
        PROVE  {register[k].default, r} \in overlapped /\ {r, register[k].default} \in overlapped
    <3>1. {register[k].default, r} \in overlapped  BY <2>2 DEF RegistersInv, MarkCleared
    <3>2. {register[k].default, r} = {r, register[k].default}  OBVIOUS
    <3> QED  BY <3>1, <3>2
  <2>3. CASE g = e /\ h # e  BY <1>2, <1>3, <2>1, <2>2, <2>3
  <2>4. CASE h = e /\ g # e  BY <1>2, <1>3, <2>1, <2>2, <2>4
  <2>5. CASE g # e /\ h # e  BY <1>2, <2>1, <2>5
  <2> QED  BY <2>3, <2>4, <2>5
<1>5. \A s \in RegisterRequests : MarkCleared(s)'
  <2> SUFFICES ASSUME NEW s \in RegisterRequests, registerRequest'[s].at = "write",
                      "default" \in registerRequest'[s].sent, NEW g \in Registers,
                      register'[g].default # "none"
               PROVE  {register'[g].default, s} \in overlapped'
    BY DEF MarkCleared, RegisterAt
  <2>1. CASE s = r
    <3>1. new.at = "write"  BY <1>1, <2>1, MoveFacts
    <3> QED  BY <3>1 DEF WritesRegister
  <2>2. CASE s # r
    <3>1. registerRequest'[s] = registerRequest[s] /\ MarkCleared(s)
      BY <1>1, <2>2, MoveFacts DEF RegistersInv
    <3>2. InProgress(s)  BY <3>1 DEF InProgress
    <3>3. {r, s} \in overlapped'  BY <1>1, <2>2, <3>2, MoveFacts
    <3>4. register[g].default # "none" => {register[g].default, s} \in overlapped
      BY <3>1 DEF MarkCleared, RegisterAt
    <3> QED  BY <1>2, <1>3, <3>3, <3>4
  <2> QED  BY <2>1, <2>2
<1> QED  BY <1>4, <1>5

\* A write of a register keeps the invariant if it leaves room under the limit.
LEMMA RegisterRowsKeep ==
    ASSUME RegistersInv, NEW r \in RegisterRequests, NEW new, NEW e \in Registers,
           WritesRegister(r, new, e),
           (OneAtATime)' =>
             /\ cachedCount' # NoCount => ActiveCount' <= cachedCount' \/ new.at = "invalidate"
             /\ (new.at = "write" /\ new.on = r /\ new.limited) => ActiveCount' < Limit
    PROVE  RegistersInv'
<1>1. /\ RegisterMoves(r, new) /\ new.at \in {"write", "invalidate", "done"}
      /\ (reactivated => reactivated')
  BY DEF WritesRegister
<1>2. RegistersTypeOK'
  <2>1. /\ registerRequest' \in [RegisterRequests -> RegisterProgress]
        /\ overlapped' \subseteq SUBSET RegisterRequests
    BY <1>1, MoveFacts
  <2> QED  BY <2>1 DEF RegistersTypeOK, RegisterProgress, RegisterRow, WritesRegister
<1>3. TwoDefaultsMeanOverlap' /\ \A s \in RegisterRequests : MarkCleared(s)'  BY MarksKept
<1>4. ProgressOverlaps'  BY <1>1, ProgressKept
<1>5. IsFiniteSet(ActiveRegisters)'
  BY CountBounds DEF WritesRegister, RegistersInv
<1>6. \A s \in RegisterRequests : CreatedByWrite(s)'
  <2> SUFFICES ASSUME NEW s \in RegisterRequests, register'[s] # Absent
               PROVE  registerRequest'[s].at \in {"invalidate", "done"}
    BY DEF CreatedByWrite, Exists
  <2>1. s \in Registers  BY DEF Registers
  <2>2. CASE s = r /\ new.at # "write"  BY <1>1, <2>2, MoveFacts
  <2>3. CASE register[s] # Absent
    <3>1. registerRequest[s].at \in {"invalidate", "done"}
      BY <2>3 DEF RegistersInv, CreatedByWrite, Exists
    <3>2. s # r  BY <1>1, <3>1, MoveFacts DEF WritesRegister
    <3> QED  BY <1>1, <3>1, <3>2, MoveFacts
  <2> QED  BY <2>1, <2>2, <2>3 DEF WritesRegister
<1>7. ASSUME (OneAtATime)' PROVE \A s \in RegisterRequests : RoomLeft(s)'
  <2> SUFFICES ASSUME NEW s \in RegisterRequests PROVE RoomLeft(s)'  OBVIOUS
  <2>1. CASE s = r  BY <1>1, <1>7, <2>1, MoveFacts DEF RoomLeft, RegisterAt
  <2>2. CASE s # r
    <3>1. ~InProgress(s)  BY <1>1, <1>7, <2>2, NobodyElse
    <3>2. registerRequest'[s].at \in {"new", "done"}  BY <1>1, <2>2, <3>1, MoveFacts DEF InProgress
    <3> QED  BY <3>2 DEF RoomLeft, RegisterAt
  <2> QED  BY <2>1, <2>2
<1>8. OneAtATime' => CountCovers'
  BY <1>1, MoveFacts DEF CountCovers, RegisterAt
<1> QED  BY <1>2, <1>3, <1>4, <1>5, <1>6, <1>7, <1>8 DEF RegistersInv

\* The first step of a request is a move.
LEMMA BeginsMoves ==
    ASSUME NEW r \in RegisterRequests, NEW new \in RegisterProgress, BeginRegister(r, new)
    PROVE  RegisterMoves(r, new)
BY DEF BeginRegister, RegisterMoves

\* So is its answer.
LEMMA AnswerMoves ==
    ASSUME NEW r \in RegisterRequests, InProgress(r), RegisterAnswer(r)
    PROVE  RegisterMoves(r, RegisterDone)
BY RegisterIdleTyped DEF RegisterAnswer, RegisterMoves, RegisterDone

\* So is a step within it, which keeps what it was sent.
LEMMA GotoMoves ==
    ASSUME RegistersTypeOK, NEW r \in RegisterRequests, InProgress(r),
           NEW step \in {"name", "clear", "write", "invalidate"}, RegisterGoto(r, step)
    PROVE  \E new : /\ RegisterMoves(r, new) /\ new.at = step
                    /\ new.on = registerRequest[r].on /\ new.sent = registerRequest[r].sent
                    /\ new.limited = registerRequest[r].limited
<1> DEFINE new == [registerRequest[r] EXCEPT !.at = step]
<1>1. registerRequest \in [RegisterRequests -> RegisterProgress] /\ registerRequest[r] \in RegisterProgress
  BY RegisterTypes
<1>2. /\ new \in RegisterProgress /\ new.at = step /\ new.on = registerRequest[r].on
      /\ new.sent = registerRequest[r].sent /\ new.limited = registerRequest[r].limited
  BY <1>1 DEF RegisterProgress
<1>3. registerRequest' = [registerRequest EXCEPT ![r] = new] /\ overlapped' = overlapped
  BY <1>1 DEF RegisterGoto
<1> QED  BY <1>2, <1>3 DEF RegisterMoves

\* A count that is known lets a creation go on only if it leaves room.
LEMMA CountedKeeps ==
    ASSUME RegistersInv, NEW r \in RegisterRequests, NEW n \in Nat,
           registerRequest[r].at \in {"count", "store"}, Counted(r, n),
           Alone(r) => ActiveCount <= n,
           register' = register, basic' = basic, reactivated' = reactivated, cachedCount' = n
    PROVE  RegistersInv'
<1>1. InProgress(r) /\ RegistersTypeOK /\ basic \in BOOLEAN /\ cachedCount' \in Nat \cup {NoCount}
  BY RegisterTypes DEF InProgress, RegistersInv
<1>2. CASE RegisterAnswer(r)
  <2>1. RegisterMoves(r, RegisterDone)  BY <1>1, <1>2, AnswerMoves
  <2>2. RegisterDone.at = "done"  BY RegisterIdleTyped
  <2> QED  BY <1>1, <2>1, <2>2, RequestStepKeeps
<1>3. CASE ~RegisterAnswer(r)
  <2>1. RegisterGoto(r, "name") /\ ~(registerRequest[r].limited /\ AtLimit(n))
    BY <1>3 DEF Counted
  <2>2. PICK new : /\ RegisterMoves(r, new) /\ new.at = "name"
                   /\ new.limited = registerRequest[r].limited
    BY <1>1, <2>1, GotoMoves
  <2>3. Cardinality(ActiveRegisters) \in Nat  BY FS_CardinalityType DEF RegistersInv
  <2>4. ActiveCount \in Nat /\ Limit \in Nat
    BY <2>3, CashRegistersAssumption DEF ActiveCount, ActiveRegisters
  <2>5. new.limited => n < Limit  BY <2>1, <2>2, <2>4 DEF AtLimit
  <2>6. Alone(r) =>
          /\ cachedCount' # NoCount => ActiveCount <= cachedCount'
          /\ new.at = "store" => ActiveCount <= new.count
          /\ (new.at \in {"name", "clear", "write"} /\ new.on = r /\ new.limited) =>
               ActiveCount < Limit
    BY <2>2, <2>4, <2>5
  <2>7. ~(new.at = "write" /\ "default" \in new.sent)  BY <2>2
  <2> QED  BY <1>1, <2>2, <2>6, <2>7, RequestStepKeeps
<1> QED  BY <1>2, <1>3

\* A count taken while requests come one at a time is never too low.
LEMMA CountStepsKeep ==
    ASSUME RegistersInv, NEW r \in RegisterRequests, CountCached(r) \/ CountQuery(r) \/ CountStore(r)
    PROVE  RegistersInv'
<1>1. /\ registerRequest \in [RegisterRequests -> RegisterProgress]
      /\ registerRequest[r] \in RegisterProgress /\ registerRequest[r].count \in Nat
      /\ basic \in BOOLEAN /\ cachedCount \in Nat \cup {NoCount}
  BY RegisterTypes DEF RegistersInv, RegisterProgress
<1>2. CASE CountCached(r)
  <2>1. registerRequest[r].at = "count" /\ cachedCount \in Nat /\ cachedCount # NoCount
    BY <1>1, <1>2 DEF CountCached, RegisterAt
  <2>2. Alone(r) => ActiveCount <= cachedCount  BY <2>1, CountTrusted
  <2> QED  BY <1>2, <2>1, <2>2, CountedKeeps DEF CountCached
<1>3. CASE CountStore(r)
  <2>1. registerRequest[r].at = "store"  BY <1>3 DEF CountStore, RegisterAt
  <2>2. Alone(r) => ActiveCount <= registerRequest[r].count
    BY <2>1 DEF RegistersInv, RoomLeft, RegisterAt, Alone
  <2> QED  BY <1>1, <1>3, <2>1, <2>2, CountedKeeps DEF CountStore
<1>4. CASE CountQuery(r)
  <2> DEFINE new == [registerRequest[r] EXCEPT !.at = "store", !.count = ActiveCount]
  <2>1. ActiveCount \in Nat
    BY FS_CardinalityType DEF RegistersInv, ActiveCount, ActiveRegisters
  <2>2. new \in RegisterProgress /\ new.at = "store" /\ new.count = ActiveCount
    BY <1>1, <2>1 DEF RegisterProgress
  <2>3. /\ registerRequest' = [registerRequest EXCEPT ![r] = new]
        /\ UNCHANGED <<register, basic, cachedCount, overlapped, reactivated>>
        /\ InProgress(r) /\ cachedCount = NoCount /\ registerRequest[r].at = "count"
    BY <1>4 DEF CountQuery, RegisterAt, InProgress
  <2> HIDE DEF new
  <2>4. RegisterMoves(r, new)  BY <2>2, <2>3 DEF RegisterMoves
  <2> QED  BY <1>1, <2>1, <2>2, <2>3, <2>4, RequestStepKeeps
<1> QED  BY <1>2, <1>3, <1>4

\* A request that only reads has neither passed the guard nor cleared a mark.
LEMMA RegisterReadsKeep ==
    ASSUME RegistersInv, NEW r \in RegisterRequests,
           GuardRead(r) \/ StatusRead(r) \/ ChangePlan(r) \/ RegisterUpdateRead(r)
    PROVE  RegistersInv'
<1>1. PICK new \in RegisterProgress :
        /\ BeginRegister(r, new)
        /\ ~(new.at = "write" /\ "default" \in new.sent) /\ new.at # "store"
        /\ ~(new.at \in {"name", "clear", "write"} /\ new.limited)
  <2>0. r \in Registers /\ RegisterIdle \in RegisterProgress /\ basic \in BOOLEAN
        /\ RegisterIdle.limited = FALSE /\ RegisterDone \in RegisterProgress
    BY RegisterIdleTyped, RegisterTypes DEF Registers, RegistersInv
  <2>1. CASE GuardRead(r)
    <3>1. PICK name \in RegisterNames, sent \in {{"name"}, {"name", "default"}} :
            BeginRegister(r, [RegisterIdle EXCEPT !.at = "count", !.on = r, !.name = name,
                                                  !.sent = sent, !.limited = basic])
      BY <2>1 DEF GuardRead
    <3> DEFINE new == [RegisterIdle EXCEPT !.at = "count", !.on = r, !.name = name,
                                           !.sent = sent, !.limited = basic]
    <3>2. new \in RegisterProgress /\ new.at = "count"  BY <2>0 DEF RegisterProgress
    <3>3. BeginRegister(r, new)  BY <3>1
    <3> HIDE DEF new
    <3> QED  BY <3>2, <3>3
  <2>2. CASE StatusRead(r)
    <3> DEFINE new == [RegisterIdle EXCEPT !.at = "count"]
    <3>1. new \in RegisterProgress /\ new.at = "count"  BY <2>0 DEF RegisterProgress
    <3>2. BeginRegister(r, new)  BY <2>2 DEF StatusRead
    <3> HIDE DEF new
    <3> QED  BY <3>1, <3>2
  <2>3. CASE ChangePlan(r)
    <3>1. BeginRegister(r, RegisterDone) /\ RegisterDone.at = "done"
      BY <2>3, RegisterIdleTyped DEF ChangePlan, RegisterDone
    <3> QED  BY <2>0, <3>1
  <2>4. CASE RegisterUpdateRead(r)
    <3>1. PICK g \in Registers, name \in RegisterNames,
               sent \in {{"name"}, {"default"}, {"other"}, {"active"}, {"inactive"}} :
            BeginRegister(r, [RegisterIdle EXCEPT
                !.at = IF "name" \in sent THEN "name" ELSE AfterChecks(sent),
                !.on = g, !.name = IF "name" \in sent THEN name ELSE "none", !.sent = sent])
      BY <2>4 DEF RegisterUpdateRead
    <3> DEFINE step == IF "name" \in sent THEN "name" ELSE AfterChecks(sent)
               called == IF "name" \in sent THEN name ELSE "none"
               new == [RegisterIdle EXCEPT !.at = step, !.on = g, !.name = called, !.sent = sent]
    <3>2. /\ step \in {"name", "clear", "write"} /\ called \in RegisterNames \cup {"none"}
          /\ (step = "write" => "default" \notin sent)
      BY DEF AfterChecks
    <3>3. BeginRegister(r, new)  BY <3>1
    <3> HIDE DEF step, called
    <3>4. /\ new \in RegisterProgress /\ new.at = step /\ new.sent = sent
          /\ new.limited = FALSE
      BY <2>0, <3>2 DEF RegisterProgress
    <3> HIDE DEF new
    <3> QED  BY <3>2, <3>3, <3>4
  <2> QED  BY <2>1, <2>2, <2>3, <2>4
<1>2. RegisterMoves(r, new)  BY <1>1, BeginsMoves
<1>3. /\ UNCHANGED <<register, cachedCount, reactivated>> /\ basic' \in BOOLEAN
      /\ cachedCount' \in Nat \cup {NoCount} /\ registerRequest[r].at = "new"
  BY RegisterTypes
  DEF GuardRead, StatusRead, ChangePlan, RegisterUpdateRead, BeginRegister, RegisterAt, RegistersInv
<1>4. Alone(r) => (cachedCount' # NoCount => ActiveCount <= cachedCount')
  BY <1>3, CountTrusted
<1> QED  BY <1>1, <1>2, <1>3, <1>4, RequestStepKeeps

\* The check of the name, or an interruption.
LEMMA CheckNameKeeps ==
    ASSUME RegistersInv, NEW r \in RegisterRequests, CheckName(r) \/ RegisterInterrupted(r)
    PROVE  RegistersInv'
<1>1. /\ InProgress(r) /\ RegistersTypeOK /\ registerRequest[r].at # "invalidate"
      /\ UNCHANGED <<register, basic, cachedCount, reactivated>>
  BY DEF CheckName, RegisterInterrupted, RegisterAt, InProgress, RegistersInv
<1>2. /\ basic' \in BOOLEAN /\ cachedCount' \in Nat \cup {NoCount}
      /\ (Alone(r) => (cachedCount' # NoCount => ActiveCount <= cachedCount'))
  BY <1>1, RegisterTypes, CountTrusted
<1>3. CASE RegisterAnswer(r)
  <2>1. RegisterMoves(r, RegisterDone) /\ RegisterDone.at = "done"
    BY <1>1, <1>3, AnswerMoves, RegisterIdleTyped
  <2> QED  BY <1>1, <1>2, <2>1, RequestStepKeeps
<1>4. CASE ~RegisterAnswer(r)
  <2>1. /\ registerRequest[r].at = "name"
        /\ RegisterGoto(r, AfterChecks(registerRequest[r].sent))
    BY <1>4 DEF CheckName, RegisterInterrupted, RegisterAt
  <2>2. PICK step \in {"clear", "write"} :
          /\ step = AfterChecks(registerRequest[r].sent)
          /\ (step = "write" => "default" \notin registerRequest[r].sent)
    BY DEF AfterChecks
  <2>3. PICK new : /\ RegisterMoves(r, new) /\ new.at = step
                   /\ new.on = registerRequest[r].on /\ new.sent = registerRequest[r].sent
                   /\ new.limited = registerRequest[r].limited
    BY <1>1, <2>1, <2>2, GotoMoves
  <2>4. Alone(r) => (new.on = r /\ new.limited => ActiveCount < Limit)
    BY <2>1, <2>3 DEF RegistersInv, RoomLeft, Alone
  <2>5. ~(new.at = "write" /\ "default" \in new.sent) /\ new.at # "store"
    BY <2>2, <2>3
  <2> QED  BY <1>1, <1>2, <2>3, <2>4, <2>5, RequestStepKeeps
<1> QED  BY <1>3, <1>4

\* Clearing the marks leaves no mark but those set by an overlapping request after it.
LEMMA ClearDefaultsKeeps ==
    ASSUME RegistersInv, NEW r \in RegisterRequests, ClearDefaults(r)
    PROVE  RegistersInv'
<1>1. /\ InProgress(r) /\ RegistersTypeOK /\ registerRequest[r].at = "clear"
      /\ UNCHANGED <<basic, cachedCount, reactivated>> /\ RegisterGoto(r, "write")
      /\ register' = [g \in Registers |->
           IF Clears(g) THEN [register[g] EXCEPT !.default = "none"] ELSE register[g]]
  BY DEF ClearDefaults, RegisterAt, InProgress, RegistersInv
<1>2. PICK new : /\ RegisterMoves(r, new) /\ new.at = "write"
                 /\ new.on = registerRequest[r].on /\ new.limited = registerRequest[r].limited
  BY <1>1, GotoMoves
<1>3. \A g \in Registers :
        /\ register'[g] \in RegisterRow /\ register'[g].default = "none"
        /\ register'[g].active = register[g].active
        /\ (register'[g] # Absent => register[g] # Absent)
  <2> SUFFICES ASSUME NEW g \in Registers
               PROVE  /\ register'[g] \in RegisterRow /\ register'[g].default = "none"
                      /\ register'[g].active = register[g].active
                      /\ (register'[g] # Absent => register[g] # Absent)
    OBVIOUS
  <2>1. register[g] \in RegisterRow  BY <1>1, RegisterTypes
  <2>2. CASE Clears(g)
    <3>1. register'[g] = [register[g] EXCEPT !.default = "none"]  BY <1>1, <2>2
    <3>2. register[g] # Absent  BY <2>2, RegisterIdleTyped DEF Clears
    <3> QED  BY <2>1, <3>1, <3>2 DEF RegisterRow
  <2>3. CASE ~Clears(g)
    <3>1. register'[g] = register[g]  BY <1>1, <2>3
    <3> QED  BY <2>1, <2>3, <3>1 DEF Clears
  <2> QED  BY <2>2, <2>3
<1>4. register' \in [Registers -> RegisterRow]  BY <1>1, <1>3
<1>5. ActiveRegisters' = ActiveRegisters /\ ActiveCount' = ActiveCount
  <2>1. ActiveRegisters' = ActiveRegisters  BY <1>3 DEF ActiveRegisters
  <2> QED  BY <2>1 DEF ActiveRegisters, ActiveCount
<1>6. r \in Registers /\ basic' \in BOOLEAN /\ cachedCount' \in Nat \cup {NoCount}
      /\ reactivated' \in BOOLEAN
  BY <1>1, RegisterTypes DEF Registers
<1>7. WritesRegister(r, new, r)
  BY <1>1, <1>2, <1>3, <1>4, <1>5, <1>6 DEF WritesRegister
<1>8. (OneAtATime)' =>
        /\ cachedCount' # NoCount => ActiveCount' <= cachedCount'
        /\ (new.at = "write" /\ new.on = r /\ new.limited) => ActiveCount' < Limit
  <2> SUFFICES ASSUME (OneAtATime)'
               PROVE  /\ cachedCount' # NoCount => ActiveCount' <= cachedCount'
                      /\ (new.at = "write" /\ new.on = r /\ new.limited) => ActiveCount' < Limit
    OBVIOUS
  <2>1. OneAtATime /\ Alone(r)  BY <1>1, <1>2, NobodyElse DEF Alone
  <2>2. RoomLeft(r) /\ (cachedCount # NoCount => ActiveCount <= cachedCount)
    BY <1>1, <2>1, CountTrusted DEF RegistersInv
  <2> QED  BY <1>1, <1>2, <1>5, <2>2 DEF RoomLeft
<1> QED  BY <1>6, <1>7, <1>8, RegisterRowsKeep

\* A write that was refused ends its request.
WriteRefused(r) == RegisterAnswer(r) /\ UNCHANGED <<register, reactivated>>

\* A write that is allowed: what it leaves of the register, and where the request goes.
LEMMA RegisterWritten ==
    ASSUME RegistersInv, NEW r \in RegisterRequests, RegisterWrite(r), ~WriteRefused(r)
    PROVE  LET q == registerRequest[r]
           IN /\ InProgress(r) /\ q.at = "write" /\ q.on \in Registers
              /\ (q.on = r \/ register[q.on] # Absent)
              /\ register' = [register EXCEPT ![q.on] = Written(r, q)]
              /\ Written(r, q) \in RegisterRow
              /\ Written(r, q).default \in {"none", register[q.on].default} \/
                   (Written(r, q).default = r /\ "default" \in q.sent)
              /\ (reactivated' <=> reactivated \/ ("active" \in q.sent /\ ~register[q.on].active))
              /\ (q.on # r /\ Written(r, q).active => register[q.on].active \/ reactivated')
              /\ (q.on = r => RegisterGoto(r, "invalidate")) /\ (q.on # r => RegisterAnswer(r))
              /\ basic' = basic /\ cachedCount' = cachedCount
<1> DEFINE q == registerRequest[r]
           row == IF q.on = r THEN [Absent EXCEPT !.active = TRUE] ELSE register[q.on]
<1>1. q \in RegisterProgress /\ q.on \in Registers /\ q.name \in RegisterNames \cup {"none"}
  BY RegisterTypes DEF RegistersInv, RegisterProgress
<1>2. register[q.on] \in RegisterRow /\ r \in Registers
  BY <1>1, RegisterTypes DEF RegistersInv, Registers
<1>3. row \in RegisterRow /\ (row.default = "none" \/ row.default = register[q.on].default)
      /\ (q.on # r => row = register[q.on])
  BY <1>2, RegisterIdleTyped DEF RegisterRow, Absent
<1>4. Written(r, q) =
        [name |-> IF "name" \in q.sent THEN q.name ELSE row.name,
         default |-> IF "default" \in q.sent THEN r ELSE IF "other" \in q.sent THEN "none"
                     ELSE row.default,
         active |-> (row.active \/ "active" \in q.sent) /\ "inactive" \notin q.sent]
  BY DEF Written
<1>5. /\ q.at = "write" /\ InProgress(r) /\ (q.on = r \/ register[q.on] # Absent)
      /\ register' = [register EXCEPT ![q.on] = Written(r, q)]
      /\ (reactivated' <=> reactivated \/ ("active" \in q.sent /\ ~register[q.on].active))
      /\ (q.on = r => RegisterGoto(r, "invalidate")) /\ (q.on # r => RegisterAnswer(r))
      /\ basic' = basic /\ cachedCount' = cachedCount
  BY DEF RegisterWrite, WriteRefused, RegisterAt, InProgress, Exists
<1> HIDE DEF row
<1>6. row.name \in RegisterNames \cup {"none"} /\ row.default \in Registers \cup {"none"}
      /\ row.active \in BOOLEAN
  BY <1>3 DEF RegisterRow
<1>7. Written(r, q) \in RegisterRow
  BY <1>1, <1>2, <1>4, <1>6 DEF RegisterRow
<1>8. Written(r, q).default \in {"none", register[q.on].default} \/
        (Written(r, q).default = r /\ "default" \in q.sent)
  BY <1>3, <1>4
<1>9. q.on # r /\ Written(r, q).active => register[q.on].active \/ reactivated'
  <2> SUFFICES ASSUME q.on # r, Written(r, q).active, ~register[q.on].active PROVE reactivated'
    OBVIOUS
  <2>1. row.active \/ "active" \in q.sent
    <3> DEFINE acts == (row.active \/ "active" \in q.sent) /\ "inactive" \notin q.sent
               called == IF "name" \in q.sent THEN q.name ELSE row.name
               marked == IF "default" \in q.sent THEN r ELSE IF "other" \in q.sent THEN "none"
                         ELSE row.default
    <3>1. Written(r, q) = [name |-> called, default |-> marked, active |-> acts]  BY <1>4
    <3> HIDE DEF acts, called, marked
    <3>2. Written(r, q).active = acts  BY <3>1
    <3>3. acts  BY <3>2
    <3> QED  BY <3>3 DEF acts
  <2>2. row = register[q.on]  BY <1>3
  <2>3. "active" \in q.sent  BY <2>1, <2>2
  <2> QED  BY <1>5, <2>3
<1> QED  BY <1>1, <1>5, <1>7, <1>8, <1>9

\* The write: an update adds no active register, and a creation goes on to invalidate the count.
LEMMA RegisterWriteKeeps ==
    ASSUME RegistersInv, NEW r \in RegisterRequests, RegisterWrite(r)
    PROVE  RegistersInv'
<1> DEFINE q == registerRequest[r]
<1>1. /\ RegistersTypeOK /\ RegisterDone.at = "done" /\ InProgress(r) /\ q.at = "write"
      /\ basic' = basic /\ cachedCount' = cachedCount
  BY RegisterIdleTyped DEF RegistersInv, RegisterWrite, RegisterAt, InProgress
<1>2. /\ register \in [Registers -> RegisterRow] /\ basic \in BOOLEAN
      /\ cachedCount \in Nat \cup {NoCount} /\ reactivated \in BOOLEAN
  BY <1>1, RegisterTypes
<1>3. CASE WriteRefused(r)
  <2>1. RegisterMoves(r, RegisterDone)  BY <1>1, <1>3, AnswerMoves DEF WriteRefused
  <2>2. Alone(r) => (cachedCount' # NoCount => ActiveCount <= cachedCount')
    BY <1>1, CountTrusted
  <2> QED  BY <1>1, <1>2, <1>3, <2>1, <2>2, RequestStepKeeps DEF WriteRefused
<1>4. CASE ~WriteRefused(r)
  <2>1. /\ q.on \in Registers /\ (q.on = r \/ register[q.on] # Absent)
        /\ register' = [register EXCEPT ![q.on] = Written(r, q)]
        /\ Written(r, q) \in RegisterRow
        /\ (\/ Written(r, q).default \in {"none", register[q.on].default}
            \/ Written(r, q).default = r /\ "default" \in q.sent)
        /\ (reactivated' <=> reactivated \/ ("active" \in q.sent /\ ~register[q.on].active))
        /\ (q.on # r /\ Written(r, q).active => register[q.on].active \/ reactivated')
        /\ (q.on = r => RegisterGoto(r, "invalidate")) /\ (q.on # r => RegisterAnswer(r))
    BY <1>4, RegisterWritten
  <2>2. PICK e \in Registers, row \in RegisterRow : e = q.on /\ row = Written(r, q)  BY <2>1
  <2>3. /\ register' \in [Registers -> RegisterRow] /\ register'[e] = row
        /\ \A g \in Registers : g # e => register'[g] = register[g]
    BY <1>2, <2>1, <2>2
  <2>4. PICK new : /\ RegisterMoves(r, new)
                   /\ new.at = IF e = r THEN "invalidate" ELSE "done"
    <3>1. CASE e = r  BY <1>1, <2>1, <2>2, <3>1, GotoMoves
    <3>2. CASE e # r  BY <1>1, <2>1, <2>2, <3>2, AnswerMoves
    <3> QED  BY <3>1, <3>2
  <2>5. reactivated' \in BOOLEAN /\ (reactivated => reactivated')
    <3>1. reactivated' \in BOOLEAN
      BY <1>2, <1>4 DEF RegisterWrite, WriteRefused
    <3> QED  BY <2>1, <3>1
  <2>6. ActiveRegisters' \subseteq ActiveRegisters \cup {e}
    BY <2>3 DEF ActiveRegisters
  <2>7. \A g \in Registers :
          \/ register'[g].default \in {"none", register[g].default}
          \/ /\ g = e /\ register'[g].default = r
             /\ RegisterAt(r, "write") /\ "default" \in registerRequest[r].sent
    BY <1>1, <2>1, <2>2, <2>3 DEF RegisterAt
  <2>8. \A g \in Registers :
          register'[g] # Absent => register[g] # Absent \/ (g = r /\ new.at # "write")
    BY <2>1, <2>2, <2>3, <2>4
  <2>9. WritesRegister(r, new, e)
    <3>1. new.at \in {"invalidate", "done"} /\ new.at # "write"  BY <2>4
    <3>2. basic' \in BOOLEAN /\ cachedCount' \in Nat \cup {NoCount}  BY <1>1, <1>2
    <3> QED  BY <1>1, <2>3, <2>4, <2>5, <2>6, <2>7, <2>8, <3>1, <3>2 DEF WritesRegister
  <2>10. ASSUME (OneAtATime)', cachedCount' # NoCount, new.at # "invalidate"
         PROVE  ActiveCount' <= cachedCount'
    <3>1. Alone(r)  BY <2>4, <2>5, <2>10, NobodyElse DEF Alone
    <3>2. ActiveCount <= cachedCount  BY <1>1, <2>10, <3>1, CountTrusted
    <3>3. register'[e].active => register[e].active
      BY <2>1, <2>2, <2>3, <2>4, <2>10 DEF OneAtATime
    <3>4. ActiveRegisters' \subseteq ActiveRegisters  BY <2>3, <3>3 DEF ActiveRegisters
    <3>5. /\ Cardinality(ActiveRegisters') <= Cardinality(ActiveRegisters)
          /\ Cardinality(ActiveRegisters') \in Nat /\ Cardinality(ActiveRegisters) \in Nat
      BY <3>4, CountBounds DEF RegistersInv
    <3>6. ActiveCount = Cardinality(ActiveRegisters) /\ ActiveCount' = Cardinality(ActiveRegisters')
      BY DEF ActiveCount, ActiveRegisters
    <3> QED  BY <1>1, <1>2, <2>10, <3>2, <3>5, <3>6
  <2>11. new.at # "write"  BY <2>4
  <2> QED  BY <2>9, <2>10, <2>11, RegisterRowsKeep
<1> QED  BY <1>3, <1>4

\* An invalidated count is asked again.
LEMMA InvalidateCountKeeps ==
    ASSUME RegistersInv, NEW r \in RegisterRequests, InvalidateCount(r)
    PROVE  RegistersInv'
<1>1. /\ InProgress(r) /\ RegisterAnswer(r) /\ cachedCount' = NoCount
      /\ UNCHANGED <<register, basic, reactivated>>
  BY DEF InvalidateCount, RegisterAt, InProgress
<1>2. RegisterMoves(r, RegisterDone) /\ RegisterDone.at = "done" /\ basic' \in BOOLEAN
  BY <1>1, AnswerMoves, RegisterIdleTyped, RegisterTypes DEF RegistersInv
<1> QED  BY <1>1, <1>2, RequestStepKeeps

\* A removal only lowers the number of active registers.
LEMMA RegisterRemoveKeeps ==
    ASSUME RegistersInv, NEW r \in RegisterRequests, RegisterRemove(r)
    PROVE  RegistersInv'
<1>1. PICK e \in Registers : register' = [register EXCEPT ![e] = Absent]
  BY DEF RegisterRemove
<1>2. /\ BeginRegister(r, RegisterDone) /\ UNCHANGED <<basic, cachedCount, reactivated>>
      /\ RegisterDone.at = "done" /\ RegisterDone \in RegisterProgress
      /\ Absent \in RegisterRow /\ Absent.default = "none" /\ Absent.active = FALSE
      /\ registerRequest[r].at = "new"
  BY RegisterIdleTyped DEF RegisterRemove, RegisterDone, BeginRegister, RegisterAt
<1>3. /\ register \in [Registers -> RegisterRow] /\ basic \in BOOLEAN
      /\ cachedCount \in Nat \cup {NoCount} /\ reactivated \in BOOLEAN
  BY RegisterTypes DEF RegistersInv
<1>4. /\ register' \in [Registers -> RegisterRow] /\ register'[e] = Absent
      /\ \A g \in Registers : g # e => register'[g] = register[g]
  BY <1>1, <1>2, <1>3
<1>5. RegisterMoves(r, RegisterDone)  BY <1>2, BeginsMoves
<1>6. ActiveRegisters' \subseteq ActiveRegisters  BY <1>2, <1>4 DEF ActiveRegisters
<1>7. WritesRegister(r, RegisterDone, e)
  BY <1>2, <1>3, <1>4, <1>5, <1>6 DEF WritesRegister
<1>8. ASSUME (OneAtATime)', cachedCount' # NoCount PROVE ActiveCount' <= cachedCount'
  <2>1. Alone(r)  BY <1>2, <1>5, <1>8, NobodyElse DEF Alone
  <2>2. ActiveCount <= cachedCount  BY <1>2, <1>8, <2>1, CountTrusted
  <2>3. /\ Cardinality(ActiveRegisters') <= Cardinality(ActiveRegisters)
        /\ Cardinality(ActiveRegisters') \in Nat /\ Cardinality(ActiveRegisters) \in Nat
    BY <1>6, CountBounds DEF RegistersInv
  <2>4. ActiveCount = Cardinality(ActiveRegisters) /\ ActiveCount' = Cardinality(ActiveRegisters')
    BY DEF ActiveCount, ActiveRegisters
  <2> QED  BY <1>2, <1>3, <2>2, <2>3, <2>4, <1>8
<1> QED  BY <1>2, <1>7, <1>8, RegisterRowsKeep

\* At the start there is one register, which is the default.
LEMMA RegistersInitKeeps == RegistersInit => RegistersInv
<1> SUFFICES ASSUME RegistersInit PROVE RegistersInv  OBVIOUS
<1>1. Opening \in Registers /\ Opening \notin RegisterRequests /\ Limit \in Nat \ {0}
      /\ OpeningName \in RegisterNames
  BY CashRegistersAssumption DEF Registers
<1>2. \A g \in Registers :
        /\ register[g] \in RegisterRow
        /\ g # Opening => register[g] = Absent /\ register[g].default = "none" /\ ~register[g].active
  BY <1>1, RegisterIdleTyped DEF RegistersInit, RegisterRow
<1>3. \A r \in RegisterRequests : registerRequest[r].at = "new" /\ register[r] = Absent
  BY <1>1, <1>2, RegisterIdleTyped DEF RegistersInit, Registers
<1>4. RegistersTypeOK
  <2>1. /\ register \in [Registers -> RegisterRow]
        /\ registerRequest \in [RegisterRequests -> RegisterProgress]
    BY <1>2, RegisterIdleTyped DEF RegistersInit
  <2> QED  BY <2>1 DEF RegistersInit, RegistersTypeOK, RegisterProgress, RegisterRow
<1>5. TwoDefaultsMeanOverlap  BY <1>2 DEF TwoDefaultsMeanOverlap
<1>6. ActiveRegisters \subseteq {} \cup {Opening} /\ IsFiniteSet({})
  BY <1>2, FS_EmptySet DEF ActiveRegisters
<1>7. IsFiniteSet(ActiveRegisters)  BY <1>6, CountBounds
<1> QED
  BY <1>3, <1>4, <1>5, <1>7
  DEF RegistersInv, RegistersInit, ProgressOverlaps, InProgress, MarkCleared, CreatedByWrite,
      Exists, RegisterAt, RoomLeft, OneAtATime, CountCovers

\* Every step of the registers.
LEMMA RegistersNextKeeps == RegistersInv /\ RegistersNext => RegistersInv'
<1> SUFFICES ASSUME RegistersInv, RegistersNext PROVE RegistersInv'  OBVIOUS
<1>1. CASE CountExpires  BY <1>1, CountExpiresKeeps
<1>2. ASSUME NEW r \in RegisterRequests,
             \/ GuardRead(r) \/ StatusRead(r) \/ ChangePlan(r) \/ RegisterUpdateRead(r)
             \/ RegisterRemove(r) \/ RegisterStep(r)
      PROVE  RegistersInv'
  BY <1>2, RegisterReadsKeep, RegisterRemoveKeeps, CountStepsKeep, CheckNameKeeps,
     ClearDefaultsKeeps, RegisterWriteKeeps, InvalidateCountKeeps DEF RegisterStep
<1> QED  BY <1>1, <1>2 DEF RegistersNext

\* A step of the rest of the system.
LEMMA RegistersRestKeeps == RegistersInv /\ UNCHANGED registerVars => RegistersInv'
<1> SUFFICES ASSUME RegistersInv, UNCHANGED registerVars PROVE RegistersInv'  OBVIOUS
<1>1. ActiveRegisters' = ActiveRegisters /\ ActiveCount' = ActiveCount
  BY DEF ActiveRegisters, ActiveCount, registerVars
<1>2. RegistersTypeOK'  BY DEF RegistersInv, RegistersTypeOK, registerVars
<1>3. TwoDefaultsMeanOverlap' /\ ProgressOverlaps' /\ IsFiniteSet(ActiveRegisters)'
  BY <1>1 DEF RegistersInv, TwoDefaultsMeanOverlap, ProgressOverlaps, InProgress, registerVars
<1>4. \A r \in RegisterRequests : MarkCleared(r)' /\ CreatedByWrite(r)'
  BY DEF RegistersInv, MarkCleared, CreatedByWrite, RegisterAt, Exists, registerVars
<1>5. (OneAtATime)' => CountCovers' /\ \A r \in RegisterRequests : RoomLeft(r)'
  BY <1>1 DEF RegistersInv, OneAtATime, CountCovers, RoomLeft, RegisterAt, registerVars
<1> QED  BY <1>2, <1>3, <1>4, <1>5 DEF RegistersInv

\* Only a creation that passed the guard inserts a register of a limited plan.
LEMMA LimitPassed ==
    ASSUME RegistersInv, RegistersNext, NEW r \in RegisterRequests, PassesLimit(r)
    PROVE  overlapped # {} \/ reactivated
<1> SUFFICES ASSUME OneAtATime PROVE FALSE  BY DEF OneAtATime
<1>1. /\ r \in Registers /\ register[r] = Absent /\ register'[r] # Absent
      /\ registerRequest[r].limited /\ ActiveCount' > Limit /\ Absent.default = "none"
  BY RegisterIdleTyped DEF PassesLimit, Exists, Registers
<1>2. register \in [Registers -> RegisterRow]  BY RegisterTypes DEF RegistersInv
<1>3. PICK s \in RegisterRequests : RegisterWrite(s)
  <2>1. register' # register  BY <1>1
  <2>2. ASSUME NEW s \in RegisterRequests, ClearDefaults(s) PROVE FALSE
    <3>1. ~Clears(r)  BY <1>1 DEF Clears
    <3> QED  BY <1>1, <2>2, <3>1 DEF ClearDefaults
  <2>3. ASSUME NEW s \in RegisterRequests, RegisterRemove(s) PROVE FALSE
    BY <1>1, <1>2, <2>3 DEF RegisterRemove
  <2> QED
    BY <2>1, <2>2, <2>3
    DEF RegistersNext, RegisterStep, CountExpires, GuardRead, StatusRead, ChangePlan,
        RegisterUpdateRead, CountCached, CountQuery, CountStore, CheckName, InvalidateCount,
        RegisterInterrupted
<1>4. /\ registerRequest[s].at = "write" /\ registerRequest[s].on \in Registers
      /\ (registerRequest[s].on = s \/ register[registerRequest[s].on] # Absent)
      /\ register' = [register EXCEPT ![registerRequest[s].on] = Written(s, registerRequest[s])]
  <2>1. ~WriteRefused(s)  BY <1>1 DEF WriteRefused
  <2> QED  BY <1>3, <2>1, RegisterWritten
<1>5. registerRequest[s].on = r /\ s = r  BY <1>1, <1>2, <1>4
<1>6. ActiveCount < Limit  BY <1>1, <1>4, <1>5 DEF RegistersInv, RoomLeft
<1>7. ActiveRegisters' \subseteq ActiveRegisters \cup {r}
  BY <1>2, <1>4, <1>5 DEF ActiveRegisters
<1>8. /\ Cardinality(ActiveRegisters') <= Cardinality(ActiveRegisters) + 1
      /\ Cardinality(ActiveRegisters') \in Nat /\ Cardinality(ActiveRegisters) \in Nat
  BY <1>7, CountBounds DEF RegistersInv
<1>9. ActiveCount = Cardinality(ActiveRegisters) /\ ActiveCount' = Cardinality(ActiveRegisters')
  BY DEF ActiveCount, ActiveRegisters
<1> QED  BY <1>1, <1>6, <1>8, <1>9, CashRegistersAssumption

\* Requests one at a time leave one default register, and a creation never passes the
\* limit of the plan (cash-registers.service.ts:33-48, 92-97, plan-limits.service.ts:79-119).
THEOREM RegistersInOrder == RegistersSpec => RegistersOrdered
<1> DEFINE Ordered ==
        /\ TwoDefaultsMeanOverlap'
        /\ \A r \in RegisterRequests : PassesLimit(r) => overlapped # {} \/ reactivated
<1>1. RegistersInv /\ [RegistersNext]_registerVars => RegistersInv'
  BY RegistersNextKeeps, RegistersRestKeeps
<1>2. RegistersInv /\ [RegistersNext]_registerVars => [Ordered]_registerVars
  <2> SUFFICES ASSUME RegistersInv, RegistersNext PROVE Ordered  OBVIOUS
  <2>1. TwoDefaultsMeanOverlap'  BY RegistersNextKeeps DEF RegistersInv
  <2> QED  BY <2>1, LimitPassed
<1> QED  BY <1>1, <1>2, RegistersInitKeeps, PTL DEF RegistersSpec, RegistersOrdered

---------------------------------------------------------------------------
(* Members *)

MemberRows == MemberRequests \cup {"first", "none"}
MemberRow == [row : MemberRows, role : Roles, primary : BOOLEAN]
Memberships == [Accounts -> [Firms -> MemberRow]]
AccountStates == {"active", "inactive", "none"}
MemberProgress ==
    [at : {"new", "transfer", "add", "create", "role", "expel", "countAdmins", "delete", "countOthers",
           "deleteAccount", "toggle", "done"},
     op : {"none", "transfer", "add", "role", "expel", "remove", "toggle"},
     firm : Firms \cup {"none"}, user : Accounts, other : Accounts,
     row : MemberRows, otherRow : MemberRows, role : Roles, active : BOOLEAN]

\* The types, by the names used here.
LEMMA MemberTypes ==
    ASSUME MembersTypeOK
    PROVE  /\ account \in [Accounts -> AccountStates] /\ membership \in Memberships
           /\ memberRequest \in [MemberRequests -> MemberProgress]
           /\ memberOverlap \subseteq SUBSET MemberRequests /\ outside \subseteq Firms
  BY DEF MembersTypeOK, AccountStates, Memberships, MemberRow, MemberRows, MemberProgress

\* And back.
LEMMA MemberTyped ==
    ASSUME account \in [Accounts -> AccountStates], membership \in Memberships,
           memberRequest \in [MemberRequests -> MemberProgress],
           memberOverlap \subseteq SUBSET MemberRequests, outside \subseteq Firms
    PROVE  MembersTypeOK
  BY DEF MembersTypeOK, AccountStates, Memberships, MemberRow, MemberRows, MemberProgress

\* The progress a request begins with, and the row of somebody who is no member.
LEMMA MemberIdleTyped ==
    /\ MemberIdle \in MemberProgress /\ MemberIdle.at = "new" /\ MemberIdle.op = "none"
    /\ Stranger \in MemberRow /\ Stranger.row = "none" /\ Stranger.primary = FALSE
BY MembersAssumption DEF MemberIdle, MemberProgress, MemberRows, Roles, Stranger, MemberRow

\* A write of one membership.
LEMMA CellWritten ==
    ASSUME membership \in Memberships, NEW u \in Accounts, NEW f \in Firms, NEW new \in MemberRow,
           membership' = [membership EXCEPT ![u][f] = new]
    PROVE  /\ membership' \in Memberships /\ membership'[u][f] = new
           /\ \A w \in Accounts, g \in Firms :
                w # u \/ g # f => membership'[w][g] = membership[w][g]
BY DEF Memberships

\* A request moves on, or begins.
MemberMoves(r, new) ==
    /\ new \in MemberProgress
    /\ memberRequest' = [memberRequest EXCEPT ![r] = new]
    /\ \/ /\ Serving(r) /\ memberOverlap' = memberOverlap
          /\ new.op = memberRequest[r].op /\ new.firm = memberRequest[r].firm
       \/ /\ MemberAt(r, "new")
          /\ memberOverlap' = memberOverlap \cup {{r, q} : q \in {s \in MemberRequests : Serving(s)}}

\* A step of one request leaves the others, and overlaps the ones in progress.
LEMMA MemberFacts ==
    ASSUME MembersInv, NEW r \in MemberRequests, NEW new, MemberMoves(r, new)
    PROVE  /\ memberRequest' \in [MemberRequests -> MemberProgress]
           /\ memberRequest'[r] = new
           /\ \A s \in MemberRequests : s # r => memberRequest'[s] = memberRequest[s]
           /\ memberOverlap \subseteq memberOverlap' /\ memberOverlap' \subseteq SUBSET MemberRequests
           /\ \A s \in MemberRequests : s # r /\ Serving(s) => {r, s} \in memberOverlap'
<1>1. /\ memberRequest \in [MemberRequests -> MemberProgress]
      /\ memberOverlap \subseteq SUBSET MemberRequests
  BY MemberTypes DEF MembersInv
<1>2. new \in MemberProgress /\ memberRequest' = [memberRequest EXCEPT ![r] = new]
  BY DEF MemberMoves
<1>3. /\ memberOverlap \subseteq memberOverlap' /\ memberOverlap' \subseteq SUBSET MemberRequests
      /\ \A s \in MemberRequests : s # r /\ Serving(s) => {r, s} \in memberOverlap'
  <2>1. CASE Serving(r) /\ memberOverlap' = memberOverlap
    BY <1>1, <2>1 DEF MembersInv, ServingOverlap
  <2>2. CASE memberOverlap' = memberOverlap \cup {{r, q} : q \in {s \in MemberRequests : Serving(s)}}
    <3>1. {{r, q} : q \in {s \in MemberRequests : Serving(s)}} \subseteq SUBSET MemberRequests
      OBVIOUS
    <3> QED  BY <1>1, <2>2, <3>1
  <2> QED  BY <2>1, <2>2 DEF MemberMoves
<1> QED  BY <1>1, <1>2, <1>3

\* Such a step keeps the record of who overlapped whom.
LEMMA ServingKept ==
    ASSUME MembersInv, NEW r \in MemberRequests, NEW new, MemberMoves(r, new)
    PROVE  ServingOverlap'
<1> SUFFICES ASSUME NEW p \in MemberRequests, NEW q \in MemberRequests, p # q,
                    Serving(p)', Serving(q)'
             PROVE  {p, q} \in memberOverlap'
  BY DEF ServingOverlap
<1>1. CASE p = r
  <2>1. Serving(q)  BY <1>1, MemberFacts DEF Serving
  <2> QED  BY <1>1, <2>1, MemberFacts
<1>2. CASE q = r
  <2>1. Serving(p) /\ {p, q} = {q, p}  BY <1>2, MemberFacts DEF Serving
  <2> QED  BY <1>2, <2>1, MemberFacts
<1>3. CASE p # r /\ q # r
  <2>1. Serving(p) /\ Serving(q)  BY <1>3, MemberFacts DEF Serving
  <2>2. {p, q} \in memberOverlap  BY <2>1 DEF MembersInv, ServingOverlap
  <2> QED  BY <2>2, MemberFacts
<1> QED  BY <1>1, <1>2, <1>3

\* What disturbed an organization is remembered.
LEMMA DisturbedStays ==
    ASSUME MembersInv, NEW r \in MemberRequests, NEW new, MemberMoves(r, new), NEW f
    PROVE  /\ TransferDisturbed(f) => (TransferDisturbed(f))'
           /\ AdminDisturbed(f) => (AdminDisturbed(f))'
<1>1. \A s \in MemberRequests :
        Op(s) # "none" => memberRequest'[s].op = Op(s) /\ memberRequest'[s].firm = memberRequest[s].firm
  <2> SUFFICES ASSUME NEW s \in MemberRequests, Op(s) # "none"
               PROVE  memberRequest'[s].op = Op(s) /\ memberRequest'[s].firm = memberRequest[s].firm
    OBVIOUS
  <2>1. CASE s = r
    <3>1. ~MemberAt(r, "new")  BY <2>1 DEF MembersInv, StepOfOp, MemberAt, Op
    <3>2. new.op = memberRequest[r].op /\ new.firm = memberRequest[r].firm
      BY <3>1 DEF MemberMoves
    <3> QED  BY <2>1, <3>2, MemberFacts DEF Op
  <2>2. CASE s # r  BY <2>2, MemberFacts DEF Op
  <2> QED  BY <2>1, <2>2
<1>2. memberOverlap \subseteq memberOverlap'  BY MemberFacts
<1>3. ASSUME TransferDisturbed(f) PROVE (TransferDisturbed(f))'
  <2>1. PICK p \in MemberRequests, q \in MemberRequests :
          /\ Op(p) = "transfer" /\ Op(q) \in {"transfer", "expel", "remove"}
          /\ memberRequest[p].firm = f /\ {p, q} \in memberOverlap
    BY <1>3 DEF TransferDisturbed
  <2>2. /\ memberRequest'[p].op = "transfer" /\ memberRequest'[p].firm = f
        /\ memberRequest'[q].op \in {"transfer", "expel", "remove"} /\ {p, q} \in memberOverlap'
    BY <1>1, <1>2, <2>1
  <2> QED  BY <2>2 DEF TransferDisturbed, Op
<1>4. ASSUME AdminDisturbed(f) PROVE (AdminDisturbed(f))'
  <2>1. PICK p \in MemberRequests, q \in MemberRequests :
          /\ Op(p) \in {"toggle", "remove"} /\ memberRequest[p].firm = f
          /\ p # q /\ {p, q} \in memberOverlap
    BY <1>4 DEF AdminDisturbed
  <2>2. /\ memberRequest'[p].op \in {"toggle", "remove"} /\ memberRequest'[p].firm = f
        /\ p # q /\ {p, q} \in memberOverlap'
    BY <1>1, <1>2, <2>1
  <2> QED  BY <2>2 DEF AdminDisturbed, Op
<1> QED  BY <1>3, <1>4

\* An organization whose marks stay keeps its owner.
LEMMA OwnerKept ==
    ASSUME MembersInv, NEW r \in MemberRequests, NEW new, MemberMoves(r, new), NEW f \in Firms,
           TransferDisturbed(f) \/
             (OwnerSafe(new, f) /\ \A u \in Accounts : membership'[u][f].primary = membership[u][f].primary)
    PROVE  OwnerOf(f)'
<1> SUFFICES ASSUME ~(TransferDisturbed(f))' PROVE OwnerOf(f)'  BY DEF OwnerOf
<1>1. /\ \E p \in Accounts : \A u \in Accounts : Primary(u, f) <=> u = p
      /\ \A s \in MemberRequests : OwnerSafe(memberRequest[s], f)
      /\ OwnerSafe(new, f)
      /\ \A u \in Accounts : membership'[u][f].primary = membership[u][f].primary
  BY DisturbedStays DEF OwnerOf, MembersInv
<1>2. (\E p \in Accounts : \A u \in Accounts : Primary(u, f) <=> u = p)'
  BY <1>1 DEF Primary
<1>3. \A s \in MemberRequests : memberRequest'[s].user \in Accounts
  BY MemberFacts DEF MemberProgress
<1>4. \A s \in MemberRequests : (OwnerSafe(memberRequest[s], f))'
  <2> SUFFICES ASSUME NEW s \in MemberRequests PROVE (OwnerSafe(memberRequest[s], f))'
    OBVIOUS
  <2>1. CASE s = r
    <3>1. memberRequest'[s] = new  BY <2>1, MemberFacts
    <3> QED  BY <1>1, <1>3, <3>1 DEF OwnerSafe, Primary
  <2>2. CASE s # r
    <3>1. memberRequest'[s] = memberRequest[s]  BY <2>2, MemberFacts
    <3> QED  BY <1>1, <1>3, <3>1 DEF OwnerSafe, Primary
  <2> QED  BY <2>1, <2>2
<1> QED  BY <1>2, <1>4 DEF OwnerOf

\* An organization whose administrator is spared keeps this one, or has another
\* one when nobody else is being served.
LEMMA AdminKept ==
    ASSUME MembersInv, NEW r \in MemberRequests, NEW new, MemberMoves(r, new), NEW f \in Firms,
           outside \subseteq outside',
           \/ f \in outside' \/ (AdminDisturbed(f))'
           \/ \A by \in Accounts :
                ActiveAdmin(by, f) /\ Spares(memberRequest[r], f, by) =>
                    (ActiveAdmin(by, f))' /\ Spares(new, f, by)
           \/ /\ \E by \in Accounts : (ActiveAdmin(by, f))' /\ Spares(new, f, by)
              /\ \A s \in MemberRequests \ {r} : ~Serving(s)
    PROVE  AdminOf(f)'
<1> SUFFICES ASSUME f \notin outside', ~(AdminDisturbed(f))' PROVE AdminOf(f)'  BY DEF AdminOf
<1>1. f \notin outside /\ ~AdminDisturbed(f)  BY DisturbedStays
<1>2. CASE \A by \in Accounts :
             ActiveAdmin(by, f) /\ Spares(memberRequest[r], f, by) =>
                 (ActiveAdmin(by, f))' /\ Spares(new, f, by)
  <2>1. PICK by \in Accounts :
          ActiveAdmin(by, f) /\ \A s \in MemberRequests : Spares(memberRequest[s], f, by)
    BY <1>1 DEF MembersInv, AdminOf
  <2>2. (ActiveAdmin(by, f))' /\ Spares(new, f, by)  BY <1>2, <2>1
  <2>3. \A s \in MemberRequests : (Spares(memberRequest[s], f, by))'
    <3> SUFFICES ASSUME NEW s \in MemberRequests PROVE (Spares(memberRequest[s], f, by))'
      OBVIOUS
    <3>1. CASE s = r  BY <2>2, <3>1, MemberFacts DEF Spares
    <3>2. CASE s # r  BY <2>1, <3>2, MemberFacts DEF Spares
    <3> QED  BY <3>1, <3>2
  <2> QED  BY <2>2, <2>3 DEF AdminOf
<1>3. CASE /\ \E by \in Accounts : (ActiveAdmin(by, f))' /\ Spares(new, f, by)
           /\ \A s \in MemberRequests \ {r} : ~Serving(s)
  <2>1. PICK by \in Accounts : (ActiveAdmin(by, f))' /\ Spares(new, f, by)  BY <1>3
  <2>2. \A s \in MemberRequests : (Spares(memberRequest[s], f, by))'
    <3> SUFFICES ASSUME NEW s \in MemberRequests PROVE (Spares(memberRequest[s], f, by))'
      OBVIOUS
    <3>1. CASE s = r  BY <2>1, <3>1, MemberFacts DEF Spares
    <3>2. CASE s # r
      <4>1. memberRequest'[s].at \in {"new", "done"}  BY <1>3, <3>2, MemberFacts DEF Serving
      <4> QED  BY <4>1 DEF Spares
    <3> QED  BY <3>1, <3>2
  <2> QED  BY <2>1, <2>2 DEF AdminOf
<1> QED  BY <1>2, <1>3

\* The invariant after a step of r, from what the step leaves of each organization.
LEMMA MembersAfter ==
    ASSUME MembersInv, NEW r \in MemberRequests, NEW new, MemberMoves(r, new), StepOfOp(new),
           account' \in [Accounts -> AccountStates], membership' \in Memberships,
           outside' \subseteq Firms, MembersReal',
           \A f \in Firms : OwnerOf(f)' /\ AdminOf(f)'
    PROVE  MembersInv'
<1>1. MembersTypeOK'
  <2>1. /\ memberRequest' \in [MemberRequests -> MemberProgress]
        /\ memberOverlap' \subseteq SUBSET MemberRequests
    BY MemberFacts
  <2> QED
    BY <2>1 DEF MembersTypeOK, AccountStates, Memberships, MemberRow, MemberRows, MemberProgress
<1>2. \A s \in MemberRequests : StepOfOp(memberRequest'[s])
  <2> SUFFICES ASSUME NEW s \in MemberRequests PROVE StepOfOp(memberRequest'[s])  OBVIOUS
  <2>1. CASE s = r
    <3>1. memberRequest'[s] = new  BY <2>1, MemberFacts
    <3> QED  BY <3>1
  <2>2. CASE s # r
    <3>1. memberRequest'[s] = memberRequest[s] /\ StepOfOp(memberRequest[s])
      BY <2>2, MemberFacts DEF MembersInv
    <3> QED  BY <3>1
  <2> QED  BY <2>1, <2>2
<1>3. ServingOverlap'  BY ServingKept
<1>4. \A s \in MemberRequests : (StepOfOp(memberRequest[s]))'  BY <1>2 DEF StepOfOp
<1> QED  BY <1>1, <1>3, <1>4 DEF MembersInv

\* Where a request goes.
LEMMA GoesDone ==
    ASSUME MembersInv, NEW r \in MemberRequests, Serving(r), MemberGoto(r, "done")
    PROVE  \E new : MemberMoves(r, new) /\ new.at = "done" /\ StepOfOp(new)
<1> DEFINE q == memberRequest[r]
           new == [MemberIdle EXCEPT !.at = "done", !.op = q.op, !.firm = q.firm]
<1>1. q \in MemberProgress /\ q.op \in {"none", "transfer", "add", "role", "expel", "remove", "toggle"}
      /\ q.firm \in Firms \cup {"none"}
  BY MemberTypes DEF MembersInv, MemberProgress
<1>2. new \in MemberProgress /\ new.at = "done" /\ new.op = q.op /\ new.firm = q.firm
  BY <1>1, MemberIdleTyped DEF MemberProgress
<1>3. memberRequest' = [memberRequest EXCEPT ![r] = new] /\ memberOverlap' = memberOverlap
  BY DEF MemberGoto
<1> HIDE DEF new
<1>4. MemberMoves(r, new)  BY <1>2, <1>3 DEF MemberMoves
<1>5. StepOfOp(new)  BY <1>2 DEF StepOfOp
<1> QED  BY <1>2, <1>4, <1>5

\* A step within a removal keeps its user and its organization.
LEMMA GoesOn ==
    ASSUME MembersInv, NEW r \in MemberRequests, Serving(r), memberRequest[r].op = "remove",
           NEW step \in {"delete", "countOthers", "deleteAccount"}, MemberGoto(r, step)
    PROVE  \E new : /\ MemberMoves(r, new) /\ StepOfOp(new) /\ new.at = step
                    /\ new.op = "remove" /\ new.firm = memberRequest[r].firm
                    /\ new.user = memberRequest[r].user
<1> DEFINE q == memberRequest[r]
           new == [q EXCEPT !.at = step]
<1>1. q \in MemberProgress  BY MemberTypes DEF MembersInv
<1>2. /\ new \in MemberProgress /\ new.at = step /\ new.op = q.op /\ new.firm = q.firm
      /\ new.user = q.user
  BY <1>1 DEF MemberProgress
<1>3. memberRequest' = [memberRequest EXCEPT ![r] = new] /\ memberOverlap' = memberOverlap
  BY DEF MemberGoto
<1> HIDE DEF new
<1>4. MemberMoves(r, new)  BY <1>2, <1>3 DEF MemberMoves
<1>5. q.firm \in Firms  BY DEF MembersInv, StepOfOp, Serving
<1>6. StepOfOp(new)  BY <1>2, <1>5 DEF StepOfOp
<1> QED  BY <1>2, <1>4, <1>6

\* A request that ends keeps the invariant if the marks stay and it spares whom it has to.
LEMMA EndKeeps ==
    ASSUME MembersInv, NEW r \in MemberRequests, Serving(r), MemberGoto(r, "done"),
           account' \in [Accounts -> AccountStates], membership' \in Memberships,
           outside \subseteq outside', outside' \subseteq Firms, MembersReal',
           \A f \in Firms :
             \/ TransferDisturbed(f) \/ OwnerOf(f)'
             \/ \A u \in Accounts : membership'[u][f].primary = membership[u][f].primary,
           \A f \in Firms :
             \/ f \in outside'
             \/ \A by \in Accounts :
                  ActiveAdmin(by, f) /\ Spares(memberRequest[r], f, by) => (ActiveAdmin(by, f))'
    PROVE  MembersInv'
<1>1. PICK new : MemberMoves(r, new) /\ new.at = "done" /\ StepOfOp(new)  BY GoesDone
<1>2. \A f \in Firms : OwnerSafe(new, f) /\ \A by \in Accounts : Spares(new, f, by)
  BY <1>1 DEF OwnerSafe, Spares
<1>3. ASSUME NEW f \in Firms PROVE OwnerOf(f)'
  <2>1. CASE OwnerOf(f)'  BY <2>1
  <2>2. CASE \/ TransferDisturbed(f)
             \/ \A u \in Accounts : membership'[u][f].primary = membership[u][f].primary
    BY <1>1, <1>2, <2>2, OwnerKept
  <2> QED  BY <2>1, <2>2
<1>4. ASSUME NEW f \in Firms PROVE AdminOf(f)'
  <2>1. \/ f \in outside'
        \/ \A by \in Accounts :
             ActiveAdmin(by, f) /\ Spares(memberRequest[r], f, by) =>
                 (ActiveAdmin(by, f))' /\ Spares(new, f, by)
    BY <1>2
  <2> QED  BY <1>1, <2>1, AdminKept
<1> QED  BY <1>1, <1>3, <1>4, MembersAfter

\* What a request checks before its first write makes that write safe for the owner
\* and for the administrator who remains.
LEMMA MemberReadsKeep ==
    ASSUME MembersInv, NEW r \in MemberRequests,
           \/ TransferRead(r) \/ MemberAddRead(r) \/ UserCreateRead(r) \/ RoleRead(r)
           \/ ExpelRead(r) \/ RemoveRead(r) \/ AccountToggleRead(r)
    PROVE  MembersInv'
<1>1. /\ account \in [Accounts -> AccountStates] /\ membership \in Memberships
      /\ outside \subseteq Firms /\ MemberIdle \in MemberProgress
      /\ \A u \in Accounts, f \in Firms : membership[u][f].row \in MemberRows
  BY MemberTypes, MemberIdleTyped DEF MembersInv, Memberships, MemberRow
<1>2. PICK new \in MemberProgress :
        /\ BeginMember(r, new) /\ StepOfOp(new) /\ new.at # "deleteAccount"
        /\ \A f \in Firms : OwnerSafe(new, f)
        /\ (new.op \in {"toggle", "remove"} =>
              \E by \in Accounts \ {new.user} : ActiveAdmin(by, new.firm) /\ account' = account)
  <2>1. CASE TransferRead(r)
    <3>1. PICK f \in Firms, u \in Accounts, v \in Accounts :
            /\ u # v /\ membership[u][f].primary /\ Admin(v, f)
            /\ BeginMember(r, [MemberIdle EXCEPT
                   !.at = "transfer", !.op = "transfer", !.firm = f,
                   !.user = u, !.row = membership[u][f].row,
                   !.other = v, !.otherRow = membership[v][f].row])
      BY <2>1 DEF TransferRead
    <3> DEFINE new == [MemberIdle EXCEPT
                   !.at = "transfer", !.op = "transfer", !.firm = f,
                   !.user = u, !.row = membership[u][f].row,
                   !.other = v, !.otherRow = membership[v][f].row]
    <3>2. membership[u][f].row # "none" /\ membership[v][f].row # "none"
      BY <3>1 DEF MembersInv, MembersReal, Primary, Member, Admin
    <3>3. membership[u][f].row \in MemberRows /\ membership[v][f].row \in MemberRows  BY <1>1
    <3>4. /\ new \in MemberProgress /\ new.at = "transfer" /\ new.op = "transfer" /\ new.firm = f
          /\ new.user = u /\ new.other = v /\ new.row # "none" /\ new.otherRow # "none"
      BY <1>1, <3>2, <3>3 DEF MemberProgress
    <3>5. BeginMember(r, new)  BY <3>1
    <3> HIDE DEF new
    <3>6. StepOfOp(new) /\ \A g \in Firms : OwnerSafe(new, g)
      BY <3>1, <3>4 DEF StepOfOp, OwnerSafe, Primary
    <3> QED  BY <3>4, <3>5, <3>6
  <2>2. CASE MemberAddRead(r)
    <3>1. PICK f \in Firms, u \in Accounts, role \in Roles :
            BeginMember(r, [MemberIdle EXCEPT !.at = "add", !.op = "add", !.firm = f, !.user = u,
                                              !.role = role])
      BY <2>2 DEF MemberAddRead
    <3> DEFINE new == [MemberIdle EXCEPT !.at = "add", !.op = "add", !.firm = f, !.user = u,
                                         !.role = role]
    <3>2. new \in MemberProgress /\ new.at = "add" /\ new.op = "add" /\ new.firm = f
      BY <1>1 DEF MemberProgress
    <3>3. BeginMember(r, new)  BY <3>1
    <3> HIDE DEF new
    <3>4. StepOfOp(new) /\ \A g \in Firms : OwnerSafe(new, g)  BY <3>2 DEF StepOfOp, OwnerSafe
    <3> QED  BY <3>2, <3>3, <3>4
  <2>3. CASE UserCreateRead(r)
    <3>1. PICK f \in Firms, u \in Accounts, role \in Roles :
            BeginMember(r, [MemberIdle EXCEPT !.at = "create", !.op = "add", !.firm = f, !.user = u,
                                              !.role = role])
      BY <2>3 DEF UserCreateRead
    <3> DEFINE new == [MemberIdle EXCEPT !.at = "create", !.op = "add", !.firm = f, !.user = u,
                                         !.role = role]
    <3>2. new \in MemberProgress /\ new.at = "create" /\ new.op = "add" /\ new.firm = f
      BY <1>1 DEF MemberProgress
    <3>3. BeginMember(r, new)  BY <3>1
    <3> HIDE DEF new
    <3>4. StepOfOp(new) /\ \A g \in Firms : OwnerSafe(new, g)  BY <3>2 DEF StepOfOp, OwnerSafe
    <3> QED  BY <3>2, <3>3, <3>4
  <2>4. CASE RoleRead(r)
    <3>1. PICK f \in Firms, u \in Accounts, role \in Roles :
            BeginMember(r, [MemberIdle EXCEPT !.at = "role", !.op = "role", !.firm = f, !.user = u,
                                              !.row = membership[u][f].row, !.role = role])
      BY <2>4 DEF RoleRead
    <3> DEFINE new == [MemberIdle EXCEPT !.at = "role", !.op = "role", !.firm = f, !.user = u,
                                         !.row = membership[u][f].row, !.role = role]
    <3>2. new \in MemberProgress /\ new.at = "role" /\ new.op = "role" /\ new.firm = f
      <4>1. membership[u][f].row \in MemberRows  BY <1>1
      <4> QED  BY <1>1, <4>1 DEF MemberProgress
    <3>3. BeginMember(r, new)  BY <3>1
    <3> HIDE DEF new
    <3>4. StepOfOp(new) /\ \A g \in Firms : OwnerSafe(new, g)  BY <3>2 DEF StepOfOp, OwnerSafe
    <3> QED  BY <3>2, <3>3, <3>4
  <2>5. CASE ExpelRead(r)
    <3>1. PICK f \in Firms, u \in Accounts :
            /\ Removable(u, f)
            /\ BeginMember(r, [MemberIdle EXCEPT !.at = "expel", !.op = "expel", !.firm = f,
                                                 !.user = u, !.row = membership[u][f].row])
      BY <2>5 DEF ExpelRead
    <3> DEFINE new == [MemberIdle EXCEPT !.at = "expel", !.op = "expel", !.firm = f,
                                         !.user = u, !.row = membership[u][f].row]
    <3>2. new \in MemberProgress /\ new.at = "expel" /\ new.op = "expel" /\ new.firm = f /\ new.user = u
      <4>1. membership[u][f].row \in MemberRows  BY <1>1
      <4> QED  BY <1>1, <4>1 DEF MemberProgress
    <3>3. BeginMember(r, new)  BY <3>1
    <3> HIDE DEF new
    <3>4. StepOfOp(new) /\ \A g \in Firms : OwnerSafe(new, g)
      BY <3>1, <3>2 DEF StepOfOp, OwnerSafe, Removable, Primary
    <3> QED  BY <3>2, <3>3, <3>4
  <2>6. CASE RemoveRead(r)
    <3>1. PICK f \in Firms, u \in Accounts :
            /\ OtherAdministrator(u, f) /\ Removable(u, f)
            /\ BeginMember(r, [MemberIdle EXCEPT
                   !.at = IF Admin(u, f) THEN "countAdmins" ELSE "delete", !.op = "remove",
                   !.firm = f, !.user = u, !.row = membership[u][f].row])
      BY <2>6 DEF RemoveRead
    <3> DEFINE step == IF Admin(u, f) THEN "countAdmins" ELSE "delete"
               new == [MemberIdle EXCEPT !.at = step, !.op = "remove",
                   !.firm = f, !.user = u, !.row = membership[u][f].row]
    <3>2. step \in {"countAdmins", "delete"} /\ BeginMember(r, new)  BY <3>1
    <3> HIDE DEF step
    <3>3. new \in MemberProgress /\ new.at = step /\ new.op = "remove" /\ new.firm = f /\ new.user = u
      <4>1. membership[u][f].row \in MemberRows  BY <1>1
      <4> QED  BY <1>1, <3>2, <4>1 DEF MemberProgress
    <3> HIDE DEF new
    <3>4. StepOfOp(new) /\ \A g \in Firms : OwnerSafe(new, g)
      BY <3>1, <3>2, <3>3 DEF StepOfOp, OwnerSafe, Removable, Primary
    <3>5. \E by \in Accounts \ {new.user} : ActiveAdmin(by, new.firm) /\ account' = account
      BY <2>6, <3>1, <3>3 DEF OtherAdministrator, RemoveRead
    <3> QED  BY <3>2, <3>3, <3>4, <3>5
  <2>7. CASE AccountToggleRead(r)
    <3>1. PICK f \in Firms, u \in Accounts :
            /\ OtherAdministrator(u, f)
            /\ BeginMember(r, [MemberIdle EXCEPT !.at = "toggle", !.op = "toggle", !.firm = f,
                                                 !.user = u, !.active = account[u] # "active"])
      BY <2>7 DEF AccountToggleRead
    <3> DEFINE active == account[u] # "active"
               new == [MemberIdle EXCEPT !.at = "toggle", !.op = "toggle", !.firm = f,
                                         !.user = u, !.active = active]
    <3>2. active \in BOOLEAN /\ BeginMember(r, new)  BY <3>1
    <3> HIDE DEF active
    <3>3. new \in MemberProgress /\ new.at = "toggle" /\ new.op = "toggle" /\ new.firm = f /\ new.user = u
      BY <1>1, <3>2 DEF MemberProgress
    <3> HIDE DEF new
    <3>4. StepOfOp(new) /\ \A g \in Firms : OwnerSafe(new, g)
      BY <3>3 DEF StepOfOp, OwnerSafe
    <3>5. \E by \in Accounts \ {new.user} : ActiveAdmin(by, new.firm) /\ account' = account
      BY <2>7, <3>1, <3>3 DEF OtherAdministrator, AccountToggleRead
    <3> QED  BY <3>2, <3>3, <3>4, <3>5
  <2> QED  BY <2>1, <2>2, <2>3, <2>4, <2>5, <2>6, <2>7
<1>3. MemberMoves(r, new) /\ membership' = membership /\ outside' = outside /\ MemberAt(r, "new")
  BY <1>2 DEF BeginMember, MemberMoves
<1>4. /\ account' \in [Accounts -> AccountStates]
      /\ \A u \in Accounts : account'[u] = account[u] \/ (account[u] = "none" /\ account'[u] = "active")
  <2>1. CASE account' = account  BY <1>1, <2>1
  <2>2. CASE MemberAddRead(r)
    <3>1. PICK u \in Accounts : account' = [account EXCEPT ![u] = IF @ = "none" THEN "active" ELSE @]
      BY <2>2 DEF MemberAddRead
    <3> QED  BY <1>1, <3>1 DEF AccountStates
  <2> QED
    BY <2>1, <2>2 DEF TransferRead, UserCreateRead, RoleRead, ExpelRead, RemoveRead, AccountToggleRead
<1>5. MembersReal'
  BY <1>3, <1>4 DEF MembersInv, MembersReal, Primary, Member
<1>6. ASSUME NEW f \in Firms PROVE OwnerOf(f)' /\ AdminOf(f)'
  <2>1. OwnerOf(f)'  BY <1>2, <1>3, OwnerKept
  <2>2. CASE new.op \in {"toggle", "remove"} /\ new.firm = f
    <3>1. PICK by \in Accounts : by # new.user /\ ActiveAdmin(by, f) /\ account' = account
      BY <1>2, <2>2
    <3>2. (ActiveAdmin(by, f))' /\ Spares(new, f, by)
      BY <1>2, <1>3, <3>1 DEF ActiveAdmin, Admin, Member, Spares
    <3>3. CASE \A s \in MemberRequests \ {r} : ~Serving(s)
      <4>1. \E b \in Accounts : (ActiveAdmin(b, f))' /\ Spares(new, f, b)  BY <3>2
      <4>2. outside \subseteq outside' /\ MemberMoves(r, new)  BY <1>3
      <4> QED  BY <2>1, <3>3, <4>1, <4>2, AdminKept
    <3>4. CASE \E s \in MemberRequests \ {r} : Serving(s)
      <4>1. PICK s \in MemberRequests : s # r /\ Serving(s)  BY <3>4
      <4>2. {r, s} \in memberOverlap' /\ memberRequest'[r] = new  BY <1>3, <4>1, MemberFacts
      <4>3. memberRequest'[r].op \in {"toggle", "remove"} /\ memberRequest'[r].firm = f /\ r # s
        BY <2>2, <4>1, <4>2
      <4>4. (AdminDisturbed(f))'  BY <4>2, <4>3 DEF AdminDisturbed, Op
      <4> QED  BY <2>1, <4>4 DEF AdminOf
    <3> QED  BY <2>1, <3>3, <3>4
  <2>3. CASE ~(new.op \in {"toggle", "remove"} /\ new.firm = f)
    <3>1. \A by \in Accounts : ActiveAdmin(by, f) => (ActiveAdmin(by, f))' /\ Spares(new, f, by)
      BY <1>2, <1>3, <1>4, <2>3 DEF ActiveAdmin, Admin, Member, Spares
    <3> QED  BY <1>3, <2>1, <3>1, AdminKept
  <2> QED  BY <2>1, <2>2, <2>3
<1> QED  BY <1>1, <1>2, <1>3, <1>4, <1>5, <1>6, MembersAfter

\* An owner that is not disturbed: nobody else transfers or removes next to a transfer.
LEMMA TransferKeeps ==
    ASSUME MembersInv, NEW r \in MemberRequests, TransferWrite(r)
    PROVE  MembersInv'
<1> DEFINE q == memberRequest[r]
           found == /\ membership[q.user][q.firm].row = q.row
                    /\ membership[q.other][q.firm].row = q.otherRow
<1>1. /\ q.at = "transfer" /\ Serving(r) /\ MemberGoto(r, "done") /\ account' = account
      /\ outside' = outside
      /\ membership' = IF found THEN Transferred(q.user, q.other, q.firm) ELSE membership
  BY DEF TransferWrite, MemberAt, Serving
<1>2. /\ account \in [Accounts -> AccountStates] /\ membership \in Memberships
      /\ outside \subseteq Firms /\ q \in MemberProgress
  BY MemberTypes DEF MembersInv
<1>3. PICK u \in Accounts, v \in Accounts, f \in Firms :
        u = q.user /\ v = q.other /\ f = q.firm
  BY <1>1, <1>2 DEF MemberProgress, MembersInv, StepOfOp, Serving
<1>4. q.op = "transfer" /\ u # v /\ q.row # "none" /\ q.otherRow # "none"
  BY <1>1, <1>3 DEF MembersInv, StepOfOp
<1>5. CASE ~found
  <2>1. membership' = membership  BY <1>1, <1>5
  <2>2. MembersReal'  BY <1>1, <2>1 DEF MembersInv, MembersReal, Primary, Member
  <2>3. \A g \in Firms : \A by \in Accounts : ActiveAdmin(by, g) => (ActiveAdmin(by, g))'
    BY <1>1, <2>1 DEF ActiveAdmin, Admin, Member
  <2> QED  BY <1>1, <1>2, <2>1, <2>2, <2>3, EndKeeps
<1>6. CASE found
  <2>1. membership' = [membership EXCEPT ![u][f].primary = FALSE, ![v][f].primary = TRUE]
    BY <1>1, <1>3, <1>6 DEF Transferred
  <2>2. /\ membership' \in Memberships
        /\ \A w \in Accounts, g \in Firms :
             /\ membership'[w][g].row = membership[w][g].row
             /\ membership'[w][g].role = membership[w][g].role
             /\ (g # f \/ w \notin {u, v} => membership'[w][g].primary = membership[w][g].primary)
        /\ membership'[u][f].primary = FALSE /\ membership'[v][f].primary = TRUE
    <3> DEFINE old == [membership[u][f] EXCEPT !.primary = FALSE]
               new == [membership[v][f] EXCEPT !.primary = TRUE]
    <3>1. /\ membership'[u] = [membership[u] EXCEPT ![f] = old]
          /\ membership'[v] = [membership[v] EXCEPT ![f] = new]
          /\ DOMAIN membership' = Accounts
          /\ \A w \in Accounts : w \notin {u, v} => membership'[w] = membership[w]
      BY <1>2, <1>4, <2>1 DEF Memberships
    <3>2. membership' = [w \in Accounts |-> membership'[w]]
      BY <1>2, <2>1 DEF Memberships
    <3>3. membership[u][f] \in MemberRow /\ membership[v][f] \in MemberRow
      BY <1>2 DEF Memberships
    <3>4. /\ old \in MemberRow /\ old.row = membership[u][f].row /\ old.role = membership[u][f].role
          /\ old.primary = FALSE
          /\ new \in MemberRow /\ new.row = membership[v][f].row /\ new.role = membership[v][f].role
          /\ new.primary = TRUE
      BY <3>3 DEF MemberRow
    <3> HIDE DEF old, new
    <3>5. \A w \in Accounts :
            /\ membership[w] \in [Firms -> MemberRow] /\ membership'[w] \in [Firms -> MemberRow]
      BY <1>2, <3>1, <3>4 DEF Memberships
    <3>6. /\ membership'[u][f] = old /\ membership'[v][f] = new
          /\ \A w \in Accounts, g \in Firms :
               g # f \/ w \notin {u, v} => membership'[w][g] = membership[w][g]
      BY <3>1, <3>5
    <3>7. membership' \in Memberships  BY <3>2, <3>5 DEF Memberships
    <3>8. ASSUME NEW w \in Accounts, NEW g \in Firms
          PROVE  /\ membership'[w][g].row = membership[w][g].row
                 /\ membership'[w][g].role = membership[w][g].role
                 /\ (g # f \/ w \notin {u, v} => membership'[w][g].primary = membership[w][g].primary)
      <4>1. CASE g # f \/ w \notin {u, v}  BY <3>6, <4>1
      <4>2. CASE g = f /\ w = u  BY <3>4, <3>6, <4>2
      <4>3. CASE g = f /\ w = v  BY <3>4, <3>6, <4>3
      <4> QED  BY <4>1, <4>2, <4>3
    <3> QED  BY <3>4, <3>6, <3>7, <3>8
  <2>3. Member(v, f)  BY <1>3, <1>4, <1>6 DEF Member
  <2>4. MembersReal'
    BY <1>1, <2>2, <2>3 DEF MembersInv, MembersReal, Primary, Member
  <2>5. \A g \in Firms : \A by \in Accounts : ActiveAdmin(by, g) => (ActiveAdmin(by, g))'
    BY <1>1, <2>2 DEF ActiveAdmin, Admin, Member
  <2>6. TransferDisturbed(f) \/ OwnerOf(f)'
    <3> SUFFICES ASSUME ~TransferDisturbed(f) PROVE OwnerOf(f)'  OBVIOUS
    <3>1. PICK p \in Accounts : \A w \in Accounts : Primary(w, f) <=> w = p
      BY DEF MembersInv, OwnerOf
    <3>2. Primary(u, f)  BY <1>1, <1>3 DEF MembersInv, OwnerOf, OwnerSafe
    <3>3. \A w \in Accounts : (Primary(w, f))' <=> w = v
      BY <1>4, <2>2, <3>1, <3>2 DEF Primary
    <3>4. PICK new : MemberMoves(r, new) /\ new.at = "done"  BY <1>1, GoesDone
    <3>5. \A s \in MemberRequests : (OwnerSafe(memberRequest[s], f))'
      <4> SUFFICES ASSUME NEW s \in MemberRequests PROVE (OwnerSafe(memberRequest[s], f))'
        OBVIOUS
      <4>1. CASE s = r
        <5>1. memberRequest'[s].at = "done"  BY <3>4, <4>1, MemberFacts
        <5> QED  BY <5>1 DEF OwnerSafe
      <4>2. CASE s # r
        <5>1. memberRequest'[s] = memberRequest[s]  BY <3>4, <4>2, MemberFacts
        <5>2. ASSUME memberRequest[s].at \in {"transfer", "expel", "countAdmins", "delete", "deleteAccount"}
              PROVE  FALSE
          <6>1. Serving(s) /\ {r, s} \in memberOverlap
            BY <1>1, <4>2, <5>2 DEF MembersInv, ServingOverlap, Serving
          <6>2. Op(s) \in {"transfer", "expel", "remove"}
            BY <5>2 DEF MembersInv, StepOfOp, Op
          <6> QED  BY <1>3, <1>4, <6>1, <6>2 DEF TransferDisturbed, Op
        <5> QED  BY <5>1, <5>2 DEF OwnerSafe
      <4> QED  BY <4>1, <4>2
    <3>6. (\E w \in Accounts : \A x \in Accounts : Primary(x, f) <=> x = w)'  BY <3>3
    <3> QED  BY <3>5, <3>6 DEF OwnerOf
  <2>7. \A g \in Firms :
          \/ TransferDisturbed(g) \/ OwnerOf(g)'
          \/ \A w \in Accounts : membership'[w][g].primary = membership[w][g].primary
    BY <2>2, <2>6
  <2> QED  BY <1>1, <1>2, <2>2, <2>4, <2>5, <2>7, EndKeeps
<1> QED  BY <1>5, <1>6

\* A new member is no primary owner, and takes nobody else's place.
LEMMA JoinKeeps ==
    ASSUME MembersInv, NEW r \in MemberRequests, MemberAddWrite(r) \/ UserCreateWrite(r)
    PROVE  MembersInv'
<1> DEFINE q == memberRequest[r]
<1>1. /\ Serving(r) /\ MemberGoto(r, "done") /\ outside' = outside
  BY DEF MemberAddWrite, UserCreateWrite, MemberAt, Serving
<1>2. /\ account \in [Accounts -> AccountStates] /\ membership \in Memberships
      /\ outside \subseteq Firms /\ q \in MemberProgress
  BY MemberTypes DEF MembersInv
<1>3. PICK u \in Accounts, f \in Firms : u = q.user /\ f = q.firm
  BY <1>1, <1>2 DEF MemberProgress, MembersInv, StepOfOp, Serving
<1>4. CASE membership' = membership /\ account' = account
  <2>1. MembersReal'  BY <1>4 DEF MembersInv, MembersReal, Primary, Member
  <2>2. \A g \in Firms : \A by \in Accounts : ActiveAdmin(by, g) => (ActiveAdmin(by, g))'
    BY <1>4 DEF ActiveAdmin, Admin, Member
  <2> QED  BY <1>1, <1>2, <1>4, <2>1, <2>2, EndKeeps
<1>5. CASE ~(membership' = membership /\ account' = account)
  <2> DEFINE new == [row |-> r, role |-> q.role, primary |-> FALSE]
  <2>1. /\ membership' = [membership EXCEPT ![u][f] = new] /\ ~Member(u, f)
        /\ account' \in [Accounts -> AccountStates] /\ account'[u] # "none"
        /\ \A w \in Accounts : account[w] # "none" => account'[w] = account[w]
    <3>1. CASE MemberAddWrite(r)
      BY <1>2, <1>3, <1>5, <3>1 DEF MemberAddWrite, Joined
    <3>2. CASE UserCreateWrite(r)
      <4>1. /\ account[u] = "none" /\ account' = [account EXCEPT ![u] = "active"]
            /\ membership' = [membership EXCEPT ![u][f] = new]
        BY <1>3, <1>5, <3>2 DEF UserCreateWrite, Joined
      <4>2. ~Member(u, f)  BY <4>1 DEF MembersInv, MembersReal
      <4> QED  BY <1>2, <4>1, <4>2 DEF AccountStates
    <3> QED  BY <3>1, <3>2
  <2>2. new \in MemberRow /\ new.primary = FALSE
    BY <1>2 DEF MemberRow, MemberRows, MemberProgress
  <2> HIDE DEF new
  <2>3. /\ membership' \in Memberships /\ membership'[u][f].primary = FALSE
        /\ \A w \in Accounts, g \in Firms :
             w # u \/ g # f => membership'[w][g] = membership[w][g]
    <3>1. /\ membership' \in Memberships /\ membership'[u][f] = new
          /\ \A w \in Accounts, g \in Firms :
               w # u \/ g # f => membership'[w][g] = membership[w][g]
      <4>1. PICK c \in MemberRow : c = new  BY <2>2
      <4>2. membership' = [membership EXCEPT ![u][f] = c]  BY <2>1, <4>1
      <4>3. /\ membership' \in Memberships /\ membership'[u][f] = c
            /\ \A w \in Accounts, g \in Firms :
                 w # u \/ g # f => membership'[w][g] = membership[w][g]
        BY <1>2, <4>2 DEF Memberships
      <4> QED  BY <4>1, <4>3
    <3> QED  BY <2>2, <3>1
  <2>4. membership[u][f].primary = FALSE
    <3>1. membership[u][f].primary \in BOOLEAN  BY <1>2 DEF Memberships, MemberRow
    <3> QED  BY <2>1, <3>1 DEF MembersInv, MembersReal, Primary
  <2>5. \A w \in Accounts, g \in Firms : membership'[w][g].primary = membership[w][g].primary
    BY <2>3, <2>4
  <2>6. MembersReal'
    BY <2>1, <2>3 DEF MembersInv, MembersReal, Primary, Member
  <2>7. ASSUME NEW g \in Firms, NEW by \in Accounts, ActiveAdmin(by, g) PROVE (ActiveAdmin(by, g))'
    <3>1. by # u \/ g # f  BY <2>1, <2>7 DEF ActiveAdmin, Admin
    <3>2. membership'[by][g] = membership[by][g] /\ account'[by] = account[by]
      BY <2>1, <2>3, <2>7, <3>1 DEF ActiveAdmin
    <3> QED  BY <2>7, <3>2 DEF ActiveAdmin, Admin, Member
  <2> QED  BY <1>1, <1>2, <2>1, <2>3, <2>5, <2>6, <2>7, EndKeeps
<1> QED  BY <1>4, <1>5

\* A role change, or a removal from an organization by the super administrator.
LEMMA OutsideKeeps ==
    ASSUME MembersInv, NEW r \in MemberRequests, RoleWrite(r) \/ ExpelWrite(r)
    PROVE  MembersInv'
<1> DEFINE q == memberRequest[r]
<1>1. /\ Serving(r) /\ MemberGoto(r, "done") /\ outside' = outside \cup {q.firm}
      /\ account' = account
  BY DEF RoleWrite, ExpelWrite, MemberAt, Serving
<1>2. /\ account \in [Accounts -> AccountStates] /\ membership \in Memberships
      /\ outside \subseteq Firms /\ q \in MemberProgress
  BY MemberTypes DEF MembersInv
<1>3. PICK u \in Accounts, f \in Firms : u = q.user /\ f = q.firm
  BY <1>1, <1>2 DEF MemberProgress, MembersInv, StepOfOp, Serving
<1>4. membership[u][f] \in MemberRow  BY <1>2 DEF Memberships
<1>5. PICK new \in MemberRow :
        /\ membership' = IF membership[u][f].row = q.row THEN [membership EXCEPT ![u][f] = new]
                         ELSE membership
        /\ (new.row = membership[u][f].row \/ new.row = "none")
        /\ (TransferDisturbed(f) \/ new.primary = membership[u][f].primary)
        /\ (new.primary => new.row = membership[u][f].row /\ membership[u][f].primary)
  <2>1. CASE RoleWrite(r)
    <3> DEFINE new == [membership[u][f] EXCEPT !.role = q.role]
    <3>1. new \in MemberRow /\ new.row = membership[u][f].row /\ new.primary = membership[u][f].primary
      BY <1>2, <1>4 DEF MemberRow, MemberProgress
    <3>2. membership' = IF membership[u][f].row = q.row THEN [membership EXCEPT ![u][f] = new]
                        ELSE membership
      BY <1>3, <2>1 DEF RoleWrite, WriteMember
    <3> HIDE DEF new
    <3> QED  BY <3>1, <3>2
  <2>2. CASE ExpelWrite(r)
    <3>1. membership' = IF membership[u][f].row = q.row THEN [membership EXCEPT ![u][f] = Stranger]
                        ELSE membership
      BY <1>3, <2>2 DEF ExpelWrite, WriteMember
    <3>2. q.at = "expel"  BY <2>2 DEF ExpelWrite, MemberAt
    <3>3. TransferDisturbed(f) \/ membership[u][f].primary = FALSE
      <4>1. membership[u][f].primary \in BOOLEAN  BY <1>4 DEF MemberRow
      <4> QED  BY <1>3, <3>2, <4>1 DEF MembersInv, OwnerOf, OwnerSafe, Primary
    <3> QED  BY <3>1, <3>3, MemberIdleTyped
  <2> QED  BY <2>1, <2>2
<1>6. CASE membership' = membership
  <2>1. MembersReal'  BY <1>1, <1>6 DEF MembersInv, MembersReal, Primary, Member
  <2>2. \A g \in Firms : \A by \in Accounts : ActiveAdmin(by, g) => (ActiveAdmin(by, g))'
    BY <1>1, <1>6 DEF ActiveAdmin, Admin, Member
  <2>3. outside' \subseteq Firms  BY <1>1, <1>2, <1>3
  <2> QED  BY <1>1, <1>2, <1>6, <2>1, <2>2, <2>3, EndKeeps
<1>7. CASE membership' # membership
  <2>1. /\ membership' \in Memberships /\ membership'[u][f] = new
        /\ \A w \in Accounts, g \in Firms :
             w # u \/ g # f => membership'[w][g] = membership[w][g]
    BY <1>2, <1>5, <1>7, CellWritten
  <2>2. MembersReal'
    BY <1>1, <1>5, <2>1 DEF MembersInv, MembersReal, Primary, Member
  <2>3. \A g \in Firms :
          \/ g \in outside'
          \/ \A by \in Accounts : ActiveAdmin(by, g) => (ActiveAdmin(by, g))'
    BY <1>1, <1>3, <2>1 DEF ActiveAdmin, Admin, Member
  <2>4. \A g \in Firms :
          \/ TransferDisturbed(g)
          \/ \A w \in Accounts : membership'[w][g].primary = membership[w][g].primary
    BY <1>5, <2>1
  <2>5. outside' \subseteq Firms  BY <1>1, <1>2, <1>3
  <2> QED  BY <1>1, <1>2, <2>1, <2>2, <2>3, <2>4, <2>5, EndKeeps
<1> QED  BY <1>6, <1>7

\* A removal takes its user out of its organization, who is no primary owner there.
LEMMA RemoveDeleteKeeps ==
    ASSUME MembersInv, NEW r \in MemberRequests, RemoveDelete(r)
    PROVE  MembersInv'
<1> DEFINE q == memberRequest[r]
<1>1. /\ q.at = "delete" /\ Serving(r) /\ q.op = "remove" /\ account' = account /\ outside' = outside
      /\ membership' = IF membership[q.user][q.firm].row = q.row
                       THEN [membership EXCEPT ![q.user][q.firm] = Stranger] ELSE membership
      /\ MemberGoto(r, IF membership[q.user][q.firm].row = q.row THEN "countOthers" ELSE "done")
  BY DEF RemoveDelete, MemberAt, Serving, WriteMember, MembersInv, StepOfOp
<1>2. /\ account \in [Accounts -> AccountStates] /\ membership \in Memberships
      /\ outside \subseteq Firms /\ q \in MemberProgress
  BY MemberTypes DEF MembersInv
<1>3. PICK u \in Accounts, f \in Firms : u = q.user /\ f = q.firm
  BY <1>1, <1>2 DEF MemberProgress, MembersInv, StepOfOp, Serving
<1>4. CASE membership[u][f].row # q.row
  <2>1. membership' = membership /\ MemberGoto(r, "done")  BY <1>1, <1>3, <1>4
  <2>2. MembersReal'  BY <1>1, <2>1 DEF MembersInv, MembersReal, Primary, Member
  <2>3. \A g \in Firms : \A by \in Accounts : ActiveAdmin(by, g) => (ActiveAdmin(by, g))'
    BY <1>1, <2>1 DEF ActiveAdmin, Admin, Member
  <2> QED  BY <1>1, <1>2, <2>1, <2>2, <2>3, EndKeeps
<1>5. CASE membership[u][f].row = q.row
  <2>1. membership' = [membership EXCEPT ![u][f] = Stranger] /\ MemberGoto(r, "countOthers")
    BY <1>1, <1>3, <1>5
  <2>2. PICK new : /\ MemberMoves(r, new) /\ StepOfOp(new) /\ new.at = "countOthers"
                   /\ new.op = "remove" /\ new.firm = q.firm /\ new.user = q.user
    BY <1>1, <2>1, GoesOn
  <2>3. /\ membership' \in Memberships /\ membership'[u][f] = Stranger
        /\ \A w \in Accounts, g \in Firms :
             w # u \/ g # f => membership'[w][g] = membership[w][g]
    <3>1. PICK c \in MemberRow : c = Stranger  BY MemberIdleTyped
    <3>2. membership' = [membership EXCEPT ![u][f] = c]  BY <2>1, <3>1
    <3>3. /\ membership' \in Memberships /\ membership'[u][f] = c
          /\ \A w \in Accounts, g \in Firms :
               w # u \/ g # f => membership'[w][g] = membership[w][g]
      BY <1>2, <3>2 DEF Memberships
    <3> QED  BY <3>1, <3>3
  <2>4. MembersReal'
    <3>1. membership'[u][f].row = "none" /\ membership'[u][f].primary = FALSE
      BY <2>3, MemberIdleTyped
    <3>2. ASSUME NEW w \in Accounts, NEW g \in Firms
          PROVE  (Primary(w, g) => Member(w, g))' /\ (Member(w, g) => account[w] # "none")'
      <4>1. CASE w = u /\ g = f  BY <3>1, <4>1 DEF Primary, Member
      <4>2. CASE w # u \/ g # f
        <5>1. membership'[w][g] = membership[w][g]  BY <2>3, <4>2
        <5> QED  BY <1>1, <5>1 DEF MembersInv, MembersReal, Primary, Member
      <4> QED  BY <4>1, <4>2
    <3> QED  BY <3>2 DEF MembersReal
  <2>5. ASSUME NEW g \in Firms PROVE OwnerOf(g)'
    <3>1. TransferDisturbed(g) \/ OwnerSafe(q, g)  BY DEF MembersInv, OwnerOf
    <3>2. membership[u][f].primary \in BOOLEAN  BY <1>2 DEF Memberships, MemberRow
    <3>3. TransferDisturbed(g) \/
            (OwnerSafe(new, g) /\ \A w \in Accounts : membership'[w][g].primary = membership[w][g].primary)
      <4>1. OwnerSafe(new, g)  BY <2>2 DEF OwnerSafe
      <4>2. CASE g # f  BY <2>3, <4>1, <4>2
      <4>3. CASE g = f /\ ~TransferDisturbed(g)
        <5>1. ~Primary(u, f)  BY <1>1, <1>3, <3>1, <4>3 DEF OwnerSafe
        <5>2. membership[u][f].primary = FALSE  BY <3>2, <5>1 DEF Primary
        <5>3. membership'[u][f].primary = FALSE  BY <2>3, MemberIdleTyped
        <5>4. \A w \in Accounts : w # u => membership'[w][f] = membership[w][f]
          BY <2>3
        <5> QED  BY <4>1, <4>3, <5>2, <5>3, <5>4
      <4> QED  BY <4>2, <4>3
    <3> QED  BY <2>2, <3>3, OwnerKept
  <2>6. ASSUME NEW g \in Firms PROVE AdminOf(g)'
    <3>1. \A by \in Accounts :
            ActiveAdmin(by, g) /\ Spares(q, g, by) => (ActiveAdmin(by, g))' /\ Spares(new, g, by)
      BY <1>1, <1>3, <2>2, <2>3 DEF ActiveAdmin, Admin, Member, Spares
    <3> QED  BY <1>1, <2>2, <3>1, AdminKept
  <2> QED  BY <1>1, <1>2, <2>2, <2>3, <2>4, <2>5, <2>6, MembersAfter
<1> QED  BY <1>4, <1>5

\* The counts of a removal: a user in no organization is neither owner nor administrator.
LEMMA RemoveCountsKeep ==
    ASSUME MembersInv, NEW r \in MemberRequests,
           RemoveCountAdmins(r) \/ RemoveCountOthers(r) \/ MemberInterrupted(r)
    PROVE  MembersInv'
<1> DEFINE q == memberRequest[r]
<1>1. /\ Serving(r) /\ UNCHANGED <<account, membership, outside>>
  BY DEF RemoveCountAdmins, RemoveCountOthers, MemberInterrupted, MemberAt, Serving
<1>2. /\ account \in [Accounts -> AccountStates] /\ membership \in Memberships
      /\ outside \subseteq Firms /\ q \in MemberProgress
  BY MemberTypes DEF MembersInv
<1>3. MembersReal'  BY <1>1 DEF MembersInv, MembersReal, Primary, Member
<1>4. \A g \in Firms : \A by \in Accounts : ActiveAdmin(by, g) => (ActiveAdmin(by, g))'
  BY <1>1 DEF ActiveAdmin, Admin, Member
<1>5. CASE MemberGoto(r, "done")  BY <1>1, <1>2, <1>3, <1>4, <1>5, EndKeeps
<1>6. CASE ~MemberGoto(r, "done")
  <2>1. PICK step \in {"delete", "deleteAccount"} :
          /\ MemberGoto(r, step) /\ q.op = "remove"
          /\ (step = "delete" => q.at = "countAdmins")
          /\ (step = "deleteAccount" => \A g \in Firms : ~Member(q.user, g))
    <3>1. CASE RemoveCountAdmins(r)
      BY <1>6, <3>1 DEF RemoveCountAdmins, MemberAt, MembersInv, StepOfOp
    <3>2. CASE RemoveCountOthers(r)
      BY <1>6, <3>2 DEF RemoveCountOthers, MemberAt, MembersInv, StepOfOp, Remaining
    <3> QED  BY <1>6, <3>1, <3>2 DEF MemberInterrupted
  <2>2. PICK new : /\ MemberMoves(r, new) /\ StepOfOp(new) /\ new.at = step
                   /\ new.op = "remove" /\ new.firm = q.firm /\ new.user = q.user
    BY <1>1, <2>1, GoesOn
  <2>3. q.user \in Accounts  BY <1>2 DEF MemberProgress
  <2>4. ASSUME NEW g \in Firms PROVE OwnerOf(g)'
    <3>1. TransferDisturbed(g) \/ OwnerSafe(q, g)  BY DEF MembersInv, OwnerOf
    <3>2. ~Member(q.user, g) => ~Primary(q.user, g)  BY <2>3 DEF MembersInv, MembersReal
    <3>3. TransferDisturbed(g) \/ OwnerSafe(new, g)
      BY <2>1, <2>2, <3>1, <3>2 DEF OwnerSafe
    <3> QED  BY <1>1, <2>2, <3>3, OwnerKept
  <2>5. ASSUME NEW g \in Firms PROVE AdminOf(g)'
    <3>1. \A by \in Accounts :
            ActiveAdmin(by, g) /\ Spares(q, g, by) => (ActiveAdmin(by, g))' /\ Spares(new, g, by)
      <4> SUFFICES ASSUME NEW by \in Accounts, ActiveAdmin(by, g), Spares(q, g, by)
                   PROVE  (ActiveAdmin(by, g))' /\ Spares(new, g, by)
        OBVIOUS
      <4>1. step = "deleteAccount" => q.user # by  BY <2>1 DEF ActiveAdmin, Admin
      <4>2. q.at \notin {"new", "done"}  BY <1>1 DEF Serving
      <4> QED  BY <1>4, <2>1, <2>2, <4>1, <4>2 DEF Spares
    <3> QED  BY <1>1, <2>2, <3>1, AdminKept
  <2> QED  BY <1>1, <1>2, <1>3, <2>2, <2>4, <2>5, MembersAfter
<1> QED  BY <1>5, <1>6

\* An account is deleted when its user is in no organization.
LEMMA RemoveAccountKeeps ==
    ASSUME MembersInv, NEW r \in MemberRequests, RemoveAccount(r)
    PROVE  MembersInv'
<1> DEFINE q == memberRequest[r]
           nowhere == [f \in Firms |-> Stranger]
<1>1. q.at = "deleteAccount" /\ Serving(r) /\ MemberGoto(r, "done") /\ outside' = outside
  BY DEF RemoveAccount, MemberAt, Serving
<1>2. /\ account \in [Accounts -> AccountStates] /\ membership \in Memberships
      /\ outside \subseteq Firms /\ q \in MemberProgress
  BY MemberTypes DEF MembersInv
<1>3. PICK u \in Accounts : u = q.user  BY <1>2 DEF MemberProgress
<1>4. CASE UNCHANGED <<account, membership>>
  <2>1. MembersReal'  BY <1>4 DEF MembersInv, MembersReal, Primary, Member
  <2>2. \A g \in Firms : \A by \in Accounts : ActiveAdmin(by, g) => (ActiveAdmin(by, g))'
    BY <1>4 DEF ActiveAdmin, Admin, Member
  <2> QED  BY <1>1, <1>2, <1>4, <2>1, <2>2, EndKeeps
<1>5. CASE ~UNCHANGED <<account, membership>>
  <2>1. /\ account' = [account EXCEPT ![u] = "none"]
        /\ membership' = [membership EXCEPT ![u] = nowhere]
    BY <1>3, <1>5 DEF RemoveAccount
  <2>2. nowhere \in [Firms -> MemberRow] /\ \A f \in Firms : nowhere[f] = Stranger
    BY MemberIdleTyped
  <2> HIDE DEF nowhere
  <2>3. /\ account' \in [Accounts -> AccountStates] /\ membership' \in Memberships
        /\ \A f \in Firms : membership'[u][f] = Stranger
        /\ \A w \in Accounts : w # u => membership'[w] = membership[w] /\ account'[w] = account[w]
    BY <1>2, <2>1, <2>2 DEF Memberships, AccountStates
  <2>4. MembersReal'
    BY <2>3, MemberIdleTyped DEF MembersInv, MembersReal, Primary, Member
  <2>5. ASSUME NEW g \in Firms
        PROVE  \/ TransferDisturbed(g)
               \/ \A w \in Accounts : membership'[w][g].primary = membership[w][g].primary
    <3>1. TransferDisturbed(g) \/ OwnerSafe(q, g)  BY DEF MembersInv, OwnerOf
    <3>2. membership[u][g].primary \in BOOLEAN  BY <1>2 DEF Memberships, MemberRow
    <3>3. TransferDisturbed(g) \/ membership[u][g].primary = FALSE
      BY <1>1, <1>3, <3>1, <3>2 DEF OwnerSafe, Primary
    <3> QED  BY <2>3, <3>3, MemberIdleTyped
  <2>6. ASSUME NEW g \in Firms, NEW by \in Accounts, ActiveAdmin(by, g), Spares(q, g, by)
        PROVE  (ActiveAdmin(by, g))'
    <3>1. by # u  BY <1>1, <1>3, <2>6 DEF Spares
    <3> QED  BY <2>3, <2>6, <3>1 DEF ActiveAdmin, Admin, Member
  <2> QED  BY <1>1, <1>2, <2>3, <2>4, <2>5, <2>6, EndKeeps
<1> QED  BY <1>4, <1>5

\* A deactivation is seen in every organization of its user.
LEMMA ToggleKeeps ==
    ASSUME MembersInv, NEW r \in MemberRequests, AccountToggleWrite(r)
    PROVE  MembersInv'
<1> DEFINE q == memberRequest[r]
           elsewhere == {f \in Firms \ {q.firm} : Member(q.user, f)}
<1>1. /\ q.at = "toggle" /\ q.op = "toggle" /\ Serving(r) /\ MemberGoto(r, "done")
      /\ membership' = membership /\ outside' = outside \cup elsewhere
  BY DEF AccountToggleWrite, MemberAt, Serving, MembersInv, StepOfOp
<1>2. /\ account \in [Accounts -> AccountStates] /\ membership \in Memberships
      /\ outside \subseteq Firms /\ q \in MemberProgress
  BY MemberTypes DEF MembersInv
<1>3. PICK u \in Accounts : u = q.user  BY <1>2 DEF MemberProgress
<1>4. account' = [account EXCEPT ![u] =
          IF @ = "none" THEN "none" ELSE IF q.active THEN "active" ELSE "inactive"]
  BY <1>3 DEF AccountToggleWrite
<1>5. /\ account' \in [Accounts -> AccountStates]
      /\ \A w \in Accounts : w # u => account'[w] = account[w]
      /\ (account[u] # "none" => account'[u] # "none")
  BY <1>2, <1>4 DEF AccountStates
<1>6. MembersReal'  BY <1>1, <1>5 DEF MembersInv, MembersReal, Primary, Member
<1>7. ASSUME NEW g \in Firms
      PROVE  \/ g \in outside'
             \/ \A by \in Accounts :
                  ActiveAdmin(by, g) /\ Spares(q, g, by) => (ActiveAdmin(by, g))'
  <2> SUFFICES ASSUME g \notin outside', NEW by \in Accounts, ActiveAdmin(by, g), Spares(q, g, by)
               PROVE  (ActiveAdmin(by, g))'
    OBVIOUS
  <2>1. by # u
    <3>1. CASE g = q.firm  BY <1>1, <1>3, <3>1 DEF Spares, Serving
    <3>2. CASE g # q.firm
      <4>1. ~Member(q.user, g)  BY <1>1, <3>2
      <4> QED  BY <1>3, <4>1 DEF ActiveAdmin, Admin
    <3> QED  BY <3>1, <3>2
  <2> QED  BY <1>1, <1>5, <2>1 DEF ActiveAdmin, Admin, Member
<1>8. outside \subseteq outside' /\ outside' \subseteq Firms  BY <1>1, <1>2
<1> QED  BY <1>1, <1>2, <1>5, <1>6, <1>7, <1>8, EndKeeps

\* At the start the owner is primary in every organization, and administrator.
LEMMA MembersInitKeeps == MembersInit => MembersInv
<1> SUFFICES ASSUME MembersInit PROVE MembersInv  OBVIOUS
<1>1. PICK role \in Roles : membership =
        [u \in Accounts |-> [f \in Firms |->
            IF u = Owner THEN [row |-> "first", role |-> "ADMIN", primary |-> TRUE]
            ELSE [row |-> "first", role |-> role, primary |-> FALSE]]]
  BY DEF MembersInit
<1>2. Owner \in Accounts  BY MembersAssumption
<1>3. \A u \in Accounts, f \in Firms :
        /\ membership[u][f] \in MemberRow /\ membership[u][f].row = "first"
        /\ (membership[u][f].primary <=> u = Owner)
        /\ (u = Owner => membership[u][f].role = "ADMIN")
  BY <1>1 DEF MemberRow, MemberRows, Roles
<1>4. membership \in Memberships  BY <1>1, <1>3 DEF Memberships
<1>5. \A r \in MemberRequests : memberRequest[r] = MemberIdle
  BY DEF MembersInit
<1>6. MembersTypeOK
  <2>1. /\ account \in [Accounts -> AccountStates]
        /\ memberRequest \in [MemberRequests -> MemberProgress]
        /\ memberOverlap \subseteq SUBSET MemberRequests /\ outside \subseteq Firms
    BY MemberIdleTyped DEF MembersInit, AccountStates
  <2> QED  BY <1>4, <2>1, MemberTyped
<1>7. \A u \in Accounts : account[u] = "active"  BY DEF MembersInit
<1>8. MembersReal  BY <1>3, <1>7 DEF MembersReal, Primary, Member
<1>9. ServingOverlap /\ \A r \in MemberRequests : StepOfOp(memberRequest[r])
  BY <1>5, MemberIdleTyped DEF ServingOverlap, Serving, StepOfOp
<1>10. ASSUME NEW f \in Firms PROVE OwnerOf(f) /\ AdminOf(f)
  <2>1. \A u \in Accounts : Primary(u, f) <=> u = Owner  BY <1>3 DEF Primary
  <2>2. ActiveAdmin(Owner, f)  BY <1>2, <1>3, <1>7 DEF ActiveAdmin, Admin, Member
  <2>3. \A r \in MemberRequests : OwnerSafe(memberRequest[r], f) /\ Spares(memberRequest[r], f, Owner)
    BY <1>5, MemberIdleTyped DEF OwnerSafe, Spares
  <2> QED  BY <1>2, <2>1, <2>2, <2>3 DEF OwnerOf, AdminOf
<1> QED  BY <1>6, <1>8, <1>9, <1>10 DEF MembersInv

\* Every step of the members.
LEMMA MembersNextKeeps == MembersInv /\ MembersNext => MembersInv'
<1> SUFFICES ASSUME MembersInv, NEW r \in MemberRequests,
                    \/ TransferRead(r) \/ MemberAddRead(r) \/ UserCreateRead(r) \/ RoleRead(r)
                    \/ ExpelRead(r) \/ RemoveRead(r) \/ AccountToggleRead(r) \/ MemberStep(r)
             PROVE  MembersInv'
  BY DEF MembersNext
<1> QED
  BY MemberReadsKeep, TransferKeeps, JoinKeeps, OutsideKeeps, RemoveDeleteKeeps, RemoveCountsKeep,
     RemoveAccountKeeps, ToggleKeeps DEF MemberStep

\* A step of the rest of the system.
LEMMA MembersRestKeeps == MembersInv /\ UNCHANGED memberVars => MembersInv'
<1> SUFFICES ASSUME MembersInv, UNCHANGED memberVars PROVE MembersInv'  OBVIOUS
<1>1. /\ account' = account /\ membership' = membership /\ memberRequest' = memberRequest
      /\ memberOverlap' = memberOverlap /\ outside' = outside
  BY DEF memberVars
<1>2. MembersTypeOK' /\ ServingOverlap' /\ MembersReal'
  BY <1>1 DEF MembersInv, MembersTypeOK, ServingOverlap, Serving, MembersReal, Primary, Member
<1>3. \A r \in MemberRequests : (StepOfOp(memberRequest[r]))'
  BY <1>1 DEF MembersInv, StepOfOp
<1>4. \A f \in Firms : OwnerOf(f)'
  BY <1>1 DEF MembersInv, OwnerOf, TransferDisturbed, Op, Primary, OwnerSafe
<1>5. \A f \in Firms : AdminOf(f)'
  BY <1>1 DEF MembersInv, AdminOf, AdminDisturbed, Op, ActiveAdmin, Admin, Member, Spares
<1> QED  BY <1>2, <1>3, <1>4, <1>5 DEF MembersInv

\* The invariant says that organizations are governed.
LEMMA Governed == MembersInv => OrganizationsGoverned
<1> SUFFICES ASSUME MembersInv PROVE OrganizationsGoverned  OBVIOUS
<1>1. ASSUME NEW f \in Firms, ~TransferDisturbed(f)
      PROVE  Cardinality({u \in Accounts : membership[u][f].primary}) = 1
  <2>1. PICK p \in Accounts : \A u \in Accounts : Primary(u, f) <=> u = p
    BY <1>1 DEF MembersInv, OwnerOf
  <2>2. {u \in Accounts : membership[u][f].primary} = {p}  BY <2>1 DEF Primary
  <2> QED  BY <2>2, FS_Singleton
<1>2. OnePrimaryOwner  BY <1>1 DEF OnePrimaryOwner, TransferDisturbed
<1>3. ActiveAdminRemains
  BY DEF ActiveAdminRemains, AdminDisturbed, MembersInv, AdminOf
<1> QED  BY <1>2, <1>3 DEF OrganizationsGoverned

\* Every organization keeps one primary owner and an administrator who can sign in,
\* unless requests overlapped or one came from outside (admin.service.ts:277-313,
\* 491-507; users.service.ts:180-193, 242-287).
THEOREM OrganizationsStayGoverned == MembersSpec => []OrganizationsGoverned
<1>1. MembersInv /\ [MembersNext]_memberVars => MembersInv'
  BY MembersNextKeeps, MembersRestKeeps
<1> QED  BY <1>1, MembersInitKeeps, Governed, PTL DEF MembersSpec
=============================================================================
