---------------------------- MODULE ProductRows ----------------------------
(***************************************************************************)
(* The rows of the tables "Product" and "InventoryMovement" of one         *)
(* organization, as the transactions of the backend see them.  PostgreSQL  *)
(* is not part of the repository: the operators below say what the         *)
(* services rely on when they read and write product rows.                 *)
(*                                                                         *)
(*   - A statement reads the last committed row, or the row its own        *)
(*     transaction wrote; it never waits to read.                          *)
(*   - An UPDATE locks the row until its transaction ends, and waits while *)
(*     another transaction holds the lock.                                 *)
(*   - What a transaction writes becomes visible to the others when it     *)
(*     commits, all of it at once, or never.                               *)
(***************************************************************************)
EXTENDS Integers, FiniteSets

CONSTANTS
    Products,   \* ids of product rows, those not yet inserted included
    Requests,   \* HTTP requests that write product rows
    NoOne       \* no request: a free lock, a row or movement no request wrote

ASSUME NoOneAssumption == NoOne \notin Requests

VARIABLES
    product,    \* the committed product rows
    lock,       \* the request whose transaction holds the row lock, or NoOne
    draft,      \* the row its holder wrote; the committed row when unlocked
    movements   \* the committed inventory movements

rowVars == <<product, lock, draft, movements>>

Row == [life : {"absent", "live", "deleted"}, stock : Int, version : Nat,
        active : BOOLEAN, writer : Requests \cup {NoOne}]

MovementTypes == {"PURCHASE", "SALE", "ADJUSTMENT_IN", "ADJUSTMENT_OUT", "RETURN"}

\* by and line identify a movement: the request that wrote it and which of the
\* request's items it is for.  sale is the request that created the sale.
Movement ==
    [by : Requests \cup {NoOne}, line : Nat, product : Products,
     type : MovementTypes, quantity : Int, previousStock : Int, newStock : Int,
     sale : Requests \cup {NoOne}]

---------------------------------------------------------------------------
Live(p) == product[p].life = "live"

\* product.findFirst({ id, organizationId, active: true }) finds p.
ReadActive(p) == Live(p) /\ product[p].active

\* The row a statement of request r reads.
Visible(r, p) == IF lock[p] = r THEN draft[p] ELSE product[p]

\* An UPDATE of p by request r need not wait.
MayWrite(r, p) == lock[p] \in {NoOne, r}

\* An UPDATE inside a transaction that stays open.
Stage(r, p, row) ==
    /\ MayWrite(r, p)
    /\ lock' = [lock EXCEPT ![p] = r]
    /\ draft' = [draft EXCEPT ![p] = [row EXCEPT !.writer = r]]

CommitRows(r) ==
    /\ product' = [p \in Products |-> IF lock[p] = r THEN draft[p] ELSE product[p]]
    /\ lock' = [p \in Products |-> IF lock[p] = r THEN NoOne ELSE lock[p]]
    /\ UNCHANGED draft

RollbackRows(r) ==
    /\ draft' = [p \in Products |-> IF lock[p] = r THEN product[p] ELSE draft[p]]
    /\ lock' = [p \in Products |-> IF lock[p] = r THEN NoOne ELSE lock[p]]
    /\ UNCHANGED product

\* A statement that is a transaction of its own.
WriteNow(r, p, row) ==
    /\ lock[p] = NoOne
    /\ product' = [product EXCEPT ![p] = [row EXCEPT !.writer = r]]
    /\ draft' = [draft EXCEPT ![p] = [row EXCEPT !.writer = r]]
    /\ UNCHANGED lock

---------------------------------------------------------------------------
RowsTypeOK ==
    /\ product \in [Products -> Row]
    /\ lock \in [Products -> Requests \cup {NoOne}]
    /\ draft \in [Products -> Row]
    /\ movements \subseteq Movement
=============================================================================
