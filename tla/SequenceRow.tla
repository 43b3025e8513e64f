---------------------------- MODULE SequenceRow ----------------------------
(***************************************************************************)
(* SequenceService.nextNumber on one row of "OrganizationSequence", called *)
(* inside a Serializable transaction: SELECT ... FOR UPDATE locks the row  *)
(* until the transaction ends, and fails when the row changed since the    *)
(* transaction's snapshot; the counter moves when the transaction commits. *)
(***************************************************************************)
EXTENDS Naturals

CONSTANT NoOne

VARIABLES
    current,    \* the committed counter
    holder      \* the transaction that locked the row, or NoOne

\* Mutant: the row is not locked for update.
LockNothing(t, seen) ==
    /\ current = seen
    /\ holder' = t
    /\ UNCHANGED current

\* Transaction t, whose snapshot holds the counter seen, locks the row.
Lock(t, seen) ==
    /\ holder = NoOne
    /\ current = seen
    /\ holder' = t
    /\ UNCHANGED current

Number(seen) == seen + 1

Commit(seen) ==
    /\ current' = Number(seen)
    /\ holder' = NoOne

Rollback(t) ==
    /\ holder' = IF holder = t THEN NoOne ELSE holder
    /\ UNCHANGED current
=============================================================================
