------------------------------ MODULE Catalog ------------------------------
(***************************************************************************)
(* ProductsService of the backend: create, update, deactivate, reactivate  *)
(* and remove, for the products of one organization.                       *)
(*                                                                         *)
(* No operation opens a transaction: every statement commits on its own,   *)
(* so another request may run between any two of them, and a request may   *)
(* end (a lost connection, a restart) after any of them.  Names, codes,    *)
(* prices, categories and images are left out.                             *)
(***************************************************************************)
EXTENDS ProductRows

CONSTANTS
    ProductRequests,    \* requests to /products that write
    Stocks,             \* the stock values a request may carry (@Min(0))
    Keep                \* the request carries no stock

ASSUME CatalogAssumption ==
    /\ ProductRequests \subseteq Requests
    /\ Stocks \subseteq Nat
    /\ Keep \notin Nat

VARIABLE productRequest     \* progress of each of them

\* What update was asked: dto.stock, and whether dto.active is false.
Dto == [stock : Stocks \cup {Keep}, off : BOOLEAN]

\* previous holds the version and the stock update read; wrote that it wrote them.
CatalogInit ==
    productRequest = [r \in ProductRequests |->
        [pc |-> "new", product |-> NoOne, dto |-> [stock |-> Keep, off |-> FALSE],
         version |-> 0, previousStock |-> 0, wrote |-> FALSE]]

At(r, pc) == productRequest[r].pc = pc
Target(r) == productRequest[r].product
GoTo(r, pc) == productRequest' = [productRequest EXCEPT ![r].pc = pc]

StockMovement(r, type, previousStock, newStock) ==
    [by |-> r, line |-> 1, product |-> Target(r), type |-> type,
     quantity |-> newStock - previousStock, previousStock |-> previousStock,
     newStock |-> newStock, sale |-> NoOne]

\* createInventoryMovement, a statement of its own; the product must still be there.
RecordMovement(r, type, previousStock, newStock) ==
    IF Live(Target(r))
    THEN /\ movements' = movements \cup {StockMovement(r, type, previousStock, newStock)}
         /\ GoTo(r, "done")
    ELSE GoTo(r, "failed") /\ UNCHANGED movements

---------------------------------------------------------------------------
(* POST /products *)

CreateInsert(r) ==
    /\ At(r, "new")
    /\ \E p \in Products, stock \in Stocks :
         /\ product[p].life = "absent"
         /\ WriteNow(r, p, [life |-> "live", stock |-> stock, version |-> 0,
                            active |-> TRUE, writer |-> r])
         /\ productRequest' = [productRequest EXCEPT ![r] =
                [@ EXCEPT !.pc = "created",
                          !.product = p,
                          !.previousStock = stock]]
    /\ UNCHANGED movements

CreateMovement(r) ==
    /\ At(r, "created")
    /\ RecordMovement(r, "PURCHASE", 0, productRequest[r].previousStock)
    /\ UNCHANGED <<product, lock, draft>>

---------------------------------------------------------------------------
(* PUT /products/:id *)

UpdateRead(r) ==
    /\ At(r, "new")
    /\ \E p \in Products, dto \in Dto :
         /\ ReadActive(p)
         /\ productRequest' = [productRequest EXCEPT ![r] =
                [@ EXCEPT !.pc = "update",
                          !.product = p,
                          !.dto = dto,
                          !.version = product[p].version,
                          !.previousStock = product[p].stock]]
    /\ UNCHANGED rowVars

\* Mutant: the update does not ask for the version.
NotRemoved(r) == ReadActive(Target(r))

\* product.updateMany({ id, version, active: true }) matches the row.
NotModified(r) ==
    ReadActive(Target(r)) /\ product[Target(r)].version = productRequest[r].version

\* Mutant: the stock is written whether the request carries one or not.
UpdatedAlways(row, dto) ==
    [row EXCEPT !.stock = dto.stock, !.active = row.active /\ ~dto.off,
                !.version = row.version + 1]

Updated(row, dto) ==
    [row EXCEPT !.stock = IF dto.stock = Keep THEN row.stock ELSE dto.stock,
                !.active = row.active /\ ~dto.off,
                !.version = row.version + 1]

UpdateWrite(r) ==
    /\ At(r, "update")
    /\ NotModified(r)
    /\ WriteNow(r, Target(r), Updated(product[Target(r)], productRequest[r].dto))
    /\ productRequest' = [productRequest EXCEPT ![r] =
           [@ EXCEPT !.pc = "reread",
                     !.wrote = TRUE]]
    /\ UNCHANGED movements

UpdateConflict(r) ==
    /\ At(r, "update")
    /\ ~NotModified(r)
    /\ GoTo(r, "failed")
    /\ UNCHANGED rowVars

\* The product is read again, active ones only; a movement follows a changed stock.
UpdateReread(r) ==
    /\ At(r, "reread")
    /\ LET stock == productRequest[r].dto.stock
       IN GoTo(r, IF ~ReadActive(Target(r)) THEN "failed"
                  ELSE IF stock \in {Keep, productRequest[r].previousStock} THEN "done"
                  ELSE "movement")
    /\ UNCHANGED rowVars

UpdateMovement(r) ==
    /\ At(r, "movement")
    /\ LET previous == productRequest[r].previousStock
           stock == productRequest[r].dto.stock
           type == IF stock > previous THEN "ADJUSTMENT_IN" ELSE "ADJUSTMENT_OUT"
       IN RecordMovement(r, type, previous, stock)
    /\ UNCHANGED <<product, lock, draft>>

---------------------------------------------------------------------------
(* PATCH /products/:id/deactivate and /reactivate, DELETE /products/:id *)

\* Each reads the product, then writes it by its id alone.
Read(r, pc, Found(_)) ==
    /\ At(r, "new")
    /\ \E p \in Products :
         /\ Found(p)
         /\ productRequest' = [productRequest EXCEPT ![r] =
                [@ EXCEPT !.pc = pc,
                          !.product = p]]
    /\ UNCHANGED rowVars

DeactivateRead(r) == Read(r, "deactivate", ReadActive)

ReactivateRead(r) == Read(r, "reactivate", LAMBDA p : Live(p) /\ ~product[p].active)

RemoveRead(r) == Read(r, "remove", Live)

\* The row may have been deleted since: then the statement fails.
SetActive(r) ==
    /\ \/ At(r, "deactivate")
       \/ At(r, "reactivate")
    /\ IF Live(Target(r))
       THEN /\ WriteNow(r, Target(r), [product[Target(r)] EXCEPT !.active = At(r, "reactivate")])
            /\ GoTo(r, "done")
       ELSE GoTo(r, "failed") /\ UNCHANGED <<product, lock, draft>>
    /\ UNCHANGED movements

\* Mutant: only the movements of sales keep a product.
ReferencedBySales(p) == \E m \in movements : m.product = p /\ m.type = "SALE"

\* A foreign key keeps the row of a product that movements or other rows reference.
Referenced(p) == \E m \in movements : m.product = p

RemoveWrite(r, referencedElsewhere) ==
    /\ At(r, "remove")
    /\ lock[Target(r)] = NoOne
    /\ IF Live(Target(r)) /\ ~Referenced(Target(r)) /\ Target(r) \notin referencedElsewhere
       THEN /\ WriteNow(r, Target(r), [product[Target(r)] EXCEPT !.life = "deleted"])
            /\ GoTo(r, "done")
       ELSE GoTo(r, "failed") /\ UNCHANGED <<product, lock, draft>>
    /\ UNCHANGED movements

\* The request ends between two statements.
Interrupted(r) ==
    /\ productRequest[r].pc \notin {"new", "done", "failed"}
    /\ GoTo(r, "failed")
    /\ UNCHANGED rowVars

---------------------------------------------------------------------------
ProductStep(r, referencedElsewhere) ==
    \/ CreateInsert(r)
    \/ CreateMovement(r)
    \/ UpdateRead(r)
    \/ UpdateWrite(r)
    \/ UpdateConflict(r)
    \/ UpdateReread(r)
    \/ UpdateMovement(r)
    \/ DeactivateRead(r)
    \/ ReactivateRead(r)
    \/ RemoveRead(r)
    \/ SetActive(r)
    \/ RemoveWrite(r, referencedElsewhere)
    \/ Interrupted(r)

ProductRequestState ==
    [pc : {"new", "created", "update", "reread", "movement", "deactivate",
           "reactivate", "remove", "done", "failed"},
     product : Products \cup {NoOne}, dto : Dto, version : Nat,
     previousStock : Int, wrote : BOOLEAN]

CatalogTypeOK == productRequest \in [ProductRequests -> ProductRequestState]
=============================================================================
