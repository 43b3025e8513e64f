---------------------------- MODULE StockProofs ----------------------------
(***************************************************************************)
(* What Inventory keeps of its history, for every set of products and      *)
(* requests: sales are permanent, take active products and are given back  *)
(* whole, no version of a product is written from twice, and what a sale   *)
(* or a movement names is never deleted.                                   *)
(***************************************************************************)
EXTENDS InventoryProofs

---------------------------------------------------------------------------
(* The inductive invariant *)

\* A row that an open transaction holds is live, its draft is not older than the
\* committed row, and what a checkout holds is active.
HeldRowsLive ==
    \A p \in Products : lock[p] # NoOne =>
        /\ Live(p) /\ draft[p].life = "live"
        /\ draft[p].version >= product[p].version
        /\ lock[p] \in Checkouts => product[p].active /\ draft[p].active

\* A product that is not inserted yet has no version.
AbsentRowsNew == \A p \in Products : product[p].life = "absent" => product[p].version = 0

\* What refers to a product keeps it: a movement, an item of a purchase order.
UsedRowsLive ==
    /\ \A m \in movements : Live(m.product)
    /\ \A p \in OrderedProducts : Live(p)

\* What a request logged is in the table once the request is done; until then
\* the request holds the rows it is about.
Logged(r, state) ==
    \A m \in state.log :
        m.by = r /\ (IF state.pc = "done" THEN m \in movements ELSE lock[m.product] = r)

\* A checkout logs each item it went past, and its sale has its items.
CheckoutLogged(c) ==
    /\ Logged(c, checkout[c])
    /\ checkout[c].pc # "failed" =>
         \A i \in DOMAIN checkout[c].items : i < checkout[c].line =>
             \E m \in checkout[c].log : m.product = checkout[c].items[i].product
    /\ checkout[c].pc = "new" => checkout[c].line = 1

\* The movements of a committed sale name the products of its items.
SoldMoved ==
    \A c \in Checkouts : \A i \in DOMAIN sale[c].items :
        \E m \in movements : m.product = sale[c].items[i].product

\* The lines of sale s that end before line n, as a cancellation gives them back.
LinesBefore(s, n) ==
    {<<i, sale[s].items[i].product, sale[s].items[i].quantity>> : i \in 1..(n - 1)}

\* A cancellation has logged the lines it went past, one movement each; one that
\* is done and logged anything went past all of them, and its sale is cancelled.
ReturnLogged(u) ==
    LET q == saleUpdate[u]
    IN /\ Logged(u, q)
       /\ \A m \in q.log : m.sale = q.sale /\ m.type = "RETURN"
       /\ q.pc \in {"cancel", "write"} =>
            /\ q.line <= Len(sale[q.sale].items) + 1
            /\ {<<m.line, m.product, m.quantity>> : m \in q.log} = LinesBefore(q.sale, q.line)
       /\ q.pc = "done" /\ q.log # {} =>
            /\ q.sale \in Checkouts
            /\ sale[q.sale].status \notin {"NONE", "COMPLETED"}
            /\ {<<m.line, m.product, m.quantity>> : m \in q.log} =
               LinesBefore(q.sale, Len(sale[q.sale].items) + 1)
       /\ q.pc \in {"new", "return"} => q.log = {} /\ q.line = 1

\* A movement that a sale update wrote is in its log, and the update is done.
ReturnsMoved ==
    \A m \in movements : m.by \in SaleUpdates =>
        saleUpdate[m.by].pc = "done" /\ m \in saleUpdate[m.by].log

\* A version-checked edit moved its product past the version it saw.
EditVersioned(r) ==
    productRequest[r].wrote =>
        ~At(r, "new") /\ productRequest[r].version < product[Target(r)].version

\* The last write of a receipt moved its product past the version it saw, or will
\* when it is committed.
ReceiptVersioned(r) ==
    \A m \in receipt[r].log :
        /\ m.line < receipt[r].line
        /\ m.line = Len(receipt[r].items) =>
             LET v == receipt[r].version
             IN IF receipt[r].pc = "done" THEN v < product[m.product].version
                ELSE product[m.product].version <= v /\ v < draft[m.product].version

ReceiptLogged(r) ==
    /\ Logged(r, receipt[r])
    /\ receipt[r].pc = "new" => receipt[r].log = {}

RowsKept == HeldRowsLive /\ AbsentRowsNew /\ UsedRowsLive

StockInv ==
    /\ RowsKept
    /\ \A c \in Checkouts : CheckoutLogged(c)
    /\ SoldMoved
    /\ \A u \in SaleUpdates : ReturnLogged(u)
    /\ ReturnsMoved
    /\ \A r \in ProductRequests : EditVersioned(r)
    /\ \A r \in Receipts : ReceiptLogged(r) /\ ReceiptVersioned(r)
    /\ OneWritePerVersion

---------------------------------------------------------------------------
(* What a step of request r does to the rows: it leaves alone those that another request
   holds, moves no version back, and deletes nothing that something refers to. *)

Used(p) == Referenced(p) \/ p \in OrderedProducts

Moves(r) ==
    /\ \A p \in Products :
         /\ lock[p] \notin {NoOne, r} =>
              lock'[p] = lock[p] /\ product'[p] = product[p] /\ draft'[p] = draft[p]
         /\ product'[p].version >= product[p].version
         /\ Live(p) /\ Used(p) => Live(p)'
    /\ movements \subseteq movements'

\* A step that touches no row moves none.
LEMMA StillMoves ==
    ASSUME RowsInv, HeldRowsLive, AbsentRowsNew, NEW r, UNCHANGED rowVars
    PROVE  HeldRowsLive' /\ AbsentRowsNew' /\ Moves(r)
  BY DEF rowVars, RowsInv, RowsTypeOK, Row, HeldRowsLive, AbsentRowsNew, Moves, Live

\* An update inside a transaction moves only the draft of the row it locks.
LEMMA StageMoves ==
    ASSUME RowsInv, HeldRowsLive, AbsentRowsNew, NEW r \in Requests, NEW p \in Products,
           NEW row \in Row, Live(p), row.life = "live", row.version >= product[p].version,
           r \in Checkouts => product[p].active /\ row.active,
           Stage(r, p, row), UNCHANGED <<product, movements>>
    PROVE  HeldRowsLive' /\ AbsentRowsNew' /\ Moves(r)
  <1>1. /\ [row EXCEPT !.writer = r].life = "live"
        /\ [row EXCEPT !.writer = r].version = row.version
        /\ [row EXCEPT !.writer = r].active = row.active
    BY DEF Row
  <1>2. /\ product \in [Products -> Row] /\ draft \in [Products -> Row]
        /\ lock \in [Products -> Requests \cup {NoOne}]
    BY DEF RowsInv, RowsTypeOK
  <1>3. HeldRowsLive'
    BY <1>1, <1>2 DEF Stage, HeldRowsLive, Live
  <1>4. AbsentRowsNew'
    BY DEF AbsentRowsNew
  <1>5. Moves(r)
    BY <1>2 DEF Stage, MayWrite, Moves, Live, Row
  <1>. QED BY <1>3, <1>4, <1>5

\* A commit publishes the drafts of the rows it held, none older than the row.
LEMMA CommitMoves ==
    ASSUME RowsInv, HeldRowsLive, AbsentRowsNew, NEW r \in Requests,
           CommitRows(r), movements \subseteq movements'
    PROVE  HeldRowsLive' /\ AbsentRowsNew' /\ Moves(r)
  <1>1. /\ product \in [Products -> Row] /\ draft \in [Products -> Row]
        /\ lock \in [Products -> Requests \cup {NoOne}]
        /\ r # NoOne
    BY NoOneAssumption DEF RowsInv, RowsTypeOK
  <1>2. \A p \in Products : /\ product'[p] = IF lock[p] = r THEN draft[p] ELSE product[p]
                            /\ lock'[p] = IF lock[p] = r THEN NoOne ELSE lock[p]
                            /\ draft'[p] = draft[p]
    BY DEF CommitRows
  <1>3. HeldRowsLive' /\ AbsentRowsNew'
    BY <1>1, <1>2 DEF HeldRowsLive, AbsentRowsNew, Live
  <1>4. Moves(r)
    BY <1>1, <1>2 DEF HeldRowsLive, Moves, Live, Row
  <1>. QED BY <1>3, <1>4

\* A rollback gives its rows up as they were committed.
LEMMA RollbackMoves ==
    ASSUME RowsInv, HeldRowsLive, AbsentRowsNew, NEW r \in Requests,
           RollbackRows(r), UNCHANGED movements
    PROVE  HeldRowsLive' /\ AbsentRowsNew' /\ Moves(r)
  <1>1. /\ product \in [Products -> Row] /\ draft \in [Products -> Row]
        /\ lock \in [Products -> Requests \cup {NoOne}]
        /\ r # NoOne
    BY NoOneAssumption DEF RowsInv, RowsTypeOK
  <1>2. \A p \in Products : /\ product'[p] = product[p]
                            /\ lock'[p] = IF lock[p] = r THEN NoOne ELSE lock[p]
                            /\ draft'[p] = IF lock[p] = r THEN product[p] ELSE draft[p]
    BY DEF RollbackRows
  <1>3. HeldRowsLive' /\ AbsentRowsNew'
    BY <1>1, <1>2 DEF HeldRowsLive, AbsentRowsNew, Live
  <1>4. Moves(r)
    BY <1>1, <1>2 DEF HeldRowsLive, Moves, Live, Row
  <1>. QED BY <1>3, <1>4

\* A write outside a transaction moves one free row forward, and deletes none in use.
LEMMA WriteNowMoves ==
    ASSUME RowsInv, HeldRowsLive, AbsentRowsNew, NEW r \in Requests, NEW p \in Products,
           NEW row \in Row, row.version >= product[p].version, row.life # "absent",
           Live(p) /\ Used(p) => row.life = "live",
           WriteNow(r, p, row), UNCHANGED movements
    PROVE  HeldRowsLive' /\ AbsentRowsNew' /\ Moves(r)
  <1>1. /\ [row EXCEPT !.writer = r].life = row.life
        /\ [row EXCEPT !.writer = r].version = row.version
    BY DEF Row
  <1>2. /\ product \in [Products -> Row] /\ draft \in [Products -> Row]
        /\ lock \in [Products -> Requests \cup {NoOne}]
    BY DEF RowsInv, RowsTypeOK
  <1>3. HeldRowsLive' /\ AbsentRowsNew'
    BY <1>1, <1>2 DEF WriteNow, HeldRowsLive, AbsentRowsNew, Live
  <1>4. Moves(r)
    BY <1>1, <1>2 DEF WriteNow, Moves, Live, Row
  <1>. QED BY <1>3, <1>4

\* The products that orders name exist.
LEMMA OrderedProductsType ==
    ASSUME OrdersInv
    PROVE  OrderedProducts \subseteq Products
  <1>1. ASSUME NEW w \in Writers, NEW k \in DOMAIN lines[w]
        PROVE  lines[w][k].product \in Products
    <2>1. lines[w] \in Seq(OrderLine)
      BY DEF OrdersInv, OrdersTypeOK
    <2>2. lines[w][k] \in OrderLine
      BY <2>1, ElementOfSeq
    <2>. QED BY <2>2 DEF OrderLine
  <1>. QED BY <1>1 DEF OrderedProducts

\* What referred to a live product still does, and so does what a step adds.
LEMMA UsedKept ==
    ASSUME RowsInv, OrdersInv, UsedRowsLive, NEW r, Moves(r),
           \A m \in movements' \ movements : Live(m.product)',
           \A p \in OrderedProducts' \ OrderedProducts : Live(p)'
    PROVE  UsedRowsLive'
  <1>1. OrderedProducts \subseteq Products
    BY OrderedProductsType
  <1>2. \A m \in movements : m.product \in Products
    BY DEF RowsInv, RowsTypeOK, Movement
  <1>3. ASSUME NEW m \in movements
        PROVE  Live(m.product)'
    <2>1. m.product \in Products /\ Live(m.product) /\ Used(m.product)
      BY <1>2 DEF UsedRowsLive, Used, Referenced
    <2>. QED BY <2>1 DEF Moves
  <1>4. ASSUME NEW p \in OrderedProducts
        PROVE  Live(p)'
    <2>1. p \in Products /\ Live(p) /\ Used(p)
      BY <1>1 DEF UsedRowsLive, Used
    <2>. QED BY <2>1 DEF Moves
  <1>. QED BY <1>3, <1>4 DEF UsedRowsLive

\* A step that adds no movement and no item of an order.
LEMMA QuietKept ==
    ASSUME RowsInv, OrdersInv, RowsKept, NEW r, Moves(r), HeldRowsLive', AbsentRowsNew',
           movements' = movements, lines' = lines
    PROVE  RowsKept'
  <1>1. OrderedProducts' = OrderedProducts
    BY DEF OrderedProducts
  <1>2. UsedRowsLive'
    BY <1>1, UsedKept DEF RowsKept
  <1>. QED BY <1>2 DEF RowsKept

\* A step that touches neither rows nor order items keeps what is known of rows.
LEMMA StillKept ==
    ASSUME RowsInv, OrdersInv, RowsKept, NEW r, UNCHANGED rowVars, lines' = lines
    PROVE  RowsKept' /\ Moves(r)
  BY StillMoves, QuietKept DEF RowsKept, rowVars

\* A commit that moves what its request logged, about rows the request held.
LEMMA CommitKept ==
    ASSUME RowsInv, OrdersInv, RowsKept, NEW r \in Requests, NEW log \in SUBSET Movement,
           \A m \in log : lock[m.product] = r, CommitRows(r), movements' = movements \cup log,
           OrderedProducts' = OrderedProducts
    PROVE  RowsKept' /\ Moves(r)
  <1>1. HeldRowsLive' /\ AbsentRowsNew' /\ Moves(r)
    BY CommitMoves DEF RowsKept
  <1>2. ASSUME NEW m \in log
        PROVE  Live(m.product)'
    <2>1. m.product \in Products /\ lock[m.product] = r /\ r # NoOne
      BY NoOneAssumption DEF Movement
    <2>2. draft[m.product].life = "live" /\ product'[m.product] = draft[m.product]
      BY <2>1 DEF CommitRows, RowsKept, HeldRowsLive
    <2>. QED BY <2>2 DEF Live
  <1>3. UsedRowsLive'
    BY <1>1, <1>2, UsedKept DEF RowsKept
  <1>. QED BY <1>1, <1>3 DEF RowsKept

---------------------------------------------------------------------------
(* Sales: what a step does to the rows *)

\* A checkout stages rows that are live and active, and commits or gives them up.
LEMMA CheckoutStepKeepsRows ==
    ASSUME IInv, StockInv, NEW c \in Checkouts, CheckoutStep(c), UNCHANGED orderVars
    PROVE  RowsKept' /\ Moves(c)
  <1>1. RowsInv /\ OrdersInv /\ SalesInv /\ RowsKept /\ lines' = lines /\ c \in Requests
    BY SalesAssumption DEF IInv, StockInv, RowsKept, orderVars
  <1>2. CASE CheckoutRead(c) \/ CheckoutBegin(c) \/ NextNumber(c)
    BY <1>1, <1>2, StillKept DEF CheckoutRead, CheckoutBegin, NextNumber
  <1>3. CASE CheckoutItem(c)
    <2>. DEFINE p == Item(c).product
                row == [Visible(c, p) EXCEPT !.stock = Visible(c, p).stock - Item(c).quantity]
    <2>1. p \in Products /\ Item(c).quantity \in Nat
      <3>1. checkout[c].items \in Items /\ checkout[c].line \in Nat \ {0}
        BY <1>1 DEF SalesInv, SalesTypeOK, CheckoutState
      <3>. QED BY <1>3, <3>1, ItemAt DEF CheckoutItem, ItemsLeft, Item
    <2>2. Live(p) /\ Visible(c, p).active /\ Stage(c, p, row) /\ UNCHANGED <<product, movements>>
      BY <1>3 DEF CheckoutItem, Sellable
    <2>3. Visible(c, p) \in Row
      BY <1>1, <2>1, VisibleRow
    <2>4. /\ row \in Row /\ row.life = Visible(c, p).life /\ row.version = Visible(c, p).version
          /\ row.active
      BY <2>1, <2>2, <2>3 DEF Row
    <2>. HIDE DEF row, p
    <2>5. /\ row.life = "live" /\ row.version >= product[p].version
          /\ product[p].active
      <3>1. CASE lock[p] = c
        <4>1. c # NoOne
          BY <1>1, NoOneAssumption
        <4>. QED BY <1>1, <2>1, <2>4, <3>1, <4>1 DEF Visible, RowsKept, HeldRowsLive
      <3>2. CASE lock[p] # c
        <4>1. product[p].version \in Nat
          BY <1>1, <2>1 DEF RowsInv, RowsTypeOK, Row
        <4>. QED BY <2>2, <2>4, <3>2, <4>1 DEF Visible, Live
      <3>. QED BY <3>1, <3>2
    <2>6. HeldRowsLive' /\ AbsentRowsNew' /\ Moves(c)
      BY <1>1, <2>1, <2>2, <2>4, <2>5, StageMoves DEF RowsKept
    <2>. QED BY <1>1, <2>2, <2>6, QuietKept
  <1>4. CASE CheckoutCommit(c)
    <2>1. (\A m \in checkout[c].log : lock[m.product] = c) /\ checkout[c].log \in SUBSET Movement
      BY <1>1, <1>4 DEF CheckoutCommit, StockInv, CheckoutLogged, Logged, SalesInv, SalesTypeOK,
                        CheckoutState
    <2>2. CommitRows(c) /\ movements' = movements \cup checkout[c].log
      BY <1>4 DEF CheckoutCommit
    <2>3. OrderedProducts' = OrderedProducts
      BY <1>1 DEF OrderedProducts
    <2>. QED BY <1>1, <2>1, <2>2, <2>3, CommitKept
  <1>5. CASE CheckoutAbort(c)
    <2>1. RollbackRows(c) /\ movements' = movements
      BY <1>5 DEF CheckoutAbort
    <2>. QED BY <1>1, <2>1, RollbackMoves, QuietKept DEF RowsKept
  <1>. QED BY <1>2, <1>3, <1>4, <1>5 DEF CheckoutStep

\* A cancellation stages rows of sold products: live, whatever else they are.
LEMMA SaleUpdateStepKeepsRows ==
    ASSUME IInv, StockInv, NEW u \in SaleUpdates, SaleUpdateStep(u), UNCHANGED orderVars
    PROVE  RowsKept' /\ Moves(u)
  <1>1. RowsInv /\ OrdersInv /\ SalesInv /\ RowsKept /\ lines' = lines /\ u \in Requests
    BY SalesAssumption DEF IInv, StockInv, orderVars
  <1>2. CASE SaleUpdateRead(u) \/ CancelReadItem(u) \/ ReturnPartial(u)
    BY <1>1, <1>2, StillKept DEF SaleUpdateRead, CancelReadItem, ReturnPartial
  <1>3. CASE CancelWriteItem(u)
    <2>. DEFINE p == Returned(u).product
                row == [Visible(u, p) EXCEPT
                          !.stock = saleUpdate[u].previousStock + Returned(u).quantity]
    <2>1. /\ saleUpdate[u].sale \in Checkouts
          /\ saleUpdate[u].line \in DOMAIN sale[saleUpdate[u].sale].items
          /\ p \in Products /\ Returned(u).quantity \in Nat
      <3>1. /\ saleUpdate[u].sale \in Checkouts
            /\ sale[saleUpdate[u].sale].items \in Items /\ saleUpdate[u].line \in Nat \ {0}
            /\ saleUpdate[u].line <= Len(sale[saleUpdate[u].sale].items)
        BY <1>1, <1>3
        DEF CancelWriteItem, SalesInv, UpdatesLinked, SalesTypeOK, SaleUpdateState, SaleRow
      <3>2. p \in Products /\ Returned(u).quantity \in Nat \ {0}
        BY <3>1, ItemAt DEF Returned
      <3>. QED BY <3>1, <3>2 DEF Items
    <2>2. Stage(u, p, row) /\ UNCHANGED <<product, movements>>
      BY <1>3 DEF CancelWriteItem
    <2>3. Live(p)
      BY <1>1, <2>1 DEF StockInv, SoldMoved, RowsKept, UsedRowsLive, Returned
    <2>4. Visible(u, p) \in Row /\ saleUpdate[u].previousStock \in Int
      BY <1>1, <2>1, VisibleRow DEF SalesInv, SalesTypeOK, SaleUpdateState
    <2>5. row \in Row /\ row.life = Visible(u, p).life /\ row.version = Visible(u, p).version
      BY <2>1, <2>4 DEF Row
    <2>. HIDE DEF row, p
    <2>6. row.life = "live" /\ row.version >= product[p].version
      <3>1. product[p].version \in Nat /\ u # NoOne
        BY <1>1, <2>1, NoOneAssumption DEF RowsInv, RowsTypeOK, Row
      <3>. QED BY <1>1, <2>1, <2>3, <2>5, <3>1 DEF Visible, Live, RowsKept, HeldRowsLive
    <2>7. u \notin Checkouts
      BY SalesAssumption
    <2>8. HeldRowsLive' /\ AbsentRowsNew' /\ Moves(u)
      BY <1>1, <2>1, <2>2, <2>3, <2>5, <2>6, <2>7, StageMoves DEF RowsKept
    <2>. QED BY <1>1, <2>2, <2>8, QuietKept
  <1>4. CASE CancelCommit(u)
    <2>1. (\A m \in saleUpdate[u].log : lock[m.product] = u) /\ saleUpdate[u].log \in SUBSET Movement
      BY <1>1, <1>4 DEF CancelCommit, StockInv, ReturnLogged, Logged, SalesInv, SalesTypeOK,
                        SaleUpdateState
    <2>2. CommitRows(u) /\ movements' = movements \cup saleUpdate[u].log
      BY <1>4 DEF CancelCommit
    <2>3. OrderedProducts' = OrderedProducts
      BY <1>1 DEF OrderedProducts
    <2>. QED BY <1>1, <2>1, <2>2, <2>3, CommitKept
  <1>5. CASE CancelAbort(u)
    <2>1. RollbackRows(u) /\ movements' = movements
      BY <1>5 DEF CancelAbort
    <2>. QED BY <1>1, <2>1, RollbackMoves, QuietKept DEF RowsKept
  <1>. QED BY <1>2, <1>3, <1>4, <1>5 DEF SaleUpdateStep

---------------------------------------------------------------------------
(* The catalog: what a step does to the rows *)

\* A movement about a live product, with or without one.
LEMMA RecordKept ==
    ASSUME RowsInv, OrdersInv, CatalogInv, RowsKept, NEW r \in ProductRequests,
           NEW type, NEW previous, NEW stock,
           RecordMovement(r, type, previous, stock), UNCHANGED <<product, lock, draft, lines>>
    PROVE  RowsKept' /\ Moves(r)
  <1>1. HeldRowsLive' /\ AbsentRowsNew'
    BY DEF RowsKept, HeldRowsLive, AbsentRowsNew, Live
  <1>2. Moves(r)
    BY DEF RecordMovement, Moves, RowsInv, RowsTypeOK, Row, Live
  <1>3. \A m \in movements' \ movements : Live(m.product)'
    BY DEF RecordMovement, StockMovement, Live
  <1>4. OrderedProducts' = OrderedProducts
    BY DEF OrderedProducts
  <1>5. UsedRowsLive'
    BY <1>2, <1>3, <1>4, UsedKept DEF RowsKept
  <1>. QED BY <1>1, <1>2, <1>5 DEF RowsKept

\* A write of the catalog that keeps versions and used products keeps the rows.
LEMMA WriteNowKept ==
    ASSUME RowsInv, OrdersInv, RowsKept, NEW r \in Requests, NEW p \in Products,
           NEW row \in Row, row.version >= product[p].version, row.life # "absent",
           Live(p) /\ Used(p) => row.life = "live",
           WriteNow(r, p, row), UNCHANGED <<movements, lines>>
    PROVE  RowsKept' /\ Moves(r)
  BY WriteNowMoves, QuietKept DEF RowsKept

\* A catalog request inserts, edits or deletes one row, never one in use.
LEMMA ProductStepKeepsRows ==
    ASSUME IInv, StockInv, NEW r \in ProductRequests, ProductStep(r, OrderedProducts),
           UNCHANGED orderVars
    PROVE  RowsKept' /\ Moves(r)
  <1>1. RowsInv /\ OrdersInv /\ CatalogInv /\ RowsKept /\ lines' = lines /\ r \in Requests
    BY CatalogAssumption DEF IInv, StockInv, orderVars
  <1>2. \A p \in Products : product[p] \in Row
    BY <1>1 DEF RowsInv, RowsTypeOK
  <1>3. ~At(r, "new") => Target(r) \in Products
    BY <1>1 DEF CatalogInv, TargetsKnown
  <1>4. productRequest[r].dto \in Dto
    BY <1>1 DEF CatalogInv, CatalogTypeOK, ProductRequestState
  <1>5. CASE UpdateRead(r) \/ UpdateConflict(r) \/ UpdateReread(r) \/ DeactivateRead(r)
             \/ ReactivateRead(r) \/ RemoveRead(r) \/ Interrupted(r)
    <2>1. UNCHANGED rowVars
      BY <1>5 DEF UpdateRead, UpdateConflict, UpdateReread, DeactivateRead, ReactivateRead,
                  RemoveRead, Read, Interrupted
    <2>. QED BY <1>1, <2>1, StillKept
  <1>6. CASE CreateMovement(r) \/ UpdateMovement(r)
    <2>1. UNCHANGED <<product, lock, draft, lines>>
      BY <1>1, <1>6 DEF CreateMovement, UpdateMovement
    <2>2. PICK type, previous, stock : RecordMovement(r, type, previous, stock)
      BY <1>6 DEF CreateMovement, UpdateMovement
    <2>. QED BY <1>1, <2>1, <2>2, RecordKept
  <1>7. CASE CreateInsert(r)
    <2>1. PICK p \in Products, stock \in Stocks :
            /\ product[p].life = "absent"
            /\ WriteNow(r, p, [life |-> "live", stock |-> stock, version |-> 0,
                               active |-> TRUE, writer |-> r])
      BY <1>7 DEF CreateInsert
    <2>. DEFINE row == [life |-> "live", stock |-> stock, version |-> 0,
                        active |-> TRUE, writer |-> r]
    <2>2. row \in Row /\ row.life = "live" /\ row.version = 0
      BY <1>1, CatalogAssumption DEF Row
    <2>3. WriteNow(r, p, row) /\ UNCHANGED <<movements, lines>>
      BY <1>1, <1>7, <2>1 DEF CreateInsert
    <2>4. product[p].version = 0
      BY <1>1, <2>1 DEF RowsKept, AbsentRowsNew
    <2>. HIDE DEF row
    <2>. QED BY <1>1, <2>2, <2>3, <2>4, WriteNowKept
  <1>8. CASE UpdateWrite(r)
    <2>. DEFINE p == Target(r)
                row == Updated(product[p], productRequest[r].dto)
    <2>1. p \in Products /\ Live(p) /\ WriteNow(r, p, row) /\ UNCHANGED <<movements, lines>>
      BY <1>1, <1>3, <1>8 DEF UpdateWrite, NotModified, ReadActive, At
    <2>2. row \in Row /\ row.life = product[p].life /\ row.version = product[p].version + 1
      <3>1. product[p] \in Row /\ product[p].stock >= 0
        BY <1>1, <2>1 DEF RowsInv, RowsTypeOK
      <3>2. row \in Row
        BY <1>4, <3>1, UpdatedRow
      <3>. QED BY <3>1, <3>2 DEF Updated, Row
    <2>3. row.version >= product[p].version
      BY <1>2, <2>1, <2>2 DEF Row
    <2>. HIDE DEF row, p
    <2>. QED BY <1>1, <2>1, <2>2, <2>3, WriteNowKept DEF Live
  <1>9. CASE SetActive(r)
    <2>. DEFINE p == Target(r)
                row == [product[p] EXCEPT !.active = At(r, "reactivate")]
    <2>1. p \in Products /\ UNCHANGED <<movements, lines>>
      BY <1>1, <1>3, <1>9 DEF SetActive, At
    <2>2. row \in Row /\ row.life = product[p].life /\ row.version = product[p].version
      BY <1>2, <2>1 DEF Row, At
    <2>3. \/ Live(p) /\ WriteNow(r, p, row)
          \/ UNCHANGED <<product, lock, draft>>
      BY <1>9 DEF SetActive
    <2>4. row.version >= product[p].version
      BY <1>2, <2>1, <2>2 DEF Row
    <2>. HIDE DEF row, p
    <2>. QED BY <1>1, <2>1, <2>2, <2>3, <2>4, WriteNowKept, StillKept DEF Live, rowVars
  <1>10. CASE RemoveWrite(r, OrderedProducts)
    <2>. DEFINE p == Target(r)
                row == [product[p] EXCEPT !.life = "deleted"]
    <2>1. p \in Products /\ UNCHANGED <<movements, lines>>
      BY <1>1, <1>3, <1>10 DEF RemoveWrite, At
    <2>2. row \in Row /\ row.life = "deleted" /\ row.version = product[p].version
      BY <1>2, <2>1 DEF Row
    <2>3. \/ ~Used(p) /\ WriteNow(r, p, row)
          \/ UNCHANGED <<product, lock, draft>>
      BY <1>10 DEF RemoveWrite, Used
    <2>4. row.version >= product[p].version
      BY <1>2, <2>1, <2>2 DEF Row
    <2>. HIDE DEF row, p
    <2>. QED BY <1>1, <2>1, <2>2, <2>3, <2>4, WriteNowKept, StillKept DEF rowVars
  <1>. QED BY <1>5, <1>6, <1>7, <1>8, <1>9, <1>10 DEF ProductStep

---------------------------------------------------------------------------
(* Purchase orders: what a step does to the rows *)

\* The step of an order or of a change writes no row; the products of the items
\* it inserts exist at that moment.
LEMMA InsertedKept ==
    ASSUME RowsInv, OrdersInv, RowsKept, NEW r, UNCHANGED rowVars,
           NEW w \in Writers, NEW items \in OrderItems, Insertable(items),
           \A v \in Writers : \/ lines'[v] = lines[v]
                              \/ lines'[v] = <<>>
                              \/ lines'[v] = NewLines(items)
    PROVE  RowsKept' /\ Moves(r)
  <1>1. HeldRowsLive' /\ AbsentRowsNew' /\ Moves(r) /\ movements' = movements
    BY StillMoves DEF RowsKept, rowVars
  <1>2. ASSUME NEW p \in OrderedProducts' \ OrderedProducts
        PROVE  Live(p)'
    <2>1. PICK v \in Writers : \E k \in DOMAIN lines'[v] : p = lines'[v][k].product
      BY <1>2 DEF OrderedProducts
    <2>2. PICK k \in DOMAIN lines'[v] : p = lines'[v][k].product
      BY <2>1
    <2>3. lines'[v] # lines[v]
      BY <1>2, <2>2 DEF OrderedProducts
    <2>4. lines'[v] = NewLines(items)
      BY <2>2, <2>3
    <2>5. k \in DOMAIN items /\ p = items[k].product
      BY <2>2, <2>4 DEF NewLines
    <2>. QED BY <2>5 DEF Insertable, Live, rowVars
  <1>3. UsedRowsLive'
    BY <1>1, <1>2, UsedKept DEF RowsKept
  <1>. QED BY <1>1, <1>3 DEF RowsKept

\* Creating an order touches no row; the items it commits are of live products.
LEMMA OrderStepKeepsRows ==
    ASSUME IInv, StockInv, NEW o \in Orders, OrderStep(o)
    PROVE  RowsKept' /\ Moves(NoOne) /\ UNCHANGED rowVars
  <1>1. RowsInv /\ OrdersInv /\ RowsKept /\ UNCHANGED rowVars
    BY DEF IInv, StockInv, OrderStep, OrderRead, OrderBegin, OrderTakeNumber, OrderCommit,
           OrderAbort
  <1>2. CASE lines' = lines
    BY <1>1, <1>2, StillKept
  <1>3. CASE lines' # lines
    <2>1. Insertable(orderCreate[o].items)
          /\ lines' = [lines EXCEPT ![o] = NewLines(orderCreate[o].items)]
      BY <1>3 DEF OrderStep, OrderRead, OrderBegin, OrderTakeNumber, OrderCommit, OrderAbort
    <2>2. orderCreate[o].items \in OrderItems /\ o \in Writers
          /\ DOMAIN lines = Writers
      BY <1>1 DEF OrdersInv, OrdersTypeOK, OrderCreateState, Writers
    <2>3. \A v \in Writers : lines'[v] = lines[v] \/ lines'[v] = NewLines(orderCreate[o].items)
      BY <2>1, <2>2
    <2>. QED BY <1>1, <2>1, <2>2, <2>3, InsertedKept
  <1>. QED BY <1>1, <1>2, <1>3

\* Changing an order touches no row; the items it commits are of live products.
LEMMA ChangeStepKeepsRows ==
    ASSUME IInv, StockInv, NEW x \in OrderChanges, ChangeStep(x)
    PROVE  RowsKept' /\ Moves(NoOne) /\ UNCHANGED rowVars
  <1>1. RowsInv /\ OrdersInv /\ RowsKept /\ UNCHANGED rowVars
    BY DEF IInv, StockInv, ChangeStep, ChangeRead, EditDelete, EditCommit, EditAbort,
           ChangeStatus
  <1>2. CASE lines' = lines
    BY <1>1, <1>2, StillKept
  <1>3. CASE lines' # lines
    <2>1. /\ Insertable(orderChange[x].items)
          /\ lines' = [w \in Writers |-> IF w = x THEN NewLines(orderChange[x].items)
                                         ELSE IF w \in orderChange[x].doomed THEN <<>>
                                         ELSE lines[w]]
      BY <1>3 DEF ChangeStep, ChangeRead, EditDelete, EditCommit, EditAbort, ChangeStatus
    <2>2. orderChange[x].items \in OrderItems /\ x \in Writers
      BY <1>1 DEF OrdersInv, OrdersTypeOK, OrderChangeState, Writers
    <2>3. \A v \in Writers : \/ lines'[v] = lines[v]
                             \/ lines'[v] = <<>>
                             \/ lines'[v] = NewLines(orderChange[x].items)
      BY <2>1
    <2>. QED BY <1>1, <2>1, <2>2, <2>3, InsertedKept
  <1>. QED BY <1>1, <1>2, <1>3

\* A receipt writes a product of an item that exists, and moves its version on.
LEMMA ReceiptWrites ==
    ASSUME IInv, StockInv, NEW r \in Receipts, ReceiveWrite(r)
    PROVE  LET p == ItemRow(Received(r).item).product
               row == Restocked(r, Visible(r, p))
           IN /\ p \in Products /\ Live(p)
              /\ Stage(r, p, row) /\ UNCHANGED <<product, movements>>
              /\ row \in Row /\ row.life = "live"
              /\ Visible(r, p).version = receipt[r].version
              /\ row.version = receipt[r].version + 1
              /\ product[p].version <= receipt[r].version
  <1>. DEFINE p == ItemRow(Received(r).item).product
              row == Restocked(r, Visible(r, p))
  <1>1. RowsInv /\ OrdersInv /\ RowsKept /\ r \in Requests
    BY OrdersAssumption DEF IInv, StockInv
  <1>2. ReceiptLinesLeft(r) /\ ItemExists(Received(r).item)
    BY <1>1 DEF ReceiveWrite, OrdersInv, ReceiptsLinked
  <1>3. p \in Products /\ Received(r).quantity \in Nat \ {0}
    BY <1>1, <1>2, ReceivedLine
  <1>4. Live(p)
    <2>1. Received(r).item[1] \in Writers
      <3>1. /\ receipt[r].items \in Seq(ReceiptLine) /\ receipt[r].line \in Nat \ {0}
        BY <1>1 DEF OrdersInv, OrdersTypeOK, ReceiptState
      <3>2. receipt[r].line \in 1..Len(receipt[r].items)
        BY <1>2, <3>1 DEF ReceiptLinesLeft
      <3>3. Received(r) \in ReceiptLine
        BY <3>1, <3>2, ElementOfSeq DEF Received
      <3>. QED BY <3>3 DEF ReceiptLine
    <2>2. p \in OrderedProducts
      BY <1>2, <2>1 DEF OrderedProducts, ItemRow, ItemExists
    <2>. QED BY <1>1, <2>2 DEF RowsKept, UsedRowsLive
  <1>5. Stage(r, p, row) /\ UNCHANGED <<product, movements>>
        /\ Visible(r, p).version = receipt[r].version
    BY DEF ReceiveWrite, Unmodified
  <1>6. Visible(r, p) \in Row
    BY <1>1, <1>3, VisibleRow
  <1>7. /\ row \in Row /\ row.life = Visible(r, p).life
        /\ row.version = receipt[r].version + 1
    <2>1. Visible(r, p).stock + Received(r).quantity \in Int /\ Visible(r, p).version + 1 \in Nat
      BY <1>3, <1>6 DEF Row
    <2>. QED BY <1>5, <1>6, <2>1 DEF Restocked, Row
  <1>. HIDE DEF row, p
  <1>8. Visible(r, p).life = "live" /\ product[p].version <= Visible(r, p).version
    <2>1. product[p].version \in Nat /\ r # NoOne
      BY <1>1, <1>3, NoOneAssumption DEF RowsInv, RowsTypeOK, Row
    <2>. QED BY <1>1, <1>3, <1>4, <2>1 DEF Visible, Live, RowsKept, HeldRowsLive
  <1>. QED BY <1>3, <1>4, <1>5, <1>7, <1>8 DEF row, p

\* A receipt stages rows of ordered products: live, one version further.
LEMMA ReceiptStepKeepsRows ==
    ASSUME IInv, StockInv, NEW r \in Receipts, ReceiptStep(r)
    PROVE  RowsKept' /\ Moves(r)
  <1>1. RowsInv /\ OrdersInv /\ RowsKept /\ r \in Requests
    BY OrdersAssumption DEF IInv, StockInv
  <1>2. CASE ReceiveRead(r) \/ ReceiveItem(r) \/ ReceiveProduct(r) \/ ReceiveRefresh(r)
    BY <1>1, <1>2, StillKept DEF ReceiveRead, ReceiveItem, ReceiveProduct, ReceiveRefresh
  <1>3. CASE ReceiveWrite(r)
    <2>. DEFINE p == ItemRow(Received(r).item).product
                row == Restocked(r, Visible(r, p))
    <2>1. /\ p \in Products /\ Live(p)
          /\ Stage(r, p, row) /\ UNCHANGED <<product, movements>>
          /\ row \in Row /\ row.life = "live"
          /\ row.version = receipt[r].version + 1
          /\ product[p].version <= receipt[r].version
      BY <1>3, ReceiptWrites
    <2>2. lines' = lines
      BY <1>3 DEF ReceiveWrite
    <2>. HIDE DEF row, p
    <2>3. row.version >= product[p].version /\ r \notin Checkouts
      <3>1. product[p].version \in Nat /\ receipt[r].version \in Nat
        BY <1>1, <2>1 DEF RowsInv, RowsTypeOK, Row, OrdersInv, OrdersTypeOK, ReceiptState
      <3>. QED BY <2>1, <3>1, InventoryAssumption
    <2>4. HeldRowsLive' /\ AbsentRowsNew' /\ Moves(r)
      BY <1>1, <2>1, <2>3, StageMoves DEF RowsKept
    <2>. QED BY <1>1, <2>1, <2>2, <2>4, QuietKept
  <1>4. CASE ReceiveCommit(r)
    <2>1. (\A m \in receipt[r].log : lock[m.product] = r) /\ receipt[r].log \in SUBSET Movement
      BY <1>1, <1>4 DEF ReceiveCommit, StockInv, ReceiptLogged, Logged, OrdersInv, OrdersTypeOK,
                        ReceiptState
    <2>2. CommitRows(r) /\ movements' = movements \cup receipt[r].log
      BY <1>4 DEF ReceiveCommit
    <2>3. ASSUME NEW w \in Writers
          PROVE  /\ DOMAIN lines'[w] = DOMAIN lines[w]
                 /\ \A k \in DOMAIN lines[w] : lines'[w][k].product = lines[w][k].product
      <3>1. lines[w] \in Seq(OrderLine)
        BY <1>1 DEF OrdersInv, OrdersTypeOK
      <3>2. \A k \in DOMAIN lines[w] : lines[w][k] \in OrderLine
        BY <3>1, ElementOfSeq
      <3>3. lines'[w] = [k \in DOMAIN lines[w] |->
                [lines[w][k] EXCEPT !.received = lines[w][k].received + Adds(r, <<w, k>>)]]
        BY <1>4 DEF ReceiveCommit
      <3>. QED BY <3>2, <3>3 DEF OrderLine
    <2>4. OrderedProducts' = OrderedProducts
      BY <2>3 DEF OrderedProducts
    <2>. QED BY <1>1, <2>1, <2>2, <2>4, CommitKept
  <1>5. CASE ReceiveAbort(r)
    <2>1. RollbackRows(r) /\ movements' = movements /\ lines' = lines
      BY <1>5 DEF ReceiveAbort
    <2>. QED BY <1>1, <2>1, RollbackMoves, QuietKept DEF RowsKept
  <1>. QED BY <1>2, <1>3, <1>4, <1>5 DEF ReceiptStep

---------------------------------------------------------------------------
(* A sale is permanent *)

\* What a step does to the committed sales.
SalesKept ==
    \A c \in Checkouts : Committed(c) =>
        /\ sale'[c].number = sale[c].number
        /\ sale'[c].items = sale[c].items
        /\ sale[c].status # "COMPLETED" => sale'[c].status # "COMPLETED"
        /\ sale'[c].status # "NONE"

\* A checkout commits one sale, which is not there before.
LEMMA CheckoutStepKeepsSales ==
    ASSUME SalesInv, NEW c \in Checkouts, CheckoutStep(c)
    PROVE  SalesKept
  <1>1. CASE UNCHANGED sale
    BY <1>1 DEF SalesKept, Committed
  <1>2. CASE CheckoutCommit(c)
    <2>1. ~Committed(c)
      BY <1>2 DEF CheckoutCommit, SalesInv, CommittedOnce
    <2>2. \A d \in Checkouts \ {c} : sale'[d] = sale[d]
      BY <1>2 DEF CheckoutCommit, SalesInv, SalesTypeOK
    <2>. QED BY <2>1, <2>2 DEF SalesKept, Committed
  <1>. QED
    BY <1>1, <1>2
    DEF CheckoutStep, CheckoutRead, CheckoutBegin, NextNumber, CheckoutItem, CheckoutAbort

\* A sale update writes the status of a committed sale and nothing else of it.
LEMMA SaleUpdateStepKeepsSales ==
    ASSUME SalesInv, NEW u \in SaleUpdates, SaleUpdateStep(u)
    PROVE  SalesKept
  <1>1. CASE UNCHANGED sale
    BY <1>1 DEF SalesKept, Committed
  <1>2. CASE CancelCommit(u) \/ ReturnPartial(u)
    <2>. DEFINE s == saleUpdate[u].sale
    <2>1. s \in Checkouts /\ Committed(s) /\ sale \in [Checkouts -> SaleRow]
      BY <1>2 DEF CancelCommit, ReturnPartial, SalesInv, UpdatesLinked, SalesTypeOK
    <2>2. PICK status \in {"CANCELLED", "RETURNED_PARTIAL"} :
            sale' = [sale EXCEPT ![s].status = status]
      BY <1>2 DEF CancelCommit, ReturnPartial
    <2>3. /\ \A d \in Checkouts \ {s} : sale'[d] = sale[d]
          /\ sale'[s].status = status /\ sale'[s].number = sale[s].number
          /\ sale'[s].items = sale[s].items
      BY <2>1, <2>2 DEF SaleRow
    <2>. QED BY <2>1, <2>3 DEF SalesKept, Committed
  <1>. QED
    BY <1>1, <1>2
    DEF SaleUpdateStep, SaleUpdateRead, CancelReadItem, CancelWriteItem, CancelAbort

\* No step of any request changes a committed sale but for its status.
LEMMA StepKeepsSales ==
    ASSUME IInv, [Next]_vars
    PROVE  SalesKept
  <1>1. CASE UNCHANGED sale
    BY <1>1 DEF SalesKept, Committed
  <1>2. CASE Sell
    BY <1>2, CheckoutStepKeepsSales, SaleUpdateStepKeepsSales DEF Sell, SalesNext, IInv
  <1>. QED BY <1>1, <1>2 DEF Next, Maintain, Purchase, vars, saleVars

\* A sale never goes back to COMPLETED and keeps its number and items
\* (sales.service.ts:476-520: an update writes the status alone).
THEOREM SalesPermanent == Spec => SalesArePermanent
  <1>1. IInv /\ [Next]_vars =>
          [\A c \in Checkouts : Committed(c) =>
             /\ sale'[c].number = sale[c].number
             /\ sale'[c].items = sale[c].items
             /\ sale[c].status # "COMPLETED" => sale'[c].status # "COMPLETED"
             /\ sale'[c].status # "NONE"]_vars
    BY StepKeepsSales DEF SalesKept
  <1>. QED BY <1>1, SpecIInv, PTL DEF SalesArePermanent, Spec

---------------------------------------------------------------------------
(* What a step of one request leaves of the others' records *)

\* The movements another request logged stay in the table, or its rows stay held.
LEMMA LoggedFrame ==
    ASSUME NEW r, Moves(r), NEW q \in Requests, q # r, NEW state, state.log \in SUBSET Movement,
           Logged(q, state)
    PROVE  \A m \in state.log :
             m.by = q /\ (IF state.pc = "done" THEN m \in movements' ELSE lock'[m.product] = q)
  <1>1. q # NoOne /\ \A m \in state.log : m.product \in Products
    BY NoOneAssumption DEF Movement
  <1>. QED BY <1>1 DEF Moves, Logged

\* Another request's step keeps what a checkout logged.
LEMMA CheckoutFrame ==
    ASSUME SalesInv, NEW r, Moves(r), NEW c \in Checkouts, c # r, CheckoutLogged(c),
           checkout'[c] = checkout[c]
    PROVE  CheckoutLogged(c)'
  <1>1. c \in Requests /\ checkout[c].log \in SUBSET Movement
    BY SalesAssumption DEF SalesInv, SalesTypeOK, CheckoutState
  <1>2. Logged(c, checkout[c])'
    BY <1>1, LoggedFrame DEF CheckoutLogged, Logged
  <1>. QED BY <1>2 DEF CheckoutLogged

\* Another request's step keeps what a cancellation logged.
LEMMA ReturnFrame ==
    ASSUME SalesInv, NEW r, Moves(r), SalesKept, NEW u \in SaleUpdates, u # r, ReturnLogged(u),
           saleUpdate'[u] = saleUpdate[u]
    PROVE  ReturnLogged(u)'
  <1>. DEFINE q == saleUpdate[u]
  <1>1. u \in Requests /\ q.log \in SUBSET Movement
    BY SalesAssumption DEF SalesInv, SalesTypeOK, SaleUpdateState
  <1>2. Logged(u, q)'
    BY <1>1, LoggedFrame DEF ReturnLogged, Logged
  <1>3. q.pc \in {"cancel", "write"} \/ (q.pc = "done" /\ q.log # {}) =>
          q.sale \in Checkouts /\ Committed(q.sale)
    BY DEF SalesInv, UpdatesLinked, ReturnLogged, Committed
  <1>4. q.pc \in {"cancel", "write"} \/ (q.pc = "done" /\ q.log # {}) =>
          /\ sale'[q.sale].items = sale[q.sale].items
          /\ \A n : LinesBefore(q.sale, n)' = LinesBefore(q.sale, n)
          /\ sale[q.sale].status \notin {"NONE", "COMPLETED"} =>
               sale'[q.sale].status \notin {"NONE", "COMPLETED"}
    BY <1>3 DEF SalesKept, LinesBefore
  <1>. QED BY <1>2, <1>4 DEF ReturnLogged

\* Another request's step moves no product back to the version an edit saw.
LEMMA EditFrame ==
    ASSUME IInv, IInv', NEW r, Moves(r), NEW q \in ProductRequests, EditVersioned(q),
           productRequest'[q] = productRequest[q]
    PROVE  EditVersioned(q)'
  <1>1. ~At(q, "new") => Target(q) \in Products
    BY DEF IInv, CatalogInv, TargetsKnown
  <1>2. \A p \in Products : product[p].version \in Nat /\ product'[p].version \in Nat
    BY DEF IInv, RowsInv, RowsTypeOK, Row
  <1>3. productRequest[q].version \in Nat
    BY DEF IInv, CatalogInv, CatalogTypeOK, ProductRequestState
  <1>. QED BY <1>1, <1>2, <1>3 DEF EditVersioned, At, Target, Moves

\* Another request's step keeps what a receipt logged and the version it saw.
LEMMA ReceiptFrame ==
    ASSUME IInv, IInv', NEW r, Moves(r), NEW q \in Receipts, q # r,
           ReceiptLogged(q), ReceiptVersioned(q), receipt'[q] = receipt[q]
    PROVE  ReceiptLogged(q)' /\ ReceiptVersioned(q)'
  <1>1. /\ q \in Requests /\ receipt[q].log \in SUBSET Movement /\ q # NoOne
        /\ \A m \in receipt[q].log : m.product \in Products
    BY OrdersAssumption, NoOneAssumption
    DEF IInv, OrdersInv, OrdersTypeOK, ReceiptState, Movement
  <1>2. ReceiptLogged(q)'
    BY <1>1, LoggedFrame DEF ReceiptLogged, Logged
  <1>3. ASSUME NEW m \in receipt[q].log, m.line = Len(receipt[q].items),
               receipt[q].pc = "done"
        PROVE  receipt[q].version < product'[m.product].version
    <2>1. /\ product[m.product].version \in Nat /\ product'[m.product].version \in Nat
          /\ receipt[q].version \in Nat
      BY <1>1 DEF IInv, RowsInv, RowsTypeOK, Row, OrdersInv, OrdersTypeOK, ReceiptState
    <2>. QED BY <1>1, <1>3, <2>1 DEF ReceiptVersioned, Moves
  <1>4. ASSUME NEW m \in receipt[q].log, receipt[q].pc # "done"
        PROVE  product'[m.product] = product[m.product] /\ draft'[m.product] = draft[m.product]
    BY <1>1, <1>4 DEF ReceiptLogged, Logged, Moves
  <1>. QED BY <1>2, <1>3, <1>4 DEF ReceiptVersioned

---------------------------------------------------------------------------
(* What a step leaves of its own request's records *)

\* The movements of sold items stay, for the items do.
LEMMA SoldMovedKept ==
    ASSUME SoldMoved, NEW r, Moves(r),
           \A c \in Checkouts : \/ sale'[c].items = sale[c].items
                                \/ \A i \in DOMAIN sale'[c].items : \E m \in movements' :
                                       m.product = sale'[c].items[i].product
    PROVE  SoldMoved'
  BY DEF SoldMoved, Moves

\* A checkout logs the item it goes past, and its sale has the items it logged.
LEMMA CheckoutOwn ==
    ASSUME IInv, StockInv, NEW c \in Checkouts, CheckoutStep(c), Moves(c)
    PROVE  /\ CheckoutLogged(c)' /\ SoldMoved'
           /\ \A d \in Checkouts \ {c} : checkout'[d] = checkout[d]
           /\ \A m \in movements' \ movements : m.by = c
           /\ saleUpdate' = saleUpdate
  <1>1. /\ checkout \in [Checkouts -> CheckoutState] /\ sale \in [Checkouts -> SaleRow]
        /\ CheckoutLogged(c) /\ SoldMoved
    BY DEF IInv, SalesInv, SalesTypeOK, StockInv
  <1>2. checkout[c] \in CheckoutState
    BY <1>1
  <1>3. \A d \in Checkouts \ {c} : checkout'[d] = checkout[d]
    BY <1>1 DEF CheckoutStep, CheckoutRead, CheckoutBegin, NextNumber, CheckoutItem, CheckoutCommit,
                CheckoutAbort, CheckoutFails
  <1>4. saleUpdate' = saleUpdate
    BY DEF CheckoutStep, CheckoutRead, CheckoutBegin, NextNumber, CheckoutItem, CheckoutCommit,
           CheckoutAbort
  <1>5. CASE CheckoutRead(c)
    <2>1. /\ checkout'[c].log = checkout[c].log /\ checkout'[c].pc = "begin"
          /\ checkout'[c].line = 1 /\ \A i \in DOMAIN checkout'[c].items : i \in Nat /\ i >= 1
          /\ checkout[c].pc = "new"
      <3>1. PICK items \in Carts : checkout' = [checkout EXCEPT ![c] =
                                      [@ EXCEPT !.items = items, !.pc = "begin"]]
        BY <1>5 DEF CheckoutRead
      <3>2. \A i \in DOMAIN items : i \in Nat /\ i >= 1
        BY SalesAssumption
      <3>. QED BY <1>1, <1>2, <1>5, <3>1, <3>2 DEF CheckoutRead, CheckoutLogged, CheckoutState
    <2>2. UNCHANGED <<lock, movements, sale>>
      BY <1>5 DEF CheckoutRead, rowVars
    <2>3. CheckoutLogged(c)'
      BY <1>1, <2>1, <2>2 DEF CheckoutLogged, Logged
    <2>. QED BY <1>1, <1>3, <1>4, <2>2, <2>3, SoldMovedKept
  <1>6. CASE CheckoutBegin(c) \/ NextNumber(c)
    <2>1. /\ checkout'[c].log = checkout[c].log /\ checkout'[c].items = checkout[c].items
          /\ checkout'[c].line = checkout[c].line
          /\ checkout[c].pc \in {"begin", "number"} /\ checkout'[c].pc \in {"number", "items"}
      <3>1. CASE CheckoutBegin(c)
        BY <1>1, <1>2, <3>1 DEF CheckoutBegin, CheckoutState
      <3>2. CASE NextNumber(c)
        BY <1>1, <1>2, <3>2 DEF NextNumber, CheckoutState
      <3>. QED BY <1>6, <3>1, <3>2
    <2>2. UNCHANGED <<lock, movements, sale>>
      BY <1>6 DEF CheckoutBegin, NextNumber, rowVars
    <2>3. CheckoutLogged(c)'
      BY <1>1, <2>1, <2>2 DEF CheckoutLogged, Logged
    <2>. QED BY <1>1, <1>3, <1>4, <2>2, <2>3, SoldMovedKept
  <1>7. CASE CheckoutItem(c)
    <2>. DEFINE p == Item(c).product
                moved == SaleMovement(c, checkout[c].line, p, "SALE", -Item(c).quantity,
                                      Visible(c, p).stock, c)
    <2>1. /\ checkout'[c].log = checkout[c].log \cup {moved}
          /\ checkout'[c].items = checkout[c].items
          /\ checkout'[c].line = checkout[c].line + 1
          /\ checkout[c].pc = "items" /\ checkout'[c].pc = "items"
      BY <1>1, <1>2, <1>7 DEF CheckoutItem, CheckoutState
    <2>2. moved.by = c /\ moved.product = p
      BY DEF SaleMovement
    <2>3. p \in Products /\ checkout[c].line \in Nat /\ \A i \in DOMAIN checkout[c].items : i \in Nat
      <3>1. checkout[c].items \in Items /\ checkout[c].line \in Nat \ {0}
        BY <1>2 DEF CheckoutState
      <3>2. p \in Products
        BY <1>7, <3>1, ItemAt DEF CheckoutItem, ItemsLeft, Item
      <3>. QED BY <3>1, <3>2 DEF Items
    <2>4. /\ lock' = [lock EXCEPT ![p] = c] /\ UNCHANGED <<movements, sale>>
          /\ lock \in [Products -> Requests \cup {NoOne}]
      BY <1>7 DEF CheckoutItem, Stage, IInv, RowsInv, RowsTypeOK
    <2>. HIDE DEF moved
    <2>5. Logged(c, checkout[c])'
      BY <1>1, <2>1, <2>2, <2>3, <2>4 DEF CheckoutLogged, Logged
    <2>6. \A i \in DOMAIN checkout[c].items :
            i < checkout[c].line + 1 => i < checkout[c].line \/ i = checkout[c].line
      BY <2>3
    <2>7. ASSUME NEW i \in DOMAIN checkout[c].items, i < checkout[c].line + 1
          PROVE  \E m \in checkout'[c].log : m.product = checkout[c].items[i].product
      <3>1. CASE i < checkout[c].line
        BY <1>1, <2>1, <3>1 DEF CheckoutLogged
      <3>2. CASE i = checkout[c].line
        <4>1. moved.product = checkout[c].items[i].product
          BY <2>2, <3>2 DEF Item
        <4>. QED BY <2>1, <4>1
      <3>. QED BY <2>6, <2>7, <3>1, <3>2
    <2>8. CheckoutLogged(c)'
      BY <2>1, <2>5, <2>7 DEF CheckoutLogged
    <2>. QED BY <1>1, <1>3, <1>4, <2>4, <2>8, SoldMovedKept
  <1>8. CASE CheckoutCommit(c)
    <2>1. /\ checkout'[c].log = checkout[c].log /\ checkout'[c].items = checkout[c].items
          /\ checkout'[c].line = checkout[c].line
          /\ checkout[c].pc = "items" /\ checkout'[c].pc = "done"
      BY <1>1, <1>2, <1>8 DEF CheckoutCommit, CheckoutState
    <2>2. /\ movements' = movements \cup checkout[c].log
          /\ \A m \in checkout[c].log : m.by = c
      BY <1>1, <1>8 DEF CheckoutCommit, CheckoutLogged, Logged
    <2>3. CheckoutLogged(c)'
      BY <1>1, <2>1, <2>2 DEF CheckoutLogged, Logged
    <2>4. \A i \in DOMAIN checkout[c].items : i < checkout[c].line
      <3>1. checkout[c].items \in Items /\ checkout[c].line \in Nat
        BY <1>2 DEF CheckoutState
      <3>. QED BY <1>8, <3>1 DEF CheckoutCommit, ItemsLeft, Items
    <2>5. /\ sale'[c].items = checkout[c].items
          /\ \A d \in Checkouts \ {c} : sale'[d].items = sale[d].items
      BY <1>1, <1>8 DEF CheckoutCommit
    <2>6. SoldMoved'
      BY <1>1, <2>1, <2>2, <2>4, <2>5, SoldMovedKept DEF CheckoutLogged
    <2>. QED BY <1>3, <1>4, <2>2, <2>3, <2>6
  <1>9. CASE CheckoutAbort(c)
    <2>1. checkout'[c].log = {} /\ checkout'[c].pc = "failed"
      BY <1>1, <1>2, <1>9 DEF CheckoutAbort, CheckoutFails, CheckoutState
    <2>2. UNCHANGED <<movements, sale>>
      BY <1>9 DEF CheckoutAbort
    <2>3. CheckoutLogged(c)'
      BY <2>1 DEF CheckoutLogged, Logged
    <2>. QED BY <1>1, <1>3, <1>4, <2>2, <2>3, SoldMovedKept
  <1>. QED BY <1>5, <1>6, <1>7, <1>8, <1>9 DEF CheckoutStep

\* A line that a cancellation gives back joins those before it.
LEMMA LinesBeforeNext ==
    ASSUME NEW s, NEW n \in Nat \ {0}
    PROVE  LinesBefore(s, n + 1) =
           LinesBefore(s, n) \cup {<<n, sale[s].items[n].product, sale[s].items[n].quantity>>}
  <1>1. 1..(n + 1 - 1) = 1..(n - 1) \cup {n}
    OBVIOUS
  <1>. QED BY <1>1 DEF LinesBefore

\* A sale update moves nothing before it commits.
LEMMA ReturnsMovedKept ==
    ASSUME StockInv, NEW u \in SaleUpdates, saleUpdate[u].pc # "done",
           \A v \in SaleUpdates \ {u} : saleUpdate'[v] = saleUpdate[v],
           \A m \in movements' \ movements :
               m.by = u /\ saleUpdate'[u].pc = "done" /\ m \in saleUpdate'[u].log
    PROVE  ReturnsMoved'
  BY DEF StockInv, ReturnsMoved

\* A cancellation logs the line it goes past, and ends past all of them.
LEMMA SaleUpdateOwn ==
    ASSUME IInv, StockInv, NEW u \in SaleUpdates, SaleUpdateStep(u), Moves(u)
    PROVE  /\ ReturnLogged(u)' /\ ReturnsMoved' /\ SoldMoved'
           /\ \A v \in SaleUpdates \ {u} : saleUpdate'[v] = saleUpdate[v]
           /\ \A m \in movements' \ movements : m.by = u
           /\ checkout' = checkout
  <1>1. /\ saleUpdate \in [SaleUpdates -> SaleUpdateState] /\ sale \in [Checkouts -> SaleRow]
        /\ ReturnLogged(u) /\ SoldMoved /\ SalesInv
    BY DEF IInv, SalesInv, SalesTypeOK, StockInv
  <1>2. saleUpdate[u] \in SaleUpdateState
    BY <1>1
  <1>3. /\ \A v \in SaleUpdates \ {u} : saleUpdate'[v] = saleUpdate[v]
        /\ checkout' = checkout
        /\ saleUpdate[u].pc # "done"
    BY <1>1
    DEF SaleUpdateStep, SaleUpdateRead, CancelReadItem, CancelWriteItem, CancelCommit, CancelAbort,
        ReturnPartial
  <1>4. SoldMoved'
    <2>1. \A c \in Checkouts : sale'[c].items = sale[c].items
      <3>1. \/ UNCHANGED sale
            \/ sale' = [sale EXCEPT ![saleUpdate[u].sale].status = "CANCELLED"]
            \/ sale' = [sale EXCEPT ![saleUpdate[u].sale].status = "RETURNED_PARTIAL"]
        BY DEF SaleUpdateStep, SaleUpdateRead, CancelReadItem, CancelWriteItem, CancelCommit,
               CancelAbort, ReturnPartial
      <3>. QED BY <1>1, <3>1 DEF SaleRow
    <2>. QED BY <1>1, <2>1, SoldMovedKept
  <1>5. CASE SaleUpdateRead(u)
    <2>1. PICK s \in Checkouts, next \in {"cancel", "return"} :
            saleUpdate' = [saleUpdate EXCEPT ![u] = [@ EXCEPT !.sale = s, !.pc = next]]
      BY <1>5 DEF SaleUpdateRead
    <2>2. saleUpdate[u].log = {} /\ saleUpdate[u].line = 1
      BY <1>1, <1>5 DEF SaleUpdateRead, ReturnLogged
    <2>3. /\ saleUpdate'[u].log = {} /\ saleUpdate'[u].line = 1
          /\ saleUpdate'[u].pc = next /\ saleUpdate'[u].sale = s
      BY <1>1, <1>2, <2>1, <2>2 DEF SaleUpdateState
    <2>4. UNCHANGED <<movements, sale>>
      BY <1>5 DEF SaleUpdateRead, rowVars
    <2>5. sale[s].items \in Items
      BY <1>1 DEF SaleRow
    <2>6. Len(sale[s].items) \in Nat
      BY <2>5 DEF Items
    <2>7. LinesBefore(s, 1) = {} /\ 1 <= Len(sale[s].items) + 1
      <3>1. 1..(1 - 1) = {}
        OBVIOUS
      <3>. QED BY <2>6, <3>1 DEF LinesBefore
    <2>8. LinesBefore(s, 1)' = {}
      BY <2>4, <2>7 DEF LinesBefore
    <2>9. ReturnLogged(u)'
      BY <2>3, <2>4, <2>7, <2>8 DEF ReturnLogged, Logged
    <2>. QED BY <1>3, <1>4, <2>4, <2>9, ReturnsMovedKept
  <1>6. CASE CancelReadItem(u)
    <2>1. /\ saleUpdate'[u].log = saleUpdate[u].log /\ saleUpdate'[u].line = saleUpdate[u].line
          /\ saleUpdate'[u].pc = "write" /\ saleUpdate'[u].sale = saleUpdate[u].sale
          /\ saleUpdate[u].pc = "cancel"
      BY <1>1, <1>2, <1>6 DEF CancelReadItem, SaleUpdateState
    <2>2. UNCHANGED <<lock, movements, sale>>
      BY <1>6 DEF CancelReadItem, rowVars
    <2>3. LinesBefore(saleUpdate[u].sale, saleUpdate[u].line)' =
          LinesBefore(saleUpdate[u].sale, saleUpdate[u].line)
      BY <2>1, <2>2 DEF LinesBefore
    <2>4. ReturnLogged(u)'
      BY <1>1, <2>1, <2>2, <2>3 DEF ReturnLogged, Logged
    <2>. QED BY <1>3, <1>4, <2>2, <2>4, ReturnsMovedKept
  <1>7. CASE CancelWriteItem(u)
    <2>0. PICK s \in Checkouts, n \in Nat \ {0} :
            /\ s = saleUpdate[u].sale /\ n = saleUpdate[u].line
            /\ sale[s].items \in Items /\ n <= Len(sale[s].items)
      BY <1>1, <1>2, <1>7 DEF CancelWriteItem, SaleUpdateState, SalesInv, UpdatesLinked, SaleRow
    <2>1. PICK moved :
            /\ s = saleUpdate[u].sale /\ n = saleUpdate[u].line
            /\ sale[s].items \in Items /\ n <= Len(sale[s].items)
            /\ moved = SaleMovement(u, n, Returned(u).product, "RETURN", Returned(u).quantity,
                                    saleUpdate[u].previousStock, s)
      BY <2>0
    <2>2. /\ saleUpdate'[u].log = saleUpdate[u].log \cup {moved}
          /\ saleUpdate'[u].line = n + 1
          /\ saleUpdate'[u].pc = "cancel" /\ saleUpdate'[u].sale = s
          /\ saleUpdate[u].pc = "write"
      BY <1>1, <1>2, <1>7, <2>1 DEF CancelWriteItem, SaleUpdateState
    <2>3. /\ moved.by = u /\ moved.sale = s /\ moved.type = "RETURN" /\ moved.line = n
          /\ moved.product = sale[s].items[n].product
          /\ moved.quantity = sale[s].items[n].quantity
      BY <2>1 DEF SaleMovement, Returned
    <2>4. moved.product \in Products
      BY <2>1, <2>3, ItemAt
    <2>5. /\ lock' = [lock EXCEPT ![moved.product] = u] /\ UNCHANGED <<movements, sale>>
          /\ lock \in [Products -> Requests \cup {NoOne}]
      BY <1>7, <2>1, <2>3 DEF CancelWriteItem, Stage, IInv, RowsInv, RowsTypeOK, Returned
    <2>6. Logged(u, saleUpdate[u])'
      BY <1>1, <2>2, <2>3, <2>4, <2>5 DEF ReturnLogged, Logged
    <2>7. {<<m.line, m.product, m.quantity>> : m \in saleUpdate[u].log \cup {moved}} =
          LinesBefore(s, n + 1)
      <3>1. {<<m.line, m.product, m.quantity>> : m \in saleUpdate[u].log} = LinesBefore(s, n)
        BY <1>1, <2>1, <2>2 DEF ReturnLogged
      <3>2. {<<m.line, m.product, m.quantity>> : m \in saleUpdate[u].log \cup {moved}} =
            LinesBefore(s, n) \cup {<<moved.line, moved.product, moved.quantity>>}
        BY <3>1
      <3>3. LinesBefore(s, n + 1) =
            LinesBefore(s, n) \cup {<<n, sale[s].items[n].product, sale[s].items[n].quantity>>}
        BY LinesBeforeNext
      <3>. QED BY <2>3, <3>2, <3>3
    <2>8. LinesBefore(s, n + 1)' = LinesBefore(s, n + 1)
      BY <2>5 DEF LinesBefore
    <2>9. n + 1 <= Len(sale[s].items) + 1
      BY <2>1 DEF Items
    <2>10. \A m \in saleUpdate'[u].log : m.sale = s /\ m.type = "RETURN"
      BY <1>1, <2>1, <2>2, <2>3 DEF ReturnLogged
    <2>11. ReturnLogged(u)'
      BY <2>2, <2>5, <2>6, <2>7, <2>8, <2>9, <2>10 DEF ReturnLogged
    <2>. QED BY <1>3, <1>4, <2>5, <2>11, ReturnsMovedKept
  <1>8. CASE CancelCommit(u)
    <2>. DEFINE s == saleUpdate[u].sale
                n == saleUpdate[u].line
    <2>1. /\ saleUpdate'[u].log = saleUpdate[u].log /\ saleUpdate'[u].line = n
          /\ saleUpdate'[u].pc = "done" /\ saleUpdate'[u].sale = s
          /\ saleUpdate[u].pc = "cancel"
      BY <1>1, <1>2, <1>8 DEF CancelCommit, SaleUpdateState
    <2>2. /\ s \in Checkouts /\ sale[s].items \in Items /\ n \in Nat
      BY <1>1, <1>2, <2>1 DEF SaleUpdateState, SalesInv, UpdatesLinked, SaleRow
    <2>3. n = Len(sale[s].items) + 1
      BY <1>1, <1>8, <2>1, <2>2 DEF CancelCommit, ReturnsLeft, ReturnLogged, Items
    <2>4. /\ movements' = movements \cup saleUpdate[u].log
          /\ \A m \in saleUpdate[u].log : m.by = u
      BY <1>1, <1>8 DEF CancelCommit, ReturnLogged, Logged
    <2>5. sale'[s].status = "CANCELLED" /\ sale'[s].items = sale[s].items
      BY <1>1, <1>8, <2>2 DEF CancelCommit, SaleRow
    <2>6. LinesBefore(s, Len(sale[s].items) + 1)' = LinesBefore(s, n)
      BY <2>1, <2>3, <2>5 DEF LinesBefore
    <2>7. {<<m.line, m.product, m.quantity>> : m \in saleUpdate[u].log} = LinesBefore(s, n)
      BY <1>1, <2>1 DEF ReturnLogged
    <2>8. Logged(u, saleUpdate[u])'
      BY <2>1, <2>4 DEF Logged
    <2>9. \A m \in saleUpdate[u].log : m.sale = s /\ m.type = "RETURN"
      BY <1>1 DEF ReturnLogged
    <2>10. ReturnLogged(u)'
      BY <2>1, <2>2, <2>5, <2>6, <2>7, <2>8, <2>9 DEF ReturnLogged
    <2>11. ReturnsMoved'
      BY <1>3, <2>1, <2>4, ReturnsMovedKept
    <2>. QED BY <1>3, <1>4, <2>4, <2>10, <2>11
  <1>9. CASE CancelAbort(u)
    <2>1. saleUpdate'[u].log = {} /\ saleUpdate'[u].pc = "failed"
      BY <1>1, <1>2, <1>9 DEF CancelAbort, SaleUpdateState
    <2>2. UNCHANGED <<movements, sale>>
      BY <1>9 DEF CancelAbort
    <2>3. ReturnLogged(u)'
      BY <2>1 DEF ReturnLogged, Logged
    <2>. QED BY <1>3, <1>4, <2>2, <2>3, ReturnsMovedKept
  <1>10. CASE ReturnPartial(u)
    <2>1. saleUpdate'[u].log = {} /\ saleUpdate'[u].pc = "done"
      BY <1>1, <1>2, <1>10 DEF ReturnPartial, ReturnLogged, SaleUpdateState
    <2>2. movements' = movements
      BY <1>10 DEF ReturnPartial, rowVars
    <2>3. ReturnLogged(u)'
      BY <2>1 DEF ReturnLogged, Logged
    <2>. QED BY <1>3, <1>4, <2>2, <2>3, ReturnsMovedKept
  <1>. QED BY <1>5, <1>6, <1>7, <1>8, <1>9, <1>10 DEF SaleUpdateStep

\* What a catalog request is about never changes once it read it; an edit that
\* wrote moved the version of its product on.
LEMMA EditOwn ==
    ASSUME IInv, StockInv, NEW r \in ProductRequests, ProductStep(r, OrderedProducts), Moves(r)
    PROVE  /\ EditVersioned(r)'
           /\ \A q \in ProductRequests \ {r} : productRequest'[q] = productRequest[q]
           /\ \A m \in movements' \ movements : m.by = r
           /\ \/ UpdateWrite(r)
              \/ /\ productRequest'[r].wrote = productRequest[r].wrote
                 /\ productRequest[r].wrote =>
                      /\ productRequest'[r].product = productRequest[r].product
                      /\ productRequest'[r].version = productRequest[r].version
  <1>1. /\ productRequest \in [ProductRequests -> ProductRequestState] /\ EditVersioned(r)
        /\ \A p \in Products : product[p] \in Row
        /\ ~At(r, "new") => Target(r) \in Products
    BY DEF IInv, CatalogInv, CatalogTypeOK, TargetsKnown, RowsInv, RowsTypeOK, StockInv
  <1>2. productRequest[r] \in ProductRequestState
    BY <1>1
  <1>3. CASE UpdateWrite(r)
    <2>. DEFINE p == Target(r)
    <2>1. /\ productRequest'[r].pc = "reread" /\ productRequest'[r].product = p
          /\ productRequest'[r].version = productRequest[r].version
          /\ \A q \in ProductRequests \ {r} : productRequest'[q] = productRequest[q]
      BY <1>1, <1>2, <1>3 DEF UpdateWrite, ProductRequestState, Target
    <2>2. /\ p \in Products /\ product[p].version = productRequest[r].version
          /\ product' = [product EXCEPT ![p] =
                [Updated(product[p], productRequest[r].dto) EXCEPT !.writer = r]]
          /\ product \in [Products -> Row] /\ movements' = movements
      BY <1>1, <1>3 DEF UpdateWrite, NotModified, WriteNow, At, IInv, RowsInv, RowsTypeOK
    <2>3. product'[p].version = product[p].version + 1 /\ product[p].version \in Nat
      BY <2>2 DEF Updated, Row
    <2>4. EditVersioned(r)'
      BY <2>1, <2>2, <2>3 DEF EditVersioned, At, Target
    <2>. QED BY <1>3, <2>1, <2>2, <2>4
  <1>4. CASE CreateInsert(r) \/ UpdateRead(r) \/ DeactivateRead(r) \/ ReactivateRead(r)
             \/ RemoveRead(r)
    <2>1. /\ At(r, "new") /\ movements' = movements
          /\ \A q \in ProductRequests \ {r} : productRequest'[q] = productRequest[q]
      BY <1>1, <1>4 DEF CreateInsert, UpdateRead, DeactivateRead, ReactivateRead, RemoveRead, Read,
                        rowVars
    <2>2. ~productRequest[r].wrote
      BY <1>1, <1>2, <2>1 DEF EditVersioned, ProductRequestState
    <2>3. productRequest'[r].wrote = productRequest[r].wrote
      <3>1. CASE CreateInsert(r)
        BY <1>1, <1>2, <3>1 DEF CreateInsert, ProductRequestState
      <3>2. CASE UpdateRead(r)
        BY <1>1, <1>2, <3>2 DEF UpdateRead, ProductRequestState
      <3>3. CASE DeactivateRead(r) \/ ReactivateRead(r) \/ RemoveRead(r)
        <4>1. PICK pc, p : productRequest' = [productRequest EXCEPT ![r] =
                                                [@ EXCEPT !.pc = pc, !.product = p]]
          BY <3>3 DEF DeactivateRead, ReactivateRead, RemoveRead, Read
        <4>. QED BY <1>1, <1>2, <4>1 DEF ProductRequestState
      <3>. QED BY <1>4, <3>1, <3>2, <3>3
    <2>. QED BY <2>1, <2>2, <2>3 DEF EditVersioned
  <1>5. CASE \/ CreateMovement(r) \/ UpdateConflict(r) \/ UpdateReread(r) \/ UpdateMovement(r)
             \/ SetActive(r) \/ RemoveWrite(r, OrderedProducts) \/ Interrupted(r)
    <2>1. PICK pc \in {"done", "failed", "movement"} : GoTo(r, pc)
      BY <1>5 DEF CreateMovement, UpdateConflict, UpdateReread, UpdateMovement, SetActive,
                  RemoveWrite, Interrupted, RecordMovement
    <2>2. /\ productRequest'[r].pc = pc /\ productRequest'[r].wrote = productRequest[r].wrote
          /\ productRequest'[r].product = productRequest[r].product
          /\ productRequest'[r].version = productRequest[r].version
          /\ \A q \in ProductRequests \ {r} : productRequest'[q] = productRequest[q]
      BY <1>1, <1>2, <2>1 DEF GoTo, ProductRequestState
    <2>3. \A m \in movements' \ movements : m.by = r
      BY <1>5 DEF CreateMovement, UpdateConflict, UpdateReread, UpdateMovement, SetActive,
                  RemoveWrite, Interrupted, RecordMovement, StockMovement, rowVars
    <2>4. ~At(r, "new")
      BY <1>5 DEF CreateMovement, UpdateConflict, UpdateReread, UpdateMovement, SetActive,
                  RemoveWrite, Interrupted, At
    <2>5. \A p \in Products : product'[p].version \in Int /\ product[p].version \in Int
      <3>1. \A p \in Products : product'[p] \in Row
        BY ProductStepInv DEF IInv, RowsInv, RowsTypeOK
      <3>. QED BY <1>1, <3>1 DEF Row
    <2>6. EditVersioned(r)'
      <3>1. productRequest[r].version \in Int
        BY <1>2 DEF ProductRequestState
      <3>. QED BY <1>1, <2>2, <2>4, <2>5, <3>1 DEF EditVersioned, At, Target, Moves
    <2>. QED BY <2>2, <2>3, <2>6
  <1>. QED BY <1>3, <1>4, <1>5 DEF ProductStep

\* A receipt logs the lines it went past; the last one it wrote it will commit, at
\* a version that nobody else wrote from, for it holds the row.
LEMMA ReceiptOwn ==
    ASSUME IInv, StockInv, NEW r \in Receipts, ReceiptStep(r)
    PROVE  /\ ReceiptLogged(r)' /\ ReceiptVersioned(r)'
           /\ \A q \in Receipts \ {r} : receipt'[q] = receipt[q]
           /\ \A m \in movements' \ movements : m.by = r
           /\ \/ ReceiveCommit(r)
              \/ receipt[r].pc # "done" /\ receipt'[r].pc # "done"
  <1>1. /\ receipt \in [Receipts -> ReceiptState] /\ ReceiptLogged(r) /\ ReceiptVersioned(r)
        /\ product \in [Products -> Row] /\ draft \in [Products -> Row]
        /\ lock \in [Products -> Requests \cup {NoOne}]
        /\ r \in Requests /\ r # NoOne /\ RowsKept
    BY OrdersAssumption, NoOneAssumption
    DEF IInv, OrdersInv, OrdersTypeOK, RowsInv, RowsTypeOK, StockInv
  <1>2. receipt[r] \in ReceiptState
    BY <1>1
  <1>3. \A q \in Receipts \ {r} : receipt'[q] = receipt[q]
    BY <1>1 DEF ReceiptStep, ReceiveRead, ReceiveItem, ReceiveProduct, ReceiveWrite, ReceiveRefresh,
                ReceiveCommit, ReceiveAbort
  <1>4. \A m \in receipt[r].log : m.product \in Products /\ m.line \in Nat
    BY <1>2 DEF ReceiptState, Movement
  <1>5. CASE ReceiveRead(r)
    <2>1. PICK o, list : receipt' = [receipt EXCEPT ![r] = [@ EXCEPT !.pc = "item", !.order = o,
                                                                    !.items = list]]
      BY <1>5 DEF ReceiveRead
    <2>2. receipt[r].log = {}
      BY <1>1, <1>5 DEF ReceiveRead, ReceiptLogged
    <2>3. receipt'[r].log = {} /\ receipt'[r].pc = "item" /\ receipt[r].pc = "new"
      BY <1>1, <1>2, <1>5, <2>1, <2>2 DEF ReceiveRead, ReceiptState
    <2>. QED
      BY <1>3, <1>5, <2>3 DEF ReceiveRead, rowVars, ReceiptLogged, Logged, ReceiptVersioned
  <1>6. CASE ReceiveItem(r) \/ ReceiveProduct(r) \/ ReceiveRefresh(r)
    <2>1. /\ receipt'[r].log = receipt[r].log /\ receipt'[r].line = receipt[r].line
          /\ receipt'[r].items = receipt[r].items
          /\ receipt[r].pc # "done" /\ receipt'[r].pc \notin {"new", "done"}
          /\ UNCHANGED rowVars
      <3>1. CASE ReceiveItem(r)
        BY <1>1, <1>2, <3>1 DEF ReceiveItem, ReceiptState
      <3>2. CASE ReceiveProduct(r)
        BY <1>1, <1>2, <3>2 DEF ReceiveProduct, ReceiptState
      <3>3. CASE ReceiveRefresh(r)
        BY <1>1, <1>2, <3>3 DEF ReceiveRefresh, ReceiptState
      <3>. QED BY <1>6, <3>1, <3>2, <3>3
    <2>2. ReceiptLogged(r)'
      BY <1>1, <2>1 DEF ReceiptLogged, Logged, rowVars
    \* The version changes only while a line is left to write: then no movement is the last.
    <2>3. receipt'[r].version = receipt[r].version \/ ReceiptLinesLeft(r)
      <3>1. CASE ReceiveItem(r)
        BY <1>1, <1>2, <3>1 DEF ReceiveItem, ReceiptState
      <3>2. CASE ReceiveProduct(r)
        BY <3>2 DEF ReceiveProduct, IInv, OrdersInv, ReceiptsLinked
      <3>3. CASE ReceiveRefresh(r)
        BY <1>1, <1>2, <3>3 DEF ReceiveRefresh, ReceiptState
      <3>. QED BY <1>6, <3>1, <3>2, <3>3
    <2>4. ASSUME ReceiptLinesLeft(r), NEW m \in receipt[r].log
          PROVE  m.line # Len(receipt[r].items)
      <3>1. /\ m.line \in Nat /\ receipt[r].line \in Nat /\ Len(receipt[r].items) \in Nat
            /\ m.line < receipt[r].line
        BY <1>1, <1>2, <1>4 DEF ReceiptVersioned, ReceiptState
      <3>. QED BY <2>4, <3>1 DEF ReceiptLinesLeft
    <2>5. ReceiptVersioned(r)'
      <3>1. CASE receipt'[r].version = receipt[r].version
        BY <1>1, <2>1, <3>1 DEF ReceiptVersioned, rowVars
      <3>2. CASE ReceiptLinesLeft(r)
        BY <1>1, <2>1, <2>4, <3>2 DEF ReceiptVersioned
      <3>. QED BY <2>3, <3>1, <3>2
    <2>. QED BY <1>3, <2>1, <2>2, <2>5 DEF rowVars
  <1>7. CASE ReceiveWrite(r)
    <2>1. PICK p, row, moved :
            /\ p \in Products /\ row \in Row
            /\ moved.by = r /\ moved.line = receipt[r].line /\ moved.product = p
            /\ Stage(r, p, row) /\ UNCHANGED <<product, movements>>
            /\ row.version = receipt[r].version + 1
            /\ product[p].version <= receipt[r].version
            /\ receipt' = [receipt EXCEPT ![r] =
                  [@ EXCEPT !.pc = "item",
                            !.line = receipt[r].line + 1,
                            !.log = receipt[r].log \cup {moved}]]
      <3>. DEFINE p == ItemRow(Received(r).item).product
                  row == Restocked(r, Visible(r, p))
                  moved == [by |-> r, line |-> receipt[r].line, product |-> p,
                            type |-> "PURCHASE", quantity |-> Received(r).quantity,
                            previousStock |-> receipt[r].previousStock,
                            newStock |-> receipt[r].previousStock + Received(r).quantity,
                            sale |-> NoOne]
      <3>1. /\ p \in Products /\ Stage(r, p, row) /\ UNCHANGED <<product, movements>>
            /\ row \in Row /\ row.version = receipt[r].version + 1
            /\ product[p].version <= receipt[r].version
        BY <1>7, ReceiptWrites
      <3>2. receipt' = [receipt EXCEPT ![r] =
              [@ EXCEPT !.pc = "item",
                        !.line = receipt[r].line + 1,
                        !.log = receipt[r].log \cup {moved}]]
        BY <1>7 DEF ReceiveWrite
      <3>3. moved.by = r /\ moved.line = receipt[r].line /\ moved.product = p
        OBVIOUS
      <3>. HIDE DEF moved, row, p
      <3>. QED BY <3>1, <3>2, <3>3
    <2>2. /\ receipt'[r].log = receipt[r].log \cup {moved}
          /\ receipt'[r].line = receipt[r].line + 1
          /\ receipt'[r].items = receipt[r].items
          /\ receipt'[r].version = receipt[r].version
          /\ receipt[r].pc = "write" /\ receipt'[r].pc = "item"
      <3>1. receipt[r].pc = "write"
        BY <1>7 DEF ReceiveWrite
      <3>. QED BY <1>1, <1>2, <2>1, <3>1 DEF ReceiptState
    <2>3. /\ lock' = [lock EXCEPT ![p] = r]
          /\ draft' = [draft EXCEPT ![p] = [row EXCEPT !.writer = r]]
      BY <2>1 DEF Stage
    <2>4. draft'[p].version = receipt[r].version + 1
      BY <1>1, <2>1, <2>3 DEF Row
    <2>5. ReceiptLogged(r)'
      BY <1>1, <1>4, <2>1, <2>2, <2>3 DEF ReceiptLogged, Logged
    <2>6. /\ receipt[r].line \in Nat /\ Len(receipt[r].items) \in Nat
          /\ receipt[r].line <= Len(receipt[r].items)
          /\ product[p].version \in Nat /\ receipt[r].version \in Nat
      <3>1. receipt[r].line <= Len(receipt[r].items)
        BY <2>2 DEF IInv, OrdersInv, ReceiptsLinked, ReceiptLinesLeft
      <3>2. product[p] \in Row
        BY <1>1, <2>1
      <3>3. /\ receipt[r].line \in Nat /\ receipt[r].version \in Nat
            /\ receipt[r].items \in Seq(ReceiptLine)
        BY <1>2 DEF ReceiptState
      <3>. QED BY <3>1, <3>2, <3>3 DEF Row
    \* Earlier lines are before the last one.
    <2>7. ASSUME NEW m \in receipt[r].log
          PROVE  m.line < receipt[r].line + 1 /\ m.line # Len(receipt[r].items)
      BY <1>1, <1>4, <2>6 DEF ReceiptVersioned
    <2>8. ReceiptVersioned(r)'
      <3>1. ASSUME NEW m \in receipt'[r].log
            PROVE  /\ m.line < receipt'[r].line
                   /\ m.line = Len(receipt'[r].items) =>
                        product'[m.product].version <= receipt'[r].version
                        /\ receipt'[r].version < draft'[m.product].version
        <4>1. CASE m \in receipt[r].log
          BY <2>2, <2>7, <4>1
        <4>2. CASE m = moved
          BY <2>1, <2>2, <2>4, <2>6, <4>2
        <4>. QED BY <2>2, <4>1, <4>2
      <3>. QED BY <2>2, <3>1 DEF ReceiptVersioned
    <2>. QED BY <1>3, <2>1, <2>2, <2>5, <2>8
  <1>8. CASE ReceiveCommit(r)
    <2>1. /\ receipt'[r].log = receipt[r].log /\ receipt'[r].line = receipt[r].line
          /\ receipt'[r].items = receipt[r].items
          /\ receipt'[r].version = receipt[r].version
          /\ receipt[r].pc = "status" /\ receipt'[r].pc = "done"
      BY <1>1, <1>2, <1>8 DEF ReceiveCommit, ReceiptState
    <2>2. /\ movements' = movements \cup receipt[r].log
          /\ \A p \in Products : lock[p] = r => product'[p] = draft[p]
      BY <1>8 DEF ReceiveCommit, CommitRows
    <2>3. \A m \in receipt[r].log : m.by = r /\ lock[m.product] = r
      BY <1>1, <2>1 DEF ReceiptLogged, Logged
    <2>4. ReceiptLogged(r)'
      BY <2>1, <2>2, <2>3 DEF ReceiptLogged, Logged
    <2>5. ReceiptVersioned(r)'
      BY <1>1, <1>4, <2>1, <2>2, <2>3 DEF ReceiptVersioned
    <2>. QED BY <1>3, <1>8, <2>2, <2>3, <2>4, <2>5
  <1>9. CASE ReceiveAbort(r)
    <2>1. receipt'[r].log = {} /\ receipt'[r].pc = "failed" /\ receipt[r].pc # "done"
      BY <1>1, <1>2, <1>9 DEF ReceiveAbort, ReceiptState
    <2>. QED
      BY <1>3, <1>9, <2>1 DEF ReceiveAbort, ReceiptLogged, Logged, ReceiptVersioned
  <1>. QED BY <1>5, <1>6, <1>7, <1>8, <1>9 DEF ReceiptStep

---------------------------------------------------------------------------
(* Guarded writes *)

\* A guarded write is an edit that wrote or the last line of a receipt that is done.
LEMMA GuardedCases ==
    ASSUME NEW w
    PROVE  w \in GuardedWrites <=>
             \/ \E r \in ProductRequests :
                  productRequest[r].wrote /\ w = <<r, Target(r), productRequest[r].version>>
             \/ \E r \in Receipts : \E m \in receipt[r].log :
                  /\ receipt[r].pc = "done" /\ m.line = Len(receipt[r].items)
                  /\ w = <<r, m.product, receipt[r].version>>
  BY DEF GuardedWrites

\* The product of a guarded write is past the version it was written from.
LEMMA WritesPassed ==
    ASSUME IInv, StockInv, NEW w \in GuardedWrites
    PROVE  /\ w[2] \in Products /\ w[3] \in Nat
           /\ product[w[2]].version \in Nat /\ w[3] < product[w[2]].version
  <1>1. \A p \in Products : product[p].version \in Nat
    BY DEF IInv, RowsInv, RowsTypeOK, Row
  <1>2. CASE \E r \in ProductRequests :
               productRequest[r].wrote /\ w = <<r, Target(r), productRequest[r].version>>
    <2>1. PICK r \in ProductRequests :
            productRequest[r].wrote /\ w = <<r, Target(r), productRequest[r].version>>
      BY <1>2
    <2>2. ~At(r, "new") /\ productRequest[r].version < product[Target(r)].version
      BY <2>1 DEF StockInv, EditVersioned
    <2>3. Target(r) \in Products /\ productRequest[r].version \in Nat
      BY <2>2 DEF IInv, CatalogInv, TargetsKnown, CatalogTypeOK, ProductRequestState
    <2>. QED BY <1>1, <2>1, <2>2, <2>3
  <1>3. CASE \E r \in Receipts : \E m \in receipt[r].log :
               /\ receipt[r].pc = "done" /\ m.line = Len(receipt[r].items)
               /\ w = <<r, m.product, receipt[r].version>>
    <2>1. PICK r \in Receipts : \E m \in receipt[r].log :
            /\ receipt[r].pc = "done" /\ m.line = Len(receipt[r].items)
            /\ w = <<r, m.product, receipt[r].version>>
      BY <1>3
    <2>2. PICK m \in receipt[r].log :
            /\ receipt[r].pc = "done" /\ m.line = Len(receipt[r].items)
            /\ w = <<r, m.product, receipt[r].version>>
      BY <2>1
    <2>3. receipt[r].version < product[m.product].version
      BY <2>2 DEF StockInv, ReceiptVersioned
    <2>4. m.product \in Products /\ receipt[r].version \in Nat
      BY DEF IInv, OrdersInv, OrdersTypeOK, ReceiptState, Movement
    <2>. QED BY <1>1, <2>2, <2>3, <2>4
  <1>. QED BY <1>2, <1>3, GuardedCases

\* A write from a version that is not older than the committed one joins no other.
LEMMA OneWriteKept ==
    ASSUME IInv, StockInv, NEW r, NEW v \in Nat, NEW S \in SUBSET Products,
           \A p \in S : product[p].version <= v,
           \A w \in GuardedWrites' : w \in GuardedWrites \/ \E p \in S : w = <<r, p, v>>
    PROVE  OneWritePerVersion'
  <1>. SUFFICES ASSUME NEW a \in GuardedWrites', NEW b \in GuardedWrites', a # b, a[2] = b[2]
                PROVE  a[3] # b[3]
    BY DEF OneWritePerVersion
  <1>1. CASE a \in GuardedWrites /\ b \in GuardedWrites
    BY <1>1 DEF StockInv, OneWritePerVersion
  <1>2. CASE a \in GuardedWrites /\ b \notin GuardedWrites
    <2>1. PICK p \in S : b = <<r, p, v>>
      BY <1>2
    <2>2. a[3] \in Nat /\ product[p].version \in Nat /\ a[3] < product[p].version
      BY <1>2, <2>1, WritesPassed
    <2>. QED BY <2>1, <2>2
  <1>3. CASE a \notin GuardedWrites /\ b \in GuardedWrites
    <2>1. PICK p \in S : a = <<r, p, v>>
      BY <1>3
    <2>2. b[3] \in Nat /\ product[p].version \in Nat /\ b[3] < product[p].version
      BY <1>3, <2>1, WritesPassed
    <2>. QED BY <2>1, <2>2
  <1>4. CASE a \notin GuardedWrites /\ b \notin GuardedWrites
    <2>1. PICK p \in S : a = <<r, p, v>>
      BY <1>4
    <2>2. PICK q \in S : b = <<r, q, v>>
      BY <1>4
    <2>. QED BY <2>1, <2>2
  <1>. QED BY <1>1, <1>2, <1>3, <1>4

\* An edit writes from the version it still finds, which nobody wrote from before.
LEMMA EditWritesOnce ==
    ASSUME IInv, StockInv, NEW r \in ProductRequests, ProductStep(r, OrderedProducts), Moves(r),
           UNCHANGED receipt
    PROVE  OneWritePerVersion'
  <1>1. \A q \in ProductRequests \ {r} : productRequest'[q] = productRequest[q]
    BY EditOwn
  <1>2. CASE UpdateWrite(r)
    <2>1. /\ Target(r) \in Products /\ product[Target(r)].version = productRequest[r].version
          /\ productRequest[r] \in ProductRequestState
          /\ productRequest \in [ProductRequests -> ProductRequestState]
      BY <1>2 DEF UpdateWrite, NotModified, At, IInv, CatalogInv, TargetsKnown, CatalogTypeOK
    <2>2. /\ productRequest'[r].product = productRequest[r].product
          /\ productRequest'[r].version = productRequest[r].version
      BY <1>2, <2>1 DEF UpdateWrite, ProductRequestState
    <2>3. productRequest[r].version \in Nat
      BY <2>1 DEF ProductRequestState
    <2>4. \A w \in GuardedWrites' :
            w \in GuardedWrites \/ \E p \in {Target(r)} : w = <<r, p, productRequest[r].version>>
      BY <1>1, <2>2 DEF GuardedWrites, Target
    <2>5. /\ {Target(r)} \in SUBSET Products
          /\ \A p \in {Target(r)} : product[p].version <= productRequest[r].version
      BY <2>1, <2>3
    <2>. QED BY <2>3, <2>4, <2>5, OneWriteKept
  <1>3. CASE ~UpdateWrite(r)
    <2>1. /\ productRequest'[r].wrote = productRequest[r].wrote
          /\ productRequest[r].wrote =>
               /\ productRequest'[r].product = productRequest[r].product
               /\ productRequest'[r].version = productRequest[r].version
      BY <1>3, EditOwn
    <2>2. \A w \in GuardedWrites' : w \in GuardedWrites
      BY <1>1, <2>1 DEF GuardedWrites, Target
    <2>. QED BY <2>2 DEF StockInv, OneWritePerVersion
  <1>. QED BY <1>2, <1>3

\* A receipt commits from a version that nobody wrote from, for it held the row.
LEMMA ReceiptWritesOnce ==
    ASSUME IInv, StockInv, NEW r \in Receipts, ReceiptStep(r), UNCHANGED productRequest
    PROVE  OneWritePerVersion'
  <1>1. \A q \in Receipts \ {r} : receipt'[q] = receipt[q]
    BY ReceiptOwn
  <1>2. CASE ReceiveCommit(r)
    <2>. DEFINE last == {m \in receipt[r].log : m.line = Len(receipt[r].items)}
                S == {m.product : m \in last}
    <2>1. receipt \in [Receipts -> ReceiptState] /\ receipt[r] \in ReceiptState
      BY DEF IInv, OrdersInv, OrdersTypeOK
    <2>2. /\ receipt'[r].log = receipt[r].log /\ receipt'[r].items = receipt[r].items
          /\ receipt'[r].version = receipt[r].version /\ receipt[r].pc = "status"
      BY <1>2, <2>1 DEF ReceiveCommit, ReceiptState
    <2>3. S \in SUBSET Products /\ receipt[r].version \in Nat
      BY <2>1 DEF ReceiptState, Movement
    <2>4. \A p \in S : product[p].version <= receipt[r].version
      BY <2>2 DEF StockInv, ReceiptVersioned
    <2>5. \A w \in GuardedWrites' :
            w \in GuardedWrites \/ \E p \in S : w = <<r, p, receipt[r].version>>
      BY <1>1, <2>2 DEF GuardedWrites, Target
    <2>. QED BY <2>3, <2>4, <2>5, OneWriteKept
  <1>3. CASE ~ReceiveCommit(r)
    <2>1. receipt'[r].pc # "done"
      BY <1>3, ReceiptOwn
    <2>2. \A w \in GuardedWrites' : w \in GuardedWrites
      BY <1>1, <2>1 DEF GuardedWrites, Target
    <2>. QED BY <2>2 DEF StockInv, OneWritePerVersion
  <1>. QED BY <1>2, <1>3

---------------------------------------------------------------------------
(* The whole *)

\* A step of a request that is no sale keeps what is known of sales.
LEMMA SalesFrame ==
    ASSUME IInv, StockInv, NEW r, r \notin Checkouts \cup SaleUpdates, Moves(r),
           UNCHANGED saleVars, \A m \in movements' \ movements : m.by = r
    PROVE  /\ \A c \in Checkouts : CheckoutLogged(c)'
           /\ SoldMoved'
           /\ \A u \in SaleUpdates : ReturnLogged(u)'
           /\ ReturnsMoved'
  <1>1. SalesInv /\ UNCHANGED <<sale, checkout, saleUpdate>>
    BY DEF IInv, saleVars
  <1>2. SalesKept
    BY <1>1 DEF SalesKept, Committed
  <1>3. \A c \in Checkouts : CheckoutLogged(c)'
    BY <1>1, CheckoutFrame DEF StockInv
  <1>4. \A u \in SaleUpdates : ReturnLogged(u)'
    BY <1>1, <1>2, ReturnFrame DEF StockInv
  <1>5. SoldMoved'
    BY <1>1, SoldMovedKept DEF StockInv
  <1>6. ReturnsMoved'
    BY <1>1 DEF StockInv, ReturnsMoved
  <1>. QED BY <1>3, <1>4, <1>5, <1>6

\* A step of a request that is neither an edit nor a receipt keeps the guarded writes.
LEMMA WritersFrame ==
    ASSUME IInv, IInv', StockInv, NEW r, Moves(r), UNCHANGED productRequest
    PROVE  \A q \in ProductRequests : EditVersioned(q)'
  BY EditFrame DEF StockInv

\* A step that is no receipt keeps what is known of receipts.
LEMMA ReceiversFrame ==
    ASSUME IInv, IInv', StockInv, NEW r, r \notin Receipts, Moves(r), UNCHANGED receipt
    PROVE  \A q \in Receipts : ReceiptLogged(q)' /\ ReceiptVersioned(q)'
  BY ReceiptFrame DEF StockInv

\* A step that is neither an edit nor a receipt makes no guarded write.
LEMMA WritesFrame ==
    ASSUME IInv, StockInv, UNCHANGED <<productRequest, receipt>>
    PROVE  OneWritePerVersion'
  <1>1. GuardedWrites' = GuardedWrites
    BY DEF GuardedWrites, Target
  <1>. QED BY <1>1 DEF StockInv, OneWritePerVersion

\* Sales keep the invariant: each step changes the rows and records of one request.
LEMMA SellStock ==
    ASSUME IInv, IInv', StockInv, Sell
    PROVE  StockInv'
  <1>1. /\ UNCHANGED <<productRequest, orderVars>> /\ receipt' = receipt /\ SalesInv
        /\ Checkouts \cap SaleUpdates = {} /\ Receipts \cap (Checkouts \cup SaleUpdates) = {}
    BY SalesAssumption, InventoryAssumption DEF Sell, orderVars, IInv
  <1>2. ASSUME NEW c \in Checkouts, CheckoutStep(c)
        PROVE  StockInv'
    <2>1. RowsKept' /\ Moves(c) /\ SalesKept
      BY <1>1, <1>2, CheckoutStepKeepsRows, CheckoutStepKeepsSales
    <2>2. /\ CheckoutLogged(c)' /\ SoldMoved'
          /\ \A d \in Checkouts \ {c} : checkout'[d] = checkout[d]
          /\ \A m \in movements' \ movements : m.by = c
          /\ saleUpdate' = saleUpdate
      BY <1>2, <2>1, CheckoutOwn
    <2>3. \A d \in Checkouts : CheckoutLogged(d)'
      BY <1>1, <2>1, <2>2, CheckoutFrame DEF StockInv
    <2>4. \A u \in SaleUpdates : ReturnLogged(u)'
      BY <1>1, <2>1, <2>2, ReturnFrame DEF StockInv
    <2>5. ReturnsMoved'
      BY <1>1, <2>2 DEF StockInv, ReturnsMoved
    <2>6. /\ \A q \in ProductRequests : EditVersioned(q)'
          /\ \A q \in Receipts : ReceiptLogged(q)' /\ ReceiptVersioned(q)'
          /\ OneWritePerVersion'
      BY <1>1, <2>1, WritersFrame, ReceiversFrame, WritesFrame
    <2>. QED BY <2>1, <2>2, <2>3, <2>4, <2>5, <2>6 DEF StockInv
  <1>3. ASSUME NEW u \in SaleUpdates, SaleUpdateStep(u)
        PROVE  StockInv'
    <2>1. RowsKept' /\ Moves(u) /\ SalesKept
      BY <1>1, <1>3, SaleUpdateStepKeepsRows, SaleUpdateStepKeepsSales
    <2>2. /\ ReturnLogged(u)' /\ ReturnsMoved' /\ SoldMoved'
          /\ \A v \in SaleUpdates \ {u} : saleUpdate'[v] = saleUpdate[v]
          /\ checkout' = checkout
      BY <1>3, <2>1, SaleUpdateOwn
    <2>3. \A c \in Checkouts : CheckoutLogged(c)'
      BY <1>1, <2>1, <2>2, CheckoutFrame DEF StockInv
    <2>4. \A v \in SaleUpdates : ReturnLogged(v)'
      BY <1>1, <2>1, <2>2, ReturnFrame DEF StockInv
    <2>5. /\ \A q \in ProductRequests : EditVersioned(q)'
          /\ \A q \in Receipts : ReceiptLogged(q)' /\ ReceiptVersioned(q)'
          /\ OneWritePerVersion'
      BY <1>1, <2>1, WritersFrame, ReceiversFrame, WritesFrame
    <2>. QED BY <2>1, <2>2, <2>3, <2>4, <2>5 DEF StockInv
  <1>. QED BY <1>2, <1>3 DEF Sell, SalesNext

\* The catalog keeps the invariant.
LEMMA MaintainStock ==
    ASSUME IInv, IInv', StockInv, NEW r \in ProductRequests, Maintain(r)
    PROVE  StockInv'
  <1>1. /\ ProductStep(r, OrderedProducts) /\ UNCHANGED <<saleVars, orderVars>>
        /\ receipt' = receipt /\ r \notin Checkouts \cup SaleUpdates /\ r \notin Receipts
    BY InventoryAssumption DEF Maintain, orderVars
  <1>2. RowsKept' /\ Moves(r)
    BY <1>1, ProductStepKeepsRows
  <1>3. /\ EditVersioned(r)'
        /\ \A q \in ProductRequests \ {r} : productRequest'[q] = productRequest[q]
        /\ \A m \in movements' \ movements : m.by = r
    BY <1>1, <1>2, EditOwn
  <1>4. /\ \A c \in Checkouts : CheckoutLogged(c)'
        /\ SoldMoved'
        /\ \A u \in SaleUpdates : ReturnLogged(u)'
        /\ ReturnsMoved'
    BY <1>1, <1>2, <1>3, SalesFrame
  <1>5. \A q \in ProductRequests : EditVersioned(q)'
    BY <1>2, <1>3, EditFrame DEF StockInv
  <1>6. \A q \in Receipts : ReceiptLogged(q)' /\ ReceiptVersioned(q)'
    BY <1>1, <1>2, ReceiversFrame
  <1>7. OneWritePerVersion'
    BY <1>1, <1>2, EditWritesOnce
  <1>. QED BY <1>2, <1>4, <1>5, <1>6, <1>7 DEF StockInv

\* Purchase orders and receipts keep the invariant.
LEMMA PurchaseStock ==
    ASSUME IInv, IInv', StockInv, Purchase
    PROVE  StockInv'
  <1>1. /\ UNCHANGED <<saleVars, productRequest>> /\ NoOne \notin Checkouts \cup SaleUpdates
        /\ NoOne \notin Receipts
    BY NoOneAssumption, SalesAssumption, OrdersAssumption DEF Purchase
  <1>2. ASSUME RowsKept', Moves(NoOne), UNCHANGED <<rowVars, receipt>>
        PROVE  StockInv'
    <2>1. \A m \in movements' \ movements : m.by = NoOne
      BY <1>2 DEF rowVars
    <2>2. /\ \A c \in Checkouts : CheckoutLogged(c)'
          /\ SoldMoved'
          /\ \A u \in SaleUpdates : ReturnLogged(u)'
          /\ ReturnsMoved'
      BY <1>1, <1>2, <2>1, SalesFrame
    <2>3. /\ \A q \in ProductRequests : EditVersioned(q)'
          /\ \A q \in Receipts : ReceiptLogged(q)' /\ ReceiptVersioned(q)'
          /\ OneWritePerVersion'
      BY <1>1, <1>2, WritersFrame, ReceiversFrame, WritesFrame
    <2>. QED BY <1>2, <2>2, <2>3 DEF StockInv
  <1>3. ASSUME NEW o \in Orders, OrderStep(o)
        PROVE  StockInv'
    <2>1. receipt' = receipt
      BY <1>3 DEF OrderStep, OrderRead, OrderBegin, OrderTakeNumber, OrderCommit, OrderAbort
    <2>. QED BY <1>2, <1>3, <2>1, OrderStepKeepsRows
  <1>4. ASSUME NEW x \in OrderChanges, ChangeStep(x)
        PROVE  StockInv'
    <2>1. receipt' = receipt
      BY <1>4 DEF ChangeStep, ChangeRead, EditDelete, EditCommit, EditAbort, ChangeStatus
    <2>. QED BY <1>2, <1>4, <2>1, ChangeStepKeepsRows
  <1>5. ASSUME NEW r \in Receipts, ReceiptStep(r)
        PROVE  StockInv'
    <2>1. RowsKept' /\ Moves(r) /\ r \notin Checkouts \cup SaleUpdates
      BY <1>5, ReceiptStepKeepsRows, InventoryAssumption
    <2>2. /\ ReceiptLogged(r)' /\ ReceiptVersioned(r)'
          /\ \A q \in Receipts \ {r} : receipt'[q] = receipt[q]
          /\ \A m \in movements' \ movements : m.by = r
      BY <1>5, ReceiptOwn
    <2>3. /\ \A c \in Checkouts : CheckoutLogged(c)'
          /\ SoldMoved'
          /\ \A u \in SaleUpdates : ReturnLogged(u)'
          /\ ReturnsMoved'
      BY <1>1, <2>1, <2>2, SalesFrame
    <2>4. \A q \in Receipts : ReceiptLogged(q)' /\ ReceiptVersioned(q)'
      BY <2>1, <2>2, ReceiptFrame DEF StockInv
    <2>5. \A q \in ProductRequests : EditVersioned(q)'
      BY <1>1, <2>1, WritersFrame
    <2>6. OneWritePerVersion'
      BY <1>1, <1>5, ReceiptWritesOnce
    <2>. QED BY <2>1, <2>3, <2>4, <2>5, <2>6 DEF StockInv
  <1>. QED BY <1>3, <1>4, <1>5 DEF Purchase, OrdersNext

\* The invariant holds at the start: nothing is held, logged, sold or ordered.
LEMMA InitStockInv == Init => StockInv
  <1>. SUFFICES ASSUME Init PROVE StockInv
    OBVIOUS
  <1>1. /\ \A p \in Products : lock[p] = NoOne /\ product[p] = OpeningRow(p)
        /\ movements = {OpeningMovement(p) : p \in DOMAIN OpeningStock}
        /\ \A w \in Writers : lines[w] = <<>>
    BY DEF Init, OrdersInit
  <1>2. RowsKept
    <2>1. OrderedProducts = {}
      BY <1>1 DEF OrderedProducts
    <2>2. ASSUME NEW p \in DOMAIN OpeningStock
          PROVE  product[p].life = "live" /\ OpeningMovement(p).product = p
      <3>1. p \in Products /\ OpeningRow(p).life = "live"
        BY InventoryAssumption DEF OpeningRow
      <3>. QED BY <1>1, <3>1 DEF OpeningMovement
    <2>3. \A m \in movements : Live(m.product)
      BY <1>1, <2>2 DEF Live
    <2>4. ASSUME NEW p \in Products
          PROVE  product[p].version = 0
      <3>1. OpeningRow(p).version = 0
        <4>1. CASE p \in DOMAIN OpeningStock
          BY <4>1 DEF OpeningRow
        <4>2. CASE p \notin DOMAIN OpeningStock
          BY <4>2 DEF OpeningRow
        <4>. QED BY <4>1, <4>2
      <3>. QED BY <1>1, <3>1
    <2>. QED BY <1>1, <2>1, <2>3, <2>4 DEF RowsKept, HeldRowsLive, AbsentRowsNew, UsedRowsLive
  <1>3. /\ \A c \in Checkouts : sale[c] = NoSale
        /\ \A c \in Checkouts : checkout[c] =
             [pc |-> "new", items |-> <<>>, line |-> 1, seen |-> 0, log |-> {},
              snapshot |-> NoSnapshot]
        /\ \A u \in SaleUpdates : saleUpdate[u] =
             [pc |-> "new", sale |-> NoOne, line |-> 1, previousStock |-> 0, log |-> {}]
    BY DEF Init, SalesInit
  <1>4. \A c \in Checkouts : CheckoutLogged(c)
    BY <1>3 DEF CheckoutLogged, Logged
  <1>5. SoldMoved
    BY <1>3 DEF SoldMoved, NoSale
  <1>6. \A u \in SaleUpdates : ReturnLogged(u)
    BY <1>3 DEF ReturnLogged, Logged
  <1>7. ReturnsMoved
    BY <1>1, NoOneAssumption, SalesAssumption DEF ReturnsMoved, OpeningMovement
  <1>8. \A r \in ProductRequests : ~productRequest[r].wrote
    BY DEF Init, CatalogInit
  <1>9. \A r \in Receipts : receipt[r].log = {} /\ receipt[r].pc = "new"
    BY DEF Init, OrdersInit
  <1>10. GuardedWrites = {}
    BY <1>8, <1>9 DEF GuardedWrites
  <1>. QED
    BY <1>2, <1>4, <1>5, <1>6, <1>7, <1>8, <1>9, <1>10
    DEF StockInv, EditVersioned, ReceiptLogged, Logged, ReceiptVersioned, OneWritePerVersion

\* Every step keeps the invariant.
LEMMA NextStockInv == IInv /\ IInv' /\ StockInv /\ [Next]_vars => StockInv'
  <1>. SUFFICES ASSUME IInv, IInv', StockInv, [Next]_vars PROVE StockInv'
    OBVIOUS
  <1>1. CASE UNCHANGED vars
    <2>1. /\ UNCHANGED <<rowVars, saleVars, productRequest, receipt>> /\ lines' = lines
          /\ RowsInv /\ OrdersInv /\ NoOne \notin Checkouts \cup SaleUpdates
          /\ NoOne \notin Receipts
      BY <1>1, NoOneAssumption, SalesAssumption, OrdersAssumption DEF vars, orderVars, IInv
    <2>2. RowsKept' /\ Moves(NoOne) /\ \A m \in movements' \ movements : m.by = NoOne
      BY <2>1, StillKept DEF StockInv, rowVars
    <2>3. /\ \A c \in Checkouts : CheckoutLogged(c)'
          /\ SoldMoved'
          /\ \A u \in SaleUpdates : ReturnLogged(u)'
          /\ ReturnsMoved'
      BY <2>1, <2>2, SalesFrame
    <2>4. /\ \A q \in ProductRequests : EditVersioned(q)'
          /\ \A q \in Receipts : ReceiptLogged(q)' /\ ReceiptVersioned(q)'
          /\ OneWritePerVersion'
      BY <2>1, <2>2, WritersFrame, ReceiversFrame, WritesFrame
    <2>. QED BY <2>2, <2>3, <2>4 DEF StockInv
  <1>. QED BY <1>1, SellStock, MaintainStock, PurchaseStock DEF Next

\* Both invariants hold of every behavior.
LEMMA SpecStockInv == Spec => [](IInv /\ StockInv)
  <1>1. Init => IInv /\ StockInv
    BY InitIInv, InitStockInv
  <1>2. (IInv /\ StockInv) /\ [Next]_vars => (IInv /\ StockInv)'
    BY NextIInv, NextStockInv
  <1>. QED BY <1>1, <1>2, PTL DEF Spec

\* What a movement or a sale names is never deleted, even by a removal that
\* started before (products.service.ts:317-331).
THEOREM ReferencedNeverDeleted == Spec => []ReferencedProductsLive
  <1>1. IInv /\ StockInv => ReferencedProductsLive
    BY DEF StockInv, RowsKept, UsedRowsLive, SoldMoved, ReferencedProductsLive
  <1>. QED BY <1>1, SpecStockInv, PTL

\* Edits and receipts never both succeed from one version of a product
\* (products.service.ts:243-255, purchase-orders.service.ts:491-500).
THEOREM WritesVersioned == Spec => []OneWritePerVersion
  <1>1. IInv /\ StockInv => OneWritePerVersion
    BY DEF StockInv
  <1>. QED BY <1>1, SpecStockInv, PTL

\* Every cancellation that gave units of a sale back gave back all of them, and the
\* sale is no longer COMPLETED (sales.service.ts:476-520).
THEOREM ReturnsComplete == Spec => []ReturnsWholeSale
  <1>1. ASSUME IInv, StockInv
        PROVE  ReturnsWholeSale
    <2>. SUFFICES ASSUME NEW c \in Checkouts, NEW u \in SaleUpdates,
                         {m \in MovementsOf(c, "RETURN") : m.by = u} # {}
                  PROVE  /\ {<<m.line, m.product, m.quantity>> :
                                m \in {n \in MovementsOf(c, "RETURN") : n.by = u}} =
                            {<<i, sale[c].items[i].product, sale[c].items[i].quantity>> :
                                i \in DOMAIN sale[c].items}
                         /\ sale[c].status # "COMPLETED"
      BY DEF ReturnsWholeSale
    <2>1. PICK m \in movements : m.sale = c /\ m.type = "RETURN" /\ m.by = u
      BY DEF MovementsOf
    <2>2. saleUpdate[u].pc = "done" /\ m \in saleUpdate[u].log
      BY <1>1, <2>1 DEF StockInv, ReturnsMoved
    <2>3. saleUpdate[u].sale = c
      BY <1>1, <2>1, <2>2 DEF StockInv, ReturnLogged
    <2>4. {n \in MovementsOf(c, "RETURN") : n.by = u} = saleUpdate[u].log
      <3>1. ASSUME NEW n \in saleUpdate[u].log
            PROVE  n \in movements /\ n.by = u /\ n.sale = c /\ n.type = "RETURN"
        BY <1>1, <2>2, <2>3 DEF StockInv, ReturnLogged, Logged
      <3>2. ASSUME NEW n \in movements, n.by = u
            PROVE  n \in saleUpdate[u].log
        BY <1>1, <3>2 DEF StockInv, ReturnsMoved
      <3>. QED BY <3>1, <3>2 DEF MovementsOf
    <2>5. /\ sale[c].status # "COMPLETED"
          /\ {<<n.line, n.product, n.quantity>> : n \in saleUpdate[u].log} =
             LinesBefore(c, Len(sale[c].items) + 1)
      BY <1>1, <2>2, <2>3 DEF StockInv, ReturnLogged
    <2>6. 1..(Len(sale[c].items) + 1 - 1) = DOMAIN sale[c].items
      <3>1. sale[c].items \in Items
        BY <1>1 DEF IInv, SalesInv, SalesTypeOK, SaleRow
      <3>. QED BY <3>1 DEF Items
    <2>. QED BY <2>4, <2>5, <2>6 DEF LinesBefore
  <1>. QED BY <1>1, SpecStockInv, PTL

\* Only the last step of a checkout commits a sale, its own.
LEMMA OnlyCheckoutsCommit ==
    ASSUME IInv, [Next]_vars, NEW c \in Checkouts, ~Committed(c), Committed(c)'
    PROVE  CheckoutCommit(c)
  <1>1. sale'[c] # sale[c] /\ sale \in [Checkouts -> SaleRow]
    BY DEF Committed, IInv, SalesInv, SalesTypeOK
  <1>2. ASSUME NEW u \in SaleUpdates, SaleUpdateStep(u)
        PROVE  FALSE
    <2>. DEFINE s == saleUpdate[u].sale
    <2>1. PICK status : sale' = [sale EXCEPT ![s].status = status]
      BY <1>1, <1>2 DEF SaleUpdateStep, SaleUpdateRead, CancelReadItem, CancelWriteItem, CancelCommit,
                        CancelAbort, ReturnPartial
    <2>2. CancelCommit(u) \/ ReturnPartial(u)
      BY <1>1, <1>2 DEF SaleUpdateStep, SaleUpdateRead, CancelReadItem, CancelWriteItem, CancelAbort
    <2>3. Committed(s)
      BY <2>2 DEF CancelCommit, ReturnPartial, IInv, SalesInv, UpdatesLinked
    <2>. QED BY <1>1, <2>1, <2>3
  <1>3. PICK d \in Checkouts : CheckoutStep(d)
    BY <1>1, <1>2 DEF Next, Maintain, Purchase, Sell, SalesNext, vars, saleVars
  <1>4. CheckoutCommit(d)
    BY <1>1, <1>3 DEF CheckoutStep, CheckoutRead, CheckoutBegin, NextNumber, CheckoutItem,
                      CheckoutAbort
  <1>5. c = d
    BY <1>1, <1>4 DEF CheckoutCommit
  <1>. QED BY <1>4, <1>5

\* The transaction of a checkout that commits holds the row of every item.
LEMMA CommitHoldsItems ==
    ASSUME IInv, StockInv, NEW c \in Checkouts, CheckoutCommit(c), NEW i \in DOMAIN sale'[c].items
    PROVE  product[sale'[c].items[i].product].active
  <1>1. /\ checkout[c] \in CheckoutState /\ CheckoutLogged(c)
        /\ sale'[c].items = checkout[c].items
    BY DEF CheckoutCommit, IInv, SalesInv, SalesTypeOK, StockInv
  <1>2. /\ checkout[c].items \in Items /\ checkout[c].line \in Nat
        /\ checkout[c].log \in SUBSET Movement /\ checkout[c].pc = "items"
    BY <1>1 DEF CheckoutCommit, CheckoutState
  <1>3. i \in DOMAIN checkout[c].items /\ i < checkout[c].line
    BY <1>1, <1>2 DEF CheckoutCommit, ItemsLeft, Items
  <1>4. PICK m \in checkout[c].log : m.product = checkout[c].items[i].product
    BY <1>1, <1>2, <1>3 DEF CheckoutLogged
  <1>5. m.product \in Products /\ lock[m.product] = c /\ c # NoOne
    BY <1>1, <1>2, <1>4, SalesAssumption, NoOneAssumption DEF CheckoutLogged, Logged, Movement
  <1>. QED BY <1>1, <1>4, <1>5 DEF StockInv, RowsKept, HeldRowsLive

\* A sale that commits takes products that are active at that moment: the
\* transaction holds their rows since it asked (sales.service.ts:107, 219).
THEOREM SoldActive == Spec => SoldWhileActive
  <1>1. IInv /\ StockInv /\ [Next]_vars =>
          [\A c \in Checkouts : ~Committed(c) /\ Committed(c)' =>
             \A i \in DOMAIN sale'[c].items : product[sale'[c].items[i].product].active]_vars
    BY OnlyCheckoutsCommit, CommitHoldsItems
  <1>. QED BY <1>1, SpecStockInv, PTL DEF SoldWhileActive, Spec
=============================================================================
