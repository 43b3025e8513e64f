----------------------------- MODULE ShopProofs -----------------------------
(***************************************************************************)
(* Proofs about Till, Reports and Imports, for every set of requests,      *)
(* tills, lines, sales, rows, retries and SKUs and wherever the clock      *)
(* stops: a line is sold once and never silently lost, reports show the    *)
(* sales there are, and an import counts its rows, makes each SKU once and *)
(* keeps the promise of ImportJob.                                         *)
(***************************************************************************)
EXTENDS Till, Reports, Imports, FiniteSetTheorems, TLAPS

---------------------------------------------------------------------------
(* Till: the inductive invariant *)

\* A checkout that may sell a line, or has.
Carries(c, l) == l \in checkout[c].lines /\ checkout[c].at \in {"sent", "committed"}
InPaused(t, l) == \E sale \in paused[t] : l \in sale

\* There is nothing but what was scanned.
OnlyScanned(l) ==
    l \notin scanned =>
        /\ sold[l] = 0
        /\ \A t \in Tills : l \notin cart[t] /\ ~InPaused(t, l)
        /\ \A c \in Checkouts : l \notin checkout[c].lines

\* A line that is not in doubt is in one place: one cart, or one paused sale of one
\* till; a checkout that carries it is the only one, and its till waits for it.
InOnePlace(l) ==
    /\ \A t, u \in Tills :
         /\ l \in cart[t] /\ l \in cart[u] => t = u
         /\ l \in cart[t] => ~InPaused(u, l)
         /\ InPaused(t, l) /\ InPaused(u, l) => t = u
    /\ \A t \in Tills : \A one, two \in paused[t] : l \in one /\ l \in two => one = two
    /\ \A c, d \in Checkouts : Carries(c, l) /\ Carries(d, l) => c = d
    /\ \A c \in Checkouts, t \in Tills :
         Carries(c, l) => ~InPaused(t, l) /\ (l \in cart[t] => pending[t] = c)

\* It was sold by a checkout that committed, and by no other.
SoldByCheckout(l) ==
    /\ \A c \in Checkouts : l \in checkout[c].lines /\ checkout[c].at = "committed" => sold[l] > 0
    /\ l \notin doubtful =>
         /\ sold[l] <= 1
         /\ sold[l] = 1 => \E c \in Checkouts : l \in checkout[c].lines /\ checkout[c].at = "committed"

\* What is stored is the list of a till, and a till that was not opened has nothing.
StoredByTill == stored = {} \/ \E t \in Tills : stored = paused[t]
ClosedEmpty == \A t \in Tills \ opened : cart[t] = {} /\ paused[t] = {}

TillInv ==
    /\ TillTypeOK /\ paused \in [Tills -> SUBSET SUBSET Lines]
    /\ Accounted /\ StoredByTill /\ ClosedEmpty
    /\ \A l \in Lines : OnlyScanned(l) /\ SoldByCheckout(l) /\ (l \in doubtful \/ InOnePlace(l))

---------------------------------------------------------------------------
(* Reports: the inductive invariant *)

\* What was not sold is in no report, and nothing is returned of what is not cancelled.
Plain(row) ==
    /\ row.status = "NONE" => row.created = Never /\ ~row.cleared
    /\ row.cancelled = Never => row.status # "CANCELLED" /\ \A t \in Ticks : row.returns[t] = 0

\* A report that has begun has counted every sale whose checkout has ended.
CountedAll(r) ==
    reading[r].at = "second" =>
        \A s \in CompletedSales \ racing : soldRow[s].cleared => s \in reading[r].counted

ReportsInv ==
    /\ ReportsTypeOK /\ DashboardShowsSales
    /\ \A s \in ReportSales : Plain(soldRow[s])
    /\ \A r \in ReportReads : CountedAll(r)

---------------------------------------------------------------------------
(* Till: every step keeps the invariant *)

Asked == [at : {"new", "sent", "committed", "refused"}, lines : SUBSET Lines]
Pending == Checkouts \cup {NoCheckout}

\* The types, by the names used here.
LEMMA TillTypes ==
    TillTypeOK /\ paused \in [Tills -> SUBSET SUBSET Lines] <=>
        /\ cart \in [Tills -> SUBSET Lines] /\ paused \in [Tills -> SUBSET SUBSET Lines]
        /\ stored \subseteq SUBSET Lines /\ pending \in [Tills -> Pending]
        /\ checkout \in [Checkouts -> Asked] /\ sold \in [Lines -> Nat]
        /\ scanned \subseteq Lines /\ doubtful \subseteq Lines /\ gone \subseteq Lines
        /\ opened \subseteq Tills
BY DEF TillTypeOK, Asked, Pending

\* The types of what a step reads.
LEMMA TillRead ==
    ASSUME TillInv, NEW t \in Tills
    PROVE  /\ cart[t] \subseteq Lines /\ paused[t] \subseteq SUBSET Lines
           /\ UNION stored \subseteq Lines /\ UNION paused[t] \subseteq Lines
           /\ UNION (stored \ paused[t]) \subseteq Lines
           /\ InCheckout(t) \subseteq Lines
<1>1. /\ cart[t] \subseteq Lines /\ paused[t] \subseteq SUBSET Lines /\ stored \subseteq SUBSET Lines
      /\ pending[t] \in Pending /\ checkout \in [Checkouts -> Asked]
  BY TillTypes DEF TillInv
<1>2. InCheckout(t) \subseteq Lines
  BY <1>1 DEF InCheckout, Pending, Asked
<1> QED  BY <1>1, <1>2

\* The history of a line: what is doubtful, gone or scanned stays so.
TillMoves ==
    scanned \subseteq scanned' /\ doubtful \subseteq doubtful' /\ opened \subseteq opened'

\* A step that neither sends nor commits, and moves lines between places.
LEMMA LinesMove ==
    ASSUME TillInv, NEW t \in Tills,
           UNCHANGED <<checkout, sold, scanned>>,
           TillTypeOK', (paused \in [Tills -> SUBSET SUBSET Lines])',
           opened' \in {opened, opened \cup {t}}, doubtful \subseteq doubtful',
           \A u \in Tills \ {t} :
             cart'[u] = cart[u] /\ paused'[u] = paused[u] /\ pending'[u] = pending[u],
           stored' = paused'[t] \/ (stored' = stored /\ paused'[t] \in {paused[t], stored}),
           t \in opened' \/ (cart'[t] = {} /\ paused'[t] = {}),
           Accounted',
           \A l \in Lines : l \in cart'[t] => l \in cart[t] \/ InPaused(t, l),
           \A l \in Lines : InPaused(t, l)' =>
             l \in cart[t] \/ InPaused(t, l) \/ \E sale \in stored : l \in sale,
           \A l \in Lines \ doubtful' : InOnePlace(l)'
    PROVE  TillInv'
<1>1. StoredByTill'
  <2>1. CASE stored' = paused'[t]  BY <2>1 DEF StoredByTill
  <2>2. CASE stored' = stored /\ paused'[t] = stored  BY <2>2 DEF StoredByTill
  <2>3. CASE stored' = stored /\ paused'[t] = paused[t]
    BY <2>3 DEF TillInv, StoredByTill
  <2> QED  BY <2>1, <2>2, <2>3
<1>2. ClosedEmpty'  BY DEF TillInv, ClosedEmpty
<1>3. \A l \in Lines : \A sale \in stored : l \in sale => \E u \in Tills : InPaused(u, l)
  BY DEF TillInv, StoredByTill, InPaused
<1>4. ASSUME NEW l \in Lines PROVE OnlyScanned(l)'
  <2> SUFFICES ASSUME l \notin scanned PROVE OnlyScanned(l)'  BY DEF OnlyScanned
  <2>1. /\ sold[l] = 0 /\ \A c \in Checkouts : l \notin checkout[c].lines
        /\ \A u \in Tills : l \notin cart[u] /\ ~InPaused(u, l)
    BY DEF TillInv, OnlyScanned
  <2>2. l \notin cart'[t] /\ ~(InPaused(t, l))'  BY <1>3, <2>1
  <2>3. \A u \in Tills : l \notin cart'[u] /\ ~(InPaused(u, l))'
    BY <2>1, <2>2 DEF InPaused
  <2> QED  BY <2>1, <2>3 DEF OnlyScanned
<1>5. ASSUME NEW l \in Lines PROVE SoldByCheckout(l)'
  BY DEF TillInv, SoldByCheckout
<1>6. \A l \in Lines : (l \in doubtful \/ InOnePlace(l))'  OBVIOUS
<1> QED  BY <1>1, <1>2, <1>4, <1>5, <1>6 DEF TillInv

\* A line that a step leaves where it was, or takes out of its place.
LEMMA PlaceKept ==
    ASSUME TillInv, NEW t \in Tills, NEW l \in Lines, l \notin doubtful, checkout' = checkout,
           \A u \in Tills \ {t} :
             cart'[u] = cart[u] /\ paused'[u] = paused[u] /\ pending'[u] = pending[u],
           l \in cart'[t] => l \in cart[t] /\ pending'[t] = pending[t],
           paused'[t] \subseteq paused[t] \/ ~(InPaused(t, l))'
    PROVE  InOnePlace(l)'
<1>1. InOnePlace(l)  BY DEF TillInv
<1>2. (InPaused(t, l))' => InPaused(t, l)  BY DEF InPaused
<1>3. \A u \in Tills :
        /\ (InPaused(u, l))' => InPaused(u, l)
        /\ l \in cart'[u] => l \in cart[u] /\ pending'[u] = pending[u]
  BY <1>2 DEF InPaused
<1>4. \A c \in Checkouts : Carries(c, l)' <=> Carries(c, l)  BY DEF Carries
<1>5. \A u, v \in Tills :
        /\ l \in cart'[u] /\ l \in cart'[v] => u = v
        /\ l \in cart'[u] => ~(InPaused(v, l))'
        /\ (InPaused(u, l))' /\ (InPaused(v, l))' => u = v
  BY <1>1, <1>3 DEF InOnePlace
<1>6. \A u \in Tills : \A one, two \in paused'[u] : l \in one /\ l \in two => one = two
  <2> SUFFICES ASSUME NEW u \in Tills, NEW one \in paused'[u], NEW two \in paused'[u],
                      l \in one, l \in two
               PROVE  one = two
    OBVIOUS
  <2>1. one \in paused[u] /\ two \in paused[u]  BY DEF InPaused
  <2> QED  BY <1>1, <2>1 DEF InOnePlace
<1>7. \A c, d \in Checkouts : Carries(c, l)' /\ Carries(d, l)' => c = d
  BY <1>1, <1>4 DEF InOnePlace
<1>8. \A c \in Checkouts, u \in Tills :
        Carries(c, l)' => ~(InPaused(u, l))' /\ (l \in cart'[u] => pending'[u] = c)
  BY <1>1, <1>3, <1>4 DEF InOnePlace
<1> QED  BY <1>5, <1>6, <1>7, <1>8 DEF InOnePlace

\* What is stored was put there by a till.
LEMMA StoredInPaused ==
    ASSUME TillInv, NEW l, NEW sale \in stored, l \in sale
    PROVE  \E u \in Tills : stored = paused[u] /\ InPaused(u, l)
BY DEF TillInv, StoredByTill, InPaused

\* A page that is opened knows what is stored, which another till may know as well.
LEMMA TillOpensKeeps ==
    ASSUME TillInv, NEW t \in Tills, TillOpens(t)
    PROVE  TillInv'
<1>1. /\ cart \in [Tills -> SUBSET Lines] /\ paused \in [Tills -> SUBSET SUBSET Lines]
      /\ stored \subseteq SUBSET Lines /\ pending \in [Tills -> Pending]
      /\ checkout \in [Checkouts -> Asked] /\ sold \in [Lines -> Nat]
      /\ scanned \subseteq Lines /\ doubtful \subseteq Lines /\ gone \subseteq Lines
      /\ opened \subseteq Tills
  BY TillTypes DEF TillInv
<1>2. /\ cart' = [cart EXCEPT ![t] = {}] /\ paused' = [paused EXCEPT ![t] = stored]
      /\ pending' = [pending EXCEPT ![t] = NoCheckout] /\ opened' = opened \cup {t}
      /\ gone' = gone \cup cart[t]
      /\ doubtful' = IF opened \subseteq {t} THEN doubtful ELSE doubtful \cup UNION stored
      /\ UNCHANGED <<stored, checkout, sold, scanned>>
  BY DEF TillOpens, CartBecomes
<1>3. /\ TillTypeOK' /\ (paused \in [Tills -> SUBSET SUBSET Lines])'
  <2>1. doubtful' \subseteq Lines /\ doubtful \subseteq doubtful'
    BY <1>1, <1>2, TillRead
  <2>2. pending' \in [Tills -> Pending] /\ opened' \subseteq Tills
    BY <1>1, <1>2 DEF Pending
  <2>3. cart' \in [Tills -> SUBSET Lines] /\ paused' \in [Tills -> SUBSET SUBSET Lines]
        /\ gone' \subseteq Lines
    BY <1>1, <1>2
  <2> QED  BY <1>1, <1>2, <2>1, <2>2, <2>3 DEF TillTypeOK, Asked, Pending
<1>4. /\ cart'[t] = {} /\ paused'[t] = stored /\ pending'[t] = NoCheckout
      /\ \A u \in Tills \ {t} :
           cart'[u] = cart[u] /\ paused'[u] = paused[u] /\ pending'[u] = pending[u]
  BY <1>1, <1>2
<1>5. Accounted'
  <2> SUFFICES ASSUME NEW l \in scanned
               PROVE  \/ sold[l] > 0 \/ l \in gone' \/ \E u \in Tills : l \in cart'[u]
                      \/ \E sale \in stored : l \in sale
    BY <1>2 DEF Accounted
  <2> QED  BY <1>2, <1>4 DEF TillInv, Accounted
<1>6. doubtful \subseteq doubtful'  BY <1>2
<1>7. ASSUME NEW l \in Lines \ doubtful' PROVE InOnePlace(l)'
  <2>1. l \in Lines /\ l \notin doubtful /\ InOnePlace(l)  BY <1>6 DEF TillInv
  <2>2. CASE ~(InPaused(t, l))'
    BY <1>2, <1>4, <2>1, <2>2, PlaceKept
  <2>3. CASE (InPaused(t, l))'
    <3>1. PICK sale \in stored : l \in sale  BY <1>4, <2>3 DEF InPaused
    <3>2. opened \subseteq {t}  BY <1>2, <3>1
    <3>3. PICK v \in Tills : stored = paused[v] /\ InPaused(v, l)  BY <3>1, StoredInPaused
    <3>4. v = t  BY <3>1, <3>2, <3>3 DEF TillInv, ClosedEmpty
    <3>5. paused'[t] \subseteq paused[t]  BY <1>4, <3>3, <3>4
    <3> QED  BY <1>2, <1>4, <2>1, <3>5, PlaceKept
  <2> QED  BY <2>2, <2>3
<1>8. \A l \in Lines : (InPaused(t, l))' => \E sale \in stored : l \in sale
  BY <1>4 DEF InPaused
<1> QED  BY <1>2, <1>3, <1>4, <1>5, <1>6, <1>7, <1>8, LinesMove

\* A line is taken out of the cart.
LEMMA DiscardKeeps ==
    ASSUME TillInv, NEW t \in Tills, NEW x \in Lines, Discard(t, x)
    PROVE  TillInv'
<1>1. /\ cart \in [Tills -> SUBSET Lines] /\ paused \in [Tills -> SUBSET SUBSET Lines]
      /\ gone \subseteq Lines
  BY TillTypes DEF TillInv
<1>2. /\ cart' = [cart EXCEPT ![t] = cart[t] \ {x}] /\ gone' = gone \cup {x}
      /\ UNCHANGED <<paused, stored, pending, checkout, sold, scanned, opened, doubtful>>
  BY DEF Discard, CartBecomes
<1>3. /\ TillTypeOK' /\ (paused \in [Tills -> SUBSET SUBSET Lines])'
  BY <1>1, <1>2 DEF TillInv, TillTypeOK
<1>4. cart'[t] = cart[t] \ {x} /\ \A u \in Tills \ {t} : cart'[u] = cart[u]
  BY <1>1, <1>2
<1>5. Accounted'
  <2> SUFFICES ASSUME NEW l \in scanned
               PROVE  \/ sold[l] > 0 \/ l \in gone' \/ \E u \in Tills : l \in cart'[u]
                      \/ \E sale \in stored : l \in sale
    BY <1>2 DEF Accounted
  <2> QED  BY <1>2, <1>4 DEF TillInv, Accounted
<1>6. \A l \in Lines \ doubtful' : InOnePlace(l)'
  BY <1>2, <1>4, PlaceKept
<1>7. t \in opened' \/ (cart'[t] = {} /\ paused'[t] = {})
  BY <1>2, <1>4 DEF TillInv, ClosedEmpty
<1>8. \A l \in Lines : (InPaused(t, l))' => InPaused(t, l)  BY <1>2 DEF InPaused
<1> QED  BY <1>2, <1>3, <1>4, <1>5, <1>6, <1>7, <1>8, LinesMove

\* An answer that arrives, or fails to: the cart is sold, or its lines are in doubt.
LEMMA AnswerKeeps ==
    ASSUME TillInv, NEW t \in Tills, SaleArrives(t) \/ CheckoutFails(t)
    PROVE  TillInv'
<1>1. /\ cart \in [Tills -> SUBSET Lines] /\ paused \in [Tills -> SUBSET SUBSET Lines]
      /\ pending \in [Tills -> Pending] /\ checkout \in [Checkouts -> Asked]
      /\ doubtful \subseteq Lines /\ gone \subseteq Lines
      /\ cart[t] \subseteq Lines /\ InCheckout(t) \subseteq Lines
  BY TillTypes, TillRead DEF TillInv
<1>2. /\ pending[t] # NoCheckout /\ pending' = [pending EXCEPT ![t] = NoCheckout]
      /\ UNCHANGED <<paused, stored, checkout, sold, scanned, opened>>
  BY DEF SaleArrives, CheckoutFails
<1>3. PICK c \in Checkouts : c = pending[t]  BY <1>1, <1>2 DEF Pending
<1>4. InCheckout(t) = checkout[c].lines  BY <1>2, <1>3 DEF InCheckout
<1>5. /\ \/ cart' = [cart EXCEPT ![t] = {}] /\ checkout[c].at = "committed"
            /\ doubtful' = doubtful /\ gone' = gone \cup (cart[t] \ InCheckout(t))
         \/ /\ cart' = cart /\ gone' = gone
            /\ \/ checkout[c].at = "refused" /\ doubtful' = doubtful
               \/ doubtful' = doubtful \cup InCheckout(t)
  BY <1>3 DEF SaleArrives, CheckoutFails, CartBecomes, CheckoutAt
<1>6. cart' \in [Tills -> SUBSET Lines] /\ doubtful' \subseteq Lines /\ gone' \subseteq Lines
      /\ doubtful \subseteq doubtful' /\ pending' \in [Tills -> Pending]
  BY <1>1, <1>2, <1>5 DEF Pending
<1>7. /\ TillTypeOK' /\ (paused \in [Tills -> SUBSET SUBSET Lines])'
  BY <1>1, <1>2, <1>6 DEF TillInv, TillTypeOK, Pending
<1>8. \A u \in Tills \ {t} : cart'[u] = cart[u] /\ pending'[u] = pending[u]
  BY <1>1, <1>2, <1>5
<1>9. cart'[t] = {} \/ cart'[t] = cart[t]  BY <1>1, <1>5
<1>10. Accounted'
  <2> SUFFICES ASSUME NEW l \in scanned
               PROVE  \/ sold[l] > 0 \/ l \in gone' \/ \E u \in Tills : l \in cart'[u]
                      \/ \E sale \in stored : l \in sale
    BY <1>2 DEF Accounted
  <2>1. l \in Lines  BY TillTypes DEF TillInv
  <2>2. CASE l \in cart[t] /\ cart' # cart
    <3>1. checkout[c].at = "committed" /\ gone' = gone \cup (cart[t] \ checkout[c].lines)
      BY <1>4, <1>5, <2>2
    <3>2. l \in checkout[c].lines => sold[l] > 0  BY <2>1, <3>1 DEF TillInv, SoldByCheckout
    <3> QED  BY <2>2, <3>1, <3>2
  <2>3. CASE l \notin cart[t] \/ cart' = cart
    BY <1>5, <1>8, <2>3 DEF TillInv, Accounted
  <2> QED  BY <2>2, <2>3
<1>11. ASSUME NEW l \in Lines \ doubtful' PROVE InOnePlace(l)'
  <2>1. l \in Lines /\ l \notin doubtful /\ InOnePlace(l)  BY <1>6 DEF TillInv
  <2>2. CASE l \notin cart'[t]  BY <1>2, <1>8, <2>1, <2>2, PlaceKept
  <2>3. CASE l \in cart'[t]
    <3>1. l \in cart[t] /\ cart' = cart /\ gone' = gone
      BY <1>1, <1>5, <1>9, <2>3
    <3>2. ASSUME NEW d \in Checkouts PROVE ~Carries(d, l)
      <4>1. Carries(d, l) => c = d  BY <1>3, <2>1, <3>1 DEF InOnePlace
      <4>2. ~Carries(c, l)
        BY <1>1, <1>4, <1>5, <2>3 DEF Carries
      <4> QED  BY <4>1, <4>2
    <3>3. \A d \in Checkouts : ~(Carries(d, l))'  BY <1>2, <3>2 DEF Carries
    <3> QED  BY <1>2, <2>1, <3>1, <3>3 DEF InOnePlace, InPaused
  <2> QED  BY <2>2, <2>3
<1>12. t \in opened' \/ (cart'[t] = {} /\ paused'[t] = {})
  BY <1>2, <1>9 DEF TillInv, ClosedEmpty
<1>13. \A l \in Lines : (InPaused(t, l))' => InPaused(t, l)  BY <1>2 DEF InPaused
<1> QED  BY <1>2, <1>6, <1>7, <1>8, <1>9, <1>10, <1>11, <1>12, <1>13, LinesMove

\* The list of a till replaces the stored one.
LEMMA ListBecomes ==
    ASSUME TillInv, NEW t \in Tills, NEW list \in SUBSET SUBSET Lines, PausedBecomes(t, list),
           \A l \in UNION paused[t] : l \in gone' \/ (\E u \in Tills : l \in cart'[u]) \/ l \in UNION list,
           \A l \in cart[t] : l \in gone' \/ l \in cart'[t] \/ l \in UNION list,
           \A u \in Tills \ {t} : cart'[u] = cart[u],
           gone \cup Overwritten(t) \subseteq gone', sold' = sold, scanned' = scanned
    PROVE  /\ paused' \in [Tills -> SUBSET SUBSET Lines] /\ paused'[t] = list /\ stored' = list
           /\ \A u \in Tills \ {t} : paused'[u] = paused[u]
           /\ Accounted'
<1>1. /\ paused \in [Tills -> SUBSET SUBSET Lines]  BY DEF TillInv
<1>2. /\ paused' = [paused EXCEPT ![t] = list] /\ stored' = list
  BY DEF PausedBecomes, StoredAfter
<1>3. ASSUME NEW l \in scanned
      PROVE  \/ sold[l] > 0 \/ l \in gone' \/ \E u \in Tills : l \in cart'[u]
             \/ \E sale \in list : l \in sale
  <2>1. CASE sold[l] > 0 \/ l \in gone  BY <2>1
  <2>2. CASE \E u \in Tills : l \in cart[u]  BY <2>2
  <2>3. ASSUME NEW sale \in stored, l \in sale
        PROVE  \/ l \in gone' \/ \E u \in Tills : l \in cart'[u]
               \/ \E other \in list : l \in other
    <3>1. CASE sale \in paused[t]  BY <2>3, <3>1
    <3>2. CASE sale \notin paused[t]  BY <2>3, <3>2 DEF Overwritten
    <3> QED  BY <3>1, <3>2
  <2> QED  BY <2>1, <2>2, <2>3 DEF TillInv, Accounted
<1>4. Accounted'  BY <1>2, <1>3 DEF Accounted
<1> QED  BY <1>1, <1>2, <1>4

\* The cart becomes a paused sale; what its checkout carries is in doubt from then on.
LEMMA PauseKeeps ==
    ASSUME TillInv, NEW t \in Tills, Pause(t)
    PROVE  TillInv'
<1> DEFINE list == paused[t] \cup {cart[t]}
<1>1. /\ cart \in [Tills -> SUBSET Lines] /\ paused \in [Tills -> SUBSET SUBSET Lines]
      /\ doubtful \subseteq Lines /\ gone \subseteq Lines /\ cart[t] \subseteq Lines
      /\ paused[t] \subseteq SUBSET Lines /\ Overwritten(t) \subseteq Lines
      /\ pending \in [Tills -> Pending]
  BY TillTypes, TillRead DEF TillInv, Overwritten
<1>2. /\ PausedBecomes(t, list) /\ cart' = [cart EXCEPT ![t] = {}]
      /\ doubtful' = doubtful \cup (cart[t] \cap InCheckout(t))
      /\ gone' = gone \cup Overwritten(t)
      /\ UNCHANGED <<pending, checkout, sold, scanned, opened>>
  BY DEF Pause, CartBecomes
<1>3. cart'[t] = {} /\ \A u \in Tills \ {t} : cart'[u] = cart[u]  BY <1>1, <1>2
<1>4. list \in SUBSET SUBSET Lines  BY <1>1
<1>5. (\A l \in UNION paused[t] : l \in UNION list) /\ \A l \in cart[t] : l \in UNION list
  OBVIOUS
<1>6. /\ paused' \in [Tills -> SUBSET SUBSET Lines] /\ paused'[t] = list /\ stored' = list
      /\ \A u \in Tills \ {t} : paused'[u] = paused[u]
      /\ Accounted'
  <2> HIDE DEF list
  <2> QED  BY <1>2, <1>3, <1>4, <1>5, ListBecomes
<1>7. /\ cart' \in [Tills -> SUBSET Lines] /\ doubtful' \subseteq Lines /\ gone' \subseteq Lines
      /\ doubtful \subseteq doubtful' /\ stored' \subseteq SUBSET Lines
  BY <1>1, <1>2, <1>4, <1>6
<1>8. TillTypeOK'
  BY <1>1, <1>2, <1>4, <1>6, <1>7 DEF TillInv, TillTypeOK
<1>9. ASSUME NEW l \in Lines \ doubtful' PROVE InOnePlace(l)'
  <2>1. l \in Lines /\ l \notin doubtful /\ InOnePlace(l)  BY <1>7 DEF TillInv
  <2>2. CASE l \notin cart[t]
    <3>1. l \notin cart'[t]  BY <1>3
    <3>2. CASE (InPaused(t, l))'
      <4>1. \A u \in Tills : (InPaused(u, l))' => InPaused(u, l)
        BY <1>6, <2>2 DEF InPaused
      <4>2. \A u \in Tills : l \in cart'[u] => l \in cart[u] /\ pending'[u] = pending[u]
        BY <1>2, <1>3
      <4>3. \A d \in Checkouts : Carries(d, l)' <=> Carries(d, l)  BY <1>2 DEF Carries
      <4>4. \A u \in Tills : \A one \in paused'[u] : l \in one => one \in paused[u]
        BY <1>6, <2>2
      <4> QED  BY <2>1, <4>1, <4>2, <4>3, <4>4 DEF InOnePlace
    <3>3. CASE ~(InPaused(t, l))'  BY <1>2, <1>3, <1>6, <2>1, <3>1, <3>3, PlaceKept
    <3> QED  BY <3>2, <3>3
  <2>3. CASE l \in cart[t]
    <3>1. \A d \in Checkouts : ~Carries(d, l)
      <4> SUFFICES ASSUME NEW d \in Checkouts, Carries(d, l) PROVE FALSE  OBVIOUS
      <4>1. pending[t] = d /\ d # NoCheckout  BY <2>1, <2>3, TillAssumption DEF InOnePlace
      <4> QED  BY <1>2, <2>3, <4>1 DEF InCheckout, Carries
    <3>2. \A d \in Checkouts : ~(Carries(d, l))'  BY <1>2, <3>1 DEF Carries
    <3>3. \A u \in Tills : ~InPaused(u, l) /\ (u # t => l \notin cart[u])
      BY <2>1, <2>3 DEF InOnePlace
    <3>4. \A u \in Tills : ((InPaused(u, l))' => u = t) /\ l \notin cart'[u]
      BY <1>3, <1>6, <3>3 DEF InPaused
    <3>5. \A u \in Tills : \A one \in paused'[u] : l \in one => u = t /\ one = cart[t]
      BY <1>6, <3>3 DEF InPaused
    <3> QED  BY <3>2, <3>4, <3>5 DEF InOnePlace
  <2> QED  BY <2>2, <2>3
<1>10. t \in opened' \/ (cart'[t] = {} /\ paused'[t] = {})
  <2>1. \E l \in Lines : l \in cart[t]  BY <1>1 DEF Pause
  <2>2. t \in opened  BY <2>1 DEF TillInv, ClosedEmpty
  <2> QED  BY <1>2, <2>2
<1>11. \A l \in Lines : (InPaused(t, l))' => l \in cart[t] \/ InPaused(t, l)
  BY <1>6 DEF InPaused
<1> HIDE DEF list
<1> QED  BY <1>2, <1>3, <1>6, <1>7, <1>8, <1>9, <1>10, <1>11, LinesMove

\* A paused sale that is resumed takes the place of the cart, and one that is deleted
\* leaves the list; its lines were nowhere else.
LEMMA ResumeKeeps ==
    ASSUME TillInv, NEW t \in Tills, NEW sale \in paused[t], Resume(t, sale) \/ DeletePaused(t, sale)
    PROVE  TillInv'
<1> DEFINE list == paused[t] \ {sale}
<1>1. /\ cart \in [Tills -> SUBSET Lines] /\ paused \in [Tills -> SUBSET SUBSET Lines]
      /\ gone \subseteq Lines /\ cart[t] \subseteq Lines
      /\ paused[t] \subseteq SUBSET Lines /\ Overwritten(t) \subseteq Lines /\ sale \subseteq Lines
  BY TillTypes, TillRead DEF TillInv, Overwritten
<1>2. /\ PausedBecomes(t, list)
      /\ \/ cart' = [cart EXCEPT ![t] = sale] /\ gone' = gone \cup Overwritten(t) \cup (cart[t] \ sale)
         \/ cart' = cart /\ gone' = gone \cup Overwritten(t) \cup sale
      /\ UNCHANGED <<pending, checkout, sold, scanned, opened, doubtful>>
  BY DEF Resume, DeletePaused, CartBecomes
<1>3. /\ cart'[t] = sale \/ cart'[t] = cart[t]
      /\ \A u \in Tills \ {t} : cart'[u] = cart[u]
  BY <1>1, <1>2
<1>4. list \in SUBSET SUBSET Lines  BY <1>1
<1>5. \A l \in UNION paused[t] :
        l \in gone' \/ (\E u \in Tills : l \in cart'[u]) \/ l \in UNION list
  BY <1>1, <1>2
<1>6. \A l \in cart[t] : l \in gone' \/ l \in cart'[t] \/ l \in UNION list
  BY <1>1, <1>2
<1>7. /\ paused' \in [Tills -> SUBSET SUBSET Lines] /\ paused'[t] = list /\ stored' = list
      /\ \A u \in Tills \ {t} : paused'[u] = paused[u]
      /\ Accounted'
  <2> HIDE DEF list
  <2> QED  BY <1>2, <1>3, <1>4, <1>5, <1>6, ListBecomes
<1>8. /\ cart' \in [Tills -> SUBSET Lines] /\ gone' \subseteq Lines /\ stored' \subseteq SUBSET Lines
  BY <1>1, <1>2, <1>4, <1>7
<1>9. TillTypeOK'
  BY <1>1, <1>2, <1>4, <1>7, <1>8 DEF TillInv, TillTypeOK
<1>10. /\ \A l \in Lines : (InPaused(t, l))' => InPaused(t, l)
       /\ \A l \in Lines : l \in cart'[t] => l \in cart[t] \/ InPaused(t, l)
  BY <1>3, <1>7 DEF InPaused
<1>11. ASSUME NEW l \in Lines \ doubtful' PROVE InOnePlace(l)'
  <2>1. l \in Lines /\ l \notin doubtful /\ InOnePlace(l)  BY <1>2 DEF TillInv
  <2>2. CASE l \in cart'[t] => l \in cart[t]
    BY <1>2, <1>3, <1>7, <2>1, <2>2, PlaceKept
  <2>3. CASE l \in cart'[t] /\ l \notin cart[t]
    <3>1. l \in sale /\ InPaused(t, l)  BY <1>3, <2>3 DEF InPaused
    <3>2. \A d \in Checkouts : ~Carries(d, l)  BY <2>1, <3>1 DEF InOnePlace
    <3>3. \A d \in Checkouts : ~(Carries(d, l))'  BY <1>2, <3>2 DEF Carries
    <3>4. \A u \in Tills : l \in cart'[u] => u = t
      BY <1>3, <2>1, <3>1 DEF InOnePlace
    <3>5. \A u \in Tills : \A one \in paused[u] : l \in one => u = t /\ one = sale
      BY <2>1, <3>1 DEF InOnePlace, InPaused
    <3>6. \A u \in Tills : ~(InPaused(u, l))'
      BY <1>7, <3>5 DEF InPaused
    <3> QED  BY <3>3, <3>4, <3>6 DEF InOnePlace, InPaused
  <2> QED  BY <2>2, <2>3
<1>12. t \in opened' \/ (cart'[t] = {} /\ paused'[t] = {})
  BY <1>2 DEF TillInv, ClosedEmpty
<1> HIDE DEF list
<1> QED  BY <1>2, <1>3, <1>7, <1>8, <1>9, <1>10, <1>11, <1>12, LinesMove

\* A line is scanned once, and is in its cart only.
LEMMA ScanKeeps ==
    ASSUME TillInv, NEW t \in Tills, NEW x \in Lines, Scan(t, x)
    PROVE  TillInv'
<1>1. cart \in [Tills -> SUBSET Lines] /\ scanned \subseteq Lines
  BY TillTypes DEF TillInv
<1>2. /\ t \in opened /\ x \notin scanned
      /\ cart' = [cart EXCEPT ![t] = cart[t] \cup {x}] /\ scanned' = scanned \cup {x}
      /\ UNCHANGED <<paused, stored, pending, checkout, sold, opened, doubtful, gone>>
  BY DEF Scan, CartBecomes
<1>3. /\ cart'[t] = cart[t] \cup {x} /\ \A u \in Tills \ {t} : cart'[u] = cart[u]
  BY <1>1, <1>2
<1>4. TillTypeOK' /\ (paused \in [Tills -> SUBSET SUBSET Lines])'
  BY <1>1, <1>2 DEF TillInv, TillTypeOK
<1>5. OnlyScanned(x)  BY DEF TillInv
<1>6. Accounted' /\ StoredByTill' /\ ClosedEmpty'
  <2>1. \A u \in Tills : cart[u] \subseteq cart'[u]  BY <1>3
  <2>2. Accounted'  BY <1>2, <1>3, <2>1 DEF TillInv, Accounted
  <2>3. StoredByTill'  BY <1>2 DEF TillInv, StoredByTill
  <2>4. ClosedEmpty'  BY <1>2, <1>3 DEF TillInv, ClosedEmpty
  <2> QED  BY <2>2, <2>3, <2>4
<1>7. ASSUME NEW l \in Lines PROVE OnlyScanned(l)' /\ SoldByCheckout(l)'
  <2>1. SoldByCheckout(l)'  BY <1>2 DEF TillInv, SoldByCheckout
  <2>2. CASE l = x  BY <1>2, <2>1, <2>2 DEF OnlyScanned
  <2>3. CASE l # x
    BY <1>2, <1>3, <2>1, <2>3 DEF TillInv, OnlyScanned, InPaused
  <2> QED  BY <2>2, <2>3
<1>8. ASSUME NEW l \in Lines \ doubtful' PROVE InOnePlace(l)'
  <2>1. l \in Lines /\ l \notin doubtful /\ InOnePlace(l)  BY <1>2 DEF TillInv
  <2>2. CASE l # x
    BY <1>2, <1>3, <2>1, <2>2, PlaceKept
  <2>3. CASE l = x
    <3>1. /\ \A d \in Checkouts : ~(Carries(d, l))'
          /\ \A u \in Tills : ~(InPaused(u, l))'
      BY <1>2, <1>5, <2>3 DEF OnlyScanned, Carries, InPaused
    <3>2. \A u \in Tills : l \in cart'[u] => u = t
      BY <1>2, <1>3, <1>5, <2>3 DEF OnlyScanned
    <3> QED  BY <3>1, <3>2 DEF InOnePlace, InPaused
  <2> QED  BY <2>2, <2>3
<1> QED  BY <1>4, <1>6, <1>7, <1>8 DEF TillInv

\* A step of a checkout alone keeps what is said of the pages.
LEMMA PagesKept ==
    ASSUME TillInv, UNCHANGED <<cart, paused, stored, scanned, opened, doubtful, gone>>,
           pending' \in [Tills -> Pending], checkout' \in [Checkouts -> Asked],
           sold' \in [Lines -> Nat], \A l \in Lines : sold[l] > 0 => sold'[l] > 0
    PROVE  /\ TillTypeOK' /\ (paused \in [Tills -> SUBSET SUBSET Lines])'
           /\ Accounted' /\ StoredByTill' /\ ClosedEmpty'
<1>1. scanned \subseteq Lines  BY TillTypes DEF TillInv
<1>2. TillTypeOK' /\ (paused \in [Tills -> SUBSET SUBSET Lines])'
  BY DEF TillInv, TillTypeOK, Asked, Pending
<1>3. Accounted'  BY <1>1 DEF TillInv, Accounted
<1>4. StoredByTill' /\ ClosedEmpty'  BY DEF TillInv, StoredByTill, ClosedEmpty
<1> QED  BY <1>2, <1>3, <1>4

\* What a cart holds is carried by no checkout while its till waits for none.
LEMMA SentKeeps ==
    ASSUME TillInv, NEW t \in Tills, NEW c \in Checkouts, CheckoutSent(t, c)
    PROVE  TillInv'
<1>1. /\ cart \in [Tills -> SUBSET Lines] /\ pending \in [Tills -> Pending]
      /\ checkout \in [Checkouts -> Asked] /\ sold \in [Lines -> Nat]
      /\ cart[t] \subseteq Lines
  BY TillTypes, TillRead DEF TillInv
<1>2. /\ pending[t] = NoCheckout /\ checkout[c].at = "new"
      /\ checkout' = [checkout EXCEPT ![c] = [at |-> "sent", lines |-> cart[t]]]
      /\ pending' = [pending EXCEPT ![t] = c]
      /\ UNCHANGED <<cart, paused, stored, sold, scanned, opened, doubtful, gone>>
  BY DEF CheckoutSent, CheckoutAt
<1>3. /\ checkout'[c].at = "sent" /\ checkout'[c].lines = cart[t]
      /\ \A d \in Checkouts \ {c} : checkout'[d] = checkout[d]
      /\ pending'[t] = c /\ \A u \in Tills \ {t} : pending'[u] = pending[u]
  BY <1>1, <1>2
<1>4. checkout' \in [Checkouts -> Asked] /\ pending' \in [Tills -> Pending]
  <2>1. [at |-> "sent", lines |-> cart[t]] \in Asked  BY <1>1 DEF Asked
  <2>2. c \in Pending  BY DEF Pending
  <2> QED  BY <1>1, <1>2, <2>1, <2>2
<1>5. /\ TillTypeOK' /\ (paused \in [Tills -> SUBSET SUBSET Lines])'
      /\ Accounted' /\ StoredByTill' /\ ClosedEmpty'
  BY <1>1, <1>2, <1>4, PagesKept
<1>6. ASSUME NEW l \in Lines PROVE OnlyScanned(l)'
  <2> SUFFICES ASSUME l \notin scanned PROVE OnlyScanned(l)'  BY <1>2 DEF OnlyScanned
  <2>1. /\ sold[l] = 0 /\ \A d \in Checkouts : l \notin checkout[d].lines
        /\ \A u \in Tills : l \notin cart[u] /\ ~InPaused(u, l)
    BY DEF TillInv, OnlyScanned
  <2>2. \A d \in Checkouts : l \notin checkout'[d].lines  BY <1>3, <2>1
  <2> QED  BY <1>2, <2>1, <2>2 DEF OnlyScanned, InPaused
<1>7. ASSUME NEW l \in Lines PROVE SoldByCheckout(l)'
  <2>1. \A d \in Checkouts :
          l \in checkout'[d].lines /\ checkout'[d].at = "committed" <=>
            l \in checkout[d].lines /\ checkout[d].at = "committed"
    BY <1>2, <1>3
  <2> QED  BY <1>2, <2>1 DEF TillInv, SoldByCheckout
<1>8. ASSUME NEW l \in Lines \ doubtful' PROVE InOnePlace(l)'
  <2>1. l \in Lines /\ InOnePlace(l)  BY <1>2 DEF TillInv
  <2>2. \A d \in Checkouts : (Carries(d, l))' <=> (IF d = c THEN l \in cart[t] ELSE Carries(d, l))
    BY <1>3 DEF Carries
  <2>3. l \in cart[t] => \A d \in Checkouts : ~Carries(d, l)
    BY <1>2, <2>1, TillAssumption DEF InOnePlace
  <2>4. \A d \in Checkouts, e \in Checkouts : (Carries(d, l))' /\ (Carries(e, l))' => d = e
    BY <2>1, <2>2, <2>3 DEF InOnePlace
  <2>5. \A u \in Tills : (InPaused(u, l))' <=> InPaused(u, l)  BY <1>2 DEF InPaused
  <2>6. \A d \in Checkouts, u \in Tills :
          (Carries(d, l))' => ~InPaused(u, l) /\ (l \in cart[u] => pending'[u] = d)
    <3> SUFFICES ASSUME NEW d \in Checkouts, NEW u \in Tills, (Carries(d, l))'
                 PROVE  ~InPaused(u, l) /\ (l \in cart[u] => pending'[u] = d)
      OBVIOUS
    <3>1. CASE d = c  BY <1>3, <2>1, <2>2, <3>1 DEF InOnePlace
    <3>2. CASE d # c
      <4>1. Carries(d, l)  BY <2>2, <3>2
      <4>2. ~InPaused(u, l) /\ (l \in cart[u] => pending[u] = d)  BY <2>1, <4>1 DEF InOnePlace
      <4>3. l \notin cart[t]  BY <2>3, <4>1
      <4> QED  BY <1>3, <4>2, <4>3
    <3> QED  BY <3>1, <3>2
  <2> QED  BY <1>2, <2>1, <2>4, <2>5, <2>6 DEF InOnePlace
<1> QED  BY <1>2, <1>5, <1>6, <1>7, <1>8 DEF TillInv

\* A checkout that commits is the only one that carries its lines, so they were not sold.
LEMMA CommitsKeeps ==
    ASSUME TillInv, NEW c \in Checkouts, CheckoutCommits(c)
    PROVE  TillInv'
<1>1. /\ checkout \in [Checkouts -> Asked] /\ sold \in [Lines -> Nat]
      /\ pending \in [Tills -> Pending]
  BY TillTypes DEF TillInv
<1>2. /\ checkout[c].at = "sent" /\ checkout' = [checkout EXCEPT ![c].at = "committed"]
      /\ sold' = [l \in Lines |-> sold[l] + IF l \in checkout[c].lines THEN 1 ELSE 0]
      /\ UNCHANGED <<cart, paused, stored, pending, scanned, opened, doubtful, gone>>
  BY DEF CheckoutCommits, CheckoutAt
<1>3. /\ checkout'[c].at = "committed" /\ checkout'[c].lines = checkout[c].lines
      /\ \A d \in Checkouts \ {c} : checkout'[d] = checkout[d]
      /\ checkout' \in [Checkouts -> Asked]
  BY <1>1, <1>2 DEF Asked
<1>4. /\ sold' \in [Lines -> Nat]
      /\ \A l \in Lines : sold'[l] = IF l \in checkout[c].lines THEN sold[l] + 1 ELSE sold[l]
  BY <1>1, <1>2
<1>5. /\ TillTypeOK' /\ (paused \in [Tills -> SUBSET SUBSET Lines])'
      /\ Accounted' /\ StoredByTill' /\ ClosedEmpty'
  <2>1. \A l \in Lines : sold[l] > 0 => sold'[l] > 0  BY <1>1, <1>4
  <2> QED  BY <1>1, <1>2, <1>3, <1>4, <2>1, PagesKept
<1>6. ASSUME NEW l \in Lines PROVE OnlyScanned(l)'
  BY <1>2, <1>3, <1>4 DEF TillInv, OnlyScanned, InPaused
<1>7. ASSUME NEW l \in Lines PROVE SoldByCheckout(l)'
  <2>1. SoldByCheckout(l) /\ (l \in doubtful \/ InOnePlace(l)) /\ sold[l] \in Nat
    BY <1>1 DEF TillInv
  <2>2. CASE l \in checkout[c].lines
    <3>1. l \notin doubtful => sold[l] = 0
      <4> SUFFICES ASSUME l \notin doubtful, sold[l] # 0 PROVE FALSE  OBVIOUS
      <4>1. PICK d \in Checkouts : l \in checkout[d].lines /\ checkout[d].at = "committed"
        BY <2>1 DEF SoldByCheckout
      <4>2. Carries(c, l) /\ Carries(d, l)  BY <1>2, <2>2, <4>1 DEF Carries
      <4>3. c = d  BY <2>1, <4>2 DEF InOnePlace
      <4> QED  BY <1>2, <4>1, <4>3
    <3>2. sold'[l] = sold[l] + 1  BY <1>4, <2>2
    <3> QED  BY <1>2, <1>3, <2>1, <2>2, <3>1, <3>2 DEF SoldByCheckout
  <2>3. CASE l \notin checkout[c].lines
    <3>1. \A d \in Checkouts :
            l \in checkout'[d].lines /\ checkout'[d].at = "committed" <=>
              l \in checkout[d].lines /\ checkout[d].at = "committed"
      BY <1>3, <2>3
    <3> QED  BY <1>2, <1>4, <2>1, <2>3, <3>1 DEF SoldByCheckout
  <2> QED  BY <2>2, <2>3
<1>8. ASSUME NEW l \in Lines \ doubtful' PROVE InOnePlace(l)'
  <2>1. InOnePlace(l)  BY <1>2 DEF TillInv
  <2>2. \A d \in Checkouts : (Carries(d, l))' <=> Carries(d, l)  BY <1>2, <1>3 DEF Carries
  <2> QED  BY <1>2, <2>1, <2>2 DEF InOnePlace, InPaused
<1> QED  BY <1>2, <1>5, <1>6, <1>7, <1>8 DEF TillInv

\* A checkout that is refused carries nothing any more.
LEMMA RefusedKeeps ==
    ASSUME TillInv, NEW c \in Checkouts, CheckoutRefused(c)
    PROVE  TillInv'
<1>1. /\ checkout \in [Checkouts -> Asked] /\ sold \in [Lines -> Nat]
      /\ pending \in [Tills -> Pending]
  BY TillTypes DEF TillInv
<1>2. /\ checkout[c].at = "sent" /\ checkout' = [checkout EXCEPT ![c].at = "refused"]
      /\ UNCHANGED <<cart, paused, stored, pending, sold, scanned, opened, doubtful, gone>>
  BY DEF CheckoutRefused, CheckoutAt
<1>3. /\ checkout'[c].at = "refused" /\ checkout'[c].lines = checkout[c].lines
      /\ \A d \in Checkouts \ {c} : checkout'[d] = checkout[d]
      /\ checkout' \in [Checkouts -> Asked]
  BY <1>1, <1>2 DEF Asked
<1>4. /\ TillTypeOK' /\ (paused \in [Tills -> SUBSET SUBSET Lines])'
      /\ Accounted' /\ StoredByTill' /\ ClosedEmpty'
  BY <1>1, <1>2, <1>3, PagesKept
<1>5. ASSUME NEW l \in Lines PROVE OnlyScanned(l)'
  BY <1>2, <1>3 DEF TillInv, OnlyScanned, InPaused
<1>6. ASSUME NEW l \in Lines PROVE SoldByCheckout(l)'
  <2>1. \A d \in Checkouts :
          l \in checkout'[d].lines /\ checkout'[d].at = "committed" <=>
            l \in checkout[d].lines /\ checkout[d].at = "committed"
    BY <1>2, <1>3
  <2> QED  BY <1>2, <2>1 DEF TillInv, SoldByCheckout
<1>7. ASSUME NEW l \in Lines \ doubtful' PROVE InOnePlace(l)'
  <2>1. InOnePlace(l)  BY <1>2 DEF TillInv
  <2>2. \A d \in Checkouts : (Carries(d, l))' => Carries(d, l)  BY <1>2, <1>3 DEF Carries
  <2> QED  BY <1>2, <2>1, <2>2 DEF InOnePlace, InPaused
<1> QED  BY <1>2, <1>4, <1>5, <1>6, <1>7 DEF TillInv

---------------------------------------------------------------------------
(* Till: the theorem *)

\* At first there is nothing.
LEMMA TillInitKeeps ==
    ASSUME TillInit
    PROVE  TillInv
<1>1. TillTypeOK /\ paused \in [Tills -> SUBSET SUBSET Lines]
  BY DEF TillInit, TillTypeOK
<1>2. Accounted /\ StoredByTill /\ ClosedEmpty
  BY DEF TillInit, Accounted, StoredByTill, ClosedEmpty
<1>3. ASSUME NEW l \in Lines PROVE OnlyScanned(l) /\ SoldByCheckout(l) /\ InOnePlace(l)
  <2>1. OnlyScanned(l)  BY DEF TillInit, OnlyScanned, InPaused
  <2>2. SoldByCheckout(l)  BY DEF TillInit, SoldByCheckout
  <2>3. InOnePlace(l)  BY DEF TillInit, InOnePlace, InPaused, Carries
  <2> QED  BY <2>1, <2>2, <2>3
<1> QED  BY <1>1, <1>2, <1>3 DEF TillInv

\* One lemma for each kind of step.
LEMMA TillNextKeeps ==
    ASSUME TillInv, TillNext
    PROVE  TillInv'
<1>1. ASSUME NEW t \in Tills, TillOpens(t) PROVE TillInv'  BY <1>1, TillOpensKeeps
<1>2. ASSUME NEW t \in Tills, SaleArrives(t) \/ CheckoutFails(t) PROVE TillInv'
  BY <1>2, AnswerKeeps
<1>3. ASSUME NEW t \in Tills, Pause(t) PROVE TillInv'  BY <1>3, PauseKeeps
<1>4. ASSUME NEW t \in Tills, NEW l \in Lines, Scan(t, l) PROVE TillInv'  BY <1>4, ScanKeeps
<1>5. ASSUME NEW t \in Tills, NEW l \in Lines, Discard(t, l) PROVE TillInv'
  BY <1>5, DiscardKeeps
<1>6. ASSUME NEW t \in Tills, NEW c \in Checkouts, CheckoutSent(t, c) PROVE TillInv'
  BY <1>6, SentKeeps
<1>7. ASSUME NEW t \in Tills, NEW sale \in paused[t], Resume(t, sale) \/ DeletePaused(t, sale)
      PROVE  TillInv'
  BY <1>7, ResumeKeeps
<1>8. ASSUME NEW c \in Checkouts, CheckoutCommits(c) \/ CheckoutRefused(c) PROVE TillInv'
  BY <1>8, CommitsKeeps, RefusedKeeps
<1> QED  BY <1>1, <1>2, <1>3, <1>4, <1>5, <1>6, <1>7, <1>8 DEF TillNext

\* A step of another service changes nothing here.
LEMMA TillRest ==
    ASSUME TillInv, UNCHANGED tillVars
    PROVE  TillInv'
<1>1. TillTypeOK' /\ Accounted' /\ StoredByTill' /\ ClosedEmpty'
  BY DEF tillVars, TillInv, TillTypeOK, Accounted, StoredByTill, ClosedEmpty
<1>2. (paused \in [Tills -> SUBSET SUBSET Lines])'  BY DEF tillVars, TillInv
<1>3. ASSUME NEW l \in Lines PROVE (OnlyScanned(l) /\ SoldByCheckout(l) /\ (l \in doubtful \/ InOnePlace(l)))'
  BY DEF tillVars, TillInv, OnlyScanned, SoldByCheckout, InOnePlace, InPaused, Carries
<1> QED  BY <1>1, <1>2, <1>3 DEF TillInv

\* The invariant, from the steps.
LEMMA TillAlways == TillSpec => []TillInv
<1>1. TillInit => TillInv  BY TillInitKeeps
<1>2. TillInv /\ [TillNext]_tillVars => TillInv'  BY TillNextKeeps, TillRest
<1> QED  BY <1>1, <1>2, PTL DEF TillSpec

\* The tills alone: what was scanned is sold once or in doubt, and sold, in a place the
\* cashier can see, or gone by a step that says so (page.tsx:466-509, usePausedSales.ts:17-36).
THEOREM LinesSoldOnce == TillSpec => []LinesReachOneSale
<1>1. TillInv => LinesReachOneSale
  BY TillTypes DEF TillInv, SoldByCheckout, LinesReachOneSale, SoldOnce
<1> QED  BY <1>1, TillAlways, PTL

---------------------------------------------------------------------------
(* Reports: every step keeps the invariant *)

SoldRows == [status : {"NONE", "COMPLETED", "RETURNED_PARTIAL", "CANCELLED"},
             created : Ticks \cup {Never}, cancelled : Ticks \cup {Never},
             returns : [Ticks -> Nat], cleared : BOOLEAN]
Readings == [at : {"new", "second", "done"}, key : ReportKeys, counted : SUBSET ReportSales]
Entries == [counted : SUBSET ReportSales, summed : SUBSET ReportSales, stored : BOOLEAN]

\* The types, by the names used here.
LEMMA ReportTypes ==
    ReportsTypeOK <=>
        /\ now \in Ticks /\ soldRow \in [ReportSales -> SoldRows]
        /\ cancellation \in [Cancellations -> ReportSales \cup {"new", "done"}]
        /\ reading \in [ReportReads -> Readings] /\ cached \in [ReportKeys -> Entries]
        /\ racing \subseteq ReportSales
BY DEF ReportsTypeOK, SoldRows, Readings, Entries

\* The sales a report must have counted.
Due == {s \in CompletedSales \ racing : soldRow[s].cleared}

\* A step that makes none of them keeps what the reports show.
LEMMA ShownKept ==
    ASSUME ReportsInv, Due' \subseteq Due
    PROVE  /\ cached'["dashboard"] = cached["dashboard"] => DashboardShowsSales'
           /\ \A r \in ReportReads : reading'[r] = reading[r] => CountedAll(r)'
<1>1. ASSUME cached'["dashboard"] = cached["dashboard"] PROVE DashboardShowsSales'
  BY <1>1 DEF ReportsInv, DashboardShowsSales, Due
<1>2. ASSUME NEW r \in ReportReads, reading'[r] = reading[r] PROVE CountedAll(r)'
  BY <1>2 DEF ReportsInv, CountedAll, Due
<1> QED  BY <1>1, <1>2

\* The clock, and what a cancellation reads.
LEMMA TickKeeps ==
    ASSUME ReportsInv, Tick \/ \E c \in Cancellations : SaleChangeRead(c)
    PROVE  ReportsInv'
<1>1. UNCHANGED <<soldRow, reading, cached, racing>>  BY DEF Tick, SaleChangeRead
<1>2. ReportsTypeOK'
  <2>1. now' \in Ticks  BY ReportsAssumption DEF ReportsInv, ReportsTypeOK, Tick, SaleChangeRead, Ticks
  <2>2. (cancellation \in [Cancellations -> ReportSales \cup {"new", "done"}])'
    BY DEF ReportsInv, ReportsTypeOK, Tick, SaleChangeRead, CompletedSales
  <2> QED  BY <1>1, <2>1, <2>2 DEF ReportsInv, ReportsTypeOK
<1>3. Due' = Due  BY <1>1 DEF CompletedSales, Due
<1>4. DashboardShowsSales' /\ \A r \in ReportReads : CountedAll(r)'
  BY <1>1, <1>3, ShownKept
<1>5. \A s \in ReportSales : Plain(soldRow'[s])  BY <1>1 DEF ReportsInv
<1> QED  BY <1>1, <1>2, <1>4, <1>5 DEF ReportsInv

\* A step that writes one row, which no report must have counted that need not before.
LEMMA RowKept ==
    ASSUME ReportsInv, NEW s \in ReportSales, NEW row \in SoldRows,
           soldRow' = [soldRow EXCEPT ![s] = row], Plain(row), UNCHANGED <<now, reading>>,
           (cancellation \in [Cancellations -> ReportSales \cup {"new", "done"}])',
           cached' \in [ReportKeys -> Entries], racing \subseteq racing', racing' \subseteq ReportSales,
           row.status = "COMPLETED" /\ row.cleared => s \in Due \cup racing',
           cached'["dashboard"] = cached["dashboard"] \/ ~cached'["dashboard"].stored
    PROVE  ReportsInv'
<1>1. soldRow \in [ReportSales -> SoldRows] /\ soldRow' \in [ReportSales -> SoldRows]
      /\ soldRow'[s] = row /\ \A t \in ReportSales \ {s} : soldRow'[t] = soldRow[t]
  BY ReportTypes DEF ReportsInv
<1>2. ReportsTypeOK'  BY <1>1, ReportTypes DEF ReportsInv, ReportsTypeOK, SoldRows, Entries
<1>3. \A t \in ReportSales : Plain(soldRow'[t])  BY <1>1 DEF ReportsInv
<1>4. Due' \subseteq Due  BY <1>1 DEF Due, CompletedSales
<1>5. DashboardShowsSales'  BY <1>4, ShownKept DEF DashboardShowsSales
<1>6. \A r \in ReportReads : CountedAll(r)'  BY <1>4, ShownKept
<1> QED  BY <1>2, <1>3, <1>5, <1>6 DEF ReportsInv

\* A sale is committed before the dashboards are cleared, and one that is cleared with a
\* report under way races with it.
LEMMA SaleKeeps ==
    ASSUME ReportsInv, NEW s \in ReportSales, SaleCommits(s) \/ SaleClears(s)
    PROVE  ReportsInv'
<1> DEFINE sold1 == [soldRow[s] EXCEPT !.status = "COMPLETED", !.created = now]
           cleared1 == [soldRow[s] EXCEPT !.cleared = TRUE]
<1>1. /\ now \in Ticks /\ soldRow \in [ReportSales -> SoldRows] /\ cached \in [ReportKeys -> Entries]
      /\ racing \subseteq ReportSales /\ soldRow[s] \in SoldRows /\ Plain(soldRow[s])
      /\ cancellation \in [Cancellations -> ReportSales \cup {"new", "done"}]
  BY ReportTypes DEF ReportsInv
<1>2. CASE SaleCommits(s)
  <2>1. sold1 \in SoldRows /\ sold1.status = "COMPLETED" /\ sold1.cancelled = soldRow[s].cancelled
        /\ sold1.returns = soldRow[s].returns /\ sold1.cleared = soldRow[s].cleared
    BY <1>1 DEF SoldRows
  <2>2. soldRow' = [soldRow EXCEPT ![s] = sold1] /\ UNCHANGED <<now, cancellation, reading, cached, racing>>
    BY <1>2 DEF SaleCommits
  <2>3. ~sold1.cleared  BY <1>1, <1>2, <2>1 DEF SaleCommits, Plain
  <2>4. Plain(sold1)  BY <1>1, <2>1 DEF Plain
  <2> HIDE DEF sold1
  <2> QED  BY <1>1, <2>1, <2>2, <2>3, <2>4, RowKept
<1>3. CASE SaleClears(s)
  <2>1. cleared1 \in SoldRows /\ cleared1.status = soldRow[s].status
        /\ cleared1.cancelled = soldRow[s].cancelled /\ cleared1.returns = soldRow[s].returns
    BY <1>1 DEF SoldRows
  <2>2. /\ soldRow' = [soldRow EXCEPT ![s] = cleared1] /\ soldRow[s].status # "NONE"
        /\ cached' = [k \in ReportKeys |-> IF ClearedBySale(k) THEN NoEntry ELSE cached[k]]
        /\ racing' = racing \cup
              (IF \E r \in ReportReads : reading[r].at = "second" THEN {s} ELSE {})
        /\ UNCHANGED <<now, cancellation, reading>>
    BY <1>3 DEF SaleClears
  <2>3. Plain(cleared1)  BY <1>1, <2>1, <2>2 DEF Plain
  <2>4. NoEntry \in Entries /\ ~NoEntry.stored  BY DEF NoEntry, Entries
  <2>5. cached' \in [ReportKeys -> Entries] /\ cached'["dashboard"] = NoEntry
    BY <1>1, <2>2, <2>4 DEF ClearedBySale, ReportKeys
  <2>6. CASE \E r \in ReportReads : reading[r].at = "second"
    <3>1. s \in racing' /\ racing \subseteq racing' /\ racing' \subseteq ReportSales  BY <1>1, <2>2, <2>6
    <3> HIDE DEF cleared1
    <3> QED  BY <1>1, <2>1, <2>2, <2>3, <2>4, <2>5, <3>1, RowKept
  <2>7. CASE \A r \in ReportReads : reading[r].at # "second"
    <3>1. racing' = racing  BY <2>2, <2>7
    <3>2. ReportsTypeOK'
      <4>1. soldRow' \in [ReportSales -> SoldRows]
        <5> HIDE DEF cleared1
        <5> QED  BY <1>1, <2>1, <2>2
      <4> QED  BY <1>1, <2>2, <2>5, <3>1, <4>1, ReportTypes DEF ReportsInv, ReportsTypeOK, SoldRows, Entries
    <3>3. \A t \in ReportSales : Plain(soldRow'[t])
      <4> HIDE DEF cleared1
      <4> QED  BY <1>1, <2>2, <2>3 DEF ReportsInv
    <3>4. DashboardShowsSales'  BY <2>4, <2>5 DEF DashboardShowsSales
    <3>5. \A r \in ReportReads : CountedAll(r)'  BY <2>2, <2>7 DEF CountedAll
    <3> QED  BY <3>2, <3>3, <3>4, <3>5 DEF ReportsInv
  <2> QED  BY <2>6, <2>7
<1> QED  BY <1>2, <1>3

\* A sale that is cancelled or returned is completed no more.
LEMMA ChangeKeeps ==
    ASSUME ReportsInv, NEW c \in Cancellations, SaleChangeWrite(c)
    PROVE  ReportsInv'
<1> DEFINE s == cancellation[c]
           partial == [soldRow[s] EXCEPT !.status = "RETURNED_PARTIAL"]
<1>1. /\ now \in Ticks /\ soldRow \in [ReportSales -> SoldRows] /\ cached \in [ReportKeys -> Entries]
      /\ racing \subseteq ReportSales /\ s \in ReportSales /\ soldRow[s] \in SoldRows /\ Plain(soldRow[s])
      /\ cancellation \in [Cancellations -> ReportSales \cup {"new", "done"}]
  BY ReportTypes DEF ReportsInv, SaleChangeWrite
<1>2. /\ \/ soldRow' = [soldRow EXCEPT ![s] = Cancelled(soldRow[s])]
         \/ soldRow' = [soldRow EXCEPT ![s] = partial]
      /\ cancellation' = [cancellation EXCEPT ![c] = "done"]
      /\ UNCHANGED <<now, reading, cached, racing>>
  BY DEF SaleChangeWrite
<1>3. (cancellation \in [Cancellations -> ReportSales \cup {"new", "done"}])'  BY <1>1, <1>2
<1>4. /\ partial \in SoldRows /\ partial.status = "RETURNED_PARTIAL"
      /\ partial.cancelled = soldRow[s].cancelled /\ partial.returns = soldRow[s].returns
  BY <1>1 DEF SoldRows
<1>5. /\ Cancelled(soldRow[s]) \in SoldRows /\ Cancelled(soldRow[s]).status = "CANCELLED"
      /\ Cancelled(soldRow[s]).cancelled = now
  <2> DEFINE row == soldRow[s]
             returns == [row.returns EXCEPT ![now] = row.returns[now] + 1]
  <2>1. row.returns \in [Ticks -> Nat] /\ row.returns[now] \in Nat  BY <1>1 DEF SoldRows
  <2>2. returns \in [Ticks -> Nat]  BY <1>1, <2>1
  <2>3. Cancelled(row) = [row EXCEPT !.status = "CANCELLED", !.cancelled = now, !.returns = returns]
    BY DEF Cancelled
  <2> HIDE DEF returns
  <2> QED  BY <1>1, <2>2, <2>3 DEF SoldRows
<1>6. now # Never  BY <1>1, ReportsAssumption DEF Ticks, Never
<1>7. PICK row \in SoldRows :
        /\ soldRow' = [soldRow EXCEPT ![s] = row] /\ Plain(row) /\ row.status # "COMPLETED"
  <2>1. Plain(partial)  BY <1>1, <1>4 DEF Plain
  <2>2. Plain(Cancelled(soldRow[s]))  BY <1>5, <1>6 DEF Plain
  <2> HIDE DEF partial
  <2> QED  BY <1>2, <1>4, <1>5, <2>1, <2>2
<1> HIDE DEF s
<1> QED  BY <1>1, <1>2, <1>3, <1>7, RowKept

\* A report has counted the sales there were when it began; what it stores shows them.
LEMMA ReportKeeps ==
    ASSUME ReportsInv, NEW r \in ReportReads, ReportBegin(r) \/ ReportStore(r)
    PROVE  ReportsInv'
<1>1. /\ reading \in [ReportReads -> Readings] /\ cached \in [ReportKeys -> Entries]
      /\ reading[r] \in Readings
  BY ReportTypes DEF ReportsInv
<1>2. /\ reading' = [reading EXCEPT ![r] = reading'[r]]
      /\ \/ reading'[r] = [NotReading EXCEPT !.at = "done"]
         \/ \E key \in ReportKeys :
              reading'[r] = [at |-> "second", key |-> key, counted |-> CompletedSales]
      /\ UNCHANGED <<now, soldRow, cancellation, racing>>
  BY <1>1 DEF ReportBegin, ReportStore, ReportAnswer
<1>3. reading'[r] \in Readings /\ reading' \in [ReportReads -> Readings]
  <2>1. reading'[r] \in Readings
    BY <1>2 DEF NotReading, Readings, ReportKeys, CompletedSales
  <2> QED  BY <1>1, <1>2, <2>1
<1>4. CompletedSales' = CompletedSales /\ Due' \subseteq Due  BY <1>2 DEF CompletedSales, Due
<1>5. \A q \in ReportReads : CountedAll(q)'
  <2>1. CountedAll(r)'
    <3>1. CASE reading'[r] = [NotReading EXCEPT !.at = "done"]
      <4>1. reading'[r].at = "done"  BY <3>1 DEF NotReading
      <4> QED  BY <4>1 DEF CountedAll
    <3>2. CASE \E key \in ReportKeys :
                 reading'[r] = [at |-> "second", key |-> key, counted |-> CompletedSales]
      <4>1. reading'[r].counted = CompletedSales  BY <3>2
      <4> QED  BY <1>4, <4>1 DEF CountedAll
    <3> QED  BY <1>2, <3>1, <3>2
  <2>2. \A q \in ReportReads \ {r} : reading'[q] = reading[q]  BY <1>1, <1>2
  <2>3. \A q \in ReportReads \ {r} : CountedAll(q)'  BY <1>4, <2>2, ShownKept
  <2> QED  BY <2>1, <2>3
<1>6. CASE cached' = cached
  <2>1. DashboardShowsSales'  BY <1>4, <1>6, ShownKept
  <2>2. ReportsTypeOK'  BY <1>2, <1>3, <1>6, ReportTypes DEF ReportsInv, ReportsTypeOK, Readings
  <2> QED  BY <1>2, <1>5, <2>1, <2>2 DEF ReportsInv
<1>7. CASE ReportStore(r)
  <2> DEFINE entry == [counted |-> reading[r].counted, summed |-> CompletedSales, stored |-> TRUE]
  <2>1. /\ reading[r].at = "second" /\ cached' = [cached EXCEPT ![reading[r].key] = entry]
        /\ entry.counted = reading[r].counted /\ entry.summed = CompletedSales
    BY <1>7 DEF ReportStore
  <2>2. entry \in Entries /\ reading[r].key \in ReportKeys
    BY <1>1 DEF Entries, Readings, CompletedSales
  <2>3. CountedAll(r)  BY DEF ReportsInv
  <2> HIDE DEF entry
  <2>4. cached' \in [ReportKeys -> Entries]  BY <1>1, <2>1, <2>2
  <2>5. ReportsTypeOK'  BY <1>2, <1>3, <2>4, ReportTypes DEF ReportsInv, ReportsTypeOK, Readings, Entries
  <2>6. CASE reading[r].key = "dashboard"
    <3>1. cached'["dashboard"] = entry  BY <1>1, <2>1, <2>2, <2>6
    <3>2. \A t \in CompletedSales \ racing : soldRow[t].cleared => t \in entry.counted \cap entry.summed
      BY <2>1, <2>3 DEF CountedAll
    <3>3. DashboardShowsSales'  BY <1>2, <1>4, <3>1, <3>2 DEF DashboardShowsSales
    <3> QED  BY <1>2, <1>5, <2>5, <3>3 DEF ReportsInv
  <2>7. CASE reading[r].key # "dashboard"
    <3>1. cached'["dashboard"] = cached["dashboard"]  BY <1>1, <2>1, <2>7 DEF ReportKeys
    <3>2. DashboardShowsSales'  BY <1>4, <3>1, ShownKept
    <3> QED  BY <1>2, <1>5, <2>5, <3>2 DEF ReportsInv
  <2> QED  BY <2>6, <2>7
<1> QED  BY <1>6, <1>7 DEF ReportBegin

\* An answer that has expired shows nothing.
LEMMA ExpiresKeeps ==
    ASSUME ReportsInv, ReportExpires
    PROVE  ReportsInv'
<1>1. PICK key \in ReportKeys : cached' = [cached EXCEPT ![key] = NoEntry]  BY DEF ReportExpires
<1>2. cached \in [ReportKeys -> Entries] /\ UNCHANGED <<now, soldRow, cancellation, reading, racing>>
  BY ReportTypes DEF ReportsInv, ReportExpires
<1>3. NoEntry \in Entries /\ ~NoEntry.stored  BY DEF NoEntry, Entries
<1>4. cached' \in [ReportKeys -> Entries]  BY <1>1, <1>2, <1>3
<1>5. ReportsTypeOK'  BY <1>2, <1>4 DEF ReportsInv, ReportsTypeOK, Entries
<1>6. Due' \subseteq Due  BY <1>2 DEF Due, CompletedSales
<1>7. DashboardShowsSales'
  <2>1. CASE key = "dashboard"
    <3>1. cached'["dashboard"] = NoEntry  BY <1>1, <1>2, <2>1 DEF ReportKeys
    <3> QED  BY <1>3, <3>1 DEF DashboardShowsSales
  <2>2. CASE key # "dashboard"
    <3>1. cached'["dashboard"] = cached["dashboard"]  BY <1>1, <1>2, <2>2 DEF ReportKeys
    <3> QED  BY <1>6, <3>1, ShownKept
  <2> QED  BY <2>1, <2>2
<1>8. \A r \in ReportReads : CountedAll(r)'  BY <1>2, <1>6, ShownKept
<1> QED  BY <1>2, <1>5, <1>7, <1>8 DEF ReportsInv

\* At first nothing is sold, read or cached.
LEMMA ReportsInitKeeps ==
    ASSUME ReportsInit
    PROVE  ReportsInv
<1>1. \A t \in Ticks : Unsold.returns[t] = 0  BY DEF Unsold
<1>2. Unsold \in SoldRows /\ Plain(Unsold)
  <2>1. Unsold.returns \in [Ticks -> Nat]  BY DEF Unsold
  <2> QED  BY <1>1, <2>1 DEF Unsold, SoldRows, Plain
<1>3. NotReading \in Readings /\ NoEntry \in Entries /\ ~NoEntry.stored /\ NotReading.at = "new"
  BY DEF NotReading, Readings, NoEntry, Entries, ReportKeys
<1>4. ReportsTypeOK
  BY <1>2, <1>3, ReportTypes, ReportsAssumption DEF ReportsInit, Ticks
<1>5. DashboardShowsSales  BY <1>3 DEF ReportsInit, DashboardShowsSales, ReportKeys
<1>6. \A r \in ReportReads : CountedAll(r)  BY <1>3 DEF ReportsInit, CountedAll
<1> QED  BY <1>2, <1>4, <1>5, <1>6 DEF ReportsInit, ReportsInv

\* One lemma for each kind of step.
LEMMA ReportsNextKeeps ==
    ASSUME ReportsInv, [ReportsNext]_reportVars
    PROVE  ReportsInv'
<1>1. CASE UNCHANGED reportVars
  <2>1. Due' \subseteq Due  BY <1>1 DEF reportVars, Due, CompletedSales
  <2>2. DashboardShowsSales' /\ \A r \in ReportReads : CountedAll(r)'
    BY <1>1, <2>1, ShownKept DEF reportVars
  <2> QED  BY <1>1, <2>2 DEF reportVars, ReportsInv, ReportsTypeOK
<1> QED  BY <1>1, TickKeeps, SaleKeeps, ChangeKeeps, ReportKeeps, ExpiresKeeps DEF ReportsNext

\* The invariant, from the steps.
LEMMA ReportsAlways == ReportsSpec => []ReportsInv
<1>1. ReportsInit => ReportsInv  BY ReportsInitKeeps
<1> QED  BY <1>1, ReportsNextKeeps, PTL DEF ReportsSpec

\* Sales and reports alone: a cached dashboard shows every sale whose checkout has ended,
\* but those that raced with a report (sales.service.ts:282, reports.service.ts:632-775).
THEOREM DashboardShown == ReportsSpec => []DashboardShowsSales
BY ReportsAlways, PTL DEF ReportsInv

---------------------------------------------------------------------------
(* Reports: what a sale adds to a period *)

Once(instant, period) == IF In(instant, period) THEN 1 ELSE 0
ReturnsIn(row, period) == {t \in Ticks : In(t, period) /\ row.returns[t] > 0}

\* The contribution, by parts: the sale, its cancellation and its returns.
LEMMA ContributionParts ==
    ASSUME NEW row, NEW period
    PROVE  Contribution(row, period) =
               Once(row.created, period) - Once(row.cancelled, period)
                 - (IF row.status = "CANCELLED" THEN 0 ELSE Cardinality(ReturnsIn(row, period)))
BY DEF Contribution, Once, ReturnsIn

\* A sale without returns adds itself and its cancellation.
LEMMA NothingReturned ==
    ASSUME NEW row, NEW period, row.status = "CANCELLED" \/ \A t \in Ticks : row.returns[t] = 0
    PROVE  Contribution(row, period) = Once(row.created, period) - Once(row.cancelled, period)
<1>1. row.status # "CANCELLED" => ReturnsIn(row, period) = {}  BY DEF ReturnsIn
<1>2. row.status # "CANCELLED" => Cardinality(ReturnsIn(row, period)) = 0  BY <1>1, FS_EmptySet
<1>3. Once(row.created, period) \in Int /\ Once(row.cancelled, period) \in Int  BY DEF Once
<1> QED  BY <1>2, <1>3, ContributionParts

\* What happens now is in no period that is over.
LEMMA NotInThePast ==
    ASSUME ReportsInv, NEW date \in 0..LastTick, EndOfDay(date) < now
    PROVE  /\ Once(now, [gte |-> StartOfDay(date), lte |-> EndOfDay(date)]) = 0
           /\ Once(Never, [gte |-> StartOfDay(date), lte |-> EndOfDay(date)]) = 0
BY ReportsAssumption DEF ReportsInv, ReportsTypeOK, Ticks, EndOfDay, OneDay, Once, In

\* A step on a sale that is not cancelled, with a day that is over.
LEMMA DayKept ==
    ASSUME ReportsInv, ReportsNext, NEW s \in ReportSales, soldRow'[s] # soldRow[s],
           soldRow[s].cancelled = Never, NEW date \in 0..LastTick, EndOfDay(date) < now
    PROVE  Contribution(soldRow'[s], [gte |-> StartOfDay(date), lte |-> EndOfDay(date)])
             = Contribution(soldRow[s], [gte |-> StartOfDay(date), lte |-> EndOfDay(date)])
<1> DEFINE day == [gte |-> StartOfDay(date), lte |-> EndOfDay(date)]
<1>1. /\ now \in Ticks /\ soldRow \in [ReportSales -> SoldRows] /\ soldRow[s] \in SoldRows
      /\ Plain(soldRow[s]) /\ Once(now, day) = 0 /\ Once(Never, day) = 0
  BY ReportTypes, NotInThePast DEF ReportsInv
<1>2. /\ soldRow[s].status # "CANCELLED" /\ \A t \in Ticks : soldRow[s].returns[t] = 0
  BY <1>1 DEF Plain
<1> HIDE DEF day
<1>3. Contribution(soldRow[s], day) = Once(soldRow[s].created, day)
  <2>1. Once(soldRow[s].created, day) \in Int  BY DEF Once
  <2> QED  BY <1>1, <1>2, <2>1, NothingReturned
<1>4. ASSUME NEW t \in ReportSales, SaleCommits(t) \/ SaleClears(t)
      PROVE  Contribution(soldRow'[s], day) = Contribution(soldRow[s], day)
  <2>1. t = s  BY <1>1, <1>4 DEF SaleCommits, SaleClears
  <2>2. /\ soldRow'[s].returns = soldRow[s].returns /\ soldRow'[s].cancelled = Never
        /\ \/ soldRow'[s].created = soldRow[s].created
           \/ soldRow[s].created = Never /\ soldRow'[s].created = now
    BY <1>1, <1>4, <2>1 DEF SaleCommits, SaleClears, SoldRows, Plain
  <2>3. Once(soldRow'[s].created, day) = Once(soldRow[s].created, day)  BY <1>1, <2>2
  <2>4. Once(soldRow[s].created, day) \in Int  BY DEF Once
  <2>5. Contribution(soldRow'[s], day) = Once(soldRow'[s].created, day) - Once(soldRow'[s].cancelled, day)
    BY <1>2, <2>2, NothingReturned
  <2> QED  BY <1>1, <1>3, <2>2, <2>3, <2>4, <2>5
<1>5. ASSUME NEW c \in Cancellations, SaleChangeWrite(c)
      PROVE  Contribution(soldRow'[s], day) = Contribution(soldRow[s], day)
  <2>1. cancellation[c] = s
    BY <1>1, <1>5 DEF SaleChangeWrite
  <2>2. \/ soldRow'[s] = Cancelled(soldRow[s])
        \/ soldRow'[s] = [soldRow[s] EXCEPT !.status = "RETURNED_PARTIAL"]
    BY <1>1, <1>5, <2>1 DEF SaleChangeWrite
  <2>3. /\ soldRow'[s].created = soldRow[s].created /\ soldRow'[s].cancelled \in {now, Never}
        /\ soldRow'[s].status = "CANCELLED" \/ soldRow'[s].returns = soldRow[s].returns
    BY <1>1, <2>2 DEF Cancelled, SoldRows
  <2>4. Once(soldRow[s].created, day) \in Int  BY DEF Once
  <2>5. Contribution(soldRow'[s], day) = Once(soldRow'[s].created, day) - Once(soldRow'[s].cancelled, day)
    BY <1>2, <2>3, NothingReturned
  <2> QED  BY <1>1, <1>3, <2>3, <2>4, <2>5
<1>6. CASE UNCHANGED soldRow  BY <1>6
<1> QED
  BY <1>4, <1>5, <1>6 DEF day, ReportsNext, Tick, ReportExpires, SaleChangeRead, ReportBegin, ReportStore

\* Sales and reports alone: a day that is over is booked for good (reports.service.ts:340-379).
THEOREM ClosedDaysBooked == ReportsSpec => ClosedDaysStayBooked
<1>1. ReportsInv /\ [ReportsNext]_reportVars =>
        [\A s \in {sale \in ReportSales : soldRow'[sale] # soldRow[sale]}, date \in 0..LastTick :
          /\ EndOfDay(date) < now
          /\ soldRow[s].cancelled = Never
          => LET day == [gte |-> StartOfDay(date), lte |-> EndOfDay(date)]
             IN Contribution(soldRow'[s], day) = Contribution(soldRow[s], day)]_reportVars
  BY DayKept
<1> QED  BY <1>1, ReportsAlways, PTL DEF ReportsSpec, ClosedDaysStayBooked

\* Two periods that meet book together what the period that covers both does.
LEMMA PeriodsAdd ==
    ASSUME NEW row \in SoldRows, NEW a \in Int, NEW b \in Int, NEW c \in Int, a <= b, b <= c
    PROVE  Contribution(row, [gte |-> a, lte |-> b - 1]) + Contribution(row, [gte |-> b, lte |-> c])
             = Contribution(row, [gte |-> a, lte |-> c])
<1> DEFINE before == [gte |-> a, lte |-> b - 1]
           after == [gte |-> b, lte |-> c]
           both == [gte |-> a, lte |-> c]
<1>1. \A i \in Ticks \cup {Never} : i \in Int  BY ReportsAssumption DEF Ticks, Never
<1>2. \A i \in Ticks \cup {Never} :
        /\ In(i, both) <=> In(i, before) \/ In(i, after)
        /\ ~(In(i, before) /\ In(i, after))
  BY <1>1 DEF In
<1> HIDE DEF before, after, both
<1>3. \A i \in Ticks \cup {Never} : Once(i, before) + Once(i, after) = Once(i, both)
  BY <1>2 DEF Once
<1>4. \A S \in SUBSET Ticks : IsFiniteSet(S)
  <2>1. IsFiniteSet(0..LastTick)  BY FS_Interval, ReportsAssumption
  <2> QED  BY <2>1, FS_Subset DEF Ticks
<1>5. /\ IsFiniteSet(ReturnsIn(row, before)) /\ IsFiniteSet(ReturnsIn(row, after))
      /\ IsFiniteSet(ReturnsIn(row, both))
  BY <1>4 DEF ReturnsIn
<1>6. /\ ReturnsIn(row, both) = ReturnsIn(row, before) \cup ReturnsIn(row, after)
      /\ ReturnsIn(row, before) \cap ReturnsIn(row, after) = {}
  BY <1>2 DEF ReturnsIn
<1>7. Cardinality(ReturnsIn(row, both)) =
        Cardinality(ReturnsIn(row, before)) + Cardinality(ReturnsIn(row, after))
  <2>1. /\ Cardinality(ReturnsIn(row, before)) \in Nat /\ Cardinality(ReturnsIn(row, after)) \in Nat
    BY <1>5, FS_CardinalityType
  <2>2. Cardinality(ReturnsIn(row, before) \cup ReturnsIn(row, after)) =
          Cardinality(ReturnsIn(row, before)) + Cardinality(ReturnsIn(row, after))
            - Cardinality(ReturnsIn(row, before) \cap ReturnsIn(row, after))
    BY <1>5, FS_Union
  <2>3. Cardinality(ReturnsIn(row, before) \cap ReturnsIn(row, after)) = 0  BY <1>6, FS_EmptySet
  <2>4. Cardinality(ReturnsIn(row, both)) = Cardinality(ReturnsIn(row, before) \cup ReturnsIn(row, after))
    BY <1>6
  <2> HIDE DEF ReturnsIn
  <2> QED  BY <2>1, <2>2, <2>3, <2>4
<1>8. /\ row.created \in Ticks \cup {Never} /\ row.cancelled \in Ticks \cup {Never}  BY DEF SoldRows
<1> DEFINE back(period) == IF row.status = "CANCELLED" THEN 0 ELSE Cardinality(ReturnsIn(row, period))
<1>9. back(both) = back(before) + back(after) /\ back(before) \in Int /\ back(after) \in Int
  BY <1>5, <1>7, FS_CardinalityType
<1>10. \A i, period : Once(i, period) \in Int  BY DEF Once
<1>11. \A period : Contribution(row, period) =
         Once(row.created, period) - Once(row.cancelled, period) - back(period)
  BY ContributionParts
<1>12. Contribution(row, before) + Contribution(row, after) = Contribution(row, both)
  <2> HIDE DEF back
  <2>1. /\ Once(row.created, before) + Once(row.created, after) = Once(row.created, both)
        /\ Once(row.cancelled, before) + Once(row.cancelled, after) = Once(row.cancelled, both)
    BY <1>3, <1>8
  <2> QED  BY <1>9, <1>10, <1>11, <2>1
<1> QED  BY <1>12 DEF before, after, both

\* Whatever dates are sent, the previous period ends one instant before the reported one,
\* and both are in the right order.
LEMMA ComparisonMeets ==
    ASSUME NEW startDate \in Int, NEW endDate \in Int, NEW today \in Int
    PROVE  \E a \in Int, b \in Int, c \in Int :
             /\ a <= b /\ b <= c
             /\ ComparisonPeriod(startDate, endDate, today) =
                  [current |-> [gte |-> b, lte |-> c], previous |-> [gte |-> a, lte |-> b - 1]]
<1> DEFINE end == IF endDate = NoDate THEN today ELSE EndOfDay(endDate)
           start == IF startDate = NoDate THEN end - DefaultDays * OneDay + 1 ELSE StartOfDay(startDate)
           first == IF start > end THEN end ELSE start
           last == IF start > end THEN start ELSE end
           length == LaterOf(OneDay, last - first + 1)
<1>1. end \in Int  BY DEF EndOfDay, OneDay
<1>2. start \in Int  BY <1>1 DEF StartOfDay, OneDay, DefaultDays
<1>3. first \in Int /\ last \in Int /\ first <= last  BY <1>1, <1>2
<1>4. length \in Int /\ length >= 0  BY <1>3 DEF LaterOf, OneDay
<1>5. ComparisonPeriod(startDate, endDate, today) =
        [current |-> [gte |-> first, lte |-> last],
         previous |-> [gte |-> first - length, lte |-> first - 1]]
  BY DEF ComparisonPeriod, PreviousPeriod
<1> HIDE DEF end, start, first, last, length
<1>6. first - length \in Int /\ first - length <= first  BY <1>3, <1>4
<1> QED
  <2> USE <1>3, <1>6
  <2> WITNESS first - length \in Int, first \in Int, last \in Int
  <2> QED  BY <1>5

\* Sales and reports alone: the compared periods meet (reports.service.ts:177-217).
THEOREM PeriodsAlwaysMeet == ReportsSpec => []PeriodsMeet
<1>1. ASSUME ReportsInv PROVE PeriodsMeet
  <2> SUFFICES ASSUME NEW s \in ReportSales,
                      NEW startDate \in {NoDate} \cup 0..(LastTick \div OneDay),
                      NEW endDate \in {NoDate} \cup 0..(LastTick \div OneDay)
               PROVE  LET p == ComparisonPeriod(startDate, endDate, now)
                          both == [gte |-> p.previous.gte, lte |-> p.current.lte]
                      IN Contribution(soldRow[s], p.previous) + Contribution(soldRow[s], p.current)
                           = Contribution(soldRow[s], both)
    BY DEF PeriodsMeet
  <2>1. startDate \in Int /\ endDate \in Int
    BY ReportsAssumption DEF NoDate, Never, OneDay
  <2>2. now \in Int /\ soldRow[s] \in SoldRows
    BY <1>1, ReportTypes, ReportsAssumption DEF ReportsInv, Ticks
  <2>3. PICK a \in Int, b \in Int, c \in Int :
          /\ a <= b /\ b <= c
          /\ ComparisonPeriod(startDate, endDate, now) =
               [current |-> [gte |-> b, lte |-> c], previous |-> [gte |-> a, lte |-> b - 1]]
    BY <2>1, <2>2, ComparisonMeets
  <2> QED  BY <2>2, <2>3, PeriodsAdd
<1> QED  BY <1>1, ReportsAlways, PTL

---------------------------------------------------------------------------
(* Imports: the inductive invariant *)

IdleRetry == [at |-> "new", row |-> 0, sku |-> NoSku]

\* Before the import nothing happened; a row being handled is one of the file.
JobLinked ==
    /\ job.status = "none" =>
         /\ job = NewJob /\ madeBy = {}
         /\ \A row \in Rows : rowError[row] = "none"
         /\ \A t \in ImportRetries : retry[t] = IdleRetry
    /\ JobLive /\ job.at # "next" => job.processed < FileRows /\ job.sku \in AllSkus

\* A retry works on a row that the job is past.
RetriesLinked ==
    \A t \in ImportRetries :
        /\ retry[t].row <= job.processed
        /\ Retrying(t) => retry[t].row \in Rows /\ retry[t].sku \in AllSkus

\* Whoever works now overlaps whoever else does; a retry that has not begun overlaps nobody.
OverlapKnown ==
    /\ \A i, j \in Busy : i # j => {i, j} \in rowOverlap
    /\ \A t \in ImportRetries : retry[t].at = "new" => \A both \in rowOverlap : t \notin both

\* A row or a retry makes one product, the last thing it did if it still works.
MadeOnce ==
    /\ \A a, b \in madeBy : a[1] = b[1] => a = b
    /\ \A a \in madeBy : a[1] \in Rows /\ JobLive =>
         \/ a[1] <= job.processed
         \/ a[1] = job.processed + 1 /\ job.at = "movement" /\ a[2] = job.sku
    /\ \A a \in madeBy : a[1] \in ImportRetries =>
         \/ retry[a[1]].at = "done"
         \/ retry[a[1]].at = "movement" /\ a[2] = retry[a[1]].sku

\* While rows or retries can begin, the job knows the keys of what was made, but for
\* what is being made and what lost its movement.
KeysEntered ==
    job.known \/ JobLive =>
        \A a \in madeBy : a[1] \in Busy \/ a[1] \in unmoved \/ Key(a[2]) \in job.existing

\* Whoever is about to insert a key that was made overlaps its maker, or the maker
\* lost its movement.
RowInserts == JobLive /\ job.at = "insert"
InsertsChecked ==
    \A a \in madeBy :
        /\ RowInserts /\ Key(a[2]) = Key(job.sku) =>
             {job.processed + 1, a[1]} \in rowOverlap \/ a[1] \in unmoved
        /\ \A t \in ImportRetries : retry[t].at = "insert" /\ Key(a[2]) = Key(retry[t].sku) =>
             {t, a[1]} \in rowOverlap \/ a[1] \in unmoved

\* What the counters need beside TallyAddsUp: a row the job has not handled is no
\* error, and one that is retried is still one.
ErrorsKept ==
    /\ \A row \in Rows : row > job.processed => rowError[row] = "none"
    /\ RetriedTogether \/ \A t \in ImportRetries : Retrying(t) => rowError[retry[t].row] = "pending"

ImportsInv ==
    /\ ImportsTypeOK
    /\ JobLinked
    /\ RetriesLinked
    /\ OverlapKnown
    /\ MadeOnce
    /\ KeysEntered
    /\ InsertsChecked
    /\ KeysUniqueUnlessOverlapped
    /\ ErrorsKept
    /\ TallyAddsUp

---------------------------------------------------------------------------
(* Imports: the end of a row *)

KeysOfFile == {Key(sku) : sku \in AllSkus}
SkuOrNone == AllSkus \cup {NoSku}

JobFields ==
    [status : {"none", "PROCESSING", "COMPLETED", "lost"},
     at : {"next", "insert", "movement"},
     known : BOOLEAN, sku : SkuOrNone,
     processed : 0..FileRows, imported : Nat, skipped : Nat, errors : Nat,
     existing : SUBSET KeysOfFile, seen : SUBSET KeysOfFile]

\* What the end of a row changes of the job.
LEMMA RowEndsFields ==
    ASSUME job \in JobFields, job.processed < FileRows,
           NEW counter \in {"imported", "skipped", "errors"},
           NEW existing \in SUBSET KeysOfFile, NEW seen \in SUBSET KeysOfFile,
           RowEnds(counter, existing, seen)
    PROVE  /\ job' \in JobFields
           /\ job'.status = job.status /\ job'.at = "next" /\ job'.known = job.known
           /\ job'.processed = job.processed + 1
           /\ job'.existing = existing
           /\ job'.imported = IF counter = "imported" THEN job.imported + 1 ELSE job.imported
           /\ job'.skipped = IF counter = "skipped" THEN job.skipped + 1 ELSE job.skipped
           /\ job'.errors = IF counter = "errors" THEN job.errors + 1 ELSE job.errors
  <1>. DEFINE imported == IF counter = "imported" THEN job.imported + 1 ELSE job.imported
              skipped == IF counter = "skipped" THEN job.skipped + 1 ELSE job.skipped
              errors == IF counter = "errors" THEN job.errors + 1 ELSE job.errors
              processed == job.processed + 1
  <1>1. /\ imported \in Nat /\ skipped \in Nat /\ errors \in Nat
        /\ processed \in 0..FileRows /\ NoSku \in SkuOrNone
    BY ImportsAssumption DEF JobFields, SkuOrNone
  <1>2. job' = [job EXCEPT !.at = "next", !.sku = NoSku, !.processed = processed,
                           !.imported = imported, !.skipped = skipped, !.errors = errors,
                           !.existing = existing, !.seen = seen]
    BY DEF RowEnds
  <1>. HIDE DEF imported, skipped, errors, processed
  <1>3. job' \in JobFields
    BY <1>1, <1>2 DEF JobFields
  <1>4. /\ job'.status = job.status /\ job'.at = "next" /\ job'.known = job.known
        /\ job'.processed = processed
        /\ job'.existing = existing
        /\ job'.imported = imported /\ job'.skipped = skipped /\ job'.errors = errors
    BY <1>1, <1>2 DEF JobFields
  <1>. QED BY <1>3, <1>4 DEF imported, skipped, errors, processed

RetryFields ==
    [at : {"new", "insert", "movement", "done"}, row : 0..FileRows, sku : SkuOrNone]

\* The type invariant, field by field.
LEMMA ImportsTypes ==
    ImportsTypeOK <=>
        /\ job \in JobFields
        /\ rowError \in [Rows -> {"none", "pending", "resolved"}]
        /\ retry \in [ImportRetries -> RetryFields]
        /\ skus \subseteq AllSkus
        /\ madeBy \subseteq Importers \X AllSkus
        /\ rowOverlap \subseteq SUBSET Importers
        /\ unmoved \subseteq Importers
  BY DEF ImportsTypeOK, JobFields, RetryFields, KeysOfFile, SkuOrNone

\* The rows with an error to correct.
PendingErrors == {row \in Rows : rowError[row] = "pending"}

\* There are finitely many of them.
LEMMA PendingFinite == IsFiniteSet(PendingErrors)
  <1>1. IsFiniteSet(Rows)
    BY FS_Interval, ImportsAssumption DEF Rows
  <1>. QED BY <1>1, FS_Subset DEF PendingErrors

\* Whoever made a product is a row or a retry.
LEMMA MakerKnown ==
    ASSUME ImportsInv, NEW a \in madeBy
    PROVE  a[1] \in Rows \cup ImportRetries /\ a[2] \in AllSkus
  BY DEF ImportsInv, ImportsTypeOK, Importers

\* Retries of one row that overlapped stay so: a retry keeps its row.
LEMMA TogetherKept ==
    ASSUME ImportsInv, rowOverlap \subseteq rowOverlap',
           \A t \in ImportRetries : retry[t].at # "new" => retry'[t].row = retry[t].row
    PROVE  RetriedTogether => RetriedTogether'
  <1>. SUFFICES ASSUME NEW s \in ImportRetries, NEW t \in ImportRetries, s # t,
                       retry[s].row = retry[t].row, {s, t} \in rowOverlap
                PROVE  RetriedTogether'
    BY DEF RetriedTogether
  <1>1. retry[s].at # "new" /\ retry[t].at # "new"
    BY DEF ImportsInv, OverlapKnown
  <1>. QED BY <1>1 DEF RetriedTogether

\* A step of another user.
LEMMA OthersInv ==
    ASSUME ImportsInv, UNCHANGED <<job, rowError, retry, madeBy, rowOverlap, unmoved>>,
           skus' \subseteq AllSkus
    PROVE  ImportsInv'
  <1>1. ImportsTypeOK'
    BY DEF ImportsInv, ImportsTypeOK
  <1>2. JobLinked' /\ RetriesLinked'
    BY DEF ImportsInv, JobLinked, RetriesLinked, JobLive, Retrying
  <1>3. Busy' = Busy
    BY DEF Busy, Handling, JobLive, Retrying
  <1>4. OverlapKnown' /\ MadeOnce' /\ KeysEntered' /\ InsertsChecked'
    BY <1>3 DEF ImportsInv, OverlapKnown, MadeOnce, KeysEntered, InsertsChecked, RowInserts, JobLive
  <1>5. KeysUniqueUnlessOverlapped'
    BY DEF ImportsInv, KeysUniqueUnlessOverlapped
  <1>6. ErrorsKept' /\ TallyAddsUp'
    BY DEF ImportsInv, ErrorsKept, TallyAddsUp, RetriedTogether, Retrying
  <1>. QED BY <1>1, <1>2, <1>4, <1>5, <1>6 DEF ImportsInv

\* The end of a row keeps the invariant: its product, if there is one, is known from
\* now on by its key, or lost its movement.
LEMMA RowEndsInv ==
    ASSUME ImportsInv, JobLive, job.processed < FileRows,
           NEW counter \in {"imported", "skipped", "errors"},
           NEW existing \in SUBSET KeysOfFile, NEW seen \in SUBSET KeysOfFile,
           job.existing \subseteq existing,
           RowEnds(counter, existing, seen),
           rowError' = IF counter = "errors" THEN [rowError EXCEPT ![job.processed + 1] = "pending"]
                       ELSE rowError,
           UNCHANGED <<retry, skus, madeBy, rowOverlap>>,
           unmoved \subseteq unmoved', unmoved' \subseteq Importers,
           \A a \in madeBy : a[1] = job.processed + 1 => a[1] \in unmoved' \/ Key(a[2]) \in existing
    PROVE  ImportsInv'
  <1>. DEFINE row == job.processed + 1
  <1>1. /\ job \in JobFields
        /\ rowError \in [Rows -> {"none", "pending", "resolved"}]
        /\ retry \in [ImportRetries -> RetryFields]
        /\ skus \subseteq AllSkus
        /\ madeBy \subseteq Importers \X AllSkus
        /\ rowOverlap \subseteq SUBSET Importers
        /\ ImportRetries \cap Rows = {} /\ FileRows \in Nat
    BY ImportsTypes, ImportsAssumption DEF ImportsInv, Rows
  <1>2. /\ job' \in JobFields
        /\ job'.status = job.status /\ job'.at = "next" /\ job'.known = job.known
        /\ job'.processed = job.processed + 1
        /\ job'.existing = existing
        /\ job'.imported = IF counter = "imported" THEN job.imported + 1 ELSE job.imported
        /\ job'.skipped = IF counter = "skipped" THEN job.skipped + 1 ELSE job.skipped
        /\ job'.errors = IF counter = "errors" THEN job.errors + 1 ELSE job.errors
    BY <1>1, RowEndsFields
  <1>3. /\ row \in Rows /\ job.processed \in Nat
        /\ job.imported \in Nat /\ job.skipped \in Nat /\ job.errors \in Nat
    BY <1>1 DEF Rows, JobFields
  <1>4. ImportsTypeOK'
    <2>1. rowError' \in [Rows -> {"none", "pending", "resolved"}]
      BY <1>1, <1>3
    <2>. QED BY <1>1, <1>2, <2>1, ImportsTypes DEF ImportsTypeOK, JobFields, RetryFields,
                KeysOfFile, SkuOrNone
  <1>5. JobLinked' /\ RetriesLinked'
    <2>1. \A t \in ImportRetries : retry[t].row \in Nat
      BY <1>1 DEF RetryFields
    <2>. QED BY <1>2, <1>3, <2>1 DEF ImportsInv, JobLinked, RetriesLinked, JobLive, Retrying
  <1>6. Busy' = {t \in ImportRetries : Retrying(t)}
    BY <1>2 DEF Busy, Handling, Retrying
  <1>7. OverlapKnown'
    BY <1>6 DEF ImportsInv, OverlapKnown, Busy
  <1>8. MadeOnce'
    <2>1. \A a \in madeBy : a[1] \in Rows => a[1] \in Nat
      BY DEF Rows
    <2>. QED BY <1>2, <1>3, <2>1 DEF ImportsInv, MadeOnce, JobLive
  <1>9. KeysEntered'
    <2>. SUFFICES ASSUME NEW a \in madeBy
                  PROVE  a[1] \in Busy' \/ a[1] \in unmoved' \/ Key(a[2]) \in existing
      BY <1>2 DEF KeysEntered
    <2>1. a[1] \in Busy \/ a[1] \in unmoved \/ Key(a[2]) \in job.existing
      BY DEF ImportsInv, KeysEntered
    <2>2. a[1] \in Busy => a[1] = row \/ a[1] \in Busy'
      BY <1>3, <1>6 DEF Busy, Handling, Rows
    <2>. QED BY <2>1, <2>2
  <1>10. InsertsChecked' /\ KeysUniqueUnlessOverlapped'
    <2>1. ~RowInserts'
      BY <1>2 DEF RowInserts
    <2>2. InsertsChecked'
      BY <2>1 DEF ImportsInv, InsertsChecked
    <2>3. KeysUniqueUnlessOverlapped'
      BY DEF ImportsInv, KeysUniqueUnlessOverlapped
    <2>. QED BY <2>2, <2>3
  <1>11. /\ rowError[row] = "none"
         /\ \A r \in Rows \ {row} : rowError'[r] = rowError[r]
         /\ rowError'[row] = IF counter = "errors" THEN "pending" ELSE "none"
    <2>1. rowError[row] = "none"
      BY <1>3 DEF ImportsInv, ErrorsKept
    <2>. QED BY <1>1, <1>3, <2>1
  <1>12. RetriedTogether' = RetriedTogether
    BY DEF RetriedTogether
  <1>13. ErrorsKept'
    <2>1. ASSUME NEW r \in Rows, r > job'.processed
          PROVE  rowError'[r] = "none"
      BY <1>2, <1>3, <1>11, <2>1 DEF ImportsInv, ErrorsKept, Rows
    <2>2. ASSUME ~RetriedTogether, NEW t \in ImportRetries, Retrying(t)
          PROVE  rowError'[retry[t].row] = "pending"
      BY <1>3, <1>11, <2>2 DEF ImportsInv, ErrorsKept, RetriesLinked
    <2>. QED BY <1>12, <2>1, <2>2 DEF ErrorsKept, Retrying
  <1>14. TallyAddsUp'
    <2>1. CASE counter = "errors"
      <3>1. PendingErrors' = PendingErrors \cup {row} /\ row \notin PendingErrors
        BY <1>3, <1>11, <2>1 DEF PendingErrors
      <3>2. Cardinality(PendingErrors') = Cardinality(PendingErrors) + 1
        BY <3>1, PendingFinite, FS_AddElement
      <3>. QED
        BY <1>2, <1>3, <1>12, <2>1, <3>2 DEF ImportsInv, TallyAddsUp, PendingErrors
    <2>2. CASE counter # "errors"
      BY <1>2, <1>3, <1>12, <2>2 DEF ImportsInv, TallyAddsUp
    <2>. QED BY <2>1, <2>2
  <1>. QED BY <1>4, <1>5, <1>7, <1>8, <1>9, <1>10, <1>13, <1>14 DEF ImportsInv

---------------------------------------------------------------------------
(* Imports: the loop of the job *)

\* A row is skipped, refused, or begins next to whoever works then, with a key not entered.
LEMMA RowParseInv ==
    ASSUME ImportsInv, RowParse
    PROVE  ImportsInv'
  <1>. DEFINE row == job.processed + 1
  <1>1. /\ job \in JobFields
        /\ rowError \in [Rows -> {"none", "pending", "resolved"}]
        /\ retry \in [ImportRetries -> RetryFields]
        /\ skus \subseteq AllSkus
        /\ madeBy \subseteq Importers \X AllSkus
        /\ rowOverlap \subseteq SUBSET Importers
        /\ unmoved \subseteq Importers
        /\ ImportRetries \cap Rows = {} /\ FileRows \in Nat
    BY ImportsTypes, ImportsAssumption DEF ImportsInv, Rows
  <1>2. /\ JobLive /\ job.at = "next" /\ job.processed < FileRows
        /\ UNCHANGED <<retry, skus, madeBy, unmoved>>
    BY DEF RowParse
  <1>3. /\ row \in Rows /\ job.processed \in Nat
        /\ job.existing \in SUBSET KeysOfFile /\ job.seen \in SUBSET KeysOfFile
    BY <1>1, <1>2 DEF Rows, JobFields
  <1>4. \A a \in madeBy : a[1] # row
    <2>1. \A a \in madeBy : a[1] \in Rows => a[1] \in Nat
      BY DEF Rows
    <2>. QED BY <1>2, <1>3, <2>1 DEF ImportsInv, MadeOnce
  <1>5. PICK found \in RowKinds :
          LET sku == SkuOf(found, row)
              seen == job.seen \cup {Key(sku)}
          IN \/ /\ found = Blank
                /\ RowEnds("skipped", job.existing, job.seen)
                /\ UNCHANGED <<rowError, rowOverlap>>
             \/ /\ found = Invalid
                /\ RowFails(row, job.seen)
                /\ UNCHANGED rowOverlap
             \/ /\ found \notin {Blank, Invalid}
                /\ Duplicate(sku)
                /\ RowFails(row, seen)
                /\ UNCHANGED rowOverlap
             \/ /\ found \notin {Blank, Invalid}
                /\ ~Duplicate(sku)
                /\ job' = [job EXCEPT !.at = "insert", !.sku = sku, !.seen = seen]
                /\ rowOverlap' = rowOverlap \cup {{row, t} : t \in Busy}
                /\ UNCHANGED rowError
    BY DEF RowParse
  <1>. DEFINE sku == SkuOf(found, row)
              seen == job.seen \cup {Key(sku)}
  <1>6. CASE found = Blank /\ RowEnds("skipped", job.existing, job.seen)
             /\ UNCHANGED <<rowError, rowOverlap>>
    BY <1>1, <1>2, <1>3, <1>4, <1>6, RowEndsInv
  <1>7. CASE found = Invalid /\ RowFails(row, job.seen) /\ UNCHANGED rowOverlap
    BY <1>1, <1>2, <1>3, <1>4, <1>7, RowEndsInv DEF RowFails
  <1>8. found \notin {Blank, Invalid} => sku \in AllSkus /\ seen \in SUBSET KeysOfFile
    BY <1>3 DEF RowKinds, SkuOf, AllSkus, KeysOfFile
  <1>9. CASE found \notin {Blank, Invalid} /\ RowFails(row, seen) /\ UNCHANGED rowOverlap
    BY <1>1, <1>2, <1>3, <1>4, <1>8, <1>9, RowEndsInv DEF RowFails
  <1>10. CASE /\ found \notin {Blank, Invalid}
              /\ ~Duplicate(sku)
              /\ job' = [job EXCEPT !.at = "insert", !.sku = sku, !.seen = seen]
              /\ rowOverlap' = rowOverlap \cup {{row, t} : t \in Busy}
              /\ UNCHANGED rowError
    <2>. HIDE DEF seen, sku
    <2>1. /\ sku \in SkuOrNone /\ sku \in AllSkus /\ seen \in SUBSET KeysOfFile
      BY <1>8, <1>10 DEF SkuOrNone
    <2>2. /\ job' \in JobFields
          /\ job'.status = job.status /\ job'.at = "insert" /\ job'.known = job.known
          /\ job'.processed = job.processed /\ job'.sku = sku /\ job'.existing = job.existing
          /\ job'.imported = job.imported /\ job'.skipped = job.skipped
          /\ job'.errors = job.errors
      BY <1>1, <1>10, <2>1 DEF JobFields
    <2>3. /\ Busy' = Busy \cup {row} /\ row \notin Busy
          /\ rowOverlap \subseteq rowOverlap'
      BY <1>1, <1>2, <1>3, <1>10, <2>2 DEF Busy, Handling, JobLive, Retrying, Rows
    <2>4. Busy \subseteq Importers /\ row \in Importers
      BY <1>3 DEF Busy, Importers
    <2>5. ImportsTypeOK'
      <3>1. rowOverlap' \subseteq SUBSET Importers
        BY <1>1, <1>10, <2>4
      <3>. QED BY <1>1, <1>2, <1>10, <2>2, <3>1, ImportsTypes
                  DEF ImportsTypeOK, JobFields, RetryFields, KeysOfFile, SkuOrNone
    <2>6. JobLinked' /\ RetriesLinked'
      BY <1>2, <2>1, <2>2 DEF ImportsInv, JobLinked, RetriesLinked, JobLive, Retrying
    <2>7. OverlapKnown'
      <3>1. \A i, j \in Busy' : i # j => {i, j} \in rowOverlap'
        BY <1>10, <2>3 DEF ImportsInv, OverlapKnown
      <3>2. ASSUME NEW t \in ImportRetries, retry[t].at = "new"
            PROVE  \A both \in rowOverlap' : t \notin both
        <4>1. t \notin Busy /\ t # row
          BY <1>1, <1>3, <3>2 DEF Busy, Retrying
        <4>. QED BY <1>10, <3>2, <4>1 DEF ImportsInv, OverlapKnown
      <3>. QED BY <1>2, <3>1, <3>2 DEF OverlapKnown
    <2>8. MadeOnce'
      BY <1>2, <1>4, <2>2 DEF ImportsInv, MadeOnce, JobLive
    <2>9. KeysEntered'
      BY <1>2, <2>2, <2>3 DEF ImportsInv, KeysEntered, JobLive
    <2>10. InsertsChecked'
      <3>1. ASSUME NEW a \in madeBy, Key(a[2]) = Key(sku)
            PROVE  {row, a[1]} \in rowOverlap' \/ a[1] \in unmoved
        <4>1. a[1] \in Busy \/ a[1] \in unmoved \/ Key(a[2]) \in job.existing
          BY <1>2 DEF ImportsInv, KeysEntered
        <4>. QED BY <1>10, <3>1, <4>1 DEF Duplicate
      <3>. QED BY <1>2, <2>2, <2>3, <3>1 DEF ImportsInv, InsertsChecked
    <2>11. KeysUniqueUnlessOverlapped'
      BY <1>2, <2>3 DEF ImportsInv, KeysUniqueUnlessOverlapped
    <2>12. RetriedTogether => RetriedTogether'
      BY <1>2, <2>3 DEF RetriedTogether
    <2>13. ErrorsKept' /\ TallyAddsUp'
      BY <1>2, <1>10, <2>2, <2>12 DEF ImportsInv, ErrorsKept, TallyAddsUp, Retrying
    <2>. QED BY <2>5, <2>6, <2>7, <2>8, <2>9, <2>10, <2>11, <2>13 DEF ImportsInv
  <1>. QED BY <1>5, <1>6, <1>7, <1>9, <1>10

\* A product is made, of a key whose other makers overlapped; or the row fails.
LEMMA RowInsertInv ==
    ASSUME ImportsInv, RowInsert
    PROVE  ImportsInv'
  <1>. DEFINE row == job.processed + 1
  <1>1. /\ job \in JobFields
        /\ rowError \in [Rows -> {"none", "pending", "resolved"}]
        /\ retry \in [ImportRetries -> RetryFields]
        /\ skus \subseteq AllSkus
        /\ madeBy \subseteq Importers \X AllSkus
        /\ rowOverlap \subseteq SUBSET Importers
        /\ unmoved \subseteq Importers
        /\ ImportRetries \cap Rows = {} /\ FileRows \in Nat
    BY ImportsTypes, ImportsAssumption DEF ImportsInv, Rows
  <1>2. /\ JobLive /\ job.at = "insert" /\ job.processed < FileRows /\ job.sku \in AllSkus
        /\ UNCHANGED <<retry, rowOverlap, unmoved>>
    BY DEF RowInsert, ImportsInv, JobLinked
  <1>3. /\ row \in Rows /\ job.processed \in Nat /\ row \in Importers
        /\ job.existing \in SUBSET KeysOfFile /\ job.seen \in SUBSET KeysOfFile
    BY <1>1, <1>2 DEF Rows, JobFields, Importers
  <1>4. \A a \in madeBy : a[1] # row
    <2>1. \A a \in madeBy : a[1] \in Rows => a[1] \in Nat
      BY DEF Rows
    <2>. QED BY <1>2, <1>3, <2>1 DEF ImportsInv, MadeOnce
  <1>5. CASE RowFails(row, job.seen) /\ UNCHANGED <<skus, madeBy>>
    BY <1>1, <1>2, <1>3, <1>4, <1>5, RowEndsInv DEF RowFails
  <1>6. CASE /\ skus' = skus \cup {job.sku}
             /\ madeBy' = madeBy \cup {<<row, job.sku>>}
             /\ job' = [job EXCEPT !.at = "movement"]
             /\ UNCHANGED rowError
    <2>. DEFINE new == <<row, job.sku>>
    <2>1. /\ job' \in JobFields
          /\ job'.status = job.status /\ job'.at = "movement" /\ job'.known = job.known
          /\ job'.processed = job.processed /\ job'.sku = job.sku
          /\ job'.existing = job.existing
          /\ job'.imported = job.imported /\ job'.skipped = job.skipped
          /\ job'.errors = job.errors
      BY <1>1, <1>6 DEF JobFields
    <2>2. Busy' = Busy /\ row \in Busy
      BY <1>2, <1>3, <2>1 DEF Busy, Handling, JobLive, Retrying
    <2>3. ImportsTypeOK'
      <3>1. skus' \subseteq AllSkus /\ madeBy' \subseteq Importers \X AllSkus
        BY <1>1, <1>2, <1>3, <1>6
      <3>. QED BY <1>1, <1>2, <1>6, <2>1, <3>1, ImportsTypes
                  DEF ImportsTypeOK, JobFields, RetryFields, KeysOfFile, SkuOrNone
    <2>4. JobLinked' /\ RetriesLinked'
      BY <1>2, <2>1 DEF ImportsInv, JobLinked, RetriesLinked, JobLive, Retrying
    <2>5. OverlapKnown'
      BY <1>2, <2>2 DEF ImportsInv, OverlapKnown
    <2>6. MadeOnce'
      <3>1. \A a, b \in madeBy' : a[1] = b[1] => a = b
        BY <1>4, <1>6 DEF ImportsInv, MadeOnce
      <3>2. ASSUME NEW a \in madeBy', a[1] \in Rows
            PROVE  \/ a[1] <= job'.processed
                   \/ a[1] = job'.processed + 1 /\ job'.at = "movement" /\ a[2] = job'.sku
        BY <1>2, <1>6, <2>1, <3>2 DEF ImportsInv, MadeOnce
      <3>3. ASSUME NEW a \in madeBy', a[1] \in ImportRetries
            PROVE  \/ retry[a[1]].at = "done"
                   \/ retry[a[1]].at = "movement" /\ a[2] = retry[a[1]].sku
        BY <1>1, <1>3, <1>6, <3>3 DEF ImportsInv, MadeOnce
      <3>. QED BY <1>2, <3>1, <3>2, <3>3 DEF MadeOnce
    <2>7. KeysEntered'
      BY <1>2, <1>6, <2>1, <2>2 DEF ImportsInv, KeysEntered, JobLive
    <2>8. ASSUME NEW t \in ImportRetries, Retrying(t)
          PROVE  {t, row} \in rowOverlap
      BY <1>1, <1>3, <2>2, <2>8 DEF ImportsInv, OverlapKnown, Busy
    <2>9. InsertsChecked'
      <3>1. ~RowInserts'
        BY <2>1 DEF RowInserts
      <3>2. ASSUME NEW a \in madeBy', NEW t \in ImportRetries, retry[t].at = "insert",
                   Key(a[2]) = Key(retry[t].sku)
            PROVE  {t, a[1]} \in rowOverlap \/ a[1] \in unmoved
        <4>1. CASE a \in madeBy
          BY <3>2, <4>1 DEF ImportsInv, InsertsChecked
        <4>2. CASE a = new
          BY <2>8, <3>2, <4>2 DEF Retrying
        <4>. QED BY <1>6, <4>1, <4>2
      <3>. QED BY <1>2, <3>1, <3>2 DEF InsertsChecked
    <2>10. KeysUniqueUnlessOverlapped'
      <3>1. ASSUME NEW a \in madeBy, Key(a[2]) = Key(job.sku)
            PROVE  {row, a[1]} \in rowOverlap \/ a[1] \in unmoved
        BY <1>2, <3>1 DEF ImportsInv, InsertsChecked, RowInserts
      <3>2. ASSUME NEW a \in madeBy', NEW b \in madeBy', a # b, Key(a[2]) = Key(b[2])
            PROVE  {a[1], b[1]} \in rowOverlap \/ {a[1], b[1]} \cap unmoved # {}
        <4>1. CASE a \in madeBy /\ b \in madeBy
          BY <3>2, <4>1 DEF ImportsInv, KeysUniqueUnlessOverlapped
        <4>2. CASE a = new /\ b \in madeBy
          BY <3>1, <3>2, <4>2
        <4>3. CASE a \in madeBy /\ b = new
          <5>1. {a[1], row} = {row, a[1]}
            OBVIOUS
          <5>. QED BY <3>1, <3>2, <4>3, <5>1
        <4>. QED BY <1>6, <3>2, <4>1, <4>2, <4>3
      <3>. QED BY <1>2, <3>2 DEF KeysUniqueUnlessOverlapped
    <2>11. ErrorsKept' /\ TallyAddsUp'
      BY <1>2, <1>6, <2>1 DEF ImportsInv, ErrorsKept, TallyAddsUp, RetriedTogether, Retrying
    <2>. QED BY <2>3, <2>4, <2>5, <2>6, <2>7, <2>9, <2>10, <2>11 DEF ImportsInv
  <1>. QED BY <1>5, <1>6 DEF RowInsert

\* The row ends with its key entered, or without its movement.
LEMMA RowMovementInv ==
    ASSUME ImportsInv, RowMovement
    PROVE  ImportsInv'
  <1>. DEFINE row == job.processed + 1
              entered == job.existing \cup {Key(job.sku)}
  <1>1. /\ job \in JobFields /\ unmoved \subseteq Importers /\ FileRows \in Nat
    BY ImportsTypes, ImportsAssumption DEF ImportsInv
  <1>2. /\ JobLive /\ job.at = "movement" /\ job.processed < FileRows /\ job.sku \in AllSkus
        /\ UNCHANGED <<retry, skus, madeBy, rowOverlap>>
    BY DEF RowMovement, ImportsInv, JobLinked
  <1>3. /\ row \in Rows /\ job.processed \in Nat /\ row \in Importers
        /\ job.existing \in SUBSET KeysOfFile /\ job.seen \in SUBSET KeysOfFile
        /\ entered \in SUBSET KeysOfFile
    BY <1>1, <1>2 DEF Rows, JobFields, Importers, KeysOfFile
  <1>4. \A a \in madeBy : a[1] = row => a[2] = job.sku
    <2>1. \A a \in madeBy : a[1] \in Rows => a[1] \in Nat
      BY DEF Rows
    <2>. QED BY <1>2, <1>3, <2>1 DEF ImportsInv, MadeOnce
  <1>5. CASE RowEnds("imported", entered, job.seen) /\ UNCHANGED <<rowError, unmoved>>
    BY <1>1, <1>2, <1>3, <1>4, <1>5, RowEndsInv
  <1>6. CASE RowFails(row, job.seen) /\ unmoved' = unmoved \cup {row}
    BY <1>1, <1>2, <1>3, <1>6, RowEndsInv DEF RowFails
  <1>. QED BY <1>5, <1>6 DEF RowMovement

\* The job ends past its last row, when no row is handled.
LEMMA JobEndsInv ==
    ASSUME ImportsInv, JobEnds
    PROVE  ImportsInv'
  <1>1. /\ job \in JobFields
        /\ rowError \in [Rows -> {"none", "pending", "resolved"}]
        /\ retry \in [ImportRetries -> RetryFields]
        /\ skus \subseteq AllSkus
        /\ madeBy \subseteq Importers \X AllSkus
        /\ rowOverlap \subseteq SUBSET Importers
        /\ unmoved \subseteq Importers
        /\ ImportRetries \cap Rows = {} /\ FileRows \in Nat
    BY ImportsTypes, ImportsAssumption DEF ImportsInv, Rows
  <1>2. /\ JobLive /\ job.processed = FileRows /\ job.at = "next"
        /\ UNCHANGED <<rowError, retry, skus, madeBy, rowOverlap, unmoved>>
    BY <1>1 DEF JobEnds, AllRows, ImportsInv, JobLinked
  <1>3. /\ job' \in JobFields
        /\ job'.status = "COMPLETED" /\ job'.at = "next" /\ job'.known = job.known
        /\ job'.processed = job.processed /\ job'.existing = job.existing
        /\ job'.imported = job.imported /\ job'.skipped = job.skipped
        /\ job'.errors = job.errors
    BY <1>1, <1>2 DEF JobEnds, JobFields
  <1>4. Busy' = Busy
    BY <1>2, <1>3 DEF Busy, Handling, Retrying
  <1>5. ImportsTypeOK'
    BY <1>1, <1>2, <1>3, ImportsTypes DEF ImportsTypeOK, JobFields, RetryFields, KeysOfFile, SkuOrNone
  <1>6. JobLinked' /\ RetriesLinked'
    BY <1>2, <1>3 DEF ImportsInv, JobLinked, RetriesLinked, JobLive, Retrying
  <1>7. OverlapKnown' /\ MadeOnce' /\ KeysEntered'
    BY <1>2, <1>3, <1>4 DEF ImportsInv, OverlapKnown, MadeOnce, KeysEntered, JobLive
  <1>8. InsertsChecked' /\ KeysUniqueUnlessOverlapped'
    BY <1>2, <1>3 DEF ImportsInv, InsertsChecked, RowInserts, KeysUniqueUnlessOverlapped
  <1>9. ErrorsKept' /\ TallyAddsUp'
    BY <1>2, <1>3 DEF ImportsInv, ErrorsKept, TallyAddsUp, RetriedTogether, Retrying
  <1>. QED BY <1>5, <1>6, <1>7, <1>8, <1>9 DEF ImportsInv

\* The job starts from nothing, with the keys of the products there are.
LEMMA StartImportInv ==
    ASSUME ImportsInv, StartImport
    PROVE  ImportsInv'
  <1>1. /\ job = NewJob /\ madeBy = {}
        /\ \A row \in Rows : rowError[row] = "none"
        /\ \A t \in ImportRetries : retry[t] = IdleRetry
        /\ skus \subseteq AllSkus
        /\ UNCHANGED <<rowError, retry, skus, madeBy, rowOverlap, unmoved>>
    BY DEF StartImport, ImportsInv, JobLinked, ImportsTypeOK
  <1>. DEFINE keys == {Key(sku) : sku \in skus}
  <1>2. /\ job \in JobFields /\ keys \in SUBSET KeysOfFile
    BY <1>1, ImportsTypes DEF ImportsInv, KeysOfFile
  <1>3. job' = [job EXCEPT !.status = "PROCESSING", !.known = TRUE, !.existing = keys]
    BY <1>1 DEF StartImport
  <1>. HIDE DEF keys
  <1>4. /\ job' \in JobFields
        /\ job'.status = "PROCESSING" /\ job'.at = "next" /\ job'.processed = 0
        /\ job'.imported = 0 /\ job'.skipped = 0 /\ job'.errors = 0
    <2>1. /\ job.at = "next" /\ job.processed = 0
          /\ job.imported = 0 /\ job.skipped = 0 /\ job.errors = 0
      BY <1>1 DEF NewJob
    <2>. QED BY <1>2, <1>3, <2>1 DEF JobFields
  <1>5. /\ ImportsTypeOK'
    BY <1>1, <1>4, ImportsTypes DEF ImportsInv, ImportsTypeOK, JobFields, RetryFields, KeysOfFile,
                                    SkuOrNone
  <1>6. \A t \in ImportRetries : retry'[t].at = "new" /\ retry'[t].row = 0
    BY <1>1 DEF IdleRetry
  <1>7. Busy' = {}
    BY <1>4, <1>6 DEF Busy, Handling, Retrying
  <1>8. JobLinked' /\ RetriesLinked'
    BY <1>4, <1>6 DEF JobLinked, RetriesLinked, JobLive, Retrying
  <1>9. OverlapKnown'
    BY <1>1, <1>7 DEF ImportsInv, OverlapKnown
  <1>10. MadeOnce' /\ KeysEntered' /\ InsertsChecked' /\ KeysUniqueUnlessOverlapped'
    BY <1>1 DEF MadeOnce, KeysEntered, InsertsChecked, KeysUniqueUnlessOverlapped
  <1>11. ErrorsKept'
    BY <1>1, <1>6 DEF ErrorsKept, Retrying
  <1>12. TallyAddsUp'
    <2>1. {row \in Rows : rowError'[row] = "pending"} = {}
      BY <1>1
    <2>. QED BY <1>4, <2>1, FS_EmptySet DEF TallyAddsUp
  <1>. QED BY <1>5, <1>8, <1>9, <1>10, <1>11, <1>12 DEF ImportsInv

---------------------------------------------------------------------------
(* Imports: the retries *)

\* A retry begins next to whoever works then, with a key not entered, or is refused.
LEMMA RetryBeginInv ==
    ASSUME ImportsInv, NEW t \in ImportRetries, RetryBegin(t)
    PROVE  ImportsInv'
  <1>1. /\ job \in JobFields
        /\ rowError \in [Rows -> {"none", "pending", "resolved"}]
        /\ retry \in [ImportRetries -> RetryFields]
        /\ skus \subseteq AllSkus
        /\ madeBy \subseteq Importers \X AllSkus
        /\ rowOverlap \subseteq SUBSET Importers
        /\ unmoved \subseteq Importers
        /\ ImportRetries \cap Rows = {} /\ FileRows \in Nat
    BY ImportsTypes, ImportsAssumption DEF ImportsInv, Rows
  <1>2. /\ retry[t].at = "new" /\ job.known
        /\ UNCHANGED <<job, rowError, skus, madeBy, unmoved>>
    BY DEF RetryBegin
  <1>3. PICK row \in Rows, sku \in AllSkus :
          /\ rowError[row] = "pending"
          /\ \/ /\ Key(sku) \notin job.existing
                /\ retry' = [retry EXCEPT ![t] = [at |-> "insert", row |-> row, sku |-> sku]]
                /\ rowOverlap' = rowOverlap \cup {{t, b} : b \in Busy}
             \/ /\ Key(sku) \in job.existing
                /\ retry' = [retry EXCEPT ![t] = [at |-> "done", row |-> row, sku |-> NoSku]]
                /\ UNCHANGED rowOverlap
    BY DEF RetryBegin, AllSkus
  <1>4. /\ row \in Nat /\ row <= job.processed /\ row \in 0..FileRows
        /\ sku \in AllSkus /\ sku \in SkuOrNone /\ NoSku \in SkuOrNone
    <2>1. row \in Nat /\ row \in 0..FileRows /\ job.processed \in Nat
      BY <1>1 DEF Rows, JobFields
    <2>2. ~(row > job.processed)
      BY <1>3 DEF ImportsInv, ErrorsKept
    <2>. QED BY <2>1, <2>2 DEF AllSkus, SkuOrNone
  <1>5. /\ retry' \in [ImportRetries -> RetryFields]
        /\ \A u \in ImportRetries \ {t} : retry'[u] = retry[u]
        /\ retry'[t].row = row /\ retry'[t].at \in {"insert", "done"}
        /\ retry'[t].at = "insert" =>
             /\ retry'[t].sku = sku /\ Key(sku) \notin job.existing
             /\ rowOverlap' = rowOverlap \cup {{t, b} : b \in Busy}
        /\ retry'[t].at = "done" => rowOverlap' = rowOverlap
    BY <1>1, <1>3, <1>4 DEF RetryFields
  <1>6. /\ Busy' = Busy \cup (IF retry'[t].at = "insert" THEN {t} ELSE {})
        /\ t \notin Busy /\ Busy \subseteq Importers /\ t \in Importers
    BY <1>1, <1>2, <1>5 DEF Busy, Handling, JobLive, Retrying, Importers
  <1>7. rowOverlap \subseteq rowOverlap'
    BY <1>5
  <1>8. ImportsTypeOK'
    <2>1. rowOverlap' \subseteq SUBSET Importers
      BY <1>1, <1>5, <1>6
    <2>. QED BY <1>1, <1>2, <1>5, <2>1, ImportsTypes
                DEF ImportsTypeOK, JobFields, RetryFields, KeysOfFile, SkuOrNone
  <1>9. JobLinked' /\ RetriesLinked'
    <2>1. job.status # "none"
      BY <1>2 DEF ImportsInv, JobLinked, NewJob
    <2>2. JobLinked'
      BY <1>2, <2>1 DEF ImportsInv, JobLinked, JobLive
    <2>3. RetriesLinked'
      BY <1>2, <1>4, <1>5 DEF ImportsInv, RetriesLinked, Retrying
    <2>. QED BY <2>2, <2>3
  <1>10. OverlapKnown'
    <2>1. \A i, j \in Busy' : i # j => {i, j} \in rowOverlap'
      BY <1>5, <1>6 DEF ImportsInv, OverlapKnown
    <2>2. ASSUME NEW u \in ImportRetries, retry'[u].at = "new"
          PROVE  \A both \in rowOverlap' : u \notin both
      <3>1. u # t /\ retry[u].at = "new" /\ u \notin Busy
        BY <1>1, <1>5, <2>2 DEF Busy, Retrying
      <3>. QED BY <1>5, <3>1 DEF ImportsInv, OverlapKnown
    <2>. QED BY <2>1, <2>2 DEF OverlapKnown
  <1>11. \A a \in madeBy : a[1] # t
    BY <1>2 DEF ImportsInv, MadeOnce
  <1>12. MadeOnce'
    BY <1>2, <1>5, <1>11 DEF ImportsInv, MadeOnce, JobLive
  <1>13. KeysEntered'
    BY <1>2, <1>6 DEF ImportsInv, KeysEntered, JobLive
  <1>14. InsertsChecked'
    <2>1. ASSUME NEW a \in madeBy, retry'[t].at = "insert", Key(a[2]) = Key(sku)
          PROVE  {t, a[1]} \in rowOverlap' \/ a[1] \in unmoved
      <3>1. a[1] \in Busy \/ a[1] \in unmoved \/ Key(a[2]) \in job.existing
        BY <1>2 DEF ImportsInv, KeysEntered
      <3>. QED BY <1>5, <2>1, <3>1
    <2>. QED BY <1>2, <1>5, <1>7, <2>1 DEF ImportsInv, InsertsChecked, RowInserts, JobLive
  <1>15. KeysUniqueUnlessOverlapped'
    BY <1>2, <1>7 DEF ImportsInv, KeysUniqueUnlessOverlapped
  <1>16. RetriedTogether => RetriedTogether'
    BY <1>2, <1>5, <1>7, TogetherKept
  <1>17. ErrorsKept' /\ TallyAddsUp'
    BY <1>2, <1>3, <1>5, <1>16 DEF ImportsInv, ErrorsKept, TallyAddsUp, Retrying
  <1>. QED BY <1>8, <1>9, <1>10, <1>12, <1>13, <1>14, <1>15, <1>17 DEF ImportsInv

\* A retry that fails leaves its row an error, and has made no product that lost no
\* movement.
LEMMA RetryFailsInv ==
    ASSUME ImportsInv, NEW t \in ImportRetries, Retrying(t), RetryFails(t), RetryEnds(t),
           UNCHANGED <<skus, madeBy, rowOverlap>>,
           unmoved \subseteq unmoved', unmoved' \subseteq Importers,
           \A a \in madeBy : a[1] = t => t \in unmoved'
    PROVE  ImportsInv'
  <1>1. /\ job \in JobFields
        /\ rowError \in [Rows -> {"none", "pending", "resolved"}]
        /\ retry \in [ImportRetries -> RetryFields]
        /\ ImportRetries \cap Rows = {} /\ FileRows \in Nat
        /\ UNCHANGED job
    BY ImportsTypes, ImportsAssumption DEF ImportsInv, Rows, RetryFails
  <1>2. retry[t].row \in Rows /\ retry[t].row <= job.processed
    BY DEF ImportsInv, RetriesLinked
  <1>3. /\ retry' \in [ImportRetries -> RetryFields]
        /\ \A u \in ImportRetries \ {t} : retry'[u] = retry[u]
        /\ retry'[t].row = retry[t].row /\ retry'[t].at = "done"
    BY <1>1 DEF RetryEnds, RetryFields, SkuOrNone
  <1>4. /\ rowError' \in [Rows -> {"none", "pending", "resolved"}]
        /\ \A row \in Rows \ {retry[t].row} : rowError'[row] = rowError[row]
        /\ rowError'[retry[t].row] = "pending"
    BY <1>1, <1>2 DEF RetryFails
  <1>5. /\ Busy' = Busy \ {t}
    BY <1>1, <1>3 DEF Busy, Handling, JobLive, Retrying
  <1>6. ImportsTypeOK'
    BY <1>1, <1>3, <1>4, ImportsTypes DEF ImportsInv, ImportsTypeOK, JobFields, RetryFields,
                                          KeysOfFile, SkuOrNone
  <1>7. job.status # "none"
    BY DEF ImportsInv, JobLinked, IdleRetry, Retrying
  <1>8. JobLinked' /\ RetriesLinked'
    BY <1>1, <1>3, <1>7 DEF ImportsInv, JobLinked, RetriesLinked, JobLive, Retrying
  <1>9. OverlapKnown'
    BY <1>3, <1>5 DEF ImportsInv, OverlapKnown
  <1>10. MadeOnce'
    BY <1>1, <1>3 DEF ImportsInv, MadeOnce, JobLive
  <1>11. KeysEntered'
    BY <1>1, <1>5 DEF ImportsInv, KeysEntered, JobLive
  <1>12. InsertsChecked' /\ KeysUniqueUnlessOverlapped'
    <2>1. RowInserts' = RowInserts /\ \A u \in ImportRetries : retry'[u].at = "insert" => u # t
      BY <1>1, <1>3 DEF RowInserts, JobLive
    <2>2. InsertsChecked'
      BY <1>1, <1>3, <2>1 DEF ImportsInv, InsertsChecked
    <2>3. KeysUniqueUnlessOverlapped'
      BY DEF ImportsInv, KeysUniqueUnlessOverlapped
    <2>. QED BY <2>2, <2>3
  <1>13. RetriedTogether => RetriedTogether'
    BY <1>3, TogetherKept
  <1>14. ErrorsKept'
    <2>1. \A row \in Rows : row > job.processed => row # retry[t].row
      BY <1>1, <1>2 DEF Rows, JobFields
    <2>2. ASSUME ~RetriedTogether, NEW u \in ImportRetries, u # t, Retrying(u)
          PROVE  rowError'[retry[u].row] = "pending"
      BY <1>4, <2>2 DEF ImportsInv, ErrorsKept, RetriesLinked
    <2>. QED BY <1>1, <1>3, <1>4, <1>13, <2>1, <2>2 DEF ImportsInv, ErrorsKept, Retrying
  <1>15. TallyAddsUp'
    <2>1. ~RetriedTogether => PendingErrors' = PendingErrors
      BY <1>2, <1>4 DEF ImportsInv, ErrorsKept, PendingErrors
    <2>. QED BY <1>1, <1>13, <2>1 DEF ImportsInv, TallyAddsUp, PendingErrors
  <1>. QED BY <1>6, <1>8, <1>9, <1>10, <1>11, <1>12, <1>14, <1>15 DEF ImportsInv

\* A retry makes a product of a key whose other makers overlapped, or fails.
LEMMA RetryInsertInv ==
    ASSUME ImportsInv, NEW t \in ImportRetries, RetryInsert(t)
    PROVE  ImportsInv'
  <1>1. /\ job \in JobFields
        /\ rowError \in [Rows -> {"none", "pending", "resolved"}]
        /\ retry \in [ImportRetries -> RetryFields]
        /\ skus \subseteq AllSkus
        /\ madeBy \subseteq Importers \X AllSkus
        /\ rowOverlap \subseteq SUBSET Importers
        /\ unmoved \subseteq Importers
        /\ ImportRetries \cap Rows = {} /\ FileRows \in Nat
    BY ImportsTypes, ImportsAssumption DEF ImportsInv, Rows
  <1>2. /\ retry[t].at = "insert" /\ Retrying(t) /\ t \in Importers
        /\ UNCHANGED <<rowOverlap, unmoved>>
    BY DEF RetryInsert, Retrying, Importers
  <1>3. \A a \in madeBy : a[1] # t
    BY <1>2 DEF ImportsInv, MadeOnce
  <1>4. CASE RetryFails(t) /\ RetryEnds(t) /\ UNCHANGED <<skus, madeBy>>
    BY <1>1, <1>2, <1>3, <1>4, RetryFailsInv
  <1>5. CASE /\ skus' = skus \cup {retry[t].sku}
             /\ madeBy' = madeBy \cup {<<t, retry[t].sku>>}
             /\ RetryGoto(t, "movement")
             /\ UNCHANGED <<job, rowError>>
    <2>. DEFINE sku == retry[t].sku
                new == <<t, sku>>
    <2>1. sku \in AllSkus /\ job.status # "none"
      BY <1>2 DEF ImportsInv, RetriesLinked, JobLinked, IdleRetry
    <2>2. /\ retry' \in [ImportRetries -> RetryFields]
          /\ \A u \in ImportRetries \ {t} : retry'[u] = retry[u]
          /\ retry'[t].row = retry[t].row /\ retry'[t].at = "movement" /\ retry'[t].sku = sku
      BY <1>1, <1>5 DEF RetryGoto, RetryFields
    <2>3. Busy' = Busy /\ t \in Busy
      BY <1>2, <1>5, <2>2 DEF Busy, Handling, JobLive, Retrying
    <2>4. ImportsTypeOK'
      <3>1. skus' \subseteq AllSkus /\ madeBy' \subseteq Importers \X AllSkus
        BY <1>1, <1>2, <1>5, <2>1
      <3>. QED BY <1>1, <1>2, <1>5, <2>2, <3>1, ImportsTypes
                  DEF ImportsTypeOK, JobFields, RetryFields, KeysOfFile, SkuOrNone
    <2>5. JobLinked' /\ RetriesLinked'
      BY <1>2, <1>5, <2>1, <2>2 DEF ImportsInv, JobLinked, RetriesLinked, JobLive, Retrying
    <2>6. OverlapKnown'
      BY <1>2, <2>2, <2>3 DEF ImportsInv, OverlapKnown
    <2>7. MadeOnce'
      <3>1. \A a, b \in madeBy' : a[1] = b[1] => a = b
        BY <1>3, <1>5 DEF ImportsInv, MadeOnce
      <3>2. ASSUME NEW a \in madeBy', a[1] \in Rows, JobLive
            PROVE  \/ a[1] <= job.processed
                   \/ a[1] = job.processed + 1 /\ job.at = "movement" /\ a[2] = job.sku
        BY <1>1, <1>5, <3>2 DEF ImportsInv, MadeOnce
      <3>3. ASSUME NEW a \in madeBy', a[1] \in ImportRetries
            PROVE  \/ retry'[a[1]].at = "done"
                   \/ retry'[a[1]].at = "movement" /\ a[2] = retry'[a[1]].sku
        BY <1>3, <1>5, <2>2, <3>3 DEF ImportsInv, MadeOnce
      <3>. QED BY <1>5, <3>1, <3>2, <3>3 DEF MadeOnce, JobLive
    <2>8. KeysEntered'
      BY <1>2, <1>5, <2>3 DEF ImportsInv, KeysEntered, JobLive
    <2>9. \A b \in Busy \ {t} : {b, t} \in rowOverlap
      BY <2>3 DEF ImportsInv, OverlapKnown
    <2>10. InsertsChecked'
      <3>1. ASSUME NEW a \in madeBy', RowInserts, Key(a[2]) = Key(job.sku)
            PROVE  {job.processed + 1, a[1]} \in rowOverlap \/ a[1] \in unmoved
        <4>1. CASE a \in madeBy
          BY <3>1, <4>1 DEF ImportsInv, InsertsChecked
        <4>2. CASE a = new
          <5>1. job.processed + 1 \in Rows
            BY <1>1, <3>1 DEF ImportsInv, JobLinked, RowInserts, Rows, JobFields
          <5>2. job.processed + 1 \in Busy \ {t}
            BY <1>1, <3>1, <5>1 DEF Busy, Handling, RowInserts
          <5>. QED BY <2>9, <4>2, <5>2
        <4>. QED BY <1>5, <4>1, <4>2
      <3>2. ASSUME NEW a \in madeBy', NEW u \in ImportRetries, u # t, retry[u].at = "insert",
                   Key(a[2]) = Key(retry[u].sku)
            PROVE  {u, a[1]} \in rowOverlap \/ a[1] \in unmoved
        <4>1. CASE a \in madeBy
          BY <3>2, <4>1 DEF ImportsInv, InsertsChecked
        <4>2. CASE a = new
          BY <2>9, <3>2, <4>2 DEF Busy, Retrying
        <4>. QED BY <1>5, <4>1, <4>2
      <3>. QED BY <1>2, <1>5, <2>2, <3>1, <3>2 DEF InsertsChecked, RowInserts, JobLive
    <2>11. KeysUniqueUnlessOverlapped'
      <3>1. ASSUME NEW a \in madeBy, Key(a[2]) = Key(sku)
            PROVE  {t, a[1]} \in rowOverlap \/ a[1] \in unmoved
        BY <1>2, <3>1 DEF ImportsInv, InsertsChecked
      <3>2. ASSUME NEW a \in madeBy', NEW b \in madeBy', a # b, Key(a[2]) = Key(b[2])
            PROVE  {a[1], b[1]} \in rowOverlap \/ {a[1], b[1]} \cap unmoved # {}
        <4>1. CASE a \in madeBy /\ b \in madeBy
          BY <3>2, <4>1 DEF ImportsInv, KeysUniqueUnlessOverlapped
        <4>2. CASE a = new /\ b \in madeBy
          BY <3>1, <3>2, <4>2
        <4>3. CASE a \in madeBy /\ b = new
          <5>1. {a[1], t} = {t, a[1]}
            OBVIOUS
          <5>. QED BY <3>1, <3>2, <4>3, <5>1
        <4>. QED BY <1>5, <3>2, <4>1, <4>2, <4>3
      <3>. QED BY <1>2, <3>2 DEF KeysUniqueUnlessOverlapped
    <2>12. RetriedTogether => RetriedTogether'
      BY <1>2, <2>2, TogetherKept
    <2>13. ErrorsKept' /\ TallyAddsUp'
      BY <1>2, <1>5, <2>2, <2>12 DEF ImportsInv, ErrorsKept, TallyAddsUp, Retrying
    <2>. QED BY <2>4, <2>5, <2>6, <2>7, <2>8, <2>10, <2>11, <2>13 DEF ImportsInv
  <1>. QED BY <1>4, <1>5 DEF RetryInsert

\* A retry corrects its row and enters its key, or loses its movement.
LEMMA RetryMovementInv ==
    ASSUME ImportsInv, NEW t \in ImportRetries, RetryMovement(t)
    PROVE  ImportsInv'
  <1>1. /\ job \in JobFields
        /\ rowError \in [Rows -> {"none", "pending", "resolved"}]
        /\ retry \in [ImportRetries -> RetryFields]
        /\ skus \subseteq AllSkus
        /\ madeBy \subseteq Importers \X AllSkus
        /\ rowOverlap \subseteq SUBSET Importers
        /\ unmoved \subseteq Importers
        /\ ImportRetries \cap Rows = {} /\ FileRows \in Nat
    BY ImportsTypes, ImportsAssumption DEF ImportsInv, Rows
  <1>2. /\ retry[t].at = "movement" /\ Retrying(t) /\ t \in Importers
        /\ RetryEnds(t) /\ UNCHANGED <<skus, madeBy, rowOverlap>>
    BY DEF RetryMovement, Retrying, Importers
  <1>3. CASE RetryFails(t) /\ unmoved' = unmoved \cup {t}
    BY <1>1, <1>2, <1>3, RetryFailsInv
  <1>4. CASE /\ job' = [job EXCEPT !.imported = job.imported + 1,
                                   !.errors = IF job.errors = 0 THEN 0 ELSE job.errors - 1,
                                   !.existing = Entered(t)]
             /\ rowError' = [rowError EXCEPT ![retry[t].row] = "resolved"]
             /\ UNCHANGED unmoved
    <2>. DEFINE imported == job.imported + 1
                errors == IF job.errors = 0 THEN 0 ELSE job.errors - 1
                existing == job.existing \cup {Key(retry[t].sku)}
                row == retry[t].row
    <2>1. /\ row \in Rows /\ row <= job.processed /\ retry[t].sku \in AllSkus
          /\ job.status # "none"
      BY <1>2 DEF ImportsInv, RetriesLinked, JobLinked, IdleRetry
    <2>2. imported \in Nat /\ errors \in Nat /\ existing \in SUBSET KeysOfFile
      BY <1>1, <2>1 DEF JobFields, KeysOfFile
    <2>3. job' = [job EXCEPT !.imported = imported, !.errors = errors, !.existing = existing]
      BY <1>4 DEF Entered
    <2>. HIDE DEF imported, errors, existing
    <2>4. /\ job' \in JobFields
          /\ job'.status = job.status /\ job'.at = job.at /\ job'.known = job.known
          /\ job'.processed = job.processed /\ job'.sku = job.sku
          /\ job'.existing = existing /\ job'.imported = imported
          /\ job'.skipped = job.skipped /\ job'.errors = errors
      BY <1>1, <2>2, <2>3 DEF JobFields
    <2>5. /\ retry' \in [ImportRetries -> RetryFields]
          /\ \A u \in ImportRetries \ {t} : retry'[u] = retry[u]
          /\ retry'[t].row = row /\ retry'[t].at = "done"
      BY <1>1, <1>2 DEF RetryEnds, RetryFields, SkuOrNone
    <2>6. /\ rowError' \in [Rows -> {"none", "pending", "resolved"}]
          /\ \A r \in Rows \ {row} : rowError'[r] = rowError[r]
          /\ rowError'[row] = "resolved"
      BY <1>1, <1>4, <2>1
    <2>7. Busy' = Busy \ {t} /\ t \in Busy
      BY <1>1, <1>2, <2>4, <2>5 DEF Busy, Handling, JobLive, Retrying
    <2>8. ImportsTypeOK'
      BY <1>1, <1>2, <1>4, <2>4, <2>5, <2>6, ImportsTypes
      DEF ImportsTypeOK, JobFields, RetryFields, KeysOfFile, SkuOrNone
    <2>9. JobLinked' /\ RetriesLinked'
      BY <1>2, <2>1, <2>4, <2>5 DEF ImportsInv, JobLinked, RetriesLinked, JobLive, Retrying
    <2>10. OverlapKnown'
      BY <1>2, <2>5, <2>7 DEF ImportsInv, OverlapKnown
    <2>11. MadeOnce'
      BY <1>2, <2>4, <2>5 DEF ImportsInv, MadeOnce, JobLive
    <2>12. KeysEntered'
      <3>1. \A a \in madeBy : a[1] = t => a[2] = retry[t].sku
        BY <1>2 DEF ImportsInv, MadeOnce
      <3>. QED BY <1>2, <1>4, <2>4, <2>7, <3>1 DEF ImportsInv, KeysEntered, JobLive, existing
    <2>13. InsertsChecked'
      <3>1. RowInserts' = RowInserts /\ \A u \in ImportRetries : retry'[u].at = "insert" => u # t
        BY <2>4, <2>5 DEF RowInserts, JobLive
      <3>. QED BY <1>2, <1>4, <2>4, <2>5, <3>1 DEF ImportsInv, InsertsChecked
    <2>14. KeysUniqueUnlessOverlapped'
      BY <1>2, <1>4 DEF ImportsInv, KeysUniqueUnlessOverlapped
    <2>15. RetriedTogether => RetriedTogether'
      BY <1>2, <2>5, TogetherKept
    \* Another retry of the row would have overlapped this one.
    <2>16. ASSUME NEW u \in ImportRetries, u # t, Retrying(u), retry[u].row = row
           PROVE  RetriedTogether
      <3>1. u \in Busy
        BY <2>16 DEF Busy
      <3>2. {t, u} \in rowOverlap
        BY <2>7, <2>16, <3>1 DEF ImportsInv, OverlapKnown
      <3>. QED BY <2>16, <3>2 DEF RetriedTogether
    <2>17. ErrorsKept'
      <3>1. \A r \in Rows : r > job.processed => r # row
        BY <1>1, <2>1 DEF Rows, JobFields
      <3>2. ASSUME ~RetriedTogether, NEW u \in ImportRetries, u # t, Retrying(u)
            PROVE  rowError'[retry[u].row] = "pending"
        BY <2>6, <2>16, <3>2 DEF ImportsInv, ErrorsKept, RetriesLinked
      <3>. QED BY <2>4, <2>5, <2>6, <2>15, <3>1, <3>2 DEF ImportsInv, ErrorsKept, Retrying
    <2>18. TallyAddsUp'
      <3>1. CASE RetriedTogether
        BY <2>15, <3>1 DEF TallyAddsUp
      <3>2. CASE ~RetriedTogether
        <4>1. row \in PendingErrors /\ PendingErrors' = PendingErrors \ {row}
          BY <1>2, <2>1, <2>6, <3>2 DEF ImportsInv, ErrorsKept, PendingErrors
        <4>2. /\ Cardinality(PendingErrors') = Cardinality(PendingErrors) - 1
              /\ Cardinality(PendingErrors) \in Nat /\ Cardinality(PendingErrors') \in Nat
          <5>1. IsFiniteSet(PendingErrors')
            BY <4>1, PendingFinite, FS_Subset
          <5>. QED BY <4>1, <5>1, PendingFinite, FS_RemoveElement, FS_CardinalityType
        <4>3. /\ job.imported + job.skipped + job.errors = job.processed
              /\ job.errors = Cardinality(PendingErrors)
          BY <3>2 DEF ImportsInv, TallyAddsUp, PendingErrors
        <4>4. errors = job.errors - 1
          BY <4>2, <4>3 DEF errors
        <4>5. /\ job'.errors = Cardinality(PendingErrors')
              /\ job'.imported + job'.skipped + job'.errors = job'.processed
          BY <1>1, <2>4, <4>2, <4>3, <4>4 DEF JobFields, imported
        <4>. QED BY <4>5 DEF TallyAddsUp, PendingErrors
      <3>. QED BY <3>1, <3>2
    <2>. QED BY <2>8, <2>9, <2>10, <2>11, <2>12, <2>13, <2>14, <2>17, <2>18 DEF ImportsInv
  <1>. QED BY <1>3, <1>4 DEF RetryMovement

---------------------------------------------------------------------------
(* Imports: the process *)

\* What is forgotten goes on; no retry begins any more.
LEMMA JobForgottenInv ==
    ASSUME ImportsInv, JobForgotten
    PROVE  ImportsInv'
  <1>1. /\ job \in JobFields
        /\ rowError \in [Rows -> {"none", "pending", "resolved"}]
        /\ retry \in [ImportRetries -> RetryFields]
        /\ skus \subseteq AllSkus
        /\ madeBy \subseteq Importers \X AllSkus
        /\ rowOverlap \subseteq SUBSET Importers
        /\ unmoved \subseteq Importers
        /\ job.known
        /\ UNCHANGED <<rowError, retry, skus, madeBy, rowOverlap, unmoved>>
    BY ImportsTypes DEF ImportsInv, JobForgotten
  <1>2. /\ job' \in JobFields /\ ~job'.known
        /\ job'.status = job.status /\ job'.at = job.at
        /\ job'.processed = job.processed /\ job'.sku = job.sku
        /\ job'.existing = job.existing /\ job'.imported = job.imported
        /\ job'.skipped = job.skipped /\ job'.errors = job.errors
    BY <1>1 DEF JobForgotten, JobFields
  <1>3. Busy' = Busy
    BY <1>1, <1>2 DEF Busy, Handling, JobLive, Retrying
  <1>4. ImportsTypeOK'
    BY <1>1, <1>2, ImportsTypes DEF ImportsTypeOK, JobFields, RetryFields, KeysOfFile, SkuOrNone
  <1>5. JobLinked' /\ RetriesLinked'
    <2>1. job.status # "none"
      BY <1>1 DEF ImportsInv, JobLinked, NewJob
    <2>. QED BY <1>1, <1>2, <2>1 DEF ImportsInv, JobLinked, RetriesLinked, JobLive, Retrying
  <1>6. OverlapKnown' /\ MadeOnce' /\ KeysEntered'
    BY <1>1, <1>2, <1>3 DEF ImportsInv, OverlapKnown, MadeOnce, KeysEntered, JobLive
  <1>7. InsertsChecked' /\ KeysUniqueUnlessOverlapped'
    BY <1>1, <1>2
    DEF ImportsInv, InsertsChecked, RowInserts, JobLive, KeysUniqueUnlessOverlapped
  <1>8. ErrorsKept' /\ TallyAddsUp'
    BY <1>1, <1>2 DEF ImportsInv, ErrorsKept, TallyAddsUp, RetriedTogether, Retrying
  <1>. QED BY <1>4, <1>5, <1>6, <1>7, <1>8 DEF ImportsInv

\* Nothing works any more, and nothing begins.
LEMMA ImportCrashInv ==
    ASSUME ImportsInv, ImportCrash
    PROVE  ImportsInv'
  <1>1. /\ job \in JobFields
        /\ rowError \in [Rows -> {"none", "pending", "resolved"}]
        /\ retry \in [ImportRetries -> RetryFields]
        /\ skus \subseteq AllSkus
        /\ madeBy \subseteq Importers \X AllSkus
        /\ rowOverlap \subseteq SUBSET Importers
        /\ unmoved \subseteq Importers
        /\ UNCHANGED <<rowError, skus, madeBy, rowOverlap, unmoved>>
    BY ImportsTypes DEF ImportsInv, ImportCrash
  <1>. DEFINE status == IF JobLive THEN "lost" ELSE job.status
  <1>2. /\ status \in {"none", "PROCESSING", "COMPLETED", "lost"}
        /\ status \notin {"none", "PROCESSING"}
        /\ job' = [job EXCEPT !.known = FALSE, !.at = "next", !.existing = {}, !.seen = {},
                              !.status = status]
    <2>1. \A t \in ImportRetries : Retrying(t) => job.status # "none"
      BY DEF ImportsInv, JobLinked, IdleRetry, Retrying
    <2>2. job.status # "none"
      BY <2>1 DEF ImportCrash, JobLive
    <2>. QED BY <1>1, <2>2 DEF ImportCrash, JobFields, JobLive
  <1>. HIDE DEF status
  <1>3. /\ job' \in JobFields /\ ~job'.known /\ job'.status \notin {"none", "PROCESSING"}
        /\ job'.processed = job.processed /\ job'.imported = job.imported
        /\ job'.skipped = job.skipped /\ job'.errors = job.errors
    BY <1>1, <1>2 DEF JobFields
  <1>4. /\ retry' \in [ImportRetries -> RetryFields]
        /\ \A t \in ImportRetries : /\ retry'[t].row = retry[t].row
                                    /\ retry'[t].at = IF Retrying(t) THEN "done" ELSE retry[t].at
    <2>. DEFINE ended(t) == IF Retrying(t) THEN [retry[t] EXCEPT !.at = "done", !.sku = NoSku]
                            ELSE retry[t]
    <2>1. ASSUME NEW t \in ImportRetries
          PROVE  /\ ended(t) \in RetryFields /\ ended(t).row = retry[t].row
                 /\ ended(t).at = IF Retrying(t) THEN "done" ELSE retry[t].at
      <3>1. retry[t] \in RetryFields
        BY <1>1
      <3>2. CASE Retrying(t)
        BY <3>1, <3>2 DEF RetryFields, SkuOrNone
      <3>3. CASE ~Retrying(t)
        BY <3>1, <3>3
      <3>. QED BY <3>2, <3>3
    <2>2. retry' = [t \in ImportRetries |-> ended(t)]
      BY DEF ImportCrash
    <2>. HIDE DEF ended
    <2>. QED BY <2>1, <2>2
  <1>5. \A t \in ImportRetries : ~Retrying(t)' /\ (retry'[t].at = "new" => retry[t].at = "new")
    BY <1>4 DEF Retrying
  <1>6. Busy' = {}
    BY <1>3, <1>5 DEF Busy, Handling, JobLive
  <1>7. ImportsTypeOK'
    BY <1>1, <1>3, <1>4, ImportsTypes DEF ImportsTypeOK, JobFields, RetryFields, KeysOfFile, SkuOrNone
  <1>8. JobLinked' /\ RetriesLinked'
    BY <1>3, <1>4, <1>5 DEF ImportsInv, JobLinked, RetriesLinked, JobLive
  <1>9. OverlapKnown'
    BY <1>1, <1>5, <1>6 DEF ImportsInv, OverlapKnown
  <1>10. MadeOnce'
    <2>1. ASSUME NEW a \in madeBy, a[1] \in ImportRetries
          PROVE  retry'[a[1]].at = "done"
      BY <1>4, <2>1 DEF ImportsInv, MadeOnce, Retrying
    <2>2. ~JobLive'
      BY <1>3 DEF JobLive
    <2>. QED BY <1>1, <2>1, <2>2 DEF ImportsInv, MadeOnce
  <1>11. KeysEntered'
    BY <1>3 DEF KeysEntered, JobLive
  <1>12. InsertsChecked' /\ KeysUniqueUnlessOverlapped'
    <2>1. ~RowInserts' /\ \A t \in ImportRetries : retry'[t].at # "insert"
      BY <1>3, <1>5 DEF RowInserts, JobLive, Retrying
    <2>2. InsertsChecked'
      BY <2>1 DEF InsertsChecked
    <2>3. KeysUniqueUnlessOverlapped'
      BY <1>1 DEF ImportsInv, KeysUniqueUnlessOverlapped
    <2>. QED BY <2>2, <2>3
  <1>13. RetriedTogether => RetriedTogether'
    BY <1>1, <1>4, TogetherKept
  <1>14. ErrorsKept' /\ TallyAddsUp'
    BY <1>1, <1>3, <1>5, <1>13 DEF ImportsInv, ErrorsKept, TallyAddsUp
  <1>. QED BY <1>7, <1>8, <1>9, <1>10, <1>11, <1>12, <1>14 DEF ImportsInv

---------------------------------------------------------------------------
(* Imports: the whole *)

\* The invariant holds before the import.
LEMMA ImportsInitInv == ImportsInit => ImportsInv
  <1>. SUFFICES ASSUME ImportsInit PROVE ImportsInv
    OBVIOUS
  <1>1. /\ job = NewJob /\ madeBy = {} /\ rowOverlap = {} /\ unmoved = {}
        /\ \A row \in Rows : rowError[row] = "none"
        /\ \A t \in ImportRetries : retry[t] = IdleRetry
        /\ skus \subseteq AllSkus
    BY ImportsAssumption DEF ImportsInit, IdleRetry, AllSkus, Rows
  <1>2. /\ job.status = "none" /\ job.at = "next" /\ ~job.known /\ job.processed = 0
        /\ job.imported = 0 /\ job.skipped = 0 /\ job.errors = 0
        /\ \A t \in ImportRetries : retry[t].at = "new" /\ retry[t].row = 0
    BY <1>1 DEF NewJob, IdleRetry
  <1>3. ImportsTypeOK
    <2>1. job \in JobFields
      BY <1>1, ImportsAssumption DEF NewJob, JobFields, SkuOrNone
    <2>2. retry \in [ImportRetries -> RetryFields]
      BY ImportsAssumption DEF ImportsInit, RetryFields, SkuOrNone
    <2>3. rowError \in [Rows -> {"none", "pending", "resolved"}]
      BY DEF ImportsInit
    <2>. QED BY <1>1, <2>1, <2>2, <2>3, ImportsTypes
  <1>4. Busy = {}
    BY <1>2 DEF Busy, Handling, JobLive, Retrying
  <1>5. JobLinked /\ RetriesLinked
    BY <1>1, <1>2 DEF JobLinked, RetriesLinked, JobLive, Retrying
  <1>6. OverlapKnown /\ MadeOnce /\ KeysEntered /\ InsertsChecked /\ KeysUniqueUnlessOverlapped
    BY <1>1, <1>4 DEF OverlapKnown, MadeOnce, KeysEntered, InsertsChecked, KeysUniqueUnlessOverlapped
  <1>7. ErrorsKept
    BY <1>1, <1>2 DEF ErrorsKept, Retrying
  <1>8. TallyAddsUp
    <2>1. {row \in Rows : rowError[row] = "pending"} = {}
      BY <1>1
    <2>. QED BY <1>2, <2>1, FS_EmptySet DEF TallyAddsUp
  <1>. QED BY <1>3, <1>5, <1>6, <1>7, <1>8 DEF ImportsInv

\* Every step keeps the invariant.
LEMMA ImportsNextInv == ImportsInv /\ [ImportsNext]_importVars => ImportsInv'
  <1>. SUFFICES ASSUME ImportsInv, [ImportsNext]_importVars PROVE ImportsInv'
    OBVIOUS
  <1>1. CASE UNCHANGED importVars
    BY <1>1, OthersInv DEF importVars, ImportsInv, ImportsTypeOK
  <1>2. CASE JobStep
    BY <1>2, RowParseInv, RowInsertInv, RowMovementInv, JobEndsInv DEF JobStep
  <1>3. CASE \E t \in ImportRetries : RetryBegin(t) \/ RetryStep(t)
    BY <1>3, RetryBeginInv, RetryInsertInv, RetryMovementInv DEF RetryStep
  <1>4. CASE CreateElsewhere
    <2>1. skus' \subseteq AllSkus
      BY <1>4 DEF CreateElsewhere, AllSkus, ImportsInv, ImportsTypeOK
    <2>. QED BY <1>4, <2>1, OthersInv DEF CreateElsewhere
  <1>. QED
    BY <1>1, <1>2, <1>3, <1>4, StartImportInv, JobForgottenInv, ImportCrashInv DEF ImportsNext

\* The invariant holds of every behavior.
LEMMA ImportsSpecInv == ImportsSpec => []ImportsInv
  <1>. QED BY ImportsInitInv, ImportsNextInv, PTL DEF ImportsSpec

\* Every variable of an import keeps its type.
THEOREM ImportsTyped == ImportsSpec => []ImportsTypeOK
  <1>1. ImportsInv => ImportsTypeOK
    BY DEF ImportsInv
  <1>. QED BY <1>1, ImportsSpecInv, PTL

\* The counters of the job add up, unless two retries of one row overlapped
\* (imports.service.ts:291-294, 410-432, 1086).
THEOREM TallyRight == ImportsSpec => []TallyAddsUp
  <1>1. ImportsInv => TallyAddsUp
    BY DEF ImportsInv
  <1>. QED BY <1>1, ImportsSpecInv, PTL

\* Two products of one key are made only by importers that overlapped, or past a
\* movement that failed (imports.service.ts:459-487, 508, 296).
THEOREM KeysMadeOnce == ImportsSpec => []KeysUniqueUnlessOverlapped
  <1>1. ImportsInv => KeysUniqueUnlessOverlapped
    BY DEF ImportsInv
  <1>. QED BY <1>1, ImportsSpecInv, PTL

---------------------------------------------------------------------------
(* Imports: imports implements ImportJob *)

\* What the job shows of itself: an import that was lost looks unfinished.
Shown == IF job.status = "lost" THEN "PROCESSING" ELSE job.status

\* A step that leaves the job where it is, as its screen sees it.
LEMMA JobHidden ==
    ASSUME job'.status = job.status, job'.processed = job.processed, job'.known = job.known
    PROVE  UNCHANGED Promised!jobVars
  BY DEF Promised!jobVars

\* The end of a row is one row further.
LEMMA RowPromised ==
    ASSUME ImportsInv, JobLive, job.processed < FileRows,
           NEW counter \in {"imported", "skipped", "errors"},
           NEW existing \in SUBSET KeysOfFile, NEW seen \in SUBSET KeysOfFile,
           RowEnds(counter, existing, seen)
    PROVE  Promised!JobRow
  <1>1. job \in JobFields
    BY ImportsTypes DEF ImportsInv
  <1>2. /\ job'.status = job.status /\ job'.known = job.known
        /\ job'.processed = job.processed + 1
    BY <1>1, RowEndsFields
  <1>. QED BY <1>2 DEF Promised!JobRow, JobLive

\* Every step of the service is a step of the job its screen sees, or none.
LEMMA StepPromised ==
    ASSUME ImportsInv, [ImportsNext]_importVars
    PROVE  [Promised!JobNext]_(Promised!jobVars)
  <1>1. job \in JobFields /\ FileRows \in Nat
    BY ImportsTypes, ImportsAssumption DEF ImportsInv
  <1>2. CASE UNCHANGED job
    BY <1>2, JobHidden
  <1>3. CASE StartImport
    <2>1. job = NewJob /\ job' = [NewJob EXCEPT !.status = "PROCESSING", !.known = TRUE,
                                                !.existing = {Key(sku) : sku \in skus}]
      BY <1>3 DEF StartImport, ImportsInv, JobLinked
    <2>2. /\ job.status = "none" /\ job.processed = 0
          /\ job'.status = "PROCESSING" /\ job'.known /\ job'.processed = 0
      BY <2>1 DEF NewJob
    <2>3. job'.known = TRUE
      BY <2>1 DEF NewJob
    <2>. QED BY <2>2, <2>3 DEF Promised!JobNext, Promised!JobBegins
  <1>4. CASE RowParse
    <2>1. /\ JobLive /\ job.processed < FileRows
          /\ job.existing \in SUBSET KeysOfFile /\ job.seen \in SUBSET KeysOfFile
      BY <1>1, <1>4 DEF RowParse, JobFields
    <2>2. PICK found \in RowKinds :
            LET row == job.processed + 1
                sku == SkuOf(found, row)
                seen == job.seen \cup {Key(sku)}
            IN \/ RowEnds("skipped", job.existing, job.seen)
               \/ RowFails(row, job.seen)
               \/ found \notin {Blank, Invalid} /\ RowFails(row, seen)
               \/ job' = [job EXCEPT !.at = "insert", !.sku = sku, !.seen = seen]
      BY <1>4 DEF RowParse
    <2>. DEFINE row == job.processed + 1
                sku == SkuOf(found, row)
                seen == job.seen \cup {Key(sku)}
    <2>3. CASE RowEnds("skipped", job.existing, job.seen)
      BY <2>1, <2>3, RowPromised DEF Promised!JobNext
    <2>4. CASE RowFails(row, job.seen)
      BY <2>1, <2>4, RowPromised DEF RowFails, Promised!JobNext
    <2>5. CASE found \notin {Blank, Invalid} /\ RowFails(row, seen)
      <3>1. row \in Rows
        BY <1>1, <2>1 DEF Rows, JobFields
      <3>2. seen \in SUBSET KeysOfFile
        BY <2>1, <2>5, <3>1 DEF RowKinds, SkuOf, AllSkus, KeysOfFile
      <3>. QED BY <2>1, <2>5, <3>2, RowPromised DEF RowFails, Promised!JobNext
    <2>6. CASE job' = [job EXCEPT !.at = "insert", !.sku = sku, !.seen = seen]
      <3>. HIDE DEF seen, sku
      <3>. QED BY <1>1, <2>6, JobHidden DEF JobFields
    <2>. QED BY <2>2, <2>3, <2>4, <2>5, <2>6
  <1>5. CASE RowInsert
    <2>1. /\ JobLive /\ job.processed < FileRows
          /\ job.existing \in SUBSET KeysOfFile /\ job.seen \in SUBSET KeysOfFile
      BY <1>1, <1>5 DEF RowInsert, JobFields, ImportsInv, JobLinked
    <2>2. CASE job' = [job EXCEPT !.at = "movement"]
      BY <1>1, <2>2, JobHidden DEF JobFields
    <2>3. CASE RowFails(job.processed + 1, job.seen)
      BY <2>1, <2>3, RowPromised DEF RowFails, Promised!JobNext
    <2>. QED BY <1>5, <2>2, <2>3 DEF RowInsert
  <1>6. CASE RowMovement
    <2>1. /\ JobLive /\ job.processed < FileRows
          /\ job.existing \in SUBSET KeysOfFile /\ job.seen \in SUBSET KeysOfFile
          /\ job.existing \cup {Key(job.sku)} \in SUBSET KeysOfFile
      BY <1>1, <1>6 DEF RowMovement, JobFields, ImportsInv, JobLinked, KeysOfFile
    <2>2. CASE RowEnds("imported", job.existing \cup {Key(job.sku)}, job.seen)
      BY <2>1, <2>2, RowPromised DEF Promised!JobNext
    <2>3. CASE RowFails(job.processed + 1, job.seen)
      BY <2>1, <2>3, RowPromised DEF RowFails, Promised!JobNext
    <2>. QED BY <1>6, <2>2, <2>3 DEF RowMovement
  <1>7. CASE JobEnds
    <2>1. /\ job.status = "PROCESSING" /\ job.processed = FileRows
          /\ job'.status = "COMPLETED" /\ job'.processed = job.processed
          /\ job'.known = job.known
      BY <1>1, <1>7 DEF JobEnds, AllRows, JobLive, JobFields
    <2>. QED BY <2>1 DEF Promised!JobNext, Promised!JobCompletes
  <1>8. CASE \E t \in ImportRetries : RetryBegin(t) \/ RetryStep(t)
    <2>1. PICK t \in ImportRetries : RetryBegin(t) \/ RetryStep(t)
      BY <1>8
    <2>2. CASE RetryMovement(t) /\ ~UNCHANGED job
      <3>. DEFINE errors == IF job.errors = 0 THEN 0 ELSE job.errors - 1
                  imported == job.imported + 1
                  entered == Entered(t)
      <3>1. job' = [job EXCEPT !.imported = imported, !.errors = errors, !.existing = entered]
        BY <2>2 DEF RetryMovement, RetryFails
      <3>. HIDE DEF errors, imported, entered
      <3>. QED BY <1>1, <3>1, JobHidden DEF JobFields
    <2>. QED BY <1>2, <2>1, <2>2 DEF RetryBegin, RetryStep, RetryInsert, RetryFails
  <1>9. CASE JobForgotten
    <2>1. /\ job.known = TRUE /\ job'.known = FALSE
          /\ job'.status = job.status /\ job'.processed = job.processed
      BY <1>1, <1>9 DEF JobForgotten, JobFields
    <2>. QED BY <2>1 DEF Promised!JobNext, Promised!JobDropped
  <1>10. CASE ImportCrash
    <2>. DEFINE status == IF JobLive THEN "lost" ELSE job.status
    <2>1. job' = [job EXCEPT !.known = FALSE, !.at = "next", !.existing = {}, !.seen = {},
                             !.status = status]
      BY <1>10 DEF ImportCrash
    <2>. HIDE DEF status
    <2>2. /\ job'.known = FALSE /\ job'.status = status /\ job'.processed = job.processed
          /\ job.known \in BOOLEAN
      BY <1>1, <2>1 DEF JobFields
    <2>3. Shown' = Shown
      BY <2>2 DEF Shown, status, JobLive
    <2>4. CASE job.known
      BY <2>2, <2>3, <2>4 DEF Shown, Promised!JobNext, Promised!JobDropped
    <2>5. CASE ~job.known
      BY <2>2, <2>3, <2>5 DEF Shown, Promised!jobVars
    <2>. QED BY <2>4, <2>5
  <1>. QED
    BY <1>2, <1>3, <1>4, <1>5, <1>6, <1>7, <1>8, <1>9, <1>10
    DEF ImportsNext, JobStep, CreateElsewhere, importVars

\* An import keeps the promise of ImportJob: its screen sees it go through its rows
\* one by one and end after the last (imports.service.ts:410-437).
THEOREM ImportsKeepPromise == ImportsSpec => KeepsPromise
  <1>1. ImportsInit => Promised!JobInit
    <2>. SUFFICES ASSUME ImportsInit PROVE Promised!JobInit
      OBVIOUS
    <2>1. job.status = "none" /\ job.processed = 0 /\ job.known = FALSE
      BY DEF ImportsInit, NewJob
    <2>. QED BY <2>1 DEF Promised!JobInit
  <1>2. ImportsInv /\ [ImportsNext]_importVars => [Promised!JobNext]_(Promised!jobVars)
    BY StepPromised
  <1>. QED BY <1>1, <1>2, ImportsSpecInv, PTL DEF ImportsSpec, KeepsPromise, Promised!JobSpec
=============================================================================
