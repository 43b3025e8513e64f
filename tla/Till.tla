-------------------------------- MODULE Till --------------------------------
(***************************************************************************)
(* The point of sale page (app/pos/page.tsx) and usePausedSales: what the  *)
(* cashier scanned, from the cart to the sale.                             *)
(*                                                                         *)
(* Each till is a tab of one browser.  Its cart is memory; its list of     *)
(* paused sales is memory too, read from localStorage when the page loads  *)
(* and written back whole whenever it changes, so the tills of a browser   *)
(* overwrite one another's.  A checkout is one POST /sales.  While it is   *)
(* pending its button is disabled, but its dialog can be closed, and the   *)
(* cart behind it edited, paused or replaced.                              *)
(*                                                                         *)
(* A line is one scan of one product.  POST /sales commits or refuses the  *)
(* sale (module Sales says when); its answer can be lost, and the 503 of a *)
(* transaction that took too long is an answer like a lost one.            *)
(***************************************************************************)
EXTENDS Naturals, FiniteSets

CONSTANTS
    Lines,              \* what is scanned
    Checkouts,          \* POST /sales requests
    Tills,              \* tabs with the page open
    NoCheckout

ASSUME TillAssumption == NoCheckout \notin Checkouts

VARIABLES
    cart,               \* of each till
    paused,             \* the paused sales each till knows
    stored,             \* the paused sales in localStorage
    pending,            \* the checkout each till waits for
    checkout,           \* the requests
    sold,               \* how often each line was sold
    scanned,            \* history: lines that were put into a cart
    opened,             \* history: tills that were opened
    doubtful,           \* history: lines that may be in the cart although they are sold
    gone                \* history: lines the cashier took out again, or the page dropped

tillVars == <<cart, paused, stored, pending, checkout, sold,
              scanned, opened, doubtful, gone>>

TillInit ==
    /\ cart = [t \in Tills |-> {}]
    /\ paused = [t \in Tills |-> {}]
    /\ stored = {}
    /\ pending = [t \in Tills |-> NoCheckout]
    /\ checkout = [c \in Checkouts |-> [at |-> "new", lines |-> {}]]
    /\ sold = [l \in Lines |-> 0]
    /\ scanned = {} /\ opened = {} /\ doubtful = {} /\ gone = {}

CheckoutAt(c, step) == checkout[c].at = step
CartBecomes(t, lines) == cart' = [cart EXCEPT ![t] = lines]
InCheckout(t) == IF pending[t] = NoCheckout THEN {} ELSE checkout[pending[t]].lines

---------------------------------------------------------------------------
(* The page and its cart *)

\* The page is opened, or loaded again: the memory of the tab is gone.
TillOpens(t) ==
    /\ CartBecomes(t, {})
    /\ paused' = [paused EXCEPT ![t] = stored]
    /\ pending' = [pending EXCEPT ![t] = NoCheckout]
    /\ opened' = opened \cup {t}
    /\ gone' = gone \cup cart[t]
    /\ doubtful' = IF opened \subseteq {t} THEN doubtful ELSE doubtful \cup UNION stored
    /\ UNCHANGED <<stored, checkout, sold, scanned>>

\* addToCart
Scan(t, l) ==
    /\ t \in opened
    /\ l \notin scanned
    /\ CartBecomes(t, cart[t] \cup {l})
    /\ scanned' = scanned \cup {l}
    /\ UNCHANGED <<paused, stored, pending, checkout, sold, opened, doubtful, gone>>

\* removeFromCart
Discard(t, l) ==
    /\ l \in cart[t]
    /\ CartBecomes(t, cart[t] \ {l})
    /\ gone' = gone \cup {l}
    /\ UNCHANGED <<paused, stored, pending, checkout, sold, scanned, opened, doubtful>>

---------------------------------------------------------------------------
(* handleCheckout and POST /sales *)

CheckoutSent(t, c) ==
    /\ cart[t] # {}
    /\ pending[t] = NoCheckout
    /\ CheckoutAt(c, "new")
    /\ checkout' = [checkout EXCEPT ![c] = [at |-> "sent", lines |-> cart[t]]]
    /\ pending' = [pending EXCEPT ![t] = c]
    /\ UNCHANGED <<cart, paused, stored, sold, scanned, opened, doubtful, gone>>

CheckoutCommits(c) ==
    /\ CheckoutAt(c, "sent")
    /\ checkout' = [checkout EXCEPT ![c].at = "committed"]
    /\ sold' = [l \in Lines |-> sold[l] + IF l \in checkout[c].lines THEN 1 ELSE 0]
    /\ UNCHANGED <<cart, paused, stored, pending, scanned, opened, doubtful, gone>>

CheckoutRefused(c) ==
    /\ CheckoutAt(c, "sent")
    /\ checkout' = [checkout EXCEPT ![c].at = "refused"]
    /\ UNCHANGED <<cart, paused, stored, pending, sold, scanned, opened, doubtful, gone>>

\* The sale arrives: the cart is emptied, whatever it holds by now.
SaleArrives(t) ==
    /\ pending[t] # NoCheckout
    /\ CheckoutAt(pending[t], "committed")
    /\ CartBecomes(t, {})
    /\ pending' = [pending EXCEPT ![t] = NoCheckout]
    /\ gone' = gone \cup (cart[t] \ InCheckout(t))
    /\ UNCHANGED <<paused, stored, checkout, sold, scanned, opened, doubtful>>

\* Any other answer, or none: the cart stays, to be sent again.
CheckoutFails(t) ==
    /\ pending[t] # NoCheckout
    /\ pending' = [pending EXCEPT ![t] = NoCheckout]
    /\ doubtful' = IF CheckoutAt(pending[t], "refused") THEN doubtful
                   ELSE doubtful \cup InCheckout(t)
    /\ UNCHANGED <<cart, paused, stored, checkout, sold, scanned, opened, gone>>

---------------------------------------------------------------------------
(* usePausedSales *)

\* Mutant: the list is written when the page is left in good order, that is never.
StoredNever(list) == stored
StoredAfter(list) == list

\* The till's own list replaces the stored one, with what other tills put there.
PausedBecomes(t, list) ==
    /\ paused' = [paused EXCEPT ![t] = list]
    /\ stored' = StoredAfter(list)

Overwritten(t) == UNION (stored \ paused[t])

Pause(t) ==
    /\ cart[t] # {}
    /\ PausedBecomes(t, paused[t] \cup {cart[t]})
    /\ CartBecomes(t, {})
    /\ doubtful' = doubtful \cup (cart[t] \cap InCheckout(t))
    /\ gone' = gone \cup Overwritten(t)
    /\ UNCHANGED <<pending, checkout, sold, scanned, opened>>

\* The paused sale takes the place of the cart, without asking.
Resume(t, sale) ==
    /\ sale \in paused[t]
    /\ PausedBecomes(t, paused[t] \ {sale})
    /\ CartBecomes(t, sale)
    /\ gone' = gone \cup Overwritten(t) \cup (cart[t] \ sale)
    /\ UNCHANGED <<pending, checkout, sold, scanned, opened, doubtful>>

DeletePaused(t, sale) ==
    /\ sale \in paused[t]
    /\ PausedBecomes(t, paused[t] \ {sale})
    /\ gone' = gone \cup Overwritten(t) \cup sale
    /\ UNCHANGED <<cart, pending, checkout, sold, scanned, opened, doubtful>>

TillNext ==
    \/ \E t \in Tills :
         \/ TillOpens(t) \/ SaleArrives(t) \/ CheckoutFails(t) \/ Pause(t)
         \/ \E l \in Lines : Scan(t, l) \/ Discard(t, l)
         \/ \E c \in Checkouts : CheckoutSent(t, c)
         \/ \E sale \in paused[t] : Resume(t, sale) \/ DeletePaused(t, sale)
    \/ \E c \in Checkouts : CheckoutCommits(c) \/ CheckoutRefused(c)

TillSpec == TillInit /\ [][TillNext]_tillVars

---------------------------------------------------------------------------
TillTypeOK ==
    /\ cart \in [Tills -> SUBSET Lines]
    /\ \A t \in Tills : paused[t] \subseteq SUBSET Lines
    /\ stored \subseteq SUBSET Lines
    /\ pending \in [Tills -> Checkouts \cup {NoCheckout}]
    /\ checkout \in [Checkouts -> [at : {"new", "sent", "committed", "refused"}, lines : SUBSET Lines]]
    /\ sold \in [Lines -> Nat]
    /\ scanned \cup doubtful \cup gone \subseteq Lines
    /\ opened \subseteq Tills

\* What was scanned once is sold once, unless a checkout with it ended in an
\* error that did not say whether it was sold, it was paused while its checkout
\* was pending, or two tills had it in their lists (page.tsx:466-509, 532-572).
SoldOnce == \A l \in Lines : sold[l] > 1 => l \in doubtful

\* What was scanned is sold, or still in a cart or a paused sale that
\* survives a reload, unless the page dropped it: with the cart of a page that
\* was reloaded, under a sale that was resumed, behind a checkout that did not
\* carry it, or with the list of another till (usePausedSales.ts:17-36, page.tsx:496, 560-572).
Accounted ==
    \A l \in scanned :
        \/ sold[l] > 0 \/ l \in gone
        \/ \E t \in Tills : l \in cart[t]
        \/ \E sale \in stored : l \in sale

\* Every line that was scanned ends up in one sale: not in two, and not in none.
LinesReachOneSale == SoldOnce /\ Accounted
=============================================================================
