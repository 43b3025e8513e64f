------------------------------ MODULE SaleBook ------------------------------
(***************************************************************************)
(* What the point of sale promises, without requests, locks or tables: a   *)
(* sale is one event.  It takes the next number of the book, and lowers    *)
(* the stock of each product by exactly what it sells, never below zero.   *)
(* Whatever else moves the stock leaves the book alone.                    *)
(***************************************************************************)
EXTENDS Integers, Sequences, FiniteSetsExt

CONSTANTS Products, Carts

VARIABLES
    book,   \* the items of sale number n, at place n
    stock   \* units of each product

Quantity(items, p) ==
    MapThenSumSet(LAMBDA i : items[i].quantity, {i \in DOMAIN items : items[i].product = p})

BookInit ==
    /\ book = <<>>
    /\ stock \in [Products -> Nat]

Sell ==
    /\ \E items \in Carts :
         /\ book' = Append(book, items)
         /\ stock' = [p \in Products |-> stock[p] - Quantity(items, p)]
    /\ stock' \in [Products -> Nat]

MoveStock ==
    /\ stock' \in [Products -> Nat]
    /\ UNCHANGED book

BookSpec == BookInit /\ [][Sell \/ MoveStock]_<<book, stock>>
=============================================================================
