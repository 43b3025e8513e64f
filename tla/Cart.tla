-------------------------------- MODULE Cart --------------------------------
(***************************************************************************)
(* One line of the cart of app/pos/page.tsx: its quantity, its price and   *)
(* its discount, while the stock the page is shown changes.                *)
(*                                                                         *)
(* A line remembers the stock it was put into the cart with, and the plus  *)
(* and minus buttons keep to that; a scan keeps to the stock it is         *)
(* answered.  Amounts count tenths of what can be typed, so that prices    *)
(* are multiples of ten and every percentage on offer is exact, as it is   *)
(* in the code; a fixed discount is any amount.                            *)
(***************************************************************************)
EXTENDS Naturals, FiniteSets

CONSTANTS
    SalePrice,          \* Product.salePrice
    Prices,             \* what the cashier may type over it
    Stocks,             \* what the stock of the product may be
    Percents,           \* the percentages on offer: 10, 20, 50
    Discounts           \* what the cashier may type as a discount

ASSUME CartAssumption ==
    /\ {SalePrice} \cup Prices \cup Stocks \cup Percents \cup Discounts \subseteq Nat
    /\ \A p \in {SalePrice} \cup Prices : p % 10 = 0
    /\ Percents \subseteq 1..100 /\ \A p \in Percents : p % 10 = 0

VARIABLES
    shelf,              \* the stock the server would answer
    line,               \* the line, its quantity 0 when there is none
    most                \* history: the largest stock the page was told since the line is there

cartVars == <<shelf, line, most>>

NoLine == [quantity |-> 0, price |-> 0, discount |-> 0, percent |-> 0, available |-> 0]

CartInit == shelf \in Stocks /\ line = NoLine /\ most = 0

Lesser(a, b) == IF a <= b THEN a ELSE b
Greater(a, b) == IF a >= b THEN a ELSE b

\* Mutant: a percentage keeps the amount it had when it was given.
DiscountFixed(price, quantity, percent, discount) == Lesser(discount, price * quantity)

\* The discount of a line with another price or quantity.
Discount(price, quantity, percent, discount) ==
    IF percent # 0 THEN Lesser((price * quantity * percent) \div 100, price * quantity)
    ELSE Lesser(discount, price * quantity)

Repriced(price, quantity) ==
    [line EXCEPT !.price = price, !.quantity = quantity,
                 !.discount = Discount(price, quantity, line.percent, line.discount)]

StockChanges == shelf' \in Stocks /\ UNCHANGED <<line, most>>

\* addToCart of a product the scanner or the catalogue shows with its stock.
AddToCart ==
    /\ shelf > 0
    /\ \/ /\ line.quantity = 0
          /\ line' = [NoLine EXCEPT !.quantity = 1, !.price = SalePrice, !.available = shelf]
          /\ most' = shelf
       \/ /\ line.quantity \in 1..(shelf - 1)
          /\ line' = Repriced(line.price, Lesser(line.quantity + 1, shelf))
          /\ most' = Greater(most, shelf)
    /\ UNCHANGED shelf

\* updateQuantity: nothing or less removes the line.
UpdateQuantity(quantity) ==
    /\ line.quantity > 0
    /\ \/ quantity = 0 /\ line' = NoLine /\ most' = 0
       \/ /\ quantity > 0
          /\ line' = Repriced(line.price, Lesser(quantity, line.available))
          /\ UNCHANGED most
    /\ UNCHANGED shelf

UpdateItemDiscount(amount) ==
    /\ line.quantity > 0
    /\ line' = [line EXCEPT !.discount = Lesser(amount, line.price * line.quantity), !.percent = 0]
    /\ UNCHANGED <<shelf, most>>

UpdateItemDiscountPercent(percent) ==
    /\ line.quantity > 0
    /\ line' = [line EXCEPT !.percent = percent,
                            !.discount = Discount(line.price, line.quantity, percent, 0)]
    /\ UNCHANGED <<shelf, most>>

UpdateItemPrice(price) ==
    /\ line.quantity > 0
    /\ line' = Repriced(price, line.quantity)
    /\ UNCHANGED <<shelf, most>>

CartNext ==
    \/ StockChanges \/ AddToCart
    \/ \E quantity \in Stocks : UpdateQuantity(quantity)
    \/ \E amount \in Discounts : UpdateItemDiscount(amount)
    \/ \E percent \in Percents : UpdateItemDiscountPercent(percent)
    \/ \E price \in Prices : UpdateItemPrice(price)

CartSpec == CartInit /\ [][CartNext]_cartVars

---------------------------------------------------------------------------
CartTypeOK ==
    /\ shelf \in Stocks
    /\ line \in [quantity : Nat, price : Nat, discount : Nat, percent : Percents \cup {0},
                 available : Nat]
    /\ most \in Nat

\* Whatever the order of scans, edits and restocks, a line is for no more than
\* the page was once told there is, its discount never exceeds it, and a
\* percentage is that percentage of it (page.tsx:203-340, types/index.ts:255-267:
\* "discount scales with quantity: amount = price x qty x percent / 100").
LineExact ==
    line.quantity > 0 =>
        /\ line.quantity <= most
        /\ line.discount <= line.price * line.quantity
        /\ line.percent # 0 => line.discount * 100 = line.price * line.quantity * line.percent
=============================================================================
