----------------------------- MODULE PagesProofs ----------------------------
(***************************************************************************)
(* Proofs about Cart, RecordList, RecordForms, QueryCache, TaskBoard and   *)
(* Access, for every set of prices, stocks, discounts, records, forms,     *)
(* tasks and organizations, and any number of rows, mutations and calls.   *)
(*                                                                         *)
(* What they say of the tables of hooks, routes and pages is proved from   *)
(* the rows themselves.                                                    *)
(***************************************************************************)
EXTENDS Cart, RecordList, RecordForms, QueryCache, TaskBoard, Access, FiniteSetTheorems,
        SequenceTheorems, TLAPS

---------------------------------------------------------------------------
(* Cart: amounts *)

\* A percentage of a price in tens is exact, and no more than the price.
LEMMA PercentExact ==
    ASSUME NEW price \in Nat, price % 10 = 0, NEW quantity \in Nat,
           NEW percent \in 1..100, percent % 10 = 0
    PROVE  /\ ((price * quantity * percent) \div 100) * 100 = price * quantity * percent
           /\ (price * quantity * percent) \div 100 <= price * quantity
           /\ (price * quantity * percent) \div 100 \in Nat
<1> DEFINE a == price \div 10
           b == percent \div 10
           k == a * quantity * b
<1>1. a \in Nat /\ price = 10 * a  OBVIOUS
<1>2. b \in 0..10 /\ percent = 10 * b  OBVIOUS
<1> HIDE DEF a, b
<1>3. \A x \in Nat, y \in Nat : x * y \in Nat
  OBVIOUS
<1>4. k \in Nat /\ a * quantity \in Nat  BY <1>1, <1>2, <1>3
<1>5. price * quantity * percent = 100 * k
  BY <1>1, <1>2
<1>6. price * quantity = 10 * (a * quantity)  BY <1>1
<1>7. \A x \in Nat : x * b <= 10 * x
  BY <1>2
<1>8. k <= price * quantity  BY <1>4, <1>6, <1>7
<1> HIDE DEF k
<1>9. (100 * k) \div 100 = k  BY <1>4
<1> QED  BY <1>4, <1>5, <1>8, <1>9

---------------------------------------------------------------------------
(* Cart: the inductive invariant *)

CartLines == [quantity : Nat, price : Nat, discount : Nat, percent : Percents \cup {0}, available : Nat]

\* A discount is for a price, a quantity and a percentage.
Fits(discount, price, quantity, percent) ==
    /\ discount \in Nat
    /\ discount <= price * quantity
    /\ percent # 0 => discount * 100 = price * quantity * percent

\* The discount of a line is for the price and quantity it goes with.
Priced(row) ==
    /\ row.price % 10 = 0
    /\ Fits(row.discount, row.price, row.quantity, row.percent)

\* What a line remembers of the stock, and so its quantity, is at most what the page was told.
CartInv ==
    /\ CartTypeOK
    /\ line.quantity > 0 => line.quantity <= most /\ line.available <= most /\ Priced(line)

\* The types of the constants, and of the line.
LEMMA CartTypes ==
    /\ CartTypeOK <=> shelf \in Stocks /\ line \in CartLines /\ most \in Nat
    /\ Stocks \subseteq Nat /\ Discounts \subseteq Nat /\ Percents \subseteq 1..100
    /\ SalePrice \in Nat /\ SalePrice % 10 = 0
    /\ \A p \in Prices : p \in Nat /\ p % 10 = 0
    /\ \A p \in Percents : p % 10 = 0
BY CartAssumption DEF CartTypeOK, CartLines

\* The discount that is computed fits.
LEMMA DiscountFits ==
    ASSUME NEW price \in Nat, price % 10 = 0, NEW quantity \in Nat,
           NEW percent \in Percents \cup {0}, NEW discount \in Nat
    PROVE  Fits(Discount(price, quantity, percent, discount), price, quantity, percent)
<1>1. price * quantity \in Nat  OBVIOUS
<1>2. CASE percent = 0  BY <1>1, <1>2 DEF Discount, Lesser, Fits
<1>3. CASE percent # 0
  <2>1. percent \in 1..100 /\ percent % 10 = 0  BY <1>3, CartTypes
  <2>2. /\ ((price * quantity * percent) \div 100) * 100 = price * quantity * percent
        /\ (price * quantity * percent) \div 100 <= price * quantity
        /\ (price * quantity * percent) \div 100 \in Nat
    BY <2>1, PercentExact
  <2>3. Discount(price, quantity, percent, discount) = (price * quantity * percent) \div 100
    BY <1>3, <2>2 DEF Discount, Lesser
  <2> QED  BY <2>2, <2>3 DEF Fits
<1> QED  BY <1>2, <1>3

\* A line with another price or quantity.
LEMMA RepricedFits ==
    ASSUME line \in CartLines, NEW price \in Nat, price % 10 = 0, NEW quantity \in Nat
    PROVE  /\ Repriced(price, quantity) \in CartLines /\ Priced(Repriced(price, quantity))
           /\ Repriced(price, quantity).quantity = quantity
           /\ Repriced(price, quantity).available = line.available
<1> DEFINE discount == Discount(price, quantity, line.percent, line.discount)
<1>1. line.percent \in Percents \cup {0} /\ line.discount \in Nat  BY DEF CartLines
<1>2. Fits(discount, price, quantity, line.percent)
  BY <1>1, DiscountFits, Zenon
<1>3. Repriced(price, quantity) =
        [line EXCEPT !.price = price, !.quantity = quantity, !.discount = discount]
  BY DEF Repriced
<1> HIDE DEF discount
<1>4. /\ Repriced(price, quantity) \in CartLines
      /\ Repriced(price, quantity).price = price /\ Repriced(price, quantity).quantity = quantity
      /\ Repriced(price, quantity).discount = discount
      /\ Repriced(price, quantity).percent = line.percent
      /\ Repriced(price, quantity).available = line.available
  BY <1>2, <1>3 DEF CartLines, Fits
<1> QED  BY <1>2, <1>4 DEF Priced

\* Scans and restocks.
LEMMA ScannedFits ==
    ASSUME CartInv, StockChanges \/ AddToCart
    PROVE  CartInv'
<1>1. shelf \in Stocks /\ shelf \in Nat /\ line \in CartLines /\ most \in Nat
  BY CartTypes DEF CartInv
<1>2. CASE StockChanges
  BY <1>2 DEF StockChanges, CartInv, CartTypeOK, Priced
<1>3. ASSUME AddToCart, line.quantity = 0 PROVE CartInv'
  <2> DEFINE new == [NoLine EXCEPT !.quantity = 1, !.price = SalePrice, !.available = shelf]
  <2>1. \/ line' = new /\ most' = shelf
        \/ line.quantity \in 1..(shelf - 1)
    BY <1>3 DEF AddToCart
  <2>2. line' = new /\ most' = shelf /\ shelf' = shelf /\ shelf > 0  BY <1>1, <1>3, <2>1 DEF AddToCart
  <2>3. /\ new \in CartLines /\ new.quantity = 1 /\ new.available = shelf /\ new.price = SalePrice
        /\ new.percent = 0 /\ new.discount = 0
    BY <1>1, CartTypes DEF NoLine, CartLines
  <2>4. Priced(new)  BY <2>3, CartTypes DEF Priced, Fits
  <2> HIDE DEF new
  <2>5. CartTypeOK'  BY <1>1, <2>2, <2>3 DEF CartTypeOK, CartLines
  <2> QED  BY <1>1, <2>2, <2>3, <2>4, <2>5 DEF CartInv
<1>4. ASSUME AddToCart, line.quantity # 0 PROVE CartInv'
  <2> DEFINE quantity == Lesser(line.quantity + 1, shelf)
  <2>1. /\ line' = Repriced(line.price, quantity) /\ most' = Greater(most, shelf) /\ shelf' = shelf
        /\ line.quantity > 0 /\ line.quantity \in Nat /\ line.price \in Nat /\ line.available \in Nat
    BY <1>1, <1>4 DEF AddToCart, CartLines
  <2>2. /\ quantity \in Nat /\ quantity <= shelf /\ line.price % 10 = 0 /\ line.available <= most
    BY <1>1, <2>1 DEF CartInv, Priced, Lesser
  <2> HIDE DEF quantity
  <2>3. /\ line' \in CartLines /\ Priced(line') /\ line'.quantity = quantity
        /\ line'.available = line.available
    BY <1>1, <2>1, <2>2, RepricedFits
  <2>4. most' \in Nat /\ most <= most' /\ shelf <= most'  BY <1>1, <2>1 DEF Greater
  <2>5. line'.quantity <= most' /\ line'.available <= most'  BY <1>1, <2>1, <2>2, <2>3, <2>4
  <2>6. CartTypeOK'  BY <1>1, <2>1, <2>3, <2>4 DEF CartTypeOK, CartLines
  <2> QED  BY <2>3, <2>5, <2>6 DEF CartInv
<1> QED  BY <1>2, <1>3, <1>4

\* The buttons of the line.
LEMMA EditedFits ==
    ASSUME CartInv,
           \/ \E quantity \in Stocks : UpdateQuantity(quantity)
           \/ \E price \in Prices : UpdateItemPrice(price)
           \/ \E amount \in Discounts : UpdateItemDiscount(amount)
           \/ \E percent \in Percents : UpdateItemDiscountPercent(percent)
    PROVE  CartInv'
<1>1. /\ shelf \in Stocks /\ line \in CartLines /\ most \in Nat /\ shelf' = shelf
      /\ line.quantity > 0 /\ line.quantity <= most /\ line.available <= most /\ Priced(line)
      /\ line.quantity \in Nat /\ line.price \in Nat /\ line.available \in Nat
  BY CartTypes DEF CartInv, CartLines, UpdateQuantity, UpdateItemPrice, UpdateItemDiscount,
       UpdateItemDiscountPercent
<1>2. ASSUME line' \in CartLines, Priced(line'), line'.quantity <= most, line'.available <= most,
             most' = most
      PROVE  CartInv'
  BY <1>1, <1>2 DEF CartInv, CartTypeOK, CartLines
<1>3. ASSUME NEW quantity \in Stocks, UpdateQuantity(quantity) PROVE CartInv'
  <2>1. CASE line' = NoLine /\ most' = 0
    BY <1>1, <2>1 DEF NoLine, CartInv, CartTypeOK
  <2>2. CASE line' = Repriced(line.price, Lesser(quantity, line.available)) /\ most' = most
    <3> DEFINE q == Lesser(quantity, line.available)
    <3>1. q \in Nat /\ q <= line.available  BY <1>1, CartTypes DEF Lesser
    <3>2. line' = Repriced(line.price, q)  BY <2>2
    <3> HIDE DEF q
    <3>3. /\ line' \in CartLines /\ Priced(line') /\ line'.quantity = q
          /\ line'.available = line.available
      BY <1>1, <3>1, <3>2, RepricedFits DEF Priced
    <3>4. line'.quantity <= most  BY <1>1, <3>1, <3>3
    <3> QED  BY <1>1, <1>2, <2>2, <3>3, <3>4
  <2> QED  BY <1>3, <2>1, <2>2 DEF UpdateQuantity
<1>4. ASSUME NEW price \in Prices, UpdateItemPrice(price) PROVE CartInv'
  <2>1. line' = Repriced(price, line.quantity) /\ most' = most  BY <1>4 DEF UpdateItemPrice
  <2>2. price \in Nat /\ price % 10 = 0  BY CartTypes
  <2>3. /\ line' \in CartLines /\ Priced(line') /\ line'.quantity = line.quantity
        /\ line'.available = line.available
    BY <1>1, <2>1, <2>2, RepricedFits
  <2> QED  BY <1>1, <1>2, <2>1, <2>3
<1>5. ASSUME NEW percent \in Percents \cup {0}, NEW discount \in Nat, most' = most,
             line' = [line EXCEPT !.percent = percent, !.discount = discount],
             Fits(discount, line.price, line.quantity, percent)
      PROVE  CartInv'
  <2>1. /\ line' \in CartLines /\ line'.quantity = line.quantity /\ line'.price = line.price
        /\ line'.available = line.available /\ line'.percent = percent /\ line'.discount = discount
    BY <1>1, <1>5 DEF CartLines
  <2>2. Priced(line')  BY <1>1, <1>5, <2>1 DEF Priced
  <2> QED  BY <1>1, <1>2, <1>5, <2>1, <2>2
<1>6. ASSUME NEW amount \in Discounts, UpdateItemDiscount(amount) PROVE CartInv'
  <2> DEFINE discount == Lesser(amount, line.price * line.quantity)
  <2>1. line.price * line.quantity \in Nat  BY <1>1
  <2>2. discount \in Nat /\ discount <= line.price * line.quantity  BY <2>1, CartTypes DEF Lesser
  <2>3. line' = [line EXCEPT !.percent = 0, !.discount = discount] /\ most' = most
    BY <1>1, <1>6 DEF UpdateItemDiscount, CartLines
  <2>4. Fits(discount, line.price, line.quantity, 0)  BY <2>2 DEF Fits
  <2> HIDE DEF discount
  <2> QED  BY <1>5, <2>2, <2>3, <2>4
<1>7. ASSUME NEW percent \in Percents, UpdateItemDiscountPercent(percent) PROVE CartInv'
  <2> DEFINE discount == Discount(line.price, line.quantity, percent, 0)
  <2>1. Fits(discount, line.price, line.quantity, percent)
    <3>1. line.price % 10 = 0 /\ percent \in Percents \cup {0} /\ 0 \in Nat  BY <1>1 DEF Priced
    <3> QED  BY <1>1, <3>1, DiscountFits, Zenon
  <2>2. line' = [line EXCEPT !.percent = percent, !.discount = discount] /\ most' = most
    BY <1>7 DEF UpdateItemDiscountPercent
  <2> HIDE DEF discount
  <2>3. discount \in Nat  BY <2>1 DEF Fits
  <2> QED  BY <1>5, <2>1, <2>2, <2>3
<1> QED  BY <1>3, <1>4, <1>6, <1>7

\* The line alone: whatever the order of scans, edits and restocks, its quantity is stock the
\* page was told of and its discount is the percentage it says (page.tsx:203-340).
THEOREM LinesExact == CartSpec => []LineExact
<1>1. CartInit => CartInv
  BY CartTypes DEF CartInit, CartInv, NoLine, CartLines
<1>2. CartInv /\ [CartNext]_cartVars => CartInv'
  <2> SUFFICES ASSUME CartInv, [CartNext]_cartVars PROVE CartInv'  OBVIOUS
  <2>1. CASE UNCHANGED cartVars  BY <2>1 DEF cartVars, CartInv, CartTypeOK, Priced
  <2> QED  BY <2>1, ScannedFits, EditedFits DEF CartNext
<1>3. CartInv => LineExact  BY DEF CartInv, LineExact, Priced, Fits
<1> QED  BY <1>1, <1>2, <1>3, PTL DEF CartSpec

---------------------------------------------------------------------------
(* RecordList: the number of pages *)

\* What a division by the size of a page gives.
LEMMA PageDivision ==
    ASSUME NEW n \in Nat
    PROVE  /\ n \div PageSize \in Nat
           /\ PageSize * (n \div PageSize) <= n
           /\ n < PageSize * ((n \div PageSize) + 1)
<1>1. PageSize \in Nat /\ PageSize > 0  BY RecordListAssumption
<1>2. \A b \in Nat : b > 0 => /\ n \div b \in Nat
                              /\ b * (n \div b) <= n
                              /\ n < b * ((n \div b) + 1)
  OBVIOUS
<1> QED  BY <1>1, <1>2

\* There is a page q when more records match than the pages before it show.
LEMMA PagesReach ==
    ASSUME NEW n \in Nat, NEW q \in Nat \ {0}
    PROVE  Pages(n) \in Nat /\ (q <= Pages(n) <=> (q - 1) * PageSize < n)
<1> DEFINE P == PageSize
           m == n + P - 1
           d == m \div P
<1>1. P \in Nat /\ P > 0 /\ m \in Nat /\ m = n + P - 1  BY RecordListAssumption
<1>2. d \in Nat /\ P * d <= m /\ m < P * (d + 1)  BY <1>1, PageDivision
<1>3. Pages(n) = d  BY DEF Pages
<1> HIDE DEF P, m, d
<1>4. \A x \in Nat, y \in Nat : x <= y => P * x <= P * y  BY <1>1
<1>5. P * (d + 1) = P * d + P /\ P * d \in Nat  BY <1>1, <1>2
<1>6. (q - 1) \in Nat /\ (q - 1) * P = P * (q - 1) /\ P * q = P * (q - 1) + P /\ P * (q - 1) \in Nat
  BY <1>1
<1>7. ASSUME q <= d PROVE (q - 1) * P < n
  <2>1. P * q <= P * d  BY <1>2, <1>4, <1>7
  <2> QED  BY <1>1, <1>2, <1>5, <1>6, <2>1
<1>8. ASSUME ~(q <= d) PROVE ~((q - 1) * P < n)
  <2>1. d + 1 <= q /\ d + 1 \in Nat /\ q \in Nat  BY <1>2, <1>8
  <2>2. P * (d + 1) <= P * q  BY <1>4, <2>1
  <2> QED  BY <1>1, <1>2, <1>5, <1>6, <2>2
<1> QED  BY <1>2, <1>3, <1>7, <1>8 DEF P

\* More records are at least as many pages, and no page is of no records.
LEMMA PagesGrow ==
    ASSUME NEW n \in Nat, NEW m \in Nat
    PROVE  /\ n <= m => Pages(n) <= Pages(m)
           /\ Pages(n) = 0 => n = 0
<1>1. Pages(n) \in Nat /\ Pages(m) \in Nat  BY PagesReach
<1>2. ASSUME n <= m, Pages(n) # 0 PROVE Pages(n) <= Pages(m)
  <2> DEFINE q == Pages(n)
  <2>1. q \in Nat \ {0}  BY <1>1, <1>2
  <2>2. (q - 1) * PageSize < n  BY <2>1, PagesReach
  <2>3. (q - 1) * PageSize \in Int  BY <2>1, RecordListAssumption
  <2>4. (q - 1) * PageSize < m  BY <1>2, <2>2, <2>3
  <2> QED  BY <2>1, <2>4, PagesReach
<1>3. ASSUME Pages(n) = 0 PROVE n = 0
  <2>1. ~((1 - 1) * PageSize < n)  BY <1>3, PagesReach
  <2> QED  BY <2>1, RecordListAssumption
<1> QED  BY <1>1, <1>2, <1>3

---------------------------------------------------------------------------
(* RecordList: the inductive invariant *)

\* The page asked for is there; or it is the first; or the list became shorter under it; or
\* it is one of those that keep their page; or nothing is sold.
PageShown ==
    \/ page = 1
    \/ page <= Pages(matching)
    \/ shrunk /\ listOf # "sales"
    \/ listOf \in Staying
    \/ listOf = "sales" /\ matching = 0

ListInv ==
    /\ listOf \in Lists
    /\ matching \in Nat
    /\ page \in Nat \ {0}
    /\ PageShown

\* The effect of the sales page on another number of records.
LEMMA LeftFits ==
    ASSUME NEW p \in Nat \ {0}, NEW n \in Nat
    PROVE  /\ LeftWhenPast(p, n) \in Nat \ {0}
           /\ listOf # "sales" => LeftWhenPast(p, n) = p
           /\ LeftWhenPast(1, n) = 1
           /\ listOf = "sales" => \/ LeftWhenPast(p, n) = 1
                                  \/ LeftWhenPast(p, n) <= Pages(n)
                                  \/ n = 0
<1>1. Pages(n) \in Nat  BY PagesReach
<1>2. Pages(n) = 0 => n = 0  BY PagesGrow
<1>3. LeftWhenPast(p, n) = IF listOf = "sales" /\ Pages(n) > 0 /\ p > Pages(n) THEN 1 ELSE p
  BY DEF LeftWhenPast
<1>4. LeftWhenPast(1, n) = 1  BY DEF LeftWhenPast
<1> QED  BY <1>1, <1>2, <1>3, <1>4

\* Filters, records that come and go, and the buttons.
LEMMA ListStep == ListInv /\ ListNext => ListInv'
<1> SUFFICES ASSUME ListInv, ListNext PROVE ListInv'  OBVIOUS
<1>1. 0..MaxMatching \subseteq Nat  BY RecordListAssumption
<1>2. /\ listOf \in Lists /\ matching \in Nat /\ page \in Nat \ {0} /\ PageShown  BY DEF ListInv
<1>3. ASSUME NEW n \in 0..MaxMatching, RecordsChange(n) PROVE ListInv'
  <2>1. /\ n \in Nat /\ matching' = n /\ page' = LeftWhenPast(page, n) /\ listOf' = listOf
        /\ shrunk' = ((shrunk \/ n < matching) /\ page' # 1)
    BY <1>1, <1>3 DEF RecordsChange
  <2>2. Pages(matching)' = Pages(n)  BY <2>1 DEF Pages
  <2>3. page' \in Nat \ {0}  BY <1>2, <2>1, LeftFits
  <2>4. CASE listOf = "sales"
    <3>1. page' = 1 \/ page' <= Pages(n) \/ n = 0  BY <1>2, <2>1, <2>4, LeftFits
    <3> QED  BY <1>2, <2>1, <2>2, <2>3, <2>4, <3>1 DEF ListInv, PageShown
  <2>5. CASE listOf # "sales"
    <3>1. page' = page  BY <1>2, <2>1, <2>5, LeftFits
    <3>2. CASE page <= Pages(matching) /\ ~(n < matching)
      <4>1. Pages(matching) <= Pages(n)  BY <1>2, <2>1, <3>2, PagesGrow
      <4>2. page' <= Pages(n)
        BY <1>2, <2>1, <3>1, <3>2, <4>1, PagesReach
      <4> QED  BY <1>2, <2>1, <2>2, <2>3, <4>2 DEF ListInv, PageShown
    <3>3. CASE page = 1 \/ shrunk \/ listOf \in Staying \/ n < matching
      <4>1. page' = 1 \/ shrunk' \/ listOf' \in Staying  BY <2>1, <3>1, <3>3
      <4> QED  BY <1>2, <2>1, <2>3, <2>5, <4>1 DEF ListInv, PageShown
    <3> QED  BY <1>2, <2>5, <3>2, <3>3 DEF PageShown
  <2> QED  BY <2>4, <2>5
<1>4. ASSUME NEW n \in 0..MaxMatching, NEW all \in BOOLEAN, Filter(n, all) PROVE ListInv'
  <2>1. /\ n \in Nat /\ matching' = n /\ listOf' = listOf
        /\ page' = LeftWhenPast(IF KeepsPage(listOf) THEN page ELSE 1, n)
    BY <1>1, <1>4 DEF Filter
  <2>2. CASE listOf \in Staying
    <3>1. page' = LeftWhenPast(page, n)  BY <2>1, <2>2 DEF KeepsPage
    <3>2. page' \in Nat \ {0}  BY <1>2, <2>1, <3>1, LeftFits
    <3> QED  BY <1>2, <2>1, <2>2, <3>2 DEF ListInv, PageShown
  <2>3. CASE listOf \notin Staying
    <3>1. page' = LeftWhenPast(1, n)  BY <2>1, <2>3 DEF KeepsPage
    <3>2. page' = 1  BY <1>2, <2>1, <3>1, LeftFits
    <3> QED  BY <1>2, <2>1, <3>2 DEF ListInv, PageShown
  <2> QED  BY <2>2, <2>3
<1>5. ASSUME NEW p \in 0..MaxMatching, TurnPage(p) PROVE ListInv'
  <2>1. /\ p \in 1..Pages(matching) /\ page' = p /\ matching' = matching /\ listOf' = listOf
    BY <1>5 DEF TurnPage
  <2>2. Pages(matching) \in Nat /\ Pages(matching)' = Pages(matching)
    BY <1>2, <2>1, PagesReach DEF Pages
  <2>3. page' \in Nat \ {0} /\ page' <= Pages(matching)'  BY <2>1, <2>2
  <2> QED  BY <1>2, <2>1, <2>3 DEF ListInv, PageShown
<1> QED  BY <1>3, <1>4, <1>5 DEF ListNext

\* An empty list shows that nothing matches, unless it became shorter under a later page or
\* is of a page that keeps its number under another filter (sales/page.tsx:80-85).
THEOREM EmptyListsNone == ListSpec => []EmptyMeansNone
<1>1. ListInit => ListInv
  BY RecordListAssumption DEF ListInit, ListInv, PageShown
<1>2. ListInv /\ [ListNext]_listVars => ListInv'
  BY ListStep DEF listVars, ListInv, PageShown, Pages
<1>3. ListInv => EmptyMeansNone
  <2> SUFFICES ASSUME ListInv, Listed = 0 PROVE matching = 0 \/ (shrunk /\ listOf # "sales") \/ listOf \in Staying
    BY DEF EmptyMeansNone
  <2>1. matching \in Nat /\ page \in Nat \ {0} /\ PageSize \in Nat /\ PageSize > 0 /\ PageShown
    BY RecordListAssumption DEF ListInv
  <2>2. Skipped \in Nat /\ (page = 1 => Skipped = 0)  BY <2>1 DEF Skipped
  <2>3. matching = 0 \/ matching <= Skipped  BY <2>1, <2>2 DEF Listed
  <2>4. page <= Pages(matching) => ~(matching <= Skipped)
    BY <2>1, <2>2, PagesReach DEF Skipped
  <2> QED  BY <2>1, <2>2, <2>3, <2>4 DEF PageShown
<1> QED  BY <1>1, <1>2, <1>3, PTL DEF ListSpec

---------------------------------------------------------------------------
(* RecordForms: the inductive invariant *)

FormRows == [open : BOOLEAN, session : Sessions, record : Texts, of : Texts, typed : Nat,
             active : BOOLEAN, due : BOOLEAN, stray : BOOLEAN]
SaveRows == [at : {"unused", "idle", "pending"}, record : Texts, of : Texts, typed : Nat,
             stray : BOOLEAN]
UploadRows == [session : Sessions, of : Texts, typed : Nat]

FormTypes ==
    /\ form \in FormRows
    /\ save \in [Forms -> SaveRows]
    /\ upload \in UploadRows
    /\ removal.closes \in BOOLEAN

\* The open form has been counted as used, and holds the text of its record
\* unless the image of another one strayed into it.
OpenFormOwn ==
    form.open =>
        /\ form.session \in Forms
        /\ save[form.session].at # "unused"
        /\ ~form.stray => form.of = form.record

\* What is being saved is the text of its record, with the same exception.
SentOwn == \A s \in Saving : ~save[s].stray => save[s].of = save[s].record

\* An image belongs to a form that was opened; if it is the open one, the image
\* has its record's text, and no more of what was typed than the form has.
ImageOwn ==
    Uploading =>
        /\ upload.session \in Forms
        /\ save[upload.session].at # "unused"
        /\ form.open /\ upload.session = form.session =>
             upload.of = form.of /\ upload.typed <= form.typed

\* Nothing is on its way that takes text from the open form, unless it is due.
OnlyOwnDue ==
    form.open /\ ~form.due =>
        /\ \A s \in Saving : form.session = s /\ form.typed <= save[s].typed
        /\ Uploading => upload.session = form.session /\ form.typed <= upload.typed
        /\ Inventory /\ removal # NoRemoval => removal.session = form.session

FormsInv ==
    /\ FormTypes
    /\ OpenFormOwn
    /\ SentOwn
    /\ ImageOwn
    /\ OnlyOwnDue
    /\ removal.closes => Inventory
    /\ FormsKeepTheirRecord

---------------------------------------------------------------------------
(* RecordForms: the steps *)

\* The records of no form, no upload and no save.
LEMMA FormConstants ==
    /\ NoForm \in FormRows /\ NoForm.open = FALSE
    /\ \A r \in Texts : Closed(r) \in FormRows /\ Closed(r).open = FALSE
    /\ Unused \in SaveRows /\ Unused.at = "unused"
    /\ Idle \in SaveRows /\ Idle.at = "idle"
    /\ NoUpload \in UploadRows /\ NoUpload.session = NothingEdited
    /\ NothingEdited \notin Records /\ NothingEdited \notin Forms
    /\ NothingEdited \in Texts /\ Records \subseteq Texts /\ Forms \subseteq Sessions
BY RecordFormsAssumption
   DEF NoForm, Closed, Unused, Idle, NoUpload, FormRows, SaveRows, UploadRows, Texts, Sessions

\* No text is lost that nothing takes, or whose loss was due.
LEMMA NothingLost ==
    ASSUME FormsInv, NEW vanishes \in BOOLEAN, Losing(vanishes), ~vanishes \/ form.due
    PROVE  lost' = {}
BY DEF Losing, FormsInv, FormsKeepTheirRecord

\* A save that is written makes no record of two texts.
LEMMA SaveWritesOwn ==
    ASSUME FormsInv, NEW s \in Saving, SaveWrites(s)
    PROVE  mixed' = {}
BY DEF SaveWrites, FormsInv, FormsKeepTheirRecord, SentOwn

\* A step that leaves the form and its answers alone.
LEMMA FormsRest ==
    ASSUME FormsInv, UNCHANGED <<form, save, upload, removal, recordPage, mixed, lost>>
    PROVE  FormsInv'
BY DEF FormsInv, FormTypes, OpenFormOwn, SentOwn, ImageOwn, OnlyOwnDue, FormsKeepTheirRecord,
       Saving, Uploading, Inventory

\* A form opens.
LEMMA OpensKeeps ==
    ASSUME FormsInv, NEW s \in Forms, NEW text \in Texts, NEW active \in BOOLEAN,
           Opens(s, text, text, active)
    PROVE  FormsInv'
<1> DEFINE due == Due
           new == [open |-> TRUE, session |-> s, record |-> text, of |-> text, typed |-> 0,
                   active |-> active, due |-> due, stray |-> FALSE]
<1>1. /\ form' = new /\ save' = [save EXCEPT ![s] = Idle] /\ save[s] = Unused
      /\ UNCHANGED <<recordPage, life, upload, dialog, removal, mixed, lost>>
  BY RecordFormsAssumption DEF Opens
<1>2. due \in BOOLEAN /\ (~due => Saving = {} /\ ~Uploading /\ ~(Inventory /\ removal # NoRemoval))
  BY DEF Due
<1> HIDE DEF due
<1>3. /\ new \in FormRows /\ new.open = TRUE /\ new.session = s /\ new.record = text /\ new.of = text
      /\ new.typed = 0 /\ new.due = due /\ new.stray = FALSE
  BY <1>2, FormConstants DEF FormRows
<1> HIDE DEF new
<1>4. /\ form \in FormRows /\ save \in [Forms -> SaveRows] /\ upload \in UploadRows
      /\ removal.closes \in BOOLEAN
  BY DEF FormsInv, FormTypes
<1>5. /\ save' \in [Forms -> SaveRows] /\ save'[s] = Idle /\ \A t \in Forms \ {s} : save'[t] = save[t]
  BY <1>1, <1>4, FormConstants
<1>6. Saving' = Saving
  BY <1>1, <1>4, <1>5, FormConstants DEF Saving
<1>7. FormTypes'  BY <1>1, <1>3, <1>4, <1>5 DEF FormTypes
<1>8. OpenFormOwn'  BY <1>1, <1>3, <1>5, FormConstants DEF OpenFormOwn
<1>9. SentOwn'
  <2> SUFFICES ASSUME NEW t \in Saving', ~save'[t].stray PROVE save'[t].of = save'[t].record  BY DEF SentOwn
  <2>1. t \in Saving /\ t # s  BY <1>1, <1>6, FormConstants DEF Saving
  <2>2. save'[t] = save[t]  BY <1>5, <2>1 DEF Saving
  <2> QED  BY <2>1, <2>2 DEF FormsInv, SentOwn
<1>10. ImageOwn'
  <2> SUFFICES ASSUME Uploading'
               PROVE  /\ upload.session \in Forms /\ save'[upload.session].at # "unused"
                      /\ upload.session # s
    BY <1>1, <1>3 DEF ImageOwn, Uploading
  <2>1. upload.session \in Forms /\ save[upload.session].at # "unused"
    BY <1>1 DEF Uploading, FormsInv, ImageOwn
  <2> QED  BY <1>1, <1>5, <2>1, FormConstants
<1>11. OnlyOwnDue'
  <2> SUFFICES ASSUME ~due PROVE Saving' = {} /\ ~Uploading' /\ ~(Inventory /\ removal # NoRemoval)'
    BY <1>1, <1>3 DEF OnlyOwnDue
  <2> QED  BY <1>1, <1>2, <1>6 DEF Uploading, Inventory
<1> QED
  BY <1>1, <1>7, <1>8, <1>9, <1>10, <1>11 DEF FormsInv, FormsKeepTheirRecord, Inventory

\* The form, once closed, holds nothing that an answer could take.
LEMMA ClosedKeeps ==
    ASSUME FormsInv, NEW text \in Texts, form' = Closed(text),
           removal' = removal \/ removal'.closes = FALSE,
           UNCHANGED <<save, upload, recordPage, mixed, lost>>
    PROVE  FormsInv'
<1>1. form' \in FormRows /\ form'.open = FALSE  BY FormConstants
<1>2. FormTypes' /\ OpenFormOwn' /\ SentOwn' /\ ImageOwn' /\ OnlyOwnDue'
  BY <1>1 DEF FormsInv, FormTypes, OpenFormOwn, SentOwn, ImageOwn, OnlyOwnDue, Saving, Uploading
<1> QED  BY <1>2 DEF FormsInv, FormsKeepTheirRecord, Inventory

\* The user types.
LEMMA TypesKeeps ==
    ASSUME FormsInv, Types
    PROVE  FormsInv'
<1> DEFINE due == form.due \/ Due
           typed == form.typed + 1
           new == [form EXCEPT !.typed = typed, !.due = due]
<1>1. /\ form' = new /\ form.open
      /\ UNCHANGED <<recordPage, life, save, upload, dialog, removal, mixed, lost>>
  BY DEF Types, FormFree
<1>2. due \in BOOLEAN /\ (~due => Saving = {} /\ ~Uploading /\ ~(Inventory /\ removal # NoRemoval))
  BY DEF Due
<1>3. form \in FormRows  BY DEF FormsInv, FormTypes
<1>8. form.typed \in Nat /\ typed \in Nat /\ typed = form.typed + 1  BY <1>3 DEF FormRows
<1> HIDE DEF due, typed
<1>4. /\ new \in FormRows /\ new.open = form.open /\ new.session = form.session /\ new.of = form.of
      /\ new.record = form.record /\ new.stray = form.stray /\ new.due = due
      /\ new.typed = typed
  BY <1>2, <1>3, <1>8 DEF FormRows
<1> HIDE DEF new
<1>5. FormTypes' /\ OpenFormOwn' /\ SentOwn'
  BY <1>1, <1>4 DEF FormsInv, FormTypes, OpenFormOwn, SentOwn, Saving
<1>6. ImageOwn'
  <2> SUFFICES ASSUME Uploading, form.session = upload.session
               PROVE  upload.of = form.of /\ upload.typed <= typed
    BY <1>1, <1>4 DEF FormsInv, ImageOwn, Uploading
  <2>1. upload.of = form.of /\ upload.typed <= form.typed /\ upload.typed \in Nat
    BY <1>1 DEF FormsInv, ImageOwn, FormTypes, UploadRows
  <2> QED  BY <1>8, <2>1
<1>7. OnlyOwnDue'
  <2> SUFFICES ASSUME ~due PROVE Saving' = {} /\ ~Uploading' /\ ~(Inventory /\ removal # NoRemoval)'
    BY <1>1, <1>4 DEF OnlyOwnDue
  <2> QED  BY <1>1, <1>2 DEF Uploading, Inventory, Saving
<1> QED  BY <1>1, <1>5, <1>6, <1>7 DEF FormsInv, FormsKeepTheirRecord, Inventory

\* The save of a form.
LEMMA SubmitsKeeps ==
    ASSUME FormsInv, Submits
    PROVE  FormsInv'
<1> DEFINE s == form.session
           row == [at |-> "pending", record |-> form.record, of |-> form.of, typed |-> form.typed,
                   stray |-> form.stray]
<1>1. /\ save' = [save EXCEPT ![s] = row] /\ form.open
      /\ UNCHANGED <<recordPage, life, form, upload, dialog, removal, mixed, lost>>
  BY DEF Submits, FormFree
<1>2. /\ form \in FormRows /\ save \in [Forms -> SaveRows] /\ s \in Forms
      /\ (~form.stray => form.of = form.record)
  BY <1>1 DEF FormsInv, FormTypes, OpenFormOwn
<1>3. /\ row \in SaveRows /\ row.at = "pending" /\ row.record = form.record /\ row.of = form.of
      /\ row.typed = form.typed /\ row.stray = form.stray /\ form.typed \in Nat
  BY <1>2 DEF FormRows, SaveRows
<1> HIDE DEF row, s
<1>4. /\ save' \in [Forms -> SaveRows] /\ save'[s] = row
      /\ \A t \in Forms \ {s} : save'[t] = save[t]
  BY <1>1, <1>2, <1>3
<1>5. FormTypes'  BY <1>1, <1>4 DEF FormsInv, FormTypes
<1>6. \A t \in Forms : save[t].at # "unused" => save'[t].at # "unused"  BY <1>3, <1>4
<1>7. OpenFormOwn' /\ ImageOwn'
  BY <1>1, <1>6 DEF FormsInv, OpenFormOwn, ImageOwn, Uploading
<1>8. \A t \in Saving' : t = s \/ (t \in Saving /\ save'[t] = save[t])  BY <1>4 DEF Saving
<1>9. SentOwn'
  <2> SUFFICES ASSUME NEW t \in Saving', ~save'[t].stray PROVE save'[t].of = save'[t].record  BY DEF SentOwn
  <2>1. CASE t = s  BY <1>2, <1>3, <1>4, <2>1
  <2>2. CASE t \in Saving /\ save'[t] = save[t]  BY <2>2 DEF FormsInv, SentOwn
  <2> QED  BY <1>8, <2>1, <2>2
<1>10. OnlyOwnDue'
  <2> SUFFICES ASSUME ~form.due
               PROVE  /\ \A t \in Saving' : form.session = t /\ form.typed <= save'[t].typed
                      /\ Uploading => upload.session = form.session /\ form.typed <= upload.typed
                      /\ Inventory /\ removal # NoRemoval => removal.session = form.session
    BY <1>1 DEF OnlyOwnDue, Uploading, Inventory
  <2>1. OnlyOwnDue  BY DEF FormsInv
  <2>2. ASSUME NEW t \in Saving' PROVE form.session = t /\ form.typed <= save'[t].typed
    <3>1. CASE t = s  BY <1>3, <1>4, <3>1 DEF s
    <3>2. CASE t \in Saving /\ save'[t] = save[t]  BY <1>1, <2>1, <3>2 DEF OnlyOwnDue
    <3> QED  BY <1>8, <3>1, <3>2
  <2> QED  BY <1>1, <2>1, <2>2 DEF OnlyOwnDue
<1> QED  BY <1>1, <1>5, <1>7, <1>9, <1>10 DEF FormsInv, FormsKeepTheirRecord, Inventory

\* A save that ended, but for the text of the open form.
LEMMA SaveEndsKeeps ==
    ASSUME FormsInv, NEW s \in Saving, save' = [save EXCEPT ![s] = Idle], mixed' = {}, lost' = {},
           UNCHANGED <<form, recordPage, upload, removal>>
    PROVE  FormsInv'
<1>1. save \in [Forms -> SaveRows] /\ s \in Forms  BY DEF FormsInv, FormTypes, Saving
<1>2. /\ save' \in [Forms -> SaveRows] /\ save'[s] = Idle
      /\ \A t \in Forms \ {s} : save'[t] = save[t]
  BY <1>1, FormConstants
<1>3. FormTypes'  BY <1>2 DEF FormsInv, FormTypes
<1>4. \A t \in Forms : save[t].at # "unused" => save'[t].at # "unused"  BY <1>2, FormConstants
<1>5. OpenFormOwn' /\ ImageOwn'
  BY <1>4 DEF FormsInv, OpenFormOwn, ImageOwn, Uploading
<1>6. \A t \in Saving' : t \in Saving /\ save'[t] = save[t]  BY <1>2, FormConstants DEF Saving
<1>7. SentOwn'  BY <1>6 DEF FormsInv, SentOwn
<1>8. OnlyOwnDue'  BY <1>6 DEF FormsInv, OnlyOwnDue, Uploading, Inventory
<1> QED  BY <1>3, <1>5, <1>7, <1>8 DEF FormsInv, FormsKeepTheirRecord, Inventory

\* A save ends well.
LEMMA SaveSucceedsKeeps ==
    ASSUME FormsInv, NEW s \in Forms, SaveSucceeds(s)
    PROVE  FormsInv'
<1> DEFINE text == IF recordPage = "expenses" THEN NothingEdited ELSE form.record
<1>1. /\ s \in Saving /\ save' = [save EXCEPT ![s] = Idle] /\ form' = Closed(text)
      /\ Losing(Unsent(s)) /\ SaveWrites(s) /\ UNCHANGED <<recordPage, upload, dialog, removal>>
  BY DEF SaveSucceeds
<1>2. mixed' = {}  BY <1>1, SaveWritesOwn
<1>3. form \in FormRows /\ save[s] \in SaveRows  BY DEF FormsInv, FormTypes
<1>4. text \in Texts  BY <1>3, FormConstants DEF FormRows
<1>5. ~Unsent(s) \/ form.due
  <2> SUFFICES ASSUME form.open, ~form.due PROVE ~Unsent(s)  BY DEF Unsent
  <2>1. form.session = s /\ form.typed <= save[s].typed  BY <1>1 DEF FormsInv, OnlyOwnDue
  <2>2. form.typed \in Nat /\ save[s].typed \in Nat  BY <1>3 DEF FormRows, SaveRows
  <2> QED  BY <2>1, <2>2 DEF Unsent
<1>6. Unsent(s) \in BOOLEAN  BY <1>3 DEF Unsent, FormRows
<1>7. lost' = {}  BY <1>1, <1>5, <1>6, NothingLost
<1> HIDE DEF text
<1>8. form' \in FormRows /\ form'.open = FALSE  BY <1>1, <1>4, FormConstants
<1>9. save \in [Forms -> SaveRows]  BY DEF FormsInv, FormTypes
<1>10. /\ save' \in [Forms -> SaveRows] /\ save'[s] = Idle
       /\ \A t \in Forms \ {s} : save'[t] = save[t]
  BY <1>1, <1>9, FormConstants
<1>11. FormTypes'  BY <1>1, <1>8, <1>10 DEF FormsInv, FormTypes
<1>12. \A t \in Forms : save[t].at # "unused" => save'[t].at # "unused"
  BY <1>1, <1>10, FormConstants
<1>13. OpenFormOwn' /\ OnlyOwnDue'  BY <1>8 DEF OpenFormOwn, OnlyOwnDue
<1>14. ImageOwn'  BY <1>1, <1>8, <1>12 DEF FormsInv, ImageOwn, Uploading
<1>15. \A t \in Saving' : t \in Saving /\ save'[t] = save[t]  BY <1>10, FormConstants DEF Saving
<1>16. SentOwn'  BY <1>15 DEF FormsInv, SentOwn
<1> QED
  BY <1>1, <1>2, <1>7, <1>11, <1>13, <1>14, <1>16 DEF FormsInv, FormsKeepTheirRecord, Inventory

\* A save is refused, or its answer is lost.
LEMMA SaveFailsKeeps ==
    ASSUME FormsInv, NEW s \in Forms, SaveFails(s)
    PROVE  FormsInv'
<1>1. /\ s \in Saving /\ save' = [save EXCEPT ![s] = Idle] /\ lost' = lost
      /\ SaveWrites(s) \/ mixed' = mixed
      /\ UNCHANGED <<form, recordPage, upload, removal>>
  BY DEF SaveFails
<1>2. mixed' = {} /\ lost' = {}  BY <1>1, SaveWritesOwn DEF FormsInv, FormsKeepTheirRecord
<1> QED  BY <1>1, <1>2, SaveEndsKeeps

\* An image is chosen.
LEMMA ChoosesImageKeeps ==
    ASSUME FormsInv, ChoosesImage
    PROVE  FormsInv'
<1> DEFINE row == [session |-> form.session, of |-> form.of, typed |-> form.typed]
<1>1. /\ upload' = row /\ form.open
      /\ UNCHANGED <<recordPage, life, form, save, dialog, removal, mixed, lost>>
  BY DEF ChoosesImage, FormFree
<1>2. form \in FormRows /\ form.session \in Forms /\ save[form.session].at # "unused"
  BY <1>1 DEF FormsInv, FormTypes, OpenFormOwn
<1>3. /\ row \in UploadRows /\ row.session = form.session /\ row.of = form.of
      /\ row.typed = form.typed /\ form.typed \in Nat
  BY <1>2 DEF FormRows, UploadRows
<1> HIDE DEF row
<1>4. FormTypes' /\ OpenFormOwn' /\ SentOwn'
  BY <1>1, <1>3 DEF FormsInv, FormTypes, OpenFormOwn, SentOwn, Saving
<1>5. ImageOwn'  BY <1>1, <1>2, <1>3 DEF ImageOwn
<1>6. OnlyOwnDue'
  BY <1>1, <1>3 DEF FormsInv, OnlyOwnDue, Saving, Inventory, Uploading
<1> QED  BY <1>1, <1>4, <1>5, <1>6 DEF FormsInv, FormsKeepTheirRecord, Inventory

\* An image is lost.
LEMMA ImageFailsKeeps ==
    ASSUME FormsInv, upload' = NoUpload, UNCHANGED <<recordPage, form, save, removal, mixed, lost>>
    PROVE  FormsInv'
<1>1. upload' \in UploadRows /\ ~Uploading'  BY FormConstants DEF Uploading
<1>2. FormTypes' /\ OpenFormOwn' /\ SentOwn' /\ ImageOwn' /\ OnlyOwnDue'
  BY <1>1 DEF FormsInv, FormTypes, OpenFormOwn, SentOwn, ImageOwn, OnlyOwnDue, Saving, Inventory
<1> QED  BY <1>2 DEF FormsInv, FormsKeepTheirRecord, Inventory

\* An image arrives: in its own form, or in one that was opened while it was due.
LEMMA ImageArrivesKeeps ==
    ASSUME FormsInv, ImageArrives
    PROVE  FormsInv'
<1> DEFINE own == form.session = upload.session
           kept == IF own THEN upload.typed ELSE 0
           stray == form.stray \/ ~own
           late == [form EXCEPT !.of = upload.of, !.typed = kept, !.stray = stray]
           losing == form.open /\ form.typed > kept
<1>1. /\ Uploading /\ upload' = NoUpload /\ Losing(losing)
      /\ form' = IF form.open THEN late ELSE form
      /\ UNCHANGED <<recordPage, life, save, dialog, removal, mixed>>
  BY DEF ImageArrives
<1>2. form \in FormRows /\ upload \in UploadRows /\ form.typed \in Nat /\ upload.typed \in Nat
      /\ upload.of \in Texts
  BY DEF FormsInv, FormTypes, FormRows, UploadRows
<1>3. kept \in Nat /\ losing \in BOOLEAN /\ stray \in BOOLEAN  BY <1>2 DEF FormRows
<1>4. ASSUME form.open, ~form.due PROVE own /\ form.typed <= kept
  BY <1>1, <1>4 DEF FormsInv, OnlyOwnDue
<1>5. lost' = {}
  <2>1. ~losing \/ form.due  BY <1>2, <1>3, <1>4
  <2> HIDE DEF losing
  <2> QED  BY <1>1, <1>3, <2>1, NothingLost
<1>6. CASE ~form.open
  <2>1. form' = form /\ lost' = lost /\ mixed' = mixed
    BY <1>1, <1>5, <1>6 DEF FormsInv, FormsKeepTheirRecord
  <2> QED  BY <1>1, <2>1, ImageFailsKeeps
<1>7. CASE form.open
  <2>1. own => upload.of = form.of /\ kept <= form.typed
    BY <1>1, <1>7 DEF FormsInv, ImageOwn
  <2>2. ~stray => own /\ ~form.stray  OBVIOUS
  <2>3. form' = late  BY <1>1, <1>7
  <2> HIDE DEF own, kept, stray
  <2>4. /\ form' \in FormRows /\ form'.open = form.open /\ form'.session = form.session
        /\ form'.record = form.record /\ form'.of = upload.of /\ form'.typed = kept
        /\ form'.due = form.due /\ form'.stray = stray
    BY <1>2, <1>3, <2>3 DEF FormRows
  <2> HIDE DEF late
  <2>5. upload' \in UploadRows /\ ~Uploading'  BY <1>1, FormConstants DEF Uploading
  <2>6. FormTypes' /\ SentOwn' /\ ImageOwn'
    BY <1>1, <2>4, <2>5 DEF FormsInv, FormTypes, SentOwn, ImageOwn, Saving
  <2>7. OpenFormOwn'
    <3>1. form.session \in Forms /\ save[form.session].at # "unused" /\ (~form.stray => form.of = form.record)
      BY <1>7 DEF FormsInv, OpenFormOwn
    <3>2. ~stray => form'.of = form'.record  BY <2>1, <2>2, <2>4, <3>1
    <3> QED  BY <1>1, <2>4, <3>1, <3>2 DEF OpenFormOwn
  <2>8. OnlyOwnDue'
    <3> SUFFICES ASSUME ~form.due
                 PROVE  /\ \A s \in Saving' : form.session = s /\ kept <= save[s].typed
                        /\ Inventory /\ removal # NoRemoval => removal.session = form.session
      BY <1>1, <2>4, <2>5 DEF OnlyOwnDue, Inventory
    <3>1. own /\ kept = form.typed  BY <1>2, <1>3, <1>4, <1>7, <2>1
    <3>2. Saving' = Saving  BY <1>1 DEF Saving
    <3> QED  BY <1>7, <3>1, <3>2 DEF FormsInv, OnlyOwnDue
  <2> QED  BY <1>1, <1>5, <2>6, <2>7, <2>8 DEF FormsInv, FormsKeepTheirRecord, Inventory
<1> QED  BY <1>6, <1>7

\* A removal is asked for.
LEMMA RemovesKeeps ==
    ASSUME FormsInv, NEW op, NEW r, Removes(op, r)
    PROVE  FormsInv'
<1> DEFINE closes == Inventory /\ form.record = r
<1>1. /\ removal' = [op |-> op, record |-> r, session |-> form.session, closes |-> closes]
      /\ UNCHANGED <<recordPage, life, form, save, upload, dialog, mixed, lost>>
  BY DEF Removes
<1>2. closes \in BOOLEAN /\ (closes => Inventory)  BY DEF Inventory
<1> HIDE DEF closes
<1>3. removal'.closes = closes /\ removal'.session = form.session  BY <1>1
<1>4. FormTypes' /\ OpenFormOwn' /\ SentOwn' /\ ImageOwn'
  BY <1>1, <1>2, <1>3 DEF FormsInv, FormTypes, OpenFormOwn, SentOwn, ImageOwn, Saving, Uploading
<1>5. OnlyOwnDue'
  BY <1>1, <1>3 DEF FormsInv, OnlyOwnDue, Saving, Uploading
<1>6. removal'.closes => Inventory'  BY <1>1, <1>2, <1>3 DEF Inventory
<1> QED  BY <1>1, <1>4, <1>5, <1>6 DEF FormsInv, FormsKeepTheirRecord

\* It ends: a form it closes is its own, or one that was opened while it was due.
LEMMA RemovalEndsKeeps ==
    ASSUME FormsInv, RemovalEnds
    PROVE  FormsInv'
<1> DEFINE losing == removal.closes /\ form.open /\ form.typed > 0 /\ form.session # removal.session
<1>1. /\ removal # NoRemoval /\ removal' = NoRemoval
      /\ UNCHANGED <<recordPage, save, upload, mixed>>
      /\ \/ Losing(losing) /\ form' = IF removal.closes THEN Closed(NothingEdited) ELSE form
         \/ form' = form /\ lost' = lost
  BY DEF RemovalEnds
<1>2. removal'.closes = FALSE  BY <1>1 DEF NoRemoval
<1>3. lost' = {}
  <2>1. form \in FormRows /\ removal.closes \in BOOLEAN  BY DEF FormsInv, FormTypes
  <2>2. losing \in BOOLEAN  BY <2>1 DEF FormRows
  <2>3. ~losing \/ form.due
    BY <1>1 DEF FormsInv, OnlyOwnDue
  <2> HIDE DEF losing
  <2> QED  BY <1>1, <2>2, <2>3, NothingLost DEF FormsInv, FormsKeepTheirRecord
<1>4. lost' = lost  BY <1>3 DEF FormsInv, FormsKeepTheirRecord
<1>5. CASE form' = Closed(NothingEdited)
  BY <1>1, <1>2, <1>4, <1>5, ClosedKeeps, FormConstants
<1>6. CASE form' = form
  <2>1. FormTypes' /\ OpenFormOwn' /\ SentOwn' /\ ImageOwn' /\ OnlyOwnDue'
    BY <1>1, <1>2, <1>6
       DEF FormsInv, FormTypes, OpenFormOwn, SentOwn, ImageOwn, OnlyOwnDue, Saving, Uploading, Inventory
  <2> QED  BY <1>1, <1>2, <1>4, <2>1 DEF FormsInv, FormsKeepTheirRecord
<1> QED  BY <1>1, <1>5, <1>6

---------------------------------------------------------------------------
(* RecordForms: the theorem *)

\* A record is saved with its own text, and text is lost only to an answer that was due when
\* the form was opened or typed in (inventory/page.tsx:110-277, ImageUpload.tsx:29-64).
THEOREM FormsKept == FormsSpec => []FormsKeepTheirRecord
<1>1. FormsInit => FormsInv
  <2> SUFFICES ASSUME FormsInit PROVE FormsInv  OBVIOUS
  <2>1. /\ form = NoForm /\ save = [s \in Forms |-> Unused] /\ upload = NoUpload /\ removal = NoRemoval
        /\ mixed = {} /\ lost = {}
    BY DEF FormsInit
  <2>2. removal.closes = FALSE  BY <2>1 DEF NoRemoval
  <2>3. Saving = {} /\ ~Uploading  BY <2>1, FormConstants DEF Saving, Uploading
  <2> QED
    BY <2>1, <2>2, <2>3, FormConstants
       DEF FormsInv, FormTypes, OpenFormOwn, SentOwn, ImageOwn, OnlyOwnDue, FormsKeepTheirRecord
<1>2. FormsInv /\ [FormsNext]_formVars => FormsInv'
  <2> SUFFICES ASSUME FormsInv, [FormsNext]_formVars PROVE FormsInv'  OBVIOUS
  <2>1. CASE UNCHANGED formVars  BY <2>1, FormsRest DEF formVars
  <2>2. ASSUME NEW s \in Forms, CreateOpens(s) PROVE FormsInv'
    <3>1. Opens(s, NothingEdited, NothingEdited, TRUE)  BY <2>2 DEF CreateOpens, EditingNew
    <3> QED  BY <3>1, OpensKeeps, FormConstants
  <2>3. ASSUME NEW s \in Forms, NEW r \in Records, EditOpens(s, r) PROVE FormsInv'
    <3> DEFINE active == life[r] = "active"
    <3>1. Opens(s, r, r, active) /\ active \in BOOLEAN /\ r \in Texts  BY <2>3, FormConstants DEF EditOpens
    <3> HIDE DEF active
    <3> QED  BY <3>1, OpensKeeps
  <2>4. CASE FormCloses
    <3>1. form.record \in Texts /\ NothingEdited \in Texts
      BY FormConstants DEF FormsInv, FormTypes, FormRows
    <3>2. /\ form' = Closed(form.record) \/ form' = Closed(NothingEdited)
          /\ UNCHANGED <<removal, save, upload, recordPage, mixed, lost>>
      BY <2>4 DEF FormCloses
    <3> QED  BY <3>1, <3>2, ClosedKeeps
  <2>5. ASSUME NEW op, NEW r, Asks(op, r) PROVE FormsInv'  BY <2>5, FormsRest DEF Asks
  <2>6. CASE DialogCloses  BY <2>6, FormsRest DEF DialogCloses
  <2>7. CASE ImageFails  BY <2>7, ImageFailsKeeps DEF ImageFails
  <2>8. CASE Confirms  BY <2>8, RemovesKeeps DEF Confirms
  <2>9. ASSUME NEW r \in Records, ReactivatesSupplier(r) PROVE FormsInv'
    BY <2>9, RemovesKeeps DEF ReactivatesSupplier
  <2> QED
    BY <2>1, <2>2, <2>3, <2>4, <2>5, <2>6, <2>7, <2>8, <2>9, TypesKeeps, SubmitsKeeps,
       SaveSucceedsKeeps, SaveFailsKeeps, ChoosesImageKeeps, ImageArrivesKeeps, RemovalEndsKeeps
    DEF FormsNext
<1>3. FormsInv => FormsKeepTheirRecord  BY DEF FormsInv
<1> QED  BY <1>1, <1>2, <1>3, PTL DEF FormsSpec

---------------------------------------------------------------------------
(* QueryCache: the tables of the hooks *)

\* The beginnings of a key.
LEMMA Beginnings ==
    /\ \A a : IsPrefix(<<a>>, <<a>>)
    /\ \A a, b : IsPrefix(<<a>>, <<a, b>>)
    /\ \A a, b : IsPrefix(<<a, b>>, <<a, b>>)
    /\ \A a, b, c : IsPrefix(<<a>>, <<a, b, c>>)
    /\ \A a, b, c : IsPrefix(<<a, b>>, <<a, b, c>>)
    /\ \A a, b, c, d : IsPrefix(<<a>>, <<a, b, c, d>>)
    /\ \A a, b, c : IsPrefix(<<a>>, <<a>> \o <<b, c>>)
<1>1. ASSUME NEW a, NEW b, NEW c PROVE IsPrefix(<<a>>, <<a>> \o <<b, c>>)
  <2> DEFINE S == {a, b, c}
             s == <<a>>
             t == <<b, c>>
  <2>1. s \in Seq(S) /\ t \in Seq(S) /\ Len(s) = 1 /\ Len(t) = 2  OBVIOUS
  <2> HIDE DEF S, s, t
  <2>2. s \o t \in Seq(S) /\ Len(s \o t) = 3
    <3>1. s \o t \in Seq(S) /\ Len(s \o t) = Len(s) + Len(t)  BY <2>1, ConcatProperties
    <3> QED  BY <2>1, <3>1
  <2>3. (s \o t)[1] = s[1]
    <3>1. \A i \in 1..(Len(s) + Len(t)) :
             (s \o t)[i] = IF i <= Len(s) THEN s[i] ELSE t[i - Len(s)]
      BY <2>1, ConcatProperties
    <3>2. 1 \in 1..(Len(s) + Len(t)) /\ 1 <= Len(s)  BY <2>1
    <3> QED  BY <3>1, <3>2, Zenon
  <2>4. SubSeq(s \o t, 1, 1) = SubSeq(s, 1, 1)  BY <2>1, <2>2, <2>3
  <2> QED  BY <2>1, <2>2, <2>4 DEF IsPrefix, s
<1> QED  BY <1>1 DEF IsPrefix

\* The columns of the rows of the tables.
LEMMA RowParts ==
    /\ \A name, at, key, shows :
          /\ Query(name, at, key, shows).name = name
          /\ Query(name, at, key, shows).key = key
          /\ Query(name, at, key, shows).shows = shows
    /\ \A name, at, writes, invalidates :
          /\ Mutation(name, at, writes, invalidates).name = name
          /\ Mutation(name, at, writes, invalidates).writes = writes
          /\ Mutation(name, at, writes, invalidates).invalidates = invalidates
BY DEF Query, Mutation

\* What a mutation that writes records of a kind invalidates, or which one it is.
Tells(m) ==
    /\ "product" \in m.writes => m.name = "startImport" \/ <<"products">> \in m.invalidates
    /\ m.name = "useUploadProductImageById" => <<"product", "id">> \in m.invalidates
    /\ "productCount" \in m.writes =>
          m.name \in {"useCreateProduct", "useUpdateProduct", "useDeleteProduct", "startImport",
                     "retryRow"}
    /\ "sale" \in m.writes => <<"sales">> \in m.invalidates
    /\ m.name = "useCreateSale" => <<"dashboard">> \in m.invalidates
    /\ "category" \in m.writes =>
          m.name \in {"startImport", "retryRow"} \/ <<"categories">> \in m.invalidates
    /\ "categoryTax" \in m.writes => m.name = "useUpdateCategory"
    /\ "customer" \in m.writes => <<"customers">> \in m.invalidates
    /\ "supplier" \in m.writes => <<"suppliers">> \in m.invalidates
    /\ "orders" \in m.writes => <<"purchase-orders">> \in m.invalidates
    /\ "order" \in m.writes =>
          {<<"purchase-orders">>, <<"purchase-order", "id">>} \subseteq m.invalidates
    /\ "expense" \in m.writes => <<"expenses">> \in m.invalidates
    /\ "expenseCategory" \in m.writes => <<"expense-categories">> \in m.invalidates
    /\ "task" \in m.writes => <<"tasks">> \in m.invalidates
    /\ "settings" \in m.writes => <<"settings">> \in m.invalidates
    /\ "payment" \in m.writes =>
          {<<"billing", "payments">>, <<"billing", "status">>} \subseteq m.invalidates
    /\ "ownMembership" \in m.writes => m.name = "useUpdateOrganizationName"

\* The same, of organizations and who works in them.
AdminTells(m) ==
    /\ "staff" \in m.writes =>
          \/ <<"users">> \in m.invalidates
          \/ m.name \in {"useUpdateProfile", "useAddOrganizationMember",
                         "useRemoveOrganizationMember"}
    /\ "staff" \in m.writes =>
          \/ <<"admin", "organization">> \in m.invalidates
          \/ m.name \in {"useCreateUser", "useDeleteUser", "useUpdateUser", "useToggleUserActive",
                         "useUpdateProfile"}
    /\ "role" \in m.writes => <<"admin", "organization">> \in m.invalidates
    /\ "headcount" \in m.writes =>
          \/ <<"admin", "organizations">> \in m.invalidates
          \/ m.name \in {"useCreateUser", "useDeleteUser"}
    /\ "organizations" \in m.writes =>
          {<<"admin", "organizations">>, <<"admin", "metrics">>} \subseteq m.invalidates
    /\ "organization" \in m.writes =>
          <<"admin", "organizations">> \in m.invalidates \/ m.name = "useRegisterPayment"
    /\ "organization" \in m.writes =>
          \/ <<"admin", "organization">> \in m.invalidates
          \/ m.name \in {"useRegisterPayment", "useDeleteOrganization"}
    /\ "organizationName" \in m.writes =>
          \/ {<<"admin", "organizations">>, <<"admin", "organization">>} \subseteq m.invalidates
          \/ m.name = "useUpdateOrganizationName"
    /\ "organizationName" \in m.writes =>
          <<"settings">> \in m.invalidates \/ m.name = "useUpdateOrganization"
    /\ "status" \in m.writes =>
          <<"admin", "metrics">> \in m.invalidates \/ m.name = "useRegisterPayment"
    /\ "status" \in m.writes =>
          <<"billing", "status">> \in m.invalidates \/ m.name = "useUpdateOrganizationStatus"
    /\ "plan" \in m.writes => m.name = "useUpdateOrganizationPlan"
    /\ "user" \in m.writes =>
          \/ <<"admin", "metrics">> \in m.invalidates
          \/ m.name \in {"useAddOrganizationMember", "useCreateUser", "useDeleteUser"}

\* Every mutation of the tables does.
LEMMA MutationsTell == \A m \in HookMutations : Tells(m)
<1>1. \A m \in ProductMutations : Tells(m)
  <2> SUFFICES ASSUME NEW m \in ProductMutations PROVE Tells(m)  OBVIOUS
  <2>1. /\ m.writes \subseteq {"product", "productCount", "activeProducts"}
        /\ m.writes # {} => <<"products">> \in m.invalidates
    BY RowParts DEF ProductMutations, Mutations
  <2>2. m.name = "useUploadProductImageById" => <<"product", "id">> \in m.invalidates
    BY RowParts DEF ProductMutations, Mutations
  <2>3. "productCount" \in m.writes =>
           m.name \in {"useCreateProduct", "useUpdateProduct", "useDeleteProduct"}
    BY RowParts DEF ProductMutations, Mutations
  <2>4. m.name # "useCreateSale"  BY RowParts DEF ProductMutations, Mutations
  <2> QED  BY <2>1, <2>2, <2>3, <2>4 DEF Tells
<1>2. \A m \in SaleMutations : Tells(m)
  BY RowParts DEF SaleMutations, Mutations, Tells
<1>3. \A m \in ReceiptCalls : Tells(m)
  BY RowParts DEF ReceiptCalls, Mutations, Tells
<1>4. \A m \in CategoryMutations : Tells(m)
  BY RowParts DEF CategoryMutations, Mutations, Tells
<1>5. \A m \in CustomerMutations : Tells(m)
  BY RowParts DEF CustomerMutations, Mutations, Tells
<1>6. \A m \in SupplierMutations : Tells(m)
  BY RowParts DEF SupplierMutations, Mutations, Tells
<1>7. \A m \in OrderMutations : Tells(m)
  BY RowParts DEF OrderMutations, Mutations, Tells, AllOrders
<1>8. \A m \in ExpenseMutations : Tells(m)
  BY RowParts DEF ExpenseMutations, Mutations, Tells
<1>9. \A m \in TaskMutations : Tells(m)
  BY RowParts DEF TaskMutations, Mutations, Tells
<1>10. \A m \in UserMutations : Tells(m)
  BY RowParts DEF UserMutations, Mutations, Tells
<1>11. \A m \in SettingsMutations : Tells(m)
  BY RowParts DEF SettingsMutations, Mutations, Tells
<1>12. \A m \in AdminMutations : Tells(m)
  BY RowParts, SMTT(60) DEF AdminMutations, Mutations, Tells, AllOrganizations
<1>13. \A m \in BillingMutations : Tells(m)
  BY RowParts DEF BillingMutations, Mutations, Tells
<1>14. \A m \in ProfileMutations : Tells(m)
  BY RowParts DEF ProfileMutations, Mutations, Tells
<1>15. \A m \in ImportMutations : Tells(m)
  BY RowParts DEF ImportMutations, Mutations, Tells
<1> QED
  BY <1>1, <1>2, <1>3, <1>4, <1>5, <1>6, <1>7, <1>8, <1>9, <1>10, <1>11, <1>12, <1>13, <1>14,
     <1>15
  DEF HookMutations

LEMMA MutationsTellAdmin == \A m \in HookMutations : AdminTells(m)
<1>1. \A m \in ProductMutations : AdminTells(m)
  BY RowParts DEF ProductMutations, Mutations, AdminTells
<1>2. \A m \in SaleMutations : AdminTells(m)
  BY RowParts DEF SaleMutations, Mutations, AdminTells
<1>3. \A m \in ReceiptCalls : AdminTells(m)
  BY RowParts DEF ReceiptCalls, Mutations, AdminTells
<1>4. \A m \in CategoryMutations : AdminTells(m)
  BY RowParts DEF CategoryMutations, Mutations, AdminTells
<1>5. \A m \in CustomerMutations : AdminTells(m)
  BY RowParts DEF CustomerMutations, Mutations, AdminTells
<1>6. \A m \in SupplierMutations : AdminTells(m)
  BY RowParts DEF SupplierMutations, Mutations, AdminTells
<1>7. \A m \in OrderMutations : AdminTells(m)
  BY RowParts DEF OrderMutations, Mutations, AdminTells, AllOrders
<1>8. \A m \in ExpenseMutations : AdminTells(m)
  BY RowParts DEF ExpenseMutations, Mutations, AdminTells
<1>9. \A m \in TaskMutations : AdminTells(m)
  BY RowParts DEF TaskMutations, Mutations, AdminTells
<1>10. \A m \in UserMutations : AdminTells(m)
  BY RowParts DEF UserMutations, Mutations, AdminTells
<1>11. \A m \in SettingsMutations : AdminTells(m)
  BY RowParts DEF SettingsMutations, Mutations, AdminTells
<1>12. \A m \in AdminMutations : AdminTells(m)
  BY RowParts, SMTT(60) DEF AdminMutations, Mutations, AdminTells, AllOrganizations
<1>13. \A m \in BillingMutations : AdminTells(m)
  BY RowParts DEF BillingMutations, Mutations, AdminTells
<1>14. \A m \in ProfileMutations : AdminTells(m)
  BY RowParts DEF ProfileMutations, Mutations, AdminTells
<1>15. \A m \in ImportMutations : AdminTells(m)
  BY RowParts DEF ImportMutations, Mutations, AdminTells
<1> QED
  BY <1>1, <1>2, <1>3, <1>4, <1>5, <1>6, <1>7, <1>8, <1>9, <1>10, <1>11, <1>12, <1>13, <1>14,
     <1>15
  DEF HookMutations

\* What a query shows is of these kinds, and its key begins so.
ShowsOnly(q, kinds, prefix) == q.shows \subseteq kinds /\ IsPrefix(prefix, q.key)

\* Each query's key begins with what the mutations of its kinds invalidate.
Begins(q) ==
    \/ /\ q.name \in LateQueries
       /\ q.name = "useDashboard" => IsPrefix(<<"dashboard">>, q.key)
       /\ q.name = "useProduct" => IsPrefix(<<"product", "id">>, q.key)
    \/ ShowsOnly(q, {"product"}, <<"products">>)
    \/ /\ ShowsOnly(q, {"product", "categoryTax"}, <<"products">>)
       /\ q.name \in {"useProducts", "useSearchProducts", "useQuickSearch"}
    \/ ShowsOnly(q, {"sale"}, <<"sales">>)
    \/ ShowsOnly(q, {"category", "productCount"}, <<"categories">>) /\ q.name = "useCategories"
    \/ ShowsOnly(q, {"customer"}, <<"customers">>)
    \/ ShowsOnly(q, {"supplier"}, <<"suppliers">>)
    \/ ShowsOnly(q, {"orders", "order"}, <<"purchase-orders">>)
    \/ ShowsOnly(q, {"order"}, <<"purchase-order", "id">>)
    \/ ShowsOnly(q, {"expense"}, <<"expenses">>)
    \/ ShowsOnly(q, {"expenseCategory"}, <<"expense-categories">>)
    \/ ShowsOnly(q, {"task"}, <<"tasks">>)
    \/ ShowsOnly(q, {"staff"}, <<"users">>) /\ q.name = "useUsers"
    \/ ShowsOnly(q, {"settings", "organizationName"}, <<"settings">>) /\ q.name = "useSettings"
    \/ /\ ShowsOnly(q, {"organizations", "organization", "organizationName", "headcount"},
                    <<"admin", "organizations">>)
       /\ q.name = "useOrganizations"
    \/ /\ ShowsOnly(q, {"organization", "organizationName", "staff", "role"},
                    <<"admin", "organization">>)
       /\ q.name = "useOrganization"
    \/ /\ ShowsOnly(q, {"organizations", "status", "plan", "user"}, <<"admin", "metrics">>)
       /\ q.name = "useAdminMetrics"
    \/ ShowsOnly(q, {"payment"}, <<"billing", "payments">>)
    \/ /\ ShowsOnly(q, {"payment", "status", "plan"}, <<"billing", "status">>)
       /\ q.name = "useBillingStatus"
    \/ q.shows \subseteq {"ownMembership"} /\ q.name = "userQuery"
    \/ q.shows = {}

\* Every query of the tables does.
LEMMA QueriesBegin == \A q \in HookQueries : Begins(q)
<1>1. \A q \in PlanLimitQueries \cup ProfileQueries :
         q.name \in LateQueries /\ q.name \notin {"useDashboard", "useProduct"}
  BY RowParts DEF LateQueries, PlanLimitQueries, ProfileQueries
<1>2. {"useProduct", "useSale", "useSaleByNumber", "useCategory", "useCustomer",
       "useCustomerByDocument", "useSupplier", "useExpense", "useInventoryMovements"}
          \subseteq LateQueries
  BY DEF LateQueries
<1>3. \A q \in ReportQueries : q.name \in LateQueries  BY DEF LateQueries
<1>4. \A q \in ReportQueries :
         /\ q.name = "useDashboard" => IsPrefix(<<"dashboard">>, q.key)
         /\ q.name # "useProduct"
  BY RowParts, Beginnings DEF ReportQueries, Report
<1>5. \A q \in ReportQueries \cup PlanLimitQueries \cup ProfileQueries : Begins(q)
  BY <1>1, <1>3, <1>4 DEF Begins
<1>6. \A q \in ProductQueries : Begins(q)
  BY <1>2, RowParts, Beginnings DEF ProductQueries, Begins, ShowsOnly
<1>7. \A q \in SaleQueries : Begins(q)
  BY <1>2, RowParts, Beginnings DEF SaleQueries, Begins, ShowsOnly
<1>8. \A q \in CategoryQueries : Begins(q)
  BY <1>2, RowParts, Beginnings DEF CategoryQueries, Begins, ShowsOnly
<1>9. \A q \in CustomerQueries : Begins(q)
  BY <1>2, RowParts, Beginnings DEF CustomerQueries, Begins, ShowsOnly
<1>10. \A q \in SupplierQueries : Begins(q)
  BY <1>2, RowParts, Beginnings DEF SupplierQueries, Begins, ShowsOnly
<1>11. \A q \in OrderQueries : Begins(q)
  BY <1>2, RowParts, Beginnings DEF OrderQueries, Begins, ShowsOnly
<1>12. \A q \in ExpenseQueries : Begins(q)
  BY <1>2, RowParts, Beginnings DEF ExpenseQueries, Begins, ShowsOnly
<1>13. \A q \in TaskQueries : Begins(q)
  BY <1>2, RowParts, Beginnings DEF TaskQueries, Begins, ShowsOnly
<1>14. \A q \in UserQueries : Begins(q)
  BY <1>2, RowParts, Beginnings DEF UserQueries, Begins, ShowsOnly
<1>15. \A q \in SettingsQueries : Begins(q)
  BY <1>2, RowParts, Beginnings DEF SettingsQueries, Begins, ShowsOnly
<1>16. \A q \in AdminQueries : Begins(q)
  BY <1>2, RowParts, Beginnings DEF AdminQueries, Begins, ShowsOnly
<1>17. \A q \in SwitcherQueries : Begins(q)
  BY <1>2, RowParts, Beginnings DEF SwitcherQueries, Begins, ShowsOnly
<1>18. \A q \in BillingQueries : Begins(q)
  BY <1>2, RowParts, Beginnings DEF BillingQueries, Begins, ShowsOnly
<1>19. \A q \in ImportQueries : Begins(q)
  BY <1>2, RowParts, Beginnings DEF ImportQueries, Begins, ShowsOnly
<1> QED
  BY <1>5, <1>6, <1>7, <1>8, <1>9, <1>10, <1>11, <1>12, <1>13, <1>14, <1>15, <1>16, <1>17,
     <1>18, <1>19
  DEF HookQueries

\* What is not late for a query.
LEMMA NotForgotten ==
    ASSUME NEW a, NEW b, ~Late(a, b)
    PROVE  /\ a # "startImport"
           /\ b \in LateQueries =>
                 \/ a = "useCreateSale" /\ b = "useDashboard"
                 \/ a = "useUploadProductImageById" /\ b = "useProduct"
           /\ b = "useCategories" =>
                 a \notin {"useCreateProduct", "useUpdateProduct", "useDeleteProduct", "retryRow"}
           /\ b \in {"useProducts", "useSearchProducts", "useQuickSearch"} =>
                 a # "useUpdateCategory"
           /\ b = "userQuery" => a # "useUpdateOrganizationName"
           /\ b = "useSettings" => a # "useUpdateOrganization"
           /\ b = "useBillingStatus" =>
                 a \notin {"useUpdateOrganizationStatus", "useUpdateOrganizationPlan"}
           /\ b = "useOrganizations" =>
                 a \notin {"useUpdateOrganizationName", "useRegisterPayment", "useCreateUser",
                          "useDeleteUser"}
           /\ b = "useOrganization" =>
                 a \notin {"useUpdateOrganizationName", "useRegisterPayment", "useCreateUser",
                          "useDeleteUser", "useUpdateUser", "useToggleUserActive",
                          "useUpdateProfile", "useDeleteOrganization"}
           /\ b = "useAdminMetrics" =>
                 a \notin {"useRegisterPayment", "useCreateUser", "useDeleteUser",
                          "useUpdateOrganizationPlan", "useAddOrganizationMember"}
           /\ b = "useUsers" =>
                 a \notin {"useUpdateProfile", "useAddOrganizationMember",
                          "useRemoveOrganizationMember"}
<1>1. <<a, b>> \notin Forgotten  BY DEF Late
<1>2. a # "startImport"  BY DEF Late
<1>3. b \in LateQueries => <<a, b>> \in Heard  BY DEF Late
<1> QED  BY <1>1, <1>2, <1>3, Zenon DEF Forgotten, Heard

\* So a query hears of every mutation that writes what it shows, but for the late ones.
LEMMA QueriesHear ==
    ASSUME NEW q \in HookQueries, NEW m \in HookMutations, Concerns(m, q), ~Late(m.name, q.name)
    PROVE  Told(m, q)
<1>1. \A prefix \in m.invalidates : IsPrefix(prefix, q.key) => Told(m, q)  BY DEF Told
<1>2. Tells(m) /\ AdminTells(m)  BY MutationsTell, MutationsTellAdmin
<1>3. Begins(q)  BY QueriesBegin
<1>4. PICK kind \in m.writes : kind \in q.shows  BY DEF Concerns
<1> DEFINE a == m.name
           b == q.name
<1>5. ~Late(a, b)  OBVIOUS
<1> QED  BY <1>1, <1>2, <1>3, <1>4, <1>5, NotForgotten DEF Tells, AdminTells, Begins, ShowsOnly

\* The query of a name has it.
LEMMA NamedQueries ==
    \A name \in DOMAIN HookQuery : HookQuery[name] \in HookQueries /\ HookQuery[name].name = name
BY DEF HookQuery

EveryHookTold ==
    \A name \in DOMAIN HookQuery : \A m \in HookMutations :
        Concerns(m, HookQuery[name]) /\ ~Late(m.name, name) => Told(m, HookQuery[name])

LEMMA HooksTell == EveryHookTold
BY NamedQueries, QueriesHear DEF EveryHookTold

---------------------------------------------------------------------------
(* QueryCache: the inductive invariant *)

Answers == [tenant : Tenants, seen : SUBSET Edits]
Shows == [tenant : Tenants, seen : SUBSET Edits, blind : BOOLEAN]
EntryRows == [data : {NoData} \cup Shows, stale : BOOLEAN, open : BOOLEAN]
Asked == [at : {"sent"}, tenant : Tenants, blind : BOOLEAN]
Served == [at : {"served"}, blind : BOOLEAN, answer : Answers]
Kinds == UNION {m.writes : m \in HookMutations}
EditRows == [at : {"new", "refused"}]
              \cup [at : {"sent", "committed", "lost"}, tenant : Tenants]
              \cup [at : {"answered"}, tenant : Tenants, late : BOOLEAN, wrote : SUBSET Kinds]

CacheTypes ==
    /\ watched \in DOMAIN HookQuery
    /\ tenant \in Tenants
    /\ entry \in EntryRows
    /\ fetching \in {NotFetching} \cup Asked \cup Served
    /\ edit \in [Edits -> EditRows]

\* Data of an organization and the mutations they show are those of the session.
Fresh(org, seen) ==
    /\ OfTenant(HookQuery[watched]) => org = tenant
    /\ Answered(org) \subseteq seen

\* Also a fetch that missed nothing asks the organization of the session, and is answered with
\* every mutation the tab was told of.
FetchFresh ==
    /\ fetching.at = "sent" /\ ~fetching.blind /\ OfTenant(HookQuery[watched]) =>
           fetching.tenant = tenant
    /\ fetching.at = "served" /\ ~fetching.blind =>
           Fresh(fetching.answer.tenant, fetching.answer.seen)

CacheInv ==
    /\ CacheTypes
    /\ FetchFresh
    /\ FreshShowsAnswered

---------------------------------------------------------------------------
(* QueryCache: the steps *)

\* A fetch is none, one that was asked, or one that was served.
LEMMA FetchKinds ==
    ASSUME CacheTypes
    PROVE  /\ NotFetching.at = "idle"
           /\ \/ fetching = NotFetching
              \/ fetching \in Asked /\ fetching.at = "sent" /\ fetching.tenant \in Tenants /\ fetching.blind \in BOOLEAN
              \/ fetching \in Served /\ fetching.at = "served" /\ fetching.blind \in BOOLEAN
                   /\ fetching.answer \in Answers /\ fetching.answer.tenant \in Tenants
BY DEF CacheTypes, Asked, Served, Answers, NotFetching

\* A new fetch asks the organization it is for.
LEMMA NewFetchAsks ==
    ASSUME NEW org \in Tenants
    PROVE  /\ NewFetch(org) \in Asked /\ NewFetch(org).at = "sent"
           /\ NewFetch(org).tenant = org /\ NewFetch(org).blind = FALSE
BY DEF NewFetch, Asked

\* A fetch that is made blind promises nothing any more.
LEMMA BlindPromises ==
    ASSUME CacheTypes, fetching # NotFetching, fetching' = [fetching EXCEPT !.blind = TRUE]
    PROVE  fetching' \in Asked \cup Served /\ FetchFresh'
<1>1. /\ fetching \in Asked \cup Served  BY DEF CacheTypes
<1>2. CASE fetching \in Asked
  BY <1>2 DEF Asked, FetchFresh
<1>3. CASE fetching \in Served
  BY <1>3 DEF Served, FetchFresh
<1> QED  BY <1>1, <1>2, <1>3

\* What is invalidated is stale, and is fetched from the session's organization or blindly.
LEMMA InvalidatedFits ==
    ASSUME CacheTypes, tenant' \in Tenants, Invalidated(tenant')
    PROVE  /\ entry' \in EntryRows /\ fetching' \in {NotFetching} \cup Asked \cup Served
           /\ FetchFresh' /\ FreshShowsAnswered'
<1>1. entry' = [entry EXCEPT !.stale = TRUE] /\ entry \in EntryRows  BY DEF Invalidated, CacheTypes
<1>2. entry' \in EntryRows /\ entry'.stale = TRUE  BY <1>1 DEF EntryRows
<1>3. FreshShowsAnswered'  BY <1>2 DEF FreshShowsAnswered, TakenForFresh
<1>4. CASE fetching' = NewFetch(tenant')
  <2>1. /\ NewFetch(tenant') \in Asked /\ NewFetch(tenant').at = "sent"
        /\ NewFetch(tenant').tenant = tenant'
    BY NewFetchAsks, Zenon
  <2> QED  BY <1>2, <1>3, <1>4, <2>1 DEF FetchFresh
<1>5. CASE fetching' = fetching /\ fetching = NotFetching
  <2>1. fetching'.at = "idle"  BY <1>5 DEF NotFetching
  <2> QED  BY <1>2, <1>3, <1>5, <2>1 DEF FetchFresh
<1>6. CASE fetching # NotFetching /\ fetching' = [fetching EXCEPT !.blind = TRUE]
  BY <1>2, <1>3, <1>6, BlindPromises
<1> QED  BY <1>4, <1>5, <1>6 DEF Invalidated

\* A step in which no mutation is answered but a late one, and the entry and its fetch rest.
LEMMA CacheRests ==
    ASSUME CacheInv, UNCHANGED <<watched, tenant, entry, fetching>>, edit' \in [Edits -> EditRows],
           \A e \in Edits : edit'[e].at = "answered" =>
               edit'[e] = edit[e] \/ edit'[e].late
    PROVE  CacheInv'
<1>1. CacheTypes'  BY DEF CacheInv, CacheTypes
<1> DEFINE before(org) == {e \in Edits : /\ edit[e].at = "answered" /\ edit[e].tenant = org
                                        /\ ~edit[e].late}
           after(org) == {e \in Edits : /\ edit'[e].at = "answered" /\ edit'[e].tenant = org
                                       /\ ~edit'[e].late}
<1>2. \A org : after(org) \subseteq before(org)  OBVIOUS
<1>3. FetchFresh'
  <2> DEFINE org == fetching.answer.tenant
  <2>1. Answered(org) = before(org) /\ Answered(org)' = after(org)
    BY DEF Answered, Committed
  <2>2. FetchFresh  BY DEF CacheInv
  <2> HIDE DEF before, after
  <2>3. after(org) \subseteq before(org)  BY <1>2
  <2> QED  BY <2>1, <2>2, <2>3 DEF FetchFresh, Fresh
<1>4. FreshShowsAnswered'
  <2> DEFINE org == entry.data.tenant
  <2>1. Answered(org) = before(org) /\ Answered(org)' = after(org)
    BY DEF Answered, Committed
  <2>2. FreshShowsAnswered  BY DEF CacheInv
  <2> HIDE DEF before, after
  <2>3. after(org) \subseteq before(org)  BY <1>2
  <2> QED  BY <2>1, <2>2, <2>3 DEF FreshShowsAnswered, TakenForFresh
<1> QED  BY <1>1, <1>3, <1>4 DEF CacheInv

\* A page is opened or closed, or the data become stale, or are collected.
LEMMA EntryKeeps ==
    ASSUME CacheInv, PageOpens \/ PageCloses \/ GrowsStale \/ Collected
    PROVE  CacheInv'
<1>1. /\ tenant \in Tenants /\ entry \in EntryRows /\ edit' = edit /\ watched' = watched /\ tenant' = tenant
  BY DEF CacheInv, CacheTypes, PageOpens, PageCloses, GrowsStale, Collected
<1>2. entry' \in EntryRows
  BY <1>1 DEF EntryRows, PageOpens, PageCloses, GrowsStale, Collected
<1>3. \/ entry'.data = entry.data /\ (entry.stale => entry'.stale)
      \/ entry'.stale
  BY <1>1 DEF EntryRows, PageOpens, PageCloses, GrowsStale, Collected
<1>4. fetching' = fetching \/ (fetching' = NewFetch(tenant) /\ fetching = NotFetching)
  BY DEF PageOpens, PageCloses, GrowsStale, Collected
<1>5. fetching' \in {NotFetching} \cup Asked \cup Served
  BY <1>1, <1>4, NewFetchAsks DEF CacheInv, CacheTypes
<1>6. FetchFresh'
  <2>1. CASE fetching' = fetching
    BY <1>1, <2>1 DEF CacheInv, FetchFresh, Fresh, Answered, Committed
  <2>2. CASE fetching' = NewFetch(tenant)
    <3>1. NewFetch(tenant).at = "sent" /\ NewFetch(tenant).tenant = tenant  BY <1>1, NewFetchAsks
    <3> QED  BY <1>1, <2>2, <3>1 DEF FetchFresh
  <2> QED  BY <1>4, <2>1, <2>2
<1>7. FreshShowsAnswered'
  BY <1>1, <1>2, <1>3 DEF CacheInv, FreshShowsAnswered, TakenForFresh, Answered, Committed, EntryRows
<1> QED  BY <1>1, <1>2, <1>5, <1>6, <1>7 DEF CacheInv, CacheTypes

\* A fetch is served.
LEMMA FetchServedKeeps ==
    ASSUME CacheInv, FetchServed
    PROVE  CacheInv'
<1> DEFINE org == fetching.tenant
           seen == Committed(org)
           answer == [tenant |-> org, seen |-> seen]
           blind == fetching.blind
           new == [at |-> "served", blind |-> blind, answer |-> answer]
<1>1. /\ fetching' = new /\ fetching.at = "sent"
      /\ UNCHANGED <<watched, tenant, entry, edit>>
  BY DEF FetchServed
<1>2. org \in Tenants /\ blind \in BOOLEAN  BY <1>1, FetchKinds DEF CacheInv
<1>3. seen \subseteq Edits /\ Answered(org) \subseteq seen  BY DEF Answered, Committed
<1>4. ~blind /\ OfTenant(HookQuery[watched]) => org = tenant
  BY <1>1 DEF CacheInv, FetchFresh
<1> HIDE DEF seen, blind
<1>5. answer \in Answers /\ answer.tenant = org /\ answer.seen = seen
  BY <1>2, <1>3 DEF Answers
<1> HIDE DEF answer
<1>6. new \in Served /\ new.at = "served" /\ new.blind = blind /\ new.answer = answer
  BY <1>2, <1>5 DEF Served
<1> HIDE DEF new
<1>7. Answered(fetching.answer.tenant)' = Answered(org)
  BY <1>1, <1>5, <1>6 DEF Answered, Committed
<1>8. FetchFresh'
  BY <1>1, <1>3, <1>4, <1>5, <1>6, <1>7 DEF FetchFresh, Fresh
<1>9. FreshShowsAnswered'
  BY <1>1 DEF CacheInv, FreshShowsAnswered, TakenForFresh, Answered, Committed
<1> QED  BY <1>1, <1>6, <1>8, <1>9 DEF CacheInv, CacheTypes

\* A fetch arrives.
LEMMA FetchArrivesKeeps ==
    ASSUME CacheInv, FetchArrives
    PROVE  CacheInv'
<1> DEFINE answer == fetching.answer
           blind == fetching.blind
           data == [tenant |-> answer.tenant, seen |-> answer.seen, blind |-> blind]
<1>1. /\ entry' = [entry EXCEPT !.stale = FALSE, !.data = data] /\ fetching' = NotFetching
      /\ fetching.at = "served" /\ UNCHANGED <<watched, tenant, edit>>
  BY DEF FetchArrives
<1>2. answer \in Answers /\ blind \in BOOLEAN  BY <1>1, FetchKinds DEF CacheInv
<1>3. ~blind => Fresh(answer.tenant, answer.seen)  BY <1>1 DEF CacheInv, FetchFresh
<1> HIDE DEF answer, blind
<1>4. answer.tenant \in Tenants /\ answer.seen \in SUBSET Edits  BY <1>2 DEF Answers
<1>5. data \in Shows /\ data.tenant = answer.tenant /\ data.seen = answer.seen /\ data.blind = blind
  BY <1>2, <1>4 DEF Shows
<1> HIDE DEF data
<1>6. entry \in EntryRows  BY DEF CacheInv, CacheTypes
<1>7. entry' \in EntryRows /\ entry'.data = data  BY <1>1, <1>5, <1>6 DEF EntryRows
<1>8. FreshShowsAnswered'
  <2>1. Answered(entry.data.tenant)' = Answered(answer.tenant)
    BY <1>1, <1>5, <1>7 DEF Answered, Committed
  <2> QED  BY <1>1, <1>3, <1>5, <1>7, <2>1 DEF FreshShowsAnswered, TakenForFresh, Fresh
<1>9. FetchFresh'  BY <1>1 DEF FetchFresh, NotFetching
<1> QED  BY <1>1, <1>7, <1>8, <1>9 DEF CacheInv, CacheTypes

\* A fetch fails.
LEMMA FetchFailsKeeps ==
    ASSUME CacheInv, FetchFails
    PROVE  CacheInv'
<1>1. fetching # NotFetching /\ UNCHANGED <<watched, tenant, entry, edit>>  BY DEF FetchFails
<1>2. FreshShowsAnswered'
  BY <1>1 DEF CacheInv, FreshShowsAnswered, TakenForFresh, Answered, Committed
<1>3. CASE fetching' = NotFetching
  <2>1. FetchFresh'  BY <1>3 DEF FetchFresh, NotFetching
  <2> QED  BY <1>1, <1>2, <1>3, <2>1 DEF CacheInv, CacheTypes
<1>4. CASE fetching' = [NewFetch(tenant) EXCEPT !.blind = fetching.blind]
  <2> DEFINE blind == fetching.blind
             new == [at |-> "sent", tenant |-> tenant, blind |-> blind]
  <2>1. blind \in BOOLEAN /\ tenant \in Tenants  BY <1>1, FetchKinds DEF CacheInv, CacheTypes
  <2> HIDE DEF blind
  <2>2. fetching' = [NewFetch(tenant) EXCEPT !.blind = blind]  BY <1>4 DEF blind
  <2>3. fetching' = new  BY <2>1, <2>2 DEF NewFetch
  <2>4. new \in Asked /\ new.at = "sent" /\ new.tenant = tenant  BY <2>1 DEF Asked
  <2> HIDE DEF new
  <2>5. FetchFresh'  BY <1>1, <2>3, <2>4 DEF FetchFresh
  <2> QED  BY <1>1, <1>2, <2>3, <2>4, <2>5 DEF CacheInv, CacheTypes
<1> QED  BY <1>3, <1>4 DEF FetchFails

\* A mutation is sent, committed, refused, or its answer is lost.
LEMMA EditKeeps ==
    ASSUME CacheInv, NEW e \in Edits, EditSent(e) \/ EditCommits(e) \/ EditFails(e)
    PROVE  CacheInv'
<1>1. /\ UNCHANGED <<watched, tenant, entry, fetching>> /\ tenant \in Tenants
      /\ edit \in [Edits -> EditRows]
  BY DEF CacheInv, CacheTypes, EditSent, EditCommits, EditFails
<1>2. PICK row \in EditRows : row.at # "answered" /\ edit' = [edit EXCEPT ![e] = row]
  <2>1. CASE EditSent(e)
    <3> DEFINE row == [at |-> "sent", tenant |-> tenant]
    <3>1. row \in EditRows /\ row.at # "answered" /\ edit' = [edit EXCEPT ![e] = row]
      BY <1>1, <2>1 DEF EditSent, EditRows
    <3> QED  BY <3>1
  <2>2. ASSUME edit[e].at \in {"sent", "committed"}, NEW at \in {"committed", "lost"}
        PROVE  [edit[e] EXCEPT !.at = at] \in EditRows /\ [edit[e] EXCEPT !.at = at].at # "answered"
    <3> DEFINE row == edit[e]
    <3>1. row \in EditRows  BY <1>1
    <3>2. row.at \in {"sent", "committed"}  BY <2>2
    <3> HIDE DEF row
    <3>3. row \in [at : {"sent", "committed", "lost"}, tenant : Tenants]
      BY <3>1, <3>2 DEF EditRows
    <3>4. [row EXCEPT !.at = at] \in EditRows /\ [row EXCEPT !.at = at].at # "answered"
      BY <3>3 DEF EditRows
    <3> QED  BY <3>4 DEF row
  <2>3. CASE EditCommits(e)
    <3> DEFINE row == [edit[e] EXCEPT !.at = "committed"]
    <3>1. edit' = [edit EXCEPT ![e] = row]  BY <1>1, <2>3 DEF EditCommits
    <3>2. row \in EditRows /\ row.at # "answered"  BY <2>2, <2>3 DEF EditCommits
    <3> QED  BY <3>1, <3>2
  <2>4. CASE EditFails(e) /\ edit[e].at = "sent"
    <3> DEFINE row == [at |-> "refused"]
    <3>1. row \in EditRows /\ row.at # "answered"  BY DEF EditRows
    <3>2. edit' = [edit EXCEPT ![e] = row]  BY <1>1, <2>4 DEF EditFails
    <3> QED  BY <3>1, <3>2
  <2>5. CASE EditFails(e) /\ edit[e].at # "sent"
    <3> DEFINE row == [edit[e] EXCEPT !.at = "lost"]
    <3>1. edit' = [edit EXCEPT ![e] = row]  BY <1>1, <2>5 DEF EditFails
    <3>2. row \in EditRows /\ row.at # "answered"  BY <2>2, <2>5 DEF EditFails
    <3> QED  BY <3>1, <3>2
  <2> QED  BY <2>1, <2>3, <2>4, <2>5
<1>3. edit' \in [Edits -> EditRows]  BY <1>1, <1>2
<1>4. \A d \in Edits : edit'[d].at = "answered" => edit'[d] = edit[d]  BY <1>1, <1>2
<1> QED  BY <1>1, <1>3, <1>4, CacheRests

\* A mutation is answered: the query is told, or the mutation is late for it.
LEMMA EditAnsweredKeeps ==
    ASSUME CacheInv, EveryHookTold, NEW e \in Edits, EditAnswered(e)
    PROVE  CacheInv'
<1>1. /\ watched' = watched /\ tenant' = tenant /\ watched \in DOMAIN HookQuery /\ tenant \in Tenants
      /\ edit \in [Edits -> EditRows] /\ edit[e].at = "committed"
  BY DEF EditAnswered, CacheInv, CacheTypes
<1>2. PICK m \in HookMutations :
         /\ Concerns(m, HookQuery[watched])
         /\ edit' = [edit EXCEPT ![e] =
                [at |-> "answered", tenant |-> edit[e].tenant, late |-> Late(m.name, watched),
                 wrote |-> m.writes \cap HookQuery[watched].shows]]
         /\ IF Told(m, HookQuery[watched]) THEN Invalidated(tenant) ELSE UNCHANGED <<entry, fetching>>
  BY <1>1 DEF EditAnswered
<1> DEFINE new == [at |-> "answered", tenant |-> edit[e].tenant, late |-> Late(m.name, watched),
                   wrote |-> m.writes \cap HookQuery[watched].shows]
<1>3. new \in EditRows /\ new.late = Late(m.name, watched)
  <2> DEFINE row == edit[e]
  <2>1. row \in EditRows /\ row.at = "committed"  BY <1>1
  <2>2. row.tenant \in Tenants  BY <2>1 DEF EditRows
  <2>3. m.writes \cap HookQuery[watched].shows \in SUBSET Kinds  BY DEF Kinds
  <2>4. Late(m.name, watched) \in BOOLEAN  BY DEF Late
  <2> HIDE DEF row
  <2> QED  BY <2>2, <2>3, <2>4 DEF EditRows, row
<1>4. edit' = [edit EXCEPT ![e] = new]  BY <1>2
<1> HIDE DEF new
<1>5. edit' \in [Edits -> EditRows]  BY <1>1, <1>3, <1>4
<1>6. CASE Told(m, HookQuery[watched])
  <2>1. CacheTypes /\ tenant' \in Tenants /\ Invalidated(tenant')  BY <1>1, <1>2, <1>6 DEF CacheInv
  <2>2. /\ entry' \in EntryRows /\ fetching' \in {NotFetching} \cup Asked \cup Served
        /\ FetchFresh' /\ FreshShowsAnswered'
    BY <2>1, InvalidatedFits
  <2> QED  BY <1>1, <1>5, <2>2 DEF CacheInv, CacheTypes
<1>7. CASE ~Told(m, HookQuery[watched])
  <2>1. UNCHANGED <<entry, fetching>>  BY <1>2, <1>7
  <2>2. Late(m.name, watched)  BY <1>1, <1>2, <1>7 DEF EveryHookTold
  <2>3. ASSUME NEW d \in Edits, edit'[d].at = "answered"
        PROVE  edit'[d] = edit[d] \/ edit'[d].late
    <3>1. CASE d = e
      <4>1. edit'[d] = new  BY <1>1, <1>4, <3>1
      <4> QED  BY <1>3, <2>2, <4>1
    <3>2. CASE d # e  BY <1>1, <1>4, <3>2
    <3> QED  BY <3>1, <3>2
  <2> QED  BY <1>1, <1>5, <2>1, <2>3, CacheRests
<1> QED  BY <1>6, <1>7

\* The user goes to another organization.
LEMMA SwitchKeeps ==
    ASSUME CacheInv, NEW org \in Tenants, SwitchOrganization(org)
    PROVE  CacheInv'
<1>1. /\ tenant' = org /\ UNCHANGED <<watched, edit>> /\ CacheTypes /\ tenant' \in Tenants
  BY DEF SwitchOrganization, CacheInv
<1>2. CASE OfTenant(HookQuery[watched])
  <2>1. Invalidated(tenant')  BY <1>1, <1>2 DEF SwitchOrganization
  <2>2. /\ entry' \in EntryRows /\ fetching' \in {NotFetching} \cup Asked \cup Served
        /\ FetchFresh' /\ FreshShowsAnswered'
    BY <1>1, <2>1, InvalidatedFits
  <2> QED  BY <1>1, <2>2 DEF CacheInv, CacheTypes
<1>3. CASE ~OfTenant(HookQuery[watched])
  <2>1. UNCHANGED <<entry, fetching>>  BY <1>3 DEF SwitchOrganization
  <2>2. FetchFresh' /\ FreshShowsAnswered'
    BY <1>1, <1>3, <2>1 DEF CacheInv, FetchFresh, FreshShowsAnswered, TakenForFresh, Fresh, Answered, Committed
  <2> QED  BY <1>1, <2>1, <2>2 DEF CacheInv, CacheTypes
<1> QED  BY <1>2, <1>3

\* The user signs in again: the data and the fetch that are there promise nothing.
LEMMA SignInKeeps ==
    ASSUME CacheInv, NEW org \in Tenants, SignInAgain(org)
    PROVE  CacheInv'
<1> DEFINE data == IF entry.data = NoData THEN entry.data ELSE [entry.data EXCEPT !.blind = TRUE]
<1>1. /\ tenant' = org /\ UNCHANGED <<watched, edit>> /\ CacheTypes
      /\ fetching' = IF fetching = NotFetching THEN fetching ELSE [fetching EXCEPT !.blind = TRUE]
  BY DEF SignInAgain, CacheInv
<1>2. entry \in EntryRows /\ entry.data \in {NoData} \cup Shows  BY <1>1 DEF CacheTypes, EntryRows
<1>3. entry' = [entry EXCEPT !.open = FALSE, !.data = data]  BY <1>2 DEF SignInAgain, EntryRows
<1>4. data \in {NoData} \cup Shows /\ (data # NoData => data.blind = TRUE)  BY <1>2 DEF Shows
<1> HIDE DEF data
<1>5. entry' \in EntryRows /\ entry'.data = data  BY <1>2, <1>3, <1>4 DEF EntryRows
<1>6. FreshShowsAnswered'  BY <1>4, <1>5 DEF FreshShowsAnswered, TakenForFresh
<1>7. FetchFresh' /\ fetching' \in {NotFetching} \cup Asked \cup Served
  <2>1. CASE fetching = NotFetching  BY <1>1, <2>1 DEF FetchFresh, NotFetching
  <2>2. CASE fetching # NotFetching  BY <1>1, <2>2, BlindPromises
  <2> QED  BY <2>1, <2>2
<1> QED  BY <1>1, <1>5, <1>6, <1>7 DEF CacheInv, CacheTypes

---------------------------------------------------------------------------
(* QueryCache: the theorem *)

\* What a page takes for fresh is of the session's organization and shows every mutation the
\* tab was told of that is not late for it: each hook invalidates every query that shows what it
\* writes, but for the pairs Late names, and no fetch that crosses an answer or a change of
\* organization is taken for fresh (frontend/src/hooks/).
THEOREM FreshIsTrue == CacheSpec => []FreshShowsAnswered
<1>1. CacheInit => CacheInv
  <2> SUFFICES ASSUME CacheInit PROVE CacheInv  OBVIOUS
  <2>1. /\ watched \in DOMAIN HookQuery /\ tenant \in Tenants /\ fetching = NotFetching
        /\ entry = [data |-> NoData, stale |-> TRUE, open |-> FALSE]
        /\ edit = [e \in Edits |-> [at |-> "new"]]
    BY QueryCacheAssumption DEF CacheInit, HookQuery
  <2>2. CacheTypes  BY <2>1 DEF CacheTypes, EntryRows, EditRows
  <2> QED  BY <2>1, <2>2 DEF CacheInv, FetchFresh, FreshShowsAnswered, TakenForFresh, NotFetching
<1>2. CacheInv /\ [CacheNext]_cacheVars => CacheInv'
  <2> SUFFICES ASSUME CacheInv, [CacheNext]_cacheVars PROVE CacheInv'  OBVIOUS
  <2>1. CASE UNCHANGED cacheVars  BY <2>1, CacheRests DEF cacheVars, CacheInv, CacheTypes
  <2> QED
    BY <2>1, EntryKeeps, FetchServedKeeps, FetchArrivesKeeps, FetchFailsKeeps, EditKeeps,
       EditAnsweredKeeps, HooksTell, SwitchKeeps, SignInKeeps
    DEF CacheNext
<1>3. CacheInv => FreshShowsAnswered  BY DEF CacheInv
<1> QED  BY <1>1, <1>2, <1>3, PTL DEF CacheSpec

---------------------------------------------------------------------------
(* TaskBoard: orders *)

\* r orders the elements of S, from the first one on.
IsOrder(r, S) ==
    /\ \A t \in S : <<t, t>> \notin r
    /\ \A t, u \in S : t # u => <<t, u>> \in r \/ <<u, t>> \in r
    /\ \A t, u, v \in S : <<t, u>> \in r /\ <<u, v>> \in r => <<t, v>> \in r

\* Among finitely many tasks in an order, one comes before all others.
LEMMA OrderHasFirst ==
    ASSUME NEW S, IsFiniteSet(S), S # {}, NEW r, IsOrder(r, S)
    PROVE  \E t \in S : \A u \in S \ {t} : <<t, u>> \in r
<1> DEFINE Before(t) == {u \in S : <<u, t>> \in r}
           R == StrictSubsetOrdering(S)
           All == {Before(t) : t \in S}
<1>1. IsWellFoundedOn(R, SUBSET S)
  BY FS_StrictSubsetOrderingWellFounded, FS_FiniteSubsetsOfFinite
<1>2. \A x, y \in SUBSET S : x \subseteq y /\ x # y => <<x, y>> \in R
  BY DEF StrictSubsetOrdering
<1>3. All \in SUBSET (SUBSET S) /\ All # {}
  OBVIOUS
<1> HIDE DEF R
<1>4. PICK m \in All : \A x \in All : ~(<<x, m>> \in R)
  BY <1>1, <1>3, WFMin
<1>5. PICK t \in S : m = Before(t)
  BY <1>4
<1>6. ASSUME NEW u \in Before(t) PROVE FALSE
  <2>1. Before(u) \subseteq Before(t)
    BY <1>5, <1>6 DEF IsOrder
  <2>2. u \in S /\ u \notin Before(u) /\ u \in Before(t)
    BY <1>6 DEF IsOrder
  <2>3. Before(u) \in All /\ Before(u) \in SUBSET S /\ Before(t) \in SUBSET S
    BY <2>2
  <2>4. Before(u) # Before(t)
    BY <2>2
  <2> HIDE DEF Before, All
  <2> QED
    BY <1>2, <1>4, <1>5, <2>1, <2>3, <2>4
<1>7. \A u \in S \ {t} : <<t, u>> \in r
  BY <1>5, <1>6 DEF IsOrder
<1> QED
  BY <1>7

\* Some of the tasks in an order are in order.
LEMMA SubsetOrdered ==
    ASSUME NEW r, NEW S, IsOrder(r, S), NEW T \in SUBSET S
    PROVE  IsOrder(r, T)
BY DEF IsOrder

\* The first of some tasks, in the order the page was answered.
LEMMA FirstIsFirst ==
    ASSUME NEW S, IsFiniteSet(S), S # {}, IsOrder(list.above, S)
    PROVE  FirstOf(S) \in S /\ \A u \in S \ {FirstOf(S)} : <<FirstOf(S), u>> \in list.above
<1>1. \E t \in S : \A u \in S \ {t} : <<t, u>> \in list.above
  BY OrderHasFirst
<1> QED
  BY <1>1 DEF FirstOf

\* The last of some tasks is one of them.
LEMMA LastIsOne ==
    ASSUME NEW S, IsFiniteSet(S), S # {}, IsOrder(list.above, S)
    PROVE  LastOf(S) \in S
<1> DEFINE r == {p \in S \X S : <<p[2], p[1]>> \in list.above}
<1>1. \A t, u \in S : <<t, u>> \in r <=> <<u, t>> \in list.above
  OBVIOUS
<1> HIDE DEF r
<1>2. IsOrder(r, S)
  BY <1>1 DEF IsOrder
<1>3. \E t \in S : \A u \in S \ {t} : <<t, u>> \in r
  BY <1>2, OrderHasFirst
<1>4. \E t \in S : \A u \in S \ {t} : <<u, t>> \in list.above
  BY <1>1, <1>3
<1> QED
  BY <1>4 DEF LastOf

\* A task changed comes first, one removed leaves the others in order.
LEMMA ChangesOrdered ==
    ASSUME IsOrder(newer, tasks), newer \subseteq tasks \X tasks, NEW t
    PROVE  /\ ToFront(t) => IsOrder(newer', tasks') /\ newer' \subseteq tasks' \X tasks'
           /\ TaskRemoved(t) => IsOrder(newer', tasks') /\ newer' \subseteq tasks' \X tasks'
<1>1. ASSUME ToFront(t) PROVE IsOrder(newer', tasks') /\ newer' \subseteq tasks' \X tasks'
  <2>1. tasks' = tasks \cup {t}
        /\ newer' = {p \in newer : p[2] # t} \cup {<<t, u>> : u \in tasks \ {t}}
    BY <1>1 DEF ToFront
  <2>2. \A u, v \in tasks' : <<u, v>> \in newer' <=>
            v # t /\ (u = t \/ <<u, v>> \in newer)
    BY <2>1
  <2>3. IsOrder(newer', tasks')
    BY <2>1, <2>2 DEF IsOrder
  <2>4. newer' \subseteq tasks' \X tasks'
    BY <2>1
  <2> QED
    BY <2>3, <2>4
<1>2. ASSUME TaskRemoved(t) PROVE IsOrder(newer', tasks') /\ newer' \subseteq tasks' \X tasks'
  <2>1. tasks' = tasks \ {t} /\ newer' = {p \in newer : p[1] # t /\ p[2] # t}
    BY <1>2 DEF TaskRemoved
  <2>2. \A u, v \in tasks' : <<u, v>> \in newer' <=> <<u, v>> \in newer
    BY <2>1
  <2>3. IsOrder(newer', tasks')
    BY <2>1, <2>2 DEF IsOrder
  <2>4. newer' \subseteq tasks' \X tasks'
    BY <2>1
  <2> QED
    BY <2>3, <2>4
<1> QED
  BY <1>1, <1>2

---------------------------------------------------------------------------
(* TaskBoard: the invariant *)

Somebody == BoardTasks \cup {NoneSelected}
CallState == [at : {"new", "sent", "failed", "done"},
              op : {"none", "status", "add", "save", "delete"},
              on : SUBSET BoardTasks, left : SUBSET BoardTasks, last : Somebody,
              to : BOOLEAN, from : Somebody, adrift : BOOLEAN, selected : Somebody]
TaskLists == [tasks : SUBSET BoardTasks, completed : SUBSET BoardTasks,
              above : SUBSET (BoardTasks \X BoardTasks)]

\* The server has finitely many tasks, in order.
TasksOrdered ==
    /\ tasks \subseteq BoardTasks /\ completed \subseteq tasks /\ newer \subseteq tasks \X tasks
    /\ IsFiniteSet(tasks) /\ IsOrder(newer, tasks)

\* So has the page, and it is what the server has unless the page is to fetch it.
ListOrdered ==
    /\ list \in TaskLists
    /\ IsFiniteSet(list.tasks) /\ IsOrder(list.above, list.tasks)
    /\ outdated \/ unseen \/ list = Answer

BoardTyped ==
    /\ {selected, draft} \subseteq Somebody /\ hidden \subseteq BoardTasks
    /\ outdated \in BOOLEAN /\ adrift \in BOOLEAN /\ unseen \in BOOLEAN
    /\ call \in [BoardCalls -> CallState]

\* What is hidden is being deleted, by a call of which nothing failed.
HiddenDoomed ==
    \A t \in hidden : \E c \in BoardCalls :
        call[c].at = "sent" /\ call[c].op = "delete" /\ t \in call[c].on

\* The panel shows the task of the draft, unless the page moved on by itself.
DraftShown == draft # NoneSelected => adrift \/ Resolved = draft

SavedOwn == \A c \in BoardCalls :
    call[c].op = "save" => call[c].on = {call[c].from} \/ call[c].adrift

BoardInv ==
    TasksOrdered /\ ListOrdered /\ BoardTyped /\ HiddenDoomed /\ DraftShown /\ SavedOwn

\* What the server answers is in order.
LEMMA AnswerOrdered ==
    ASSUME TasksOrdered
    PROVE  /\ Answer \in TaskLists /\ Answer.tasks = TasksListed
           /\ IsFiniteSet(Answer.tasks) /\ IsOrder(Answer.above, Answer.tasks)
<1>1. TasksListed \subseteq tasks
  BY DEF TasksListed
<1>2. IsOrder(newer, TasksListed) /\ IsFiniteSet(TasksListed)
  BY <1>1, SubsetOrdered, FS_Subset DEF TasksOrdered
<1> DEFINE r == {p \in TasksListed \X TasksListed : Above(p[1], p[2])}
<1>3. \A t, u \in TasksListed : <<t, u>> \in r <=>
          IF t \in completed <=> u \in completed THEN <<t, u>> \in newer ELSE u \in completed
  BY DEF Above
<1>4. Answer.above = r /\ Answer.tasks = TasksListed
  BY DEF Answer
<1>5. Answer \in TaskLists
  BY <1>1 DEF Answer, TaskLists, TasksOrdered
<1> HIDE DEF r
<1>6. IsOrder(r, TasksListed)
  BY <1>2, <1>3 DEF IsOrder
<1> QED
  BY <1>2, <1>4, <1>5, <1>6

\* The task in the panel is one of those the page shows, if it shows any.
LEMMA ResolvedShown ==
    ASSUME ListOrdered
    PROVE  /\ Visible \subseteq BoardTasks /\ IsFiniteSet(Visible) /\ IsOrder(list.above, Visible)
           /\ Resolved \in Visible \cup {NoneSelected}
           /\ Visible # {} => Resolved \in Visible
<1>1. Visible \subseteq list.tasks /\ list.tasks \subseteq BoardTasks
  BY DEF ListOrdered, TaskLists, Visible
<1>2. IsFiniteSet(Visible) /\ IsOrder(list.above, Visible)
  BY <1>1, FS_Subset, SubsetOrdered DEF ListOrdered
<1>3. Visible # {} => FirstOf(Visible) \in Visible
  BY <1>2, FirstIsFirst
<1>4. Visible = {} => FirstOf(Visible) = NoneSelected
  BY DEF FirstOf
<1> QED
  BY <1>1, <1>2, <1>3, <1>4 DEF Resolved, ResolvedIn

\* Hiding other tasks leaves the panel as it is.
LEMMA ResolvedStays ==
    ASSUME ListOrdered, NEW doomed, Visible # {}, Resolved \notin doomed, selected' = selected,
           list' = list, hidden' = hidden \cup doomed
    PROVE  Resolved' = Resolved
<1>1. /\ Visible \subseteq BoardTasks /\ IsFiniteSet(Visible) /\ IsOrder(list.above, Visible)
      /\ Resolved \in Visible
  BY ResolvedShown
<1>2. Visible' = Visible \ doomed
  BY DEF Visible
<1>3. CASE selected \in Visible
  BY <1>2, <1>3 DEF Resolved, ResolvedIn
<1>4. CASE selected \notin Visible
  <2>1. Resolved = FirstOf(Visible) /\ Resolved \in Visible'
    BY <1>1, <1>2, <1>4 DEF Resolved, ResolvedIn
  <2>2. IsFiniteSet(Visible') /\ IsOrder(list.above, Visible') /\ Visible' # {}
    BY <1>1, <1>2, <2>1, FS_Subset, SubsetOrdered
  <2>3. FirstOf(Visible') \in Visible'
        /\ \A u \in Visible' \ {FirstOf(Visible')} : <<FirstOf(Visible'), u>> \in list.above
    BY <2>2, FirstIsFirst
  <2>4. \A u \in Visible \ {Resolved} : <<Resolved, u>> \in list.above
    BY <1>1, <2>1, FirstIsFirst
  <2>5. FirstOf(Visible') = Resolved
    <3>1. SUFFICES ASSUME FirstOf(Visible') # Resolved PROVE FALSE
      OBVIOUS
    <3>2. /\ <<FirstOf(Visible'), Resolved>> \in list.above
          /\ <<Resolved, FirstOf(Visible')>> \in list.above
      BY <1>2, <2>1, <2>3, <2>4, <3>1
    <3>3. FirstOf(Visible') \in Visible /\ Resolved \in Visible
      BY <1>1, <1>2, <2>3
    <3> QED
      BY <1>1, <3>2, <3>3 DEF IsOrder
  <2>6. Resolved' = FirstOf(Visible')
    BY <1>2, <1>4 DEF Resolved, ResolvedIn, FirstOf
  <2> QED
    BY <2>5, <2>6
<1> QED
  BY <1>3, <1>4

---------------------------------------------------------------------------
(* TaskBoard: the actions *)

\* Initially the page was answered what the server has.
LEMMA InitBoard == BoardInit => BoardInv
<1> SUFFICES ASSUME BoardInit PROVE BoardInv
  OBVIOUS
<1> DEFINE n == Len(FirstTasks)
<1>1. /\ n \in Nat /\ DOMAIN FirstTasks = 1..n /\ \A i \in 1..n : FirstTasks[i] \in BoardTasks
      /\ \A i, j \in 1..n : FirstTasks[i] = FirstTasks[j] => i = j
  BY TaskBoardAssumption DEF IsInjective
<1> HIDE DEF n
<1>2. tasks = {FirstTasks[i] : i \in 1..n} /\ completed \subseteq tasks
  BY <1>1 DEF BoardInit, Range
<1>3. IsFiniteSet(tasks)
  <2>1. FirstTasks \in Surjection(1..n, tasks)
    <3>1. FirstTasks \in [1..n -> BoardTasks]
      BY <1>1, TaskBoardAssumption
    <3> QED
      BY <1>1, <1>2, <3>1 DEF Surjection
  <2> QED
    BY <1>1, <2>1, FS_Interval, FS_Surjection
<1>4. \A p \in tasks \X tasks :
         p \in newer <=> \E i, j \in 1..n : i < j /\ p = <<FirstTasks[i], FirstTasks[j]>>
  BY <1>1 DEF BoardInit
<1>5. newer \subseteq tasks \X tasks
  BY DEF BoardInit
<1>6. \A i, j \in 1..n : <<FirstTasks[i], FirstTasks[j]>> \in newer <=> i < j
  BY <1>1, <1>2, <1>4
<1>7. IsOrder(newer, tasks)
  <2>1. ASSUME NEW t \in tasks PROVE <<t, t>> \notin newer
    <3>1. PICK i \in 1..n : t = FirstTasks[i]
      BY <1>2
    <3> QED
      BY <1>1, <1>6, <3>1
  <2>2. ASSUME NEW t \in tasks, NEW u \in tasks, t # u
        PROVE  <<t, u>> \in newer \/ <<u, t>> \in newer
    <3>1. PICK i \in 1..n : t = FirstTasks[i]
      BY <1>2
    <3>2. PICK j \in 1..n : u = FirstTasks[j]
      BY <1>2
    <3>3. i < j \/ j < i
      BY <1>1, <2>2, <3>1, <3>2
    <3> QED
      BY <1>6, <3>1, <3>2, <3>3
  <2>3. ASSUME NEW t \in tasks, NEW u \in tasks, NEW v \in tasks,
               <<t, u>> \in newer, <<u, v>> \in newer
        PROVE  <<t, v>> \in newer
    <3>1. PICK i \in 1..n : t = FirstTasks[i]
      BY <1>2
    <3>2. PICK j \in 1..n : u = FirstTasks[j]
      BY <1>2
    <3>3. PICK k \in 1..n : v = FirstTasks[k]
      BY <1>2
    <3>4. i < j /\ j < k
      BY <1>6, <2>3, <3>1, <3>2, <3>3
    <3>5. i < k
      BY <1>1, <3>4
    <3> QED
      BY <1>6, <3>1, <3>3, <3>5
  <2> QED
    BY <2>1, <2>2, <2>3 DEF IsOrder
<1>8. TasksOrdered
  BY <1>1, <1>2, <1>3, <1>5, <1>7 DEF TasksOrdered
<1>9. ListOrdered
  <2>1. list = Answer
    BY DEF BoardInit
  <2> QED
    BY <1>8, <2>1, AnswerOrdered DEF ListOrdered
<1>10. BoardTyped
  BY DEF BoardInit, BoardTyped, Somebody, CallState, NewCall
<1>11. HiddenDoomed /\ DraftShown /\ SavedOwn
  BY DEF BoardInit, HiddenDoomed, DraftShown, SavedOwn, NewCall
<1> QED
  BY <1>8, <1>9, <1>10, <1>11 DEF BoardInv

\* What the server has is what it had.
LEMMA ServerRests ==
    ASSUME TasksOrdered, UNCHANGED serverVars
    PROVE  TasksOrdered' /\ Answer' = Answer
BY DEF TasksOrdered, serverVars, Answer, TasksListed, Above, IsOrder

\* The handlers without a request.
LEMMA HandlersKeep ==
    ASSUME BoardInv,
           (\E t \in BoardTasks : ClickTask(t)) \/ EditSelectedTask \/ CancelTaskEdit
    PROVE  BoardInv'
<1>1. UNCHANGED <<serverVars, list, outdated, hidden, call, unseen>>
  BY DEF ClickTask, EditSelectedTask, CancelTaskEdit
<1>2. TasksOrdered' /\ Answer' = Answer
  BY <1>1, ServerRests DEF BoardInv
<1>3. ListOrdered' /\ HiddenDoomed' /\ SavedOwn'
  BY <1>1, <1>2 DEF BoardInv, ListOrdered, HiddenDoomed, SavedOwn
<1>4. /\ Resolved \in Visible \cup {NoneSelected} /\ Visible \subseteq BoardTasks
      /\ Visible' = Visible
  BY <1>1, ResolvedShown DEF BoardInv, Visible
<1>5. CASE \E t \in BoardTasks : ClickTask(t)
  BY <1>1, <1>2, <1>3, <1>5 DEF ClickTask, BoardInv, BoardTyped, DraftShown, Somebody
<1>6. CASE EditSelectedTask
  <2>1. Resolved' = Resolved /\ draft' = Resolved /\ selected' = selected /\ adrift' = FALSE
    BY <1>1, <1>4, <1>6 DEF EditSelectedTask, Resolved, ResolvedIn, FirstOf
  <2> QED
    BY <1>1, <1>2, <1>3, <1>4, <2>1 DEF BoardInv, BoardTyped, DraftShown, Somebody
<1>7. CASE CancelTaskEdit
  BY <1>1, <1>2, <1>3, <1>7 DEF CancelTaskEdit, BoardInv, BoardTyped, DraftShown, Somebody
<1> QED
  BY <1>5, <1>6, <1>7

\* A list that arrives is what the server has.
LEMMA ListArrivesKeeps == ASSUME BoardInv, ListArrives PROVE BoardInv'
<1>1. /\ list' = Answer /\ outdated' = FALSE /\ unseen' = FALSE
      /\ UNCHANGED <<serverVars, selected, hidden, draft, call>> /\ Drifts
  BY DEF ListArrives
<1>2. TasksOrdered' /\ Answer' = Answer
  BY <1>1, ServerRests DEF BoardInv
<1>3. ListOrdered'
  <2>1. list' \in TaskLists /\ IsFiniteSet(list'.tasks) /\ IsOrder(list'.above, list'.tasks)
    BY <1>1, AnswerOrdered DEF BoardInv
  <2> QED
    BY <1>1, <1>2, <2>1 DEF ListOrdered
<1>4. BoardTyped' /\ HiddenDoomed' /\ SavedOwn'
  BY <1>1 DEF BoardInv, BoardTyped, HiddenDoomed, SavedOwn, Drifts
<1>5. DraftShown'
  BY <1>1 DEF Drifts, DraftShown
<1> QED
  BY <1>2, <1>3, <1>4, <1>5 DEF BoardInv

\* A call that is sent has a state, and says on which task it saves a draft.
LEMMA SendsKeeps ==
    ASSUME BoardInv, NEW c \in BoardCalls, NEW request \in CallState, Sends(c, request),
           request.op = "save" => request.on = {request.from} \/ request.adrift
    PROVE  /\ call' \in [BoardCalls -> CallState] /\ SavedOwn' /\ call'[c] = request
           /\ hidden' = hidden => HiddenDoomed'
<1>1. /\ call[c].at = "new" /\ call' \in [BoardCalls -> CallState]
      /\ \A d \in BoardCalls : call'[d] = IF d = c THEN request ELSE call[d]
  BY DEF Sends, BoardInv, BoardTyped
<1>2. SavedOwn'
  BY <1>1 DEF BoardInv, SavedOwn
<1>3. hidden' = hidden => HiddenDoomed'
  BY <1>1 DEF BoardInv, HiddenDoomed
<1> QED
  BY <1>1, <1>2, <1>3

\* The handlers with a request that hides nothing.
LEMMA RequestsKeep ==
    ASSUME BoardInv, NEW c \in BoardCalls,
           SaveTaskEdit(c) \/ \E t \in BoardTasks : SetStatus(c, t) \/ AddTask(c, t)
    PROVE  BoardInv'
<1>1. UNCHANGED <<serverVars, list, outdated, selected, hidden, draft, adrift, unseen>>
  BY DEF SaveTaskEdit, SetStatus, AddTask
<1>2. TasksOrdered' /\ Answer' = Answer
  BY <1>1, ServerRests DEF BoardInv
<1>3. ListOrdered' /\ DraftShown'
  BY <1>1, <1>2 DEF BoardInv, ListOrdered, DraftShown, Resolved, ResolvedIn, Visible, FirstOf
<1>4. /\ Resolved \in Visible \cup {NoneSelected} /\ Visible \subseteq BoardTasks
      /\ draft # NoneSelected => adrift \/ Resolved = draft
      /\ draft \in Somebody /\ adrift \in BOOLEAN
  BY ResolvedShown DEF BoardInv, DraftShown, BoardTyped
<1>5. \E request \in CallState :
         Sends(c, request) /\ (request.op = "save" => request.on = {request.from} \/ request.adrift)
  <2>1. CASE SaveTaskEdit(c)
    <3> DEFINE request == [Request("save", {Resolved}, Resolved)
                               EXCEPT !.from = draft, !.adrift = adrift]
    <3>1. Sends(c, request) /\ Resolved \in BoardTasks /\ draft # NoneSelected
      BY <1>4, <2>1 DEF SaveTaskEdit, Editing
    <3>2. /\ request \in CallState /\ request.on = {Resolved} /\ request.from = draft
          /\ request.adrift = adrift
      BY <1>4, <3>1 DEF Request, NewCall, CallState, Somebody
    <3> HIDE DEF request
    <3> QED
      BY <1>4, <3>1, <3>2
  <2>2. ASSUME NEW t \in BoardTasks, SetStatus(c, t)
        PROVE  \E request \in CallState : Sends(c, request) /\ request.op # "save"
    <3> DEFINE request == [Request("status", {t}, t) EXCEPT !.to = t \notin list.completed]
    <3>1. Sends(c, request)
      BY <2>2 DEF SetStatus
    <3>2. request \in CallState /\ request.op # "save"
      BY DEF Request, NewCall, CallState, Somebody
    <3> HIDE DEF request
    <3> QED
      BY <3>1, <3>2
  <2>3. ASSUME NEW t \in BoardTasks, AddTask(c, t)
        PROVE  \E request \in CallState : Sends(c, request) /\ request.op # "save"
    <3> DEFINE request == Request("add", {t}, t)
    <3>1. Sends(c, request)
      BY <2>3 DEF AddTask
    <3>2. request \in CallState /\ request.op # "save"
      BY DEF Request, NewCall, CallState, Somebody
    <3> HIDE DEF request
    <3> QED
      BY <3>1, <3>2
  <2> QED
    BY <2>1, <2>2, <2>3
<1>6. call' \in [BoardCalls -> CallState] /\ SavedOwn' /\ HiddenDoomed'
  BY <1>1, <1>5, SendsKeeps
<1>7. BoardTyped'
  BY <1>1, <1>6 DEF BoardInv, BoardTyped
<1> QED
  BY <1>2, <1>3, <1>6, <1>7 DEF BoardInv

\* Deletions hide their tasks, and leave the panel alone if its task is not one of them.
LEMMA DeletionsKeep ==
    ASSUME BoardInv, NEW c \in BoardCalls, DeleteTask(c) \/ ClearCompletedTasks(c)
    PROVE  BoardInv'
<1>1. /\ Visible \subseteq BoardTasks /\ IsFiniteSet(Visible) /\ IsOrder(list.above, Visible)
      /\ Resolved \in Visible \cup {NoneSelected}
      /\ Visible # {} => Resolved \in Visible
  BY ResolvedShown DEF BoardInv
<1>2. PICK doomed : doomed \in SUBSET Visible /\ doomed # {} /\ DeleteTasks(c, doomed)
  BY <1>1 DEF DeleteTask, ClearCompletedTasks
<1>3. UNCHANGED <<serverVars, list, outdated, unseen>> /\ hidden' = hidden \cup doomed
  BY <1>2 DEF DeleteTasks
<1>4. TasksOrdered' /\ Answer' = Answer
  BY <1>3, ServerRests DEF BoardInv
<1>5. ListOrdered'
  BY <1>3, <1>4 DEF BoardInv, ListOrdered
<1> DEFINE request == [Request("delete", doomed, LastOf(doomed)) EXCEPT !.selected = Resolved]
<1>6. Sends(c, request)
  BY <1>2 DEF DeleteTasks
<1>7. LastOf(doomed) \in BoardTasks
  <2>1. IsFiniteSet(doomed) /\ IsOrder(list.above, doomed)
    BY <1>1, <1>2, FS_Subset, SubsetOrdered
  <2> QED
    BY <1>1, <1>2, <2>1, LastIsOne
<1>8. /\ request \in CallState /\ request.op = "delete" /\ request.on = doomed
      /\ request.at = "sent"
  BY <1>1, <1>2, <1>7 DEF Request, NewCall, CallState, Somebody
<1> HIDE DEF request
<1>9. call' \in [BoardCalls -> CallState] /\ SavedOwn' /\ call'[c] = request
  BY <1>6, <1>8, SendsKeeps
<1>10. \A d \in BoardCalls : call[d].at = "sent" => call'[d] = call[d]
  BY <1>6 DEF Sends, BoardInv, BoardTyped
<1>11. HiddenDoomed'
  BY <1>3, <1>8, <1>9, <1>10 DEF BoardInv, HiddenDoomed
<1>12. CASE Resolved \in doomed
  <2>1. selected' = FirstOf(Visible \ doomed) /\ draft' = NoneSelected /\ adrift' = FALSE
    BY <1>2, <1>12 DEF DeleteTasks
  <2>2. IsFiniteSet(Visible \ doomed) /\ IsOrder(list.above, Visible \ doomed)
    BY <1>1, FS_Subset, SubsetOrdered
  <2>3. FirstOf(Visible \ doomed) \in Somebody
    <3>1. CASE Visible \ doomed = {}
      BY <3>1 DEF FirstOf, Somebody
    <3>2. CASE Visible \ doomed # {}
      BY <1>1, <2>2, <3>2, FirstIsFirst DEF Somebody
    <3> QED
      BY <3>1, <3>2
  <2>4. BoardTyped' /\ DraftShown'
    BY <1>1, <1>2, <1>3, <1>9, <2>1, <2>3 DEF BoardInv, BoardTyped, DraftShown, Somebody
  <2> QED
    BY <1>4, <1>5, <1>9, <1>11, <2>4 DEF BoardInv
<1>13. CASE Resolved \notin doomed
  <2>1. UNCHANGED <<selected, draft, adrift>>
    BY <1>2, <1>13 DEF DeleteTasks
  <2>2. Resolved' = Resolved
    BY <1>2, <1>3, <1>13, <2>1, ResolvedStays DEF BoardInv
  <2>3. BoardTyped' /\ DraftShown'
    BY <1>1, <1>2, <1>3, <1>9, <2>1, <2>2 DEF BoardInv, BoardTyped, DraftShown
  <2> QED
    BY <1>4, <1>5, <1>9, <1>11, <2>3 DEF BoardInv
<1> QED
  BY <1>12, <1>13

\* A task changed, created or removed leaves the tasks in order.
LEMMA WorkOrdered ==
    ASSUME TasksOrdered, NEW t \in BoardTasks,
           \/ ToFront(t) /\ completed' \subseteq completed \cup {t}
           \/ TaskRemoved(t) /\ completed' = completed \ {t}
    PROVE  TasksOrdered'
<1>1. IsOrder(newer', tasks') /\ newer' \subseteq tasks' \X tasks'
  BY ChangesOrdered DEF TasksOrdered
<1>2. tasks' = tasks \cup {t} \/ tasks' = tasks \ {t}
  BY DEF ToFront, TaskRemoved
<1>3. IsFiniteSet(tasks') /\ tasks' \subseteq BoardTasks
  BY <1>2, FS_AddElement, FS_Subset DEF TasksOrdered
<1>4. completed' \subseteq tasks'
  BY DEF TasksOrdered, ToFront, TaskRemoved
<1> QED
  BY <1>1, <1>3, <1>4 DEF TasksOrdered

\* What the server does for a call leaves the tasks in order.
LEMMA DoneOrdered ==
    ASSUME TasksOrdered, NEW c \in BoardCalls, NEW t \in BoardTasks, Done(c, t)
    PROVE  TasksOrdered'
<1>1. CASE call[c].op = "delete"
  BY <1>1, WorkOrdered DEF Done
<1>2. CASE call[c].op # "delete"
  BY <1>2, WorkOrdered DEF Done
<1> QED
  BY <1>1, <1>2

\* An answered request leaves its call with the others.
LEMMA AnsweredState ==
    ASSUME BoardInv, NEW c \in BoardCalls, NEW t \in BoardTasks, Succeeds(c, t) \/ Fails(c, t)
    PROVE  /\ call' \in [BoardCalls -> CallState] /\ SavedOwn'
           /\ \A d \in BoardCalls : d # c => call'[d] = call[d]
           /\ call'[c].on = call[c].on /\ call'[c].op = call[c].op
           /\ Succeeds(c, t) => call'[c].at = IF call[c].left \ {t} = {} THEN "done" ELSE call[c].at
<1>1. call[c] \in CallState /\ call \in [BoardCalls -> CallState]
  BY DEF BoardInv, BoardTyped
<1>2. \E left \in SUBSET BoardTasks, at \in {"sent", "failed", "done"} :
         /\ call' = [call EXCEPT ![c] = [call[c] EXCEPT !.left = left, !.at = at]]
         /\ Succeeds(c, t) => at = IF call[c].left \ {t} = {} THEN "done" ELSE call[c].at
  <2> DEFINE left == call[c].left \ {t}
  <2>1. left \in SUBSET BoardTasks
    BY <1>1 DEF CallState
  <2>2. CASE Succeeds(c, t)
    <3> DEFINE at == IF left = {} THEN "done" ELSE call[c].at
    <3>1. at \in {"sent", "failed", "done"}
      BY <2>2 DEF Succeeds, Waiting
    <3>2. call' = [call EXCEPT ![c] = [call[c] EXCEPT !.left = left, !.at = at]]
      BY <1>1, <2>2 DEF Succeeds, CallState
    <3> QED
      BY <2>1, <3>1, <3>2
  <2>3. CASE Fails(c, t) /\ ~Succeeds(c, t)
    <3> DEFINE at == IF left = {} THEN "done" ELSE "failed"
    <3>1. call' = [call EXCEPT ![c] = [call[c] EXCEPT !.left = left, !.at = at]]
      BY <1>1, <2>3 DEF Fails, CallState
    <3> QED
      BY <2>1, <2>3, <3>1
  <2> QED
    BY <2>2, <2>3
<1>3. PICK left \in SUBSET BoardTasks : \E at \in {"sent", "failed", "done"} :
         /\ call' = [call EXCEPT ![c] = [call[c] EXCEPT !.left = left, !.at = at]]
         /\ Succeeds(c, t) => at = IF call[c].left \ {t} = {} THEN "done" ELSE call[c].at
  BY <1>2
<1>4. PICK at \in {"sent", "failed", "done"} :
         /\ call' = [call EXCEPT ![c] = [call[c] EXCEPT !.left = left, !.at = at]]
         /\ Succeeds(c, t) => at = IF call[c].left \ {t} = {} THEN "done" ELSE call[c].at
  BY <1>3
<1> DEFINE next == [call[c] EXCEPT !.left = left, !.at = at]
<1>5. /\ next \in CallState /\ next.on = call[c].on /\ next.op = call[c].op /\ next.at = at
      /\ next.from = call[c].from /\ next.adrift = call[c].adrift
  BY <1>1 DEF CallState
<1>6. call' = [call EXCEPT ![c] = next]
  BY <1>4
<1> HIDE DEF next
<1>7. /\ call' \in [BoardCalls -> CallState]
      /\ \A d \in BoardCalls : call'[d] = IF d = c THEN next ELSE call[d]
  BY <1>1, <1>5, <1>6
<1>8. SavedOwn'
  BY <1>5, <1>7 DEF BoardInv, SavedOwn
<1> QED
  BY <1>4, <1>5, <1>7, <1>8

\* An answer makes the page fetch the list, and the last one of a deletion shows what it hid.
LEMMA SucceedsKeeps ==
    ASSUME BoardInv, NEW c \in BoardCalls, NEW t \in BoardTasks, Succeeds(c, t)
    PROVE  BoardInv'
<1>1. /\ Done(c, t) /\ outdated' = TRUE /\ UNCHANGED <<list, unseen>> /\ Drifts
      /\ selected' \in {selected, t} /\ draft' \in {draft, NoneSelected}
      /\ hidden' = IF call[c].left \ {t} = {} /\ <<call[c].at, call[c].op>> = <<"sent", "delete">>
                   THEN hidden \ call[c].on ELSE hidden
  BY DEF Succeeds
<1>2. TasksOrdered' /\ ListOrdered'
  BY <1>1, DoneOrdered DEF BoardInv, ListOrdered
<1>3. /\ call' \in [BoardCalls -> CallState] /\ SavedOwn'
      /\ \A d \in BoardCalls : d # c => call'[d] = call[d]
      /\ call'[c].on = call[c].on /\ call'[c].op = call[c].op
      /\ call'[c].at = IF call[c].left \ {t} = {} THEN "done" ELSE call[c].at
  BY AnsweredState
<1>4. BoardTyped' /\ DraftShown'
  BY <1>1, <1>3 DEF BoardInv, BoardTyped, DraftShown, Drifts, Somebody
<1>5. HiddenDoomed'
  BY <1>1, <1>3 DEF BoardInv, HiddenDoomed
<1> QED
  BY <1>2, <1>3, <1>4, <1>5 DEF BoardInv

\* The first failure of a deletion shows what it hid.
LEMMA FailsKeeps ==
    ASSUME BoardInv, NEW c \in BoardCalls, NEW t \in BoardTasks, Fails(c, t)
    PROVE  BoardInv'
<1>1. /\ UNCHANGED <<list, outdated, draft>> /\ Drifts
      /\ UNCHANGED <<serverVars, unseen>> \/ (Done(c, t) /\ unseen' = TRUE)
  BY DEF Fails
<1>2. TasksOrdered'
  BY <1>1, DoneOrdered, ServerRests DEF BoardInv
<1>3. ListOrdered'
  BY <1>1, ServerRests DEF BoardInv, ListOrdered
<1>4. /\ call' \in [BoardCalls -> CallState] /\ SavedOwn'
      /\ \A d \in BoardCalls : d # c => call'[d] = call[d]
  BY AnsweredState
<1>5. call[c] \in CallState
  BY DEF BoardInv, BoardTyped
<1>6. /\ selected' \in {selected, call[c].selected} /\ hidden' \subseteq hidden
      /\ call[c].op = "delete" /\ call[c].at = "sent" => hidden' = hidden \ call[c].on
  BY DEF Fails, Restored
<1>7. BoardTyped' /\ DraftShown'
  BY <1>1, <1>4, <1>5, <1>6 DEF BoardInv, BoardTyped, DraftShown, Drifts, CallState
<1>8. HiddenDoomed'
  BY <1>4, <1>6 DEF BoardInv, HiddenDoomed
<1> QED
  BY <1>2, <1>3, <1>4, <1>7, <1>8 DEF BoardInv

\* What a colleague does is on the server, and the page has not seen it.
LEMMA ColleagueKeeps ==
    ASSUME BoardInv, NEW c \in BoardCalls, NEW t \in BoardTasks, ColleagueWorks(c, t)
    PROVE  BoardInv'
<1>1. /\ unseen' = TRUE /\ UNCHANGED <<list, outdated, selected, hidden, draft, adrift>>
      /\ call[c].at = "new" /\ call' = [call EXCEPT ![c] = [NewCall EXCEPT !.at = "done"]]
      /\ \/ ToFront(t) /\ completed' \subseteq completed \cup {t}
         \/ TaskRemoved(t) /\ completed' = completed \ {t}
  BY DEF ColleagueWorks
<1>2. TasksOrdered' /\ ListOrdered'
  BY <1>1, WorkOrdered DEF BoardInv, ListOrdered
<1> DEFINE next == [NewCall EXCEPT !.at = "done"]
<1>3. next \in CallState /\ next.op = "none" /\ call' = [call EXCEPT ![c] = next]
  BY <1>1 DEF NewCall, CallState, Somebody
<1> HIDE DEF next
<1>4. /\ call' \in [BoardCalls -> CallState]
      /\ \A d \in BoardCalls : call'[d] = IF d = c THEN next ELSE call[d]
  BY <1>3 DEF BoardInv, BoardTyped
<1>5. BoardTyped' /\ HiddenDoomed' /\ SavedOwn'
  BY <1>1, <1>3, <1>4 DEF BoardInv, BoardTyped, HiddenDoomed, SavedOwn
<1>6. DraftShown'
  BY <1>1 DEF BoardInv, DraftShown, Resolved, ResolvedIn, Visible, FirstOf
<1> QED
  BY <1>2, <1>5, <1>6 DEF BoardInv

\* Every step of the tasks page keeps the invariant.
LEMMA NextBoardKeeps == ASSUME BoardInv, [BoardNext]_boardVars PROVE BoardInv'
<1>1. CASE UNCHANGED boardVars
  <2>1. UNCHANGED <<serverVars, list, outdated, selected, hidden, draft, call, adrift, unseen>>
    BY <1>1 DEF boardVars
  <2>2. TasksOrdered' /\ Answer' = Answer
    BY <2>1, ServerRests DEF BoardInv
  <2> QED
    BY <2>1, <2>2 DEF BoardInv, ListOrdered, BoardTyped, HiddenDoomed, DraftShown, SavedOwn,
                      Resolved, ResolvedIn, Visible, FirstOf
<1>2. CASE BoardNext
  BY <1>2, HandlersKeep, ListArrivesKeeps, RequestsKeep, DeletionsKeep, SucceedsKeeps, FailsKeeps,
     ColleagueKeeps
  DEF BoardNext
<1> QED
  BY <1>1, <1>2

\* For any tasks, any number of calls and any answers to them: a page with nothing under way shows
\* the first tasks of the server in its order, and a draft is saved on another task than its own
\* only after the page moved its selection by itself (app/tasks/page.tsx:113-124, 165-221, 249-273).
THEOREM BoardStaysTrue == BoardSpec => []BoardIsTrue
<1>1. BoardInv => BoardIsTrue
  <2>1. ASSUME BoardInv, ~outdated, ~unseen, \A c \in BoardCalls : call[c].at \in {"new", "done"}
        PROVE  list = Answer /\ Visible = TasksListed
    <3>1. list = Answer
      BY <2>1 DEF BoardInv, ListOrdered
    <3>2. hidden = {}
      BY <2>1 DEF BoardInv, HiddenDoomed
    <3>3. Answer.tasks = TasksListed
      BY DEF Answer
    <3> QED
      BY <3>1, <3>2, <3>3 DEF Visible
  <2> QED
    BY <2>1 DEF BoardIsTrue, BoardInv, SavedOwn
<1> QED
  BY <1>1, InitBoard, NextBoardKeeps, PTL DEF BoardSpec

---------------------------------------------------------------------------
(* Access: the calls that are answered *)

Hooks == HookQueries \cup HookMutations \cup ExportCalls \cup SessionCalls
Requested(name, at) == [name |-> name, at |-> at] \in AllCalls
OpenTo(at, roles) == [at |-> at, roles |-> roles] \in ServedRoutes
\* A call with that name is answered to the roles that pass these.
AnsweredTo(name, roles) == \E at : Requested(name, at) /\ OpenTo(at, roles)

\* What is answered to the roles that pass some is served to each of them.
LEMMA AnsweredServed ==
    ASSUME NEW role \in AppRoles, NEW roles, Passes(role, roles), NEW name, AnsweredTo(name, roles)
    PROVE  name \in ServedCalls[role]
<1>1. PICK at : Requested(name, at) /\ OpenTo(at, roles)  BY DEF AnsweredTo
<1> DEFINE c == [name |-> name, at |-> at]
           r == [at |-> at, roles |-> roles]
<1>2. c \in AllCalls /\ r \in ServedRoutes /\ r.at = c.at /\ Passes(role, r.roles)
  BY <1>1 DEF Requested, OpenTo
<1>3. c \in {d \in AllCalls :
                \E route \in ServedRoutes : route.at = d.at /\ Passes(role, route.roles)}
  BY <1>2
<1>4. c.name = name  OBVIOUS
<1> QED  BY <1>3, <1>4 DEF ServedCalls

\* The roles that pass each @Roles.
LEMMA Passing ==
    /\ \A role \in AppRoles : Passes(role, Everybody)
    /\ \A role \in AppRoles \ {"INVENTORY_USER"} : Passes(role, Tellers)
    /\ \A role \in {"OWNER", "ADMIN", "MEMBER", "SUPER_ADMIN"} : Passes(role, Staff)
    /\ \A role \in {"OWNER", "ADMIN", "SUPER_ADMIN"} :
           /\ Passes(role, Administrators) /\ Passes(role, {"ADMIN", "OWNER"})
           /\ Passes(role, {"ADMIN", "CASHIER"})
           /\ Passes(role, {"ADMIN", "CASHIER", "INVENTORY_USER"})
    /\ Passes("SUPER_ADMIN", System)
    /\ ~Passes("INVENTORY_USER", Administrators)
BY DEF AppRoles, Passes, InheritedRoles, Everybody, Tellers, Staff, Administrators, System

\* A query is a call.
LEMMA QueryAsked ==
    ASSUME NEW name, NEW at, NEW key, NEW shows, Query(name, at, key, shows) \in Hooks
    PROVE  Requested(name, at)
<1>1. /\ Query(name, at, key, shows).name = name
      /\ Query(name, at, key, shows).at = at
  BY DEF Query
<1> QED  BY <1>1 DEF Requested, AllCalls, Hooks

\* And so is each mutation of a list of them.
LEMMA MutationAsked ==
    ASSUME NEW name, NEW method, NEW path, NEW hooks, NEW writes, NEW invalidates,
           Mutations(hooks, writes, invalidates) \subseteq Hooks, <<name, method, path>> \in hooks
    PROVE  Requested(name, <<method, path>>)
<1> DEFINE m == Mutation(name, <<method, path>>, writes, invalidates)
           h == <<name, method, path>>
<1>1. h[1] = name /\ h[2] = method /\ h[3] = path  OBVIOUS
<1>2. Mutation(h[1], <<h[2], h[3]>>, writes, invalidates) = m  BY <1>1
<1>3. m \in Hooks  BY <1>2 DEF Mutations
<1>4. m.name = name /\ m.at = <<method, path>>  BY DEF Mutation
<1> QED  BY <1>3, <1>4 DEF Requested, AllCalls, Hooks

\* What the hooks and the controller of each kind of record say of one another: the calls that
\* pages make, and the @Roles of the routes they go to.
LEMMA ProductsAnswered ==
    /\ \A name \in {"useProducts"} :
           AnsweredTo(name, Everybody)
    /\ \A name \in {"useLowStockProducts", "useCreateProduct", "useUpdateProduct",
                    "useDeleteProduct", "useDeactivateProduct", "useReactivateProduct",
                    "useUploadProductImageById", "useUploadProductImage",
                    "useQuickSearchProduct"} :
           AnsweredTo(name, Staff)
<1>1. ProductQueries \subseteq Hooks  BY DEF Hooks, HookQueries
<1>2. /\ Requested("useProducts", <<"GET", "/products">>)
      /\ Requested("useLowStockProducts", <<"GET", "/products/low-stock">>)
  BY <1>1, QueryAsked DEF ProductQueries
<1>3. ProductMutations \subseteq Hooks  BY DEF Hooks, HookMutations
<1>4. \E writes, invalidates : Mutations(
        {<<"useCreateProduct", "POST", "/products">>,
         <<"useDeleteProduct", "DELETE", "/products/id">>},
        writes, invalidates) \subseteq Hooks
  BY <1>3 DEF ProductMutations
<1>5. \E writes, invalidates : Mutations(
        {<<"useUpdateProduct", "PUT", "/products/id">>},
        writes, invalidates) \subseteq Hooks
  BY <1>3 DEF ProductMutations
<1>6. \E writes, invalidates : Mutations(
        {<<"useDeactivateProduct", "PUT", "/products/id/deactivate">>,
         <<"useReactivateProduct", "PUT", "/products/id/reactivate">>},
        writes, invalidates) \subseteq Hooks
  BY <1>3 DEF ProductMutations
<1>7. \E writes, invalidates : Mutations(
        {<<"useUploadProductImageById", "POST", "/products/id/upload">>},
        writes, invalidates) \subseteq Hooks
  BY <1>3 DEF ProductMutations
<1>8. \E writes, invalidates : Mutations(
        {<<"useUploadProductImage", "POST", "/products/upload">>,
         <<"useQuickSearchProduct", "GET", "/products/quick-search">>},
        writes, invalidates) \subseteq Hooks
  BY <1>3 DEF ProductMutations
<1>9. /\ Requested("useCreateProduct", <<"POST", "/products">>)
      /\ Requested("useUpdateProduct", <<"PUT", "/products/id">>)
      /\ Requested("useDeleteProduct", <<"DELETE", "/products/id">>)
      /\ Requested("useDeactivateProduct", <<"PUT", "/products/id/deactivate">>)
      /\ Requested("useReactivateProduct", <<"PUT", "/products/id/reactivate">>)
      /\ Requested("useUploadProductImageById", <<"POST", "/products/id/upload">>)
      /\ Requested("useUploadProductImage", <<"POST", "/products/upload">>)
      /\ Requested("useQuickSearchProduct", <<"GET", "/products/quick-search">>)
  BY <1>4, <1>5, <1>6, <1>7, <1>8, MutationAsked
<1>10. \A at \in {<<"GET", "/products">>} :
          OpenTo(at, Everybody)
  BY DEF OpenTo, ProductsRoutes, Routes, ServedRoutes
<1>11. \A at \in {<<"GET", "/products/low-stock">>, <<"POST", "/products">>,
                 <<"PUT", "/products/id">>, <<"DELETE", "/products/id">>,
                 <<"PUT", "/products/id/deactivate">>, <<"PUT", "/products/id/reactivate">>,
                 <<"POST", "/products/id/upload">>, <<"POST", "/products/upload">>,
                 <<"GET", "/products/quick-search">>} :
          OpenTo(at, Staff)
  BY DEF OpenTo, ProductChangeRoutes, ProductsRoutes, Routes, ServedRoutes
<1> QED  BY <1>2, <1>9, <1>10, <1>11 DEF AnsweredTo

\* Sales.
LEMMA SalesAnswered ==
    /\ \A name \in {"useSales", "useSale", "useCreateSale", "printReceipt"} :
           AnsweredTo(name, Tellers)
<1>1. SaleQueries \subseteq Hooks  BY DEF Hooks, HookQueries
<1>2. /\ Requested("useSales", <<"GET", "/sales">>)
      /\ Requested("useSale", <<"GET", "/sales/id">>)
  BY <1>1, QueryAsked DEF SaleQueries
<1>3. SaleMutations \subseteq Hooks  BY DEF Hooks, HookMutations
<1>4. /\ Requested("useCreateSale", <<"POST", "/sales">>)
  BY <1>3, MutationAsked DEF SaleMutations
<1>5. ReceiptCalls \subseteq Hooks  BY DEF Hooks, HookMutations
<1>6. /\ Requested("printReceipt", <<"POST", "/sales/id/receipt">>)
  BY <1>5, MutationAsked DEF ReceiptCalls
<1>7. \A at \in {<<"GET", "/sales">>, <<"GET", "/sales/id">>, <<"POST", "/sales">>,
                 <<"POST", "/sales/id/receipt">>} :
          OpenTo(at, Tellers)
  BY DEF OpenTo, SalesRoutes, Routes, ServedRoutes
<1> QED  BY <1>2, <1>4, <1>6, <1>7 DEF AnsweredTo

\* Categories.
LEMMA CategoriesAnswered ==
    /\ \A name \in {"useCategories", "useCreateCategory", "useUpdateCategory",
                    "useDeleteCategory"} :
           AnsweredTo(name, Staff)
<1>1. CategoryQueries \subseteq Hooks  BY DEF Hooks, HookQueries
<1>2. /\ Requested("useCategories", <<"GET", "/categories">>)
  BY <1>1, QueryAsked DEF CategoryQueries
<1>3. CategoryMutations \subseteq Hooks  BY DEF Hooks, HookMutations
<1>4. /\ Requested("useCreateCategory", <<"POST", "/categories">>)
      /\ Requested("useUpdateCategory", <<"PUT", "/categories/id">>)
      /\ Requested("useDeleteCategory", <<"DELETE", "/categories/id">>)
  BY <1>3, MutationAsked DEF CategoryMutations
<1>5. \A at \in {<<"GET", "/categories">>, <<"POST", "/categories">>,
                 <<"PUT", "/categories/id">>, <<"DELETE", "/categories/id">>} :
          OpenTo(at, Staff)
  BY DEF OpenTo, CategoriesRoutes, Routes, ServedRoutes
<1> QED  BY <1>2, <1>4, <1>5 DEF AnsweredTo

\* Customers.
LEMMA CustomersAnswered ==
    /\ \A name \in {"useCustomers", "useCreateCustomer"} :
           AnsweredTo(name, Tellers)
    /\ \A name \in {"useUpdateCustomer", "useDeleteCustomer"} :
           AnsweredTo(name, Administrators)
<1>1. CustomerQueries \subseteq Hooks  BY DEF Hooks, HookQueries
<1>2. /\ Requested("useCustomers", <<"GET", "/customers">>)
  BY <1>1, QueryAsked DEF CustomerQueries
<1>3. CustomerMutations \subseteq Hooks  BY DEF Hooks, HookMutations
<1>4. /\ Requested("useCreateCustomer", <<"POST", "/customers">>)
      /\ Requested("useUpdateCustomer", <<"PUT", "/customers/id">>)
      /\ Requested("useDeleteCustomer", <<"DELETE", "/customers/id">>)
  BY <1>3, MutationAsked DEF CustomerMutations
<1>5. \A at \in {<<"GET", "/customers">>, <<"POST", "/customers">>} :
          OpenTo(at, Tellers)
  BY DEF OpenTo, CustomersRoutes, Routes, ServedRoutes
<1>6. \A at \in {<<"PUT", "/customers/id">>, <<"DELETE", "/customers/id">>} :
          OpenTo(at, Administrators)
  BY DEF OpenTo, CustomersRoutes, Routes, ServedRoutes
<1> QED  BY <1>2, <1>4, <1>5, <1>6 DEF AnsweredTo

\* Suppliers.
LEMMA SuppliersAnswered ==
    /\ \A name \in {"useSuppliers", "useCreateSupplier", "useUpdateSupplier",
                    "useDeactivateSupplier", "useReactivateSupplier"} :
           AnsweredTo(name, Staff)
<1>1. SupplierQueries \subseteq Hooks  BY DEF Hooks, HookQueries
<1>2. /\ Requested("useSuppliers", <<"GET", "/suppliers">>)
  BY <1>1, QueryAsked DEF SupplierQueries
<1>3. SupplierMutations \subseteq Hooks  BY DEF Hooks, HookMutations
<1>4. /\ Requested("useCreateSupplier", <<"POST", "/suppliers">>)
      /\ Requested("useUpdateSupplier", <<"PATCH", "/suppliers/id">>)
      /\ Requested("useDeactivateSupplier", <<"DELETE", "/suppliers/id">>)
      /\ Requested("useReactivateSupplier", <<"POST", "/suppliers/id/reactivate">>)
  BY <1>3, MutationAsked DEF SupplierMutations
<1>5. \A at \in {<<"GET", "/suppliers">>, <<"POST", "/suppliers">>,
                 <<"PATCH", "/suppliers/id">>, <<"DELETE", "/suppliers/id">>,
                 <<"POST", "/suppliers/id/reactivate">>} :
          OpenTo(at, Staff)
  BY DEF OpenTo, SuppliersRoutes, Routes, ServedRoutes
<1> QED  BY <1>2, <1>4, <1>5 DEF AnsweredTo

\* Purchase orders.
LEMMA OrdersAnswered ==
    /\ \A name \in {"usePurchaseOrders", "usePurchaseOrder", "useCreatePurchaseOrder",
                    "useReceivePurchaseOrder", "useUpdatePurchaseOrder",
                    "useConfirmPurchaseOrder", "useCancelPurchaseOrder"} :
           AnsweredTo(name, Staff)
<1>1. OrderQueries \subseteq Hooks  BY DEF Hooks, HookQueries
<1>2. /\ Requested("usePurchaseOrders", <<"GET", "/purchase-orders">>)
      /\ Requested("usePurchaseOrder", <<"GET", "/purchase-orders/id">>)
  BY <1>1, QueryAsked DEF OrderQueries
<1>3. OrderMutations \subseteq Hooks  BY DEF Hooks, HookMutations
<1>4. /\ Requested("useCreatePurchaseOrder", <<"POST", "/purchase-orders">>)
      /\ Requested("useReceivePurchaseOrder", <<"POST", "/purchase-orders/id/receive">>)
      /\ Requested("useUpdatePurchaseOrder", <<"PATCH", "/purchase-orders/id">>)
      /\ Requested("useConfirmPurchaseOrder", <<"POST", "/purchase-orders/id/confirm">>)
      /\ Requested("useCancelPurchaseOrder", <<"POST", "/purchase-orders/id/cancel">>)
  BY <1>3, MutationAsked DEF OrderMutations
<1>5. \A at \in {<<"GET", "/purchase-orders">>, <<"GET", "/purchase-orders/id">>,
                 <<"POST", "/purchase-orders">>, <<"POST", "/purchase-orders/id/receive">>,
                 <<"PATCH", "/purchase-orders/id">>,
                 <<"POST", "/purchase-orders/id/confirm">>,
                 <<"POST", "/purchase-orders/id/cancel">>} :
          OpenTo(at, Staff)
  BY DEF OpenTo, PurchaseOrdersRoutes, Routes, ServedRoutes
<1> QED  BY <1>2, <1>4, <1>5 DEF AnsweredTo

\* Expenses.
LEMMA ExpensesAnswered ==
    /\ \A name \in {"useExpenses", "useExpenseSummary", "useExpenseHistory",
                    "useExpenseCategories", "useCreateExpense", "useUpdateExpense",
                    "useDeleteExpense", "useAddExpensePayment", "useDuplicateExpense",
                    "useUploadExpenseReceipt"} :
           AnsweredTo(name, Administrators)
<1>1. ExpenseQueries \subseteq Hooks  BY DEF Hooks, HookQueries
<1>2. /\ Requested("useExpenses", <<"GET", "/expenses">>)
      /\ Requested("useExpenseSummary", <<"GET", "/expenses/summary/monthly">>)
      /\ Requested("useExpenseHistory", <<"GET", "/expenses/id/history">>)
      /\ Requested("useExpenseCategories", <<"GET", "/expense-categories">>)
  BY <1>1, QueryAsked DEF ExpenseQueries
<1>3. ExpenseMutations \subseteq Hooks  BY DEF Hooks, HookMutations
<1>4. \E writes, invalidates : Mutations(
        {<<"useCreateExpense", "POST", "/expenses">>,
         <<"useUpdateExpense", "PATCH", "/expenses/id">>,
         <<"useDeleteExpense", "DELETE", "/expenses/id">>,
         <<"useAddExpensePayment", "POST", "/expenses/id/payments">>,
         <<"useDuplicateExpense", "POST", "/expenses/id/duplicate">>,
         <<"useUploadExpenseReceipt", "POST", "/expenses/id/upload">>},
        writes, invalidates) \subseteq Hooks
  BY <1>3 DEF ExpenseMutations
<1>5. /\ Requested("useCreateExpense", <<"POST", "/expenses">>)
      /\ Requested("useUpdateExpense", <<"PATCH", "/expenses/id">>)
      /\ Requested("useDeleteExpense", <<"DELETE", "/expenses/id">>)
      /\ Requested("useAddExpensePayment", <<"POST", "/expenses/id/payments">>)
      /\ Requested("useDuplicateExpense", <<"POST", "/expenses/id/duplicate">>)
      /\ Requested("useUploadExpenseReceipt", <<"POST", "/expenses/id/upload">>)
  BY <1>4, MutationAsked
<1>6. \A at \in {<<"GET", "/expenses">>, <<"GET", "/expenses/summary/monthly">>,
                 <<"GET", "/expenses/id/history">>, <<"GET", "/expense-categories">>,
                 <<"POST", "/expenses">>, <<"PATCH", "/expenses/id">>,
                 <<"DELETE", "/expenses/id">>, <<"POST", "/expenses/id/payments">>,
                 <<"POST", "/expenses/id/duplicate">>, <<"POST", "/expenses/id/upload">>} :
          OpenTo(at, Administrators)
  BY DEF OpenTo, ExpenseCategoriesRoutes, ExpensesRoutes, Routes, ServedRoutes
<1> QED  BY <1>2, <1>5, <1>6 DEF AnsweredTo

\* Tasks.
LEMMA TasksAnswered ==
    /\ \A name \in {"useTasks", "useTaskTimeline", "useCreateTask", "useUpdateTask",
                    "useUpdateTaskStatus", "useDeleteTask"} :
           AnsweredTo(name, Staff)
<1>1. TaskQueries \subseteq Hooks  BY DEF Hooks, HookQueries
<1>2. /\ Requested("useTasks", <<"GET", "/tasks">>)
      /\ Requested("useTaskTimeline", <<"GET", "/tasks/id/timeline">>)
  BY <1>1, QueryAsked DEF TaskQueries
<1>3. TaskMutations \subseteq Hooks  BY DEF Hooks, HookMutations
<1>4. \E writes, invalidates : Mutations(
        {<<"useCreateTask", "POST", "/tasks">>},
        writes, invalidates) \subseteq Hooks
  BY <1>3 DEF TaskMutations
<1>5. \E writes, invalidates : Mutations(
        {<<"useUpdateTask", "PUT", "/tasks/id">>,
         <<"useUpdateTaskStatus", "PUT", "/tasks/id/status">>,
         <<"useDeleteTask", "DELETE", "/tasks/id">>},
        writes, invalidates) \subseteq Hooks
  BY <1>3 DEF TaskMutations
<1>6. /\ Requested("useCreateTask", <<"POST", "/tasks">>)
      /\ Requested("useUpdateTask", <<"PUT", "/tasks/id">>)
      /\ Requested("useUpdateTaskStatus", <<"PUT", "/tasks/id/status">>)
      /\ Requested("useDeleteTask", <<"DELETE", "/tasks/id">>)
  BY <1>4, <1>5, MutationAsked
<1>7. \A at \in {<<"GET", "/tasks">>, <<"GET", "/tasks/id/timeline">>, <<"POST", "/tasks">>,
                 <<"PUT", "/tasks/id">>, <<"PUT", "/tasks/id/status">>,
                 <<"DELETE", "/tasks/id">>} :
          OpenTo(at, Staff)
  BY DEF OpenTo, TasksRoutes, Routes, ServedRoutes
<1> QED  BY <1>2, <1>6, <1>7 DEF AnsweredTo

\* The staff.
LEMMA UsersAnswered ==
    /\ \A name \in {"useUsers", "useCreateUser", "useUpdateUser", "useToggleUserActive",
                    "useDeleteUser", "useResetUserPassword"} :
           AnsweredTo(name, Administrators)
<1>1. UserQueries \subseteq Hooks  BY DEF Hooks, HookQueries
<1>2. /\ Requested("useUsers", <<"GET", "/users">>)
  BY <1>1, QueryAsked DEF UserQueries
<1>3. UserMutations \subseteq Hooks  BY DEF Hooks, HookMutations
<1>4. /\ Requested("useCreateUser", <<"POST", "/users">>)
      /\ Requested("useUpdateUser", <<"PUT", "/users/id">>)
      /\ Requested("useToggleUserActive", <<"PUT", "/users/id/toggle-active">>)
      /\ Requested("useDeleteUser", <<"DELETE", "/users/id">>)
      /\ Requested("useResetUserPassword", <<"POST", "/users/id/reset-password">>)
  BY <1>3, MutationAsked DEF UserMutations
<1>5. \A at \in {<<"GET", "/users">>, <<"POST", "/users">>, <<"PUT", "/users/id">>,
                 <<"PUT", "/users/id/toggle-active">>, <<"DELETE", "/users/id">>,
                 <<"POST", "/users/id/reset-password">>} :
          OpenTo(at, Administrators)
  BY DEF OpenTo, UsersRoutes, Routes, ServedRoutes
<1> QED  BY <1>2, <1>4, <1>5 DEF AnsweredTo

\* Settings.
LEMMA SettingsAnswered ==
    /\ \A name \in {"useSettings", "useUpdateSettings", "useUploadLogo",
                    "useUpdateOrganizationName", "useUpdateReceiptPrefix"} :
           AnsweredTo(name, Administrators)
<1>1. SettingsQueries \subseteq Hooks  BY DEF Hooks, HookQueries
<1>2. /\ Requested("useSettings", <<"GET", "/settings">>)
  BY <1>1, QueryAsked DEF SettingsQueries
<1>3. SettingsMutations \subseteq Hooks  BY DEF Hooks, HookMutations
<1>4. /\ Requested("useUpdateSettings", <<"PUT", "/settings">>)
      /\ Requested("useUploadLogo", <<"POST", "/settings/logo">>)
      /\ Requested("useUpdateOrganizationName", <<"PATCH", "/settings/organization">>)
      /\ Requested("useUpdateReceiptPrefix", <<"PATCH", "/settings/receipt-prefix">>)
  BY <1>3, MutationAsked DEF SettingsMutations
<1>5. \A at \in {<<"GET", "/settings">>, <<"PUT", "/settings">>,
                 <<"POST", "/settings/logo">>, <<"PATCH", "/settings/organization">>,
                 <<"PATCH", "/settings/receipt-prefix">>} :
          OpenTo(at, Administrators)
  BY DEF OpenTo, SettingsRoutes, Routes, ServedRoutes
<1> QED  BY <1>2, <1>4, <1>5 DEF AnsweredTo

\* Organizations, for who runs the system.
LEMMA AdminAnswered ==
    /\ \A name \in {"useOrganizations", "useOrganization", "useAdminMetrics",
                    "useCreateOrganization", "useDeleteOrganization",
                    "useUpdateOrganizationStatus", "useUpdateOrganizationPlan",
                    "useUpdateOrganization", "useAddOrganizationMember",
                    "useUpdateMemberRole", "useRemoveOrganizationMember"} :
           AnsweredTo(name, System)
<1>1. AdminQueries \subseteq Hooks  BY DEF Hooks, HookQueries
<1>2. /\ Requested("useOrganizations", <<"GET", "/admin/organizations">>)
      /\ Requested("useOrganization", <<"GET", "/admin/organizations/id">>)
      /\ Requested("useAdminMetrics", <<"GET", "/admin/metrics">>)
  BY <1>1, QueryAsked DEF AdminQueries
<1>3. AdminMutations \subseteq Hooks  BY DEF Hooks, HookMutations
<1>4. /\ \E writes, invalidates : Mutations(
            {<<"useCreateOrganization", "POST", "/admin/organizations">>},
            writes, invalidates) \subseteq Hooks
      /\ \E writes, invalidates : Mutations(
            {<<"useDeleteOrganization", "DELETE", "/admin/organizations/id">>},
            writes, invalidates) \subseteq Hooks
      /\ \E writes, invalidates : Mutations(
            {<<"useUpdateOrganizationStatus", "PATCH", "/admin/organizations/id/status">>},
            writes, invalidates) \subseteq Hooks
      /\ \E writes, invalidates : Mutations(
            {<<"useUpdateOrganizationPlan", "PATCH", "/admin/organizations/id/plan">>},
            writes, invalidates) \subseteq Hooks
      /\ \E writes, invalidates : Mutations(
            {<<"useUpdateOrganization", "PATCH", "/admin/organizations/id">>},
            writes, invalidates) \subseteq Hooks
      /\ \E writes, invalidates : Mutations(
            {<<"useAddOrganizationMember", "POST", "/admin/organizations/id/members">>},
            writes, invalidates) \subseteq Hooks
      /\ \E writes, invalidates : Mutations(
            {<<"useUpdateMemberRole", "PATCH", "/admin/organizations/id/members/id/role">>},
            writes, invalidates) \subseteq Hooks
      /\ \E writes, invalidates : Mutations(
            {<<"useRemoveOrganizationMember", "DELETE", "/admin/organizations/id/members/id">>},
            writes, invalidates) \subseteq Hooks
  BY <1>3 DEF AdminMutations
<1>5. /\ Requested("useCreateOrganization", <<"POST", "/admin/organizations">>)
      /\ Requested("useDeleteOrganization", <<"DELETE", "/admin/organizations/id">>)
      /\ Requested("useUpdateOrganizationStatus", <<"PATCH", "/admin/organizations/id/status">>)
      /\ Requested("useUpdateOrganizationPlan", <<"PATCH", "/admin/organizations/id/plan">>)
      /\ Requested("useUpdateOrganization", <<"PATCH", "/admin/organizations/id">>)
      /\ Requested("useAddOrganizationMember", <<"POST", "/admin/organizations/id/members">>)
      /\ Requested("useUpdateMemberRole", <<"PATCH", "/admin/organizations/id/members/id/role">>)
      /\ Requested("useRemoveOrganizationMember", <<"DELETE", "/admin/organizations/id/members/id">>)
  BY <1>4, MutationAsked
<1>6. \A at \in {<<"GET", "/admin/organizations">>, <<"GET", "/admin/organizations/id">>,
                 <<"GET", "/admin/metrics">>, <<"POST", "/admin/organizations">>,
                 <<"DELETE", "/admin/organizations/id">>,
                 <<"PATCH", "/admin/organizations/id/status">>,
                 <<"PATCH", "/admin/organizations/id/plan">>,
                 <<"PATCH", "/admin/organizations/id">>,
                 <<"POST", "/admin/organizations/id/members">>,
                 <<"PATCH", "/admin/organizations/id/members/id/role">>,
                 <<"DELETE", "/admin/organizations/id/members/id">>} :
          OpenTo(at, System)
  BY DEF OpenTo, AdminRoutes, Routes, ServedRoutes
<1> QED  BY <1>2, <1>5, <1>6 DEF AnsweredTo

\* The user's own memberships.
LEMMA SwitcherAnswered ==
    /\ \A name \in {"userQuery"} :
           AnsweredTo(name, Everybody)
<1>1. SwitcherQueries \subseteq Hooks  BY DEF Hooks, HookQueries
<1>2. /\ Requested("userQuery", <<"GET", "/auth/organizations">>)
  BY <1>1, QueryAsked DEF SwitcherQueries
<1>3. \A at \in {<<"GET", "/auth/organizations">>} :
          OpenTo(at, Everybody)
  BY DEF OpenTo, AuthRoutes, Routes, ServedRoutes
<1> QED  BY <1>2, <1>3 DEF AnsweredTo

\* Billing.
LEMMA BillingAnswered ==
    /\ \A name \in {"useBillingStatus"} :
           AnsweredTo(name, {"ADMIN", "CASHIER", "INVENTORY_USER"})
    /\ \A name \in {"useBillingPayments"} :
           AnsweredTo(name, {"ADMIN", "OWNER"})
    /\ \A name \in {"useRegisterPayment"} :
           AnsweredTo(name, System)
<1>1. BillingQueries \subseteq Hooks  BY DEF Hooks, HookQueries
<1>2. /\ Requested("useBillingStatus", <<"GET", "/billing/status">>)
      /\ Requested("useBillingPayments", <<"GET", "/billing/payments">>)
  BY <1>1, QueryAsked DEF BillingQueries
<1>3. BillingMutations \subseteq Hooks  BY DEF Hooks, HookMutations
<1>4. /\ Requested("useRegisterPayment", <<"POST", "/billing/payments">>)
  BY <1>3, MutationAsked DEF BillingMutations
<1>5. \A at \in {<<"GET", "/billing/status">>} :
          OpenTo(at, {"ADMIN", "CASHIER", "INVENTORY_USER"})
  BY DEF OpenTo, BillingRoutes, Routes, ServedRoutes
<1>6. \A at \in {<<"GET", "/billing/payments">>} :
          OpenTo(at, {"ADMIN", "OWNER"})
  BY DEF OpenTo, BillingRoutes, Routes, ServedRoutes
<1>7. \A at \in {<<"POST", "/billing/payments">>} :
          OpenTo(at, System)
  BY DEF OpenTo, BillingRoutes, Routes, ServedRoutes
<1> QED  BY <1>2, <1>4, <1>5, <1>6, <1>7 DEF AnsweredTo

\* Plan limits.
LEMMA PlanLimitsAnswered ==
    /\ \A name \in {"usePlanLimits"} :
           AnsweredTo(name, Everybody)
<1>1. PlanLimitQueries \subseteq Hooks  BY DEF Hooks, HookQueries
<1>2. /\ Requested("usePlanLimits", <<"GET", "/plan-limits/status">>)
  BY <1>1, QueryAsked DEF PlanLimitQueries
<1>3. \A at \in {<<"GET", "/plan-limits/status">>} :
          OpenTo(at, Everybody)
  BY DEF OpenTo, PlanLimitsRoutes, Routes, ServedRoutes
<1> QED  BY <1>2, <1>3 DEF AnsweredTo

\* The profile.
LEMMA ProfileAnswered ==
    /\ \A name \in {"useProfile", "useUpdateProfile", "useChangePassword"} :
           AnsweredTo(name, Everybody)
<1>1. ProfileQueries \subseteq Hooks  BY DEF Hooks, HookQueries
<1>2. /\ Requested("useProfile", <<"GET", "/auth/profile">>)
  BY <1>1, QueryAsked DEF ProfileQueries
<1>3. ProfileMutations \subseteq Hooks  BY DEF Hooks, HookMutations
<1>4. /\ Requested("useUpdateProfile", <<"PUT", "/auth/profile">>)
      /\ Requested("useChangePassword", <<"POST", "/auth/change-password">>)
  BY <1>3, MutationAsked DEF ProfileMutations
<1>5. \A at \in {<<"GET", "/auth/profile">>, <<"PUT", "/auth/profile">>,
                 <<"POST", "/auth/change-password">>} :
          OpenTo(at, Everybody)
  BY DEF OpenTo, AuthRoutes, Routes, ServedRoutes
<1> QED  BY <1>2, <1>4, <1>5 DEF AnsweredTo

\* Imports.
LEMMA ImportsAnswered ==
    /\ \A name \in {"statusQuery", "startImport", "retryRow", "downloadTemplate"} :
           AnsweredTo(name, {"ADMIN", "CASHIER"})
<1>1. ImportQueries \subseteq Hooks  BY DEF Hooks, HookQueries
<1>2. /\ Requested("statusQuery", <<"GET", "/imports/id/status">>)
  BY <1>1, QueryAsked DEF ImportQueries
<1>3. ImportMutations \subseteq Hooks  BY DEF Hooks, HookMutations
<1>4. /\ Requested("startImport", <<"POST", "/imports/products">>)
      /\ Requested("retryRow", <<"POST", "/imports/id/retry-row">>)
      /\ Requested("downloadTemplate", <<"GET", "/imports/products/template">>)
  BY <1>3, MutationAsked DEF ImportMutations
<1>5. \A at \in {<<"GET", "/imports/id/status">>, <<"POST", "/imports/products">>,
                 <<"POST", "/imports/id/retry-row">>,
                 <<"GET", "/imports/products/template">>} :
          OpenTo(at, {"ADMIN", "CASHIER"})
  BY DEF OpenTo, ImportsRoutes, Routes, ServedRoutes
<1> QED  BY <1>2, <1>4, <1>5 DEF AnsweredTo

\* Reports.
LEMMA ReportsAnswered ==
    /\ \A name \in {"useDashboard", "useInventorySnapshot", "useEconomicOverview",
                    "useCashFlow", "useSalesByPaymentMethod", "useSalesByCategory",
                    "useSalesByCategoryDaily", "useTopSellingProducts",
                    "useCustomerStatistics", "useDailySales"} :
           AnsweredTo(name, Administrators)
<1>1. ReportQueries \subseteq Hooks  BY DEF Hooks, HookQueries
<1>2. /\ Requested("useDashboard", <<"GET", "/reports/dashboard">>)
      /\ Requested("useInventorySnapshot", <<"GET", "/reports/economic/inventory">>)
      /\ Requested("useEconomicOverview", <<"GET", "/reports/economic">>)
      /\ Requested("useCashFlow", <<"GET", "/reports/economic/cash">>)
      /\ Requested("useSalesByPaymentMethod", <<"GET", "/reports/sales/payment-method">>)
      /\ Requested("useSalesByCategory", <<"GET", "/reports/sales/category">>)
      /\ Requested("useSalesByCategoryDaily", <<"GET", "/reports/sales/category-daily">>)
      /\ Requested("useTopSellingProducts", <<"GET", "/reports/products/top-selling">>)
      /\ Requested("useCustomerStatistics", <<"GET", "/reports/customers/statistics">>)
      /\ Requested("useDailySales", <<"GET", "/reports/sales/daily">>)
  BY <1>1, QueryAsked DEF ReportQueries, Report
<1>3. \A at \in {<<"GET", "/reports/dashboard">>, <<"GET", "/reports/economic/inventory">>,
                 <<"GET", "/reports/economic">>, <<"GET", "/reports/economic/cash">>,
                 <<"GET", "/reports/sales/payment-method">>,
                 <<"GET", "/reports/sales/category">>,
                 <<"GET", "/reports/sales/category-daily">>,
                 <<"GET", "/reports/products/top-selling">>,
                 <<"GET", "/reports/customers/statistics">>,
                 <<"GET", "/reports/sales/daily">>} :
          OpenTo(at, Administrators)
  BY DEF OpenTo, EconomicRoutes, ReportsRoutes, Routes, ServedRoutes
<1> QED  BY <1>2, <1>3 DEF AnsweredTo

\* Exports.
LEMMA ExportsAnswered ==
    /\ \A name \in {"exportExpenses", "exportEconomic"} :
           AnsweredTo(name, Administrators)
<1>1. ExportCalls \subseteq Hooks  BY DEF Hooks
<1>2. /\ Requested("exportExpenses", <<"POST", "/exports/expenses">>)
      /\ Requested("exportEconomic", <<"POST", "/exports/economic">>)
  BY <1>1, MutationAsked DEF ExportCalls
<1>3. \A at \in {<<"POST", "/exports/expenses">>, <<"POST", "/exports/economic">>} :
          OpenTo(at, Administrators)
  BY DEF OpenTo, ExportsRoutes, Routes, ServedRoutes
<1> QED  BY <1>2, <1>3 DEF AnsweredTo

\* The session.
LEMMA SessionAnswered ==
    /\ \A name \in {"switchOrganization", "logout"} :
           AnsweredTo(name, Everybody)
<1>1. SessionCalls \subseteq Hooks  BY DEF Hooks
<1>2. /\ Requested("switchOrganization", <<"POST", "/auth/select-org">>)
      /\ Requested("logout", <<"POST", "/auth/logout">>)
  BY <1>1, MutationAsked DEF SessionCalls
<1>3. \A at \in {<<"POST", "/auth/select-org">>, <<"POST", "/auth/logout">>} :
          OpenTo(at, Everybody)
  BY DEF OpenTo, AuthRoutes, Routes, ServedRoutes
<1> QED  BY <1>2, <1>3 DEF AnsweredTo

\* Only the query of expenses goes by that name, and its route is one of administrators.
LEMMA ExpensesRefused == "useExpenses" \notin ServedCalls["INVENTORY_USER"]
<1> DEFINE Other(calls) == \A c \in calls : c.name # "useExpenses"
<1>1. \A hook \in HookQueries : hook.name = "useExpenses" => hook.at = <<"GET", "/expenses">>
  <2>1. \A name, at, key, shows : /\ Query(name, at, key, shows).name = name
                                  /\ Query(name, at, key, shows).at = at
    BY DEF Query
  <2>2. Other(ProductQueries)  BY <2>1 DEF ProductQueries
  <2>3. Other(SaleQueries)  BY <2>1 DEF SaleQueries
  <2>4. Other(CategoryQueries)  BY <2>1 DEF CategoryQueries
  <2>5. Other(CustomerQueries)  BY <2>1 DEF CustomerQueries
  <2>6. Other(SupplierQueries)  BY <2>1 DEF SupplierQueries
  <2>7. Other(OrderQueries)  BY <2>1 DEF OrderQueries
  <2>8. Other(TaskQueries)  BY <2>1 DEF TaskQueries
  <2>9. Other(UserQueries)  BY <2>1 DEF UserQueries
  <2>10. Other(SettingsQueries)  BY <2>1 DEF SettingsQueries
  <2>11. Other(AdminQueries)  BY <2>1 DEF AdminQueries
  <2>12. Other(SwitcherQueries)  BY <2>1 DEF SwitcherQueries
  <2>13. Other(BillingQueries)  BY <2>1 DEF BillingQueries
  <2>14. Other(PlanLimitQueries)  BY <2>1 DEF PlanLimitQueries
  <2>15. Other(ProfileQueries)  BY <2>1 DEF ProfileQueries
  <2>16. Other(ImportQueries)  BY <2>1 DEF ImportQueries
  <2>17. Other(ReportQueries)  BY <2>1 DEF ReportQueries, Report
  <2>18. \A hook \in ExpenseQueries : hook.name = "useExpenses" => hook.at = <<"GET", "/expenses">>
    BY <2>1 DEF ExpenseQueries
  <2> QED
    BY <2>2, <2>3, <2>4, <2>5, <2>6, <2>7, <2>8, <2>9, <2>10, <2>11, <2>12, <2>13, <2>14,
       <2>15, <2>16, <2>17, <2>18
    DEF HookQueries
<1>2. Other(HookMutations \cup ExportCalls \cup SessionCalls)
  <2>1. \A name, at, writes, invalidates : Mutation(name, at, writes, invalidates).name = name
    BY DEF Mutation
  <2>2. Other(ProductMutations)  BY <2>1 DEF ProductMutations, Mutations
  <2>3. Other(SaleMutations)  BY <2>1 DEF SaleMutations, Mutations
  <2>4. Other(ReceiptCalls)  BY <2>1 DEF ReceiptCalls, Mutations
  <2>5. Other(CategoryMutations)  BY <2>1 DEF CategoryMutations, Mutations
  <2>6. Other(CustomerMutations)  BY <2>1 DEF CustomerMutations, Mutations
  <2>7. Other(SupplierMutations)  BY <2>1 DEF SupplierMutations, Mutations
  <2>8. Other(OrderMutations)  BY <2>1 DEF OrderMutations, Mutations
  <2>9. Other(ExpenseMutations)  BY <2>1 DEF ExpenseMutations, Mutations
  <2>10. Other(TaskMutations)  BY <2>1 DEF TaskMutations, Mutations
  <2>11. Other(UserMutations)  BY <2>1 DEF UserMutations, Mutations
  <2>12. Other(SettingsMutations)  BY <2>1 DEF SettingsMutations, Mutations
  <2>13. Other(AdminMutations)  BY <2>1 DEF AdminMutations, Mutations
  <2>14. Other(BillingMutations)  BY <2>1 DEF BillingMutations, Mutations
  <2>15. Other(ProfileMutations)  BY <2>1 DEF ProfileMutations, Mutations
  <2>16. Other(ImportMutations)  BY <2>1 DEF ImportMutations, Mutations
  <2>17. Other(ExportCalls)  BY <2>1 DEF ExportCalls, Mutations
  <2>18. Other(SessionCalls)  BY <2>1 DEF SessionCalls, Mutations
  <2> QED
    BY <2>2, <2>3, <2>4, <2>5, <2>6, <2>7, <2>8, <2>9, <2>10, <2>11, <2>12, <2>13, <2>14,
       <2>15, <2>16, <2>17, <2>18
    DEF HookMutations
<1>3. \A route \in ServedRoutes : route.at = <<"GET", "/expenses">> => route.roles = Administrators
  <2>1. \A route \in UNION {ProductsRoutes, ProductChangeRoutes, SalesRoutes, CustomersRoutes,
            CategoriesRoutes, SuppliersRoutes, PurchaseOrdersRoutes, ExpenseCategoriesRoutes,
            TasksRoutes, UsersRoutes} : route.at # <<"GET", "/expenses">>
    BY DEF ProductsRoutes, ProductChangeRoutes, SalesRoutes, CustomersRoutes, CategoriesRoutes,
           SuppliersRoutes, PurchaseOrdersRoutes, ExpenseCategoriesRoutes, TasksRoutes,
           UsersRoutes, Routes
  <2>2. \A route \in UNION {SettingsRoutes, CashRegistersRoutes, EconomicRoutes, ReportsRoutes,
            ExportsRoutes, ImportsRoutes, PlanLimitsRoutes, BillingRoutes, AdminRoutes,
            AuthRoutes} : route.at # <<"GET", "/expenses">>
    BY DEF SettingsRoutes, CashRegistersRoutes, EconomicRoutes, ReportsRoutes, ExportsRoutes,
           ImportsRoutes, PlanLimitsRoutes, BillingRoutes, AdminRoutes, AuthRoutes, Routes
  <2>3. \A route \in ExpensesRoutes : route.roles = Administrators
    BY DEF ExpensesRoutes, Routes
  <2> QED  BY <2>1, <2>2, <2>3 DEF ServedRoutes
<1>4. \A c \in AllCalls : c.name = "useExpenses" => c.at = <<"GET", "/expenses">>
  BY <1>1, <1>2 DEF AllCalls
<1>5. "INVENTORY_USER" \in AppRoles  BY DEF AppRoles
<1> SUFFICES ASSUME "useExpenses" \in ServedCalls["INVENTORY_USER"]
             PROVE  FALSE
  OBVIOUS
<1>6. PICK c \in AllCalls : /\ c.name = "useExpenses"
                            /\ \E route \in ServedRoutes :
                                  route.at = c.at /\ Passes("INVENTORY_USER", route.roles)
  BY <1>5 DEF ServedCalls
<1> QED  BY <1>3, <1>4, <1>6, Passing

---------------------------------------------------------------------------
(* Access: pages and who is in place on them *)

SystemPages == {AdminPage, OrganizationsPage, OrganizationPage}
TenantPages ==
    {DashboardPage, PosPage, SalesPage, SalePage, CustomersPage, InventoryPage, CategoriesPage,
     SuppliersPage, OrdersPage, NewOrderPage, OrderPage, ExpensesPage, ReportsPage, TasksPage,
     ProfilePage, GeneralPage, InvoicingPage, AdvancedPage, LocalePage, BillingPage, TeamPage}

\* The page at an address is one of them.
LEMMA PageThere ==
    \A a \in DOMAIN PageAt : PageAt[a] \in TenantPages \cup SystemPages /\ PageAt[a].at = a
BY DEF PageAt, AllPages, TenantPages, SystemPages

TellerPages ==
    {PosPage, SalesPage, SalePage, CustomersPage, InventoryPage, TasksPage, ProfilePage}
StockPages ==
    {DashboardPage, InventoryPage, CategoriesPage, SuppliersPage, OrdersPage, NewOrderPage,
     OrderPage, TasksPage, ProfilePage}

\* The section of a page, the first part of its address, is what the layouts look at.
LEMMA PageHeads ==
    /\ \A p \in SystemPages : Head(p.at) = "admin"
    /\ \A p \in TenantPages : Head(p.at) \in DOMAIN RouteRoles
    /\ \A p \in TenantPages :
          /\ Head(p.at) \in {"pos", "sales", "customers", "inventory", "tasks", "profile"}
             => p \in TellerPages
          /\ Head(p.at) \in {"inventory", "tasks", "profile", "dashboard", "suppliers",
                             "purchase-orders", "categories"}
             => p \in StockPages
<1>1. \A at, loads, offers, links : Page(at, loads, offers, links).at = at  BY DEF Page
<1>2. \A p \in SystemPages : Head(p.at) = "admin"
  BY <1>1 DEF SystemPages, AdminPage, OrganizationsPage, OrganizationPage
<1>3. \A p \in TenantPages \ (TellerPages \cup StockPages) :
         Head(p.at) \in {"expenses", "reports", "settings"}
  BY <1>1 DEF TenantPages, TellerPages, StockPages, ExpensesPage, ReportsPage, GeneralPage,
     InvoicingPage, AdvancedPage, LocalePage, BillingPage, TeamPage
<1>4. \A p \in TellerPages \ StockPages : Head(p.at) \in {"pos", "sales", "customers"}
  BY <1>1 DEF TellerPages, StockPages, PosPage, SalesPage, SalePage, CustomersPage
<1>5. \A p \in StockPages \ TellerPages :
         Head(p.at) \in {"dashboard", "suppliers", "purchase-orders", "categories"}
  BY <1>1 DEF TellerPages, StockPages, DashboardPage, CategoriesPage, SuppliersPage, OrdersPage,
     NewOrderPage, OrderPage
<1>6. \A p \in TellerPages \cap StockPages : Head(p.at) \in {"inventory", "tasks", "profile"}
  BY <1>1 DEF TellerPages, StockPages, InventoryPage, TasksPage, ProfilePage, PosPage,
     SalesPage,
     SalePage, CustomersPage
<1>7. DOMAIN RouteRoles = {"pos", "sales", "customers", "inventory", "tasks", "profile", "expenses",
          "reports", "users", "settings", "dashboard", "suppliers", "purchase-orders", "categories"}
  BY DEF RouteRoles
<1> QED  BY <1>2, <1>3, <1>4, <1>5, <1>6, <1>7

\* Who may see the pages of a section.
LEMMA Seers ==
    /\ \A section \in DOMAIN RouteRoles :
          {"OWNER", "ADMIN", "SUPER_ADMIN"} \subseteq Having(RouteRoles[section])
    /\ \A section \in {"pos", "sales", "customers"} :
          Having(RouteRoles[section]) = AppRoles \ {"INVENTORY_USER"}
    /\ \A section \in {"inventory", "tasks", "profile"} : Having(RouteRoles[section]) = AppRoles
    /\ \A section \in {"expenses", "reports", "users", "settings"} :
          Having(RouteRoles[section]) = {"OWNER", "ADMIN", "SUPER_ADMIN"}
    /\ \A section \in {"dashboard", "suppliers", "purchase-orders", "categories"} :
          Having(RouteRoles[section]) = {"OWNER", "ADMIN", "SUPER_ADMIN", "INVENTORY_USER"}
<1>1. /\ Having({"ADMIN"}) = {"OWNER", "ADMIN", "SUPER_ADMIN"}
      /\ Having({"ADMIN", "CASHIER"}) = AppRoles \ {"INVENTORY_USER"}
      /\ Having({"ADMIN", "CASHIER", "INVENTORY_USER"}) = AppRoles
      /\ Having({"ADMIN", "INVENTORY_USER"}) = {"OWNER", "ADMIN", "SUPER_ADMIN", "INVENTORY_USER"}
  BY DEF Having, EffectiveRoles, AppRoles
<1>2. \A section \in {"pos", "sales", "customers"} : RouteRoles[section] = {"ADMIN", "CASHIER"}
  BY DEF RouteRoles
<1>3. \A section \in {"inventory", "tasks", "profile"} :
          RouteRoles[section] = {"ADMIN", "CASHIER", "INVENTORY_USER"}
  BY DEF RouteRoles
<1>4. \A section \in {"expenses", "reports", "users", "settings"} : RouteRoles[section] = {"ADMIN"}
  BY DEF RouteRoles
<1>5. \A section \in {"dashboard", "suppliers", "purchase-orders", "categories"} :
          RouteRoles[section] = {"ADMIN", "INVENTORY_USER"}
  BY DEF RouteRoles
<1>6. DOMAIN RouteRoles = {"pos", "sales", "customers", "inventory", "tasks", "profile", "expenses",
          "reports", "users", "settings", "dashboard", "suppliers", "purchase-orders", "categories"}
  BY DEF RouteRoles
<1> QED  BY <1>1, <1>2, <1>3, <1>4, <1>5, <1>6 DEF AppRoles

---------------------------------------------------------------------------
(* Access: what pages call *)

\* What a page calls for those it shows a role to is among these.
CallsWithin(shown, p, calls) ==
    /\ p.loads \subseteq calls
    /\ \A offer \in p.offers : shown \in offer.to => offer.calls \subseteq calls

\* The columns of a page, of what it offers, and of its links.
LEMMA PageParts ==
    /\ \A at, loads, offers, links :
          /\ Page(at, loads, offers, links).at = at
          /\ Page(at, loads, offers, links).loads = loads
          /\ Page(at, loads, offers, links).offers = offers
          /\ Page(at, loads, offers, links).links = links
    /\ \A roles, calls : Offer(roles, calls).to = roles /\ Offer(roles, calls).calls = calls
    /\ \A roles, query, target :
          /\ Link(roles, query, target).to = roles
          /\ Link(roles, query, target).needs = query
          /\ Link(roles, query, target).page = target
BY DEF Page, Offer, Link

\* An administrator is answered all that the pages of an organization call.
LEMMA AdministratorsCalls ==
    ASSUME NEW role \in {"OWNER", "ADMIN", "SUPER_ADMIN"},
           NEW shown \in {"OWNER", "ADMIN", "SUPER_ADMIN"},
           shown = "SUPER_ADMIN" => role = "SUPER_ADMIN"
    PROVE  \A p \in TenantPages : CallsWithin(shown, p, ServedCalls[role])
<1>1. \A name :
         \/ AnsweredTo(name, Everybody) \/ AnsweredTo(name, Staff) \/ AnsweredTo(name, Tellers)
         \/ AnsweredTo(name, Administrators) \/ AnsweredTo(name, {"ADMIN", "OWNER"})
         \/ AnsweredTo(name, {"ADMIN", "CASHIER"})
         \/ AnsweredTo(name, {"ADMIN", "CASHIER", "INVENTORY_USER"})
         \/ shown = "SUPER_ADMIN" /\ AnsweredTo(name, System)
         => name \in ServedCalls[role]
  <2>1. role \in AppRoles \ {"INVENTORY_USER"}  BY DEF AppRoles
  <2> QED  BY <2>1, Passing, AnsweredServed
<1>2. CallsWithin(shown, DashboardPage, ServedCalls[role])
  BY <1>1, PageParts, ExpensesAnswered, ProductsAnswered, ReportsAnswered, TasksAnswered
  DEF CallsWithin, DashboardPage, AlertPanelLoads, TodayStatsLoads
<1>3. CallsWithin(shown, PosPage, ServedCalls[role])
  BY <1>1, PageParts, CustomersAnswered, ProductsAnswered, SalesAnswered, SettingsAnswered
  DEF CallsWithin, PosPage
<1>4. CallsWithin(shown, SalesPage, ServedCalls[role])
  BY <1>1, PageParts, SalesAnswered
  DEF CallsWithin, SalesPage
<1>5. CallsWithin(shown, SalePage, ServedCalls[role])
  BY <1>1, PageParts, SalesAnswered
  DEF CallsWithin, SalePage
<1>6. CallsWithin(shown, CustomersPage, ServedCalls[role])
  BY <1>1, PageParts, CustomersAnswered
  DEF CallsWithin, CustomersPage
<1>7. CallsWithin(shown, InventoryPage, ServedCalls[role])
  BY <1>1, PageParts, CategoriesAnswered, ImportsAnswered, ProductsAnswered
  DEF CallsWithin, InventoryPage, ImportSectionCalls, InventoryManagers
<1>8. CallsWithin(shown, CategoriesPage, ServedCalls[role])
  BY <1>1, PageParts, CategoriesAnswered
  DEF CallsWithin, CategoriesPage
<1>9. CallsWithin(shown, SuppliersPage, ServedCalls[role])
  BY <1>1, PageParts, SuppliersAnswered
  DEF CallsWithin, SuppliersPage, InventoryManagers
<1>10. CallsWithin(shown, OrdersPage, ServedCalls[role])
  BY <1>1, PageParts, OrdersAnswered, SuppliersAnswered
  DEF CallsWithin, OrdersPage, InventoryManagers
<1>11. CallsWithin(shown, NewOrderPage, ServedCalls[role])
  BY <1>1, PageParts, OrdersAnswered, ProductsAnswered, SuppliersAnswered
  DEF CallsWithin, NewOrderPage
<1>12. CallsWithin(shown, OrderPage, ServedCalls[role])
  BY <1>1, PageParts, OrdersAnswered, ProductsAnswered, SuppliersAnswered
  DEF CallsWithin, OrderPage, EditDraftCalls, InventoryManagers
<1>13. CallsWithin(shown, ExpensesPage, ServedCalls[role])
  BY <1>1, PageParts, ExpensesAnswered, ExportsAnswered, OrdersAnswered, SuppliersAnswered
  DEF CallsWithin, ExpensesPage, ExpenseFormCalls
<1>14. CallsWithin(shown, ReportsPage, ServedCalls[role])
  BY <1>1, PageParts, ExportsAnswered, ReportsAnswered
  DEF CallsWithin, ReportsPage
<1>15. CallsWithin(shown, TasksPage, ServedCalls[role])
  BY <1>1, PageParts, TasksAnswered
  DEF CallsWithin, TasksPage
<1>16. CallsWithin(shown, ProfilePage, ServedCalls[role])
  BY <1>1, PageParts, ProfileAnswered
  DEF CallsWithin, ProfilePage
<1>17. CallsWithin(shown, GeneralPage, ServedCalls[role])
  BY <1>1, PageParts, SettingsAnswered
  DEF CallsWithin, GeneralPage
<1>18. CallsWithin(shown, InvoicingPage, ServedCalls[role])
  BY <1>1, PageParts, SettingsAnswered
  DEF CallsWithin, InvoicingPage
<1>19. CallsWithin(shown, AdvancedPage, ServedCalls[role])
  BY <1>1, PageParts, SettingsAnswered
  DEF CallsWithin, AdvancedPage
<1>20. CallsWithin(shown, LocalePage, ServedCalls[role])
  BY <1>1, PageParts, SettingsAnswered
  DEF CallsWithin, LocalePage
<1>21. CallsWithin(shown, BillingPage, ServedCalls[role])
  BY <1>1, PageParts, BillingAnswered, PlanLimitsAnswered
  DEF CallsWithin, BillingPage
<1>22. CallsWithin(shown, TeamPage, ServedCalls[role])
  BY <1>1, PageParts, UsersAnswered
  DEF CallsWithin, TeamPage
<1> QED  BY <1>2, <1>3, <1>4, <1>5, <1>6, <1>7, <1>8, <1>9, <1>10, <1>11, <1>12, <1>13, <1>14,
         <1>15, <1>16, <1>17, <1>18, <1>19, <1>20, <1>21, <1>22
         DEF TenantPages

\* And who runs the system is answered what the admin pages call.
LEMMA SystemCalls ==
    \A p \in SystemPages : CallsWithin("SUPER_ADMIN", p, ServedCalls["SUPER_ADMIN"])
<1>1. \A name : AnsweredTo(name, System) => name \in ServedCalls["SUPER_ADMIN"]
  BY Passing, AnsweredServed DEF AppRoles
<1>2. CallsWithin("SUPER_ADMIN", AdminPage, ServedCalls["SUPER_ADMIN"])
  BY <1>1, PageParts, AdminAnswered
  DEF CallsWithin, AdminPage
<1>3. CallsWithin("SUPER_ADMIN", OrganizationsPage, ServedCalls["SUPER_ADMIN"])
  BY <1>1, PageParts, AdminAnswered
  DEF CallsWithin, OrganizationsPage
<1>4. CallsWithin("SUPER_ADMIN", OrganizationPage, ServedCalls["SUPER_ADMIN"])
  BY <1>1, PageParts, AdminAnswered
  DEF CallsWithin, OrganizationPage
<1> QED  BY <1>2, <1>3, <1>4 DEF SystemPages

\* A member is answered all but the settings.
LEMMA MembersCalls ==
    \A p \in TellerPages : CallsWithin("MEMBER", p, ServedCalls["MEMBER"] \cup {"useSettings"})
<1>1. \A name : AnsweredTo(name, Everybody) \/ AnsweredTo(name, Staff) \/ AnsweredTo(name, Tellers)
                    => name \in ServedCalls["MEMBER"]
  BY Passing, AnsweredServed DEF AppRoles
<1>2. CallsWithin("MEMBER", PosPage, ServedCalls["MEMBER"] \cup {"useSettings"})
  BY <1>1, PageParts, CustomersAnswered, ProductsAnswered, SalesAnswered, SettingsAnswered
  DEF CallsWithin, PosPage
<1>3. CallsWithin("MEMBER", SalesPage, ServedCalls["MEMBER"] \cup {"useSettings"})
  BY <1>1, PageParts, SalesAnswered
  DEF CallsWithin, SalesPage
<1>4. CallsWithin("MEMBER", SalePage, ServedCalls["MEMBER"] \cup {"useSettings"})
  BY <1>1, PageParts, SalesAnswered
  DEF CallsWithin, SalePage
<1>5. CallsWithin("MEMBER", CustomersPage, ServedCalls["MEMBER"] \cup {"useSettings"})
  BY <1>1, PageParts, CustomersAnswered
  DEF CallsWithin, CustomersPage
<1>6. CallsWithin("MEMBER", InventoryPage, ServedCalls["MEMBER"] \cup {"useSettings"})
  BY <1>1, PageParts, CategoriesAnswered, ImportsAnswered, ProductsAnswered
  DEF CallsWithin, InventoryPage, ImportSectionCalls, InventoryManagers
<1>7. CallsWithin("MEMBER", TasksPage, ServedCalls["MEMBER"] \cup {"useSettings"})
  BY <1>1, PageParts, TasksAnswered
  DEF CallsWithin, TasksPage
<1>8. CallsWithin("MEMBER", ProfilePage, ServedCalls["MEMBER"] \cup {"useSettings"})
  BY <1>1, PageParts, ProfileAnswered
  DEF CallsWithin, ProfilePage
<1> QED  BY <1>2, <1>3, <1>4, <1>5, <1>6, <1>7, <1>8 DEF TellerPages

\* A cashier also not the categories and the scanner, nor the tasks.
LEMMA CashiersCalls ==
    \A p \in TellerPages \ {TasksPage} :
        CallsWithin("CASHIER", p, ServedCalls["CASHIER"]
                               \cup {"useSettings", "useCategories", "useQuickSearchProduct"})
<1> DEFINE calls == ServedCalls["CASHIER"]
                        \cup {"useSettings", "useCategories", "useQuickSearchProduct"}
<1>1. \A name : AnsweredTo(name, Everybody) \/ AnsweredTo(name, Tellers) => name \in calls
  BY Passing, AnsweredServed DEF AppRoles
<1>2. {"useSettings", "useCategories", "useQuickSearchProduct"} \subseteq calls  OBVIOUS
<1> HIDE DEF calls
<1>3. CallsWithin("CASHIER", PosPage, calls)
  BY <1>1, <1>2, PageParts, CustomersAnswered, ProductsAnswered, SalesAnswered, SettingsAnswered
  DEF CallsWithin, PosPage
<1>4. CallsWithin("CASHIER", SalesPage, calls)
  BY <1>1, <1>2, PageParts, SalesAnswered
  DEF CallsWithin, SalesPage
<1>5. CallsWithin("CASHIER", SalePage, calls)
  BY <1>1, <1>2, PageParts, SalesAnswered
  DEF CallsWithin, SalePage
<1>6. CallsWithin("CASHIER", CustomersPage, calls)
  BY <1>1, <1>2, PageParts, CustomersAnswered
  DEF CallsWithin, CustomersPage
<1>7. CallsWithin("CASHIER", InventoryPage, calls)
  BY <1>1, <1>2, PageParts, CategoriesAnswered, ImportsAnswered, ProductsAnswered
  DEF CallsWithin, InventoryPage, ImportSectionCalls, InventoryManagers
<1>8. CallsWithin("CASHIER", ProfilePage, calls)
  BY <1>1, <1>2, PageParts, ProfileAnswered
  DEF CallsWithin, ProfilePage
<1> QED  BY <1>3, <1>4, <1>5, <1>6, <1>7, <1>8 DEF TellerPages, calls

---------------------------------------------------------------------------
(* Access: where pages lead *)

\* The role may see the address, or it leads to one.
RoleStays(role, a) == InPlace(role, a) \/ Head(a) \in DOMAIN Forwards

\* Every role stays where the sidebar leads it.
LEMMA SidebarStays ==
    \A role \in AppRoles, link \in SidebarLinks : role \in link.to => RoleStays(role, link.page)
<1>1. /\ Having({"ADMIN"}) = {"OWNER", "ADMIN", "SUPER_ADMIN"}
      /\ Having({"SUPER_ADMIN"}) = {"SUPER_ADMIN"}
      /\ Having({"ADMIN", "CASHIER"}) = AppRoles \ {"INVENTORY_USER"}
      /\ Having({"ADMIN", "CASHIER", "INVENTORY_USER"}) = AppRoles
      /\ Having({"ADMIN", "INVENTORY_USER"}) = {"OWNER", "ADMIN", "SUPER_ADMIN", "INVENTORY_USER"}
  BY DEF Having, EffectiveRoles, AppRoles
<1>2. \A section : Head(<<section>>) = section  OBVIOUS
<1>3. \A role, section : section # "admin" /\ section \in DOMAIN RouteRoles =>
         (role \in Having(RouteRoles[section]) => RoleStays(role, <<section>>))
  BY <1>2 DEF RoleStays, InPlace, OfAdmin
<1>4. RoleStays("SUPER_ADMIN", <<"admin">>)  BY <1>2 DEF RoleStays, InPlace, OfAdmin
<1>5. DOMAIN RouteRoles = {"pos", "sales", "customers", "inventory", "tasks", "profile", "expenses",
          "reports", "users", "settings", "dashboard", "suppliers", "purchase-orders", "categories"}
  BY DEF RouteRoles
<1> TAKE role \in AppRoles, link \in SidebarLinks
<1> HAVE role \in link.to
<1>6. CASE link = Link(Having({"SUPER_ADMIN"}), "none", <<"admin">>)
  BY <1>1, <1>4, <1>6, PageParts
<1>7. CASE \E section \in {"dashboard", "categories", "suppliers", "purchase-orders"} :
              link = Link(Having({"ADMIN", "INVENTORY_USER"}), "none", <<section>>)
  BY <1>1, <1>3, <1>5, <1>7, PageParts, Seers
<1>8. CASE \E section \in {"pos", "sales", "customers"} :
              link = Link(Having({"ADMIN", "CASHIER"}), "none", <<section>>)
  BY <1>1, <1>3, <1>5, <1>8, PageParts, Seers
<1>9. CASE \E section \in {"inventory", "tasks"} :
              link = Link(Having({"ADMIN", "CASHIER", "INVENTORY_USER"}), "none", <<section>>)
  BY <1>1, <1>3, <1>5, <1>9, PageParts, Seers
<1>10. CASE \E section \in {"expenses", "reports", "settings"} :
              link = Link(Having({"ADMIN"}), "none", <<section>>)
  BY <1>1, <1>3, <1>5, <1>10, PageParts, Seers
<1>11. CASE link = Link(AppRoles, "none", <<"profile">>)
  BY <1>1, <1>3, <1>5, <1>11, PageParts, Seers
<1> QED  BY <1>6, <1>7, <1>8, <1>9, <1>10, <1>11 DEF SidebarLinks, LinksTo

\* The links of the pages of an organization lead to such pages, and those that a teller sees
\* to the sales.
LEMMA LinksWithin ==
    /\ \A p \in TenantPages : \A link \in p.links : Head(link.page) \in DOMAIN RouteRoles
    /\ \A p \in TellerPages : \A link \in p.links : Head(link.page) = "sales"
<1>1. /\ \A section : Head(<<section>>) = section
      /\ \A section, more : Head(<<section, more>>) = section
  OBVIOUS
<1>2. \A targets : \A link \in LinksTo(targets) : link.page \in targets
  BY PageParts DEF LinksTo
<1>3. \A p \in TellerPages : \A link \in p.links : Head(link.page) = "sales"
  BY <1>1, <1>2, PageParts
  DEF TellerPages, PosPage, SalesPage, SalePage, CustomersPage, InventoryPage, TasksPage,
      ProfilePage
<1>4. \A p \in {DashboardPage, CategoriesPage, SuppliersPage, OrdersPage, NewOrderPage, OrderPage,
               ExpensesPage, ReportsPage} :
         \A link \in p.links :
            Head(link.page) \in {"inventory", "pos", "expenses", "purchase-orders"}
  BY <1>1, <1>2, PageParts
  DEF DashboardPage, QuickActionLinks, AlertPanelLinks, CategoriesPage, SuppliersPage,
      OrdersPage,
      NewOrderPage, OrderPage, ExpensesPage, ReportsPage
<1>5. \A link \in SettingsLinks : Head(link.page) = "settings"
  BY <1>1, <1>2 DEF SettingsLinks
<1>6. \A p \in {GeneralPage, InvoicingPage, AdvancedPage, LocalePage, BillingPage, TeamPage} :
         p.links = SettingsLinks
  BY PageParts DEF GeneralPage, InvoicingPage, AdvancedPage, LocalePage, BillingPage, TeamPage
<1>7. DOMAIN RouteRoles = {"pos", "sales", "customers", "inventory", "tasks", "profile", "expenses",
          "reports", "users", "settings", "dashboard", "suppliers", "purchase-orders", "categories"}
  BY DEF RouteRoles
<1>8. \A p \in TenantPages :
         \/ p \in TellerPages
         \/ p \in {DashboardPage, CategoriesPage, SuppliersPage, OrdersPage, NewOrderPage, OrderPage,
                   ExpensesPage, ReportsPage}
         \/ p \in {GeneralPage, InvoicingPage, AdvancedPage, LocalePage, BillingPage, TeamPage}
  BY DEF TenantPages, TellerPages
<1> QED  BY <1>3, <1>4, <1>5, <1>6, <1>7, <1>8

\* Those that an inventory user sees lead to purchase orders and to the inventory, but for the
\* link to the expenses, which waits for their query.
LEMMA InventoryUsersLinks ==
    \A p \in StockPages : \A link \in p.links :
        "INVENTORY_USER" \in link.to /\ link.needs # "useExpenses" =>
            Head(link.page) \in {"inventory", "purchase-orders"}
<1>1. /\ \A section : Head(<<section>>) = section
      /\ \A section, more : Head(<<section, more>>) = section
  OBVIOUS
<1>2. \A targets : \A link \in LinksTo(targets) : link.page \in targets
  BY PageParts DEF LinksTo
<1>3. /\ "INVENTORY_USER" \notin Having({"ADMIN", "CASHIER"})
      /\ "INVENTORY_USER" \notin Having({"ADMIN"})
  BY DEF Having, EffectiveRoles, AppRoles
<1>4. \A p \in {OrdersPage, NewOrderPage, OrderPage} : \A link \in p.links :
         Head(link.page) = "purchase-orders"
  BY <1>1, <1>2, PageParts DEF OrdersPage, NewOrderPage, OrderPage
<1>5. \A p \in {InventoryPage, CategoriesPage, SuppliersPage, TasksPage, ProfilePage} : p.links = {}
  BY PageParts DEF InventoryPage, CategoriesPage, SuppliersPage, TasksPage, ProfilePage
<1>6. \A link \in DashboardPage.links :
        "INVENTORY_USER" \in link.to /\ link.needs # "useExpenses" => Head(link.page) = "inventory"
  BY <1>1, <1>3, PageParts DEF DashboardPage, QuickActionLinks, AlertPanelLinks
<1> QED  BY <1>4, <1>5, <1>6 DEF StockPages

---------------------------------------------------------------------------
(* Access: pages fit roles *)

\* The roles that are granted, and the organization of a tab.
LEMMA AccessTypes ==
    AccessSpec => [](/\ grantedRole \in [AccessOrgs -> AppRoles]
                     /\ session \in AccessOrgs \cup {SignedOut})
<1> DEFINE Typed == /\ grantedRole \in [AccessOrgs -> AppRoles]
                    /\ session \in AccessOrgs \cup {SignedOut}
<1>1. AccessInit => Typed
  BY DEF AccessInit, AccessRoles, AppRoles
<1>2. Typed /\ [AccessNext]_accessVars => Typed'
  <2> SUFFICES ASSUME Typed, [AccessNext]_accessVars PROVE Typed'
    OBVIOUS
  <2>1. ASSUME NEW org \in AccessOrgs, SignIn(org) \/ Switch(org) PROVE Typed'
    BY <2>1 DEF SignIn, Switch, Enter
  <2>2. CASE SignOut  BY <2>2 DEF SignOut
  <2>3. CASE TokenRefreshed  BY <2>3, AccessAssumption DEF TokenRefreshed
  <2>4. CASE Follow \/ Redirect  BY <2>4 DEF Follow, Redirect
  <2>5. ASSUME NEW a, OpenAddress(a) PROVE Typed'
    BY <2>5, AccessAssumption DEF OpenAddress
  <2>6. ASSUME NEW org \in AccessOrgs, NEW role \in AccessRoles, GrantRole(org, role) PROVE Typed'
    BY <2>6 DEF GrantRole, AccessRoles
  <2>7. CASE UNCHANGED accessVars  BY <2>7 DEF accessVars
  <2> QED  BY <2>1, <2>2, <2>3, <2>4, <2>5, <2>6, <2>7 DEF AccessNext
<1> QED  BY <1>1, <1>2, PTL DEF AccessSpec

\* What is around every page of an organization is served to everybody, and so is what it calls.
LEMMA CallableWithin ==
    ASSUME NEW shown \in AppRoles, NEW granted \in AppRoles, NEW a \in DOMAIN PageAt, NEW calls,
           shown = "SUPER_ADMIN" => granted = "SUPER_ADMIN",
           CallsWithin(shown, PageAt[a], calls), ServedCalls[granted] \subseteq calls
    PROVE  Callable[shown][a] \subseteq calls
<1>1. \A name \in {"userQuery", "usePlanLimits", "switchOrganization", "logout"} :
         AnsweredTo(name, Everybody)
  BY SwitcherAnswered, PlanLimitsAnswered, SessionAnswered
<1>2. {"userQuery", "usePlanLimits", "switchOrganization", "logout"} \subseteq calls
  BY <1>1, Passing, AnsweredServed
<1>3. shown = "SUPER_ADMIN" => "useOrganizations" \in calls
  BY Passing, AnsweredServed, AdminAnswered
<1>4. Loaded(shown, a) \subseteq calls
  BY <1>2, <1>3 DEF Loaded, SwitcherLoads, BannerLoads, CallsWithin
<1>5. \A offer \in PageAt[a].offers \cup (IF OfAdmin(a) THEN {} ELSE SidebarOffers) :
         shown \in offer.to => offer.calls \subseteq calls
  BY <1>2, PageParts DEF SidebarOffers, CallsWithin
<1> QED  BY <1>4, <1>5 DEF Callable

\* Where a role is in place.
LEMMA InPlaceOn ==
    ASSUME NEW a \in DOMAIN PageAt
    PROVE  /\ InPlace("SUPER_ADMIN", a)
           /\ \A role \in {"OWNER", "ADMIN"} : InPlace(role, a) <=> PageAt[a] \in TenantPages
           /\ \A role \in {"MEMBER", "CASHIER"} : InPlace(role, a) => PageAt[a] \in TellerPages
           /\ InPlace("INVENTORY_USER", a) => PageAt[a] \in StockPages
<1>1. /\ PageAt[a] \in SystemPages => Head(a) = "admin"
      /\ PageAt[a] \in TenantPages => Head(a) \in DOMAIN RouteRoles
      /\ PageAt[a] \in TenantPages \cup SystemPages
  BY PageThere, PageHeads
<1>2. DOMAIN RouteRoles = {"pos", "sales", "customers", "inventory", "tasks", "profile", "expenses",
          "reports", "users", "settings", "dashboard", "suppliers", "purchase-orders", "categories"}
  BY DEF RouteRoles
<1>3. CASE PageAt[a] \in SystemPages
  <2>1. PageAt[a] \notin TenantPages  BY <1>1, <1>2, <1>3
  <2> QED  BY <1>1, <1>3, <2>1 DEF InPlace, OfAdmin
<1>4. CASE PageAt[a] \in TenantPages
  <2>1. \A role : InPlace(role, a) <=>
           role = "SUPER_ADMIN" \/ role \in Having(RouteRoles[Head(a)])
    BY <1>1, <1>2, <1>4 DEF InPlace, OfAdmin
  <2>2. \A role \in {"OWNER", "ADMIN"} : InPlace(role, a)
    BY <1>1, <1>4, <2>1, Seers
  <2>3. \A role \in {"MEMBER", "CASHIER"} : InPlace(role, a) =>
           Head(a) \in {"pos", "sales", "customers", "inventory", "tasks", "profile"}
    BY <1>1, <1>2, <1>4, <2>1, Seers
  <2>4. InPlace("INVENTORY_USER", a) =>
           Head(a) \in {"inventory", "tasks", "profile", "dashboard", "suppliers",
                        "purchase-orders", "categories"}
    BY <1>1, <1>2, <1>4, <2>1, Seers
  <2> QED  BY <1>4, <2>1, <2>2, <2>3, <2>4, PageThere, PageHeads
<1> QED  BY <1>1, <1>3, <1>4

\* A tab shows its user a role the server reads, an owner also as an administrator.
Showing(shown, granted) == granted \in AppRoles /\ shown \in {granted, ProfileRole(granted)}

\* On a page where its role is in place a tab is answered, but for the calls that are listed.
LEMMA ServedInPlace ==
    ASSUME NEW shown, NEW granted, Showing(shown, granted),
           NEW a \in DOMAIN PageAt, InPlace(shown, a)
    PROVE  Callable[shown][a] \subseteq ServedCalls[granted] \cup Mismatched[granted]
<1> DEFINE calls == ServedCalls[granted] \cup Mismatched[granted]
<1>1. /\ granted \in AppRoles /\ shown \in AppRoles
      /\ shown # granted => shown = "ADMIN" /\ granted = "OWNER"
  BY DEF Showing, ProfileRole, AppRoles
<1>2. PageAt[a] \in TenantPages \cup SystemPages /\ PageAt[a].at = a  BY PageThere
<1>3. CASE granted \in {"OWNER", "ADMIN", "SUPER_ADMIN"}
  <2>1. PageAt[a] \in TenantPages => CallsWithin(shown, PageAt[a], ServedCalls[granted])
    BY <1>1, <1>3, AdministratorsCalls
  <2>2. PageAt[a] \in SystemPages => shown = "SUPER_ADMIN" \/ PageAt[a] \in TenantPages
    BY <1>1, <1>3, InPlaceOn
  <2>3. CallsWithin(shown, PageAt[a], ServedCalls[granted])
    BY <1>1, <1>2, <2>1, <2>2, SystemCalls
  <2> QED  BY <1>1, <2>3, CallableWithin
<1>4. CASE granted = "MEMBER"
  <2>1. CallsWithin("MEMBER", PageAt[a], ServedCalls["MEMBER"] \cup {"useSettings"})
    BY <1>1, <1>4, InPlaceOn, MembersCalls
  <2>2. Mismatched["MEMBER"] = {"useSettings"}  BY DEF Mismatched, AppRoles
  <2> QED  BY <1>1, <1>4, <2>1, <2>2, CallableWithin
<1>5. CASE granted = "CASHIER"
  <2>1. Mismatched["CASHIER"] = {"useSettings", "useCategories", "useQuickSearchProduct"}
                                   \cup Callable["CASHIER"][<<"tasks">>]
    BY DEF Mismatched, AppRoles
  <2>2. CASE PageAt[a] = TasksPage
    <3>1. a = <<"tasks">>  BY <1>2, <2>2, PageParts DEF TasksPage
    <3> QED  BY <1>1, <1>5, <2>1, <3>1
  <2>3. CASE PageAt[a] # TasksPage
    <3>1. CallsWithin("CASHIER", PageAt[a],
               ServedCalls["CASHIER"]
                   \cup {"useSettings", "useCategories", "useQuickSearchProduct"})
      BY <1>1, <1>5, <2>3, InPlaceOn, CashiersCalls
    <3>2. CallsWithin("CASHIER", PageAt[a], calls)  BY <1>5, <2>1, <3>1 DEF CallsWithin
    <3> QED  BY <1>1, <1>5, <3>2, CallableWithin
  <2> QED  BY <2>2, <2>3
<1>6. CASE granted = "INVENTORY_USER"
  BY <1>1, <1>6 DEF Mismatched, AppRoles
<1> QED  BY <1>1, <1>3, <1>4, <1>5, <1>6 DEF AppRoles

\* The links it is shown there lead where its role is in place too.
LEMMA LinksInPlace ==
    ASSUME NEW shown, NEW granted, Showing(shown, granted),
           NEW a \in DOMAIN PageAt, InPlace(shown, a), NEW link \in Shown(a), shown \in link.to,
           link.needs \in ServedCalls[granted] \cup {"none"}
    PROVE  RoleStays(shown, link.page)
<1>1. /\ granted \in AppRoles /\ shown \in AppRoles
      /\ shown # granted => shown = "ADMIN" /\ granted = "OWNER"
  BY DEF Showing, ProfileRole, AppRoles
<1>2. CASE link \in SidebarLinks  BY <1>1, <1>2, SidebarStays
<1>3. CASE link \in PageAt[a].links
  <2>1. \A section \in DOMAIN RouteRoles : section # "admin"  BY DEF RouteRoles
  <2>2. Head(link.page) \in DOMAIN RouteRoles /\ shown \in Having(RouteRoles[Head(link.page)])
        => RoleStays(shown, link.page)
    BY <2>1 DEF RoleStays, InPlace, OfAdmin
  <2>3. CASE shown = "SUPER_ADMIN"  BY <2>3 DEF RoleStays, InPlace
  <2>4. CASE shown \in {"OWNER", "ADMIN"}
    BY <1>3, <2>2, <2>4, InPlaceOn, LinksWithin, Seers
  <2>5. CASE shown \in {"MEMBER", "CASHIER"}
    <3>1. Head(link.page) = "sales"  BY <1>3, <2>5, InPlaceOn, LinksWithin
    <3>2. "sales" \in DOMAIN RouteRoles  BY DEF RouteRoles
    <3> QED  BY <2>2, <2>5, <3>1, <3>2, Seers DEF AppRoles
  <2>6. CASE shown = "INVENTORY_USER"
    <3>1. link.needs # "useExpenses"  BY <1>1, <2>6, ExpensesRefused
    <3>2. Head(link.page) \in {"inventory", "purchase-orders"}
      BY <1>3, <2>6, <3>1, InPlaceOn, InventoryUsersLinks
    <3>3. {"inventory", "purchase-orders"} \subseteq DOMAIN RouteRoles  BY DEF RouteRoles
    <3> QED  BY <2>2, <2>6, <3>2, <3>3, Seers DEF AppRoles
  <2> QED  BY <1>1, <2>3, <2>4, <2>5, <2>6 DEF AppRoles
<1> QED  BY <1>2, <1>3 DEF Shown

\* From anywhere else a layout sends the role where it is in place, a cashier on an admin page in
\* two steps; but not a member.
LEMMA RefugeInPlace ==
    ASSUME NEW role \in AppRoles \ {"MEMBER"}, NEW a \in DOMAIN PageAt, ~InPlace(role, a)
    PROVE  \/ InPlace(role, Refuge(role, a))
           \/ OfAdmin(a) /\ InPlace(role, Refuge(role, Refuge(role, a)))
<1>1. /\ \A section : Head(<<section>>) = section
      /\ {"pos", "dashboard"} \subseteq DOMAIN RouteRoles
  BY DEF RouteRoles
<1>2. \A section \in {"pos", "dashboard"} :
         InPlace(role, <<section>>) <=>
            role = "SUPER_ADMIN" \/ role \in Having(RouteRoles[section])
  BY <1>1 DEF InPlace, OfAdmin
<1>3. role # "SUPER_ADMIN"  BY InPlaceOn
<1>4. CASE role = "CASHIER"
  <2>1. InPlace(role, <<"pos">>)  BY <1>2, <1>4, Seers DEF AppRoles
  <2>2. ~OfAdmin(<<"dashboard">>)  BY <1>1 DEF OfAdmin
  <2> QED  BY <1>4, <2>1, <2>2 DEF Refuge
<1>5. CASE role \in {"OWNER", "ADMIN", "INVENTORY_USER"}
  <2>1. InPlace(role, <<"dashboard">>)  BY <1>2, <1>5, Seers
  <2> QED  BY <1>5, <2>1 DEF Refuge
<1> QED  BY <1>3, <1>4, <1>5 DEF AppRoles

\* PagesFitRoles holds of every tab that shows the role the server reads, whatever organizations
\* its user belongs to and whatever roles are granted meanwhile: on its pages it is answered all
\* that they call but what Mismatched lists, and neither a link nor a layout leads it astray
\* (roles.guard.ts, DashboardLayout.tsx and the tables of routes and pages).
THEOREM RolesFitPages == AccessSpec => []PagesFitRoles
<1> DEFINE Typed == /\ grantedRole \in [AccessOrgs -> AppRoles]
                    /\ session \in AccessOrgs \cup {SignedOut}
<1>1. Typed => PagesFitRoles
  <2> SUFFICES ASSUME Typed, Current, address \in DOMAIN PageAt
               PROVE  CallsServed /\ (InPlace(shownRole, address) => LinksStay) /\ RedirectsEnd
    BY DEF PagesFitRoles
  <2>1. Showing(shownRole, grantedRole[session])  BY DEF Current, Showing
  <2>2. shownRole \in AppRoles  BY <2>1 DEF Showing, ProfileRole, AppRoles
  <2>3. CallsServed  BY <2>1, ServedInPlace DEF CallsServed
  <2>4. ASSUME InPlace(shownRole, address) PROVE LinksStay
    BY <2>1, <2>4, LinksInPlace DEF LinksStay, RoleStays
  <2>5. RedirectsEnd  BY <2>2, RefugeInPlace DEF RedirectsEnd
  <2> QED  BY <2>3, <2>4, <2>5
<1> QED  BY <1>1, AccessTypes, PTL
=============================================================================
