---------------------------- MODULE LedgerProofs ----------------------------
(***************************************************************************)
(* What the quantities of Inventory add up to, for every set of products   *)
(* and requests: the ledger of movements accounts for every unit of a      *)
(* stock, the items of a purchase order for every unit it received, and    *)
(* the sales and their cancellations are an abstract book of sales.        *)
(*                                                                         *)
(* It starts with sums over finite sets.  The library's MapThenSumSet is a *)
(* recursive function on the subsets of its argument; that this function   *)
(* exists, is unique and does not depend on the order in which elements    *)
(* are chosen is proved here from the theorem that strict inclusion is     *)
(* well founded on the subsets of a finite set.                            *)
(***************************************************************************)
EXTENDS StockProofs, InventoryLedger, FiniteSetTheorems

---------------------------------------------------------------------------
(* Sums over finite sets *)

\* The sum of f[x] for the elements x of S.
SumOver(f, S) == MapThenSumSet(LAMBDA x : f[x], S)

ChosenOf(s) == CHOOSE x \in s : TRUE

\* g is the recursive function whose value at S is the sum.
IsSum(f, S, g) ==
    g = [s \in SUBSET S |-> IF s = {} THEN 0 ELSE f[ChosenOf(s)] + g[s \ {ChosenOf(s)}]]
SumRecursion(f, S) == CHOOSE g : IsSum(f, S, g)

---------------------------------------------------------------------------
\* A non-empty set of subsets of a finite set has a minimal element.
LEMMA MinimalSubset ==
    ASSUME NEW S, IsFiniteSet(S), NEW T \in SUBSET (SUBSET S), T # {}
    PROVE  \E m \in T : \A x \in T : x \subseteq m => x = m
<1> DEFINE R == StrictSubsetOrdering(S)
<1>1. IsWellFoundedOn(R, SUBSET S)
  BY FS_StrictSubsetOrderingWellFounded, FS_FiniteSubsetsOfFinite
<1>2. \A x, y \in SUBSET S : x \subseteq y /\ x # y => <<x, y>> \in R
  BY DEF StrictSubsetOrdering
<1> HIDE DEF R
<1>3. PICK m \in T : \A x \in T : ~(<<x, m>> \in R)
  BY <1>1, WFMin
<1> QED
  BY <1>2, <1>3

\* A set of subsets with every subset whose strict subsets it has, has them all.
LEMMA SubsetInduction ==
    ASSUME NEW S, IsFiniteSet(S), NEW G,
           \A s \in SUBSET S : (\A t \in SUBSET s : t # s => t \in G) => s \in G
    PROVE  SUBSET S \subseteq G
<1> DEFINE Bad == (SUBSET S) \ G
<1> SUFFICES ASSUME Bad # {} PROVE FALSE
  OBVIOUS
<1>1. Bad \in SUBSET (SUBSET S) /\ \A x \in SUBSET S : x \in Bad <=> x \notin G
  OBVIOUS
<1> HIDE DEF Bad
<1>2. PICK m \in Bad : \A x \in Bad : x \subseteq m => x = m
  BY <1>1, MinimalSubset
<1>3. \A t \in SUBSET m : t # m => t \in G
  BY <1>1, <1>2
<1> QED
  BY <1>1, <1>2, <1>3

\* The element chosen from a non-empty set is one of its elements.
LEMMA ChosenIsElement == ASSUME NEW s, s # {} PROVE ChosenOf(s) \in s
BY DEF ChosenOf

\* A sum is the value of the recursive function the library defines it by.
LEMMA SumOverIsSum == ASSUME NEW f, NEW S PROVE SumOver(f, S) = SumRecursion(f, S)[S]
BY DEF SumOver, MapThenSumSet, MapThenFoldSet, SumRecursion, IsSum, ChosenOf

\* The recursive function of a sum, evaluated at one subset.
LEMMA IsSumValue ==
    ASSUME NEW f, NEW S, NEW g, IsSum(f, S, g), NEW s \in SUBSET S
    PROVE  g[s] = IF s = {} THEN 0 ELSE f[ChosenOf(s)] + g[s \ {ChosenOf(s)}]
<1> DEFINE h == [t \in SUBSET S |-> IF t = {} THEN 0 ELSE f[ChosenOf(t)] + g[t \ {ChosenOf(t)}]]
<1>1. g = h
  BY DEF IsSum
<1>2. h[s] = IF s = {} THEN 0 ELSE f[ChosenOf(s)] + g[s \ {ChosenOf(s)}]
  OBVIOUS
<1> HIDE DEF h
<1> QED
  BY <1>1, <1>2

\* Two sum functions agree where both are defined.
LEMMA SumsAgree ==
    ASSUME NEW f, NEW S, NEW T, IsFiniteSet(S), NEW g, NEW h, S \subseteq T,
           IsSum(f, S, g), IsSum(f, T, h)
    PROVE  \A s \in SUBSET S : g[s] = h[s]
<1> DEFINE G == {s \in SUBSET S : g[s] = h[s]}
<1>1. ASSUME NEW s \in SUBSET S, \A t \in SUBSET s : t # s => t \in G
      PROVE  s \in G
  <2>1. CASE s = {}
    BY <2>1, IsSumValue
  <2>2. CASE s # {}
    <3>1. s \ {ChosenOf(s)} \in G
      BY <1>1, <2>2, ChosenIsElement
    <3>2. g[s] = f[ChosenOf(s)] + g[s \ {ChosenOf(s)}]
      BY <2>2, IsSumValue
    <3>3. h[s] = f[ChosenOf(s)] + h[s \ {ChosenOf(s)}]
      BY <2>2, IsSumValue
    <3> QED
      BY <3>1, <3>2, <3>3
  <2> QED
    BY <2>1, <2>2
<1> HIDE DEF G
<1>2. SUBSET S \subseteq G
  BY <1>1, SubsetInduction
<1> QED
  BY <1>2 DEF G

\* Every finite set has its sum function.
LEMMA SumExists ==
    ASSUME NEW f, NEW S, IsFiniteSet(S)
    PROVE  \A s \in SUBSET S : IsSum(f, s, SumRecursion(f, s))
<1> DEFINE G == {s \in SUBSET S : IsSum(f, s, SumRecursion(f, s))}
<1>1. ASSUME NEW s \in SUBSET S, \A t \in SUBSET s : t # s => t \in G
      PROVE  s \in G
  <2> DEFINE V(t) == SumRecursion(f, t)[t]
             g == [t \in SUBSET s |-> IF t = {} THEN 0 ELSE f[ChosenOf(t)] + V(t \ {ChosenOf(t)})]
  <2>1. ASSUME NEW t \in SUBSET s, t # s
        PROVE  V(t) = IF t = {} THEN 0 ELSE f[ChosenOf(t)] + V(t \ {ChosenOf(t)})
    <3>1. IsSum(f, t, SumRecursion(f, t))
      BY <1>1, <2>1
    <3>2. CASE t = {}
      BY <3>1, <3>2, IsSumValue
    <3>3. CASE t # {}
      <4> DEFINE u == t \ {ChosenOf(t)}
      <4>1. u \in SUBSET t /\ u # t /\ u \in SUBSET s /\ u # s
        BY <3>3, ChosenIsElement, <2>1
      <4>2. IsSum(f, u, SumRecursion(f, u)) /\ IsFiniteSet(u)
        BY <1>1, <4>1, FS_Subset
      <4>3. SumRecursion(f, u)[u] = SumRecursion(f, t)[u]
        BY <3>1, <4>1, <4>2, SumsAgree
      <4>4. SumRecursion(f, t)[t] = f[ChosenOf(t)] + SumRecursion(f, t)[u]
        BY <3>1, <3>3, IsSumValue
      <4> QED
        BY <3>3, <4>3, <4>4
    <3> QED
      BY <3>2, <3>3
  <2>2. \A t \in SUBSET s : t # {} => g[t \ {ChosenOf(t)}] = V(t \ {ChosenOf(t)})
    <3> SUFFICES ASSUME NEW t \in SUBSET s, t # {}
                 PROVE  g[t \ {ChosenOf(t)}] = V(t \ {ChosenOf(t)})
      OBVIOUS
    <3> DEFINE u == t \ {ChosenOf(t)}
    <3>1. u \in SUBSET s /\ u # s
      BY ChosenIsElement
    <3>2. V(u) = IF u = {} THEN 0 ELSE f[ChosenOf(u)] + V(u \ {ChosenOf(u)})
      BY <2>1, <3>1
    <3> HIDE DEF V
    <3>3. g[u] = IF u = {} THEN 0 ELSE f[ChosenOf(u)] + V(u \ {ChosenOf(u)})
      BY <3>1
    <3> QED
      BY <3>2, <3>3
  <2>3. IsSum(f, s, g)
    <3> HIDE DEF V
    <3>1. g = [t \in SUBSET s |-> IF t = {} THEN 0 ELSE f[ChosenOf(t)] + V(t \ {ChosenOf(t)})]
      OBVIOUS
    <3> HIDE DEF g
    <3>2. g = [t \in SUBSET s |-> IF t = {} THEN 0 ELSE f[ChosenOf(t)] + g[t \ {ChosenOf(t)}]]
      BY <2>2, <3>1
    <3> QED
      BY <3>2 DEF IsSum
  <2> HIDE DEF g
  <2>4. IsSum(f, s, SumRecursion(f, s))
    BY <2>3 DEF SumRecursion
  <2> QED
    BY <2>4
<1> HIDE DEF G
<1>2. SUBSET S \subseteq G
  BY <1>1, SubsetInduction
<1> QED
  BY <1>2 DEF G

---------------------------------------------------------------------------
\* No elements add up to nothing.
LEMMA SumOfNone == ASSUME NEW f PROVE SumOver(f, {}) = 0
<1>1. IsFiniteSet({})
  BY FS_EmptySet
<1>2. IsSum(f, {}, SumRecursion(f, {}))
  BY <1>1, SumExists
<1> QED
  BY <1>2, IsSumValue, SumOverIsSum

\* The sum of some elements is that of the chosen one and of the others.
LEMMA SumOfChosen ==
    ASSUME NEW f, NEW S, IsFiniteSet(S), S # {}
    PROVE  SumOver(f, S) = f[ChosenOf(S)] + SumOver(f, S \ {ChosenOf(S)})
<1> DEFINE u == S \ {ChosenOf(S)}
<1>1. u \in SUBSET S /\ IsFiniteSet(u)
  BY FS_Subset
<1>2. IsSum(f, u, SumRecursion(f, u)) /\ IsSum(f, S, SumRecursion(f, S))
  BY <1>1, SumExists
<1>3. SumRecursion(f, S)[S] = f[ChosenOf(S)] + SumRecursion(f, S)[u]
  BY <1>2, IsSumValue
<1> HIDE DEF u
<1>4. SumRecursion(f, u)[u] = SumRecursion(f, S)[u]
  BY <1>1, <1>2, SumsAgree
<1> QED
  BY <1>3, <1>4, SumOverIsSum DEF u

\* Integers add up to an integer.
LEMMA SumType ==
    ASSUME NEW f, NEW S, IsFiniteSet(S), \A x \in S : f[x] \in Int
    PROVE  \A s \in SUBSET S : SumOver(f, s) \in Int
<1> DEFINE G == {s \in SUBSET S : SumOver(f, s) \in Int}
<1>1. ASSUME NEW s \in SUBSET S, \A t \in SUBSET s : t # s => t \in G
      PROVE  s \in G
  <2>1. CASE s = {}
    BY <2>1, SumOfNone
  <2>2. CASE s # {}
    <3>1. IsFiniteSet(s)
      BY FS_Subset
    <3>2. ChosenOf(s) \in s
      BY <2>2, ChosenIsElement
    <3>3. s \ {ChosenOf(s)} \in G
      BY <1>1, <3>2
    <3>4. SumOver(f, s) = f[ChosenOf(s)] + SumOver(f, s \ {ChosenOf(s)})
      BY <2>2, <3>1, SumOfChosen
    <3> QED
      BY <3>2, <3>3, <3>4
  <2> QED
    BY <2>1, <2>2
<1> HIDE DEF G
<1>2. SUBSET S \subseteq G
  BY <1>1, SubsetInduction
<1> QED
  BY <1>2 DEF G

\* The order does not matter: any element may be taken out first.
LEMMA SumOfOneAndOthers ==
    ASSUME NEW f, NEW S, IsFiniteSet(S), \A x \in S : f[x] \in Int
    PROVE  \A s \in SUBSET S : \A x \in s : SumOver(f, s) = f[x] + SumOver(f, s \ {x})
<1> DEFINE G == {s \in SUBSET S : \A x \in s : SumOver(f, s) = f[x] + SumOver(f, s \ {x})}
<1>1. ASSUME NEW s \in SUBSET S, \A t \in SUBSET s : t # s => t \in G
      PROVE  s \in G
  <2> SUFFICES ASSUME NEW x \in s PROVE SumOver(f, s) = f[x] + SumOver(f, s \ {x})
    OBVIOUS
  <2>1. CASE x = ChosenOf(s)
    BY <2>1, FS_Subset, SumOfChosen
  <2>2. CASE x # ChosenOf(s)
    <3> DEFINE c == ChosenOf(s)
    <3>1. c \in s /\ IsFiniteSet(s)
      BY ChosenIsElement, FS_Subset
    <3>2. SumOver(f, s) = f[c] + SumOver(f, s \ {c})
      BY <3>1, SumOfChosen
    <3> HIDE DEF c
    <3>3. s \ {c} \in G /\ s \ {x} \in G /\ x \in s \ {c} /\ c \in s \ {x}
      BY <1>1, <2>2, <3>1 DEF c
    <3>4. SumOver(f, s \ {c}) = f[x] + SumOver(f, (s \ {c}) \ {x})
      BY <3>3
    <3>5. SumOver(f, s \ {x}) = f[c] + SumOver(f, (s \ {x}) \ {c})
      BY <3>3
    <3>6. (s \ {c}) \ {x} = (s \ {x}) \ {c}
      OBVIOUS
    <3>7. SumOver(f, (s \ {x}) \ {c}) \in Int /\ f[x] \in Int /\ f[c] \in Int
      BY <3>1, SumType
    <3>8. SumOver(f, s) = f[c] + (f[x] + SumOver(f, (s \ {x}) \ {c}))
      BY <3>2, <3>4, <3>6
    <3>9. \A k, l, m \in Int : k + (l + m) = l + (k + m)
      OBVIOUS
    <3> QED
      BY <3>5, <3>7, <3>8, <3>9
  <2> QED
    BY <2>1, <2>2
<1> HIDE DEF G
<1>2. SUBSET S \subseteq G
  BY <1>1, SubsetInduction
<1> QED
  BY <1>2 DEF G

\* One element more.
LEMMA SumOfOneMore ==
    ASSUME NEW f, NEW S, IsFiniteSet(S), NEW x, x \notin S, \A y \in S \cup {x} : f[y] \in Int
    PROVE  SumOver(f, S \cup {x}) = SumOver(f, S) + f[x]
<1> DEFINE T == S \cup {x}
<1>1. IsFiniteSet(T) /\ T \in SUBSET T /\ x \in T /\ T \ {x} = S /\ S \in SUBSET T
  BY FS_AddElement
<1> HIDE DEF T
<1>2. \A y \in T : f[y] \in Int
  BY DEF T
<1>3. SumOver(f, T) = f[x] + SumOver(f, S)
  BY <1>1, <1>2, SumOfOneAndOthers
<1>4. SumOver(f, S) \in Int /\ f[x] \in Int
  BY <1>1, <1>2, SumType
<1> QED
  BY <1>3, <1>4 DEF T

\* Only the values on the set count.
LEMMA SumOfSame ==
    ASSUME NEW f, NEW g, NEW S, IsFiniteSet(S), \A x \in S : f[x] = g[x]
    PROVE  \A s \in SUBSET S : SumOver(f, s) = SumOver(g, s)
<1> DEFINE G == {s \in SUBSET S : SumOver(f, s) = SumOver(g, s)}
<1>1. ASSUME NEW s \in SUBSET S, \A t \in SUBSET s : t # s => t \in G
      PROVE  s \in G
  <2>1. CASE s = {}
    BY <2>1, SumOfNone
  <2>2. CASE s # {}
    <3>1. ChosenOf(s) \in s /\ IsFiniteSet(s)
      BY <2>2, ChosenIsElement, FS_Subset
    <3>2. s \ {ChosenOf(s)} \in G
      BY <1>1, <3>1
    <3> QED
      BY <2>2, <3>1, <3>2, SumOfChosen
  <2> QED
    BY <2>1, <2>2
<1> HIDE DEF G
<1>2. SUBSET S \subseteq G
  BY <1>1, SubsetInduction
<1> QED
  BY <1>2 DEF G

\* Two sets without a common element.
LEMMA SumOfUnion ==
    ASSUME NEW f, NEW S, IsFiniteSet(S), NEW T, IsFiniteSet(T), S \cap T = {},
           \A x \in S \cup T : f[x] \in Int
    PROVE  SumOver(f, S \cup T) = SumOver(f, S) + SumOver(f, T)
<1> DEFINE G == {t \in SUBSET T : SumOver(f, S \cup t) = SumOver(f, S) + SumOver(f, t)}
<1>1. ASSUME NEW t \in SUBSET T, \A u \in SUBSET t : u # t => u \in G
      PROVE  t \in G
  <2>1. CASE t = {}
    <3>1. S \cup t = S /\ SumOver(f, t) = 0
      BY <2>1, SumOfNone
    <3>2. SumOver(f, S) \in Int
      BY SumType
    <3>3. SumOver(f, S \cup t) = SumOver(f, S)
      BY <3>1
    <3>4. SumOver(f, S) = SumOver(f, S) + 0
      BY <3>2
    <3> QED
      BY <3>1, <3>3, <3>4
  <2>2. CASE t # {}
    <3> DEFINE x == ChosenOf(t)
               u == t \ {x}
    <3>1. x \in t
      BY <2>2, ChosenIsElement
    <3> HIDE DEF x
    <3>2. u \in G /\ t = u \cup {x} /\ S \cup t = (S \cup u) \cup {x} /\ x \notin u /\ x \notin S
      BY <1>1, <3>1
    <3>3. IsFiniteSet(u) /\ IsFiniteSet(S \cup u)
      BY FS_Subset, FS_Union
    <3> HIDE DEF u
    <3>4. SumOver(f, S \cup t) = SumOver(f, S \cup u) + f[x]
      BY <3>1, <3>2, <3>3, SumOfOneMore
    <3>5. SumOver(f, t) = SumOver(f, u) + f[x]
      BY <3>1, <3>2, <3>3, SumOfOneMore
    <3>6. u \subseteq T
      BY DEF u
    <3>7. SumOver(f, u) \in Int /\ SumOver(f, S) \in Int /\ f[x] \in Int
      BY <3>1, <3>3, <3>6, SumType
    <3>8. SumOver(f, S \cup u) = SumOver(f, S) + SumOver(f, u)
      BY <3>2
    <3>9. SumOver(f, S \cup t) = SumOver(f, S) + SumOver(f, t)
      BY <3>4, <3>5, <3>7, <3>8
    <3> QED
      BY <3>9
  <2> QED
    BY <2>1, <2>2
<1> HIDE DEF G
<1>2. SUBSET T \subseteq G
  BY <1>1, SubsetInduction
<1> QED
  BY <1>2 DEF G

---------------------------------------------------------------------------
(* Units of movements *)

QuantityOf == [m \in Movement |-> m.quantity]
IsUnits(S, g) ==
    g = [s \in SUBSET S |-> IF s = {} THEN 0 ELSE ChosenOf(s).quantity + g[s \ {ChosenOf(s)}]]
UnitsFunction(S) == CHOOSE g : IsUnits(S, g)

\* Units is the value of a recursive function on the sets of movements.
LEMMA UnitsIsFunction == ASSUME NEW S PROVE Units(S) = UnitsFunction(S)[S]
BY DEF Units, MapThenSumSet, MapThenFoldSet, UnitsFunction, IsUnits, ChosenOf

\* The units of some movements are the sum of their quantities.
LEMMA UnitsIsSum ==
    ASSUME NEW S \in SUBSET Movement, IsFiniteSet(S)
    PROVE  Units(S) = SumOver(QuantityOf, S)
<1>1. \A s \in SUBSET S : s # {} => QuantityOf[ChosenOf(s)] = ChosenOf(s).quantity
  BY ChosenIsElement DEF QuantityOf
<1>2. ASSUME NEW g PROVE IsUnits(S, g) <=> IsSum(QuantityOf, S, g)
  <2>1. [s \in SUBSET S |-> IF s = {} THEN 0 ELSE ChosenOf(s).quantity + g[s \ {ChosenOf(s)}]] =
        [s \in SUBSET S |->
            IF s = {} THEN 0 ELSE QuantityOf[ChosenOf(s)] + g[s \ {ChosenOf(s)}]]
    BY <1>1
  <2> QED
    BY <2>1, Zenon DEF IsUnits, IsSum
<1>3. IsSum(QuantityOf, S, SumRecursion(QuantityOf, S))
  BY SumExists
<1>4. IsUnits(S, UnitsFunction(S))
  BY <1>2, <1>3 DEF UnitsFunction
<1>5. UnitsFunction(S)[S] = SumRecursion(QuantityOf, S)[S]
  BY <1>2, <1>3, <1>4, SumsAgree
<1> QED
  BY <1>5, UnitsIsFunction, SumOverIsSum

\* No movement, one more, and two sets without a common movement.
LEMMA UnitsOfNone == Units({}) = 0
BY UnitsIsSum, SumOfNone, FS_EmptySet

\* The units of finitely many movements are an integer.
LEMMA UnitsType == ASSUME NEW S \in SUBSET Movement, IsFiniteSet(S) PROVE Units(S) \in Int
<1>1. \A m \in S : QuantityOf[m] \in Int
  BY DEF QuantityOf, Movement
<1> QED
  BY <1>1, UnitsIsSum, SumType

\* One more movement adds its quantity to the units.
LEMMA UnitsOfOneMore ==
    ASSUME NEW S \in SUBSET Movement, IsFiniteSet(S), NEW m \in Movement, m \notin S
    PROVE  Units(S \cup {m}) = Units(S) + m.quantity
<1>1. \A n \in S \cup {m} : QuantityOf[n] \in Int
  BY DEF QuantityOf, Movement
<1>2. IsFiniteSet(S \cup {m}) /\ S \cup {m} \in SUBSET Movement
  BY FS_AddElement
<1>3. SumOver(QuantityOf, S \cup {m}) = SumOver(QuantityOf, S) + QuantityOf[m]
  BY <1>1, SumOfOneMore
<1> QED
  BY <1>2, <1>3, UnitsIsSum DEF QuantityOf

\* The units of two disjoint sets of movements add up.
LEMMA UnitsOfUnion ==
    ASSUME NEW S \in SUBSET Movement, IsFiniteSet(S), NEW T \in SUBSET Movement, IsFiniteSet(T),
           S \cap T = {}
    PROVE  Units(S \cup T) = Units(S) + Units(T)
<1>1. \A n \in S \cup T : QuantityOf[n] \in Int
  BY DEF QuantityOf, Movement
<1>2. IsFiniteSet(S \cup T) /\ S \cup T \in SUBSET Movement
  BY FS_Union
<1>3. SumOver(QuantityOf, S \cup T) = SumOver(QuantityOf, S) + SumOver(QuantityOf, T)
  BY <1>1, SumOfUnion
<1> QED
  BY <1>2, <1>3, UnitsIsSum

---------------------------------------------------------------------------
(* The rows and the logs *)

Of(set, p) == {m \in set : m.product = p}

\* A row that request r holds differs from the committed row by what r logged about it,
\* and nothing of it is in the table before r is done.
HeldBalance(r, log) ==
    \A p \in Products : lock[p] = r => draft[p].stock = product[p].stock + Units(Of(log, p))
Balanced(r, state) ==
    /\ IsFiniteSet(state.log)
    /\ \A m \in state.log : m.line < state.line
    /\ state.pc # "done" => HeldBalance(r, state.log) /\ \A m \in movements : m.by # r

\* What a step of request r may lock.
Takes(r) == \A p \in Products : lock'[p] \in {lock[p], r, NoOne}

\* The stock of a product is the sum of its movements.
MovedAt(p) == IsFiniteSet(Of(movements, p)) /\ product[p].stock = Units(Of(movements, p))

\* The movements of a product are finitely many.
LEMMA OfFinite ==
    ASSUME NEW log \in SUBSET Movement, IsFiniteSet(log), NEW p
    PROVE  IsFiniteSet(Of(log, p)) /\ Of(log, p) \in SUBSET Movement
BY FS_Subset DEF Of

\* Another request's step keeps the balance.
LEMMA BalancedFrame ==
    ASSUME NEW r, Moves(r), Takes(r), NEW q \in Requests, q # r, NEW state, Balanced(q, state),
           \A m \in movements' \ movements : m.by = r
    PROVE  state.pc # "done" =>
             /\ \A p \in Products :
                  lock'[p] = q => draft'[p].stock = product'[p].stock + Units(Of(state.log, p))
             /\ \A m \in movements' : m.by # q
<1>1. q # NoOne
  BY NoOneAssumption
<1>2. \A p \in Products :
        lock'[p] = q => lock[p] = q /\ product'[p] = product[p] /\ draft'[p] = draft[p]
  BY <1>1 DEF Moves, Takes
<1>3. state.pc # "done" => HeldBalance(q, state.log) /\ \A m \in movements : m.by # q
  BY DEF Balanced
<1> QED
  BY <1>2, <1>3 DEF HeldBalance

\* A statement that writes a row and logs it.
LEMMA StageBalance ==
    ASSUME RowsInv, NEW r \in Requests, NEW p \in Products, NEW row \in Row,
           NEW log \in SUBSET Movement, IsFiniteSet(log), NEW m \in Movement, m \notin log,
           m.product = p, \A n \in log : lock[n.product] = r, HeldBalance(r, log),
           Stage(r, p, row), UNCHANGED product, row.stock = Visible(r, p).stock + m.quantity
    PROVE  /\ \A q \in Products :
                lock'[q] = r => draft'[q].stock = product'[q].stock + Units(Of(log \cup {m}, q))
           /\ Takes(r)
<1>1. /\ lock \in [Products -> Requests \cup {NoOne}] /\ draft \in [Products -> Row]
      /\ product \in [Products -> Row]
  BY DEF RowsInv, RowsTypeOK
<1>2. /\ lock' = [lock EXCEPT ![p] = r]
      /\ draft' = [draft EXCEPT ![p] = [row EXCEPT !.writer = r]]
  BY DEF Stage
<1>3. draft'[p].stock = row.stock
  BY <1>1, <1>2 DEF Row
<1>4. Of(log \cup {m}, p) = Of(log, p) \cup {m} /\ m \notin Of(log, p)
  BY DEF Of
<1>5. Units(Of(log \cup {m}, p)) = Units(Of(log, p)) + m.quantity
  BY <1>4, OfFinite, UnitsOfOneMore
<1>6. Visible(r, p).stock = product[p].stock + Units(Of(log, p))
  <2>1. CASE lock[p] = r
    BY <2>1 DEF Visible, HeldBalance
  <2>2. CASE lock[p] # r
    <3>1. Of(log, p) = {}
      BY <2>2 DEF Of
    <3>2. Units(Of(log, p)) = 0
      BY <3>1, UnitsOfNone
    <3>3. product[p].stock \in Int
      BY <1>1 DEF Row
    <3> QED
      BY <2>2, <3>2, <3>3 DEF Visible
  <2> QED
    BY <2>1, <2>2
<1>7. product[p].stock \in Int /\ Units(Of(log, p)) \in Int /\ m.quantity \in Int
  BY <1>1, OfFinite, UnitsType DEF Row, Movement
<1>8. draft'[p].stock = product[p].stock + Units(Of(log \cup {m}, p))
  BY <1>3, <1>5, <1>6, <1>7
<1>9. \A q \in Products : q # p => Of(log \cup {m}, q) = Of(log, q)
  BY DEF Of
<1>10. \A q \in Products : q # p => lock'[q] = lock[q] /\ draft'[q] = draft[q]
  BY <1>1, <1>2
<1>11. Takes(r)
  BY <1>1, <1>2 DEF Takes
<1> QED
  BY <1>8, <1>9, <1>10, <1>11 DEF HeldBalance

\* A commit keeps the stock equal to the movements.
LEMMA CommitMoved ==
    ASSUME RowsInv, NEW r \in Requests, NEW log \in SUBSET Movement, IsFiniteSet(log),
           CommitRows(r), movements' = movements \cup log, \A n \in log : lock[n.product] = r,
           \A n \in log : n \notin movements, HeldBalance(r, log)
    PROVE  Takes(r) /\ \A p \in Products : MovedAt(p) => MovedAt(p)'
<1>1. /\ lock \in [Products -> Requests \cup {NoOne}] /\ movements \in SUBSET Movement
      /\ product \in [Products -> Row]
  BY DEF RowsInv, RowsTypeOK
<1>2. \A p \in Products : /\ product'[p] = IF lock[p] = r THEN draft[p] ELSE product[p]
                          /\ lock'[p] = IF lock[p] = r THEN NoOne ELSE lock[p]
  BY DEF CommitRows
<1>3. ASSUME NEW p \in Products, MovedAt(p)
      PROVE  MovedAt(p)'
  <2> DEFINE old == Of(movements, p)
             new == Of(log, p)
  <2>1. IsFiniteSet(old) /\ product[p].stock = Units(old)
    BY <1>3 DEF MovedAt
  <2>2. IsFiniteSet(new) /\ new \in SUBSET Movement /\ old \in SUBSET Movement
    BY <1>1, OfFinite DEF Of
  <2>3. Of(movements', p) = old \cup new /\ old \cap new = {}
    BY DEF Of
  <2> HIDE DEF old, new
  <2>4. IsFiniteSet(old \cup new) /\ Units(old \cup new) = Units(old) + Units(new)
    BY <2>1, <2>2, <2>3, UnitsOfUnion, FS_Union
  <2>5. product'[p].stock = Units(old \cup new)
    <3>1. CASE lock[p] = r
      <4>1. product'[p].stock = product[p].stock + Units(new)
        BY <1>2, <3>1 DEF HeldBalance, new
      <4> QED
        BY <2>1, <2>4, <4>1
    <3>2. CASE lock[p] # r
      <4>1. new = {}
        BY <3>2 DEF new, Of
      <4> QED
        BY <1>2, <2>1, <3>2, <4>1
    <3> QED
      BY <3>1, <3>2
  <2> QED
    BY <2>3, <2>4, <2>5 DEF MovedAt
<1>4. Takes(r)
  BY <1>2 DEF Takes
<1> QED
  BY <1>3, <1>4

\* A checkout takes rows and logs movements in step with each other.
LEMMA CheckoutBalance ==
    ASSUME IInv, StockInv, NEW c \in Checkouts, CheckoutStep(c), Balanced(c, checkout[c])
    PROVE  Balanced(c, checkout[c])' /\ Takes(c) /\ \A p \in Products : MovedAt(p) => MovedAt(p)'
<1>1. /\ checkout \in [Checkouts -> CheckoutState] /\ c \in Requests /\ RowsInv
      /\ lock \in [Products -> Requests \cup {NoOne}]
      /\ CheckoutLogged(c)
  BY SalesAssumption DEF IInv, SalesInv, SalesTypeOK, RowsInv, RowsTypeOK, StockInv
<1>2. checkout[c] \in CheckoutState
  BY <1>1
<1>3. /\ checkout[c].log \in SUBSET Movement /\ IsFiniteSet(checkout[c].log)
      /\ checkout[c].line \in Nat \ {0} /\ checkout[c].items \in Items
      /\ \A m \in checkout[c].log : m.line < checkout[c].line /\ m.by = c
  BY <1>1, <1>2 DEF CheckoutState, Balanced, CheckoutLogged, Logged
<1>4. CASE CheckoutRead(c) \/ CheckoutBegin(c) \/ NextNumber(c)
  <2>1. /\ checkout'[c].log = checkout[c].log /\ checkout'[c].line = checkout[c].line
        /\ checkout[c].pc # "done"
        /\ UNCHANGED rowVars
    <3>1. CASE CheckoutRead(c)
      BY <1>1, <1>2, <3>1 DEF CheckoutRead, CheckoutState
    <3>2. CASE CheckoutBegin(c)
      BY <1>1, <1>2, <3>2 DEF CheckoutBegin, CheckoutState
    <3>3. CASE NextNumber(c)
      BY <1>1, <1>2, <3>3 DEF NextNumber, CheckoutState
    <3> QED
      BY <1>4, <3>1, <3>2, <3>3
  <2> QED
    BY <2>1 DEF Balanced, HeldBalance, Takes, MovedAt, rowVars
<1>5. CASE CheckoutItem(c)
  <2> DEFINE p == Item(c).product
             quantity == Item(c).quantity
             row == [Visible(c, p) EXCEPT !.stock = Visible(c, p).stock - quantity]
             moved == SaleMovement(c, checkout[c].line, p, "SALE", -quantity,
                                   Visible(c, p).stock, c)
  <2>1. p \in Products /\ quantity \in Nat \ {0}
    BY <1>3, <1>5, ItemAt DEF CheckoutItem, ItemsLeft, Item
  <2>2. Visible(c, p) \in Row
    BY <1>1, <2>1, VisibleRow
  <2>3. row \in Row /\ row.stock = Visible(c, p).stock + -quantity
    BY <2>1, <2>2 DEF Row
  <2>4. moved \in Movement
    BY <1>1, <1>3, <2>1, <2>2 DEF SaleMovement, Movement, MovementTypes, Row
  <2>5. moved.product = p /\ moved.quantity = -quantity /\ moved.line = checkout[c].line
    BY DEF SaleMovement
  <2>6. Stage(c, p, row) /\ UNCHANGED <<product, movements>> /\ checkout[c].pc = "items"
    BY <1>5 DEF CheckoutItem
  <2>7. /\ checkout'[c].log = checkout[c].log \cup {moved}
        /\ checkout'[c].line = checkout[c].line + 1 /\ checkout'[c].pc = "items"
    BY <1>1, <1>2, <1>5 DEF CheckoutItem, CheckoutState
  <2> HIDE DEF moved, row, p, quantity
  <2>8. moved \notin checkout[c].log
    BY <1>3, <2>5
  <2>9. /\ \A n \in checkout[c].log : lock[n.product] = c
        /\ HeldBalance(c, checkout[c].log) /\ \A m \in movements : m.by # c
    BY <1>1, <2>6 DEF CheckoutLogged, Logged, Balanced
  <2>10. /\ \A q \in Products : lock'[q] = c =>
              draft'[q].stock = product'[q].stock + Units(Of(checkout[c].log \cup {moved}, q))
         /\ Takes(c)
    BY <1>1, <1>3, <2>1, <2>3, <2>4, <2>5, <2>6, <2>8, <2>9, StageBalance
  <2>11. IsFiniteSet(checkout'[c].log)
    BY <1>3, <2>7, FS_AddElement
  <2>12. \A m \in checkout'[c].log : m.line < checkout'[c].line
    BY <1>3, <2>5, <2>7 DEF Movement
  <2> QED
    BY <2>6, <2>7, <2>9, <2>10, <2>11, <2>12 DEF Balanced, HeldBalance, MovedAt
<1>6. CASE CheckoutCommit(c)
  <2>1. /\ CommitRows(c) /\ movements' = movements \cup checkout[c].log /\ checkout[c].pc = "items"
        /\ checkout'[c].log = checkout[c].log /\ checkout'[c].line = checkout[c].line
        /\ checkout'[c].pc = "done"
    BY <1>1, <1>2, <1>6 DEF CheckoutCommit, CheckoutState
  <2>2. /\ \A n \in checkout[c].log : lock[n.product] = c /\ n \notin movements
        /\ HeldBalance(c, checkout[c].log)
    BY <1>1, <1>3, <2>1 DEF CheckoutLogged, Logged, Balanced
  <2>3. Takes(c) /\ \A p \in Products : MovedAt(p) => MovedAt(p)'
    BY <1>1, <1>3, <2>1, <2>2, CommitMoved
  <2> QED
    BY <1>3, <2>1, <2>3 DEF Balanced
<1>7. CASE CheckoutAbort(c)
  <2>1. /\ RollbackRows(c) /\ UNCHANGED movements /\ checkout[c].pc # "done"
        /\ checkout'[c].log = {} /\ c # NoOne
    BY <1>1, <1>2, <1>7, NoOneAssumption DEF CheckoutAbort, CheckoutFails, CheckoutState
  <2>2. Takes(c) /\ product' = product /\ \A p \in Products : lock'[p] # c
    BY <2>1 DEF RollbackRows, Takes
  <2> QED
    BY <2>1, <2>2, FS_EmptySet DEF Balanced, HeldBalance, MovedAt
<1> QED
  BY <1>4, <1>5, <1>6, <1>7 DEF CheckoutStep

\* A receipt does too.
LEMMA ReceiptBalance ==
    ASSUME IInv, StockInv, NEW r \in Receipts, ReceiptStep(r), Balanced(r, receipt[r])
    PROVE  Balanced(r, receipt[r])' /\ Takes(r) /\ \A p \in Products : MovedAt(p) => MovedAt(p)'
<1>1. /\ receipt \in [Receipts -> ReceiptState] /\ r \in Requests /\ RowsInv
      /\ lock \in [Products -> Requests \cup {NoOne}]
      /\ ReceiptLogged(r)
  BY OrdersAssumption DEF IInv, OrdersInv, OrdersTypeOK, RowsInv, RowsTypeOK, StockInv
<1>2. receipt[r] \in ReceiptState
  BY <1>1
<1>3. /\ receipt[r].log \in SUBSET Movement /\ IsFiniteSet(receipt[r].log)
      /\ receipt[r].line \in Nat \ {0}
      /\ \A m \in receipt[r].log : m.line < receipt[r].line /\ m.by = r
  BY <1>1, <1>2 DEF ReceiptState, Balanced, ReceiptLogged, Logged
<1>4. CASE ReceiveRead(r) \/ ReceiveItem(r) \/ ReceiveProduct(r) \/ ReceiveRefresh(r)
  <2>1. /\ receipt'[r].log = receipt[r].log /\ receipt'[r].line = receipt[r].line
        /\ receipt[r].pc # "done"
        /\ UNCHANGED rowVars
    <3>1. CASE ReceiveRead(r)
      BY <1>1, <1>2, <3>1 DEF ReceiveRead, ReceiptState
    <3>2. CASE ReceiveItem(r)
      BY <1>1, <1>2, <3>2 DEF ReceiveItem, ReceiptState
    <3>3. CASE ReceiveProduct(r)
      BY <1>1, <1>2, <3>3 DEF ReceiveProduct, ReceiptState
    <3>4. CASE ReceiveRefresh(r)
      BY <1>1, <1>2, <3>4 DEF ReceiveRefresh, ReceiptState
    <3> QED
      BY <1>4, <3>1, <3>2, <3>3, <3>4
  <2> QED
    BY <2>1 DEF Balanced, HeldBalance, Takes, MovedAt, rowVars
<1>5. CASE ReceiveWrite(r)
  <2> DEFINE p == ItemRow(Received(r).item).product
             quantity == Received(r).quantity
             row == Restocked(r, Visible(r, p))
             moved == [by |-> r, line |-> receipt[r].line, product |-> p, type |-> "PURCHASE",
                       quantity |-> quantity, previousStock |-> receipt[r].previousStock,
                       newStock |-> receipt[r].previousStock + quantity, sale |-> NoOne]
  <2>1. p \in Products /\ Stage(r, p, row) /\ UNCHANGED <<product, movements>> /\ row \in Row
    BY <1>5, ReceiptWrites
  <2>2. quantity \in Nat \ {0} /\ receipt[r].pc = "write"
    BY <1>5, ReceivedLine DEF ReceiveWrite, IInv, OrdersInv, ReceiptsLinked
  <2>3. Visible(r, p) \in Row
    BY <1>1, <2>1, VisibleRow
  <2>4. row.stock = Visible(r, p).stock + quantity
    BY <2>3 DEF Restocked, Row
  <2>5. moved \in Movement
    BY <1>1, <1>2, <1>3, <2>1, <2>2 DEF Movement, MovementTypes, ReceiptState
  <2>6. moved.product = p /\ moved.quantity = quantity /\ moved.line = receipt[r].line
    OBVIOUS
  <2>7. receipt' = [receipt EXCEPT ![r] =
          [@ EXCEPT !.pc = "item",
                    !.line = receipt[r].line + 1,
                    !.log = receipt[r].log \cup {moved}]]
    BY <1>5 DEF ReceiveWrite
  <2> HIDE DEF moved, row, p, quantity
  <2>8. /\ receipt'[r].log = receipt[r].log \cup {moved}
        /\ receipt'[r].line = receipt[r].line + 1 /\ receipt'[r].pc = "item"
    BY <1>1, <1>2, <2>7 DEF ReceiptState
  <2>9. moved \notin receipt[r].log
    BY <1>3, <2>6
  <2>10. /\ \A n \in receipt[r].log : lock[n.product] = r
         /\ HeldBalance(r, receipt[r].log) /\ \A m \in movements : m.by # r
    BY <1>1, <2>2 DEF ReceiptLogged, Logged, Balanced
  <2>11. /\ \A q \in Products : lock'[q] = r =>
              draft'[q].stock = product'[q].stock + Units(Of(receipt[r].log \cup {moved}, q))
         /\ Takes(r)
    BY <1>1, <1>3, <2>1, <2>4, <2>5, <2>6, <2>9, <2>10, StageBalance
  <2>12. IsFiniteSet(receipt'[r].log)
    BY <1>3, <2>8, FS_AddElement
  <2>13. \A m \in receipt'[r].log : m.line < receipt'[r].line
    BY <1>3, <2>6, <2>8 DEF Movement
  <2> QED
    BY <2>1, <2>8, <2>10, <2>11, <2>12, <2>13 DEF Balanced, HeldBalance, MovedAt
<1>6. CASE ReceiveCommit(r)
  <2>1. /\ CommitRows(r) /\ movements' = movements \cup receipt[r].log /\ receipt[r].pc = "status"
        /\ receipt'[r].log = receipt[r].log /\ receipt'[r].line = receipt[r].line
        /\ receipt'[r].pc = "done"
    BY <1>1, <1>2, <1>6 DEF ReceiveCommit, ReceiptState
  <2>2. /\ \A n \in receipt[r].log : lock[n.product] = r /\ n \notin movements
        /\ HeldBalance(r, receipt[r].log)
    BY <1>1, <1>3, <2>1 DEF ReceiptLogged, Logged, Balanced
  <2>3. Takes(r) /\ \A p \in Products : MovedAt(p) => MovedAt(p)'
    BY <1>1, <1>3, <2>1, <2>2, CommitMoved
  <2> QED
    BY <1>3, <2>1, <2>3 DEF Balanced
<1>7. CASE ReceiveAbort(r)
  <2>1. /\ RollbackRows(r) /\ UNCHANGED movements /\ receipt[r].pc # "done"
        /\ receipt'[r].log = {} /\ r # NoOne
    BY <1>1, <1>2, <1>7, NoOneAssumption DEF ReceiveAbort, ReceiptState
  <2>2. Takes(r) /\ product' = product /\ \A p \in Products : lock'[p] # r
    BY <2>1 DEF RollbackRows, Takes
  <2> QED
    BY <2>1, <2>2, FS_EmptySet DEF Balanced, HeldBalance, MovedAt
<1> QED
  BY <1>4, <1>5, <1>6, <1>7 DEF ReceiptStep

\* A sale update takes rows for itself alone.
LEMMA SaleUpdateTakes ==
    ASSUME IInv, NEW u \in SaleUpdates, SaleUpdateStep(u)
    PROVE  Takes(u)
<1>1. lock \in [Products -> Requests \cup {NoOne}]
  BY DEF IInv, RowsInv, RowsTypeOK
<1>2. CASE UNCHANGED lock
  BY <1>2 DEF Takes
<1>3. CASE CancelWriteItem(u)
  BY <1>1, <1>3 DEF CancelWriteItem, Stage, Takes
<1>4. CASE CancelCommit(u) \/ CancelAbort(u)
  BY <1>4 DEF CancelCommit, CancelAbort, CommitRows, RollbackRows, Takes
<1> QED
  BY <1>2, <1>3, <1>4
  DEF SaleUpdateStep, SaleUpdateRead, CancelReadItem, ReturnPartial, rowVars

\* A catalog request leaves no row locked.
LEMMA ProductStepTakes ==
    ASSUME NEW r, ProductStep(r, OrderedProducts)
    PROVE  Takes(r)
<1>1. UNCHANGED lock
  BY DEF ProductStep, CreateInsert, CreateMovement, UpdateRead, UpdateWrite, UpdateConflict,
         UpdateReread, UpdateMovement, DeactivateRead, ReactivateRead, RemoveRead, Read, SetActive,
         RemoveWrite, Interrupted, WriteNow, rowVars
<1> QED
  BY <1>1 DEF Takes

---------------------------------------------------------------------------
(* The ledger *)

\* Nobody set the stock of p but with its movement: no cancellation gave units of p back, and no
\* edit that wrote p carried a stock.
Undisturbed(p) ==
    /\ \A u \in SaleUpdates : saleUpdate[u].pc = "done" =>
           \A m \in saleUpdate[u].log : m.product # p
    /\ \A r \in ProductRequests : productRequest[r].wrote /\ Target(r) = p =>
           productRequest[r].dto.stock = Keep

\* A product of the opening never becomes one to insert, and without a stock to insert one with,
\* there are no others.
OpeningStays ==
    /\ \A p \in DOMAIN OpeningStock : product[p].life # "absent"
    /\ Stocks = {} => \A p \in Products \ DOMAIN OpeningStock : product[p].life = "absent"

\* A creation works on no product of the opening, and an edit only moves what it wrote.
RequestsKnown ==
    \A r \in ProductRequests :
        /\ At(r, "created") => Target(r) \notin DOMAIN OpeningStock
        /\ At(r, "reread") \/ At(r, "movement") => productRequest[r].wrote

\* A sale update logged whatever it holds.
HeldLogged(u) == \A p \in Products : lock[p] = u => \E m \in saleUpdate[u].log : m.product = p

LedgerInv ==
    /\ \A c \in Checkouts : Balanced(c, checkout[c])
    /\ \A r \in Receipts : Balanced(r, receipt[r])
    /\ \A u \in SaleUpdates : HeldLogged(u)
    /\ OpeningStays
    /\ RequestsKnown
    /\ \A p \in DOMAIN OpeningStock : Undisturbed(p) => MovedAt(p)

\* No product is inserted, and none that was inserted is any more to insert.
LivesOn == \A p \in Products : product'[p].life = "absent" <=> product[p].life = "absent"

\* A commit of rows the request holds, which are live, makes no product appear.
LEMMA CommitLivesOn ==
    ASSUME HeldRowsLive, NEW r \in Requests, CommitRows(r)
    PROVE  LivesOn
<1>1. r # NoOne
  BY NoOneAssumption
<1> QED
  BY <1>1 DEF HeldRowsLive, CommitRows, LivesOn, Live

\* As long as no product appears, those that exist are those of the opening.
LEMMA OpeningFrame == ASSUME OpeningStays, LivesOn PROVE OpeningStays'
BY InventoryAssumption DEF OpeningStays, LivesOn

\* A sale makes no product appear.
LEMMA SellLivesOn == ASSUME IInv, StockInv, Sell PROVE LivesOn
<1>1. HeldRowsLive
  BY DEF StockInv, RowsKept
<1>2. CASE product' = product
  BY <1>2 DEF LivesOn
<1>3. ASSUME NEW c \in Checkouts, CheckoutStep(c) PROVE LivesOn
  <2>1. CASE CheckoutCommit(c)
    BY <1>1, <2>1, CommitLivesOn, SalesAssumption DEF CheckoutCommit
  <2> QED
    BY <1>2, <1>3, <2>1 DEF CheckoutStep, CheckoutRead, CheckoutBegin, NextNumber, CheckoutItem,
                            CheckoutAbort, RollbackRows, rowVars
<1>4. ASSUME NEW u \in SaleUpdates, SaleUpdateStep(u) PROVE LivesOn
  <2>1. CASE CancelCommit(u)
    BY <1>1, <2>1, CommitLivesOn, SalesAssumption DEF CancelCommit
  <2> QED
    BY <1>2, <1>4, <2>1 DEF SaleUpdateStep, SaleUpdateRead, CancelReadItem, CancelWriteItem,
                            CancelAbort, ReturnPartial, RollbackRows, rowVars
<1> QED
  BY <1>3, <1>4 DEF Sell, SalesNext

\* A purchase order or a receipt makes no product appear.
LEMMA PurchaseLivesOn == ASSUME IInv, StockInv, Purchase PROVE LivesOn
<1>1. HeldRowsLive
  BY DEF StockInv, RowsKept
<1>2. CASE product' = product
  BY <1>2 DEF LivesOn
<1>3. ASSUME NEW r \in Receipts, ReceiptStep(r) PROVE LivesOn
  <2>1. CASE ReceiveCommit(r)
    BY <1>1, <2>1, CommitLivesOn, OrdersAssumption DEF ReceiveCommit
  <2> QED
    BY <1>2, <1>3, <2>1 DEF ReceiptStep, ReceiveRead, ReceiveItem, ReceiveProduct, ReceiveWrite,
                            ReceiveRefresh, ReceiveAbort, RollbackRows, rowVars
<1>4. \A o \in Orders : OrderStep(o) => product' = product
  BY DEF OrderStep, OrderRead, OrderBegin, OrderTakeNumber, OrderCommit, OrderAbort, rowVars
<1>5. \A x \in OrderChanges : ChangeStep(x) => product' = product
  BY DEF ChangeStep, ChangeRead, EditDelete, EditCommit, EditAbort, ChangeStatus, rowVars
<1> QED
  BY <1>2, <1>3, <1>4, <1>5 DEF Purchase, OrdersNext

\* What a cancellation holds it has logged, and a row that it writes is disturbed once it is done.
LEMMA SaleUpdateBalance ==
    ASSUME IInv, StockInv, NEW u \in SaleUpdates, SaleUpdateStep(u), HeldLogged(u)
    PROVE  /\ HeldLogged(u)'
           /\ \A p \in Products :
                MovedAt(p) =>
                  \/ MovedAt(p)'
                  \/ /\ saleUpdate'[u].pc = "done"
                     /\ \E m \in saleUpdate'[u].log : m.product = p
           /\ saleUpdate[u].pc # "done"
           /\ \A v \in SaleUpdates \ {u} : saleUpdate'[v] = saleUpdate[v]
<1>1. /\ saleUpdate \in [SaleUpdates -> SaleUpdateState] /\ u \in Requests /\ u # NoOne
      /\ lock \in [Products -> Requests \cup {NoOne}] /\ SalesInv
  BY SalesAssumption, NoOneAssumption DEF IInv, SalesInv, SalesTypeOK, RowsInv, RowsTypeOK
<1>2. saleUpdate[u] \in SaleUpdateState
  BY <1>1
<1>3. \A v \in SaleUpdates \ {u} : saleUpdate'[v] = saleUpdate[v]
  BY <1>1 DEF SaleUpdateStep, SaleUpdateRead, CancelReadItem, CancelWriteItem, CancelCommit,
              CancelAbort, ReturnPartial
<1>4. saleUpdate[u].pc # "done"
  BY DEF SaleUpdateStep, SaleUpdateRead, CancelReadItem, CancelWriteItem, CancelCommit,
         CancelAbort, ReturnPartial
<1>5. CASE SaleUpdateRead(u) \/ CancelReadItem(u) \/ ReturnPartial(u)
  <2>1. saleUpdate'[u].log = saleUpdate[u].log /\ UNCHANGED rowVars
    <3>1. CASE SaleUpdateRead(u)
      BY <1>1, <1>2, <3>1 DEF SaleUpdateRead, SaleUpdateState
    <3>2. CASE CancelReadItem(u)
      BY <1>1, <1>2, <3>2 DEF CancelReadItem, SaleUpdateState
    <3>3. CASE ReturnPartial(u)
      BY <1>1, <1>2, <3>3 DEF ReturnPartial, SaleUpdateState
    <3> QED
      BY <1>5, <3>1, <3>2, <3>3
  <2> QED
    BY <1>3, <1>4, <2>1 DEF HeldLogged, MovedAt, rowVars
<1>6. CASE CancelWriteItem(u)
  <2> DEFINE p == Returned(u).product
             moved == SaleMovement(u, saleUpdate[u].line, p, "RETURN", Returned(u).quantity,
                                   saleUpdate[u].previousStock, saleUpdate[u].sale)
  <2>1. /\ saleUpdate'[u].log = saleUpdate[u].log \cup {moved}
        /\ UNCHANGED <<product, movements>>
        /\ \E row : Stage(u, p, row)
    BY <1>1, <1>2, <1>6 DEF CancelWriteItem, SaleUpdateState
  <2>2. moved.product = p
    BY DEF SaleMovement
  <2> HIDE DEF moved, p
  <2>3. \A q \in Products : lock'[q] = u => lock[q] = u \/ q = p
    BY <1>1, <2>1 DEF Stage
  <2> QED
    BY <1>3, <1>4, <2>1, <2>2, <2>3 DEF HeldLogged, MovedAt
<1>7. CASE CancelCommit(u)
  <2>1. /\ CommitRows(u) /\ movements' = movements \cup saleUpdate[u].log
        /\ saleUpdate'[u].log = saleUpdate[u].log /\ saleUpdate'[u].pc = "done"
    BY <1>1, <1>2, <1>7 DEF CancelCommit, SaleUpdateState
  <2>2. \A p \in Products : lock'[p] # u /\ (lock[p] # u => product'[p] = product[p])
    BY <1>1, <2>1 DEF CommitRows
  <2>3. ASSUME NEW p \in Products, MovedAt(p), \A m \in saleUpdate[u].log : m.product # p
        PROVE  MovedAt(p)'
    <3>1. lock[p] # u
      BY <2>3 DEF HeldLogged
    <3>2. Of(movements, p)' = Of(movements, p)
      BY <2>1, <2>3 DEF Of
    <3> QED
      BY <2>2, <2>3, <3>1, <3>2 DEF MovedAt
  <2> QED
    BY <1>3, <1>4, <2>1, <2>2, <2>3 DEF HeldLogged
<1>8. CASE CancelAbort(u)
  <2>1. RollbackRows(u) /\ UNCHANGED movements
    BY <1>8 DEF CancelAbort
  <2>2. product' = product /\ \A p \in Products : lock'[p] # u
    BY <1>1, <2>1 DEF RollbackRows
  <2> QED
    BY <1>3, <1>4, <2>1, <2>2 DEF HeldLogged, MovedAt
<1> QED
  BY <1>5, <1>6, <1>7, <1>8 DEF SaleUpdateStep

\* A catalog request keeps to what it wrote; a product of the opening that nobody's request set the
\* stock of keeps its stock and its movements.
LEMMA EditTold ==
    ASSUME IInv, StockInv, RequestsKnown, OpeningStays, NEW r \in ProductRequests,
           ProductStep(r, OrderedProducts)
    PROVE  /\ RequestsKnown' /\ OpeningStays'
           /\ productRequest[r].wrote =>
                /\ productRequest'[r].wrote
                /\ productRequest'[r].product = productRequest[r].product
                /\ productRequest'[r].dto = productRequest[r].dto
           /\ \A p \in DOMAIN OpeningStock :
                (productRequest'[r].wrote /\ productRequest'[r].product = p
                    => productRequest'[r].dto.stock = Keep)
                => product'[p].stock = product[p].stock /\ Of(movements', p) = Of(movements, p)
<1>1. /\ productRequest \in [ProductRequests -> ProductRequestState] /\ EditVersioned(r)
      /\ product \in [Products -> Row] /\ movements \subseteq Movement
      /\ DOMAIN OpeningStock \subseteq Products
      /\ ~At(r, "new") => Target(r) \in Products
      /\ At(r, "movement") => productRequest[r].dto.stock \in Stocks
      /\ Keep \notin Stocks
  BY InventoryAssumption, CatalogAssumption
  DEF IInv, CatalogInv, CatalogTypeOK, TargetsKnown, StockInv, RowsInv, RowsTypeOK
<1>2. productRequest[r] \in ProductRequestState
  BY <1>1
<1>3. /\ At(r, "created") => Target(r) \notin DOMAIN OpeningStock
      /\ At(r, "reread") \/ At(r, "movement") => productRequest[r].wrote
      /\ \A p \in DOMAIN OpeningStock : product[p].life # "absent"
      /\ Stocks = {} => \A p \in Products \ DOMAIN OpeningStock : product[p].life = "absent"
  BY DEF RequestsKnown, OpeningStays
<1>4. ASSUME \A q \in ProductRequests \ {r} : productRequest'[q] = productRequest[q],
             productRequest'[r].pc = "created" =>
                productRequest'[r].product \notin DOMAIN OpeningStock,
             productRequest'[r].pc \in {"reread", "movement"} => productRequest'[r].wrote
      PROVE  RequestsKnown'
  BY <1>4 DEF RequestsKnown, At, Target
<1>5. LivesOn => OpeningStays'
  BY OpeningFrame
<1>6. CASE CreateInsert(r)
  <2>1. PICK p \in Products, stock \in Stocks :
          /\ product[p].life = "absent"
          /\ WriteNow(r, p, [life |-> "live", stock |-> stock, version |-> 0,
                             active |-> TRUE, writer |-> r])
          /\ productRequest' = [productRequest EXCEPT ![r] =
                [@ EXCEPT !.pc = "created", !.product = p, !.previousStock = stock]]
    BY <1>6 DEF CreateInsert
  <2>2. /\ p \notin DOMAIN OpeningStock /\ Stocks # {} /\ movements' = movements
        /\ \A q \in Products \ {p} : product'[q] = product[q]
        /\ ~productRequest[r].wrote
    BY <1>1, <1>2, <1>3, <1>6, <2>1
    DEF CreateInsert, WriteNow, EditVersioned, ProductRequestState
  <2>3. OpeningStays'
    BY <1>1, <1>3, <2>2 DEF OpeningStays
  <2>4. /\ productRequest'[r].pc = "created" /\ productRequest'[r].product = p
        /\ \A q \in ProductRequests \ {r} : productRequest'[q] = productRequest[q]
    BY <1>1, <1>2, <2>1 DEF ProductRequestState
  <2> QED
    BY <1>1, <1>4, <2>2, <2>3, <2>4 DEF Of
<1>7. CASE UpdateRead(r) \/ DeactivateRead(r) \/ ReactivateRead(r) \/ RemoveRead(r)
  <2>1. /\ At(r, "new") /\ UNCHANGED rowVars
        /\ \A q \in ProductRequests \ {r} : productRequest'[q] = productRequest[q]
    BY <1>1, <1>7 DEF UpdateRead, DeactivateRead, ReactivateRead, RemoveRead, Read
  <2>2. ~productRequest[r].wrote
    BY <1>1, <1>2, <2>1 DEF EditVersioned, ProductRequestState
  <2>3. productRequest'[r].pc \in {"update", "deactivate", "reactivate", "remove"}
    <3>1. CASE UpdateRead(r)
      BY <1>1, <1>2, <3>1 DEF UpdateRead, ProductRequestState
    <3>2. CASE DeactivateRead(r) \/ ReactivateRead(r) \/ RemoveRead(r)
      <4>1. PICK pc \in {"deactivate", "reactivate", "remove"}, p \in Products :
              productRequest' = [productRequest EXCEPT ![r] = [@ EXCEPT !.pc = pc, !.product = p]]
        BY <3>2 DEF DeactivateRead, ReactivateRead, RemoveRead, Read
      <4> QED
        BY <1>1, <1>2, <4>1 DEF ProductRequestState
    <3> QED
      BY <1>7, <3>1, <3>2
  <2> QED
    BY <1>4, <1>5, <2>1, <2>2, <2>3 DEF LivesOn, rowVars
<1>8. CASE UpdateWrite(r)
  <2> DEFINE p == Target(r)
             dto == productRequest[r].dto
  <2>1. /\ productRequest'[r].pc = "reread" /\ productRequest'[r].product = p
        /\ productRequest'[r].dto = dto /\ productRequest'[r].wrote
        /\ \A q \in ProductRequests \ {r} : productRequest'[q] = productRequest[q]
    BY <1>1, <1>2, <1>8 DEF UpdateWrite, ProductRequestState, Target
  <2>2. /\ p \in Products /\ movements' = movements
        /\ product' = [product EXCEPT ![p] = [Updated(product[p], dto) EXCEPT !.writer = r]]
    BY <1>1, <1>8 DEF UpdateWrite, WriteNow, At
  <2>3. product'[p].life = product[p].life
    BY <1>1, <2>2 DEF Updated, Row
  <2>4. dto.stock = Keep => product'[p].stock = product[p].stock
    BY <1>1, <2>2 DEF Updated, Row
  <2>5. \A q \in Products \ {p} : product'[q] = product[q]
    BY <1>1, <2>2
  <2> HIDE DEF p, dto
  <2>6. LivesOn
    BY <2>3, <2>5 DEF LivesOn
  <2>7. productRequest[r].product = p /\ productRequest[r].dto = dto
    BY DEF p, dto, Target
  <2> QED
    BY <1>1, <1>4, <1>5, <2>1, <2>2, <2>4, <2>5, <2>6, <2>7
<1>9. CASE \/ CreateMovement(r) \/ UpdateConflict(r) \/ UpdateReread(r) \/ UpdateMovement(r)
           \/ SetActive(r) \/ RemoveWrite(r, OrderedProducts) \/ Interrupted(r)
  <2>1. PICK pc \in {"done", "failed", "movement"} :
          GoTo(r, pc) /\ (pc = "movement" => At(r, "reread"))
    BY <1>9 DEF CreateMovement, UpdateConflict, UpdateReread, UpdateMovement, SetActive,
                RemoveWrite, Interrupted, RecordMovement
  <2>2. /\ productRequest'[r].pc = pc /\ productRequest'[r].wrote = productRequest[r].wrote
        /\ productRequest'[r].product = productRequest[r].product
        /\ productRequest'[r].dto = productRequest[r].dto
        /\ \A q \in ProductRequests \ {r} : productRequest'[q] = productRequest[q]
    BY <1>1, <1>2, <2>1 DEF GoTo, ProductRequestState
  <2>3. RequestsKnown'
    BY <1>3, <1>4, <2>1, <2>2
  <2>4. CASE SetActive(r) \/ RemoveWrite(r, OrderedProducts)
    <3>1. movements' = movements /\ Target(r) \in Products
      BY <1>1, <2>4 DEF SetActive, RemoveWrite, At
    <3>2. \/ product' = product
          \/ \E row \in Row : /\ WriteNow(r, Target(r), row) /\ row.life # "absent"
                              /\ row.stock = product[Target(r)].stock /\ Live(Target(r))
      <4>1. CASE SetActive(r) /\ Live(Target(r))
        <5> DEFINE row == [product[Target(r)] EXCEPT !.active = At(r, "reactivate")]
        <5>1. /\ row \in Row /\ row.stock = product[Target(r)].stock
              /\ row.life = product[Target(r)].life
          BY <1>1, <3>1 DEF Row, At
        <5>2. WriteNow(r, Target(r), row)
          BY <4>1 DEF SetActive
        <5> QED
          BY <4>1, <5>1, <5>2 DEF Live
      <4>2. CASE RemoveWrite(r, OrderedProducts) /\ product' # product
        <5> DEFINE row == [product[Target(r)] EXCEPT !.life = "deleted"]
        <5>1. row \in Row /\ row.stock = product[Target(r)].stock /\ row.life = "deleted"
          BY <1>1, <3>1 DEF Row
        <5>2. WriteNow(r, Target(r), row) /\ Live(Target(r))
          BY <4>2 DEF RemoveWrite
        <5> QED
          BY <5>1, <5>2
      <4>3. CASE SetActive(r) /\ ~Live(Target(r))
        BY <4>3 DEF SetActive
      <4> QED
        BY <2>4, <4>1, <4>2, <4>3
    <3>3. \A p \in Products : product'[p].stock = product[p].stock
      BY <1>1, <3>1, <3>2 DEF WriteNow, Row
    <3>4. LivesOn
      BY <1>1, <3>1, <3>2 DEF WriteNow, Row, LivesOn, Live
    <3> QED
      BY <1>1, <1>5, <2>2, <2>3, <3>1, <3>3, <3>4
  <2>5. CASE \/ CreateMovement(r) \/ UpdateConflict(r) \/ UpdateReread(r) \/ UpdateMovement(r)
             \/ Interrupted(r)
    <3>1. product' = product
      BY <2>5 DEF CreateMovement, UpdateConflict, UpdateReread, UpdateMovement, Interrupted, rowVars
    <3>2. LivesOn
      BY <3>1 DEF LivesOn
    <3>3. \A m \in movements' \ movements :
            m.product = Target(r) /\ (At(r, "created") \/ At(r, "movement"))
      BY <2>5 DEF CreateMovement, UpdateConflict, UpdateReread, UpdateMovement, Interrupted,
                  RecordMovement, StockMovement, rowVars
    <3>4. movements \subseteq movements'
      BY <2>5 DEF CreateMovement, UpdateConflict, UpdateReread, UpdateMovement, Interrupted,
                  RecordMovement, rowVars
    <3>5. ASSUME NEW p \in DOMAIN OpeningStock,
                 productRequest[r].wrote /\ Target(r) = p => productRequest[r].dto.stock = Keep
          PROVE  Of(movements', p) = Of(movements, p)
      <4>1. ASSUME NEW m \in movements' \ movements PROVE m.product # p
        BY <1>1, <1>3, <3>3, <3>5, <4>1
      <4> QED
        BY <3>4, <4>1 DEF Of
    <3> QED
      BY <1>5, <2>2, <2>3, <3>1, <3>2, <3>5 DEF Target
  <2> QED
    BY <1>9, <2>4, <2>5
<1> QED
  BY <1>6, <1>7, <1>8, <1>9 DEF ProductStep

\* What other requests hold stays balanced and logged.
LEMMA BalancesFrame ==
    ASSUME LedgerInv, NEW r, Moves(r), Takes(r), \A m \in movements' \ movements : m.by = r
    PROVE  /\ checkout' = checkout => \A c \in Checkouts \ {r} : Balanced(c, checkout[c])'
           /\ \A c \in Checkouts \ {r} : checkout'[c] = checkout[c] => Balanced(c, checkout[c])'
           /\ \A q \in Receipts \ {r} : receipt'[q] = receipt[q] => Balanced(q, receipt[q])'
           /\ \A u \in SaleUpdates \ {r} : saleUpdate'[u] = saleUpdate[u] => HeldLogged(u)'
<1>1. ASSUME NEW q \in Requests \ {r}, NEW state, Balanced(q, state)
      PROVE  /\ IsFiniteSet(state.log) /\ \A m \in state.log : m.line < state.line
             /\ state.pc # "done" =>
                  /\ \A p \in Products :
                       lock'[p] = q => draft'[p].stock = product'[p].stock + Units(Of(state.log, p))
                  /\ \A m \in movements' : m.by # q
  BY <1>1, BalancedFrame DEF Balanced
<1>2. ASSUME NEW c \in Checkouts \ {r}, checkout'[c] = checkout[c]
      PROVE  Balanced(c, checkout[c])'
  <2>1. c \in Requests \ {r} /\ Balanced(c, checkout[c])
    BY SalesAssumption DEF LedgerInv
  <2> QED
    BY <1>1, <1>2, <2>1 DEF Balanced, HeldBalance
<1>3. ASSUME NEW q \in Receipts \ {r}, receipt'[q] = receipt[q]
      PROVE  Balanced(q, receipt[q])'
  <2>1. q \in Requests \ {r} /\ Balanced(q, receipt[q])
    BY OrdersAssumption DEF LedgerInv
  <2> QED
    BY <1>1, <1>3, <2>1 DEF Balanced, HeldBalance
<1>4. ASSUME NEW u \in SaleUpdates \ {r}, saleUpdate'[u] = saleUpdate[u]
      PROVE  HeldLogged(u)'
  <2>1. u # NoOne /\ HeldLogged(u)
    BY SalesAssumption, NoOneAssumption DEF LedgerInv
  <2> QED
    BY <1>4, <2>1 DEF HeldLogged, Takes
<1> QED
  BY <1>2, <1>3, <1>4

\* Sales keep the invariant.
LEMMA SellLedger ==
    ASSUME IInv, StockInv, LedgerInv, Sell
    PROVE  LedgerInv'
<1>1. /\ UNCHANGED <<productRequest, orderVars>> /\ receipt' = receipt
      /\ Checkouts \cap SaleUpdates = {} /\ Receipts \cap (Checkouts \cup SaleUpdates) = {}
      /\ DOMAIN OpeningStock \subseteq Products
  BY SalesAssumption, InventoryAssumption DEF Sell, orderVars
<1>2. OpeningStays' /\ RequestsKnown'
  <2>1. OpeningStays'
    BY SellLivesOn, OpeningFrame DEF LedgerInv
  <2> QED
    BY <1>1, <2>1 DEF LedgerInv, RequestsKnown, At, Target
<1>3. ASSUME NEW c \in Checkouts, CheckoutStep(c) PROVE LedgerInv'
  <2>1. Moves(c)
    BY <1>1, <1>3, CheckoutStepKeepsRows
  <2>2. /\ \A d \in Checkouts \ {c} : checkout'[d] = checkout[d]
        /\ \A m \in movements' \ movements : m.by = c
        /\ saleUpdate' = saleUpdate
    BY <1>3, <2>1, CheckoutOwn
  <2>3. /\ Balanced(c, checkout[c])' /\ Takes(c)
        /\ \A p \in Products : MovedAt(p) => MovedAt(p)'
    BY <1>3, CheckoutBalance DEF LedgerInv
  <2>4. \A p \in Products : Undisturbed(p)' => Undisturbed(p)
    BY <1>1, <2>2 DEF Undisturbed, Target
  <2>5. /\ \A d \in Checkouts : Balanced(d, checkout[d])'
        /\ \A q \in Receipts : Balanced(q, receipt[q])'
        /\ \A u \in SaleUpdates : HeldLogged(u)'
    BY <1>1, <2>1, <2>2, <2>3, BalancesFrame
  <2> QED
    BY <1>1, <1>2, <2>3, <2>4, <2>5 DEF LedgerInv
<1>4. ASSUME NEW u \in SaleUpdates, SaleUpdateStep(u) PROVE LedgerInv'
  <2>1. Moves(u) /\ Takes(u)
    BY <1>1, <1>4, SaleUpdateStepKeepsRows, SaleUpdateTakes
  <2>2. checkout' = checkout /\ \A m \in movements' \ movements : m.by = u
    <3>1. checkout' = checkout
      BY <1>4, <2>1, SaleUpdateOwn
    <3>2. \A m \in saleUpdate[u].log : m.by = u
      BY DEF StockInv, ReturnLogged, Logged
    <3> QED
      BY <1>4, <3>1, <3>2 DEF SaleUpdateStep, SaleUpdateRead, CancelReadItem, CancelWriteItem,
                              CancelCommit, CancelAbort, ReturnPartial, rowVars
  <2>3. /\ HeldLogged(u)'
        /\ \A p \in Products :
             MovedAt(p) =>
               \/ MovedAt(p)'
               \/ /\ saleUpdate'[u].pc = "done"
                  /\ \E m \in saleUpdate'[u].log : m.product = p
        /\ saleUpdate[u].pc # "done"
        /\ \A v \in SaleUpdates \ {u} : saleUpdate'[v] = saleUpdate[v]
    BY <1>4, SaleUpdateBalance DEF LedgerInv
  <2>4. ASSUME NEW p \in DOMAIN OpeningStock, Undisturbed(p)' PROVE MovedAt(p)'
    <3>1. Undisturbed(p)
      BY <1>1, <2>3, <2>4 DEF Undisturbed, Target
    <3>2. MovedAt(p)
      BY <3>1 DEF LedgerInv
    <3> QED
      BY <1>1, <2>3, <2>4, <3>2 DEF Undisturbed
  <2>5. /\ \A d \in Checkouts : Balanced(d, checkout[d])'
        /\ \A q \in Receipts : Balanced(q, receipt[q])'
        /\ \A v \in SaleUpdates : HeldLogged(v)'
    BY <1>1, <2>1, <2>2, <2>3, BalancesFrame
  <2> QED
    BY <1>2, <2>4, <2>5 DEF LedgerInv
<1> QED
  BY <1>3, <1>4 DEF Sell, SalesNext

\* The catalog keeps the invariant.
LEMMA MaintainLedger ==
    ASSUME IInv, StockInv, LedgerInv, NEW r \in ProductRequests, Maintain(r)
    PROVE  LedgerInv'
<1>1. /\ ProductStep(r, OrderedProducts) /\ UNCHANGED <<saleVars, orderVars>>
      /\ receipt' = receipt /\ checkout' = checkout /\ saleUpdate' = saleUpdate
      /\ r \notin Checkouts \cup SaleUpdates /\ r \notin Receipts
  BY InventoryAssumption DEF Maintain, orderVars, saleVars
<1>2. Moves(r) /\ Takes(r)
  BY <1>1, ProductStepKeepsRows, ProductStepTakes
<1>3. /\ \A q \in ProductRequests \ {r} : productRequest'[q] = productRequest[q]
      /\ \A m \in movements' \ movements : m.by = r
  BY <1>1, <1>2, EditOwn
<1>4. /\ RequestsKnown' /\ OpeningStays'
      /\ productRequest[r].wrote =>
           /\ productRequest'[r].wrote
           /\ productRequest'[r].product = productRequest[r].product
           /\ productRequest'[r].dto = productRequest[r].dto
      /\ \A p \in DOMAIN OpeningStock :
           (productRequest'[r].wrote /\ productRequest'[r].product = p
               => productRequest'[r].dto.stock = Keep)
           => product'[p].stock = product[p].stock /\ Of(movements', p) = Of(movements, p)
  BY <1>1, EditTold DEF LedgerInv
<1>5. ASSUME NEW p \in DOMAIN OpeningStock, Undisturbed(p)' PROVE MovedAt(p)'
  <2>1. Undisturbed(p)
    BY <1>1, <1>3, <1>4, <1>5 DEF Undisturbed, Target
  <2>2. MovedAt(p)
    BY <2>1 DEF LedgerInv
  <2>3. product'[p].stock = product[p].stock /\ Of(movements', p) = Of(movements, p)
    <3>1. productRequest'[r].wrote /\ productRequest'[r].product = p =>
            productRequest'[r].dto.stock = Keep
      BY <1>5 DEF Undisturbed, Target
    <3> QED
      BY <1>4, <3>1
  <2> QED
    BY <2>2, <2>3 DEF MovedAt
<1>6. /\ \A d \in Checkouts : Balanced(d, checkout[d])'
      /\ \A q \in Receipts : Balanced(q, receipt[q])'
      /\ \A v \in SaleUpdates : HeldLogged(v)'
  BY <1>1, <1>2, <1>3, BalancesFrame
<1> QED
  BY <1>4, <1>5, <1>6 DEF LedgerInv

\* Purchase orders and receipts keep the invariant.
LEMMA PurchaseLedger ==
    ASSUME IInv, StockInv, LedgerInv, Purchase
    PROVE  LedgerInv'
<1>1. /\ UNCHANGED <<saleVars, productRequest>> /\ checkout' = checkout
      /\ saleUpdate' = saleUpdate /\ DOMAIN OpeningStock \subseteq Products
      /\ Receipts \cap (Checkouts \cup SaleUpdates) = {}
  BY InventoryAssumption DEF Purchase, saleVars
<1>2. OpeningStays' /\ RequestsKnown' /\ \A p \in Products : Undisturbed(p)' = Undisturbed(p)
  <2>1. OpeningStays'
    BY PurchaseLivesOn, OpeningFrame DEF LedgerInv
  <2> QED
    BY <1>1, <2>1 DEF LedgerInv, RequestsKnown, At, Target, Undisturbed
<1>3. CASE UNCHANGED <<rowVars, receipt>>
  BY <1>1, <1>2, <1>3 DEF LedgerInv, Balanced, HeldBalance, HeldLogged, MovedAt, rowVars
<1>4. ASSUME NEW r \in Receipts, ReceiptStep(r) PROVE LedgerInv'
  <2>1. Moves(r) /\ r \notin Checkouts \cup SaleUpdates
    BY <1>1, <1>4, ReceiptStepKeepsRows
  <2>2. /\ \A q \in Receipts \ {r} : receipt'[q] = receipt[q]
        /\ \A m \in movements' \ movements : m.by = r
    BY <1>4, ReceiptOwn
  <2>3. /\ Balanced(r, receipt[r])' /\ Takes(r)
        /\ \A p \in Products : MovedAt(p) => MovedAt(p)'
    BY <1>4, ReceiptBalance DEF LedgerInv
  <2>4. /\ \A d \in Checkouts : Balanced(d, checkout[d])'
        /\ \A q \in Receipts : Balanced(q, receipt[q])'
        /\ \A v \in SaleUpdates : HeldLogged(v)'
    BY <1>1, <2>1, <2>2, <2>3, BalancesFrame
  <2> QED
    BY <1>1, <1>2, <2>3, <2>4 DEF LedgerInv
<1>5. \A o \in Orders : OrderStep(o) => UNCHANGED <<rowVars, receipt>>
  BY DEF OrderStep, OrderRead, OrderBegin, OrderTakeNumber, OrderCommit, OrderAbort
<1>6. \A x \in OrderChanges : ChangeStep(x) => UNCHANGED <<rowVars, receipt>>
  BY DEF ChangeStep, ChangeRead, EditDelete, EditCommit, EditAbort, ChangeStatus
<1> QED
  BY <1>3, <1>4, <1>5, <1>6 DEF Purchase, OrdersNext

\* At first each product of the opening has its movement, and nothing else happened.
LEMMA InitLedger == Init => LedgerInv
<1> SUFFICES ASSUME Init PROVE LedgerInv
  OBVIOUS
<1>1. /\ \A p \in Products : lock[p] = NoOne /\ product[p] = OpeningRow(p)
      /\ movements = {OpeningMovement(p) : p \in DOMAIN OpeningStock}
      /\ movements \subseteq Movement /\ DOMAIN OpeningStock \subseteq Products
      /\ NoOne \notin Requests
  BY InitIInv, InventoryAssumption, NoOneAssumption DEF Init, IInv, RowsInv, RowsTypeOK
<1>2. /\ \A c \in Checkouts : /\ checkout[c].log = {} /\ checkout[c].line = 1
                              /\ c \in Requests
      /\ \A u \in SaleUpdates : saleUpdate[u].log = {} /\ u \in Requests
      /\ \A r \in Receipts : receipt[r].log = {} /\ r \in Requests
      /\ \A r \in ProductRequests : productRequest[r].pc = "new" /\ ~productRequest[r].wrote
  BY SalesAssumption, OrdersAssumption DEF Init, SalesInit, OrdersInit, CatalogInit
<1>3. \A m \in movements : m.by = NoOne
  BY <1>1 DEF OpeningMovement
<1>4. /\ \A c \in Checkouts : Balanced(c, checkout[c])
      /\ \A r \in Receipts : Balanced(r, receipt[r])
      /\ \A u \in SaleUpdates : HeldLogged(u)
  <2>1. \A u \in SaleUpdates : HeldLogged(u)
    BY <1>1, <1>2 DEF HeldLogged
  <2>2. ASSUME NEW q \in Requests, NEW state, state.log = {} PROVE Balanced(q, state)
    <3>1. HeldBalance(q, state.log)
      BY <1>1 DEF HeldBalance
    <3>2. \A m \in movements : m.by # q
      BY <1>1, <1>3
    <3> QED
      BY <2>2, <3>1, <3>2, FS_EmptySet DEF Balanced
  <2>3. \A c \in Checkouts : Balanced(c, checkout[c])
    BY <1>2, <2>2
  <2>4. \A r \in Receipts : Balanced(r, receipt[r])
    BY <1>2, <2>2
  <2> QED
    BY <2>1, <2>3, <2>4
<1>5. OpeningStays /\ RequestsKnown
  <2>1. ASSUME NEW p \in Products
        PROVE  product[p].life = IF p \in DOMAIN OpeningStock THEN "live" ELSE "absent"
    <3>1. OpeningRow(p).life = IF p \in DOMAIN OpeningStock THEN "live" ELSE "absent"
      BY DEF OpeningRow
    <3> QED
      BY <1>1, <3>1
  <2> QED
    BY <1>1, <1>2, <2>1 DEF OpeningStays, RequestsKnown, At
<1>6. ASSUME NEW p \in DOMAIN OpeningStock PROVE MovedAt(p)
  <2> DEFINE m == OpeningMovement(p)
  <2>1. /\ m \in Movement /\ m.product = p /\ m.quantity = OpeningStock[p]
        /\ m.quantity \in Int
    BY <1>1, InventoryAssumption DEF OpeningMovement, Movement, MovementTypes
  <2>2. Of(movements, p) = {m}
    BY <1>1 DEF Of, OpeningMovement
  <2>3. product[p].stock = OpeningStock[p]
    <3>1. p \in Products /\ OpeningRow(p).stock = OpeningStock[p]
      BY <1>1 DEF OpeningRow
    <3> QED
      BY <1>1, <3>1
  <2> HIDE DEF m
  <2>4. IsFiniteSet({m}) /\ {} \cup {m} = {m} /\ IsFiniteSet({}) /\ m \notin {}
    BY FS_Singleton, FS_EmptySet
  <2>5. Units({m}) = Units({}) + m.quantity
    <3>1. {} \in SUBSET Movement
      OBVIOUS
    <3>2. Units({} \cup {m}) = Units({}) + m.quantity
      BY <2>1, <2>4, <3>1, UnitsOfOneMore
    <3> QED
      BY <2>4, <3>2
  <2>6. Units({m}) = m.quantity
    BY <2>1, <2>5, UnitsOfNone
  <2> QED
    BY <2>1, <2>2, <2>3, <2>4, <2>6 DEF MovedAt
<1> QED
  BY <1>4, <1>5, <1>6 DEF LedgerInv

\* Every step keeps the invariant.
LEMMA NextLedger == IInv /\ StockInv /\ LedgerInv /\ [Next]_vars => LedgerInv'
<1> SUFFICES ASSUME IInv, StockInv, LedgerInv, [Next]_vars PROVE LedgerInv'
  OBVIOUS
<1>1. CASE UNCHANGED vars
  BY <1>1 DEF LedgerInv, Balanced, HeldBalance, HeldLogged, MovedAt, OpeningStays, RequestsKnown,
              Undisturbed, At, Target, vars, rowVars, saleVars, orderVars
<1> QED
  BY <1>1, SellLedger, MaintainLedger, PurchaseLedger DEF Next

\* The invariant of the ledger holds in every behaviour of Inventory.
LEMMA SpecLedgerInv == Spec => [](IInv /\ StockInv /\ LedgerInv)
<1>1. Init => LedgerInv
  BY InitLedger
<1>2. IInv /\ StockInv /\ LedgerInv /\ [Next]_vars => LedgerInv'
  BY NextLedger
<1>3. Spec => [](IInv /\ StockInv)
  BY SpecStockInv
<1> QED
  BY <1>1, <1>2, <1>3, PTL DEF Spec

\* Whatever sales, receipts, edits and removals run together, the stock of a product is the sum of
\* its movements as long as only requests that write it with its movement touched it: of the
\* products of the opening, those that no cancellation gave units back to and no edit set the
\* stock of (sales.service.ts:216-270, purchase-orders.service.ts:491-536).
THEOREM UndisturbedBalanced ==
    Spec => [](\A p \in DOMAIN OpeningStock : Undisturbed(p) =>
                  product[p].stock = Units({m \in movements : m.product = p}))
<1>1. LedgerInv => \A p \in DOMAIN OpeningStock : Undisturbed(p) =>
                      product[p].stock = Units({m \in movements : m.product = p})
  BY DEF LedgerInv, MovedAt, Of
<1> QED
  BY <1>1, SpecLedgerInv, PTL

\* Without sale updates and without stocks in the requests to /products, every product's stock is
\* the sum of its movements, however the checkouts, the receipts and the edits interleave.
THEOREM LedgerBalances ==
    ASSUME SaleUpdates = {}, Stocks = {}
    PROVE  Spec => []LedgerExact
<1>1. ASSUME IInv, LedgerInv PROVE LedgerExact
  <2>1. ASSUME NEW r \in ProductRequests PROVE productRequest[r].dto.stock = Keep
    <3>1. productRequest[r] \in ProductRequestState
      BY <1>1 DEF IInv, CatalogInv, CatalogTypeOK
    <3>2. productRequest[r].dto \in [stock : {Keep}, off : BOOLEAN]
      BY <3>1 DEF ProductRequestState, Dto
    <3> QED
      BY <3>2
  <2>2. ASSUME NEW p \in Products, Live(p) PROVE p \in DOMAIN OpeningStock
    BY <1>1, <2>2 DEF LedgerInv, OpeningStays, Live
  <2>3. \A p \in Products : Undisturbed(p)
    BY <2>1 DEF Undisturbed
  <2>4. \A p \in Products : Live(p) => MovedAt(p)
    BY <1>1, <2>2, <2>3 DEF LedgerInv
  <2> QED
    BY <2>4 DEF LedgerExact, MovedAt, Of
<1> QED
  BY <1>1, SpecLedgerInv, PTL

---------------------------------------------------------------------------
(* The book of sales *)

\* The quantity of product p in the items before place n.
ItemQuantities(items) == [i \in DOMAIN items |-> items[i].quantity]
PlacesOf(items, p, n) == {i \in 1..(n - 1) : items[i].product = p}
Took(items, p, n) == SumOver(ItemQuantities(items), PlacesOf(items, p, n))

IsQuantity(items, S, g) ==
    g = [s \in SUBSET S |->
            IF s = {} THEN 0 ELSE items[ChosenOf(s)].quantity + g[s \ {ChosenOf(s)}]]
QuantityFunction(items, S) == CHOOSE g : IsQuantity(items, S, g)

\* The quantity of a product in some items is the value of a recursive function.
LEMMA QuantityIsFunction ==
    ASSUME NEW items, NEW p, NEW S, S = {i \in DOMAIN items : items[i].product = p}
    PROVE  Book!Quantity(items, p) = QuantityFunction(items, S)[S]
BY DEF Book!Quantity, Book!MapThenSumSet, Book!MapThenFoldSet, QuantityFunction, IsQuantity,
       ChosenOf

\* The quantity that the book takes of a product is that of all the items.
LEMMA QuantityIsSum ==
    ASSUME NEW items \in Items, NEW p
    PROVE  Book!Quantity(items, p) = Took(items, p, Len(items) + 1)
<1> DEFINE S == {i \in DOMAIN items : items[i].product = p}
           f == ItemQuantities(items)
<1>1. DOMAIN items = 1..Len(items) /\ Len(items) \in Nat
  BY DEF Items
<1>2. IsFiniteSet(S) /\ S = PlacesOf(items, p, Len(items) + 1)
  <2>1. IsFiniteSet(1..Len(items))
    BY <1>1, FS_Interval
  <2>2. S \subseteq 1..Len(items) /\ 1..(Len(items) + 1 - 1) = 1..Len(items)
    BY <1>1
  <2> QED
    BY <1>1, <2>1, <2>2, FS_Subset DEF PlacesOf
<1>3. \A s \in SUBSET S : s # {} => f[ChosenOf(s)] = items[ChosenOf(s)].quantity
  BY ChosenIsElement DEF ItemQuantities
<1> HIDE DEF S, f
<1>4. ASSUME NEW g PROVE IsQuantity(items, S, g) <=> IsSum(f, S, g)
  <2>1. [s \in SUBSET S |->
            IF s = {} THEN 0 ELSE items[ChosenOf(s)].quantity + g[s \ {ChosenOf(s)}]] =
        [s \in SUBSET S |-> IF s = {} THEN 0 ELSE f[ChosenOf(s)] + g[s \ {ChosenOf(s)}]]
    BY <1>3
  <2> QED
    BY <2>1, Zenon DEF IsQuantity, IsSum
<1>5. IsSum(f, S, SumRecursion(f, S))
  BY <1>2, SumExists
<1>6. IsQuantity(items, S, QuantityFunction(items, S))
  BY <1>4, <1>5 DEF QuantityFunction
<1>7. QuantityFunction(items, S)[S] = SumRecursion(f, S)[S]
  <2>1. IsSum(f, S, QuantityFunction(items, S)) /\ S \subseteq S /\ S \in SUBSET S
    BY <1>4, <1>6
  <2>2. \A s \in SUBSET S : QuantityFunction(items, S)[s] = SumRecursion(f, S)[s]
    BY <1>2, <1>5, <2>1, SumsAgree
  <2> QED
    BY <2>1, <2>2
<1>8. Book!Quantity(items, p) = QuantityFunction(items, S)[S]
  BY QuantityIsFunction DEF S
<1>9. SumOver(f, S) = SumRecursion(f, S)[S]
  BY SumOverIsSum
<1> QED
  BY <1>2, <1>7, <1>8, <1>9 DEF Took, f

\* Before the first item nothing was taken; an item adds its quantity.
LEMMA TookNothing == ASSUME NEW items, NEW p PROVE Took(items, p, 1) = 0
<1>1. PlacesOf(items, p, 1) = {}
  BY DEF PlacesOf
<1> QED
  BY <1>1, SumOfNone DEF Took

\* What the items before the n-th take of a product is an integer.
LEMMA TookType ==
    ASSUME NEW items \in Items, NEW p, NEW n \in 1..(Len(items) + 1)
    PROVE  Took(items, p, n) \in Int
<1> DEFINE S == PlacesOf(items, p, n)
           f == ItemQuantities(items)
<1>1. Len(items) \in Nat /\ DOMAIN items = 1..Len(items)
  BY DEF Items
<1>2. IsFiniteSet(1..(n - 1)) /\ S \subseteq 1..(n - 1) /\ 1..(n - 1) \subseteq 1..Len(items)
  <2>1. n \in Int /\ n <= Len(items) + 1 /\ 1 \in Int /\ n - 1 \in Int
    BY <1>1
  <2>2. IsFiniteSet(1..(n - 1))
    BY <2>1, FS_Interval
  <2>3. S \subseteq 1..(n - 1)
    BY DEF PlacesOf
  <2> QED
    BY <1>1, <2>1, <2>2, <2>3
<1>3. ASSUME NEW i \in S PROVE f[i] \in Int
  <2>1. i \in Nat \ {0} /\ i <= Len(items) /\ i \in DOMAIN items
    BY <1>1, <1>2, <1>3
  <2> QED
    BY <2>1, ItemAt DEF ItemQuantities
<1>4. IsFiniteSet(S)
  BY <1>2, FS_Subset
<1> HIDE DEF S, f
<1>5. SumOver(f, S) \in Int
  BY <1>3, <1>4, SumType
<1> QED
  BY <1>5 DEF Took, S, f

\* What the n-th item adds to what the items before it take of a product.
LEMMA TookOneMore ==
    ASSUME NEW items \in Items, NEW p, NEW n \in 1..Len(items)
    PROVE  /\ Took(items, p, n) \in Int /\ items[n].quantity \in Nat
           /\ Took(items, p, n + 1) =
                IF items[n].product = p THEN Took(items, p, n) + items[n].quantity
                ELSE Took(items, p, n)
<1> DEFINE S == PlacesOf(items, p, n)
           f == ItemQuantities(items)
<1>1. /\ DOMAIN items = 1..Len(items) /\ Len(items) \in Nat
      /\ \A i \in 1..Len(items) : items[i].quantity \in Nat
  <2>1. Len(items) \in Nat /\ DOMAIN items = 1..Len(items)
    BY DEF Items
  <2>2. ASSUME NEW i \in 1..Len(items) PROVE items[i].quantity \in Nat
    <3>1. i \in Nat \ {0} /\ i <= Len(items)
      BY <2>1
    <3> QED
      BY <3>1, ItemAt
  <2> QED
    BY <2>1, <2>2
<1>2. IsFiniteSet(S) /\ S \subseteq 1..Len(items) /\ n \notin S
  <2>1. IsFiniteSet(1..(n - 1)) /\ S \subseteq 1..(n - 1)
    BY FS_Interval DEF PlacesOf
  <2> QED
    BY <1>1, <2>1, FS_Subset
<1>3. \A i \in S \cup {n} : f[i] \in Int
  BY <1>1, <1>2 DEF ItemQuantities
<1>4. f[n] = items[n].quantity
  BY <1>1 DEF ItemQuantities
<1>5. PlacesOf(items, p, n + 1) = IF items[n].product = p THEN S \cup {n} ELSE S
  <2>1. 1..(n + 1 - 1) = 1..(n - 1) \cup {n}
    OBVIOUS
  <2> QED
    BY <2>1 DEF PlacesOf
<1> HIDE DEF S, f
<1>6. SumOver(f, S \cup {n}) = SumOver(f, S) + f[n]
  BY <1>2, <1>3, SumOfOneMore
<1>7. SumOver(f, S) \in Int
  BY <1>2, <1>3, SumType
<1> QED
  BY <1>1, <1>4, <1>5, <1>6, <1>7 DEF Took, S, f

\* What a checkout logged is what the items it went past take.
CheckoutBooked(c) ==
    /\ checkout[c].pc \in {"begin", "number", "items"} => checkout[c].items \in Carts
    /\ checkout[c].pc # "failed" =>
         /\ checkout[c].line <= Len(checkout[c].items) + 1
         /\ \A p \in Products :
              Units(Of(checkout[c].log, p)) = -Took(checkout[c].items, p, checkout[c].line)

\* A movement logged adds its quantity to the units of its own product only.
LEMMA UnitsLogged ==
    ASSUME NEW log \in SUBSET Movement, IsFiniteSet(log), NEW m \in Movement, m \notin log, NEW p
    PROVE  /\ Units(Of(log, p)) \in Int
           /\ Units(Of(log \cup {m}, p)) =
                IF p = m.product THEN Units(Of(log, p)) + m.quantity ELSE Units(Of(log, p))
<1>1. IsFiniteSet(Of(log, p)) /\ Of(log, p) \in SUBSET Movement /\ Units(Of(log, p)) \in Int
  BY OfFinite, UnitsType
<1>2. CASE p = m.product
  <2>1. Of(log \cup {m}, p) = Of(log, p) \cup {m} /\ m \notin Of(log, p)
    BY <1>2 DEF Of
  <2> QED
    BY <1>1, <1>2, <2>1, UnitsOfOneMore
<1>3. CASE p # m.product
  <2>1. Of(log \cup {m}, p) = Of(log, p)
    BY <1>3 DEF Of
  <2> QED
    BY <1>1, <1>3, <2>1
<1> QED
  BY <1>2, <1>3

\* A checkout keeps its log and its items in step.
LEMMA CheckoutBooks ==
    ASSUME IInv, StockInv, LedgerInv, NEW c \in Checkouts, CheckoutStep(c), CheckoutBooked(c)
    PROVE  CheckoutBooked(c)'
<1>1. /\ checkout \in [Checkouts -> CheckoutState] /\ c \in Requests /\ RowsInv
      /\ CheckoutLogged(c) /\ Balanced(c, checkout[c])
  BY SalesAssumption DEF IInv, SalesInv, SalesTypeOK, StockInv, LedgerInv
<1>2. checkout[c] \in CheckoutState
  BY <1>1
<1>3. /\ checkout[c].log \in SUBSET Movement /\ IsFiniteSet(checkout[c].log)
      /\ checkout[c].line \in Nat \ {0} /\ checkout[c].items \in Items
      /\ \A m \in checkout[c].log : m.line < checkout[c].line
  BY <1>1, <1>2 DEF CheckoutState, Balanced
<1>4. CASE CheckoutRead(c)
  <2>1. PICK items \in Carts :
          checkout' = [checkout EXCEPT ![c] = [@ EXCEPT !.items = items, !.pc = "begin"]]
    BY <1>4 DEF CheckoutRead
  <2>2. /\ checkout[c].pc = "new" /\ checkout'[c].log = checkout[c].log
        /\ checkout'[c].line = checkout[c].line /\ checkout'[c].items = items
    BY <1>1, <1>2, <1>4, <2>1 DEF CheckoutRead, CheckoutState
  <2>3. checkout[c].line = 1 /\ Len(items) \in Nat
    BY <1>1, <2>2, SalesAssumption DEF CheckoutLogged
  <2>4. \A p \in Products : Units(Of(checkout[c].log, p)) = -Took(items, p, 1)
    <3>1. \A p \in Products : Units(Of(checkout[c].log, p)) = -Took(checkout[c].items, p, 1)
      BY <2>2, <2>3 DEF CheckoutBooked
    <3> QED
      BY <3>1, TookNothing
  <2> QED
    BY <2>2, <2>3, <2>4 DEF CheckoutBooked
<1>5. CASE CheckoutBegin(c) \/ NextNumber(c) \/ CheckoutCommit(c)
  <2>1. /\ checkout'[c].log = checkout[c].log /\ checkout'[c].line = checkout[c].line
        /\ checkout'[c].items = checkout[c].items /\ checkout[c].pc \in {"begin", "number", "items"}
    <3>1. CASE CheckoutBegin(c)
      BY <1>1, <1>2, <3>1 DEF CheckoutBegin, CheckoutState
    <3>2. CASE NextNumber(c)
      BY <1>1, <1>2, <3>2 DEF NextNumber, CheckoutState
    <3>3. CASE CheckoutCommit(c)
      BY <1>1, <1>2, <3>3 DEF CheckoutCommit, CheckoutState
    <3> QED
      BY <1>5, <3>1, <3>2, <3>3
  <2> QED
    BY <2>1 DEF CheckoutBooked
<1>6. CASE CheckoutItem(c)
  <2> DEFINE items == checkout[c].items
             n == checkout[c].line
             moved == SaleMovement(c, n, Item(c).product, "SALE", -Item(c).quantity,
                                   Visible(c, Item(c).product).stock, c)
  <2>1. n \in 1..Len(items) /\ n + 1 <= Len(items) + 1 /\ checkout[c].pc = "items"
    BY <1>3, <1>6 DEF CheckoutItem, ItemsLeft, Items
  <2>2. items[n].product \in Products /\ items[n].quantity \in Nat \ {0}
    BY <1>3, <1>6, ItemAt DEF CheckoutItem, ItemsLeft
  <2>3. Visible(c, items[n].product) \in Row
    BY <1>1, <2>2, VisibleRow
  <2>4. moved \in Movement
    BY <1>1, <1>3, <2>2, <2>3 DEF SaleMovement, Movement, MovementTypes, Row, Item
  <2>5. moved.product = items[n].product /\ moved.quantity = -items[n].quantity /\ moved.line = n
    BY DEF SaleMovement, Item
  <2>6. /\ checkout'[c].log = checkout[c].log \cup {moved} /\ checkout'[c].items = items
        /\ checkout'[c].line = n + 1 /\ checkout'[c].pc = "items"
    BY <1>1, <1>2, <1>6, <2>1 DEF CheckoutItem, CheckoutState
  <2>7. items \in Carts
    BY <2>1 DEF CheckoutBooked
  <2> HIDE DEF moved
  <2>8. moved \notin checkout[c].log
    BY <1>3, <2>5
  <2>9. ASSUME NEW p \in Products
        PROVE  Units(Of(checkout[c].log \cup {moved}, p)) = -Took(items, p, n + 1)
    <3>1. Units(Of(checkout[c].log, p)) = -Took(items, p, n)
      BY <2>1 DEF CheckoutBooked
    <3>2. /\ Took(items, p, n) \in Int /\ items[n].quantity \in Int
          /\ Took(items, p, n + 1) =
                IF items[n].product = p THEN Took(items, p, n) + items[n].quantity
                ELSE Took(items, p, n)
      BY <1>3, <2>1, TookOneMore
    <3>3. Units(Of(checkout[c].log \cup {moved}, p)) =
            IF p = moved.product THEN Units(Of(checkout[c].log, p)) + moved.quantity
            ELSE Units(Of(checkout[c].log, p))
      BY <1>3, <2>4, <2>8, UnitsLogged
    <3> QED
      BY <2>5, <3>1, <3>2, <3>3
  <2> QED
    BY <2>1, <2>6, <2>7, <2>9 DEF CheckoutBooked
<1>7. CASE CheckoutAbort(c)
  <2>1. checkout'[c].pc = "failed"
    BY <1>1, <1>2, <1>7 DEF CheckoutAbort, CheckoutFails, CheckoutState
  <2> QED
    BY <2>1 DEF CheckoutBooked
<1> QED
  BY <1>4, <1>5, <1>6, <1>7 DEF CheckoutStep

\* The commit of a checkout lowers the stock by what its items take.
LEMMA CommitSells ==
    ASSUME IInv, StockInv, LedgerInv, NEW c \in Checkouts, CheckoutCommit(c), CheckoutBooked(c)
    PROVE  /\ checkout[c].items \in Carts
           /\ \A p \in Products : product'[p].stock =
                  product[p].stock - Book!Quantity(checkout[c].items, p)
<1>1. /\ checkout[c] \in CheckoutState /\ RowsInv /\ checkout[c].pc = "items"
      /\ CheckoutLogged(c) /\ Balanced(c, checkout[c]) /\ CommitRows(c)
  BY DEF IInv, SalesInv, SalesTypeOK, StockInv, LedgerInv, CheckoutCommit
<1>2. checkout[c].items \in Items /\ checkout[c].line \in Nat
  BY <1>1 DEF CheckoutState
<1>3. checkout[c].line = Len(checkout[c].items) + 1 /\ checkout[c].items \in Carts
  BY <1>1, <1>2 DEF CheckoutCommit, ItemsLeft, CheckoutBooked, Items
<1>4. ASSUME NEW p \in Products
      PROVE  product'[p].stock = product[p].stock - Book!Quantity(checkout[c].items, p)
  <2>1. Units(Of(checkout[c].log, p)) = -Book!Quantity(checkout[c].items, p)
    BY <1>1, <1>2, <1>3, QuantityIsSum DEF CheckoutBooked
  <2>2. Book!Quantity(checkout[c].items, p) \in Int /\ product[p].stock \in Int
    <3>1. Took(checkout[c].items, p, Len(checkout[c].items) + 1) \in Int
      BY <1>2, TookType
    <3>2. product[p].stock \in Int
      BY <1>1 DEF RowsInv, RowsTypeOK, Row
    <3> QED
      BY <1>2, <3>1, <3>2, QuantityIsSum
  <2>3. product'[p].stock = product[p].stock + Units(Of(checkout[c].log, p))
    <3>1. CASE lock[p] = c
      BY <1>1, <3>1 DEF CommitRows, Balanced, HeldBalance
    <3>2. CASE lock[p] # c
      <4>1. Of(checkout[c].log, p) = {}
        BY <1>1, <3>2 DEF Of, CheckoutLogged, Logged
      <4> QED
        BY <1>1, <2>2, <3>2, <4>1, UnitsOfNone DEF CommitRows
    <3> QED
      BY <3>1, <3>2
  <2> QED
    BY <2>1, <2>2, <2>3
<1> QED
  BY <1>3, <1>4

---------------------------------------------------------------------------
(* The refinement *)

\* The sale of number n; the book and the stock as SaleBook sees them.
SaleNumbered(n) == CHOOSE c \in Checkouts : Committed(c) /\ sale[c].number = n
BookNow == [n \in 1..currentNumber |-> sale[SaleNumbered(n)].items]
StockNow == [p \in Products |-> product[p].stock]

\* Each number of the book is the number of one sale.
NumbersGiven ==
    \A n \in 1..currentNumber :
        /\ SaleNumbered(n) \in Checkouts /\ Committed(SaleNumbered(n))
        /\ sale[SaleNumbered(n)].number = n
        /\ \A c \in Checkouts : Committed(c) /\ sale[c].number = n => c = SaleNumbered(n)

\* Each number given up to now is that of exactly one committed checkout.
LEMMA NumbersAreGiven == ASSUME SalesInv PROVE NumbersGiven
<1> SUFFICES ASSUME NEW n \in 1..currentNumber
             PROVE  /\ SaleNumbered(n) \in Checkouts /\ Committed(SaleNumbered(n))
                    /\ sale[SaleNumbered(n)].number = n
                    /\ \A c \in Checkouts :
                         Committed(c) /\ sale[c].number = n => c = SaleNumbered(n)
  BY DEF NumbersGiven
<1>1. /\ {sale[c].number : c \in {s \in Checkouts : Committed(s)}} = 1..currentNumber
      /\ \A c, d \in Checkouts :
           Committed(c) /\ Committed(d) /\ sale[c].number = sale[d].number => c = d
  BY DEF SalesInv, SalesNumberedConsecutively
<1>2. PICK s \in Checkouts : Committed(s) /\ sale[s].number = n
  BY <1>1
<1>3. /\ SaleNumbered(n) \in Checkouts /\ Committed(SaleNumbered(n))
      /\ sale[SaleNumbered(n)].number = n
  BY <1>2 DEF SaleNumbered
<1> QED
  BY <1>1, <1>3

\* The sales of the book keep their places.
LEMMA PlacesKept ==
    ASSUME IInv, IInv', NumbersGiven, NumbersGiven', SalesKept,
           currentNumber' >= currentNumber, NEW n \in 1..currentNumber
    PROVE  /\ n \in 1..currentNumber' /\ SaleNumbered(n)' = SaleNumbered(n)
           /\ sale'[SaleNumbered(n)].items = sale[SaleNumbered(n)].items
<1>1. currentNumber \in Nat /\ currentNumber' \in Nat /\ SalesInv /\ SalesInv'
  BY DEF IInv, SalesInv, SalesTypeOK
<1>2. n \in 1..currentNumber'
  BY <1>1
<1>3. PICK s \in Checkouts : s = SaleNumbered(n) /\ Committed(s) /\ sale[s].number = n
  BY <1>1 DEF NumbersGiven
<1>4. /\ Committed(s)' /\ sale'[s].number = n /\ sale'[s].items = sale[s].items
  BY <1>3 DEF SalesKept, Committed
<1>5. \A c \in Checkouts : Committed(c)' /\ sale'[c].number = n => c = SaleNumbered(n)'
  BY <1>2 DEF NumbersGiven
<1> QED
  BY <1>2, <1>3, <1>4, <1>5

\* A step that moves no number leaves the book alone.
LEMMA BookKept ==
    ASSUME IInv, IInv', NumbersGiven, NumbersGiven', SalesKept, currentNumber' = currentNumber
    PROVE  BookNow' = BookNow
<1>1. currentNumber \in Nat
  BY DEF IInv, SalesInv, SalesTypeOK
<1>2. \A n \in 1..currentNumber : sale'[SaleNumbered(n)'].items = sale[SaleNumbered(n)].items
  BY <1>1, PlacesKept
<1> QED
  BY <1>2 DEF BookNow

\* A checkout that commits appends its items.
LEMMA BookAppends ==
    ASSUME IInv, IInv', NumbersGiven, NumbersGiven', SalesKept, NEW c \in Checkouts, CheckoutCommit(c)
    PROVE  BookNow' = Append(BookNow, checkout[c].items)
<1>1. /\ currentNumber \in Nat /\ SalesInv /\ SalesInv' /\ sale \in [Checkouts -> SaleRow]
      /\ sale' \in [Checkouts -> SaleRow]
  BY DEF IInv, SalesInv, SalesTypeOK
<1>2. /\ currentNumber' = currentNumber + 1 /\ sale'[c].number = currentNumber + 1
      /\ sale'[c].items = checkout[c].items /\ Committed(c)'
  BY <1>1 DEF CheckoutCommit, SalesInv, NumberReserved, SaleSequence!Commit, SaleSequence!Number,
              Committed
<1> PICK last \in Nat : last = currentNumber + 1
  BY <1>1
<1>3. SaleNumbered(last)' = c
  <2>1. last \in 1..currentNumber'
    BY <1>1, <1>2
  <2> QED
    BY <1>2, <2>1 DEF NumbersGiven
<1>4. ASSUME NEW n \in 1..currentNumber
      PROVE  sale'[SaleNumbered(n)'].items = sale[SaleNumbered(n)].items
  BY <1>1, <1>2, PlacesKept
<1>5. BookNow \in Seq(Items) /\ Len(BookNow) = currentNumber
  <2>1. \A n \in 1..currentNumber : sale[SaleNumbered(n)].items \in Items
    BY <1>1 DEF NumbersGiven, SaleRow
  <2> QED
    BY <1>1, <2>1 DEF BookNow
<1>6. checkout[c].items \in Items
  BY DEF IInv, SalesInv, SalesTypeOK, CheckoutState
<1>7. BookNow' \in Seq(Items) /\ Len(BookNow') = last
  <2>1. \A n \in 1..currentNumber' : sale'[SaleNumbered(n)'].items \in Items
    BY <1>1 DEF NumbersGiven, SaleRow
  <2> QED
    BY <1>1, <1>2, <2>1 DEF BookNow
<1>8. \A n \in 1..last :
        BookNow'[n] = IF n <= currentNumber THEN BookNow[n] ELSE checkout[c].items
  <2>1. \A n \in 1..last : BookNow'[n] = sale'[SaleNumbered(n)'].items
    BY <1>2 DEF BookNow
  <2>2. \A n \in 1..currentNumber : BookNow[n] = sale[SaleNumbered(n)].items
    BY DEF BookNow
  <2>3. sale'[SaleNumbered(last)'].items = checkout[c].items
    BY <1>2, <1>3
  <2> QED
    BY <1>1, <1>4, <2>1, <2>2, <2>3
<1> QED
  BY <1>1, <1>5, <1>6, <1>7, <1>8

\* What SaleBook calls a sale and another movement of the stock, of this module's state.
LEMMA BookSells ==
    ASSUME NEW items \in Carts, BookNow' = Append(BookNow, items),
           StockNow' = [p \in Products |-> StockNow[p] - Book!Quantity(items, p)],
           StockNow' \in [Products -> Nat]
    PROVE  Book!Sell
BY DEF Book!Sell, BookNow, StockNow, SaleNumbered

\* A step that leaves the sales of the book as they are only moves its stock.
LEMMA BookMoves ==
    ASSUME BookNow' = BookNow, StockNow' \in [Products -> Nat]
    PROVE  Book!MoveStock
BY DEF Book!MoveStock, BookNow, StockNow, SaleNumbered

\* Only the commit of a checkout moves the number of the book.
LEMMA OnlyCommitsNumber ==
    ASSUME [Next]_vars, \A c \in Checkouts : ~CheckoutCommit(c)
    PROVE  currentNumber' = currentNumber
<1>1. \A c \in Checkouts : CheckoutStep(c) => currentNumber' = currentNumber
  BY DEF CheckoutStep, CheckoutRead, CheckoutBegin, NextNumber, CheckoutItem, CheckoutAbort,
         SaleSequence!Lock, SaleSequence!Rollback
<1>2. \A u \in SaleUpdates : SaleUpdateStep(u) => currentNumber' = currentNumber
  BY DEF SaleUpdateStep, SaleUpdateRead, CancelReadItem, CancelWriteItem, CancelCommit, CancelAbort,
         ReturnPartial
<1> QED
  BY <1>1, <1>2 DEF Next, Sell, SalesNext, Maintain, Purchase, vars, saleVars

\* Every step is a sale of the book, another movement of the stock, or invisible.
LEMMA StepBooked ==
    ASSUME IInv, IInv', StockInv, LedgerInv, NumbersGiven, NumbersGiven',
           \A c \in Checkouts : CheckoutBooked(c), [Next]_vars
    PROVE  Book!Sell \/ Book!MoveStock
<1>1. StockNow' \in [Products -> Nat]
  BY DEF StockNow, IInv, RowsInv, RowsTypeOK, Row
<1>2. SalesKept
  BY StepKeepsSales
<1>3. ASSUME NEW c \in Checkouts, CheckoutCommit(c) PROVE Book!Sell
  <2>1. /\ checkout[c].items \in Carts
        /\ \A p \in Products :
             product'[p].stock = product[p].stock - Book!Quantity(checkout[c].items, p)
    BY <1>3, CommitSells
  <2>2. BookNow' = Append(BookNow, checkout[c].items)
    BY <1>2, <1>3, BookAppends
  <2>3. StockNow' = [p \in Products |-> StockNow[p] - Book!Quantity(checkout[c].items, p)]
    BY <2>1 DEF StockNow
  <2> QED
    BY <1>1, <2>1, <2>2, <2>3, BookSells
<1>4. CASE \A c \in Checkouts : ~CheckoutCommit(c)
  BY <1>1, <1>2, <1>4, OnlyCommitsNumber, BookKept, BookMoves
<1> QED
  BY <1>3, <1>4

\* Every step keeps the checkouts in step with their items.
LEMMA NextBooked ==
    ASSUME IInv, StockInv, LedgerInv, \A c \in Checkouts : CheckoutBooked(c), [Next]_vars
    PROVE  \A c \in Checkouts : CheckoutBooked(c)'
<1>1. CASE UNCHANGED checkout
  BY <1>1 DEF CheckoutBooked
<1>2. ASSUME NEW c \in Checkouts, CheckoutStep(c), UNCHANGED orderVars
      PROVE  \A d \in Checkouts : CheckoutBooked(d)'
  <2>1. Moves(c)
    BY <1>2, CheckoutStepKeepsRows
  <2>2. \A d \in Checkouts \ {c} : checkout'[d] = checkout[d]
    BY <1>2, <2>1, CheckoutOwn
  <2>3. CheckoutBooked(c)'
    BY <1>2, CheckoutBooks
  <2> QED
    BY <2>2, <2>3 DEF CheckoutBooked
<1>3. ASSUME NEW u \in SaleUpdates, SaleUpdateStep(u) PROVE UNCHANGED checkout
  BY <1>3 DEF SaleUpdateStep, SaleUpdateRead, CancelReadItem, CancelWriteItem, CancelCommit,
              CancelAbort, ReturnPartial
<1> QED
  BY <1>1, <1>2, <1>3 DEF Next, Sell, SalesNext, Maintain, Purchase, vars, saleVars

\* At first nothing is sold.
LEMMA InitBooked == Init => Book!BookInit /\ \A c \in Checkouts : CheckoutBooked(c)
<1> SUFFICES ASSUME Init PROVE Book!BookInit /\ \A c \in Checkouts : CheckoutBooked(c)
  OBVIOUS
<1>1. /\ currentNumber = 0
      /\ \A c \in Checkouts : /\ checkout[c].pc = "new" /\ checkout[c].items = <<>>
                              /\ checkout[c].line = 1 /\ checkout[c].log = {}
  BY DEF Init, SalesInit
<1>2. StockNow \in [Products -> Nat]
  BY InitIInv DEF StockNow, IInv, RowsInv, RowsTypeOK, Row
<1>3. BookNow = <<>>
  <2>1. BookNow = [n \in 1..0 |-> sale[SaleNumbered(n)].items]
    BY <1>1 DEF BookNow
  <2> QED
    BY <2>1
<1>4. Book!BookInit
  BY <1>2, <1>3 DEF Book!BookInit, BookNow, StockNow, SaleNumbered
<1>5. ASSUME NEW p PROVE Units(Of({}, p)) = -Took(<<>>, p, 1)
  <2>1. Of({}, p) = {}
    BY DEF Of
  <2> QED
    BY <2>1, UnitsOfNone, TookNothing
<1>6. ASSUME NEW c \in Checkouts PROVE CheckoutBooked(c)
  <2>1. /\ checkout[c].pc = "new" /\ checkout[c].items = <<>>
        /\ checkout[c].line = 1 /\ checkout[c].log = {}
    BY <1>1
  <2>2. \A p \in Products : Units(Of(checkout[c].log, p)) =
                              -Took(checkout[c].items, p, checkout[c].line)
    BY <1>5, <2>1
  <2>3. checkout[c].line <= Len(checkout[c].items) + 1
    BY <2>1
  <2> QED
    BY <2>1, <2>2, <2>3 DEF CheckoutBooked
<1> QED
  BY <1>4, <1>6

\* The sales are a book: whatever checkouts, cancellations, edits and receipts interleave, every
\* behavior is one in which each sale takes the next number and exactly its units at once
\* (sales.service.ts:170-279), and no other step writes in the book.
THEOREM SalesAreABook == Spec => ImplementsSaleBook
<1> DEFINE Booked == \A c \in Checkouts : CheckoutBooked(c)
<1>1. Init => Book!BookInit /\ Booked
  BY InitBooked
<1>2. IInv /\ StockInv /\ LedgerInv /\ Booked /\ [Next]_vars => Booked'
  BY NextBooked
<1>3. IInv => NumbersGiven
  BY NumbersAreGiven DEF IInv
<1>4. /\ IInv /\ IInv' /\ StockInv /\ LedgerInv /\ NumbersGiven /\ NumbersGiven' /\ Booked
      /\ [Next]_vars
      => Book!Sell \/ Book!MoveStock
  BY StepBooked
<1> QED
  BY <1>1, <1>2, <1>3, <1>4, SpecLedgerInv, PTL DEF Spec, ImplementsSaleBook, Book!BookSpec

---------------------------------------------------------------------------
(* The items of the orders *)

\* The request that inserted items has committed them.
Inserted(w) == IF w \in Orders THEN orderCreate[w].pc = "done" ELSE orderChange[w].pc = "done"

\* What an edit deletes is of the order it edits, and what it inserts is not nothing.
EditsOwn ==
    /\ \A x \in OrderChanges :
         /\ orderChange[x].pc = "new" => orderChange[x].order = NoOne
         /\ orderChange[x].pc \in {"delete", "insert"} => orderChange[x].items \in OrderLists
         /\ IF orderChange[x].pc = "insert"
            THEN orderChange[x].doomed \subseteq WritersOf(orderChange[x].order)
            ELSE orderChange[x].doomed = {}
    /\ \A o \in Orders :
         orderCreate[o].pc \in {"begin", "number", "insert"} => orderCreate[o].items \in OrderLists

\* A receipt is for items that were inserted, none twice; it logged one movement for each line it
\* went past, of the quantity of that line.
ReceiptItemized(r) ==
    LET q == receipt[r]
    IN /\ q.pc = "new" => q.line = 1 /\ q.items = <<>>
       /\ \A j \in DOMAIN q.items : Inserted(q.items[j].item[1])
       /\ \A j, k \in DOMAIN q.items : q.items[j].item = q.items[k].item => j = k
       /\ \A m \in q.log : m.line \in DOMAIN q.items /\ m.quantity = q.items[m.line].quantity
       /\ \A m, n \in q.log : m.line = n.line => m = n
       /\ q.pc # "failed" =>
            \A j \in DOMAIN q.items : j < q.line => \E m \in q.log : m.line = j
       /\ q.pc = "status" => q.line > Len(q.items)

\* A movement that a receipt wrote is in its log, and the receipt is done.
ReceiptsMoved ==
    \A m \in movements : m.by \in Receipts =>
        receipt[m.by].pc = "done" /\ m \in receipt[m.by].log

\* The movements of the receipts of item i.
MovedFor(i) ==
    {m \in movements : m.by \in Receipts /\ receipt[m.by].items[m.line].item = i}

\* The row of an item has what its receipts moved.
ItemMoved(w, k) ==
    /\ IsFiniteSet(MovedFor(<<w, k>>))
    /\ lines[w][k].received = Units(MovedFor(<<w, k>>))

ItemsInv ==
    /\ EditsOwn
    /\ OrdersKeepItems
    /\ \A r \in Receipts : ReceiptItemized(r)
    /\ ReceiptsMoved
    /\ \A w \in Writers : \A k \in DOMAIN lines[w] : Inserted(w) /\ ItemMoved(w, k)

\* No receipt moved anything for items that are not inserted yet.
LEMMA NothingMovedYet ==
    ASSUME ItemsInv, NEW w \in Writers, ~Inserted(w), NEW k
    PROVE  MovedFor(<<w, k>>) = {}
<1> SUFFICES ASSUME NEW m \in MovedFor(<<w, k>>) PROVE FALSE
  OBVIOUS
<1>1. /\ m \in movements /\ m.by \in Receipts
      /\ receipt[m.by].items[m.line].item = <<w, k>>
  BY DEF MovedFor
<1>2. m \in receipt[m.by].log /\ ReceiptItemized(m.by)
  BY <1>1 DEF ItemsInv, ReceiptsMoved
<1>3. m.line \in DOMAIN receipt[m.by].items
  BY <1>2 DEF ReceiptItemized
<1>4. Inserted(receipt[m.by].items[m.line].item[1])
  BY <1>2, <1>3 DEF ReceiptItemized
<1> QED
  BY <1>1, <1>4

\* An order has items when somebody inserted some of them.
LEMMA ItemsOfSome ==
    ASSUME NEW writers, NEW items
    PROVE  UNION {{w} \X DOMAIN items[w] : w \in writers} # {} <=>
               \E w \in writers : DOMAIN items[w] # {}
<1>1. ASSUME NEW w \in writers, NEW k \in DOMAIN items[w]
      PROVE  <<w, k>> \in UNION {{v} \X DOMAIN items[v] : v \in writers}
  OBVIOUS
<1>2. ASSUME NEW i \in UNION {{v} \X DOMAIN items[v] : v \in writers}
      PROVE  \E w \in writers : DOMAIN items[w] # {}
  OBVIOUS
<1> QED
  BY <1>1, <1>2

\* An order has items exactly if one of its writers left it lines.
LEMMA HasItems ==
    ASSUME NEW o
    PROVE  /\ ItemsOf(o) # {} <=> \E w \in WritersOf(o) : DOMAIN lines[w] # {}
           /\ ItemsOf(o)' # {} <=> \E w \in WritersOf(o)' : DOMAIN lines'[w] # {}
BY ItemsOfSome DEF ItemsOf

\* What is inserted is something, and nothing of it was received.
LEMMA InsertedLines ==
    ASSUME NEW items \in OrderLists
    PROVE  /\ DOMAIN NewLines(items) # {}
           /\ \A k \in DOMAIN NewLines(items) : NewLines(items)[k].received = 0
<1>1. items \in Seq([product : Products, quantity : Nat \ {0}]) /\ items # <<>>
  BY OrdersAssumption
<1>2. DOMAIN items # {}
  <2>1. Len(items) \in Nat /\ Len(items) # 0 /\ DOMAIN items = 1..Len(items)
    BY <1>1, EmptySeq
  <2>2. 1 \in 1..Len(items)
    BY <2>1
  <2> QED
    BY <2>1, <2>2
<1> QED
  BY <1>2 DEF NewLines

\* Steps that only insert items keep what the receipts are known by.
LEMMA ReceiptsFrame ==
    ASSUME OrdersInv, ItemsInv, \A w \in Writers : Inserted(w) => Inserted(w)', NEW r \in Receipts,
           receipt'[r] = receipt[r]
    PROVE  ReceiptItemized(r)'
<1>1. receipt[r] \in ReceiptState /\ ReceiptItemized(r)
  BY DEF OrdersInv, OrdersTypeOK, ItemsInv
<1>2. ASSUME NEW j \in DOMAIN receipt[r].items
      PROVE  receipt[r].items[j].item[1] \in Writers
  <2>1. receipt[r].items \in Seq(ReceiptLine)
    BY <1>1 DEF ReceiptState
  <2>2. receipt[r].items[j] \in ReceiptLine
    BY <2>1, ElementOfSeq
  <2> QED
    BY <2>2 DEF ReceiptLine
<1> QED
  BY <1>1, <1>2 DEF ReceiptItemized

\* A step that leaves the orders alone and moves nothing for a receipt.
LEMMA QuietItems ==
    ASSUME ItemsInv, UNCHANGED orderVars, movements \subseteq movements',
           \A m \in movements' \ movements : m.by \notin Receipts
    PROVE  ItemsInv'
<1>1. \A i : MovedFor(i)' = MovedFor(i)
  BY DEF MovedFor, orderVars
<1>2. ReceiptsMoved' /\ EditsOwn' /\ OrdersKeepItems' /\ \A r \in Receipts : ReceiptItemized(r)'
  <2>1. ReceiptsMoved'
    BY DEF ItemsInv, ReceiptsMoved, orderVars
  <2>2. EditsOwn' /\ OrdersKeepItems'
    BY DEF ItemsInv, EditsOwn, OrdersKeepItems, orderVars, WritersOf, ItemsOf
  <2>3. \A r \in Receipts : ReceiptItemized(r)'
    BY DEF ItemsInv, ReceiptItemized, Inserted, orderVars
  <2> QED
    BY <2>1, <2>2, <2>3
<1>3. \A w \in Writers : \A k \in DOMAIN lines'[w] : Inserted(w)' /\ ItemMoved(w, k)'
  BY <1>1 DEF ItemsInv, Inserted, ItemMoved, orderVars
<1> QED
  BY <1>2, <1>3 DEF ItemsInv

\* The creation of an order, its items inserted in one step.
LEMMA OrderStepItems ==
    ASSUME IInv, ItemsInv, NEW o \in Orders, OrderStep(o)
    PROVE  ItemsInv'
<1>1. /\ orderCreate \in [Orders -> OrderCreateState]
      /\ order \in [Orders -> [status : OrderStatus, number : Nat]]
      /\ lines \in [Writers -> Seq(OrderLine)] /\ OrdersInv /\ o \in Writers
      /\ Orders \cap OrderChanges = {}
  BY OrdersAssumption DEF IInv, OrdersInv, OrdersTypeOK, Writers
<1>2. orderCreate[o] \in OrderCreateState
  BY <1>1
<1>3. UNCHANGED <<receipt, movements, orderChange>>
  BY DEF OrderStep, OrderRead, OrderBegin, OrderTakeNumber, OrderCommit, OrderAbort, rowVars
<1>4. /\ \A q \in Orders \ {o} : orderCreate'[q] = orderCreate[q]
      /\ orderCreate[o].pc # "done"
      /\ orderCreate'[o].pc \in {"begin", "number", "insert"} => orderCreate'[o].items \in OrderLists
  <2>1. CASE OrderRead(o)
    BY <1>1, <1>2, <2>1 DEF OrderRead, OrderCreateState
  <2>2. CASE OrderBegin(o)
    BY <1>1, <1>2, <2>2 DEF OrderBegin, OrderCreateState, ItemsInv, EditsOwn
  <2>3. CASE OrderTakeNumber(o)
    BY <1>1, <1>2, <2>3 DEF OrderTakeNumber, OrderCreateState, ItemsInv, EditsOwn
  <2>4. CASE OrderCommit(o)
    BY <1>1, <1>2, <2>4 DEF OrderCommit, OrderCreateState
  <2>5. CASE OrderAbort(o)
    BY <1>1, <1>2, <2>5 DEF OrderAbort, OrderCreateState
  <2> QED
    BY <2>1, <2>2, <2>3, <2>4, <2>5 DEF OrderStep
<1>5. EditsOwn'
  BY <1>3, <1>4 DEF ItemsInv, EditsOwn, WritersOf
<1>6. \A w \in Writers : Inserted(w) => Inserted(w)'
  BY <1>1, <1>3, <1>4 DEF Inserted, Writers
<1>7. \A r \in Receipts : ReceiptItemized(r)'
  BY <1>1, <1>3, <1>6, ReceiptsFrame
<1>8. ReceiptsMoved' /\ \A i : MovedFor(i)' = MovedFor(i)
  BY <1>3 DEF ItemsInv, ReceiptsMoved, MovedFor
<1>9. CASE OrderCommit(o)
  <2> DEFINE items == orderCreate[o].items
  <2>1. /\ lines' = [lines EXCEPT ![o] = NewLines(items)] /\ orderCreate'[o].pc = "done"
        /\ \A q \in Orders \ {o} : order'[q] = order[q]
        /\ items \in OrderLists
    BY <1>1, <1>2, <1>9 DEF OrderCommit, OrderCreateState, ItemsInv, EditsOwn
  <2>2. /\ DOMAIN NewLines(items) # {}
        /\ \A k \in DOMAIN NewLines(items) : NewLines(items)[k].received = 0
    BY <2>1, InsertedLines
  <2> HIDE DEF items
  <2>3. ~Inserted(o)
    BY <1>4 DEF Inserted
  <2>4. ASSUME NEW w \in Writers, NEW k \in DOMAIN lines'[w]
        PROVE  Inserted(w)' /\ ItemMoved(w, k)'
    <3>1. CASE w = o
      <4>1. lines'[w][k].received = 0
        BY <1>1, <2>1, <2>2, <2>4, <3>1
      <4>2. MovedFor(<<w, k>>) = {}
        BY <2>3, <3>1, NothingMovedYet
      <4>3. Inserted(w)'
        BY <2>1, <3>1 DEF Inserted
      <4> QED
        BY <1>8, <4>1, <4>2, <4>3, UnitsOfNone, FS_EmptySet DEF ItemMoved
    <3>2. CASE w # o
      <4>1. lines'[w] = lines[w]
        BY <1>1, <2>1, <3>2
      <4> QED
        BY <1>6, <1>8, <2>4, <4>1 DEF ItemsInv, ItemMoved
    <3> QED
      BY <3>1, <3>2
  <2>5. OrdersKeepItems'
    <3> SUFFICES ASSUME NEW q \in Orders, order'[q].status # "NONE" PROVE ItemsOf(q)' # {}
      BY DEF OrdersKeepItems
    <3>1. CASE q = o
      <4>1. DOMAIN lines'[o] # {} /\ o \in WritersOf(o)'
        BY <1>1, <2>1, <2>2 DEF WritersOf
      <4> QED
        BY <3>1, <4>1, HasItems
    <3>2. CASE q # o
      <4>1. PICK w \in WritersOf(q) : DOMAIN lines[w] # {}
        BY <2>1, <3>2, HasItems DEF ItemsInv, OrdersKeepItems
      <4>2. w \in Writers /\ w \in WritersOf(q)'
        BY <1>3 DEF WritersOf, Writers
      <4>3. DOMAIN lines'[w] # {}
        BY <1>1, <2>1, <2>2, <4>1, <4>2
      <4> QED
        BY <4>2, <4>3, HasItems
    <3> QED
      BY <3>1, <3>2
  <2> QED
    BY <1>5, <1>7, <1>8, <2>4, <2>5 DEF ItemsInv
<1>10. CASE ~OrderCommit(o)
  <2>1. UNCHANGED <<lines, order>>
    BY <1>10 DEF OrderStep, OrderRead, OrderBegin, OrderTakeNumber, OrderAbort
  <2>2. OrdersKeepItems'
    BY <1>3, <2>1 DEF ItemsInv, OrdersKeepItems, ItemsOf, WritersOf
  <2>3. \A w \in Writers : \A k \in DOMAIN lines'[w] : Inserted(w)' /\ ItemMoved(w, k)'
    BY <1>6, <1>8, <2>1 DEF ItemsInv, ItemMoved
  <2> QED
    BY <1>5, <1>7, <1>8, <2>2, <2>3 DEF ItemsInv
<1> QED
  BY <1>9, <1>10

\* Edits, confirmations and cancellations: an edit deletes items of its own order only, and inserts
\* others in the same step.
LEMMA ChangeStepItems ==
    ASSUME IInv, ItemsInv, NEW x \in OrderChanges, ChangeStep(x)
    PROVE  ItemsInv'
<1>1. /\ orderChange \in [OrderChanges -> OrderChangeState]
      /\ order \in [Orders -> [status : OrderStatus, number : Nat]]
      /\ lines \in [Writers -> Seq(OrderLine)] /\ OrdersInv /\ ChangesLinked
      /\ x \in Writers /\ x \notin Orders /\ Orders \cap OrderChanges = {} /\ NoOne \notin Orders
  BY OrdersAssumption DEF IInv, OrdersInv, OrdersTypeOK, Writers
<1>2. orderChange[x] \in OrderChangeState
  BY <1>1
<1>3. UNCHANGED <<receipt, movements, orderCreate>>
  BY DEF ChangeStep, ChangeRead, EditDelete, EditCommit, EditAbort, ChangeStatus, rowVars
<1>4. /\ \A y \in OrderChanges \ {x} : orderChange'[y] = orderChange[y]
      /\ orderChange[x].pc # "done" /\ orderChange'[x].pc # "new"
      /\ orderChange[x].pc = "new" \/ orderChange'[x].order = orderChange[x].order
      /\ orderChange'[x].pc = "insert" => orderChange[x].pc = "delete"
      /\ orderChange'[x].pc \in {"delete", "insert"} => orderChange'[x].items \in OrderLists
      /\ IF orderChange'[x].pc = "insert"
         THEN orderChange'[x].doomed \subseteq WritersOf(orderChange'[x].order)
         ELSE orderChange'[x].doomed = {}
  <2>1. /\ orderChange[x].pc \in {"delete", "insert"} => orderChange[x].items \in OrderLists
        /\ orderChange[x].pc # "insert" => orderChange[x].doomed = {}
    BY DEF ItemsInv, EditsOwn
  <2>2. CASE ChangeRead(x)
    <3>1. PICK o \in Orders :
             \/ \E items \in OrderLists : orderChange' = [orderChange EXCEPT ![x] =
                    [@ EXCEPT !.pc = "delete", !.order = o, !.items = items]]
             \/ orderChange' = [orderChange EXCEPT ![x] = [@ EXCEPT !.pc = "confirm", !.order = o]]
             \/ orderChange' = [orderChange EXCEPT ![x] = [@ EXCEPT !.pc = "cancel", !.order = o]]
      BY <2>2 DEF ChangeRead
    <3>2. orderChange[x].pc = "new"
      BY <2>2 DEF ChangeRead
    <3>3. CASE orderChange' = [orderChange EXCEPT ![x] = [@ EXCEPT !.pc = "confirm", !.order = o]]
      BY <1>1, <1>2, <2>1, <3>2, <3>3 DEF OrderChangeState
    <3>4. CASE orderChange' = [orderChange EXCEPT ![x] = [@ EXCEPT !.pc = "cancel", !.order = o]]
      BY <1>1, <1>2, <2>1, <3>2, <3>4 DEF OrderChangeState
    <3>5. ASSUME NEW items \in OrderLists,
                 orderChange' = [orderChange EXCEPT ![x] =
                    [@ EXCEPT !.pc = "delete", !.order = o, !.items = items]]
          PROVE  /\ \A y \in OrderChanges \ {x} : orderChange'[y] = orderChange[y]
                 /\ orderChange'[x].pc = "delete" /\ orderChange'[x].items = items
                 /\ orderChange'[x].doomed = orderChange[x].doomed
      BY <1>1, <1>2, <3>5 DEF OrderChangeState
    <3> QED
      BY <2>1, <3>1, <3>2, <3>3, <3>4, <3>5
  <2>3. CASE EditDelete(x)
    <3> DEFINE old == {w \in WritersOf(orderChange[x].order) : lines[w] # <<>>}
    <3>1. /\ orderChange' = [orderChange EXCEPT ![x] = [@ EXCEPT !.pc = "insert", !.doomed = old]]
          /\ orderChange[x].pc = "delete" /\ old \subseteq WritersOf(orderChange[x].order)
      BY <2>3 DEF EditDelete
    <3> HIDE DEF old
    <3>2. /\ orderChange'[x].pc = "insert" /\ orderChange'[x].doomed = old
          /\ orderChange'[x].order = orderChange[x].order
          /\ orderChange'[x].items = orderChange[x].items
          /\ \A y \in OrderChanges \ {x} : orderChange'[y] = orderChange[y]
      BY <1>1, <1>2, <3>1 DEF OrderChangeState
    <3> QED
      BY <2>1, <3>1, <3>2
  <2>4. CASE EditCommit(x)
    BY <1>1, <1>2, <2>4 DEF EditCommit, OrderChangeState
  <2>5. CASE EditAbort(x)
    BY <1>1, <1>2, <2>5 DEF EditAbort, OrderChangeState
  <2>6. CASE ChangeStatus(x)
    BY <1>1, <1>2, <2>1, <2>6 DEF ChangeStatus, OrderChangeState
  <2> QED
    BY <2>2, <2>3, <2>4, <2>5, <2>6 DEF ChangeStep
<1>5. ASSUME NEW o \in Orders PROVE WritersOf(o) \subseteq WritersOf(o)'
  <2>1. orderChange[x].pc = "new" => orderChange[x].order = NoOne
    BY DEF ItemsInv, EditsOwn
  <2>2. orderChange[x].order = o => orderChange'[x].order = o
    BY <1>1, <1>4, <2>1
  <2> QED
    BY <1>4, <2>2 DEF WritersOf
<1>6. EditsOwn'
  <2>1. ASSUME NEW y \in OrderChanges
        PROVE  /\ orderChange'[y].pc = "new" => orderChange'[y].order = NoOne
               /\ orderChange'[y].pc \in {"delete", "insert"} => orderChange'[y].items \in OrderLists
    BY <1>4 DEF ItemsInv, EditsOwn
  <2>2. ASSUME NEW y \in OrderChanges, orderChange'[y].pc = "insert"
        PROVE  /\ orderChange'[y].doomed \subseteq WritersOf(orderChange'[y].order)
               /\ orderChange'[y].order \in Orders
    <3>1. CASE y = x
      <4>1. orderChange[x].pc = "delete"
        BY <1>4, <2>2, <3>1
      <4> QED
        BY <1>1, <1>4, <2>2, <3>1, <4>1 DEF ChangesLinked
    <3>2. CASE y # x
      BY <1>1, <1>4, <2>2, <3>2 DEF ItemsInv, EditsOwn, ChangesLinked
    <3> QED
      BY <3>1, <3>2
  <2>3. ASSUME NEW y \in OrderChanges
        PROVE  IF orderChange'[y].pc = "insert"
               THEN orderChange'[y].doomed \subseteq WritersOf(orderChange[y].order)'
               ELSE orderChange'[y].doomed = {}
    <3>1. CASE orderChange'[y].pc = "insert"
      <4>1. PICK o \in Orders : o = orderChange'[y].order
        BY <2>2, <3>1
      <4>2. orderChange'[y].doomed \subseteq WritersOf(o)'
        BY <1>5, <2>2, <3>1, <4>1
      <4>3. WritersOf(orderChange[y].order)' = WritersOf(o)'
        BY <4>1 DEF WritersOf
      <4> QED
        BY <3>1, <4>2, <4>3
    <3>2. CASE orderChange'[y].pc # "insert"
      BY <1>4, <3>2 DEF ItemsInv, EditsOwn
    <3> QED
      BY <3>1, <3>2
  <2> QED
    BY <1>3, <2>1, <2>3 DEF EditsOwn, ItemsInv
<1>7. \A w \in Writers : Inserted(w) => Inserted(w)'
  BY <1>1, <1>3, <1>4 DEF Inserted, Writers
<1>8. \A r \in Receipts : ReceiptItemized(r)'
  BY <1>1, <1>3, <1>7, ReceiptsFrame
<1>9. ReceiptsMoved' /\ \A i : MovedFor(i)' = MovedFor(i)
  BY <1>3 DEF ItemsInv, ReceiptsMoved, MovedFor
<1>10. CASE EditCommit(x)
  <2> DEFINE items == orderChange[x].items
             doomed == orderChange[x].doomed
             o == orderChange[x].order
  <2>1. /\ lines' = [w \in Writers |-> IF w = x THEN NewLines(items)
                                       ELSE IF w \in doomed THEN <<>> ELSE lines[w]]
        /\ orderChange[x].pc = "insert" /\ order' = order
        /\ orderChange'[x].pc = "done" /\ orderChange'[x].order = o
    BY <1>1, <1>2, <1>10 DEF EditCommit, OrderChangeState
  <2>2. items \in OrderLists /\ doomed \subseteq WritersOf(o) /\ o \in Orders
    BY <1>1, <2>1 DEF ItemsInv, EditsOwn, ChangesLinked
  <2>3. /\ DOMAIN NewLines(items) # {}
        /\ \A k \in DOMAIN NewLines(items) : NewLines(items)[k].received = 0
    BY <2>2, InsertedLines
  <2>4. \A q \in Orders \ {o} : WritersOf(q) \cap (doomed \cup {x}) = {}
    BY <1>1, <2>2 DEF WritersOf
  <2>5. \A q \in Orders : q = o => x \in WritersOf(q)'
    BY <2>1 DEF WritersOf
  <2> HIDE DEF items, doomed, o
  <2>6. ~Inserted(x)
    BY <1>1, <1>4 DEF Inserted
  <2>7. ASSUME NEW w \in Writers, NEW k \in DOMAIN lines'[w]
        PROVE  Inserted(w)' /\ ItemMoved(w, k)'
    <3>1. CASE w = x
      <4>1. lines'[w][k].received = 0
        BY <2>1, <2>3, <2>7, <3>1
      <4>2. MovedFor(<<w, k>>) = {}
        BY <2>6, <3>1, NothingMovedYet
      <4>3. Inserted(w)'
        BY <1>1, <2>1, <3>1 DEF Inserted
      <4> QED
        BY <1>9, <4>1, <4>2, <4>3, UnitsOfNone, FS_EmptySet DEF ItemMoved
    <3>2. CASE w # x
      <4>1. w \notin doomed
        BY <2>1, <2>7, <3>2
      <4>2. lines'[w] = lines[w]
        BY <2>1, <3>2, <4>1
      <4> QED
        BY <1>7, <1>9, <2>7, <4>2 DEF ItemsInv, ItemMoved
    <3> QED
      BY <3>1, <3>2
  <2>8. OrdersKeepItems'
    <3> SUFFICES ASSUME NEW q \in Orders, order'[q].status # "NONE" PROVE ItemsOf(q)' # {}
      BY DEF OrdersKeepItems
    <3>1. CASE q = o
      <4>1. DOMAIN lines'[x] # {}
        BY <1>1, <2>1, <2>3
      <4> QED
        BY <2>5, <3>1, <4>1, HasItems
    <3>2. CASE q # o
      <4>1. PICK w \in WritersOf(q) : DOMAIN lines[w] # {}
        BY <2>1, HasItems DEF ItemsInv, OrdersKeepItems
      <4>2. w \in Writers /\ w \in WritersOf(q)' /\ w \notin doomed /\ w # x
        BY <1>5, <2>4, <3>2, <4>1 DEF WritersOf, Writers
      <4>3. DOMAIN lines'[w] # {}
        BY <2>1, <4>1, <4>2
      <4> QED
        BY <4>2, <4>3, HasItems
    <3> QED
      BY <3>1, <3>2
  <2> QED
    BY <1>6, <1>8, <1>9, <2>7, <2>8 DEF ItemsInv
<1>11. CASE ~EditCommit(x)
  <2>1. lines' = lines
    BY <1>11 DEF ChangeStep, ChangeRead, EditDelete, EditAbort, ChangeStatus
  <2>2. \A q \in Orders : order'[q].status # "NONE" => order[q].status # "NONE"
    <3>1. CASE order' = order
      BY <3>1
    <3>2. CASE ChangeStatus(x)
      <4>1. /\ orderChange[x].order \in Orders
            /\ order[orderChange[x].order].status # "NONE"
        BY <1>1, <3>2 DEF ChangeStatus, ChangesLinked
      <4>2. \A q \in Orders \ {orderChange[x].order} : order'[q] = order[q]
        BY <1>1, <3>2 DEF ChangeStatus
      <4> QED
        BY <4>1, <4>2
    <3> QED
      BY <1>11, <3>1, <3>2 DEF ChangeStep, ChangeRead, EditDelete, EditAbort
  <2>3. OrdersKeepItems'
    <3> SUFFICES ASSUME NEW q \in Orders, order'[q].status # "NONE" PROVE ItemsOf(q)' # {}
      BY DEF OrdersKeepItems
    <3>1. PICK w \in WritersOf(q) : DOMAIN lines[w] # {}
      BY <2>2, HasItems DEF ItemsInv, OrdersKeepItems
    <3>2. w \in WritersOf(q)' /\ DOMAIN lines'[w] # {}
      BY <1>5, <2>1, <3>1
    <3> QED
      BY <3>2, HasItems
  <2>4. \A w \in Writers : \A k \in DOMAIN lines'[w] : Inserted(w)' /\ ItemMoved(w, k)'
    BY <1>7, <1>9, <2>1 DEF ItemsInv, ItemMoved
  <2> QED
    BY <1>6, <1>8, <1>9, <2>3, <2>4 DEF ItemsInv
<1> QED
  BY <1>10, <1>11

\* One movement has its quantity.
LEMMA UnitsOfOne == ASSUME NEW m \in Movement PROVE Units({m}) = m.quantity
<1>1. IsFiniteSet({}) /\ {} \in SUBSET Movement /\ m \notin {} /\ {} \cup {m} = {m}
  BY FS_EmptySet
<1>2. Units({} \cup {m}) = Units({}) + m.quantity
  BY <1>1, UnitsOfOneMore
<1>3. m.quantity \in Int
  BY DEF Movement
<1> QED
  BY <1>1, <1>2, <1>3, UnitsOfNone

\* A receipt names items that were inserted, and logs a movement for each line it goes past.
LEMMA ReceiptStaysItemized ==
    ASSUME IInv, StockInv, LedgerInv, ItemsInv, NEW r \in Receipts, ReceiptStep(r)
    PROVE  ReceiptItemized(r)'
<1>1. /\ receipt \in [Receipts -> ReceiptState] /\ OrdersInv /\ ReceiptsLinked
      /\ ReceiptItemized(r) /\ ReceiptLogged(r) /\ Balanced(r, receipt[r])
      /\ lines \in [Writers -> Seq(OrderLine)]
  BY DEF IInv, OrdersInv, OrdersTypeOK, StockInv, LedgerInv, ItemsInv
<1>2. receipt[r] \in ReceiptState
  BY <1>1
<1>3. /\ receipt[r].items \in Seq(ReceiptLine) /\ receipt[r].line \in Nat \ {0}
      /\ DOMAIN receipt[r].items = 1..Len(receipt[r].items)
  BY <1>2 DEF ReceiptState
<1>4. UNCHANGED <<orderCreate, orderChange>> /\ \A w : Inserted(w)' = Inserted(w)
  BY DEF ReceiptStep, ReceiveRead, ReceiveItem, ReceiveProduct, ReceiveWrite, ReceiveRefresh,
         ReceiveCommit, ReceiveAbort, Inserted
<1> PICK items : items = receipt[r].items
  OBVIOUS
<1>0. \A j \in DOMAIN items : Inserted(items[j].item[1])'
  BY <1>1, <1>4 DEF ReceiptItemized
<1>5. ASSUME receipt'[r].items = receipt[r].items, receipt'[r].pc # "new",
             receipt'[r].pc = "status" => receipt'[r].line > Len(receipt'[r].items),
             \/ receipt'[r].log = {} /\ receipt'[r].pc = "failed"
             \/ /\ receipt'[r].log = receipt[r].log /\ receipt'[r].line = receipt[r].line
                /\ receipt[r].pc # "failed"
      PROVE  ReceiptItemized(r)'
  BY <1>0, <1>1, <1>5 DEF ReceiptItemized
<1>6. CASE ReceiveRead(r)
  <2>10. PICK o \in Orders : \E list \in ReceiptLists(o) :
          /\ receipt' = [receipt EXCEPT ![r] = [@ EXCEPT !.pc = "item", !.order = o, !.items = list]]
          /\ receipt[r].pc = "new"
    BY <1>6 DEF ReceiveRead
  <2>1. PICK list \in ReceiptLists(o) :
          /\ receipt' = [receipt EXCEPT ![r] = [@ EXCEPT !.pc = "item", !.order = o, !.items = list]]
          /\ receipt[r].pc = "new"
    BY <2>10
  <2>2. /\ receipt'[r].pc = "item" /\ receipt'[r].items = list
        /\ receipt'[r].line = 1 /\ receipt'[r].log = {}
    BY <1>1, <1>2, <2>1 DEF ReceiptState, ReceiptItemized, ReceiptLogged
  <2>3. PICK n \in 1..MaxReceiptLines : list \in [1..n -> Receivable(o)]
    BY DEF ReceiptLists
  <2>4. \A j, k \in DOMAIN list : list[j].item = list[k].item => j = k
    BY DEF ReceiptLists
  <2>5. ASSUME NEW j \in DOMAIN list PROVE Inserted(list[j].item[1])' /\ j \in Nat \ {0}
    <3>1. j \in 1..n /\ list[j] \in Receivable(o)
      BY <2>3, <2>5
    <3>2. list[j].item \in ItemsOf(o)
      BY <3>1 DEF Receivable
    <3>3. PICK w \in WritersOf(o) : \E k \in DOMAIN lines[w] : list[j].item = <<w, k>>
      BY <3>2 DEF ItemsOf
    <3>4. w \in Writers
      BY DEF WritersOf, Writers
    <3> QED
      BY <1>4, <3>1, <3>3, <3>4 DEF ItemsInv
  <2> QED
    BY <2>2, <2>4, <2>5 DEF ReceiptItemized
<1>7. CASE ReceiveItem(r)
  BY <1>1, <1>2, <1>5, <1>7 DEF ReceiveItem, ReceiptState
<1>8. CASE ReceiveProduct(r)
  BY <1>1, <1>2, <1>5, <1>8 DEF ReceiveProduct, ReceiptState
<1>9. CASE ReceiveWrite(r)
  <2> DEFINE line == receipt[r].line
             moved == [by |-> r, line |-> receipt[r].line,
                       product |-> ItemRow(Received(r).item).product, type |-> "PURCHASE",
                       quantity |-> Received(r).quantity,
                       previousStock |-> receipt[r].previousStock,
                       newStock |-> receipt[r].previousStock + Received(r).quantity,
                       sale |-> NoOne]
  <2>1. receipt' = [receipt EXCEPT ![r] =
          [@ EXCEPT !.pc = "item", !.line = line + 1, !.log = receipt[r].log \cup {moved}]]
    BY <1>9 DEF ReceiveWrite
  <2>2. moved.line = line /\ moved.quantity = receipt[r].items[line].quantity
    BY DEF Received
  <2>3. receipt[r].pc = "write" /\ line <= Len(receipt[r].items)
    BY <1>1, <1>9 DEF ReceiveWrite, ReceiptsLinked, ReceiptLinesLeft
  <2> HIDE DEF moved
  <2>4. /\ receipt'[r].pc = "item" /\ receipt'[r].line = line + 1
        /\ receipt'[r].log = receipt[r].log \cup {moved} /\ receipt'[r].items = receipt[r].items
    BY <1>1, <1>2, <2>1 DEF ReceiptState
  <2>5. line \in DOMAIN receipt[r].items /\ line \in Nat
    BY <1>3, <2>3
  <2> HIDE DEF line
  <2>7. \A m \in receipt[r].log : m.line < line
    BY <1>1 DEF Balanced, line
  <2>8. \A m, n \in receipt'[r].log : m.line = n.line => m = n
    BY <1>1, <2>2, <2>4, <2>5, <2>7 DEF ReceiptItemized
  <2>9. ASSUME NEW j \in DOMAIN receipt[r].items, j < line + 1
        PROVE  \E m \in receipt'[r].log : m.line = j
    <3>1. CASE j = line
      BY <2>2, <2>4, <3>1
    <3>2. CASE j # line
      <4>1. j < line
        BY <1>3, <2>5, <2>9, <3>2
      <4> QED
        BY <1>1, <2>3, <2>4, <4>1 DEF ReceiptItemized, line
    <3> QED
      BY <3>1, <3>2
  <2>10. \A m \in receipt'[r].log :
           m.line \in DOMAIN receipt[r].items /\ m.quantity = receipt[r].items[m.line].quantity
    BY <1>1, <2>2, <2>4, <2>5 DEF ReceiptItemized
  <2> QED
    BY <1>0, <1>1, <2>4, <2>8, <2>9, <2>10 DEF ReceiptItemized
<1>10. CASE ReceiveRefresh(r)
  <2>1. PICK status : receipt' = [receipt EXCEPT ![r] =
                          [@ EXCEPT !.pc = "status", !.status = status]]
    BY <1>10 DEF ReceiveRefresh
  <2>2. /\ receipt'[r].pc = "status" /\ receipt'[r].line = receipt[r].line
        /\ receipt'[r].log = receipt[r].log /\ receipt'[r].items = receipt[r].items
    BY <1>1, <1>2, <2>1 DEF ReceiptState
  <2>3. receipt[r].line > Len(receipt[r].items) /\ receipt[r].pc = "item"
    BY <1>3, <1>10 DEF ReceiveRefresh, ReceiptLinesLeft
  <2> QED
    BY <1>5, <2>2, <2>3
<1>11. CASE ReceiveCommit(r)
  BY <1>1, <1>2, <1>5, <1>11 DEF ReceiveCommit, ReceiptState
<1>12. CASE ReceiveAbort(r)
  BY <1>1, <1>2, <1>5, <1>12 DEF ReceiveAbort, ReceiptState
<1> QED
  BY <1>6, <1>7, <1>8, <1>9, <1>10, <1>11, <1>12 DEF ReceiptStep

\* The movements that a receipt logged for an item have the units that it adds to the item.
LEMMA LoggedIsAdded ==
    ASSUME NEW r \in Receipts, receipt[r] \in ReceiptState, ReceiptItemized(r),
           receipt[r].pc = "status", NEW i
    PROVE  Units({m \in receipt[r].log : receipt[r].items[m.line].item = i}) = Adds(r, i)
<1> DEFINE items == receipt[r].items
           logged == {m \in receipt[r].log : items[m.line].item = i}
<1>1. /\ items \in Seq(ReceiptLine) /\ DOMAIN items = 1..Len(items)
      /\ receipt[r].line \in Nat /\ receipt[r].line > Len(items)
      /\ receipt[r].log \subseteq Movement
  BY DEF ReceiptState, ReceiptItemized
<1>2. CASE \E k \in DOMAIN items : items[k].item = i
  <2>1. PICK k \in DOMAIN items : items[k].item = i /\ Adds(r, i) = items[k].quantity
    BY <1>2 DEF Adds
  <2>2. PICK m \in receipt[r].log : m.line = k
    BY <1>1, <2>1 DEF ReceiptItemized
  <2>3. logged = {m}
    BY <2>1, <2>2 DEF ReceiptItemized
  <2>4. m.quantity = items[k].quantity /\ m \in Movement
    BY <1>1, <2>2 DEF ReceiptItemized
  <2> QED
    BY <2>1, <2>3, <2>4, UnitsOfOne
<1>3. CASE ~ \E k \in DOMAIN items : items[k].item = i
  <2>1. logged = {} /\ Adds(r, i) = 0
    BY <1>3 DEF Adds, ReceiptItemized
  <2> QED
    BY <2>1, UnitsOfNone
<1> QED
  BY <1>2, <1>3

\* A receipt that commits moves, for each item, what it adds to the item's row.
LEMMA ReceiptMovedFor ==
    ASSUME IInv, StockInv, LedgerInv, ItemsInv, NEW r \in Receipts, ReceiveCommit(r), NEW i,
           IsFiniteSet(MovedFor(i))
    PROVE  /\ IsFiniteSet(MovedFor(i)')
           /\ Units(MovedFor(i)') = Units(MovedFor(i)) + Adds(r, i)
<1>1. /\ receipt \in [Receipts -> ReceiptState] /\ movements \subseteq Movement
      /\ ReceiptItemized(r) /\ Balanced(r, receipt[r]) /\ receipt[r].pc = "status"
  BY DEF IInv, OrdersInv, OrdersTypeOK, RowsInv, RowsTypeOK, LedgerInv, ItemsInv, ReceiveCommit
<1>2. receipt[r] \in ReceiptState
  BY <1>1
<1> DEFINE old == MovedFor(i)
           new == {m \in receipt[r].log : receipt[r].items[m.line].item = i}
<1>3. Units(new) = Adds(r, i)
  BY <1>1, <1>2, LoggedIsAdded
<1>4. /\ movements' = movements \cup receipt[r].log
      /\ \A q \in Receipts : receipt'[q].items = receipt[q].items
  BY <1>1, <1>2 DEF ReceiveCommit, ReceiptState
<1>5. /\ \A m \in receipt[r].log : m.by = r
      /\ \A m \in movements : m.by # r
      /\ IsFiniteSet(receipt[r].log) /\ receipt[r].log \subseteq Movement
  <2>1. \A m \in receipt[r].log : m.by = r
    BY DEF StockInv, ReceiptLogged, Logged
  <2> QED
    BY <1>1, <1>2, <2>1 DEF Balanced, ReceiptState
<1>6. MovedFor(i)' = old \cup new /\ old \cap new = {}
  BY <1>4, <1>5 DEF MovedFor
<1>7. old \in SUBSET Movement /\ new \in SUBSET Movement /\ IsFiniteSet(new)
  BY <1>1, <1>5, FS_Subset DEF MovedFor
<1> HIDE DEF new
<1> QED
  BY <1>3, <1>6, <1>7, UnitsOfUnion, FS_Union

\* A receipt's step: only its commit moves anything, and that in the items' rows too.
LEMMA ReceiptStepItems ==
    ASSUME IInv, StockInv, LedgerInv, ItemsInv, NEW r \in Receipts, ReceiptStep(r)
    PROVE  ItemsInv'
<1>1. /\ receipt \in [Receipts -> ReceiptState] /\ OrdersInv /\ ReceiptsLinked
      /\ lines \in [Writers -> Seq(OrderLine)] /\ Balanced(r, receipt[r])
      /\ order \in [Orders -> [status : OrderStatus, number : Nat]]
  BY DEF IInv, OrdersInv, OrdersTypeOK, LedgerInv
<1>2. receipt[r] \in ReceiptState
  BY <1>1
<1>3. /\ UNCHANGED <<orderCreate, orderChange>>
      /\ \A w : Inserted(w)' = Inserted(w)
      /\ \A o : WritersOf(o)' = WritersOf(o)
  BY DEF ReceiptStep, ReceiveRead, ReceiveItem, ReceiveProduct, ReceiveWrite, ReceiveRefresh,
         ReceiveCommit, ReceiveAbort, Inserted, WritersOf
<1>4. EditsOwn'
  BY <1>3 DEF ItemsInv, EditsOwn, WritersOf
<1>5. \A q \in Receipts \ {r} : receipt'[q] = receipt[q]
  BY ReceiptOwn
<1>6. \A q \in Receipts : ReceiptItemized(q)'
  <2>1. \A w \in Writers : Inserted(w) => Inserted(w)'
    BY <1>3
  <2> QED
    BY <1>1, <1>5, <2>1, ReceiptsFrame, ReceiptStaysItemized
<1>7. CASE ReceiveCommit(r)
  <2>1. /\ movements' = movements \cup receipt[r].log
        /\ receipt'[r].pc = "done" /\ receipt'[r].log = receipt[r].log
        /\ order' = [order EXCEPT ![receipt[r].order].status = receipt[r].status]
        /\ lines' = [w \in Writers |-> [k \in DOMAIN lines[w] |->
              [lines[w][k] EXCEPT !.received = lines[w][k].received + Adds(r, <<w, k>>)]]]
    BY <1>1, <1>2, <1>7 DEF ReceiveCommit, ReceiptState
  <2>2. ReceiptsMoved'
    <3>1. \A m \in receipt[r].log : m.by = r
      BY DEF StockInv, ReceiptLogged, Logged
    <3> QED
      BY <1>1, <1>5, <2>1, <3>1 DEF ItemsInv, ReceiptsMoved
  <2>3. ASSUME NEW w \in Writers, NEW k \in DOMAIN lines'[w]
        PROVE  Inserted(w)' /\ ItemMoved(w, k)'
    <3>1. /\ k \in DOMAIN lines[w] /\ lines[w] \in Seq(OrderLine)
          /\ lines'[w][k] =
                [lines[w][k] EXCEPT !.received = lines[w][k].received + Adds(r, <<w, k>>)]
      BY <1>1, <2>1, <2>3
    <3>2. lines[w][k] \in OrderLine
      BY <3>1, ElementOfSeq
    <3>3. lines'[w][k].received = lines[w][k].received + Adds(r, <<w, k>>)
      BY <3>1, <3>2 DEF OrderLine
    <3>4. Inserted(w)' /\ ItemMoved(w, k)
      BY <1>3, <3>1 DEF ItemsInv
    <3>5. /\ IsFiniteSet(MovedFor(<<w, k>>)')
          /\ Units(MovedFor(<<w, k>>)') = Units(MovedFor(<<w, k>>)) + Adds(r, <<w, k>>)
      BY <1>7, <3>4, ReceiptMovedFor DEF ItemMoved
    <3> QED
      BY <3>3, <3>4, <3>5 DEF ItemMoved
  <2>4. OrdersKeepItems'
    <3> SUFFICES ASSUME NEW q \in Orders, order'[q].status # "NONE" PROVE ItemsOf(q)' # {}
      BY DEF OrdersKeepItems
    <3>1. receipt[r].order \in Orders /\ order[receipt[r].order].status # "NONE"
      BY <1>1, <1>7 DEF ReceiveCommit, ReceiptsLinked
    <3>2. order[q].status # "NONE"
      <4>1. q # receipt[r].order => order'[q] = order[q]
        BY <1>1, <2>1, <3>1
      <4> QED
        BY <3>1, <4>1
    <3>3. PICK w \in WritersOf(q) : DOMAIN lines[w] # {}
      BY <3>2, HasItems DEF ItemsInv, OrdersKeepItems
    <3>4. w \in Writers
      BY DEF WritersOf, Writers
    <3>5. w \in WritersOf(q)' /\ DOMAIN lines'[w] # {}
      BY <1>3, <2>1, <3>3, <3>4
    <3> QED
      BY <3>5, HasItems
  <2> QED
    BY <1>4, <1>6, <2>2, <2>3, <2>4 DEF ItemsInv
<1>8. CASE ~ReceiveCommit(r)
  <2>1. UNCHANGED <<movements, lines, order>> /\ receipt[r].pc # "done"
    BY <1>8 DEF ReceiptStep, ReceiveRead, ReceiveItem, ReceiveProduct, ReceiveWrite,
                ReceiveRefresh, ReceiveAbort, rowVars
  <2>2. \A m \in movements : m.by # r
    BY <1>1, <2>1 DEF Balanced
  <2>3. ReceiptsMoved' /\ \A i : MovedFor(i)' = MovedFor(i)
    BY <1>5, <2>1, <2>2 DEF ItemsInv, ReceiptsMoved, MovedFor
  <2>4. OrdersKeepItems'
    BY <1>3, <2>1 DEF ItemsInv, OrdersKeepItems, ItemsOf, WritersOf
  <2>5. \A w \in Writers : \A k \in DOMAIN lines'[w] : Inserted(w)' /\ ItemMoved(w, k)'
    BY <1>3, <2>1, <2>3 DEF ItemsInv, ItemMoved
  <2> QED
    BY <1>4, <1>6, <2>3, <2>4, <2>5 DEF ItemsInv
<1> QED
  BY <1>7, <1>8

\* Sales and the catalog move nothing for a receipt.
LEMMA OthersMoveNothing ==
    ASSUME IInv, StockInv, ItemsInv, Sell \/ \E r \in ProductRequests : Maintain(r)
    PROVE  ItemsInv'
<1>1. /\ Receipts \cap (Checkouts \cup SaleUpdates \cup ProductRequests) = {}
      /\ UNCHANGED orderVars
  BY InventoryAssumption DEF Sell, Maintain
<1>2. ASSUME NEW c \in Checkouts, CheckoutStep(c), UNCHANGED <<productRequest, orderVars>>
      PROVE  \A m \in movements' \ movements : m.by = c
  BY <1>2, CheckoutStepKeepsRows, CheckoutOwn
<1>3. ASSUME NEW u \in SaleUpdates, SaleUpdateStep(u), UNCHANGED <<productRequest, orderVars>>
      PROVE  \A m \in movements' \ movements : m.by = u
  BY <1>3, SaleUpdateStepKeepsRows, SaleUpdateOwn
<1>4. ASSUME NEW r \in ProductRequests, Maintain(r)
      PROVE  \A m \in movements' \ movements : m.by = r
  BY <1>4, ProductStepKeepsRows, EditOwn DEF Maintain
<1>5. \A m \in movements' \ movements : m.by \notin Receipts
  BY <1>1, <1>2, <1>3, <1>4 DEF Sell, SalesNext
<1>6. movements \subseteq movements'
  <2>1. Sell => \/ \E c \in Checkouts : CheckoutStep(c)
                \/ \E u \in SaleUpdates : SaleUpdateStep(u)
    BY DEF Sell, SalesNext
  <2> QED
    BY <2>1, CheckoutStepKeepsRows, SaleUpdateStepKeepsRows, ProductStepKeepsRows
    DEF Moves, Sell, Maintain
<1> QED
  BY <1>1, <1>5, <1>6, QuietItems

\* At first there are no items and no receipts.
LEMMA InitItems == Init => ItemsInv
<1> SUFFICES ASSUME Init PROVE ItemsInv
  OBVIOUS
<1>1. /\ lines = [w \in Writers |-> <<>>]
      /\ \A o \in Orders : order[o].status = "NONE" /\ orderCreate[o].pc = "new"
      /\ \A x \in OrderChanges : /\ orderChange[x].pc = "new" /\ orderChange[x].order = NoOne
                                 /\ orderChange[x].doomed = {}
      /\ \A r \in Receipts : /\ receipt[r].pc = "new" /\ receipt[r].line = 1
                             /\ receipt[r].items = <<>> /\ receipt[r].log = {}
  BY DEF Init, OrdersInit
<1>2. EditsOwn /\ OrdersKeepItems
  BY <1>1 DEF EditsOwn, OrdersKeepItems
<1>3. \A r \in Receipts : ReceiptItemized(r)
  BY <1>1 DEF ReceiptItemized
<1>4. ReceiptsMoved
  <2>1. \A m \in movements : m.by = NoOne
    BY DEF Init, OpeningMovement
  <2>2. NoOne \notin Receipts
    BY OrdersAssumption, NoOneAssumption
  <2> QED
    BY <2>1, <2>2 DEF ReceiptsMoved
<1>5. \A w \in Writers : DOMAIN lines[w] = {}
  BY <1>1
<1> QED
  BY <1>2, <1>3, <1>4, <1>5 DEF ItemsInv

\* Every step keeps the invariant.
LEMMA NextItems ==
    IInv /\ StockInv /\ LedgerInv /\ ItemsInv /\ [Next]_vars => ItemsInv'
<1> SUFFICES ASSUME IInv, StockInv, LedgerInv, ItemsInv, [Next]_vars PROVE ItemsInv'
  OBVIOUS
<1>1. CASE UNCHANGED vars
  BY <1>1, QuietItems DEF vars, rowVars
<1>2. CASE Purchase
  BY <1>2, OrderStepItems, ChangeStepItems, ReceiptStepItems DEF Purchase, OrdersNext
<1> QED
  BY <1>1, <1>2, OthersMoveNothing DEF Next

\* The invariant of the items holds in every state.
LEMMA SpecItemsInv == Spec => [](IInv /\ StockInv /\ LedgerInv /\ ItemsInv)
<1>1. Init => ItemsInv
  BY InitItems
<1>2. IInv /\ StockInv /\ LedgerInv /\ ItemsInv /\ [Next]_vars => ItemsInv'
  BY NextItems
<1> QED
  BY <1>1, <1>2, SpecLedgerInv, PTL DEF Spec

\* However creations, edits and receipts of purchase orders interleave and fail, an order that was
\* committed never loses all its items, and what an item says was received is the sum of the
\* movements of its receipts (purchase-orders.service.ts:332-360, 491-536).
THEOREM OrdersAlwaysAddUp == Spec => []OrdersAddUp
<1>1. ASSUME IInv, ItemsInv PROVE OrdersAddUp
  <2>1. ASSUME NEW o \in Orders, NEW i \in ItemsOf(o)
        PROVE  ItemRow(i).received =
                   Units({m \in movements : /\ m.by \in Receipts
                                            /\ receipt[m.by].items[m.line].item = i})
    <3>1. PICK w \in WritersOf(o) : \E k \in DOMAIN lines[w] : i = <<w, k>>
      BY DEF ItemsOf
    <3>2. PICK k \in DOMAIN lines[w] : i = <<w, k>>
      BY <3>1
    <3>3. w \in Writers
      BY DEF WritersOf, Writers
    <3>4. lines[w][k].received = Units(MovedFor(i))
      BY <1>1, <3>2, <3>3 DEF ItemsInv, ItemMoved
    <3> QED
      BY <3>2, <3>4 DEF ItemRow, MovedFor
  <2> QED
    BY <1>1, <2>1 DEF OrdersAddUp, ReceiptsAddUp, ItemsInv
<1> QED
  BY <1>1, SpecItemsInv, PTL
=============================================================================
