--------------------------- MODULE SimulatorProofs ---------------------------
(***************************************************************************)
(* Proofs about Simulator, for any options, clients, prices, lots and      *)
(* capital: the state is of its type, an open position is what was bought  *)
(* less what was sold, the account pays out no more than it has, the       *)
(* margin covers the short positions, and only long exits pay.             *)
(*                                                                         *)
(* Sums over sets are folds.  What is needed of them is proved by taking,  *)
(* among the finite sets of which it does not hold, a smallest one.        *)
(***************************************************************************)
EXTENDS Simulator, FiniteSetTheorems, TLAPS

-----------------------------------------------------------------------------
(* Sums over finite sets *)

\* Every nonempty set of natural numbers has a least one.
LEMMA LeastNumber ==
    ASSUME NEW T \in SUBSET Nat, T # {}
    PROVE  \E m \in T : \A k \in T : m <= k
<1> DEFINE F == {0..k : k \in T}
<1>1. F # {} /\ F \subseteq FiniteSubsetsOf(Nat)
  <2>1. \A k \in T : IsFiniteSet(0..k) /\ 0..k \in SUBSET Nat
    BY FS_Interval
  <2> QED BY <2>1 DEF FiniteSubsetsOf
<1>2. \E x \in F : \A y \in F : <<y, x>> \notin StrictSubsetOrdering(Nat)
  <2> HIDE DEF F
  <2> QED BY <1>1, FS_StrictSubsetOrderingWellFounded, WFMin
<1>3. PICK m \in T : \A k \in T : <<0..k, 0..m>> \notin StrictSubsetOrdering(Nat)
  BY <1>2
<1>4. ASSUME NEW k \in T, k < m PROVE FALSE
  <2>1. 0..k \subseteq 0..m /\ 0..k # 0..m /\ 0..k \in SUBSET Nat /\ 0..m \in SUBSET Nat
    BY <1>4
  <2> QED BY <1>3, <2>1 DEF StrictSubsetOrdering
<1> QED BY <1>4

\* Of some subsets of a finite set, one contains no other.
LEMMA SmallestSet ==
    ASSUME NEW S, IsFiniteSet(S), NEW B \in SUBSET (SUBSET S), B # {}
    PROVE  \E s \in B : \A t \in B : t \subseteq s => t = s
<1>1. FiniteSubsetsOf(S) = SUBSET S
  BY FS_FiniteSubsetsOfFinite
<1>2. PICK s \in B : \A t \in B : <<t, s>> \notin StrictSubsetOrdering(S)
  BY <1>1, FS_StrictSubsetOrderingWellFounded, WFMin
<1> QED BY <1>2 DEF StrictSubsetOrdering

Some(s) == CHOOSE x \in s : TRUE

\* The value of a partial sum, given those of smaller sets.
SumStep(f, g, s) == IF s = {} THEN 0 ELSE f[Some(s)] + g[s \ {Some(s)}]

\* The partial sums of f over the subsets of S.
IsPartialSum(f, g, S) == g = [s \in SUBSET S |-> SumStep(f, g, s)]
PartialSums(f, S) == CHOOSE g : IsPartialSum(f, g, S)

\* There are partial sums: those of the sets of at most n elements give those of the
\* sets of one more.
LEMMA PartialSumsExist ==
    ASSUME NEW f, NEW S, IsFiniteSet(S)
    PROVE  IsPartialSum(f, PartialSums(f, S), S)
<1> DEFINE Upto(n) == {s \in SUBSET S : Cardinality(s) <= n}
           Sums(g, n) == g = [s \in Upto(n) |-> SumStep(f, g, s)]
           Bad == {n \in Nat : ~\E g : Sums(g, n)}
<1>1. \A s \in SUBSET S : IsFiniteSet(s) /\ Cardinality(s) \in Nat
  BY FS_Subset, FS_CardinalityType
<1>2. \A s \in SUBSET S : s # {} => /\ Some(s) \in s
                                    /\ s \ {Some(s)} \in SUBSET S
                                    /\ Cardinality(s \ {Some(s)}) = Cardinality(s) - 1
  BY <1>1, FS_RemoveElement DEF Some
<1>3. 0 \notin Bad
  <2> DEFINE g == [s \in Upto(0) |-> 0]
  <2>1. \A s \in Upto(0) : s = {}
    BY <1>1, FS_EmptySet
  <2>2. Sums(g, 0)
    BY <2>1 DEF SumStep
  <2> QED BY <2>2
<1>4. ASSUME NEW n \in Nat, n \notin Bad PROVE n + 1 \notin Bad
  <2>1. PICK g : Sums(g, n)
    BY <1>4
  <2> DEFINE h == [s \in Upto(n + 1) |-> SumStep(f, g, s)]
  <2>2. \A s \in Upto(n) : s \in Upto(n + 1) /\ h[s] = g[s]
    <3>1. \A s \in Upto(n) : s \in Upto(n + 1)
      BY <1>1
    <3>2. \A s \in Upto(n) : g[s] = SumStep(f, g, s)
      BY <2>1
    <3> QED BY <3>1, <3>2
  <2>3. \A s \in Upto(n + 1) : s # {} => s \ {Some(s)} \in Upto(n)
    BY <1>1, <1>2
  <2>4. \A s \in Upto(n + 1) : SumStep(f, g, s) = SumStep(f, h, s)
    <3> HIDE DEF h, Upto
    <3> QED BY <2>2, <2>3 DEF SumStep
  <2>5. Sums(h, n + 1)
    BY <2>4
  <2> QED BY <2>5
<1>5. Bad = {}
  <2> HIDE DEF Bad
  <2> SUFFICES ASSUME Bad # {} PROVE FALSE
    OBVIOUS
  <2>1. Bad \in SUBSET Nat
    BY DEF Bad
  <2>2. PICK m \in Bad : \A k \in Bad : m <= k
    BY <2>1, LeastNumber
  <2>3. m \in Nat /\ m # 0 /\ m - 1 \in Nat /\ m - 1 \notin Bad
    BY <1>3, <2>1, <2>2
  <2>4. (m - 1) + 1 \notin Bad
    BY <1>4, <2>3
  <2> QED BY <2>2, <2>3, <2>4
<1>6. \E g : Sums(g, Cardinality(S))
  BY <1>1, <1>5
<1>7. Upto(Cardinality(S)) = SUBSET S
  BY <1>1, FS_Subset, FS_CardinalityType
<1>8. \E g : IsPartialSum(f, g, S)
  BY <1>6, <1>7 DEF IsPartialSum
<1> QED BY <1>8 DEF PartialSums

\* A sum is the last of the partial sums.
LEMMA SumIsPartial ==
    ASSUME NEW f, NEW S
    PROVE  SumFunctionOnSet(f, S) = PartialSums(f, S)[S]
BY DEF SumFunctionOnSet, FoldFunctionOnSet, MapThenFoldSet, PartialSums, IsPartialSum, SumStep, Some

\* The equation of the partial sums.
LEMMA PartialSum ==
    ASSUME NEW f, NEW S, IsFiniteSet(S), NEW s \in SUBSET S
    PROVE  PartialSums(f, S)[s] = SumStep(f, PartialSums(f, S), s)
<1> DEFINE g == PartialSums(f, S)
<1>1. IsPartialSum(f, g, S)
  BY PartialSumsExist
<1> HIDE DEF g
<1>2. g[s] = SumStep(f, g, s)
  BY <1>1 DEF IsPartialSum
<1> QED BY <1>2 DEF g

LEMMA NoSum ==
    ASSUME NEW f, NEW S, IsFiniteSet(S)
    PROVE  PartialSums(f, S)[{}] = 0
<1>1. {} \in SUBSET S
  OBVIOUS
<1>2. PartialSums(f, S)[{}] = SumStep(f, PartialSums(f, S), {})
  BY <1>1, PartialSum
<1> QED BY <1>2 DEF SumStep

LEMMA SumOfOneMore ==
    ASSUME NEW f, NEW S, IsFiniteSet(S), NEW s \in SUBSET S, s # {}
    PROVE  /\ Some(s) \in s
           /\ PartialSums(f, S)[s] = f[Some(s)] + PartialSums(f, S)[s \ {Some(s)}]
<1>1. PartialSums(f, S)[s] = SumStep(f, PartialSums(f, S), s)
  BY PartialSum
<1> QED BY <1>1 DEF SumStep, Some

\* Sums of integers are integers, sums of natural numbers are natural numbers, and
\* sums of zeros are zero.
LEMMA PartialSumType ==
    ASSUME NEW f, NEW S, IsFiniteSet(S), NEW R, R = {0} \/ R = Nat \/ R = Int, \A x \in S : f[x] \in R,
           NEW s \in SUBSET S
    PROVE  PartialSums(f, S)[s] \in R
<1> DEFINE Bad == {t \in SUBSET S : PartialSums(f, S)[t] \notin R}
<1> SUFFICES ASSUME Bad # {} PROVE FALSE
  OBVIOUS
<1>1. PICK t \in Bad : \A u \in Bad : u \subseteq t => u = t
  <2> HIDE DEF Bad
  <2>1. Bad \in SUBSET (SUBSET S)
    BY DEF Bad
  <2> QED BY <2>1, SmallestSet
<1>2. t # {}
  BY NoSum
<1>3. Some(t) \in t /\ PartialSums(f, S)[t] = f[Some(t)] + PartialSums(f, S)[t \ {Some(t)}]
  BY <1>2, SumOfOneMore
<1>4. PartialSums(f, S)[t \ {Some(t)}] \in R
  BY <1>1, <1>3
<1>5. f[Some(t)] \in R
  BY <1>3
<1> QED BY <1>3, <1>4, <1>5

\* A function that differs from another in one element only has another sum by that much.
LEMMA PartialSumChange ==
    ASSUME NEW f, NEW h, NEW S, IsFiniteSet(S), \A x \in S : f[x] \in Int /\ h[x] \in Int,
           NEW y \in S, \A x \in S \ {y} : h[x] = f[x],
           NEW s \in SUBSET S
    PROVE  PartialSums(h, S)[s] = PartialSums(f, S)[s] + (IF y \in s THEN h[y] - f[y] ELSE 0)
<1> DEFINE F == PartialSums(f, S)
           H == PartialSums(h, S)
           Fine(t) == H[t] = F[t] + (IF y \in t THEN h[y] - f[y] ELSE 0)
           Bad == {t \in SUBSET S : ~Fine(t)}
<1> SUFFICES ASSUME Bad # {} PROVE FALSE
  OBVIOUS
<1>1. PICK t \in Bad : \A u \in Bad : u \subseteq t => u = t
  <2> HIDE DEF Bad
  <2>1. Bad \in SUBSET (SUBSET S)
    BY DEF Bad
  <2> QED BY <2>1, SmallestSet
<1>2. \A u \in SUBSET S : F[u] \in Int /\ H[u] \in Int
  BY PartialSumType
<1>3. t # {}
  <2> SUFFICES ASSUME t = {} PROVE Fine(t)
    OBVIOUS
  <2>1. F[{}] = 0 /\ H[{}] = 0
    BY NoSum
  <2> QED BY <2>1
<1> DEFINE x == Some(t)
           u == t \ {x}
<1>4. x \in t /\ F[t] = f[x] + F[u] /\ H[t] = h[x] + H[u]
  BY <1>3, SumOfOneMore
<1>5. u \in SUBSET S /\ u \notin Bad
  BY <1>1, <1>4
<1>6. Fine(u) /\ ~Fine(t)
  BY <1>1, <1>5
<1>7. f[x] \in Int /\ h[x] \in Int /\ f[y] \in Int /\ h[y] \in Int /\ F[u] \in Int /\ H[u] \in Int
  BY <1>2, <1>4, <1>5
<1>8. x # y => h[x] = f[x] /\ (y \in t <=> y \in u)
  BY <1>4
<1>9. x = y => y \in t /\ y \notin u
  BY <1>4
<1> HIDE DEF F, H, x, u
<1> QED BY <1>4, <1>6, <1>7, <1>8, <1>9

\* The same for sums.
LEMMA SumType ==
    ASSUME NEW f, NEW S, IsFiniteSet(S), NEW R, R = {0} \/ R = Nat \/ R = Int, \A x \in S : f[x] \in R
    PROVE  SumFunctionOnSet(f, S) \in R
<1>1. S \in SUBSET S
  OBVIOUS
<1> QED BY <1>1, PartialSumType, SumIsPartial

LEMMA SumOfNats ==
    ASSUME NEW f, NEW S, IsFiniteSet(S), \A x \in S : f[x] \in Nat
    PROVE  SumFunctionOnSet(f, S) \in Nat
<1> DEFINE R == Nat
<1>1. (R = {0} \/ R = Nat \/ R = Int) /\ \A x \in S : f[x] \in R
  OBVIOUS
<1>2. SumFunctionOnSet(f, S) \in R
  <2> HIDE DEF R
  <2> QED BY <1>1, SumType
<1> QED BY <1>2

LEMMA SumChange ==
    ASSUME NEW f, NEW h, NEW S, IsFiniteSet(S), \A x \in S : f[x] \in Int /\ h[x] \in Int,
           NEW y \in S, \A x \in S \ {y} : h[x] = f[x]
    PROVE  SumFunctionOnSet(h, S) = SumFunctionOnSet(f, S) + h[y] - f[y]
<1>1. S \in SUBSET S
  OBVIOUS
<1>2. PartialSums(h, S)[S] = PartialSums(f, S)[S] + (h[y] - f[y])
  BY <1>1, PartialSumChange
<1>3. PartialSums(f, S)[S] \in Int /\ f[y] \in Int /\ h[y] \in Int
  BY <1>1, PartialSumType
<1> QED BY <1>2, <1>3, SumIsPartial
-----------------------------------------------------------------------------
(* The orders and positions that are known to one another *)

Active(c) == orders[c] # Idle

\* No two options have one position.
OwnPositions ==
    \A k, l \in Keys : positions[k] = positions[l] /\ positions[k] # 0 => k = l

\* The position an order has found is open under its own option, or no more.
OwnFinds ==
    \A c \in Clients, k \in Keys :
        Active(c) /\ orders[c].pos # 0 /\ positions[k] = orders[c].pos => k = orders[c].key

\* The position an order would make is nobody's.
FreshNumbers ==
    \A c \in Clients : Active(c) =>
        /\ orders[c].n <= trades
        /\ orders[c].n \notin torn
        /\ \A k \in Keys : positions[k] # orders[c].n
        /\ \A d \in Clients : Active(d) => orders[d].pos # orders[c].n /\ (d # c => orders[d].n # orders[c].n)

\* Nor has anybody one that is still to come.
NoneToCome ==
    /\ \A k \in Keys : positions[k] <= trades
    /\ \A c \in Clients : Active(c) => orders[c].pos <= trades
    /\ \A n \in torn : n <= trades

Objects == OwnPositions /\ OwnFinds /\ FreshNumbers /\ NoneToCome

-----------------------------------------------------------------------------
(* Positions, half merged and whole *)

\* A position as it is between merges: of at least one lot.
Whole == [side: Sides, qty: Nat \ {0}, avg: Nat, sl: SUBSET Int, target: SUBSET Int]

SameLots(p, q) == p.side = q.side /\ p.qty = q.qty /\ p.avg = q.avg

Mean(p, o) == Quotient(p.qty * p.avg + o.qty * o.price, o.total)

\* q is what p has become by the assignments the order o has made so far.
InStep(p, q, o) ==
    \/ /\ p.side = o.side /\ q.side = p.side /\ o.total = p.qty + o.qty
       /\ \/ o.state = "average" /\ q.avg = p.avg /\ q.qty = p.qty
          \/ o.state = "sum" /\ q.avg = Mean(p, o) /\ q.qty = p.qty
          \/ o.state \in {"keepSL", "keepTarget"} /\ q.avg = Mean(p, o) /\ q.qty = o.total
    \/ /\ p.side # o.side /\ SameLots(p, q)
       /\ \/ o.state = "reduce" /\ o.qty < p.qty
          \/ o.state = "remove" /\ o.qty = p.qty
    \/ /\ p.side # o.side /\ o.qty > p.qty /\ o.total = o.qty - p.qty
       /\ \/ o.state = "flip" /\ SameLots(p, q)
          \/ o.state = "flipPrice" /\ q.side = p.side /\ q.avg = p.avg /\ q.qty = o.total
          \/ o.state = "flipSide" /\ q.side = p.side /\ q.avg = o.price /\ q.qty = o.total
          \/ o.state \in {"flipSL", "flipTarget"} /\ q.side = o.side /\ q.avg = o.price /\ q.qty = o.total

\* One order at a time changes the position, and it is as far as the order is.
HalfwayAt(n) ==
    /\ settled[n] \in Whole \cup {NoPosition}
    /\ \A c, d \in Clients : Merging(c, n) /\ Merging(d, n) => c = d
    /\ \A c \in Clients : Merging(c, n) => InStep(settled[n], object[n], orders[c])
    /\ (\A c \in Clients : ~Merging(c, n)) => SameLots(settled[n], object[n])

Halfway == \A n \in Numbers \ torn : HalfwayAt(n)

Signed(side, qty) == IF side = "LONG" THEN qty ELSE -qty

\* What the open position of an option came to with the last whole trade.
Net(k) == IF Open(k) THEN Signed(settled[positions[k]].side, settled[positions[k]].qty) ELSE 0

Netted == \A k \in Keys \ mislaid : net[k] = Net(k)

\* An open position on which two merges met is either still being changed or mislaid.
TornShown ==
    \A k \in Keys \ mislaid : Open(k) /\ positions[k] \in torn => \E c \in Clients : Merging(c, positions[k])

TradeInv == TypeOK /\ Objects /\ Halfway /\ Netted /\ TornShown

-----------------------------------------------------------------------------
(* Facts about positions and orders *)

LEMMA Constants == Prices \subseteq Nat /\ Lots \subseteq Nat \ {0} /\ MaxTrades \in Nat /\ Capital \in Nat
BY SimulatorAssumption

LEMMA LastPriceType == ASSUME TypeOK, NEW k \in Keys PROVE lastPrices[k] \in Nat
<1>1. lastPrices[k] \in Prices \cup {0}
  BY DEF TypeOK
<1>2. Prices \cup {0} \subseteq Nat
  BY Constants
<1> QED BY <1>1, <1>2

LEMMA ActiveOrder ==
    ASSUME TypeOK, NEW c \in Clients, Active(c)
    PROVE  /\ orders[c] \in Orders
           /\ orders[c].n \in Nat \ {0} /\ orders[c].n \in Numbers /\ orders[c].pos \in Nat
           /\ orders[c].pos # 0 => /\ orders[c].pos \in Numbers /\ object[orders[c].pos] \in Positions
                                   /\ settled[orders[c].pos] \in Positions
<1>1. orders[c] \in Orders
  BY DEF TypeOK, Active
<1>2. MaxTrades \in Nat
  BY Constants
<1>3. orders[c].n \in Numbers /\ orders[c].pos \in 0..MaxTrades
  BY <1>1 DEF Orders
<1>4. orders[c].pos # 0 => orders[c].pos \in Numbers
  BY <1>2, <1>3 DEF Numbers
<1>5. orders[c].n \in Nat \ {0} /\ orders[c].pos \in Nat
  BY <1>2, <1>3 DEF Numbers
<1>6. orders[c].pos # 0 => object[orders[c].pos] \in Positions /\ settled[orders[c].pos] \in Positions
  BY <1>4 DEF TypeOK, Active
<1> QED BY <1>1, <1>3, <1>4, <1>5, <1>6

LEMMA OpenPosition ==
    ASSUME TypeOK, NEW k \in Keys, Open(k)
    PROVE  /\ positions[k] \in Numbers /\ object[positions[k]] \in Positions
           /\ settled[positions[k]] \in Positions
<1>1. MaxTrades \in Nat
  BY Constants
<1>2. positions[k] \in Numbers
  BY <1>1 DEF TypeOK, Open, Numbers
<1> QED BY <1>2 DEF TypeOK, Open

LEMMA IdleIsNoOrder == Idle \notin Orders
<1>1. \A o \in Orders : o.state # "idle"
  BY DEF Orders, MergeStates, Follows, LastOnes
<1>2. Idle.state = "idle"
  BY DEF Idle
<1> QED BY <1>1, <1>2

LEMMA NoPositionIsNone == NoPosition \notin Positions /\ Whole \subseteq Positions
<1>1. \A p \in Positions : p.side # "NONE"
  BY DEF Positions, Sides
<1>2. NoPosition.side = "NONE"
  BY DEF NoPosition
<1>3. Whole \subseteq Positions
  BY DEF Whole, Positions
<1> QED BY <1>1, <1>2, <1>3

LEMMA MergingOrder ==
    ASSUME TypeOK, NEW c \in Clients, NEW n, Merging(c, n)
    PROVE  Active(c) /\ orders[c] \in Orders /\ orders[c].pos = n /\ n \in Numbers /\ n # 0
<1>1. Active(c) /\ orders[c].pos = n
  BY DEF Merging, Active
<1>2. n # 0
  BY DEF TypeOK
<1> QED BY <1>1, <1>2, ActiveOrder

\* What an order makes of nothing.
LEMMA LevelsType ==
    ASSUME NEW o \in Orders
    PROVE  StopLoss(o) \in SUBSET Int /\ TakeProfit(o) \in SUBSET Int
<1>1. o.price \in Nat /\ o.exits \in [sl: SUBSET Nat, target: SUBSET Nat]
  BY SimulatorAssumption DEF Orders
<1>2. o.exits.sl \subseteq Nat /\ o.exits.target \subseteq Nat
  BY <1>1
<1>3. StopLoss(o) \subseteq Int
  BY <1>1, <1>2 DEF StopLoss
<1>4. TakeProfit(o) \subseteq Int
  BY <1>1, <1>2 DEF TakeProfit
<1> QED BY <1>3, <1>4

LEMMA EntryType ==
    ASSUME NEW o \in Orders
    PROVE  /\ Entry(o) \in Whole /\ Entry(o).side = o.side /\ Entry(o).qty = o.qty /\ Entry(o).avg = o.price
           /\ Entry(o) \in Positions /\ Entry(o) # NoPosition
<1>1. o.side \in Sides /\ o.price \in Nat /\ o.qty \in Nat \ {0}
  BY DEF Orders
<1>2. Entry(o) \in Whole /\ Entry(o).side = o.side /\ Entry(o).qty = o.qty /\ Entry(o).avg = o.price
  BY <1>1, LevelsType DEF Entry, Whole
<1> QED BY <1>2, NoPositionIsNone

LEMMA QuotientType ==
    ASSUME NEW a \in Int, NEW b \in Int
    PROVE  Quotient(a, b) \in Int
<1>1. CASE b > 0
  <2>1. a \div b \in Int
    BY <1>1
  <2> QED BY <1>1, <2>1 DEF Quotient
<1>2. CASE b < 0
  <2> DEFINE x == -a
             y == -b
  <2>1. x \in Int /\ y \in Int /\ y > 0
    BY <1>2
  <2> HIDE DEF x, y
  <2>2. x \div y \in Int
    BY <2>1
  <2>3. Quotient(a, b) = x \div y
    BY <1>2 DEF Quotient, x, y
  <2> QED BY <2>2, <2>3
<1>3. CASE b = 0
  BY <1>3 DEF Quotient
<1> QED BY <1>1, <1>2, <1>3

\* A quotient times its divisor is no more than what was divided.
LEMMA QuotientIsLess ==
    ASSUME NEW a \in Nat, NEW b \in Nat \ {0}
    PROVE  Quotient(a, b) \in Nat /\ Quotient(a, b) * b <= a
<1>1. Quotient(a, b) = a \div b
  BY DEF Quotient
<1>2. a \div b \in Nat /\ b * (a \div b) <= a
  OBVIOUS
<1> DEFINE d == a \div b
<1>3. d \in Nat /\ b * d <= a
  BY <1>2
<1> HIDE DEF d
<1>4. d * b <= a
  BY <1>3
<1> QED BY <1>1, <1>3, <1>4 DEF d

\* Every assignment keeps a position one.
LEMMA AssignedType ==
    ASSUME NEW q \in Positions, NEW o \in Orders, o.state \in MergeStates
    PROVE  Assigned(q, o) \in Positions /\ Assigned(q, o) # NoPosition
<1>1. /\ q.side \in Sides /\ q.qty \in Int /\ q.avg \in Int /\ q.sl \in SUBSET Int /\ q.target \in SUBSET Int
      /\ o.side \in Sides /\ o.qty \in Nat \ {0} /\ o.price \in Nat /\ o.total \in Int
  BY DEF Positions, Orders
<1>2. StopLoss(o) \in SUBSET Int /\ TakeProfit(o) \in SUBSET Int
  BY LevelsType
<1> SUFFICES Assigned(q, o) \in Positions
  BY NoPositionIsNone
<1>3. Quotient(q.qty * q.avg + o.qty * o.price, o.total) \in Int
  <2>1. q.qty * q.avg + o.qty * o.price \in Int
    BY <1>1
  <2> QED BY <1>1, <2>1, QuotientType
<1> QED BY <1>1, <1>2, <1>3 DEF Assigned, Positions

\* A merge that begins with a whole position is at its first assignment.
LEMMA BegunInStep ==
    ASSUME NEW p \in Whole, NEW q \in Positions, SameLots(p, q), NEW o \in Orders,
           NEW o2, o2 = [o EXCEPT !.state = Case(q, o), !.total = Total(q, o)]
    PROVE  InStep(p, q, o2)
<1>1. /\ p.side \in Sides /\ p.qty \in Nat \ {0} /\ o.side \in Sides /\ o.qty \in Nat \ {0}
      /\ o2.side = o.side /\ o2.qty = o.qty /\ o2.state = Case(q, o) /\ o2.total = Total(q, o)
  BY DEF Whole, Orders
<1> QED BY <1>1 DEF SameLots, InStep, Case, Total

\* An assignment that is not the last leaves it at the next.
LEMMA AssignedInStep ==
    ASSUME NEW p \in Whole, NEW q \in Positions, NEW o \in Orders, InStep(p, q, o), o.state \in DOMAIN Follows,
           NEW to, to = Follows[o.state], NEW o2, o2 = [o EXCEPT !.state = to]
    PROVE  InStep(p, Assigned(q, o), o2)
<1> DEFINE r == Assigned(q, o)
<1>1. /\ o2.side = o.side /\ o2.qty = o.qty /\ o2.total = o.total /\ o2.price = o.price
      /\ o2.state = to
  BY DEF Orders
<1>2. Mean(p, o2) = Mean(p, o)
  BY <1>1 DEF Mean
<1>3. CASE o.state = "average"
  <2>1. /\ r.avg = Quotient(q.qty * q.avg + o.qty * o.price, o.total)
        /\ r.side = q.side /\ r.qty = q.qty /\ o2.state = "sum"
    BY <1>1, <1>3 DEF Assigned, Follows
  <2>2. p.side = o.side /\ q.side = p.side /\ o.total = p.qty + o.qty /\ q.avg = p.avg /\ q.qty = p.qty
    BY <1>3 DEF InStep
  <2>3. r.avg = Mean(p, o) /\ r.side = q.side /\ r.qty = q.qty
    BY <2>1, <2>2 DEF Mean, Positions
  <2> QED BY <1>1, <1>2, <2>1, <2>2, <2>3 DEF InStep
<1>4. CASE o.state = "sum"
  <2>1. r.qty = o.total /\ r.side = q.side /\ r.avg = q.avg /\ o2.state = "keepSL"
    BY <1>1, <1>4 DEF Assigned, Follows
  <2> QED BY <1>1, <1>2, <1>4, <2>1 DEF InStep
<1>5. CASE o.state = "keepSL"
  <2>1. r.qty = q.qty /\ r.side = q.side /\ r.avg = q.avg /\ o2.state = "keepTarget"
    BY <1>1, <1>5 DEF Assigned, Follows, Positions
  <2> QED BY <1>1, <1>2, <1>5, <2>1 DEF InStep
<1>6. CASE o.state = "flip"
  <2>1. r.qty = o.total /\ r.side = q.side /\ r.avg = q.avg /\ o2.state = "flipPrice"
    BY <1>1, <1>6 DEF Assigned, Follows, Positions
  <2> QED BY <1>1, <1>6, <2>1 DEF InStep, SameLots
<1>7. CASE o.state = "flipPrice"
  <2>1. r.qty = q.qty /\ r.side = q.side /\ r.avg = o.price /\ o2.state = "flipSide"
    BY <1>1, <1>7 DEF Assigned, Follows, Positions
  <2> QED BY <1>1, <1>7, <2>1 DEF InStep
<1>8. CASE o.state = "flipSide"
  <2>1. r.qty = q.qty /\ r.side = o.side /\ r.avg = q.avg /\ o2.state = "flipSL"
    BY <1>1, <1>8 DEF Assigned, Follows, Positions
  <2> QED BY <1>1, <1>8, <2>1 DEF InStep
<1>9. CASE o.state = "flipSL"
  <2>1. r.qty = q.qty /\ r.side = q.side /\ r.avg = q.avg /\ o2.state = "flipTarget"
    BY <1>1, <1>9 DEF Assigned, Follows, Positions
  <2> QED BY <1>1, <1>9, <2>1 DEF InStep
<1> QED BY <1>3, <1>4, <1>5, <1>6, <1>7, <1>8, <1>9 DEF Follows

BookFact(p, side) == IF p.side = side THEN p.avg * p.qty ELSE 0

\* After the last one the position is whole: of the quantity it and the order add up to,
\* unless the order takes all there is, and with a book that has grown by no more than
\* the order is worth.
LEMMA FinishedWhole ==
    ASSUME NEW p \in Whole, NEW q \in Positions, NEW o \in Orders, InStep(p, q, o), o.state \in LastOnes,
           NEW r, r = Assigned(q, o)
    PROVE  /\ r \in Whole
           /\ o.state = "remove" => Signed(p.side, p.qty) + Signed(o.side, o.qty) = 0
           /\ o.state # "remove" => Signed(r.side, r.qty) = Signed(p.side, p.qty) + Signed(o.side, o.qty)
           /\ \A side : /\ BookFact(r, side) \in Nat /\ BookFact(p, side) \in Nat
                        /\ BookFact(r, side) <= BookFact(p, side) + (IF o.side = side THEN o.price * o.qty ELSE 0)
<1>1. /\ p.side \in Sides /\ p.qty \in Nat \ {0} /\ p.avg \in Nat
      /\ o.side \in Sides /\ o.qty \in Nat \ {0} /\ o.price \in Nat /\ o.total \in Int
  BY DEF Whole, Orders
<1>2. r \in Positions
  BY AssignedType DEF MergeStates
<1>3. ASSUME r.side \in Sides, r.qty \in Nat \ {0}, r.avg \in Nat PROVE r \in Whole
  <2>1. r.sl \in SUBSET Int /\ r.target \in SUBSET Int
    BY <1>2 DEF Positions
  <2> QED BY <1>2, <1>3, <2>1 DEF Positions, Whole
<1>4. o.price * o.qty \in Nat /\ p.avg * p.qty \in Nat
  BY <1>1
<1>5. CASE o.state = "keepTarget"
  <2>1. r.side = q.side /\ r.qty = q.qty /\ r.avg = q.avg
    BY <1>5 DEF Assigned, Positions
  <2>2. p.side = o.side /\ r.side = p.side /\ o.total = p.qty + o.qty /\ r.avg = Mean(p, o) /\ r.qty = o.total
    BY <1>5, <2>1 DEF InStep
  <2> DEFINE sum == p.qty * p.avg + o.qty * o.price
  <2>3. sum \in Nat /\ sum = p.avg * p.qty + o.price * o.qty /\ o.total \in Nat \ {0}
    BY <1>1, <2>2
  <2>4. Mean(p, o) = Quotient(sum, o.total)
    BY DEF Mean
  <2> HIDE DEF sum
  <2>5. r.avg \in Nat /\ r.avg * r.qty <= p.avg * p.qty + o.price * o.qty
    BY <2>2, <2>3, <2>4, QuotientIsLess
  <2>6. r.avg * r.qty \in Nat
    BY <2>2, <2>3, <2>5
  <2>7. r \in Whole
    BY <1>1, <1>3, <2>2, <2>3, <2>5
  <2>8. Signed(r.side, r.qty) = Signed(p.side, p.qty) + Signed(o.side, o.qty)
    BY <1>1, <2>2 DEF Signed
  <2> DEFINE x == r.avg * r.qty
             y == p.avg * p.qty
             z == o.price * o.qty
  <2>9. \A side : /\ BookFact(r, side) = (IF p.side = side THEN x ELSE 0)
                  /\ BookFact(p, side) = (IF p.side = side THEN y ELSE 0)
    BY <2>2 DEF BookFact
  <2>10. x \in Nat /\ y \in Nat /\ z \in Nat /\ x <= y + z
    BY <1>4, <2>5, <2>6
  <2> HIDE DEF x, y, z
  <2>11. \A side : /\ BookFact(r, side) \in Nat /\ BookFact(p, side) \in Nat
                   /\ BookFact(r, side) <= BookFact(p, side) + (IF o.side = side THEN z ELSE 0)
    BY <2>2, <2>9, <2>10
  <2> QED BY <1>5, <2>7, <2>8, <2>11 DEF z
<1>6. CASE o.state = "reduce"
  <2>1. p.side # o.side /\ q.side = p.side /\ q.qty = p.qty /\ q.avg = p.avg /\ o.qty < p.qty
    BY <1>6 DEF InStep, SameLots
  <2>2. r.side = p.side /\ r.qty = p.qty - o.qty /\ r.avg = p.avg
    BY <1>6, <2>1 DEF Assigned, Positions
  <2>3. r \in Whole
    BY <1>1, <1>3, <2>1, <2>2
  <2>4. Signed(r.side, r.qty) = Signed(p.side, p.qty) + Signed(o.side, o.qty)
    BY <1>1, <2>1, <2>2 DEF Signed, Sides
  <2> DEFINE x == r.avg * r.qty
             y == p.avg * p.qty
             z == o.price * o.qty
  <2>5. \A side : /\ BookFact(r, side) = (IF p.side = side THEN x ELSE 0)
                  /\ BookFact(p, side) = (IF p.side = side THEN y ELSE 0)
    BY <2>2 DEF BookFact
  <2>6. x \in Nat /\ y \in Nat /\ z \in Nat /\ x <= y
    <3>1. r.qty <= p.qty /\ r.qty \in Nat
      BY <1>1, <2>1, <2>2
    <3>2. p.avg * r.qty <= p.avg * p.qty /\ p.avg * r.qty \in Nat
      BY <1>1, <3>1
    <3> QED BY <1>4, <2>2, <3>2
  <2> HIDE DEF x, y, z
  <2>7. \A side : /\ BookFact(r, side) \in Nat /\ BookFact(p, side) \in Nat
                  /\ BookFact(r, side) <= BookFact(p, side) + (IF o.side = side THEN z ELSE 0)
    BY <2>5, <2>6
  <2> QED BY <1>6, <2>3, <2>4, <2>7 DEF z
<1>7. CASE o.state = "remove"
  <2>1. p.side # o.side /\ q.side = p.side /\ q.qty = p.qty /\ q.avg = p.avg /\ o.qty = p.qty
    BY <1>7 DEF InStep, SameLots
  <2>2. r.side = p.side /\ r.qty = p.qty /\ r.avg = p.avg
    BY <1>7, <2>1 DEF Assigned
  <2>3. r \in Whole
    BY <1>1, <1>3, <2>1, <2>2
  <2>4. Signed(p.side, p.qty) + Signed(o.side, o.qty) = 0
    BY <1>1, <2>1 DEF Signed, Sides
  <2>5. \A side : BookFact(r, side) = BookFact(p, side) /\ BookFact(p, side) \in Nat
    BY <1>4, <2>2 DEF BookFact
  <2> DEFINE z == o.price * o.qty
  <2>6. z \in Nat
    BY <1>4
  <2> HIDE DEF z
  <2>7. \A side : /\ BookFact(r, side) \in Nat /\ BookFact(p, side) \in Nat
                  /\ BookFact(r, side) <= BookFact(p, side) + (IF o.side = side THEN z ELSE 0)
    BY <2>5, <2>6
  <2> QED BY <1>7, <2>3, <2>4, <2>7 DEF z
<1>8. CASE o.state = "flipTarget"
  <2>1. /\ p.side # o.side /\ o.qty > p.qty /\ o.total = o.qty - p.qty
        /\ q.side = o.side /\ q.avg = o.price /\ q.qty = o.total
    BY <1>8 DEF InStep
  <2>2. r.side = o.side /\ r.qty = o.qty - p.qty /\ r.avg = o.price
    BY <1>8, <2>1 DEF Assigned, Positions
  <2>3. r \in Whole
    BY <1>1, <1>3, <2>1, <2>2
  <2>4. Signed(r.side, r.qty) = Signed(p.side, p.qty) + Signed(o.side, o.qty)
    BY <1>1, <2>1, <2>2 DEF Signed, Sides
  <2> DEFINE x == r.avg * r.qty
             y == p.avg * p.qty
             z == o.price * o.qty
  <2>5. \A side : /\ BookFact(r, side) = (IF o.side = side THEN x ELSE 0)
                  /\ BookFact(p, side) = (IF p.side = side THEN y ELSE 0)
    BY <2>2 DEF BookFact
  <2>6. x \in Nat /\ y \in Nat /\ z \in Nat /\ x <= z
    <3>1. r.qty <= o.qty /\ r.qty \in Nat
      BY <1>1, <2>1, <2>2
    <3>2. o.price * r.qty <= o.price * o.qty /\ o.price * r.qty \in Nat
      BY <1>1, <3>1
    <3> QED BY <1>4, <2>2, <3>2
  <2> HIDE DEF x, y, z
  <2>7. \A side : /\ BookFact(r, side) \in Nat /\ BookFact(p, side) \in Nat
                  /\ BookFact(r, side) <= BookFact(p, side) + (IF o.side = side THEN z ELSE 0)
    BY <2>5, <2>6
  <2> QED BY <1>8, <2>3, <2>4, <2>7 DEF z
<1> QED BY <1>5, <1>6, <1>7, <1>8 DEF LastOnes

-----------------------------------------------------------------------------
(* The steps *)

LEMMA InitInv == Init => TradeInv
<1> SUFFICES ASSUME Init PROVE TradeInv
  OBVIOUS
<1>1. MaxTrades \in Nat /\ Capital \in Nat
  BY Constants
<1>2. \A c \in Clients, n \in Nat : ~Merging(c, n)
  BY DEF Init, Merging
<1>3. TypeOK
  <2>1. positions \in [Keys -> 0..MaxTrades] /\ trades \in 0..MaxTrades /\ net \in [Keys -> Int]
    BY <1>1 DEF Init
  <2>2. /\ object \in [Numbers -> Positions \cup {NoPosition}] /\ lastPrices \in [Keys -> Prices \cup {0}]
        /\ settled = object
    BY DEF Init
  <2>3. available \in Int /\ usedMargin \in Int
    BY <1>1 DEF Init
  <2>4. orders \in [Clients -> Orders \cup {Idle}] /\ \A c \in Clients : orders[c] = Idle
    BY DEF Init
  <2>5. mislaid \subseteq Keys /\ torn \subseteq Numbers /\ overlapped \in BOOLEAN /\ \A k \in Keys : positions[k] = 0
    BY DEF Init
  <2> QED BY <1>2, <2>1, <2>2, <2>3, <2>4, <2>5 DEF TypeOK
<1>4. Objects
  BY <1>1 DEF Init, Objects, OwnPositions, OwnFinds, FreshNumbers, NoneToCome, Active
<1>5. Halfway
  BY <1>2 DEF Init, Halfway, HalfwayAt, SameLots, Numbers
<1>6. Netted /\ TornShown
  BY DEF Init, Netted, Net, TornShown, Open
<1> QED BY <1>3, <1>4, <1>5, <1>6 DEF TradeInv

\* A position that a step and the orders at it leave alone is as far as it was.
LEMMA HalfwayKept ==
    ASSUME NEW n, HalfwayAt(n), settled'[n] = settled[n], object'[n] = object[n],
           \A c \in Clients : Merging(c, n)' <=> Merging(c, n),
           \A c \in Clients : Merging(c, n) => orders'[c] = orders[c]
    PROVE  HalfwayAt(n)'
<1>1. \A c \in Clients : Merging(c, n)' => InStep(settled[n], object[n], orders'[c])
  BY DEF HalfwayAt
<1>2. \A c \in Clients : Merging(c, n)' => InStep(settled'[n], object'[n], orders'[c])
  BY <1>1
<1>3. \A c, d \in Clients : Merging(c, n)' /\ Merging(d, n)' => c = d
  BY DEF HalfwayAt
<1>4. settled'[n] \in Whole \cup {NoPosition}
  BY DEF HalfwayAt
<1>5. (\A c \in Clients : ~Merging(c, n)') => SameLots(settled'[n], object'[n])
  BY DEF HalfwayAt
<1> QED BY <1>2, <1>3, <1>4, <1>5 DEF HalfwayAt

\* A step that leaves every position and what the merging orders do to them alone.
LEMMA PositionsKept ==
    ASSUME TypeOK, Halfway, Netted, TornShown,
           UNCHANGED <<positions, object, settled, torn, net, mislaid>>,
           \A c \in Clients, n \in Numbers : Merging(c, n)' <=> Merging(c, n),
           \A c \in Clients, n \in Numbers : Merging(c, n) => orders'[c] = orders[c]
    PROVE  Halfway' /\ Netted' /\ TornShown'
<1>1. Halfway'
  BY HalfwayKept DEF Halfway
<1>2. Netted'
  BY DEF Netted, Net, Open
<1>3. TornShown'
  <2>1. \A k \in Keys : Open(k) => positions[k] \in Numbers
    BY OpenPosition
  <2> QED BY <2>1 DEF TornShown, Open
<1> QED BY <1>1, <1>2, <1>3

LEMMA CloseStep ==
    ASSUME TradeInv, NEW k \in Keys, NEW price \in Nat, Open(k),
           Close(k, object[positions[k]], price), UNCHANGED <<object, settled, orders, trades>>
    PROVE  /\ Objects' /\ Halfway' /\ Netted' /\ TornShown'
           /\ positions' \in [Keys -> 0..MaxTrades]
           /\ \A l \in Keys : positions'[l] # 0 => object'[positions'[l]] # NoPosition
           /\ available' \in Int /\ usedMargin' \in Int /\ net' \in [Keys -> Int]
           /\ mislaid' \subseteq Keys /\ torn' \subseteq Numbers
<1> DEFINE p == object[positions[k]]
<1>1. TypeOK /\ Objects /\ Halfway /\ Netted /\ TornShown /\ MaxTrades \in Nat
  BY Constants DEF TradeInv
<1>2. p \in Positions /\ positions[k] \in Numbers /\ positions[k] # 0
  BY <1>1, OpenPosition DEF Open
<1>3. p.qty \in Int /\ p.avg \in Int
  BY <1>2 DEF Positions
<1>4. /\ positions' = [positions EXCEPT ![k] = 0]
      /\ net' = [net EXCEPT ![k] = 0] /\ mislaid' = mislaid \ {k}
      /\ torn' = torn \cup {n \in {positions[k]} : \E c \in Clients : Merging(c, n)}
      /\ UNCHANGED <<object, settled, orders, trades>>
  BY DEF Close, Forget
<1>5. positions \in [Keys -> 0..MaxTrades] /\ net \in [Keys -> Int] /\ mislaid \subseteq Keys
      /\ available \in Int /\ usedMargin \in Int /\ torn \subseteq Numbers
  BY <1>1 DEF TypeOK
<1>6. \A l \in Keys : positions'[l] = IF l = k THEN 0 ELSE positions[l]
  BY <1>4, <1>5
<1>7. available' \in Int /\ usedMargin' \in Int
  <2>1. 2 * price * p.qty \in Int /\ 3 * (p.avg * p.qty) \in Int
    BY <1>3
  <2> QED BY <1>5, <2>1 DEF Close
<1>8. /\ positions' \in [Keys -> 0..MaxTrades] /\ net' \in [Keys -> Int] /\ mislaid' \subseteq Keys
      /\ torn' \subseteq Numbers
  BY <1>1, <1>2, <1>4, <1>5
<1>9. \A l \in Keys : positions'[l] # 0 => object'[positions'[l]] # NoPosition
  BY <1>1, <1>4, <1>6 DEF TypeOK
<1>10. OwnPositions' /\ OwnFinds'
  BY <1>1, <1>4, <1>6 DEF Objects, OwnPositions, OwnFinds, Active
<1>11. FreshNumbers'
  <2>1. \A c \in Clients : Active(c) => orders[c].n # 0 /\ orders[c].n # positions[k] /\ orders[c].n \notin torn
    BY <1>1, ActiveOrder DEF Objects, FreshNumbers
  <2>2. \A c \in Clients : Active(c) => orders[c].n \notin torn'
    BY <1>4, <2>1
  <2> QED BY <1>1, <1>4, <1>6, <2>1, <2>2 DEF Objects, FreshNumbers, Active
<1>12. NoneToCome'
  <2>1. trades \in Nat /\ positions[k] <= trades
    BY <1>1 DEF TypeOK, Objects, NoneToCome
  <2> QED BY <1>1, <1>4, <1>6, <2>1 DEF Objects, NoneToCome, Active
<1>13. \A c \in Clients, n \in Numbers : Merging(c, n)' <=> Merging(c, n)
  BY <1>4 DEF Merging
<1>14. Halfway'
  <2> SUFFICES ASSUME NEW n \in Numbers \ torn' PROVE HalfwayAt(n)'
    BY DEF Halfway
  <2>1. HalfwayAt(n)
    BY <1>1, <1>4 DEF Halfway
  <2> QED BY <1>4, <1>13, <2>1, HalfwayKept
<1>15. Netted'
  <2> SUFFICES ASSUME NEW l \in Keys \ mislaid' PROVE net'[l] = Net(l)'
    BY DEF Netted, Net
  <2>1. CASE l = k
    BY <1>4, <1>5, <1>6, <2>1 DEF Net, Open
  <2>2. CASE l # k
    <3>1. l \notin mislaid /\ net'[l] = net[l] /\ positions'[l] = positions[l]
      BY <1>4, <1>5, <1>6, <2>2
    <3> QED BY <1>1, <1>4, <3>1 DEF Net, Open, Netted
  <2> QED BY <2>1, <2>2
<1>16. TornShown'
  <2> SUFFICES ASSUME NEW l \in Keys \ mislaid', Open(l)', positions'[l] \in torn'
               PROVE  \E c \in Clients : Merging(c, positions[l])'
    BY DEF TornShown
  <2>1. l # k /\ positions'[l] = positions[l] /\ l \notin mislaid
    BY <1>4, <1>6 DEF Open
  <2>2. positions[l] # positions[k]
    BY <1>1, <1>2, <2>1 DEF Objects, OwnPositions
  <2>3. positions[l] \in torn /\ Open(l)
    BY <1>4, <2>1, <2>2 DEF Open
  <2>4. \E c \in Clients : Merging(c, positions[l])
    BY <1>1, <2>1, <2>3 DEF TornShown
  <2> QED BY <1>4, <2>1, <2>4 DEF Merging
<1> QED BY <1>7, <1>8, <1>9, <1>10, <1>11, <1>12, <1>14, <1>15, <1>16 DEF Objects

LEMMA OnPriceUpdateStep ==
    ASSUME TradeInv, NEW k \in Keys, NEW price \in Prices, OnPriceUpdate(k, price)
    PROVE  TradeInv'
<1>1. TypeOK /\ Objects /\ Halfway /\ Netted /\ TornShown /\ price \in Nat /\ MaxTrades \in Nat
  BY Constants DEF TradeInv
<1>2. UNCHANGED <<object, orders, trades, settled, overlapped>> /\ lastPrices' \in [Keys -> Prices \cup {0}]
  BY <1>1 DEF OnPriceUpdate, TypeOK
<1>3. \A c \in Clients, n \in Nat : Merging(c, n)' <=> Merging(c, n)
  BY <1>2 DEF Merging
<1>4. CASE Open(k) /\ Close(k, object[positions[k]], price)
  <2>1. /\ Objects' /\ Halfway' /\ Netted' /\ TornShown'
        /\ positions' \in [Keys -> 0..MaxTrades]
        /\ \A l \in Keys : positions'[l] # 0 => object'[positions'[l]] # NoPosition
        /\ available' \in Int /\ usedMargin' \in Int /\ net' \in [Keys -> Int]
        /\ mislaid' \subseteq Keys /\ torn' \subseteq Numbers
    BY <1>1, <1>2, <1>4, CloseStep
  <2>2. TypeOK'
    BY <1>1, <1>2, <1>3, <2>1 DEF TypeOK
  <2> QED BY <2>1, <2>2 DEF TradeInv
<1>5. CASE UNCHANGED <<positions, money, net, mislaid, torn>>
  <2>1. TypeOK'
    BY <1>1, <1>2, <1>3, <1>5 DEF TypeOK, money
  <2>2. Objects'
    BY <1>1, <1>2, <1>5 DEF Objects, OwnPositions, OwnFinds, FreshNumbers, NoneToCome, Active
  <2>3. Numbers \subseteq Nat
    BY DEF Numbers
  <2>4. Halfway' /\ Netted' /\ TornShown'
    BY <1>1, <1>2, <1>3, <1>5, <2>3, PositionsKept
  <2> QED BY <2>1, <2>2, <2>4 DEF TradeInv
<1> QED BY <1>4, <1>5 DEF OnPriceUpdate

LEMMA ManualExitStep ==
    ASSUME TradeInv, NEW k \in Keys, ManualExit(k)
    PROVE  TradeInv'
<1>1. TypeOK /\ MaxTrades \in Nat
  BY Constants DEF TradeInv
<1>2. lastPrices[k] \in Nat
  BY <1>1, LastPriceType
<1>3. /\ Open(k) /\ Close(k, object[positions[k]], lastPrices[k])
      /\ UNCHANGED <<object, lastPrices, orders, trades, settled, overlapped>>
  BY DEF ManualExit
<1>4. /\ Objects' /\ Halfway' /\ Netted' /\ TornShown'
      /\ positions' \in [Keys -> 0..MaxTrades]
      /\ \A l \in Keys : positions'[l] # 0 => object'[positions'[l]] # NoPosition
      /\ available' \in Int /\ usedMargin' \in Int /\ net' \in [Keys -> Int]
      /\ mislaid' \subseteq Keys /\ torn' \subseteq Numbers
  BY <1>2, <1>3, CloseStep
<1>5. \A c \in Clients : Merging(c, 0)' <=> Merging(c, 0)
  BY <1>3 DEF Merging
<1>6. TypeOK'
  BY <1>1, <1>3, <1>4, <1>5 DEF TypeOK
<1> QED BY <1>4, <1>6 DEF TradeInv

\* An order that is dropped leaves the others as they are.
LEMMA DropStep ==
    ASSUME TypeOK, Objects, NEW c \in Clients, orders' = [orders EXCEPT ![c] = Idle],
           UNCHANGED <<positions, trades, torn>>
    PROVE  Objects'
<1>1. \A d \in Clients : Active(d)' => d # c /\ Active(d) /\ orders'[d] = orders[d]
  BY DEF Active, TypeOK
<1> QED BY <1>1 DEF Objects, OwnPositions, OwnFinds, FreshNumbers, NoneToCome

\* An order that goes on, its key, number and position the same.
LEMMA AdvanceStep ==
    ASSUME TypeOK, Objects, NEW c \in Clients, Active(c), NEW o \in Orders, orders' = [orders EXCEPT ![c] = o],
           o.n = orders[c].n, o.key = orders[c].key, o.pos = orders[c].pos,
           torn \subseteq torn', torn' \subseteq torn \cup {orders[c].pos},
           UNCHANGED <<positions, trades>>
    PROVE  /\ Objects'
           /\ orders' \in [Clients -> Orders \cup {Idle}]
           /\ \A d \in Clients : Active(d)' <=> Active(d)
           /\ \A d \in Clients : Active(d) => orders'[d].pos = orders[d].pos
           /\ \A d \in Clients : orders'[d] = IF d = c THEN o ELSE orders[d]
<1>1. o # Idle
  BY IdleIsNoOrder
<1>2. \A d \in Clients : orders'[d] = IF d = c THEN o ELSE orders[d]
  BY DEF TypeOK
<1>3. \A d \in Clients : Active(d)' <=> Active(d)
  BY <1>1, <1>2 DEF Active
<1>4. \A d \in Clients : Active(d) => /\ orders'[d].n = orders[d].n /\ orders'[d].key = orders[d].key
                                      /\ orders'[d].pos = orders[d].pos
  BY <1>2
<1>5. orders' \in [Clients -> Orders \cup {Idle}]
  BY DEF TypeOK
<1>6. OwnPositions' /\ OwnFinds'
  BY <1>3, <1>4 DEF Objects, OwnPositions, OwnFinds
<1>7. FreshNumbers'
  <2>1. \A d \in Clients : Active(d) => orders[d].n \notin torn'
    BY DEF Objects, FreshNumbers
  <2> QED BY <1>3, <1>4, <2>1 DEF Objects, FreshNumbers
<1>8. NoneToCome'
  BY <1>3, <1>4 DEF Objects, NoneToCome
<1> QED BY <1>2, <1>3, <1>4, <1>5, <1>6, <1>7, <1>8 DEF Objects

LEMMA PriceOrderStep ==
    ASSUME TradeInv, NEW c \in Clients, NEW k \in Keys, NEW side \in Sides, NEW lots \in Lots,
           NEW exits \in Exits, PriceOrder(c, k, side, lots, exits)
    PROVE  TradeInv'
<1>1. TypeOK /\ Objects /\ Halfway /\ Netted /\ TornShown /\ MaxTrades \in Nat
  BY Constants DEF TradeInv
<1> DEFINE o == [state |-> "priced", n |-> trades + 1, key |-> k, side |-> side, qty |-> lots,
                 price |-> lastPrices[k], exits |-> exits, pos |-> 0, total |-> 0]
<1>2. /\ orders' = [orders EXCEPT ![c] = o] /\ trades' = trades + 1 /\ orders[c] = Idle
      /\ UNCHANGED <<positions, object, lastPrices, available, usedMargin, net, mislaid, settled, torn, overlapped>>
  BY DEF PriceOrder, money, history
<1>3. trades \in Nat /\ trades' \in 0..MaxTrades /\ trades + 1 \in Numbers
  BY <1>1 DEF PriceOrder, TypeOK, Numbers
<1>4. o \in Orders
  <2>1. lastPrices[k] \in Nat /\ lots \in Nat \ {0} /\ 0 \in 0..MaxTrades
    BY <1>1, Constants, LastPriceType
  <2> QED BY <1>3, <2>1 DEF Orders
<1>5. o # Idle /\ o.pos = 0 /\ o.n = trades + 1 /\ o.state \notin MergeStates
  BY <1>4, IdleIsNoOrder DEF MergeStates, Follows, LastOnes
<1> HIDE DEF o
<1>6. orders \in [Clients -> Orders \cup {Idle}]
  BY <1>1 DEF TypeOK
<1>7. \A d \in Clients : orders'[d] = IF d = c THEN o ELSE orders[d]
  BY <1>2, <1>6
<1>8. /\ \A d \in Clients, n \in Nat : Merging(d, n)' <=> Merging(d, n)
      /\ \A d \in Clients, n \in Nat : Merging(d, n) => orders'[d] = orders[d]
  BY <1>2, <1>5, <1>7 DEF Merging
<1>9. TypeOK'
  <2>1. orders' \in [Clients -> Orders \cup {Idle}]
    BY <1>2, <1>4, <1>6
  <2>2. \A d \in Clients : orders'[d] # Idle /\ orders'[d].pos # 0 => object'[orders'[d].pos] # NoPosition
    BY <1>1, <1>2, <1>5, <1>7 DEF TypeOK
  <2> QED BY <1>1, <1>2, <1>3, <1>8, <2>1, <2>2 DEF TypeOK
<1>10. \A d \in Clients : Active(d) => orders[d].n \in Nat \ {0} /\ orders[d].pos \in Nat
                                       /\ orders[d].n <= trades /\ orders[d].pos <= trades
  BY <1>1, ActiveOrder DEF Objects, FreshNumbers, NoneToCome
<1>11. /\ \A l \in Keys : positions[l] \in Nat /\ positions[l] <= trades
       /\ \A n \in torn : n \in Nat /\ n <= trades
  BY <1>1 DEF TypeOK, Objects, NoneToCome, Numbers
<1>12. OwnPositions' /\ OwnFinds'
  BY <1>1, <1>2, <1>5, <1>7 DEF Objects, OwnPositions, OwnFinds, Active
<1>13. FreshNumbers'
  <2> SUFFICES ASSUME NEW d \in Clients, orders'[d] # Idle
               PROVE  /\ orders'[d].n <= trades' /\ orders'[d].n \notin torn'
                      /\ \A l \in Keys : positions'[l] # orders'[d].n
                      /\ \A e \in Clients : orders'[e] # Idle =>
                           orders'[e].pos # orders'[d].n /\ (e # d => orders'[e].n # orders'[d].n)
    BY DEF FreshNumbers, Active
  <2>1. CASE d = c
    <3>1. orders'[d].n = trades + 1 /\ orders'[d].pos = 0
      BY <1>5, <1>7, <2>1
    <3>2. trades + 1 \notin torn /\ \A l \in Keys : positions'[l] # trades + 1
      BY <1>2, <1>3, <1>11
    <3>3. \A e \in Clients : orders'[e] # Idle =>
             orders'[e].pos # trades + 1 /\ (e # d => orders'[e].n # trades + 1)
      BY <1>3, <1>5, <1>7, <1>10, <2>1 DEF Active
    <3> QED BY <1>2, <1>3, <3>1, <3>2, <3>3
  <2>2. CASE d # c
    <3>1. Active(d) /\ orders'[d] = orders[d]
      BY <1>7, <2>2 DEF Active
    <3>2. orders[d].n \in Nat \ {0} /\ orders[d].n <= trades
      BY <1>10, <3>1
    <3>3. orders'[d].n \notin torn' /\ \A l \in Keys : positions'[l] # orders'[d].n
      BY <1>1, <1>2, <3>1 DEF Objects, FreshNumbers
    <3>4. \A e \in Clients : orders'[e] # Idle =>
             orders'[e].pos # orders'[d].n /\ (e # d => orders'[e].n # orders'[d].n)
      <4> SUFFICES ASSUME NEW e \in Clients, orders'[e] # Idle
                   PROVE  orders'[e].pos # orders'[d].n /\ (e # d => orders'[e].n # orders'[d].n)
        OBVIOUS
      <4>1. CASE e = c
        BY <1>3, <1>5, <1>7, <3>1, <3>2, <4>1
      <4>2. CASE e # c
        BY <1>1, <1>7, <3>1, <4>2 DEF Objects, FreshNumbers, Active
      <4> QED BY <4>1, <4>2
    <3> QED BY <1>2, <1>3, <3>1, <3>2, <3>3, <3>4
  <2> QED BY <2>1, <2>2
<1>14. NoneToCome'
  <2>1. (\A l \in Keys : positions'[l] <= trades') /\ \A n \in torn' : n <= trades'
    BY <1>2, <1>3, <1>11
  <2>2. \A d \in Clients : orders'[d] # Idle => orders'[d].pos <= trades'
    BY <1>2, <1>3, <1>5, <1>7, <1>10 DEF Active
  <2> QED BY <2>1, <2>2 DEF NoneToCome, Active
<1>15. Halfway' /\ Netted' /\ TornShown'
  <2>1. Numbers \subseteq Nat
    BY DEF Numbers
  <2> QED BY <1>1, <1>2, <1>8, <2>1, PositionsKept
<1> QED BY <1>9, <1>12, <1>13, <1>14, <1>15 DEF TradeInv, Objects

LEMMA FindPositionStep ==
    ASSUME TradeInv, NEW c \in Clients, FindPosition(c)
    PROVE  TradeInv'
<1>1. TypeOK /\ Objects /\ Halfway /\ Netted /\ TornShown /\ MaxTrades \in Nat
  BY Constants DEF TradeInv
<1> DEFINE found == positions[orders[c].key]
           o == [orders[c] EXCEPT !.state = "found", !.pos = found]
<1>2. /\ Active(c) /\ orders' = [orders EXCEPT ![c] = o] /\ orders[c].state = "priced"
      /\ UNCHANGED <<positions, object, lastPrices, available, usedMargin, trades,
                     net, mislaid, settled, torn, overlapped>>
  BY DEF FindPosition, Active, money, history
<1>3. orders[c] \in Orders /\ orders[c].key \in Keys
  BY <1>1, <1>2, ActiveOrder DEF Orders
<1>4. found \in 0..MaxTrades
  BY <1>1, <1>3 DEF TypeOK
<1>5. o \in Orders /\ o.pos = found /\ o.key = orders[c].key /\ o.n = orders[c].n /\ o.state = "found"
  BY <1>3, <1>4 DEF Orders
<1>6. o # Idle /\ o.state \notin MergeStates /\ orders[c].state \notin MergeStates
  BY <1>2, <1>5, IdleIsNoOrder DEF MergeStates, Follows, LastOnes
<1> HIDE DEF o
<1>7. \A d \in Clients : orders'[d] = IF d = c THEN o ELSE orders[d]
  BY <1>1, <1>2 DEF TypeOK
<1>8. \A d \in Clients : Active(d)' <=> Active(d)
  BY <1>2, <1>6, <1>7 DEF Active
<1>9. \A d \in Clients : Active(d) => orders'[d].n = orders[d].n /\ orders'[d].key = orders[d].key
                                      /\ (d # c => orders'[d].pos = orders[d].pos)
  BY <1>5, <1>7
<1>10. /\ \A d \in Clients, n \in Nat : Merging(d, n)' <=> Merging(d, n)
       /\ \A d \in Clients, n \in Nat : Merging(d, n) => orders'[d] = orders[d]
  BY <1>2, <1>6, <1>7 DEF Merging
<1>11. TypeOK'
  <2>1. orders' \in [Clients -> Orders \cup {Idle}]
    BY <1>1, <1>2, <1>5 DEF TypeOK
  <2>2. \A d \in Clients : orders'[d] # Idle /\ orders'[d].pos # 0 => object'[orders'[d].pos] # NoPosition
    BY <1>1, <1>2, <1>3, <1>5, <1>7 DEF TypeOK
  <2> QED BY <1>1, <1>2, <1>10, <2>1, <2>2 DEF TypeOK
<1>12. OwnPositions'
  BY <1>1, <1>2 DEF Objects, OwnPositions
<1>13. OwnFinds'
  <2> SUFFICES ASSUME NEW d \in Clients, NEW k \in Keys, Active(d)', orders'[d].pos # 0,
                      positions'[k] = orders'[d].pos
               PROVE  k = orders'[d].key
    BY DEF OwnFinds
  <2>1. CASE d = c
    BY <1>1, <1>2, <1>3, <1>5, <1>7, <2>1 DEF Objects, OwnPositions
  <2>2. CASE d # c
    BY <1>1, <1>2, <1>7, <1>8, <2>2 DEF Objects, OwnFinds
  <2> QED BY <2>1, <2>2
<1>14. FreshNumbers'
  <2> SUFFICES ASSUME NEW d \in Clients, Active(d)'
               PROVE  /\ orders'[d].n <= trades' /\ orders'[d].n \notin torn'
                      /\ \A k \in Keys : positions'[k] # orders'[d].n
                      /\ \A e \in Clients : Active(e)' =>
                           orders'[e].pos # orders'[d].n /\ (e # d => orders'[e].n # orders'[d].n)
    BY DEF FreshNumbers
  <2>1. Active(d) /\ orders'[d].n = orders[d].n
    BY <1>8, <1>9
  <2>2. orders[d].n <= trades /\ orders[d].n \notin torn /\ \A k \in Keys : positions[k] # orders[d].n
    BY <1>1, <2>1 DEF Objects, FreshNumbers
  <2>3. ASSUME NEW e \in Clients, Active(e)'
        PROVE  orders'[e].pos # orders'[d].n /\ (e # d => orders'[e].n # orders'[d].n)
    <3>1. Active(e) /\ orders'[e].n = orders[e].n
      BY <1>8, <1>9, <2>3
    <3>2. orders'[e].pos = orders[e].pos \/ orders'[e].pos = found
      BY <1>5, <1>7
    <3>3. orders[e].pos # orders[d].n /\ (e # d => orders[e].n # orders[d].n)
      BY <1>1, <2>1, <3>1 DEF Objects, FreshNumbers
    <3> QED BY <1>3, <2>1, <2>2, <3>1, <3>2, <3>3
  <2> QED BY <1>2, <2>1, <2>2, <2>3
<1>15. NoneToCome'
  <2>1. (\A k \in Keys : positions'[k] <= trades') /\ \A n \in torn' : n <= trades'
    BY <1>1, <1>2 DEF Objects, NoneToCome
  <2>2. \A d \in Clients : Active(d)' => orders'[d].pos <= trades'
    BY <1>1, <1>2, <1>3, <1>5, <1>7, <1>8 DEF Objects, NoneToCome
  <2> QED BY <2>1, <2>2 DEF NoneToCome
<1>16. Halfway' /\ Netted' /\ TornShown'
  <2>1. Numbers \subseteq Nat
    BY DEF Numbers
  <2> QED BY <1>1, <1>2, <1>10, <2>1, PositionsKept
<1> QED BY <1>11, <1>12, <1>13, <1>14, <1>15, <1>16 DEF TradeInv, Objects

\* The order goes on, or is refused.
LEMMA CapitalStep ==
    ASSUME TradeInv, NEW c \in Clients, CheckCapital(c) \/ ChargeCapital(c)
    PROVE  TradeInv'
<1>1. TypeOK /\ Objects /\ Halfway /\ Netted /\ TornShown /\ MaxTrades \in Nat
  BY Constants DEF TradeInv
<1>2. Active(c) /\ orders[c] \in Orders /\ orders[c].state \notin MergeStates
  <2>1. Active(c) /\ orders[c].state \in {"found", "checked"}
    BY DEF CheckCapital, ChargeCapital, Moves, Active
  <2> QED BY <1>1, <2>1, ActiveOrder DEF MergeStates, Follows, LastOnes
<1>3. UNCHANGED <<positions, object, lastPrices, trades, net, mislaid, settled, torn>>
  BY DEF CheckCapital, ChargeCapital, money, history
<1>4. available' \in Int /\ usedMargin' \in Int /\ overlapped' \in BOOLEAN
  <2>1. orders[c].price \in Nat /\ orders[c].qty \in Nat
    BY <1>2 DEF Orders
  <2>2. Charge(orders[c]) \in Int
    BY <2>1 DEF Charge
  <2>3. available \in Int /\ usedMargin \in Int /\ overlapped \in BOOLEAN
    BY <1>1 DEF TypeOK
  <2>4. CASE CheckCapital(c)
    <3>1. UNCHANGED <<available, usedMargin>>
      BY <2>4 DEF CheckCapital, money
    <3>2. overlapped' \in BOOLEAN
      BY <2>3, <2>4, Zenon DEF CheckCapital
    <3> QED BY <2>3, <3>1, <3>2
  <2>5. CASE ChargeCapital(c)
    <3>1. available' \in Int /\ usedMargin' \in Int
      BY <2>2, <2>3, <2>5 DEF ChargeCapital
    <3>2. overlapped' = overlapped
      BY <2>5 DEF ChargeCapital, history
    <3> QED BY <2>3, <3>1, <3>2
  <2> QED BY <2>4, <2>5
<1>5. Numbers \subseteq Nat
  BY DEF Numbers
<1>6. CASE orders' = [orders EXCEPT ![c] = Idle]
  <2>1. Objects'
    BY <1>1, <1>3, <1>6, DropStep
  <2>2. orders' \in [Clients -> Orders \cup {Idle}]
    BY <1>1, <1>6 DEF TypeOK
  <2>3. \A d \in Clients : orders'[d] # Idle => orders'[d] = orders[d]
    BY <1>1, <1>6 DEF TypeOK
  <2>4. \A d \in Clients : orders'[d] # Idle /\ orders'[d].pos # 0 => object'[orders'[d].pos] # NoPosition
    BY <1>1, <1>3, <2>3 DEF TypeOK
  <2>5. /\ \A d \in Clients, n \in Nat : Merging(d, n)' <=> Merging(d, n)
        /\ \A d \in Clients, n \in Nat : Merging(d, n) => orders'[d] = orders[d]
    BY <1>1, <1>2, <1>6 DEF Merging, TypeOK
  <2>6. TypeOK'
    BY <1>1, <1>3, <1>4, <2>2, <2>4, <2>5 DEF TypeOK
  <2>7. Halfway' /\ Netted' /\ TornShown'
    BY <1>1, <1>3, <1>5, <2>5, PositionsKept
  <2> QED BY <2>1, <2>6, <2>7 DEF TradeInv
<1>7. ASSUME NEW to \in {"checked", "charged"}, orders' = [orders EXCEPT ![c].state = to]
      PROVE  TradeInv'
  <2> DEFINE o == [orders[c] EXCEPT !.state = to]
  <2>1. /\ o \in Orders /\ o.pos = orders[c].pos /\ o.n = orders[c].n /\ o.key = orders[c].key
        /\ o.state \notin MergeStates
    BY <1>2 DEF Orders, MergeStates, Follows, LastOnes
  <2>2. orders' = [orders EXCEPT ![c] = o]
    BY <1>7
  <2> HIDE DEF o
  <2>3. /\ Objects'
        /\ orders' \in [Clients -> Orders \cup {Idle}]
        /\ \A d \in Clients : Active(d)' <=> Active(d)
        /\ \A d \in Clients : Active(d) => orders'[d].pos = orders[d].pos
        /\ \A d \in Clients : orders'[d] = IF d = c THEN o ELSE orders[d]
    BY <1>1, <1>2, <1>3, <2>1, <2>2, AdvanceStep
  <2>4. \A d \in Clients : orders'[d] # Idle /\ orders'[d].pos # 0 => object'[orders'[d].pos] # NoPosition
    BY <1>1, <1>3, <2>3 DEF TypeOK, Active
  <2>5. /\ \A d \in Clients, n \in Nat : Merging(d, n)' <=> Merging(d, n)
        /\ \A d \in Clients, n \in Nat : Merging(d, n) => orders'[d] = orders[d]
    BY <1>2, <2>1, <2>3 DEF Merging
  <2>6. TypeOK'
    BY <1>1, <1>3, <1>4, <2>3, <2>4, <2>5 DEF TypeOK
  <2>7. Halfway' /\ Netted' /\ TornShown'
    BY <1>1, <1>3, <1>5, <2>5, PositionsKept
  <2> QED BY <2>3, <2>6, <2>7 DEF TradeInv
<1>8. \/ orders' = [orders EXCEPT ![c] = Idle]
      \/ orders' = [orders EXCEPT ![c].state = "checked"]
      \/ orders' = [orders EXCEPT ![c].state = "charged"]
  BY DEF CheckCapital, ChargeCapital, Moves
<1> QED BY <1>6, <1>7, <1>8

\* A merge begins: on a position that another order is changing, it tears it.
LEMMA BeginMergeStep ==
    ASSUME TradeInv, NEW c \in Clients, BeginMerge(c)
    PROVE  TradeInv'
<1>1. TypeOK /\ Objects /\ Halfway /\ Netted /\ TornShown /\ MaxTrades \in Nat
  BY Constants DEF TradeInv
<1>2. PICK m : m = orders[c].pos
  OBVIOUS
<1>3. PICK q : q = object[m]
  OBVIOUS
<1> DEFINE o == [orders[c] EXCEPT !.state = Case(q, orders[c]), !.total = Total(q, orders[c])]
<1>4. /\ Active(c) /\ orders[c].state = "charged" /\ m # 0
      /\ orders' = [orders EXCEPT ![c] = o]
      /\ torn' = torn \cup {n \in {m} : \E d \in Clients : Merging(d, n)}
      /\ UNCHANGED <<positions, object, lastPrices, available, usedMargin, trades, net, mislaid, settled, overlapped>>
  BY <1>2, <1>3 DEF BeginMerge, Active, money
<1>5. orders[c] \in Orders /\ m \in Numbers /\ q \in Positions /\ settled[m] \in Positions
  BY <1>1, <1>2, <1>3, <1>4, ActiveOrder
<1>6. Case(q, orders[c]) \in MergeStates /\ Total(q, orders[c]) \in Int
  <2>1. q.qty \in Int /\ orders[c].qty \in Int
    BY <1>5 DEF Positions, Orders
  <2> QED BY <2>1 DEF Case, Total, MergeStates, Follows, LastOnes
<1>7. /\ o \in Orders /\ o.n = orders[c].n /\ o.key = orders[c].key /\ o.pos = m
      /\ o.state \in MergeStates
  BY <1>2, <1>5, <1>6 DEF Orders
<1>8. PICK p \in Orders : p = o
  BY <1>7
<1>9. /\ p.n = orders[c].n /\ p.key = orders[c].key /\ p.pos = m /\ p.state \in MergeStates
      /\ orders' = [orders EXCEPT ![c] = p]
      /\ p = [orders[c] EXCEPT !.state = Case(q, orders[c]), !.total = Total(q, orders[c])]
  BY <1>4, <1>7, <1>8
<1> HIDE DEF o
<1>10. /\ Objects'
       /\ orders' \in [Clients -> Orders \cup {Idle}]
       /\ \A d \in Clients : Active(d)' <=> Active(d)
       /\ \A d \in Clients : Active(d) => orders'[d].pos = orders[d].pos
       /\ \A d \in Clients : orders'[d] = IF d = c THEN p ELSE orders[d]
  BY <1>1, <1>2, <1>4, <1>9, AdvanceStep
<1>11. orders[c].state \notin MergeStates /\ p # Idle
  BY <1>4, IdleIsNoOrder DEF MergeStates, Follows, LastOnes
<1>12. /\ \A d \in Clients, n \in Nat : Merging(d, n)' <=> Merging(d, n) \/ (d = c /\ n = m)
       /\ \A d \in Clients : d # c => orders'[d] = orders[d]
       /\ \A n : ~Merging(c, n)
  BY <1>9, <1>10, <1>11 DEF Merging
<1>13. TypeOK'
  <2>1. \A d \in Clients : orders'[d] # Idle /\ orders'[d].pos # 0 => object'[orders'[d].pos] # NoPosition
    BY <1>1, <1>4, <1>10 DEF TypeOK, Active
  <2>2. torn' \subseteq Numbers
    BY <1>1, <1>4, <1>5 DEF TypeOK
  <2>3. \A d \in Clients : ~Merging(d, 0)'
    BY <1>1, <1>4, <1>12 DEF TypeOK
  <2> QED BY <1>1, <1>4, <1>10, <2>1, <2>2, <2>3 DEF TypeOK
<1>14. Halfway'
  <2> SUFFICES ASSUME NEW n \in Numbers \ torn' PROVE HalfwayAt(n)'
    BY DEF Halfway
  <2>1. HalfwayAt(n) /\ n \in Nat
    BY <1>1, <1>4 DEF Halfway, Numbers
  <2>2. CASE n # m
    BY <1>4, <1>12, <2>1, <2>2, HalfwayKept
  <2>3. CASE n = m
    <3>1. \A d \in Clients : ~Merging(d, m)
      BY <1>4, <2>3
    <3>2. SameLots(settled[m], q) /\ settled[m] \in Whole
      BY <1>3, <1>5, <2>1, <2>3, <3>1, NoPositionIsNone DEF HalfwayAt
    <3>3. InStep(settled[m], q, p)
      BY <1>5, <1>9, <3>2, BegunInStep
    <3>4. \A d \in Clients : Merging(d, m)' <=> d = c
      BY <1>12, <2>1, <2>3, <3>1
    <3>5. orders'[c] = p /\ object'[m] = q /\ settled'[m] = settled[m]
      BY <1>3, <1>4, <1>10
    <3>6. InStep(settled'[m], object'[m], orders'[c])
      BY <3>3, <3>5
    <3>7. \A d \in Clients : Merging(d, m)' => InStep(settled'[m], object'[m], orders'[d])
      BY <3>4, <3>6
    <3>8. HalfwayAt(m)'
      BY <3>2, <3>4, <3>5, <3>7 DEF HalfwayAt
    <3> QED BY <2>3, <3>8
  <2> QED BY <2>2, <2>3
<1>15. Netted'
  BY <1>1, <1>4 DEF Netted, Net, Open
<1>16. TornShown'
  <2> SUFFICES ASSUME NEW l \in Keys \ mislaid', Open(l)', positions'[l] \in torn'
               PROVE  \E d \in Clients : Merging(d, positions[l])'
    BY DEF TornShown
  <2>1. l \in Keys \ mislaid /\ Open(l) /\ positions[l] \in torn \cup {m} /\ positions'[l] = positions[l]
    BY <1>4 DEF Open
  <2>2. PICK n \in Nat : n = positions[l]
    BY <1>1 DEF TypeOK
  <2>3. \E d \in Clients : Merging(d, n)'
    <3>1. CASE n = m
      BY <1>12, <3>1
    <3>2. CASE n \in torn
      <4>1. PICK d \in Clients : Merging(d, n)
        BY <1>1, <2>1, <2>2, <3>2 DEF TornShown
      <4> QED BY <1>12, <4>1
    <3> QED BY <2>1, <2>2, <3>1, <3>2
  <2> QED BY <2>1, <2>2, <2>3 DEF Merging
<1> QED BY <1>10, <1>13, <1>14, <1>15, <1>16 DEF TradeInv

\* An assignment that is not the last one.
LEMMA AssignStep ==
    ASSUME TradeInv, NEW c \in Clients, Assign(c)
    PROVE  TradeInv'
<1>1. TypeOK /\ Objects /\ Halfway /\ Netted /\ TornShown /\ MaxTrades \in Nat
  BY Constants DEF TradeInv
<1>2. PICK m, to : m = orders[c].pos /\ to = Follows[orders[c].state]
  OBVIOUS
<1> DEFINE o == [orders[c] EXCEPT !.state = to]
<1>3. /\ Active(c) /\ orders[c].state \in DOMAIN Follows
      /\ orders' = [orders EXCEPT ![c] = o]
      /\ object' = [object EXCEPT ![m] = Assigned(object[m], orders[c])]
      /\ UNCHANGED <<positions, lastPrices, available, usedMargin, trades,
                     net, mislaid, settled, torn, overlapped>>
  BY <1>2 DEF Assign, Active, money, history
<1>4. Merging(c, m)
  BY <1>2, <1>3 DEF Merging, MergeStates, Active
<1>5. PICK q : q = Assigned(object[m], orders[c])
  OBVIOUS
<1>6. /\ orders[c] \in Orders /\ m \in Numbers /\ m # 0 /\ m \in Nat /\ object[m] \in Positions
      /\ settled[m] \in Positions
  BY <1>1, <1>2, <1>4, MergingOrder, ActiveOrder
<1>7. q \in Positions /\ q # NoPosition
  BY <1>3, <1>5, <1>6, AssignedType DEF MergeStates
<1>8. to \in MergeStates
  BY <1>2, <1>3 DEF MergeStates, Follows, LastOnes
<1>9. /\ o \in Orders /\ o.n = orders[c].n /\ o.key = orders[c].key /\ o.pos = m /\ o.state = to
  BY <1>2, <1>6, <1>8 DEF Orders
<1>10. PICK p \in Orders : p = o
  BY <1>9
<1>11. /\ p.n = orders[c].n /\ p.key = orders[c].key /\ p.pos = orders[c].pos /\ p.state = to
       /\ orders' = [orders EXCEPT ![c] = p] /\ p = [orders[c] EXCEPT !.state = to]
  BY <1>2, <1>3, <1>9, <1>10
<1> HIDE DEF o
<1>12. /\ Objects'
       /\ orders' \in [Clients -> Orders \cup {Idle}]
       /\ \A d \in Clients : Active(d)' <=> Active(d)
       /\ \A d \in Clients : Active(d) => orders'[d].pos = orders[d].pos
       /\ \A d \in Clients : orders'[d] = IF d = c THEN p ELSE orders[d]
  BY <1>1, <1>3, <1>11, AdvanceStep
<1>13. /\ \A d \in Clients, n \in Nat : Merging(d, n)' <=> Merging(d, n)
       /\ \A d \in Clients : d # c => orders'[d] = orders[d]
  BY <1>3, <1>4, <1>8, <1>11, <1>12, IdleIsNoOrder DEF Merging, Active
<1>14. \A n \in Numbers : object'[n] = IF n = m THEN q ELSE object[n]
  BY <1>1, <1>3, <1>5 DEF TypeOK
<1>15. TypeOK'
  <2>1. \A d \in Clients : orders'[d] # Idle /\ orders'[d].pos # 0 => object'[orders'[d].pos] # NoPosition
    <3> SUFFICES ASSUME NEW d \in Clients, Active(d), orders[d].pos # 0
                 PROVE  object'[orders'[d].pos] # NoPosition
      BY <1>12 DEF Active
    <3>1. orders'[d].pos = orders[d].pos /\ orders[d].pos \in Numbers
      BY <1>1, <1>12, ActiveOrder
    <3>2. object[orders[d].pos] # NoPosition
      BY <1>1 DEF TypeOK, Active
    <3> QED BY <1>7, <1>14, <3>1, <3>2
  <2>2. \A k \in Keys : positions'[k] # 0 => object'[positions'[k]] # NoPosition
    BY <1>1, <1>3, <1>7, <1>14, OpenPosition DEF TypeOK, Open
  <2>3. object' \in [Numbers -> Positions \cup {NoPosition}]
    BY <1>1, <1>3, <1>5, <1>7 DEF TypeOK
  <2>4. \A n \in Numbers : settled'[n] = NoPosition <=> object'[n] = NoPosition
    BY <1>1, <1>3, <1>6, <1>7, <1>14, NoPositionIsNone DEF TypeOK
  <2>5. \A d \in Clients : ~Merging(d, 0)'
    BY <1>1, <1>13 DEF TypeOK
  <2> QED BY <1>1, <1>3, <1>12, <2>1, <2>2, <2>3, <2>4, <2>5 DEF TypeOK
<1>16. Halfway'
  <2> SUFFICES ASSUME NEW n \in Numbers \ torn' PROVE HalfwayAt(n)'
    BY DEF Halfway
  <2>1. HalfwayAt(n) /\ n \in Nat
    BY <1>1, <1>3 DEF Halfway, Numbers
  <2>2. CASE n # m
    <3>1. \A d \in Clients : Merging(d, n) => d # c
      BY <1>2, <2>2 DEF Merging
    <3>2. \A d \in Clients : Merging(d, n) => orders'[d] = orders[d]
      BY <1>13, <3>1
    <3>3. settled'[n] = settled[n] /\ object'[n] = object[n]
      BY <1>3, <1>14, <2>2
    <3> QED BY <1>13, <2>1, <3>2, <3>3, HalfwayKept
  <2>3. CASE n = m
    <3>1. settled[m] \in Whole /\ InStep(settled[m], object[m], orders[c])
      BY <1>4, <1>6, <2>1, <2>3, NoPositionIsNone DEF HalfwayAt
    <3>2. InStep(settled[m], q, p)
      BY <1>2, <1>3, <1>5, <1>6, <1>11, <3>1, AssignedInStep
    <3>3. \A d \in Clients : Merging(d, m)' <=> d = c
      BY <1>4, <1>13, <2>1, <2>3 DEF HalfwayAt
    <3>4. orders'[c] = p /\ object'[m] = q /\ settled'[m] = settled[m]
      BY <1>3, <1>6, <1>12, <1>14
    <3>5. \A d \in Clients : Merging(d, m)' => InStep(settled'[m], object'[m], orders'[d])
      BY <3>2, <3>3, <3>4
    <3>6. HalfwayAt(m)'
      BY <3>1, <3>3, <3>4, <3>5 DEF HalfwayAt
    <3> QED BY <2>3, <3>6
  <2> QED BY <2>2, <2>3
<1>17. Netted'
  BY <1>1, <1>3 DEF Netted, Net, Open
<1>18. TornShown'
  <2> SUFFICES ASSUME NEW l \in Keys \ mislaid', Open(l)', positions'[l] \in torn'
               PROVE  \E d \in Clients : Merging(d, positions[l])'
    BY DEF TornShown
  <2>1. PICK n \in Nat : n = positions[l]
    BY <1>1 DEF TypeOK
  <2>2. \E d \in Clients : Merging(d, n)
    BY <1>1, <1>3, <2>1 DEF TornShown, Open
  <2>3. \E d \in Clients : Merging(d, n)'
    BY <1>13, <2>2
  <2> QED BY <1>3, <2>1, <2>3 DEF Merging
<1> QED BY <1>12, <1>15, <1>16, <1>17, <1>18 DEF TradeInv

\* What an order does that is through.
LEMMA DoneFacts ==
    ASSUME TradeInv, NEW c \in Clients, EnterPosition(c) \/ FinishMerge(c)
    PROVE  /\ Active(c) /\ orders[c] \in Orders /\ orders[c].key \in Keys
           /\ orders' = [orders EXCEPT ![c] = Idle]
           /\ \A d \in Clients : Active(d)' <=> Active(d) /\ d # c
           /\ \A d \in Clients : d # c => orders'[d] = orders[d]
           /\ \A d \in Clients, n \in Nat : Merging(d, n)' <=> Merging(d, n) /\ d # c
           /\ orders' \in [Clients -> Orders \cup {Idle}]
           /\ UNCHANGED <<lastPrices, available, usedMargin, trades, torn, overlapped>>
           /\ net' = [net EXCEPT ![orders[c].key] = net[orders[c].key] + Signed(orders[c].side, orders[c].qty)]
           /\ net' \in [Keys -> Int]
           /\ mislaid' = IF orders[c].pos = positions[orders[c].key] /\ orders[c].pos \notin torn
                         THEN mislaid ELSE mislaid \cup {orders[c].key}
           /\ mislaid' \subseteq Keys
<1>1. TypeOK
  BY DEF TradeInv
<1>2. PICK p : Done(c, p)
  BY DEF EnterPosition, FinishMerge
<1>3. Active(c) /\ orders' = [orders EXCEPT ![c] = Idle]
      /\ UNCHANGED <<lastPrices, available, usedMargin, trades, torn, overlapped>>
  BY <1>2 DEF EnterPosition, FinishMerge, Done, Active, money
<1>4. orders[c] \in Orders
  BY <1>1, <1>3, ActiveOrder
<1>5. orders[c].key \in Keys /\ orders[c].qty \in Nat
  BY <1>4 DEF Orders
<1>6. orders' \in [Clients -> Orders \cup {Idle}]
  BY <1>1, <1>3 DEF TypeOK
<1>7. \A d \in Clients : orders'[d] = IF d = c THEN Idle ELSE orders[d]
  BY <1>1, <1>3 DEF TypeOK
<1>8. net' = [net EXCEPT ![orders[c].key] = net[orders[c].key] + Signed(orders[c].side, orders[c].qty)]
  BY <1>2 DEF Done, Signed
<1>9. net' \in [Keys -> Int]
  <2>1. net \in [Keys -> Int] /\ Signed(orders[c].side, orders[c].qty) \in Int
    BY <1>1, <1>5 DEF TypeOK, Signed
  <2>2. net[orders[c].key] + Signed(orders[c].side, orders[c].qty) \in Int
    BY <1>5, <2>1
  <2> QED BY <1>8, <2>1, <2>2
<1>10. mislaid' = IF orders[c].pos = positions[orders[c].key] /\ orders[c].pos \notin torn
                  THEN mislaid ELSE mislaid \cup {orders[c].key}
  BY <1>2 DEF Done
<1>11. mislaid' \subseteq Keys
  BY <1>1, <1>5, <1>10 DEF TypeOK
<1>12. \A d \in Clients, n \in Nat : Merging(d, n)' <=> Merging(d, n) /\ d # c
  BY <1>7 DEF Merging
<1> QED BY <1>3, <1>4, <1>5, <1>6, <1>7, <1>8, <1>9, <1>10, <1>11, <1>12 DEF Active

\* The order found no position: it makes one.
LEMMA EnterPositionStep ==
    ASSUME TradeInv, NEW c \in Clients, EnterPosition(c)
    PROVE  TradeInv'
<1>a. PICK o : o = orders[c]
  OBVIOUS
<1> DEFINE k == o.key
<1>b. PICK new : new = Entry(o)
  OBVIOUS
<1>1. TypeOK /\ Objects /\ Halfway /\ Netted /\ TornShown /\ MaxTrades \in Nat
  BY Constants DEF TradeInv
<1>2. /\ Active(c) /\ o \in Orders /\ k \in Keys
      /\ \A d \in Clients : Active(d)' <=> Active(d) /\ d # c
      /\ \A d \in Clients : d # c => orders'[d] = orders[d]
      /\ \A d \in Clients, n \in Nat : Merging(d, n)' <=> Merging(d, n) /\ d # c
      /\ orders' \in [Clients -> Orders \cup {Idle}]
      /\ UNCHANGED <<lastPrices, available, usedMargin, trades, torn, overlapped>>
      /\ net' = [net EXCEPT ![k] = net[k] + Signed(o.side, o.qty)]
      /\ net' \in [Keys -> Int]
      /\ mislaid' = IF o.pos = positions[k] /\ o.pos \notin torn THEN mislaid ELSE mislaid \cup {k}
      /\ mislaid' \subseteq Keys
  BY <1>a, DoneFacts
<1>3. /\ o.pos = 0 /\ o.state = "charged"
      /\ object' = [object EXCEPT ![o.n] = new] /\ positions' = [positions EXCEPT ![k] = o.n]
      /\ settled' = [settled EXCEPT ![o.n] = new]
  BY <1>a, <1>b DEF EnterPosition, Done
<1>4. o.n \in Numbers /\ o.n \in Nat \ {0} /\ o.n \in 0..MaxTrades
  BY <1>a, <1>1, <1>2, ActiveOrder DEF Numbers
<1>5. new \in Whole /\ new \in Positions /\ new.side = o.side /\ new.qty = o.qty /\ new # NoPosition
  BY <1>b, <1>2, EntryType
<1>6. /\ o.n <= trades /\ o.n \notin torn
      /\ \A l \in Keys : positions[l] # o.n
      /\ \A d \in Clients : Active(d) => orders[d].pos # o.n /\ (d # c => orders[d].n # o.n)
  BY <1>a, <1>1, <1>2 DEF Objects, FreshNumbers
<1>7. \A l \in Keys : positions'[l] = IF l = k THEN o.n ELSE positions[l]
  BY <1>1, <1>3 DEF TypeOK
<1>8. /\ \A i \in Numbers : object'[i] = IF i = o.n THEN new ELSE object[i]
      /\ \A i \in Numbers : settled'[i] = IF i = o.n THEN new ELSE settled[i]
  BY <1>1, <1>3 DEF TypeOK
<1>9. \A l \in Keys : positions[l] # 0 => positions[l] \in Numbers
  BY <1>1, OpenPosition DEF Open
<1>10. \A d \in Clients : ~Merging(d, o.n)
  BY <1>1, <1>6, MergingOrder
<1>11. \A d \in Clients, n \in Nat : Merging(d, n)' <=> Merging(d, n)
  <2>1. \A n : ~Merging(c, n)
    BY <1>a, <1>3 DEF Merging, MergeStates, Follows, LastOnes
  <2> QED BY <1>2, <2>1
<1>12. TypeOK'
  <2>1. positions' \in [Keys -> 0..MaxTrades] /\ object' \in [Numbers -> Positions \cup {NoPosition}]
        /\ settled' \in [Numbers -> Positions \cup {NoPosition}]
    BY <1>1, <1>2, <1>3, <1>4, <1>5 DEF TypeOK
  <2>2. \A l \in Keys : positions'[l] # 0 => object'[positions'[l]] # NoPosition
    BY <1>1, <1>4, <1>5, <1>7, <1>8, <1>9 DEF TypeOK
  <2>3. \A d \in Clients : Active(d)' /\ orders'[d].pos # 0 => object'[orders'[d].pos] # NoPosition
    <3> SUFFICES ASSUME NEW d \in Clients, Active(d)', orders'[d].pos # 0
                 PROVE  object'[orders'[d].pos] # NoPosition
      OBVIOUS
    <3>1. Active(d) /\ orders'[d] = orders[d] /\ orders[d].pos # o.n
      BY <1>2, <1>6
    <3>2. orders[d].pos \in Numbers /\ object[orders[d].pos] # NoPosition
      BY <1>1, <3>1, ActiveOrder DEF TypeOK, Active
    <3> QED BY <1>8, <3>1, <3>2
  <2>4. \A n \in Numbers : settled'[n] = NoPosition <=> object'[n] = NoPosition
    BY <1>1, <1>8 DEF TypeOK
  <2>5. \A d \in Clients : ~Merging(d, 0)'
    BY <1>1, <1>11 DEF TypeOK
  <2> QED BY <1>1, <1>2, <2>1, <2>2, <2>3, <2>4, <2>5 DEF TypeOK, Active
<1>13. OwnPositions'
  BY <1>1, <1>6, <1>7 DEF Objects, OwnPositions
<1>14. OwnFinds'
  BY <1>1, <1>2, <1>6, <1>7 DEF Objects, OwnFinds
<1>15. FreshNumbers'
  <2> SUFFICES ASSUME NEW d \in Clients, Active(d)'
               PROVE  /\ orders'[d].n <= trades' /\ orders'[d].n \notin torn'
                      /\ \A l \in Keys : positions'[l] # orders'[d].n
                      /\ \A e \in Clients : Active(e)' =>
                           orders'[e].pos # orders'[d].n /\ (e # d => orders'[e].n # orders'[d].n)
    BY DEF FreshNumbers
  <2>1. Active(d) /\ d # c /\ orders'[d] = orders[d] /\ orders[d].n # o.n
    BY <1>2, <1>6
  <2> QED BY <1>1, <1>2, <1>7, <2>1 DEF Objects, FreshNumbers
<1>16. NoneToCome'
  BY <1>1, <1>2, <1>6, <1>7 DEF Objects, NoneToCome
<1>17. Halfway'
  <2> SUFFICES ASSUME NEW n \in Numbers \ torn' PROVE HalfwayAt(n)'
    BY DEF Halfway
  <2>1. HalfwayAt(n) /\ n \in Nat
    BY <1>1, <1>2 DEF Halfway, Numbers
  <2>2. CASE n # o.n
    <3>1. \A d \in Clients : Merging(d, n) => orders'[d] = orders[d]
      BY <1>2, <1>11, <2>1
    <3> QED BY <1>8, <1>11, <2>1, <2>2, <3>1, HalfwayKept
  <2>3. CASE n = o.n
    <3>1. \A d \in Clients : ~Merging(d, n)'
      BY <1>10, <1>11, <2>1, <2>3
    <3>2. settled'[n] = new /\ object'[n] = new
      BY <1>8, <2>3
    <3> QED BY <1>5, <3>1, <3>2 DEF HalfwayAt, SameLots
  <2> QED BY <2>2, <2>3
<1>18. Netted'
  <2> SUFFICES ASSUME NEW l \in Keys \ mislaid' PROVE net'[l] = Net(l)'
    BY DEF Netted, Net
  <2>1. l \notin mislaid
    BY <1>2
  <2>2. net[l] = Net(l)
    BY <1>1, <2>1 DEF Netted
  <2>3. CASE l = k
    <3>1. positions[k] = 0 /\ net[k] = 0
      BY <1>2, <1>3, <2>2, <2>3 DEF Net, Open
    <3>2. net'[k] = Signed(o.side, o.qty)
      <4>1. o.qty \in Nat /\ net \in [Keys -> Int]
        BY <1>1, <1>2 DEF Orders, TypeOK
      <4> QED BY <1>2, <3>1, <4>1 DEF Signed
    <3>3. positions'[k] = o.n /\ settled'[o.n] = new
      BY <1>2, <1>4, <1>7, <1>8
    <3> QED BY <1>4, <1>5, <2>3, <3>2, <3>3 DEF Net, Open
  <2>4. CASE l # k
    <3>1. net'[l] = net[l] /\ positions'[l] = positions[l]
      BY <1>1, <1>2, <1>7, <2>4 DEF TypeOK
    <3>2. Open(l) => settled'[positions[l]] = settled[positions[l]]
      BY <1>6, <1>8, <1>9 DEF Open
    <3> QED BY <2>2, <3>1, <3>2 DEF Net, Open
  <2> QED BY <2>3, <2>4
<1>19. TornShown'
  <2> SUFFICES ASSUME NEW l \in Keys \ mislaid', Open(l)', positions'[l] \in torn'
               PROVE  \E d \in Clients : Merging(d, positions[l])'
    BY DEF TornShown
  <2>1. l # k
    BY <1>2, <1>6, <1>7
  <2>2. PICK n \in Nat : n = positions[l]
    BY <1>1 DEF TypeOK
  <2>3. l \in Keys \ mislaid /\ positions'[l] = n /\ n \in torn /\ Open(l)
    BY <1>2, <1>7, <2>1, <2>2 DEF Open
  <2>4. \E d \in Clients : Merging(d, n)
    BY <1>1, <2>2, <2>3 DEF TornShown
  <2>5. \E d \in Clients : Merging(d, n)'
    BY <1>11, <2>4
  <2> QED BY <2>3, <2>5 DEF Merging
<1> QED BY <1>12, <1>13, <1>14, <1>15, <1>16, <1>17, <1>18, <1>19 DEF TradeInv, Objects

\* The last assignment to a position nobody tore makes it what it and the order come to,
\* with a book grown by no more than the order is worth.
LEMMA FinishFacts ==
    ASSUME TradeInv, NEW c \in Clients, FinishMerge(c), NEW o, o = orders[c]
    PROVE  /\ o.pos \in Numbers /\ o.pos \in Nat /\ o.pos # 0 /\ Merging(c, o.pos)
           /\ \E r \in Positions :
                /\ r # NoPosition
                /\ object' = [object EXCEPT ![o.pos] = r] /\ settled' = [settled EXCEPT ![o.pos] = r]
                /\ o.pos \notin torn =>
                     /\ r \in Whole
                     /\ o.state = "remove" =>
                          Signed(settled[o.pos].side, settled[o.pos].qty) + Signed(o.side, o.qty) = 0
                     /\ o.state # "remove" =>
                          Signed(r.side, r.qty)
                            = Signed(settled[o.pos].side, settled[o.pos].qty) + Signed(o.side, o.qty)
                     /\ \A side :
                          /\ BookFact(r, side) \in Nat /\ BookFact(settled[o.pos], side) \in Nat
                          /\ BookFact(r, side)
                               <= BookFact(settled[o.pos], side) + (IF o.side = side THEN o.price * o.qty ELSE 0)
           /\ positions' = IF o.state = "remove" THEN [positions EXCEPT ![o.key] = 0] ELSE positions
<1>1. TypeOK /\ Halfway
  BY DEF TradeInv
<1>2. Merging(c, o.pos) /\ o.state \in LastOnes
  BY DEF FinishMerge, Merging, MergeStates
<1>3. /\ o \in Orders /\ o.pos \in Numbers /\ o.pos # 0 /\ o.pos \in Nat /\ object[o.pos] \in Positions
      /\ settled[o.pos] \in Positions
  BY <1>1, <1>2, MergingOrder, ActiveOrder
<1>4. PICK r : r = Assigned(object[o.pos], o)
  OBVIOUS
<1>5. r \in Positions /\ r # NoPosition
  BY <1>2, <1>3, <1>4, AssignedType DEF MergeStates
<1>6. /\ object' = [object EXCEPT ![o.pos] = r] /\ settled' = [settled EXCEPT ![o.pos] = r]
      /\ positions' = IF o.state = "remove" THEN [positions EXCEPT ![o.key] = 0] ELSE positions
  BY <1>3, <1>4 DEF FinishMerge, Done
<1>7. ASSUME o.pos \notin torn
      PROVE  settled[o.pos] \in Whole /\ InStep(settled[o.pos], object[o.pos], o)
  <2>1. HalfwayAt(o.pos)
    BY <1>1, <1>3, <1>7 DEF Halfway
  <2> QED BY <1>2, <1>3, <2>1, NoPositionIsNone DEF HalfwayAt
<1>8. PICK p : p = settled[o.pos]
  OBVIOUS
<1>9. o.pos \notin torn =>
           /\ r \in Whole
           /\ o.state = "remove" => Signed(p.side, p.qty) + Signed(o.side, o.qty) = 0
           /\ o.state # "remove" => Signed(r.side, r.qty) = Signed(p.side, p.qty) + Signed(o.side, o.qty)
           /\ \A side : /\ BookFact(r, side) \in Nat /\ BookFact(p, side) \in Nat
                        /\ BookFact(r, side) <= BookFact(p, side) + (IF o.side = side THEN o.price * o.qty ELSE 0)
  BY <1>2, <1>3, <1>4, <1>7, <1>8, FinishedWhole
<1> QED BY <1>2, <1>3, <1>5, <1>6, <1>8, <1>9

\* The two are merged, and the option is without a position if the order takes all of it.
LEMMA FinishMergeStep ==
    ASSUME TradeInv, NEW c \in Clients, FinishMerge(c)
    PROVE  TradeInv'
<1>a. PICK o : o = orders[c]
  OBVIOUS
<1>b. PICK p, m, k : p = settled[o.pos] /\ m = o.pos /\ k = o.key
  OBVIOUS
<1>1. TypeOK /\ Objects /\ Halfway /\ Netted /\ TornShown /\ MaxTrades \in Nat
  BY Constants DEF TradeInv
<1>2. /\ Active(c) /\ o \in Orders /\ k \in Keys
      /\ \A d \in Clients : Active(d)' <=> Active(d) /\ d # c
      /\ \A d \in Clients : d # c => orders'[d] = orders[d]
      /\ \A d \in Clients, n \in Nat : Merging(d, n)' <=> Merging(d, n) /\ d # c
      /\ orders' \in [Clients -> Orders \cup {Idle}]
      /\ UNCHANGED <<lastPrices, available, usedMargin, trades, torn, overlapped>>
      /\ net' = [net EXCEPT ![k] = net[k] + Signed(o.side, o.qty)]
      /\ net' \in [Keys -> Int]
      /\ mislaid' = IF m = positions[k] /\ m \notin torn THEN mislaid ELSE mislaid \cup {k}
      /\ mislaid' \subseteq Keys
  BY <1>a, <1>b, DoneFacts
<1>3. PICK r \in Positions :
        /\ r # NoPosition
        /\ object' = [object EXCEPT ![m] = r] /\ settled' = [settled EXCEPT ![m] = r]
        /\ m \notin torn => /\ r \in Whole
                            /\ o.state = "remove" => Signed(p.side, p.qty) + Signed(o.side, o.qty) = 0
                            /\ o.state # "remove" =>
                                 Signed(r.side, r.qty) = Signed(p.side, p.qty) + Signed(o.side, o.qty)
  BY <1>a, <1>b, FinishFacts
<1>4. /\ m \in Numbers /\ m \in Nat /\ m # 0 /\ Merging(c, m)
      /\ positions' = IF o.state = "remove" THEN [positions EXCEPT ![k] = 0] ELSE positions
  BY <1>a, <1>b, FinishFacts
<1>5. \A l \in Keys : positions'[l] = IF l = k /\ o.state = "remove" THEN 0 ELSE positions[l]
  BY <1>1, <1>4 DEF TypeOK
<1>6. /\ \A i \in Numbers : object'[i] = IF i = m THEN r ELSE object[i]
      /\ \A i \in Numbers : settled'[i] = IF i = m THEN r ELSE settled[i]
  BY <1>1, <1>3 DEF TypeOK
<1>7. \A l \in Keys : positions[l] # 0 => positions[l] \in Numbers
  BY <1>1, OpenPosition DEF Open
<1>8. TypeOK'
  <2>1. positions' \in [Keys -> 0..MaxTrades]
    BY <1>1, <1>2, <1>4 DEF TypeOK
  <2>2. object' \in [Numbers -> Positions \cup {NoPosition}] /\ settled' \in [Numbers -> Positions \cup {NoPosition}]
    BY <1>1, <1>3, <1>4 DEF TypeOK
  <2>3. \A l \in Keys : positions'[l] # 0 => object'[positions'[l]] # NoPosition
    BY <1>1, <1>3, <1>5, <1>6, <1>7 DEF TypeOK
  <2>4. \A d \in Clients : Active(d)' /\ orders'[d].pos # 0 => object'[orders'[d].pos] # NoPosition
    <3> SUFFICES ASSUME NEW d \in Clients, Active(d)', orders'[d].pos # 0
                 PROVE  object'[orders'[d].pos] # NoPosition
      OBVIOUS
    <3>1. Active(d) /\ orders'[d] = orders[d]
      BY <1>2
    <3>2. orders[d].pos \in Numbers /\ object[orders[d].pos] # NoPosition
      BY <1>1, <3>1, ActiveOrder DEF TypeOK, Active
    <3> QED BY <1>3, <1>6, <3>1, <3>2
  <2>5. \A n \in Numbers : settled'[n] = NoPosition <=> object'[n] = NoPosition
    BY <1>1, <1>6 DEF TypeOK
  <2>6. \A d \in Clients : ~Merging(d, 0)'
    BY <1>1, <1>2 DEF TypeOK
  <2> QED BY <1>1, <1>2, <2>1, <2>2, <2>3, <2>4, <2>5, <2>6 DEF TypeOK, Active
<1>9. OwnPositions' /\ OwnFinds'
  BY <1>1, <1>2, <1>5 DEF Objects, OwnPositions, OwnFinds
<1>10. FreshNumbers'
  <2> SUFFICES ASSUME NEW d \in Clients, Active(d)'
               PROVE  /\ orders'[d].n <= trades' /\ orders'[d].n \notin torn'
                      /\ \A l \in Keys : positions'[l] # orders'[d].n
                      /\ \A e \in Clients : Active(e)' =>
                           orders'[e].pos # orders'[d].n /\ (e # d => orders'[e].n # orders'[d].n)
    BY DEF FreshNumbers
  <2>1. Active(d) /\ orders'[d] = orders[d] /\ orders[d].n # 0
    BY <1>1, <1>2, ActiveOrder
  <2> QED BY <1>1, <1>2, <1>5, <2>1 DEF Objects, FreshNumbers
<1>11. NoneToCome'
  <2>1. trades \in Nat
    BY <1>1 DEF TypeOK
  <2> QED BY <1>1, <1>2, <1>5, <2>1 DEF Objects, NoneToCome
<1>12. Halfway'
  <2> SUFFICES ASSUME NEW n \in Numbers \ torn' PROVE HalfwayAt(n)'
    BY DEF Halfway
  <2>1. HalfwayAt(n) /\ n \in Nat
    BY <1>1, <1>2 DEF Halfway, Numbers
  <2>2. CASE n # m
    <3>1. ~Merging(c, n)
      BY <1>a, <1>b, <2>2 DEF Merging
    <3>2. /\ \A d \in Clients : Merging(d, n)' <=> Merging(d, n)
          /\ \A d \in Clients : Merging(d, n) => orders'[d] = orders[d]
      BY <1>2, <2>1, <3>1
    <3> QED BY <1>6, <2>1, <2>2, <3>2, HalfwayKept
  <2>3. CASE n = m
    <3>1. \A d \in Clients : Merging(d, m) => d = c
      BY <1>4, <2>1, <2>3 DEF HalfwayAt
    <3>2. \A d \in Clients : ~Merging(d, m)'
      BY <1>2, <1>4, <3>1
    <3>3. settled'[m] = r /\ object'[m] = r /\ r \in Whole
      BY <1>2, <1>3, <1>4, <1>6, <2>3
    <3>4. HalfwayAt(m)'
      BY <3>2, <3>3 DEF HalfwayAt, SameLots
    <3> QED BY <2>3, <3>4
  <2> QED BY <2>2, <2>3
<1>13. Netted'
  <2> SUFFICES ASSUME NEW l \in Keys \ mislaid' PROVE net'[l] = Net(l)'
    BY DEF Netted, Net
  <2>1. l \notin mislaid
    BY <1>2
  <2>2. net[l] = Net(l)
    BY <1>1, <2>1 DEF Netted
  <2>3. CASE l = k
    <3>1. m = positions[k] /\ positions[k] # 0 /\ m \notin torn
      BY <1>2, <1>4, <2>3
    <3>2. net[k] = Signed(p.side, p.qty)
      BY <1>b, <2>2, <2>3, <3>1 DEF Net, Open
    <3>3. net'[k] = Signed(p.side, p.qty) + Signed(o.side, o.qty)
      BY <1>1, <1>2, <3>2 DEF TypeOK
    <3>4. CASE o.state = "remove"
      BY <1>2, <1>3, <1>5, <2>3, <3>1, <3>3, <3>4 DEF Net, Open
    <3>5. CASE o.state # "remove"
      <4>1. positions'[k] = m /\ settled'[m] = r
        BY <1>2, <1>4, <1>5, <1>6, <3>1, <3>5
      <4> QED BY <1>3, <2>3, <3>1, <3>3, <3>5, <4>1 DEF Net, Open
    <3> QED BY <3>4, <3>5
  <2>4. CASE l # k
    <3>1. net'[l] = net[l] /\ positions'[l] = positions[l]
      BY <1>1, <1>2, <1>5, <2>4 DEF TypeOK
    <3>2. positions[l] # m
      BY <1>a, <1>b, <1>1, <1>2, <1>4, <2>4 DEF Objects, OwnFinds
    <3>3. Open(l) => settled'[positions[l]] = settled[positions[l]]
      BY <1>6, <1>7, <3>2 DEF Open
    <3> QED BY <2>2, <3>1, <3>3 DEF Net, Open
  <2> QED BY <2>3, <2>4
<1>14. TornShown'
  <2> SUFFICES ASSUME NEW l \in Keys \ mislaid', Open(l)', positions'[l] \in torn'
               PROVE  \E d \in Clients : Merging(d, positions[l])'
    BY DEF TornShown
  <2>1. PICK n \in Nat : n = positions[l]
    BY <1>1 DEF TypeOK
  <2>2. l \in Keys \ mislaid /\ positions'[l] = n /\ n \in torn /\ Open(l) /\ n # 0
    BY <1>2, <1>5, <2>1 DEF Open
  <2>3. n # m
    <3> SUFFICES ASSUME n = m PROVE FALSE
      OBVIOUS
    <3>1. l = k
      BY <1>a, <1>b, <1>1, <1>2, <1>4, <2>1 DEF Objects, OwnFinds
    <3>2. k \in mislaid'
      BY <1>2, <2>2
    <3> QED BY <3>1, <3>2
  <2>4. PICK d \in Clients : Merging(d, n)
    BY <1>1, <2>1, <2>2 DEF TornShown
  <2>5. d # c
    BY <1>4, <2>3, <2>4 DEF Merging
  <2>6. \E e \in Clients : Merging(e, n)'
    BY <1>2, <2>4, <2>5
  <2> QED BY <2>2, <2>6 DEF Merging
<1> QED BY <1>8, <1>9, <1>10, <1>11, <1>12, <1>13, <1>14 DEF TradeInv, Objects

LEMMA NextInv == TradeInv /\ [Next]_vars => TradeInv'
<1> SUFFICES ASSUME TradeInv, [Next]_vars PROVE TradeInv'
  OBVIOUS
<1>1. ASSUME NEW k \in Keys, NEW price \in Prices, OnPriceUpdate(k, price) PROVE TradeInv'
  BY <1>1, OnPriceUpdateStep
<1>2. ASSUME NEW c \in Clients, NEW k \in Keys, NEW side \in Sides, NEW lots \in Lots, NEW exits \in Exits,
             PriceOrder(c, k, side, lots, exits)
      PROVE  TradeInv'
  BY <1>2, PriceOrderStep
<1>3. ASSUME NEW c \in Clients, Execute(c) PROVE TradeInv'
  <2>1. CASE FindPosition(c)
    BY <2>1, FindPositionStep
  <2>2. CASE CheckCapital(c) \/ ChargeCapital(c)
    BY <2>2, CapitalStep
  <2>3. CASE EnterPosition(c)
    BY <2>3, EnterPositionStep
  <2>4. CASE BeginMerge(c)
    BY <2>4, BeginMergeStep
  <2>5. CASE Assign(c)
    BY <2>5, AssignStep
  <2>6. CASE FinishMerge(c)
    BY <2>6, FinishMergeStep
  <2> QED BY <1>3, <2>1, <2>2, <2>3, <2>4, <2>5, <2>6 DEF Execute
<1>4. ASSUME NEW k \in Keys, ManualExit(k) PROVE TradeInv'
  BY <1>4, ManualExitStep
<1>5. CASE UNCHANGED vars
  <2>1. UNCHANGED <<positions, object, lastPrices, available, usedMargin, orders, trades,
                    net, mislaid, settled, torn, overlapped>>
    BY <1>5 DEF vars, money, history
  <2>2. TypeOK'
    BY <2>1 DEF TradeInv, TypeOK, Merging
  <2>3. Objects'
    BY <2>1 DEF TradeInv, Objects, OwnPositions, OwnFinds, FreshNumbers, NoneToCome, Active
  <2>4. Halfway' /\ Netted' /\ TornShown'
    BY <2>1, PositionsKept DEF TradeInv, Merging
  <2> QED BY <2>2, <2>3, <2>4 DEF TradeInv
<1> QED BY <1>1, <1>2, <1>3, <1>4, <1>5 DEF Next

\* Positions, the orders that refer to them and what was traded stay in step.
THEOREM TradeInvAlways == Spec => []TradeInv
BY InitInv, NextInv, PTL DEF Spec

\* Every part of the state is of its type: an open position, and one that an order in
\* flight has found, is an object with a side.
THEOREM TypeCorrect == Spec => []TypeOK
<1>1. TradeInv => TypeOK
  BY DEF TradeInv
<1> QED BY <1>1, TradeInvAlways, PTL

\* The open position of an option is what was bought less what was sold since it was
\* last closed, for any number of options and clients, whose merges assign one field at a
\* time: unless a trade missed it or was not alone on it, or while one is changing it.
THEOREM PositionAlwaysNet == Spec => []PositionIsNet
<1>1. TradeInv => PositionIsNet
  <2> SUFFICES ASSUME TradeInv, NEW k \in Keys \ mislaid, \A c \in Clients : ~Merging(c, positions[k])
               PROVE  net[k] = IF ~Open(k) THEN 0
                               ELSE IF object[positions[k]].side = "LONG" THEN object[positions[k]].qty
                               ELSE -object[positions[k]].qty
    BY DEF PositionIsNet
  <2>1. net[k] = Net(k)
    BY DEF TradeInv, Netted
  <2>2. CASE Open(k)
    <3>1. positions[k] \in Numbers /\ positions[k] \notin torn
      BY <2>2, OpenPosition DEF TradeInv, TornShown
    <3>2. SameLots(settled[positions[k]], object[positions[k]])
      BY <3>1 DEF TradeInv, Halfway, HalfwayAt
    <3> QED BY <2>1, <2>2, <3>2 DEF Net, Signed, SameLots
  <2>3. CASE ~Open(k)
    BY <2>1, <2>3 DEF Net
  <2> QED BY <2>2, <2>3
<1> QED BY <1>1, TradeInvAlways, PTL
-----------------------------------------------------------------------------
(* Closing what nobody tore *)

\* What is torn stays torn.
LEMMA TornGrows ==
    ASSUME TypeOK, [Next]_vars
    PROVE  torn \subseteq torn'
<1>1. ASSUME NEW k \in Keys, NEW p, NEW price, Close(k, p, price) PROVE torn \subseteq torn'
  BY <1>1 DEF Close, Forget
<1>2. ASSUME NEW k \in Keys, NEW price \in Prices, OnPriceUpdate(k, price) PROVE torn \subseteq torn'
  BY <1>1, <1>2 DEF OnPriceUpdate
<1>3. ASSUME NEW k \in Keys, ManualExit(k) PROVE torn \subseteq torn'
  BY <1>1, <1>3 DEF ManualExit
<1>4. ASSUME NEW c \in Clients, Execute(c) PROVE torn \subseteq torn'
  BY <1>4 DEF Execute, FindPosition, CheckCapital, ChargeCapital, EnterPosition, BeginMerge, Assign, FinishMerge, history
<1>5. ASSUME NEW c \in Clients, NEW k \in Keys, NEW side \in Sides, NEW lots \in Lots, NEW exits \in Exits,
             PriceOrder(c, k, side, lots, exits)
      PROVE  torn \subseteq torn'
  BY <1>5 DEF PriceOrder, history
<1>6. CASE UNCHANGED vars
  BY <1>6 DEF vars, history
<1> QED BY <1>2, <1>3, <1>4, <1>5, <1>6 DEF Next

\* A position that is closed, and was and is not torn, has the lots and the average
\* price that the last whole trade left.
LEMMA CloseWhole ==
    ASSUME TradeInv, NEW k \in Keys, NEW price, Open(k), Close(k, object[positions[k]], price), torn' = {},
           NEW p, p = object[positions[k]]
    PROVE  /\ SameLots(settled[positions[k]], p) /\ settled[positions[k]] \in Whole
           /\ p.side \in Sides /\ p.qty \in Nat /\ p.avg \in Nat /\ p.avg * p.qty \in Nat
<1>1. TypeOK /\ Halfway
  BY DEF TradeInv
<1>2. PICK n \in Numbers : n = positions[k] /\ settled[n] \in Positions /\ object[n] = p
  BY <1>1, OpenPosition
<1>3. torn = {} /\ \A c \in Clients : ~Merging(c, n)
  BY <1>2 DEF Close, Forget
<1>4. HalfwayAt(n)
  BY <1>1, <1>2, <1>3 DEF Halfway
<1>5. SameLots(settled[n], p) /\ settled[n] \in Whole
  BY <1>2, <1>3, <1>4, NoPositionIsNone DEF HalfwayAt
<1>6. p.side \in Sides /\ p.qty \in Nat /\ p.avg \in Nat
  BY <1>5 DEF SameLots, Whole
<1>7. p.avg * p.qty \in Nat
  BY <1>6
<1> QED BY <1>2, <1>5, <1>6, <1>7

-----------------------------------------------------------------------------
(* The capital *)

Checked(c) == Active(c) /\ orders[c].state = "checked"

\* As long as no two orders passed the check together and none was torn, at most one
\* order has passed it and is not charged, and what it was checked against is still there.
CapitalInv ==
    overlapped \/ torn # {} \/
        /\ available >= 0
        /\ \A c \in Clients : Checked(c) => /\ Affordable(orders[c])
                                            /\ \A d \in Clients : Checked(d) => d = c

\* Closing a position gives money back, never takes any.
LEMMA ClosePays ==
    ASSUME TradeInv, NEW k \in Keys, NEW price \in Nat, Open(k), Close(k, object[positions[k]], price), torn' = {}
    PROVE  available' >= available
<1>1. PICK p : p = object[positions[k]]
  OBVIOUS
<1>2. p.qty \in Nat /\ p.avg * p.qty \in Nat
  BY <1>1, CloseWhole
<1>3. 2 * price * p.qty \in Nat /\ 3 * (p.avg * p.qty) \in Nat /\ available \in Int
  BY <1>2 DEF TradeInv, TypeOK
<1>4. available' = available + 2 * price * p.qty \/ available' = available + 3 * (p.avg * p.qty)
  BY <1>1 DEF Close
<1> QED BY <1>3, <1>4

LEMMA ChargeType ==
    ASSUME NEW o \in Orders
    PROVE  /\ Charge(o) \in Nat
           /\ Charge(o) = IF o.side = "LONG" THEN 2 * (o.price * o.qty) ELSE 3 * (o.price * o.qty)
           /\ o.price * o.qty \in Nat
<1>1. o.price \in Nat /\ o.qty \in Nat
  BY DEF Orders
<1> QED BY <1>1 DEF Charge

\* A step that takes no money and lets no order pass the check.
LEMMA CapitalKept ==
    ASSUME TypeOK, CapitalInv, torn \subseteq torn', torn' = {} => available' \in Int /\ available' >= available,
           overlapped' = overlapped,
           \A c \in Clients : Checked(c)' => Checked(c) /\ orders'[c] = orders[c]
    PROVE  CapitalInv'
<1> SUFFICES ASSUME torn' = {}, ~overlapped PROVE CapitalInv'
  BY DEF CapitalInv
<1>1. available \in Int /\ torn = {} /\ available' \in Int /\ available' >= available
  BY DEF TypeOK
<1>2. \A c \in Clients : Checked(c) => Charge(orders[c]) \in Nat
  BY ActiveOrder, ChargeType DEF Checked
<1>3. \A c \in Clients : Checked(c)' /\ Affordable(orders[c]) => available' >= Charge(orders'[c])
  BY <1>1, <1>2 DEF Affordable
<1> QED BY <1>1, <1>3 DEF CapitalInv, Affordable

LEMMA CapitalInit == Init => CapitalInv
<1>1. Capital \in Nat
  BY Constants
<1> QED BY <1>1 DEF Init, CapitalInv, Checked, Active

LEMMA CapitalNext == TradeInv /\ TypeOK' /\ CapitalInv /\ [Next]_vars => CapitalInv'
<1> SUFFICES ASSUME TradeInv, TypeOK', CapitalInv, [Next]_vars PROVE CapitalInv'
  OBVIOUS
<1> USE DEF Active
<1>0. TypeOK
  BY DEF TradeInv
<1>1. /\ available \in Int /\ available' \in Int /\ orders \in [Clients -> Orders \cup {Idle}]
      /\ overlapped \in BOOLEAN /\ torn \subseteq torn'
  BY <1>0, TornGrows DEF TypeOK
<1>2. ASSUME NEW k \in Keys, NEW price \in Prices, OnPriceUpdate(k, price) PROVE CapitalInv'
  <2>1. price \in Nat
    BY Constants
  <2>2. torn' = {} => available' >= available
    BY <1>1, <1>2, <2>1, ClosePays DEF OnPriceUpdate, money
  <2> QED BY <1>0, <1>1, <1>2, <2>2, CapitalKept DEF OnPriceUpdate, Checked
<1>3. ASSUME NEW c \in Clients, NEW k \in Keys, NEW side \in Sides, NEW lots \in Lots, NEW exits \in Exits,
             PriceOrder(c, k, side, lots, exits)
      PROVE  CapitalInv'
  <2>1. orders'[c].state = "priced" /\ \A d \in Clients \ {c} : orders'[d] = orders[d]
    BY <1>1, <1>3 DEF PriceOrder
  <2>2. available' = available /\ overlapped' = overlapped
    BY <1>3 DEF PriceOrder, money, history
  <2> QED BY <1>0, <1>1, <2>1, <2>2, CapitalKept DEF Checked
<1>4. ASSUME NEW c \in Clients, NEW o, orders' = [orders EXCEPT ![c] = o], o.state # "checked",
             UNCHANGED <<available, overlapped>>
      PROVE  CapitalInv'
  <2>1. orders'[c].state # "checked" /\ \A d \in Clients \ {c} : orders'[d] = orders[d]
    BY <1>1, <1>4
  <2> QED BY <1>0, <1>1, <1>4, <2>1, CapitalKept DEF Checked
<1>5. ASSUME NEW c \in Clients, CheckCapital(c) PROVE CapitalInv'
  <2>1. available' = available
    BY <1>5 DEF CheckCapital, money
  <2>2. CASE orders' = [orders EXCEPT ![c] = Idle] /\ UNCHANGED overlapped
    <3>1. orders'[c] = Idle /\ \A d \in Clients \ {c} : orders'[d] = orders[d]
      BY <1>1, <2>2
    <3> QED BY <1>0, <1>1, <2>1, <2>2, <3>1, CapitalKept DEF Checked
  <2>3. CASE /\ orders[c] # Idle /\ Affordable(orders[c]) /\ Moves(c, "found", "checked")
             /\ overlapped' = (overlapped \/ \E d \in Clients : orders[d] # Idle /\ orders[d].state = "checked")
    <3> SUFFICES ASSUME ~overlapped', torn' = {} PROVE CapitalInv'
      BY DEF CapitalInv
    <3>1. ~overlapped /\ torn = {} /\ \A d \in Clients : ~Checked(d)
      BY <1>1, <2>3 DEF Checked
    <3>2. orders[c] \in Orders /\ available >= Charge(orders[c])
      BY <1>1, <2>3 DEF Affordable
    <3>3. orders'[c] = [orders[c] EXCEPT !.state = "checked"] /\ \A d \in Clients \ {c} : orders'[d] = orders[d]
      BY <1>1, <2>3 DEF Moves
    <3>4. Charge(orders'[c]) = Charge(orders[c])
      BY <3>2, <3>3 DEF Charge, Orders
    <3>5. \A d \in Clients : Checked(d)' => d = c
      BY <3>1, <3>3 DEF Checked
    <3>6. available' >= 0 /\ available' >= Charge(orders'[c])
      BY <2>1, <3>1, <3>2, <3>4 DEF CapitalInv
    <3> QED BY <3>5, <3>6 DEF CapitalInv, Affordable
  <2> QED BY <1>5, <2>2, <2>3 DEF CheckCapital
<1>6. ASSUME NEW c \in Clients, ChargeCapital(c) PROVE CapitalInv'
  <2> SUFFICES ASSUME ~overlapped', torn' = {} PROVE CapitalInv'
    BY DEF CapitalInv
  <2>1. ~overlapped /\ torn = {} /\ Checked(c) /\ orders[c] \in Orders
    BY <1>1, <1>6 DEF ChargeCapital, Moves, Checked, history
  <2>2. available >= Charge(orders[c]) /\ \A d \in Clients : Checked(d) => d = c
    BY <2>1 DEF CapitalInv, Affordable
  <2>3. orders'[c].state = "charged" /\ \A d \in Clients \ {c} : orders'[d] = orders[d]
    <3>1. orders'[c] = [orders[c] EXCEPT !.state = "charged"]
      BY <1>1, <1>6 DEF ChargeCapital, Moves
    <3> QED BY <1>1, <1>6, <2>1, <3>1 DEF ChargeCapital, Moves, Orders
  <2>4. \A d \in Clients : ~Checked(d)'
    BY <2>2, <2>3 DEF Checked
  <2>5. available' = available - Charge(orders[c]) /\ Charge(orders[c]) \in Nat
    BY <1>6, <2>1, ChargeType DEF ChargeCapital
  <2>6. available' >= 0
    BY <1>1, <2>2, <2>5
  <2> QED BY <2>4, <2>6 DEF CapitalInv
<1>7. ASSUME NEW c \in Clients, FindPosition(c) \/ EnterPosition(c) \/ BeginMerge(c) \/ Assign(c) \/ FinishMerge(c)
      PROVE  CapitalInv'
  <2>1. UNCHANGED <<available, overlapped>>
    BY <1>7 DEF FindPosition, EnterPosition, BeginMerge, Assign, FinishMerge, money, history
  <2>2. orders[c] \in Orders
    BY <1>1, <1>7 DEF FindPosition, EnterPosition, BeginMerge, Assign, FinishMerge
  <2>3. CASE EnterPosition(c) \/ FinishMerge(c)
    <3>1. orders' = [orders EXCEPT ![c] = Idle] /\ Idle.state # "checked"
      BY <2>3 DEF EnterPosition, FinishMerge, Done, Idle
    <3> QED BY <1>4, <2>1, <3>1
  <2>4. CASE FindPosition(c)
    <3> DEFINE o == [orders[c] EXCEPT !.state = "found", !.pos = positions[orders[c].key]]
    <3>1. orders' = [orders EXCEPT ![c] = o] /\ o.state = "found"
      BY <2>2, <2>4 DEF FindPosition, Orders
    <3> HIDE DEF o
    <3> QED BY <1>4, <2>1, <3>1
  <2>5. CASE BeginMerge(c)
    <3> DEFINE o == [orders[c] EXCEPT !.state = Case(object[orders[c].pos], orders[c]),
                                      !.total = Total(object[orders[c].pos], orders[c])]
    <3>1. orders' = [orders EXCEPT ![c] = o] /\ o.state = Case(object[orders[c].pos], orders[c])
      BY <2>2, <2>5 DEF BeginMerge, Orders
    <3>2. o.state # "checked"
      BY <3>1 DEF Case
    <3> HIDE DEF o
    <3> QED BY <1>4, <2>1, <3>1, <3>2
  <2>6. CASE Assign(c)
    <3> DEFINE o == [orders[c] EXCEPT !.state = Follows[orders[c].state]]
    <3>1. orders' = [orders EXCEPT ![c] = o] /\ o.state = Follows[orders[c].state]
      BY <2>2, <2>6 DEF Assign, Orders
    <3>2. o.state # "checked"
      BY <2>6, <3>1 DEF Assign, Follows
    <3> HIDE DEF o
    <3> QED BY <1>4, <2>1, <3>1, <3>2
  <2> QED BY <1>7, <2>3, <2>4, <2>5, <2>6
<1>8. ASSUME NEW k \in Keys, ManualExit(k) PROVE CapitalInv'
  <2>1. lastPrices[k] \in Nat
    BY <1>0, LastPriceType
  <2>2. torn' = {} => available' >= available
    BY <1>8, <2>1, ClosePays DEF ManualExit
  <2> QED BY <1>0, <1>1, <1>8, <2>2, CapitalKept DEF ManualExit, Checked
<1>9. CASE UNCHANGED vars
  BY <1>0, <1>1, <1>9, CapitalKept DEF vars, money, history, Checked
<1> QED BY <1>2, <1>3, <1>5, <1>6, <1>7, <1>8, <1>9 DEF Next, Execute

\* The account is never overdrawn, whatever is traded, unless two orders passed the
\* capital check before either was charged, or a position was torn.
THEOREM NeverOverdrawnAlways == Spec => []NeverOverdrawn
<1>1. CapitalInv => NeverOverdrawn
  BY DEF CapitalInv, NeverOverdrawn
<1> QED BY <1>1, CapitalInit, CapitalNext, TypeCorrect, TradeInvAlways, PTL DEF Spec

-----------------------------------------------------------------------------
(* The books and what has been charged *)

Paid == {"charged"} \cup MergeStates

LEMMA LedgerType ==
    ASSUME TypeOK, NEW side
    PROVE  /\ \A k \in Keys : BookOn(side, k) \in Int
           /\ \A c \in Clients : ChargedTo(side, c) \in Nat
           /\ Book(side) \in Int /\ Charged(side) \in Nat
<1>1. \A k \in Keys : BookOn(side, k) \in Int
  <2> SUFFICES ASSUME NEW k \in Keys, Open(k) PROVE BookOn(side, k) \in Int
    BY DEF BookOn
  <2>1. PICK p \in Positions : p = settled[positions[k]]
    BY OpenPosition
  <2>2. p.avg \in Int /\ p.qty \in Int
    BY DEF Positions
  <2>3. p.avg * p.qty \in Int
    BY <2>2
  <2> QED BY <2>1, <2>3 DEF BookOn
<1>2. \A c \in Clients : ChargedTo(side, c) \in Nat
  BY ActiveOrder, ChargeType DEF ChargedTo, Active
<1>3. Book(side) \in Int
  <2> DEFINE f == [k \in Keys |-> BookOn(side, k)]
             R == Int
  <2>1. DOMAIN f = Keys /\ \A k \in Keys : f[k] \in R
    BY <1>1
  <2>2. Book(side) = SumFunctionOnSet(f, Keys)
    BY <2>1 DEF Book, SumFunction
  <2>3. R = {0} \/ R = Nat \/ R = Int
    OBVIOUS
  <2> HIDE DEF f, R
  <2>4. SumFunctionOnSet(f, Keys) \in R
    BY <2>1, <2>3, SumType, SimulatorAssumption
  <2> QED BY <2>2, <2>4 DEF R
<1>4. Charged(side) \in Nat
  <2> DEFINE f == [c \in Clients |-> ChargedTo(side, c)]
  <2>1. DOMAIN f = Clients /\ \A c \in Clients : f[c] \in Nat
    BY <1>2
  <2>2. Charged(side) = SumFunctionOnSet(f, Clients)
    BY <2>1 DEF Charged, SumFunction
  <2> HIDE DEF f
  <2> QED BY <2>1, <2>2, SumOfNats, SimulatorAssumption
<1> QED BY <1>1, <1>2, <1>3, <1>4

\* The books of positions nobody tore are of lots there are.
LEMMA BookNat ==
    ASSUME TradeInv, torn = {}, NEW side
    PROVE  /\ \A k \in Keys : BookOn(side, k) \in Nat
           /\ Book(side) \in Nat
<1>1. \A k \in Keys : BookOn(side, k) \in Nat
  <2> SUFFICES ASSUME NEW k \in Keys, Open(k) PROVE BookOn(side, k) \in Nat
    BY DEF BookOn
  <2>1. PICK p \in Whole : p = settled[positions[k]]
    <3>1. positions[k] \in Numbers /\ settled[positions[k]] \in Positions
      BY OpenPosition DEF TradeInv
    <3>2. settled[positions[k]] \in Whole \cup {NoPosition}
      BY <3>1 DEF TradeInv, Halfway, HalfwayAt
    <3> QED BY <3>1, <3>2, NoPositionIsNone
  <2>2. p.avg \in Nat /\ p.qty \in Nat
    BY DEF Whole
  <2>3. p.avg * p.qty \in Nat
    BY <2>2
  <2> QED BY <2>1, <2>3 DEF BookOn
<1>2. Book(side) \in Nat
  <2> DEFINE f == [k \in Keys |-> BookOn(side, k)]
  <2>1. DOMAIN f = Keys /\ \A k \in Keys : f[k] \in Nat
    BY <1>1
  <2>2. Book(side) = SumFunctionOnSet(f, Keys)
    BY <2>1 DEF Book, SumFunction
  <2> HIDE DEF f
  <2> QED BY <2>1, <2>2, SumOfNats, SimulatorAssumption
<1> QED BY <1>1, <1>2

\* The book of one option changes, and those of all by as much.
LEMMA BookChange ==
    ASSUME TypeOK, NEW side, NEW k \in Keys, NEW b \in Int,
           \A l \in Keys : BookOn(side, l)' = IF l = k THEN b ELSE BookOn(side, l)
    PROVE  Book(side)' = Book(side) + b - BookOn(side, k)
<1> DEFINE f == [l \in Keys |-> BookOn(side, l)]
           h == [l \in Keys |-> BookOn(side, l)']
<1>1. \A l \in Keys : f[l] = BookOn(side, l) /\ f[l] \in Int /\ h[l] \in Int
  BY LedgerType
<1>2. h[k] = b /\ \A l \in Keys \ {k} : h[l] = f[l]
  OBVIOUS
<1>3. Book(side) = SumFunctionOnSet(f, Keys)
  BY DEF Book, SumFunction
<1>4. Book(side)' = SumFunctionOnSet(h, Keys)
  BY DEF Book, SumFunction
<1> HIDE DEF f, h
<1>5. SumFunctionOnSet(h, Keys) = SumFunctionOnSet(f, Keys) + h[k] - f[k]
  BY <1>1, <1>2, SumChange, SimulatorAssumption
<1> QED BY <1>1, <1>2, <1>3, <1>4, <1>5

\* What is charged for one order changes, and what is charged for all by as much.
LEMMA ChargedChange ==
    ASSUME TypeOK, NEW side, NEW c \in Clients, NEW b \in Nat,
           \A d \in Clients : ChargedTo(side, d)' = IF d = c THEN b ELSE ChargedTo(side, d)
    PROVE  Charged(side)' = Charged(side) + b - ChargedTo(side, c)
<1> DEFINE f == [d \in Clients |-> ChargedTo(side, d)]
           h == [d \in Clients |-> ChargedTo(side, d)']
<1>1. \A d \in Clients : f[d] = ChargedTo(side, d) /\ f[d] \in Int /\ h[d] \in Int
  BY LedgerType
<1>2. h[c] = b /\ \A d \in Clients \ {c} : h[d] = f[d]
  OBVIOUS
<1>3. Charged(side) = SumFunctionOnSet(f, Clients)
  BY DEF Charged, SumFunction
<1>4. Charged(side)' = SumFunctionOnSet(h, Clients)
  BY DEF Charged, SumFunction
<1> HIDE DEF f, h
<1>5. SumFunctionOnSet(h, Clients) = SumFunctionOnSet(f, Clients) + h[c] - f[c]
  BY <1>1, <1>2, SumChange, SimulatorAssumption
<1> QED BY <1>1, <1>2, <1>3, <1>4, <1>5

LEMMA BookSame ==
    ASSUME UNCHANGED <<positions, settled>>, NEW side
    PROVE  Book(side)' = Book(side)
BY DEF Book, BookOn, Open

LEMMA ChargedSame ==
    ASSUME NEW side, \A d \in Clients : ChargedTo(side, d)' = ChargedTo(side, d)
    PROVE  Charged(side)' = Charged(side)
BY DEF Charged

\* A closed position leaves the books of its side.
LEMMA CloseBooks ==
    ASSUME TypeOK, NEW k \in Keys, NEW price \in Nat, Close(k, object[positions[k]], price),
           UNCHANGED settled, NEW side
    PROVE  Book(side)' = Book(side) - BookOn(side, k)
<1>1. \A l \in Keys : positions'[l] = IF l = k THEN 0 ELSE positions[l]
  BY DEF Close, Forget, TypeOK
<1>2. \A l \in Keys : BookOn(side, l)' = IF l = k THEN 0 ELSE BookOn(side, l)
  BY <1>1 DEF BookOn, Open
<1>3. Book(side)' = Book(side) + 0 - BookOn(side, k)
  BY <1>2, BookChange
<1> QED BY <1>3, LedgerType

\* An order that is through adds to the books of its side no more than it is worth, and
\* takes from those of the other.
LEMMA EnterBooks ==
    ASSUME TradeInv, torn = {}, NEW c \in Clients, EnterPosition(c) \/ FinishMerge(c), NEW side
    PROVE  /\ Book(side)' \in Int
           /\ Book(side)' <= Book(side) + (IF orders[c].side = side THEN orders[c].price * orders[c].qty ELSE 0)
<1>a. TypeOK /\ Objects /\ Active(c) /\ orders[c] \in Orders /\ orders[c].key \in Keys
  BY DoneFacts DEF TradeInv
<1> PICK o \in Orders, k \in Keys : o = orders[c] /\ k = o.key
  BY <1>a
<1>1. TypeOK /\ Objects /\ Active(c) /\ o = orders[c] /\ k = o.key
  BY <1>a
<1>2. PICK worth \in Nat : worth = IF o.side = side THEN o.price * o.qty ELSE 0
  BY <1>1, ChargeType
<1>3. Book(side) \in Nat /\ BookOn(side, k) \in Nat
  BY BookNat
<1>4. \A l \in Keys : positions[l] # 0 => positions[l] \in Numbers
  BY <1>1, OpenPosition DEF Open
<1>5. SUFFICES \E b \in Nat : /\ b <= BookOn(side, k) + worth
                              /\ \A l \in Keys : BookOn(side, l)' = IF l = k THEN b ELSE BookOn(side, l)
  <2>1. PICK b \in Nat : /\ b <= BookOn(side, k) + worth
                         /\ \A l \in Keys : BookOn(side, l)' = IF l = k THEN b ELSE BookOn(side, l)
    BY <1>5
  <2>2. Book(side)' = Book(side) + b - BookOn(side, k)
    BY <1>1, <2>1, BookChange
  <2>3. Book(side)' \in Int /\ Book(side)' <= Book(side) + worth
    BY <1>2, <1>3, <2>1, <2>2
  <2> QED BY <1>1, <1>2, <2>3
<1>6. CASE EnterPosition(c)
  <2> DEFINE new == Entry(o)
  <2>1. settled' = [settled EXCEPT ![o.n] = new] /\ positions' = [positions EXCEPT ![k] = o.n]
    BY <1>1, <1>6 DEF EnterPosition, Done
  <2>2. o.n \in Numbers /\ o.n # 0 /\ \A l \in Keys : positions[l] # o.n
    BY <1>1, ActiveOrder DEF Objects, FreshNumbers
  <2>3. new.side = o.side /\ new.avg * new.qty = o.price * o.qty
    BY DEF Entry
  <2> HIDE DEF new
  <2>4. positions'[k] = o.n /\ settled'[o.n] = new
    BY <1>1, <2>1, <2>2 DEF TypeOK
  <2>5. BookOn(side, k)' = worth
    BY <1>2, <2>2, <2>3, <2>4 DEF BookOn, Open
  <2>6. ASSUME NEW l \in Keys \ {k} PROVE BookOn(side, l)' = BookOn(side, l)
    <3>1. positions'[l] = positions[l]
      BY <1>1, <2>1 DEF TypeOK
    <3>2. positions[l] # 0 => settled'[positions[l]] = settled[positions[l]]
      BY <1>1, <1>4, <2>1, <2>2 DEF TypeOK
    <3> QED BY <3>1, <3>2 DEF BookOn, Open
  <2> QED BY <1>2, <1>3, <2>5, <2>6
<1>7. CASE FinishMerge(c)
  <2>1. PICK p, m : p = settled[m] /\ m = o.pos
    OBVIOUS
  <2>2. PICK new \in Positions :
          /\ settled' = [settled EXCEPT ![m] = new]
          /\ BookFact(new, side) \in Nat /\ BookFact(p, side) \in Nat
          /\ BookFact(new, side) <= BookFact(p, side) + (IF o.side = side THEN o.price * o.qty ELSE 0)
    <3>1. o.pos \notin torn
      OBVIOUS
    <3> QED BY <1>1, <1>7, <2>1, <3>1, FinishFacts
  <2>3. /\ positions' = IF o.state = "remove" THEN [positions EXCEPT ![k] = 0] ELSE positions
        /\ m \in Numbers /\ m # 0
    BY <1>1, <1>7, <2>1, FinishFacts
  <2>4. \A i \in Numbers : settled'[i] = IF i = m THEN new ELSE settled[i]
    BY <1>1, <2>2 DEF TypeOK
  <2>5. \A l \in Keys \ {k} : positions'[l] = positions[l] /\ positions[l] # m
    BY <1>1, <2>1, <2>3 DEF TypeOK, Objects, OwnFinds
  <2>6. \A l \in Keys \ {k} : BookOn(side, l)' = BookOn(side, l)
    BY <1>4, <2>4, <2>5 DEF BookOn, Open
  <2>7. BookOn(side, k)' \in Nat /\ BookOn(side, k)' <= BookOn(side, k) + worth
    <3>1. CASE positions'[k] = 0
      <4>1. BookOn(side, k)' = 0
        BY <3>1 DEF BookOn, Open
      <4> QED BY <1>2, <1>3, <4>1
    <3>2. CASE positions'[k] # 0 /\ positions[k] = m
      <4>1. positions'[k] = m
        BY <1>1, <2>3, <3>2 DEF TypeOK
      <4>2. BookOn(side, k)' = BookFact(new, side) /\ BookOn(side, k) = BookFact(p, side)
        BY <2>1, <2>3, <2>4, <3>2, <4>1 DEF BookOn, BookFact, Open
      <4> QED BY <1>2, <2>2, <4>2
    <3>3. CASE positions'[k] # 0 /\ positions[k] # m
      <4>1. positions'[k] = positions[k]
        BY <1>1, <2>3, <3>3 DEF TypeOK
      <4>2. BookOn(side, k)' = BookOn(side, k)
        BY <1>1, <1>4, <2>4, <3>3, <4>1 DEF BookOn, Open
      <4> QED BY <1>2, <1>3, <4>2
    <3> QED BY <3>1, <3>2, <3>3
  <2> QED BY <2>6, <2>7
<1> QED BY <1>6, <1>7

-----------------------------------------------------------------------------
(* What each step does to the account *)

\* A step that only moves an order, and charges it nothing.
LEMMA QuietLedger ==
    ASSUME TypeOK, NEW c \in Clients, NEW o, orders' = [orders EXCEPT ![c] = o],
           \/ orders[c].state \notin Paid /\ o.state \notin Paid
           \/ /\ orders[c] # Idle /\ orders[c].state \in Paid /\ o # Idle /\ o.state \in Paid
              /\ o.side = orders[c].side /\ o.price = orders[c].price /\ o.qty = orders[c].qty,
           UNCHANGED <<positions, settled>>, NEW side
    PROVE  Book(side)' = Book(side) /\ Charged(side)' = Charged(side)
<1>1. \A d \in Clients : orders'[d] = IF d = c THEN o ELSE orders[d]
  BY DEF TypeOK
<1>2. \A d \in Clients : ChargedTo(side, d)' = ChargedTo(side, d)
  <2>1. \A d \in Clients \ {c} : ChargedTo(side, d)' = ChargedTo(side, d)
    BY <1>1 DEF ChargedTo, Charge
  <2>2. ChargedTo(side, c)' = ChargedTo(side, c)
    BY <1>1 DEF ChargedTo, Charge, Paid
  <2> QED BY <2>1, <2>2
<1> QED BY <1>2, BookSame, ChargedSame

LEMMA ChargeLedger ==
    ASSUME TypeOK, NEW c \in Clients, ChargeCapital(c), NEW side
    PROVE  /\ orders[c] \in Orders
           /\ Book(side)' = Book(side)
           /\ Charged(side)' = Charged(side) + (IF orders[c].side = side THEN Charge(orders[c]) ELSE 0)
<1> DEFINE o == orders[c]
           charge == IF o.side = side THEN Charge(o) ELSE 0
<1>1. o # Idle /\ o \in Orders /\ o.state = "checked" /\ orders' = [orders EXCEPT ![c].state = "charged"]
      /\ UNCHANGED <<positions, settled>>
  BY DEF ChargeCapital, Moves, TypeOK, history
<1>2. charge \in Nat
  BY <1>1, ChargeType
<1>3. orders'[c] = [o EXCEPT !.state = "charged"] /\ \A d \in Clients \ {c} : orders'[d] = orders[d]
  BY <1>1 DEF TypeOK
<1>4. /\ orders'[c] # Idle /\ orders'[c].state = "charged" /\ orders'[c].side = o.side
      /\ Charge(orders'[c]) = Charge(o)
  BY <1>1, <1>3 DEF Orders, Idle, Charge
<1>5. ChargedTo(side, c)' = charge /\ ChargedTo(side, c) = 0
  <2>1. ChargedTo(side, c) = 0
    BY <1>1 DEF ChargedTo, MergeStates, Follows, LastOnes
  <2>2. ChargedTo(side, c)' = charge
    BY <1>4 DEF ChargedTo, Charge
  <2> QED BY <2>1, <2>2
<1>6. \A d \in Clients \ {c} : ChargedTo(side, d)' = ChargedTo(side, d)
  BY <1>3 DEF ChargedTo, Charge
<1>7. Charged(side)' = Charged(side) + charge - 0
  <2> HIDE DEF charge
  <2>1. Charged(side)' = Charged(side) + charge - ChargedTo(side, c)
    BY <1>2, <1>5, <1>6, ChargedChange
  <2> QED BY <1>5, <2>1
<1>8. Charged(side) \in Nat
  BY LedgerType
<1> HIDE DEF charge
<1>9. Charged(side)' = Charged(side) + charge
  BY <1>2, <1>7, <1>8
<1> QED BY <1>1, <1>9, BookSame DEF charge

LEMMA EnterLedger ==
    ASSUME TypeOK, NEW c \in Clients, EnterPosition(c) \/ FinishMerge(c), NEW side
    PROVE  /\ orders[c] \in Orders
           /\ Charged(side)' = Charged(side) - (IF orders[c].side = side THEN Charge(orders[c]) ELSE 0)
<1> DEFINE o == orders[c]
           charge == IF o.side = side THEN Charge(o) ELSE 0
<1>1. o # Idle /\ o \in Orders /\ o.state \in Paid /\ orders' = [orders EXCEPT ![c] = Idle]
  BY DEF EnterPosition, FinishMerge, Done, TypeOK, Paid, MergeStates
<1>2. orders'[c] = Idle /\ \A d \in Clients \ {c} : orders'[d] = orders[d]
  BY <1>1 DEF TypeOK
<1>3. ChargedTo(side, c)' = 0
  BY <1>2 DEF ChargedTo
<1>4. ChargedTo(side, c) = charge
  BY <1>1 DEF ChargedTo, Paid
<1>5. \A d \in Clients \ {c} : ChargedTo(side, d)' = ChargedTo(side, d)
  BY <1>2 DEF ChargedTo, Charge
<1> HIDE DEF charge
<1>6. Charged(side)' = Charged(side) + 0 - charge
  <2>1. Charged(side)' = Charged(side) + 0 - ChargedTo(side, c)
    BY <1>3, <1>5, ChargedChange
  <2> QED BY <1>4, <2>1
<1>7. Charged(side) \in Nat /\ charge \in Nat
  BY <1>4, LedgerType
<1>8. Charged(side)' = Charged(side) - charge
  BY <1>6, <1>7
<1> QED BY <1>1, <1>8 DEF charge

\* A step that moves no money.
Quiet ==
    /\ UNCHANGED money
    /\ \A side \in Sides : Book(side)' = Book(side) /\ Charged(side)' = Charged(side)

\* A price or an exit closes the position of k.
ClosesAt(k, price) ==
    /\ Open(k) /\ Close(k, object[positions[k]], price)
    /\ lastPrices'[k] = price
    /\ UNCHANGED <<object, settled, orders>>

LEMMA StepKinds ==
    ASSUME TypeOK, [Next]_vars
    PROVE  \/ Quiet
           \/ \E k \in Keys, price \in Nat : ClosesAt(k, price)
           \/ \E c \in Clients : ChargeCapital(c) \/ EnterPosition(c) \/ FinishMerge(c)
<1>1. /\ orders \in [Clients -> Orders \cup {Idle}] /\ Idle.state = "idle"
      /\ Paid \cap {"idle", "priced", "found", "checked"} = {}
  BY DEF TypeOK, Idle, Paid, MergeStates, Follows, LastOnes
<1>2. ASSUME NEW k \in Keys, NEW price \in Prices, OnPriceUpdate(k, price)
      PROVE  Quiet \/ \E p \in Nat : ClosesAt(k, p)
  <2>1. price \in Nat /\ lastPrices'[k] = price /\ UNCHANGED <<object, settled, orders>>
    BY <1>2, Constants DEF OnPriceUpdate, TypeOK
  <2>2. CASE Open(k) /\ Close(k, object[positions[k]], price)
    BY <2>1, <2>2 DEF ClosesAt
  <2>3. CASE UNCHANGED <<positions, money>>
    <3>1. \A side \in Sides : Book(side)' = Book(side)
      BY <2>1, <2>3, BookSame
    <3>2. \A side \in Sides : Charged(side)' = Charged(side)
      BY <2>1 DEF Charged, ChargedTo, Charge
    <3> QED BY <2>3, <3>1, <3>2 DEF Quiet
  <2> QED BY <1>2, <2>2, <2>3 DEF OnPriceUpdate
<1>3. ASSUME NEW c \in Clients, NEW k \in Keys, NEW side \in Sides, NEW lots \in Lots, NEW exits \in Exits,
             PriceOrder(c, k, side, lots, exits)
      PROVE  Quiet
  <2> DEFINE o == [state |-> "priced", n |-> trades + 1, key |-> k, side |-> side, qty |-> lots,
                   price |-> lastPrices[k], exits |-> exits, pos |-> 0, total |-> 0]
  <2>1. orders' = [orders EXCEPT ![c] = o] /\ orders[c] = Idle /\ UNCHANGED <<positions, settled, money>>
    BY <1>3 DEF PriceOrder, history
  <2>2. o.state \notin Paid /\ orders[c].state \notin Paid
    BY <1>1, <2>1
  <2> HIDE DEF o
  <2>3. \A s \in Sides : Book(s)' = Book(s) /\ Charged(s)' = Charged(s)
    BY <2>1, <2>2, QuietLedger
  <2> QED BY <2>1, <2>3 DEF Quiet
<1>4. ASSUME NEW c \in Clients, FindPosition(c) PROVE Quiet
  <2> DEFINE o == [orders[c] EXCEPT !.state = "found", !.pos = positions[orders[c].key]]
  <2>1. orders[c] \in Orders /\ orders[c].state = "priced" /\ UNCHANGED <<positions, settled, money>>
    BY <1>1, <1>4 DEF FindPosition, history
  <2>2. orders' = [orders EXCEPT ![c] = o]
    BY <1>1, <1>4 DEF FindPosition
  <2>3. o.state = "found"
    BY <2>1 DEF Orders
  <2> HIDE DEF o
  <2>4. \A s \in Sides : Book(s)' = Book(s) /\ Charged(s)' = Charged(s)
    BY <1>1, <2>1, <2>2, <2>3, QuietLedger
  <2> QED BY <2>1, <2>4 DEF Quiet
<1>5. ASSUME NEW c \in Clients, CheckCapital(c) PROVE Quiet
  <2> DEFINE o == [orders[c] EXCEPT !.state = "checked"]
  <2>1. /\ orders[c] \in Orders /\ orders[c].state = "found" /\ UNCHANGED <<positions, settled, money>>
        /\ orders' = [orders EXCEPT ![c] = Idle] \/ orders' = [orders EXCEPT ![c] = o]
    BY <1>1, <1>5 DEF CheckCapital, Moves
  <2>2. o.state = "checked"
    BY <2>1 DEF Orders
  <2> HIDE DEF o
  <2>3. PICK r : orders' = [orders EXCEPT ![c] = r] /\ r.state \notin Paid
    BY <1>1, <2>1, <2>2
  <2>4. \A s \in Sides : Book(s)' = Book(s) /\ Charged(s)' = Charged(s)
    BY <1>1, <2>1, <2>3, QuietLedger
  <2> QED BY <2>1, <2>4 DEF Quiet
<1>6. ASSUME NEW c \in Clients, BeginMerge(c) PROVE Quiet
  <2>1. PICK q : q = object[orders[c].pos]
    OBVIOUS
  <2> DEFINE o == [orders[c] EXCEPT !.state = Case(q, orders[c]), !.total = Total(q, orders[c])]
  <2>2. /\ orders[c] \in Orders /\ orders[c] # Idle /\ orders[c].state \in Paid
        /\ UNCHANGED <<positions, settled, money>>
    BY <1>1, <1>6 DEF BeginMerge, Paid
  <2>3. orders' = [orders EXCEPT ![c] = o]
    BY <1>6, <2>1 DEF BeginMerge
  <2>4. /\ o.state \in Paid /\ o.side = orders[c].side /\ o.price = orders[c].price /\ o.qty = orders[c].qty
    BY <2>2 DEF Orders, Case, Paid, MergeStates, Follows, LastOnes
  <2> HIDE DEF o
  <2>5. o # Idle
    BY <1>1, <2>4
  <2>6. \A s \in Sides : Book(s)' = Book(s) /\ Charged(s)' = Charged(s)
    BY <2>2, <2>3, <2>4, <2>5, QuietLedger
  <2> QED BY <2>2, <2>6 DEF Quiet
<1>7. ASSUME NEW c \in Clients, Assign(c) PROVE Quiet
  <2>1. PICK to : to = Follows[orders[c].state]
    OBVIOUS
  <2> DEFINE o == [orders[c] EXCEPT !.state = to]
  <2>2. /\ orders[c] \in Orders /\ orders[c] # Idle /\ orders[c].state \in Paid /\ to \in Paid
        /\ UNCHANGED <<positions, settled, money>>
    BY <1>1, <1>7, <2>1 DEF Assign, Paid, MergeStates, Follows, LastOnes, history
  <2>3. orders' = [orders EXCEPT ![c] = o]
    BY <1>7, <2>1 DEF Assign
  <2>4. /\ o.state \in Paid /\ o.side = orders[c].side /\ o.price = orders[c].price /\ o.qty = orders[c].qty
    BY <2>2 DEF Orders
  <2> HIDE DEF o
  <2>5. o # Idle
    BY <1>1, <2>4
  <2>6. \A s \in Sides : Book(s)' = Book(s) /\ Charged(s)' = Charged(s)
    BY <2>2, <2>3, <2>4, <2>5, QuietLedger
  <2> QED BY <2>2, <2>6 DEF Quiet
<1>8. ASSUME NEW k \in Keys, ManualExit(k) PROVE \E p \in Nat : ClosesAt(k, p)
  <2>1. lastPrices[k] \in Nat
    BY LastPriceType
  <2> QED BY <1>8, <2>1 DEF ManualExit, ClosesAt
<1>9. CASE UNCHANGED vars
  <2>1. UNCHANGED <<positions, settled, orders, money>>
    BY <1>9 DEF vars, history
  <2>2. \A side \in Sides : Book(side)' = Book(side)
    BY <2>1, BookSame
  <2>3. \A side \in Sides : Charged(side)' = Charged(side)
    BY <2>1 DEF Charged, ChargedTo, Charge
  <2> QED BY <2>1, <2>2, <2>3 DEF Quiet
<1> QED BY <1>2, <1>3, <1>4, <1>5, <1>6, <1>7, <1>8, <1>9 DEF Next, Execute

\* A position that is closed at a price, torn neither before nor by it.
LEMMA CloseLedger ==
    ASSUME TradeInv, NEW k \in Keys, NEW price \in Nat, ClosesAt(k, price), torn' = {},
           NEW p, p = object[positions[k]], NEW book, book = p.avg * p.qty
    PROVE  /\ p.side \in Sides /\ p.qty \in Nat /\ book \in Nat /\ positions'[k] = 0
           /\ \A side \in Sides : Charged(side)' = Charged(side)
           /\ Book(p.side)' = Book(p.side) - book
           /\ \A side \in Sides \ {p.side} : Book(side)' = Book(side)
<1>1. TypeOK /\ Open(k) /\ Close(k, p, price) /\ UNCHANGED <<object, settled, orders>>
  BY DEF ClosesAt, TradeInv
<1>2. /\ SameLots(settled[positions[k]], p) /\ settled[positions[k]] \in Whole
      /\ p.side \in Sides /\ p.qty \in Nat /\ book \in Nat
  BY <1>1, CloseWhole
<1>3. positions'[k] = 0
  BY <1>1 DEF Close, Forget, TypeOK
<1>4. \A side \in Sides : Charged(side)' = Charged(side)
  BY <1>1 DEF Charged, ChargedTo, Charge
<1>5. \A side \in Sides : Book(side)' = Book(side) - BookOn(side, k) /\ Book(side) \in Int
  BY <1>1, CloseBooks, LedgerType
<1>6. BookOn(p.side, k) = book /\ \A side \in Sides \ {p.side} : BookOn(side, k) = 0
  BY <1>1, <1>2 DEF BookOn, SameLots
<1>7. \A side \in Sides \ {p.side} : Book(side)' = Book(side)
  BY <1>5, <1>6
<1> QED BY <1>2, <1>3, <1>4, <1>5, <1>6, <1>7

-----------------------------------------------------------------------------
(* The blocked margin *)

\* The blocked margin covers the open short positions and the short orders that are
\* charged and not through yet, as long as no position is torn.
MarginInv == torn # {} \/ usedMargin >= 3 * Book("SHORT") + Charged("SHORT")

LEMMA MarginInit == Init => MarginInv
<1> SUFFICES ASSUME Init PROVE MarginInv
  OBVIOUS
<1>1. \A k \in Keys : BookOn("SHORT", k) = 0
  BY DEF Init, BookOn, Open
<1>2. \A c \in Clients : ChargedTo("SHORT", c) = 0
  BY DEF Init, ChargedTo
<1>3. Book("SHORT") = 0
  <2> DEFINE f == [k \in Keys |-> BookOn("SHORT", k)]
  <2>1. Book("SHORT") = SumFunctionOnSet(f, Keys) /\ \A k \in Keys : f[k] \in {0}
    BY <1>1 DEF Book, SumFunction
  <2> HIDE DEF f
  <2>2. SumFunctionOnSet(f, Keys) \in {0}
    BY <2>1, SumType, SimulatorAssumption
  <2> QED BY <2>1, <2>2
<1>4. Charged("SHORT") = 0
  <2> DEFINE f == [c \in Clients |-> ChargedTo("SHORT", c)]
  <2>1. Charged("SHORT") = SumFunctionOnSet(f, Clients) /\ \A c \in Clients : f[c] \in {0}
    BY <1>2 DEF Charged, SumFunction
  <2> HIDE DEF f
  <2>2. SumFunctionOnSet(f, Clients) \in {0}
    BY <2>1, SumType, SimulatorAssumption
  <2> QED BY <2>1, <2>2
<1>5. usedMargin = 0
  BY DEF Init
<1> QED BY <1>3, <1>4, <1>5 DEF MarginInv

LEMMA MarginNext == TradeInv /\ MarginInv /\ [Next]_vars => MarginInv'
<1> SUFFICES ASSUME TradeInv, MarginInv, [Next]_vars, torn' = {} PROVE MarginInv'
  BY DEF MarginInv
<1>0. torn = {}
  BY TornGrows DEF TradeInv
<1>1. TypeOK /\ usedMargin \in Int /\ "SHORT" \in Sides
  BY DEF TradeInv, TypeOK, Sides
<1>2. Book("SHORT") \in Nat /\ Charged("SHORT") \in Nat /\ usedMargin >= 3 * Book("SHORT") + Charged("SHORT")
  BY <1>0, <1>1, LedgerType, BookNat DEF MarginInv
<1>3. CASE Quiet
  <2>1. usedMargin' = usedMargin /\ Book("SHORT")' = Book("SHORT") /\ Charged("SHORT")' = Charged("SHORT")
    BY <1>1, <1>3 DEF Quiet, money
  <2> QED BY <1>2, <2>1 DEF MarginInv
<1>4. ASSUME NEW k \in Keys, NEW price \in Nat, ClosesAt(k, price) PROVE MarginInv'
  <2> PICK p : p = object[positions[k]]
    OBVIOUS
  <2> PICK book : book = p.avg * p.qty
    OBVIOUS
  <2>1. /\ p.side \in Sides /\ book \in Nat /\ Charged("SHORT")' = Charged("SHORT")
        /\ Book(p.side)' = Book(p.side) - book
        /\ \A side \in Sides \ {p.side} : Book(side)' = Book(side)
    BY <1>1, <1>4, CloseLedger
  <2>2. \/ p.side = "LONG" /\ usedMargin' = usedMargin
        \/ p.side = "SHORT" /\ usedMargin' = usedMargin - 3 * book
    BY <1>4 DEF ClosesAt, Close
  <2> QED BY <1>1, <1>2, <2>1, <2>2 DEF MarginInv
<1>5. ASSUME NEW c \in Clients, ChargeCapital(c) PROVE MarginInv'
  <2>1. /\ orders[c] \in Orders
        /\ Book("SHORT")' = Book("SHORT")
        /\ Charged("SHORT")' = Charged("SHORT") + (IF orders[c].side = "SHORT" THEN Charge(orders[c]) ELSE 0)
    BY <1>1, <1>5, ChargeLedger
  <2>2. usedMargin' = IF orders[c].side = "SHORT" THEN usedMargin + Charge(orders[c]) ELSE usedMargin
    BY <1>5 DEF ChargeCapital
  <2>3. Charge(orders[c]) \in Nat
    BY <2>1, ChargeType
  <2> QED BY <1>1, <1>2, <2>1, <2>2, <2>3 DEF MarginInv
<1>6. ASSUME NEW c \in Clients, EnterPosition(c) \/ FinishMerge(c) PROVE MarginInv'
  <2> DEFINE worth == orders[c].price * orders[c].qty
  <2>1. /\ orders[c] \in Orders
        /\ Charged("SHORT")' = Charged("SHORT") - (IF orders[c].side = "SHORT" THEN Charge(orders[c]) ELSE 0)
    BY <1>1, <1>6, EnterLedger
  <2>2. /\ Book("SHORT")' \in Int
        /\ Book("SHORT")' <= Book("SHORT") + (IF orders[c].side = "SHORT" THEN worth ELSE 0)
    BY <1>0, <1>6, EnterBooks
  <2>3. usedMargin' = usedMargin
    BY <1>6 DEF EnterPosition, FinishMerge, money
  <2>4. worth \in Nat /\ (orders[c].side = "SHORT" => Charge(orders[c]) = 3 * worth)
    BY <2>1, ChargeType
  <2> HIDE DEF worth
  <2> QED BY <1>1, <1>2, <2>1, <2>2, <2>3, <2>4 DEF MarginInv
<1> QED BY <1>1, <1>3, <1>4, <1>5, <1>6, StepKinds

\* The blocked margin covers every open short position at its average price, for any
\* number of options, and however orders, prices and exits overlap, until two merges
\* meet on a position or one half merged is closed.
THEOREM MarginAlwaysCovers == Spec => []MarginCovers
<1>1. TypeOK /\ MarginInv => MarginCovers
  <2> SUFFICES ASSUME TypeOK, MarginInv PROVE MarginCovers
    OBVIOUS
  <2>1. Book("SHORT") \in Int /\ Charged("SHORT") \in Nat /\ usedMargin \in Int
    BY LedgerType DEF TypeOK
  <2> QED BY <2>1 DEF MarginInv, MarginCovers
<1> QED BY <1>1, MarginInit, MarginNext, TradeInvAlways, TypeCorrect, PTL DEF Spec

-----------------------------------------------------------------------------
(* What pays *)

\* The step of OnlyLongExitsPay.
PaysByLongExit ==
    torn' = {} /\ Assets' > Assets =>
        \E k \in Keys : LET p == object[positions[k]]
                      IN  /\ Open(k) /\ p.side = "LONG" /\ positions'[k] = 0
                          /\ Assets' - Assets = 2 * (lastPrices'[k] * p.qty - p.avg * p.qty)

LEMMA AssetsNext == TradeInv /\ [Next]_vars => PaysByLongExit
<1> SUFFICES ASSUME TradeInv, [Next]_vars, torn' = {} PROVE PaysByLongExit
  BY DEF PaysByLongExit
<1>0. torn = {}
  BY TornGrows DEF TradeInv
<1>1. TypeOK /\ available \in Int /\ usedMargin \in Int /\ "LONG" \in Sides /\ "SHORT" \in Sides
  BY DEF TradeInv, TypeOK, Sides
<1>2. Book("LONG") \in Nat /\ Charged("LONG") \in Nat
  BY <1>0, <1>1, LedgerType, BookNat
<1>3. CASE Quiet
  <2>1. Assets' = Assets
    BY <1>1, <1>3 DEF Quiet, money, Assets
  <2>2. Assets \in Int
    BY <1>1, <1>2 DEF Assets
  <2> QED BY <2>1, <2>2 DEF PaysByLongExit
<1>4. ASSUME NEW k \in Keys, NEW price \in Nat, ClosesAt(k, price) PROVE PaysByLongExit
  <2> PICK p : p = object[positions[k]]
    OBVIOUS
  <2> PICK book : book = p.avg * p.qty
    OBVIOUS
  <2> DEFINE worth == price * p.qty
  <2>1. /\ p.side \in Sides /\ p.qty \in Nat /\ book \in Nat /\ positions'[k] = 0
        /\ Charged("LONG")' = Charged("LONG")
        /\ Book(p.side)' = Book(p.side) - book
        /\ \A side \in Sides \ {p.side} : Book(side)' = Book(side)
    BY <1>1, <1>4, CloseLedger
  <2>2. Open(k) /\ lastPrices'[k] = price
    BY <1>4 DEF ClosesAt
  <2>3. worth \in Nat /\ 2 * price * p.qty = 2 * worth
    BY <2>1
  <2>4. CASE p.side = "LONG"
    <3>1. available' = available + 2 * worth /\ usedMargin' = usedMargin
      BY <1>4, <2>3, <2>4 DEF ClosesAt, Close
    <3>2. Book("LONG")' = Book("LONG") - book
      BY <2>1, <2>4
    <3> HIDE DEF worth
    <3>3. Assets' - Assets = 2 * (worth - book)
      BY <1>1, <1>2, <2>1, <2>3, <3>1, <3>2 DEF Assets
    <3> QED BY <2>1, <2>2, <2>4, <3>3 DEF PaysByLongExit, worth
  <2>5. CASE p.side = "SHORT"
    <3>1. available' = available + 3 * book /\ usedMargin' = usedMargin - 3 * book
      BY <1>4, <2>5 DEF ClosesAt, Close
    <3>2. Book("LONG")' = Book("LONG")
      BY <1>1, <2>1, <2>5
    <3>3. Assets' = Assets /\ Assets \in Int
      BY <1>1, <1>2, <2>1, <3>1, <3>2 DEF Assets
    <3> QED BY <3>3 DEF PaysByLongExit
  <2> QED BY <2>1, <2>4, <2>5 DEF Sides
<1>5. ASSUME NEW c \in Clients, ChargeCapital(c) PROVE PaysByLongExit
  <2> DEFINE charge == Charge(orders[c])
  <2>1. /\ orders[c] \in Orders
        /\ Book("LONG")' = Book("LONG")
        /\ Charged("LONG")' = Charged("LONG") + (IF orders[c].side = "LONG" THEN charge ELSE 0)
    BY <1>1, <1>5, ChargeLedger
  <2>2. /\ available' = available - charge
        /\ usedMargin' = IF orders[c].side = "SHORT" THEN usedMargin + charge ELSE usedMargin
    BY <1>5 DEF ChargeCapital
  <2>3. charge \in Nat /\ orders[c].side \in Sides
    BY <2>1, ChargeType DEF Orders
  <2> HIDE DEF charge
  <2>4. Assets' = Assets /\ Assets \in Int
    BY <1>1, <1>2, <2>1, <2>2, <2>3 DEF Assets, Sides
  <2> QED BY <2>4 DEF PaysByLongExit
<1>6. ASSUME NEW c \in Clients, EnterPosition(c) \/ FinishMerge(c) PROVE PaysByLongExit
  <2> DEFINE worth == orders[c].price * orders[c].qty
  <2>1. /\ orders[c] \in Orders
        /\ Charged("LONG")' = Charged("LONG") - (IF orders[c].side = "LONG" THEN Charge(orders[c]) ELSE 0)
    BY <1>1, <1>6, EnterLedger
  <2>2. /\ Book("LONG")' \in Int
        /\ Book("LONG")' <= Book("LONG") + (IF orders[c].side = "LONG" THEN worth ELSE 0)
    BY <1>0, <1>6, EnterBooks
  <2>3. available' = available /\ usedMargin' = usedMargin
    BY <1>6 DEF EnterPosition, FinishMerge, money
  <2>4. worth \in Nat /\ (orders[c].side = "LONG" => Charge(orders[c]) = 2 * worth)
    BY <2>1, ChargeType
  <2> HIDE DEF worth
  <2>5. Assets' <= Assets /\ Assets \in Int /\ Assets' \in Int
    BY <1>1, <1>2, <2>1, <2>2, <2>3, <2>4 DEF Assets
  <2> QED BY <2>5 DEF PaysByLongExit
<1> QED BY <1>1, <1>3, <1>4, <1>5, <1>6, StepKinds

\* Cash, blocked margin and what long positions cost grow only by a long exit, and then
\* by exactly its profit, whatever else merges, flips, exits or overlaps, as long as no
\* position is torn.
THEOREM OnlyLongExitsEverPay == Spec => OnlyLongExitsPay
<1>1. TradeInv /\ [Next]_vars => [PaysByLongExit]_vars
  BY AssetsNext
<1>2. Spec => [][PaysByLongExit]_vars
  BY <1>1, TradeInvAlways, PTL DEF Spec
<1> QED BY <1>2 DEF OnlyLongExitsPay, PaysByLongExit
=============================================================================
