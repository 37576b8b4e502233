---------------------------- MODULE PipelineProofs ----------------------------
(***************************************************************************)
(* Proofs about Pipeline, for any quotes and spot prices and any size of   *)
(* the rings: what a ring holds is what came last, prices are those of     *)
(* their tick, and a trade is recommended exactly for a strong pair.       *)
(***************************************************************************)
EXTENDS Pipeline, SequenceTheorems, TLAPS

-----------------------------------------------------------------------------
(* Rings *)

Slots == 0..RingSize-1
Rings == [data : [Slots -> Quotes \cup {None}], index : Slots, size : 0..RingSize]

\* The slot of the i-th of the quotes a ring holds, oldest first.
SlotOf(r, i) == (r.index - r.size + RingSize + i - 1) % RingSize

\* The ring holds the quotes of s, and these only.
Holds(r, s) ==
  /\ r \in Rings /\ s \in Seq(Quotes) /\ Len(s) = r.size
  /\ \A i \in 1..r.size : r.data[SlotOf(r, i)] = s[i]

\* An index past the end goes on from the start.
LEMMA Wrap ==
  ASSUME NEW x \in 0..2*RingSize-1
  PROVE  x % RingSize = IF x < RingSize THEN x ELSE x - RingSize
<1>1. RingSize \in Nat /\ RingSize > 1 /\ x \in Nat
  BY RingAssumption
<1> DEFINE q == x \div RingSize
           m == x % RingSize
<1>2. q \in Int /\ m \in 0..RingSize-1 /\ x = RingSize * q + m
  BY <1>1
<1> HIDE DEF q, m
<1>3. q >= 0
  <2>1. q < 0 => RingSize * q <= -RingSize
    BY <1>1, <1>2
  <2> QED BY <1>1, <1>2, <2>1
<1>4. q <= 1
  <2>1. q > 1 => RingSize * q >= 2 * RingSize
    BY <1>1, <1>2
  <2> QED BY <1>1, <1>2, <2>1
<1>5. CASE q = 0
  BY <1>1, <1>2, <1>5 DEF m
<1>6. CASE q = 1
  BY <1>1, <1>2, <1>6 DEF m
<1> QED BY <1>2, <1>3, <1>4, <1>5, <1>6

LEMMA SlotRange ==
  ASSUME NEW r \in Rings, NEW i \in 1..r.size + 1, i <= RingSize
  PROVE  /\ SlotOf(r, i) \in Slots
         /\ SlotOf(r, i) = IF r.index - r.size + i - 1 < 0 THEN r.index - r.size + RingSize + i - 1
                           ELSE r.index - r.size + i - 1
<1>1. RingSize \in Nat /\ RingSize > 1
  BY RingAssumption
<1>2. r.index \in 0..RingSize-1 /\ r.size \in 0..RingSize
  BY DEF Rings, Slots
<1>3. r.index - r.size + RingSize + i - 1 \in 0..2*RingSize-1
  BY <1>1, <1>2
<1> QED BY <1>1, <1>2, <1>3, Wrap DEF SlotOf, Slots

\* What is read of a ring is what it holds.
LEMMA RingReads ==
  ASSUME NEW r, NEW s, Holds(r, s)
  PROVE  /\ RingAll(r) = s
         /\ r.size > 0 => RingLast(r) = s[Len(s)]
<1>1. RingSize \in Nat /\ RingSize > 1
  BY RingAssumption
<1>2. r.index \in 0..RingSize-1 /\ r.size \in 0..RingSize /\ Len(s) = r.size /\ s \in Seq(Quotes) /\ r \in Rings
  BY DEF Holds, Rings, Slots
<1>3. RingAll(r) = [i \in 1..r.size |-> r.data[SlotOf(r, i)]]
  BY DEF RingAll, SlotOf
<1>4. RingAll(r) = [i \in 1..r.size |-> s[i]]
  BY <1>3 DEF Holds
<1>5. s = [i \in 1..r.size |-> s[i]]
  BY <1>2
<1>6. ASSUME r.size > 0 PROVE RingLast(r) = s[Len(s)]
  <2>1. r.size \in 1..r.size
    BY <1>2, <1>6
  <2>2. SlotOf(r, r.size) = (r.index - 1 + RingSize) % RingSize
    <3>1. r.index - r.size + RingSize + r.size - 1 = r.index - 1 + RingSize
      BY <1>1, <1>2
    <3> QED BY <3>1 DEF SlotOf
  <2>3. r.data[SlotOf(r, r.size)] = s[r.size]
    BY <2>1 DEF Holds
  <2> QED BY <1>2, <2>2, <2>3 DEF RingLast
<1> QED BY <1>4, <1>5, <1>6

LEMMA EmptyHolds == Holds(EmptyRing, <<>>)
<1>1. RingSize \in Nat /\ RingSize > 1
  BY RingAssumption
<1>2. EmptyRing \in Rings /\ EmptyRing.size = 0
  BY <1>1 DEF EmptyRing, Rings, Slots
<1> QED BY <1>2 DEF Holds

\* A ring that a quote is added to holds what it held and the quote; when it was full,
\* without the oldest.
LEMMA RingAddHolds ==
  ASSUME NEW r, NEW s, Holds(r, s), NEW q \in Quotes
  PROVE  /\ Holds(RingAdd(r, q), Recent(Append(s, q)))
         /\ RingAdd(r, q).size > 0
         /\ Recent(Append(s, q))[Len(Recent(Append(s, q)))] = q
<1> DEFINE n == RingAdd(r, q)
           a == Append(s, q)
           t == Recent(a)
<1> SUFFICES Holds(n, t) /\ n.size > 0 /\ t[Len(t)] = q
  OBVIOUS
<1>1. RingSize \in Nat /\ RingSize > 1
  BY RingAssumption
<1>2. r \in Rings /\ s \in Seq(Quotes) /\ Len(s) = r.size /\ \A i \in 1..r.size : r.data[SlotOf(r, i)] = s[i]
  BY DEF Holds
<1>3. r.index \in 0..RingSize-1 /\ r.size \in 0..RingSize /\ r.data \in [Slots -> Quotes \cup {None}]
  BY <1>2 DEF Rings, Slots
<1>4. /\ n.data = [r.data EXCEPT ![r.index] = q]
      /\ n.index = (r.index + 1) % RingSize
      /\ n.size = IF r.size < RingSize THEN r.size + 1 ELSE r.size
  BY DEF RingAdd
<1>5. n.index = IF r.index + 1 < RingSize THEN r.index + 1 ELSE 0
  <2>1. r.index + 1 \in 0..2*RingSize-1
    BY <1>1, <1>3
  <2> QED BY <1>1, <1>3, <1>4, <2>1, Wrap
<1>6. n \in Rings
  <2>1. n.index \in Slots /\ n.size \in 0..RingSize /\ n.data \in [Slots -> Quotes \cup {None}]
    BY <1>1, <1>3, <1>4, <1>5 DEF Slots
  <2>2. n = [data |-> n.data, index |-> n.index, size |-> n.size]
    BY DEF RingAdd
  <2> HIDE DEF n
  <2> QED BY <2>1, <2>2 DEF Rings
<1>7. /\ a \in Seq(Quotes) /\ Len(a) = r.size + 1
      /\ \A i \in 1..r.size : a[i] = s[i]
      /\ a[r.size + 1] = q
  BY <1>2
<1> HIDE DEF n, a
<1>8. \A i \in Slots : n.data[i] = IF i = r.index THEN q ELSE r.data[i]
  BY <1>3, <1>4
<1>9. CASE r.size < RingSize
  <2>1. t = a /\ n.size = r.size + 1
    BY <1>1, <1>3, <1>4, <1>7, <1>9 DEF Recent
  <2>2. \A i \in 1..r.size + 1 : /\ SlotOf(n, i) \in Slots
                                 /\ SlotOf(n, i) = SlotOf(r, i)
                                 /\ SlotOf(r, i) = r.index <=> i = r.size + 1
    <3> TAKE i \in 1..r.size + 1
    <3>1. i \in 1..n.size + 1 /\ i <= RingSize
      BY <1>1, <1>3, <1>9, <2>1
    <3>2. /\ SlotOf(n, i) \in Slots
          /\ SlotOf(n, i) = IF n.index - n.size + i - 1 < 0 THEN n.index - n.size + RingSize + i - 1
                            ELSE n.index - n.size + i - 1
      BY <1>6, <3>1, SlotRange
    <3>3. SlotOf(r, i) = IF r.index - r.size + i - 1 < 0 THEN r.index - r.size + RingSize + i - 1
                         ELSE r.index - r.size + i - 1
      BY <1>2, <3>1, SlotRange
    <3> DEFINE index == r.index
               size == r.size
    <3>4. /\ index \in 0..RingSize-1 /\ size \in 0..RingSize-1
          /\ n.size = size + 1 /\ n.index = IF index + 1 < RingSize THEN index + 1 ELSE 0
      BY <1>1, <1>3, <1>5, <1>9, <2>1
    <3>5. SlotOf(r, i) = IF index - size + i - 1 < 0 THEN index - size + RingSize + i - 1 ELSE index - size + i - 1
      BY <3>3
    <3> HIDE DEF index, size
    <3>6. SlotOf(n, i) = SlotOf(r, i)
      BY <1>1, <3>2, <3>4, <3>5 DEF size
    <3>7. SlotOf(r, i) = index <=> i = size + 1
      BY <1>1, <3>4, <3>5 DEF size
    <3> QED BY <3>2, <3>6, <3>7 DEF index, size
  <2>3. \A i \in 1..n.size : n.data[SlotOf(n, i)] = t[i]
    BY <1>2, <1>3, <1>7, <1>8, <2>1, <2>2
  <2> QED BY <1>3, <1>6, <1>7, <2>1, <2>3 DEF Holds
<1>10. CASE r.size = RingSize
  <2>1. t = Tail(a) /\ n.size = RingSize
    BY <1>1, <1>3, <1>4, <1>7, <1>10 DEF Recent
  <2>2. t \in Seq(Quotes) /\ Len(t) = RingSize /\ \A i \in 1..RingSize : t[i] = a[i + 1]
    BY <1>1, <1>7, <1>10, <2>1
  <2>3. \A i \in 1..RingSize : /\ SlotOf(n, i) \in Slots
                               /\ i < RingSize => SlotOf(n, i) = SlotOf(r, i + 1) /\ SlotOf(n, i) # r.index
                               /\ i = RingSize => SlotOf(n, i) = r.index
    <3> TAKE i \in 1..RingSize
    <3>1. /\ SlotOf(n, i) \in Slots
          /\ SlotOf(n, i) = IF n.index - n.size + i - 1 < 0 THEN n.index - n.size + RingSize + i - 1
                            ELSE n.index - n.size + i - 1
      <4>1. i \in 1..n.size + 1 /\ i <= RingSize
        BY <1>1, <2>1
      <4> QED BY <1>6, <4>1, SlotRange
    <3>2. i < RingSize =>
             SlotOf(r, i + 1) = IF r.index - r.size + i < 0 THEN r.index - r.size + RingSize + i
                                ELSE r.index - r.size + i
      <4> SUFFICES ASSUME i < RingSize
                   PROVE SlotOf(r, i + 1) = IF r.index - r.size + i < 0 THEN r.index - r.size + RingSize + i
                                            ELSE r.index - r.size + i
        OBVIOUS
      <4> DEFINE j == i + 1
      <4>1. j \in 1..r.size + 1 /\ j <= RingSize
        BY <1>1, <1>10
      <4> HIDE DEF j
      <4>2. SlotOf(r, j) = IF r.index - r.size + j - 1 < 0 THEN r.index - r.size + RingSize + j - 1
                           ELSE r.index - r.size + j - 1
        BY <1>2, <4>1, SlotRange
      <4> QED BY <1>1, <1>3, <4>2 DEF j
    <3> QED BY <1>1, <1>3, <1>5, <1>10, <2>1, <3>1, <3>2
  <2>4. \A i \in 1..n.size : n.data[SlotOf(n, i)] = t[i]
    <3> SUFFICES ASSUME NEW i \in 1..RingSize PROVE n.data[SlotOf(n, i)] = t[i]
      BY <2>1
    <3>1. CASE i < RingSize
      <4>1. i + 1 \in 1..r.size
        BY <1>1, <1>10, <3>1
      <4>2. n.data[SlotOf(n, i)] = r.data[SlotOf(r, i + 1)]
        BY <1>8, <2>3, <3>1
      <4> QED BY <1>2, <1>7, <2>2, <4>1, <4>2
    <3>2. CASE i = RingSize
      BY <1>7, <1>8, <1>10, <2>2, <2>3, <3>2
    <3> QED BY <1>1, <3>1, <3>2
  <2>5. t[Len(t)] = q
    BY <1>1, <1>7, <1>10, <2>2
  <2> QED BY <1>1, <1>6, <2>1, <2>2, <2>4, <2>5 DEF Holds
<1> QED BY <1>1, <1>3, <1>9, <1>10 DEF n, a

-----------------------------------------------------------------------------
(* What the rings hold *)

\* A leg's ring holds what was seen of it since the buffer was made, and the newest of
\* that is what the change detector knows.
LegHolds(b, leg, s) ==
  /\ Holds(b[leg].ring, s)
  /\ b[leg].ring.size > 0 => s[Len(s)] = detector[leg]

WindowInv ==
  /\ detector \in [Legs -> Quotes \cup {None}]
  /\ seen \in [Legs -> Seq(Quotes)]
  /\ tickCount \in Nat
  /\ buffer = None => \A leg \in Legs : seen[leg] = <<>>
  /\ buffer # None => /\ buffer \in [Legs -> [ring : Rings, oiEvents : Int]]
                      /\ \A leg \in Legs : LegHolds(buffer, leg, seen[leg])

Added(quote, spot) == AddChangedTicks(buffer, Changed(quote, spot), quote)

LEMMA WindowInit == Init => WindowInv
<1> SUFFICES ASSUME Init PROVE WindowInv
  OBVIOUS
<1> QED BY DEF Init, WindowInv

LEMMA QuoteNotNone == Quotes \subseteq [ltp : Nat, oi : Nat, vol : Nat] /\ None \notin Quotes
BY QuoteAssumption

LEMMA ChangedQuoted ==
  ASSUME NEW spot, NEW quote \in [Legs -> Quotes \cup {None}]
  PROVE  \A leg \in Changed(quote, spot) : leg \in Legs /\ quote[leg] \in Quotes
BY DEF Changed

LEMMA ShownQuotes ==
  ASSUME NEW spot, NEW quote \in Shown(spot)
  PROVE  quote \in [Legs -> Quotes \cup {None}]
BY DEF Shown

LEMMA OIEventsType ==
  ASSUME NEW leg, NEW b, NEW q, b.oiEvents \in Int, MaxOIEvents \in Int
  PROVE  AddOIEvent(leg, b, q) \in Int
BY DEF AddOIEvent

\* Where quotes are added, every leg that changed ends with its new quote, and the
\* others hold what they held.
LEMMA AddedHolds ==
  ASSUME WindowInv, NEW spot, NEW quote \in [Legs -> Quotes \cup {None}], Changed(quote, spot) # {}
  PROVE  /\ \A leg \in Changed(quote, spot) :
              /\ Holds(Added(quote, spot)[leg].ring, Recent(Append(seen[leg], quote[leg])))
              /\ Added(quote, spot)[leg].ring.size > 0
              /\ Recent(Append(seen[leg], quote[leg]))[Len(Recent(Append(seen[leg], quote[leg])))] = quote[leg]
         /\ \A leg \in Legs \ Changed(quote, spot) :
              /\ Holds(Added(quote, spot)[leg].ring, seen[leg])
              /\ Added(quote, spot)[leg].ring.size > 0 => seen[leg][Len(seen[leg])] = detector[leg]
<1> DEFINE changed == Changed(quote, spot)
           base == IF buffer = None THEN EmptyBuffer ELSE buffer
           added == Added(quote, spot)
<1>1. added = [leg \in Legs |->
                 IF leg \notin changed THEN base[leg]
                 ELSE [ring     |-> RingAdd(base[leg].ring, quote[leg]),
                       oiEvents |-> AddOIEvent(leg, base[leg], quote[leg])]]
  BY DEF Added, AddChangedTicks
<1>2. \A leg \in Legs : /\ Holds(base[leg].ring, seen[leg])
                        /\ base[leg].ring.size > 0 => seen[leg][Len(seen[leg])] = detector[leg]
  <2>1. CASE buffer = None
    <3>1. \A leg \in Legs : base[leg].ring = EmptyRing /\ seen[leg] = <<>>
      BY <2>1 DEF EmptyBuffer, WindowInv
    <3>2. EmptyRing.size = 0
      BY DEF EmptyRing
    <3> QED BY <3>1, <3>2, EmptyHolds
  <2>2. CASE buffer # None
    BY <2>2 DEF WindowInv, LegHolds
  <2> QED BY <2>1, <2>2
<1> HIDE DEF base, added, changed
<1>3. \A leg \in changed : leg \in Legs /\ quote[leg] \in Quotes
  BY ChangedQuoted DEF changed
<1>4. ASSUME NEW leg \in changed
      PROVE  /\ Holds(added[leg].ring, Recent(Append(seen[leg], quote[leg])))
             /\ added[leg].ring.size > 0
             /\ Recent(Append(seen[leg], quote[leg]))[Len(Recent(Append(seen[leg], quote[leg])))] = quote[leg]
  <2>1. added[leg].ring = RingAdd(base[leg].ring, quote[leg])
    BY <1>1, <1>3
  <2> QED BY <1>2, <1>3, <2>1, RingAddHolds
<1>5. ASSUME NEW leg \in Legs \ changed PROVE added[leg] = base[leg]
  BY <1>1
<1> QED BY <1>2, <1>4, <1>5 DEF added, changed

LEMMA ProcessWindow ==
  ASSUME WindowInv, NEW spot \in Spots, NEW many \in BOOLEAN, NEW quote \in Shown(spot), Process(quote, spot, many)
  PROVE  WindowInv'
<1> DEFINE changed == Changed(quote, spot)
           added == Added(quote, spot)
           cleaned == Cleanup(added, tickCount + 1, spot)
<1>1. quote \in [Legs -> Quotes \cup {None}]
  BY ShownQuotes
<1>2. \A leg \in changed : leg \in Legs /\ quote[leg] \in Quotes
  BY <1>1, ChangedQuoted
<1>3. /\ detector' = [leg \in Legs |-> IF leg \in changed THEN quote[leg] ELSE detector[leg]]
      /\ buffer' = cleaned /\ tickCount' = tickCount + 1
      /\ seen' = [leg \in Legs |->
                   IF cleaned = None THEN <<>>
                   ELSE IF leg \in changed THEN Recent(Append(seen[leg], quote[leg]))
                   ELSE seen[leg]]
  BY DEF Process, Added
<1>4. cleaned = None \/ cleaned = added
  BY DEF Cleanup
<1>5. changed = {} => added = buffer
  BY DEF Added, AddChangedTicks
<1>6. changed # {} =>
        /\ \A leg \in changed :
              /\ Holds(added[leg].ring, Recent(Append(seen[leg], quote[leg])))
              /\ Recent(Append(seen[leg], quote[leg]))[Len(Recent(Append(seen[leg], quote[leg])))] = quote[leg]
        /\ \A leg \in Legs \ changed :
              /\ Holds(added[leg].ring, seen[leg])
              /\ added[leg].ring.size > 0 => seen[leg][Len(seen[leg])] = detector[leg]
  BY <1>1, AddedHolds
<1>7. changed # {} => added \in [Legs -> [ring : Rings, oiEvents : Int]]
  <2> SUFFICES ASSUME changed # {} PROVE added \in [Legs -> [ring : Rings, oiEvents : Int]]
    OBVIOUS
  <2> DEFINE base == IF buffer = None THEN EmptyBuffer ELSE buffer
  <2>1. added = [leg \in Legs |->
                 IF leg \notin changed THEN base[leg]
                 ELSE [ring     |-> RingAdd(base[leg].ring, quote[leg]),
                       oiEvents |-> AddOIEvent(leg, base[leg], quote[leg])]]
    BY DEF Added, AddChangedTicks
  <2>2. base \in [Legs -> [ring : Rings, oiEvents : Int]]
    <3>1. EmptyBuffer \in [Legs -> [ring : Rings, oiEvents : Int]]
      BY EmptyHolds DEF EmptyBuffer, Holds
    <3> QED BY <3>1 DEF WindowInv
  <2> HIDE DEF base, added, changed
  <2>3. ASSUME NEW leg \in Legs \cap changed
        PROVE  [ring     |-> RingAdd(base[leg].ring, quote[leg]),
                oiEvents |-> AddOIEvent(leg, base[leg], quote[leg])] \in [ring : Rings, oiEvents : Int]
    <3>1. AddOIEvent(leg, base[leg], quote[leg]) \in Int
      BY <2>2, OIEventsType, BoundAssumption
    <3>2. RingAdd(base[leg].ring, quote[leg]) \in Rings
      BY <1>6, <2>1 DEF Holds
    <3> QED BY <3>1, <3>2
  <2> QED BY <2>1, <2>2, <2>3
<1> HIDE DEF changed, added, cleaned
<1>8. detector' \in [Legs -> Quotes \cup {None}] /\ tickCount' \in Nat
  BY <1>2, <1>3 DEF WindowInv
<1>9. CASE cleaned = None
  <2>1. seen' = [leg \in Legs |-> <<>>]
    BY <1>3, <1>9
  <2>2. seen' \in [Legs -> Seq(Quotes)] /\ \A leg \in Legs : seen'[leg] = <<>>
    BY <2>1
  <2> QED BY <1>3, <1>8, <1>9, <2>2 DEF WindowInv
<1>10. CASE cleaned # None /\ changed = {}
  <2>1. buffer' = buffer /\ buffer # None
    BY <1>3, <1>4, <1>5, <1>10
  <2>2. seen' = [leg \in Legs |-> seen[leg]] /\ detector' = [leg \in Legs |-> detector[leg]]
    BY <1>3, <1>10
  <2>3. seen' = seen /\ detector' = detector
    BY <2>2 DEF WindowInv
  <2> QED BY <1>8, <2>1, <2>3 DEF WindowInv, LegHolds
<1>11. CASE cleaned # None /\ changed # {}
  <2>1. buffer' = added /\ buffer' # None
    BY <1>3, <1>4, <1>11
  <2>2. ASSUME NEW leg \in Legs PROVE seen'[leg] \in Seq(Quotes) /\ LegHolds(buffer, leg, seen[leg])'
    <3>1. CASE leg \in changed
      <4>1. seen'[leg] = Recent(Append(seen[leg], quote[leg])) /\ detector'[leg] = quote[leg]
        BY <1>3, <1>11, <3>1
      <4>2. /\ Holds(added[leg].ring, seen'[leg])
            /\ seen'[leg][Len(seen'[leg])] = quote[leg]
        BY <1>6, <1>11, <3>1, <4>1
      <4>3. seen'[leg] \in Seq(Quotes)
        BY <4>2 DEF Holds
      <4> QED BY <2>1, <4>1, <4>2, <4>3 DEF LegHolds
    <3>2. CASE leg \notin changed
      <4>1. seen'[leg] = seen[leg] /\ detector'[leg] = detector[leg]
        BY <1>3, <1>11, <3>2
      <4>2. /\ Holds(added[leg].ring, seen[leg])
            /\ added[leg].ring.size > 0 => seen[leg][Len(seen[leg])] = detector[leg]
        BY <1>6, <1>11, <3>2
      <4> QED BY <2>1, <4>1, <4>2 DEF LegHolds, WindowInv
    <3> QED BY <3>1, <3>2
  <2>3. seen' \in [Legs -> Seq(Quotes)]
    <3>1. seen' = [leg \in Legs |-> seen'[leg]]
      BY <1>3
    <3> QED BY <2>2, <3>1
  <2> QED BY <1>7, <1>8, <1>11, <2>1, <2>2, <2>3 DEF WindowInv
<1> QED BY <1>9, <1>10, <1>11

LEMMA WindowNext == WindowInv /\ [Next]_vars => WindowInv'
<1> SUFFICES ASSUME WindowInv, [Next]_vars PROVE WindowInv'
  OBVIOUS
<1>1. CASE UNCHANGED vars
  BY <1>1 DEF vars, WindowInv, LegHolds
<1> QED BY <1>1, ProcessWindow DEF Next, Tick, Done

LEMMA WindowAlways == Spec => []WindowInv
BY WindowInit, WindowNext, PTL DEF Spec

\* What is read of a ring through its wrapping index is the newest quotes of the leg,
\* and the last of them what the change detector compares with, for rings of any size
\* and through any cleanups.
THEOREM WindowsAreRecent == Spec => []WindowIsRecent
<1>1. WindowInv => WindowIsRecent
  BY RingReads DEF WindowInv, WindowIsRecent, LegHolds
<1> QED BY <1>1, WindowAlways, PTL

-----------------------------------------------------------------------------
(* Legs and pairs *)

Windows == {w \in Seq(Quotes) : Len(w) > 1}

\* A leg of a pair is analysed from a window, or is not there.
AnyLeg(a) == a = NoLeg \/ \E w \in Windows : a = Analytics(w)

LEMMA WindowQuotes ==
  ASSUME NEW w \in Windows
  PROVE  /\ Len(w) \in Nat /\ Len(w) > 1
         /\ \A i \in 1..Len(w) : w[i].ltp \in Nat /\ w[i].oi \in Nat /\ w[i].vol \in Nat
<1>1. \A i \in 1..Len(w) : w[i] \in Quotes
  BY DEF Windows
<1> QED BY <1>1, QuoteNotNone DEF Windows

LEMMA Series ==
  ASSUME NEW w \in Windows
  PROVE  /\ Analytics(w).series \in Seq(Nat)
         /\ Len(Analytics(w).series) = Len(w)
         /\ \A i \in 1..Len(w) : Analytics(w).series[i] = w[i].ltp
<1>1. Analytics(w).series = [i \in 1..Len(w) |-> w[i].ltp]
  BY DEF Analytics
<1>2. [i \in 1..Len(w) |-> w[i].ltp] \in [1..Len(w) -> Nat]
  BY WindowQuotes
<1> QED BY <1>1, <1>2, WindowQuotes

LEMMA AnalyticsIsSome ==
  ASSUME NEW w \in Windows
  PROVE  Analytics(w) # NoLeg
<1>1. Len(Analytics(w).series) > 1
  BY Series, WindowQuotes
<1>2. NoLeg.series = <<>>
  BY DEF NoLeg
<1> QED BY <1>1, <1>2

\* What moves a leg shows, and that only one that is there shows any.
LEMMA Moves ==
  ASSUME NEW a, AnyLeg(a)
  PROVE  /\ a.ltp \in Int /\ a.oi \in Int /\ a.vol \in Int
         /\ HasDeltas(a.series, 1) => a # NoLeg
         /\ Rising(a) => a # NoLeg
<1>1. CASE a = NoLeg
  <2>1. a.ltp = 0 /\ a.oi = 0 /\ a.vol = 0 /\ a.series = <<>>
    BY <1>1 DEF NoLeg
  <2>2. Len(a.series) = 0
    BY <2>1
  <2>3. ~HasDeltas(a.series, 1) /\ ~HasDeltas(a.series, 2)
    BY <2>2 DEF HasDeltas
  <2> QED BY <2>1, <2>3 DEF Rising
<1>2. ASSUME NEW w \in Windows, a = Analytics(w)
      PROVE  a.ltp \in Int /\ a.oi \in Int /\ a.vol \in Int /\ a # NoLeg
  <2>1. /\ w[Len(w)].ltp \in Nat /\ w[Len(w)].oi \in Nat /\ w[Len(w)].vol \in Nat
        /\ w[1].ltp \in Nat /\ w[1].oi \in Nat /\ w[1].vol \in Nat
    BY WindowQuotes
  <2>2. a.ltp = w[Len(w)].ltp - w[1].ltp /\ a.oi = w[Len(w)].oi - w[1].oi /\ a.vol = w[Len(w)].vol - w[1].vol
    BY <1>2 DEF Analytics, WindowChange
  <2> QED BY <1>2, <2>1, <2>2, AnalyticsIsSome
<1> QED BY <1>1, <1>2 DEF AnyLeg

\* A strong pair: one leg is built up, the other gives way.
LEMMA StrongPair ==
  ASSUME NEW ce, NEW pe, AnyLeg(ce), AnyLeg(pe), Enriched(ce, pe).bias \in Strong
  PROVE  LET p == Enriched(ce, pe)
             other == IF p.bias = "STRONG_BULLISH" THEN p.pe ELSE p.ce
         IN  /\ Favoured(p) = IF p.bias = "STRONG_BULLISH" THEN ce ELSE pe
             /\ other = IF p.bias = "STRONG_BULLISH" THEN pe ELSE ce
             /\ p.ce = ce /\ p.pe = pe /\ p.score = 95
             /\ Dominates(Favoured(p), other)
             /\ p.bias = "STRONG_BULLISH" \/ p.bias = "STRONG_BEARISH"
<1> DEFINE p == Enriched(ce, pe)
<1>1. p.ce = ce /\ p.pe = pe /\ p.bias = Directional(ce, pe) /\ p.score = Strength(p.bias)
  BY DEF Enriched
<1>2. p.score = 95
  <2>1. p.bias \in Strong
    OBVIOUS
  <2>2. \A b \in Strong : Strength(b) = 95
    BY DEF Strength, Strong
  <2> HIDE DEF p
  <2> QED BY <1>1, <2>1, <2>2
<1>3. p.bias = "STRONG_BULLISH" \/ p.bias = "STRONG_BEARISH"
  BY DEF Strong
<1>4. /\ Directional(ce, pe) = "STRONG_BULLISH" => Dominates(ce, pe)
      /\ Directional(ce, pe) = "STRONG_BEARISH" => Dominates(pe, ce)
  BY DEF Directional
<1> HIDE DEF p
<1>5. p.bias = "STRONG_BULLISH" => Dominates(ce, pe) /\ Favoured(p) = ce
  BY <1>1, <1>4 DEF Favoured
<1>6. p.bias = "STRONG_BEARISH" => Dominates(pe, ce) /\ Favoured(p) = pe
  BY <1>1, <1>4 DEF Favoured
<1> QED BY <1>1, <1>2, <1>3, <1>5, <1>6 DEF p

-----------------------------------------------------------------------------
(* The payload *)

\* A leg of the payload has changed in its tick, and its window ends with the quote of
\* that tick; or it is not there.
LegOf(leg, a, changed, last) ==
  a = NoLeg \/ /\ leg \in changed
               /\ \E w \in Windows : w[Len(w)] = last[leg] /\ a = Analytics(w)

PayloadInv ==
  payload # None =>
    /\ payload.changed \subseteq Legs
    /\ payload.fed = Fed(payload.pairs)
    /\ \/ payload.pairs = {}
       \/ \E ce, pe : /\ payload.pairs = {Enriched(ce, pe)}
                       /\ LegOf("CE", ce, payload.changed, detector)
                       /\ LegOf("PE", pe, payload.changed, detector)

LEMMA ProcessLeg ==
  ASSUME WindowInv, NEW spot \in Spots, NEW many \in BOOLEAN, NEW quote \in Shown(spot),
         Process(quote, spot, many), NEW leg \in Legs
  PROVE  LegOf(leg, LegAnalytics(Added(quote, spot), Changed(quote, spot), leg),
               Changed(quote, spot), detector')
<1> DEFINE changed == Changed(quote, spot)
           added == Added(quote, spot)
           a == LegAnalytics(added, changed, leg)
<1>1. quote \in [Legs -> Quotes \cup {None}]
  BY ShownQuotes
<1>2. leg \in changed => detector'[leg] = quote[leg]
  BY DEF Process
<1> SUFFICES ASSUME a # NoLeg
             PROVE  leg \in changed /\ \E w \in Windows : w[Len(w)] = detector'[leg] /\ a = Analytics(w)
  BY DEF LegOf
<1>3. leg \in changed /\ added[leg].ring.size > 1 /\ a = Analytics(RingAll(added[leg].ring))
  BY DEF LegAnalytics
<1> DEFINE w == Recent(Append(seen[leg], quote[leg]))
<1>4. Holds(added[leg].ring, w) /\ w[Len(w)] = quote[leg]
  BY <1>1, <1>3, AddedHolds
<1> HIDE DEF w, a, added, changed
<1>5. RingAll(added[leg].ring) = w
  BY <1>4, RingReads
<1>6. w \in Windows
  BY <1>3, <1>4 DEF Holds, Windows
<1> QED BY <1>2, <1>3, <1>4, <1>5, <1>6

LEMMA ProcessPayload ==
  ASSUME WindowInv, NEW spot \in Spots, NEW many \in BOOLEAN, NEW quote \in Shown(spot), Process(quote, spot, many)
  PROVE  PayloadInv'
<1> DEFINE changed == Changed(quote, spot)
           added == Added(quote, spot)
           pairs == Pairs(added, changed, spot, many)
           ce == LegAnalytics(added, changed, "CE")
           pe == LegAnalytics(added, changed, "PE")
<1>1. payload'.changed = changed /\ payload'.pairs = pairs /\ payload'.fed = Fed(pairs)
  BY DEF Process, Added
<1>2. changed \subseteq Legs
  BY DEF Changed
<1>3. LegOf("CE", ce, changed, detector') /\ LegOf("PE", pe, changed, detector')
  BY ProcessLeg DEF Legs
<1>4. pairs = {} \/ pairs = {Enriched(ce, pe)}
  BY DEF Pairs
<1> HIDE DEF changed, added, pairs, ce, pe
<1> QED BY <1>1, <1>2, <1>3, <1>4 DEF PayloadInv

LEMMA PayloadNext == WindowInv /\ PayloadInv /\ [Next]_vars => PayloadInv'
<1> SUFFICES ASSUME WindowInv, PayloadInv, [Next]_vars PROVE PayloadInv'
  OBVIOUS
<1>1. CASE UNCHANGED vars
  BY <1>1 DEF vars, PayloadInv, LegOf
<1> QED BY <1>1, ProcessPayload DEF Next, Tick, Done

LEMMA PayloadAlways == Spec => []PayloadInv
<1>1. Init => PayloadInv
  BY DEF Init, PayloadInv
<1> QED BY <1>1, WindowAlways, PayloadNext, PTL DEF Spec

LEMMA LegIsAny ==
  ASSUME NEW leg, NEW a, NEW changed, NEW last, LegOf(leg, a, changed, last)
  PROVE  AnyLeg(a)
BY DEF LegOf, AnyLeg

-----------------------------------------------------------------------------
(* What a strong pair amounts to *)

\* The leg that is built up has risen twice and gained interest; the other has not
\* risen and has not gained any.
LEMMA Dominated ==
  ASSUME NEW u \in Windows, NEW v \in Windows, Dominates(Analytics(u), Analytics(v))
  PROVE  /\ Len(u) > 2 /\ Newest(u, "ltp") > 0 /\ u[Len(u) - 1].ltp > u[Len(u) - 2].ltp
         /\ WindowChange(u, "oi") > 0
         /\ Newest(v, "ltp") <= 0 /\ WindowChange(v, "oi") <= 0
<1> DEFINE a == Analytics(u)
           b == Analytics(v)
<1>1. /\ HasDeltas(a.series, 2) /\ Delta(a.series, 0) > 0 /\ Delta(a.series, 1) > 0
      /\ HasDeltas(b.series, 1) /\ Delta(b.series, 0) <= 0
      /\ a.oi > 0 /\ b.oi <= 0
  BY DEF Dominates, Rising, FallingOrFlat
<1>2. a.oi = WindowChange(u, "oi") /\ b.oi = WindowChange(v, "oi")
  BY DEF Analytics
<1>3. /\ Len(a.series) = Len(u) /\ \A i \in 1..Len(u) : a.series[i] = u[i].ltp
      /\ Len(b.series) = Len(v) /\ \A i \in 1..Len(v) : b.series[i] = v[i].ltp
  BY Series
<1> HIDE DEF a, b
<1>4. Len(u) \in Nat /\ Len(v) \in Nat /\ Len(v) > 1 /\ Len(u) > 2
  BY <1>1, <1>3, WindowQuotes DEF HasDeltas
<1>5. /\ a.series[Len(u)] = u[Len(u)].ltp /\ a.series[Len(u) - 1] = u[Len(u) - 1].ltp
      /\ a.series[Len(u) - 2] = u[Len(u) - 2].ltp
      /\ b.series[Len(v)] = v[Len(v)].ltp /\ b.series[Len(v) - 1] = v[Len(v) - 1].ltp
  BY <1>3, <1>4
<1>6. /\ u[Len(u)].ltp \in Nat /\ u[Len(u) - 1].ltp \in Nat /\ u[Len(u) - 2].ltp \in Nat
      /\ v[Len(v)].ltp \in Nat /\ v[Len(v) - 1].ltp \in Nat
  BY <1>4, WindowQuotes
<1>7. /\ Delta(a.series, 0) = u[Len(u)].ltp - u[Len(u) - 1].ltp
      /\ Delta(a.series, 1) = u[Len(u) - 1].ltp - u[Len(u) - 2].ltp
      /\ Delta(b.series, 0) = v[Len(v)].ltp - v[Len(v) - 1].ltp
  BY <1>3, <1>4, <1>5 DEF Delta
<1>8. Newest(u, "ltp") = u[Len(u)].ltp - u[Len(u) - 1].ltp /\ Newest(v, "ltp") = v[Len(v)].ltp - v[Len(v) - 1].ltp
  BY <1>4 DEF Newest
<1> QED BY <1>1, <1>2, <1>4, <1>6, <1>7, <1>8

LEMMA ChangeType ==
  ASSUME NEW w \in Windows
  PROVE  /\ WindowChange(w, "ltp") \in Int /\ WindowChange(w, "oi") \in Int
         /\ Newest(w, "ltp") \in Int /\ Newest(w, "oi") \in Int
<1>1. Len(w) \in Nat /\ Len(w) > 1
  BY WindowQuotes
<1>2. /\ w[Len(w)].ltp \in Nat /\ w[Len(w)].oi \in Nat /\ w[1].ltp \in Nat /\ w[1].oi \in Nat
      /\ w[Len(w) - 1].ltp \in Nat /\ w[Len(w) - 1].oi \in Nat
  BY <1>1, WindowQuotes
<1>3. /\ WindowChange(w, "ltp") = w[Len(w)].ltp - w[1].ltp /\ WindowChange(w, "oi") = w[Len(w)].oi - w[1].oi
      /\ Newest(w, "ltp") = w[Len(w)].ltp - w[Len(w) - 1].ltp /\ Newest(w, "oi") = w[Len(w)].oi - w[Len(w) - 1].oi
  BY <1>1 DEF WindowChange, Newest
<1> QED BY <1>2, <1>3

\* What a leg that gains interest and rises, and one that does neither, cannot show.
LEMMA SignalOf ==
  ASSUME NEW w \in Windows
  PROVE  /\ WindowChange(w, "oi") > 0 /\ Newest(w, "ltp") > 0 =>
              LegSignal(w) \notin {"SHORT_BUILDUP", "LONG_UNWINDING", "SHORT_COVERING"}
         /\ WindowChange(w, "oi") <= 0 /\ Newest(w, "ltp") <= 0 =>
              LegSignal(w) \notin {"LONG_BUILDUP", "SHORT_BUILDUP", "SHORT_COVERING"}
<1> DEFINE ltp == WindowChange(w, "ltp")
           oi == WindowChange(w, "oi")
           vel == Newest(w, "ltp")
           mom == Newest(w, "oi")
<1>1. ltp \in Int /\ oi \in Int /\ vel \in Int /\ mom \in Int
  BY ChangeType
<1>2. LegSignal(w) =
        CASE ltp > 0 /\ oi > 0 /\ vel > 0 /\ mom > 0 -> "LONG_BUILDUP"
          [] ltp < 0 /\ oi > 0 /\ vel < 0 /\ mom > 0 -> "SHORT_BUILDUP"
          [] ltp > 0 /\ oi < 0 /\ vel > 0            -> "SHORT_COVERING"
          [] ltp < 0 /\ oi < 0 /\ vel < 0            -> "LONG_UNWINDING"
          [] OTHER -> IF Acceleration(w) > 0 /\ VolumeSpikes(w)
                      THEN "MOMENTUM_BURST" ELSE "NEUTRAL"
  BY DEF LegSignal
<1> HIDE DEF ltp, oi, vel, mom
<1>3. ASSUME oi > 0, vel > 0 PROVE LegSignal(w) \notin {"SHORT_BUILDUP", "LONG_UNWINDING", "SHORT_COVERING"}
  <2>1. ~(oi < 0) /\ ~(vel < 0)
    BY <1>1, <1>3
  <2> QED BY <1>2, <2>1
<1>4. ASSUME oi <= 0, vel <= 0 PROVE LegSignal(w) \notin {"LONG_BUILDUP", "SHORT_BUILDUP", "SHORT_COVERING"}
  <2>1. ~(oi > 0) /\ ~(vel > 0)
    BY <1>1, <1>4
  <2> QED BY <1>2, <2>1
<1> QED BY <1>3, <1>4 DEF oi, vel

\* A leg that has risen twice shows neither the pullback nor a fading nor a stall.
LEMMA StillRising ==
  ASSUME NEW u \in Windows, Len(u) > 2, Newest(u, "ltp") > 0, u[Len(u) - 1].ltp > u[Len(u) - 2].ltp
  PROVE  /\ Rising(Analytics(u)) /\ ~Pullback(Analytics(u)) /\ ~Fading(Analytics(u)) /\ ~Stalling(Analytics(u))
         /\ Analytics(u).series[Len(Analytics(u).series)] = u[Len(u)].ltp
         /\ u[Len(u)].ltp \in Nat /\ u[Len(u)].ltp > 0
<1> DEFINE s == Analytics(u).series
<1>1. Len(s) = Len(u) /\ \A i \in 1..Len(u) : s[i] = u[i].ltp
  BY Series
<1>2. Len(u) \in Nat /\ u[Len(u)].ltp \in Nat /\ u[Len(u) - 1].ltp \in Nat /\ u[Len(u) - 2].ltp \in Nat
  BY WindowQuotes
<1>3. Newest(u, "ltp") = u[Len(u)].ltp - u[Len(u) - 1].ltp
  BY <1>2 DEF Newest
<1> HIDE DEF s
<1>4. s[Len(u)] = u[Len(u)].ltp /\ s[Len(u) - 1] = u[Len(u) - 1].ltp /\ s[Len(u) - 2] = u[Len(u) - 2].ltp
  BY <1>1, <1>2
<1>5. Delta(s, 0) \in Int /\ Delta(s, 0) > 0 /\ Delta(s, 1) \in Int /\ Delta(s, 1) > 0 /\ HasDeltas(s, 2)
  BY <1>1, <1>2, <1>3, <1>4 DEF Delta, HasDeltas
<1>6. Move(Delta(s, 0)) = "UP" /\ Move(Delta(s, 1)) = "UP"
  <2>1. \A d \in Int : d > 0 => Move(d) = "UP"
    BY DEF Move
  <2> QED BY <1>5, <2>1
<1>7. ~LastMoves(Analytics(u), <<"UP", "DOWN", "UP">>)
  <2> SUFFICES ASSUME LastMoves(Analytics(u), <<"UP", "DOWN", "UP">>) PROVE FALSE
    OBVIOUS
  <2>1. Move(Delta(s, 1)) = "DOWN"
    BY DEF LastMoves, s
  <2> QED BY <1>6, <2>1
<1>8. ~Fading(Analytics(u)) /\ ~Stalling(Analytics(u))
  <2>1. Fading(Analytics(u)) => Move(Delta(s, 0)) = "DOWN"
    BY DEF Fading, LastMoves, s
  <2>2. Stalling(Analytics(u)) => Move(Delta(s, 0)) = "FLAT"
    BY DEF Stalling, LastMoves, s
  <2> QED BY <1>6, <2>1, <2>2
<1>9. Rising(Analytics(u))
  BY <1>5 DEF Rising, s
<1> QED BY <1>1, <1>2, <1>3, <1>4, <1>7, <1>8, <1>9 DEF Pullback, s

-----------------------------------------------------------------------------
(* What is recommended *)

LEMMA OnlyBest == \A p : p.score \in Int => Best({p}) = p
BY DEF Best

\* A strong pair is bought on the side it favours, at the last price of that leg.
LEMMA TradeOfStrong ==
  ASSUME NEW ce, NEW pe, AnyLeg(ce), AnyLeg(pe), Enriched(ce, pe).bias \in Strong
  PROVE  LET p == Enriched(ce, pe)
             leg == IF p.bias = "STRONG_BULLISH" THEN "CE" ELSE "PE"
             other == IF p.bias = "STRONG_BULLISH" THEN p.pe ELSE p.ce
         IN  /\ ce # NoLeg /\ pe # NoLeg
             /\ BuildTrade({p}) = [action |-> "BUY", leg |-> leg,
                                   entry |-> Favoured(p).series[Len(Favoured(p).series)], score |-> 85]
             /\ Favoured(p).signal \notin {"SHORT_BUILDUP", "LONG_UNWINDING", "SHORT_COVERING"}
             /\ other.signal \notin {"LONG_BUILDUP", "SHORT_BUILDUP", "SHORT_COVERING"}
<1> DEFINE p == Enriched(ce, pe)
           fav == Favoured(p)
           other == IF p.bias = "STRONG_BULLISH" THEN p.pe ELSE p.ce
           entry == fav.series[Len(fav.series)]
<1>1. /\ p.ce = ce /\ p.pe = pe /\ p.score = 95 /\ p.bias \in Strong
      /\ Dominates(fav, other)
      /\ \/ p.bias = "STRONG_BULLISH" /\ fav = ce /\ other = pe
         \/ p.bias = "STRONG_BEARISH" /\ fav = pe /\ other = ce
  BY StrongPair
<1> HIDE DEF p, fav, other
<1>2. /\ fav.vol >= BigVolume \/ other.vol >= BigVolume
      /\ Rising(fav) /\ HasDeltas(other.series, 1) /\ fav.oi > 0
  BY <1>1 DEF Dominates, FallingOrFlat
<1>3. fav # NoLeg /\ other # NoLeg
  BY <1>1, <1>2, Moves
<1>4. PICK u \in Windows, v \in Windows : fav = Analytics(u) /\ other = Analytics(v)
  BY <1>1, <1>3 DEF AnyLeg
<1>5. /\ Len(u) > 2 /\ Newest(u, "ltp") > 0 /\ u[Len(u) - 1].ltp > u[Len(u) - 2].ltp
      /\ WindowChange(u, "oi") > 0 /\ Newest(v, "ltp") <= 0 /\ WindowChange(v, "oi") <= 0
  BY <1>1, <1>4, Dominated
<1>6. /\ ~Pullback(fav) /\ ~Fading(fav) /\ ~Stalling(fav)
      /\ entry \in Nat /\ entry > 0
  BY <1>4, <1>5, StillRising
<1>7. /\ fav.signal \notin {"SHORT_BUILDUP", "LONG_UNWINDING", "SHORT_COVERING"}
      /\ other.signal \notin {"LONG_BUILDUP", "SHORT_BUILDUP", "SHORT_COVERING"}
  <2>1. fav.signal = LegSignal(u) /\ other.signal = LegSignal(v)
    BY <1>4 DEF Analytics
  <2> QED BY <1>5, <2>1, SignalOf
<1>8. ScoreTrade(p) = 85
  <2>1. Favoured(p) = fav
    BY DEF fav
  <2>2. p.ce.vol >= BigVolume \/ p.pe.vol >= BigVolume
    BY <1>1, <1>2
  <2>3. ~EntryValid(p)
    BY <1>6, <2>1 DEF EntryValid
  <2>4. ScoreTrade(p) = Points(TRUE, 25) + Points(TRUE, 25) + Points(TRUE, 20) + Points(TRUE, 15) + Points(FALSE, 15)
    BY <1>1, <1>2, <2>1, <2>2, <2>3 DEF ScoreTrade, Points
  <2> QED BY <2>4 DEF Points
<1>9. ~ExitAtEntry(p, entry)
  <2>1. Favoured(p) = fav
    BY DEF fav
  <2> HIDE DEF entry
  <2> QED BY <1>6, <2>1 DEF ExitAtEntry
<1>10. Best({p}) = p
  BY <1>1, OnlyBest
<1>11. BuildTrade({p}) = [action |-> "BUY", leg |-> IF p.bias = "STRONG_BULLISH" THEN "CE" ELSE "PE",
                          entry |-> entry, score |-> 85]
  BY <1>1, <1>8, <1>9, <1>10 DEF BuildTrade, fav
<1> QED BY <1>1, <1>3, <1>7, <1>11 DEF p, fav, other

LEMMA TradeOfOther ==
  ASSUME NEW ce, NEW pe, Enriched(ce, pe).bias \notin Strong
  PROVE  BuildTrade({Enriched(ce, pe)}) = Hold
<1>1. Enriched(ce, pe).score \in Int
  BY DEF Enriched, Strength
<1>2. Best({Enriched(ce, pe)}) = Enriched(ce, pe)
  BY <1>1, OnlyBest
<1> QED BY <1>2 DEF BuildTrade

\* The two legs a payload with a pair was made of.
LEMMA PayloadLegs ==
  ASSUME PayloadInv, payload # None, payload.pairs # {}
  PROVE  \E ce, pe : /\ payload.pairs = {Enriched(ce, pe)}
                     /\ LegOf("CE", ce, payload.changed, detector)
                     /\ LegOf("PE", pe, payload.changed, detector)
                     /\ AnyLeg(ce) /\ AnyLeg(pe)
BY LegIsAny DEF PayloadInv

\* What is fed of the only pair is the last price of each of its legs.
LEMMA FedOfPair ==
  ASSUME NEW ce, NEW pe, NEW leg \in Legs
  PROVE  LET a == IF leg = "CE" THEN ce ELSE pe
         IN  Fed({Enriched(ce, pe)})[leg] = IF a = NoLeg THEN None ELSE a.series[Len(a.series)]
<1> DEFINE q == Enriched(ce, pe)
           prices == {x \in {q} : (IF leg = "CE" THEN x.ce ELSE x.pe) # NoLeg}
<1>1. q.ce = ce /\ q.pe = pe
  BY DEF Enriched
<1>2. Fed({q})[leg] = IF prices = {} THEN None
                      ELSE LET x == CHOOSE x \in prices : TRUE
                               t == (IF leg = "CE" THEN x.ce ELSE x.pe).series
                           IN t[Len(t)]
  BY DEF Fed
<1> HIDE DEF q
<1>3. prices = IF (IF leg = "CE" THEN ce ELSE pe) = NoLeg THEN {} ELSE {q}
  BY <1>1
<1>4. (CHOOSE x \in {q} : TRUE) = q
  OBVIOUS
<1> QED BY <1>1, <1>2, <1>3, <1>4 DEF q

\* The last price of a leg of the payload is the one the detector holds.
LEMMA LegIsFresh ==
  ASSUME NEW leg, NEW a, NEW changed, NEW last, LegOf(leg, a, changed, last), a # NoLeg
  PROVE  leg \in changed /\ a.series[Len(a.series)] = last[leg].ltp
<1>1. PICK w \in Windows : w[Len(w)] = last[leg] /\ a = Analytics(w)
  BY DEF LegOf
<1>2. Len(a.series) = Len(w) /\ a.series[Len(w)] = w[Len(w)].ltp
  BY <1>1, Series, WindowQuotes
<1> QED BY <1>1, <1>2 DEF LegOf

\* The prices the simulator is given, and the entry of a recommended trade, are those of
\* the tick: however the ring has wrapped and whatever was cleaned up before.
THEOREM PricesAreFresh == Spec => []FreshPrices
<1>1. PayloadInv => FreshPrices
  <2> SUFFICES ASSUME PayloadInv, payload # None
               PROVE  /\ \A leg \in Legs : payload.fed[leg] # None =>
                           leg \in payload.changed /\ payload.fed[leg] = detector[leg].ltp
                      /\ trade.action = "BUY" => trade.entry = payload.fed[trade.leg]
    BY DEF FreshPrices
  <2>1. CASE payload.pairs = {}
    <3>1. \A leg \in Legs : payload.fed[leg] = None
      BY <2>1 DEF PayloadInv, Fed
    <3>2. trade = Hold
      BY <2>1 DEF trade, BuildTrade
    <3> QED BY <3>1, <3>2 DEF Hold
  <2>2. CASE payload.pairs # {}
    <3>1. PICK ce, pe : /\ payload.pairs = {Enriched(ce, pe)}
                        /\ LegOf("CE", ce, payload.changed, detector)
                        /\ LegOf("PE", pe, payload.changed, detector)
                        /\ AnyLeg(ce) /\ AnyLeg(pe)
      BY <2>2, PayloadLegs
    <3> DEFINE p == Enriched(ce, pe)
    <3>2. /\ payload.fed["CE"] = IF ce = NoLeg THEN None ELSE ce.series[Len(ce.series)]
          /\ payload.fed["PE"] = IF pe = NoLeg THEN None ELSE pe.series[Len(pe.series)]
      BY <3>1, FedOfPair DEF PayloadInv, Legs
    <3>3. \A leg \in Legs : payload.fed[leg] # None =>
            leg \in payload.changed /\ payload.fed[leg] = detector[leg].ltp
      BY <3>1, <3>2, LegIsFresh DEF Legs
    <3>4. CASE p.bias \in Strong
      <4>1. /\ ce # NoLeg /\ pe # NoLeg
            /\ trade.leg = IF p.bias = "STRONG_BULLISH" THEN "CE" ELSE "PE"
            /\ trade.entry = Favoured(p).series[Len(Favoured(p).series)]
        <5>1. trade = BuildTrade({p})
          BY <3>1 DEF trade
        <5>2. /\ ce # NoLeg /\ pe # NoLeg
              /\ BuildTrade({p}) = [action |-> "BUY",
                                    leg |-> IF p.bias = "STRONG_BULLISH" THEN "CE" ELSE "PE",
                                    entry |-> Favoured(p).series[Len(Favoured(p).series)], score |-> 85]
          BY <3>1, <3>4, TradeOfStrong
        <5> HIDE DEF p
        <5> QED BY <5>1, <5>2
      <4>2. Favoured(p) = IF p.bias = "STRONG_BULLISH" THEN ce ELSE pe
        BY DEF Favoured, Enriched
      <4> HIDE DEF p
      <4>3. CASE p.bias = "STRONG_BULLISH"
        BY <3>2, <4>1, <4>2, <4>3, <3>3
      <4>4. CASE p.bias # "STRONG_BULLISH"
        BY <3>2, <4>1, <4>2, <4>4, <3>3
      <4> QED BY <4>3, <4>4
    <3>5. CASE p.bias \notin Strong
      <4>1. trade = Hold
        BY <3>1, <3>5, TradeOfOther DEF trade
      <4> QED BY <3>3, <4>1 DEF Hold
    <3> QED BY <3>4, <3>5
  <2> QED BY <2>1, <2>2
<1> QED BY <1>1, PayloadAlways, PTL

\* A trade is recommended exactly for a strong pair, on its side, with both legs changed
\* in the tick, and always with the score 85: for quotes of any kind and any sequence of
\* them.
THEOREM TradesAreStrong == Spec => []TradeIffStrong
<1>1. PayloadInv => TradeIffStrong
  <2> DEFINE strong == {p \in payload.pairs : p.bias \in Strong}
  <2> SUFFICES ASSUME PayloadInv, payload # None
               PROVE  IF strong = {} THEN trade = Hold
                      ELSE /\ trade.action = "BUY"
                           /\ trade.score = 85
                           /\ payload.changed = Legs
                           /\ \A p \in strong :
                                p.bias = (IF trade.leg = "CE" THEN "STRONG_BULLISH" ELSE "STRONG_BEARISH")
    BY DEF TradeIffStrong
  <2>1. CASE payload.pairs = {}
    BY <2>1 DEF trade, BuildTrade
  <2>2. CASE payload.pairs # {}
    <3>1. PICK ce, pe : /\ payload.pairs = {Enriched(ce, pe)}
                        /\ LegOf("CE", ce, payload.changed, detector)
                        /\ LegOf("PE", pe, payload.changed, detector)
                        /\ AnyLeg(ce) /\ AnyLeg(pe)
      BY <2>2, PayloadLegs
    <3> DEFINE p == Enriched(ce, pe)
    <3>2. CASE p.bias \in Strong
      <4>1. /\ ce # NoLeg /\ pe # NoLeg /\ trade.action = "BUY" /\ trade.score = 85
            /\ trade.leg = IF p.bias = "STRONG_BULLISH" THEN "CE" ELSE "PE"
        <5>1. trade = BuildTrade({p})
          BY <3>1 DEF trade
        <5>2. /\ ce # NoLeg /\ pe # NoLeg
              /\ BuildTrade({p}) = [action |-> "BUY",
                                    leg |-> IF p.bias = "STRONG_BULLISH" THEN "CE" ELSE "PE",
                                    entry |-> Favoured(p).series[Len(Favoured(p).series)], score |-> 85]
          BY <3>1, <3>2, TradeOfStrong
        <5> HIDE DEF p
        <5> QED BY <5>1, <5>2
      <4>2. payload.changed = Legs
        BY <3>1, <4>1 DEF LegOf, Legs, PayloadInv
      <4>3. p.bias = "STRONG_BULLISH" \/ p.bias = "STRONG_BEARISH"
        BY <3>2 DEF Strong
      <4>4. strong = {p}
        BY <3>1, <3>2
      <4> HIDE DEF p, strong
      <4> QED BY <4>1, <4>2, <4>3, <4>4
    <3>3. CASE p.bias \notin Strong
      <4>1. trade = Hold
        BY <3>1, <3>3, TradeOfOther DEF trade
      <4>2. strong = {}
        BY <3>1, <3>3
      <4> QED BY <4>1, <4>2
    <3> QED BY <3>2, <3>3
  <2> QED BY <2>1, <2>2
<1> QED BY <1>1, PayloadAlways, PTL

\* The signal of a leg and the bias of its pair, computed apart, agree on every payload
\* with a strong pair.
THEOREM DetectorsAgree == Spec => []SignalsAgree
<1>1. PayloadInv => SignalsAgree
  <2> SUFFICES ASSUME PayloadInv, payload # None, NEW p \in payload.pairs, p.bias \in Strong
               PROVE  LET other == IF p.bias = "STRONG_BULLISH" THEN p.pe ELSE p.ce
                      IN /\ Favoured(p).signal \notin {"SHORT_BUILDUP", "LONG_UNWINDING", "SHORT_COVERING"}
                         /\ other.signal \notin {"LONG_BUILDUP", "SHORT_BUILDUP", "SHORT_COVERING"}
    BY DEF SignalsAgree
  <2>1. PICK ce, pe : payload.pairs = {Enriched(ce, pe)} /\ AnyLeg(ce) /\ AnyLeg(pe)
    BY PayloadLegs
  <2>2. p = Enriched(ce, pe)
    BY <2>1
  <2> QED BY <2>1, <2>2, TradeOfStrong
<1> QED BY <1>1, PayloadAlways, PTL
=============================================================================
