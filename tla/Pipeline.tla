------------------------------- MODULE Pipeline -------------------------------
(***************************************************************************)
(* processor.Pipeline: the change detector, the per-strike ring buffers,   *)
(* the pair signals and the payload of each tick, seen from one strike.    *)
(* Strikes do not influence one another except through their number, which *)
(* narrows the range of the pairs that are kept: many says whether ten     *)
(* strikes have changed in a tick.                                         *)
(*                                                                         *)
(* Spot and strike are counted in steps of 25 points, so that strikes lie  *)
(* at even positions.  CEOIEvents and PEOIEvents, which nothing reads, are *)
(* represented by their lengths.                                           *)
(***************************************************************************)
EXTENDS Signals

CONSTANTS
  Quotes,           \* the quotes [ltp, oi, vol] a leg may show
  Strike,           \* the strike the model follows
  Spots,            \* the spot prices that arrive
  RingSize,         \* len(RingBuffer.Data): 5
  StrikeRange,      \* 8 steps: 200 points
  NarrowRange,      \* 4 steps: 100 points
  CleanupRange,     \* 16 steps: 400 points
  SnapshotEvery,    \* 5 ticks
  CleanupEvery,     \* 20 ticks
  MaxOIEvents,      \* 10 OI events are kept for calls
  MaxTick,          \* bound: ticks processed
  None              \* no quote, no buffer, no payload

ASSUME RingAssumption == RingSize \in Nat /\ RingSize > 1
ASSUME BoundAssumption == MaxOIEvents \in Nat /\ MaxTick \in Nat
ASSUME QuoteAssumption == Quotes \subseteq [ltp : Nat, oi : Nat, vol : Nat] /\ None \notin Quotes

Legs == {"CE", "PE"}

VARIABLES
  detector,         \* ChangeDetector.state: leg -> last quote seen, or None
  buffer,           \* Engine.Data[Strike]: leg -> ring and OI events, or None
  tickCount,        \* Engine.tickCount
  payload,          \* the payload of the last tick, or None
  seen              \* history: leg -> its changed quotes since the buffer was made

vars == <<detector, buffer, tickCount, payload, seen>>

Dist(a, b) == IF a < b THEN b - a ELSE a - b

-----------------------------------------------------------------------------
(* RingBuffer                                                              *)

EmptyRing == [data |-> [i \in 0..RingSize-1 |-> None], index |-> 0, size |-> 0]

RingAdd(r, q) ==
  [data  |-> [r.data EXCEPT ![r.index] = q],
   index |-> (r.index + 1) % RingSize,
   size  |-> IF r.size < RingSize THEN r.size + 1 ELSE r.size]

\* Mutant: the read position is taken before the wrap of the write index.
RingAllFromIndex(r) == [i \in 1..r.size |-> r.data[(r.index + i - 1) % RingSize]]

RingAll(r) ==
  [i \in 1..r.size |-> r.data[(r.index - r.size + RingSize + i - 1) % RingSize]]

RingLast(r) == r.data[(r.index - 1 + RingSize) % RingSize]

-----------------------------------------------------------------------------

EmptyBuffer == [leg \in Legs |-> [ring |-> EmptyRing, oiEvents |-> 0]]

Init ==
  /\ detector = [leg \in Legs |-> None]
  /\ buffer = None
  /\ tickCount = 0
  /\ payload = None
  /\ seen = [leg \in Legs |-> <<>>]

\* Mutant: only a new price counts as a change.
PriceChanged(quote, spot) ==
  IF Dist(Strike, spot) > StrikeRange THEN {}
  ELSE {leg \in Legs : /\ quote[leg] # None
                       /\ detector[leg] = None \/ quote[leg].ltp # detector[leg].ltp}

\* The legs that Filter reports: quoted, in range, and not as last seen.
Changed(quote, spot) ==
  IF Dist(Strike, spot) > StrikeRange THEN {}
  ELSE {leg \in Legs : quote[leg] # None /\ quote[leg] # detector[leg]}

\* An OI event is kept when the interest is new; only calls drop the oldest.
AddOIEvent(leg, b, q) ==
  IF b.ring.size > 0 /\ RingLast(b.ring).oi = q.oi THEN b.oiEvents
  ELSE IF leg = "CE" /\ b.oiEvents >= MaxOIEvents THEN MaxOIEvents
  ELSE b.oiEvents + 1

AddChangedTicks(b, changed, quote) ==
  IF changed = {} THEN b
  ELSE LET base == IF b = None THEN EmptyBuffer ELSE b
       IN [leg \in Legs |->
             IF leg \notin changed THEN base[leg]
             ELSE [ring     |-> RingAdd(base[leg].ring, quote[leg]),
                   oiEvents |-> AddOIEvent(leg, base[leg], quote[leg])]]

\* Mutant: legs that did not change are analysed too, from what they hold.
StaleAnalytics(b, changed, leg) ==
  IF b # None /\ b[leg].ring.size > 1
  THEN Analytics(RingAll(b[leg].ring)) ELSE NoLeg

\* A leg is analysed when it changed in this tick and has a previous quote.
LegAnalytics(b, changed, leg) ==
  IF leg \in changed /\ b[leg].ring.size > 1
  THEN Analytics(RingAll(b[leg].ring)) ELSE NoLeg

\* math.Round(spot/50)*50 in steps of 25.
ATM(spot) == 2 * ((spot + 1) \div 2)

\* Around the money, by the range BuildPairSignals adapts to the strikes it has.
NearMoney(spot, many) ==
  Dist(Strike, ATM(spot)) <= (IF many THEN NarrowRange ELSE StrikeRange)

Pairs(b, changed, spot, many) ==
  LET ce == LegAnalytics(b, changed, "CE")
      pe == LegAnalytics(b, changed, "PE")
  IN IF NearMoney(spot, many) /\ PairScore(ce, pe) # 0 THEN {Enriched(ce, pe)} ELSE {}

Cleanup(b, n, spot) ==
  IF n % CleanupEvery = 0 /\ Dist(Strike, spot) > CleanupRange THEN None ELSE b

PayloadType(n) == IF n = 1 \/ n % SnapshotEvery = 0 THEN "snapshot" ELSE "delta"

Recent(s) == IF Len(s) > RingSize THEN Tail(s) ELSE s

\* The prices Process hands to Simulator.OnPriceUpdate.
Fed(pairs) ==
  [leg \in Legs |->
     LET prices == {p \in pairs : (IF leg = "CE" THEN p.ce ELSE p.pe) # NoLeg}
     IN IF prices = {} THEN None
        ELSE LET p == CHOOSE x \in prices : TRUE
                 s == (IF leg = "CE" THEN p.ce ELSE p.pe).series
             IN s[Len(s)]]

Process(quote, spot, many) ==
  LET changed == Changed(quote, spot)
      added   == AddChangedTicks(buffer, changed, quote)
      pairs   == Pairs(added, changed, spot, many)
      cleaned == Cleanup(added, tickCount + 1, spot)
  IN /\ tickCount < MaxTick
     /\ detector' = [leg \in Legs |-> IF leg \in changed THEN quote[leg] ELSE detector[leg]]
     /\ tickCount' = tickCount + 1
     /\ buffer' = cleaned
     /\ payload' = [type |-> PayloadType(tickCount + 1), changed |-> changed,
                    near |-> NearMoney(spot, many), pairs |-> pairs, fed |-> Fed(pairs)]
     /\ seen' = [leg \in Legs |->
                   IF cleaned = None THEN <<>>
                   ELSE IF leg \in changed THEN Recent(Append(seen[leg], quote[leg]))
                   ELSE seen[leg]]

\* What a snapshot may show; out of range Filter does not look at it.
Shown(spot) ==
  IF Dist(Strike, spot) > StrikeRange THEN {[leg \in Legs |-> None]}
  ELSE [Legs -> Quotes \cup {None}]

Tick == \E spot \in Spots, many \in BOOLEAN : \E quote \in Shown(spot) :
          Process(quote, spot, many)

Done == tickCount = MaxTick /\ UNCHANGED vars

Next == Tick \/ Done

Spec == Init /\ [][Next]_vars

-----------------------------------------------------------------------------

\* The trade the payload builder would recommend on the last payload; Build is
\* exported, and no application calls it yet.
trade == BuildTrade(payload.pairs)

\* What GetAll and Last read, through a wrapping index, is the newest RingSize
\* quotes of the leg since its buffer was made (or made again after a cleanup),
\* and the newest of them is what the change detector compares with, although
\* the detector is never cleaned up.
WindowIsRecent ==
  buffer # None =>
    \A leg \in Legs :
      /\ RingAll(buffer[leg].ring) = seen[leg]
      /\ buffer[leg].ring.size > 0 => RingLast(buffer[leg].ring) = detector[leg]

\* The price the simulator is given, and the entry price of a recommended
\* trade, is the leg's price in this very tick, never an older one of the ring.
FreshPrices ==
  payload # None =>
    /\ \A leg \in Legs : payload.fed[leg] # None =>
         leg \in payload.changed /\ payload.fed[leg] = detector[leg].ltp
    /\ trade.action = "BUY" => trade.entry = payload.fed[trade.leg]

\* A trade is recommended exactly for a strong pair, on the side it favours and
\* only when both legs changed in the tick; its score is always 85, because a
\* strong pair has moved twice up and so can never show the pullback the entry
\* engine waits for, nor the fading the exit engine looks for.
TradeIffStrong ==
  payload # None =>
    LET strong == {p \in payload.pairs : p.bias \in Strong}
    IN IF strong = {} THEN trade = Hold
       ELSE /\ trade.action = "BUY"
            /\ trade.score = 85
            /\ payload.changed = Legs
            /\ \A p \in strong : p.bias = (IF trade.leg = "CE" THEN "STRONG_BULLISH" ELSE "STRONG_BEARISH")

\* The two detectors agree: the leg a strong pair favours carries no signal of
\* selling or covering, and the other leg none of buying with rising interest.
SignalsAgree ==
  payload # None =>
    \A p \in payload.pairs : p.bias \in Strong =>
      LET other == IF p.bias = "STRONG_BULLISH" THEN p.pe ELSE p.ce
      IN /\ Favoured(p).signal \notin {"SHORT_BUILDUP", "LONG_UNWINDING", "SHORT_COVERING"}
         /\ other.signal \notin {"LONG_BUILDUP", "SHORT_BUILDUP", "SHORT_COVERING"}

\* "ONLY DROP TRULY EMPTY SIGNALS" (pair-engine.go:154): near the money, a leg
\* that changed and has a previous quote, whose price has moved over the window
\* and whose volume has not fallen, is part of the payload.
OnlyEmptyDropped ==
  payload # None /\ payload.pairs = {} /\ payload.near /\ buffer # None =>
    \A leg \in payload.changed :
      LET w == RingAll(buffer[leg].ring)
      IN Len(w) > 1 /\ WindowChange(w, "vol") >= 0 => WindowChange(w, "ltp") = 0
=============================================================================
