------------------------------- MODULE Signals -------------------------------
(***************************************************************************)
(* The pure part of the option pipeline: what internal/processor computes  *)
(* from the last few quotes of a leg, what internal/engine makes of a pair *)
(* of legs, and the trade its payload builder would recommend.  A quote is *)
(* [ltp, oi, vol]; a window is a nonempty sequence of quotes, oldest       *)
(* first.  Volumes are counted in units of BigVolume / BigVolume of the    *)
(* code's 800000; scores of a pair are doubled to stay integers.           *)
(***************************************************************************)
EXTENDS Integers, Sequences

CONSTANT BigVolume        \* the volume change the detectors ask for (800000)

Strong == {"STRONG_BULLISH", "STRONG_BEARISH"}

-----------------------------------------------------------------------------
(* Window metrics.                                                         *)

WindowChange(w, f) == w[Len(w)][f] - w[1][f]

\* The k-th last step of a series: 0 is the newest.  Guarded by HasDeltas.
Delta(s, k)     == s[Len(s) - k] - s[Len(s) - k - 1]
HasDeltas(s, n) == Len(s) > n

Newest(w, f)  == IF Len(w) < 2 THEN 0 ELSE w[Len(w)][f] - w[Len(w) - 1][f]
Acceleration(w) ==
  IF Len(w) < 3 THEN 0
  ELSE Newest(w, "ltp") - (w[Len(w) - 1].ltp - w[Len(w) - 2].ltp)

\* More than a fifth above the previous volume.
VolumeSpikes(w) ==
  /\ Len(w) > 1
  /\ w[Len(w) - 1].vol # 0
  /\ 5 * Newest(w, "vol") > w[Len(w) - 1].vol

LegSignal(w) ==
  LET ltp == WindowChange(w, "ltp")
      oi  == WindowChange(w, "oi")
      vel == Newest(w, "ltp")
      mom == Newest(w, "oi")
  IN CASE ltp > 0 /\ oi > 0 /\ vel > 0 /\ mom > 0 -> "LONG_BUILDUP"
       [] ltp < 0 /\ oi > 0 /\ vel < 0 /\ mom > 0 -> "SHORT_BUILDUP"
       [] ltp > 0 /\ oi < 0 /\ vel > 0            -> "SHORT_COVERING"
       [] ltp < 0 /\ oi < 0 /\ vel < 0            -> "LONG_UNWINDING"
       [] OTHER -> IF Acceleration(w) > 0 /\ VolumeSpikes(w)
                   THEN "MOMENTUM_BURST" ELSE "NEUTRAL"

\* The analytics of one changed leg; NoLeg is the zero value a pair holds for
\* a leg that did not change in this tick.
Analytics(w) ==
  [ltp    |-> WindowChange(w, "ltp"),
   oi     |-> WindowChange(w, "oi"),
   vol    |-> WindowChange(w, "vol"),
   series |-> [i \in 1..Len(w) |-> w[i].ltp],
   signal |-> LegSignal(w)]
NoLeg == [ltp |-> 0, oi |-> 0, vol |-> 0, series |-> <<>>, signal |-> ""]

-----------------------------------------------------------------------------
(* Pairs: the score that decides whether a pair is kept, and the bias that *)
(* EnrichPairSignals puts over the one computed with the score.            *)

Points(holds, n) == IF holds THEN n ELSE 0

BothScore(ce, pe) ==
  Points(ce.ltp > 0, 2) + Points(ce.oi > 0, 2) + Points(ce.vol > 0, 1)
    + Points(pe.ltp < 0, 2) + Points(pe.oi < 0, 2) + Points(pe.vol > 0, 1)

SideScore(a) == Points(a.ltp > 0, 2) + Points(a.oi > 0, 2) + Points(a.vol > 0, 1)

PairScore(ce, pe) ==
  CASE ce # NoLeg /\ pe # NoLeg -> BothScore(ce, pe)
    [] ce # NoLeg /\ pe = NoLeg -> SideScore(ce)
    [] ce = NoLeg /\ pe # NoLeg -> SideScore(pe)
    [] OTHER -> 0

\* Mutant: one rising move is enough.
RisingOnce(a)    == HasDeltas(a.series, 1) /\ Delta(a.series, 0) > 0

Rising(a)        == HasDeltas(a.series, 2) /\ Delta(a.series, 0) > 0 /\ Delta(a.series, 1) > 0
FallingOrFlat(a) == HasDeltas(a.series, 1) /\ Delta(a.series, 0) <= 0

\* Mutant: the interest of the side that is built up is not asked for.
DominatesByMove(a, b) ==
  /\ a.vol >= BigVolume \/ b.vol >= BigVolume
  /\ Rising(a) /\ FallingOrFlat(b)
  /\ b.oi <= 0

\* One side is built up on heavy volume while the other gives way.
Dominates(a, b) ==
  /\ a.vol >= BigVolume \/ b.vol >= BigVolume
  /\ Rising(a) /\ FallingOrFlat(b)
  /\ a.oi > 0 /\ b.oi <= 0

Directional(ce, pe) ==
  CASE Dominates(ce, pe)        -> "STRONG_BULLISH"
    [] Dominates(pe, ce)        -> "STRONG_BEARISH"
    [] OTHER -> IF Rising(ce) /\ ce.oi > 0 THEN "WEAK_BULLISH"
                ELSE IF Rising(pe) /\ pe.oi > 0 THEN "WEAK_BEARISH"
                ELSE "NEUTRAL"

\* Strength * 100.
Strength(bias) ==
  CASE bias \in Strong -> 95
    [] bias \in {"WEAK_BULLISH", "WEAK_BEARISH"} -> 60
    [] OTHER -> 30

Enriched(ce, pe) ==
  LET bias == Directional(ce, pe)
  IN [ce |-> ce, pe |-> pe, bias |-> bias, score |-> Strength(bias)]

-----------------------------------------------------------------------------
(* The recommendation of the payload builder.                              *)

\* The leg a strong pair points to.
Favoured(p) == IF p.bias = "STRONG_BULLISH" THEN p.ce ELSE p.pe

Move(d) == CASE d > 0 -> "UP" [] d < 0 -> "DOWN" [] d = 0 -> "FLAT"

\* Whether the last moves of a leg are exactly those of pattern.
LastMoves(a, pattern) ==
  /\ HasDeltas(a.series, Len(pattern))
  /\ \A i \in 1..Len(pattern) : Move(Delta(a.series, Len(pattern) - i)) = pattern[i]

Pullback(a)     == LastMoves(a, <<"UP", "DOWN", "UP">>)
EntryValid(p)   == p.bias \in Strong /\ Pullback(Favoured(p))

ScoreTrade(p) ==
  Points(p.ce.vol >= BigVolume \/ p.pe.vol >= BigVolume, 25)
    + Points(p.bias \in Strong /\ Favoured(p).oi > 0, 25)
    + Points(p.bias \in Strong /\ Rising(Favoured(p)), 20)
    + Points(p.score > 80, 15)
    + Points(EntryValid(p), 15)

Fading(a) == LastMoves(a, <<"UP", "FLAT", "DOWN">>) \/ LastMoves(a, <<"UP", "DOWN", "DOWN">>)
Stalling(a) == LastMoves(a, <<"UP", "FLAT">>)

\* The exit engine, asked with the entry as the current price, a stop at four
\* fifths of it and a target at one and a half times it.
ExitAtEntry(p, entry) ==
  LET current == entry
  IN /\ p.bias \in Strong
     /\ \/ 10 * current <= 8 * entry
        \/ 10 * current >= 15 * entry
        \/ Fading(Favoured(p))
        \/ 10 * current > 12 * entry /\ Stalling(Favoured(p))

\* A pair of the highest score; pairs come out of a map, in any order.
Best(pairs) == CHOOSE p \in pairs : \A q \in pairs : q.score <= p.score

Hold == [action |-> "HOLD", leg |-> "", entry |-> 0, score |-> 0]

BuildTrade(pairs) ==
  IF pairs = {} \/ ScoreTrade(Best(pairs)) < 60 \/ Best(pairs).bias \notin Strong THEN Hold
  ELSE LET p     == Best(pairs)
           leg   == IF p.bias = "STRONG_BULLISH" THEN "CE" ELSE "PE"
           last  == Favoured(p).series
           entry == last[Len(last)]
       IN IF ExitAtEntry(p, entry)
          THEN [Hold EXCEPT !.action = "EXIT"]
          ELSE [action |-> "BUY", leg |-> leg, entry |-> entry, score |-> ScoreTrade(p)]
=============================================================================
