----------------------------- MODULE Simulator -----------------------------
(***************************************************************************)
(* The paper-trading simulator (internal/simulator) behind the trade API   *)
(* (internal/api/trade-sim.go).  A handler reads the last price under the  *)
(* lock, lets go, and trades at that price later; meanwhile the pipeline   *)
(* feeds prices, which may close positions.                                *)
(*                                                                         *)
(* Execute takes no lock: it looks a position up, checks the capital,      *)
(* charges it and enters the position in steps between which other orders, *)
(* prices and exits run; merging with a position that is there assigns one *)
(* field after another.  What it holds of a position is a pointer, so      *)
(* positions are objects, and a key of the map names one of them.  Whole   *)
(* assignments interleave; two writes that meet inside one field or inside *)
(* the map are left out.                                                   *)
(*                                                                         *)
(* Quantities are in lots.  Money is in half rupees, so that the margin    *)
(* factor 1.5 is the integer 3; an average price is rounded down.  The     *)
(* profits the program reports, unrealized and realized, decide nothing    *)
(* and are left out.                                                       *)
(***************************************************************************)
EXTENDS Integers, FiniteSetsExt

CONSTANTS Keys,       \* strike_type keys of positions
          Clients,    \* handlers of /trade and /exit that may be in flight
          Prices,     \* prices the feed may report; 0 is "no price"
          Lots,       \* lots a request may ask for
          Exits,      \* pairs of a stop loss and a target a request may ask for, as
                      \* distances from its price; sets of at most one distance
          Capital,    \* NewPortfolio's capital
          MaxTrades   \* bound: orders priced

ASSUME SimulatorAssumption ==
    /\ IsFiniteSet(Keys) /\ IsFiniteSet(Clients)
    /\ Prices \subseteq Nat
    /\ Lots \subseteq Nat \ {0}
    /\ Exits \subseteq [sl: SUBSET Nat, target: SUBSET Nat]
    /\ Capital \in Nat
    /\ MaxTrades \in Nat

VARIABLES
    positions,   \* key -> the open position, by number; 0 is none
    object,      \* position -> what it holds, also when it is open no more
    lastPrices,  \* key -> last price, 0 if there is none
    available,   \* portfolio.AvailableCapital
    usedMargin,  \* portfolio.UsedMargin
    orders,      \* client -> the order it is executing
    trades,      \* orders priced so far
    net,         \* history: key -> lots bought less lots sold since it was last closed
    mislaid,     \* history: keys of which a trade missed the open position or was not alone on it
    settled,     \* history: position -> what it held when it was last entered or wholly merged
    torn,        \* history: positions on which two merges met, or closed while one was under way
    overlapped   \* history: two orders had checked the capital before either was charged

money == <<available, usedMargin>>
history == <<net, mislaid, settled, torn, overlapped>>
vars == <<positions, object, lastPrices, money, orders, trades, history>>

NoPosition == [side |-> "NONE", qty |-> 0, avg |-> 0, sl |-> {}, target |-> {}]
Sides == {"LONG", "SHORT"}
Idle == [state |-> "idle"]
Numbers == 1..MaxTrades

\* The assignments of mergePosition: after which comes which, and the last ones.
Follows == [average |-> "sum", sum |-> "keepSL", keepSL |-> "keepTarget",
            flip |-> "flipPrice", flipPrice |-> "flipSide", flipSide |-> "flipSL", flipSL |-> "flipTarget"]
LastOnes == {"keepTarget", "reduce", "remove", "flipTarget"}
MergeStates == DOMAIN Follows \cup LastOnes

Positions == [side: Sides, qty: Int, avg: Int, sl: SUBSET Int, target: SUBSET Int]
Orders == [state: {"priced", "found", "checked", "charged"} \cup MergeStates, n: Numbers, key: Keys,
           side: Sides, qty: Nat \ {0}, price: Nat, exits: Exits, pos: 0..MaxTrades, total: Int]

\* The order of c is changing position n.
Merging(c, n) == orders[c] # Idle /\ orders[c].state \in MergeStates /\ orders[c].pos = n

TypeOK ==
    /\ positions \in [Keys -> 0..MaxTrades]
    /\ object \in [Numbers -> Positions \cup {NoPosition}]
    /\ \A k \in Keys : positions[k] # 0 => object[positions[k]] # NoPosition
    /\ lastPrices \in [Keys -> Prices \cup {0}]
    /\ available \in Int /\ usedMargin \in Int
    /\ orders \in [Clients -> Orders \cup {Idle}]
    /\ \A c \in Clients : orders[c] # Idle /\ orders[c].pos # 0 => object[orders[c].pos] # NoPosition
    /\ \A c \in Clients : ~Merging(c, 0)
    /\ trades \in 0..MaxTrades
    /\ net \in [Keys -> Int] /\ mislaid \subseteq Keys /\ torn \subseteq Numbers /\ overlapped \in BOOLEAN
    /\ settled \in [Numbers -> Positions \cup {NoPosition}]
    /\ \A n \in Numbers : settled[n] = NoPosition <=> object[n] = NoPosition

Init ==
    /\ positions = [k \in Keys |-> 0]
    /\ object = [n \in Numbers |-> NoPosition]
    /\ lastPrices = [k \in Keys |-> 0]
    /\ available = 2 * Capital
    /\ usedMargin = 0
    /\ orders = [c \in Clients |-> Idle]
    /\ trades = 0
    /\ net = [k \in Keys |-> 0] /\ mislaid = {} /\ torn = {} /\ overlapped = FALSE
    /\ settled = object

Open(k) == positions[k] # 0

-----------------------------------------------------------------------------
\* checkExits: a stop loss or a target is reached.
ExitDue(p, price) ==
    LET down == \E level \in (IF p.side = "LONG" THEN p.sl ELSE p.target) : price <= level
        up == \E level \in (IF p.side = "LONG" THEN p.target ELSE p.sl) : price >= level
    IN  down \/ up

\* What else changes when k has no position any more.
Forget(k) ==
    /\ positions' = [positions EXCEPT ![k] = 0]
    /\ net' = [net EXCEPT ![k] = 0] /\ mislaid' = mislaid \ {k}
    /\ torn' = torn \cup {n \in {positions[k]} : \E c \in Clients : Merging(c, n)}

\* Mutants of Close: a short exit releases the margin of the exit price; a short
\* exit pays its profit as well.
CloseAtPrice(k, p, price) ==
    /\ Forget(k)
    /\ LET back == IF p.side = "LONG" THEN 2 * price * p.qty ELSE 3 * price * p.qty
       IN  /\ available' = available + back
           /\ usedMargin' = IF p.side = "SHORT" THEN usedMargin - back ELSE usedMargin
ClosePaysShort(k, p, price) ==
    /\ Forget(k)
    /\ LET back == IF p.side = "LONG" THEN 2 * price * p.qty ELSE 3 * p.avg * p.qty
       IN  /\ available' = available + back + (IF p.side = "SHORT" THEN 2 * (p.avg - price) * p.qty ELSE 0)
           /\ usedMargin' = IF p.side = "SHORT" THEN usedMargin - back ELSE usedMargin

\* closePosition of p, the open position of k.
Close(k, p, price) ==
    /\ Forget(k)
    /\ \/ /\ p.side = "LONG"
          /\ available' = available + 2 * price * p.qty
          /\ UNCHANGED usedMargin
       \/ /\ p.side = "SHORT"
          /\ available' = available + 3 * (p.avg * p.qty)
          /\ usedMargin' = usedMargin - 3 * (p.avg * p.qty)

\* Under the lock: the price is kept, and may close the open position.
OnPriceUpdate(k, price) ==
    LET due == Open(k) /\ ExitDue(object[positions[k]], price)
    IN  /\ lastPrices' = [lastPrices EXCEPT ![k] = price]
        /\ \/ due /\ Close(k, object[positions[k]], price)
           \/ ~due /\ UNCHANGED <<positions, money, net, mislaid, torn>>
        /\ UNCHANGED <<object, orders, trades, settled, overlapped>>

\* handleTrade up to Execute: lots > 0 and a known price.
PriceOrder(c, k, side, lots, exits) ==
    /\ orders[c] = Idle
    /\ trades < MaxTrades
    /\ lastPrices[k] # 0
    /\ trades' = trades + 1
    /\ orders' = [orders EXCEPT ![c] =
          [state |-> "priced", n |-> trades + 1, key |-> k, side |-> side, qty |-> lots,
           price |-> lastPrices[k], exits |-> exits, pos |-> 0, total |-> 0]]
    /\ UNCHANGED <<positions, object, lastPrices, money, history>>

\* The levels Execute derives from the distances: a long position stops below and
\* takes profit above its entry price, a short one the other way round.
StopLoss(o) == {IF o.side = "SHORT" THEN o.price + d ELSE o.price - d : d \in o.exits.sl}
TakeProfit(o) == {IF o.side = "SHORT" THEN o.price - d ELSE o.price + d : d \in o.exits.target}

Entry(o) == [side |-> o.side, qty |-> o.qty, avg |-> o.price, sl |-> StopLoss(o), target |-> TakeProfit(o)]

\* What Execute takes from the capital: the premium of a BUY, the margin of a SELL.
Charge(o) == (IF o.side = "LONG" THEN 2 ELSE 3) * o.price * o.qty

\* A mutant of Affordable: a SELL is checked against its premium, not its margin.
PremiumAffordable(o) == available >= 2 * o.price * o.qty

\* The checks Execute makes before anything changes.
Affordable(o) == available >= Charge(o)

Moves(c, from, to) == orders[c] # Idle /\ orders[c].state = from /\ orders' = [orders EXCEPT ![c].state = to]

\* Execute, first: the position of the key, if there is one.
FindPosition(c) ==
    /\ orders[c] # Idle /\ orders[c].state = "priced"
    /\ orders' = [orders EXCEPT ![c].state = "found", ![c].pos = positions[orders[c].key]]
    /\ UNCHANGED <<positions, object, lastPrices, money, trades, history>>

\* Then the capital is looked at ("insufficient margin", "insufficient capital") ...
CheckCapital(c) ==
    /\ \/ orders[c] # Idle /\ Affordable(orders[c]) /\ Moves(c, "found", "checked")
          /\ overlapped' = (overlapped \/ \E d \in Clients : orders[d] # Idle /\ orders[d].state = "checked")
       \/ orders[c] # Idle /\ ~Affordable(orders[c]) /\ orders[c].state = "found"
          /\ orders' = [orders EXCEPT ![c] = Idle]
          /\ UNCHANGED overlapped
    /\ UNCHANGED <<positions, object, lastPrices, money, trades, net, mislaid, settled, torn>>

\* ... and charged ...
ChargeCapital(c) ==
    /\ Moves(c, "checked", "charged")
    /\ LET o == orders[c]
       IN  /\ available' = available - Charge(o)
           /\ usedMargin' = IF o.side = "SHORT" THEN usedMargin + Charge(o) ELSE usedMargin
    /\ UNCHANGED <<positions, object, lastPrices, trades, history>>

\* An order is through with its position, which holds p now: the trade is counted, and is
\* mislaid if the position it found is not the open one or was not changed by it alone.
Done(c, p) ==
    LET o == orders[c]
        k == o.key
    IN  /\ orders' = [orders EXCEPT ![c] = Idle]
        /\ net' = [net EXCEPT ![k] = @ + (IF o.side = "LONG" THEN o.qty ELSE -o.qty)]
        /\ mislaid' = IF o.pos = positions[k] /\ o.pos \notin torn THEN mislaid ELSE mislaid \cup {k}
        /\ settled' = [settled EXCEPT ![IF o.pos = 0 THEN o.n ELSE o.pos] = p]

\* ... and if no position was found, a new one is put in the map, over one that may
\* have come meanwhile.
EnterPosition(c) ==
    /\ orders[c] # Idle /\ orders[c].state = "charged" /\ orders[c].pos = 0
    /\ LET o == orders[c]
       IN  /\ object' = [object EXCEPT ![o.n] = Entry(o)]
           /\ positions' = [positions EXCEPT ![o.key] = o.n]
           /\ Done(c, Entry(o))
    /\ UNCHANGED <<lastPrices, money, trades, torn, overlapped>>

\* mergePosition with the position p that was found: which case it is ...
Case(p, o) ==
    IF p.side = o.side THEN "average"
    ELSE IF o.qty < p.qty THEN "reduce"
    ELSE IF o.qty = p.qty THEN "remove"
    ELSE "flip"

\* ... and totalQty or newQty, computed once.  A mutant flips by the whole order.
WholeOrder(p, o) == IF p.side = o.side THEN p.qty + o.qty ELSE o.qty
Total(p, o) == IF p.side = o.side THEN p.qty + o.qty ELSE o.qty - p.qty

BeginMerge(c) ==
    /\ orders[c] # Idle /\ orders[c].state = "charged" /\ orders[c].pos # 0
    /\ LET o == orders[c]
           p == object[o.pos]
       IN  /\ orders' = [orders EXCEPT ![c].state = Case(p, o), ![c].total = Total(p, o)]
           /\ torn' = torn \cup {n \in {o.pos} : \E d \in Clients : Merging(d, n)}
    /\ UNCHANGED <<positions, object, lastPrices, money, trades, net, mislaid, settled, overlapped>>

\* A quotient rounded down, 0 for the quotients that are no number.
Quotient(a, b) == IF b > 0 THEN a \div b ELSE IF b < 0 THEN (-a) \div (-b) ELSE 0

\* What the assignment an order is at makes of the position, field by field.
Assigned(p, o) ==
    LET Keep(old, new) == IF new = {} THEN old ELSE new
    IN  [side |-> IF o.state = "flipSide" THEN o.side ELSE p.side,
         qty |-> IF o.state = "reduce" THEN p.qty - o.qty
                 ELSE IF o.state \in {"sum", "flip"} THEN o.total ELSE p.qty,
         avg |-> IF o.state = "average" THEN Quotient(p.qty * p.avg + o.qty * o.price, o.total)
                 ELSE IF o.state = "flipPrice" THEN o.price ELSE p.avg,
         sl |-> IF o.state = "keepSL" THEN Keep(p.sl, StopLoss(o))
                ELSE IF o.state = "flipSL" THEN StopLoss(o) ELSE p.sl,
         target |-> IF o.state = "keepTarget" THEN Keep(p.target, TakeProfit(o))
                    ELSE IF o.state = "flipTarget" THEN TakeProfit(o) ELSE p.target]

\* An assignment that is not the last one.
Assign(c) ==
    /\ orders[c] # Idle /\ orders[c].state \in DOMAIN Follows
    /\ object' = [object EXCEPT ![orders[c].pos] = Assigned(@, orders[c])]
    /\ orders' = [orders EXCEPT ![c].state = Follows[@]]
    /\ UNCHANGED <<positions, lastPrices, money, trades, history>>

\* The last one.  An order that takes all there is deletes the key, whatever it names
\* by now; nothing gives back what the position cost.
FinishMerge(c) ==
    /\ orders[c] # Idle /\ orders[c].state \in LastOnes
    /\ LET o == orders[c]
           p == Assigned(object[o.pos], o)
       IN  /\ object' = [object EXCEPT ![o.pos] = p]
           /\ positions' = IF o.state = "remove" THEN [positions EXCEPT ![o.key] = 0] ELSE positions
           /\ Done(c, p)
    /\ UNCHANGED <<lastPrices, money, trades, torn, overlapped>>

Execute(c) ==
    \/ FindPosition(c) \/ CheckCapital(c) \/ ChargeCapital(c)
    \/ EnterPosition(c) \/ BeginMerge(c) \/ Assign(c) \/ FinishMerge(c)

\* handleExit: the position is closed at the last price, whatever it is.
ManualExit(k) ==
    /\ lastPrices[k] # 0
    /\ Open(k)
    /\ Close(k, object[positions[k]], lastPrices[k])
    /\ UNCHANGED <<object, lastPrices, orders, trades, settled, overlapped>>

Next ==
    \/ \E k \in Keys, price \in Prices : OnPriceUpdate(k, price)
    \/ \E c \in Clients, k \in Keys, side \in Sides, lots \in Lots, exits \in Exits :
            PriceOrder(c, k, side, lots, exits)
    \/ \E c \in Clients : Execute(c)
    \/ \E k \in Keys : ManualExit(k)

Spec == Init /\ [][Next]_vars

-----------------------------------------------------------------------------
(* Properties *)

\* Averages times quantities of the open positions of one side, an order that is still
\* merging not yet counted.
BookOn(side, k) ==
    LET p == settled[positions[k]]
    IN  IF Open(k) /\ p.side = side THEN p.avg * p.qty ELSE 0
Book(side) == SumFunction([k \in Keys |-> BookOn(side, k)])

\* What has been charged for positions of one side that are not entered yet.
ChargedTo(side, c) ==
    IF orders[c] # Idle /\ orders[c].state \in {"charged"} \cup MergeStates /\ orders[c].side = side
    THEN Charge(orders[c]) ELSE 0
Charged(side) == SumFunction([c \in Clients |-> ChargedTo(side, c)])

\* Cash, blocked margin and what long positions cost.
Assets == available + usedMargin + 2 * Book("LONG") + Charged("LONG")

\* No sequence of trades, merges and exits overdraws the account, although the price
\* of a trade is read before, and the capital is checked after, other steps; unless
\* two orders passed the check before either was charged, or a position was torn, for
\* want of the lock.
NeverOverdrawn == available >= 0 \/ overlapped \/ torn # {}

\* The blocked margin covers every open short position at its average price, so
\* closing them all never releases more than was blocked, after any averaging,
\* reduction or flip, and however orders, prices and exits overlap; unless two merges
\* met on a position, or a price or an exit closed one half merged.
MarginCovers == usedMargin >= 3 * Book("SHORT") \/ torn # {}

\* Money enters the account only by a long exit, and then by exactly its profit:
\* no order of merges, flips, short exits and overlapping orders creates any, unless a
\* position is torn by it or was before.
OnlyLongExitsPay ==
    [][torn' = {} /\ Assets' > Assets =>
         \E k \in Keys : LET p == object[positions[k]]
                       IN  /\ Open(k) /\ p.side = "LONG" /\ positions'[k] = 0
                           /\ Assets' - Assets = 2 * (lastPrices'[k] * p.qty - p.avg * p.qty)]_vars

\* The open position of an option is what was bought less what was sold since it was
\* last closed, through averaging, reducing and flipping, whenever no order is in the
\* middle of changing it.  A trade misses only if the position it found is not the open
\* one by the time it is through: closed by a price or an exit, or put there by another
\* order; and a trade is lost only where two merges met on the position.
PositionIsNet ==
    \A k \in Keys \ mislaid :
        LET p == object[positions[k]]
        IN  \/ net[k] = IF ~Open(k) THEN 0 ELSE IF p.side = "LONG" THEN p.qty ELSE -p.qty
            \/ \E c \in Clients : Merging(c, positions[k])
=============================================================================
