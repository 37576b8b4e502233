------------------------------- MODULE TickFeed -------------------------------
(***************************************************************************)
(* The index feed of one collector session and what becomes of its ticks:  *)
(* the socket's handler updates the MarketStore and sends the tick to a    *)
(* bounded channel, the consumer takes it, moves the tracked strikes with  *)
(* it, computes an alpha from the store and publishes a payload.           *)
(*                                                                         *)
(* Consumer and handler share a pointer into the store, so that the alpha  *)
(* and the tick of one payload are read at different times.  Prices are    *)
(* counted in the ticks of the exchange, 0.05 points.                      *)
(***************************************************************************)
EXTENDS Integers, Sequences, FiniteSets

CONSTANTS
  Prices,           \* index prices that arrive
  Step,             \* distance of strikes: 50 points, 1000 ticks
  Noise,            \* below it a move is noise: half a point, 10 ticks
  ChanCap,          \* capacity of marketChan: 100
  MaxHistory,       \* 5 prices are kept
  MaxTick,          \* bound: ticks that arrive
  None              \* nothing handled, taken or published

ASSUME FeedAssumption ==
  /\ Prices \subseteq Nat /\ Step \in Nat \ {0} /\ Noise \in Nat \ {0}
  /\ ChanCap \in Nat \ {0} /\ MaxHistory \in Nat \ {0} /\ MaxTick \in Nat
  /\ None \notin [n : Nat, ltp : Nat]

VARIABLES
  socket,           \* "starting", "connected", "failed", "closed"
  cancelled,        \* the session's context
  closed,           \* marketChan is closed
  marketChan,       \* ticks on their way to the consumer
  handler,          \* tick the socket's goroutine is sending, or None
  store,            \* MarketStore entry: [last, history]
  updating,         \* Update holds the store's lock, between its two assignments
  consumer,         \* [pc, tick, history] of consumeTicks
  lastATM,          \* ATMTracker.lastATM
  tracked,          \* LTPPoller.symbols, as strikes
  ticks,            \* ticks that have arrived
  sent              \* history: the last tick payload published, or None

storeVars == <<store, updating>>
atmVars == <<lastATM, tracked>>
vars == <<socket, cancelled, closed, marketChan, handler, storeVars, consumer,
          atmVars, ticks, sent>>
feed == <<socket, cancelled, closed, ticks>>

-----------------------------------------------------------------------------
(* Alpha                                                                   *)

Abs(x) == IF x < 0 THEN -x ELSE x

Velocity(h) == IF Len(h) < 2 THEN 0 ELSE h[Len(h)] - h[Len(h) - 1]
Accel(h)    == IF Len(h) < 3 THEN 0 ELSE Velocity(h) - (h[Len(h) - 1] - h[Len(h) - 2])

Trend(h) ==
  LET n == Len(h)
  IN CASE n < 3 -> "FLAT"
       [] n >= 3 /\ h[n-2] < h[n-1] /\ h[n-1] < h[n] -> "UP"
       [] n >= 3 /\ h[n-2] > h[n-1] /\ h[n-1] > h[n] -> "DOWN"
       [] OTHER -> "FLAT"

\* ComputeAlphaFromLTP, of the polled option prices.
PlainSignal(h) ==
  CASE Trend(h) = "UP"   /\ Velocity(h) > 0 /\ Accel(h) > 0 -> "BUY"
    [] Trend(h) = "DOWN" /\ Velocity(h) < 0 /\ Accel(h) < 0 -> "SELL"
    [] OTHER -> "HOLD"

\* abs(velocity) < 0.5 && abs(acceleration) < 0.5
Noisy(h) == Abs(Velocity(h)) < Noise /\ Abs(Accel(h)) < Noise

\* ComputeAlpha, of the index: noise first, then reversals.
AlphaSignal(h) ==
  CASE h = <<>>                          -> "none"
    [] h # <<>> /\ Noisy(h)              -> "HOLD"
    [] ~Noisy(h) /\ Velocity(h) > 0 /\ Accel(h) < 0 -> "WEAK_BUY"
    [] ~Noisy(h) /\ Velocity(h) < 0 /\ Accel(h) > 0 -> "WEAK_SELL"
    [] OTHER -> PlainSignal(h)

-----------------------------------------------------------------------------

Idle == [pc |-> "receive", tick |-> None, history |-> <<>>]

Init ==
  /\ socket = "starting" /\ cancelled = FALSE /\ closed = FALSE
  /\ marketChan = <<>> /\ handler = None
  /\ store = [last |-> None, history |-> <<>>] /\ updating = FALSE
  /\ consumer = Idle
  /\ lastATM = 0 /\ tracked = {}
  /\ ticks = 0 /\ sent = None

\* WSIngestor.Start: Connect succeeds, or fails and leaves the channel open.
Connect ==
  /\ socket = "starting"
  /\ socket' \in {"connected", "failed"}
  /\ UNCHANGED <<cancelled, closed, marketChan, handler, storeVars, consumer, atmVars, ticks, sent>>

\* parser.HandleMessage updates the store: under its lock the last tick first ...
OnMessage ==
  /\ socket = "connected" /\ handler = None /\ ticks < MaxTick
  /\ \E p \in Prices :
       LET t == [n |-> ticks + 1, ltp |-> p]
       IN handler' = t /\ store' = [last |-> t, history |-> store.history]
  /\ updating' = TRUE
  /\ ticks' = ticks + 1
  /\ UNCHANGED <<socket, cancelled, closed, marketChan, consumer, atmVars, sent>>

\* Mutant: a full history loses its newest price.
DropNewest(h) == IF Len(h) > MaxHistory THEN SubSeq(h, 1, MaxHistory) ELSE h

DropOldest(h) == IF Len(h) > MaxHistory THEN Tail(h) ELSE h

\* ... then the history.
Remember ==
  /\ updating
  /\ store' = [last |-> store.last, history |-> DropOldest(Append(store.history, handler.ltp))]
  /\ updating' = FALSE
  /\ UNCHANGED <<marketChan, handler, consumer, atmVars, sent>>
  /\ UNCHANGED feed

\* out <- tick: waits while the channel is full.  A send that meets the close of
\* the channel panics: the model leaves the handler in it, and claims nothing of
\* what follows (see ConsumerLeaves).
Send ==
  /\ handler # None /\ ~updating /\ ~closed
  /\ Len(marketChan) < ChanCap
  /\ marketChan' = Append(marketChan, handler)
  /\ handler' = None
  /\ UNCHANGED <<storeVars, consumer, atmVars, sent>>
  /\ UNCHANGED feed

\* stopCollectors or shutdown: session.cancel and WSIngestor.Stop.
Stop ==
  /\ ~cancelled
  /\ cancelled' = TRUE
  /\ UNCHANGED <<socket, closed, marketChan, handler, storeVars, consumer, atmVars, ticks, sent>>

\* Mutant: the channel is left open when the connection is closed.
CloseSocketOnly ==
  /\ cancelled /\ socket = "connected"
  /\ socket' = "closed"
  /\ UNCHANGED <<cancelled, closed, marketChan, handler, storeVars, consumer, atmVars, ticks, sent>>

\* The goroutine that waits for the context: CloseConnection, close(marketChan).
CloseConnection ==
  /\ cancelled /\ socket = "connected"
  /\ socket' = "closed" /\ closed' = TRUE
  /\ UNCHANGED <<cancelled, marketChan, handler, storeVars, consumer, atmVars,
                 ticks, sent>>

-----------------------------------------------------------------------------
(* The consumer                                                            *)

Rounded(ltp) == Step * ((2 * ltp + Step) \div (2 * Step))

\* Mutant: a jump beyond the tracked strikes is taken for a wrong price.
NoJumpATM(ltp) ==
  IF lastATM # 0 /\ Abs(Rounded(ltp) - lastATM) > 2 * Step THEN lastATM ELSE Rounded(ltp)

\* ATMTracker.Update.  Its "HYSTERESIS BUFFER (25 pts)" is looked for after rounding,
\* when only the strike before can be less than half a step away.
NewATM(ltp) ==
  IF lastATM # 0 /\ 2 * Abs(Rounded(ltp) - lastATM) < Step THEN lastATM
  ELSE Rounded(ltp)

\* GenerateSymbols with rangeCount 2.
Strikes(atm) == {atm + i * Step : i \in -2..2}

\* The consumer takes a tick, and the hook moves the tracked strikes.
Take ==
  /\ consumer.pc = "receive" /\ marketChan # <<>>
  /\ LET t   == Head(marketChan)
         atm == NewATM(t.ltp)
     IN /\ lastATM' = atm
        /\ tracked' = IF atm # lastATM THEN Strikes(atm) ELSE tracked
        /\ consumer' = [pc |-> "get", tick |-> t, history |-> <<>>]
  /\ marketChan' = Tail(marketChan)
  /\ UNCHANGED <<handler, storeVars, sent>>
  /\ UNCHANGED feed

\* MarketStore.Get, under the lock: what it returns is a pointer, through which the
\* handler keeps writing and the consumer reads without the lock.
Get ==
  /\ consumer.pc = "get" /\ ~updating
  /\ consumer' = [consumer EXCEPT !.pc = "alpha"]
  /\ UNCHANGED <<marketChan, handler, storeVars, atmVars, sent>>
  /\ UNCHANGED feed

\* Whatever the history is now.
ComputeAlpha ==
  /\ consumer.pc = "alpha"
  /\ consumer' = [consumer EXCEPT !.pc = "publish", !.history = store.history]
  /\ UNCHANGED <<marketChan, handler, storeVars, atmVars, sent>>
  /\ UNCHANGED feed

\* BuildPayloadFromTickWithAlpha reads LastTick now, and PublishPayload passes it on.
PublishTick ==
  /\ consumer.pc = "publish"
  /\ sent' = [tick |-> store.last, taken |-> consumer.tick, history |-> consumer.history]
  /\ consumer' = Idle
  /\ UNCHANGED <<marketChan, handler, storeVars, atmVars>>
  /\ UNCHANGED feed

\* Mutant: an empty channel ends the consumer.
EndsWhenEmpty ==
  /\ consumer.pc = "receive" /\ marketChan = <<>>
  /\ consumer' = [Idle EXCEPT !.pc = "ended"]
  /\ UNCHANGED <<marketChan, handler, storeVars, atmVars, sent>>
  /\ UNCHANGED feed

\* The range over the channel ends when it is closed and drained.
ConsumerEnds ==
  /\ consumer.pc = "receive" /\ closed /\ marketChan = <<>>
  /\ consumer' = [Idle EXCEPT !.pc = "ended"]
  /\ UNCHANGED <<marketChan, handler, storeVars, atmVars, sent>>
  /\ UNCHANGED feed

ConsumerStep == Take \/ Get \/ ComputeAlpha \/ PublishTick \/ ConsumerEnds

Next == Connect \/ OnMessage \/ Remember \/ Send \/ Stop \/ CloseConnection
        \/ ConsumerStep

Spec == Init /\ [][Next]_vars

\* Started goroutines run; the socket connects or fails.  Messages and
\* the stop of the session are the environment's.
FairSpec ==
  /\ Spec
  /\ WF_vars(Connect) /\ WF_vars(Remember) /\ WF_vars(Send) /\ WF_vars(CloseConnection)
  /\ WF_vars(ConsumerStep)

-----------------------------------------------------------------------------

Ticks == [n : 1..MaxTick, ltp : Prices]

\* Every part of the state is of its type; the channel and the history are
\* never longer than they may be.
TypeOK ==
  /\ socket \in {"starting", "connected", "failed", "closed"}
  /\ cancelled \in BOOLEAN /\ closed \in BOOLEAN /\ updating \in BOOLEAN
  /\ marketChan \in Seq(Ticks) /\ Len(marketChan) <= ChanCap
  /\ handler \in Ticks \cup {None}
  /\ store \in [last : Ticks \cup {None}, history : Seq(Prices)]
  /\ Len(store.history) <= MaxHistory
  /\ consumer \in [pc : {"receive", "get", "alpha", "publish", "ended"},
                   tick : Ticks \cup {None}, history : Seq(Prices)]
  /\ lastATM \in Nat /\ tracked \subseteq Int
  /\ ticks \in 0..MaxTick

\* A payload is published for a tick at least as new as the one taken off the
\* channel, never from an empty history; when no tick has arrived since, its
\* alpha is of a history that ends with the price it is published with.
PayloadCoherent ==
  sent # None =>
    /\ sent.taken.n <= sent.tick.n
    /\ sent.history # <<>>
    /\ sent.taken.n = sent.tick.n => sent.history[Len(sent.history)] = sent.tick.ltp

\* While a tick is handled, the strikes polled are those around the last strike
\* announced, and the one nearest to the price is among them, however far the
\* index has jumped between two ticks.
MoneyTracked ==
  /\ lastATM # 0 => tracked = Strikes(lastATM)
  /\ consumer.tick # None /\ Rounded(consumer.tick.ltp) # 0 =>
       Rounded(consumer.tick.ltp) \in tracked

\* Once the session is stopped the consumer ends, if the socket has connected
\* and no handler is caught in its send when the channel is closed.
ConsumerLeaves ==
  cancelled /\ socket = "connected" ~> consumer.pc = "ended" \/ (closed /\ handler # None)

\* As long as the session lasts, the newest tick is published in the end,
\* however many were skipped.
NewestPublished ==
  \A n \in 1..MaxTick :
    ticks = n /\ store.last # None ~> (sent # None /\ sent.tick.n >= n) \/ cancelled

=============================================================================
