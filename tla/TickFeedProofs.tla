---------------------------- MODULE TickFeedProofs ----------------------------
(***************************************************************************)
(* Proofs about TickFeed, for any prices, step of strikes, capacities and  *)
(* number of ticks.                                                        *)
(***************************************************************************)
EXTENDS TickFeed, TLAPS

-----------------------------------------------------------------------------
(* Strikes *)

\* Two strikes less than half a step apart are one.
LEMMA NearStrikes ==
  ASSUME NEW s \in Nat \ {0}, NEW a \in Int, NEW b \in Int,
         2 * (s * a - s * b) < s, 2 * (s * b - s * a) < s
  PROVE  a = b
<1>1. s * a - s * b = s * (a - b) /\ s * b - s * a = s * (b - a)
  OBVIOUS
<1>2. ASSUME a - b >= 1 PROVE FALSE
  <2>1. s * (a - b) >= s
    BY <1>2
  <2> QED BY <1>1, <2>1
<1>3. ASSUME b - a >= 1 PROVE FALSE
  <2>1. s * (b - a) >= s
    BY <1>3
  <2> QED BY <1>1, <2>1
<1> QED BY <1>2, <1>3

\* Strikes, and 0, are multiples of the step.
IsStrike(x) == \E a \in Int : x = Step * a

LEMMA RoundedStrike ==
  ASSUME NEW ltp \in Nat
  PROVE  Rounded(ltp) \in Nat /\ IsStrike(Rounded(ltp))
<1>1. Step \in Nat \ {0}
  BY FeedAssumption
<1>2. (2 * ltp + Step) \div (2 * Step) \in Nat
  BY <1>1
<1> DEFINE a == (2 * ltp + Step) \div (2 * Step)
<1>3. Rounded(ltp) = Step * a /\ a \in Nat
  BY <1>2 DEF Rounded
<1> HIDE DEF a
<1>4. Step * a \in Nat
  BY <1>1, <1>3
<1> QED BY <1>3, <1>4 DEF IsStrike

\* The band never holds a strike back: it is narrower than the distance of strikes.
LEMMA BandIsVoid ==
  ASSUME NEW ltp \in Nat, lastATM \in Nat, IsStrike(lastATM)
  PROVE  NewATM(ltp) = Rounded(ltp)
<1>1. Step \in Nat \ {0} /\ Rounded(ltp) \in Nat /\ IsStrike(Rounded(ltp))
  BY FeedAssumption, RoundedStrike
<1>2. CASE 2 * Abs(Rounded(ltp) - lastATM) < Step
  <2>1. PICK a \in Int : Rounded(ltp) = Step * a
    BY <1>1 DEF IsStrike
  <2>2. PICK b \in Int : lastATM = Step * b
    BY DEF IsStrike
  <2>3. Abs(Rounded(ltp) - lastATM) >= Rounded(ltp) - lastATM /\ Abs(Rounded(ltp) - lastATM) >= lastATM - Rounded(ltp)
        /\ Abs(Rounded(ltp) - lastATM) \in Int
    BY <1>1 DEF Abs
  <2>4. 2 * (Rounded(ltp) - lastATM) < Step /\ 2 * (lastATM - Rounded(ltp)) < Step
    BY <1>1, <1>2, <2>3
  <2>5. a = b
    BY <1>1, <2>1, <2>2, <2>4, NearStrikes
  <2> QED BY <2>1, <2>2, <2>5 DEF NewATM
<1>3. CASE ~(2 * Abs(Rounded(ltp) - lastATM) < Step)
  BY <1>3 DEF NewATM
<1> QED BY <1>2, <1>3

-----------------------------------------------------------------------------
(* Type correctness *)

LEMMA TickFacts ==
  ASSUME NEW t \in Ticks
  PROVE  t # None /\ t.n \in Nat \ {0} /\ t.ltp \in Prices /\ t.ltp \in Nat
<1>1. t.n \in 1..MaxTick /\ t.ltp \in Prices
  BY DEF Ticks
<1>2. MaxTick \in Nat /\ Prices \subseteq Nat /\ None \notin [n : Nat, ltp : Nat]
  BY FeedAssumption
<1>3. t.n \in Nat \ {0}
  BY <1>1, <1>2
<1>4. t.ltp \in Nat
  BY <1>1, <1>2
<1>5. t \in [n : Nat, ltp : Nat]
  BY <1>3, <1>4 DEF Ticks
<1> QED BY <1>1, <1>2, <1>3, <1>4, <1>5

LEMMA InitType == Init => TypeOK
<1> SUFFICES ASSUME Init PROVE TypeOK
  OBVIOUS
<1>1. MaxTick \in Nat /\ ChanCap \in Nat /\ MaxHistory \in Nat
  BY FeedAssumption
<1>2. marketChan \in Seq(Ticks) /\ Len(marketChan) <= ChanCap
  BY <1>1 DEF Init
<1>3. store \in [last : Ticks \cup {None}, history : Seq(Prices)] /\ Len(store.history) <= MaxHistory
  BY <1>1 DEF Init
<1>4. consumer \in [pc : {"receive", "get", "alpha", "publish", "ended"},
                    tick : Ticks \cup {None}, history : Seq(Prices)]
  BY DEF Init, Idle
<1>5. lastATM \in Nat /\ tracked \subseteq Int /\ ticks \in 0..MaxTick
  BY <1>1 DEF Init
<1>6. /\ socket \in {"starting", "connected", "failed", "closed"}
      /\ cancelled \in BOOLEAN /\ closed \in BOOLEAN /\ updating \in BOOLEAN
      /\ handler \in Ticks \cup {None}
  BY DEF Init
<1> QED BY <1>2, <1>3, <1>4, <1>5, <1>6 DEF TypeOK

\* A history that gets a price.
LEMMA HistoryGrows ==
  ASSUME NEW h \in Seq(Prices), Len(h) <= MaxHistory, NEW p \in Prices
  PROVE  LET new == DropOldest(Append(h, p))
         IN new \in Seq(Prices) /\ Len(new) <= MaxHistory /\ new # <<>> /\ new[Len(new)] = p
<1> DEFINE g == Append(h, p)
<1>1. g \in Seq(Prices) /\ Len(g) = Len(h) + 1 /\ g[Len(g)] = p /\ Len(h) \in Nat /\ g # <<>>
  OBVIOUS
<1>2. MaxHistory \in Nat \ {0}
  BY FeedAssumption
<1> HIDE DEF g
<1>3. CASE Len(g) > MaxHistory
  <2>1. DropOldest(g) = Tail(g)
    BY <1>3 DEF DropOldest
  <2>2. Len(g) >= 2
    BY <1>1, <1>2, <1>3
  <2>3. Tail(g) \in Seq(Prices) /\ Len(Tail(g)) = Len(g) - 1
    BY <1>1
  <2>4. Tail(g)[Len(g) - 1] = g[Len(g)]
    BY <1>1, <2>2
  <2> QED BY <1>1, <1>2, <2>1, <2>2, <2>3, <2>4 DEF g
<1>4. CASE ~(Len(g) > MaxHistory)
  <2>1. DropOldest(g) = g
    BY <1>4 DEF DropOldest
  <2> QED BY <1>1, <1>2, <1>4, <2>1 DEF g
<1> QED BY <1>3, <1>4

LEMMA SocketType ==
  ASSUME TypeOK, Connect \/ Stop \/ CloseConnection
  PROVE  TypeOK'
BY DEF Connect, Stop, CloseConnection, TypeOK, storeVars, atmVars

LEMMA OnMessageType ==
  ASSUME TypeOK, OnMessage
  PROVE  TypeOK'
<1>1. PICK p \in Prices : /\ handler' = [n |-> ticks + 1, ltp |-> p]
                          /\ store' = [last |-> handler', history |-> store.history]
  BY DEF OnMessage
<1>2. ticks' = ticks + 1 /\ ticks' \in 1..MaxTick
  BY FeedAssumption DEF OnMessage, TypeOK
<1>3. handler' \in Ticks
  BY <1>1, <1>2 DEF Ticks
<1>4. store' \in [last : Ticks \cup {None}, history : Seq(Prices)] /\ store'.history = store.history
  BY <1>1, <1>3 DEF TypeOK
<1>5. UNCHANGED <<socket, cancelled, closed, marketChan, consumer, lastATM, tracked>> /\ updating' = TRUE
  BY DEF OnMessage, atmVars
<1>6. ticks' \in 0..MaxTick
  BY <1>2
<1> QED BY <1>3, <1>4, <1>5, <1>6 DEF TypeOK

LEMMA RememberType ==
  ASSUME TypeOK, Remember, handler # None
  PROVE  TypeOK'
<1>1. handler.ltp \in Prices
  BY TickFacts DEF TypeOK
<1>2. /\ DropOldest(Append(store.history, handler.ltp)) \in Seq(Prices)
      /\ Len(DropOldest(Append(store.history, handler.ltp))) <= MaxHistory
  BY <1>1, HistoryGrows DEF TypeOK
<1>3. store' = [last |-> store.last, history |-> DropOldest(Append(store.history, handler.ltp))]
  BY DEF Remember
<1>4. store' \in [last : Ticks \cup {None}, history : Seq(Prices)] /\ Len(store'.history) <= MaxHistory
  BY <1>2, <1>3 DEF TypeOK
<1>5. UNCHANGED <<socket, cancelled, closed, marketChan, handler, consumer, lastATM, tracked, ticks>>
      /\ updating' = FALSE
  BY DEF Remember, feed, atmVars
<1> QED BY <1>4, <1>5 DEF TypeOK

LEMMA SendType ==
  ASSUME TypeOK, Send
  PROVE  TypeOK'
<1>1. handler \in Ticks /\ marketChan \in Seq(Ticks) /\ Len(marketChan) < ChanCap
  BY DEF Send, TypeOK
<1>2. marketChan' \in Seq(Ticks) /\ Len(marketChan') <= ChanCap
  BY <1>1, FeedAssumption DEF Send
<1>3. UNCHANGED <<socket, cancelled, closed, store, updating, consumer, lastATM, tracked, ticks>> /\ handler' = None
  BY DEF Send, feed, storeVars, atmVars
<1> QED BY <1>2, <1>3 DEF TypeOK

LEMMA TakeType ==
  ASSUME TypeOK, Take
  PROVE  TypeOK'
<1>1. marketChan \in Seq(Ticks) /\ marketChan # <<>> /\ Len(marketChan) <= ChanCap /\ ChanCap \in Nat
  BY FeedAssumption DEF Take, TypeOK
<1>2. Head(marketChan) \in Ticks /\ Tail(marketChan) \in Seq(Ticks) /\ Len(Tail(marketChan)) <= ChanCap
  BY <1>1
<1>3. Head(marketChan).ltp \in Nat
  BY <1>2, TickFacts
<1>4. NewATM(Head(marketChan).ltp) \in Nat
  BY <1>3, RoundedStrike DEF NewATM, TypeOK
<1>5. lastATM' = NewATM(Head(marketChan).ltp) /\ marketChan' = Tail(marketChan)
      /\ consumer' = [pc |-> "get", tick |-> Head(marketChan), history |-> <<>>]
      /\ UNCHANGED <<socket, cancelled, closed, store, updating, handler, ticks>>
  BY DEF Take, feed, storeVars
<1>6. tracked' \subseteq Int
  <2>1. Step \in Nat
    BY FeedAssumption
  <2>2. \A atm \in Nat : Strikes(atm) \subseteq Int
    BY <2>1 DEF Strikes
  <2> QED BY <1>4, <2>2 DEF Take, TypeOK
<1>7. consumer' \in [pc : {"receive", "get", "alpha", "publish", "ended"},
                     tick : Ticks \cup {None}, history : Seq(Prices)]
  BY <1>2, <1>5
<1> QED BY <1>2, <1>4, <1>5, <1>6, <1>7 DEF TypeOK

LEMMA ConsumerType ==
  ASSUME TypeOK, Get \/ ComputeAlpha \/ PublishTick \/ ConsumerEnds
  PROVE  TypeOK'
<1>1. UNCHANGED <<socket, cancelled, closed, marketChan, handler, store, updating, lastATM, tracked, ticks>>
  BY DEF Get, ComputeAlpha, PublishTick, ConsumerEnds, feed, storeVars, atmVars
<1> DEFINE Consumers == [pc : {"receive", "get", "alpha", "publish", "ended"},
                         tick : Ticks \cup {None}, history : Seq(Prices)]
<1>2. consumer \in Consumers /\ store.history \in Seq(Prices)
  BY DEF TypeOK
<1>3. CASE Get
  <2>1. consumer' \in Consumers
    BY <1>2, <1>3 DEF Get
  <2> QED BY <1>1, <2>1 DEF TypeOK
<1>4. CASE ComputeAlpha
  <2>1. consumer' \in Consumers
    BY <1>2, <1>4 DEF ComputeAlpha
  <2> QED BY <1>1, <2>1 DEF TypeOK
<1>5. CASE PublishTick \/ ConsumerEnds
  <2>1. consumer' = Idle \/ consumer' = [Idle EXCEPT !.pc = "ended"]
    BY <1>5 DEF PublishTick, ConsumerEnds
  <2>2. <<>> \in Seq(Prices)
    OBVIOUS
  <2>3. consumer' = [pc |-> "receive", tick |-> None, history |-> <<>>]
        \/ consumer' = [pc |-> "ended", tick |-> None, history |-> <<>>]
    BY <2>1 DEF Idle
  <2>4. [pc |-> "receive", tick |-> None, history |-> <<>>] \in Consumers
    BY <2>2
  <2>5. [pc |-> "ended", tick |-> None, history |-> <<>>] \in Consumers
    BY <2>2
  <2>6. consumer' \in Consumers
    BY <2>3, <2>4, <2>5, Zenon
  <2> QED BY <1>1, <2>6 DEF TypeOK
<1> QED BY <1>3, <1>4, <1>5

-----------------------------------------------------------------------------
(* The store, the channel and the consumer in step *)

Newest(h) == h[Len(h)]

\* A tick that was sent: it is the newest one only as long as no newer one is in
\* the handler's hands.
Known(t) ==
  /\ t.n <= ticks
  /\ handler # None => t.n < ticks
  /\ t.n = ticks => t = store.last

\* Where the newest tick and its price are, between the handler's two assignments
\* and on the consumer's way to the payload.
InStep ==
  /\ updating => handler # None
  /\ handler # None => handler = store.last
  /\ ticks = 0 => store.last = None
  /\ ticks # 0 => store.last \in Ticks /\ store.last.n = ticks
  /\ ticks # 0 /\ ~updating => store.history # <<>> /\ Newest(store.history) = store.last.ltp
  /\ ticks > 1 => store.history # <<>>
  /\ \A i \in 1..Len(marketChan) : Known(marketChan[i])
  /\ consumer.tick # None => Known(consumer.tick)
  /\ consumer.pc \in {"get", "alpha", "publish"} => consumer.tick # None
  /\ consumer.pc = "publish" =>
       /\ consumer.history # <<>>
       /\ consumer.tick.n = ticks => Newest(consumer.history) = consumer.tick.ltp

\* The last strike announced is the one nearest to the tick that is handled.
InMoney ==
  /\ IsStrike(lastATM)
  /\ consumer.tick # None => lastATM = Rounded(consumer.tick.ltp)
  /\ lastATM # 0 => tracked = Strikes(lastATM)

FeedInv == TypeOK /\ InStep /\ InMoney /\ PayloadCoherent

LEMMA InitInv == Init => FeedInv
<1> SUFFICES ASSUME Init PROVE FeedInv
  OBVIOUS
<1>1. TypeOK
  BY InitType
<1>2. InStep
  BY DEF Init, InStep, Idle
<1>3. InMoney
  <2>1. 0 = Step * 0
    BY FeedAssumption
  <2> QED BY <2>1 DEF Init, InMoney, IsStrike, Idle
<1>4. PayloadCoherent
  BY DEF Init, PayloadCoherent
<1> QED BY <1>1, <1>2, <1>3, <1>4 DEF FeedInv

LEMMA SocketStep ==
  ASSUME FeedInv, Connect \/ Stop \/ CloseConnection
  PROVE  FeedInv'
<1>1. TypeOK'
  BY SocketType DEF FeedInv
<1>2. UNCHANGED <<marketChan, handler, store, updating, consumer, lastATM, tracked, ticks, sent>>
  BY DEF Connect, Stop, CloseConnection, storeVars, atmVars
<1>3. InStep'
  BY <1>2 DEF FeedInv, InStep, Known
<1>4. InMoney' /\ PayloadCoherent'
  BY <1>2 DEF FeedInv, InMoney, PayloadCoherent
<1> QED BY <1>1, <1>3, <1>4 DEF FeedInv

LEMMA OnMessageStep ==
  ASSUME FeedInv, OnMessage
  PROVE  FeedInv'
<1>1. TypeOK /\ TypeOK' /\ InStep
  BY OnMessageType DEF FeedInv
<1>2. PICK p \in Prices : /\ handler' = [n |-> ticks + 1, ltp |-> p]
                          /\ store' = [last |-> handler', history |-> store.history]
  BY DEF OnMessage
<1>3. ticks \in Nat /\ ticks' = ticks + 1 /\ updating' = TRUE /\ handler = None
      /\ UNCHANGED <<marketChan, consumer, lastATM, tracked, sent>>
  BY <1>1, FeedAssumption DEF OnMessage, TypeOK, atmVars
<1>4. handler' \in Ticks /\ handler'.n = ticks' /\ handler' # None
  <2>1. ticks' \in 1..MaxTick
    BY <1>3, FeedAssumption DEF OnMessage
  <2>2. handler' \in Ticks
    BY <1>2, <1>3, <2>1 DEF Ticks
  <2> QED BY <1>2, <1>3, <2>2, TickFacts
<1>5. store'.last = handler' /\ store'.history = store.history
  BY <1>2
<1>6. ASSUME NEW t \in Ticks, Known(t) PROVE Known(t)' /\ t.n # ticks'
  <2>1. t.n \in Nat /\ t.n <= ticks
    BY <1>6, TickFacts DEF Known
  <2> QED BY <1>3, <2>1 DEF Known
<1>7. \A i \in 1..Len(marketChan') : Known(marketChan[i])'
  <2>1. \A i \in 1..Len(marketChan) : marketChan[i] \in Ticks /\ Known(marketChan[i])
    BY <1>1 DEF TypeOK, InStep
  <2> SUFFICES ASSUME NEW i \in 1..Len(marketChan) PROVE Known(marketChan[i])'
    BY <1>3
  <2>2. PICK t \in Ticks : t = marketChan[i] /\ Known(t)
    BY <2>1
  <2>3. Known(t)'
    BY <1>6, <2>2
  <2> QED BY <1>3, <2>2, <2>3 DEF Known
<1>8. consumer.tick # None => Known(consumer.tick)' /\ consumer.tick.n # ticks'
  <2> SUFFICES ASSUME consumer.tick # None PROVE Known(consumer.tick)' /\ consumer.tick.n # ticks'
    OBVIOUS
  <2>1. PICK t \in Ticks : t = consumer.tick /\ Known(t)
    BY <1>1 DEF TypeOK, InStep
  <2>2. Known(t)' /\ t.n # ticks'
    BY <1>6, <2>1
  <2> QED BY <1>3, <2>1, <2>2 DEF Known
<1>9. ticks' > 1 => store'.history # <<>>
  BY <1>1, <1>3, <1>5 DEF OnMessage, InStep
<1>10. InStep'
  <2>1. (updating => handler # None)' /\ (handler # None => handler = store.last)'
        /\ (ticks = 0 => store.last = None)' /\ (ticks # 0 => store.last \in Ticks /\ store.last.n = ticks)'
    BY <1>3, <1>4, <1>5 DEF Ticks
  <2>2. (consumer.pc \in {"get", "alpha", "publish"} => consumer.tick # None)'
    BY <1>1, <1>3 DEF InStep
  <2>3. (consumer.pc = "publish" =>
          /\ consumer.history # <<>>
          /\ consumer.tick.n = ticks => Newest(consumer.history) = consumer.tick.ltp)'
    BY <1>1, <1>3, <1>8 DEF InStep
  <2>4. (consumer.tick # None => Known(consumer.tick))'
    BY <1>3, <1>8 DEF Known
  <2> QED BY <1>3, <1>7, <1>9, <2>1, <2>2, <2>3, <2>4 DEF InStep
<1>11. InMoney' /\ PayloadCoherent'
  BY <1>3 DEF FeedInv, InMoney, PayloadCoherent
<1> QED BY <1>1, <1>10, <1>11 DEF FeedInv

LEMMA RememberStep ==
  ASSUME FeedInv, Remember
  PROVE  FeedInv'
<1>1. TypeOK /\ InStep /\ handler # None /\ handler = store.last
  BY DEF FeedInv, InStep, Remember
<1>2. TypeOK'
  BY <1>1, RememberType
<1>3. handler.ltp \in Prices
  BY <1>1, TickFacts DEF TypeOK
<1>4. store'.last = store.last /\ store'.history # <<>> /\ Newest(store'.history) = store.last.ltp
  <2>1. store' = [last |-> store.last, history |-> DropOldest(Append(store.history, handler.ltp))]
    BY DEF Remember
  <2>2. store.history \in Seq(Prices) /\ Len(store.history) <= MaxHistory
    BY <1>1 DEF TypeOK
  <2> QED BY <1>1, <1>3, <2>1, <2>2, HistoryGrows DEF Newest
<1>5. UNCHANGED <<marketChan, handler, consumer, lastATM, tracked, sent, ticks>> /\ updating' = FALSE
  BY DEF Remember, feed, atmVars
<1>6. \A t : Known(t) => Known(t)'
  BY <1>4, <1>5 DEF Known
<1>7. InStep'
  <2>1. \A i \in 1..Len(marketChan') : Known(marketChan[i])'
    <3> SUFFICES ASSUME NEW i \in 1..Len(marketChan) PROVE Known(marketChan[i])'
      BY <1>5
    <3> QED BY <1>1, <1>4, <1>5 DEF InStep, Known
  <2>2. (consumer.tick # None => Known(consumer.tick))'
    BY <1>1, <1>4, <1>5 DEF InStep, Known
  <2> QED BY <1>1, <1>4, <1>5, <2>1, <2>2 DEF InStep
<1>8. InMoney' /\ PayloadCoherent'
  BY <1>5 DEF FeedInv, InMoney, PayloadCoherent
<1> QED BY <1>2, <1>7, <1>8 DEF FeedInv

LEMMA SendStep ==
  ASSUME FeedInv, Send
  PROVE  FeedInv'
<1>1. TypeOK /\ InStep /\ TypeOK'
  BY SendType DEF FeedInv
<1>2. handler # None /\ ~updating /\ marketChan' = Append(marketChan, handler) /\ handler' = None
      /\ UNCHANGED <<store, updating, consumer, lastATM, tracked, sent, ticks>>
  BY DEF Send, feed, storeVars, atmVars
<1>3. marketChan \in Seq(Ticks) /\ handler \in Ticks /\ handler = store.last /\ ticks \in Nat
  BY <1>1, <1>2, FeedAssumption DEF TypeOK, InStep
<1>4. ticks # 0 /\ store.last.n = ticks
  BY <1>1, <1>2, <1>3 DEF InStep
<1>5. \A i \in 1..Len(marketChan') : Known(marketChan[i])'
  <2> SUFFICES ASSUME NEW i \in 1..Len(marketChan') PROVE Known(marketChan[i])'
    OBVIOUS
  <2>1. Len(marketChan') = Len(marketChan) + 1
    BY <1>2, <1>3
  <2>2. CASE i \in 1..Len(marketChan)
    <3>1. marketChan'[i] = marketChan[i] /\ Known(marketChan[i])
      BY <1>1, <1>2, <1>3, <2>2 DEF InStep
    <3> QED BY <1>2, <3>1 DEF Known
  <2>3. CASE i = Len(marketChan')
    <3>1. marketChan'[i] = store.last
      BY <1>2, <1>3, <2>1, <2>3
    <3> QED BY <1>2, <1>3, <1>4, <3>1 DEF Known
  <2> QED BY <1>3, <2>1, <2>2, <2>3
<1>6. (consumer.tick # None => Known(consumer.tick))'
  BY <1>1, <1>2 DEF InStep, Known
<1>7. InStep'
  BY <1>1, <1>2, <1>5, <1>6 DEF InStep
<1>8. InMoney' /\ PayloadCoherent'
  BY <1>2 DEF FeedInv, InMoney, PayloadCoherent
<1> QED BY <1>1, <1>7, <1>8 DEF FeedInv

LEMMA TakeStep ==
  ASSUME FeedInv, Take
  PROVE  FeedInv'
<1>1. TypeOK /\ InStep /\ InMoney /\ TypeOK'
  BY TakeType DEF FeedInv
<1>2. PICK t \in Ticks : t = Head(marketChan)
  BY <1>1 DEF Take, TypeOK
<1>3. marketChan' = Tail(marketChan) /\ marketChan # <<>> /\ marketChan \in Seq(Ticks)
      /\ consumer' = [pc |-> "get", tick |-> t, history |-> <<>>]
      /\ UNCHANGED <<handler, store, updating, sent, ticks>>
  BY <1>1, <1>2 DEF Take, TypeOK, feed, storeVars
<1>4. InStep'
  <2>1. t = marketChan[1] /\ 1 \in 1..Len(marketChan)
    BY <1>2, <1>3
  <2>2. Known(t)
    BY <1>1, <2>1 DEF InStep
  <2>3. (consumer.tick # None => Known(consumer.tick))'
    BY <1>3, <2>2 DEF Known
  <2>4. (\A i \in 1..Len(marketChan) : Known(marketChan[i]))'
    <3> SUFFICES ASSUME NEW i \in 1..Len(marketChan') PROVE Known(marketChan[i])'
      OBVIOUS
    <3>1. marketChan'[i] = marketChan[i + 1] /\ i + 1 \in 1..Len(marketChan)
      BY <1>3
    <3>2. Known(marketChan[i + 1])
      BY <1>1, <3>1 DEF InStep
    <3> QED BY <1>3, <3>1, <3>2 DEF Known
  <2>5. consumer'.pc = "get" /\ consumer'.tick # None
    BY <1>3, TickFacts
  <2> QED BY <1>1, <1>3, <2>3, <2>4, <2>5 DEF InStep
<1>5. InMoney'
  <2>1. lastATM \in Nat /\ t.ltp \in Nat
    BY <1>1, TickFacts DEF TypeOK
  <2>2. NewATM(t.ltp) = Rounded(t.ltp) /\ IsStrike(Rounded(t.ltp))
    BY <1>1, <2>1, BandIsVoid, RoundedStrike DEF InMoney
  <2>3. lastATM' = Rounded(t.ltp) /\ tracked' = IF lastATM' # lastATM THEN Strikes(lastATM') ELSE tracked
    BY <1>2, <2>2 DEF Take
  <2>4. IsStrike(lastATM)'
    BY <2>2, <2>3 DEF IsStrike
  <2>5. consumer'.tick = t
    BY <1>3
  <2> QED BY <1>1, <2>3, <2>4, <2>5 DEF InMoney, Strikes
<1>6. PayloadCoherent'
  BY <1>3 DEF FeedInv, PayloadCoherent
<1> QED BY <1>1, <1>4, <1>5, <1>6 DEF FeedInv

\* What the consumer computes the alpha from ends with the price of its tick, unless
\* a newer one has come.
LEMMA HistoryOfTick ==
  ASSUME TypeOK, InStep, consumer.pc = "alpha"
  PROVE  /\ store.history # <<>>
         /\ consumer.tick.n = ticks => Newest(store.history) = consumer.tick.ltp
<1>1. consumer.tick \in Ticks /\ Known(consumer.tick) /\ ticks \in Nat
  BY FeedAssumption DEF TypeOK, InStep
<1>2. consumer.tick.n \in Nat \ {0} /\ consumer.tick.n <= ticks
  BY <1>1, TickFacts DEF Known
<1>3. CASE consumer.tick.n = ticks
  <2>1. handler = None /\ consumer.tick = store.last
    BY <1>1, <1>3 DEF Known
  <2>2. ~updating /\ ticks # 0
    BY <1>2, <1>3, <2>1 DEF InStep
  <2> QED BY <2>1, <2>2 DEF InStep
<1>4. CASE consumer.tick.n # ticks
  BY <1>1, <1>2, <1>4 DEF InStep
<1> QED BY <1>3, <1>4

LEMMA GetStep ==
  ASSUME FeedInv, Get \/ ComputeAlpha
  PROVE  FeedInv'
<1>1. TypeOK /\ InStep /\ TypeOK'
  BY ConsumerType DEF FeedInv
<1>2. UNCHANGED <<marketChan, handler, store, updating, lastATM, tracked, ticks, sent>>
  BY DEF Get, ComputeAlpha, feed, storeVars, atmVars
<1>3. consumer'.tick = consumer.tick /\ consumer.pc \in {"get", "alpha"}
  BY <1>1 DEF Get, ComputeAlpha, TypeOK
<1>4. consumer'.pc = "publish" => consumer.pc = "alpha" /\ consumer'.history = store.history
  BY <1>1 DEF Get, ComputeAlpha, TypeOK
<1>5. (consumer.pc = "publish" =>
        /\ consumer.history # <<>>
        /\ consumer.tick.n = ticks => Newest(consumer.history) = consumer.tick.ltp)'
  BY <1>1, <1>2, <1>3, <1>4, HistoryOfTick DEF Newest
<1>6. (consumer.tick # None => Known(consumer.tick))'
  BY <1>1, <1>2, <1>3 DEF InStep, Known
<1>7. (\A i \in 1..Len(marketChan) : Known(marketChan[i]))'
  BY <1>1, <1>2 DEF InStep, Known
<1>8. consumer'.tick # None
  BY <1>1, <1>3 DEF InStep
<1>9. InStep'
  BY <1>1, <1>2, <1>5, <1>6, <1>7, <1>8 DEF InStep
<1>10. InMoney' /\ PayloadCoherent'
  BY <1>2, <1>3 DEF FeedInv, InMoney, PayloadCoherent
<1> QED BY <1>1, <1>9, <1>10 DEF FeedInv

LEMMA PublishStep ==
  ASSUME FeedInv, PublishTick
  PROVE  FeedInv'
<1>1. TypeOK /\ InStep /\ TypeOK'
  BY ConsumerType DEF FeedInv
<1>2. UNCHANGED <<marketChan, handler, store, updating, lastATM, tracked, ticks>>
      /\ consumer' = Idle /\ consumer.pc = "publish"
      /\ sent' = [tick |-> store.last, taken |-> consumer.tick, history |-> consumer.history]
  BY DEF PublishTick, feed, storeVars, atmVars
<1>3. (\A i \in 1..Len(marketChan) : Known(marketChan[i]))'
  BY <1>1, <1>2 DEF InStep, Known
<1>4. InStep'
  BY <1>1, <1>2, <1>3 DEF InStep, Idle
<1>5. InMoney'
  BY <1>2 DEF FeedInv, InMoney, Idle
<1>6. PayloadCoherent'
  <2>1. consumer.tick \in Ticks /\ Known(consumer.tick) /\ ticks \in Nat
    BY <1>1, <1>2, FeedAssumption DEF TypeOK, InStep
  <2>2. consumer.tick.n \in Nat \ {0} /\ consumer.tick.n <= ticks
    BY <2>1, TickFacts DEF Known
  <2>3. store.last.n = ticks
    BY <1>1, <2>1, <2>2 DEF InStep
  <2>4. consumer.tick.n = ticks => consumer.tick = store.last
    BY <2>1 DEF Known
  <2>5. consumer.history # <<>> /\ (consumer.tick.n = ticks => Newest(consumer.history) = consumer.tick.ltp)
    BY <1>1, <1>2 DEF InStep
  <2>6. sent'.tick = store.last /\ sent'.taken = consumer.tick /\ sent'.history = consumer.history
    BY <1>2
  <2> QED BY <2>2, <2>3, <2>4, <2>5, <2>6 DEF PayloadCoherent, Newest
<1> QED BY <1>1, <1>4, <1>5, <1>6 DEF FeedInv

LEMMA EndsStep ==
  ASSUME FeedInv, ConsumerEnds
  PROVE  FeedInv'
<1>1. TypeOK /\ InStep /\ TypeOK'
  BY ConsumerType DEF FeedInv
<1>2. UNCHANGED <<marketChan, handler, store, updating, lastATM, tracked, ticks, sent>>
      /\ consumer' = [Idle EXCEPT !.pc = "ended"]
  BY DEF ConsumerEnds, feed, storeVars, atmVars
<1>3. consumer'.pc = "ended" /\ consumer'.tick = None
  BY <1>2 DEF Idle
<1>4. (\A i \in 1..Len(marketChan) : Known(marketChan[i]))'
  BY <1>1, <1>2 DEF InStep, Known
<1>5. InStep'
  BY <1>1, <1>2, <1>3, <1>4 DEF InStep
<1>6. InMoney' /\ PayloadCoherent'
  BY <1>2, <1>3 DEF FeedInv, InMoney, PayloadCoherent
<1> QED BY <1>1, <1>5, <1>6 DEF FeedInv

LEMMA NextInv == FeedInv /\ [Next]_vars => FeedInv'
<1> SUFFICES ASSUME FeedInv, [Next]_vars PROVE FeedInv'
  OBVIOUS
<1>1. CASE Connect \/ Stop \/ CloseConnection
  BY <1>1, SocketStep
<1>2. CASE OnMessage
  BY <1>2, OnMessageStep
<1>3. CASE Remember
  BY <1>3, RememberStep
<1>4. CASE Send
  BY <1>4, SendStep
<1>5. CASE ConsumerStep
  BY <1>5, TakeStep, GetStep, PublishStep, EndsStep DEF ConsumerStep
<1>6. CASE UNCHANGED vars
  BY <1>6 DEF vars, storeVars, atmVars, FeedInv, TypeOK, InStep, Known, InMoney, IsStrike, PayloadCoherent
<1> QED BY <1>1, <1>2, <1>3, <1>4, <1>5, <1>6 DEF Next

\* Store, channel, consumer and tracked strikes are in step in every reachable state.
THEOREM FeedInvAlways == Spec => []FeedInv
BY InitInv, NextInv, PTL DEF Spec

\* The state of the feed is of its type, and no channel or history outgrows its
\* capacity, whatever arrives and whenever the session ends.
THEOREM TypeCorrect == Spec => []TypeOK
<1>1. FeedInv => TypeOK
  BY DEF FeedInv
<1> QED BY <1>1, FeedInvAlways, PTL

\* A published payload is never older than the tick taken, and its alpha is of a
\* history that ends with its price unless a newer tick has come: for any capacity
\* of the channel and of the history, although the store is read without its lock.
THEOREM PayloadAlwaysCoherent == Spec => []PayloadCoherent
<1>1. FeedInv => PayloadCoherent
  BY DEF FeedInv
<1> QED BY <1>1, FeedInvAlways, PTL

\* The strike nearest to the price of the tick that is handled is always polled, with
\* those around it: for any step, and however far the index jumps between two ticks.
\* The reason is that the band of ATMTracker.Update never holds a strike back.
THEOREM MoneyAlwaysTracked == Spec => []MoneyTracked
<1>1. FeedInv => MoneyTracked
  <2> SUFFICES ASSUME FeedInv PROVE MoneyTracked
    OBVIOUS
  <2>1. lastATM \in Nat /\ Step \in Nat
    BY FeedAssumption DEF FeedInv, TypeOK
  <2>2. lastATM \in Strikes(lastATM)
    <3>1. lastATM = lastATM + 0 * Step /\ 0 \in -2..2
      BY <2>1
    <3> QED BY <3>1 DEF Strikes
  <2> QED BY <2>2 DEF FeedInv, InMoney, MoneyTracked
<1> QED BY <1>1, FeedInvAlways, PTL

-----------------------------------------------------------------------------
(* The two alphas *)

\* ComputeAlpha of the index and ComputeAlphaFromLTP of the options: a BUY or SELL of
\* the first is the second's, whatever the prices; one of the second is the first's
\* unless the move is noise to it, and never a weak signal or the contrary.
THEOREM AlphasAgree ==
  ASSUME NEW h \in Seq(Nat), h # <<>>
  PROVE  /\ AlphaSignal(h) \in {"BUY", "SELL"} => PlainSignal(h) = AlphaSignal(h)
         /\ PlainSignal(h) \in {"BUY", "SELL"} =>
              AlphaSignal(h) = IF Noisy(h) THEN "HOLD" ELSE PlainSignal(h)
<1> DEFINE v == Velocity(h)
           a == Accel(h)
<1>1. v \in Int /\ a \in Int
  <2>1. Len(h) \in Nat /\ \A i \in 1..Len(h) : h[i] \in Nat
    OBVIOUS
  <2>2. v \in Int
    BY <2>1 DEF Velocity
  <2>3. Len(h) >= 3 => h[Len(h) - 1] \in Nat /\ h[Len(h) - 2] \in Nat
    BY <2>1
  <2>4. a \in Int
    BY <2>1, <2>2, <2>3 DEF Accel
  <2> QED BY <2>2, <2>4
<1> HIDE DEF v, a
<1>2. PlainSignal(h) \in {"BUY", "SELL", "HOLD"}
  BY DEF PlainSignal
<1>3. PlainSignal(h) = "BUY" => v > 0 /\ a > 0
  BY DEF PlainSignal, v, a
<1>4. PlainSignal(h) = "SELL" => v < 0 /\ a < 0
  BY DEF PlainSignal, v, a
<1>5. Noisy(h) => AlphaSignal(h) = "HOLD"
  BY DEF AlphaSignal
<1>6. ASSUME ~Noisy(h), (v > 0 /\ a > 0) \/ (v < 0 /\ a < 0) PROVE AlphaSignal(h) = PlainSignal(h)
  <2>1. ~(v > 0 /\ a < 0) /\ ~(v < 0 /\ a > 0)
    BY <1>1, <1>6
  <2> QED BY <1>6, <2>1 DEF AlphaSignal, v, a
<1>7. AlphaSignal(h) \in {"HOLD", "WEAK_BUY", "WEAK_SELL"} \/ AlphaSignal(h) = PlainSignal(h)
  BY DEF AlphaSignal
<1> QED BY <1>2, <1>3, <1>4, <1>5, <1>6, <1>7
=============================================================================
