------------------------- MODULE OptionEventsProofs -------------------------
(***************************************************************************)
(* Proofs about OptionEvents, for any options, quotes and number of polls. *)
(***************************************************************************)
EXTENDS OptionEvents, TLAPS

LEMMA LookupTypes ==
    ASSUME TypeOK, NEW o \in Options
    PROVE  /\ Lookup(lastSnapshot[o], StoredSnapshot(o)) \subseteq Quote \cup {None}
           /\ Lookup(lastEvent[o], StoredEvent(o)) \subseteq Price \cup {None}
<1>1. StoredSnapshot(o) \subseteq Quote
  BY DEF TypeOK, StoredSnapshot, Newest
<1>2. \A S : Newest(S) \subseteq S
  BY DEF Newest
<1>3. ASSUME NEW p \in Polls PROVE [ltp |-> quote[p][o].ltp] \in Price
  BY DEF TypeOK, Quote, Price
<1>4. StoredEvent(o) \subseteq Price
  <2>1. \A e : Newest({c \in chain : c <= e}) \subseteq Polls
    BY <1>2 DEF TypeOK
  <2>2. ASSUME NEW x \in StoredEvent(o) PROVE x \in Price
    <3>1. PICK e : \E p \in Newest({c \in chain : c <= e}) : x = [ltp |-> quote[p][o].ltp]
      BY <2>2 DEF StoredEvent
    <3> QED BY <3>1, <2>1, <1>3
  <2> QED BY <2>2
<1> QED BY <1>1, <1>4 DEF Lookup, TypeOK

\* A pass of the loop keeps types and both sums.
LEMMA CompareStep ==
    ASSUME TypeOK, OIConserved, LTPConserved, NEW o \in Options, CompareOption(o), holder \in Polls
    PROVE  TypeOK' /\ OIConserved' /\ LTPConserved'
<1> DEFINE q == quote[holder][o]
<1>1. q \in Quote /\ q.oi \in Int /\ q.ltp \in Int
  BY DEF TypeOK, Quote
<1>2. ledger[o] \in Sums
  BY DEF TypeOK
<1>3. lastSnapshot' = [lastSnapshot EXCEPT ![o] = q]
  BY DEF CompareOption
<1>4. UNCHANGED <<pollVars, rowsDue, eventsDue, tables, holder>> /\ todo' \subseteq Options
  BY DEF CompareOption, TypeOK
<1>5. ASSUME NEW row \in Sums, NEW e \in Price \cup {None}, fresh' \subseteq Options,
             ledger' = [ledger EXCEPT ![o] = row],
             lastEvent' = [lastEvent EXCEPT ![o] = e],
             row.oiBase + row.oi = q.oi,
             e # None => row.ltpBase + row.ltp = e.ltp
      PROVE  TypeOK' /\ OIConserved' /\ LTPConserved'
  <2>1. TypeOK'
    BY <1>1, <1>3, <1>4, <1>5 DEF TypeOK, pollVars, tables
  <2>2. OIConserved'
    BY <1>1, <1>3, <1>5 DEF OIConserved, TypeOK
  <2>3. LTPConserved'
    BY <1>5 DEF LTPConserved, TypeOK
  <2> QED BY <2>1, <2>2, <2>3
<1>6. CASE FirstSight(o, q)
  <2> DEFINE row == RebaseOI(ledger[o], q.oi)
  <2>1. row \in Sums /\ row.oiBase = q.oi /\ row.oi = 0 /\ row.ltp = ledger[o].ltp /\ row.ltpBase = ledger[o].ltpBase
    BY <1>1, <1>2 DEF Sums, Sum, RebaseOI, RebaseLTP, AddChange
  <2>2. ledger' = [ledger EXCEPT ![o] = row] /\ lastEvent' = [lastEvent EXCEPT ![o] = lastEvent[o]]
    BY <1>6 DEF FirstSight, TypeOK
  <2>3. fresh' \subseteq Options
    BY <1>6 DEF FirstSight, TypeOK
  <2>4. lastEvent[o] # None => row.ltpBase + row.ltp = lastEvent[o].ltp
    BY <2>1 DEF LTPConserved
  <2>5. row.oiBase + row.oi = q.oi /\ lastEvent[o] \in Price \cup {None}
    BY <1>1, <2>1 DEF TypeOK
  <2> HIDE DEF row
  <2> QED BY <1>5, <2>1, <2>2, <2>3, <2>4, <2>5
<1>7. ASSUME NEW s \in Lookup(lastSnapshot[o], StoredSnapshot(o)), Compare(o, q, s)
      PROVE  TypeOK' /\ OIConserved' /\ LTPConserved'
  <2>1. s \in Quote /\ s.oi \in Int /\ s.ltp \in Int
    BY <1>7, LookupTypes DEF Compare, EventPrice, Quote
  <2> DEFINE base == IF lastSnapshot[o] = None THEN RebaseOI(ledger[o], s.oi) ELSE ledger[o]
  <2>2. base \in Sums /\ base.ltp = ledger[o].ltp /\ base.ltpBase = ledger[o].ltpBase
    BY <1>2, <2>1 DEF Sums, Sum, RebaseOI, RebaseLTP, AddChange
  <2>3. base.oiBase + base.oi = s.oi
    <3>1. CASE lastSnapshot[o] = None
      BY <3>1, <1>2, <2>1 DEF Sums, Sum, RebaseOI, RebaseLTP, AddChange
    <3>2. CASE lastSnapshot[o] # None
      BY <3>2, <1>7 DEF Lookup, OIConserved
    <3> QED BY <3>1, <3>2
  <2>4. CASE q.oi = s.oi /\ ledger' = [ledger EXCEPT ![o] = base] /\ UNCHANGED <<lastEvent, fresh>>
    <3>1. lastEvent' = [lastEvent EXCEPT ![o] = lastEvent[o]] /\ fresh' \subseteq Options
      BY <2>4 DEF TypeOK
    <3>2. lastEvent[o] # None => base.ltpBase + base.ltp = lastEvent[o].ltp
      BY <2>2 DEF LTPConserved
    <3> HIDE DEF base
    <3> QED BY <1>5, <2>2, <2>3, <2>4, <3>1, <3>2 DEF TypeOK
  <2>5. ASSUME NEW e \in Lookup(lastEvent[o], StoredEvent(o)),
               LET from == IF e = None THEN s.ltp ELSE e.ltp
                   paid == IF lastEvent[o] = None THEN RebaseLTP(base, from) ELSE base
               IN  ledger' = [ledger EXCEPT ![o] = AddChange(paid, q.oi - s.oi, q.ltp - from)],
               lastEvent' = [lastEvent EXCEPT ![o] = [ltp |-> q.ltp]],
               fresh' = fresh \cup {o}
        PROVE  TypeOK' /\ OIConserved' /\ LTPConserved'
    <3> DEFINE from == IF e = None THEN s.ltp ELSE e.ltp
               paid == IF lastEvent[o] = None THEN RebaseLTP(base, from) ELSE base
               row == AddChange(paid, q.oi - s.oi, q.ltp - from)
    <3>1. from \in Int
      BY <2>1, LookupTypes DEF Price
    <3> HIDE DEF base
    <3>2. paid \in Sums /\ paid.oiBase = base.oiBase /\ paid.oi = base.oi
      BY <2>2, <3>1 DEF Sums, Sum, RebaseOI, RebaseLTP, AddChange
    <3>3. paid.ltpBase + paid.ltp = from
      <4>1. CASE lastEvent[o] = None
        BY <4>1, <2>2, <3>1 DEF Sums, Sum, RebaseOI, RebaseLTP, AddChange
      <4>2. CASE lastEvent[o] # None
        <5>1. e = lastEvent[o] /\ paid = base
          BY <4>2 DEF Lookup
        <5> QED BY <5>1, <4>2, <2>2 DEF LTPConserved
      <4> QED BY <4>1, <4>2
    <3> HIDE DEF paid, from
    <3>4. row \in Sums /\ row.oiBase = paid.oiBase /\ row.oi = paid.oi + (q.oi - s.oi)
          /\ row.ltpBase = paid.ltpBase /\ row.ltp = paid.ltp + (q.ltp - from)
      BY <1>1, <2>1, <3>1, <3>2 DEF Sums, Sum, RebaseOI, RebaseLTP, AddChange
    <3>5. row.oiBase + row.oi = q.oi
      BY <3>4, <3>2, <2>3, <1>1, <2>1, <2>2 DEF Sums, Sum, RebaseOI, RebaseLTP, AddChange
    <3>6. row.ltpBase + row.ltp = q.ltp
      BY <3>4, <3>3, <3>2, <3>1, <1>1 DEF Sums, Sum, RebaseOI, RebaseLTP, AddChange
    <3>7. [ltp |-> q.ltp] \in Price /\ [ltp |-> q.ltp].ltp = q.ltp
      BY <1>1 DEF Price
    <3>8. ledger' = [ledger EXCEPT ![o] = row]
      BY <2>5 DEF paid, from
    <3>9. fresh' \subseteq Options
      BY <2>5 DEF TypeOK
    <3> HIDE DEF row
    <3> QED BY <1>5, <2>5, <3>4, <3>5, <3>6, <3>7, <3>8, <3>9
  <2> QED BY <1>7, <2>4, <2>5 DEF Compare, EventPrice
<1> QED BY <1>6, <1>7 DEF CompareOption

EventsInv == TypeOK /\ OIConserved /\ LTPConserved /\ (todo # {} => holder # 0)

LEMMA EventsStep == EventsInv /\ [Next]_vars => EventsInv'
<1> SUFFICES ASSUME EventsInv, [Next]_vars PROVE EventsInv'
  OBVIOUS
<1> USE OptionsAssumption DEF EventsInv, Polls
<1>1. ASSUME NEW o \in Options, CompareOption(o) PROVE EventsInv'
  <2>1. holder \in Polls /\ holder' = holder
    BY <1>1 DEF CompareOption, TypeOK
  <2> QED BY <1>1, <2>1, CompareStep
<1>2. ASSUME NEW w \in Writers, Poll(w) PROVE EventsInv'
  <2>1. PICK q \in [Options -> Quotes] : quote' = [quote EXCEPT ![taken + 1] = q]
    BY <1>2 DEF Poll
  <2>2. q \in [Options -> Quote]
    BY <2>1 DEF Quote
  <2>3. taken + 1 \in Polls /\ UNCHANGED <<tables, holder, todo, fresh, caches>>
    BY <1>2 DEF Poll, TypeOK
  <2>4. TypeOK'
    BY <1>2, <2>1, <2>2, <2>3 DEF Poll, TypeOK, tables, caches
  <2> QED BY <2>3, <2>4 DEF OIConserved, LTPConserved, caches
<1>3. ASSUME NEW p \in Polls, SaveOptionsBatch(p) PROVE EventsInv'
  BY <1>3 DEF SaveOptionsBatch, TypeOK, OIConserved, LTPConserved, pollVars, caches
<1>4. ASSUME NEW p \in Polls, BeginEvents(p) PROVE EventsInv'
  BY <1>4 DEF BeginEvents, TypeOK, OIConserved, LTPConserved, pollVars, tables, caches
<1>5. CASE EndEvents
  BY <1>5 DEF EndEvents, TypeOK, OIConserved, LTPConserved, pollVars, caches
<1>6. CASE ResetOptionEventState \/ Restart
  <2>1. /\ lastSnapshot' = [o \in Options |-> None]
        /\ lastEvent' = [o \in Options |-> None]
        /\ ledger' = [o \in Options |-> NoSums]
    BY <1>6 DEF ResetOptionEventState, Restart
  <2>2. OIConserved' /\ LTPConserved'
    BY <2>1 DEF OIConserved, LTPConserved
  <2>3. NoSums \in Sums
    BY DEF NoSums, Sum, Sums
  <2>4. /\ lastSnapshot' \in [Options -> Quote \cup {None}]
        /\ lastEvent' \in [Options -> Price \cup {None}]
        /\ ledger' \in [Options -> Sums]
    BY <2>1, <2>3
  <2>5. /\ UNCHANGED <<pollVars, tables>>
        /\ rowsDue' \subseteq rowsDue /\ eventsDue' \subseteq eventsDue
        /\ todo' \subseteq todo /\ fresh' \subseteq fresh
        /\ holder' \in {0, holder} /\ (todo' # {} => holder' # 0)
    BY <1>6 DEF ResetOptionEventState, Restart
  <2>6. TypeOK'
    BY <2>4, <2>5 DEF TypeOK, pollVars, tables
  <2> QED BY <2>2, <2>5, <2>6
<1>7. CASE NewSession
  BY <1>7 DEF NewSession, TypeOK, OIConserved, LTPConserved, pollVars, caches
<1>8. CASE UNCHANGED vars
  BY <1>8 DEF vars, TypeOK, OIConserved, LTPConserved, pollVars, tables, caches
<1> QED BY <1>1, <1>2, <1>3, <1>4, <1>5, <1>6, <1>7, <1>8 DEF Next

LEMMA EventsInvariant == Spec => []EventsInv
<1>1. Init => EventsInv
  <2>1. NoSums \in Sums
    BY DEF NoSums, Sum, Sums
  <2>2. [oi |-> 0, ltp |-> 0] \in Quote
    BY DEF Quote
  <2> SUFFICES ASSUME Init PROVE EventsInv
    OBVIOUS
  <2>3. quote \in [Polls -> [Options -> Quote]]
    BY <2>2 DEF Init
  <2>6. writer \in [Polls -> Writers]
    BY DEF Init, Writers
  <2>4. /\ lastSnapshot \in [Options -> Quote \cup {None}]
        /\ lastEvent \in [Options -> Price \cup {None}]
        /\ ledger \in [Options -> Sums]
    BY <2>1 DEF Init
  <2>5. OIConserved /\ LTPConserved /\ todo = {}
    BY DEF Init, OIConserved, LTPConserved
  <2> QED BY <2>3, <2>4, <2>5, <2>6, OptionsAssumption DEF Init, EventsInv, TypeOK
<1> QED BY <1>1, EventsStep, PTL DEF Spec

\* Every reachable state of tables, caches and calls is well typed.
THEOREM TypeCorrect == Spec => []TypeOK
BY EventsInvariant, PTL DEF EventsInv

\* For any options, quotes and interleaving of the writers: the changes emitted
\* for an option add up to the move of the cached open interest, and the price
\* changes they carry to the cached price.
THEOREM AlwaysConserved == Spec => []Conserved
BY EventsInvariant, PTL DEF EventsInv, Conserved

\* The leader holds the mutex only after its rows have been tried, and a poll is
\* never due again.
RowsBeforeEvents ==
    /\ holder # 0 /\ writer[holder] = "leader" => holder \notin rowsDue
    /\ holder <= taken
    /\ \A p \in eventsDue : p <= taken

LEMMA RowsFirst == Spec => []RowsBeforeEvents
<1> USE OptionsAssumption DEF RowsBeforeEvents, EventsInv, Polls
<1>1. Init => RowsBeforeEvents
  BY DEF Init
<1>2. RowsBeforeEvents /\ EventsInv /\ [Next]_vars => RowsBeforeEvents'
  <2> SUFFICES ASSUME RowsBeforeEvents, EventsInv, [Next]_vars PROVE RowsBeforeEvents'
    OBVIOUS
  <2> USE DEF TypeOK
  <2>1. ASSUME NEW w \in Writers, Poll(w) PROVE RowsBeforeEvents'
    BY <2>1 DEF Poll
  <2>2. ASSUME NEW p \in Polls, SaveOptionsBatch(p) PROVE RowsBeforeEvents'
    BY <2>2 DEF SaveOptionsBatch, pollVars
  <2>3. ASSUME NEW p \in Polls, BeginEvents(p) PROVE RowsBeforeEvents'
    BY <2>3 DEF BeginEvents, pollVars
  <2>4. ASSUME NEW o \in Options, CompareOption(o) PROVE RowsBeforeEvents'
    BY <2>4 DEF CompareOption, pollVars
  <2>5. CASE EndEvents \/ ResetOptionEventState \/ NewSession \/ Restart \/ UNCHANGED vars
    BY <2>5 DEF EndEvents, ResetOptionEventState, NewSession, Restart, vars, pollVars
  <2> QED BY <2>1, <2>2, <2>3, <2>4, <2>5 DEF Next
<1> QED BY <1>1, <1>2, EventsInvariant, PTL DEF Spec

\* For any options and interleaving: the leader's first comparison of an option
\* after the cache was emptied emits nothing unless its own rows are missing or
\* older than what is stored.
THEOREM ReloadAlwaysHidesMove == Spec => ReloadHidesMove
<1>1. ASSUME EventsInv, RowsBeforeEvents, [Next]_vars, NEW o \in Options,
             lastSnapshot[o] = None, o \in fresh' \ fresh
      PROVE  holder \notin chain \cup rowsDue \/ writer[holder] # "leader" \/ \E p \in chain : p > holder
  <2> USE DEF EventsInv, TypeOK
  <2>1. CompareOption(o)
    <3>1. ASSUME NEW j \in Options, CompareOption(j), j # o PROVE FALSE
      BY <1>1, <3>1 DEF CompareOption, FirstSight, Compare
    <3> QED BY <1>1, <3>1 DEF Next, vars, Poll, SaveOptionsBatch, BeginEvents, EndEvents,
                 ResetOptionEventState, NewSession, Restart
  <2>2. PICK s \in StoredSnapshot(o) : quote[holder][o].oi # s.oi
    <3>1. ~FirstSight(o, quote[holder][o])
      BY <1>1 DEF FirstSight
    <3>2. PICK s \in Lookup(lastSnapshot[o], StoredSnapshot(o)) : Compare(o, quote[holder][o], s)
      BY <2>1, <3>1 DEF CompareOption
    <3>3. s # None /\ s \in StoredSnapshot(o)
      BY <1>1, <3>2 DEF Compare, EventPrice, Lookup
    <3>4. quote[holder][o].oi # s.oi
      BY <1>1, <3>2 DEF Compare, EventPrice
    <3> QED BY <3>3, <3>4
  <2>3. PICK p \in Newest(chain) : s = quote[p][o]
    BY <2>2 DEF StoredSnapshot
  <2>4. p \in chain /\ p # holder /\ (holder \in chain => holder <= p)
    BY <2>2, <2>3 DEF Newest
  <2>5. holder # 0
    <3>1. todo # {}
      BY <2>1 DEF CompareOption
    <3> QED BY <1>1, <3>1
  <2>6. p \in Nat /\ holder \in Nat
    BY <1>1, <2>4, OptionsAssumption DEF Polls
  <2> QED BY <1>1, <2>4, <2>5, <2>6 DEF RowsBeforeEvents
<1>2. EventsInv /\ RowsBeforeEvents /\ [Next]_vars =>
        [\A o \in Options :
          lastSnapshot[o] = None /\ o \in fresh' \ fresh /\ writer[holder] = "leader" =>
              holder \notin chain \cup rowsDue \/ \E p \in chain : p > holder]_vars
  BY <1>1
<1> QED BY <1>2, EventsInvariant, RowsFirst, PTL DEF Spec, ReloadHidesMove
=============================================================================
