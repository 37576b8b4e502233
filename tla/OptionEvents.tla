---------------------------- MODULE OptionEvents ----------------------------
(***************************************************************************)
(* The shared option tables (internal/storage/postgres): option_chain gets *)
(* every row of every poll, option_oi_change_events the changes of open    *)
(* interest between polls.  The change is taken against a process-wide     *)
(* cache that falls back to the rows of the current market session.  The   *)
(* live collector hands each poll to two goroutines; the leading user      *)
(* runtime makes the two calls one after the other.  Both share the cache. *)
(*                                                                         *)
(* Polls are numbered in the order in which they are taken, and a row's    *)
(* time is the number of its poll.                                         *)
(***************************************************************************)
EXTENDS Integers, FiniteSets

CONSTANTS Options,   \* symbol|strike|type keys
          Quotes,    \* what a poll may say of an option: [oi, ltp]
          MaxPoll    \* bound: polls taken

ASSUME OptionsAssumption ==
    /\ MaxPoll \in Nat
    /\ Quotes \subseteq [oi: Int, ltp: Int]

VARIABLES
    taken,        \* polls taken so far
    writer,       \* poll -> who took it
    quote,        \* poll -> option -> the row it carries
    rowsDue,      \* polls whose SaveOptionsBatch has not run
    eventsDue,    \* polls whose SaveOptionsAndOIEvents has not got optionWriteMu
    chain,        \* option_chain: polls stored in the current session
    eventRows,    \* option_oi_change_events of the session: <<poll, option>>
    holder,       \* the poll whose call holds optionWriteMu; 0 is none
    todo,         \* options its loop has not reached
    fresh,        \* options it has appended an event for
    lastSnapshot, \* lastSnapshotByKey: an option's last quote, if cached
    lastEvent,    \* lastEventByKey: the price of an option's last event, if cached
    ledger        \* history: what the events since the cache was filled add up to

pollVars == <<taken, writer, quote>>
tables == <<chain, eventRows>>
caches == <<lastSnapshot, lastEvent, ledger>>
vars == <<pollVars, rowsDue, eventsDue, tables, holder, todo, fresh, caches>>

Polls == 1..MaxPoll
Writers == {"collector", "leader"}
Quote == [oi: Int, ltp: Int]
Price == [ltp: Int]
None == [none |-> TRUE]

\* oi and ltp: sums of the changes emitted for an option; oiBase and ltpBase:
\* the values the first of them was taken against.
Sums == [oi: Int, oiBase: Int, ltp: Int, ltpBase: Int]
Sum(oi, oiBase, ltp, ltpBase) == [oi |-> oi, oiBase |-> oiBase, ltp |-> ltp, ltpBase |-> ltpBase]
NoSums == Sum(0, 0, 0, 0)
\* Start the sum of OI changes, or that of price changes, anew.
RebaseOI(l, v) == Sum(0, v, l.ltp, l.ltpBase)
RebaseLTP(l, v) == Sum(l.oi, l.oiBase, 0, v)
AddChange(l, oi, ltp) == Sum(l.oi + oi, l.oiBase, l.ltp + ltp, l.ltpBase)

TypeOK ==
    /\ taken \in 0..MaxPoll
    /\ writer \in [Polls -> Writers]
    /\ quote \in [Polls -> [Options -> Quote]]
    /\ rowsDue \subseteq Polls
    /\ eventsDue \subseteq Polls
    /\ chain \subseteq Polls
    /\ eventRows \subseteq Polls \X Options
    /\ holder \in 0..MaxPoll
    /\ todo \subseteq Options
    /\ fresh \subseteq Options
    /\ lastSnapshot \in [Options -> Quote \cup {None}]
    /\ lastEvent \in [Options -> Price \cup {None}]
    /\ ledger \in [Options -> Sums]

Init ==
    /\ taken = 0
    /\ writer = [p \in Polls |-> "collector"]
    /\ quote = [p \in Polls |-> [o \in Options |-> [oi |-> 0, ltp |-> 0]]]
    /\ rowsDue = {} /\ eventsDue = {} /\ chain = {} /\ eventRows = {}
    /\ holder = 0 /\ todo = {} /\ fresh = {}
    /\ lastSnapshot = [o \in Options |-> None]
    /\ lastEvent = [o \in Options |-> None]
    /\ ledger = [o \in Options |-> NoSums]

-----------------------------------------------------------------------------
\* The leading runtime is one goroutine: it polls again when both its calls are over.
LeaderIdle == \A p \in rowsDue \cup eventsDue \cup {holder} : p # 0 => writer[p] = "collector"

Poll(w) ==
    /\ taken < MaxPoll
    /\ w = "leader" => LeaderIdle
    /\ taken' = taken + 1
    /\ writer' = [writer EXCEPT ![taken + 1] = w]
    /\ \E q \in [Options -> Quotes] : quote' = [quote EXCEPT ![taken + 1] = q]
    /\ rowsDue' = rowsDue \cup {taken + 1}
    /\ eventsDue' = eventsDue \cup {taken + 1}
    /\ UNCHANGED <<tables, holder, todo, fresh, caches>>

\* SaveOptionsBatch: all rows of the poll or, when the batch fails, none.
SaveOptionsBatch(p) ==
    /\ p \in rowsDue
    /\ rowsDue' = rowsDue \ {p}
    /\ chain' = chain \cup {p} \/ UNCHANGED chain
    /\ UNCHANGED <<pollVars, eventsDue, eventRows, holder, todo, fresh, caches>>

\* A mutant of BeginEvents: the leader may compare before it stores its rows.
BeginEventsEarly(p) ==
    /\ p \in eventsDue
    /\ holder = 0
    /\ eventsDue' = eventsDue \ {p}
    /\ holder' = p
    /\ todo' = Options
    /\ fresh' = {}
    /\ UNCHANGED <<pollVars, rowsDue, tables, caches>>

\* SaveOptionsAndOIEvents gets the mutex; the leader has stored its rows before.
BeginEvents(p) ==
    /\ p \in eventsDue
    /\ writer[p] = "leader" => p \notin rowsDue
    /\ holder = 0
    /\ eventsDue' = eventsDue \ {p}
    /\ holder' = p
    /\ todo' = Options
    /\ fresh' = {}
    /\ UNCHANGED <<pollVars, rowsDue, tables, caches>>

Newest(S) == {p \in S : \A q \in S : q <= p}

\* loadLastSnapshotState: the newest row of the session, if there is one.
StoredSnapshot(o) == {quote[p][o] : p \in Newest(chain)}

\* loadLastEventLTP: the price in the chain at the time of the newest event.
StoredEvent(o) ==
    UNION { {[ltp |-> quote[p][o].ltp] : p \in Newest({c \in chain : c <= e})} :
            e \in Newest({p \in Polls : <<p, o>> \in eventRows}) }

\* A mutant of Lookup: the cache is filled but never read.
LookupStored(cached, stored) == stored \cup {None}

\* What a pass of the loop may find: the cached value, else the stored one, else
\* (no row, or a failed load) nothing.
Lookup(cached, stored) ==
    IF cached # None THEN {cached} ELSE stored \cup {None}

\* What lastEventByKey keeps of the row an event came from.
EventPrice(q) == [ltp |-> q.ltp]

\* One pass of the loop, when no earlier quote is known: only the cache is filled.
FirstSight(o, q) ==
    /\ None \in Lookup(lastSnapshot[o], StoredSnapshot(o))
    /\ UNCHANGED <<lastEvent, fresh>>
    /\ ledger' = [ledger EXCEPT ![o] = RebaseOI(ledger[o], q.oi)]

\* One pass of the loop, against the earlier quote s: a change of open interest
\* becomes an event whose price change is taken since the last event, if known.
Compare(o, q, s) ==
    /\ s # None
    /\ s \in Lookup(lastSnapshot[o], StoredSnapshot(o))
    /\ LET base == IF lastSnapshot[o] = None THEN RebaseOI(ledger[o], s.oi) ELSE ledger[o]
       IN  \/ /\ q.oi = s.oi
              /\ ledger' = [ledger EXCEPT ![o] = base]
              /\ UNCHANGED <<lastEvent, fresh>>
           \/ /\ q.oi # s.oi
              /\ \E e \in Lookup(lastEvent[o], StoredEvent(o)) :
                    LET from == IF e = None THEN s.ltp ELSE e.ltp
                        paid == IF lastEvent[o] = None THEN RebaseLTP(base, from) ELSE base
                    IN  ledger' = [ledger EXCEPT ![o] = AddChange(paid, q.oi - s.oi, q.ltp - from)]
              /\ lastEvent' = [lastEvent EXCEPT ![o] = EventPrice(q)]
              /\ fresh' = fresh \cup {o}

CompareOption(o) ==
    /\ o \in todo
    /\ todo' = todo \ {o}
    /\ LET q == quote[holder][o]
       IN  /\ FirstSight(o, q) \/ \E s \in Lookup(lastSnapshot[o], StoredSnapshot(o)) : Compare(o, q, s)
           /\ lastSnapshot' = [lastSnapshot EXCEPT ![o] = q]
    /\ UNCHANGED <<pollVars, rowsDue, eventsDue, tables, holder>>

\* saveOIChangeEvents after the loop: all events of the poll or, on an error, none;
\* the caches keep what the loop put there.
EndEvents ==
    /\ holder # 0
    /\ todo = {}
    /\ eventRows' = eventRows \cup {<<holder, o>> : o \in fresh} \/ UNCHANGED eventRows
    /\ holder' = 0
    /\ fresh' = {}
    /\ UNCHANGED <<pollVars, rowsDue, eventsDue, chain, todo, caches>>

\* ResetOptionEventState, when the collectors start or stop; it takes the mutex.
ResetOptionEventState ==
    /\ holder = 0
    /\ lastSnapshot' = [o \in Options |-> None]
    /\ lastEvent' = [o \in Options |-> None]
    /\ ledger' = [o \in Options |-> NoSums]
    /\ UNCHANGED <<pollVars, rowsDue, eventsDue, tables, holder, todo, fresh>>

\* 9:15 of the next day: CurrentMarketSessionStartUTC moves, so the fallback
\* queries see none of the rows stored before.
NewSession ==
    /\ chain' = {}
    /\ eventRows' = {}
    /\ UNCHANGED <<pollVars, rowsDue, eventsDue, holder, todo, fresh, caches>>

\* The process dies: calls and caches are gone, the tables stay.
Restart ==
    /\ rowsDue' = {} /\ eventsDue' = {}
    /\ holder' = 0 /\ todo' = {} /\ fresh' = {}
    /\ lastSnapshot' = [o \in Options |-> None]
    /\ lastEvent' = [o \in Options |-> None]
    /\ ledger' = [o \in Options |-> NoSums]
    /\ UNCHANGED <<pollVars, tables>>

Next ==
    \/ \E w \in Writers : Poll(w)
    \/ \E p \in Polls : SaveOptionsBatch(p) \/ BeginEvents(p)
    \/ \E o \in Options : CompareOption(o)
    \/ EndEvents
    \/ ResetOptionEventState
    \/ NewSession
    \/ Restart

Spec == Init /\ [][Next]_vars

-----------------------------------------------------------------------------
(* Properties *)

\* The OI changes emitted for an option add up to the distance between the first
\* and the last open interest the cache has held: whatever the order in which the
\* goroutines of different polls run, and although two writers report the same
\* market, no move is counted twice and none is dropped while the cache lives.
OIConserved ==
    \A o \in Options : lastSnapshot[o] # None =>
        ledger[o].oiBase + ledger[o].oi = lastSnapshot[o].oi

\* Likewise the price changes since the first event add up to the price cached
\* with the last one, although polls without an OI change move the price too.
LTPConserved ==
    \A o \in Options : lastEvent[o] # None =>
        ledger[o].ltpBase + ledger[o].ltp = lastEvent[o].ltp

\* What the events say of an option, taken together, is what happened to it: both
\* sums hold at once, over one cache that the polls of two writers fill.
Conserved == OIConserved /\ LTPConserved

\* A reload hides a move: the leader stores its rows before it compares, so its
\* first comparison after a reset or restart finds its own row and emits nothing,
\* unless those rows failed or a newer poll's rows are already there.
ReloadHidesMove ==
    [][\A o \in Options :
          lastSnapshot[o] = None /\ o \in fresh' \ fresh /\ writer[holder] = "leader" =>
              holder \notin chain \cup rowsDue \/ \E p \in chain : p > holder]_vars
=============================================================================
