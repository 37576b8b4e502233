------------------------------ MODULE Backtest ------------------------------
(***************************************************************************)
(* The backtest engine (internal/backtest/engine.go).  A request names an  *)
(* option type, perhaps a strike, and rules; Run loads the rows the        *)
(* collector has stored, then the changes of open interest, and folds a    *)
(* position over them.  A rule that looks at both legs makes the fold run  *)
(* over ticks (both legs of one strike at one time) instead of rows.       *)
(*                                                                         *)
(* A poll of the collector has one time, a minute of the day.  Its rows    *)
(* and its changes are inserted by two goroutines into two tables: in any  *)
(* order, before or after those of other polls, or not at all.  Quantity   *)
(* and profit are multiples of the points; bid, ask and volume are zeroed  *)
(* by applyOIEvents before any rule sees them.                             *)
(***************************************************************************)
EXTENDS Integers, Sequences, SequencesExt

CONSTANTS Options,    \* the options stored: a sequence of [strike, type], sorted as loadRows sorts
          Batches,    \* what a poll may find: of every option [ltp, oi] or None
          Events,     \* changes of open interest it may find: of every option a number or None
          Requests,   \* requests the page may send
          MaxMinutes, \* bound: polls of the day
          None        \* no quote, no event, no strike filter, no position

ASSUME BacktestAssumption ==
    /\ MaxMinutes \in Nat
    /\ Options \in Seq([strike : Int, type : {"CE", "PE"}])
    /\ Batches \subseteq [DOMAIN Options -> [ltp : Int, oi : Int] \cup {None}]
    /\ Events \subseteq [DOMAIN Options -> Int \cup {None}]
    /\ None \notin [entryTime : Nat, strike : Int, type : {r.type : r \in Requests}, entryPrice : Int]
    /\ \A i, j \in DOMAIN Options : i < j =>
          \/ Options[i].strike < Options[j].strike
          \/ Options[i].strike = Options[j].strike /\ Options[i].type = "CE" /\ Options[j].type = "PE"

VARIABLES chain,     \* option_chain: minute -> option -> row, or None
          oiEvents,  \* option_oi_change_events: minute -> option -> change, or None
          req,       \* the request
          running,   \* Run is between its two queries
          fetched,   \* what the first one has returned, all of the window
          looked,    \* history: the day Run last looked at
          loaded,    \* the quotes it made of it
          trades     \* what it answered

storeVars == <<chain, oiEvents>>
answerVars == <<looked, loaded, trades>>
backtestVars == <<storeVars, req, running, fetched, answerVars>>

Minutes == 1..MaxMinutes
Nothing == [o \in DOMAIN Options |-> None]

-----------------------------------------------------------------------------
(* Loading *)

\* The elements of a sequence at some indexes, in their order.
Chosen(s, indexes) ==
    LET n == Len(s)
        chosen[i \in 0..n] ==
          IF i = 0 THEN <<>>
          ELSE IF i \in indexes THEN Append(chosen[i - 1], s[i]) ELSE chosen[i - 1]
    IN  chosen[n]

CrossFields == {"ce_ltp", "pe_ltp", "ce_oi", "pe_oi", "ce_oi_change", "pe_oi_change"}

UsesCrossLegFields(r) ==
    \E rule \in {r.entry, r.exit} :
        \E i \in DOMAIN rule.conditions : rule.conditions[i].field \in CrossFields

\* The day as rows and changes show it: a change without a row is not seen.
Joined(someRows, changes) ==
    [t \in Minutes |-> [o \in DOMAIN Options |->
        IF someRows[t][o] = None THEN None
        ELSE [ltp |-> someRows[t][o].ltp, oi |-> someRows[t][o].oi, event |-> changes[t][o]]]]

\* applyOIEvents: the change is that of the event stored at the same time, else 0.
Change(q) == IF q.event = None THEN 0 ELSE q.event

\* The row of the option o at the minute t.
Row(day, t, o) ==
    LET q == day[t][o]
    IN  IF q = None THEN None
        ELSE [time |-> t, strike |-> Options[o].strike, type |-> Options[o].type,
              ltp |-> q.ltp, oi |-> q.oi, oi_change |-> Change(q)]

Stored(day) == [i \in 1..(Len(day) * Len(Options)) |->
                  Row(day, ((i - 1) \div Len(Options)) + 1, ((i - 1) % Len(Options)) + 1)]

\* The WHERE clause: window, strike if one is asked for, and the type unless both
\* legs are needed.
Selected(r, row) ==
    /\ row # None
    /\ row.time \in r.from..r.to
    /\ r.strike = None \/ row.strike = r.strike
    /\ UsesCrossLegFields(r) \/ row.type = r.type

\* A mutant of LoadRows: the newest rows first.
LoadNewestFirst(r, day) ==
    Reverse(Chosen(Stored(day), {i \in DOMAIN Stored(day) : Selected(r, Stored(day)[i])}))

\* loadRows: in the order of time, strike and type.
LoadRows(r, day) ==
    LET stored == Stored(day)
    IN  Chosen(stored, {i \in DOMAIN stored : Selected(r, stored[i])})

\* fieldValue: a field it does not know is 0.
FieldValue(field, row) ==
    IF field \in {"ltp", "oi", "oi_change", "strike"} THEN row[field] ELSE 0

\* A quote is what one turn of either loop looks at: time, strike, type and price
\* of the option that may be traded, and what each field resolves to.
RowQuote(row) ==
    [time |-> row.time, strike |-> row.strike, type |-> row.type, ltp |-> row.ltp,
     field |-> [f \in CrossFields \cup {"ltp", "oi", "oi_change", "strike"} |-> FieldValue(f, row)]]

\* fieldResolverFromTick: the field of a leg that is missing is resolved, like any
\* other field, on the traded leg, which does not know it.
TickQuote(ce, pe, type) ==
    LET traded == IF type = "PE" THEN pe ELSE ce
        Leg(leg, field) == IF leg = None THEN 0 ELSE FieldValue(field, leg)
    IN  [RowQuote(traded) EXCEPT
            !.type = type,
            !.field = [@ EXCEPT !["ce_ltp"] = Leg(ce, "ltp"), !["pe_ltp"] = Leg(pe, "ltp"),
                                !["ce_oi"] = Leg(ce, "oi"), !["pe_oi"] = Leg(pe, "oi"),
                                !["ce_oi_change"] = Leg(ce, "oi_change"),
                                !["pe_oi_change"] = Leg(pe, "oi_change")]]

\* buildTicks: the rows of one time and strike become one tick, kept where its
\* first row was.
Starts(rows, i) == i = 1 \/ rows[i - 1].time # rows[i].time \/ rows[i - 1].strike # rows[i].strike

\* The tick that starts at row i.  rowFor is None when the traded leg is not among its rows.
TickAt(rows, type, i) ==
    LET both == i < Len(rows) /\ ~Starts(rows, i + 1)
        ce == IF rows[i].type = "CE" THEN rows[i] ELSE None
        pe == IF rows[i].type = "PE" THEN rows[i] ELSE IF both THEN rows[i + 1] ELSE None
    IN  IF (IF type = "PE" THEN pe ELSE ce) = None THEN None ELSE TickQuote(ce, pe, type)

BuildTicks(rows, type) ==
    Chosen([i \in DOMAIN rows |-> TickAt(rows, type, i)], {i \in DOMAIN rows : Starts(rows, i)})

-----------------------------------------------------------------------------
(* Rules *)

MatchesCondition(c, q) ==
    LET value == IF c.field \in DOMAIN q.field THEN q.field[c.field] ELSE 0
    IN  CASE c.op = ">" -> value > c.value
          [] c.op = ">=" -> value >= c.value
          [] c.op = "<" -> value < c.value
          [] c.op = "<=" -> value <= c.value
          [] c.op = "==" -> value = c.value
          [] c.op = "!=" -> value # c.value
          [] OTHER -> FALSE

\* A rule without conditions matches nothing.
MatchesRule(rule, q) ==
    /\ rule.conditions # <<>>
    /\ IF rule.match = "any"
       THEN \E i \in DOMAIN rule.conditions : MatchesCondition(rule.conditions[i], q)
       ELSE \A i \in DOMAIN rule.conditions : MatchesCondition(rule.conditions[i], q)

PointsMoved(side, entry, current) == IF side = "SELL" THEN entry - current ELSE current - entry

\* The five exits, the first that applies.
ExitReason(r, open, q, reds) ==
    LET points == PointsMoved(r.side, open.entryPrice, q.ltp)
    IN  CASE r.target > 0 /\ points >= r.target -> "TARGET"
          [] r.stop > 0 /\ points <= -r.stop -> "STOP_LOSS"
          [] r.hold > 0 /\ q.time - open.entryTime >= r.hold -> "TIME_EXIT"
          [] MatchesRule(r.exit, q) -> "RULE_EXIT"
          [] r.red > 0 /\ reds >= r.red -> "RED_LTP"
          [] OTHER -> "none"

-----------------------------------------------------------------------------
(* The fold *)

Flat == [open |-> None, reds |-> 0, previous |-> None, closed |-> <<>>]

Opened(s, q) ==
    [s EXCEPT !.open = [entryTime |-> q.time, strike |-> q.strike, type |-> q.type, entryPrice |-> q.ltp],
              !.reds = 0, !.previous = q.ltp]

ClosedTrade(r, open, q, reason) ==
    [entryTime |-> open.entryTime, strike |-> open.strike, type |-> open.type,
     entryPrice |-> open.entryPrice, exitTime |-> q.time, exitPrice |-> q.ltp,
     points |-> PointsMoved(r.side, open.entryPrice, q.ltp), reason |-> reason]

\* A mutant of Reds: every price below the entry is a fall.
RedsBelowEntry(r, s, q) == IF r.red = 0 THEN s.reds ELSE IF q.ltp < s.open.entryPrice THEN s.reds + 1 ELSE 0

\* The falls in a row, counted only when the request asks for it.
Reds(r, s, q) == IF r.red = 0 THEN s.reds ELSE IF q.ltp < s.previous THEN s.reds + 1 ELSE 0

\* simulate skips the rows of other options while a position is open;
\* simulateTicks prices it at the next tick, whatever its strike.
Follows(r, open, q) == UsesCrossLegFields(r) \/ (q.strike = open.strike /\ q.type = open.type)

\* One turn of the loop of simulate, and of simulateTicks.
Advance(r, s, q) ==
    IF q = None THEN s
    ELSE IF s.open = None THEN IF MatchesRule(r.entry, q) THEN Opened(s, q) ELSE s
    ELSE IF ~Follows(r, s.open, q) THEN s
    ELSE LET reds == Reds(r, s, q)
             reason == ExitReason(r, s.open, q, reds)
         IN  IF reason = "none" THEN [s EXCEPT !.reds = reds, !.previous = q.ltp]
             ELSE [Flat EXCEPT !.closed = Append(s.closed, ClosedTrade(r, s.open, q, reason))]

\* A mutant of Finish: the open position is dropped.
FinishOpen(r, s, quotes) == s.closed

\* A position still open is closed at the last row or tick, if that one prices it.
Finish(r, s, quotes) ==
    LET last == Last(quotes)
    IN  IF s.open = None \/ quotes = <<>> THEN s.closed
        ELSE IF last = None THEN s.closed
        ELSE IF ~Follows(r, s.open, last) THEN s.closed
        ELSE Append(s.closed, ClosedTrade(r, s.open, last, "SESSION_CLOSE"))

QuotesOf(r, day) ==
    LET rows == LoadRows(r, day)
    IN  IF UsesCrossLegFields(r) THEN BuildTicks(rows, r.type)
        ELSE [i \in DOMAIN rows |-> RowQuote(rows[i])]

Simulate(r, quotes) ==
    LET state[i \in 0..Len(quotes)] == IF i = 0 THEN Flat ELSE Advance(r, state[i - 1], quotes[i])
    IN  Finish(r, state[Len(quotes)], quotes)

-----------------------------------------------------------------------------

BacktestInit ==
    /\ chain = [t \in Minutes |-> Nothing] /\ oiEvents = chain
    /\ req \in Requests
    /\ running = FALSE /\ fetched = chain
    /\ looked = Joined(fetched, oiEvents) /\ loaded = <<>> /\ trades = <<>>

\* The collector's poll of the minute t: SaveOptionsBatch inserts its rows ...
SaveOptionsBatch(t) ==
    /\ chain[t] = Nothing
    /\ \E batch \in Batches : chain' = [chain EXCEPT ![t] = batch]
    /\ UNCHANGED <<oiEvents, req, running, fetched, answerVars>>

\* ... and SaveOptionsAndOIEvents the changes, each whenever its goroutine gets to it.
SaveOIEvents(t) ==
    /\ oiEvents[t] = Nothing
    /\ \E changes \in Events : oiEvents' = [oiEvents EXCEPT ![t] = changes]
    /\ UNCHANGED <<chain, req, running, fetched, answerVars>>

\* Engine.Run: loadRows queries the rows ...
QueryRows ==
    /\ ~running
    /\ running' = TRUE /\ fetched' = chain
    /\ UNCHANGED <<storeVars, req, answerVars>>

\* ... and, through applyOIEvents, the changes; then the request is answered.
Run ==
    /\ running
    /\ running' = FALSE /\ fetched' = [t \in Minutes |-> Nothing]
    /\ looked' = Joined(fetched, oiEvents)
    /\ loaded' = QuotesOf(req, looked')
    /\ trades' = Simulate(req, loaded')
    /\ UNCHANGED <<storeVars, req>>

BacktestNext ==
    \/ \E t \in Minutes : SaveOptionsBatch(t) \/ SaveOIEvents(t)
    \/ QueryRows \/ Run

BacktestSpec == BacktestInit /\ [][BacktestNext]_backtestVars

-----------------------------------------------------------------------------
(* What a backtest is, said without the fold *)

Quoted(j) == loaded[j] # None

\* The quotes that price a position entered at e: those of its own option, or, when
\* both legs are looked at and no strike is asked for, of any strike.
AnyStrikePrices == UsesCrossLegFields(req) /\ req.strike = None
SameOption(e, j) == loaded[j].strike = loaded[e].strike /\ loaded[j].type = loaded[e].type
Pricing(e) == {j \in e..Len(loaded) : Quoted(j) /\ (AnyStrikePrices \/ SameOption(e, j))}

\* How often in a row, up to j, the price was below the one before.
FallsUpTo(e, j) ==
    LET seen == {k \in Pricing(e) : k <= j}
        Fell(k) == loaded[k].ltp < loaded[Max({i \in seen : i < k})].ltp
    IN  Cardinality({i \in seen \ {e} : \A k \in seen : k >= i => Fell(k)})

ReasonAt(e, j) ==
    LET open == [entryTime |-> loaded[e].time, entryPrice |-> loaded[e].ltp]
    IN  ExitReason(req, open, loaded[j], FallsUpTo(e, j))

\* Where a position entered at e is left, and why: at the first reason to, else at
\* the last quote if that one prices it, else nowhere.
LeavesAt(e) ==
    LET due == {j \in Pricing(e) \ {e} : ReasonAt(e, j) # "none"}
    IN  IF due # {} THEN {<<Min(due), ReasonAt(e, Min(due))>>}
        ELSE {<<j, "SESSION_CLOSE">> : j \in Pricing(e) \cap {Len(loaded)}}

\* Where a position may be entered after the quote i.
Matches(i) == {j \in (i + 1)..Len(loaded) : Quoted(j) /\ MatchesRule(req.entry, loaded[j])}

EntryOf(t) == CHOOSE j \in DOMAIN loaded :
    Quoted(j) /\ loaded[j].time = t.entryTime /\ loaded[j].strike = t.strike /\ loaded[j].type = t.type

-----------------------------------------------------------------------------
(* Properties *)

\* simulate and simulateTicks answer what was asked for: each trade is entered at
\* the first match after the one before was left, and left at the first quote that
\* gives a reason to, for the first reason in the engine's order.
TradesAsAsked ==
    \A i \in DOMAIN trades :
        LET t == trades[i]
            e == EntryOf(t)
        IN  /\ \E x \in LeavesAt(e) : /\ t.exitTime = loaded[x[1]].time
                                      /\ t.exitPrice = loaded[x[1]].ltp
                                      /\ t.reason = x[2]
            /\ IF i = 1 THEN e = Min(Matches(0))
               ELSE \E x \in LeavesAt(EntryOf(trades[i - 1])) : e = Min(Matches(x[1]))

\* Every match of the entry rule lies in a trade of the answer, unless the answer
\* ends with a quote of another option or a tick without the traded leg: then the
\* position that is still open is not among the trades, nor in the summary.
NoMatchLost ==
    \A j \in Matches(0) :
        \/ \E i \in DOMAIN trades : loaded[j].time \in trades[i].entryTime..trades[i].exitTime
        \/ ~Quoted(Len(loaded))
        \/ req.strike = None /\ ~UsesCrossLegFields(req)

\* A trade that was left at its exit depends on no row or change of a later time: two
\* answers to a request agree on it whatever was stored in between, in whatever order,
\* as long as it was all of minutes after the exit.  What arrives late of an earlier
\* minute may undo a trade already answered.
NoLookAhead ==
    [][\A i \in DOMAIN trades :
          /\ trades[i].reason # "SESSION_CLOSE"
          /\ \A t \in 1..trades[i].exitTime : looked'[t] = looked[t]
          => i \in DOMAIN trades' /\ trades'[i] = trades[i]]_backtestVars
=============================================================================
