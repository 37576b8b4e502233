----------------------------- MODULE MCBacktest -----------------------------
(* Backtest on three polls of two strikes, and requests that between them    *)
(* use every exit, both sides, both folds, a window and a strike.            *)
EXTENDS Backtest

MCOptions == <<[strike |-> 100, type |-> "CE"], [strike |-> 100, type |-> "PE"], [strike |-> 150, type |-> "CE"]>>

Quote(ltp, oi) == [ltp |-> ltp, oi |-> oi]

\* Rising, falling and turning prices, both legs, one of them, the other strike alone.
MCBatches == {<<Quote(1, 2), Quote(2, 1), None>>, <<Quote(2, 1), Quote(1, 2), Quote(2, 2)>>,
              <<Quote(3, 2), Quote(3, 2), Quote(1, 1)>>, <<None, Quote(2, 2), Quote(3, 2)>>,
              <<Quote(2, 2), None, Quote(3, 1)>>, <<Quote(1, 1), Quote(1, 2), Quote(1, 2)>>}

MCEvents == {<<1, -1, None>>, <<-1, 1, 1>>}

Rule(match, conditions) == [match |-> match, conditions |-> conditions]
When(field, op, value) == [field |-> field, op |-> op, value |-> value]
Never == Rule("all", <<>>)

Plain == [type |-> "CE", strike |-> None, from |-> 1, to |-> 9, side |-> "BUY", entry |-> Never,
          exit |-> Never, target |-> 0, stop |-> 0, hold |-> 0, red |-> 0]

MCRequests ==
    { \* any strike, on the rows: both limits
      [Plain EXCEPT !.entry = Rule("all", <<When("ltp", ">=", 2)>>), !.target = 1, !.stop = 1],
      \* one strike: falls in a row
      [Plain EXCEPT !.strike = 100, !.entry = Rule("all", <<When("ltp", ">", 2), When("oi", "!=", 1)>>),
                    !.red = 2, !.side = "SELL"],
      \* one strike: exit by rule, after one fall, in a window
      [Plain EXCEPT !.strike = 100, !.entry = Rule("any", <<When("oi_change", ">", 0), When("ltp", "<", 2)>>),
                    !.exit = Rule("any", <<When("oi_change", "<", 0)>>), !.red = 1, !.to = 2],
      \* both legs of any strike: time
      [Plain EXCEPT !.entry = Rule("all", <<When("ce_ltp", "<=", 2), When("pe_oi", "<=", 2)>>), !.hold = 2, !.target = 2],
      \* both legs of one strike, trading the put
      [Plain EXCEPT !.type = "PE", !.strike = 100, !.side = "SELL", !.stop = 1,
                    !.entry = Rule("all", <<When("pe_ltp", ">", 1)>>),
                    !.exit = Rule("all", <<When("ce_oi_change", "==", 1), When("unknown", "==", 0)>>)] }
=============================================================================
