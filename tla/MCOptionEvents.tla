--------------------------- MODULE MCOptionEvents ---------------------------
(* OptionEvents on small quotes. *)
EXTENDS OptionEvents

OneOption == {"a"}
MCQuotes == [oi: 0..2, ltp: 0..1]
=============================================================================
