-------------------------- MODULE MCRuntimeHistory --------------------------
(* RuntimeHistory over two days, with three events kept and two answered,   *)
(* while a second reader filters the same events.                           *)
EXTENDS RuntimeHistory, TLC

\* An answer about events depends on nothing that is remembered or stored of pairs, nor
\* one about pairs on an event; what may happen next to either does not, as there are
\* two changes, of which one is always new.
AnswerView ==
    <<instant, cycle.pc, cycle.at, handler, answer.source,
      IF handler.asks = "events"
      THEN <<cycle.event, rows, memoryVars, answer.list, recorded, shifted, crossed>>
      ELSE <<cycle.event = None, cycle.pairs, payload, snapshot, answer.pairs, unsaved>> >>
AnyChange == Permutations(Changes)
=============================================================================
