------------------------------ MODULE MCPipeline ------------------------------
EXTENDS Pipeline

\* Prices over three levels, interest up and down, volume that grows past BigVolume.
MCQuotes == {[ltp |-> 10, oi |-> 1, vol |-> 0],
             [ltp |-> 11, oi |-> 2, vol |-> 8],
             [ltp |-> 12, oi |-> 1, vol |-> 9],
             [ltp |-> 13, oi |-> 3, vol |-> 9]}
=============================================================================
