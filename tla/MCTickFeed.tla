------------------------------ MODULE MCTickFeed ------------------------------
EXTENDS TickFeed

\* 22024.90, 22025 and 22160 points: a move of two ticks of the exchange, which is
\* noise, across the middle of two strikes, and a jump beyond the tracked strikes.
MCPrices == {440498, 440500, 443200}
=============================================================================
