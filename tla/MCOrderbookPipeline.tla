------------------------- MODULE MCOrderbookPipeline -------------------------
(* Values of the constants of OrderbookPipeline for TLC. *)
EXTENDS OrderbookPipeline, TLC

CONSTANTS m1, m2

NoMarkets == {}
OneMarket == {m1}
TwoMarkets == {m1, m2}
MarketSymmetry == Permutations(Markets)
=============================================================================
