---------------------------- MODULE MCMarketFeeds ----------------------------
(* Values of the constants of MarketFeeds for TLC. *)
EXTENDS MarketFeeds, TLC

MarketSymmetry == Permutations(Markets)
=============================================================================
