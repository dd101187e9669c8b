---------------------------- MODULE MCMarketRing ----------------------------
(* Instances of MarketRing for model checking.                             *)
EXTENDS MarketRing
=============================================================================
