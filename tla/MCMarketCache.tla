--------------------------- MODULE MCMarketCache ---------------------------
(***************************************************************************)
(* Two trades of a market at a time, over the TTL, a request and what follows them.     *)
(***************************************************************************)
EXTENDS MarketCache

CONSTANTS g1, g2

AllFaults == {"GetMarketMap", "GammaAPI", "UpsertMarketMap"}
=============================================================================
