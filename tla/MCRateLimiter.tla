--------------------------- MODULE MCRateLimiter ---------------------------
(***************************************************************************)
(* A small instance of RateLimiter: four calls compete.                    *)
(***************************************************************************)
EXTENDS RateLimiter

CONSTANTS c1, c2, c3, c4
=============================================================================
