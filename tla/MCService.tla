----------------------------- MODULE MCService ------------------------------
(***************************************************************************)
(* A small instance of Service: w1 holds both sides of m1, so that its net *)
(* position may be zero.                                                   *)
(***************************************************************************)
EXTENDS Service

CONSTANTS t1, t2, w1, m1, yes, no, r1, r2

MCProxyWallet == [t \in Trade |-> w1]
MCConditionID == [t \in Trade |-> m1]
MCSide == [t \in Trade |-> "BUY"]
MCOutcome == [t \in Trade |-> IF t = t2 THEN no ELSE yes]
MCNotional == [t \in Trade |-> 1]
MCOutcomes == <<yes, no>>

\* Final prices, with which w1 wins or loses m1 as it has stored t2 or t1, and prices of a
\* market not settled yet.
MCPriceLists == {<<0, 95>>, <<94, 6>>}

AllFaults == Call
=============================================================================
