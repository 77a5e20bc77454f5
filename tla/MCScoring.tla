----------------------------- MODULE MCScoring -----------------------------
(***************************************************************************)
(* A small instance of Scoring.  w1 was funded two minutes before it makes *)
(* t1, t2 and t3, five minutes apart: t1 in m2, which stays open for ten   *)
(* days, t2 and t3 in m1 shortly before it closes.                         *)
(***************************************************************************)
EXTENDS Scoring

CONSTANTS t1, t2, t3, w1, m1, m2

MCProxyWallet == [t \in Trade |-> w1]
MCConditionID == [t \in Trade |-> IF t = t1 THEN m2 ELSE m1]
MCTimestamp == [t \in Trade |-> CASE t = t1 -> 1000000 [] t = t2 -> 1000300 [] OTHER -> 1000600]
MCFirstActivity == [w \in Wallet |-> 999880]

\* The volume of t3 alone is enough for a concentrated position and the highest score.
MCNotional == [t \in Trade |-> CASE t = t1 -> 1000 [] t = t2 -> 8000 [] OTHER -> 150000]
MCSide == [t \in Trade |-> IF t = t2 THEN "SELL" ELSE "BUY"]
MCPrice == [t \in Trade |-> IF t = t3 THEN 90 ELSE 50]

MCEndDate == [m \in {ConditionID[t] : t \in Trade} |-> IF m = m1 THEN 1004200 ELSE 1864000]
MCLiquidity == [m \in {ConditionID[t] : t \in Trade} |-> 100000]

\* No row, too few markets, and a high win rate.
MCStatsRows == {[total |-> 0, wins |-> 0], [total |-> 4, wins |-> 4], [total |-> 5, wins |-> 4]}

AllFaults == Call
=============================================================================
