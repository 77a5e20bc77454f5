---------------------------- MODULE MCProcessor ----------------------------
(***************************************************************************)
(* Small instances of Processor.  All trades are made by one wallet in one *)
(* market and cost the same.  t2 and t3 happen in the same second: as      *)
(* fills of one transaction they share its hash.                           *)
(***************************************************************************)
EXTENDS Processor

CONSTANTS t1, t2, t3, h1, h2, w1, m1, amt

MCOneWallet == [t \in Trade |-> w1]
MCMarket == [t \in Trade |-> m1]
MCAmount == [t \in Trade |-> amt]

\* t2 and t3 in one second; or every trade in a second of its own.
MCSameSecond == [t \in Trade |-> IF t = t1 THEN 1 ELSE 2]
MCDistinctSeconds == [t \in Trade |-> CASE t = t1 -> 1 [] t = t2 -> 2 [] OTHER -> 3]

\* t2 and t3 share a transaction; or every hash is the derived one, which tells
\* trades of one wallet and one second apart only by their amount.
MCSharedHash == [t \in Trade |-> IF t = t1 THEN h1 ELSE h2]
MCDerivedHash == [t \in Trade |-> NoHash]

\* Every error but the two after which sendAlert goes on: those that end the pass or the
\* goroutine, some of them under the wallet's mutex, and the one that leads to a panic.
EarlyFaults == Call \ {"NetPosition", "GetLastAlert"}

\* Errors after which the trade is still stored, filtered or fetched again and the last
\* alert is known.
BenignFaults == {"GetTrades", "SetState", "UpdateWallet", "InsertAlert", "Send"}

\* Errors that do not keep a trade from being fetched and stored or filtered, one for each
\* part of the way.
LateFaults == {"SetState", "GammaAPI", "NetPosition", "GetLastAlert"}
=============================================================================
