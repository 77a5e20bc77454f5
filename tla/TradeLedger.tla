---------------------------- MODULE TradeLedger ----------------------------
(***************************************************************************)
(* What the processor promises about the trades it has seen, whatever the  *)
(* goroutines, the errors and the crashes do: a transaction is recorded    *)
(* once, by one of its trades; only that trade is counted in its wallet    *)
(* and alerted on, each once; only an alert on record is delivered; and    *)
(* the mark of what was processed only moves forward.                      *)
(***************************************************************************)
EXTENDS Integers

CONSTANTS
    Trade,
    Key        \* [Trade -> the transaction a trade belongs to]

VARIABLES
    recorded,  \* the trades on record
    counted,   \* how often each trade was added to its wallet
    alerted,   \* the rows of the alerts, each naming its trade
    delivered, \* how often the channel accepted an alert of each trade
    mark       \* the time up to which trades were processed

ledger == <<recorded, counted, alerted, delivered, mark>>

Init ==
    /\ recorded = {} /\ alerted = {}
    /\ counted = [t \in Trade |-> 0] /\ delivered = [t \in Trade |-> 0]
    /\ mark = 0

Record(t) ==
    /\ \A u \in recorded : Key[u] # Key[t]
    /\ recorded' = recorded \cup {t}
    /\ UNCHANGED <<counted, alerted, delivered, mark>>

Count(t) ==
    /\ t \in recorded
    /\ \A u \in Trade : Key[u] = Key[t] => counted[u] = 0
    /\ counted' = [counted EXCEPT ![t] = 1]
    /\ UNCHANGED <<recorded, alerted, delivered, mark>>

Alert(t) ==
    /\ t \in recorded
    /\ \A a \in alerted : Key[a.trade] # Key[t]
    /\ \E a \in alerted' : a.trade = t /\ alerted' = alerted \cup {a}
    /\ UNCHANGED <<recorded, counted, delivered, mark>>

Deliver(t) ==
    /\ delivered[t] = 0
    /\ \E a \in alerted : a.trade = t
    /\ delivered' = [delivered EXCEPT ![t] = 1]
    /\ UNCHANGED <<recorded, counted, alerted, mark>>

Advance ==
    /\ mark' \in Nat /\ mark' > mark
    /\ UNCHANGED <<recorded, counted, alerted, delivered>>

Next ==
    \/ \E t \in Trade : Record(t) \/ Count(t) \/ Alert(t) \/ Deliver(t)
    \/ Advance

Spec == Init /\ [][Next]_ledger
=============================================================================
