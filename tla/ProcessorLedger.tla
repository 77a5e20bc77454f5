-------------------------- MODULE ProcessorLedger --------------------------
(***************************************************************************)
(* Processor implements TradeLedger, for every set of trades, number of    *)
(* workers, page limit, set of failing calls and number of crashes.        *)
(***************************************************************************)
EXTENDS ProcessorProofs

USE DEF dbVars, mainVars, procVars, histVars

\* Between InsertTrade and InsertAlert.
Unalerted == {"updateWallet", "netGet", "netFind", "netWrite", "cooldown", "insertAlert"}

\* A goroutine past InsertTrade has its row and, before InsertAlert, no alert; alerts are
\* of stored trades, one each, and exist before they are sent.
AlertInv ==
    /\ \A t \in Trade : pc[t] \in Unalerted =>
         t \in tradesSeen /\ \A a \in alerts : a.trade # t
    /\ \A t \in Trade : pc[t] = "send" =>
         delivered[t] = 0 /\ \E a \in alerts : a.trade = t
    /\ \A a \in alerts : a.trade \in tradesSeen
    /\ \A a, b \in alerts : a.trade = b.trade => a = b
    /\ \A t \in Trade : delivered[t] \in {0, 1}
    /\ \A t \in Trade : delivered[t] = 1 => \E a \in alerts : a.trade = t

\* What the actions that neither store, alert nor deliver leave alone.
AlertFrame ==
    /\ UNCHANGED <<tradesSeen, alerts, delivered>>
    /\ \A u \in Trade : pc'[u] \in Unalerted => pc[u] \in Unalerted
    /\ \A u \in Trade : pc'[u] = "send" => pc[u] = "send"

\* The polling pass, the environment and a crash do none of it.
LEMMA AlertMain ==
    ASSUME TypeOK, ProcessTrades \/ (\E t \in Trade : Publish(t)) \/ Tick \/ Crash
    PROVE  AlertFrame
<1> USE DEF TypeOK, AlertFrame, Unalerted
<1>1. CASE GetState \/ FetchTrades \/ SetCheckpoint
  BY <1>1 DEF GetState, FetchTrades, SetCheckpoint
<1>2. CASE (\E t \in Trade : Publish(t)) \/ Tick
  BY <1>2 DEF Publish, Tick
<1>3. CASE Crash
  BY <1>3 DEF Crash, LoseMemory
<1>4. QED
  BY <1>1, <1>2, <1>3 DEF ProcessTrades

\* Of the calls of processTrade only InsertTrade, InsertAlert and SendAlert do.
LEMMA AlertOther ==
    ASSUME TypeOK, NEW t \in Trade, processTrade(t),
           ~InsertTrade(t), ~InsertAlert(t), ~SendAlert(t)
    PROVE  AlertFrame
<1> USE DEF TypeOK, AlertFrame, Unalerted, Goto, Return, GotWallet
<1>1. CASE AcquireWorker(t) \/ HasTradeSeen(t) \/ ResolveMarket(t)
  BY <1>1 DEF AcquireWorker, HasTradeSeen, ResolveMarket
<1>2. CASE GetWallet(t) \/ LockWallet(t) \/ RecheckWallet(t) \/ CreateWallet(t)
  BY <1>2 DEF GetWallet, LockWallet, RecheckWallet, CreateWallet
<1>3. CASE UpdateWallet(t) \/ NetGet(t) \/ NetFind(t) \/ NetWrite(t) \/ CheckCooldown(t)
  BY <1>3 DEF UpdateWallet, NetGet, NetFind, NetWrite, CheckCooldown
<1>4. CASE Panic(t)
  BY <1>4 DEF Panic, LoseMemory
<1>5. QED
  BY <1>1, <1>2, <1>3, <1>4 DEF processTrade

\* A step keeps the trade stored before its alert, and the alert before its delivery.
LEMMA AlertStep == TypeOK /\ DedupInv /\ AlertInv /\ [Next]_vars => AlertInv'
<1> SUFFICES ASSUME TypeOK, DedupInv, AlertInv, [Next]_vars PROVE AlertInv'
  OBVIOUS
<1>1. ASSUME NEW t \in Trade, InsertTrade(t) PROVE AlertInv'
  <2>1. alerts' = alerts /\ delivered' = delivered /\ \A u \in Trade \ {t} : pc'[u] = pc[u]
    BY <1>1 DEF InsertTrade, Goto, Return, TypeOK
  <2>2. \/ tradesSeen' = tradesSeen \cup {t} /\ t \notin tradesSeen /\ pc'[t] = "updateWallet"
        \/ tradesSeen' = tradesSeen /\ pc'[t] = "idle"
    BY <1>1 DEF InsertTrade, Goto, Return, TypeOK, HasRow, SameHash
  <2>3. QED
    BY <2>1, <2>2 DEF AlertInv, Unalerted
<1>2. ASSUME NEW t \in Trade, InsertAlert(t) PROVE AlertInv'
  <2>1. /\ pc[t] = "insertAlert" /\ tradesSeen' = tradesSeen /\ delivered' = delivered
        /\ \A u \in Trade \ {t} : pc'[u] = pc[u]
    BY <1>2 DEF InsertAlert, Goto, Return, TypeOK
  <2>2. t \in tradesSeen /\ (\A a \in alerts : a.trade # t) /\ delivered[t] = 0
    BY <2>1 DEF AlertInv, Unalerted
  <2>3. CASE alerts' = alerts \cup {AlertRow(t)} /\ Goto(t, "send")
    <3>1. pc'[t] = "send"
      BY <2>3 DEF Goto, TypeOK
    <3>2. PICK r : r.trade = t /\ alerts' = alerts \cup {r}
      BY <2>3, AlertRowType
    <3>3. QED
      BY <2>1, <2>2, <3>1, <3>2 DEF AlertInv, Unalerted
  <2>4. CASE alerts' = alerts /\ Return(t)
    <3>1. pc'[t] = "idle"
      BY <2>4 DEF Return, Goto, TypeOK
    <3>2. QED
      BY <2>1, <2>4, <3>1 DEF AlertInv, Unalerted
  <2>5. QED
    BY <1>2, <2>3, <2>4 DEF InsertAlert
<1>3. ASSUME NEW t \in Trade, SendAlert(t) PROVE AlertInv'
  <2>1. /\ tradesSeen' = tradesSeen /\ alerts' = alerts
        /\ delivered' = delivered \/ delivered' = [delivered EXCEPT ![t] = @ + 1]
        /\ pc[t] = "send" /\ pc'[t] = "idle" /\ \A u \in Trade \ {t} : pc'[u] = pc[u]
    BY <1>3 DEF SendAlert, Return, Goto, TypeOK
  <2>2. delivered[t] = 0 /\ \E a \in alerts : a.trade = t
    BY <2>1 DEF AlertInv
  <2>3. delivered'[t] \in {0, 1} /\ \A u \in Trade \ {t} : delivered'[u] = delivered[u]
    BY <2>1, <2>2 DEF TypeOK
  <2>4. QED
    BY <2>1, <2>2, <2>3 DEF AlertInv, Unalerted
<1>4. CASE AlertFrame
  BY <1>4 DEF AlertFrame, AlertInv
<1>5. CASE UNCHANGED vars
  BY <1>5 DEF vars, AlertInv
<1>6. QED
  BY <1>1, <1>2, <1>3, <1>4, <1>5, AlertMain, AlertOther DEF Next

LedgerInv == TypeOK /\ DedupInv /\ PassInv /\ AlertInv

\* The strengthened invariant holds in every reachable state.
LEMMA LedgerInvariant == Spec => []LedgerInv
<1>1. Init => DedupInv /\ AlertInv
  BY DEF Init, DedupInv, AlertInv, Unalerted
<1>2. TypeOK /\ DedupInv /\ AlertInv /\ [Next]_vars => DedupInv' /\ AlertInv'
  BY DedupStep, AlertStep
<1>3. Spec => [](TypeOK /\ PassInv)
  BY PassInvariant
<1>4. QED
  BY <1>1, <1>2, <1>3, PTL DEF Spec, LedgerInv

\* No transaction is alerted on twice, and no alert leaves without its row.
THEOREM AlertedOncePerHash == Spec => []AlertedOnce
<1>1. LedgerInv => AlertedOnce
  BY DEF LedgerInv, DedupInv, AlertInv, AlertedOnce, TypeOK
<1>2. QED
  BY <1>1, LedgerInvariant, PTL

-----------------------------------------------------------------------------
(***************************************************************************)
(* The refinement.                                                         *)
(***************************************************************************)
\* The ledger's key of a trade is its hash.
LEMMA KeyIsHash ==
    ASSUME NEW t \in Trade, NEW u \in Trade
    PROVE  ([x \in Trade |-> calculateTradeHash(x)][t] = [x \in Trade |-> calculateTradeHash(x)][u])
             <=> SameHash(t, u)
BY DEF SameHash

\* The initial state is the empty ledger.
LEMMA LedgerInit == Init => Ledger!Init
BY DEF Init, Ledger!Init

\* Outside of InsertTrade, UpdateWallet, InsertAlert, SendAlert and SetCheckpoint the
\* ledger does not change.
LEMMA LedgerFrame ==
    ASSUME DedupFrame, AlertFrame, checkpoint' = checkpoint
    PROVE  UNCHANGED Ledger!ledger
BY DEF DedupFrame, AlertFrame, Ledger!ledger

\* Storing a trade records its transaction, or leaves the ledger alone.
LEMMA LedgerInsert ==
    ASSUME LedgerInv, NEW t \in Trade, InsertTrade(t)
    PROVE  Ledger!Record(t) \/ UNCHANGED Ledger!ledger
<1>1. UNCHANGED <<applied, alerts, delivered, checkpoint>>
  BY DEF InsertTrade
<1>2. CASE tradesSeen' = tradesSeen
  BY <1>1, <1>2 DEF Ledger!ledger
<1>3. CASE ~HasRow(t) /\ tradesSeen' = tradesSeen \cup {t}
  <2>1. \A u \in tradesSeen : u \in Trade /\ ~SameHash(u, t)
    BY <1>3 DEF HasRow, SameHash, LedgerInv, TypeOK
  <2>2. QED
    BY <1>1, <1>3, <2>1, KeyIsHash DEF Ledger!Record
<1>4. QED
  BY <1>2, <1>3 DEF InsertTrade

\* Updating the wallet counts the recorded trade of a transaction, for the first time.
LEMMA LedgerCount ==
    ASSUME LedgerInv, NEW t \in Trade, UpdateWallet(t)
    PROVE  Ledger!Count(t) \/ UNCHANGED Ledger!ledger
<1>1. UNCHANGED <<tradesSeen, alerts, delivered, checkpoint>>
  BY DEF UpdateWallet
<1>2. t \in tradesSeen /\ applied[t] = 0 /\ applied \in [Trade -> Nat]
  BY DEF UpdateWallet, LedgerInv, DedupInv, TypeOK
<1>3. CASE applied' = applied
  BY <1>1, <1>3 DEF Ledger!ledger
<1>4. CASE applied' = [applied EXCEPT ![t] = @ + 1]
  <2>1. applied' = [applied EXCEPT ![t] = 1]
    BY <1>2, <1>4
  <2>2. \A u \in Trade : SameHash(u, t) => applied[u] = 0
    BY <1>2 DEF LedgerInv, DedupInv
  <2>3. QED
    BY <1>1, <1>2, <2>1, <2>2, KeyIsHash DEF Ledger!Count
<1>5. QED
  BY <1>3, <1>4 DEF UpdateWallet

\* An alert is of a recorded trade, whose transaction had none.
LEMMA LedgerAlert ==
    ASSUME LedgerInv, NEW t \in Trade, InsertAlert(t)
    PROVE  Ledger!Alert(t) \/ UNCHANGED Ledger!ledger
<1>1. UNCHANGED <<tradesSeen, applied, delivered, checkpoint>>
  BY DEF InsertAlert
<1>2. CASE alerts' = alerts
  BY <1>1, <1>2 DEF Ledger!ledger
<1>3. CASE alerts' = alerts \cup {AlertRow(t)}
  <2>1. t \in tradesSeen /\ \A a \in alerts : a.trade # t
    BY DEF InsertAlert, LedgerInv, AlertInv, Unalerted
  <2>2. \A a \in alerts : a.trade \in Trade /\ ~SameHash(a.trade, t)
    BY <2>1 DEF LedgerInv, DedupInv, AlertInv, TypeOK
  <2>3. \E a \in alerts' : a.trade = t /\ alerts' = alerts \cup {a}
    <3>1. AlertRow(t) \in alerts' /\ AlertRow(t).trade = t
      BY <1>3, AlertRowType DEF LedgerInv
    <3>2. QED
      BY <1>3, <3>1
  <2>4. QED
    BY <1>1, <2>1, <2>2, <2>3, KeyIsHash DEF Ledger!Alert
<1>4. QED
  BY <1>2, <1>3 DEF InsertAlert

\* What is sent is an alert on record, for the first time.
LEMMA LedgerDeliver ==
    ASSUME LedgerInv, NEW t \in Trade, SendAlert(t)
    PROVE  Ledger!Deliver(t) \/ UNCHANGED Ledger!ledger
<1>1. UNCHANGED <<tradesSeen, applied, alerts, checkpoint>>
  BY DEF SendAlert
<1>2. delivered[t] = 0 /\ \E a \in alerts : a.trade = t
  BY DEF SendAlert, LedgerInv, AlertInv
<1>3. delivered' = delivered \/ delivered' = [delivered EXCEPT ![t] = 1]
  BY <1>2 DEF SendAlert
<1>4. QED
  BY <1>1, <1>2, <1>3 DEF Ledger!Deliver, Ledger!ledger

\* Every step of the processor is a step of the ledger or leaves it alone.
LEMMA LedgerStep == LedgerInv /\ [Next]_vars => [Ledger!Next]_(Ledger!ledger)
<1> SUFFICES ASSUME LedgerInv, [Next]_vars PROVE Ledger!Next \/ UNCHANGED Ledger!ledger
  OBVIOUS
<1>a. TypeOK
  BY DEF LedgerInv
<1>1. CASE SetCheckpoint
  <2>1. UNCHANGED <<tradesSeen, applied, alerts, delivered>>
    BY <1>1 DEF SetCheckpoint
  <2>2. checkpoint' >= checkpoint /\ checkpoint \in Nat /\ checkpoint' \in Nat
    BY <1>a, PassStep, TypeStep DEF LedgerInv, TypeOK
  <2>3. QED
    BY <2>1, <2>2 DEF Ledger!Next, Ledger!Advance, Ledger!ledger
<1>2. CASE GetState \/ FetchTrades \/ (\E t \in Trade : Publish(t)) \/ Tick \/ Crash
  <2>1. checkpoint' = checkpoint
    BY <1>2 DEF GetState, FetchTrades, Publish, Tick, Crash
  <2>2. QED
    BY <1>a, <1>2, <2>1, LedgerFrame, DedupMain, AlertMain DEF ProcessTrades
<1>3. ASSUME NEW t \in Trade, processTrade(t) PROVE Ledger!Next \/ UNCHANGED Ledger!ledger
  <2>1. CASE InsertTrade(t) \/ UpdateWallet(t) \/ InsertAlert(t) \/ SendAlert(t)
    BY <2>1, LedgerInsert, LedgerCount, LedgerAlert, LedgerDeliver DEF Ledger!Next
  <2>2. CASE ~(InsertTrade(t) \/ UpdateWallet(t) \/ InsertAlert(t) \/ SendAlert(t))
    BY <1>a, <1>3, <2>2, LedgerFrame, DedupOther, AlertOther, PassFrame
  <2>3. QED
    BY <2>1, <2>2
<1>4. CASE UNCHANGED vars
  BY <1>4 DEF vars, Ledger!ledger
<1>5. QED
  BY <1>1, <1>2, <1>3, <1>4 DEF Next, ProcessTrades

\* The processor implements the ledger: no interleaving of passes and goroutines, no
\* error and no crash makes it do what TradeLedger forbids.
THEOREM ProcessorImplementsLedger == Spec => ImplementsLedger
<1>1. LedgerInv /\ [Next]_vars => [Ledger!Next]_(Ledger!ledger)
  BY LedgerStep
<1>2. QED
  BY <1>1, LedgerInit, LedgerInvariant, PTL DEF Spec, ImplementsLedger, Ledger!Spec

=============================================================================
