-------------------------- MODULE ProcessorProofs --------------------------
(***************************************************************************)
(* Proofs about Processor, for every set of trades, number of workers,     *)
(* page limit, set of failing calls and number of crashes.                 *)
(***************************************************************************)
EXTENDS Processor, FiniteSetTheorems, TLAPS

USE DEF dbVars, mainVars, procVars, histVars

\* The indices of the per-wallet and per-position tables.
LEMMA Indices ==
    ASSUME NEW t \in Trade
    PROVE  ProxyWallet[t] \in Wallet /\ NetKey(t) \in {NetKey(u) : u \in Trade}
BY DEF Wallet

-----------------------------------------------------------------------------
(***************************************************************************)
(* Types.                                                                  *)
(***************************************************************************)
\* The counter that UpsertWallet leaves is a natural number, and a row stays a row.
LEMMA UpsertWalletType ==
    ASSUME NEW row \in Nat, NEW v \in Nat
    PROVE  UpsertWallet(row, v) \in Nat \ {NoRow} /\ UpsertWallet(row, v) >= row
BY DEF UpsertWallet, GormDefault, NoRow

\* Leaving processTrade keeps the types.
LEMMA ReturnType ==
    ASSUME TypeOK, NEW t \in Trade, Return(t)
    PROVE  pc' \in [Trade -> Label] /\ local' \in [Trade -> Local] /\ pool' \in Nat
BY DEF TypeOK, Return, Goto, Label, Local, NoLocal

\* A crash or a panic resets every variable in memory to a value of its type.
LEMMA LoseMemoryType ==
    ASSUME TypeOK, LoseMemory
    PROVE  /\ mainPc' \in {"idle", "fetch", "wait"} /\ lastTS' \in Nat /\ batch' \subseteq Trade
           /\ pc' \in [Trade -> Label] /\ local' \in [Trade -> Local] /\ pool' \in Nat
           /\ walletLocks' \in [Wallet -> Trade \cup {Free}]
BY ConstantsAssumption DEF TypeOK, LoseMemory, Label, Local, NoLocal

\* A new row of alerts is one, and leaves them finite.
LEMMA AlertRowType ==
    ASSUME TypeOK, NEW t \in Trade
    PROVE  /\ AlertRow(t) \in [trade : Trade, created : Nat, nth : Nat]
           /\ AlertRow(t).trade = t /\ AlertRow(t).created = now
           /\ IsFiniteSet(alerts \cup {AlertRow(t)})
<1>1. IsFiniteSet(alerts) /\ now \in Nat
  BY DEF TypeOK
<1>2. IsFiniteSet({a \in alerts : a.trade = t})
  BY <1>1, FS_Subset
<1>3. Cardinality({a \in alerts : a.trade = t}) \in Nat
  BY <1>2, FS_CardinalityType
<1>4. QED
  BY <1>1, <1>3, FS_AddElement DEF AlertRow

\* The polling pass, the environment and a crash keep the types.
LEMMA MainType ==
    ASSUME TypeOK, ProcessTrades \/ (\E t \in Trade : Publish(t)) \/ Tick \/ Crash
    PROVE  TypeOK'
<1> USE ConstantsAssumption DEF TypeOK
<1>1. CASE GetState
  BY <1>1 DEF GetState
<1>2. CASE FetchTrades
  <2>1. pc' \in [Trade -> Label] /\ batch' \subseteq Trade
    BY <1>2 DEF FetchTrades, Label
  <2>2. QED
    BY <1>2, <2>1 DEF FetchTrades
<1>3. CASE SetCheckpoint
  <2>1. checkpoint' \in Nat
    BY <1>3 DEF SetCheckpoint, NewCheckpoint
  <2>2. QED
    BY <1>3, <2>1 DEF SetCheckpoint
<1>4. CASE \E t \in Trade : Publish(t)
  BY <1>4 DEF Publish
<1>5. CASE Tick
  BY <1>5 DEF Tick
<1>6. CASE Crash
  BY <1>6, LoseMemoryType DEF Crash
<1>7. QED
  BY <1>1, <1>2, <1>3, <1>4, <1>5, <1>6 DEF ProcessTrades

\* Every call of processTrade keeps the types.
LEMMA TradeType ==
    ASSUME TypeOK, NEW t \in Trade, processTrade(t)
    PROVE  TypeOK'
<1> USE DEF TypeOK
<1>a. ProxyWallet[t] \in Wallet /\ NetKey(t) \in {NetKey(u) : u \in Trade}
  BY Indices
<1>b. Row(t) \in Nat /\ net[NetKey(t)] \in Nat
  BY <1>a DEF Row
<1>c. Unlock(t) => walletLocks' \in [Wallet -> Trade \cup {Free}]
  BY <1>a DEF Unlock
<1>1. CASE AcquireWorker(t)
  BY <1>1 DEF AcquireWorker, Goto, Label
<1>2. CASE HasTradeSeen(t)
  BY <1>2, ReturnType DEF HasTradeSeen, Goto, Label
<1>3. CASE ResolveMarket(t)
  <2>1. pc' \in [Trade -> Label] /\ local' \in [Trade -> Local] /\ pool' \in Nat
    BY <1>3, ReturnType DEF ResolveMarket, Goto, Label, Local
  <2>2. QED
    BY <1>3, <2>1 DEF ResolveMarket
<1>g. ASSUME NEW v \in Nat, GotWallet(t, v)
      PROVE  pc' \in [Trade -> Label] /\ local' \in [Trade -> Local] /\ pool' \in Nat
  BY <1>g DEF GotWallet, Goto, Label, Local
<1>4. CASE GetWallet(t)
  <2>1. pc' \in [Trade -> Label] /\ local' \in [Trade -> Local] /\ pool' \in Nat
    BY <1>4, <1>b, <1>g, ReturnType DEF GetWallet, Goto, Label
  <2>2. QED
    BY <1>4, <2>1 DEF GetWallet
<1>5. CASE LockWallet(t)
  BY <1>5, <1>a DEF LockWallet, Goto, Label
<1>6. CASE RecheckWallet(t)
  <2>1. pc' \in [Trade -> Label] /\ local' \in [Trade -> Local] /\ pool' \in Nat
    BY <1>6, <1>b, <1>g, ReturnType DEF RecheckWallet, Goto, Label
  <2>2. walletLocks' \in [Wallet -> Trade \cup {Free}]
    BY <1>6, <1>c DEF RecheckWallet
  <2>3. QED
    BY <1>6, <2>1, <2>2 DEF RecheckWallet
<1>7. CASE CreateWallet(t)
  <2>1. UpsertWallet(Row(t), 0) \in Nat /\ UpsertWallet(NoRow, 0) \in Nat
    BY <1>b, UpsertWalletType DEF NoRow
  <2>2. pc' \in [Trade -> Label] /\ local' \in [Trade -> Local] /\ pool' \in Nat
    BY <1>7, <2>1, <1>g, ReturnType DEF CreateWallet
  <2>3. wallets' \in [Wallet -> Nat]
    BY <1>7, <2>1, <1>a DEF CreateWallet, Row
  <2>4. walletLocks' \in [Wallet -> Trade \cup {Free}]
    BY <1>7, <1>c DEF CreateWallet
  <2>5. QED
    BY <1>7, <2>2, <2>3, <2>4 DEF CreateWallet
<1>8. CASE InsertTrade(t)
  BY <1>8, ReturnType DEF InsertTrade, Goto, Label
<1>9. CASE UpdateWallet(t)
  <2>1. local[t].totalTrades + 1 \in Nat
    BY DEF Local
  <2>2. UpsertWallet(Row(t), local[t].totalTrades + 1) \in Nat
    BY <2>1, <1>b, UpsertWalletType
  <2>3. wallets' \in [Wallet -> Nat]
    BY <1>9, <2>2, <1>a DEF UpdateWallet, Row
  <2>4. applied' \in [Trade -> Nat] /\ pc' \in [Trade -> Label]
    BY <1>9 DEF UpdateWallet, Goto, Label
  <2>5. QED
    BY <1>9, <2>3, <2>4 DEF UpdateWallet
<1>10. CASE NetGet(t)
  <2>1. pc' \in [Trade -> Label] /\ local' \in [Trade -> Local]
    <3>1. pc' \in [Trade -> Label]
      BY <1>10 DEF NetGet, Goto, Label
    <3>2. net[NetKey(t)] + 1 \in Nat
      BY <1>b
    <3>3. \A v \in Nat : [local EXCEPT ![t].count = v] \in [Trade -> Local]
      BY DEF Local
    <3>4. QED
      BY <1>10, <3>1, <3>2, <3>3 DEF NetGet
  <2>2. QED
    BY <1>10, <2>1 DEF NetGet
<1>11. CASE NetFind(t)
  <2>1. pc' \in [Trade -> Label] /\ local' \in [Trade -> Local]
    <3>1. pc' \in [Trade -> Label]
      BY <1>11 DEF NetFind, Goto, Label
    <3>2. (net[NetKey(t)] # NoRow) \in BOOLEAN
      OBVIOUS
    <3>3. \A v \in BOOLEAN : [local EXCEPT ![t].exists = v] \in [Trade -> Local]
      BY DEF Local
    <3>4. QED
      BY <1>11, <3>1, <3>2, <3>3 DEF NetFind
  <2>2. QED
    BY <1>11, <2>1 DEF NetFind
<1>12. CASE NetWrite(t)
  <2>1. net' \in [{NetKey(u) : u \in Trade} -> Nat]
    <3>1. net[NetKey(t)] + local[t].count \in Nat
      BY <1>b DEF Local
    <3>2. \A v \in Nat : [net EXCEPT ![NetKey(t)] = v] \in [{NetKey(u) : u \in Trade} -> Nat]
      BY <1>a
    <3>3. QED
      BY <1>12, <3>1, <3>2 DEF NetWrite
  <2>2. pc' \in [Trade -> Label]
    BY <1>12 DEF NetWrite, Goto, Label
  <2>3. QED
    BY <1>12, <2>1, <2>2 DEF NetWrite
<1>13. CASE CheckCooldown(t)
  BY <1>13, ReturnType DEF CheckCooldown, Goto, Label
<1>14. CASE InsertAlert(t)
  <2>1. pc' \in [Trade -> Label] /\ local' \in [Trade -> Local] /\ pool' \in Nat
    BY <1>14, ReturnType DEF InsertAlert, Goto, Label
  <2>2. alerts' \subseteq [trade : Trade, created : Nat, nth : Nat] /\ IsFiniteSet(alerts')
    BY <1>14, AlertRowType DEF InsertAlert
  <2>3. QED
    BY <1>14, <2>1, <2>2 DEF InsertAlert
<1>15. CASE Panic(t)
  BY <1>15, LoseMemoryType DEF Panic
<1>16. CASE SendAlert(t)
  <2>1. delivered' \in [Trade -> Nat]
    BY <1>16 DEF SendAlert
  <2>2. QED
    BY <1>16, <2>1, ReturnType DEF SendAlert
<1>17. QED
  BY <1>1, <1>2, <1>3, <1>4, <1>5, <1>6, <1>7, <1>8, <1>9, <1>10, <1>11, <1>12,
     <1>13, <1>14, <1>15, <1>16 DEF processTrade

\* The initial state is well typed.
LEMMA InitType == Init => TypeOK
<1> SUFFICES ASSUME Init PROVE TypeOK
  OBVIOUS
<1>1. /\ published \subseteq Trade /\ now \in Nat /\ checkpoint \in Nat
      /\ tradesSeen \subseteq Trade
      /\ alerts \subseteq [trade : Trade, created : Nat, nth : Nat] /\ IsFiniteSet(alerts)
      /\ mainPc \in {"idle", "fetch", "wait"} /\ lastTS \in Nat /\ batch \subseteq Trade
  BY FS_EmptySet DEF Init
<1>2. wallets \in [Wallet -> Nat] /\ net \in [{NetKey(t) : t \in Trade} -> Nat]
  BY DEF Init, NoRow
<1>3. pc \in [Trade -> Label] /\ local \in [Trade -> Local]
  BY DEF Init, Label, Local, NoLocal
<1>4. pool \in Nat /\ walletLocks \in [Wallet -> Trade \cup {Free}]
  BY ConstantsAssumption DEF Init
<1>5. /\ filtered \subseteq Trade /\ delivered \in [Trade -> Nat]
      /\ applied \in [Trade -> Nat] /\ crashes \in Nat /\ panicked \in BOOLEAN
  BY DEF Init
<1>6. QED
  BY <1>1, <1>2, <1>3, <1>4, <1>5 DEF TypeOK

\* Every step keeps the types.
LEMMA TypeStep == TypeOK /\ [Next]_vars => TypeOK'
<1> SUFFICES ASSUME TypeOK, [Next]_vars PROVE TypeOK'
  OBVIOUS
<1>1. CASE UNCHANGED vars
  BY <1>1 DEF vars, TypeOK
<1>2. QED
  BY <1>1, MainType, TradeType DEF Next

\* No call, error, crash or panic of the processor leaves a variable outside its type.
THEOREM TypeCorrect == Spec => []TypeOK
BY InitType, TypeStep, PTL DEF Spec

-----------------------------------------------------------------------------
(***************************************************************************)
(* Deduplication.                                                          *)
(***************************************************************************)
\* trades_seen has one row per hash, and a trade reaches its wallet's statistics only
\* from its own row, once.
DedupInv ==
    /\ \A t, u \in tradesSeen : SameHash(t, u) => t = u
    /\ \A t \in Trade : applied[t] <= 1 /\ (applied[t] > 0 => t \in tradesSeen)
    /\ \A t \in Trade : pc[t] = "updateWallet" => t \in tradesSeen /\ applied[t] = 0

\* What the actions that neither store nor apply a trade leave alone.
DedupFrame ==
    /\ tradesSeen' = tradesSeen /\ applied' = applied
    /\ \A u \in Trade : pc'[u] = "updateWallet" => pc[u] = "updateWallet"

\* The polling pass, the environment and a crash neither store nor apply a trade.
LEMMA DedupMain ==
    ASSUME TypeOK, ProcessTrades \/ (\E t \in Trade : Publish(t)) \/ Tick \/ Crash
    PROVE  DedupFrame
<1> USE DEF TypeOK, DedupFrame
<1>1. CASE GetState
  BY <1>1 DEF GetState
<1>2. CASE FetchTrades
  BY <1>2 DEF FetchTrades
<1>3. CASE SetCheckpoint
  BY <1>3 DEF SetCheckpoint
<1>4. CASE \E t \in Trade : Publish(t)
  BY <1>4 DEF Publish
<1>5. CASE Tick
  BY <1>5 DEF Tick
<1>6. CASE Crash
  BY <1>6 DEF Crash, LoseMemory
<1>7. QED
  BY <1>1, <1>2, <1>3, <1>4, <1>5, <1>6 DEF ProcessTrades

\* Of the calls of processTrade only InsertTrade and UpdateWallet do.
LEMMA DedupOther ==
    ASSUME TypeOK, NEW t \in Trade, processTrade(t), ~InsertTrade(t), ~UpdateWallet(t)
    PROVE  DedupFrame
<1> USE DEF TypeOK, DedupFrame, Goto, Return, GotWallet
<1>1. CASE AcquireWorker(t) \/ HasTradeSeen(t) \/ ResolveMarket(t)
  BY <1>1 DEF AcquireWorker, HasTradeSeen, ResolveMarket
<1>2. CASE GetWallet(t) \/ LockWallet(t) \/ RecheckWallet(t) \/ CreateWallet(t)
  BY <1>2 DEF GetWallet, LockWallet, RecheckWallet, CreateWallet
<1>3. CASE NetGet(t) \/ NetFind(t) \/ NetWrite(t)
  BY <1>3 DEF NetGet, NetFind, NetWrite
<1>4. CASE CheckCooldown(t) \/ InsertAlert(t) \/ SendAlert(t)
  BY <1>4 DEF CheckCooldown, InsertAlert, SendAlert
<1>5. CASE Panic(t)
  BY <1>5 DEF Panic, LoseMemory
<1>6. QED
  BY <1>1, <1>2, <1>3, <1>4, <1>5 DEF processTrade

\* A step keeps one row per hash and one application per row.
LEMMA DedupStep == TypeOK /\ DedupInv /\ [Next]_vars => DedupInv'
<1> SUFFICES ASSUME TypeOK, DedupInv, [Next]_vars PROVE DedupInv'
  OBVIOUS
<1>1. ASSUME NEW t \in Trade, InsertTrade(t) PROVE DedupInv'
  <2>1. CASE ~HasRow(t) /\ tradesSeen' = tradesSeen \cup {t} /\ Goto(t, "updateWallet")
    <3>1. \A u \in tradesSeen : ~SameHash(t, u) /\ ~SameHash(u, t)
      BY <2>1 DEF HasRow, SameHash
    <3>2. t \notin tradesSeen
      BY <3>1 DEF SameHash
    <3>3. applied[t] = 0 /\ applied' = applied
      BY <1>1, <3>2 DEF DedupInv, TypeOK, InsertTrade
    <3>4. \A u \in Trade \ {t} : pc'[u] = pc[u]
      BY <2>1 DEF Goto, TypeOK
    <3>5. QED
      BY <2>1, <3>1, <3>3, <3>4 DEF DedupInv
  <2>2. CASE tradesSeen' = tradesSeen /\ Return(t)
    BY <1>1, <2>2 DEF InsertTrade, Return, Goto, DedupInv, TypeOK
  <2>3. QED
    BY <1>1, <2>1, <2>2 DEF InsertTrade
<1>2. ASSUME NEW t \in Trade, UpdateWallet(t) PROVE DedupInv'
  <2>1. pc[t] = "updateWallet" /\ t \in tradesSeen /\ applied[t] = 0
    BY <1>2 DEF UpdateWallet, DedupInv
  <2>2. tradesSeen' = tradesSeen /\ pc' = [pc EXCEPT ![t] = "netGet"]
    BY <1>2 DEF UpdateWallet, Goto
  <2>3. applied' = applied \/ applied' = [applied EXCEPT ![t] = 1]
    BY <1>2, <2>1 DEF UpdateWallet
  <2>4. QED
    BY <2>1, <2>2, <2>3 DEF DedupInv, TypeOK
<1>3. CASE DedupFrame
  BY <1>3 DEF DedupFrame, DedupInv
<1>4. CASE UNCHANGED vars
  BY <1>4 DEF vars, DedupInv
<1>5. QED
  BY <1>1, <1>2, <1>3, <1>4, DedupMain, DedupOther DEF Next

\* A trade, and a transaction hash, reaches the wallet statistics at most once, for
\* every interleaving of passes, goroutines, errors and crashes.
THEOREM AppliedOncePerHash == Spec => []OncePerHash
<1>1. Init => TypeOK /\ DedupInv
  BY InitType DEF Init, DedupInv
<1>2. (TypeOK /\ DedupInv) /\ [Next]_vars => (TypeOK /\ DedupInv)'
  BY TypeStep, DedupStep
<1>3. TypeOK /\ DedupInv => OncePerHash
  BY DEF DedupInv, OncePerHash
<1>4. QED
  BY <1>1, <1>2, <1>3, PTL DEF Spec

-----------------------------------------------------------------------------
(***************************************************************************)
(* The checkpoint.                                                         *)
(***************************************************************************)
\* Goroutines run only between the fetch and wg.Wait, and the checkpoint that opened
\* the pass is still the stored one.
PassInv ==
    /\ mainPc \in {"fetch", "wait"} => lastTS = checkpoint
    /\ \A t \in Trade : pc[t] # "idle" => mainPc = "wait" /\ Timestamp[t] > checkpoint

\* A call of processTrade leaves the pass alone and starts no goroutine; or it
\* panics, and then everything in memory is lost.
LEMMA PassFrame ==
    ASSUME TypeOK, NEW t \in Trade, processTrade(t)
    PROVE  /\ checkpoint' = checkpoint
           /\ \/ LoseMemory
              \/ /\ UNCHANGED <<mainPc, lastTS, batch>>
                 /\ \A u \in Trade : pc[u] = "idle" => pc'[u] = "idle"
<1> USE DEF TypeOK, Goto, Return, GotWallet
<1>1. CASE AcquireWorker(t) \/ HasTradeSeen(t) \/ ResolveMarket(t)
  BY <1>1 DEF AcquireWorker, HasTradeSeen, ResolveMarket
<1>2. CASE GetWallet(t) \/ LockWallet(t) \/ RecheckWallet(t) \/ CreateWallet(t)
  BY <1>2 DEF GetWallet, LockWallet, RecheckWallet, CreateWallet
<1>3. CASE InsertTrade(t) \/ UpdateWallet(t)
  BY <1>3 DEF InsertTrade, UpdateWallet
<1>4. CASE NetGet(t) \/ NetFind(t) \/ NetWrite(t)
  BY <1>4 DEF NetGet, NetFind, NetWrite
<1>5. CASE CheckCooldown(t) \/ InsertAlert(t) \/ SendAlert(t)
  BY <1>5 DEF CheckCooldown, InsertAlert, SendAlert
<1>6. CASE Panic(t)
  BY <1>6 DEF Panic
<1>7. QED
  BY <1>1, <1>2, <1>3, <1>4, <1>5, <1>6 DEF processTrade

\* A step keeps the pass in order, and the checkpoint does not move back.
LEMMA PassStep ==
    TypeOK /\ PassInv /\ [Next]_vars => PassInv' /\ checkpoint' >= checkpoint
<1> SUFFICES ASSUME TypeOK, PassInv, [Next]_vars
             PROVE  PassInv' /\ checkpoint' >= checkpoint
  OBVIOUS
<1>0. checkpoint \in Nat /\ lastTS \in Nat /\ Timestamp \in [Trade -> Nat \ {0}]
  BY ConstantsAssumption DEF TypeOK
<1>1. CASE GetState
  BY <1>0, <1>1 DEF GetState, PassInv
<1>2. CASE FetchTrades
  <2>1. lastTS = checkpoint /\ checkpoint' = checkpoint /\ lastTS' = lastTS
    BY <1>2 DEF FetchTrades, PassInv
  <2>2. \A t \in Trade : pc[t] = "idle"
    BY <1>2 DEF FetchTrades, PassInv
  <2>3. ASSUME NEW t \in Trade, pc'[t] # "idle" PROVE mainPc' = "wait" /\ Timestamp[t] > checkpoint
    BY <1>2, <2>1, <2>2, <2>3 DEF FetchTrades, IsNew
  <2>4. QED
    BY <1>0, <2>1, <2>3 DEF PassInv
<1>3. CASE SetCheckpoint
  <2>1. mainPc' = "idle" /\ pc' = pc /\ \A t \in Trade : pc[t] = "idle"
    BY <1>3 DEF SetCheckpoint, AllReturned
  <2>2. lastTS = checkpoint
    BY <1>3 DEF SetCheckpoint, PassInv
  <2>3. checkpoint' >= checkpoint
    BY <1>0, <1>3, <2>2 DEF SetCheckpoint, NewCheckpoint, TypeOK
  <2>4. QED
    BY <2>1, <2>3 DEF PassInv
<1>4. ASSUME NEW t \in Trade, Publish(t) PROVE PassInv' /\ checkpoint' >= checkpoint
  BY <1>0, <1>4 DEF Publish, PassInv
<1>5. CASE Tick
  BY <1>0, <1>5 DEF Tick, PassInv
<1>6. CASE checkpoint' = checkpoint /\ LoseMemory
  BY <1>0, <1>6 DEF LoseMemory, PassInv
<1>7. ASSUME NEW t \in Trade, processTrade(t) PROVE PassInv' /\ checkpoint' >= checkpoint
  BY <1>0, <1>6, <1>7, PassFrame DEF PassInv
<1>8. CASE UNCHANGED vars
  BY <1>0, <1>8 DEF vars, PassInv
<1>9. QED
  BY <1>1, <1>2, <1>3, <1>4, <1>5, <1>6, <1>7, <1>8 DEF Next, ProcessTrades, Crash

\* The invariant of the pass holds in every reachable state.
LEMMA PassInvariant == Spec => [](TypeOK /\ PassInv)
<1>1. Init => TypeOK /\ PassInv
  BY InitType DEF Init, PassInv
<1>2. (TypeOK /\ PassInv) /\ [Next]_vars => (TypeOK /\ PassInv)'
  BY TypeStep, PassStep
<1>3. QED
  BY <1>1, <1>2, PTL DEF Spec

\* wg.Wait is a barrier: the stored checkpoint never covers a trade still in flight.
THEOREM CheckpointBarrier == Spec => []NoInFlightBelowCheckpoint
<1>1. TypeOK /\ PassInv => NoInFlightBelowCheckpoint
  BY DEF PassInv, NoInFlightBelowCheckpoint
<1>2. QED
  BY <1>1, PassInvariant, PTL

\* No page, however stale, and no crash moves the checkpoint back.
THEOREM CheckpointNeverBack == Spec => CheckpointMonotone
<1>1. TypeOK /\ PassInv /\ [Next]_vars => [checkpoint' >= checkpoint]_vars
  BY PassStep
<1>2. QED
  BY <1>1, PassInvariant, PTL DEF Spec, CheckpointMonotone

-----------------------------------------------------------------------------
(***************************************************************************)
(* The wallet mutex and the worker pool.                                   *)
(***************************************************************************)
\* Between Lock and Unlock a goroutine is the holder of its wallet's mutex; it
\* creates the wallet only while there is no row; and who goes on has a row.
LockInv ==
    /\ \A t \in Trade : pc[t] \in {"recheck", "create"} => walletLocks[ProxyWallet[t]] = t
    /\ \A t \in Trade : pc[t] = "create" => Row(t) = NoRow
    /\ \A t \in Trade : pc[t] \in {"insert", "updateWallet"} => Row(t) # NoRow

\* The actions that touch neither the wallets nor their mutexes.
LockFrame ==
    /\ wallets' = wallets /\ walletLocks' = walletLocks
    /\ \A u \in Trade : pc'[u] \in {"recheck", "create", "insert"} => pc'[u] = pc[u]
    /\ \A u \in Trade : pc'[u] = "updateWallet" => pc[u] \in {"insert", "updateWallet"}

\* Frames suffice for the invariant.
LEMMA LockFrameStep == TypeOK /\ LockInv /\ LockFrame => LockInv'
BY DEF LockFrame, LockInv, TypeOK, Row, NoRow

\* A step keeps the mutex exclusive and the rows in place.
LEMMA LockStep == TypeOK /\ LockInv /\ [Next]_vars => LockInv'
<1> SUFFICES ASSUME TypeOK, LockInv, [Next]_vars PROVE LockInv'
  OBVIOUS
<1> USE DEF TypeOK
<1>0. ASSUME LockFrame PROVE LockInv'
  BY <1>0, LockFrameStep
<1>1. CASE ProcessTrades
  <2>1. LockFrame
    BY <1>1 DEF ProcessTrades, GetState, FetchTrades, SetCheckpoint, LockFrame
  <2>2. QED
    BY <2>1, <1>0
<1>2. CASE Tick \/ \E t \in Trade : Publish(t)
  <2>1. LockFrame
    BY <1>2 DEF Tick, Publish, LockFrame
  <2>2. QED
    BY <2>1, <1>0
<1>3. CASE LoseMemory
  BY <1>3 DEF LoseMemory, LockInv
<1>4. ASSUME NEW t \in Trade, processTrade(t) PROVE LockInv'
  <2> USE DEF Goto, Return, GotWallet
  <2>a. ProxyWallet[t] \in Wallet
    BY Indices
  <2>1. CASE AcquireWorker(t) \/ HasTradeSeen(t) \/ ResolveMarket(t)
    <3>1. LockFrame
      BY <2>1 DEF AcquireWorker, HasTradeSeen, ResolveMarket, LockFrame
    <3>2. QED
      BY <3>1, <1>0
  <2>2. CASE GetWallet(t)
    <3>1. wallets' = wallets /\ walletLocks' = walletLocks
      BY <2>2 DEF GetWallet
    <3>2. \A u \in Trade \ {t} : pc'[u] = pc[u]
      BY <2>2 DEF GetWallet
    <3>3. pc'[t] \in {"lock", "idle"} \/ (pc'[t] = "insert" /\ Row(t) # NoRow)
      BY <2>2 DEF GetWallet
    <3>4. QED
      BY <3>1, <3>2, <3>3 DEF LockInv, Row
  <2>3. CASE LockWallet(t)
    <3>1. wallets' = wallets /\ walletLocks[ProxyWallet[t]] = Free
      BY <2>3 DEF LockWallet, LockFree
    <3>2. pc' = [pc EXCEPT ![t] = "recheck"]
          /\ walletLocks' = [walletLocks EXCEPT ![ProxyWallet[t]] = t]
      BY <2>3 DEF LockWallet
    <3>3. \A u \in Trade : u # Free
      BY ConstantsAssumption
    <3>4. \A u \in Trade \ {t} : pc[u] \in {"recheck", "create"} => ProxyWallet[u] # ProxyWallet[t]
      BY <3>1, <3>3 DEF LockInv
    <3>5. \A u \in Trade : ProxyWallet[u] \in Wallet
      BY Indices
    <3>6. QED
      BY <3>1, <3>2, <3>4, <3>5, <2>a DEF LockInv, Row
  <2>4. CASE RecheckWallet(t)
    <3>1. \A u \in Trade \ {t} : pc[u] \in {"recheck", "create"} => ProxyWallet[u] # ProxyWallet[t]
      BY <2>4 DEF RecheckWallet, LockInv
    <3>2. \A u \in Trade \ {t} : pc'[u] = pc[u]
      BY <2>4 DEF RecheckWallet
    <3>3. \A u \in Trade : ProxyWallet[u] # ProxyWallet[t] =>
              walletLocks'[ProxyWallet[u]] = walletLocks[ProxyWallet[u]]
      BY <2>4, Indices DEF RecheckWallet, Unlock
    <3>4. wallets' = wallets
      BY <2>4 DEF RecheckWallet
    <3>5. \/ pc'[t] = "idle"
          \/ pc'[t] = "insert" /\ Row(t) # NoRow
          \/ pc'[t] = "create" /\ Row(t) = NoRow /\ walletLocks' = walletLocks
      BY <2>4 DEF RecheckWallet
    <3>6. pc[t] = "recheck"
      BY <2>4 DEF RecheckWallet
    <3>7. QED
      BY <3>1, <3>2, <3>3, <3>4, <3>5, <3>6 DEF LockInv, Row
  <2>5. CASE CreateWallet(t)
    <3>1. \A u \in Trade \ {t} : pc[u] \in {"recheck", "create"} => ProxyWallet[u] # ProxyWallet[t]
      BY <2>5 DEF CreateWallet, LockInv
    <3>2. \A u \in Trade \ {t} : pc'[u] = pc[u]
      BY <2>5 DEF CreateWallet
    <3>3. \A u \in Trade : ProxyWallet[u] # ProxyWallet[t] =>
              /\ walletLocks'[ProxyWallet[u]] = walletLocks[ProxyWallet[u]]
              /\ wallets'[ProxyWallet[u]] = wallets[ProxyWallet[u]]
      BY <2>5, Indices DEF CreateWallet, Unlock
    <3>4. \/ pc'[t] = "idle" /\ wallets' = wallets
          \/ pc'[t] = "insert" /\ wallets'[ProxyWallet[t]] # NoRow
      <4>1. UpsertWallet(wallets[ProxyWallet[t]], 0) # NoRow
        BY <2>a, UpsertWalletType
      <4>2. QED
        BY <2>5, <2>a, <4>1 DEF CreateWallet
    <3>5. Row(t) = NoRow
      BY <2>5 DEF CreateWallet, LockInv
    <3>6. \A u \in Trade : Row(u) # NoRow => ProxyWallet[u] # ProxyWallet[t]
      BY <3>5 DEF Row
    <3>7. QED
      BY <3>1, <3>2, <3>3, <3>4, <3>6 DEF LockInv, Row
  <2>6. CASE InsertTrade(t)
    <3>1. LockFrame
      BY <2>6 DEF InsertTrade, LockFrame
    <3>2. QED
      BY <3>1, <1>0
  <2>7. CASE UpdateWallet(t)
    <3>1. Row(t) # NoRow
      BY <2>7 DEF UpdateWallet, LockInv
    <3>2. walletLocks' = walletLocks /\ pc' = [pc EXCEPT ![t] = "netGet"]
      BY <2>7 DEF UpdateWallet
    <3>3. local[t].totalTrades + 1 \in Nat
      BY DEF Local
    <3>4. UpsertWallet(wallets[ProxyWallet[t]], local[t].totalTrades + 1) # NoRow
      BY <3>3, <2>a, UpsertWalletType
    <3>5. \A u \in Trade : ProxyWallet[u] = ProxyWallet[t] => Row(u) # NoRow /\ Row(u)' # NoRow
      BY <2>7, <2>a, <3>1, <3>4 DEF UpdateWallet, Row
    <3>6. \A u \in Trade : ProxyWallet[u] # ProxyWallet[t] => Row(u)' = Row(u)
      BY <2>7, Indices DEF UpdateWallet, Row
    <3>7. QED
      BY <3>2, <3>5, <3>6 DEF LockInv
  <2>8. CASE NetGet(t) \/ NetFind(t) \/ NetWrite(t)
    <3>1. LockFrame
      BY <2>8 DEF NetGet, NetFind, NetWrite, LockFrame
    <3>2. QED
      BY <3>1, <1>0
  <2>9. CASE CheckCooldown(t) \/ InsertAlert(t) \/ SendAlert(t)
    <3>1. LockFrame
      BY <2>9 DEF CheckCooldown, InsertAlert, SendAlert, LockFrame
    <3>2. QED
      BY <3>1, <1>0
  <2>10. CASE Panic(t)
    BY <2>10, <1>3 DEF Panic
  <2>11. QED
    BY <1>4, <2>1, <2>2, <2>3, <2>4, <2>5, <2>6, <2>7, <2>8, <2>9, <2>10 DEF processTrade
<1>5. CASE UNCHANGED vars
  BY <1>5 DEF vars, LockInv, Row
<1>6. QED
  BY <1>1, <1>2, <1>3, <1>4, <1>5 DEF Next, Crash

\* The mutex invariant holds in every reachable state.
LEMMA LockInvariant == Spec => [](TypeOK /\ LockInv)
<1>1. Init => TypeOK /\ LockInv
  BY InitType DEF Init, LockInv
<1>2. (TypeOK /\ LockInv) /\ [Next]_vars => (TypeOK /\ LockInv)'
  BY TypeStep, LockStep
<1>3. QED
  BY <1>1, <1>2, PTL DEF Spec

\* getOrCreateWallet never asks twice at once, nor for a wallet it already has.
THEOREM LookupExclusive == Spec => []NoDuplicateLookup
<1>1. TypeOK /\ LockInv => NoDuplicateLookup
  BY DEF LockInv, NoDuplicateLookup
<1>2. QED
  BY <1>1, LockInvariant, PTL

\* How a call of processTrade uses the pool: it takes a worker first, gives it back
\* on the way out, and keeps it in between; or it panics.
LEMMA PoolShape ==
    ASSUME TypeOK, NEW t \in Trade, processTrade(t)
    PROVE  \/ LoseMemory
           \/ pc[t] = "queued" /\ pool > 0 /\ pool' = pool - 1 /\ Goto(t, "seen")
           \/ t \in Active /\ Return(t)
           \/ t \in Active /\ pool' = pool /\ \E l \in Label \ {"idle", "queued"} : Goto(t, l)
<1> USE DEF TypeOK, GotWallet, Active, Label
<1>1. CASE AcquireWorker(t) \/ HasTradeSeen(t) \/ ResolveMarket(t)
  BY <1>1 DEF AcquireWorker, HasTradeSeen, ResolveMarket
<1>2. CASE GetWallet(t) \/ LockWallet(t)
  BY <1>2 DEF GetWallet, LockWallet
<1>3. CASE RecheckWallet(t) \/ CreateWallet(t)
  BY <1>3 DEF RecheckWallet, CreateWallet
<1>4. CASE InsertTrade(t) \/ UpdateWallet(t)
  BY <1>4 DEF InsertTrade, UpdateWallet
<1>5. CASE NetGet(t) \/ NetFind(t) \/ NetWrite(t)
  BY <1>5 DEF NetGet, NetFind, NetWrite
<1>6. CASE CheckCooldown(t) \/ InsertAlert(t) \/ SendAlert(t)
  BY <1>6 DEF CheckCooldown, InsertAlert, SendAlert
<1>7. CASE Panic(t)
  BY <1>7 DEF Panic
<1>8. QED
  BY <1>1, <1>2, <1>3, <1>4, <1>5, <1>6, <1>7 DEF processTrade

\* A step keeps the sum of free workers and busy goroutines.
LEMMA PoolStep == TypeOK /\ PassInv /\ WorkersConserved /\ [Next]_vars => WorkersConserved'
<1> SUFFICES ASSUME TypeOK, PassInv, WorkersConserved, [Next]_vars PROVE WorkersConserved'
  OBVIOUS
<1>0. IsFiniteSet(Active) /\ Cardinality(Active) \in Nat /\ pool \in Nat /\ Workers \in Nat
  BY ConstantsAssumption, FS_Subset, FS_CardinalityType DEF Active, TypeOK
<1>1. ASSUME pool' = pool, Active' = Active PROVE WorkersConserved'
  BY <1>1 DEF WorkersConserved
<1>2. CASE LoseMemory
  <2>1. Active' = {} /\ pool' = Workers
    BY <1>2 DEF LoseMemory, Active
  <2>2. QED
    BY <2>1, <1>0, FS_EmptySet DEF WorkersConserved
<1>3. CASE FetchTrades
  <2>1. \A t \in Trade : pc[t] = "idle"
    BY <1>3 DEF FetchTrades, PassInv
  <2>2. Active = {} /\ Active' = {} /\ pool' = pool
    BY <1>3, <2>1 DEF FetchTrades, Active
  <2>3. QED
    BY <1>1, <2>2
<1>4. CASE GetState \/ SetCheckpoint \/ Tick \/ (\E t \in Trade : Publish(t)) \/ UNCHANGED vars
  <2>1. pool' = pool /\ pc' = pc
    BY <1>4 DEF GetState, SetCheckpoint, Tick, Publish, vars
  <2>2. QED
    BY <2>1, <1>1 DEF Active
<1>5. ASSUME NEW t \in Trade, processTrade(t) PROVE WorkersConserved'
  <2>1. CASE pc[t] = "queued" /\ pool' = pool - 1 /\ Goto(t, "seen")
    <3>1. t \notin Active /\ Active' = Active \cup {t}
      BY <2>1 DEF Active, Goto, TypeOK
    <3>2. Cardinality(Active \cup {t}) = Cardinality(Active) + 1
      BY <3>1, <1>0, FS_AddElement
    <3>3. QED
      BY <2>1, <3>1, <3>2, <1>0 DEF WorkersConserved
  <2>2. CASE t \in Active /\ Return(t)
    <3>1. Active' = Active \ {t} /\ pool' = pool + 1
      BY <2>2 DEF Active, Return, Goto, TypeOK
    <3>2. Cardinality(Active \ {t}) = Cardinality(Active) - 1
      BY <2>2, <1>0, FS_RemoveElement
    <3>3. QED
      BY <3>1, <3>2, <1>0 DEF WorkersConserved
  <2>3. CASE t \in Active /\ pool' = pool /\ \E l \in Label \ {"idle", "queued"} : Goto(t, l)
    <3>1. Active' = Active
      BY <2>3 DEF Active, Goto, TypeOK
    <3>2. QED
      BY <2>3, <3>1, <1>1
  <2>4. QED
    BY <1>5, <1>2, <2>1, <2>2, <2>3, PoolShape
<1>6. QED
  BY <1>2, <1>3, <1>4, <1>5 DEF Next, ProcessTrades, Crash

\* No way through processTrade loses a worker or gives one back twice.
THEOREM WorkersNeverLost == Spec => []WorkersConserved
<1>1. Init => WorkersConserved
  <2> SUFFICES ASSUME Init PROVE WorkersConserved
    OBVIOUS
  <2>1. Active = {} /\ pool = Workers /\ Workers \in Nat
    BY ConstantsAssumption DEF Init, Active
  <2>2. QED
    BY <2>1, FS_EmptySet DEF WorkersConserved
<1>2. (TypeOK /\ PassInv) /\ WorkersConserved /\ [Next]_vars => WorkersConserved'
  BY PoolStep
<1>3. QED
  BY <1>1, <1>2, PassInvariant, PTL DEF Spec

-----------------------------------------------------------------------------
(***************************************************************************)
(* The statistics of a wallet.                                             *)
(***************************************************************************)
\* The trades that reached the statistics of w.
AppliedTo(w) == {t \in Trade : ProxyWallet[t] = w /\ applied[t] > 0}

\* A row is above the number of trades it counts, and without a row there is none.
TotalInv ==
    \A w \in Wallet : wallets[w] # NoRow \/ AppliedTo(w) # {} => wallets[w] > Cardinality(AppliedTo(w))

\* There are finitely many of them.
LEMMA AppliedFinite ==
    ASSUME NEW w
    PROVE  IsFiniteSet(AppliedTo(w)) /\ Cardinality(AppliedTo(w)) \in Nat
<1>1. AppliedTo(w) \in SUBSET Trade
  BY DEF AppliedTo
<1>2. QED
  BY <1>1, ConstantsAssumption, FS_Subset, FS_CardinalityType

\* Only CreateWallet and UpdateWallet write a row, and only UpdateWallet applies a trade.
LEMMA TotalFrame ==
    ASSUME TypeOK, [Next]_vars,
           \A t \in Trade : ~CreateWallet(t) /\ ~UpdateWallet(t)
    PROVE  wallets' = wallets /\ applied' = applied
<1>1. CASE ProcessTrades \/ Tick \/ Crash \/ (\E t \in Trade : Publish(t)) \/ UNCHANGED vars
  BY <1>1 DEF ProcessTrades, GetState, FetchTrades, SetCheckpoint, Tick, Crash, Publish, vars
<1>2. ASSUME NEW t \in Trade, processTrade(t) PROVE wallets' = wallets /\ applied' = applied
  <2>1. CASE AcquireWorker(t) \/ HasTradeSeen(t) \/ ResolveMarket(t)
    BY <2>1 DEF AcquireWorker, HasTradeSeen, ResolveMarket
  <2>2. CASE GetWallet(t) \/ LockWallet(t) \/ RecheckWallet(t) \/ InsertTrade(t)
    BY <2>2 DEF GetWallet, LockWallet, RecheckWallet, InsertTrade
  <2>3. CASE NetGet(t) \/ NetFind(t) \/ NetWrite(t)
    BY <2>3 DEF NetGet, NetFind, NetWrite
  <2>4. CASE CheckCooldown(t) \/ InsertAlert(t) \/ Panic(t) \/ SendAlert(t)
    BY <2>4 DEF CheckCooldown, InsertAlert, Panic, SendAlert
  <2>5. QED
    BY <1>2, <2>1, <2>2, <2>3, <2>4 DEF processTrade
<1>3. QED
  BY <1>1, <1>2 DEF Next

\* The insertion of a row leaves it above the trades it counts: none.
LEMMA TotalCreate ==
    ASSUME TypeOK, LockInv, TotalInv, NEW t \in Trade, CreateWallet(t)
    PROVE  TotalInv'
<1>1. \A w \in Wallet : AppliedTo(w)' = AppliedTo(w)
  BY DEF CreateWallet, AppliedTo
<1>2. CASE wallets' = wallets
  BY <1>1, <1>2 DEF TotalInv
<1>3. CASE wallets' = [wallets EXCEPT ![ProxyWallet[t]] = UpsertWallet(@, 0)]
  <2>1. wallets[ProxyWallet[t]] = NoRow
    BY DEF LockInv, CreateWallet, Row
  <2>2. wallets'[ProxyWallet[t]] = 1
    BY <1>3, <2>1, Indices DEF TypeOK, UpsertWallet, GormDefault, NoRow
  <2>3. AppliedTo(ProxyWallet[t]) = {}
    BY <2>1, Indices, AppliedFinite DEF TotalInv, NoRow
  <2>4. Cardinality(AppliedTo(ProxyWallet[t])) = 0
    BY <2>3, FS_EmptySet
  <2>5. \A w \in Wallet \ {ProxyWallet[t]} : wallets'[w] = wallets[w]
    BY <1>3 DEF TypeOK
  <2>6. QED
    BY <1>1, <2>2, <2>4, <2>5 DEF TotalInv
<1>4. QED
  BY <1>2, <1>3 DEF CreateWallet

\* The relative UPDATE raises the row by at least the one trade that it applies.
LEMMA TotalUpdate ==
    ASSUME TypeOK, LockInv, TotalInv, NEW t \in Trade, UpdateWallet(t)
    PROVE  TotalInv'
<1> DEFINE w0 == ProxyWallet[t]
<1>1. CASE UNCHANGED <<wallets, applied>>
  BY <1>1 DEF TotalInv, AppliedTo
<1>2. CASE /\ wallets' = [wallets EXCEPT ![w0] = UpsertWallet(@, local[t].totalTrades + 1)]
           /\ applied' = [applied EXCEPT ![t] = @ + 1]
  <2>1. wallets[w0] # NoRow /\ w0 \in Wallet /\ wallets[w0] \in Nat
    BY Indices DEF LockInv, UpdateWallet, Row, TypeOK
  <2>2. local[t].totalTrades \in Nat
    BY DEF TypeOK, Local
  <2>3. wallets'[w0] \in Nat /\ wallets'[w0] >= wallets[w0] + 1
    BY <1>2, <2>1, <2>2 DEF TypeOK, UpsertWallet
  <2>4. AppliedTo(w0)' = AppliedTo(w0) \cup {t}
    BY <1>2 DEF AppliedTo, TypeOK
  <2>5. /\ Cardinality(AppliedTo(w0) \cup {t}) <= Cardinality(AppliedTo(w0)) + 1
        /\ Cardinality(AppliedTo(w0) \cup {t}) \in Nat
    <3>1. IsFiniteSet(AppliedTo(w0)) /\ Cardinality(AppliedTo(w0)) \in Nat
      BY AppliedFinite
    <3>2. Cardinality(AppliedTo(w0) \cup {t}) =
            IF t \in AppliedTo(w0) THEN Cardinality(AppliedTo(w0)) ELSE Cardinality(AppliedTo(w0)) + 1
      BY <3>1, FS_AddElement
    <3>3. QED
      BY <3>1, <3>2
  <2>6. wallets[w0] > Cardinality(AppliedTo(w0))
    BY <2>1 DEF TotalInv
  <2>7. wallets'[w0] > Cardinality(AppliedTo(w0))'
    BY <2>1, <2>3, <2>4, <2>5, <2>6, AppliedFinite
  <2>8. \A w \in Wallet \ {w0} : wallets'[w] = wallets[w] /\ AppliedTo(w)' = AppliedTo(w)
    BY <1>2 DEF AppliedTo, TypeOK
  <2>9. QED
    BY <2>7, <2>8 DEF TotalInv
<1>3. QED
  BY <1>1, <1>2 DEF UpdateWallet

\* Goroutines of one wallet never lose each other's updates: its row is above the number of
\* trades applied to it, whatever each of them read before.
THEOREM WalletUpdatesKept == Spec => []NoLostWalletUpdate
<1>1. Init => TotalInv
  BY DEF Init, TotalInv, AppliedTo, NoRow
<1>2. (TypeOK /\ LockInv) /\ TotalInv /\ [Next]_vars => TotalInv'
  <2> SUFFICES ASSUME TypeOK, LockInv, TotalInv, [Next]_vars PROVE TotalInv'
    OBVIOUS
  <2>1. CASE \A t \in Trade : ~CreateWallet(t) /\ ~UpdateWallet(t)
    BY <2>1, TotalFrame DEF TotalInv, AppliedTo
  <2>2. QED
    BY <2>1, TotalCreate, TotalUpdate
<1>3. TotalInv => NoLostWalletUpdate
  BY DEF TotalInv, NoLostWalletUpdate, AppliedTo
<1>4. QED
  BY <1>1, <1>2, <1>3, LockInvariant, PTL DEF Spec

=============================================================================
