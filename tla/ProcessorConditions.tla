------------------------ MODULE ProcessorConditions ------------------------
(***************************************************************************)
(* What Processor guarantees under conditions, proved for every instance   *)
(* that meets them: the checkpoint is a watermark when no trade is late    *)
(* and no call before the insertion of a trade fails; a wallet has at most *)
(* one alert per worker in a cooldown when the last alert can be read.     *)
(***************************************************************************)
EXTENDS ProcessorProofs

USE DEF dbVars, mainVars, procVars, histVars

\* Trades appear in the order of their seconds, a page has room for all of them, and
\* no call fails whose error makes processTrade give a trade up.
NothingLost ==
    /\ ~LateTrades
    /\ Cardinality(Trade) <= PageLimit
    /\ ~Fails("HasTradeSeen") /\ ~Fails("GetWallet")
    /\ ~Fails("CreateWallet") /\ ~Fails("InsertTrade")

-----------------------------------------------------------------------------
(***************************************************************************)
(* The checkpoint as a watermark.                                          *)
(***************************************************************************)
\* The labels after the insertion of the trade.
Stored == {"updateWallet", "netGet", "netFind", "netWrite", "cooldown", "insertAlert", "send"}

\* A goroutine past InsertTrade has its row.
StoredInv == \A t \in Trade : pc[t] \in Stored => t \in tradesSeen

\* While a pass waits, the trades of its page above the checkpoint are in flight or
\* done with, and what was published since is above the whole page.
BatchInv ==
    mainPc = "wait" =>
        /\ batch \subseteq published
        /\ \A t \in batch : Timestamp[t] > checkpoint => pc[t] # "idle" \/ Handled(t)
        /\ \A t \in published \ batch, u \in batch : Timestamp[u] < Timestamp[t]

\* The checkpoint is the second of a published trade.
CheckpointPublished == checkpoint = 0 \/ \E u \in published : Timestamp[u] >= checkpoint

WatermarkInv == StoredInv /\ BatchInv /\ CheckpointPublished /\ Watermark

\* A call of processTrade makes no trade less handled, and the goroutine of a trade
\* ends only when the trade is done with.
LEMMA HandledStep ==
    ASSUME TypeOK, StoredInv, NothingLost, NEW t \in Trade, processTrade(t)
    PROVE  /\ UNCHANGED <<published, checkpoint>>
           /\ filtered \subseteq filtered' /\ tradesSeen \subseteq tradesSeen'
           /\ \/ LoseMemory
              \/ /\ UNCHANGED <<mainPc, batch>>
                 /\ \A u \in Trade \ {t} : pc'[u] = pc[u]
                 /\ pc'[t] = "idle" => Handled(t)'
                 /\ pc'[t] \in Stored => t \in tradesSeen'
<1> USE DEF TypeOK, Goto, Return, GotWallet, Stored, Handled
<1>0. ~Fails("HasTradeSeen") /\ ~Fails("GetWallet") /\ ~Fails("CreateWallet") /\ ~Fails("InsertTrade")
  BY DEF NothingLost
<1>1. CASE AcquireWorker(t) \/ ResolveMarket(t)
  BY <1>1 DEF AcquireWorker, ResolveMarket
<1>2. CASE HasTradeSeen(t)
  BY <1>2, <1>0 DEF HasTradeSeen, HasRow
<1>3. CASE GetWallet(t) \/ LockWallet(t)
  BY <1>3, <1>0 DEF GetWallet, LockWallet
<1>4. CASE RecheckWallet(t) \/ CreateWallet(t)
  BY <1>4, <1>0 DEF RecheckWallet, CreateWallet
<1>5. CASE InsertTrade(t)
  BY <1>5, <1>0 DEF InsertTrade, HasRow, SameHash
<1>6. CASE UpdateWallet(t)
  BY <1>6 DEF UpdateWallet, StoredInv
<1>7. CASE NetGet(t) \/ NetFind(t) \/ NetWrite(t)
  BY <1>7 DEF NetGet, NetFind, NetWrite, StoredInv
<1>8. CASE CheckCooldown(t) \/ InsertAlert(t) \/ SendAlert(t)
  BY <1>8 DEF CheckCooldown, InsertAlert, SendAlert, StoredInv, HasRow, SameHash
<1>9. CASE Panic(t)
  BY <1>9 DEF Panic
<1>10. QED
  BY <1>1, <1>2, <1>3, <1>4, <1>5, <1>6, <1>7, <1>8, <1>9 DEF processTrade

\* A page is everything published when there is room for it.
LEMMA WholePage ==
    ASSUME TypeOK, NothingLost, NEW page \in SUBSET published, IsPage(page)
    PROVE  page = published
<1>1. IsFiniteSet(Trade) /\ published \in SUBSET Trade /\ page \in SUBSET Trade
  BY ConstantsAssumption DEF TypeOK
<1>2. CASE Cardinality(page) = PageLimit
  <2>1. Cardinality(page) <= Cardinality(Trade) /\ Cardinality(page) \in Nat
        /\ Cardinality(Trade) \in Nat /\ PageLimit \in Nat
    BY <1>1, FS_Subset, FS_CardinalityType, ConstantsAssumption
  <2>2. Cardinality(Trade) = Cardinality(page)
    BY <1>2, <2>1 DEF NothingLost
  <2>3. page = Trade
    BY <1>1, <2>2, FS_Subset
  <2>4. QED
    BY <1>1, <2>3
<1>3. QED
  BY <1>2 DEF IsPage, NothingLost

\* Every step keeps the watermark.
LEMMA WatermarkStep ==
    ASSUME NothingLost
    PROVE  TypeOK /\ PassInv /\ WatermarkInv /\ [Next]_vars => WatermarkInv'
<1> SUFFICES ASSUME TypeOK, PassInv, WatermarkInv, [Next]_vars PROVE WatermarkInv'
  OBVIOUS
<1> USE DEF WatermarkInv
<1>0. /\ Timestamp \in [Trade -> Nat \ {0}] /\ checkpoint \in Nat /\ lastTS \in Nat
      /\ published \subseteq Trade /\ batch \subseteq Trade
  BY ConstantsAssumption DEF TypeOK
<1>1. CASE GetState
  <2>1. /\ mainPc' = "fetch" /\ pc' = pc /\ tradesSeen' = tradesSeen /\ filtered' = filtered
        /\ published' = published /\ checkpoint' = checkpoint
    BY <1>1 DEF GetState
  <2>2. QED
    BY <2>1 DEF StoredInv, BatchInv, CheckpointPublished, Watermark, Handled, HasRow
<1>2. CASE FetchTrades
  <2>1. /\ tradesSeen' = tradesSeen /\ filtered' = filtered
        /\ published' = published /\ checkpoint' = checkpoint
    BY <1>2 DEF FetchTrades
  <2>2. StoredInv'
    BY <1>2, <2>1 DEF FetchTrades, StoredInv, Stored, TypeOK
  <2>3. BatchInv'
    <3>1. CASE mainPc' = "idle"
      BY <3>1 DEF BatchInv
    <3>2. ASSUME NEW page \in SUBSET published, IsPage(page), batch' = page,
                 pc' = [t \in Trade |-> IF t \in page /\ IsNew(t) THEN "queued" ELSE pc[t]]
          PROVE  BatchInv'
      <4>1. page = published
        BY <3>2, WholePage
      <4>2. lastTS = checkpoint
        BY <1>2 DEF FetchTrades, PassInv
      <4>3. QED
        BY <3>2, <4>1, <4>2, <2>1, <1>0 DEF BatchInv, IsNew
    <3>3. QED
      BY <1>2, <3>1, <3>2 DEF FetchTrades
  <2>4. QED
    BY <2>1, <2>2, <2>3 DEF CheckpointPublished, Watermark, Handled, HasRow
<1>3. CASE SetCheckpoint
  <2>1. /\ mainPc = "wait" /\ mainPc' = "idle" /\ pc' = pc /\ published' = published
        /\ tradesSeen' = tradesSeen /\ filtered' = filtered
        /\ \A t \in Trade : pc[t] = "idle"
    BY <1>3 DEF SetCheckpoint, AllReturned
  <2>2. StoredInv' /\ BatchInv'
    BY <2>1 DEF StoredInv, BatchInv
  <2>3. CASE checkpoint' = checkpoint
    BY <2>1, <2>2, <2>3 DEF CheckpointPublished, Watermark, Handled, HasRow
  <2>4. ASSUME NEW m \in batch, \A t \in batch : Timestamp[t] <= Timestamp[m],
               checkpoint' = Timestamp[m]
        PROVE  WatermarkInv'
    <3>1. m \in published
      BY <2>1 DEF BatchInv
    <3>2. CheckpointPublished'
      BY <2>1, <2>4, <3>1, <1>0 DEF CheckpointPublished
    <3>3. ASSUME NEW t \in published, Timestamp[t] <= Timestamp[m] PROVE Handled(t)
      <4>1. t \in batch
        BY <2>1, <3>3, <1>0 DEF BatchInv
      <4>2. QED
        BY <2>1, <4>1, <1>0 DEF BatchInv, Watermark
    <3>4. Watermark'
      BY <2>1, <2>4, <3>3 DEF Watermark, Handled, HasRow
    <3>5. QED
      BY <2>2, <3>2, <3>4
  <2>5. QED
    BY <1>3, <2>3, <2>4 DEF SetCheckpoint, NewCheckpoint
<1>4. ASSUME NEW t \in Trade, Publish(t) PROVE WatermarkInv'
  <2>1. /\ mainPc' = mainPc /\ pc' = pc /\ tradesSeen' = tradesSeen /\ filtered' = filtered
        /\ batch' = batch /\ checkpoint' = checkpoint /\ published \subseteq published'
        /\ \A v \in published' \ published, u \in published : Timestamp[u] < Timestamp[v]
        /\ published' \subseteq Trade
    BY <1>4, <1>0 DEF Publish, NothingLost
  <2>2. \A v \in published' \ published : Timestamp[v] > checkpoint
    BY <2>1, <1>0 DEF CheckpointPublished
  <2>3. StoredInv' /\ CheckpointPublished'
    BY <2>1 DEF StoredInv, CheckpointPublished
  <2>4. BatchInv'
    BY <2>1, <1>0 DEF BatchInv, Handled, HasRow
  <2>5. Watermark'
    BY <2>1, <2>2, <1>0 DEF Watermark, Handled, HasRow
  <2>6. QED
    BY <2>3, <2>4, <2>5
<1>5. CASE Tick \/ UNCHANGED vars
  <2>1. /\ mainPc' = mainPc /\ pc' = pc /\ tradesSeen' = tradesSeen /\ filtered' = filtered
        /\ batch' = batch /\ checkpoint' = checkpoint /\ published' = published
    BY <1>5 DEF Tick, vars
  <2>2. QED
    BY <2>1 DEF StoredInv, BatchInv, CheckpointPublished, Watermark, Handled, HasRow
<1>6. ASSUME LoseMemory, UNCHANGED <<published, checkpoint>>,
             filtered \subseteq filtered', tradesSeen \subseteq tradesSeen'
      PROVE  WatermarkInv'
  <2>1. mainPc' = "idle" /\ \A t \in Trade : pc'[t] = "idle"
    BY <1>6 DEF LoseMemory
  <2>2. QED
    BY <1>6, <2>1
       DEF StoredInv, Stored, BatchInv, CheckpointPublished, Watermark, Handled, HasRow
<1>7. ASSUME NEW t \in Trade, processTrade(t) PROVE WatermarkInv'
  <2>1. /\ UNCHANGED <<published, checkpoint>>
        /\ filtered \subseteq filtered' /\ tradesSeen \subseteq tradesSeen'
    BY <1>7, HandledStep
  <2>2. \A u \in Trade : Handled(u) => Handled(u)'
    BY <2>1 DEF Handled, HasRow
  <2>3. CASE /\ UNCHANGED <<mainPc, batch>>
             /\ \A u \in Trade \ {t} : pc'[u] = pc[u]
             /\ pc'[t] = "idle" => Handled(t)'
             /\ pc'[t] \in Stored => t \in tradesSeen'
    <3>1. StoredInv'
      BY <2>1, <2>3 DEF StoredInv
    <3>2. BatchInv'
      BY <2>1, <2>2, <2>3, <1>0 DEF BatchInv
    <3>3. CheckpointPublished' /\ Watermark'
      BY <2>1, <2>2, <1>0 DEF CheckpointPublished, Watermark
    <3>4. QED
      BY <3>1, <3>2, <3>3
  <2>4. QED
    BY <1>6, <1>7, <2>1, <2>3, HandledStep
<1>8. QED
  BY <1>1, <1>2, <1>3, <1>4, <1>5, <1>6, <1>7 DEF Next, ProcessTrades, Crash

\* With trades in order, room on the page and no early error, the checkpoint never
\* passes a trade that is not stored or filtered, whatever crashes.
THEOREM CheckpointIsWatermark ==
    ASSUME NothingLost
    PROVE  Spec => []Watermark
<1>1. Init => WatermarkInv
  BY DEF Init, WatermarkInv, StoredInv, Stored, BatchInv, CheckpointPublished, Watermark
<1>2. (TypeOK /\ PassInv) /\ WatermarkInv /\ [Next]_vars => WatermarkInv'
  BY WatermarkStep
<1>3. WatermarkInv => Watermark
  BY DEF WatermarkInv
<1>4. QED
  BY <1>1, <1>2, <1>3, PassInvariant, PTL DEF Spec

-----------------------------------------------------------------------------
(***************************************************************************)
(* The cooldown with any number of workers.                                *)
(***************************************************************************)
\* The goroutines past the check that may still store an alert in the cooldown of a.
Pending(a) ==
    {t \in Trade : /\ pc[t] = "insertAlert" /\ ProxyWallet[t] = ProxyWallet[a.trade]
                   /\ now < a.created + Cooldown}

\* No alert is from the future, and the alerts of its cooldown and those still to come
\* are at most one per worker.
CooldownInv ==
    \A a \in alerts :
        /\ a.created <= now
        /\ Cardinality(CooldownWindow(a)) + Cardinality(Pending(a)) <= Workers

\* Both sets are finite.
LEMMA WindowFinite ==
    ASSUME TypeOK, NEW a
    PROVE  /\ IsFiniteSet(CooldownWindow(a)) /\ Cardinality(CooldownWindow(a)) \in Nat
           /\ IsFiniteSet(Pending(a)) /\ Cardinality(Pending(a)) \in Nat
<1>1. IsFiniteSet(alerts) /\ IsFiniteSet(Trade)
  BY ConstantsAssumption DEF TypeOK
<1>2. CooldownWindow(a) \subseteq alerts /\ Pending(a) \subseteq Trade
  BY DEF CooldownWindow, Pending
<1>3. QED
  BY <1>1, <1>2, FS_Subset, FS_CardinalityType

\* What the actions other than the clock's, CheckCooldown and InsertAlert leave alone.
AlertFrame ==
    /\ alerts' = alerts /\ now' = now
    /\ \A u \in Trade : pc'[u] = "insertAlert" => pc[u] = "insertAlert"

\* Only those three matter to the cooldown.
LEMMA AlertFrameStep ==
    ASSUME TypeOK, [Next]_vars, ~Tick,
           \A t \in Trade : ~CheckCooldown(t) /\ ~InsertAlert(t)
    PROVE  AlertFrame
<1> USE DEF TypeOK, AlertFrame, Goto, Return, GotWallet
<1>1. CASE ProcessTrades \/ (\E t \in Trade : Publish(t)) \/ UNCHANGED vars
  BY <1>1 DEF ProcessTrades, GetState, FetchTrades, SetCheckpoint, Publish, vars
<1>2. CASE Crash
  BY <1>2 DEF Crash, LoseMemory
<1>3. ASSUME NEW t \in Trade, processTrade(t) PROVE AlertFrame
  <2>1. CASE AcquireWorker(t) \/ HasTradeSeen(t) \/ ResolveMarket(t)
    BY <2>1 DEF AcquireWorker, HasTradeSeen, ResolveMarket
  <2>2. CASE GetWallet(t) \/ LockWallet(t) \/ RecheckWallet(t) \/ CreateWallet(t)
    BY <2>2 DEF GetWallet, LockWallet, RecheckWallet, CreateWallet
  <2>3. CASE InsertTrade(t) \/ UpdateWallet(t)
    BY <2>3 DEF InsertTrade, UpdateWallet
  <2>4. CASE NetGet(t) \/ NetFind(t) \/ NetWrite(t)
    BY <2>4 DEF NetGet, NetFind, NetWrite
  <2>5. CASE Panic(t)
    BY <2>5 DEF Panic, LoseMemory
  <2>6. CASE SendAlert(t)
    BY <2>6 DEF SendAlert
  <2>7. QED
    BY <1>3, <2>1, <2>2, <2>3, <2>4, <2>5, <2>6 DEF processTrade
<1>4. QED
  BY <1>1, <1>2, <1>3 DEF Next

\* Where no alert is stored and no goroutine newly threatens one, the bound stays.
LEMMA CooldownFrame ==
    ASSUME TypeOK, TypeOK', CooldownInv, alerts' = alerts, now' \in {now, now + 1},
           \A a \in alerts : Pending(a)' \subseteq Pending(a)
    PROVE  CooldownInv'
<1> SUFFICES ASSUME NEW a \in alerts
             PROVE  /\ a.created <= now'
                    /\ Cardinality(CooldownWindow(a)') + Cardinality(Pending(a)') <= Workers
  BY DEF CooldownInv
<1>1. a.created \in Nat /\ now \in Nat /\ Workers \in Nat
  BY ConstantsAssumption DEF TypeOK
<1>2. a.created <= now'
  BY <1>1 DEF CooldownInv
<1>3. CooldownWindow(a)' = CooldownWindow(a)
  BY DEF CooldownWindow
<1>4. /\ Cardinality(Pending(a)') <= Cardinality(Pending(a))
      /\ Cardinality(Pending(a)') \in Nat
  <2>1. IsFiniteSet(Pending(a)) /\ Cardinality(Pending(a)) \in Nat
    BY WindowFinite
  <2>2. QED
    BY <2>1, FS_Subset, FS_CardinalityType
<1>5. Cardinality(CooldownWindow(a)) \in Nat /\ Cardinality(Pending(a)) \in Nat
  BY WindowFinite
<1>6. QED
  BY <1>1, <1>2, <1>3, <1>4, <1>5 DEF CooldownInv

\* An alert that is stored moves its goroutine from the pending ones of the cooldowns it
\* falls in to their alerts.
LEMMA CooldownOld ==
    ASSUME TypeOK, CooldownInv, NEW t \in Trade, pc[t] = "insertAlert",
           pc' = [pc EXCEPT ![t] = "send"], now' = now,
           NEW row, row.trade = t, row.created = now, alerts' = alerts \cup {row},
           NEW a \in alerts
    PROVE  Cardinality(CooldownWindow(a)') + Cardinality(Pending(a)') <= Workers
<1>0. /\ pc \in [Trade -> Label] /\ now \in Nat /\ Cooldown \in Nat /\ Workers \in Nat
      /\ a.created \in Nat /\ a.created <= now
      /\ Cardinality(CooldownWindow(a)) + Cardinality(Pending(a)) <= Workers
  BY ConstantsAssumption DEF TypeOK, CooldownInv
<1>1. /\ IsFiniteSet(CooldownWindow(a)) /\ Cardinality(CooldownWindow(a)) \in Nat
      /\ IsFiniteSet(Pending(a)) /\ Cardinality(Pending(a)) \in Nat
  BY WindowFinite
<1>2. Pending(a)' = Pending(a) \ {t}
  BY <1>0 DEF Pending
<1>3. CASE t \in Pending(a)
  <2>1. CooldownWindow(a)' = CooldownWindow(a) \cup {row}
    BY <1>0, <1>3 DEF CooldownWindow, Pending
  <2>2. Cardinality(CooldownWindow(a)') <= Cardinality(CooldownWindow(a)) + 1
        /\ Cardinality(CooldownWindow(a)') \in Nat
    <3>1. \/ Cardinality(CooldownWindow(a)') = Cardinality(CooldownWindow(a)) + 1
          \/ Cardinality(CooldownWindow(a)') = Cardinality(CooldownWindow(a))
      BY <1>1, <2>1, FS_AddElement
    <3>2. QED
      BY <1>1, <3>1
  <2>3. Cardinality(Pending(a)') = Cardinality(Pending(a)) - 1
    BY <1>1, <1>2, <1>3, FS_RemoveElement
  <2>4. QED
    BY <1>0, <1>1, <2>2, <2>3
<1>4. CASE t \notin Pending(a)
  <2>1. ~(ProxyWallet[t] = ProxyWallet[a.trade] /\ now < a.created + Cooldown)
    BY <1>4 DEF Pending
  <2>2. CooldownWindow(a)' = CooldownWindow(a)
    BY <1>0, <2>1 DEF CooldownWindow
  <2>3. Pending(a)' = Pending(a)
    BY <1>2, <1>4
  <2>4. QED
    BY <1>0, <2>2, <2>3
<1>5. QED
  BY <1>3, <1>4

\* The cooldown that a new alert starts holds the alerts of its second, which share it,
\* or itself alone and what the other workers still store.
LEMMA CooldownNew ==
    ASSUME TypeOK, WorkersConserved, CooldownInv, NEW t \in Trade, pc[t] = "insertAlert",
           pc' = [pc EXCEPT ![t] = "send"], now' = now,
           NEW row, row.trade = t, row.created = now, alerts' = alerts \cup {row}
    PROVE  Cardinality(CooldownWindow(row)') + Cardinality(Pending(row)') <= Workers
<1>0. /\ pc \in [Trade -> Label] /\ now \in Nat /\ Cooldown \in Nat /\ Workers \in Nat
      /\ pool \in Nat /\ IsFiniteSet(Trade)
      /\ \A a \in alerts : a.created \in Nat /\ a.created <= now
  BY ConstantsAssumption DEF TypeOK, CooldownInv
<1>1. CASE \E b \in alerts : ProxyWallet[b.trade] = ProxyWallet[t] /\ b.created = now
  <2>1. PICK b \in alerts : ProxyWallet[b.trade] = ProxyWallet[t] /\ b.created = now
    BY <1>1
  <2>2. CooldownWindow(row)' = CooldownWindow(b)' /\ Pending(row)' = Pending(b)'
    BY <2>1 DEF CooldownWindow, Pending
  <2>3. Cardinality(CooldownWindow(b)') + Cardinality(Pending(b)') <= Workers
    BY CooldownOld
  <2>4. QED
    BY <2>2, <2>3
<1>2. CASE \A b \in alerts : ProxyWallet[b.trade] = ProxyWallet[t] => b.created # now
  <2>1. CooldownWindow(row)' \subseteq {row}
    BY <1>0, <1>2 DEF CooldownWindow
  <2>2. Cardinality(CooldownWindow(row)') <= 1 /\ Cardinality(CooldownWindow(row)') \in Nat
    <3>1. IsFiniteSet({row}) /\ Cardinality({row}) = 1
      BY FS_Singleton
    <3>2. QED
      BY <2>1, <3>1, FS_Subset, FS_CardinalityType
  <2>3. Pending(row)' \subseteq Active \ {t} /\ t \in Active /\ Active \subseteq Trade
    BY <1>0 DEF Pending, Active
  <2>4. IsFiniteSet(Active) /\ Cardinality(Active) \in Nat
    BY <1>0, <2>3, FS_Subset, FS_CardinalityType
  <2>5. IsFiniteSet(Active \ {t}) /\ Cardinality(Active \ {t}) = Cardinality(Active) - 1
    BY <2>3, <2>4, FS_RemoveElement
  <2>6. Cardinality(Pending(row)') <= Cardinality(Active) - 1
        /\ Cardinality(Pending(row)') \in Nat
    BY <2>3, <2>5, FS_Subset, FS_CardinalityType
  <2>7. Cardinality(Active) <= Workers
    BY <1>0, <2>4 DEF WorkersConserved
  <2>8. QED
    BY <1>0, <2>2, <2>4, <2>6, <2>7
<1>3. QED
  BY <1>1, <1>2

\* A step keeps the bound: whoever looks after an alert was stored is stopped, and whoever
\* looked before has a worker.
LEMMA CooldownStep ==
    ASSUME ~Fails("GetLastAlert")
    PROVE  TypeOK /\ WorkersConserved /\ CooldownInv /\ [Next]_vars => CooldownInv'
<1> SUFFICES ASSUME TypeOK, WorkersConserved, CooldownInv, [Next]_vars PROVE CooldownInv'
  OBVIOUS
<1>0. TypeOK'
  BY TypeStep
<1>a. /\ now \in Nat /\ Cooldown \in Nat /\ pc \in [Trade -> Label]
      /\ \A a \in alerts : a.created \in Nat
  BY ConstantsAssumption DEF TypeOK
<1>1. CASE Tick
  <2>1. now' = now + 1 /\ alerts' = alerts /\ pc' = pc
    BY <1>1 DEF Tick
  <2>2. \A a \in alerts : Pending(a)' \subseteq Pending(a)
    BY <1>a, <2>1 DEF Pending
  <2>3. QED
    BY <1>0, <2>1, <2>2, CooldownFrame
<1>2. ASSUME NEW t \in Trade, CheckCooldown(t) PROVE CooldownInv'
  <2>1. alerts' = alerts /\ now' = now /\ \A u \in Trade \ {t} : pc'[u] = pc[u]
    BY <1>a, <1>2 DEF CheckCooldown, Return, Goto
  <2>2. pc'[t] = "insertAlert" => ~WithinCooldown(t)
    BY <1>a, <1>2 DEF CheckCooldown, Return, Goto
  <2>3. \A a \in alerts : Pending(a)' \subseteq Pending(a)
    BY <1>a, <2>1, <2>2 DEF Pending, WithinCooldown
  <2>4. QED
    BY <1>0, <2>1, <2>3, CooldownFrame
<1>3. ASSUME NEW t \in Trade, InsertAlert(t) PROVE CooldownInv'
  <2>1. now' = now /\ pc[t] = "insertAlert"
    BY <1>3 DEF InsertAlert
  <2>2. CASE alerts' = alerts /\ Return(t)
    <3>1. \A a \in alerts : Pending(a)' \subseteq Pending(a)
      BY <1>a, <2>1, <2>2 DEF Pending, Return, Goto
    <3>2. QED
      BY <1>0, <2>1, <2>2, <3>1, CooldownFrame
  <2>3. CASE alerts' = alerts \cup {AlertRow(t)} /\ Goto(t, "send")
    <3>1. PICK row : row.trade = t /\ row.created = now /\ alerts' = alerts \cup {row}
      BY <2>3, AlertRowType
    <3>2. pc' = [pc EXCEPT ![t] = "send"]
      BY <2>3 DEF Goto
    <3>3. \A a \in alerts : Cardinality(CooldownWindow(a)') + Cardinality(Pending(a)') <= Workers
      BY <2>1, <3>1, <3>2, CooldownOld
    <3>4. Cardinality(CooldownWindow(row)') + Cardinality(Pending(row)') <= Workers
      BY <2>1, <3>1, <3>2, CooldownNew
    <3>5. \A a \in alerts' : a.created <= now'
      BY <1>a, <2>1, <3>1 DEF CooldownInv
    <3>6. QED
      BY <3>1, <3>3, <3>4, <3>5 DEF CooldownInv
  <2>4. QED
    BY <1>3, <2>2, <2>3 DEF InsertAlert
<1>4. CASE AlertFrame
  <2>1. \A a \in alerts : Pending(a)' \subseteq Pending(a)
    BY <1>4 DEF AlertFrame, Pending
  <2>2. QED
    BY <1>0, <1>4, <2>1, CooldownFrame DEF AlertFrame
<1>5. QED
  BY <1>1, <1>2, <1>3, <1>4, AlertFrameStep

\* For any number of workers, if the last alert can be read, a wallet has at most one alert
\* per worker in the cooldown that an alert starts, across passes, errors and crashes.
THEOREM CooldownPerWorker ==
    ASSUME ~Fails("GetLastAlert")
    PROVE  Spec => []AlertsPerCooldown
<1>1. Init => CooldownInv
  BY DEF Init, CooldownInv
<1>2. TypeOK /\ WorkersConserved /\ CooldownInv /\ [Next]_vars => CooldownInv'
  BY CooldownStep
<1>3. TypeOK /\ CooldownInv => AlertsPerCooldown
  <2> SUFFICES ASSUME TypeOK, CooldownInv, NEW a \in alerts
               PROVE  Cardinality(CooldownWindow(a)) <= Workers
    BY DEF AlertsPerCooldown
  <2>1. Cardinality(CooldownWindow(a)) \in Nat /\ Cardinality(Pending(a)) \in Nat /\ Workers \in Nat
    BY WindowFinite, ConstantsAssumption
  <2>2. QED
    BY <2>1 DEF CooldownInv
<1>4. QED
  BY <1>1, <1>2, <1>3, TypeCorrect, WorkersNeverLost, PTL DEF Spec

=============================================================================
