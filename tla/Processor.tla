----------------------------- MODULE Processor -----------------------------
(***************************************************************************)
(* ProcessTrades and processTrade of internal/processor/processor.go, with *)
(* the MySQL tables of internal/storage they read and write.               *)
(*                                                                         *)
(* One polling pass reads the checkpoint, fetches a page of trades and     *)
(* starts one goroutine per trade newer than the checkpoint.  A goroutine  *)
(* first takes a worker from the pool.  Every database call is one atomic  *)
(* step; between two calls any other goroutine may run, the process may    *)
(* crash (the container restarts it) and, where Faults says so, the call   *)
(* may return an error.                                                    *)
(***************************************************************************)
EXTENDS Integers, FiniteSets

CONSTANTS
    Trade,            \* the trades the Data API ever publishes
    TransactionHash,  \* [Trade -> hash or NoHash]
    NoHash,           \* the empty transactionHash field
    ProxyWallet,      \* [Trade -> wallet]
    ConditionID,      \* [Trade -> market]
    Timestamp,        \* [Trade -> Nat], seconds
    Amount,           \* [Trade -> the size and price of the trade]
    MarketFiltered,   \* trades whose market's category or end date excludes them
    Distant,          \* those excluded only while the end date is over two months away
    Rejected,         \* trades with a bad side, no outcome or too small a notional
    WindowSec,        \* NetPositionWindowHrs * 3600
    Workers,          \* WalletLookupWorkers
    PageLimit,        \* Limit of one GetTrades call (10000 in the code)
    Cooldown,         \* AlertCooldownMins * 60
    Faults,           \* the calls that may return an error
    LateTrades,       \* may a trade appear after a trade at least as recent?
    Free,             \* value of a wallet lock nobody holds
    MaxTime,          \* bound on the clock
    MaxCrashes        \* bound on the crashes

Wallet == {ProxyWallet[t] : t \in Trade}

Call == {"GetTrades", "SetState", "HasTradeSeen", "GetMarketMap", "GammaAPI",
         "GetWallet", "CreateWallet", "InsertTrade", "UpdateWallet",
         "NetPosition", "GetLastAlert", "InsertAlert", "Send"}

ASSUME ConstantsAssumption ==
    /\ IsFiniteSet(Trade)
    /\ Timestamp \in [Trade -> Nat \ {0}]
    /\ MarketFiltered \subseteq Trade /\ Distant \subseteq MarketFiltered
    /\ Rejected \subseteq Trade
    /\ WindowSec \in Nat \ {0}
    /\ Workers \in Nat \ {0}
    /\ PageLimit \in Nat \ {0}
    /\ Cooldown \in Nat
    /\ Faults \subseteq Call
    /\ LateTrades \in BOOLEAN
    /\ Free \notin Trade
    /\ MaxTime \in Nat
    /\ MaxCrashes \in Nat

VARIABLES
    \* the Data API and the wall clock
    published, now,
    \* the database, which survives a crash
    checkpoint,   \* app_state: last_processed_ts
    tradesSeen,   \* trades_seen: the stored trades
    wallets,      \* wallets.total_trades per wallet, NoRow if absent
    net,          \* wallet_market_net.trade_count per key, NoRow if absent
    alerts,       \* alerts: the rows, one per alert ever stored
    \* the goroutine running ProcessTrades
    mainPc, lastTS, batch,
    \* the goroutines running processTrade, and what they share
    pc,           \* the next call of each trade's goroutine
    local,        \* its local variables that outlive a call
    pool,         \* workers in the channel workerPool
    walletLocks,  \* holder of each wallet's mutex
    \* history, read by no guard
    filtered,     \* trades dropped by a filter or by the validation
    applied,      \* times a trade was added to its wallet's statistics
    delivered,    \* times the sender accepted an alert of a trade
    crashes, panicked

dbVars == <<checkpoint, tradesSeen, wallets, net, alerts>>
mainVars == <<mainPc, lastTS, batch>>
procVars == <<pc, local, pool, walletLocks>>
histVars == <<filtered, applied, delivered, crashes, panicked>>
vars == <<published, now, dbVars, mainVars, procVars, histVars>>

Fails(call) == call \in Faults

-----------------------------------------------------------------------------
(***************************************************************************)
(* Rows.  A stored wallet or net position always has a positive counter,   *)
(* so 0 stands for the absent row.                                         *)
(***************************************************************************)
NoRow == 0

\* gorm's Create gives a zero-valued field the default of its tag, in the row
\* and in the struct.
GormDefault(v, default) == IF v = 0 THEN default ELSE v

\* The total_trades that UpsertWallet leaves for a struct holding v.  In the mutant
\* the struct overwrites the row.
UpsertWalletOverwrite(row, v) == IF row = NoRow THEN GormDefault(v, 1) ELSE v
UpsertWallet(row, v) == IF row = NoRow THEN GormDefault(v, 1) ELSE row + v

\* The dedup key of a trade.
calculateTradeHash(t) ==
    IF TransactionHash[t] # NoHash
    THEN TransactionHash[t]
    ELSE <<ProxyWallet[t], ConditionID[t], Timestamp[t], Amount[t]>>

SameHash(t, u) == calculateTradeHash(t) = calculateTradeHash(u)

\* Is there a trades_seen row with t's primary key?
HasRow(t) == \E u \in tradesSeen : SameHash(t, u)

\* Key of t's row in wallet_market_net: the window is a fixed bucket.
windowStartTS(t) == (Timestamp[t] \div WindowSec) * WindowSec
NetKey(t) == <<ProxyWallet[t], ConditionID[t], windowStartTS(t)>>

\* Was an alert for t's wallet stored less than a cooldown ago?  The most recent one
\* decides.  The mutant lets go one second early.
WithinCooldownOff(t) == \E a \in alerts : /\ ProxyWallet[a.trade] = ProxyWallet[t]
                                          /\ now - a.created + 1 < Cooldown
WithinCooldown(t) == \E a \in alerts : /\ ProxyWallet[a.trade] = ProxyWallet[t]
                                       /\ now - a.created < Cooldown

-----------------------------------------------------------------------------
Label == {"idle", "queued", "seen", "resolve", "getWallet", "lock", "recheck",
          "create", "insert", "updateWallet", "netGet", "netFind", "netWrite",
          "cooldown", "insertAlert", "send"}

NoLocal == [totalTrades |-> 0, market |-> "info", count |-> 0, exists |-> FALSE]

Init ==
    /\ published = {} /\ now = 0
    /\ checkpoint = 0 /\ tradesSeen = {} /\ alerts = {}
    /\ wallets = [w \in Wallet |-> NoRow]
    /\ net = [k \in {NetKey(t) : t \in Trade} |-> NoRow]
    /\ mainPc = "idle" /\ lastTS = 0 /\ batch = {}
    /\ pc = [t \in Trade |-> "idle"]
    /\ local = [t \in Trade |-> NoLocal]
    /\ pool = Workers
    /\ walletLocks = [w \in Wallet |-> Free]
    /\ filtered = {}
    /\ applied = [t \in Trade |-> 0]
    /\ delivered = [t \in Trade |-> 0]
    /\ crashes = 0 /\ panicked = FALSE

-----------------------------------------------------------------------------
(***************************************************************************)
(* The environment.                                                        *)
(***************************************************************************)
\* The Data API starts to list a trade: the trades of the next second together or,
\* late, one trade of any second.
Publish(t) ==
    /\ t \notin published
    /\ \/ /\ \A u \in published : Timestamp[u] < Timestamp[t]
          /\ published' = published \cup {u \in Trade : Timestamp[u] = Timestamp[t]}
       \/ /\ LateTrades
          /\ published' = published \cup {t}
    /\ UNCHANGED <<now, dbVars, mainVars, procVars, histVars>>

Tick ==
    /\ now < MaxTime
    /\ now' = now + 1
    /\ UNCHANGED <<published, dbVars, mainVars, procVars, histVars>>

\* The process dies and restarts: everything but the database is lost.
LoseMemory ==
    /\ mainPc' = "idle" /\ lastTS' = 0 /\ batch' = {}
    /\ pc' = [t \in Trade |-> "idle"]
    /\ local' = [t \in Trade |-> NoLocal]
    /\ pool' = Workers
    /\ walletLocks' = [w \in Wallet |-> Free]

Crash ==
    /\ crashes < MaxCrashes
    /\ crashes' = crashes + 1
    /\ LoseMemory
    /\ UNCHANGED <<published, now, dbVars, filtered, applied, delivered, panicked>>

-----------------------------------------------------------------------------
(***************************************************************************)
(* ProcessTrades.                                                          *)
(***************************************************************************)
\* Reading the checkpoint opens a pass.  A failed read ends it at once, which
\* is a stuttering step.
GetState ==
    /\ mainPc = "idle"
    /\ mainPc' = "fetch"
    /\ lastTS' = checkpoint
    /\ UNCHANGED <<published, now, dbVars, batch, procVars, histVars>>

\* A page of GetTrades: the PageLimit most recent trades, ties in any order.  Where
\* trades may be late, a page may also miss trades that an earlier one had.
IsPage(page) ==
    /\ page \subseteq published
    /\ Cardinality(page) <= PageLimit
    /\ \/ page = published
       \/ /\ Cardinality(page) = PageLimit
          /\ \A t \in page, u \in published \ page : Timestamp[u] <= Timestamp[t]
       \/ LateTrades

\* The trades of a page that get a goroutine.  The mutant also starts the trades
\* of the checkpoint's own second.
IsNewInclusive(t) == Timestamp[t] >= lastTS
IsNew(t) == Timestamp[t] > lastTS

FetchTrades ==
    /\ mainPc = "fetch"
    /\ \/ \E page \in SUBSET published :
            /\ IsPage(page)
            /\ batch' = page
            /\ pc' = [t \in Trade |-> IF t \in page /\ IsNew(t) THEN "queued" ELSE pc[t]]
            /\ mainPc' = "wait"
       \/ /\ Fails("GetTrades")
          /\ mainPc' = "idle"
          /\ UNCHANGED <<batch, pc>>
    /\ UNCHANGED <<published, now, dbVars, lastTS, local, pool, walletLocks, histVars>>

\* wg.Wait() returns when every goroutine has.  The mutant does not wait.
AllReturnedEarly == TRUE
AllReturned == \A t \in Trade : pc[t] = "idle"

\* The checkpoint written for a page whose largest timestamp is maxTS.
NewCheckpointAlways(maxTS) == maxTS
NewCheckpoint(maxTS) == IF maxTS > lastTS THEN maxTS ELSE checkpoint

SetCheckpoint ==
    /\ mainPc = "wait"
    /\ AllReturned
    /\ mainPc' = "idle"
    /\ batch' = {} /\ lastTS' = 0
    /\ \/ batch = {} /\ UNCHANGED checkpoint
       \/ \E m \in batch :
            /\ \A t \in batch : Timestamp[t] <= Timestamp[m]
            /\ checkpoint' = NewCheckpoint(Timestamp[m])
       \/ Fails("SetState") /\ UNCHANGED checkpoint
    /\ UNCHANGED <<published, now, tradesSeen, wallets, net, alerts, procVars, histVars>>

-----------------------------------------------------------------------------
(***************************************************************************)
(* processTrade for trade t.                                               *)
(***************************************************************************)
Goto(t, l) == pc' = [pc EXCEPT ![t] = l]

\* The goroutine of t returns and its deferred send gives the worker back.  The mutant
\* keeps the worker.
ReturnLeaks(t) ==
    /\ Goto(t, "idle")
    /\ local' = [local EXCEPT ![t] = NoLocal]
    /\ UNCHANGED pool
Return(t) ==
    /\ Goto(t, "idle")
    /\ local' = [local EXCEPT ![t] = NoLocal]
    /\ pool' = pool + 1

\* The receive from workerPool blocks while it is empty; in the mutant it does not.
AcquireWorkerFreely(t) ==
    /\ pc[t] = "queued"
    /\ pool' = pool - 1
    /\ Goto(t, "seen")
    /\ UNCHANGED <<published, now, dbVars, mainVars, local, walletLocks, histVars>>
AcquireWorker(t) ==
    /\ pc[t] = "queued"
    /\ pool > 0
    /\ pool' = pool - 1
    /\ Goto(t, "seen")
    /\ UNCHANGED <<published, now, dbVars, mainVars, local, walletLocks, histVars>>

HasTradeSeen(t) ==
    /\ pc[t] = "seen"
    /\ \/ HasRow(t) /\ Return(t)
       \/ ~HasRow(t) /\ Goto(t, "resolve") /\ UNCHANGED <<local, pool>>
       \/ Fails("HasTradeSeen") /\ Return(t)
    /\ UNCHANGED <<published, now, dbVars, mainVars, walletLocks, histVars>>

\* The market info that resolveMarket may return.  A failed cache read leaves it nil;
\* a failed Gamma call leaves the title and slug of the trade, without the category and
\* the end date.  A fresh row of market_map answers like Gamma, so the cache is not
\* state here.
resolveMarket(market) ==
    /\ market = "fallback" => Fails("GammaAPI")
    /\ market = "nil" => Fails("GetMarketMap")

\* The filters on the market and the validation of the trade: may they drop t, and
\* may they let it pass?  The trade's own slug may be enough to drop it.
MayDrop(t, market) == t \in Rejected \/ (market # "nil" /\ t \in MarketFiltered)
MayPass(t, market) ==
    t \notin Rejected /\ (market = "info" => t \notin MarketFiltered \ Distant)

ResolveMarket(t) ==
    /\ pc[t] = "resolve"
    /\ \E market \in {"info", "fallback", "nil"} :
         /\ resolveMarket(market)
         /\ \/ /\ MayDrop(t, market)
               /\ filtered' = filtered \cup {t}
               /\ Return(t)
            \/ /\ MayPass(t, market)
               /\ Goto(t, "getWallet")
               /\ local' = [local EXCEPT ![t].market = market]
               /\ UNCHANGED <<filtered, pool>>
    /\ UNCHANGED <<published, now, dbVars, mainVars, walletLocks,
                   applied, delivered, crashes, panicked>>

-----------------------------------------------------------------------------
(***************************************************************************)
(* getOrCreateWallet.                                                      *)
(***************************************************************************)
Row(t) == wallets[ProxyWallet[t]]

\* getOrCreateWallet returns a wallet struct holding v.
GotWallet(t, v) ==
    /\ Goto(t, "insert")
    /\ local' = [local EXCEPT ![t].totalTrades = v]
    /\ UNCHANGED pool

GetWallet(t) ==
    /\ pc[t] = "getWallet"
    /\ \/ Row(t) # NoRow /\ GotWallet(t, Row(t))
       \/ Row(t) = NoRow /\ Goto(t, "lock") /\ UNCHANGED <<local, pool>>
       \/ Fails("GetWallet") /\ Return(t)
    /\ UNCHANGED <<published, now, dbVars, mainVars, walletLocks, histVars>>

\* The mutex is free for t to take.
LockFree(t) == walletLocks[ProxyWallet[t]] = Free

LockWallet(t) ==
    /\ pc[t] = "lock"
    /\ LockFree(t)
    /\ walletLocks' = [walletLocks EXCEPT ![ProxyWallet[t]] = t]
    /\ Goto(t, "recheck")
    /\ UNCHANGED <<published, now, dbVars, mainVars, local, pool, histVars>>

\* The deferred Unlock runs on every way out of getOrCreateWallet.
Unlock(t) == walletLocks' = [walletLocks EXCEPT ![ProxyWallet[t]] = Free]

\* The mutant skips the second lookup.
RecheckWalletSkipped(t) ==
    /\ pc[t] = "recheck"
    /\ Goto(t, "create")
    /\ UNCHANGED <<published, now, dbVars, mainVars, local, pool, walletLocks, histVars>>
RecheckWallet(t) ==
    /\ pc[t] = "recheck"
    /\ \/ Row(t) # NoRow /\ GotWallet(t, Row(t)) /\ Unlock(t)
       \/ Row(t) = NoRow /\ Goto(t, "create") /\ UNCHANGED <<local, pool, walletLocks>>
       \/ Fails("GetWallet") /\ Return(t) /\ Unlock(t)
    /\ UNCHANGED <<published, now, dbVars, mainVars, histVars>>

\* The first-activity request and the insertion of the wallet with TotalTrades 0.
\* Only a holder of the mutex inserts, so the two calls of UpsertWallet are one step.
\* The mutant returns an error without unlocking.
CreateWalletKeepsLock(t) ==
    /\ pc[t] = "create"
    /\ \/ /\ wallets' = [wallets EXCEPT ![ProxyWallet[t]] = UpsertWallet(@, 0)]
          /\ GotWallet(t, IF Row(t) = NoRow THEN UpsertWallet(NoRow, 0) ELSE 0)
          /\ Unlock(t)
       \/ /\ Fails("CreateWallet")
          /\ Return(t)
          /\ UNCHANGED <<wallets, walletLocks>>
    /\ UNCHANGED <<published, now, checkpoint, tradesSeen, net, alerts, mainVars, histVars>>
CreateWallet(t) ==
    /\ pc[t] = "create"
    /\ \/ /\ wallets' = [wallets EXCEPT ![ProxyWallet[t]] = UpsertWallet(@, 0)]
          /\ GotWallet(t, IF Row(t) = NoRow THEN UpsertWallet(NoRow, 0) ELSE 0)
       \/ /\ Fails("CreateWallet")
          /\ Return(t)
          /\ UNCHANGED wallets
    /\ Unlock(t)
    /\ UNCHANGED <<published, now, checkpoint, tradesSeen, net, alerts, mainVars, histVars>>

-----------------------------------------------------------------------------
(***************************************************************************)
(* Storing the trade and updating the statistics.                          *)
(***************************************************************************)
\* A row with the same key makes the insertion fail.  One mutant overwrites it, the
\* other goes on after an error.
InsertTradeUpsert(t) ==
    /\ pc[t] = "insert"
    /\ tradesSeen' = tradesSeen \cup {t}
    /\ Goto(t, "updateWallet")
    /\ UNCHANGED <<published, now, checkpoint, wallets, net, alerts, mainVars,
                   local, pool, walletLocks, histVars>>
InsertTradeGoesOn(t) ==
    /\ pc[t] = "insert"
    /\ \/ ~HasRow(t) /\ tradesSeen' = tradesSeen \cup {t}
       \/ (HasRow(t) \/ Fails("InsertTrade")) /\ UNCHANGED tradesSeen
    /\ Goto(t, "updateWallet")
    /\ UNCHANGED <<published, now, checkpoint, wallets, net, alerts, mainVars,
                   local, pool, walletLocks, histVars>>
InsertTrade(t) ==
    /\ pc[t] = "insert"
    /\ \/ /\ ~HasRow(t)
          /\ tradesSeen' = tradesSeen \cup {t}
          /\ Goto(t, "updateWallet")
          /\ UNCHANGED <<local, pool>>
       \/ /\ HasRow(t) \/ Fails("InsertTrade")
          /\ Return(t)
          /\ UNCHANGED tradesSeen
    /\ UNCHANGED <<published, now, checkpoint, wallets, net, alerts, mainVars,
                   walletLocks, histVars>>

\* wallet.TotalTrades++ and UpsertWallet, whose UPDATE adds the struct's total to
\* the row.  The row exists, so the existence check and the UPDATE are one step.
UpdateWallet(t) ==
    /\ pc[t] = "updateWallet"
    /\ \/ /\ wallets' = [wallets EXCEPT ![ProxyWallet[t]] =
                            UpsertWallet(@, local[t].totalTrades + 1)]
          /\ applied' = [applied EXCEPT ![t] = @ + 1]
       \/ Fails("UpdateWallet") /\ UNCHANGED <<wallets, applied>>
    /\ Goto(t, "netGet")
    /\ UNCHANGED <<published, now, checkpoint, tradesSeen, net, alerts, mainVars,
                   local, pool, walletLocks, filtered, delivered, crashes, panicked>>

\* GetNetPosition and the accumulation of updateNetPosition.
NetGet(t) ==
    /\ pc[t] = "netGet"
    /\ \/ /\ local' = [local EXCEPT ![t].count = net[NetKey(t)] + 1]
          /\ Goto(t, "netFind")
       \/ Fails("NetPosition") /\ Goto(t, "cooldown") /\ UNCHANGED local
    /\ UNCHANGED <<published, now, dbVars, mainVars, pool, walletLocks, histVars>>

\* The existence check of UpsertNetPosition.
NetFind(t) ==
    /\ pc[t] = "netFind"
    /\ \/ /\ local' = [local EXCEPT ![t].exists = net[NetKey(t)] # NoRow]
          /\ Goto(t, "netWrite")
       \/ Fails("NetPosition") /\ Goto(t, "cooldown") /\ UNCHANGED local
    /\ UNCHANGED <<published, now, dbVars, mainVars, pool, walletLocks, histVars>>

\* Its Create, which fails if the row appeared meanwhile, or its UPDATE.
NetWrite(t) ==
    /\ pc[t] = "netWrite"
    /\ \/ /\ local[t].exists \/ net[NetKey(t)] = NoRow
          /\ net' = [net EXCEPT ![NetKey(t)] = @ + local[t].count]
       \/ /\ ~local[t].exists /\ net[NetKey(t)] # NoRow
          /\ UNCHANGED net
       \/ Fails("NetPosition") /\ UNCHANGED net
    /\ Goto(t, "cooldown")
    /\ UNCHANGED <<published, now, checkpoint, tradesSeen, wallets, alerts, mainVars,
                   local, pool, walletLocks, histVars>>

-----------------------------------------------------------------------------
(***************************************************************************)
(* sendAlert.  The scoring before it changes no table (the cluster tables  *)
(* stay empty, as GetFromAddress returns no address) and every severity is *)
(* sent, so it is not a step here.                                         *)
(***************************************************************************)
CheckCooldown(t) ==
    /\ pc[t] = "cooldown"
    /\ \/ WithinCooldown(t) /\ Return(t)
       \/ /\ ~WithinCooldown(t) \/ Fails("GetLastAlert")
          /\ Goto(t, "insertAlert")
          /\ UNCHANGED <<local, pool>>
    /\ UNCHANGED <<published, now, dbVars, mainVars, walletLocks, histVars>>

\* Every alert gets a row of its own: nth, which stands for the auto-increment id, tells
\* it from the earlier rows of the same trade.
AlertRow(t) == [trade |-> t, created |-> now,
                nth |-> Cardinality({a \in alerts : a.trade = t})]

\* Building the row dereferences marketInfo: nil panics and kills the process.
InsertAlert(t) ==
    /\ pc[t] = "insertAlert"
    /\ local[t].market # "nil"
    /\ \/ /\ alerts' = alerts \cup {AlertRow(t)}
          /\ Goto(t, "send")
          /\ UNCHANGED <<local, pool>>
       \/ Fails("InsertAlert") /\ Return(t) /\ UNCHANGED alerts
    /\ UNCHANGED <<published, now, checkpoint, tradesSeen, wallets, net, mainVars,
                   walletLocks, histVars>>

Panic(t) ==
    /\ pc[t] = "insertAlert"
    /\ local[t].market = "nil"
    /\ panicked' = TRUE
    /\ LoseMemory
    /\ UNCHANGED <<published, now, dbVars, filtered, applied, delivered, crashes>>

SendAlert(t) ==
    /\ pc[t] = "send"
    /\ \/ delivered' = [delivered EXCEPT ![t] = @ + 1]
       \/ Fails("Send") /\ UNCHANGED delivered
    /\ Return(t)
    /\ UNCHANGED <<published, now, dbVars, mainVars, walletLocks,
                   filtered, applied, crashes, panicked>>

-----------------------------------------------------------------------------
ProcessTrades == GetState \/ FetchTrades \/ SetCheckpoint

processTrade(t) ==
    \/ AcquireWorker(t) \/ HasTradeSeen(t) \/ ResolveMarket(t)
    \/ GetWallet(t) \/ LockWallet(t) \/ RecheckWallet(t) \/ CreateWallet(t)
    \/ InsertTrade(t) \/ UpdateWallet(t)
    \/ NetGet(t) \/ NetFind(t) \/ NetWrite(t)
    \/ CheckCooldown(t) \/ InsertAlert(t) \/ Panic(t) \/ SendAlert(t)

Next ==
    \/ ProcessTrades
    \/ \E t \in Trade : processTrade(t)
    \/ \E t \in Trade : Publish(t)
    \/ Tick
    \/ Crash

Spec == Init /\ [][Next]_vars

\* The ticker starts a pass again and again; a goroutine that can run is run.
Fairness ==
    /\ WF_vars(ProcessTrades)
    /\ \A t \in Trade : WF_vars(processTrade(t))

FairSpec == Spec /\ Fairness

-----------------------------------------------------------------------------
(***************************************************************************)
(* Properties.                                                             *)
(***************************************************************************)
\* The goroutines that hold a worker.
Active == {t \in Trade : pc[t] \notin {"idle", "queued"}}

Local == [totalTrades : Nat, market : {"info", "fallback", "nil"},
          count : Nat, exists : BOOLEAN]

\* Every variable keeps its type through every call, error, crash and panic.
TypeOK ==
    /\ published \subseteq Trade /\ now \in Nat
    /\ checkpoint \in Nat /\ tradesSeen \subseteq Trade
    /\ wallets \in [Wallet -> Nat]
    /\ net \in [{NetKey(t) : t \in Trade} -> Nat]
    /\ alerts \subseteq [trade : Trade, created : Nat, nth : Nat] /\ IsFiniteSet(alerts)
    /\ mainPc \in {"idle", "fetch", "wait"} /\ lastTS \in Nat
    /\ batch \subseteq Trade
    /\ pc \in [Trade -> Label] /\ local \in [Trade -> Local]
    /\ pool \in Nat
    /\ walletLocks \in [Wallet -> Trade \cup {Free}]
    /\ filtered \subseteq Trade
    /\ applied \in [Trade -> Nat] /\ delivered \in [Trade -> Nat]
    /\ crashes \in Nat /\ panicked \in BOOLEAN

\* Deduplication (HasTradeSeen, then the primary key of trades_seen): a trade is
\* added to its wallet's statistics at most once, and so is at most one of the trades
\* with the same hash, across passes, concurrent goroutines, errors and crashes.
OncePerHash ==
    /\ \A t \in Trade : applied[t] <= 1
    /\ \A t, u \in Trade :
         applied[t] > 0 /\ applied[u] > 0 /\ SameHash(t, u) => t = u

\* The barrier of wg.Wait: the stored checkpoint never covers a trade whose
\* goroutine is still running, so a crash cannot lose a trade half done.
NoInFlightBelowCheckpoint ==
    \A t \in Trade : pc[t] # "idle" => Timestamp[t] > checkpoint

\* The checkpoint never moves back, whatever page the Data API returns.
CheckpointMonotone == [][checkpoint' >= checkpoint]_vars

\* The mutex and the second lookup of getOrCreateWallet: the first activity of a
\* wallet is requested only while the wallet has no row, by one goroutine at a time.
NoDuplicateLookup ==
    \A t \in Trade : pc[t] = "create" =>
        /\ Row(t) = NoRow
        /\ \A u \in Trade \ {t} : pc[u] = "create" => ProxyWallet[u] # ProxyWallet[t]

\* The channel workerPool: on every way out of processTrade the worker comes back
\* exactly once, so free workers and busy goroutines always add up.
WorkersConserved == pool + Cardinality(Active) = Workers

\* The relative UPDATE of UpsertWallet: no concurrent update of a wallet is lost.
\* The row counts its creation and at least one for every trade applied.
NoLostWalletUpdate ==
    \A w \in Wallet :
        LET Applied == {t \in Trade : ProxyWallet[t] = w /\ applied[t] > 0}
        IN  Applied # {} => wallets[w] > Cardinality(Applied)

\* The alerts of a's wallet stored with a or less than a cooldown after it.
CooldownWindow(a) ==
    {b \in alerts : /\ ProxyWallet[b.trade] = ProxyWallet[a.trade]
                    /\ a.created <= b.created /\ b.created < a.created + Cooldown}

\* The cooldown of sendAlert reads the last alert and stores the new one in two calls.
\* Goroutines between the two escape it, but each holds a worker, and whoever looks after
\* the first of them stored its alert is stopped: a wallet has at most one alert per
\* worker in the cooldown that an alert starts, across passes and crashes.
AlertsPerCooldown == \A a \in alerts : Cardinality(CooldownWindow(a)) <= Workers

\* The trade is stored before its alert, and the alert before it is sent: no trade, and
\* no transaction, is alerted on twice, although a crash makes the next pass fetch it
\* again, and what was delivered is on record for the cooldown.
AlertedOnce ==
    /\ \A a, b \in alerts : SameHash(a.trade, b.trade) => a = b
    /\ \A t \in Trade : /\ delivered[t] <= 1
                        /\ delivered[t] > 0 => \E a \in alerts : a.trade = t

\* A trade is done with: a filter dropped it, or trades_seen has its hash.
Handled(t) == t \in filtered \/ HasRow(t)

\* What the checkpoint stands for: every published trade it covers is done with.
Watermark == \A t \in published : Timestamp[t] <= checkpoint => Handled(t)

\* The ledger the processor keeps: its tables and what reached the wallets and the
\* channel.
Ledger == INSTANCE TradeLedger WITH
    Key <- [t \in Trade |-> calculateTradeHash(t)],
    recorded <- tradesSeen, counted <- applied, alerted <- alerts, mark <- checkpoint

\* Passes, goroutines, errors, crashes and panics together only ever do what TradeLedger
\* allows: each transaction is stored once, and counted and alerted on at most once, in
\* that order, by the goroutine of the trade that was stored.
ImplementsLedger == Ledger!Spec

\* A pass always ends: no error path keeps a worker or a wallet mutex that the
\* others wait for.
PassCompletes == mainPc = "wait" ~> mainPc = "idle"

\* Every published trade is done with, in spite of crashes.
EveryTradeHandled == \A t \in Trade : t \in published ~> Handled(t)

(***************************************************************************)
(* What comments and docs say and the code does not do.                    *)
(***************************************************************************)
\* "Cooldown between alerts for same wallet": two alerts of one wallet are a cooldown
\* apart.
CooldownRespected ==
    \A a, b \in alerts :
        a # b /\ ProxyWallet[a.trade] = ProxyWallet[b.trade] /\ a.created <= b.created
            => b.created - a.created >= Cooldown

\* "Failed to resolve market" is a warning: no trade kills the process.
NoPanic == ~panicked

=============================================================================
