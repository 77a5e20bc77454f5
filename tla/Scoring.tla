------------------------------ MODULE Scoring ------------------------------
(***************************************************************************)
(* The scoring of a trade in processTrade of internal/processor/           *)
(* processor.go.  Each goroutine stores its trade and then reads back the  *)
(* wallet's recent trades, twice, while other goroutines store theirs.     *)
(*                                                                         *)
(* Amounts are whole dollars, times are seconds, prices, rates and         *)
(* multipliers are per cent; products are rounded down.  Multipliers that  *)
(* are always 1.0 are left out: the cluster tables stay empty, as          *)
(* GetFromAddress returns no address, and isFirstTrade is never true: a    *)
(* new wallet's row starts at one trade.  Velocity detection is enabled,   *)
(* the default.                                                            *)
(***************************************************************************)
EXTENDS Integers, FiniteSetsExt

CONSTANTS
    Trade,
    ProxyWallet, ConditionID, Timestamp, Notional, Side, Price,  \* functions on Trade
    FirstActivity,   \* [wallet -> time of its first activity, its funding]
    EndDate,         \* [market -> closing time, 0 if unknown]
    LiquidityNum,    \* [market -> liquidity, 0 if unknown]
    StatsRows,       \* the rows of wallet_stats a read may find
    TimeToCloseMax,  \* TimeToCloseHoursMax * 3600
    VelocityWindow,  \* VelocityWindowMinutes * 60
    VelocityThreshold,
    PositionWindow,  \* NetPositionWindowHrs * 3600
    MinWinRate,      \* MinWinRateThreshold
    WarnScore, AlertScore,  \* SuspicionScoreWarn and SuspicionScoreAlert
    Faults           \* the calls that may return an error

Wallet == {ProxyWallet[t] : t \in Trade}
Call == {"GetWalletFirstActivity", "GetRecentTradesForWallet"}

ASSUME ScoringAssumption ==
    /\ IsFiniteSet(Trade)
    /\ FirstActivity \in [Wallet -> Nat \ {0}]
    /\ Timestamp \in [Trade -> Nat \ {0}]
    /\ Notional \in [Trade -> Nat \ {0}]
    /\ Side \in [Trade -> {"BUY", "SELL"}]
    /\ Price \in [Trade -> 0 .. 100]
    /\ EndDate \in [{ConditionID[t] : t \in Trade} -> Nat]
    /\ LiquidityNum \in [{ConditionID[t] : t \in Trade} -> Nat]
    /\ StatsRows \subseteq [total : Nat, wins : Nat]
    /\ TimeToCloseMax \in Nat \ {0} /\ VelocityWindow \in Nat /\ PositionWindow \in Nat
    /\ VelocityThreshold \in Nat \ {0}
    /\ Faults \subseteq Call

VARIABLES
    stored,   \* trades_seen
    wallets,  \* FirstSeenTS and FundingReceivedTS of the wallets with a row
    pc,       \* the next call of each trade's goroutine
    local     \* what it found out so far

vars == <<stored, wallets, pc, local>>

Fails(call) == call \in Faults

-----------------------------------------------------------------------------
(***************************************************************************)
(* The factors of the score.                                               *)
(***************************************************************************)
Day == 86400
FiveMinutes == 300

\* Go truncates towards zero, but an age below one day counts as one anyway.
WalletAgeDays(t) == (Timestamp[t] - wallets[ProxyWallet[t]].firstSeen) \div Day

\* 1 + 4 * (max - left) / max for a trade at most TimeToCloseMax before the close.  The
\* mutant has no upper limit.
TimeToCloseUnlimited(left) ==
    IF left > 0 THEN 100 + (400 * (TimeToCloseMax - left)) \div TimeToCloseMax ELSE 100
TimeToClose(left) ==
    IF left > 0 /\ left <= TimeToCloseMax
    THEN 100 + (400 * (TimeToCloseMax - left)) \div TimeToCloseMax
    ELSE 100

SecsToClose(t) ==
    LET end == EndDate[ConditionID[t]] IN IF end > 0 THEN end - Timestamp[t] ELSE 0

Multiply(score, multiplier) == (score * multiplier) \div 100

BaseScore(t) == Notional[t] \div Max({WalletAgeDays(t), 1})

calculateSuspicionScore(t) == Multiply(BaseScore(t), TimeToClose(SecsToClose(t)))

\* At least five resolved markets and a high win rate.
WinRateMultiplier(stats) ==
    IF stats.total >= 5 /\ 100 * stats.wins >= MinWinRate * stats.total
    THEN 100 + (100 * stats.wins) \div stats.total
    ELSE 100

\* Seconds between the funding of the wallet and its first trade, 0 if unknown.
FundingAge(w) ==
    IF wallets[w].funding > 0 /\ wallets[w].firstSeen >= wallets[w].funding
    THEN wallets[w].firstSeen - wallets[w].funding
    ELSE 0

FlashFundingMultiplier(age) == IF age > 0 /\ age <= FiveMinutes THEN 300 ELSE 100

FundingAgeMultiplier(age) ==
    IF age > 0 /\ age <= Day THEN 100 + (150 * (Day - age)) \div Day ELSE 100

\* The trade as a share of the market's liquidity.
LiquidityMultiplier(t) ==
    LET liquidity == LiquidityNum[ConditionID[t]]
        AtLeast(percent) == 100 * Notional[t] >= percent * liquidity
    IN  IF liquidity = 0 \/ 100 * Notional[t] <= 5 * liquidity THEN 100
        ELSE IF AtLeast(50) THEN 300
        ELSE IF AtLeast(20) THEN 200
        ELSE IF AtLeast(10) THEN 150
        ELSE 120

PriceConfidenceMultiplier(t) == IF Price[t] >= 85 \/ Price[t] <= 15 THEN 150 ELSE 100

VelocityMultiplier(count) ==
    IF count < VelocityThreshold THEN 100
    ELSE IF count >= 10 THEN 300
    ELSE IF count >= 5 THEN 200
    ELSE 150

\* More than 90 per cent of the volume on one side.
Concentrated(buy, sell) == 100 * Max({buy, sell}) > 90 * (buy + sell)

\* The multipliers, in the order the code applies them.
AdjustedScore(t, stats) ==
    LET age == FundingAge(ProxyWallet[t])
        s1 == Multiply(calculateSuspicionScore(t), WinRateMultiplier(stats))
        s2 == Multiply(s1, FlashFundingMultiplier(age))
        s3 == Multiply(s2, LiquidityMultiplier(t))
        s4 == Multiply(s3, PriceConfidenceMultiplier(t))
        s5 == Multiply(s4, IF local[t].concentrated THEN 150 ELSE 100)
        s6 == Multiply(s5, VelocityMultiplier(local[t].velocity))
    IN  Multiply(s6, FundingAgeMultiplier(age))

\* The normalised score is 100 * log(raw + 1) / log(1000001), capped at 100.  Here it is
\* the highest of these marks that it reaches; the thresholds are marks.
Mark == << <<0, 0>>, <<40, 252>>, <<60, 3982>>, <<70, 15849>>, <<85, 125893>>,
           <<100, 1000001>>, <<110, 3981077>> >>
\* The mutant forgets the cap.
normalizeScoreUncapped(raw) ==
    IF raw <= 0 THEN 0 ELSE Max({Mark[i][1] : i \in {j \in 1 .. 7 : raw + 1 >= Mark[j][2]}})
normalizeScore(raw) ==
    IF raw <= 0 THEN 0 ELSE Max({Mark[i][1] : i \in {j \in 1 .. 6 : raw + 1 >= Mark[j][2]}})

determineSeverity(score) ==
    IF score >= AlertScore THEN "ALERT" ELSE IF score >= WarnScore THEN "WARN" ELSE "INFO"

-----------------------------------------------------------------------------
(***************************************************************************)
(* processTrade for trade t.                                               *)
(***************************************************************************)
NoWallet == [firstSeen |-> 0, funding |-> 0]
NoLocal == [velocity |-> 0, concentrated |-> FALSE, base |-> 0, score |-> 0,
            normalized |-> 0, severity |-> "INFO"]

Init ==
    /\ stored = {}
    /\ wallets = [w \in Wallet |-> NoWallet]
    /\ pc = [t \in Trade |-> "wallet"]
    /\ local = [t \in Trade |-> NoLocal]

Goto(t, l) == pc' = [pc EXCEPT ![t] = l]

\* The times of a wallet's row, from its first activity or else from the trade; Processor
\* has the interleavings of this step.
getOrCreateWallet(t) ==
    LET w == ProxyWallet[t]
    IN  /\ pc[t] = "wallet"
        /\ Goto(t, "insert")
        /\ \/ wallets[w] # NoWallet /\ UNCHANGED wallets
           \/ /\ wallets[w] = NoWallet
              /\ wallets' = [wallets EXCEPT ![w] =
                               [firstSeen |-> FirstActivity[w], funding |-> FirstActivity[w]]]
           \/ /\ wallets[w] = NoWallet
              /\ Fails("GetWalletFirstActivity")
              /\ wallets' = [wallets EXCEPT ![w] = [firstSeen |-> Timestamp[t], funding |-> 0]]
        /\ UNCHANGED <<stored, local>>

InsertTrade(t) ==
    /\ pc[t] = "insert"
    /\ stored' = stored \cup {t}
    /\ Goto(t, "velocity")
    /\ UNCHANGED <<wallets, local>>

\* The wallet's stored trades since a moment before t.  The mutant also leaves out the
\* trades that are more recent than t.
RecentTradesUntil(t, window) ==
    {u \in stored : /\ ProxyWallet[u] = ProxyWallet[t]
                    /\ Timestamp[u] >= Timestamp[t] - window
                    /\ Timestamp[u] <= Timestamp[t]}
RecentTrades(t, window) ==
    {u \in stored : ProxyWallet[u] = ProxyWallet[t] /\ Timestamp[u] >= Timestamp[t] - window}

checkTradeVelocity(t) ==
    /\ pc[t] = "velocity"
    /\ \/ local' = [local EXCEPT ![t].velocity =
                       Cardinality(RecentTrades(t, VelocityWindow)) + 1]
       \/ Fails("GetRecentTradesForWallet") /\ UNCHANGED local
    /\ Goto(t, "concentration")
    /\ UNCHANGED <<stored, wallets>>

Volume(S, side) == MapThenSumSet(LAMBDA u : Notional[u], {u \in S : Side[u] = side})

\* The volume of each side of the market, with the trade itself added.
checkNetPositionConcentration(t) ==
    /\ pc[t] = "concentration"
    /\ \/ LET recent == {u \in RecentTrades(t, PositionWindow) : ConditionID[u] = ConditionID[t]}
              Own(side) == IF Side[t] = side THEN Notional[t] ELSE 0
              buy == Volume(recent, "BUY") + Own("BUY")
              sell == Volume(recent, "SELL") + Own("SELL")
          IN  local' = [local EXCEPT ![t].concentrated = Concentrated(buy, sell)]
       \/ Fails("GetRecentTradesForWallet") /\ UNCHANGED local
    /\ Goto(t, "alert")
    /\ UNCHANGED <<stored, wallets>>

\* GetWalletStats, the product of the multipliers and sendAlert.  The recalculation
\* writes the wallet's statistics meanwhile, so any row may be found.
Alert(t) ==
    /\ pc[t] = "alert"
    /\ \E stats \in StatsRows :
         LET score == AdjustedScore(t, stats)
         IN  local' = [local EXCEPT ![t].base = BaseScore(t), ![t].score = score,
                         ![t].normalized = normalizeScore(score),
                         ![t].severity = determineSeverity(normalizeScore(score))]
    /\ Goto(t, "done")
    /\ UNCHANGED <<stored, wallets>>

processTrade(t) ==
    \/ getOrCreateWallet(t) \/ InsertTrade(t) \/ checkTradeVelocity(t)
    \/ checkNetPositionConcentration(t) \/ Alert(t)

Next == \E t \in Trade : processTrade(t)

Spec == Init /\ [][Next]_vars

-----------------------------------------------------------------------------
(***************************************************************************)
(* Properties.                                                             *)
(***************************************************************************)
Alerted == {t \in Trade : pc[t] = "done"}

\* Every variable keeps its type; the normalised score is on the scale from 0 to 100.
TypeOK ==
    /\ stored \subseteq Trade
    /\ wallets \in [Wallet -> [firstSeen : Nat, funding : Nat]]
    /\ pc \in [Trade -> {"wallet", "insert", "velocity", "concentration", "alert", "done"}]
    /\ \A t \in Trade : /\ local[t].velocity \in Nat
                        /\ local[t].score \in Nat
                        /\ local[t].normalized \in 0 .. 100
                        /\ local[t].severity \in {"INFO", "WARN", "ALERT"}

\* A trade is stored before its wallet's recent trades are counted, so a burst cannot hide
\* behind concurrency or a wrong order of arrival: of any trades of one wallet within
\* one window, one goroutine at least has counted them all.
BurstSeen ==
    \A burst \in SUBSET {t \in Alerted : local[t].velocity > 0} :
        (/\ burst # {}
         /\ \A t, u \in burst : /\ ProxyWallet[t] = ProxyWallet[u]
                                /\ Timestamp[t] - Timestamp[u] <= VelocityWindow)
            => \E t \in burst : local[t].velocity >= Cardinality(burst)

\* The guards keep every multiplier at one or more: no closing time, funding time or
\* statistics makes a trade look less suspicious than its size and its wallet's age.
NeverBelowBase == \A t \in Alerted : local[t].score >= local[t].base

=============================================================================
