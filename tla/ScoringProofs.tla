---------------------------- MODULE ScoringProofs ----------------------------
(***************************************************************************)
(* Proofs about Scoring, for every set of trades, wallets, markets, rows   *)
(* of statistics and thresholds, and any failing calls.                    *)
(***************************************************************************)
EXTENDS Scoring, FiniteSetTheorems, WellFoundedInduction, TLAPS

-----------------------------------------------------------------------------
(***************************************************************************)
(* The operators.                                                          *)
(***************************************************************************)
\* Max finds the greatest element of a non-empty, bounded set of natural numbers.
LEMMA MaxType ==
    ASSUME NEW S \in SUBSET Nat, S # {}, NEW n \in Nat, \A x \in S : x <= n
    PROVE  Max(S) \in S
<1> DEFINE Below == {pair \in Nat \X Nat : pair[1] < pair[2]}
           T == {n - x : x \in S}
<1>1. IsWellFoundedOn(Below, Nat)
  BY NatLessThanWellFounded DEF OpToRel
<1>2. T \subseteq Nat /\ T # {}
  <2>1. \A x \in S : n - x \in Nat
    OBVIOUS
  <2>2. PICK x \in S : TRUE
    OBVIOUS
  <2>3. n - x \in T
    OBVIOUS
  <2>4. QED
    BY <2>1, <2>3
<1>3. PICK y \in T : \A z \in T : <<z, y>> \notin Below
  <2> HIDE DEF Below, T
  <2>1. QED
    BY <1>1, <1>2, WFMin
<1>4. \A z \in T : y <= z
  <2>0. y \in Nat
    BY <1>2, <1>3
  <2>1. SUFFICES ASSUME NEW z \in T, ~(y <= z) PROVE FALSE
    OBVIOUS
  <2>2. z \in Nat
    <3> HIDE DEF T
    <3>1. QED
      BY <1>2
  <2>3. <<z, y>> \in Below
    <3> HIDE DEF T
    <3>1. QED
      BY <2>0, <2>1, <2>2
  <2>4. QED
    BY <2>3, <1>3
<1>5. PICK x \in S : y = n - x
  OBVIOUS
<1>6. \A z \in S : x >= z
  BY <1>4, <1>5
<1>7. QED
  BY <1>6 DEF Max

\* Division keeps natural numbers natural.
LEMMA DivType ==
    ASSUME NEW a \in Nat, NEW b \in Nat \ {0}
    PROVE  a \div b \in Nat
OBVIOUS

\* A multiplier of at least one never lowers a score.
LEMMA MultiplyRaises ==
    ASSUME NEW score \in Nat, NEW multiplier \in Nat, multiplier >= 100
    PROVE  Multiply(score, multiplier) \in Nat /\ Multiply(score, multiplier) >= score
<1>1. score * multiplier \in Nat /\ score * multiplier >= score * 100
  OBVIOUS
<1>2. QED
  BY <1>1 DEF Multiply

\* The greater of an age and one day.
LEMMA AgeType ==
    ASSUME NEW age \in Int
    PROVE  Max({age, 1}) \in Nat \ {0}
<1>1. \E m \in {age, 1} : \A y \in {age, 1} : m >= y
  <2>1. CASE age >= 1
    BY <2>1
  <2>2. CASE ~(age >= 1)
    BY <2>2
  <2>3. QED
    BY <2>1, <2>2
<1>2. Max({age, 1}) \in {age, 1} /\ \A y \in {age, 1} : Max({age, 1}) >= y
  BY <1>1 DEF Max
<1>3. Max({age, 1}) >= 1
  BY <1>2
<1>4. QED
  BY <1>2, <1>3

\* The marks, and so the normalised score, end at 100.
LEMMA NormalizeType ==
    ASSUME NEW raw \in Nat
    PROVE  normalizeScore(raw) \in 0 .. 100
<1>1. CASE raw <= 0
  BY <1>1 DEF normalizeScore
<1>2. CASE ~(raw <= 0)
  <2> DEFINE M == {Mark[i][1] : i \in {j \in 1 .. 6 : raw + 1 >= Mark[j][2]}}
  <2>1. \A i \in 1 .. 6 : Mark[i][1] \in 0 .. 100
    BY DEF Mark
  <2>2. M \subseteq 0 .. 100
    BY <2>1
  <2>3. Mark[1][1] \in M
    BY DEF Mark
  <2>4. Max(M) \in M
    <3> HIDE DEF M
    <3>1. M \in SUBSET Nat /\ M # {} /\ 100 \in Nat /\ \A x \in M : x <= 100
      BY <2>2, <2>3
    <3>2. QED
      BY <3>1, MaxType
  <2>5. normalizeScore(raw) = Max(M)
    BY <1>2 DEF normalizeScore
  <2> HIDE DEF M
  <2>6. QED
    BY <2>2, <2>4, <2>5
<1>3. QED
  BY <1>1, <1>2

LEMMA SeverityType ==
    ASSUME NEW score
    PROVE  determineSeverity(score) \in {"INFO", "WARN", "ALERT"}
BY DEF determineSeverity

\* A number of per cent that a guard keeps at one hundred or more.
Raises == {m \in Nat : m >= 100}

\* A trade close to the end of its market, or long before it.
LEMMA TimeToCloseRaises ==
    ASSUME NEW left \in Int
    PROVE  TimeToClose(left) \in Raises
<1>1. CASE left > 0 /\ left <= TimeToCloseMax
  <2>1. TimeToCloseMax \in Nat \ {0}
    BY ScoringAssumption
  <2>2. 400 * (TimeToCloseMax - left) \in Nat
    BY <1>1, <2>1
  <2>3. (400 * (TimeToCloseMax - left)) \div TimeToCloseMax \in Nat
    BY <2>1, <2>2, DivType
  <2>4. QED
    BY <1>1, <2>3 DEF TimeToClose, Raises
<1>2. CASE ~(left > 0 /\ left <= TimeToCloseMax)
  BY <1>2 DEF TimeToClose, Raises
<1>3. QED
  BY <1>1, <1>2

LEMMA WinRateRaises ==
    ASSUME NEW stats \in StatsRows
    PROVE  WinRateMultiplier(stats) \in Raises
<1>1. stats.total \in Nat /\ stats.wins \in Nat
  BY ScoringAssumption
<1>2. CASE stats.total >= 5 /\ 100 * stats.wins >= MinWinRate * stats.total
  <2>1. stats.total \in Nat \ {0} /\ 100 * stats.wins \in Nat
    BY <1>1, <1>2
  <2>2. (100 * stats.wins) \div stats.total \in Nat
    BY <2>1, DivType
  <2>3. QED
    BY <1>2, <2>2 DEF WinRateMultiplier, Raises
<1>3. CASE ~(stats.total >= 5 /\ 100 * stats.wins >= MinWinRate * stats.total)
  BY <1>3 DEF WinRateMultiplier, Raises
<1>4. QED
  BY <1>2, <1>3

LEMMA FundingAgeRaises ==
    ASSUME NEW age \in Nat
    PROVE  FundingAgeMultiplier(age) \in Raises
<1>1. CASE age > 0 /\ age <= Day
  <2>1. 150 * (Day - age) \in Nat /\ Day \in Nat \ {0}
    BY <1>1 DEF Day
  <2>2. (150 * (Day - age)) \div Day \in Nat
    BY <2>1, DivType
  <2>3. QED
    BY <1>1, <2>2 DEF FundingAgeMultiplier, Raises
<1>2. CASE ~(age > 0 /\ age <= Day)
  BY <1>2 DEF FundingAgeMultiplier, Raises
<1>3. QED
  BY <1>1, <1>2

\* The multipliers that are chosen from a table.
LEMMA TableRaises ==
    /\ \A age : FlashFundingMultiplier(age) \in Raises
    /\ \A t : LiquidityMultiplier(t) \in Raises
    /\ \A t : PriceConfidenceMultiplier(t) \in Raises
    /\ \A count : VelocityMultiplier(count) \in Raises
BY DEF FlashFundingMultiplier, LiquidityMultiplier, PriceConfidenceMultiplier,
       VelocityMultiplier, Raises

LEMMA MultiplyType ==
    ASSUME NEW score \in Nat, NEW multiplier \in Raises
    PROVE  Multiply(score, multiplier) \in Nat /\ Multiply(score, multiplier) >= score
BY MultiplyRaises DEF Raises

-----------------------------------------------------------------------------
(***************************************************************************)
(* The score of a trade, in a state in which the wallets have their type.  *)
(***************************************************************************)
WalletsOK == wallets \in [Wallet -> [firstSeen : Nat, funding : Nat]]

LEMMA TradeConstants ==
    ASSUME NEW t \in Trade
    PROVE  /\ ProxyWallet[t] \in Wallet
           /\ Timestamp[t] \in Nat \ {0} /\ Notional[t] \in Nat \ {0}
           /\ EndDate[ConditionID[t]] \in Nat
           /\ FirstActivity[ProxyWallet[t]] \in Nat \ {0}
<1>1. ProxyWallet[t] \in Wallet
  BY DEF Wallet
<1>2. QED
  BY <1>1, ScoringAssumption

LEMMA BaseScoreType ==
    ASSUME WalletsOK, NEW t \in Trade
    PROVE  BaseScore(t) \in Nat
<1>1. wallets[ProxyWallet[t]].firstSeen \in Nat
  BY TradeConstants DEF WalletsOK
<1>2. WalletAgeDays(t) \in Int
  BY <1>1, TradeConstants DEF WalletAgeDays, Day
<1>3. Max({WalletAgeDays(t), 1}) \in Nat \ {0}
  BY <1>2, AgeType
<1>4. QED
  BY <1>3, TradeConstants, DivType DEF BaseScore

LEMMA FundingAgeType ==
    ASSUME WalletsOK, NEW w \in Wallet
    PROVE  FundingAge(w) \in Nat
BY DEF WalletsOK, FundingAge

\* No multiplier lowers the score, whichever row of statistics was read.
LEMMA AdjustedScoreRaises ==
    ASSUME WalletsOK, NEW t \in Trade, NEW stats \in StatsRows
    PROVE  AdjustedScore(t, stats) \in Nat /\ AdjustedScore(t, stats) >= BaseScore(t)
<1> DEFINE age == FundingAge(ProxyWallet[t])
           s0 == calculateSuspicionScore(t)
           s1 == Multiply(s0, WinRateMultiplier(stats))
           s2 == Multiply(s1, FlashFundingMultiplier(age))
           s3 == Multiply(s2, LiquidityMultiplier(t))
           s4 == Multiply(s3, PriceConfidenceMultiplier(t))
           m5 == IF local[t].concentrated THEN 150 ELSE 100
           s5 == Multiply(s4, m5)
           s6 == Multiply(s5, VelocityMultiplier(local[t].velocity))
           s7 == Multiply(s6, FundingAgeMultiplier(age))
<1>1. AdjustedScore(t, stats) = s7
  BY DEF AdjustedScore
<1>2. age \in Nat
  BY FundingAgeType, TradeConstants
<1>3. SecsToClose(t) \in Int
  BY TradeConstants DEF SecsToClose
<1>4. BaseScore(t) \in Nat
  BY BaseScoreType
<1>5. m5 \in Raises
  BY DEF Raises
<1> HIDE DEF age, m5
<1>6. s0 \in Nat /\ s0 >= BaseScore(t)
  <2>1. TimeToClose(SecsToClose(t)) \in Raises
    BY <1>3, TimeToCloseRaises
  <2>2. QED
    BY <1>4, <2>1, MultiplyType DEF calculateSuspicionScore
<1> HIDE DEF s0
<1>7. s1 \in Nat /\ s1 >= s0
  BY <1>6, WinRateRaises, MultiplyType
<1> HIDE DEF s1
<1>8. s2 \in Nat /\ s2 >= s1
  BY <1>7, TableRaises, MultiplyType
<1> HIDE DEF s2
<1>9. s3 \in Nat /\ s3 >= s2
  BY <1>8, TableRaises, MultiplyType
<1> HIDE DEF s3
<1>10. s4 \in Nat /\ s4 >= s3
  BY <1>9, TableRaises, MultiplyType
<1> HIDE DEF s4
<1>11. s5 \in Nat /\ s5 >= s4
  BY <1>10, <1>5, MultiplyType
<1> HIDE DEF s5
<1>12. s6 \in Nat /\ s6 >= s5
  BY <1>11, TableRaises, MultiplyType
<1> HIDE DEF s6
<1>13. s7 \in Nat /\ s7 >= s6
  BY <1>12, <1>2, FundingAgeRaises, MultiplyType
<1> HIDE DEF s7
<1>14. QED
  BY <1>1, <1>4, <1>6, <1>7, <1>8, <1>9, <1>10, <1>11, <1>12, <1>13

-----------------------------------------------------------------------------
(***************************************************************************)
(* The inductive invariant.  TypeOK says nothing of the fields that no     *)
(* property is about, and BurstSeen only speaks of trades that were        *)
(* alerted on: a trade counts towards a burst from the moment it has       *)
(* counted, and it was stored by then.                                     *)
(***************************************************************************)
Local == [velocity : Nat, concentrated : BOOLEAN, base : Nat, score : Nat,
          normalized : 0 .. 100, severity : {"INFO", "WARN", "ALERT"}]

LocalOK == local \in [Trade -> Local]

\* The trades that have counted.
Counted == {t \in Trade : local[t].velocity > 0}

Within(burst) ==
    \A t, u \in burst : /\ ProxyWallet[t] = ProxyWallet[u]
                        /\ Timestamp[t] - Timestamp[u] <= VelocityWindow

\* The goroutine that counted last has seen all the others of a burst.
BurstInv ==
    \A burst \in SUBSET Counted :
        burst # {} /\ Within(burst) =>
            \E t \in burst : local[t].velocity >= Cardinality(burst)

CountedStored ==
    \A t \in Trade :
        /\ pc[t] \in {"wallet", "insert", "velocity"} => local[t].velocity = 0
        /\ pc[t] \notin {"wallet", "insert"} => t \in stored

Inv ==
    /\ TypeOK
    /\ LocalOK
    /\ CountedStored
    /\ BurstInv
    /\ NeverBelowBase

LEMMA InvInit == Init => Inv
<1> SUFFICES ASSUME Init PROVE Inv
  OBVIOUS
<1>1. TypeOK
  BY DEF Init, TypeOK, NoWallet, NoLocal
<1>2. LocalOK
  BY DEF Init, LocalOK, Local, NoLocal
<1>3. CountedStored
  BY DEF Init, CountedStored, NoLocal
<1>4. BurstInv
  <2>1. Counted = {}
    BY DEF Counted, Init, NoLocal
  <2>2. QED
    BY <2>1 DEF BurstInv
<1>5. NeverBelowBase
  BY DEF Init, NeverBelowBase, Alerted
<1>6. QED
  BY <1>1, <1>2, <1>3, <1>4, <1>5 DEF Inv

-----------------------------------------------------------------------------
(***************************************************************************)
(* The steps of a goroutine.                                               *)
(***************************************************************************)
\* The trades that a read returns are a finite set.
LEMMA RecentFinite ==
    ASSUME TypeOK, NEW t \in Trade
    PROVE  /\ IsFiniteSet(RecentTrades(t, VelocityWindow))
           /\ Cardinality(RecentTrades(t, VelocityWindow)) \in Nat
<1>1. RecentTrades(t, VelocityWindow) \subseteq Trade
  BY DEF TypeOK, RecentTrades
<1>2. IsFiniteSet(RecentTrades(t, VelocityWindow))
  BY <1>1, ScoringAssumption, FS_Subset
<1>3. QED
  BY <1>2, FS_CardinalityType

LEMMA TypeStep ==
    ASSUME Inv, NEW t \in Trade, processTrade(t)
    PROVE  TypeOK' /\ LocalOK'
<1> USE DEF Inv
<1>1. LocalOK => /\ local' = local => LocalOK'
                 /\ LocalOK' => \A u \in Trade : /\ local'[u].velocity \in Nat
                                                 /\ local'[u].score \in Nat
                                                 /\ local'[u].normalized \in 0 .. 100
                                                 /\ local'[u].severity \in {"INFO", "WARN", "ALERT"}
  BY DEF LocalOK, Local
<1>2. CASE getOrCreateWallet(t)
  <2>1. wallets' \in [Wallet -> [firstSeen : Nat, funding : Nat]]
    BY <1>2, TradeConstants DEF getOrCreateWallet, TypeOK
  <2>2. QED
    BY <1>1, <1>2, <2>1 DEF getOrCreateWallet, TypeOK, Goto
<1>3. CASE InsertTrade(t)
  BY <1>1, <1>3 DEF InsertTrade, TypeOK, Goto
<1>4. CASE checkTradeVelocity(t)
  <2>1. LocalOK'
    BY <1>1, <1>4, RecentFinite DEF checkTradeVelocity, LocalOK, Local
  <2>2. QED
    BY <1>1, <1>4, <2>1 DEF checkTradeVelocity, TypeOK, Goto
<1>5. CASE checkNetPositionConcentration(t)
  <2>1. LocalOK'
    <3>1. \A buy, sell : Concentrated(buy, sell) \in BOOLEAN
      BY DEF Concentrated
    <3>2. \/ \E b \in BOOLEAN : local' = [local EXCEPT ![t].concentrated = b]
          \/ local' = local
      BY <1>5, <3>1 DEF checkNetPositionConcentration
    <3>3. QED
      BY <3>2 DEF LocalOK, Local
  <2>2. QED
    BY <1>1, <1>5, <2>1 DEF checkNetPositionConcentration, TypeOK, Goto
<1>6. CASE Alert(t)
  <2>1. LocalOK'
    <3>1. PICK stats \in StatsRows :
             local' = [local EXCEPT ![t].base = BaseScore(t), ![t].score = AdjustedScore(t, stats),
                         ![t].normalized = normalizeScore(AdjustedScore(t, stats)),
                         ![t].severity = determineSeverity(normalizeScore(AdjustedScore(t, stats)))]
      BY <1>6 DEF Alert
    <3>2. WalletsOK
      BY DEF TypeOK, WalletsOK
    <3>3. AdjustedScore(t, stats) \in Nat /\ BaseScore(t) \in Nat
      BY <3>2, AdjustedScoreRaises, BaseScoreType
    <3>4. /\ normalizeScore(AdjustedScore(t, stats)) \in 0 .. 100
          /\ determineSeverity(normalizeScore(AdjustedScore(t, stats))) \in {"INFO", "WARN", "ALERT"}
      BY <3>3, NormalizeType, SeverityType
    <3>5. ASSUME NEW b \in Nat, NEW s \in Nat, NEW n \in 0 .. 100,
                 NEW v \in {"INFO", "WARN", "ALERT"}
          PROVE  [local EXCEPT ![t].base = b, ![t].score = s, ![t].normalized = n,
                               ![t].severity = v] \in [Trade -> Local]
      <4>1. [local[t] EXCEPT !.base = b, !.score = s, !.normalized = n, !.severity = v] \in Local
        <5>1. local[t] \in Local
          BY DEF LocalOK
        <5>2. [local[t] EXCEPT !.base = b] \in Local
          BY <5>1 DEF Local
        <5>3. [local[t] EXCEPT !.base = b, !.score = s] \in Local
          BY <5>2 DEF Local
        <5>4. [local[t] EXCEPT !.base = b, !.score = s, !.normalized = n] \in Local
          BY <5>3 DEF Local
        <5>5. QED
          BY <5>4 DEF Local
      <4>2. [local EXCEPT ![t].base = b, ![t].score = s, ![t].normalized = n, ![t].severity = v]
              = [local EXCEPT ![t] = [local[t] EXCEPT !.base = b, !.score = s, !.normalized = n,
                                                      !.severity = v]]
        BY DEF LocalOK, Local
      <4>3. QED
        BY <4>1, <4>2 DEF LocalOK
    <3>6. QED
      BY <3>1, <3>3, <3>4, <3>5 DEF LocalOK
  <2>2. QED
    BY <1>1, <1>6, <2>1 DEF Alert, TypeOK, Goto
<1>7. QED
  BY <1>2, <1>3, <1>4, <1>5, <1>6 DEF processTrade

\* Only checkTradeVelocity writes a count.
LEMMA VelocityFrame ==
    ASSUME Inv, NEW t \in Trade, processTrade(t), ~checkTradeVelocity(t)
    PROVE  \A u \in Trade : local'[u].velocity = local[u].velocity
<1>1. CASE local' = local
  BY <1>1
<1>2. CASE checkNetPositionConcentration(t)
  <2>1. \/ \E b : local' = [local EXCEPT ![t].concentrated = b]
        \/ local' = local
    BY <1>2 DEF checkNetPositionConcentration
  <2>2. QED
    BY <2>1 DEF Inv, LocalOK, Local
<1>3. CASE Alert(t)
  BY <1>3 DEF Alert, Inv, LocalOK, Local
<1>4. QED
  BY <1>1, <1>2, <1>3 DEF processTrade, getOrCreateWallet, InsertTrade

LEMMA StoredStep ==
    ASSUME Inv, NEW t \in Trade, processTrade(t)
    PROVE  CountedStored'
<1> USE DEF Inv
<1>1. CASE checkTradeVelocity(t)
  BY <1>1 DEF checkTradeVelocity, CountedStored, TypeOK, LocalOK, Local, Goto
<1>2. CASE ~checkTradeVelocity(t)
  <2>1. \A u \in Trade : local'[u].velocity = local[u].velocity
    BY <1>2, VelocityFrame
  <2>2. stored \subseteq stored'
    BY DEF processTrade, getOrCreateWallet, InsertTrade, checkTradeVelocity,
           checkNetPositionConcentration, Alert
  <2>3. /\ \A u \in Trade \ {t} : pc'[u] = pc[u]
        /\ \/ pc[t] = "wallet" /\ pc'[t] = "insert"
           \/ pc[t] = "insert" /\ pc'[t] = "velocity" /\ t \in stored'
           \/ pc[t] = "concentration" /\ pc'[t] = "alert"
           \/ pc[t] = "alert" /\ pc'[t] = "done"
    BY <1>2 DEF processTrade, getOrCreateWallet, InsertTrade,
                checkNetPositionConcentration, Alert, Goto, TypeOK
  <2>4. QED
    BY <2>1, <2>2, <2>3 DEF CountedStored
<1>3. QED
  BY <1>1, <1>2

\* The trade that counts last has every other trade of the burst among its recent ones.
LEMMA BurstStep ==
    ASSUME Inv, NEW t \in Trade, processTrade(t)
    PROVE  BurstInv'
<1> USE DEF Inv
<1>0. SUFFICES ASSUME NEW burst \in SUBSET Counted', burst # {}, Within(burst)
               PROVE  \E u \in burst : local'[u].velocity >= Cardinality(burst)
  BY DEF BurstInv, Within
<1>1. burst \subseteq Trade
  BY DEF Counted
<1>2. CASE /\ checkTradeVelocity(t) /\ t \in burst
           /\ local' = [local EXCEPT ![t].velocity =
                           Cardinality(RecentTrades(t, VelocityWindow)) + 1]
  <2>1. \A u \in burst : u \in stored
    <3>1. SUFFICES ASSUME NEW u \in burst PROVE u \in stored
      OBVIOUS
    <3>2. CASE u = t
      BY <1>1, <1>2, <3>2 DEF CountedStored, checkTradeVelocity
    <3>3. CASE u # t
      <4>1. local[u].velocity > 0
        BY <1>1, <1>2, <3>3 DEF LocalOK, Local, Counted
      <4>2. pc[u] \notin {"wallet", "insert"}
        BY <1>1, <4>1 DEF CountedStored
      <4>3. QED
        BY <1>1, <4>2 DEF CountedStored
    <3>4. QED
      BY <3>2, <3>3
  <2>2. burst \subseteq RecentTrades(t, VelocityWindow)
    <3>1. SUFFICES ASSUME NEW u \in burst PROVE u \in RecentTrades(t, VelocityWindow)
      OBVIOUS
    <3>2. ProxyWallet[u] = ProxyWallet[t] /\ Timestamp[t] - Timestamp[u] <= VelocityWindow
      BY <1>0, <1>2 DEF Within
    <3>3. Timestamp[t] \in Nat /\ Timestamp[u] \in Nat /\ VelocityWindow \in Nat
      BY <1>1, ScoringAssumption
    <3>4. Timestamp[u] >= Timestamp[t] - VelocityWindow
      BY <3>2, <3>3
    <3>5. QED
      BY <2>1, <3>2, <3>4 DEF RecentTrades
  <2>3. /\ IsFiniteSet(RecentTrades(t, VelocityWindow))
        /\ Cardinality(RecentTrades(t, VelocityWindow)) \in Nat
    BY RecentFinite
  <2>4. Cardinality(burst) \in Nat
        /\ Cardinality(burst) <= Cardinality(RecentTrades(t, VelocityWindow))
    BY <2>2, <2>3, FS_Subset, FS_CardinalityType
  <2>5. local'[t].velocity = Cardinality(RecentTrades(t, VelocityWindow)) + 1
    BY <1>2 DEF LocalOK, Local
  <2>6. QED
    BY <1>2, <2>3, <2>4, <2>5
<1>3. CASE \A u \in burst : local'[u].velocity = local[u].velocity
  <2>1. burst \in SUBSET Counted
    BY <1>1, <1>3 DEF Counted
  <2>2. PICK u \in burst : local[u].velocity >= Cardinality(burst)
    BY <1>0, <2>1 DEF BurstInv
  <2>3. QED
    BY <1>3, <2>2
<1>4. CASE checkTradeVelocity(t) /\ local' = local
  BY <1>3, <1>4
<1>5. CASE /\ checkTradeVelocity(t) /\ t \notin burst
           /\ local' = [local EXCEPT ![t].velocity =
                           Cardinality(RecentTrades(t, VelocityWindow)) + 1]
  <2>1. \A u \in burst : local'[u].velocity = local[u].velocity
    BY <1>1, <1>5 DEF LocalOK
  <2>2. QED
    BY <1>3, <2>1
<1>6. CASE ~checkTradeVelocity(t)
  BY <1>1, <1>3, <1>6, VelocityFrame
<1>7. QED
  BY <1>2, <1>4, <1>5, <1>6 DEF checkTradeVelocity

LEMMA BaseStep ==
    ASSUME Inv, NEW t \in Trade, processTrade(t)
    PROVE  NeverBelowBase'
<1> USE DEF Inv
<1>1. CASE Alert(t)
  <2>1. PICK stats \in StatsRows :
           local' = [local EXCEPT ![t].base = BaseScore(t), ![t].score = AdjustedScore(t, stats),
                       ![t].normalized = normalizeScore(AdjustedScore(t, stats)),
                       ![t].severity = determineSeverity(normalizeScore(AdjustedScore(t, stats)))]
    BY <1>1 DEF Alert
  <2>2. AdjustedScore(t, stats) >= BaseScore(t)
    BY AdjustedScoreRaises DEF TypeOK, WalletsOK
  <2>3. local'[t].score >= local'[t].base
    BY <2>1, <2>2 DEF LocalOK, Local
  <2>4. \A u \in Trade \ {t} : local'[u] = local[u]
    BY <2>1 DEF LocalOK
  <2>5. \A u \in Trade \ {t} : pc'[u] = pc[u]
    BY <1>1 DEF Alert, Goto, TypeOK
  <2>6. QED
    BY <2>3, <2>4, <2>5 DEF NeverBelowBase, Alerted
<1>2. CASE ~Alert(t)
  <2>1. \A u \in Trade : local'[u].score = local[u].score /\ local'[u].base = local[u].base
    <3>1. \/ local' = local
          \/ \E n : local' = [local EXCEPT ![t].velocity = n]
          \/ \E b : local' = [local EXCEPT ![t].concentrated = b]
      BY <1>2 DEF processTrade, getOrCreateWallet, InsertTrade, checkTradeVelocity,
                  checkNetPositionConcentration
    <3>2. QED
      BY <3>1 DEF LocalOK, Local
  <2>2. \A u \in Trade : pc'[u] = "done" => pc[u] = "done"
    BY <1>2 DEF processTrade, getOrCreateWallet, InsertTrade, checkTradeVelocity,
                checkNetPositionConcentration, Goto, TypeOK
  <2>3. QED
    BY <2>1, <2>2 DEF NeverBelowBase, Alerted
<1>3. QED
  BY <1>1, <1>2

LEMMA InvNext == Inv /\ [Next]_vars => Inv'
<1> SUFFICES ASSUME Inv, [Next]_vars PROVE Inv'
  OBVIOUS
<1>1. CASE Next
  <2>1. PICK t \in Trade : processTrade(t)
    BY <1>1 DEF Next
  <2>2. QED
    BY <2>1, TypeStep, StoredStep, BurstStep, BaseStep DEF Inv
<1>2. CASE UNCHANGED vars
  BY <1>2 DEF vars, Inv, TypeOK, LocalOK, CountedStored, BurstInv, Counted, NeverBelowBase,
              Alerted
<1>3. QED
  BY <1>1, <1>2

LEMMA Invariant == Spec => []Inv
BY InvInit, InvNext, PTL DEF Spec

-----------------------------------------------------------------------------
(***************************************************************************)
(* The theorems.                                                           *)
(***************************************************************************)
\* Every variable keeps its type: the product of the multipliers is a natural number and
\* normalizeScore puts it on the scale from 0 to 100, for every trade, wallet and market.
THEOREM ScoringTypeCorrect == Spec => []TypeOK
BY Invariant, PTL DEF Inv

\* However the goroutines of a pass interleave, and in whatever order the trades arrive,
\* InsertTrade before checkTradeVelocity makes one of them count the whole burst.
THEOREM BurstAlwaysSeen == Spec => []BurstSeen
<1>1. Inv => BurstSeen
  <2>1. SUFFICES ASSUME Inv,
                        NEW burst \in SUBSET {t \in Alerted : local[t].velocity > 0},
                        burst # {}, Within(burst)
                 PROVE  \E t \in burst : local[t].velocity >= Cardinality(burst)
    BY DEF BurstSeen, Within
  <2>2. burst \in SUBSET Counted
    BY DEF Alerted, Counted
  <2>3. QED
    BY <2>1, <2>2 DEF Inv, BurstInv
<1>2. QED
  BY <1>1, Invariant, PTL

\* The multipliers of calculateSuspicionScore and processTrade only ever raise the base
\* score, whatever the closing time, the funding and the statistics.
THEOREM MultipliersOnlyRaise == Spec => []NeverBelowBase
BY Invariant, PTL DEF Inv

=============================================================================
