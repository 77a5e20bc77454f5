---------------------------- MODULE ServiceProofs ----------------------------
(***************************************************************************)
(* Proofs about Service and the recalculations of WinRates it runs, for    *)
(* every set of trades, markets, outcomes and prices, any number of        *)
(* recalculations at once, any failing calls and any number of restarts.   *)
(***************************************************************************)
EXTENDS Service, FiniteSetTheorems, WellFoundedInduction, TLAPS

USE DEF loopVars

Winners == {Outcomes[i] : i \in DOMAIN Outcomes} \cup {NoWinner}

\* The net positions a wallet may have.
Position == {netPosition(trades, winner) : trades \in SUBSET Trade, winner \in Winners}

\* The local variables of a recalculation.
Run == [todo : SUBSET Market, market : Market \cup {NoWinner}, winner : Winners,
        pending : SUBSET (Wallet \X Position), wallet : Wallet \cup {NoWinner}, stats : Stats]

\* Only what was started runs: nothing before the startup pass has ended, or without a
\* process.
LoopInv ==
    /\ started \subseteq Recalc
    /\ mainPc \in {"startup", "exited"} => started = {}
    /\ \A r \in Recalc : pc[r] # "idle" => r \in started

\* Recalculation r found market m unresolved and may still count it for wallet w.
MayCount(r, w, m) ==
    /\ run[r].market = m
    /\ \/ pc[r] \in {"gamma", "store", "trades"}
       \/ pc[r] \in {"read", "write"} /\ \E p \in run[r].pending : p[1] = w
       \/ pc[r] = "write" /\ run[r].wallet = w

MayCounts(w, m) == {r \in Recalc : MayCount(r, w, m)}

\* A market is counted after its resolution was stored, and those that counted it and
\* those that still may are different recalculations.
CountInv ==
    \A w \in Wallet, m \in Market :
        /\ counted[w][m] + Cardinality(MayCounts(w, m)) <= Cardinality(Recalc)
        /\ counted[w][m] > 0 => resolutions[m] # NoWinner

RateInv == \A w \in Wallet : stats[w].wins + stats[w].losses <= stats[w].total

\* Recalculation r is at a market of the service, which has its resolution once r has
\* stored one; a wallet is pending once; and a row about to be saved has a rate.
RunInv(r) ==
    /\ pc[r] \in {"gamma", "store", "trades", "read", "write"} => run[r].market \in Market
    /\ pc[r] = "store" => run[r].winner # NoWinner
    /\ pc[r] \in {"trades", "read", "write"} => resolutions[run[r].market] # NoWinner
    /\ pc[r] \in {"read", "write"} =>
         \A p, q \in run[r].pending : p[1] = q[1] => p = q
    /\ pc[r] = "write" =>
         /\ run[r].wallet \in Wallet
         /\ \A p \in run[r].pending : p[1] # run[r].wallet
         /\ run[r].stats.wins + run[r].stats.losses <= run[r].stats.total

Inv ==
    /\ TypeOK /\ run \in [Recalc -> Run]
    /\ LoopInv /\ CountInv /\ RateInv
    /\ \A r \in Recalc : RunInv(r)

-----------------------------------------------------------------------------
(***************************************************************************)
(* The operators.                                                          *)
(***************************************************************************)
\* A non-empty set of natural numbers has a least element, and Min finds it.
LEMMA MinType ==
    ASSUME NEW S \in SUBSET Nat, S # {}
    PROVE  Min(S) \in S
<1> DEFINE Below == {pair \in Nat \X Nat : pair[1] < pair[2]}
<1>1. IsWellFoundedOn(Below, Nat)
  BY NatLessThanWellFounded DEF OpToRel
<1>2. PICK x \in S : \A y \in S : <<y, x>> \notin Below
  <2> HIDE DEF Below
  <2>1. QED
    BY <1>1, WFMin
<1>3. \A y \in S : x <= y
  <2> SUFFICES ASSUME NEW y \in S, y < x PROVE FALSE
    OBVIOUS
  <2>1. <<y, x>> \in Below
    OBVIOUS
  <2>2. QED
    BY <2>1, <1>2
<1>4. QED
  BY <1>3 DEF Min

\* determineWinner returns an outcome of the market or the empty string.
LEMMA WinnerType ==
    ASSUME TypeOK, NEW m \in Market
    PROVE  Winner(m) \in Winners
<1>1. CASE gamma[m] = Open
  BY <1>1 DEF Winner, Winners
<1>2. CASE gamma[m] # Open
  <2> DEFINE prices == gamma[m]
             winners == {i \in 1 .. Len(prices) : prices[i] >= 95}
  <2>1. prices \in Seq(0 .. 100)
    BY <1>2, WinRatesAssumption DEF TypeOK
  <2>2. winners \in SUBSET Nat /\ winners \subseteq 1 .. Len(prices)
    BY <2>1
  <2>3. winners # {} => Min(winners) \in winners
    <3> HIDE DEF winners
    <3>1. QED
      BY <2>2, MinType
  <2>4. Len(prices) = Len(Outcomes) /\ winners # {} => Outcomes[Min(winners)] \in Winners
    <3>1. DOMAIN Outcomes = 1 .. Len(Outcomes)
      BY WinRatesAssumption
    <3> HIDE DEF winners
    <3>2. QED
      BY <2>2, <2>3, <3>1 DEF Winners
  <2>5. QED
    BY <1>2, <2>4 DEF Winner, determineWinner, Winners
<1>3. QED
  BY <1>1, <1>2

\* One more result keeps a row a row, adds one to its total and at most one to its wins
\* and losses together.
LEMMA AddResultType ==
    ASSUME NEW s \in Stats, NEW position, s.wins + s.losses <= s.total
    PROVE  /\ AddResult(s, position) \in Stats
           /\ AddResult(s, position).total = s.total + 1
           /\ AddResult(s, position).wins + AddResult(s, position).losses <= s.total + 1
BY DEF Stats, AddResult

\* There are finitely many recalculations, so any set of them has a size.
LEMMA RecalcFinite ==
    ASSUME NEW S \in SUBSET Recalc
    PROVE  /\ IsFiniteSet(S) /\ Cardinality(S) \in Nat
           /\ Cardinality(Recalc) \in Nat /\ Cardinality(S) <= Cardinality(Recalc)
BY WinRatesAssumption, FS_Subset, FS_CardinalityType

-----------------------------------------------------------------------------
(***************************************************************************)
(* The steps of a recalculation.                                           *)
(***************************************************************************)
Label == {"idle", "check", "gamma", "store", "trades", "read", "write"}

\* What a step of r does to the other recalculations: nothing.
Alone(r) ==
    /\ pc' \in [Recalc -> Label] /\ run' \in [Recalc -> Run]
    /\ \A s \in Recalc \ {r} : pc'[s] = pc[s] /\ run'[s] = run[s]

\* What it has to keep.
Kept ==
    /\ TypeOK' /\ run' \in [Recalc -> Run]
    /\ CountInv' /\ RateInv' /\ \A r \in Recalc : RunInv(r)'

\* A resolution stays.
Resolved == \A m \in Market : resolutions[m] # NoWinner => resolutions'[m] # NoWinner

\* The others still know what they knew.
LEMMA OthersKept ==
    ASSUME Inv, NEW r \in Recalc, Alone(r), Resolved, RunInv(r)'
    PROVE  \A s \in Recalc : RunInv(s)'
<1> SUFFICES ASSUME NEW s \in Recalc, s # r PROVE RunInv(s)'
  OBVIOUS
<1>1. RunInv(s) /\ pc'[s] = pc[s] /\ run'[s] = run[s]
  BY DEF Inv, Alone
<1>2. QED
  BY <1>1 DEF RunInv, Resolved

\* Where nobody is newly about to count, and nothing is counted, the bound stays.
LEMMA CountKept ==
    ASSUME Inv, Resolved, counted' = counted,
           \A s \in Recalc, w \in Wallet, m \in Market :
               MayCount(s, w, m)' => MayCount(s, w, m)
    PROVE  CountInv'
<1> SUFFICES ASSUME NEW w \in Wallet, NEW m \in Market
             PROVE  /\ counted[w][m] + Cardinality(MayCounts(w, m)') <= Cardinality(Recalc)
                    /\ counted[w][m] > 0 => resolutions'[m] # NoWinner
  BY DEF CountInv
<1>1. /\ counted[w][m] \in Nat
      /\ counted[w][m] + Cardinality(MayCounts(w, m)) <= Cardinality(Recalc)
      /\ counted[w][m] > 0 => resolutions[m] # NoWinner
  BY DEF Inv, CountInv, TypeOK
<1>2. MayCounts(w, m)' \subseteq MayCounts(w, m) /\ MayCounts(w, m) \subseteq Recalc
  BY DEF MayCounts
<1>3. IsFiniteSet(MayCounts(w, m)) /\ Cardinality(MayCounts(w, m)) \in Nat
  BY <1>2, RecalcFinite
<1>4. Cardinality(MayCounts(w, m)') <= Cardinality(MayCounts(w, m))
  BY <1>2, <1>3, FS_Subset
<1>5. Cardinality(MayCounts(w, m)') \in Nat /\ Cardinality(Recalc) \in Nat
  BY <1>2, RecalcFinite
<1>6. QED
  BY <1>1, <1>3, <1>4, <1>5 DEF Resolved

\* A step of r that writes no table keeps everything, if r knows what it should and is
\* not newly about to count.
LEMMA QuietStep ==
    ASSUME Inv, NEW r \in Recalc, Alone(r), RunInv(r)',
           UNCHANGED <<gamma, stored, resolutions, stats, counted, crashes>>,
           \A w \in Wallet, m \in Market : MayCount(r, w, m)' => MayCount(r, w, m)
    PROVE  Kept
<1>1. \A s \in Recalc : run'[s].todo \subseteq Market /\ run'[s].stats \in Stats
  BY DEF Alone, Run
<1>2. TypeOK'
  BY <1>1 DEF Inv, TypeOK, Label, Alone
<1>3. Resolved /\ RateInv'
  BY DEF Inv, RateInv, Resolved
<1>4. \A s \in Recalc, w \in Wallet, m \in Market : MayCount(s, w, m)' => MayCount(s, w, m)
  BY DEF MayCount, Alone
<1>5. CountInv'
  BY <1>3, <1>4, CountKept
<1>6. QED
  BY <1>2, <1>3, <1>5, OthersKept DEF Kept, Alone

\* At the head of the loop, and when it is idle, a recalculation knows nothing and counts
\* nothing.
LEMMA NothingKnown ==
    ASSUME NEW r, pc'[r] \in {"idle", "check"}
    PROVE  RunInv(r)' /\ \A w, m : ~MayCount(r, w, m)'
BY DEF RunInv, MayCount

\* The head of the loop, the beginning and the end.
LEMMA LoopStep ==
    ASSUME Inv, NEW r \in Recalc, GetAllConditionIDs(r) \/ Finish(r) \/ WalletsDone(r)
    PROVE  Kept
<1>1. /\ pc' \in [Recalc -> Label] /\ pc'[r] \in {"idle", "check"}
      /\ \A s \in Recalc \ {r} : pc'[s] = pc[s]
      /\ UNCHANGED <<gamma, stored, resolutions, stats, counted, crashes>>
  BY DEF Inv, TypeOK, Label, GetAllConditionIDs, Finish, WalletsDone, NextMarket, Goto
<1>2. run' \in [Recalc -> Run] /\ \A s \in Recalc \ {r} : run'[s] = run[s]
  <2>1. NoRun \in Run
    BY DEF NoRun, NoStats, Run, Winners, Stats
  <2>2. {ConditionID[t] : t \in stored} \in SUBSET Market
    BY DEF Inv, TypeOK, Market
  <2>3. [NoRun EXCEPT !.todo = {ConditionID[t] : t \in stored}] \in Run
    BY <2>1, <2>2 DEF Run
  <2>4. QED
    BY <2>1, <2>3 DEF Inv, GetAllConditionIDs, Finish, WalletsDone
<1>3. QED
  BY <1>1, <1>2, QuietStep, NothingKnown DEF Alone

\* The market that r goes on with has no resolution, so it was counted for nobody.
LEMMA CheckStep ==
    ASSUME Inv, NEW r \in Recalc, GetMarketResolution(r)
    PROVE  Kept
<1>1. PICK m \in run[r].todo :
        /\ run' = [run EXCEPT ![r].todo = @ \ {m}, ![r].market = m]
        /\ \/ NextMarket(r)
           \/ ~AlreadyResolved(m) /\ Goto(r, "gamma")
  BY DEF GetMarketResolution
<1>2. m \in Market
  BY DEF Inv, TypeOK
<1>3. /\ run' \in [Recalc -> Run] /\ run'[r].market = m
      /\ \A s \in Recalc \ {r} : run'[s] = run[s]
  BY <1>1, <1>2 DEF Inv, Run
<1>4. /\ pc' \in [Recalc -> Label] /\ \A s \in Recalc \ {r} : pc'[s] = pc[s]
      /\ pc'[r] = "check" \/ (pc'[r] = "gamma" /\ resolutions[m] = NoWinner)
  BY <1>1 DEF Inv, TypeOK, Label, NextMarket, Goto, AlreadyResolved
<1>5. UNCHANGED <<gamma, stored, resolutions, stats, counted, crashes>>
  BY DEF GetMarketResolution
<1>6. Alone(r)
  BY <1>3, <1>4 DEF Alone
<1>7. CASE pc'[r] = "check"
  BY <1>5, <1>6, <1>7, QuietStep, NothingKnown
<1>8. CASE pc'[r] = "gamma" /\ resolutions[m] = NoWinner
  <2>1. RunInv(r)'
    BY <1>2, <1>3, <1>8 DEF RunInv
  <2>2. Resolved /\ RateInv'
    BY <1>5 DEF Inv, RateInv, Resolved
  <2>3. TypeOK'
    <3>1. \A s \in Recalc : run'[s].todo \subseteq Market /\ run'[s].stats \in Stats
      BY <1>3 DEF Run
    <3>2. QED
      BY <1>4, <1>5, <3>1 DEF Inv, TypeOK, Label
  <2>4. CountInv'
    <3> SUFFICES ASSUME NEW w \in Wallet, NEW n \in Market
                 PROVE  /\ counted[w][n] + Cardinality(MayCounts(w, n)') <= Cardinality(Recalc)
                        /\ counted[w][n] > 0 => resolutions[n] # NoWinner
      BY <1>5 DEF CountInv
    <3>1. /\ counted[w][n] \in Nat
          /\ counted[w][n] + Cardinality(MayCounts(w, n)) <= Cardinality(Recalc)
          /\ counted[w][n] > 0 => resolutions[n] # NoWinner
      BY DEF Inv, CountInv, TypeOK
    <3>2. MayCounts(w, n)' \subseteq Recalc /\ MayCounts(w, n) \subseteq Recalc
      BY DEF MayCounts
    <3>3. /\ Cardinality(MayCounts(w, n)') \in Nat /\ Cardinality(Recalc) \in Nat
          /\ Cardinality(MayCounts(w, n)') <= Cardinality(Recalc)
          /\ IsFiniteSet(MayCounts(w, n)) /\ Cardinality(MayCounts(w, n)) \in Nat
      BY <3>2, RecalcFinite
    <3>4. CASE n = m
      <4>1. counted[w][n] = 0
        BY <1>8, <3>1, <3>4
      <4>2. QED
        BY <3>1, <3>3, <4>1
    <3>5. CASE n # m
      <4>1. MayCounts(w, n)' \subseteq MayCounts(w, n)
        BY <1>3, <1>6, <3>5 DEF MayCounts, MayCount, Alone
      <4>2. Cardinality(MayCounts(w, n)') <= Cardinality(MayCounts(w, n))
        BY <3>3, <4>1, FS_Subset
      <4>3. QED
        BY <3>1, <3>3, <4>2
    <3>6. QED
      BY <3>4, <3>5
  <2>5. QED
    BY <1>3, <1>6, <2>1, <2>2, <2>3, <2>4, OthersKept DEF Kept
<1>9. QED
  BY <1>4, <1>7, <1>8

\* Its winner is an outcome.
LEMMA GammaStep ==
    ASSUME Inv, NEW r \in Recalc, GetMarketByConditionID(r)
    PROVE  Kept
<1> DEFINE m == run[r].market
           winner == Winner(m)
<1>1. UNCHANGED <<gamma, stored, resolutions, stats, counted, crashes>> /\ pc[r] = "gamma"
  BY DEF GetMarketByConditionID
<1>2. m \in Market
  BY <1>1 DEF Inv, RunInv
<1>3. winner \in Winners
  BY <1>2, WinnerType DEF Inv
<1>4. CASE winner # NoWinner /\ run' = [run EXCEPT ![r].winner = winner] /\ Goto(r, "store")
  <2> HIDE DEF winner
  <2>1. /\ run' \in [Recalc -> Run] /\ run'[r].market = m /\ run'[r].winner = winner
        /\ \A s \in Recalc \ {r} : run'[s] = run[s]
    BY <1>3, <1>4 DEF Inv, Run
  <2>2. /\ pc' \in [Recalc -> Label] /\ pc'[r] = "store"
        /\ \A s \in Recalc \ {r} : pc'[s] = pc[s]
    BY <1>4 DEF Inv, TypeOK, Label, Goto
  <2>3. RunInv(r)'
    BY <1>2, <1>4, <2>1, <2>2 DEF RunInv
  <2>4. \A w \in Wallet, n \in Market : MayCount(r, w, n)' => MayCount(r, w, n)
    BY <1>1, <2>1 DEF MayCount
  <2>5. QED
    BY <1>1, <2>1, <2>2, <2>3, <2>4, QuietStep DEF Alone
<1>5. CASE NextMarket(r) /\ UNCHANGED run
  <2>1. Alone(r) /\ pc'[r] = "check"
    BY <1>5 DEF Inv, TypeOK, Label, Goto, NextMarket, Alone
  <2>2. QED
    BY <1>1, <2>1, QuietStep, NothingKnown
<1>6. QED
  BY <1>4, <1>5 DEF GetMarketByConditionID

\* A resolution that is stored is one, and no resolution is taken back.
LEMMA StoreStep ==
    ASSUME Inv, NEW r \in Recalc, UpsertMarketResolution(r)
    PROVE  Kept
<1> DEFINE m == run[r].market
<1>1. UNCHANGED <<gamma, stored, stats, counted, crashes, run>> /\ pc[r] = "store"
  BY DEF UpsertMarketResolution
<1>2. m \in Market /\ run[r].winner # NoWinner
  BY <1>1 DEF Inv, RunInv
<1>3. CASE resolutions' = [resolutions EXCEPT ![m] = run[r].winner] /\ Goto(r, "trades")
  <2>1. run[r].winner \in Winners
    BY DEF Inv, Run
  <2>2. /\ resolutions' \in [Market -> Winners] /\ resolutions'[m] # NoWinner
        /\ Resolved
    BY <1>2, <1>3, <2>1 DEF Inv, TypeOK, Winners, Resolved
  <2>3. Alone(r) /\ pc'[r] = "trades"
    BY <1>1, <1>3 DEF Inv, TypeOK, Label, Goto, Alone
  <2>4. TypeOK'
    BY <1>1, <2>2, <2>3 DEF Inv, TypeOK, Label, Winners, Alone
  <2>5. \A s \in Recalc, w \in Wallet, n \in Market : MayCount(s, w, n)' => MayCount(s, w, n)
    BY <1>1, <2>3 DEF MayCount, Alone
  <2>6. CountInv' /\ RateInv'
    BY <1>1, <2>2, <2>5, CountKept DEF Inv, RateInv
  <2>7. RunInv(r)'
    BY <1>1, <1>2, <2>2, <2>3 DEF RunInv
  <2>8. QED
    BY <2>2, <2>3, <2>4, <2>6, <2>7, OthersKept DEF Kept, Alone
<1>4. CASE NextMarket(r) /\ UNCHANGED resolutions
  <2>1. Alone(r) /\ pc'[r] = "check"
    BY <1>1, <1>4 DEF Inv, TypeOK, Label, Goto, NextMarket, Alone
  <2>2. QED
    BY <1>1, <1>4, <2>1, QuietStep, NothingKnown
<1>5. QED
  BY <1>3, <1>4 DEF UpsertMarketResolution

\* Every wallet with a trade in the market is pending, with one net position.
LEMMA TradesStep ==
    ASSUME Inv, NEW r \in Recalc, GetTradesByConditionID(r)
    PROVE  Kept
<1> DEFINE m == run[r].market
           winner == run[r].winner
           walletsOf == {ProxyWallet[t] : t \in {u \in stored : ConditionID[u] = m}}
           Net(w) == netPosition(TradesOf(w, m), winner)
           pairs == {<<w, Net(w)>> : w \in walletsOf}
<1>1. UNCHANGED <<gamma, stored, resolutions, stats, counted, crashes>> /\ pc[r] = "trades"
  BY DEF GetTradesByConditionID
<1>2. m \in Market /\ resolutions[m] # NoWinner
  BY <1>1 DEF Inv, RunInv
<1>3. CASE run' = [run EXCEPT ![r].pending = pairs] /\ Goto(r, "read")
  <2>1. walletsOf \subseteq Wallet
    BY DEF Inv, TypeOK, Wallet
  <2>2. \A w \in Wallet : Net(w) \in Position
    <3>1. \A w : TradesOf(w, m) \in SUBSET Trade
      BY DEF TradesOf, Inv, TypeOK
    <3>2. winner \in Winners
      BY DEF Inv, Run
    <3>3. QED
      BY <3>1, <3>2 DEF Position
  <2> HIDE DEF Net, walletsOf
  <2>3. /\ pairs \in SUBSET (Wallet \X Position)
        /\ \A p, q \in pairs : p[1] = q[1] => p = q
    BY <2>1, <2>2
  <2> HIDE DEF pairs
  <2>4. /\ run' \in [Recalc -> Run] /\ run'[r].market = m /\ run'[r].pending = pairs
        /\ \A s \in Recalc \ {r} : run'[s] = run[s]
    BY <1>3, <2>3 DEF Inv, Run
  <2>5. /\ pc' \in [Recalc -> Label] /\ pc'[r] = "read"
        /\ \A s \in Recalc \ {r} : pc'[s] = pc[s]
    BY <1>3 DEF Inv, TypeOK, Label, Goto
  <2>6. RunInv(r)'
    BY <1>1, <1>2, <2>3, <2>4, <2>5 DEF RunInv
  <2>7. \A w \in Wallet, n \in Market : MayCount(r, w, n)' => MayCount(r, w, n)
    BY <1>1, <2>4 DEF MayCount
  <2>8. QED
    BY <1>1, <2>4, <2>5, <2>6, <2>7, QuietStep DEF Alone
<1>4. CASE NextMarket(r) /\ UNCHANGED run
  <2>1. Alone(r) /\ pc'[r] = "check"
    BY <1>4 DEF Inv, TypeOK, Label, Goto, NextMarket, Alone
  <2>2. QED
    BY <1>1, <2>1, QuietStep, NothingKnown
<1>5. QED
  BY <1>3, <1>4 DEF GetTradesByConditionID

\* Adding a result to a row that has a rate gives one that has; a wallet that could not
\* be read is not counted.
LEMMA ReadStep ==
    ASSUME Inv, NEW r \in Recalc, GetWalletStats(r)
    PROVE  Kept
<1> DEFINE m == run[r].market
<1>1. UNCHANGED <<gamma, stored, resolutions, stats, counted, crashes>> /\ pc[r] = "read"
  BY DEF GetWalletStats
<1>2. /\ m \in Market /\ resolutions[m] # NoWinner
      /\ \A p, q \in run[r].pending : p[1] = q[1] => p = q
  BY <1>1 DEF Inv, RunInv
<1>3. PICK p \in run[r].pending :
        \/ /\ run' = [run EXCEPT ![r].pending = @ \ {p}, ![r].wallet = p[1],
                                 ![r].stats = AddResult(stats[p[1]], p[2])]
           /\ Goto(r, "write")
        \/ run' = [run EXCEPT ![r].pending = @ \ {p}] /\ UNCHANGED pc
  BY DEF GetWalletStats
<1>4. p[1] \in Wallet
  BY DEF Inv, Run
<1>5. CASE /\ run' = [run EXCEPT ![r].pending = @ \ {p}, ![r].wallet = p[1],
                                 ![r].stats = AddResult(stats[p[1]], p[2])]
           /\ Goto(r, "write")
  <2> DEFINE row == AddResult(stats[p[1]], p[2])
  <2>1. row \in Stats /\ row.wins + row.losses <= row.total
    BY <1>4, AddResultType DEF Inv, TypeOK, RateInv
  <2> HIDE DEF row
  <2>2. run' = [run EXCEPT ![r].pending = @ \ {p}, ![r].wallet = p[1], ![r].stats = row]
    BY <1>5 DEF row
  <2>3. /\ run' \in [Recalc -> Run] /\ run'[r].market = m /\ run'[r].wallet = p[1]
        /\ run'[r].pending = run[r].pending \ {p} /\ run'[r].stats = row
        /\ \A s \in Recalc \ {r} : run'[s] = run[s]
    <3>1. run \in [Recalc -> Run] /\ run[r] \in Run
      BY DEF Inv
    <3>2. run' = [run EXCEPT ![r] = [run[r] EXCEPT !.pending = @ \ {p}, !.wallet = p[1], !.stats = row]]
      BY <2>2, <3>1
    <3>3. [run[r] EXCEPT !.pending = @ \ {p}, !.wallet = p[1], !.stats = row] \in Run
      BY <1>4, <2>1, <3>1 DEF Run
    <3>4. /\ run' \in [Recalc -> Run]
          /\ run'[r] = [run[r] EXCEPT !.pending = @ \ {p}, !.wallet = p[1], !.stats = row]
          /\ \A s \in Recalc \ {r} : run'[s] = run[s]
      BY <3>1, <3>2, <3>3
    <3>5. QED
      BY <3>1, <3>4 DEF Run
  <2>4. /\ pc' \in [Recalc -> Label] /\ pc'[r] = "write"
        /\ \A s \in Recalc \ {r} : pc'[s] = pc[s]
    BY <1>5 DEF Inv, TypeOK, Label, Goto
  <2>5. /\ \A q \in run'[r].pending : q[1] # p[1]
        /\ \A q, u \in run'[r].pending : q[1] = u[1] => q = u
    BY <1>2, <2>3
  <2>6. RunInv(r)'
    BY <1>1, <1>2, <1>4, <2>1, <2>3, <2>4, <2>5 DEF RunInv
  <2>7. \A w \in Wallet, n \in Market : MayCount(r, w, n)' => MayCount(r, w, n)
    BY <1>1, <2>3, <2>4 DEF MayCount
  <2>8. QED
    BY <1>1, <2>3, <2>4, <2>6, <2>7, QuietStep DEF Alone
<1>6. CASE run' = [run EXCEPT ![r].pending = @ \ {p}] /\ UNCHANGED pc
  <2>1. /\ run' \in [Recalc -> Run] /\ run'[r].market = m
        /\ run'[r].pending = run[r].pending \ {p}
        /\ \A s \in Recalc \ {r} : run'[s] = run[s]
    BY <1>6 DEF Inv, Run
  <2>2. pc' \in [Recalc -> Label] /\ pc'[r] = "read" /\ pc' = pc
    BY <1>1, <1>6 DEF Inv, TypeOK, Label
  <2>3. RunInv(r)'
    BY <1>1, <1>2, <2>1, <2>2 DEF RunInv
  <2>4. \A w \in Wallet, n \in Market : MayCount(r, w, n)' => MayCount(r, w, n)
    BY <1>1, <2>1, <2>2 DEF MayCount
  <2>5. QED
    BY <1>1, <2>1, <2>2, <2>3, <2>4, QuietStep DEF Alone
<1>7. QED
  BY <1>3, <1>5, <1>6

\* Who saves a row has counted the wallet and will not count it again.
LEMMA WriteStep ==
    ASSUME Inv, NEW r \in Recalc, UpsertWalletStats(r)
    PROVE  Kept
<1>1. UNCHANGED <<gamma, stored, resolutions, run, crashes>> /\ pc[r] = "write"
  BY DEF UpsertWalletStats
<1>2. PICK m \in Market, w0 \in Wallet :
      /\ m = run[r].market /\ w0 = run[r].wallet /\ resolutions[m] # NoWinner
      /\ \A p \in run[r].pending : p[1] # w0
      /\ \A p, q \in run[r].pending : p[1] = q[1] => p = q
      /\ run[r].stats.wins + run[r].stats.losses <= run[r].stats.total
  BY <1>1 DEF Inv, RunInv
<1>3. Alone(r) /\ pc'[r] = "read" /\ run' = run
  BY <1>1 DEF UpsertWalletStats, Inv, TypeOK, Label, Goto, Alone
<1>4. RunInv(r)'
  BY <1>1, <1>2, <1>3 DEF RunInv
<1>5. \A s \in Recalc, w \in Wallet, n \in Market : MayCount(s, w, n)' => MayCount(s, w, n)
  BY <1>1, <1>3 DEF MayCount, Alone
<1>6. CASE UNCHANGED <<stats, counted>>
  BY <1>1, <1>3, <1>4, <1>5, <1>6, QuietStep
<1>7. CASE /\ stats' = [stats EXCEPT ![w0] = run[r].stats]
           /\ counted' = [counted EXCEPT ![w0][m] = @ + 1]
  <2>1. run[r].stats \in Stats
    BY DEF Inv, Run
  <2>2. /\ counted' \in [Wallet -> [Market -> Nat]] /\ counted'[w0][m] = counted[w0][m] + 1
        /\ \A w \in Wallet, n \in Market : <<w, n>> # <<w0, m>> => counted'[w][n] = counted[w][n]
    BY <1>2, <1>7 DEF Inv, TypeOK
  <2>3. stats' \in [Wallet -> Stats] /\ stats'[w0] = run[r].stats
        /\ \A w \in Wallet \ {w0} : stats'[w] = stats[w]
    BY <1>2, <1>7, <2>1 DEF Inv, TypeOK
  <2>4. TypeOK'
    BY <1>1, <1>3, <2>2, <2>3 DEF Inv, TypeOK, Label, Alone
  <2>5. RateInv' /\ Resolved
    BY <1>1, <1>2, <2>3 DEF Inv, RateInv, Resolved
  <2>6. CountInv'
    <3> SUFFICES ASSUME NEW w \in Wallet, NEW n \in Market
                 PROVE  /\ counted'[w][n] + Cardinality(MayCounts(w, n)') <= Cardinality(Recalc)
                        /\ counted'[w][n] > 0 => resolutions[n] # NoWinner
      BY <1>1 DEF CountInv
    <3>1. /\ counted[w][n] \in Nat
          /\ counted[w][n] + Cardinality(MayCounts(w, n)) <= Cardinality(Recalc)
          /\ counted[w][n] > 0 => resolutions[n] # NoWinner
      BY DEF Inv, CountInv, TypeOK
    <3>2. MayCounts(w, n)' \subseteq MayCounts(w, n) /\ MayCounts(w, n) \subseteq Recalc
      BY <1>5 DEF MayCounts
    <3>3. /\ IsFiniteSet(MayCounts(w, n)) /\ Cardinality(MayCounts(w, n)) \in Nat
          /\ Cardinality(MayCounts(w, n)') \in Nat /\ Cardinality(Recalc) \in Nat
      BY <3>2, RecalcFinite
    <3>4. CASE w = w0 /\ n = m
      <4>1. r \in MayCounts(w, n) /\ r \notin MayCounts(w, n)'
        BY <1>1, <1>2, <1>3, <3>4 DEF MayCounts, MayCount
      <4>2. MayCounts(w, n)' \subseteq MayCounts(w, n) \ {r}
        BY <3>2, <4>1
      <4>3. /\ IsFiniteSet(MayCounts(w, n) \ {r})
            /\ Cardinality(MayCounts(w, n) \ {r}) = Cardinality(MayCounts(w, n)) - 1
        BY <3>3, <4>1, FS_RemoveElement
      <4>4. Cardinality(MayCounts(w, n)') <= Cardinality(MayCounts(w, n)) - 1
        BY <4>2, <4>3, FS_Subset
      <4>5. QED
        BY <1>2, <2>2, <3>1, <3>3, <3>4, <4>4
    <3>5. CASE ~(w = w0 /\ n = m)
      <4>1. Cardinality(MayCounts(w, n)') <= Cardinality(MayCounts(w, n))
        BY <3>2, <3>3, FS_Subset
      <4>2. counted'[w][n] = counted[w][n]
        BY <2>2, <3>5
      <4>3. QED
        BY <3>1, <3>3, <4>1, <4>2
    <3>6. QED
      BY <3>4, <3>5
  <2>7. QED
    BY <1>3, <1>4, <2>4, <2>5, <2>6, OthersKept DEF Kept, Alone
<1>8. QED
  BY <1>2, <1>6, <1>7 DEF UpsertWalletStats

\* Every step of a recalculation.
LEMMA RecalculationStep ==
    ASSUME Inv, NEW r \in Recalc, RecalculateWinRates(r)
    PROVE  Kept
BY LoopStep, CheckStep, GammaStep, StoreStep, TradesStep, ReadStep, WriteStep
   DEF RecalculateWinRates

-----------------------------------------------------------------------------
(***************************************************************************)
(* The service.                                                            *)
(***************************************************************************)
\* The recalculations see nothing of the steps of main, and of the environment, that
\* leave the tables and their own variables alone.
LEMMA VarsKept ==
    ASSUME Inv, LoopInv', UNCHANGED vars
    PROVE  Inv'
<1>1. TypeOK' /\ run' \in [Recalc -> Run]
  BY DEF vars, Inv, TypeOK
<1>2. Resolved /\ RateInv' /\ counted' = counted /\ pc' = pc /\ run' = run
  BY DEF vars, Inv, RateInv, Resolved
<1>3. CountInv'
  BY <1>2, CountKept DEF MayCount
<1>4. \A r \in Recalc : RunInv(r)'
  BY DEF vars, Inv, RunInv
<1>5. QED
  BY <1>1, <1>2, <1>3, <1>4 DEF Inv

\* The end of the process, orderly or not, ends every recalculation where it is.
LEMMA ExitKeeps == ASSUME Inv, Exit PROVE Inv'
<1>1. /\ pc' = [r \in Recalc |-> "idle"] /\ run' = [r \in Recalc |-> NoRun]
      /\ crashes' = crashes + 1 /\ UNCHANGED <<gamma, stored, resolutions, stats, counted>>
      /\ mainPc' = "exited" /\ started' = {}
  BY DEF Exit, Crash
<1>2. NoRun \in Run
  BY DEF NoRun, NoStats, Run, Winners, Stats
<1>3. run' \in [Recalc -> Run] /\ \A r \in Recalc : run'[r].todo \subseteq Market /\ run'[r].stats \in Stats
  BY <1>1, <1>2 DEF Run
<1>4. TypeOK'
  BY <1>1, <1>3 DEF Inv, TypeOK
<1>5. CountInv' /\ RateInv'
  <2>1. \A s \in Recalc, w \in Wallet, m \in Market : ~MayCount(s, w, m)'
    BY <1>1, NothingKnown
  <2>2. Resolved /\ RateInv'
    BY <1>1 DEF Inv, RateInv, Resolved
  <2>3. QED
    BY <1>1, <2>1, <2>2, CountKept
<1>6. \A r \in Recalc : RunInv(r)'
  BY <1>1, NothingKnown
<1>7. LoopInv'
  BY <1>1 DEF LoopInv
<1>8. QED
  BY <1>3, <1>4, <1>5, <1>6, <1>7 DEF Inv

\* A recalculation runs beside the others.
LEMMA RecalculateKeeps ==
    ASSUME Inv, NEW r \in Recalc, Recalculate(r)
    PROVE  Inv'
<1>1. r \in started /\ UNCHANGED mainPc
  BY DEF Recalculate
<1>2. CASE RecalculateWinRates(r) /\ started' = IF pc'[r] = "idle" THEN started \ {r} ELSE started
  <2>1. \A s \in Recalc \ {r} : pc'[s] = pc[s]
    BY <1>2 DEF RecalculateWinRates, GetAllConditionIDs, Finish, GetMarketResolution,
       GetMarketByConditionID, UpsertMarketResolution, GetTradesByConditionID, WalletsDone,
       GetWalletStats, UpsertWalletStats, NextMarket, Goto, Inv, TypeOK
  <2>2. LoopInv'
    BY <1>1, <1>2, <2>1 DEF Inv, LoopInv
  <2>3. QED
    BY <1>2, <2>2, RecalculationStep DEF Kept, Inv
<1>3. CASE pc[r] = "idle" /\ started' = started \ {r} /\ UNCHANGED vars
  <2>1. LoopInv'
    BY <1>1, <1>3 DEF Inv, LoopInv, vars
  <2>2. QED
    BY <1>3, <2>1, VarsKept
<1>4. QED
  BY <1>2, <1>3 DEF Recalculate

\* Every step of the service keeps the invariant.
LEMMA ServiceStep == Inv /\ [ServiceNext]_serviceVars => Inv'
<1> SUFFICES ASSUME Inv, [ServiceNext]_serviceVars PROVE Inv'
  OBVIOUS
<1>1. CASE PollTick \/ DayTick \/ Signal \/ UNCHANGED serviceVars
  <2>1. UNCHANGED vars
    BY <1>1 DEF PollTick, DayTick, Signal, serviceVars
  <2>2. pc' = pc /\ started' = started /\ mainPc' = mainPc
    BY <1>1, <2>1 DEF PollTick, DayTick, Signal, serviceVars, vars
  <2>3. LoopInv'
    BY <2>2 DEF Inv, LoopInv
  <2>4. QED
    BY <2>1, <2>3, VarsKept
<1>2. CASE PassEnds \/ SelectTick \/ SelectDay \/ Restart
  <2>1. UNCHANGED vars
    BY <1>2 DEF PassEnds, SelectTick, SelectDay, Restart
  <2>2. pc' = pc
    BY <2>1 DEF vars
  <2> SUFFICES LoopInv'
    BY <2>1, VarsKept
  <2>3. CASE PassEnds
    BY <2>2, <2>3 DEF PassEnds, Inv, LoopInv
  <2>4. CASE SelectTick
    BY <2>2, <2>4 DEF SelectTick, Inv, LoopInv
  <2>5. CASE SelectDay
    <3>1. PICK r \in Recalc : started' = started \cup {r}
      BY <2>5 DEF SelectDay
    <3>2. mainPc' = "select"
      BY <2>5 DEF SelectDay
    <3>3. QED
      BY <2>2, <3>1, <3>2 DEF Inv, LoopInv
  <2>6. CASE Restart
    <3>1. started' = {} /\ mainPc = "exited"
      BY <2>6 DEF Restart, NewProcess
    <3>2. \A r \in Recalc : pc[r] = "idle"
      BY <3>1 DEF Inv, LoopInv
    <3>3. QED
      BY <2>2, <3>1, <3>2 DEF LoopInv
  <2>7. QED
    BY <1>2, <2>3, <2>4, <2>5, <2>6
<1>3. CASE SelectSignal \/ Kill
  BY <1>3, ExitKeeps DEF SelectSignal, Kill
<1>4. ASSUME NEW t \in Trade, PassStores(t) PROVE Inv'
  <2>1. /\ stored' \subseteq Trade
        /\ UNCHANGED <<gamma, resolutions, stats, pc, run, counted, crashes>> /\ UNCHANGED loopVars
    BY <1>4 DEF PassStores, StoreTrade, Inv, TypeOK
  <2>2. TypeOK' /\ run' \in [Recalc -> Run] /\ LoopInv'
    BY <2>1 DEF Inv, TypeOK, LoopInv
  <2>3. Resolved /\ RateInv' /\ \A r \in Recalc : RunInv(r)'
    BY <2>1 DEF Inv, RateInv, RunInv, Resolved
  <2>4. CountInv'
    BY <2>1, <2>3, CountKept DEF MayCount
  <2>5. QED
    BY <2>2, <2>3, <2>4 DEF Inv
<1>5. ASSUME NEW m \in Market, MarketCloses(m) PROVE Inv'
  <2>1. /\ gamma' \in [Market -> PriceLists \cup {Open}]
        /\ UNCHANGED <<stored, resolutions, stats, pc, run, counted, crashes>> /\ UNCHANGED loopVars
    BY <1>5 DEF MarketCloses, CloseMarket, Inv, TypeOK
  <2>2. TypeOK' /\ run' \in [Recalc -> Run] /\ LoopInv'
    BY <2>1 DEF Inv, TypeOK, LoopInv
  <2>3. Resolved /\ RateInv' /\ \A r \in Recalc : RunInv(r)'
    BY <2>1 DEF Inv, RateInv, RunInv, Resolved
  <2>4. CountInv'
    BY <2>1, <2>3, CountKept DEF MayCount
  <2>5. QED
    BY <2>2, <2>3, <2>4 DEF Inv
<1>6. QED
  BY <1>1, <1>2, <1>3, <1>4, <1>5, RecalculateKeeps DEF ServiceNext

\* A new database has counted nothing.
LEMMA ServiceInitInv == ServiceInit => Inv
<1> SUFFICES ASSUME ServiceInit PROVE Inv
  OBVIOUS
<1>1. NoRun \in Run /\ NoStats \in Stats
  BY DEF NoRun, NoStats, Run, Winners, Stats
<1>2. run \in [Recalc -> Run] /\ stats \in [Wallet -> Stats]
  BY <1>1 DEF ServiceInit, Init
<1>3. TypeOK
  BY <1>2 DEF ServiceInit, Init, TypeOK, Run
<1>4. CountInv
  <2> SUFFICES ASSUME NEW w \in Wallet, NEW m \in Market
               PROVE  /\ counted[w][m] + Cardinality(MayCounts(w, m)) <= Cardinality(Recalc)
                      /\ counted[w][m] > 0 => resolutions[m] # NoWinner
    BY DEF CountInv
  <2>1. counted[w][m] = 0
    BY DEF ServiceInit, Init
  <2>2. MayCounts(w, m) \subseteq Recalc
    BY DEF MayCounts
  <2>3. /\ Cardinality(MayCounts(w, m)) \in Nat
        /\ Cardinality(MayCounts(w, m)) <= Cardinality(Recalc)
    BY <2>2, RecalcFinite
  <2>4. QED
    BY <2>1, <2>3
<1>5. RateInv
  BY DEF ServiceInit, Init, RateInv, NoStats
<1>6. LoopInv /\ \A r \in Recalc : RunInv(r)
  BY DEF ServiceInit, Init, LoopInv, RunInv
<1>7. QED
  BY <1>2, <1>3, <1>4, <1>5, <1>6 DEF Inv

\* The invariant of the service.
LEMMA ServiceInvariant == ServiceSpec => []Inv
BY ServiceInitInv, ServiceStep, PTL DEF ServiceSpec

\* No call, error, shutdown or crash leaves a table, or a recalculation, outside its type.
THEOREM ServiceTypeCorrect == ServiceSpec => []TypeOK
<1>1. Inv => TypeOK
  BY DEF Inv
<1>2. QED
  BY <1>1, ServiceInvariant, PTL

\* Recalculations that overlap count a market at most once each for a wallet, and only
\* after its resolution was stored, however often the process is restarted in the middle;
\* no later one counts it again.
THEOREM MarketCountedPerOverlap == ServiceSpec => []CountedPerOverlap
<1>1. Inv => CountedPerOverlap
  <2> SUFFICES ASSUME Inv, NEW w \in Wallet, NEW m \in Market
               PROVE  /\ counted[w][m] <= Cardinality(Recalc)
                      /\ counted[w][m] > 0 => resolutions[m] # NoWinner
    BY DEF CountedPerOverlap
  <2>1. /\ counted[w][m] \in Nat
        /\ counted[w][m] + Cardinality(MayCounts(w, m)) <= Cardinality(Recalc)
        /\ counted[w][m] > 0 => resolutions[m] # NoWinner
    BY DEF Inv, CountInv, TypeOK
  <2>2. Cardinality(MayCounts(w, m)) \in Nat /\ Cardinality(Recalc) \in Nat
    BY RecalcFinite DEF MayCounts
  <2>3. QED
    BY <2>1, <2>2
<1>2. QED
  BY <1>1, ServiceInvariant, PTL

\* Wins and losses never exceed the resolved markets, so the stored win rate is a rate,
\* also where overlapping recalculations overwrite each other's rows.
THEOREM WinRateIsRate == ServiceSpec => []WinRateBounded
<1>1. Inv => WinRateBounded
  BY DEF Inv, RateInv, WinRateBounded
<1>2. QED
  BY <1>1, ServiceInvariant, PTL

=============================================================================
