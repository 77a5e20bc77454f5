------------------------------ MODULE WinRates ------------------------------
(***************************************************************************)
(* RecalculateWinRates of internal/processor/processor.go with the tables  *)
(* market_resolutions and wallet_stats.  Every call of the database or of  *)
(* the Gamma API is one step.  The module has the steps; Service, which    *)
(* extends it, has the loop of main that starts recalculations, stores     *)
(* trades meanwhile and ends the process.                                  *)
(***************************************************************************)
EXTENDS Integers, Sequences, FiniteSetsExt

CONSTANTS
    Recalc,       \* slots of the recalculations running at once, which it bounds
    Trade,
    ProxyWallet, ConditionID, Side, Outcome, NotionalUSD,  \* functions on Trade
    Outcomes,     \* the sequence of outcomes of a market
    PriceLists,   \* the outcomePrices Gamma may report, in per cent
    NoWinner,     \* the empty string of determineWinner
    Open,         \* what Gamma reports of a market not closed
    Faults,       \* the calls that may return an error
    MaxCrashes

Wallet == {ProxyWallet[t] : t \in Trade}
Market == {ConditionID[t] : t \in Trade}

Call == {"GetAllConditionIDs", "GetMarketResolution", "GammaAPI", "UpsertMarketResolution",
         "GetTradesByConditionID", "GetWalletStats", "UpsertWalletStats"}

ASSUME WinRatesAssumption ==
    /\ IsFiniteSet(Trade) /\ IsFiniteSet(Recalc)
    /\ Side \in [Trade -> {"BUY", "SELL"}]
    /\ NotionalUSD \in [Trade -> Nat]
    /\ DOMAIN Outcomes = 1 .. Len(Outcomes) /\ Len(Outcomes) \in Nat
    /\ PriceLists \subseteq Seq(0 .. 100)
    /\ Open \notin PriceLists
    /\ Faults \subseteq Call
    /\ MaxCrashes \in Nat

VARIABLES
    gamma,        \* Gamma's answer for each market: Open or its outcomePrices
    stored,       \* trades_seen
    resolutions,  \* market_resolutions: the winning outcome, or NoWinner if absent
    stats,        \* wallet_stats: total, wins and losses of each wallet
    pc, run,      \* next call and local variables of each recalculation
    counted,      \* history: how often a wallet was counted for a market
    crashes

vars == <<gamma, stored, resolutions, stats, pc, run, counted, crashes>>

Fails(call) == call \in Faults

-----------------------------------------------------------------------------
(***************************************************************************)
(* determineWinner and the net position of a wallet.                       *)
(***************************************************************************)
\* The first outcome whose price is at least 95 per cent.
determineWinner(prices) ==
    LET winners == {i \in 1 .. Len(prices) : prices[i] >= 95}
    IN  IF Len(prices) # Len(Outcomes) \/ winners = {}
        THEN NoWinner
        ELSE Outcomes[Min(winners)]

\* What the loop finds out about market m: nothing before it is closed.
Winner(m) == IF gamma[m] = Open THEN NoWinner ELSE determineWinner(gamma[m])

\* A purchase of the winning outcome and a sale of another one are long.
Signed(t, winner) ==
    IF (Side[t] = "BUY") <=> (Outcome[t] = winner) THEN NotionalUSD[t] ELSE -NotionalUSD[t]

TradesOf(w, m) == {t \in stored : ProxyWallet[t] = w /\ ConditionID[t] = m}

netPosition(trades, winner) == MapThenSumSet(LAMBDA t : Signed(t, winner), trades)

\* One more resolved market in a wallet's row.  The mutants count a hedged wallet both
\* ways, and take a loss away.
AddResultHedged(s, position) ==
    [total  |-> s.total + 1,
     wins   |-> IF position >= 0 THEN s.wins + 1 ELSE s.wins,
     losses |-> IF position <= 0 THEN s.losses + 1 ELSE s.losses]
AddResultDecrement(s, position) ==
    [total  |-> s.total + 1,
     wins   |-> IF position > 0 THEN s.wins + 1 ELSE s.wins,
     losses |-> IF position < 0 THEN s.losses - 1 ELSE s.losses]
AddResult(s, position) ==
    [total  |-> s.total + 1,
     wins   |-> IF position > 0 THEN s.wins + 1 ELSE s.wins,
     losses |-> IF position > 0 THEN s.losses
                ELSE IF position < 0 THEN s.losses + 1 ELSE s.losses]

-----------------------------------------------------------------------------
NoStats == [total |-> 0, wins |-> 0, losses |-> 0]
NoRun == [todo |-> {}, market |-> NoWinner, winner |-> NoWinner,
          pending |-> {}, wallet |-> NoWinner, stats |-> NoStats]

Init ==
    /\ gamma = [m \in Market |-> Open]
    /\ stored = {}
    /\ resolutions = [m \in Market |-> NoWinner]
    /\ stats = [w \in Wallet |-> NoStats]
    /\ pc = [r \in Recalc |-> "idle"]
    /\ run = [r \in Recalc |-> NoRun]
    /\ counted = [w \in Wallet |-> [m \in Market |-> 0]]
    /\ crashes = 0

\* The trade processor stores a trade.
StoreTrade(t) ==
    /\ t \notin stored
    /\ stored' = stored \cup {t}
    /\ UNCHANGED <<gamma, resolutions, stats, pc, run, counted, crashes>>

\* Gamma reports a market closed, perhaps before its prices are final.
CloseMarket(m) ==
    /\ Winner(m) = NoWinner
    /\ \E prices \in PriceLists \ {gamma[m]} : gamma' = [gamma EXCEPT ![m] = prices]
    /\ UNCHANGED <<stored, resolutions, stats, pc, run, counted, crashes>>

Crash ==
    /\ crashes < MaxCrashes
    /\ crashes' = crashes + 1
    /\ pc' = [r \in Recalc |-> "idle"]
    /\ run' = [r \in Recalc |-> NoRun]
    /\ UNCHANGED <<gamma, stored, resolutions, stats, counted>>

-----------------------------------------------------------------------------
(***************************************************************************)
(* RecalculateWinRates in goroutine r.                                     *)
(***************************************************************************)
Goto(r, l) == pc' = [pc EXCEPT ![r] = l]

\* Back to the head of the loop over the markets.
NextMarket(r) == Goto(r, "check")

\* An error of this call ends the recalculation at once: see Recalculate of Service.
GetAllConditionIDs(r) ==
    /\ pc[r] = "idle"
    /\ run' = [run EXCEPT ![r] = [NoRun EXCEPT !.todo = {ConditionID[t] : t \in stored}]]
    /\ NextMarket(r)
    /\ UNCHANGED <<gamma, stored, resolutions, stats, counted, crashes>>

\* The loop ends.
Finish(r) ==
    /\ pc[r] = "check"
    /\ run[r].todo = {}
    /\ Goto(r, "idle")
    /\ run' = [run EXCEPT ![r] = NoRun]
    /\ UNCHANGED <<gamma, stored, resolutions, stats, counted, crashes>>

\* "Already resolved".  The mutant has no such check.
AlreadyResolvedNever(m) == FALSE
AlreadyResolved(m) == resolutions[m] # NoWinner

GetMarketResolution(r) ==
    /\ pc[r] = "check"
    /\ \E m \in run[r].todo :
         /\ run' = [run EXCEPT ![r].todo = @ \ {m}, ![r].market = m]
         /\ \/ AlreadyResolved(m) /\ NextMarket(r)
            \/ ~AlreadyResolved(m) /\ Goto(r, "gamma")
            \/ Fails("GetMarketResolution") /\ NextMarket(r)
    /\ UNCHANGED <<gamma, stored, resolutions, stats, counted, crashes>>

GetMarketByConditionID(r) ==
    /\ pc[r] = "gamma"
    /\ LET winner == Winner(run[r].market)
       IN  \/ /\ winner # NoWinner
              /\ run' = [run EXCEPT ![r].winner = winner]
              /\ Goto(r, "store")
           \/ /\ winner = NoWinner \/ Fails("GammaAPI")
              /\ NextMarket(r)
              /\ UNCHANGED run
    /\ UNCHANGED <<gamma, stored, resolutions, stats, counted, crashes>>

UpsertMarketResolution(r) ==
    /\ pc[r] = "store"
    /\ \/ /\ resolutions' = [resolutions EXCEPT ![run[r].market] = run[r].winner]
          /\ Goto(r, "trades")
       \/ /\ Fails("UpsertMarketResolution")
          /\ NextMarket(r)
          /\ UNCHANGED resolutions
    /\ UNCHANGED <<gamma, stored, stats, run, counted, crashes>>

\* updateWalletStatsForResolution: the net position of every wallet in the market.
GetTradesByConditionID(r) ==
    /\ pc[r] = "trades"
    /\ \/ LET m == run[r].market
              wallets == {ProxyWallet[t] : t \in {u \in stored : ConditionID[u] = m}}
          IN  /\ run' = [run EXCEPT ![r].pending =
                            {<<w, netPosition(TradesOf(w, m), run[r].winner)>> : w \in wallets}]
              /\ Goto(r, "read")
       \/ /\ Fails("GetTradesByConditionID")
          /\ NextMarket(r)
          /\ UNCHANGED run
    /\ UNCHANGED <<gamma, stored, resolutions, stats, counted, crashes>>

\* The loop over the wallets ends; so does the handling of the market.
WalletsDone(r) ==
    /\ pc[r] = "read"
    /\ run[r].pending = {}
    /\ NextMarket(r)
    /\ UNCHANGED <<gamma, stored, resolutions, stats, run, counted, crashes>>

GetWalletStats(r) ==
    /\ pc[r] = "read"
    /\ \E p \in run[r].pending :
         \/ /\ run' = [run EXCEPT ![r].pending = @ \ {p}, ![r].wallet = p[1],
                                  ![r].stats = AddResult(stats[p[1]], p[2])]
            /\ Goto(r, "write")
         \/ /\ Fails("GetWalletStats")
            /\ run' = [run EXCEPT ![r].pending = @ \ {p}]
            /\ UNCHANGED pc
    /\ UNCHANGED <<gamma, stored, resolutions, stats, counted, crashes>>

\* Save overwrites the row with the struct.
UpsertWalletStats(r) ==
    /\ pc[r] = "write"
    /\ \/ /\ stats' = [stats EXCEPT ![run[r].wallet] = run[r].stats]
          /\ counted' = [counted EXCEPT ![run[r].wallet][run[r].market] = @ + 1]
       \/ Fails("UpsertWalletStats") /\ UNCHANGED <<stats, counted>>
    /\ Goto(r, "read")
    /\ UNCHANGED <<gamma, stored, resolutions, run, crashes>>

RecalculateWinRates(r) ==
    \/ GetAllConditionIDs(r) \/ Finish(r)
    \/ GetMarketResolution(r) \/ GetMarketByConditionID(r) \/ UpsertMarketResolution(r)
    \/ GetTradesByConditionID(r) \/ WalletsDone(r) \/ GetWalletStats(r) \/ UpsertWalletStats(r)

-----------------------------------------------------------------------------
(***************************************************************************)
(* Properties.                                                             *)
(***************************************************************************)
Stats == [total : Nat, wins : Nat, losses : Nat]

\* Every variable keeps its type.
TypeOK ==
    /\ gamma \in [Market -> PriceLists \cup {Open}]
    /\ stored \subseteq Trade
    /\ resolutions \in [Market -> {Outcomes[i] : i \in DOMAIN Outcomes} \cup {NoWinner}]
    /\ stats \in [Wallet -> Stats]
    /\ pc \in [Recalc -> {"idle", "check", "gamma", "store", "trades", "read", "write"}]
    /\ \A r \in Recalc : run[r].todo \subseteq Market /\ run[r].stats \in Stats
    /\ counted \in [Wallet -> [Market -> Nat]]
    /\ crashes \in Nat

\* "Already resolved" is checked calls before the resolution is stored and the wallets
\* are counted.  Recalculations between the two all count the market, but later ones do
\* not: a wallet is counted for it at most once by each that can run at the same time,
\* and only after the resolution is stored, whatever fails and whenever the service
\* restarts.
CountedPerOverlap ==
    \A w \in Wallet, m \in Market :
        /\ counted[w][m] <= Cardinality(Recalc)
        /\ counted[w][m] > 0 => resolutions[m] # NoWinner

\* A hedged wallet neither wins nor loses, so the win rate stays at most one.
WinRateBounded == \A w \in Wallet : stats[w].wins + stats[w].losses <= stats[w].total

(***************************************************************************)
(* What comments and docs say and the code does not do.                    *)
(***************************************************************************)
\* A wallet that traded a market before its resolution is counted for it.
ResolvedIsCounted ==
    \A w \in Wallet, m \in Market :
        (Winner(m) # NoWinner /\ resolutions[m] = NoWinner /\ TradesOf(w, m) # {})
            ~> counted[w][m] > 0
=============================================================================
