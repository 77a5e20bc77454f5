------------------------------ MODULE Service ------------------------------
(***************************************************************************)
(* The loop of main in cmd/insiderwatch/main.go, composed with WinRates:   *)
(* the startup pass and recalculation, the two tickers, the signal channel *)
(* and the end of the process, orderly or not.                             *)
(*                                                                         *)
(* A pass of ProcessTrades is here only what the recalculations see of it: *)
(* the trades it stores, and that it ends.                                 *)
(***************************************************************************)
EXTENDS WinRates

CONSTANT Kills   \* may the process be killed or crash, besides stopping on a signal?

ASSUME KillsAssumption == Kills \in BOOLEAN

VARIABLES
    mainPc,        \* where main is
    ticker,        \* is there a tick in ticker.C, a channel of capacity one?
    winRateTicker, \* is there one in winRateTicker.C?
    sigChan,       \* is there a signal in sigChan, of capacity one?
    started,       \* the recalculations that were started and have not ended
    terminating    \* history: a termination signal was sent to the process

loopVars == <<mainPc, ticker, winRateTicker, sigChan, started, terminating>>
serviceVars == <<vars, loopVars>>

\* main has set up the channels and is in its first ProcessTrades.
NewProcess ==
    /\ mainPc' = "startup"
    /\ ticker' = FALSE /\ winRateTicker' = FALSE /\ sigChan' = FALSE
    /\ started' = {} /\ terminating' = FALSE

ServiceInit ==
    /\ Init
    /\ mainPc = "startup"
    /\ ticker = FALSE /\ winRateTicker = FALSE /\ sigChan = FALSE
    /\ started = {} /\ terminating = FALSE

-----------------------------------------------------------------------------
(***************************************************************************)
(* Ticks and signals.  A channel that is full drops them.                  *)
(***************************************************************************)
Up == mainPc # "exited"

PollTick ==
    /\ Up /\ ~ticker
    /\ ticker' = TRUE
    /\ UNCHANGED <<vars, mainPc, winRateTicker, sigChan, started, terminating>>

\* The daily tick, whatever is running: its ticker exists before the startup pass.
DayTick ==
    /\ Up /\ ~winRateTicker
    /\ winRateTicker' = TRUE
    /\ UNCHANGED <<vars, mainPc, ticker, sigChan, started, terminating>>

\* SIGINT or SIGTERM.  The runtime does not wait for a receiver: in the mutant, whose
\* channel has no buffer, it drops the signal while main is in a pass.
NotifyUnbuffered ==
    /\ sigChan' = (mainPc = "select")
    /\ terminating' = TRUE
Notify ==
    /\ sigChan' = TRUE
    /\ terminating' = TRUE

Signal ==
    /\ Up /\ ~terminating
    /\ crashes < MaxCrashes
    /\ Notify
    /\ UNCHANGED <<vars, mainPc, ticker, winRateTicker, started>>

-----------------------------------------------------------------------------
(***************************************************************************)
(* main.                                                                   *)
(***************************************************************************)
PassStores(t) ==
    /\ mainPc \in {"startup", "pass"}
    /\ StoreTrade(t)
    /\ UNCHANGED loopVars

\* ProcessTrades returns.  After the first one main starts a recalculation and enters
\* its loop; an error is only logged.
PassEnds ==
    /\ \/ /\ mainPc = "startup"
          /\ \E r \in Recalc : started' = {r}
       \/ mainPc = "pass" /\ UNCHANGED started
    /\ mainPc' = "select"
    /\ UNCHANGED <<vars, ticker, winRateTicker, sigChan, terminating>>

\* The mutant takes the tick and starts no pass.
SelectTickIgnored ==
    /\ mainPc = "select" /\ ticker
    /\ ticker' = FALSE
    /\ UNCHANGED <<vars, mainPc, winRateTicker, sigChan, started, terminating>>
SelectTick ==
    /\ mainPc = "select" /\ ticker
    /\ ticker' = FALSE
    /\ mainPc' = "pass"
    /\ UNCHANGED <<vars, winRateTicker, sigChan, started, terminating>>

\* Main does not look whether an earlier recalculation still runs.  Recalc bounds how
\* many do: the tick waits in its channel while there is no free slot.
SelectDay ==
    /\ mainPc = "select" /\ winRateTicker
    /\ winRateTicker' = FALSE
    /\ \E r \in Recalc \ started : started' = started \cup {r}
    /\ UNCHANGED <<vars, mainPc, ticker, sigChan, terminating>>

\* The process ends, and with it every goroutine.
Exit ==
    /\ Crash
    /\ mainPc' = "exited"
    /\ ticker' = FALSE /\ winRateTicker' = FALSE /\ sigChan' = FALSE
    /\ started' = {} /\ terminating' = FALSE

\* The signal is received: main cancels the context and returns.
SelectSignal == mainPc = "select" /\ sigChan /\ Exit

\* The container runtime loses its patience with a pass, or the process crashes.
Kill == Kills /\ Up /\ Exit

Restart ==
    /\ mainPc = "exited"
    /\ NewProcess
    /\ UNCHANGED vars

\* A recalculation that was started runs, beside the passes, to its end, or to an error
\* of its first call.
Recalculate(r) ==
    /\ r \in started
    /\ \/ /\ RecalculateWinRates(r)
          /\ started' = IF pc'[r] = "idle" THEN started \ {r} ELSE started
       \/ /\ pc[r] = "idle" /\ Fails("GetAllConditionIDs")
          /\ started' = started \ {r}
          /\ UNCHANGED vars
    /\ UNCHANGED <<mainPc, ticker, winRateTicker, sigChan, terminating>>

MarketCloses(m) == CloseMarket(m) /\ UNCHANGED loopVars

ServiceNext ==
    \/ PollTick \/ DayTick \/ Signal
    \/ \E t \in Trade : PassStores(t)
    \/ PassEnds \/ SelectTick \/ SelectDay \/ SelectSignal
    \/ Kill \/ Restart
    \/ \E r \in Recalc : Recalculate(r)
    \/ \E m \in Market : MarketCloses(m)

ServiceSpec == ServiceInit /\ [][ServiceNext]_serviceVars

\* Time passes, so the tickers tick; a pass ends and a recalculation goes on; the container
\* is restarted.  select chooses at random among the channels that are ready, so none of
\* them is passed over for ever.
ServiceFairness ==
    /\ WF_serviceVars(PollTick) /\ WF_serviceVars(DayTick)
    /\ WF_serviceVars(PassEnds) /\ WF_serviceVars(Restart)
    /\ SF_serviceVars(SelectTick) /\ SF_serviceVars(SelectDay) /\ SF_serviceVars(SelectSignal)
    /\ \A r \in Recalc : WF_serviceVars(Recalculate(r))

ServiceFairSpec == ServiceSpec /\ ServiceFairness

-----------------------------------------------------------------------------
(***************************************************************************)
(* Properties.                                                             *)
(***************************************************************************)
\* A termination signal is obeyed, although main looks at it only between two passes and
\* the tickers compete for its attention.
SignalObeyed == terminating ~> mainPc = "exited"

\* A tick of the poll is followed by a pass, unless the process ends first.
TickServed == ticker ~> mainPc \in {"pass", "exited"}
=============================================================================
