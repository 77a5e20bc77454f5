---------------------------- MODULE RateLimiter ----------------------------
(***************************************************************************)
(* The token bucket of internal/ratelimit/ratelimit.go, shared by the      *)
(* goroutines that call one endpoint of the Data API or of the Gamma API.  *)
(*                                                                         *)
(* The configured rate is Rps / RpsDen requests per second and a second    *)
(* has TicksPerSec ticks.  Token amounts are multiples of                  *)
(* 1 / (TicksPerSec * RpsDen), so that refilling is exact in the integers. *)
(***************************************************************************)
EXTENDS Integers

CONSTANTS
    Call,         \* the calls of Wait, each made once
    Rps,          \* numerator of the configured rate
    RpsDen,       \* its denominator
    TicksPerSec,
    MaxWindow     \* bound on the length of an observed window

ASSUME RateAssumption ==
    /\ Rps \in Int
    /\ RpsDen \in Nat \ {0}
    /\ TicksPerSec \in Nat \ {0}
    /\ MaxWindow \in Nat

VARIABLES
    tokens,     \* l.tokens
    elapsed,    \* ticks since l.lastUpdate, at most a second
    st,         \* where each call of Wait is
    timer,      \* ticks until its time.After fires
    cancelled,  \* is the context cancelled?
    window      \* history: tokens granted and ticks passed since some past moment

vars == <<tokens, elapsed, st, timer, cancelled, window>>

\* New replaces a rate that is not positive by one request per second.
rate == IF Rps <= 0 THEN RpsDen ELSE Rps

\* One token, and the capacity of the bucket, which is one second of refilling.
One == TicksPerSec * RpsDen
maxTokens == rate * TicksPerSec

\* A second divided by the rate, in whole ticks.
waitTime == (One + rate - 1) \div rate

-----------------------------------------------------------------------------
\* A limiter just made by New, and no window under observation.
Init ==
    /\ tokens = maxTokens /\ elapsed = 0
    /\ st = [c \in Call |-> "new"]
    /\ timer = [c \in Call |-> 0]
    /\ cancelled = FALSE
    /\ window = [granted |-> 0, ticks |-> 0]

\* A tick of the clock.  After a second without an update the bucket is full, so
\* elapsed need not grow further.  A fired timer may wait for its goroutine to run.
Tick ==
    /\ elapsed' = IF elapsed < TicksPerSec THEN elapsed + 1 ELSE elapsed
    /\ timer' = [c \in Call |-> IF timer[c] > 0 THEN timer[c] - 1 ELSE 0]
    /\ window' = IF window.ticks < MaxWindow
                 THEN [window EXCEPT !.ticks = @ + 1]
                 ELSE [granted |-> 0, ticks |-> 0]
    /\ UNCHANGED <<tokens, st, cancelled>>

\* An observer starts to count again.
OpenWindow ==
    /\ window' = [granted |-> 0, ticks |-> 0]
    /\ UNCHANGED <<tokens, elapsed, st, timer, cancelled>>

Cancel ==
    /\ ~cancelled
    /\ cancelled' = TRUE
    /\ UNCHANGED <<tokens, elapsed, st, timer, window>>

-----------------------------------------------------------------------------
CallWait(c) ==
    /\ st[c] = "new"
    /\ st' = [st EXCEPT ![c] = "try"]
    /\ UNCHANGED <<tokens, elapsed, timer, cancelled, window>>

\* The bucket after adding what elapsed.  The mutant has no capacity.
RefilledUncapped == tokens + elapsed * rate
Refilled ==
    IF tokens + elapsed * rate > maxTokens THEN maxTokens ELSE tokens + elapsed * rate

\* tryTake holds the mutex from the refill to the decision.  In the mutant an attempt
\* that fails forgets what it refilled.
TryTakeForgets(c) ==
    /\ st[c] = "try"
    /\ elapsed' = 0
    /\ \/ /\ Refilled >= One
          /\ tokens' = Refilled - One
          /\ st' = [st EXCEPT ![c] = "done"]
          /\ window' = [window EXCEPT !.granted = @ + 1]
          /\ UNCHANGED timer
       \/ /\ Refilled < One
          /\ st' = [st EXCEPT ![c] = "sleep"]
          /\ timer' = [timer EXCEPT ![c] = waitTime]
          /\ UNCHANGED <<tokens, window>>
    /\ UNCHANGED cancelled
tryTake(c) ==
    /\ st[c] = "try"
    /\ elapsed' = 0
    /\ \/ /\ Refilled >= One
          /\ tokens' = Refilled - One
          /\ st' = [st EXCEPT ![c] = "done"]
          /\ window' = [window EXCEPT !.granted = @ + 1]
          /\ UNCHANGED timer
       \/ /\ Refilled < One
          /\ tokens' = Refilled
          /\ st' = [st EXCEPT ![c] = "sleep"]
          /\ timer' = [timer EXCEPT ![c] = waitTime]
          /\ UNCHANGED window
    /\ UNCHANGED cancelled

\* The select of Wait: when both channels are ready, either case may be taken.
TimerFires(c) ==
    /\ st[c] = "sleep"
    /\ timer[c] = 0
    /\ st' = [st EXCEPT ![c] = "try"]
    /\ UNCHANGED <<tokens, elapsed, timer, cancelled, window>>

ContextDone(c) ==
    /\ st[c] = "sleep"
    /\ cancelled
    /\ st' = [st EXCEPT ![c] = "error"]
    /\ timer' = [timer EXCEPT ![c] = 0]
    /\ UNCHANGED <<tokens, elapsed, cancelled, window>>

Wait(c) == tryTake(c) \/ TimerFires(c) \/ ContextDone(c)

Next ==
    \/ Tick \/ OpenWindow \/ Cancel
    \/ \E c \in Call : CallWait(c) \/ Wait(c)

Spec == Init /\ [][Next]_vars

\* Time passes, and a goroutine that can run is run.
FairSpec == Spec /\ WF_vars(Tick) /\ \A c \in Call : WF_vars(Wait(c))

-----------------------------------------------------------------------------
(***************************************************************************)
(* Properties.                                                             *)
(***************************************************************************)
\* The bucket never owes a token and never holds more than its capacity.
TypeOK ==
    /\ tokens \in 0 .. maxTokens
    /\ elapsed \in 0 .. TicksPerSec
    /\ st \in [Call -> {"new", "try", "sleep", "done", "error"}]
    /\ timer \in [Call -> Nat]
    /\ cancelled \in BOOLEAN
    /\ window \in [granted : Nat, ticks : Nat]

\* What tryTake promises the endpoint: in every window, however the callers
\* interleave, no more requests than a full bucket and what the window refills.
RateBound == window.granted * One <= maxTokens + window.ticks * rate

\* A call of Wait returns, although others compete with it for the tokens.
WaitReturns == \A c \in Call : st[c] = "try" ~> st[c] \in {"done", "error"}

=============================================================================
