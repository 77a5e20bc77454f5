------------------------- MODULE RateLimiterProofs -------------------------
(***************************************************************************)
(* Proofs about RateLimiter, for every rate, every resolution of the clock *)
(* and every set of callers.                                               *)
(***************************************************************************)
EXTENDS RateLimiter, TLAPS

\* A token in the bucket, or already refilled, counts against the window as if it
\* had been granted.
RateBoundInv == window.granted * One + Refilled <= maxTokens + window.ticks * rate

Inv == TypeOK /\ RateBoundInv

\* The derived constants are positive integers, whatever rate New was given.
LEMMA ConstantTypes ==
    rate \in Nat \ {0} /\ One \in Nat \ {0} /\ maxTokens \in Nat \ {0} /\ waitTime \in Nat
<1>1. rate \in Nat \ {0}
  BY RateAssumption DEF rate
<1>2. One \in Nat \ {0}
  BY RateAssumption DEF One
<1>3. maxTokens \in Nat \ {0}
  BY <1>1, RateAssumption DEF maxTokens
<1>4. waitTime \in Nat
  <2>1. One + rate - 1 \in Nat
    BY <1>1, <1>2
  <2>2. QED
    BY <1>1, <2>1 DEF waitTime
<1>5. QED
  BY <1>1, <1>2, <1>3, <1>4

\* The refilled bucket holds at least what it held and at most its capacity.
LEMMA RefilledRange == TypeOK => Refilled \in tokens .. maxTokens
<1> SUFFICES ASSUME TypeOK PROVE Refilled \in tokens .. maxTokens
  OBVIOUS
<1>1. rate \in Nat /\ maxTokens \in Nat /\ tokens \in 0 .. maxTokens /\ elapsed \in Nat
  BY ConstantTypes, RateAssumption DEF TypeOK
<1>2. elapsed * rate \in Nat
  BY <1>1
<1> QED
  BY <1>1, <1>2 DEF Refilled

\* Every action of the limiter keeps the types; the bucket stays within its bounds
\* because tryTake decides on the amount it has just capped.
LEMMA TypeStep == TypeOK /\ [Next]_vars => TypeOK'
<1> SUFFICES ASSUME TypeOK, [Next]_vars PROVE TypeOK'
  OBVIOUS
<1> USE DEF TypeOK
<1>0. /\ rate \in Nat \ {0} /\ One \in Nat \ {0} /\ maxTokens \in Nat /\ waitTime \in Nat
      /\ TicksPerSec \in Nat \ {0} /\ MaxWindow \in Nat
  BY ConstantTypes, RateAssumption
<1>1. CASE Tick
  BY <1>0, <1>1 DEF Tick
<1>2. CASE OpenWindow
  BY <1>2 DEF OpenWindow
<1>3. CASE Cancel
  BY <1>3 DEF Cancel
<1>4. ASSUME NEW c \in Call, CallWait(c) PROVE TypeOK'
  BY <1>4 DEF CallWait
<1>5. ASSUME NEW c \in Call, tryTake(c) PROVE TypeOK'
  <2>1. Refilled \in 0 .. maxTokens
    BY RefilledRange, <1>0
  <2>2. tokens' \in 0 .. maxTokens
    BY <1>5, <1>0, <2>1 DEF tryTake
  <2>3. elapsed' \in 0 .. TicksPerSec
    BY <1>5, <1>0 DEF tryTake
  <2>4. st' \in [Call -> {"new", "try", "sleep", "done", "error"}] /\ timer' \in [Call -> Nat]
    BY <1>5, <1>0 DEF tryTake
  <2>5. window' \in [granted : Nat, ticks : Nat] /\ cancelled' \in BOOLEAN
    BY <1>5 DEF tryTake
  <2>6. QED
    BY <2>2, <2>3, <2>4, <2>5
<1>6. ASSUME NEW c \in Call, TimerFires(c) PROVE TypeOK'
  BY <1>6 DEF TimerFires
<1>7. ASSUME NEW c \in Call, ContextDone(c) PROVE TypeOK'
  BY <1>7 DEF ContextDone
<1>8. CASE UNCHANGED vars
  BY <1>8 DEF vars
<1>9. QED
  BY <1>1, <1>2, <1>3, <1>4, <1>5, <1>6, <1>7, <1>8 DEF Next, Wait

\* A step adds to a window's grants only what it takes out of the bucket, and to the
\* bucket only what the clock adds to the window's allowance.
LEMMA BoundStep == Inv /\ [Next]_vars => RateBoundInv'
<1> SUFFICES ASSUME TypeOK, RateBoundInv, [Next]_vars PROVE RateBoundInv'
  BY DEF Inv
<1>0. /\ rate \in Nat \ {0} /\ One \in Nat \ {0} /\ maxTokens \in Nat
      /\ TicksPerSec \in Nat \ {0} /\ MaxWindow \in Nat
      /\ tokens \in Nat /\ tokens <= maxTokens /\ elapsed \in Nat
      /\ window \in [granted : Nat, ticks : Nat]
  BY ConstantTypes, RateAssumption DEF TypeOK
<1>r. Refilled \in 0 .. maxTokens
  BY RefilledRange, <1>0
<1>p. elapsed * rate \in Nat /\ window.ticks * rate \in Nat /\ window.granted * One \in Nat
  BY <1>0
<1>z. 0 * One = 0 /\ 0 * rate = 0
  BY <1>0
<1>1. CASE Tick
  <2>0. Refilled' \in 0 .. maxTokens
    <3>1. TypeOK'
      BY TypeStep
    <3>2. (TypeOK => Refilled \in tokens .. maxTokens)'
      BY RefilledRange, PTL
    <3>3. QED
      BY <3>1, <3>2, <1>0 DEF TypeOK
  <2>1. Refilled' <= Refilled + rate
    <3>1. CASE elapsed < TicksPerSec
      <4>1. elapsed' = elapsed + 1 /\ tokens' = tokens
        BY <1>1, <3>1 DEF Tick
      <4>2. (elapsed + 1) * rate = elapsed * rate + rate
        BY <1>0
      <4>3. QED
        BY <4>1, <4>2, <1>0, <1>p DEF Refilled
    <3>2. CASE ~(elapsed < TicksPerSec)
      <4>1. elapsed' = elapsed /\ tokens' = tokens
        BY <1>1, <3>2 DEF Tick
      <4>2. QED
        BY <4>1, <1>0, <1>p, <1>r DEF Refilled
    <3>3. QED
      BY <3>1, <3>2
  <2>2. CASE window.ticks < MaxWindow
    <3>1. window'.granted = window.granted /\ window'.ticks = window.ticks + 1
      BY <1>1, <2>2, <1>0 DEF Tick
    <3>2. (window.ticks + 1) * rate = window.ticks * rate + rate
      BY <1>0
    <3>3. QED
      BY <3>1, <3>2, <2>0, <2>1, <1>0, <1>p, <1>r DEF RateBoundInv
  <2>3. CASE ~(window.ticks < MaxWindow)
    <3>1. window'.granted = 0 /\ window'.ticks = 0
      BY <1>1, <2>3 DEF Tick
    <3>2. window'.granted * One = 0 /\ window'.ticks * rate = 0
      BY <3>1, <1>z
    <3>3. QED
      BY <3>2, <2>0, <1>0 DEF RateBoundInv
  <2>4. QED
    BY <2>2, <2>3
<1>2. CASE OpenWindow
  <2>1. window'.granted = 0 /\ window'.ticks = 0 /\ Refilled' = Refilled
    BY <1>2 DEF OpenWindow, Refilled
  <2>2. QED
    BY <2>1, <1>r, <1>0, <1>z DEF RateBoundInv
<1>3. ASSUME NEW c \in Call, tryTake(c) PROVE RateBoundInv'
  <2>0. tokens' \in 0 .. maxTokens
    BY TypeStep, <1>3 DEF Next, Wait, TypeOK
  <2>1. elapsed' = 0 /\ Refilled' = tokens'
    BY <1>3, <2>0, <1>0, <1>z DEF tryTake, Refilled
  <2>2. CASE Refilled >= One
    <3>1. tokens' = Refilled - One /\ window'.granted = window.granted + 1
          /\ window'.ticks = window.ticks
      BY <1>3, <2>2, <1>0, <1>r DEF tryTake
    <3>2. (window.granted + 1) * One = window.granted * One + One
      BY <1>0
    <3>3. QED
      BY <3>1, <3>2, <2>1, <1>0, <1>p, <1>r DEF RateBoundInv
  <2>3. CASE ~(Refilled >= One)
    <3>1. tokens' = Refilled /\ window' = window
      BY <1>3, <2>3 DEF tryTake
    <3>2. QED
      BY <3>1, <2>1 DEF RateBoundInv
  <2>4. QED
    BY <2>2, <2>3
<1>4. CASE UNCHANGED <<tokens, elapsed, window>>
  BY <1>4 DEF RateBoundInv, Refilled
<1>5. QED
  BY <1>1, <1>2, <1>3, <1>4
     DEF Next, Wait, CallWait, TimerFires, ContextDone, Cancel, vars

\* The bucket of a limiter that New made starts within its bounds.
LEMMA InitInv == Init => Inv
<1> SUFFICES ASSUME Init PROVE Inv
  OBVIOUS
<1>1. /\ rate \in Nat \ {0} /\ One \in Nat \ {0} /\ maxTokens \in Nat \ {0}
      /\ TicksPerSec \in Nat \ {0}
  BY ConstantTypes, RateAssumption
<1>2. TypeOK
  <2>1. tokens \in 0 .. maxTokens /\ elapsed \in 0 .. TicksPerSec
    BY <1>1 DEF Init
  <2>2. st \in [Call -> {"new", "try", "sleep", "done", "error"}] /\ timer \in [Call -> Nat]
    BY DEF Init
  <2>3. cancelled \in BOOLEAN /\ window \in [granted : Nat, ticks : Nat]
    BY DEF Init
  <2>4. QED
    BY <2>1, <2>2, <2>3 DEF TypeOK
<1>3. 0 * One = 0 /\ 0 * rate = 0
  BY <1>1
<1>4. Refilled = maxTokens
  BY <1>1, <1>3 DEF Init, Refilled
<1>5. window.granted = 0 /\ window.ticks = 0
  BY DEF Init
<1>6. RateBoundInv
  BY <1>1, <1>3, <1>4, <1>5 DEF RateBoundInv
<1>7. QED
  BY <1>2, <1>6 DEF Inv

\* Both invariants hold in every reachable state of a limiter.
LEMMA InvInvariant == Spec => []Inv
<1>1. Inv /\ [Next]_vars => Inv'
  BY TypeStep, BoundStep DEF Inv
<1>2. QED
  BY InitInv, <1>1, PTL DEF Spec

\* The bucket of tryTake stays between empty and its capacity, for every rate.
THEOREM TypeCorrect == Spec => []TypeOK
<1>1. Inv => TypeOK
  BY DEF Inv
<1>2. QED
  BY InvInvariant, <1>1, PTL

\* In no window does the limiter grant more than a full bucket and the refill of the
\* window: the promise of tryTake to the API, for every rate and number of callers.
THEOREM RateBounded == Spec => []RateBound
<1>1. Inv => RateBound
  <2> SUFFICES ASSUME TypeOK, RateBoundInv PROVE RateBound
    BY DEF Inv
  <2>1. /\ rate \in Nat /\ One \in Nat /\ maxTokens \in Nat
        /\ window \in [granted : Nat, ticks : Nat]
    BY ConstantTypes DEF TypeOK
  <2>2. Refilled >= 0 /\ Refilled \in Int
    BY RefilledRange, <2>1 DEF TypeOK
  <2>3. window.granted * One \in Nat /\ window.ticks * rate \in Nat
    BY <2>1
  <2>4. QED
    BY <2>1, <2>2, <2>3 DEF RateBoundInv, RateBound
<1>2. QED
  BY InvInvariant, <1>1, PTL

=============================================================================
