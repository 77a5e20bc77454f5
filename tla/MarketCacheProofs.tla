------------------------- MODULE MarketCacheProofs -------------------------
(***************************************************************************)
(* Proofs about MarketCache, for every TTL, timeout, number of goroutines  *)
(* and set of failing calls.                                               *)
(***************************************************************************)
EXTENDS MarketCache, TLAPS

USE DEF calls

\* The record of an answer, or of a row, is no later than now, and its stamp is at most
\* a request later than its data.
Honest(r) ==
    r.asOf <= r.updated /\ r.updated <= r.asOf + Timeout /\ r.updated <= now

\* The row and every copy of one are honest; a request is within its timeout; and a call
\* that will write has asked during the call.
CacheInv ==
    /\ row # NoRow => Honest(row)
    /\ \A g \in Goroutine : record[g] # NoRow => Honest(record[g])
    /\ \A g \in Goroutine : pc[g] # "idle" => began[g] <= now
    /\ \A g \in Goroutine : pc[g] = "await" =>
         began[g] <= asked[g] /\ asked[g] <= now /\ now <= asked[g] + Timeout
    /\ \A g \in Goroutine : pc[g] = "save" =>
         record[g] # NoRow /\ began[g] <= record[g].asOf

Inv == TypeOK /\ CacheInv

\* Returning a second of Gamma's, the trade's own words or nothing keeps the types.
LEMMA ReturnType ==
    ASSUME TypeOK, NEW g \in Goroutine, NEW i \in Nat \cup {Unknown, NoInfo}, Return(g, i)
    PROVE  /\ pc' \in [Goroutine -> {"idle", "read", "ttl", "ask", "await", "save"}]
           /\ began' \in [Goroutine -> Nat] /\ asked' \in [Goroutine -> Nat]
           /\ record' \in [Goroutine -> Row \cup {NoRow}]
           /\ info' \in [Goroutine -> Nat \cup {Unknown, NoInfo}]
BY DEF TypeOK, Return, Goto

\* A call that returns leaves the clock, and the other calls, where they were.
LEMMA ReturnInv ==
    ASSUME Inv, NEW g \in Goroutine, NEW i, Return(g, i), now' = now,
           row' = row \/ row' = record[g]
    PROVE  CacheInv'
<1>1. /\ pc' = [pc EXCEPT ![g] = "idle"]
      /\ began' = [began EXCEPT ![g] = 0] /\ asked' = [asked EXCEPT ![g] = 0]
      /\ record' = [record EXCEPT ![g] = NoRow]
  BY DEF Return, Goto
<1>2. /\ pc'[g] = "idle" /\ record'[g] = NoRow
      /\ \A h \in Goroutine \ {g} : /\ pc'[h] = pc[h] /\ began'[h] = began[h]
                                    /\ asked'[h] = asked[h] /\ record'[h] = record[h]
  BY <1>1 DEF Inv, TypeOK
<1>3. row' # NoRow => Honest(row')
  BY DEF Inv, CacheInv
<1>4. QED
  BY <1>2, <1>3 DEF Inv, CacheInv, Honest

\* Every step keeps the row and the records honest.
LEMMA InvStep == Inv /\ [Next]_vars => Inv'
<1> SUFFICES ASSUME Inv, [Next]_vars PROVE Inv'
  OBVIOUS
<1>a. TypeOK /\ CacheInv
  BY DEF Inv
<1>1. ASSUME NEW g \in Goroutine, Call(g) PROVE Inv'
  <2>1. TypeOK'
    BY <1>a, <1>1 DEF Call, Goto, TypeOK
  <2>2. CacheInv'
    BY <1>a, <1>1 DEF Call, Goto, TypeOK, CacheInv, Honest
  <2>3. QED
    BY <2>1, <2>2 DEF Inv
<1>2. ASSUME NEW g \in Goroutine, GetMarketMap(g) PROVE Inv'
  <2>1. CASE Return(g, NoInfo)
    <3>1. now' = now /\ row' = row
      BY <1>2 DEF GetMarketMap
    <3>2. QED
      BY <1>a, <2>1, <3>1, ReturnType, ReturnInv DEF Inv, TypeOK
  <2>2. CASE record' = [record EXCEPT ![g] = row] /\ Goto(g, "ttl") /\ UNCHANGED <<began, asked, info>>
    <3>1. now' = now /\ row' = row /\ pc' = [pc EXCEPT ![g] = "ttl"]
      BY <1>2, <2>2 DEF GetMarketMap, Goto
    <3>2. TypeOK'
      BY <1>a, <2>2, <3>1 DEF TypeOK
    <3>3. CacheInv'
      BY <1>a, <1>2, <2>2, <3>1 DEF TypeOK, CacheInv, Honest, GetMarketMap
    <3>4. QED
      BY <3>2, <3>3 DEF Inv
  <2>3. QED
    BY <1>2, <2>1, <2>2 DEF GetMarketMap
<1>3. ASSUME NEW g \in Goroutine, CheckTTL(g) PROVE Inv'
  <2>0. now' = now /\ row' = row
    BY <1>3 DEF CheckTTL
  <2>1. CASE Fresh(record[g]) /\ Return(g, record[g].asOf)
    <3>1. record[g].asOf \in Nat
      BY <1>a, <2>1 DEF Fresh, TypeOK, Row
    <3>2. QED
      BY <1>a, <2>0, <2>1, <3>1, ReturnType, ReturnInv DEF Inv, TypeOK
  <2>2. CASE Goto(g, "ask") /\ UNCHANGED <<began, asked, record, info>>
    <3>1. TypeOK'
      BY <1>a, <2>0, <2>2 DEF Goto, TypeOK
    <3>2. CacheInv'
      BY <1>a, <1>3, <2>0, <2>2 DEF Goto, TypeOK, CacheInv, Honest, CheckTTL
    <3>3. QED
      BY <3>1, <3>2 DEF Inv
  <2>3. QED
    BY <1>3, <2>1, <2>2 DEF CheckTTL
<1>4. ASSUME NEW g \in Goroutine, Ask(g) PROVE Inv'
  <2>1. TypeOK'
    BY <1>a, <1>4 DEF Ask, Goto, TypeOK
  <2>2. CacheInv'
    BY <1>a, <1>4, CacheAssumption DEF Ask, Goto, TypeOK, CacheInv, Honest
  <2>3. QED
    BY <2>1, <2>2 DEF Inv
<1>5. ASSUME NEW g \in Goroutine, Answer(g) PROVE Inv'
  <2>1. PICK ts \in asked[g] .. now :
             record' = [record EXCEPT ![g] = [asOf |-> ts, updated |-> now]]
    BY <1>5 DEF Answer
  <2>2. pc[g] = "await" /\ pc' = [pc EXCEPT ![g] = "save"] /\ UNCHANGED <<now, row, began, asked, info>>
    BY <1>5 DEF Answer, Goto
  <2>3. /\ ts \in Nat /\ now \in Nat /\ asked[g] \in Nat /\ began[g] \in Nat /\ Timeout \in Nat
        /\ began[g] <= ts /\ ts <= now /\ now <= ts + Timeout
    BY <1>a, <2>1, <2>2, CacheAssumption DEF TypeOK, CacheInv
  <2>4. [asOf |-> ts, updated |-> now] \in Row /\ Honest([asOf |-> ts, updated |-> now])
    BY <2>3 DEF Row, Honest
  <2>5. PICK r \in Row : /\ record' = [record EXCEPT ![g] = r] /\ Honest(r) /\ r.asOf = ts
    BY <2>1, <2>4
  <2>6. TypeOK'
    BY <1>a, <2>2, <2>5 DEF TypeOK
  <2>7. /\ record'[g] = r /\ pc'[g] = "save"
        /\ \A h \in Goroutine \ {g} : record'[h] = record[h] /\ pc'[h] = pc[h]
    BY <1>a, <2>2, <2>5 DEF TypeOK
  <2>8. r # NoRow
    BY <2>5, CacheAssumption
  <2>9. CacheInv'
    BY <1>a, <2>2, <2>3, <2>5, <2>7, <2>8 DEF CacheInv, Honest
  <2>10. QED
    BY <2>6, <2>9 DEF Inv
<1>6. ASSUME NEW g \in Goroutine, GammaError(g) \/ TimedOut(g) PROVE Inv'
  <2>1. now' = now /\ row' = row /\ Return(g, Unknown)
    BY <1>6 DEF GammaError, TimedOut
  <2>2. QED
    BY <1>a, <2>1, ReturnType, ReturnInv DEF Inv, TypeOK
<1>7. ASSUME NEW g \in Goroutine, UpsertMarketMap(g) PROVE Inv'
  <2>1. /\ pc[g] = "save" /\ now' = now /\ Return(g, record[g].asOf)
        /\ row' = row \/ row' = record[g]
    BY <1>7 DEF UpsertMarketMap
  <2>2. record[g] \in Row
    BY <1>a, <2>1 DEF TypeOK, CacheInv
  <2>3. record[g].asOf \in Nat
    BY <2>2 DEF Row
  <2>4. QED
    BY <1>a, <2>1, <2>2, <2>3, ReturnType, ReturnInv DEF Inv, TypeOK
<1>8. CASE Tick
  <2>1. now' = now + 1 /\ UNCHANGED <<row, calls>> /\ now \in Nat
    BY <1>a, <1>8 DEF Tick, TypeOK
  <2>2. TypeOK'
    BY <1>a, <2>1 DEF TypeOK
  <2>3. \A g \in Goroutine : pc[g] = "await" => now < asked[g] + Timeout
    BY <1>a, <1>8, CacheAssumption DEF Tick, Deadline, TypeOK
  <2>4. \A r \in Row : Honest(r) => Honest(r)'
    BY <2>1 DEF Honest, Row
  <2>5. CacheInv'
    BY <1>a, <2>1, <2>3, <2>4, CacheAssumption DEF CacheInv, TypeOK, Honest, Row
  <2>6. QED
    BY <2>2, <2>5 DEF Inv
<1>9. CASE Crash
  <2>1. TypeOK'
    BY <1>a, <1>9 DEF Crash, TypeOK
  <2>2. CacheInv'
    BY <1>a, <1>9 DEF Crash, CacheInv, Honest
  <2>3. QED
    BY <2>1, <2>2 DEF Inv
<1>10. CASE UNCHANGED vars
  BY <1>a, <1>10 DEF vars, Inv, TypeOK, CacheInv, Honest
<1>11. QED
  BY <1>1, <1>2, <1>3, <1>4, <1>5, <1>6, <1>7, <1>8, <1>9, <1>10 DEF Next, resolveMarket

\* The inductive invariant holds in every reachable state.
LEMMA Invariant == Spec => []Inv
<1>1. Init => Inv
  BY DEF Init, Inv, TypeOK, CacheInv
<1>2. QED
  BY <1>1, InvStep, PTL DEF Spec

\* The row of market_map is always one of Gamma's answers.
THEOREM TypeCorrect == Spec => []TypeOK
BY Invariant, PTL DEF Inv

\* No order of the writes of two goroutines, no error and no crash leaves a row whose
\* UpdatedTS is more than a request later than its data.
THEOREM StampsHonest == Spec => []StampHonest
<1>1. Inv => StampHonest
  BY DEF Inv, CacheInv, Honest, StampHonest
<1>2. QED
  BY <1>1, Invariant, PTL

\* No call returns data older than the TTL and a request, unless it got them itself.
THEOREM AnswersFresh == Spec => FreshAnswers
<1> DEFINE Answered(g) ==
             pc[g] # "idle" /\ pc'[g] = "idle" /\ info'[g] \in Nat =>
                 info'[g] >= began[g] \/ now - info'[g] < TTL + Timeout
<1>1. ASSUME Inv, [Next]_vars PROVE [\A g \in Goroutine : Answered(g)]_vars
  <2> SUFFICES ASSUME NEW g \in Goroutine, pc[g] # "idle", pc'[g] = "idle", info'[g] \in Nat
               PROVE  info'[g] >= began[g] \/ now - info'[g] < TTL + Timeout
    OBVIOUS
  <2>a. /\ TypeOK /\ CacheInv /\ TTL \in Nat /\ Timeout \in Nat
        /\ Unknown \notin Nat /\ NoInfo \notin Nat
    BY <1>1, CacheAssumption DEF Inv
  <2>1. ASSUME NEW h \in Goroutine, NEW i, Return(h, i)
        PROVE  h = g /\ info'[g] = i
    BY <2>1, <2>a DEF Return, Goto, TypeOK
  <2>2. ASSUME NEW h \in Goroutine, CheckTTL(h)
        PROVE  info'[g] >= began[g] \/ now - info'[g] < TTL + Timeout
    <3>1. CASE Fresh(record[h]) /\ Return(h, record[h].asOf)
      <4>1. h = g /\ info'[g] = record[g].asOf /\ record[g] # NoRow
        BY <3>1, <2>1 DEF Fresh
      <4>2. now - record[g].updated < TTL
        BY <3>1, <4>1 DEF Fresh
      <4>3. /\ record[g].updated <= record[g].asOf + Timeout
            /\ record[g].updated \in Nat /\ record[g].asOf \in Nat /\ now \in Nat
        BY <4>1, <2>a DEF CacheInv, Honest, TypeOK, Row
      <4>4. now - record[g].asOf < TTL + Timeout
        BY <4>2, <4>3, <2>a
      <4>5. QED
        BY <4>1, <4>4
    <3>2. CASE Goto(h, "ask")
      BY <3>2, <2>a DEF Goto, TypeOK
    <3>3. QED
      BY <2>2, <3>1, <3>2 DEF CheckTTL
  <2>3. ASSUME NEW h \in Goroutine, UpsertMarketMap(h)
        PROVE  info'[g] >= began[g]
    <3>1. h = g /\ info'[g] = record[g].asOf /\ pc[g] = "save"
      BY <2>3, <2>1 DEF UpsertMarketMap
    <3>2. began[g] <= record[g].asOf /\ record[g] \in Row /\ began[g] \in Nat
      BY <3>1, <2>a DEF CacheInv, TypeOK
    <3>3. QED
      BY <3>1, <3>2 DEF Row
  <2>4. ~ \E h \in Goroutine : GammaError(h) \/ TimedOut(h)
    BY <2>1, <2>a DEF GammaError, TimedOut
  <2>5. ~ \E h \in Goroutine : GetMarketMap(h)
    <3>1. ASSUME NEW h \in Goroutine, GetMarketMap(h), Goto(h, "ttl") PROVE FALSE
      BY <3>1, <2>a DEF Goto, TypeOK
    <3>2. QED
      BY <3>1, <2>1, <2>a DEF GetMarketMap
  <2>6. ~ \E h \in Goroutine : Call(h) \/ Ask(h) \/ Answer(h)
    BY <2>a DEF Call, Ask, Answer, Goto, TypeOK
  <2>7. ~Tick /\ ~UNCHANGED vars /\ ~Crash
    BY <2>a DEF Tick, vars, Crash
  <2>8. QED
    BY <1>1, <2>2, <2>3, <2>4, <2>5, <2>6, <2>7 DEF Next, resolveMarket
<1>2. QED
  BY <1>1, Invariant, PTL DEF Spec, FreshAnswers

=============================================================================
