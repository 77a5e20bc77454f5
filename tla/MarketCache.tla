---------------------------- MODULE MarketCache ----------------------------
(***************************************************************************)
(* resolveMarket of internal/processor/processor.go for one market: the    *)
(* row of market_map, shared by the goroutines of a pass and kept across   *)
(* passes and crashes, and the Gamma API behind it.                        *)
(*                                                                         *)
(* What Gamma says of the market is known here by the second it is the     *)
(* truth of.  Calls of the database may take any time; a Gamma request is  *)
(* cut off by the timeout of its http.Client.                              *)
(***************************************************************************)
EXTENDS Integers

CONSTANTS
    Goroutine,   \* goroutines of processTrade for trades of the market
    TTL,         \* 86400 in the code
    Timeout,     \* of the http.Client of the Gamma client, 30 in the code
    Faults,      \* the calls that may return an error
    NoRow,       \* the market has no row
    Unknown,     \* title and slug of the trade, nothing from Gamma
    NoInfo,      \* nil, or the call has not returned
    MaxTime      \* bound on the second in which a call starts

\* A row of market_map: the second its data were true in, and UpdatedTS.
Row == [asOf : Nat, updated : Nat]

ASSUME CacheAssumption ==
    /\ TTL \in Nat \ {0} /\ Timeout \in Nat \ {0} /\ MaxTime \in Nat
    /\ Faults \subseteq {"GetMarketMap", "GammaAPI", "UpsertMarketMap"}
    /\ Unknown \notin Nat /\ NoInfo \notin Nat /\ NoRow \notin Row

VARIABLES
    now,
    row,     \* the market's row of market_map, NoRow if absent
    pc,      \* the next step of each call
    began,   \* when the call began
    asked,   \* when it sent its request
    record,  \* cached or mapRecord: the row it read, or will write
    info     \* what the last call returned

calls == <<pc, began, asked, record, info>>
vars == <<now, row, calls>>

Fails(call) == call \in Faults

Init ==
    /\ now = 0 /\ row = NoRow
    /\ pc = [g \in Goroutine |-> "idle"]
    /\ began = [g \in Goroutine |-> 0]
    /\ asked = [g \in Goroutine |-> 0]
    /\ record = [g \in Goroutine |-> NoRow]
    /\ info = [g \in Goroutine |-> NoInfo]

-----------------------------------------------------------------------------
Goto(g, l) == pc' = [pc EXCEPT ![g] = l]

\* The call of g returns i.
Return(g, i) ==
    /\ Goto(g, "idle")
    /\ info' = [info EXCEPT ![g] = i]
    /\ began' = [began EXCEPT ![g] = 0]
    /\ asked' = [asked EXCEPT ![g] = 0]
    /\ record' = [record EXCEPT ![g] = NoRow]

\* processTrade calls resolveMarket.
Call(g) ==
    /\ pc[g] = "idle" /\ now < MaxTime
    /\ Goto(g, "read")
    /\ began' = [began EXCEPT ![g] = now]
    /\ info' = [info EXCEPT ![g] = NoInfo]
    /\ UNCHANGED <<now, row, asked, record>>

GetMarketMap(g) ==
    /\ pc[g] = "read"
    /\ \/ /\ record' = [record EXCEPT ![g] = row]
          /\ Goto(g, "ttl")
          /\ UNCHANGED <<began, asked, info>>
       \/ Fails("GetMarketMap") /\ Return(g, NoInfo)
    /\ UNCHANGED <<now, row>>

\* The row is younger than the TTL.  The mutant accepts it one second longer.
FreshInclusive(r) == r # NoRow /\ now - r.updated <= TTL
Fresh(r) == r # NoRow /\ now - r.updated < TTL

CheckTTL(g) ==
    /\ pc[g] = "ttl"
    /\ \/ Fresh(record[g]) /\ Return(g, record[g].asOf)
       \/ /\ ~Fresh(record[g])
          /\ Goto(g, "ask")
          /\ UNCHANGED <<began, asked, record, info>>
    /\ UNCHANGED <<now, row>>

\* GetMarketByConditionID has waited for the rate limiter and sends its request.
Ask(g) ==
    /\ pc[g] = "ask"
    /\ Goto(g, "await")
    /\ asked' = [asked EXCEPT ![g] = now]
    /\ UNCHANGED <<now, row, began, record, info>>

\* The answer arrives.  It is what Gamma knew at some moment since the request; the
\* record is stamped now.
Answer(g) ==
    /\ pc[g] = "await"
    /\ \E ts \in asked[g] .. now :
         record' = [record EXCEPT ![g] = [asOf |-> ts, updated |-> now]]
    /\ Goto(g, "save")
    /\ UNCHANGED <<now, row, began, asked, info>>

\* An error of Gamma: the call returns what the trade itself says, and caches nothing.
\* The mutant caches it.
GammaErrorCached(g) ==
    /\ pc[g] = "await"
    /\ Fails("GammaAPI")
    /\ row' = [asOf |-> Unknown, updated |-> now]
    /\ Return(g, Unknown)
    /\ UNCHANGED now
GammaError(g) ==
    /\ pc[g] = "await"
    /\ Fails("GammaAPI")
    /\ Return(g, Unknown)
    /\ UNCHANGED <<now, row>>

\* The http.Client gives the request up, and the call goes on as after an error.  The
\* mutant never does.
Deadline(g) == now >= asked[g] + Timeout

TimedOutNever(g) ==
    /\ pc[g] = "await" /\ FALSE
    /\ UNCHANGED vars
TimedOut(g) ==
    /\ pc[g] = "await"
    /\ Deadline(g)
    /\ Return(g, Unknown)
    /\ UNCHANGED <<now, row>>

\* UpsertMarketMap.  An error is only logged; either way the call returns what Gamma
\* said.  The mutant stamps the row when it is written.
UpsertMarketMapStamps(g) ==
    /\ pc[g] = "save"
    /\ row' = [asOf |-> record[g].asOf, updated |-> now]
    /\ Return(g, record[g].asOf)
    /\ UNCHANGED now
UpsertMarketMap(g) ==
    /\ pc[g] = "save"
    /\ \/ row' = record[g]
       \/ Fails("UpsertMarketMap") /\ UNCHANGED row
    /\ Return(g, record[g].asOf)
    /\ UNCHANGED now

\* A second passes.  The http.Client does not let a request outlive its timeout.
Tick ==
    /\ now < MaxTime \/ \E g \in Goroutine : pc[g] = "await"
    /\ \A g \in Goroutine : pc[g] = "await" => ~Deadline(g)
    /\ now' = now + 1
    /\ UNCHANGED <<row, calls>>

\* The process dies; the row stays.
Crash ==
    /\ \E g \in Goroutine : pc[g] # "idle"
    /\ pc' = [g \in Goroutine |-> "idle"]
    /\ began' = [g \in Goroutine |-> 0]
    /\ asked' = [g \in Goroutine |-> 0]
    /\ record' = [g \in Goroutine |-> NoRow]
    /\ info' = [g \in Goroutine |-> NoInfo]
    /\ UNCHANGED <<now, row>>

resolveMarket(g) ==
    \/ GetMarketMap(g) \/ CheckTTL(g) \/ Ask(g)
    \/ Answer(g) \/ GammaError(g) \/ TimedOut(g) \/ UpsertMarketMap(g)

Next ==
    \/ \E g \in Goroutine : Call(g) \/ resolveMarket(g)
    \/ Tick
    \/ Crash

Spec == Init /\ [][Next]_vars

\* The database and the limiter let a call go on, and time passes.  Gamma may stay silent:
\* nothing is assumed of its answers.
Fairness ==
    /\ \A g \in Goroutine :
         WF_vars(GetMarketMap(g) \/ CheckTTL(g) \/ Ask(g) \/ TimedOut(g) \/ UpsertMarketMap(g))
    /\ WF_vars(Tick)

FairSpec == Spec /\ Fairness

-----------------------------------------------------------------------------
(***************************************************************************)
(* Properties.                                                             *)
(***************************************************************************)
\* The row is never made of a trade's own words (the record is built only from an answer
\* of Gamma), and what is read is a row.
TypeOK ==
    /\ now \in Nat /\ row \in Row \cup {NoRow}
    /\ pc \in [Goroutine -> {"idle", "read", "ttl", "ask", "await", "save"}]
    /\ began \in [Goroutine -> Nat] /\ asked \in [Goroutine -> Nat]
    /\ record \in [Goroutine -> Row \cup {NoRow}]
    /\ info \in [Goroutine -> Nat \cup {Unknown, NoInfo}]

\* UpdatedTS never flatters the row: it is at most a request later than the data, however
\* late the row is written and whichever of two concurrent writes is last.
StampHonest ==
    row # NoRow => row.asOf <= row.updated /\ row.updated <= row.asOf + Timeout

\* A call returns what Gamma said during the call itself, or at most the TTL and the
\* timeout of a request ago: not older through a late write, an overwritten row or a restart.
FreshAnswers ==
    [][\A g \in Goroutine :
         pc[g] # "idle" /\ pc'[g] = "idle" /\ info'[g] \in Nat =>
             info'[g] >= began[g] \/ now - info'[g] < TTL + Timeout]_vars

\* A call returns although Gamma may never answer: the pass does not wait for it forever.
CallReturns == \A g \in Goroutine : pc[g] # "idle" ~> pc[g] = "idle"
=============================================================================
