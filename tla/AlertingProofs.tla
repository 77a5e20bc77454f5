--------------------------- MODULE AlertingProofs ---------------------------
(***************************************************************************)
(* Proofs about Alerting, for every set of alerts, any number of modes and *)
(* of webhooks.                                                            *)
(***************************************************************************)
EXTENDS Alerting, SequenceTheorems, WellFoundedInduction, TLAPS

-----------------------------------------------------------------------------
(***************************************************************************)
(* Induction over the natural numbers, for a set.                          *)
(***************************************************************************)
Below == {pair \in Nat \X Nat : pair[1] < pair[2]}

LEMMA BelowWellFounded == IsWellFoundedOn(Below, Nat)
BY NatLessThanWellFounded DEF OpToRel, Below

LEMMA NatSetInduction ==
    ASSUME NEW S, 0 \in S, \A n \in Nat : n \in S => n + 1 \in S
    PROVE  \A n \in Nat : n \in S
<1> DEFINE T == Nat \ S
<1> SUFFICES ASSUME T # {} PROVE FALSE
  OBVIOUS
<1>1. PICK x \in T : \A y \in T : <<y, x>> \notin Below
  <2>1. T \subseteq Nat
    OBVIOUS
  <2> HIDE DEF T
  <2>2. QED
    BY <2>1, WFMin, BelowWellFounded
<1>2. x # 0 /\ x - 1 \in Nat /\ x - 1 \notin S
  OBVIOUS
<1>3. <<x - 1, x>> \in Below
  BY <1>2 DEF Below
<1>4. QED
  BY <1>1, <1>2, <1>3

-----------------------------------------------------------------------------
(***************************************************************************)
(* The senders that createAlertSender makes of a configuration.            *)
(***************************************************************************)
Kind == {"log", "discord", "smtp"}

Has(s, k) == \E i \in DOMAIN s : s[i] = k

LEMMA ConfigType ==
    ASSUME NEW c \in Config
    PROVE  /\ c.modes \in Seq(Mode) /\ Len(c.modes) \in Nat \ {0}
           /\ DOMAIN c.modes = 1 .. Len(c.modes)
           /\ c.webhooks \in Nat
<1>1. PICK n \in 1 .. MaxModes : c.modes \in [1 .. n -> Mode]
  BY DEF Config
<1>2. n \in Nat \ {0}
  BY AlertingAssumption
<1>3. c.modes \in Seq(Mode)
  BY <1>1, <1>2
<1>4. Len(c.modes) = n
  BY <1>1, <1>2
<1>5. c.webhooks \in Nat
  BY AlertingAssumption DEF Config
<1>6. QED
  BY <1>1, <1>2, <1>3, <1>4, <1>5

\* The senders of one mode are of its kind, and there are some if its setting is there.
LEMMA ModeSendersType ==
    ASSUME NEW c \in Config, NEW m \in Mode
    PROVE  /\ ModeSenders(c, m) \in Seq(Kind)
           /\ \A k \in Kind :
                Has(ModeSenders(c, m), k) <=> /\ m = k
                                              /\ k = "discord" => c.webhooks > 0
                                              /\ k = "smtp" => c.smtpHost
<1>0. c.webhooks \in Nat
  BY ConfigType
<1>1. CASE m = "log"
  BY <1>1 DEF ModeSenders, Kind, Has
<1>2. CASE m = "discord"
  <2>1. ModeSenders(c, m) = [i \in 1 .. c.webhooks |-> "discord"]
    BY <1>2 DEF ModeSenders
  <2>2. ModeSenders(c, m) \in Seq(Kind)
    BY <1>0, <2>1 DEF Kind
  <2>3. QED
    BY <1>0, <1>2, <2>1, <2>2 DEF Kind, Has
<1>3. CASE m = "smtp" /\ c.smtpHost
  BY <1>3 DEF ModeSenders, Kind, Has
<1>4. CASE m = "smtp" /\ ~c.smtpHost
  BY <1>4 DEF ModeSenders, Kind, Has
<1>5. CASE m = "multi"
  BY <1>5 DEF ModeSenders, Kind, Has
<1>6. QED
  BY <1>1, <1>2, <1>3, <1>4, <1>5 DEF Mode

LEMMA ConcatHas ==
    ASSUME NEW s \in Seq(Kind), NEW r \in Seq(Kind), NEW k
    PROVE  /\ s \o r \in Seq(Kind)
           /\ Has(s \o r, k) <=> Has(s, k) \/ Has(r, k)
<1>1. s \o r \in Seq(Kind)
  OBVIOUS
<1>2. ASSUME Has(s \o r, k) PROVE Has(s, k) \/ Has(r, k)
  <2>1. PICK i \in 1 .. Len(s) + Len(r) : (s \o r)[i] = k
    BY <1>2 DEF Has
  <2>2. CASE i <= Len(s)
    BY <2>1, <2>2 DEF Has
  <2>3. CASE i > Len(s)
    <3>1. i - Len(s) \in DOMAIN r /\ r[i - Len(s)] = k
      BY <2>1, <2>3
    <3>2. QED
      BY <3>1 DEF Has
  <2>4. QED
    BY <2>1, <2>2, <2>3
<1>3. ASSUME Has(s, k) PROVE Has(s \o r, k)
  <2>1. PICK i \in DOMAIN s : s[i] = k
    BY <1>3 DEF Has
  <2>2. i \in DOMAIN (s \o r) /\ (s \o r)[i] = k
    BY <2>1
  <2>3. QED
    BY <2>2 DEF Has
<1>4. ASSUME Has(r, k) PROVE Has(s \o r, k)
  <2>1. PICK i \in DOMAIN r : r[i] = k
    BY <1>4 DEF Has
  <2>2. i + Len(s) \in DOMAIN (s \o r) /\ (s \o r)[i + Len(s)] = k
    BY <2>1
  <2>3. QED
    BY <2>2 DEF Has
<1>5. QED
  BY <1>1, <1>2, <1>3, <1>4

\* The loop over the modes defines a function of the number of modes done.
LEMMA SendersUpToDef ==
    ASSUME NEW c \in Config
    PROVE  /\ SendersUpTo(c) = [n \in 0 .. Len(c.modes) |->
                 IF n = 0 THEN << >> ELSE SendersUpTo(c)[n - 1] \o ModeSenders(c, c.modes[n])]
<1> DEFINE L == Len(c.modes)
           Next1(g, n) == IF n = 0 THEN << >> ELSE g[n - 1] \o ModeSenders(c, c.modes[n])
           Loop(n, g) == g = [k \in 0 .. n |-> Next1(g, k)]
           Exists(n) == n <= L => \E g : Loop(n, g)
           S == {n \in Nat : Exists(n)}
<1>1. L \in Nat
  BY ConfigType
<1>2. Exists(0)
  <2>1. Loop(0, [k \in 0 .. 0 |-> << >>])
    OBVIOUS
  <2>2. QED
    BY <2>1
<1>3. ASSUME NEW n \in Nat, Exists(n) PROVE Exists(n + 1)
  <2>1. SUFFICES ASSUME n + 1 <= L PROVE \E g : Loop(n + 1, g)
    OBVIOUS
  <2>2. PICK g : Loop(n, g)
    <3>1. n <= L
      BY <1>1, <2>1
    <3> HIDE DEF Loop
    <3>2. QED
      BY <1>3, <3>1
  <2> DEFINE h == [k \in 0 .. n + 1 |-> IF k <= n THEN g[k] ELSE Next1(g, n + 1)]
  <2>3. \A k \in 0 .. n + 1 : h[k] = Next1(h, k)
    <3>1. SUFFICES ASSUME NEW k \in 0 .. n + 1 PROVE h[k] = Next1(h, k)
      OBVIOUS
    <3>2. CASE k = n + 1
      BY <3>2
    <3>3. CASE k <= n
      <4>1. g[k] = Next1(g, k)
        BY <2>2, <3>3
      <4>2. Next1(h, k) = Next1(g, k)
        BY <3>3
      <4>3. QED
        BY <3>3, <4>1, <4>2
    <3>4. QED
      BY <3>2, <3>3
  <2>4. Loop(n + 1, h)
    BY <2>3
  <2>5. QED
    BY <2>4
<1>4. PICK g : Loop(L, g)
  <2>1. L \in S
    <3> HIDE DEF Exists
    <3>1. 0 \in S /\ \A n \in Nat : n \in S => n + 1 \in S
      BY <1>2, <1>3
    <3> HIDE DEF S
    <3>2. QED
      BY <1>1, <3>1, NatSetInduction
  <2>2. Exists(L)
    <3> HIDE DEF Exists
    <3>1. QED
      BY <2>1
  <2>3. L <= L
    BY <1>1
  <2> HIDE DEF Loop
  <2>4. QED
    BY <2>2, <2>3
<1>5. SendersUpTo(c) = CHOOSE f : Loop(L, f)
  BY DEF SendersUpTo
<1> HIDE DEF Loop
<1>6. Loop(L, SendersUpTo(c))
  BY <1>4, <1>5
<1>7. QED
  BY <1>6 DEF Loop

\* What the loop has made of the first n modes: the senders of each of them.
LEMMA SendersUpToHas ==
    ASSUME NEW c \in Config
    PROVE  \A n \in 0 .. Len(c.modes) :
              /\ SendersUpTo(c)[n] \in Seq(Kind)
              /\ \A k \in Kind : Has(SendersUpTo(c)[n], k) <=>
                    \E j \in 1 .. n : Has(ModeSenders(c, c.modes[j]), k)
<1> DEFINE L == Len(c.modes)
           U == SendersUpTo(c)
           M(j) == ModeSenders(c, c.modes[j])
           Made(n) == /\ U[n] \in Seq(Kind)
                      /\ \A k \in Kind : Has(U[n], k) <=> \E j \in 1 .. n : Has(M(j), k)
           S == {n \in Nat : n <= L => Made(n)}
<1>1. L \in Nat
  BY ConfigType
<1>2. U[0] = << >> /\ \A n \in 0 .. L : n # 0 => U[n] = U[n - 1] \o M(n)
  <2>1. U = [n \in 0 .. L |-> IF n = 0 THEN << >> ELSE U[n - 1] \o M(n)]
    BY SendersUpToDef
  <2> HIDE DEF U, M
  <2>2. QED
    BY <1>1, <2>1
<1>3. \A j \in 1 .. L : M(j) \in Seq(Kind)
  <2>1. SUFFICES ASSUME NEW j \in 1 .. L PROVE M(j) \in Seq(Kind)
    OBVIOUS
  <2>2. c.modes[j] \in Mode
    BY ConfigType
  <2>3. QED
    BY <2>2, ModeSendersType
<1> HIDE DEF U, M
<1>4. Made(0)
  BY <1>2 DEF Has
<1>5. ASSUME NEW n \in Nat, n + 1 <= L, Made(n) PROVE Made(n + 1)
  <2>1. U[n + 1] = U[n] \o M(n + 1) /\ M(n + 1) \in Seq(Kind)
    <3>1. n + 1 \in 0 .. L /\ n + 1 \in 1 .. L /\ n + 1 # 0 /\ (n + 1) - 1 = n
      BY <1>1, <1>5
    <3>2. U[n + 1] = U[(n + 1) - 1] \o M(n + 1)
      BY <1>2, <3>1
    <3>3. QED
      BY <1>3, <3>1, <3>2
  <2>2. /\ U[n + 1] \in Seq(Kind)
        /\ \A k \in Kind : Has(U[n + 1], k) <=> Has(U[n], k) \/ Has(M(n + 1), k)
    BY <1>5, <2>1, ConcatHas
  <2>3. ASSUME NEW k \in Kind
        PROVE  Has(U[n + 1], k) <=> \E j \in 1 .. n + 1 : Has(M(j), k)
    <3>1. (\E j \in 1 .. n + 1 : Has(M(j), k)) <=>
             (\E j \in 1 .. n : Has(M(j), k)) \/ Has(M(n + 1), k)
      <4>1. 1 .. n + 1 = (1 .. n) \cup {n + 1}
        OBVIOUS
      <4>2. QED
        BY <4>1
    <3>2. QED
      BY <1>5, <2>2, <3>1
  <2>4. QED
    BY <2>2, <2>3
<1>6. \A n \in Nat : n \in S
  <2> HIDE DEF Made
  <2>1. 0 \in S
    BY <1>4
  <2>2. \A n \in Nat : n \in S => n + 1 \in S
    BY <1>1, <1>5
  <2> HIDE DEF S
  <2>3. QED
    BY <2>1, <2>2, NatSetInduction
<1>7. \A n \in 0 .. L : Made(n)
  <2> HIDE DEF Made
  <2>1. QED
    BY <1>1, <1>6
<1>8. QED
  BY <1>7 DEF U, M

\* Whatever the configuration, there is a list of known senders.
LEMMA SendersType ==
    ASSUME NEW c \in Config
    PROVE  createAlertSender(c) \in Seq(Kind)
<1>1. SendersUpTo(c)[Len(c.modes)] \in Seq(Kind)
  BY ConfigType, SendersUpToHas
<1>2. <<"smtp">> \in Seq(Kind) /\ <<"log">> \in Seq(Kind)
  BY DEF Kind
<1>3. QED
  BY <1>1, <1>2 DEF createAlertSender

\* A configuration that Validate accepts has the senders of its modes and no others.
LEMMA SendersAsConfigured ==
    ASSUME NEW c \in Config, Validate(c)
    PROVE  \A k \in Kind : HasMode(c, k) <=> Has(createAlertSender(c), k)
<1> DEFINE L == Len(c.modes)
           list == SendersUpTo(c)[L]
<1>1. L \in Nat \ {0} /\ DOMAIN c.modes = 1 .. L /\ \A j \in 1 .. L : c.modes[j] \in Mode
  BY ConfigType
<1>2. /\ list \in Seq(Kind)
      /\ \A k \in Kind : Has(list, k) <=> \E j \in 1 .. L : Has(ModeSenders(c, c.modes[j]), k)
  BY <1>1, SendersUpToHas
<1> HIDE DEF list
<1>3. \A k \in Kind : Has(list, k) <=> HasMode(c, k)
  <2>1. SUFFICES ASSUME NEW k \in Kind PROVE Has(list, k) <=> HasMode(c, k)
    OBVIOUS
  <2>2. \A j \in 1 .. L : Has(ModeSenders(c, c.modes[j]), k) <=>
                             /\ c.modes[j] = k
                             /\ k = "discord" => c.webhooks > 0
                             /\ k = "smtp" => c.smtpHost
    BY <1>1, ModeSendersType
  <2>3. HasMode(c, k) => /\ k = "discord" => c.webhooks > 0
                         /\ k = "smtp" => c.smtpHost
    BY DEF Validate
  <2>4. HasMode(c, k) <=> \E j \in 1 .. L : c.modes[j] = k
    BY <1>1 DEF HasMode
  <2>5. QED
    BY <1>2, <2>2, <2>3, <2>4
<1>4. CASE c.modes = <<"smtp">>
  BY <1>4 DEF createAlertSender, HasMode, Has, Kind
<1>5. CASE c.modes # <<"smtp">>
  <2>1. c.modes[1] \in Kind
    <3>1. c.modes[1] \in Mode /\ c.modes[1] # "multi"
      BY <1>1 DEF Validate, HasMode
    <3>2. QED
      BY <3>1 DEF Mode, Kind
  <2>2. Has(list, c.modes[1])
    <3>1. HasMode(c, c.modes[1])
      BY <1>1 DEF HasMode
    <3>2. QED
      BY <1>3, <2>1, <3>1
  <2>3. list # << >>
    BY <2>2 DEF Has
  <2>4. createAlertSender(c) = list
    BY <1>5, <2>3 DEF createAlertSender, list
  <2>5. QED
    BY <1>3, <2>4
<1>6. QED
  BY <1>4, <1>5

-----------------------------------------------------------------------------
(***************************************************************************)
(* The inductive invariant.  EverySenderTried speaks of a Send that has    *)
(* returned; while MultiSender is in its loop, it holds of the senders     *)
(* before the current one.                                                 *)
(***************************************************************************)
RunsValidated == phase = "running" => Validate(config)

TriedSoFar ==
    \A a \in Alert : status[a] = "sending" =>
        \A i \in DOMAIN senders : i < at[a] => i \in posted[a] \cup errs[a]

OkHasNoError == \A a \in Alert : status[a] = "ok" => errs[a] = {}

Inv ==
    /\ TypeOK
    /\ RunsValidated
    /\ TriedSoFar
    /\ OkHasNoError
    /\ EverySenderTried

LEMMA SendersSeq ==
    ASSUME config \in Config
    PROVE  /\ senders \in Seq(Kind) /\ Len(senders) \in Nat
           /\ DOMAIN senders = 1 .. Len(senders)
<1>1. senders \in Seq(Kind)
  BY SendersType DEF senders
<1>2. QED
  BY <1>1

LEMMA InvInit == Init => Inv
<1> SUFFICES ASSUME Init PROVE Inv
  OBVIOUS
<1>1. Len(senders) \in Nat
  BY SendersSeq DEF Init
<1>2. TypeOK
  <2>1. 0 \in 0 .. Len(senders) + 1
    BY <1>1
  <2>2. at \in [Alert -> 0 .. Len(senders) + 1]
    BY <2>1 DEF Init
  <2>3. QED
    BY <2>2 DEF Init, TypeOK
<1>3. QED
  BY <1>2 DEF Init, Inv, RunsValidated, TriedSoFar, OkHasNoError, EverySenderTried

\* The configuration is read once, and so the senders never change.
LEMMA SendersKept ==
    ASSUME [Next]_vars
    PROVE  config' = config /\ senders' = senders
<1>1. config' = config
  BY DEF Next, vars, Boot, Restart, Crash, StartSend, Send, SendLog, SendOk, SendError,
         DiscordTimeout, SMTPPanic, SendReturns, Accept, Succeed, Fail
<1>2. QED
  BY <1>1 DEF senders

-----------------------------------------------------------------------------
(***************************************************************************)
(* The steps.                                                              *)
(***************************************************************************)
\* The Send of one sender ends with the alert delivered or an error kept.
LEMMA AdvanceStep ==
    ASSUME Inv, [Next]_vars, NEW a \in Alert, status[a] = "sending", at[a] \in DOMAIN senders,
           at' = [at EXCEPT ![a] = @ + 1], UNCHANGED <<phase, status>>,
           \/ posted' = [posted EXCEPT ![a] = @ \cup {at[a]}] /\ errs' = errs
           \/ posted' = posted /\ errs' = errs /\ at[a] \in posted[a]
           \/ posted' = posted /\ errs' = [errs EXCEPT ![a] = @ \cup {at[a]}]
    PROVE  Inv'
<1> USE DEF Inv
<1>1. config' = config /\ senders' = senders
  BY SendersKept
<1>2. Len(senders) \in Nat /\ DOMAIN senders = 1 .. Len(senders)
  BY SendersSeq DEF TypeOK
<1>3. at[a] + 1 \in 0 .. Len(senders) + 1
  BY <1>2
<1>4. TypeOK'
  <2>1. at' \in [Alert -> 0 .. Len(senders) + 1]
    BY <1>3 DEF TypeOK
  <2>2. posted' \in [Alert -> SUBSET DOMAIN senders] /\ errs' \in [Alert -> SUBSET DOMAIN senders]
    BY DEF TypeOK
  <2>3. QED
    BY <1>1, <2>1, <2>2 DEF TypeOK
<1>5. RunsValidated'
  BY <1>1 DEF RunsValidated, Validate, HasMode
<1>6. \A b \in Alert : posted[b] \subseteq posted'[b] /\ errs[b] \subseteq errs'[b]
  BY DEF TypeOK
<1>7. at[a] \in posted'[a] \cup errs'[a]
  BY DEF TypeOK
<1>8. TriedSoFar'
  <2>1. SUFFICES ASSUME NEW b \in Alert, status[b] = "sending",
                        NEW i \in DOMAIN senders, i < at'[b]
                 PROVE  i \in posted'[b] \cup errs'[b]
    BY <1>1 DEF TriedSoFar
  <2>2. CASE i < at[b]
    BY <1>6, <2>1, <2>2 DEF TriedSoFar
  <2>3. CASE ~(i < at[b])
    <3>1. b = a
      BY <2>1, <2>3 DEF TypeOK
    <3>2. i = at[a]
      BY <1>2, <2>1, <2>3, <3>1 DEF TypeOK
    <3>3. QED
      BY <1>7, <3>1, <3>2
  <2>4. QED
    BY <2>2, <2>3
<1>9. \A b \in Alert : b # a => errs'[b] = errs[b]
  BY DEF TypeOK
<1>10. OkHasNoError'
  BY <1>9 DEF OkHasNoError
<1>11. EverySenderTried'
  BY <1>1, <1>6 DEF EverySenderTried
<1>12. QED
  BY <1>4, <1>5, <1>8, <1>10, <1>11

\* The process dies: what was being sent is lost, what has returned stays.
LEMMA DieStep ==
    ASSUME Inv, [Next]_vars, Die, UNCHANGED <<at, posted, errs>>
    PROVE  Inv'
<1> USE DEF Inv
<1>1. config' = config /\ senders' = senders
  BY SendersKept
<1>2. TypeOK'
  <2>1. status' \in [Alert -> {"none", "sending", "ok", "error", "lost"}]
    BY DEF TypeOK, Die
  <2>2. QED
    BY <1>1, <2>1 DEF TypeOK, Die
<1>3. \A a \in Alert : /\ status'[a] # "sending"
                       /\ status'[a] \in {"ok", "error"} => status'[a] = status[a]
  BY DEF TypeOK, Die
<1>4. QED
  BY <1>1, <1>2, <1>3 DEF RunsValidated, TriedSoFar, OkHasNoError, EverySenderTried, Die

LEMMA StartSendStep ==
    ASSUME Inv, [Next]_vars, NEW a \in Alert, StartSend(a)
    PROVE  Inv'
<1> USE DEF Inv
<1>1. config' = config /\ senders' = senders
  BY SendersKept
<1>2. Len(senders) \in Nat /\ DOMAIN senders = 1 .. Len(senders)
  BY SendersSeq DEF TypeOK
<1>3. TypeOK'
  <2>1. 1 \in 0 .. Len(senders) + 1
    BY <1>2
  <2>2. at' \in [Alert -> 0 .. Len(senders) + 1]
    BY <2>1 DEF TypeOK, StartSend
  <2>3. QED
    BY <1>1, <2>2 DEF TypeOK, StartSend
<1>4. TriedSoFar'
  <2>1. SUFFICES ASSUME NEW b \in Alert, status'[b] = "sending",
                        NEW i \in DOMAIN senders, i < at'[b]
                 PROVE  i \in posted[b] \cup errs[b]
    BY <1>1 DEF TriedSoFar, StartSend
  <2>2. CASE b = a
    BY <1>2, <2>1, <2>2 DEF TypeOK, StartSend
  <2>3. CASE b # a
    BY <2>1, <2>3 DEF TypeOK, StartSend, TriedSoFar
  <2>4. QED
    BY <2>2, <2>3
<1>5. \A b \in Alert : status'[b] \in {"ok", "error"} => status'[b] = status[b]
  BY DEF TypeOK, StartSend
<1>6. OkHasNoError' /\ EverySenderTried'
  BY <1>1, <1>5 DEF OkHasNoError, EverySenderTried, StartSend
<1>7. RunsValidated'
  BY <1>1 DEF RunsValidated, Validate, HasMode, StartSend
<1>8. QED
  BY <1>3, <1>4, <1>6, <1>7

\* When the loop is over, every sender is before the current one.
LEMMA SendReturnsStep ==
    ASSUME Inv, [Next]_vars, NEW a \in Alert, SendReturns(a)
    PROVE  Inv'
<1> USE DEF Inv
<1>1. config' = config /\ senders' = senders
  BY SendersKept
<1>2. Len(senders) \in Nat /\ DOMAIN senders = 1 .. Len(senders)
  BY SendersSeq DEF TypeOK
<1>3. TypeOK'
  BY <1>1 DEF TypeOK, SendReturns
<1>4. \A b \in Alert : b # a => status'[b] = status[b]
  BY DEF TypeOK, SendReturns
<1>5. status'[a] = IF errs[a] = {} THEN "ok" ELSE "error"
  BY DEF TypeOK, SendReturns
<1>6. DOMAIN senders \subseteq posted[a] \cup errs[a]
  <2>1. SUFFICES ASSUME NEW i \in DOMAIN senders PROVE i \in posted[a] \cup errs[a]
    OBVIOUS
  <2>2. i < at[a]
    BY <1>2 DEF TypeOK, SendReturns
  <2>3. QED
    BY <2>2 DEF TriedSoFar, SendReturns
<1>7. TriedSoFar'
  BY <1>1, <1>4, <1>5 DEF TriedSoFar, SendReturns
<1>8. OkHasNoError'
  BY <1>4, <1>5 DEF OkHasNoError, SendReturns
<1>9. EverySenderTried'
  BY <1>1, <1>4, <1>6 DEF EverySenderTried, SendReturns
<1>10. RunsValidated'
  BY <1>1 DEF RunsValidated, Validate, HasMode, SendReturns
<1>11. QED
  BY <1>3, <1>7, <1>8, <1>9, <1>10

\* A late delivery only adds to the channels that have the alert.
LEMMA AcceptStep ==
    ASSUME Inv, [Next]_vars, NEW a \in Alert, NEW i \in DOMAIN senders, Accept(a, i)
    PROVE  Inv'
<1> USE DEF Inv
<1>1. config' = config /\ senders' = senders
  BY SendersKept
<1>2. TypeOK'
  BY <1>1 DEF TypeOK, Accept
<1>3. \A b \in Alert : posted[b] \subseteq posted'[b]
  BY DEF TypeOK, Accept
<1>4. TriedSoFar' /\ EverySenderTried'
  BY <1>1, <1>3 DEF TriedSoFar, EverySenderTried, Accept
<1>5. OkHasNoError'
  BY DEF OkHasNoError, Accept
<1>6. RunsValidated'
  BY <1>1 DEF RunsValidated, Validate, HasMode, Accept
<1>7. QED
  BY <1>2, <1>4, <1>5, <1>6

\* Starting up changes the phase alone, and validates the configuration.
LEMMA PhaseStep ==
    ASSUME Inv, [Next]_vars, UNCHANGED <<status, at, posted, errs>>,
           phase' \in {"down", "fatal", "running"},
           phase' = "running" => Validate(config)
    PROVE  Inv'
<1>1. config' = config /\ senders' = senders
  BY SendersKept
<1>2. TypeOK'
  BY <1>1 DEF Inv, TypeOK
<1>3. RunsValidated'
  BY <1>1 DEF RunsValidated, Validate, HasMode
<1>4. QED
  BY <1>1, <1>2, <1>3 DEF Inv, TriedSoFar, OkHasNoError, EverySenderTried

LEMMA InvNext == Inv /\ [Next]_vars => Inv'
<1> SUFFICES ASSUME Inv, [Next]_vars PROVE Inv'
  OBVIOUS
<1>1. CASE Boot
  BY <1>1, PhaseStep DEF Boot
<1>2. CASE Restart
  BY <1>2, PhaseStep DEF Restart
<1>3. CASE Crash
  BY <1>3, DieStep DEF Crash
<1>4. ASSUME NEW a \in Alert, StartSend(a) PROVE Inv'
  BY <1>4, StartSendStep
<1>5. ASSUME NEW a \in Alert, Send(a) PROVE Inv'
  <2>1. CASE SendLog(a)
    BY <2>1, AdvanceStep DEF SendLog, Calls, Succeed
  <2>2. CASE SendOk(a)
    BY <2>2, AdvanceStep DEF SendOk, Calls, Succeed
  <2>3. CASE SendError(a)
    BY <2>3, AdvanceStep DEF SendError, Calls, Fail
  <2>4. CASE DiscordTimeout(a)
    BY <2>4, AdvanceStep DEF DiscordTimeout, Calls, Fail
  <2>5. CASE SMTPPanic(a)
    BY <2>5, DieStep DEF SMTPPanic
  <2>6. CASE SendReturns(a)
    BY <2>6, SendReturnsStep
  <2>7. QED
    BY <1>5, <2>1, <2>2, <2>3, <2>4, <2>5, <2>6 DEF Send
<1>6. ASSUME NEW a \in Alert, NEW i \in DOMAIN senders, Accept(a, i) PROVE Inv'
  BY <1>6, AcceptStep
<1>7. CASE UNCHANGED vars
  BY <1>7, PhaseStep DEF vars, Inv, TypeOK, RunsValidated
<1>8. QED
  BY <1>1, <1>2, <1>3, <1>4, <1>5, <1>6, <1>7 DEF Next

LEMMA Invariant == Spec => []Inv
BY InvInit, InvNext, PTL DEF Spec

-----------------------------------------------------------------------------
(***************************************************************************)
(* The theorems.                                                           *)
(***************************************************************************)
\* Every variable keeps its type: MultiSender never calls past the end of its senders,
\* however many modes and webhooks there are.
THEOREM AlertingTypeCorrect == Spec => []TypeOK
BY Invariant, PTL DEF Inv

\* What Validate accepts, createAlertSender makes senders of: a service that runs has
\* those of every mode it was given and no others.
THEOREM ValidatedChannels == Spec => []ChannelsAsConfigured
<1>1. Inv => ChannelsAsConfigured
  <2>1. SUFFICES ASSUME Inv, phase = "running" PROVE ChannelsAsConfigured
    BY DEF ChannelsAsConfigured
  <2>2. config \in Config /\ Validate(config)
    BY <2>1 DEF Inv, TypeOK, RunsValidated
  <2>3. \A k \in Kind : HasMode(config, k) <=> Has(senders, k)
    BY <2>2, SendersAsConfigured DEF senders
  <2>4. HasMode(config, "smtp") => config.smtpHost
    BY <2>2 DEF Validate
  <2>5. QED
    BY <2>3, <2>4 DEF ChannelsAsConfigured, Kind, Has
<1>2. QED
  BY <1>1, Invariant, PTL

\* MultiSender.Send returns only when each of its senders has been tried, whatever the
\* others answered.
THEOREM SendersIsolated == Spec => []EverySenderTried
BY Invariant, PTL DEF Inv

\* A Send that returns nil has delivered the alert to every channel.
THEOREM NilMeansDelivered == Spec => []OkMeansDelivered
<1>1. Inv => OkMeansDelivered
  <2>1. SUFFICES ASSUME Inv, NEW a \in Alert, status[a] = "ok"
                 PROVE  posted[a] = DOMAIN senders
    BY DEF OkMeansDelivered
  <2>2. errs[a] = {} /\ DOMAIN senders \subseteq posted[a] \cup errs[a]
    BY <2>1 DEF Inv, OkHasNoError, EverySenderTried
  <2>3. posted[a] \subseteq DOMAIN senders
    BY <2>1 DEF Inv, TypeOK
  <2>4. QED
    BY <2>2, <2>3
<1>2. QED
  BY <1>1, Invariant, PTL

=============================================================================
