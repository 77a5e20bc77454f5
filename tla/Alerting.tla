----------------------------- MODULE Alerting -----------------------------
(***************************************************************************)
(* The alert channels: what config.Validate lets through, the senders that *)
(* createAlertSender of cmd/insiderwatch/main.go makes of it, and          *)
(* MultiSender.Send of internal/alerts, run by the goroutines of the pass  *)
(* for one alert each.                                                     *)
(*                                                                         *)
(* A channel may take an alert and its answer still be lost, and a request *)
(* that was given up may arrive late.                                      *)
(***************************************************************************)
EXTENDS Integers, Sequences

CONSTANTS
    Alert,        \* the alerts, stored before they are sent and sent once
    MaxModes,     \* bound on the values of ALERT_MODE
    MaxWebhooks   \* bound on DISCORD_WEBHOOK_URLS

ASSUME AlertingAssumption == MaxModes \in Nat \ {0} /\ MaxWebhooks \in Nat

\* What Load reads of the environment: the comma-separated values of ALERT_MODE, of
\* which multi stands for any that is not known, and which other settings are there.
Mode == {"log", "discord", "smtp", "multi"}
Config == [modes : UNION {[1 .. n -> Mode] : n \in 1 .. MaxModes},
           webhooks : 0 .. MaxWebhooks,  \* number of DISCORD_WEBHOOK_URLS
           smtpHost : BOOLEAN,           \* is SMTP_HOST set?
           smtpTo : BOOLEAN,             \* is there an address in SMTP_TO?
           auth : BOOLEAN]               \* does DATA_API_AUTH_MODE have its credential?

VARIABLES
    config, phase,
    status,    \* what Send has come to for each alert
    at,        \* the sender that MultiSender is calling, by its index
    posted,    \* the senders whose channel has the alert
    errs       \* the senders that returned an error

vars == <<config, phase, status, at, posted, errs>>

-----------------------------------------------------------------------------
(***************************************************************************)
(* Validate and createAlertSender.                                         *)
(***************************************************************************)
HasMode(c, m) == \E i \in DOMAIN c.modes : c.modes[i] = m

\* The mutant forgets that discord needs a webhook.
ValidateNoWebhook(c) ==
    /\ c.auth
    /\ ~HasMode(c, "multi")
    /\ HasMode(c, "smtp") => c.smtpHost
Validate(c) ==
    /\ c.auth
    /\ ~HasMode(c, "multi")
    /\ HasMode(c, "discord") => c.webhooks > 0
    /\ HasMode(c, "smtp") => c.smtpHost

\* The senders of one of several modes.
ModeSenders(c, m) ==
    CASE m = "log"     -> <<"log">>
      [] m = "discord" -> [i \in 1 .. c.webhooks |-> "discord"]
      [] m = "smtp"    -> IF c.smtpHost THEN <<"smtp">> ELSE << >>
      [] OTHER         -> << >>

\* The senders of the first n modes, in the order in which they are called.
SendersUpTo(c) ==
    LET upTo[n \in 0 .. Len(c.modes)] ==
            IF n = 0 THEN << >> ELSE upTo[n - 1] \o ModeSenders(c, c.modes[n])
    IN  upTo

\* A single smtp mode is taken without a look at the host; where no sender is left, the
\* log is used.
createAlertSender(c) ==
    LET list == IF c.modes = <<"smtp">> THEN <<"smtp">> ELSE SendersUpTo(c)[Len(c.modes)]
    IN  IF list = << >> THEN <<"log">> ELSE list

senders == createAlertSender(config)

-----------------------------------------------------------------------------
Init ==
    /\ config \in Config
    /\ phase = "down"
    /\ status = [a \in Alert |-> "none"]
    /\ at = [a \in Alert |-> 0]
    /\ posted = [a \in Alert |-> {}]
    /\ errs = [a \in Alert |-> {}]

\* main loads the configuration and opens the database; an error of either is fatal.
Boot ==
    /\ phase = "down"
    /\ \/ Validate(config) /\ phase' = "running"
       \/ phase' = "fatal"
    /\ UNCHANGED <<config, status, at, posted, errs>>

\* The container is restarted.
Restart ==
    /\ phase = "fatal"
    /\ phase' = "down"
    /\ UNCHANGED <<config, status, at, posted, errs>>

\* The process dies, and nobody sends again what was being sent.
Die ==
    /\ phase' = "down"
    /\ status' = [a \in Alert |-> IF status[a] = "sending" THEN "lost" ELSE status[a]]

Crash ==
    /\ phase = "running"
    /\ Die
    /\ UNCHANGED <<config, at, posted, errs>>

-----------------------------------------------------------------------------
(***************************************************************************)
(* Send.                                                                   *)
(***************************************************************************)
\* sendAlert calls Send for an alert it has stored.
StartSend(a) ==
    /\ phase = "running" /\ status[a] = "none"
    /\ status' = [status EXCEPT ![a] = "sending"]
    /\ at' = [at EXCEPT ![a] = 1]
    /\ UNCHANGED <<config, phase, posted, errs>>

\* MultiSender is in the Send of a sender of kind k.
Calls(a, k) ==
    /\ phase = "running" /\ status[a] = "sending"
    /\ at[a] \in DOMAIN senders /\ senders[at[a]] = k

\* The Send of the current sender ends, and MultiSender goes on with the next one.
Succeed(a) ==
    /\ at' = [at EXCEPT ![a] = @ + 1]
    /\ UNCHANGED <<config, phase, status, errs>>

\* It goes on after an error too.  The mutants skip the next sender, stop there, and
\* forget the error.
FailSkips(a) ==
    /\ at' = [at EXCEPT ![a] = @ + 2]
    /\ errs' = [errs EXCEPT ![a] = @ \cup {at[a]}]
    /\ UNCHANGED <<config, phase, status, posted>>
FailStops(a) ==
    /\ at' = [at EXCEPT ![a] = Len(senders) + 1]
    /\ errs' = [errs EXCEPT ![a] = @ \cup {at[a]}]
    /\ UNCHANGED <<config, phase, status, posted>>
FailForgets(a) ==
    /\ at' = [at EXCEPT ![a] = @ + 1]
    /\ UNCHANGED <<config, phase, status, posted, errs>>
Fail(a) ==
    /\ at' = [at EXCEPT ![a] = @ + 1]
    /\ errs' = [errs EXCEPT ![a] = @ \cup {at[a]}]
    /\ UNCHANGED <<config, phase, status, posted>>

\* LogSender writes the log and returns.
SendLog(a) ==
    /\ Calls(a, "log")
    /\ posted' = [posted EXCEPT ![a] = @ \cup {at[a]}]
    /\ Succeed(a)

\* A channel takes an alert: the one it is being sent or, late, one given up since.
Accept(a, i) ==
    /\ i \in DOMAIN senders /\ senders[i] # "log"
    /\ i <= at[a] /\ i \notin posted[a]
    /\ senders[i] = "smtp" => config.smtpTo
    /\ posted' = [posted EXCEPT ![a] = @ \cup {i}]
    /\ UNCHANGED <<config, phase, status, at, errs>>

\* Discord, or the mail server, says that it has the alert.
SendOk(a) ==
    /\ Calls(a, "discord") \/ Calls(a, "smtp")
    /\ at[a] \in posted[a]
    /\ Succeed(a)
    /\ UNCHANGED posted

\* It answers with an error, or the connection breaks, before or after it took the alert.
SendError(a) ==
    /\ Calls(a, "discord") \/ (Calls(a, "smtp") /\ config.smtpTo)
    /\ Fail(a)

\* The http.Client of DiscordSender gives up after ten seconds.  The mutant never does.
DiscordTimeoutNever(a) == Calls(a, "discord") /\ FALSE /\ Fail(a)
DiscordTimeout(a) == Calls(a, "discord") /\ Fail(a)

\* SMTPSender puts its first recipient into the header: without one it panics.
SMTPPanic(a) ==
    /\ Calls(a, "smtp") /\ ~config.smtpTo
    /\ Die
    /\ UNCHANGED <<config, at, posted, errs>>

\* Send returns nil, or the errors of all the senders.
SendReturns(a) ==
    /\ phase = "running" /\ status[a] = "sending" /\ at[a] > Len(senders)
    /\ status' = [status EXCEPT ![a] = IF errs[a] = {} THEN "ok" ELSE "error"]
    /\ UNCHANGED <<config, phase, at, posted, errs>>

Send(a) ==
    \/ SendLog(a) \/ SendOk(a) \/ SendError(a) \/ DiscordTimeout(a)
    \/ SMTPPanic(a) \/ SendReturns(a)

Next ==
    \/ Boot \/ Restart \/ Crash
    \/ \E a \in Alert : StartSend(a) \/ Send(a)
    \/ \E a \in Alert : \E i \in DOMAIN senders : Accept(a, i)

Spec == Init /\ [][Next]_vars

\* A goroutine runs on, and the ten seconds pass.  Nothing is assumed of Discord and of the
\* mail server, and smtp.SendMail has no timeout.
Fairness ==
    \A a \in Alert :
        WF_vars(SendLog(a) \/ DiscordTimeout(a) \/ SMTPPanic(a) \/ SendReturns(a))

FairSpec == Spec /\ Fairness

-----------------------------------------------------------------------------
(***************************************************************************)
(* Properties.                                                             *)
(***************************************************************************)
\* Every variable keeps its type through every answer, error, crash and panic.
TypeOK ==
    /\ config \in Config
    /\ phase \in {"down", "fatal", "running"}
    /\ status \in [Alert -> {"none", "sending", "ok", "error", "lost"}]
    /\ at \in [Alert -> 0 .. Len(senders) + 1]
    /\ posted \in [Alert -> SUBSET DOMAIN senders]
    /\ errs \in [Alert -> SUBSET DOMAIN senders]

\* Validate and createAlertSender agree: a service that runs has the senders of all the
\* modes it was given and no others, so its alerts do not end in the log unnoticed.
ChannelsAsConfigured ==
    phase = "running" =>
        /\ \A k \in {"log", "discord", "smtp"} :
             HasMode(config, k) <=> \E i \in DOMAIN senders : senders[i] = k
        /\ HasMode(config, "smtp") => config.smtpHost

\* MultiSender isolates its senders: when Send has returned, each of them has delivered
\* the alert or failed itself; none was left out for the failure of another.
EverySenderTried ==
    \A a \in Alert : status[a] \in {"ok", "error"} =>
        DOMAIN senders \subseteq posted[a] \cup errs[a]

\* Send returns nil only if every channel has the alert.
OkMeansDelivered ==
    \A a \in Alert : status[a] = "ok" => posted[a] = DOMAIN senders

\* Send always returns, unless the mail server keeps it waiting: Discord cannot.
SendEnds ==
    \A a \in Alert : status[a] = "sending" ~> status[a] # "sending" \/ Calls(a, "smtp")
=============================================================================
