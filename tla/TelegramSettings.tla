--------------------------- MODULE TelegramSettings ---------------------------
(***************************************************************************)
(* The Telegram bot of the WDTT server.  The panel keeps its settings in   *)
(* passwords.json; the server is given them by its unit and by the file of *)
(* the token that the unit names.  configure_telegram stops the server,    *)
(* writes the three one after the other and puts none of them back when a  *)
(* later step fails: only the server is started again.  Of the stop it     *)
(* waits 45 seconds.  When that is not enough it gives up, and the server  *)
(* goes on, with the settings it has read, until it ends: it may write     *)
(* them to passwords.json, whoever has changed the file meanwhile.         *)
(***************************************************************************)
EXTENDS Integers

CONSTANTS
    Admins,         \* chat ids
    Tokens,         \* tokens of bots
    MaxConfigured   \* bound on the changes

ASSUME TelegramAssumption == MaxConfigured \in Nat /\ "no value" \notin Admins \cup Tokens

VARIABLES
    extended,       \* the server has the extension: it saves the two settings
    settings,       \* admin_id and bot_token in passwords.json
    tokenFile,      \* /etc/wdtt/bot.token, NoValue without the file
    unit,           \* -admin in wdtt.service, NoValue without
    unitLoaded,     \* the same in the unit as systemd knows it
    bot,            \* the server and what it has been given, NoBot when it is down
    configuring,    \* the operation of the helper, the last one when it is idle
    answered,       \* how the last one ended
    configured      \* how many there were

telegramVars == <<extended, settings, tokenFile, unit, unitLoaded, bot, configuring, answered,
                  configured>>

NoValue == "no value"
Off == [admin |-> NoValue, token |-> NoValue]
NoOneAsked == [step |-> "idle", wanted |-> Off, wasActive |-> FALSE, besideOld |-> FALSE]

NoBot == [admin |-> "down", token |-> "down", current |-> FALSE, memory |-> Off,
          leaving |-> FALSE]

\* "current": systemd knew the unit as it was.  "memory": what it has read in
\* passwords.json.  "leaving": a stop is under way, systemd says "deactivating".
StartedBot == [admin |-> unitLoaded, current |-> unitLoaded = unit,
               token |-> IF unitLoaded = NoValue THEN NoValue ELSE tokenFile,
               memory |-> settings, leaving |-> FALSE]

Settings == {Off} \cup [admin : Admins, token : Tokens]
Steps == {"idle", "stopping", "stopped", "saved", "token written", "unit written", "applied"}

Bots == [admin : Admins \cup {NoValue}, token : Tokens \cup {NoValue}, current : BOOLEAN,
         memory : Settings, leaving : BOOLEAN]

\* "besideOld": there was a server that was leaving when the operation began.
Operations == [step : Steps, wanted : Settings, wasActive : BOOLEAN, besideOld : BOOLEAN]

TelegramTypeOK ==
    /\ extended \in BOOLEAN
    /\ settings \in Settings
    /\ tokenFile \in Tokens \cup {NoValue}
    /\ unit \in Admins \cup {NoValue} /\ unitLoaded \in Admins \cup {NoValue}
    /\ bot \in {NoBot} \cup Bots
    /\ configuring \in Operations
    /\ answered \in {"ok", "error"}
    /\ configured \in 0..MaxConfigured

TelegramInit ==
    /\ extended \in BOOLEAN
    /\ settings = Off /\ tokenFile = NoValue /\ unit = NoValue /\ unitLoaded = NoValue
    /\ bot \in {NoBot, StartedBot}
    /\ configuring = NoOneAsked
    /\ answered = "ok"
    /\ configured = 0

NoneAsking == configuring.step = "idle"

-----------------------------------------------------------------------------
(* configure_telegram and set_wdtt_service_telegram, step by step.         *)

\* What is asked for; a token that is left out is the stored one.
Askable ==
    {Off} \cup {[admin |-> a, token |-> t] :
                   a \in Admins, t \in Tokens \cup ({settings.token} \ {NoValue})}

\* A request that is not valid changes nothing.  A server that is leaving is not
\* active any more: nobody waits for its end.
Configure ==
    /\ NoneAsking
    /\ configured < MaxConfigured
    /\ \E wanted \in Askable :
          configuring' = [step |-> IF bot = NoBot \/ bot.leaving THEN "stopped" ELSE "stopping",
                          wanted |-> wanted, wasActive |-> bot # NoBot /\ ~bot.leaving,
                          besideOld |-> bot.leaving]
    /\ configured' = configured + 1
    /\ UNCHANGED <<extended, settings, tokenFile, unit, unitLoaded, bot, answered>>

StopServer ==
    /\ configuring.step = "stopping"
    /\ bot' = NoBot
    /\ configuring' = [configuring EXCEPT !.step = "stopped"]
    /\ UNCHANGED <<extended, settings, tokenFile, unit, unitLoaded, answered, configured>>

\* systemctl fails, or the helper waits no longer, or is killed: the stop is
\* before the try, so that nobody starts the server again.
StopFails ==
    /\ configuring.step = "stopping"
    /\ bot' \in {bot} \cup (IF bot = NoBot THEN {} ELSE {[bot EXCEPT !.leaving = TRUE]})
    /\ configuring' = [configuring EXCEPT !.step = "idle"]
    /\ answered' = "error"
    /\ UNCHANGED <<extended, settings, tokenFile, unit, unitLoaded, configured>>

SaveSettings ==
    /\ configuring.step = "stopped"
    /\ settings' = configuring.wanted
    /\ configuring' = [configuring EXCEPT !.step = "saved"]
    /\ UNCHANGED <<extended, tokenFile, unit, unitLoaded, bot, answered, configured>>

\* Mutant of WriteToken: a file that is there is left alone.
WriteTokenOnce ==
    /\ configuring.step = "saved"
    /\ tokenFile' = IF tokenFile = NoValue THEN configuring.wanted.token ELSE tokenFile
    /\ configuring' = [configuring EXCEPT !.step = "token written"]
    /\ UNCHANGED <<extended, settings, unit, unitLoaded, bot, answered, configured>>

\* The file is written, or removed.
WriteToken ==
    /\ configuring.step = "saved"
    /\ tokenFile' = configuring.wanted.token
    /\ configuring' = [configuring EXCEPT !.step = "token written"]
    /\ UNCHANGED <<extended, settings, unit, unitLoaded, bot, answered, configured>>

\* The unit is written, and systemd told, only if the line changes.
WriteUnit ==
    /\ configuring.step = "token written"
    /\ unit' = configuring.wanted.admin
    /\ configuring' = [configuring EXCEPT !.step = IF unit' = unit THEN "applied" ELSE "unit written"]
    /\ UNCHANGED <<extended, settings, tokenFile, unitLoaded, bot, answered, configured>>

ReloadUnit ==
    /\ configuring.step = "unit written"
    /\ unitLoaded' = unit
    /\ configuring' = [configuring EXCEPT !.step = "applied"]
    /\ UNCHANGED <<extended, settings, tokenFile, unit, bot, answered, configured>>

\* The server is started if it was active; that may fail too.
End(answer) ==
    /\ configuring' = [configuring EXCEPT !.step = "idle"]
    /\ answered' = answer
    /\ UNCHANGED <<extended, settings, tokenFile, unit, unitLoaded, configured>>

AnswerOk ==
    /\ configuring.step = "applied"
    /\ bot' = IF configuring.wasActive THEN StartedBot ELSE bot
    /\ End("ok")

AnswerError ==
    /\ configuring.step \notin {"idle", "stopping"}
    /\ bot' \in {bot} \cup (IF configuring.wasActive THEN {StartedBot} ELSE {})
    /\ End("error")

-----------------------------------------------------------------------------
(* The server, and what else stops and starts it.                          *)

\* The server saves its database when it likes.  Without the extension it has no
\* fields for the settings, and drops them.
SaveByServer ==
    /\ bot # NoBot
    /\ settings' = IF extended THEN bot.memory ELSE Off
    /\ UNCHANGED <<extended, tokenFile, unit, unitLoaded, bot, configuring, answered, configured>>

ServerEnds ==
    /\ bot # NoBot
    /\ bot' = NoBot
    /\ UNCHANGED <<extended, settings, tokenFile, unit, unitLoaded, configuring, answered,
                   configured>>

\* Another operation, or the administrator, stops the server, which takes its time.
StopElsewhere ==
    /\ NoneAsking
    /\ bot # NoBot
    /\ bot' = [bot EXCEPT !.leaving = TRUE]
    /\ UNCHANGED <<extended, settings, tokenFile, unit, unitLoaded, configuring, answered,
                   configured>>

\* Another operation, or the administrator, starts or restarts the server.  While
\* one is leaving that waits for its end, perhaps into an operation.
StartElsewhere ==
    /\ NoneAsking \/ configuring.besideOld
    /\ ~bot.leaving
    /\ bot' = StartedBot
    /\ UNCHANGED <<extended, settings, tokenFile, unit, unitLoaded, configuring, answered,
                   configured>>

\* Any other operation that tells systemd to read its units.
ReloadElsewhere ==
    /\ unitLoaded' = unit
    /\ UNCHANGED <<extended, settings, tokenFile, unit, bot, configuring, answered, configured>>

TelegramNext ==
    \/ Configure \/ StopServer \/ StopFails
    \/ SaveSettings \/ WriteToken \/ WriteUnit \/ ReloadUnit
    \/ AnswerOk \/ AnswerError
    \/ SaveByServer \/ ServerEnds \/ StopElsewhere \/ StartElsewhere \/ ReloadElsewhere

TelegramSpec == TelegramInit /\ [][TelegramNext]_telegramVars

-----------------------------------------------------------------------------
(* Properties.                                                             *)

\* After an answer "ok" the token's file and the unit are as was asked, and so are
\* the settings the panel shows, if the server has the fields for them; whatever
\* the server saves since, and whatever earlier operations failed or broke off.  A
\* running server has them too, if systemd knew the unit when it started it.  (It
\* does not when the reload of an earlier operation failed: the line no longer
\* changes, so that nobody reloads.)  Nothing is said of an operation that began
\* while a server was still leaving, after a stop that took too long: it answers
\* "ok", and that server, or one started before the end, may put the old settings
\* back.  The first operation that meets none of them makes that good.
TelegramApplied ==
    NoneAsking /\ answered = "ok" /\ ~configuring.besideOld =>
        LET wanted == configuring.wanted
        IN  /\ unit = wanted.admin /\ tokenFile = wanted.token
            /\ extended => settings = wanted
            /\ bot # NoBot /\ bot.current => bot.admin = wanted.admin /\ bot.token = wanted.token
=============================================================================
