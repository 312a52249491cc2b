--------------------------- MODULE PanelPartsProofs ---------------------------
(***************************************************************************)
(* The settings of the bot and the renewal of certificates, and then the   *)
(* parts of the panel side by side: while one moves and the others rest,   *)
(* each keeps what is proved of it alone.                                  *)
(***************************************************************************)
EXTENDS PanelParts, WebProcessProofs, ExtensionUpgradeProofs, TLAPS

-----------------------------------------------------------------------------
(* Telegram settings: the three places agree after an operation that       *)
(* succeeds and met no server that was leaving, for every set of chats and *)
(* tokens, any number of failures and whatever the server saves.           *)

Writing == {"stopped", "saved", "token written", "unit written", "applied"}

AsAsked ==
    /\ unit = configuring.wanted.admin /\ tokenFile = configuring.wanted.token
    /\ extended => settings = configuring.wanted

\* The server can save nothing else, and its bot is the one asked for.
BotAsAsked ==
    bot # NoBot =>
        /\ extended => bot.memory = configuring.wanted
        /\ bot.current => bot.admin = configuring.wanted.admin /\ bot.token = configuring.wanted.token

\* Each step of an operation leaves the places it has written as they are wanted:
\* passwords.json only because no server runs that could write it, which is so
\* unless one was leaving.  After the answer "ok" all places are as wanted.
TelegramInv ==
    /\ TelegramTypeOK
    /\ ~configuring.besideOld /\ configuring.step \in Writing => bot = NoBot
    /\ ~configuring.besideOld /\ configuring.step \in Writing \ {"stopped"} =>
          settings = configuring.wanted
    /\ configuring.step \in {"token written", "unit written", "applied"} =>
          tokenFile = configuring.wanted.token
    /\ configuring.step \in {"unit written", "applied"} => unit = configuring.wanted.admin
    /\ NoneAsking /\ answered = "ok" /\ ~configuring.besideOld => AsAsked /\ BotAsAsked

\* No token is without an admin, and the other way round.
LEMMA SettingsTogether ==
  ASSUME NEW s \in Settings
  PROVE  /\ s.admin \in Admins \cup {NoValue} /\ s.token \in Tokens \cup {NoValue}
         /\ s.admin = NoValue <=> s.token = NoValue
<1>1. CASE s = Off
  BY <1>1 DEF Off
<1>2. CASE s \in [admin : Admins, token : Tokens]
  <2>1. NoValue \notin Admins /\ NoValue \notin Tokens
    BY TelegramAssumption DEF NoValue
  <2> QED
    BY <1>2, <2>1
<1> QED
  BY <1>1, <1>2 DEF Settings

\* A token that is left out is the stored one.
LEMMA AskableSettings == ASSUME settings \in Settings PROVE Askable \subseteq Settings
BY SettingsTogether DEF Askable, Settings

\* What the server is given when it starts.
LEMMA StartedBotFits ==
  ASSUME TelegramTypeOK, NEW started, started = StartedBot
  PROVE  /\ started \in Bots
         /\ AsAsked /\ extended => started.memory = configuring.wanted
         /\ AsAsked /\ started.current =>
               started.admin = configuring.wanted.admin /\ started.token = configuring.wanted.token
<1>1. started \in Bots
  BY DEF TelegramTypeOK, StartedBot, Bots
<1>2. configuring.wanted \in Settings
  BY DEF TelegramTypeOK, Operations
<1>3. configuring.wanted.admin = NoValue <=> configuring.wanted.token = NoValue
  BY <1>2, SettingsTogether
<1> QED
  BY <1>1, <1>3 DEF StartedBot, AsAsked

\* The bound by itself, which is all that arithmetic needs.
LEMMA BoundIsNatural == MaxConfigured \in Nat
BY TelegramAssumption, Zenon

\* The invariant holds in every reachable state.
THEOREM SettingsAgree == TelegramSpec => []TelegramInv
<1>1. TelegramInit => TelegramInv
  <2> SUFFICES ASSUME TelegramInit PROVE TelegramInv
    OBVIOUS
  <2>1. /\ settings = Off /\ settings \in Settings /\ answered \in {"ok", "error"}
        /\ tokenFile = NoValue /\ unit = NoValue /\ unitLoaded = NoValue
    BY DEF TelegramInit, Settings
  <2>2. configured \in 0..MaxConfigured
    BY BoundIsNatural DEF TelegramInit
  <2>3. /\ configuring = NoOneAsked /\ NoOneAsked \in Operations /\ NoOneAsked.step = "idle"
        /\ configuring.wanted = Off
    BY DEF TelegramInit, NoOneAsked, Operations, Steps, Settings
  <2>4. StartedBot = [admin |-> NoValue, token |-> NoValue, current |-> TRUE, memory |-> Off,
                      leaving |-> FALSE]
    BY <2>1 DEF StartedBot
  <2>5. bot \in {NoBot} \cup Bots
    <3>1. StartedBot \in Bots
      BY <2>4 DEF Bots, Settings
    <3> QED
      BY <3>1 DEF TelegramInit
  <2>6. TelegramTypeOK
    BY <2>1, <2>2, <2>3, <2>5 DEF TelegramTypeOK, TelegramInit
  <2>7. AsAsked
    BY <2>1, <2>3 DEF AsAsked, Off
  <2>8. BotAsAsked
    BY <2>3, <2>4 DEF TelegramInit, BotAsAsked, Off
  <2> QED
    BY <2>3, <2>6, <2>7, <2>8 DEF TelegramInv, Writing
<1>2. TelegramInv /\ [TelegramNext]_telegramVars => TelegramInv'
  <2> SUFFICES ASSUME TelegramInv, [TelegramNext]_telegramVars
               PROVE  TelegramInv'
    OBVIOUS
  <2> USE DEF TelegramInv, NoneAsking, Writing
  <2>1. CASE Configure
    <3>1. PICK wanted \in Settings :
             configuring' = [step |-> IF bot = NoBot \/ bot.leaving THEN "stopped" ELSE "stopping",
                             wanted |-> wanted, wasActive |-> bot # NoBot /\ ~bot.leaving,
                             besideOld |-> bot.leaving]
      BY <2>1, AskableSettings DEF Configure, TelegramTypeOK
    <3>2. configured' \in 0..MaxConfigured
      <4>1. configured \in 0..MaxConfigured /\ configured < MaxConfigured
        BY <2>1 DEF Configure, TelegramTypeOK
      <4>2. configured' = configured + 1
        BY <2>1 DEF Configure
      <4> HIDE DEF TelegramInv
      <4> QED
        BY <4>1, <4>2, BoundIsNatural
    <3>3. bot.leaving \in BOOLEAN
      <4>1. NoBot.leaving \in BOOLEAN
        BY DEF NoBot
      <4>2. \A b \in Bots : b.leaving \in BOOLEAN
        BY DEF Bots
      <4>3. bot \in {NoBot} \cup Bots
        BY DEF TelegramTypeOK
      <4> QED
        BY <4>1, <4>2, <4>3
    <3>4. configuring' \in Operations
      BY <3>1, <3>3 DEF Operations, Steps
    <3>5. configuring'.step \in {"stopped", "stopping"} /\ bot' = bot
      BY <2>1, <3>1 DEF Configure
    <3>6. ~configuring'.besideOld /\ configuring'.step \in Writing => bot' = NoBot
      BY <3>1, <3>5
    <3>7. TelegramTypeOK'
      BY <2>1, <3>2, <3>4 DEF Configure, TelegramTypeOK
    <3> QED
      BY <3>5, <3>6, <3>7
  <2>2. CASE StopServer
    BY <2>2 DEF StopServer, TelegramTypeOK, Operations, Steps
  <2>3. CASE StopFails
    <3>1. bot' \in {NoBot} \cup Bots
      BY <2>3 DEF StopFails, TelegramTypeOK, Bots
    <3> QED
      BY <2>3, <3>1 DEF StopFails, TelegramTypeOK, Operations, Steps
  <2>4. CASE SaveSettings
    BY <2>4 DEF SaveSettings, TelegramTypeOK, Operations, Steps
  <2>5. CASE WriteToken
    BY <2>5, SettingsTogether DEF WriteToken, TelegramTypeOK, Operations, Steps
  <2>6. CASE WriteUnit
    BY <2>6, SettingsTogether DEF WriteUnit, TelegramTypeOK, Operations, Steps
  <2>7. CASE ReloadUnit
    BY <2>7 DEF ReloadUnit, TelegramTypeOK, Operations, Steps
  <2>8. CASE AnswerOk
    <3>1. /\ configuring' = [configuring EXCEPT !.step = "idle"] /\ configuring' \in Operations
          /\ configuring.step = "applied" /\ configuring'.step = "idle"
          /\ configuring'.wanted = configuring.wanted
          /\ configuring'.besideOld = configuring.besideOld
          /\ bot' = IF configuring.wasActive THEN StartedBot ELSE bot
          /\ UNCHANGED <<extended, settings, tokenFile, unit, unitLoaded, configured>>
      BY <2>8 DEF AnswerOk, End, TelegramTypeOK, Operations, Steps
    <3>2. TelegramTypeOK'
      BY <2>8, <3>1, StartedBotFits DEF End, AnswerOk, TelegramTypeOK
    <3>3. ASSUME ~configuring.besideOld PROVE AsAsked /\ bot = NoBot
      BY <3>1, <3>3 DEF AsAsked
    <3>4. ASSUME ~configuring.besideOld PROVE AsAsked' /\ BotAsAsked'
      BY <3>1, <3>3, <3>4, StartedBotFits DEF AsAsked, BotAsAsked
    <3> QED
      BY <3>1, <3>2, <3>4
  <2>9. CASE AnswerError
    BY <2>9, StartedBotFits DEF AnswerError, End, TelegramTypeOK, Operations, Steps
  <2>10. CASE SaveByServer
    <3>1. /\ bot # NoBot /\ settings' = IF extended THEN bot.memory ELSE Off
          /\ UNCHANGED <<extended, tokenFile, unit, unitLoaded, bot, configuring, answered,
                         configured>>
      BY <2>10 DEF SaveByServer
    <3>2. settings' \in Settings
      <4>1. \A b \in Bots : b.memory \in Settings
        BY DEF Bots
      <4>2. bot \in Bots
        BY <3>1 DEF TelegramTypeOK
      <4> QED
        BY <3>1, <4>1, <4>2 DEF Settings
    <3>3. TelegramTypeOK'
      BY <3>1, <3>2 DEF TelegramTypeOK
    <3>4. ASSUME AsAsked, BotAsAsked PROVE AsAsked' /\ BotAsAsked'
      BY <3>1, <3>4 DEF AsAsked, BotAsAsked
    <3> QED
      BY <3>1, <3>3, <3>4
  <2>11. CASE ServerEnds
    BY <2>11 DEF ServerEnds, TelegramTypeOK, AsAsked, BotAsAsked
  <2>12. CASE StopElsewhere
    BY <2>12 DEF StopElsewhere, TelegramTypeOK, Bots, AsAsked, BotAsAsked
  <2>13. CASE StartElsewhere
    BY <2>13, StartedBotFits DEF StartElsewhere, TelegramTypeOK, AsAsked, BotAsAsked
  <2>14. CASE ReloadElsewhere
    BY <2>14 DEF ReloadElsewhere, TelegramTypeOK, AsAsked, BotAsAsked
  <2>15. CASE UNCHANGED telegramVars
    BY <2>15 DEF telegramVars, TelegramTypeOK, AsAsked, BotAsAsked
  <2> QED
    BY <2>1, <2>2, <2>3, <2>4, <2>5, <2>6, <2>7, <2>8, <2>9, <2>10, <2>11, <2>12, <2>13, <2>14,
       <2>15 DEF TelegramNext
<1> QED
  BY <1>1, <1>2, PTL DEF TelegramSpec

\* configure_telegram: after "ok" the token's file and the unit, and the database of
\* a server that knows the fields, are as was asked, whatever the server saves, and
\* so is a server that was started while systemd knew the unit; unless a server was
\* still leaving when the operation began.
THEOREM AlwaysApplied == TelegramSpec => []TelegramApplied
<1>1. TelegramInv => TelegramApplied
  BY DEF TelegramInv, TelegramApplied, AsAsked, BotAsAsked
<1> QED
  BY <1>1, SettingsAgree, PTL

-----------------------------------------------------------------------------
(* Certificates: Nginx comes back, for every number of renewals that       *)
(* overlap.                                                                *)

\* r has stopped Nginx, or found it up and then met a stopped one: it starts it.
WillStart(r) ==
    renewal[r].wasActive /\ renewal[r].step \in {"certbot", "certified", "failed"}

\* While Nginx is down somebody is under way who will start it.  Who is about to
\* stop it has seen it up.
CertificatesInv ==
    /\ CertificatesTypeOK
    /\ \A r \in Renewals : renewal[r].step = "stop" => renewal[r].wasActive
    /\ nginx = "down" /\ ~troubled => \E r \in Renewals : WillStart(r)

States == [step : {"resting", "stop", "certbot", "certified", "failed"}, wasActive : BOOLEAN]

\* One renewal goes on, the others stay where they are.
LEMMA RenewalMoves ==
  ASSUME renewal \in [Renewals -> States], NEW r \in Renewals, NEW state \in States,
         renewal' = [renewal EXCEPT ![r] = state]
  PROVE  /\ renewal' \in [Renewals -> States]
         /\ renewal'[r] = state
         /\ \A q \in Renewals \ {r} : renewal'[q] = renewal[q]
OBVIOUS

\* The next step, with what was seen of Nginx kept.
LEMMA StepMoves ==
  ASSUME renewal \in [Renewals -> States], NEW r \in Renewals,
         NEW step \in {"certbot", "certified", "failed"},
         renewal' = [renewal EXCEPT ![r].step = step]
  PROVE  /\ renewal' \in [Renewals -> States]
         /\ renewal'[r].step = step /\ renewal'[r].wasActive = renewal[r].wasActive
         /\ \A q \in Renewals \ {r} : renewal'[q] = renewal[q]
<1>1. PICK state : state = [renewal[r] EXCEPT !.step = step]
  OBVIOUS
<1>2. state \in States /\ state.step = step /\ state.wasActive = renewal[r].wasActive
  BY <1>1 DEF States
<1>3. renewal' = [renewal EXCEPT ![r] = state]
  BY <1>1
<1> QED
  BY <1>2, <1>3, RenewalMoves

\* The invariant holds in every reachable state.
THEOREM NginxTended == CertificatesSpec => []CertificatesInv
<1>1. CertificatesInit => CertificatesInv
  <2>1. Resting \in States /\ Resting.step = "resting"
    BY DEF States, Resting
  <2> QED
    BY <2>1 DEF CertificatesInit, CertificatesInv, CertificatesTypeOK, States
<1>2. CertificatesInv /\ [CertificatesNext]_certificatesVars => CertificatesInv'
  <2> SUFFICES ASSUME CertificatesInv, [CertificatesNext]_certificatesVars
               PROVE  CertificatesInv'
    OBVIOUS
  <2> USE DEF CertificatesInv, CertificatesTypeOK, WillStart
  <2>0. renewal \in [Renewals -> States] /\ Resting \in States /\ Resting.step = "resting"
    BY DEF States, Resting
  <2>1. ASSUME NEW r \in Renewals, LookAtNginx(r) PROVE CertificatesInv'
    <3>1. PICK state : state = [step |-> IF nginx = "up" THEN "stop" ELSE "certbot",
                                wasActive |-> nginx = "up"]
      OBVIOUS
    <3>2. /\ state \in States
          /\ state.step \in {"stop", "certbot"}
          /\ state.step = "stop" => state.wasActive
      BY <3>1 DEF States
    <3>3. renewal' = [renewal EXCEPT ![r] = state]
      BY <2>1, <3>1 DEF LookAtNginx
    <3>4. renewal[r].step = "resting" /\ UNCHANGED <<nginx, troubled>>
      BY <2>0, <2>1 DEF LookAtNginx
    <3>5. /\ renewal' \in [Renewals -> States] /\ renewal'[r] = state
          /\ \A q \in Renewals \ {r} : renewal'[q] = renewal[q]
      BY <2>0, <3>2, <3>3, RenewalMoves
    <3> QED
      BY <3>2, <3>4, <3>5 DEF States
  <2>2. ASSUME NEW r \in Renewals, StopNginx(r) PROVE CertificatesInv'
    <3>1. renewal[r].step = "stop" /\ renewal[r].wasActive /\ UNCHANGED troubled
      BY <2>2 DEF StopNginx
    <3>2. CASE nginx' = "down" /\ renewal' = [renewal EXCEPT ![r].step = "certbot"]
      BY <2>0, <3>1, <3>2, StepMoves DEF States
    <3>3. CASE nginx' = nginx /\ renewal' = [renewal EXCEPT ![r] = Resting]
      BY <2>0, <3>1, <3>3, RenewalMoves DEF States
    <3> QED
      BY <2>2, <3>2, <3>3 DEF StopNginx
  <2>3. ASSUME NEW r \in Renewals, Certbot(r) PROVE CertificatesInv'
    <3>1. PICK step \in {"certified", "failed"} : renewal' = [renewal EXCEPT ![r].step = step]
      BY <2>3 DEF Certbot
    <3>2. renewal[r].step = "certbot" /\ UNCHANGED <<nginx, troubled>>
      BY <2>3 DEF Certbot
    <3> QED
      BY <2>0, <3>1, <3>2, StepMoves DEF States
  <2>4. ASSUME NEW r \in Renewals, StartNginx(r) PROVE CertificatesInv'
    <3>1. /\ renewal' \in [Renewals -> States] /\ renewal'[r] = Resting
          /\ \A q \in Renewals \ {r} : renewal'[q] = renewal[q]
      BY <2>0, <2>4, RenewalMoves DEF StartNginx
    <3>2. nginx' \in {"up", "down"} /\ troubled' \in BOOLEAN
      BY <2>4 DEF StartNginx
    <3>3. renewal[r].wasActive => nginx' = "up" \/ troubled'
      BY <2>4 DEF StartNginx
    <3>4. ~renewal[r].wasActive => nginx' = nginx /\ troubled' = troubled
      BY <2>4 DEF StartNginx
    <3> QED
      BY <2>0, <3>1, <3>2, <3>3, <3>4 DEF States
  <2>5. ASSUME NEW r \in Renewals, KillRenewal(r) PROVE CertificatesInv'
    BY <2>0, <2>5, RenewalMoves DEF KillRenewal, States
  <2>6. CASE StartNginxByHand
    BY <2>6 DEF StartNginxByHand
  <2>7. CASE UNCHANGED certificatesVars
    BY <2>7 DEF certificatesVars
  <2> QED
    BY <2>1, <2>2, <2>3, <2>4, <2>5, <2>6, <2>7 DEF CertificatesNext
<1> QED
  BY <1>1, <1>2, PTL DEF CertificatesSpec

\* run_certbot_request and renew_certificates: once every renewal has ended Nginx
\* is up, unless one was killed or could not start it.
THEOREM NginxAlwaysReturns == CertificatesSpec => []NginxReturns
<1>1. CertificatesInv => NginxReturns
  BY DEF CertificatesInv, CertificatesTypeOK, NginxReturns, WillStart, Resting
<1> QED
  BY <1>1, NginxTended, PTL

-----------------------------------------------------------------------------
(* The parts side by side.                                                 *)

\* A behaviour of the parts is one of each part: the part that does not move is
\* as it was.
LEMMA EachStarts ==
  Init => /\ AccessInit /\ LibraryInit /\ StatisticsInit /\ UpgradeInit
          /\ TelegramInit /\ CertificatesInit
BY Zenon DEF Init

LEMMA EachMoves ==
  [Next]_partsVars =>
     /\ [AccessNext]_accessVars /\ [LibraryNext]_libraryVars
     /\ [StatisticsNext]_statisticsVars /\ [UpgradeNext]_upgradeVars
     /\ [TelegramNext]_telegramVars /\ [CertificatesNext]_certificatesVars
<1> SUFFICES ASSUME [Next]_partsVars
             PROVE  /\ [AccessNext]_accessVars /\ [LibraryNext]_libraryVars
                    /\ [StatisticsNext]_statisticsVars /\ [UpgradeNext]_upgradeVars
                    /\ [TelegramNext]_telegramVars /\ [CertificatesNext]_certificatesVars
  OBVIOUS
<1>1. CASE UNCHANGED partsVars
  BY <1>1, Zenon DEF partsVars
<1>2. CASE Access(AccessNext)
  BY <1>2, Zenon DEF Access
<1>3. CASE Library
  BY <1>3, Zenon DEF Library
<1>4. CASE Statistics
  BY <1>4, Zenon DEF Statistics
<1>5. CASE LabelsAndUpgrade
  BY <1>5, Zenon DEF LabelsAndUpgrade
<1>6. CASE Telegram
  BY <1>6, Zenon DEF Telegram
<1>7. CASE Renewing
  BY <1>7, Zenon DEF Renewing
<1> QED
  BY <1>1, <1>2, <1>3, <1>4, <1>5, <1>6, <1>7, Zenon DEF Next

\* Every part, alone or beside the others, behaves as its own specification says.
THEOREM PartsKeepApart ==
  Spec => /\ AccessSpec /\ LibrarySpec /\ StatisticsSpec /\ UpgradeSpec
          /\ TelegramSpec /\ CertificatesSpec
BY EachStarts, EachMoves, PTL
   DEF Spec, AccessSpec, LibrarySpec, StatisticsSpec, UpgradeSpec, TelegramSpec,
       CertificatesSpec

\* The state of every part is well typed.
THEOREM PartsTyped == Spec => []PartsTypeOK
<1>1. LibraryInv => LibraryTypeOK
  BY DEF LibraryInv, LibraryTypeOK
<1>2. TelegramInv => TelegramTypeOK
  BY DEF TelegramInv
<1>3. CertificatesInv => CertificatesTypeOK
  BY DEF CertificatesInv
<1>4. AccessTypeOK /\ LibraryTypeOK /\ StatisticsTypeOK /\ UpgradeTypeOK /\ TelegramTypeOK
      /\ CertificatesTypeOK => PartsTypeOK
  BY Zenon DEF PartsTypeOK
<1> QED
  BY <1>1, <1>2, <1>3, <1>4, PartsKeepApart, AccessTyped, CallsCount, StatisticsTyped,
     UpgradeTyped, SettingsAgree, NginxTended, PTL
=============================================================================
