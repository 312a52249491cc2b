------------------------------ MODULE PanelParts ------------------------------
(***************************************************************************)
(* The smaller parts of the panel side by side: what the web process keeps *)
(* itself (PanelAccess, HashLibrary, UserStatistics), the labels of users  *)
(* through the upgrade of the WDTT server (UserLabels, ExtensionUpgrade),  *)
(* the settings of its bot (TelegramSettings), the renewal of certificates *)
(* (Certificates).  They share no state: a behaviour is one of one part,   *)
(* while the others rest, which is every behaviour of that part.           *)
(***************************************************************************)
EXTENDS PanelAccess, HashLibrary, UserStatistics, ExtensionUpgrade, TelegramSettings,
        Certificates

VARIABLE part   \* the part that moves

partsVars == <<part, accessVars, libraryVars, statisticsVars, upgradeVars, telegramVars,
               certificatesVars>>

Init ==
    /\ part \in {"access", "library", "statistics", "labels", "telegram", "certificates"}
    /\ AccessInit /\ LibraryInit /\ StatisticsInit /\ TelegramInit /\ CertificatesInit
    /\ UpgradeInit
    \* Of a part that rests one state is enough.
    /\ part # "labels" => marker = "none" /\ \A u \in People : file[u] = NoUser
    /\ part # "telegram" => bot = NoBot /\ ~extended

Access(step) ==
    /\ part = "access" /\ step
    /\ UNCHANGED <<part, libraryVars, statisticsVars, upgradeVars, telegramVars, certificatesVars>>

Library ==
    /\ part = "library" /\ LibraryNext
    /\ UNCHANGED <<part, accessVars, statisticsVars, upgradeVars, telegramVars, certificatesVars>>

Statistics ==
    /\ part = "statistics" /\ StatisticsNext
    /\ UNCHANGED <<part, accessVars, libraryVars, upgradeVars, telegramVars, certificatesVars>>

LabelsAndUpgrade ==
    /\ part = "labels" /\ UpgradeNext
    /\ UNCHANGED <<part, accessVars, libraryVars, statisticsVars, telegramVars, certificatesVars>>

Telegram ==
    /\ part = "telegram" /\ TelegramNext
    /\ UNCHANGED <<part, accessVars, libraryVars, statisticsVars, upgradeVars, certificatesVars>>

Renewing ==
    /\ part = "certificates" /\ CertificatesNext
    /\ UNCHANGED <<part, accessVars, libraryVars, statisticsVars, upgradeVars, telegramVars>>

Next == Access(AccessNext) \/ Library \/ Statistics \/ LabelsAndUpgrade \/ Telegram \/ Renewing

\* Time goes on; nothing else is sure to happen.
Spec == Init /\ [][Next]_partsVars /\ WF_partsVars(Access(Tick))

PartsTypeOK ==
    /\ AccessTypeOK /\ LibraryTypeOK /\ StatisticsTypeOK
    /\ UpgradeTypeOK /\ TelegramTypeOK /\ CertificatesTypeOK
=============================================================================
