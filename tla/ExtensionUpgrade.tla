--------------------------- MODULE ExtensionUpgrade ---------------------------
(***************************************************************************)
(* The upgrade of the WDTT server to the current extension (v10), which a  *)
(* timer repeats until it has succeeded, and its rollback.  The script may *)
(* end at any step, and puts back only what it says; meanwhile the bot of  *)
(* the new server takes labels already.                                    *)
(*                                                                         *)
(* Building the binary changes nothing and is not modelled.                *)
(***************************************************************************)
EXTENDS UserLabels

VARIABLE
    upgrade     \* the installer: its step and what it remembers; want: the labels
                \* there were to be at that time

upgradeVars == <<labelsVars, upgrade>>

NoUpgrade == [step |-> "none", backup |-> "plain", wasActive |-> FALSE,
              before |-> <<>>, want |-> <<>>]

UpgradeTypeOK ==
    /\ LabelsTypeOK
    /\ upgrade.step \in {"none", "binary saved", "stopped", "copied", "recovered", "swapped",
                         "started", "checked", "stopped again", "put back"}

UpgradeInit == LabelsInit /\ upgrade = NoUpgrade

Upgrading == upgrade.step # "none"

Continue(step) == upgrade' = [upgrade EXCEPT !.step = step]

-----------------------------------------------------------------------------
(* install_wdtt_extensions                                                 *)

Enabled == binary = "v10" /\ marker = "v10"     \* wdtt_extensions_are_enabled

SaveBinary ==
    /\ ~Upgrading /\ ~Enabled
    /\ upgrade' = [NoUpgrade EXCEPT !.step = "binary saved", !.backup = binary]
    /\ UNCHANGED labelsVars

\* Mutant of StopOldServer: the binary is to be swapped under the server.
LeaveOldServer ==
    /\ upgrade.step = "binary saved"
    /\ upgrade' = [upgrade EXCEPT !.step = "stopped", !.wasActive = FALSE]
    /\ UNCHANGED labelsVars

StopOldServer ==
    /\ upgrade.step = "binary saved"
    /\ upgrade' = [upgrade EXCEPT !.step = "stopped", !.wasActive = (running # Stopped)]
    /\ running' = Stopped /\ left' = FALSE
    /\ UNCHANGED <<file, sidecar, copied, marker, binary, memory, helper, want, unsure, operations>>

CopyDatabase ==
    /\ upgrade.step = "stopped"
    /\ upgrade' = [upgrade EXCEPT !.step = "copied", !.before = file, !.want = want]
    /\ copied' = Archived
    /\ UNCHANGED <<file, sidecar, marker, left, binary, running, memory, helper, want, unsure, operations>>

\* The first that is there: the label of the entry, of the panel, of a copy.
RecoverLabels ==
    /\ upgrade.step = "copied"
    /\ \E found \in [People -> Labels \cup {Missing}] :
          /\ \A u \in People : found[u] \in IF copied[u] = {} THEN {Missing} ELSE copied[u]
          /\ file' = [u \in People |->
                 IF file[u] \in Labels \cup {NoUser} THEN file[u]
                 ELSE IF sidecar[u] # Missing THEN sidecar[u]
                 ELSE IF found[u] # Missing THEN found[u] ELSE file[u]]
    /\ Continue("recovered")
    /\ UNCHANGED <<sidecar, copied, marker, left, binary, running, memory, helper, want, unsure, operations>>

SwapBinary ==
    /\ upgrade.step = "recovered"
    /\ binary' = "v10"
    /\ Continue("swapped")
    /\ UNCHANGED <<file, sidecar, copied, marker, left, running, memory, helper, want, unsure, operations>>

\* The server is started if it was active; it may fail, at once or a little later.
StartNewServer ==
    /\ upgrade.step = "swapped"
    /\ \/ upgrade.wasActive /\ running' = binary /\ memory' = file
       \/ UNCHANGED <<running, memory>>
    /\ Continue("started")
    /\ UNCHANGED <<file, sidecar, copied, marker, left, binary, helper, want, unsure, operations>>

\* wdtt_database_preserved: what was there is there, and every field there was
\* has the value it had, the empty label of a user included.
Preserved ==
    \A u \in People : upgrade.before[u] # NoUser =>
        /\ file[u] # NoUser
        /\ upgrade.before[u] # Missing => file[u] = upgrade.before[u]

\* A server that the extension's fields are from may have moved last_upload_at
\* while the installer waited.
Moving == upgrade.wasActive /\ upgrade.backup # "plain"

CheckPassed ==
    /\ upgrade.step = "started"
    /\ upgrade.wasActive => running # Stopped
    /\ binary = "v10"
    /\ Preserved
    /\ sidecar' = [u \in People |-> Missing]
    /\ Continue("checked")
    /\ UNCHANGED <<file, copied, marker, left, binary, running, memory, helper, want, unsure, operations>>

WriteMarker ==
    /\ upgrade.step = "checked"
    /\ marker' = "v10"
    /\ upgrade' = NoUpgrade
    /\ UNCHANGED <<file, sidecar, copied, left, binary, running, memory, helper, want, unsure, operations>>

\* restore_wdtt_extension_backup: the server is stopped, the binary and the
\* database are put back, the server is started.  Whether it has stopped is not
\* looked at.
CheckFailed ==
    /\ upgrade.step = "started"
    /\ \/ upgrade.wasActive /\ running = Stopped
       \/ binary # "v10"
       \/ ~Preserved
       \/ Moving
    /\ \/ running' = Stopped /\ left' = FALSE
       \/ running # Stopped /\ running' = running /\ left' = TRUE
    /\ unsure' = unsure \cup {u \in People : want[u] # upgrade.want[u]}
    /\ Continue("stopped again")
    /\ UNCHANGED <<file, sidecar, copied, marker, binary, memory, helper, want, operations>>

PutBackBinary ==
    /\ upgrade.step = "stopped again"
    /\ binary' = upgrade.backup
    /\ Continue("put back")
    /\ UNCHANGED <<file, sidecar, copied, marker, left, running, memory, helper, want, unsure, operations>>

\* The start does nothing to a server that runs, and may fail.
PutBackDatabase ==
    /\ upgrade.step = "put back"
    /\ file' = upgrade.before
    /\ \/ upgrade.wasActive /\ running = Stopped /\ running' = binary /\ memory' = file'
       \/ UNCHANGED <<running, memory>>
    /\ upgrade' = NoUpgrade
    /\ UNCHANGED <<sidecar, copied, marker, left, binary, helper, want, unsure, operations>>

\* The script ends where it is: a command has failed, or the machine has.
Interrupted == Upgrading /\ upgrade' = NoUpgrade /\ UNCHANGED labelsVars

InstallerNext ==
    \/ SaveBinary \/ StopOldServer \/ CopyDatabase \/ RecoverLabels \/ SwapBinary
    \/ StartNewServer \/ CheckPassed \/ WriteMarker
    \/ CheckFailed \/ PutBackBinary \/ PutBackDatabase
    \/ Interrupted

\* The administrator, or a reboot.
StartByHand ==
    /\ running = Stopped /\ helper = NoOperation /\ ~Upgrading
    /\ running' = binary
    /\ memory' = file
    /\ UNCHANGED <<file, sidecar, copied, marker, left, binary, helper, want, unsure, operations>>

\* The installer does not take the helper's lock.  When an operation of the panel
\* and an upgrade meet, the model ends: nothing is claimed of what follows.
Met == helper # NoOperation /\ Upgrading

UpgradeNext ==
    /\ ~Met
    /\ \/ InstallerNext
       \/ (LabelsNext \/ StartByHand) /\ UNCHANGED upgrade

UpgradeSpec == UpgradeInit /\ [][UpgradeNext]_upgradeVars

-----------------------------------------------------------------------------
(* Properties.                                                             *)

Settled == helper = NoOperation /\ ~Upgrading

\* The panel shows the label a user has been given last, in the panel or in the
\* bot of a server with the extension: through saves of a server that drops it,
\* renaming, the upgrade, an upgrade that is rolled back or breaks off (README:
\* labels of all users are kept by an update).  Not after a helper failed
\* before it wrote the second file, nor for a label the bot took while the upgrade
\* was being checked and then rolled back, or of a server that the rollback left
\* running.
LabelsKept ==
    Settled => \A u \in People \ unsure :
        file[u] # NoUser /\ want[u] # Missing => Shown(u) = want[u]

\* The state file says v10 only when the binary is, and no server is left running
\* that is not the one installed: by no upgrade, and by a rollback only if it could
\* not stop the new server (install.sh ignores that), until that one is stopped.
VerifiedMeansRunning ==
    Settled => /\ marker = "v10" => binary = "v10" /\ ~left
               /\ running \in {Stopped, binary} \/ left
=============================================================================
