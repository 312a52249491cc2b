------------------------ MODULE ExtensionUpgradeProofs ------------------------
(***************************************************************************)
(* What the state file says of the binary, what the server runs, and that  *)
(* no label of a user is lost, for every set of users and labels and       *)
(* wherever an upgrade ends.                                               *)
(***************************************************************************)
EXTENDS ExtensionUpgrade, TLAPS

\* The steps of the installer at which it has stopped the server.
WithServerStopped == {"stopped", "copied", "recovered", "swapped"}

\* The state file names the binary; nothing but the installed binary runs, or the
\* new one that a rollback could not stop; while the installer has the server
\* stopped nothing does.  Only an operation that meets the upgrade could start it
\* then, and there the model ends.
UpgradeInv ==
    /\ marker = "v10" => binary = "v10" /\ ~Upgrading /\ ~left
    /\ running \in {Stopped, binary} \/ left
    /\ left \in BOOLEAN /\ (left => running = "v10")
    /\ left => /\ upgrade.step \in {"none", "binary saved", "stopped again", "put back"}
               /\ helper.step \notin {"begun", "saved"}
    /\ upgrade.step \in WithServerStopped => running = Stopped
    /\ upgrade.step \in {"stopped again", "put back"} => running = Stopped \/ left
    /\ upgrade.step \in {"swapped", "started", "checked"} => binary = "v10"
    /\ {"step", "wasActive"} \subseteq DOMAIN upgrade

\* The invariant holds in every reachable state.
THEOREM BinaryKnown == UpgradeSpec => []UpgradeInv
<1> USE DEF Upgrading, NoUpgrade, WithServerStopped
<1>1. UpgradeInit => UpgradeInv
  <2> SUFFICES ASSUME UpgradeInit PROVE UpgradeInv
    OBVIOUS
  <2>1. ~left
    BY DEF UpgradeInit, LabelsInit
  <2>2. marker \in {"none", "v9"} /\ running = binary /\ upgrade = NoUpgrade
    BY DEF UpgradeInit, LabelsInit
  <2>3. left \in BOOLEAN
    BY DEF UpgradeInit, LabelsInit
  <2> QED
    BY <2>1, <2>2, <2>3 DEF UpgradeInv
<1>2. UpgradeInv /\ [UpgradeNext]_upgradeVars => UpgradeInv'
  <2> SUFFICES ASSUME UpgradeInv, [UpgradeNext]_upgradeVars
               PROVE  UpgradeInv'
    OBVIOUS
  <2> USE DEF UpgradeInv
  <2>1. CASE UNCHANGED upgradeVars
    BY <2>1 DEF upgradeVars, labelsVars
  <2>2. CASE LabelsNext /\ ~Met /\ UNCHANGED upgrade
    <3>1. CASE SaveDatabase \/ WriteSidecar \/ LoseSidecar \/ ReplaceDatabase
      <4>1. /\ UNCHANGED <<marker, binary, left, running, upgrade>>
            /\ helper' \in {helper, NoOperation} \/ helper.step = "begun"
        BY <2>2, <3>1 DEF SaveDatabase, WriteSidecar, LoseSidecar, ReplaceDatabase
      <4>2. NoOperation.step = "none"
        BY DEF NoOperation
      <4> QED
        BY <4>1, <4>2
    <3>2. ASSUME NEW u \in People, NEW label \in Labels \cup {Blank}, BotLabel(u, label)
          PROVE  UpgradeInv'
      BY <2>2, <3>2 DEF BotLabel
    <3>3. CASE BeginOperation
      BY <2>2, <3>3 DEF BeginOperation
    <3>4. CASE RejectOperation \/ StartServer
      <4>1. helper # NoOperation
        <5>1. NoOperation.step = "none"
          BY DEF NoOperation
        <5>2. helper.step \in {"begun", "saved"}
          BY <3>4 DEF RejectOperation, StartServer
        <5> QED
          BY <5>1, <5>2
      <4>2. ~Upgrading
        BY <2>2, <4>1 DEF Met
      <4>3. ~left
        BY <3>4 DEF RejectOperation, StartServer
      <4>4. /\ UNCHANGED <<marker, binary, left, upgrade>>
            /\ running' \in {binary, running}
        BY <2>2, <3>4 DEF RejectOperation, StartServer
      <4> QED
        BY <4>2, <4>3, <4>4
    <3> QED
      BY <2>2, <3>1, <3>2, <3>3, <3>4 DEF LabelsNext
  <2>3. CASE StartByHand /\ UNCHANGED upgrade
    BY <2>3 DEF StartByHand, Stopped
  <2>4. CASE InstallerNext /\ ~Met
    <3>1. CASE SaveBinary
      BY <3>1 DEF SaveBinary, labelsVars, Enabled
    <3>2. CASE StopOldServer
      BY <3>2 DEF StopOldServer
    <3>3. CASE CopyDatabase
      BY <3>3 DEF CopyDatabase
    <3>4. CASE RecoverLabels
      BY <3>4 DEF RecoverLabels, Continue
    <3>5. CASE SwapBinary
      BY <3>5 DEF SwapBinary, Continue
    <3>6. CASE StartNewServer
      BY <3>6 DEF StartNewServer, Continue
    <3>7. CASE CheckPassed
      BY <3>7 DEF CheckPassed, Continue
    <3>8. CASE WriteMarker
      BY <3>8 DEF WriteMarker
    <3>9. CASE CheckFailed
      <4>1. helper = NoOperation /\ NoOperation.step = "none"
        BY <2>4, <3>9 DEF Met, CheckFailed, NoOperation
      <4>2. /\ UNCHANGED <<marker, binary, helper>> /\ upgrade.step = "started" /\ Continue("stopped again")
            /\ \/ running' = Stopped /\ ~left' /\ left' \in BOOLEAN
               \/ running # Stopped /\ running' = running /\ left' /\ left' \in BOOLEAN
        BY <3>9 DEF CheckFailed
      <4>3. upgrade'.step = "stopped again" /\ {"step", "wasActive"} \subseteq DOMAIN upgrade'
        BY <4>2 DEF Continue
      <4>4. marker # "v10" /\ binary = "v10" /\ ~left
        BY <4>2
      <4> QED
        BY <4>1, <4>2, <4>3, <4>4
    <3>10. CASE PutBackBinary
      BY <3>10 DEF PutBackBinary, Continue
    <3>11. CASE PutBackDatabase
      <4>1. running # running' => ~left
        BY <3>11 DEF PutBackDatabase, Stopped
      <4> QED
        BY <3>11, <4>1 DEF PutBackDatabase
    <3>12. CASE Interrupted
      BY <3>12 DEF Interrupted, labelsVars
    <3> QED
      BY <2>4, <3>1, <3>2, <3>3, <3>4, <3>5, <3>6, <3>7, <3>8, <3>9, <3>10, <3>11, <3>12
      DEF InstallerNext
  <2> QED
    BY <2>1, <2>2, <2>3, <2>4 DEF UpgradeNext
<1> QED
  BY <1>1, <1>2, PTL DEF UpgradeSpec

\* install_wdtt_extensions: whenever nothing is under way the state file says v10 of
\* no other binary, and no server runs that is not the one installed.
THEOREM AlwaysVerified == UpgradeSpec => []VerifiedMeansRunning
<1>1. UpgradeInv => VerifiedMeansRunning
  BY DEF UpgradeInv, VerifiedMeansRunning, Settled
<1> QED
  BY <1>1, BinaryKnown, PTL

-----------------------------------------------------------------------------
(* The labels of users.                                                    *)

Kinds == {"create", "relabel", "rename", "delete", "bulk delete"}
Helpers == [step : {"begun", "saved", "started"}, kind : Kinds, user : People, name : People,
            label : Labels \cup {Blank}, wasActive : BOOLEAN]
AllFields == [People -> Fields]
AllLabels == [People -> Labels \cup {Missing}]
Binaries == {"plain", "v9", "v10"}
UpgradeSteps == {"none", "binary saved", "stopped", "copied", "recovered", "swapped",
                 "started", "checked", "stopped again", "put back"}
Upgrades == [step : UpgradeSteps, backup : Binaries, wasActive : BOOLEAN,
             before : AllFields \cup {<<>>}, want : AllLabels \cup {<<>>}]

\* The steps at which there may be a rollback still.
Revocable == {"copied", "recovered", "swapped", "started", "stopped again", "put back"}

TypesInv ==
    /\ file \in AllFields /\ memory \in AllFields
    /\ sidecar \in AllLabels /\ want \in AllLabels
    /\ copied \in [People -> SUBSET Labels]
    /\ marker \in {"none", "v9", "v10"} /\ binary \in Binaries
    /\ unsure \subseteq People
    /\ upgrade \in Upgrades
    /\ upgrade.step \in Revocable => upgrade.before \in AllFields /\ upgrade.want \in AllLabels
    /\ helper = NoOperation \/ helper \in Helpers
    /\ helper.kind \in {"create", "delete", "bulk delete"} => helper.name = helper.user

\* The second file, as it is going to be when the operation under way has ended.
Foreseen == IF helper.step \in {"saved", "started"} THEN SidecarAfter ELSE sidecar

\* A field that shows the label, in one file or the other.
Shows(field, label, second) ==
    \/ field = label
    \/ field \in {Missing, Blank} /\ marker = "none" /\ second = label

Claimed(u) == u \notin unsure /\ want[u] \in Labels /\ file[u] # NoUser

FilesInv ==
    /\ binary = "plain" => marker = "none"
    /\ helper.step \in {"begun", "saved"} => running = Stopped
    /\ running # Stopped => \A u \in People : memory[u] = NoUser <=> file[u] = NoUser
    /\ \A u \in People : Claimed(u) =>
          /\ Shows(file[u], want[u], Foreseen[u])
          /\ running # Stopped => Shows(memory[u], want[u], Foreseen[u])
          /\ binary = "plain" => Foreseen[u] = want[u]

\* From the recovery on every label is in the database.
Recovered == {"recovered", "swapped", "started", "checked", "stopped again"}

RollbackInv ==
    /\ upgrade.step \in Recovered => \A u \in People : Claimed(u) =>
          file[u] = want[u] /\ (running # Stopped => memory[u] = want[u])
    /\ upgrade.step \in Revocable =>
          \A u \in People :
                /\ upgrade.before[u] = NoUser <=> file[u] = NoUser
                /\ u \notin unsure /\ upgrade.want[u] \in Labels /\ file[u] # NoUser =>
                      /\ Shows(upgrade.before[u], upgrade.want[u], sidecar[u])
                      /\ upgrade.backup = "plain" => sidecar[u] = upgrade.want[u]
    /\ upgrade.step \in {"stopped again", "put back"} =>
          \A u \in People \ unsure : want[u] = upgrade.want[u]
    /\ Upgrading /\ upgrade.backup = "plain" => marker = "none"
    /\ upgrade.step \in {"swapped", "started", "checked", "stopped again"} => binary = "v10"
    /\ upgrade.step \in {"binary saved", "stopped"} => binary = upgrade.backup

\* What is no label.
LEMMA NoLabels ==
  /\ NoUser \notin Labels /\ Missing \notin Labels /\ Blank \notin Labels
  /\ NoUser # Missing /\ NoUser # Blank /\ Missing # Blank
BY LabelsAssumption, Zenon DEF NoUser, Missing, Blank

\* What a server writes of what it has read.
LEMMA WrittenFields ==
  ASSUME NEW b \in Binaries, NEW data \in AllFields
  PROVE  /\ Written(b, data) \in AllFields
         /\ \A u \in People :
               /\ Written(b, data)[u] = NoUser <=> data[u] = NoUser
               /\ Written(b, data)[u] \in {data[u], Missing}
               /\ b # "plain" /\ data[u] \in Labels => Written(b, data)[u] = data[u]
BY NoLabels DEF Written, AllFields, Fields

\* What the helper and the second file may be in each step of an operation.
LEMMA HelperKinds ==
  ASSUME TypesInv
  PROVE  /\ helper = NoOperation <=> helper.step = "none"
         /\ helper # NoOperation =>
               /\ helper \in Helpers
               /\ helper.user \in People /\ helper.name \in People
               /\ helper.label \in Labels \cup {Blank} /\ Given(helper.label) \in Labels \cup {Missing}
<1>1. NoOperation.step = "none"
  BY DEF NoOperation
<1> QED
  BY <1>1 DEF TypesInv, Helpers, Given

\* The second file after an operation: only two users may be concerned.
LEMMA SecondFile ==
  ASSUME TypesInv, helper # NoOperation
  PROVE  /\ SidecarAfter \in AllLabels
         /\ \A u \in People \ {helper.user, helper.name} : SidecarAfter[u] = sidecar[u]
<1>1. /\ helper \in Helpers /\ helper.user \in People /\ helper.name \in People
      /\ Given(helper.label) \in Labels \cup {Missing} /\ sidecar \in AllLabels
  BY HelperKinds DEF TypesInv
<1>2. /\ Moved \in AllLabels
      /\ \A u \in People \ {helper.user, helper.name} : Moved[u] = sidecar[u]
  BY <1>1 DEF Moved, AllLabels
<1>3. /\ Relabelled \in AllLabels
      /\ \A u \in People \ {helper.user, helper.name} : Relabelled[u] = sidecar[u]
  BY <1>1 DEF Relabelled, AllLabels
<1>4. PICK without : without = [sidecar EXCEPT ![helper.user] = Missing]
  OBVIOUS
<1>5. /\ without \in AllLabels
      /\ \A u \in People \ {helper.user, helper.name} : without[u] = sidecar[u]
  BY <1>1, <1>4 DEF AllLabels
<1>6. SidecarAfter \in {Moved, Relabelled, without, sidecar}
  BY <1>4 DEF SidecarAfter
<1> QED
  BY <1>1, <1>2, <1>3, <1>5, <1>6

\* What every variable and every record may be.
THEOREM LabelsTyped == UpgradeSpec => []TypesInv
<1>0. NoOperation.kind = "none" /\ NoUpgrade \in Upgrades /\ NoUpgrade.step = "none"
  BY DEF NoOperation, NoUpgrade, Upgrades, UpgradeSteps, Binaries
<1>1. UpgradeInit => TypesInv
  <2> SUFFICES ASSUME UpgradeInit PROVE TypesInv
    OBVIOUS
  <2>1. file \in AllFields /\ memory \in AllFields
    BY DEF UpgradeInit, LabelsInit, AllFields, Fields
  <2>2. sidecar \in AllLabels /\ want \in AllLabels /\ copied \in [People -> SUBSET Labels]
    BY DEF UpgradeInit, LabelsInit, AllLabels
  <2>3. marker \in {"none", "v9", "v10"} /\ binary \in Binaries /\ unsure \subseteq People
    BY DEF UpgradeInit, LabelsInit, Binaries
  <2>4. upgrade = NoUpgrade /\ helper = NoOperation
    BY DEF UpgradeInit, LabelsInit
  <2> QED
    BY <1>0, <2>1, <2>2, <2>3, <2>4 DEF TypesInv, Revocable
<1>2. TypesInv /\ [UpgradeNext]_upgradeVars => TypesInv'
  <2> SUFFICES ASSUME TypesInv, [UpgradeNext]_upgradeVars
               PROVE  TypesInv'
    OBVIOUS
  <2>0. Archived \in [People -> SUBSET Labels]
    BY DEF TypesInv, Archived
  <2>1. CASE UNCHANGED upgradeVars
    BY <2>1 DEF upgradeVars, labelsVars, TypesInv
  <2>2. CASE LabelsNext /\ UNCHANGED upgrade
    <3>1. CASE SaveDatabase
      <4>1. file' \in AllFields
        <5>1. \/ running \in Binaries
              \/ running \notin Binaries
          OBVIOUS
        <5> QED
          BY <3>1, NoLabels DEF SaveDatabase, Written, TypesInv, AllFields, Fields
      <4> QED
        BY <2>2, <3>1, <4>1 DEF SaveDatabase, TypesInv
    <3>2. ASSUME NEW u \in People, NEW label \in Labels \cup {Blank}, BotLabel(u, label)
          PROVE  TypesInv'
      <4>1. memory' \in AllFields /\ want' \in AllLabels
        BY <3>2 DEF BotLabel, Given, TypesInv, AllFields, Fields, AllLabels
      <4>2. file' \in AllFields
        BY <3>2, <4>1, NoLabels DEF BotLabel, Written, AllFields, Fields
      <4> QED
        BY <2>2, <3>2, <4>1, <4>2 DEF BotLabel, TypesInv
    <3>3. CASE BeginOperation
      <4>1. PICK request \in Requests : helper' = [request EXCEPT !.wasActive = (running # Stopped)]
        BY <3>3 DEF BeginOperation
      <4>2. /\ request.kind \in Kinds /\ request.user \in People /\ request.name \in People
            /\ request.label \in Labels \cup {Blank}
            /\ request.kind \in {"create", "delete", "bulk delete"} => request.name = request.user
        BY <4>1 DEF Requests, Kinds
      <4>3. PICK active : active = (running # Stopped)
        OBVIOUS
      <4>4. helper' = [step |-> "begun", kind |-> request.kind, user |-> request.user,
                       name |-> request.name, label |-> request.label, wasActive |-> active]
        BY <4>1, <4>3 DEF Requests
      <4>5. active \in BOOLEAN
        BY <4>3
      <4>6. helper' \in Helpers
        BY <4>2, <4>4, <4>5 DEF Helpers
      <4> QED
        BY <2>2, <3>3, <4>2, <4>4, <4>6 DEF BeginOperation, TypesInv
    <3>4. CASE RejectOperation
      <4>1. memory' \in AllFields
        BY <3>4 DEF RejectOperation, TypesInv
      <4> QED
        BY <1>0, <2>0, <2>2, <3>4, <4>1 DEF RejectOperation, TypesInv
    <3>5. CASE ReplaceDatabase
      <4>1. helper \in Helpers /\ helper.user \in People /\ helper.name \in People
            /\ helper.label \in Labels \cup {Blank} /\ Given(helper.label) \in Labels \cup {Missing}
        BY <3>5, HelperKinds DEF ReplaceDatabase
      <4>2. helper' = [step |-> "saved", kind |-> helper.kind, user |-> helper.user,
                       name |-> helper.name, label |-> helper.label, wasActive |-> helper.wasActive]
        BY <3>5, <4>1 DEF ReplaceDatabase, Helpers
      <4>3. helper' \in Helpers
        BY <4>1, <4>2 DEF Helpers
      <4>4. Mutated \in AllFields
        BY <4>1 DEF Mutated, TypesInv, AllFields, Fields
      <4>5. Wanted \in AllLabels
        BY <4>1 DEF Wanted, TypesInv, AllLabels
      <4>6. unsure' \subseteq People
        BY <3>5, <4>1 DEF ReplaceDatabase, TypesInv
      <4> QED
        BY <2>0, <2>2, <3>5, <4>2, <4>3, <4>4, <4>5, <4>6 DEF ReplaceDatabase, TypesInv
    <3>6. CASE StartServer
      <4>1. helper \in Helpers
        BY <3>6, HelperKinds DEF StartServer
      <4>2. helper' = [step |-> "started", kind |-> helper.kind, user |-> helper.user,
                       name |-> helper.name, label |-> helper.label, wasActive |-> helper.wasActive]
        BY <3>6, <4>1 DEF StartServer, Helpers
      <4>3. helper' \in Helpers
        BY <4>1, <4>2 DEF Helpers
      <4>4. memory' \in AllFields
        BY <3>6 DEF StartServer, TypesInv
      <4> QED
        BY <2>2, <3>6, <4>2, <4>3, <4>4 DEF StartServer, TypesInv
    <3>7. CASE WriteSidecar
      <4>1. helper # NoOperation
        BY <3>7, HelperKinds DEF WriteSidecar
      <4> QED
        BY <1>0, <2>2, <3>7, <4>1, SecondFile DEF WriteSidecar, TypesInv
    <3>8. CASE LoseSidecar
      <4>1. helper.user \in People /\ helper.name \in People
        BY <3>8, HelperKinds DEF LoseSidecar
      <4> QED
        BY <1>0, <2>2, <3>8, <4>1 DEF LoseSidecar, TypesInv
    <3> QED
      BY <2>2, <3>1, <3>2, <3>3, <3>4, <3>5, <3>6, <3>7, <3>8 DEF LabelsNext
  <2>3. CASE StartByHand /\ UNCHANGED upgrade
    BY <2>3 DEF StartByHand, TypesInv
  <2>4. CASE InstallerNext
    <3>0. upgrade \in Upgrades
      BY DEF TypesInv
    <3>a. ASSUME NEW step \in UpgradeSteps, Continue(step)
          PROVE  /\ upgrade' \in Upgrades /\ upgrade'.step = step
                 /\ upgrade'.before = upgrade.before /\ upgrade'.want = upgrade.want
      BY <3>0, <3>a DEF Continue, Upgrades
    <3>1. CASE SaveBinary
      <4>1. upgrade' = [step |-> "binary saved", backup |-> binary, wasActive |-> FALSE,
                        before |-> <<>>, want |-> <<>>]
        BY <3>1 DEF SaveBinary, NoUpgrade
      <4>2. upgrade' \in Upgrades
        BY <4>1 DEF TypesInv, Upgrades, UpgradeSteps
      <4> QED
        BY <3>1, <4>1, <4>2 DEF SaveBinary, TypesInv, labelsVars, Revocable
    <3>2. CASE StopOldServer
      <4>1. PICK active : active = (running # Stopped)
        OBVIOUS
      <4>2. active \in BOOLEAN
        BY <4>1
      <4>3. upgrade' = [upgrade EXCEPT !.step = "stopped", !.wasActive = active]
        BY <3>2, <4>1 DEF StopOldServer
      <4>4. upgrade' \in Upgrades
        BY <3>0, <4>2, <4>3 DEF Upgrades, UpgradeSteps
      <4> QED
        BY <3>0, <3>2, <4>3, <4>4 DEF StopOldServer, TypesInv, Revocable, Upgrades
    <3>3. CASE CopyDatabase
      <4>1. /\ upgrade' \in Upgrades
            /\ upgrade'.before \in AllFields /\ upgrade'.want \in AllLabels
        BY <3>0, <3>3 DEF CopyDatabase, TypesInv, Upgrades, UpgradeSteps
      <4> QED
        BY <2>0, <3>3, <4>1 DEF CopyDatabase, TypesInv
    <3>4. CASE RecoverLabels
      <4>1. file' \in AllFields
        BY <3>4 DEF RecoverLabels, TypesInv, AllFields, Fields, AllLabels
      <4>2. /\ upgrade' \in Upgrades
            /\ upgrade'.before \in AllFields /\ upgrade'.want \in AllLabels
        BY <3>4, <3>a DEF RecoverLabels, UpgradeSteps, TypesInv, Revocable
      <4> QED
        BY <3>4, <4>1, <4>2 DEF RecoverLabels, TypesInv
    <3>5. CASE SwapBinary
      BY <3>5, <3>a DEF SwapBinary, TypesInv, UpgradeSteps, Binaries, Revocable
    <3>6. CASE StartNewServer
      BY <3>6, <3>a DEF StartNewServer, TypesInv, UpgradeSteps, Revocable
    <3>7. CASE CheckPassed
      <4>1. sidecar' \in AllLabels
        BY <3>7 DEF CheckPassed, AllLabels
      <4> QED
        BY <3>7, <3>a, <4>1 DEF CheckPassed, TypesInv, UpgradeSteps, Revocable
    <3>8. CASE WriteMarker
      BY <1>0, <3>8 DEF WriteMarker, TypesInv, Revocable
    <3>9. CASE CheckFailed
      BY <3>9, <3>a DEF CheckFailed, TypesInv, UpgradeSteps, Revocable
    <3>10. CASE PutBackBinary
      BY <3>0, <3>10, <3>a DEF PutBackBinary, TypesInv, UpgradeSteps, Upgrades, Revocable
    <3>11. CASE PutBackDatabase
      <4>1. file' \in AllFields /\ memory' \in AllFields
        BY <3>11 DEF PutBackDatabase, TypesInv, Revocable
      <4> QED
        BY <1>0, <3>11, <4>1 DEF PutBackDatabase, TypesInv, Revocable
    <3>12. CASE Interrupted
      BY <1>0, <3>12 DEF Interrupted, TypesInv, labelsVars, Revocable
    <3> QED
      BY <2>4, <3>1, <3>2, <3>3, <3>4, <3>5, <3>6, <3>7, <3>8, <3>9, <3>10, <3>11, <3>12
      DEF InstallerNext
  <2> QED
    BY <2>1, <2>2, <2>3, <2>4 DEF UpgradeNext
<1> QED
  BY <1>1, <1>2, PTL DEF UpgradeSpec

\* As long as the operation, the second file and the state file stay what they
\* are, so does what the second file is going to be.
LEMMA ForeseenStays ==
  ASSUME UNCHANGED <<helper, sidecar, marker>>
  PROVE  Foreseen' = Foreseen
BY DEF Foreseen, SidecarAfter, Relabelled, Moved, Verified, Given

\* The server saves what it has read, or what the bot has changed.
LEMMA SavedFields ==
  ASSUME TypesInv, UpgradeInv, running # Stopped, NEW data \in AllFields, NEW u \in People
  PROVE  /\ Written(running, data)[u] = NoUser <=> data[u] = NoUser
         /\ Written(running, data)[u] \in {data[u], Missing}
         /\ running # "plain" /\ data[u] \in Labels => Written(running, data)[u] = data[u]
<1>1. running \in Binaries
  BY DEF UpgradeInv, TypesInv, Binaries
<1> QED
  BY <1>1, WrittenFields

\* No label is written of that was not shown before.
LEMMA SaveKeeps ==
  ASSUME TypesInv, UpgradeInv, FilesInv, RollbackInv, SaveDatabase, UNCHANGED upgrade
  PROVE  FilesInv' /\ RollbackInv'
<1>1. Foreseen' = Foreseen
  BY ForeseenStays DEF SaveDatabase
<1>2. /\ running # Stopped /\ file' = Written(running, memory) /\ memory \in AllFields
      /\ UNCHANGED <<sidecar, marker, binary, running, memory, helper, want, unsure, upgrade>>
  BY DEF SaveDatabase, TypesInv
<1>3. \A u \in People :
        /\ file'[u] = NoUser <=> file[u] = NoUser
        /\ file'[u] \in {memory[u], Missing}
        /\ running # "plain" /\ memory[u] \in Labels => file'[u] = memory[u]
  BY <1>2, SavedFields DEF FilesInv
<1>a. running = "plain" => binary = "plain"
  BY <1>2 DEF UpgradeInv
<1>4. FilesInv'
  <2>1. ASSUME NEW u \in People, Claimed(u)'
        PROVE  Shows(file[u], want[u], Foreseen[u])'
    <3>1. Claimed(u) /\ want'[u] = want[u]
      BY <1>2, <1>3, <2>1 DEF Claimed
    <3>2. Shows(memory[u], want[u], Foreseen[u]) /\ want[u] \in Labels
      BY <1>2, <3>1 DEF FilesInv, Claimed
    <3>3. running = "plain" => Foreseen[u] = want[u] /\ marker = "none"
      BY <1>a, <3>1 DEF FilesInv
    <3> QED
      BY <1>1, <1>2, <1>3, <3>2, <3>3 DEF Shows
  <2>2. \A u \in People : Claimed(u)' <=> Claimed(u)
    BY <1>2, <1>3 DEF Claimed
  <2> QED
    BY <1>1, <1>2, <1>3, <2>1, <2>2 DEF FilesInv, Shows
<1>5. RollbackInv'
  <2>1. \A u \in People : Claimed(u)' <=> Claimed(u)
    BY <1>2, <1>3 DEF Claimed
  <2>2. ASSUME upgrade.step \in Recovered, NEW u \in People, Claimed(u)
        PROVE  file'[u] = want[u] /\ memory[u] = want[u]
    <3>1. memory[u] = want[u] /\ want[u] \in Labels
      BY <1>2, <2>2 DEF RollbackInv, Claimed
    <3>2. running # "plain"
      BY <1>2, <1>a, <2>2 DEF Recovered, RollbackInv, UpgradeInv, WithServerStopped
    <3> QED
      BY <1>3, <3>1, <3>2
  <2> QED
    BY <1>2, <1>3, <2>1, <2>2 DEF RollbackInv, Shows, Upgrading
<1> QED
  BY <1>4, <1>5

\* The bot changes one label, in the memory and in the file.
LEMMA BotKeeps ==
  ASSUME TypesInv, UpgradeInv, FilesInv, RollbackInv, TypesInv',
         NEW v \in People, NEW label \in Labels \cup {Blank}, BotLabel(v, label), UNCHANGED upgrade
  PROVE  FilesInv' /\ RollbackInv'
<1>1. Foreseen' = Foreseen
  BY ForeseenStays DEF BotLabel
<1>2. /\ running # Stopped /\ running # "plain" /\ memory[v] # NoUser
      /\ left \/ (running = binary /\ unsure' = unsure)
      /\ unsure' = (IF left THEN unsure \cup {v} ELSE unsure)
      /\ file' = Written(running, memory')
      /\ memory' = [memory EXCEPT ![v] = label] /\ want' = [want EXCEPT ![v] = Given(label)]
      /\ UNCHANGED <<sidecar, marker, binary, running, helper, upgrade>>
  BY DEF BotLabel, UpgradeInv
<1>a. \A u \in People : u \notin unsure' => u \notin unsure /\ (left => u # v)
  BY <1>2
<1>3. memory \in AllFields /\ memory' \in AllFields /\ want \in AllLabels
  BY DEF TypesInv
<1>4. \A u \in People :
        /\ file'[u] = NoUser <=> memory'[u] = NoUser
        /\ file'[u] \in {memory'[u], Missing}
        /\ memory'[u] \in Labels => file'[u] = memory'[u]
  BY <1>2, <1>3, SavedFields
<1>5. /\ memory'[v] = label /\ want'[v] = Given(label)
      /\ \A u \in People \ {v} : memory'[u] = memory[u] /\ want'[u] = want[u]
  BY <1>2, <1>3 DEF AllFields, AllLabels
<1>6. \A u \in People : /\ memory'[u] = NoUser <=> memory[u] = NoUser
                        /\ memory[u] = NoUser <=> file[u] = NoUser
  BY <1>2, <1>5, NoLabels DEF FilesInv
<1>7. want'[v] \in Labels => memory'[v] = want'[v] /\ file'[v] = want'[v]
  BY <1>4, <1>5, NoLabels DEF Given
<1>8. FilesInv'
  <2>1. ASSUME NEW u \in People \ {v}, Claimed(u)'
        PROVE  Shows(memory[u], want[u], Foreseen[u])' /\ Shows(file[u], want[u], Foreseen[u])'
    <3>1. Claimed(u) /\ want'[u] = want[u] /\ want[u] \in Labels
      BY <1>a, <1>2, <1>4, <1>5, <1>6, <2>1 DEF Claimed
    <3>2. Shows(memory[u], want[u], Foreseen[u])
      BY <1>2, <3>1 DEF FilesInv
    <3> QED
      BY <1>1, <1>2, <1>4, <1>5, <3>1, <3>2 DEF Shows
  <2>2. ASSUME Claimed(v)'
        PROVE  Shows(memory[v], want[v], Foreseen[v])' /\ Shows(file[v], want[v], Foreseen[v])'
    BY <1>7, <2>2 DEF Claimed, Shows
  <2>3. ASSUME NEW u \in People, Claimed(u)'
        PROVE  Shows(memory[u], want[u], Foreseen[u])' /\ Shows(file[u], want[u], Foreseen[u])'
    BY <2>1, <2>2, <2>3
  <2>4. ASSUME NEW u \in People, Claimed(u)', binary = "plain"
        PROVE  Foreseen'[u] = want'[u]
    <3>1. left /\ u # v
      BY <1>2, <1>a, <2>4 DEF Claimed
    <3>2. Claimed(u) /\ want'[u] = want[u]
      BY <1>a, <1>4, <1>5, <1>6, <2>4, <3>1 DEF Claimed
    <3> QED
      BY <1>1, <2>4, <3>2 DEF FilesInv
  <2> QED
    BY <1>2, <1>4, <2>3, <2>4 DEF FilesInv
<1>9. RollbackInv'
  <2>1. \A u \in People : file'[u] = NoUser <=> file[u] = NoUser
    BY <1>4, <1>6
  <2>2. upgrade.step \in {"stopped again", "put back"} =>
          \A u \in People \ unsure' : want'[u] = upgrade.want[u]
    <3>1. upgrade.step \in {"stopped again", "put back"} => left
      BY <1>2 DEF UpgradeInv
    <3> QED
      BY <1>a, <1>5, <3>1 DEF RollbackInv
  <2>3. ASSUME upgrade.step \in Recovered, NEW u \in People, Claimed(u)'
        PROVE  file'[u] = want'[u] /\ memory'[u] = want'[u]
    <3>1. CASE u = v
      BY <1>7, <2>3, <3>1 DEF Claimed
    <3>2. CASE u # v
      <4>1. Claimed(u) /\ want'[u] = want[u] /\ want[u] \in Labels
        BY <1>a, <1>2, <1>5, <2>1, <2>3, <3>2 DEF Claimed
      <4>2. memory[u] = want[u]
        BY <1>2, <2>3, <4>1 DEF RollbackInv
      <4> QED
        BY <1>4, <1>5, <3>2, <4>1, <4>2
    <3> QED
      BY <3>1, <3>2
  <2>4. UNCHANGED <<sidecar, marker, binary, running, upgrade>>
    BY <1>2
  <2>5. upgrade.step \in Recovered => \A u \in People : Claimed(u)' =>
            file'[u] = want'[u] /\ (running' # Stopped => memory'[u] = want'[u])
    BY <2>3
  <2>6. upgrade.step \in Revocable =>
          \A u \in People :
                /\ upgrade.before[u] = NoUser <=> file'[u] = NoUser
                /\ u \notin unsure' /\ upgrade.want[u] \in Labels /\ file'[u] # NoUser =>
                      /\ Shows(upgrade.before[u], upgrade.want[u], sidecar[u])
                      /\ upgrade.backup = "plain" => sidecar[u] = upgrade.want[u]
    BY <1>a, <2>1 DEF RollbackInv
  <2> QED
    BY <2>2, <2>4, <2>5, <2>6 DEF RollbackInv, Shows, Upgrading
<1> QED
  BY <1>8, <1>9

\* Nothing is said of a rollback while no upgrade is under way.
LEMMA NoRollback ==
  ASSUME ~Upgrading PROVE RollbackInv
BY DEF Upgrading, RollbackInv, Recovered, Revocable

\* The server starts, or does not, with what is in the file.
LEMMA StartKeeps ==
  ASSUME FilesInv, Foreseen' = Foreseen, UNCHANGED <<file, marker, binary, want, unsure>>,
         \/ memory' = file
         \/ UNCHANGED <<running, memory>>
         \/ running' = Stopped,
         helper'.step \in {"begun", "saved"} => running' = Stopped
  PROVE  FilesInv'
<1>1. \A u \in People : Claimed(u)' <=> Claimed(u)
  BY DEF Claimed
<1> QED
  BY <1>1 DEF FilesInv, Shows

\* An operation of the panel, from the stop of the server to the second file.
LEMMA OperationKeeps ==
  ASSUME TypesInv, FilesInv, ~Upgrading, UNCHANGED upgrade,
         RejectOperation \/ StartServer \/ WriteSidecar \/ LoseSidecar
  PROVE  FilesInv' /\ RollbackInv'
<1>0. RollbackInv'
  <2>1. ~Upgrading'
    BY DEF Upgrading
  <2> QED
    BY <2>1 DEF Upgrading, RollbackInv, Recovered, Revocable
<1>1. helper # NoOperation
  BY HelperKinds DEF RejectOperation, StartServer, WriteSidecar, LoseSidecar
<1>2. helper \in Helpers /\ NoOperation.step = "none"
  BY <1>1, HelperKinds DEF NoOperation
<1>3. CASE RejectOperation
  <2>1. Foreseen' = Foreseen
    BY <1>2, <1>3 DEF RejectOperation, Foreseen
  <2> QED
    BY <1>0, <1>2, <1>3, <2>1, StartKeeps DEF RejectOperation, FilesInv
<1>4. CASE StartServer
  <2>1. helper' = [step |-> "started", kind |-> helper.kind, user |-> helper.user,
                   name |-> helper.name, label |-> helper.label, wasActive |-> helper.wasActive]
    BY <1>2, <1>4 DEF StartServer, Helpers
  <2>2. UNCHANGED <<sidecar, marker>>
    BY <1>4 DEF StartServer
  <2>3. SidecarAfter' = SidecarAfter
    BY <2>1, <2>2 DEF SidecarAfter, Relabelled, Moved, Verified, Given
  <2>4. Foreseen' = Foreseen
    BY <1>4, <2>1, <2>3 DEF Foreseen, StartServer
  <2> QED
    BY <1>0, <1>4, <2>1, <2>4, StartKeeps DEF StartServer
<1>5. CASE WriteSidecar
  <2>1. Foreseen' = Foreseen
    BY <1>2, <1>5 DEF WriteSidecar, Foreseen
  <2> QED
    BY <1>0, <1>2, <1>5, <2>1, StartKeeps DEF WriteSidecar
<1>6. CASE LoseSidecar
  <2>1. /\ helper.step \in {"saved", "started"} /\ helper' = NoOperation
        /\ unsure' = unsure \cup {helper.user, helper.name}
        /\ UNCHANGED <<file, sidecar, marker, binary, running, memory, want>>
    BY <1>6 DEF LoseSidecar
  <2>2. Foreseen' = sidecar /\ Foreseen = SidecarAfter
    BY <1>2, <2>1 DEF Foreseen
  <2>3. ASSUME NEW u \in People, Claimed(u)'
        PROVE  Claimed(u) /\ Foreseen'[u] = Foreseen[u]
    BY <1>1, <2>1, <2>2, <2>3, SecondFile DEF Claimed
  <2> QED
    BY <1>0, <1>2, <2>1, <2>3 DEF FilesInv, Shows
<1> QED
  BY <1>3, <1>4, <1>5, <1>6

\* What FilesInv says of a user while the server is stopped.
Kept(u) == Claimed(u) => /\ Shows(file[u], want[u], Foreseen[u])
                         /\ binary = "plain" => Foreseen[u] = want[u]

\* What the transaction makes of the fields, and of what is wanted.
LEMMA OperationFields ==
  ASSUME TypesInv, helper # NoOperation
  PROVE  /\ \A u \in People \ {helper.user, helper.name} : Mutated[u] = file[u] /\ Wanted[u] = want[u]
         /\ helper.user # helper.name => Wanted[helper.user] = Missing
         /\ helper.kind \in {"create", "relabel"} =>
               Mutated[helper.name] = helper.label /\ Wanted[helper.name] = Given(helper.label)
         /\ helper.kind = "rename" =>
               Mutated[helper.name] = file[helper.user] /\ Wanted[helper.name] = want[helper.user]
         /\ helper.kind \in {"delete", "bulk delete"} => Mutated[helper.name] = NoUser
<1>1. /\ helper \in Helpers /\ helper.user \in People /\ helper.name \in People
      /\ helper.kind \in Kinds
  BY HelperKinds DEF Helpers
<1>2. /\ file \in [People -> Fields] /\ want \in [People -> Labels \cup {Missing}]
      /\ helper.kind \in {"create", "delete", "bulk delete"} => helper.name = helper.user
  BY DEF TypesInv, AllFields, AllLabels
<1>3. PICK fields : fields = [file EXCEPT ![helper.user] = NoUser]
  OBVIOUS
<1>4. PICK wants : wants = [want EXCEPT ![helper.user] = Missing]
  OBVIOUS
<1>5. /\ DOMAIN fields = People /\ DOMAIN wants = People
      /\ fields[helper.user] = NoUser /\ wants[helper.user] = Missing
      /\ \A u \in People \ {helper.user} : fields[u] = file[u] /\ wants[u] = want[u]
  BY <1>1, <1>2, <1>3, <1>4
<1>6. CASE helper.kind = "create"
  <2>1. /\ Mutated = [file EXCEPT ![helper.user] = helper.label]
        /\ Wanted = [want EXCEPT ![helper.user] = Given(helper.label)]
    BY <1>6 DEF Mutated, Wanted
  <2> QED
    BY <1>1, <1>2, <1>6, <2>1
<1>7. CASE helper.kind = "relabel"
  <2>1. /\ Mutated = [fields EXCEPT ![helper.name] = helper.label]
        /\ Wanted = [wants EXCEPT ![helper.name] = Given(helper.label)]
    BY <1>3, <1>4, <1>7 DEF Mutated, Wanted
  <2> QED
    BY <1>1, <1>5, <1>7, <2>1
<1>8. CASE helper.kind = "rename"
  <2>1. /\ Mutated = [fields EXCEPT ![helper.name] = file[helper.user]]
        /\ Wanted = [wants EXCEPT ![helper.name] = want[helper.user]]
    BY <1>3, <1>4, <1>8 DEF Mutated, Wanted
  <2> QED
    BY <1>1, <1>5, <1>8, <2>1
<1>9. CASE helper.kind \in {"delete", "bulk delete"}
  <2>1. Mutated = fields /\ Wanted = wants
    BY <1>3, <1>4, <1>9 DEF Mutated, Wanted
  <2> QED
    BY <1>1, <1>2, <1>5, <1>9, <2>1
<1> QED
  BY <1>1, <1>6, <1>7, <1>8, <1>9 DEF Kinds

\* The transaction gives one user a label, or the label of another, and says so.
LEMMA ReplaceKeeps ==
  ASSUME TypesInv, TypesInv', FilesInv, ~Upgrading, UNCHANGED upgrade, ReplaceDatabase
  PROVE  FilesInv' /\ RollbackInv'
<1>0. RollbackInv'
  <2>1. ~Upgrading'
    BY DEF Upgrading
  <2> QED
    BY <2>1 DEF Upgrading, RollbackInv, Recovered, Revocable
<1>1. helper # NoOperation /\ running = Stopped
  BY HelperKinds DEF ReplaceDatabase, FilesInv
<1>2. /\ helper \in Helpers /\ helper.user \in People /\ helper.name \in People
      /\ helper.label \in Labels \cup {Blank}
  BY <1>1, HelperKinds
<1>3. /\ file \in AllFields /\ want \in AllLabels /\ sidecar \in AllLabels
      /\ helper.kind \in {"create", "delete", "bulk delete"} => helper.name = helper.user
  BY DEF TypesInv
<1>4. helper' = [step |-> "saved", kind |-> helper.kind, user |-> helper.user,
                 name |-> helper.name, label |-> helper.label, wasActive |-> helper.wasActive]
  BY <1>2 DEF ReplaceDatabase, Helpers
<1>5. /\ file' = Mutated /\ want' = Wanted
      /\ unsure \subseteq unsure'
      /\ helper.kind = "rename" /\ helper.user \in unsure => helper.name \in unsure'
      /\ UNCHANGED <<sidecar, marker, binary, running, memory>>
  BY DEF ReplaceDatabase
<1>6. Foreseen = sidecar /\ Foreseen' = SidecarAfter
  <2>1. SidecarAfter' = SidecarAfter
    BY <1>4, <1>5 DEF SidecarAfter, Relabelled, Moved, Verified, Given
  <2> QED
    BY <1>4, <2>1 DEF Foreseen, ReplaceDatabase
<1>7. /\ Given(helper.label) \in Labels \cup {Missing}
      /\ Given(helper.label) \in Labels => Given(helper.label) = helper.label
  BY <1>2, NoLabels DEF Given
<1>a. PICK user \in People, name \in People : user = helper.user /\ name = helper.name
  BY <1>2
<1>8. ASSUME NEW u \in People \ {user, name}
      PROVE  Kept(u)'
  <2>1. file'[u] = file[u] /\ want'[u] = want[u]
    BY <1>a, <1>1, <1>5, <1>8, OperationFields
  <2>2. Foreseen'[u] = Foreseen[u]
    BY <1>a, <1>1, <1>6, <1>8, SecondFile
  <2> QED
    BY <1>5, <2>1, <2>2 DEF FilesInv, Kept, Claimed, Shows
<1>9. user # name => Kept(user)'
  <2>1. user # name => want'[user] = Missing
    BY <1>a, <1>1, <1>5, OperationFields
  <2> QED
    BY <2>1, NoLabels DEF Kept, Claimed
<1>10. Kept(name)'
  <2>1. CASE helper.kind \in {"create", "relabel"}
    <3>1. file'[name] = helper.label /\ want'[name] = Given(helper.label)
      BY <1>a, <1>1, <1>5, <2>1, OperationFields
    <3>2. ASSUME binary = "plain" PROVE Foreseen'[name] = Given(helper.label)
      <4>1. ~Verified
        BY <3>2 DEF FilesInv, Verified
      <4>2. SidecarAfter = Relabelled
        BY <2>1, <4>1 DEF SidecarAfter
      <4>3. Relabelled[name] = Given(helper.label)
        BY <1>a, <1>2, <1>3 DEF Relabelled, AllLabels
      <4> QED
        BY <1>a, <1>6, <4>2, <4>3
    <3> QED
      BY <1>5, <1>a, <1>7, <3>1, <3>2 DEF Kept, Claimed, Shows
  <2>2. CASE helper.kind = "rename"
    <3>1. file'[name] = file[user] /\ want'[name] = want[user]
      BY <1>a, <1>1, <1>5, <2>2, OperationFields
    <3>2. Claimed(name)' => Claimed(user)
      BY <1>a, <1>2, <1>5, <2>2, <3>1 DEF Kept, Claimed
    <3>3. SidecarAfter = Moved
      BY <2>2 DEF SidecarAfter
    <3>4. sidecar[user] # Missing => Moved[name] = sidecar[user]
      BY <1>a, <1>2, <1>3 DEF Moved, AllLabels
    <3>5. Claimed(user) /\ sidecar[user] = want[user] =>
             Foreseen'[name] = want[user]
      BY <1>a, <1>6, <3>3, <3>4, NoLabels DEF Kept, Claimed
    <3> QED
      BY <1>a, <1>2, <1>5, <1>6, <3>1, <3>2, <3>5 DEF FilesInv, Kept, Claimed, Shows
  <2>3. CASE helper.kind \in {"delete", "bulk delete"}
    <3>1. file'[name] = NoUser
      BY <1>a, <1>1, <1>5, <2>3, OperationFields
    <3> QED
      BY <3>1 DEF Kept, Claimed
  <2> QED
    BY <1>a, <1>2, <2>1, <2>2, <2>3 DEF Helpers, Kinds
<1>11. \A u \in People : Kept(u)'
  BY <1>a, <1>8, <1>9, <1>10
<1> QED
  BY <1>0, <1>1, <1>5, <1>11 DEF FilesInv, Kept

\* The first step of an operation stops the server; an upgrade may be under way.
LEMMA BeginKeeps ==
  ASSUME TypesInv, TypesInv', FilesInv, RollbackInv, BeginOperation, UNCHANGED upgrade
  PROVE  FilesInv' /\ RollbackInv'
<1>1. /\ helper = NoOperation /\ running' = Stopped
      /\ UNCHANGED <<file, sidecar, marker, binary, memory, want, unsure, upgrade>>
  BY DEF BeginOperation
<1>2. PICK request \in Requests : helper' = [request EXCEPT !.wasActive = (running # Stopped)]
  BY DEF BeginOperation
<1>3. helper'.step = "begun"
  BY <1>2 DEF Requests
<1>4. Foreseen = sidecar /\ Foreseen' = sidecar'
  BY <1>1, <1>3 DEF Foreseen, NoOperation
<1>5. FilesInv'
  BY <1>1, <1>4, StartKeeps
<1>6. \A u \in People : Claimed(u)' <=> Claimed(u)
  BY <1>1 DEF Claimed
<1> QED
  BY <1>1, <1>5, <1>6 DEF RollbackInv, Shows, Upgrading

\* The server is started by hand.
LEMMA HandKeeps ==
  ASSUME FilesInv, StartByHand, UNCHANGED upgrade
  PROVE  FilesInv' /\ RollbackInv'
<1>1. Foreseen' = Foreseen
  BY ForeseenStays DEF StartByHand
<1>2. ~Upgrading'
  BY DEF StartByHand, Upgrading
<1>3. RollbackInv'
  BY <1>2 DEF Upgrading, RollbackInv, Recovered, Revocable
<1>4. helper' = NoOperation /\ NoOperation.step = "none"
  BY DEF StartByHand, NoOperation
<1> QED
  BY <1>1, <1>3, <1>4, StartKeeps DEF StartByHand

\* What a step of the installer makes of what it remembers.
LEMMA Continued ==
  ASSUME upgrade \in Upgrades, NEW step, Continue(step)
  PROVE  /\ upgrade'.step = step /\ upgrade'.backup = upgrade.backup
         /\ upgrade'.wasActive = upgrade.wasActive
         /\ upgrade'.before = upgrade.before /\ upgrade'.want = upgrade.want
BY DEF Continue, Upgrades

\* The installer up to its copy of the database.
LEMMA SavingKeeps ==
  ASSUME TypesInv, TypesInv', UpgradeInv, FilesInv, RollbackInv, ~Met,
         SaveBinary \/ StopOldServer \/ CopyDatabase
  PROVE  FilesInv' /\ RollbackInv'
<1>0. upgrade \in Upgrades /\ file \in AllFields
  BY DEF TypesInv
<1>1. UNCHANGED <<file, sidecar, marker, binary, memory, helper, want, unsure>>
  BY DEF SaveBinary, StopOldServer, CopyDatabase, labelsVars
<1>2. Foreseen' = Foreseen
  BY <1>1, ForeseenStays
<1>3. \A u \in People : Claimed(u)' <=> Claimed(u)
  BY <1>1 DEF Claimed
<1>4. running' = running \/ running' = Stopped
  BY DEF SaveBinary, StopOldServer, CopyDatabase, labelsVars
<1>5. FilesInv'
  BY <1>1, <1>2, <1>4, StartKeeps DEF FilesInv
<1>6. CASE SaveBinary
  <2>1. upgrade'.step = "binary saved" /\ upgrade'.backup = binary
    BY <1>6 DEF SaveBinary, NoUpgrade
  <2> QED
    BY <1>1, <1>5, <2>1 DEF RollbackInv, Recovered, Revocable, Upgrading, FilesInv
<1>7. CASE StopOldServer
  <2>1. upgrade.step = "binary saved" /\ upgrade'.step = "stopped" /\ upgrade'.backup = upgrade.backup
    BY <1>0, <1>7 DEF StopOldServer, Upgrades
  <2> QED
    BY <1>1, <1>5, <2>1 DEF RollbackInv, Recovered, Revocable, Upgrading
<1>8. CASE CopyDatabase
  <2>1. /\ upgrade.step = "stopped" /\ upgrade'.step = "copied"
        /\ upgrade'.backup = upgrade.backup /\ upgrade'.before = file /\ upgrade'.want = want
    BY <1>0, <1>8 DEF CopyDatabase, Upgrades
  <2>2. Foreseen = sidecar /\ binary = upgrade.backup
    BY <2>1 DEF Met, Upgrading, Foreseen, NoOperation, RollbackInv
  <2>3. ASSUME NEW u \in People, u \notin unsure, want[u] \in Labels, file[u] # NoUser
        PROVE  /\ Shows(file[u], want[u], sidecar[u])
               /\ upgrade.backup = "plain" => sidecar[u] = want[u]
    BY <2>2, <2>3 DEF FilesInv, Claimed
  <2>4. upgrade.backup = "plain" => marker = "none"
    BY <2>1 DEF RollbackInv, Upgrading
  <2>5. upgrade'.step \notin Recovered /\ upgrade'.step \notin {"stopped again", "put back"}
    BY <2>1 DEF Recovered
  <2> QED
    BY <1>1, <1>5, <2>1, <2>3, <2>4, <2>5 DEF RollbackInv, Upgrading, Shows
<1> QED
  BY <1>6, <1>7, <1>8

\* Every label that a file shows is in the database after the recovery.
LEMMA RecoverKeeps ==
  ASSUME TypesInv, TypesInv', UpgradeInv, FilesInv, RollbackInv, ~Met, RecoverLabels
  PROVE  FilesInv' /\ RollbackInv'
<1>0. upgrade \in Upgrades /\ file \in AllFields /\ sidecar \in AllLabels /\ copied \in [People -> SUBSET Labels]
  BY DEF TypesInv
<1>1. /\ UNCHANGED <<sidecar, marker, binary, running, memory, helper, want, unsure>>
      /\ upgrade.step = "copied" /\ running = Stopped
      /\ Continue("recovered")
  BY DEF RecoverLabels, UpgradeInv, WithServerStopped
<1>2. /\ upgrade'.step = "recovered" /\ upgrade'.backup = upgrade.backup
      /\ upgrade'.before = upgrade.before /\ upgrade'.want = upgrade.want
  BY <1>0, <1>1, Continued
<1>3. Foreseen = sidecar /\ Foreseen' = sidecar'
  BY <1>1 DEF Met, Upgrading, Foreseen, NoOperation
<1>4. PICK found \in [People -> Labels \cup {Missing}] :
          file' = [u \in People |->
                 IF file[u] \in Labels \cup {NoUser} THEN file[u]
                 ELSE IF sidecar[u] # Missing THEN sidecar[u]
                 ELSE IF found[u] # Missing THEN found[u] ELSE file[u]]
  BY DEF RecoverLabels
<1>5. ASSUME NEW u \in People
      PROVE  /\ file'[u] = NoUser <=> file[u] = NoUser
             /\ file[u] \in Labels => file'[u] = file[u]
             /\ file[u] \in {Missing, Blank} /\ sidecar[u] \in Labels => file'[u] = sidecar[u]
  BY <1>0, <1>4, NoLabels DEF AllLabels, AllFields
<1>6. ASSUME NEW u \in People, Claimed(u)'
      PROVE  Claimed(u) /\ file'[u] = want[u]
  <2>1. Claimed(u) /\ want[u] \in Labels
    BY <1>1, <1>5, <1>6 DEF Claimed
  <2> QED
    BY <1>3, <1>5, <2>1 DEF FilesInv, Shows
<1>7. FilesInv'
  BY <1>1, <1>3, <1>6 DEF FilesInv, Shows
<1>8. RollbackInv'
  BY <1>1, <1>2, <1>5, <1>6 DEF RollbackInv, Shows, Upgrading, Revocable
<1> QED
  BY <1>7, <1>8

\* The new binary, and the server that may run it.
LEMMA SwapKeeps ==
  ASSUME TypesInv, TypesInv', UpgradeInv, FilesInv, RollbackInv, ~Met,
         SwapBinary \/ StartNewServer
  PROVE  FilesInv' /\ RollbackInv'
<1>0. upgrade \in Upgrades
  BY DEF TypesInv
<1>1. UNCHANGED <<file, sidecar, marker, helper, want, unsure>>
  BY DEF SwapBinary, StartNewServer
<1>2. Foreseen' = Foreseen
  BY <1>1, ForeseenStays
<1>3. \A u \in People : Claimed(u)' <=> Claimed(u)
  BY <1>1 DEF Claimed
<1>4. CASE SwapBinary
  <2>1. /\ upgrade.step = "recovered" /\ Continue("swapped")
        /\ binary' = "v10" /\ UNCHANGED <<running, memory>>
    BY <1>4 DEF SwapBinary
  <2>2. /\ upgrade'.step = "swapped" /\ upgrade'.backup = upgrade.backup
        /\ upgrade'.before = upgrade.before /\ upgrade'.want = upgrade.want
    BY <1>0, <2>1, Continued
  <2>3. FilesInv'
    BY <1>1, <1>2, <1>3, <2>1 DEF FilesInv, Shows
  <2>4. upgrade.step \in Recovered \cap Revocable
    BY <2>1 DEF Recovered, Revocable
  <2>5. RollbackInv'
    BY <1>1, <1>3, <2>1, <2>2, <2>4 DEF RollbackInv, Shows, Upgrading
  <2> QED
    BY <2>3, <2>5
<1>5. CASE StartNewServer
  <2>1. /\ upgrade.step = "swapped" /\ Continue("started") /\ binary' = binary
        /\ memory' = file \/ UNCHANGED <<running, memory>>
    BY <1>5 DEF StartNewServer
  <2>2. /\ upgrade'.step = "started" /\ upgrade'.backup = upgrade.backup
        /\ upgrade'.before = upgrade.before /\ upgrade'.want = upgrade.want
    BY <1>0, <2>1, Continued
  <2>3. helper = NoOperation /\ NoOperation.step = "none"
    BY <2>1 DEF Met, Upgrading, NoOperation
  <2>4. FilesInv'
    BY <1>1, <1>2, <2>1, <2>3, StartKeeps
  <2>5. upgrade.step \in Recovered \cap Revocable
    BY <2>1 DEF Recovered, Revocable
  <2>6. RollbackInv'
    BY <1>1, <1>3, <2>1, <2>2, <2>5 DEF RollbackInv, Shows, Upgrading
  <2> QED
    BY <2>4, <2>6
<1> QED
  BY <1>4, <1>5

\* The second file is removed, and the state file written, when every label is in
\* the database and the server has read it.
LEMMA VerifyKeeps ==
  ASSUME TypesInv, TypesInv', UpgradeInv, FilesInv, RollbackInv, ~Met,
         CheckPassed \/ WriteMarker
  PROVE  FilesInv' /\ RollbackInv'
<1>0. upgrade \in Upgrades
  BY DEF TypesInv
<1>1. /\ UNCHANGED <<file, binary, running, memory, helper, want, unsure>>
      /\ upgrade.step \in {"started", "checked"} /\ binary = "v10"
  BY DEF CheckPassed, WriteMarker, RollbackInv
<1>2. helper = NoOperation /\ NoOperation.step = "none"
  BY <1>1 DEF Met, Upgrading, NoOperation
<1>3. \A u \in People : Claimed(u)' <=> Claimed(u)
  BY <1>1 DEF Claimed
<1>4. \A u \in People : Claimed(u) =>
          file[u] = want[u] /\ (running # Stopped => memory[u] = want[u])
  BY <1>1 DEF RollbackInv, Recovered
<1>5. FilesInv'
  BY <1>1, <1>2, <1>3, <1>4 DEF FilesInv, Shows
<1>6. CASE CheckPassed
  <2>1. /\ upgrade.step = "started" /\ Continue("checked") /\ marker' = marker
    BY <1>6 DEF CheckPassed
  <2>2. upgrade'.step = "checked" /\ upgrade'.backup = upgrade.backup
    BY <1>0, <2>1, Continued
  <2> QED
    BY <1>1, <1>3, <1>4, <1>5, <2>1, <2>2 DEF RollbackInv, Revocable, Upgrading
<1>7. CASE WriteMarker
  <2>1. ~Upgrading'
    BY <1>7 DEF WriteMarker, Upgrading, NoUpgrade
  <2> QED
    BY <1>5, <2>1 DEF Upgrading, RollbackInv, Recovered, Revocable
<1> QED
  BY <1>6, <1>7

\* The rollback: the server is stopped, then the binary and the database are put
\* back, and the second file is still the one there was.
LEMMA RollbackKeeps ==
  ASSUME TypesInv, TypesInv', UpgradeInv, FilesInv, RollbackInv, ~Met,
         CheckFailed \/ PutBackBinary \/ PutBackDatabase
  PROVE  FilesInv' /\ RollbackInv'
<1>0. upgrade \in Upgrades /\ upgrade.step \in Revocable /\ Upgrading
  BY DEF TypesInv, CheckFailed, PutBackBinary, PutBackDatabase, Revocable, Upgrading
<1>1. UNCHANGED <<sidecar, marker, helper, want>>
  BY DEF CheckFailed, PutBackBinary, PutBackDatabase
<1>2. Foreseen = sidecar /\ Foreseen' = sidecar' /\ helper.step = "none"
  BY <1>0, <1>1 DEF Met, Foreseen, NoOperation
<1>3. \A u \in People :
        /\ upgrade.before[u] = NoUser <=> file[u] = NoUser
        /\ u \notin unsure /\ upgrade.want[u] \in Labels /\ file[u] # NoUser =>
              /\ Shows(upgrade.before[u], upgrade.want[u], sidecar[u])
              /\ upgrade.backup = "plain" => sidecar[u] = upgrade.want[u]
  BY <1>0 DEF RollbackInv
<1>4. CASE CheckFailed
  <2>1. /\ upgrade.step = "started" /\ Continue("stopped again")
        /\ running' = Stopped \/ running' = running
        /\ unsure' = unsure \cup {u \in People : want[u] # upgrade.want[u]}
        /\ UNCHANGED <<file, binary, memory>>
    BY <1>4 DEF CheckFailed
  <2>2. /\ upgrade'.step = "stopped again" /\ upgrade'.backup = upgrade.backup
        /\ upgrade'.before = upgrade.before /\ upgrade'.want = upgrade.want
    BY <1>0, <2>1, Continued
  <2>3. \A u \in People : Claimed(u)' => Claimed(u)
    BY <1>1, <2>1 DEF Claimed
  <2>4. FilesInv'
    BY <1>1, <1>2, <2>1, <2>3 DEF FilesInv, Shows
  <2>5. \A u \in People \ unsure' : want[u] = upgrade.want[u]
    BY <2>1
  <2>6. \A u \in People : Claimed(u)' => file[u] = want[u]
    BY <2>1, <2>3 DEF RollbackInv, Recovered
  <2>7. binary = "v10" /\ (upgrade.backup = "plain" => marker = "none")
    BY <1>0, <2>1 DEF RollbackInv
  <2>8. \A u \in People : u \notin unsure' => u \notin unsure
    BY <2>1
  <2>9. \A u \in People : Claimed(u)' /\ running' # Stopped => memory'[u] = want[u]
    BY <2>1, <2>3 DEF RollbackInv, Recovered
  <2> QED
    BY <1>1, <1>3, <2>1, <2>2, <2>4, <2>5, <2>6, <2>7, <2>8, <2>9 DEF RollbackInv, Shows, Upgrading
<1>5. CASE PutBackBinary
  <2>1. /\ upgrade.step = "stopped again" /\ Continue("put back") /\ binary' = upgrade.backup
        /\ UNCHANGED <<file, running, memory, unsure>>
    BY <1>5 DEF PutBackBinary
  <2>2. /\ upgrade'.step = "put back" /\ upgrade'.backup = upgrade.backup
        /\ upgrade'.before = upgrade.before /\ upgrade'.want = upgrade.want
    BY <1>0, <2>1, Continued
  <2>3. \A u \in People : Claimed(u)' <=> Claimed(u)
    BY <1>1, <2>1 DEF Claimed
  <2>4. \A u \in People \ unsure : want[u] = upgrade.want[u]
    BY <2>1 DEF RollbackInv
  <2>5. upgrade.backup = "plain" => marker = "none"
    BY <1>0 DEF RollbackInv
  <2>6. ASSUME NEW u \in People, Claimed(u), upgrade.backup = "plain"
        PROVE  sidecar[u] = want[u]
    BY <1>3, <2>4, <2>6 DEF Claimed
  <2>7. FilesInv'
    BY <1>1, <1>2, <2>1, <2>3, <2>5, <2>6 DEF FilesInv, Shows
  <2>8. upgrade'.step \notin Recovered
    BY <2>2 DEF Recovered
  <2> QED
    BY <1>1, <1>3, <2>1, <2>2, <2>4, <2>5, <2>7, <2>8 DEF RollbackInv, Shows, Upgrading
<1>6. CASE PutBackDatabase
  <2>1. /\ upgrade.step = "put back" /\ upgrade' = NoUpgrade /\ file' = upgrade.before
        /\ UNCHANGED <<binary, unsure>>
        /\ memory' = file' \/ UNCHANGED <<running, memory>>
    BY <1>6 DEF PutBackDatabase
  <2>2. \A u \in People \ unsure : want[u] = upgrade.want[u]
    BY <2>1 DEF RollbackInv
  <2>3. ASSUME NEW u \in People, Claimed(u)'
        PROVE  Claimed(u) /\ Shows(file'[u], want[u], sidecar[u])
    <3>1. u \notin unsure /\ want[u] \in Labels /\ upgrade.before[u] # NoUser
      BY <1>1, <2>1, <2>3 DEF Claimed
    <3> QED
      BY <1>3, <2>1, <2>2, <3>1 DEF Claimed
  <2>4. \A u \in People : Claimed(u)' =>
            /\ Shows(file'[u], want[u], sidecar[u])
            /\ binary = "plain" => sidecar[u] = want[u]
    BY <1>2, <2>3 DEF FilesInv
  <2>7. ASSUME running' # Stopped, memory' # file'
        PROVE  \A u \in People : /\ memory'[u] = NoUser <=> file'[u] = NoUser
                                 /\ Claimed(u)' => Shows(memory'[u], want[u], sidecar[u])
    <3>1. running # Stopped /\ memory' = memory
      BY <2>1, <2>7
    <3>2. \A u \in People : memory[u] = NoUser <=> file'[u] = NoUser
      BY <1>3, <2>1, <3>1 DEF FilesInv
    <3>3. \A u \in People : Claimed(u) => Shows(memory[u], want[u], sidecar[u])
      BY <1>2, <3>1 DEF FilesInv
    <3> QED
      BY <2>3, <3>1, <3>2, <3>3
  <2>5. FilesInv'
    BY <1>1, <1>2, <2>1, <2>4, <2>7 DEF FilesInv, Shows
  <2>6. ~Upgrading'
    BY <2>1 DEF Upgrading, NoUpgrade
  <2> QED
    BY <2>5, <2>6 DEF Upgrading, RollbackInv, Recovered, Revocable
<1> QED
  BY <1>4, <1>5, <1>6

\* Wherever the installer ends, it leaves what was there.
LEMMA InterruptKeeps ==
  ASSUME FilesInv, Interrupted PROVE FilesInv' /\ RollbackInv'
<1>1. UNCHANGED labelsVars /\ ~Upgrading'
  BY DEF Interrupted, Upgrading, NoUpgrade
<1>2. Foreseen' = Foreseen
  BY <1>1, ForeseenStays DEF labelsVars
<1>3. FilesInv'
  BY <1>1, <1>2, StartKeeps DEF labelsVars, FilesInv
<1> QED
  BY <1>1, <1>3 DEF Upgrading, RollbackInv, Recovered, Revocable

\* Every label is in a file that shows it, in every reachable state.
THEOREM LabelsInvariant == UpgradeSpec => [](FilesInv /\ RollbackInv)
<1>1. UpgradeInit => FilesInv /\ RollbackInv
  <2> SUFFICES ASSUME UpgradeInit PROVE FilesInv /\ RollbackInv
    OBVIOUS
  <2>1. ~Upgrading /\ memory = file /\ want = [u \in People |-> Missing] /\ helper = NoOperation
    BY DEF UpgradeInit, LabelsInit, Upgrading, NoUpgrade
  <2>2. \A u \in People : ~Claimed(u)
    BY <2>1, NoLabels DEF Claimed
  <2>3. binary = "plain" => marker = "none"
    BY DEF UpgradeInit, LabelsInit
  <2> QED
    BY <2>1, <2>2, <2>3, NoRollback DEF FilesInv, NoOperation
<1>2. /\ TypesInv /\ TypesInv' /\ UpgradeInv /\ FilesInv /\ RollbackInv
      /\ [UpgradeNext]_upgradeVars
      => FilesInv' /\ RollbackInv'
  <2> SUFFICES ASSUME TypesInv, TypesInv', UpgradeInv, FilesInv, RollbackInv,
                      [UpgradeNext]_upgradeVars
               PROVE  FilesInv' /\ RollbackInv'
    OBVIOUS
  <2>1. CASE UNCHANGED upgradeVars
    <3>1. UNCHANGED <<file, sidecar, marker, binary, running, memory, helper, want, unsure, upgrade>>
      BY <2>1 DEF upgradeVars, labelsVars
    <3>2. Foreseen' = Foreseen
      BY <3>1, ForeseenStays
    <3>3. \A u \in People : Claimed(u)' <=> Claimed(u)
      BY <3>1 DEF Claimed
    <3> QED
      BY <3>1, <3>2, <3>3 DEF FilesInv, RollbackInv, Shows, Upgrading
  <2>2. CASE LabelsNext /\ ~Met /\ UNCHANGED upgrade
    <3>1. helper # NoOperation => ~Upgrading
      BY <2>2 DEF Met
    <3>2. CASE SaveDatabase
      BY <2>2, <3>2, SaveKeeps
    <3>3. ASSUME NEW u \in People, NEW label \in Labels \cup {Blank}, BotLabel(u, label)
          PROVE  FilesInv' /\ RollbackInv'
      BY <2>2, <3>3, BotKeeps
    <3>4. CASE BeginOperation
      BY <2>2, <3>4, BeginKeeps
    <3>5. CASE RejectOperation \/ StartServer \/ WriteSidecar \/ LoseSidecar
      <4>1. helper # NoOperation
        BY <3>5, HelperKinds DEF RejectOperation, StartServer, WriteSidecar, LoseSidecar
      <4> QED
        BY <2>2, <3>1, <3>5, <4>1, OperationKeeps
    <3>6. CASE ReplaceDatabase
      <4>1. helper # NoOperation
        BY <3>6, HelperKinds DEF ReplaceDatabase
      <4> QED
        BY <2>2, <3>1, <3>6, <4>1, ReplaceKeeps
    <3> QED
      BY <2>2, <3>2, <3>3, <3>4, <3>5, <3>6 DEF LabelsNext
  <2>3. CASE StartByHand /\ UNCHANGED upgrade
    BY <2>3, HandKeeps
  <2>4. CASE InstallerNext /\ ~Met
    BY <2>4, SavingKeeps, RecoverKeeps, SwapKeeps, VerifyKeeps, RollbackKeeps, InterruptKeeps
    DEF InstallerNext
  <2> QED
    BY <2>1, <2>2, <2>3, <2>4 DEF UpgradeNext
<1> QED
  BY <1>1, <1>2, LabelsTyped, BinaryKnown, PTL DEF UpgradeSpec

\* update_user, update_panel_label, install_wdtt_extensions: whenever nothing is under
\* way, the panel shows the label every user has been given last.
THEOREM LabelsAlwaysKept == UpgradeSpec => []LabelsKept
<1>1. TypesInv /\ FilesInv => LabelsKept
  <2> SUFFICES ASSUME TypesInv, FilesInv, Settled,
                      NEW u \in People \ unsure, file[u] # NoUser, want[u] # Missing
               PROVE  Shown(u) = want[u]
    BY DEF LabelsKept
  <2>1. want[u] \in Labels /\ Foreseen = sidecar
    BY DEF TypesInv, AllLabels, Settled, Foreseen, NoOperation
  <2>2. Shows(file[u], want[u], sidecar[u])
    BY <2>1 DEF FilesInv, Claimed
  <2> QED
    BY <2>1, <2>2, NoLabels DEF Shows, Shown, Verified
<1> QED
  BY <1>1, LabelsTyped, LabelsInvariant, PTL

\* The labels, the server and the upgrade are well typed in every reachable state.
THEOREM UpgradeTyped == UpgradeSpec => []UpgradeTypeOK
<1> DEFINE Bounded == operations \in 0..MaxOperations
<1>0. MaxOperations \in Nat
  BY LabelsAssumption, Zenon
<1>1. UpgradeInit => Bounded
  BY <1>0 DEF UpgradeInit, LabelsInit
<1>2. Bounded /\ [UpgradeNext]_upgradeVars => Bounded'
  <2> SUFFICES ASSUME Bounded, [UpgradeNext]_upgradeVars
               PROVE  Bounded'
    OBVIOUS
  <2>1. \/ operations' = operations
        \/ operations < MaxOperations /\ operations' = operations + 1
    <3>1. CASE UNCHANGED upgradeVars
      BY <3>1 DEF upgradeVars, labelsVars
    <3>2. CASE LabelsNext
      BY <3>2 DEF LabelsNext, SaveDatabase, BotLabel, BeginOperation, RejectOperation,
         ReplaceDatabase, StartServer, WriteSidecar, LoseSidecar
    <3>3. CASE InstallerNext
      BY <3>3 DEF InstallerNext, SaveBinary, StopOldServer, CopyDatabase, RecoverLabels,
         SwapBinary, StartNewServer, CheckPassed, WriteMarker, CheckFailed, PutBackBinary,
         PutBackDatabase, Interrupted, labelsVars
    <3>4. CASE StartByHand
      BY <3>4 DEF StartByHand
    <3> QED BY <3>1, <3>2, <3>3, <3>4 DEF UpgradeNext
  <2> QED BY <1>0, <2>1
<1>3. TypesInv /\ UpgradeInv /\ Bounded => UpgradeTypeOK
  <2> SUFFICES ASSUME TypesInv, UpgradeInv, Bounded
               PROVE  UpgradeTypeOK
    OBVIOUS
  <2>1. helper.step \in {"none", "begun", "saved", "started"}
    <3>1. NoOperation.step = "none"
      BY DEF NoOperation
    <3>2. \A h \in Helpers : h.step \in {"begun", "saved", "started"}
      BY DEF Helpers
    <3>3. helper = NoOperation \/ helper \in Helpers
      BY DEF TypesInv
    <3> QED BY <3>1, <3>2, <3>3
  <2>2. upgrade.step \in UpgradeSteps
    BY DEF TypesInv, Upgrades
  <2>3. running \in {"plain", "v9", "v10", Stopped}
    BY DEF TypesInv, UpgradeInv, Binaries
  <2>4. left \in BOOLEAN
    BY DEF UpgradeInv
  <2> QED BY <2>1, <2>2, <2>3, <2>4 DEF UpgradeTypeOK, LabelsTypeOK, TypesInv, AllFields, AllLabels,
         Binaries, UpgradeSteps
<1> QED BY <1>1, <1>2, <1>3, LabelsTyped, BinaryKnown, PTL DEF UpgradeSpec
=============================================================================
