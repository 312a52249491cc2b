------------------------------- MODULE Backups -------------------------------
(***************************************************************************)
(* Copies of the panel's data: the automatic ones before each change of    *)
(* the database, those an administrator takes, uploads, deletes and        *)
(* restores, and those the timer takes; the schedule of that timer.        *)
(*                                                                         *)
(* An operation holds the helper's lock and is a sequence of steps (After),*)
(* one for each file it replaces and each command; it can break off before *)
(* each of them, with an exception or because the helper is killed.        *)
(***************************************************************************)
EXTENDS Naturals, FiniteSets

CONSTANTS
    Versions,      \* what the users, the labels and the other settings may be
    MaxKeep,       \* a schedule keeps 1 to MaxKeep copies (100 in the code)
    DefaultKeep,   \* what it keeps by default (14)
    KeepAutomatic, \* automatic copies that are kept (50)
    MaxTraffic, MaxRequests, MaxFaults, \* bounds of the model
    MaxMade        \* the timer elapses only while fewer copies have been made

ASSUME ConstantsAssumption ==
    /\ MaxKeep \in Nat \ {0}
    /\ DefaultKeep \in 1..MaxKeep
    /\ KeepAutomatic \in Nat \ {0}
    /\ {MaxTraffic, MaxRequests, MaxFaults, MaxMade} \subseteq Nat

VARIABLES
    live,     \* the files a full copy is made of
    unsaved,  \* traffic that wdtt-server has counted and not saved
    copies,   \* the files in BACKUP_DIR
    made,     \* how many there have been
    timer,    \* the units of the timer: on disk, as systemd knows them, enabled
    fired,    \* the job the timer has started, which waits for the lock
    op,       \* the operation that holds the lock, "none" if it is free
    step,     \* the step it takes next
    plan,     \* what it is going to write
    undo,     \* the safety copy of the last restore, 0 if there is none
    before,   \* the files when that restore began
    deleted,  \* has an administrator deleted full copies
    requests, faults \* so far

store == <<live, unsaved>>
directory == <<copies, made>>
schedule == <<timer, fired>>
helper == <<op, step, plan>>
history == <<undo, before, deleted>>
vars == <<store, directory, schedule, helper, history, requests, faults>>

Kinds == {"users", "full"}

\* "others" is the legacy cascade, the state of the extension and the WARP profile.
Parts == {"database", "labels", "xray", "cascade", "others", "schedule"}

PartsOf(kind) == IF kind = "full" THEN Parts ELSE {"database", "labels"}

Schedules == [on : BOOLEAN, kind : Kinds, keep : 1..MaxKeep]

DefaultSchedule == [on |-> FALSE, kind |-> "full", keep |-> DefaultKeep]

Databases == [users : Versions, traffic : 0..MaxTraffic]

\* Settings of Xray that a cascade goes with, and others.
XraySettings == {"plain", "gateway"}

Values ==
    [p \in Parts |-> CASE p = "database" -> Databases
                      [] p = "xray"     -> XraySettings
                      [] p = "cascade"  -> BOOLEAN
                      [] p = "schedule" -> Schedules
                      [] OTHER          -> Versions]

\* What a file of backup format, an old copy of the database, or a plan holds.
IsData(d) == /\ DOMAIN d \in {{}, {"database"}, {"schedule"}, PartsOf("users"), Parts}
             /\ \A p \in DOMAIN d : d[p] \in Values[p]

NoPlan == [p \in {} |-> 0]

\* validate_full_backup: the configuration of Xray could be built.
Acceptable(d) ==
    {"xray", "cascade"} \subseteq DOMAIN d => ~(d["cascade"] /\ d["xray"] = "gateway")

Steps == { "idle", "safety", "stop", "automatic", "copy", "prune", "database", "labels",
           "xray", "cascade", "others", "schedule", "units", "disable", "unlink", "reload",
           "enable", "end" }

Operations == {"none", "change", "create", "scheduled", "schedule", "restore"}

TypeOK ==
    /\ IsData(live) /\ DOMAIN live = Parts
    /\ unsaved \in 0..MaxTraffic
    /\ \A c \in copies :
         /\ c.stamp \in 1..made
         /\ c.prefix \in {"passwords", "users", "panel"}
         /\ c.label \in {"automatic", "manual", "scheduled", "uploaded"}
         /\ IsData(c.data) /\ "database" \in DOMAIN c.data
         /\ c.prefix = "panel" <=> DOMAIN c.data = Parts
    /\ made \in Nat
    /\ timer \in [files : Kinds \cup {"none"}, known : Kinds \cup {"none"}, enabled : BOOLEAN]
    /\ timer.enabled => timer.known # "none"
    /\ fired \in Kinds \cup {"none"}
    /\ op \in Operations
    /\ step \in Steps
    /\ step = "idle" <=> op = "none"
    /\ IsData(plan)
    /\ undo \in 0..made
    /\ IsData(before) /\ DOMAIN before = Parts
    /\ deleted \in BOOLEAN
    /\ requests \in Nat
    /\ faults \in Nat

\* A panel with no copies and no schedule.
Init ==
    /\ \E v \in Versions, x \in XraySettings, c \in BOOLEAN :
         live = [p \in Parts |-> CASE p = "database" -> [users |-> v, traffic |-> 0]
                                   [] p = "xray"     -> x
                                   [] p = "cascade"  -> c
                                   [] p = "schedule" -> DefaultSchedule
                                   [] OTHER          -> v]
    /\ Acceptable(live)
    /\ unsaved = 0
    /\ copies = {} /\ made = 0
    /\ timer = [files |-> "none", known |-> "none", enabled |-> FALSE]
    /\ fired = "none"
    /\ op = "none" /\ step = "idle" /\ plan = NoPlan
    /\ undo = 0 /\ before = live /\ deleted = FALSE
    /\ requests = 0 /\ faults = 0

-----------------------------------------------------------------------------
(* The order of the steps.                                                 *)

After(st) ==
    CASE st = "safety"    -> "stop"
      [] st = "stop"      -> IF op = "change" THEN "automatic" ELSE "database"
      [] st = "automatic" -> "prune"
      [] st = "copy"      -> IF op = "scheduled" THEN "prune" ELSE "end"
      [] st = "prune"     -> IF op = "change" THEN "database" ELSE "end"
      [] st = "database"  -> "labels"
      [] st = "labels"    -> IF "xray" \in DOMAIN plan THEN "xray" ELSE "end"
      [] st = "xray"      -> "cascade"
      [] st = "cascade"   -> "others"
      [] st = "others"    -> "schedule"
      [] st = "schedule"  -> IF plan["schedule"].on THEN "units" ELSE "disable"
      [] st = "disable"   -> "unlink"
      [] st \in {"units", "unlink"} -> "reload"
      [] st = "reload"    -> IF plan["schedule"].on THEN "enable" ELSE "end"
      [] OTHER            -> "end"

Advance == step' = After(step) /\ UNCHANGED <<op, plan>>

End == op' = "none" /\ step' = "idle" /\ plan' = NoPlan

Begin(o, first, data) ==
    /\ op = "none"
    /\ op' = o /\ step' = first /\ plan' = data
    /\ UNCHANGED <<store, directory, history, timer, faults>>

Request == requests < MaxRequests /\ requests' = requests + 1

-----------------------------------------------------------------------------
(* Requests.                                                               *)

\* An operation on users (mutate_database and update_panel_label).
Change ==
    /\ Request
    /\ \E v \in Versions :
         Begin("change", "stop",
               [p \in PartsOf("users") |->
                   IF p = "database" THEN [live[p] EXCEPT !.users = v] ELSE v])
    /\ UNCHANGED fired

\* The operations on Xray and the cascade: another specification's; what they
\* write together is checked (XrayRouting!FilesExclusive).
ChangePanel ==
    /\ Request
    /\ op = "none"
    /\ \E x \in XraySettings, c \in BOOLEAN :
         live' = [live EXCEPT !["xray"] = x, !["cascade"] = c]
    /\ Acceptable(live')
    /\ UNCHANGED <<unsaved, directory, schedule, helper, history, faults>>

\* create_manual_backup for an administrator, and for the job of the timer
\* (wdtt-panel-backup), which says what kind of copy the unit was written for.
CreateManualBackup ==
    /\ Request
    /\ \E kind \in Kinds : Begin("create", "copy", [p \in PartsOf(kind) |-> live[p]])
    /\ UNCHANGED fired

CreateScheduledBackup ==
    /\ fired # "none"
    /\ Begin("scheduled", "copy", [p \in PartsOf(fired) |-> live[p]])
    /\ fired' = "none"
    /\ UNCHANGED requests

SaveBackupSchedule ==
    /\ Request
    /\ \E s \in Schedules : Begin("schedule", "schedule", [p \in {"schedule"} |-> s])
    /\ UNCHANGED fired

\* restore_backup, if the copy is valid.
RestoreBackup ==
    /\ Request
    /\ \E c \in copies : Acceptable(c.data) /\ Begin("restore", "safety", c.data)
    /\ UNCHANGED fired

DeleteBackup ==
    /\ Request
    /\ op = "none"
    /\ \E c \in copies :
         /\ copies' = copies \ {c}
         /\ deleted' = (deleted \/ DOMAIN c.data = Parts)
         /\ undo' = IF c.stamp = undo THEN 0 ELSE undo
    /\ UNCHANGED <<store, made, schedule, helper, before, faults>>

-----------------------------------------------------------------------------
(* Steps.                                                                  *)

\* create_backup and write_backup; a name has the time in it.
Take(prefix, label, parts) ==
    /\ copies' = copies \cup
         {[stamp |-> made + 1, prefix |-> prefix, label |-> label,
           data |-> [p \in parts |-> live[p]]]}
    /\ made' = made + 1

\* Mutant of PrefixOf: every copy is named like one of users.
AlwaysUsers(parts) == "users"

PrefixOf(parts) == IF parts = Parts THEN "panel" ELSE "users"

\* import_backup: an administrator uploads a copy, of this panel or another one.
ImportBackup ==
    /\ Request
    /\ op = "none"
    /\ \E v \in Versions, x \in XraySettings, c \in BOOLEAN,
          parts \in {{"database"}, PartsOf("users"), Parts} :
         LET data == [p \in parts |-> CASE p = "database" -> [users |-> v, traffic |-> 0]
                                        [] p = "xray"     -> x
                                        [] p = "cascade"  -> c
                                        [] p = "schedule" -> DefaultSchedule
                                        [] OTHER          -> v]
         IN /\ Acceptable(data)
            /\ copies' = copies \cup
                 {[stamp |-> made + 1, prefix |-> PrefixOf(parts), label |-> "uploaded",
                   data |-> data]}
    /\ made' = made + 1
    /\ UNCHANGED <<store, schedule, helper, history, faults>>

\* Mutant of TakeSafetyCopy: it is named like a scheduled one.
TakeScheduledSafetyCopy ==
    /\ step = "safety"
    /\ Take("panel", "scheduled", Parts)
    /\ undo' = made' /\ before' = live
    /\ Advance
    /\ UNCHANGED <<store, schedule, deleted, requests, faults>>

\* Mutant of TakeSafetyCopy: it is taken of the users only.
TakeSafetyCopyOfUsers ==
    /\ step = "safety"
    /\ Take("users", "manual", PartsOf("users"))
    /\ undo' = made' /\ before' = live
    /\ Advance
    /\ UNCHANGED <<store, schedule, deleted, requests, faults>>

TakeSafetyCopy ==
    /\ step = "safety"
    /\ Take("panel", "manual", Parts)
    /\ undo' = made' /\ before' = live
    /\ Advance
    /\ UNCHANGED <<store, schedule, deleted, requests, faults>>

TakeCopy ==
    /\ step = "copy"
    /\ Take(PrefixOf(DOMAIN plan), IF op = "scheduled" THEN "scheduled" ELSE "manual", DOMAIN plan)
    /\ Advance
    /\ UNCHANGED <<store, schedule, history, requests, faults>>

TakeAutomaticCopy ==
    /\ step = "automatic"
    /\ Take("passwords", "automatic", {"database"})
    /\ Advance
    /\ UNCHANGED <<store, schedule, history, requests, faults>>

\* The copies that prune_backups and prune_scheduled_backups look at.  They sort
\* by the time of modification; automatic copies have that of the database,
\* copies of one database are equal.
Class == IF op = "change"
           THEN {c \in copies : c.prefix = "passwords"}
           ELSE {c \in copies : c.prefix = PrefixOf(DOMAIN plan) /\ c.label = "scheduled"}

Keep == IF op = "change" THEN KeepAutomatic ELSE live["schedule"].keep

Newer(c, S) == {d \in S : d.stamp > c.stamp}

\* Mutant of Excess: one too many goes.
ExcessAndOne == {c \in Class : Cardinality(Newer(c, Class)) + 1 >= Keep}

\* Mutant of Excess: one too many stays.
ExcessButOne == {c \in Class : Cardinality(Newer(c, Class)) > Keep}

Excess == {c \in Class : Cardinality(Newer(c, Class)) >= Keep}

Prune ==
    /\ step = "prune"
    /\ copies' = copies \ Excess
    /\ Advance
    /\ UNCHANGED <<store, made, schedule, history, requests, faults>>

\* The helper stops between two of them: prune_backups removes the oldest
\* first, prune_scheduled_backups the newest.
PrunePartly ==
    /\ step = "prune"
    /\ faults < MaxFaults /\ faults' = faults + 1
    /\ \E gone \in SUBSET Excess :
         /\ \A c \in gone, d \in Excess \ gone :
               IF op = "change" THEN c.stamp < d.stamp ELSE c.stamp > d.stamp
         /\ copies' = copies \ gone
         /\ End
    /\ UNCHANGED <<store, made, schedule, history, requests>>

\* wdtt-server saves its counters when it is stopped.
StopService ==
    /\ step = "stop"
    /\ live' = [live EXCEPT !["database"].traffic = @ + unsaved]
    /\ unsaved' = 0
    /\ Advance
    /\ UNCHANGED <<directory, schedule, history, requests, faults>>

WriteDatabase ==
    /\ step = "database"
    /\ live' = [live EXCEPT !["database"] =
                   IF op = "restore" THEN plan["database"]
                   ELSE [@ EXCEPT !.users = plan["database"].users]]
    /\ Advance
    /\ UNCHANGED <<unsaved, directory, schedule, history, requests, faults>>

\* Mutant of WriteFile: the labels of the copy are left out.
WriteFileButLabels ==
    /\ step \in {"labels", "xray", "cascade", "others", "schedule"}
    /\ live' = IF step \in DOMAIN plan \ {"labels"}
                 THEN [live EXCEPT ![step] = plan[step]] ELSE live
    /\ Advance
    /\ UNCHANGED <<unsaved, directory, schedule, history, requests, faults>>

\* save_panel_labels and restore_optional_json, restore_optional_text; an old
\* copy of the database has no labels.
WriteFile ==
    /\ step \in {"labels", "xray", "cascade", "others", "schedule"}
    /\ live' = IF step \in DOMAIN plan THEN [live EXCEPT ![step] = plan[step]] ELSE live
    /\ Advance
    /\ UNCHANGED <<unsaved, directory, schedule, history, requests, faults>>

WriteUnits ==
    /\ step = "units"
    /\ timer' = [timer EXCEPT !.files = plan["schedule"].kind]
    /\ Advance
    /\ UNCHANGED <<store, directory, fired, history, requests, faults>>

\* systemctl disable --now; it fails only if there is no such timer.
Disable ==
    /\ step = "disable"
    /\ timer' = [timer EXCEPT !.enabled = FALSE]
    /\ Advance
    /\ UNCHANGED <<store, directory, fired, history, requests, faults>>

Unlink ==
    /\ step = "unlink"
    /\ timer' = [timer EXCEPT !.files = "none"]
    /\ Advance
    /\ UNCHANGED <<store, directory, fired, history, requests, faults>>

\* Mutant of Reload: systemd is not told.
NoReload ==
    /\ step = "reload"
    /\ Advance
    /\ UNCHANGED <<store, directory, schedule, history, requests, faults>>

Reload ==
    /\ step = "reload"
    /\ timer' = [timer EXCEPT !.known = timer.files]
    /\ Advance
    /\ UNCHANGED <<store, directory, fired, history, requests, faults>>

Enable ==
    /\ step = "enable"
    /\ timer' = [timer EXCEPT !.enabled = TRUE]
    /\ Advance
    /\ UNCHANGED <<store, directory, fired, history, requests, faults>>

Finish ==
    /\ step = "end"
    /\ End
    /\ UNCHANGED <<store, directory, schedule, history, requests, faults>>

\* An exception, in the step that would be next or after it has had its effect,
\* or the helper is killed: the caller is told of an error, or nothing.
BreakOff ==
    /\ op # "none"
    /\ faults < MaxFaults /\ faults' = faults + 1
    /\ End
    /\ UNCHANGED <<store, directory, schedule, history, requests>>

-----------------------------------------------------------------------------
(* wdtt-server and the timer.                                              *)

\* The server is down while a helper changes its database.
ServerRuns == ~(op \in {"change", "restore"} /\ step \in {"automatic", "prune", "database"})

Traffic ==
    /\ ServerRuns
    /\ live["database"].traffic + unsaved < MaxTraffic
    /\ unsaved' = unsaved + 1
    /\ UNCHANGED <<live, directory, schedule, helper, history, requests, faults>>

SaveCounters ==
    /\ ServerRuns /\ unsaved > 0
    /\ live' = [live EXCEPT !["database"].traffic = @ + unsaved]
    /\ unsaved' = 0
    /\ UNCHANGED <<directory, schedule, helper, history, requests, faults>>

\* The timer elapses; a job that is under way already is not started again.
Elapse ==
    /\ made < MaxMade
    /\ timer.enabled /\ fired = "none" /\ op # "scheduled"
    /\ fired' = timer.known
    /\ UNCHANGED <<store, directory, timer, helper, history, requests, faults>>

-----------------------------------------------------------------------------
Next ==
    \/ Change \/ ChangePanel \/ CreateManualBackup \/ CreateScheduledBackup
    \/ SaveBackupSchedule \/ RestoreBackup \/ DeleteBackup \/ ImportBackup
    \/ TakeSafetyCopy \/ TakeCopy \/ TakeAutomaticCopy \/ Prune \/ PrunePartly
    \/ StopService \/ WriteDatabase \/ WriteFile
    \/ WriteUnits \/ Disable \/ Unlink \/ Reload \/ Enable
    \/ Finish \/ BreakOff
    \/ Traffic \/ SaveCounters \/ Elapse

Spec == Init /\ [][Next]_vars

-----------------------------------------------------------------------------
(* Properties.                                                             *)

\* A restore can be undone: from its first write on, whether it succeeds, fails
\* or is killed, and whatever copies are taken and pruned later, the files it
\* found are in its safety copy, until an administrator deletes that one or
\* restores something else (restore_backup, prune_scheduled_backups).
UndoAvailable ==
    /\ undo # 0 => \E c \in copies : c.stamp = undo /\ c.data = before
    /\ op = "restore" /\ step # "safety" => undo # 0

\* Files that no longer go together, after a restore that stopped between them,
\* are there only as long as there is a full copy that can be restored, unless
\* an administrator has deleted full copies.
Fallback ==
    \E c \in copies : c.label = "manual" /\ DOMAIN c.data = Parts /\ Acceptable(c.data)

NoDeadEnd == Acceptable(live) \/ deleted \/ Fallback

\* The operation answers "ok".
Succeeds == step = "end" /\ op' = "none" /\ faults' = faults

\* A restore that answers "ok" has left what was copied, and of the rest what
\* was there: an old copy of the database leaves the labels, a copy of users the
\* settings.  Only counters may have moved since.
RestoreFaithful ==
    [][ op = "restore" /\ Succeeds =>
          /\ \A p \in Parts \ {"database"} :
               live'[p] = IF p \in DOMAIN plan THEN plan[p] ELSE before[p]
          /\ live'["database"].users = plan["database"].users
          /\ live'["database"].traffic + unsaved' >= plan["database"].traffic ]_vars

\* Nothing but pruning and an administrator removes a copy; pruning never takes
\* one an administrator has made or uploaded, nor one of those it has to keep,
\* also when it is interrupted.
PruneSpares ==
    [][ \A c \in copies \ copies' :
          \/ op = "none"
          \/ /\ c \in Class /\ c.label \in {"automatic", "scheduled"}
             /\ Cardinality(Newer(c, Class \cap copies')) >= Keep ]_vars

\* A job that ends with "ok" has kept its copy and not more than it should; so
\* has a change of its automatic ones.
PruneKeeps ==
    [][ step = "prune" /\ step' = After("prune") =>
          /\ Cardinality(Class \cap copies') <= Keep
          /\ \E c \in copies' : c.stamp = made ]_vars

\* A schedule that was saved, or restored, with "ok" is the one systemd follows.
ScheduleApplied ==
    [][ "schedule" \in DOMAIN plan /\ op \in {"schedule", "restore"} /\ Succeeds =>
          LET s == live'["schedule"] IN
          /\ s = plan["schedule"]
          /\ timer'.enabled = s.on
          /\ s.on => timer'.known = s.kind ]_vars

\* The database that is replaced is in a copy (README: the service is stopped,
\* a backup is made, the file is replaced).
ReplacedIsCopied ==
    step = "database" => \E c \in copies : c.data["database"] = live["database"]
=============================================================================
