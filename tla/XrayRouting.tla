----------------------------- MODULE XrayRouting -----------------------------
(***************************************************************************)
(* Xray behind the panel: its settings, the effective configuration made   *)
(* of them, the service, and the two ways to capture the traffic of WDTT   *)
(* for it, the gateway and the RU-EU cascade, each with iptables rules and *)
(* a oneshot unit that restores them at boot; and the VLESS profiles with  *)
(* the port they open in the firewall.                                     *)
(*                                                                         *)
(* An operation holds the helper's lock and is a fixed sequence of steps   *)
(* (After), one for each effect on a file, on systemd or on the kernel.    *)
(* The units call the same helper for their rules and so wait for the same *)
(* lock.  Xray and iptables are installed.                                 *)
(***************************************************************************)
EXTENDS Naturals

CONSTANTS
    Profiles,   \* VLESS profiles there may be
    Operations, \* the operations that are asked for, a part of AllOperations
    Firewalls,  \* the firewalls the host may have, a part of AllFirewalls
    Faults,     \* the faults that may happen, a part of AllFaults
    MaxFaults   \* how many of them, a bound of the model

VlessOps == {"vless_create", "vless_delete"}

AllOperations == VlessOps \cup
    {"xray_save", "warp_sync", "cascade_save", "cascade_restart", "geofiles", "restore"}

AllFaults ==
    { "command_failed", \* a command exits with an error or times out
      "io_error",       \* writing a file raises
      "killed",         \* systemd kills the helper, of a request or of a unit
      "reboot",         \* the host restarts
      "restore_cut" }   \* one of these between the two files of a restore

AllFirewalls == {"ufw", "firewalld", "iptables"}

ASSUME ConstantsAssumption ==
    /\ Firewalls \subseteq AllFirewalls
    /\ Operations \subseteq AllOperations
    /\ Faults \subseteq AllFaults
    /\ MaxFaults \in Nat

VARIABLES
    settings,   \* the file XRAY_SETTINGS
    cascade,    \* XRAY_CASCADE_SETTINGS: is the cascade enabled
    config,     \* the file XRAY_CONFIG
    xray,       \* the service: does it run, and with which configuration
    xrayBoot,   \* is it enabled, i.e. started at boot
    vlessUnit,  \* has the oneshot that opens the VLESS port run since boot
    unit,       \* the oneshot units of the gateway and of the cascade
    rules,      \* the rules of each in the kernel
    fw,         \* the VLESS port: which firewall there is, where the port is
                \* open, and who opened it, as VLESS_FIREWALL_STATE has it
    op,         \* the operation that holds the lock, "none" if it is free
    step,       \* the step it takes next
    new,        \* the settings it is going to write
    newCascade, \* the cascade setting it is going to write
    prev,       \* the settings a VLESS operation goes back to
    undo,       \* whether it is going back to them
    answer,     \* what the operation that ended last has answered
    faults      \* faults so far

files == <<settings, cascade, config>>
xrayState == <<xray, xrayBoot, vlessUnit>>
helper == <<op, step, new, newCascade, prev, undo, answer>>
vars == <<files, xrayState, unit, rules, fw, helper, faults>>

Captures == {"gateway", "cascade"}

\* What normalize_xray_settings lets through.  Raw settings have no inbounds
\* of the panel, hence no profiles.
Settings ==
    { s \in [enabled : BOOLEAN, managed : BOOLEAN, gateway : BOOLEAN,
             profiles : SUBSET Profiles] :
        /\ s.gateway => s.enabled /\ s.managed
        /\ ~s.managed => s.profiles = {} }

DefaultSettings ==
    [enabled |-> FALSE, managed |-> TRUE, gateway |-> FALSE, profiles |-> {}]

Configs == [managed : BOOLEAN, gateway : BOOLEAN, cascade : BOOLEAN,
            profiles : SUBSET Profiles]

Effective(s, c) == [managed |-> s.managed, gateway |-> s.gateway, cascade |-> c,
                    profiles |-> s.profiles]

\* Mutant of Compatible: the gateway is not looked at.
CompatibleMode(s, c) == c => s.managed

\* build_effective_xray_config raises for any other combination.
Compatible(s, c) == c => s.managed /\ ~s.gateway

Steps == { "idle", "refresh", "check", "settings", "config", "cascade", "enable",
           "restart", "gateway_unit", "gateway_rules", "cascade_unit", "await",
           "cascade_rules", "firewall", "end" }

\* What is in the kernel: nothing, a part after a failure somebody was told of,
\* everything, or what a removal left whose commands failed unnoticed.
RuleStates == {"none", "partial", "full", "left"}

Ports == [kind : AllFirewalls, open : SUBSET {"runtime", "permanent"},
          owner : {"none", "panel", "other"}]

\* Where a firewall has to be told of the port.
Everywhere(kind) == IF kind = "iptables" THEN {"runtime"} ELSE {"runtime", "permanent"}

TypeOK ==
    /\ settings \in Settings
    /\ cascade \in BOOLEAN
    /\ config \in Configs
    /\ xray \in [active : BOOLEAN, runs : Configs]
    /\ xrayBoot \in BOOLEAN
    /\ vlessUnit \in BOOLEAN
    /\ unit \in [Captures -> [enabled : BOOLEAN, again : BOOLEAN,
                    state : {"inactive", "activating", "active", "deactivating"}]]
    /\ rules \in [Captures -> RuleStates]
    /\ fw \in Ports
    /\ op \in AllOperations \cup {"none"}
    /\ step \in Steps
    /\ new \in Settings
    /\ newCascade \in BOOLEAN
    /\ prev \in Settings
    /\ undo \in BOOLEAN
    /\ answer \in {"none", "ok", "error"}
    /\ faults \in Nat
    /\ step = "idle" <=> op = "none"
    /\ undo => op \in VlessOps

Init ==
    /\ settings = DefaultSettings
    /\ cascade = FALSE
    /\ config = Effective(DefaultSettings, FALSE)
    /\ xray = [active |-> FALSE, runs |-> Effective(DefaultSettings, FALSE)]
    /\ xrayBoot = FALSE
    /\ vlessUnit = FALSE
    /\ unit = [g \in Captures |-> [enabled |-> FALSE, again |-> FALSE, state |-> "inactive"]]
    /\ rules = [g \in Captures |-> "none"]
    /\ \E k \in Firewalls :
          \* An administrator may have opened the port in firewalld.
          \E o \in IF k = "firewalld" THEN {{}, Everywhere(k)} ELSE {{}} :
             fw = [kind |-> k, open |-> o, owner |-> "none"]
    /\ op = "none"
    /\ step = "idle"
    /\ new = DefaultSettings
    /\ newCascade = FALSE
    /\ prev = DefaultSettings
    /\ undo = FALSE
    /\ answer = "none"
    /\ faults = 0

-----------------------------------------------------------------------------
(* The sequence of steps, and the ways to leave it.                        *)

\* The step an operation takes after this one.
After(st) ==
    CASE st = "refresh" -> IF op = "geofiles" THEN "end" ELSE "check"
      [] st = "check" -> IF op = "cascade_restart" THEN "restart" ELSE "settings"
      [] st = "settings" -> "config"
      [] st = "config" -> IF op = "restore" THEN "cascade" ELSE "enable"
      [] st = "cascade" -> IF op = "restore" THEN "enable" ELSE "cascade_unit"
      [] st = "enable" -> "restart"
      [] st = "restart" ->
           CASE op \in {"xray_save", "restore"} -> "gateway_unit"
             [] op = "cascade_save" -> "cascade"
             [] op \in VlessOps -> "firewall"
             [] OTHER -> IF cascade THEN "cascade_rules" ELSE "end"
      [] st = "gateway_unit" -> "gateway_rules"
      [] st = "gateway_rules" ->
           IF op = "restore" THEN "cascade_unit"
           ELSE IF cascade THEN "cascade_rules" ELSE "end"
      [] st = "cascade_unit" -> "await"
      [] st = "await" -> "cascade_rules"
      [] OTHER -> "end"

Goto(st) == /\ step' = st
            /\ UNCHANGED <<op, new, newCascade, prev, undo, answer>>

Advance == Goto(After(step))

\* The helper leaves the lock and forgets its local variables.
End(outcome) ==
    /\ op' = "none" /\ step' = "idle"
    /\ answer' = outcome
    /\ new' = DefaultSettings /\ newCascade' = FALSE
    /\ prev' = DefaultSettings /\ undo' = FALSE

\* An exception: persist_vless_configuration goes back to the previous
\* settings, once, through the same steps; everything else gives up.
Fail == IF op \in VlessOps /\ ~undo
          THEN /\ new' = prev /\ undo' = TRUE /\ step' = "check"
               /\ UNCHANGED <<op, newCascade, prev, answer>>
          ELSE End("error")

\* The moment in which a restore has replaced one of the two files.
Replacing == op = "restore" /\ step \in {"config", "cascade"}

\* Whether an operation can end here before its time.
CanBreak == Replacing => "restore_cut" \in Faults

Fault(f) == /\ f \in Faults
            /\ faults < MaxFaults
            /\ faults' = faults + 1

-----------------------------------------------------------------------------
(* Requests.                                                               *)

Begin(o, s, c, first) ==
    /\ o \in Operations
    /\ op = "none"
    /\ op' = o /\ step' = first
    /\ new' = s /\ newCascade' = c /\ prev' = settings
    /\ answer' = "none"
    /\ UNCHANGED <<files, xrayState, unit, rules, fw, undo, faults>>

\* The browser sends all settings, from whatever copy it has.
XraySave == \E s \in Settings : Begin("xray_save", s, cascade, "check")

\* create_vless_profile switches Xray on.
CreateVlessProfile ==
    \E p \in Profiles \ settings.profiles :
        Begin("vless_create",
              [settings EXCEPT !.enabled = settings.managed \/ @,
                               !.profiles = IF settings.managed THEN @ \cup {p} ELSE @],
              cascade, "check")

DeleteVlessProfile ==
    \E p \in settings.profiles :
        Begin("vless_delete", [settings EXCEPT !.profiles = @ \ {p}], cascade, "check")

\* sync_warp_outbound: the outbound it replaces is not part of the model.
SyncWarp == Begin("warp_sync", settings, cascade, "check")

CascadeSave ==
    \E c \in BOOLEAN :
        Begin("cascade_save", settings, c, IF c THEN "refresh" ELSE "check")

CascadeRestart == Begin("cascade_restart", settings, cascade, "check")

RefreshGeofiles == Begin("geofiles", settings, cascade, "refresh")

\* restore_backup of a full copy; validate_full_backup has accepted it.  The
\* part that restores the database is a transaction of its own.
Restore ==
    \E s \in Settings, c \in BOOLEAN :
        Compatible(s, c) /\ Begin("restore", s, c, "settings")

-----------------------------------------------------------------------------
(* Files.                                                                  *)

\* What the operations raise before anything has changed.
Refused ==
    \/ op # "cascade_restart" /\ ~Compatible(new, newCascade)
    \/ op \in VlessOps \cup {"warp_sync"} /\ ~new.managed
    \/ op = "cascade_save" /\ newCascade /\ ~new.enabled
    \/ op = "cascade_restart" /\ ~cascade

Check ==
    /\ step = "check"
    /\ IF Refused THEN End("error") ELSE Advance
    /\ UNCHANGED <<files, xrayState, unit, rules, fw, faults>>

\* xray -test does not accept the configuration.
CheckFails ==
    /\ step = "check" /\ ~Refused /\ op # "cascade_restart"
    /\ Fault("command_failed")
    /\ Fail
    /\ UNCHANGED <<files, xrayState, unit, rules, fw>>

WriteSettings ==
    /\ step = "settings"
    /\ settings' = new
    /\ Advance
    /\ UNCHANGED <<cascade, config, xrayState, unit, rules, fw, faults>>

WriteConfig ==
    /\ step = "config"
    /\ config' = Effective(new, newCascade)
    /\ Advance
    /\ UNCHANGED <<settings, cascade, xrayState, unit, rules, fw, faults>>

WriteCascade ==
    /\ step = "cascade"
    /\ cascade' = newCascade
    /\ Advance
    /\ UNCHANGED <<settings, config, xrayState, unit, rules, fw, faults>>

WriteFails ==
    /\ step \in {"settings", "config", "cascade"} /\ CanBreak
    /\ Fault("io_error")
    /\ Fail
    /\ UNCHANGED <<files, xrayState, unit, rules, fw>>

-----------------------------------------------------------------------------
(* xray.service.                                                           *)

Enable ==
    /\ step = "enable"
    /\ xrayBoot' = new.enabled
    /\ Advance
    /\ UNCHANGED <<files, xray, vlessUnit, unit, rules, fw, faults>>

\* An error is raised; apply_restored_services goes on without the restart,
\* unless the command has timed out.
EnableFails ==
    /\ step = "enable"
    /\ Fault("command_failed")
    /\ \/ Fail
       \/ op = "restore" /\ Goto("gateway_unit")
    /\ UNCHANGED <<files, xrayState, unit, rules, fw>>

\* vless_firewall opens the port.  Only under firewalld it asks whether the port
\* was open before, once, to leave it to the administrator.
Opened(f) ==
    [f EXCEPT !.open = Everywhere(f.kind),
              !.owner = IF f.kind = "firewalld" /\ @ = "none"
                          THEN IF f.open = {} THEN "panel" ELSE "other"
                          ELSE @]

\* Under firewalld a port that the panel has not noted as its own stays open.
Closed(f) == IF f.kind = "firewalld" /\ f.owner # "panel"
               THEN f
               ELSE [f EXCEPT !.open = {}, !.owner = "none"]

SetPort(f, wanted) == IF wanted THEN Opened(f) ELSE Closed(f)

\* What it may leave when a command fails or the state cannot be written: the
\* state is written last, and firewalld has a command for each place.
PortLeft(f, wanted) ==
    LET goal == SetPort(f, wanted).open
    IN  { [f EXCEPT !.open = o] :
            o \in {f.open, goal} \cup
                  IF f.kind = "firewalld"
                    THEN {(f.open \cap {"permanent"}) \cup (goal \cap {"runtime"})}
                    ELSE {} }

\* Xray starts with the configuration there is.  The service wants the oneshot
\* that opens the VLESS port (without the lock), which runs once after a boot.
StartXray ==
    /\ xray' = [active |-> TRUE, runs |-> config]
    /\ fw' = IF ~vlessUnit /\ settings.profiles # {} THEN Opened(fw) ELSE fw
    /\ vlessUnit' = TRUE

StopXray == /\ xray' = [xray EXCEPT !.active = FALSE]
            /\ UNCHANGED <<fw, vlessUnit>>

\* persist_xray_configuration restarts or stops; cascade_restart restarts.
Restart ==
    /\ step = "restart"
    /\ IF new.enabled \/ op = "cascade_restart" THEN StartXray ELSE StopXray
    /\ Advance
    /\ UNCHANGED <<files, xrayBoot, unit, rules, faults>>

\* Mutant of RestartFails: the exit code is ignored.
RestartUnchecked ==
    /\ step = "restart"
    /\ Fault("command_failed")
    /\ StopXray
    /\ Advance
    /\ UNCHANGED <<files, xrayBoot, unit, rules>>

\* The command fails or is given up: the service is as it was, has been
\* stopped, or has been started after all.
RestartFails ==
    /\ step = "restart"
    /\ Fault("command_failed")
    /\ \/ UNCHANGED <<xray, vlessUnit, fw>>
       \/ StopXray
       \/ (new.enabled \/ op = "cascade_restart") /\ StartXray
    /\ \/ Fail
       \/ op = "restore" /\ Advance
    /\ UNCHANGED <<files, xrayBoot, unit, rules>>

\* New GeoFiles: a service that runs is restarted, unless nothing was new.
Refresh ==
    /\ step = "refresh"
    /\ \/ xray.active /\ StartXray
       \/ UNCHANGED <<xray, vlessUnit, fw>>
    /\ Advance
    /\ UNCHANGED <<files, xrayBoot, unit, rules, faults>>

\* A download fails, of some files or of all, which the timer's refresh only
\* reports; or the restart does, and its exit code is not looked at.
RefreshFails ==
    /\ step = "refresh"
    /\ Fault("command_failed")
    /\ \/ /\ \/ xray.active /\ StartXray
             \/ UNCHANGED <<xray, vlessUnit, fw>>
          /\ \/ Fail
             \/ op = "geofiles" /\ Advance
       \/ xray.active /\ StopXray /\ (Fail \/ Advance)
    /\ UNCHANGED <<files, xrayBoot, unit, rules>>

\* The oneshot fails, which neither keeps Xray from starting nor is reported;
\* the next start tries again.
PortUnitFails ==
    /\ \/ step = "restart" /\ (new.enabled \/ op = "cascade_restart")
       \/ step = "refresh" /\ xray.active
    /\ ~vlessUnit /\ settings.profiles # {}
    /\ Fault("command_failed")
    /\ xray' = [active |-> TRUE, runs |-> config]
    /\ fw' \in PortLeft(fw, TRUE)
    /\ Advance
    /\ UNCHANGED <<files, xrayBoot, vlessUnit, unit, rules>>

-----------------------------------------------------------------------------
(* Rules and firewall.                                                     *)

\* xray_gateway_apply_rules, cascade_apply_rules: which rules are wanted, and
\* what must hold for them to be applied.
Wanted(g) == IF g = "gateway" THEN settings.gateway ELSE cascade

Applicable(g) ==
    /\ xray.active
    /\ g = "gateway" => settings.managed /\ ~cascade

\* Mutant of SetRules: rules that are not wanted any more are left alone.
OnlyAddRules(g) ==
    rules' = IF Wanted(g) THEN [rules EXCEPT ![g] = "full"] ELSE rules

SetRules(g) == rules' = [rules EXCEPT ![g] = IF Wanted(g) THEN "full" ELSE "none"]

\* Where a restore goes on after an AdminError of the rules.
Forgiven(st) == op = "restore" /\ Goto(After(st))

\* systemctl enable or disable of the gateway unit, without starting it.
GatewayUnit ==
    /\ step = "gateway_unit"
    /\ unit' = [unit EXCEPT !["gateway"].enabled = new.gateway]
    /\ Advance
    /\ UNCHANGED <<files, xrayState, rules, fw, faults>>

\* A failed disable is ignored, a failed enable is not; a restore leaves the
\* rules alone then.
GatewayUnitFails ==
    /\ step = "gateway_unit"
    /\ Fault("command_failed")
    /\ \/ Fail
       \/ ~new.gateway /\ Advance
       \/ new.gateway /\ Forgiven("gateway_rules")
    /\ UNCHANGED <<files, xrayState, unit, rules, fw>>

Place == [gateway |-> "gateway_rules", cascade |-> "cascade_rules"]

ApplyRules(g) ==
    /\ step = Place[g]
    /\ Wanted(g) => Applicable(g)
    /\ SetRules(g)
    /\ Advance
    /\ UNCHANGED <<files, xrayState, unit, fw, faults>>

RulesRefused(g) ==
    /\ step = Place[g]
    /\ Wanted(g) /\ ~Applicable(g)
    /\ \/ Fail
       \/ Forgiven(step)
    /\ UNCHANGED <<files, xrayState, unit, rules, fw, faults>>

\* xray_gateway_remove_rules and cascade_remove_rules look at no exit code: a
\* removal whose commands fail leaves rules there and says it has removed them.
LeaveRules(g) ==
    rules' = [rules EXCEPT ![g] = IF @ = "none" THEN "none" ELSE "left"]

\* A command in the middle fails or times out: an error, except for a removal,
\* where only the timeout is one.
RulesFail(g) ==
    /\ step = Place[g]
    /\ Wanted(g) => Applicable(g)
    /\ Fault("command_failed")
    /\ \/ /\ rules' = [rules EXCEPT ![g] = "partial"]
          /\ \/ Fail
             \/ Wanted(g) /\ Forgiven(step)
       \/ ~Wanted(g) /\ LeaveRules(g) /\ Advance
    /\ UNCHANGED <<files, xrayState, unit, fw>>

\* Mutant of Firewall: the port of the last profile stays open.
FirewallOpen ==
    /\ step = "firewall"
    /\ fw' = IF new.profiles # {} THEN Opened(fw) ELSE fw
    /\ Advance
    /\ UNCHANGED <<files, xrayState, unit, rules, faults>>

\* vless_firewall: open for the first profile, closed after the last.
Firewall ==
    /\ step = "firewall"
    /\ fw' = SetPort(fw, new.profiles # {})
    /\ Advance
    /\ UNCHANGED <<files, xrayState, unit, rules, faults>>

FirewallFails ==
    /\ step = "firewall"
    /\ Fault("command_failed")
    /\ fw' \in PortLeft(fw, new.profiles # {})
    /\ Fail
    /\ UNCHANGED <<files, xrayState, unit, rules>>

-----------------------------------------------------------------------------
(* The unit of the cascade, under systemctl enable --now, disable --now.   *)

Pending(g) == unit[g].state \in {"activating", "deactivating"}

\* enable --now queues a start, behind a stop that goes on; disable --now
\* stops a unit that is active and kills the helper of one that is starting.
CascadeUnit ==
    /\ step = "cascade_unit"
    /\ unit' = [unit EXCEPT !["cascade"] =
         IF newCascade
           THEN [enabled |-> TRUE,
                 again |-> @.state = "deactivating",
                 state |-> IF @.state = "inactive" THEN "activating" ELSE @.state]
           ELSE [enabled |-> FALSE,
                 again |-> FALSE,
                 state |-> IF @.state \in {"active", "deactivating"}
                             THEN "deactivating" ELSE "inactive"]]
    /\ Advance
    /\ UNCHANGED <<files, xrayState, rules, fw, faults>>

CascadeUnitFails ==
    /\ step = "cascade_unit"
    /\ Fault("command_failed")
    /\ \/ Fail
       \/ ~newCascade /\ Goto("cascade_rules")
       \/ newCascade /\ op = "restore" /\ Goto("end")
    /\ UNCHANGED <<files, xrayState, unit, rules, fw>>

\* systemctl returns when the unit has no job left.
AwaitDone ==
    /\ step = "await"
    /\ ~Pending("cascade")
    /\ Advance
    /\ UNCHANGED <<files, xrayState, unit, rules, fw, faults>>

\* Mutant of AwaitTimeout: only a job that has ended is given up.
AwaitForEver ==
    /\ step = "await"
    /\ ~Pending("cascade")
    /\ Fail
    /\ UNCHANGED <<files, xrayState, unit, rules, fw, faults>>

\* The job does not end: TimeoutExpired after 45 seconds, 60 in a restore.
AwaitTimeout ==
    /\ step = "await"
    /\ Pending("cascade")
    /\ Fail
    /\ UNCHANGED <<files, xrayState, unit, rules, fw, faults>>

Finish ==
    /\ step = "end"
    /\ End(IF undo THEN "error" ELSE "ok")
    /\ UNCHANGED <<files, xrayState, unit, rules, fw, faults>>

-----------------------------------------------------------------------------
(* The helpers of the units, which need the lock as everybody does, and    *)
(* what may happen from outside.                                           *)

UnitApply(g) ==
    /\ unit[g].state = "activating" /\ op = "none"
    /\ Wanted(g) => Applicable(g)
    /\ SetRules(g)
    /\ unit' = [unit EXCEPT ![g].state = "active"]
    /\ UNCHANGED <<files, xrayState, fw, helper, faults>>

\* The helper answers with an error: the unit has failed.  A removal whose
\* commands fail is none.
UnitApplyFails(g) ==
    /\ unit[g].state = "activating" /\ op = "none"
    /\ \/ /\ Wanted(g) /\ ~Applicable(g)
          /\ unit' = [unit EXCEPT ![g].state = "inactive"]
          /\ UNCHANGED <<rules, faults>>
       \/ /\ Wanted(g) => Applicable(g)
          /\ Fault("command_failed")
          /\ rules' = [rules EXCEPT ![g] = "partial"]
          /\ unit' = [unit EXCEPT ![g].state = "inactive"]
       \/ /\ ~Wanted(g)
          /\ Fault("command_failed")
          /\ LeaveRules(g)
          /\ unit' = [unit EXCEPT ![g].state = "active"]
    /\ UNCHANGED <<files, xrayState, fw, helper>>

Stopped(g) == unit' = [unit EXCEPT ![g].state = IF @ = "deactivating" /\ unit[g].again
                                                  THEN "activating" ELSE "inactive",
                                   ![g].again = FALSE]

\* Mutant of UnitRemove: a unit without ExecStop.
UnitStops(g) ==
    /\ unit[g].state = "deactivating" /\ op = "none"
    /\ Stopped(g)
    /\ UNCHANGED <<files, xrayState, rules, fw, helper, faults>>

\* ExecStop.
UnitRemove(g) ==
    /\ unit[g].state = "deactivating" /\ op = "none"
    /\ rules' = [rules EXCEPT ![g] = "none"]
    /\ Stopped(g)
    /\ UNCHANGED <<files, xrayState, fw, helper, faults>>

UnitRemoveFails(g) ==
    /\ unit[g].state = "deactivating" /\ op = "none"
    /\ Fault("command_failed")
    /\ LeaveRules(g)
    /\ Stopped(g)
    /\ UNCHANGED <<files, xrayState, fw, helper>>

\* TimeoutStopSec passes while ExecStop waits for the lock.
UnitKilled(g) ==
    /\ unit[g].state = "deactivating" /\ op # "none"
    /\ Fault("killed")
    /\ Stopped(g)
    /\ UNCHANGED <<files, xrayState, rules, fw, helper>>

\* RuntimeMaxSec of the helper of a request: nobody is told anything.
Kill ==
    /\ op # "none" /\ CanBreak
    /\ Fault("killed")
    /\ End("none")
    /\ UNCHANGED <<files, xrayState, unit, rules, fw>>

\* Rules are gone, and ports that are not permanent; what is enabled starts:
\* the VLESS port before Xray, the rules after it.
Reboot ==
    /\ op # "none" => "killed" \in Faults /\ CanBreak
    /\ Fault("reboot")
    /\ xray' = [active |-> xrayBoot, runs |-> config]
    /\ LET kept == [fw EXCEPT !.open = IF "permanent" \in @ THEN Everywhere(fw.kind) ELSE {}]
       IN  IF xrayBoot /\ settings.profiles # {}
             THEN \/ fw' = Opened(kept) /\ vlessUnit' = TRUE
                  \/ /\ "command_failed" \in Faults
                     /\ fw' \in PortLeft(kept, TRUE) /\ vlessUnit' = FALSE
             ELSE fw' = kept /\ vlessUnit' = xrayBoot
    /\ unit' = [g \in Captures |->
                  [enabled |-> unit[g].enabled, again |-> FALSE,
                   state |-> IF unit[g].enabled THEN "activating" ELSE "inactive"]]
    /\ rules' = [g \in Captures |-> "none"]
    /\ End("none")
    /\ UNCHANGED <<files, xrayBoot>>

-----------------------------------------------------------------------------
Request == \/ XraySave \/ CreateVlessProfile \/ DeleteVlessProfile \/ SyncWarp
           \/ CascadeSave \/ CascadeRestart \/ RefreshGeofiles \/ Restore

HelperStep ==
    \/ Check \/ CheckFails \/ WriteSettings \/ WriteConfig \/ WriteCascade \/ WriteFails
    \/ Enable \/ EnableFails \/ Restart \/ RestartFails \/ Refresh \/ RefreshFails
    \/ PortUnitFails
    \/ GatewayUnit \/ GatewayUnitFails
    \/ \E g \in Captures : ApplyRules(g) \/ RulesRefused(g) \/ RulesFail(g)
    \/ Firewall \/ FirewallFails
    \/ CascadeUnit \/ CascadeUnitFails \/ AwaitDone \/ AwaitTimeout
    \/ Finish

UnitStep(g) == UnitApply(g) \/ UnitApplyFails(g) \/ UnitRemove(g) \/ UnitRemoveFails(g)

Next == \/ Request
        \/ HelperStep
        \/ \E g \in Captures : UnitStep(g) \/ UnitKilled(g)
        \/ Kill
        \/ Reboot

Spec == Init /\ [][Next]_vars

\* A helper takes its next step, one that waits for systemctl by giving up at
\* the latest; a unit's helper that finds the lock free again and again gets it
\* one day (flock wakes those who wait).
FairSpec == /\ Spec
            /\ WF_vars(HelperStep)
            /\ \A g \in Captures : SF_vars(UnitStep(g))

-----------------------------------------------------------------------------
(* Properties.                                                             *)

\* Nothing is under way: no operation, no unit waiting for its helper.
Quiet == op = "none" /\ \A g \in Captures : ~Pending(g)

\* As long as no command fails, everything agrees with the settings whenever
\* nothing is under way, after refused operations, operations that gave up on
\* systemctl, and reboots: the configuration, the running Xray, what starts at
\* boot, the gateway's rules, and no rules of a cascade that is off.
Agreement ==
    Quiet =>
        /\ config = Effective(settings, cascade)
        /\ settings.enabled => xray.active
        /\ xray.active => xray.runs = config
        /\ xrayBoot = settings.enabled
        /\ rules["gateway"] = IF settings.gateway THEN "full" ELSE "none"
        /\ unit["gateway"].enabled = settings.gateway
        /\ unit["cascade"].enabled = cascade
        /\ ~cascade => rules["cascade"] = "none"

\* The files never ask for the gateway and the cascade at once, nor for a
\* cascade in raw mode, whatever fails and whoever is killed, also in the
\* middle of an operation (build_effective_xray_config on each path), except
\* that a restore replaces the two files one after the other.
FilesExclusive == ~Replacing /\ cascade => settings.managed /\ ~settings.gateway

\* A restore that has begun to replace the files goes on.
RestoreEnds == "restore" \notin Operations \/ "restore_cut" \notin Faults

\* Why the files stay exclusive, as an inductive invariant: what a helper is
\* going to write has been checked together; whoever does not change the
\* cascade has read it under the same lock, and the cascade is written after
\* the settings it was checked with.
PlanChecked ==
    step \in {"settings", "config", "enable", "restart", "cascade"}
        => Compatible(new, newCascade) \/ (op = "cascade_restart" /\ step = "restart")

PlanCurrent ==
    /\ op \notin {"none", "cascade_save", "restore"} => newCascade = cascade
    /\ op = "cascade_save" => new = settings
    /\ Replacing => new = settings
    /\ step = "cascade" => op \in {"cascade_save", "restore"}

ExclusiveInv ==
    /\ op \in Operations \cup {"none"}
    /\ PlanChecked
    /\ PlanCurrent
    /\ FilesExclusive

\* Rules as the settings want them, as far as a helper can know: rules that are
\* not wanted are gone, or are what a removal left whose failure it ignores.
RulesAs(state, wanted) == IF wanted THEN state = "full" ELSE state \in {"none", "left"}

\* An operation that answers "ok" has left the configuration, the running Xray
\* and the rules in agreement with the settings, whatever failed before it, but
\* for rules whose removal failed without anybody being told.  A refresh of
\* GeoFiles and a restore promise less (a warning).
SuccessMeansApplied ==
    [][ op \notin {"none", "geofiles", "restore"} /\ answer' = "ok" =>
          /\ op # "cascade_restart" =>
               /\ config' = Effective(settings', cascade')
               /\ xray'.active = settings'.enabled
               /\ xrayBoot' = settings'.enabled
          /\ xray'.active => xray'.runs = config'
          /\ op = "xray_save" => RulesAs(rules'["gateway"], settings'.gateway)
          /\ op \in {"xray_save", "warp_sync", "cascade_restart", "cascade_save"} /\ cascade' =>
               RulesAs(rules'["cascade"], TRUE)
          /\ op = "cascade_save" /\ ~cascade' => RulesAs(rules'["cascade"], FALSE) ]_vars

\* The port is open everywhere if it is wanted, and else closed, unless
\* firewalld has a port that the panel does not know to be its own.
PortAs(f, wanted) ==
    IF wanted THEN f.open = Everywhere(f.kind)
              ELSE f.open = {} \/ (f.kind = "firewalld" /\ f.owner # "panel")

\* A VLESS operation that has gone back leaves settings, configuration, Xray
\* and firewall as the previous profiles want them, whatever made it go back.
\* Under firewalld the port may stay open: what a first --add-port opened
\* before the second failed is noted nowhere, and going back leaves it alone.
VlessAllOrNothing ==
    [][ undo /\ op' = "none" /\ answer' = "error" /\ faults' = faults =>
          /\ settings' = prev
          /\ config' = Effective(prev, cascade)
          /\ xray'.active = prev.enabled
          /\ xray'.active => xray'.runs = config'
          /\ PortAs(fw', prev.profiles # {}) ]_vars

\* No operation holds the lock for ever, although one may wait for a unit
\* whose helper waits for that lock.
LockReleased == op # "none" ~> op = "none"

\* Rules of a cascade that has been switched off go away, although the
\* operation has given up before.
LeftoverRemoved ==
    (~cascade /\ rules["cascade"] # "none") ~> (cascade \/ rules["cascade"] = "none")

\* No operation waits for a unit whose helper waits for the lock the operation
\* holds (the comments in xray_save).
NoLockCycle == ~(step = "await" /\ Pending("cascade"))
=============================================================================
