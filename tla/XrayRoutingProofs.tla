-------------------------- MODULE XrayRoutingProofs --------------------------
(***************************************************************************)
(* Theorems about XrayRouting: types; that the gateway and the cascade are *)
(* never switched on together in the files; what an operation that answers *)
(* "ok", or that has gone back, has done under every fault; and that       *)
(* everything agrees with the settings as long as no command fails.        *)
(***************************************************************************)
EXTENDS XrayRouting, TLAPS

-----------------------------------------------------------------------------
(* The operators that move a helper.                                       *)

\* What a step of a helper does to its own variables keeps them typed.
HelperTyped ==
    /\ op \in AllOperations \cup {"none"}
    /\ step \in Steps
    /\ new \in Settings
    /\ newCascade \in BOOLEAN
    /\ prev \in Settings
    /\ undo \in BOOLEAN
    /\ answer \in {"none", "ok", "error"}
    /\ step = "idle" <=> op = "none"
    /\ undo => op \in VlessOps

\* The settings the panel starts with are settings.
LEMMA DefaultTyped == DefaultSettings \in Settings
BY DEF DefaultSettings, Settings

\* The effective configuration of settings is a configuration.
LEMMA EffectiveTyped ==
    ASSUME NEW s \in Settings, NEW c \in BOOLEAN
    PROVE  Effective(s, c) \in Configs
BY DEF Effective, Settings, Configs

\* The table of steps: every operation goes on with a step, or ends.
LEMMA AfterTyped ==
    ASSUME NEW st
    PROVE  After(st) \in Steps \ {"idle"}
BY DEF After, Steps

\* Going on to a step.
LEMMA GotoTyped ==
    ASSUME HelperTyped, step # "idle", NEW st \in Steps \ {"idle"}, Goto(st)
    PROVE  HelperTyped'
BY DEF HelperTyped, Goto

\* Going on to the next step.
LEMMA AdvanceTyped ==
    ASSUME HelperTyped, step # "idle", Advance
    PROVE  HelperTyped'
BY AfterTyped, GotoTyped DEF Advance

\* Leaving the lock.
LEMMA EndTyped ==
    ASSUME HelperTyped, NEW o \in {"none", "ok", "error"}, End(o)
    PROVE  HelperTyped'
BY DefaultTyped DEF HelperTyped, End, Steps, VlessOps, AllOperations

\* An exception.
LEMMA FailTyped ==
    ASSUME HelperTyped, step # "idle", Fail
    PROVE  HelperTyped'
<1>1. CASE op \in VlessOps /\ ~undo
  BY <1>1 DEF Fail, HelperTyped, Steps, VlessOps
<1>2. CASE ~(op \in VlessOps /\ ~undo)
  BY <1>2, EndTyped DEF Fail
<1> QED BY <1>1, <1>2

-----------------------------------------------------------------------------
(* Types.                                                                  *)

\* The rest of TypeOK.
SystemTyped ==
    /\ settings \in Settings
    /\ cascade \in BOOLEAN
    /\ config \in Configs
    /\ xray \in [active : BOOLEAN, runs : Configs]
    /\ xrayBoot \in BOOLEAN
    /\ vlessUnit \in BOOLEAN
    /\ unit \in [Captures -> [enabled : BOOLEAN, again : BOOLEAN,
                    state : {"inactive", "activating", "active", "deactivating"}]]
    /\ rules \in [Captures -> RuleStates]
    /\ fw \in Ports
    /\ faults \in Nat

\* TypeOK speaks of the helper and of the rest.
LEMMA Typing == TypeOK <=> HelperTyped /\ SystemTyped
BY DEF TypeOK, HelperTyped, SystemTyped

\* The port after vless_firewall, or after a part of it.
LEMMA PortTyped ==
    ASSUME NEW f \in Ports, NEW wanted \in BOOLEAN
    PROVE  /\ SetPort(f, wanted) \in Ports /\ Opened(f) \in Ports
           /\ PortLeft(f, wanted) \subseteq Ports
           /\ PortAs(SetPort(f, wanted), wanted)
<1>0. /\ f.kind \in AllFirewalls /\ f.open \in SUBSET {"runtime", "permanent"}
      /\ f.owner \in {"none", "panel", "other"}
  BY DEF Ports
<1>1. Everywhere(f.kind) \in SUBSET {"runtime", "permanent"}
  BY DEF Everywhere
<1>2. /\ Opened(f) \in Ports /\ Opened(f).kind = f.kind /\ Opened(f).open = Everywhere(f.kind)
  BY <1>0, <1>1 DEF Opened, Ports
<1>3. Closed(f) \in Ports /\ PortAs(Closed(f), FALSE)
  BY <1>0 DEF Closed, Ports, PortAs
<1>4. SetPort(f, wanted) \in Ports /\ PortAs(SetPort(f, wanted), wanted)
  BY <1>2, <1>3 DEF SetPort, PortAs
<1>5. PortLeft(f, wanted) \subseteq Ports
  <2>1. SetPort(f, wanted).open \in SUBSET {"runtime", "permanent"}
    BY <1>4 DEF Ports
  <2> QED BY <1>0, <2>1 DEF PortLeft, Ports
<1> QED BY <1>2, <1>4, <1>5

\* A start of Xray.
LEMMA StartTyped ==
    ASSUME SystemTyped, StartXray
    PROVE  /\ xray' \in [active : BOOLEAN, runs : Configs]
           /\ fw' \in Ports
           /\ vlessUnit' \in BOOLEAN
BY PortTyped DEF SystemTyped, StartXray, Configs

\* A stop of Xray.
LEMMA StopTyped ==
    ASSUME SystemTyped, StopXray
    PROVE  /\ xray' \in [active : BOOLEAN, runs : Configs]
           /\ fw' \in Ports
           /\ vlessUnit' \in BOOLEAN
BY DEF SystemTyped, StopXray

\* A unit that has stopped.
LEMMA StoppedTyped ==
    ASSUME SystemTyped, NEW g \in Captures, Stopped(g)
    PROVE  unit' \in [Captures -> [enabled : BOOLEAN, again : BOOLEAN,
                    state : {"inactive", "activating", "active", "deactivating"}]]
<1> DEFINE States == {"inactive", "activating", "active", "deactivating"}
<1>1. PICK st : st = IF unit[g].state = "deactivating" /\ unit[g].again
                       THEN "activating" ELSE "inactive"
  OBVIOUS
<1>2. st \in States
  BY <1>1
<1>3. unit[g] \in [enabled : BOOLEAN, again : BOOLEAN, state : States]
  BY DEF SystemTyped
<1>4. [[unit[g] EXCEPT !.state = st] EXCEPT !.again = FALSE]
        \in [enabled : BOOLEAN, again : BOOLEAN, state : States]
  BY <1>2, <1>3
<1>5. unit' = [unit EXCEPT ![g] = [[unit[g] EXCEPT !.state = st] EXCEPT !.again = FALSE]]
  BY <1>1 DEF Stopped, SystemTyped
<1> QED BY <1>4, <1>5 DEF SystemTyped

\* A request takes the lock.
LEMMA BeginTyped ==
    ASSUME TypeOK, NEW o, NEW s \in Settings, NEW c \in BOOLEAN,
           NEW st \in {"refresh", "check", "settings"}, Begin(o, s, c, st)
    PROVE  TypeOK'
BY ConstantsAssumption DEF Begin, TypeOK, files, xrayState, AllOperations, VlessOps, Steps

\* Every request takes it with settings that normalize_xray_settings lets through.
LEMMA RequestTyped ==
    ASSUME TypeOK, Request
    PROVE  TypeOK'
<1>0. settings \in Settings /\ cascade \in BOOLEAN
  BY DEF TypeOK
<1>1. CASE XraySave
  BY <1>0, <1>1, BeginTyped DEF XraySave
<1>2. CASE CreateVlessProfile
  <2>1. PICK p \in Profiles \ settings.profiles :
          Begin("vless_create",
              [settings EXCEPT !.enabled = settings.managed \/ @,
                               !.profiles = IF settings.managed THEN @ \cup {p} ELSE @],
              cascade, "check")
    BY <1>2 DEF CreateVlessProfile
  <2>2. PICK s : s = [settings EXCEPT !.enabled = settings.managed \/ @,
                               !.profiles = IF settings.managed THEN @ \cup {p} ELSE @]
    OBVIOUS
  <2>3. s \in Settings
    BY <1>0, <2>2 DEF Settings
  <2> QED BY <1>0, <2>1, <2>2, <2>3, BeginTyped
<1>3. CASE DeleteVlessProfile
  <2>1. PICK p \in settings.profiles :
          Begin("vless_delete", [settings EXCEPT !.profiles = @ \ {p}], cascade, "check")
    BY <1>3 DEF DeleteVlessProfile
  <2>2. [settings EXCEPT !.profiles = @ \ {p}] \in Settings
    BY <1>0 DEF Settings
  <2> QED BY <1>0, <2>1, <2>2, BeginTyped
<1>4. CASE SyncWarp
  BY <1>0, <1>4, BeginTyped DEF SyncWarp
<1>5. CASE CascadeSave
  BY <1>0, <1>5, BeginTyped DEF CascadeSave
<1>6. CASE CascadeRestart
  BY <1>0, <1>6, BeginTyped DEF CascadeRestart
<1>7. CASE RefreshGeofiles
  BY <1>0, <1>7, BeginTyped DEF RefreshGeofiles
<1>8. CASE Restore
  BY <1>0, <1>8, BeginTyped DEF Restore
<1> QED
  BY <1>1, <1>2, <1>3, <1>4, <1>5, <1>6, <1>7, <1>8 DEF Request

\* Every step of a helper moves it on, stops it, or lets it go back.
LEMMA HelperStepTyped ==
    ASSUME TypeOK, HelperStep
    PROVE  TypeOK'
<1> HelperTyped /\ SystemTyped
  BY Typing
<1> SUFFICES HelperTyped' /\ SystemTyped'
  BY DEF TypeOK, HelperTyped, SystemTyped
<1> USE DEF Fault, files, xrayState
<1>1. CASE Check
  BY <1>1, AdvanceTyped, EndTyped DEF Check, SystemTyped
<1>2. CASE CheckFails
  BY <1>2, FailTyped DEF CheckFails, SystemTyped
<1>3. CASE WriteSettings
  BY <1>3, AdvanceTyped DEF WriteSettings, SystemTyped, HelperTyped
<1>4. CASE WriteConfig
  BY <1>4, AdvanceTyped, EffectiveTyped DEF WriteConfig, SystemTyped, HelperTyped
<1>5. CASE WriteCascade
  BY <1>5, AdvanceTyped DEF WriteCascade, SystemTyped, HelperTyped
<1>6. CASE WriteFails
  BY <1>6, FailTyped DEF WriteFails, SystemTyped
<1>7. CASE Enable
  <2>1. new.enabled \in BOOLEAN
    BY DEF HelperTyped, Settings
  <2> QED BY <1>7, <2>1, AdvanceTyped DEF Enable, SystemTyped
<1>8. CASE EnableFails
  <2>1. HelperTyped'
    <3>1. "gateway_unit" \in Steps \ {"idle"}
      BY DEF Steps
    <3> QED BY <1>8, <3>1, FailTyped, GotoTyped DEF EnableFails
  <2> QED BY <1>8, <2>1 DEF EnableFails, SystemTyped
<1>9. CASE Restart
  <2>1. HelperTyped'
    BY <1>9, AdvanceTyped DEF Restart
  <2>2. StartXray \/ StopXray
    BY <1>9 DEF Restart
  <2> QED BY <1>9, <2>1, <2>2, StartTyped, StopTyped DEF Restart, SystemTyped
<1>10. CASE RestartFails
  <2>1. HelperTyped'
    BY <1>10, AdvanceTyped, FailTyped DEF RestartFails
  <2>2. StartXray \/ StopXray \/ UNCHANGED <<xray, vlessUnit, fw>>
    BY <1>10 DEF RestartFails
  <2> QED BY <1>10, <2>1, <2>2, StartTyped, StopTyped DEF RestartFails, SystemTyped
<1>11. CASE Refresh
  <2>1. HelperTyped'
    BY <1>11, AdvanceTyped DEF Refresh
  <2>2. StartXray \/ UNCHANGED <<xray, vlessUnit, fw>>
    BY <1>11 DEF Refresh
  <2> QED BY <1>11, <2>1, <2>2, StartTyped DEF Refresh, SystemTyped
<1>12. CASE RefreshFails
  <2>1. HelperTyped'
    BY <1>12, AdvanceTyped, FailTyped DEF RefreshFails
  <2>2. StartXray \/ StopXray \/ UNCHANGED <<xray, vlessUnit, fw>>
    BY <1>12 DEF RefreshFails
  <2> QED BY <1>12, <2>1, <2>2, StartTyped, StopTyped DEF RefreshFails, SystemTyped
<1>13. CASE GatewayUnit
  <2>1. new.gateway \in BOOLEAN
    BY DEF HelperTyped, Settings
  <2> QED BY <1>13, <2>1, AdvanceTyped DEF GatewayUnit, SystemTyped, Captures
<1>14. CASE GatewayUnitFails
  <2>1. HelperTyped'
    BY <1>14, AdvanceTyped, FailTyped, AfterTyped, GotoTyped DEF GatewayUnitFails, Forgiven
  <2> QED BY <1>14, <2>1 DEF GatewayUnitFails, SystemTyped
<1>15. ASSUME NEW g \in Captures,
              ApplyRules(g) \/ RulesRefused(g) \/ RulesFail(g)
       PROVE  HelperTyped' /\ SystemTyped'
  <2>0. step # "idle"
    BY <1>15 DEF ApplyRules, RulesRefused, RulesFail, Place, Captures
  <2>1. HelperTyped'
    BY <1>15, <2>0, AdvanceTyped, FailTyped, AfterTyped, GotoTyped
       DEF ApplyRules, RulesRefused, RulesFail, Forgiven
  <2>2. rules' \in [Captures -> RuleStates]
    BY <1>15 DEF ApplyRules, RulesRefused, RulesFail, SetRules, LeaveRules, RuleStates, SystemTyped
  <2> QED
    BY <1>15, <2>1, <2>2 DEF ApplyRules, RulesRefused, RulesFail, SystemTyped
<1>16. CASE Firewall
  <2>1. fw' \in Ports
    BY <1>16, PortTyped DEF Firewall, SystemTyped
  <2> QED BY <1>16, <2>1, AdvanceTyped DEF Firewall, SystemTyped
<1>17. CASE FirewallFails
  <2>1. fw' \in Ports
    BY <1>17, PortTyped DEF FirewallFails, SystemTyped
  <2> QED BY <1>17, <2>1, FailTyped DEF FirewallFails, SystemTyped
<1>18. CASE CascadeUnit
  BY <1>18, AdvanceTyped DEF CascadeUnit, SystemTyped, Captures
<1>19. CASE CascadeUnitFails
  <2>1. HelperTyped'
    <3>1. {"cascade_rules", "end"} \subseteq Steps \ {"idle"}
      BY DEF Steps
    <3> QED BY <1>19, <3>1, FailTyped, GotoTyped DEF CascadeUnitFails
  <2> QED BY <1>19, <2>1 DEF CascadeUnitFails, SystemTyped
<1>20. CASE AwaitDone
  BY <1>20, AdvanceTyped DEF AwaitDone, SystemTyped
<1>21. CASE AwaitTimeout
  BY <1>21, FailTyped DEF AwaitTimeout, SystemTyped
<1>22. CASE Finish
  BY <1>22, EndTyped DEF Finish, SystemTyped
<1>23. CASE PortUnitFails
  <2>1. fw' \in Ports
    BY <1>23, PortTyped DEF PortUnitFails, SystemTyped
  <2> QED BY <1>23, <2>1, AdvanceTyped DEF PortUnitFails, SystemTyped
<1> QED
  BY <1>1, <1>2, <1>3, <1>4, <1>5, <1>6, <1>7, <1>8, <1>9, <1>10, <1>11, <1>12,
     <1>13, <1>14, <1>15, <1>16, <1>17, <1>18, <1>19, <1>20, <1>21, <1>22, <1>23
     DEF HelperStep

\* The units, the end of a helper that is killed, and a reboot.
LEMMA OutsideTyped ==
    ASSUME TypeOK,
           (\E g \in Captures : UnitStep(g) \/ UnitKilled(g)) \/ Kill \/ Reboot
    PROVE  TypeOK'
<1> HelperTyped /\ SystemTyped
  BY Typing
<1> SUFFICES HelperTyped' /\ SystemTyped'
  BY DEF TypeOK, HelperTyped, SystemTyped
<1> USE DEF Fault, files, xrayState
<1>1. ASSUME NEW g \in Captures, UnitStep(g) \/ UnitKilled(g)
      PROVE  HelperTyped' /\ SystemTyped'
  <2>1. UNCHANGED helper
    BY <1>1 DEF UnitStep, UnitApply, UnitApplyFails, UnitRemove, UnitRemoveFails, UnitKilled
  <2>2. HelperTyped'
    BY <2>1 DEF HelperTyped, helper
  <2>3. CASE UnitApply(g) \/ UnitApplyFails(g)
    BY <2>2, <2>3 DEF UnitApply, UnitApplyFails, SetRules, LeaveRules, RuleStates, SystemTyped
  <2>4. CASE UnitRemove(g) \/ UnitRemoveFails(g) \/ UnitKilled(g)
    BY <2>2, <2>4, StoppedTyped
       DEF UnitRemove, UnitRemoveFails, UnitKilled, LeaveRules, RuleStates, SystemTyped
  <2> QED BY <1>1, <2>3, <2>4 DEF UnitStep
<1>2. CASE Kill
  BY <1>2, EndTyped DEF Kill, SystemTyped
<1>3. CASE Reboot
  <2>1. HelperTyped'
    BY <1>3, EndTyped DEF Reboot
  <2>2. PICK kept : kept = [fw EXCEPT !.open = IF "permanent" \in @ THEN Everywhere(fw.kind) ELSE {}]
    OBVIOUS
  <2>3. kept \in Ports
    BY <2>2 DEF SystemTyped, Ports, Everywhere
  <2>4. fw' \in Ports /\ vlessUnit' \in BOOLEAN
    BY <1>3, <2>2, <2>3, PortTyped DEF Reboot, SystemTyped
  <2>5. rules' \in [Captures -> RuleStates]
    BY <1>3 DEF Reboot, RuleStates
  <2> QED BY <1>3, <2>1, <2>4, <2>5 DEF Reboot, SystemTyped
<1> QED BY <1>1, <1>2, <1>3

\* The oneshot that fails for the VLESS port disturbs nobody.
LEMMA PortUnitStep ==
    ASSUME PortUnitFails
    PROVE  /\ step \in {"restart", "refresh"} /\ Fault("command_failed") /\ Advance
           /\ UNCHANGED files
BY DEF PortUnitFails

\* A helper takes steps only while an operation goes on.
LEMMA HelperBusy ==
    ASSUME HelperStep
    PROVE  step # "idle"
<1>1. CASE Check \/ CheckFails \/ WriteSettings \/ WriteConfig \/ WriteCascade \/ WriteFails
  BY <1>1 DEF Check, CheckFails, WriteSettings, WriteConfig, WriteCascade, WriteFails
<1>2. CASE Enable \/ EnableFails \/ Restart \/ RestartFails \/ Refresh \/ RefreshFails
  BY <1>2 DEF Enable, EnableFails, Restart, RestartFails, Refresh, RefreshFails
<1>3. CASE \/ GatewayUnit \/ GatewayUnitFails \/ Firewall \/ FirewallFails
           \/ \E g \in Captures : ApplyRules(g) \/ RulesRefused(g) \/ RulesFail(g)
  BY <1>3 DEF GatewayUnit, GatewayUnitFails, Firewall, FirewallFails, ApplyRules, RulesRefused,
     RulesFail, Place, Captures
<1>4. CASE CascadeUnit \/ CascadeUnitFails \/ AwaitDone \/ AwaitTimeout \/ Finish
  BY <1>4 DEF CascadeUnit, CascadeUnitFails, AwaitDone, AwaitTimeout, Finish
<1> QED BY <1>1, <1>2, <1>3, <1>4, PortUnitStep DEF HelperStep

\* Every reachable state is well typed, and "idle" is where no operation is.
THEOREM TypeCorrect == Spec => []TypeOK
<1>1. Init => TypeOK
  <2> SUFFICES ASSUME Init PROVE HelperTyped /\ SystemTyped
    BY Typing
  <2>1. HelperTyped
    BY DefaultTyped DEF Init, HelperTyped, Steps, VlessOps, AllOperations
  <2>2. Effective(DefaultSettings, FALSE) \in Configs
    BY DefaultTyped, EffectiveTyped
  <2>3. fw \in Ports
    BY ConstantsAssumption DEF Init, Ports, Everywhere
  <2>4. rules \in [Captures -> RuleStates]
    BY DEF Init, RuleStates
  <2> QED BY <2>1, <2>2, <2>3, <2>4, DefaultTyped DEF Init, SystemTyped
<1>2. TypeOK /\ [Next]_vars => TypeOK'
  <2> SUFFICES ASSUME TypeOK, [Next]_vars PROVE TypeOK'
    OBVIOUS
  <2>1. CASE Request \/ HelperStep
    BY <2>1, RequestTyped, HelperStepTyped
  <2>2. CASE (\E g \in Captures : UnitStep(g) \/ UnitKilled(g)) \/ Kill \/ Reboot
    BY <2>2, OutsideTyped
  <2>3. CASE UNCHANGED vars
    BY <2>3 DEF TypeOK, vars, files, xrayState, helper
  <2> QED BY <2>1, <2>2, <2>3 DEF Next
<1> QED BY <1>1, <1>2, PTL DEF Spec

-----------------------------------------------------------------------------
(* The gateway and the cascade in the files.                               *)

\* Going on, after a step that leaves the files alone.
LEMMA AdvanceExclusive ==
    ASSUME ExclusiveInv, UNCHANGED files, Advance,
           step \in Steps \ {"idle", "check", "settings", "config", "cascade"}
    PROVE  ExclusiveInv'
BY DEF ExclusiveInv, PlanChecked, PlanCurrent, FilesExclusive, Replacing, Advance, Goto, After,
       Steps, files, VlessOps

\* Going on to a step behind all writing of files.
LEMMA GotoExclusive ==
    ASSUME ExclusiveInv, UNCHANGED files, ~Replacing,
           NEW st \in {"gateway_unit", "gateway_rules", "cascade_unit", "cascade_rules", "end"},
           Goto(st)
    PROVE  ExclusiveInv'
BY DEF ExclusiveInv, PlanChecked, PlanCurrent, FilesExclusive, Replacing, Goto, files

\* Leaving the lock.
LEMMA EndExclusive ==
    ASSUME ExclusiveInv, UNCHANGED files, ~Replacing, NEW o, End(o)
    PROVE  ExclusiveInv'
BY DEF ExclusiveInv, PlanChecked, PlanCurrent, FilesExclusive, Replacing, End, files

\* An exception, also one that leads back to the previous settings: they are
\* checked again.
LEMMA FailExclusive ==
    ASSUME ExclusiveInv, UNCHANGED files, ~Replacing, Fail
    PROVE  ExclusiveInv'
<1>1. CASE op \in VlessOps /\ ~undo
  BY <1>1 DEF Fail, ExclusiveInv, PlanChecked, PlanCurrent, FilesExclusive, files, VlessOps,
              Replacing
<1>2. CASE ~(op \in VlessOps /\ ~undo)
  BY <1>2, EndExclusive DEF Fail
<1> QED BY <1>1, <1>2

\* A request: what it is going to write is not checked yet, except by a restore.
LEMMA RequestExclusive ==
    ASSUME ExclusiveInv, Request
    PROVE  ExclusiveInv'
<1> USE DEF ExclusiveInv, PlanChecked, PlanCurrent, FilesExclusive, Replacing, Begin, files
<1>1. CASE XraySave
  BY <1>1 DEF XraySave
<1>2. CASE CreateVlessProfile
  BY <1>2 DEF CreateVlessProfile
<1>3. CASE DeleteVlessProfile
  BY <1>3 DEF DeleteVlessProfile
<1>4. CASE SyncWarp
  BY <1>4 DEF SyncWarp
<1>5. CASE CascadeSave
  BY <1>5 DEF CascadeSave
<1>6. CASE CascadeRestart
  BY <1>6 DEF CascadeRestart
<1>7. CASE RefreshGeofiles
  BY <1>7 DEF RefreshGeofiles
<1>8. CASE Restore
  BY <1>8 DEF Restore
<1> QED
  BY <1>1, <1>2, <1>3, <1>4, <1>5, <1>6, <1>7, <1>8 DEF Request

\* The steps that write the files, and the check before them.
LEMMA WritesExclusive ==
    ASSUME TypeOK, ExclusiveInv, Check \/ WriteSettings \/ WriteConfig \/ WriteCascade
    PROVE  ExclusiveInv'
<1>0. step # "idle" => op # "none"
  BY DEF TypeOK
<1>1. CASE Check
  <2>1. CASE Refused
    BY <1>1, <2>1, EndExclusive DEF Check, files, Replacing
  <2>2. CASE ~Refused
    BY <1>1, <2>2 DEF Check, Refused, ExclusiveInv, PlanChecked, PlanCurrent,
       FilesExclusive, Compatible, Replacing, Advance, Goto, After, files
  <2> QED BY <2>1, <2>2
<1> USE DEF ExclusiveInv, PlanChecked, PlanCurrent, FilesExclusive, Compatible, Replacing,
             Advance, Goto, After
<1>2. CASE WriteSettings
  BY <1>0, <1>2 DEF WriteSettings
<1>3. CASE WriteConfig
  BY <1>3 DEF WriteConfig
<1>4. CASE WriteCascade
  BY <1>4 DEF WriteCascade
<1> QED BY <1>1, <1>2, <1>3, <1>4

\* The other steps of a helper leave the files alone; none but a failing write
\* can stop a restore between them.
LEMMA OthersExclusive ==
    ASSUME TypeOK, ExclusiveInv, RestoreEnds, HelperStep,
           ~(Check \/ WriteSettings \/ WriteConfig \/ WriteCascade)
    PROVE  ExclusiveInv'
<1>1. CASE CheckFails
  BY <1>1, FailExclusive DEF CheckFails, files, Replacing
<1>2. CASE WriteFails
  <2>1. ~Replacing
    BY <1>2 DEF WriteFails, CanBreak, RestoreEnds, ExclusiveInv, Replacing
  <2> QED BY <1>2, <2>1, FailExclusive DEF WriteFails, files
<1>3. CASE Enable \/ Restart \/ Refresh \/ GatewayUnit \/ Firewall \/ CascadeUnit
           \/ AwaitDone
  BY <1>3, AdvanceExclusive
     DEF Enable, Restart, Refresh, GatewayUnit, Firewall, CascadeUnit, AwaitDone, Steps, files
<1>4. CASE EnableFails \/ RestartFails
  BY <1>4, AdvanceExclusive, FailExclusive, GotoExclusive
     DEF EnableFails, RestartFails, Steps, files, Replacing
<1>5. CASE RefreshFails
  BY <1>5, AdvanceExclusive, FailExclusive DEF RefreshFails, Steps, files, Replacing
<1>6. CASE GatewayUnitFails
  <2>1. After("gateway_rules") \in {"cascade_unit", "cascade_rules", "end"}
    BY DEF After
  <2> QED BY <1>6, <2>1, AdvanceExclusive, FailExclusive, GotoExclusive
          DEF GatewayUnitFails, Forgiven, Steps, files, Replacing
<1>7. ASSUME NEW g \in Captures,
             ApplyRules(g) \/ RulesRefused(g) \/ RulesFail(g)
      PROVE  ExclusiveInv'
  <2>1. step \in {"gateway_rules", "cascade_rules"} /\ UNCHANGED files
    BY <1>7 DEF ApplyRules, RulesRefused, RulesFail, Place, Captures, files
  <2>2. After(step) \in {"cascade_unit", "cascade_rules", "end"}
    BY <2>1 DEF After
  <2> QED BY <1>7, <2>1, <2>2, AdvanceExclusive, FailExclusive, GotoExclusive
          DEF ApplyRules, RulesRefused, RulesFail, Forgiven, Steps, Replacing
<1>8. CASE FirewallFails \/ AwaitTimeout
  BY <1>8, FailExclusive DEF FirewallFails, AwaitTimeout, files, Replacing
<1>9. CASE CascadeUnitFails
  BY <1>9, FailExclusive, GotoExclusive DEF CascadeUnitFails, files, Replacing
<1>10. CASE Finish
  BY <1>10, EndExclusive DEF Finish, files, Replacing
<1>11. CASE PortUnitFails
  BY <1>11, AdvanceExclusive DEF PortUnitFails, Steps, files
<1> QED
  BY <1>1, <1>2, <1>3, <1>4, <1>5, <1>6, <1>7, <1>8, <1>9, <1>10, <1>11 DEF HelperStep

\* The units leave the files alone; a helper is killed, by systemd or by a
\* reboot, but not between the files of a restore.
LEMMA OutsideExclusive ==
    ASSUME ExclusiveInv, RestoreEnds,
           (\E g \in Captures : UnitStep(g) \/ UnitKilled(g)) \/ Kill \/ Reboot
    PROVE  ExclusiveInv'
<1>1. ASSUME NEW g \in Captures, UnitStep(g) \/ UnitKilled(g)
      PROVE  ExclusiveInv'
  <2>1. UNCHANGED <<files, helper>>
    BY <1>1 DEF UnitStep, UnitApply, UnitApplyFails, UnitRemove, UnitRemoveFails, UnitKilled
  <2> QED BY <2>1 DEF ExclusiveInv, PlanChecked, PlanCurrent, FilesExclusive, Replacing, files, helper
<1>2. CASE Kill \/ Reboot
  <2>1. UNCHANGED files /\ End("none")
    BY <1>2 DEF Kill, Reboot, files
  <2>2. ~Replacing
    BY <1>2 DEF Kill, Reboot, CanBreak, RestoreEnds, ExclusiveInv, Replacing
  <2> QED BY <2>1, <2>2, EndExclusive
<1> QED BY <1>1, <1>2

\* What is written is checked together, read under the lock, and written in
\* an order that keeps the files exclusive.
THEOREM PlansExclusive ==
    ASSUME RestoreEnds
    PROVE  Spec => []ExclusiveInv
<1>1. Init => ExclusiveInv
  BY DEF Init, ExclusiveInv, PlanChecked, PlanCurrent, FilesExclusive, Compatible
<1>2. TypeOK /\ ExclusiveInv /\ [Next]_vars => ExclusiveInv'
  <2> SUFFICES ASSUME TypeOK, ExclusiveInv, [Next]_vars PROVE ExclusiveInv'
    OBVIOUS
  <2>1. CASE Request
    BY <2>1, RequestExclusive
  <2>2. CASE HelperStep
    BY <2>2, WritesExclusive, OthersExclusive
  <2>3. CASE (\E g \in Captures : UnitStep(g) \/ UnitKilled(g)) \/ Kill \/ Reboot
    BY <2>3, OutsideExclusive
  <2>4. CASE UNCHANGED vars
    BY <2>4 DEF ExclusiveInv, PlanChecked, PlanCurrent, FilesExclusive, Replacing, vars, files,
       helper
  <2> QED BY <2>1, <2>2, <2>3, <2>4 DEF Next
<1> QED BY <1>1, <1>2, TypeCorrect, PTL DEF Spec

\* The files never ask for the gateway and the cascade at once, under every
\* fault and in the middle of every operation but a restore that replaces them.
THEOREM NeverBoth ==
    ASSUME RestoreEnds
    PROVE  Spec => []FilesExclusive
<1>1. ExclusiveInv => FilesExclusive
  BY DEF ExclusiveInv
<1> QED BY <1>1, PlansExclusive, PTL

\* The steps of each operation.
StepsOf == [o \in AllOperations |->
    CASE o = "geofiles" -> {"refresh", "end"}
      [] o = "cascade_restart" -> {"check", "restart", "cascade_rules", "end"}
      [] o \in VlessOps -> {"check", "settings", "config", "enable", "restart", "firewall", "end"}
      [] o = "warp_sync" -> {"check", "settings", "config", "enable", "restart", "cascade_rules",
                             "end"}
      [] o = "xray_save" -> {"check", "settings", "config", "enable", "restart", "gateway_unit",
                             "gateway_rules", "cascade_rules", "end"}
      [] o = "cascade_save" -> {"refresh", "check", "settings", "config", "enable", "restart",
                                "cascade", "cascade_unit", "await", "cascade_rules", "end"}
      [] o = "restore" -> {"settings", "config", "cascade", "enable", "restart", "gateway_unit",
                           "gateway_rules", "cascade_unit", "await", "cascade_rules", "end"}]

\* The steps an operation takes only when the settings are written, the configuration is,
\* Xray starts at boot as they say, and it has been restarted.
WithSettings == Steps \ {"idle", "refresh", "check", "settings"}
WithConfig == WithSettings \ {"config"}
WithBoot == IF op = "cascade_save" THEN WithConfig \ {"enable"} ELSE WithConfig \ {"cascade", "enable"}
WithXray == WithBoot \ {"restart"}

\* Of these operations nothing is forgiven; of a restore there is nothing to forgive as
\* long as no command fails.
NoFaults == Faults \subseteq {"reboot"}

Strict == \/ op \in VlessOps \cup {"xray_save", "warp_sync", "cascade_save"}
          \/ op = "restore" /\ NoFaults

\* What a helper knows of its local variables.
LocalInv ==
    /\ op # "none" => step \in StepsOf[op] /\ answer = "none"
    /\ op \notin {"none", "cascade_save", "restore"} => newCascade = cascade
    /\ op = "cascade_save" /\ step \in {"cascade_unit", "await", "cascade_rules", "end"} =>
          newCascade = cascade
    /\ op = "restore" /\ step \notin {"settings", "config", "cascade"} => newCascade = cascade
    /\ op \in {"warp_sync", "cascade_save", "cascade_restart", "geofiles"} => new = settings
    /\ op \in VlessOps =>
          /\ new.gateway = settings.gateway /\ prev.gateway = settings.gateway
          /\ new.managed = settings.managed /\ prev.managed = settings.managed
          /\ undo => new = prev
          /\ step # "check" \/ undo => new.managed /\ Compatible(new, newCascade)

\* What it has done so far.
DoneInv ==
    /\ Strict =>
          /\ step \in WithSettings => settings = new
          /\ step \in WithConfig => config = Effective(new, newCascade)
          /\ step \in WithBoot => xrayBoot = new.enabled
          /\ step \in WithXray => /\ xray.active = new.enabled
                                  /\ xray.active => xray.runs = config
    /\ op = "cascade_restart" /\ step \in {"cascade_rules", "end"} => xray.runs = config
    /\ op = "xray_save" /\ step \in {"cascade_rules", "end"} =>
          RulesAs(rules["gateway"], settings.gateway)
    /\ op \in {"xray_save", "warp_sync", "cascade_restart", "cascade_save"} /\ step = "end" /\ cascade =>
          RulesAs(rules["cascade"], TRUE)
    /\ op = "cascade_save" /\ step = "end" /\ ~cascade => RulesAs(rules["cascade"], FALSE)
    /\ op \in VlessOps /\ step = "end" => PortAs(fw, new.profiles # {})

AppliedInv == LocalInv /\ DoneInv

\* The steps of each operation, one by one.
LEMMA StepTable ==
    /\ StepsOf["geofiles"] = {"refresh", "end"}
    /\ StepsOf["cascade_restart"] = {"check", "restart", "cascade_rules", "end"}
    /\ \A o \in VlessOps : StepsOf[o] =
          {"check", "settings", "config", "enable", "restart", "firewall", "end"}
    /\ StepsOf["warp_sync"] =
          {"check", "settings", "config", "enable", "restart", "cascade_rules", "end"}
    /\ StepsOf["xray_save"] =
          {"check", "settings", "config", "enable", "restart", "gateway_unit",
           "gateway_rules", "cascade_rules", "end"}
    /\ StepsOf["cascade_save"] =
          {"refresh", "check", "settings", "config", "enable", "restart",
           "cascade", "cascade_unit", "await", "cascade_rules", "end"}
    /\ StepsOf["restore"] =
          {"settings", "config", "cascade", "enable", "restart", "gateway_unit",
           "gateway_rules", "cascade_unit", "await", "cascade_rules", "end"}
BY DEF StepsOf, AllOperations, VlessOps

\* An operation is one of these.
LEMMA OperationCases ==
    ASSUME TypeOK, op # "none"
    PROVE  op \in VlessOps \cup {"xray_save", "warp_sync", "cascade_save", "cascade_restart",
                                 "geofiles", "restore"}
BY DEF TypeOK, AllOperations

\* Every step of an operation but the last leads to another one.
LEMMA NextStep ==
    ASSUME TypeOK, op # "none", step \in StepsOf[op], step # "end"
    PROVE  After(step) \in StepsOf[op]
<1>1. CASE op \in VlessOps
  BY <1>1, StepTable DEF After, VlessOps
<1>2. CASE op = "xray_save"
  BY <1>2, StepTable DEF After, VlessOps
<1>3. CASE op = "warp_sync"
  BY <1>3, StepTable DEF After, VlessOps
<1>4. CASE op = "cascade_save"
  BY <1>4, StepTable DEF After, VlessOps
<1>5. CASE op = "cascade_restart"
  BY <1>5, StepTable DEF After, VlessOps
<1>6. CASE op = "geofiles"
  BY <1>6, StepTable DEF After, VlessOps
<1>7. CASE op = "restore"
  BY <1>7, StepTable DEF After, VlessOps
<1> QED BY <1>1, <1>2, <1>3, <1>4, <1>5, <1>6, <1>7, OperationCases

-----------------------------------------------------------------------------
(* What a helper knows.                                                    *)

\* Leaving the lock.
LEMMA EndApplied ==
    ASSUME NEW o, End(o)
    PROVE  AppliedInv'
BY DEF End, AppliedInv, LocalInv, DoneInv, Strict, VlessOps

\* An exception: the steps of a VLESS operation begin again.
LEMMA FailApplied ==
    ASSUME TypeOK, LocalInv, Fail, UNCHANGED files, step = "check" => ~Refused
    PROVE  AppliedInv'
<1>1. CASE op \in VlessOps /\ ~undo
  <2>1. /\ op' = op /\ undo' /\ new' = prev /\ prev' = prev /\ step' = "check"
        /\ newCascade' = newCascade /\ answer' = answer
        /\ settings' = settings /\ cascade' = cascade
    BY <1>1 DEF Fail, files
  <2>2. /\ prev.managed = new.managed /\ prev.gateway = new.gateway
        /\ new.managed /\ Compatible(new, newCascade)
    BY <1>1 DEF LocalInv, Refused, VlessOps
  <2>3. "check" \in StepsOf[op] /\ answer = "none"
    BY <1>1, StepTable DEF LocalInv, VlessOps
  <2>4. LocalInv'
    BY <1>1, <2>1, <2>2, <2>3 DEF LocalInv, Compatible, VlessOps
  <2>5. DoneInv'
    BY <1>1, <2>1 DEF DoneInv, Strict, VlessOps, WithSettings, WithConfig, WithBoot, WithXray
  <2> QED BY <2>4, <2>5 DEF AppliedInv
<1>2. CASE ~(op \in VlessOps /\ ~undo)
  BY <1>2, EndApplied DEF Fail
<1> QED BY <1>1, <1>2

\* Going on, with the files as they are.
LEMMA GotoLocal ==
    ASSUME TypeOK, LocalInv, UNCHANGED files, op # "none",
           step \notin {"check", "settings", "config", "cascade"},
           NEW st \in StepsOf[op], Goto(st),
           op = "cascade_save" =>
              \/ st \in {"check", "settings", "config", "enable", "restart", "cascade"}
              \/ step \in {"cascade_unit", "await", "cascade_rules", "end"}
    PROVE  LocalInv'
<1>1. /\ step' = st /\ UNCHANGED <<op, new, newCascade, prev, undo, answer, settings, cascade>>
  BY DEF Goto, files
<1> QED BY <1>1 DEF LocalInv, Compatible

\* Where an operation that does not fail goes from here.
LEMMA AdvanceLocal ==
    ASSUME TypeOK, LocalInv, UNCHANGED files, op # "none", Advance,
           step \notin {"check", "settings", "config", "cascade", "end"}
    PROVE  LocalInv'
<1>1. After(step) \in StepsOf[op]
  BY NextStep DEF LocalInv
<1>2. op = "cascade_save" =>
              \/ After(step) \in {"check", "settings", "config", "enable", "restart", "cascade"}
              \/ step \in {"cascade_unit", "await", "cascade_rules", "end"}
  <2>1. op = "cascade_save" => step \in StepsOf["cascade_save"]
    BY DEF LocalInv
  <2> QED BY <2>1, StepTable DEF After, VlessOps
<1> QED BY <1>1, <1>2, GotoLocal DEF Advance

\* Going on after a step that has nothing to do with the settings.
LEMMA GotoDone ==
    ASSUME TypeOK, LocalInv, DoneInv, UNCHANGED <<files, xrayState>>, op # "none",
           step \in {"gateway_unit", "gateway_rules", "cascade_unit", "await", "cascade_rules",
                     "firewall", "end"},
           NEW st \in StepsOf[op], Goto(st),
           st = "end" => op = "restore",
           st = "cascade_rules" => op # "xray_save"
    PROVE  DoneInv'
<1>1. /\ step' = st /\ UNCHANGED <<op, new, newCascade, prev, undo, settings, cascade, config,
                                   xray, xrayBoot>>
  BY DEF Goto, files, xrayState
<1>2. op = "cascade_restart" => step \in {"check", "restart", "cascade_rules", "end"}
  BY StepTable DEF LocalInv
<1> QED
  BY <1>1, <1>2 DEF DoneInv, Strict, WithSettings, WithConfig, WithBoot, WithXray, VlessOps, Steps

\* What Xray runs after a restart or a stop.
LEMMA Restarted ==
    ASSUME TypeOK, op # "none",
           IF new.enabled \/ op = "cascade_restart" THEN StartXray ELSE StopXray
    PROVE  /\ op # "cascade_restart" => xray'.active = new.enabled
           /\ xray'.active => xray'.runs = config
           /\ op = "cascade_restart" => xray'.runs = config
<1>1. xray \in [active : BOOLEAN, runs : Configs] /\ new.enabled \in BOOLEAN
  BY DEF TypeOK, Settings
<1>2. CASE new.enabled \/ op = "cascade_restart"
  <2>1. xray'.active = TRUE /\ xray'.runs = config
    BY <1>2 DEF StartXray
  <2>2. op # "cascade_restart" => new.enabled = TRUE
    BY <1>1, <1>2
  <2> QED BY <2>1, <2>2
<1>3. CASE ~(new.enabled \/ op = "cascade_restart")
  BY <1>1, <1>3 DEF StopXray
<1> QED BY <1>2, <1>3

\* The check, and the files that are written after it.
LEMMA WritesApplied ==
    ASSUME TypeOK, AppliedInv, Check \/ WriteSettings \/ WriteConfig \/ WriteCascade
    PROVE  AppliedInv'
<1>0. op # "none" /\ step \in StepsOf[op] /\ answer = "none"
  BY DEF TypeOK, AppliedInv, LocalInv, Check, WriteSettings, WriteConfig, WriteCascade
<1>1. step # "end" => After(step) \in StepsOf[op]
  BY <1>0, NextStep
<1>2. CASE Check /\ Refused
  BY <1>2, EndApplied DEF Check
<1>3. CASE Check /\ ~Refused
  <2>1. /\ step = "check" /\ step' = IF op = "cascade_restart" THEN "restart" ELSE "settings"
        /\ UNCHANGED <<op, new, newCascade, prev, undo, answer, settings, cascade>>
    BY <1>3 DEF Check, Advance, Goto, After, files
  <2>2. step' \in StepsOf[op]
    BY <1>1, <1>3, <2>1 DEF Check, Advance, Goto
  <2>3. op \in VlessOps => new.managed /\ Compatible(new, newCascade)
    BY <1>3 DEF Refused, VlessOps
  <2>4. LocalInv'
    BY <1>0, <2>1, <2>2, <2>3 DEF AppliedInv, LocalInv, Compatible
  <2>5. DoneInv'
    BY <2>1 DEF DoneInv, Strict, WithSettings, WithConfig, WithBoot, WithXray, VlessOps
  <2> QED BY <2>4, <2>5 DEF AppliedInv
<1>4. CASE WriteSettings
  <2>1. /\ step = "settings" /\ step' = "config" /\ settings' = new
        /\ UNCHANGED <<op, new, newCascade, prev, undo, answer, cascade>>
    BY <1>4 DEF WriteSettings, Advance, Goto, After
  <2>2. step' \in StepsOf[op]
    BY <1>1, <1>4, <2>1 DEF WriteSettings, Advance, Goto
  <2>3. LocalInv'
    BY <1>0, <2>1, <2>2 DEF AppliedInv, LocalInv, Compatible
  <2>4. DoneInv'
    BY <2>1 DEF DoneInv, Strict, WithSettings, WithConfig, WithBoot, WithXray, VlessOps
  <2> QED BY <2>3, <2>4 DEF AppliedInv
<1>5. CASE WriteConfig
  <2>1. /\ step = "config" /\ step' = IF op = "restore" THEN "cascade" ELSE "enable"
        /\ config' = Effective(new, newCascade)
        /\ UNCHANGED <<op, new, newCascade, prev, undo, answer, settings, cascade>>
    BY <1>5 DEF WriteConfig, Advance, Goto, After
  <2>2. step' \in StepsOf[op]
    BY <1>1, <1>5, <2>1 DEF WriteConfig, Advance, Goto
  <2>3. LocalInv'
    BY <1>0, <2>1, <2>2 DEF AppliedInv, LocalInv, Compatible
  <2>4. Strict => settings = new
    BY <2>1 DEF AppliedInv, DoneInv, WithSettings, Steps
  <2>5. DoneInv'
    BY <2>1, <2>4 DEF DoneInv, Strict, WithSettings, WithConfig, WithBoot, WithXray, VlessOps,
                      Effective
  <2> QED BY <2>3, <2>5 DEF AppliedInv
<1>6. CASE WriteCascade
  <2>1. /\ step = "cascade" /\ step' = IF op = "restore" THEN "enable" ELSE "cascade_unit"
        /\ cascade' = newCascade
        /\ UNCHANGED <<op, new, newCascade, prev, undo, answer, settings, config, xray, xrayBoot>>
    BY <1>6 DEF WriteCascade, Advance, Goto, After, xrayState
  <2>2. step' \in StepsOf[op]
    BY <1>1, <1>6, <2>1 DEF WriteCascade, Advance, Goto
  <2>3. op \in {"cascade_save", "restore"}
    BY <1>0, <2>1, StepTable, OperationCases
  <2>4. LocalInv'
    BY <1>0, <2>1, <2>2, <2>3 DEF AppliedInv, LocalInv, VlessOps
  <2>5. DoneInv'
    BY <2>1, <2>3 DEF AppliedInv, DoneInv, Strict, WithSettings, WithConfig, WithBoot, WithXray,
                      VlessOps, Effective, Steps
  <2> QED BY <2>4, <2>5 DEF AppliedInv
<1> QED BY <1>2, <1>3, <1>4, <1>5, <1>6

\* Xray, after the files.
LEMMA ServiceApplied ==
    ASSUME TypeOK, AppliedInv, Enable \/ Restart \/ Refresh \/ PortUnitFails
    PROVE  AppliedInv'
<1>0. /\ op # "none" /\ step \in StepsOf[op] /\ step \in {"enable", "restart", "refresh"}
      /\ Advance /\ UNCHANGED files
  BY DEF TypeOK, AppliedInv, LocalInv, Enable, Restart, Refresh, PortUnitFails
<1>1. LocalInv'
  BY <1>0, AdvanceLocal DEF AppliedInv
<1>2. /\ step' = After(step) /\ After(step) \in StepsOf[op]
      /\ UNCHANGED <<op, new, newCascade, prev, undo, settings, cascade, config>>
  BY <1>0, NextStep DEF Advance, Goto, files
<1>3. CASE Enable
  <2>1. step = "enable" /\ step' = "restart" /\ xrayBoot' = new.enabled /\ xray' = xray
    BY <1>2, <1>3 DEF Enable, After
  <2>2. Strict => settings = new /\ config = Effective(new, newCascade)
    BY <2>1 DEF AppliedInv, DoneInv, WithConfig, WithSettings, Steps
  <2>3. DoneInv'
    BY <1>2, <2>1, <2>2 DEF DoneInv, Strict, WithSettings, WithConfig, WithBoot, WithXray,
                             VlessOps, Effective
  <2> QED BY <1>1, <2>3 DEF AppliedInv
<1>4. CASE step = "restart"
  <2>1. step = "restart" /\ xrayBoot' = xrayBoot
    BY <1>4 DEF Enable, Restart, Refresh, PortUnitFails
  <2>2. /\ op # "cascade_restart" => xray'.active = new.enabled
        /\ xray'.active => xray'.runs = config
        /\ op = "cascade_restart" => xray'.runs = config
    <3>1. CASE Restart
      BY <1>0, <3>1, Restarted DEF Restart
    <3>2. CASE PortUnitFails
      BY <1>4, <3>2 DEF PortUnitFails, TypeOK, Settings
    <3> QED BY <1>4, <3>1, <3>2 DEF Enable, Refresh
  <2>3. Strict => settings = new /\ config = Effective(new, newCascade) /\ xrayBoot = new.enabled
    BY <2>1 DEF AppliedInv, DoneInv, WithBoot, WithConfig, WithSettings, Steps
  <2>4. step' = CASE op \in {"xray_save", "restore"} -> "gateway_unit"
                  [] op = "cascade_save" -> "cascade"
                  [] op \in VlessOps -> "firewall"
                  [] OTHER -> IF cascade THEN "cascade_rules" ELSE "end"
    BY <1>2, <2>1 DEF After
  <2>5. step' \notin {"cascade_rules", "end"} \/ op \in {"warp_sync", "cascade_restart", "geofiles"}
    BY <1>0, <2>4, OperationCases
  <2>6. step' = "end" => ~cascade
    BY <1>0, <2>4, OperationCases
  <2>7. Strict => op # "cascade_restart"
    BY DEF Strict, VlessOps
  <2>8. DoneInv'
    BY <1>2, <2>1, <2>2, <2>3, <2>5, <2>6, <2>7
       DEF DoneInv, Strict, WithSettings, WithConfig, WithBoot, WithXray, VlessOps, Effective
  <2> QED BY <1>1, <2>8 DEF AppliedInv
<1>5. CASE step = "refresh"
  <2>1. op \in {"geofiles", "cascade_save"} /\ step = "refresh"
    BY <1>0, <1>5, StepTable, OperationCases
  <2>2. op = "cascade_save" => step' = "check"
    BY <1>2, <2>1 DEF After
  <2>3. DoneInv'
    BY <1>2, <2>1, <2>2 DEF DoneInv, Strict, WithSettings, WithConfig, WithBoot, WithXray, VlessOps
  <2> QED BY <1>1, <2>3 DEF AppliedInv
<1> QED BY <1>3, <1>4, <1>5 DEF Restart, Refresh, PortUnitFails

\* Nothing is promised of these.
LEMMA LaxDone ==
    ASSUME op = "geofiles" \/ (op = "restore" /\ ~NoFaults), op' = op
    PROVE  DoneInv'
BY DEF DoneInv, Strict, VlessOps, NoFaults

\* The rules, the units and the firewall.
LEMMA RulesApplied ==
    ASSUME TypeOK, AppliedInv,
           \/ GatewayUnit \/ ApplyRules("gateway") \/ ApplyRules("cascade")
           \/ Firewall \/ CascadeUnit \/ AwaitDone
    PROVE  AppliedInv'
<1>0. /\ op # "none" /\ step \in StepsOf[op] /\ Advance
      /\ UNCHANGED <<files, xrayState>> \/ Firewall
      /\ step \in {"gateway_unit", "gateway_rules", "cascade_rules", "firewall", "cascade_unit",
                   "await"}
  BY DEF TypeOK, AppliedInv, LocalInv, GatewayUnit, ApplyRules, Place, Firewall, CascadeUnit,
         AwaitDone
<1>1. op # "none" /\ step \in StepsOf[op] /\ Advance /\ UNCHANGED <<files, xray, xrayBoot>>
  BY <1>0 DEF TypeOK, AppliedInv, LocalInv, Firewall, xrayState
<1>2. LocalInv'
  BY <1>0, <1>1, AdvanceLocal DEF AppliedInv
<1>3. /\ step' = After(step) /\ After(step) \in StepsOf[op]
      /\ UNCHANGED <<op, new, newCascade, prev, undo, settings, cascade, config, xray, xrayBoot>>
  BY <1>0, <1>1, NextStep DEF Advance, Goto, files
<1>4. CASE GatewayUnit \/ CascadeUnit \/ AwaitDone
  <2>1. /\ step \in {"gateway_unit", "cascade_unit", "await"} /\ UNCHANGED <<files, xrayState>>
        /\ step' = CASE step = "gateway_unit" -> "gateway_rules"
                     [] step = "cascade_unit" -> "await"
                     [] step = "await" -> "cascade_rules"
    BY <1>3, <1>4 DEF GatewayUnit, CascadeUnit, AwaitDone, After
  <2>2. step = "await" => op # "xray_save"
    BY <1>1, StepTable
  <2>3. step' \in {"gateway_rules", "await", "cascade_rules"}
    BY <2>1
  <2>4. step' = "cascade_rules" => step = "await"
    BY <2>1
  <2> QED BY <1>1, <1>2, <1>3, <2>1, <2>2, <2>3, <2>4, GotoDone DEF AppliedInv, Advance
<1>5. CASE ApplyRules("gateway")
  <2>1. /\ step = "gateway_rules"
        /\ rules' = [rules EXCEPT !["gateway"] = IF settings.gateway THEN "full" ELSE "none"]
    BY <1>5 DEF ApplyRules, Place, SetRules, Wanted
  <2>2. rules'["gateway"] = IF settings.gateway THEN "full" ELSE "none"
    BY <2>1 DEF TypeOK, Captures
  <2>3. op \in {"xray_save", "restore"}
    BY <1>1, <2>1, StepTable, OperationCases DEF VlessOps
  <2>4. op = "xray_save" /\ step' = "end" => ~cascade
    BY <1>3, <2>1 DEF After
  <2>6. RulesAs(rules'["gateway"], settings.gateway)
    BY <2>2 DEF RulesAs
  <2>5. DoneInv'
    BY <1>3, <2>1, <2>6, <2>3, <2>4
       DEF AppliedInv, DoneInv, Strict, WithSettings, WithConfig, WithBoot, WithXray, VlessOps, Steps
  <2> QED BY <1>2, <2>5 DEF AppliedInv
<1>6. CASE ApplyRules("cascade")
  <2>1. step = "cascade_rules" /\ rules' = [rules EXCEPT !["cascade"] = IF cascade THEN "full" ELSE "none"]
    BY <1>6 DEF ApplyRules, Place, SetRules, Wanted
  <2>2. /\ rules'["cascade"] = IF cascade THEN "full" ELSE "none"
        /\ rules'["gateway"] = rules["gateway"]
    BY <2>1 DEF TypeOK, Captures
  <2>3. step' = "end" /\ op \notin VlessOps
    BY <1>1, <1>3, <2>1, StepTable DEF After
  <2>5. RulesAs(rules'["cascade"], cascade)
    BY <2>2 DEF RulesAs
  <2>4. DoneInv'
    BY <1>3, <2>1, <2>2, <2>3, <2>5
       DEF AppliedInv, DoneInv, Strict, WithSettings, WithConfig, WithBoot, WithXray, VlessOps, Steps,
           RulesAs
  <2> QED BY <1>2, <2>4 DEF AppliedInv
<1>7. CASE Firewall
  <2>1. step = "firewall" /\ step' = "end" /\ PortAs(fw', new.profiles # {})
    BY <1>3, <1>7, PortTyped DEF Firewall, After, TypeOK
  <2>2. op \in VlessOps
    BY <1>1, <2>1, StepTable, OperationCases
  <2>3. DoneInv'
    BY <1>3, <2>1, <2>2
       DEF AppliedInv, DoneInv, Strict, WithSettings, WithConfig, WithBoot, WithXray, VlessOps, Steps
  <2> QED BY <1>2, <2>3 DEF AppliedInv
<1> QED BY <1>4, <1>5, <1>6, <1>7

\* A step that fails: an exception, or a restore that goes on.
LEMMA FailuresApplied ==
    ASSUME TypeOK, AppliedInv,
           \/ CheckFails \/ WriteFails \/ EnableFails \/ RestartFails \/ RefreshFails
           \/ GatewayUnitFails \/ FirewallFails \/ CascadeUnitFails \/ AwaitTimeout
           \/ \E g \in Captures : RulesRefused(g) \/ RulesFail(g)
    PROVE  AppliedInv'
<1>0. /\ op # "none" /\ step \in StepsOf[op] /\ UNCHANGED files
      /\ step = "check" => ~Refused
  BY DEF TypeOK, AppliedInv, LocalInv, CheckFails, WriteFails, EnableFails, RestartFails,
         RefreshFails, GatewayUnitFails, FirewallFails, CascadeUnitFails, AwaitTimeout,
         RulesRefused, RulesFail, Place, Captures, files
<1>1. CASE Fail
  BY <1>0, <1>1, FailApplied DEF AppliedInv
<1>2. ASSUME Fault("command_failed") PROVE ~NoFaults
  BY <1>2 DEF Fault, NoFaults
<1>3. CASE EnableFails /\ op = "restore" /\ Goto("gateway_unit")
  <2>1. "gateway_unit" \in StepsOf[op] /\ op' = op /\ step = "enable"
    BY <1>3, StepTable DEF Goto, EnableFails
  <2>2. LocalInv'
    BY <1>0, <1>3, <2>1, GotoLocal DEF AppliedInv
  <2>3. DoneInv'
    BY <1>2, <1>3, <2>1, LaxDone DEF EnableFails
  <2> QED BY <2>2, <2>3 DEF AppliedInv
<1>4. CASE RestartFails /\ op = "restore" /\ Advance
  <2>1. step = "restart" /\ op' = op
    BY <1>4 DEF RestartFails, Advance, Goto
  <2>2. LocalInv'
    BY <1>0, <1>4, <2>1, AdvanceLocal DEF AppliedInv
  <2>3. DoneInv'
    BY <1>2, <1>4, <2>1, LaxDone DEF RestartFails
  <2> QED BY <2>2, <2>3 DEF AppliedInv
<1>5. CASE RefreshFails /\ Advance
  <2>1. step = "refresh" /\ op \in {"geofiles", "cascade_save"} /\ op' = op
    BY <1>0, <1>5, StepTable, OperationCases DEF RefreshFails, Advance, Goto
  <2>2. LocalInv'
    BY <1>0, <1>5, <2>1, AdvanceLocal DEF AppliedInv
  <2>3. op = "cascade_save" => step' = "check"
    BY <1>5, <2>1 DEF Advance, Goto, After
  <2>4. op = "cascade_save" => DoneInv'
    BY <2>1, <2>3 DEF DoneInv, Strict, WithSettings, WithConfig, WithBoot, WithXray, VlessOps
  <2>5. ASSUME op = "geofiles" PROVE DoneInv'
    <3>1. op' = "geofiles"
      BY <2>1, <2>5
    <3> QED BY <3>1 DEF DoneInv, Strict, VlessOps
  <2> QED BY <2>1, <2>2, <2>4, <2>5 DEF AppliedInv
<1>6. CASE GatewayUnitFails /\ (Advance \/ Forgiven("gateway_rules"))
  <2>1. step = "gateway_unit" /\ op' = op /\ UNCHANGED xrayState
    BY <1>6 DEF GatewayUnitFails, Advance, Goto, Forgiven
  <2>2. CASE Advance
    <3>1. LocalInv'
      BY <1>0, <2>1, <2>2, AdvanceLocal DEF AppliedInv
    <3>2. After(step) = "gateway_rules" /\ After(step) \in StepsOf[op]
      BY <1>0, <2>1, NextStep DEF After
    <3> QED BY <1>0, <2>1, <2>2, <3>1, <3>2, GotoDone DEF AppliedInv, Advance
  <2>3. CASE Forgiven("gateway_rules")
    <3>1. op = "restore" /\ Goto("cascade_unit") /\ "cascade_unit" \in StepsOf[op]
      BY <2>3, StepTable DEF Forgiven, After
    <3>2. LocalInv'
      BY <1>0, <2>1, <3>1, GotoLocal DEF AppliedInv
    <3> QED BY <1>2, <1>6, <2>1, <3>1, <3>2, LaxDone DEF AppliedInv, GatewayUnitFails
  <2> QED BY <1>6, <2>2, <2>3
<1>7. ASSUME NEW g \in Captures, RulesRefused(g) \/ RulesFail(g), Forgiven(step)
      PROVE  AppliedInv'
  <2>1. /\ step \in {"gateway_rules", "cascade_rules"} /\ op = "restore"
        /\ Goto(After(step)) /\ UNCHANGED xrayState
    BY <1>7 DEF RulesRefused, RulesFail, Place, Captures, Forgiven
  <2>2. After(step) \in {"cascade_unit", "end"} /\ After(step) \in StepsOf[op]
    BY <1>0, <2>1, NextStep DEF After
  <2>3. LocalInv'
    BY <1>0, <2>1, <2>2, GotoLocal DEF AppliedInv
  <2>4. DoneInv'
    BY <1>0, <2>1, <2>2, GotoDone DEF AppliedInv
  <2> QED BY <2>3, <2>4 DEF AppliedInv
<1>9. ASSUME NEW g \in Captures, RulesFail(g), Advance, ~Wanted(g), LeaveRules(g)
      PROVE  AppliedInv'
  <2>1. step = Place[g] /\ step \in {"gateway_rules", "cascade_rules"} /\ UNCHANGED <<files, xrayState>>
    BY <1>9 DEF RulesFail, Place, Captures
  <2>2. LocalInv'
    BY <1>0, <1>9, <2>1, AdvanceLocal DEF AppliedInv
  <2>3. /\ step' = After(step) /\ After(step) \in StepsOf[op]
        /\ UNCHANGED <<op, new, newCascade, prev, undo, settings, cascade, config, xray, xrayBoot>>
    BY <1>0, <1>9, <2>1, NextStep DEF Advance, Goto, files, xrayState
  <2>4. /\ RulesAs(rules'[g], FALSE)
        /\ g = "cascade" => rules'["gateway"] = rules["gateway"]
        /\ g = "gateway" => rules'["cascade"] = rules["cascade"]
    BY <1>9 DEF LeaveRules, RulesAs, TypeOK, Captures
  <2>5. CASE g = "gateway"
    <3>1. step = "gateway_rules" /\ ~settings.gateway
      BY <1>9, <2>1, <2>5 DEF Place, Wanted
    <3>2. op \in {"xray_save", "restore"}
      BY <1>0, <3>1, StepTable, OperationCases DEF VlessOps
    <3>3. op = "xray_save" /\ step' = "end" => ~cascade
      BY <2>3, <3>1 DEF After
    <3>4. RulesAs(rules'["gateway"], settings.gateway)
      BY <2>4, <2>5, <3>1 DEF RulesAs
    <3>5. DoneInv'
      BY <2>3, <3>1, <3>2, <3>3, <3>4
         DEF AppliedInv, DoneInv, Strict, WithSettings, WithConfig, WithBoot, WithXray, VlessOps, Steps
    <3> QED BY <2>2, <3>5 DEF AppliedInv
  <2>6. CASE g = "cascade"
    <3>1. step = "cascade_rules" /\ ~cascade
      BY <1>9, <2>1, <2>6 DEF Place, Wanted
    <3>2. step' = "end" /\ op \notin VlessOps
      BY <1>0, <2>3, <3>1, StepTable DEF After
    <3>3. DoneInv'
      BY <2>3, <2>4, <2>6, <3>1, <3>2
         DEF AppliedInv, DoneInv, Strict, WithSettings, WithConfig, WithBoot, WithXray, VlessOps, Steps
    <3> QED BY <2>2, <3>3 DEF AppliedInv
  <2> QED BY <2>5, <2>6 DEF Captures
<1>8. CASE CascadeUnitFails /\ ~Fail
  <2>0. /\ step = "cascade_unit" /\ UNCHANGED xrayState
        /\ Goto("cascade_rules") \/ (op = "restore" /\ Goto("end"))
    BY <1>8 DEF CascadeUnitFails
  <2>5. op \in AllOperations
    BY <1>0 DEF TypeOK
  <2>1. op \in {"cascade_save", "restore"}
    BY <1>0, <2>0, <2>5, StepTable, OperationCases
  <2>2. "cascade_rules" \in StepsOf[op] /\ "end" \in StepsOf[op]
    BY <2>1, StepTable
  <2>3. LocalInv'
    BY <1>0, <2>0, <2>1, <2>2, GotoLocal DEF AppliedInv
  <2>4. DoneInv'
    BY <1>0, <2>0, <2>1, <2>2, GotoDone DEF AppliedInv
  <2> QED BY <2>3, <2>4 DEF AppliedInv
<1> QED
  BY <1>1, <1>3, <1>4, <1>5, <1>6, <1>7, <1>8, <1>9
  DEF CheckFails, WriteFails, EnableFails, RestartFails, RefreshFails, GatewayUnitFails,
      FirewallFails, CascadeUnitFails, AwaitTimeout, RulesRefused, RulesFail

\* A request: nothing has been done yet.
LEMMA BeginApplied ==
    ASSUME TypeOK, NEW o \in AllOperations, NEW s, NEW c, NEW first \in {"refresh", "check", "settings"},
           Begin(o, s, c, first),
           first \in StepsOf[o], o = "restore" => first = "settings",
           o \notin {"cascade_save", "restore"} => c = cascade,
           o \in {"warp_sync", "cascade_save", "cascade_restart", "geofiles"} => s = settings,
           o \in VlessOps => /\ s.gateway = settings.gateway /\ s.managed = settings.managed
                             /\ first = "check"
    PROVE  AppliedInv'
<1>1. /\ op' = o /\ step' = first /\ new' = s /\ newCascade' = c /\ prev' = settings
      /\ answer' = "none" /\ undo' = undo /\ settings' = settings /\ cascade' = cascade /\ op = "none"
  BY DEF Begin, files
<1>2. ~undo'
  BY <1>1 DEF TypeOK, VlessOps
<1>3. LocalInv'
  BY <1>1, <1>2 DEF LocalInv
<1>4. DoneInv'
  BY <1>1 DEF DoneInv, Strict, WithSettings, WithConfig, WithBoot, WithXray, VlessOps
<1> QED BY <1>3, <1>4 DEF AppliedInv

\* Each of them.
LEMMA RequestApplied ==
    ASSUME TypeOK, Request
    PROVE  AppliedInv'
<1>0. /\ \A o \in {"xray_save", "warp_sync", "cascade_restart", "cascade_save"} \cup VlessOps :
            o \in AllOperations /\ "check" \in StepsOf[o]
      /\ "restore" \in AllOperations /\ "settings" \in StepsOf["restore"]
      /\ \A o \in {"geofiles", "cascade_save"} :  o \in AllOperations /\ "refresh" \in StepsOf[o]
  BY StepTable DEF AllOperations
<1>1. CASE XraySave
  BY <1>0, <1>1, BeginApplied DEF XraySave, VlessOps
<1>2. CASE CreateVlessProfile
  <2>1. PICK p \in Profiles \ settings.profiles :
          Begin("vless_create",
              [settings EXCEPT !.enabled = settings.managed \/ @,
                               !.profiles = IF settings.managed THEN @ \cup {p} ELSE @],
              cascade, "check")
    BY <1>2 DEF CreateVlessProfile
  <2>2. PICK s : s = [settings EXCEPT !.enabled = settings.managed \/ @,
                               !.profiles = IF settings.managed THEN @ \cup {p} ELSE @]
    OBVIOUS
  <2>3. s.gateway = settings.gateway /\ s.managed = settings.managed
    BY <2>2 DEF TypeOK, Settings
  <2> QED BY <1>0, <2>1, <2>2, <2>3, BeginApplied DEF VlessOps
<1>3. CASE DeleteVlessProfile
  <2>1. PICK p \in settings.profiles :
          Begin("vless_delete", [settings EXCEPT !.profiles = @ \ {p}], cascade, "check")
    BY <1>3 DEF DeleteVlessProfile
  <2>2. PICK s : s = [settings EXCEPT !.profiles = @ \ {p}]
    OBVIOUS
  <2>3. s.gateway = settings.gateway /\ s.managed = settings.managed
    BY <2>2 DEF TypeOK, Settings
  <2> QED BY <1>0, <2>1, <2>2, <2>3, BeginApplied DEF VlessOps
<1>4. CASE SyncWarp
  BY <1>0, <1>4, BeginApplied DEF SyncWarp, VlessOps
<1>5. CASE CascadeSave
  BY <1>0, <1>5, BeginApplied DEF CascadeSave, VlessOps
<1>6. CASE CascadeRestart
  BY <1>0, <1>6, BeginApplied DEF CascadeRestart, VlessOps
<1>7. CASE RefreshGeofiles
  BY <1>0, <1>7, BeginApplied DEF RefreshGeofiles, VlessOps
<1>8. CASE Restore
  BY <1>0, <1>8, BeginApplied DEF Restore, VlessOps
<1> QED
  BY <1>1, <1>2, <1>3, <1>4, <1>5, <1>6, <1>7, <1>8 DEF Request

\* What it says depends on nothing else.
LEMMA WorkUntouched ==
    ASSUME AppliedInv, UNCHANGED <<settings, cascade, config, xray, xrayBoot, rules, fw, op, step,
                                   new, newCascade, prev, undo, answer>>
    PROVE  AppliedInv'
<1>1. LocalInv'
  BY DEF AppliedInv, LocalInv, Compatible
<1>2. Strict' = Strict /\ UNCHANGED <<WithSettings, WithConfig, WithBoot, WithXray>>
  BY DEF Strict, WithSettings, WithConfig, WithBoot, WithXray
<1>3. DoneInv'
  BY <1>2 DEF AppliedInv, DoneInv, Effective, RulesAs, PortAs
<1> QED BY <1>1, <1>3 DEF AppliedInv

\* The units run their helpers only while nobody has the lock.
LEMMA OutsideApplied ==
    ASSUME TypeOK, AppliedInv,
           (\E g \in Captures : UnitStep(g) \/ UnitKilled(g)) \/ Kill \/ Reboot
    PROVE  AppliedInv'
<1>1. CASE Kill \/ Reboot
  BY <1>1, EndApplied DEF Kill, Reboot
<1>2. ASSUME NEW g \in Captures, UnitStep(g)
      PROVE  AppliedInv'
  <2>1. op = "none" /\ UNCHANGED helper
    BY <1>2 DEF UnitStep, UnitApply, UnitApplyFails, UnitRemove, UnitRemoveFails
  <2>2. step = "idle"
    BY <2>1 DEF TypeOK
  <2>3. op' = "none" /\ ~Strict' /\ undo' = undo
    BY <2>1 DEF helper, Strict, VlessOps
  <2> QED BY <2>1, <2>2, <2>3 DEF AppliedInv, LocalInv, DoneInv, VlessOps, helper
<1>3. ASSUME NEW g \in Captures, UnitKilled(g)
      PROVE  AppliedInv'
  <2>1. UNCHANGED <<files, xrayState, rules, fw, helper>>
    BY <1>3 DEF UnitKilled
  <2> QED BY <2>1, WorkUntouched DEF files, xrayState, helper
<1> QED BY <1>1, <1>2, <1>3

\* What an operation has done so far is as it says, under every fault.
THEOREM WorkDone == Spec => []AppliedInv
<1>1. Init => AppliedInv
  BY DEF Init, AppliedInv, LocalInv, DoneInv, Strict, VlessOps
<1>2. TypeOK /\ AppliedInv /\ [Next]_vars => AppliedInv'
  <2> SUFFICES ASSUME TypeOK, AppliedInv, [Next]_vars PROVE AppliedInv'
    OBVIOUS
  <2>1. CASE Request
    BY <2>1, RequestApplied
  <2>2. CASE HelperStep
    <3>1. CASE Finish
      BY <3>1, EndApplied DEF Finish
    <3>2. CASE Enable \/ Restart \/ Refresh \/ PortUnitFails
      BY <3>2, ServiceApplied
    <3>3. CASE \/ CheckFails \/ WriteFails \/ EnableFails \/ RestartFails \/ RefreshFails
               \/ GatewayUnitFails \/ FirewallFails \/ CascadeUnitFails \/ AwaitTimeout
               \/ \E g \in Captures : RulesRefused(g) \/ RulesFail(g)
      BY <3>3, FailuresApplied
    <3>4. CASE \/ GatewayUnit \/ ApplyRules("gateway") \/ ApplyRules("cascade")
               \/ Firewall \/ CascadeUnit \/ AwaitDone
      BY <3>4, RulesApplied
    <3> QED BY <2>2, <3>1, <3>2, <3>3, <3>4, WritesApplied DEF HelperStep, Captures
  <2>3. CASE (\E g \in Captures : UnitStep(g) \/ UnitKilled(g)) \/ Kill \/ Reboot
    BY <2>3, OutsideApplied
  <2>4. CASE UNCHANGED vars
    BY <2>4, WorkUntouched DEF vars, files, xrayState, helper
  <2> QED BY <2>1, <2>2, <2>3, <2>4 DEF Next
<1> QED BY <1>1, <1>2, TypeCorrect, PTL DEF Spec

\* Only Finish answers "ok".
LEMMA OnlyFinish ==
    ASSUME TypeOK, AppliedInv, op # "none", [Next]_vars, answer' = "ok"
    PROVE  Finish /\ ~undo
<1>1. answer = "none"
  BY DEF AppliedInv, LocalInv
<1>2. ~(Advance \/ Fail \/ \E st : Goto(st))
  BY <1>1 DEF Advance, Goto, Fail, End
<1>3. ~Request
  BY DEF Request, XraySave, CreateVlessProfile, DeleteVlessProfile, SyncWarp, CascadeSave,
         CascadeRestart, RefreshGeofiles, Restore, Begin
<1>4. ~(UNCHANGED helper \/ End("error") \/ End("none"))
  BY <1>1 DEF helper, End
<1>5. HelperStep
  BY <1>3, <1>4 DEF Next, vars, helper, UnitStep, UnitApply, UnitApplyFails, UnitRemove, UnitRemoveFails, UnitKilled,
                    Kill, Reboot
<1>6. Finish
  BY <1>2, <1>4, <1>5, PortUnitStep
  DEF HelperStep, Check, CheckFails, WriteSettings, WriteConfig, WriteCascade,
     WriteFails, Enable, EnableFails, Restart, RestartFails, Refresh, RefreshFails, GatewayUnit,
     GatewayUnitFails, ApplyRules, RulesRefused, RulesFail, Forgiven, Firewall, FirewallFails,
     CascadeUnit, CascadeUnitFails, AwaitDone, AwaitTimeout
<1> QED BY <1>4, <1>6 DEF Finish

\* persist_xray_configuration, persist_vless_configuration, set_cascade_state: an
\* operation that answers "ok" has left configuration, Xray and rules as the settings
\* say, whatever failed before it.
THEOREM SuccessApplied == Spec => SuccessMeansApplied
<1> DEFINE Act == op \notin {"none", "geofiles", "restore"} /\ answer' = "ok" =>
          /\ op # "cascade_restart" =>
               /\ config' = Effective(settings', cascade')
               /\ xray'.active = settings'.enabled
               /\ xrayBoot' = settings'.enabled
          /\ xray'.active => xray'.runs = config'
          /\ op = "xray_save" => RulesAs(rules'["gateway"], settings'.gateway)
          /\ op \in {"xray_save", "warp_sync", "cascade_restart", "cascade_save"} /\ cascade' =>
               RulesAs(rules'["cascade"], TRUE)
          /\ op = "cascade_save" /\ ~cascade' => RulesAs(rules'["cascade"], FALSE)
<1>1. TypeOK /\ AppliedInv /\ [Next]_vars => Act
  <2> SUFFICES ASSUME TypeOK, AppliedInv, [Next]_vars,
                      op \notin {"none", "geofiles", "restore"}, answer' = "ok"
               PROVE  Act
    OBVIOUS
  <2>1. /\ step = "end"
        /\ UNCHANGED <<settings, cascade, config, xray, xrayBoot, rules>>
    BY OnlyFinish DEF Finish, files, xrayState
  <2>2. op # "cascade_restart" => Strict
    BY OperationCases DEF Strict
  <2>3. newCascade = cascade
    BY <2>1 DEF AppliedInv, LocalInv
  <2>4. step \in WithXray /\ step \in WithBoot /\ step \in WithConfig /\ step \in WithSettings
    BY <2>1 DEF WithXray, WithBoot, WithConfig, WithSettings, Steps
  <2>5. op # "cascade_restart" =>
           /\ settings = new /\ config = Effective(settings, cascade)
           /\ xray.active = settings.enabled /\ xrayBoot = settings.enabled
           /\ xray.active => xray.runs = config
    BY <2>2, <2>3, <2>4 DEF AppliedInv, DoneInv
  <2>6. op = "cascade_restart" => xray.runs = config
    BY <2>1 DEF AppliedInv, DoneInv
  <2> QED BY <2>1, <2>5, <2>6 DEF AppliedInv, DoneInv
<1>2. Spec => [][Act]_vars
  BY <1>1, TypeCorrect, WorkDone, PTL DEF Spec
<1> QED BY <1>2 DEF SuccessMeansApplied

\* persist_vless_configuration: an operation that has gone back leaves everything as the
\* previous profiles want it.
THEOREM VlessGoesBack == Spec => VlessAllOrNothing
<1> DEFINE Act == undo /\ op' = "none" /\ answer' = "error" /\ faults' = faults =>
          /\ settings' = prev
          /\ config' = Effective(prev, cascade)
          /\ xray'.active = prev.enabled
          /\ xray'.active => xray'.runs = config'
          /\ PortAs(fw', prev.profiles # {})
<1>1. TypeOK /\ AppliedInv /\ [Next]_vars => Act
  <2> SUFFICES ASSUME TypeOK, AppliedInv, [Next]_vars,
                      undo, op' = "none", answer' = "error", faults' = faults
               PROVE  Act
    OBVIOUS
  <2>0. op \in VlessOps /\ op # "none" /\ Strict
    BY DEF TypeOK, VlessOps, Strict
  <2>1. /\ new = prev /\ newCascade = cascade /\ new.managed /\ Compatible(new, newCascade)
        /\ answer = "none" /\ step \in StepsOf[op]
    BY <2>0 DEF AppliedInv, LocalInv, VlessOps
  <2>2. ~(Advance \/ \E st : Goto(st))
    BY <2>0 DEF Advance, Goto
  <2>3. ~(\E f : Fault(f))
    BY DEF Fault, TypeOK
  <2>4. ~Request
    BY <2>0 DEF Request, XraySave, CreateVlessProfile, DeleteVlessProfile, SyncWarp, CascadeSave,
         CascadeRestart, RefreshGeofiles, Restore, Begin
  <2>5. HelperStep
    BY <2>0, <2>3, <2>4 DEF Next, vars, helper, UnitStep, UnitApply, UnitApplyFails, UnitRemove, UnitRemoveFails,
                    UnitKilled, Kill, Reboot
  <2>6. ~Refused
    BY <2>0, <2>1 DEF Refused, VlessOps
  <2>7. step \in {"check", "settings", "config", "enable", "restart", "firewall", "end"}
    BY <2>0, <2>1, StepTable
  <2>8. Finish
    BY <2>2, <2>3, <2>5, <2>6, <2>7, PortUnitStep
    DEF HelperStep, Check, CheckFails, WriteSettings, WriteConfig, WriteCascade, WriteFails,
     Enable, EnableFails, Restart, RestartFails, Refresh, RefreshFails, GatewayUnit, GatewayUnitFails, ApplyRules, RulesRefused, RulesFail, Place, Captures, Firewall,
     FirewallFails, CascadeUnit, CascadeUnitFails, AwaitDone, AwaitTimeout
  <2>9. /\ step = "end"
        /\ UNCHANGED <<settings, cascade, config, xray, fw>>
    BY <2>8 DEF Finish, files, xrayState
  <2>10. step \in WithXray /\ step \in WithConfig /\ step \in WithSettings
    BY <2>9 DEF WithXray, WithBoot, WithConfig, WithSettings, Steps
  <2> QED BY <2>0, <2>1, <2>9, <2>10 DEF AppliedInv, DoneInv
<1>2. Spec => [][Act]_vars
  BY <1>1, TypeCorrect, WorkDone, PTL DEF Spec
<1> QED BY <1>2 DEF VlessAllOrNothing
-----------------------------------------------------------------------------
(* Agreement.                                                              *)

\* The configuration and Xray, but for the operation that is just replacing them.
Writing == op # "cascade_restart" /\ step \in {"config", "enable", "restart", "cascade"}

XrayAgrees ==
    ~Writing =>
        /\ config = Effective(settings, cascade)
        /\ settings.enabled => xray.active
        /\ xray.active => xray.runs = config
        /\ xrayBoot = settings.enabled

\* The gateway: its rules, but for a unit that waits for its helper; its unit; both, but
\* for the operation that has just written the settings.
GatewayRulesAgree ==
    rules["gateway"] = (IF settings.gateway THEN "full" ELSE "none") \/ Pending("gateway")

GatewayUnitAgrees ==
    \/ unit["gateway"].enabled = settings.gateway
    \/ /\ op \in {"xray_save", "restore"}
       /\ step \in {"config", "cascade", "enable", "restart", "gateway_unit"}

GatewayAgrees ==
    /\ unit["gateway"].state # "deactivating"
    /\ GatewayUnitAgrees
    /\ \/ GatewayRulesAgree
       \/ /\ op \in {"xray_save", "restore"}
          /\ step \in {"config", "cascade", "enable", "restart", "gateway_unit", "gateway_rules"}

\* The cascade, likewise: its unit; no rules of a cascade that is off, but those that a
\* stop takes away; and nobody waits for the start of one that is off.
CascadeUnitAgrees ==
    \/ unit["cascade"].enabled = cascade
    \/ op = "cascade_save" /\ step = "cascade_unit"
    \/ op = "restore" /\ step \in {"enable", "restart", "gateway_unit", "gateway_rules", "cascade_unit"}

CascadeRulesAgree ==
    \/ cascade \/ rules["cascade"] = "none" \/ unit["cascade"].state = "deactivating"
    \/ op = "cascade_save" /\ step \in {"cascade_unit", "await", "cascade_rules"}
    \/ op = "restore" /\ step \in {"enable", "restart", "gateway_unit", "gateway_rules",
                                   "cascade_unit", "await", "cascade_rules"}

CascadeAgrees ==
    /\ CascadeUnitAgrees
    /\ CascadeRulesAgree
    /\ step = "await" /\ ~cascade => unit["cascade"].state # "activating"

AgreementInv == XrayAgrees /\ GatewayAgrees /\ CascadeAgrees

\* The faults there are not.
LEMMA NoFault ==
    ASSUME NoFaults
    PROVE  ~Fault("command_failed") /\ ~Fault("io_error") /\ ~Fault("killed")
BY DEF NoFaults, Fault

\* Where an operation has restarted Xray, everything is as it is to be.
LEMMA AppliedAgrees ==
    NoFaults /\ AppliedInv /\ Strict /\ step \in WithXray => XrayAgrees
<1> SUFFICES ASSUME NoFaults, AppliedInv, Strict, step \in WithXray, ~Writing PROVE XrayAgrees
  BY DEF XrayAgrees
<1>1. /\ op \in VlessOps \cup {"xray_save", "warp_sync", "cascade_save", "restore"}
      /\ step \in StepsOf[op]
  BY DEF Strict, AppliedInv, LocalInv, VlessOps
<1>2. step \notin {"settings", "config", "cascade", "enable", "restart", "refresh", "check"}
  BY <1>1 DEF WithXray, WithBoot, WithConfig, WithSettings, Writing, VlessOps
<1>3. newCascade = cascade
  <2>1. CASE op = "cascade_save"
    BY <1>1, <1>2, <2>1, StepTable DEF AppliedInv, LocalInv
  <2> QED BY <1>1, <1>2, <2>1 DEF AppliedInv, LocalInv, VlessOps
<1>4. step \in WithSettings /\ step \in WithConfig /\ step \in WithBoot
  BY DEF WithXray, WithBoot, WithConfig, WithSettings
<1> QED BY <1>3, <1>4 DEF AppliedInv, DoneInv, XrayAgrees

\* The gateway's rules can always be applied, for it is never on beside the cascade.
LEMMA GatewayApplicable ==
    ASSUME TypeOK, FilesExclusive, XrayAgrees, ~Writing, ~Replacing, settings.gateway
    PROVE  Applicable("gateway")
BY DEF TypeOK, Settings, FilesExclusive, XrayAgrees, Applicable

\* Without faults every step of a helper is one of these.
LEMMA FaultlessSteps ==
    ASSUME NoFaults, TypeOK, AppliedInv, FilesExclusive, XrayAgrees, HelperStep
    PROVE  \/ Check \/ WriteSettings \/ WriteConfig \/ WriteCascade \/ Enable \/ Restart \/ Refresh
           \/ GatewayUnit \/ ApplyRules("gateway") \/ ApplyRules("cascade")
           \/ RulesRefused("cascade") \/ Firewall \/ CascadeUnit \/ AwaitDone \/ AwaitTimeout
           \/ Finish
<1>1. ~RulesRefused("gateway")
  BY GatewayApplicable DEF RulesRefused, Place, Wanted, Writing, Replacing
<1> QED
  BY <1>1, NoFault, PortUnitStep
  DEF HelperStep, CheckFails, WriteFails, EnableFails, RestartFails, RefreshFails, GatewayUnitFails,
      RulesFail, FirewallFails, CascadeUnitFails, Captures

\* Rules that are refused and a wait that is given up end the operation, but for the rules
\* of a restore.
LEMMA FaultlessFailure ==
    ASSUME NoFaults, TypeOK, AppliedInv, RulesRefused("cascade") \/ AwaitTimeout
    PROVE  /\ End("error") \/ (step = "cascade_rules" /\ op = "restore" /\ Goto("end"))
           /\ UNCHANGED <<files, xrayState, unit, rules, fw>>
           /\ (step = "await" /\ Pending("cascade")) \/ (step = "cascade_rules" /\ cascade)
<1>1. step \in {"cascade_rules", "await"} /\ op # "none" /\ op \in AllOperations
  BY DEF RulesRefused, AwaitTimeout, Place, TypeOK
<1>2. op \notin VlessOps
  BY <1>1, StepTable DEF AppliedInv, LocalInv
<1>3. After("cascade_rules") = "end"
  BY DEF After
<1> QED
  BY <1>1, <1>2, <1>3 DEF RulesRefused, AwaitTimeout, Place, Forgiven, Fail, Wanted

-----------------------------------------------------------------------------
(* The configuration and Xray.                                             *)

\* What leaves Xray and the files alone.
LEMMA XrayUntouched ==
    ASSUME XrayAgrees, UNCHANGED <<files, xrayState>>, Writing => Writing'
    PROVE  XrayAgrees'
BY DEF XrayAgrees, files, xrayState

\* Every step of a helper.
LEMMA XrayKept ==
    ASSUME NoFaults, TypeOK, AppliedInv, AppliedInv', FilesExclusive, XrayAgrees, HelperStep
    PROVE  XrayAgrees'
<1>a. (NoFaults /\ AppliedInv /\ Strict /\ step \in WithXray => XrayAgrees)'
  BY AppliedAgrees, PTL
<1>0. Strict' /\ step' \in WithXray' => XrayAgrees'
  BY <1>a DEF NoFaults
<1>1. CASE Check \/ GatewayUnit \/ ApplyRules("gateway") \/ ApplyRules("cascade")
           \/ RulesRefused("cascade") \/ Firewall \/ CascadeUnit \/ AwaitDone \/ AwaitTimeout
           \/ Finish
  <2>1. UNCHANGED <<files, xrayState>>
    BY <1>1 DEF Check, GatewayUnit, ApplyRules, RulesRefused, Firewall, CascadeUnit, AwaitDone,
       AwaitTimeout, Finish
  <2>2. ~Writing
    BY <1>1 DEF Check, GatewayUnit, ApplyRules, RulesRefused, Firewall, CascadeUnit, AwaitDone,
       AwaitTimeout, Finish, Writing, Place
  <2> QED BY <2>1, <2>2, XrayUntouched
<1>2. CASE WriteSettings \/ WriteConfig \/ Enable
  <2>1. step \in {"settings", "config", "enable"} /\ op # "none" /\ op \in AllOperations
    BY <1>2 DEF TypeOK, WriteSettings, WriteConfig, Enable
  <2>2. op # "cascade_restart"
    BY <2>1, StepTable DEF AppliedInv, LocalInv
  <2>3. Writing'
    BY <1>2, <2>2 DEF WriteSettings, WriteConfig, Enable, Writing, Advance, Goto, After
  <2> QED BY <2>3 DEF XrayAgrees
<1>3. CASE WriteCascade
  <2>1. step = "cascade" /\ op # "none" /\ op \in AllOperations /\ op' = op /\ step' = After(step)
    BY <1>3 DEF TypeOK, WriteCascade, Advance, Goto
  <2>2. op \in {"cascade_save", "restore"}
    BY <2>1, StepTable, OperationCases DEF AppliedInv, LocalInv
  <2>3. CASE op = "restore"
    BY <2>1, <2>3 DEF Writing, After, XrayAgrees
  <2>4. CASE op = "cascade_save"
    <3>1. step' = "cascade_unit" /\ op' = "cascade_save"
      BY <2>1, <2>4 DEF After
    <3> QED BY <1>0, <3>1 DEF Strict, WithXray, WithBoot, WithConfig, WithSettings, Steps
  <2> QED BY <2>2, <2>3, <2>4
<1>4. CASE Restart
  <2>1. step = "restart" /\ op # "none" /\ op \in AllOperations /\ op' = op /\ step' = After(step)
    BY <1>4 DEF TypeOK, Restart, Advance, Goto
  <2>2. op \in VlessOps \cup {"xray_save", "warp_sync", "cascade_save", "cascade_restart", "restore"}
    BY <2>1, StepTable, OperationCases DEF AppliedInv, LocalInv
  <2>3. CASE op = "cascade_restart"
    <3>1. xray' = [active |-> TRUE, runs |-> config] /\ UNCHANGED <<files, xrayBoot>>
      BY <1>4, <2>3 DEF Restart, StartXray
    <3>2. ~Writing
      BY <2>3 DEF Writing
    <3> QED BY <3>1, <3>2 DEF XrayAgrees, files
  <2>4. CASE op # "cascade_restart"
    <3>1. Strict'
      BY <2>1, <2>2, <2>4 DEF Strict
    <3>2. step' \in {"gateway_unit", "cascade", "firewall", "cascade_rules", "end"}
      BY <2>1 DEF After
    <3>3. step' # "cascade" \/ op' = "cascade_save"
      BY <2>1, <2>2, <2>4 DEF After, VlessOps
    <3> QED BY <1>0, <3>1, <3>2, <3>3 DEF WithXray, WithBoot, WithConfig, WithSettings, Steps
  <2> QED BY <2>3, <2>4
<1>5. CASE Refresh
  <2>1. step = "refresh" /\ UNCHANGED <<files, xrayBoot>>
        /\ (xray' = [active |-> TRUE, runs |-> config] \/ xray' = xray)
    BY <1>5 DEF Refresh, StartXray
  <2>2. ~Writing
    BY <2>1 DEF Writing
  <2> QED BY <2>1, <2>2 DEF XrayAgrees, files
<1> QED BY <1>1, <1>2, <1>3, <1>4, <1>5, FaultlessSteps

-----------------------------------------------------------------------------
(* The gateway.                                                            *)

\* Steps that leave the gateway and its setting alone, while nobody owes it anything.
LEMMA GatewayUntouched ==
    ASSUME GatewayAgrees, UNCHANGED <<settings, unit["gateway"], rules["gateway"]>>,
           \/ op \notin {"xray_save", "restore"}
           \/ step \notin {"config", "cascade", "enable", "restart", "gateway_unit", "gateway_rules"}
    PROVE  GatewayAgrees'
<1>1. GatewayRulesAgree /\ unit["gateway"].enabled = settings.gateway
  BY DEF GatewayAgrees, GatewayUnitAgrees
<1>2. GatewayRulesAgree'
  BY <1>1 DEF GatewayRulesAgree, Pending
<1> QED BY <1>1, <1>2 DEF GatewayAgrees, GatewayUnitAgrees

\* Steps before the gateway's own leave it alone as well.
LEMMA GatewayLater ==
    ASSUME GatewayAgrees, UNCHANGED unit,
           op' \in {"xray_save", "restore"},
           step' \in {"config", "cascade", "enable", "restart", "gateway_unit"}
    PROVE  GatewayAgrees'
BY DEF GatewayAgrees, GatewayUnitAgrees

\* Every step of a helper.
LEMMA GatewayKept ==
    ASSUME NoFaults, TypeOK, AppliedInv, FilesExclusive, XrayAgrees, GatewayAgrees, HelperStep
    PROVE  GatewayAgrees'
<1>0. /\ step \in StepsOf[op] /\ op # "none" /\ op \in AllOperations
      /\ unit \in [Captures -> [enabled : BOOLEAN, again : BOOLEAN,
                    state : {"inactive", "activating", "active", "deactivating"}]]
      /\ rules \in [Captures -> RuleStates]
  <2>1. step # "idle"
    BY HelperBusy
  <2> QED BY <2>1 DEF TypeOK, AppliedInv, LocalInv
<1>1. CASE Check \/ RulesRefused("cascade") \/ Firewall \/ AwaitDone \/ AwaitTimeout
           \/ Finish \/ Refresh
  <2>1. UNCHANGED <<settings, unit, rules>>
    BY <1>1 DEF Check, RulesRefused, Firewall, AwaitDone, AwaitTimeout, Finish, Refresh, files
  <2>2. step \in {"check", "cascade_rules", "firewall", "await", "end", "refresh"}
    BY <1>1 DEF Check, RulesRefused, Firewall, AwaitDone, AwaitTimeout, Finish, Refresh, Place
  <2> QED BY <2>1, <2>2, GatewayUntouched
<1>2. CASE WriteSettings
  <2>1. step = "settings" /\ op' = op /\ step' = "config" /\ settings' = new /\ UNCHANGED <<unit, rules>>
    BY <1>2 DEF WriteSettings, Advance, Goto, After
  <2>2. CASE op \in {"xray_save", "restore"}
    BY <2>1, <2>2, GatewayLater
  <2>3. CASE op \notin {"xray_save", "restore"}
    <3>1. op \in VlessOps \cup {"warp_sync", "cascade_save"}
      BY <1>0, <2>1, <2>3, StepTable, OperationCases
    <3>2. new.gateway = settings.gateway
      BY <3>1 DEF AppliedInv, LocalInv
    <3>3. GatewayRulesAgree /\ unit["gateway"].enabled = settings.gateway
      BY <2>3 DEF GatewayAgrees, GatewayUnitAgrees
    <3>4. GatewayRulesAgree'
      BY <2>1, <3>2, <3>3 DEF GatewayRulesAgree, Pending
    <3> QED BY <2>1, <3>2, <3>3, <3>4 DEF GatewayAgrees, GatewayUnitAgrees
  <2> QED BY <2>2, <2>3
<1>3. CASE WriteConfig \/ WriteCascade \/ Enable \/ Restart
  <2>1. UNCHANGED <<settings, unit, rules>> /\ op' = op /\ step' = After(step)
        /\ step \in {"config", "cascade", "enable", "restart"}
    BY <1>3 DEF WriteConfig, WriteCascade, Enable, Restart, Advance, Goto, files
  <2>2. CASE op \in {"xray_save", "restore"}
    <3>1. step = "cascade" => op = "restore"
      BY <1>0, <2>2, StepTable
    <3>2. step \in {"config", "enable"} => step' \in {"cascade", "enable", "restart"}
      BY <2>1 DEF After
    <3>4. step = "cascade" => step' = "enable"
      BY <2>1, <3>1 DEF After
    <3>5. step = "restart" => step' = "gateway_unit"
      BY <2>1, <2>2 DEF After, VlessOps
    <3>3. step' \in {"config", "cascade", "enable", "restart", "gateway_unit"}
      BY <2>1, <3>2, <3>4, <3>5
    <3> QED BY <2>1, <2>2, <3>3, GatewayLater
  <2>3. CASE op \notin {"xray_save", "restore"}
    BY <2>1, <2>3, GatewayUntouched
  <2> QED BY <2>2, <2>3
<1>4. CASE GatewayUnit
  <2>1. /\ step = "gateway_unit" /\ op' = op /\ step' = "gateway_rules" /\ settings' = settings
        /\ unit' = [unit EXCEPT !["gateway"].enabled = new.gateway]
    BY <1>4 DEF GatewayUnit, Advance, Goto, After, files
  <2>2. op \in {"xray_save", "restore"}
    BY <1>0, <2>1, StepTable, OperationCases
  <2>3. settings = new
    <3>1. Strict /\ step \in WithSettings
      BY <2>1, <2>2 DEF Strict, WithSettings, Steps
    <3> QED BY <3>1 DEF AppliedInv, DoneInv
  <2>4. unit'["gateway"].enabled = settings.gateway /\ unit'["gateway"].state = unit["gateway"].state
    BY <1>0, <2>1, <2>3 DEF Captures
  <2> QED BY <2>1, <2>2, <2>4 DEF GatewayAgrees, GatewayUnitAgrees
<1>5. CASE ApplyRules("gateway")
  <2>1. /\ step = "gateway_rules" /\ op' = op /\ UNCHANGED <<settings, unit>>
        /\ rules' = [rules EXCEPT !["gateway"] = IF settings.gateway THEN "full" ELSE "none"]
        /\ step' = After("gateway_rules")
    BY <1>5 DEF ApplyRules, Place, SetRules, Wanted, Advance, Goto, files
  <2>2. rules'["gateway"] = IF settings.gateway THEN "full" ELSE "none"
    BY <1>0, <2>1 DEF Captures
  <2>3. unit["gateway"].enabled = settings.gateway
    BY <2>1 DEF GatewayAgrees, GatewayUnitAgrees
  <2> QED BY <2>1, <2>2, <2>3 DEF GatewayAgrees, GatewayUnitAgrees, GatewayRulesAgree
<1>6. CASE ApplyRules("cascade")
  <2>1. step = "cascade_rules" /\ UNCHANGED <<settings, unit>> /\ rules'["gateway"] = rules["gateway"]
    BY <1>0, <1>6 DEF ApplyRules, Place, SetRules, files, Captures
  <2> QED BY <2>1, GatewayUntouched
<1>7. CASE CascadeUnit
  <2>1. step = "cascade_unit" /\ UNCHANGED <<settings, rules>> /\ unit'["gateway"] = unit["gateway"]
    BY <1>0, <1>7 DEF CascadeUnit, files, Captures
  <2> QED BY <2>1, GatewayUntouched
<1> QED BY <1>1, <1>2, <1>3, <1>4, <1>5, <1>6, <1>7, FaultlessSteps

-----------------------------------------------------------------------------
(* The cascade.                                                            *)

\* Steps that leave the cascade and its setting alone and are not its own.
LEMMA CascadeUntouched ==
    ASSUME CascadeAgrees, UNCHANGED <<cascade, unit["cascade"], rules["cascade"]>>,
           op \notin {"cascade_save", "restore"}
              \/ step \in {"idle", "refresh", "check", "settings", "config", "end"},
           step' # "await"
    PROVE  CascadeAgrees'
BY DEF CascadeAgrees, CascadeUnitAgrees, CascadeRulesAgree

\* Steps on the way from the setting of the cascade to its unit.
LEMMA CascadeLater ==
    ASSUME CascadeAgrees, op' = "restore",
           step' \in {"enable", "restart", "gateway_unit", "gateway_rules", "cascade_unit"}
    PROVE  CascadeAgrees'
BY DEF CascadeAgrees, CascadeUnitAgrees, CascadeRulesAgree

\* Every step of a helper.
LEMMA CascadeKept ==
    ASSUME NoFaults, TypeOK, AppliedInv, FilesExclusive, XrayAgrees, CascadeAgrees, HelperStep
    PROVE  CascadeAgrees'
<1>0. /\ step \in StepsOf[op] /\ op # "none" /\ op \in AllOperations
      /\ unit \in [Captures -> [enabled : BOOLEAN, again : BOOLEAN,
                    state : {"inactive", "activating", "active", "deactivating"}]]
      /\ rules \in [Captures -> RuleStates] /\ cascade \in BOOLEAN
  <2>1. step # "idle"
    BY HelperBusy
  <2> QED BY <2>1 DEF TypeOK, AppliedInv, LocalInv
<1>1. CASE Check \/ WriteSettings \/ Firewall \/ Finish \/ Refresh
  <2>1. UNCHANGED <<cascade, unit, rules>>
    BY <1>1 DEF Check, WriteSettings, Firewall, Finish, Refresh, files
  <2>2. step \in {"check", "settings", "firewall", "end", "refresh"} /\ step' # "await"
    BY <1>1 DEF Check, WriteSettings, Firewall, Finish, Refresh, Advance, Goto, After, End
  <2>3. step = "firewall" => op \notin {"cascade_save", "restore"}
    BY <1>0, StepTable
  <2> QED BY <2>1, <2>2, <2>3, CascadeUntouched
<1>2. CASE WriteConfig \/ Enable \/ Restart
  <2>1. UNCHANGED <<cascade, unit, rules>> /\ op' = op /\ step' = After(step)
        /\ step \in {"config", "enable", "restart"}
    BY <1>2 DEF WriteConfig, Enable, Restart, Advance, Goto, files
  <2>0. /\ After("config") \in {"cascade", "enable"} /\ After("enable") = "restart"
        /\ After("restart") \in {"gateway_unit", "cascade", "firewall", "cascade_rules", "end"}
    BY DEF After
  <2>2. step' \in {"cascade", "enable", "restart", "gateway_unit", "firewall", "cascade_rules", "end"}
    BY <2>0, <2>1
  <2>3. CASE op = "restore" /\ step # "config"
    <3>1. step = "enable" => step' = "restart"
      BY <2>1 DEF After
    <3>2. step = "restart" => step' = "gateway_unit"
      BY <2>1, <2>3 DEF After, VlessOps
    <3> QED BY <2>1, <2>3, <3>1, <3>2, CascadeLater
  <2>4. CASE op # "restore" \/ step = "config"
    <3>1. unit["cascade"].enabled = cascade
          /\ (cascade \/ rules["cascade"] = "none" \/ unit["cascade"].state = "deactivating")
      BY <2>1, <2>4 DEF CascadeAgrees, CascadeUnitAgrees, CascadeRulesAgree
    <3> QED BY <2>1, <2>2, <3>1 DEF CascadeAgrees, CascadeUnitAgrees, CascadeRulesAgree
  <2> QED BY <2>3, <2>4
<1>3. CASE WriteCascade
  <2>1. step = "cascade" /\ op' = op /\ step' = After("cascade")
    BY <1>3 DEF WriteCascade, Advance, Goto
  <2>2. op \in {"cascade_save", "restore"}
    BY <1>0, <2>1, StepTable, OperationCases
  <2>3. \/ op = "restore" /\ step' = "enable"
        \/ op = "cascade_save" /\ step' = "cascade_unit"
    BY <2>1, <2>2 DEF After
  <2> QED BY <2>1, <2>3 DEF CascadeAgrees, CascadeUnitAgrees, CascadeRulesAgree
<1>4. CASE GatewayUnit \/ ApplyRules("gateway")
  <2>1. /\ step \in {"gateway_unit", "gateway_rules"} /\ op' = op /\ step' = After(step)
        /\ UNCHANGED <<cascade, unit["cascade"], rules["cascade"]>>
    BY <1>0, <1>4 DEF GatewayUnit, ApplyRules, Place, SetRules, Advance, Goto, files, Captures
  <2>2. op \in {"xray_save", "restore"}
    BY <1>0, <2>1, StepTable, OperationCases
  <2>3. CASE op = "restore"
    BY <2>1, <2>3, CascadeLater DEF After
  <2>4. CASE op = "xray_save"
    BY <2>1, <2>4, CascadeUntouched DEF After
  <2> QED BY <2>2, <2>3, <2>4
<1>5. CASE ApplyRules("cascade")
  <2>1. /\ step = "cascade_rules" /\ op' = op /\ step' = "end" /\ UNCHANGED <<cascade, unit>>
        /\ rules' = [rules EXCEPT !["cascade"] = IF cascade THEN "full" ELSE "none"]
    BY <1>5 DEF ApplyRules, Place, SetRules, Wanted, Advance, Goto, After, files
  <2>2. ~cascade => rules'["cascade"] = "none"
    BY <1>0, <2>1 DEF Captures
  <2> QED BY <1>0, <2>1, <2>2 DEF CascadeAgrees, CascadeUnitAgrees, CascadeRulesAgree
<1>6. CASE CascadeUnit
  <2>1. /\ step = "cascade_unit" /\ op' = op /\ step' = "await" /\ UNCHANGED <<cascade, rules>>
        /\ unit' = [unit EXCEPT !["cascade"] =
             IF newCascade
               THEN [enabled |-> TRUE,
                     again |-> @.state = "deactivating",
                     state |-> IF @.state = "inactive" THEN "activating" ELSE @.state]
               ELSE [enabled |-> FALSE,
                     again |-> FALSE,
                     state |-> IF @.state \in {"active", "deactivating"}
                                 THEN "deactivating" ELSE "inactive"]]
    BY <1>6 DEF CascadeUnit, Advance, Goto, After, files
  <2>2. op \in {"cascade_save", "restore"}
    BY <1>0, <2>1, StepTable, OperationCases
  <2>3. newCascade = cascade
    BY <2>1, <2>2 DEF AppliedInv, LocalInv
  <2>4. unit'["cascade"].enabled = cascade /\ (~cascade => unit'["cascade"].state # "activating")
    BY <1>0, <2>1, <2>3 DEF Captures
  <2> QED BY <2>1, <2>2, <2>4 DEF CascadeAgrees, CascadeUnitAgrees, CascadeRulesAgree
<1>7. CASE AwaitDone
  <2>1. step = "await" /\ op' = op /\ step' = "cascade_rules" /\ UNCHANGED <<cascade, unit, rules>>
    BY <1>7 DEF AwaitDone, Advance, Goto, After, files
  <2>2. op \in {"cascade_save", "restore"}
    BY <1>0, <2>1, StepTable, OperationCases
  <2> QED BY <2>1, <2>2 DEF CascadeAgrees, CascadeUnitAgrees, CascadeRulesAgree
<1>8. CASE RulesRefused("cascade") \/ AwaitTimeout
  <2>1. UNCHANGED <<cascade, unit, rules>> /\ step' # "await"
        /\ ((step = "await" /\ Pending("cascade")) \/ (step = "cascade_rules" /\ cascade))
    BY <1>8, FaultlessFailure DEF files, End, Goto
  <2>2. cascade \/ rules["cascade"] = "none" \/ unit["cascade"].state = "deactivating"
    BY <2>1 DEF CascadeAgrees, CascadeRulesAgree, Pending
  <2>3. unit["cascade"].enabled = cascade
    BY <2>1 DEF CascadeAgrees, CascadeUnitAgrees
  <2> QED BY <2>1, <2>2, <2>3 DEF CascadeAgrees, CascadeUnitAgrees, CascadeRulesAgree
<1> QED BY <1>1, <1>2, <1>3, <1>4, <1>5, <1>6, <1>7, <1>8, FaultlessSteps

-----------------------------------------------------------------------------
(* Requests, units and reboots.                                            *)

\* A request changes no more than the helper's own variables.
LEMMA RequestAgreement ==
    ASSUME TypeOK, AgreementInv, Request
    PROVE  AgreementInv'
<1>2. /\ op = "none" /\ step = "idle" /\ step' \in {"refresh", "check", "settings"}
      /\ UNCHANGED <<files, xrayState, unit, rules>>
  BY DEF Request, XraySave, CreateVlessProfile, DeleteVlessProfile, SyncWarp, CascadeSave,
         CascadeRestart, RefreshGeofiles, Restore, Begin, TypeOK
<1>3. XrayAgrees'
  BY <1>2, XrayUntouched DEF Writing, AgreementInv
<1>4. GatewayAgrees'
  BY <1>2, GatewayUntouched DEF AgreementInv, files
<1>5. CascadeAgrees'
  BY <1>2, CascadeUntouched DEF AgreementInv, files
<1> QED BY <1>3, <1>4, <1>5 DEF AgreementInv

\* The helper of a unit, while nobody has the lock.
LEMMA UnitAgreement ==
    ASSUME NoFaults, TypeOK, FilesExclusive, AgreementInv, NEW g \in Captures, UnitStep(g)
    PROVE  AgreementInv'
<1>0. /\ op = "none" /\ step = "idle"
      /\ UNCHANGED <<files, xrayState, helper>> /\ UNCHANGED <<settings, cascade, op, step>>
      /\ unit \in [Captures -> [enabled : BOOLEAN, again : BOOLEAN,
                    state : {"inactive", "activating", "active", "deactivating"}]]
      /\ rules \in [Captures -> RuleStates] /\ cascade \in BOOLEAN
  BY DEF UnitStep, UnitApply, UnitApplyFails, UnitRemove, UnitRemoveFails, TypeOK, helper, files
<1>1. XrayAgrees'
  BY <1>0, XrayUntouched DEF Writing, AgreementInv
<1>2. ~Writing /\ ~Replacing /\ g \in {"gateway", "cascade"}
  BY <1>0 DEF Writing, Replacing, Captures
<1>3. CASE UnitApply(g)
  <2>1. /\ rules' = [rules EXCEPT ![g] = IF Wanted(g) THEN "full" ELSE "none"]
        /\ unit' = [unit EXCEPT ![g].state = "active"]
    BY <1>3 DEF UnitApply, SetRules
  <2>2. CASE g = "gateway"
    <3>1. /\ rules'["gateway"] = IF settings.gateway THEN "full" ELSE "none"
          /\ unit'["gateway"].enabled = unit["gateway"].enabled
          /\ unit'["gateway"].state = "active"
          /\ unit'["cascade"] = unit["cascade"] /\ rules'["cascade"] = rules["cascade"]
      BY <1>0, <2>1, <2>2 DEF Captures, Wanted
    <3>2. GatewayAgrees'
      BY <1>0, <3>1 DEF AgreementInv, GatewayAgrees, GatewayUnitAgrees, GatewayRulesAgree
    <3>3. CascadeAgrees'
      BY <1>0, <3>1, CascadeUntouched DEF AgreementInv
    <3> QED BY <1>1, <3>2, <3>3 DEF AgreementInv
  <2>3. CASE g = "cascade"
    <3>1. /\ rules'["cascade"] = IF cascade THEN "full" ELSE "none"
          /\ unit'["cascade"].enabled = unit["cascade"].enabled
          /\ unit'["gateway"] = unit["gateway"] /\ rules'["gateway"] = rules["gateway"]
      BY <1>0, <2>1, <2>3 DEF Captures, Wanted
    <3>2. GatewayAgrees'
      BY <1>0, <3>1, GatewayUntouched DEF AgreementInv
    <3>3. CascadeAgrees'
      BY <1>0, <3>1 DEF AgreementInv, CascadeAgrees, CascadeUnitAgrees, CascadeRulesAgree
    <3> QED BY <1>1, <3>2, <3>3 DEF AgreementInv
  <2> QED BY <1>2, <2>2, <2>3
<1>4. CASE UnitApplyFails(g)
  <2>1. /\ Wanted(g) /\ ~Applicable(g) /\ rules' = rules
        /\ unit' = [unit EXCEPT ![g].state = "inactive"]
    BY <1>4, NoFault DEF UnitApplyFails
  <2>2. g = "cascade" /\ cascade
    BY <1>2, <2>1, GatewayApplicable DEF Wanted, AgreementInv
  <2>3. /\ unit'["cascade"].enabled = unit["cascade"].enabled
        /\ unit'["gateway"] = unit["gateway"]
    BY <1>0, <2>1, <2>2 DEF Captures
  <2>4. GatewayAgrees'
    BY <1>0, <2>1, <2>3, GatewayUntouched DEF AgreementInv
  <2>5. CascadeAgrees'
    BY <1>0, <2>1, <2>2, <2>3 DEF AgreementInv, CascadeAgrees, CascadeUnitAgrees, CascadeRulesAgree
  <2> QED BY <1>1, <2>4, <2>5 DEF AgreementInv
<1>5. CASE UnitRemove(g)
  <2>1. /\ unit[g].state = "deactivating" /\ rules' = [rules EXCEPT ![g] = "none"]
        /\ Stopped(g)
    BY <1>5 DEF UnitRemove
  <2>2. g = "cascade"
    BY <1>2, <2>1 DEF AgreementInv, GatewayAgrees
  <2>3. PICK st : unit' = [unit EXCEPT ![g].state = st, ![g].again = FALSE]
    BY <2>1 DEF Stopped
  <2>4. /\ unit'["cascade"].enabled = unit["cascade"].enabled /\ rules'["cascade"] = "none"
        /\ unit'["gateway"] = unit["gateway"] /\ rules'["gateway"] = rules["gateway"]
    BY <1>0, <2>1, <2>2, <2>3 DEF Captures
  <2>5. GatewayAgrees'
    BY <1>0, <2>4, GatewayUntouched DEF AgreementInv
  <2>6. CascadeAgrees'
    BY <1>0, <2>4 DEF AgreementInv, CascadeAgrees, CascadeUnitAgrees, CascadeRulesAgree
  <2> QED BY <1>1, <2>5, <2>6 DEF AgreementInv
<1> QED BY <1>3, <1>4, <1>5, NoFault DEF UnitStep, UnitRemoveFails

\* The host starts again: what is enabled starts, and the units restore their rules.
LEMMA RebootAgreement ==
    ASSUME NoFaults, TypeOK, AgreementInv, Reboot
    PROVE  AgreementInv'
<1>0. /\ op = "none" /\ step = "idle" /\ op' = "none" /\ step' = "idle"
      /\ UNCHANGED <<settings, cascade, config, xrayBoot>>
      /\ xray' = [active |-> xrayBoot, runs |-> config]
      /\ unit' = [g \in Captures |->
                    [enabled |-> unit[g].enabled, again |-> FALSE,
                     state |-> IF unit[g].enabled THEN "activating" ELSE "inactive"]]
      /\ rules' = [g \in Captures |-> "none"]
  BY DEF Reboot, End, files, NoFaults, TypeOK
<1>1. XrayAgrees'
  BY <1>0 DEF AgreementInv, XrayAgrees, Writing
<1>2. \A g \in Captures : /\ unit'[g].enabled = unit[g].enabled
                          /\ unit'[g].state = IF unit[g].enabled THEN "activating" ELSE "inactive"
                          /\ rules'[g] = "none"
  BY <1>0
<1>3. unit["gateway"].enabled = settings.gateway /\ unit["cascade"].enabled = cascade
  BY <1>0 DEF AgreementInv, GatewayAgrees, GatewayUnitAgrees, CascadeAgrees, CascadeUnitAgrees
<1>4. GatewayAgrees'
  BY <1>0, <1>2, <1>3 DEF GatewayAgrees, GatewayUnitAgrees, GatewayRulesAgree, Pending, Captures
<1>5. CascadeAgrees'
  BY <1>0, <1>2, <1>3 DEF CascadeAgrees, CascadeUnitAgrees, CascadeRulesAgree, Captures
<1> QED BY <1>1, <1>4, <1>5 DEF AgreementInv

\* persist_xray_configuration, xray_save, set_cascade_state, gateway_boot, cascade_boot:
\* as long as no command fails, configuration, Xray, units and rules agree with the
\* settings whenever nothing is under way, whatever has been refused, given up or
\* rebooted.
THEOREM AlwaysAgrees ==
    ASSUME NoFaults
    PROVE  Spec => []Agreement
<1>0. RestoreEnds
  BY DEF RestoreEnds, NoFaults
<1>1. Init => AgreementInv
  <2> SUFFICES ASSUME Init PROVE AgreementInv
    OBVIOUS
  <2>1. /\ settings.enabled = FALSE /\ settings.gateway = FALSE /\ cascade = FALSE
        /\ step = "idle"
        /\ \A g \in Captures : unit[g].enabled = FALSE /\ unit[g].state = "inactive"
                              /\ rules[g] = "none"
    BY DEF Init, DefaultSettings
  <2>2. XrayAgrees
    BY <2>1 DEF Init, XrayAgrees
  <2> QED
    BY <2>1, <2>2 DEF AgreementInv, GatewayAgrees, GatewayUnitAgrees, GatewayRulesAgree,
       CascadeAgrees, CascadeUnitAgrees, CascadeRulesAgree, Captures
<1>2. /\ TypeOK /\ AppliedInv /\ AppliedInv' /\ ExclusiveInv /\ AgreementInv /\ [Next]_vars
      => AgreementInv'
  <2> SUFFICES ASSUME TypeOK, AppliedInv, AppliedInv', FilesExclusive, AgreementInv, [Next]_vars
               PROVE  AgreementInv'
    BY DEF ExclusiveInv
  <2>1. CASE Request
    BY <2>1, RequestAgreement
  <2>2. CASE HelperStep
    BY <2>2, XrayKept, GatewayKept, CascadeKept DEF AgreementInv
  <2>3. CASE \E g \in Captures : UnitStep(g)
    BY <2>3, UnitAgreement
  <2>4. CASE Reboot
    BY <2>4, RebootAgreement
  <2>5. CASE UNCHANGED vars
    BY <2>5 DEF vars, files, xrayState, helper, AgreementInv, XrayAgrees, Writing, GatewayAgrees,
       GatewayUnitAgrees, GatewayRulesAgree, CascadeAgrees, CascadeUnitAgrees, CascadeRulesAgree,
       Pending
  <2>6. ~Kill /\ ~\E g \in Captures : UnitKilled(g)
    BY NoFault DEF Kill, UnitKilled
  <2> QED BY <2>1, <2>2, <2>3, <2>4, <2>5, <2>6 DEF Next
<1>3. TypeOK /\ AgreementInv => Agreement
  <2> SUFFICES ASSUME TypeOK, AgreementInv, Quiet PROVE Agreement
    BY DEF Agreement
  <2>1. op = "none" /\ step = "idle" /\ ~Pending("gateway") /\ ~Pending("cascade")
    BY DEF Quiet, TypeOK, Captures
  <2> QED
    BY <2>1 DEF Agreement, AgreementInv, XrayAgrees, Writing, GatewayAgrees, GatewayUnitAgrees,
       GatewayRulesAgree, CascadeAgrees, CascadeUnitAgrees, CascadeRulesAgree, Pending
<1>4. Spec => []ExclusiveInv
  BY <1>0, PlansExclusive
<1> QED BY <1>1, <1>2, <1>3, <1>4, TypeCorrect, WorkDone, PTL DEF Spec
=============================================================================
