---------------------------- MODULE BackupsProofs ----------------------------
(***************************************************************************)
(* Theorems about Backups: a restore can be undone (CopiesInv); the types  *)
(* and plans of the operations (DataInv); the schedule that was saved is   *)
(* the one systemd follows (TimerInv); a restore leaves what was copied    *)
(* (RestoreInv); pruning takes what it should and no more (StampInv).      *)
(***************************************************************************)
EXTENDS Backups, FiniteSetTheorems, TLAPS

\* What each operation is doing: only a restore writes the settings of Xray
\* and of the cascade, only a restore and a change write the database.
StepsOf ==
    /\ op = "none" => step = "idle"
    /\ op = "change" => /\ step \in {"stop", "automatic", "prune", "database", "labels", "end"}
                        /\ DOMAIN plan = PartsOf("users")
    /\ op \in {"create", "scheduled"} => step \in {"copy", "prune", "end"}
    /\ op = "schedule" =>
         step \in {"schedule", "units", "disable", "unlink", "reload", "enable", "end"}
    /\ op = "restore" => step \notin {"idle", "automatic", "copy", "prune"}
    /\ op \in Operations

\* Names and labels go together; the live files are those of a full copy.
Shapes ==
    /\ made \in Nat
    /\ live = [p \in Parts |-> live[p]]
    /\ \A c \in copies : c.prefix = "passwords" => c.label = "automatic"

\* From the safety copy on.
Covered ==
    /\ undo # 0 => \E c \in copies : c.stamp = undo /\ c.label = "manual" /\ c.data = before
    /\ op = "restore" /\ step # "safety" => undo # 0 /\ (deleted \/ Fallback)

CopiesInv == StepsOf /\ Shapes /\ Covered /\ NoDeadEnd

-----------------------------------------------------------------------------
\* A step to the next one.
LEMMA AdvanceSteps ==
    ASSUME StepsOf, step # "idle", Advance
    PROVE  StepsOf' /\ (op' = "restore" => step' # "safety")
BY DEF StepsOf, Advance, After, PartsOf, Parts, Operations

\* The end of an operation.
LEMMA EndSteps ==
    ASSUME End
    PROVE  StepsOf' /\ op' = "none"
BY DEF StepsOf, End, Operations

\* The start of one.
LEMMA BeginSteps ==
    ASSUME CopiesInv, NEW o, NEW first, NEW data, Begin(o, first, data),
           \/ o = "change" /\ first = "stop" /\ DOMAIN data = PartsOf("users")
           \/ o \in {"create", "scheduled"} /\ first = "copy"
           \/ o = "schedule" /\ first = "schedule"
           \/ o = "restore" /\ first = "safety"
    PROVE  CopiesInv'
BY DEF CopiesInv, StepsOf, Shapes, Covered, NoDeadEnd, Fallback, Begin, store, directory, history,
       Operations, Acceptable

\* Copies that are added, live files whose Xray and cascade stay as they are.
LEMMA Growing ==
    ASSUME CopiesInv, StepsOf', Shapes', copies \subseteq copies',
           live'["xray"] = live["xray"], live'["cascade"] = live["cascade"],
           UNCHANGED history,
           op' = "restore" /\ step' # "safety" => op = "restore" /\ step # "safety"
    PROVE  CopiesInv'
<1>1. Acceptable(live) => Acceptable(live')
  BY DEF CopiesInv, Shapes, Acceptable, Parts
<1>2. Fallback => Fallback'
  BY DEF Fallback
<1> QED BY <1>1, <1>2 DEF CopiesInv, Covered, NoDeadEnd, history

\* Pruning and its interruption leave what an administrator has made.
LEMMA Pruning ==
    ASSUME CopiesInv, step = "prune", NEW gone \in SUBSET Excess, copies' = copies \ gone,
           StepsOf', op' # "restore" \/ step' = "safety", UNCHANGED <<store, made, history>>
    PROVE  CopiesInv'
<1>1. \A c \in gone : c.label # "manual"
  BY DEF Excess, Class, CopiesInv, Shapes
<1>2. Fallback => Fallback'
  BY <1>1 DEF Fallback
<1>3. Shapes'
  BY DEF Shapes, CopiesInv, store
<1> QED BY <1>1, <1>2, <1>3 DEF CopiesInv, Covered, NoDeadEnd, history, store, Acceptable

\* The safety copy holds what is live.
LEMMA SafetyCopy ==
    ASSUME CopiesInv, TakeSafetyCopy
    PROVE  CopiesInv'
<1>1. PICK c : c = [stamp |-> made + 1, prefix |-> "panel", label |-> "manual",
                    data |-> [p \in Parts |-> live[p]]]
  OBVIOUS
<1>2. c \in copies' /\ copies' = copies \cup {c} /\ made' = made + 1
  BY <1>1 DEF TakeSafetyCopy, Take
<1>3. c.data = live /\ DOMAIN c.data = Parts /\ c.label = "manual" /\ c.stamp = made + 1
  BY <1>1 DEF CopiesInv, Shapes
<1>4. StepsOf' /\ op' = op
  BY AdvanceSteps DEF TakeSafetyCopy, CopiesInv, Advance
<1>5. Shapes'
  BY <1>1, <1>2 DEF Shapes, CopiesInv, TakeSafetyCopy, store
<1>6. live' = live /\ deleted' = deleted /\ undo' = made + 1 /\ before' = live
  BY <1>2 DEF TakeSafetyCopy, store
<1>7. Fallback => Fallback'
  BY <1>2 DEF Fallback
<1>8. Acceptable(live) => Fallback'
  BY <1>2, <1>3 DEF Fallback
<1>9. deleted' \/ Fallback'
  BY <1>6, <1>7, <1>8 DEF CopiesInv, NoDeadEnd
<1>10. Covered'
  BY <1>2, <1>3, <1>6, <1>9 DEF Covered, CopiesInv, Shapes
<1> QED BY <1>4, <1>5, <1>9, <1>10 DEF CopiesInv, NoDeadEnd

\* The writes: Xray and the cascade only in a restore.
LEMMA Writing ==
    ASSUME CopiesInv, WriteDatabase \/ WriteFile
    PROVE  CopiesInv'
<1>1. StepsOf' /\ (op' = "restore" => step' # "safety") /\ op' = op
  BY AdvanceSteps DEF WriteDatabase, WriteFile, CopiesInv, Advance
<1>2. UNCHANGED <<directory, history>>
  BY DEF WriteDatabase, WriteFile
<1>3. Shapes'
  BY <1>2 DEF Shapes, CopiesInv, WriteDatabase, WriteFile, directory
<1>4. CASE op = "restore"
  <2>1. step # "safety"
    BY DEF WriteDatabase, WriteFile
  <2>2. Fallback => Fallback'
    BY <1>2 DEF Fallback, directory
  <2> QED BY <1>1, <1>2, <1>3, <1>4, <2>1, <2>2
          DEF CopiesInv, Covered, NoDeadEnd, history, directory
<1>5. CASE op # "restore"
  <2>1. step \in {"database", "labels", "schedule"}
    BY <1>5 DEF WriteDatabase, WriteFile, CopiesInv, StepsOf, Operations
  <2>2. live'["xray"] = live["xray"] /\ live'["cascade"] = live["cascade"]
    BY <2>1 DEF WriteDatabase, WriteFile, CopiesInv, Shapes, Parts
  <2> QED BY <1>1, <1>2, <1>3, <1>5, <2>2, Growing DEF directory, history
<1> QED BY <1>4, <1>5

\* An administrator deletes a copy, or uploads one.
LEMMA Administrator ==
    ASSUME CopiesInv, DeleteBackup \/ ImportBackup \/ ChangePanel
    PROVE  CopiesInv'
<1>0. op = "none" /\ UNCHANGED helper
  BY DEF DeleteBackup, ImportBackup, ChangePanel
<1>1. StepsOf' /\ op' = "none"
  BY <1>0 DEF CopiesInv, StepsOf, helper
<1>2. CASE DeleteBackup
  <2>1. PICK c \in copies : /\ copies' = copies \ {c}
                            /\ deleted' = (deleted \/ DOMAIN c.data = Parts)
                            /\ undo' = IF c.stamp = undo THEN 0 ELSE undo
    BY <1>2 DEF DeleteBackup
  <2>2. UNCHANGED <<store, made, before>>
    BY <1>2 DEF DeleteBackup
  <2>3. Shapes'
    BY <2>1, <2>2 DEF Shapes, CopiesInv, store
  <2>4. deleted \/ Fallback => deleted' \/ Fallback'
    BY <2>1 DEF Fallback
  <2> QED BY <1>1, <2>1, <2>2, <2>3, <2>4 DEF CopiesInv, Covered, NoDeadEnd, store, Acceptable
<1>3. CASE ImportBackup
  <2>1. copies \subseteq copies' /\ UNCHANGED <<store, history>> /\ made' = made + 1
    BY <1>3 DEF ImportBackup
  <2>2. \A c \in copies' \ copies : c.prefix # "passwords"
    BY <1>3 DEF ImportBackup, PrefixOf
  <2>3. Shapes'
    BY <2>1, <2>2 DEF Shapes, CopiesInv, store
  <2> QED BY <1>1, <2>1, <2>3, Growing DEF store
<1>4. CASE ChangePanel
  <2>1. Acceptable(live') /\ UNCHANGED <<directory, history>>
    BY <1>4 DEF ChangePanel
  <2>2. live' = [p \in Parts |-> live'[p]]
    BY <1>4 DEF ChangePanel, CopiesInv, Shapes
  <2> QED BY <1>1, <2>1, <2>2 DEF CopiesInv, Shapes, Covered, NoDeadEnd, directory, history
<1> QED BY <1>2, <1>3, <1>4

\* Requests that take the lock.
LEMMA Starting ==
    ASSUME CopiesInv,
           \/ Change \/ CreateManualBackup \/ CreateScheduledBackup \/ SaveBackupSchedule
           \/ RestoreBackup
    PROVE  CopiesInv'
<1>1. CASE Change
  BY <1>1, BeginSteps DEF Change
<1>2. CASE CreateManualBackup
  BY <1>2, BeginSteps DEF CreateManualBackup
<1>3. CASE CreateScheduledBackup
  BY <1>3, BeginSteps DEF CreateScheduledBackup
<1>4. CASE SaveBackupSchedule
  BY <1>4, BeginSteps DEF SaveBackupSchedule
<1>5. CASE RestoreBackup
  BY <1>5, BeginSteps DEF RestoreBackup
<1> QED BY <1>1, <1>2, <1>3, <1>4, <1>5

\* The other steps: copies, units, the server, the timer.
LEMMA Others ==
    ASSUME CopiesInv,
           \/ TakeCopy \/ TakeAutomaticCopy \/ StopService
           \/ WriteUnits \/ Disable \/ Unlink \/ Reload \/ Enable \/ Finish \/ BreakOff
           \/ Traffic \/ SaveCounters \/ Elapse
    PROVE  CopiesInv'
<1>1. CASE TakeCopy \/ TakeAutomaticCopy
  <2>1. StepsOf' /\ op' = op /\ step # "safety"
    BY <1>1, AdvanceSteps DEF TakeCopy, TakeAutomaticCopy, CopiesInv, Advance
  <2>2. copies \subseteq copies' /\ made' = made + 1 /\ UNCHANGED <<store, history>>
    BY <1>1 DEF TakeCopy, TakeAutomaticCopy, Take
  <2>3. \A c \in copies' \ copies : c.prefix = "passwords" => c.label = "automatic"
    BY <1>1 DEF TakeCopy, TakeAutomaticCopy, Take, PrefixOf
  <2>4. Shapes'
    BY <2>2, <2>3 DEF Shapes, CopiesInv, store
  <2> QED BY <2>1, <2>2, <2>4, Growing DEF store
<1>2. CASE StopService
  <2>1. StepsOf' /\ op' = op /\ step # "safety"
    BY <1>2, AdvanceSteps DEF StopService, CopiesInv, Advance
  <2>2. live' = [p \in Parts |-> live'[p]]
    BY <1>2 DEF StopService, CopiesInv, Shapes
  <2>3. live'["xray"] = live["xray"] /\ live'["cascade"] = live["cascade"]
    BY <1>2 DEF StopService, CopiesInv, Shapes, Parts
  <2>4. UNCHANGED <<directory, history>>
    BY <1>2 DEF StopService
  <2>5. Shapes'
    BY <2>2, <2>4 DEF Shapes, CopiesInv, directory
  <2> QED BY <2>1, <2>3, <2>4, <2>5, Growing DEF directory
<1>3. CASE WriteUnits \/ Disable \/ Unlink \/ Reload \/ Enable
  <2>1. StepsOf' /\ op' = op /\ step # "safety"
    BY <1>3, AdvanceSteps DEF WriteUnits, Disable, Unlink, Reload, Enable, CopiesInv, Advance
  <2>2. UNCHANGED <<store, directory, history>>
    BY <1>3 DEF WriteUnits, Disable, Unlink, Reload, Enable
  <2>3. Shapes'
    BY <2>2 DEF Shapes, CopiesInv, store, directory
  <2> QED BY <2>1, <2>2, <2>3, Growing DEF store, directory
<1>4. CASE Finish \/ BreakOff
  <2>1. StepsOf' /\ op' = "none"
    BY <1>4, EndSteps DEF Finish, BreakOff
  <2>2. UNCHANGED <<store, directory, history>>
    BY <1>4 DEF Finish, BreakOff
  <2>3. Shapes'
    BY <2>2 DEF Shapes, CopiesInv, store, directory
  <2> QED BY <2>1, <2>2, <2>3, Growing DEF store, directory
<1>5. CASE Traffic \/ SaveCounters \/ Elapse
  <2>1. UNCHANGED <<directory, helper, history>>
    BY <1>5 DEF Traffic, SaveCounters, Elapse
  <2>2. StepsOf' /\ op' = op /\ step' = step
    BY <2>1 DEF CopiesInv, StepsOf, helper
  <2>3. live' = [p \in Parts |-> live'[p]]
    BY <1>5 DEF Traffic, SaveCounters, Elapse, store, CopiesInv, Shapes
  <2>4. live'["xray"] = live["xray"] /\ live'["cascade"] = live["cascade"]
    BY <1>5 DEF Traffic, SaveCounters, Elapse, store, CopiesInv, Shapes, Parts
  <2>5. Shapes'
    BY <2>1, <2>3 DEF Shapes, CopiesInv, directory
  <2> QED BY <2>1, <2>2, <2>4, <2>5, Growing DEF directory
<1> QED BY <1>1, <1>2, <1>3, <1>4, <1>5

\* What holds in every reachable state.
THEOREM CopiesSafe == Spec => []CopiesInv
<1>1. Init => CopiesInv
  BY DEF Init, CopiesInv, StepsOf, Shapes, Covered, NoDeadEnd, Acceptable, Parts, Operations
<1>2. CopiesInv /\ [Next]_vars => CopiesInv'
  <2> SUFFICES ASSUME CopiesInv, [Next]_vars PROVE CopiesInv'
    OBVIOUS
  <2>1. CASE TakeSafetyCopy
    BY <2>1, SafetyCopy
  <2>2. CASE WriteDatabase \/ WriteFile
    BY <2>2, Writing
  <2>3. CASE Prune
    <3>1. StepsOf' /\ op' # "restore"
      BY <2>3, AdvanceSteps DEF Prune, CopiesInv, Advance, StepsOf
    <3> QED BY <2>3, <3>1, Pruning DEF Prune
  <2>4. CASE PrunePartly
    <3>1. PICK gone \in SUBSET Excess : copies' = copies \ gone /\ End
      BY <2>4 DEF PrunePartly
    <3>2. StepsOf' /\ op' # "restore"
      BY <3>1, EndSteps
    <3> QED BY <2>4, <3>1, <3>2, Pruning DEF PrunePartly
  <2>5. CASE DeleteBackup \/ ImportBackup \/ ChangePanel
    BY <2>5, Administrator
  <2>6. CASE \/ Change \/ CreateManualBackup \/ CreateScheduledBackup \/ SaveBackupSchedule
             \/ RestoreBackup
    BY <2>6, Starting
  <2>7. CASE \/ TakeCopy \/ TakeAutomaticCopy \/ StopService
             \/ WriteUnits \/ Disable \/ Unlink \/ Reload \/ Enable \/ Finish \/ BreakOff
             \/ Traffic \/ SaveCounters \/ Elapse
    BY <2>7, Others
  <2>8. CASE UNCHANGED vars
    BY <2>8 DEF vars, store, directory, helper, history, CopiesInv, StepsOf, Shapes, Covered,
               NoDeadEnd, Fallback, Acceptable
  <2> QED BY <2>1, <2>2, <2>3, <2>4, <2>5, <2>6, <2>7, <2>8 DEF Next
<1> QED BY <1>1, <1>2, PTL DEF Spec

\* A restore can be undone at every moment.
THEOREM RestoreUndoable == Spec => []UndoAvailable
<1>1. CopiesInv => UndoAvailable
  BY DEF CopiesInv, Covered, UndoAvailable
<1> QED BY <1>1, CopiesSafe, PTL

\* Files that do not go together are there only beside a copy to go back to.
THEOREM NeverStuck == Spec => []NoDeadEnd
<1>1. CopiesInv => NoDeadEnd
  BY DEF CopiesInv
<1> QED BY <1>1, CopiesSafe, PTL

-----------------------------------------------------------------------------
(* The newest of a set of copies, by their stamps.                         *)

\* There is a newest one.
LEMMA Newest ==
    ASSUME NEW S, IsFiniteSet(S), S # {}, \A c \in S : c.stamp \in Nat
    PROVE  \E e \in S : \A d \in S : d.stamp <= e.stamp
<1> DEFINE T == {Newer(e, S) : e \in S}
<1>1. T \subseteq FiniteSubsetsOf(S) /\ T # {}
  <2>1. FiniteSubsetsOf(S) = SUBSET S
    BY FS_FiniteSubsetsOfFinite
  <2>2. \A e \in S : Newer(e, S) \in SUBSET S
    BY DEF Newer
  <2>3. T # {} /\ \A U \in T : U \in SUBSET S
    BY <2>2
  <2> QED BY <2>1, <2>3
<1>2. PICK U \in T : \A V \in T : <<V, U>> \notin StrictSubsetOrdering(S)
  <2>1. IsWellFoundedOn(StrictSubsetOrdering(S), FiniteSubsetsOf(S))
    BY FS_StrictSubsetOrderingWellFounded
  <2> HIDE DEF T
  <2> QED BY <1>1, <2>1, WFMin
<1>3. PICK e \in S : U = Newer(e, S)
  BY <1>2
<1>4. ASSUME NEW d \in S, d.stamp > e.stamp PROVE FALSE
  <2>1. Newer(d, S) \subseteq Newer(e, S) /\ d \in Newer(e, S) /\ d \notin Newer(d, S)
    BY <1>4 DEF Newer
  <2>2. Newer(d, S) \in SUBSET S /\ Newer(e, S) \in SUBSET S
    BY DEF Newer
  <2>3. <<Newer(d, S), Newer(e, S)>> \in StrictSubsetOrdering(S)
    BY <2>1, <2>2 DEF StrictSubsetOrdering
  <2> QED BY <1>2, <1>3, <2>3
<1> QED BY <1>4

\* And an oldest one.
LEMMA Oldest ==
    ASSUME NEW S, IsFiniteSet(S), S # {}, \A c \in S : c.stamp \in Nat
    PROVE  \E e \in S : \A d \in S : d.stamp >= e.stamp
<1> DEFINE Older(e) == {d \in S : d.stamp <= e.stamp}
           T == {Older(e) : e \in S}
<1>1. T \subseteq FiniteSubsetsOf(S) /\ T # {}
  <2>1. FiniteSubsetsOf(S) = SUBSET S
    BY FS_FiniteSubsetsOfFinite
  <2>2. \A e \in S : Older(e) \in SUBSET S
    OBVIOUS
  <2>3. T # {} /\ \A U \in T : U \in SUBSET S
    BY <2>2
  <2> QED BY <2>1, <2>3
<1>2. PICK U \in T : \A V \in T : <<V, U>> \notin StrictSubsetOrdering(S)
  <2>1. IsWellFoundedOn(StrictSubsetOrdering(S), FiniteSubsetsOf(S))
    BY FS_StrictSubsetOrderingWellFounded
  <2> HIDE DEF T
  <2> QED BY <1>1, <2>1, WFMin
<1>3. PICK e \in S : U = Older(e)
  BY <1>2
<1>4. ASSUME NEW d \in S, d.stamp < e.stamp PROVE FALSE
  <2>1. Older(d) \subseteq Older(e) /\ e \in Older(e) /\ e \notin Older(d)
    BY <1>4
  <2>2. <<Older(d), Older(e)>> \in StrictSubsetOrdering(S)
    BY <2>1 DEF StrictSubsetOrdering
  <2> QED BY <1>2, <1>3, <2>2
<1> QED BY <1>4

\* Those that pruning keeps, and what it removes.
Kept(S, k) == {d \in S : Cardinality(Newer(d, S)) < k}

\* Of a copy that it removes, as many newer ones are kept as are to be.
LEMMA KeptAreEnough ==
    ASSUME NEW S, IsFiniteSet(S), \A c \in S : c.stamp \in Nat, NEW k \in Nat,
           NEW c \in S \ Kept(S, k)
    PROVE  Cardinality(Newer(c, Kept(S, k))) >= k
<1>1. \A d \in S : IsFiniteSet(Newer(d, S)) /\ Cardinality(Newer(d, S)) \in Nat
  BY FS_Subset, FS_CardinalityType DEF Newer
<1>2. IsFiniteSet(S \ Kept(S, k))
  BY FS_Difference
<1>3. PICK e \in S \ Kept(S, k) : \A d \in S \ Kept(S, k) : d.stamp <= e.stamp
  BY <1>2, Newest
<1>4. Newer(e, S) \subseteq Newer(c, Kept(S, k))
  BY <1>3 DEF Newer
<1>5. Cardinality(Newer(e, S)) >= k
  BY <1>1, <1>3 DEF Kept
<1>6. IsFiniteSet(Newer(c, Kept(S, k)))
  BY FS_Subset DEF Newer, Kept
<1>7. Cardinality(Newer(e, S)) <= Cardinality(Newer(c, Kept(S, k)))
  BY <1>4, <1>6, FS_Subset
<1> QED BY <1>1, <1>3, <1>5, <1>6, <1>7, FS_CardinalityType

\* It keeps no more than it should.
LEMMA KeptAreFew ==
    ASSUME NEW S, IsFiniteSet(S), \A c \in S : c.stamp \in Nat,
           \A c, d \in S : c.stamp = d.stamp => c = d, NEW k \in Nat \ {0}
    PROVE  Cardinality(Kept(S, k)) <= k
<1>1. IsFiniteSet(Kept(S, k)) /\ \A c \in Kept(S, k) : c.stamp \in Nat
  BY FS_Subset DEF Kept
<1>2. CASE Kept(S, k) = {}
  BY <1>2, FS_EmptySet
<1>3. CASE Kept(S, k) # {}
  <2>1. PICK e \in Kept(S, k) : \A d \in Kept(S, k) : d.stamp >= e.stamp
    BY <1>1, <1>3, Oldest
  <2>2. Kept(S, k) \subseteq Newer(e, S) \cup {e}
    BY <2>1 DEF Kept, Newer
  <2>3. IsFiniteSet(Newer(e, S)) /\ Cardinality(Newer(e, S)) \in Nat
    BY FS_Subset, FS_CardinalityType DEF Newer
  <2>4. Cardinality(Newer(e, S)) <= k - 1
    BY <2>1, <2>3 DEF Kept
  <2>5. IsFiniteSet(Newer(e, S) \cup {e}) /\ Cardinality(Newer(e, S) \cup {e}) <= k
    BY <2>3, <2>4, FS_AddElement
  <2>6. Cardinality(Kept(S, k)) <= Cardinality(Newer(e, S) \cup {e})
    BY <2>2, <2>5, FS_Subset
  <2> QED BY <1>1, <2>3, <2>5, <2>6, FS_CardinalityType
<1> QED BY <1>2, <1>3

-----------------------------------------------------------------------------
(* Types, and which plan each operation has at each of its steps.          *)

\* The steps of the schedule, and those after the settings of a full copy.
ScheduleSteps == {"units", "disable", "unlink", "reload", "enable"}
FullSteps == ScheduleSteps \cup {"xray", "cascade", "others", "schedule"}

PlanFits(o, st, d) ==
    /\ o = "change" => DOMAIN d = PartsOf("users")
    /\ o \in {"create", "scheduled"} => DOMAIN d \in {PartsOf("users"), Parts}
    /\ o = "schedule" => DOMAIN d = {"schedule"}
    /\ o = "restore" => "database" \in DOMAIN d /\ (st \in FullSteps => DOMAIN d = Parts)
    /\ st \in {"units", "enable"} => d["schedule"].on
    /\ st \in {"disable", "unlink"} => ~d["schedule"].on

HelperFits ==
    /\ op \in Operations /\ step \in Steps
    /\ step = "idle" <=> op = "none"
    /\ IsData(plan)
    /\ PlanFits(op, step, plan)

\* The counters stay below their bound: there is nothing to save while the server is
\* down, when its database is replaced.
LiveTyped ==
    /\ IsData(live) /\ DOMAIN live = Parts
    /\ unsaved \in Nat
    /\ live["database"].traffic + unsaved <= MaxTraffic
    /\ ~ServerRuns => unsaved = 0

CopyTyped(c, m) ==
    /\ c.stamp \in 1..m
    /\ c.prefix \in {"passwords", "users", "panel"}
    /\ c.label \in {"automatic", "manual", "scheduled", "uploaded"}
    /\ IsData(c.data) /\ "database" \in DOMAIN c.data
    /\ c.prefix = "panel" <=> DOMAIN c.data = Parts

CopiesTyped == made \in Nat /\ \A c \in copies : CopyTyped(c, made)

RestTyped ==
    /\ timer \in [files : Kinds \cup {"none"}, known : Kinds \cup {"none"}, enabled : BOOLEAN]
    /\ fired \in Kinds \cup {"none"}
    /\ undo \in 0..made
    /\ IsData(before) /\ DOMAIN before = Parts
    /\ deleted \in BOOLEAN
    /\ requests \in Nat
    /\ faults \in Nat

DataInv == HelperFits /\ LiveTyped /\ CopiesTyped /\ RestTyped

\* What each part may be.
LEMMA ValuesTable ==
    /\ Values["database"] = Databases /\ Values["schedule"] = Schedules
    /\ Values["xray"] = XraySettings /\ Values["cascade"] = BOOLEAN
    /\ Values["labels"] = Versions /\ Values["others"] = Versions
BY DEF Values, Parts

\* The parts of a copy of users are not all.
LEMMA UsersParts ==
    /\ PartsOf("users") = {"database", "labels"} /\ PartsOf("full") = Parts
    /\ PartsOf("users") # Parts /\ PartsOf("users") \subseteq Parts
    /\ "xray" \in Parts \ PartsOf("users")
    /\ "database" \in Parts /\ "schedule" \in Parts
BY DEF PartsOf, Parts

\* A step to the next one.
LEMMA AdvanceFits ==
    ASSUME HelperFits, step # "idle", Advance
    PROVE  HelperFits'
<1>1. op' = op /\ plan' = plan /\ step' = After(step)
  BY DEF Advance
<1>2. After(step) \in Steps \ {"idle"}
  BY DEF After, Steps
<1>3. After(step) \in {"units", "enable"} => plan["schedule"].on
  BY DEF After
<1>4. After(step) \in {"disable", "unlink"} => ~plan["schedule"].on
  BY DEF After, HelperFits, PlanFits
<1>5. ASSUME op = "restore", After(step) \in FullSteps PROVE DOMAIN plan = Parts
  <2>1. step \in FullSteps \/ "xray" \in DOMAIN plan
    BY <1>5 DEF After, FullSteps, ScheduleSteps
  <2>2. CASE step \in FullSteps
    BY <1>5, <2>2 DEF HelperFits, PlanFits
  <2>3. CASE "xray" \in DOMAIN plan
    BY <2>3, UsersParts DEF HelperFits, IsData
  <2> QED BY <2>1, <2>2, <2>3
<1>6. PlanFits(op, After(step), plan)
  BY <1>3, <1>4, <1>5 DEF HelperFits, PlanFits
<1> QED BY <1>1, <1>2, <1>6 DEF HelperFits

\* The end of an operation.
LEMMA EndFits ==
    ASSUME End
    PROVE  HelperFits'
<1>1. IsData(NoPlan)
  BY DEF IsData, NoPlan
<1> QED BY <1>1 DEF End, HelperFits, PlanFits, Operations, Steps, FullSteps, ScheduleSteps

\* The start of an operation whose plan suits it.
LEMMA BeginFits ==
    ASSUME NEW o \in Operations \ {"none"}, NEW first \in {"stop", "copy", "schedule", "safety"},
           NEW data, Begin(o, first, data), IsData(data),
           o = "change" => DOMAIN data = PartsOf("users"),
           o \in {"create", "scheduled"} => DOMAIN data \in {PartsOf("users"), Parts},
           o = "schedule" => DOMAIN data = {"schedule"},
           o = "restore" => "database" \in DOMAIN data /\ first = "safety"
    PROVE  HelperFits'
<1>1. op' = o /\ step' = first /\ plan' = data
  BY DEF Begin
<1>2. first \notin FullSteps \/ first = "schedule"
  BY DEF Steps, FullSteps, ScheduleSteps
<1>3. PlanFits(o, first, data)
  BY <1>2 DEF PlanFits
<1> QED BY <1>1, <1>3 DEF HelperFits, Steps

\* Live files are a plan of every kind.
LEMMA LiveData ==
    ASSUME LiveTyped, NEW parts \in {{"database"}, PartsOf("users"), Parts}
    PROVE  IsData([p \in parts |-> live[p]])
<1>1. parts \subseteq Parts
  BY UsersParts DEF Parts
<1> QED BY <1>1 DEF LiveTyped, IsData

\* Every request leads to a plan of its kind.
LEMMA RequestFits ==
    ASSUME DataInv,
           \/ Change \/ CreateManualBackup \/ CreateScheduledBackup \/ SaveBackupSchedule
           \/ RestoreBackup
    PROVE  HelperFits'
<1>1. CASE Change
  <2>1. PICK v \in Versions : Begin("change", "stop",
               [p \in PartsOf("users") |->
                   IF p = "database" THEN [live[p] EXCEPT !.users = v] ELSE v])
    BY <1>1 DEF Change
  <2>2. PICK d : d = [p \in PartsOf("users") |->
                   IF p = "database" THEN [live[p] EXCEPT !.users = v] ELSE v]
    OBVIOUS
  <2>3. live["database"] \in Databases
    BY ValuesTable, UsersParts DEF DataInv, LiveTyped, IsData
  <2>4. [live["database"] EXCEPT !.users = v] \in Databases
    BY <2>3 DEF Databases
  <2>5. IsData(d)
    BY <2>2, <2>4, ValuesTable, UsersParts DEF IsData
  <2>6. DOMAIN d = PartsOf("users")
    BY <2>2
  <2> QED BY <2>1, <2>2, <2>5, <2>6, BeginFits DEF Operations
<1>2. CASE CreateManualBackup
  <2>1. PICK kind \in Kinds : Begin("create", "copy", [p \in PartsOf(kind) |-> live[p]])
    BY <1>2 DEF CreateManualBackup
  <2>2. PartsOf(kind) \in {PartsOf("users"), Parts}
    BY UsersParts DEF Kinds
  <2> QED BY <2>1, <2>2, LiveData, BeginFits DEF DataInv, Operations
<1>3. CASE CreateScheduledBackup
  <2>1. fired \in Kinds /\ Begin("scheduled", "copy", [p \in PartsOf(fired) |-> live[p]])
    BY <1>3 DEF CreateScheduledBackup, DataInv, RestTyped
  <2>2. PartsOf(fired) \in {PartsOf("users"), Parts}
    BY <2>1, UsersParts DEF Kinds
  <2> QED BY <2>1, <2>2, LiveData, BeginFits DEF DataInv, Operations
<1>4. CASE SaveBackupSchedule
  <2>1. PICK s \in Schedules : Begin("schedule", "schedule", [p \in {"schedule"} |-> s])
    BY <1>4 DEF SaveBackupSchedule
  <2>2. IsData([p \in {"schedule"} |-> s])
    BY ValuesTable DEF IsData
  <2> QED BY <2>1, <2>2, BeginFits DEF Operations
<1>5. CASE RestoreBackup
  <2>1. PICK c \in copies : Begin("restore", "safety", c.data)
    BY <1>5 DEF RestoreBackup
  <2>2. IsData(c.data) /\ "database" \in DOMAIN c.data
    BY DEF DataInv, CopiesTyped, CopyTyped
  <2> QED BY <2>1, <2>2, BeginFits DEF Operations
<1> QED BY <1>1, <1>2, <1>3, <1>4, <1>5

\* Every step of the system.
LEMMA HelperKept ==
    ASSUME DataInv, [Next]_vars
    PROVE  HelperFits'
<1>1. CASE \/ Change \/ CreateManualBackup \/ CreateScheduledBackup \/ SaveBackupSchedule
           \/ RestoreBackup
  BY <1>1, RequestFits
<1>2. CASE \/ TakeSafetyCopy \/ TakeCopy \/ TakeAutomaticCopy \/ Prune
           \/ StopService \/ WriteDatabase \/ WriteFile
           \/ WriteUnits \/ Disable \/ Unlink \/ Reload \/ Enable
  <2>1. Advance /\ step # "idle"
    BY <1>2 DEF TakeSafetyCopy, TakeCopy, TakeAutomaticCopy, Prune, StopService, WriteDatabase,
       WriteFile, WriteUnits, Disable, Unlink, Reload, Enable
  <2> QED BY <2>1, AdvanceFits DEF DataInv
<1>3. CASE PrunePartly \/ Finish \/ BreakOff
  BY <1>3, EndFits DEF PrunePartly, Finish, BreakOff
<1>4. CASE ChangePanel \/ DeleteBackup \/ ImportBackup \/ Traffic \/ SaveCounters \/ Elapse
           \/ UNCHANGED vars
  <2>1. UNCHANGED helper
    BY <1>4 DEF ChangePanel, DeleteBackup, ImportBackup, Traffic, SaveCounters, Elapse, vars
  <2> QED BY <2>1 DEF helper, DataInv, HelperFits
<1> QED BY <1>1, <1>2, <1>3, <1>4 DEF Next

\* The server goes down only with the step that stops it.
LEMMA ServerDown ==
    ASSUME HelperFits, step # "stop", Advance, ~ServerRuns'
    PROVE  ~ServerRuns
<1>1. op' = op /\ step' = After(step)
  BY DEF Advance
<1>2. op \in {"change", "restore"} /\ After(step) \in {"automatic", "prune", "database"}
  BY <1>1 DEF ServerRuns
<1>3. step \in {"automatic", "prune"}
  BY <1>2 DEF After
<1> QED BY <1>2, <1>3 DEF ServerRuns

\* Steps that leave the live files alone.
LEMMA LiveUntouched ==
    ASSUME LiveTyped, UNCHANGED store, ServerRuns' \/ ~ServerRuns
    PROVE  LiveTyped'
BY DEF LiveTyped, store

\* The files after every step.
LEMMA LiveKept ==
    ASSUME DataInv, CopiesInv, [Next]_vars
    PROVE  LiveTyped'
<1>0. /\ live = [p \in Parts |-> live[p]] /\ live["database"] \in Databases
      /\ \A p \in Parts : live[p] \in Values[p]
  BY ValuesTable, UsersParts DEF DataInv, LiveTyped, IsData, CopiesInv, Shapes
<1>a. MaxTraffic \in Nat
  BY ConstantsAssumption
<1>1. CASE \/ Change \/ CreateManualBackup \/ CreateScheduledBackup \/ SaveBackupSchedule
           \/ RestoreBackup
  <2>1. UNCHANGED store /\ step' \in {"stop", "copy", "schedule", "safety"}
    BY <1>1 DEF Change, CreateManualBackup, CreateScheduledBackup, SaveBackupSchedule,
       RestoreBackup, Begin
  <2> QED BY <2>1, LiveUntouched DEF DataInv, ServerRuns
<1>2. CASE \/ TakeSafetyCopy \/ TakeCopy \/ TakeAutomaticCopy \/ Prune
           \/ WriteUnits \/ Disable \/ Unlink \/ Reload \/ Enable
  <2>1. Advance /\ step # "stop" /\ UNCHANGED store
    BY <1>2 DEF TakeSafetyCopy, TakeCopy, TakeAutomaticCopy, Prune, WriteUnits, Disable, Unlink,
       Reload, Enable
  <2> QED BY <2>1, LiveUntouched, ServerDown DEF DataInv
<1>3. CASE PrunePartly \/ Finish \/ BreakOff
  <2>1. UNCHANGED store /\ op' = "none"
    BY <1>3 DEF PrunePartly, Finish, BreakOff, End
  <2> QED BY <2>1, LiveUntouched DEF DataInv, ServerRuns
<1>4. CASE DeleteBackup \/ ImportBackup \/ Elapse \/ UNCHANGED vars
  <2>1. UNCHANGED store /\ UNCHANGED helper
    BY <1>4 DEF DeleteBackup, ImportBackup, Elapse, vars
  <2>2. ServerRuns' = ServerRuns
    BY <2>1 DEF ServerRuns, helper
  <2> QED BY <2>1, <2>2, LiveUntouched DEF DataInv
<1>5. CASE ChangePanel
  <2>1. PICK x \in XraySettings, c \in BOOLEAN :
          live' = [live EXCEPT !["xray"] = x, !["cascade"] = c]
    BY <1>5 DEF ChangePanel
  <2>2. op' = "none" /\ unsaved' = unsaved
    BY <1>5 DEF ChangePanel, helper
  <2>3. live' = [p \in Parts |-> IF p = "xray" THEN x ELSE IF p = "cascade" THEN c ELSE live[p]]
    BY <1>0, <2>1 DEF Parts
  <2>4. live'["database"] = live["database"] /\ DOMAIN live' = Parts
    BY <2>3, UsersParts
  <2>5. IsData(live')
    BY <1>0, <2>3, ValuesTable DEF IsData
  <2> QED BY <2>2, <2>4, <2>5 DEF DataInv, LiveTyped, ServerRuns
<1>6. CASE StopService \/ SaveCounters
  <2>1. live' = [live EXCEPT !["database"].traffic = @ + unsaved] /\ unsaved' = 0
    BY <1>6 DEF StopService, SaveCounters
  <2>2. PICK d : d = [live["database"] EXCEPT !.traffic = @ + unsaved]
    OBVIOUS
  <2>3. d \in Databases /\ d.traffic = live["database"].traffic + unsaved
    BY <1>0, <1>a, <2>2 DEF Databases, DataInv, LiveTyped
  <2>4. live' = [p \in Parts |-> IF p = "database" THEN d ELSE live[p]]
    BY <1>0, <2>1, <2>2, UsersParts
  <2>5. IsData(live') /\ DOMAIN live' = Parts /\ live'["database"] = d
    BY <1>0, <2>3, <2>4, ValuesTable, UsersParts DEF IsData
  <2> QED BY <1>a, <2>1, <2>3, <2>5 DEF DataInv, LiveTyped, Databases
<1>7. CASE WriteDatabase
  <2>0. /\ step = "database" /\ Advance /\ UNCHANGED unsaved
        /\ live' = [live EXCEPT !["database"] =
                   IF op = "restore" THEN plan["database"]
                   ELSE [@ EXCEPT !.users = plan["database"].users]]
    BY <1>7 DEF WriteDatabase
  <2>1. PICK d : d = IF op = "restore" THEN plan["database"]
                     ELSE [live["database"] EXCEPT !.users = plan["database"].users]
    OBVIOUS
  <2>2. op \in {"change", "restore"} /\ "database" \in DOMAIN plan
    BY <2>0, UsersParts DEF DataInv, CopiesInv, StepsOf, HelperFits, PlanFits, Operations
  <2>3. plan["database"] \in Databases
    BY <2>2, ValuesTable DEF DataInv, HelperFits, IsData
  <2>4. unsaved = 0
    BY <2>0, <2>2 DEF DataInv, LiveTyped, ServerRuns
  <2>5. d \in Databases
    BY <1>0, <2>1, <2>3 DEF Databases
  <2>6. live' = [p \in Parts |-> IF p = "database" THEN d ELSE live[p]]
    BY <1>0, <2>0, <2>1, UsersParts
  <2>7. IsData(live') /\ DOMAIN live' = Parts /\ live'["database"] = d
    BY <1>0, <2>5, <2>6, ValuesTable, UsersParts DEF IsData
  <2> QED BY <1>a, <2>0, <2>4, <2>5, <2>7 DEF LiveTyped, Databases
<1>8. CASE WriteFile
  <2>0. /\ step \in {"labels", "xray", "cascade", "others", "schedule"} /\ Advance
        /\ UNCHANGED unsaved
        /\ live' = IF step \in DOMAIN plan THEN [live EXCEPT ![step] = plan[step]] ELSE live
    BY <1>8 DEF WriteFile
  <2>1. IsData(plan) /\ step \in Parts \ {"database"}
    BY <2>0 DEF DataInv, HelperFits, Parts
  <2>2. /\ live' = [p \in Parts |-> IF p = step /\ step \in DOMAIN plan THEN plan[p] ELSE live[p]]
    BY <1>0, <2>0, <2>1
  <2>3. IsData(live') /\ DOMAIN live' = Parts /\ live'["database"] = live["database"]
    BY <1>0, <2>1, <2>2, UsersParts DEF IsData
  <2>4. ServerRuns' \/ ~ServerRuns
    BY <2>0, ServerDown DEF DataInv
  <2> QED BY <2>0, <2>3, <2>4 DEF DataInv, LiveTyped
<1>9. CASE Traffic
  <2>1. /\ unsaved' = unsaved + 1 /\ live' = live /\ ServerRuns
        /\ live["database"].traffic + unsaved < MaxTraffic
    BY <1>9 DEF Traffic
  <2>2. ServerRuns'
    BY <1>9, <2>1 DEF Traffic, ServerRuns, helper
  <2> QED BY <1>0, <1>a, <2>1, <2>2 DEF DataInv, LiveTyped, Databases
<1> QED BY <1>1, <1>2, <1>3, <1>4, <1>5, <1>6, <1>7, <1>8, <1>9 DEF Next

\* Copies that go.
LEMMA CopiesShrink ==
    ASSUME CopiesTyped, copies' \subseteq copies, made' = made
    PROVE  CopiesTyped'
BY DEF CopiesTyped, CopyTyped

\* A copy that is added, of a type a copy may have.
LEMMA CopiesGrow ==
    ASSUME CopiesTyped, NEW c, CopyTyped(c, made + 1), copies' = copies \cup {c}, made' = made + 1
    PROVE  CopiesTyped'
BY DEF CopiesTyped, CopyTyped

\* A copy of what is live.
LEMMA TakeTyped ==
    ASSUME CopiesTyped, LiveTyped, NEW parts \in {{"database"}, PartsOf("users"), Parts},
           NEW prefix \in {"passwords", "users", "panel"}, prefix = "panel" <=> parts = Parts,
           NEW label \in {"automatic", "manual", "scheduled"}, Take(prefix, label, parts)
    PROVE  CopiesTyped'
<1>1. PICK c : c = [stamp |-> made + 1, prefix |-> prefix, label |-> label,
                    data |-> [p \in parts |-> live[p]]]
  OBVIOUS
<1>2. copies' = copies \cup {c} /\ made' = made + 1
  BY <1>1 DEF Take
<1>3. c.stamp = made + 1 /\ c.prefix = prefix /\ c.label = label
      /\ c.data = [p \in parts |-> live[p]]
  BY <1>1
<1>4. IsData(c.data)
  BY <1>3, LiveData
<1>5. DOMAIN c.data = parts /\ "database" \in parts
  BY <1>3, UsersParts
<1>6. CopyTyped(c, made + 1)
  BY <1>3, <1>4, <1>5 DEF CopyTyped, CopiesTyped
<1> QED BY <1>2, <1>6, CopiesGrow

\* The copies after every step.
LEMMA CopiesKept ==
    ASSUME DataInv, CopiesInv, [Next]_vars
    PROVE  CopiesTyped'
<1>1. CASE TakeSafetyCopy
  BY <1>1, TakeTyped DEF TakeSafetyCopy, DataInv
<1>2. CASE TakeAutomaticCopy
  BY <1>2, TakeTyped, UsersParts DEF TakeAutomaticCopy, DataInv
<1>3. CASE TakeCopy
  <2>1. /\ step = "copy"
        /\ Take(PrefixOf(DOMAIN plan), IF op = "scheduled" THEN "scheduled" ELSE "manual",
                DOMAIN plan)
    BY <1>3 DEF TakeCopy
  <2>2. op \in {"create", "scheduled"}
    BY <2>1 DEF CopiesInv, StepsOf, Operations
  <2>3. DOMAIN plan \in {PartsOf("users"), Parts}
    BY <2>2 DEF DataInv, HelperFits, PlanFits
  <2> QED BY <2>1, <2>3, TakeTyped DEF PrefixOf, DataInv
<1>4. CASE ImportBackup
  <2>1. PICK v \in Versions, x \in XraySettings, c \in BOOLEAN,
          parts \in {{"database"}, PartsOf("users"), Parts} :
         LET data == [p \in parts |-> CASE p = "database" -> [users |-> v, traffic |-> 0]
                                        [] p = "xray"     -> x
                                        [] p = "cascade"  -> c
                                        [] p = "schedule" -> DefaultSchedule
                                        [] OTHER          -> v]
         IN /\ Acceptable(data)
            /\ copies' = copies \cup
                 {[stamp |-> made + 1, prefix |-> PrefixOf(parts), label |-> "uploaded",
                   data |-> data]}
    BY <1>4 DEF ImportBackup
  <2>2. PICK d : d = [p \in parts |-> CASE p = "database" -> [users |-> v, traffic |-> 0]
                                        [] p = "xray"     -> x
                                        [] p = "cascade"  -> c
                                        [] p = "schedule" -> DefaultSchedule
                                        [] OTHER          -> v]
    OBVIOUS
  <2>3. parts \subseteq Parts /\ "database" \in parts
    BY UsersParts
  <2>4. [users |-> v, traffic |-> 0] \in Databases /\ DefaultSchedule \in Schedules
    BY ConstantsAssumption DEF Databases, DefaultSchedule, Schedules, Kinds
  <2>5. \A p \in parts : d[p] \in Values[p]
    <3>1. SUFFICES ASSUME NEW p \in parts PROVE d[p] \in Values[p]
      OBVIOUS
    <3>2. p \in {"database", "labels", "xray", "cascade", "others", "schedule"}
      BY <2>3 DEF Parts
    <3> QED BY <2>2, <2>4, <3>2, ValuesTable
  <2>6. IsData(d) /\ DOMAIN d = parts
    BY <2>2, <2>5 DEF IsData
  <2>7. PICK c1 : c1 = [stamp |-> made + 1, prefix |-> PrefixOf(parts), label |-> "uploaded",
                        data |-> d]
    OBVIOUS
  <2>8. CopyTyped(c1, made + 1)
    BY <2>3, <2>6, <2>7 DEF CopyTyped, PrefixOf, DataInv, CopiesTyped
  <2>9. copies' = copies \cup {c1}
    BY <2>1, <2>2, <2>7
  <2>10. made' = made + 1
    BY <1>4 DEF ImportBackup
  <2> QED BY <2>8, <2>9, <2>10, CopiesGrow DEF DataInv
<1>5. CASE Prune \/ PrunePartly \/ DeleteBackup
  <2>1. copies' \subseteq copies /\ made' = made
    BY <1>5 DEF Prune, PrunePartly, DeleteBackup
  <2> QED BY <2>1, CopiesShrink DEF DataInv
<1>6. CASE \/ Change \/ ChangePanel \/ CreateManualBackup \/ CreateScheduledBackup
           \/ SaveBackupSchedule \/ RestoreBackup
           \/ StopService \/ WriteDatabase \/ WriteFile
           \/ WriteUnits \/ Disable \/ Unlink \/ Reload \/ Enable
           \/ Finish \/ BreakOff \/ Traffic \/ SaveCounters \/ Elapse \/ UNCHANGED vars
  <2>1. UNCHANGED directory
    BY <1>6 DEF Change, ChangePanel, CreateManualBackup, CreateScheduledBackup,
       SaveBackupSchedule, RestoreBackup, Begin, StopService, WriteDatabase, WriteFile, WriteUnits,
       Disable, Unlink, Reload, Enable, Finish, BreakOff, Traffic, SaveCounters, Elapse, vars
  <2> QED BY <2>1, CopiesShrink DEF DataInv, directory
<1> QED BY <1>1, <1>2, <1>3, <1>4, <1>5, <1>6 DEF Next

\* The rest of the state.
LEMMA RestKept ==
    ASSUME DataInv, CopiesInv, CopiesTyped', [Next]_vars
    PROVE  RestTyped'
<1>1. made' \in Nat /\ made' >= made /\ made \in Nat
  BY DEF Next, CopiesTyped, DataInv, vars, directory, TakeSafetyCopy, TakeAutomaticCopy, TakeCopy,
     Take, ImportBackup, Prune, PrunePartly, DeleteBackup, Change, ChangePanel, CreateManualBackup,
     CreateScheduledBackup, SaveBackupSchedule, RestoreBackup, Begin, StopService, WriteDatabase,
     WriteFile, WriteUnits, Disable, Unlink, Reload, Enable, Finish, BreakOff, Traffic,
     SaveCounters, Elapse
<1>2. /\ timer' \in [files : Kinds \cup {"none"}, known : Kinds \cup {"none"}, enabled : BOOLEAN]
      /\ fired' \in Kinds \cup {"none"}
  <2>0. /\ timer \in [files : Kinds \cup {"none"}, known : Kinds \cup {"none"}, enabled : BOOLEAN]
        /\ fired \in Kinds \cup {"none"}
    BY DEF DataInv, RestTyped
  <2>1. CASE WriteUnits
    <3>1. op \in {"schedule", "restore"} /\ step = "units"
      BY <2>1 DEF WriteUnits, CopiesInv, StepsOf, Operations
    <3>2. "schedule" \in DOMAIN plan
      BY <3>1, UsersParts DEF DataInv, HelperFits, PlanFits, FullSteps, ScheduleSteps
    <3>4. plan["schedule"] \in Schedules
      BY <3>2, ValuesTable DEF DataInv, HelperFits, IsData
    <3>3. plan["schedule"].kind \in Kinds
      BY <3>4 DEF Schedules
    <3> QED BY <2>0, <2>1, <3>3 DEF WriteUnits
  <2>2. CASE Disable \/ Unlink \/ Reload \/ Enable \/ Elapse \/ CreateScheduledBackup
    BY <2>0, <2>2 DEF Disable, Unlink, Reload, Enable, Elapse, CreateScheduledBackup, Begin
  <2>3. CASE \/ Change \/ ChangePanel \/ CreateManualBackup
             \/ SaveBackupSchedule \/ RestoreBackup \/ DeleteBackup \/ ImportBackup
             \/ TakeSafetyCopy \/ TakeCopy \/ TakeAutomaticCopy \/ Prune \/ PrunePartly
             \/ StopService \/ WriteDatabase \/ WriteFile
             \/ Finish \/ BreakOff \/ Traffic \/ SaveCounters \/ UNCHANGED vars
    <3>1. timer' = timer /\ fired' = fired
      BY <2>3 DEF schedule, Change, ChangePanel, CreateManualBackup, SaveBackupSchedule,
         RestoreBackup, Begin, DeleteBackup, ImportBackup, TakeSafetyCopy, TakeCopy,
         TakeAutomaticCopy, Prune, PrunePartly, StopService, WriteDatabase, WriteFile, Finish,
         BreakOff, Traffic, SaveCounters, vars
    <3> QED BY <2>0, <3>1
  <2> QED BY <2>1, <2>2, <2>3 DEF Next
<1>3. /\ undo' \in 0..made' /\ IsData(before') /\ DOMAIN before' = Parts /\ deleted' \in BOOLEAN
  <2>0. undo \in 0..made /\ IsData(before) /\ DOMAIN before = Parts /\ deleted \in BOOLEAN
    BY DEF DataInv, RestTyped
  <2>1. CASE TakeSafetyCopy
    <3>1. undo' = made' /\ before' = live /\ deleted' = deleted
      BY <2>1 DEF TakeSafetyCopy
    <3>2. IsData(live) /\ DOMAIN live = Parts
      BY DEF DataInv, LiveTyped
    <3> QED BY <1>1, <2>0, <3>1, <3>2
  <2>2. CASE DeleteBackup
    <3>1. undo' \in {0, undo} /\ before' = before /\ deleted' \in BOOLEAN
      BY <2>0, <2>2 DEF DeleteBackup
    <3> QED BY <1>1, <2>0, <3>1
  <2>3. CASE \/ Change \/ ChangePanel \/ CreateManualBackup \/ CreateScheduledBackup
             \/ SaveBackupSchedule \/ RestoreBackup \/ ImportBackup
             \/ TakeCopy \/ TakeAutomaticCopy \/ Prune \/ PrunePartly
             \/ StopService \/ WriteDatabase \/ WriteFile
             \/ WriteUnits \/ Disable \/ Unlink \/ Reload \/ Enable
             \/ Finish \/ BreakOff \/ Traffic \/ SaveCounters \/ Elapse \/ UNCHANGED vars
    <3>1. undo' = undo /\ before' = before /\ deleted' = deleted
      BY <2>3 DEF history, Change, ChangePanel, CreateManualBackup, CreateScheduledBackup,
         SaveBackupSchedule, RestoreBackup, Begin, ImportBackup, TakeCopy, TakeAutomaticCopy,
         Prune, PrunePartly, StopService, WriteDatabase, WriteFile, WriteUnits, Disable, Unlink,
         Reload, Enable, Finish, BreakOff, Traffic, SaveCounters, Elapse, vars
    <3> QED BY <1>1, <2>0, <3>1
  <2> QED BY <2>1, <2>2, <2>3 DEF Next
<1>4. requests' \in Nat /\ faults' \in Nat
  BY DEF DataInv, RestTyped, Next, vars, Request, Change, ChangePanel, CreateManualBackup,
     CreateScheduledBackup, SaveBackupSchedule, RestoreBackup, Begin, DeleteBackup, ImportBackup,
     TakeSafetyCopy, TakeCopy, TakeAutomaticCopy, Prune, PrunePartly, StopService, WriteDatabase,
     WriteFile, WriteUnits, Disable, Unlink, Reload, Enable, Finish, BreakOff, Traffic,
     SaveCounters, Elapse
<1> QED BY <1>2, <1>3, <1>4 DEF RestTyped

\* Live files, plans and copies are data of the panel in every reachable state, and what
\* is written is a plan of the operation that writes it.
THEOREM DataTyped == Spec => []DataInv
<1>1. Init => DataInv
  <2> SUFFICES ASSUME Init PROVE DataInv
    OBVIOUS
  <2>1. PICK v \in Versions, x \in XraySettings, c \in BOOLEAN :
          live = [p \in Parts |-> CASE p = "database" -> [users |-> v, traffic |-> 0]
                                   [] p = "xray"     -> x
                                   [] p = "cascade"  -> c
                                   [] p = "schedule" -> DefaultSchedule
                                   [] OTHER          -> v]
    BY DEF Init
  <2>2. [users |-> v, traffic |-> 0] \in Databases /\ DefaultSchedule \in Schedules
    BY ConstantsAssumption DEF Databases, DefaultSchedule, Schedules, Kinds
  <2>3. \A p \in Parts : live[p] \in Values[p]
    <3>1. SUFFICES ASSUME NEW p \in Parts PROVE live[p] \in Values[p]
      OBVIOUS
    <3>2. p \in {"database", "labels", "xray", "cascade", "others", "schedule"}
      BY DEF Parts
    <3> QED BY <2>1, <2>2, <3>2, ValuesTable
  <2>4. IsData(live) /\ DOMAIN live = Parts /\ live["database"].traffic = 0
    BY <2>1, <2>3, UsersParts DEF IsData
  <2>5. LiveTyped
    BY <2>4, ConstantsAssumption DEF Init, LiveTyped
  <2>6. IsData(NoPlan)
    BY DEF IsData, NoPlan
  <2>7. HelperFits
    BY <2>6 DEF Init, HelperFits, PlanFits, Operations, Steps, FullSteps
  <2>8. CopiesTyped
    BY DEF Init, CopiesTyped
  <2>9. RestTyped
    <3>1. timer = [files |-> "none", known |-> "none", enabled |-> FALSE] /\ fired = "none"
          /\ undo = 0 /\ made = 0 /\ before = live /\ deleted = FALSE /\ requests = 0 /\ faults = 0
      BY DEF Init
    <3>2. undo \in 0..made
      BY <3>1
    <3>3. /\ timer \in [files : Kinds \cup {"none"}, known : Kinds \cup {"none"}, enabled : BOOLEAN]
          /\ fired \in Kinds \cup {"none"} /\ deleted \in BOOLEAN
          /\ requests \in Nat /\ faults \in Nat
      BY <3>1
    <3> QED BY <2>4, <3>1, <3>2, <3>3 DEF RestTyped
  <2> QED BY <2>5, <2>7, <2>8, <2>9 DEF DataInv
<1>2. DataInv /\ CopiesInv /\ [Next]_vars => DataInv'
  BY HelperKept, LiveKept, CopiesKept, RestKept DEF DataInv
<1> QED BY <1>1, <1>2, CopiesSafe, PTL DEF Spec

-----------------------------------------------------------------------------
(* The schedule.                                                           *)

\* What has been done of it at each step.
TimerInv ==
    /\ timer.enabled => timer.known # "none"
    /\ step \in ScheduleSteps => live["schedule"] = plan["schedule"]
    /\ step = "unlink" => ~timer.enabled
    /\ step = "reload" => IF plan["schedule"].on THEN timer.files = plan["schedule"].kind
                                                 ELSE ~timer.enabled
    /\ step = "enable" => timer.known = plan["schedule"].kind
    /\ step = "end" /\ op \in {"schedule", "restore"} /\ "schedule" \in DOMAIN plan =>
          /\ live["schedule"] = plan["schedule"]
          /\ timer.enabled = plan["schedule"].on
          /\ timer.enabled => timer.known = plan["schedule"].kind

\* A schedule that is being saved or restored.
LEMMA Scheduling ==
    ASSUME DataInv, CopiesInv, step \in ScheduleSteps \cup {"schedule"}
    PROVE  /\ op \in {"schedule", "restore"}
           /\ "schedule" \in DOMAIN plan /\ plan["schedule"] \in Schedules
<1>1. op \in {"schedule", "restore"}
  BY DEF CopiesInv, StepsOf, ScheduleSteps, Operations
<1>2. "schedule" \in DOMAIN plan
  BY <1>1, UsersParts DEF DataInv, HelperFits, PlanFits, FullSteps
<1> QED BY <1>1, <1>2, ValuesTable DEF DataInv, HelperFits, IsData

\* No operation, or one that begins.
LEMMA TimerAtRest ==
    ASSUME TimerInv, timer' = timer, step' \in {"idle", "stop", "copy", "schedule", "safety"}
    PROVE  TimerInv'
BY DEF TimerInv, ScheduleSteps

\* The steps that are not about the schedule lead to one of it only by writing it.
LEMMA TimerElsewhere ==
    ASSUME TimerInv, DataInv, CopiesInv, timer' = timer, Advance,
           step \in {"safety", "stop", "automatic", "copy", "prune", "database", "labels", "xray",
                     "cascade", "others"}
    PROVE  TimerInv'
<1>1. op' = op /\ plan' = plan /\ step' = After(step)
  BY DEF Advance
<1>2. After(step) \notin ScheduleSteps
  BY DEF After, ScheduleSteps
<1>3. ASSUME After(step) = "end", op \in {"schedule", "restore"}, "schedule" \in DOMAIN plan
      PROVE  FALSE
  <2>1. op = "restore"
    BY <1>3 DEF CopiesInv, StepsOf
  <2>2. step \notin {"copy", "prune"}
    BY <2>1 DEF CopiesInv, StepsOf
  <2>3. "xray" \notin DOMAIN plan
    BY <1>3, <2>2 DEF After
  <2>4. DOMAIN plan = Parts
    BY <1>3, <2>1, UsersParts DEF DataInv, HelperFits, PlanFits, IsData
  <2> QED BY <2>3, <2>4, UsersParts
<1> QED BY <1>1, <1>2, <1>3 DEF TimerInv, ScheduleSteps

\* Every step of the system.
LEMMA TimerKept ==
    ASSUME TimerInv, DataInv, CopiesInv, [Next]_vars
    PROVE  TimerInv'
<1>0. timer \in [files : Kinds \cup {"none"}, known : Kinds \cup {"none"}, enabled : BOOLEAN]
  BY DEF DataInv, RestTyped
<1>1. CASE \/ Change \/ CreateManualBackup \/ CreateScheduledBackup \/ SaveBackupSchedule
           \/ RestoreBackup
  <2>1. timer' = timer /\ step' \in {"stop", "copy", "schedule", "safety"}
    BY <1>1 DEF Change, CreateManualBackup, CreateScheduledBackup, SaveBackupSchedule,
       RestoreBackup, Begin
  <2> QED BY <2>1, TimerAtRest
<1>2. CASE \/ TakeSafetyCopy \/ TakeCopy \/ TakeAutomaticCopy \/ Prune
           \/ StopService \/ WriteDatabase \/ (WriteFile /\ step # "schedule")
  <2>1. /\ Advance /\ timer' = timer
        /\ step \in {"safety", "stop", "automatic", "copy", "prune", "database", "labels", "xray",
                     "cascade", "others"}
    BY <1>2 DEF TakeSafetyCopy, TakeCopy, TakeAutomaticCopy, Prune, StopService, WriteDatabase,
       WriteFile, schedule
  <2> QED BY <2>1, TimerElsewhere
<1>3. CASE PrunePartly \/ Finish \/ BreakOff
  <2>1. timer' = timer /\ step' = "idle"
    BY <1>3 DEF PrunePartly, Finish, BreakOff, End, schedule
  <2> QED BY <2>1, TimerAtRest
<1>4. CASE ChangePanel \/ DeleteBackup \/ ImportBackup
  <2>1. timer' = timer /\ step' = step /\ op = "none"
    BY <1>4 DEF ChangePanel, DeleteBackup, ImportBackup, schedule, helper
  <2>2. step' = "idle"
    BY <2>1 DEF CopiesInv, StepsOf
  <2> QED BY <2>1, <2>2, TimerAtRest
<1>5. CASE Traffic \/ SaveCounters \/ Elapse \/ UNCHANGED vars
  <2>1. timer' = timer /\ UNCHANGED <<op, step, plan>>
    BY <1>5 DEF Traffic, SaveCounters, Elapse, vars, schedule, helper
  <2>2. live'["schedule"] = live["schedule"]
    BY <1>5, UsersParts DEF Traffic, SaveCounters, Elapse, vars, store, CopiesInv, Shapes
  <2> QED BY <2>1, <2>2 DEF TimerInv
<1>6. CASE WriteFile /\ step = "schedule"
  <2>1. "schedule" \in DOMAIN plan
    BY <1>6, Scheduling
  <2>2. live' = [live EXCEPT !["schedule"] = plan["schedule"]]
    BY <1>6, <2>1 DEF WriteFile
  <2>3. live'["schedule"] = plan["schedule"]
    BY <2>2, UsersParts DEF CopiesInv, Shapes
  <2>4. /\ UNCHANGED <<op, plan, timer>> /\ step' \in {"units", "disable"}
    BY <1>6 DEF WriteFile, Advance, After, schedule
  <2> QED BY <2>3, <2>4 DEF TimerInv
<1>7. CASE WriteUnits
  <2>1. /\ timer' = [timer EXCEPT !.files = plan["schedule"].kind]
        /\ UNCHANGED <<op, plan, live>> /\ step = "units" /\ step' = "reload"
    BY <1>7 DEF WriteUnits, Advance, After, store
  <2>2. plan["schedule"].on
    BY <2>1 DEF DataInv, HelperFits, PlanFits
  <2>3. timer'.enabled = timer.enabled /\ timer'.known = timer.known
        /\ timer'.files = plan["schedule"].kind
    BY <1>0, <2>1
  <2> QED BY <2>1, <2>2, <2>3 DEF TimerInv, ScheduleSteps
<1>8. CASE Disable
  <2>1. /\ timer' = [timer EXCEPT !.enabled = FALSE]
        /\ UNCHANGED <<op, plan, live>> /\ step = "disable" /\ step' = "unlink"
    BY <1>8 DEF Disable, Advance, After, store
  <2>2. timer'.enabled = FALSE
    BY <1>0, <2>1
  <2> QED BY <2>1, <2>2 DEF TimerInv, ScheduleSteps
<1>9. CASE Unlink
  <2>1. /\ timer' = [timer EXCEPT !.files = "none"]
        /\ UNCHANGED <<op, plan, live>> /\ step = "unlink" /\ step' = "reload"
    BY <1>9 DEF Unlink, Advance, After, store
  <2>2. ~plan["schedule"].on
    BY <2>1 DEF DataInv, HelperFits, PlanFits
  <2>3. timer'.enabled = timer.enabled
    BY <1>0, <2>1
  <2> QED BY <2>1, <2>2, <2>3 DEF TimerInv, ScheduleSteps
<1>10. CASE Reload
  <2>1. /\ timer' = [timer EXCEPT !.known = timer.files]
        /\ UNCHANGED <<op, plan, live>> /\ step = "reload"
        /\ step' = IF plan["schedule"].on THEN "enable" ELSE "end"
    BY <1>10 DEF Reload, Advance, After, store
  <2>2. timer'.enabled = timer.enabled /\ timer'.known = timer.files
    BY <1>0, <2>1
  <2>3. plan["schedule"].on \in BOOLEAN /\ plan["schedule"].kind # "none"
    BY <2>1, Scheduling DEF ScheduleSteps, Schedules, Kinds
  <2>4. live["schedule"] = plan["schedule"]
    BY <2>1 DEF TimerInv, ScheduleSteps
  <2>5. CASE plan["schedule"].on
    BY <2>1, <2>2, <2>3, <2>4, <2>5 DEF TimerInv, ScheduleSteps
  <2>6. CASE ~plan["schedule"].on
    <3>1. timer.enabled = FALSE /\ plan["schedule"].on = FALSE
      BY <1>0, <2>1, <2>3, <2>6 DEF TimerInv
    <3> QED BY <2>1, <2>2, <2>4, <3>1 DEF TimerInv, ScheduleSteps
  <2> QED BY <2>5, <2>6
<1>11. CASE Enable
  <2>1. /\ timer' = [timer EXCEPT !.enabled = TRUE]
        /\ UNCHANGED <<op, plan, live>> /\ step = "enable" /\ step' = "end"
    BY <1>11 DEF Enable, Advance, After, store
  <2>2. timer'.enabled = TRUE /\ timer'.known = timer.known
    BY <1>0, <2>1
  <2>3. plan["schedule"].on = TRUE /\ plan["schedule"].kind # "none"
    <3>1. plan["schedule"].on
      BY <2>1 DEF DataInv, HelperFits, PlanFits
    <3> QED BY <2>1, <3>1, Scheduling DEF ScheduleSteps, Schedules, Kinds
  <2> QED BY <2>1, <2>2, <2>3 DEF TimerInv, ScheduleSteps
<1> QED BY <1>1, <1>2, <1>3, <1>4, <1>5, <1>6, <1>7, <1>8, <1>9, <1>10, <1>11 DEF Next

\* The schedule and its timer in every reachable state.
THEOREM TimerFollows == Spec => []TimerInv
<1>1. Init => TimerInv
  BY DEF Init, TimerInv, ScheduleSteps
<1> QED BY <1>1, TimerKept, DataTyped, CopiesSafe, PTL DEF Spec

\* Every reachable state is well typed.
THEOREM TypeCorrect == Spec => []TypeOK
<1>1. DataInv /\ TimerInv => TypeOK
  <2> SUFFICES ASSUME DataInv, TimerInv PROVE TypeOK
    OBVIOUS
  <2>1. unsaved \in 0..MaxTraffic
    <3>1. live["database"] \in Databases
      BY ValuesTable, UsersParts DEF DataInv, LiveTyped, IsData
    <3> QED BY <3>1, ConstantsAssumption DEF DataInv, LiveTyped, Databases
  <2> QED
    BY <2>1 DEF DataInv, HelperFits, LiveTyped, CopiesTyped, CopyTyped, RestTyped, TimerInv, TypeOK
<1> QED BY <1>1, DataTyped, TimerFollows, PTL

\* An operation that is in its last step and ends without a fault is finished.
LEMMA OnlyFinish ==
    ASSUME CopiesInv, DataInv, [Next]_vars, Succeeds, op # "none"
    PROVE  Finish
<1>1. step = "end" /\ op' = "none" /\ faults' = faults /\ faults \in Nat
  BY DEF Succeeds, DataInv, RestTyped
<1>2. ~UNCHANGED vars
  BY <1>1 DEF vars, helper
<1> QED
  BY <1>1, <1>2 DEF Next, Change, ChangePanel, CreateManualBackup, CreateScheduledBackup,
     SaveBackupSchedule, RestoreBackup, Begin, DeleteBackup, ImportBackup, TakeSafetyCopy, TakeCopy,
     TakeAutomaticCopy, Prune, PrunePartly, StopService, WriteDatabase, WriteFile, WriteUnits,
     Disable, Unlink, Reload, Enable, BreakOff, Traffic, SaveCounters, Elapse, helper

\* save_backup_schedule and restore_backup: a schedule that was saved or restored with
\* "ok" is the one systemd follows.
THEOREM ScheduleFollowed == Spec => ScheduleApplied
<1> DEFINE Act == "schedule" \in DOMAIN plan /\ op \in {"schedule", "restore"} /\ Succeeds =>
          LET s == live'["schedule"] IN
          /\ s = plan["schedule"]
          /\ timer'.enabled = s.on
          /\ s.on => timer'.known = s.kind
<1>1. DataInv /\ CopiesInv /\ TimerInv /\ [Next]_vars => Act
  <2> SUFFICES ASSUME DataInv, CopiesInv, TimerInv, [Next]_vars,
                      "schedule" \in DOMAIN plan, op \in {"schedule", "restore"}, Succeeds
               PROVE  Act
    OBVIOUS
  <2>1. step = "end" /\ UNCHANGED <<live, timer>>
    BY OnlyFinish DEF Finish, store, schedule
  <2> QED BY <2>1 DEF TimerInv
<1>2. Spec => [][Act]_vars
  BY <1>1, DataTyped, CopiesSafe, TimerFollows, PTL DEF Spec
<1> QED BY <1>2 DEF ScheduleApplied

-----------------------------------------------------------------------------
(* What a restore has written.                                             *)

\* The steps at which a part is still to be written.
Ahead ==
    LET early == {"safety", "stop", "database"} IN
    [ database |-> early,
      labels   |-> early \cup {"labels"},
      xray     |-> early \cup {"labels", "xray"},
      cascade  |-> early \cup {"labels", "xray", "cascade"},
      others   |-> early \cup {"labels", "xray", "cascade", "others"},
      schedule |-> early \cup {"labels", "xray", "cascade", "others", "schedule"} ]

RestoreInv ==
    op = "restore" /\ step # "safety" =>
        /\ \A p \in Parts \ {"database"} :
             live[p] = IF p \in DOMAIN plan /\ step \notin Ahead[p] THEN plan[p] ELSE before[p]
        /\ step \notin Ahead["database"] =>
             /\ live["database"].users = plan["database"].users
             /\ live["database"].traffic + unsaved >= plan["database"].traffic

\* Each part is written at the step that has its name, and in that order.
LEMMA Progress ==
    ASSUME DataInv, op = "restore", step \notin {"idle", "end", "copy", "prune"},
           NEW p \in DOMAIN plan, p \in Parts
    PROVE  After(step) \notin Ahead[p] <=> step \notin Ahead[p] \/ step = p
<1>0. DOMAIN plan \in {{"database"}, PartsOf("users"), Parts}
  BY DEF DataInv, HelperFits, PlanFits, IsData
<1>1. step = "labels" => \/ After(step) = "xray"
                         \/ After(step) = "end" /\ p \in {"database", "labels"}
  BY <1>0, UsersParts DEF After
<1>2. p \in {"database", "labels", "xray", "cascade", "others", "schedule"}
  BY DEF Parts
<1>3. CASE step = "labels"
  BY <1>1, <1>2, <1>3 DEF Ahead
<1>4. CASE step \in {"safety", "stop", "database"}
  <2>1. After("safety") = "stop" /\ After("stop") = "database" /\ After("database") = "labels"
    BY DEF After
  <2> QED BY <1>2, <1>4, <2>1 DEF Ahead
<1>5. CASE step \in {"xray", "cascade", "others"}
  <2>1. After("xray") = "cascade" /\ After("cascade") = "others" /\ After("others") = "schedule"
    BY DEF After
  <2> QED BY <1>2, <1>5, <2>1 DEF Ahead
<1>6. CASE step \in {"schedule", "units", "disable", "unlink", "reload", "enable", "automatic"}
  <2>1. step = "schedule" => After(step) \in {"units", "disable"}
    BY DEF After
  <2>2. step \in {"units", "disable", "unlink", "reload", "enable", "automatic"}
          => After(step) \in {"unlink", "reload", "enable", "end", "prune"}
    BY DEF After
  <2> QED BY <1>2, <1>6, <2>1, <2>2 DEF Ahead
<1> QED BY <1>3, <1>4, <1>5, <1>6 DEF DataInv, HelperFits, Steps

\* No restore, or one that has not begun.
LEMMA RestoreAtRest ==
    ASSUME op' # "restore" \/ step' = "safety"
    PROVE  RestoreInv'
BY DEF RestoreInv

\* Steps of another operation.
LEMMA RestoreElsewhere ==
    ASSUME op # "restore", Advance
    PROVE  RestoreInv'
BY DEF RestoreInv, Advance

\* Every step of the system.
LEMMA RestoreKept ==
    ASSUME RestoreInv, DataInv, CopiesInv, [Next]_vars
    PROVE  RestoreInv'
<1>0. /\ live = [p \in Parts |-> live[p]] /\ live["database"] \in Databases /\ unsaved \in Nat
  BY ValuesTable, UsersParts DEF DataInv, LiveTyped, IsData, CopiesInv, Shapes
<1>a. op = "restore" =>
         /\ plan["database"] \in Databases /\ step \notin {"idle", "automatic", "copy", "prune"}
         /\ "database" \in DOMAIN plan
  BY ValuesTable DEF DataInv, HelperFits, PlanFits, IsData, CopiesInv, StepsOf
<1>1. CASE \/ Change \/ CreateManualBackup \/ CreateScheduledBackup \/ SaveBackupSchedule
           \/ RestoreBackup \/ PrunePartly \/ Finish \/ BreakOff
  <2>1. op' # "restore" \/ step' = "safety"
    BY <1>1 DEF Change, CreateManualBackup, CreateScheduledBackup, SaveBackupSchedule,
       RestoreBackup, Begin, PrunePartly, Finish, BreakOff, End
  <2> QED BY <2>1, RestoreAtRest
<1>2. CASE ChangePanel \/ DeleteBackup \/ ImportBackup
  <2>1. op' = "none"
    BY <1>2 DEF ChangePanel, DeleteBackup, ImportBackup, helper
  <2> QED BY <2>1, RestoreAtRest
<1>3. CASE \/ TakeSafetyCopy \/ TakeCopy \/ TakeAutomaticCopy \/ Prune
           \/ StopService \/ WriteDatabase \/ WriteFile
           \/ WriteUnits \/ Disable \/ Unlink \/ Reload \/ Enable
  <2>1. Advance /\ step # "end" /\ step # "idle"
    BY <1>3 DEF TakeSafetyCopy, TakeCopy, TakeAutomaticCopy, Prune, StopService, WriteDatabase,
       WriteFile, WriteUnits, Disable, Unlink, Reload, Enable
  <2>2. CASE op # "restore"
    BY <2>1, <2>2, RestoreElsewhere
  <2>3. CASE op = "restore"
    <3>1. op' = "restore" /\ plan' = plan /\ step' = After(step)
      BY <2>1, <2>3 DEF Advance
    <3>2. \A p \in DOMAIN plan \cap Parts :
             step' \notin Ahead[p] <=> step \notin Ahead[p] \/ step = p
      BY <1>a, <2>1, <2>3, <3>1, Progress
    <3>3. CASE TakeSafetyCopy
      <4>1. step = "safety" /\ before' = live /\ live' = live /\ step' = "stop"
        BY <3>1, <3>3 DEF TakeSafetyCopy, store, After
      <4>2. \A p \in Parts : step' \in Ahead[p]
        BY <4>1 DEF Ahead, Parts
      <4> QED BY <4>1, <4>2, UsersParts DEF RestoreInv
    <3>4. CASE StopService
      <4>1. /\ step = "stop" /\ before' = before /\ step' = "database"
            /\ live' = [live EXCEPT !["database"].traffic = @ + unsaved]
        BY <2>3, <3>1, <3>4 DEF StopService, After, history
      <4>2. \A p \in Parts : step \in Ahead[p] /\ step' \in Ahead[p]
        BY <4>1 DEF Ahead, Parts
      <4>3. \A p \in Parts \ {"database"} : live'[p] = live[p]
        BY <1>0, <4>1, UsersParts
      <4> QED BY <2>3, <4>1, <4>2, <4>3, UsersParts DEF RestoreInv
    <3>5. CASE WriteDatabase
      <4>1. /\ step = "database" /\ before' = before /\ unsaved' = unsaved
            /\ live' = [live EXCEPT !["database"] = plan["database"]]
        BY <2>3, <3>5 DEF WriteDatabase, history
      <4>2. live'["database"] = plan["database"]
        BY <1>0, <4>1, UsersParts
      <4>3. \A p \in Parts \ {"database"} : live'[p] = live[p]
        BY <1>0, <4>1
      <4>4. live'["database"].users = plan["database"].users
            /\ live'["database"].traffic + unsaved' >= plan["database"].traffic
        BY <1>0, <1>a, <2>3, <4>1, <4>2 DEF Databases
      <4> QED BY <2>3, <3>1, <3>2, <4>1, <4>3, <4>4 DEF RestoreInv
    <3>6. CASE WriteFile
      <4>1. /\ step \in {"labels", "xray", "cascade", "others", "schedule"}
            /\ before' = before /\ unsaved' = unsaved
            /\ live' = IF step \in DOMAIN plan THEN [live EXCEPT ![step] = plan[step]] ELSE live
        BY <3>6 DEF WriteFile, history
      <4>2. step \in Parts \ {"database"}
        BY <4>1 DEF Parts
      <4>3. \A p \in Parts : live'[p] = IF p = step /\ p \in DOMAIN plan THEN plan[p] ELSE live[p]
        BY <1>0, <4>1, <4>2
      <4>4. live'["database"] = live["database"] /\ step \notin Ahead["database"]
        BY <4>1, <4>2, <4>3, UsersParts DEF Ahead
      <4> QED BY <2>3, <3>1, <3>2, <4>1, <4>2, <4>3, <4>4 DEF RestoreInv
    <3>7. CASE WriteUnits \/ Disable \/ Unlink \/ Reload \/ Enable
      <4>1. step \in {"units", "disable", "unlink", "reload", "enable"}
            /\ UNCHANGED <<live, unsaved, before>>
        BY <3>7 DEF WriteUnits, Disable, Unlink, Reload, Enable, store, history
      <4>2. step \notin Parts /\ step # "safety" /\ step \notin Ahead["database"]
        BY <4>1 DEF Parts, Ahead
      <4> QED BY <2>3, <3>1, <3>2, <4>1, <4>2 DEF RestoreInv
    <3>8. CASE TakeCopy \/ TakeAutomaticCopy \/ Prune
      BY <1>a, <2>3, <3>8 DEF TakeCopy, TakeAutomaticCopy, Prune
    <3> QED BY <1>3, <3>3, <3>4, <3>5, <3>6, <3>7, <3>8
  <2> QED BY <2>2, <2>3
<1>4. CASE Traffic \/ SaveCounters \/ Elapse \/ UNCHANGED vars
  <2>1. UNCHANGED <<op, step, plan, before>>
    BY <1>4 DEF Traffic, SaveCounters, Elapse, vars, helper, history
  <2>2. \A p \in Parts \ {"database"} : live'[p] = live[p]
    BY <1>0, <1>4 DEF Traffic, SaveCounters, Elapse, vars, store
  <2>3. /\ live'["database"].users = live["database"].users
        /\ live'["database"].traffic + unsaved' >= live["database"].traffic + unsaved
        /\ live'["database"].traffic + unsaved' \in Nat
    <3>1. CASE SaveCounters
      <4>1. PICK d : d = [live["database"] EXCEPT !.traffic = @ + unsaved]
        OBVIOUS
      <4>2. live' = [live EXCEPT !["database"] = d] /\ unsaved' = 0
        BY <3>1, <4>1 DEF SaveCounters
      <4>3. live'["database"] = d
        BY <1>0, <4>2, UsersParts
      <4> QED BY <1>0, <4>1, <4>2, <4>3 DEF Databases
    <3>2. CASE Traffic \/ Elapse \/ UNCHANGED vars
      <4>1. live' = live /\ unsaved' \in {unsaved, unsaved + 1}
        BY <3>2 DEF Traffic, Elapse, vars, store
      <4> QED BY <1>0, <4>1 DEF Databases
    <3> QED BY <1>4, <3>1, <3>2
  <2>4. ASSUME op = "restore", step \notin Ahead["database"], step # "safety"
        PROVE  /\ live'["database"].users = plan["database"].users
               /\ live'["database"].traffic + unsaved' >= plan["database"].traffic
    <3>1. /\ live["database"].users = plan["database"].users
          /\ live["database"].traffic + unsaved >= plan["database"].traffic
      BY <2>4 DEF RestoreInv
    <3> QED BY <1>0, <1>a, <2>3, <2>4, <3>1 DEF Databases
  <2> QED BY <2>1, <2>2, <2>4 DEF RestoreInv
<1> QED BY <1>1, <1>2, <1>3, <1>4 DEF Next

\* How far a restore has come, in every reachable state.
THEOREM RestoreProceeds == Spec => []RestoreInv
<1>1. Init => RestoreInv
  BY DEF Init, RestoreInv
<1> QED BY <1>1, RestoreKept, DataTyped, CopiesSafe, PTL DEF Spec

\* restore_backup: a restore that answers "ok" has left what was copied, and of the rest
\* what was there.
THEOREM RestoreExact == Spec => RestoreFaithful
<1> DEFINE Act == op = "restore" /\ Succeeds =>
          /\ \A p \in Parts \ {"database"} :
               live'[p] = IF p \in DOMAIN plan THEN plan[p] ELSE before[p]
          /\ live'["database"].users = plan["database"].users
          /\ live'["database"].traffic + unsaved' >= plan["database"].traffic
<1>1. DataInv /\ CopiesInv /\ RestoreInv /\ [Next]_vars => Act
  <2> SUFFICES ASSUME DataInv, CopiesInv, RestoreInv, [Next]_vars, op = "restore", Succeeds
               PROVE  Act
    OBVIOUS
  <2>1. step = "end" /\ UNCHANGED <<live, unsaved>>
    BY OnlyFinish DEF Finish, store
  <2>2. \A p \in Parts : step \notin Ahead[p]
    BY <2>1 DEF Ahead, Parts
  <2> QED BY <2>1, <2>2, UsersParts DEF RestoreInv
<1>2. Spec => [][Act]_vars
  BY <1>1, DataTyped, CopiesSafe, RestoreProceeds, PTL DEF Spec
<1> QED BY <1>2 DEF RestoreFaithful

-----------------------------------------------------------------------------
(* Copies and pruning.                                                     *)

\* Stamps tell copies apart; whoever prunes has just made one.
StampInv ==
    /\ IsFiniteSet(copies)
    /\ \A c, d \in copies : c.stamp = d.stamp => c = d
    /\ step = "prune" => \E c \in copies : c.stamp = made

\* Every step of the system.
LEMMA StampsKept ==
    ASSUME StampInv, DataInv, CopiesInv, [Next]_vars
    PROVE  StampInv'
<1>0. made \in Nat /\ \A c \in copies : c.stamp \in 1..made
  BY DEF DataInv, CopiesTyped, CopyTyped
<1>1. ASSUME NEW c, c.stamp = made + 1, copies' = copies \cup {c}, made' = made + 1
      PROVE  StampInv'
  <2>1. IsFiniteSet(copies')
    BY <1>1, FS_AddElement DEF StampInv
  <2>2. \A d, e \in copies' : d.stamp = e.stamp => d = e
    BY <1>0, <1>1 DEF StampInv
  <2> QED BY <1>1, <2>1, <2>2 DEF StampInv
<1>2. CASE TakeSafetyCopy \/ TakeCopy \/ TakeAutomaticCopy
  <2>1. PICK prefix, label, parts : Take(prefix, label, parts)
    BY <1>2 DEF TakeSafetyCopy, TakeCopy, TakeAutomaticCopy
  <2>2. PICK c : c = [stamp |-> made + 1, prefix |-> prefix, label |-> label,
                      data |-> [p \in parts |-> live[p]]]
    OBVIOUS
  <2>3. c.stamp = made + 1
    BY <2>2
  <2> QED BY <1>1, <2>1, <2>2, <2>3 DEF Take
<1>3. CASE ImportBackup
  <2>1. PICK prefix, data : copies' = copies \cup
          {[stamp |-> made + 1, prefix |-> prefix, label |-> "uploaded", data |-> data]}
    BY <1>3 DEF ImportBackup
  <2>2. PICK c : c = [stamp |-> made + 1, prefix |-> prefix, label |-> "uploaded", data |-> data]
    OBVIOUS
  <2>3. c.stamp = made + 1 /\ made' = made + 1
    BY <1>3, <2>2 DEF ImportBackup
  <2> QED BY <1>1, <2>1, <2>2, <2>3
<1>4. CASE Prune \/ PrunePartly \/ DeleteBackup
  <2>1. copies' \subseteq copies
    BY <1>4 DEF Prune, PrunePartly, DeleteBackup
  <2>2. IsFiniteSet(copies')
    BY <2>1, FS_Subset DEF StampInv
  <2>3. step' # "prune"
    BY <1>4 DEF Prune, PrunePartly, DeleteBackup, Advance, After, End, helper, CopiesInv, StepsOf
  <2> QED BY <2>1, <2>2, <2>3 DEF StampInv
<1>5. CASE \/ Change \/ ChangePanel \/ CreateManualBackup \/ CreateScheduledBackup
           \/ SaveBackupSchedule \/ RestoreBackup
           \/ StopService \/ WriteDatabase \/ WriteFile
           \/ WriteUnits \/ Disable \/ Unlink \/ Reload \/ Enable
           \/ Finish \/ BreakOff \/ Traffic \/ SaveCounters \/ Elapse \/ UNCHANGED vars
  <2>1. copies' = copies /\ made' = made
    BY <1>5 DEF Change, ChangePanel, CreateManualBackup, CreateScheduledBackup,
       SaveBackupSchedule, RestoreBackup, Begin, StopService, WriteDatabase, WriteFile, WriteUnits,
       Disable, Unlink, Reload, Enable, Finish, BreakOff, Traffic, SaveCounters, Elapse, vars,
       directory
  <2>2. step' = "prune" => step = "prune"
    BY <1>5 DEF Change, ChangePanel, CreateManualBackup, CreateScheduledBackup,
       SaveBackupSchedule, RestoreBackup, Begin, StopService, WriteDatabase, WriteFile, WriteUnits,
       Disable, Unlink, Reload, Enable, Finish, BreakOff, Traffic, SaveCounters, Elapse, vars,
       helper, Advance, After, End
  <2> QED BY <2>1, <2>2 DEF StampInv
<1> QED BY <1>2, <1>3, <1>4, <1>5 DEF Next

\* Every copy has a stamp of its own, in every reachable state.
THEOREM StampsApart == Spec => []StampInv
<1>1. Init => StampInv
  BY FS_EmptySet DEF Init, StampInv
<1> QED BY <1>1, StampsKept, DataTyped, CopiesSafe, PTL DEF Spec

\* What pruning looks at, how many it keeps, and what it removes.
LEMMA PruneFacts ==
    ASSUME StampInv, DataInv
    PROVE  /\ IsFiniteSet(Class) /\ Class \subseteq copies
           /\ \A c \in Class : c.stamp \in Nat
           /\ \A c, d \in Class : c.stamp = d.stamp => c = d
           /\ Keep \in Nat \ {0}
           /\ Excess = Class \ Kept(Class, Keep)
<1>1. IsFiniteSet(Class) /\ Class \subseteq copies
  BY FS_Subset DEF Class, StampInv
<1>2. \A c \in Class : c.stamp \in Nat
  BY <1>1 DEF DataInv, CopiesTyped, CopyTyped
<1>3. Keep \in Nat \ {0}
  <2>1. live["schedule"] \in Schedules
    BY ValuesTable, UsersParts DEF DataInv, LiveTyped, IsData
  <2>2. live["schedule"].keep \in Nat \ {0}
    BY <2>1, ConstantsAssumption DEF Schedules
  <2> QED BY <2>2, ConstantsAssumption DEF Keep
<1>4. \A c \in Class : Cardinality(Newer(c, Class)) \in Nat
  <2>1. \A c \in Class : IsFiniteSet(Newer(c, Class))
    BY <1>1, FS_Subset DEF Newer
  <2> QED BY <2>1, FS_CardinalityType
<1>5. Excess = Class \ Kept(Class, Keep)
  BY <1>3, <1>4 DEF Excess, Kept
<1> QED BY <1>1, <1>2, <1>3, <1>5 DEF StampInv

\* prune_backups, prune_scheduled_backups: nothing but pruning and an administrator
\* removes a copy; pruning, also when it is interrupted, never takes one an administrator
\* has made or uploaded, nor one of those it has to keep.
THEOREM PruningSpares == Spec => PruneSpares
<1> DEFINE Act == \A c \in copies \ copies' :
          \/ op = "none"
          \/ /\ c \in Class /\ c.label \in {"automatic", "scheduled"}
             /\ Cardinality(Newer(c, Class \cap copies')) >= Keep
<1>1. StampInv /\ DataInv /\ CopiesInv /\ [Next]_vars => Act
  <2> SUFFICES ASSUME StampInv, DataInv, CopiesInv, [Next]_vars,
                      NEW c \in copies \ copies', op # "none"
               PROVE  /\ c \in Class /\ c.label \in {"automatic", "scheduled"}
                      /\ Cardinality(Newer(c, Class \cap copies')) >= Keep
    OBVIOUS
  <2>1. Prune \/ PrunePartly
    BY DEF Next, Change, ChangePanel, CreateManualBackup, CreateScheduledBackup,
       SaveBackupSchedule, RestoreBackup, DeleteBackup, ImportBackup, Begin, TakeSafetyCopy,
       TakeCopy, TakeAutomaticCopy, Take, StopService, WriteDatabase, WriteFile, WriteUnits,
       Disable, Unlink, Reload, Enable, Finish, BreakOff, Traffic, SaveCounters, Elapse, vars,
       directory
  <2>2. PICK gone \in SUBSET Excess : copies' = copies \ gone
    BY <2>1 DEF Prune, PrunePartly
  <2>3. c \in Excess /\ c \in Class \ Kept(Class, Keep)
    BY <2>2, PruneFacts
  <2>4. c.label \in {"automatic", "scheduled"}
    BY <2>3 DEF Class, CopiesInv, Shapes
  <2>5. Cardinality(Newer(c, Kept(Class, Keep))) >= Keep
    BY <2>3, PruneFacts, KeptAreEnough
  <2>6. Kept(Class, Keep) \subseteq Class \cap copies'
    BY <2>2, PruneFacts DEF Kept
  <2>7. Newer(c, Kept(Class, Keep)) \subseteq Newer(c, Class \cap copies')
    BY <2>6 DEF Newer
  <2>8. IsFiniteSet(Newer(c, Class \cap copies'))
    BY PruneFacts, FS_Subset DEF Newer
  <2>9. Cardinality(Newer(c, Kept(Class, Keep))) <= Cardinality(Newer(c, Class \cap copies'))
        /\ Cardinality(Newer(c, Kept(Class, Keep))) \in Nat
    BY <2>7, <2>8, FS_Subset, FS_CardinalityType
  <2>10. Cardinality(Newer(c, Class \cap copies')) \in Nat /\ Keep \in Nat
    BY <2>8, FS_CardinalityType, PruneFacts
  <2> QED BY <2>3, <2>4, <2>5, <2>9, <2>10
<1>2. Spec => [][Act]_vars
  BY <1>1, DataTyped, CopiesSafe, StampsApart, PTL DEF Spec
<1> QED BY <1>2 DEF PruneSpares

\* A pruning that comes to its end leaves the copy that was just made and not more than
\* it has to keep.
THEOREM PruningKeeps == Spec => PruneKeeps
<1> DEFINE Act == step = "prune" /\ step' = After("prune") =>
          /\ Cardinality(Class \cap copies') <= Keep
          /\ \E c \in copies' : c.stamp = made
<1>1. StampInv /\ DataInv /\ CopiesInv /\ [Next]_vars => Act
  <2> SUFFICES ASSUME StampInv, DataInv, CopiesInv, [Next]_vars,
                      step = "prune", step' = After("prune")
               PROVE  /\ Cardinality(Class \cap copies') <= Keep
                      /\ \E c \in copies' : c.stamp = made
    OBVIOUS
  <2>0. step' \in {"database", "end"} /\ op # "none"
    BY DEF After, CopiesInv, StepsOf
  <2>1. Prune
    BY <2>0 DEF Next, Change, ChangePanel, CreateManualBackup, CreateScheduledBackup,
       SaveBackupSchedule, RestoreBackup, DeleteBackup, ImportBackup, Begin, TakeSafetyCopy,
       TakeCopy, TakeAutomaticCopy, PrunePartly, StopService, WriteDatabase, WriteFile, WriteUnits,
       Disable, Unlink, Reload, Enable, Finish, BreakOff, Traffic, SaveCounters, Elapse, vars,
       helper, End
  <2>2. copies' = copies \ Excess
    BY <2>1 DEF Prune
  <2>3. Class \cap copies' = Kept(Class, Keep)
    BY <2>2, PruneFacts DEF Kept
  <2>4. Cardinality(Kept(Class, Keep)) <= Keep
    BY PruneFacts, KeptAreFew
  <2>5. PICK c \in copies : c.stamp = made
    BY DEF StampInv
  <2>6. Newer(c, Class) = {}
    BY <2>5, PruneFacts DEF Newer, DataInv, CopiesTyped, CopyTyped
  <2>7. c \notin Excess
    <3>1. Cardinality(Newer(c, Class)) = 0
      BY <2>6, FS_EmptySet
    <3>2. Keep \in Nat \ {0}
      BY PruneFacts
    <3>3. ~(0 >= Keep)
      BY <3>2
    <3> QED BY <3>1, <3>3 DEF Excess
  <2> QED BY <2>2, <2>3, <2>4, <2>5, <2>7
<1>2. Spec => [][Act]_vars
  BY <1>1, DataTyped, CopiesSafe, StampsApart, PTL DEF Spec
<1> QED BY <1>2 DEF PruneKeeps
=============================================================================
