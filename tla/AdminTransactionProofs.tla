------------------------ MODULE AdminTransactionProofs ------------------------
(***************************************************************************)
(* What TLAPS proves of AdminTransaction, for every set of requests, of    *)
(* operations and of faults.                                               *)
(***************************************************************************)
EXTENDS AdminTransaction, TLAPS

\* The database of the first state is a database.
LEMMA EmptyDatabaseTyped == EmptyDatabase \in Database
BY DEF EmptyDatabase, Database

\* Applying an operation to a database gives a database with the request in it,
\* which extends the old one, and in which the operation is in effect.
LEMMA AppliedTyped ==
    ASSUME NEW db \in Database, NEW r \in Requests, NEW o
    PROVE  /\ Applied(db, r, o) \in Database
           /\ Applied(db, r, o).done = db.done \cup {r}
           /\ Extends(Applied(db, r, o), db)
           /\ InEffect(Applied(db, r, o), r, o)
<1> DEFINE new == Applied(db, r, o)
<1>1. db.done \subseteq Requests /\ db.history \in Seq(Marked) /\ db.ticks \in Nat
  BY DEF Database
<1>2. new.done = db.done \cup {r} /\ new.ticks = db.ticks
  BY DEF Applied
<1>3. /\ new.history \in Seq(Marked)
      /\ Len(db.history) <= Len(new.history)
      /\ \A i \in DOMAIN db.history : new.history[i] = db.history[i]
  <2>1. CASE o \in Marked
    <3>1. new.history = Append(db.history, o)
      BY <2>1 DEF Applied
    <3> QED BY <1>1, <2>1, <3>1
  <2>2. CASE o \notin Marked
    <3>1. new.history = db.history
      BY <2>2 DEF Applied
    <3> QED BY <1>1, <3>1
  <2> QED BY <2>1, <2>2
<1>4. new = [done |-> new.done, history |-> new.history, ticks |-> new.ticks]
  BY DEF Applied
<1>5. new \in Database
  <2> HIDE DEF new
  <2> QED BY <1>1, <1>2, <1>3, <1>4 DEF Database
<1>6. Extends(new, db)
  BY <1>1, <1>2, <1>3 DEF Extends
<1> QED BY <1>2, <1>5, <1>6 DEF InEffect

\* What an operation whose identifier is recognised has to do is done.
LEMMA RecognisedInEffect ==
    ASSUME NEW db, NEW r, NEW o, Recognised(db, o) PROVE InEffect(db, r, o)
BY DEF Recognised, InEffect

\* What is in effect stays so.
LEMMA EffectStays ==
    ASSUME NEW old \in Database, NEW new \in Database, Extends(new, old),
           NEW r, NEW o, InEffect(old, r, o)
    PROVE  InEffect(new, r, o)
<1>1. old.history \in Seq(Marked) /\ new.history \in Seq(Marked)
  BY DEF Database
<1>2. DOMAIN old.history \subseteq DOMAIN new.history
  BY <1>1 DEF Extends
<1> QED BY <1>2 DEF Extends, InEffect

\* Every state satisfies the type invariant, and a helper never prints an
\* answer it has not determined.
THEOREM TypeCorrect == Spec => []TypeOK
<1> USE ConstantsAssumption DEF TypeOK, Running, Locked, Writing, AllKinds
<1>1. Init => TypeOK
  <2> SUFFICES ASSUME Init PROVE TypeOK
    OBVIOUS
  <2>1. pc \in [Requests -> {"none"}] /\ web \in [Requests -> {"idle"}]
    BY DEF Init
  <2>2. snapshot \in [Requests -> Database] /\ disk \in Database
        /\ backup \in Database /\ mem \in Database
    BY EmptyDatabaseTyped DEF Init
  <2>3. kind \in [Requests -> AllKinds] /\ op \in [Requests -> Ops \cup {NoOp}]
        /\ result \in [Requests -> {"none"}] /\ wasActive \in [Requests -> BOOLEAN]
    BY DEF Init
  <2>4. lock \in {NoRequest} /\ unit \in {"active", "inactive"} /\ startQueued \in BOOLEAN
    BY DEF Init
  <2> QED BY <2>1, <2>2, <2>3, <2>4
<1>2. TypeOK /\ [Next]_vars => TypeOK'
  <2> SUFFICES ASSUME TypeOK, [Next]_vars PROVE TypeOK'
    OBVIOUS
  <2> USE DEF Goto, Finish, Conclude, Forget, helper, request, service
  <2>1. ASSUME NEW r \in Requests, NEW k \in Kinds, NEW o \in Ops, Send(r, k, o)
        PROVE  TypeOK'
    BY <2>1 DEF Send
  <2>2. ASSUME NEW r \in Requests, HangUp(r) PROVE TypeOK'
    BY <2>2 DEF HangUp
  <2>3. ASSUME NEW r \in Requests, WebTimeout(r) PROVE TypeOK'
    BY <2>3 DEF WebTimeout
  <2>4. ASSUME NEW r \in Requests, HelperStep(r) PROVE TypeOK'
    <3>1. CASE Acquire(r) BY <3>1 DEF Acquire
    <3>2. CASE DispatchRead(r) BY <3>2 DEF DispatchRead
    <3>3. CASE DispatchService(r) BY <3>3 DEF DispatchService
    <3>4. CASE DispatchMutate(r) BY <3>4 DEF DispatchMutate
    <3>5. CASE Reject(r) BY <3>5 DEF Reject
    <3>6. CASE IssueStop(r) BY <3>6 DEF IssueStop
    <3>7. CASE StopRefused(r) BY <3>7 DEF StopRefused
    <3>8. CASE StopDone(r)
      <4>1. CASE kind[r] = "mutate" BY <3>8, <4>1 DEF StopDone
      <4>2. CASE kind[r] # "mutate" BY <3>8, <4>2 DEF StopDone
      <4> QED BY <4>1, <4>2
    <3>9. CASE StopTimeout(r) BY <3>9 DEF StopTimeout
    <3>10. CASE Load(r) BY <3>10 DEF Load
    <3>11. CASE Backup(r) BY <3>11 DEF Backup
    <3>12. CASE Mutate(r)
      <4>1. Applied(snapshot[r], r, op[r]) \in Database
        BY AppliedTyped
      <4>2. snapshot' \in [Requests -> Database]
        BY <3>12, <4>1 DEF Mutate
      <4>3. /\ pc' = [pc EXCEPT ![r] = "save"]
            /\ UNCHANGED <<web, request, result, wasActive, lock, disk, backup, service>>
        BY <3>12 DEF Mutate
      <4> QED BY <4>2, <4>3
    <3>13. CASE MutateRejects(r) BY <3>13 DEF MutateRejects
    <3>14. CASE Save(r)
      <4>1. CASE wasActive[r] BY <3>14, <4>1 DEF Save
      <4>2. CASE ~wasActive[r] BY <3>14, <4>2 DEF Save
      <4> QED BY <4>1, <4>2
    <3>15. CASE IoError(r) BY <3>15 DEF IoError
    <3>16. CASE Recover(r) BY <3>16 DEF Recover
    <3>17. CASE IssueStart(r) BY <3>17 DEF IssueStart
    <3>18. CASE IssueRestart(r) BY <3>18 DEF IssueRestart
    <3>19. CASE StartFailed(r) BY <3>19 DEF StartFailed
    <3>20. CASE StartDone(r) BY <3>20 DEF StartDone
    <3>21. CASE Release(r) BY <3>21, EmptyDatabaseTyped DEF Release
    <3>22. CASE Respond(r) BY <3>22 DEF Respond
    <3> QED
      BY <2>4, <3>1, <3>2, <3>3, <3>4, <3>5, <3>6, <3>7, <3>8, <3>9, <3>10,
         <3>11, <3>12, <3>13, <3>14, <3>15, <3>16, <3>17, <3>18, <3>19, <3>20,
         <3>21, <3>22 DEF HelperStep
  <2>5. ASSUME NEW r \in Requests, Kill(r) PROVE TypeOK'
    BY <2>5, EmptyDatabaseTyped DEF Kill
  <2>6. CASE Traffic
    <3>1. mem.ticks + 1 \in Nat
      BY DEF Database
    <3>2. mem' \in Database
      BY <2>6, <3>1 DEF Traffic, Database
    <3> QED BY <2>6, <3>2 DEF Traffic
  <2>7. CASE Flush BY <2>7 DEF Flush
  <2>8. CASE Exit BY <2>8 DEF Exit
  <2>9. CASE Crash BY <2>9 DEF Crash
  <2>10. CASE UNCHANGED vars BY <2>10 DEF vars
  <2> QED
    BY <2>1, <2>2, <2>3, <2>4, <2>5, <2>6, <2>7, <2>8, <2>9, <2>10
    DEF Next, Environment
<1> QED BY <1>1, <1>2, PTL DEF Spec

\* Two helpers are never between acquiring and releasing the lock at once,
\* whichever faults happen: LockDiscipline is inductive.
THEOREM MutualExclusion == Spec => []LockDiscipline
<1> USE ConstantsAssumption DEF LockDiscipline, Locked, Writing, Running
<1>1. Init => LockDiscipline
  BY DEF Init
<1>2. TypeOK /\ LockDiscipline /\ [Next]_vars => LockDiscipline'
  <2> SUFFICES ASSUME TypeOK, LockDiscipline, [Next]_vars PROVE LockDiscipline'
    OBVIOUS
  <2> USE DEF TypeOK, Goto, Finish, Conclude, Forget, helper, request, service
  <2>1. ASSUME NEW r \in Requests, NEW k \in Kinds, NEW o \in Ops, Send(r, k, o)
        PROVE  LockDiscipline'
    BY <2>1 DEF Send
  <2>2. ASSUME NEW r \in Requests, HangUp(r) PROVE LockDiscipline'
    BY <2>2 DEF HangUp
  <2>3. ASSUME NEW r \in Requests, WebTimeout(r) PROVE LockDiscipline'
    BY <2>3 DEF WebTimeout
  <2>4. ASSUME NEW r \in Requests, HelperStep(r) PROVE LockDiscipline'
    <3>1. CASE Acquire(r) BY <3>1 DEF Acquire
    <3>2. CASE DispatchRead(r) BY <3>2 DEF DispatchRead
    <3>3. CASE DispatchService(r) BY <3>3 DEF DispatchService
    <3>4. CASE DispatchMutate(r) BY <3>4 DEF DispatchMutate
    <3>5. CASE Reject(r) BY <3>5 DEF Reject
    <3>6. CASE IssueStop(r) BY <3>6 DEF IssueStop
    <3>7. CASE StopRefused(r) BY <3>7 DEF StopRefused
    <3>8. CASE StopDone(r) BY <3>8 DEF StopDone
    <3>9. CASE StopTimeout(r) BY <3>9 DEF StopTimeout
    <3>10. CASE Load(r) BY <3>10 DEF Load
    <3>11. CASE Backup(r) BY <3>11 DEF Backup
    <3>12. CASE Mutate(r) BY <3>12 DEF Mutate
    <3>13. CASE MutateRejects(r) BY <3>13 DEF MutateRejects
    <3>14. CASE Save(r) BY <3>14 DEF Save
    <3>15. CASE IoError(r) BY <3>15 DEF IoError
    <3>16. CASE Recover(r) BY <3>16 DEF Recover
    <3>17. CASE IssueStart(r) BY <3>17 DEF IssueStart
    <3>18. CASE IssueRestart(r) BY <3>18 DEF IssueRestart
    <3>19. CASE StartFailed(r) BY <3>19 DEF StartFailed
    <3>20. CASE StartDone(r) BY <3>20 DEF StartDone
    <3>21. CASE Release(r) BY <3>21 DEF Release
    <3>22. CASE Respond(r) BY <3>22 DEF Respond
    <3> QED
      BY <2>4, <3>1, <3>2, <3>3, <3>4, <3>5, <3>6, <3>7, <3>8, <3>9, <3>10,
         <3>11, <3>12, <3>13, <3>14, <3>15, <3>16, <3>17, <3>18, <3>19,
         <3>20, <3>21, <3>22 DEF HelperStep
  <2>5. ASSUME NEW r \in Requests, Kill(r) PROVE LockDiscipline'
    BY <2>5 DEF Kill
  <2>6. CASE Environment
    BY <2>6 DEF Environment, Traffic, Flush, Exit, Crash
  <2>7. CASE UNCHANGED vars BY <2>7 DEF vars
  <2> QED BY <2>1, <2>2, <2>3, <2>4, <2>5, <2>6, <2>7 DEF Next
<1> QED BY TypeCorrect, <1>1, <1>2, PTL DEF Spec

\* If every stop job is waited for, the parts of TransactionInv hold together:
\* the lock protects the service's state as well as the file.
THEOREM TransactionsSafe ==
    ASSUME StopsAwaited PROVE Spec => []TransactionInv
<1> USE ConstantsAssumption, StopsAwaited DEF StopsAwaited, TransactionInv, StopInFlight,
    ReplacedOnlyWhileStopped, SnapshotCurrent, MemoryCurrent, OperationKnown,
    SavedByItsHelper, OutcomeTrue, Writing
<1>1. Init => TransactionInv
  BY DEF Init, EmptyDatabase, SameOperations
<1>2. TypeOK /\ LockDiscipline /\ TransactionInv /\ [Next]_vars => TransactionInv'
  <2> SUFFICES ASSUME TypeOK, LockDiscipline, TransactionInv, [Next]_vars
               PROVE  TransactionInv'
    OBVIOUS
  <2> USE DEF TypeOK, LockDiscipline, Locked, Running, Goto, Finish, Conclude,
              Forget, helper, request, service
  <2>1. ASSUME NEW r \in Requests, NEW k \in Kinds, NEW o \in Ops, Send(r, k, o)
        PROVE  TransactionInv'
    BY <2>1 DEF Send
  <2>2. ASSUME NEW r \in Requests, HangUp(r) PROVE TransactionInv'
    BY <2>2 DEF HangUp
  <2>3. ASSUME NEW r \in Requests, WebTimeout(r) PROVE TransactionInv'
    BY <2>3 DEF WebTimeout
  <2>4. ASSUME NEW r \in Requests, HelperStep(r) PROVE TransactionInv'
    <3>1. CASE Acquire(r) BY <3>1 DEF Acquire
    <3>2. CASE DispatchRead(r) BY <3>2 DEF DispatchRead
    <3>3. CASE DispatchService(r) BY <3>3 DEF DispatchService
    <3>4. CASE DispatchMutate(r) BY <3>4 DEF DispatchMutate
    <3>5. CASE Reject(r) BY <3>5 DEF Reject
    <3>6. CASE IssueStop(r) BY <3>6 DEF IssueStop
    <3>7. CASE StopRefused(r) BY <3>7 DEF StopRefused
    <3>8. CASE StopDone(r) BY <3>8 DEF StopDone
    <3>9. CASE StopTimeout(r) BY <3>9 DEF StopTimeout
    <3>10. CASE Load(r) BY <3>10 DEF Load
    <3>11. CASE Backup(r) BY <3>11 DEF Backup
    <3>12. CASE Mutate(r)
      <4>1. op[r] \in Ops /\ snapshot[r] = disk /\ backup = disk
        BY <3>12 DEF Mutate
      <4>3. \/ snapshot'[r] = disk /\ Recognised(disk, op[r])
            \/ snapshot'[r] = Applied(disk, r, op[r]) /\ ~Recognised(disk, op[r])
        BY <3>12, <4>1 DEF Mutate
      <4>4. \A q \in Requests : q # r => snapshot'[q] = snapshot[q]
        BY <3>12 DEF Mutate
      <4>5. /\ pc' = [pc EXCEPT ![r] = "save"]
            /\ UNCHANGED <<web, request, result, wasActive, lock, disk, backup, service>>
        BY <3>12 DEF Mutate
      <4>6. SnapshotCurrent'
        BY <3>12, <4>1, <4>3, <4>4, <4>5
      <4>7. ReplacedOnlyWhileStopped' /\ StopInFlight' /\ MemoryCurrent'
        BY <4>1, <4>5, <3>12 DEF Mutate
      <4>8. OperationKnown' /\ SavedByItsHelper'
        BY <4>1, <4>5, <3>12 DEF Mutate
      <4>9. OutcomeTrue'
        BY <4>5, <3>12
      <4> QED BY <4>6, <4>7, <4>8, <4>9
    <3>13. CASE MutateRejects(r) BY <3>13 DEF MutateRejects
    <3>14. CASE Save(r)
      <4>1. op[r] \in Ops /\ pc[r] = "save" /\ lock = r /\ unit = "inactive"
        BY <3>14 DEF Save
      <4>2. /\ disk' \in Database
            /\ Extends(disk', disk)
            /\ disk'.done \subseteq disk.done \cup {r}
            /\ InEffect(disk', r, op[r])
        <5>1. CASE disk' = disk /\ Recognised(disk, op[r])
          <6>1. Extends(disk, disk) BY DEF Extends, Database
          <6> QED BY <5>1, <6>1, RecognisedInEffect
        <5>2. CASE disk' = Applied(disk, r, op[r])
          BY <5>2, AppliedTyped
        <5> QED BY <3>14, <5>1, <5>2 DEF Save
      <4>3. /\ pc'[r] \in {"start", "release"}
            /\ \A q \in Requests \ {r} : pc'[q] = pc[q] /\ result'[q] = result[q]
            /\ UNCHANGED <<web, request, wasActive, snapshot, lock, backup, service>>
        BY <3>14 DEF Save
      <4>4. \A q \in Requests : InEffect(disk, q, op[q]) => InEffect(disk', q, op[q])
        BY <4>2, EffectStays
      <4>5. SavedByItsHelper'
        BY <4>2, <4>3 DEF Database
      <4>6. OutcomeTrue'
        BY <4>1, <4>2, <4>3, <4>4
      <4> QED BY <4>1, <4>3, <4>5, <4>6
    <3>15. CASE IoError(r) BY <3>15 DEF IoError
    <3>16. CASE Recover(r) BY <3>16 DEF Recover
    <3>17. CASE IssueStart(r)
      <4>1. CASE unit = "inactive"
        <5>1. disk.ticks <= disk.ticks /\ SameOperations(disk, disk)
          BY DEF Database, SameOperations
        <5> QED BY <3>17, <4>1, <5>1 DEF IssueStart
      <4>2. CASE unit = "active" BY <3>17, <4>2 DEF IssueStart
      <4>3. CASE unit = "deactivating" BY <3>17, <4>3 DEF IssueStart
      <4> QED BY <4>1, <4>2, <4>3
    <3>18. CASE IssueRestart(r) BY <3>18 DEF IssueRestart
    <3>19. CASE StartFailed(r) BY <3>19 DEF StartFailed
    <3>20. CASE StartDone(r) BY <3>20 DEF StartDone
    <3>21. CASE Release(r) BY <3>21 DEF Release
    <3>22. CASE Respond(r) BY <3>22 DEF Respond
    <3> QED
      BY <2>4, <3>1, <3>2, <3>3, <3>4, <3>5, <3>6, <3>7, <3>8, <3>9, <3>10,
         <3>11, <3>12, <3>13, <3>14, <3>15, <3>16, <3>17, <3>18, <3>19,
         <3>20, <3>21, <3>22 DEF HelperStep
  <2>5. ASSUME NEW r \in Requests, Kill(r) PROVE TransactionInv'
    BY <2>5 DEF Kill
  <2>6. CASE Traffic
    <3>1. disk.ticks <= mem.ticks => disk.ticks <= mem'.ticks
      BY <2>6 DEF Traffic, Database
    <3>2. SameOperations(mem', disk) <=> SameOperations(mem, disk)
      BY <2>6 DEF Traffic, Database, SameOperations
    <3> QED BY <2>6, <3>1, <3>2 DEF Traffic
  <2>7. CASE Flush
    <3>1. /\ SameOperations(disk', disk) /\ SameOperations(mem, disk')
          /\ disk'.ticks <= mem.ticks
      BY <2>7 DEF Flush, Database, SameOperations
    <3>2. \A r \in Requests : pc[r] \notin Writing
      BY <2>7 DEF Flush
    <3>3. \A r \in Requests : InEffect(disk', r, op[r]) <=> InEffect(disk, r, op[r])
      BY <3>1 DEF InEffect, SameOperations
    <3>4. disk'.done = disk.done
      BY <3>1 DEF SameOperations
    <3> QED BY <2>7, <3>1, <3>2, <3>3, <3>4 DEF Flush
  <2>8. CASE Exit
    <3>1. disk.ticks <= disk.ticks /\ SameOperations(disk, disk)
      BY DEF Database, SameOperations
    <3>2. \A r \in Requests : pc[r] \notin Writing
      BY <2>8 DEF Exit
    <3> QED BY <2>8, <3>1, <3>2 DEF Exit
  <2>9. CASE Crash BY <2>9 DEF Crash
  <2>10. CASE UNCHANGED vars BY <2>10 DEF vars
  <2> QED BY <2>1, <2>2, <2>3, <2>4, <2>5, <2>6, <2>7, <2>8, <2>9, <2>10
          DEF Next, Environment
<1> QED BY TypeCorrect, MutualExclusion, <1>1, <1>2, PTL DEF Spec

\* The database is only replaced while the service is down.
THEOREM ReplacementSafe ==
    ASSUME StopsAwaited PROVE Spec => []ReplacedOnlyWhileStopped
<1>1. TransactionInv => ReplacedOnlyWhileStopped
  BY DEF TransactionInv
<1> QED BY TransactionsSafe, <1>1, PTL

\* create_backup: what a transaction is about to replace is in the newest backup.
THEOREM BackupAlwaysCovers ==
    ASSUME StopsAwaited PROVE Spec => []BackupCoversReplacement
<1>1. TransactionInv => BackupCoversReplacement
  BY DEF TransactionInv, BackupCoversReplacement, SnapshotCurrent
<1> QED BY TransactionsSafe, <1>1, PTL

\* A running service works with all that was committed.
THEOREM AlwaysRunsCommitted ==
    ASSUME StopsAwaited PROVE Spec => []ServiceRunsCommitted
<1>1. TransactionInv => ServiceRunsCommitted
  BY DEF TransactionInv, ServiceRunsCommitted, MemoryCurrent
<1> QED BY TransactionsSafe, <1>1, PTL

-----------------------------------------------------------------------------
(* The service comes back.                                                 *)

\* A transaction that found the service running knows at each place whether it
\* runs.  What its helper knows of the service no other helper can change, and
\* no start is queued behind its stop.
Knows(r) ==
    /\ kind[r] = "mutate"
    /\ \/ pc[r] \in {"stop", "release"} /\ unit = "active"
       \/ pc[r] = "stopping" /\ unit # "active" /\ ~startQueued
       \/ pc[r] \in Writing \cup {"recover", "start"} /\ unit = "inactive"

RestoredInv ==
    \A r \in Requests : /\ wasActive[r] => Knows(r)
                        /\ web[r] = "idle" => pc[r] = "none"

\* The service neither fails by itself nor takes longer than a helper waits.
ServiceObeys == Faults \cap {"slow_stop", "start_failed", "svc_crash"} = {}

\* mutate_database: a transaction that found the service running leaves it running,
\* whatever else fails, and whichever helpers are killed.
THEOREM ServiceAlwaysRestored ==
    ASSUME ServiceObeys PROVE Spec => []ServiceRestored
<1> USE ConstantsAssumption DEF RestoredInv, Knows, Locked, Writing
<1>1. Init => RestoredInv
  BY DEF Init
<1>2. TypeOK /\ LockDiscipline /\ RestoredInv /\ [Next]_vars => RestoredInv'
  <2> SUFFICES ASSUME TypeOK, LockDiscipline, RestoredInv, [Next]_vars PROVE RestoredInv'
    OBVIOUS
  <2> USE DEF TypeOK, LockDiscipline, Running, Goto, Finish, Conclude, Forget, helper, request, service
  <2>1. ASSUME NEW r \in Requests, NEW k \in Kinds, NEW o \in Ops, Send(r, k, o)
        PROVE  RestoredInv'
    BY <2>1 DEF Send
  <2>2. ASSUME NEW r \in Requests, HangUp(r) PROVE RestoredInv'
    BY <2>2 DEF HangUp
  <2>3. ASSUME NEW r \in Requests, WebTimeout(r) PROVE RestoredInv'
    BY <2>3 DEF WebTimeout
  <2>4. ASSUME NEW r \in Requests, HelperStep(r) PROVE RestoredInv'
    <3>1. CASE Acquire(r) BY <3>1 DEF Acquire
    <3>2. CASE DispatchRead(r) BY <3>2 DEF DispatchRead
    <3>3. CASE DispatchService(r) BY <3>3 DEF DispatchService
    <3>4. CASE DispatchMutate(r) BY <3>4 DEF DispatchMutate
    <3>5. CASE Reject(r) BY <3>5 DEF Reject
    <3>6. CASE IssueStop(r) BY <3>6 DEF IssueStop
    <3>7. CASE StopRefused(r) BY <3>7 DEF StopRefused
    <3>8. CASE StopDone(r) BY <3>8 DEF StopDone
    <3>9. CASE StopTimeout(r) BY <3>9, ServiceObeys DEF StopTimeout, ServiceObeys
    <3>10. CASE Load(r) BY <3>10 DEF Load
    <3>11. CASE Backup(r) BY <3>11 DEF Backup
    <3>12. CASE Mutate(r) BY <3>12 DEF Mutate
    <3>13. CASE MutateRejects(r) BY <3>13 DEF MutateRejects
    <3>14. CASE Save(r) BY <3>14 DEF Save
    <3>15. CASE IoError(r) BY <3>15 DEF IoError
    <3>16. CASE Recover(r) BY <3>16 DEF Recover
    <3>17. CASE IssueStart(r) BY <3>17 DEF IssueStart
    <3>18. CASE IssueRestart(r) BY <3>18 DEF IssueRestart
    <3>19. CASE StartFailed(r) BY <3>19, ServiceObeys DEF StartFailed, ServiceObeys
    <3>20. CASE StartDone(r) BY <3>20 DEF StartDone
    <3>21. CASE Release(r) BY <3>21 DEF Release
    <3>22. CASE Respond(r) BY <3>22 DEF Respond
    <3> QED
      BY <2>4, <3>1, <3>2, <3>3, <3>4, <3>5, <3>6, <3>7, <3>8, <3>9, <3>10,
         <3>11, <3>12, <3>13, <3>14, <3>15, <3>16, <3>17, <3>18, <3>19, <3>20,
         <3>21, <3>22 DEF HelperStep
  <2>5. ASSUME NEW r \in Requests, Kill(r) PROVE RestoredInv'
    BY <2>5 DEF Kill
  <2>6. CASE Traffic BY <2>6 DEF Traffic
  <2>7. CASE Flush BY <2>7 DEF Flush
  <2>8. CASE Exit BY <2>8 DEF Exit
  <2>9. CASE Crash BY <2>9, ServiceObeys DEF Crash, ServiceObeys
  <2>10. CASE UNCHANGED vars BY <2>10 DEF vars
  <2> QED
    BY <2>1, <2>2, <2>3, <2>4, <2>5, <2>6, <2>7, <2>8, <2>9, <2>10
    DEF Next, Environment
<1>3. RestoredInv => ServiceRestored
  BY DEF ServiceRestored
<1> QED BY TypeCorrect, MutualExclusion, <1>1, <1>2, <1>3, PTL DEF Spec

\* Nothing that was committed, by a transaction or by the service, is lost: no
\* step takes an operation or a counted byte out of the file.
THEOREM CommitsDurable ==
    ASSUME StopsAwaited PROVE Spec => DurableCommits
<1>1. TypeOK /\ LockDiscipline /\ TransactionInv /\ [Next]_vars => [Extends(disk', disk)]_disk
  <2> SUFFICES ASSUME TypeOK, TransactionInv, [Next]_vars, disk' # disk
               PROVE  Extends(disk', disk)
    OBVIOUS
  <2>1. CASE Flush
    BY <2>1 DEF Flush, TransactionInv, MemoryCurrent, SameOperations, Extends, TypeOK, Database
  <2>2. ASSUME NEW r \in Requests, Save(r) PROVE Extends(disk', disk)
    <3>1. op[r] \in Ops /\ disk \in Database
          /\ (disk' = disk \/ disk' = Applied(disk, r, op[r]))
      BY <2>2 DEF Save, TransactionInv, SnapshotCurrent, OperationKnown, Writing, TypeOK
    <3> QED BY <3>1, AppliedTyped
  <2>3. Flush \/ \E r \in Requests : Save(r)
    BY DEF Next, vars, Send, HangUp, WebTimeout, HelperStep, Kill, Environment,
           Acquire, DispatchRead, DispatchService, DispatchMutate, Reject, IssueStop,
           StopRefused, StopDone, StopTimeout, Load, Backup, Mutate, MutateRejects,
           IoError, Recover, IssueStart, IssueRestart, StartFailed, StartDone,
           Release, Respond, Traffic, Exit, Crash
  <2> QED BY <2>1, <2>2, <2>3
<1> QED BY TypeCorrect, MutualExclusion, TransactionsSafe, <1>1, PTL DEF Spec, DurableCommits

\* An operation that is not recognised comes more than HistoryKeep places after
\* its last one.
LEMMA AppliedSpaced ==
    ASSUME NEW db \in Database, NEW r, NEW o, Spaced(db.history), ~Recognised(db, o)
    PROVE  Spaced(Applied(db, r, o).history)
<1> DEFINE h == db.history
<1>1. h \in Seq(Marked)
  BY DEF Database
<1>2. CASE o \in Marked
  <2> DEFINE g == Append(h, o)
  <2>1. Applied(db, r, o).history = g
    BY <1>2 DEF Applied
  <2>2. \A i \in DOMAIN h : h[i] = o => i <= Len(h) - HistoryKeep
    BY <1>1, ConstantsAssumption DEF Recognised
  <2>3. ASSUME NEW i \in DOMAIN g, NEW j \in DOMAIN g, i < j, g[i] = g[j]
        PROVE  j - i > HistoryKeep
    <3>1. i \in DOMAIN h /\ g[i] = h[i]
      BY <1>1, <1>2, <2>3
    <3>2. CASE j \in DOMAIN h
      <4>0. g[j] = h[j]
        BY <1>1, <1>2, <3>2
      <4>1. h[j] = h[i]
        BY <2>3, <3>1, <4>0
      <4> QED BY <2>3, <3>1, <3>2, <4>1 DEF Spaced
    <3>3. CASE j = Len(h) + 1
      <4>1. g[j] = o
        BY <1>1, <1>2, <3>3
      <4>2. h[i] = o
        BY <2>3, <3>1, <4>1
      <4>3. i <= Len(h) - HistoryKeep /\ i \in Nat /\ Len(h) \in Nat
        BY <1>1, <2>2, <3>1, <4>2
      <4> QED BY <3>3, <4>3, ConstantsAssumption
    <3>4. DOMAIN g = 1 .. (Len(h) + 1) /\ DOMAIN h = 1 .. Len(h) /\ Len(h) \in Nat
      BY <1>1, <1>2
    <3> QED BY <3>2, <3>3, <3>4
  <2>4. Spaced(g)
    BY <2>3 DEF Spaced
  <2> QED BY <2>1, <2>4
<1>3. CASE o \notin Marked
  BY <1>3 DEF Applied
<1> QED BY <1>2, <1>3

SpacedEverywhere == /\ Spaced(disk.history)
                    /\ Spaced(mem.history)
                    /\ \A r \in Requests : Spaced(snapshot[r].history)

\* An identified operation that is sent again takes effect again only after
\* HistoryKeep others, whatever is killed, refused or late: the look-up and the
\* change are made on one snapshot, and only whole databases are exchanged.
THEOREM AppliedOnce == Spec => []AppliedAtMostOnce
<1> USE DEF SpacedEverywhere
<1>0. Spaced(EmptyDatabase.history)
  BY DEF Spaced, EmptyDatabase
<1>1. Init => SpacedEverywhere
  BY <1>0 DEF Init
<1>2. TypeOK /\ SpacedEverywhere /\ [Next]_vars => SpacedEverywhere'
  <2> SUFFICES ASSUME TypeOK, SpacedEverywhere, [Next]_vars PROVE SpacedEverywhere'
    OBVIOUS
  <2> USE DEF TypeOK
  <2>1. ASSUME NEW r \in Requests, Mutate(r) PROVE SpacedEverywhere'
    <3>1. ~Recognised(snapshot[r], op[r])
            => Spaced(Applied(snapshot[r], r, op[r]).history)
      BY AppliedSpaced
    <3> QED BY <2>1, <3>1 DEF Mutate, service
  <2>2. ASSUME NEW r \in Requests, Load(r) PROVE SpacedEverywhere'
    BY <2>2 DEF Load, service
  <2>3. ASSUME NEW r \in Requests, Save(r) PROVE SpacedEverywhere'
    BY <2>3 DEF Save, service
  <2>4. ASSUME NEW r \in Requests, Release(r) \/ Kill(r) PROVE SpacedEverywhere'
    BY <1>0, <2>4 DEF Release, Kill, Forget, service
  <2>5. ASSUME NEW r \in Requests, IssueStart(r) PROVE SpacedEverywhere'
    BY <2>5 DEF IssueStart, service
  <2>6. CASE Traffic
    <3>1. mem'.history = mem.history
      BY <2>6 DEF Traffic, Database
    <3> QED BY <2>6, <3>1 DEF Traffic, helper
  <2>7. CASE Flush \/ Exit
    BY <2>7 DEF Flush, Exit, helper, service
  <2>8. CASE UNCHANGED <<disk, mem, snapshot>>
    BY <2>8
  <2> QED
    BY <2>1, <2>2, <2>3, <2>4, <2>5, <2>6, <2>7, <2>8
    DEF Next, vars, Send, HangUp, WebTimeout, HelperStep, Environment, Acquire,
        DispatchRead, DispatchService, DispatchMutate, Reject, IssueStop,
        StopRefused, StopDone, StopTimeout, Backup, MutateRejects, IoError, Recover,
        IssueRestart, StartFailed, StartDone, Respond, Crash, helper, service
<1>3. SpacedEverywhere => AppliedAtMostOnce
  BY DEF AppliedAtMostOnce
<1> QED BY TypeCorrect, <1>1, <1>2, <1>3, PTL DEF Spec

\* A step that changes what the web process knows of one request changes the
\* answer of that request alone.
LEMMA AnswerChanges ==
    ASSUME NEW r \in Requests, NEW w, TypeOK, web' = [web EXCEPT ![r] = w]
    PROVE  [q \in Requests |-> Answer(web'[q])]
              = [[q \in Requests |-> Answer(web[q])] EXCEPT ![r] = Answer(w)]
BY DEF TypeOK

\* With the stops awaited, the whole machinery implements the serial store.
THEOREM ImplementsStore ==
    ASSUME StopsAwaited PROVE Spec => StoreSpec
<1> DEFINE answered == [q \in Requests |-> Answer(web[q])]
<1> USE ConstantsAssumption
<1>1. Init => Store!Init
  <2> SUFFICES ASSUME Init PROVE Store!Init
    OBVIOUS
  <2>1. answered = [q \in Requests |-> "none"]
    BY DEF Init, Answer
  <2> QED BY <2>1 DEF Init, Store!Init, EmptyDatabase
<1>2. TypeOK /\ LockDiscipline /\ TransactionInv /\ [Next]_vars => [Store!Next]_Store!vars
  <2> SUFFICES ASSUME TypeOK, TransactionInv, [Next]_vars
               PROVE  [Store!Next]_Store!vars
    OBVIOUS
  <2> USE DEF TransactionInv
  <2>1. ASSUME NEW r \in Requests, NEW k \in Kinds, NEW o \in Ops, Send(r, k, o)
        PROVE  [Store!Next]_Store!vars
    <3>1. op[r] = NoOp /\ disk' = disk
      BY <2>1 DEF Send, OperationKnown
    <3>2. answered' = answered
      BY <2>1, AnswerChanges DEF Send, Answer, TypeOK
    <3>3. CASE k = "mutate"
      BY <2>1, <3>1, <3>2, <3>3 DEF Send, Store!Next, Store!Ask, Store!vars, Store!store
    <3>4. CASE k # "mutate"
      <4>1. op' = op BY <2>1, <3>1, <3>4 DEF Send, TypeOK
      <4> QED BY <3>1, <3>2, <4>1 DEF Store!vars, Store!store
    <3> QED BY <3>3, <3>4
  <2>2. ASSUME NEW r \in Requests, web[r] = "waiting", UNCHANGED <<op, disk>>,
               web' = [web EXCEPT ![r] = "error"] \/ web' = [web EXCEPT ![r] = "unavailable"]
        PROVE  [Store!Next]_Store!vars
    <3>1. answered' = [answered EXCEPT ![r] = "failed"] /\ answered[r] = "none"
      BY <2>2, AnswerChanges DEF Answer
    <3> QED BY <2>2, <3>1 DEF Store!Next, Store!AnswerFailed, Store!vars, Store!store
  <2>3. ASSUME NEW r \in Requests, Respond(r), web[r] = "waiting"
        PROVE  [Store!Next]_Store!vars
    <3>1. CASE result[r] = "error"
      BY <2>2, <2>3, <3>1 DEF Respond, request
    <3>2. CASE result[r] = "ok"
      <4>1. op[r] \in Ops => r \in disk.done \/ Store!Places(op[r]) # {}
        BY <2>3, <3>2 DEF Respond, OutcomeTrue, InEffect, Store!Places
      <4>2. answered' = [answered EXCEPT ![r] = "ok"] /\ answered[r] = "none"
        BY <2>3, <3>2, AnswerChanges DEF Respond, Answer
      <4> QED BY <2>3, <4>1, <4>2 DEF Respond, request, Store!Next, Store!AnswerOk, Store!vars, Store!store
    <3> QED BY <2>3, <3>1, <3>2 DEF Respond, TypeOK
  <2>4. ASSUME NEW r \in Requests, Save(r)
        PROVE  [Store!Next]_Store!vars
    <3>1. op[r] \in Ops /\ op' = op /\ answered' = answered
      BY <2>4 DEF Save, OperationKnown, Writing, request
    <3>2. CASE disk' = disk
      BY <3>1, <3>2 DEF Store!vars, Store!store
    <3>3. CASE disk' = Applied(disk, r, op[r]) /\ ~Recognised(disk, op[r])
      <4>1. r \notin disk.done /\ disk \in Database
        BY <2>4 DEF Save, SavedByItsHelper, TypeOK
      <4>2. \A i \in Store!Places(op[r]) : i + HistoryKeep <= Len(disk.history)
        <5>1. disk.history \in Seq(Marked) BY <4>1 DEF Database
        <5> QED BY <3>3, <5>1 DEF Recognised, Store!Places
      <4>3. /\ disk'.done = disk.done \cup {r}
            /\ disk'.history = IF op[r] \in Marked THEN Append(disk.history, op[r])
                                                   ELSE disk.history
        BY <3>3 DEF Applied
      <4> QED BY <3>1, <4>1, <4>2, <4>3 DEF Store!Next, Store!Apply
    <3> QED BY <2>4, <3>2, <3>3 DEF Save, SnapshotCurrent
  <2>5. CASE Flush
    <3>1. SameOperations(disk', disk) /\ op' = op /\ answered' = answered
      BY <2>5 DEF Flush, MemoryCurrent, SameOperations, request
    <3> QED BY <3>1 DEF SameOperations, Store!vars, Store!store
  <2>6. CASE UNCHANGED <<web, op, disk>>
    BY <2>6 DEF Store!vars, Store!store
  <2>7. ASSUME NEW r \in Requests, HangUp(r) \/ WebTimeout(r) \/ Kill(r)
        PROVE  [Store!Next]_Store!vars
    BY <2>2, <2>6, <2>7 DEF HangUp, WebTimeout, Kill, request
  <2>8. ASSUME NEW r \in Requests, Respond(r)
        PROVE  [Store!Next]_Store!vars
    BY <2>3, <2>6, <2>8 DEF Respond, request
  <2> QED
    BY <2>1, <2>4, <2>5, <2>6, <2>7, <2>8
    DEF Next, vars, HelperStep, Environment, Acquire, DispatchRead, DispatchService,
        DispatchMutate, Reject, IssueStop, StopRefused, StopDone, StopTimeout, Load,
        Backup, Mutate, MutateRejects, IoError, Recover, IssueStart, IssueRestart,
        StartFailed, StartDone, Release, Traffic, Exit, Crash, helper, request, service
<1> QED
  BY TypeCorrect, MutualExclusion, TransactionsSafe, <1>1, <1>2, PTL
  DEF Spec, StoreSpec, Store!Spec

=============================================================================
