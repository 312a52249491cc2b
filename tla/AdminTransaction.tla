-------------------------- MODULE AdminTransaction --------------------------
(***************************************************************************)
(* One administrative request, from the web process to passwords.json and  *)
(* back.  The web process writes the request to a systemd socket; systemd  *)
(* starts one root helper per connection; the helper takes an exclusive    *)
(* flock, dispatches the operation and, for an operation on users, runs    *)
(* mutate_database: stop wdtt.service, load, back up, mutate, replace the  *)
(* file, start the service again.  wdtt.service keeps the database in      *)
(* memory, reads the file only when it starts and rewrites it when it      *)
(* likes, so the file may only be replaced while it is down.               *)
(*                                                                         *)
(* The content of the database is abstracted to what the properties tell   *)
(* apart: which requests have taken effect; the history of operations with *)
(* an identifier; and the traffic the service itself has counted.  Only a  *)
(* renewal, a package of traffic and an adjusted plan carry an identifier  *)
(* that is looked up, among the last that the user's history keeps.  What  *)
(* has none (a creation, a bulk creation, an edit) is applied once for     *)
(* every request.  One user's history stands for all of them.              *)
(***************************************************************************)
EXTENDS Naturals, FiniteSets, Sequences

CONSTANTS
    Requests,       \* requests the web process sends, each one once
    Ops,            \* operations on users; a retry is a second request for one
    Marked,         \* those that carry an operation_id, the same in a retry
    HistoryKeep,    \* operations that the user's history keeps (50)
    NoOp,           \* "asks for no operation on users"
    NoRequest,      \* "nobody holds the lock"
    Kinds,          \* the kinds of request that are sent, a part of AllKinds
    Faults,         \* the faults that may happen, a part of AllFaults
    MaxConnections, \* MaxConnections= of the socket unit (16)
    MaxTicks        \* bound on the traffic counter of the model

AllKinds == {"read", "mutate", "service_stop", "service_start", "service_restart"}

AllFaults ==
    { "stop_refused",   \* systemctl stop exits with an error, nothing stopped
      "start_failed",   \* systemctl start fails, the service stays down
      "slow_stop",      \* systemctl still waits for a stop after 45 seconds
      "io_error",       \* reading, copying or replacing the file raises
      "killed",         \* systemd kills the helper (RuntimeMaxSec=5min)
      "web_timeout",    \* the web process stops waiting for the answer
      "svc_crash" }     \* wdtt.service dies by itself

ASSUME ConstantsAssumption ==
    /\ NoOp \notin Ops
    /\ Marked \subseteq Ops
    /\ HistoryKeep \in Nat \ {0}
    /\ NoRequest \notin Requests
    /\ Kinds \subseteq AllKinds
    /\ Faults \subseteq AllFaults
    /\ MaxConnections \in Nat \ {0}
    /\ MaxTicks \in Nat

VARIABLES
    web,        \* web[r]: what the web process knows of request r
    kind,       \* kind[r]: the operation r asks for
    op,         \* op[r]: the operation on users, for a "mutate"
    pc,         \* pc[r]: where the helper that serves r is
    result,     \* result[r]: what that helper is going to print
    wasActive,  \* wasActive[r]: its local was_active
    snapshot,   \* snapshot[r]: its local data, once loaded
    lock,       \* the helper that holds the flock on LOCK_FILE
    disk,       \* content of passwords.json
    backup,     \* content of the newest automatic backup
    unit,       \* ActiveState of wdtt.service
    startQueued,\* a start job waits for the service to finish deactivating
    mem         \* the database in the memory of wdtt-server

helper == <<pc, result, wasActive, snapshot>>
request == <<kind, op>>
service == <<unit, startQueued, mem>>
vars == <<web, request, helper, lock, disk, backup, service>>

\* The history is written out in full; only its last HistoryKeep entries are
\* in the file (see Recognised), the rest is what was there before.
Database == [done : SUBSET Requests, history : Seq(Marked), ticks : Nat]

EmptyDatabase == [done |-> {}, history |-> <<>>, ticks |-> 0]

\* The places between stopping the service and deciding what to do with it.
Writing == {"load", "backup", "mutate", "save"}

\* The places where the helper holds the lock.
Locked == Writing \cup {"dispatch", "stop", "stopping", "restart",
                      "recover", "start", "starting", "release"}

Running == Locked \cup {"queued", "respond"}

\* Types; a helper that is about to answer knows what to answer.
TypeOK ==
    /\ web \in [Requests -> {"idle", "waiting", "ok", "error", "unavailable"}]
    /\ kind \in [Requests -> AllKinds]
    /\ op \in [Requests -> Ops \cup {NoOp}]
    /\ pc \in [Requests -> Running \cup {"none", "refused", "done"}]
    /\ result \in [Requests -> {"none", "ok", "error"}]
    /\ wasActive \in [Requests -> BOOLEAN]
    /\ snapshot \in [Requests -> Database]
    /\ lock \in Requests \cup {NoRequest}
    /\ disk \in Database
    /\ backup \in Database
    /\ unit \in {"active", "deactivating", "inactive"}
    /\ startQueued \in BOOLEAN
    /\ mem \in Database
    /\ \A r \in Requests : pc[r] \in {"release", "respond"} => result[r] # "none"

Init ==
    /\ web = [r \in Requests |-> "idle"]
    /\ kind = [r \in Requests |-> "read"]
    /\ op = [r \in Requests |-> NoOp]
    /\ pc = [r \in Requests |-> "none"]
    /\ result = [r \in Requests |-> "none"]
    /\ wasActive = [r \in Requests |-> FALSE]
    /\ snapshot = [r \in Requests |-> EmptyDatabase]
    /\ lock = NoRequest
    /\ disk = EmptyDatabase
    /\ backup = EmptyDatabase
    /\ unit \in {"active", "inactive"}
    /\ startQueued = FALSE
    /\ mem = EmptyDatabase

-----------------------------------------------------------------------------
(* Steps of a helper: moving on, and giving up with or without the restart. *)

Goto(r, place) == pc' = [pc EXCEPT ![r] = place]

\* The operation is over with this outcome; leave the `with` block of the lock.
Finish(r, outcome) == /\ Goto(r, "release")
                      /\ result' = [result EXCEPT ![r] = outcome]

\* The service has been started or was not to be: keep the outcome there is.
Conclude(r) == Finish(r, IF result[r] = "none" THEN "ok" ELSE result[r])

-----------------------------------------------------------------------------
(* The web process and the socket.                                         *)

Live == {r \in Requests : pc[r] \in Running}

\* The web process connects and sends a request.  Below MaxConnections systemd
\* starts a helper, which waits for the lock; above it, systemd hangs up.
Send(r, k, o) ==
    /\ web[r] = "idle"
    /\ web' = [web EXCEPT ![r] = "waiting"]
    /\ kind' = [kind EXCEPT ![r] = k]
    /\ op' = [op EXCEPT ![r] = IF k = "mutate" THEN o ELSE NoOp]
    /\ Goto(r, IF Cardinality(Live) < MaxConnections THEN "queued" ELSE "refused")
    /\ UNCHANGED <<result, wasActive, snapshot, lock, disk, backup, service>>

\* The answer of a connection that was refused is empty, which is an error.
HangUp(r) ==
    /\ pc[r] = "refused"
    /\ web' = IF web[r] = "waiting" THEN [web EXCEPT ![r] = "error"] ELSE web
    /\ Goto(r, "done")
    /\ UNCHANGED <<request, result, wasActive, snapshot, lock, disk, backup, service>>

\* The socket timeout of Panel.admin expires.  The helper is not told.
WebTimeout(r) ==
    /\ "web_timeout" \in Faults
    /\ web[r] = "waiting"
    /\ web' = [web EXCEPT ![r] = "unavailable"]
    /\ UNCHANGED <<request, helper, lock, disk, backup, service>>

-----------------------------------------------------------------------------
(* The helper: main, service_action and mutate_database.                   *)

\* Mutant of Acquire: LOCK_SH instead of LOCK_EX.
AcquireShared(r) ==
    /\ pc[r] = "queued"
    /\ lock' = r
    /\ Goto(r, "dispatch")
    /\ UNCHANGED <<web, request, result, wasActive, snapshot, disk, backup, service>>

Acquire(r) ==
    /\ pc[r] = "queued"
    /\ lock = NoRequest
    /\ lock' = r
    /\ Goto(r, "dispatch")
    /\ UNCHANGED <<web, request, result, wasActive, snapshot, disk, backup, service>>

\* A read-only operation needs nothing else.
DispatchRead(r) ==
    /\ pc[r] = "dispatch"
    /\ kind[r] = "read"
    /\ Finish(r, "ok")
    /\ UNCHANGED <<web, request, wasActive, snapshot, lock, disk, backup, service>>

DispatchService(r) ==
    /\ pc[r] = "dispatch"
    /\ \/ kind[r] = "service_stop" /\ Goto(r, "stop")
       \/ kind[r] = "service_start" /\ Goto(r, "start")
       \/ kind[r] = "service_restart" /\ Goto(r, "restart")
    /\ UNCHANGED <<web, request, result, wasActive, snapshot, lock, disk, backup, service>>

\* Mutant of DispatchMutate: the service is not stopped.
DispatchWithoutStop(r) ==
    /\ pc[r] = "dispatch"
    /\ kind[r] = "mutate"
    /\ Goto(r, "load")
    /\ UNCHANGED <<web, request, result, wasActive, snapshot, lock, disk, backup, service>>

\* was_active = service_active(); a deactivating unit is not active.
DispatchMutate(r) ==
    /\ pc[r] = "dispatch"
    /\ kind[r] = "mutate"
    /\ wasActive' = [wasActive EXCEPT ![r] = unit = "active"]
    /\ Goto(r, IF unit = "active" THEN "stop" ELSE "load")
    /\ UNCHANGED <<web, request, result, snapshot, lock, disk, backup, service>>

\* A payload the operation rejects before it touches anything.
Reject(r) ==
    /\ pc[r] = "dispatch"
    /\ kind[r] = "mutate"
    /\ Finish(r, "error")
    /\ UNCHANGED <<web, request, wasActive, snapshot, lock, disk, backup, service>>

\* systemctl stop starts a stop job; it cancels a start job that is queued.
IssueStop(r) ==
    /\ pc[r] = "stop"
    /\ unit' = IF unit = "active" THEN "deactivating" ELSE unit
    /\ startQueued' = FALSE
    /\ Goto(r, "stopping")
    /\ UNCHANGED <<web, request, result, wasActive, snapshot, lock, disk, backup, mem>>

\* systemctl stop fails: AdminError, raised outside of the try.
StopRefused(r) ==
    /\ "stop_refused" \in Faults
    /\ pc[r] = "stop"
    /\ Finish(r, "error")
    /\ UNCHANGED <<web, request, wasActive, snapshot, lock, disk, backup, service>>

\* Mutant of StopDone: systemctl stop --no-block.
StopNotAwaited(r) ==
    /\ pc[r] = "stopping"
    /\ IF kind[r] = "mutate"
         THEN Goto(r, "load") /\ UNCHANGED result
         ELSE Finish(r, "ok")
    /\ UNCHANGED <<web, request, wasActive, snapshot, lock, disk, backup, service>>

StopDone(r) ==
    /\ pc[r] = "stopping"
    /\ unit = "inactive"
    /\ IF kind[r] = "mutate"
         THEN Goto(r, "load") /\ UNCHANGED result
         ELSE Finish(r, "ok")
    /\ UNCHANGED <<web, request, wasActive, snapshot, lock, disk, backup, service>>

\* The 45 seconds pass: TimeoutExpired, also outside of the try.  Only the
\* systemctl client is killed; its job goes on, the start of a restart too.
StopTimeout(r) ==
    /\ "slow_stop" \in Faults
    /\ pc[r] \in {"stopping", "starting"}
    /\ unit = "deactivating"
    /\ Finish(r, "error")
    /\ UNCHANGED <<web, request, wasActive, snapshot, lock, disk, backup, service>>

\* Mutant of Load: no backup is made.
LoadWithoutBackup(r) ==
    /\ pc[r] = "load"
    /\ snapshot' = [snapshot EXCEPT ![r] = disk]
    /\ Goto(r, "mutate")
    /\ UNCHANGED <<web, request, result, wasActive, lock, disk, backup, service>>

Load(r) ==
    /\ pc[r] = "load"
    /\ snapshot' = [snapshot EXCEPT ![r] = disk]
    /\ Goto(r, "backup")
    /\ UNCHANGED <<web, request, result, wasActive, lock, disk, backup, service>>

Backup(r) ==
    /\ pc[r] = "backup"
    /\ backup' = disk
    /\ Goto(r, "mutate")
    /\ UNCHANGED <<web, request, result, wasActive, snapshot, lock, disk, service>>

\* record_quota_operation for what has an identifier.
Applied(db, r, o) ==
    [ done    |-> db.done \cup {r},
      history |-> IF o \in Marked THEN Append(db.history, o) ELSE db.history,
      ticks   |-> db.ticks ]

\* quota_operation_exists: the identifier is among those the history still has.
Recognised(db, o) ==
    \E i \in DOMAIN db.history :
        i > Len(db.history) - HistoryKeep /\ db.history[i] = o

\* Mutant of Mutate: the operation id is not looked up.
MutateAgain(r) ==
    /\ pc[r] = "mutate"
    /\ snapshot' = [snapshot EXCEPT ![r] = Applied(snapshot[r], r, op[r])]
    /\ Goto(r, "save")
    /\ UNCHANGED <<web, request, result, wasActive, lock, disk, backup, service>>

\* The mutator applies the operation to the loaded data, or recognises its
\* identifier and changes nothing.
Mutate(r) ==
    /\ pc[r] = "mutate"
    /\ snapshot' = IF Recognised(snapshot[r], op[r])
                     THEN snapshot
                     ELSE [snapshot EXCEPT ![r] = Applied(snapshot[r], r, op[r])]
    /\ Goto(r, "save")
    /\ UNCHANGED <<web, request, result, wasActive, lock, disk, backup, service>>

\* The mutator raises: no such user, a limit is reached, the user exists.
MutateRejects(r) ==
    /\ pc[r] = "mutate"
    /\ Goto(r, "recover")
    /\ UNCHANGED <<web, request, result, wasActive, snapshot, lock, disk, backup, service>>

\* os.replace of the fully written temporary file; then the final start.
Save(r) ==
    /\ pc[r] = "save"
    /\ disk' = snapshot[r]
    /\ IF wasActive[r]
         THEN Goto(r, "start") /\ UNCHANGED result
         ELSE Finish(r, "ok")
    /\ UNCHANGED <<web, request, wasActive, snapshot, lock, backup, service>>

\* Reading, copying or writing raises; the file is not replaced.
IoError(r) ==
    /\ "io_error" \in Faults
    /\ pc[r] \in {"load", "backup", "save"}
    /\ Goto(r, "recover")
    /\ UNCHANGED <<web, request, result, wasActive, snapshot, lock, disk, backup, service>>

\* Mutant of Recover: the exception is raised without the restart.
RecoverWithoutStart(r) ==
    /\ pc[r] = "recover"
    /\ Finish(r, "error")
    /\ UNCHANGED <<web, request, wasActive, snapshot, lock, disk, backup, service>>

\* The except branch of mutate_database.
Recover(r) ==
    /\ pc[r] = "recover"
    /\ result' = [result EXCEPT ![r] = "error"]
    /\ Goto(r, IF wasActive[r] THEN "start" ELSE "release")
    /\ UNCHANGED <<web, request, wasActive, snapshot, lock, disk, backup, service>>

\* systemctl start: returns at once when the service runs, starts it when it
\* is down (it reads the file now), queues behind a stop that still goes on.
IssueStart(r) ==
    /\ pc[r] = "start"
    /\ \/ /\ unit = "active"
          /\ Conclude(r)
          /\ UNCHANGED service
       \/ /\ unit = "inactive"
          /\ unit' = "active"
          /\ mem' = disk
          /\ Conclude(r)
          /\ UNCHANGED startQueued
       \/ /\ unit = "deactivating"
          /\ startQueued' = TRUE
          /\ Goto(r, "starting")
          /\ UNCHANGED <<result, unit, mem>>
    /\ UNCHANGED <<web, request, wasActive, snapshot, lock, disk, backup>>

\* systemctl restart: one job, the stop and the start behind it; of a service
\* that is down, a start.
IssueRestart(r) ==
    /\ pc[r] = "restart"
    /\ IF unit = "inactive"
         THEN Goto(r, "start") /\ UNCHANGED <<unit, startQueued>>
         ELSE /\ unit' = "deactivating"
              /\ startQueued' = TRUE
              /\ Goto(r, "starting")
    /\ UNCHANGED <<web, request, result, wasActive, snapshot, lock, disk, backup, mem>>

\* The service does not come up: an error, whatever was saved before.
StartFailed(r) ==
    /\ "start_failed" \in Faults
    /\ pc[r] = "start"
    /\ unit = "inactive"
    /\ Finish(r, "error")
    /\ UNCHANGED <<web, request, wasActive, snapshot, lock, disk, backup, service>>

\* The job that systemctl waits for has ended.
StartDone(r) ==
    /\ pc[r] = "starting"
    /\ unit # "deactivating"
    /\ Conclude(r)
    /\ UNCHANGED <<web, request, wasActive, snapshot, lock, disk, backup, service>>

\* The local variables of the operation are gone.
Forget(r) == /\ wasActive' = [wasActive EXCEPT ![r] = FALSE]
             /\ snapshot' = [snapshot EXCEPT ![r] = EmptyDatabase]

\* Mutant of Release: an error leaves the lock behind.
ReleaseOnSuccess(r) ==
    /\ pc[r] = "release"
    /\ lock' = IF result[r] = "ok" THEN NoRequest ELSE lock
    /\ Goto(r, "respond")
    /\ Forget(r)
    /\ UNCHANGED <<web, request, result, disk, backup, service>>

\* The lock is released before the answer is printed.
Release(r) ==
    /\ pc[r] = "release"
    /\ lock' = NoRequest
    /\ Goto(r, "respond")
    /\ Forget(r)
    /\ UNCHANGED <<web, request, result, disk, backup, service>>

Respond(r) ==
    /\ pc[r] = "respond"
    /\ web' = IF web[r] = "waiting" THEN [web EXCEPT ![r] = result[r]] ELSE web
    /\ Goto(r, "done")
    /\ result' = [result EXCEPT ![r] = "none"]
    /\ UNCHANGED <<request, wasActive, snapshot, lock, disk, backup, service>>

\* RuntimeMaxSec counts the wait for the lock too: the helper dies wherever it
\* is, the kernel drops its lock, the web process reads an empty answer.
Kill(r) ==
    /\ "killed" \in Faults
    /\ pc[r] \in Running
    /\ Goto(r, "done")
    /\ lock' = IF lock = r THEN NoRequest ELSE lock
    /\ web' = IF web[r] = "waiting" THEN [web EXCEPT ![r] = "error"] ELSE web
    /\ result' = [result EXCEPT ![r] = "none"]
    /\ Forget(r)
    /\ UNCHANGED <<request, disk, backup, service>>

-----------------------------------------------------------------------------
(* wdtt.service.                                                           *)

\* Traffic is counted in memory.
Traffic ==
    /\ unit = "active"
    /\ mem.ticks < MaxTicks
    /\ mem' = [mem EXCEPT !.ticks = @ + 1]
    /\ UNCHANGED <<web, request, helper, lock, disk, backup, unit, startQueued>>

\* saveDB of the server: at any time while the process lives, also when it has
\* been told to stop.
Flush ==
    /\ unit \in {"active", "deactivating"}
    /\ disk # mem
    /\ disk' = mem
    /\ UNCHANGED <<web, request, helper, lock, backup, service>>

\* The process told to stop exits; a queued start job then starts a new one.
Exit ==
    /\ unit = "deactivating"
    /\ unit' = IF startQueued THEN "active" ELSE "inactive"
    /\ mem' = IF startQueued THEN disk ELSE mem
    /\ startQueued' = FALSE
    /\ UNCHANGED <<web, request, helper, lock, disk, backup>>

Crash ==
    /\ "svc_crash" \in Faults
    /\ unit = "active"
    /\ unit' = "inactive"
    /\ UNCHANGED <<web, request, helper, lock, disk, backup, startQueued, mem>>

-----------------------------------------------------------------------------
HelperStep(r) ==
    \/ Acquire(r) \/ DispatchRead(r) \/ DispatchService(r)
    \/ DispatchMutate(r) \/ Reject(r)
    \/ IssueStop(r) \/ StopRefused(r) \/ StopDone(r) \/ StopTimeout(r)
    \/ Load(r) \/ Backup(r) \/ Mutate(r) \/ MutateRejects(r) \/ Save(r)
    \/ IoError(r) \/ Recover(r)
    \/ IssueStart(r) \/ IssueRestart(r) \/ StartFailed(r) \/ StartDone(r)
    \/ Release(r) \/ Respond(r)

Environment == Traffic \/ Flush \/ Exit \/ Crash

Next ==
    \/ \E r \in Requests :
          \/ \E k \in Kinds, o \in Ops : Send(r, k, o)
          \/ HangUp(r)
          \/ WebTimeout(r)
          \/ HelperStep(r)
          \/ Kill(r)
    \/ Environment

Spec == Init /\ [][Next]_vars

\* A helper the kernel runs takes its next step; a stop job ends, because
\* systemd kills a service that does not exit (TimeoutStopSec).
FairSpec ==
    /\ Spec
    /\ \A r \in Requests : WF_vars(HelperStep(r)) /\ WF_vars(HangUp(r))
    /\ WF_vars(Exit)

-----------------------------------------------------------------------------
(* Properties.                                                             *)

\* The flock makes helpers take turns: whoever is between acquiring and
\* releasing the lock is its holder, whatever was killed or timed out.
LockDiscipline == \A r \in Requests : pc[r] \in Locked => lock = r

\* passwords.json is read, copied and replaced only while wdtt-server, which
\* would overwrite it from memory, is not running (mutate_database).
ReplacedOnlyWhileStopped ==
    \A r \in Requests : pc[r] \in Writing => unit = "inactive"

\* Whatever a transaction is about to overwrite is in the newest backup.
BackupCoversReplacement ==
    \A r \in Requests : pc[r] = "save" => backup = disk

\* A later database has all that an earlier one has.
Extends(new, old) ==
    /\ old.done \subseteq new.done
    /\ Len(old.history) <= Len(new.history)
    /\ \A i \in DOMAIN old.history : new.history[i] = old.history[i]
    /\ old.ticks <= new.ticks

\* A request once in the file stays there, its identifier too, and the traffic
\* counters the service wrote never go back: no transaction saves a stale
\* snapshot and the service never flushes a stale memory.
DurableCommits == [][Extends(disk', disk)]_disk

\* The two have the same operations in them.
SameOperations(a, b) == a.done = b.done /\ a.history = b.history

\* Between two places of an identifier in the history, HistoryKeep others.
Spaced(h) ==
    \A i, j \in DOMAIN h : i < j /\ h[i] = h[j] => j - i > HistoryKeep

\* However often an identified operation is sent again, and whatever times out
\* or dies in between, it takes effect once, until HistoryKeep others have
\* pushed it out of the history (quota_operation_exists).  An operation without
\* an identifier promises no such thing: a bulk creation that is sent again
\* after a timeout creates its users again.
AppliedAtMostOnce == Spaced(disk.history)

\* A running service works with every operation that is in the file.
ServiceRunsCommitted == unit = "active" => SameOperations(mem, disk)

\* A transaction that found the service running leaves it running, also when
\* its mutator or its file operations fail (no crash, no failing start).
ServiceRestored ==
    \A r \in Requests :
        pc[r] = "release" /\ wasActive[r] => unit = "active"

\* Every stop job is waited for: no helper gives up on one or dies meanwhile.
StopsAwaited == Faults \cap {"slow_stop", "killed"} = {}

\* The request has taken effect, or is a repetition of one that has.
InEffect(db, r, o) == r \in db.done \/ \E i \in DOMAIN db.history : db.history[i] = o

\* A transaction whose stop was waited for, as an inductive invariant.  Its
\* parts: whose stop a deactivating service is executing; what the snapshot,
\* the backup and the memory of the service are worth at each place; that a
\* request takes effect in its own helper's save; and that "ok" is on its way
\* only for an operation that is in effect.
StopInFlight ==
    unit = "deactivating" => \E r \in Requests : pc[r] \in {"stopping", "starting"}

SnapshotCurrent ==
    \A r \in Requests :
        /\ pc[r] \in {"backup", "mutate"} => snapshot[r] = disk
        /\ pc[r] \in {"mutate", "save"} => backup = disk
        /\ pc[r] = "save" =>
              \/ snapshot[r] = disk /\ Recognised(disk, op[r])
              \/ snapshot[r] = Applied(disk, r, op[r]) /\ ~Recognised(disk, op[r])

MemoryCurrent ==
    unit # "inactive" => /\ SameOperations(mem, disk)
                         /\ disk.ticks <= mem.ticks

SavedByItsHelper ==
    \A r \in Requests : r \in disk.done =>
        pc[r] \in {"start", "starting", "release", "respond", "done"}

OperationKnown ==
    \A r \in Requests :
        /\ op[r] \in Ops <=> kind[r] = "mutate"
        /\ pc[r] \in Writing \cup {"recover"} => kind[r] = "mutate"
        /\ pc[r] = "restart" => kind[r] = "service_restart"
        /\ web[r] = "idle" => pc[r] = "none" /\ op[r] = NoOp

OutcomeTrue ==
    \A r \in Requests :
        op[r] \in Ops /\ \/ pc[r] \in {"start", "starting"} /\ result[r] # "error"
                         \/ pc[r] \in {"release", "respond"} /\ result[r] = "ok"
            => InEffect(disk, r, op[r])

TransactionInv ==
    /\ StopInFlight
    /\ ReplacedOnlyWhileStopped
    /\ SnapshotCurrent
    /\ MemoryCurrent
    /\ SavedByItsHelper
    /\ OperationKnown
    /\ OutcomeTrue

\* Every request the web process has sent is answered, and the answer of a
\* helper that was killed is an error too.
EveryRequestAnswered ==
    \A r \in Requests : web[r] = "waiting" ~> web[r] # "waiting"

\* No helper keeps the lock for ever, and none waits for it for ever.
EveryHelperEnds == \A r \in Requests : pc[r] = "queued" ~> pc[r] = "done"

\* What the web process has been told so far.
Answer(w) == CASE w \in {"idle", "waiting"} -> "none"
               [] w = "ok" -> "ok"
               [] OTHER -> "failed"

Store == INSTANCE SerialStore WITH
    asked <- op,
    done <- disk.done,
    history <- disk.history,
    answer <- [r \in Requests |-> Answer(web[r])]

\* The refinement: with passwords.json for the store and the answers of the
\* web process for its answers, the processes, the lock, the stops and starts
\* and the faults do not show.
StoreSpec == Store!Spec
=============================================================================
