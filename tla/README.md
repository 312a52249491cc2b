# WDTT Control Panel: specification, model checking and proofs

This directory is the verification project of the panel: TLA+ modules written
from its source, the TLC configurations that check them on small instances, and
theorems that TLAPS proves for every value of the constants.

## 1. The system and its parts

The panel manages a VPN server, `wdtt-server`, which has no administrative
interface: it reads `/etc/wdtt/passwords.json` when it starts, keeps it in
memory, and rewrites it whenever it likes. The panel is a web process without
privileges and a root helper.

| Part | State it keeps | Operations | Interacts with |
|---|---|---|---|
| Web process (`app.py`) | sqlite histories, hash library, rate limits, sessions | HTTP handlers in threads; `Panel.admin` | the helper through a socket; gives up after 60 s (240 s for Xray, WARP, cascade, cleanup) |
| Socket unit (`install.sh`) | open connections, at most 16 | starts one helper per connection, kills it after 5 minutes | web process, helper |
| Root helper (`admin.py`) | the lock file; nothing else survives a request | about fifty operations, `dispatch`ed under an exclusive `flock` | `systemctl`, files |
| Users database (`admin.py`, `core.py`) | `passwords.json`: users, plans, devices; `user-labels.json` | create, bulk create, update, delete, unbind, reset, renew, add, adjust, bulk | `wdtt.service` is stopped around each change |
| Quota (`core.py`, `wdtt_server_extension.go`) | counters, baseline, packages, term of each user | the same arithmetic twice, in Python and in Go | the server refuses and disconnects exhausted users |
| Backups (`admin.py`) | backup files, schedule | automatic copy per change, manual, scheduled, restore, import | database, Xray files, services |
| Xray (`admin.py`) | settings, effective configuration, GeoFiles, WARP, VLESS profiles, gateway and cascade rules | save, validate, restart, roll back | `xray.service`, iptables, two oneshot units |
| Telegram (`admin.py`, `install.sh`) | unit file and database fields | configure, test | `wdtt.service` |
| Statistics (`app.py`) | totals per user and day | whoever lists the users writes the list into them | counters that may go back |
| Limiter, sessions (`app.py`, `security.py`, `install.sh`) | failures per address, the secret that signs sessions | login, personal page, change of the password | a restart of the web process |
| Hash library (`app.py`) | values, at most 500 | add, import, delete, silent additions | threads of the web process |
| Labels (`admin.py`) | a field of the user and a second file | create, rename, relabel, delete; the server's bot | servers that know the field and servers that drop it |
| Extension of the server (`install.sh`) | binary, state file, copies | upgrade with recovery of labels, check, rollback; repeated by a timer | the same files, without the helper's lock |
| Certificates (`install.sh`, `admin.py`) | certificates, Nginx on port 80 | renewals by a timer, by the panel, by hand | each stops and starts Nginx |

### What is hard in it

* Several helpers run at once; the lock is all that orders them, and it is held
  across calls to systemd that take seconds and may time out.
* The database has two writers. The panel's transaction is right only if the
  server is really down between the load and the save.
* The caller gives up before the helper does, and repeats its request.
* Every operation is a sequence of effects (stop, copy, write, start; or
  validate, write, restart, firewall) of which any may fail.
* Plans are numbers that three parties change: operations, the server's
  counters (part of which is lost when it stops) and time.
* The threads of the web process ask and act in two steps: at the limiter, in
  the library, with lists of users.
* An upgrade may end at any of its dozen steps, and is tried again from there.

### What makes each part correct

Transaction: helpers take turns; a replacement happens only under a stopped
server, from a current snapshot, behind a backup; the server comes back; a
request is applied at most once, and so is a retry whose identifier is looked
up; callers are told the truth and are told something. Plans: no operation changes a balance otherwise than it says; Python
and Go agree on who is exhausted; nobody who is, stays connected. Users: labels,
devices and limits agree with the users there are. Xray, VLESS, Telegram,
backups, extension: after a failure in the middle the parts agree. Statistics:
totals never go back and count no byte twice. Access: tries are bounded, nobody is
locked out for good, a new password ends the old sessions. Certificates: Nginx
comes back.

## 2. Modules

| Module | What it is |
|---|---|
| `SerialStore` | abstract: a request takes effect at most once in a durable store, and not if the history still has its identifier; "ok" is only said of what is in effect |
| `AdminTransaction` | web process, socket, helpers, lock, `mutate_database`, `wdtt.service`; implements `SerialStore` |
| `TrafficAccounts` | abstract: accounts with a primary and an extra package and a history of operations |
| `UserPlans` | quota fields, terms, access, counters, server sessions, every operation on a plan; implements `TrafficAccounts` |
| `XrayRouting` | Xray settings, configuration and service, gateway and cascade with their units and rules, VLESS profiles and their port |
| `Backups` | copies of every kind, restore, import, rotation, the schedule and its timer |
| `WebThreads` | the threads that the next three share |
| `PanelAccess` | limiter of attempts, sessions, change of the password |
| `HashLibrary` | additions to the library in concurrent threads |
| `UserStatistics` | accumulated traffic, from counters that go back |
| `UserLabels` | labels in the database and in the second file, the server and its bot |
| `ExtensionUpgrade` | extends `UserLabels` by `install_wdtt_extensions`, its rollback and its end at any step |
| `TelegramSettings` | `configure_telegram` over database, token file and unit |
| `Certificates` | renewals that overlap, and Nginx |
| `PanelParts` | the last seven side by side, for TLC |
| `MC...` | symmetry sets for TLC; constants are in the `.cfg` files |
| `...Proofs` | theorems and their proofs |

`AdminTransaction` and `UserPlans` split the same operations between them. The
first follows one request through every process and every fault and knows of an
operation only whether it has been applied; the second knows what each
operation writes and takes it as one step under a stopped server. That a request
may be seen so is what `AdminTransaction` shows (`ReplacedOnlyWhileStopped`,
`ServiceRunsCommitted`, `StoreSpec`), except where its two transaction findings say otherwise.

### AdminTransaction

| Model | Code |
|---|---|
| `web[r]`, `Send`, `HangUp`, `WebTimeout` | `Panel.admin` in `app.py`: connect, send, read until the end, the timeouts, an empty answer is an error |
| `MaxConnections`, `Live`, `Kill` | `MaxConnections=16`, `RuntimeMaxSec=5min` of the units `write_panel_service` writes (`install.sh`) |
| `pc[r]`, `lock`, `Acquire`, `Release`, `Respond` | `main` in `admin.py`: request, `flock(LOCK_EX)`, `dispatch`, end of the `with` block, then `print` |
| `DispatchRead`, `DispatchService`, `DispatchMutate`, `Reject` | `dispatch`; an operation that only reads, `service.stop/start/restart`, one that calls `mutate_database`, a payload that fails before it |
| `IssueStop`, `StopDone`, `StopRefused`, `StopTimeout`, `IssueStart`, `IssueRestart`, `StartDone`, `StartFailed` | `service_action` and the 45 s of `run` |
| `Load`, `Backup`, `Mutate`, `MutateRejects`, `Save`, `IoError`, `Recover` | the lines of `mutate_database`, `load_database`, `create_backup`, `save_database`, one step for each effect on files, in their order |
| `unit`, `startQueued`, `mem`, `Traffic`, `Flush`, `Exit`, `Crash` | `wdtt.service` and the jobs systemd runs for it, as the panel's calls assume them (external) |

A user operation is `op[r] \in Ops`; a retry is a second request with the same
`op`. Only a renewal, a package of traffic and an adjusted plan look up the
identifier that comes with them (admin.py:987, 1031, 1090), among the last 50 of
the user's history (admin.py:586): those are the operations `Marked`, and
`Recognised` is the look-up. An operation that is not marked (a creation, a bulk
creation, an edit) is applied once for each request. The database is `done`, the
requests that took effect; `history`, the identifiers in their order, of one
user in place of all (what a deletion and a new user of the same name do to a
history is in `UserPlans`); and `ticks`, the traffic the server adds.

### UserPlans

| Model | Code |
|---|---|
| `entry[u]` | the record of a user in `passwords.json`, as far as plans go: `counter` is `down_bytes + up_bytes`, `ledger` is `traffic_operations` |
| `IsUnlimited`, `Used`, `PrimaryLeft`, `ExtraLeft` | `traffic_quota` in `core.py` |
| `ServerExhausted`, `AccessRestricted` | `trafficQuota`, `passwordAccessRestricted` in `wdtt_server_extension.go` |
| `unsaved`, `sessions`, `Connect`, `Transfer`, `EnforceRestrictions`, `SaveCounters`, `StartService`, `StopService` | the server: counters in memory, authentication, `recordPasswordTrafficLocked`, the periodic `applyPasswordRestrictionsLocked`, `saveDB`, start and stop |
| `CreateUsers` | `create_user`, `create_users_bulk` |
| `UpdateUser`, `DeleteUsers`, `ResetTraffic`, `RenewUser`, `AddUserTraffic`, `AdjustUserPlan` | the functions of those names; `DeleteUsers` and `ResetTraffic` are the bulk actions too |
| `SetDeactivated`, `SetExpiration` | the bulk actions activate, deactivate, set_expiration |
| `Performed`, `RecordQuotaOperation`, `SetQuotaBalance` | the helpers of those names |
| `now`, `Tick`, `Month` | the clock; `add_calendar_months` adds a constant length |

Traffic is counted in one unit for gigabytes granted and bytes transferred: the
arithmetic is linear in the unit.

### XrayRouting

| Model | Code |
|---|---|
| `settings`, `cascade`, `config` | the files `XRAY_SETTINGS`, `XRAY_CASCADE_SETTINGS`, `XRAY_CONFIG`; a configuration is what it was made of (`Effective`) |
| `Settings`, `Compatible` | `normalize_xray_settings`, `build_effective_xray_config` |
| `op`, `step`, `After` | an operation under the lock and the order of its effects; most are `persist_xray_configuration` with something behind it |
| `Fail`, `undo`, `prev` | the exceptions; `persist_vless_configuration` goes back to the previous settings |
| `Check`, `WriteSettings`, `WriteConfig`, `Enable`, `Restart` | the lines of `persist_xray_configuration` |
| `GatewayUnit`, `ApplyRules`, `RulesRefused` | the rest of `xray_save`, `xray_gateway_apply_rules`, `cascade_apply_rules` and their removals; `"partial"` is anything between none and all of the rules after an error, `"left"` what a removal leaves whose commands fail: it looks at no exit code (admin.py:3741, 3821) and answers that it has removed them (`LeaveRules`) |
| `CascadeUnit`, `AwaitDone`, `AwaitTimeout` | `systemctl enable --now`, `disable --now` of the cascade unit, and the time they are given |
| `fw`, `Opened`, `Closed`, `PortLeft`, `Firewall`, `FirewallFails` | `vless_firewall` under ufw, firewalld and iptables: where the port is open (firewalld: at run time and permanently, two commands) and who opened it, which is what `VLESS_FIREWALL_STATE` has after the last command and what the removal asks first (admin.py:3244, 3265) |
| `vlessUnit`, `StartXray`, `PortUnitFails` | the oneshot that xray.service wants and that opens the port without the lock |
| `Refresh` | `xray_refresh_geofile`, `xray_refresh_auto_geofiles` |
| `Restore` | the Xray part of `restore_backup`: two files one after the other, then `apply_restored_services`, where exit codes are warnings and timeouts are not |
| `unit[g]`, `UnitApply`, `UnitRemove`, `UnitKilled` | the oneshot units of `write_xray_services`: ExecStart and ExecStop call the helper and so need the lock; `again` is a start queued behind a stop |
| `Reboot` | what is enabled starts, in the order of the units |

An operation's step is one action although it may be a dozen iptables commands:
nobody else touches the rules without the lock. The jumps from `INPUT` that a
removal leaves in the filter table (it deletes a rule without the conditions it
was added with) are not part of `rules`.

### Backups

| Model | Code |
|---|---|
| `live` | the files a full copy is made of (`backup_full_payload`); WARP, the state of the extension and the legacy cascade are one part, `others` |
| `copies` | the files in `BACKUP_DIR`: what the name says (`prefix`, `label`), what is in it, the order they were made in (`stamp`, for the time in the name) |
| `Acceptable` | `validate_full_backup`: the settings of Xray and the cascade of the copy can be built together |
| `op`, `step`, `After` | an operation under the lock and the order of its effects |
| `CreateManualBackup`, `CreateScheduledBackup`, `SaveBackupSchedule`, `RestoreBackup`, `DeleteBackup`, `ImportBackup` | `create_manual_backup` for the panel and for `wdtt-panel-backup`, and the functions of those names |
| `Change`, `TakeAutomaticCopy`, `Prune` | an operation on users: `create_backup`, `prune_backups` |
| `TakeSafetyCopy` | the copy `restore_backup` takes before it replaces anything |
| `WriteDatabase`, `WriteFile` | the database transaction and the files after it, one step for each |
| `WriteUnits`, `Disable`, `Unlink`, `Reload`, `Enable`, `timer` | `save_backup_schedule`: its two units, and what systemd knows of them |
| `Class`, `Keep`, `Excess`, `PrunePartly` | the pattern of names and the number that are kept; the removals are interrupted in the order each function makes them |
| `BreakOff` | an exception or the end of the helper, before any step |
| `Traffic`, `SaveCounters`, `Elapse` | the server and the timer (external) |

`ChangePanel` stands for all that `XrayRouting` does between two backups: it
leaves settings that go together (`XrayRouting!FilesExclusive`). What a restore
does to Xray's services after its last file is `XrayRouting!Restore`.

### PanelAccess, HashLibrary, UserStatistics

| Model | Code |
|---|---|
| `failures[k]`, `Recent`, `Allowed` | `RateLimiter`: stamps of the last 900 seconds, fewer than 8; of the list only how many stamps are at most so old (`failures[k][age]`), since nothing else is asked of it |
| `Ask`, `Refuse`, `ShowPersonal`, `Login`, `Abandon` | `allowed`, `fail`, `clear` in both logins and on the personal page, each under the limiter's lock, with the verification between them |
| `sessions`, `Accepted` | `create_session`, `read_session` in `security.py`; the panel keeps no list, the model does |
| `WriteNewPassword`, `RestartPanel`, `RestartFails`, `StopPanel`, `StartPanel` | `change_panel_password` in `install.sh`: one file, then a restart; other ends of the process |
| `StartAdding`, `LookUp`, `Insert`, `RefuseFull`, `DeleteHash` | `add_vk_hashes`, `import_vk_hashes`, `delete_vk_hash`: `SELECT COUNT`, a `SELECT` for each value, then the transaction |
| `ListUsers`, `ReadFirstRow`, `WriteRows` | `enrich_user_statistics`: the helper's answer; the row of the first entry, before `sqlite3` begins its transaction with the first `INSERT`; everything else |
| `Delta`, `Updated`, `IsStale` | its arithmetic, the change of the day, the deletion of rows not updated for 90 days |
| `SaveTraffic`, `ResetCounter`, `DeleteAccount`, `CreateAccount`, `RestoreCounters` | what happens to the counters in `passwords.json` between two lists |

Keys, hashes and accounts are only compared. Signatures are ideal: a session is
accepted exactly when the secret in force signed it. Upload and download are
treated alike, so that one counter stands for each. `late`, `real`, `muddled`
and `older` are history variables: what others inserted since a thread counted,
the bytes there really were, the users whose rows were written from lists out of
order.

### UserLabels, ExtensionUpgrade

| Model | Code |
|---|---|
| `file[u]`, `sidecar[u]`, `copied[u]` | the field `label` in `passwords.json`, `user-labels.json`, the labels in copies of the database |
| `BeginOperation` ... `StartServer` | `mutate_database`, as far as an installer can come between |
| `Mutated`, `SidecarAfter`, `Relabelled`, `Moved` | `create_user`, `update_user`, `delete_user`, the bulk deletion; `update_panel_label`, `remove_panel_label` |
| `Shown` | `entry_with_legacy_label`, what the panel shows |
| `Written`, `BotLabel`, `SaveDatabase` | what a binary with or without the extension saves of what it has read |
| `SaveBinary` ... `WriteMarker` | `install_wdtt_extensions`: the copy of the binary, the stop, the copy of the database, `recover_wdtt_labels`, the swap, the start, the checks, the removal of the second file, the state file |
| `Preserved`, `Moving` | `wdtt_database_preserved`; fields an older extension moves while the installer waits |
| `CheckFailed`, `PutBackBinary`, `PutBackDatabase`, `left` | `restore_wdtt_extension_backup`; its stop may fail (`\|\| true`, install.sh:326), and then the new server is `left` there, its start does nothing, and what the server saves goes over what was put back |
| `Interrupted` | the script, or the machine, ends anywhere; the timer tries again from what is there |

`want[u]` is the label a user has been given last. `Met`: the installer does not
take the helper's lock; where an operation of the panel and an upgrade meet the
model ends and nothing is claimed (section 6 says what happens there).

### TelegramSettings, Certificates

| Model | Code |
|---|---|
| `settings`, `tokenFile`, `unit`, `unitLoaded` | `admin_id` and `bot_token` of the database, `bot.token`, `ExecStart` of `wdtt.service`, the same as systemd knows it |
| `bot`, `SaveByServer`, `extended` | the server, what its unit gave it and what it has read in `passwords.json`; it saves that as long as it lives (without the extension it drops the two fields) |
| `Configure`, `StopServer`, `StopFails` | what is asked, `service_active`, the stop: it may fail, or take longer than the 45 s of `run`, and is outside of the `try`. A server that is `leaving` counts as not active |
| `SaveSettings` ... `AnswerOk` | the rest of `configure_telegram`, `set_wdtt_service_telegram`: one action for each file, the reload only if the line changes |
| `AnswerError` | an exception after any of them; nothing is put back but the server |
| `StopElsewhere`, `StartElsewhere`, `ServerEnds` | other operations, the administrator, systemd |
| `LookAtNginx`, `StopNginx`, `Certbot`, `StartNginx` | `run_certbot_request`, `renew_certificates`: what it saw of Nginx, the stop, certbot, the start whatever certbot has answered |
| `KillRenewal`, `StartNginxByHand` | a renewal that ends in between; the administrator |

### PanelParts

These parts share no state, so that a behaviour of `PanelParts` is a behaviour
of one of them while the others rest; `part` says of which. One run with eleven
properties takes the place of seven. That the composition is no more than its
parts is proved (`PartsKeepApart`).

## 3. What the runs check

| Run | Instance | Shows |
|---|---|---|
| `AdminTransaction_serial` | 3 requests, 3 operations of which two with an identifier, a history of one, 2 connections, refused stops, file errors, impatient callers | the file is replaced only under a stopped server, from a current snapshot, behind a backup; a running server has everything that was committed; nothing committed is lost; the service runs again after a transaction that stopped it; it implements `SerialStore` |
| `AdminTransaction_faults` | 2 requests, 2 operations of which one with an identifier, all kinds, all faults | lock discipline, and no identified operation twice, even when helpers are killed and stops given up; every request is answered, every helper ends |
| `AdminTransaction_slow_stop` | 2 requests, slow stops | violation, see section 6 |
| `UserPlans_balances` | 1 user, 2 identifiers, amounts 0 and 1, a history of 2, a clock of 3 ticks | balances and history change only as `TrafficAccounts` says; no operation in a history is there twice; sessions are entitled; a renewal opens access; whoever may not be connected any more is disconnected |
| `UserPlans_two_users` | 2 users | renames, bulk creations, bulk actions and deletions move and close the right accounts |
| `UserPlans_permanent` | 1 user | violation, see section 6 |
| `XrayRouting_settled` | 1 profile, all operations, 1 reboot | when nothing fails, everything agrees with the settings whenever nothing is under way, after refused operations, given-up ones and a reboot; the lock is given back; left-over rules of the cascade go away |
| `XrayRouting_faults` | 1 profile, all operations, three firewalls, 1 fault of any kind | files exclusive at every moment; "ok" is true but for rules whose removal failed unnoticed; a failed VLESS operation puts everything back but for a port of firewalld that nobody noted |
| `XrayRouting_lock_cycle` | saves of Xray and of the cascade, no faults | violation, see section 6 |
| `Backups_restores` | 2 values of users and settings, 3 requests, the timer, 1 fault | a restore that says "ok" has written what was copied; one that broke off can be undone from its safety copy; settings that do not go together are never without a copy to go back to; rotation takes only what it may and leaves what it should; systemd follows the schedule that was saved |
| `Backups_unsaved` | 2 requests | violation, see section 6 |
| `PanelParts` | 2 threads, 1 address, limits of 2; 3 hashes in a library of 2; 1 account beside others; 2 people, 2 labels, 2 operations; 2 chats, 2 tokens, 3 changes; 2 renewals | within one window there are no more tries than the limit and the threads allow; a closed key opens again; an accepted session was opened with the password in force; an addition that says "ok" is there, and keeps to the limit but for what came late; no byte is counted twice and totals do not go back; the label given last is shown, through upgrades and rollbacks; the state file names the binary and no other binary runs but one that a rollback could not stop; database, token, unit and server are as asked after "ok", unless an old server was still leaving; Nginx is up when the renewals have ended |

### Bounds, and why they are enough

* Three requests: one that holds the lock, one that waits, one that is refused
  or comes later; with three operations, two of them can be retries of the same
  one while a third differs, has an identifier too and pushes the first out of
  a history of one, or has none. The run with every fault uses two requests: it is
  about one that waits for, or repeats, another, and what it checks of the lock
  and of repetitions is proved for every number.
* `MaxTicks = 1`: one tick is enough to tell a stale counter from a current one.
* Packages and counters up to 2, by amounts of 0 and 1: enough for a transfer that crosses
  from the primary package into the extra one and beyond both, for the
  subtraction that takes from both, and for a reset in the middle. The theorems
  hold for every value.
* `HistoryKeep = 2` with two identifiers besides that of the creation: the
  history could hold an identifier twice, and it overflows.
* `MaxTime = 3`, `MaxTerm = 2`: a term in the future, one that ends now, one
  that has ended, no term.
* `MaxFaults = 1` in `XrayRouting`: the fault may be in any step, and the
  operations after it meet what it has left. The firewall does not change in a
  behaviour; `XrayRouting_settled`, where no command fails, has ufw only. One
  profile makes the difference between none and the first or last.
* `MaxRequests = 3` and `MaxMade = 3` in `Backups`: a schedule, its timer, a
  restore and the timer again; or an upload, a restore that breaks off and one
  operation more, from settings of any kind. With one copy of each class kept,
  the second one already makes the rotation work.
* `PanelParts`: two threads are one that has asked and one that acts in between;
  `Limit`, `Window` and `Lifetime` of 2 have a value inside, one at the edge and
  one beyond. One key, since keys do not influence each other. Three values and
  a library of two: one thread can fill what another has counted as free. One
  account, first or not first in the list (`Other` stands for those before it);
  two bytes and a total of two are enough for a counter that goes back below and
  above what was counted; `KeepDays = 0` with one change of the day makes a row
  old. Two people, so that one can take the other's name, and two operations, of
  which one may come before, within or after each upgrade; upgrades are repeated
  without bound. Two renewals; that more of them do no harm is proved.
* `MaxFaults`, `MaxRequests`, `MaxMade`, `MaxTraffic`, `MaxPackage`, `MaxCounter`,
  `MaxTicks`, `MaxTime`, `MaxTerm`, `MaxSessions`, `MaxChanges`, `MaxBytes`,
  `MaxTotal`, `MaxDay`, `MaxOperations`, `MaxConfigured` are guards of the model,
  not of the code.
* Requests and operations, users and identifiers, versions of a file are only
  compared with each other, hence the symmetry sets; runs of liveness properties
  do not use them.

`CHECK_DEADLOCK FALSE` is used for `AdminTransaction`, where each request is sent
once, for `Backups`, where `MaxRequests` are made: both stop when all are
answered; and for `PanelParts`, where the labels end when an operation meets an
upgrade.

### Fairness

`AdminTransaction!FairSpec`: a helper that can take a step takes one (the kernel
schedules it; it is killed otherwise, which is a step too), and the process that
has been told to stop exits (systemd kills it after `TimeoutStopSec`). Acquiring
the lock is not assumed to be fair to one helper in particular: every request is
sent once, so only finitely many can overtake. Nothing is assumed of the faults.
`UserPlans!FairSpec`: the server checks restrictions again and again, as its
ticker does; connecting, transferring and the panel's operations are not assumed
to happen at all.
`PanelParts!Spec`: time goes on. Nothing is assumed of threads, of whoever tries
to log in, or of the panel's operations.
`XrayRouting!FairSpec`: a helper takes its next step, one that waits for
systemctl gives up when its time has passed; the helper of a unit that finds the
lock free again and again gets it (strong fairness: `flock` wakes those who
wait). A failing removal of rules is excluded there: nobody repeats it.

## 4. What is proved

All for every value of the constants, under the assumption each module states
of its constants (`ConstantsAssumption`, `AccessAssumption`, `LibraryAssumption`
and so on, which TLC checks in every run).

`AdminTransactionProofs`

| Theorem | Says |
|---|---|
| `TypeCorrect` | `[]TypeOK` |
| `MutualExclusion` | `[]LockDiscipline`, under every fault |
| `AppliedOnce` | `[]AppliedAtMostOnce`, under every fault |
| `TransactionsSafe` | `[]TransactionInv`, if stops are awaited |
| `ReplacementSafe` | `[]ReplacedOnlyWhileStopped`, if stops are awaited |
| `BackupAlwaysCovers` | `[]BackupCoversReplacement`, if stops are awaited |
| `AlwaysRunsCommitted` | `[]ServiceRunsCommitted`, if stops are awaited |
| `ServiceAlwaysRestored` | `[]ServiceRestored`, if the service obeys |
| `CommitsDurable` | `DurableCommits`, if stops are awaited |
| `ImplementsStore` | `Spec => StoreSpec`, if stops are awaited |

`StopsAwaited` says that no helper gives up on a stop and none is killed; without
it `ReplacedOnlyWhileStopped` is false (run `AdminTransaction_slow_stop`).
`ServiceObeys` excludes a stop that takes too long, a start that fails and a
crash of the service, but no kill of a helper: `RestoredInv` says what a
transaction that has found the service running knows of it at each of its
steps until it has started it again.
"Replaced only while stopped" (`ReplacedOnlyWhileStopped`) is not inductive by itself: a helper that waits
for its stop must know that no start is on its way (`StopInFlight` and the lock
say that only its own job can be), a helper about to save must know that its
snapshot is still the file (`SnapshotCurrent`), and a server that flushes must
have in memory what the file has (`MemoryCurrent`). That "ok" is true needs
`OutcomeTrue`; that a request takes effect once, that only its own helper's save
brings it into the file (`SavedByItsHelper`); and both, what the request asks
for (`OperationKnown`). `TransactionInv` is their conjunction. `AppliedOnce`
needs none of this: what is exchanged are whole databases, in each of which two
places of an identifier lie more than `HistoryKeep` apart; its invariant speaks
of all places where a database is kept. `ImplementsStore` says of retries what
the code does: a repeated identifier takes no effect while the history has it,
and a repeated creation does.

`UserPlansProofs`

| Theorem | Says |
|---|---|
| `TypeCorrect`, `BaselineAlwaysReached`, `SessionsAlwaysEntitled`, `NeverTwice` | the invariants of the runs |
| `ServerAgrees` | Go and Python agree on who is exhausted, for every entry |
| `RenewalAlwaysOpens` | `RenewalOpensAccess` |
| `ImplementsAccounts` | `Spec => AccountsSpec` |

The inductive invariant `Inv` is `TypeOK`, that every entry is good (typed, its
counter not below its baseline, baseline 0 if it is unlimited, identifiers of
its history different), that the server keeps nothing for users who are not in
the database nor while it is down (`ServerMemory`), and `SessionsEntitled`. The
lemmas say of each helper what it does to what is left of the packages, then of
each operation what entry it writes; the steps of the invariant and of the
refinement both follow from those. The baseline is what the refinement hangs on:
when the counters are saved, what is drawn from the packages is what was not
saved, only because the counter was not below the baseline before.

`XrayRoutingProofs`

| Theorem | Says |
|---|---|
| `TypeCorrect` | `[]TypeOK` |
| `NeverBoth` | `[]FilesExclusive`, under every fault, if `RestoreEnds` |
| `PlansExclusive` | `[]ExclusiveInv`, the invariant behind it, if `RestoreEnds` |
| `SuccessApplied` | `SuccessMeansApplied`, under every fault |
| `VlessGoesBack` | `VlessAllOrNothing`, under every fault |
| `WorkDone` | `[]AppliedInv`, the invariant behind both |
| `AlwaysAgrees` | `[]Agreement`, if `NoFaults` |

The two files are written at different moments by different operations, so that
they agree is not inductive: what a helper is about to write must have been
checked together (`PlanChecked`), and what it does not write must still be what
it has read (`PlanCurrent`: the lock gives this, an operation other than
`cascade_save` and `restore` carries the cascade it has read, `cascade_save`
carries the settings it has read). `RestoreEnds` excludes the fault
`restore_cut`: a restore that is killed, or whose write fails, between the two
files.

`AppliedInv` follows a helper through its operation: what it knows of its local
variables (`LocalInv`: what it has read is still what is there, since it has the
lock; when it goes back it works towards the previous settings), and which
effects lie behind it at each step (`DoneInv`). A restore counts only if no
command can fail: its services are restarted with warnings. With it the last
step of an operation has everything to show that "ok" is true, or that
everything is as before. `RulesAs` and `PortAs` say how far: rules that are not
wanted may be what a failed removal left, and a port that firewalld has, but the
panel has not noted as its own, stays open.

`NoFaults` leaves the reboot, what systemctl has no time for, and what the
checks refuse. `AgreementInv` is `Agreement` with its exceptions taken out one
by one: Xray agrees but between the write of the configuration and the restart,
the gateway's rules but while a unit waits for its helper or an operation has
yet to come to them, the cascade's unit and rules likewise; and nobody waits for
the start of a cascade that is off. That a unit is never left "deactivating"
with the gateway needs a clause of its own.

`BackupsProofs`

| Theorem | Says |
|---|---|
| `RestoreUndoable` | `[]UndoAvailable` |
| `NeverStuck` | `[]NoDeadEnd` |
| `CopiesSafe` | `[]CopiesInv`, the invariant behind both |
| `TypeCorrect` | `[]TypeOK` |
| `DataTyped` | `[]DataInv`, the invariant behind it |
| `RestoreExact` | `RestoreFaithful`, under every fault |
| `RestoreProceeds` | `[]RestoreInv`, the invariant behind it |
| `ScheduleFollowed` | `ScheduleApplied`, under every fault |
| `TimerFollows` | `[]TimerInv`, the invariant behind it |
| `PruningSpares`, `PruningKeeps` | `PruneSpares`, `PruneKeeps` |
| `StampsApart` | `[]StampInv`, the invariant behind both |

`CopiesInv` adds to the two properties which steps each operation takes
(`StepsOf`: only a restore writes the settings of Xray and the cascade), that an
automatic copy is never labelled as an administrator's (`Shapes`), and that the
safety copy is a manual one (`Covered`), which is why no pruning, of whatever
class, takes it.

`DataInv`: what an operation is going to write is of the parts it writes, and of
their types; a copy has what its name says. `RestoreInv`: at each step of a
restore the parts before it are as in the copy, those after it as they were
(`Ahead`). `TimerInv`: at each step of the schedule what files there are, what
systemd knows, and what is enabled. `StampInv`: stamps tell copies apart. What
pruning keeps is then a matter of finite sets: the newest `Keep` of a class are
`Keep` or all (`KeptAreEnough`, `KeptAreFew`). Instead of
an induction over the number of copies they use that there is a newest one
(`Newest`), since strict inclusion of finite sets is well founded.

`WebProcessProofs`

| Theorem | Says |
|---|---|
| `OldSessionsAlwaysEnd` | `[]OldSessionsEnd` |
| `TriesAlwaysBounded` | `[]AttemptsBounded` |
| `AttemptsAlwaysBounded` | `[]AttemptsInv`, the invariant behind it |
| `AccessTyped` | `[]AccessTypeOK` |
| `AdditionsAlwaysKept` | `AdditionsKept` |
| `TotalsStay` | `TotalsNeverBack` |
| `CountedOnce` | `[]NoByteTwice` |
| `TrafficMeasuredOnce` | `[]CountedInv`, the invariant behind it |
| `StatisticsTyped` | `[]StatisticsTypeOK` |

`AccessInv`: in the file, in the process and in every session a secret belongs to
one password, and from the end of a change on the process has what is in the
file. `LibraryInv`: a call has counted at least what it knows of, which is what
was there when it counted or looked, without what came late; so what is there
after it is within the limit and what came late. `StatisticsInv`: the list of a
thread is of no future day, so that a row which is too old for its list is too
old today as well. `AttemptsInv`: the failures of an address are counted by age,
so that what leaves the window is what was counted last in it; a thread that is
let through has found fewer than `Limit`, and from then on is one of those that
verify.

`CountedInv` is what makes "no byte twice" inductive. A row may be written by a
list that was made long ago, while others are under way, so the traffic there
was when each list was made has to be remembered; no variable of the model does,
and the invariant says that there are such numbers (`was`), for which the total,
the counter of the row and every list still to be written add up (`Measured`).
It needs the order of the lists (`OrderInv`). Each step names the numbers after it:
those before it, and for a new list the traffic there is.

`ExtensionUpgradeProofs`

| Theorem | Says |
|---|---|
| `AlwaysVerified` | `[]VerifiedMeansRunning` |
| `LabelsAlwaysKept` | `[]LabelsKept` |
| `LabelsInvariant` | `[](FilesInv /\ RollbackInv)`, the invariant behind it |
| `UpgradeTyped` | `[]UpgradeTypeOK` |

`UpgradeInv`: while the installer has stopped the server nothing runs, the state
file says v10 only while no upgrade is under way, and the server that runs is the
installed one or, from a rollback on whose stop failed until the next stop, the
one it `left`; that one never goes with v10. Labels given to it are `unsure`:
the next server may not have them. `LabelsKept` speaks only
of the time when nothing is under way; its invariant must say in between which
of the two files shows the label. `FilesInv` takes the second file as it is
going to be when the operation under way has ended (`Foreseen`): from the save
of the database to `WriteSidecar` the label of a renamed user is only there. It
also says that what the server has in memory shows the label, because it may be
saved at any time, and that without the extension the second file alone has it,
because the next save drops the other. `RollbackInv` says that from the recovery
on the database alone has every label, which is what makes the removal of the
second file safe, and that what a rollback would put back shows every label
there was when the copy was made, under the second file as it is.

`PanelPartsProofs`

| Theorem | Says |
|---|---|
| `AlwaysApplied` | `[]TelegramApplied` |
| `NginxAlwaysReturns` | `[]NginxReturns` |
| `PartsKeepApart` | the specification of the parts side by side implies that of each part |
| `PartsTyped` | `[]PartsTypeOK` |

`TelegramInv` says after each step which of the three places already are as
wanted; a place that a failed operation has left behind is written again by the
next one, whatever it holds. For `passwords.json` that is so only because no
server is alive to write it: the stop was waited for, or there was none, unless
one was `leaving` when the operation began (`besideOld`). After "ok" the server
has in memory what was asked, so that its saves change nothing.
`CertificatesInv`: while Nginx is down and nobody was killed, somebody is under
way who will start it. Two renewals may both have seen it running: then both
start it. `PartsKeepApart` carries what is proved of a part alone over to the
run, whose specification is that of all parts; it needs no invariant, since no
step of one part touches another.

Every invariant and every action property of the passing runs is proved. Only
model-checked are the liveness properties, which are out of the prover's reach
(it has no rules for fairness and ENABLED): `EveryRequestAnswered`,
`EveryHelperEnds`, `RestrictedDisconnected`, `LockReleased`, `LeftoverRemoved`,
`ClosedKeysOpen`. Assumptions on the faults (`StopsAwaited`, `ServiceObeys`,
`RestoreEnds`, `NoFaults`) are named in the theorems that need them, and are what
the runs take as well; the findings of section 6 show what happens without
the first.

## 5. What is not modelled

* The content of requests beyond what decides an outcome: names, formats,
  messages, the text of answers.
* The journal of systemd, the time a step takes: a timeout may happen whenever
  what it waits for has not ended.
* A crash of the host between writing and renaming the file: `save_database`
  syncs and renames, and the model takes the rename for atomic.
* The content of Xray's outbounds and rules, the WARP account, which GeoFile is
  due; a crash of Xray by itself; servers without Xray or iptables.
* In `Backups`: the limit on the size of an upload, the export of a copy (which
  only reads), two copies of one name (a name has the second and six digits more).
* In `UserLabels` and `ExtensionUpgrade`: of the database only the labels; an
  operation that meets an upgrade; a full copy that puts an old state file beside
  a newer binary. Building the binary changes nothing.
* Of the web process the metrics, the audit log and activity times: rows that
  are written and read without a decision.
* Of Telegram `apply_telegram_settings`, once at a first installation, and
  `telegram_test`, which only sends. Of certificates the self-signed one and the
  configuration of Nginx.
* Device bindings, the user limit, journal retention, cleanup: single
  comparisons or calls under the lock; calendar arithmetic and which GeoFiles are
  due: see section 7. The browser's code, the patches of the Go
  sources at build time, uninstallation and the legacy cascade scripts (not
  reachable from `OPERATIONS`) are not planned; `PROJECT.json` says why.
* Retries that come with a new identifier: the browser makes one per submit
  (static/app.js:611), so the code cannot recognise them. Only a request that is
  sent again as it is has the same one.
* A firewall that is replaced by another; a `wdtt.service` that systemd starts
  again by itself (its unit is not in the repository), and what the server makes
  of the flags of its unit when it saves.

## 6. What was found

* `AdminTransaction_slow_stop`: a stop that takes longer than 45 seconds makes
  the helper give up; the unit is then deactivating, which `service_active`
  reads as "not running", and the next transaction replaces the file while the
  server is alive and may overwrite it. README.md:78 promises a stop, a backup,
  an atomic replacement and a start. The stop is also outside of the `try`, so that
  after such a timeout nobody starts the service again.
* `UserPlans_permanent`: `renew_user` asks whether the term ends in the future.
  A user without an end, or at the very second of the end, is still active for
  everything else, but is renewed as an expired one and loses the rest of the
  primary package, where `index.html:262` says that an active renewal keeps it.
* `XrayRouting_lock_cycle`: `cascade_save` starts and stops the cascade's unit
  under the lock that the unit's helper waits for, which `xray_save` takes care
  not to do for the gateway (comments at admin.py:3353 and 3359). The request
  fails after 45 seconds; what it asked for happens afterwards.
* `Backups_unsaved`: `restore_backup` takes its safety copy while the server is
  running (admin.py:1599) and replaces the database without another one; the
  counters the server saves when it is stopped in between are in no copy. An
  operation on users takes its copy after the stop, as README.md:78 and
  README.md:150 say.

Read in the code while modelling, and left outside of what the models claim:

* The helper and the installer do not share a lock. If a helper has stopped the
  server when the installer looks, the installer takes it for inactive, swaps
  the binary under the server that the helper starts, removes the second file of
  labels and writes v10; the old server then drops the labels when it saves.
* An upgrade that breaks off between stop and start leaves the server down, and
  the next attempt, which finds it inactive, does not start it. The same holds of
  Nginx after a renewal was killed (`troubled`).
* Recovery takes labels from old copies, so that a label that was cleared in
  between comes back for a user whose entry has none; an empty label in the file,
  or a time that an older extension moves while the installer waits, makes the
  check fail and the upgrade roll back (`Preserved`, `Moving`).
* The bulk deletion leaves labels in the second file.
* When the reload of systemd has failed, the next configuration of Telegram
  finds the line as wanted, does not reload, and answers "ok" (`current`).
* Lists that are written out of order, and counters that a restore brings back,
  count bytes twice (`muddled`).
* Of the operations on users only three look an identifier up. A bulk creation,
  or a creation with a generated password, that is sent again after a timeout
  (app.py:501) is applied again; and an identifier is recognised among the last
  50 of the user's history.
* The rollback of an upgrade ignores a stop that fails (install.sh:326): the new
  server stays beside the old binary and database, and the start that follows
  does nothing (`left`).
* `configure_telegram` after a stop that took too long: the unit is deactivating,
  which counts as not active, the operation answers "ok", and the old server may
  put its settings back over those in `passwords.json` while token and unit have
  the new ones (`besideOld`). A server without the extension drops the settings
  whenever it saves: the panel then shows a bot that runs as off.
* `xray_gateway_remove_rules` and `cascade_remove_rules` ignore exit codes: after
  a removal that failed the answer is "ok" and the rules are still there (`"left"`).
* Under firewalld a port that was opened at run time before `--permanent` failed
  stays open: the removal returns early, since the state file, which is written
  last, has no port (admin.py:3244, 3265). The next creation takes the port for
  the administrator's and never closes it.
* The library may go over its limit by what concurrent threads insert
  (`AdditionsKept` says by how much). A helper that does not answer counts as a
  failed attempt on the personal page.

## 7. Plan

Done, in this order:

1. `SerialStore`, `AdminTransaction`, `AdminTransactionProofs`.
2. `TrafficAccounts`, `UserPlans`, `UserPlansProofs`.
3. `XrayRouting`, `XrayRoutingProofs`; `Backups`, `BackupsProofs`.
4. `UserLabels`, `ExtensionUpgrade`, `ExtensionUpgradeProofs`.
5. `PanelAccess`, `HashLibrary`, `UserStatistics`, `TelegramSettings`,
   `Certificates` and their proofs (`WebProcessProofs`, `PanelPartsProofs`).
6. Proofs of every remaining safety and action property of the runs.

Left, the most valuable first:

1. Device bindings and the user limit, which falls from 65023 to 10 with a
   rollback.
2. Calendar arithmetic (`add_calendar_months`) against a reference definition;
   which GeoFiles are due.
