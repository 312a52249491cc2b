------------------------------ MODULE UserPlans ------------------------------
(***************************************************************************)
(* The plan of a user: term, traffic packages, and access.  The packages   *)
(* are not balances.  The server counts what a user transfers in counters  *)
(* that it saves now and then and that an administrator may set to zero;   *)
(* a package is what was granted at the moment the counters stood at the   *)
(* baseline.  traffic_quota (Python) and trafficQuota (Go) work out what   *)
(* is left, every operation of the panel writes the packages anew.         *)
(*                                                                         *)
(* An operation of the panel is one step: AdminTransaction shows that it   *)
(* happens while the server is down, at most once and not in part.         *)
(* Rejected requests change nothing and are not actions.                   *)
(***************************************************************************)
EXTENDS Integers, Sequences

CONSTANTS
    Users,          \* passwords, the keys of the database
    Ids,            \* operation_id's of requests
    FreshId,        \* the "create:<uuid>" of a new user
    Amounts,        \* amounts of traffic, in units of GIB and of bytes alike
    HistoryKeep,    \* operations a user's history keeps (50)
    Month,          \* length of a calendar month in ticks of the clock
    MonthCounts,    \* numbers of months a renewal may ask for (1 to 36)
    MaxTime,        \* bound on the clock
    MaxTerm,        \* bound on the end of a term
    MaxPackage,     \* bound on each package
    MaxCounter      \* bound on the counters

ASSUME ConstantsAssumption ==
    /\ FreshId \notin Ids
    /\ Amounts \subseteq Nat
    /\ HistoryKeep \in Nat \ {0}
    /\ Month \in Nat \ {0}
    /\ MonthCounts \subseteq Nat \ {0}
    /\ MaxTime \in Nat /\ MaxTerm \in Nat /\ MaxPackage \in Nat /\ MaxCounter \in Nat

VARIABLES
    registered, \* the users in the database
    entry,      \* entry[u]: the record of u in the file
    unsaved,    \* unsaved[u]: traffic the server has counted but not saved
    sessions,   \* users with a connection to the server
    server,     \* wdtt.service: "up" or "down"
    now         \* the clock

vars == <<registered, entry, unsaved, sessions, server, now>>
serverVars == <<unsaved, sessions, server, now>>

Operation == [id : Ids \cup {FreshId}, primary : Int, extra : Int,
              kind : {"initial_grant", "renewal", "reactivation",
                      "extra_add", "manual_adjustment"}]

Entry == [counter : Nat,            \* down_bytes + up_bytes
          managed : BOOLEAN,        \* traffic_managed
          unlimited : BOOLEAN,      \* traffic_unlimited
          baseline : Nat,           \* traffic_baseline_bytes
          primary : Nat,            \* traffic_primary_bytes
          extra : Nat,              \* traffic_extra_bytes
          expires : Nat,            \* expires_at, 0 for no end
          deactivated : BOOLEAN,    \* is_deactivated
          ledger : Seq(Operation)]  \* traffic_operations

\* What WDTT without the extension writes: no quota at all.
LegacyEntry ==
    [counter |-> 0, managed |-> FALSE, unlimited |-> FALSE, baseline |-> 0,
     primary |-> 0, extra |-> 0, expires |-> 0, deactivated |-> FALSE, ledger |-> <<>>]

-----------------------------------------------------------------------------
(* The quota: traffic_quota of the panel, trafficQuota of the server.      *)

\* max(0, x)
Floor(x) == IF x > 0 THEN x ELSE 0

IsUnlimited(e) == ~e.managed \/ e.unlimited

Used(e) == Floor(e.counter - e.baseline)

PrimaryLeft(e) == IF IsUnlimited(e) THEN 0 ELSE Floor(e.primary - Used(e))

ExtraLeft(e) ==
    IF IsUnlimited(e) THEN 0 ELSE Floor(e.extra - Floor(Used(e) - e.primary))

\* The server's own arithmetic, on its own copy of the entry.
ServerExhausted(e) ==
    LET used == Floor(e.counter - e.baseline)
        primary == Floor(e.primary - used)
        extra == Floor(e.extra - Floor(used - e.primary))
    IN  e.managed /\ ~e.unlimited /\ primary + extra <= 0

IsExpired(e) == e.expires > 0 /\ e.expires < now

AccessRestricted(e) == IsExpired(e) \/ e.deactivated \/ ServerExhausted(e)

\* The server's copy of an entry, with the traffic it has not saved.
Counted(u, n) == [entry[u] EXCEPT !.counter = @ + n]

InMemory(u) == Counted(u, unsaved[u])

-----------------------------------------------------------------------------
(* The ledger of a user.                                                   *)

Performed(e, id) == \E i \in DOMAIN e.ledger : e.ledger[i].id = id

\* operations[-50:]
Recent(s) ==
    IF Len(s) <= HistoryKeep THEN s ELSE SubSeq(s, Len(s) - HistoryKeep + 1, Len(s))

RecordQuotaOperation(e, operation) ==
    [e EXCEPT !.ledger = Recent(Append(@, operation))]

\* Mutant of SetQuotaBalance: the baseline stays where it was.
SetPackagesOnly(e, primary, extra) ==
    [e EXCEPT !.managed = TRUE, !.unlimited = FALSE,
              !.primary = primary, !.extra = extra]

SetQuotaBalance(e, primary, extra) ==
    [e EXCEPT !.managed = TRUE, !.unlimited = FALSE, !.baseline = e.counter,
              !.primary = primary, !.extra = extra]

SetTerm(e, term, off) == [e EXCEPT !.expires = term, !.deactivated = off]

SetUnlimited(e) ==
    [e EXCEPT !.managed = TRUE, !.unlimited = TRUE, !.baseline = 0,
              !.primary = 0, !.extra = 0]

-----------------------------------------------------------------------------
(* wdtt-server and the clock.                                              *)

Init ==
    /\ registered \in SUBSET Users
    /\ entry = [u \in Users |-> LegacyEntry]
    /\ unsaved = [u \in Users |-> 0]
    /\ sessions = {}
    /\ server = "down"
    /\ now = 1

StartService ==
    /\ server = "down"
    /\ server' = "up"
    /\ UNCHANGED <<registered, entry, unsaved, sessions, now>>

\* Counters that were not saved are lost.
StopService ==
    /\ server = "up"
    /\ server' = "down"
    /\ unsaved' = [u \in Users |-> 0]
    /\ sessions' = {}
    /\ UNCHANGED <<registered, entry, now>>

\* A client that authenticates; the server checks term, access and quota.
Connect(u) ==
    /\ server = "up"
    /\ u \in registered \ sessions
    /\ ~AccessRestricted(InMemory(u))
    /\ sessions' = sessions \cup {u}
    /\ UNCHANGED <<registered, entry, unsaved, server, now>>

\* Mutant of Transfer: the quota is left to the periodic check.
TransferUnchecked(u, n) ==
    /\ u \in sessions
    /\ entry[u].counter + unsaved[u] + n <= MaxCounter
    /\ unsaved' = [unsaved EXCEPT ![u] = @ + n]
    /\ UNCHANGED <<registered, entry, sessions, server, now>>

\* recordPasswordTrafficLocked: count, and cut off a user who has used it up.
Transfer(u, n) ==
    /\ u \in sessions
    /\ entry[u].counter + unsaved[u] + n <= MaxCounter
    /\ unsaved' = [unsaved EXCEPT ![u] = @ + n]
    /\ sessions' = IF ServerExhausted(Counted(u, unsaved[u] + n))
                   THEN sessions \ {u} ELSE sessions
    /\ UNCHANGED <<registered, entry, server, now>>

\* Mutant of EnforceRestrictions: the end of the term is not looked at.
EnforceQuotas ==
    /\ server = "up"
    /\ sessions' = {u \in sessions : ~entry[u].deactivated /\ ~ServerExhausted(InMemory(u))}
    /\ sessions' # sessions
    /\ UNCHANGED <<registered, entry, unsaved, server, now>>

\* The periodic applyPasswordRestrictionsLocked.
EnforceRestrictions ==
    /\ server = "up"
    /\ sessions' = {u \in sessions : ~AccessRestricted(InMemory(u))}
    /\ sessions' # sessions
    /\ UNCHANGED <<registered, entry, unsaved, server, now>>

SaveCounters ==
    /\ server = "up"
    /\ entry' = [u \in Users |-> InMemory(u)]
    /\ unsaved' = [u \in Users |-> 0]
    /\ entry' # entry
    /\ UNCHANGED <<registered, sessions, server, now>>

Tick ==
    /\ now < MaxTime
    /\ now' = now + 1
    /\ UNCHANGED <<registered, entry, unsaved, sessions, server>>

-----------------------------------------------------------------------------
(* Operations of the panel, each inside of mutate_database.                *)

\* What parse_expiration can return: no end, or a moment in the future.
FutureTerms == {t \in 1 .. MaxTerm : t > now}
ParsedTerms == {0} \cup FutureTerms

\* A transaction replaces the entries of some users.
Transaction(users, entries) ==
    /\ server = "down"
    /\ \A u \in Users : entries[u].primary <= MaxPackage /\ entries[u].extra <= MaxPackage
    /\ registered' = users
    /\ entry' = entries
    /\ UNCHANGED serverVars

Write(u, e) == Transaction(registered, [entry EXCEPT ![u] = e])

InitialEntry(term, off) ==
    [LegacyEntry EXCEPT !.managed = TRUE, !.expires = term, !.deactivated = off]

WithoutLimit(e) == [e EXCEPT !.unlimited = TRUE]

WithPackage(e, g) ==
    [e EXCEPT !.primary = g,
              !.ledger = << [id |-> FreshId, kind |-> "initial_grant",
                             primary |-> g, extra |-> 0] >>]

\* create_user, and create_users_bulk, which gives all of them the same plan.
CreateUsers(S, term, off) ==
    /\ S \cap registered = {}
    /\ LET new == InitialEntry(term, off)
       IN  \E e \in {WithoutLimit(new)} \cup {WithPackage(new, g) : g \in Amounts} :
              Transaction(registered \cup S,
                          [u \in Users |-> IF u \in S THEN e ELSE entry[u]])

\* Mutant of UpdateUser: a rename leaves the old password with the account.
UpdateCopy(u, v, term, off) ==
    /\ u \in registered
    /\ u # v => v \notin registered
    /\ Transaction(registered \cup {v},
                   [entry EXCEPT ![v] = SetTerm(entry[u], term, off)])

\* update_user: every part of the request is optional; the user may be renamed.
UpdateUser(u, v, term, off) ==
    /\ u \in registered
    /\ u # v => v \notin registered
    /\ LET e == SetTerm(entry[u], term, off)
       IN  \E new \in {e, SetUnlimited(e)}
                      \cup {SetQuotaBalance(e, g, ExtraLeft(e)) : g \in Amounts} :
              Transaction((registered \ {u}) \cup {v},
                          [w \in Users |-> IF w = v THEN new
                                           ELSE IF w = u THEN LegacyEntry ELSE entry[w]])

\* delete_user, and the bulk action.
DeleteUsers(S) ==
    Transaction(registered \ S,
                [u \in Users |-> IF u \in S THEN LegacyEntry ELSE entry[u]])

ResetEntry(e) ==
    IF IsUnlimited(e)
      THEN [e EXCEPT !.counter = 0]
      ELSE [e EXCEPT !.counter = 0, !.baseline = 0,
                     !.primary = PrimaryLeft(e), !.extra = ExtraLeft(e)]

\* reset_traffic, and the bulk action.
ResetTraffic(S) ==
    Transaction(registered,
                [u \in Users |-> IF u \in S THEN ResetEntry(entry[u]) ELSE entry[u]])

\* The bulk actions activate, deactivate and set_expiration.
SetDeactivated(S, off) ==
    Transaction(registered,
                [u \in Users |-> IF u \in S THEN SetTerm(entry[u], entry[u].expires, off)
                                 ELSE entry[u]])

SetExpiration(S, term) ==
    Transaction(registered,
                [u \in Users |-> IF u \in S THEN SetTerm(entry[u], term, entry[u].deactivated)
                                 ELSE entry[u]])

\* What a renewal leaves for the user's own term: months are added to a term
\* that still runs, or to the present; a date is taken as it is.
RenewalTerms(e) ==
    LET start == IF e.expires > now THEN e.expires ELSE now
    IN  {t \in 1 .. MaxTerm : \E m \in MonthCounts : t = start + Month * m}
        \cup FutureTerms

\* Mutant of RenewedEntry: a deactivated user stays so.
RenewedWhileOff(e, id, term, g) ==
    LET active == e.expires > now
        carried == IF active THEN PrimaryLeft(e) ELSE 0
    IN  RecordQuotaOperation(
            SetQuotaBalance(SetTerm(e, term, e.deactivated), carried + g, ExtraLeft(e)),
            [id |-> id, kind |-> IF active THEN "renewal" ELSE "reactivation",
             primary |-> g, extra |-> 0])

RenewedEntry(e, id, term, g) ==
    LET active == e.expires > now
        carried == IF active THEN PrimaryLeft(e) ELSE 0
    IN  RecordQuotaOperation(
            SetQuotaBalance(SetTerm(e, term, FALSE), carried + g, ExtraLeft(e)),
            [id |-> id, kind |-> IF active THEN "renewal" ELSE "reactivation",
             primary |-> g, extra |-> 0])

\* Mutant of RenewUser: the operation id is not looked up.
RenewUserAgain(u, id, g) ==
    /\ u \in registered
    /\ \E term \in RenewalTerms(entry[u]) :
          Write(u, RenewedEntry(entry[u], id, term, g))

RenewUser(u, id, g) ==
    /\ u \in registered
    /\ ~Performed(entry[u], id)
    /\ \E term \in RenewalTerms(entry[u]) :
          Write(u, RenewedEntry(entry[u], id, term, g))

AddUserTraffic(u, id, n) ==
    /\ u \in registered
    /\ n > 0
    /\ ~Performed(entry[u], id)
    /\ ~IsUnlimited(entry[u])
    /\ Write(u, RecordQuotaOperation(
                    SetQuotaBalance(entry[u], PrimaryLeft(entry[u]), ExtraLeft(entry[u]) + n),
                    [id |-> id, kind |-> "extra_add", primary |-> 0, extra |-> n]))

\* The new term and the new packages of adjust_user_plan, or no new packages.
AdjustedTerms(e) == ParsedTerms \cup {e.expires}

Adjusted(e, id, dp, dx) ==
    RecordQuotaOperation(e, [id |-> id, kind |-> "manual_adjustment",
                             primary |-> dp, extra |-> dx])

KeepTraffic(e, id) == Adjusted(e, id, 0, 0)

MakeUnlimited(e, id) == Adjusted(SetUnlimited(e), id, -PrimaryLeft(e), -ExtraLeft(e))

\* traffic_mode add, set and subtract.
AddPackage(e, id, n) ==
    Adjusted(SetQuotaBalance(e, PrimaryLeft(e), ExtraLeft(e) + n), id, 0, n)

SetPackage(e, id, n) ==
    Adjusted(SetQuotaBalance(e, n, 0), id, n - PrimaryLeft(e), -ExtraLeft(e))

FromExtra(e, n) == IF ExtraLeft(e) < n THEN ExtraLeft(e) ELSE n

SubtractPackage(e, id, n) ==
    LET rest == n - FromExtra(e, n)
    IN  Adjusted(SetQuotaBalance(e, PrimaryLeft(e) - rest, ExtraLeft(e) - FromExtra(e, n)),
                 id, -rest, -FromExtra(e, n))

AdjustUserPlan(u, id) ==
    /\ u \in registered
    /\ ~Performed(entry[u], id)
    /\ \E term \in AdjustedTerms(entry[u]) :
          LET e == SetTerm(entry[u], term, entry[u].deactivated)
          IN  \/ term \in ParsedTerms /\ Write(u, KeepTraffic(e, id))
              \/ Write(u, MakeUnlimited(e, id))
              \/ \E n \in Amounts :
                    \/ n > 0 /\ Write(u, AddPackage(e, id, n))
                    \/ /\ 0 < n /\ n <= PrimaryLeft(e) + ExtraLeft(e)
                       /\ Write(u, SubtractPackage(e, id, n))
                    \/ Write(u, SetPackage(e, id, n))

-----------------------------------------------------------------------------
ServerStep ==
    \/ StartService
    \/ StopService
    \/ \E u \in Users : Connect(u)
    \/ \E u \in Users, n \in Amounts \ {0} : Transfer(u, n)
    \/ EnforceRestrictions
    \/ SaveCounters

PanelStep ==
    \/ \E S \in (SUBSET Users) \ {{}}, term \in ParsedTerms, off \in BOOLEAN :
          CreateUsers(S, term, off)
    \/ \E u, v \in Users, off \in BOOLEAN :
          \E term \in ParsedTerms \cup {entry[u].expires} : UpdateUser(u, v, term, off)
    \/ \E S \in (SUBSET registered) \ {{}} :
          \/ DeleteUsers(S)
          \/ ResetTraffic(S)
          \/ \E off \in BOOLEAN : SetDeactivated(S, off)
          \/ \E term \in FutureTerms : SetExpiration(S, term)
    \/ \E u \in Users, id \in Ids :
          \/ \E g \in Amounts : RenewUser(u, id, g)
          \/ \E n \in Amounts : AddUserTraffic(u, id, n)
          \/ AdjustUserPlan(u, id)

Next == ServerStep \/ PanelStep \/ Tick

Spec == Init /\ [][Next]_vars

\* The server checks restrictions periodically, as long as it runs.
FairSpec == Spec /\ WF_vars(EnforceRestrictions)

-----------------------------------------------------------------------------
(* Properties.                                                             *)

\* Types; a user who is not in the database leaves nothing behind.
TypeOK ==
    /\ registered \subseteq Users
    /\ entry \in [Users -> Entry]
    /\ unsaved \in [Users -> Nat]
    /\ sessions \subseteq Users
    /\ server \in {"up", "down"}
    /\ now \in Nat
    /\ \A u \in Users \ registered : entry[u] = LegacyEntry

\* The counters, which a reset and a stop of the server move back, never fall
\* below the baseline the packages are measured from.
BaselineReached == \A u \in Users : entry[u].baseline <= entry[u].counter

\* Whoever is connected is a user, is not switched off and has traffic left,
\* counting what the server has not saved yet (recordPasswordTrafficLocked).
SessionsEntitled ==
    \A u \in sessions : /\ u \in registered
                        /\ ~entry[u].deactivated
                        /\ ~ServerExhausted(InMemory(u))

\* The operations a user's history keeps all have different ids: no retry of
\* one of them has been applied again (quota_operation_exists).
NoOperationTwice ==
    \A u \in Users : \A i, j \in DOMAIN entry[u].ledger :
        entry[u].ledger[i].id = entry[u].ledger[j].id => i = j

\* After a renewal the server lets the user in, whatever kept them out before,
\* unless the renewal granted nothing and nothing was left.
RenewalOpensAccess ==
    [][\A u \in Users, id \in Ids, g \in Amounts :
          RenewUser(u, id, g) =>
             (AccessRestricted(entry[u])' => PrimaryLeft(entry[u])' + ExtraLeft(entry[u])' = 0)]_vars

\* While a user's term has not ended, a renewal keeps what is left of the
\* primary package (the note in the renewal dialog).
RenewalKeepsActiveBalance ==
    [][\A u \in Users, id \in Ids, g \in Amounts :
          RenewUser(u, id, g) /\ ~IsExpired(entry[u]) =>
             PrimaryLeft(entry[u])' >= PrimaryLeft(entry[u])]_vars

\* Whoever may not be connected any more, because the term has ended for one,
\* is disconnected at some time.
RestrictedDisconnected ==
    \A u \in Users :
        u \in sessions /\ AccessRestricted(InMemory(u)) ~> u \notin sessions

\* What the file says of a user, as an account with a history.
Accounts == INSTANCE TrafficAccounts WITH
    account <- [u \in Users |-> [open |-> u \in registered,
                                 limited |-> u \in registered /\ ~IsUnlimited(entry[u]),
                                 primary |-> PrimaryLeft(entry[u]),
                                 extra |-> ExtraLeft(entry[u])]],
    history <- [u \in Users |-> entry[u].ledger]

\* The refinement: whatever the order of transfers, saves, losses, resets and
\* operations, balances and history change as TrafficAccounts says.
AccountsSpec == Accounts!Spec
=============================================================================
