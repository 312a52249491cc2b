--------------------------- MODULE UserStatistics ---------------------------
(***************************************************************************)
(* Accumulated traffic.  The server's counters are saved in passwords.json *)
(* and go back when they are reset, when a user is deleted and created     *)
(* again, when a backup is restored.  The web process adds up differences: *)
(* whoever lists the users (the page of users, the Android client, each    *)
(* visit of a personal page) also writes the list into the statistics.     *)
(*                                                                         *)
(* The helper that lists is under the lock; what the thread does with the  *)
(* list afterwards is not.  The row of the first user is read before the   *)
(* transaction begins (sqlite3 begins it with the first INSERT), those of  *)
(* the others within it.  Download and upload are treated alike: one       *)
(* counter stands for each.                                                *)
(***************************************************************************)
EXTENDS WebThreads

CONSTANTS
    Accounts,   \* role:password, keys of user_traffic_state; there are others
    KeepDays,   \* rows not updated for longer are deleted (90)
    MaxBytes,   \* bound on the traffic of an account
    MaxTotal,   \* bound on a total: above MaxBytes, bytes are counted twice
    MaxDay      \* bound on the calendar

ASSUME StatisticsAssumption ==
    KeepDays \in Nat /\ MaxBytes \in Nat /\ MaxTotal \in Nat /\ MaxDay \in Nat

VARIABLES
    saved,      \* saved[u]: the counter in passwords.json, Absent without the user
    day,        \* the date
    rows,       \* rows[u]: the row of user_traffic_state, NoRow without one
    listing,    \* listing[t]: what thread t does with a list of users
    real,       \* real[u]: all the traffic ever saved under that key
    muddled     \* users of whom lists were written out of order, or restored

statisticsVars == <<saved, day, rows, listing, real, muddled>>

Absent == -1
Other == "other"     \* an entry of the list that is not tracked here
NoRow == [counter |-> 0, total |-> 0, today |-> 0, day |-> -1]
NoListing == [step |-> "none", counters |-> <<>>, day |-> 0, row |-> NoRow,
              first |-> Other, older |-> {}, overtaken |-> FALSE]

Row == [counter : Nat,      \* down_bytes, up_bytes: the counter last listed
        total : Nat,        \* total_down_bytes, total_up_bytes
        today : Nat,        \* today_down_bytes, today_up_bytes
        day : 0..MaxDay]    \* today_key, and the day of updated_at

StatisticsTypeOK ==
    /\ saved \in [Accounts -> {Absent} \cup 0..MaxBytes]
    /\ day \in 0..MaxDay
    /\ rows \in [Accounts -> Row \cup {NoRow}]
    /\ \A t \in Threads :
          /\ listing[t].step \in {"none", "listed", "read"}
          /\ listing[t].step # "none" => listing[t].counters \in [Accounts -> {Absent} \cup 0..MaxBytes]
          /\ listing[t].row \in Row \cup {NoRow}
    /\ real \in [Accounts -> 0..MaxBytes]
    /\ muddled \subseteq Accounts

StatisticsInit ==
    /\ saved = [u \in Accounts |-> 0]
    /\ day = 0
    /\ rows = [u \in Accounts |-> NoRow]
    /\ listing = [t \in Threads |-> NoListing]
    /\ real = [u \in Accounts |-> 0]
    /\ muddled = {}

-----------------------------------------------------------------------------
(* What happens to the counters.                                           *)

SaveTraffic(u) ==
    /\ saved[u] # Absent /\ real[u] < MaxBytes
    /\ saved' = [saved EXCEPT ![u] = @ + 1]
    /\ real' = [real EXCEPT ![u] = @ + 1]
    /\ UNCHANGED <<day, rows, listing, muddled>>

\* users.reset_traffic
ResetCounter(u) ==
    /\ saved[u] # Absent
    /\ saved' = [saved EXCEPT ![u] = 0]
    /\ UNCHANGED <<day, rows, listing, real, muddled>>

\* users.delete, users.create
DeleteAccount(u) ==
    /\ saved[u] # Absent
    /\ saved' = [saved EXCEPT ![u] = Absent]
    /\ UNCHANGED <<day, rows, listing, real, muddled>>

CreateAccount(u) ==
    /\ saved[u] = Absent
    /\ saved' = [saved EXCEPT ![u] = 0]
    /\ UNCHANGED <<day, rows, listing, real, muddled>>

\* backups.restore: a counter of some time ago, its traffic counted already.
RestoreCounters(u) ==
    /\ u \notin muddled     \* bound: once, and not of one that is muddled already
    /\ \E counter \in 0..real[u] : saved' = [saved EXCEPT ![u] = counter]
    /\ muddled' = muddled \cup {u}
    /\ UNCHANGED <<day, rows, listing, real>>

NextDay ==
    /\ day < MaxDay
    /\ day' = day + 1
    /\ UNCHANGED <<saved, rows, listing, real, muddled>>

-----------------------------------------------------------------------------
(* enrich_user_statistics.                                                 *)

Listed(t) == {u \in Accounts : listing[t].counters[u] # Absent}

\* The helper's answer to users.list has arrived.
ListUsers(t) ==
    /\ listing[t].step = "none"
    /\ listing' = [listing EXCEPT ![t] =
           [NoListing EXCEPT !.step = "listed", !.counters = saved,
                             !.older = {s \in Threads \ {t} : listing[s].step # "none"}]]
    /\ UNCHANGED <<saved, day, rows, real, muddled>>

\* The date is taken, and the row of the first entry is read.
ReadFirstRow(t) ==
    /\ listing[t].step = "listed"
    /\ \E first \in Listed(t) \cup {Other} :
          listing' = [listing EXCEPT
              ![t].step = "read", ![t].first = first, ![t].day = day,
              ![t].row = IF first = Other THEN NoRow ELSE rows[first]]
    /\ UNCHANGED <<saved, day, rows, real, muddled>>

\* Mutant of Delta: a counter that has gone back is taken for no traffic.
DeltaOrNone(counter, previous) == IF counter >= previous THEN counter - previous ELSE previous

\* A counter that has gone back has been reset: all of it is new.
Delta(counter, previous) == IF counter >= previous THEN counter - previous ELSE counter

Larger(a, b) == IF a >= b THEN a ELSE b

\* Mutant of Updated: the day's traffic goes into today, the counter into total.
UpdatedCounter(row, counter, d) ==
    LET delta == Delta(counter, row.counter)
    IN  IF row = NoRow
        THEN [counter |-> counter, total |-> counter, today |-> 0, day |-> d]
        ELSE [counter |-> counter, total |-> counter,
              today |-> IF row.day = d THEN row.today + delta ELSE delta,
              day |-> d]

Updated(row, counter, d) ==
    LET delta == Delta(counter, row.counter)
    IN  IF row = NoRow
        THEN [counter |-> counter, total |-> counter, today |-> 0, day |-> d]
        ELSE [counter |-> counter, total |-> Larger(row.total + delta, counter),
              today |-> IF row.day = d THEN row.today + delta ELSE delta,
              day |-> d]

IsStale(row, d) == row # NoRow /\ row.day < d - KeepDays

\* The transaction: every row is written, rows not written for long are deleted.
WriteRows(t) ==
    LET l == listing[t]
        Before(u) == IF u = l.first THEN l.row ELSE rows[u]
    IN  /\ l.step = "read"
        /\ rows' = [u \in Accounts |->
               IF u \in Listed(t) THEN Updated(Before(u), l.counters[u], l.day)
               ELSE IF IsStale(rows[u], l.day) THEN NoRow ELSE rows[u]]
        /\ \A u \in Accounts : rows'[u].total <= MaxTotal
        /\ listing' = [s \in Threads |->
               IF s = t THEN NoListing
               ELSE [listing[s] EXCEPT !.older = @ \ {t},
                                       !.overtaken = @ \/ s \in l.older]]
        /\ muddled' = muddled \cup (IF l.overtaken THEN Listed(t) ELSE {})
                              \cup {u \in Accounts : l.first = u /\ l.row # rows[u]}
        /\ UNCHANGED <<saved, day, real>>

StatisticsNext ==
    \/ \E u \in Accounts : SaveTraffic(u) \/ ResetCounter(u) \/ DeleteAccount(u)
                           \/ CreateAccount(u) \/ RestoreCounters(u)
    \/ NextDay
    \/ \E t \in Threads : ListUsers(t) \/ ReadFirstRow(t) \/ WriteRows(t)

StatisticsSpec == StatisticsInit /\ [][StatisticsNext]_statisticsVars

-----------------------------------------------------------------------------
(* Properties.                                                             *)

\* No byte is counted twice, whatever resets, deletions and renewed creations
\* there are between two lists, as long as lists are written in the order they
\* were made in and no backup brings old counters back.  (Out of order, a counter
\* that was larger looks like one that has been reset.)  What is counted for
\* today is part of the total.
NoByteTwice ==
    \A u \in Accounts :
        /\ u \notin muddled => rows[u].total <= real[u]
        /\ rows[u].today <= rows[u].total

\* The total a user is shown never becomes smaller, except when it starts anew
\* after KeepDays without an update, and when two threads have read the same row.
TotalsNeverBack ==
    [][\A u \in Accounts :
          rows[u] # NoRow /\ rows'[u].total < rows[u].total =>
              \/ rows'[u] = NoRow /\ rows[u].day < day - KeepDays
              \/ \E t \in Threads : listing[t].first = u /\ listing[t].row # rows[u]]_statisticsVars
=============================================================================
