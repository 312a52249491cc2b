--------------------------- MODULE TrafficAccounts ---------------------------
(***************************************************************************)
(* What the panel promises about traffic, without counters, baselines and  *)
(* files.  A user has an account with two packages, a primary and an extra *)
(* one, and a history of the operations on it.  Traffic is drawn from the  *)
(* primary package first.  Only an operation that says so changes what is  *)
(* left; the history tells by how much; no operation in it is done twice.  *)
(* UserPlans implements it (see Accounts there).                           *)
(***************************************************************************)
EXTENDS Integers, Sequences

CONSTANTS
    Users,
    Ids,            \* identifiers of operations
    FreshId,        \* the identifier made up when an account is opened
    Amounts,        \* amounts of traffic that can be granted
    HistoryKeep     \* how many operations the history keeps

VARIABLES
    account,        \* account[u]: what user u may still transfer
    history         \* history[u]: the latest operations on the account

vars == <<account, history>>

Closed == [open |-> FALSE, limited |-> FALSE, primary |-> 0, extra |-> 0]
Unlimited == [open |-> TRUE, limited |-> FALSE, primary |-> 0, extra |-> 0]
Limited(p, x) == [open |-> TRUE, limited |-> TRUE, primary |-> p, extra |-> x]

Left(a) == a.primary + a.extra

\* x, but not below zero.
Floor(x) == IF x > 0 THEN x ELSE 0

\* The account after n bytes: the primary package goes first, and what is
\* transferred beyond both is free.
Drawn(a, n) ==
    IF a.limited
      THEN Limited(Floor(a.primary - n), Floor(a.extra - Floor(n - a.primary)))
      ELSE a

\* The last HistoryKeep elements of s.
Recent(s) ==
    IF Len(s) <= HistoryKeep THEN s ELSE SubSeq(s, Len(s) - HistoryKeep + 1, Len(s))

Init == /\ account \in [Users -> {Closed, Unlimited}]
        /\ history = [u \in Users |-> <<>>]

Open(S) ==
    /\ \A u \in S : ~account[u].open
    /\ \/ /\ account' = [u \in Users |-> IF u \in S THEN Unlimited ELSE account[u]]
          /\ history' = [u \in Users |-> IF u \in S THEN <<>> ELSE history[u]]
       \/ \E p \in Amounts :
             LET grant == [id |-> FreshId, kind |-> "initial_grant", primary |-> p, extra |-> 0]
             IN  /\ account' = [u \in Users |-> IF u \in S THEN Limited(p, 0) ELSE account[u]]
                 /\ history' = [u \in Users |-> IF u \in S THEN <<grant>> ELSE history[u]]

Close(S) ==
    /\ account' = [u \in Users |-> IF u \in S THEN Closed ELSE account[u]]
    /\ history' = [u \in Users |-> IF u \in S THEN <<>> ELSE history[u]]

\* The server reports what has been transferred since it reported last.
Spend ==
    /\ DOMAIN account' = Users
    /\ \A u \in Users :
          /\ Left(account'[u]) <= Left(account[u])
          /\ account'[u] = Drawn(account[u], Left(account[u]) - Left(account'[u]))
    /\ UNCHANGED history

\* An operation, under an identifier that is not in the history: the history
\* says how the account changed with respect to its base.
Operate(u, id, kind, base, new) ==
    /\ \A i \in DOMAIN history[u] : history[u][i].id # id
    /\ account' = [account EXCEPT ![u] = new]
    /\ history' = [history EXCEPT ![u] =
          Recent(Append(@, [id |-> id, kind |-> kind,
                            primary |-> new.primary - base.primary,
                            extra |-> new.extra - base.extra]))]

\* A renewal adds a primary package; a reactivation replaces it.  Both keep
\* the extra package.
Renew(u, id) ==
    \E g \in Amounts :
       \/ Operate(u, id, "renewal", account[u],
                  Limited(account[u].primary + g, account[u].extra))
       \/ Operate(u, id, "reactivation", [account[u] EXCEPT !.primary = 0],
                  Limited(g, account[u].extra))

AddExtra(u, id) ==
    /\ account[u].limited
    /\ \E new \in {Limited(account[u].primary, account[u].extra + n) : n \in Amounts} :
          Operate(u, id, "extra_add", account[u], new)

\* The account after n bytes are taken away: the extra package is first.
Withdrawn(a, n) ==
    LET fromExtra == IF n < a.extra THEN n ELSE a.extra
    IN  Limited(a.primary - (n - fromExtra), a.extra - fromExtra)

\* An adjustment by hand, of the term only or of the traffic.
Adjust(u, id) ==
    \E new \in {account[u], Unlimited}
               \cup {Limited(account[u].primary, account[u].extra + n) : n \in Amounts}
               \cup {Withdrawn(account[u], n) : n \in {m \in Amounts : m <= Left(account[u])}}
               \cup {Limited(n, 0) : n \in Amounts} :
       Operate(u, id, "manual_adjustment", account[u], new)

\* Editing a user: the account may move to another password, and may become
\* unlimited or get a new primary package.  The history does not tell.
Edit(u, v) ==
    /\ u # v => ~account[v].open
    /\ \E new \in {account[u], Unlimited} \cup {Limited(p, account[u].extra) : p \in Amounts} :
          account' = [w \in Users |-> IF w = v THEN new
                                      ELSE IF w = u THEN Closed ELSE account[w]]
    /\ history' = [w \in Users |-> IF w = v THEN history[u]
                                   ELSE IF w = u THEN <<>> ELSE history[w]]

Next ==
    \/ \E S \in SUBSET Users : Open(S) \/ Close(S)
    \/ Spend
    \/ \E u \in Users :
          /\ account[u].open
          /\ \/ \E id \in Ids : Renew(u, id) \/ AddExtra(u, id) \/ Adjust(u, id)
             \/ \E v \in Users : Edit(u, v)

Spec == Init /\ [][Next]_vars
=============================================================================
