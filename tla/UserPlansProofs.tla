--------------------------- MODULE UserPlansProofs ---------------------------
(***************************************************************************)
(* What TLAPS proves of UserPlans, for every set of users, identifiers and *)
(* amounts, every length of the history and every bound.                   *)
(***************************************************************************)
EXTENDS UserPlans, TLAPS

-----------------------------------------------------------------------------
(* The history.                                                            *)

UniqueIds(s) == \A i, j \in DOMAIN s : s[i].id = s[j].id => i = j

\* What Recent returns: the last elements of a sequence, in their places.
LEMMA RecentElements ==
    ASSUME NEW S, NEW s \in Seq(S)
    PROVE  /\ Recent(s) \in Seq(S)
           /\ Len(Recent(s)) <= HistoryKeep
           /\ \E d \in Nat : /\ Len(Recent(s)) + d = Len(s)
                             /\ \A i \in 1 .. Len(Recent(s)) : Recent(s)[i] = s[i + d]
<1> USE ConstantsAssumption
<1>1. CASE Len(s) <= HistoryKeep
  <2>1. Recent(s) = s BY <1>1 DEF Recent
  <2>2. 0 \in Nat /\ Len(s) + 0 = Len(s) /\ \A i \in 1 .. Len(s) : s[i] = s[i + 0]
    OBVIOUS
  <2> QED BY <1>1, <2>1, <2>2
<1>2. CASE ~(Len(s) <= HistoryKeep)
  <2> DEFINE d == Len(s) - HistoryKeep
  <2>1. d \in Nat /\ d + 1 \in 1 .. Len(s) + 1 /\ Len(s) \in Nat BY <1>2
  <2>2. Recent(s) = SubSeq(s, d + 1, Len(s)) BY <1>2 DEF Recent
  <2>3. SubSeq(s, d + 1, Len(s)) \in Seq(S) /\ Len(SubSeq(s, d + 1, Len(s))) = HistoryKeep
    BY <2>1
  <2>4. \A i \in 1 .. HistoryKeep : SubSeq(s, d + 1, Len(s))[i] = s[i + d]
    BY <2>1
  <2>5. Recent(s) \in Seq(S) /\ Len(Recent(s)) = HistoryKeep
    BY <2>2, <2>3
  <2>6. Len(Recent(s)) + d = Len(s) /\ \A i \in 1 .. Len(Recent(s)) : Recent(s)[i] = s[i + d]
    BY <2>1, <2>2, <2>4, <2>5
  <2> HIDE DEF d
  <2>7. \E c \in Nat : /\ Len(Recent(s)) + c = Len(s)
                       /\ \A i \in 1 .. Len(Recent(s)) : Recent(s)[i] = s[i + c]
    BY <2>1, <2>6
  <2>8. Len(Recent(s)) <= HistoryKeep BY <2>1, <2>5
  <2> QED BY <2>5, <2>7, <2>8
<1> QED BY <1>1, <1>2

\* Recording an operation under an id that is not in the history keeps the
\* ids different.
LEMMA RecordKeepsUnique ==
    ASSUME NEW s \in Seq(Operation), UniqueIds(s), NEW op \in Operation,
           \A i \in DOMAIN s : s[i].id # op.id
    PROVE  UniqueIds(Recent(Append(s, op))) /\ Recent(Append(s, op)) \in Seq(Operation)
<1> DEFINE t == Append(s, op)
<1>1. t \in Seq(Operation) /\ Len(t) = Len(s) + 1 /\ Len(s) \in Nat
  OBVIOUS
<1>2. \A i \in 1 .. Len(s) : t[i] = s[i]
  OBVIOUS
<1>3. t[Len(t)] = op
  BY <1>1
<1>4. ASSUME NEW i \in 1 .. Len(t), NEW j \in 1 .. Len(t), t[i].id = t[j].id PROVE i = j
  <2>1. CASE i = Len(t) /\ j = Len(t) BY <2>1
  <2>2. CASE i = Len(t) /\ j \in 1 .. Len(s) BY <2>2, <1>2, <1>3, <1>4
  <2>3. CASE j = Len(t) /\ i \in 1 .. Len(s) BY <2>3, <1>2, <1>3, <1>4
  <2>4. CASE i \in 1 .. Len(s) /\ j \in 1 .. Len(s) BY <2>4, <1>2, <1>4 DEF UniqueIds
  <2> QED BY <2>1, <2>2, <2>3, <2>4, <1>1
<1> HIDE DEF t
<1>5. PICK d \in Nat : /\ Len(Recent(t)) + d = Len(t)
                       /\ \A i \in 1 .. Len(Recent(t)) : Recent(t)[i] = t[i + d]
  BY <1>1, RecentElements
<1>6. Recent(t) \in Seq(Operation) BY <1>1, RecentElements
<1>7. ASSUME NEW i \in 1 .. Len(Recent(t)), NEW j \in 1 .. Len(Recent(t)),
             Recent(t)[i].id = Recent(t)[j].id
      PROVE  i = j
  <2>1. i + d \in 1 .. Len(t) /\ j + d \in 1 .. Len(t) BY <1>1, <1>5, <1>6
  <2>2. t[i + d].id = t[j + d].id BY <1>5, <1>7
  <2>3. i + d = j + d BY <2>1, <2>2, <1>4
  <2> QED BY <2>3, <1>6
<1>8. UniqueIds(Recent(t)) BY <1>6, <1>7 DEF UniqueIds
<1> QED BY <1>6, <1>8 DEF t

-----------------------------------------------------------------------------
(* Entries.                                                                *)

\* What is proved of every entry of the file.
Good(e) == /\ e \in Entry
           /\ e.baseline <= e.counter
           /\ IsUnlimited(e) => e.baseline = 0
           /\ UniqueIds(e.ledger)

\* The entry of a user without a plan is good.
LEMMA LegacyGood == Good(LegacyEntry) /\ PrimaryLeft(LegacyEntry) = 0 /\ ExtraLeft(LegacyEntry) = 0
BY DEF Good, LegacyEntry, Entry, UniqueIds, PrimaryLeft, ExtraLeft, IsUnlimited

\* What is left of the packages is a natural number.
LEMMA QuotaTyped ==
    ASSUME NEW e \in Entry
    PROVE  PrimaryLeft(e) \in Nat /\ ExtraLeft(e) \in Nat /\ Used(e) \in Nat
<1>1. e.primary \in Nat /\ e.extra \in Nat /\ e.counter \in Nat /\ e.baseline \in Nat
  BY DEF Entry
<1> QED BY <1>1 DEF PrimaryLeft, ExtraLeft, Used, Floor

\* set_quota_balance makes exactly the packages it is given what is left.
LEMMA SetQuotaBalanceCorrect ==
    ASSUME NEW e, Good(e), NEW p \in Nat, NEW x \in Nat,
           NEW n, n = SetQuotaBalance(e, p, x)
    PROVE  /\ Good(n) /\ ~IsUnlimited(n)
           /\ PrimaryLeft(n) = p /\ ExtraLeft(n) = x
           /\ n.ledger = e.ledger /\ n.expires = e.expires /\ n.deactivated = e.deactivated
<1>1. e \in Entry BY DEF Good
<1>2. /\ n.baseline = e.counter /\ n.counter = e.counter /\ n.primary = p /\ n.extra = x
      /\ n.managed = TRUE /\ n.unlimited = FALSE /\ n.ledger = e.ledger
      /\ n.expires = e.expires /\ n.deactivated = e.deactivated
  BY <1>1 DEF SetQuotaBalance, Entry
<1>3. n \in Entry BY <1>1 DEF SetQuotaBalance, Entry
<1>4. e.counter \in Nat BY <1>1 DEF Entry
<1>5. Used(n) = 0 BY <1>2, <1>4 DEF Used, Floor
<1>6. ~IsUnlimited(n) BY <1>2 DEF IsUnlimited
<1>7. PrimaryLeft(n) = p BY <1>2, <1>5, <1>6 DEF PrimaryLeft, Floor
<1>8. ExtraLeft(n) = x BY <1>2, <1>5, <1>6 DEF ExtraLeft, Floor
<1>9. Good(n) BY <1>2, <1>3, <1>4, <1>6 DEF Good
<1> QED BY <1>2, <1>6, <1>7, <1>8, <1>9

\* An unlimited entry has nothing left in its packages, and needs nothing.
LEMMA SetUnlimitedCorrect ==
    ASSUME NEW e, Good(e),
           NEW n, n = SetUnlimited(e)
    PROVE  /\ Good(n) /\ IsUnlimited(n)
           /\ PrimaryLeft(n) = 0 /\ ExtraLeft(n) = 0 /\ n.ledger = e.ledger
<1>1. e \in Entry BY DEF Good
<1>2. n.baseline = 0 /\ n.counter = e.counter /\ n.managed = TRUE /\ n.unlimited = TRUE
      /\ n.ledger = e.ledger
  BY <1>1 DEF SetUnlimited, Entry
<1>3. n \in Entry BY <1>1 DEF SetUnlimited, Entry
<1>4. e.counter \in Nat BY <1>1 DEF Entry
<1>5. IsUnlimited(n) BY <1>2 DEF IsUnlimited
<1>6. PrimaryLeft(n) = 0 /\ ExtraLeft(n) = 0 BY <1>5 DEF PrimaryLeft, ExtraLeft
<1>7. Good(n) BY <1>2, <1>3, <1>4 DEF Good
<1> QED BY <1>2, <1>5, <1>6, <1>7

\* Term and access are not part of the quota.
LEMMA TermIrrelevant ==
    ASSUME NEW e, Good(e), NEW t \in Nat, NEW off \in BOOLEAN,
           NEW n, n = SetTerm(e, t, off)
    PROVE  /\ Good(n) /\ (IsUnlimited(n) <=> IsUnlimited(e))
           /\ PrimaryLeft(n) = PrimaryLeft(e) /\ ExtraLeft(n) = ExtraLeft(e)
           /\ n.ledger = e.ledger /\ n.expires = t /\ n.deactivated = off
<1>1. e \in Entry BY DEF Good
<1>2. /\ n.baseline = e.baseline /\ n.counter = e.counter /\ n.primary = e.primary
      /\ n.extra = e.extra /\ n.managed = e.managed /\ n.unlimited = e.unlimited
      /\ n.ledger = e.ledger /\ n.expires = t /\ n.deactivated = off
  BY <1>1 DEF Entry, SetTerm
<1>3. n \in Entry BY <1>1 DEF Entry, SetTerm
<1>4. IsUnlimited(n) <=> IsUnlimited(e) BY <1>2 DEF IsUnlimited
<1>5. Used(n) = Used(e) BY <1>2 DEF Used
<1>6. PrimaryLeft(n) = PrimaryLeft(e) /\ ExtraLeft(n) = ExtraLeft(e)
  BY <1>2, <1>4, <1>5 DEF PrimaryLeft, ExtraLeft
<1>7. Good(n) BY <1>2, <1>3, <1>4 DEF Good
<1> QED BY <1>2, <1>4, <1>6, <1>7

\* A reset of the counters leaves what is left as it is.
LEMMA ResetEntryCorrect ==
    ASSUME NEW e, Good(e),
           NEW n, n = ResetEntry(e)
    PROVE  /\ Good(n) /\ (IsUnlimited(n) <=> IsUnlimited(e))
           /\ PrimaryLeft(n) = PrimaryLeft(e) /\ ExtraLeft(n) = ExtraLeft(e)
           /\ n.ledger = e.ledger
<1>1. e \in Entry BY DEF Good
<1>2. PrimaryLeft(e) \in Nat /\ ExtraLeft(e) \in Nat BY <1>1, QuotaTyped
<1>3. CASE ~IsUnlimited(e)
  <2> DEFINE p == PrimaryLeft(e)  x == ExtraLeft(e)
  <2>0. p \in Nat /\ x \in Nat BY <1>2
  <2>1. n = [e EXCEPT !.counter = 0, !.baseline = 0, !.primary = p, !.extra = x]
    BY <1>3 DEF ResetEntry
  <2> HIDE DEF p, x
  <2>2. /\ n.baseline = 0 /\ n.counter = 0 /\ n.managed = e.managed
        /\ n.unlimited = e.unlimited /\ n.primary = p /\ n.extra = x
        /\ n.ledger = e.ledger
    BY <1>1, <2>1 DEF Entry
  <2>3. n \in Entry
    <3>1. [e EXCEPT !.counter = 0, !.baseline = 0, !.primary = p, !.extra = x] \in Entry
      BY <1>1, <2>0 DEF Entry
    <3> QED BY <2>1, <3>1
  <2>4. ~IsUnlimited(n) BY <1>3, <2>2 DEF IsUnlimited
  <2>5. Used(n) = 0 BY <2>2 DEF Used, Floor
  <2>6. PrimaryLeft(n) = n.primary /\ ExtraLeft(n) = n.extra
    BY <2>0, <2>2, <2>4, <2>5 DEF PrimaryLeft, ExtraLeft, Floor
  <2>7. Good(n) BY <2>2, <2>3, <2>4, <1>1 DEF Good
  <2> QED BY <1>3, <2>2, <2>4, <2>6, <2>7 DEF p, x
<1>4. CASE IsUnlimited(e)
  <2>1. n = [e EXCEPT !.counter = 0] BY <1>4 DEF ResetEntry
  <2>2. /\ n.counter = 0 /\ n.baseline = e.baseline /\ n.managed = e.managed
        /\ n.unlimited = e.unlimited /\ n.ledger = e.ledger
    BY <1>1, <2>1 DEF Entry
  <2>3. n \in Entry BY <1>1, <2>1 DEF Entry
  <2>4. IsUnlimited(n) BY <1>4, <2>2 DEF IsUnlimited
  <2>5. PrimaryLeft(n) = PrimaryLeft(e) /\ ExtraLeft(n) = ExtraLeft(e)
    BY <1>4, <2>4 DEF PrimaryLeft, ExtraLeft
  <2>6. Good(n) BY <1>4, <2>2, <2>3 DEF Good
  <2> QED BY <1>4, <2>2, <2>4, <2>5, <2>6
<1> QED BY <1>3, <1>4

\* Recording an operation under a new id adds it to the history and changes
\* nothing else.
LEMMA RecordCorrect ==
    ASSUME NEW e, Good(e), NEW op \in Operation, ~Performed(e, op.id),
           NEW n, n = RecordQuotaOperation(e, op)
    PROVE  /\ Good(n) /\ (IsUnlimited(n) <=> IsUnlimited(e))
           /\ PrimaryLeft(n) = PrimaryLeft(e) /\ ExtraLeft(n) = ExtraLeft(e)
           /\ n.ledger = Recent(Append(e.ledger, op))
           /\ n.expires = e.expires /\ n.deactivated = e.deactivated
<1> DEFINE s == Recent(Append(e.ledger, op))
<1>1. e \in Entry /\ e.ledger \in Seq(Operation) /\ UniqueIds(e.ledger)
  BY DEF Good, Entry
<1>2. UniqueIds(s) /\ s \in Seq(Operation)
  BY <1>1, RecordKeepsUnique DEF Performed
<1>3. n = [e EXCEPT !.ledger = s]
  BY DEF RecordQuotaOperation
<1> HIDE DEF s
<1>4. /\ n.baseline = e.baseline /\ n.counter = e.counter /\ n.primary = e.primary
      /\ n.extra = e.extra /\ n.managed = e.managed /\ n.unlimited = e.unlimited
      /\ n.ledger = s /\ n.expires = e.expires /\ n.deactivated = e.deactivated
  BY <1>1, <1>3 DEF Entry
<1>5. n \in Entry
  <2>1. [e EXCEPT !.ledger = s] \in Entry BY <1>1, <1>2 DEF Entry
  <2> QED BY <1>3, <2>1
<1>6. IsUnlimited(n) <=> IsUnlimited(e) BY <1>4 DEF IsUnlimited
<1>7. Used(n) = Used(e) BY <1>4 DEF Used
<1>8. PrimaryLeft(n) = PrimaryLeft(e) /\ ExtraLeft(n) = ExtraLeft(e)
  BY <1>4, <1>6, <1>7 DEF PrimaryLeft, ExtraLeft
<1>9. Good(n) BY <1>2, <1>4, <1>5, <1>6 DEF Good
<1> QED BY <1>4, <1>6, <1>8, <1>9 DEF s

\* Any operation that sets the balance and records itself.
LEMMA BalanceAndRecord ==
    ASSUME NEW e, Good(e), NEW p \in Nat, NEW x \in Nat,
           NEW op \in Operation, ~Performed(e, op.id),
           NEW n, n = RecordQuotaOperation(SetQuotaBalance(e, p, x), op)
    PROVE  /\ Good(n) /\ ~IsUnlimited(n) /\ PrimaryLeft(n) = p /\ ExtraLeft(n) = x
           /\ n.ledger = Recent(Append(e.ledger, op))
           /\ n.expires = e.expires /\ n.deactivated = e.deactivated
<1> DEFINE b == SetQuotaBalance(e, p, x)
<1>1. /\ Good(b) /\ ~IsUnlimited(b) /\ PrimaryLeft(b) = p /\ ExtraLeft(b) = x
      /\ b.ledger = e.ledger /\ b.expires = e.expires /\ b.deactivated = e.deactivated
  BY SetQuotaBalanceCorrect
<1>2. n = RecordQuotaOperation(b, op) OBVIOUS
<1> HIDE DEF b
<1>3. ~Performed(b, op.id) BY <1>1 DEF Performed
<1> QED BY <1>1, <1>2, <1>3, RecordCorrect

\* What renew_user carries over, and what it records.
Carried(e) == IF e.expires > now THEN PrimaryLeft(e) ELSE 0

RenewalOperation(e, id, g) ==
    [id |-> id, kind |-> IF e.expires > now THEN "renewal" ELSE "reactivation",
     primary |-> g, extra |-> 0]

\* renew_user: the primary package is what is carried over plus what is
\* granted, the extra one is kept.
LEMMA RenewedCorrect ==
    ASSUME NEW e, Good(e), NEW id \in Ids, ~Performed(e, id),
           NEW t \in Nat, NEW g \in Nat, NEW n, n = RenewedEntry(e, id, t, g)
    PROVE  /\ Good(n) /\ ~IsUnlimited(n)
           /\ PrimaryLeft(n) = Carried(e) + g /\ ExtraLeft(n) = ExtraLeft(e)
           /\ n.ledger = Recent(Append(e.ledger, RenewalOperation(e, id, g)))
           /\ n.expires = t /\ ~n.deactivated
<1>1. PrimaryLeft(e) \in Nat /\ ExtraLeft(e) \in Nat BY QuotaTyped DEF Good
<1>2. Carried(e) + g \in Nat BY <1>1 DEF Carried
<1>3. RenewalOperation(e, id, g) \in Operation /\ RenewalOperation(e, id, g).id = id
  BY DEF Operation, RenewalOperation
<1>4. PICK a : a = SetTerm(e, t, FALSE)
  OBVIOUS
<1>5. Good(a) /\ a.ledger = e.ledger /\ a.expires = t /\ a.deactivated = FALSE
  <2>1. ASSUME NEW off \in BOOLEAN, NEW x, x = SetTerm(e, t, off)
        PROVE  Good(x) /\ x.ledger = e.ledger /\ x.expires = t /\ x.deactivated = off
    BY <2>1, TermIrrelevant
  <2>2. FALSE \in BOOLEAN OBVIOUS
  <2> QED BY <1>4, <2>1, <2>2, Zenon
<1>6. PICK p, x, op : p = Carried(e) + g /\ x = ExtraLeft(e) /\ op = RenewalOperation(e, id, g)
  OBVIOUS
<1>7. n = RecordQuotaOperation(SetQuotaBalance(a, p, x), op)
  BY <1>4, <1>6 DEF RenewedEntry, Carried, RenewalOperation
<1>8. p \in Nat /\ x \in Nat /\ op \in Operation /\ ~Performed(a, op.id)
  BY <1>1, <1>2, <1>3, <1>5, <1>6 DEF Performed
<1>9. /\ Good(n) /\ ~IsUnlimited(n) /\ PrimaryLeft(n) = p /\ ExtraLeft(n) = x
      /\ n.ledger = Recent(Append(a.ledger, op))
      /\ n.expires = a.expires /\ n.deactivated = a.deactivated
  BY <1>5, <1>7, <1>8, BalanceAndRecord
<1> QED BY <1>5, <1>6, <1>9

\* Making a user unlimited, and recording it.
LEMMA UnlimitedAndRecord ==
    ASSUME NEW e, Good(e), NEW op \in Operation, ~Performed(e, op.id),
           NEW n, n = RecordQuotaOperation(SetUnlimited(e), op)
    PROVE  /\ Good(n) /\ IsUnlimited(n) /\ PrimaryLeft(n) = 0 /\ ExtraLeft(n) = 0
           /\ n.ledger = Recent(Append(e.ledger, op))
<1>1. PICK b : b = SetUnlimited(e) OBVIOUS
<1>2. Good(b) /\ IsUnlimited(b) /\ PrimaryLeft(b) = 0 /\ ExtraLeft(b) = 0 /\ b.ledger = e.ledger
  BY <1>1, SetUnlimitedCorrect
<1>3. ~Performed(b, op.id) BY <1>2 DEF Performed
<1>4. n = RecordQuotaOperation(b, op) BY <1>1
<1> QED BY <1>2, <1>3, <1>4, RecordCorrect

InitialGrant(g) ==
    << [id |-> FreshId, kind |-> "initial_grant", primary |-> g, extra |-> 0] >>

\* A new user without a limit.
LEMMA InitialUnlimited ==
    ASSUME NEW t \in Nat, NEW off \in BOOLEAN,
           NEW n, n = WithoutLimit(InitialEntry(t, off))
    PROVE  Good(n) /\ IsUnlimited(n) /\ n.ledger = <<>>
<1>1. <<>> \in Seq(Operation) /\ UniqueIds(<<>>)
  BY DEF UniqueIds
<1>2. PICK e : e = InitialEntry(t, off) OBVIOUS
<1>3. e = [counter |-> 0, managed |-> TRUE, unlimited |-> FALSE, baseline |-> 0,
           primary |-> 0, extra |-> 0, expires |-> t, deactivated |-> off, ledger |-> <<>>]
  BY <1>2 DEF InitialEntry, LegacyEntry
<1>4. e \in Entry /\ e.baseline = 0 /\ e.counter = 0 /\ e.ledger = <<>>
  BY <1>1, <1>3 DEF Entry
<1>5. n = [e EXCEPT !.unlimited = TRUE] BY <1>2 DEF WithoutLimit
<1>6. n \in Entry BY <1>4, <1>5 DEF Entry
<1>7. n.baseline = 0 /\ n.counter = 0 /\ n.ledger = <<>> /\ n.unlimited = TRUE
  BY <1>4, <1>5 DEF Entry
<1>8. IsUnlimited(n) BY <1>7 DEF IsUnlimited
<1> QED BY <1>1, <1>6, <1>7, <1>8 DEF Good

\* A new user with a package has that package left.
LEMMA InitialLimited ==
    ASSUME NEW t \in Nat, NEW off \in BOOLEAN, NEW g \in Nat,
           NEW n, n = WithPackage(InitialEntry(t, off), g)
    PROVE  /\ Good(n) /\ ~IsUnlimited(n) /\ PrimaryLeft(n) = g /\ ExtraLeft(n) = 0
           /\ n.ledger = InitialGrant(g)
<1> DEFINE op == [id |-> FreshId, kind |-> "initial_grant", primary |-> g, extra |-> 0]
<1>1. op \in Operation BY DEF Operation
<1>2. InitialGrant(g) = << op >> BY DEF InitialGrant
<1> HIDE DEF op
<1>3. PICK s : s = InitialGrant(g) OBVIOUS
<1>4. s \in Seq(Operation) /\ UniqueIds(s)
  BY <1>1, <1>2, <1>3 DEF UniqueIds
<1>5. <<>> \in Seq(Operation) OBVIOUS
<1>6. PICK e : e = InitialEntry(t, off) OBVIOUS
<1>7. e = [counter |-> 0, managed |-> TRUE, unlimited |-> FALSE, baseline |-> 0,
           primary |-> 0, extra |-> 0, expires |-> t, deactivated |-> off, ledger |-> <<>>]
  BY <1>6 DEF InitialEntry, LegacyEntry
<1>8. e \in Entry BY <1>5, <1>7 DEF Entry
<1>9. n = [e EXCEPT !.primary = g, !.ledger = s]
  BY <1>3, <1>6 DEF WithPackage, InitialGrant
<1>10. n \in Entry BY <1>4, <1>8, <1>9 DEF Entry
<1>11. /\ n.baseline = 0 /\ n.counter = 0 /\ n.ledger = s /\ n.managed = TRUE
       /\ n.unlimited = FALSE /\ n.primary = g /\ n.extra = 0
  BY <1>7, <1>9
<1>12. ~IsUnlimited(n) BY <1>11 DEF IsUnlimited
<1>13. Used(n) = 0 BY <1>11 DEF Used, Floor
<1>14. PrimaryLeft(n) = g BY <1>11, <1>12, <1>13 DEF PrimaryLeft, Floor
<1>15. ExtraLeft(n) = 0 BY <1>11, <1>12, <1>13 DEF ExtraLeft, Floor
<1> QED BY <1>3, <1>4, <1>10, <1>11, <1>12, <1>14, <1>15 DEF Good

-----------------------------------------------------------------------------
(* The invariant.                                                          *)

AllGood == \A u \in Users : Good(entry[u])

\* Only a server that runs has sessions, and traffic that is not saved yet;
\* and only of users in the database.
ServerMemory ==
    /\ server = "down" => sessions = {} /\ \A u \in Users : unsaved[u] = 0
    /\ \A u \in Users \ registered : unsaved[u] = 0

Inv == TypeOK /\ AllGood /\ ServerMemory /\ SessionsEntitled

\* A transaction that writes good entries keeps the invariant.
LEMMA TransactionSafe ==
    ASSUME Inv, NEW users \in SUBSET Users, NEW entries,
           entries = [u \in Users |-> entries[u]],
           \A u \in Users : Good(entries[u]),
           \A u \in Users \ users : entries[u] = LegacyEntry,
           Transaction(users, entries)
    PROVE  Inv'
<1>1. /\ server = "down" /\ registered' = users /\ entry' = entries
      /\ UNCHANGED <<unsaved, sessions, server, now>>
  BY DEF Transaction, serverVars
<1>2. sessions = {} /\ \A u \in Users : unsaved[u] = 0 BY <1>1 DEF Inv, ServerMemory
<1>3. \A u \in Users : entries[u] \in Entry BY DEF Good
<1>4. entry' \in [Users -> Entry] BY <1>1, <1>3
<1>5. TypeOK' BY <1>1, <1>4 DEF Inv, TypeOK
<1>6. AllGood' BY <1>1 DEF AllGood
<1>7. SessionsEntitled' BY <1>1, <1>2 DEF SessionsEntitled
<1>8. ServerMemory' BY <1>1, <1>2 DEF ServerMemory
<1> QED BY <1>5, <1>6, <1>7, <1>8 DEF Inv

\* So does one that writes a good entry for one user.
LEMMA WriteSafe ==
    ASSUME Inv, NEW u \in registered, NEW e, Good(e), Write(u, e)
    PROVE  Inv'
<1> DEFINE entries == [entry EXCEPT ![u] = e]
<1>1. registered \in SUBSET Users /\ entry \in [Users -> Entry] BY DEF Inv, TypeOK
<1>2. entries = [w \in Users |-> entries[w]] BY <1>1
<1>3. \A w \in Users : entries[w] = IF w = u THEN e ELSE entry[w] BY <1>1
<1>4. \A w \in Users : Good(entry[w]) BY DEF Inv, AllGood
<1>5. \A w \in Users \ registered : entry[w] = LegacyEntry BY DEF Inv, TypeOK
<1>6. Transaction(registered, entries) BY DEF Write
<1> HIDE DEF entries
<1>7. \A w \in Users : Good(entries[w]) BY <1>3, <1>4
<1>8. \A w \in Users \ registered : entries[w] = LegacyEntry BY <1>3, <1>5
<1> QED BY <1>1, <1>2, <1>6, <1>7, <1>8, TransactionSafe

-----------------------------------------------------------------------------
(* What each operation of the panel writes.                                *)

\* The ends of terms that an operation may write are natural numbers.
LEMMA TermsTyped ==
    ASSUME now \in Nat, NEW e \in Entry
    PROVE  /\ FutureTerms \subseteq Nat /\ ParsedTerms \subseteq Nat
           /\ RenewalTerms(e) \subseteq Nat /\ AdjustedTerms(e) \subseteq Nat
<1>1. e.expires \in Nat BY DEF Entry
<1>2. MaxTerm \in Nat BY ConstantsAssumption
<1>3. \A t \in 1 .. MaxTerm : t \in Nat BY <1>2
<1>4. FutureTerms \subseteq Nat BY <1>3 DEF FutureTerms
<1>5. ParsedTerms \subseteq Nat BY <1>4 DEF ParsedTerms
<1>6. RenewalTerms(e) \subseteq Nat BY <1>3, <1>4 DEF RenewalTerms
<1>7. AdjustedTerms(e) \subseteq Nat BY <1>1, <1>5 DEF AdjustedTerms
<1> QED BY <1>4, <1>5, <1>6, <1>7

\* A renewal ends in the future.
LEMMA RenewalTermsAhead ==
    ASSUME now \in Nat, NEW e \in Entry, NEW t \in RenewalTerms(e)
    PROVE  t > now
<1>1. PICK start \in Nat : start = (IF e.expires > now THEN e.expires ELSE now) /\ start >= now
  BY DEF Entry
<1>2. CASE t \in FutureTerms BY <1>2 DEF FutureTerms
<1>3. ASSUME NEW m \in MonthCounts, t = start + Month * m PROVE t > now
  <2>1. m \in Nat \ {0} /\ Month \in Nat \ {0} BY ConstantsAssumption
  <2>2. Month * m \in Nat \ {0} BY <2>1
  <2> QED BY <1>1, <1>3, <2>2
<1> QED BY <1>1, <1>2, <1>3 DEF RenewalTerms

\* n is e after an operation that has been recorded as op.
Recorded(e, n, op) == Good(n) /\ n.ledger = Recent(Append(e.ledger, op))

\* renew_user writes an entry with the packages RenewedCorrect gives it.
LEMMA RenewUserWrites ==
    ASSUME Inv, NEW u \in Users, NEW id \in Ids, NEW g \in Amounts, RenewUser(u, id, g)
    PROVE  /\ u \in registered
           /\ \E n : /\ Write(u, n)
                    /\ Recorded(entry[u], n, RenewalOperation(entry[u], id, g))
                    /\ ~IsUnlimited(n)
                    /\ PrimaryLeft(n) = Carried(entry[u]) + g
                    /\ ExtraLeft(n) = ExtraLeft(entry[u])
                    /\ n.expires > now /\ ~n.deactivated
<1>1. Good(entry[u]) /\ entry[u] \in Entry /\ now \in Nat /\ g \in Nat
  BY ConstantsAssumption DEF Inv, AllGood, Good, TypeOK
<1>2. u \in registered /\ ~Performed(entry[u], id) BY DEF RenewUser
<1>3. PICK t \in RenewalTerms(entry[u]) : Write(u, RenewedEntry(entry[u], id, t, g))
  BY DEF RenewUser
<1>4. t \in Nat /\ t > now BY <1>1, RenewalTermsAhead, TermsTyped
<1>5. PICK e, a, b : e = entry[u] /\ a = t /\ b = g OBVIOUS
<1>6. PICK n : n = RenewedEntry(e, id, a, b) OBVIOUS
<1>7. Good(e) /\ ~Performed(e, id) /\ a \in Nat /\ b \in Nat BY <1>1, <1>2, <1>4, <1>5
<1>8. /\ Good(n) /\ ~IsUnlimited(n)
      /\ PrimaryLeft(n) = Carried(e) + b /\ ExtraLeft(n) = ExtraLeft(e)
      /\ n.ledger = Recent(Append(e.ledger, RenewalOperation(e, id, b)))
      /\ n.expires = a /\ ~n.deactivated
  BY <1>6, <1>7, RenewedCorrect
<1> QED BY <1>2, <1>3, <1>4, <1>5, <1>6, <1>8 DEF Recorded

ExtraOperation(id, n) == [id |-> id, kind |-> "extra_add", primary |-> 0, extra |-> n]

\* add_user_traffic adds to the extra package of a limited user.
LEMMA AddUserTrafficWrites ==
    ASSUME Inv, NEW u \in Users, NEW id \in Ids, NEW m \in Amounts, AddUserTraffic(u, id, m)
    PROVE  /\ u \in registered /\ ~IsUnlimited(entry[u])
           /\ \E n : /\ Write(u, n)
                    /\ Recorded(entry[u], n, ExtraOperation(id, m))
                    /\ ~IsUnlimited(n)
                    /\ PrimaryLeft(n) = PrimaryLeft(entry[u])
                    /\ ExtraLeft(n) = ExtraLeft(entry[u]) + m
<1>1. Good(entry[u]) /\ entry[u] \in Entry /\ m \in Nat
  BY ConstantsAssumption DEF Inv, AllGood, Good
<1>2. u \in registered /\ ~Performed(entry[u], id) /\ ~IsUnlimited(entry[u])
  BY DEF AddUserTraffic
<1>3. PICK p, x, op : /\ p = PrimaryLeft(entry[u]) /\ x = ExtraLeft(entry[u]) + m
                      /\ op = ExtraOperation(id, m)
  OBVIOUS
<1>4. p \in Nat /\ x \in Nat BY <1>1, <1>3, QuotaTyped
<1>5. op \in Operation /\ op.id = id BY <1>1, <1>3 DEF Operation, ExtraOperation
<1>6. PICK n : n = RecordQuotaOperation(SetQuotaBalance(entry[u], p, x), op) OBVIOUS
<1>7. Write(u, n) BY <1>3, <1>6 DEF AddUserTraffic, ExtraOperation
<1>8. /\ Good(n) /\ ~IsUnlimited(n) /\ PrimaryLeft(n) = p /\ ExtraLeft(n) = x
      /\ n.ledger = Recent(Append(entry[u].ledger, op))
  <2>1. ~Performed(entry[u], op.id) BY <1>2, <1>5 DEF Performed
  <2> QED BY <1>1, <1>4, <1>5, <1>6, <2>1, BalanceAndRecord
<1> QED BY <1>2, <1>3, <1>7, <1>8 DEF Recorded

AdjustmentOperation(id, dp, dx) ==
    [id |-> id, kind |-> "manual_adjustment", primary |-> dp, extra |-> dx]

\* n is e after an adjustment of one of the five kinds; the history tells the
\* change of what is left.
Adjustment(e, n, id) ==
    /\ Recorded(e, n, AdjustmentOperation(id, PrimaryLeft(n) - PrimaryLeft(e),
                                          ExtraLeft(n) - ExtraLeft(e)))
    /\ \/ /\ IsUnlimited(n) <=> IsUnlimited(e)
          /\ PrimaryLeft(n) = PrimaryLeft(e) /\ ExtraLeft(n) = ExtraLeft(e)
       \/ IsUnlimited(n) /\ PrimaryLeft(n) = 0 /\ ExtraLeft(n) = 0
       \/ /\ ~IsUnlimited(n)
          /\ \E m \in Amounts :
                \/ PrimaryLeft(n) = PrimaryLeft(e) /\ ExtraLeft(n) = ExtraLeft(e) + m
                \/ /\ m <= PrimaryLeft(e) + ExtraLeft(e)
                   /\ PrimaryLeft(n) = PrimaryLeft(e) - (m - FromExtra(e, m))
                   /\ ExtraLeft(n) = ExtraLeft(e) - FromExtra(e, m)
                \/ PrimaryLeft(n) = m /\ ExtraLeft(n) = 0

\* An adjustment that sets both packages.
LEMMA BalanceAdjusted ==
    ASSUME NEW e, Good(e), NEW id \in Ids, ~Performed(e, id), NEW p \in Nat, NEW x \in Nat,
           NEW dp, dp = p - PrimaryLeft(e), NEW dx, dx = x - ExtraLeft(e),
           NEW n, n = Adjusted(SetQuotaBalance(e, p, x), id, dp, dx)
    PROVE  /\ Recorded(e, n, AdjustmentOperation(id, PrimaryLeft(n) - PrimaryLeft(e),
                                                  ExtraLeft(n) - ExtraLeft(e)))
           /\ ~IsUnlimited(n) /\ PrimaryLeft(n) = p /\ ExtraLeft(n) = x
<1>1. PICK op : op = AdjustmentOperation(id, dp, dx) OBVIOUS
<1>2. PrimaryLeft(e) \in Nat /\ ExtraLeft(e) \in Nat BY QuotaTyped DEF Good
<1>3. dp \in Int /\ dx \in Int BY <1>2
<1>4. op \in Operation /\ op.id = id BY <1>1, <1>3 DEF Operation, AdjustmentOperation
<1>5. n = RecordQuotaOperation(SetQuotaBalance(e, p, x), op)
  BY <1>1 DEF Adjusted, AdjustmentOperation
<1>6. ~Performed(e, op.id) BY <1>4 DEF Performed
<1>7. /\ Good(n) /\ ~IsUnlimited(n) /\ PrimaryLeft(n) = p /\ ExtraLeft(n) = x
      /\ n.ledger = Recent(Append(e.ledger, op))
  BY <1>4, <1>5, <1>6, BalanceAndRecord
<1> QED BY <1>1, <1>7 DEF Recorded

\* adjust_user_plan is an adjustment of one of the five kinds.
LEMMA AdjustUserPlanWrites ==
    ASSUME Inv, NEW u \in Users, NEW id \in Ids, AdjustUserPlan(u, id)
    PROVE  /\ u \in registered
           /\ \E n : Write(u, n) /\ Adjustment(entry[u], n, id)
<1>1. PICK f : f = entry[u] OBVIOUS
<1>2. Good(f) /\ f \in Entry /\ now \in Nat BY <1>1 DEF Inv, AllGood, Good, TypeOK
<1>3. u \in registered /\ ~Performed(f, id) BY <1>1 DEF AdjustUserPlan
<1>4. PICK t, e :
        /\ t \in AdjustedTerms(f)
        /\ e = SetTerm(f, t, f.deactivated)
        /\ \/ Write(u, KeepTraffic(e, id))
           \/ Write(u, MakeUnlimited(e, id))
           \/ \E m \in Amounts :
                 \/ Write(u, AddPackage(e, id, m))
                 \/ m <= PrimaryLeft(e) + ExtraLeft(e) /\ Write(u, SubtractPackage(e, id, m))
                 \/ Write(u, SetPackage(e, id, m))
  BY <1>1 DEF AdjustUserPlan
<1>5. t \in Nat /\ f.deactivated \in BOOLEAN BY <1>2, <1>4, TermsTyped DEF Entry
<1>6. /\ Good(e) /\ (IsUnlimited(e) <=> IsUnlimited(f)) /\ e.ledger = f.ledger
      /\ PrimaryLeft(e) = PrimaryLeft(f) /\ ExtraLeft(e) = ExtraLeft(f)
  BY <1>2, <1>4, <1>5, TermIrrelevant
<1>7. ~Performed(e, id) BY <1>3, <1>6 DEF Performed
<1>8. PrimaryLeft(e) \in Nat /\ ExtraLeft(e) \in Nat BY <1>6, QuotaTyped DEF Good
<1>9. SUFFICES \E n : Write(u, n) /\ Adjustment(e, n, id)
  BY <1>1, <1>3, <1>6 DEF Adjustment, Recorded, FromExtra
<1>10. CASE Write(u, KeepTraffic(e, id))
  <2>1. PICK n : n = KeepTraffic(e, id) OBVIOUS
  <2>2. PICK op : op = AdjustmentOperation(id, 0, 0) OBVIOUS
  <2>3. op \in Operation /\ op.id = id BY <2>2 DEF Operation, AdjustmentOperation
  <2>4. n = RecordQuotaOperation(e, op)
    BY <2>1, <2>2 DEF KeepTraffic, Adjusted, AdjustmentOperation
  <2>5. ~Performed(e, op.id) BY <1>7, <2>3 DEF Performed
  <2>6. /\ Good(n) /\ (IsUnlimited(n) <=> IsUnlimited(e))
        /\ PrimaryLeft(n) = PrimaryLeft(e) /\ ExtraLeft(n) = ExtraLeft(e)
        /\ n.ledger = Recent(Append(e.ledger, op))
    BY <1>6, <2>3, <2>4, <2>5, RecordCorrect
  <2>7. PrimaryLeft(n) - PrimaryLeft(e) = 0 /\ ExtraLeft(n) - ExtraLeft(e) = 0
    BY <1>8, <2>6
  <2>8. Adjustment(e, n, id)
    BY <2>2, <2>6, <2>7 DEF Adjustment, Recorded
  <2> QED BY <1>10, <2>1, <2>8
<1>11. CASE Write(u, MakeUnlimited(e, id))
  <2>1. PICK n : n = MakeUnlimited(e, id) OBVIOUS
  <2>2. PICK op : op = AdjustmentOperation(id, -PrimaryLeft(e), -ExtraLeft(e)) OBVIOUS
  <2>3. -PrimaryLeft(e) \in Int /\ -ExtraLeft(e) \in Int BY <1>8
  <2>4. op \in Operation /\ op.id = id BY <2>2, <2>3 DEF Operation, AdjustmentOperation
  <2>5. n = RecordQuotaOperation(SetUnlimited(e), op)
    BY <2>1, <2>2 DEF MakeUnlimited, Adjusted, AdjustmentOperation
  <2>6. ~Performed(e, op.id) BY <1>7, <2>4 DEF Performed
  <2>7. /\ Good(n) /\ IsUnlimited(n) /\ PrimaryLeft(n) = 0 /\ ExtraLeft(n) = 0
        /\ n.ledger = Recent(Append(e.ledger, op))
    BY <1>6, <2>4, <2>5, <2>6, UnlimitedAndRecord
  <2>8. /\ PrimaryLeft(n) - PrimaryLeft(e) = -PrimaryLeft(e)
        /\ ExtraLeft(n) - ExtraLeft(e) = -ExtraLeft(e)
    BY <1>8, <2>7
  <2>9. Adjustment(e, n, id)
    BY <2>2, <2>7, <2>8 DEF Adjustment, Recorded
  <2> QED BY <1>11, <2>1, <2>9
<1>12. ASSUME NEW m \in Amounts, Write(u, AddPackage(e, id, m))
       PROVE  \E n : Write(u, n) /\ Adjustment(e, n, id)
  <2>0. m \in Nat BY ConstantsAssumption
  <2>1. PICK n, p, x, dp, dx :
          /\ n = AddPackage(e, id, m) /\ p = PrimaryLeft(e) /\ x = ExtraLeft(e) + m
          /\ dp = 0 /\ dx = m
    OBVIOUS
  <2>2. p \in Nat /\ x \in Nat /\ dp = p - PrimaryLeft(e) /\ dx = x - ExtraLeft(e)
    BY <1>8, <2>0, <2>1
  <2>3. n = Adjusted(SetQuotaBalance(e, p, x), id, dp, dx) BY <2>1 DEF AddPackage
  <2>4. /\ Recorded(e, n, AdjustmentOperation(id, PrimaryLeft(n) - PrimaryLeft(e),
                                              ExtraLeft(n) - ExtraLeft(e)))
        /\ ~IsUnlimited(n) /\ PrimaryLeft(n) = p /\ ExtraLeft(n) = x
    BY <1>6, <1>7, <2>2, <2>3, BalanceAdjusted
  <2>5. Adjustment(e, n, id) BY <2>1, <2>4 DEF Adjustment
  <2> QED BY <1>12, <2>1, <2>5
<1>13. ASSUME NEW m \in Amounts, m <= PrimaryLeft(e) + ExtraLeft(e),
              Write(u, SubtractPackage(e, id, m))
       PROVE  \E n : Write(u, n) /\ Adjustment(e, n, id)
  <2>0. m \in Nat BY ConstantsAssumption
  <2>1. PICK n, p, x, dp, dx :
          /\ n = SubtractPackage(e, id, m)
          /\ p = PrimaryLeft(e) - (m - FromExtra(e, m)) /\ x = ExtraLeft(e) - FromExtra(e, m)
          /\ dp = -(m - FromExtra(e, m)) /\ dx = -FromExtra(e, m)
    OBVIOUS
  <2>2. FromExtra(e, m) \in Nat /\ FromExtra(e, m) <= m /\ FromExtra(e, m) <= ExtraLeft(e)
        /\ m - FromExtra(e, m) <= PrimaryLeft(e)
    BY <1>8, <1>13, <2>0 DEF FromExtra
  <2>3. p \in Nat /\ x \in Nat /\ dp = p - PrimaryLeft(e) /\ dx = x - ExtraLeft(e)
    BY <1>8, <2>0, <2>1, <2>2
  <2>4. n = Adjusted(SetQuotaBalance(e, p, x), id, dp, dx) BY <2>1 DEF SubtractPackage
  <2>5. /\ Recorded(e, n, AdjustmentOperation(id, PrimaryLeft(n) - PrimaryLeft(e),
                                              ExtraLeft(n) - ExtraLeft(e)))
        /\ ~IsUnlimited(n) /\ PrimaryLeft(n) = p /\ ExtraLeft(n) = x
    BY <1>6, <1>7, <2>3, <2>4, BalanceAdjusted
  <2>6. Adjustment(e, n, id) BY <1>13, <2>1, <2>5 DEF Adjustment
  <2> QED BY <1>13, <2>1, <2>6
<1>14. ASSUME NEW m \in Amounts, Write(u, SetPackage(e, id, m))
       PROVE  \E n : Write(u, n) /\ Adjustment(e, n, id)
  <2>0. m \in Nat BY ConstantsAssumption
  <2>1. PICK n, p, x, dp, dx :
          /\ n = SetPackage(e, id, m) /\ p = m /\ x = 0
          /\ dp = m - PrimaryLeft(e) /\ dx = -ExtraLeft(e)
    OBVIOUS
  <2>2. p \in Nat /\ x \in Nat /\ dp = p - PrimaryLeft(e) /\ dx = x - ExtraLeft(e)
    BY <1>8, <2>0, <2>1
  <2>3. n = Adjusted(SetQuotaBalance(e, p, x), id, dp, dx) BY <2>1 DEF SetPackage
  <2>4. /\ Recorded(e, n, AdjustmentOperation(id, PrimaryLeft(n) - PrimaryLeft(e),
                                              ExtraLeft(n) - ExtraLeft(e)))
        /\ ~IsUnlimited(n) /\ PrimaryLeft(n) = p /\ ExtraLeft(n) = x
    BY <1>6, <1>7, <2>2, <2>3, BalanceAdjusted
  <2>5. Adjustment(e, n, id) BY <2>1, <2>4 DEF Adjustment
  <2> QED BY <1>14, <2>1, <2>5
<1> QED BY <1>4, <1>10, <1>11, <1>12, <1>13, <1>14

\* The entries after S have got the entry n.
WithNew(S, n) == [u \in Users |-> IF u \in S THEN n ELSE entry[u]]

\* create_user and create_users_bulk write the entry of new users, with or
\* without a limit.
LEMMA CreateUsersWrites ==
    ASSUME Inv, NEW S \in SUBSET Users, NEW t \in ParsedTerms, NEW off \in BOOLEAN,
           CreateUsers(S, t, off)
    PROVE  /\ S \cap registered = {}
           /\ \E n : /\ Transaction(registered \cup S, WithNew(S, n))
                    /\ Good(n)
                    /\ \/ IsUnlimited(n) /\ n.ledger = <<>>
                       \/ \E g \in Amounts : /\ ~IsUnlimited(n)
                                             /\ PrimaryLeft(n) = g /\ ExtraLeft(n) = 0
                                             /\ n.ledger = InitialGrant(g)
<1>1. t \in Nat
  <2>1. LegacyEntry \in Entry /\ now \in Nat BY LegacyGood DEF Good, Inv, TypeOK
  <2> QED BY <2>1, TermsTyped
<1>2. S \cap registered = {} BY DEF CreateUsers
<1>3. PICK n : /\ Transaction(registered \cup S, WithNew(S, n))
               /\ \/ n = WithoutLimit(InitialEntry(t, off))
                  \/ \E g \in Amounts : n = WithPackage(InitialEntry(t, off), g)
  BY DEF CreateUsers, WithNew
<1>4. CASE n = WithoutLimit(InitialEntry(t, off))
  <2>1. Good(n) /\ IsUnlimited(n) /\ n.ledger = <<>> BY <1>1, <1>4, InitialUnlimited
  <2> QED BY <1>2, <1>3, <2>1
<1>5. ASSUME NEW g \in Amounts, n = WithPackage(InitialEntry(t, off), g)
      PROVE  /\ Good(n) /\ ~IsUnlimited(n) /\ PrimaryLeft(n) = g /\ ExtraLeft(n) = 0
             /\ n.ledger = InitialGrant(g)
  <2>1. g \in Nat BY ConstantsAssumption
  <2> QED BY <1>1, <1>5, <2>1, InitialLimited
<1> QED BY <1>2, <1>3, <1>4, <1>5

\* What update_user makes of the packages: nothing new, no limit, or a new
\* primary package.
Edited(e, n) ==
    /\ Good(n) /\ n.ledger = e.ledger
    /\ \/ /\ IsUnlimited(n) <=> IsUnlimited(e)
          /\ PrimaryLeft(n) = PrimaryLeft(e) /\ ExtraLeft(n) = ExtraLeft(e)
       \/ IsUnlimited(n) /\ PrimaryLeft(n) = 0 /\ ExtraLeft(n) = 0
       \/ ~IsUnlimited(n) /\ PrimaryLeft(n) \in Amounts /\ ExtraLeft(n) = ExtraLeft(e)

Moved(u, v, n) ==
    [w \in Users |-> IF w = v THEN n ELSE IF w = u THEN LegacyEntry ELSE entry[w]]

\* update_user edits the entry, and may move it to another password.
LEMMA UpdateUserWrites ==
    ASSUME Inv, NEW u \in Users, NEW v \in Users, NEW off \in BOOLEAN,
           NEW t \in ParsedTerms \cup {entry[u].expires}, UpdateUser(u, v, t, off)
    PROVE  /\ u \in registered /\ (u # v => v \notin registered)
           /\ \E n : /\ Transaction((registered \ {u}) \cup {v}, Moved(u, v, n))
                    /\ Edited(entry[u], n)
<1>1. PICK f : f = entry[u] OBVIOUS
<1>2. Good(f) /\ f \in Entry /\ now \in Nat BY <1>1 DEF Inv, AllGood, Good, TypeOK
<1>3. t \in Nat BY <1>1, <1>2, TermsTyped DEF Entry
<1>4. u \in registered /\ (u # v => v \notin registered) BY DEF UpdateUser
<1>5. PICK e : e = SetTerm(f, t, off) OBVIOUS
<1>6. /\ Good(e) /\ (IsUnlimited(e) <=> IsUnlimited(f)) /\ e.ledger = f.ledger
      /\ PrimaryLeft(e) = PrimaryLeft(f) /\ ExtraLeft(e) = ExtraLeft(f)
  BY <1>2, <1>3, <1>5, TermIrrelevant
<1>7. PICK n : /\ Transaction((registered \ {u}) \cup {v}, Moved(u, v, n))
               /\ \/ n = e
                  \/ n = SetUnlimited(e)
                  \/ \E g \in Amounts : n = SetQuotaBalance(e, g, ExtraLeft(e))
  <2>1. \E new \in {e, SetUnlimited(e)}
                    \cup {SetQuotaBalance(e, g, ExtraLeft(e)) : g \in Amounts} :
           Transaction((registered \ {u}) \cup {v}, Moved(u, v, new))
    BY <1>1, <1>5 DEF UpdateUser, Moved
  <2> QED BY <2>1
<1>8. CASE n = e
  <2>1. Edited(f, n) BY <1>6, <1>8 DEF Edited
  <2> QED BY <1>1, <1>4, <1>7, <2>1
<1>9. CASE n = SetUnlimited(e)
  <2>1. /\ Good(n) /\ IsUnlimited(n) /\ PrimaryLeft(n) = 0 /\ ExtraLeft(n) = 0
        /\ n.ledger = e.ledger
    BY <1>6, <1>9, SetUnlimitedCorrect
  <2>2. Edited(f, n) BY <1>6, <2>1 DEF Edited
  <2> QED BY <1>1, <1>4, <1>7, <2>2
<1>10. ASSUME NEW g \in Amounts, n = SetQuotaBalance(e, g, ExtraLeft(e))
       PROVE  Edited(f, n)
  <2>1. g \in Nat /\ ExtraLeft(e) \in Nat BY <1>6, QuotaTyped, ConstantsAssumption DEF Good
  <2>2. PICK p \in Nat, x \in Nat : p = g /\ x = ExtraLeft(e) BY <2>1
  <2>3. n = SetQuotaBalance(e, p, x) BY <1>10, <2>2
  <2>4. /\ Good(n) /\ ~IsUnlimited(n) /\ PrimaryLeft(n) = p /\ ExtraLeft(n) = x
        /\ n.ledger = e.ledger
    BY <1>6, <2>3, SetQuotaBalanceCorrect
  <2> QED BY <1>6, <2>2, <2>4 DEF Edited
<1> QED BY <1>1, <1>4, <1>7, <1>8, <1>9, <1>10

\* What the operations write that leave every package as it is.
QuotaKept(e, n) ==
    /\ Good(n) /\ n.ledger = e.ledger
    /\ IsUnlimited(n) <=> IsUnlimited(e)
    /\ PrimaryLeft(n) = PrimaryLeft(e) /\ ExtraLeft(n) = ExtraLeft(e)

\* reset_traffic and the bulk actions on term and access leave the packages
\* of every user as they are.
LEMMA BulkActionsKeep ==
    ASSUME Inv, NEW S \in SUBSET registered,
           \/ ResetTraffic(S)
           \/ \E off \in BOOLEAN : SetDeactivated(S, off)
           \/ \E t \in FutureTerms : SetExpiration(S, t)
    PROVE  \E f : /\ Transaction(registered, [u \in Users |-> IF u \in S THEN f[u] ELSE entry[u]])
                 /\ \A u \in S : QuotaKept(entry[u], f[u])
<1>1. S \subseteq Users /\ \A u \in S : Good(entry[u]) BY DEF Inv, AllGood, TypeOK
<1>2. CASE ResetTraffic(S)
  <2>1. PICK f : f = [u \in S |-> ResetEntry(entry[u])] OBVIOUS
  <2>2. \A u \in S : f[u] = ResetEntry(entry[u]) BY <2>1
  <2>3. [u \in Users |-> IF u \in S THEN f[u] ELSE entry[u]]
        = [u \in Users |-> IF u \in S THEN ResetEntry(entry[u]) ELSE entry[u]]
    BY <2>2
  <2>4. ASSUME NEW u \in S PROVE QuotaKept(entry[u], f[u])
    <3>1. PICK e, n : e = entry[u] /\ n = f[u] OBVIOUS
    <3>2. Good(e) /\ n = ResetEntry(e) BY <1>1, <2>2, <3>1
    <3>3. QuotaKept(e, n) BY <3>2, ResetEntryCorrect DEF QuotaKept
    <3> QED BY <3>1, <3>3
  <2> QED BY <1>2, <2>3, <2>4 DEF ResetTraffic
<1>3. ASSUME NEW off \in BOOLEAN, SetDeactivated(S, off)
      PROVE  \E f : /\ Transaction(registered,
                         [u \in Users |-> IF u \in S THEN f[u] ELSE entry[u]])
                   /\ \A u \in S : QuotaKept(entry[u], f[u])
  <2>1. PICK f : f = [u \in S |-> SetTerm(entry[u], entry[u].expires, off)] OBVIOUS
  <2>2. \A u \in S : f[u] = SetTerm(entry[u], entry[u].expires, off) BY <2>1
  <2>3. [u \in Users |-> IF u \in S THEN f[u] ELSE entry[u]]
        = [u \in Users |-> IF u \in S THEN SetTerm(entry[u], entry[u].expires, off)
                            ELSE entry[u]]
    BY <2>2
  <2>4. ASSUME NEW u \in S PROVE QuotaKept(entry[u], f[u])
    <3>1. PICK e, n, t : e = entry[u] /\ n = f[u] /\ t = entry[u].expires OBVIOUS
    <3>2. Good(e) /\ n = SetTerm(e, t, off) /\ t \in Nat
      BY <1>1, <2>2, <3>1 DEF Good, Entry
    <3>3. QuotaKept(e, n) BY <3>2, TermIrrelevant DEF QuotaKept
    <3> QED BY <3>1, <3>3
  <2> QED BY <1>3, <2>3, <2>4 DEF SetDeactivated
<1>4. ASSUME NEW t \in FutureTerms, SetExpiration(S, t)
      PROVE  \E f : /\ Transaction(registered,
                         [u \in Users |-> IF u \in S THEN f[u] ELSE entry[u]])
                   /\ \A u \in S : QuotaKept(entry[u], f[u])
  <2>0. t \in Nat BY ConstantsAssumption DEF FutureTerms
  <2>1. PICK f : f = [u \in S |-> SetTerm(entry[u], t, entry[u].deactivated)] OBVIOUS
  <2>2. \A u \in S : f[u] = SetTerm(entry[u], t, entry[u].deactivated) BY <2>1
  <2>3. [u \in Users |-> IF u \in S THEN f[u] ELSE entry[u]]
        = [u \in Users |-> IF u \in S THEN SetTerm(entry[u], t, entry[u].deactivated)
                            ELSE entry[u]]
    BY <2>2
  <2>4. ASSUME NEW u \in S PROVE QuotaKept(entry[u], f[u])
    <3>1. PICK e, n, off : e = entry[u] /\ n = f[u] /\ off = entry[u].deactivated OBVIOUS
    <3>2. Good(e) /\ n = SetTerm(e, t, off) /\ off \in BOOLEAN
      BY <1>1, <2>2, <3>1 DEF Good, Entry
    <3>3. QuotaKept(e, n) BY <2>0, <3>2, TermIrrelevant DEF QuotaKept
    <3> QED BY <3>1, <3>3
  <2> QED BY <1>4, <2>3, <2>4 DEF SetExpiration
<1> QED BY <1>2, <1>3, <1>4

-----------------------------------------------------------------------------
(* The invariant holds.                                                    *)

\* A transaction that gives some users good entries keeps the invariant, if
\* they are users afterwards.
LEMMA BulkSafe ==
    ASSUME Inv, NEW S \in SUBSET registered, NEW f, \A u \in S : Good(f[u]),
           Transaction(registered, [u \in Users |-> IF u \in S THEN f[u] ELSE entry[u]])
    PROVE  Inv'
<1>1. PICK entries : entries = [u \in Users |-> IF u \in S THEN f[u] ELSE entry[u]]
  OBVIOUS
<1>2. entries = [u \in Users |-> entries[u]] BY <1>1
<1>3. \A u \in Users : entries[u] = IF u \in S THEN f[u] ELSE entry[u] BY <1>1
<1>4. \A u \in Users : Good(entry[u]) BY DEF Inv, AllGood
<1>5. \A u \in Users : Good(entries[u]) BY <1>3, <1>4
<1>6. \A u \in Users \ registered : entries[u] = LegacyEntry
  BY <1>3 DEF Inv, TypeOK
<1>7. registered \in SUBSET Users BY DEF Inv, TypeOK
<1> QED BY <1>1, <1>2, <1>5, <1>6, <1>7, TransactionSafe

\* An operation of the panel keeps the invariant.
LEMMA PanelStepSafe == ASSUME Inv, PanelStep PROVE Inv'
<1>1. ASSUME NEW S \in SUBSET Users, NEW t \in ParsedTerms, NEW off \in BOOLEAN,
             CreateUsers(S, t, off)
      PROVE  Inv'
  <2>1. PICK n : Transaction(registered \cup S, WithNew(S, n)) /\ Good(n)
    BY <1>1, CreateUsersWrites
  <2>2. PICK entries : entries = WithNew(S, n) OBVIOUS
  <2>3. entries = [w \in Users |-> entries[w]] BY <2>2 DEF WithNew
  <2>4. \A w \in Users : entries[w] = IF w \in S THEN n ELSE entry[w] BY <2>2 DEF WithNew
  <2>5. \A w \in Users : Good(entry[w]) BY DEF Inv, AllGood
  <2>6. \A w \in Users : Good(entries[w]) BY <2>1, <2>4, <2>5
  <2>7. \A w \in Users \ (registered \cup S) : entries[w] = LegacyEntry
    BY <2>4 DEF Inv, TypeOK
  <2>8. registered \cup S \in SUBSET Users BY DEF Inv, TypeOK
  <2> QED BY <2>1, <2>2, <2>3, <2>6, <2>7, <2>8, TransactionSafe
<1>2. ASSUME NEW u \in Users, NEW v \in Users, NEW off \in BOOLEAN,
             NEW t \in ParsedTerms \cup {entry[u].expires}, UpdateUser(u, v, t, off)
      PROVE  Inv'
  <2>1. PICK n : /\ Transaction((registered \ {u}) \cup {v}, Moved(u, v, n))
                 /\ Edited(entry[u], n)
    BY <1>2, UpdateUserWrites
  <2>2. PICK entries : entries = Moved(u, v, n) OBVIOUS
  <2>3. entries = [w \in Users |-> entries[w]] BY <2>2 DEF Moved
  <2>4. \A w \in Users :
           entries[w] = IF w = v THEN n ELSE IF w = u THEN LegacyEntry ELSE entry[w]
    BY <2>2 DEF Moved
  <2>5. \A w \in Users : Good(entry[w]) BY DEF Inv, AllGood
  <2>6. \A w \in Users : Good(entries[w]) BY <2>1, <2>4, <2>5, LegacyGood DEF Edited
  <2>7. \A w \in Users \ ((registered \ {u}) \cup {v}) : entries[w] = LegacyEntry
    BY <2>4 DEF Inv, TypeOK
  <2>8. (registered \ {u}) \cup {v} \in SUBSET Users BY DEF Inv, TypeOK
  <2> QED BY <2>1, <2>2, <2>3, <2>6, <2>7, <2>8, TransactionSafe
<1>3. ASSUME NEW S \in SUBSET registered, DeleteUsers(S)
      PROVE  Inv'
  <2>1. PICK entries : entries = [u \in Users |-> IF u \in S THEN LegacyEntry ELSE entry[u]]
    OBVIOUS
  <2>2. entries = [u \in Users |-> entries[u]] BY <2>1
  <2>3. \A u \in Users : entries[u] = IF u \in S THEN LegacyEntry ELSE entry[u] BY <2>1
  <2>4. \A u \in Users : Good(entry[u]) BY DEF Inv, AllGood
  <2>5. \A u \in Users : Good(entries[u]) BY <2>3, <2>4, LegacyGood
  <2>6. \A u \in Users \ (registered \ S) : entries[u] = LegacyEntry
    BY <2>3 DEF Inv, TypeOK
  <2>7. registered \ S \in SUBSET Users BY DEF Inv, TypeOK
  <2> QED BY <1>3, <2>1, <2>2, <2>5, <2>6, <2>7, TransactionSafe DEF DeleteUsers
<1>4. ASSUME NEW S \in SUBSET registered,
             \/ ResetTraffic(S)
             \/ \E off \in BOOLEAN : SetDeactivated(S, off)
             \/ \E t \in FutureTerms : SetExpiration(S, t)
      PROVE  Inv'
  BY <1>4, BulkActionsKeep, BulkSafe DEF QuotaKept
<1>5. ASSUME NEW u \in Users, NEW id \in Ids, NEW g \in Amounts, RenewUser(u, id, g)
      PROVE  Inv'
  BY <1>5, RenewUserWrites, WriteSafe DEF Recorded
<1>6. ASSUME NEW u \in Users, NEW id \in Ids, NEW m \in Amounts, AddUserTraffic(u, id, m)
      PROVE  Inv'
  BY <1>6, AddUserTrafficWrites, WriteSafe DEF Recorded
<1>7. ASSUME NEW u \in Users, NEW id \in Ids, AdjustUserPlan(u, id)
      PROVE  Inv'
  BY <1>7, AdjustUserPlanWrites, WriteSafe DEF Adjustment, Recorded
<1> QED BY <1>1, <1>2, <1>3, <1>4, <1>5, <1>6, <1>7 DEF PanelStep

\* What the server works out depends on its copy of the entry alone, and
\* counting traffic changes nothing of the entry but the counter.
LEMMA CountedCorrect ==
    ASSUME NEW u \in Users, Good(entry[u]), NEW m \in Nat, NEW n, n = Counted(u, m)
    PROVE  /\ Good(n) /\ n.counter = entry[u].counter + m
           /\ n.baseline = entry[u].baseline /\ n.managed = entry[u].managed
           /\ n.unlimited = entry[u].unlimited /\ n.primary = entry[u].primary
           /\ n.extra = entry[u].extra /\ n.deactivated = entry[u].deactivated
           /\ n.ledger = entry[u].ledger
<1>1. PICK e : e = entry[u] OBVIOUS
<1>2. Good(e) /\ e \in Entry /\ e.counter \in Nat /\ e.baseline \in Nat
  BY <1>1 DEF Good, Entry
<1>3. n = [e EXCEPT !.counter = @ + m] BY <1>1 DEF Counted
<1>4. /\ n.counter = e.counter + m
      /\ n.baseline = e.baseline /\ n.managed = e.managed
      /\ n.unlimited = e.unlimited /\ n.primary = e.primary
      /\ n.extra = e.extra /\ n.deactivated = e.deactivated
      /\ n.ledger = e.ledger
  BY <1>2, <1>3 DEF Entry
<1>5. n \in Entry BY <1>2, <1>3 DEF Entry
<1>6. e.baseline <= n.counter BY <1>2, <1>4 DEF Good
<1>7. Good(n) BY <1>2, <1>4, <1>5, <1>6 DEF Good, IsUnlimited
<1> QED BY <1>1, <1>4, <1>7

\* A step of the server or the clock keeps the invariant.
LEMMA ServerStepSafe == ASSUME Inv, ServerStep \/ Tick \/ UNCHANGED vars PROVE Inv'
<1> USE DEF Inv
<1>1. CASE StartService
  BY <1>1 DEF StartService, TypeOK, AllGood, ServerMemory, SessionsEntitled, InMemory, Counted
<1>2. CASE StopService
  BY <1>2 DEF StopService, TypeOK, AllGood, ServerMemory, SessionsEntitled
<1>3. ASSUME NEW u \in Users, Connect(u) PROVE Inv'
  <2>1. /\ server = "up" /\ u \in registered /\ sessions' = sessions \cup {u}
        /\ ~AccessRestricted(InMemory(u))
        /\ UNCHANGED <<registered, entry, unsaved, server, now>>
    BY <1>3 DEF Connect
  <2>2. /\ ~InMemory(u).deactivated /\ ~ServerExhausted(InMemory(u))
    BY <2>1 DEF AccessRestricted
  <2>3. InMemory(u).deactivated = entry[u].deactivated
    BY CountedCorrect DEF InMemory, TypeOK, AllGood
  <2>4. SessionsEntitled' BY <2>1, <2>2, <2>3 DEF SessionsEntitled, InMemory, Counted
  <2> QED BY <2>1, <2>4 DEF TypeOK, AllGood, ServerMemory
<1>4. ASSUME NEW u \in Users, NEW n \in Amounts \ {0}, Transfer(u, n) PROVE Inv'
  <2>1. /\ u \in sessions /\ unsaved' = [unsaved EXCEPT ![u] = @ + n]
        /\ sessions' \subseteq sessions
        /\ u \in sessions' => ~ServerExhausted(Counted(u, unsaved[u] + n))
        /\ UNCHANGED <<registered, entry, server, now>>
    BY <1>4 DEF Transfer
  <2>2. u \in registered /\ n \in Nat BY <2>1, ConstantsAssumption DEF SessionsEntitled
  <2>3. /\ unsaved' \in [Users -> Nat] /\ unsaved'[u] = unsaved[u] + n
        /\ \A w \in Users : w # u => unsaved'[w] = unsaved[w]
    BY <2>1, <2>2 DEF TypeOK
  <2>4. TypeOK' BY <2>1, <2>3 DEF TypeOK
  <2>5. ServerMemory' BY <2>1, <2>2, <2>3 DEF ServerMemory, TypeOK
  <2>6. ASSUME NEW w \in sessions'
        PROVE  (w \in registered /\ ~entry[w].deactivated /\ ~ServerExhausted(InMemory(w)))'
    <3>1. w \in sessions /\ w \in Users BY <2>1 DEF TypeOK
    <3>2. CASE w = u
      BY <2>1, <2>3, <3>1, <3>2 DEF SessionsEntitled, InMemory, Counted
    <3>3. CASE w # u
      BY <2>1, <2>3, <3>1, <3>3 DEF SessionsEntitled, InMemory, Counted
    <3> QED BY <3>2, <3>3
  <2>7. SessionsEntitled' BY <2>6 DEF SessionsEntitled
  <2> QED BY <2>1, <2>4, <2>5, <2>7 DEF AllGood
<1>5. CASE EnforceRestrictions
  <2>1. /\ sessions' \subseteq sessions
        /\ UNCHANGED <<registered, entry, unsaved, server, now>>
    BY <1>5 DEF EnforceRestrictions
  <2>2. SessionsEntitled' BY <2>1 DEF SessionsEntitled, InMemory, Counted
  <2> QED BY <2>1, <2>2 DEF TypeOK, AllGood, ServerMemory
<1>6. CASE SaveCounters
  <2>1. /\ entry' = [u \in Users |-> Counted(u, unsaved[u])]
        /\ unsaved' = [u \in Users |-> 0]
        /\ UNCHANGED <<registered, sessions, server, now>>
    BY <1>6 DEF SaveCounters, InMemory
  <2>2. \A u \in Users : unsaved[u] \in Nat /\ Good(entry[u]) BY DEF TypeOK, AllGood
  <2>3. \A u \in Users : entry'[u] = Counted(u, unsaved[u]) BY <2>1
  <2>4. \A u \in Users : Good(entry'[u]) BY <2>2, <2>3, CountedCorrect
  <2>5. AllGood' BY <2>4 DEF AllGood
  <2>6. entry' \in [Users -> Entry] BY <2>1, <2>3, <2>4 DEF Good
  <2>7. ASSUME NEW u \in Users \ registered PROVE entry'[u] = LegacyEntry
    <3>1. unsaved[u] = 0 /\ entry[u] = LegacyEntry BY DEF ServerMemory, TypeOK
    <3>2. Counted(u, 0) = [LegacyEntry EXCEPT !.counter = 0]
      BY <3>1 DEF Counted, LegacyEntry
    <3>3. [LegacyEntry EXCEPT !.counter = 0] = LegacyEntry BY DEF LegacyEntry
    <3> QED BY <2>3, <3>1, <3>2, <3>3
  <2>8. TypeOK' BY <2>1, <2>6, <2>7 DEF TypeOK
  <2>9. ASSUME NEW u \in sessions
        PROVE  ~entry'[u].deactivated /\ ~ServerExhausted(InMemory(u))'
    <3>1. u \in Users /\ ~entry[u].deactivated /\ ~ServerExhausted(InMemory(u))
      BY DEF TypeOK, SessionsEntitled
    <3>2. PICK a : a = Counted(u, unsaved[u]) OBVIOUS
    <3>3. Good(a) /\ a \in Entry /\ a.deactivated = entry[u].deactivated
      BY <2>2, <3>1, <3>2, CountedCorrect DEF Good
    <3>4. InMemory(u)' = [a EXCEPT !.counter = @ + 0]
      BY <2>1, <2>3, <3>1, <3>2 DEF InMemory, Counted
    <3>5. [a EXCEPT !.counter = @ + 0] = a BY <3>3 DEF Entry
    <3>6. ServerExhausted(InMemory(u))' <=> ServerExhausted(a)
      BY <3>4, <3>5 DEF ServerExhausted
    <3>7. ServerExhausted(InMemory(u)) <=> ServerExhausted(a)
      BY <3>2 DEF InMemory
    <3> QED BY <2>3, <3>1, <3>2, <3>3, <3>6, <3>7
  <2>10. SessionsEntitled' BY <2>1, <2>9 DEF SessionsEntitled
  <2>11. ServerMemory' BY <1>6, <2>1 DEF ServerMemory, SaveCounters, TypeOK
  <2> QED BY <2>5, <2>8, <2>10, <2>11
<1>7. CASE Tick
  <2>1. now' = now + 1 /\ UNCHANGED <<registered, entry, unsaved, sessions, server>>
    BY <1>7 DEF Tick
  <2>2. SessionsEntitled' BY <2>1 DEF SessionsEntitled, InMemory, Counted
  <2> QED BY <2>1, <2>2 DEF TypeOK, AllGood, ServerMemory
<1>8. CASE UNCHANGED vars
  <2>1. SessionsEntitled' BY <1>8 DEF SessionsEntitled, InMemory, Counted, vars
  <2> QED BY <1>8, <2>1 DEF TypeOK, AllGood, ServerMemory, vars
<1> QED BY <1>1, <1>2, <1>3, <1>4, <1>5, <1>6, <1>7, <1>8 DEF ServerStep

\* The first state satisfies the invariant.
LEMMA InitSafe == Init => Inv
<1> SUFFICES ASSUME Init PROVE Inv OBVIOUS
<1>1. \A u \in Users : entry[u] = LegacyEntry /\ unsaved[u] = 0 BY DEF Init
<1>2. LegacyEntry \in Entry BY LegacyGood DEF Good
<1>3. TypeOK BY <1>1, <1>2 DEF Init, TypeOK
<1>4. AllGood BY <1>1, LegacyGood DEF AllGood
<1>5. SessionsEntitled /\ ServerMemory BY <1>1 DEF Init, SessionsEntitled, ServerMemory
<1> QED BY <1>3, <1>4, <1>5 DEF Inv

\* The invariant holds in every state that can be reached.
THEOREM InvariantHolds == Spec => []Inv
<1>1. Inv /\ [Next]_vars => Inv'
  BY PanelStepSafe, ServerStepSafe DEF Next
<1> QED BY <1>1, InitSafe, PTL DEF Spec

\* The types of the variables.
THEOREM TypeCorrect == Spec => []TypeOK
<1>1. Inv => TypeOK BY DEF Inv
<1> QED BY <1>1, InvariantHolds, PTL

\* The counters never fall below the baseline, with any order of saves,
\* losses, resets and operations.
THEOREM BaselineAlwaysReached == Spec => []BaselineReached
<1>1. Inv => BaselineReached BY DEF Inv, AllGood, Good, BaselineReached
<1> QED BY <1>1, InvariantHolds, PTL

\* Whoever is connected is entitled to be, as far as access and traffic go.
THEOREM SessionsAlwaysEntitled == Spec => []SessionsEntitled
<1>1. Inv => SessionsEntitled BY DEF Inv
<1> QED BY <1>1, InvariantHolds, PTL

\* No operation in a history has been applied twice.
THEOREM NeverTwice == Spec => []NoOperationTwice
<1>1. Inv => NoOperationTwice BY DEF Inv, AllGood, Good, UniqueIds, NoOperationTwice
<1> QED BY <1>1, InvariantHolds, PTL

-----------------------------------------------------------------------------
(* Access.                                                                 *)

\* The server (Go) and the panel (Python) agree on who has nothing left.
THEOREM ServerAgrees ==
    ASSUME NEW e \in Entry
    PROVE  ServerExhausted(e) <=> ~IsUnlimited(e) /\ PrimaryLeft(e) + ExtraLeft(e) = 0
<1>1. CASE IsUnlimited(e) BY <1>1 DEF ServerExhausted, IsUnlimited
<1>2. CASE ~IsUnlimited(e)
  <2>1. e.managed /\ ~e.unlimited BY <1>2 DEF IsUnlimited
  <2>2. PICK used, p, x : used = Used(e) /\ p = PrimaryLeft(e) /\ x = ExtraLeft(e)
    OBVIOUS
  <2>3. p \in Nat /\ x \in Nat BY <2>2, QuotaTyped
  <2>4. ServerExhausted(e) <=> p + x <= 0
    BY <1>2, <2>1, <2>2 DEF ServerExhausted, Used, PrimaryLeft, ExtraLeft
  <2>5. p + x <= 0 <=> p + x = 0 BY <2>3
  <2> QED BY <1>2, <2>2, <2>4, <2>5
<1> QED BY <1>1, <1>2

\* After a renewal the server lets the user in, unless there is no traffic.
THEOREM RenewalAlwaysOpens == Spec => RenewalOpensAccess
<1>1. ASSUME Inv, NEW u \in Users, NEW id \in Ids, NEW g \in Amounts,
             RenewUser(u, id, g), AccessRestricted(entry[u])'
      PROVE  PrimaryLeft(entry[u])' + ExtraLeft(entry[u])' = 0
  <2>1. PICK n : Write(u, n) /\ Good(n) /\ n.expires > now /\ ~n.deactivated
    BY <1>1, RenewUserWrites DEF Recorded
  <2>2. entry'[u] = n /\ now' = now
    BY <1>1, <2>1 DEF Write, Transaction, serverVars, Inv, TypeOK
  <2>3. n \in Entry /\ n.expires \in Nat /\ now \in Nat
    BY <1>1, <2>1 DEF Good, Entry, Inv, TypeOK
  <2>4. ~IsExpired(entry[u])' BY <2>1, <2>2, <2>3 DEF IsExpired
  <2>5. ServerExhausted(entry[u])' <=> ServerExhausted(n) BY <2>2 DEF ServerExhausted
  <2>6. ServerExhausted(n) BY <1>1, <2>1, <2>2, <2>4, <2>5 DEF AccessRestricted
  <2>7. PrimaryLeft(n) + ExtraLeft(n) = 0 BY <2>3, <2>6, ServerAgrees
  <2> QED BY <2>2, <2>7
<1>2. Inv /\ [Next]_vars =>
        [\A u \in Users, id \in Ids, g \in Amounts :
            RenewUser(u, id, g) =>
               (AccessRestricted(entry[u])' =>
                    PrimaryLeft(entry[u])' + ExtraLeft(entry[u])' = 0)]_vars
  BY <1>1
<1> QED BY <1>2, InvariantHolds, PTL DEF Spec, RenewalOpensAccess

-----------------------------------------------------------------------------
(* The refinement: every step of the panel, the server and the clock is a  *)
(* step of TrafficAccounts, or changes neither balances nor histories.     *)

\* The balance of a user with entry e.
Balance(e) == [open |-> TRUE, limited |-> ~IsUnlimited(e),
               primary |-> PrimaryLeft(e), extra |-> ExtraLeft(e)]

AccountMap == [u \in Users |-> [open |-> u \in registered,
                                limited |-> u \in registered /\ ~IsUnlimited(entry[u]),
                                primary |-> PrimaryLeft(entry[u]),
                                extra |-> ExtraLeft(entry[u])]]
HistoryMap == [u \in Users |-> entry[u].ledger]

\* The accounts of users and of everybody else.
LEMMA AccountOf ==
    ASSUME Inv, NEW u \in Users
    PROVE  /\ u \in registered => AccountMap[u] = Balance(entry[u])
           /\ u \notin registered => AccountMap[u] = Accounts!Closed /\ entry[u].ledger = <<>>
<1>1. CASE u \in registered BY <1>1 DEF AccountMap, Balance
<1>2. CASE u \notin registered
  <2>1. entry[u] = LegacyEntry BY <1>2 DEF Inv, TypeOK
  <2>2. PrimaryLeft(entry[u]) = 0 /\ ExtraLeft(entry[u]) = 0 /\ entry[u].ledger = <<>>
    BY <2>1, LegacyGood DEF LegacyEntry
  <2>3. (u \in registered) = FALSE /\ (u \in registered /\ ~IsUnlimited(entry[u])) = FALSE
    BY <1>2
  <2>4. AccountMap[u] = [open |-> u \in registered,
                         limited |-> u \in registered /\ ~IsUnlimited(entry[u]),
                         primary |-> PrimaryLeft(entry[u]),
                         extra |-> ExtraLeft(entry[u])]
    BY DEF AccountMap
  <2>5. AccountMap[u] = Accounts!Closed
    BY <2>2, <2>3, <2>4, Zenon DEF Accounts!Closed
  <2> QED BY <1>2, <2>2, <2>5
<1> QED BY <1>1, <1>2

\* What is written for one user changes the account of that user alone.
LEMMA WriteMaps ==
    ASSUME Inv, NEW u \in registered, NEW n, Write(u, n)
    PROVE  /\ AccountMap' = [AccountMap EXCEPT ![u] = Balance(n)]
           /\ HistoryMap' = [HistoryMap EXCEPT ![u] = n.ledger]
<1>1. u \in Users /\ entry \in [Users -> Entry] BY DEF Inv, TypeOK
<1>2. registered' = registered /\ entry' = [entry EXCEPT ![u] = n]
  BY DEF Write, Transaction
<1>3. \A w \in Users : entry'[w] = IF w = u THEN n ELSE entry[w] BY <1>1, <1>2
<1>4. ASSUME NEW w \in Users, w # u PROVE AccountMap'[w] = AccountMap[w]
  BY <1>2, <1>3, <1>4 DEF AccountMap, IsUnlimited, PrimaryLeft, ExtraLeft, Used
<1>5. AccountMap'[u] = Balance(n)
  BY <1>1, <1>2, <1>3 DEF AccountMap, Balance, IsUnlimited, PrimaryLeft, ExtraLeft, Used
<1>6. AccountMap' = [AccountMap EXCEPT ![u] = Balance(n)]
  BY <1>1, <1>4, <1>5 DEF AccountMap
<1>7. HistoryMap' = [HistoryMap EXCEPT ![u] = n.ledger]
  BY <1>1, <1>3 DEF HistoryMap
<1> QED BY <1>6, <1>7

\* An operation that is recorded, under an id that is not in the history, is
\* an operation on the account.
LEMMA OperationMaps ==
    ASSUME Inv, NEW u \in registered, NEW id \in Ids, ~Performed(entry[u], id),
           NEW n, Write(u, n), NEW kind, NEW base,
           Recorded(entry[u], n, [id |-> id, kind |-> kind,
                                  primary |-> PrimaryLeft(n) - base.primary,
                                  extra |-> ExtraLeft(n) - base.extra])
    PROVE  Accounts!Operate(u, id, kind, base, Balance(n))
<1>1. u \in Users BY DEF Inv, TypeOK
<1>2. /\ AccountMap' = [AccountMap EXCEPT ![u] = Balance(n)]
      /\ HistoryMap' = [HistoryMap EXCEPT ![u] = n.ledger]
  BY WriteMaps
<1>3. HistoryMap[u] = entry[u].ledger BY <1>1 DEF HistoryMap
<1>4. \A i \in DOMAIN HistoryMap[u] : HistoryMap[u][i].id # id
  BY <1>3 DEF Performed
<1>5. Balance(n).primary = PrimaryLeft(n) /\ Balance(n).extra = ExtraLeft(n)
  BY DEF Balance
<1>6. PICK op : op = [id |-> id, kind |-> kind,
                      primary |-> Balance(n).primary - base.primary,
                      extra |-> Balance(n).extra - base.extra]
  OBVIOUS
<1>7. n.ledger = Recent(Append(HistoryMap[u], op)) BY <1>3, <1>5, <1>6 DEF Recorded
<1>8. HistoryMap' = [HistoryMap EXCEPT ![u] = Accounts!Recent(Append(@, op))]
  <2>1. PICK h : h = HistoryMap OBVIOUS
  <2>2. PICK l : l = Accounts!Recent(Append(h[u], op)) OBVIOUS
  <2>3. l = n.ledger
    BY <1>7, <2>1, <2>2 DEF Recent, Accounts!Recent
  <2>4. HistoryMap' = [h EXCEPT ![u] = l] BY <1>2, <2>1, <2>3
  <2>5. [h EXCEPT ![u] = Accounts!Recent(Append(@, op))] = [h EXCEPT ![u] = l]
    BY <2>2
  <2> QED BY <2>1, <2>4, <2>5
<1> QED BY <1>2, <1>4, <1>6, <1>8 DEF Accounts!Operate, AccountMap, HistoryMap

\* The fields of a balance.
LEMMA BalanceFields ==
    ASSUME NEW e, Good(e)
    PROVE  /\ Balance(e).primary = PrimaryLeft(e) /\ Balance(e).extra = ExtraLeft(e)
           /\ Balance(e).limited = ~IsUnlimited(e) /\ Balance(e).open = TRUE
           /\ PrimaryLeft(e) \in Nat /\ ExtraLeft(e) \in Nat
           /\ ~IsUnlimited(e) =>
                Balance(e) = Accounts!Limited(PrimaryLeft(e), ExtraLeft(e))
           /\ IsUnlimited(e) => Balance(e) = Accounts!Unlimited
           /\ IsUnlimited(e) => PrimaryLeft(e) = 0 /\ ExtraLeft(e) = 0
<1>1. PrimaryLeft(e) \in Nat /\ ExtraLeft(e) \in Nat BY QuotaTyped DEF Good
<1>2. CASE IsUnlimited(e)
  <2>1. PrimaryLeft(e) = 0 /\ ExtraLeft(e) = 0 BY <1>2 DEF PrimaryLeft, ExtraLeft
  <2>2. (~IsUnlimited(e)) = FALSE BY <1>2
  <2>3. Balance(e) = Accounts!Unlimited BY <2>1, <2>2, Zenon DEF Balance, Accounts!Unlimited
  <2> QED BY <1>1, <1>2, <2>1, <2>3 DEF Balance
<1>3. CASE ~IsUnlimited(e)
  <2>1. (~IsUnlimited(e)) = TRUE BY <1>3
  <2>2. Balance(e) = Accounts!Limited(PrimaryLeft(e), ExtraLeft(e))
    BY <2>1, Zenon DEF Balance, Accounts!Limited
  <2> QED BY <1>1, <1>3, <2>2 DEF Balance
<1> QED BY <1>2, <1>3

\* renew_user is a renewal or a reactivation of the account.
LEMMA RenewUserMaps ==
    ASSUME Inv, NEW u \in Users, NEW id \in Ids, NEW g \in Amounts, RenewUser(u, id, g)
    PROVE  u \in registered /\ Accounts!Renew(u, id)
<1>1. PICK e : e = entry[u] OBVIOUS
<1>2. u \in registered /\ Good(e) /\ g \in Nat /\ ~Performed(entry[u], id)
  BY <1>1, ConstantsAssumption DEF RenewUser, Inv, AllGood
<1>3. PICK n : /\ Write(u, n)
               /\ Recorded(e, n, RenewalOperation(e, id, g))
               /\ ~IsUnlimited(n)
               /\ PrimaryLeft(n) = Carried(e) + g
               /\ ExtraLeft(n) = ExtraLeft(e)
  BY <1>1, RenewUserWrites
<1>4. Good(n) BY <1>3 DEF Recorded
<1>5. PICK a : a = AccountMap[u] OBVIOUS
<1>6. a = Balance(e) BY <1>1, <1>2, <1>5, AccountOf
<1>7. /\ a.primary = PrimaryLeft(e) /\ a.extra = ExtraLeft(e)
      /\ PrimaryLeft(e) \in Nat /\ ExtraLeft(e) \in Nat
  BY <1>2, <1>6, BalanceFields
<1>8. Balance(n) = Accounts!Limited(PrimaryLeft(n), ExtraLeft(n))
  BY <1>3, <1>4, BalanceFields
<1>9. CASE e.expires > now
  <2>1. PrimaryLeft(n) = a.primary + g /\ PrimaryLeft(n) - a.primary = g
        /\ ExtraLeft(n) - a.extra = 0
    BY <1>2, <1>3, <1>7, <1>9 DEF Carried
  <2>2. RenewalOperation(e, id, g) =
          [id |-> id, kind |-> "renewal",
           primary |-> PrimaryLeft(n) - a.primary, extra |-> ExtraLeft(n) - a.extra]
    BY <1>9, <2>1 DEF RenewalOperation
  <2>3. Accounts!Operate(u, id, "renewal", a, Balance(n))
    BY <1>1, <1>2, <1>3, <2>2, OperationMaps
  <2>4. Balance(n) = Accounts!Limited(a.primary + g, a.extra) BY <1>3, <1>7, <1>8, <2>1
  <2>5. Accounts!Operate(u, id, "renewal", AccountMap[u],
                         Accounts!Limited(AccountMap[u].primary + g, AccountMap[u].extra))
    BY <1>5, <2>3, <2>4 DEF Accounts!Operate
  <2> QED BY <1>2, <2>5, Zenon DEF Accounts!Renew, AccountMap
<1>10. CASE ~(e.expires > now)
  <2>1. PICK b : b = [a EXCEPT !.primary = 0] OBVIOUS
  <2>2. b.primary = 0 /\ b.extra = a.extra BY <1>6, <2>1 DEF Balance
  <2>3. PrimaryLeft(n) = g /\ PrimaryLeft(n) - b.primary = g /\ ExtraLeft(n) - b.extra = 0
    BY <1>2, <1>3, <1>7, <1>10, <2>2 DEF Carried
  <2>4. RenewalOperation(e, id, g) =
          [id |-> id, kind |-> "reactivation",
           primary |-> PrimaryLeft(n) - b.primary, extra |-> ExtraLeft(n) - b.extra]
    BY <1>10, <2>3 DEF RenewalOperation
  <2>5. Accounts!Operate(u, id, "reactivation", b, Balance(n))
    BY <1>1, <1>2, <1>3, <2>4, OperationMaps
  <2>6. Balance(n) = Accounts!Limited(g, a.extra) BY <1>3, <1>7, <1>8, <2>3
  <2>7. Accounts!Operate(u, id, "reactivation", [AccountMap[u] EXCEPT !.primary = 0],
                         Accounts!Limited(g, AccountMap[u].extra))
    BY <1>5, <2>1, <2>5, <2>6 DEF Accounts!Operate
  <2> QED BY <1>2, <2>7, Zenon DEF Accounts!Renew, AccountMap
<1> QED BY <1>9, <1>10

\* add_user_traffic adds to the extra package of the account.
LEMMA AddUserTrafficMaps ==
    ASSUME Inv, NEW u \in Users, NEW id \in Ids, NEW m \in Amounts, AddUserTraffic(u, id, m)
    PROVE  u \in registered /\ Accounts!AddExtra(u, id)
<1>1. PICK e : e = entry[u] OBVIOUS
<1>2. u \in registered /\ Good(e) /\ m \in Nat /\ ~Performed(entry[u], id) /\ ~IsUnlimited(e)
  BY <1>1, ConstantsAssumption DEF AddUserTraffic, Inv, AllGood
<1>3. PICK n : /\ Write(u, n)
               /\ Recorded(e, n, ExtraOperation(id, m))
               /\ ~IsUnlimited(n)
               /\ PrimaryLeft(n) = PrimaryLeft(e)
               /\ ExtraLeft(n) = ExtraLeft(e) + m
  BY <1>1, AddUserTrafficWrites
<1>4. Good(n) BY <1>3 DEF Recorded
<1>5. PICK a : a = AccountMap[u] OBVIOUS
<1>6. a = Balance(e) BY <1>1, <1>2, <1>5, AccountOf
<1>7. /\ a.primary = PrimaryLeft(e) /\ a.extra = ExtraLeft(e) /\ a.limited
      /\ PrimaryLeft(e) \in Nat /\ ExtraLeft(e) \in Nat
  BY <1>2, <1>6, BalanceFields
<1>8. Balance(n) = Accounts!Limited(a.primary, a.extra + m)
  BY <1>3, <1>4, <1>7, BalanceFields
<1>9. PrimaryLeft(n) - a.primary = 0 /\ ExtraLeft(n) - a.extra = m
  BY <1>2, <1>3, <1>7
<1>10. ExtraOperation(id, m) =
         [id |-> id, kind |-> "extra_add",
          primary |-> PrimaryLeft(n) - a.primary, extra |-> ExtraLeft(n) - a.extra]
  BY <1>9 DEF ExtraOperation
<1>11. Accounts!Operate(u, id, "extra_add", a, Balance(n))
  BY <1>1, <1>2, <1>3, <1>10, OperationMaps
<1>12. PICK new : new = Balance(n) OBVIOUS
<1>13. Accounts!Operate(u, id, "extra_add", a, new) BY <1>11, <1>12
<1>14. new \in {Accounts!Limited(a.primary, a.extra + k) : k \in Amounts} BY <1>8, <1>12
<1>15. Accounts!AddExtra(u, id)
  BY <1>5, <1>7, <1>13, <1>14 DEF Accounts!AddExtra, AccountMap
<1> QED BY <1>2, <1>15

\* adjust_user_plan is an adjustment of the account.
LEMMA AdjustUserPlanMaps ==
    ASSUME Inv, NEW u \in Users, NEW id \in Ids, AdjustUserPlan(u, id)
    PROVE  u \in registered /\ Accounts!Adjust(u, id)
<1>1. PICK e : e = entry[u] OBVIOUS
<1>2. u \in registered /\ Good(e) /\ ~Performed(entry[u], id)
  BY <1>1 DEF AdjustUserPlan, Inv, AllGood
<1>3. PICK n : Write(u, n) /\ Adjustment(e, n, id) BY <1>1, AdjustUserPlanWrites
<1>4. Good(n) BY <1>3 DEF Adjustment, Recorded
<1>5. PICK a : a = AccountMap[u] OBVIOUS
<1>6. a = Balance(e) BY <1>1, <1>2, <1>5, AccountOf
<1>7. /\ a.primary = PrimaryLeft(e) /\ a.extra = ExtraLeft(e)
      /\ PrimaryLeft(e) \in Nat /\ ExtraLeft(e) \in Nat
  BY <1>2, <1>6, BalanceFields
<1>8. Accounts!Operate(u, id, "manual_adjustment", a, Balance(n))
  <2>1. Recorded(e, n, [id |-> id, kind |-> "manual_adjustment",
                        primary |-> PrimaryLeft(n) - a.primary,
                        extra |-> ExtraLeft(n) - a.extra])
    BY <1>3, <1>7 DEF Adjustment, AdjustmentOperation
  <2> QED BY <1>1, <1>2, <1>3, <2>1, OperationMaps
<1>9. SUFFICES Balance(n) \in
        {a, Accounts!Unlimited}
        \cup {Accounts!Limited(a.primary, a.extra + m) : m \in Amounts}
        \cup {Accounts!Withdrawn(a, m) : m \in {k \in Amounts : k <= Accounts!Left(a)}}
        \cup {Accounts!Limited(m, 0) : m \in Amounts}
  <2>1. PICK new : new = Balance(n) OBVIOUS
  <2> QED BY <1>2, <1>5, <1>8, <1>9, <2>1 DEF Accounts!Adjust, AccountMap
<1>10. CASE /\ IsUnlimited(n) <=> IsUnlimited(e)
            /\ PrimaryLeft(n) = PrimaryLeft(e) /\ ExtraLeft(n) = ExtraLeft(e)
  <2>1. Balance(n) = a BY <1>2, <1>4, <1>6, <1>10, BalanceFields
  <2> QED BY <2>1
<1>11. CASE IsUnlimited(n)
  <2>1. Balance(n) = Accounts!Unlimited BY <1>4, <1>11, BalanceFields
  <2> QED BY <2>1
<1>12. ASSUME NEW m \in Amounts, ~IsUnlimited(n),
              PrimaryLeft(n) = PrimaryLeft(e), ExtraLeft(n) = ExtraLeft(e) + m
       PROVE  Balance(n) \in {Accounts!Limited(a.primary, a.extra + k) : k \in Amounts}
  <2>1. Balance(n) = Accounts!Limited(a.primary, a.extra + m)
    BY <1>4, <1>7, <1>12, BalanceFields
  <2> QED BY <2>1
<1>13. ASSUME NEW m \in Amounts, ~IsUnlimited(n), m <= PrimaryLeft(e) + ExtraLeft(e),
              PrimaryLeft(n) = PrimaryLeft(e) - (m - FromExtra(e, m)),
              ExtraLeft(n) = ExtraLeft(e) - FromExtra(e, m)
       PROVE  Balance(n) \in
                {Accounts!Withdrawn(a, k) : k \in {j \in Amounts : j <= Accounts!Left(a)}}
  <2>1. Balance(n) = Accounts!Limited(PrimaryLeft(n), ExtraLeft(n))
    BY <1>4, <1>13, BalanceFields
  <2>2. FromExtra(e, m) = IF m < a.extra THEN m ELSE a.extra
    BY <1>7, ConstantsAssumption DEF FromExtra
  <2>3. Balance(n) = Accounts!Withdrawn(a, m)
    BY <1>7, <1>13, <2>1, <2>2 DEF Accounts!Withdrawn
  <2>4. m <= Accounts!Left(a) BY <1>7, <1>13 DEF Accounts!Left
  <2> QED BY <2>3, <2>4
<1>14. ASSUME NEW m \in Amounts, ~IsUnlimited(n), PrimaryLeft(n) = m, ExtraLeft(n) = 0
       PROVE  Balance(n) \in {Accounts!Limited(k, 0) : k \in Amounts}
  <2>1. Balance(n) = Accounts!Limited(m, 0) BY <1>4, <1>14, BalanceFields
  <2> QED BY <2>1
<1> QED BY <1>3, <1>10, <1>11, <1>12, <1>13, <1>14 DEF Adjustment

\* create_user and create_users_bulk open accounts.
LEMMA CreateUsersMaps ==
    ASSUME Inv, NEW S \in SUBSET Users, NEW t \in ParsedTerms, NEW off \in BOOLEAN,
           CreateUsers(S, t, off)
    PROVE  Accounts!Open(S)
<1>1. PICK n : /\ Transaction(registered \cup S, WithNew(S, n))
               /\ Good(n)
               /\ \/ IsUnlimited(n) /\ n.ledger = <<>>
                  \/ \E g \in Amounts : /\ ~IsUnlimited(n)
                                        /\ PrimaryLeft(n) = g /\ ExtraLeft(n) = 0
                                        /\ n.ledger = InitialGrant(g)
  BY CreateUsersWrites
<1>2. S \cap registered = {} BY CreateUsersWrites
<1>3. registered' = registered \cup S
      /\ \A w \in Users : entry'[w] = IF w \in S THEN n ELSE entry[w]
  BY <1>1 DEF Transaction, WithNew
<1>4. ASSUME NEW w \in Users, w \notin S PROVE AccountMap'[w] = AccountMap[w]
  <2>1. entry'[w] = entry[w] /\ (w \in registered' <=> w \in registered)
    BY <1>3, <1>4
  <2> QED BY <2>1 DEF AccountMap, IsUnlimited, PrimaryLeft, ExtraLeft, Used
<1>5. ASSUME NEW w \in Users, w \in S PROVE AccountMap'[w] = Balance(n)
  <2>1. w \in registered' /\ entry'[w] = n BY <1>3, <1>5
  <2> QED BY <2>1 DEF AccountMap, Balance, IsUnlimited, PrimaryLeft, ExtraLeft, Used
<1>6. AccountMap' = [w \in Users |-> IF w \in S THEN Balance(n) ELSE AccountMap[w]]
  <2>1. AccountMap' = [w \in Users |-> AccountMap'[w]] BY DEF AccountMap
  <2> QED BY <1>4, <1>5, <2>1
<1>7. HistoryMap' = [w \in Users |-> IF w \in S THEN n.ledger ELSE HistoryMap[w]]
  <2>1. HistoryMap' = [w \in Users |-> HistoryMap'[w]] BY DEF HistoryMap
  <2>2. \A w \in Users : HistoryMap[w] = entry[w].ledger /\ HistoryMap'[w] = entry'[w].ledger
    BY DEF HistoryMap
  <2>3. \A w \in Users : HistoryMap'[w] = IF w \in S THEN n.ledger ELSE HistoryMap[w]
    BY <1>3, <2>2
  <2> QED BY <2>1, <2>3
<1>8. \A w \in S : ~AccountMap[w].open BY <1>2 DEF AccountMap
<1>9. CASE IsUnlimited(n) /\ n.ledger = <<>>
  <2>1. PICK a, h : a = Accounts!Unlimited /\ h = <<>> OBVIOUS
  <2>2. Balance(n) = a /\ n.ledger = h BY <1>1, <1>9, <2>1, BalanceFields
  <2>3. AccountMap' = [w \in Users |-> IF w \in S THEN a ELSE AccountMap[w]]
        /\ HistoryMap' = [w \in Users |-> IF w \in S THEN h ELSE HistoryMap[w]]
    BY <1>6, <1>7, <2>2
  <2> QED BY <1>8, <2>1, <2>3 DEF Accounts!Open, AccountMap, HistoryMap
<1>10. ASSUME NEW g \in Amounts, ~IsUnlimited(n), PrimaryLeft(n) = g, ExtraLeft(n) = 0,
              n.ledger = InitialGrant(g)
       PROVE  Accounts!Open(S)
  <2>1. PICK a, h : a = Accounts!Limited(g, 0) /\ h = InitialGrant(g) OBVIOUS
  <2>2. Balance(n) = a /\ n.ledger = h BY <1>1, <1>10, <2>1, BalanceFields
  <2>3. AccountMap' = [w \in Users |-> IF w \in S THEN a ELSE AccountMap[w]]
        /\ HistoryMap' = [w \in Users |-> IF w \in S THEN h ELSE HistoryMap[w]]
    BY <1>6, <1>7, <2>2
  <2> QED BY <1>8, <2>1, <2>3 DEF Accounts!Open, AccountMap, HistoryMap, InitialGrant
<1> QED BY <1>1, <1>9, <1>10

\* update_user edits the account, and may move it.
LEMMA UpdateUserMaps ==
    ASSUME Inv, NEW u \in Users, NEW v \in Users, NEW off \in BOOLEAN,
           NEW t \in ParsedTerms \cup {entry[u].expires}, UpdateUser(u, v, t, off)
    PROVE  u \in registered /\ Accounts!Edit(u, v)
<1>1. PICK e : e = entry[u] OBVIOUS
<1>2. u \in registered /\ (u # v => v \notin registered) BY UpdateUserWrites
<1>3. PICK n : /\ Transaction((registered \ {u}) \cup {v}, Moved(u, v, n))
               /\ Edited(e, n)
  BY <1>1, UpdateUserWrites
<1>4. Good(e) /\ Good(n) BY <1>1, <1>3 DEF Edited, Inv, AllGood
<1>5. registered' = (registered \ {u}) \cup {v}
      /\ \A w \in Users :
            entry'[w] = IF w = v THEN n ELSE IF w = u THEN LegacyEntry ELSE entry[w]
  BY <1>3 DEF Transaction, Moved
<1>6. PICK a : a = AccountMap[u] OBVIOUS
<1>7. a = Balance(e) BY <1>1, <1>2, <1>6, AccountOf
<1>8. /\ a.primary = PrimaryLeft(e) /\ a.extra = ExtraLeft(e)
      /\ PrimaryLeft(e) \in Nat /\ ExtraLeft(e) \in Nat
  BY <1>4, <1>7, BalanceFields
<1>9. PICK new : new = Balance(n) OBVIOUS
<1>10. new \in {a, Accounts!Unlimited} \cup {Accounts!Limited(p, a.extra) : p \in Amounts}
  <2>1. CASE /\ IsUnlimited(n) <=> IsUnlimited(e)
             /\ PrimaryLeft(n) = PrimaryLeft(e) /\ ExtraLeft(n) = ExtraLeft(e)
    BY <1>4, <1>7, <1>9, <2>1, BalanceFields
  <2>2. CASE IsUnlimited(n)
    BY <1>4, <1>9, <2>2, BalanceFields
  <2>3. CASE ~IsUnlimited(n) /\ PrimaryLeft(n) \in Amounts /\ ExtraLeft(n) = ExtraLeft(e)
    <3>1. new = Accounts!Limited(PrimaryLeft(n), a.extra)
      BY <1>4, <1>8, <1>9, <2>3, BalanceFields
    <3> QED BY <2>3, <3>1
  <2> QED BY <1>3, <2>1, <2>2, <2>3 DEF Edited
<1>11. AccountMap'[v] = new
  <2>1. v \in registered' /\ entry'[v] = n BY <1>5
  <2> QED BY <1>9, <2>1 DEF AccountMap, Balance, IsUnlimited, PrimaryLeft, ExtraLeft, Used
<1>12. ASSUME NEW w \in Users, w # v, w # u PROVE AccountMap'[w] = AccountMap[w]
  <2>1. entry'[w] = entry[w] /\ (w \in registered' <=> w \in registered)
    BY <1>5, <1>12
  <2> QED BY <2>1 DEF AccountMap, IsUnlimited, PrimaryLeft, ExtraLeft, Used
<1>13. u # v => AccountMap'[u] = Accounts!Closed
  <2> SUFFICES ASSUME u # v PROVE AccountMap'[u] = Accounts!Closed OBVIOUS
  <2>1. u \notin registered' /\ entry'[u] = LegacyEntry BY <1>5
  <2>2. PrimaryLeft(entry[u])' = 0 /\ ExtraLeft(entry[u])' = 0
    BY <2>1, LegacyGood DEF PrimaryLeft, ExtraLeft, IsUnlimited, Used
  <2>3. (u \in registered') = FALSE /\ (u \in registered' /\ ~IsUnlimited(entry[u])') = FALSE
    BY <2>1
  <2>4. AccountMap'[u] = [open |-> u \in registered',
                          limited |-> u \in registered' /\ ~IsUnlimited(entry[u])',
                          primary |-> PrimaryLeft(entry[u])',
                          extra |-> ExtraLeft(entry[u])']
    BY DEF AccountMap
  <2> QED BY <2>2, <2>3, <2>4, Zenon DEF Accounts!Closed
<1>14. AccountMap' = [w \in Users |-> IF w = v THEN new
                                      ELSE IF w = u THEN Accounts!Closed ELSE AccountMap[w]]
  <2>1. AccountMap' = [w \in Users |-> AccountMap'[w]] BY DEF AccountMap
  <2>2. \A w \in Users : AccountMap'[w] = IF w = v THEN new
                                          ELSE IF w = u THEN Accounts!Closed ELSE AccountMap[w]
    BY <1>11, <1>12, <1>13
  <2> QED BY <2>1, <2>2
<1>15. HistoryMap' = [w \in Users |-> IF w = v THEN HistoryMap[u]
                                      ELSE IF w = u THEN <<>> ELSE HistoryMap[w]]
  <2>1. HistoryMap' = [w \in Users |-> HistoryMap'[w]] BY DEF HistoryMap
  <2>2. \A w \in Users : HistoryMap[w] = entry[w].ledger /\ HistoryMap'[w] = entry'[w].ledger
    BY DEF HistoryMap
  <2>3. n.ledger = entry[u].ledger BY <1>1, <1>3 DEF Edited
  <2>4. LegacyEntry.ledger = <<>> BY DEF LegacyEntry
  <2>5. \A w \in Users : HistoryMap'[w] = IF w = v THEN HistoryMap[u]
                                          ELSE IF w = u THEN <<>> ELSE HistoryMap[w]
    BY <1>5, <2>2, <2>3, <2>4
  <2> QED BY <2>1, <2>5
<1>16. u # v => ~AccountMap[v].open BY <1>2 DEF AccountMap
<1> QED BY <1>2, <1>6, <1>10, <1>14, <1>15, <1>16 DEF Accounts!Edit, AccountMap, HistoryMap

\* delete_user closes accounts.
LEMMA DeleteUsersMaps ==
    ASSUME Inv, NEW S \in SUBSET registered, DeleteUsers(S)
    PROVE  Accounts!Close(S)
<1>1. registered' = registered \ S
      /\ \A w \in Users : entry'[w] = IF w \in S THEN LegacyEntry ELSE entry[w]
  BY DEF DeleteUsers, Transaction
<1>2. ASSUME NEW w \in Users, w \notin S PROVE AccountMap'[w] = AccountMap[w]
  <2>1. entry'[w] = entry[w] /\ (w \in registered' <=> w \in registered)
    BY <1>1, <1>2
  <2> QED BY <2>1 DEF AccountMap, IsUnlimited, PrimaryLeft, ExtraLeft, Used
<1>3. ASSUME NEW w \in Users, w \in S PROVE AccountMap'[w] = Accounts!Closed
  <2>1. w \notin registered' /\ entry'[w] = LegacyEntry BY <1>1, <1>3
  <2>2. PrimaryLeft(entry[w])' = 0 /\ ExtraLeft(entry[w])' = 0
    BY <2>1, LegacyGood DEF PrimaryLeft, ExtraLeft, IsUnlimited, Used
  <2>3. (w \in registered') = FALSE /\ (w \in registered' /\ ~IsUnlimited(entry[w])') = FALSE
    BY <2>1
  <2>4. AccountMap'[w] = [open |-> w \in registered',
                          limited |-> w \in registered' /\ ~IsUnlimited(entry[w])',
                          primary |-> PrimaryLeft(entry[w])',
                          extra |-> ExtraLeft(entry[w])']
    BY DEF AccountMap
  <2> QED BY <2>2, <2>3, <2>4, Zenon DEF Accounts!Closed
<1>4. AccountMap' = [w \in Users |-> IF w \in S THEN Accounts!Closed ELSE AccountMap[w]]
  <2>1. AccountMap' = [w \in Users |-> AccountMap'[w]] BY DEF AccountMap
  <2> QED BY <1>2, <1>3, <2>1
<1>5. HistoryMap' = [w \in Users |-> IF w \in S THEN <<>> ELSE HistoryMap[w]]
  <2>1. HistoryMap' = [w \in Users |-> HistoryMap'[w]] BY DEF HistoryMap
  <2>2. \A w \in Users : HistoryMap[w] = entry[w].ledger /\ HistoryMap'[w] = entry'[w].ledger
    BY DEF HistoryMap
  <2>3. LegacyEntry.ledger = <<>> BY DEF LegacyEntry
  <2>4. \A w \in Users : HistoryMap'[w] = IF w \in S THEN <<>> ELSE HistoryMap[w]
    BY <1>1, <2>2, <2>3
  <2> QED BY <2>1, <2>4
<1> QED BY <1>4, <1>5 DEF Accounts!Close, AccountMap, HistoryMap

\* Resets of the counters, and changes of term and access, change no account.
LEMMA BulkActionsMap ==
    ASSUME Inv, NEW S \in SUBSET registered,
           \/ ResetTraffic(S)
           \/ \E off \in BOOLEAN : SetDeactivated(S, off)
           \/ \E t \in FutureTerms : SetExpiration(S, t)
    PROVE  AccountMap' = AccountMap /\ HistoryMap' = HistoryMap
<1>1. PICK f : /\ Transaction(registered, [u \in Users |-> IF u \in S THEN f[u] ELSE entry[u]])
               /\ \A u \in S : QuotaKept(entry[u], f[u])
  BY BulkActionsKeep
<1>2. registered' = registered
      /\ \A w \in Users : entry'[w] = IF w \in S THEN f[w] ELSE entry[w]
  BY <1>1 DEF Transaction
<1>3. ASSUME NEW w \in Users
      PROVE  AccountMap'[w] = AccountMap[w] /\ HistoryMap'[w] = HistoryMap[w]
  <2>1. PICK e, n : e = entry[w] /\ n = entry'[w] OBVIOUS
  <2>2. /\ IsUnlimited(n) <=> IsUnlimited(e)
        /\ PrimaryLeft(n) = PrimaryLeft(e) /\ ExtraLeft(n) = ExtraLeft(e)
        /\ n.ledger = e.ledger
    BY <1>1, <1>2, <2>1 DEF QuotaKept
  <2>3. /\ IsUnlimited(entry[w])' <=> IsUnlimited(n)
        /\ PrimaryLeft(entry[w])' = PrimaryLeft(n) /\ ExtraLeft(entry[w])' = ExtraLeft(n)
    BY <2>1 DEF PrimaryLeft, ExtraLeft, IsUnlimited, Used
  <2> QED BY <1>2, <2>1, <2>2, <2>3 DEF AccountMap, HistoryMap
<1>4. AccountMap' = [w \in Users |-> AccountMap'[w]] /\ AccountMap = [w \in Users |-> AccountMap[w]]
  BY DEF AccountMap
<1>5. HistoryMap' = [w \in Users |-> HistoryMap'[w]] /\ HistoryMap = [w \in Users |-> HistoryMap[w]]
  BY DEF HistoryMap
<1> QED BY <1>3, <1>4, <1>5

\* Traffic that is counted is drawn from the packages, the primary one first.
LEMMA CountedDrawn ==
    ASSUME NEW e \in Entry, Good(e), NEW n \in Entry, NEW m \in Nat,
           n.counter = e.counter + m, n.baseline = e.baseline, n.managed = e.managed,
           n.unlimited = e.unlimited, n.primary = e.primary, n.extra = e.extra,
           ~IsUnlimited(e)
    PROVE  LET k == PrimaryLeft(e) + ExtraLeft(e) - (PrimaryLeft(n) + ExtraLeft(n))
           IN  /\ PrimaryLeft(n) + ExtraLeft(n) <= PrimaryLeft(e) + ExtraLeft(e)
               /\ PrimaryLeft(n) = Accounts!Floor(PrimaryLeft(e) - k)
               /\ ExtraLeft(n) = Accounts!Floor(ExtraLeft(e) - Accounts!Floor(k - PrimaryLeft(e)))
<1>1. PICK c \in Nat, b \in Nat, p \in Nat, x \in Nat :
        c = e.counter /\ b = e.baseline /\ p = e.primary /\ x = e.extra
  BY DEF Entry
<1>2. b <= c BY <1>1 DEF Good
<1>3. ~IsUnlimited(n) BY DEF IsUnlimited
<1>4. PICK v \in Nat, w \in Nat : v = c - b /\ w = c + m - b /\ v <= w
  BY <1>2
<1>5. Used(e) = v BY <1>1, <1>2, <1>4 DEF Used, Floor
<1>6. Used(n) = w BY <1>1, <1>2, <1>4 DEF Used, Floor
<1>7. PrimaryLeft(e) = Floor(p - v) /\ ExtraLeft(e) = Floor(x - Floor(v - p))
  BY <1>1, <1>5 DEF PrimaryLeft, ExtraLeft
<1>8. PrimaryLeft(n) = Floor(p - w) /\ ExtraLeft(n) = Floor(x - Floor(w - p))
  BY <1>1, <1>3, <1>6 DEF PrimaryLeft, ExtraLeft
<1>9. PICK pe, xe, pn, xn, k :
        /\ pe = Floor(p - v) /\ xe = Floor(x - Floor(v - p))
        /\ pn = Floor(p - w) /\ xn = Floor(x - Floor(w - p))
        /\ k = pe + xe - (pn + xn)
  OBVIOUS
<1>10. /\ pn + xn <= pe + xe
       /\ pn = Accounts!Floor(pe - k)
       /\ xn = Accounts!Floor(xe - Accounts!Floor(k - pe))
  BY <1>4, <1>9 DEF Floor, Accounts!Floor
<1> QED BY <1>7, <1>8, <1>9, <1>10

\* Saving the counters spends, on each account, what was not saved yet.
LEMMA SaveCountersMaps ==
    ASSUME Inv, SaveCounters
    PROVE  Accounts!Spend
<1>1. registered' = registered /\ \A u \in Users : entry'[u] = Counted(u, unsaved[u])
  BY DEF SaveCounters, InMemory
<1>2. ASSUME NEW u \in Users
      PROVE  /\ Accounts!Left(AccountMap'[u]) <= Accounts!Left(AccountMap[u])
             /\ AccountMap'[u] = Accounts!Drawn(AccountMap[u],
                    Accounts!Left(AccountMap[u]) - Accounts!Left(AccountMap'[u]))
             /\ HistoryMap'[u] = HistoryMap[u]
  <2>1. PICK e, n, m : e = entry[u] /\ n = entry'[u] /\ m = unsaved[u] OBVIOUS
  <2>2. Good(e) /\ e \in Entry /\ m \in Nat BY <2>1 DEF Inv, TypeOK, AllGood, Good
  <2>3. /\ Good(n) /\ n.counter = e.counter + m
        /\ n.baseline = e.baseline /\ n.managed = e.managed
        /\ n.unlimited = e.unlimited /\ n.primary = e.primary
        /\ n.extra = e.extra /\ n.deactivated = e.deactivated
        /\ n.ledger = e.ledger
    BY <1>1, <2>1, <2>2, CountedCorrect
  <2>4. n \in Entry BY <2>3 DEF Good
  <2>5. IsUnlimited(n) <=> IsUnlimited(e) BY <2>3 DEF IsUnlimited
  <2>6. PICK a, b : a = AccountMap[u] /\ b = AccountMap'[u] OBVIOUS
  <2>7. /\ a.limited <=> (u \in registered /\ ~IsUnlimited(e))
        /\ a.primary = PrimaryLeft(e) /\ a.extra = ExtraLeft(e)
    BY <2>1, <2>6 DEF AccountMap
  <2>8. /\ b.limited <=> (u \in registered /\ ~IsUnlimited(n))
        /\ b.primary = PrimaryLeft(n) /\ b.extra = ExtraLeft(n)
    BY <1>1, <2>1, <2>6 DEF AccountMap, IsUnlimited, PrimaryLeft, ExtraLeft, Used
  <2>9. /\ PrimaryLeft(e) \in Nat /\ ExtraLeft(e) \in Nat
        /\ PrimaryLeft(n) \in Nat /\ ExtraLeft(n) \in Nat
    BY <2>2, <2>4, QuotaTyped
  <2>10. HistoryMap'[u] = HistoryMap[u] BY <2>1, <2>3 DEF HistoryMap
  <2>11. CASE a.limited
    <3>1. u \in registered /\ ~IsUnlimited(e) /\ ~IsUnlimited(n) BY <2>5, <2>7, <2>11
    <3>2. PICK k : k = a.primary + a.extra - (b.primary + b.extra) OBVIOUS
    <3>3. /\ b.primary + b.extra <= a.primary + a.extra
          /\ b.primary = Accounts!Floor(a.primary - k)
          /\ b.extra = Accounts!Floor(a.extra - Accounts!Floor(k - a.primary))
      BY <2>2, <2>3, <2>4, <2>7, <2>8, <3>1, <3>2, CountedDrawn
    <3>4. b = Accounts!Limited(b.primary, b.extra)
      <4>1. u \in registered' /\ ~IsUnlimited(entry[u])'
        BY <1>1, <2>1, <3>1 DEF IsUnlimited
      <4>2. (u \in registered') = TRUE /\ (u \in registered' /\ ~IsUnlimited(entry[u])') = TRUE
        BY <4>1
      <4>3. b = [open |-> u \in registered',
                 limited |-> u \in registered' /\ ~IsUnlimited(entry[u])',
                 primary |-> PrimaryLeft(entry[u])', extra |-> ExtraLeft(entry[u])']
        BY <2>6 DEF AccountMap
      <4>4. b = [open |-> TRUE, limited |-> TRUE,
                 primary |-> PrimaryLeft(entry[u])', extra |-> ExtraLeft(entry[u])']
        BY <4>2, <4>3, Zenon
      <4>5. b.primary = PrimaryLeft(entry[u])' /\ b.extra = ExtraLeft(entry[u])' BY <4>4
      <4> QED BY <4>4, <4>5, Zenon DEF Accounts!Limited
    <3>5. b = Accounts!Drawn(a, k) BY <2>11, <3>3, <3>4 DEF Accounts!Drawn
    <3>6. k = Accounts!Left(a) - Accounts!Left(b) /\ Accounts!Left(b) <= Accounts!Left(a)
      <4>1. Accounts!Left(a) = a.primary + a.extra /\ Accounts!Left(b) = b.primary + b.extra
        BY DEF Accounts!Left
      <4>2. a.primary \in Nat /\ a.extra \in Nat /\ b.primary \in Nat /\ b.extra \in Nat
        BY <2>7, <2>8, <2>9
      <4>3. PICK s \in Nat, t \in Nat : s = a.primary + a.extra /\ t = b.primary + b.extra
        BY <4>2
      <4>4. t <= s BY <3>3, <4>2, <4>3
      <4>5. k = s - t BY <3>2, <4>2, <4>3
      <4>6. Accounts!Left(a) = s /\ Accounts!Left(b) = t BY <4>1, <4>3
      <4> QED BY <4>4, <4>5, <4>6
    <3>7. b = Accounts!Drawn(a, Accounts!Left(a) - Accounts!Left(b)) BY <3>5, <3>6
    <3> QED BY <2>6, <2>10, <3>6, <3>7
  <2>12. CASE ~a.limited
    <3>1. PrimaryLeft(n) = PrimaryLeft(e) /\ ExtraLeft(n) = ExtraLeft(e)
      <4>1. CASE IsUnlimited(e) BY <2>5, <4>1 DEF PrimaryLeft, ExtraLeft
      <4>2. CASE u \notin registered
        <5>1. e = LegacyEntry BY <2>1, <4>2 DEF Inv, TypeOK
        <5>2. IsUnlimited(e) BY <5>1 DEF LegacyEntry, IsUnlimited
        <5> QED BY <4>1, <5>2
      <4> QED BY <2>7, <2>12, <4>1, <4>2
    <3>2. b = a
      <4>1. /\ IsUnlimited(entry[u])' <=> IsUnlimited(entry[u])
            /\ PrimaryLeft(entry[u])' = PrimaryLeft(entry[u])
            /\ ExtraLeft(entry[u])' = ExtraLeft(entry[u])
        BY <2>1, <2>5, <3>1 DEF IsUnlimited, PrimaryLeft, ExtraLeft, Used
      <4>2. (u \in registered /\ ~IsUnlimited(entry[u])) = FALSE
            /\ (u \in registered' /\ ~IsUnlimited(entry[u])') = FALSE
        BY <1>1, <2>1, <2>7, <2>12, <4>1
      <4>3. AccountMap'[u] = [open |-> u \in registered',
                              limited |-> u \in registered' /\ ~IsUnlimited(entry[u])',
                              primary |-> PrimaryLeft(entry[u])',
                              extra |-> ExtraLeft(entry[u])']
        BY DEF AccountMap
      <4>4. AccountMap[u] = [open |-> u \in registered,
                             limited |-> u \in registered /\ ~IsUnlimited(entry[u]),
                             primary |-> PrimaryLeft(entry[u]),
                             extra |-> ExtraLeft(entry[u])]
        BY DEF AccountMap
      <4> QED BY <1>1, <2>6, <4>1, <4>2, <4>3, <4>4, Zenon
    <3>3. Accounts!Drawn(a, Accounts!Left(a) - Accounts!Left(b)) = a
      BY <2>12 DEF Accounts!Drawn
    <3>4. Accounts!Left(b) <= Accounts!Left(a) BY <2>7, <2>9, <3>2 DEF Accounts!Left
    <3> QED BY <2>6, <2>10, <3>2, <3>3, <3>4
  <2> QED BY <2>11, <2>12
<1>3. DOMAIN AccountMap' = Users BY DEF AccountMap
<1>4. HistoryMap' = [w \in Users |-> HistoryMap'[w]] /\ HistoryMap = [w \in Users |-> HistoryMap[w]]
  BY DEF HistoryMap
<1>5. HistoryMap' = HistoryMap BY <1>2, <1>4
<1> QED BY <1>2, <1>3, <1>5 DEF Accounts!Spend, AccountMap, HistoryMap

\* The rest of the server changes neither the file nor who is in it.
LEMMA ServerStepMaps ==
    ASSUME Inv, ServerStep \/ Tick
    PROVE  Accounts!Spend \/ (AccountMap' = AccountMap /\ HistoryMap' = HistoryMap)
<1>1. CASE SaveCounters BY <1>1, SaveCountersMaps
<1>2. CASE ~SaveCounters
  <2>1. registered' = registered /\ entry' = entry
    BY <1>2 DEF ServerStep, StartService, StopService, Connect, Transfer,
                EnforceRestrictions, Tick
  <2> QED BY <2>1 DEF AccountMap, HistoryMap, IsUnlimited, PrimaryLeft, ExtraLeft, Used
<1> QED BY <1>1, <1>2

\* Every step of the panel is a step of TrafficAccounts.
LEMMA PanelStepMaps ==
    ASSUME Inv, PanelStep
    PROVE  Accounts!Next \/ (AccountMap' = AccountMap /\ HistoryMap' = HistoryMap)
<1>1. ASSUME NEW S \in SUBSET Users, NEW t \in ParsedTerms, NEW off \in BOOLEAN,
             CreateUsers(S, t, off)
      PROVE  Accounts!Next
  <2>1. Accounts!Open(S) BY <1>1, CreateUsersMaps
  <2> QED BY <2>1 DEF Accounts!Next
<1>2. ASSUME NEW u \in registered,
             \/ \E id \in Ids : \/ Accounts!Renew(u, id)
                              \/ Accounts!AddExtra(u, id)
                              \/ Accounts!Adjust(u, id)
             \/ \E v \in Users : Accounts!Edit(u, v)
      PROVE  Accounts!Next
  <2>1. u \in Users BY DEF Inv, TypeOK
  <2>2. AccountMap[u].open BY <2>1 DEF AccountMap
  <2> QED BY <1>2, <2>1, <2>2 DEF Accounts!Next, AccountMap
<1>3. ASSUME NEW u \in Users, NEW v \in Users, NEW off \in BOOLEAN,
             NEW t \in ParsedTerms \cup {entry[u].expires}, UpdateUser(u, v, t, off)
      PROVE  Accounts!Next
  BY <1>2, <1>3, UpdateUserMaps
<1>4. ASSUME NEW S \in SUBSET registered, DeleteUsers(S)
      PROVE  Accounts!Next
  <2>1. Accounts!Close(S) BY <1>4, DeleteUsersMaps
  <2>2. S \in SUBSET Users BY DEF Inv, TypeOK
  <2> QED BY <2>1, <2>2 DEF Accounts!Next
<1>5. ASSUME NEW S \in SUBSET registered,
             \/ ResetTraffic(S)
             \/ \E off \in BOOLEAN : SetDeactivated(S, off)
             \/ \E t \in FutureTerms : SetExpiration(S, t)
      PROVE  AccountMap' = AccountMap /\ HistoryMap' = HistoryMap
  BY <1>5, BulkActionsMap
<1>6. ASSUME NEW u \in Users, NEW id \in Ids, NEW g \in Amounts, RenewUser(u, id, g)
      PROVE  Accounts!Next
  BY <1>2, <1>6, RenewUserMaps
<1>7. ASSUME NEW u \in Users, NEW id \in Ids, NEW m \in Amounts, AddUserTraffic(u, id, m)
      PROVE  Accounts!Next
  BY <1>2, <1>7, AddUserTrafficMaps
<1>8. ASSUME NEW u \in Users, NEW id \in Ids, AdjustUserPlan(u, id)
      PROVE  Accounts!Next
  BY <1>2, <1>8, AdjustUserPlanMaps
<1> QED BY <1>1, <1>3, <1>4, <1>5, <1>6, <1>7, <1>8 DEF PanelStep

\* UserPlans implements TrafficAccounts: balances and histories change only
\* as an operation says, or as traffic is spent.
THEOREM ImplementsAccounts == Spec => AccountsSpec
<1>1. Init => Accounts!Init
  <2> SUFFICES ASSUME Init PROVE Accounts!Init OBVIOUS
  <2>1. Inv /\ \A u \in Users : entry[u] = LegacyEntry BY InitSafe DEF Init
  <2>2. ASSUME NEW u \in Users PROVE AccountMap[u] \in {Accounts!Closed, Accounts!Unlimited}
    <3>1. CASE u \notin registered BY <2>1, <3>1, AccountOf
    <3>2. CASE u \in registered
      <4>1. IsUnlimited(LegacyEntry) BY DEF IsUnlimited, LegacyEntry
      <4>2. AccountMap[u] = Balance(LegacyEntry) BY <2>1, <3>2, AccountOf
      <4>3. Balance(LegacyEntry) = Accounts!Unlimited BY <4>1, LegacyGood, BalanceFields
      <4> QED BY <4>2, <4>3
    <3> QED BY <3>1, <3>2
  <2>3. AccountMap = [u \in Users |-> AccountMap[u]] BY DEF AccountMap
  <2>4. AccountMap \in [Users -> {Accounts!Closed, Accounts!Unlimited}]
    BY <2>2, <2>3
  <2>5. LegacyEntry.ledger = <<>> BY DEF LegacyEntry
  <2>6. HistoryMap = [u \in Users |-> <<>>] BY <2>1, <2>5 DEF HistoryMap
  <2> QED BY <2>4, <2>6 DEF Accounts!Init, AccountMap, HistoryMap
<1>2. Inv /\ [Next]_vars => [Accounts!Next]_Accounts!vars
  <2> SUFFICES ASSUME Inv, [Next]_vars
               PROVE  Accounts!Next \/ (AccountMap' = AccountMap /\ HistoryMap' = HistoryMap)
    BY DEF Accounts!vars, AccountMap, HistoryMap
  <2>1. CASE PanelStep BY <2>1, PanelStepMaps
  <2>2. CASE ServerStep \/ Tick BY <2>2, ServerStepMaps DEF Accounts!Next
  <2>3. CASE UNCHANGED vars
    BY <2>3 DEF vars, AccountMap, HistoryMap, IsUnlimited, PrimaryLeft, ExtraLeft, Used
  <2> QED BY <2>1, <2>2, <2>3 DEF Next
<1> QED BY <1>1, <1>2, InvariantHolds, PTL DEF Spec, AccountsSpec, Accounts!Spec
=============================================================================
