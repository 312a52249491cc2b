--------------------------- MODULE WebProcessProofs ---------------------------
(***************************************************************************)
(* The web process, for every number of threads: a change of the panel's   *)
(* password ends the sessions of the old one, the rate limiter lets no     *)
(* more attempts through than it should, additions to the library of       *)
(* hashes keep what they were given and respect its limit, the totals of   *)
(* traffic do not go back, and no byte is counted twice.                   *)
(***************************************************************************)
EXTENDS PanelAccess, HashLibrary, UserStatistics, FiniteSetTheorems, TLAPS

-----------------------------------------------------------------------------
(* PanelAccess.                                                            *)

Secrets == [password : Int, secret : Int]
Session == [secret : Int, password : Int, age : Int]

\* A secret belongs to one password, in the file, in the process and in every
\* session; from the end of a change on the process has what is in the file.
AccessInv ==
    /\ config \in Secrets /\ config.password = config.secret
    /\ loaded \in Secrets /\ loaded.password = loaded.secret
    /\ sessions \subseteq Session
    /\ \A s \in sessions : s.secret = s.password
    /\ change = "done" => loaded \in {config, Down}

\* Ageing leaves a session what it was.
LEMMA SessionAges ==
  ASSUME NEW s \in Session, NEW older, older = [s EXCEPT !.age = Older(@, Lifetime + 1)]
  PROVE  older \in Session /\ older.secret = s.secret /\ older.password = s.password
BY AccessAssumption DEF Session, Older

\* The invariant holds in every reachable state.
THEOREM SecretsMatch == AccessSpec => []AccessInv
<1>1. AccessInit => AccessInv
  BY DEF AccessInit, AccessInv, Secrets
<1>2. AccessInv /\ [AccessNext]_accessVars => AccessInv'
  <2> SUFFICES ASSUME AccessInv, [AccessNext]_accessVars
               PROVE  AccessInv'
    OBVIOUS
  <2> USE DEF AccessInv
  <2>1. ASSUME NEW t \in Threads, NEW k \in Keys, Ask(t, k) PROVE AccessInv'
    BY <2>1 DEF Ask
  <2>2. ASSUME NEW t \in Threads, Refuse(t) \/ ShowPersonal(t) \/ Abandon(t) PROVE AccessInv'
    BY <2>2 DEF Refuse, ShowPersonal, Abandon
  <2>3. ASSUME NEW t \in Threads, Login(t) PROVE AccessInv'
    <3>1. [secret |-> loaded.secret, password |-> loaded.password, age |-> 0] \in Session
      BY DEF Secrets, Session
    <3> QED
      BY <2>3, <3>1 DEF Login
  <2>4. CASE Tick
    <3>1. UNCHANGED <<config, loaded, change>>
      BY <2>4 DEF Tick
    <3>2. ASSUME NEW older \in sessions'
          PROVE  older \in Session /\ older.secret = older.password
      <4>1. PICK s \in sessions : older = [s EXCEPT !.age = Older(@, Lifetime + 1)]
        BY <2>4, <3>2 DEF Tick
      <4> QED
        BY <4>1, SessionAges
    <3> QED
      BY <3>1, <3>2
  <2>5. CASE StopPanel \/ StartPanel \/ RestartPanel \/ RestartFails
    BY <2>5 DEF StopPanel, StartPanel, RestartPanel, RestartFails, Down, Secrets
  <2>6. CASE WriteNewPassword
    <3>1. config' \in Secrets /\ config'.password = config'.secret /\ change' = "written"
      BY <2>6 DEF WriteNewPassword, Secrets
    <3> QED
      BY <2>6, <3>1 DEF WriteNewPassword
  <2>7. CASE UNCHANGED accessVars
    BY <2>7 DEF accessVars
  <2> QED
    BY <2>1, <2>2, <2>3, <2>4, <2>5, <2>6, <2>7 DEF AccessNext
<1> QED
  BY <1>1, <1>2, PTL DEF AccessSpec

\* change_panel_password: whoever a session lets in after it has logged in with
\* the password in force, however the change overlapped logins and restarts.
THEOREM OldSessionsAlwaysEnd == AccessSpec => []OldSessionsEnd
<1>1. AccessInv => OldSessionsEnd
  BY DEF AccessInv, OldSessionsEnd, Accepted
<1> QED
  BY <1>1, SecretsMatch, PTL

-----------------------------------------------------------------------------
(* The attempts that the rate limiter lets through.                        *)

\* The failures of a key, counted by their age.
FailuresTyped ==
    /\ failures \in [Keys -> [0..Window -> Nat]]
    /\ attempt \in [Threads -> Keys \cup {Nothing}]
    /\ \A k \in Keys : \A age \in 1..Window : failures[k][age - 1] <= failures[k][age]

AttemptsInv == FailuresTyped /\ AttemptsBounded

\* Threads that verify are threads.
LEMMA VerifyingCounted ==
  /\ Cardinality(Threads) \in Nat
  /\ \A S \in SUBSET Threads : /\ IsFiniteSet(S) /\ Cardinality(S) \in Nat
                               /\ Cardinality(S) <= Cardinality(Threads)
  /\ \A k : Verifying(k) \in SUBSET Threads
<1>1. IsFiniteSet(Threads)
  BY ThreadsAssumption
<1>2. \A k : Verifying(k) \in SUBSET Threads
  BY DEF Verifying
<1> QED BY <1>1, <1>2, FS_Subset, FS_CardinalityType

\* An attempt that has ended, whatever it was for, is one less.
LEMMA AttemptEnds ==
  ASSUME FailuresTyped, NEW t \in Threads, attempt[t] # Nothing,
         attempt' = [attempt EXCEPT ![t] = Nothing], NEW k \in Keys
  PROVE  Cardinality(Verifying(k)') =
            Cardinality(Verifying(k)) - (IF attempt[t] = k THEN 1 ELSE 0)
<1>1. k # Nothing
  BY AccessAssumption DEF Nothing
<1>2. Verifying(k)' = Verifying(k) \ {t}
  BY <1>1 DEF Verifying, FailuresTyped
<1>3. IsFiniteSet(Verifying(k)) /\ Cardinality(Verifying(k)) \in Nat
  BY VerifyingCounted
<1>4. CASE attempt[t] = k
  <2>1. t \in Verifying(k)
    BY <1>4 DEF Verifying
  <2>2. Cardinality(Verifying(k) \ {t}) = Cardinality(Verifying(k)) - 1
    BY <1>3, <2>1, FS_RemoveElement
  <2> QED BY <1>2, <1>4, <2>2
<1>5. CASE attempt[t] # k
  <2>1. t \notin Verifying(k)
    BY <1>5 DEF Verifying
  <2>2. Verifying(k)' = Verifying(k)
    BY <1>2, <2>1
  <2> QED BY <1>3, <1>5, <2>2
<1> QED BY <1>4, <1>5

\* No failures are no obstacle.
LEMMA Cleared ==
  /\ NoFailures \in [0..Window -> Nat] /\ NoFailures[Window - 1] = 0
  /\ \A age \in 1..Window : NoFailures[age - 1] <= NoFailures[age]
BY AccessAssumption DEF NoFailures

\* Every step of the rate limiter.
LEMMA AttemptsKept ==
  ASSUME AttemptsInv, [AccessNext]_accessVars
  PROVE  AttemptsInv'
<1> USE AccessAssumption
<1>0. /\ FailuresTyped /\ AttemptsBounded /\ Window - 1 \in 0..Window /\ Window \in 0..Window
      /\ Window \in 1..Window
  BY DEF AttemptsInv
<1>1. ASSUME NEW t \in Threads, NEW k \in Keys, Ask(t, k) PROVE AttemptsInv'
  <2>1. /\ failures' = [failures EXCEPT ![k][Window] = failures[k][Window - 1]]
        /\ attempt' = [attempt EXCEPT ![t] = IF Allowed(k) THEN k ELSE Nothing]
        /\ attempt[t] = Nothing
    BY <1>1 DEF Ask, Recent
  <2>2. /\ failures' \in [Keys -> [0..Window -> Nat]]
        /\ \A j \in Keys : \A age \in 0..Window - 1 : failures'[j][age] = failures[j][age]
        /\ \A j \in Keys : failures'[j][Window] \in {failures[j][Window], failures'[j][Window - 1]}
        /\ \A j \in Keys \ {k} : failures'[j] = failures[j]
    BY <1>0, <2>1 DEF FailuresTyped
  <2>3. FailuresTyped'
    <3>1. ASSUME NEW j \in Keys, NEW age \in 1..Window
          PROVE  failures'[j][age - 1] <= failures'[j][age]
      <4>1. CASE age # Window
        BY <1>0, <2>2, <4>1 DEF FailuresTyped
      <4>2. CASE age = Window
        BY <1>0, <2>1, <2>2, <4>2 DEF FailuresTyped
      <4> QED BY <4>1, <4>2
    <3>2. attempt' \in [Threads -> Keys \cup {Nothing}]
      BY <1>0, <2>1 DEF FailuresTyped
    <3> QED BY <2>2, <3>1, <3>2 DEF FailuresTyped
  <2>4. ASSUME NEW j \in Keys
        PROVE  Recent(j)' + Cardinality(Verifying(j)') <= Limit - 1 + Cardinality(Threads)
    <3>1. Recent(j)' = Recent(j) /\ Recent(j) \in Nat
      BY <1>0, <2>2 DEF Recent, FailuresTyped
    <3>2. Recent(j) + Cardinality(Verifying(j)) <= Limit - 1 + Cardinality(Threads)
      BY <1>0 DEF AttemptsBounded
    <3>3. CASE j = k /\ Allowed(k)
      <4>1. Recent(j) <= Limit - 1
        BY <3>1, <3>3 DEF Allowed
      <4>2. PICK V \in SUBSET Threads : V = Verifying(j)'
        BY DEF Verifying
      <4>3. Cardinality(V) \in Nat /\ Cardinality(Threads) \in Nat
            /\ Cardinality(V) <= Cardinality(Threads)
        BY VerifyingCounted
      <4> QED BY <3>1, <4>1, <4>2, <4>3
    <3>4. CASE ~(j = k /\ Allowed(k))
      <4>1. j # Nothing
        BY DEF Nothing
      <4>2. Verifying(j)' = Verifying(j)
        BY <1>0, <2>1, <3>4, <4>1 DEF Verifying, FailuresTyped
      <4> QED BY <3>1, <3>2, <4>2
    <3> QED BY <3>3, <3>4
  <2> QED BY <2>3, <2>4 DEF AttemptsInv, AttemptsBounded
<1>2. ASSUME NEW t \in Threads, Refuse(t) PROVE AttemptsInv'
  <2>1. PICK k \in Keys : k = attempt[t] /\ k # Nothing
    BY <1>0, <1>2 DEF FailuresTyped, Refuse
  <2>2. /\ failures' = [failures EXCEPT ![k] = [age \in 0..Window |-> @[age] + 1]]
        /\ attempt' = [attempt EXCEPT ![t] = Nothing]
    BY <1>2, <2>1 DEF Refuse
  <2>3. /\ \A j \in Keys \ {k} : failures'[j] = failures[j]
        /\ failures'[k] = [age \in 0..Window |-> failures[k][age] + 1]
        /\ DOMAIN failures' = Keys /\ failures' = [j \in Keys |-> failures'[j]]
    BY <1>0, <2>2 DEF FailuresTyped
  <2>4. FailuresTyped'
    <3>1. failures'[k] \in [0..Window -> Nat]
          /\ \A age \in 1..Window : failures'[k][age - 1] <= failures'[k][age]
      <4>1. PICK f \in [0..Window -> Nat] : f = failures[k]
        BY <1>0 DEF FailuresTyped
      <4>2. failures'[k] = [age \in 0..Window |-> f[age] + 1]
        BY <2>3, <4>1
      <4>3. \A age \in 0..Window : f[age] \in Nat /\ failures'[k][age] = f[age] + 1
        BY <4>2
      <4>4. ASSUME NEW age \in 1..Window PROVE failures'[k][age - 1] <= failures'[k][age]
        <5>1. failures[k][age - 1] <= failures[k][age]
          BY <1>0 DEF FailuresTyped
        <5>2. age \in 0..Window /\ age - 1 \in 0..Window
          OBVIOUS
        <5> QED BY <4>1, <4>3, <5>1, <5>2
      <4>5. failures'[k] \in [0..Window -> Nat]
        BY <4>2
      <4> QED BY <4>4, <4>5
    <3>2. attempt' \in [Threads -> Keys \cup {Nothing}]
      BY <1>0, <2>2 DEF FailuresTyped
    <3>3. \A j \in Keys : failures'[j] \in [0..Window -> Nat]
      BY <1>0, <2>3, <3>1 DEF FailuresTyped
    <3> QED BY <1>0, <2>3, <3>1, <3>2, <3>3 DEF FailuresTyped
  <2>5. ASSUME NEW j \in Keys
        PROVE  Recent(j)' + Cardinality(Verifying(j)') <= Limit - 1 + Cardinality(Threads)
    <3>1. Recent(j) \in Nat /\ Recent(j)' = Recent(j) + (IF j = k THEN 1 ELSE 0)
      BY <1>0, <2>3 DEF Recent, FailuresTyped
    <3>2. Cardinality(Verifying(j)') = Cardinality(Verifying(j)) - (IF k = j THEN 1 ELSE 0)
      BY <1>0, <2>1, <2>2, AttemptEnds
    <3>3. Recent(j) + Cardinality(Verifying(j)) <= Limit - 1 + Cardinality(Threads)
      BY <1>0 DEF AttemptsBounded
    <3> QED BY <3>1, <3>2, <3>3, VerifyingCounted
  <2> QED BY <2>4, <2>5 DEF AttemptsInv, AttemptsBounded
<1>3. ASSUME NEW t \in Threads, ShowPersonal(t) \/ Login(t) PROVE AttemptsInv'
  <2>1. PICK k \in Keys : k = attempt[t] /\ k # Nothing
    BY <1>0, <1>3 DEF FailuresTyped, ShowPersonal, Login
  <2>2. /\ failures' = [failures EXCEPT ![k] = NoFailures]
        /\ attempt' = [attempt EXCEPT ![t] = Nothing]
    BY <1>3, <2>1 DEF ShowPersonal, Login
  <2>3. FailuresTyped'
    BY <1>0, <2>2, Cleared DEF FailuresTyped
  <2>4. ASSUME NEW j \in Keys
        PROVE  Recent(j)' + Cardinality(Verifying(j)') <= Limit - 1 + Cardinality(Threads)
    <3>1. Recent(j) \in Nat /\ Recent(j)' = (IF j = k THEN 0 ELSE Recent(j))
      BY <1>0, <2>2, Cleared DEF Recent, FailuresTyped
    <3>2. Cardinality(Verifying(j)') = Cardinality(Verifying(j)) - (IF k = j THEN 1 ELSE 0)
      BY <1>0, <2>1, <2>2, AttemptEnds
    <3>3. Recent(j) + Cardinality(Verifying(j)) <= Limit - 1 + Cardinality(Threads)
      BY <1>0 DEF AttemptsBounded
    <3> QED BY <3>1, <3>2, <3>3, VerifyingCounted
  <2> QED BY <2>3, <2>4 DEF AttemptsInv, AttemptsBounded
<1>4. ASSUME NEW t \in Threads, Abandon(t) PROVE AttemptsInv'
  <2>1. attempt[t] # Nothing /\ failures' = failures /\ attempt' = [attempt EXCEPT ![t] = Nothing]
    BY <1>4 DEF Abandon
  <2>2. FailuresTyped'
    BY <1>0, <2>1 DEF FailuresTyped
  <2>3. ASSUME NEW j \in Keys
        PROVE  Recent(j)' + Cardinality(Verifying(j)') <= Limit - 1 + Cardinality(Threads)
    <3>1. Recent(j) \in Nat /\ Recent(j)' = Recent(j)
      BY <1>0, <2>1 DEF Recent, FailuresTyped
    <3>2. Cardinality(Verifying(j)') =
             Cardinality(Verifying(j)) - (IF attempt[t] = j THEN 1 ELSE 0)
      BY <1>0, <2>1, AttemptEnds
    <3>3. Recent(j) + Cardinality(Verifying(j)) <= Limit - 1 + Cardinality(Threads)
      BY <1>0 DEF AttemptsBounded
    <3> QED BY <3>1, <3>2, <3>3, VerifyingCounted
  <2> QED BY <2>2, <2>3 DEF AttemptsInv, AttemptsBounded
<1>5. CASE Tick
  <2>1. attempt' = attempt
        /\ failures' = [k \in Keys |-> [age \in 0..Window |->
              IF age = 0 THEN 0 ELSE failures[k][IF age = Window THEN age ELSE age - 1]]]
    BY <1>5 DEF Tick
  <2>2. ASSUME NEW k \in Keys
        PROVE  /\ failures'[k] \in [0..Window -> Nat]
               /\ \A age \in 1..Window : failures'[k][age - 1] <= failures'[k][age]
               /\ failures'[k][Window - 1] <= failures[k][Window - 1]
    <3>1. PICK f \in [0..Window -> Nat] : f = failures[k]
      BY <1>0 DEF FailuresTyped
    <3>2. \A age \in 1..Window : f[age - 1] <= f[age]
      BY <1>0, <3>1 DEF FailuresTyped
    <3>3. failures'[k] = [age \in 0..Window |->
              IF age = 0 THEN 0 ELSE f[IF age = Window THEN age ELSE age - 1]]
      BY <2>1, <3>1
    <3>4. \A age \in 0..Window : /\ f[age] \in Nat
                                 /\ age > 0 => age - 1 \in 0..Window /\ f[age - 1] \in Nat
      OBVIOUS
    <3>5. failures'[k] \in [0..Window -> Nat]
      BY <3>3, <3>4
    <3>6. ASSUME NEW age \in 1..Window PROVE failures'[k][age - 1] <= failures'[k][age]
      <4>1. CASE age = 1
        BY <3>3, <3>5, <4>1
      <4>2. CASE age > 1
        <5>1. failures'[k][age - 1] = f[age - 2]
          BY <3>3, <4>2
        <5>2. failures'[k][age] = f[IF age = Window THEN age ELSE age - 1]
          BY <3>3, <4>2
        <5>3. f[age - 2] <= f[age - 1] /\ f[age - 1] <= f[age]
          BY <3>2, <4>2
        <5>4. f[age - 2] \in Nat /\ f[age - 1] \in Nat /\ f[age] \in Nat
          BY <4>2
        <5> QED BY <5>1, <5>2, <5>3, <5>4
      <4> QED BY <4>1, <4>2
    <3>7. failures'[k][Window - 1] <= f[Window - 1]
      <4>1. CASE Window = 1
        BY <3>3, <3>4, <4>1
      <4>2. CASE Window > 1
        <5>1. failures'[k][Window - 1] = f[Window - 2]
          BY <3>3, <4>2
        <5> QED BY <3>2, <4>2, <5>1
      <4> QED BY <4>1, <4>2
    <3> QED BY <3>1, <3>5, <3>6, <3>7
  <2>3. FailuresTyped'
    BY <1>0, <2>1, <2>2 DEF FailuresTyped
  <2>4. ASSUME NEW j \in Keys
        PROVE  Recent(j)' + Cardinality(Verifying(j)') <= Limit - 1 + Cardinality(Threads)
    <3>1. Recent(j)' <= Recent(j) /\ Recent(j) \in Nat /\ Recent(j)' \in Nat
      BY <1>0, <2>2 DEF Recent, FailuresTyped
    <3>2. Verifying(j)' = Verifying(j)
      BY <2>1 DEF Verifying
    <3>3. Recent(j) + Cardinality(Verifying(j)) <= Limit - 1 + Cardinality(Threads)
      BY <1>0 DEF AttemptsBounded
    <3> QED BY <3>1, <3>2, <3>3, VerifyingCounted
  <2> QED BY <2>3, <2>4 DEF AttemptsInv, AttemptsBounded
<1>6. CASE StopPanel \/ RestartPanel \/ RestartFails
  <2>1. /\ failures' = [k \in Keys |-> NoFailures]
        /\ attempt' = [t \in Threads |-> Nothing]
    BY <1>6 DEF StopPanel, RestartPanel, RestartFails
  <2>2. FailuresTyped'
    BY <2>1, Cleared DEF FailuresTyped
  <2>3. ASSUME NEW j \in Keys
        PROVE  Recent(j)' + Cardinality(Verifying(j)') <= Limit - 1 + Cardinality(Threads)
    <3>1. Recent(j)' = 0
      BY <2>1, Cleared DEF Recent
    <3>2. PICK V \in SUBSET Threads : V = Verifying(j)'
      BY DEF Verifying
    <3> QED BY <3>1, <3>2, VerifyingCounted
  <2> QED BY <2>2, <2>3 DEF AttemptsInv, AttemptsBounded
<1>7. CASE StartPanel \/ WriteNewPassword \/ UNCHANGED accessVars
  BY <1>0, <1>7 DEF StartPanel, WriteNewPassword, accessVars, AttemptsInv, FailuresTyped,
     AttemptsBounded, Recent, Verifying
<1> QED BY <1>1, <1>2, <1>3, <1>4, <1>5, <1>6, <1>7 DEF AccessNext

\* The failures and the attempts under way, in every reachable state.
THEOREM AttemptsAlwaysBounded == AccessSpec => []AttemptsInv
<1>1. AccessInit => AttemptsInv
  <2> SUFFICES ASSUME AccessInit PROVE AttemptsInv
    OBVIOUS
  <2>1. FailuresTyped
    BY Cleared DEF AccessInit, FailuresTyped
  <2>2. \A k \in Keys : Recent(k) = 0
    BY Cleared DEF AccessInit, Recent
  <2>3. \A k \in Keys : Cardinality(Verifying(k)) \in Nat /\ Cardinality(Threads) \in Nat
                      /\ Cardinality(Verifying(k)) <= Cardinality(Threads)
    BY VerifyingCounted
  <2> QED BY <2>1, <2>2, <2>3, AccessAssumption DEF AttemptsInv, AttemptsBounded
<1> QED BY <1>1, AttemptsKept, PTL DEF AccessSpec

\* Passwords and sessions within their bounds; a process that is down verifies nothing.
AccessBounds ==
    /\ config \in Configs /\ loaded \in Configs \cup {Down}
    /\ sessions \subseteq [secret : 0..MaxChanges, password : 0..MaxChanges, age : 0..Lifetime + 1]
    /\ change \in {"none", "written", "done"}
    /\ loaded = Down => \A t \in Threads : attempt[t] = Nothing

\* The process that is down has no password of its own.
LEMMA DownApart == Down \notin Configs
BY AccessAssumption DEF Down, Configs

\* Every step keeps the bounds.
LEMMA BoundsKept ==
  ASSUME AccessInv, FailuresTyped, AccessBounds, [AccessNext]_accessVars
  PROVE  AccessBounds'
<1> USE DEF AccessBounds
<1>1. ASSUME NEW t \in Threads, NEW k \in Keys, Ask(t, k) PROVE AccessBounds'
  BY <1>1 DEF Ask
<1>2. ASSUME NEW t \in Threads, Refuse(t) \/ ShowPersonal(t) \/ Abandon(t) PROVE AccessBounds'
  <2>1. \A s \in Threads : attempt[s] = Nothing => attempt'[s] = Nothing
    BY <1>2 DEF Refuse, ShowPersonal, Abandon, FailuresTyped
  <2> QED BY <1>2, <2>1 DEF Refuse, ShowPersonal, Abandon
<1>3. ASSUME NEW t \in Threads, Login(t) PROVE AccessBounds'
  <2>1. loaded \in Configs
    BY <1>3 DEF Login
  <2>2. 0 \in 0..Lifetime + 1
    BY AccessAssumption
  <2>3. [secret |-> loaded.secret, password |-> loaded.password, age |-> 0]
          \in [secret : 0..MaxChanges, password : 0..MaxChanges, age : 0..Lifetime + 1]
    BY <2>1, <2>2 DEF Configs
  <2>4. loaded # Down
    BY <1>3 DEF Login
  <2> QED BY <1>3, <2>3, <2>4 DEF Login
<1>4. CASE Tick
  <2>1. ASSUME NEW older \in sessions'
        PROVE  older \in [secret : 0..MaxChanges, password : 0..MaxChanges, age : 0..Lifetime + 1]
    <3>1. PICK s \in sessions : older = [s EXCEPT !.age = Older(@, Lifetime + 1)]
      BY <1>4, <2>1 DEF Tick
    <3>2. PICK age : age = Older(s.age, Lifetime + 1)
      OBVIOUS
    <3>3. s.age \in 0..Lifetime + 1
      OBVIOUS
    <3>4. age \in 0..Lifetime + 1
      BY <3>2, <3>3, AccessAssumption DEF Older
    <3>5. older = [s EXCEPT !.age = age]
      BY <3>1, <3>2
    <3> QED BY <3>4, <3>5
  <2> QED BY <1>4, <2>1 DEF Tick
<1>5. CASE StopPanel \/ StartPanel \/ RestartPanel \/ RestartFails
  BY <1>5, DownApart DEF StopPanel, StartPanel, RestartPanel, RestartFails
<1>6. CASE WriteNewPassword
  <2>1. config.password \in 0..MaxChanges /\ config.secret = config.password
        /\ config.password < MaxChanges
    BY <1>6 DEF WriteNewPassword, AccessInv, Configs
  <2>2. config.password + 1 \in 0..MaxChanges /\ config.secret + 1 \in 0..MaxChanges
    BY <2>1, AccessAssumption
  <2> QED BY <1>6, <2>2 DEF WriteNewPassword, Configs
<1>7. CASE UNCHANGED accessVars
  BY <1>7 DEF accessVars
<1> QED BY <1>1, <1>2, <1>3, <1>4, <1>5, <1>6, <1>7 DEF AccessNext

\* The limiter, the sessions and the passwords are well typed in every reachable state.
THEOREM AccessTyped == AccessSpec => []AccessTypeOK
<1>1. AccessInit => AccessBounds
  <2> SUFFICES ASSUME AccessInit PROVE AccessBounds
    OBVIOUS
  <2>1. config \in Configs
    BY AccessAssumption DEF AccessInit, Configs
  <2> QED BY <2>1, DownApart DEF AccessInit, AccessBounds
<1>2. AccessInv /\ AttemptsInv /\ AccessBounds /\ [AccessNext]_accessVars => AccessBounds'
  BY BoundsKept DEF AttemptsInv
<1>3. AttemptsInv /\ AccessBounds => AccessTypeOK
  BY DEF AttemptsInv, FailuresTyped, AccessBounds, AccessTypeOK
<1> QED BY <1>1, <1>2, <1>3, SecretsMatch, AttemptsAlwaysBounded, PTL DEF AccessSpec

\* Within one window a key gets no more tries than the limit says and the threads that
\* were already verifying when it was reached: RateLimiter checks and counts in two calls.
THEOREM TriesAlwaysBounded == AccessSpec => []AttemptsBounded
<1>1. AttemptsInv => AttemptsBounded
  BY DEF AttemptsInv
<1> QED BY <1>1, AttemptsAlwaysBounded, PTL

-----------------------------------------------------------------------------
(* HashLibrary.                                                            *)

\* Counting without enumerating.
LEMMA Counted ==
  ASSUME NEW S, IsFiniteSet(S), NEW T \in SUBSET S
  PROVE  /\ IsFiniteSet(T) /\ Cardinality(T) \in Nat /\ Cardinality(S) \in Nat
         /\ Cardinality(T) <= Cardinality(S)
BY FS_Subset, FS_CardinalityType

\* A set has no more elements than two that cover it.
LEMMA CountedApart ==
  ASSUME NEW S, IsFiniteSet(S), NEW T, IsFiniteSet(T)
  PROVE  Cardinality(S) <= Cardinality(S \ T) + Cardinality(T)
<1>1. IsFiniteSet(S \ T) /\ Cardinality(S \ T) \in Nat /\ Cardinality(T) \in Nat
  BY Counted, FS_CardinalityType
<1>2. IsFiniteSet((S \ T) \cup T) /\ Cardinality((S \ T) \cup T) \in Nat
  BY <1>1, FS_Union, FS_CardinalityType
<1>3. (S \ T) \cap T = {} /\ Cardinality({}) = 0
  BY FS_EmptySet
<1>4. Cardinality((S \ T) \cup T) = Cardinality(S \ T) + Cardinality(T) - Cardinality((S \ T) \cap T)
  BY <1>1, FS_Union
<1>5. Cardinality((S \ T) \cup T) = Cardinality(S \ T) + Cardinality(T)
  BY <1>1, <1>2, <1>3, <1>4
<1>6. Cardinality(S) <= Cardinality((S \ T) \cup T)
  BY <1>2, Counted
<1> QED
  BY <1>5, <1>6

\* One more element is at most one more.
LEMMA CountedOneMore ==
  ASSUME NEW S, IsFiniteSet(S), NEW x
  PROVE  /\ IsFiniteSet(S \cup {x}) /\ Cardinality(S) \in Nat
         /\ Cardinality(S \cup {x}) \in Nat /\ Cardinality(S \cup {x}) <= Cardinality(S) + 1
BY FS_AddElement, FS_CardinalityType

\* What a call knows of: what it has counted or found, without what came late.
Known(t) == (library \cup adding[t].asked) \ late[t]

\* A call that is under way has counted at least what it knows of.
LibraryInv ==
    /\ library \subseteq Hashes
    /\ adding \in [Threads -> Call]
    /\ late \in [Threads -> SUBSET Hashes]
    /\ \A t \in Threads : adding[t] # Free => Cardinality(Known(t)) <= adding[t].size

\* Whatever a call knows of is finite.
LEMMA KnownFinite ==
  ASSUME LibraryInv, NEW t \in Threads
  PROVE  /\ IsFiniteSet(library) /\ IsFiniteSet(Known(t)) /\ IsFiniteSet(late[t])
         /\ Cardinality(library) \in Nat /\ Cardinality(Known(t)) \in Nat
         /\ Cardinality(late[t]) \in Nat /\ adding[t].size \in Nat
<1>1. Known(t) \subseteq Hashes /\ late[t] \subseteq Hashes /\ library \subseteq Hashes
  BY DEF LibraryInv, Known, Call
<1>2. IsFiniteSet(Hashes)
  BY LibraryAssumption, Zenon
<1> QED
  BY <1>1, <1>2, Counted DEF LibraryInv, Call

\* The invariant holds in every reachable state.
THEOREM CallsCount == LibrarySpec => []LibraryInv
<1>1. LibraryInit => LibraryInv
  <2>1. Free \in Call
    BY DEF Free, Call
  <2> QED
    BY <2>1 DEF LibraryInit, LibraryInv
<1>2. LibraryInv /\ [LibraryNext]_libraryVars => LibraryInv'
  <2> SUFFICES ASSUME LibraryInv, [LibraryNext]_libraryVars
               PROVE  LibraryInv'
    OBVIOUS
  <2>0. Free \in Call /\ Free.asked = {} /\ Free.values = {}
    BY DEF Free, Call
  <2>1. ASSUME NEW t \in Threads, NEW values \in SUBSET Hashes, StartAdding(t, values)
        PROVE  LibraryInv'
    <3>1. PICK call : call = [Free EXCEPT !.values = values, !.size = Cardinality(library)]
      OBVIOUS
    <3>2. call \in Call /\ call.asked = {} /\ call.size = Cardinality(library)
      BY <3>1, KnownFinite DEF Free, Call
    <3>3. adding' = [adding EXCEPT ![t] = call] /\ UNCHANGED <<library, late>>
      BY <2>1, <3>1 DEF StartAdding
    <3>4. Cardinality(library \ late[t]) <= Cardinality(library)
      BY KnownFinite, Counted
    <3> QED
      BY <3>2, <3>3, <3>4 DEF LibraryInv, Known
  <2>2. ASSUME NEW t \in Threads, NEW value \in Hashes, LookUp(t, value) PROVE LibraryInv'
    <3>1. value \in adding[t].values /\ UNCHANGED <<library, late>>
      BY <2>2 DEF LookUp
    <3>2. PICK call : call = [adding[t] EXCEPT !.asked = @ \cup {value},
                                              !.size = IF value \in library THEN @ ELSE @ + 1]
      OBVIOUS
    <3>3. call = [values |-> adding[t].values, asked |-> adding[t].asked \cup {value},
                  size |-> IF value \in library THEN adding[t].size ELSE adding[t].size + 1]
      BY <3>2 DEF LibraryInv, Call
    <3>4. adding[t] \in Call /\ adding[t].size \in Nat
      BY DEF LibraryInv, Call
    <3>5. adding' = [adding EXCEPT ![t] = call]
      BY <2>2, <3>2 DEF LookUp
    <3>6. call \in Call
      BY <3>3, <3>4 DEF Call
    <3>7. adding[t] # Free
      BY <2>0, <3>1
    <3>8. Cardinality((library \cup call.asked) \ late[t]) <= call.size
      <4>1. CASE value \in library
        BY <3>3, <3>7, <4>1 DEF LibraryInv, Known
      <4>2. CASE value \notin library
        <5>1. (library \cup call.asked) \ late[t] \subseteq Known(t) \cup {value}
          BY <3>3 DEF Known
        <5>2. /\ IsFiniteSet(Known(t) \cup {value}) /\ Cardinality(Known(t)) \in Nat
              /\ Cardinality(Known(t) \cup {value}) \in Nat
              /\ Cardinality(Known(t) \cup {value}) <= Cardinality(Known(t)) + 1
          BY KnownFinite, CountedOneMore
        <5>3. Cardinality(Known(t)) <= adding[t].size
          BY <3>7 DEF LibraryInv
        <5>4. /\ Cardinality((library \cup call.asked) \ late[t]) \in Nat
              /\ Cardinality((library \cup call.asked) \ late[t]) <= Cardinality(Known(t) \cup {value})
          BY <5>1, <5>2, Counted
        <5>5. call.size = adding[t].size + 1
          BY <3>3, <4>2
        <5> QED
          BY <3>4, <5>2, <5>3, <5>4, <5>5
      <4> QED
        BY <4>1, <4>2
    <3> QED
      BY <3>1, <3>5, <3>6, <3>8 DEF LibraryInv, Known
  <2>3. ASSUME NEW t \in Threads, Insert(t) PROVE LibraryInv'
    <3>1. /\ library' = library \cup adding[t].values /\ late' = CountLate(t, library' \ library)
          /\ adding' = [adding EXCEPT ![t] = Free]
      BY <2>3 DEF Insert
    <3>2. library' \subseteq Hashes /\ adding' \in [Threads -> Call] /\ late' \in [Threads -> SUBSET Hashes]
      BY <2>0, <3>1 DEF LibraryInv, Call, CountLate
    <3>3. ASSUME NEW u \in Threads, adding'[u] # Free
          PROVE  Cardinality(Known(u)') <= adding'[u].size
      <4>1. u # t /\ adding'[u] = adding[u] /\ adding[u] # Free
        BY <3>1, <3>3 DEF LibraryInv
      <4>2. late'[u] = late[u] \cup (library' \ library)
        BY <3>1, <4>1 DEF CountLate
      <4>3. Known(u)' \subseteq Known(u)
        BY <4>1, <4>2 DEF Known
      <4>4. /\ Cardinality(Known(u)') \in Nat /\ Cardinality(Known(u)') <= Cardinality(Known(u))
            /\ Cardinality(Known(u)) \in Nat /\ adding[u].size \in Nat
        BY <4>3, KnownFinite, Counted
      <4>5. Cardinality(Known(u)) <= adding[u].size
        BY <4>1 DEF LibraryInv
      <4> QED
        BY <4>1, <4>4, <4>5
    <3> QED
      BY <3>2, <3>3 DEF LibraryInv
  <2>4. ASSUME NEW t \in Threads, RefuseFull(t) PROVE LibraryInv'
    BY <2>0, <2>4 DEF RefuseFull, LibraryInv, Known
  <2>5. ASSUME NEW value \in Hashes, DeleteHash(value) PROVE LibraryInv'
    <3>1. library' = library \ {value} /\ UNCHANGED <<adding, late>>
      BY <2>5 DEF DeleteHash
    <3>2. ASSUME NEW u \in Threads, adding[u] # Free
          PROVE  Cardinality(Known(u)') <= adding[u].size
      <4>1. Known(u)' \subseteq Known(u)
        BY <3>1 DEF Known
      <4>2. /\ Cardinality(Known(u)') \in Nat /\ Cardinality(Known(u)') <= Cardinality(Known(u))
            /\ Cardinality(Known(u)) \in Nat /\ adding[u].size \in Nat
        BY <4>1, KnownFinite, Counted
      <4> QED
        BY <3>2, <4>2 DEF LibraryInv
    <3> QED
      BY <3>1, <3>2 DEF LibraryInv
  <2>6. CASE UNCHANGED libraryVars
    BY <2>6 DEF libraryVars, LibraryInv, Known
  <2> QED
    BY <2>1, <2>2, <2>3, <2>4, <2>5, <2>6 DEF LibraryNext
<1> QED
  BY <1>1, <1>2, PTL DEF LibrarySpec

\* add_vk_hashes and import_vk_hashes: what an addition was given is in the library
\* when it answers, and the limit is passed by no more than what others inserted.
THEOREM AdditionsAlwaysKept == LibrarySpec => AdditionsKept
<1>1. ASSUME LibraryInv, [LibraryNext]_libraryVars,
             NEW t \in Threads, AllLookedUp(t), adding'[t] = Free, library' # library
      PROVE  /\ adding[t].values \subseteq library'
             /\ Cardinality(library') <= LibraryLimit + Cardinality(late[t])
  <2>1. adding[t] # Free /\ adding[t].asked = adding[t].values
    BY <1>1 DEF AllLookedUp
  <2>2. Insert(t)
    BY <1>1, <2>1 DEF LibraryInv, LibraryNext, libraryVars, StartAdding, LookUp, Insert,
                      RefuseFull, DeleteHash
  <2>3. library' = library \cup adding[t].asked /\ adding[t].size <= LibraryLimit
    BY <2>1, <2>2 DEF Insert, Fits
  <2>4. Cardinality(Known(t)) <= adding[t].size
    BY <1>1, <2>1 DEF LibraryInv
  <2>5. library' \ late[t] = Known(t)
    BY <2>3 DEF Known
  <2>6. library' \subseteq Hashes /\ IsFiniteSet(Hashes)
    BY <1>1, <2>1, <2>3, LibraryAssumption DEF LibraryInv, Call
  <2>7. IsFiniteSet(library') /\ Cardinality(library') \in Nat
    BY <2>6, Counted
  <2>8. Cardinality(library') <= Cardinality(Known(t)) + Cardinality(late[t])
    BY <1>1, <2>5, <2>7, KnownFinite, CountedApart
  <2>9. LibraryLimit \in Nat
    BY LibraryAssumption, Zenon
  <2> QED
    BY <1>1, <2>1, <2>3, <2>4, <2>7, <2>8, <2>9, KnownFinite
<1>2. LibraryInv /\ [LibraryNext]_libraryVars =>
        [\A t \in Threads :
            AllLookedUp(t) /\ adding'[t] = Free /\ library' # library =>
                /\ adding[t].values \subseteq library'
                /\ Cardinality(library') <= LibraryLimit + Cardinality(late[t])]_libraryVars
  BY <1>1
<1> QED
  BY <1>2, CallsCount, PTL DEF LibrarySpec, AdditionsKept

-----------------------------------------------------------------------------
(* UserStatistics.                                                         *)

Counters == [Accounts -> {Absent} \cup 0..MaxBytes]
Rows == Row \cup {NoRow}
Listings == [step : {"none", "listed", "read"}, counters : Counters \cup {<<>>}, day : Nat,
             row : Rows, first : Accounts \cup {Other}, older : SUBSET Threads,
             overtaken : BOOLEAN]

\* A thread has a list when it has read a row, and no date of the future; a saved
\* counter is not beyond the traffic there was.
StatisticsInv ==
    /\ saved \in Counters
    /\ day \in 0..MaxDay
    /\ rows \in [Accounts -> Rows]
    /\ listing \in [Threads -> Listings]
    /\ \A t \in Threads : /\ listing[t].step # "none" => listing[t].counters \in Counters
                          /\ listing[t].day <= day
    /\ real \in [Accounts -> 0..MaxBytes]
    /\ \A u \in Accounts : saved[u] <= real[u]

\* What is written for an entry is a row, whose total is not less than before.
LEMMA TotalsGrow ==
  ASSUME NEW row \in Rows, NEW counter \in 0..MaxBytes, NEW d \in 0..MaxDay
  PROVE  /\ Updated(row, counter, d) \in Row
         /\ row.total <= Updated(row, counter, d).total
<1>0. counter \in Nat /\ d \in Int
  BY StatisticsAssumption
<1>1. /\ row.counter \in Nat /\ row.total \in Nat /\ row.today \in Nat
      /\ row = NoRow => row.total = 0
  BY DEF Rows, Row, NoRow
<1>2. PICK delta : delta = Delta(counter, row.counter)
  OBVIOUS
<1>3. delta \in Nat
  BY <1>0, <1>1, <1>2 DEF Delta
<1>4. PICK total : total = Larger(row.total + delta, counter)
  OBVIOUS
<1>5. total \in Nat /\ row.total <= total
  BY <1>0, <1>1, <1>3, <1>4 DEF Larger
<1>6. PICK today : today = IF row.day = d THEN row.today + delta ELSE delta
  OBVIOUS
<1>7. today \in Nat
  BY <1>1, <1>3, <1>6
<1>8. CASE row = NoRow
  <2>1. Updated(row, counter, d) = [counter |-> counter, total |-> counter, today |-> 0, day |-> d]
    BY <1>8 DEF Updated
  <2> QED
    BY <1>0, <1>1, <1>8, <2>1 DEF Row
<1>9. CASE row # NoRow
  <2>1. Updated(row, counter, d) = [counter |-> counter, total |-> total, today |-> today, day |-> d]
    BY <1>2, <1>4, <1>6, <1>9 DEF Updated
  <2> QED
    BY <1>0, <1>5, <1>7, <2>1 DEF Row
<1> QED
  BY <1>8, <1>9

\* What a thread writes, account by account.
LEMMA RowsWritten ==
  ASSUME StatisticsInv, NEW t \in Threads, WriteRows(t), NEW u \in Accounts
  PROVE  /\ rows'[u] \in Rows
         /\ \/ rows[u].total <= rows'[u].total
            \/ rows'[u] = NoRow /\ rows[u].day < day - KeepDays
            \/ listing[t].first = u /\ listing[t].row # rows[u]
<1> DEFINE Before == IF u = listing[t].first THEN listing[t].row ELSE rows[u]
<1>1. rows'[u] = IF u \in Listed(t) THEN Updated(Before, listing[t].counters[u], listing[t].day)
                 ELSE IF IsStale(rows[u], listing[t].day) THEN NoRow ELSE rows[u]
  BY DEF WriteRows
<1>2. /\ rows[u] \in Rows /\ listing[t].row \in Rows /\ listing[t].counters \in Counters
      /\ listing[t].day \in Nat /\ listing[t].day <= day /\ day \in 0..MaxDay /\ MaxDay \in Nat
      /\ KeepDays \in Nat
  BY StatisticsAssumption DEF StatisticsInv, WriteRows, Listings
<1>3. CASE u \in Listed(t)
  <2>1. listing[t].counters[u] \in 0..MaxBytes
    BY <1>2, <1>3 DEF Listed, Counters
  <2>2. listing[t].day \in 0..MaxDay
    BY <1>2
  <2>3. Before \in Rows
    BY <1>2
  <2>4. rows'[u] \in Row /\ Before.total <= rows'[u].total
    BY <1>1, <1>3, <2>1, <2>2, <2>3, TotalsGrow
  <2> QED
    BY <2>4 DEF Rows
<1>4. CASE u \notin Listed(t)
  <2>1. rows[u].total \in Nat /\ (rows[u].day \in Int)
    BY <1>2 DEF Rows, Row, NoRow
  <2>2. CASE IsStale(rows[u], listing[t].day)
    BY <1>1, <1>2, <1>4, <2>1, <2>2 DEF IsStale, Rows
  <2>3. CASE ~IsStale(rows[u], listing[t].day)
    BY <1>1, <1>2, <1>4, <2>1, <2>3
  <2> QED
    BY <2>2, <2>3
<1> QED
  BY <1>3, <1>4

\* The invariant holds in every reachable state.
THEOREM ListsTyped == StatisticsSpec => []StatisticsInv
<1> USE StatisticsAssumption
<1>0. NoListing \in Listings /\ NoListing.step = "none" /\ NoListing.day = 0
  BY DEF NoListing, Listings, Rows
<1>1. StatisticsInit => StatisticsInv
  BY <1>0 DEF StatisticsInit, StatisticsInv, Counters, Rows, Absent
<1>2. StatisticsInv /\ [StatisticsNext]_statisticsVars => StatisticsInv'
  <2> SUFFICES ASSUME StatisticsInv, [StatisticsNext]_statisticsVars
               PROVE  StatisticsInv'
    OBVIOUS
  <2>1. ASSUME NEW u \in Accounts, SaveTraffic(u) PROVE StatisticsInv'
    <3>1. /\ saved[u] \in 0..MaxBytes /\ real[u] \in 0..MaxBytes
          /\ saved[u] + 1 \in 0..MaxBytes /\ real[u] + 1 \in 0..MaxBytes
          /\ saved[u] + 1 <= real[u] + 1
      BY <2>1 DEF SaveTraffic, StatisticsInv, Counters
    <3> QED
      BY <2>1, <3>1 DEF SaveTraffic, StatisticsInv, Counters
  <2>2. ASSUME NEW u \in Accounts, ResetCounter(u) \/ DeleteAccount(u) \/ CreateAccount(u)
        PROVE  StatisticsInv'
    BY <2>2 DEF ResetCounter, DeleteAccount, CreateAccount, StatisticsInv, Counters, Absent
  <2>3. ASSUME NEW u \in Accounts, RestoreCounters(u) PROVE StatisticsInv'
    <3>1. PICK counter \in 0..real[u] : saved' = [saved EXCEPT ![u] = counter]
      BY <2>3 DEF RestoreCounters
    <3>2. counter \in 0..MaxBytes /\ counter <= real[u]
      BY <3>1 DEF StatisticsInv
    <3> QED
      BY <2>3, <3>1, <3>2 DEF RestoreCounters, StatisticsInv, Counters
  <2>4. CASE NextDay
    <3>1. day' \in 0..MaxDay /\ \A t \in Threads : listing[t].day <= day'
      BY <2>4 DEF NextDay, StatisticsInv, Listings
    <3> QED
      BY <2>4, <3>1 DEF NextDay, StatisticsInv
  <2>5. ASSUME NEW t \in Threads, ListUsers(t) PROVE StatisticsInv'
    <3>1. PICK older : older = {s \in Threads \ {t} : listing[s].step # "none"}
      OBVIOUS
    <3>2. PICK new : new = [NoListing EXCEPT !.step = "listed", !.counters = saved, !.older = older]
      OBVIOUS
    <3>3. new = [step |-> "listed", counters |-> saved, day |-> 0, row |-> NoRow,
                 first |-> Other, older |-> older, overtaken |-> FALSE]
      BY <3>2 DEF NoListing
    <3>4. new \in Listings /\ new.day <= day
      BY <3>1, <3>3 DEF Listings, Rows, StatisticsInv
    <3>5. listing' = [listing EXCEPT ![t] = new]
      BY <2>5, <3>1, <3>2 DEF ListUsers
    <3> QED
      BY <2>5, <3>3, <3>4, <3>5 DEF ListUsers, StatisticsInv
  <2>6. ASSUME NEW t \in Threads, ReadFirstRow(t) PROVE StatisticsInv'
    <3>1. PICK first \in Listed(t) \cup {Other} :
             listing' = [listing EXCEPT
                 ![t].step = "read", ![t].first = first, ![t].day = day,
                 ![t].row = IF first = Other THEN NoRow ELSE rows[first]]
      BY <2>6 DEF ReadFirstRow
    <3>2. PICK row : row = IF first = Other THEN NoRow ELSE rows[first]
      OBVIOUS
    <3>3. row \in Rows /\ first \in Accounts \cup {Other}
      BY <3>2 DEF Listed, StatisticsInv, Rows
    <3>4. PICK new : new = [listing[t] EXCEPT !.step = "read", !.first = first, !.day = day, !.row = row]
      OBVIOUS
    <3>5. listing[t] \in Listings
      BY DEF StatisticsInv
    <3>6. new = [step |-> "read", counters |-> listing[t].counters, day |-> day, row |-> row,
                 first |-> first, older |-> listing[t].older, overtaken |-> listing[t].overtaken]
      BY <3>4, <3>5 DEF Listings
    <3>7. new \in Listings /\ new.day <= day /\ new.counters \in Counters
      BY <2>6, <3>3, <3>5, <3>6 DEF Listings, StatisticsInv, ReadFirstRow
    <3>8. listing' = [listing EXCEPT ![t] = new]
      BY <3>1, <3>2, <3>4
    <3> QED
      BY <2>6, <3>7, <3>8 DEF ReadFirstRow, StatisticsInv
  <2>7. ASSUME NEW t \in Threads, WriteRows(t) PROVE StatisticsInv'
    <3>1. rows' \in [Accounts -> Rows]
      <4>1. \A u \in Accounts : rows'[u] \in Rows
        BY <2>7, RowsWritten
      <4> QED
        BY <2>7, <4>1, Zenon DEF WriteRows
    <3>2. ASSUME NEW s \in Threads
          PROVE  /\ listing'[s] \in Listings
                 /\ listing'[s].step # "none" => listing'[s].counters \in Counters
                 /\ listing'[s].day <= day
      <4>1. CASE s = t
        <5>1. listing'[s] = NoListing
          BY <2>7, <4>1 DEF WriteRows
        <5>2. day \in 0..MaxDay
          BY DEF StatisticsInv
        <5> QED
          BY <1>0, <5>1, <5>2
      <4>2. CASE s # t
        <5>1. PICK older : older = listing[s].older \ {t}
          OBVIOUS
        <5>2. PICK overtaken : overtaken = (listing[s].overtaken \/ s \in listing[t].older)
          OBVIOUS
        <5>3. listing'[s] = [listing[s] EXCEPT !.older = @ \ {t},
                                               !.overtaken = @ \/ s \in listing[t].older]
          BY <2>7, <4>2 DEF WriteRows
        <5>4. listing[s] \in Listings
          BY DEF StatisticsInv
        <5>5. listing'[s] = [step |-> listing[s].step, counters |-> listing[s].counters,
                             day |-> listing[s].day, row |-> listing[s].row,
                             first |-> listing[s].first, older |-> older, overtaken |-> overtaken]
          BY <5>1, <5>2, <5>3, <5>4 DEF Listings
        <5>6. older \in SUBSET Threads /\ overtaken \in BOOLEAN
          BY <5>1, <5>2, <5>4 DEF Listings
        <5>7. listing'[s] \in Listings
          BY <5>4, <5>5, <5>6 DEF Listings
        <5> QED
          BY <5>5, <5>7 DEF StatisticsInv
      <4> QED
        BY <4>1, <4>2
    <3>3. listing' \in [Threads -> Listings]
      BY <2>7, <3>2, Zenon DEF WriteRows
    <3>4. UNCHANGED <<saved, day, real>>
      BY <2>7 DEF WriteRows
    <3> QED
      BY <3>1, <3>2, <3>3, <3>4 DEF StatisticsInv
  <2>8. CASE UNCHANGED statisticsVars
    BY <2>8 DEF statisticsVars, StatisticsInv
  <2> QED
    BY <2>1, <2>2, <2>3, <2>4, <2>5, <2>6, <2>7, <2>8 DEF StatisticsNext
<1> QED
  BY <1>1, <1>2, PTL DEF StatisticsSpec

\* enrich_user_statistics: the total a user is shown never becomes smaller, except
\* when it starts anew and when two threads have read the same row.
THEOREM TotalsStay == StatisticsSpec => TotalsNeverBack
<1>1. StatisticsInv /\ [StatisticsNext]_statisticsVars =>
        [\A u \in Accounts :
            rows[u] # NoRow /\ rows'[u].total < rows[u].total =>
                \/ rows'[u] = NoRow /\ rows[u].day < day - KeepDays
                \/ \E t \in Threads : listing[t].first = u /\ listing[t].row # rows[u]]_statisticsVars
  <2> SUFFICES ASSUME StatisticsInv, StatisticsNext, NEW u \in Accounts,
                      rows'[u].total < rows[u].total
               PROVE  \/ rows'[u] = NoRow /\ rows[u].day < day - KeepDays
                      \/ \E t \in Threads : listing[t].first = u /\ listing[t].row # rows[u]
    OBVIOUS
  <2>1. rows[u].total \in Nat
    BY DEF StatisticsInv, Rows, Row, NoRow
  <2>2. rows' # rows
    BY <2>1
  <2>3. PICK t \in Threads : WriteRows(t)
    BY <2>2 DEF StatisticsNext, SaveTraffic, ResetCounter, DeleteAccount, CreateAccount,
                RestoreCounters, NextDay, ListUsers, ReadFirstRow
  <2>4. rows'[u].total \in Nat
    BY <2>3, RowsWritten DEF Rows, Row, NoRow
  <2>5. ~(rows[u].total <= rows'[u].total)
    BY <2>1, <2>4
  <2> QED
    BY <2>3, <2>5, RowsWritten
<1> QED
  BY <1>1, ListsTyped, PTL DEF StatisticsSpec, TotalsNeverBack

-----------------------------------------------------------------------------
(* What has been counted.                                                  *)

\* Lists are made one after the other: of two that are not written yet, one knows of
\* the other; none knows of one that is written.
OrderInv ==
    \A s, t \in Threads :
        /\ t \in listing[s].older => listing[t].step # "none"
        /\ s # t /\ listing[s].step # "none" /\ listing[t].step # "none" =>
              s \in listing[t].older \/ t \in listing[s].older

\* What is counted for today is part of the total, also in a row that was read.
TodayInv ==
    /\ \A u \in Accounts : rows[u].today <= rows[u].total
    /\ \A t \in Threads : listing[t].row.today <= listing[t].row.total

\* The lists with u in them that may still be written in their order.
Pending(u) == {t \in Threads : /\ listing[t].step # "none" /\ ~listing[t].overtaken
                               /\ listing[t].counters[u] # Absent}

\* bytes, and what the counter has gained on a previous one, are within limit.
Gained(bytes, counter, previous, limit) == bytes + Delta(counter, previous) <= limit

\* was[t] is the traffic there had been when t's list was made: what is in the rows and
\* what a list adds to it, what it adds to an older list, and what the saved counter adds
\* to any of them is within the traffic there had been then.
Measured(u, was) ==
    /\ rows[u].total <= real[u]
    /\ saved[u] # Absent => Gained(rows[u].total, saved[u], rows[u].counter, real[u])
    /\ \A t \in Pending(u) :
          /\ listing[t].counters[u] <= was[t] /\ was[t] <= real[u]
          /\ Gained(rows[u].total, listing[t].counters[u], rows[u].counter, was[t])
          /\ saved[u] # Absent => Gained(was[t], saved[u], listing[t].counters[u], real[u])
    /\ \A s, t \in Pending(u) :
          s \in listing[t].older =>
              Gained(was[s], listing[t].counters[u], listing[s].counters[u], was[t])

CountedInv ==
    /\ OrderInv /\ TodayInv
    /\ \A u \in Accounts \ muddled : \E was \in [Threads -> 0..MaxBytes] : Measured(u, was)

\* More traffic, a counter that starts again, and one that is as it was.
LEMMA GainedFacts ==
  ASSUME NEW b \in Nat, NEW c \in Nat, NEW p \in Nat, NEW l \in Nat
  PROVE  /\ Gained(b, c, p, l) => b <= l /\ Gained(b, c + 1, p, l + 1)
         /\ b <= l => Gained(b, 0, p, l) /\ Gained(b, c, c, l)
         /\ c <= l => Gained(0, c, 0, l)
BY DEF Gained, Delta

\* Counters are numbers, also those in lists and rows.
LEMMA CountersTyped ==
  ASSUME StatisticsInv, NEW u \in Accounts
  PROVE  /\ rows[u].total \in Nat /\ rows[u].counter \in Nat /\ rows[u].today \in Nat
         /\ saved[u] # Absent => saved[u] \in Nat
         /\ real[u] \in Nat /\ real[u] <= MaxBytes /\ saved[u] <= real[u]
         /\ \A t \in Pending(u) : listing[t].counters[u] \in Nat
<1>1. rows[u].total \in Nat /\ rows[u].counter \in Nat /\ rows[u].today \in Nat
  BY DEF StatisticsInv, Rows, Row, NoRow
<1>2. /\ saved[u] # Absent => saved[u] \in Nat
      /\ real[u] \in Nat /\ real[u] <= MaxBytes /\ saved[u] <= real[u]
  BY StatisticsAssumption DEF StatisticsInv, Counters
<1>3. ASSUME NEW t \in Pending(u) PROVE listing[t].counters[u] \in Nat
  <2>1. listing[t].counters \in Counters /\ listing[t].counters[u] # Absent
    BY DEF Pending, StatisticsInv
  <2> QED BY <2>1, StatisticsAssumption DEF Counters
<1> QED BY <1>1, <1>2, <1>3

\* More traffic is saved.
LEMMA TrafficMeasured ==
  ASSUME StatisticsInv, NEW u \in Accounts, NEW was \in [Threads -> 0..MaxBytes],
         Measured(u, was), saved[u] # Absent,
         saved'[u] = saved[u] + 1, real'[u] = real[u] + 1, UNCHANGED <<rows, listing>>
  PROVE  Measured(u, was)'
<1>1. Pending(u)' = Pending(u)
  BY DEF Pending
<1>2. /\ rows[u].total \in Nat /\ rows[u].counter \in Nat /\ saved[u] \in Nat /\ real[u] \in Nat
      /\ \A t \in Pending(u) : listing[t].counters[u] \in Nat
      /\ \A t \in Threads : was[t] \in Nat
  BY CountersTyped
<1>3. Gained(rows[u].total, saved[u] + 1, rows[u].counter, real[u] + 1)
  <2>1. Gained(rows[u].total, saved[u], rows[u].counter, real[u])
    BY DEF Measured
  <2> QED BY <1>2, <2>1, GainedFacts
<1>4. ASSUME NEW t \in Pending(u)
      PROVE  Gained(was[t], saved[u] + 1, listing[t].counters[u], real[u] + 1)
  <2>1. Gained(was[t], saved[u], listing[t].counters[u], real[u])
    BY DEF Measured
  <2>2. was[t] \in Nat /\ listing[t].counters[u] \in Nat
    BY <1>2 DEF Pending
  <2> QED BY <1>2, <2>1, <2>2, GainedFacts
<1>5. ASSUME NEW t \in Pending(u) PROVE was[t] <= real[u] + 1
  BY <1>2 DEF Measured, Pending
<1>6. rows[u].total <= real[u] + 1
  BY <1>2 DEF Measured
<1> QED BY <1>1, <1>3, <1>4, <1>5, <1>6 DEF Measured

\* The counter starts again, or the user is gone.
LEMMA ResetMeasured ==
  ASSUME StatisticsInv, NEW u \in Accounts, NEW was \in [Threads -> 0..MaxBytes],
         Measured(u, was), saved'[u] \in {0, Absent}, UNCHANGED <<real, rows, listing>>
  PROVE  Measured(u, was)'
<1>1. Pending(u)' = Pending(u)
  BY DEF Pending
<1>2. /\ rows[u].total \in Nat /\ rows[u].counter \in Nat /\ real[u] \in Nat
      /\ \A t \in Pending(u) : listing[t].counters[u] \in Nat /\ was[t] \in Nat
  BY CountersTyped DEF Pending
<1>3. Gained(rows[u].total, 0, rows[u].counter, real[u])
  <2>1. rows[u].total <= real[u]
    BY DEF Measured
  <2> QED BY <1>2, <2>1, GainedFacts
<1>4. ASSUME NEW t \in Pending(u)
      PROVE  Gained(was[t], 0, listing[t].counters[u], real[u])
  <2>1. was[t] <= real[u]
    BY DEF Measured
  <2> QED BY <1>2, <2>1, GainedFacts
<1> QED BY <1>1, <1>3, <1>4 DEF Measured

\* Nothing about the account changes.
LEMMA MeasuredStays ==
  ASSUME NEW u \in Accounts, NEW was, Measured(u, was), Pending(u)' = Pending(u),
         saved'[u] = saved[u], real'[u] = real[u], rows'[u] = rows[u],
         \A t \in Pending(u) : /\ listing'[t].counters = listing[t].counters
                               /\ listing'[t].older = listing[t].older
  PROVE  Measured(u, was)'
BY DEF Measured

\* A list is made: it has what is saved.
LEMMA ListMeasured ==
  ASSUME StatisticsInv, OrderInv, NEW t \in Threads, ListUsers(t), NEW u \in Accounts,
         NEW was \in [Threads -> 0..MaxBytes], Measured(u, was)
  PROVE  \E now \in [Threads -> 0..MaxBytes] : Measured(u, now)'
<1>1. PICK now : now = [was EXCEPT ![t] = real[u]]
  OBVIOUS
<1>2. now \in [Threads -> 0..MaxBytes] /\ now[t] = real[u]
      /\ \A s \in Threads \ {t} : now[s] = was[s]
  BY <1>1, CountersTyped DEF StatisticsInv
<1>3. /\ listing'[t].step = "listed" /\ listing'[t].counters = saved /\ ~listing'[t].overtaken
      /\ t \notin listing'[t].older
      /\ \A s \in Threads \ {t} : listing'[s] = listing[s]
      /\ UNCHANGED <<saved, real, rows>>
  BY DEF ListUsers, StatisticsInv, NoListing
<1>4. t \notin Pending(u) /\ \A s \in Threads : t \notin listing[s].older
  BY DEF ListUsers, Pending, OrderInv
<1>5. Pending(u)' = IF saved[u] # Absent THEN Pending(u) \cup {t} ELSE Pending(u)
  BY <1>3, <1>4 DEF Pending
<1>6. rows[u].total \in Nat /\ rows[u].counter \in Nat /\ real[u] \in Nat
      /\ (saved[u] # Absent => saved[u] \in Nat) /\ saved[u] <= real[u]
  BY CountersTyped
<1>7. ASSUME saved[u] # Absent
      PROVE  /\ Gained(rows[u].total, saved[u], rows[u].counter, now[t])
             /\ Gained(now[t], saved[u], saved[u], real[u])
  <2>1. Gained(rows[u].total, saved[u], rows[u].counter, now[t])
    BY <1>2, <1>7 DEF Measured
  <2>2. real[u] <= real[u] /\ saved[u] \in Nat
    BY <1>6, <1>7
  <2>3. Gained(real[u], saved[u], saved[u], real[u])
    BY <1>6, <2>2, GainedFacts
  <2> QED BY <1>2, <2>1, <2>3
<1>8. ASSUME NEW s \in Pending(u)'
      PROVE  /\ listing'[s].counters[u] <= now[s] /\ now[s] <= real'[u]
             /\ Gained(rows'[u].total, listing'[s].counters[u], rows'[u].counter, now[s])
             /\ saved'[u] # Absent => Gained(now[s], saved'[u], listing'[s].counters[u], real'[u])
  <2>1. CASE s = t
    BY <1>2, <1>3, <1>4, <1>5, <1>6, <1>7, <1>8, <2>1
  <2>2. CASE s # t
    BY <1>2, <1>3, <1>5, <1>8, <2>2 DEF Measured, Pending
  <2> QED BY <2>1, <2>2
<1>9. ASSUME NEW s \in Pending(u)', NEW r \in Pending(u)', s \in listing'[r].older
      PROVE  Gained(now[s], listing'[r].counters[u], listing'[s].counters[u], now[r])
  <2>1. s # t
    BY <1>3, <1>4, <1>9 DEF Pending
  <2>2. s \in Pending(u) /\ now[s] = was[s] /\ listing'[s] = listing[s]
    BY <1>2, <1>3, <1>5, <1>9, <2>1 DEF Pending
  <2>3. CASE r = t
    <3>1. saved[u] # Absent
      BY <1>4, <1>5, <1>9, <2>3
    <3>2. Gained(was[s], saved[u], listing[s].counters[u], real[u])
      BY <2>2, <3>1 DEF Measured
    <3> QED BY <1>2, <1>3, <2>2, <2>3, <3>2
  <2>4. CASE r # t
    <3>1. r \in Pending(u) /\ now[r] = was[r] /\ listing'[r] = listing[r]
      BY <1>2, <1>3, <1>5, <1>9, <2>4 DEF Pending
    <3> QED BY <1>9, <2>2, <3>1 DEF Measured
  <2> QED BY <2>3, <2>4
<1>10. Measured(u, now)'
  <2>1. rows'[u].total <= real'[u]
        /\ (saved'[u] # Absent => Gained(rows'[u].total, saved'[u], rows'[u].counter, real'[u]))
    BY <1>3 DEF Measured
  <2> QED BY <1>8, <1>9, <2>1 DEF Measured
<1> QED BY <1>2, <1>10

\* What is written for an entry: its counter, and a total that is not more than what was
\* counted before and what the counter gained since; today's part is a part of it.
LEMMA UpdatedWithin ==
  ASSUME NEW row \in Rows, NEW counter \in 0..MaxBytes, NEW d \in 0..MaxDay
  PROVE  /\ Updated(row, counter, d).counter = counter
         /\ \A limit \in Nat :
               counter <= limit /\ Gained(row.total, counter, row.counter, limit) =>
                   Updated(row, counter, d).total <= limit
         /\ row.today <= row.total =>
               Updated(row, counter, d).today <= Updated(row, counter, d).total
<1>0. counter \in Nat
  BY StatisticsAssumption
<1>1. row.counter \in Nat /\ row.total \in Nat /\ row.today \in Nat
  BY DEF Rows, Row, NoRow
<1>2. PICK delta : delta = Delta(counter, row.counter)
  OBVIOUS
<1>3. delta \in Nat
  BY <1>0, <1>1, <1>2 DEF Delta
<1>4. PICK total : total = Larger(row.total + delta, counter)
  OBVIOUS
<1>5. PICK today : today = IF row.day = d THEN row.today + delta ELSE delta
  OBVIOUS
<1>6. CASE row = NoRow
  <2>1. Updated(row, counter, d) = [counter |-> counter, total |-> counter, today |-> 0, day |-> d]
    BY <1>6 DEF Updated
  <2> QED BY <1>0, <2>1
<1>7. CASE row # NoRow
  <2>1. Updated(row, counter, d) = [counter |-> counter, total |-> total, today |-> today, day |-> d]
    BY <1>2, <1>4, <1>5, <1>7 DEF Updated
  <2>2. \A limit \in Nat : counter <= limit /\ row.total + delta <= limit => total <= limit
    BY <1>0, <1>1, <1>3, <1>4 DEF Larger
  <2>3. row.today <= row.total => today <= total
    BY <1>0, <1>1, <1>3, <1>4, <1>5 DEF Larger
  <2> QED BY <1>2, <2>1, <2>2, <2>3 DEF Gained
<1> QED BY <1>6, <1>7

\* What is less stays within a limit.
LEMMA GainedLess ==
  ASSUME NEW a \in Nat, NEW b \in Nat, NEW c \in Nat, NEW p \in Nat, NEW l \in Nat,
         a <= b, Gained(b, c, p, l)
  PROVE  Gained(a, c, p, l)
BY DEF Gained, Delta

\* A list is written, of an account that is not muddled by it.
LEMMA WriteMeasured ==
  ASSUME StatisticsInv, StatisticsInv', OrderInv, NEW t \in Threads, WriteRows(t),
         NEW u \in Accounts, u \notin muddled',
         NEW was \in [Threads -> 0..MaxBytes], Measured(u, was)
  PROVE  Measured(u, was)'
<1>1. /\ UNCHANGED <<saved, real>> /\ listing[t].step = "read"
      /\ ~(listing[t].overtaken /\ u \in Listed(t))
      /\ listing[t].first = u => listing[t].row = rows[u]
  BY DEF WriteRows
<1>2. rows'[u] = IF u \in Listed(t) THEN Updated(rows[u], listing[t].counters[u], listing[t].day)
                 ELSE IF IsStale(rows[u], listing[t].day) THEN NoRow ELSE rows[u]
  BY <1>1 DEF WriteRows
<1>3. ASSUME NEW s \in Pending(u)'
      PROVE  /\ s \in Pending(u) /\ s # t /\ s \notin listing[t].older /\ t \in listing[s].older
             /\ listing'[s].counters = listing[s].counters
             /\ listing'[s].older \subseteq listing[s].older
  <2>1. s \in Threads /\ listing'[s].step # "none" /\ ~listing'[s].overtaken
        /\ listing'[s].counters[u] # Absent
    BY DEF Pending
  <2>2. s # t
    BY <2>1 DEF WriteRows, NoListing
  <2>3. PICK overtaken : overtaken = (listing[s].overtaken \/ s \in listing[t].older)
    OBVIOUS
  <2>4. listing'[s] = [listing[s] EXCEPT !.older = @ \ {t},
                                         !.overtaken = @ \/ s \in listing[t].older]
    BY <2>1, <2>2 DEF WriteRows
  <2>5. listing[s] \in Listings
    BY <2>1 DEF StatisticsInv
  <2>6. listing'[s] = [step |-> listing[s].step, counters |-> listing[s].counters,
                       day |-> listing[s].day, row |-> listing[s].row, first |-> listing[s].first,
                       older |-> listing[s].older \ {t}, overtaken |-> overtaken]
    BY <2>3, <2>4, <2>5 DEF Listings
  <2>7. ~overtaken
    BY <2>1, <2>6
  <2>8. s \in Pending(u) /\ s \notin listing[t].older
    <3>1. ~listing[s].overtaken /\ s \notin listing[t].older
      BY <2>3, <2>7, Zenon
    <3>2. listing[s].step # "none" /\ listing[s].counters[u] # Absent
      BY <2>1, <2>6
    <3> QED BY <2>1, <3>1, <3>2 DEF Pending
  <2>9. t \in listing[s].older
    BY <1>1, <2>1, <2>2, <2>6, <2>8 DEF OrderInv
  <2> QED BY <2>2, <2>6, <2>8, <2>9
<1>4. /\ rows[u].total \in Nat /\ rows[u].counter \in Nat
      /\ saved[u] # Absent => saved[u] \in Nat
      /\ real[u] \in Nat /\ saved[u] <= real[u]
      /\ \A s \in Pending(u) : listing[s].counters[u] \in Nat
  BY CountersTyped
<1>5. \A s \in Pending(u) : was[s] \in Nat
  BY DEF Pending
<1>6. rows'[u].total \in Nat
  <2>1. rows'[u] \in Rows
    BY DEF StatisticsInv
  <2> QED BY <2>1 DEF Rows, Row, NoRow
<1>7. /\ rows'[u].total <= real[u]
      /\ saved[u] # Absent => Gained(rows'[u].total, saved[u], rows'[u].counter, real[u])
      /\ \A s \in Pending(u)' :
            Gained(rows'[u].total, listing[s].counters[u], rows'[u].counter, was[s])
  <2>1. CASE u \in Listed(t)
    <3>1. t \in Pending(u) /\ was[t] \in Nat /\ listing[t].counters[u] \in Nat
      BY <1>1, <1>4, <1>5, <2>1 DEF Pending, Listed
    <3>2. rows[u] \in Rows /\ listing[t].counters[u] \in 0..MaxBytes /\ listing[t].day \in 0..MaxDay
      <4>1. listing[t].counters \in Counters /\ listing[t].day <= day /\ listing[t] \in Listings
        BY <1>1 DEF StatisticsInv
      <4>2. listing[t].day \in Nat /\ day \in 0..MaxDay
        BY <4>1 DEF Listings, StatisticsInv
      <4> QED BY <2>1, <4>1, <4>2, StatisticsAssumption DEF StatisticsInv, Counters, Listed
    <3>3. rows'[u].counter = listing[t].counters[u] /\ rows'[u].total <= was[t]
      BY <1>2, <2>1, <3>1, <3>2, UpdatedWithin DEF Measured
    <3>4. was[t] <= real[u]
          /\ (saved[u] # Absent => Gained(was[t], saved[u], listing[t].counters[u], real[u]))
      BY <3>1 DEF Measured
    <3>5. rows'[u].total <= real[u]
      BY <1>4, <1>6, <3>1, <3>3, <3>4
    <3>6. saved[u] # Absent => Gained(rows'[u].total, saved[u], rows'[u].counter, real[u])
      BY <1>4, <1>6, <3>1, <3>3, <3>4, GainedLess
    <3>7. ASSUME NEW s \in Pending(u)'
          PROVE  Gained(rows'[u].total, listing[s].counters[u], rows'[u].counter, was[s])
      <4>1. s \in Pending(u) /\ t \in listing[s].older
        BY <1>3
      <4>2. Gained(was[t], listing[s].counters[u], listing[t].counters[u], was[s])
        BY <3>1, <4>1 DEF Measured
      <4> QED BY <1>4, <1>5, <1>6, <3>1, <3>3, <4>1, <4>2, GainedLess
    <3> QED BY <3>5, <3>6, <3>7
  <2>2. CASE u \notin Listed(t) /\ IsStale(rows[u], listing[t].day)
    <3>1. rows'[u].total = 0 /\ rows'[u].counter = 0
      BY <1>2, <2>2 DEF NoRow
    <3>2. \A s \in Pending(u) : listing[s].counters[u] <= was[s]
      BY DEF Measured
    <3>3. saved[u] # Absent => Gained(0, saved[u], 0, real[u])
      BY <1>4, GainedFacts
    <3>4. \A s \in Pending(u) : Gained(0, listing[s].counters[u], 0, was[s])
      BY <1>4, <1>5, <3>2, GainedFacts
    <3> QED BY <1>3, <1>4, <3>1, <3>3, <3>4
  <2>3. CASE u \notin Listed(t) /\ ~IsStale(rows[u], listing[t].day)
    <3>1. rows'[u] = rows[u]
      BY <1>2, <2>3
    <3> QED BY <1>3, <3>1 DEF Measured
  <2> QED BY <2>1, <2>2, <2>3
<1>8. ASSUME NEW s \in Pending(u)'
      PROVE  /\ listing'[s].counters[u] <= was[s] /\ was[s] <= real'[u]
             /\ Gained(rows'[u].total, listing'[s].counters[u], rows'[u].counter, was[s])
             /\ saved'[u] # Absent => Gained(was[s], saved'[u], listing'[s].counters[u], real'[u])
  BY <1>1, <1>3, <1>7 DEF Measured
<1>9. ASSUME NEW s \in Pending(u)', NEW r \in Pending(u)', s \in listing'[r].older
      PROVE  Gained(was[s], listing'[r].counters[u], listing'[s].counters[u], was[r])
  <2>1. s \in Pending(u) /\ listing'[s].counters = listing[s].counters
    BY <1>3
  <2>2. r \in Pending(u) /\ listing'[r].counters = listing[r].counters /\ s \in listing[r].older
    BY <1>3, <1>9
  <2> QED BY <2>1, <2>2 DEF Measured
<1> QED BY <1>1, <1>7, <1>8, <1>9 DEF Measured

\* The order of lists and the rows of the day, after every step.
LEMMA OrderKept ==
  ASSUME StatisticsInv, OrderInv, [StatisticsNext]_statisticsVars
  PROVE  OrderInv'
<1>1. CASE listing' = listing
  BY <1>1 DEF OrderInv
<1>2. ASSUME NEW t \in Threads, ListUsers(t) PROVE OrderInv'
  <2>1. /\ listing[t].step = "none"
        /\ listing'[t].older = {s \in Threads \ {t} : listing[s].step # "none"}
        /\ listing'[t].step = "listed"
        /\ \A s \in Threads \ {t} : listing'[s] = listing[s]
    BY <1>2 DEF ListUsers, StatisticsInv, NoListing
  <2> QED BY <2>1 DEF OrderInv
<1>3. ASSUME NEW t \in Threads, ReadFirstRow(t) PROVE OrderInv'
  <2>1. \A s \in Threads : /\ listing'[s].older = listing[s].older
                           /\ listing'[s].step = "none" <=> listing[s].step = "none"
    BY <1>3 DEF ReadFirstRow, StatisticsInv, Listings
  <2> QED BY <2>1 DEF OrderInv
<1>4. ASSUME NEW t \in Threads, WriteRows(t) PROVE OrderInv'
  <2>1. listing'[t].older = {} /\ listing'[t].step = "none"
    BY <1>4 DEF WriteRows, NoListing
  <2>2. ASSUME NEW s \in Threads \ {t}
        PROVE  listing'[s].older = listing[s].older \ {t} /\ listing'[s].step = listing[s].step
    <3>1. listing'[s] = [listing[s] EXCEPT !.older = @ \ {t},
                                           !.overtaken = @ \/ s \in listing[t].older]
      BY <1>4 DEF WriteRows
    <3>2. listing[s] \in Listings
      BY DEF StatisticsInv
    <3> QED BY <3>1, <3>2 DEF Listings
  <2> QED BY <2>1, <2>2 DEF OrderInv
<1>5. CASE UNCHANGED statisticsVars
  BY <1>5 DEF statisticsVars, OrderInv
<1>6. CASE NextDay \/ \E u \in Accounts : \/ SaveTraffic(u) \/ ResetCounter(u) \/ DeleteAccount(u)
                                          \/ CreateAccount(u) \/ RestoreCounters(u)
  BY <1>1, <1>6 DEF NextDay, SaveTraffic, ResetCounter, DeleteAccount, CreateAccount,
     RestoreCounters
<1> QED BY <1>2, <1>3, <1>4, <1>5, <1>6 DEF StatisticsNext

\* The part of the day in the rows, after every step.
LEMMA TodayKept ==
  ASSUME StatisticsInv, TodayInv, [StatisticsNext]_statisticsVars
  PROVE  TodayInv'
<1>1. CASE UNCHANGED <<rows, listing>>
  BY <1>1 DEF TodayInv
<1>2. ASSUME NEW t \in Threads, ListUsers(t) PROVE TodayInv'
  <2>1. rows' = rows /\ listing'[t].row = NoRow
        /\ \A s \in Threads \ {t} : listing'[s] = listing[s]
    BY <1>2 DEF ListUsers, StatisticsInv, NoListing
  <2> QED BY <2>1 DEF TodayInv, NoRow
<1>3. ASSUME NEW t \in Threads, ReadFirstRow(t) PROVE TodayInv'
  <2>1. PICK first \in Listed(t) \cup {Other} :
           listing' = [listing EXCEPT
               ![t].step = "read", ![t].first = first, ![t].day = day,
               ![t].row = IF first = Other THEN NoRow ELSE rows[first]]
    BY <1>3 DEF ReadFirstRow
  <2>2. listing'[t].row = (IF first = Other THEN NoRow ELSE rows[first])
        /\ \A s \in Threads \ {t} : listing'[s] = listing[s]
    BY <2>1 DEF StatisticsInv, Listings
  <2>3. first = Other \/ first \in Accounts
    BY <2>1 DEF Listed
  <2>4. rows' = rows
    BY <1>3 DEF ReadFirstRow
  <2> QED BY <2>2, <2>3, <2>4 DEF TodayInv, NoRow
<1>4. ASSUME NEW t \in Threads, WriteRows(t) PROVE TodayInv'
  <2>1. listing'[t].row = NoRow
    BY <1>4 DEF WriteRows, NoListing
  <2>2. ASSUME NEW s \in Threads \ {t} PROVE listing'[s].row = listing[s].row
    <3>1. listing'[s] = [listing[s] EXCEPT !.older = @ \ {t},
                                           !.overtaken = @ \/ s \in listing[t].older]
      BY <1>4 DEF WriteRows
    <3>2. listing[s] \in Listings
      BY DEF StatisticsInv
    <3> QED BY <3>1, <3>2 DEF Listings
  <2>3. ASSUME NEW u \in Accounts PROVE rows'[u].today <= rows'[u].total
    <3>1. PICK row : row = IF u = listing[t].first THEN listing[t].row ELSE rows[u]
      OBVIOUS
    <3>2. rows'[u] = IF u \in Listed(t) THEN Updated(row, listing[t].counters[u], listing[t].day)
                     ELSE IF IsStale(rows[u], listing[t].day) THEN NoRow ELSE rows[u]
      BY <1>4, <3>1 DEF WriteRows
    <3>3. row \in Rows /\ row.today <= row.total
      BY <3>1 DEF StatisticsInv, TodayInv, Listings
    <3>4. CASE u \in Listed(t)
      <4>1. listing[t].counters \in Counters /\ listing[t].day <= day /\ listing[t] \in Listings
        BY <1>4 DEF StatisticsInv, WriteRows
      <4>2. listing[t].day \in Nat /\ day \in 0..MaxDay
        BY <4>1 DEF Listings, StatisticsInv
      <4>3. listing[t].counters[u] \in 0..MaxBytes /\ listing[t].day \in 0..MaxDay
        BY <3>4, <4>1, <4>2, StatisticsAssumption DEF Counters, Listed
      <4> QED BY <3>2, <3>3, <3>4, <4>3, UpdatedWithin
    <3>5. CASE u \notin Listed(t)
      BY <3>2, <3>5 DEF NoRow, TodayInv
    <3> QED BY <3>4, <3>5
  <2> QED BY <2>1, <2>2, <2>3 DEF TodayInv, NoRow
<1>5. CASE UNCHANGED statisticsVars
  BY <1>1, <1>5 DEF statisticsVars
<1>6. CASE NextDay \/ \E u \in Accounts : \/ SaveTraffic(u) \/ ResetCounter(u) \/ DeleteAccount(u)
                                          \/ CreateAccount(u) \/ RestoreCounters(u)
  BY <1>1, <1>6 DEF NextDay, SaveTraffic, ResetCounter, DeleteAccount, CreateAccount,
     RestoreCounters
<1> QED BY <1>2, <1>3, <1>4, <1>5, <1>6 DEF StatisticsNext

\* The measure of an account that is not muddled, after every step.
LEMMA MeasureKept ==
  ASSUME StatisticsInv, StatisticsInv', OrderInv, [StatisticsNext]_statisticsVars,
         NEW u \in Accounts, u \notin muddled',
         NEW was \in [Threads -> 0..MaxBytes], Measured(u, was)
  PROVE  \E now \in [Threads -> 0..MaxBytes] : Measured(u, now)'
<1>1. CASE Pending(u)' = Pending(u) /\ saved'[u] = saved[u] /\ real'[u] = real[u]
           /\ rows' = rows /\ listing' = listing
  BY <1>1, MeasuredStays
<1>2. ASSUME NEW w \in Accounts, SaveTraffic(w) PROVE Measured(u, was)'
  <2>1. UNCHANGED <<rows, listing>> /\ Pending(u)' = Pending(u)
    BY <1>2 DEF SaveTraffic, Pending
  <2>2. CASE w = u
    <3>1. saved[u] # Absent /\ saved'[u] = saved[u] + 1 /\ real'[u] = real[u] + 1
      BY <1>2, <2>2 DEF SaveTraffic, StatisticsInv, Counters
    <3> QED BY <2>1, <3>1, TrafficMeasured
  <2>3. CASE w # u
    <3>1. saved'[u] = saved[u] /\ real'[u] = real[u]
      BY <1>2, <2>3 DEF SaveTraffic, StatisticsInv, Counters
    <3> QED BY <2>1, <3>1, MeasuredStays
  <2> QED BY <2>2, <2>3
<1>3. ASSUME NEW w \in Accounts, \/ ResetCounter(w) \/ DeleteAccount(w) \/ CreateAccount(w)
                                 \/ RestoreCounters(w)
      PROVE  Measured(u, was)'
  <2>1. UNCHANGED <<rows, listing, real>> /\ Pending(u)' = Pending(u)
    BY <1>3 DEF ResetCounter, DeleteAccount, CreateAccount, RestoreCounters, Pending
  <2>2. CASE w = u
    <3>1. saved'[u] \in {0, Absent}
      BY <1>3, <2>2 DEF ResetCounter, DeleteAccount, CreateAccount, RestoreCounters,
         StatisticsInv, Counters
    <3> QED BY <2>1, <3>1, ResetMeasured
  <2>3. CASE w # u
    <3>1. saved'[u] = saved[u]
      BY <1>3, <2>3 DEF ResetCounter, DeleteAccount, CreateAccount, RestoreCounters,
         StatisticsInv, Counters
    <3> QED BY <2>1, <3>1, MeasuredStays
  <2> QED BY <2>2, <2>3
<1>4. CASE NextDay \/ UNCHANGED statisticsVars
  <2>1. UNCHANGED <<saved, rows, listing, real>>
    BY <1>4 DEF NextDay, statisticsVars
  <2>2. Pending(u)' = Pending(u)
    BY <2>1 DEF Pending
  <2> QED BY <1>1, <2>1, <2>2
<1>5. ASSUME NEW t \in Threads, ListUsers(t)
      PROVE  \E now \in [Threads -> 0..MaxBytes] : Measured(u, now)'
  BY <1>5, ListMeasured
<1>6. ASSUME NEW t \in Threads, ReadFirstRow(t) PROVE Measured(u, was)'
  <2>1. UNCHANGED <<saved, rows, real>>
    BY <1>6 DEF ReadFirstRow
  <2>2. \A s \in Threads : /\ listing'[s].older = listing[s].older
                           /\ listing'[s].counters = listing[s].counters
                           /\ listing'[s].overtaken = listing[s].overtaken
                           /\ listing'[s].step = "none" <=> listing[s].step = "none"
    BY <1>6 DEF ReadFirstRow, StatisticsInv, Listings
  <2>3. Pending(u)' = Pending(u)
    BY <2>2 DEF Pending
  <2>4. \A s \in Pending(u) : s \in Threads
    BY DEF Pending
  <2> QED BY <2>1, <2>2, <2>3, <2>4, MeasuredStays
<1>7. ASSUME NEW t \in Threads, WriteRows(t) PROVE Measured(u, was)'
  BY <1>7, WriteMeasured
<1> QED BY <1>2, <1>3, <1>4, <1>5, <1>6, <1>7 DEF StatisticsNext

\* What is in the rows, in lists and still to be listed is, in every reachable state, no
\* more than the traffic there was.
THEOREM TrafficMeasuredOnce == StatisticsSpec => []CountedInv
<1>1. StatisticsInit => CountedInv
  <2> SUFFICES ASSUME StatisticsInit PROVE CountedInv
    OBVIOUS
  <2>1. OrderInv
    BY DEF StatisticsInit, OrderInv, NoListing
  <2>2. TodayInv
    BY DEF StatisticsInit, TodayInv, NoListing, NoRow
  <2>3. ASSUME NEW u \in Accounts PROVE Measured(u, [t \in Threads |-> 0])
    <3>1. Pending(u) = {}
      BY DEF StatisticsInit, Pending, NoListing
    <3>2. rows[u].total = 0 /\ rows[u].counter = 0 /\ saved[u] = 0 /\ real[u] = 0
      BY DEF StatisticsInit, NoRow
    <3>3. Gained(0, 0, 0, 0)
      BY GainedFacts
    <3> QED BY <3>1, <3>2, <3>3 DEF Measured
  <2>4. [t \in Threads |-> 0] \in [Threads -> 0..MaxBytes]
    BY StatisticsAssumption
  <2> QED BY <2>1, <2>2, <2>3, <2>4 DEF CountedInv
<1>2. StatisticsInv /\ StatisticsInv' /\ CountedInv /\ [StatisticsNext]_statisticsVars => CountedInv'
  <2> SUFFICES ASSUME StatisticsInv, StatisticsInv', CountedInv, [StatisticsNext]_statisticsVars
               PROVE  CountedInv'
    OBVIOUS
  <2>1. OrderInv' /\ TodayInv'
    BY OrderKept, TodayKept DEF CountedInv
  <2>2. ASSUME NEW u \in Accounts, u \notin muddled'
        PROVE  \E now \in [Threads -> 0..MaxBytes] : Measured(u, now)'
    <3>1. u \notin muddled
      BY <2>2 DEF StatisticsNext, statisticsVars, SaveTraffic, ResetCounter, DeleteAccount,
         CreateAccount, RestoreCounters, NextDay, ListUsers, ReadFirstRow, WriteRows
    <3>2. PICK was \in [Threads -> 0..MaxBytes] : Measured(u, was)
      BY <3>1 DEF CountedInv
    <3> QED BY <2>2, <3>2, MeasureKept DEF CountedInv
  <2> QED BY <2>1, <2>2 DEF CountedInv
<1> QED BY <1>1, <1>2, ListsTyped, PTL DEF StatisticsSpec

\* enrich_user_statistics: no byte is counted twice.
THEOREM CountedOnce == StatisticsSpec => []NoByteTwice
<1>1. CountedInv => NoByteTwice
  BY DEF CountedInv, TodayInv, Measured, NoByteTwice
<1> QED BY <1>1, TrafficMeasuredOnce, PTL
\* The lists and the rows are well typed in every reachable state.
THEOREM StatisticsTyped == StatisticsSpec => []StatisticsTypeOK
<1> DEFINE Bounded == muddled \subseteq Accounts
<1>1. StatisticsInit => Bounded
  BY DEF StatisticsInit
<1>2. Bounded /\ [StatisticsNext]_statisticsVars => Bounded'
  BY DEF StatisticsNext, statisticsVars, SaveTraffic, ResetCounter, DeleteAccount, CreateAccount,
     RestoreCounters, NextDay, ListUsers, ReadFirstRow, WriteRows, Listed
<1>3. StatisticsInv /\ Bounded => StatisticsTypeOK
  BY DEF StatisticsInv, StatisticsTypeOK, Counters, Rows, Listings
<1> QED BY <1>1, <1>2, <1>3, ListsTyped, PTL DEF StatisticsSpec
=============================================================================
