----------------------------- MODULE PanelAccess -----------------------------
(***************************************************************************)
(* Who may use the panel: the limiter of attempts that every login and     *)
(* every personal page goes through, the sessions a login opens, and the   *)
(* change of the password that is to end them.                             *)
(*                                                                         *)
(* The limiter takes its lock for each call, not for the attempt: between  *)
(* "allowed" and "fail" there is the verification, and other threads.      *)
(* Sessions are signed values that the panel does not keep; what ends them *)
(* is their time and the secret that signed them.                          *)
(***************************************************************************)
EXTENDS WebThreads

CONSTANTS
    Keys,           \* what attempts are counted by: address, "client:" address
    Limit,          \* failures within the window that close a key (8)
    Window,         \* how long a failure counts (900 s), in ticks
    Lifetime,       \* of a session (43200 s), in ticks
    MaxSessions,    \* bound on the sessions that are kept track of
    MaxChanges      \* bound on the changes of the password

ASSUME AccessAssumption ==
    /\ Limit \in Nat \ {0} /\ Window \in Nat \ {0} /\ Lifetime \in Nat
    /\ MaxSessions \in Nat /\ MaxChanges \in Nat
    /\ "nothing" \notin Keys

VARIABLES
    failures,   \* failures[k][a]: how many of those kept for key k are at most a ticks old
    attempt,    \* attempt[t]: the key thread t is verifying for, or Nothing
    config,     \* password and session_secret in config.json
    loaded,     \* what the web process has read at its start; Down without one
    sessions,   \* sessions that have been opened: secret, password used, age
    change      \* the change of the password: "none", "written", "done"

accessVars == <<failures, attempt, config, loaded, sessions, change>>

Nothing == "nothing"
NoFailures == [age \in 0..Window |-> 0]
Down == [password |-> -1, secret |-> -1]

Configs == [password : 0..MaxChanges, secret : 0..MaxChanges]

AccessTypeOK ==
    /\ failures \in [Keys -> [0..Window -> Nat]]
    /\ attempt \in [Threads -> Keys \cup {Nothing}]
    /\ config \in Configs
    /\ loaded \in Configs \cup {Down}
    /\ sessions \subseteq [secret : 0..MaxChanges, password : 0..MaxChanges, age : 0..Lifetime + 1]
    /\ change \in {"none", "written", "done"}

AccessInit ==
    /\ failures = [k \in Keys |-> NoFailures]
    /\ attempt = [t \in Threads |-> Nothing]
    /\ config = [password |-> 0, secret |-> 0]
    /\ loaded = config
    /\ sessions = {}
    /\ change = "none"

-----------------------------------------------------------------------------
(* Attempts.                                                               *)

\* stamp > now - 900
Recent(k) == failures[k][Window - 1]

\* Mutant of Allowed: one failure more.
AllowedOneMore(k) == Recent(k) <= Limit

Allowed(k) == Recent(k) < Limit

\* Mutant of Ask: an attempt that is turned away counts as a failure, in place
\* of the oldest.
AskCounted(t, k) ==
    /\ loaded # Down
    /\ attempt[t] = Nothing
    /\ failures' = [failures EXCEPT ![k] = [age \in 0..Window |->
                       IF @[age] >= Recent(k) THEN Recent(k)
                       ELSE IF Allowed(k) THEN @[age] ELSE @[age] + 1]]
    /\ attempt' = [attempt EXCEPT ![t] = IF Allowed(k) THEN k ELSE Nothing]
    /\ UNCHANGED <<config, loaded, sessions, change>>

\* allowed(): old failures are dropped; the attempt goes on, or is answered 429.
Ask(t, k) ==
    /\ loaded # Down
    /\ attempt[t] = Nothing
    /\ failures' = [failures EXCEPT ![k][Window] = Recent(k)]
    /\ attempt' = [attempt EXCEPT ![t] = IF Allowed(k) THEN k ELSE Nothing]
    /\ UNCHANGED <<config, loaded, sessions, change>>

\* fail(): a wrong password; an unknown token, or a helper that did not answer.
Refuse(t) ==
    /\ attempt[t] # Nothing
    /\ failures' = [failures EXCEPT ![attempt[t]] = [age \in 0..Window |-> @[age] + 1]]
    /\ attempt' = [attempt EXCEPT ![t] = Nothing]
    /\ UNCHANGED <<config, loaded, sessions, change>>

\* clear() without a session: the personal page of a user.
ShowPersonal(t) ==
    /\ attempt[t] # Nothing
    /\ failures' = [failures EXCEPT ![attempt[t]] = NoFailures]
    /\ attempt' = [attempt EXCEPT ![t] = Nothing]
    /\ UNCHANGED <<config, loaded, sessions, change>>

\* clear(), then create_session.
Login(t) ==
    /\ attempt[t] # Nothing
    /\ Cardinality(sessions) < MaxSessions
    /\ failures' = [failures EXCEPT ![attempt[t]] = NoFailures]
    /\ attempt' = [attempt EXCEPT ![t] = Nothing]
    /\ sessions' = sessions \cup {[secret |-> loaded.secret, password |-> loaded.password, age |-> 0]}
    /\ UNCHANGED <<config, loaded, change>>

\* A body that cannot be read: an error, neither failure nor success.
Abandon(t) ==
    /\ attempt[t] # Nothing
    /\ attempt' = [attempt EXCEPT ![t] = Nothing]
    /\ UNCHANGED <<failures, config, loaded, sessions, change>>

-----------------------------------------------------------------------------
(* Time, the process, and the change of the password.                      *)

Older(age, end) == IF age < end THEN age + 1 ELSE end

Tick ==
    /\ failures' = [k \in Keys |-> [age \in 0..Window |->
           IF age = 0 THEN 0 ELSE failures[k][IF age = Window THEN age ELSE age - 1]]]
    /\ sessions' = {[s EXCEPT !.age = Older(@, Lifetime + 1)] : s \in sessions}
    /\ UNCHANGED <<attempt, config, loaded, change>>

\* The failures and the threads are gone with the process.
StopPanel ==
    /\ loaded # Down
    /\ loaded' = Down
    /\ failures' = [k \in Keys |-> NoFailures]
    /\ attempt' = [t \in Threads |-> Nothing]
    /\ UNCHANGED <<config, sessions, change>>

StartPanel ==
    /\ loaded = Down
    /\ loaded' = config
    /\ UNCHANGED <<failures, attempt, config, sessions, change>>

\* Mutant of WriteNewPassword: the secret stays.
WriteHashOnly ==
    /\ change # "written"
    /\ config.password < MaxChanges
    /\ config' = [config EXCEPT !.password = @ + 1]
    /\ change' = "written"
    /\ UNCHANGED <<failures, attempt, loaded, sessions>>

\* change_panel_password replaces both in one file.
WriteNewPassword ==
    /\ change # "written"
    /\ config.password < MaxChanges
    /\ config' = [password |-> config.password + 1, secret |-> config.secret + 1]
    /\ change' = "written"
    /\ UNCHANGED <<failures, attempt, loaded, sessions>>

\* systemctl restart, and "all active sessions are closed".  A restart that
\* fails ends the script; the panel is down then.
RestartPanel ==
    /\ change = "written"
    /\ loaded' = config
    /\ failures' = [k \in Keys |-> NoFailures]
    /\ attempt' = [t \in Threads |-> Nothing]
    /\ change' = "done"
    /\ UNCHANGED <<config, sessions>>

RestartFails ==
    /\ change = "written"
    /\ loaded' = Down
    /\ failures' = [k \in Keys |-> NoFailures]
    /\ attempt' = [t \in Threads |-> Nothing]
    /\ change' = "none"
    /\ UNCHANGED <<config, sessions>>

AccessNext ==
    \/ \E t \in Threads, k \in Keys : Ask(t, k)
    \/ \E t \in Threads : Refuse(t) \/ ShowPersonal(t) \/ Login(t) \/ Abandon(t)
    \/ Tick
    \/ StopPanel \/ StartPanel
    \/ WriteNewPassword \/ RestartPanel \/ RestartFails

AccessSpec == AccessInit /\ [][AccessNext]_accessVars

-----------------------------------------------------------------------------
(* Properties.                                                             *)

Verifying(k) == {t \in Threads : attempt[t] = k}

\* Within one window a key gets no more tries than the limit says and the
\* threads that were already verifying when it was reached: RateLimiter checks
\* and counts in two calls.
AttemptsBounded ==
    \A k \in Keys : Recent(k) + Cardinality(Verifying(k)) <= Limit - 1 + Cardinality(Threads)

\* read_session
Accepted(s) == loaded # Down /\ s.secret = loaded.secret /\ s.age <= Lifetime

\* "all active sessions are closed" (change_panel_password): after it, whoever is
\* let in by a session has logged in with the password that is in force, also if
\* the login was under way when the password changed.
OldSessionsEnd ==
    change = "done" => \A s \in sessions : Accepted(s) => s.password = config.password

\* A key that is closed is opened again, however often it is tried meanwhile.
ClosedKeysOpen == \A k \in Keys : ~Allowed(k) ~> Allowed(k)
=============================================================================
