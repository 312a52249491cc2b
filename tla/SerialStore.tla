----------------------------- MODULE SerialStore -----------------------------
(***************************************************************************)
(* What the panel promises about passwords.json, with no processes in it:  *)
(* the operations that are asked for take effect in one durable store, one *)
(* request at a time; a request takes effect at most once; one that        *)
(* repeats the identifier of an operation still in the history takes none; *)
(* what has taken effect stays; and a caller is told "ok" only after its   *)
(* operation has taken effect.  AdminTransaction implements it (see Store  *)
(* there).                                                                 *)
(***************************************************************************)
EXTENDS Naturals, Sequences

CONSTANTS Requests, Ops, NoOp, Marked, HistoryKeep

VARIABLES
    asked,      \* the operation each request asks for, NoOp before it is sent
    done,       \* the requests that have taken effect
    history,    \* the identified operations that have taken effect, in order
    answer      \* what each request has been told: "none", "ok" or "failed"

store == <<done, history>>
vars == <<asked, store, answer>>

Init == /\ asked = [r \in Requests |-> NoOp]
        /\ done = {}
        /\ history = <<>>
        /\ answer = [r \in Requests |-> "none"]

Places(o) == {i \in DOMAIN history : history[i] = o}

Ask(r, o) == /\ asked[r] = NoOp
             /\ asked' = [asked EXCEPT ![r] = o]
             /\ UNCHANGED <<store, answer>>

\* An operation that somebody asked for takes effect, once per request; one
\* with an identifier, only if the last HistoryKeep do not have it.
Apply(r) == /\ asked[r] \in Ops
            /\ r \notin done
            /\ \A i \in Places(asked[r]) : i + HistoryKeep <= Len(history)
            /\ done' = done \cup {r}
            /\ history' = IF asked[r] \in Marked THEN Append(history, asked[r])
                                                 ELSE history
            /\ UNCHANGED <<asked, answer>>

\* A caller that asked for an operation hears "ok" only if it is in effect.
AnswerOk(r) == /\ answer[r] = "none"
               /\ asked[r] \in Ops => r \in done \/ Places(asked[r]) # {}
               /\ answer' = [answer EXCEPT ![r] = "ok"]
               /\ UNCHANGED <<asked, store>>

\* A failure tells the caller nothing about the store: the operation may have
\* taken effect already, or may still do so later.
AnswerFailed(r) == /\ answer[r] = "none"
                   /\ answer' = [answer EXCEPT ![r] = "failed"]
                   /\ UNCHANGED <<asked, store>>

Next == \E r \in Requests : \/ \E o \in Ops : Ask(r, o)
                            \/ Apply(r)
                            \/ AnswerOk(r)
                            \/ AnswerFailed(r)

Spec == Init /\ [][Next]_vars
=============================================================================
