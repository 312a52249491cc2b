----------------------------- MODULE UserLabels -----------------------------
(***************************************************************************)
(* The labels of users.  A server with the extension keeps them in         *)
(* passwords.json; one without it drops the field whenever it saves, so    *)
(* that the panel writes every label to a file of its own as well, until   *)
(* the extension is verified (update_panel_label, remove_panel_label).     *)
(*                                                                         *)
(* The second file is written after the transaction on the first: the      *)
(* server is running again by then, and the helper may be killed before.   *)
(* Of the transaction itself, which is AdminTransaction's, the steps are   *)
(* kept that an installer can come between (ExtensionUpgrade).             *)
(***************************************************************************)
EXTENDS Integers, FiniteSets

CONSTANTS
    People,         \* passwords
    Labels,         \* labels an administrator may give
    MaxOperations   \* bound on the operations

ASSUME LabelsAssumption ==
    /\ MaxOperations \in Nat
    /\ {"no user", "missing", "blank"} \cap Labels = {}

VARIABLES
    file,       \* file[u]: the field "label" of u in passwords.json
    sidecar,    \* sidecar[u]: the label in user-labels.json, Missing without one
    copied,     \* copied[u]: the labels of u in copies of passwords.json
    marker,     \* the state file wdtt-extensions.json: "none", "v9", "v10"
    binary,     \* /usr/local/bin/wdtt-server: "plain", "v9", "v10"
    running,    \* the binary the server is running, Stopped
    left,       \* that server is one which the rollback of an upgrade could not stop
    memory,     \* what the server has read
    helper,     \* the operation of the panel, NoOperation
    want,       \* want[u]: the label u has been given last
    unsure,     \* users of whom a label was lost on the way
    operations  \* how many operations there were

labelsVars == <<file, sidecar, copied, marker, binary, running, left, memory, helper,
                want, unsure, operations>>

NoUser == "no user"
Missing == "missing"    \* no field: omitempty, or a server that does not know it
Blank == "blank"        \* the empty string
Stopped == "stopped"

Fields == Labels \cup {NoUser, Missing, Blank}
NoOperation == [step |-> "none", kind |-> "none", user |-> NoUser, name |-> NoUser,
                label |-> Blank, wasActive |-> FALSE]

LabelsTypeOK ==
    /\ file \in [People -> Fields] /\ memory \in [People -> Fields]
    /\ sidecar \in [People -> Labels \cup {Missing}]
    /\ copied \in [People -> SUBSET Labels]
    /\ marker \in {"none", "v9", "v10"} /\ binary \in {"plain", "v9", "v10"}
    /\ running \in {"plain", "v9", "v10", Stopped} /\ left \in BOOLEAN
    /\ helper.step \in {"none", "begun", "saved", "started"}
    /\ want \in [People -> Labels \cup {Missing}]
    /\ unsure \subseteq People
    /\ operations \in 0..MaxOperations

\* A server without the extension, or with an older one; nobody has a label yet.
LabelsInit ==
    /\ \E extension \in {"none", "v9"} :
          /\ marker = extension
          /\ binary = IF extension = "none" THEN "plain" ELSE extension
    /\ running = binary /\ left = FALSE
    /\ \E registered \in SUBSET People :
          file = [u \in People |-> IF u \in registered THEN Missing ELSE NoUser]
    /\ memory = file
    /\ sidecar = [u \in People |-> Missing]
    /\ copied = [u \in People |-> {}]
    /\ helper = NoOperation
    /\ want = [u \in People |-> Missing]
    /\ unsure = {}
    /\ operations = 0

-----------------------------------------------------------------------------
(* The server.                                                             *)

\* What a binary writes of what it has read.
Written(b, data) ==
    [u \in People |-> IF data[u] = NoUser THEN NoUser
                      ELSE IF b = "plain" \/ data[u] = Blank THEN Missing
                      ELSE data[u]]

SaveDatabase ==
    /\ running # Stopped
    /\ file' = Written(running, memory)
    /\ UNCHANGED <<sidecar, copied, marker, binary, left, running, memory, helper, want,
                   unsure, operations>>

\* What is to be shown of a label that is given: nothing, if it is empty.
Given(label) == IF label = Blank THEN Missing ELSE label

\* The bot of a server with the extension: the label changes, and is saved.  If a
\* rollback has left that server there, the one installed may drop the label, and
\* what is put back has never had it.
BotLabel(u, label) ==
    /\ running \notin {Stopped, "plain"}
    /\ memory[u] # NoUser
    /\ operations < MaxOperations
    /\ memory' = [memory EXCEPT ![u] = label]
    /\ file' = Written(running, memory')
    /\ want' = [want EXCEPT ![u] = Given(label)]
    /\ unsure' = IF left THEN unsure \cup {u} ELSE unsure
    /\ operations' = operations + 1
    /\ UNCHANGED <<sidecar, copied, marker, binary, left, running, helper>>

-----------------------------------------------------------------------------
(* An operation of the panel.                                              *)

\* wdtt_extensions_are_verified
Verified == marker \in {"v9", "v10"}

\* Arguments of create_user, update_user (with a label, a new name, or both),
\* delete_user, and the bulk deletion.
Requests ==
    {request \in [step : {"begun"}, wasActive : {FALSE}, user : People, name : People,
                  kind : {"create", "relabel", "rename", "delete", "bulk delete"},
                  label : Labels \cup {Blank}] :
        /\ request.kind \notin {"relabel", "rename"} => request.name = request.user
        /\ request.kind \notin {"create", "relabel"} => request.label = Blank}

\* mutate_database stops the server if it is running.
BeginOperation ==
    /\ helper = NoOperation
    /\ operations < MaxOperations
    /\ \E request \in Requests :
          helper' = [request EXCEPT !.wasActive = (running # Stopped)]
    /\ running' = Stopped /\ left' = FALSE
    /\ operations' = operations + 1
    /\ UNCHANGED <<file, sidecar, copied, marker, binary, memory, want, unsure>>

\* A copy of passwords.json is made; which of the copies has a label that the
\* upgrade takes from there depends on their names.
Archived == [u \in People |-> copied[u] \cup ({file[u]} \cap Labels)]

\* The mutator of the operation; it rejects what does not fit.
Rejected ==
    \/ helper.kind = "create" /\ file[helper.user] # NoUser
    \/ helper.kind # "create" /\ file[helper.user] = NoUser
    \/ helper.name # helper.user /\ file[helper.name] # NoUser

Mutated ==
    LET without == [file EXCEPT ![helper.user] = NoUser]
    IN  CASE helper.kind = "create" -> [file EXCEPT ![helper.user] = helper.label]
          [] helper.kind = "relabel" -> [without EXCEPT ![helper.name] = helper.label]
          [] helper.kind = "rename" -> [without EXCEPT ![helper.name] = file[helper.user]]
          [] OTHER -> without

\* What the users are to be called once the operation is done.
Wanted ==
    LET without == [want EXCEPT ![helper.user] = Missing]
    IN  CASE helper.kind = "create" -> [want EXCEPT ![helper.user] = Given(helper.label)]
          [] helper.kind = "relabel" -> [without EXCEPT ![helper.name] = Given(helper.label)]
          [] helper.kind = "rename" -> [without EXCEPT ![helper.name] = want[helper.user]]
          [] OTHER -> without

RejectOperation ==
    /\ helper.step = "begun" /\ Rejected
    /\ copied' = Archived
    /\ running' = IF helper.wasActive THEN binary ELSE running
    /\ memory' = IF helper.wasActive THEN file ELSE memory
    /\ helper' = NoOperation
    /\ UNCHANGED <<file, sidecar, marker, binary, left, want, unsure, operations>>

\* load_database, create_backup, the mutator, save_database
ReplaceDatabase ==
    /\ helper.step = "begun" /\ ~Rejected
    /\ copied' = Archived
    /\ file' = Mutated
    /\ want' = Wanted
    /\ unsure' = IF helper.kind = "rename" /\ helper.user \in unsure
                 THEN unsure \cup {helper.name} ELSE unsure
    /\ helper' = [helper EXCEPT !.step = "saved"]
    /\ UNCHANGED <<sidecar, marker, binary, left, running, memory, operations>>

\* The server is started again, with the binary there is.
StartServer ==
    /\ helper.step = "saved"
    /\ running' = IF helper.wasActive THEN binary ELSE running
    /\ memory' = IF helper.wasActive THEN file ELSE memory
    /\ helper' = [helper EXCEPT !.step = "started"]
    /\ UNCHANGED <<file, sidecar, copied, marker, binary, left, want, unsure, operations>>

\* Mutant of Relabelled: an empty label is kept like any other.
RelabelledBlank == [[sidecar EXCEPT ![helper.user] = Missing] EXCEPT ![helper.name] = helper.label]

\* update_panel_label(name, label, user)
Relabelled == [[sidecar EXCEPT ![helper.user] = Missing] EXCEPT ![helper.name] = Given(helper.label)]

\* The end of update_user without a label, which does not ask for Verified.
Moved ==
    IF helper.user # helper.name /\ sidecar[helper.user] # Missing
    THEN [[sidecar EXCEPT ![helper.user] = Missing] EXCEPT ![helper.name] = sidecar[helper.user]]
    ELSE sidecar

\* Mutant of SidecarAfter: a new name leaves the label with the old one.
SidecarUnmoved ==
    CASE ~Verified /\ helper.kind \in {"create", "relabel"} -> Relabelled
      [] ~Verified /\ helper.kind = "delete" -> [sidecar EXCEPT ![helper.user] = Missing]
      [] OTHER -> sidecar

\* update_user, or else create_user, delete_user; bulk_user_action leaves it alone.
SidecarAfter ==
    CASE helper.kind = "rename" -> Moved
      [] ~Verified /\ helper.kind \in {"create", "relabel"} -> Relabelled
      [] ~Verified /\ helper.kind = "delete" -> [sidecar EXCEPT ![helper.user] = Missing]
      [] OTHER -> sidecar

WriteSidecar ==
    /\ helper.step = "started"
    /\ sidecar' = SidecarAfter
    /\ helper' = NoOperation
    /\ UNCHANGED <<file, copied, marker, binary, left, running, memory, want, unsure, operations>>

\* The server does not start again, which ends the operation with an error; the
\* helper is killed; or the file cannot be written.
LoseSidecar ==
    /\ helper.step \in {"saved", "started"}
    /\ unsure' = unsure \cup {helper.user, helper.name}
    /\ helper' = NoOperation
    /\ UNCHANGED <<file, sidecar, copied, marker, binary, left, running, memory, want, operations>>

LabelsNext ==
    \/ SaveDatabase
    \/ \E u \in People, label \in Labels \cup {Blank} : BotLabel(u, label)
    \/ BeginOperation \/ RejectOperation \/ ReplaceDatabase \/ StartServer
    \/ WriteSidecar \/ LoseSidecar

\* entry_with_legacy_label, as list_users calls it
Shown(u) ==
    IF file[u] \in Labels THEN file[u] ELSE IF Verified THEN Missing ELSE sidecar[u]
=============================================================================
