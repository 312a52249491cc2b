-------------------------- MODULE MCAdminTransaction --------------------------
(* Instances of AdminTransaction for TLC.                                    *)
EXTENDS AdminTransaction, TLC

\* Requests, operations with an identifier and operations without one are only
\* compared with others of their kind: permuting them changes nothing.  Not used
\* in the run that checks liveness.
Symmetry ==
    Permutations(Requests) \cup Permutations(Marked) \cup Permutations(Ops \ Marked)
=============================================================================
