----------------------------- MODULE MCUserPlans -----------------------------
(* Instances of UserPlans for TLC.                                           *)
EXTENDS UserPlans, TLC

\* Ids and users are only compared with each other.  Not used for liveness.
Symmetry == Permutations(Users) \cup Permutations(Ids)
=============================================================================
