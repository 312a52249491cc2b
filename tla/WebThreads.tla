----------------------------- MODULE WebThreads -----------------------------
(***************************************************************************)
(* The web process serves every request in a thread of its own             *)
(* (ThreadingServer).  The modules of what the web process keeps itself    *)
(* (PanelAccess, HashLibrary, UserStatistics) share the set of threads.    *)
(***************************************************************************)
EXTENDS Integers, FiniteSets, Sequences, SequencesExt

CONSTANT Threads

ASSUME ThreadsAssumption == IsFiniteSet(Threads) /\ Threads # {}
=============================================================================
