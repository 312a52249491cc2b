------------------------------ MODULE MCBackups ------------------------------
EXTENDS Backups, TLC

\* Versions are only compared with each other.
Symmetry == Permutations(Versions)
=============================================================================
