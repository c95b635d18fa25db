---------------------------- MODULE MCMappedFile ----------------------------
(* Instances of MappedFile for TLC. *)
EXTENDS MappedFile, TLC

CONSTANTS p1, p2

MCProcesses == {p1, p2}

Symmetry == Permutations(MCProcesses)
=============================================================================
