----------------------------- MODULE MCDatabase -----------------------------
(* Instances of Database for TLC. *)
EXTENDS Database, TLC

CONSTANTS a, b

MCTypes == {a, b}

(* The loops treat all index types alike. *)
Symmetry == Permutations(MCTypes)

(* After a method ran out of memory: up to the next loop over the indices. *)
UntilTorn == torn => call.op \in {"none", "add"}
=============================================================================
