--------------------------- MODULE MCGenericIndex ---------------------------
(* Instances of GenericIndex for TLC. *)
EXTENDS GenericIndex, TLC

CONSTANTS k1, k2, d1, d2

MCKeys == {k1, k2}
MCDatas == {d1, d2}

(* Keys are only compared for equality, and so is data. *)
Symmetry == Permutations(MCKeys) \cup Permutations(MCDatas)
=============================================================================
