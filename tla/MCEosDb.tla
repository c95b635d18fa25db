------------------------------ MODULE MCEosDb -------------------------------
(* Instances of EosDb for TLC. *)
EXTENDS EosDb, TLC

CONSTANTS k1, k2, t1, t2, r1, r2, r3, e1, e2

MCKeys == {k1, k2}
MCTableAddrs == {t1, t2}
MCTwoRows == {r1, r2}
MCThreeRows == {r1, r2, r3}
MCOneEntry == {e1}
MCTwoEntries == {e1, e2}

(* Names and addresses are only compared. *)
Symmetry == Permutations(MCKeys) \cup Permutations(MCTableAddrs)
            \cup Permutations(RowAddrs) \cup Permutations(EntryAddrs)
=============================================================================
