--------------------------- MODULE DatabaseStore ----------------------------
(***************************************************************************)
(* What chainbase::database promises its users: all its tables together    *)
(* are one VersionedStore, whatever crashes, as long as the database is    *)
(* only used with all of its indices and its loops do not run out of       *)
(* memory.  Database, which moves one index after the other, is shown to   *)
(* implement this module.                                                  *)
(***************************************************************************)
EXTENDS VersionedStore

VARIABLE whole  \* never used without some of its indices, nor torn

UndoAll ==
    /\ history # <<>>
    /\ table' = history[1]
    /\ history' = <<>>
    /\ revision' = revision - Len(history)

Operation == (Next \/ UndoAll) /\ UNCHANGED whole

(* Used in part, or torn by a failed allocation: nothing is promised any more. *)
Abandon == whole' = FALSE

DatabaseSpec ==
    /\ Init /\ whole = TRUE
    /\ [][Operation \/ Abandon]_<<vars, whole>>
=============================================================================
