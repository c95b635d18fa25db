--------------------------- MODULE VersionedStore ---------------------------
(***************************************************************************)
(* What a chainbase index promises its users: a keyed table with nested    *)
(* undo sessions.  The state before each open session is simply kept, so   *)
(* undo, squash and commit mean what their comments in chainbase.hpp say.  *)
(* GenericIndex, which keeps per-session differences instead of whole      *)
(* snapshots, is shown to implement this module.                           *)
(***************************************************************************)
EXTENDS Integers, Sequences

CONSTANTS
    Ids,          \* the ids a row may have
    Rows,         \* the values of a row
    Absent        \* stands for "no row with this id"

VARIABLES
    table,        \* the rows, a function from ids to Rows or Absent
    history,      \* the table as it was when each open session started
    revision      \* the number of the newest revision

vars == <<table, history, revision>>

Init ==
    /\ table = [id \in Ids |-> Absent]
    /\ history = <<>>
    /\ revision = 0

(* Create, modify or remove one row. *)
Write(id, row) ==
    /\ table' = [table EXCEPT ![id] = row]
    /\ UNCHANGED <<history, revision>>

Start ==
    /\ history' = Append(history, table)
    /\ revision' = revision + 1
    /\ UNCHANGED table

(* Restore the state to how it was prior to the current session. *)
Undo ==
    /\ history # <<>>
    /\ table' = history[Len(history)]
    /\ history' = SubSeq(history, 1, Len(history) - 1)
    /\ revision' = revision - 1

(* Combine the two newest sessions: only the state between them is lost. *)
Squash ==
    /\ history # <<>>
    /\ history' = SubSeq(history, 1, Len(history) - 1)
    /\ revision' = revision - 1
    /\ UNCHANGED table

(* Forget the n oldest sessions. *)
Commit(n) ==
    /\ history' = SubSeq(history, n + 1, Len(history))
    /\ UNCHANGED <<table, revision>>

SetRevision ==
    /\ history = <<>>
    /\ revision' \in Nat
    /\ UNCHANGED <<table, history>>

Next ==
    \/ \E id \in Ids, row \in Rows \cup {Absent} : Write(id, row)
    \/ Start
    \/ Undo
    \/ Squash
    \/ \E n \in 0 .. Len(history) : Commit(n)
    \/ SetRevision

Spec == Init /\ [][Next]_vars
=============================================================================
