----------------------------- MODULE UndoState -----------------------------
(***************************************************************************)
(* chainbase::undo_state<value_type> and what generic_index does with it:  *)
(* recording a change (on_create, on_modify, on_remove), putting the       *)
(* recorded values back (undo) and merging two of them (squash).           *)
(*                                                                         *)
(* A table of rows, old_values and removed_values are total functions from *)
(* ids to rows; Absent marks an id the container does not hold.  A row has *)
(* a `key', the value of a second unique index besides by_id, and `data',  *)
(* everything no index looks at.                                           *)
(***************************************************************************)
EXTENDS Integers

CONSTANTS
    Ids,          \* ids of rows (oid<T>: integers, ordered)
    Keys,         \* values of the second unique index
    Datas,        \* contents
    Absent        \* no row

Rows == [key : Keys, data : Datas]

ASSUME IdsAssumption == Ids \subseteq Int
ASSUME AbsentAssumption == Absent \notin Rows

Tables == [Ids -> Rows \cup {Absent}]

UndoStates ==
    [old_values : Tables, removed_values : Tables,
     new_ids : SUBSET Ids, revision : Int]

NoRows == [id \in Ids |-> Absent]

(* undo_state's constructor, and the revision start_undo_session gives it. *)
FreshState(r) ==
    [old_values |-> NoRows, removed_values |-> NoRows,
     new_ids |-> {}, revision |-> r]

(***************************************************************************)
(* Uniqueness.  Clash: another row than id's already has this row's key.   *)
(***************************************************************************)
Clash(table, id, row) ==
    \E other \in Ids \ {id} : table[other] # Absent /\ table[other].key = row.key

Unique(table) ==
    \A id \in Ids : table[id] # Absent => ~Clash(table, id, table[id])

(***************************************************************************)
(* Recording a change in the head of the undo stack.                       *)
(***************************************************************************)
on_create(u, id) ==
    [u EXCEPT !.new_ids = @ \cup {id}]

(* Mutant: new_ids is not consulted. *)
OnModifyRecordsNew(u, table, id) ==
    IF u.old_values[id] # Absent
    THEN u
    ELSE [u EXCEPT !.old_values[id] = table[id]]

on_modify(u, table, id) ==
    IF id \in u.new_ids \/ u.old_values[id] # Absent
    THEN u
    ELSE [u EXCEPT !.old_values[id] = table[id]]

(* map::emplace keeps an entry that is already there. *)
Emplaced(old, row) == IF old = Absent THEN row ELSE old

(* Mutant: the id of a row created in this session stays in new_ids. *)
OnRemoveKeepsNew(u, table, id) ==
    IF id \in u.new_ids
    THEN u
    ELSE [u EXCEPT !.removed_values[id] =
                      Emplaced(@, Emplaced(u.old_values[id], table[id])),
                   !.old_values[id] = Absent]

on_remove(u, table, id) ==
    IF id \in u.new_ids
    THEN [u EXCEPT !.new_ids = @ \ {id}]
    ELSE IF u.old_values[id] # Absent
    THEN [u EXCEPT !.removed_values[id] = Emplaced(@, u.old_values[id]),
                   !.old_values[id] = Absent]
    ELSE [u EXCEPT !.removed_values[id] = Emplaced(@, table[id])]

(***************************************************************************)
(* undo: new rows are erased, then old values are put back in the order of *)
(* their ids, then removed rows are inserted again.                        *)
(***************************************************************************)
Erased(table, u) ==
    [id \in Ids |-> IF id \in u.new_ids THEN Absent ELSE table[id]]

(* The table when the loop over old_values reaches id n. *)
RestoredBelow(table, u, n) ==
    [id \in Ids |-> IF u.old_values[id] # Absent /\ id < n
                    THEN u.old_values[id]
                    ELSE Erased(table, u)[id]]

Revert(table, u) ==
    [id \in Ids |-> IF u.removed_values[id] # Absent
                    THEN u.removed_values[id]
                    ELSE IF u.old_values[id] # Absent
                    THEN u.old_values[id]
                    ELSE Erased(table, u)[id]]

(* Every find() of the undo loops succeeds: erasing or modifying end() is   *)
(* undefined behaviour.                                                     *)
RevertDefined(table, u) ==
    /\ \A id \in u.new_ids : table[id] # Absent
    /\ \A id \in Ids : u.old_values[id] # Absent => Erased(table, u)[id] # Absent

(* Mutant: removed rows are inserted before new rows are erased. *)
RevertUniqueEarly(table, u) ==
    \A id \in Ids : u.removed_values[id] # Absent =>
      ~Clash(table, id, u.removed_values[id])

(* No modify() or emplace() of the undo loops meets a uniqueness violation. *)
(* The insertions all succeed exactly when every id is free and the table   *)
(* that results has unique keys, for they only add rows.                    *)
RevertUnique(table, u) ==
    /\ \A id \in Ids : u.old_values[id] # Absent =>
          ~Clash(RestoredBelow(table, u, id), id, u.old_values[id])
    /\ \A id \in Ids : u.removed_values[id] # Absent =>
          u.old_values[id] = Absent /\ Erased(table, u)[id] = Absent
    /\ Unique(Revert(table, u))

(***************************************************************************)
(* squash: prev_state A absorbs state B, one loop per container of B.      *)
(***************************************************************************)

(* Mutant: the newer old value replaces the older one. *)
MergedOldOverwrites(A, B) ==
    [id \in Ids |-> IF B.old_values[id] # Absent /\ id \notin A.new_ids
                    THEN B.old_values[id]
                    ELSE A.old_values[id]]

(* After the loop over B.old_values. *)
MergedOld(A, B) ==
    [id \in Ids |-> IF A.old_values[id] = Absent /\ id \notin A.new_ids
                    THEN B.old_values[id]
                    ELSE A.old_values[id]]

(* After the loop over B.new_ids. *)
MergedNew(A, B) == A.new_ids \cup B.new_ids

(* Mutant: the loop over B.removed_values is missing. *)
MergeForgetsRemoved(A, B) ==
    [A EXCEPT !.old_values = MergedOld(A, B), !.new_ids = MergedNew(A, B)]

(* After the loop over B.removed_values: the final prev_state. *)
Merge(A, B) ==
    LET del(id) == B.removed_values[id] # Absent
        was_new(id) == id \in MergedNew(A, B)
    IN  [A EXCEPT
          !.old_values =
             [id \in Ids |-> IF del(id) /\ ~was_new(id)
                             THEN Absent
                             ELSE MergedOld(A, B)[id]],
          !.removed_values =
             [id \in Ids |-> IF del(id) /\ ~was_new(id)
                             THEN Emplaced(A.removed_values[id],
                                    Emplaced(MergedOld(A, B)[id],
                                             B.removed_values[id]))
                             ELSE A.removed_values[id]],
          !.new_ids =
             {id \in MergedNew(A, B) : ~del(id)}]

(* The assertions squash makes about the "N/A" cells of its table. *)
MergeAsserts(A, B) ==
    \A id \in Ids :
      /\ B.old_values[id] # Absent /\ id \notin A.new_ids
         /\ A.old_values[id] = Absent
            => A.removed_values[id] = Absent
      /\ B.removed_values[id] # Absent /\ id \notin MergedNew(A, B)
         /\ MergedOld(A, B)[id] = Absent
            => A.removed_values[id] = Absent

(***************************************************************************)
(* squash interrupted: the part of B that its three loops have merged when *)
(* the given loop is at id n, whether that entry needs memory in A, and    *)
(* the rows that have by then been moved out of B.removed_values.          *)
(***************************************************************************)
SquashLoops == {"old_values", "new_ids", "removed_values"}

Merged(B, loop, n) ==
    LET Below(T) == [id \in Ids |-> IF id < n THEN T[id] ELSE Absent] IN
    CASE loop = "old_values" ->
           [B EXCEPT !.old_values = Below(@), !.new_ids = {}, !.removed_values = NoRows]
      [] loop = "new_ids" ->
           [B EXCEPT !.new_ids = {id \in @ : id < n}, !.removed_values = NoRows]
      [] loop = "removed_values" ->
           [B EXCEPT !.removed_values = Below(@)]

Allocates(A, B, loop, n) ==
    CASE loop = "old_values" ->
           B.old_values[n] # Absent /\ A.old_values[n] = Absent /\ n \notin A.new_ids
      [] loop = "new_ids" ->
           n \in B.new_ids \ A.new_ids
      [] loop = "removed_values" ->
           B.removed_values[n] # Absent /\ n \notin MergedNew(A, B)

MovedOut(A, B, loop, n) ==
    {id \in Ids : /\ loop = "removed_values" /\ id < n
                  /\ Allocates(A, B, loop, id)
                  /\ MergedOld(A, B)[id] = Absent}
=============================================================================
