----------------------------- MODULE TableStore -----------------------------
(***************************************************************************)
(* What eos_db promises its callers: tables known by their names, with the *)
(* primary keys of the rows and of the secondary entries stored in each,   *)
(* and one undo session at a time.  There are no ids, counts, addresses or *)
(* caches.  EosDb, in which these decide which table a call reaches and    *)
(* when a table goes, is shown to implement this module.                   *)
(***************************************************************************)
EXTENDS Sequences

CONSTANTS Keys, Primaries

VARIABLES
    names,    \* the tables that exist
    rows,     \* the primary keys of each table's rows
    entries,  \* the primary keys of each table's secondary entries
    saved     \* what undo restores: nothing, or one snapshot

vars == <<names, rows, entries, saved>>

Init ==
    /\ names = {}
    /\ rows = [k \in Keys |-> {}]
    /\ entries = [k \in Keys |-> {}]
    /\ saved = <<>>

(* Queries and updates change none of this. *)
Query == UNCHANGED vars

Create(k) ==
    /\ k \notin names
    /\ names' = names \cup {k}
    /\ UNCHANGED <<rows, entries, saved>>

(* A row's key is new to all tables; the table is made when it is missing. *)
StoreRow(k, p) ==
    /\ \A j \in Keys : p \notin rows[j]
    /\ names' = names \cup {k}
    /\ rows' = [rows EXCEPT ![k] = @ \cup {p}]
    /\ UNCHANGED <<entries, saved>>

(* An entry's key is new to its table. *)
StoreEntry(k, p) ==
    /\ p \notin entries[k]
    /\ names' = names \cup {k}
    /\ entries' = [entries EXCEPT ![k] = @ \cup {p}]
    /\ UNCHANGED <<rows, saved>>

(* The last row of a table without entries takes it along. *)
RemoveRow(k, p) ==
    /\ p \in rows[k]
    /\ names' = IF rows[k] = {p} /\ entries[k] = {} THEN names \ {k} ELSE names
    /\ rows' = [rows EXCEPT ![k] = @ \ {p}]
    /\ UNCHANGED <<entries, saved>>

(* The last entry does not. *)
RemoveEntry(k, p) ==
    /\ p \in entries[k]
    /\ entries' = [entries EXCEPT ![k] = @ \ {p}]
    /\ UNCHANGED <<names, rows, saved>>

Start ==
    /\ saved = <<>>
    /\ saved' = <<[names |-> names, rows |-> rows, entries |-> entries]>>
    /\ UNCHANGED <<names, rows, entries>>

Commit ==
    /\ saved # <<>>
    /\ saved' = <<>>
    /\ UNCHANGED <<names, rows, entries>>

Undo ==
    /\ saved # <<>>
    /\ names' = Head(saved).names
    /\ rows' = Head(saved).rows
    /\ entries' = Head(saved).entries
    /\ saved' = <<>>

Next ==
    \/ Query
    \/ \E k \in Keys : Create(k)
    \/ \E k \in Keys, p \in Primaries : \/ StoreRow(k, p) \/ RemoveRow(k, p)
                                        \/ StoreEntry(k, p) \/ RemoveEntry(k, p)
    \/ Start \/ Commit \/ Undo

Spec == Init /\ [][Next]_vars
=============================================================================
