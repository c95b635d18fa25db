------------------------------- MODULE EosDb --------------------------------
(***************************************************************************)
(* eos_db: tables of rows, rows of a secondary index that belong to the    *)
(* same tables, and the iterator caches through which callers refer to     *)
(* them by number.                                                         *)
(*                                                                         *)
(* Objects live at addresses of the segment; an address is free again once *)
(* its object is removed, and the allocator may hand it out again.  The    *)
(* caches keep addresses and never hear of a removal other than their own: *)
(* when a session of the database is undone, rows and tables go, and come  *)
(* back elsewhere, behind their backs.                                     *)
(* Nothing initialises a table's id (the assignment of _next_id in         *)
(* generic_index::emplace is commented out), so a new table has any id     *)
(* that the unique index by_id accepts.                                    *)
(*                                                                         *)
(* Payers, values and secondary keys are left out: no operation branches   *)
(* on them, and an update is left with its way of failing.  Callers pass   *)
(* iterators they were given and whose row they have not removed; a call   *)
(* that throws or returns without a change is no step.                     *)
(***************************************************************************)
EXTENDS Integers, Sequences, FiniteSets, Functions

CONSTANTS
    Keys,          \* names of tables: code, scope and table
    Primaries,     \* primary keys of rows
    TableIds,      \* values a table's id may have
    TableAddrs,    \* where the segment can hold a table_id_object
    RowAddrs,      \* where it can hold a key_value_object
    EntryAddrs,    \* where it can hold a row of the secondary index
    Null,          \* the null pointer, and an address with no object
    CountModulus,  \* 2^w for the width w of table_id_object::count
    MaxIterators,  \* bound of the exploration: iterators of one cache
    Sessions,      \* TRUE: the database is also used with undo sessions
    RepeatIds,     \* TRUE: a new table may get an id that a cache knows
    KeepCaches     \* TRUE: an eos_db object is used on after an undo

ASSUME IntegersAssumption == Primaries \subseteq Int /\ TableIds \subseteq Int
ASSUME AddressesAssumption ==
    /\ Null \notin TableAddrs \cup RowAddrs \cup EntryAddrs
    /\ TableAddrs \cap RowAddrs = {}
    /\ TableAddrs \cap EntryAddrs = {}
    /\ RowAddrs \cap EntryAddrs = {}
ASSUME CountAssumption ==
    /\ CountModulus \in Nat
    /\ IsFiniteSet(RowAddrs) /\ IsFiniteSet(EntryAddrs)
    /\ Cardinality(RowAddrs) + Cardinality(EntryAddrs) < CountModulus
ASSUME BoundsAssumption == MaxIterators \in Nat
ASSUME UseAssumption == {Sessions, RepeatIds, KeepCaches} \subseteq BOOLEAN

VARIABLES
    tables,   \* the table_id_objects of the segment, by address
    rows,     \* the key_value_objects
    entries,  \* the index_objects of one secondary index
    keyval,   \* keyval_cache
    idx,      \* the itr_cache of the secondary index
    session,  \* the undo session of the database, or Null
    status    \* "ok", or how the process left defined behaviour: through a
              \* removed object ("undefined"), an assertion ("aborted") or the
              \* removed table of an end iterator ("dangling")

vars == <<tables, rows, entries, keyval, idx, session, status>>

-----------------------------------------------------------------------------
LiveTables == {a \in TableAddrs : tables[a] # Null}

LiveRows == {a \in RowAddrs : rows[a] # Null}

LiveEntries == {a \in EntryAddrs : entries[a] # Null}

(* A row or an entry: `owner' is history, the name of the table it was     *)
(* stored in; the code knows that table only by its id.                    *)
Elements == [t_id : TableIds, primary : Primaries, owner : Keys]

Counts == 0 .. CountModulus - 1

TableObjects == [id : TableIds, key : Keys, count : Counts]

(* What an iterator of a cache over the objects at `addrs' stands for. *)
Places(addrs) == [at : addrs, element : Elements]

(* What an undo session keeps. *)
Snapshots ==
    [tables : [TableAddrs -> TableObjects \cup {Null}],
     rows : [RowAddrs -> Elements \cup {Null}],
     entries : [EntryAddrs -> Elements \cup {Null}],
     kept : SUBSET (TableAddrs \cup RowAddrs \cup EntryAddrs)]

ASSUME NullAssumption ==
    /\ Null \notin TableObjects \cup Elements
    /\ Null \notin Places(RowAddrs) \cup Places(EntryAddrs)
    /\ Null \notin Snapshots

-----------------------------------------------------------------------------
(***************************************************************************)
(* iterator_cache.  Its four containers are `tables' (_table_cache, from   *)
(* id to address and end iterator), `ends' (_end_iterator_to_table),       *)
(* `objects' (_iterator_to_object) and `iterator_of' (_object_to_iterator).*)
(* A place of `objects' also records, as history, which element the        *)
(* iterator stood for when it was handed out.                              *)
(***************************************************************************)
EmptyCache == [tables |-> <<>>, ends |-> <<>>, objects |-> <<>>,
               iterator_of |-> <<>>]

(* Types of the containers of a cache over the objects at `addrs'. *)
CacheTyped(c, addrs) ==
    /\ DOMAIN c = {"tables", "ends", "objects", "iterator_of"}
    /\ DOMAIN c.tables \subseteq TableIds
    /\ \A id \in DOMAIN c.tables : /\ c.tables[id].table \in TableAddrs
                                    /\ c.tables[id].end \in Int
    /\ c.ends \in Seq(TableAddrs)
    /\ c.objects \in Seq(Places(addrs) \cup {Null})
    /\ DOMAIN c.iterator_of \subseteq addrs
    /\ \A a \in DOMAIN c.iterator_of : c.iterator_of[a] \in Nat

With(f, x, v) == [y \in DOMAIN f \cup {x} |-> IF y = x THEN v ELSE f[y]]

Without(f, x) == [y \in DOMAIN f \ {x} |-> f[y]]

index_to_end_iterator(n) == -(n + 2)

end_iterator_to_index(e) == -e - 2

EndIterators(c) == {index_to_end_iterator(n) : n \in 0 .. Len(c.ends) - 1}

(* The first table cached under an id stays. *)
cache_table(c, id, a) ==
    IF id \in DOMAIN c.tables THEN c
    ELSE [c EXCEPT
            !.tables = With(@, id,
                            [table |-> a,
                             end |-> index_to_end_iterator(Len(c.ends))]),
            !.ends = Append(@, a)]

(* Iterators that a caller may pass on: they have an object. *)
Held(c) == {i \in 0 .. Len(c.objects) - 1 : c.objects[i + 1] # Null}

get(c, i) == c.objects[i + 1].at

(* Mutant: the pointer stays in the map. *)
CacheRemoveKeeps(c, i) == [c EXCEPT !.objects[i + 1] = Null]

CacheRemove(c, i) ==
    [c EXCEPT !.objects[i + 1] = Null, !.iterator_of = Without(@, get(c, i))]

(* Mutant: the number is taken before the place is appended. *)
AddBeforePush(c, a, x) ==
    IF a \in DOMAIN c.iterator_of
    THEN [cache |-> c, iterator |-> c.iterator_of[a]]
    ELSE [cache |-> [c EXCEPT
                        !.objects = Append(@, [at |-> a, element |-> x]),
                        !.iterator_of = With(@, a, Len(c.objects) - 1)],
          iterator |-> Len(c.objects)]

(* add: the cache and the iterator of the object at address a. *)
add(c, a, x) ==
    IF a \in DOMAIN c.iterator_of
    THEN [cache |-> c, iterator |-> c.iterator_of[a]]
    ELSE [cache |-> [c EXCEPT
                        !.objects = Append(@, [at |-> a, element |-> x]),
                        !.iterator_of = With(@, a, Len(c.objects))],
          iterator |-> Len(c.objects)]

-----------------------------------------------------------------------------
Halt(why) ==
    /\ status' = why
    /\ UNCHANGED <<tables, rows, entries, keyval, idx, session>>

(* Mutant: a removal does not count down. *)
CountedUp(n, d) == IF d = 1 THEN (n + 1) % CountModulus ELSE n

(* ++count and --count of a uint32_t. *)
Counted(n, d) == (n + d) % CountModulus

find_table(k) == {a \in LiveTables : tables[a].key = k}

(* What the memory of a new table may hold in place of its id, of the      *)
(* values that by_id does not refuse.                                      *)
NewIds ==
    {id \in TableIds :
        /\ \A a \in LiveTables : tables[a].id # id
        /\ RepeatIds \/ id \notin DOMAIN keyval.tables \cup DOMAIN idx.tables}

NewTable(k, id) == [id |-> id, key |-> k, count |-> 0]

(* The tables after find_or_create_table, and the address it returns. *)
FoundOrCreated(k) ==
    IF find_table(k) # {}
    THEN {[at |-> a, tables |-> tables] : a \in find_table(k)}
    ELSE {[at |-> a, tables |-> [tables EXCEPT ![a] = NewTable(k, id)]] :
            a \in TableAddrs \ LiveTables, id \in NewIds}

find_or_create_table(k) ==
    /\ status = "ok"
    /\ find_table(k) = {}
    /\ \E f \in FoundOrCreated(k) : tables' = f.tables
    /\ UNCHANGED <<rows, entries, keyval, idx, session, status>>

(* create of a table whose name exists throws. *)
db_store_by_scope(k) ==
    /\ status = "ok"
    /\ find_table(k) = {}
    /\ \E a \in TableAddrs \ LiveTables, id \in NewIds :
          tables' = [tables EXCEPT ![a] = NewTable(k, id)]
    /\ UNCHANGED <<rows, entries, keyval, idx, session, status>>

(* Mutant: the table is not put into the cache. *)
StoredUncached(c, f, a, x) == add(c, a, x).cache

(* The cache after a store into table f.at: cache_table, then add. *)
Stored(c, f, a, x) == add(cache_table(c, x.t_id, f.at), a, x).cache

(* db_store_i64 gives the row the caller's number as its id, which by_id   *)
(* keeps unique over the rows of all tables.                               *)
db_store_i64(k, p) ==
    /\ status = "ok"
    /\ \E f \in FoundOrCreated(k) :
           LET x == [t_id |-> f.tables[f.at].id, primary |-> p, owner |-> k]
           IN
           /\ \A b \in LiveRows : rows[b].primary # p
           /\ \E a \in RowAddrs \ LiveRows :
                 /\ rows' = [rows EXCEPT ![a] = x]
                 /\ tables' = [f.tables EXCEPT ![f.at].count = Counted(@, 1)]
                 /\ keyval' = Stored(keyval, f, a, x)
           /\ Len(keyval'.objects) <= MaxIterators
           /\ UNCHANGED <<entries, idx, session, status>>

(* create throws, because a row of some table has the number: a table that *)
(* was created for it stays, empty.                                        *)
StoreRefused(k, p) ==
    /\ \E b \in LiveRows : rows[b].primary = p
    /\ find_or_create_table(k)

(* generic_index::store of the secondary index; by_primary is unique within *)
(* a table.                                                                *)
SecondaryStore(k, p) ==
    /\ status = "ok"
    /\ \E f \in FoundOrCreated(k) :
           LET x == [t_id |-> f.tables[f.at].id, primary |-> p, owner |-> k]
           IN
           /\ \A b \in LiveEntries :
                 entries[b].primary # p \/ entries[b].t_id # x.t_id
           /\ \E a \in EntryAddrs \ LiveEntries :
                 /\ entries' = [entries EXCEPT ![a] = x]
                 /\ tables' = [f.tables EXCEPT ![f.at].count = Counted(@, 1)]
                 /\ idx' = Stored(idx, f, a, x)
           /\ Len(idx'.objects) <= MaxIterators
           /\ UNCHANGED <<rows, keyval, session, status>>

(* The same when the id of a new entry, which nothing initialises either,  *)
(* is that of another entry.                                               *)
SecondaryStoreRefused(k) ==
    /\ LiveEntries # {}
    /\ find_or_create_table(k)

(* How get and get_table fail for iterator i of cache c over the objects os: *)
(* a pointer to a removed object, or the assertion that the table is cached. *)
Failure(c, os, i) ==
    LET x == os[get(c, i)] IN
    IF x = Null THEN "undefined"
    ELSE IF x.t_id \notin DOMAIN c.tables THEN "aborted"
    ELSE IF tables[c.tables[x.t_id].table] = Null THEN "undefined"
    ELSE "none"

(* The table that get_table returns for the object of iterator i. *)
TableOf(c, os, i) == c.tables[os[get(c, i)].t_id].table

(* The objects at the addresses in S are gone; undo would have to insert   *)
(* them again.                                                             *)
Removed(S) ==
    session' = IF session = Null THEN Null ELSE [session EXCEPT !.kept = @ \ S]

(* The last row takes its table along. *)
db_remove_i64(i) ==
    /\ status = "ok"
    /\ IF Failure(keyval, rows, i) # "none" THEN Halt(Failure(keyval, rows, i))
       ELSE LET a == TableOf(keyval, rows, i)
                n == Counted(tables[a].count, -1)
            IN
            /\ tables' = [tables EXCEPT
                            ![a] = IF n = 0 THEN Null ELSE [@ EXCEPT !.count = n]]
            /\ rows' = [rows EXCEPT ![get(keyval, i)] = Null]
            /\ keyval' = CacheRemove(keyval, i)
            /\ Removed({get(keyval, i)} \cup (IF n = 0 THEN {a} ELSE {}))
            /\ UNCHANGED <<entries, idx, status>>

(* generic_index::remove of the secondary index; the table stays. *)
SecondaryRemove(i) ==
    /\ status = "ok"
    /\ IF Failure(idx, entries, i) # "none" THEN Halt(Failure(idx, entries, i))
       ELSE LET a == TableOf(idx, entries, i)
            IN
            /\ tables' = [tables EXCEPT ![a].count = Counted(@, -1)]
            /\ entries' = [entries EXCEPT ![get(idx, i)] = Null]
            /\ idx' = CacheRemove(idx, i)
            /\ Removed({get(idx, i)})
            /\ UNCHANGED <<rows, keyval, status>>

(* Updates: the values they write are left out, and what is left is the way *)
(* they fail.  db_update_by_scope gets a reference to a table that is there. *)
db_update_by_scope(k) ==
    /\ status = "ok"
    /\ find_table(k) # {}
    /\ UNCHANGED vars

db_update_i64(i) ==
    /\ status = "ok"
    /\ IF rows[get(keyval, i)] = Null THEN Halt("undefined") ELSE UNCHANGED vars

SecondaryUpdate(i) ==
    /\ status = "ok"
    /\ IF Failure(idx, entries, i) # "none" THEN Halt(Failure(idx, entries, i))
       ELSE UNCHANGED vars

-----------------------------------------------------------------------------
(***************************************************************************)
(* An undo session of the database.  undo erases the objects created since *)
(* it started, puts the old values of the others back where they are, and  *)
(* inserts the removed ones again, wherever the allocator finds room.      *)
(* `kept' are the addresses whose object is still the one of the start.    *)
(***************************************************************************)
NoCaches == keyval' = EmptyCache /\ idx' = EmptyCache

(* Another eos_db object on the same database. *)
construct ==
    /\ status = "ok"
    /\ NoCaches
    /\ UNCHANGED <<tables, rows, entries, session, status>>

start_undo_session ==
    /\ status = "ok"
    /\ Sessions
    /\ session = Null
    /\ session' = [tables |-> tables, rows |-> rows, entries |-> entries,
                   kept |-> LiveTables \cup LiveRows \cup LiveEntries]
    /\ UNCHANGED <<tables, rows, entries, keyval, idx, status>>

(* The session is pushed and committed, or squashed with none below it. *)
commit ==
    /\ status = "ok"
    /\ session # Null
    /\ session' = Null
    /\ UNCHANGED <<tables, rows, entries, keyval, idx, status>>

(* The places that removed objects of `old' may get. *)
Reinsertions(old) ==
    LET lost == {a \in DOMAIN old : old[a] # Null /\ a \notin session.kept}
    IN  Injection(lost, DOMAIN old \ session.kept)

(* Mutant: the old values of a table are not put back. *)
TableNow(old, a) == IF a \in TableAddrs THEN tables[a] ELSE old[a]

OldValue(old, a) == old[a]

Restored(old, place) ==
    [a \in DOMAIN old |->
        IF a \in session.kept THEN OldValue(old, a)
        ELSE IF \E b \in DOMAIN place : place[b] = a
        THEN old[CHOOSE b \in DOMAIN place : place[b] = a]
        ELSE Null]

undo ==
    /\ status = "ok"
    /\ session # Null
    /\ \E place \in Reinsertions(session.tables) :
          tables' = Restored(session.tables, place)
    /\ \E place \in Reinsertions(session.rows) :
          rows' = Restored(session.rows, place)
    /\ \E place \in Reinsertions(session.entries) :
          entries' = Restored(session.entries, place)
    /\ session' = Null
    /\ IF KeepCaches THEN UNCHANGED <<keyval, idx>> ELSE NoCaches
    /\ UNCHANGED status

-----------------------------------------------------------------------------
(***************************************************************************)
(* Queries run over by_scope_primary, the order of the rows of all tables. *)
(***************************************************************************)
Before(a, b) ==
    \/ rows[a].t_id < rows[b].t_id
    \/ rows[a].t_id = rows[b].t_id /\ rows[a].primary < rows[b].primary

(* The first and the last of a set of rows, if there is one. *)
First(S) == {a \in S : \A b \in S : ~Before(b, a)}

Final(S) == {a \in S : \A b \in S : ~Before(a, b)}

(* lower_bound and upper_bound of (t, p). *)
LowerBound(t, p) ==
    First({a \in LiveRows : \/ rows[a].t_id > t
                            \/ rows[a].t_id = t /\ rows[a].primary >= p})

UpperBound(t, p) ==
    First({a \in LiveRows : \/ rows[a].t_id > t
                            \/ rows[a].t_id = t /\ rows[a].primary > p})

(* Mutant: a row of the next table is taken for one of this table. *)
WithinAny(S, t) == S

Within(S, t) == {a \in S : rows[a].t_id = t}

(* The iterator of the row in S, or e when there is none. *)
Answer(c, S, e) ==
    IF S = {} THEN [cache |-> c, iterator |-> e]
    ELSE LET a == CHOOSE a \in S : TRUE IN add(c, a, rows[a])

(* A query of the table at address a that is to return the row in S. *)
Ask(a, S) ==
    LET id == tables[a].id
        c == cache_table(keyval, id, a)
    IN Answer(c, Within(S, id), c.tables[id].end)

Find(a, p) ==
    Ask(a, {b \in LiveRows : rows[b].t_id = tables[a].id /\ rows[b].primary = p})

Lower(a, p) == Ask(a, LowerBound(tables[a].id, p))

Upper(a, p) == Ask(a, UpperBound(tables[a].id, p))

End(a) == Ask(a, {})

(* The next row of the same table. *)
Successor(a) ==
    Within(First({b \in LiveRows : Before(a, b)}), rows[a].t_id)

Following(i) ==
    LET a == get(keyval, i)
    IN Answer(keyval, Successor(a), keyval.tables[rows[a].t_id].end)

Preceding(i) ==
    LET a == get(keyval, i)
        S == Final({b \in LiveRows : Before(b, a)})
    IN Answer(keyval, Within(S, rows[a].t_id), -1)

(* db_previous_i64 of the end iterator e: from the end of the table found  *)
(* at the address that was cached with e.                                  *)
PrecedingEnd(e) ==
    LET t == tables[keyval.ends[end_iterator_to_index(e) + 1]].id
        S == Final({b \in LiveRows : rows[b].t_id <= t})
    IN Answer(keyval, Within(S, t), -1)

(* A query changes the cache only. *)
Return(r) ==
    /\ status = "ok"
    /\ Len(r.cache.objects) <= MaxIterators
    /\ keyval' = r.cache
    /\ UNCHANGED <<tables, rows, entries, idx, session, status>>

db_find_i64(k, p) == \E a \in find_table(k) : Return(Find(a, p))

db_lowerbound_i64(k, p) == \E a \in find_table(k) : Return(Lower(a, p))

db_upperbound_i64(k, p) == \E a \in find_table(k) : Return(Upper(a, p))

db_end_i64(k) == \E a \in find_table(k) : Return(End(a))

(* Only the end iterator needs the table in the cache. *)
db_next_i64(i) ==
    /\ status = "ok"
    /\ LET a == get(keyval, i) IN
       IF rows[a] = Null THEN Halt("undefined")
       ELSE IF Successor(a) = {} /\ rows[a].t_id \notin DOMAIN keyval.tables
            THEN Halt("aborted")
       ELSE Return(Following(i))

db_previous_i64(i) ==
    /\ status = "ok"
    /\ IF rows[get(keyval, i)] = Null THEN Halt("undefined")
       ELSE Return(Preceding(i))

(* db_previous_i64 of an end iterator, whose table may be gone. *)
PreviousOfEnd(e) ==
    /\ status = "ok"
    /\ IF tables[keyval.ends[end_iterator_to_index(e) + 1]] = Null
       THEN Halt("dangling")
       ELSE Return(PrecedingEnd(e))

-----------------------------------------------------------------------------
Init ==
    /\ tables = [a \in TableAddrs |-> Null]
    /\ rows = [a \in RowAddrs |-> Null]
    /\ entries = [a \in EntryAddrs |-> Null]
    /\ keyval = EmptyCache
    /\ idx = EmptyCache
    /\ session = Null
    /\ status = "ok"

(* The process is gone. *)
Halted == status # "ok" /\ UNCHANGED vars

Next ==
    \/ \E k \in Keys : \/ find_or_create_table(k)
                       \/ db_store_by_scope(k)
                       \/ db_update_by_scope(k)
                       \/ SecondaryStoreRefused(k)
                       \/ db_end_i64(k)
    \/ \E k \in Keys, p \in Primaries : \/ db_store_i64(k, p)
                                        \/ StoreRefused(k, p)
                                        \/ SecondaryStore(k, p)
                                        \/ db_find_i64(k, p)
                                        \/ db_lowerbound_i64(k, p)
                                        \/ db_upperbound_i64(k, p)
    \/ \E i \in Held(keyval) : \/ db_update_i64(i)
                               \/ db_remove_i64(i)
                               \/ db_next_i64(i)
                               \/ db_previous_i64(i)
    \/ \E e \in EndIterators(keyval) : PreviousOfEnd(e)
    \/ \E i \in Held(idx) : SecondaryUpdate(i) \/ SecondaryRemove(i)
    \/ construct \/ start_undo_session \/ commit \/ undo
    \/ Halted

Spec == Init /\ [][Next]_vars

(* The row of db_store_i64 is created, then counted: modify of the table     *)
(* throws when on_modify cannot allocate its old value, which it needs the   *)
(* first time the table changes in the session.  (Here also when the table   *)
(* has changed and is back at its old value.)                                *)
StoreThrows(k, p) ==
    /\ status = "ok"
    /\ session # Null
    /\ \A b \in LiveRows : rows[b].primary # p
    /\ \E t \in find_table(k) \cap session.kept, a \in RowAddrs \ LiveRows :
          /\ tables[t] = session.tables[t]
          /\ rows' = [rows EXCEPT ![a] = [t_id |-> tables[t].id, primary |-> p, owner |-> k]]
    /\ UNCHANGED <<tables, entries, keyval, idx, session, status>>

(* The calls of a database whose segment runs full. *)
FaultyNext == Next \/ \E k \in Keys, p \in Primaries : StoreThrows(k, p)

FaultySpec == Init /\ [][FaultyNext]_vars

-----------------------------------------------------------------------------
(* Objects and caches have the types of the code's containers, and the     *)
(* count of a table fits its width.                                        *)
TypeOK ==
    /\ tables \in [TableAddrs -> TableObjects \cup {Null}]
    /\ rows \in [RowAddrs -> Elements \cup {Null}]
    /\ entries \in [EntryAddrs -> Elements \cup {Null}]
    /\ CacheTyped(keyval, RowAddrs)
    /\ CacheTyped(idx, EntryAddrs)
    /\ session # Null => session.kept \subseteq TableAddrs \cup RowAddrs \cup EntryAddrs
    /\ status \in {"ok", "undefined", "aborted", "dangling"}

(* table_id_object::count, kept by four functions through pointers that    *)
(* come from two caches, is the number of rows and entries stored under    *)
(* the table's name, and nothing is stored under a name without a table.   *)
CountsElements ==
    LET Size(k) == Cardinality({a \in LiveRows : rows[a].owner = k})
                   + Cardinality({a \in LiveEntries : entries[a].owner = k})
    IN /\ \A a \in LiveTables : tables[a].count = Size(tables[a].key)
       /\ \A k \in Keys : find_table(k) = {} => Size(k) = 0

Denoting(c, os) ==
    /\ \A i \in Held(c) : /\ os[get(c, i)] = c.objects[i + 1].element
                          /\ get(c, i) \in DOMAIN c.iterator_of
                          /\ c.iterator_of[get(c, i)] = i
    /\ \A a \in DOMAIN c.iterator_of :
          c.iterator_of[a] \in Held(c) /\ get(c, c.iterator_of[a]) = a

(* An iterator that was not removed still denotes the element it was       *)
(* handed out for, although addresses are reused, and the two maps of the  *)
(* cache are inverse to each other: no element has two iterators.          *)
IteratorsDenote == Denoting(keyval, rows) /\ Denoting(idx, entries)

Cached(c, os) ==
    \A i \in Held(c) : LET x == os[get(c, i)] IN
        /\ x # Null
        /\ x.t_id \in DOMAIN c.tables
        /\ LET a == c.tables[x.t_id].table IN
           a \in find_table(x.owner) /\ tables[a].id = x.t_id

(* get_table finds the live table of every element that has an iterator:   *)
(* "an invariant was broken, table should be in cache" is never reached,   *)
(* nor a table that was removed with its last row.                         *)
TablesCached == Cached(keyval, rows) /\ Cached(idx, entries)

(* No call with iterators that the caller was given reaches the assertion of *)
(* get_table or a pointer to a removed object, whatever was stored, removed   *)
(* and allocated anew before: of all calls db_previous_i64 alone can leave    *)
(* defined behaviour, for an end iterator whose table went with its last row. *)
(* What it answers when another table has that memory is not covered here.    *)
OnlyDeadEndsFail == status \notin {"undefined", "aborted"}

(* The primary keys stored under a name, and its smallest or largest one    *)
(* within a set.                                                           *)
Stock(k) == {rows[a].primary : a \in {b \in LiveRows : rows[b].owner = k}}

Least(S) == {p \in S : \A q \in S : p <= q}

Greatest(S) == {p \in S : \A q \in S : q <= p}

(* The answer r stands for the row of table k with the primary key in S,   *)
(* or, when S is empty, for the end given by `ending'.                     *)
Denotes(r, k, S, ending) ==
    IF S = {} THEN ending
    ELSE /\ r.iterator \in Held(r.cache)
         /\ rows[get(r.cache, r.iterator)].owner = k
         /\ rows[get(r.cache, r.iterator)].primary \in S

EndOf(r, k) ==
    /\ r.iterator \in EndIterators(r.cache)
    /\ r.cache.ends[end_iterator_to_index(r.iterator) + 1] \in find_table(k)

(* Every query, although it walks the common order of all tables' rows by  *)
(* uninitialised ids, answers for the rows of the named table alone: the   *)
(* row with the key, the first one from it or after it, the neighbours of  *)
(* an iterator, and the table's own end iterator when there is none.       *)
QueriesAnswer ==
    status = "ok" =>
    /\ \A k \in Keys, p \in Primaries : \A a \in find_table(k) :
         /\ Denotes(Find(a, p), k, Stock(k) \cap {p}, EndOf(Find(a, p), k))
         /\ Denotes(Lower(a, p), k, Least({q \in Stock(k) : q >= p}),
                    EndOf(Lower(a, p), k))
         /\ Denotes(Upper(a, p), k, Least({q \in Stock(k) : q > p}),
                    EndOf(Upper(a, p), k))
    /\ \A i \in Held(keyval) : LET x == rows[get(keyval, i)] IN
         /\ Denotes(Following(i), x.owner,
                    Least({q \in Stock(x.owner) : q > x.primary}),
                    EndOf(Following(i), x.owner))
         /\ Denotes(Preceding(i), x.owner,
                    Greatest({q \in Stock(x.owner) : q < x.primary}),
                    Preceding(i).iterator = -1)
    /\ \A k \in Keys : \A a \in find_table(k) : LET e == End(a).iterator IN
         e \in EndIterators(keyval) =>
            Denotes(PrecedingEnd(e), k, Greatest(Stock(k)),
                    PrecedingEnd(e).iterator = -1)

-----------------------------------------------------------------------------
(* The names of a segment's tables, and the primary keys of its elements by  *)
(* the name they are stored under.                                           *)
Named(ts) == {ts[a].key : a \in {b \in DOMAIN ts : ts[b] # Null}}

Contents(os) ==
    [k \in Keys |->
        {os[a].primary : a \in {b \in DOMAIN os : os[b] # Null /\ os[b].owner = k}}]

Saved(s) ==
    IF s = Null THEN <<>>
    ELSE <<[names |-> Named(s.tables), rows |-> Contents(s.rows),
            entries |-> Contents(s.entries)]>>

TS == INSTANCE TableStore WITH
        names <- Named(tables), rows <- Contents(rows), entries <- Contents(entries),
        saved <- Saved(session)

(* Ids, counts, addresses and caches implement named sets of primary keys:    *)
(* every call changes what is stored under the name it was given, or under    *)
(* that of its iterator's element, and nothing else; a table goes with its    *)
(* last row exactly when it has no entry; undo brings back what was stored.   *)
Implements == TS!Spec
=============================================================================
