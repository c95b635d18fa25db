---------------------------- MODULE EosDbProofs -----------------------------
(***************************************************************************)
(* Theorems about EosDb, for every set of names, keys and ids, every number *)
(* of addresses and iterators, and every width of the counts.              *)
(***************************************************************************)
EXTENDS EosDb, FiniteSetTheorems, FunctionTheorems, SequenceTheorems, TLAPS

(* What undo brings back has the types of the segment. *)
SessionTyped ==
    session # Null =>
      /\ DOMAIN session = {"tables", "rows", "entries", "kept"}
      /\ session.tables \in [TableAddrs -> TableObjects \cup {Null}]
      /\ session.rows \in [RowAddrs -> Elements \cup {Null}]
      /\ session.entries \in [EntryAddrs -> Elements \cup {Null}]

TypeInv == TypeOK /\ SessionTyped

DenoteInv == TypeInv /\ IteratorsDenote

-----------------------------------------------------------------------------
Live(os) == {a \in DOMAIN os : os[a] # Null}

OwnedBy(os, k) == {a \in Live(os) : os[a].owner = k}

(* The unique indices of the tables, of the rows and of the entries. *)
UniqueTables(ts) ==
    \A a, b \in Live(ts) : ts[a].id = ts[b].id \/ ts[a].key = ts[b].key => a = b

UniqueRows(rs) ==
    \A a, b \in Live(rs) : rs[a].primary = rs[b].primary => a = b

UniqueEntries(es) ==
    \A a, b \in Live(es) : es[a].owner = es[b].owner /\ es[a].primary = es[b].primary => a = b

(* Every element has a table, with its id and its name. *)
Homed(ts, os) ==
    \A a \in Live(os) :
      \E b \in Live(ts) : ts[b].id = os[a].t_id /\ ts[b].key = os[a].owner

Counting(ts, rs, es) ==
    \A a \in Live(ts) :
      ts[a].count = Cardinality(OwnedBy(rs, ts[a].key))
                    + Cardinality(OwnedBy(es, ts[a].key))

(* Contents of the segment that the operations can reach. *)
Sound(ts, rs, es) ==
    /\ UniqueTables(ts) /\ UniqueRows(rs) /\ UniqueEntries(es)
    /\ Homed(ts, rs) /\ Homed(ts, es)
    /\ Counting(ts, rs, es)

(* An id that a cache knows leads to the live table that has it, if there is *)
(* one, and its end iterator to the same address.                            *)
TablesKnown(c, ts) ==
    \A id \in DOMAIN c.tables :
      /\ \A a \in Live(ts) : ts[a].id = id => c.tables[id].table = a
      /\ \E n \in 1 .. Len(c.ends) : /\ c.tables[id].end = index_to_end_iterator(n - 1)
                                     /\ c.ends[n] = c.tables[id].table

(* The ids of the elements that have iterators are in the cache. *)
IdsKnown(c, os) == \A i \in Held(c) : os[get(c, i)].t_id \in DOMAIN c.tables

(* An end iterator may lead to another table than its own, at the same       *)
(* address; when that one has rows, the cache knows it.                      *)
EndsKnown(c, ts, os) ==
    \A n \in 1 .. Len(c.ends), a \in Live(os) :
      c.ends[n] \in Live(ts) /\ ts[c.ends[n]].id = os[a].t_id
        => os[a].t_id \in DOMAIN c.tables

(* The invariant of the segment and of the caches: a removal reaches the     *)
(* table of its element because the caches know the ids of their elements,   *)
(* the elements keep their tables because the counts are right, and the      *)
(* counts are right because removals reach the right table.                  *)
StoreInv ==
    /\ DenoteInv
    /\ Sound(tables, rows, entries)
    /\ session # Null => Sound(session.tables, session.rows, session.entries)
    /\ TablesKnown(keyval, tables) /\ IdsKnown(keyval, rows)
    /\ TablesKnown(idx, tables) /\ IdsKnown(idx, entries)
    /\ EndsKnown(keyval, tables, rows)

-----------------------------------------------------------------------------
(***************************************************************************)
(* The containers of a cache after each of its operations.                 *)
(***************************************************************************)
LEMMA NoPlace == Null \notin Places(RowAddrs) /\ Null \notin Places(EntryAddrs)
BY NullAssumption

(* The iterators that callers hold. *)
LEMMA HeldFacts ==
    ASSUME NEW c, NEW addrs, CacheTyped(c, addrs), NEW i \in Held(c)
    PROVE  /\ i \in Nat /\ i + 1 \in 1 .. Len(c.objects) /\ Len(c.objects) \in Nat
           /\ c.objects[i + 1] \in Places(addrs)
           /\ get(c, i) \in addrs /\ c.objects[i + 1].element \in Elements
           /\ c.objects[i + 1].at = get(c, i)
<1>1. c.objects \in Seq(Places(addrs) \cup {Null}) /\ Len(c.objects) \in Nat
  BY DEF CacheTyped
<1>2. i \in Nat /\ i + 1 \in 1 .. Len(c.objects) /\ c.objects[i + 1] # Null
  BY <1>1 DEF Held
<1>3. c.objects[i + 1] \in Places(addrs)
  BY <1>1, <1>2
<1> QED BY <1>1, <1>2, <1>3 DEF get, Places

LEMMA CacheTableShape ==
    ASSUME NEW c, NEW addrs, CacheTyped(c, addrs), NEW id \in TableIds, NEW a \in TableAddrs
    PROVE  LET d == cache_table(c, id, a)
           IN  /\ CacheTyped(d, addrs)
               /\ d.objects = c.objects /\ d.iterator_of = c.iterator_of
               /\ DOMAIN d.tables = DOMAIN c.tables \cup {id}
               /\ \A j \in DOMAIN c.tables : d.tables[j] = c.tables[j]
               /\ id \in DOMAIN c.tables => d = c
               /\ id \notin DOMAIN c.tables =>
                    /\ d.tables[id].table = a
                    /\ d.tables[id].end = index_to_end_iterator(Len(c.ends))
                    /\ d.ends = Append(c.ends, a)
<1> DEFINE d == cache_table(c, id, a)
<1>1. CASE id \in DOMAIN c.tables
  BY <1>1 DEF cache_table
<1>2. CASE id \notin DOMAIN c.tables
  <2> DEFINE e == [table |-> a, end |-> index_to_end_iterator(Len(c.ends))]
  <2>1. d = [c EXCEPT !.tables = With(c.tables, id, e), !.ends = Append(c.ends, a)]
    BY <1>2 DEF cache_table
  <2>2. /\ DOMAIN d = {"tables", "ends", "objects", "iterator_of"}
        /\ d.tables = With(c.tables, id, e) /\ d.ends = Append(c.ends, a)
        /\ d.objects = c.objects /\ d.iterator_of = c.iterator_of
    BY <2>1 DEF CacheTyped
  <2>3. /\ e.table = a /\ e.end = index_to_end_iterator(Len(c.ends)) /\ e.end \in Int
    BY DEF CacheTyped, index_to_end_iterator
  <2> HIDE DEF d, e
  <2>4. /\ DOMAIN d.tables = DOMAIN c.tables \cup {id} /\ d.tables[id] = e
        /\ \A j \in DOMAIN c.tables : d.tables[j] = c.tables[j]
    <3> DEFINE w == With(c.tables, id, e)
    <3>1. /\ DOMAIN w = DOMAIN c.tables \cup {id} /\ w[id] = e
          /\ \A j \in DOMAIN c.tables : j # id => w[j] = c.tables[j]
      BY DEF With
    <3> QED BY <1>2, <2>2, <3>1
  <2>5. d.ends \in Seq(TableAddrs)
    BY <2>2 DEF CacheTyped
  <2>6. CacheTyped(d, addrs)
    <3>1. \A j \in DOMAIN d.tables : d.tables[j].table \in TableAddrs /\ d.tables[j].end \in Int
      BY <2>3, <2>4 DEF CacheTyped
    <3> QED BY <2>2, <2>4, <2>5, <3>1 DEF CacheTyped
  <2> QED BY <1>2, <2>2, <2>3, <2>4, <2>6 DEF d
<1> QED BY <1>1, <1>2

LEMMA AddShape ==
    ASSUME NEW c, NEW addrs, CacheTyped(c, addrs), NEW a \in addrs, NEW x \in Elements
    PROVE  LET r == add(c, a, x)
               d == r.cache
               n == Len(c.objects)
           IN  /\ CacheTyped(d, addrs)
               /\ d.tables = c.tables /\ d.ends = c.ends /\ n \in Nat
               /\ a \in DOMAIN c.iterator_of => d = c /\ r.iterator = c.iterator_of[a]
               /\ a \notin DOMAIN c.iterator_of =>
                    /\ r.iterator = n /\ Len(d.objects) = n + 1
                    /\ d.objects[n + 1] \in Places(addrs)
                    /\ d.objects[n + 1].at = a /\ d.objects[n + 1].element = x
                    /\ \A i \in 1 .. n : d.objects[i] = c.objects[i]
                    /\ DOMAIN d.iterator_of = DOMAIN c.iterator_of \cup {a}
                    /\ d.iterator_of[a] = n
                    /\ \A b \in DOMAIN c.iterator_of : d.iterator_of[b] = c.iterator_of[b]
<1> DEFINE r == add(c, a, x)
           d == r.cache
           n == Len(c.objects)
           y == [at |-> a, element |-> x]
<1>0. c.objects \in Seq(Places(addrs) \cup {Null}) /\ n \in Nat
  BY DEF CacheTyped
<1>1. CASE a \in DOMAIN c.iterator_of
  BY <1>0, <1>1 DEF add
<1>2. CASE a \notin DOMAIN c.iterator_of
  <2>1. /\ d = [c EXCEPT !.objects = Append(c.objects, y), !.iterator_of = With(c.iterator_of, a, n)]
        /\ r.iterator = n
    BY <1>2 DEF add
  <2>2. /\ DOMAIN d = {"tables", "ends", "objects", "iterator_of"}
        /\ d.tables = c.tables /\ d.ends = c.ends
        /\ d.objects = Append(c.objects, y) /\ d.iterator_of = With(c.iterator_of, a, n)
    BY <2>1 DEF CacheTyped
  <2>3. y \in Places(addrs) /\ y.at = a /\ y.element = x
    BY DEF Places
  <2> HIDE DEF d, r, y
  <2>4. /\ d.objects \in Seq(Places(addrs) \cup {Null}) /\ Len(d.objects) = n + 1
        /\ d.objects[n + 1] = y /\ \A i \in 1 .. n : d.objects[i] = c.objects[i]
    BY <1>0, <2>2, <2>3
  <2>5. /\ DOMAIN d.iterator_of = DOMAIN c.iterator_of \cup {a} /\ d.iterator_of[a] = n
        /\ \A b \in DOMAIN c.iterator_of : d.iterator_of[b] = c.iterator_of[b]
    <3> DEFINE w == With(c.iterator_of, a, n)
    <3>1. /\ DOMAIN w = DOMAIN c.iterator_of \cup {a} /\ w[a] = n
          /\ \A b \in DOMAIN c.iterator_of : b # a => w[b] = c.iterator_of[b]
      BY DEF With
    <3> QED BY <1>2, <2>2, <3>1
  <2>6. \A b \in DOMAIN d.iterator_of : d.iterator_of[b] \in Nat
    BY <1>0, <2>5 DEF CacheTyped
  <2>7. CacheTyped(d, addrs)
    BY <2>2, <2>4, <2>5, <2>6 DEF CacheTyped
  <2> QED BY <1>0, <1>2, <2>1, <2>2, <2>3, <2>4, <2>5, <2>7 DEF d, r
<1> QED BY <1>1, <1>2

LEMMA CacheRemoveShape ==
    ASSUME NEW c, NEW addrs, CacheTyped(c, addrs), NEW i \in Held(c)
    PROVE  LET d == CacheRemove(c, i)
           IN  /\ CacheTyped(d, addrs)
               /\ d.tables = c.tables /\ d.ends = c.ends
               /\ Len(d.objects) = Len(c.objects)
               /\ d.objects[i + 1] = Null
               /\ \A j \in 1 .. Len(c.objects) : j # i + 1 => d.objects[j] = c.objects[j]
               /\ DOMAIN d.iterator_of = DOMAIN c.iterator_of \ {get(c, i)}
               /\ \A b \in DOMAIN c.iterator_of \ {get(c, i)} :
                    d.iterator_of[b] = c.iterator_of[b]
<1> DEFINE d == CacheRemove(c, i)
           w == Without(c.iterator_of, get(c, i))
<1>0. c.objects \in Seq(Places(addrs) \cup {Null}) /\ Len(c.objects) \in Nat
  BY DEF CacheTyped
<1>1. i + 1 \in 1 .. Len(c.objects)
  BY HeldFacts
<1>2. d = [c EXCEPT !.objects = [c.objects EXCEPT ![i + 1] = Null], !.iterator_of = w]
  BY DEF CacheRemove
<1>3. /\ DOMAIN d = {"tables", "ends", "objects", "iterator_of"}
      /\ d.tables = c.tables /\ d.ends = c.ends
      /\ d.objects = [c.objects EXCEPT ![i + 1] = Null] /\ d.iterator_of = w
  BY <1>2 DEF CacheTyped
<1> HIDE DEF d
<1>4. /\ DOMAIN w = DOMAIN c.iterator_of \ {get(c, i)}
      /\ \A b \in DOMAIN c.iterator_of \ {get(c, i)} : w[b] = c.iterator_of[b]
  BY DEF Without
<1> HIDE DEF w
<1>5. /\ d.objects \in Seq(Places(addrs) \cup {Null}) /\ Len(d.objects) = Len(c.objects)
      /\ d.objects[i + 1] = Null
      /\ \A j \in 1 .. Len(c.objects) : j # i + 1 => d.objects[j] = c.objects[j]
  BY <1>0, <1>1, <1>3
<1>6. CacheTyped(d, addrs)
  BY <1>3, <1>4, <1>5 DEF CacheTyped
<1> QED BY <1>3, <1>4, <1>5, <1>6 DEF d

-----------------------------------------------------------------------------
(***************************************************************************)
(* What a step of each kind does to the segment and to the caches.         *)
(***************************************************************************)
LEMMA TypeFacts ==
    ASSUME TypeInv
    PROVE  /\ tables \in [TableAddrs -> TableObjects \cup {Null}]
           /\ rows \in [RowAddrs -> Elements \cup {Null}]
           /\ entries \in [EntryAddrs -> Elements \cup {Null}]
           /\ CacheTyped(keyval, RowAddrs) /\ CacheTyped(idx, EntryAddrs)
           /\ \A a \in LiveTables : a \in TableAddrs /\ tables[a] \in TableObjects
           /\ \A a \in LiveRows : a \in RowAddrs /\ rows[a] \in Elements
           /\ \A a \in LiveEntries : a \in EntryAddrs /\ entries[a] \in Elements
BY DEF TypeInv, TypeOK, LiveTables, LiveRows, LiveEntries

LEMMA TableFields ==
    ASSUME NEW x \in TableObjects, NEW n \in Counts
    PROVE  /\ x.id \in TableIds /\ x.key \in Keys /\ x.count \in Counts
           /\ [x EXCEPT !.count = n] \in TableObjects
           /\ [x EXCEPT !.count = n].id = x.id
           /\ [x EXCEPT !.count = n].key = x.key
           /\ [x EXCEPT !.count = n].count = n
BY DEF TableObjects

LEMMA ElementFields ==
    ASSUME NEW x \in Elements
    PROVE  x.t_id \in TableIds /\ x.primary \in Primaries /\ x.owner \in Keys /\ x # Null
BY NullAssumption DEF Elements

LEMMA ModulusPositive ==
    CountModulus \in Nat /\ CountModulus >= 1 /\ 0 \in Counts
<1>1. Cardinality(RowAddrs) \in Nat /\ Cardinality(EntryAddrs) \in Nat
  BY CountAssumption, FS_CardinalityType
<1> QED BY <1>1, CountAssumption DEF Counts

LEMMA CountedType ==
    ASSUME NEW n \in Counts, NEW d \in {1, -1}
    PROVE  Counted(n, d) \in Counts
<1>1. n + d \in Int
  BY ModulusPositive DEF Counts
<1> QED BY <1>1, ModulusPositive DEF Counted, Counts

(* find_or_create_table: what it found, or the table it made. *)
Created(k, f) ==
    /\ find_table(k) = {}
    /\ f.at \in TableAddrs \ LiveTables
    /\ \E id \in NewIds : /\ f.tables[f.at] = NewTable(k, id)
                          /\ f.tables = [tables EXCEPT ![f.at] = NewTable(k, id)]
    /\ \A a \in TableAddrs \ {f.at} : f.tables[a] = tables[a]

LEMMA NewTableType ==
    ASSUME NEW k \in Keys, NEW id \in NewIds
    PROVE  /\ NewTable(k, id) \in TableObjects /\ id \in TableIds
           /\ NewTable(k, id).id = id /\ NewTable(k, id).key = k /\ NewTable(k, id).count = 0
BY ModulusPositive DEF NewTable, NewIds, TableObjects

LEMMA FoundShape ==
    ASSUME TypeInv, NEW k \in Keys, NEW f \in FoundOrCreated(k)
    PROVE  /\ f.tables \in [TableAddrs -> TableObjects \cup {Null}]
           /\ f.at \in TableAddrs
           /\ f.tables[f.at] \in TableObjects /\ f.tables[f.at].key = k
           /\ \/ f.tables = tables /\ f.at \in find_table(k) /\ f.at \in LiveTables
              \/ Created(k, f)
<1>0. tables \in [TableAddrs -> TableObjects \cup {Null}]
  BY TypeFacts
<1>1. CASE find_table(k) # {}
  <2>1. PICK a \in find_table(k) : f = [at |-> a, tables |-> tables]
    BY <1>1 DEF FoundOrCreated
  <2>2. f.at = a /\ f.tables = tables
    BY <2>1
  <2>3. a \in LiveTables /\ tables[a].key = k
    BY DEF find_table
  <2> QED BY <1>0, <2>1, <2>2, <2>3, TypeFacts
<1>2. CASE find_table(k) = {}
  <2>1. PICK a \in TableAddrs \ LiveTables, id \in NewIds :
          f = [at |-> a, tables |-> [tables EXCEPT ![a] = NewTable(k, id)]]
    BY <1>2 DEF FoundOrCreated
  <2>2. f.at = a /\ f.tables = [tables EXCEPT ![a] = NewTable(k, id)]
    BY <2>1
  <2>3. NewTable(k, id) \in TableObjects /\ NewTable(k, id).key = k
    BY NewTableType
  <2>4. /\ f.tables \in [TableAddrs -> TableObjects \cup {Null}]
        /\ f.tables[a] = NewTable(k, id)
        /\ \A b \in TableAddrs \ {a} : f.tables[b] = tables[b]
    BY <1>0, <2>2, <2>3
  <2> QED BY <1>2, <2>1, <2>2, <2>3, <2>4 DEF Created
<1> QED BY <1>1, <1>2

(* A query asked for a row of a table that it put into the cache. *)
AskedTable ==
    \E a \in LiveTables :
      LET c == cache_table(keyval, tables[a].id, a)
      IN  \/ keyval' = c
          \/ \E b \in LiveRows : /\ rows[b].t_id = tables[a].id
                                 /\ keyval' = add(c, b, rows[b]).cache

(* A query asked for the neighbour of a row, or of the end of a table. *)
AskedNeighbour ==
    \E b \in LiveRows :
      /\ keyval' = add(keyval, b, rows[b]).cache
      /\ \/ \E i \in Held(keyval) : rows[b].t_id = rows[get(keyval, i)].t_id
         \/ \E n \in 1 .. Len(keyval.ends) :
              keyval.ends[n] \in LiveTables /\ tables[keyval.ends[n]].id = rows[b].t_id

Asked ==
    /\ AskedTable \/ AskedNeighbour \/ UNCHANGED keyval
    /\ UNCHANGED <<tables, rows, entries, idx, session, status>>

Failed == \E why \in {"undefined", "aborted", "dangling"} : Halt(why)

LEMMA AnswerCases ==
    ASSUME NEW c, NEW S, NEW e
    PROVE  \/ S = {} /\ Answer(c, S, e).cache = c /\ Answer(c, S, e).iterator = e
           \/ \E a \in S : Answer(c, S, e) = add(c, a, rows[a])
BY DEF Answer

LEMMA AskCases ==
    ASSUME NEW a \in LiveTables, NEW S, S \subseteq LiveRows, Return(Ask(a, S))
    PROVE  Asked
<1> DEFINE id == tables[a].id
           c == cache_table(keyval, id, a)
           r == Ask(a, S)
<1>1. r = Answer(c, Within(S, id), c.tables[id].end)
  BY DEF Ask
<1>2. Within(S, id) \subseteq LiveRows /\ \A b \in Within(S, id) : rows[b].t_id = id
  BY DEF Within
<1>3. keyval' = r.cache /\ UNCHANGED <<tables, rows, entries, idx, session, status>>
  BY DEF Return
<1> HIDE DEF r, c, id
<1>4. r.cache = c \/ \E b \in Within(S, id) : r = add(c, b, rows[b])
  BY <1>1, AnswerCases
<1> USE DEF c, id
<1>5. AskedTable
  BY <1>2, <1>3, <1>4 DEF AskedTable
<1> QED BY <1>3, <1>5 DEF Asked

LEMMA NeighbourCases ==
    ASSUME NEW S, S \subseteq LiveRows, NEW t, NEW e, Return(Answer(keyval, Within(S, t), e)),
           \/ \E i \in Held(keyval) : t = rows[get(keyval, i)].t_id
           \/ \E n \in 1 .. Len(keyval.ends) :
                keyval.ends[n] \in LiveTables /\ tables[keyval.ends[n]].id = t
    PROVE  Asked
<1> DEFINE r == Answer(keyval, Within(S, t), e)
<1>1. Within(S, t) \subseteq LiveRows /\ \A b \in Within(S, t) : rows[b].t_id = t
  BY DEF Within
<1>2. keyval' = r.cache /\ UNCHANGED <<tables, rows, entries, idx, session, status>>
  BY DEF Return
<1>3. r.cache = keyval \/ \E b \in Within(S, t) : r = add(keyval, b, rows[b])
  BY AnswerCases
<1> HIDE DEF r
<1>4. CASE r.cache = keyval
  BY <1>2, <1>4 DEF Asked
<1>5. CASE \E b \in Within(S, t) : r = add(keyval, b, rows[b])
  <2>1. PICK b \in Within(S, t) : r = add(keyval, b, rows[b])
    BY <1>5
  <2>2. b \in LiveRows /\ rows[b].t_id = t /\ keyval' = add(keyval, b, rows[b]).cache
    BY <1>1, <1>2, <2>1
  <2>3. AskedNeighbour
    BY <2>2 DEF AskedNeighbour
  <2> QED BY <1>2, <2>3 DEF Asked
<1> QED BY <1>3, <1>4, <1>5

LEMMA SearchCases ==
    ASSUME NEW k, NEW p,
           db_find_i64(k, p) \/ db_lowerbound_i64(k, p) \/ db_upperbound_i64(k, p) \/ db_end_i64(k)
    PROVE  Asked
<1>0. find_table(k) \subseteq LiveTables /\ {} \subseteq LiveRows
  BY DEF find_table
<1>1. ASSUME NEW a \in find_table(k), Return(Find(a, p)) PROVE Asked
  <2>1. {b \in LiveRows : rows[b].t_id = tables[a].id /\ rows[b].primary = p} \subseteq LiveRows
    OBVIOUS
  <2> QED BY <1>0, <1>1, <2>1, AskCases DEF Find
<1>2. ASSUME NEW a \in find_table(k), Return(Lower(a, p)) PROVE Asked
  <2>1. LowerBound(tables[a].id, p) \subseteq LiveRows
    BY DEF LowerBound, First
  <2> QED BY <1>0, <1>2, <2>1, AskCases DEF Lower
<1>3. ASSUME NEW a \in find_table(k), Return(Upper(a, p)) PROVE Asked
  <2>1. UpperBound(tables[a].id, p) \subseteq LiveRows
    BY DEF UpperBound, First
  <2> QED BY <1>0, <1>3, <2>1, AskCases DEF Upper
<1>4. ASSUME NEW a \in find_table(k), Return(End(a)) PROVE Asked
  BY <1>0, <1>4, AskCases DEF End
<1> QED BY <1>1, <1>2, <1>3, <1>4
        DEF db_find_i64, db_lowerbound_i64, db_upperbound_i64, db_end_i64

LEMMA WalkCases ==
    ASSUME NEW i \in Held(keyval), db_next_i64(i) \/ db_previous_i64(i)
    PROVE  Asked \/ Failed
<1> DEFINE a == get(keyval, i)
           t == rows[a].t_id
<1>1. CASE Return(Following(i))
  <2> DEFINE S == First({b \in LiveRows : Before(a, b)})
  <2>1. Following(i) = Answer(keyval, Within(S, t), keyval.tables[t].end)
    BY DEF Following, Successor
  <2>2. S \subseteq LiveRows
    BY DEF First
  <2> HIDE DEF S
  <2> QED BY <1>1, <2>1, <2>2, NeighbourCases
<1>2. CASE Return(Preceding(i))
  <2> DEFINE S == Final({b \in LiveRows : Before(b, a)})
  <2>1. Preceding(i) = Answer(keyval, Within(S, t), -1)
    BY DEF Preceding
  <2>2. S \subseteq LiveRows
    BY DEF Final
  <2> HIDE DEF S
  <2> QED BY <1>2, <2>1, <2>2, NeighbourCases
<1>3. \/ Return(Following(i)) \/ Return(Preceding(i)) \/ Halt("undefined") \/ Halt("aborted")
  BY DEF db_next_i64, db_previous_i64
<1> QED BY <1>1, <1>2, <1>3 DEF Failed

LEMMA EndCases ==
    ASSUME TypeInv, NEW e \in EndIterators(keyval), PreviousOfEnd(e)
    PROVE  Asked \/ Failed
<1> DEFINE n == end_iterator_to_index(e) + 1
<1>1. keyval.ends \in Seq(TableAddrs) /\ Len(keyval.ends) \in Nat
  BY TypeFacts DEF CacheTyped
<1>2. n \in 1 .. Len(keyval.ends)
  BY <1>1 DEF EndIterators, index_to_end_iterator, end_iterator_to_index
<1>3. keyval.ends[n] \in TableAddrs
  BY <1>1, <1>2
<1>4. CASE tables[keyval.ends[n]] = Null
  BY <1>4 DEF PreviousOfEnd, Failed
<1>5. CASE tables[keyval.ends[n]] # Null
  <2> DEFINE t == tables[keyval.ends[n]].id
             S == Final({b \in LiveRows : rows[b].t_id <= t})
  <2>1. Return(PrecedingEnd(e))
    BY <1>5 DEF PreviousOfEnd
  <2>2. PrecedingEnd(e) = Answer(keyval, Within(S, t), -1)
    BY DEF PrecedingEnd
  <2>3. keyval.ends[n] \in LiveTables /\ tables[keyval.ends[n]].id = t
    BY <1>3, <1>5 DEF LiveTables
  <2>4. S \subseteq LiveRows
    BY DEF Final
  <2> HIDE DEF S, n
  <2> QED BY <1>2, <2>1, <2>2, <2>3, <2>4, NeighbourCases
<1> QED BY <1>4, <1>5

(* A removal, or an update, that does not fail reaches an element and a table. *)
LEMMA FailureCases ==
    ASSUME NEW c, NEW os, NEW i
    PROVE  /\ Failure(c, os, i) \in {"none", "undefined", "aborted"}
           /\ Failure(c, os, i) = "none" =>
                /\ os[get(c, i)] # Null
                /\ os[get(c, i)].t_id \in DOMAIN c.tables
                /\ TableOf(c, os, i) = c.tables[os[get(c, i)].t_id].table
                /\ tables[TableOf(c, os, i)] # Null
BY DEF Failure, TableOf

TableCreated(k) ==
    /\ find_table(k) = {}
    /\ \E f \in FoundOrCreated(k) : tables' = f.tables
    /\ UNCHANGED <<rows, entries, keyval, idx, session, status>>

RowRemoved(i) == Failure(keyval, rows, i) = "none" /\ db_remove_i64(i)

EntryRemoved(i) == Failure(idx, entries, i) = "none" /\ SecondaryRemove(i)

Steps ==
    \/ UNCHANGED vars \/ Asked \/ Failed
    \/ \E k \in Keys : TableCreated(k)
    \/ \E k \in Keys, p \in Primaries : db_store_i64(k, p) \/ SecondaryStore(k, p)
    \/ \E i \in Held(keyval) : RowRemoved(i)
    \/ \E i \in Held(idx) : EntryRemoved(i)
    \/ construct \/ start_undo_session \/ commit \/ undo

(* The operations, by what they do. *)
LEMMA StepKinds == TypeInv /\ [Next]_vars => Steps
<1> SUFFICES ASSUME TypeInv, [Next]_vars PROVE Steps
  OBVIOUS
<1>1. ASSUME NEW k \in Keys, find_or_create_table(k) PROVE Steps
  BY <1>1 DEF find_or_create_table, TableCreated, Steps
<1>2. ASSUME NEW k \in Keys, db_store_by_scope(k) PROVE Steps
  <2>1. /\ find_table(k) = {} /\ UNCHANGED <<rows, entries, keyval, idx, session, status>>
    BY <1>2 DEF db_store_by_scope
  <2>2. PICK a \in TableAddrs \ LiveTables, id \in NewIds :
          tables' = [tables EXCEPT ![a] = NewTable(k, id)]
    BY <1>2 DEF db_store_by_scope
  <2> DEFINE f == [at |-> a, tables |-> [tables EXCEPT ![a] = NewTable(k, id)]]
  <2>3. f \in FoundOrCreated(k) /\ tables' = f.tables
    BY <2>1, <2>2 DEF FoundOrCreated
  <2> HIDE DEF f
  <2> QED BY <2>1, <2>3 DEF TableCreated, Steps
<1>3. ASSUME NEW k \in Keys,
             db_update_by_scope(k) \/ SecondaryStoreRefused(k) \/ db_end_i64(k)
      PROVE  Steps
  BY <1>1, <1>3, SearchCases DEF db_update_by_scope, SecondaryStoreRefused, Steps
<1>4. ASSUME NEW k \in Keys, NEW p \in Primaries,
             \/ StoreRefused(k, p) \/ db_find_i64(k, p)
             \/ db_lowerbound_i64(k, p) \/ db_upperbound_i64(k, p)
      PROVE  Steps
  BY <1>1, <1>4, SearchCases DEF StoreRefused, Steps
<1>5. ASSUME NEW i \in Held(keyval), db_update_i64(i) PROVE Steps
  BY <1>5 DEF db_update_i64, Steps, Failed
<1>6. ASSUME NEW i \in Held(keyval), db_remove_i64(i) PROVE Steps
  <2>1. CASE Failure(keyval, rows, i) = "none"
    BY <1>6, <2>1 DEF RowRemoved, Steps
  <2>2. CASE Failure(keyval, rows, i) # "none"
    BY <1>6, <2>2, FailureCases DEF db_remove_i64, Failed, Steps
  <2> QED BY <2>1, <2>2
<1>7. ASSUME NEW i \in Held(idx), SecondaryRemove(i) \/ SecondaryUpdate(i) PROVE Steps
  <2>1. CASE Failure(idx, entries, i) = "none"
    BY <1>7, <2>1 DEF EntryRemoved, SecondaryUpdate, Steps
  <2>2. CASE Failure(idx, entries, i) # "none"
    BY <1>7, <2>2, FailureCases DEF SecondaryRemove, SecondaryUpdate, Failed, Steps
  <2> QED BY <2>1, <2>2
<1> QED BY <1>1, <1>2, <1>3, <1>4, <1>5, <1>6, <1>7, WalkCases, EndCases
        DEF Next, Halted, Steps

-----------------------------------------------------------------------------
(***************************************************************************)
(* Types.                                                                  *)
(***************************************************************************)
SessionOK ==
    session # Null => session.kept \subseteq TableAddrs \cup RowAddrs \cup EntryAddrs

LEMMA RemovedType ==
    ASSUME TypeInv, NEW S, Removed(S)
    PROVE  SessionOK' /\ SessionTyped'
<1>1. CASE session = Null
  BY <1>1 DEF Removed, SessionOK, SessionTyped
<1>2. CASE session # Null
  <2>1. session' = [session EXCEPT !.kept = session.kept \ S]
    BY <1>2 DEF Removed
  <2>2. /\ DOMAIN session = {"tables", "rows", "entries", "kept"}
        /\ session.kept \subseteq TableAddrs \cup RowAddrs \cup EntryAddrs
    BY <1>2 DEF TypeInv, TypeOK, SessionTyped
  <2>3. /\ DOMAIN session' = DOMAIN session /\ session'.tables = session.tables
        /\ session'.rows = session.rows /\ session'.entries = session.entries
        /\ session'.kept = session.kept \ S
    BY <2>1, <2>2
  <2> QED BY <1>2, <2>2, <2>3 DEF TypeInv, SessionOK, SessionTyped
<1> QED BY <1>1, <1>2

LEMMA SessionSame ==
    ASSUME TypeInv, session' = session
    PROVE  SessionOK' /\ SessionTyped'
BY DEF TypeInv, TypeOK, SessionOK, SessionTyped

LEMMA EmptyCacheType ==
    ASSUME NEW addrs
    PROVE  /\ CacheTyped(EmptyCache, addrs)
           /\ DOMAIN EmptyCache.tables = {} /\ DOMAIN EmptyCache.iterator_of = {}
           /\ EmptyCache.ends = <<>> /\ EmptyCache.objects = <<>> /\ Held(EmptyCache) = {}
<1>1. /\ DOMAIN EmptyCache = {"tables", "ends", "objects", "iterator_of"}
      /\ EmptyCache.tables = <<>> /\ EmptyCache.ends = <<>> /\ EmptyCache.objects = <<>>
      /\ EmptyCache.iterator_of = <<>>
  BY DEF EmptyCache
<1>2. DOMAIN << >> = {} /\ Len(<< >>) = 0
  BY EmptySeq
<1>3. /\ EmptyCache.ends \in Seq(TableAddrs)
      /\ EmptyCache.objects \in Seq(Places(addrs) \cup {Null})
  BY <1>1, EmptySeq
<1>4. Held(EmptyCache) = {}
  BY <1>1, <1>2 DEF Held
<1> QED BY <1>1, <1>2, <1>3, <1>4 DEF CacheTyped

(* The cache after a store. *)
LEMMA StoredType ==
    ASSUME NEW c, NEW addrs, CacheTyped(c, addrs), NEW f, f.at \in TableAddrs,
           NEW a \in addrs, NEW x \in Elements
    PROVE  CacheTyped(Stored(c, f, a, x), addrs)
<1>1. x.t_id \in TableIds
  BY ElementFields
<1>2. CacheTyped(cache_table(c, x.t_id, f.at), addrs)
  BY <1>1, CacheTableShape
<1> QED BY <1>2, AddShape DEF Stored

LEMMA StoredElement ==
    ASSUME TypeInv, NEW k \in Keys, NEW f \in FoundOrCreated(k), NEW p \in Primaries
    PROVE  [t_id |-> f.tables[f.at].id, primary |-> p, owner |-> k] \in Elements
<1>1. f.tables[f.at].id \in TableIds
  BY FoundShape DEF TableObjects
<1> QED BY <1>1 DEF Elements

(* The tables after a store of either kind into the one at f.at. *)
CountsOne(f, k, ts) ==
    /\ ts \in [TableAddrs -> TableObjects \cup {Null}] /\ ts[f.at] \in TableObjects
    /\ ts[f.at].id = f.tables[f.at].id /\ ts[f.at].key = k
    /\ ts[f.at].count = Counted(f.tables[f.at].count, 1)
    /\ \A b \in TableAddrs \ {f.at} : ts[b] = f.tables[b]

LEMMA StoreTables ==
    ASSUME TypeInv, NEW k \in Keys, NEW f \in FoundOrCreated(k),
           NEW ts, ts = [f.tables EXCEPT ![f.at].count = Counted(@, 1)]
    PROVE  CountsOne(f, k, ts)
<1> DEFINE t == f.tables[f.at]
           n == Counted(t.count, 1)
           u == [t EXCEPT !.count = n]
<1>1. /\ f.tables \in [TableAddrs -> TableObjects \cup {Null}] /\ f.at \in TableAddrs
      /\ t \in TableObjects /\ t.key = k
  BY FoundShape
<1>2. t.id \in TableIds /\ t.count \in Counts /\ n \in Counts
  BY <1>1, TableFields, CountedType, ModulusPositive
<1>3. u \in TableObjects /\ u.id = t.id /\ u.key = t.key /\ u.count = n
  BY <1>1, <1>2, TableFields
<1>4. ts = [f.tables EXCEPT ![f.at] = u]
  OBVIOUS
<1> HIDE DEF u, n
<1>5. /\ ts \in [TableAddrs -> TableObjects \cup {Null}] /\ ts[f.at] = u
      /\ \A b \in TableAddrs \ {f.at} : ts[b] = f.tables[b]
  BY <1>1, <1>3, <1>4
<1> QED BY <1>1, <1>3, <1>5 DEF n, CountsOne

(* The contents that undo restores. *)
LEMMA RestoredType ==
    ASSUME NEW A, NEW T, NEW old \in [A -> T \cup {Null}], NEW place \in Reinsertions(old)
    PROVE  Restored(old, place) \in [A -> T \cup {Null}]
<1> DEFINE lost == {a \in A : old[a] # Null /\ a \notin session.kept}
<1>1. DOMAIN old = A
  OBVIOUS
<1>2. place \in [lost -> A \ session.kept]
  BY <1>1, Fun_InjectionProperties DEF Reinsertions
<1>3. \A a \in A : (\E b \in DOMAIN place : place[b] = a) =>
          (CHOOSE b \in DOMAIN place : place[b] = a) \in A
  BY <1>2
<1> QED BY <1>1, <1>3 DEF Restored, OldValue

LEMMA TypeAsked ==
    ASSUME TypeInv, Asked
    PROVE  TypeInv'
<1>0. CacheTyped(keyval, RowAddrs)
  BY TypeFacts
<1>1. CacheTyped(keyval', RowAddrs)
  <2>1. CASE AskedTable
    <3>1. PICK a \in LiveTables :
            LET c == cache_table(keyval, tables[a].id, a)
            IN  \/ keyval' = c
                \/ \E b \in LiveRows : keyval' = add(c, b, rows[b]).cache
      BY <2>1 DEF AskedTable
    <3> DEFINE c == cache_table(keyval, tables[a].id, a)
    <3>2. a \in TableAddrs /\ tables[a].id \in TableIds
      BY TypeFacts DEF TableObjects
    <3>3. CacheTyped(c, RowAddrs)
      BY <1>0, <3>2, CacheTableShape
    <3> HIDE DEF c
    <3>4. ASSUME NEW b \in LiveRows PROVE CacheTyped(add(c, b, rows[b]).cache, RowAddrs)
      BY <3>3, TypeFacts, AddShape
    <3> QED BY <3>1, <3>3, <3>4 DEF c
  <2>2. CASE AskedNeighbour
    <3>1. PICK b \in LiveRows : keyval' = add(keyval, b, rows[b]).cache
      BY <2>2 DEF AskedNeighbour
    <3> QED BY <1>0, <3>1, TypeFacts, AddShape
  <2> QED BY <1>0, <2>1, <2>2 DEF Asked
<1>2. SessionOK' /\ SessionTyped'
  BY SessionSame DEF Asked
<1>3. UNCHANGED <<tables, rows, entries, idx, status>>
  BY DEF Asked
<1> QED BY <1>1, <1>2, <1>3 DEF TypeInv, TypeOK, SessionOK

LEMMA TypeSame ==
    ASSUME TypeInv, UNCHANGED <<tables, rows, entries, keyval, idx, session>>,
           status' \in {"ok", "undefined", "aborted", "dangling"}
    PROVE  TypeInv'
BY DEF TypeInv, TypeOK, SessionTyped

LEMMA TypeStores ==
    ASSUME TypeInv, NEW k \in Keys, NEW p \in Primaries,
           db_store_i64(k, p) \/ SecondaryStore(k, p)
    PROVE  TypeInv'
<1>0. /\ rows \in [RowAddrs -> Elements \cup {Null}]
      /\ entries \in [EntryAddrs -> Elements \cup {Null}]
      /\ CacheTyped(keyval, RowAddrs) /\ CacheTyped(idx, EntryAddrs)
  BY TypeFacts
<1>1. CASE db_store_i64(k, p)
  <2>1. PICK f \in FoundOrCreated(k), a \in RowAddrs \ LiveRows :
          LET x == [t_id |-> f.tables[f.at].id, primary |-> p, owner |-> k]
          IN  /\ rows' = [rows EXCEPT ![a] = x]
              /\ tables' = [f.tables EXCEPT ![f.at].count = Counted(@, 1)]
              /\ keyval' = Stored(keyval, f, a, x)
              /\ UNCHANGED <<entries, idx, session, status>>
    BY <1>1 DEF db_store_i64
  <2> DEFINE x == [t_id |-> f.tables[f.at].id, primary |-> p, owner |-> k]
  <2>2. f.at \in TableAddrs
    BY FoundShape
  <2>0. x \in Elements /\ CountsOne(f, k, tables')
    BY <2>1, StoredElement, StoreTables
  <2>3. x \in Elements /\ tables' \in [TableAddrs -> TableObjects \cup {Null}]
    BY <2>0 DEF CountsOne
  <2> HIDE DEF x
  <2>4. rows' \in [RowAddrs -> Elements \cup {Null}]
    BY <1>0, <2>1, <2>3 DEF x
  <2>5. CacheTyped(keyval', RowAddrs)
    BY <1>0, <2>1, <2>2, <2>3, StoredType DEF x
  <2>6. SessionOK' /\ SessionTyped'
    BY <2>1, SessionSame
  <2> QED BY <2>1, <2>3, <2>4, <2>5, <2>6 DEF TypeInv, TypeOK, SessionOK
<1>2. CASE SecondaryStore(k, p)
  <2>1. PICK f \in FoundOrCreated(k), a \in EntryAddrs \ LiveEntries :
          LET x == [t_id |-> f.tables[f.at].id, primary |-> p, owner |-> k]
          IN  /\ entries' = [entries EXCEPT ![a] = x]
              /\ tables' = [f.tables EXCEPT ![f.at].count = Counted(@, 1)]
              /\ idx' = Stored(idx, f, a, x)
              /\ UNCHANGED <<rows, keyval, session, status>>
    BY <1>2 DEF SecondaryStore
  <2> DEFINE x == [t_id |-> f.tables[f.at].id, primary |-> p, owner |-> k]
  <2>2. f.at \in TableAddrs
    BY FoundShape
  <2>0. x \in Elements /\ CountsOne(f, k, tables')
    BY <2>1, StoredElement, StoreTables
  <2>3. x \in Elements /\ tables' \in [TableAddrs -> TableObjects \cup {Null}]
    BY <2>0 DEF CountsOne
  <2> HIDE DEF x
  <2>4. entries' \in [EntryAddrs -> Elements \cup {Null}]
    BY <1>0, <2>1, <2>3 DEF x
  <2>5. CacheTyped(idx', EntryAddrs)
    BY <1>0, <2>1, <2>2, <2>3, StoredType DEF x
  <2>6. SessionOK' /\ SessionTyped'
    BY <2>1, SessionSame
  <2> QED BY <2>1, <2>3, <2>4, <2>5, <2>6 DEF TypeInv, TypeOK, SessionOK
<1> QED BY <1>1, <1>2

(* The element and the table that a removal reaches. *)
LEMMA RemovalReaches ==
    ASSUME TypeInv, NEW c, NEW addrs, CacheTyped(c, addrs), NEW os,
           os \in [addrs -> Elements \cup {Null}], NEW i \in Held(c),
           Failure(c, os, i) = "none"
    PROVE  LET g == get(c, i)
               a == TableOf(c, os, i)
           IN  /\ g \in addrs /\ os[g] \in Elements /\ os[g] # Null
               /\ os[g].t_id \in DOMAIN c.tables /\ a = c.tables[os[g].t_id].table
               /\ a \in TableAddrs /\ tables[a] # Null /\ tables[a] \in TableObjects
               /\ a \in LiveTables
               /\ Counted(tables[a].count, -1) \in Counts
<1> DEFINE g == get(c, i)
           a == TableOf(c, os, i)
<1>1. g \in addrs
  BY HeldFacts
<1>2. /\ os[g] # Null /\ os[g].t_id \in DOMAIN c.tables
      /\ a = c.tables[os[g].t_id].table /\ tables[a] # Null
  BY FailureCases
<1> HIDE DEF a, g
<1>3. a \in TableAddrs
  BY <1>2 DEF CacheTyped
<1>4. a \in LiveTables
  BY <1>2, <1>3 DEF LiveTables
<1>5. tables[a] \in TableObjects
  BY <1>4, TypeFacts
<1>6. tables[a].count \in Counts
  BY <1>5 DEF TableObjects
<1>7. Counted(tables[a].count, -1) \in Counts
  BY <1>6, CountedType
<1> QED BY <1>1, <1>2, <1>3, <1>4, <1>5, <1>7 DEF a, g

LEMMA RowRemovedShape ==
    ASSUME TypeInv, NEW i \in Held(keyval), RowRemoved(i)
    PROVE  LET g == get(keyval, i)
               a == TableOf(keyval, rows, i)
               n == Counted(tables[a].count, -1)
           IN  /\ rows' \in [RowAddrs -> Elements \cup {Null}]
               /\ rows'[g] = Null /\ \A b \in RowAddrs \ {g} : rows'[b] = rows[b]
               /\ tables' \in [TableAddrs -> TableObjects \cup {Null}]
               /\ n = 0 => tables'[a] = Null
               /\ n # 0 => /\ tables'[a] \in TableObjects /\ tables'[a].id = tables[a].id
                           /\ tables'[a].key = tables[a].key /\ tables'[a].count = n
               /\ \A b \in TableAddrs \ {a} : tables'[b] = tables[b]
               /\ keyval' = CacheRemove(keyval, i)
               /\ \E S : Removed(S)
               /\ UNCHANGED <<entries, idx, status>>
<1> DEFINE g == get(keyval, i)
           a == TableOf(keyval, rows, i)
           n == Counted(tables[a].count, -1)
           u == IF n = 0 THEN Null ELSE [tables[a] EXCEPT !.count = n]
<1>0. /\ rows \in [RowAddrs -> Elements \cup {Null}]
      /\ tables \in [TableAddrs -> TableObjects \cup {Null}]
      /\ g \in RowAddrs /\ a \in TableAddrs /\ tables[a] \in TableObjects /\ n \in Counts
  BY TypeFacts, RemovalReaches DEF RowRemoved
<1>1. /\ tables' = [tables EXCEPT ![a] = u]
      /\ rows' = [rows EXCEPT ![g] = Null]
      /\ keyval' = CacheRemove(keyval, i)
      /\ \E S : Removed(S)
      /\ UNCHANGED <<entries, idx, status>>
  BY DEF RowRemoved, db_remove_i64
<1>2. /\ n = 0 => u = Null
      /\ n # 0 => /\ u \in TableObjects /\ u.id = tables[a].id
                  /\ u.key = tables[a].key /\ u.count = n
  BY <1>0, TableFields
<1> HIDE DEF u, n, a, g
<1>3. /\ rows' \in [RowAddrs -> Elements \cup {Null}] /\ rows'[g] = Null
      /\ \A b \in RowAddrs \ {g} : rows'[b] = rows[b]
  BY <1>0, <1>1
<1>4. /\ tables' \in [TableAddrs -> TableObjects \cup {Null}] /\ tables'[a] = u
      /\ \A b \in TableAddrs \ {a} : tables'[b] = tables[b]
  BY <1>0, <1>1, <1>2
<1> QED BY <1>1, <1>2, <1>3, <1>4 DEF n, a, g

LEMMA EntryRemovedShape ==
    ASSUME TypeInv, NEW i \in Held(idx), EntryRemoved(i)
    PROVE  LET g == get(idx, i)
               a == TableOf(idx, entries, i)
               n == Counted(tables[a].count, -1)
           IN  /\ entries' \in [EntryAddrs -> Elements \cup {Null}]
               /\ entries'[g] = Null /\ \A b \in EntryAddrs \ {g} : entries'[b] = entries[b]
               /\ tables' \in [TableAddrs -> TableObjects \cup {Null}]
               /\ tables'[a] \in TableObjects /\ tables'[a].id = tables[a].id
               /\ tables'[a].key = tables[a].key /\ tables'[a].count = n
               /\ \A b \in TableAddrs \ {a} : tables'[b] = tables[b]
               /\ idx' = CacheRemove(idx, i)
               /\ \E S : Removed(S)
               /\ UNCHANGED <<rows, keyval, status>>
<1> DEFINE g == get(idx, i)
           a == TableOf(idx, entries, i)
           n == Counted(tables[a].count, -1)
           u == [tables[a] EXCEPT !.count = n]
<1>0. /\ entries \in [EntryAddrs -> Elements \cup {Null}]
      /\ tables \in [TableAddrs -> TableObjects \cup {Null}]
      /\ g \in EntryAddrs /\ a \in TableAddrs /\ tables[a] \in TableObjects /\ n \in Counts
  BY TypeFacts, RemovalReaches DEF EntryRemoved
<1>1. /\ tables' = [tables EXCEPT ![a] = u]
      /\ entries' = [entries EXCEPT ![g] = Null]
      /\ idx' = CacheRemove(idx, i)
      /\ \E S : Removed(S)
      /\ UNCHANGED <<rows, keyval, status>>
  BY DEF EntryRemoved, SecondaryRemove
<1>2. /\ u \in TableObjects /\ u.id = tables[a].id
      /\ u.key = tables[a].key /\ u.count = n
  BY <1>0, TableFields
<1> HIDE DEF u, n, a, g
<1>3. /\ entries' \in [EntryAddrs -> Elements \cup {Null}] /\ entries'[g] = Null
      /\ \A b \in EntryAddrs \ {g} : entries'[b] = entries[b]
  BY <1>0, <1>1
<1>4. /\ tables' \in [TableAddrs -> TableObjects \cup {Null}] /\ tables'[a] = u
      /\ \A b \in TableAddrs \ {a} : tables'[b] = tables[b]
  BY <1>0, <1>1, <1>2
<1> QED BY <1>1, <1>2, <1>3, <1>4 DEF n, a, g

LEMMA TypeRemovals ==
    ASSUME TypeInv,
           \/ \E i \in Held(keyval) : RowRemoved(i)
           \/ \E i \in Held(idx) : EntryRemoved(i)
    PROVE  TypeInv'
<1>0. CacheTyped(keyval, RowAddrs) /\ CacheTyped(idx, EntryAddrs)
  BY TypeFacts
<1>1. ASSUME NEW i \in Held(keyval), RowRemoved(i) PROVE TypeInv'
  <2>1. /\ rows' \in [RowAddrs -> Elements \cup {Null}]
        /\ tables' \in [TableAddrs -> TableObjects \cup {Null}]
        /\ keyval' = CacheRemove(keyval, i) /\ (\E S : Removed(S))
        /\ UNCHANGED <<entries, idx, status>>
    BY <1>1, RowRemovedShape
  <2>2. CacheTyped(keyval', RowAddrs)
    BY <1>0, <2>1, CacheRemoveShape
  <2>3. SessionOK' /\ SessionTyped'
    BY <2>1, RemovedType
  <2> QED BY <2>1, <2>2, <2>3 DEF TypeInv, TypeOK, SessionOK
<1>2. ASSUME NEW i \in Held(idx), EntryRemoved(i) PROVE TypeInv'
  <2>1. /\ entries' \in [EntryAddrs -> Elements \cup {Null}]
        /\ tables' \in [TableAddrs -> TableObjects \cup {Null}]
        /\ idx' = CacheRemove(idx, i) /\ (\E S : Removed(S))
        /\ UNCHANGED <<rows, keyval, status>>
    BY <1>2, EntryRemovedShape
  <2>2. CacheTyped(idx', EntryAddrs)
    BY <1>0, <2>1, CacheRemoveShape
  <2>3. SessionOK' /\ SessionTyped'
    BY <2>1, RemovedType
  <2> QED BY <2>1, <2>2, <2>3 DEF TypeInv, TypeOK, SessionOK
<1> QED BY <1>1, <1>2

LEMMA TypeUndo ==
    ASSUME TypeInv, undo
    PROVE  TypeInv'
<1>1. /\ session # Null /\ session' = Null /\ status' = status
      /\ (keyval' = keyval /\ idx' = idx) \/ NoCaches
  BY DEF undo
<1>2. /\ session.tables \in [TableAddrs -> TableObjects \cup {Null}]
      /\ session.rows \in [RowAddrs -> Elements \cup {Null}]
      /\ session.entries \in [EntryAddrs -> Elements \cup {Null}]
  BY <1>1 DEF TypeInv, SessionTyped
<1>3. tables' \in [TableAddrs -> TableObjects \cup {Null}]
  <2>1. PICK place \in Reinsertions(session.tables) : tables' = Restored(session.tables, place)
    BY DEF undo
  <2> QED BY <1>2, <2>1, RestoredType
<1>4. rows' \in [RowAddrs -> Elements \cup {Null}]
  <2>1. PICK place \in Reinsertions(session.rows) : rows' = Restored(session.rows, place)
    BY DEF undo
  <2> QED BY <1>2, <2>1, RestoredType
<1>5. entries' \in [EntryAddrs -> Elements \cup {Null}]
  <2>1. PICK place \in Reinsertions(session.entries) : entries' = Restored(session.entries, place)
    BY DEF undo
  <2> QED BY <1>2, <2>1, RestoredType
<1>6. CacheTyped(keyval', RowAddrs) /\ CacheTyped(idx', EntryAddrs)
  BY <1>1, TypeFacts, EmptyCacheType DEF NoCaches
<1> QED BY <1>1, <1>3, <1>4, <1>5, <1>6 DEF TypeInv, TypeOK, SessionTyped

LEMMA TypeStep == TypeInv /\ [Next]_vars => TypeInv'
<1> SUFFICES ASSUME TypeInv, [Next]_vars PROVE TypeInv'
  OBVIOUS
<1>0. Steps
  BY StepKinds
<1>1. CASE UNCHANGED vars
  BY <1>1, TypeSame DEF vars, TypeInv, TypeOK
<1>2. CASE Asked
  BY <1>2, TypeAsked
<1>3. CASE Failed
  BY <1>3, TypeSame DEF Failed, Halt
<1>4. ASSUME NEW k \in Keys, TableCreated(k) PROVE TypeInv'
  <2>1. tables' \in [TableAddrs -> TableObjects \cup {Null}]
    BY <1>4, FoundShape DEF TableCreated
  <2>2. UNCHANGED <<rows, entries, keyval, idx, session, status>>
    BY <1>4 DEF TableCreated
  <2> QED BY <2>1, <2>2 DEF TypeInv, TypeOK, SessionTyped
<1>5. CASE construct
  BY <1>5, EmptyCacheType DEF construct, NoCaches, TypeInv, TypeOK, SessionTyped
<1>6. CASE start_undo_session
  <2>1. /\ session' = [tables |-> tables, rows |-> rows, entries |-> entries,
                       kept |-> LiveTables \cup LiveRows \cup LiveEntries]
        /\ UNCHANGED <<tables, rows, entries, keyval, idx, status>>
    BY <1>6 DEF start_undo_session
  <2>2. /\ DOMAIN session' = {"tables", "rows", "entries", "kept"}
        /\ session'.tables = tables /\ session'.rows = rows /\ session'.entries = entries
        /\ session'.kept = LiveTables \cup LiveRows \cup LiveEntries
    BY <2>1
  <2> QED BY <2>1, <2>2
          DEF TypeInv, TypeOK, SessionTyped, LiveTables, LiveRows, LiveEntries
<1>7. CASE commit
  BY <1>7 DEF commit, TypeInv, TypeOK, SessionTyped
<1>8. CASE undo
  BY <1>8, TypeUndo
<1> QED BY <1>0, <1>1, <1>2, <1>3, <1>4, <1>5, <1>6, <1>7, <1>8, TypeStores, TypeRemovals
        DEF Steps

LEMMA TypeInit == Init => TypeInv
BY EmptyCacheType DEF Init, TypeInv, TypeOK, SessionTyped

LEMMA TypeInvariant == Spec => []TypeInv
BY TypeInit, TypeStep, PTL DEF Spec

(* Objects and caches stay within the types of the code's containers, and    *)
(* the counts within their width, however a table's id repeats and even if   *)
(* the caches outlive an undo.                                               *)
THEOREM TypeCorrect == Spec => []TypeOK
<1>1. TypeInv => TypeOK
  BY DEF TypeInv
<1> QED BY <1>1, TypeInvariant, PTL

-----------------------------------------------------------------------------
(***************************************************************************)
(* Iterators keep denoting their elements.                                 *)
(***************************************************************************)
LEMMA DenoteEmpty == ASSUME NEW os PROVE Denoting(EmptyCache, os)
BY EmptyCacheType DEF Denoting

LEMMA DenoteTable ==
    ASSUME NEW c, NEW addrs, CacheTyped(c, addrs), NEW id \in TableIds, NEW a \in TableAddrs,
           NEW os, Denoting(c, os)
    PROVE  Denoting(cache_table(c, id, a), os)
<1> DEFINE d == cache_table(c, id, a)
<1>1. d.objects = c.objects /\ d.iterator_of = c.iterator_of
  BY CacheTableShape
<1> HIDE DEF d
<1> QED BY <1>1 DEF Denoting, Held, get, d

(* The iterators after add: one more, or the one that was there. *)
LEMMA HeldAdd ==
    ASSUME NEW c, NEW addrs, CacheTyped(c, addrs), Null \notin Places(addrs),
           NEW a \in addrs, NEW x \in Elements, a \notin DOMAIN c.iterator_of
    PROVE  LET d == add(c, a, x).cache
               n == Len(c.objects)
           IN  /\ Held(d) = Held(c) \cup {n} /\ n \notin Held(c)
               /\ get(d, n) = a /\ d.objects[n + 1].element = x
               /\ \A i \in Held(c) : d.objects[i + 1] = c.objects[i + 1] /\ get(d, i) = get(c, i)
<1> DEFINE d == add(c, a, x).cache
           n == Len(c.objects)
<1>1. /\ n \in Nat /\ Len(d.objects) = n + 1
      /\ d.objects[n + 1] \in Places(addrs)
      /\ d.objects[n + 1].at = a /\ d.objects[n + 1].element = x
      /\ \A i \in 1 .. n : d.objects[i] = c.objects[i]
  BY AddShape
<1> HIDE DEF d
<1>2. \A i \in 0 .. n - 1 : i + 1 \in 1 .. n /\ d.objects[i + 1] = c.objects[i + 1]
  BY <1>1
<1>3. 0 .. Len(d.objects) - 1 = (0 .. n - 1) \cup {n}
  BY <1>1
<1>4. Held(d) = Held(c) \cup {n} /\ n \notin Held(c)
  <2>1. d.objects[n + 1] # Null /\ n \notin 0 .. n - 1
    BY <1>1
  <2>2. Held(d) = {i \in (0 .. n - 1) \cup {n} : d.objects[i + 1] # Null}
    BY <1>3 DEF Held
  <2>3. Held(c) = {i \in 0 .. n - 1 : c.objects[i + 1] # Null}
    BY DEF Held
  <2> HIDE DEF n
  <2> QED BY <1>2, <2>1, <2>2, <2>3
<1>5. \A i \in Held(c) : d.objects[i + 1] = c.objects[i + 1]
  BY <1>2 DEF Held
<1> QED BY <1>1, <1>4, <1>5 DEF d, get

LEMMA DenoteAdd ==
    ASSUME NEW c, NEW addrs, CacheTyped(c, addrs), Null \notin Places(addrs),
           NEW a \in addrs, NEW os, Denoting(c, os), os[a] \in Elements
    PROVE  Denoting(add(c, a, os[a]).cache, os)
<1> DEFINE x == os[a]
           d == add(c, a, x).cache
           n == Len(c.objects)
<1>1. CASE a \in DOMAIN c.iterator_of
  BY <1>1, AddShape
<1>2. CASE a \notin DOMAIN c.iterator_of
  <2>1. /\ Held(d) = Held(c) \cup {n} /\ n \notin Held(c)
        /\ get(d, n) = a /\ d.objects[n + 1].element = x
        /\ \A i \in Held(c) : d.objects[i + 1] = c.objects[i + 1] /\ get(d, i) = get(c, i)
    BY <1>2, HeldAdd
  <2>2. /\ DOMAIN d.iterator_of = DOMAIN c.iterator_of \cup {a}
        /\ d.iterator_of[a] = n
        /\ \A b \in DOMAIN c.iterator_of : d.iterator_of[b] = c.iterator_of[b]
    BY <1>2, AddShape
  <2> HIDE DEF d, n
  <2>3. \A i \in Held(d) : /\ os[get(d, i)] = d.objects[i + 1].element
                           /\ get(d, i) \in DOMAIN d.iterator_of
                           /\ d.iterator_of[get(d, i)] = i
    BY <2>1, <2>2 DEF Denoting
  <2>4. \A b \in DOMAIN d.iterator_of :
           d.iterator_of[b] \in Held(d) /\ get(d, d.iterator_of[b]) = b
    BY <1>2, <2>1, <2>2 DEF Denoting
  <2> QED BY <2>3, <2>4 DEF Denoting, d
<1> QED BY <1>1, <1>2

(* An element stored at a free address is none that has an iterator. *)
LEMMA DenoteNew ==
    ASSUME NEW c, NEW addrs, CacheTyped(c, addrs), NEW os, NEW os2, Denoting(c, os),
           NEW a \in addrs, os[a] = Null, \A b \in addrs \ {a} : os2[b] = os[b]
    PROVE  /\ Denoting(c, os2) /\ a \notin DOMAIN c.iterator_of
           /\ \A i \in Held(c) : get(c, i) # a
<1>1. \A i \in Held(c) : get(c, i) \in addrs /\ c.objects[i + 1].element \in Elements
  BY HeldFacts
<1>2. \A i \in Held(c) : get(c, i) # a
  BY <1>1, NullAssumption DEF Denoting
<1>3. \A i \in Held(c) : os2[get(c, i)] = os[get(c, i)]
  BY <1>1, <1>2
<1>4. a \notin DOMAIN c.iterator_of
  BY <1>2 DEF Denoting
<1> QED BY <1>2, <1>3, <1>4 DEF Denoting

(* An element that is removed takes its one iterator along. *)
LEMMA HeldRemove ==
    ASSUME NEW c, NEW addrs, CacheTyped(c, addrs), NEW i \in Held(c)
    PROVE  LET d == CacheRemove(c, i)
           IN  /\ Held(d) = Held(c) \ {i}
               /\ \A j \in Held(d) : d.objects[j + 1] = c.objects[j + 1] /\ get(d, j) = get(c, j)
<1> DEFINE d == CacheRemove(c, i)
<1>0. i \in Nat /\ Len(c.objects) \in Nat
  BY HeldFacts
<1>1. /\ Len(d.objects) = Len(c.objects) /\ d.objects[i + 1] = Null
      /\ \A j \in 1 .. Len(c.objects) : j # i + 1 => d.objects[j] = c.objects[j]
  BY CacheRemoveShape
<1> HIDE DEF d
<1>2. \A j \in 0 .. Len(c.objects) - 1 : j # i => d.objects[j + 1] = c.objects[j + 1]
  BY <1>0, <1>1
<1>3. Held(d) = Held(c) \ {i}
  BY <1>0, <1>1, <1>2 DEF Held
<1>4. \A j \in Held(d) : d.objects[j + 1] = c.objects[j + 1]
  BY <1>2, <1>3 DEF Held
<1> QED BY <1>3, <1>4 DEF d, get

LEMMA DenoteRemove ==
    ASSUME NEW c, NEW addrs, CacheTyped(c, addrs), NEW os, NEW os2, Denoting(c, os),
           NEW i \in Held(c), \A b \in addrs \ {get(c, i)} : os2[b] = os[b]
    PROVE  Denoting(CacheRemove(c, i), os2)
<1> DEFINE d == CacheRemove(c, i)
           g == get(c, i)
<1>1. /\ Held(d) = Held(c) \ {i}
      /\ \A j \in Held(d) : d.objects[j + 1] = c.objects[j + 1] /\ get(d, j) = get(c, j)
  BY HeldRemove
<1>2. /\ DOMAIN d.iterator_of = DOMAIN c.iterator_of \ {g}
      /\ \A b \in DOMAIN c.iterator_of \ {g} : d.iterator_of[b] = c.iterator_of[b]
  BY CacheRemoveShape
<1>3. \A j \in Held(c) : get(c, j) \in addrs
  BY HeldFacts
<1> HIDE DEF d
<1>4. \A j \in Held(d) : get(c, j) # g
  BY <1>1 DEF Denoting
<1>5. \A j \in Held(d) : /\ os2[get(d, j)] = d.objects[j + 1].element
                         /\ get(d, j) \in DOMAIN d.iterator_of
                         /\ d.iterator_of[get(d, j)] = j
  BY <1>1, <1>2, <1>3, <1>4 DEF Denoting
<1>6. \A b \in DOMAIN d.iterator_of :
         d.iterator_of[b] \in Held(d) /\ get(d, d.iterator_of[b]) = b
  BY <1>1, <1>2 DEF Denoting
<1> QED BY <1>5, <1>6 DEF Denoting, d

LEMMA DenoteStored ==
    ASSUME NEW c, NEW addrs, CacheTyped(c, addrs), Null \notin Places(addrs),
           NEW os \in [addrs -> Elements \cup {Null}], Denoting(c, os),
           NEW f, f.at \in TableAddrs, NEW a \in addrs, os[a] = Null, NEW x \in Elements
    PROVE  Denoting(Stored(c, f, a, x), [os EXCEPT ![a] = x])
<1> DEFINE os2 == [os EXCEPT ![a] = x]
           d == cache_table(c, x.t_id, f.at)
<1>1. os2[a] = x /\ \A b \in addrs \ {a} : os2[b] = os[b]
  OBVIOUS
<1> HIDE DEF os2
<1>2. Denoting(c, os2)
  BY <1>1, DenoteNew
<1>3. x.t_id \in TableIds
  BY ElementFields
<1>4. CacheTyped(d, addrs) /\ Denoting(d, os2)
  BY <1>2, <1>3, CacheTableShape, DenoteTable
<1> HIDE DEF d
<1>5. Denoting(add(d, a, os2[a]).cache, os2)
  BY <1>1, <1>4, DenoteAdd
<1> QED BY <1>1, <1>5 DEF Stored, d, os2

LEMMA DenoteAsked ==
    ASSUME DenoteInv, Asked
    PROVE  IteratorsDenote'
<1>0. /\ TypeInv /\ CacheTyped(keyval, RowAddrs)
      /\ Denoting(keyval, rows) /\ Denoting(idx, entries)
  BY TypeFacts DEF DenoteInv, IteratorsDenote
<1>1. UNCHANGED <<rows, entries, idx>>
  BY DEF Asked
<1>2. Denoting(keyval', rows)
  <2>1. CASE AskedTable
    <3>1. PICK a \in LiveTables :
            LET c == cache_table(keyval, tables[a].id, a)
            IN  \/ keyval' = c
                \/ \E b \in LiveRows : keyval' = add(c, b, rows[b]).cache
      BY <2>1 DEF AskedTable
    <3> DEFINE c == cache_table(keyval, tables[a].id, a)
    <3>2. a \in TableAddrs /\ tables[a].id \in TableIds
      BY <1>0, TypeFacts DEF TableObjects
    <3>3. CacheTyped(c, RowAddrs) /\ Denoting(c, rows)
      BY <1>0, <3>2, CacheTableShape, DenoteTable
    <3> HIDE DEF c
    <3>4. ASSUME NEW b \in LiveRows PROVE Denoting(add(c, b, rows[b]).cache, rows)
      BY <1>0, <3>3, TypeFacts, DenoteAdd, NoPlace
    <3> QED BY <3>1, <3>3, <3>4 DEF c
  <2>2. CASE AskedNeighbour
    <3>1. PICK b \in LiveRows : keyval' = add(keyval, b, rows[b]).cache
      BY <2>2 DEF AskedNeighbour
    <3> QED BY <1>0, <3>1, TypeFacts, DenoteAdd, NoPlace
  <2> QED BY <1>0, <2>1, <2>2 DEF Asked
<1> QED BY <1>0, <1>1, <1>2 DEF IteratorsDenote

LEMMA DenoteStores ==
    ASSUME DenoteInv, NEW k \in Keys, NEW p \in Primaries,
           db_store_i64(k, p) \/ SecondaryStore(k, p)
    PROVE  IteratorsDenote'
<1>0. /\ rows \in [RowAddrs -> Elements \cup {Null}] /\ TypeInv
      /\ entries \in [EntryAddrs -> Elements \cup {Null}]
      /\ CacheTyped(keyval, RowAddrs) /\ CacheTyped(idx, EntryAddrs)
      /\ Denoting(keyval, rows) /\ Denoting(idx, entries)
  BY TypeFacts DEF DenoteInv, IteratorsDenote
<1>1. CASE db_store_i64(k, p)
  <2>1. PICK f \in FoundOrCreated(k), a \in RowAddrs \ LiveRows :
          LET x == [t_id |-> f.tables[f.at].id, primary |-> p, owner |-> k]
          IN  /\ rows' = [rows EXCEPT ![a] = x]
              /\ keyval' = Stored(keyval, f, a, x)
              /\ UNCHANGED <<entries, idx>>
    BY <1>1 DEF db_store_i64
  <2> DEFINE x == [t_id |-> f.tables[f.at].id, primary |-> p, owner |-> k]
  <2>2. f.at \in TableAddrs /\ rows[a] = Null /\ a \in RowAddrs
    BY <1>0, FoundShape DEF LiveRows
  <2>3. x \in Elements
    BY <1>0, StoredElement
  <2> HIDE DEF x
  <2>4. Denoting(keyval', rows')
    BY <1>0, <2>1, <2>2, <2>3, DenoteStored, NoPlace DEF x
  <2> QED BY <1>0, <2>1, <2>4 DEF IteratorsDenote
<1>2. CASE SecondaryStore(k, p)
  <2>1. PICK f \in FoundOrCreated(k), a \in EntryAddrs \ LiveEntries :
          LET x == [t_id |-> f.tables[f.at].id, primary |-> p, owner |-> k]
          IN  /\ entries' = [entries EXCEPT ![a] = x]
              /\ idx' = Stored(idx, f, a, x)
              /\ UNCHANGED <<rows, keyval>>
    BY <1>2 DEF SecondaryStore
  <2> DEFINE x == [t_id |-> f.tables[f.at].id, primary |-> p, owner |-> k]
  <2>2. f.at \in TableAddrs /\ entries[a] = Null /\ a \in EntryAddrs
    BY <1>0, FoundShape DEF LiveEntries
  <2>3. x \in Elements
    BY <1>0, StoredElement
  <2> HIDE DEF x
  <2>4. Denoting(idx', entries')
    BY <1>0, <2>1, <2>2, <2>3, DenoteStored, NoPlace DEF x
  <2> QED BY <1>0, <2>1, <2>4 DEF IteratorsDenote
<1> QED BY <1>1, <1>2

LEMMA DenoteStep ==
    ASSUME ~KeepCaches
    PROVE  DenoteInv /\ [Next]_vars => DenoteInv'
<1> SUFFICES ASSUME DenoteInv, [Next]_vars PROVE IteratorsDenote'
  BY TypeStep DEF DenoteInv
<1>0. /\ TypeInv /\ Steps /\ CacheTyped(keyval, RowAddrs) /\ CacheTyped(idx, EntryAddrs)
      /\ Denoting(keyval, rows) /\ Denoting(idx, entries)
  BY StepKinds, TypeFacts DEF DenoteInv, IteratorsDenote
<1>1. CASE UNCHANGED <<rows, entries, keyval, idx>>
  BY <1>0, <1>1 DEF IteratorsDenote
<1>2. CASE NoCaches
  BY <1>2, DenoteEmpty DEF NoCaches, IteratorsDenote
<1>3. ASSUME NEW i \in Held(keyval), RowRemoved(i) PROVE IteratorsDenote'
  <2>1. /\ \A b \in RowAddrs \ {get(keyval, i)} : rows'[b] = rows[b]
        /\ keyval' = CacheRemove(keyval, i) /\ UNCHANGED <<entries, idx>>
    BY <1>0, <1>3, RowRemovedShape
  <2>2. Denoting(keyval', rows')
    BY <1>0, <2>1, DenoteRemove
  <2> QED BY <1>0, <2>1, <2>2 DEF IteratorsDenote
<1>4. ASSUME NEW i \in Held(idx), EntryRemoved(i) PROVE IteratorsDenote'
  <2>1. /\ \A b \in EntryAddrs \ {get(idx, i)} : entries'[b] = entries[b]
        /\ idx' = CacheRemove(idx, i) /\ UNCHANGED <<rows, keyval>>
    BY <1>0, <1>4, EntryRemovedShape
  <2>2. Denoting(idx', entries')
    BY <1>0, <2>1, DenoteRemove
  <2> QED BY <1>0, <2>1, <2>2 DEF IteratorsDenote
<1>5. CASE undo
  BY <1>2, <1>5 DEF undo
<1>6. ASSUME \/ UNCHANGED vars \/ Failed \/ \E k \in Keys : TableCreated(k)
             \/ start_undo_session \/ commit
      PROVE  UNCHANGED <<rows, entries, keyval, idx>>
  BY <1>6 DEF vars, Failed, Halt, TableCreated, start_undo_session, commit
<1>7. CASE construct
  BY <1>2, <1>7 DEF construct
<1> QED BY <1>0, <1>1, <1>3, <1>4, <1>5, <1>6, <1>7, DenoteAsked, DenoteStores DEF Steps

LEMMA DenoteInit == Init => DenoteInv
BY TypeInit, DenoteEmpty DEF Init, DenoteInv, IteratorsDenote

(* An iterator that was not removed denotes the element it was handed out    *)
(* for, whatever is stored at addresses that become free, and no element has *)
(* two iterators; a table's id may even repeat.  It is the undo of a session *)
(* under a cache that is kept that would break this.                         *)
THEOREM IteratorsCorrect ==
    ASSUME ~KeepCaches
    PROVE  Spec => []IteratorsDenote
<1>1. DenoteInv => IteratorsDenote
  BY DEF DenoteInv
<1> QED BY <1>1, DenoteInit, DenoteStep, PTL DEF Spec

-----------------------------------------------------------------------------
(***************************************************************************)
(* The counts of the tables.                                               *)
(***************************************************************************)
TablesTyped(ts) == ts \in [TableAddrs -> TableObjects \cup {Null}]

ElementsTyped(os, addrs) == os \in [addrs -> Elements \cup {Null}] /\ IsFiniteSet(addrs)

LEMMA LiveTable ==
    ASSUME NEW ts, TablesTyped(ts)
    PROVE  /\ Live(ts) = {a \in TableAddrs : ts[a] # Null}
           /\ \A a \in Live(ts) : /\ a \in TableAddrs /\ ts[a] \in TableObjects
                                  /\ ts[a].id \in TableIds /\ ts[a].key \in Keys
                                  /\ ts[a].count \in Counts
BY DEF Live, TablesTyped, TableObjects

LEMMA LiveElement ==
    ASSUME NEW os, NEW addrs, ElementsTyped(os, addrs)
    PROVE  /\ Live(os) = {a \in addrs : os[a] # Null}
           /\ \A a \in Live(os) : /\ a \in addrs /\ os[a] \in Elements
                                  /\ os[a].t_id \in TableIds /\ os[a].owner \in Keys
BY DEF Live, ElementsTyped, Elements

LEMMA OwnedCount ==
    ASSUME NEW os, NEW addrs, ElementsTyped(os, addrs), NEW k
    PROVE  /\ IsFiniteSet(OwnedBy(os, k)) /\ Cardinality(OwnedBy(os, k)) \in Nat
           /\ Cardinality(addrs) \in Nat
           /\ Cardinality(OwnedBy(os, k)) <= Cardinality(addrs)
           /\ Cardinality(OwnedBy(os, k)) = 0 <=> OwnedBy(os, k) = {}
<1>1. OwnedBy(os, k) \in SUBSET addrs
  BY LiveElement DEF OwnedBy
<1>2. IsFiniteSet(addrs)
  BY DEF ElementsTyped
<1>3. /\ IsFiniteSet(OwnedBy(os, k))
      /\ Cardinality(OwnedBy(os, k)) <= Cardinality(addrs)
  BY <1>1, <1>2, FS_Subset
<1> QED BY <1>2, <1>3, FS_CardinalityType, FS_EmptySet

(* One more element of a table. *)
LEMMA OwnedAdd ==
    ASSUME NEW os, NEW os2, NEW addrs, ElementsTyped(os, addrs), ElementsTyped(os2, addrs),
           NEW a \in addrs, os[a] = Null, os2[a] \in Elements,
           \A b \in addrs \ {a} : os2[b] = os[b]
    PROVE  /\ Live(os2) = Live(os) \cup {a} /\ a \notin Live(os)
           /\ Cardinality(OwnedBy(os2, os2[a].owner)) = Cardinality(OwnedBy(os, os2[a].owner)) + 1
           /\ \A k : k # os2[a].owner => OwnedBy(os2, k) = OwnedBy(os, k)
<1> DEFINE o == os2[a].owner
<1>1. os2[a] # Null
  BY ElementFields
<1>2. Live(os2) = Live(os) \cup {a} /\ a \notin Live(os)
  BY <1>1, LiveElement
<1>3. \A b \in Live(os) : os2[b] = os[b]
  BY <1>2, LiveElement
<1>4. OwnedBy(os2, o) = OwnedBy(os, o) \cup {a} /\ a \notin OwnedBy(os, o)
  BY <1>2, <1>3 DEF OwnedBy
<1>5. Cardinality(OwnedBy(os2, o)) = Cardinality(OwnedBy(os, o)) + 1
  BY <1>4, OwnedCount, FS_AddElement
<1>6. \A k : k # o => OwnedBy(os2, k) = OwnedBy(os, k)
  BY <1>2, <1>3 DEF OwnedBy
<1> QED BY <1>2, <1>5, <1>6

(* One less. *)
LEMMA OwnedRemove ==
    ASSUME NEW os, NEW os2, NEW addrs, ElementsTyped(os, addrs), ElementsTyped(os2, addrs),
           NEW a \in addrs, os[a] \in Elements, os2[a] = Null,
           \A b \in addrs \ {a} : os2[b] = os[b]
    PROVE  /\ Live(os2) = Live(os) \ {a} /\ a \in Live(os)
           /\ Cardinality(OwnedBy(os2, os[a].owner)) = Cardinality(OwnedBy(os, os[a].owner)) - 1
           /\ \A k : k # os[a].owner => OwnedBy(os2, k) = OwnedBy(os, k)
<1> DEFINE o == os[a].owner
<1>1. os[a] # Null
  BY ElementFields
<1>2. Live(os2) = Live(os) \ {a} /\ a \in Live(os)
  BY <1>1, LiveElement
<1>3. \A b \in Live(os2) : os2[b] = os[b]
  BY <1>2, LiveElement
<1>4. OwnedBy(os2, o) = OwnedBy(os, o) \ {a} /\ a \in OwnedBy(os, o)
  BY <1>2, <1>3 DEF OwnedBy
<1>5. Cardinality(OwnedBy(os2, o)) = Cardinality(OwnedBy(os, o)) - 1
  <2>1. IsFiniteSet(OwnedBy(os, o))
    BY OwnedCount
  <2> HIDE DEF o
  <2> QED BY <1>4, <2>1, FS_RemoveElement
<1>6. \A k : k # o => OwnedBy(os2, k) = OwnedBy(os, k)
  BY <1>2, <1>3 DEF OwnedBy
<1> QED BY <1>2, <1>5, <1>6

(* find_or_create_table adds an empty table under a name that had none. *)
LEMMA CreateSound ==
    ASSUME NEW ts, NEW rs, NEW es, TablesTyped(ts), ElementsTyped(rs, RowAddrs),
           ElementsTyped(es, EntryAddrs), Sound(ts, rs, es),
           NEW ts2, TablesTyped(ts2), NEW a \in TableAddrs \ Live(ts),
           NEW k \in Keys, NEW id \in TableIds, ts2[a] = NewTable(k, id),
           NewTable(k, id) \in TableObjects,
           \A b \in TableAddrs \ {a} : ts2[b] = ts[b],
           \A b \in Live(ts) : ts[b].id # id /\ ts[b].key # k
    PROVE  /\ Sound(ts2, rs, es) /\ Live(ts2) = Live(ts) \cup {a}
           /\ \A b \in Live(rs) : rs[b].t_id # id
           /\ ts2[a].id = id
<1>1. ts2[a] # Null /\ ts2[a].id = id /\ ts2[a].key = k /\ ts2[a].count = 0
  BY NullAssumption DEF NewTable
<1>2. Live(ts2) = Live(ts) \cup {a} /\ \A b \in Live(ts) : ts2[b] = ts[b]
  BY <1>1, LiveTable
<1>3. UniqueTables(ts2)
  BY <1>1, <1>2 DEF UniqueTables, Sound
<1>4. Homed(ts2, rs) /\ Homed(ts2, es)
  BY <1>2 DEF Homed, Sound
<1>5. OwnedBy(rs, k) = {} /\ OwnedBy(es, k) = {}
  BY DEF OwnedBy, Homed, Sound
<1>6. Counting(ts2, rs, es)
  <2>1. Cardinality(OwnedBy(rs, k)) = 0 /\ Cardinality(OwnedBy(es, k)) = 0
    BY <1>5, FS_EmptySet
  <2>2. ts2[a].count = Cardinality(OwnedBy(rs, k)) + Cardinality(OwnedBy(es, k))
    BY <1>1, <2>1
  <2> QED BY <1>1, <1>2, <2>2 DEF Counting, Sound
<1>7. \A b \in Live(rs) : rs[b].t_id # id
  BY DEF Homed, Sound
<1> QED BY <1>1, <1>2, <1>3, <1>4, <1>6, <1>7 DEF Sound

LEMMA CountingSwap ==
    ASSUME NEW ts, NEW rs, NEW es, ElementsTyped(rs, RowAddrs), ElementsTyped(es, EntryAddrs)
    PROVE  Counting(ts, rs, es) <=> Counting(ts, es, rs)
<1>1. \A k : Cardinality(OwnedBy(rs, k)) \in Nat /\ Cardinality(OwnedBy(es, k)) \in Nat
  BY OwnedCount
<1>2. \A k : Cardinality(OwnedBy(rs, k)) + Cardinality(OwnedBy(es, k))
              = Cardinality(OwnedBy(es, k)) + Cardinality(OwnedBy(rs, k))
  BY <1>1
<1> QED BY <1>2 DEF Counting

(* A store counts its element. *)
LEMMA StoreCounting ==
    ASSUME NEW ts, NEW ts2, TablesTyped(ts), TablesTyped(ts2), UniqueTables(ts),
           NEW os, NEW os2, NEW addrs, ElementsTyped(os, addrs), ElementsTyped(os2, addrs),
           NEW ps, NEW qaddrs, ElementsTyped(ps, qaddrs),
           Cardinality(addrs) + Cardinality(qaddrs) < CountModulus,
           Counting(ts, os, ps), Homed(ts, os), Homed(ts, ps),
           NEW at \in Live(ts), ts2[at] \in TableObjects,
           ts2[at].id = ts[at].id, ts2[at].key = ts[at].key,
           ts2[at].count = Counted(ts[at].count, 1),
           \A b \in TableAddrs \ {at} : ts2[b] = ts[b],
           NEW a \in addrs, os[a] = Null, os2[a] \in Elements,
           os2[a].owner = ts[at].key, os2[a].t_id = ts[at].id,
           \A b \in addrs \ {a} : os2[b] = os[b]
    PROVE  /\ Live(ts2) = Live(ts) /\ \A b \in Live(ts) : ts2[b].id = ts[b].id
           /\ UniqueTables(ts2) /\ Homed(ts2, os2) /\ Homed(ts2, ps)
           /\ Counting(ts2, os2, ps)
<1> DEFINE k == ts[at].key
           m == Cardinality(OwnedBy(os, k))
           q == Cardinality(OwnedBy(ps, k))
<1>1. ts2[at] # Null
  BY NullAssumption
<1>2. Live(ts2) = Live(ts) /\ \A b \in Live(ts) : b # at => ts2[b] = ts[b]
  <2>1. /\ Live(ts) = {b \in TableAddrs : ts[b] # Null}
        /\ Live(ts2) = {b \in TableAddrs : ts2[b] # Null}
    BY LiveTable
  <2> QED BY <1>1, <2>1
<1>3. \A b \in Live(ts) : ts2[b].id = ts[b].id /\ ts2[b].key = ts[b].key
  BY <1>2
<1>4. UniqueTables(ts2)
  BY <1>2, <1>3 DEF UniqueTables
<1>5. /\ Live(os2) = Live(os) \cup {a} /\ a \notin Live(os)
      /\ Cardinality(OwnedBy(os2, k)) = m + 1
      /\ \A j : j # k => OwnedBy(os2, j) = OwnedBy(os, j)
  BY OwnedAdd
<1>6. \A b \in Live(os) : os2[b] = os[b]
  BY <1>5, LiveElement
<1>7. Homed(ts2, os2) /\ Homed(ts2, ps)
  BY <1>2, <1>3, <1>5, <1>6 DEF Homed
<1>8. /\ m \in Nat /\ q \in Nat /\ Cardinality(addrs) \in Nat /\ Cardinality(qaddrs) \in Nat
      /\ m + 1 <= Cardinality(addrs) /\ q <= Cardinality(qaddrs)
  <2>1. m \in Nat /\ Cardinality(addrs) \in Nat
    BY OwnedCount
  <2>2. q \in Nat /\ Cardinality(qaddrs) \in Nat /\ q <= Cardinality(qaddrs)
    BY OwnedCount
  <2>3. Cardinality(OwnedBy(os2, k)) <= Cardinality(addrs)
    BY OwnedCount
  <2> QED BY <1>5, <2>1, <2>2, <2>3
<1>9. ts[at].count = m + q
  BY DEF Counting
<1> HIDE DEF m, q, k
<1>10. ts2[at].count = m + 1 + q
  <2>1. m + q + 1 \in 0 .. CountModulus - 1 /\ CountModulus \in Nat
    BY <1>8, ModulusPositive
  <2>2. (m + q + 1) % CountModulus = m + q + 1
    BY <2>1, ModulusPositive
  <2> QED BY <1>8, <1>9, <2>2 DEF Counted
<1>11. Counting(ts2, os2, ps)
  <2> SUFFICES ASSUME NEW b \in Live(ts)
               PROVE  ts2[b].count = Cardinality(OwnedBy(os2, ts2[b].key))
                                     + Cardinality(OwnedBy(ps, ts2[b].key))
    BY <1>2 DEF Counting
  <2>1. CASE b = at
    BY <1>5, <1>10, <2>1 DEF k, q
  <2>2. CASE b # at
    <3>1. ts[b].key # k
      BY <2>2 DEF UniqueTables, k
    <3> QED BY <1>2, <1>5, <2>2, <3>1 DEF Counting
  <2> QED BY <2>1, <2>2
<1> QED BY <1>2, <1>3, <1>4, <1>7, <1>11

(* A count of zero says that the table k owns nothing. *)
ZeroWhenEmpty(n, os, ps, k) == n = 0 <=> (OwnedBy(os, k) = {} /\ OwnedBy(ps, k) = {})

(* A removal counts its element down, and takes the table along at most when *)
(* nothing else is stored under its name.                                    *)
LEMMA RemoveCounting ==
    ASSUME NEW ts, NEW ts2, TablesTyped(ts), TablesTyped(ts2), UniqueTables(ts),
           NEW os, NEW os2, NEW addrs, ElementsTyped(os, addrs), ElementsTyped(os2, addrs),
           NEW ps, NEW qaddrs, ElementsTyped(ps, qaddrs),
           Cardinality(addrs) + Cardinality(qaddrs) < CountModulus,
           Counting(ts, os, ps), Homed(ts, os), Homed(ts, ps),
           NEW at \in Live(ts),
           NEW n, n = Counted(ts[at].count, -1),
           \/ ts2[at] = Null /\ n = 0
           \/ /\ ts2[at] \in TableObjects /\ ts2[at].id = ts[at].id
              /\ ts2[at].key = ts[at].key /\ ts2[at].count = n,
           \A b \in TableAddrs \ {at} : ts2[b] = ts[b],
           NEW a \in addrs, os[a] \in Elements, os[a].owner = ts[at].key, os2[a] = Null,
           \A b \in addrs \ {a} : os2[b] = os[b]
    PROVE  /\ Live(ts2) \subseteq Live(ts) /\ \A b \in Live(ts2) : ts2[b].id = ts[b].id
           /\ UniqueTables(ts2) /\ Homed(ts2, os2) /\ Homed(ts2, ps)
           /\ Counting(ts2, os2, ps)
           /\ ZeroWhenEmpty(n, os2, ps, ts[at].key)
<1> DEFINE k == ts[at].key
           m == Cardinality(OwnedBy(os, k))
           q == Cardinality(OwnedBy(ps, k))
<1>1. /\ Live(ts) = {b \in TableAddrs : ts[b] # Null}
      /\ Live(ts2) = {b \in TableAddrs : ts2[b] # Null}
  BY LiveTable
<1>2. /\ Live(ts2) \subseteq Live(ts) /\ \A b \in Live(ts2) : b # at => ts2[b] = ts[b]
      /\ Live(ts) \ {at} \subseteq Live(ts2)
  BY <1>1
<1>3. at \in Live(ts2) => /\ ts2[at].id = ts[at].id /\ ts2[at].key = k /\ ts2[at].count = n
  BY <1>1
<1>4. \A b \in Live(ts2) : ts2[b].id = ts[b].id /\ ts2[b].key = ts[b].key
  BY <1>2, <1>3
<1>5. UniqueTables(ts2)
  BY <1>2, <1>4 DEF UniqueTables
<1>6. /\ Live(os2) = Live(os) \ {a} /\ a \in Live(os)
      /\ Cardinality(OwnedBy(os2, k)) = m - 1
      /\ \A j : j # k => OwnedBy(os2, j) = OwnedBy(os, j)
  BY OwnedRemove
<1>7. \A b \in Live(os2) : b \in Live(os) /\ os2[b] = os[b]
  BY <1>6, LiveElement
<1>8. /\ m \in Nat /\ q \in Nat /\ m - 1 \in Nat
      /\ Cardinality(addrs) \in Nat /\ Cardinality(qaddrs) \in Nat
      /\ m <= Cardinality(addrs) /\ q <= Cardinality(qaddrs)
  <2>1. m \in Nat /\ Cardinality(addrs) \in Nat /\ m <= Cardinality(addrs)
    BY OwnedCount
  <2>2. q \in Nat /\ Cardinality(qaddrs) \in Nat /\ q <= Cardinality(qaddrs)
    BY OwnedCount
  <2>3. Cardinality(OwnedBy(os2, k)) \in Nat
    BY OwnedCount
  <2> QED BY <1>6, <2>1, <2>2, <2>3
<1>9. ts[at].count = m + q
  BY DEF Counting
<1>10. n = m - 1 + q
  <2> HIDE DEF m, q
  <2>1. m + q - 1 \in 0 .. CountModulus - 1 /\ CountModulus \in Nat
    BY <1>8, ModulusPositive
  <2>2. (m + q + (-1)) % CountModulus = m + q - 1
    BY <1>8, <2>1, ModulusPositive
  <2> QED BY <1>8, <1>9, <2>2 DEF Counted
<1>11. n = 0 <=> (OwnedBy(os2, k) = {} /\ OwnedBy(ps, k) = {})
  <2>1. /\ Cardinality(OwnedBy(os2, k)) = 0 <=> OwnedBy(os2, k) = {}
        /\ Cardinality(OwnedBy(ps, k)) = 0 <=> OwnedBy(ps, k) = {}
    BY OwnedCount
  <2>2. n = 0 <=> (m - 1 = 0 /\ q = 0)
    <3> HIDE DEF m, q
    <3> QED BY <1>8, <1>10
  <2> QED BY <1>6, <2>1, <2>2
<1>12. at \in Live(ts2) \/ n = 0
  <2>1. at \in TableAddrs /\ Null \notin TableObjects
    BY <1>1, NullAssumption
  <2> QED BY <1>1, <2>1
<1> HIDE DEF m, q, k
<1>13. Homed(ts2, os2)
  <2> SUFFICES ASSUME NEW b \in Live(os2)
               PROVE  \E t \in Live(ts2) : ts2[t].id = os2[b].t_id /\ ts2[t].key = os2[b].owner
    BY DEF Homed
  <2>1. b \in Live(os) /\ os2[b] = os[b]
    BY <1>7
  <2>2. PICK t \in Live(ts) : ts[t].id = os[b].t_id /\ ts[t].key = os[b].owner
    BY <2>1 DEF Homed
  <2>3. t \in Live(ts2)
    <3>1. CASE t = at
      BY <1>11, <1>12, <2>1, <2>2, <3>1 DEF OwnedBy, k
    <3>2. CASE t # at
      BY <1>2, <3>2
    <3> QED BY <3>1, <3>2
  <2> QED BY <1>4, <2>1, <2>2, <2>3
<1>14. Homed(ts2, ps)
  <2> SUFFICES ASSUME NEW b \in Live(ps)
               PROVE  \E t \in Live(ts2) : ts2[t].id = ps[b].t_id /\ ts2[t].key = ps[b].owner
    BY DEF Homed
  <2>2. PICK t \in Live(ts) : ts[t].id = ps[b].t_id /\ ts[t].key = ps[b].owner
    BY DEF Homed
  <2>3. t \in Live(ts2)
    <3>1. CASE t = at
      BY <1>11, <1>12, <2>2, <3>1 DEF OwnedBy, k
    <3>2. CASE t # at
      BY <1>2, <3>2
    <3> QED BY <3>1, <3>2
  <2> QED BY <1>4, <2>2, <2>3
<1>15. Counting(ts2, os2, ps)
  <2> SUFFICES ASSUME NEW b \in Live(ts2)
               PROVE  ts2[b].count = Cardinality(OwnedBy(os2, ts2[b].key))
                                     + Cardinality(OwnedBy(ps, ts2[b].key))
    BY DEF Counting
  <2>1. CASE b = at
    BY <1>3, <1>6, <1>10, <2>1 DEF q
  <2>2. CASE b # at
    <3>1. b \in Live(ts) /\ ts2[b] = ts[b]
      BY <1>2, <2>2
    <3>2. ts[b].key # k
      BY <2>2, <3>1 DEF UniqueTables, k
    <3> QED BY <1>6, <3>1, <3>2 DEF Counting
  <2> QED BY <2>1, <2>2
<1>16. ZeroWhenEmpty(n, os2, ps, ts[at].key)
  BY <1>11 DEF ZeroWhenEmpty, k
<1> QED BY <1>2, <1>4, <1>5, <1>13, <1>14, <1>15, <1>16

(***************************************************************************)
(* What the caches know.                                                   *)
(***************************************************************************)

(* Tables that go, or change otherwise than in their ids. *)
LEMMA KnownFewer ==
    ASSUME NEW c, NEW ts, NEW ts2, TablesKnown(c, ts),
           \A b \in Live(ts2) : b \in Live(ts) /\ ts2[b].id = ts[b].id
    PROVE  TablesKnown(c, ts2)
BY DEF TablesKnown

LEMMA EndsFewer ==
    ASSUME NEW c, NEW ts, NEW ts2, NEW os, NEW os2, EndsKnown(c, ts, os),
           \A b \in Live(ts2) : b \in Live(ts) /\ ts2[b].id = ts[b].id,
           \A b \in Live(os2) : b \in Live(os) /\ os2[b].t_id = os[b].t_id
    PROVE  EndsKnown(c, ts2, os2)
BY DEF EndsKnown

(* A new table has an id that the cache does not know, and no rows. *)
LEMMA KnownCreated ==
    ASSUME NEW c, NEW ts, NEW ts2, NEW a, NEW id, TablesKnown(c, ts),
           Live(ts2) = Live(ts) \cup {a}, \A b \in Live(ts) \ {a} : ts2[b] = ts[b],
           a \notin Live(ts), ts2[a].id = id, id \notin DOMAIN c.tables
    PROVE  /\ TablesKnown(c, ts2)
           /\ \A os : EndsKnown(c, ts, os) /\ (\A b \in Live(os) : os[b].t_id # id)
                       => EndsKnown(c, ts2, os)
<1>1. \A b \in Live(ts) : ts2[b] = ts[b]
  OBVIOUS
<1>2. TablesKnown(c, ts2)
  BY <1>1 DEF TablesKnown
<1>3. ASSUME NEW os, EndsKnown(c, ts, os), \A b \in Live(os) : os[b].t_id # id
      PROVE  EndsKnown(c, ts2, os)
  BY <1>1, <1>3 DEF EndsKnown
<1> QED BY <1>2, <1>3

LEMMA KnownTable ==
    ASSUME NEW c, NEW addrs, CacheTyped(c, addrs), NEW ts, TablesTyped(ts), UniqueTables(ts),
           TablesKnown(c, ts), NEW a \in Live(ts), NEW id, ts[a].id = id
    PROVE  LET d == cache_table(c, id, a)
           IN  /\ TablesKnown(d, ts) /\ id \in DOMAIN d.tables
               /\ d.tables[id].table = a
               /\ DOMAIN c.tables \subseteq DOMAIN d.tables
               /\ \A os : IdsKnown(c, os) => IdsKnown(d, os)
               /\ \A os : EndsKnown(c, ts, os) => EndsKnown(d, ts, os)
<1> DEFINE d == cache_table(c, id, a)
<1>0. a \in TableAddrs /\ id \in TableIds
  BY LiveTable
<1>1. /\ d.objects = c.objects
      /\ DOMAIN d.tables = DOMAIN c.tables \cup {id}
      /\ \A j \in DOMAIN c.tables : d.tables[j] = c.tables[j]
      /\ id \in DOMAIN c.tables => d = c
      /\ id \notin DOMAIN c.tables =>
           /\ d.tables[id].table = a
           /\ d.tables[id].end = index_to_end_iterator(Len(c.ends))
           /\ d.ends = Append(c.ends, a)
  BY <1>0, CacheTableShape
<1>2. c.ends \in Seq(TableAddrs) /\ Len(c.ends) \in Nat
  BY DEF CacheTyped
<1> HIDE DEF d
<1>3. ASSUME NEW os, IdsKnown(c, os) PROVE IdsKnown(d, os)
  BY <1>1, <1>3 DEF IdsKnown, Held, get
<1>4. CASE id \in DOMAIN c.tables
  <2>1. d = c
    BY <1>1, <1>4
  <2>2. c.tables[id].table = a
    BY <1>4 DEF TablesKnown
  <2> QED BY <1>4, <2>1, <2>2 DEF d
<1>5. CASE id \notin DOMAIN c.tables
  <2> DEFINE l == Len(c.ends)
  <2>1. /\ Len(d.ends) = l + 1 /\ d.ends[l + 1] = a
        /\ \A n \in 1 .. l : d.ends[n] = c.ends[n]
    BY <1>0, <1>1, <1>2, <1>5
  <2>2. l \in Nat /\ l + 1 \in 1 .. l + 1 /\ l + 1 - 1 = l /\ 1 .. l \subseteq 1 .. l + 1
    BY <1>2
  <2> HIDE DEF l
  <2>3. TablesKnown(d, ts)
    <3> SUFFICES ASSUME NEW j \in DOMAIN d.tables
                 PROVE  /\ \A b \in Live(ts) : ts[b].id = j => d.tables[j].table = b
                        /\ \E n \in 1 .. l + 1 : /\ d.tables[j].end = index_to_end_iterator(n - 1)
                                                  /\ d.ends[n] = d.tables[j].table
      BY <2>1 DEF TablesKnown
    <3>1. CASE j = id
      <4>1. \A b \in Live(ts) : ts[b].id = id => b = a
        BY DEF UniqueTables
      <4>2. d.tables[id].end = index_to_end_iterator(l + 1 - 1) /\ d.ends[l + 1] = a
        BY <1>1, <1>5, <2>1, <2>2 DEF l
      <4> QED BY <1>1, <1>5, <2>2, <3>1, <4>1, <4>2
    <3>2. CASE j # id
      <4>1. j \in DOMAIN c.tables /\ d.tables[j] = c.tables[j]
        BY <1>1, <3>2
      <4>2. \E n \in 1 .. l : /\ c.tables[j].end = index_to_end_iterator(n - 1)
                              /\ c.ends[n] = c.tables[j].table
        BY <4>1 DEF TablesKnown, l
      <4> QED BY <2>1, <2>2, <4>1, <4>2 DEF TablesKnown
    <3> QED BY <3>1, <3>2
  <2>4. ASSUME NEW os, EndsKnown(c, ts, os) PROVE EndsKnown(d, ts, os)
    <3> SUFFICES ASSUME NEW n \in 1 .. l + 1, NEW b \in Live(os),
                        d.ends[n] \in Live(ts), ts[d.ends[n]].id = os[b].t_id
                 PROVE  os[b].t_id \in DOMAIN d.tables
      BY <2>1 DEF EndsKnown
    <3>1. CASE n = l + 1
      BY <1>1, <2>1, <3>1
    <3>2. CASE n \in 1 .. l
      <4>1. c.ends[n] \in Live(ts) /\ ts[c.ends[n]].id = os[b].t_id
        BY <2>1, <3>2
      <4> QED BY <1>1, <2>4, <3>2, <4>1 DEF EndsKnown, l
    <3> QED BY <2>2, <3>1, <3>2
  <2> QED BY <1>1, <1>3, <1>5, <2>3, <2>4 DEF d
<1> QED BY <1>4, <1>5

(* add changes neither the ids nor the ends. *)
LEMMA KnownAdd ==
    ASSUME NEW c, NEW addrs, CacheTyped(c, addrs), Null \notin Places(addrs),
           NEW a \in addrs, NEW x \in Elements
    PROVE  LET d == add(c, a, x).cache
           IN  /\ \A ts : TablesKnown(c, ts) => TablesKnown(d, ts)
               /\ \A ts, os : EndsKnown(c, ts, os) => EndsKnown(d, ts, os)
               /\ \A os : IdsKnown(c, os) /\ os[a].t_id \in DOMAIN c.tables => IdsKnown(d, os)
<1> DEFINE d == add(c, a, x).cache
<1>1. d.tables = c.tables /\ d.ends = c.ends
  BY AddShape
<1>2. ASSUME NEW os, IdsKnown(c, os), os[a].t_id \in DOMAIN c.tables PROVE IdsKnown(d, os)
  <2>1. CASE a \in DOMAIN c.iterator_of
    BY <1>2, <2>1, AddShape
  <2>2. CASE a \notin DOMAIN c.iterator_of
    <3>1. /\ Held(d) = Held(c) \cup {Len(c.objects)} /\ get(d, Len(c.objects)) = a
          /\ \A i \in Held(c) : get(d, i) = get(c, i)
      BY <2>2, HeldAdd
    <3> HIDE DEF d
    <3> QED BY <1>1, <1>2, <3>1 DEF IdsKnown
  <2> QED BY <2>1, <2>2
<1> HIDE DEF d
<1>3. \A ts : TablesKnown(c, ts) => TablesKnown(d, ts)
  BY <1>1 DEF TablesKnown
<1>4. \A ts, os : EndsKnown(c, ts, os) => EndsKnown(d, ts, os)
  BY <1>1 DEF EndsKnown
<1> QED BY <1>2, <1>3, <1>4 DEF d

LEMMA KnownRemove ==
    ASSUME NEW c, NEW addrs, CacheTyped(c, addrs), NEW i \in Held(c)
    PROVE  LET d == CacheRemove(c, i)
           IN  /\ \A ts : TablesKnown(c, ts) => TablesKnown(d, ts)
               /\ \A ts, os : EndsKnown(c, ts, os) => EndsKnown(d, ts, os)
               /\ \A os, os2 : /\ IdsKnown(c, os) /\ Denoting(c, os)
                               /\ \A b \in addrs \ {get(c, i)} : os2[b] = os[b]
                               => IdsKnown(d, os2)
<1> DEFINE d == CacheRemove(c, i)
<1>1. d.tables = c.tables /\ d.ends = c.ends
  BY CacheRemoveShape
<1>2. ASSUME NEW os, NEW os2, IdsKnown(c, os), Denoting(c, os),
             \A b \in addrs \ {get(c, i)} : os2[b] = os[b]
      PROVE  IdsKnown(d, os2)
  <2>1. Held(d) = Held(c) \ {i} /\ \A j \in Held(d) : get(d, j) = get(c, j)
    BY HeldRemove
  <2>2. \A j \in Held(c) : get(c, j) \in addrs
    BY HeldFacts
  <2>3. \A j \in Held(c) \ {i} : get(c, j) # get(c, i)
    BY <1>2 DEF Denoting
  <2> HIDE DEF d
  <2> QED BY <1>1, <1>2, <2>1, <2>2, <2>3 DEF IdsKnown
<1> HIDE DEF d
<1>3. \A ts : TablesKnown(c, ts) => TablesKnown(d, ts)
  BY <1>1 DEF TablesKnown
<1>4. \A ts, os : EndsKnown(c, ts, os) => EndsKnown(d, ts, os)
  BY <1>1 DEF EndsKnown
<1> QED BY <1>2, <1>3, <1>4 DEF d

LEMMA KnownEmpty ==
    /\ \A ts : TablesKnown(EmptyCache, ts)
    /\ \A os : IdsKnown(EmptyCache, os)
    /\ \A ts, os : EndsKnown(EmptyCache, ts, os)
<1>1. Len(EmptyCache.ends) = 0
  BY EmptyCacheType, EmptySeq
<1> QED BY <1>1, EmptyCacheType DEF TablesKnown, IdsKnown, EndsKnown
-----------------------------------------------------------------------------
(***************************************************************************)
(* undo: the objects of the start of the session are all there again, some *)
(* of them at other addresses.                                             *)
(***************************************************************************)
Moves(m, old, new) ==
    /\ m \in [Live(old) -> Live(new)]
    /\ \A a, b \in Live(old) : m[a] = m[b] => a = b
    /\ \A b \in Live(new) : \E a \in Live(old) : m[a] = b
    /\ \A a \in Live(old) : new[m[a]] = old[a]

LEMMA RestoredMoves ==
    ASSUME NEW A, NEW T, NEW old \in [A -> T \cup {Null}], NEW place \in Reinsertions(old)
    PROVE  \E m : Moves(m, old, Restored(old, place))
<1> DEFINE new == Restored(old, place)
           lost == {a \in DOMAIN old : old[a] # Null /\ a \notin session.kept}
           m == [a \in Live(old) |-> IF a \in session.kept THEN a ELSE place[a]]
<1>1. /\ place \in [lost -> DOMAIN old \ session.kept] /\ DOMAIN place = lost
      /\ \A a, b \in lost : place[a] = place[b] => a = b
  BY DEF Reinsertions, Injection, IsInjective
<1>2. /\ DOMAIN new = DOMAIN old
      /\ \A a \in DOMAIN old : a \in session.kept => new[a] = old[a]
      /\ \A a \in DOMAIN old : a \notin session.kept /\ (\A b \in lost : place[b] # a) => new[a] = Null
  BY <1>1 DEF Restored, OldValue
<1>3. \A b \in lost : new[place[b]] = old[b]
  <2> SUFFICES ASSUME NEW b \in lost PROVE new[place[b]] = old[b]
    OBVIOUS
  <2>1. place[b] \in DOMAIN old /\ place[b] \notin session.kept
    BY <1>1
  <2>2. (CHOOSE d \in DOMAIN place : place[d] = place[b]) = b
    BY <1>1
  <2> QED BY <1>1, <2>1, <2>2 DEF Restored
<1>4. \A a \in Live(old) : \/ a \in session.kept /\ m[a] = a /\ a \in DOMAIN old
                           \/ a \notin session.kept /\ a \in lost /\ m[a] = place[a]
  BY DEF Live
<1>5. \A a \in Live(old) : new[m[a]] = old[a] /\ m[a] \in DOMAIN new /\ old[a] # Null
  BY <1>1, <1>2, <1>3, <1>4 DEF Live
<1>6. m \in [Live(old) -> Live(new)]
  <2>1. \A a \in Live(old) : m[a] \in Live(new)
    BY <1>5 DEF Live
  <2> QED BY <2>1
<1>7. \A a, b \in Live(old) : m[a] = m[b] => a = b
  BY <1>1, <1>4
<1>8. ASSUME NEW b \in Live(new) PROVE \E a \in Live(old) : m[a] = b
  <2>1. b \in DOMAIN old /\ new[b] # Null
    BY <1>2 DEF Live
  <2>2. CASE b \in session.kept
    <3>1. b \in Live(old)
      BY <1>2, <2>1, <2>2 DEF Live
    <3> QED BY <1>4, <2>2, <3>1
  <2>3. CASE b \notin session.kept
    <3>1. PICK a \in lost : place[a] = b
      BY <1>2, <2>1, <2>3
    <3>2. a \in Live(old) /\ a \notin session.kept
      BY DEF Live
    <3> QED BY <1>4, <3>1, <3>2
  <2> QED BY <2>2, <2>3
<1> HIDE DEF m, new
<1>9. Moves(m, old, new)
  BY <1>5, <1>6, <1>7, <1>8 DEF Moves
<1> QED BY <1>9 DEF new

LEMMA MovedCount ==
    ASSUME NEW os, NEW os2, NEW addrs, ElementsTyped(os, addrs), NEW m, Moves(m, os, os2), NEW k
    PROVE  Cardinality(OwnedBy(os2, k)) = Cardinality(OwnedBy(os, k))
<1> DEFINE g == [a \in OwnedBy(os, k) |-> m[a]]
<1>1. g \in Bijection(OwnedBy(os, k), OwnedBy(os2, k))
  <2>1. \A a \in OwnedBy(os, k) : g[a] = m[a] /\ a \in Live(os) /\ g[a] \in OwnedBy(os2, k)
    BY DEF Moves, OwnedBy
  <2>2. g \in [OwnedBy(os, k) -> OwnedBy(os2, k)]
    BY <2>1
  <2>3. \A a, b \in OwnedBy(os, k) : g[a] = g[b] => a = b
    BY <2>1 DEF Moves
  <2>4. ASSUME NEW b \in OwnedBy(os2, k) PROVE \E a \in OwnedBy(os, k) : g[a] = b
    <3>1. PICK a \in Live(os) : m[a] = b
      BY DEF Moves, OwnedBy
    <3>2. a \in OwnedBy(os, k)
      BY <3>1 DEF Moves, OwnedBy
    <3> QED BY <2>1, <3>1, <3>2
  <2> HIDE DEF g
  <2> QED BY <2>2, <2>3, <2>4, Fun_IsBij
<1>2. ExistsBijection(OwnedBy(os, k), OwnedBy(os2, k))
  BY <1>1 DEF ExistsBijection
<1> QED BY <1>2, OwnedCount, FS_Bijection

LEMMA MovedSound ==
    ASSUME NEW ts, NEW rs, NEW es, TablesTyped(ts), ElementsTyped(rs, RowAddrs),
           ElementsTyped(es, EntryAddrs), Sound(ts, rs, es),
           NEW ts2, NEW rs2, NEW es2,
           NEW mt, Moves(mt, ts, ts2), NEW mr, Moves(mr, rs, rs2), NEW me, Moves(me, es, es2)
    PROVE  Sound(ts2, rs2, es2)
<1>1. /\ \A b \in Live(ts2) : \E a \in Live(ts) : mt[a] = b /\ ts2[b] = ts[a]
      /\ \A b \in Live(rs2) : \E a \in Live(rs) : mr[a] = b /\ rs2[b] = rs[a]
      /\ \A b \in Live(es2) : \E a \in Live(es) : me[a] = b /\ es2[b] = es[a]
      /\ \A a \in Live(ts) : mt[a] \in Live(ts2) /\ ts2[mt[a]] = ts[a]
  BY DEF Moves
<1>2. UniqueTables(ts2) /\ UniqueRows(rs2) /\ UniqueEntries(es2)
  BY <1>1 DEF UniqueTables, UniqueRows, UniqueEntries, Sound
<1>3. Homed(ts2, rs2) /\ Homed(ts2, es2)
  BY <1>1 DEF Homed, Sound
<1>4. \A k : /\ Cardinality(OwnedBy(rs2, k)) = Cardinality(OwnedBy(rs, k))
             /\ Cardinality(OwnedBy(es2, k)) = Cardinality(OwnedBy(es, k))
  BY MovedCount
<1>5. Counting(ts2, rs2, es2)
  BY <1>1, <1>4 DEF Counting, Sound
<1> QED BY <1>2, <1>3, <1>5 DEF Sound

-----------------------------------------------------------------------------
(***************************************************************************)
(* The steps preserve StoreInv.                                            *)
(***************************************************************************)
SessionSound == session # Null => Sound(session.tables, session.rows, session.entries)

Typed ==
    /\ TablesTyped(tables) /\ ElementsTyped(rows, RowAddrs) /\ ElementsTyped(entries, EntryAddrs)
    /\ CacheTyped(keyval, RowAddrs) /\ CacheTyped(idx, EntryAddrs)
    /\ LiveTables = Live(tables) /\ LiveRows = Live(rows) /\ LiveEntries = Live(entries)

LEMMA TypedFacts == TypeInv => Typed
<1> SUFFICES ASSUME TypeInv PROVE Typed
  OBVIOUS
<1>1. TablesTyped(tables) /\ ElementsTyped(rows, RowAddrs) /\ ElementsTyped(entries, EntryAddrs)
  BY TypeFacts, CountAssumption DEF TablesTyped, ElementsTyped
<1>2. LiveTables = Live(tables) /\ LiveRows = Live(rows) /\ LiveEntries = Live(entries)
  BY <1>1, LiveTable, LiveElement DEF LiveTables, LiveRows, LiveEntries
<1> QED BY <1>1, <1>2, TypeFacts DEF Typed

LEMMA RoomForCounts ==
    /\ Cardinality(RowAddrs) + Cardinality(EntryAddrs) < CountModulus
    /\ Cardinality(EntryAddrs) + Cardinality(RowAddrs) < CountModulus
<1>1. Cardinality(RowAddrs) \in Nat /\ Cardinality(EntryAddrs) \in Nat
  BY CountAssumption, FS_CardinalityType
<1> QED BY <1>1, CountAssumption

LEMMA SoundAsked ==
    ASSUME StoreInv, Asked
    PROVE  /\ TablesKnown(keyval', tables) /\ IdsKnown(keyval', rows)
           /\ EndsKnown(keyval', tables, rows)
<1>0. /\ Typed /\ UniqueTables(tables)
      /\ TablesKnown(keyval, tables) /\ IdsKnown(keyval, rows) /\ EndsKnown(keyval, tables, rows)
  BY TypedFacts DEF StoreInv, DenoteInv, Sound
<1>1. CASE AskedTable
  <2>1. PICK a \in LiveTables :
            LET c == cache_table(keyval, tables[a].id, a)
            IN  \/ keyval' = c
                \/ \E b \in LiveRows : /\ rows[b].t_id = tables[a].id
                                       /\ keyval' = add(c, b, rows[b]).cache
    BY <1>1 DEF AskedTable
  <2> DEFINE id == tables[a].id
             c == cache_table(keyval, id, a)
  <2>2. id \in TableIds /\ a \in TableAddrs
    BY <1>0, LiveTable DEF Typed
  <2>3. /\ TablesKnown(c, tables) /\ id \in DOMAIN c.tables
        /\ IdsKnown(c, rows) /\ EndsKnown(c, tables, rows)
    BY <1>0, KnownTable DEF Typed
  <2>4. CacheTyped(c, RowAddrs)
    BY <1>0, <2>2, CacheTableShape DEF Typed
  <2>5. CASE keyval' = c
    BY <2>3, <2>5
  <2>6. ASSUME NEW b \in LiveRows, rows[b].t_id = id, keyval' = add(c, b, rows[b]).cache
        PROVE  /\ TablesKnown(keyval', tables) /\ IdsKnown(keyval', rows)
               /\ EndsKnown(keyval', tables, rows)
    <3>1. b \in RowAddrs /\ rows[b] \in Elements
      BY <1>0, LiveElement DEF Typed
    <3> HIDE DEF c, id
    <3> QED BY <2>3, <2>4, <2>6, <3>1, KnownAdd, NoPlace
  <2> QED BY <2>1, <2>5, <2>6
<1>2. CASE AskedNeighbour
  <2>1. PICK b \in LiveRows :
          /\ keyval' = add(keyval, b, rows[b]).cache
          /\ \/ \E i \in Held(keyval) : rows[b].t_id = rows[get(keyval, i)].t_id
             \/ \E n \in 1 .. Len(keyval.ends) :
                  keyval.ends[n] \in LiveTables /\ tables[keyval.ends[n]].id = rows[b].t_id
    BY <1>2 DEF AskedNeighbour
  <2>2. rows[b].t_id \in DOMAIN keyval.tables
    <3>1. CASE \E i \in Held(keyval) : rows[b].t_id = rows[get(keyval, i)].t_id
      BY <1>0, <3>1 DEF IdsKnown
    <3>2. CASE \E n \in 1 .. Len(keyval.ends) :
                  keyval.ends[n] \in LiveTables /\ tables[keyval.ends[n]].id = rows[b].t_id
      BY <1>0, <3>2 DEF EndsKnown, Typed
    <3> QED BY <2>1, <3>1, <3>2
  <2>3. b \in RowAddrs /\ rows[b] \in Elements
    BY <1>0, LiveElement DEF Typed
  <2> QED BY <1>0, <2>1, <2>2, <2>3, KnownAdd, NoPlace DEF Typed
<1>3. CASE UNCHANGED keyval
  BY <1>0, <1>3
<1> QED BY <1>1, <1>2, <1>3 DEF Asked

(* find_or_create_table, whether it finds or creates. *)
LEMMA SoundFound ==
    ASSUME StoreInv, ~RepeatIds, NEW k \in Keys, NEW f \in FoundOrCreated(k)
    PROVE  /\ TablesTyped(f.tables) /\ Sound(f.tables, rows, entries)
           /\ f.at \in Live(f.tables) /\ f.tables[f.at].key = k
           /\ TablesKnown(keyval, f.tables) /\ TablesKnown(idx, f.tables)
           /\ EndsKnown(keyval, f.tables, rows)
<1>0. /\ TypeInv /\ Typed /\ Sound(tables, rows, entries)
      /\ TablesKnown(keyval, tables) /\ TablesKnown(idx, tables)
      /\ EndsKnown(keyval, tables, rows)
  BY TypedFacts DEF StoreInv, DenoteInv
<1>1. /\ TablesTyped(f.tables) /\ f.at \in Live(f.tables) /\ f.tables[f.at].key = k
      /\ \/ f.tables = tables
         \/ Created(k, f)
  <2>1. /\ f.tables \in [TableAddrs -> TableObjects \cup {Null}]
        /\ f.at \in TableAddrs
        /\ f.tables[f.at] \in TableObjects /\ f.tables[f.at].key = k
        /\ f.tables = tables \/ Created(k, f)
    BY <1>0, FoundShape
  <2> QED BY <2>1, LiveTable, NullAssumption DEF TablesTyped
<1>2. CASE f.tables = tables
  BY <1>0, <1>1, <1>2
<1>3. CASE Created(k, f)
  <2>1. PICK id \in NewIds : f.tables[f.at] = NewTable(k, id)
    BY <1>3 DEF Created
  <2>2. /\ f.at \in TableAddrs \ Live(tables)
        /\ \A b \in TableAddrs \ {f.at} : f.tables[b] = tables[b]
    BY <1>0, <1>3 DEF Created, Typed
  <2>3. /\ id \in TableIds /\ NewTable(k, id) \in TableObjects
        /\ id \notin DOMAIN keyval.tables /\ id \notin DOMAIN idx.tables
    BY NewTableType DEF NewIds
  <2>4. \A b \in Live(tables) : tables[b].id # id /\ tables[b].key # k
    BY <1>0, <1>3 DEF Created, NewIds, find_table, Typed
  <2>5. /\ Sound(f.tables, rows, entries) /\ Live(f.tables) = Live(tables) \cup {f.at}
        /\ \A b \in Live(rows) : rows[b].t_id # id
        /\ f.tables[f.at].id = id
    BY <1>0, <1>1, <2>1, <2>2, <2>3, <2>4, CreateSound DEF Typed
  <2>6. \A b \in Live(tables) \ {f.at} : f.tables[b] = tables[b]
    BY <1>0, <2>2, LiveTable DEF Typed
  <2>7. /\ TablesKnown(keyval, f.tables) /\ EndsKnown(keyval, f.tables, rows)
    BY <1>0, <2>2, <2>3, <2>5, <2>6, KnownCreated
  <2>8. TablesKnown(idx, f.tables)
    BY <1>0, <2>2, <2>3, <2>5, <2>6, KnownCreated
  <2> QED BY <1>1, <2>5, <2>7, <2>8
<1> QED BY <1>1, <1>2, <1>3

(* The cache after a store knows the table and the element. *)
LEMMA StoredKnown ==
    ASSUME NEW c, NEW addrs, CacheTyped(c, addrs), Null \notin Places(addrs),
           NEW ts, TablesTyped(ts), UniqueTables(ts), TablesKnown(c, ts),
           NEW f, f.at \in Live(ts), NEW a \in addrs, NEW x \in Elements, x.t_id = ts[f.at].id,
           NEW os, ElementsTyped(os, addrs), os[a] = Null, Denoting(c, os), IdsKnown(c, os),
           NEW os2, os2[a] = x, \A b \in addrs \ {a} : os2[b] = os[b]
    PROVE  LET d == Stored(c, f, a, x)
           IN  /\ TablesKnown(d, ts) /\ IdsKnown(d, os2)
               /\ x.t_id \in DOMAIN d.tables
               /\ \A ps : EndsKnown(c, ts, ps) => EndsKnown(d, ts, ps)
<1> DEFINE e == cache_table(c, x.t_id, f.at)
           d == Stored(c, f, a, x)
<1>1. f.at \in TableAddrs /\ x.t_id \in TableIds
  BY LiveTable, ElementFields
<1>2. /\ TablesKnown(e, ts) /\ x.t_id \in DOMAIN e.tables
      /\ \A ps : IdsKnown(c, ps) => IdsKnown(e, ps)
      /\ \A ps : EndsKnown(c, ts, ps) => EndsKnown(e, ts, ps)
  BY KnownTable
<1>3. CacheTyped(e, addrs)
  BY <1>1, CacheTableShape
<1>4. IdsKnown(c, os2)
  <2>1. \A i \in Held(c) : get(c, i) \in addrs \ {a}
    BY DenoteNew, HeldFacts
  <2> QED BY <2>1 DEF IdsKnown
<1>5. d = add(e, a, x).cache
  BY DEF Stored
<1> HIDE DEF e, d
<1>6. d.tables = e.tables
  BY <1>3, <1>5, AddShape
<1>7. TablesKnown(d, ts) /\ (\A ps : EndsKnown(e, ts, ps) => EndsKnown(d, ts, ps))
  BY <1>2, <1>3, <1>5, KnownAdd
<1>8. IdsKnown(d, os2)
  BY <1>2, <1>3, <1>4, <1>5, KnownAdd
<1> QED BY <1>2, <1>6, <1>7, <1>8 DEF d

LEMMA SoundStoreRow ==
    ASSUME StoreInv, ~RepeatIds, NEW k \in Keys, NEW p \in Primaries, db_store_i64(k, p)
    PROVE  /\ Sound(tables', rows', entries)
           /\ TablesKnown(keyval', tables') /\ IdsKnown(keyval', rows')
           /\ TablesKnown(idx, tables')
           /\ EndsKnown(keyval', tables', rows')
           /\ UNCHANGED <<entries, idx, session>>
<1>0. /\ TypeInv /\ Typed /\ IdsKnown(keyval, rows) /\ Denoting(keyval, rows)
      /\ Sound(tables, rows, entries)
  BY TypedFacts DEF StoreInv, DenoteInv, IteratorsDenote
<1>1. PICK f \in FoundOrCreated(k), a \in RowAddrs \ LiveRows :
          LET x == [t_id |-> f.tables[f.at].id, primary |-> p, owner |-> k]
          IN  /\ \A b \in LiveRows : rows[b].primary # p
              /\ rows' = [rows EXCEPT ![a] = x]
              /\ tables' = [f.tables EXCEPT ![f.at].count = Counted(@, 1)]
              /\ keyval' = Stored(keyval, f, a, x)
              /\ UNCHANGED <<entries, idx, session>>
  BY DEF db_store_i64
<1> DEFINE x == [t_id |-> f.tables[f.at].id, primary |-> p, owner |-> k]
<1>2. /\ TablesTyped(f.tables) /\ Sound(f.tables, rows, entries)
      /\ f.at \in Live(f.tables) /\ f.tables[f.at].key = k
      /\ TablesKnown(keyval, f.tables) /\ TablesKnown(idx, f.tables)
      /\ EndsKnown(keyval, f.tables, rows)
  BY SoundFound
<1>3. /\ TablesTyped(tables') /\ tables'[f.at] \in TableObjects
      /\ tables'[f.at].id = f.tables[f.at].id /\ tables'[f.at].key = k
      /\ tables'[f.at].count = Counted(f.tables[f.at].count, 1)
      /\ \A b \in TableAddrs \ {f.at} : tables'[b] = f.tables[b]
      /\ x \in Elements
  <2>1. tables' = [f.tables EXCEPT ![f.at].count = Counted(@, 1)]
    BY <1>1
  <2>2. x \in Elements
    BY <1>0, StoredElement
  <2>3. CountsOne(f, k, tables')
    BY <1>0, <2>1, StoreTables
  <2> QED BY <2>2, <2>3 DEF CountsOne, TablesTyped
<1>4. x.t_id = f.tables[f.at].id /\ x.primary = p /\ x.owner = k
  OBVIOUS
<1> HIDE DEF x
<1>5. /\ a \in RowAddrs /\ rows[a] = Null /\ rows'[a] = x
      /\ \A b \in RowAddrs \ {a} : rows'[b] = rows[b]
      /\ ElementsTyped(rows', RowAddrs) /\ ElementsTyped(rows, RowAddrs)
      /\ ElementsTyped(entries, EntryAddrs)
  BY <1>0, <1>1, <1>3 DEF x, Typed, ElementsTyped, LiveRows
<1>6. /\ Live(tables') = Live(f.tables) /\ (\A b \in Live(f.tables) : tables'[b].id = f.tables[b].id)
      /\ UniqueTables(tables') /\ Homed(tables', rows') /\ Homed(tables', entries)
      /\ Counting(tables', rows', entries)
  BY <1>2, <1>3, <1>4, <1>5, StoreCounting, RoomForCounts DEF Sound
<1>7. Live(rows') = Live(rows) \cup {a} /\ \A b \in Live(rows) : rows'[b] = rows[b]
  BY <1>3, <1>5, OwnedAdd, LiveElement
<1>8. UniqueRows(rows')
  <2>1. \A b \in Live(rows) : rows[b].primary # p
    BY <1>0, <1>1 DEF Typed
  <2> QED BY <1>0, <1>4, <1>5, <1>7, <2>1 DEF UniqueRows, Sound
<1>9. TablesKnown(keyval, tables') /\ TablesKnown(idx, tables')
  BY <1>2, <1>6, KnownFewer
<1>10. EndsKnown(keyval, tables', rows)
  BY <1>2, <1>6, EndsFewer
<1>11. /\ keyval' = Stored(keyval, f, a, x)
  BY <1>1 DEF x
<1>12. /\ TablesKnown(keyval', tables') /\ IdsKnown(keyval', rows')
       /\ x.t_id \in DOMAIN keyval'.tables
       /\ EndsKnown(keyval', tables', rows)
  <2>1. CacheTyped(keyval, RowAddrs)
    BY <1>0 DEF Typed
  <2>2. f.at \in Live(tables') /\ x.t_id = tables'[f.at].id
    BY <1>2, <1>3, <1>4, <1>6
  <2> QED BY <1>0, <1>3, <1>5, <1>6, <1>9, <1>10, <1>11, <2>1, <2>2, StoredKnown, NoPlace
<1>13. EndsKnown(keyval', tables', rows')
  BY <1>5, <1>7, <1>12 DEF EndsKnown
<1> QED BY <1>0, <1>1, <1>6, <1>8, <1>9, <1>12, <1>13 DEF Sound

LEMMA SoundStoreEntry ==
    ASSUME StoreInv, ~RepeatIds, NEW k \in Keys, NEW p \in Primaries, SecondaryStore(k, p)
    PROVE  /\ Sound(tables', rows, entries')
           /\ TablesKnown(keyval, tables') /\ TablesKnown(idx', tables')
           /\ IdsKnown(idx', entries')
           /\ EndsKnown(keyval, tables', rows)
           /\ UNCHANGED <<rows, keyval, session>>
<1>0. /\ TypeInv /\ Typed /\ IdsKnown(idx, entries) /\ Denoting(idx, entries)
      /\ Sound(tables, rows, entries)
  BY TypedFacts DEF StoreInv, DenoteInv, IteratorsDenote
<1>1. PICK f \in FoundOrCreated(k), a \in EntryAddrs \ LiveEntries :
          LET x == [t_id |-> f.tables[f.at].id, primary |-> p, owner |-> k]
          IN  /\ \A b \in LiveEntries : entries[b].primary # p \/ entries[b].t_id # x.t_id
              /\ entries' = [entries EXCEPT ![a] = x]
              /\ tables' = [f.tables EXCEPT ![f.at].count = Counted(@, 1)]
              /\ idx' = Stored(idx, f, a, x)
              /\ UNCHANGED <<rows, keyval, session>>
  BY DEF SecondaryStore
<1> DEFINE x == [t_id |-> f.tables[f.at].id, primary |-> p, owner |-> k]
<1>2. /\ TablesTyped(f.tables) /\ Sound(f.tables, rows, entries)
      /\ f.at \in Live(f.tables) /\ f.tables[f.at].key = k
      /\ TablesKnown(keyval, f.tables) /\ TablesKnown(idx, f.tables)
      /\ EndsKnown(keyval, f.tables, rows)
  BY SoundFound
<1>3. /\ TablesTyped(tables') /\ tables'[f.at] \in TableObjects
      /\ tables'[f.at].id = f.tables[f.at].id /\ tables'[f.at].key = k
      /\ tables'[f.at].count = Counted(f.tables[f.at].count, 1)
      /\ \A b \in TableAddrs \ {f.at} : tables'[b] = f.tables[b]
      /\ x \in Elements
  <2>1. tables' = [f.tables EXCEPT ![f.at].count = Counted(@, 1)]
    BY <1>1
  <2>2. x \in Elements
    BY <1>0, StoredElement
  <2>3. CountsOne(f, k, tables')
    BY <1>0, <2>1, StoreTables
  <2> QED BY <2>2, <2>3 DEF CountsOne, TablesTyped
<1>4. x.t_id = f.tables[f.at].id /\ x.primary = p /\ x.owner = k
  OBVIOUS
<1> HIDE DEF x
<1>5. /\ a \in EntryAddrs /\ entries[a] = Null /\ entries'[a] = x
      /\ \A b \in EntryAddrs \ {a} : entries'[b] = entries[b]
      /\ ElementsTyped(entries', EntryAddrs) /\ ElementsTyped(entries, EntryAddrs)
      /\ ElementsTyped(rows, RowAddrs)
  BY <1>0, <1>1, <1>3 DEF x, Typed, ElementsTyped, LiveEntries
<1>6. /\ Live(tables') = Live(f.tables) /\ (\A b \in Live(f.tables) : tables'[b].id = f.tables[b].id)
      /\ UniqueTables(tables') /\ Homed(tables', entries') /\ Homed(tables', rows)
      /\ Counting(tables', entries', rows)
  <2>1. /\ UniqueTables(f.tables) /\ Homed(f.tables, entries) /\ Homed(f.tables, rows)
        /\ Counting(f.tables, entries, rows)
    BY <1>2, <1>5, CountingSwap DEF Sound
  <2> QED BY <1>2, <1>3, <1>4, <1>5, <2>1, StoreCounting, RoomForCounts
<1>7. Counting(tables', rows, entries')
  BY <1>5, <1>6, CountingSwap
<1>8. TablesKnown(keyval, tables') /\ TablesKnown(idx, tables')
  BY <1>2, <1>6, KnownFewer
<1>9. EndsKnown(keyval, tables', rows)
  BY <1>2, <1>6, EndsFewer
<1>10. idx' = Stored(idx, f, a, x)
  BY <1>1 DEF x
<1>11. TablesKnown(idx', tables') /\ IdsKnown(idx', entries')
  <2>1. CacheTyped(idx, EntryAddrs)
    BY <1>0 DEF Typed
  <2>2. f.at \in Live(tables') /\ x.t_id = tables'[f.at].id
    BY <1>2, <1>3, <1>4, <1>6
  <2> QED BY <1>0, <1>3, <1>5, <1>6, <1>8, <1>10, <2>1, <2>2, StoredKnown, NoPlace
<1>12. UniqueEntries(entries')
  <2>1. \A b \in Live(entries) : entries[b].owner # k \/ entries[b].primary # p
    <3>1. \A b \in Live(entries) : entries[b].primary # p \/ entries[b].t_id # f.tables[f.at].id
      BY <1>0, <1>1 DEF Typed
    <3> QED BY <1>2, <3>1 DEF Sound, Homed, UniqueTables
  <2>2. Live(entries') = Live(entries) \cup {a} /\ \A b \in Live(entries) : entries'[b] = entries[b]
    BY <1>3, <1>5, OwnedAdd, LiveElement
  <2> QED BY <1>0, <1>4, <1>5, <2>1, <2>2 DEF UniqueEntries, Sound
<1> QED BY <1>0, <1>1, <1>6, <1>7, <1>8, <1>9, <1>11, <1>12 DEF Sound

(* get_table finds the live table of an element that has an iterator. *)
LEMMA HomeReached ==
    ASSUME NEW c, NEW addrs, CacheTyped(c, addrs), NEW ts, TablesKnown(c, ts),
           NEW os, Homed(ts, os), ElementsTyped(os, addrs), Denoting(c, os), IdsKnown(c, os),
           NEW i \in Held(c)
    PROVE  LET x == os[get(c, i)]
               a == c.tables[x.t_id].table
           IN  /\ get(c, i) \in Live(os) /\ get(c, i) \in addrs /\ x \in Elements
               /\ x.t_id \in DOMAIN c.tables
               /\ a \in Live(ts) /\ ts[a].id = x.t_id /\ ts[a].key = x.owner
<1> DEFINE x == os[get(c, i)]
           a == c.tables[x.t_id].table
<1>1. get(c, i) \in addrs /\ x \in Elements
  BY HeldFacts DEF Denoting
<1>2. get(c, i) \in Live(os)
  BY <1>1, LiveElement, ElementFields
<1>3. x.t_id \in DOMAIN c.tables
  BY DEF IdsKnown
<1>4. PICK b \in Live(ts) : ts[b].id = x.t_id /\ ts[b].key = x.owner
  BY <1>2 DEF Homed
<1>5. a = b
  BY <1>3, <1>4 DEF TablesKnown
<1> QED BY <1>1, <1>2, <1>3, <1>4, <1>5

LEMMA SoundRemoveRow ==
    ASSUME StoreInv, NEW i \in Held(keyval), RowRemoved(i)
    PROVE  /\ Sound(tables', rows', entries)
           /\ TablesKnown(keyval', tables') /\ IdsKnown(keyval', rows')
           /\ TablesKnown(idx, tables')
           /\ EndsKnown(keyval', tables', rows')
           /\ UNCHANGED <<entries, idx>> /\ \E S : Removed(S)
<1> DEFINE g == get(keyval, i)
           a == TableOf(keyval, rows, i)
           n == Counted(tables[a].count, -1)
<1>0. /\ TypeInv /\ Typed /\ IdsKnown(keyval, rows) /\ Denoting(keyval, rows)
      /\ Sound(tables, rows, entries)
      /\ TablesKnown(keyval, tables) /\ TablesKnown(idx, tables)
      /\ EndsKnown(keyval, tables, rows)
      /\ CacheTyped(keyval, RowAddrs) /\ TablesTyped(tables)
      /\ ElementsTyped(rows, RowAddrs) /\ ElementsTyped(entries, EntryAddrs)
  BY TypedFacts DEF StoreInv, DenoteInv, IteratorsDenote, Typed
<1>1. /\ rows' \in [RowAddrs -> Elements \cup {Null}]
      /\ rows'[g] = Null /\ (\A b \in RowAddrs \ {g} : rows'[b] = rows[b])
      /\ tables' \in [TableAddrs -> TableObjects \cup {Null}]
      /\ n = 0 => tables'[a] = Null
      /\ n # 0 => /\ tables'[a] \in TableObjects /\ tables'[a].id = tables[a].id
                  /\ tables'[a].key = tables[a].key /\ tables'[a].count = n
      /\ \A b \in TableAddrs \ {a} : tables'[b] = tables[b]
      /\ keyval' = CacheRemove(keyval, i)
  BY <1>0, RowRemovedShape
<1>2. UNCHANGED <<entries, idx>> /\ \E S : Removed(S)
  BY <1>0, RowRemovedShape
<1>3. a = keyval.tables[rows[g].t_id].table
  BY DEF TableOf
<1>4. /\ g \in Live(rows) /\ g \in RowAddrs /\ rows[g] \in Elements
      /\ a \in Live(tables) /\ tables[a].key = rows[g].owner
  <2>1. Homed(tables, rows)
    BY <1>0 DEF Sound
  <2> QED BY <1>0, <1>3, <2>1, HomeReached
<1> HIDE DEF a, g, n
<1>5. ElementsTyped(rows', RowAddrs) /\ TablesTyped(tables')
  BY <1>0, <1>1 DEF ElementsTyped, TablesTyped
<1>6. /\ Live(tables') \subseteq Live(tables) /\ (\A b \in Live(tables') : tables'[b].id = tables[b].id)
      /\ UniqueTables(tables') /\ Homed(tables', rows') /\ Homed(tables', entries)
      /\ Counting(tables', rows', entries)
  <2>1. /\ UniqueTables(tables) /\ Homed(tables, rows) /\ Homed(tables, entries)
        /\ Counting(tables, rows, entries)
    BY <1>0 DEF Sound
  <2>2. n = Counted(tables[a].count, -1)
    BY DEF n
  <2>3. \/ tables'[a] = Null /\ n = 0
        \/ /\ tables'[a] \in TableObjects /\ tables'[a].id = tables[a].id
           /\ tables'[a].key = tables[a].key /\ tables'[a].count = n
    BY <1>1
  <2> QED BY <1>0, <1>1, <1>4, <1>5, <2>1, <2>2, <2>3, RemoveCounting, RoomForCounts
<1>7. \A b \in Live(rows') : b \in Live(rows) /\ rows'[b] = rows[b]
  BY <1>0, <1>1, <1>5, LiveElement
<1>8. UniqueRows(rows')
  BY <1>0, <1>7 DEF UniqueRows, Sound
<1>9. TablesKnown(keyval, tables') /\ TablesKnown(idx, tables')
  BY <1>0, <1>6, KnownFewer
<1>10. EndsKnown(keyval, tables', rows')
  BY <1>0, <1>6, <1>7, EndsFewer
<1>11. TablesKnown(keyval', tables') /\ EndsKnown(keyval', tables', rows')
  BY <1>0, <1>1, <1>9, <1>10, KnownRemove
<1>12. IdsKnown(keyval', rows')
  BY <1>0, <1>1, KnownRemove DEF g
<1> QED BY <1>0, <1>2, <1>6, <1>8, <1>9, <1>11, <1>12 DEF Sound

LEMMA SoundRemoveEntry ==
    ASSUME StoreInv, NEW i \in Held(idx), EntryRemoved(i)
    PROVE  /\ Sound(tables', rows, entries')
           /\ TablesKnown(keyval, tables') /\ TablesKnown(idx', tables')
           /\ IdsKnown(idx', entries')
           /\ EndsKnown(keyval, tables', rows)
           /\ UNCHANGED <<rows, keyval>> /\ \E S : Removed(S)
<1> DEFINE g == get(idx, i)
           a == TableOf(idx, entries, i)
           n == Counted(tables[a].count, -1)
<1>0. /\ TypeInv /\ Typed /\ IdsKnown(idx, entries) /\ Denoting(idx, entries)
      /\ Sound(tables, rows, entries)
      /\ TablesKnown(keyval, tables) /\ TablesKnown(idx, tables)
      /\ EndsKnown(keyval, tables, rows)
      /\ CacheTyped(idx, EntryAddrs) /\ TablesTyped(tables)
      /\ ElementsTyped(rows, RowAddrs) /\ ElementsTyped(entries, EntryAddrs)
  BY TypedFacts DEF StoreInv, DenoteInv, IteratorsDenote, Typed
<1>1. /\ entries' \in [EntryAddrs -> Elements \cup {Null}]
      /\ entries'[g] = Null /\ (\A b \in EntryAddrs \ {g} : entries'[b] = entries[b])
      /\ tables' \in [TableAddrs -> TableObjects \cup {Null}]
      /\ tables'[a] \in TableObjects /\ tables'[a].id = tables[a].id
      /\ tables'[a].key = tables[a].key /\ tables'[a].count = n
      /\ \A b \in TableAddrs \ {a} : tables'[b] = tables[b]
      /\ idx' = CacheRemove(idx, i)
  BY <1>0, EntryRemovedShape
<1>2. UNCHANGED <<rows, keyval>> /\ \E S : Removed(S)
  BY <1>0, EntryRemovedShape
<1>3. a = idx.tables[entries[g].t_id].table
  BY DEF TableOf
<1>4. /\ g \in Live(entries) /\ g \in EntryAddrs /\ entries[g] \in Elements
      /\ a \in Live(tables) /\ tables[a].key = entries[g].owner
  <2>1. Homed(tables, entries)
    BY <1>0 DEF Sound
  <2> QED BY <1>0, <1>3, <2>1, HomeReached
<1> HIDE DEF a, g, n
<1>5. ElementsTyped(entries', EntryAddrs) /\ TablesTyped(tables')
  BY <1>0, <1>1 DEF ElementsTyped, TablesTyped
<1>6. /\ Live(tables') \subseteq Live(tables) /\ (\A b \in Live(tables') : tables'[b].id = tables[b].id)
      /\ UniqueTables(tables') /\ Homed(tables', entries') /\ Homed(tables', rows)
      /\ Counting(tables', entries', rows)
  <2>1. /\ UniqueTables(tables) /\ Homed(tables, rows) /\ Homed(tables, entries)
        /\ Counting(tables, entries, rows)
    BY <1>0, CountingSwap DEF Sound
  <2>2. n = Counted(tables[a].count, -1)
    BY DEF n
  <2> QED BY <1>0, <1>1, <1>4, <1>5, <2>1, <2>2, RemoveCounting, RoomForCounts
<1>7. Counting(tables', rows, entries')
  BY <1>0, <1>5, <1>6, CountingSwap
<1>8. TablesKnown(keyval, tables') /\ TablesKnown(idx, tables')
  BY <1>0, <1>6, KnownFewer
<1>9. EndsKnown(keyval, tables', rows)
  BY <1>0, <1>6, EndsFewer
<1>10. TablesKnown(idx', tables')
  BY <1>0, <1>1, <1>8, KnownRemove
<1>11. IdsKnown(idx', entries')
  BY <1>0, <1>1, KnownRemove DEF g
<1>12. UniqueEntries(entries')
  <2>1. \A b \in Live(entries') : b \in Live(entries) /\ entries'[b] = entries[b]
    BY <1>0, <1>1, <1>5, LiveElement
  <2> QED BY <1>0, <2>1 DEF UniqueEntries, Sound
<1> QED BY <1>0, <1>2, <1>6, <1>7, <1>8, <1>9, <1>10, <1>11, <1>12 DEF Sound

LEMMA RemovedSound ==
    ASSUME StoreInv, NEW S, Removed(S)
    PROVE  SessionSound'
<1>1. CASE session = Null
  BY <1>1 DEF Removed, SessionSound
<1>2. CASE session # Null
  <2>1. session' = [session EXCEPT !.kept = session.kept \ S]
    BY <1>2 DEF Removed
  <2>2. DOMAIN session = {"tables", "rows", "entries", "kept"}
    BY <1>2 DEF StoreInv, DenoteInv, TypeInv, SessionTyped
  <2>3. /\ session'.tables = session.tables
        /\ session'.rows = session.rows /\ session'.entries = session.entries
    BY <2>1, <2>2
  <2> QED BY <1>2, <2>3 DEF SessionSound, StoreInv
<1> QED BY <1>1, <1>2

LEMMA SoundUndo ==
    ASSUME StoreInv, undo
    PROVE  Sound(tables', rows', entries')
<1>1. /\ session.tables \in [TableAddrs -> TableObjects \cup {Null}]
      /\ session.rows \in [RowAddrs -> Elements \cup {Null}]
      /\ session.entries \in [EntryAddrs -> Elements \cup {Null}]
      /\ Sound(session.tables, session.rows, session.entries)
  BY DEF undo, StoreInv, DenoteInv, TypeInv, SessionTyped
<1>2. /\ TablesTyped(session.tables) /\ ElementsTyped(session.rows, RowAddrs)
      /\ ElementsTyped(session.entries, EntryAddrs)
  BY <1>1, CountAssumption DEF TablesTyped, ElementsTyped
<1>3. PICK pt \in Reinsertions(session.tables) : tables' = Restored(session.tables, pt)
  BY DEF undo
<1>4. PICK pr \in Reinsertions(session.rows) : rows' = Restored(session.rows, pr)
  BY DEF undo
<1>5. PICK pe \in Reinsertions(session.entries) : entries' = Restored(session.entries, pe)
  BY DEF undo
<1>6. PICK mt : Moves(mt, session.tables, tables')
  BY <1>1, <1>3, RestoredMoves
<1>7. PICK mr : Moves(mr, session.rows, rows')
  BY <1>1, <1>4, RestoredMoves
<1>8. PICK me : Moves(me, session.entries, entries')
  BY <1>1, <1>5, RestoredMoves
<1> QED BY <1>1, <1>2, <1>6, <1>7, <1>8, MovedSound

LEMMA StoreStep ==
    ASSUME ~KeepCaches, ~RepeatIds
    PROVE  StoreInv /\ [Next]_vars => StoreInv'
<1> SUFFICES ASSUME StoreInv, [Next]_vars PROVE StoreInv'
  OBVIOUS
<1>0. /\ TypeInv /\ Steps /\ DenoteInv' /\ Sound(tables, rows, entries) /\ SessionSound
      /\ TablesKnown(keyval, tables) /\ IdsKnown(keyval, rows)
      /\ TablesKnown(idx, tables) /\ IdsKnown(idx, entries)
      /\ EndsKnown(keyval, tables, rows)
  BY StepKinds, DenoteStep DEF StoreInv, DenoteInv, SessionSound
<1> DEFINE Known == /\ TablesKnown(keyval, tables) /\ IdsKnown(keyval, rows)
                    /\ TablesKnown(idx, tables) /\ IdsKnown(idx, entries)
                    /\ EndsKnown(keyval, tables, rows)
<1> SUFFICES Sound(tables, rows, entries)' /\ SessionSound' /\ Known'
  BY <1>0 DEF StoreInv, SessionSound
<1>1. CASE UNCHANGED <<tables, rows, entries, keyval, idx, session>>
  BY <1>0, <1>1 DEF SessionSound
<1>2. CASE Asked
  BY <1>0, <1>2, SoundAsked DEF Asked, SessionSound
<1>3. ASSUME NEW k \in Keys, TableCreated(k)
      PROVE  Sound(tables, rows, entries)' /\ SessionSound' /\ Known'
  <2>1. PICK f \in FoundOrCreated(k) : tables' = f.tables
    BY <1>3 DEF TableCreated
  <2>2. UNCHANGED <<rows, entries, keyval, idx, session>>
    BY <1>3 DEF TableCreated
  <2>3. /\ Sound(f.tables, rows, entries)
        /\ TablesKnown(keyval, f.tables) /\ TablesKnown(idx, f.tables)
        /\ EndsKnown(keyval, f.tables, rows)
    BY SoundFound
  <2> QED BY <1>0, <2>1, <2>2, <2>3 DEF SessionSound
<1>4. ASSUME NEW k \in Keys, NEW p \in Primaries, db_store_i64(k, p)
      PROVE  Sound(tables, rows, entries)' /\ SessionSound' /\ Known'
  BY <1>0, <1>4, SoundStoreRow DEF SessionSound
<1>5. ASSUME NEW k \in Keys, NEW p \in Primaries, SecondaryStore(k, p)
      PROVE  Sound(tables, rows, entries)' /\ SessionSound' /\ Known'
  BY <1>0, <1>5, SoundStoreEntry DEF SessionSound
<1>6. ASSUME NEW i \in Held(keyval), RowRemoved(i)
      PROVE  Sound(tables, rows, entries)' /\ SessionSound' /\ Known'
  BY <1>0, <1>6, SoundRemoveRow, RemovedSound
<1>7. ASSUME NEW i \in Held(idx), EntryRemoved(i)
      PROVE  Sound(tables, rows, entries)' /\ SessionSound' /\ Known'
  BY <1>0, <1>7, SoundRemoveEntry, RemovedSound
<1>8. NoCaches => Known'
  BY KnownEmpty DEF NoCaches
<1>9. CASE construct
  BY <1>0, <1>8, <1>9 DEF construct, SessionSound
<1>10. CASE undo
  <2>1. session' = Null /\ NoCaches
    BY <1>10 DEF undo
  <2> QED BY <1>8, <1>10, <2>1, SoundUndo DEF SessionSound
<1>11. CASE start_undo_session
  <2>1. /\ UNCHANGED <<tables, rows, entries, keyval, idx>>
        /\ session' = [tables |-> tables, rows |-> rows, entries |-> entries,
                       kept |-> LiveTables \cup LiveRows \cup LiveEntries]
    BY <1>11 DEF start_undo_session
  <2>2. SessionSound'
    BY <1>0, <2>1 DEF SessionSound
  <2> QED BY <1>0, <2>1, <2>2
<1>12. CASE commit
  BY <1>0, <1>12 DEF commit, SessionSound
<1>13. ASSUME UNCHANGED vars \/ Failed
       PROVE  UNCHANGED <<tables, rows, entries, keyval, idx, session>>
  BY <1>13 DEF vars, Failed, Halt
<1> QED BY <1>0, <1>1, <1>2, <1>3, <1>4, <1>5, <1>6, <1>7, <1>9, <1>10, <1>11, <1>12, <1>13
        DEF Steps

LEMMA StoreInit == Init => StoreInv
<1> SUFFICES ASSUME Init PROVE StoreInv
  OBVIOUS
<1>1. /\ TablesTyped(tables) /\ ElementsTyped(rows, RowAddrs) /\ ElementsTyped(entries, EntryAddrs)
  BY CountAssumption DEF Init, TablesTyped, ElementsTyped
<1>2. Live(tables) = {} /\ Live(rows) = {} /\ Live(entries) = {}
  BY <1>1 DEF Live, Init
<1>3. Sound(tables, rows, entries)
  BY <1>2 DEF Sound, UniqueTables, UniqueRows, UniqueEntries, Homed, Counting
<1>4. keyval = EmptyCache /\ idx = EmptyCache /\ session = Null
  BY DEF Init
<1> QED BY <1>3, <1>4, KnownEmpty, DenoteInit DEF StoreInv

LEMMA StoreInvariant ==
    ASSUME ~KeepCaches, ~RepeatIds
    PROVE  Spec => []StoreInv
BY StoreInit, StoreStep, PTL DEF Spec

(* table_id_object::count is the number of rows and entries stored under the *)
(* table's name, in every state: although ++ and -- go through pointers that *)
(* come from the caches, the last row takes the table along, and undo brings *)
(* the old counts back.  New tables must have ids that no cache knows, and   *)
(* an undo must be followed by a new eos_db object.                          *)
THEOREM CountsCorrect ==
    ASSUME ~KeepCaches, ~RepeatIds
    PROVE  Spec => []CountsElements
<1>1. StoreInv => CountsElements
  <2> SUFFICES ASSUME StoreInv PROVE CountsElements
    OBVIOUS
  <2> DEFINE R(k) == {a \in LiveRows : rows[a].owner = k}
             E(k) == {a \in LiveEntries : entries[a].owner = k}
  <2>1. Typed /\ Sound(tables, rows, entries)
    BY TypedFacts DEF StoreInv, DenoteInv
  <2>2. \A k : R(k) = OwnedBy(rows, k) /\ E(k) = OwnedBy(entries, k)
    BY <2>1 DEF Typed, OwnedBy
  <2>3. \A a \in LiveTables :
          tables[a].count = Cardinality(R(tables[a].key)) + Cardinality(E(tables[a].key))
    BY <2>1, <2>2 DEF Typed, Sound, Counting
  <2>4. ASSUME NEW k \in Keys, find_table(k) = {}
        PROVE  Cardinality(R(k)) + Cardinality(E(k)) = 0
    <3>1. OwnedBy(rows, k) = {} /\ OwnedBy(entries, k) = {}
      BY <2>1, <2>4 DEF Typed, Sound, Homed, OwnedBy, find_table
    <3>2. Cardinality(R(k)) = 0 /\ Cardinality(E(k)) = 0
      BY <2>2, <3>1, FS_EmptySet
    <3> QED BY <3>2
  <2> QED BY <2>3, <2>4 DEF CountsElements
<1> QED BY <1>1, StoreInvariant, PTL

(* get_table finds the live table of every element that has an iterator: the *)
(* assertion "an invariant was broken, table should be in cache" is never    *)
(* reached, nor a table that went with its last row.                         *)
THEOREM TablesFound ==
    ASSUME ~KeepCaches, ~RepeatIds
    PROVE  Spec => []TablesCached
<1>1. StoreInv => TablesCached
  <2> SUFFICES ASSUME StoreInv PROVE TablesCached
    OBVIOUS
  <2>1. /\ Typed /\ Homed(tables, rows) /\ Homed(tables, entries)
        /\ Denoting(keyval, rows) /\ Denoting(idx, entries)
        /\ TablesKnown(keyval, tables) /\ IdsKnown(keyval, rows)
        /\ TablesKnown(idx, tables) /\ IdsKnown(idx, entries)
    BY TypedFacts DEF StoreInv, DenoteInv, Sound, IteratorsDenote
  <2>2. LiveTables = Live(tables)
    BY <2>1 DEF Typed
  <2>3. Cached(keyval, rows)
    <3> SUFFICES ASSUME NEW i \in Held(keyval)
                 PROVE  LET x == rows[get(keyval, i)]
                            a == keyval.tables[x.t_id].table
                        IN  /\ x # Null /\ x.t_id \in DOMAIN keyval.tables
                            /\ a \in find_table(x.owner) /\ tables[a].id = x.t_id
      BY DEF Cached
    <3>1. LET x == rows[get(keyval, i)]
              a == keyval.tables[x.t_id].table
          IN  /\ x \in Elements /\ x.t_id \in DOMAIN keyval.tables
              /\ a \in Live(tables) /\ tables[a].id = x.t_id /\ tables[a].key = x.owner
      BY <2>1, HomeReached DEF Typed
    <3> QED BY <2>2, <3>1, ElementFields DEF find_table
  <2>4. Cached(idx, entries)
    <3> SUFFICES ASSUME NEW i \in Held(idx)
                 PROVE  LET x == entries[get(idx, i)]
                            a == idx.tables[x.t_id].table
                        IN  /\ x # Null /\ x.t_id \in DOMAIN idx.tables
                            /\ a \in find_table(x.owner) /\ tables[a].id = x.t_id
      BY DEF Cached
    <3>1. LET x == entries[get(idx, i)]
              a == idx.tables[x.t_id].table
          IN  /\ x \in Elements /\ x.t_id \in DOMAIN idx.tables
              /\ a \in Live(tables) /\ tables[a].id = x.t_id /\ tables[a].key = x.owner
      BY <2>1, HomeReached DEF Typed
    <3> QED BY <2>2, <3>1, ElementFields DEF find_table
  <2> QED BY <2>3, <2>4 DEF TablesCached
<1> QED BY <1>1, StoreInvariant, PTL

-----------------------------------------------------------------------------
(***************************************************************************)
(* Queries answer for the rows of the named table.                         *)
(***************************************************************************)
OrderedRows == \A b \in LiveRows : rows[b].t_id \in Int /\ rows[b].primary \in Int

(* Of rows from table t on, the first one that is still of table t. *)
LEMMA FirstLeast ==
    ASSUME OrderedRows, NEW S, S \subseteq LiveRows, NEW t \in Int,
           \A b \in S : rows[b].t_id >= t,
           NEW M, \A q : q \in M <=> \E b \in S : rows[b].t_id = t /\ rows[b].primary = q
    PROVE  /\ \A b \in Within(First(S), t) :
                b \in LiveRows /\ rows[b].t_id = t /\ rows[b].primary \in Least(M)
           /\ Least(M) # {} => Within(First(S), t) # {}
<1>0. \A b \in S : b \in LiveRows /\ rows[b].t_id \in Int /\ rows[b].primary \in Int
  BY DEF OrderedRows
<1>1. ASSUME NEW b \in Within(First(S), t)
      PROVE  b \in LiveRows /\ rows[b].t_id = t /\ rows[b].primary \in Least(M)
  <2>1. b \in S /\ rows[b].t_id = t /\ \A d \in S : ~Before(d, b)
    BY DEF Within, First
  <2>2. ASSUME NEW q \in M PROVE rows[b].primary <= q
    <3>1. PICK d \in S : rows[d].t_id = t /\ rows[d].primary = q
      OBVIOUS
    <3> QED BY <1>0, <2>1, <3>1 DEF Before
  <2>3. rows[b].primary \in M
    BY <2>1
  <2> QED BY <1>0, <2>1, <2>2, <2>3 DEF Least
<1>2. ASSUME NEW q \in Least(M) PROVE Within(First(S), t) # {}
  <2>1. q \in M /\ \A o \in M : q <= o
    BY DEF Least
  <2>2. PICK d \in S : rows[d].t_id = t /\ rows[d].primary = q
    BY <2>1
  <2>3. ASSUME NEW b \in S, Before(b, d) PROVE FALSE
    <3>1. rows[b].t_id >= t /\ rows[b].t_id \in Int /\ rows[b].primary \in Int /\ q \in Int
      BY <1>0, <2>2
    <3>2. rows[b].t_id = t /\ rows[b].primary < q
      BY <2>2, <2>3, <3>1 DEF Before
    <3>3. q <= rows[b].primary
      BY <2>1, <3>2
    <3> QED BY <3>1, <3>2, <3>3
  <2>4. d \in Within(First(S), t)
    BY <2>2, <2>3 DEF Within, First
  <2> QED BY <2>4
<1> QED BY <1>1, <1>2

(* Of rows up to table t, the last one. *)
LEMMA FinalGreatest ==
    ASSUME OrderedRows, NEW S, S \subseteq LiveRows, NEW t \in Int,
           \A b \in S : rows[b].t_id <= t,
           NEW M, \A q : q \in M <=> \E b \in S : rows[b].t_id = t /\ rows[b].primary = q
    PROVE  /\ \A b \in Within(Final(S), t) :
                b \in LiveRows /\ rows[b].t_id = t /\ rows[b].primary \in Greatest(M)
           /\ Greatest(M) # {} => Within(Final(S), t) # {}
<1>0. \A b \in S : b \in LiveRows /\ rows[b].t_id \in Int /\ rows[b].primary \in Int
  BY DEF OrderedRows
<1>1. ASSUME NEW b \in Within(Final(S), t)
      PROVE  b \in LiveRows /\ rows[b].t_id = t /\ rows[b].primary \in Greatest(M)
  <2>1. b \in S /\ rows[b].t_id = t /\ \A d \in S : ~Before(b, d)
    BY DEF Within, Final
  <2>2. ASSUME NEW q \in M PROVE q <= rows[b].primary
    <3>1. PICK d \in S : rows[d].t_id = t /\ rows[d].primary = q
      OBVIOUS
    <3> QED BY <1>0, <2>1, <3>1 DEF Before
  <2>3. rows[b].primary \in M
    BY <2>1
  <2> QED BY <1>0, <2>1, <2>2, <2>3 DEF Greatest
<1>2. ASSUME NEW q \in Greatest(M) PROVE Within(Final(S), t) # {}
  <2>1. q \in M /\ \A o \in M : o <= q
    BY DEF Greatest
  <2>2. PICK d \in S : rows[d].t_id = t /\ rows[d].primary = q
    BY <2>1
  <2>3. ASSUME NEW b \in S, Before(d, b) PROVE FALSE
    <3>1. rows[b].t_id <= t /\ rows[b].t_id \in Int /\ rows[b].primary \in Int /\ q \in Int
      BY <1>0, <2>2
    <3>2. rows[b].t_id = t /\ q < rows[b].primary
      BY <2>2, <2>3, <3>1 DEF Before
    <3>3. rows[b].primary <= q
      BY <2>1, <3>2
    <3> QED BY <3>1, <3>2, <3>3
  <2>4. d \in Within(Final(S), t)
    BY <2>2, <2>3 DEF Within, Final
  <2> QED BY <2>4
<1> QED BY <1>1, <1>2

(* The iterator that Answer returns stands for a row of W. *)
LEMMA AnswerDenotes ==
    ASSUME Typed, NEW c, CacheTyped(c, RowAddrs), Denoting(c, rows), NEW k, NEW P, NEW e,
           NEW W, \A b \in W : b \in LiveRows /\ rows[b].owner = k /\ rows[b].primary \in P,
           P # {} => W # {}
    PROVE  LET r == Answer(c, W, e)
           IN  /\ P = {} => r.cache = c /\ r.iterator = e
               /\ P # {} => /\ r.iterator \in Held(r.cache)
                            /\ rows[get(r.cache, r.iterator)].owner = k
                            /\ rows[get(r.cache, r.iterator)].primary \in P
<1> DEFINE r == Answer(c, W, e)
<1>1. CASE P = {}
  <2>1. W = {}
    BY <1>1
  <2> QED BY <1>1, <2>1, AnswerCases
<1>2. CASE P # {}
  <2>1. PICK b \in W : r = add(c, b, rows[b])
    BY <1>2, AnswerCases
  <2>2. b \in RowAddrs /\ rows[b] \in Elements
    BY LiveElement DEF Typed
  <2>3. r.iterator \in Held(r.cache) /\ get(r.cache, r.iterator) = b
    <3>1. CASE b \in DOMAIN c.iterator_of
      <4>1. r.cache = c /\ r.iterator = c.iterator_of[b]
        BY <2>1, <2>2, <3>1, AddShape
      <4> QED BY <3>1, <4>1 DEF Denoting
    <3>2. CASE b \notin DOMAIN c.iterator_of
      <4>1. r.iterator = Len(c.objects)
        BY <2>1, <2>2, <3>2, AddShape
      <4> QED BY <2>1, <2>2, <3>2, <4>1, HeldAdd, NoPlace
    <3> QED BY <3>1, <3>2
  <2> HIDE DEF r
  <2>4. /\ rows[get(r.cache, r.iterator)].owner = k
        /\ rows[get(r.cache, r.iterator)].primary \in P
    BY <2>3
  <2> QED BY <1>2, <2>3, <2>4 DEF r
<1> QED BY <1>1, <1>2

(* The rows with a table's id are those stored under its name. *)
LEMMA RowsOfTable ==
    ASSUME StoreInv, NEW k, NEW a \in find_table(k)
    PROVE  /\ a \in LiveTables /\ tables[a].id \in TableIds /\ tables[a].id \in Int
           /\ \A b \in LiveRows : rows[b].t_id = tables[a].id <=> rows[b].owner = k
           /\ \A q : q \in Stock(k) <=> \E b \in LiveRows : /\ rows[b].t_id = tables[a].id
                                                          /\ rows[b].primary = q
<1>1. Typed /\ UniqueTables(tables) /\ Homed(tables, rows)
  BY TypedFacts DEF StoreInv, DenoteInv, Sound
<1>2. a \in LiveTables /\ tables[a].key = k
  BY DEF find_table
<1>3. tables[a].id \in TableIds
  BY <1>1, <1>2, LiveTable DEF Typed
<1>4. ASSUME NEW b \in LiveRows PROVE rows[b].t_id = tables[a].id <=> rows[b].owner = k
  <2>1. PICK d \in Live(tables) : tables[d].id = rows[b].t_id /\ tables[d].key = rows[b].owner
    BY <1>1 DEF Homed, Typed
  <2> QED BY <1>1, <1>2, <2>1 DEF UniqueTables, Typed
<1> QED BY <1>2, <1>3, <1>4, IntegersAssumption DEF Stock

LEMMA RowsOrdered == TypeInv => OrderedRows
BY TypeFacts, ElementFields, IntegersAssumption DEF OrderedRows

(* The end iterator of a cached id leads back to its table. *)
LEMMA EndFacts ==
    ASSUME NEW c, NEW ts, TablesKnown(c, ts), NEW id \in DOMAIN c.tables, Len(c.ends) \in Nat
    PROVE  /\ c.tables[id].end \in EndIterators(c)
           /\ c.ends[end_iterator_to_index(c.tables[id].end) + 1] = c.tables[id].table
<1>1. PICK n \in 1 .. Len(c.ends) : /\ c.tables[id].end = index_to_end_iterator(n - 1)
                                     /\ c.ends[n] = c.tables[id].table
  BY DEF TablesKnown
<1>2. n - 1 \in 0 .. Len(c.ends) - 1 /\ n \in Int
  OBVIOUS
<1>3. end_iterator_to_index(index_to_end_iterator(n - 1)) + 1 = n
  BY <1>2 DEF end_iterator_to_index, index_to_end_iterator
<1>4. c.tables[id].end \in EndIterators(c)
  BY <1>1, <1>2 DEF EndIterators
<1> QED BY <1>1, <1>3, <1>4

(* The cache of a query of the table at address a. *)
LEMMA AskedCache ==
    ASSUME StoreInv, NEW k, NEW a \in find_table(k)
    PROVE  LET id == tables[a].id
               c == cache_table(keyval, id, a)
           IN  /\ CacheTyped(c, RowAddrs) /\ Denoting(c, rows)
               /\ c.tables[id].end \in EndIterators(c)
               /\ c.ends[end_iterator_to_index(c.tables[id].end) + 1] = a
<1> DEFINE id == tables[a].id
           c == cache_table(keyval, id, a)
<1>1. /\ Typed /\ UniqueTables(tables) /\ TablesKnown(keyval, tables) /\ Denoting(keyval, rows)
  BY TypedFacts DEF StoreInv, DenoteInv, Sound, IteratorsDenote
<1>2. a \in LiveTables /\ id \in TableIds
  BY RowsOfTable
<1>3. a \in Live(tables) /\ a \in TableAddrs /\ CacheTyped(keyval, RowAddrs) /\ TablesTyped(tables)
  BY <1>1, <1>2 DEF Typed, LiveTables
<1>4. CacheTyped(c, RowAddrs)
  BY <1>2, <1>3, CacheTableShape
<1>5. Denoting(c, rows)
  BY <1>1, <1>2, <1>3, DenoteTable
<1>6. TablesKnown(c, tables) /\ id \in DOMAIN c.tables /\ c.tables[id].table = a
  BY <1>1, <1>3, KnownTable
<1> HIDE DEF c, id
<1>7. Len(c.ends) \in Nat
  BY <1>4 DEF CacheTyped
<1>8. /\ c.tables[id].end \in EndIterators(c)
      /\ c.ends[end_iterator_to_index(c.tables[id].end) + 1] = a
  BY <1>6, <1>7, EndFacts
<1> QED BY <1>4, <1>5, <1>8 DEF c, id

LEMMA AskDenotes ==
    ASSUME StoreInv, NEW k, NEW a \in find_table(k), NEW S, NEW P,
           \A b \in Within(S, tables[a].id) :
             b \in LiveRows /\ rows[b].t_id = tables[a].id /\ rows[b].primary \in P,
           P # {} => Within(S, tables[a].id) # {}
    PROVE  Denotes(Ask(a, S), k, P, EndOf(Ask(a, S), k))
<1> DEFINE id == tables[a].id
           c == cache_table(keyval, id, a)
           W == Within(S, id)
           e == c.tables[id].end
           r == Answer(c, W, e)
<1>1. Ask(a, S) = r
  BY DEF Ask
<1>2. Typed
  BY TypedFacts DEF StoreInv, DenoteInv
<1>3. \A b \in W : b \in LiveRows /\ rows[b].owner = k /\ rows[b].primary \in P
  BY RowsOfTable
<1>4. /\ CacheTyped(c, RowAddrs) /\ Denoting(c, rows)
      /\ e \in EndIterators(c) /\ c.ends[end_iterator_to_index(e) + 1] = a
  BY AskedCache
<1>5. P # {} => W # {}
  OBVIOUS
<1> HIDE DEF c, W, e, id
<1>6. /\ P = {} => r.cache = c /\ r.iterator = e
      /\ P # {} => /\ r.iterator \in Held(r.cache)
                   /\ rows[get(r.cache, r.iterator)].owner = k
                   /\ rows[get(r.cache, r.iterator)].primary \in P
  BY <1>2, <1>3, <1>4, <1>5, AnswerDenotes
<1> HIDE DEF r
<1>7. P = {} => EndOf(r, k)
  BY <1>4, <1>6 DEF EndOf
<1> QED BY <1>1, <1>6, <1>7 DEF Denotes

LEMMA SearchesAnswer ==
    ASSUME StoreInv, NEW k \in Keys, NEW p \in Primaries, NEW a \in find_table(k)
    PROVE  /\ Denotes(Find(a, p), k, Stock(k) \cap {p}, EndOf(Find(a, p), k))
           /\ Denotes(Lower(a, p), k, Least({q \in Stock(k) : q >= p}), EndOf(Lower(a, p), k))
           /\ Denotes(Upper(a, p), k, Least({q \in Stock(k) : q > p}), EndOf(Upper(a, p), k))
<1> DEFINE t == tables[a].id
<1>1. /\ t \in Int /\ OrderedRows
      /\ \A q : q \in Stock(k) <=> \E b \in LiveRows : rows[b].t_id = t /\ rows[b].primary = q
  BY RowsOfTable, RowsOrdered DEF StoreInv, DenoteInv
<1>2. Denotes(Find(a, p), k, Stock(k) \cap {p}, EndOf(Find(a, p), k))
  <2> DEFINE S == {b \in LiveRows : rows[b].t_id = t /\ rows[b].primary = p}
  <2>1. Within(S, t) = S
    BY DEF Within
  <2>2. \A b \in S : b \in LiveRows /\ rows[b].t_id = t /\ rows[b].primary \in Stock(k) \cap {p}
    BY <1>1
  <2>3. Stock(k) \cap {p} # {} => S # {}
    BY <1>1
  <2>4. Find(a, p) = Ask(a, S)
    BY DEF Find
  <2> HIDE DEF S
  <2> QED BY <2>1, <2>2, <2>3, <2>4, AskDenotes
<1>3. Denotes(Lower(a, p), k, Least({q \in Stock(k) : q >= p}), EndOf(Lower(a, p), k))
  <2> DEFINE S == {b \in LiveRows : \/ rows[b].t_id > t
                                    \/ rows[b].t_id = t /\ rows[b].primary >= p}
             M == {q \in Stock(k) : q >= p}
  <2>1. S \subseteq LiveRows /\ \A b \in S : rows[b].t_id >= t
    BY <1>1 DEF OrderedRows
  <2>2. \A q : q \in M <=> \E b \in S : rows[b].t_id = t /\ rows[b].primary = q
    BY <1>1 DEF OrderedRows
  <2>3. Lower(a, p) = Ask(a, First(S))
    BY DEF Lower, LowerBound
  <2> HIDE DEF S, M
  <2>4. /\ \A b \in Within(First(S), t) :
             b \in LiveRows /\ rows[b].t_id = t /\ rows[b].primary \in Least(M)
        /\ Least(M) # {} => Within(First(S), t) # {}
    BY <1>1, <2>1, <2>2, FirstLeast
  <2>5. Denotes(Ask(a, First(S)), k, Least(M), EndOf(Ask(a, First(S)), k))
    BY <2>4, AskDenotes
  <2> QED BY <2>3, <2>5 DEF M
<1>4. Denotes(Upper(a, p), k, Least({q \in Stock(k) : q > p}), EndOf(Upper(a, p), k))
  <2> DEFINE S == {b \in LiveRows : \/ rows[b].t_id > t
                                    \/ rows[b].t_id = t /\ rows[b].primary > p}
             M == {q \in Stock(k) : q > p}
  <2>1. S \subseteq LiveRows /\ \A b \in S : rows[b].t_id >= t
    BY <1>1 DEF OrderedRows
  <2>2. \A q : q \in M <=> \E b \in S : rows[b].t_id = t /\ rows[b].primary = q
    BY <1>1 DEF OrderedRows
  <2>3. Upper(a, p) = Ask(a, First(S))
    BY DEF Upper, UpperBound
  <2> HIDE DEF S, M
  <2>4. /\ \A b \in Within(First(S), t) :
             b \in LiveRows /\ rows[b].t_id = t /\ rows[b].primary \in Least(M)
        /\ Least(M) # {} => Within(First(S), t) # {}
    BY <1>1, <2>1, <2>2, FirstLeast
  <2>5. Denotes(Ask(a, First(S)), k, Least(M), EndOf(Ask(a, First(S)), k))
    BY <2>4, AskDenotes
  <2> QED BY <2>3, <2>5 DEF M
<1> QED BY <1>2, <1>3, <1>4

LEMMA NeighboursAnswer ==
    ASSUME StoreInv, NEW i \in Held(keyval)
    PROVE  LET x == rows[get(keyval, i)]
           IN  /\ Denotes(Following(i), x.owner,
                          Least({q \in Stock(x.owner) : q > x.primary}),
                          EndOf(Following(i), x.owner))
               /\ Denotes(Preceding(i), x.owner,
                          Greatest({q \in Stock(x.owner) : q < x.primary}),
                          Preceding(i).iterator = -1)
<1> DEFINE g == get(keyval, i)
           x == rows[g]
           k == x.owner
           t == x.t_id
           a == keyval.tables[t].table
<1>1. /\ Typed /\ Homed(tables, rows) /\ TablesKnown(keyval, tables) /\ IdsKnown(keyval, rows)
      /\ Denoting(keyval, rows) /\ CacheTyped(keyval, RowAddrs) /\ OrderedRows
      /\ ElementsTyped(rows, RowAddrs)
  BY TypedFacts, RowsOrdered DEF StoreInv, DenoteInv, Sound, IteratorsDenote, Typed
<1>2. /\ g \in Live(rows) /\ t \in DOMAIN keyval.tables
      /\ a \in Live(tables) /\ tables[a].id = t /\ tables[a].key = k
  BY <1>1, HomeReached
<1>3. g \in LiveRows /\ a \in find_table(k)
  BY <1>1, <1>2 DEF Typed, find_table
<1>4. /\ t \in Int /\ x.primary \in Int
      /\ \A b \in LiveRows : rows[b].t_id = t <=> rows[b].owner = k
      /\ \A q : q \in Stock(k) <=> \E b \in LiveRows : rows[b].t_id = t /\ rows[b].primary = q
  <2>1. t \in Int /\ x.primary \in Int
    BY <1>1, <1>3 DEF OrderedRows
  <2>2. /\ \A b \in LiveRows : rows[b].t_id = tables[a].id <=> rows[b].owner = k
        /\ \A q : q \in Stock(k) <=> \E b \in LiveRows : /\ rows[b].t_id = tables[a].id
                                                       /\ rows[b].primary = q
    <3> HIDE DEF a, k
    <3> QED BY <1>3, RowsOfTable
  <2> QED BY <1>2, <2>1, <2>2
<1>5. Denotes(Following(i), k, Least({q \in Stock(k) : q > x.primary}), EndOf(Following(i), k))
  <2> DEFINE S == {b \in LiveRows : Before(g, b)}
             M == {q \in Stock(k) : q > x.primary}
             W == Within(First(S), t)
             e == keyval.tables[t].end
             r == Answer(keyval, W, e)
  <2>1. S \subseteq LiveRows /\ \A b \in S : rows[b].t_id >= t
    BY <1>1, <1>4 DEF OrderedRows, Before
  <2>2. \A q : q \in M <=> \E b \in S : rows[b].t_id = t /\ rows[b].primary = q
    BY <1>1, <1>4 DEF OrderedRows, Before
  <2>3. Following(i) = r
    BY DEF Following, Successor
  <2>4. /\ e \in EndIterators(keyval) /\ keyval.ends[end_iterator_to_index(e) + 1] = a
    <3>1. Len(keyval.ends) \in Nat
      BY <1>1 DEF CacheTyped
    <3> QED BY <1>1, <1>2, <3>1, EndFacts
  <2>5. /\ \A b \in W : b \in LiveRows /\ rows[b].t_id = t /\ rows[b].primary \in Least(M)
        /\ Least(M) # {} => W # {}
    <3> HIDE DEF S, M, t
    <3> QED BY <1>1, <1>4, <2>1, <2>2, FirstLeast
  <2>6. \A b \in W : b \in LiveRows /\ rows[b].owner = k /\ rows[b].primary \in Least(M)
    BY <1>4, <2>5
  <2> HIDE DEF M, W, e, k
  <2>7. /\ Least(M) = {} => r.cache = keyval /\ r.iterator = e
        /\ Least(M) # {} => /\ r.iterator \in Held(r.cache)
                            /\ rows[get(r.cache, r.iterator)].owner = k
                            /\ rows[get(r.cache, r.iterator)].primary \in Least(M)
    BY <1>1, <2>5, <2>6, AnswerDenotes
  <2> HIDE DEF r
  <2>8. Least(M) = {} => EndOf(r, k)
    BY <1>3, <2>4, <2>7 DEF EndOf
  <2>9. Denotes(r, k, Least(M), EndOf(r, k))
    BY <2>7, <2>8 DEF Denotes
  <2> QED BY <2>3, <2>9 DEF M
<1>6. Denotes(Preceding(i), k, Greatest({q \in Stock(k) : q < x.primary}), Preceding(i).iterator = -1)
  <2> DEFINE S == {b \in LiveRows : Before(b, g)}
             M == {q \in Stock(k) : q < x.primary}
             W == Within(Final(S), t)
             r == Answer(keyval, W, -1)
  <2>1. S \subseteq LiveRows /\ \A b \in S : rows[b].t_id <= t
    BY <1>1, <1>4 DEF OrderedRows, Before
  <2>2. \A q : q \in M <=> \E b \in S : rows[b].t_id = t /\ rows[b].primary = q
    BY <1>1, <1>4 DEF OrderedRows, Before
  <2>3. Preceding(i) = r
    BY DEF Preceding
  <2>5. /\ \A b \in W : b \in LiveRows /\ rows[b].t_id = t /\ rows[b].primary \in Greatest(M)
        /\ Greatest(M) # {} => W # {}
    <3> HIDE DEF S, M, t
    <3> QED BY <1>1, <1>4, <2>1, <2>2, FinalGreatest
  <2>6. \A b \in W : b \in LiveRows /\ rows[b].owner = k /\ rows[b].primary \in Greatest(M)
    BY <1>4, <2>5
  <2> HIDE DEF M, W, k
  <2>7. /\ Greatest(M) = {} => r.cache = keyval /\ r.iterator = -1
        /\ Greatest(M) # {} => /\ r.iterator \in Held(r.cache)
                               /\ rows[get(r.cache, r.iterator)].owner = k
                               /\ rows[get(r.cache, r.iterator)].primary \in Greatest(M)
    BY <1>1, <2>5, <2>6, AnswerDenotes
  <2> HIDE DEF r
  <2>8. Denotes(r, k, Greatest(M), r.iterator = -1)
    BY <2>7 DEF Denotes
  <2> QED BY <2>3, <2>8 DEF M
<1> QED BY <1>5, <1>6

(* db_previous_i64 of an end iterator, when it is the end of the table at a. *)
LEMMA EndsAnswer ==
    ASSUME StoreInv, NEW k \in Keys, NEW a \in find_table(k), End(a).iterator \in EndIterators(keyval)
    PROVE  LET e == End(a).iterator
           IN  Denotes(PrecedingEnd(e), k, Greatest(Stock(k)), PrecedingEnd(e).iterator = -1)
<1> DEFINE t == tables[a].id
           c == cache_table(keyval, t, a)
           e == End(a).iterator
<1>1. /\ Typed /\ Denoting(keyval, rows) /\ CacheTyped(keyval, RowAddrs) /\ OrderedRows
  BY TypedFacts, RowsOrdered DEF StoreInv, DenoteInv, IteratorsDenote, Typed
<1>2. /\ t \in Int /\ t \in TableIds /\ a \in LiveTables
      /\ \A b \in LiveRows : rows[b].t_id = t <=> rows[b].owner = k
      /\ \A q : q \in Stock(k) <=> \E b \in LiveRows : rows[b].t_id = t /\ rows[b].primary = q
  BY RowsOfTable
<1>3. e = c.tables[t].end
  BY DEF End, Ask, Answer, Within
<1>4. Len(keyval.ends) \in Nat /\ a \in TableAddrs
  BY <1>1, <1>2 DEF CacheTyped, LiveTables
<1>5. t \in DOMAIN keyval.tables
  <2> SUFFICES ASSUME t \notin DOMAIN keyval.tables PROVE FALSE
    OBVIOUS
  <2>1. e = index_to_end_iterator(Len(keyval.ends))
    BY <1>1, <1>2, <1>3, <1>4, CacheTableShape
  <2>2. PICK n \in 0 .. Len(keyval.ends) - 1 : e = index_to_end_iterator(n)
    BY DEF EndIterators
  <2> QED BY <1>4, <2>1, <2>2 DEF index_to_end_iterator
<1>6. keyval.ends[end_iterator_to_index(e) + 1] = a
  <2>1. c = keyval
    BY <1>1, <1>2, <1>4, <1>5, CacheTableShape
  <2>2. c.ends[end_iterator_to_index(c.tables[t].end) + 1] = a
    BY AskedCache
  <2> QED BY <1>3, <2>1, <2>2
<1> DEFINE S == {b \in LiveRows : rows[b].t_id <= t}
           W == Within(Final(S), t)
           r == Answer(keyval, W, -1)
<1>7. PrecedingEnd(e) = r
  <2> HIDE DEF e
  <2> QED BY <1>6 DEF PrecedingEnd
<1>8. /\ S \subseteq LiveRows /\ \A b \in S : rows[b].t_id <= t
  OBVIOUS
<1>9. \A q : q \in Stock(k) <=> \E b \in S : rows[b].t_id = t /\ rows[b].primary = q
  BY <1>2
<1>10. /\ \A b \in W : b \in LiveRows /\ rows[b].t_id = t /\ rows[b].primary \in Greatest(Stock(k))
       /\ Greatest(Stock(k)) # {} => W # {}
  <2> HIDE DEF S, t
  <2> QED BY <1>1, <1>2, <1>8, <1>9, FinalGreatest
<1>11. \A b \in W : b \in LiveRows /\ rows[b].owner = k /\ rows[b].primary \in Greatest(Stock(k))
  BY <1>2, <1>10
<1> HIDE DEF W, e
<1>12. /\ Greatest(Stock(k)) = {} => r.cache = keyval /\ r.iterator = -1
       /\ Greatest(Stock(k)) # {} => /\ r.iterator \in Held(r.cache)
                                     /\ rows[get(r.cache, r.iterator)].owner = k
                                     /\ rows[get(r.cache, r.iterator)].primary \in Greatest(Stock(k))
  BY <1>1, <1>10, <1>11, AnswerDenotes
<1> HIDE DEF r
<1>13. Denotes(r, k, Greatest(Stock(k)), r.iterator = -1)
  BY <1>12 DEF Denotes
<1> QED BY <1>7, <1>13 DEF e

(* Every query answers for the rows of the named table alone, although it    *)
(* walks the common order of all tables' rows by ids that nothing sets: the  *)
(* row with the key, the first one from it or after it, the neighbours of an *)
(* iterator, and the table's own end iterator when there is no such row.     *)
THEOREM QueriesCorrect ==
    ASSUME ~KeepCaches, ~RepeatIds
    PROVE  Spec => []QueriesAnswer
<1>1. StoreInv => QueriesAnswer
  BY SearchesAnswer, NeighboursAnswer, EndsAnswer DEF QueriesAnswer
<1> QED BY <1>1, StoreInvariant, PTL

-----------------------------------------------------------------------------
(***************************************************************************)
(* How calls fail.                                                         *)
(***************************************************************************)
LEMMA HeldReaches ==
    ASSUME NEW c, NEW addrs, CacheTyped(c, addrs), NEW os, ElementsTyped(os, addrs), Typed,
           TablesKnown(c, tables), Homed(tables, os), Denoting(c, os), IdsKnown(c, os),
           NEW i \in Held(c)
    PROVE  /\ Failure(c, os, i) = "none" /\ os[get(c, i)] # Null
           /\ os[get(c, i)].t_id \in DOMAIN c.tables
<1>1. LET x == os[get(c, i)]
          a == c.tables[x.t_id].table
      IN  x \in Elements /\ x.t_id \in DOMAIN c.tables /\ a \in Live(tables)
  BY HomeReached
<1>2. \A a \in Live(tables) : tables[a] # Null
  BY DEF Live
<1> QED BY <1>1, <1>2, ElementFields DEF Failure

LEMMA StatusStep ==
    ASSUME StoreInv, [Next]_vars, status' # status
    PROVE  status' = "dangling"
<1>0. /\ Typed /\ Homed(tables, rows) /\ Homed(tables, entries)
      /\ Denoting(keyval, rows) /\ Denoting(idx, entries)
      /\ TablesKnown(keyval, tables) /\ IdsKnown(keyval, rows)
      /\ TablesKnown(idx, tables) /\ IdsKnown(idx, entries)
  BY TypedFacts DEF StoreInv, DenoteInv, Sound, IteratorsDenote
<1>1. ASSUME NEW i \in Held(keyval)
      PROVE  /\ Failure(keyval, rows, i) = "none" /\ rows[get(keyval, i)] # Null
             /\ rows[get(keyval, i)].t_id \in DOMAIN keyval.tables
  BY <1>0, HeldReaches DEF Typed
<1>2. ASSUME NEW i \in Held(idx)
      PROVE  Failure(idx, entries, i) = "none"
  BY <1>0, HeldReaches DEF Typed
<1>3. ASSUME NEW i \in Held(keyval), \/ db_update_i64(i) \/ db_remove_i64(i)
                                     \/ db_next_i64(i) \/ db_previous_i64(i)
      PROVE  FALSE
  BY <1>1, <1>3 DEF db_update_i64, db_remove_i64, db_next_i64, db_previous_i64, Return, vars
<1>4. ASSUME NEW i \in Held(idx), SecondaryUpdate(i) \/ SecondaryRemove(i)
      PROVE  FALSE
  BY <1>2, <1>4 DEF SecondaryUpdate, SecondaryRemove, vars
<1>5. ASSUME NEW e \in EndIterators(keyval), PreviousOfEnd(e)
      PROVE  status' = "dangling"
  BY <1>5 DEF PreviousOfEnd, Return, Halt
<1>6. ASSUME NEW k \in Keys, \/ find_or_create_table(k) \/ db_store_by_scope(k)
                             \/ db_update_by_scope(k) \/ SecondaryStoreRefused(k) \/ db_end_i64(k)
      PROVE  FALSE
  BY <1>6 DEF find_or_create_table, db_store_by_scope, db_update_by_scope,
              SecondaryStoreRefused, db_end_i64, Return, vars
<1>7. ASSUME NEW k \in Keys, NEW p \in Primaries,
             \/ db_store_i64(k, p) \/ StoreRefused(k, p) \/ SecondaryStore(k, p)
             \/ db_find_i64(k, p) \/ db_lowerbound_i64(k, p) \/ db_upperbound_i64(k, p)
      PROVE  FALSE
  BY <1>7 DEF db_store_i64, StoreRefused, find_or_create_table, SecondaryStore, db_find_i64,
              db_lowerbound_i64, db_upperbound_i64, Return
<1>8. ~(construct \/ start_undo_session \/ commit \/ undo \/ Halted)
  BY DEF construct, start_undo_session, commit, undo, Halted, vars
<1>9. Next
  BY DEF vars
<1> QED BY <1>3, <1>4, <1>5, <1>6, <1>7, <1>8, <1>9 DEF Next

(* No call with iterators that the caller holds reaches a removed object or  *)
(* the assertion of get_table; db_previous_i64 of an end iterator whose      *)
(* table went with its last row is the only one that is undefined.           *)
THEOREM CallsDefined ==
    ASSUME ~KeepCaches, ~RepeatIds
    PROVE  Spec => []OnlyDeadEndsFail
<1>1. Init => OnlyDeadEndsFail
  BY DEF Init, OnlyDeadEndsFail
<1>2. StoreInv /\ [Next]_vars /\ OnlyDeadEndsFail => OnlyDeadEndsFail'
  <2> SUFFICES ASSUME StoreInv, [Next]_vars, OnlyDeadEndsFail PROVE OnlyDeadEndsFail'
    OBVIOUS
  <2>1. CASE status' = status
    BY <2>1 DEF OnlyDeadEndsFail
  <2>2. CASE status' # status
    BY <2>2, StatusStep DEF OnlyDeadEndsFail
  <2> QED BY <2>1, <2>2
<1> QED BY <1>1, <1>2, StoreInvariant, PTL DEF Spec
=============================================================================
