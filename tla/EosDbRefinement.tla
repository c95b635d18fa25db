-------------------------- MODULE EosDbRefinement ---------------------------
(***************************************************************************)
(* EosDb implements TableStore.                                            *)
(***************************************************************************)
EXTENDS EosDbProofs

(***************************************************************************)
(* What a step does to the contents by name.                               *)
(***************************************************************************)
LEMMA ContentsOwned ==
    ASSUME NEW os, NEW k \in Keys
    PROVE  Contents(os)[k] = {os[a].primary : a \in OwnedBy(os, k)}
BY DEF Contents, OwnedBy, Live

LEMMA ContentsAdd ==
    ASSUME NEW os, NEW os2, NEW addrs, ElementsTyped(os, addrs), ElementsTyped(os2, addrs),
           NEW a \in addrs, os[a] = Null, os2[a] \in Elements,
           \A b \in addrs \ {a} : os2[b] = os[b]
    PROVE  Contents(os2) = [Contents(os) EXCEPT ![os2[a].owner] = @ \cup {os2[a].primary}]
<1> DEFINE o == os2[a].owner
           p == os2[a].primary
           c == Contents(os)
<1>1. Live(os2) = Live(os) \cup {a} /\ a \notin Live(os)
  BY OwnedAdd
<1>2. \A b \in Live(os) : os2[b] = os[b]
  BY <1>1, LiveElement
<1>3. o \in Keys
  BY ElementFields
<1>4. /\ OwnedBy(os2, o) = OwnedBy(os, o) \cup {a}
      /\ \A k : k # o => OwnedBy(os2, k) = OwnedBy(os, k)
      /\ \A k : \A b \in OwnedBy(os, k) : os2[b] = os[b]
  BY <1>1, <1>2 DEF OwnedBy
<1>5. Contents(os2)[o] = c[o] \cup {p}
  <2>1. Contents(os2)[o] = {os2[b].primary : b \in OwnedBy(os, o) \cup {a}}
    BY <1>3, <1>4, ContentsOwned
  <2>2. c[o] = {os2[b].primary : b \in OwnedBy(os, o)}
    BY <1>3, <1>4, ContentsOwned
  <2> QED BY <2>1, <2>2
<1>6. ASSUME NEW k \in Keys, k # o PROVE Contents(os2)[k] = c[k]
  <2>1. /\ Contents(os2)[k] = {os2[b].primary : b \in OwnedBy(os2, k)}
        /\ c[k] = {os[b].primary : b \in OwnedBy(os, k)}
    BY ContentsOwned
  <2>2. OwnedBy(os2, k) = OwnedBy(os, k) /\ \A b \in OwnedBy(os, k) : os2[b] = os[b]
    BY <1>4, <1>6
  <2> HIDE DEF c
  <2> QED BY <2>1, <2>2
<1>7. DOMAIN Contents(os2) = Keys /\ DOMAIN c = Keys
  BY DEF Contents
<1>8. Contents(os2) = [k \in Keys |-> Contents(os2)[k]]
  BY DEF Contents
<1> HIDE DEF c, o, p
<1> QED BY <1>3, <1>5, <1>6, <1>7, <1>8 DEF c, o, p

LEMMA ContentsRemove ==
    ASSUME NEW os, NEW os2, NEW addrs, ElementsTyped(os, addrs), ElementsTyped(os2, addrs),
           NEW a \in addrs, os[a] \in Elements, os2[a] = Null,
           \A b \in addrs \ {a} : os2[b] = os[b],
           \A b \in Live(os) : os[b].owner = os[a].owner /\ os[b].primary = os[a].primary => b = a
    PROVE  /\ Contents(os2) = [Contents(os) EXCEPT ![os[a].owner] = @ \ {os[a].primary}]
           /\ os[a].primary \in Contents(os)[os[a].owner]
           /\ Contents(os)[os[a].owner] = {os[a].primary} <=> OwnedBy(os2, os[a].owner) = {}
<1> DEFINE o == os[a].owner
           p == os[a].primary
           c == Contents(os)
<1>1. Live(os2) = Live(os) \ {a} /\ a \in Live(os)
  BY OwnedRemove
<1>2. \A b \in Live(os2) : os2[b] = os[b]
  BY <1>1, LiveElement
<1>3. o \in Keys
  BY ElementFields
<1>4. /\ OwnedBy(os2, o) = OwnedBy(os, o) \ {a} /\ a \in OwnedBy(os, o)
      /\ \A k : k # o => OwnedBy(os2, k) = OwnedBy(os, k)
      /\ \A k : \A b \in OwnedBy(os2, k) : os2[b] = os[b]
      /\ \A b \in OwnedBy(os, o) : os[b].primary = p => b = a
  BY <1>1, <1>2 DEF OwnedBy
<1>5. /\ Contents(os2)[o] = {os[b].primary : b \in OwnedBy(os, o) \ {a}}
      /\ c[o] = {os[b].primary : b \in OwnedBy(os, o)}
  BY <1>3, <1>4, ContentsOwned
<1>6. Contents(os2)[o] = c[o] \ {p} /\ p \in c[o]
  BY <1>4, <1>5
<1>7. c[o] = {p} <=> OwnedBy(os2, o) = {}
  BY <1>4, <1>5
<1>8. ASSUME NEW k \in Keys, k # o PROVE Contents(os2)[k] = c[k]
  <2>1. /\ Contents(os2)[k] = {os2[b].primary : b \in OwnedBy(os2, k)}
        /\ c[k] = {os[b].primary : b \in OwnedBy(os, k)}
    BY ContentsOwned
  <2>2. OwnedBy(os2, k) = OwnedBy(os, k) /\ \A b \in OwnedBy(os2, k) : os2[b] = os[b]
    BY <1>4, <1>8
  <2> HIDE DEF c
  <2> QED BY <2>1, <2>2
<1>9. DOMAIN Contents(os2) = Keys /\ DOMAIN c = Keys
  BY DEF Contents
<1>10. Contents(os2) = [k \in Keys |-> Contents(os2)[k]]
  BY DEF Contents
<1> HIDE DEF c, o, p
<1>11. Contents(os2) = [c EXCEPT ![o] = @ \ {p}]
  BY <1>3, <1>6, <1>8, <1>9, <1>10
<1> QED BY <1>6, <1>7, <1>11 DEF c, o, p

LEMMA MovedSame ==
    ASSUME NEW os, NEW os2, NEW m, Moves(m, os, os2)
    PROVE  Contents(os2) = Contents(os) /\ Named(os2) = Named(os)
<1>1. /\ \A b \in Live(os2) : \E a \in Live(os) : os2[b] = os[a]
      /\ \A a \in Live(os) : \E b \in Live(os2) : os2[b] = os[a]
  BY DEF Moves
<1>2. Named(os2) = Named(os)
  BY <1>1 DEF Named, Live
<1>3. ASSUME NEW k \in Keys PROVE Contents(os2)[k] = Contents(os)[k]
  <2>1. /\ Contents(os2)[k] = {os2[b].primary : b \in OwnedBy(os2, k)}
        /\ Contents(os)[k] = {os[b].primary : b \in OwnedBy(os, k)}
    BY ContentsOwned
  <2>2. \A b \in OwnedBy(os2, k) : \E a \in OwnedBy(os, k) : os2[b] = os[a]
    BY <1>1 DEF OwnedBy
  <2>3. \A a \in OwnedBy(os, k) : \E b \in OwnedBy(os2, k) : os2[b] = os[a]
    BY <1>1 DEF OwnedBy
  <2> QED BY <2>1, <2>2, <2>3
<1> QED BY <1>2, <1>3 DEF Contents

(* The names after a store into the table that was found or created. *)
LEMMA NamedStored ==
    ASSUME TypeInv, NEW k \in Keys, NEW f \in FoundOrCreated(k)
    PROVE  /\ Named(f.tables) = Named(tables) \cup {k}
           /\ find_table(k) = {} => k \notin Named(tables)
<1>1. Typed
  BY TypedFacts
<1>2. Named(tables) = {tables[a].key : a \in LiveTables}
  BY <1>1 DEF Named, Live, Typed
<1>3. /\ TablesTyped(f.tables) /\ f.at \in TableAddrs
      /\ f.tables[f.at] \in TableObjects /\ f.tables[f.at].key = k
      /\ \/ f.tables = tables /\ f.at \in LiveTables
         \/ Created(k, f)
  BY FoundShape DEF TablesTyped
<1>4. CASE f.tables = tables /\ f.at \in LiveTables
  BY <1>2, <1>3, <1>4 DEF find_table
<1>5. CASE Created(k, f)
  <2>1. /\ f.at \notin LiveTables /\ \A a \in TableAddrs \ {f.at} : f.tables[a] = tables[a]
    BY <1>5 DEF Created
  <2>2. f.tables[f.at] # Null
    BY <1>3, NullAssumption
  <2>3. Live(f.tables) = LiveTables \cup {f.at} /\ \A a \in LiveTables : f.tables[a] = tables[a]
    BY <1>3, <2>1, <2>2, LiveTable DEF LiveTables
  <2>4. Named(f.tables) = {f.tables[a].key : a \in LiveTables \cup {f.at}}
    BY <2>3 DEF Named, Live
  <2> QED BY <1>2, <1>3, <2>3, <2>4 DEF find_table
<1> QED BY <1>3, <1>4, <1>5

LEMMA NamedCounted ==
    ASSUME NEW ts, NEW ts2, Live(ts2) = Live(ts), \A b \in Live(ts) : ts2[b].key = ts[b].key
    PROVE  Named(ts2) = Named(ts)
BY DEF Named, Live

LEMMA CountedNames ==
    ASSUME TypeInv, NEW k \in Keys, NEW f \in FoundOrCreated(k), NEW ts, CountsOne(f, k, ts)
    PROVE  Named(ts) = Named(tables) \cup {k}
<1>1. TablesTyped(f.tables) /\ TablesTyped(ts) /\ f.tables[f.at].key = k
      /\ f.at \in TableAddrs /\ f.tables[f.at] \in TableObjects
  BY FoundShape DEF TablesTyped, CountsOne
<1>2. /\ ts[f.at] \in TableObjects /\ ts[f.at].key = k
      /\ \A b \in TableAddrs \ {f.at} : ts[b] = f.tables[b]
  BY DEF CountsOne
<1>3. /\ Live(ts) = {b \in TableAddrs : ts[b] # Null}
      /\ Live(f.tables) = {b \in TableAddrs : f.tables[b] # Null}
  BY <1>1, LiveTable
<1>4. ts[f.at] # Null /\ f.tables[f.at] # Null
  BY <1>1, <1>2, NullAssumption
<1>5. Live(ts) = Live(f.tables)
  BY <1>1, <1>2, <1>3, <1>4
<1>6. \A b \in Live(f.tables) : ts[b].key = f.tables[b].key
  BY <1>1, <1>2, <1>3
<1>7. Named(ts) = Named(f.tables)
  BY <1>5, <1>6, NamedCounted
<1> QED BY <1>7, NamedStored

LEMMA SavedRemoved ==
    ASSUME StoreInv, NEW S, Removed(S)
    PROVE  Saved(session') = Saved(session)
<1>1. CASE session = Null
  BY <1>1 DEF Removed
<1>2. CASE session # Null
  <2>1. session' = [session EXCEPT !.kept = session.kept \ S]
    BY <1>2 DEF Removed
  <2>2. /\ DOMAIN session = {"tables", "rows", "entries", "kept"}
        /\ session.kept \subseteq TableAddrs \cup RowAddrs \cup EntryAddrs
        /\ session.tables \in [TableAddrs -> TableObjects \cup {Null}]
        /\ session.rows \in [RowAddrs -> Elements \cup {Null}]
        /\ session.entries \in [EntryAddrs -> Elements \cup {Null}]
    BY <1>2 DEF StoreInv, DenoteInv, TypeInv, TypeOK, SessionTyped
  <2>3. /\ session'.tables = session.tables
        /\ session'.rows = session.rows /\ session'.entries = session.entries
    BY <2>1, <2>2
  <2>4. session' # Null
    <3>1. session' \in Snapshots
      BY <2>1, <2>2 DEF Snapshots
    <3> QED BY <3>1, NullAssumption
  <2> QED BY <1>2, <2>3, <2>4 DEF Saved
<1> QED BY <1>1, <1>2

-----------------------------------------------------------------------------
(***************************************************************************)
(* Every step is one of TableStore.                                        *)
(***************************************************************************)
LEMMA StoreRowImplements ==
    ASSUME StoreInv, NEW k \in Keys, NEW p \in Primaries, db_store_i64(k, p)
    PROVE  TS!StoreRow(k, p)
<1>0. TypeInv /\ Typed
  BY TypedFacts DEF StoreInv, DenoteInv
<1>1. PICK f \in FoundOrCreated(k), a \in RowAddrs \ LiveRows :
          LET x == [t_id |-> f.tables[f.at].id, primary |-> p, owner |-> k]
          IN  /\ \A b \in LiveRows : rows[b].primary # p
              /\ rows' = [rows EXCEPT ![a] = x]
              /\ tables' = [f.tables EXCEPT ![f.at].count = Counted(@, 1)]
              /\ UNCHANGED <<entries, session>>
  BY DEF db_store_i64
<1> DEFINE x == [t_id |-> f.tables[f.at].id, primary |-> p, owner |-> k]
<1>2. x \in Elements /\ CountsOne(f, k, tables')
  BY <1>0, <1>1, StoredElement, StoreTables
<1>3. Named(tables') = Named(tables) \cup {k}
  BY <1>0, <1>2, CountedNames
<1>4. x.primary = p /\ x.owner = k
  OBVIOUS
<1> HIDE DEF x
<1>5. /\ a \in RowAddrs /\ rows[a] = Null /\ rows'[a] = x
      /\ \A b \in RowAddrs \ {a} : rows'[b] = rows[b]
      /\ ElementsTyped(rows', RowAddrs) /\ ElementsTyped(rows, RowAddrs)
  BY <1>0, <1>1, <1>2 DEF x, Typed, ElementsTyped, LiveRows
<1>6. Contents(rows') = [Contents(rows) EXCEPT ![k] = @ \cup {p}]
  BY <1>2, <1>4, <1>5, ContentsAdd
<1>7. \A j \in Keys : p \notin Contents(rows)[j]
  <2>1. \A b \in Live(rows) : rows[b].primary # p
    BY <1>0, <1>1 DEF Typed
  <2> QED BY <2>1, ContentsOwned DEF OwnedBy
<1> QED BY <1>1, <1>3, <1>6, <1>7 DEF TS!StoreRow

LEMMA StoreEntryImplements ==
    ASSUME StoreInv, ~RepeatIds, NEW k \in Keys, NEW p \in Primaries, SecondaryStore(k, p)
    PROVE  TS!StoreEntry(k, p)
<1>0. TypeInv /\ Typed
  BY TypedFacts DEF StoreInv, DenoteInv
<1>1. PICK f \in FoundOrCreated(k), a \in EntryAddrs \ LiveEntries :
          LET x == [t_id |-> f.tables[f.at].id, primary |-> p, owner |-> k]
          IN  /\ \A b \in LiveEntries : entries[b].primary # p \/ entries[b].t_id # x.t_id
              /\ entries' = [entries EXCEPT ![a] = x]
              /\ tables' = [f.tables EXCEPT ![f.at].count = Counted(@, 1)]
              /\ UNCHANGED <<rows, session>>
  BY DEF SecondaryStore
<1> DEFINE x == [t_id |-> f.tables[f.at].id, primary |-> p, owner |-> k]
<1>2. x \in Elements /\ CountsOne(f, k, tables')
  BY <1>0, <1>1, StoredElement, StoreTables
<1>3. Named(tables') = Named(tables) \cup {k}
  BY <1>0, <1>2, CountedNames
<1>4. x.primary = p /\ x.owner = k
  OBVIOUS
<1>5. \A b \in Live(entries) : entries[b].owner # k \/ entries[b].primary # p
  <2>1. \A b \in Live(entries) : entries[b].primary # p \/ entries[b].t_id # f.tables[f.at].id
    BY <1>0, <1>1 DEF Typed
  <2>2. /\ Homed(f.tables, entries) /\ UniqueTables(f.tables)
        /\ f.at \in Live(f.tables) /\ f.tables[f.at].key = k
    BY SoundFound DEF Sound
  <2> QED BY <2>1, <2>2 DEF Homed, UniqueTables
<1> HIDE DEF x
<1>6. /\ a \in EntryAddrs /\ entries[a] = Null /\ entries'[a] = x
      /\ \A b \in EntryAddrs \ {a} : entries'[b] = entries[b]
      /\ ElementsTyped(entries', EntryAddrs) /\ ElementsTyped(entries, EntryAddrs)
  BY <1>0, <1>1, <1>2 DEF x, Typed, ElementsTyped, LiveEntries
<1>7. Contents(entries') = [Contents(entries) EXCEPT ![k] = @ \cup {p}]
  BY <1>2, <1>4, <1>6, ContentsAdd
<1>8. p \notin Contents(entries)[k]
  BY <1>5, ContentsOwned DEF OwnedBy
<1> QED BY <1>1, <1>3, <1>7, <1>8 DEF TS!StoreEntry

LEMMA RemoveRowImplements ==
    ASSUME StoreInv, NEW i \in Held(keyval), RowRemoved(i)
    PROVE  \E k \in Keys, p \in Primaries : TS!RemoveRow(k, p)
<1> DEFINE g == get(keyval, i)
           a == TableOf(keyval, rows, i)
           n == Counted(tables[a].count, -1)
           k == rows[g].owner
           p == rows[g].primary
<1>0. /\ TypeInv /\ Typed /\ IdsKnown(keyval, rows) /\ Denoting(keyval, rows)
      /\ Sound(tables, rows, entries) /\ TablesKnown(keyval, tables)
      /\ CacheTyped(keyval, RowAddrs) /\ TablesTyped(tables)
      /\ ElementsTyped(rows, RowAddrs) /\ ElementsTyped(entries, EntryAddrs)
  BY TypedFacts DEF StoreInv, DenoteInv, IteratorsDenote, Typed
<1>1. /\ rows' \in [RowAddrs -> Elements \cup {Null}]
      /\ rows'[g] = Null /\ (\A b \in RowAddrs \ {g} : rows'[b] = rows[b])
      /\ tables' \in [TableAddrs -> TableObjects \cup {Null}]
      /\ n = 0 => tables'[a] = Null
      /\ n # 0 => /\ tables'[a] \in TableObjects /\ tables'[a].id = tables[a].id
                  /\ tables'[a].key = tables[a].key /\ tables'[a].count = n
      /\ \A b \in TableAddrs \ {a} : tables'[b] = tables[b]
  BY <1>0, RowRemovedShape
<1>2. UNCHANGED entries /\ \E S : Removed(S)
  BY <1>0, RowRemovedShape
<1>3. a = keyval.tables[rows[g].t_id].table
  BY DEF TableOf
<1>4. /\ g \in RowAddrs /\ rows[g] \in Elements
      /\ a \in Live(tables) /\ tables[a].key = k
  <2>1. Homed(tables, rows)
    BY <1>0 DEF Sound
  <2> QED BY <1>0, <1>3, <2>1, HomeReached
<1>5. k \in Keys /\ p \in Primaries
  BY <1>4, ElementFields
<1>6. ElementsTyped(rows', RowAddrs) /\ TablesTyped(tables')
  BY <1>0, <1>1 DEF ElementsTyped, TablesTyped
<1>7. n = 0 <=> (OwnedBy(rows', k) = {} /\ OwnedBy(entries, k) = {})
  <2> HIDE DEF a, g, n
  <2>1. /\ UniqueTables(tables) /\ Homed(tables, rows) /\ Homed(tables, entries)
        /\ Counting(tables, rows, entries)
    BY <1>0 DEF Sound
  <2>2. n = Counted(tables[a].count, -1)
    BY DEF n
  <2>3. \/ tables'[a] = Null /\ n = 0
        \/ /\ tables'[a] \in TableObjects /\ tables'[a].id = tables[a].id
           /\ tables'[a].key = tables[a].key /\ tables'[a].count = n
    BY <1>1
  <2>4. rows[g].owner = tables[a].key /\ a \in Live(tables) /\ g \in RowAddrs /\ rows[g] \in Elements
    BY <1>4
  <2>5. Cardinality(RowAddrs) + Cardinality(EntryAddrs) < CountModulus
    BY RoomForCounts
  <2>6. ZeroWhenEmpty(n, rows', entries, tables[a].key)
    <3> HIDE DEF k, p
    <3> QED BY <1>0, <1>1, <1>6, <2>1, <2>2, <2>3, <2>4, <2>5, RemoveCounting
  <2> QED BY <2>4, <2>6 DEF ZeroWhenEmpty
<1> HIDE DEF a, g, n
<1>8. /\ Contents(rows') = [Contents(rows) EXCEPT ![k] = @ \ {p}]
      /\ p \in Contents(rows)[k]
      /\ Contents(rows)[k] = {p} <=> OwnedBy(rows', k) = {}
  <2>1. \A b \in Live(rows) : rows[b].owner = rows[g].owner /\ rows[b].primary = rows[g].primary => b = g
    <3>1. g \in Live(rows)
      BY <1>0, <1>4, LiveElement, ElementFields
    <3> QED BY <1>0, <3>1 DEF Sound, UniqueRows
  <2> QED BY <1>0, <1>1, <1>4, <1>6, <2>1, ContentsRemove
<1>9. Contents(entries)[k] = {} <=> OwnedBy(entries, k) = {}
  BY <1>5, ContentsOwned
<1> HIDE DEF k, p
<1>10. Named(tables') = IF n = 0 THEN Named(tables) \ {k} ELSE Named(tables)
  <2>1. /\ Named(tables) = {tables[b].key : b \in Live(tables)}
        /\ Named(tables') = {tables'[b].key : b \in Live(tables')}
    BY DEF Named, Live
  <2>2. /\ Live(tables) = {b \in TableAddrs : tables[b] # Null}
        /\ Live(tables') = {b \in TableAddrs : tables'[b] # Null}
    BY <1>0, <1>6, LiveTable
  <2>3. CASE n = 0
    <3>1. Live(tables') = Live(tables) \ {a}
      BY <1>1, <1>4, <2>2, <2>3
    <3>2. \A b \in Live(tables') : tables'[b] = tables[b]
      BY <1>1, <2>2, <3>1
    <3>3. \A b \in Live(tables) : tables[b].key = k => b = a
      BY <1>0, <1>4 DEF Sound, UniqueTables
    <3> QED BY <1>4, <2>1, <2>3, <3>1, <3>2, <3>3
  <2>4. CASE n # 0
    <3>1. Live(tables') = Live(tables)
      BY <1>1, <1>4, <2>2, <2>4, NullAssumption
    <3>2. \A b \in Live(tables) : tables'[b].key = tables[b].key
      BY <1>1, <2>2, <2>4
    <3> QED BY <2>4, <3>1, <3>2, NamedCounted
  <2> QED BY <2>3, <2>4
<1>11. Saved(session') = Saved(session)
  BY <1>2, SavedRemoved
<1>12. TS!RemoveRow(k, p)
  BY <1>2, <1>7, <1>8, <1>9, <1>10, <1>11 DEF TS!RemoveRow
<1> QED BY <1>5, <1>12

LEMMA RemoveEntryImplements ==
    ASSUME StoreInv, NEW i \in Held(idx), EntryRemoved(i)
    PROVE  \E k \in Keys, p \in Primaries : TS!RemoveEntry(k, p)
<1> DEFINE g == get(idx, i)
           a == TableOf(idx, entries, i)
           k == entries[g].owner
           p == entries[g].primary
<1>0. /\ TypeInv /\ Typed /\ IdsKnown(idx, entries) /\ Denoting(idx, entries)
      /\ Sound(tables, rows, entries) /\ TablesKnown(idx, tables)
      /\ CacheTyped(idx, EntryAddrs) /\ TablesTyped(tables) /\ ElementsTyped(entries, EntryAddrs)
  BY TypedFacts DEF StoreInv, DenoteInv, IteratorsDenote, Typed
<1>1. /\ entries' \in [EntryAddrs -> Elements \cup {Null}]
      /\ entries'[g] = Null /\ (\A b \in EntryAddrs \ {g} : entries'[b] = entries[b])
      /\ tables' \in [TableAddrs -> TableObjects \cup {Null}]
      /\ tables'[a] \in TableObjects /\ tables'[a].key = tables[a].key
      /\ \A b \in TableAddrs \ {a} : tables'[b] = tables[b]
  BY <1>0, EntryRemovedShape
<1>2. UNCHANGED rows /\ \E S : Removed(S)
  BY <1>0, EntryRemovedShape
<1>3. a = idx.tables[entries[g].t_id].table
  BY DEF TableOf
<1>4. /\ g \in EntryAddrs /\ entries[g] \in Elements /\ a \in Live(tables)
  <2>1. Homed(tables, entries)
    BY <1>0 DEF Sound
  <2> QED BY <1>0, <1>3, <2>1, HomeReached
<1>5. k \in Keys /\ p \in Primaries
  BY <1>4, ElementFields
<1>6. ElementsTyped(entries', EntryAddrs) /\ TablesTyped(tables')
  BY <1>0, <1>1 DEF ElementsTyped, TablesTyped
<1> HIDE DEF a, g
<1>7. /\ Contents(entries') = [Contents(entries) EXCEPT ![k] = @ \ {p}]
      /\ p \in Contents(entries)[k]
  <2>1. \A b \in Live(entries) :
          entries[b].owner = entries[g].owner /\ entries[b].primary = entries[g].primary => b = g
    <3>1. g \in Live(entries)
      BY <1>0, <1>4, LiveElement, ElementFields
    <3> QED BY <1>0, <3>1 DEF Sound, UniqueEntries
  <2> QED BY <1>0, <1>1, <1>4, <1>6, <2>1, ContentsRemove
<1> HIDE DEF k, p
<1>8. Named(tables') = Named(tables)
  <2>0. /\ Live(tables) = {b \in TableAddrs : tables[b] # Null}
        /\ Live(tables') = {b \in TableAddrs : tables'[b] # Null}
    BY <1>0, <1>6, LiveTable
  <2>1. Live(tables') = Live(tables)
    <3>1. tables'[a] # Null
      BY <1>1, NullAssumption
    <3> QED BY <1>1, <1>4, <2>0, <3>1
  <2>2. \A b \in Live(tables) : tables'[b].key = tables[b].key
    BY <1>0, <1>1, LiveTable
  <2> QED BY <2>1, <2>2, NamedCounted
<1>9. Saved(session') = Saved(session)
  BY <1>2, SavedRemoved
<1>10. TS!RemoveEntry(k, p)
  BY <1>2, <1>7, <1>8, <1>9 DEF TS!RemoveEntry
<1> QED BY <1>5, <1>10

LEMMA CreateImplements ==
    ASSUME StoreInv, NEW k \in Keys, TableCreated(k)
    PROVE  TS!Create(k)
<1>1. PICK f \in FoundOrCreated(k) : tables' = f.tables
  BY DEF TableCreated
<1>2. find_table(k) = {} /\ UNCHANGED <<rows, entries, session>>
  BY DEF TableCreated
<1>3. TypeInv
  BY DEF StoreInv, DenoteInv
<1>4. Named(tables') = Named(tables) \cup {k} /\ k \notin Named(tables)
  BY <1>1, <1>2, <1>3, NamedStored
<1> QED BY <1>2, <1>4 DEF TS!Create

LEMMA StartImplements ==
    ASSUME StoreInv, start_undo_session
    PROVE  TS!Start
<1>1. /\ session = Null /\ UNCHANGED <<tables, rows, entries>>
      /\ session' = [tables |-> tables, rows |-> rows, entries |-> entries,
                     kept |-> LiveTables \cup LiveRows \cup LiveEntries]
  BY DEF start_undo_session
<1>2. session' # Null
  <2>1. /\ tables \in [TableAddrs -> TableObjects \cup {Null}]
        /\ rows \in [RowAddrs -> Elements \cup {Null}]
        /\ entries \in [EntryAddrs -> Elements \cup {Null}]
        /\ LiveTables \cup LiveRows \cup LiveEntries \subseteq TableAddrs \cup RowAddrs \cup EntryAddrs
    BY TypeFacts DEF StoreInv, DenoteInv
  <2>2. session' \in Snapshots
    BY <1>1, <2>1 DEF Snapshots
  <2> QED BY <2>2, NullAssumption
<1>3. /\ Saved(session) = <<>>
      /\ Saved(session') = <<[names |-> Named(tables), rows |-> Contents(rows),
                              entries |-> Contents(entries)]>>
  BY <1>1, <1>2 DEF Saved
<1> QED BY <1>1, <1>3 DEF TS!Start

LEMMA CommitImplements ==
    ASSUME commit
    PROVE  TS!Commit
<1>1. session # Null /\ session' = Null /\ UNCHANGED <<tables, rows, entries>>
  BY DEF commit
<1>2. Saved(session) # <<>> /\ Saved(session') = <<>>
  BY <1>1 DEF Saved
<1> QED BY <1>1, <1>2 DEF TS!Commit

LEMMA UndoImplements ==
    ASSUME StoreInv, undo
    PROVE  TS!Undo
<1>1. /\ session.tables \in [TableAddrs -> TableObjects \cup {Null}]
      /\ session.rows \in [RowAddrs -> Elements \cup {Null}]
      /\ session.entries \in [EntryAddrs -> Elements \cup {Null}]
      /\ session # Null /\ session' = Null
  BY DEF undo, StoreInv, DenoteInv, TypeInv, SessionTyped
<1>2. PICK pt \in Reinsertions(session.tables) : tables' = Restored(session.tables, pt)
  BY DEF undo
<1>3. PICK pr \in Reinsertions(session.rows) : rows' = Restored(session.rows, pr)
  BY DEF undo
<1>4. PICK pe \in Reinsertions(session.entries) : entries' = Restored(session.entries, pe)
  BY DEF undo
<1>5. Named(tables') = Named(session.tables)
  <2>1. PICK m : Moves(m, session.tables, tables')
    BY <1>1, <1>2, RestoredMoves
  <2> QED BY <2>1, MovedSame
<1>6. Contents(rows') = Contents(session.rows)
  <2>1. PICK m : Moves(m, session.rows, rows')
    BY <1>1, <1>3, RestoredMoves
  <2> QED BY <2>1, MovedSame
<1>7. Contents(entries') = Contents(session.entries)
  <2>1. PICK m : Moves(m, session.entries, entries')
    BY <1>1, <1>4, RestoredMoves
  <2> QED BY <2>1, MovedSame
<1>8. /\ Saved(session') = <<>> /\ Saved(session) # <<>>
      /\ Head(Saved(session)) = [names |-> Named(session.tables), rows |-> Contents(session.rows),
                                 entries |-> Contents(session.entries)]
  BY <1>1 DEF Saved
<1> QED BY <1>5, <1>6, <1>7, <1>8 DEF TS!Undo

LEMMA StepImplements ==
    ASSUME ~KeepCaches, ~RepeatIds
    PROVE  StoreInv /\ [Next]_vars => [TS!Next]_(TS!vars)
<1> SUFFICES ASSUME StoreInv, [Next]_vars PROVE TS!Next
  OBVIOUS
<1>0. Steps
  BY StepKinds DEF StoreInv, DenoteInv
<1>1. CASE UNCHANGED <<tables, rows, entries, session>>
  <2>1. TS!Query
    BY <1>1 DEF TS!Query, TS!vars
  <2> QED BY <2>1 DEF TS!Next
<1>2. UNCHANGED vars \/ Asked \/ Failed \/ construct => UNCHANGED <<tables, rows, entries, session>>
  BY DEF vars, Asked, Failed, Halt, construct
<1>3. ASSUME NEW k \in Keys, TableCreated(k) PROVE TS!Next
  BY <1>3, CreateImplements DEF TS!Next
<1>4. ASSUME NEW k \in Keys, NEW p \in Primaries, db_store_i64(k, p) PROVE TS!Next
  BY <1>4, StoreRowImplements DEF TS!Next
<1>5. ASSUME NEW k \in Keys, NEW p \in Primaries, SecondaryStore(k, p) PROVE TS!Next
  BY <1>5, StoreEntryImplements DEF TS!Next
<1>6. ASSUME NEW i \in Held(keyval), RowRemoved(i) PROVE TS!Next
  BY <1>6, RemoveRowImplements DEF TS!Next
<1>7. ASSUME NEW i \in Held(idx), EntryRemoved(i) PROVE TS!Next
  BY <1>7, RemoveEntryImplements DEF TS!Next
<1>8. CASE start_undo_session
  BY <1>8, StartImplements DEF TS!Next
<1>9. CASE commit
  BY <1>9, CommitImplements DEF TS!Next
<1>10. CASE undo
  BY <1>10, UndoImplements DEF TS!Next
<1> QED BY <1>0, <1>1, <1>2, <1>3, <1>4, <1>5, <1>6, <1>7, <1>8, <1>9, <1>10 DEF Steps

LEMMA InitImplements == Init => TS!Init
<1> SUFFICES ASSUME Init PROVE TS!Init
  OBVIOUS
<1>1. /\ \A a \in DOMAIN tables : tables[a] = Null
      /\ \A a \in DOMAIN rows : rows[a] = Null
      /\ \A a \in DOMAIN entries : entries[a] = Null
      /\ session = Null
  BY DEF Init
<1> QED BY <1>1 DEF TS!Init, Named, Contents, Saved

(* Tables found by id through caches, counts that decide when one goes, and  *)
(* objects that undo may put back at other addresses implement the store of  *)
(* named tables, as long as no new table gets an id that a cache still knows *)
(* and an eos_db object is not used on after an undo.                        *)
THEOREM EosDbImplementsTables ==
    ASSUME ~KeepCaches, ~RepeatIds
    PROVE  Spec => Implements
<1>1. Init => TS!Init
  BY InitImplements
<1>2. StoreInv /\ [Next]_vars => [TS!Next]_(TS!vars)
  BY StepImplements
<1>3. Spec => []StoreInv
  BY StoreInvariant
<1> QED BY <1>1, <1>2, <1>3, PTL DEF Spec, Implements, TS!Spec

=============================================================================
