------------------------- MODULE DatabaseRefinement -------------------------
(***************************************************************************)
(* The database implements DatabaseStore: a loop over the indices takes    *)
(* effect at its last iteration, in all tables at once.                    *)
(***************************************************************************)
EXTENDS DatabaseProofs

(* Sound indices with one revision range, and what they are together. *)
Family(x) ==
    /\ \A t \in Types : SoundIndex(x[t])
    /\ \A t, u \in Types : SameRange(x[t], x[u])

TablesOf(x) == [t \in Types |-> x[t].table]

HistoryOf(x) ==
    [i \in 1 .. Len(x[AnyType].history) |->
        [t \in Types |-> SessionTable(x[t].history, i)]]

(* There is an index type. *)
LEMMA AnyTypeType == AnyType \in Types
BY TypesAssumption DEF AnyType

(* Indices in step have stacks of one length, which is that of their common one. *)
LEMMA FamilyFacts ==
    ASSUME NEW x, Family(x)
    PROVE  LET n == Len(x[AnyType].history) IN
             /\ n \in Nat /\ x[AnyType].revision \in Nat
             /\ \A t \in Types : /\ x[t] \in IndexRecords /\ SoundIndex(x[t])
                                 /\ x[t].table \in Tables /\ x[t].history \in Seq(Tables)
                                 /\ Len(x[t].history) = n
                                 /\ x[t].history = <<>> <=> n = 0
                                 /\ x[t].revision = x[AnyType].revision
                                 /\ RangeBegin(x[t]) = x[AnyType].revision - n
             /\ TablesOf(x) \in [Types -> Tables]
             /\ HistoryOf(x) \in Seq([Types -> Tables])
             /\ Len(HistoryOf(x)) = n
             /\ \A i \in 1 .. n : HistoryOf(x)[i] = [t \in Types |-> x[t].history[i]]
             /\ HistoryOf(x) = <<>> <=> n = 0
<1> DEFINE n == Len(x[AnyType].history)
<1>1. /\ SoundIndex(x[AnyType]) /\ n \in Nat /\ x[AnyType].revision \in Nat
      /\ x[AnyType].history \in Seq(Tables)
  BY AnyTypeType, IndexFacts DEF Family
<1>2. ASSUME NEW t \in Types
      PROVE  /\ x[t] \in IndexRecords /\ SoundIndex(x[t])
             /\ x[t].table \in Tables /\ x[t].history \in Seq(Tables)
             /\ Len(x[t].history) = n
             /\ x[t].history = <<>> <=> n = 0
             /\ x[t].revision = x[AnyType].revision
             /\ RangeBegin(x[t]) = x[AnyType].revision - n
  <2>1. SoundIndex(x[t]) /\ SameRange(x[t], x[AnyType])
    BY AnyTypeType DEF Family
  <2>2. /\ x[t] \in IndexRecords /\ x[t].table \in Tables /\ x[t].history \in Seq(Tables)
        /\ x[t].revision \in Nat /\ Len(x[t].history) \in Nat
        /\ x[t].history = <<>> <=> Len(x[t].history) = 0
    BY <2>1, IndexFacts
  <2>3. x[t].revision = x[AnyType].revision
        /\ x[t].revision - Len(x[t].history) = x[AnyType].revision - n
    BY <2>1 DEF SameRange, RangeBegin
  <2>4. Len(x[t].history) = n
    BY <1>1, <2>2, <2>3
  <2> QED BY <2>1, <2>2, <2>3, <2>4 DEF RangeBegin
<1>3. TablesOf(x) \in [Types -> Tables]
  BY <1>2 DEF TablesOf
<1> DEFINE h == HistoryOf(x)
<1>4. h = [i \in 1 .. n |-> [t \in Types |-> x[t].history[i]]]
  <2>1. h = [i \in 1 .. n |-> [t \in Types |-> SessionTable(x[t].history, i)]]
    BY DEF HistoryOf
  <2> HIDE DEF n, h
  <2>2. ASSUME NEW i \in 1 .. n, NEW t \in Types
        PROVE  SessionTable(x[t].history, i) = x[t].history[i]
    <3>1. x[t].history \in Seq(Tables) /\ Len(x[t].history) = n
      BY <1>2
    <3>2. i \in DOMAIN x[t].history
      BY <3>1
    <3> QED BY <3>2 DEF SessionTable
  <2>3. \A i \in 1 .. n : [t \in Types |-> SessionTable(x[t].history, i)]
                            = [t \in Types |-> x[t].history[i]]
    BY <2>2
  <2> QED BY <2>1, <2>3
<1> HIDE DEF n, h
<1>5. ASSUME NEW i \in 1 .. n PROVE [t \in Types |-> x[t].history[i]] \in [Types -> Tables]
  <2>1. \A t \in Types : x[t].history[i] \in Tables
    BY <1>2
  <2> QED BY <2>1
<1>6. h \in [1 .. n -> [Types -> Tables]]
  BY <1>4, <1>5
<1>7. h \in Seq([Types -> Tables]) /\ Len(h) = n
  BY <1>1, <1>6
<1>8. h = <<>> <=> n = 0
  BY <1>7, EmptySeq
<1> QED BY <1>1, <1>2, <1>3, <1>4, <1>7, <1>8 DEF n, h

(* Two families with the same histories, one by one, have the same history. *)
LEMMA SameHistory ==
    ASSUME NEW x, NEW y, Family(x), Family(y),
           \A t \in Types : x[t].history = y[t].history
    PROVE  HistoryOf(x) = HistoryOf(y)
BY AnyTypeType DEF HistoryOf

(* The same of the tables. *)
LEMMA SameTables ==
    ASSUME NEW x, NEW y, \A t \in Types : x[t].table = y[t].table
    PROVE  TablesOf(x) = TablesOf(y)
BY DEF TablesOf

-----------------------------------------------------------------------------
(***************************************************************************)
(* What a whole loop does to the indices together.                         *)
(***************************************************************************)

(* start_undo_session puts all tables on the common stack. *)
LEMMA StartAll ==
    ASSUME NEW x, NEW y, Family(x), Family(y), \A t \in Types : y[t] = StartOne(x[t])
    PROVE  /\ TablesOf(y) = TablesOf(x)
           /\ HistoryOf(y) = Append(HistoryOf(x), TablesOf(x))
           /\ y[AnyType].revision = x[AnyType].revision + 1
<1> DEFINE n == Len(x[AnyType].history)
           a == Append(HistoryOf(x), TablesOf(x))
           S == [Types -> Tables]
<1>1. ASSUME NEW t \in Types
      PROVE  /\ y[t].table = x[t].table /\ y[t].history = Append(x[t].history, x[t].table)
             /\ y[t].revision = x[t].revision + 1
             /\ x[t].history \in Seq(Tables) /\ x[t].table \in Tables
             /\ Len(x[t].history) = n
  <2>1. /\ x[t] \in IndexRecords /\ x[t].history \in Seq(Tables) /\ x[t].table \in Tables
        /\ Len(x[t].history) = n
    BY FamilyFacts
  <2>2. y[t] = [table |-> x[t].table, history |-> Append(x[t].history, x[t].table),
                revision |-> x[t].revision + 1]
    BY <2>1, StartShape
  <2> QED BY <2>1, <2>2
<1>2. /\ n \in Nat /\ HistoryOf(x) \in Seq(S) /\ TablesOf(x) \in S /\ Len(HistoryOf(x)) = n
      /\ \A i \in 1 .. n : HistoryOf(x)[i] = [t \in Types |-> x[t].history[i]]
  BY FamilyFacts
<1> HIDE DEF n, S
<1>3. a \in Seq(S) /\ Len(a) = n + 1 /\ a[n + 1] = TablesOf(x)
      /\ \A i \in 1 .. n : a[i] = HistoryOf(x)[i]
  BY <1>2, AppendSeq
<1> HIDE DEF a
<1>4. Len(y[AnyType].history) = n + 1
  <2>1. /\ x[AnyType].history \in Seq(Tables) /\ x[AnyType].table \in Tables
        /\ y[AnyType].history = Append(x[AnyType].history, x[AnyType].table)
        /\ Len(x[AnyType].history) = n
    BY <1>1, AnyTypeType
  <2> QED BY <2>1, AppendSeq
<1>5. /\ HistoryOf(y) \in Seq(S) /\ Len(HistoryOf(y)) = n + 1
      /\ \A i \in 1 .. n + 1 : HistoryOf(y)[i] = [t \in Types |-> y[t].history[i]]
  <2>1. Len(y[AnyType].history) = n + 1
    BY <1>4, AnyTypeType
  <2>2. LET k == Len(y[AnyType].history) IN
          /\ HistoryOf(y) \in Seq([Types -> Tables]) /\ Len(HistoryOf(y)) = k
          /\ \A i \in 1 .. k : HistoryOf(y)[i] = [t \in Types |-> y[t].history[i]]
    BY FamilyFacts
  <2> QED BY <2>1, <2>2 DEF S
<1>6. ASSUME NEW i \in 1 .. n + 1 PROVE HistoryOf(y)[i] = a[i]
  <2>1. CASE i = n + 1
    <3>1. \A t \in Types : y[t].history[i] = x[t].table
      BY <1>1, <2>1, AppendSeq
    <3>2. HistoryOf(y)[i] = [t \in Types |-> x[t].table]
      BY <1>5, <3>1
    <3> QED BY <1>3, <2>1, <3>2 DEF TablesOf
  <2>2. CASE i # n + 1
    <3>1. i \in 1 .. n
      BY <1>2, <2>2
    <3>2. \A t \in Types : y[t].history[i] = x[t].history[i]
      BY <1>1, <3>1, AppendSeq
    <3>3. HistoryOf(y)[i] = [t \in Types |-> x[t].history[i]]
      BY <1>5, <3>2
    <3> QED BY <1>2, <1>3, <3>1, <3>3
  <2> QED BY <2>1, <2>2
<1>7. HistoryOf(y) = a
  BY <1>2, <1>3, <1>5, <1>6, SeqEqual
<1>8. TablesOf(y) = TablesOf(x)
  BY <1>1, SameTables
<1> QED BY <1>1, <1>7, <1>8, AnyTypeType DEF a

(* undo and squash take the newest session off the common stack. *)
LEMMA PopAll ==
    ASSUME NEW x, NEW y, Family(x), Family(y), HistoryOf(x) # <<>>,
           \A t \in Types : y[t].history = Front(x[t].history)
    PROVE  /\ Len(HistoryOf(x)) >= 1
           /\ HistoryOf(y) = SubSeq(HistoryOf(x), 1, Len(HistoryOf(x)) - 1)
           /\ HistoryOf(x)[Len(HistoryOf(x))] = [t \in Types |-> Last(x[t].history)]
<1> DEFINE n == Len(x[AnyType].history)
           S == [Types -> Tables]
           h == HistoryOf(x)
           s == SubSeq(h, 1, n - 1)
<1>1. /\ n \in Nat /\ n # 0 /\ h \in Seq(S) /\ Len(h) = n
      /\ \A i \in 1 .. n : h[i] = [t \in Types |-> x[t].history[i]]
      /\ \A t \in Types : /\ x[t].history \in Seq(Tables) /\ Len(x[t].history) = n
                          /\ x[t].history # <<>>
  BY FamilyFacts
<1> HIDE DEF n, S, h
<1>2. ASSUME NEW t \in Types
      PROVE  /\ Len(y[t].history) = n - 1
             /\ \A i \in 1 .. n - 1 : y[t].history[i] = x[t].history[i]
             /\ Last(x[t].history) = x[t].history[n]
  <2>1. /\ x[t].history \in Seq(Tables) /\ Len(x[t].history) = n
        /\ x[t].history # <<>> /\ y[t].history = Front(x[t].history)
    BY <1>1
  <2> DEFINE g == x[t].history
  <2>2. g \in Seq(Tables) /\ g # <<>> /\ Len(g) = n
    BY <2>1
  <2> HIDE DEF g
  <2>3. /\ Len(Front(g)) = Len(g) - 1 /\ Last(g) = g[Len(g)]
        /\ \A i \in 1 .. Len(g) - 1 : Front(g)[i] = g[i]
    BY <2>2, FrontSeq
  <2>4. y[t].history = Front(g)
    BY <2>1 DEF g
  <2>5. Len(y[t].history) = n - 1 /\ Last(g) = g[n]
    BY <2>2, <2>3, <2>4
  <2>6. \A i \in 1 .. n - 1 : y[t].history[i] = g[i]
    BY <2>2, <2>3, <2>4
  <2> QED BY <2>5, <2>6 DEF g
<1>3. s \in Seq(S) /\ Len(s) = n - 1 /\ \A i \in 1 .. n - 1 : s[i] = h[i]
  BY <1>1
<1> HIDE DEF s
<1>4. /\ HistoryOf(y) \in Seq(S) /\ Len(HistoryOf(y)) = n - 1
      /\ \A i \in 1 .. n - 1 : HistoryOf(y)[i] = [t \in Types |-> y[t].history[i]]
  <2>1. Len(y[AnyType].history) = n - 1
    BY <1>2, AnyTypeType
  <2>2. LET k == Len(y[AnyType].history) IN
          /\ HistoryOf(y) \in Seq([Types -> Tables]) /\ Len(HistoryOf(y)) = k
          /\ \A i \in 1 .. k : HistoryOf(y)[i] = [t \in Types |-> y[t].history[i]]
    BY FamilyFacts
  <2> QED BY <2>1, <2>2 DEF S
<1>5. ASSUME NEW i \in 1 .. n - 1 PROVE HistoryOf(y)[i] = s[i]
  <2>1. i \in 1 .. n
    BY <1>1
  <2>2. HistoryOf(y)[i] = [t \in Types |-> x[t].history[i]]
    BY <1>2, <1>4
  <2> QED BY <1>1, <1>3, <2>1, <2>2
<1>6. HistoryOf(y) = s
  BY <1>1, <1>3, <1>4, <1>5, SeqEqual
<1>7. n \in 1 .. n /\ h[n] = [t \in Types |-> Last(x[t].history)]
  <2>1. n \in 1 .. n
    BY <1>1
  <2> QED BY <1>1, <1>2, <2>1
<1> QED BY <1>1, <1>6, <1>7 DEF s, h

(* commit takes the same number of oldest sessions off every stack. *)
LEMMA CommitAll ==
    ASSUME NEW x, NEW y, Family(x), Family(y), NEW r \in Revisions,
           \A t \in Types : y[t] = CommitOne(x[t], r)
    PROVE  /\ TablesOf(y) = TablesOf(x)
           /\ \E n \in 0 .. Len(HistoryOf(x)) :
                HistoryOf(y) = SubSeq(HistoryOf(x), n + 1, Len(HistoryOf(x)))
           /\ y[AnyType].revision = x[AnyType].revision
<1> DEFINE n == Len(x[AnyType].history)
           S == [Types -> Tables]
           h == HistoryOf(x)
           b == x[AnyType].revision - n
           d == r - b
           m == IF d <= 0 THEN 0 ELSE IF d >= n THEN n ELSE d
           s == SubSeq(h, m + 1, n)
<1>1. /\ n \in Nat /\ h \in Seq(S) /\ Len(h) = n
      /\ \A i \in 1 .. n : h[i] = [t \in Types |-> x[t].history[i]]
      /\ \A t \in Types : /\ x[t] \in IndexRecords /\ SoundIndex(x[t])
                          /\ x[t].history \in Seq(Tables) /\ Len(x[t].history) = n
                          /\ RangeBegin(x[t]) = b
      /\ x[AnyType].revision \in Nat /\ r \in Nat
  BY FamilyFacts, BoundsAssumption DEF Revisions
<1> HIDE DEF n, S, h
<1>2. b \in Int /\ d \in Int /\ m \in 0 .. n
  <2>1. n \in Nat /\ x[AnyType].revision \in Nat /\ r \in Nat
    BY <1>1
  <2>2. b \in Int /\ d \in Int
    BY <2>1
  <2> HIDE DEF b, d
  <2> QED BY <2>1, <2>2
<1>3. ASSUME NEW t \in Types
      PROVE  /\ y[t].table = x[t].table /\ y[t].revision = x[t].revision
             /\ y[t].history \in Seq(Tables) /\ Len(y[t].history) = n - m
             /\ \A i \in 1 .. n - m : y[t].history[i] = x[t].history[i + m]
  <2>1. /\ x[t] \in IndexRecords /\ SoundIndex(x[t]) /\ RangeBegin(x[t]) = b
        /\ x[t].history \in Seq(Tables) /\ Len(x[t].history) = n
    BY <1>1
  <2>2. CASE d <= 0
    <3>1. r <= RangeBegin(x[t]) /\ m = 0
      BY <1>1, <1>2, <2>1, <2>2
    <3>2. y[t] = x[t]
      BY <3>1 DEF CommitOne
    <3> QED BY <1>1, <2>1, <3>1, <3>2
  <2>3. CASE d > 0
    <3>1. r > RangeBegin(x[t]) /\ ~ (r <= RangeBegin(x[t])) /\ r - RangeBegin(x[t]) = d
      BY <1>1, <1>2, <2>1, <2>3
    <3>2. y[t] = CommitOne(x[t], r)
      OBVIOUS
    <3>3. /\ y[t].table = x[t].table /\ y[t].revision = x[t].revision
          /\ y[t].history \in Seq(Tables)
          /\ Len(y[t].history) = IF d >= n THEN 0 ELSE n - d
      BY <2>1, <3>1, <3>2, CommitShape
    <3>4. Len(y[t].history) = n - m
      BY <1>1, <1>2, <2>3, <3>3
    <3>5. CASE d >= n
      <4>1. m = n
        BY <1>1, <1>2, <2>3, <3>5
      <4> QED BY <1>1, <3>3, <3>4, <4>1
    <3>6. CASE d < n
      <4>1. m = d /\ d \in 1 .. n - 1
        BY <1>1, <1>2, <2>3, <3>6
      <4>2. y[t] = [x[t] EXCEPT !.history = SubSeq(x[t].history, d + 1, n)]
        BY <2>1, <3>1, <3>2 DEF CommitOne
      <4>3. y[t].history = SubSeq(x[t].history, d + 1, n)
        BY <2>1, <4>2 DEF IndexRecords
      <4>4. \A i \in 1 .. n - d : SubSeq(x[t].history, d + 1, n)[i] = x[t].history[i + d]
        <5> DEFINE g == x[t].history
                   e == d
        <5>1. /\ g \in Seq(Tables) /\ Len(g) = n /\ n \in Nat /\ e \in 1 .. n - 1
          BY <1>1, <2>1, <4>1
        <5> HIDE DEF g, e
        <5>2. /\ e + 1 \in Int /\ n \in Int /\ e \in Nat
              /\ \A i \in (e + 1) .. n : g[i] \in Tables
          BY <5>1
        <5>3. \A i \in 1 .. n - (e + 1) + 1 : SubSeq(g, e + 1, n)[i] = g[(e + 1) + i - 1]
          BY <5>2, SubSeqProperties
        <5>4. \A i \in 1 .. n - e : i \in 1 .. n - (e + 1) + 1 /\ (e + 1) + i - 1 = i + e
          BY <5>1, <5>2
        <5>5. \A i \in 1 .. n - e : SubSeq(g, e + 1, n)[i] = g[i + e]
          BY <5>3, <5>4
        <5> QED BY <5>5 DEF g, e
      <4> QED BY <3>3, <3>4, <4>1, <4>3, <4>4
    <3> QED BY <1>1, <1>2, <3>5, <3>6
  <2> QED BY <1>2, <2>2, <2>3
<1> HIDE DEF m, d, b
<1>4. s \in Seq(S) /\ Len(s) = n - m /\ \A i \in 1 .. n - m : s[i] = h[i + m]
  BY <1>1, <1>2
<1> HIDE DEF s
<1>5. /\ HistoryOf(y) \in Seq(S) /\ Len(HistoryOf(y)) = n - m
      /\ \A i \in 1 .. n - m : HistoryOf(y)[i] = [t \in Types |-> y[t].history[i]]
  <2>1. Len(y[AnyType].history) = n - m
    BY <1>3, AnyTypeType
  <2>2. LET k == Len(y[AnyType].history) IN
          /\ HistoryOf(y) \in Seq([Types -> Tables]) /\ Len(HistoryOf(y)) = k
          /\ \A i \in 1 .. k : HistoryOf(y)[i] = [t \in Types |-> y[t].history[i]]
    BY FamilyFacts
  <2> QED BY <2>1, <2>2 DEF S
<1>6. ASSUME NEW i \in 1 .. n - m PROVE HistoryOf(y)[i] = s[i]
  <2>1. i + m \in 1 .. n
    BY <1>1, <1>2
  <2>2. HistoryOf(y)[i] = [t \in Types |-> x[t].history[i + m]]
    BY <1>3, <1>5
  <2> QED BY <1>1, <1>4, <2>1, <2>2
<1>7. HistoryOf(y) = s
  BY <1>1, <1>4, <1>5, <1>6, SeqEqual
<1>8. TablesOf(y) = TablesOf(x)
  BY <1>3, SameTables
<1> QED BY <1>1, <1>2, <1>3, <1>7, <1>8, AnyTypeType DEF s, h

(* undo_all goes back to the oldest session of the common stack. *)
LEMMA UndoAllAll ==
    ASSUME NEW x, NEW y, Family(x), Family(y), HistoryOf(x) # <<>>,
           \A t \in Types : y[t] = UndoAllOne(x[t])
    PROVE  /\ TablesOf(y) = HistoryOf(x)[1]
           /\ HistoryOf(y) = <<>>
           /\ y[AnyType].revision = x[AnyType].revision - Len(HistoryOf(x))
<1> DEFINE n == Len(x[AnyType].history)
<1>1. /\ n \in Nat /\ n # 0 /\ Len(HistoryOf(x)) = n
      /\ \A i \in 1 .. n : HistoryOf(x)[i] = [t \in Types |-> x[t].history[i]]
      /\ \A t \in Types : Len(x[t].history) = n /\ x[t].history # <<>>
  BY FamilyFacts
<1>2. ASSUME NEW t \in Types
      PROVE  y[t].table = x[t].history[1] /\ y[t].history = <<>> /\ y[t].revision = x[t].revision - n
  <2>1. y[t] = [table |-> x[t].history[1], history |-> <<>>,
                revision |-> x[t].revision - Len(x[t].history)]
    BY <1>1 DEF UndoAllOne
  <2> QED BY <1>1, <2>1
<1> HIDE DEF n
<1>3. 1 \in 1 .. n
  BY <1>1
<1>4. TablesOf(y) = HistoryOf(x)[1]
  BY <1>1, <1>2, <1>3 DEF TablesOf
<1>5. y[AnyType].history = <<>>
  BY <1>2, AnyTypeType
<1>6. HistoryOf(y) = <<>>
  BY <1>5, FamilyFacts, EmptySeq
<1> QED BY <1>1, <1>2, <1>4, <1>6, AnyTypeType

-----------------------------------------------------------------------------
(***************************************************************************)
(* A database used whole.                                                  *)
(***************************************************************************)

(* Used with all its indices only, a database that lacks one has never been  *)
(* used, the last loop went over all of them, and what no loop left behind   *)
(* is in step.  A rollback has less to undo than the loop it undoes would    *)
(* have started.                                                             *)
WholeInv ==
    /\ whole /\ process = "running" => Added = Types
    /\ whole /\ (Present # Types \/ call.op = "add") =>
         \A t \in Present : segment[t] = FreshIndex
    /\ whole /\ interrupted.op # "none" => interrupted.over = Types
    /\ whole /\ interrupted.op = "none" => AllInSync
    /\ call.op = "rollback" => ToSet(call.todo) # Added

(* NoLoop stands for no loop. *)
LEMMA NoLoopOp == NoLoop.op = "none"
BY DEF NoLoop

(* A step that changes nothing the invariant speaks of. *)
LEMMA WholeUnchanged ==
    ASSUME WholeInv, UNCHANGED <<segment, process, index_list, call, interrupted, whole>>
    PROVE  WholeInv'
BY DEF WholeInv, Present, AllInSync, Added

(* What WholeInv' is while the process uses the indices. *)
LEMMA WholeRunning ==
    ASSUME SyncInv', process' = "running", whole' => Added' = Types,
           ~Quiet' \/ interrupted' = NoLoop,
           call'.op = "rollback" => ToSet(call'.todo) # Added'
    PROVE  WholeInv'
<1>1. TypeInv' /\ ProcessSound' /\ QuietSync' /\ LoopShape'
  BY DEF SyncInv
<1>2. \A t \in Added' : segment'[t] \in Indices
  BY <1>1 DEF TypeInv, ListSound
<1>3. Added' = Types => Present' = Types
  BY <1>2, NoIndexAssumption DEF Present
<1>4. call'.op # "add"
  BY <1>1 DEF ProcessSound
<1>5. CASE ~Quiet'
  <2>1. interrupted'.op # "none" /\ interrupted'.over = Added'
    BY <1>1, <1>5 DEF LoopShape, Quiet
  <2> QED BY <1>3, <1>4, <2>1 DEF WholeInv
<1>6. CASE Quiet' /\ interrupted' = NoLoop
  <2>1. interrupted'.op = "none" /\ (whole' => AllInSync')
    BY <1>1, <1>6, NoLoopOp DEF QuietSync, AllInSync, Present
  <2> QED BY <1>3, <1>4, <2>1 DEF WholeInv
<1> QED BY <1>5, <1>6

(* Opening, closing, crashing and add_index. *)
LEMMA WholeLifecycle ==
    ASSUME ~LateAdd, SyncInv, WholeInv, Lifecycle
    PROVE  WholeInv'
<1>0. /\ TypeInv /\ ProcessSound /\ LoopAtomic
      /\ segment \in [Types -> Indices \cup {NoIndex}]
      /\ index_list \in Seq(Types) /\ Added \subseteq Types
      /\ \A t \in Added : SoundIndex(segment[t])
  BY TypeFacts DEF SyncInv
<1>1. ASSUME NEW how \in {"opening", "reading"}, NEW allow, Open(how, allow) PROVE WholeInv'
  <2>1. process' # "running" /\ UNCHANGED <<segment, index_list, call, interrupted, whole>>
    BY <1>1 DEF Open
  <2> QED BY <2>1 DEF WholeInv, Present, AllInSync, Added
<1>2. ASSUME UNCHANGED <<segment, interrupted, whole>>, process' # "running",
             call' = NoCall
      PROVE  WholeInv'
  <2>1. call'.op = "none"
    BY <1>2, NoCallFacts
  <2> QED BY <1>2, <2>1 DEF WholeInv, Present, AllInSync
<1>3. ASSUME Ended PROVE WholeInv'
  BY <1>2, <1>3 DEF Ended
<1>4. ASSUME NEW t \in Types, AddExisting(t) PROVE WholeInv'
  BY <1>2, <1>4 DEF AddExisting, Accept, MayAdd
<1>5. ASSUME NEW t \in Types, AddNew(t) PROVE WholeInv'
  <2>1. /\ process = "opening" /\ segment[t] = NoIndex
        /\ segment' = [segment EXCEPT ![t] = FreshIndex]
        /\ call' = [NoCall EXCEPT !.op = "add", !.todo = <<t>>]
        /\ UNCHANGED <<process, interrupted, whole>>
    BY <1>5 DEF AddNew, MayAdd
  <2>2. segment'[t] = FreshIndex /\ \A u \in Types \ {t} : segment'[u] = segment[u]
    BY <1>0, <2>1
  <2>3. whole => \A u \in Present' : segment'[u] = FreshIndex
    <3>1. t \notin Present
      BY <2>1 DEF Present
    <3>2. whole => \A u \in Present : segment[u] = FreshIndex
      BY <3>1 DEF WholeInv
    <3> QED BY <2>2, <3>2 DEF Present
  <2>4. whole => AllInSync'
    BY <2>3, RangeOrder DEF AllInSync
  <2>5. call'.op = "add"
    BY <2>1, NoCallFacts DEF NoCall
  <2> QED BY <2>1, <2>3, <2>4, <2>5 DEF WholeInv
<1>6. ASSUME AddStep PROVE WholeInv'
  <2>1. call.op = "add" /\ UNCHANGED <<process, interrupted, whole>>
        /\ (call' = call \/ call' = NoCall)
    BY <1>6 DEF AddStep, Accept
  <2>2. PICK t \in Types \ Added : call.todo = <<t>> /\ segment[t] \in Indices
    BY <1>0, <2>1 DEF TypeInv, CallSound
  <2>3. call.todo[1] = t /\ process = "opening"
    BY <1>0, <2>1, <2>2 DEF ProcessSound
  <2>4. CASE whole
    <3>1. \A u \in Present : segment[u] = FreshIndex
      BY <2>1, <2>4 DEF WholeInv
    <3>2. index_list # <<>> => index_list[1] \in Added
      BY <1>0, SetType DEF Added
    <3>3. Added \cup {t} \subseteq Present
      BY <1>0, <2>2, NoIndexAssumption DEF Present, SoundIndex
    <3>4. Consistent(segment[t])
      BY <3>1, <3>2, <3>3, RangeOrder DEF Consistent
    <3>5. segment' = segment /\ call' = NoCall
      BY <1>6, <2>3, <3>4 DEF AddStep, Accept
    <3> QED BY <1>2, <2>1, <2>3, <3>5
  <2>5. CASE ~whole
    <3>1. call'.op # "rollback"
      BY <2>1, NoCallFacts
    <3> QED BY <2>1, <2>5, <3>1 DEF WholeInv
  <2> QED BY <2>4, <2>5
<1>7. ASSUME AddThrows PROVE WholeInv'
  <2>1. /\ call.op = "add" /\ call' = NoCall
        /\ UNCHANGED <<segment, interrupted, whole, process>>
    BY <1>7 DEF AddThrows
  <2> QED BY <1>0, <1>2, <2>1 DEF ProcessSound
<1> QED BY <1>1, <1>3, <1>4, <1>5, <1>6, <1>7 DEF Lifecycle, Close, Crash

(* A loop begins with all indices in the list, or the database is not whole. *)
LEMMA WholeBegin ==
    ASSUME SyncInv', NEW op \in Ops, NEW r, NEW subs, NEW h, Begin(op, r, subs, h)
    PROVE  WholeInv'
<1>1. /\ process' = "running" /\ (whole' => Added = Types) /\ index_list' = index_list
      /\ call' = [op |-> op, arg |-> r, todo |-> subs, done |-> <<>>, handle |-> h]
  BY DEF Begin
<1>2. Added' = Added /\ call'.op = op
  BY <1>1 DEF Added
<1>3. ~Quiet' /\ call'.op # "rollback"
  BY <1>2 DEF Quiet, Ops
<1> QED BY <1>1, <1>2, <1>3, WholeRunning

(* Writes, the beginnings of loops and push. *)
LEMMA WholeCalls ==
    ASSUME SyncInv', WholeInv, Calls
    PROVE  WholeInv'
<1>1. ASSUME NEW t \in Types, NEW v \in Tables, Write(t, v) PROVE WholeInv'
  <2>1. /\ process' = "running" /\ (whole' => Added = Types) /\ index_list' = index_list
        /\ call' = NoCall /\ interrupted' = NoLoop
    BY <1>1 DEF Write, Ready
  <2>2. Added' = Added /\ call'.op # "rollback"
    BY <2>1, NoCallFacts DEF Added
  <2> QED BY <2>1, <2>2, WholeRunning
<1>2. ASSUME NEW op \in Ops, NEW r, DatabaseCall(op, r) PROVE WholeInv'
  BY <1>2, WholeBegin DEF DatabaseCall
<1>3. ASSUME start_undo_session PROVE WholeInv'
  BY <1>3, WholeBegin DEF start_undo_session, Ops
<1>4. ASSUME NEW h, Push(h) PROVE WholeInv'
  BY <1>4, WholeUnchanged DEF Push
<1>5. ASSUME NEW h, NEW op \in Ops, HandleCall(op, h) PROVE WholeInv'
  BY <1>5, WholeBegin DEF HandleCall
<1> QED BY <1>1, <1>2, <1>3, <1>4, <1>5 DEF Calls, Ops

(* The iterations of a loop and its ways to end. *)
LEMMA WholeLoop ==
    ASSUME SyncInv, SyncInv', WholeInv, Loop
    PROVE  WholeInv'
<1>0. TypeInv /\ ProcessSound /\ LoopShape
  BY DEF SyncInv
<1>1. call.op \notin {"none", "add"} /\ UNCHANGED <<process, index_list, whole>>
  BY DEF Loop, LoopStep, SetRevisionThrows, StartThrows, LoopReturns
<1>2. ~Quiet /\ process' = "running" /\ Added' = Added
  BY <1>0, <1>1 DEF ProcessSound, Quiet, Added
<1>3. whole' => Added' = Types
  BY <1>0, <1>1, <1>2 DEF WholeInv, ProcessSound
<1>4. /\ call.todo \in Seq(Types) /\ call.done \in Seq(Types)
      /\ ToSet(call.todo) \subseteq Added
  BY <1>0, <1>1, CallFacts DEF TypeInv, CallSound
<1>5. CASE LoopStep
  <2>1. call'.op = call.op /\ call'.todo = Tail(call.todo) /\ call.todo # <<>>
    BY <1>0, <1>5, Iteration
  <2>2. ToSet(Tail(call.todo)) \subseteq ToSet(call.todo)
    BY <1>4, <2>1, TailSet
  <2>3. call.op = "rollback" => ToSet(call'.todo) # Added
    BY <1>4, <2>1, <2>2 DEF WholeInv
  <2>4. ~Quiet'
    BY <1>2, <2>1 DEF Quiet
  <2> QED BY <1>2, <1>3, <2>1, <2>3, <2>4, WholeRunning
<1>6. CASE call' = NoCall /\ interrupted' = NoLoop
  BY <1>2, <1>3, <1>6, NoCallFacts, WholeRunning
<1>7. CASE StartThrows
  <2>1. /\ call.op = "start" /\ call.todo # <<>>
        /\ call' = [call EXCEPT !.op = "rollback", !.todo = call.done, !.done = <<>>]
    BY <1>7 DEF StartThrows
  <2>2. call \in Loops
    BY <1>0, TypeFacts
  <2>3. call'.op = "rollback" /\ call'.todo = call.done
    BY <2>1, <2>2 DEF Loops
  <2>4. call.todo[1] \in ToSet(call.todo)
    BY <1>4, <2>1, TailSet
  <2>5. ToSet(call.todo) \cap ToSet(call.done) = {}
    BY <1>0, <1>2 DEF LoopShape
  <2>6. ToSet(call.done) # Added
    BY <1>4, <2>4, <2>5
  <2>7. ~Quiet'
    BY <2>3 DEF Quiet
  <2> QED BY <1>2, <1>3, <2>3, <2>6, <2>7, WholeRunning
<1>8. CASE SetRevisionThrows \/ LoopReturns
  BY <1>6, <1>8 DEF SetRevisionThrows, LoopReturns
<1> QED BY <1>5, <1>7, <1>8 DEF Loop

StoreInv == SyncInv /\ WholeInv

(* The invariant holds of a new file. *)
LEMMA StoreInit == Init => StoreInv
<1> SUFFICES ASSUME Init PROVE WholeInv
  BY SyncInit DEF StoreInv
<1>1. /\ process = "down" /\ Present = {} /\ call.op = "none" /\ interrupted.op = "none"
  BY NoCallFacts, NoLoopOp DEF Init, Present
<1> QED BY <1>1 DEF WholeInv, AllInSync

(* Every step keeps the invariant. *)
LEMMA StoreStep ==
    ASSUME ~LateAdd
    PROVE  StoreInv /\ [Next]_vars /\ ~torn' => StoreInv'
<1> SUFFICES ASSUME SyncInv, WholeInv, [Next]_vars, ~torn' PROVE StoreInv'
  BY DEF StoreInv
<1>0. SyncInv'
  BY SyncStep
<1>1. CASE UNCHANGED vars
  BY <1>0, <1>1, WholeUnchanged DEF vars, StoreInv
<1>2. Lifecycle \/ Calls \/ Loop \/ UNCHANGED vars
  BY TornStep DEF SyncInv
<1> QED BY <1>0, <1>1, <1>2, WholeLifecycle, WholeCalls, WholeLoop DEF StoreInv

(* After undo, squash or undo_all ran out of memory nothing is promised. *)
StoreUntil == TypeInv /\ IF torn THEN ~whole ELSE StoreInv

LEMMA StoreUntilStep ==
    ASSUME ~LateAdd
    PROVE  StoreUntil /\ [Next]_vars => StoreUntil'
<1> SUFFICES ASSUME StoreUntil, [Next]_vars PROVE StoreUntil'
  OBVIOUS
<1>1. TypeInv'
  BY TypeStep DEF StoreUntil
<1>2. CASE ~torn'
  BY <1>1, <1>2, StoreStep, TornStep DEF StoreUntil
<1>3. CASE torn'
  BY <1>1, <1>3, TornStep DEF StoreUntil
<1> QED BY <1>2, <1>3

(* The invariant holds throughout. *)
LEMMA StoreInvariant ==
    ASSUME ~LateAdd
    PROVE  Spec => []StoreUntil
<1>1. Init => StoreUntil
  BY StoreInit, TypeInit DEF StoreUntil, Init
<1> QED BY <1>1, StoreUntilStep, PTL DEF Spec

-----------------------------------------------------------------------------
(***************************************************************************)
(* The indices together, as the last complete operation left them.         *)
(***************************************************************************)
Complete == \A t \in interrupted.over : segment[t] = After(t)

Now == [t \in Types |-> Index(t)]

(* A loop that is not complete has not happened yet. *)
LEMMA SettledCases ==
    /\ interrupted.op = "none" \/ Complete => Settled = segment
    /\ interrupted.op # "none" /\ ~Complete => Settled = interrupted.before
BY DEF Settled, Complete, After, Before

(* The same after a step. *)
LEMMA SettledNext ==
    /\ interrupted'.op = "none" \/ Complete' => Settled' = segment'
    /\ interrupted'.op # "none" /\ ~Complete' => Settled' = interrupted'.before
BY DEF Settled, Complete, After, Before

(* The settled indices, one by one. *)
LEMMA NowAt == ASSUME NEW t \in Types PROVE Now[t] = Index(t)
BY DEF Now

(* The same after a step. *)
LEMMA NowAtNext == ASSUME NEW t \in Types PROVE Now'[t] = Index(t)'
BY DEF Now

(* An index that exists is what the abstract state shows of it. *)
LEMMA IndexPresent ==
    /\ \A t : Settled[t] \in Indices => Index(t) = Settled[t]
    /\ \A t : Settled[t] = NoIndex => Index(t) = FreshIndex
BY NoIndexAssumption DEF Index

(* What the last loop found and did, when the database is used whole. *)
LEMMA LoopFacts ==
    ASSUME StoreInv, whole, interrupted.op # "none"
    PROVE  /\ interrupted.op \in Ops /\ interrupted.arg \in Revisions
           /\ interrupted.over = Types
           /\ \A t \in Types : /\ SoundIndex(Before(t)) /\ SoundIndex(segment[t])
                               /\ segment[t] \in {Before(t), After(t)}
           /\ \A t, u \in Types : SameRange(Before(t), Before(u))
           /\ \A t, u \in Types : SameRange(After(t), After(u))
<1>1. LoopAtomic /\ IndicesSound /\ interrupted.over = Types
  BY DEF StoreInv, SyncInv, WholeInv, TypeInv
<1>2. /\ interrupted.op \in Ops /\ interrupted.arg \in Revisions
      /\ \A t \in Types : /\ SoundIndex(Before(t)) /\ segment[t] \in Indices
                          /\ segment[t] \in {Before(t), After(t)}
      /\ \A t, u \in Types : SameRange(Before(t), Before(u))
  BY <1>1 DEF LoopAtomic
<1>3. \A t, u \in Types : SameRange(After(t), After(u))
  BY <1>2, ApplySync DEF After
<1> QED BY <1>1, <1>2, <1>3 DEF IndicesSound

(* The settled indices, in the middle of a loop as well, are sound and in    *)
(* step.                                                                     *)
LEMMA NowFamily ==
    ASSUME StoreInv, whole
    PROVE  Family(Now)
<1>0. segment \in [Types -> Indices \cup {NoIndex}] /\ IndicesSound
  BY TypeFacts DEF StoreInv, SyncInv, TypeInv
<1>1. CASE interrupted.op = "none"
  <2>1. Settled = segment /\ AllInSync
    BY <1>1, SettledCases DEF StoreInv, WholeInv
  <2>2. CASE Present = Types
    <3>1. \A t \in Types : Now[t] = segment[t] /\ SoundIndex(segment[t])
      BY <1>0, <2>1, <2>2, IndexPresent, NowAt DEF Present, IndicesSound
    <3> QED BY <2>1, <2>2, <3>1 DEF Family, AllInSync
  <2>3. CASE Present # Types
    <3>1. \A t \in Present : segment[t] = FreshIndex
      BY <2>3 DEF StoreInv, WholeInv
    <3>2. \A t \in Types : Now[t] = FreshIndex
      <4> SUFFICES ASSUME NEW t \in Types PROVE Index(t) = FreshIndex
        BY NowAt
      <4>1. segment[t] = NoIndex \/ segment[t] = FreshIndex
        BY <3>1 DEF Present
      <4> QED BY <2>1, <4>1 DEF Index
    <3> QED BY <3>2, FreshSound, RangeOrder DEF Family
  <2> QED BY <2>2, <2>3
<1>2. CASE interrupted.op # "none" /\ Complete
  <2>1. Settled = segment
    BY <1>2, SettledCases
  <2>2. ASSUME NEW t \in Types PROVE Now[t] = After(t) /\ SoundIndex(Now[t])
    <3>1. segment[t] = After(t) /\ SoundIndex(segment[t])
      BY <1>2, LoopFacts DEF Complete
    <3>2. Index(t) = segment[t]
      BY <2>1, <3>1, IndexPresent DEF SoundIndex
    <3> QED BY <3>1, <3>2, NowAt
  <2> QED BY <1>2, <2>2, LoopFacts DEF Family
<1>3. CASE interrupted.op # "none" /\ ~Complete
  <2>1. Settled = interrupted.before
    BY <1>3, SettledCases
  <2>2. ASSUME NEW t \in Types PROVE Now[t] = Before(t) /\ SoundIndex(Now[t])
    <3>1. SoundIndex(Before(t)) /\ Settled[t] = Before(t)
      BY <1>3, <2>1, LoopFacts DEF Before
    <3>2. Index(t) = Before(t)
      BY <3>1, IndexPresent DEF SoundIndex
    <3> QED BY <3>1, <3>2, NowAt
  <2> QED BY <1>3, <2>2, LoopFacts DEF Family
<1> QED BY <1>1, <1>2, <1>3

(* The same after a step. *)
LEMMA NowFamilyNext == StoreInv' /\ whole' => Family(Now)'
<1>1. StoreInv /\ whole => Family(Now)
  BY NowFamily
<1> QED BY <1>1, PTL

(* Indices in step are settled: no loop is half done. *)
LEMMA SettledNow ==
    ASSUME StoreInv, whole, \A t, u \in Types : SameRange(segment[t], segment[u])
    PROVE  \A t \in Types : Settled[t] = segment[t]
<1>1. CASE interrupted.op = "none" \/ Complete
  BY <1>1, SettledCases
<1>2. CASE interrupted.op # "none" /\ ~Complete
  <2>1. PICK u \in Types : segment[u] # After(u)
    BY <1>2, LoopFacts DEF Complete
  <2>2. ASSUME NEW t \in Types, segment[t] # Before(t) PROVE FALSE
    <3>1. /\ interrupted.op \in Ops /\ interrupted.arg \in Revisions
          /\ SoundIndex(Before(t)) /\ segment[t] = After(t) /\ segment[u] = Before(u)
          /\ SameRange(Before(t), Before(u))
      BY <1>2, <2>1, <2>2, LoopFacts
    <3>2. SameRange(After(t), Before(u))
      BY <3>1
    <3>3. SameRange(After(t), Before(t))
      BY <3>1, <3>2, RangeOrder
    <3>4. After(t) = Before(t)
      BY <3>1, <3>3, ApplyVisible DEF After
    <3> QED BY <2>2, <3>1, <3>4
  <2> QED BY <1>2, <2>2, SettledCases DEF Before
<1> QED BY <1>1, <1>2

(* A rollback never gets to all the sessions that the loop would start. *)
LEMMA RollbackIncomplete ==
    ASSUME StoreInv, call.op = "rollback"
    PROVE  ~Complete
<1>1. /\ LoopAtomic /\ LoopShape /\ LoopProgress /\ TypeInv /\ ~Quiet
      /\ ToSet(call.todo) # Added
  BY DEF StoreInv, SyncInv, WholeInv, Quiet
<1>2. ToSet(call.todo) \subseteq Added
  BY <1>1 DEF TypeInv, CallSound
<1>3. PICK u \in Added : u \notin ToSet(call.todo)
  BY <1>1, <1>2
<1>4. interrupted.op = "start" /\ u \in interrupted.over /\ segment[u] = Before(u)
  BY <1>1, <1>3 DEF LoopShape, LoopProgress
<1>5. SoundIndex(Before(u)) /\ After(u) = StartOne(Before(u))
  BY <1>1, <1>4, ApplyCases DEF LoopAtomic, After
<1>6. After(u).revision = Before(u).revision + 1 /\ Before(u).revision \in Nat
  BY <1>5, StartShape, IndexFacts
<1>7. After(u) # Before(u)
  BY <1>6
<1> QED BY <1>4, <1>7 DEF Complete

-----------------------------------------------------------------------------
(***************************************************************************)
(* Every step is a step of the store, or none.                             *)
(***************************************************************************)

(* What the store shows is what the settled indices are together. *)
LEMMA Abstract ==
    /\ AllTables = TablesOf(Now)
    /\ whole => AllHistory = HistoryOf(Now)
    /\ Index(AnyType).revision = Now[AnyType].revision
<1>1. \A t \in Types : Now[t] = Index(t)
  BY NowAt
<1>2. AllTables = TablesOf(Now)
  BY <1>1 DEF AllTables, TablesOf
<1>3. ASSUME whole PROVE AllHistory = HistoryOf(Now)
  <2>1. Now[AnyType] = Index(AnyType)
    BY <1>1, AnyTypeType
  <2>2. \A i : [t \in Types |-> SessionTable(Index(t).history, i)]
                = [t \in Types |-> SessionTable(Now[t].history, i)]
    BY <1>1
  <2> QED BY <1>3, <2>1, <2>2 DEF AllHistory, HistoryOf
<1> QED BY <1>1, <1>2, <1>3, AnyTypeType

(* The same after a step. *)
LEMMA AbstractNext ==
    /\ AllTables' = TablesOf(Now')
    /\ whole' => AllHistory' = HistoryOf(Now')
    /\ Index(AnyType)'.revision = Now'[AnyType].revision
<1>1. \A t \in Types : Now'[t] = Index(t)'
  BY NowAtNext
<1>2. AllTables' = TablesOf(Now')
  BY <1>1 DEF AllTables, TablesOf
<1>3. ASSUME whole' PROVE AllHistory' = HistoryOf(Now')
  <2>1. Now'[AnyType] = Index(AnyType)'
    BY <1>1, AnyTypeType
  <2>2. \A i : [t \in Types |-> SessionTable(Index(t)'.history, i)]
                = [t \in Types |-> SessionTable(Now'[t].history, i)]
    BY <1>1 DEF SessionTable
  <2> QED BY <1>3, <2>1, <2>2 DEF AllHistory, HistoryOf, AnyType, SessionTable
<1> QED BY <1>1, <1>2, <1>3, AnyTypeType

Stutter == UNCHANGED <<DS!vars, whole>>

Implementing == DS!Operation \/ DS!Abandon \/ Stutter

(* Where the settled indices stay, so does the store. *)
LEMMA SameNow ==
    ASSUME whole, whole', \A t \in Types : Now'[t] = Now[t]
    PROVE  Stutter
<1>1. Now' = Now
  BY DEF Now
<1>2. /\ AllTables' = AllTables /\ AllHistory' = AllHistory
      /\ Index(AnyType)'.revision = Index(AnyType).revision
  BY <1>1, Abstract, AbstractNext
<1> QED BY <1>2 DEF Stutter, DS!vars

(* A loop over all indices, seen as one operation. *)
LEMMA LoopImplements ==
    ASSUME whole, whole', Family(Now), Family(Now'), NEW op \in Ops, NEW r \in Revisions,
           \A t \in Types : Now'[t] = Apply(op, r, Now[t]),
           op = "set_revision" => \E t \in Types : Now[t].history = <<>>
    PROVE  Implementing
<1> DEFINE x == Now
           y == Now'
<1>1. /\ AllTables = TablesOf(x) /\ AllHistory = HistoryOf(x)
      /\ Index(AnyType).revision = x[AnyType].revision
      /\ AllTables' = TablesOf(y) /\ AllHistory' = HistoryOf(y)
      /\ Index(AnyType)'.revision = y[AnyType].revision
  BY Abstract, AbstractNext
<1>2. UNCHANGED whole
  OBVIOUS
<1>3. AllHistory = <<>> => \A t \in Types : x[t].history = <<>>
  BY <1>1, FamilyFacts
<1>5. CASE op = "start"
  <2>1. \A t \in Types : y[t] = StartOne(x[t])
    BY <1>5, ApplyCases
  <2>2. /\ TablesOf(y) = TablesOf(x) /\ HistoryOf(y) = Append(HistoryOf(x), TablesOf(x))
        /\ y[AnyType].revision = x[AnyType].revision + 1
    BY <2>1, StartAll
  <2>3. DS!Start
    BY <1>1, <2>2 DEF DS!Start
  <2> QED BY <1>2, <2>3 DEF Implementing, DS!Operation, DS!Next
<1>6. CASE op \in {"undo", "squash", "undo_all"} /\ AllHistory = <<>>
  <2>1. \A t \in Types : y[t] = x[t]
    BY <1>3, <1>6, EmptyShape, ApplyCases
  <2> QED BY <2>1, SameNow DEF Implementing
<1>7. CASE op = "undo" /\ AllHistory # <<>>
  <2>1. ASSUME NEW t \in Types
        PROVE  /\ y[t].table = Last(x[t].history) /\ y[t].history = Front(x[t].history)
               /\ y[t].revision = x[t].revision - 1
    <3>1. y[t] = UndoOne(x[t]) /\ x[t] \in IndexRecords /\ x[t].history # <<>>
      BY <1>1, <1>7, ApplyCases, FamilyFacts
    <3> QED BY <3>1, UndoShape
  <2>2. /\ HistoryOf(y) = SubSeq(HistoryOf(x), 1, Len(HistoryOf(x)) - 1)
        /\ HistoryOf(x)[Len(HistoryOf(x))] = [t \in Types |-> Last(x[t].history)]
    BY <1>1, <1>7, <2>1, PopAll
  <2>3. TablesOf(y) = [t \in Types |-> Last(x[t].history)]
    BY <2>1 DEF TablesOf
  <2>4. DS!Undo
    BY <1>1, <1>7, <2>1, <2>2, <2>3, AnyTypeType DEF DS!Undo
  <2> QED BY <1>2, <2>4 DEF Implementing, DS!Operation, DS!Next
<1>8. CASE op = "squash" /\ AllHistory # <<>>
  <2>1. ASSUME NEW t \in Types
        PROVE  /\ y[t].table = x[t].table /\ y[t].history = Front(x[t].history)
               /\ y[t].revision = x[t].revision - 1
    <3>1. y[t] = SquashOne(x[t]) /\ x[t] \in IndexRecords /\ x[t].history # <<>>
      BY <1>1, <1>8, ApplyCases, FamilyFacts
    <3> QED BY <3>1, SquashShape
  <2>2. HistoryOf(y) = SubSeq(HistoryOf(x), 1, Len(HistoryOf(x)) - 1)
    BY <1>1, <1>8, <2>1, PopAll
  <2>3. TablesOf(y) = TablesOf(x)
    BY <2>1, SameTables
  <2>4. DS!Squash
    BY <1>1, <1>8, <2>1, <2>2, <2>3, AnyTypeType DEF DS!Squash
  <2> QED BY <1>2, <2>4 DEF Implementing, DS!Operation, DS!Next
<1>9. CASE op = "commit"
  <2>1. \A t \in Types : y[t] = CommitOne(x[t], r)
    BY <1>9, ApplyCases
  <2>2. /\ TablesOf(y) = TablesOf(x)
        /\ \E n \in 0 .. Len(HistoryOf(x)) :
             HistoryOf(y) = SubSeq(HistoryOf(x), n + 1, Len(HistoryOf(x)))
        /\ y[AnyType].revision = x[AnyType].revision
    BY <2>1, CommitAll
  <2>3. PICK n \in 0 .. Len(AllHistory) :
          AllHistory' = SubSeq(AllHistory, n + 1, Len(AllHistory))
    BY <1>1, <2>2
  <2>4. DS!Commit(n)
    BY <1>1, <2>2, <2>3 DEF DS!Commit
  <2> QED BY <1>2, <2>4 DEF Implementing, DS!Operation, DS!Next
<1>10. CASE op = "undo_all" /\ AllHistory # <<>>
  <2>1. \A t \in Types : y[t] = UndoAllOne(x[t])
    BY <1>10, ApplyCases
  <2>2. /\ TablesOf(y) = HistoryOf(x)[1] /\ HistoryOf(y) = <<>>
        /\ y[AnyType].revision = x[AnyType].revision - Len(HistoryOf(x))
    BY <1>1, <1>10, <2>1, UndoAllAll
  <2>3. DS!UndoAll
    BY <1>1, <1>10, <2>2 DEF DS!UndoAll
  <2> QED BY <1>2, <2>3 DEF Implementing, DS!Operation
<1>11. CASE op = "set_revision"
  <2>1. HistoryOf(x) = <<>>
    BY <1>11, FamilyFacts
  <2>2. ASSUME NEW t \in Types
        PROVE  y[t].table = x[t].table /\ y[t].history = x[t].history
    <3>1. y[t] = SetRevisionOne(x[t], r) /\ x[t] \in IndexRecords
      BY <1>11, ApplyCases, FamilyFacts
    <3> QED BY <3>1, SetShape
  <2>3. TablesOf(y) = TablesOf(x) /\ HistoryOf(y) = HistoryOf(x)
    BY <2>2, SameTables, SameHistory
  <2>4. y[AnyType].revision \in Nat
    BY FamilyFacts
  <2>5. DS!SetRevision
    BY <1>1, <2>1, <2>3, <2>4 DEF DS!SetRevision
  <2> QED BY <1>2, <2>5 DEF Implementing, DS!Operation, DS!Next
<1> QED BY <1>5, <1>6, <1>7, <1>8, <1>9, <1>10, <1>11 DEF Ops

(* The settled indices are the ones in the segment, when those are in step. *)
LEMMA NowSegment ==
    ASSUME StoreInv, whole, Added = Types,
           \A t, u \in Types : SameRange(segment[t], segment[u])
    PROVE  \A t \in Types : Now[t] = segment[t] /\ segment[t] \in Indices
<1>1. \A t \in Types : Settled[t] = segment[t]
  BY SettledNow
<1>2. \A t \in Types : segment[t] \in Indices
  BY DEF StoreInv, SyncInv, TypeInv, ListSound
<1> QED BY <1>1, <1>2, IndexPresent, NowAt

(* What the abstract state shows after a step that leaves no loop behind. *)
LEMMA NowNoLoop ==
    ASSUME StoreInv', Added' = Types, interrupted' = NoLoop
    PROVE  \A t \in Types : Now'[t] = segment'[t]
<1>1. Settled' = segment'
  BY NoLoopOp, SettledNext
<1>2. \A t \in Types : segment'[t] \in Indices
  BY DEF StoreInv, SyncInv, TypeInv, ListSound
<1>3. \A t \in Types : Index(t)' = segment'[t]
  BY <1>1, <1>2, NoIndexAssumption DEF Index
<1> QED BY <1>3, NowAtNext

(* create, modify and remove, once the indices are settled. *)
LEMMA WriteImplements ==
    ASSUME StoreInv, StoreInv', whole, whole', NEW t \in Types, NEW v \in Tables, Write(t, v)
    PROVE  Implementing
<1> DEFINE z == [segment[t] EXCEPT !.table = v]
<1>1. /\ call = NoCall /\ index_list' = index_list /\ interrupted' = NoLoop
      /\ segment' = [segment EXCEPT ![t] = z]
      /\ Added = Types
  BY DEF Write, Ready
<1>2. Quiet /\ Added' = Types
  BY <1>1, NoCallFacts DEF Quiet, Added
<1>3. /\ \A u, w \in Types : SameRange(segment[u], segment[w])
      /\ segment \in [Types -> Indices \cup {NoIndex}]
  BY <1>1, <1>2, TypeFacts DEF StoreInv, SyncInv, QuietSync
<1>4. \A u \in Types : Now[u] = segment[u] /\ segment[u] \in Indices
  BY <1>1, <1>3, NowSegment
<1>5. \A u \in Types : Now'[u] = segment'[u]
  BY <1>1, <1>2, NowNoLoop
<1>6. /\ z.table = v /\ z.history = segment[t].history /\ z.revision = segment[t].revision
  BY <1>4 DEF Indices
<1> HIDE DEF z
<1>7. segment'[t] = z /\ \A u \in Types \ {t} : segment'[u] = segment[u]
  BY <1>1, <1>3
<1>8. /\ Now'[t].table = v
      /\ \A u \in Types \ {t} : Now'[u].table = Now[u].table
      /\ \A u \in Types : Now'[u].history = Now[u].history /\ Now'[u].revision = Now[u].revision
  BY <1>4, <1>5, <1>6, <1>7
<1>9. TablesOf(Now') = [TablesOf(Now) EXCEPT ![t] = v]
  BY <1>8 DEF TablesOf
<1>10. Family(Now) /\ Family(Now')
  BY NowFamily, NowFamilyNext DEF Family
<1>11. HistoryOf(Now') = HistoryOf(Now)
  BY <1>8, <1>10, SameHistory
<1>12. DS!Write(t, v)
  BY <1>8, <1>9, <1>11, Abstract, AbstractNext, AnyTypeType DEF DS!Write
<1>13. UNCHANGED whole
  OBVIOUS
<1> QED BY <1>12, <1>13 DEF Implementing, DS!Operation, DS!Next

(* A loop that begins changes nothing yet. *)
LEMMA BeginImplements ==
    ASSUME StoreInv, StoreInv', whole, whole', NEW op, NEW r, NEW subs, NEW h,
           Begin(op, r, subs, h)
    PROVE  Stutter
<1>1. /\ call = NoCall /\ index_list' = index_list /\ segment' = segment
      /\ interrupted' = [op |-> op, arg |-> r, over |-> ToSet(subs), before |-> segment]
      /\ Added = Types
  BY DEF Begin, Ready
<1>2. Quiet
  BY <1>1, NoCallFacts DEF Quiet
<1>3. \A u, w \in Types : SameRange(segment[u], segment[w])
  BY <1>1, <1>2 DEF StoreInv, SyncInv, QuietSync
<1>4. \A u \in Types : Now[u] = segment[u] /\ segment[u] \in Indices
  BY <1>1, <1>3, NowSegment
<1>5. Settled' = segment
  BY <1>1, SettledNext
<1>6. \A u \in Types : Index(u)' = segment[u]
  BY <1>4, <1>5, NoIndexAssumption DEF Index
<1> QED BY <1>4, <1>6, NowAtNext, SameNow

(* A loop that returns or throws has taken effect already, or has none. *)
LEMMA EndImplements ==
    ASSUME StoreInv, StoreInv', whole, whole', ~Quiet,
           UNCHANGED <<segment, index_list>>, call' = NoCall, interrupted' = NoLoop
    PROVE  Stutter
<1>1. Quiet' /\ Added' = Added
  BY NoCallFacts DEF Quiet, Added
<1>2. Added = Types
  BY DEF StoreInv, SyncInv, WholeInv, ProcessSound
<1>3. \A u, w \in Types : SameRange(segment[u], segment[w])
  BY <1>1, <1>2 DEF StoreInv, SyncInv, QuietSync
<1>4. \A u \in Types : Now[u] = segment[u]
  BY <1>2, <1>3, NowSegment
<1>5. \A u \in Types : Now'[u] = segment'[u]
  BY <1>1, <1>2, NowNoLoop
<1> QED BY <1>4, <1>5, SameNow

(* Steps that move no index and no history of loops. *)
LEMMA IdleImplements ==
    ASSUME whole, whole', UNCHANGED <<segment, interrupted>>
    PROVE  Stutter
<1>1. Settled' = Settled
  BY DEF Settled
<1>2. Now' = Now
  BY <1>1 DEF Now, Index
<1> QED BY <1>2, SameNow

(* A new index holds what the abstract state already showed. *)
LEMMA AddNewImplements ==
    ASSUME StoreInv, StoreInv', whole, whole', NEW t \in Types, AddNew(t)
    PROVE  Stutter
<1>1. /\ segment[t] = NoIndex /\ segment' = [segment EXCEPT ![t] = FreshIndex]
      /\ interrupted' = interrupted
  BY DEF AddNew
<1>2. segment \in [Types -> Indices \cup {NoIndex}]
  BY TypeFacts DEF StoreInv, SyncInv
<1>3. interrupted.op = "none"
  BY <1>1, LoopFacts, NoIndexAssumption DEF SoundIndex
<1>4. Settled = segment /\ Settled' = segment'
  BY <1>1, <1>3, SettledCases, SettledNext
<1>5. \A u \in Types : Index(u)' = Index(u)
  <2> SUFFICES ASSUME NEW u \in Types PROVE Index(u)' = Index(u)
    OBVIOUS
  <2>1. CASE u = t
    <3>1. Settled[u] = NoIndex /\ Settled'[u] = FreshIndex
      BY <1>1, <1>2, <1>4, <2>1
    <3> QED BY <3>1 DEF Index
  <2>2. CASE u # t
    <3>1. Settled'[u] = Settled[u]
      BY <1>1, <1>2, <1>4, <2>2
    <3> QED BY <3>1 DEF Index
  <2> QED BY <2>1, <2>2
<1> QED BY <1>5, NowAt, NowAtNext, SameNow

RollingBack == call.op = "rollback"

(* The same after a step. *)
LEMMA RollbackNext == StoreInv' /\ RollingBack' => ~Complete'
<1>1. StoreInv /\ RollingBack => ~Complete
  BY RollbackIncomplete DEF RollingBack
<1> QED BY <1>1, PTL

(* A database used whole adds no index that has to catch up. *)
LEMMA AddStepIdle ==
    ASSUME StoreInv, whole, AddStep
    PROVE  UNCHANGED <<segment, interrupted>>
<1>0. /\ TypeInv /\ index_list \in Seq(Types) /\ \A t \in Added : SoundIndex(segment[t])
      /\ Added \subseteq Types
  BY TypeFacts DEF StoreInv, SyncInv
<1>1. call.op = "add" /\ interrupted' = interrupted
  BY DEF AddStep, Accept
<1>2. PICK t \in Types \ Added : call.todo = <<t>> /\ segment[t] \in Indices
  BY <1>0, <1>1 DEF TypeInv, CallSound
<1>3. \A u \in Present : segment[u] = FreshIndex
  BY <1>1 DEF StoreInv, WholeInv
<1>4. index_list # <<>> => index_list[1] \in Added
  BY <1>0, SetType DEF Added
<1>5. Added \cup {t} \subseteq Present
  BY <1>0, <1>2, NoIndexAssumption DEF Present, SoundIndex
<1>6. Consistent(segment[t]) /\ call.todo[1] = t
  BY <1>2, <1>3, <1>4, <1>5, RangeOrder DEF Consistent
<1>7. segment' = segment
  BY <1>6 DEF AddStep, Accept
<1> QED BY <1>1, <1>7

(* The iteration that completes a loop is the operation; every other one is  *)
(* invisible.                                                                *)
LEMMA IterationImplements ==
    ASSUME StoreInv, StoreInv', whole, whole', LoopStep
    PROVE  Implementing
<1>0. /\ TypeInv /\ LoopShape /\ LoopProgress /\ LoopProgress'
  BY DEF StoreInv, SyncInv
<1>1. PICK t \in Types :
      /\ t \in ToSet(call.todo) /\ call.op \in Ops \cup {"rollback"}
      /\ segment'[t] = Apply(call.op, call.arg, segment[t])
      /\ \A u \in Types \ {t} : segment'[u] = segment[u]
      /\ call'.op = call.op /\ call'.done = Append(call.done, t)
      /\ interrupted' = interrupted
  BY <1>0, Iteration
<1>2. ~Quiet /\ ~Quiet'
  BY <1>1 DEF Quiet, Ops
<1>3. /\ interrupted.op = IF call.op = "rollback" THEN "start" ELSE call.op
      /\ interrupted.arg = call.arg
  BY <1>0, <1>2 DEF LoopShape
<1>4. interrupted.op \in Ops /\ interrupted.op # "none" /\ interrupted'.op # "none"
  BY <1>1, <1>3 DEF Ops
<1>5. /\ interrupted.over = Types /\ interrupted.arg \in Revisions
      /\ \A u \in Types : SoundIndex(Before(u)) /\ SoundIndex(segment[u])
  BY <1>4, LoopFacts
<1>6. \A u \in Types : Before(u)' = Before(u) /\ After(u)' = After(u)
  BY <1>1 DEF Before, After
<1>7. CASE Complete
  <2>1. call.op # "rollback"
    BY <1>7, RollbackIncomplete
  <2>2. segment[t] = Before(t) /\ segment[t] = After(t)
    BY <1>0, <1>1, <1>2, <1>5, <1>7, <2>1 DEF LoopProgress, Complete
  <2>3. segment'[t] = segment[t]
    BY <1>1, <1>3, <2>1, <2>2 DEF After
  <2>4. \A u \in Types : segment'[u] = segment[u]
    BY <1>1, <2>3
  <2>5. Complete'
    BY <1>1, <1>5, <1>6, <1>7, <2>4 DEF Complete
  <2>6. Settled = segment /\ Settled' = segment'
    BY <1>7, <2>5, SettledCases, SettledNext
  <2>7. \A u \in Types : Index(u)' = Index(u)
    BY <2>4, <2>6 DEF Index
  <2> QED BY <2>7, NowAt, NowAtNext, SameNow DEF Implementing
<1>8. CASE ~Complete /\ ~Complete'
  <2>1. Settled' = Settled
    BY <1>1, <1>4, <1>8, SettledCases, SettledNext
  <2>2. Now' = Now
    BY <2>1 DEF Now, Index
  <2> QED BY <2>2, SameNow DEF Implementing
<1>9. CASE ~Complete /\ Complete'
  <2>1. Settled = interrupted.before /\ Settled' = segment'
    BY <1>4, <1>9, SettledCases, SettledNext
  <2>2. \A u \in Types : segment'[u] = After(u)
    BY <1>1, <1>5, <1>6, <1>9 DEF Complete
  <2>3. \A u \in Types : Now[u] = Before(u)
    <3>1. \A u \in Types : Settled[u] = Before(u) /\ Before(u) \in Indices
      BY <1>5, <2>1 DEF Before, SoundIndex
    <3> QED BY <3>1, IndexPresent, NowAt
  <2>4. \A u \in Types : Now'[u] = After(u)
    <3>1. \A u \in Types : segment'[u] \in Indices
      BY <1>0, <1>1, <1>5, Iteration DEF SoundIndex
    <3>2. \A u \in Types : Index(u)' = segment'[u]
      BY <2>1, <3>1, NoIndexAssumption DEF Index
    <3> QED BY <2>2, <3>2, NowAtNext
  <2>5. \A u \in Types : Now'[u] = Apply(interrupted.op, interrupted.arg, Now[u])
    BY <2>3, <2>4 DEF After
  <2>6. call.op # "rollback"
    BY <1>1, <1>9, RollbackNext DEF RollingBack
  <2>7. interrupted.op = "set_revision" => Now[t].history = <<>>
    <3>1. call.done \in Seq(Types)
      BY <1>0, CallFacts
    <3>2. t \in ToSet(call'.done)
      BY <1>1, <3>1, AppendSet
    <3>3. call'.op = "set_revision" => Before(t)'.history = <<>>
      BY <1>0, <1>2, <3>2 DEF LoopProgress
    <3> QED BY <1>1, <1>3, <1>6, <2>3, <2>6, <3>3
  <2>8. Family(Now) /\ Family(Now')
    BY NowFamily, NowFamilyNext DEF Family
  <2> QED BY <1>1, <1>4, <1>5, <2>5, <2>7, <2>8, LoopImplements
<1> QED BY <1>7, <1>8, <1>9

(* Every step of the database is a step of the store, or none. *)
LEMMA StepImplements ==
    ASSUME ~LateAdd
    PROVE  StoreUntil /\ [Next]_vars => [DS!Operation \/ DS!Abandon]_<<DS!vars, whole>>
<1> SUFFICES ASSUME StoreUntil, [Next]_vars PROVE Implementing
  BY DEF Implementing, Stutter
<1>0. StoreUntil' /\ whole \in BOOLEAN /\ whole' \in BOOLEAN
  BY StoreUntilStep DEF StoreUntil, TypeInv, TypeOK
<1>1. CASE ~whole'
  BY <1>0, <1>1 DEF Implementing, DS!Abandon
<1>2. CASE whole'
  <2>0. ~torn /\ ~torn' /\ (Lifecycle \/ Calls \/ Loop \/ UNCHANGED vars)
    BY <1>0, <1>2, TornStep DEF StoreUntil
  <2>1. StoreInv /\ StoreInv'
    BY <1>0, <2>0 DEF StoreUntil
  <2>7. whole
    BY <1>0, <1>2, <2>0 DEF Lifecycle, Calls, Loop, Open, Close, Crash, Ended, AddExisting,
         AddNew, AddStep, AddThrows, Write, DatabaseCall, start_undo_session, HandleCall,
         Begin, Push, LoopStep, SetRevisionThrows, StartThrows, LoopReturns, vars
  <2> USE <1>0, <1>2, <2>1, <2>7
  <2>2. ASSUME UNCHANGED <<segment, interrupted>> PROVE Implementing
    BY <2>2, IdleImplements DEF Implementing
  <2>3. CASE Lifecycle
    <3>1. ASSUME NEW t \in Types, AddNew(t) PROVE Implementing
      BY <3>1, AddNewImplements DEF Implementing
    <3>2. ASSUME AddStep PROVE Implementing
      BY <2>2, <3>2, AddStepIdle
    <3> QED BY <2>2, <2>3, <3>1, <3>2
            DEF Lifecycle, Open, Close, Crash, Ended, AddExisting, AddThrows
  <2>4. CASE Calls
    <3>1. ASSUME NEW op, NEW r, NEW subs, NEW h, Begin(op, r, subs, h) PROVE Implementing
      BY <3>1, BeginImplements DEF Implementing
    <3>2. ASSUME NEW t \in Types, NEW v \in Tables, Write(t, v) PROVE Implementing
      BY <3>2, WriteImplements
    <3>3. ASSUME NEW h, Push(h) PROVE Implementing
      BY <2>2, <3>3 DEF Push
    <3> QED BY <2>4, <3>1, <3>2, <3>3 DEF Calls, DatabaseCall, start_undo_session, HandleCall
  <2>5. CASE Loop
    <3>1. CASE LoopStep
      BY <3>1, IterationImplements
    <3>2. CASE StartThrows
      BY <2>2, <3>2 DEF StartThrows
    <3>3. CASE SetRevisionThrows \/ LoopReturns
      <4>1. /\ ~Quiet /\ UNCHANGED <<segment, index_list>>
            /\ call' = NoCall /\ interrupted' = NoLoop
        BY <3>3 DEF SetRevisionThrows, LoopReturns, Quiet
      <4> QED BY <4>1, EndImplements DEF Implementing
    <3> QED BY <2>5, <3>1, <3>2, <3>3 DEF Loop
  <2>6. CASE UNCHANGED vars
    BY <2>2, <2>6 DEF vars
  <2> QED BY <2>0, <2>3, <2>4, <2>5, <2>6
<1> QED BY <1>1, <1>2

(* A new file holds the empty store. *)
LEMMA InitImplements == Init => DS!Init /\ whole = TRUE
<1> SUFFICES ASSUME Init PROVE DS!Init /\ whole = TRUE
  OBVIOUS
<1>1. whole = TRUE /\ interrupted.op = "none" /\ \A t \in Types : segment[t] = NoIndex
  BY NoLoopOp DEF Init
<1>2. \A t \in Types : Index(t) = FreshIndex
  BY <1>1, SettledCases DEF Index
<1>3. /\ \A t \in Types : Index(t).table = EmptyTable
      /\ Index(AnyType).history = <<>> /\ Index(AnyType).revision = 0
  BY <1>2, AnyTypeType DEF FreshIndex
<1>4. AllHistory = <<>>
  <2>1. Len(Index(AnyType).history) = 0
    BY <1>3
  <2>2. Family(Now)
    BY <1>1, StoreInit, NowFamily
  <2>3. Len(Now[AnyType].history) = 0
    BY <2>1, NowAt, AnyTypeType
  <2> QED BY <1>1, <2>2, <2>3, Abstract, FamilyFacts
<1> QED BY <1>1, <1>3, <1>4 DEF DS!Init, AllTables

(* As long as it is used with all its indices, the database is one store of  *)
(* all its tables: each undo, squash, commit, undo_all, set_revision and     *)
(* start_undo_session takes effect in all of them at once or in none, where  *)
(* start_undo_session or set_revision throws and where a crash cuts a loop   *)
(* short, and even when the file is opened in spite of its dirty flag, until *)
(* an undo, squash or undo_all runs out of memory.                           *)
THEOREM DatabaseImplementsStore ==
    ASSUME ~LateAdd
    PROVE  Spec => Implements
<1>1. Init => DS!Init /\ whole = TRUE
  BY InitImplements
<1>2. StoreUntil /\ [Next]_vars => [DS!Operation \/ DS!Abandon]_<<DS!vars, whole>>
  BY StepImplements
<1>3. Spec => []StoreUntil
  BY StoreInvariant
<1> QED BY <1>1, <1>2, <1>3, PTL DEF Spec, Implements, DS!DatabaseSpec
=============================================================================
