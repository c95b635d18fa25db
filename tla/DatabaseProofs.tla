--------------------------- MODULE DatabaseProofs ---------------------------
(***************************************************************************)
(* Theorems about Database, for every set of index types, every contents   *)
(* of the tables, every depth of nesting and every number of session       *)
(* objects.                                                                *)
(***************************************************************************)
EXTENDS Database, SequenceTheorems, TLAPS

(* No two positions of s hold the same type. *)
Distinct(s) == \A i, j \in DOMAIN s : s[i] = s[j] => i = j

(* An index whose revision never falls below 0 when its sessions are undone. *)
SoundIndex(x) == x \in Indices /\ Len(x.history) <= x.revision

IndicesSound == \A t \in Types : segment[t] \in Indices => SoundIndex(segment[t])

ListSound == Distinct(index_list) /\ \A t \in Added : segment[t] \in Indices

HandlesSound ==
    /\ Len(handles) <= MaxHandles
    /\ \A i \in DOMAIN handles : ToSet(handles[i].subs) \subseteq Added

(* An index on its way into the list: fresh, or with the first index's       *)
(* oldest revision and not yet past its newest.                              *)
CatchesUp(x) ==
    \/ x = FreshIndex
    \/ /\ index_list # <<>>
       /\ RangeBegin(x) = RangeBegin(segment[index_list[1]])
       /\ x.revision <= segment[index_list[1]].revision

CallSound ==
    /\ call.op = "add" =>
         \E t \in Types \ Added :
           call.todo = <<t>> /\ segment[t] \in Indices /\ CatchesUp(segment[t])
    /\ call.op \notin {"none", "add"} =>
         ToSet(call.todo) \subseteq Added /\ ToSet(call.done) \subseteq Added
    /\ call.op = "start" =>
         /\ Distinct(call.todo)
         /\ Len(handles) < MaxHandles
         /\ \A t \in ToSet(call.todo) : segment[t].revision < MaxRevision
    /\ call.handle <= Len(handles)
    /\ call.op \in {"start", "rollback"} => call.handle = 0

(* The type invariant is inductive once it says that no undo can drive a     *)
(* revision below 0, and what a loop in progress may still do.               *)
TypeInv ==
    TypeOK /\ IndicesSound /\ ListSound /\ HandlesSound /\ CallSound

-----------------------------------------------------------------------------
(* No loop over all the indices is running. *)
Quiet == call.op \in {"none", "add"}

ProcessSound ==
    /\ process = "down" => call = NoCall /\ index_list = <<>> /\ handles = <<>>
    /\ handles # <<>> => process = "running"
    /\ ~Quiet => process = "running"
    /\ call.op = "add" => process = "opening"

HandlesFull ==
    \A i \in DOMAIN handles :
      Distinct(handles[i].subs) /\ ToSet(handles[i].subs) = Added

QuietSync ==
    Quiet => \A t, u \in Added : SameRange(segment[t], segment[u])

Ops == {"start", "undo", "squash", "commit", "undo_all", "set_revision"}

(* What the loop did to one index, or was to do. *)
Before(t) == interrupted.before[t]

After(t) == Apply(interrupted.op, interrupted.arg, Before(t))

(* The last loop, running or cut short, started from indices in step, and    *)
(* left each of them as it was or did all of its work on it.                 *)
LoopAtomic ==
    interrupted.op # "none" =>
      /\ interrupted.op \in Ops /\ interrupted.arg \in Revisions
      /\ interrupted.over \subseteq Types
      /\ \A t \in interrupted.over :
           /\ SoundIndex(Before(t))
           /\ segment[t] \in Indices
           /\ segment[t] \in {Before(t), After(t)}
      /\ \A t, u \in interrupted.over : SameRange(Before(t), Before(u))
      /\ call.op = "add" => call.todo[1] \notin interrupted.over

LoopShape ==
    ~Quiet =>
      /\ interrupted.op = IF call.op = "rollback" THEN "start" ELSE call.op
      /\ interrupted.arg = call.arg
      /\ interrupted.over = Added
      /\ Distinct(call.todo) /\ Distinct(call.done)
      /\ ToSet(call.todo) \cap ToSet(call.done) = {}
      /\ call.op # "rollback" => ToSet(call.todo) \cup ToSet(call.done) = Added

LoopProgress ==
    ~Quiet =>
      /\ call.op # "rollback" =>
           /\ \A t \in ToSet(call.todo) : segment[t] = Before(t)
           /\ \A t \in ToSet(call.done) : segment[t] = After(t)
      /\ call.op = "rollback" =>
           /\ \A t \in ToSet(call.todo) : segment[t] = After(t)
           /\ \A t \in Added \ ToSet(call.todo) : segment[t] = Before(t)
      /\ call.op = "set_revision" =>
           \A t \in ToSet(call.done) : Before(t).history = <<>>

(* All indices of the list are in step between the loops, because each loop  *)
(* starts from indices in step and does the same to all of them.             *)
SyncInv ==
    /\ TypeInv /\ ProcessSound /\ HandlesFull
    /\ QuietSync /\ LoopAtomic /\ LoopShape /\ LoopProgress

-----------------------------------------------------------------------------
Present == {t \in Types : segment[t] # NoIndex}

AllInSync == \A t, u \in Present : SameRange(segment[t], segment[u])

(* An intact file that lacks an index has only been opened, never used: all  *)
(* its indices are fresh.  A process that uses it has all of them in the     *)
(* list.                                                                     *)
IntactInv ==
    /\ process \in {"opening", "running"} => dirty
    /\ process = "running" /\ intact => Added = Types
    /\ intact /\ Present # Types => \A t \in Present : segment[t] = FreshIndex
    /\ intact /\ (process \in {"opening", "reading"} \/ (process = "down" /\ ~dirty))
         => AllInSync

CleanInv == SyncInv /\ IntactInv

-----------------------------------------------------------------------------
(* Below the d newest sessions of x lies one that started with table v. *)
Saves(x, d, v) ==
    LET k == Len(x.history) - d
    IN  k >= 1 /\ x.history[k] = v

(* The table a session object saved is at its place in the undo stacks: one  *)
(* session per object above it.                                              *)
Claim(seg, i, n) ==
    \A t \in Added : Saves(seg[t], n - i, handles[i].saved[t])

Claims(seg) ==
    \A i \in DOMAIN handles : handles[i].mine => Claim(seg, i, Len(handles))

Undisturbed ==
    ~Quiet /\ call.op \notin {"start", "rollback"} =>
      \A i \in DOMAIN handles :
        handles[i].mine => call.op \in {"undo", "squash"} /\ call.handle = Len(handles)

(* Between the loops the undo stacks hold what the session objects saved;    *)
(* during one, they did so when it began.                                    *)
SessionInv ==
    /\ SyncInv
    /\ Quiet => Claims(segment)
    /\ ~Quiet => Claims(interrupted.before)
    /\ Undisturbed

-----------------------------------------------------------------------------
(***************************************************************************)
(* Sequences.                                                              *)
(***************************************************************************)

(* pop_back. *)
LEMMA FrontSeq ==
    ASSUME NEW S, NEW s \in Seq(S), s # <<>>
    PROVE  /\ Front(s) \in Seq(S)
           /\ Len(s) >= 1
           /\ Len(Front(s)) = Len(s) - 1
           /\ \A i \in 1 .. Len(s) - 1 : Front(s)[i] = s[i]
           /\ Last(s) = s[Len(s)]
           /\ Last(s) \in S
<1> DEFINE n == Len(s) - 1
<1>1. Len(s) \in Nat /\ Len(s) >= 1
  BY EmptySeq, LenProperties
<1>2. /\ 1 \in Int /\ n \in Nat /\ n \in Int
      /\ \A i \in 1 .. n : s[i] \in S
  BY <1>1
<1>3. Front(s) = SubSeq(s, 1, n)
  BY DEF Front
<1>4. Last(s) = s[Len(s)] /\ s[Len(s)] \in S
  BY <1>1 DEF Last
<1> HIDE DEF n
<1>5. /\ SubSeq(s, 1, n) \in Seq(S)
      /\ Len(SubSeq(s, 1, n)) = IF 1 <= n THEN n - 1 + 1 ELSE 0
      /\ \A i \in 1 .. n - 1 + 1 : SubSeq(s, 1, n)[i] = s[1 + i - 1]
  BY <1>2, SubSeqProperties
<1>6. Len(SubSeq(s, 1, n)) = n /\ \A i \in 1 .. n : SubSeq(s, 1, n)[i] = s[i]
  BY <1>2, <1>5
<1> QED BY <1>1, <1>3, <1>4, <1>5, <1>6 DEF n

(* emplace_back. *)
LEMMA AppendSeq ==
    ASSUME NEW S, NEW s \in Seq(S), NEW e \in S
    PROVE  /\ Append(s, e) \in Seq(S)
           /\ Append(s, e) # <<>>
           /\ Len(Append(s, e)) = Len(s) + 1
           /\ Append(s, e)[Len(s) + 1] = e
           /\ \A i \in 1 .. Len(s) : Append(s, e)[i] = s[i]
           /\ Front(Append(s, e)) = s
           /\ Last(Append(s, e)) = e
<1> DEFINE a == Append(s, e)
<1>1. /\ a \in Seq(S) /\ Len(a) = Len(s) + 1 /\ a[Len(s) + 1] = e
      /\ \A i \in 1 .. Len(s) : a[i] = s[i]
  OBVIOUS
<1> HIDE DEF a
<1>2. Len(s) \in Nat
  OBVIOUS
<1>3. a # <<>>
  BY <1>1, <1>2, EmptySeq
<1>4. /\ Front(a) \in Seq(S) /\ Len(Front(a)) = Len(s)
      /\ \A i \in 1 .. Len(s) : Front(a)[i] = s[i]
  BY <1>1, <1>2, <1>3, FrontSeq
<1>5. Front(a) = s
  BY <1>4, SeqEqual
<1>6. Last(a) = e
  BY <1>1 DEF Last
<1> QED BY <1>1, <1>3, <1>5, <1>6 DEF a

(* The elements of an extended sequence. *)
LEMMA AppendSet ==
    ASSUME NEW S, NEW s \in Seq(S), NEW e \in S
    PROVE  /\ ToSet(Append(s, e)) = ToSet(s) \cup {e}
           /\ Distinct(s) /\ e \notin ToSet(s) => Distinct(Append(s, e))
<1> DEFINE a == Append(s, e)
<1>1. /\ a \in Seq(S) /\ Len(a) = Len(s) + 1 /\ a[Len(s) + 1] = e
      /\ \A i \in 1 .. Len(s) : a[i] = s[i]
  BY AppendSeq
<1> HIDE DEF a
<1>2. Len(s) \in Nat /\ DOMAIN s = 1 .. Len(s) /\ DOMAIN a = 1 .. Len(s) + 1
  BY <1>1
<1>3. ToSet(a) = ToSet(s) \cup {e}
  BY <1>1, <1>2 DEF ToSet
<1>4. ASSUME Distinct(s), e \notin ToSet(s) PROVE Distinct(a)
  <2> SUFFICES ASSUME NEW i \in DOMAIN a, NEW j \in DOMAIN a, a[i] = a[j] PROVE i = j
    BY DEF Distinct
  <2>1. \A k \in 1 .. Len(s) : s[k] # e
    BY <1>2, <1>4 DEF ToSet
  <2>2. CASE i \in 1 .. Len(s) /\ j \in 1 .. Len(s)
    BY <1>1, <1>2, <1>4, <2>2 DEF Distinct
  <2>3. CASE ~(i \in 1 .. Len(s) /\ j \in 1 .. Len(s))
    BY <1>1, <1>2, <2>1, <2>3
  <2> QED BY <2>2, <2>3
<1> QED BY <1>3, <1>4 DEF a

(* The next element of a loop, and the ones after it. *)
LEMMA TailSet ==
    ASSUME NEW S, NEW s \in Seq(S), s # <<>>
    PROVE  /\ s[1] \in S /\ s[1] \in ToSet(s)
           /\ Tail(s) \in Seq(S)
           /\ ToSet(s) = {s[1]} \cup ToSet(Tail(s))
           /\ Distinct(s) => Distinct(Tail(s)) /\ s[1] \notin ToSet(Tail(s))
<1> DEFINE r == Tail(s)
<1>1. Len(s) \in Nat /\ Len(s) >= 1
  BY EmptySeq, LenProperties
<1>2. /\ r \in Seq(S) /\ Len(r) = Len(s) - 1
      /\ \A i \in 1 .. Len(r) : r[i] = s[i + 1]
  BY <1>1
<1> HIDE DEF r
<1>3. DOMAIN s = 1 .. Len(s) /\ DOMAIN r = 1 .. Len(s) - 1
  BY <1>2
<1>4. s[1] \in S /\ s[1] \in ToSet(s)
  BY <1>1, <1>3 DEF ToSet
<1>5. ToSet(s) = {s[1]} \cup ToSet(r)
  <2>1. \A i \in DOMAIN s : i = 1 \/ (i - 1 \in DOMAIN r /\ s[i] = r[i - 1])
    BY <1>1, <1>2, <1>3
  <2>2. \A i \in DOMAIN r : i + 1 \in DOMAIN s /\ r[i] = s[i + 1]
    BY <1>1, <1>2, <1>3
  <2>3. 1 \in DOMAIN s
    BY <1>1, <1>3
  <2> QED BY <2>1, <2>2, <2>3 DEF ToSet
<1>6. ASSUME Distinct(s) PROVE Distinct(r) /\ s[1] \notin ToSet(r)
  <2>1. \A i \in DOMAIN r : i + 1 \in DOMAIN s /\ r[i] = s[i + 1] /\ i \in Nat /\ i >= 1
    BY <1>1, <1>2, <1>3
  <2>2. 1 \in DOMAIN s
    BY <1>1, <1>3
  <2>3. Distinct(r)
    <3> SUFFICES ASSUME NEW i \in DOMAIN r, NEW j \in DOMAIN r, r[i] = r[j] PROVE i = j
      BY DEF Distinct
    <3>1. i + 1 = j + 1
      BY <1>6, <2>1 DEF Distinct
    <3> QED BY <2>1, <3>1
  <2>4. \A i \in DOMAIN r : r[i] # s[1]
    <3> SUFFICES ASSUME NEW i \in DOMAIN r, r[i] = s[1] PROVE FALSE
      OBVIOUS
    <3>1. i + 1 = 1
      BY <1>6, <2>1, <2>2 DEF Distinct
    <3> QED BY <2>1, <3>1
  <2> QED BY <2>3, <2>4 DEF ToSet
<1> QED BY <1>2, <1>4, <1>5, <1>6 DEF r

(* The empty sequence. *)
LEMMA EmptySet == ToSet(<<>>) = {} /\ Distinct(<<>>)
BY DEF ToSet, Distinct

(* The elements of a sequence are of its type. *)
LEMMA SetType ==
    ASSUME NEW S, NEW s \in Seq(S)
    PROVE  ToSet(s) \subseteq S /\ (s # <<>> => s[1] \in ToSet(s))
<1>1. ToSet(s) \subseteq S
  BY DEF ToSet
<1> QED BY <1>1, TailSet

-----------------------------------------------------------------------------
(***************************************************************************)
(* What one iteration does to one index.                                   *)
(***************************************************************************)
IndexRecords == [table : Tables, history : Seq(Tables), revision : Int]

LEMMA IndexExcept ==
    ASSUME NEW x \in IndexRecords, NEW h, NEW n
    PROVE  /\ x = [table |-> x.table, history |-> x.history, revision |-> x.revision]
           /\ [x EXCEPT !.history = h] =
                [table |-> x.table, history |-> h, revision |-> x.revision]
           /\ [x EXCEPT !.revision = n] =
                [table |-> x.table, history |-> x.history, revision |-> n]
           /\ [x EXCEPT !.history = h, !.revision = n] =
                [table |-> x.table, history |-> h, revision |-> n]
<1>1. x = [table |-> x.table, history |-> x.history, revision |-> x.revision]
  BY DEF IndexRecords
<1>2. [x EXCEPT !.history = h] =
        [table |-> x.table, history |-> h, revision |-> x.revision]
  BY DEF IndexRecords
<1>3. [x EXCEPT !.revision = n] =
        [table |-> x.table, history |-> x.history, revision |-> n]
  BY DEF IndexRecords
<1>4. [x EXCEPT !.history = h, !.revision = n] =
        [table |-> x.table, history |-> h, revision |-> n]
  <2> DEFINE y == [x EXCEPT !.history = h, !.revision = n]
  <2>1. y \in [table : Tables, history : {h}, revision : {n}]
    BY DEF IndexRecords
  <2>2. y.table = x.table /\ y.history = h /\ y.revision = n
    BY DEF IndexRecords
  <2> HIDE DEF y
  <2>3. y = [table |-> y.table, history |-> y.history, revision |-> y.revision]
    BY <2>1
  <2> QED BY <2>2, <2>3 DEF y
<1> QED BY <1>1, <1>2, <1>3, <1>4

LEMMA SetShape ==
    ASSUME NEW x \in IndexRecords, NEW r
    PROVE  SetRevisionOne(x, r) = [table |-> x.table, history |-> x.history, revision |-> r]
BY IndexExcept DEF SetRevisionOne

(* Nothing happens to an index with an empty undo stack. *)
LEMMA EmptyShape ==
    ASSUME NEW x, x.history = <<>>
    PROVE  UndoOne(x) = x /\ SquashOne(x) = x /\ UndoAllOne(x) = x
BY DEF UndoOne, SquashOne, UndoAllOne

LEMMA StartShape ==
    ASSUME NEW x \in IndexRecords
    PROVE  StartOne(x) = [table |-> x.table, history |-> Append(x.history, x.table),
                          revision |-> x.revision + 1]
<1>1. StartOne(x) = [x EXCEPT !.history = Append(x.history, x.table),
                              !.revision = x.revision + 1]
  BY DEF StartOne
<1> QED BY <1>1, IndexExcept

LEMMA SquashShape ==
    ASSUME NEW x \in IndexRecords, x.history # <<>>
    PROVE  SquashOne(x) = [table |-> x.table, history |-> Front(x.history),
                           revision |-> x.revision - 1]
BY DEF SquashOne, IndexRecords

LEMMA UndoShape ==
    ASSUME NEW x \in IndexRecords, x.history # <<>>
    PROVE  UndoOne(x) = [table |-> Last(x.history), history |-> Front(x.history),
                         revision |-> x.revision - 1]
BY SquashShape DEF UndoOne

(* commit drops the oldest sessions, and all of them when its revision is    *)
(* the newest one's or a later one.                                          *)
LEMMA CommitShape ==
    ASSUME NEW x \in IndexRecords, SoundIndex(x), NEW r \in Revisions, r > RangeBegin(x)
    PROVE  LET y == CommitOne(x, r)
               n == r - RangeBegin(x)
           IN  /\ y.table = x.table /\ y.revision = x.revision
               /\ y.history \in Seq(Tables)
               /\ Len(y.history) = IF n >= Len(x.history) THEN 0 ELSE Len(x.history) - n
               /\ y = [table |-> x.table, history |-> y.history, revision |-> x.revision]
<1> DEFINE n == r - RangeBegin(x)
           h == x.history
           c == SubSeq(h, n + 1, Len(h))
<1>1. h \in Seq(Tables) /\ x.revision \in Nat /\ r \in Nat /\ Len(h) \in Nat
  BY BoundsAssumption DEF SoundIndex, Indices, Revisions
<1>2. n \in Nat /\ n >= 1
  BY <1>1 DEF RangeBegin
<1>3. CommitOne(x, r) = [table |-> x.table, history |-> c, revision |-> x.revision]
  <2>1. ~(r <= RangeBegin(x))
    BY <1>1 DEF RangeBegin
  <2>2. CommitOne(x, r) = [x EXCEPT !.history = c]
    BY <2>1 DEF CommitOne
  <2> HIDE DEF c
  <2> QED BY <2>2, IndexExcept
<1> HIDE DEF n, h
<1>4. c \in Seq(Tables) /\ Len(c) = IF n >= Len(h) THEN 0 ELSE Len(h) - n
  <2>1. /\ n + 1 \in Int /\ Len(h) \in Int
        /\ \A i \in n + 1 .. Len(h) : h[i] \in Tables
    BY <1>1, <1>2
  <2>2. /\ c \in Seq(Tables)
        /\ Len(c) = IF n + 1 <= Len(h) THEN Len(h) - (n + 1) + 1 ELSE 0
    BY <2>1, SubSeqProperties
  <2> QED BY <1>1, <1>2, <2>2
<1> HIDE DEF c
<1> QED BY <1>3, <1>4 DEF n, h

(* The method of the index that each loop calls. *)
LEMMA ApplyCases ==
    ASSUME NEW r, NEW x
    PROVE  /\ Apply("start", r, x) = StartOne(x)
           /\ Apply("undo", r, x) = UndoOne(x)
           /\ Apply("rollback", r, x) = UndoOne(x)
           /\ Apply("squash", r, x) = SquashOne(x)
           /\ Apply("commit", r, x) = CommitOne(x, r)
           /\ Apply("undo_all", r, x) = UndoAllOne(x)
           /\ Apply("set_revision", r, x) = SetRevisionOne(x, r)
BY DEF Apply

LEMMA IndexFacts ==
    ASSUME NEW x, SoundIndex(x)
    PROVE  /\ x \in IndexRecords /\ x.table \in Tables /\ x.history \in Seq(Tables)
           /\ x.revision \in Nat /\ x.revision <= MaxRevision
           /\ Len(x.history) \in Nat /\ Len(x.history) <= x.revision
           /\ MaxRevision \in Nat
           /\ x.history = <<>> <=> Len(x.history) = 0
<1>1. x \in Indices /\ x.table \in Tables /\ x.history \in Seq(Tables)
      /\ x.revision \in 0 .. MaxRevision /\ Len(x.history) <= x.revision
  BY DEF SoundIndex, Indices, Revisions
<1>2. MaxRevision \in Nat
  BY BoundsAssumption
<1>3. Len(x.history) \in Nat /\ (x.history = <<>> <=> Len(x.history) = 0)
  BY <1>1, EmptySeq
<1>4. x \in IndexRecords
  BY <1>1, <1>2 DEF Indices, Revisions, IndexRecords
<1> QED BY <1>1, <1>2, <1>3, <1>4

LEMMA SoundRecord ==
    ASSUME NEW t \in Tables, NEW h \in Seq(Tables), NEW n \in Nat, n <= MaxRevision,
           Len(h) <= n, NEW x, x = [table |-> t, history |-> h, revision |-> n]
    PROVE  SoundIndex(x)
<1>1. n \in Revisions
  BY BoundsAssumption DEF Revisions
<1> QED BY <1>1 DEF SoundIndex, Indices

LEMMA FreshSound == SoundIndex(FreshIndex)
<1>1. <<>> \in Seq(Tables) /\ Len(<<>>) = 0 /\ 0 \in Nat /\ 0 <= MaxRevision
  BY EmptySeq, BoundsAssumption
<1>2. FreshIndex = [table |-> EmptyTable, history |-> <<>>, revision |-> 0]
  BY DEF FreshIndex
<1> HIDE DEF FreshIndex
<1>3. Len(<<>>) <= 0
  BY <1>1
<1> QED BY <1>1, <1>2, <1>3, EmptyTableAssumption, SoundRecord

(* Every loop leaves a sound index, where its caller may run it. *)
LEMMA ApplySound ==
    ASSUME NEW x, SoundIndex(x), NEW r \in Revisions, NEW op \in Ops \cup {"rollback"},
           op = "start" => x.revision < MaxRevision,
           op = "set_revision" => x.history = <<>>
    PROVE  SoundIndex(Apply(op, r, x))
<1>0. /\ x \in IndexRecords /\ x.table \in Tables /\ x.history \in Seq(Tables)
      /\ x.revision \in Nat /\ x.revision <= MaxRevision
      /\ Len(x.history) \in Nat /\ Len(x.history) <= x.revision
      /\ MaxRevision \in Nat
      /\ x.history = <<>> <=> Len(x.history) = 0
  BY IndexFacts
<1>1. CASE op = "start"
  <2>1. Append(x.history, x.table) \in Seq(Tables)
        /\ Len(Append(x.history, x.table)) = Len(x.history) + 1
    BY <1>0, AppendSeq
  <2>2. x.revision + 1 \in Nat /\ x.revision + 1 <= MaxRevision
    BY <1>0, <1>1
  <2>3. Apply(op, r, x) = [table |-> x.table, history |-> Append(x.history, x.table),
                           revision |-> x.revision + 1]
    BY <1>0, <1>1, StartShape, ApplyCases
  <2>4. Len(x.history) + 1 <= x.revision + 1
    BY <1>0
  <2> QED BY <1>0, <2>1, <2>2, <2>3, <2>4, SoundRecord
<1>2. CASE op \in {"undo", "rollback", "squash"}
  <2>1. CASE x.history = <<>>
    BY <1>2, <2>1, EmptyShape, ApplyCases
  <2>2. CASE x.history # <<>>
    <3>1. /\ Front(x.history) \in Seq(Tables) /\ Len(Front(x.history)) = Len(x.history) - 1
          /\ Last(x.history) \in Tables /\ Len(x.history) >= 1
      BY <1>0, <2>2, FrontSeq
    <3>2. PICK t \in Tables :
            Apply(op, r, x) = [table |-> t, history |-> Front(x.history),
                               revision |-> x.revision - 1]
      BY <1>0, <1>2, <2>2, <3>1, SquashShape, UndoShape, ApplyCases
    <3>3. /\ x.revision - 1 \in Nat /\ x.revision - 1 <= MaxRevision
          /\ Len(Front(x.history)) <= x.revision - 1
      BY <1>0, <3>1
    <3> QED BY <3>1, <3>2, <3>3, SoundRecord
  <2> QED BY <2>1, <2>2
<1>3. CASE op = "commit"
  <2>1. CASE r <= RangeBegin(x)
    BY <1>3, <2>1, ApplyCases DEF CommitOne
  <2>2. CASE r > RangeBegin(x)
    <3> DEFINE y == CommitOne(x, r)
               n == r - RangeBegin(x)
    <3>1. /\ y.history \in Seq(Tables)
          /\ Len(y.history) = IF n >= Len(x.history) THEN 0 ELSE Len(x.history) - n
          /\ y = [table |-> x.table, history |-> y.history, revision |-> x.revision]
      BY <1>0, <2>2, CommitShape
    <3>2. n \in Nat
      BY <1>0, <2>2, BoundsAssumption DEF RangeBegin, Revisions
    <3> HIDE DEF y, n
    <3>3. Len(y.history) <= x.revision
      BY <1>0, <3>1, <3>2
    <3>4. SoundIndex(y)
      BY <1>0, <3>1, <3>3, SoundRecord
    <3> QED BY <1>3, <3>4, ApplyCases DEF y
  <2>3. r <= RangeBegin(x) \/ r > RangeBegin(x)
    BY <1>0, BoundsAssumption DEF RangeBegin, Revisions
  <2> QED BY <2>1, <2>2, <2>3
<1>4. CASE op = "undo_all"
  <2>1. CASE x.history = <<>>
    BY <1>4, <2>1, ApplyCases DEF UndoAllOne
  <2>2. CASE x.history # <<>>
    <3>1. x.history[1] \in Tables
      BY <1>0, <2>2, TailSet
    <3>2. Apply(op, r, x) = [table |-> x.history[1], history |-> <<>>,
                             revision |-> x.revision - Len(x.history)]
      BY <1>4, <2>2, ApplyCases DEF UndoAllOne
    <3>3. /\ x.revision - Len(x.history) \in Nat
          /\ x.revision - Len(x.history) <= MaxRevision
          /\ <<>> \in Seq(Tables) /\ Len(<<>>) <= x.revision - Len(x.history)
      BY <1>0, EmptySeq
    <3> QED BY <3>1, <3>2, <3>3, SoundRecord
  <2> QED BY <2>1, <2>2
<1>5. CASE op = "set_revision"
  <2>1. Apply(op, r, x) = [table |-> x.table, history |-> x.history, revision |-> r]
    BY <1>0, <1>5, SetShape, ApplyCases
  <2>2. r \in Nat /\ r <= MaxRevision /\ Len(x.history) <= r
    BY <1>0, <1>5, BoundsAssumption DEF Revisions
  <2> QED BY <1>0, <2>1, <2>2, SoundRecord
<1> QED BY <1>1, <1>2, <1>3, <1>4, <1>5 DEF Ops

(* The session that a rollback undoes leaves no trace. *)
LEMMA UndoStart ==
    ASSUME NEW x, SoundIndex(x)
    PROVE  UndoOne(StartOne(x)) = x
<1> DEFINE h == Append(x.history, x.table)
           y == [table |-> x.table, history |-> h, revision |-> x.revision + 1]
<1>0. /\ x \in IndexRecords /\ x.table \in Tables /\ x.history \in Seq(Tables)
      /\ x.revision \in Nat
  BY IndexFacts
<1>1. StartOne(x) = y
  BY <1>0, StartShape
<1>2. h \in Seq(Tables) /\ h # <<>> /\ Front(h) = x.history /\ Last(h) = x.table
  BY <1>0, AppendSeq
<1> HIDE DEF h
<1>3. UndoOne(y) = [table |-> x.table, history |-> x.history, revision |-> x.revision]
  <2>1. y.history # <<>> /\ y.history = h /\ y.revision = x.revision + 1 /\ y.table = x.table
    BY <1>2
  <2>2. y \in IndexRecords
    BY <1>0, <1>2 DEF IndexRecords
  <2>3. UndoOne(y) = [table |-> Last(h), history |-> Front(h), revision |-> y.revision - 1]
    BY <2>1, <2>2, UndoShape
  <2> QED BY <1>0, <1>2, <2>1, <2>3
<1> QED BY <1>0, <1>1, <1>3, IndexExcept

(* Where the range of an index stays, so does the index: no loop changes a   *)
(* table or a stack without moving an end of the range.                      *)
LEMMA ApplyVisible ==
    ASSUME NEW x, SoundIndex(x), NEW r \in Revisions, NEW op \in Ops,
           SameRange(Apply(op, r, x), x)
    PROVE  Apply(op, r, x) = x
<1>0. /\ x \in IndexRecords /\ x.table \in Tables /\ x.history \in Seq(Tables)
      /\ x.revision \in Nat /\ x.revision <= MaxRevision
      /\ Len(x.history) \in Nat /\ Len(x.history) <= x.revision
      /\ x.history = <<>> <=> Len(x.history) = 0
  BY IndexFacts
<1>1. CASE op = "start"
  <2>1. Apply(op, r, x).revision = x.revision + 1
    BY <1>0, <1>1, StartShape, ApplyCases
  <2> QED BY <1>0, <2>1 DEF SameRange
<1>2. CASE op \in {"undo", "squash"}
  <2>1. CASE x.history = <<>>
    BY <1>2, <2>1, EmptyShape, ApplyCases
  <2>2. CASE x.history # <<>>
    <3>1. Apply(op, r, x).revision = x.revision - 1
      BY <1>0, <1>2, <2>2, SquashShape, UndoShape, ApplyCases
    <3> QED BY <1>0, <3>1 DEF SameRange
  <2> QED BY <2>1, <2>2
<1>3. CASE op = "commit"
  <2>1. CASE r <= RangeBegin(x)
    BY <1>3, <2>1, ApplyCases DEF CommitOne
  <2>2. CASE r > RangeBegin(x)
    <3> DEFINE y == CommitOne(x, r)
               n == r - RangeBegin(x)
    <3>1. /\ y.history \in Seq(Tables) /\ y.revision = x.revision
          /\ Len(y.history) = IF n >= Len(x.history) THEN 0 ELSE Len(x.history) - n
          /\ y = [table |-> x.table, history |-> y.history, revision |-> x.revision]
      BY <1>0, <2>2, CommitShape
    <3>2. n \in Nat /\ n >= 1
      BY <1>0, <2>2, BoundsAssumption DEF RangeBegin, Revisions
    <3>3. SameRange(y, x)
      BY <1>3, ApplyCases
    <3> HIDE DEF y, n
    <3>4. Len(y.history) = Len(x.history)
      BY <1>0, <3>1, <3>3 DEF SameRange, RangeBegin
    <3>5. Len(x.history) = 0
      BY <1>0, <3>1, <3>2, <3>4
    <3>6. y.history = x.history
      BY <1>0, <3>1, <3>4, <3>5, EmptySeq
    <3>7. y = x
      BY <1>0, <3>1, <3>6, IndexExcept
    <3> QED BY <1>3, <3>7, ApplyCases DEF y
  <2>3. r <= RangeBegin(x) \/ r > RangeBegin(x)
    BY <1>0, BoundsAssumption DEF RangeBegin, Revisions
  <2> QED BY <2>1, <2>2, <2>3
<1>4. CASE op = "undo_all"
  <2>1. CASE x.history = <<>>
    BY <1>4, <2>1, ApplyCases DEF UndoAllOne
  <2>2. CASE x.history # <<>>
    <3>1. Apply(op, r, x).revision = x.revision - Len(x.history)
      BY <1>4, <2>2, ApplyCases DEF UndoAllOne
    <3> QED BY <1>0, <2>2, <3>1 DEF SameRange
  <2> QED BY <2>1, <2>2
<1>5. CASE op = "set_revision"
  <2>1. Apply(op, r, x) = [table |-> x.table, history |-> x.history, revision |-> r]
    BY <1>0, <1>5, SetShape, ApplyCases
  <2>2. r = x.revision
    BY <2>1 DEF SameRange
  <2> QED BY <1>0, <2>1, <2>2, IndexExcept
<1> QED BY <1>1, <1>2, <1>3, <1>4, <1>5 DEF Ops

(* The end of the range and the length of the stack after a loop depend on   *)
(* the range before it alone.                                                *)
LEMMA ApplySync ==
    ASSUME NEW x, NEW y, SoundIndex(x), SoundIndex(y), SameRange(x, y),
           NEW r \in Revisions, NEW op \in Ops
    PROVE  SameRange(Apply(op, r, x), Apply(op, r, y))
<1>0. /\ x \in IndexRecords /\ x.table \in Tables /\ x.history \in Seq(Tables)
      /\ x.revision \in Nat /\ Len(x.history) \in Nat /\ Len(x.history) <= x.revision
      /\ x.history = <<>> <=> Len(x.history) = 0
  BY IndexFacts
<1>00. /\ y \in IndexRecords /\ y.table \in Tables /\ y.history \in Seq(Tables)
       /\ y.revision \in Nat /\ Len(y.history) \in Nat /\ Len(y.history) <= y.revision
       /\ y.history = <<>> <=> Len(y.history) = 0
  BY IndexFacts
<1>000. x.revision = y.revision /\ Len(x.history) = Len(y.history)
  BY <1>0, <1>00 DEF SameRange, RangeBegin
<1> DEFINE X == Apply(op, r, x)
           Y == Apply(op, r, y)
<1> SUFFICES X.revision = Y.revision /\ Len(X.history) = Len(Y.history)
  BY DEF SameRange, RangeBegin
<1>1. CASE op = "start"
  <2>1. /\ X.revision = x.revision + 1 /\ X.history = Append(x.history, x.table)
        /\ Y.revision = y.revision + 1 /\ Y.history = Append(y.history, y.table)
    BY <1>0, <1>00, <1>1, StartShape, ApplyCases
  <2>2. Len(Append(x.history, x.table)) = Len(x.history) + 1
    BY <1>0, AppendSeq
  <2>3. Len(Append(y.history, y.table)) = Len(y.history) + 1
    BY <1>00, AppendSeq
  <2> QED BY <1>000, <2>1, <2>2, <2>3
<1>2. CASE op \in {"undo", "squash"}
  <2>1. CASE x.history = <<>>
    <3>1. X = x /\ Y = y
      BY <1>0, <1>00, <1>000, <1>2, <2>1, EmptyShape, ApplyCases
    <3> QED BY <1>000, <3>1
  <2>2. CASE x.history # <<>>
    <3>0. y.history # <<>>
      BY <1>0, <1>00, <1>000, <2>2
    <3>1. /\ X.revision = x.revision - 1 /\ X.history = Front(x.history)
          /\ Y.revision = y.revision - 1 /\ Y.history = Front(y.history)
      BY <1>0, <1>00, <1>2, <2>2, <3>0, SquashShape, UndoShape, ApplyCases
    <3>2. Len(Front(x.history)) = Len(x.history) - 1
      BY <1>0, <2>2, FrontSeq
    <3>3. Len(Front(y.history)) = Len(y.history) - 1
      BY <1>00, <3>0, FrontSeq
    <3> QED BY <1>000, <3>1, <3>2, <3>3
  <2> QED BY <2>1, <2>2
<1>3. CASE op = "commit"
  <2>0. RangeBegin(x) = RangeBegin(y)
    BY <1>000 DEF RangeBegin
  <2>1. CASE r <= RangeBegin(x)
    <3>1. X = x /\ Y = y
      BY <1>3, <2>0, <2>1, ApplyCases DEF CommitOne
    <3> QED BY <1>000, <3>1
  <2>2. CASE r > RangeBegin(x)
    <3> DEFINE n == r - RangeBegin(x)
    <3>1. /\ X.revision = x.revision
          /\ Len(X.history) = IF n >= Len(x.history) THEN 0 ELSE Len(x.history) - n
      BY <1>0, <1>3, <2>2, CommitShape, ApplyCases
    <3>2. /\ Y.revision = y.revision
          /\ Len(Y.history) = IF n >= Len(y.history) THEN 0 ELSE Len(y.history) - n
      BY <1>00, <1>3, <2>0, <2>2, CommitShape, ApplyCases
    <3> HIDE DEF n, X, Y
    <3> QED BY <1>000, <3>1, <3>2
  <2>3. r <= RangeBegin(x) \/ r > RangeBegin(x)
    BY <1>0, BoundsAssumption DEF RangeBegin, Revisions
  <2> QED BY <2>1, <2>2, <2>3
<1>4. CASE op = "undo_all"
  <2>1. CASE x.history = <<>>
    BY <1>0, <1>00, <1>000, <1>4, <2>1, ApplyCases DEF UndoAllOne
  <2>2. CASE x.history # <<>>
    BY <1>0, <1>00, <1>000, <1>4, <2>2, ApplyCases DEF UndoAllOne
  <2> QED BY <2>1, <2>2
<1>5. CASE op = "set_revision"
  <2>1. /\ X = [table |-> x.table, history |-> x.history, revision |-> r]
        /\ Y = [table |-> y.table, history |-> y.history, revision |-> r]
    BY <1>0, <1>00, <1>5, SetShape, ApplyCases
  <2> QED BY <1>000, <2>1
<1> QED BY <1>1, <1>2, <1>3, <1>4, <1>5 DEF Ops

-----------------------------------------------------------------------------
(***************************************************************************)
(* Types.                                                                  *)
(***************************************************************************)
LEMMA TypeFacts ==
    ASSUME TypeInv
    PROVE  /\ segment \in [Types -> Indices \cup {NoIndex}]
           /\ index_list \in Seq(Types) /\ Added \subseteq Types
           /\ handles \in Seq(Handles) /\ Len(handles) \in 0 .. MaxHandles
           /\ call \in Loops /\ MaxHandles \in Nat /\ MaxRevision \in Nat
           /\ \A t \in Added : SoundIndex(segment[t])
           /\ Distinct(index_list)
<1>1. /\ segment \in [Types -> Indices \cup {NoIndex}]
      /\ index_list \in Seq(Types) /\ handles \in Seq(Handles) /\ call \in Loops
  BY DEF TypeInv, TypeOK
<1>2. MaxHandles \in Nat /\ MaxRevision \in Nat
  BY BoundsAssumption
<1>3. Len(handles) \in 0 .. MaxHandles
  BY <1>1, <1>2 DEF TypeInv, HandlesSound
<1>4. Added \subseteq Types
  BY <1>1, SetType DEF Added
<1>5. \A t \in Added : SoundIndex(segment[t])
  BY <1>4 DEF TypeInv, ListSound, IndicesSound
<1> QED BY <1>1, <1>2, <1>3, <1>4, <1>5 DEF TypeInv, ListSound

LEMMA NoCallFacts ==
    /\ NoCall \in Loops /\ NoCall.op = "none" /\ NoCall.arg = 0
    /\ NoCall.todo = <<>> /\ NoCall.done = <<>> /\ NoCall.handle = 0
<1>1. 0 \in Revisions /\ 0 \in 0 .. MaxHandles /\ <<>> \in Seq(Types)
  BY BoundsAssumption, EmptySeq DEF Revisions
<1> QED BY <1>1 DEF NoCall, Loops

(* What the type invariant says of the fields of a loop. *)
LEMMA CallFacts ==
    ASSUME TypeInv
    PROVE  /\ call.todo \in Seq(Types) /\ call.done \in Seq(Types)
           /\ call.arg \in Revisions /\ call.handle \in 0 .. Len(handles)
           /\ call.op \notin {"none", "add"} => call.op \in Ops \cup {"rollback"}
<1>1. call \in Loops /\ Len(handles) \in Nat
  BY TypeFacts
<1>2. call.handle <= Len(handles)
  BY DEF TypeInv, CallSound
<1> QED BY <1>1, <1>2, BoundsAssumption DEF Loops, Ops

(* The variables that no part of the invariant but TypeOK mentions. *)
RestTyped ==
    /\ process' \in {"down", "opening", "running", "reading"}
    /\ dirty' \in BOOLEAN /\ intact' \in BOOLEAN /\ whole' \in BOOLEAN /\ torn' \in BOOLEAN

LEMMA RestStep == TypeInv /\ [Next]_vars => RestTyped
<1> SUFFICES ASSUME TypeInv, [Next]_vars PROVE RestTyped
  OBVIOUS
<1>0. /\ process \in {"down", "opening", "running", "reading"}
      /\ dirty \in BOOLEAN /\ intact \in BOOLEAN /\ whole \in BOOLEAN /\ torn \in BOOLEAN
  BY DEF TypeInv, TypeOK
<1> USE <1>0 DEF RestTyped
<1>1. CASE Lifecycle
  BY <1>1 DEF Lifecycle, Open, Close, Crash, Ended, AddExisting, AddNew, AddStep, AddThrows, Accept
<1>2. CASE Calls
  <2>1. ASSUME NEW op, NEW r, NEW subs, NEW h, Begin(op, r, subs, h) PROVE RestTyped
    BY <2>1 DEF Begin
  <2>2. ASSUME NEW t, NEW v, Write(t, v) PROVE RestTyped
    BY <2>2 DEF Write
  <2>3. ASSUME NEW h, Push(h) PROVE RestTyped
    BY <2>3 DEF Push
  <2> QED BY <1>2, <2>1, <2>2, <2>3 DEF Calls, DatabaseCall, start_undo_session, HandleCall
<1>3. CASE Loop
  BY <1>3 DEF Loop, LoopStep, SetRevisionThrows, StartThrows, LoopReturns
<1>4. CASE UNCHANGED vars
  BY <1>4 DEF vars
<1>5. CASE IterationThrows
  BY <1>5 DEF IterationThrows
<1> QED BY <1>1, <1>2, <1>3, <1>4, <1>5 DEF Next

(* A step that changes none of the variables the invariant is about. *)
LEMMA TypeUnchanged ==
    ASSUME TypeInv, RestTyped, UNCHANGED <<segment, index_list, handles, call>>
    PROVE  TypeInv'
BY DEF TypeInv, TypeOK, RestTyped, IndicesSound, ListSound, HandlesSound, CallSound,
       CatchesUp, Added

(* One index changes and stays sound. *)
LEMMA SegmentStep ==
    ASSUME TypeInv, NEW t \in Types, NEW y, SoundIndex(y),
           segment' = [segment EXCEPT ![t] = y]
    PROVE  /\ segment' \in [Types -> Indices \cup {NoIndex}]
           /\ IndicesSound'
           /\ segment'[t] = y
           /\ \A u \in Types \ {t} : segment'[u] = segment[u]
           /\ \A u \in Types : segment[u] \in Indices => segment'[u] \in Indices
<1>1. segment \in [Types -> Indices \cup {NoIndex}] /\ y \in Indices
  BY TypeFacts DEF SoundIndex
<1>2. /\ segment' \in [Types -> Indices \cup {NoIndex}]
      /\ segment'[t] = y
      /\ \A u \in Types \ {t} : segment'[u] = segment[u]
  BY <1>1
<1>3. IndicesSound'
  <2> SUFFICES ASSUME NEW u \in Types, segment'[u] \in Indices PROVE SoundIndex(segment'[u])
    BY DEF IndicesSound, SoundIndex
  <2>1. CASE u = t
    BY <1>2, <2>1
  <2>2. CASE u # t
    BY <1>2, <2>2 DEF TypeInv, IndicesSound
  <2> QED BY <2>1, <2>2
<1>4. \A u \in Types : segment[u] \in Indices => segment'[u] \in Indices
  BY <1>1, <1>2
<1> QED BY <1>2, <1>3, <1>4

(* The parts of the invariant that speak of no loop. *)
LEMMA TypeIdle ==
    ASSUME RestTyped,
           segment' \in [Types -> Indices \cup {NoIndex}], IndicesSound',
           index_list' \in Seq(Types), ListSound',
           handles' \in Seq(Handles), HandlesSound',
           call' = NoCall
    PROVE  TypeInv'
<1>1. Len(handles') \in Nat
  OBVIOUS
<1>2. CallSound'
  BY <1>1, NoCallFacts DEF CallSound
<1> QED BY <1>2, NoCallFacts DEF TypeInv, TypeOK, RestTyped

(* add_index appends to the list. *)
LEMMA ListStep ==
    ASSUME TypeInv, NEW t \in Types \ Added, segment[t] \in Indices,
           index_list' = Append(index_list, t), UNCHANGED segment
    PROVE  index_list' \in Seq(Types) /\ Added' = Added \cup {t} /\ ListSound'
<1>1. index_list \in Seq(Types) /\ Distinct(index_list)
  BY TypeFacts
<1>2. Added = ToSet(index_list) /\ Added' = ToSet(index_list')
  BY DEF Added
<1>3. /\ ToSet(index_list') = ToSet(index_list) \cup {t} /\ Distinct(index_list')
      /\ index_list' \in Seq(Types)
  BY <1>1, <1>2, AppendSet, AppendSeq
<1>4. \A u \in Added : segment[u] \in Indices
  BY DEF TypeInv, ListSound
<1> QED BY <1>2, <1>3, <1>4 DEF ListSound

LEMMA TypeLifecycle ==
    ASSUME TypeInv, RestTyped, Lifecycle
    PROVE  TypeInv'
<1>0. /\ segment \in [Types -> Indices \cup {NoIndex}] /\ IndicesSound
      /\ index_list \in Seq(Types) /\ Added \subseteq Types
      /\ handles \in Seq(Handles) /\ HandlesSound /\ ListSound
      /\ \A t \in Added : SoundIndex(segment[t])
  BY TypeFacts DEF TypeInv
<1>1. ASSUME NEW how, NEW allow, Open(how, allow) PROVE TypeInv'
  BY <1>1, TypeUnchanged DEF Open
<1>2. ASSUME Ended PROVE TypeInv'
  <2>1. index_list' = <<>> /\ handles' = <<>> /\ call' = NoCall /\ segment' = segment
    BY <1>2 DEF Ended
  <2>2. index_list' \in Seq(Types) /\ handles' \in Seq(Handles) /\ Len(handles') = 0
        /\ DOMAIN handles' = {}
    BY <2>1, EmptySeq
  <2>3. Added' = {} /\ Distinct(index_list')
    BY <2>1, EmptySet DEF Added
  <2>4. ListSound'
    BY <2>3 DEF ListSound
  <2>5. HandlesSound'
    BY <2>2, BoundsAssumption DEF HandlesSound
  <2>6. IndicesSound'
    BY <1>0, <2>1 DEF IndicesSound
  <2> QED BY <1>0, <2>1, <2>2, <2>4, <2>5, <2>6, TypeIdle
<1>3. ASSUME NEW t \in Types, AddExisting(t) PROVE TypeInv'
  <2>1. /\ t \notin Added /\ segment[t] \in Indices
        /\ index_list' = Append(index_list, t)
        /\ segment' = segment /\ handles' = handles /\ call' = NoCall
    BY <1>0, <1>3 DEF AddExisting, Accept, MayAdd
  <2>2. index_list' \in Seq(Types) /\ Added' = Added \cup {t} /\ ListSound'
    BY <2>1, ListStep
  <2>3. HandlesSound' /\ IndicesSound'
    BY <1>0, <2>1, <2>2 DEF HandlesSound, IndicesSound
  <2> QED BY <1>0, <2>1, <2>2, <2>3, TypeIdle
<1>4. ASSUME NEW t \in Types, AddNew(t) PROVE TypeInv'
  <2>1. /\ t \notin Added /\ segment' = [segment EXCEPT ![t] = FreshIndex]
        /\ index_list' = index_list /\ handles' = handles /\ Added' = Added
        /\ call' = [NoCall EXCEPT !.op = "add", !.todo = <<t>>]
    BY <1>4 DEF AddNew, MayAdd, Added
  <2>2. /\ segment' \in [Types -> Indices \cup {NoIndex}] /\ IndicesSound'
        /\ segment'[t] = FreshIndex
        /\ \A u \in Types : segment[u] \in Indices => segment'[u] \in Indices
    BY <2>1, FreshSound, SegmentStep
  <2>3. <<t>> \in Seq(Types)
    OBVIOUS
  <2>4. /\ call' \in Loops /\ call'.op = "add" /\ call'.todo = <<t>> /\ call'.handle = 0
    BY <2>1, <2>3, NoCallFacts DEF Loops
  <2>5. FreshIndex \in Indices
    BY FreshSound DEF SoundIndex
  <2>6. Len(handles) \in Nat
    BY <1>0
  <2>7. CallSound'
    BY <2>1, <2>2, <2>4, <2>5, <2>6 DEF CallSound, CatchesUp
  <2>8. ListSound' /\ HandlesSound'
    BY <1>0, <2>1, <2>2 DEF ListSound, HandlesSound
  <2> QED BY <1>0, <2>1, <2>2, <2>4, <2>7, <2>8 DEF TypeInv, TypeOK, RestTyped
<1>5. ASSUME AddStep PROVE TypeInv'
  <2>1. call.op = "add" /\ handles' = handles
    BY <1>5 DEF AddStep, Accept
  <2>2. PICK t \in Types \ Added :
          call.todo = <<t>> /\ segment[t] \in Indices /\ CatchesUp(segment[t])
    BY <2>1 DEF TypeInv, CallSound
  <2>3. call.todo[1] = t
    BY <2>2
  <2> DEFINE x == segment[t]
  <2>4. SoundIndex(x)
    BY <1>0, <2>2 DEF IndicesSound
  <2>5. CASE Consistent(x)
    <3>1. index_list' = Append(index_list, t) /\ call' = NoCall /\ segment' = segment
      BY <1>5, <2>3, <2>5 DEF AddStep, Accept
    <3>2. index_list' \in Seq(Types) /\ Added' = Added \cup {t} /\ ListSound'
      BY <2>2, <3>1, ListStep
    <3>3. HandlesSound' /\ IndicesSound'
      BY <1>0, <2>1, <3>1, <3>2 DEF HandlesSound, IndicesSound
    <3> QED BY <1>0, <2>1, <3>1, <3>2, <3>3, TypeIdle
  <2>6. CASE ~Consistent(x)
    <3> DEFINE f == segment[index_list[1]]
               begin == RangeBegin(f)
               y == IF RangeBegin(x) # begin THEN SetRevisionOne(x, begin) ELSE StartOne(x)
    <3>1. /\ segment' = [segment EXCEPT ![t] = y]
          /\ index_list' = index_list /\ call' = call
      BY <1>5, <2>3, <2>6 DEF AddStep, Accept
    <3>2. index_list # <<>> /\ ~SameRange(x, f)
      BY <2>6 DEF Consistent
    <3>3. index_list[1] \in Added /\ index_list[1] # t
      BY <1>0, <2>2, <3>2, SetType DEF Added
    <3>4. SoundIndex(f)
      BY <1>0, <3>3
    <3>5. /\ f.revision \in Nat /\ f.revision <= MaxRevision /\ MaxRevision \in Nat
          /\ Len(f.history) \in Nat /\ Len(f.history) <= f.revision
      BY <3>4, IndexFacts
    <3>6. /\ x \in IndexRecords /\ x.table \in Tables /\ x.history \in Seq(Tables)
          /\ x.revision \in Nat /\ Len(x.history) \in Nat
      BY <2>4, IndexFacts
    <3>7. SoundIndex(y) /\ RangeBegin(y) = begin /\ y.revision <= f.revision
      <4>1. CASE RangeBegin(x) # begin
        <5>1. x = FreshIndex
          BY <2>2, <4>1 DEF CatchesUp
        <5>2. x.history = <<>> /\ Len(x.history) = 0
          BY <5>1 DEF FreshIndex
        <5>3. y = [table |-> x.table, history |-> x.history, revision |-> begin]
          BY <3>6, <4>1, SetShape
        <5>4. begin \in Nat /\ begin <= MaxRevision /\ begin <= f.revision
          BY <3>5 DEF RangeBegin
        <5> HIDE DEF x, y, begin, f
        <5>5. SoundIndex(y)
          <6>1. Len(x.history) <= begin
            BY <5>2, <5>4
          <6> QED BY <3>6, <5>3, <5>4, <6>1, SoundRecord
        <5>6. y.revision = begin /\ y.history = x.history
          BY <5>3
        <5> QED BY <5>2, <5>4, <5>5, <5>6 DEF RangeBegin
      <4>2. CASE RangeBegin(x) = begin
        <5>1. x.revision <= f.revision
          <6>1. CASE x = FreshIndex
            BY <3>5, <6>1 DEF FreshIndex
          <6>2. CASE x # FreshIndex
            BY <2>2, <6>2 DEF CatchesUp
          <6> QED BY <6>1, <6>2
        <5>2. x.revision # f.revision
          BY <3>2, <4>2 DEF SameRange
        <5>3. x.revision < f.revision /\ x.revision < MaxRevision
          BY <3>5, <3>6, <5>1, <5>2
        <5>4. y = StartOne(x)
          BY <4>2
        <5>5. SoundIndex(y)
          <6>1. "start" \in Ops \cup {"rollback"} /\ 0 \in Revisions
            BY BoundsAssumption DEF Ops, Revisions
          <6>2. SoundIndex(Apply("start", 0, x))
            BY <2>4, <5>3, <6>1, ApplySound
          <6> QED BY <5>4, <6>2, ApplyCases
        <5>6. Len(Append(x.history, x.table)) = Len(x.history) + 1
          BY <3>6, AppendSeq
        <5>7. y.revision = x.revision + 1 /\ Len(y.history) = Len(x.history) + 1
          BY <3>6, <5>4, <5>6, StartShape
        <5> HIDE DEF x, y, f
        <5>8. RangeBegin(y) = RangeBegin(x)
          BY <3>6, <5>7 DEF RangeBegin
        <5>9. y.revision <= f.revision
          BY <3>5, <3>6, <5>3, <5>7
        <5> QED BY <4>2, <5>5, <5>8, <5>9
      <4> QED BY <4>1, <4>2
    <3> HIDE DEF y
    <3>8. /\ segment' \in [Types -> Indices \cup {NoIndex}] /\ IndicesSound'
          /\ segment'[t] = y
          /\ \A u \in Types \ {t} : segment'[u] = segment[u]
          /\ \A u \in Types : segment[u] \in Indices => segment'[u] \in Indices
      BY <2>2, <3>1, <3>7, SegmentStep
    <3>9. segment'[index_list'[1]] = f /\ index_list' # <<>> /\ Added' = Added
      BY <1>0, <3>1, <3>2, <3>3, <3>8 DEF Added
    <3>10. CatchesUp(segment[t])'
      BY <3>7, <3>8, <3>9 DEF CatchesUp
    <3>11. CallSound'
      <4>1. segment'[t] \in Indices
        BY <2>2, <3>8
      <4>2. call.handle <= Len(handles)
        BY DEF TypeInv, CallSound
      <4> QED BY <2>1, <2>2, <3>1, <3>9, <3>10, <4>1, <4>2 DEF CallSound
    <3>12. ListSound' /\ HandlesSound'
      BY <1>0, <2>1, <3>1, <3>8, <3>9 DEF ListSound, HandlesSound
    <3> QED BY <1>0, <2>1, <3>1, <3>8, <3>11, <3>12 DEF TypeInv, TypeOK, RestTyped
  <2> QED BY <2>5, <2>6
<1>6. ASSUME AddThrows PROVE TypeInv'
  <2>1. segment' = segment /\ index_list' = index_list /\ handles' = handles /\ call' = NoCall
    BY <1>6 DEF AddThrows
  <2>2. HandlesSound' /\ IndicesSound' /\ ListSound'
    BY <1>0, <2>1 DEF HandlesSound, IndicesSound, ListSound, Added
  <2> QED BY <1>0, <2>1, <2>2, TypeIdle
<1> QED BY <1>1, <1>2, <1>3, <1>4, <1>5, <1>6 DEF Lifecycle, Close, Crash

(* A loop begins: the indices it goes over are in the list. *)
LEMMA TypeBegin ==
    ASSUME TypeInv, RestTyped,
           NEW op \in Ops, NEW r \in Revisions, NEW subs \in Seq(Types),
           NEW h \in 0 .. Len(handles), Begin(op, r, subs, h),
           ToSet(subs) \subseteq Added,
           op = "start" =>
             /\ h = 0 /\ Len(handles) < MaxHandles /\ Distinct(subs)
             /\ \A t \in Added : segment[t].revision < MaxRevision,
           handles' \in Seq(Handles), Len(handles') = Len(handles),
           \A i \in DOMAIN handles' : handles'[i].subs = handles[i].subs
    PROVE  TypeInv'
<1>0. /\ segment \in [Types -> Indices \cup {NoIndex}] /\ IndicesSound
      /\ index_list \in Seq(Types) /\ handles \in Seq(Handles) /\ HandlesSound /\ ListSound
      /\ Len(handles) \in 0 .. MaxHandles /\ MaxHandles \in Nat
  BY TypeFacts DEF TypeInv
<1>1. /\ segment' = segment /\ index_list' = index_list
      /\ call' = [op |-> op, arg |-> r, todo |-> subs, done |-> <<>>, handle |-> h]
  BY DEF Begin
<1>2. Added' = Added
  BY <1>1 DEF Added
<1>3. ListSound' /\ IndicesSound'
  BY <1>0, <1>1, <1>2 DEF ListSound, IndicesSound
<1>4. DOMAIN handles' = DOMAIN handles
  BY <1>0
<1>5. HandlesSound'
  BY <1>0, <1>2, <1>4 DEF HandlesSound
<1>6. h \in 0 .. MaxHandles /\ <<>> \in Seq(Types) /\ h <= Len(handles)
  BY <1>0
<1>7. call' \in Loops
  BY <1>1, <1>6 DEF Loops, Ops
<1>8. op \notin {"none", "add", "rollback"}
  BY DEF Ops
<1>9. CallSound'
  BY <1>1, <1>2, <1>6, <1>8, EmptySet DEF CallSound
<1> QED BY <1>0, <1>1, <1>3, <1>5, <1>7, <1>9 DEF TypeInv, TypeOK, RestTyped

(* The session objects forget what they saved, and nothing else. *)
LEMMA DisturbedHandles ==
    ASSUME NEW hs \in Seq(Handles)
    PROVE  /\ Disturbed(hs) \in Seq(Handles)
           /\ Len(Disturbed(hs)) = Len(hs)
           /\ DOMAIN Disturbed(hs) = DOMAIN hs
           /\ \A i \in DOMAIN hs :
                /\ Disturbed(hs)[i].subs = hs[i].subs
                /\ Disturbed(hs)[i].mine = FALSE
<1>1. \A i \in 1 .. Len(hs) :
        /\ [hs[i] EXCEPT !.mine = FALSE] \in Handles
        /\ [hs[i] EXCEPT !.mine = FALSE].subs = hs[i].subs
        /\ [hs[i] EXCEPT !.mine = FALSE].mine = FALSE
  <2> SUFFICES ASSUME NEW g \in Handles
               PROVE  /\ [g EXCEPT !.mine = FALSE] \in Handles
                      /\ [g EXCEPT !.mine = FALSE].subs = g.subs
                      /\ [g EXCEPT !.mine = FALSE].mine = FALSE
    <3>1. \A i \in 1 .. Len(hs) : hs[i] \in Handles
      OBVIOUS
    <3> QED BY <3>1
  <2> QED BY DEF Handles
<1>2. Len(hs) \in Nat /\ DOMAIN hs = 1 .. Len(hs)
  OBVIOUS
<1>3. Disturbed(hs) = [i \in 1 .. Len(hs) |-> [hs[i] EXCEPT !.mine = FALSE]]
  BY <1>2 DEF Disturbed
<1>4. Disturbed(hs) \in [1 .. Len(hs) -> Handles]
  BY <1>1, <1>3
<1>5. Disturbed(hs) \in Seq(Handles) /\ Len(Disturbed(hs)) = Len(hs)
  BY <1>2, <1>4
<1> QED BY <1>1, <1>2, <1>3, <1>5

(* push removes one session object. *)
LEMMA PushHandles ==
    ASSUME handles \in Seq(Handles), NEW h \in DOMAIN handles, Push(h)
    PROVE  /\ handles' \in Seq(Handles)
           /\ Len(handles') = Len(handles) - 1
           /\ DOMAIN handles' = 1 .. Len(handles) - 1
           /\ \A i \in 1 .. Len(handles) - 1 :
                /\ i < h => /\ handles'[i].subs = handles[i].subs
                            /\ ~handles'[i].mine
                /\ ~(i < h) => handles'[i] = handles[i + 1]
<1> DEFINE n == Len(handles) - 1
           g(i) == IF i < h THEN [handles[i] EXCEPT !.mine = FALSE] ELSE handles[i + 1]
<1>1. n \in Nat /\ \A i \in 1 .. n : i \in DOMAIN handles /\ i + 1 \in DOMAIN handles
  OBVIOUS
<1>2. \A i \in 1 .. n : handles[i] \in Handles /\ handles[i + 1] \in Handles
  BY <1>1
<1>3. handles' = [i \in 1 .. n |-> g(i)]
  BY DEF Push
<1> HIDE DEF n
<1>4. \A i \in 1 .. n : /\ g(i) \in Handles
                        /\ i < h => g(i).subs = handles[i].subs /\ g(i).mine = FALSE
                        /\ ~(i < h) => g(i) = handles[i + 1]
  BY <1>2 DEF Handles
<1> HIDE DEF g
<1>5. handles' \in [1 .. n -> Handles]
  BY <1>3, <1>4
<1>6. handles' \in Seq(Handles) /\ Len(handles') = n /\ DOMAIN handles' = 1 .. n
  BY <1>1, <1>5
<1>7. \A i \in 1 .. n : handles'[i] = g(i)
  BY <1>3
<1> QED BY <1>4, <1>6, <1>7 DEF n

LEMMA TypeCalls ==
    ASSUME TypeInv, RestTyped, Calls
    PROVE  TypeInv'
<1>0. /\ segment \in [Types -> Indices \cup {NoIndex}] /\ IndicesSound
      /\ index_list \in Seq(Types) /\ Added \subseteq Types
      /\ handles \in Seq(Handles) /\ HandlesSound /\ ListSound
      /\ Len(handles) \in 0 .. MaxHandles /\ MaxHandles \in Nat
      /\ \A t \in Added : SoundIndex(segment[t])
      /\ 0 \in Revisions
  BY TypeFacts, BoundsAssumption DEF TypeInv, Revisions
<1>00. /\ Disturbed(handles) \in Seq(Handles)
       /\ Len(Disturbed(handles)) = Len(handles)
       /\ DOMAIN Disturbed(handles) = DOMAIN handles
       /\ \A i \in DOMAIN handles : Disturbed(handles)[i].subs = handles[i].subs
  BY <1>0, DisturbedHandles
<1>1. ASSUME NEW t \in Types, NEW v \in Tables, Write(t, v) PROVE TypeInv'
  <2> DEFINE y == [segment[t] EXCEPT !.table = v]
  <2>1. /\ t \in Added /\ call' = NoCall /\ index_list' = index_list /\ handles' = handles
        /\ segment' = [segment EXCEPT ![t] = y]
    BY <1>1 DEF Write, Ready
  <2>2. /\ segment[t] \in Indices /\ segment[t].history \in Seq(Tables)
        /\ Len(segment[t].history) <= segment[t].revision
    BY <1>0, <2>1 DEF SoundIndex, Indices
  <2>3. SoundIndex(y)
    BY <2>2 DEF SoundIndex, Indices
  <2> HIDE DEF y
  <2>4. /\ segment' \in [Types -> Indices \cup {NoIndex}] /\ IndicesSound'
        /\ \A u \in Types : segment[u] \in Indices => segment'[u] \in Indices
    BY <2>1, <2>3, SegmentStep
  <2>5. Added' = Added
    BY <2>1 DEF Added
  <2>6. ListSound' /\ HandlesSound'
    BY <1>0, <2>1, <2>4, <2>5 DEF ListSound, HandlesSound
  <2> QED BY <1>0, <2>1, <2>4, <2>6, TypeIdle
<1>2. ASSUME NEW op \in Ops \ {"start"}, NEW r \in Revisions, DatabaseCall(op, r)
      PROVE  TypeInv'
  <2>1. Begin(op, r, index_list, 0) /\ handles' = Disturbed(handles)
    BY <1>2 DEF DatabaseCall
  <2>2. ToSet(index_list) \subseteq Added /\ 0 \in 0 .. Len(handles)
    BY <1>0 DEF Added
  <2> QED BY <1>0, <1>00, <2>1, <2>2, TypeBegin
<1>3. ASSUME start_undo_session PROVE TypeInv'
  <2>1. /\ Begin("start", 0, index_list, 0) /\ handles' = handles
        /\ Len(handles) < MaxHandles
        /\ \A t \in Added : segment[t].revision < MaxRevision
    BY <1>3 DEF start_undo_session
  <2>2. /\ ToSet(index_list) \subseteq Added /\ 0 \in 0 .. Len(handles) /\ "start" \in Ops
        /\ Distinct(index_list)
    BY <1>0 DEF Added, Ops, ListSound
  <2> QED BY <1>0, <2>1, <2>2, TypeBegin
<1>4. ASSUME NEW h \in DOMAIN handles, Push(h) PROVE TypeInv'
  <2>1. /\ segment' = segment /\ index_list' = index_list /\ call' = NoCall
    BY <1>4 DEF Push, Ready
  <2>2. /\ handles' \in Seq(Handles)
        /\ Len(handles') = Len(handles) - 1
        /\ DOMAIN handles' = 1 .. Len(handles) - 1
        /\ \A i \in 1 .. Len(handles) - 1 :
             /\ i < h => handles'[i].subs = handles[i].subs
             /\ ~(i < h) => handles'[i] = handles[i + 1]
    BY <1>0, <1>4, PushHandles
  <2>3. Added' = Added
    BY <2>1 DEF Added
  <2>4. \A i \in 1 .. Len(handles) - 1 : i \in DOMAIN handles /\ i + 1 \in DOMAIN handles
    BY <1>0
  <2>5. \A i \in DOMAIN handles' : ToSet(handles'[i].subs) \subseteq Added
    BY <1>0, <2>2, <2>4 DEF HandlesSound
  <2>6. HandlesSound'
    BY <1>0, <2>2, <2>3, <2>5 DEF HandlesSound
  <2>7. ListSound' /\ IndicesSound'
    BY <1>0, <2>1, <2>3 DEF ListSound, IndicesSound
  <2> QED BY <1>0, <2>1, <2>2, <2>6, <2>7, TypeIdle
<1>5. ASSUME NEW h \in DOMAIN handles, NEW op \in {"undo", "squash"}, HandleCall(op, h)
      PROVE  TypeInv'
  <2>1. Begin(op, 0, handles[h].subs, h) /\ handles' \in {handles, Disturbed(handles)}
    BY <1>5 DEF HandleCall
  <2>2. handles[h] \in Handles /\ h \in 0 .. Len(handles)
    BY <1>0
  <2>3. handles[h].subs \in Seq(Types) /\ ToSet(handles[h].subs) \subseteq Added
    BY <1>0, <2>2 DEF Handles, HandlesSound
  <2>4. op \in Ops /\ op # "start"
    BY DEF Ops
  <2>5. /\ handles' \in Seq(Handles) /\ Len(handles') = Len(handles)
        /\ \A i \in DOMAIN handles' : handles'[i].subs = handles[i].subs
    BY <1>0, <1>00, <2>1
  <2> QED BY <1>0, <2>1, <2>2, <2>3, <2>4, <2>5, TypeBegin
<1> QED
  <2>1. {"undo", "squash", "undo_all", "commit", "set_revision"} \subseteq Ops \ {"start"}
    BY DEF Ops
  <2> QED BY <1>0, <1>1, <1>2, <1>3, <1>4, <1>5, <2>1 DEF Calls

(* RemoveAt drops one session object and keeps the order of the others. *)
LEMMA RemoveSeq ==
    ASSUME NEW S, NEW s \in Seq(S), NEW k \in 1 .. Len(s)
    PROVE  /\ RemoveAt(s, k) \in Seq(S)
           /\ Len(RemoveAt(s, k)) = Len(s) - 1
           /\ \A i \in 1 .. Len(s) - 1 :
                RemoveAt(s, k)[i] = IF i < k THEN s[i] ELSE s[i + 1]
<1> DEFINE a == SubSeq(s, 1, k - 1)
           b == SubSeq(s, k + 1, Len(s))
<1>1. k \in Nat /\ Len(s) \in Nat /\ 1 <= k /\ k <= Len(s)
  OBVIOUS
<1>2. /\ a \in Seq(S) /\ Len(a) = k - 1 /\ \A i \in 1 .. k - 1 : a[i] = s[i]
  <2> DEFINE m == k - 1
  <2>1. 1 \in Int /\ m \in Int /\ m >= 0 /\ \A i \in 1 .. m : s[i] \in S
    BY <1>1
  <2> HIDE DEF m
  <2>2. /\ SubSeq(s, 1, m) \in Seq(S)
        /\ Len(SubSeq(s, 1, m)) = IF 1 <= m THEN m - 1 + 1 ELSE 0
        /\ \A i \in 1 .. m - 1 + 1 : SubSeq(s, 1, m)[i] = s[1 + i - 1]
    BY <2>1, SubSeqProperties
  <2>3. Len(SubSeq(s, 1, m)) = m /\ \A i \in 1 .. m : SubSeq(s, 1, m)[i] = s[i]
    BY <2>1, <2>2
  <2> QED BY <2>2, <2>3 DEF m
<1>3. /\ b \in Seq(S) /\ Len(b) = Len(s) - k /\ \A i \in 1 .. Len(s) - k : b[i] = s[i + k]
  <2> DEFINE m == k + 1
             n == Len(s)
  <2>1. m \in Int /\ n \in Int /\ m = k + 1 /\ m <= n + 1 /\ \A i \in m .. n : s[i] \in S
    BY <1>1
  <2> HIDE DEF m, n
  <2>2. /\ SubSeq(s, m, n) \in Seq(S)
        /\ Len(SubSeq(s, m, n)) = IF m <= n THEN n - m + 1 ELSE 0
        /\ \A i \in 1 .. n - m + 1 : SubSeq(s, m, n)[i] = s[m + i - 1]
    BY <2>1, SubSeqProperties
  <2>3. /\ Len(SubSeq(s, m, n)) = n - k
        /\ \A i \in 1 .. n - k : SubSeq(s, m, n)[i] = s[i + k]
    BY <1>1, <2>1, <2>2
  <2> QED BY <2>2, <2>3 DEF m, n
<1>4. RemoveAt(s, k) = a \o b
  BY DEF RemoveAt
<1> HIDE DEF a, b
<1>5. /\ a \o b \in Seq(S) /\ Len(a \o b) = Len(a) + Len(b)
      /\ \A i \in 1 .. Len(a) + Len(b) :
           (a \o b)[i] = IF i <= Len(a) THEN a[i] ELSE b[i - Len(a)]
  BY <1>2, <1>3, ConcatProperties
<1>6. \A i \in 1 .. Len(s) - 1 : (a \o b)[i] = IF i < k THEN s[i] ELSE s[i + 1]
  <2> SUFFICES ASSUME NEW i \in 1 .. Len(s) - 1
               PROVE  (a \o b)[i] = IF i < k THEN s[i] ELSE s[i + 1]
    OBVIOUS
  <2>l. Len(a) = k - 1 /\ i \in 1 .. Len(a) + Len(b)
    BY <1>1, <1>2, <1>3
  <2>0. (a \o b)[i] = IF i <= k - 1 THEN a[i] ELSE b[i - (k - 1)]
    BY <1>5, <2>l
  <2>1. CASE i < k
    BY <1>1, <1>2, <2>0, <2>1
  <2>2. CASE ~(i < k)
    <3>1. i - (k - 1) \in 1 .. Len(s) - k /\ i - (k - 1) + k = i + 1
      BY <1>1, <2>2
    <3>2. b[i - (k - 1)] = s[i + 1]
      BY <1>3, <3>1
    <3> QED BY <1>1, <2>0, <2>2, <3>2
  <2> QED BY <2>1, <2>2
<1> QED BY <1>1, <1>2, <1>3, <1>4, <1>5, <1>6

(* One iteration of a loop over the indices. *)
LEMMA Iteration ==
    ASSUME TypeInv, LoopStep
    PROVE  LET t == call.todo[1]
           IN  /\ t \in Added /\ t \in Types /\ t \in ToSet(call.todo)
               /\ call.op \in Ops \cup {"rollback"} /\ call.todo # <<>>
               /\ ~(call.op = "set_revision" /\ segment[t].history # <<>>)
               /\ SoundIndex(segment'[t])
               /\ segment'[t] = Apply(call.op, call.arg, segment[t])
               /\ \A u \in Types \ {t} : segment'[u] = segment[u]
               /\ segment' \in [Types -> Indices \cup {NoIndex}] /\ IndicesSound'
               /\ \A u \in Types : segment[u] \in Indices => segment'[u] \in Indices
               /\ call' \in Loops
               /\ call'.op = call.op /\ call'.arg = call.arg /\ call'.handle = call.handle
               /\ call'.todo = Tail(call.todo) /\ call'.done = Append(call.done, t)
               /\ UNCHANGED <<process, index_list, handles, dirty, interrupted, intact>>
               /\ Added' = Added
<1> DEFINE t == call.todo[1]
           y == Apply(call.op, call.arg, segment[t])
<1>1. /\ call.op \notin {"none", "add"} /\ call.todo # <<>>
      /\ ~(call.op = "set_revision" /\ segment[t].history # <<>>)
      /\ segment' = [segment EXCEPT ![t] = y]
      /\ call' = [call EXCEPT !.todo = Tail(@), !.done = Append(@, t)]
      /\ UNCHANGED <<process, index_list, handles, dirty, interrupted, intact>>
  BY DEF LoopStep
<1>2. /\ call.todo \in Seq(Types) /\ call.done \in Seq(Types) /\ call.arg \in Revisions
      /\ call.op \in Ops \cup {"rollback"}
  BY <1>1, CallFacts
<1>3. t \in ToSet(call.todo) /\ t \in Types /\ Tail(call.todo) \in Seq(Types)
  BY <1>1, <1>2, TailSet
<1>4. t \in Added
  BY <1>1, <1>3 DEF TypeInv, CallSound
<1>5. SoundIndex(segment[t])
  BY <1>4, TypeFacts
<1>6. call.op = "start" => segment[t].revision < MaxRevision
  BY <1>3 DEF TypeInv, CallSound
<1> HIDE DEF t
<1>7. SoundIndex(y)
  BY <1>1, <1>2, <1>5, <1>6, ApplySound
<1> HIDE DEF y
<1>8. /\ segment' \in [Types -> Indices \cup {NoIndex}] /\ IndicesSound'
      /\ segment'[t] = y
      /\ \A u \in Types \ {t} : segment'[u] = segment[u]
      /\ \A u \in Types : segment[u] \in Indices => segment'[u] \in Indices
  BY <1>1, <1>3, <1>7, SegmentStep
<1>9. Append(call.done, t) \in Seq(Types)
  BY <1>2, <1>3, AppendSeq
<1>10. /\ call' \in Loops
       /\ call'.op = call.op /\ call'.arg = call.arg /\ call'.handle = call.handle
       /\ call'.todo = Tail(call.todo) /\ call'.done = Append(call.done, t)
  <2>1. call \in Loops
    BY TypeFacts
  <2> QED BY <1>1, <1>3, <1>9, <2>1 DEF Loops
<1>11. Added' = Added
  BY <1>1 DEF Added
<1> QED BY <1>1, <1>2, <1>3, <1>4, <1>7, <1>8, <1>10, <1>11 DEF t, y

(* The session object that start_undo_session returns. *)
NewHandle ==
    [subs |-> call.done, mine |-> TRUE,
     saved |-> [t \in Types |-> IF t \in ToSet(call.done) THEN segment[t].table
                                ELSE NoIndex]]

LEMMA ReturnedHandle ==
    ASSUME TypeInv, call.op = "start"
    PROVE  NewHandle \in Handles
<1>1. call.done \in Seq(Types) /\ ToSet(call.done) \subseteq Added
  BY CallFacts DEF TypeInv, CallSound
<1>2. \A t \in Types : t \in ToSet(call.done) => segment[t].table \in Tables
  <2>1. \A t \in Added : SoundIndex(segment[t])
    BY TypeFacts
  <2> QED BY <1>1, <2>1 DEF SoundIndex, Indices
<1>3. [t \in Types |-> IF t \in ToSet(call.done) THEN segment[t].table ELSE NoIndex]
        \in Snapshots
  BY <1>2 DEF Snapshots
<1> QED BY <1>1, <1>3 DEF Handles, NewHandle

LEMMA TypeLoop ==
    ASSUME TypeInv, RestTyped, Loop
    PROVE  TypeInv'
<1>0. /\ segment \in [Types -> Indices \cup {NoIndex}] /\ IndicesSound
      /\ index_list \in Seq(Types) /\ Added \subseteq Types
      /\ handles \in Seq(Handles) /\ HandlesSound /\ ListSound /\ CallSound
      /\ Len(handles) \in 0 .. MaxHandles /\ MaxHandles \in Nat /\ call \in Loops
  BY TypeFacts DEF TypeInv
<1>00. /\ call.todo \in Seq(Types) /\ call.done \in Seq(Types)
       /\ call.handle \in 0 .. Len(handles)
  BY CallFacts
<1>1. ASSUME LoopStep PROVE TypeInv'
  <2> DEFINE t == call.todo[1]
  <2>1. /\ t \in Added /\ call.todo # <<>> /\ call.op \in Ops \cup {"rollback"}
        /\ \A u \in Types \ {t} : segment'[u] = segment[u]
        /\ segment' \in [Types -> Indices \cup {NoIndex}] /\ IndicesSound'
        /\ \A u \in Types : segment[u] \in Indices => segment'[u] \in Indices
        /\ call' \in Loops /\ call'.op = call.op /\ call'.handle = call.handle
        /\ call'.todo = Tail(call.todo) /\ call'.done = Append(call.done, t)
        /\ index_list' = index_list /\ handles' = handles /\ Added' = Added
    BY <1>1, Iteration
  <2>2. /\ ToSet(call.todo) = {t} \cup ToSet(call'.todo)
        /\ Distinct(call.todo) => Distinct(call'.todo) /\ t \notin ToSet(call'.todo)
    BY <1>00, <2>1, TailSet
  <2>3. ToSet(call'.done) = ToSet(call.done) \cup {t}
    BY <1>0, <1>00, <2>1, AppendSet
  <2>4. call.op \notin {"none", "add"}
    BY <2>1 DEF Ops
  <2> HIDE DEF t
  <2>5. /\ ToSet(call'.todo) \subseteq Added /\ ToSet(call'.done) \subseteq Added
    BY <1>0, <2>1, <2>2, <2>3, <2>4 DEF CallSound
  <2>6. call.op = "start" =>
          /\ Distinct(call'.todo) /\ Len(handles) < MaxHandles
          /\ \A u \in ToSet(call'.todo) : segment'[u].revision < MaxRevision
    BY <1>0, <2>1, <2>2, <2>5 DEF CallSound
  <2>7. call.handle <= Len(handles) /\ (call.op \in {"start", "rollback"} => call.handle = 0)
    BY <1>0 DEF CallSound
  <2>8. CallSound'
    BY <2>1, <2>4, <2>5, <2>6, <2>7 DEF CallSound
  <2>9. ListSound' /\ HandlesSound'
    BY <1>0, <2>1 DEF ListSound, HandlesSound
  <2> QED BY <1>0, <2>1, <2>8, <2>9 DEF TypeInv, TypeOK, RestTyped
<1>2. ASSUME segment' = segment, index_list' = index_list, handles' = handles, call' = NoCall
      PROVE  TypeInv'
  <2>1. HandlesSound' /\ IndicesSound' /\ ListSound'
    BY <1>0, <1>2 DEF HandlesSound, IndicesSound, ListSound, Added
  <2> QED BY <1>0, <1>2, <2>1, TypeIdle
<1>3. ASSUME StartThrows PROVE TypeInv'
  <2>1. /\ call.op = "start" /\ segment' = segment
        /\ index_list' = index_list /\ handles' = handles /\ Added' = Added
        /\ call' = [call EXCEPT !.op = "rollback", !.todo = call.done, !.done = <<>>]
    BY <1>3 DEF StartThrows, Added
  <2>2. <<>> \in Seq(Types)
    BY EmptySeq
  <2>3. /\ call' \in Loops /\ call'.op = "rollback" /\ call'.todo = call.done
        /\ call'.done = <<>> /\ call'.handle = call.handle
    BY <1>0, <1>00, <2>1, <2>2 DEF Loops
  <2>4. CallSound'
    BY <1>0, <2>1, <2>3, EmptySet DEF CallSound
  <2>5. HandlesSound' /\ IndicesSound' /\ ListSound'
    BY <1>0, <2>1 DEF HandlesSound, IndicesSound, ListSound
  <2> QED BY <1>0, <2>1, <2>3, <2>4, <2>5 DEF TypeInv, TypeOK, RestTyped
<1>4. ASSUME LoopReturns PROVE TypeInv'
  <2>1. segment' = segment /\ index_list' = index_list /\ Added' = Added /\ call' = NoCall
    BY <1>4 DEF LoopReturns, Added
  <2>2. IndicesSound' /\ ListSound'
    BY <1>0, <2>1 DEF IndicesSound, ListSound
  <2>3. CASE call.op = "start"
    <3>1. handles' = Append(handles, NewHandle) /\ NewHandle \in Handles
      BY <1>4, <2>3, ReturnedHandle DEF LoopReturns, NewHandle
    <3>2. NewHandle.subs = call.done
      BY DEF NewHandle
    <3> HIDE DEF NewHandle
    <3>3. /\ handles' \in Seq(Handles) /\ Len(handles') = Len(handles) + 1
          /\ handles'[Len(handles) + 1] = NewHandle
          /\ \A i \in 1 .. Len(handles) : handles'[i] = handles[i]
      BY <1>0, <3>1, AppendSeq
    <3>4. Len(handles) < MaxHandles /\ ToSet(call.done) \subseteq Added
      BY <1>0, <2>3 DEF CallSound
    <3>5. \A i \in DOMAIN handles' : ToSet(handles'[i].subs) \subseteq Added
      BY <1>0, <3>2, <3>3, <3>4 DEF HandlesSound
    <3>6. HandlesSound'
      BY <1>0, <2>1, <3>3, <3>4, <3>5 DEF HandlesSound
    <3> QED BY <1>0, <2>1, <2>2, <3>3, <3>6, TypeIdle
  <2>4. CASE call.op # "start" /\ call.handle = 0
    BY <1>2, <1>4, <2>1, <2>4 DEF LoopReturns
  <2>5. CASE call.op # "start" /\ call.handle # 0
    <3>1. handles' = RemoveAt(handles, call.handle) /\ call.handle \in 1 .. Len(handles)
      BY <1>4, <1>00, <2>5 DEF LoopReturns
    <3>2. /\ handles' \in Seq(Handles) /\ Len(handles') = Len(handles) - 1
          /\ \A i \in 1 .. Len(handles) - 1 :
               handles'[i] = IF i < call.handle THEN handles[i] ELSE handles[i + 1]
      BY <1>0, <3>1, RemoveSeq
    <3>3. \A i \in 1 .. Len(handles) - 1 : i \in DOMAIN handles /\ i + 1 \in DOMAIN handles
      BY <1>0
    <3>4. DOMAIN handles' = 1 .. Len(handles) - 1
      BY <3>2
    <3>5. \A i \in DOMAIN handles' : ToSet(handles'[i].subs) \subseteq Added
      BY <1>0, <3>2, <3>3, <3>4 DEF HandlesSound
    <3>6. HandlesSound'
      BY <1>0, <2>1, <3>2, <3>5 DEF HandlesSound
    <3> QED BY <1>0, <2>1, <2>2, <3>2, <3>6, TypeIdle
  <2> QED BY <2>3, <2>4, <2>5
<1> QED BY <1>1, <1>2, <1>3, <1>4 DEF Loop, SetRevisionThrows

(* An index that a method left half done is sound all the same. *)
LEMMA HalfSound ==
    ASSUME NEW x, SoundIndex(x), NEW op \in {"undo", "squash", "undo_all"},
           NEW y \in HalfDone(op, x)
    PROVE  SoundIndex(y)
<1> DEFINE h == x.history
           n == Len(h)
           Bottom(k) == SubSeq(h, 1, k)
           HalfUndone(k) ==
               [table : Tables, history : {Append(Bottom(k - 1), v) : v \in Tables},
                revision : {RangeBegin(x) + k}]
           HalfMerged ==
               [table : {x.table}, revision : {x.revision},
                history : {Append(Append(Bottom(n - 2), v), w) : v, w \in Tables}]
<1>0. /\ x.table \in Tables /\ h \in Seq(Tables) /\ x.revision \in Nat
      /\ x.revision <= MaxRevision /\ n \in Nat /\ n <= x.revision /\ MaxRevision \in Nat
  BY IndexFacts
<1>1. ASSUME NEW k \in 0 .. n PROVE Bottom(k) \in Seq(Tables) /\ Len(Bottom(k)) = k
  <2>1. \A i \in 1 .. k : h[i] \in Tables
    BY <1>0
  <2>2. /\ SubSeq(h, 1, k) \in Seq(Tables)
        /\ Len(SubSeq(h, 1, k)) = IF 1 <= k THEN k - 1 + 1 ELSE 0
    BY <2>1, SubSeqProperties
  <2> QED BY <2>2
<1>2. ASSUME NEW k \in 1 .. n, y \in HalfUndone(k) PROVE SoundIndex(y)
  <2>1. PICK t \in Tables, v \in Tables :
          y = [table |-> t, history |-> Append(Bottom(k - 1), v), revision |-> RangeBegin(x) + k]
    BY <1>2
  <2>2. Bottom(k - 1) \in Seq(Tables) /\ Len(Bottom(k - 1)) = k - 1
    BY <1>0, <1>1
  <2> HIDE DEF Bottom
  <2>3. Append(Bottom(k - 1), v) \in Seq(Tables) /\ Len(Append(Bottom(k - 1), v)) = k
    BY <2>2, AppendSeq
  <2>4. /\ RangeBegin(x) + k \in Nat /\ RangeBegin(x) + k <= MaxRevision
        /\ k <= RangeBegin(x) + k
    BY <1>0 DEF RangeBegin
  <2> QED BY <2>1, <2>3, <2>4, SoundRecord
<1>3. ASSUME n >= 2, y \in HalfMerged PROVE SoundIndex(y)
  <2>1. PICK v \in Tables, w \in Tables :
          y = [table |-> x.table, history |-> Append(Append(Bottom(n - 2), v), w),
               revision |-> x.revision]
    BY <1>3
  <2>2. Bottom(n - 2) \in Seq(Tables) /\ Len(Bottom(n - 2)) = n - 2
    BY <1>0, <1>1, <1>3
  <2> HIDE DEF Bottom
  <2>3. Append(Bottom(n - 2), v) \in Seq(Tables) /\ Len(Append(Bottom(n - 2), v)) = n - 1
    BY <1>0, <2>2, AppendSeq
  <2>4. /\ Append(Append(Bottom(n - 2), v), w) \in Seq(Tables)
        /\ Len(Append(Append(Bottom(n - 2), v), w)) = n
    BY <1>0, <2>3, AppendSeq
  <2> QED BY <1>0, <2>1, <2>4, SoundRecord
<1>4. CASE op = "squash"
  <2>1. HalfDone(op, x) = IF n < 2 THEN {} ELSE HalfMerged
    BY <1>4 DEF HalfDone
  <2> HIDE DEF HalfMerged
  <2>2. ~(n < 2) /\ y \in HalfMerged
    BY <2>1
  <2>3. n >= 2
    BY <1>0, <2>2
  <2> QED BY <1>3, <2>2, <2>3
<1>5. CASE op = "undo"
  <2>1. HalfDone(op, x) = IF n = 0 THEN {} ELSE HalfUndone(n)
    BY <1>5 DEF HalfDone
  <2> HIDE DEF HalfUndone
  <2>2. n # 0 /\ y \in HalfUndone(n)
    BY <2>1
  <2>3. n \in 1 .. n
    BY <1>0, <2>2
  <2> QED BY <1>2, <2>2, <2>3
<1>6. CASE op = "undo_all"
  <2>1. HalfDone(op, x) = UNION {HalfUndone(k) : k \in 1 .. n}
    BY <1>6 DEF HalfDone
  <2> QED BY <1>2, <2>1
<1> QED BY <1>4, <1>5, <1>6

(* A loop that runs out of memory. *)
LEMMA TypeThrows ==
    ASSUME TypeInv, RestTyped, IterationThrows
    PROVE  TypeInv'
<1> DEFINE t == call.todo[1]
<1>0. /\ handles \in Seq(Handles) /\ HandlesSound /\ ListSound /\ index_list \in Seq(Types)
      /\ Added \subseteq Types /\ Len(handles) \in Nat
      /\ call.todo \in Seq(Types) /\ call.handle \in 0 .. Len(handles)
      /\ \A u \in Added : SoundIndex(segment[u])
  BY TypeFacts, CallFacts DEF TypeInv
<1>1. /\ call.op \in {"undo", "squash", "undo_all"} /\ call.todo # <<>>
      /\ call' = NoCall /\ index_list' = index_list
  BY DEF IterationThrows
<1>2. ToSet(call.todo) \subseteq Added /\ t \in Added
  <2>1. ToSet(call.todo) \subseteq Added
    BY <1>1 DEF TypeInv, CallSound
  <2> QED BY <1>0, <1>1, <2>1, TailSet
<1>3. PICK y \in HalfDone(call.op, segment[t]) : segment' = [segment EXCEPT ![t] = y]
  BY DEF IterationThrows
<1>4. SoundIndex(y)
  BY <1>0, <1>1, <1>2, HalfSound
<1>5. /\ segment' \in [Types -> Indices \cup {NoIndex}] /\ IndicesSound'
      /\ \A u \in Types : segment[u] \in Indices => segment'[u] \in Indices
  BY <1>0, <1>2, <1>3, <1>4, SegmentStep
<1>6. Added' = Added /\ ListSound'
  BY <1>0, <1>1, <1>5 DEF ListSound, Added
<1>7. /\ handles' \in Seq(Handles) /\ Len(handles') = Len(handles)
      /\ \A i \in 1 .. Len(handles) : ToSet(handles'[i].subs) \subseteq Added
  <2>1. CASE call.handle = 0
    BY <1>0, <2>1 DEF IterationThrows, HandlesSound
  <2>2. CASE call.handle # 0
    <3> DEFINE d == Disturbed(handles)
               k == call.handle
               g == [d[k] EXCEPT !.subs = call.todo]
    <3>0. k \in 1 .. Len(handles) /\ DOMAIN handles = 1 .. Len(handles)
      BY <1>0, <2>2
    <3>1. /\ d \in Seq(Handles) /\ Len(d) = Len(handles) /\ k \in 1 .. Len(handles)
          /\ \A i \in 1 .. Len(handles) : d[i].subs = handles[i].subs
      BY <1>0, <3>0, DisturbedHandles
    <3>2. handles' = [d EXCEPT ![k] = g]
      BY <2>2 DEF IterationThrows
    <3>3. d[k] \in Handles
      BY <3>1
    <3> HIDE DEF d, k
    <3>4. g \in Handles /\ g.subs = call.todo
      BY <1>0, <3>3 DEF Handles
    <3> HIDE DEF g
    <3>5. handles' \in Seq(Handles) /\ Len(handles') = Len(handles)
      BY <1>0, <3>1, <3>2, <3>4
    <3>6. \A i \in 1 .. Len(handles) : handles'[i] = IF i = k THEN g ELSE d[i]
      BY <1>0, <3>1, <3>2
    <3>7. \A i \in 1 .. Len(handles) : ToSet(handles[i].subs) \subseteq Added
      BY <1>0 DEF HandlesSound
    <3> QED BY <1>2, <3>1, <3>4, <3>5, <3>6, <3>7
  <2> QED BY <2>1, <2>2
<1>8. HandlesSound'
  BY <1>0, <1>6, <1>7 DEF HandlesSound
<1> QED BY <1>0, <1>1, <1>5, <1>6, <1>7, <1>8, TypeIdle

LEMMA TypeInit == Init => TypeInv
<1> SUFFICES ASSUME Init PROVE TypeInv
  OBVIOUS
<1>1. /\ segment \in [Types -> Indices \cup {NoIndex}]
      /\ \A t \in Types : segment[t] \notin Indices
  BY NoIndexAssumption DEF Init
<1>2. /\ index_list = <<>> /\ index_list \in Seq(Types) /\ handles \in Seq(Handles)
      /\ Len(handles) = 0 /\ DOMAIN handles = {}
  BY EmptySeq DEF Init
<1>3. Added = {} /\ Distinct(index_list)
  BY <1>2, EmptySet DEF Added
<1>4. /\ call = NoCall /\ process = "down" /\ dirty \in BOOLEAN /\ intact \in BOOLEAN
      /\ whole \in BOOLEAN /\ torn \in BOOLEAN
  BY DEF Init
<1>5. CallSound
  BY <1>2, <1>4, NoCallFacts DEF CallSound
<1>6. HandlesSound
  BY <1>2, BoundsAssumption DEF HandlesSound
<1> QED BY <1>1, <1>2, <1>3, <1>4, <1>5, <1>6, NoCallFacts
        DEF TypeInv, TypeOK, IndicesSound, ListSound

LEMMA TypeStep == TypeInv /\ [Next]_vars => TypeInv'
<1> SUFFICES ASSUME TypeInv, [Next]_vars PROVE TypeInv'
  OBVIOUS
<1>0. RestTyped
  BY RestStep
<1>1. CASE UNCHANGED vars
  BY <1>0, <1>1, TypeUnchanged DEF vars
<1> QED BY <1>0, <1>1, TypeLifecycle, TypeCalls, TypeLoop, TypeThrows DEF Next

LEMMA TypeInvariant == Spec => []TypeInv
BY TypeInit, TypeStep, PTL DEF Spec

(* The state stays within its types, late additions and all: no undo, squash *)
(* or rollback takes a revision below 0, no catch-up of a new index takes it *)
(* past the newest one, and no loop reaches an index that is not there.      *)
THEOREM TypeCorrect == Spec => []TypeOK
<1>1. TypeInv => TypeOK
  BY DEF TypeInv
<1> QED BY <1>1, TypeInvariant, PTL

-----------------------------------------------------------------------------
(***************************************************************************)
(* The indices move in step.                                               *)
(***************************************************************************)
(* Failed allocations in undo, squash and undo_all are not forgotten: what    *)
(* holds until the first of them is not claimed after it.                     *)
LEMMA TornStep ==
    ASSUME TypeInv, [Next]_vars
    PROVE  /\ ~torn' => ~torn /\ (Lifecycle \/ Calls \/ Loop \/ UNCHANGED vars)
           /\ torn' => (torn /\ (intact' => intact) /\ (whole' => whole)) \/ (~intact' /\ ~whole')
<1> USE DEF TypeInv, TypeOK
<1>1. CASE IterationThrows
  BY <1>1 DEF IterationThrows
<1>2. CASE Lifecycle \/ Calls \/ Loop \/ UNCHANGED vars
  <2>1. torn' = torn
    BY <1>2 DEF Lifecycle, Calls, Loop, Open, Close, Crash, Ended, AddExisting,
         AddNew, AddStep, AddThrows, Write, DatabaseCall, start_undo_session, HandleCall,
         Begin, Push, LoopStep, SetRevisionThrows, StartThrows, LoopReturns, vars
  <2>2. whole' => whole
    BY <1>2 DEF Lifecycle, Calls, Loop, Open, Close, Crash, Ended, AddExisting,
         AddNew, AddStep, AddThrows, Write, DatabaseCall, start_undo_session, HandleCall,
         Begin, Push, LoopStep, SetRevisionThrows, StartThrows, LoopReturns, vars
  <2>3. torn /\ intact' => intact
    BY <1>2 DEF Lifecycle, Calls, Loop, Open, Close, Crash, Ended, AddExisting, Accept,
         AddNew, AddStep, AddThrows, Write, DatabaseCall, start_undo_session, HandleCall,
         Begin, Push, LoopStep, SetRevisionThrows, StartThrows, LoopReturns, vars
  <2> QED BY <1>2, <2>1, <2>2, <2>3
<1> QED BY <1>1, <1>2 DEF Next

LEMMA SyncInit == Init => SyncInv
<1> SUFFICES ASSUME Init PROVE SyncInv
  OBVIOUS
<1>1. TypeInv
  BY TypeInit
<1>2. /\ process = "down" /\ index_list = <<>> /\ handles = <<>> /\ call = NoCall
      /\ interrupted.op = "none" /\ DOMAIN handles = {}
  BY EmptySeq DEF Init, NoLoop
<1>3. Quiet /\ call.op = "none" /\ Added = {}
  BY <1>2, NoCallFacts, EmptySet DEF Quiet, Added
<1> QED BY <1>1, <1>2, <1>3
        DEF SyncInv, ProcessSound, HandlesFull, QuietSync, LoopAtomic, LoopShape, LoopProgress

LEMMA SyncUnchanged ==
    ASSUME SyncInv, UNCHANGED vars
    PROVE  SyncInv'
<1>1. TypeInv'
  BY TypeStep DEF SyncInv
<1> QED BY <1>1 DEF SyncInv, vars, ProcessSound, HandlesFull, QuietSync, LoopAtomic, LoopShape,
                    LoopProgress, Quiet, Added, Before, After

LEMMA RangeOrder ==
    /\ \A x : SameRange(x, x)
    /\ \A x, y : SameRange(x, y) => SameRange(y, x)
    /\ \A x, y, z : SameRange(x, y) /\ SameRange(y, z) => SameRange(x, z)
BY DEF SameRange

(* What SyncInv' is, when no loop over the indices runs afterwards. *)
LEMMA SyncQuiet ==
    ASSUME TypeInv', ProcessSound', HandlesFull', LoopAtomic',
           call'.op \in {"none", "add"},
           \A t, u \in Added' : SameRange(segment'[t], segment'[u])
    PROVE  SyncInv'
<1>1. Quiet' /\ QuietSync'
  BY DEF Quiet, QuietSync
<1> QED BY <1>1 DEF SyncInv, LoopShape, LoopProgress

(* add_index accepts an index that is in step with the first of the list. *)
LEMMA SyncAppend ==
    ASSUME SyncInv, Quiet, NEW t \in Types \ Added, segment[t] \in Indices,
           Consistent(segment[t]),
           index_list' = Append(index_list, t), segment' = segment
    PROVE  \A u, v \in Added' : SameRange(segment'[u], segment'[v])
<1>1. TypeInv /\ index_list \in Seq(Types) /\ QuietSync
  BY TypeFacts DEF SyncInv
<1>2. Added' = Added \cup {t}
  BY <1>1, ListStep
<1>3. \A u \in Added : SameRange(segment[u], segment[t])
  <2> SUFFICES ASSUME NEW u \in Added PROVE SameRange(segment[u], segment[t])
    OBVIOUS
  <2>1. index_list # <<>>
    BY EmptySet DEF Added
  <2>2. index_list[1] \in Added
    BY <1>1, <2>1, SetType DEF Added
  <2>3. SameRange(segment[t], segment[index_list[1]])
    BY <2>1 DEF Consistent
  <2>4. SameRange(segment[u], segment[index_list[1]])
    BY <1>1, <2>2 DEF QuietSync
  <2> QED BY <2>3, <2>4, RangeOrder
<1>4. \A u, v \in Added : SameRange(segment[u], segment[v])
  BY <1>1 DEF QuietSync
<1> QED BY <1>2, <1>3, <1>4, RangeOrder

LEMMA SyncLifecycle ==
    ASSUME ~LateAdd, SyncInv, TypeInv', Lifecycle
    PROVE  SyncInv'
<1>0. /\ TypeInv /\ ProcessSound /\ HandlesFull /\ QuietSync /\ LoopAtomic
      /\ segment \in [Types -> Indices \cup {NoIndex}]
      /\ index_list \in Seq(Types) /\ Added \subseteq Types
      /\ \A t \in Added : SoundIndex(segment[t])
  BY TypeFacts DEF SyncInv
<1>1. ASSUME NEW how \in {"opening", "reading"}, NEW allow, Open(how, allow) PROVE SyncInv'
  <2>1. /\ process = "down" /\ process' = how
        /\ UNCHANGED <<segment, index_list, handles, call, interrupted>>
    BY <1>1 DEF Open
  <2>2. call = NoCall /\ index_list = <<>> /\ handles = <<>>
    BY <1>0, <2>1 DEF ProcessSound
  <2>3. call'.op = "none" /\ Added' = {} /\ DOMAIN handles = {}
    BY <2>1, <2>2, NoCallFacts, EmptySet, EmptySeq DEF Added
  <2>4. ProcessSound' /\ HandlesFull'
    BY <1>0, <2>1, <2>2, <2>3 DEF ProcessSound, HandlesFull, Quiet
  <2>5. LoopAtomic'
    BY <1>0, <2>1 DEF LoopAtomic, Before, After
  <2> QED BY <2>3, <2>4, <2>5, SyncQuiet
<1>2. ASSUME Ended PROVE SyncInv'
  <2>1. /\ process' = "down" /\ index_list' = <<>> /\ handles' = <<>> /\ call' = NoCall
        /\ UNCHANGED <<segment, interrupted>>
    BY <1>2 DEF Ended
  <2>2. call'.op = "none" /\ Added' = {} /\ DOMAIN handles' = {}
    BY <2>1, NoCallFacts, EmptySet, EmptySeq DEF Added
  <2>3. ProcessSound' /\ HandlesFull'
    BY <2>1, <2>2 DEF ProcessSound, HandlesFull, Quiet
  <2>4. LoopAtomic'
    BY <1>0, <2>1, <2>2 DEF LoopAtomic, Before, After
  <2> QED BY <2>2, <2>3, <2>4, SyncQuiet
<1>3. ASSUME NEW t \in Types, AddExisting(t) PROVE SyncInv'
  <2>1. /\ t \notin Added /\ segment[t] \in Indices /\ Consistent(segment[t])
        /\ process \in {"opening", "reading"}
        /\ index_list' = Append(index_list, t) /\ call = NoCall
        /\ UNCHANGED <<segment, process, handles, call, interrupted>>
    BY <1>0, <1>3 DEF AddExisting, Accept, MayAdd
  <2>2. call'.op = "none" /\ Quiet
    BY <2>1, NoCallFacts DEF Quiet
  <2>3. \A u, v \in Added' : SameRange(segment'[u], segment'[v])
    BY <2>1, <2>2, SyncAppend
  <2>4. handles = <<>> /\ DOMAIN handles = {}
    BY <1>0, <2>1, EmptySeq DEF ProcessSound
  <2>5. ProcessSound' /\ HandlesFull'
    BY <2>1, <2>2, <2>4 DEF ProcessSound, HandlesFull, Quiet
  <2>6. LoopAtomic'
    BY <1>0, <2>1 DEF LoopAtomic, Before, After
  <2> QED BY <2>2, <2>3, <2>5, <2>6, SyncQuiet
<1>4. ASSUME NEW t \in Types, AddNew(t) PROVE SyncInv'
  <2>1. /\ t \notin Added /\ segment[t] = NoIndex /\ call = NoCall
        /\ process = "opening"
        /\ segment' = [segment EXCEPT ![t] = FreshIndex]
        /\ call' = [NoCall EXCEPT !.op = "add", !.todo = <<t>>]
        /\ UNCHANGED <<process, index_list, handles, interrupted>>
    BY <1>4 DEF AddNew, MayAdd
  <2>2. call'.op = "add" /\ call'.todo = <<t>> /\ Added' = Added /\ Quiet
    BY <2>1, NoCallFacts DEF NoCall, Added, Quiet
  <2>3. \A u \in Types \ {t} : segment'[u] = segment[u]
    BY <1>0, <2>1
  <2>4. \A u, v \in Added' : SameRange(segment'[u], segment'[v])
    BY <1>0, <2>1, <2>2, <2>3 DEF QuietSync
  <2>5. handles = <<>> /\ DOMAIN handles = {}
    BY <1>0, <2>1, EmptySeq DEF ProcessSound
  <2>6. ProcessSound' /\ HandlesFull'
    BY <2>1, <2>2, <2>5 DEF ProcessSound, HandlesFull, Quiet
  <2>7. interrupted.op # "none" => t \notin interrupted.over
    BY <1>0, <2>1, NoIndexAssumption DEF LoopAtomic
  <2>8. call'.todo[1] = t
    BY <2>2
  <2>9. LoopAtomic'
    BY <1>0, <2>1, <2>3, <2>7, <2>8 DEF LoopAtomic, Before, After
  <2> QED BY <2>2, <2>4, <2>6, <2>9, SyncQuiet
<1>5. ASSUME AddStep PROVE SyncInv'
  <2>1. call.op = "add" /\ UNCHANGED <<process, handles, interrupted>>
    BY <1>5 DEF AddStep, Accept
  <2>2. PICK t \in Types \ Added : call.todo = <<t>> /\ segment[t] \in Indices
    BY <1>0, <2>1 DEF TypeInv, CallSound
  <2>3. call.todo[1] = t /\ Quiet
    BY <2>1, <2>2 DEF Quiet
  <2>4. process = "opening" /\ handles = <<>> /\ DOMAIN handles = {}
    BY <1>0, <2>1, EmptySeq DEF ProcessSound
  <2>5. interrupted.op # "none" => t \notin interrupted.over
    BY <1>0, <2>1, <2>3 DEF LoopAtomic
  <2>6. CASE Consistent(segment[t])
    <3>1. index_list' = Append(index_list, t) /\ call' = NoCall /\ segment' = segment
      BY <1>5, <2>3, <2>6 DEF AddStep, Accept
    <3>2. \A u, v \in Added' : SameRange(segment'[u], segment'[v])
      BY <2>2, <2>3, <2>6, <3>1, SyncAppend
    <3>3. call'.op = "none"
      BY <3>1, NoCallFacts
    <3>4. ProcessSound' /\ HandlesFull'
      BY <2>1, <2>4, <3>3 DEF ProcessSound, HandlesFull, Quiet
    <3>5. LoopAtomic'
      BY <1>0, <2>1, <3>1, <3>3 DEF LoopAtomic, Before, After
    <3> QED BY <3>2, <3>3, <3>4, <3>5, SyncQuiet
  <2>7. CASE ~Consistent(segment[t])
    <3>1. /\ \A u \in Types \ {t} : segment'[u] = segment[u]
          /\ index_list' = index_list /\ call' = call
      BY <1>0, <1>5, <2>3, <2>7 DEF AddStep, Accept
    <3>2. Added' = Added /\ t \notin Added
      BY <2>2, <3>1 DEF Added
    <3>3. \A u, v \in Added' : SameRange(segment'[u], segment'[v])
      BY <1>0, <2>3, <3>1, <3>2 DEF QuietSync
    <3>4. ProcessSound' /\ HandlesFull'
      BY <2>1, <2>3, <2>4, <3>1 DEF ProcessSound, HandlesFull, Quiet
    <3>5. LoopAtomic'
      BY <1>0, <2>1, <2>3, <2>5, <3>1 DEF LoopAtomic, Before, After
    <3> QED BY <2>1, <3>1, <3>3, <3>4, <3>5, SyncQuiet
  <2> QED BY <2>6, <2>7
<1>6. ASSUME AddThrows PROVE SyncInv'
  <2>1. /\ call.op = "add" /\ call' = NoCall
        /\ UNCHANGED <<segment, process, index_list, handles, interrupted>>
    BY <1>6 DEF AddThrows
  <2>2. call'.op = "none" /\ Quiet /\ Added' = Added
    BY <2>1, NoCallFacts DEF Quiet, Added
  <2>3. process = "opening" /\ handles = <<>> /\ DOMAIN handles = {}
    BY <1>0, <2>1, EmptySeq DEF ProcessSound
  <2>4. ProcessSound' /\ HandlesFull'
    BY <2>1, <2>2, <2>3 DEF ProcessSound, HandlesFull, Quiet
  <2>5. LoopAtomic'
    BY <1>0, <2>1, <2>2 DEF LoopAtomic, Before, After
  <2>6. \A u, v \in Added' : SameRange(segment'[u], segment'[v])
    BY <1>0, <2>1, <2>2 DEF QuietSync
  <2> QED BY <2>2, <2>4, <2>5, <2>6, SyncQuiet
<1> QED BY <1>1, <1>2, <1>3, <1>4, <1>5, <1>6 DEF Lifecycle, Close, Crash

(* A loop begins with all indices of the list, all in step. *)
LEMMA SyncBegin ==
    ASSUME SyncInv, TypeInv',
           NEW op \in Ops, NEW r \in Revisions, NEW subs \in Seq(Types), NEW h,
           Begin(op, r, subs, h), Distinct(subs), ToSet(subs) = Added,
           handles' \in Seq(Handles), Len(handles') = Len(handles),
           \A i \in DOMAIN handles' : handles'[i].subs = handles[i].subs
    PROVE  SyncInv'
<1>0. /\ TypeInv /\ ProcessSound /\ HandlesFull /\ QuietSync
      /\ segment \in [Types -> Indices \cup {NoIndex}] /\ Added \subseteq Types
      /\ handles \in Seq(Handles) /\ \A t \in Added : SoundIndex(segment[t])
  BY TypeFacts DEF SyncInv
<1>1. /\ call = NoCall /\ segment' = segment /\ index_list' = index_list
      /\ process' = "running"
      /\ call' = [op |-> op, arg |-> r, todo |-> subs, done |-> <<>>, handle |-> h]
      /\ interrupted' = [op |-> op, arg |-> r, over |-> ToSet(subs), before |-> segment]
  BY DEF Begin, Ready
<1>2. Added' = Added /\ Quiet
  BY <1>1, NoCallFacts DEF Added, Quiet
<1>3. /\ call'.op = op /\ call'.arg = r /\ call'.todo = subs /\ call'.done = <<>>
      /\ interrupted'.op = op /\ interrupted'.arg = r /\ interrupted'.over = Added
      /\ interrupted'.before = segment
  BY <1>1
<1>4. op \notin {"none", "add", "rollback"} /\ ~Quiet'
  BY <1>3 DEF Ops, Quiet
<1>5. \A t \in Added : Before(t)' = segment[t]
  BY <1>3 DEF Before
<1>6. LoopAtomic'
  BY <1>0, <1>1, <1>2, <1>3, <1>4, <1>5 DEF LoopAtomic, QuietSync, SoundIndex
<1>7. LoopShape'
  BY <1>2, <1>3, <1>4, EmptySet DEF LoopShape
<1>8. LoopProgress'
  BY <1>1, <1>2, <1>3, <1>4, <1>5, EmptySet DEF LoopProgress
<1>9. DOMAIN handles' = DOMAIN handles
  BY <1>0
<1>10. ProcessSound' /\ HandlesFull'
  BY <1>0, <1>1, <1>2, <1>3, <1>4, <1>9 DEF ProcessSound, HandlesFull
<1> QED BY <1>4, <1>6, <1>7, <1>8, <1>10 DEF SyncInv, QuietSync

LEMMA SyncCalls ==
    ASSUME SyncInv, TypeInv', Calls
    PROVE  SyncInv'
<1>0. /\ TypeInv /\ ProcessSound /\ HandlesFull /\ QuietSync /\ LoopAtomic
      /\ segment \in [Types -> Indices \cup {NoIndex}]
      /\ index_list \in Seq(Types) /\ Added \subseteq Types /\ Distinct(index_list)
      /\ handles \in Seq(Handles) /\ \A t \in Added : SoundIndex(segment[t])
      /\ 0 \in Revisions /\ Added = ToSet(index_list)
  BY TypeFacts, BoundsAssumption DEF SyncInv, Revisions, Added
<1>00. /\ Disturbed(handles) \in Seq(Handles)
       /\ Len(Disturbed(handles)) = Len(handles)
       /\ DOMAIN Disturbed(handles) = DOMAIN handles
       /\ \A i \in DOMAIN handles : Disturbed(handles)[i].subs = handles[i].subs
  BY <1>0, DisturbedHandles
<1>1. ASSUME NEW t \in Types, NEW v \in Tables, Write(t, v) PROVE SyncInv'
  <2> DEFINE y == [segment[t] EXCEPT !.table = v]
  <2>1. /\ t \in Added /\ call = NoCall /\ call' = call
        /\ index_list' = index_list /\ handles' = handles
        /\ segment' = [segment EXCEPT ![t] = y]
        /\ process' = "running" /\ interrupted' = NoLoop
    BY <1>1 DEF Write, Ready
  <2>2. y.history = segment[t].history /\ y.revision = segment[t].revision
    BY <1>0, <2>1 DEF SoundIndex, Indices
  <2> HIDE DEF y
  <2>3. segment'[t] = y /\ \A u \in Types \ {t} : segment'[u] = segment[u]
    BY <1>0, <2>1
  <2>4. \A u \in Added : SameRange(segment'[u], segment[u])
    BY <1>0, <2>2, <2>3, RangeOrder DEF SameRange, RangeBegin
  <2>5. call'.op = "none" /\ Quiet /\ Added' = Added
    BY <2>1, NoCallFacts DEF Quiet, Added
  <2>6. \A u, w \in Added' : SameRange(segment'[u], segment'[w])
    BY <1>0, <2>4, <2>5, RangeOrder DEF QuietSync
  <2>7. interrupted'.op = "none"
    BY <2>1 DEF NoLoop
  <2>8. LoopAtomic'
    BY <2>7 DEF LoopAtomic
  <2>9. ProcessSound' /\ HandlesFull'
    BY <1>0, <2>1, <2>5 DEF ProcessSound, HandlesFull, Quiet
  <2> QED BY <2>5, <2>6, <2>8, <2>9, SyncQuiet
<1>2. ASSUME NEW op \in Ops \ {"start"}, NEW r \in Revisions, DatabaseCall(op, r)
      PROVE  SyncInv'
  <2>1. Begin(op, r, index_list, 0) /\ handles' = Disturbed(handles)
    BY <1>2 DEF DatabaseCall
  <2> QED BY <1>0, <1>00, <2>1, SyncBegin
<1>3. ASSUME start_undo_session PROVE SyncInv'
  <2>1. Begin("start", 0, index_list, 0) /\ handles' = handles /\ "start" \in Ops
    BY <1>3 DEF start_undo_session, Ops
  <2> QED BY <1>0, <2>1, SyncBegin
<1>4. ASSUME NEW h \in DOMAIN handles, Push(h) PROVE SyncInv'
  <2>1. /\ call = NoCall /\ UNCHANGED <<segment, process, index_list, call, interrupted>>
    BY <1>4 DEF Push, Ready
  <2>2. /\ DOMAIN handles' = 1 .. Len(handles) - 1
        /\ \A i \in 1 .. Len(handles) - 1 :
             /\ i < h => handles'[i].subs = handles[i].subs
             /\ ~(i < h) => handles'[i] = handles[i + 1]
    BY <1>0, <1>4, PushHandles
  <2>3. \A i \in 1 .. Len(handles) - 1 : i \in DOMAIN handles /\ i + 1 \in DOMAIN handles
    BY <1>0
  <2>4. call'.op = "none" /\ Quiet /\ Added' = Added
    BY <2>1, NoCallFacts DEF Quiet, Added
  <2>5. HandlesFull'
    BY <1>0, <2>2, <2>3, <2>4 DEF HandlesFull
  <2>6. handles # <<>>
    BY <1>0, EmptySeq
  <2>7. process = "running"
    BY <1>0, <2>6 DEF ProcessSound
  <2>8. ProcessSound'
    BY <2>1, <2>4, <2>7 DEF ProcessSound, Quiet
  <2>9. LoopAtomic'
    BY <1>0, <2>1 DEF LoopAtomic, Before, After
  <2>10. \A u, w \in Added' : SameRange(segment'[u], segment'[w])
    BY <1>0, <2>1, <2>4 DEF QuietSync
  <2> QED BY <2>4, <2>5, <2>8, <2>9, <2>10, SyncQuiet
<1>5. ASSUME NEW h \in DOMAIN handles, NEW op \in {"undo", "squash"}, HandleCall(op, h)
      PROVE  SyncInv'
  <2>1. Begin(op, 0, handles[h].subs, h) /\ handles' \in {handles, Disturbed(handles)}
    BY <1>5 DEF HandleCall
  <2>2. handles[h].subs \in Seq(Types)
    <3>1. handles[h] \in Handles
      BY <1>0
    <3> QED BY <3>1 DEF Handles
  <2>3. Distinct(handles[h].subs) /\ ToSet(handles[h].subs) = Added
    BY <1>0 DEF HandlesFull
  <2>4. /\ handles' \in Seq(Handles) /\ Len(handles') = Len(handles)
        /\ \A i \in DOMAIN handles' : handles'[i].subs = handles[i].subs
    BY <1>0, <1>00, <2>1
  <2>5. op \in Ops
    BY DEF Ops
  <2> QED BY <1>0, <2>1, <2>2, <2>3, <2>4, <2>5, SyncBegin
<1> QED
  <2>1. {"undo", "squash", "undo_all", "commit", "set_revision"} \subseteq Ops \ {"start"}
    BY DEF Ops
  <2> QED BY <1>0, <1>1, <1>2, <1>3, <1>4, <1>5, <2>1 DEF Calls

LEMMA SyncLoopStep ==
    ASSUME SyncInv, TypeInv', LoopStep
    PROVE  SyncInv'
<1> DEFINE t == call.todo[1]
<1>0. /\ TypeInv /\ ProcessSound /\ HandlesFull /\ LoopAtomic /\ LoopShape /\ LoopProgress
      /\ call.todo \in Seq(Types) /\ call.done \in Seq(Types) /\ Added \subseteq Types
  BY TypeFacts, CallFacts DEF SyncInv
<1>1. /\ t \in Added /\ t \in Types /\ t \in ToSet(call.todo)
      /\ call.op \in Ops \cup {"rollback"} /\ call.todo # <<>>
      /\ ~(call.op = "set_revision" /\ segment[t].history # <<>>)
      /\ SoundIndex(segment'[t])
      /\ segment'[t] = Apply(call.op, call.arg, segment[t])
      /\ \A u \in Types \ {t} : segment'[u] = segment[u]
      /\ \A u \in Types : segment[u] \in Indices => segment'[u] \in Indices
      /\ call'.op = call.op /\ call'.arg = call.arg
      /\ call'.todo = Tail(call.todo) /\ call'.done = Append(call.done, t)
      /\ UNCHANGED <<process, index_list, handles, interrupted>>
      /\ Added' = Added
  BY <1>0, Iteration
<1>2. ~Quiet /\ ~Quiet' /\ call.op \notin {"none", "add"}
  BY <1>1 DEF Quiet, Ops
<1>3. /\ interrupted.op = IF call.op = "rollback" THEN "start" ELSE call.op
      /\ interrupted.arg = call.arg /\ interrupted.over = Added
      /\ Distinct(call.todo) /\ Distinct(call.done)
      /\ ToSet(call.todo) \cap ToSet(call.done) = {}
      /\ call.op # "rollback" => ToSet(call.todo) \cup ToSet(call.done) = Added
  BY <1>0, <1>2 DEF LoopShape
<1>4. /\ ToSet(call.todo) = {t} \cup ToSet(call'.todo)
      /\ Distinct(call'.todo) /\ t \notin ToSet(call'.todo)
  BY <1>0, <1>1, <1>3, TailSet
<1>5. t \notin ToSet(call.done)
  BY <1>1, <1>3
<1>6. ToSet(call'.done) = ToSet(call.done) \cup {t} /\ Distinct(call'.done)
  BY <1>0, <1>1, <1>3, <1>5, AppendSet
<1> HIDE DEF t
<1>7. LoopShape'
  BY <1>1, <1>3, <1>4, <1>5, <1>6 DEF LoopShape
<1>8. interrupted.op # "none" /\ interrupted.op \in Ops
  BY <1>1, <1>3 DEF Ops
<1>9. \A u \in Added : Before(u)' = Before(u) /\ After(u)' = After(u)
  BY <1>1 DEF Before, After
<1>10. \A u \in Added : SoundIndex(Before(u)) /\ segment[u] \in {Before(u), After(u)}
  BY <1>0, <1>3, <1>8 DEF LoopAtomic
<1>11. IF call.op = "rollback" THEN segment'[t] = Before(t) ELSE segment'[t] = After(t)
  <2>1. CASE call.op # "rollback"
    <3>1. segment[t] = Before(t)
      BY <1>0, <1>1, <1>2, <2>1 DEF LoopProgress
    <3> QED BY <1>1, <1>3, <2>1, <3>1 DEF After
  <2>2. CASE call.op = "rollback"
    <3>1. segment[t] = StartOne(Before(t))
      <4>1. segment[t] = After(t)
        BY <1>0, <1>1, <1>2, <2>2 DEF LoopProgress
      <4> QED BY <1>3, <2>2, <4>1, ApplyCases DEF After
    <3>2. segment'[t] = UndoOne(StartOne(Before(t)))
      BY <1>1, <2>2, <3>1, ApplyCases
    <3> QED BY <1>1, <1>10, <2>2, <3>2, UndoStart
  <2> QED BY <2>1, <2>2
<1>12. LoopAtomic'
  <2>1. \A u \in Added : segment'[u] \in Indices /\ segment'[u] \in {Before(u), After(u)}
    <3>1. segment'[t] \in Indices /\ segment'[t] \in {Before(t), After(t)}
      BY <1>1, <1>11 DEF SoundIndex
    <3>2. \A u \in Added \ {t} : segment'[u] = segment[u]
      BY <1>0, <1>1
    <3>3. \A u \in Added : segment[u] \in Indices
      BY <1>0 DEF TypeInv, ListSound
    <3> QED BY <1>10, <3>1, <3>2, <3>3
  <2> QED BY <1>0, <1>1, <1>2, <1>3, <1>8, <1>9, <1>10, <2>1 DEF LoopAtomic
<1>13. LoopProgress'
  <2>0. ToSet(call.todo) \subseteq Added /\ ToSet(call.done) \subseteq Added
    BY <1>0, <1>2 DEF TypeInv, CallSound
  <2>00. \A u \in Added \ {t} : segment'[u] = segment[u]
    BY <1>0, <1>1
  <2>1. ASSUME call.op # "rollback"
        PROVE  /\ \A u \in ToSet(call'.todo) : segment'[u] = Before(u)
               /\ \A u \in ToSet(call'.done) : segment'[u] = After(u)
    BY <1>0, <1>2, <1>4, <1>6, <1>11, <2>0, <2>00, <2>1 DEF LoopProgress
  <2>2. ASSUME call.op = "rollback"
        PROVE  /\ \A u \in ToSet(call'.todo) : segment'[u] = After(u)
               /\ \A u \in Added \ ToSet(call'.todo) : segment'[u] = Before(u)
    BY <1>0, <1>2, <1>4, <1>6, <1>11, <2>0, <2>00, <2>2 DEF LoopProgress
  <2>3. ASSUME call.op = "set_revision"
        PROVE  \A u \in ToSet(call'.done) : Before(u).history = <<>>
    <3>1. segment[t] = Before(t)
      BY <1>0, <1>1, <1>2, <2>3 DEF LoopProgress
    <3>2. \A u \in ToSet(call.done) : Before(u).history = <<>>
      BY <1>0, <1>2, <2>3 DEF LoopProgress
    <3> QED BY <1>1, <1>6, <2>3, <3>1, <3>2
  <2>4. ToSet(call'.todo) \subseteq Added /\ ToSet(call'.done) \subseteq Added
    BY <1>1, <1>4, <1>6, <2>0
  <2> QED BY <1>1, <1>2, <1>9, <2>1, <2>2, <2>3, <2>4 DEF LoopProgress
<1>14. ProcessSound' /\ HandlesFull'
  BY <1>0, <1>1, <1>2 DEF ProcessSound, HandlesFull
<1> QED BY <1>2, <1>7, <1>12, <1>13, <1>14 DEF SyncInv, QuietSync

(* The loop that ends leaves the indices in step: it did the same to all of  *)
(* them, or nothing.                                                         *)
LEMMA LoopEnds ==
    ASSUME SyncInv, ~Quiet,
           \/ \A t \in Added : segment[t] = Before(t)
           \/ \A t \in Added : segment[t] = After(t)
    PROVE  \A t, u \in Added : SameRange(segment[t], segment[u])
<1>1. LoopAtomic /\ LoopShape /\ TypeInv
  BY DEF SyncInv
<1>2. call.op \in Ops \cup {"rollback"}
  BY <1>1, CallFacts DEF Quiet
<1>3. interrupted.op \in Ops /\ interrupted.op # "none" /\ interrupted.over = Added
  BY <1>1, <1>2 DEF LoopShape, Ops
<1>4. /\ \A t \in Added : SoundIndex(Before(t))
      /\ \A t, u \in Added : SameRange(Before(t), Before(u))
      /\ interrupted.arg \in Revisions
  BY <1>1, <1>3 DEF LoopAtomic
<1>5. \A t, u \in Added : SameRange(After(t), After(u))
  BY <1>3, <1>4, ApplySync DEF After
<1> QED BY <1>4, <1>5

LEMMA SyncLoop ==
    ASSUME SyncInv, TypeInv', Loop
    PROVE  SyncInv'
<1>0. /\ TypeInv /\ ProcessSound /\ HandlesFull /\ LoopAtomic /\ LoopShape /\ LoopProgress
      /\ call.todo \in Seq(Types) /\ call.done \in Seq(Types) /\ Added \subseteq Types
      /\ handles \in Seq(Handles) /\ call.handle \in 0 .. Len(handles)
  BY TypeFacts, CallFacts DEF SyncInv
<1>1. CASE LoopStep
  BY <1>1, SyncLoopStep
<1>2. ASSUME SetRevisionThrows PROVE SyncInv'
  <2> DEFINE t == call.todo[1]
  <2>1. /\ call.op = "set_revision" /\ call.todo # <<>> /\ segment[t].history # <<>>
        /\ call' = NoCall /\ interrupted' = NoLoop
        /\ UNCHANGED <<segment, process, index_list, handles>>
    BY <1>2 DEF SetRevisionThrows
  <2>2. ~Quiet /\ Added' = Added /\ call'.op = "none" /\ interrupted'.op = "none"
    BY <2>1, NoCallFacts DEF Quiet, Added, NoLoop
  <2>3. t \in ToSet(call.todo)
    BY <1>0, <2>1, SetType
  <2> HIDE DEF t
  <2>4. /\ ToSet(call.todo) \cup ToSet(call.done) = Added /\ interrupted.over = Added
        /\ interrupted.op # "none"
    BY <1>0, <2>1, <2>2 DEF LoopShape
  <2>5. /\ \A u \in ToSet(call.todo) : segment[u] = Before(u)
        /\ \A u \in ToSet(call.done) : Before(u).history = <<>>
    BY <1>0, <2>1, <2>2 DEF LoopProgress
  <2>6. ToSet(call.done) = {}
    <3> SUFFICES ASSUME NEW u \in ToSet(call.done) PROVE FALSE
      OBVIOUS
    <3>1. /\ SoundIndex(Before(u)) /\ SoundIndex(Before(t))
          /\ SameRange(Before(u), Before(t))
      BY <1>0, <2>3, <2>4 DEF LoopAtomic
    <3>2. Before(u).history = <<>> /\ Before(t).history # <<>>
      BY <2>1, <2>3, <2>5
    <3>3. /\ Len(Before(u).history) \in Nat /\ Before(u).revision \in Nat
          /\ Before(u).history = <<>> <=> Len(Before(u).history) = 0
      BY <3>1, IndexFacts
    <3>4. /\ Len(Before(t).history) \in Nat /\ Before(t).revision \in Nat
          /\ Before(t).history = <<>> <=> Len(Before(t).history) = 0
      BY <3>1, IndexFacts
    <3> QED BY <3>1, <3>2, <3>3, <3>4 DEF SameRange, RangeBegin
  <2>7. \A u \in Added : segment[u] = Before(u)
    BY <2>4, <2>5, <2>6
  <2>8. \A u, v \in Added' : SameRange(segment'[u], segment'[v])
    BY <2>1, <2>2, <2>7, LoopEnds
  <2>9. ProcessSound' /\ HandlesFull'
    BY <1>0, <2>1, <2>2 DEF ProcessSound, HandlesFull, Quiet
  <2>10. LoopAtomic'
    BY <2>2 DEF LoopAtomic
  <2> QED BY <2>2, <2>8, <2>9, <2>10, SyncQuiet
<1>3. ASSUME StartThrows PROVE SyncInv'
  <2>1. /\ call.op = "start"
        /\ call' = [call EXCEPT !.op = "rollback", !.todo = call.done, !.done = <<>>]
        /\ UNCHANGED <<segment, process, index_list, handles, interrupted>>
    BY <1>3 DEF StartThrows
  <2>2. /\ call'.op = "rollback" /\ call'.todo = call.done
        /\ call'.done = <<>> /\ call'.arg = call.arg
    <3>1. call \in Loops
      BY <1>0, TypeFacts
    <3> QED BY <2>1, <3>1 DEF Loops
  <2>3. ~Quiet /\ ~Quiet' /\ Added' = Added
    BY <2>1, <2>2 DEF Quiet, Added
  <2>4. \A u : Before(u)' = Before(u) /\ After(u)' = After(u)
    BY <2>1 DEF Before, After
  <2>5. LoopShape'
    BY <1>0, <2>1, <2>2, <2>3, EmptySet DEF LoopShape
  <2>6. LoopProgress'
    BY <1>0, <2>1, <2>2, <2>3, <2>4 DEF LoopProgress, LoopShape
  <2>7. LoopAtomic'
    BY <1>0, <2>1, <2>2, <2>4 DEF LoopAtomic
  <2>8. ProcessSound' /\ HandlesFull'
    BY <1>0, <2>1, <2>2, <2>3 DEF ProcessSound, HandlesFull
  <2> QED BY <2>3, <2>5, <2>6, <2>7, <2>8 DEF SyncInv, QuietSync
<1>4. ASSUME LoopReturns PROVE SyncInv'
  <2>1. /\ call.op \notin {"none", "add"} /\ call.todo = <<>>
        /\ call' = NoCall /\ interrupted' = NoLoop
        /\ UNCHANGED <<segment, process, index_list>>
    BY <1>4 DEF LoopReturns
  <2>2. ~Quiet /\ Added' = Added /\ call'.op = "none" /\ interrupted'.op = "none"
        /\ ToSet(call.todo) = {}
    BY <2>1, NoCallFacts, EmptySet DEF Quiet, Added, NoLoop
  <2>3. \/ \A t \in Added : segment[t] = Before(t)
        \/ \A t \in Added : segment[t] = After(t)
    BY <1>0, <2>2 DEF LoopShape, LoopProgress
  <2>4. \A u, v \in Added' : SameRange(segment'[u], segment'[v])
    BY <2>1, <2>2, <2>3, LoopEnds
  <2>5. process = "running"
    BY <1>0, <2>2 DEF ProcessSound
  <2>6. ProcessSound'
    BY <2>1, <2>2, <2>5 DEF ProcessSound, Quiet
  <2>7. LoopAtomic'
    BY <2>2 DEF LoopAtomic
  <2>8. HandlesFull'
    <3>1. CASE call.op = "start"
      <4>1. handles' = Append(handles, NewHandle) /\ NewHandle \in Handles
        BY <1>0, <1>4, <3>1, ReturnedHandle DEF LoopReturns, NewHandle
      <4>2. NewHandle.subs = call.done
        BY DEF NewHandle
      <4> HIDE DEF NewHandle
      <4>3. /\ handles' \in Seq(Handles) /\ Len(handles') = Len(handles) + 1
            /\ handles'[Len(handles) + 1] = NewHandle
            /\ \A i \in 1 .. Len(handles) : handles'[i] = handles[i]
        BY <1>0, <4>1, AppendSeq
      <4>4. ToSet(call.done) = Added /\ Distinct(call.done)
        BY <1>0, <2>2, <3>1 DEF LoopShape
      <4>5. DOMAIN handles' = 1 .. Len(handles) + 1 /\ DOMAIN handles = 1 .. Len(handles)
            /\ Len(handles) \in Nat
        BY <1>0, <4>3
      <4> QED BY <1>0, <2>2, <4>2, <4>3, <4>4, <4>5 DEF HandlesFull
    <3>2. CASE call.op # "start" /\ call.handle = 0
      BY <1>0, <1>4, <2>2, <3>2 DEF LoopReturns, HandlesFull
    <3>3. CASE call.op # "start" /\ call.handle # 0
      <4>1. handles' = RemoveAt(handles, call.handle) /\ call.handle \in 1 .. Len(handles)
        BY <1>0, <1>4, <3>3 DEF LoopReturns
      <4>2. /\ handles' \in Seq(Handles) /\ Len(handles') = Len(handles) - 1
            /\ \A i \in 1 .. Len(handles) - 1 :
                 handles'[i] = IF i < call.handle THEN handles[i] ELSE handles[i + 1]
        BY <1>0, <4>1, RemoveSeq
      <4>3. \A i \in 1 .. Len(handles) - 1 : i \in DOMAIN handles /\ i + 1 \in DOMAIN handles
        BY <1>0
      <4>4. DOMAIN handles' = 1 .. Len(handles) - 1
        BY <4>2
      <4> QED BY <1>0, <2>2, <4>2, <4>3, <4>4 DEF HandlesFull
    <3> QED BY <3>1, <3>2, <3>3
  <2> QED BY <2>2, <2>4, <2>6, <2>7, <2>8, SyncQuiet
<1> QED BY <1>1, <1>2, <1>3, <1>4 DEF Loop

LEMMA SyncStep ==
    ASSUME ~LateAdd
    PROVE  SyncInv /\ [Next]_vars /\ ~torn' => SyncInv'
<1> SUFFICES ASSUME SyncInv, [Next]_vars, ~torn' PROVE SyncInv'
  OBVIOUS
<1>0. TypeInv'
  BY TypeStep DEF SyncInv
<1>1. Lifecycle \/ Calls \/ Loop \/ UNCHANGED vars
  BY TornStep DEF SyncInv
<1> QED BY <1>0, <1>1, SyncUnchanged, SyncLifecycle, SyncCalls, SyncLoop

LEMMA SyncInvariant ==
    ASSUME ~LateAdd
    PROVE  Spec => [](torn \/ SyncInv)
<1>1. Init => torn \/ SyncInv
  BY SyncInit
<1>2. TypeInv /\ (torn \/ SyncInv) /\ [Next]_vars => (torn \/ SyncInv)'
  BY SyncStep, TornStep
<1> QED BY <1>1, <1>2, TypeInvariant, PTL DEF Spec

(* With all indices added before the first operation, the indices of a       *)
(* process have one revision range whenever none of the loops of database    *)
(* or of a session object is running, whatever start_undo_session was rolled *)
(* back, whatever set_revision threw and whatever loop a crash cut short     *)
(* before, until an undo, squash or undo_all runs out of memory.             *)
THEOREM IndicesInSync ==
    ASSUME ~LateAdd
    PROVE  Spec => []InSync
<1>1. torn \/ SyncInv => InSync
  BY NoCallFacts DEF SyncInv, QuietSync, InSync, Quiet
<1> QED BY <1>1, SyncInvariant, PTL

(* The revision ranges that add_index compares tell every torn loop from a   *)
(* whole one: when it accepts all the indices that an interrupted undo,      *)
(* squash, commit, set_revision, undo_all or start_undo_session went over,   *)
(* the loop had done all of its work, or none.  (Until one of them runs out  *)
(* of memory.)                                                               *)
THEOREM AcceptedIsAtomic ==
    ASSUME ~LateAdd
    PROVE  Spec => []CrashAtomic
<1>1. torn \/ SyncInv => CrashAtomic
  <2> SUFFICES ASSUME SyncInv, process \in {"opening", "reading"},
                      interrupted.op # "none", interrupted.over \subseteq Added,
                      NEW t \in interrupted.over, segment[t] # Before(t),
                      NEW u \in interrupted.over, segment[u] # After(u)
               PROVE  FALSE
    BY DEF CrashAtomic, Before, After
  <2>1. LoopAtomic /\ QuietSync /\ Quiet
    BY DEF SyncInv, ProcessSound
  <2>2. /\ interrupted.op \in Ops /\ interrupted.arg \in Revisions
        /\ SoundIndex(Before(t)) /\ segment[t] = After(t) /\ segment[u] = Before(u)
        /\ SameRange(Before(t), Before(u))
    BY <2>1 DEF LoopAtomic
  <2>3. SameRange(After(t), Before(u))
    BY <2>1, <2>2 DEF QuietSync
  <2>4. SameRange(After(t), Before(t))
    BY <2>2, <2>3, RangeOrder
  <2>5. After(t) = Before(t)
    BY <2>2, <2>4, ApplyVisible DEF After
  <2> QED BY <2>2, <2>5
<1> QED BY <1>1, SyncInvariant, PTL

-----------------------------------------------------------------------------
(***************************************************************************)
(* A file left clean opens again.                                          *)
(***************************************************************************)
LEMMA IntactUnchanged ==
    ASSUME IntactInv, UNCHANGED <<segment, process, index_list, dirty, intact>>
    PROVE  IntactInv'
BY DEF IntactInv, Present, AllInSync, Added

(* What IntactInv' is, when the process afterwards uses the indices. *)
LEMMA IntactRunning ==
    ASSUME TypeInv', process' = "running", dirty', intact' => Added' = Types
    PROVE  IntactInv'
<1>1. \A t \in Added' : segment'[t] \in Indices
  BY DEF TypeInv, ListSound
<1>2. Added' = Types => Present' = Types
  BY <1>1, NoIndexAssumption DEF Present
<1> QED BY <1>2 DEF IntactInv

(* add_index accepts an index.  Once it has accepted all of them, they are    *)
(* in step, whatever happened to the file before.                            *)
LEMMA IntactAccept ==
    ASSUME SyncInv', IntactInv, TypeInv, process # "running", call'.op \in {"none", "add"},
           NEW t \in Types \ Added, segment[t] \in Indices, Accept(t),
           UNCHANGED <<segment, process, dirty>>
    PROVE  IntactInv'
<1>1. Added' = Added \cup {t}
  BY ListStep DEF Accept
<1>2. Present' = Present /\ AllInSync' = AllInSync
  BY DEF Present, AllInSync
<1>3. CASE intact
  BY <1>2, <1>3 DEF IntactInv
<1>4. CASE ~intact /\ intact'
  <2>1. Added' = Types
    BY <1>1, <1>4 DEF Accept
  <2>2. AllInSync'
    BY <2>1 DEF SyncInv, QuietSync, Quiet, AllInSync, Present
  <2>3. Present' = Types
    BY <2>1, NoIndexAssumption DEF SyncInv, TypeInv, ListSound, Present
  <2> QED BY <2>2, <2>3 DEF IntactInv
<1>5. CASE ~intact'
  BY <1>5 DEF IntactInv
<1> QED BY <1>3, <1>4, <1>5

LEMMA IntactLifecycle ==
    ASSUME ~LateAdd, SyncInv, IntactInv, SyncInv', Lifecycle
    PROVE  IntactInv'
<1>0. /\ TypeInv /\ ProcessSound /\ QuietSync
      /\ segment \in [Types -> Indices \cup {NoIndex}]
      /\ index_list \in Seq(Types) /\ Added \subseteq Types
      /\ \A t \in Added : SoundIndex(segment[t])
  BY TypeFacts DEF SyncInv
<1>1. ASSUME NEW how \in {"opening", "reading"}, NEW allow, Open(how, allow) PROVE IntactInv'
  <2>1. /\ process = "down" /\ process' = how /\ segment' = segment
        /\ dirty' = (dirty \/ how = "opening") /\ intact' = (intact /\ ~dirty)
    BY <1>1 DEF Open
  <2>2. Present' = Present /\ AllInSync' = AllInSync
    BY <2>1 DEF Present, AllInSync
  <2> QED BY <2>1, <2>2 DEF IntactInv
<1>2. ASSUME Close PROVE IntactInv'
  <2>1. /\ process # "down" /\ process' = "down" /\ call = NoCall
        /\ segment' = segment /\ intact' = intact
    BY <1>2 DEF Close, Ended
  <2>2. Present' = Present /\ AllInSync' = AllInSync
    BY <2>1 DEF Present, AllInSync
  <2>3. intact => AllInSync
    <3>1. CASE process = "running"
      <4>1. intact => Added = Types
        BY <3>1 DEF IntactInv
      <4>2. Quiet
        BY <2>1, NoCallFacts DEF Quiet
      <4> QED BY <1>0, <4>1, <4>2 DEF QuietSync, AllInSync, Present
    <3>2. CASE process # "running"
      BY <1>0, <2>1, <3>2 DEF IntactInv, TypeInv, TypeOK
    <3> QED BY <3>1, <3>2
  <2> QED BY <2>1, <2>2, <2>3 DEF IntactInv
<1>3. ASSUME Crash PROVE IntactInv'
  <2>1. /\ process # "down" /\ process' = "down"
        /\ segment' = segment /\ intact' = intact /\ dirty' = dirty
    BY <1>3 DEF Crash, Ended
  <2>2. Present' = Present /\ AllInSync' = AllInSync
    BY <2>1 DEF Present, AllInSync
  <2>3. ~dirty => process = "reading"
    BY <1>0, <2>1 DEF IntactInv, TypeInv, TypeOK
  <2> QED BY <2>1, <2>2, <2>3 DEF IntactInv
<1>4. ASSUME NEW t \in Types, AddExisting(t) PROVE IntactInv'
  <2>1. /\ process # "running" /\ call = NoCall /\ call' = call
        /\ t \in Types \ Added /\ segment[t] # NoIndex /\ Accept(t)
        /\ UNCHANGED <<segment, process, dirty>>
    BY <1>4 DEF AddExisting, MayAdd
  <2>2. segment[t] \in Indices
    BY <1>0, <2>1
  <2> QED BY <1>0, <2>1, <2>2, NoCallFacts, IntactAccept
<1>5. ASSUME NEW t \in Types, AddNew(t) PROVE IntactInv'
  <2>1. /\ process = "opening" /\ segment[t] = NoIndex
        /\ segment' = [segment EXCEPT ![t] = FreshIndex]
        /\ UNCHANGED <<process, dirty, intact>>
    BY <1>5 DEF AddNew, MayAdd
  <2>2. segment'[t] = FreshIndex /\ \A u \in Types \ {t} : segment'[u] = segment[u]
    BY <1>0, <2>1
  <2>3. intact => \A u \in Present : segment[u] = FreshIndex
    BY <2>1 DEF IntactInv, Present
  <2>4. intact => \A u \in Present' : segment'[u] = FreshIndex
    BY <2>2, <2>3 DEF Present
  <2>5. intact => AllInSync'
    BY <2>4, RangeOrder DEF AllInSync
  <2> QED BY <2>1, <2>4, <2>5 DEF IntactInv
<1>6. ASSUME AddStep PROVE IntactInv'
  <2>1. call.op = "add" /\ UNCHANGED <<process, dirty>>
    BY <1>6 DEF AddStep
  <2>2. PICK t \in Types \ Added : call.todo = <<t>> /\ segment[t] \in Indices
    BY <1>0, <2>1 DEF TypeInv, CallSound
  <2>3. call.todo[1] = t /\ process = "opening" /\ dirty
    BY <1>0, <2>1, <2>2 DEF ProcessSound, IntactInv
  <2>4. CASE Consistent(segment[t])
    <3>1. Accept(t) /\ call' = NoCall /\ segment' = segment
      BY <1>6, <2>3, <2>4 DEF AddStep
    <3> QED BY <1>0, <2>1, <2>2, <2>3, <3>1, NoCallFacts, IntactAccept
  <2>5. CASE ~Consistent(segment[t])
    <3>1. ~intact
      <4> SUFFICES ASSUME intact PROVE FALSE
        OBVIOUS
      <4>1. AllInSync
        BY <2>3 DEF IntactInv
      <4>2. index_list # <<>> => index_list[1] \in Added
        BY <1>0, SetType DEF Added
      <4>3. Added \cup {t} \subseteq Present
        BY <1>0, <2>2, NoIndexAssumption DEF Present, SoundIndex
      <4> QED BY <2>5, <4>1, <4>2, <4>3 DEF Consistent, AllInSync
    <3>2. intact' = intact
      BY <1>6, <2>3, <2>5 DEF AddStep
    <3> QED BY <2>1, <2>3, <3>1, <3>2 DEF IntactInv
  <2> QED BY <2>4, <2>5
<1>7. ASSUME AddThrows PROVE IntactInv'
  <2>1. ~intact' /\ process' = process /\ dirty' = dirty
    BY <1>7 DEF AddThrows
  <2> QED BY <2>1 DEF IntactInv
<1> QED BY <1>1, <1>2, <1>3, <1>4, <1>5, <1>6, <1>7 DEF Lifecycle

LEMMA IntactBegin ==
    ASSUME IntactInv, TypeInv', NEW op, NEW r, NEW subs, NEW h, Begin(op, r, subs, h)
    PROVE  IntactInv'
<1>1. /\ process \in {"opening", "running"} /\ process' = "running"
      /\ intact' => Added = Types
      /\ index_list' = index_list /\ dirty' = dirty
  BY DEF Begin, Ready
<1>2. dirty /\ Added' = Added
  BY <1>1 DEF IntactInv, Added
<1> QED BY <1>1, <1>2, IntactRunning

LEMMA IntactCalls ==
    ASSUME IntactInv, TypeInv', Calls
    PROVE  IntactInv'
<1>1. ASSUME NEW t \in Types, NEW v \in Tables, Write(t, v) PROVE IntactInv'
  <2>1. /\ process \in {"opening", "running"} /\ process' = "running"
        /\ intact' => Added = Types
        /\ index_list' = index_list /\ dirty' = dirty
    BY <1>1 DEF Write, Ready
  <2>2. dirty /\ Added' = Added
    BY <2>1 DEF IntactInv, Added
  <2> QED BY <2>1, <2>2, IntactRunning
<1>2. ASSUME NEW op, NEW r, DatabaseCall(op, r) PROVE IntactInv'
  BY <1>2, IntactBegin DEF DatabaseCall
<1>3. ASSUME start_undo_session PROVE IntactInv'
  BY <1>3, IntactBegin DEF start_undo_session
<1>4. ASSUME NEW h, Push(h) PROVE IntactInv'
  BY <1>4, IntactUnchanged DEF Push
<1>5. ASSUME NEW h, NEW op, HandleCall(op, h) PROVE IntactInv'
  BY <1>5, IntactBegin DEF HandleCall
<1> QED BY <1>1, <1>2, <1>3, <1>4, <1>5 DEF Calls

LEMMA IntactLoop ==
    ASSUME SyncInv, IntactInv, TypeInv', Loop
    PROVE  IntactInv'
<1>1. CASE LoopStep
  <2>1. /\ call.op \notin {"none", "add"}
        /\ UNCHANGED <<process, index_list, dirty, intact>>
    BY <1>1 DEF LoopStep
  <2>2. process = "running"
    BY <2>1 DEF SyncInv, ProcessSound, Quiet
  <2>3. dirty /\ (intact => Added = Types) /\ Added' = Added
    BY <2>1, <2>2 DEF IntactInv, Added
  <2> QED BY <2>1, <2>2, <2>3, IntactRunning
<1>2. CASE SetRevisionThrows
  BY <1>2, IntactUnchanged DEF SetRevisionThrows
<1>3. CASE StartThrows
  BY <1>3, IntactUnchanged DEF StartThrows
<1>4. CASE LoopReturns
  BY <1>4, IntactUnchanged DEF LoopReturns
<1> QED BY <1>1, <1>2, <1>3, <1>4 DEF Loop

LEMMA CleanInit == Init => CleanInv
<1> SUFFICES ASSUME Init PROVE IntactInv
  BY SyncInit DEF CleanInv
<1>1. process = "down" /\ Present = {}
  BY DEF Init, Present
<1> QED BY <1>1 DEF IntactInv, AllInSync

LEMMA CleanStep ==
    ASSUME ~LateAdd
    PROVE  CleanInv /\ [Next]_vars /\ ~torn' => CleanInv'
<1> SUFFICES ASSUME SyncInv, IntactInv, [Next]_vars, ~torn' PROVE CleanInv'
  BY DEF CleanInv
<1>0. SyncInv' /\ TypeInv'
  BY SyncStep DEF SyncInv
<1>1. CASE UNCHANGED vars
  BY <1>0, <1>1, IntactUnchanged DEF vars, CleanInv
<1>2. Lifecycle \/ Calls \/ Loop \/ UNCHANGED vars
  BY TornStep DEF SyncInv
<1> QED BY <1>0, <1>1, <1>2, IntactLifecycle, IntactCalls, IntactLoop DEF CleanInv

(* A file whose dirty flag is clear has one revision range in all its        *)
(* indices, so that no add_index of the next process refuses one of them:    *)
(* from the start, and again once add_index has accepted all indices of a    *)
(* file that was opened in spite of its flag, used in part or left with an   *)
(* index not brought in line, until undo, squash or undo_all runs out of     *)
(* memory.                                                                   *)
THEOREM CleanFileOpens ==
    ASSUME ~LateAdd
    PROVE  Spec => []CleanOpens
<1> DEFINE Inv == IF torn THEN ~intact ELSE CleanInv
<1>1. Inv => CleanOpens
  BY DEF CleanInv, IntactInv, AllInSync, Present, CleanOpens
<1>2. Init => Inv
  BY CleanInit DEF Init
<1>3. TypeInv /\ Inv /\ [Next]_vars => Inv'
  <2> SUFFICES ASSUME TypeInv, Inv, [Next]_vars PROVE Inv'
    OBVIOUS
  <2>1. CASE ~torn'
    BY <2>1, CleanStep, TornStep
  <2>2. CASE torn'
    BY <2>2, TornStep
  <2> QED BY <2>1, <2>2
<1> QED BY <1>1, <1>2, <1>3, TypeInvariant, PTL DEF Spec

-----------------------------------------------------------------------------
(***************************************************************************)
(* Session objects restore what they found.                                *)
(***************************************************************************)

(* A session started on top is one more to look below. *)
LEMMA SavesStart ==
    ASSUME NEW x, SoundIndex(x), NEW d \in Nat, NEW v
    PROVE  /\ Saves(x, d, v) => Saves(StartOne(x), d + 1, v)
           /\ Saves(StartOne(x), 0, x.table)
           /\ StartOne(x).table = x.table
<1> DEFINE h == x.history
<1> DEFINE a == Append(h, x.table)
<1>1. h \in Seq(Tables) /\ Len(h) \in Nat /\ x.table \in Tables /\ x \in IndexRecords
  BY IndexFacts
<1>2. StartOne(x) = [table |-> x.table, history |-> a, revision |-> x.revision + 1]
  BY <1>1, StartShape
<1>3. StartOne(x).history = a /\ StartOne(x).table = x.table
  BY <1>2
<1>4. /\ Len(a) = Len(h) + 1 /\ a[Len(h) + 1] = x.table
      /\ \A i \in 1 .. Len(h) : a[i] = h[i]
  BY <1>1, AppendSeq
<1> HIDE DEF h, a
<1>5. ASSUME Saves(x, d, v) PROVE Saves(StartOne(x), d + 1, v)
  <2> DEFINE k == Len(h) - d
  <2>1. k >= 1 /\ h[k] = v /\ k \in 1 .. Len(h)
    BY <1>1, <1>5 DEF Saves, h
  <2>2. Len(a) - (d + 1) = k
    BY <1>1, <1>4
  <2> QED BY <1>3, <1>4, <2>1, <2>2 DEF Saves
<1>6. Saves(StartOne(x), 0, x.table)
  <2>1. Len(a) - 0 = Len(h) + 1 /\ Len(h) + 1 >= 1
    BY <1>1, <1>4
  <2> QED BY <1>3, <1>4, <2>1 DEF Saves
<1> QED BY <1>3, <1>5, <1>6

(* A session undone or squashed is one less. *)
LEMMA SavesPop ==
    ASSUME NEW x, SoundIndex(x), NEW d \in Nat, d >= 1, NEW v, Saves(x, d, v)
    PROVE  Saves(UndoOne(x), d - 1, v) /\ Saves(SquashOne(x), d - 1, v)
<1> DEFINE h == x.history
<1> DEFINE k == Len(h) - d
<1>1. h \in Seq(Tables) /\ Len(h) \in Nat /\ x \in IndexRecords
  BY IndexFacts
<1>2. k >= 1 /\ h[k] = v
  BY DEF Saves
<1>3. Len(h) >= 2 /\ k \in 1 .. Len(h) - 1
  BY <1>1, <1>2
<1>4. h # <<>>
  BY <1>1, <1>3, EmptySeq
<1>5. UndoOne(x).history = Front(h) /\ SquashOne(x).history = Front(h)
  BY <1>1, <1>4, UndoShape, SquashShape
<1>6. Len(Front(h)) = Len(h) - 1 /\ Front(h)[k] = h[k]
  BY <1>1, <1>3, <1>4, FrontSeq
<1>7. Len(Front(h)) - (d - 1) = k
  BY <1>1, <1>6
<1> HIDE DEF h, k
<1> QED BY <1>2, <1>5, <1>6, <1>7 DEF Saves

(* Undoing the newest session brings its table back. *)
LEMMA SavesTop ==
    ASSUME NEW x, SoundIndex(x), NEW v, Saves(x, 0, v)
    PROVE  UndoOne(x).table = v
<1> DEFINE h == x.history
<1>1. h \in Seq(Tables) /\ Len(h) \in Nat /\ x \in IndexRecords
  BY IndexFacts
<1>2. Len(h) >= 1 /\ h[Len(h)] = v
  BY <1>1 DEF Saves
<1>3. h # <<>>
  BY <1>1, <1>2, EmptySeq
<1>4. UndoOne(x).table = Last(h)
  BY <1>1, <1>3, UndoShape
<1> QED BY <1>2, <1>4 DEF Last

(* No session object has a claim any more. *)
LEMMA SessionDisturbed ==
    ASSUME SyncInv', \A i \in DOMAIN handles' : ~handles'[i].mine
    PROVE  SessionInv'
BY DEF SessionInv, Claims, Undisturbed

LEMMA SessionNone ==
    ASSUME SyncInv', handles' = <<>>
    PROVE  SessionInv'
<1>1. DOMAIN handles' = {}
  BY EmptySeq
<1> QED BY <1>1, SessionDisturbed

(* The session objects are there only while the process uses the indices it  *)
(* has added.                                                                *)
LEMMA SessionLifecycle ==
    ASSUME ~LateAdd, SyncInv, SyncInv', Lifecycle
    PROVE  SessionInv'
<1>0. ProcessSound
  BY DEF SyncInv
<1> SUFFICES handles' = <<>>
  BY SessionNone
<1>1. ASSUME NEW how, NEW allow, Open(how, allow) PROVE handles' = <<>>
  BY <1>0, <1>1 DEF Open, ProcessSound
<1>2. ASSUME Ended PROVE handles' = <<>>
  BY <1>2 DEF Ended
<1>3. ASSUME NEW t, AddExisting(t) \/ AddNew(t) PROVE handles' = <<>>
  <2>1. process \in {"opening", "reading"} /\ handles' = handles
    BY <1>3 DEF AddExisting, Accept, AddNew, MayAdd
  <2> QED BY <1>0, <2>1 DEF ProcessSound
<1>4. ASSUME AddStep \/ AddThrows PROVE handles' = <<>>
  <2>1. call.op = "add" /\ handles' = handles
    BY <1>4 DEF AddStep, Accept, AddThrows
  <2> QED BY <1>0, <2>1 DEF ProcessSound
<1> QED BY <1>1, <1>2, <1>3, <1>4 DEF Lifecycle, Close, Crash

(* A loop that leaves the session objects as they are begins with their      *)
(* claims.                                                                   *)
LEMMA SessionBegin ==
    ASSUME SessionInv, SyncInv', NEW op \in {"start", "undo", "squash"}, NEW r, NEW subs,
           NEW h, Begin(op, r, subs, h), handles' = handles,
           op # "start" => h = Len(handles)
    PROVE  SessionInv'
<1>1. /\ call = NoCall /\ index_list' = index_list
      /\ call' = [op |-> op, arg |-> r, todo |-> subs, done |-> <<>>, handle |-> h]
      /\ interrupted' = [op |-> op, arg |-> r, over |-> ToSet(subs), before |-> segment]
  BY DEF Begin, Ready
<1>2. /\ Quiet /\ Added' = Added /\ call'.op = op /\ call'.handle = h
      /\ interrupted'.before = segment
  BY <1>1, NoCallFacts DEF Added, Quiet
<1>3. ~Quiet'
  BY <1>2 DEF Quiet
<1>4. Claims(segment)
  BY <1>2 DEF SessionInv
<1>5. Claims(interrupted.before)'
  BY <1>2, <1>4 DEF Claims, Claim
<1>6. Undisturbed'
  BY <1>2 DEF Undisturbed
<1> QED BY <1>3, <1>5, <1>6 DEF SessionInv

LEMMA SessionCalls ==
    ASSUME SessionInv, SyncInv', Calls
    PROVE  SessionInv'
<1>0. /\ segment \in [Types -> Indices \cup {NoIndex}] /\ Added \subseteq Types
      /\ handles \in Seq(Handles) /\ Len(handles) \in Nat
      /\ DOMAIN handles = 1 .. Len(handles)
      /\ \A t \in Added : SoundIndex(segment[t])
  BY TypeFacts DEF SessionInv, SyncInv
<1>1. ASSUME NEW t \in Types, NEW v \in Tables, Write(t, v) PROVE SessionInv'
  <2> DEFINE y == [segment[t] EXCEPT !.table = v]
  <2>1. /\ t \in Added /\ call = NoCall /\ call' = call
        /\ index_list' = index_list /\ handles' = handles
        /\ segment' = [segment EXCEPT ![t] = y]
    BY <1>1 DEF Write, Ready
  <2>2. y.history = segment[t].history
    BY <1>0, <2>1 DEF SoundIndex, Indices
  <2> HIDE DEF y
  <2>3. \A u \in Added : segment'[u].history = segment[u].history
    BY <1>0, <2>1, <2>2
  <2>4. Quiet /\ Quiet' /\ Added' = Added
    BY <2>1, NoCallFacts DEF Quiet, Added
  <2>5. Claims(segment)
    BY <2>4 DEF SessionInv
  <2>6. Claims(segment)'
    BY <2>1, <2>3, <2>4, <2>5 DEF Claims, Claim, Saves
  <2> QED BY <2>4, <2>6 DEF SessionInv, Undisturbed
<1>2. ASSUME handles' = Disturbed(handles) PROVE SessionInv'
  <2>1. \A i \in DOMAIN handles' : ~handles'[i].mine
    BY <1>0, <1>2, DisturbedHandles
  <2> QED BY <2>1, SessionDisturbed
<1>3. ASSUME start_undo_session PROVE SessionInv'
  BY <1>3, SessionBegin DEF start_undo_session
<1>4. ASSUME NEW h \in DOMAIN handles, Push(h) PROVE SessionInv'
  <2>1. /\ call = NoCall /\ UNCHANGED <<segment, index_list, call>>
    BY <1>4 DEF Push, Ready
  <2>2. Quiet /\ Quiet' /\ Added' = Added
    BY <2>1, NoCallFacts DEF Quiet, Added
  <2>3. /\ DOMAIN handles' = 1 .. Len(handles) - 1 /\ Len(handles') = Len(handles) - 1
        /\ \A i \in 1 .. Len(handles) - 1 :
             /\ i < h => ~handles'[i].mine
             /\ ~(i < h) => handles'[i] = handles[i + 1]
    BY <1>0, <1>4, PushHandles
  <2>4. Claims(segment)
    BY <2>2 DEF SessionInv
  <2>5. ASSUME NEW i \in 1 .. Len(handles) - 1, handles'[i].mine, NEW t \in Added
        PROVE  Saves(segment[t], Len(handles) - 1 - i, handles'[i].saved[t])
    <3>1. handles'[i] = handles[i + 1] /\ i + 1 \in DOMAIN handles
      BY <1>0, <2>3, <2>5
    <3>2. Saves(segment[t], Len(handles) - (i + 1), handles[i + 1].saved[t])
      BY <2>4, <2>5, <3>1 DEF Claims, Claim
    <3>3. Len(handles) - (i + 1) = Len(handles) - 1 - i
      BY <1>0
    <3> QED BY <3>1, <3>2, <3>3
  <2>6. Claims(segment)'
    BY <2>1, <2>2, <2>3, <2>5 DEF Claims, Claim
  <2> QED BY <2>2, <2>6 DEF SessionInv, Undisturbed
<1>5. ASSUME NEW h \in DOMAIN handles, NEW op \in {"undo", "squash"}, HandleCall(op, h)
      PROVE  SessionInv'
  <2>1. Begin(op, 0, handles[h].subs, h)
    BY <1>5 DEF HandleCall
  <2>2. CASE h = Len(handles)
    <3>1. handles' = handles
      BY <1>5, <2>2 DEF HandleCall
    <3> QED BY <2>1, <2>2, <3>1, SessionBegin
  <2>3. CASE h # Len(handles)
    BY <1>2, <1>5, <2>3 DEF HandleCall
  <2> QED BY <2>2, <2>3
<1> QED BY <1>1, <1>2, <1>3, <1>4, <1>5 DEF Calls, DatabaseCall

(* The loop of a session object, or of start_undo_session, returns. *)
LEMMA SessionReturns ==
    ASSUME SessionInv, SyncInv', LoopReturns
    PROVE  SessionInv'
<1> DEFINE n == Len(handles)
<1>0. /\ TypeInv /\ LoopAtomic /\ LoopShape /\ LoopProgress
      /\ handles \in Seq(Handles) /\ n \in Nat /\ DOMAIN handles = 1 .. n
      /\ call.handle \in 0 .. n /\ Added \subseteq Types
  BY TypeFacts, CallFacts DEF SessionInv, SyncInv
<1>1. /\ call.op \notin {"none", "add"} /\ call.todo = <<>> /\ call' = NoCall
      /\ segment' = segment /\ index_list' = index_list
      /\ handles' = IF call.op = "start" THEN Append(handles, NewHandle)
                    ELSE IF call.handle = 0 THEN handles
                    ELSE RemoveAt(handles, call.handle)
  BY DEF LoopReturns, NewHandle
<1>2. ~Quiet /\ Quiet' /\ Added' = Added /\ ToSet(call.todo) = {}
  BY <1>1, NoCallFacts, EmptySet DEF Quiet, Added
<1>3. Claims(interrupted.before) /\ Undisturbed
  BY <1>2 DEF SessionInv
<1>4. \A i \in 1 .. n : handles[i].mine =>
        \A t \in Added : Saves(Before(t), n - i, handles[i].saved[t])
  BY <1>0, <1>3 DEF Claims, Claim, Before
<1>5. /\ interrupted.op = IF call.op = "rollback" THEN "start" ELSE call.op
      /\ interrupted.over = Added
  BY <1>0, <1>2 DEF LoopShape
<1>6. \A t \in Added : SoundIndex(Before(t))
  BY <1>0, <1>1, <1>5 DEF LoopAtomic
<1>7. /\ call.op = "rollback" => \A t \in Added : segment[t] = Before(t)
      /\ call.op # "rollback" => \A t \in Added : segment[t] = After(t)
      /\ call.op # "rollback" => ToSet(call.done) = Added
  BY <1>0, <1>2 DEF LoopShape, LoopProgress
<1> SUFFICES Claims(segment)'
  BY <1>2 DEF SessionInv, Undisturbed
<1>8. CASE call.op = "start"
  <2>1. /\ handles' \in Seq(Handles) /\ Len(handles') = n + 1
        /\ handles'[n + 1] = NewHandle /\ \A i \in 1 .. n : handles'[i] = handles[i]
    BY <1>0, <1>1, <1>8, ReturnedHandle, AppendSeq
  <2>2. DOMAIN handles' = 1 .. n + 1
    BY <1>0, <2>1
  <2>3. \A t \in Added : segment[t] = StartOne(Before(t))
    BY <1>5, <1>7, <1>8, ApplyCases DEF After
  <2>4. \A t \in Added : NewHandle.saved[t] = segment[t].table
    BY <1>0, <1>7, <1>8 DEF NewHandle
  <2>5. ASSUME NEW i \in 1 .. n + 1, handles'[i].mine, NEW t \in Added
        PROVE  Saves(segment[t], n + 1 - i, handles'[i].saved[t])
    <3>1. CASE i \in 1 .. n
      <4>1. Saves(Before(t), n - i, handles[i].saved[t])
        BY <1>4, <2>1, <2>5, <3>1
      <4>2. n - i \in Nat /\ n - i + 1 = n + 1 - i
        BY <1>0, <3>1
      <4>3. Saves(StartOne(Before(t)), n - i + 1, handles[i].saved[t])
        BY <1>6, <4>1, <4>2, SavesStart
      <4> QED BY <2>1, <2>3, <3>1, <4>2, <4>3
    <3>2. CASE i = n + 1
      <4>1. n + 1 - i = 0
        BY <1>0, <3>2
      <4>2. Saves(StartOne(Before(t)), 0, Before(t).table)
            /\ StartOne(Before(t)).table = Before(t).table
        BY <1>6, SavesStart
      <4> QED BY <2>1, <2>3, <2>4, <3>2, <4>1, <4>2
    <3> QED BY <1>0, <3>1, <3>2
  <2> QED BY <1>1, <1>2, <2>1, <2>2, <2>5 DEF Claims, Claim
<1>9. CASE call.op = "rollback"
  <2>1. handles' = handles
    BY <1>0, <1>1, <1>9 DEF TypeInv, CallSound
  <2> QED BY <1>0, <1>1, <1>2, <1>4, <1>7, <1>9, <2>1 DEF Claims, Claim
<1>10. CASE call.op \notin {"start", "rollback"}
  <2>1. CASE \A i \in 1 .. n : ~handles[i].mine
    <3>1. CASE call.handle = 0
      BY <1>0, <1>1, <1>10, <2>1, <3>1 DEF Claims
    <3>2. CASE call.handle # 0
      <4>0. handles' = RemoveAt(handles, call.handle) /\ call.handle \in 1 .. Len(handles)
        BY <1>0, <1>1, <1>10, <3>2
      <4>1. /\ handles' \in Seq(Handles) /\ Len(handles') = n - 1
            /\ \A i \in 1 .. n - 1 :
                 handles'[i] = IF i < call.handle THEN handles[i] ELSE handles[i + 1]
        BY <1>0, <4>0, RemoveSeq
      <4>2. \A i \in 1 .. n - 1 : i \in 1 .. n /\ i + 1 \in 1 .. n
        BY <1>0
      <4>3. DOMAIN handles' = 1 .. n - 1
        BY <4>1
      <4> QED BY <2>1, <4>1, <4>2, <4>3 DEF Claims
    <3> QED BY <3>1, <3>2
  <2>2. CASE \E i \in 1 .. n : handles[i].mine
    <3>1. call.op \in {"undo", "squash"} /\ call.handle = n /\ n # 0 /\ n \in 1 .. n
      BY <1>0, <1>2, <1>3, <1>10, <2>2 DEF Undisturbed
    <3>2. /\ handles' \in Seq(Handles) /\ Len(handles') = n - 1
          /\ \A i \in 1 .. n - 1 : handles'[i] = handles[i]
      <4>1. handles' = RemoveAt(handles, n) /\ n \in 1 .. Len(handles)
        BY <1>1, <1>10, <3>1
      <4>2. /\ handles' \in Seq(Handles) /\ Len(handles') = n - 1
            /\ \A i \in 1 .. n - 1 :
                 handles'[i] = IF i < n THEN handles[i] ELSE handles[i + 1]
        BY <1>0, <4>1, RemoveSeq
      <4> QED BY <1>0, <4>2
    <3>3. DOMAIN handles' = 1 .. n - 1
      BY <3>2
    <3>4. \A t \in Added : segment[t] \in {UndoOne(Before(t)), SquashOne(Before(t))}
      BY <1>5, <1>7, <1>10, <3>1, ApplyCases DEF After
    <3>5. ASSUME NEW i \in 1 .. n - 1, handles[i].mine, NEW t \in Added
          PROVE  Saves(segment[t], n - 1 - i, handles[i].saved[t])
      <4>1. i \in 1 .. n /\ n - i \in Nat /\ n - i >= 1 /\ n - i - 1 = n - 1 - i
        BY <1>0
      <4>2. Saves(Before(t), n - i, handles[i].saved[t])
        BY <1>4, <3>5, <4>1
      <4>3. /\ Saves(UndoOne(Before(t)), n - i - 1, handles[i].saved[t])
            /\ Saves(SquashOne(Before(t)), n - i - 1, handles[i].saved[t])
        BY <1>6, <4>1, <4>2, SavesPop
      <4> QED BY <3>4, <4>1, <4>3
    <3> QED BY <1>1, <1>2, <3>2, <3>3, <3>5 DEF Claims, Claim
  <2> QED BY <2>1, <2>2
<1> QED BY <1>8, <1>9, <1>10

LEMMA SessionLoop ==
    ASSUME SessionInv, SyncInv', Loop
    PROVE  SessionInv'
<1>0. TypeInv
  BY DEF SessionInv, SyncInv
<1>1. ASSUME UNCHANGED <<index_list, handles, interrupted>>, ~Quiet, ~Quiet',
             (call'.op = call.op /\ call'.handle = call.handle) \/ call'.op = "rollback"
      PROVE  SessionInv'
  <2>1. Claims(interrupted.before) /\ Undisturbed
    BY <1>1 DEF SessionInv
  <2>2. Claims(interrupted.before)' /\ Undisturbed'
    BY <1>1, <2>1 DEF Claims, Claim, Added, Undisturbed
  <2> QED BY <1>1, <2>2 DEF SessionInv
<1>2. CASE LoopStep
  <2>1. /\ call.op \in Ops \cup {"rollback"} /\ call'.op = call.op
        /\ call'.handle = call.handle /\ UNCHANGED <<index_list, handles, interrupted>>
    BY <1>0, <1>2, Iteration
  <2> QED BY <1>1, <2>1 DEF Quiet, Ops
<1>3. CASE SetRevisionThrows
  <2>1. call.op = "set_revision" /\ handles' = handles
    BY <1>3 DEF SetRevisionThrows
  <2>2. \A i \in DOMAIN handles' : ~handles'[i].mine
    BY <2>1 DEF SessionInv, Undisturbed, Quiet
  <2> QED BY <2>2, SessionDisturbed
<1>4. CASE StartThrows
  <2>1. /\ call.op = "start" /\ UNCHANGED <<index_list, handles, interrupted>>
        /\ call' = [call EXCEPT !.op = "rollback", !.todo = call.done, !.done = <<>>]
    BY <1>4 DEF StartThrows
  <2>2. call'.op = "rollback"
    <3>1. call \in Loops
      BY <1>0, TypeFacts
    <3> QED BY <2>1, <3>1 DEF Loops
  <2> QED BY <1>1, <2>1, <2>2 DEF Quiet
<1>5. CASE LoopReturns
  BY <1>5, SessionReturns
<1> QED BY <1>2, <1>3, <1>4, <1>5 DEF Loop

LEMMA SessionInit == Init => SessionInv
<1> SUFFICES ASSUME Init PROVE SessionInv
  OBVIOUS
<1>1. DOMAIN handles = {}
  BY EmptySeq DEF Init
<1> QED BY <1>1, SyncInit DEF SessionInv, Claims, Undisturbed

LEMMA SessionStep ==
    ASSUME ~LateAdd
    PROVE  SessionInv /\ [Next]_vars /\ ~torn' => SessionInv'
<1> SUFFICES ASSUME SessionInv, [Next]_vars, ~torn' PROVE SessionInv'
  OBVIOUS
<1>0. SyncInv /\ SyncInv'
  BY SyncStep DEF SessionInv
<1>00. Lifecycle \/ Calls \/ Loop \/ UNCHANGED vars
  BY <1>0, TornStep DEF SyncInv
<1>1. CASE UNCHANGED vars
  BY <1>0, <1>1 DEF vars, SessionInv, Claims, Claim, Undisturbed, Quiet, Added
<1> QED BY <1>0, <1>00, <1>1, SessionLifecycle, SessionCalls, SessionLoop

(* A session object that is undone, or goes out of scope, with only the      *)
(* objects nested in it squashed or undone meanwhile, leaves every index as  *)
(* it found it, however deep the nesting, whatever was rolled back or pushed *)
(* before, until an undo, squash or undo_all runs out of memory.             *)
THEOREM SessionObjectsRestore ==
    ASSUME ~LateAdd
    PROVE  Spec => []SessionRestores
<1>1. torn \/ SessionInv => SessionRestores
  <2> SUFFICES ASSUME SessionInv, call.op = "undo", call.handle # 0, call.todo = <<>>,
                      handles[call.handle].mine,
                      NEW t \in ToSet(handles[call.handle].subs)
               PROVE  segment[t].table = handles[call.handle].saved[t]
    BY DEF SessionRestores
  <2> DEFINE n == Len(handles)
  <2>0. /\ TypeInv /\ LoopAtomic /\ LoopShape /\ LoopProgress /\ HandlesFull
        /\ handles \in Seq(Handles) /\ n \in Nat /\ DOMAIN handles = 1 .. n
        /\ call.handle \in 1 .. n
    BY TypeFacts, CallFacts DEF SessionInv, SyncInv
  <2>1. ~Quiet /\ ToSet(call.todo) = {}
    BY EmptySet DEF Quiet
  <2>2. call.handle = n /\ Claims(interrupted.before)
    BY <2>0, <2>1 DEF SessionInv, Undisturbed
  <2>3. t \in Added
    BY <2>0 DEF HandlesFull
  <2>4. n - n = 0
    BY <2>0
  <2>5. Saves(Before(t), 0, handles[n].saved[t])
    BY <2>0, <2>2, <2>3, <2>4 DEF Claims, Claim, Before
  <2>6. interrupted.op = "undo" /\ interrupted.over = Added /\ segment[t] = After(t)
    BY <2>0, <2>1, <2>3 DEF LoopShape, LoopProgress
  <2>7. SoundIndex(Before(t)) /\ segment[t] = UndoOne(Before(t))
    BY <2>0, <2>3, <2>6, ApplyCases DEF LoopAtomic, After
  <2> QED BY <2>2, <2>5, <2>7, SavesTop
<1>2. Init => torn \/ SessionInv
  BY SessionInit
<1>3. TypeInv /\ (torn \/ SessionInv) /\ [Next]_vars => (torn \/ SessionInv)'
  BY SessionStep, TornStep
<1> QED BY <1>1, <1>2, <1>3, TypeInvariant, PTL DEF Spec
=============================================================================
