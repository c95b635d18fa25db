-------------------------- MODULE MappedFileProofs --------------------------
(***************************************************************************)
(* Theorems about MappedFile, for every set of processes, every size of    *)
(* the file and every set of values.                                       *)
(***************************************************************************)
EXTENDS MappedFile, SequenceTheorems, TLAPS

(* The stages in which the file is known to exist. *)
Mapped == {"creating", "growing", "linking", "mapped", "loading", "open", "saving",
           "failed"}

(* The type invariant is inductive once it says that a file has at least one *)
(* chunk and at most MaxSize, and that no mapping reaches past its end.      *)
FileSized == file.header # "missing" => Len(file.chunks) \in 1 .. MaxSize

MappingsFit ==
    \A p \in Processes :
      proc[p].pc \in Mapped
        => file.header # "missing" /\ proc[p].size <= Len(file.chunks)

TypeInv == TypeOK /\ FileSized /\ MappingsFit

(* The processes that a writer's dirty flag and lock stand for. *)
InUse(p) == proc[p].writable /\ proc[p].pc \in {"loading", "open", "saving"}

OneOpens ==
    \A p, q \in Processes :
      proc[p].pc \in Opening /\ proc[q].pc \in Opening => p = q

HeaderSeen ==
    \A p \in Processes :
      /\ At(p, "checked") => file.header \in {"missing", "valid"}
      /\ At(p, "creating") => file.header = "blank"
      /\ proc[p].pc \in {"growing", "linking", "mapped", "loading"}
           => file.header = "valid"
      /\ At(p, "saving") => proc[p].writable /\ proc[p].heap

UsersHoldLock ==
    \A p \in Processes :
      InUse(p) => file.dirty /\ lock = p /\ file.header = "valid"

(* With one process opening at a time, a writer in use has the lock and the  *)
(* file is dirty; DirtyWhileInUse alone says nothing of the constructor.     *)
LockInv == TypeInv /\ OneOpens /\ HeaderSeen /\ UsersHoldLock

CleanOpening ==
    /\ file.header = "missing" => ~file.dirty
    /\ \A p \in Processes :
         /\ ~proc[p].allow_dirty
         /\ proc[p].pc \in {"checked", "creating", "growing", "linking", "mapped"}
              => ~file.dirty
         /\ At(p, "loading") /\ ~proc[p].writable => ~file.dirty

HeapWriter(p) ==
    proc[p].writable /\ proc[p].heap /\ proc[p].pc \in {"open", "saving"}

WholeFile ==
    \A p \in Processes :
      /\ proc[p].pc \in {"creating", "growing", "linking", "mapped", "loading", "saving"}
           => proc[p].size = Len(file.chunks)
      /\ HeapWriter(p) => Len(proc[p].memory) = Len(file.chunks)

(* Without allow_dirty nobody gets past the check of a file in use, so       *)
(* nobody grows it.                                                          *)
SizeInv == LockInv /\ CleanOpening /\ WholeFile

NobodyGrows == \A p \in Processes : proc[p].pc \notin {"growing", "linking"}

SegmentSpans ==
    /\ file.header = "valid" /\ NobodyGrows => file.extent = Len(file.chunks)
    /\ \A p \in Processes :
         /\ At(p, "growing")
              => file.extent # 0 /\ file.extent + proc[p].grow = Len(file.chunks)
         /\ At(p, "linking") \/ HeapWriter(p) => proc[p].extent = Len(file.chunks)

(* Unless a process died growing it, the segment spans the file, and the     *)
(* copy in a heap spans it too.                                              *)
ExtentInv == SizeInv /\ (~halfgrown => SegmentSpans)

CleanIsSaved ==
    /\ file.header = "valid" /\ ~file.dirty => file.chunks = saved
    /\ \A p \in Processes : At(p, "loading") => file.chunks = saved

(* A chunk of the memory that is not written back is zeros in the file too,  *)
(* and the chunks before the next one to save are in the file.               *)
MemorySaved ==
    \A p \in Processes :
      /\ HeapWriter(p) =>
           \A i \in DOMAIN proc[p].memory :
             AllZeros(i, proc[p].memory[i]) => file.chunks[i] = Zeros
      /\ At(p, "saving") =>
           \A i \in DOMAIN proc[p].memory :
             i < proc[p].next => file.chunks[i] = proc[p].memory[i]

SavedInv == SizeInv /\ CleanIsSaved /\ MemorySaved

-----------------------------------------------------------------------------
(***************************************************************************)
(* Chunks.                                                                 *)
(***************************************************************************)

(* A file or an extension of zeros. *)
LEMMA ZeroedSeq ==
    ASSUME NEW n \in Nat
    PROVE  /\ Zeroed(n) \in Seq(Values)
           /\ Len(Zeroed(n)) = n
           /\ \A i \in 1 .. n : Zeroed(n)[i] = Zeros
BY DEF Zeroed, Values

(* resize_file keeps what the file holds and never shrinks it. *)
LEMMA GrownSeq ==
    ASSUME NEW c \in Seq(Values), NEW n \in Nat
    PROVE  /\ Grown(c, n) \in Seq(Values)
           /\ Len(Grown(c, n)) = IF n > Len(c) THEN n ELSE Len(c)
<1>1. CASE n > Len(c)
  <2>1. n - Len(c) \in Nat
    BY <1>1
  <2>2. Zeroed(n - Len(c)) \in Seq(Values) /\ Len(Zeroed(n - Len(c))) = n - Len(c)
    BY <2>1, ZeroedSeq
  <2>3. Grown(c, n) = c \o Zeroed(n - Len(c))
    BY <1>1 DEF Grown
  <2> QED BY <1>1, <2>2, <2>3
<1>2. CASE ~(n > Len(c))
  BY <1>2 DEF Grown
<1> QED BY <1>1, <1>2

(* A chunk that is written leaves the file as long as it was. *)
LEMMA WrittenSeq ==
    ASSUME NEW c \in Seq(Values), NEW i \in 1 .. Len(c), NEW v \in Values
    PROVE  /\ [c EXCEPT ![i] = v] \in Seq(Values)
           /\ Len([c EXCEPT ![i] = v]) = Len(c)
OBVIOUS

(* A region maps a prefix of the file. *)
LEMMA RegionSeq ==
    ASSUME TypeInv, NEW p \in Processes, proc[p].pc \in Mapped
    PROVE  /\ Region(p) \in Seq(Values)
           /\ Len(Region(p)) = proc[p].size
           /\ proc[p].size = Len(file.chunks) => Region(p) = file.chunks
<1>1. /\ file.chunks \in Seq(Values) /\ proc[p].size \in 1 .. Len(file.chunks)
  <2>1. file.chunks \in Seq(Values) /\ proc[p].size \in 1 .. MaxSize
    BY DEF TypeInv, TypeOK
  <2>2. proc[p].size <= Len(file.chunks)
    BY DEF TypeInv, MappingsFit
  <2> QED BY <2>1, <2>2, MaxSizeAssumption
<1> DEFINE c == file.chunks
           n == proc[p].size
<1>2. /\ 1 \in Int /\ n \in Int /\ c \in Seq(Values) /\ n >= 1
      /\ \A i \in 1 .. n : c[i] \in Values
  BY <1>1
<1>3. Region(p) = SubSeq(c, 1, n)
  BY DEF Region
<1> HIDE DEF c, n
<1>4. /\ SubSeq(c, 1, n) \in Seq(Values)
      /\ Len(SubSeq(c, 1, n)) = IF 1 <= n THEN n - 1 + 1 ELSE 0
  BY <1>2, SubSeqProperties
<1>5. n = Len(c) => SubSeq(c, 1, n) = c
  BY <1>2, SubSeqFull
<1> QED BY <1>2, <1>3, <1>4, <1>5 DEF c, n

-----------------------------------------------------------------------------
(***************************************************************************)
(* Types.                                                                  *)
(***************************************************************************)

LEMMA TypeInit == Init => TypeInv
<1> SUFFICES ASSUME Init PROVE TypeInv
  OBVIOUS
<1>1. Closed \in [pc : Stages, writable : BOOLEAN, allow_dirty : BOOLEAN, heap : BOOLEAN,
                  size : 1 .. MaxSize, grow : 0 .. MaxSize, extent : Nat,
                  memory : Seq(Values), next : 1 .. MaxSize + 1]
  BY MaxSizeAssumption DEF Closed, Stages
<1>2. TypeOK
  <2>1. file \in [header : {"missing", "blank", "valid"}, dirty : BOOLEAN, extent : Nat,
                  chunks : Seq(Values)]
    BY DEF Init, NoFile
  <2>2. halfgrown \in BOOLEAN
    BY DEF Init
  <2> QED BY <1>1, <2>1, <2>2 DEF Init, TypeOK
<1>3. FileSized /\ MappingsFit
  BY DEF Init, NoFile, Closed, FileSized, MappingsFit, Mapped
<1> QED BY <1>2, <1>3 DEF TypeInv

(* What the file and the objects are. *)
Files ==
    [header : {"missing", "blank", "valid"}, dirty : BOOLEAN, extent : Nat,
     chunks : Seq(Values)]

Objects ==
    [pc : Stages, writable : BOOLEAN, allow_dirty : BOOLEAN, heap : BOOLEAN,
     size : 1 .. MaxSize, grow : 0 .. MaxSize, extent : Nat,
     memory : Seq(Values), next : 1 .. MaxSize + 1]

(* The file is at least as long as it was. *)
FileKept ==
    /\ file' \in Files
    /\ Len(file'.chunks) \in 1 .. MaxSize \/ file'.header = "missing"
    /\ file.header # "missing"
         => file'.header # "missing" /\ Len(file'.chunks) >= Len(file.chunks)

(* A step that leaves the file sound and gives one process a sound object    *)
(* keeps the type invariant.                                                 *)
LEMMA TypeByParts ==
    ASSUME TypeInv, NEW p \in Processes, NEW r \in Objects,
           proc' = [proc EXCEPT ![p] = r],
           FileKept,
           lock' \in Processes \cup {Nobody},
           halfgrown' \in BOOLEAN,
           r.pc \in Mapped => file'.header # "missing" /\ r.size <= Len(file'.chunks)
    PROVE  TypeInv'
<1>1. proc \in [Processes -> Objects] /\ file \in Files
  BY DEF TypeInv, TypeOK, Objects, Files
<1>2. proc' \in [Processes -> Objects]
  BY <1>1
<1>3. TypeOK'
  BY <1>2 DEF TypeOK, Objects, Files, FileKept
<1>4. FileSized'
  BY DEF FileSized, FileKept
<1>5. MappingsFit'
  <2> SUFFICES ASSUME NEW q \in Processes, proc'[q].pc \in Mapped
               PROVE  file'.header # "missing" /\ proc'[q].size <= Len(file'.chunks)
    BY DEF MappingsFit
  <2>1. CASE q = p
    BY <1>1, <2>1
  <2>2. CASE q # p
    <3>1. proc'[q] = proc[q]
      BY <1>1, <2>2
    <3>2. file.header # "missing" /\ proc[q].size <= Len(file.chunks)
      BY <3>1 DEF TypeInv, MappingsFit
    <3>3. proc[q].size \in Nat /\ Len(file.chunks) \in Nat /\ Len(file'.chunks) \in Nat
      <4>1. proc[q].size \in 1 .. MaxSize
        BY <1>1 DEF Objects
      <4>2. file.chunks \in Seq(Values) /\ file'.chunks \in Seq(Values)
        BY <1>1 DEF Files, FileKept
      <4> QED BY <4>1, <4>2, MaxSizeAssumption
    <3> QED BY <3>1, <3>2, <3>3 DEF FileKept
  <2> QED BY <2>1, <2>2
<1> QED BY <1>3, <1>4, <1>5 DEF TypeInv

(* What TypeInv says of one process. *)
LEMMA ObjectFacts ==
    ASSUME TypeInv, NEW p \in Processes
    PROVE  /\ file \in Files /\ proc[p] \in Objects
           /\ proc \in [Processes -> Objects]
           /\ lock \in Processes \cup {Nobody}
           /\ file.header # "missing" => Len(file.chunks) \in 1 .. MaxSize
           /\ proc[p].pc \in Mapped
                => file.header # "missing" /\ proc[p].size <= Len(file.chunks)
BY DEF TypeInv, TypeOK, FileSized, MappingsFit, Files, Objects

(* A file that is as long as before is sound. *)
LEMMA FileUnchanged ==
    ASSUME TypeInv, file' \in Files, Len(file'.chunks) = Len(file.chunks),
           file'.header = file.header
    PROVE  FileKept
<1>1. file \in Files /\ (file.header # "missing" => Len(file.chunks) \in 1 .. MaxSize)
  BY DEF TypeInv, TypeOK, FileSized, Files
<1>2. Len(file.chunks) \in Nat
  BY <1>1 DEF Files
<1> QED BY <1>1, <1>2 DEF FileKept

(* An object that is closed is sound. *)
LEMMA ClosedObject == Closed \in Objects /\ Closed.pc \notin Mapped
BY MaxSizeAssumption DEF Closed, Objects, Stages, Mapped

(* A step to another stage. *)
LEMMA GotoObject ==
    ASSUME TypeInv, NEW p \in Processes, NEW stage \in Stages, Goto(p, stage)
    PROVE  LET r == [proc[p] EXCEPT !.pc = stage]
           IN  /\ r \in Objects
               /\ r.pc = stage
               /\ r.size = proc[p].size
               /\ proc' = [proc EXCEPT ![p] = r]
<1>1. proc[p] \in Objects /\ proc \in [Processes -> Objects]
  BY ObjectFacts
<1> QED BY <1>1 DEF Goto, Objects

LEMMA TypeConstructor ==
    ASSUME TypeInv, NEW p \in Processes, Constructor(p)
    PROVE  TypeInv'
<1> DEFINE o == proc[p]
<1>0. /\ file \in Files /\ o \in Objects /\ proc \in [Processes -> Objects]
      /\ lock \in Processes \cup {Nobody}
      /\ file.header # "missing" => Len(file.chunks) \in 1 .. MaxSize
      /\ o.pc \in Mapped => file.header # "missing" /\ o.size <= Len(file.chunks)
  BY ObjectFacts
<1>h. halfgrown' \in BOOLEAN
  BY DEF TypeInv, TypeOK, Constructor, Check, Create, Format, Map, Grow, GrowReturns, Lock,
         Load, LoadAborts, Retry
<1>1. ASSUME NEW writable \in BOOLEAN, NEW heap \in BOOLEAN, NEW allow_dirty \in AllowDirty,
             NEW size \in 1 .. MaxSize, Check(p, writable, allow_dirty, heap, size)
      PROVE  TypeInv'
  <2> DEFINE stage == IF Acceptable(writable, allow_dirty) THEN "checked" ELSE "refused"
             r == [Closed EXCEPT !.pc = stage, !.writable = writable,
                     !.allow_dirty = allow_dirty, !.heap = heap, !.size = size]
  <2>1. stage \in Stages /\ stage \notin Mapped /\ allow_dirty \in BOOLEAN
    BY AllowDirtyAssumption DEF Stages, Mapped
  <2>2. proc' = [proc EXCEPT ![p] = r] /\ file' = file /\ lock' = lock
    BY <1>1 DEF Check
  <2> HIDE DEF stage
  <2>3. r \in Objects /\ r.pc = stage
    BY <2>1, ClosedObject DEF Objects
  <2>4. FileKept
    BY <1>0, <2>2, FileUnchanged
  <2> HIDE DEF r
  <2> QED BY <1>0, <2>1, <2>2, <2>3, <2>4, <1>h, TypeByParts
<1>2. ASSUME Create(p) PROVE TypeInv'
  <2> DEFINE r == [o EXCEPT !.pc = "creating"]
  <2>1. o.size \in Nat /\ o.size \in 1 .. MaxSize
    BY <1>0, MaxSizeAssumption DEF Objects
  <2>2. Zeroed(o.size) \in Seq(Values) /\ Len(Zeroed(o.size)) = o.size
    BY <2>1, ZeroedSeq
  <2>3. /\ r \in Objects /\ r.pc = "creating" /\ r.size = o.size
        /\ proc' = [proc EXCEPT ![p] = r]
    BY <1>2, GotoObject DEF Create, Stages
  <2>4. /\ file' = [header |-> "blank", dirty |-> FALSE, extent |-> 0,
                    chunks |-> Zeroed(o.size)]
        /\ lock' = lock /\ file.header = "missing"
    BY <1>2 DEF Create
  <2>5. FileKept
    BY <2>1, <2>2, <2>4 DEF FileKept, Files
  <2> HIDE DEF r, o
  <2>6. r.size <= Len(file'.chunks) /\ file'.header # "missing"
    BY <2>1, <2>2, <2>3, <2>4
  <2>7. lock' \in Processes \cup {Nobody}
    BY <1>0, <2>4
  <2> QED BY <2>3, <2>5, <2>6, <2>7, <1>h, TypeByParts
<1>3. ASSUME Format(p) PROVE TypeInv'
  <2> DEFINE r == [o EXCEPT !.pc = "mapped"]
  <2>1. /\ r \in Objects /\ r.pc = "mapped" /\ r.size = o.size
        /\ proc' = [proc EXCEPT ![p] = r]
    BY <1>3, GotoObject DEF Format, Stages
  <2>2. file.header # "missing" /\ o.size <= Len(file.chunks)
    BY <1>0, <1>3 DEF Format, Mapped, At
  <2>3. 1 \in 1 .. Len(file.chunks) /\ Segment \in Values /\ file.chunks \in Seq(Values)
    BY <1>0, <2>2 DEF Values, Files
  <2>4. /\ [file.chunks EXCEPT ![1] = Segment] \in Seq(Values)
        /\ Len([file.chunks EXCEPT ![1] = Segment]) = Len(file.chunks)
    BY <2>3, WrittenSeq
  <2>5. /\ file' \in Files /\ file'.header = "valid"
        /\ file'.chunks = [file.chunks EXCEPT ![1] = Segment] /\ lock' = lock
    <3>1. o.size \in Nat
      BY <1>0, MaxSizeAssumption DEF Objects
    <3> QED BY <1>0, <1>3, <2>4, <3>1 DEF Format, Files
  <2>6. FileKept
    BY <1>0, <2>2, <2>3, <2>4, <2>5 DEF FileKept
  <2> HIDE DEF r, o
  <2> QED BY <1>0, <2>1, <2>2, <2>4, <2>5, <2>6, <1>h, TypeByParts
<1>4. ASSUME Map(p) PROVE TypeInv'
  <2> DEFINE c == IF o.writable THEN Grown(file.chunks, o.size) ELSE file.chunks
             n == Len(c)
             g == n - Len(file.chunks)
             stage == IF g = 0 THEN "mapped" ELSE "growing"
             r == [o EXCEPT !.pc = stage, !.size = n, !.grow = g]
  <2>0. /\ file.chunks \in Seq(Values) /\ o.size \in Nat /\ o.size \in 1 .. MaxSize
        /\ Len(file.chunks) \in 1 .. MaxSize /\ file.header # "missing"
    BY <1>0, <1>4, MaxSizeAssumption DEF Files, Objects, Map
  <2>1. /\ Grown(file.chunks, o.size) \in Seq(Values)
        /\ Len(Grown(file.chunks, o.size))
             = IF o.size > Len(file.chunks) THEN o.size ELSE Len(file.chunks)
    BY <2>0, GrownSeq
  <2>2. c \in Seq(Values) /\ n \in 1 .. MaxSize /\ n >= Len(file.chunks)
    BY <2>0, <2>1
  <2>3. g \in 0 .. MaxSize
    BY <2>0, <2>2, MaxSizeAssumption
  <2>4. /\ file' = [file EXCEPT !.chunks = c] /\ lock' = lock
        /\ proc' = [proc EXCEPT ![p].pc = stage, ![p].size = n, ![p].grow = g]
    BY <1>4 DEF Map
  <2>5. stage \in Stages /\ n = Len(c)
    BY DEF Stages
  <2> HIDE DEF stage, g, n, c
  <2>6. file' \in Files /\ file'.header = file.header /\ file'.chunks = c
    BY <1>0, <2>2, <2>4 DEF Files
  <2>7. FileKept
    BY <2>0, <2>2, <2>5, <2>6 DEF FileKept
  <2>8. proc' = [proc EXCEPT ![p] = r]
    BY <1>0, <2>4
  <2>9. r \in Objects /\ r.size = n
    BY <1>0, <2>2, <2>3, <2>5 DEF Objects
  <2> HIDE DEF r, o
  <2>10. r.size <= Len(file'.chunks) /\ file'.header # "missing"
    BY <2>0, <2>2, <2>5, <2>6, <2>9
  <2>11. lock' \in Processes \cup {Nobody}
    BY <1>0, <2>4
  <2> QED BY <2>7, <2>8, <2>9, <2>10, <2>11, <1>h, TypeByParts
<1>5. ASSUME Lock(p) PROVE TypeInv'
  <2>1. PICK stage \in {"loading", "open", "refused"} : Goto(p, stage)
    BY <1>5 DEF Lock
  <2> DEFINE r == [o EXCEPT !.pc = stage]
  <2>2. /\ r \in Objects /\ r.pc = stage /\ r.size = o.size
        /\ proc' = [proc EXCEPT ![p] = r]
    <3>1. stage \in Stages
      BY DEF Stages
    <3> QED BY <2>1, <3>1, GotoObject
  <2>3. /\ file' \in Files /\ file'.chunks = file.chunks /\ file'.header = file.header
        /\ lock' \in Processes \cup {Nobody}
    BY <1>0, <1>5 DEF Lock, Files
  <2>4. FileKept
    BY <2>3, FileUnchanged
  <2>5. file.header # "missing" /\ o.size <= Len(file.chunks)
    BY <1>0, <1>5 DEF Lock, Mapped, At
  <2> HIDE DEF r, o
  <2> QED BY <2>2, <2>3, <2>4, <2>5, <1>h, TypeByParts
<1>6. ASSUME Load(p) PROVE TypeInv'
  <2> DEFINE r == [o EXCEPT !.pc = "open", !.memory = Region(p), !.extent = file.extent]
  <2>1. Region(p) \in Seq(Values)
    BY <1>6, RegionSeq DEF Load, At, Mapped
  <2>2. /\ r \in Objects /\ r.size = o.size
        /\ proc' = [proc EXCEPT ![p] = r] /\ file' = file /\ lock' = lock
    BY <1>0, <1>6, <2>1 DEF Load, Objects, Files, Stages
  <2>3. FileKept
    BY <1>0, <2>2, FileUnchanged
  <2>4. file.header # "missing" /\ o.size <= Len(file.chunks)
    BY <1>0, <1>6 DEF Load, Mapped, At
  <2> HIDE DEF r, o
  <2> QED BY <1>0, <2>2, <2>3, <2>4, <1>h, TypeByParts
<1>7. ASSUME LoadAborts(p) PROVE TypeInv'
  <2> DEFINE r == [o EXCEPT !.pc = "refused"]
  <2>1. /\ r \in Objects /\ r.pc = "refused" /\ proc' = [proc EXCEPT ![p] = r]
    BY <1>7, GotoObject DEF LoadAborts, Stages
  <2>2. /\ file' \in Files /\ file'.chunks = file.chunks /\ file'.header = file.header
        /\ lock' \in Processes \cup {Nobody}
    BY <1>0, <1>7 DEF LoadAborts, Files
  <2>3. FileKept
    BY <2>2, FileUnchanged
  <2> HIDE DEF r, o
  <2> QED BY <2>1, <2>2, <2>3, <1>h, TypeByParts DEF Mapped
<1>8. ASSUME Retry(p) PROVE TypeInv'
  <2>1. FileKept
    BY <1>0, <1>8, FileUnchanged DEF Retry
  <2> QED BY <1>0, <1>8, <2>1, ClosedObject, <1>h, TypeByParts DEF Retry
<1>9. ASSUME Grow(p) PROVE TypeInv'
  <2> DEFINE e == IF file.extent = 0 THEN 0 ELSE file.extent + o.grow
             r == [o EXCEPT !.pc = "linking", !.extent = e]
  <2>1. e \in Nat /\ 0 \in Nat /\ "linking" \in Stages
    BY <1>0, MaxSizeAssumption DEF Files, Objects, Stages
  <2>2. /\ proc' = [proc EXCEPT ![p].pc = "linking", ![p].extent = e]
        /\ file' = [file EXCEPT !.extent = 0] /\ lock' = lock
    BY <1>9 DEF Grow
  <2> HIDE DEF e
  <2>3. proc' = [proc EXCEPT ![p] = r] /\ r \in Objects /\ r.size = o.size
    BY <1>0, <2>1, <2>2 DEF Objects
  <2>4. file' \in Files /\ file'.chunks = file.chunks /\ file'.header = file.header
    BY <1>0, <2>1, <2>2 DEF Files
  <2>5. FileKept
    BY <2>4, FileUnchanged
  <2>6. file.header # "missing" /\ o.size <= Len(file.chunks)
    BY <1>0, <1>9 DEF Grow, Mapped, At
  <2> HIDE DEF r, o
  <2> QED BY <1>0, <2>2, <2>3, <2>4, <2>5, <2>6, <1>h, TypeByParts
<1>10. ASSUME GrowReturns(p) PROVE TypeInv'
  <2> DEFINE r == [o EXCEPT !.pc = "mapped"]
  <2>1. r \in Objects /\ r.size = o.size /\ proc' = [proc EXCEPT ![p] = r]
    BY <1>10, GotoObject DEF GrowReturns, Stages
  <2>2. /\ file' \in Files /\ file'.chunks = file.chunks /\ file'.header = file.header
        /\ lock' = lock
    BY <1>0, <1>10 DEF GrowReturns, Files, Objects
  <2>3. FileKept
    BY <2>2, FileUnchanged
  <2>4. file.header # "missing" /\ o.size <= Len(file.chunks)
    BY <1>0, <1>10 DEF GrowReturns, Mapped, At
  <2> HIDE DEF r, o
  <2> QED BY <1>0, <2>1, <2>2, <2>3, <2>4, <1>h, TypeByParts
<1> QED
  BY <1>1, <1>2, <1>3, <1>4, <1>5, <1>6, <1>7, <1>8, <1>9, <1>10 DEF Constructor

LEMMA TypeWrite ==
    ASSUME TypeInv, NEW p \in Processes, NEW i \in 1 .. MaxSize, NEW v \in Written,
           Write(p, i, v)
    PROVE  TypeInv'
<1> DEFINE o == proc[p]
<1>0. /\ file \in Files /\ o \in Objects /\ proc \in [Processes -> Objects]
      /\ lock \in Processes \cup {Nobody}
      /\ o.pc = "open" /\ v \in Values
      /\ file.header # "missing" /\ o.size <= Len(file.chunks)
  BY ObjectFacts DEF Write, Mapped, At, Values
<1>h. halfgrown' \in BOOLEAN
  BY DEF TypeInv, TypeOK, Write
<1>2. CASE o.heap
  <2> DEFINE r == [o EXCEPT !.memory[i] = v]
  <2>1. o.memory \in Seq(Values) /\ i \in 1 .. Len(o.memory)
    BY <1>0, <1>2 DEF Write, Contents, Objects
  <2>2. [o.memory EXCEPT ![i] = v] \in Seq(Values)
    BY <1>0, <2>1, WrittenSeq
  <2>3. /\ r \in Objects /\ r.size = o.size
        /\ proc' = [proc EXCEPT ![p] = r] /\ file' = file /\ lock' = lock
    BY <1>0, <1>2, <2>2 DEF Write, Objects
  <2>4. FileKept
    BY <1>0, <2>3, FileUnchanged
  <2> HIDE DEF r, o
  <2> QED BY <1>0, <2>3, <2>4, <1>h, TypeByParts
<1>3. CASE ~o.heap
  <2>1. i \in 1 .. Len(file.chunks) /\ file.chunks \in Seq(Values)
    <3>1. Region(p) \in Seq(Values) /\ Len(Region(p)) = o.size
      BY <1>0, RegionSeq DEF Mapped
    <3>2. i \in 1 .. Len(Region(p))
      BY <1>3, <3>1 DEF Write, Contents
    <3> QED BY <1>0, <3>1, <3>2 DEF Files
  <2>2. /\ [file.chunks EXCEPT ![i] = v] \in Seq(Values)
        /\ Len([file.chunks EXCEPT ![i] = v]) = Len(file.chunks)
    BY <1>0, <2>1, WrittenSeq
  <2>3. /\ file' \in Files /\ file'.header = file.header
        /\ file'.chunks = [file.chunks EXCEPT ![i] = v]
        /\ proc' = proc /\ lock' = lock
    BY <1>0, <1>3, <2>2 DEF Write, Files
  <2>4. FileKept
    BY <2>2, <2>3, FileUnchanged
  <2>5. proc' = [proc EXCEPT ![p] = o]
    BY <1>0, <2>3
  <2> HIDE DEF o
  <2> QED BY <1>0, <2>2, <2>3, <2>4, <2>5, <1>h, TypeByParts
<1> QED BY <1>2, <1>3

LEMMA TypeDestructor ==
    ASSUME TypeInv, NEW p \in Processes, Destructor(p)
    PROVE  TypeInv'
<1> DEFINE o == proc[p]
<1>0. /\ file \in Files /\ o \in Objects /\ proc \in [Processes -> Objects]
      /\ lock \in Processes \cup {Nobody}
      /\ file.header # "missing" => Len(file.chunks) \in 1 .. MaxSize
      /\ o.pc \in Mapped => file.header # "missing" /\ o.size <= Len(file.chunks)
  BY ObjectFacts
<1>h. halfgrown' \in BOOLEAN
  BY DEF TypeInv, TypeOK, Destructor, CloseMapped, CloseReader, CloseHeap, SaveChunk,
         SaveReturns
<1>1. ASSUME Release(p) PROVE TypeInv'
  <2>1. /\ file' \in Files /\ file'.chunks = file.chunks /\ file'.header = file.header
        /\ lock' \in Processes \cup {Nobody}
        /\ proc' = [proc EXCEPT ![p] = Closed]
    BY <1>0, <1>1 DEF Release, Files
  <2>2. FileKept
    BY <2>1, FileUnchanged
  <2> QED BY <2>1, <2>2, ClosedObject, <1>h, TypeByParts
<1>2. ASSUME CloseReader(p) PROVE TypeInv'
  <2>1. FileKept
    BY <1>0, <1>2, FileUnchanged DEF CloseReader
  <2> QED BY <1>0, <1>2, <2>1, ClosedObject, <1>h, TypeByParts DEF CloseReader
<1>3. ASSUME CloseHeap(p) PROVE TypeInv'
  <2> DEFINE n == Len(file.chunks)
             r == [o EXCEPT !.pc = "saving", !.next = 1, !.size = n]
  <2>1. n \in 1 .. MaxSize /\ file.header # "missing"
    BY <1>0, <1>3 DEF CloseHeap, Mapped, At
  <2>2. proc' = [proc EXCEPT ![p] = r] /\ file' = file /\ lock' = lock
    BY <1>0, <1>3 DEF CloseHeap
  <2>3. FileKept
    BY <1>0, <2>2, FileUnchanged
  <2>4. n = Len(file.chunks)
    OBVIOUS
  <2> HIDE DEF n
  <2>5. 1 \in 1 .. MaxSize + 1 /\ "saving" \in Stages /\ n \in Nat
    BY <2>1, MaxSizeAssumption DEF Stages
  <2>6. r \in Objects /\ r.size = n
    BY <1>0, <2>1, <2>5 DEF Objects
  <2> HIDE DEF r, o
  <2>7. r.size <= Len(file'.chunks) /\ file'.header # "missing"
    BY <2>1, <2>2, <2>4, <2>5, <2>6
  <2>8. lock' \in Processes \cup {Nobody}
    BY <1>0, <2>2
  <2> QED BY <2>2, <2>3, <2>6, <2>7, <2>8, <1>h, TypeByParts
<1>4. ASSUME SaveChunk(p) PROVE TypeInv'
  <2> DEFINE i == o.next
             m == o.memory
  <2>0. file.header # "missing" /\ o.size <= Len(file.chunks) /\ lock' = lock
    BY <1>0, <1>4 DEF SaveChunk, Mapped, At
  <2>1. CASE i > Len(m)
    <3> DEFINE r == [o EXCEPT !.pc = "failed"]
    <3>1. Goto(p, "failed") /\ file' = file
      BY <1>4, <2>1 DEF SaveChunk
    <3>2. r \in Objects /\ r.size = o.size /\ proc' = [proc EXCEPT ![p] = r]
      BY <3>1, GotoObject DEF Stages
    <3>3. FileKept
      BY <1>0, <3>1, FileUnchanged
    <3> HIDE DEF r, o
    <3> QED BY <1>0, <2>0, <3>1, <3>2, <3>3, <1>h, TypeByParts
  <2>2. CASE ~(i > Len(m))
    <3> DEFINE r == [o EXCEPT !.next = i + 1]
    <3>1. /\ i \in 1 .. Len(file.chunks) /\ m[i] \in Values /\ i + 1 \in 1 .. MaxSize + 1
          /\ file.chunks \in Seq(Values)
      <4>1. /\ i \in 1 .. MaxSize + 1 /\ m \in Seq(Values) /\ o.size \in 1 .. MaxSize
            /\ file.chunks \in Seq(Values)
        BY <1>0 DEF Objects, Files
      <4>2. i <= o.size /\ o.size <= Len(file.chunks)
        BY <1>4, <2>0 DEF SaveChunk
      <4> HIDE DEF i, m
      <4> QED BY <2>2, <4>1, <4>2, MaxSizeAssumption
    <3>2. /\ [file.chunks EXCEPT ![i] = m[i]] \in Seq(Values)
          /\ Len([file.chunks EXCEPT ![i] = m[i]]) = Len(file.chunks)
      BY <3>1, WrittenSeq
    <3> DEFINE e == IF i = 1 THEN o.extent ELSE file.extent
    <3>3. \/ file' = file
          \/ file' = [file EXCEPT !.chunks[i] = m[i], !.extent = e]
      BY <1>4, <2>2 DEF SaveChunk
    <3>4. /\ file' \in Files /\ file'.header = file.header
          /\ Len(file'.chunks) = Len(file.chunks)
      <4>1. e \in Nat
        BY <1>0 DEF Files, Objects
      <4> HIDE DEF e
      <4> QED BY <1>0, <3>2, <3>3, <4>1 DEF Files
    <3>5. proc' = [proc EXCEPT ![p] = r]
      BY <1>0, <1>4, <2>2 DEF SaveChunk
    <3>6. FileKept
      BY <3>4, FileUnchanged
    <3>7. r \in Objects /\ r.size = o.size
      BY <1>0, <3>1 DEF Objects
    <3> HIDE DEF r, o
    <3> QED BY <1>0, <2>0, <3>4, <3>5, <3>6, <3>7, <1>h, TypeByParts
  <2> QED BY <2>1, <2>2
<1> QED BY <1>1, <1>2, <1>3, <1>4 DEF Destructor, CloseMapped, SaveReturns

LEMMA TypeStep == TypeInv /\ [Next]_vars => TypeInv'
<1> SUFFICES ASSUME TypeInv, [Next]_vars PROVE TypeInv'
  OBVIOUS
<1>1. ASSUME NEW p \in Processes, Die(p) PROVE TypeInv'
  <2>1. lock \in Processes \cup {Nobody} /\ file \in Files
    BY <1>1, ObjectFacts
  <2>2. FileKept
    BY <1>1, <2>1, FileUnchanged DEF Die
  <2>3. halfgrown' \in BOOLEAN
    BY <1>1 DEF Die, TypeInv, TypeOK
  <2> QED BY <1>1, <2>1, <2>2, <2>3, ClosedObject, TypeByParts DEF Die
<1>2. CASE UNCHANGED vars
  BY <1>2 DEF vars, TypeInv, TypeOK, FileSized, MappingsFit
<1> QED BY <1>1, <1>2, TypeConstructor, TypeWrite, TypeDestructor DEF Next

LEMMA TypeInvariant == Spec => []TypeInv
BY TypeInit, TypeStep, PTL DEF Spec

(* The state stays within its types: in particular no process's mapping      *)
(* reaches past the end of the file, which grows and is never cut.           *)
THEOREM TypeCorrect == Spec => []TypeOK
<1>1. TypeInv => TypeOK
  BY DEF TypeInv
<1> QED BY <1>1, TypeInvariant, PTL

-----------------------------------------------------------------------------
(***************************************************************************)
(* Frames: what a step leaves alone.                                       *)
(***************************************************************************)
SameFlags(q) ==
    /\ proc'[q].writable = proc[q].writable
    /\ proc'[q].allow_dirty = proc[q].allow_dirty
    /\ proc'[q].heap = proc[q].heap
    /\ proc'[q].size = proc[q].size
    /\ proc'[q].grow = proc[q].grow
    /\ proc'[q].extent = proc[q].extent

SameHeader ==
    /\ file'.header = file.header
    /\ file'.dirty = file.dirty
    /\ Len(file'.chunks) = Len(file.chunks)

(* A write changes one chunk, of the memory in heap mode and of the file in  *)
(* mapped mode.                                                              *)
LEMMA WriteFrame ==
    ASSUME TypeInv, NEW p \in Processes, NEW i \in 1 .. MaxSize, NEW v \in Written,
           Write(p, i, v)
    PROVE  /\ SameHeader /\ lock' = lock /\ saved' = saved
           /\ file'.extent = file.extent
           /\ proc[p].pc = "open" /\ proc[p].writable
           /\ \A q \in Processes :
                SameFlags(q) /\ proc'[q].pc = proc[q].pc /\ proc'[q].next = proc[q].next
           /\ \A q \in Processes \ {p} : proc'[q] = proc[q]
           /\ proc[p].heap
                => /\ file' = file
                   /\ i \in 1 .. Len(proc[p].memory)
                   /\ proc'[p].memory = [proc[p].memory EXCEPT ![i] = v]
           /\ ~proc[p].heap
                => proc' = proc
<1> USE DEF SameFlags, SameHeader
<1>0. /\ file \in Files /\ proc[p] \in Objects /\ proc \in [Processes -> Objects]
      /\ proc[p].pc = "open" /\ proc[p].writable
      /\ lock' = lock /\ saved' = saved /\ v \in Values
  BY ObjectFacts DEF Write, At, Values
<1>1. CASE proc[p].heap
  <2>1. file' = file /\ proc' = [proc EXCEPT ![p].memory[i] = v]
    BY <1>1 DEF Write
  <2>2. i \in 1 .. Len(proc[p].memory)
    BY <1>0, <1>1 DEF Write, Contents, Objects
  <2>3. \A q \in Processes : q # p => proc'[q] = proc[q]
    BY <1>0, <2>1
  <2>4. proc'[p] = [proc[p] EXCEPT !.memory[i] = v]
    BY <1>0, <2>1
  <2>5. /\ proc'[p].memory = [proc[p].memory EXCEPT ![i] = v]
        /\ SameFlags(p) /\ proc'[p].pc = proc[p].pc /\ proc'[p].next = proc[p].next
    <3> HIDE DEF SameHeader
    <3> QED BY <1>0, <2>4 DEF Objects
  <2> QED BY <1>0, <1>1, <2>1, <2>2, <2>3, <2>5
<1>2. CASE ~proc[p].heap
  <2>1. proc' = proc /\ file' = [file EXCEPT !.chunks[i] = v]
    BY <1>2 DEF Write
  <2>2. SameHeader /\ file'.extent = file.extent
    BY <1>0, <2>1 DEF Files
  <2> QED BY <1>0, <1>2, <2>1, <2>2
<1> QED BY <1>1, <1>2

(* One iteration of the save. *)
LEMMA SaveFrame ==
    ASSUME TypeInv, NEW p \in Processes, SaveChunk(p)
    PROVE  LET i == proc[p].next
               m == proc[p].memory
           IN  /\ SameHeader /\ lock' = lock /\ saved' = saved
               /\ proc[p].pc = "saving" /\ i <= proc[p].size
               /\ \A q \in Processes :
                    SameFlags(q) /\ proc'[q].memory = proc[q].memory
               /\ \A q \in Processes \ {p} : proc'[q] = proc[q]
               /\ file'.extent \in {file.extent, proc[p].extent}
               /\ i > Len(m) => proc'[p].pc = "failed" /\ file' = file
               /\ ~(i > Len(m))
                    => /\ i \in 1 .. Len(m)
                       /\ proc'[p].pc = "saving"
                       /\ proc'[p].next = i + 1
                       /\ file'.chunks = IF AllZeros(i, m[i]) THEN file.chunks
                                         ELSE [file.chunks EXCEPT ![i] = m[i]]
<1> USE DEF SameFlags, SameHeader
<1> DEFINE i == proc[p].next
           m == proc[p].memory
<1>0. /\ file \in Files /\ proc[p] \in Objects /\ proc \in [Processes -> Objects]
      /\ proc[p].pc = "saving" /\ i <= proc[p].size
      /\ lock' = lock /\ saved' = saved
  BY ObjectFacts DEF SaveChunk, At
<1>1. CASE i > Len(m)
  <2>1. file' = file /\ proc' = [proc EXCEPT ![p].pc = "failed"]
    BY <1>1 DEF SaveChunk, Goto
  <2> QED BY <1>0, <1>1, <2>1 DEF Objects
<1>2. CASE ~(i > Len(m))
  <2>1. /\ proc' = [proc EXCEPT ![p].next = i + 1]
        /\ file' = IF AllZeros(i, m[i]) THEN file
                   ELSE [file EXCEPT !.chunks[i] = m[i],
                                     !.extent = IF i = 1 THEN proc[p].extent ELSE @]
    BY <1>2 DEF SaveChunk
  <2>2. i \in 1 .. Len(m)
    BY <1>0, <1>2 DEF Objects
  <2>3. /\ SameHeader /\ file'.extent \in {file.extent, proc[p].extent}
        /\ file'.chunks = IF AllZeros(i, m[i]) THEN file.chunks
                          ELSE [file.chunks EXCEPT ![i] = m[i]]
    BY <1>0, <2>1 DEF Files
  <2>4. /\ \A q \in Processes : SameFlags(q) /\ proc'[q].memory = proc[q].memory
        /\ \A q \in Processes \ {p} : proc'[q] = proc[q]
        /\ proc'[p].pc = "saving" /\ proc'[p].next = i + 1
    BY <1>0, <2>1 DEF Objects
  <2> HIDE DEF i, m
  <2> QED BY <1>0, <1>2, <2>2, <2>3, <2>4 DEF i, m
<1> QED BY <1>1, <1>2

-----------------------------------------------------------------------------
(***************************************************************************)
(* The dirty flag and the lock.                                            *)
(***************************************************************************)
LEMMA LockInit == Init => LockInv
BY TypeInit
   DEF Init, LockInv, OneOpens, HeaderSeen, UsersHoldLock, InUse, At, Closed, Opening

LEMMA LockConstructor ==
    ASSUME SerialOpens, LockInv, TypeInv', NEW p \in Processes, Constructor(p)
    PROVE  LockInv'
<1>0. /\ proc \in [Processes -> Objects] /\ file \in Files /\ TypeInv'
      /\ OneOpens /\ HeaderSeen /\ UsersHoldLock
  BY ObjectFacts DEF LockInv
<1> USE <1>0 DEF LockInv, OneOpens, HeaderSeen, UsersHoldLock, InUse, At, Goto, Opening,
                 Objects, Files
<1>1. ASSUME NEW writable \in BOOLEAN, NEW heap \in BOOLEAN, NEW allow_dirty \in AllowDirty,
             NEW size \in 1 .. MaxSize, Check(p, writable, allow_dirty, heap, size)
      PROVE  LockInv'
  BY <1>1 DEF Check, Closed, Acceptable
<1>2. ASSUME Create(p) PROVE LockInv'
  <2>1. /\ file'.header = "blank" /\ lock' = lock
        /\ proc[p].pc = "checked" /\ file.header = "missing"
    BY <1>2 DEF Create
  <2>2. /\ \A q \in Processes \ {p} : proc'[q] = proc[q]
        /\ proc'[p].pc = "creating"
    BY <1>2 DEF Create
  <2>3. OneOpens'
    <3>1. \A q \in Processes : proc'[q].pc \in Opening => proc[q].pc \in Opening
      BY <2>1, <2>2
    <3> QED BY <3>1
  <2>4. HeaderSeen'
    BY <2>1, <2>2
  <2>5. UsersHoldLock'
    BY <2>1, <2>2
  <2> QED BY <2>3, <2>4, <2>5
<1>3. ASSUME Format(p) PROVE LockInv'
  <2>1. /\ file'.header = "valid" /\ lock' = lock
        /\ proc[p].pc = "creating" /\ file.header = "blank"
    BY <1>3 DEF Format
  <2>2. /\ \A q \in Processes \ {p} : proc'[q] = proc[q]
        /\ proc'[p].pc = "mapped"
    BY <1>3 DEF Format
  <2>3. OneOpens'
    <3>1. \A q \in Processes : proc'[q].pc \in Opening => proc[q].pc \in Opening
      BY <2>1, <2>2
    <3> QED BY <3>1
  <2>4. HeaderSeen'
    BY <2>1, <2>2
  <2>5. UsersHoldLock'
    BY <2>1, <2>2
  <2> QED BY <2>3, <2>4, <2>5
<1>4. ASSUME Map(p) PROVE LockInv'
  <2>1. /\ file'.header = file.header /\ file'.dirty = file.dirty /\ lock' = lock
        /\ proc[p].pc = "checked" /\ file.header = "valid"
    BY <1>4 DEF Map
  <2>2. /\ \A q \in Processes \ {p} : proc'[q] = proc[q]
        /\ proc'[p].pc \in {"growing", "mapped"}
    BY <1>4 DEF Map
  <2>3. OneOpens'
    <3>1. \A q \in Processes : proc'[q].pc \in Opening => proc[q].pc \in Opening
      BY <2>1, <2>2
    <3> QED BY <3>1
  <2>4. HeaderSeen'
    BY <2>1, <2>2
  <2>5. UsersHoldLock'
    BY <2>1, <2>2
  <2> QED BY <2>3, <2>4, <2>5
<1>5. ASSUME Lock(p) PROVE LockInv'
  <2> DEFINE stage == IF proc[p].heap THEN "loading" ELSE "open"
  <2>1. CASE ~proc[p].writable
    <3>1. file' = file /\ lock' = lock /\ proc[p].pc = "mapped"
      BY <1>5, <2>1 DEF Lock
    <3>2. /\ \A q \in Processes \ {p} : proc'[q] = proc[q]
          /\ proc'[p].pc \in {"loading", "open"} /\ ~proc'[p].writable
      <4>1. proc' = [proc EXCEPT ![p].pc = stage] /\ stage \in {"loading", "open"}
        BY <1>5, <2>1 DEF Lock
      <4> HIDE DEF stage
      <4> QED BY <2>1, <4>1
    <3>3. OneOpens'
      <4>1. \A q \in Processes : proc'[q].pc \in Opening => proc[q].pc \in Opening
        BY <3>1, <3>2
      <4> QED BY <4>1
    <3>4. HeaderSeen'
      BY <3>1, <3>2
    <3>5. UsersHoldLock'
      BY <3>1, <3>2
    <3> QED BY <3>3, <3>4, <3>5
  <2>2. CASE proc[p].writable /\ lock # Nobody
    <3>1. proc' = [proc EXCEPT ![p].pc = "refused"] /\ file' = file /\ lock' = lock
      BY <1>5, <2>2 DEF Lock
    <3> QED BY <1>5, <2>2, <3>1
  <2>3. CASE proc[p].writable /\ lock = Nobody
    <3>1. /\ proc' = [proc EXCEPT ![p].pc = stage] /\ lock' = p
          /\ file'.header = "valid" /\ file'.dirty = TRUE
      BY <1>5, <2>3 DEF Lock
    <3>2. \A q \in Processes : ~InUse(q)
      BY <2>3, ProcessesAssumption
    <3> QED BY <1>5, <2>3, <3>1, <3>2 DEF Lock
  <2> QED BY <2>1, <2>2, <2>3
<1>6. ASSUME Load(p) PROVE LockInv'
  BY <1>6 DEF Load
<1>7. ASSUME LoadAborts(p) PROVE LockInv'
  BY <1>7 DEF LoadAborts
<1>8. ASSUME Retry(p) PROVE LockInv'
  BY <1>8 DEF Retry, Closed
<1>9. ASSUME Grow(p) PROVE LockInv'
  <2>1. /\ file'.header = file.header /\ file'.dirty = file.dirty /\ lock' = lock
        /\ proc[p].pc = "growing"
    BY <1>9 DEF Grow
  <2>2. /\ \A q \in Processes \ {p} : proc'[q] = proc[q]
        /\ proc'[p].pc = "linking"
    BY <1>9 DEF Grow
  <2>3. OneOpens'
    <3>1. \A q \in Processes : proc'[q].pc \in Opening => proc[q].pc \in Opening
      BY <2>1, <2>2
    <3> QED BY <3>1
  <2>4. HeaderSeen'
    BY <2>1, <2>2
  <2>5. UsersHoldLock'
    BY <2>1, <2>2
  <2> QED BY <2>3, <2>4, <2>5
<1>10. ASSUME GrowReturns(p) PROVE LockInv'
  <2>1. /\ file'.header = file.header /\ file'.dirty = file.dirty /\ lock' = lock
        /\ proc[p].pc = "linking"
    BY <1>10 DEF GrowReturns
  <2>2. /\ \A q \in Processes \ {p} : proc'[q] = proc[q]
        /\ proc'[p].pc = "mapped"
    BY <1>10 DEF GrowReturns
  <2>3. OneOpens'
    <3>1. \A q \in Processes : proc'[q].pc \in Opening => proc[q].pc \in Opening
      BY <2>1, <2>2
    <3> QED BY <3>1
  <2>4. HeaderSeen'
    BY <2>1, <2>2
  <2>5. UsersHoldLock'
    BY <2>1, <2>2
  <2> QED BY <2>3, <2>4, <2>5
<1> QED
  BY <1>1, <1>2, <1>3, <1>4, <1>5, <1>6, <1>7, <1>8, <1>9, <1>10 DEF Constructor

LEMMA LockDestructor ==
    ASSUME LockInv, TypeInv', NEW p \in Processes,
           Destructor(p) \/ Die(p) \/ \E i \in 1 .. MaxSize, v \in Written : Write(p, i, v)
    PROVE  LockInv'
<1>0. /\ proc \in [Processes -> Objects] /\ file \in Files /\ TypeInv /\ TypeInv'
      /\ OneOpens /\ HeaderSeen /\ UsersHoldLock
  BY ObjectFacts DEF LockInv
<1> USE <1>0 DEF LockInv, OneOpens, HeaderSeen, UsersHoldLock, InUse, At, Opening
<1>1. ASSUME NEW i \in 1 .. MaxSize, NEW v \in Written, Write(p, i, v) PROVE LockInv'
  <2>1. /\ SameHeader /\ lock' = lock
        /\ \A q \in Processes : SameFlags(q) /\ proc'[q].pc = proc[q].pc
    BY <1>1, WriteFrame
  <2> QED BY <2>1 DEF SameFlags, SameHeader
<1>2. ASSUME CloseMapped(p) PROVE LockInv'
  BY <1>2 DEF CloseMapped, Release, Closed, Objects, Files
<1>3. ASSUME CloseReader(p) PROVE LockInv'
  BY <1>3 DEF CloseReader, Closed, Objects, Files
<1>4. ASSUME CloseHeap(p) PROVE LockInv'
  <2>1. file' = file /\ lock' = lock /\ proc[p].pc = "open" /\ proc[p].writable /\ proc[p].heap
    BY <1>4 DEF CloseHeap
  <2>2. /\ \A q \in Processes \ {p} : proc'[q] = proc[q]
        /\ proc'[p].pc = "saving"
        /\ proc'[p].writable = proc[p].writable /\ proc'[p].heap = proc[p].heap
    BY <1>4 DEF CloseHeap, Objects
  <2>3. OneOpens'
    <3>1. \A q \in Processes : proc'[q].pc \in Opening => proc[q].pc \in Opening
      BY <2>1, <2>2
    <3> QED BY <3>1
  <2>4. HeaderSeen'
    BY <2>1, <2>2
  <2>5. UsersHoldLock'
    BY <2>1, <2>2
  <2> QED BY <2>3, <2>4, <2>5
<1>5. ASSUME SaveChunk(p) PROVE LockInv'
  <2>1. /\ SameHeader /\ lock' = lock /\ proc[p].pc = "saving"
        /\ \A q \in Processes : SameFlags(q)
        /\ \A q \in Processes \ {p} : proc'[q] = proc[q]
        /\ proc'[p].pc \in {"saving", "failed"}
    BY <1>5, SaveFrame
  <2> QED BY <2>1 DEF SameFlags, SameHeader
<1>6. ASSUME SaveReturns(p) PROVE LockInv'
  BY <1>6 DEF SaveReturns, Release, Closed, Objects, Files
<1>7. ASSUME Die(p) PROVE LockInv'
  BY <1>7 DEF Die, Closed, Objects, Files
<1> QED BY <1>1, <1>2, <1>3, <1>4, <1>5, <1>6, <1>7 DEF Destructor

LEMMA LockStep ==
    ASSUME SerialOpens
    PROVE  LockInv /\ [Next]_vars => LockInv'
<1> SUFFICES ASSUME LockInv, [Next]_vars PROVE LockInv'
  OBVIOUS
<1>0. TypeInv'
  BY TypeStep DEF LockInv
<1>1. CASE UNCHANGED vars
  BY <1>0, <1>1 DEF vars, LockInv, OneOpens, HeaderSeen, UsersHoldLock, InUse, At
<1> QED BY <1>0, <1>1, LockConstructor, LockDestructor DEF Next

LEMMA LockInvariant ==
    ASSUME SerialOpens
    PROVE  Spec => []LockInv
BY LockInit, LockStep, PTL DEF Spec

(* With opens one at a time, every writer in use, saving included, holds the *)
(* lock on a file that is marked dirty, whatever the allow_dirty of others   *)
(* and wherever they die: two writers never share the file, and a death      *)
(* while the database is open or saved is seen by the next.  The growth of   *)
(* the segment precedes the flag and is not covered.                         *)
THEOREM DirtyCorrect ==
    ASSUME SerialOpens
    PROVE  Spec => []DirtyWhileInUse
<1>1. LockInv => DirtyWhileInUse
  BY DEF LockInv, UsersHoldLock, InUse, DirtyWhileInUse
<1> QED BY <1>1, LockInvariant, PTL

-----------------------------------------------------------------------------
(***************************************************************************)
(* The size of the memory that is saved.                                   *)
(***************************************************************************)
LEMMA SizeInit == Init => SizeInv
BY LockInit
   DEF Init, SizeInv, CleanOpening, WholeFile, HeapWriter, At, Closed, NoFile

LEMMA SizeConstructor ==
    ASSUME TRUE \notin AllowDirty, SerialOpens, SizeInv, LockInv',
           NEW p \in Processes, Constructor(p)
    PROVE  SizeInv'
<1>0. /\ proc \in [Processes -> Objects] /\ file \in Files /\ TypeInv /\ LockInv'
      /\ OneOpens /\ HeaderSeen /\ UsersHoldLock /\ CleanOpening /\ WholeFile
  BY ObjectFacts DEF SizeInv, LockInv
<1>00. \A q \in Processes : proc[q].pc \in Opening /\ q # p => proc[p].pc \notin Opening
  BY <1>0 DEF OneOpens
<1> USE <1>0 DEF SizeInv, CleanOpening, WholeFile, HeapWriter, At, Goto, Opening
<1>1. ASSUME NEW writable \in BOOLEAN, NEW heap \in BOOLEAN, NEW allow_dirty \in AllowDirty,
             NEW size \in 1 .. MaxSize, Check(p, writable, allow_dirty, heap, size)
      PROVE  SizeInv'
  <2>1. allow_dirty = FALSE
    BY AllowDirtyAssumption
  <2> QED BY <1>1, <2>1 DEF Check, Closed, Acceptable, Objects
<1>2. ASSUME Create(p) PROVE SizeInv'
  <2>1. proc[p].size \in Nat
    BY MaxSizeAssumption DEF Objects
  <2>2. Len(Zeroed(proc[p].size)) = proc[p].size
    BY <2>1, ZeroedSeq
  <2>3. /\ file'.header = "blank" /\ file'.dirty = FALSE /\ file'.chunks = Zeroed(proc[p].size)
        /\ proc' = [proc EXCEPT ![p].pc = "creating"]
        /\ proc[p].pc = "checked" /\ file.header = "missing"
    BY <1>2 DEF Create
  <2>4. \A q \in Processes : proc[q].pc \notin Mapped
    BY <2>3, ObjectFacts
  <2> QED BY <2>2, <2>3, <2>4, <1>00 DEF Objects, Mapped
<1>3. ASSUME Format(p) PROVE SizeInv'
  <2>1. /\ file' = [file EXCEPT !.header = "valid", !.dirty = FALSE,
                                !.extent = proc[p].size, !.chunks[1] = Segment]
        /\ proc' = [proc EXCEPT ![p].pc = "mapped"]
        /\ proc[p].pc = "creating"
    BY <1>3 DEF Format
  <2>2. /\ Len(file'.chunks) = Len(file.chunks)
        /\ file'.header = "valid" /\ file'.dirty = FALSE
    BY <2>1 DEF Files
  <2> QED BY <2>1, <2>2 DEF Objects
<1>4. ASSUME Map(p) PROVE SizeInv'
  <2>0. PICK stage \in {"growing", "mapped"}, g \in {Len(file'.chunks) - Len(file.chunks)} :
          proc' = [proc EXCEPT ![p].pc = stage, ![p].size = Len(file'.chunks), ![p].grow = g]
    BY <1>4 DEF Map, Files
  <2>1. /\ file'.dirty = file.dirty /\ file'.header = file.header
        /\ proc[p].pc = "checked" /\ ~file.dirty
    BY <1>4 DEF Map, Files
  <2>2. \A q \in Processes :
          proc[q].pc \notin {"creating", "growing", "linking", "mapped", "loading", "saving"}
    BY <2>1, <1>00 DEF HeaderSeen, UsersHoldLock, InUse
  <2>3. \A q \in Processes : ~HeapWriter(q)
    BY <2>1 DEF UsersHoldLock, InUse
  <2> QED BY <2>0, <2>1, <2>2, <2>3 DEF Objects
<1>5. ASSUME Lock(p) PROVE SizeInv'
  <2>1. PICK stage \in {"loading", "open", "refused"} : proc' = [proc EXCEPT ![p].pc = stage]
    BY <1>5 DEF Lock
  <2>2. /\ file'.header = file.header /\ file'.chunks = file.chunks /\ proc[p].pc = "mapped"
        /\ file'.dirty = file.dirty \/ proc[p].writable
        /\ proc[p].heap => stage # "open"
    BY <1>5, <2>1 DEF Lock, Files, Objects
  <2> QED BY <2>1, <2>2, <1>00 DEF Objects, HeaderSeen
<1>6. ASSUME Load(p) PROVE SizeInv'
  <2>1. /\ proc' = [proc EXCEPT ![p].pc = "open", ![p].memory = Region(p),
                               ![p].extent = file.extent]
        /\ file' = file /\ proc[p].pc = "loading"
    BY <1>6 DEF Load
  <2>2. Region(p) = file.chunks
    BY <2>1, RegionSeq DEF Mapped
  <2>3. /\ \A q \in Processes \ {p} : proc'[q] = proc[q]
        /\ proc'[p].pc = "open" /\ proc'[p].memory = file.chunks
        /\ proc'[p].allow_dirty = proc[p].allow_dirty
    BY <2>1, <2>2 DEF Objects
  <2> QED BY <2>1, <2>3
<1>7. ASSUME LoadAborts(p) PROVE SizeInv'
  <2>1. /\ file'.header = file.header /\ file'.chunks = file.chunks
        /\ file'.dirty => file.dirty
        /\ proc' = [proc EXCEPT ![p].pc = "refused"]
    BY <1>7 DEF LoadAborts, Files
  <2> QED BY <2>1 DEF Objects
<1>8. ASSUME Retry(p) PROVE SizeInv'
  BY <1>8 DEF Retry, Closed
<1>9. ASSUME Grow(p) \/ GrowReturns(p) PROVE SizeInv'
  <2>1. /\ file'.header = file.header /\ file'.chunks = file.chunks
        /\ file'.dirty = file.dirty
        /\ \A q \in Processes \ {p} : proc'[q] = proc[q]
        /\ proc'[p].writable = proc[p].writable
        /\ proc'[p].allow_dirty = proc[p].allow_dirty
        /\ proc'[p].heap = proc[p].heap /\ proc'[p].size = proc[p].size
        /\ proc[p].pc \in {"growing", "linking"} /\ proc'[p].pc \in {"linking", "mapped"}
    BY <1>9 DEF Grow, GrowReturns, Files, Objects
  <2> QED BY <2>1
<1> QED BY <1>1, <1>2, <1>3, <1>4, <1>5, <1>6, <1>7, <1>8, <1>9 DEF Constructor

LEMMA SizeDestructor ==
    ASSUME SizeInv, LockInv', NEW p \in Processes,
           Destructor(p) \/ Die(p) \/ \E i \in 1 .. MaxSize, v \in Written : Write(p, i, v)
    PROVE  SizeInv'
<1>0. /\ proc \in [Processes -> Objects] /\ file \in Files /\ TypeInv /\ LockInv'
      /\ CleanOpening /\ WholeFile
  BY ObjectFacts DEF SizeInv, LockInv
<1> USE <1>0 DEF SizeInv, CleanOpening, WholeFile, HeapWriter, At
<1>1. ASSUME NEW i \in 1 .. MaxSize, NEW v \in Written, Write(p, i, v) PROVE SizeInv'
  <2>1. /\ SameHeader
        /\ \A q \in Processes : SameFlags(q) /\ proc'[q].pc = proc[q].pc
    BY <1>1, WriteFrame
  <2>2. \A q \in Processes : Len(proc'[q].memory) = Len(proc[q].memory)
    <3>1. CASE proc[p].heap
      <4>1. /\ i \in 1 .. Len(proc[p].memory)
            /\ proc'[p].memory = [proc[p].memory EXCEPT ![i] = v]
            /\ \A q \in Processes \ {p} : proc'[q] = proc[q]
        BY <1>1, <3>1, WriteFrame
      <4>2. proc[p].memory \in Seq(Values)
        BY DEF Objects
      <4>3. Len(proc'[p].memory) = Len(proc[p].memory)
        BY <4>1, <4>2
      <4> QED BY <4>1, <4>3
    <3>2. CASE ~proc[p].heap
      <4>1. proc' = proc
        BY <1>1, <3>2, WriteFrame
      <4> QED BY <4>1
    <3> QED BY <3>1, <3>2
  <2> QED BY <2>1, <2>2 DEF SameFlags, SameHeader
<1>2. ASSUME Release(p) PROVE SizeInv'
  <2>1. /\ file'.header = file.header /\ file'.chunks = file.chunks
        /\ file'.dirty = FALSE
        /\ proc' = [proc EXCEPT ![p] = Closed]
    BY <1>2 DEF Release, Files
  <2> QED BY <2>1 DEF Closed
<1>3. ASSUME CloseReader(p) PROVE SizeInv'
  BY <1>3 DEF CloseReader, Closed
<1>4. ASSUME CloseHeap(p) PROVE SizeInv'
  BY <1>4 DEF CloseHeap, Objects
<1>5. ASSUME SaveChunk(p) PROVE SizeInv'
  <2>1. /\ SameHeader /\ proc[p].pc = "saving"
        /\ \A q \in Processes : SameFlags(q) /\ proc'[q].memory = proc[q].memory
        /\ \A q \in Processes \ {p} : proc'[q] = proc[q]
        /\ proc'[p].pc \in {"saving", "failed"}
    BY <1>5, SaveFrame
  <2> QED BY <2>1 DEF SameFlags, SameHeader
<1>6. ASSUME Die(p) PROVE SizeInv'
  BY <1>6 DEF Die, Closed
<1> QED BY <1>1, <1>2, <1>3, <1>4, <1>5, <1>6 DEF Destructor, CloseMapped, SaveReturns

LEMMA SizeStep ==
    ASSUME SerialOpens, TRUE \notin AllowDirty
    PROVE  SizeInv /\ [Next]_vars => SizeInv'
<1> SUFFICES ASSUME SizeInv, [Next]_vars PROVE SizeInv'
  OBVIOUS
<1>0. LockInv'
  BY LockStep DEF SizeInv
<1>1. CASE UNCHANGED vars
  BY <1>0, <1>1 DEF vars, SizeInv, CleanOpening, WholeFile, HeapWriter, At
<1> QED BY <1>0, <1>1, SizeConstructor, SizeDestructor DEF Next

LEMMA SizeInvariant ==
    ASSUME SerialOpens, TRUE \notin AllowDirty
    PROVE  Spec => []SizeInv
BY SizeInit, SizeStep, PTL DEF Spec

(* With opens one at a time and nobody passing allow_dirty, the destructor   *)
(* of a heap-mode database maps a file exactly as long as its memory, so     *)
(* save_database_file never reads past the end of it.                        *)
THEOREM SaveCorrect ==
    ASSUME SerialOpens, TRUE \notin AllowDirty
    PROVE  Spec => []SaveWithinMemory
<1>1. SizeInv => SaveWithinMemory
  <2> SUFFICES ASSUME SizeInv, NEW p \in Processes, At(p, "saving")
               PROVE  proc[p].size = Len(proc[p].memory)
    BY DEF SaveWithinMemory
  <2>1. proc[p].writable /\ proc[p].heap
    BY DEF SizeInv, LockInv, HeaderSeen
  <2> QED BY <2>1 DEF SizeInv, WholeFile, HeapWriter, At
<1> QED BY <1>1, SizeInvariant, PTL

-----------------------------------------------------------------------------
(***************************************************************************)
(* What is opened is what was saved.                                       *)
(***************************************************************************)
LEMMA SavedInit == Init => SavedInv
BY SizeInit
   DEF Init, SavedInv, CleanIsSaved, MemorySaved, HeapWriter, At, Closed, NoFile

(* Nobody else is in use, and nobody else is past the check, while a writer  *)
(* is in use; so nobody is loading but that writer.                          *)
LEMMA Alone ==
    ASSUME SizeInv, NEW p \in Processes, InUse(p), NEW q \in Processes, q # p
    PROVE  /\ ~InUse(q) /\ ~HeapWriter(q)
           /\ proc[q].pc \notin {"checked", "creating", "growing", "linking", "mapped",
                                 "loading", "saving"}
<1>1. file.dirty /\ lock = p /\ file.header = "valid"
  BY DEF SizeInv, LockInv, UsersHoldLock
<1>2. ~InUse(q)
  BY <1>1 DEF SizeInv, LockInv, UsersHoldLock
<1>3. ~HeapWriter(q)
  BY <1>2 DEF InUse, HeapWriter
<1>4. proc[q].pc \notin {"checked", "creating", "growing", "linking", "mapped", "loading"}
  BY <1>1, <1>2 DEF SizeInv, CleanOpening, InUse, At
<1>5. proc[q].pc # "saving"
  BY <1>2 DEF SizeInv, LockInv, HeaderSeen, InUse, At
<1> QED BY <1>2, <1>3, <1>4, <1>5

LEMMA SavedConstructor ==
    ASSUME SavedInv, SizeInv', NEW p \in Processes, Constructor(p)
    PROVE  SavedInv'
<1>0. /\ proc \in [Processes -> Objects] /\ file \in Files /\ TypeInv /\ SizeInv'
      /\ SizeInv /\ OneOpens /\ HeaderSeen /\ UsersHoldLock /\ CleanOpening /\ WholeFile
      /\ CleanIsSaved /\ MemorySaved
  BY ObjectFacts DEF SavedInv, SizeInv, LockInv
<1>00. \A q \in Processes : proc[q].pc \in Opening /\ q # p => proc[p].pc \notin Opening
  BY <1>0 DEF OneOpens
<1> USE <1>0 DEF SavedInv, CleanIsSaved, MemorySaved, HeapWriter, At, Goto, Opening
<1>1. ASSUME NEW writable \in BOOLEAN, NEW heap \in BOOLEAN, NEW allow_dirty \in AllowDirty,
             NEW size \in 1 .. MaxSize, Check(p, writable, allow_dirty, heap, size)
      PROVE  SavedInv'
  <2>1. /\ file' = file /\ saved' = saved
        /\ \A q \in Processes \ {p} : proc'[q] = proc[q]
        /\ proc'[p].pc \in {"checked", "refused"}
    BY <1>1 DEF Check, Closed
  <2> QED BY <2>1
<1>2. ASSUME Create(p) PROVE SavedInv'
  <2>1. /\ file'.header = "blank"
        /\ \A q \in Processes \ {p} : proc'[q] = proc[q]
        /\ proc'[p].pc = "creating"
        /\ file.header = "missing"
    BY <1>2 DEF Create, Objects
  <2>2. \A q \in Processes : proc[q].pc \notin Mapped
    BY <2>1, ObjectFacts
  <2> QED BY <2>1, <2>2 DEF Mapped
<1>3. ASSUME Format(p) PROVE SavedInv'
  <2>1. /\ saved' = file'.chunks
        /\ \A q \in Processes \ {p} : proc'[q] = proc[q]
        /\ proc'[p].pc = "mapped" /\ proc[p].pc = "creating" /\ file.header = "blank"
    BY <1>3 DEF Format, Objects, HeaderSeen
  <2>2. \A q \in Processes : ~HeapWriter(q) /\ proc[q].pc # "saving"
    BY <2>1 DEF UsersHoldLock, InUse, HeaderSeen
  <2> QED BY <2>1, <2>2
<1>4. ASSUME Map(p) PROVE SavedInv'
  <2>1. /\ file'.chunks = IF proc[p].writable THEN Grown(file.chunks, proc[p].size)
                          ELSE file.chunks
        /\ saved' = IF proc[p].writable /\ ~file.dirty
                    THEN Grown(saved, proc[p].size) ELSE saved
        /\ file'.header = file.header /\ file'.dirty = file.dirty
        /\ \A q \in Processes \ {p} : proc'[q] = proc[q]
        /\ proc'[p].pc \in {"growing", "mapped"} /\ proc[p].pc = "checked"
        /\ file.header # "missing"
    BY <1>4 DEF Map, Objects, Files
  <2>2. ~file.dirty /\ file.header = "valid"
    BY <2>1 DEF CleanOpening, HeaderSeen
  <2>3. file.chunks = saved
    BY <2>2
  <2>4. file'.chunks = saved'
    BY <2>1, <2>2, <2>3
  <2>5. \A q \in Processes : ~HeapWriter(q) /\ proc[q].pc # "saving"
    BY <2>2 DEF UsersHoldLock, InUse, HeaderSeen
  <2> QED BY <2>1, <2>4, <2>5
<1>5. ASSUME Lock(p) PROVE SavedInv'
  <2>1. /\ \A q \in Processes \ {p} : proc'[q] = proc[q]
        /\ proc[p].pc = "mapped"
        /\ proc'[p].pc \in {"loading", "open", "refused"}
        /\ proc'[p].heap = proc[p].heap
        /\ proc[p].heap => proc'[p].pc # "open"
        /\ file'.chunks = file.chunks /\ file'.header = file.header
        /\ file.dirty => file'.dirty
        /\ saved' = saved
    BY <1>5 DEF Lock, Objects, Files
  <2>2. file.chunks = saved
    BY <2>1 DEF CleanOpening, HeaderSeen
  <2> QED BY <2>1, <2>2
<1>6. ASSUME Load(p) PROVE SavedInv'
  <2>1. /\ \A q \in Processes \ {p} : proc'[q] = proc[q]
        /\ proc'[p].pc = "open" /\ proc'[p].memory = Region(p) /\ proc[p].pc = "loading"
        /\ file' = file /\ saved' = saved
    BY <1>6 DEF Load, Objects
  <2>2. Region(p) = file.chunks
    BY <2>1, RegionSeq DEF Mapped, WholeFile
  <2> QED BY <2>1, <2>2 DEF AllZeros
<1>7. ASSUME LoadAborts(p) PROVE SavedInv'
  <2>1. /\ \A q \in Processes \ {p} : proc'[q] = proc[q]
        /\ proc'[p].pc = "refused" /\ proc[p].pc = "loading"
        /\ file'.chunks = file.chunks /\ saved' = saved
    BY <1>7 DEF LoadAborts, Objects, Files
  <2> QED BY <2>1
<1>8. ASSUME Retry(p) PROVE SavedInv'
  BY <1>8 DEF Retry, Closed
<1>9. ASSUME Grow(p) \/ GrowReturns(p) PROVE SavedInv'
  <2>1. /\ file'.header = file.header /\ file'.chunks = file.chunks
        /\ file'.dirty = file.dirty /\ saved' = saved
        /\ \A q \in Processes \ {p} : proc'[q] = proc[q]
        /\ proc'[p].pc \in {"linking", "mapped"}
    BY <1>9 DEF Grow, GrowReturns, Files, Objects
  <2> QED BY <2>1
<1> QED BY <1>1, <1>2, <1>3, <1>4, <1>5, <1>6, <1>7, <1>8, <1>9 DEF Constructor

(* A write is to a chunk of zeros or of something else, but never with zeros *)
(* by assumption.                                                            *)
LEMMA SavedWrite ==
    ASSUME Zeros \notin Written, SavedInv, SizeInv', NEW p \in Processes,
           NEW i \in 1 .. MaxSize, NEW v \in Written, Write(p, i, v)
    PROVE  SavedInv'
<1>0. /\ TypeInv /\ SizeInv' /\ SizeInv /\ UsersHoldLock /\ CleanIsSaved /\ MemorySaved
      /\ file \in Files /\ proc[p] \in Objects
  BY ObjectFacts DEF SavedInv, SizeInv, LockInv
<1>1. /\ SameHeader /\ saved' = saved /\ proc[p].pc = "open"
      /\ \A q \in Processes : SameFlags(q) /\ proc'[q].pc = proc[q].pc
                              /\ proc'[q].next = proc[q].next
      /\ \A q \in Processes \ {p} : proc'[q] = proc[q]
      /\ InUse(p)
  BY <1>0, WriteFrame DEF InUse
<1>2. file.dirty /\ file'.dirty
  BY <1>0, <1>1 DEF UsersHoldLock, SameHeader
<1>3. \A q \in Processes \ {p} : ~HeapWriter(q) /\ proc[q].pc \notin {"loading", "saving"}
  BY <1>0, <1>1, Alone
<1>4. CleanIsSaved'
  BY <1>1, <1>2, <1>3 DEF CleanIsSaved, At
<1>5. CASE proc[p].heap
  <2>1. /\ file' = file /\ i \in 1 .. Len(proc[p].memory)
        /\ proc'[p].memory = [proc[p].memory EXCEPT ![i] = v]
    BY <1>0, <1>5, WriteFrame
  <2>2. proc[p].memory \in Seq(Values)
    BY <1>0 DEF Objects
  <2>3. HeapWriter(p)
    BY <1>1, <1>5 DEF HeapWriter, InUse
  <2>4. \A j \in DOMAIN proc'[p].memory :
          AllZeros(j, proc'[p].memory[j]) => file'.chunks[j] = Zeros
    BY <1>0, <2>1, <2>2, <2>3 DEF MemorySaved, AllZeros
  <2>5. MemorySaved'
    BY <1>1, <1>3, <2>4 DEF MemorySaved, HeapWriter, At
  <2> QED BY <1>0, <1>4, <2>5 DEF SavedInv
<1>6. CASE ~proc[p].heap
  <2>1. \A q \in Processes : ~HeapWriter(q)' /\ proc'[q].pc # "saving"
    BY <1>1, <1>3, <1>6 DEF HeapWriter, SameFlags
  <2> QED BY <1>0, <1>4, <2>1 DEF SavedInv, MemorySaved, At
<1> QED BY <1>5, <1>6

LEMMA SavedDestructor ==
    ASSUME SavedInv, SizeInv', NEW p \in Processes, Destructor(p) \/ Die(p)
    PROVE  SavedInv'
<1>0. /\ proc \in [Processes -> Objects] /\ file \in Files /\ TypeInv /\ SizeInv'
      /\ SizeInv /\ HeaderSeen /\ UsersHoldLock /\ WholeFile
      /\ CleanIsSaved /\ MemorySaved /\ proc[p] \in Objects
  BY ObjectFacts DEF SavedInv, SizeInv, LockInv
<1>1. ASSUME InUse(p), Release(p), saved' = file.chunks PROVE SavedInv'
  <2>1. /\ file'.header = file.header /\ file'.chunks = file.chunks
        /\ \A q \in Processes \ {p} : proc'[q] = proc[q]
        /\ proc'[p].pc = "closed"
    BY <1>0, <1>1 DEF Release, Files, Closed
  <2>2. \A q \in Processes \ {p} : ~HeapWriter(q) /\ proc[q].pc \notin {"loading", "saving"}
    BY <1>0, <1>1, Alone
  <2> QED BY <1>0, <1>1, <2>1, <2>2 DEF SavedInv, CleanIsSaved, MemorySaved, HeapWriter, At
<1>2. ASSUME CloseMapped(p) PROVE SavedInv'
  BY <1>1, <1>2 DEF CloseMapped, InUse, At
<1>3. ASSUME CloseReader(p) PROVE SavedInv'
  BY <1>0, <1>3 DEF CloseReader, Closed, SavedInv, CleanIsSaved, MemorySaved, HeapWriter, At
<1>4. ASSUME CloseHeap(p) PROVE SavedInv'
  <2>1. /\ \A q \in Processes \ {p} : proc'[q] = proc[q]
        /\ proc'[p].pc = "saving" /\ proc'[p].next = 1
        /\ proc'[p].memory = proc[p].memory
        /\ file' = file /\ saved' = saved /\ HeapWriter(p)
    BY <1>0, <1>4 DEF CloseHeap, Objects, HeapWriter, At
  <2>2. \A i \in DOMAIN proc[p].memory : ~(i < 1)
    <3>1. proc[p].memory \in Seq(Values)
      BY <1>0 DEF Objects
    <3> QED BY <3>1
  <2> QED BY <1>0, <2>1, <2>2 DEF SavedInv, CleanIsSaved, MemorySaved, HeapWriter, At
<1>5. ASSUME SaveChunk(p) PROVE SavedInv'
  <2> DEFINE i == proc[p].next
             m == proc[p].memory
  <2>1. /\ SameHeader /\ saved' = saved /\ proc[p].pc = "saving"
        /\ \A q \in Processes \ {p} : proc'[q] = proc[q]
        /\ SameFlags(p) /\ proc'[p].memory = m
        /\ i <= proc[p].size
    BY <1>0, <1>5, SaveFrame
  <2>2. InUse(p) /\ HeapWriter(p) /\ m \in Seq(Values) /\ Len(m) = Len(file.chunks)
        /\ file.chunks \in Seq(Values)
    BY <1>0, <2>1 DEF HeaderSeen, InUse, HeapWriter, At, Objects, WholeFile, Files
  <2>3. file.dirty /\ file'.dirty
    BY <1>0, <2>1, <2>2 DEF UsersHoldLock, SameHeader
  <2>4. \A q \in Processes \ {p} : ~HeapWriter(q) /\ proc[q].pc \notin {"loading", "saving"}
    BY <1>0, <2>2, Alone
  <2>5. proc'[p].pc \in {"saving", "failed"}
    BY <1>0, <1>5, SaveFrame
  <2>6. CleanIsSaved'
    BY <2>1, <2>3, <2>4, <2>5 DEF CleanIsSaved, At
  <2>7. CASE i > Len(m)
    <3>1. proc'[p].pc = "failed"
      BY <1>0, <1>5, <2>7, SaveFrame
    <3> QED BY <1>0, <2>1, <2>4, <2>6, <3>1 DEF SavedInv, MemorySaved, HeapWriter, At
  <2>8. CASE ~(i > Len(m))
    <3>1. /\ i \in 1 .. Len(m) /\ proc'[p].next = i + 1
          /\ file'.chunks = IF AllZeros(i, m[i]) THEN file.chunks
                            ELSE [file.chunks EXCEPT ![i] = m[i]]
      BY <1>0, <1>5, <2>8, SaveFrame
    <3>2. \A j \in DOMAIN m : AllZeros(j, m[j]) => file.chunks[j] = Zeros
      BY <1>0, <2>2 DEF MemorySaved
    <3>3. \A j \in DOMAIN m : j < i => file.chunks[j] = m[j]
      BY <1>0, <2>1 DEF MemorySaved, At
    <3> HIDE DEF i, m
    <3>4. \A j \in DOMAIN m : AllZeros(j, m[j]) => file'.chunks[j] = Zeros
      BY <2>2, <3>1, <3>2 DEF AllZeros
    <3>5. \A j \in DOMAIN m : j < i + 1 => file'.chunks[j] = m[j]
      BY <2>2, <3>1, <3>2, <3>3 DEF AllZeros
    <3>6. MemorySaved'
      BY <2>1, <2>4, <3>1, <3>4, <3>5 DEF MemorySaved, HeapWriter, At
    <3> QED BY <1>0, <2>6, <3>6 DEF SavedInv
  <2> QED BY <2>7, <2>8
<1>6. ASSUME SaveReturns(p) PROVE SavedInv'
  <2> DEFINE m == proc[p].memory
  <2>1. proc[p].pc = "saving" /\ Release(p) /\ saved' = m /\ proc[p].next > proc[p].size
    BY <1>6 DEF SaveReturns, At
  <2>2. /\ InUse(p) /\ m \in Seq(Values) /\ file.chunks \in Seq(Values)
        /\ Len(m) = Len(file.chunks) /\ proc[p].size = Len(m)
        /\ proc[p].next \in Nat
    BY <1>0, <2>1, MaxSizeAssumption
       DEF HeaderSeen, InUse, HeapWriter, At, Objects, WholeFile, Files
  <2>3. \A j \in DOMAIN m : j < proc[p].next => file.chunks[j] = m[j]
    BY <1>0, <2>1 DEF MemorySaved, At
  <2> HIDE DEF m
  <2>4. \A j \in 1 .. Len(m) : file.chunks[j] = m[j]
    BY <2>1, <2>2, <2>3
  <2>5. file.chunks = m
    BY <2>2, <2>4, SeqEqual
  <2> QED BY <1>1, <2>1, <2>2, <2>5
<1>7. ASSUME Die(p) PROVE SavedInv'
  BY <1>0, <1>7 DEF Die, Closed, SavedInv, CleanIsSaved, MemorySaved, HeapWriter, At
<1> QED BY <1>2, <1>3, <1>4, <1>5, <1>6, <1>7 DEF Destructor

LEMMA SavedStep ==
    ASSUME SerialOpens, TRUE \notin AllowDirty, Zeros \notin Written
    PROVE  SavedInv /\ [Next]_vars => SavedInv'
<1> SUFFICES ASSUME SavedInv, [Next]_vars PROVE SavedInv'
  OBVIOUS
<1>0. SizeInv'
  BY SizeStep DEF SavedInv
<1>1. CASE UNCHANGED vars
  BY <1>0, <1>1 DEF vars, SavedInv, CleanIsSaved, MemorySaved, HeapWriter, At
<1> QED BY <1>0, <1>1, SavedConstructor, SavedWrite, SavedDestructor DEF Next

LEMMA SavedInvariant ==
    ASSUME SerialOpens, TRUE \notin AllowDirty, Zeros \notin Written
    PROVE  Spec => []SavedInv
BY SavedInit, SavedStep, PTL DEF Spec

-----------------------------------------------------------------------------
(***************************************************************************)
(* The segment spans the file.                                             *)
(***************************************************************************)
LEMMA ExtentInit == Init => ExtentInv
BY SizeInit DEF Init, ExtentInv, SegmentSpans, HeapWriter, At, Closed, NoFile

LEMMA ExtentConstructor ==
    ASSUME SegmentSpans, SizeInv, SizeInv', NEW p \in Processes, Constructor(p)
    PROVE  SegmentSpans'
<1>0. /\ proc \in [Processes -> Objects] /\ file \in Files /\ TypeInv /\ SizeInv'
      /\ SizeInv /\ OneOpens /\ HeaderSeen /\ UsersHoldLock /\ CleanOpening /\ WholeFile
      /\ SegmentSpans /\ proc[p] \in Objects
  BY ObjectFacts DEF SizeInv, LockInv
<1>00. \A q \in Processes : proc[q].pc \in Opening /\ q # p => proc[p].pc \notin Opening
  BY <1>0 DEF OneOpens
<1>a. ASSUME proc[p].pc \in Opening, proc[p].pc \notin {"growing", "linking"}
      PROVE  NobodyGrows
  BY <1>00, <1>a DEF NobodyGrows, Opening
<1> USE <1>0 DEF SegmentSpans, NobodyGrows, HeapWriter, At, Goto, Opening
<1>1. ASSUME NEW writable \in BOOLEAN, NEW heap \in BOOLEAN, NEW allow_dirty \in AllowDirty,
             NEW size \in 1 .. MaxSize, Check(p, writable, allow_dirty, heap, size)
      PROVE  SegmentSpans'
  <2>1. /\ file' = file /\ proc[p].pc = "closed"
        /\ \A q \in Processes \ {p} : proc'[q] = proc[q]
        /\ proc'[p].pc \in {"checked", "refused"}
    BY <1>1 DEF Check, Closed
  <2> QED BY <2>1
<1>2. ASSUME Create(p) PROVE SegmentSpans'
  <2>1. /\ file'.header = "blank"
        /\ \A q \in Processes \ {p} : proc'[q] = proc[q]
        /\ proc'[p].pc = "creating"
        /\ file.header = "missing"
    BY <1>2 DEF Create, Objects
  <2>2. \A q \in Processes : proc[q].pc \notin Mapped
    BY <2>1, ObjectFacts
  <2> QED BY <2>1, <2>2 DEF Mapped
<1>3. ASSUME Format(p) PROVE SegmentSpans'
  <2>1. /\ file'.extent = proc[p].size
        /\ file'.chunks = [file.chunks EXCEPT ![1] = Segment]
        /\ \A q \in Processes \ {p} : proc'[q] = proc[q]
        /\ proc'[p].pc = "mapped" /\ proc[p].pc = "creating" /\ file.header = "blank"
    BY <1>3 DEF Format, Objects, Files, HeaderSeen
  <2>2. \A q \in Processes : ~HeapWriter(q) /\ proc[q].pc \notin {"growing", "linking"}
    BY <2>1 DEF UsersHoldLock, InUse, HeaderSeen
  <2>3. Len(file'.chunks) = Len(file.chunks) /\ proc[p].size = Len(file.chunks)
    BY <2>1 DEF Files, WholeFile
  <2> QED BY <2>1, <2>2, <2>3
<1>4. ASSUME Map(p) PROVE SegmentSpans'
  <2> DEFINE g == Len(file'.chunks) - Len(file.chunks)
  <2>1. /\ file'.extent = file.extent /\ file'.dirty = file.dirty
        /\ \A q \in Processes \ {p} : proc'[q] = proc[q]
        /\ proc'[p].pc = IF g = 0 THEN "mapped" ELSE "growing"
        /\ proc'[p].grow = g
        /\ proc[p].pc = "checked" /\ file.header # "missing"
    BY <1>4 DEF Map, Objects, Files
  <2>2. ~file.dirty /\ file.header = "valid"
    BY <2>1 DEF CleanOpening, HeaderSeen
  <2>3. file.extent = Len(file.chunks)
    BY <1>a, <2>1, <2>2
  <2>4. \A q \in Processes : ~HeapWriter(q)
    BY <2>2 DEF UsersHoldLock, InUse
  <2>5. Len(file.chunks) \in Nat \ {0} /\ Len(file'.chunks) \in Nat
    <3>1. file' \in Files
      BY DEF SizeInv, LockInv, TypeInv, TypeOK, Files
    <3>2. file.chunks \in Seq(Values) /\ file'.chunks \in Seq(Values)
      BY <3>1 DEF Files
    <3>3. Len(file.chunks) \in 1 .. MaxSize
      BY <2>1, ObjectFacts
    <3> QED BY <3>2, <3>3
  <2>6. file'.extent # 0 /\ file'.extent + g = Len(file'.chunks)
    BY <2>1, <2>3, <2>5
  <2>7. g = 0 => file'.extent = Len(file'.chunks)
    BY <2>1, <2>3, <2>5
  <2> HIDE DEF g
  <2> QED BY <1>a, <2>1, <2>4, <2>6, <2>7
<1>5. ASSUME Lock(p) PROVE SegmentSpans'
  <2>1. /\ \A q \in Processes \ {p} : proc'[q] = proc[q]
        /\ proc[p].pc = "mapped"
        /\ proc'[p].pc \in {"loading", "open", "refused"}
        /\ proc'[p].heap = proc[p].heap
        /\ proc[p].heap => proc'[p].pc # "open"
        /\ file'.chunks = file.chunks /\ file'.header = file.header
        /\ file'.extent = file.extent
    <3>1. PICK stage \in {"loading", "open", "refused"} : proc' = [proc EXCEPT ![p].pc = stage]
      BY <1>5 DEF Lock
    <3>2. proc[p].heap => stage # "open"
      BY <1>5, <3>1 DEF Lock, Objects
    <3>3. file' = file \/ file' = [file EXCEPT !.dirty = TRUE]
      BY <1>5 DEF Lock
    <3>4. proc[p].pc = "mapped"
      BY <1>5 DEF Lock
    <3>5. /\ file'.chunks = file.chunks /\ file'.header = file.header
          /\ file'.extent = file.extent
      BY <3>3 DEF Files
    <3> QED BY <3>1, <3>2, <3>4, <3>5 DEF Objects
  <2> QED BY <1>a, <2>1
<1>6. ASSUME Load(p) PROVE SegmentSpans'
  <2>1. /\ \A q \in Processes \ {p} : proc'[q] = proc[q]
        /\ proc'[p].pc = "open" /\ proc[p].pc = "loading"
        /\ proc'[p].extent = file.extent /\ file' = file
    BY <1>6 DEF Load, Objects
  <2>2. file.extent = Len(file.chunks)
    BY <1>a, <2>1 DEF HeaderSeen
  <2> QED BY <2>1, <2>2
<1>7. ASSUME LoadAborts(p) PROVE SegmentSpans'
  <2>1. /\ \A q \in Processes \ {p} : proc'[q] = proc[q]
        /\ proc'[p].pc = "refused" /\ proc[p].pc = "loading"
        /\ file'.chunks = file.chunks /\ file'.header = file.header
        /\ file'.extent = file.extent
    BY <1>7 DEF LoadAborts, Objects, Files
  <2> QED BY <2>1
<1>8. ASSUME Retry(p) PROVE SegmentSpans'
  BY <1>8 DEF Retry, Closed
<1>9. ASSUME Grow(p) PROVE SegmentSpans'
  <2>1. /\ \A q \in Processes \ {p} : proc'[q] = proc[q]
        /\ proc'[p].pc = "linking" /\ proc[p].pc = "growing"
        /\ proc'[p].extent = IF file.extent = 0 THEN 0 ELSE file.extent + proc[p].grow
        /\ file'.chunks = file.chunks
    BY <1>9 DEF Grow, Objects, Files
  <2>2. proc'[p].extent = Len(file.chunks)
    BY <2>1
  <2> QED BY <1>00, <2>1, <2>2
<1>10. ASSUME GrowReturns(p) PROVE SegmentSpans'
  <2>1. /\ \A q \in Processes \ {p} : proc'[q] = proc[q]
        /\ proc'[p].pc = "mapped" /\ proc[p].pc = "linking"
        /\ file'.extent = proc[p].extent
        /\ file'.chunks = file.chunks
    BY <1>10 DEF GrowReturns, Objects, Files
  <2> QED BY <1>00, <2>1
<1> QED
  BY <1>1, <1>2, <1>3, <1>4, <1>5, <1>6, <1>7, <1>8, <1>9, <1>10 DEF Constructor

LEMMA ExtentDestructor ==
    ASSUME SegmentSpans, SizeInv, SizeInv', ~halfgrown', NEW p \in Processes,
           Destructor(p) \/ Die(p) \/ \E i \in 1 .. MaxSize, v \in Written : Write(p, i, v)
    PROVE  SegmentSpans'
<1>0. /\ proc \in [Processes -> Objects] /\ file \in Files /\ TypeInv /\ SizeInv'
      /\ SizeInv /\ HeaderSeen /\ SegmentSpans /\ proc[p] \in Objects
  BY ObjectFacts DEF SizeInv, LockInv
<1> USE <1>0 DEF SegmentSpans, NobodyGrows, HeapWriter, At
<1>1. ASSUME NEW i \in 1 .. MaxSize, NEW v \in Written, Write(p, i, v) PROVE SegmentSpans'
  <2>1. /\ SameHeader /\ file'.extent = file.extent
        /\ \A q \in Processes : SameFlags(q) /\ proc'[q].pc = proc[q].pc
    BY <1>1, WriteFrame
  <2> QED BY <2>1 DEF SameFlags, SameHeader
<1>2. ASSUME Release(p), proc[p].pc \in {"open", "saving"} PROVE SegmentSpans'
  <2>1. /\ file'.header = file.header /\ file'.chunks = file.chunks
        /\ file'.extent = file.extent
        /\ proc' = [proc EXCEPT ![p] = Closed]
    BY <1>2 DEF Release, Files
  <2> QED BY <1>2, <2>1 DEF Closed
<1>3. ASSUME CloseReader(p) PROVE SegmentSpans'
  BY <1>3 DEF CloseReader, Closed
<1>4. ASSUME CloseHeap(p) PROVE SegmentSpans'
  <2>1. /\ \A q \in Processes \ {p} : proc'[q] = proc[q]
        /\ proc'[p].pc = "saving" /\ proc'[p].extent = proc[p].extent
        /\ file' = file /\ HeapWriter(p)
    BY <1>4 DEF CloseHeap, Objects
  <2> QED BY <2>1
<1>5. ASSUME SaveChunk(p) PROVE SegmentSpans'
  <2>1. /\ SameHeader /\ proc[p].pc = "saving"
        /\ \A q \in Processes : SameFlags(q)
        /\ \A q \in Processes \ {p} : proc'[q] = proc[q]
        /\ proc'[p].pc \in {"saving", "failed"}
        /\ file'.extent \in {file.extent, proc[p].extent}
    BY <1>5, SaveFrame
  <2>2. HeapWriter(p) /\ InUse(p)
    BY <2>1 DEF HeaderSeen, InUse
  <2>3. \A q \in Processes : proc[q].pc \notin {"growing", "linking"}
    BY <2>1, <2>2, Alone
  <2>4. file.header = "valid"
    BY <2>2 DEF SizeInv, LockInv, UsersHoldLock
  <2>5. file'.extent = Len(file.chunks)
    BY <2>1, <2>2, <2>3, <2>4
  <2> QED BY <2>1, <2>2, <2>3, <2>5 DEF SameFlags, SameHeader
<1>6. ASSUME Die(p) PROVE SegmentSpans'
  <2>1. /\ file' = file /\ proc' = [proc EXCEPT ![p] = Closed]
        /\ proc[p].pc \notin {"growing", "linking"}
    BY <1>6 DEF Die
  <2> QED BY <2>1 DEF Closed
<1> QED BY <1>1, <1>2, <1>3, <1>4, <1>5, <1>6 DEF Destructor, CloseMapped, SaveReturns

(* Once a process died growing the file, nothing is said of the segment. *)
LEMMA HalfgrownStays ==
    ASSUME Next, halfgrown
    PROVE  halfgrown'
<1>1. PICK p \in Processes :
        Constructor(p) \/ Destructor(p) \/ Die(p)
          \/ \E i \in 1 .. MaxSize, v \in Written : Write(p, i, v)
  BY DEF Next
<1>2. CASE Constructor(p)
  BY <1>2 DEF Constructor, Check, Create, Format, Map, Grow, GrowReturns, Lock, Load,
              LoadAborts, Retry
<1>3. CASE Destructor(p)
  BY <1>3 DEF Destructor, CloseMapped, CloseReader, CloseHeap, SaveChunk, SaveReturns
<1>4. CASE Die(p)
  BY <1>4 DEF Die
<1>5. CASE \E i \in 1 .. MaxSize, v \in Written : Write(p, i, v)
  BY <1>5 DEF Write
<1> QED BY <1>1, <1>2, <1>3, <1>4, <1>5

LEMMA ExtentInvariant ==
    ASSUME SerialOpens, TRUE \notin AllowDirty
    PROVE  Spec => []ExtentInv
<1>1. ExtentInv /\ [Next]_vars => ExtentInv'
  <2> SUFFICES ASSUME ExtentInv, [Next]_vars PROVE ExtentInv'
    OBVIOUS
  <2>1. SizeInv'
    BY SizeStep DEF ExtentInv
  <2>2. CASE UNCHANGED vars
    BY <2>1, <2>2 DEF vars, ExtentInv, SegmentSpans, NobodyGrows, HeapWriter, At
  <2>3. ASSUME Next, ~halfgrown' PROVE SegmentSpans'
    <3>1. SegmentSpans /\ SizeInv
      BY <2>3, HalfgrownStays DEF ExtentInv
    <3> QED BY <2>1, <2>3, <3>1, ExtentConstructor, ExtentDestructor DEF Next
  <2> QED BY <2>1, <2>2, <2>3 DEF ExtentInv
<1> QED BY <1>1, ExtentInit, PTL DEF Spec

-----------------------------------------------------------------------------
(***************************************************************************)
(* What a process finds when it opens the database.                        *)
(***************************************************************************)

(* Only the choice of the mapped mode and the end of the loading open a      *)
(* database.                                                                 *)
LEMMA OpeningStep ==
    ASSUME TypeInv, [Next]_vars, NEW p \in Processes, ~At(p, "open"), At(p, "open")'
    PROVE  \/ Lock(p) /\ ~proc[p].heap
           \/ Load(p)
<1>0. proc \in [Processes -> Objects] /\ proc[p] \in Objects
  BY ObjectFacts
<1>1. Next
  BY DEF vars, At
<1>2. PICK q \in Processes :
        Constructor(q) \/ Destructor(q) \/ Die(q)
          \/ \E i \in 1 .. MaxSize, v \in Written : Write(q, i, v)
  BY <1>1 DEF Next
<1> USE <1>0 DEF At, Goto
<1>3. ASSUME NEW i \in 1 .. MaxSize, NEW v \in Written, Write(q, i, v) PROVE FALSE
  BY <1>3, WriteFrame
<1>4. ASSUME Die(q) PROVE FALSE
  BY <1>4 DEF Die, Closed
<1>5. ASSUME Destructor(q) PROVE FALSE
  <2>1. ASSUME SaveChunk(q) PROVE FALSE
    BY <2>1, SaveFrame
  <2>2. CASE CloseMapped(q) \/ CloseReader(q) \/ SaveReturns(q)
    BY <2>2 DEF CloseMapped, CloseReader, SaveReturns, Release, Closed
  <2>3. CASE CloseHeap(q)
    BY <2>3 DEF CloseHeap, Objects
  <2> QED BY <1>5, <2>1, <2>2, <2>3 DEF Destructor
<1>6. ASSUME Constructor(q) PROVE q = p /\ (Load(p) \/ (Lock(p) /\ ~proc[p].heap))
  <2>1. ASSUME NEW writable \in BOOLEAN, NEW heap \in BOOLEAN,
               NEW allow_dirty \in AllowDirty, NEW size \in 1 .. MaxSize,
               Check(q, writable, allow_dirty, heap, size)
        PROVE  FALSE
    BY <2>1 DEF Check, Closed
  <2>2. CASE Create(q) \/ Format(q)
    BY <2>2 DEF Create, Format, Objects
  <2>3. CASE Map(q) \/ Grow(q) \/ GrowReturns(q)
    <3>1. /\ \A t \in Processes \ {q} : proc'[t] = proc[t]
          /\ proc'[q].pc # "open"
      <4>1. CASE Map(q)
        BY <4>1 DEF Map
      <4>2. CASE Grow(q)
        BY <4>2 DEF Grow
      <4>3. CASE GrowReturns(q)
        BY <4>3 DEF GrowReturns
      <4> QED BY <2>3, <4>1, <4>2, <4>3
    <3> QED BY <3>1
  <2>4. CASE LoadAborts(q) \/ Retry(q)
    BY <2>4 DEF LoadAborts, Retry, Closed, Objects
  <2>5. CASE Lock(q)
    BY <2>5 DEF Lock, Objects
  <2>6. CASE Load(q)
    <3> DEFINE r == [proc[q] EXCEPT !.pc = "open", !.memory = Region(q),
                                    !.extent = file.extent]
    <3>1. proc' = [proc EXCEPT ![q] = r]
      BY <2>6 DEF Load
    <3> HIDE DEF r
    <3>2. q # p => proc'[p] = proc[p]
      BY <3>1
    <3> QED BY <2>6, <3>2
  <2> QED BY <1>6, <2>1, <2>2, <2>3, <2>4, <2>5, <2>6 DEF Constructor
<1> QED BY <1>2, <1>3, <1>4, <1>5, <1>6

LEMMA OpensSaved ==
    ASSUME SavedInv, SavedInv', ~halfgrown => SegmentSpans, [Next]_vars, NEW p \in Processes,
           ~At(p, "open"), At(p, "open")'
    PROVE  Contents(p)' = saved /\ (~halfgrown => Extent(p)' = Len(saved))
<1>0. /\ proc \in [Processes -> Objects] /\ proc[p] \in Objects /\ file \in Files
      /\ TypeInv /\ TypeInv' /\ HeaderSeen /\ CleanOpening /\ WholeFile /\ CleanIsSaved
      /\ OneOpens /\ MaxSize \in Nat
  BY ObjectFacts, MaxSizeAssumption DEF SavedInv, SizeInv, LockInv
<1>e. ~halfgrown /\ proc[p].pc \in {"mapped", "loading"} => file.extent = Len(file.chunks)
  BY <1>0 DEF SegmentSpans, NobodyGrows, OneOpens, Opening, HeaderSeen
<1>1. ASSUME Lock(p), ~proc[p].heap 
      PROVE  Contents(p)' = saved /\ (~halfgrown => Extent(p)' = Len(saved))
  <2>0. /\ proc[p].pc = "mapped" /\ proc'[p].pc = "open"
        /\ (Goto(p, "open") \/ Goto(p, "refused"))
        /\ (file' = file \/ file' = [file EXCEPT !.dirty = TRUE])
    BY <1>1 DEF Lock, At
  <2>p. proc'[p].heap = proc[p].heap /\ proc'[p].size = proc[p].size
    BY <1>0, <2>0 DEF Objects, Goto
  <2>c. file'.chunks = file.chunks /\ file'.extent = file.extent
    BY <1>0, <2>0 DEF Files
  <2>h. proc[p].heap \in BOOLEAN
    BY <1>0 DEF Objects
  <2>1. /\ proc[p].pc = "mapped" /\ proc'[p].pc = "open"
        /\ proc'[p].heap = FALSE /\ proc'[p].size = proc[p].size
        /\ file'.chunks = file.chunks
    BY <1>1, <2>0, <2>p, <2>c, <2>h
  <2>2. file.chunks = saved /\ proc[p].size = Len(file.chunks)
    BY <1>0, <2>1 DEF HeaderSeen, CleanOpening, WholeFile, CleanIsSaved, At
  <2>3. Contents(p)' = SubSeq(file.chunks, 1, proc[p].size)
    BY <2>1 DEF Contents, Region
  <2>4. Region(p) = file.chunks
    BY <1>0, <2>1, <2>2, RegionSeq DEF Mapped
  <2>5. ~halfgrown => Extent(p)' = Len(saved)
    BY <1>e, <2>1, <2>2, <2>c DEF Extent
  <2> QED BY <2>2, <2>3, <2>4, <2>5 DEF Region
<1>2. ASSUME Load(p) 
      PROVE  Contents(p)' = saved /\ (~halfgrown => Extent(p)' = Len(saved))
  <2>1. /\ proc[p].pc = "loading" /\ proc'[p].memory = Region(p)
        /\ proc'[p].heap = proc[p].heap /\ proc'[p].size = proc[p].size /\ file' = file
        /\ proc'[p].extent = file.extent
    BY <1>0, <1>2 DEF Load, Objects, At
  <2>2. Region(p) = file.chunks
    BY <1>0, <2>1, RegionSeq DEF Mapped, WholeFile
  <2>3. file.chunks = saved
    BY <1>0, <2>1 DEF CleanIsSaved, At
  <2>4. ~halfgrown => Extent(p)' = Len(saved)
    BY <1>e, <2>1, <2>3 DEF Extent
  <2> QED BY <2>1, <2>2, <2>3, <2>4 DEF Contents, Region
<1> QED BY <1>0, <1>1, <1>2, OpeningStep

(* Whoever opens the database finds what the last destructor saved, for      *)
(* every number of processes, wherever others died.  Three disciplines that  *)
(* the code leaves to its users are needed: opens do not overlap, nobody     *)
(* passes allow_dirty, and no chunk is overwritten with zeros, which the     *)
(* destructor of heap mode would not write back.  The segment spans the file *)
(* as long as nobody ever died between resize_file and the end of            *)
(* segment_manager->grow, which precede the dirty flag.                      *)
THEOREM OpensCorrect ==
    ASSUME SerialOpens, TRUE \notin AllowDirty, Zeros \notin Written
    PROVE  Spec => OpensWhatWasSaved
<1> DEFINE Opens == \A p \in Processes :
             ~At(p, "open") /\ At(p, "open")' /\ ~proc[p].allow_dirty
               => /\ Contents(p)' = saved
                  /\ ~halfgrown => Extent(p)' = Len(saved)
<1>1. SavedInv /\ SavedInv' /\ ExtentInv /\ [Next]_vars => [Opens]_vars
  BY OpensSaved DEF ExtentInv
<1>2. Spec => []SavedInv
  BY SavedInvariant
<1>3. Spec => []ExtentInv
  BY ExtentInvariant
<1> QED BY <1>1, <1>2, <1>3, PTL DEF Spec, OpensWhatWasSaved
=============================================================================
