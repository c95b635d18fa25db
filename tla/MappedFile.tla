----------------------------- MODULE MappedFile -----------------------------
(***************************************************************************)
(* chainbase::pinnable_mapped_file: several processes open, use and close  *)
(* one database file, in mapped mode (the file's pages are the database) or *)
(* heap mode (the file is loaded into anonymous memory and written back by  *)
(* the destructor; locked mode is heap mode with mlock).  A dirty flag in   *)
(* the header and a file lock are all that keeps them apart.                *)
(*                                                                         *)
(* A process may die between any two steps: the kernel keeps the pages it  *)
(* wrote and drops its lock.  Loss of the page cache (power failure) is    *)
(* outside what chainbase promises and is not modelled.                    *)
(*                                                                         *)
(* The file is a sequence of chunks of _db_size_multiple_requirement bytes. *)
(* The contents of a chunk are one value.  Two things that lie in the first *)
(* chunk are kept apart: the header, and the extent of the segment, that is *)
(* how many chunks the segment manager says it manages.                     *)
(***************************************************************************)
EXTENDS Integers, Sequences

CONSTANTS
    Processes,
    Zeros,         \* a chunk of zero bytes
    Segment,       \* the first chunk of a freshly constructed segment_manager
    Written,       \* what a process may write to a chunk
    MaxSize,       \* bound of the exploration: chunks in the file
    AllowDirty,    \* the values of allow_dirty the processes pass
    SerialOpens    \* TRUE: "care is taken to use interprocess locking": no
                   \* process opens the database while another is opening it

ASSUME ValuesAssumption == Zeros # Segment
ASSUME MaxSizeAssumption == MaxSize \in Nat \ {0}
ASSUME AllowDirtyAssumption == AllowDirty \subseteq BOOLEAN
ASSUME SerialOpensAssumption == SerialOpens \in BOOLEAN

VARIABLES
    file,          \* shared_memory.bin as the page cache holds it
    lock,          \* the process that holds _mapped_file_lock, or nobody
    proc,          \* the pinnable_mapped_file object of each process: `size' is
                   \* shared_file_size, then the size of _file_mapped_region,
                   \* `extent' the one it computes or has in its memory
    saved,         \* history variable: the contents the last destructor that
                   \* reported success was to write
    halfgrown      \* history variable: a process died growing the file

vars == <<file, lock, proc, saved, halfgrown>>

Values == {Zeros, Segment} \cup Written

Nobody == "nobody"

ASSUME ProcessesAssumption == Nobody \notin Processes

(* header: "missing" (no file), "blank" (no header yet) or "valid". *)
(* extent: 0 while the segment manager is not built, or half changed. *)
NoFile == [header |-> "missing", dirty |-> FALSE, extent |-> 0, chunks |-> <<>>]

Closed ==
    [pc |-> "closed", writable |-> FALSE, allow_dirty |-> FALSE,
     heap |-> FALSE, size |-> 1, grow |-> 0, extent |-> 0, memory |-> <<>>, next |-> 1]

Stages == {"closed", "refused", "checked", "creating", "growing", "linking",
           "mapped", "loading", "open", "saving", "failed"}

(* The types of the state. *)
TypeOK ==
    /\ file \in [header : {"missing", "blank", "valid"}, dirty : BOOLEAN,
                 extent : Nat, chunks : Seq(Values)]
    /\ lock \in Processes \cup {Nobody}
    /\ proc \in [Processes ->
         [pc : Stages, writable : BOOLEAN, allow_dirty : BOOLEAN, heap : BOOLEAN,
          size : 1 .. MaxSize, grow : 0 .. MaxSize, extent : Nat,
          memory : Seq(Values), next : 1 .. MaxSize + 1]]
    /\ halfgrown \in BOOLEAN

Init ==
    /\ file = NoFile
    /\ lock = Nobody
    /\ proc = [p \in Processes |-> Closed]
    /\ saved = <<>>
    /\ halfgrown = FALSE

(* Where the constructor of p's object is. *)
Opening == {"checked", "creating", "growing", "linking", "mapped", "loading"}

At(p, stage) == proc[p].pc = stage

Goto(p, stage) == proc' = [proc EXCEPT ![p].pc = stage]

Zeroed(n) == [i \in 1 .. n |-> Zeros]

(* Mutant: the file grows by the requested size, not to it. *)
GrownBy(chunks, n) == chunks \o Zeroed(n)

(* resize_file extends a file with zeros and never shrinks it here. *)
Grown(chunks, n) ==
    IF n > Len(chunks) THEN chunks \o Zeroed(n - Len(chunks)) ELSE chunks

-----------------------------------------------------------------------------
(***************************************************************************)
(* The constructor.  A refusal throws; the destructor does not run then.   *)
(***************************************************************************)

(* Mutant: header_id is not compared. *)
AcceptableBlank(writable, allow_dirty) ==
    \/ file.header = "missing" /\ writable
    \/ file.header # "missing" /\ (allow_dirty \/ ~file.dirty)

(* Mutant: the dirty flag is not looked at. *)
AcceptableDirty(writable, allow_dirty) ==
    \/ file.header = "missing" /\ writable
    \/ file.header = "valid"

(* The header is read and judged before anything is mapped or locked. *)
Acceptable(writable, allow_dirty) ==
    \/ file.header = "missing" /\ writable
    \/ file.header = "valid" /\ (allow_dirty \/ ~file.dirty)

Check(p, writable, allow_dirty, heap, size) ==
    /\ At(p, "closed")
    /\ SerialOpens => \A q \in Processes : proc[q].pc \notin Opening
    /\ proc' = [proc EXCEPT ![p] =
                  [Closed EXCEPT
                     !.pc = IF Acceptable(writable, allow_dirty)
                            THEN "checked" ELSE "refused",
                     !.writable = writable, !.allow_dirty = allow_dirty,
                     !.heap = heap, !.size = size]]
    /\ UNCHANGED <<file, lock, saved, halfgrown>>

(* ofstream with trunc, then resize_file. *)
Create(p) ==
    /\ At(p, "checked")
    /\ file.header = "missing"
    /\ file' = [header |-> "blank", dirty |-> FALSE, extent |-> 0,
                chunks |-> Zeroed(proc[p].size)]
    /\ Goto(p, "creating")
    /\ UNCHANGED <<lock, saved, halfgrown>>

(* The segment manager is constructed, then the header. *)
Format(p) ==
    /\ At(p, "creating")
    /\ file' = [file EXCEPT !.header = "valid", !.dirty = FALSE,
                           !.extent = proc[p].size, !.chunks[1] = Segment]
    /\ saved' = file'.chunks
    /\ Goto(p, "mapped")
    /\ UNCHANGED <<lock, halfgrown>>

(* A writer extends an existing file to the size it asks for (resize_file);   *)
(* then the file is mapped.                                                    *)
Map(p) ==
    LET chunks == IF proc[p].writable THEN Grown(file.chunks, proc[p].size) ELSE file.chunks
        grow == Len(chunks) - Len(file.chunks)
    IN  /\ At(p, "checked")
        /\ file.header # "missing"
        /\ file' = [file EXCEPT !.chunks = chunks]
        /\ saved' = IF proc[p].writable /\ ~file.dirty
                    THEN Grown(saved, proc[p].size) ELSE saved
        /\ proc' = [proc EXCEPT ![p].pc = IF grow = 0 THEN "mapped" ELSE "growing",
                                ![p].size = Len(chunks), ![p].grow = grow]
        /\ UNCHANGED <<lock, halfgrown>>

(* segment_manager->grow writes the size and the free blocks of the segment,   *)
(* before anything says that the file is in use: from its first write to its   *)
(* last the segment is torn.                                                   *)
Grow(p) ==
    /\ At(p, "growing")
    /\ proc' = [proc EXCEPT ![p].pc = "linking",
                            ![p].extent = IF file.extent = 0 THEN 0
                                          ELSE file.extent + proc[p].grow]
    /\ file' = [file EXCEPT !.extent = 0]
    /\ UNCHANGED <<lock, saved, halfgrown>>

(* Mutant: the segment manager is not told of the growth. *)
GrowReturnsUngrown(p) ==
    /\ At(p, "linking")
    /\ file' = [file EXCEPT !.extent = proc[p].extent - proc[p].grow]
    /\ Goto(p, "mapped")
    /\ UNCHANGED <<lock, saved, halfgrown>>

GrowReturns(p) ==
    /\ At(p, "linking")
    /\ file' = [file EXCEPT !.extent = proc[p].extent]
    /\ Goto(p, "mapped")
    /\ UNCHANGED <<lock, saved, halfgrown>>

(* try_lock, set_mapped_file_db_dirty(true), and the choice of the mode. *)
Lock(p) ==
    /\ At(p, "mapped")
    /\ IF ~proc[p].writable
       THEN /\ Goto(p, IF proc[p].heap THEN "loading" ELSE "open")
            /\ UNCHANGED <<file, lock>>
       ELSE IF lock # Nobody
       THEN Goto(p, "refused") /\ UNCHANGED <<file, lock>>
       ELSE /\ lock' = p
            /\ file' = [file EXCEPT !.dirty = TRUE]
            /\ Goto(p, IF proc[p].heap THEN "loading" ELSE "open")
    /\ UNCHANGED <<saved, halfgrown>>

(* The part of the file that _file_mapped_region maps. *)
Region(p) == SubSeq(file.chunks, 1, proc[p].size)

Load(p) ==
    /\ At(p, "loading")
    /\ proc' = [proc EXCEPT ![p].pc = "open", ![p].memory = Region(p),
                            ![p].extent = file.extent]
    /\ UNCHANGED <<file, lock, saved, halfgrown>>

(* A signal, a failed allocation or a failed mlock ends the loading. *)
LoadAborts(p) ==
    /\ At(p, "loading")
    /\ Goto(p, "refused")
    /\ file' = IF proc[p].writable THEN [file EXCEPT !.dirty = FALSE] ELSE file
    /\ lock' = IF lock = p THEN Nobody ELSE lock
    /\ UNCHANGED <<saved, halfgrown>>

(* The caller handles the exception and may try again. *)
Retry(p) ==
    /\ At(p, "refused")
    /\ proc' = [proc EXCEPT ![p] = Closed]
    /\ UNCHANGED <<file, lock, saved, halfgrown>>

-----------------------------------------------------------------------------
(***************************************************************************)
(* Use and destruction.                                                    *)
(***************************************************************************)
Contents(p) == IF proc[p].heap THEN proc[p].memory ELSE Region(p)

Extent(p) == IF proc[p].heap THEN proc[p].extent ELSE file.extent

Write(p, i, v) ==
    /\ At(p, "open")
    /\ proc[p].writable
    /\ i \in DOMAIN Contents(p)
    /\ IF proc[p].heap
       THEN proc' = [proc EXCEPT ![p].memory[i] = v] /\ UNCHANGED file
       ELSE file' = [file EXCEPT !.chunks[i] = v] /\ UNCHANGED proc
    /\ UNCHANGED <<lock, saved, halfgrown>>

(* set_mapped_file_db_dirty(false); the members' destructors drop the lock. *)
Release(p) ==
    /\ file' = [file EXCEPT !.dirty = FALSE]
    /\ lock' = IF lock = p THEN Nobody ELSE lock
    /\ proc' = [proc EXCEPT ![p] = Closed]

CloseMapped(p) ==
    /\ At(p, "open")
    /\ proc[p].writable /\ ~proc[p].heap
    /\ Release(p)
    /\ saved' = file.chunks
    /\ UNCHANGED halfgrown

CloseReader(p) ==
    /\ At(p, "open")
    /\ ~proc[p].writable
    /\ proc' = [proc EXCEPT ![p] = Closed]
    /\ UNCHANGED <<file, lock, saved, halfgrown>>

(* Mutant: the dirty flag is cleared before the memory is saved. *)
CloseHeapCleansFirst(p) ==
    /\ At(p, "open")
    /\ proc[p].writable /\ proc[p].heap
    /\ proc' = [proc EXCEPT ![p].pc = "saving", ![p].next = 1,
                            ![p].size = Len(file.chunks)]
    /\ file' = [file EXCEPT !.dirty = FALSE]
    /\ UNCHANGED <<lock, saved, halfgrown>>

(* The destructor maps the file anew, as long as it is by now. *)
CloseHeap(p) ==
    /\ At(p, "open")
    /\ proc[p].writable /\ proc[p].heap
    /\ proc' = [proc EXCEPT ![p].pc = "saving", ![p].next = 1,
                            ![p].size = Len(file.chunks)]
    /\ UNCHANGED <<file, lock, saved, halfgrown>>

(* A chunk of zeros is not written.  The first chunk holds the header, whose *)
(* id is never zero.                                                         *)
AllZeros(i, v) == i # 1 /\ v = Zeros

(* One iteration of save_database_file; past the memory it reads at random. *)
SaveChunk(p) ==
    LET i == proc[p].next
        memory == proc[p].memory
    IN  /\ At(p, "saving")
        /\ i <= proc[p].size
        /\ IF i > Len(memory)
           THEN Goto(p, "failed") /\ UNCHANGED file
           ELSE /\ proc' = [proc EXCEPT ![p].next = i + 1]
                /\ file' = IF AllZeros(i, memory[i]) THEN file
                           ELSE [file EXCEPT !.chunks[i] = memory[i],
                                             !.extent = IF i = 1 THEN proc[p].extent ELSE @]
        /\ UNCHANGED <<lock, saved, halfgrown>>

SaveReturns(p) ==
    /\ At(p, "saving")
    /\ proc[p].next > proc[p].size
    /\ Release(p)
    /\ saved' = proc[p].memory
    /\ UNCHANGED halfgrown

(* The process ends wherever it is. *)
Die(p) ==
    /\ ~At(p, "closed")
    /\ halfgrown' = (halfgrown \/ proc[p].pc \in {"growing", "linking"})
    /\ proc' = [proc EXCEPT ![p] = Closed]
    /\ lock' = IF lock = p THEN Nobody ELSE lock
    /\ UNCHANGED <<file, saved>>

-----------------------------------------------------------------------------
Constructor(p) ==
    \/ \E writable, heap \in BOOLEAN, allow_dirty \in AllowDirty, size \in 1 .. MaxSize :
         Check(p, writable, allow_dirty, heap, size)
    \/ Create(p) \/ Format(p) \/ Map(p) \/ Grow(p) \/ GrowReturns(p)
    \/ Lock(p) \/ Load(p) \/ LoadAborts(p) \/ Retry(p)

Destructor(p) ==
    CloseMapped(p) \/ CloseReader(p) \/ CloseHeap(p) \/ SaveChunk(p) \/ SaveReturns(p)

Next ==
    \E p \in Processes :
      \/ Constructor(p)
      \/ \E i \in 1 .. MaxSize, v \in Written : Write(p, i, v)
      \/ Destructor(p)
      \/ Die(p)

Spec == Init /\ [][Next]_vars

-----------------------------------------------------------------------------
(***************************************************************************)
(* Properties.                                                             *)
(***************************************************************************)

(* Whoever opens a database without allow_dirty finds the contents that the   *)
(* last process that closed it had in memory, and never what a process left    *)
(* behind that died while using, saving or creating it.  The segment spans the *)
(* whole file too, unless a process ever died between resize_file and the end  *)
(* of grow: neither lock nor dirty flag covers that window, and nothing        *)
(* repairs the segment later.                                                  *)
OpensWhatWasSaved ==
    [][\A p \in Processes :
         ~At(p, "open") /\ At(p, "open")' /\ ~proc[p].allow_dirty
           => /\ Contents(p)' = saved
              /\ ~halfgrown => Extent(p)' = Len(saved)]_vars

(* The dirty flag is set, and the lock held, while a writer has the database  *)
(* open or saves it, so that its death then does not go unnoticed.            *)
DirtyWhileInUse ==
    \A p \in Processes :
      proc[p].writable /\ proc[p].pc \in {"open", "saving"}
        => file.dirty /\ lock = p

(* save_database_file runs over the whole file, whoever grew it meanwhile,    *)
(* and never past the end of the memory it saves.                             *)
SaveWithinMemory ==
    \A p \in Processes :
      At(p, "saving") => proc[p].size = Len(proc[p].memory)
=============================================================================
