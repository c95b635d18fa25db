------------------------------ MODULE Database ------------------------------
(***************************************************************************)
(* chainbase::database and database::session: several indices in one       *)
(* memory-mapped segment, whose undo stacks are moved in step by loops over *)
(* the indices, and session objects that close the newest session of every *)
(* index they were started on.                                             *)
(*                                                                         *)
(* An index is the VersionedStore it implements (theorem                   *)
(* IndexImplementsStore of GenericIndexProofs): a table, the tables before *)
(* its open sessions, and a revision.  The whole contents of a table are   *)
(* one value.  The process may crash between any two iterations of a loop; *)
(* the segment is a mapped file, keeps what was written to it, and has a   *)
(* dirty flag (see MappedFile).                                            *)
(***************************************************************************)
EXTENDS Integers, Sequences, SequencesExt

CONSTANTS
    Types,        \* the index types (type_id) of the application
    Tables,       \* contents of an index
    EmptyTable,   \* the contents of a new index
    NoIndex,      \* the segment holds no index of this type
    MaxRevision,  \* bound of the exploration: revisions
    MaxHandles,   \* bound of the exploration: session objects
    LateAdd       \* TRUE: add_index is also called once operations have begun

ASSUME TypesAssumption == Types # {}
ASSUME EmptyTableAssumption == EmptyTable \in Tables
ASSUME BoundsAssumption == MaxRevision \in Nat /\ MaxHandles \in Nat
ASSUME LateAddAssumption == LateAdd \in BOOLEAN

VARIABLES
    segment,      \* the indices in the mapped file, by type
    process,      \* "down", "opening", "running" or "reading" (read only)
    index_list,   \* _index_list, the types added by this process
    handles,      \* the session objects of this process, oldest first
    call,         \* the loop over the indices in progress
    dirty,        \* the dirty flag in the header of the file
    interrupted,  \* history variable: the loop the last crash cut short
    intact,       \* history variable: FALSE once the file was opened in spite
                  \* of its dirty flag, used without some of its indices, or
                  \* left with an index that add_index could not finish, until
                  \* add_index accepts all of them
    whole,        \* history variable: FALSE once the database was used
                  \* without some of its indices, or torn
    torn          \* history variable: TRUE once undo, squash or undo_all ran
                  \* out of memory in one of the indices

vars ==
    <<segment, process, index_list, handles, call, dirty, interrupted, intact, whole, torn>>

-----------------------------------------------------------------------------
(***************************************************************************)
(* What each loop does to one index: GenericIndex, seen as a               *)
(* VersionedStore.                                                         *)
(***************************************************************************)
FreshIndex == [table |-> EmptyTable, history |-> <<>>, revision |-> 0]

StartOne(x) ==
    [x EXCEPT !.history = Append(@, x.table), !.revision = @ + 1]

(* Mutant: an empty undo stack is not noticed. *)
SquashOneUnguarded(x) ==
    [x EXCEPT !.history = Front(@), !.revision = @ - 1]

SquashOne(x) ==
    IF x.history = <<>> THEN x
    ELSE [x EXCEPT !.history = Front(@), !.revision = @ - 1]

(* Mutant: the front of the stack is undone, not the back. *)
UndoOneFront(x) ==
    IF x.history = <<>> THEN x
    ELSE [SquashOne(x) EXCEPT !.table = x.history[1]]

UndoOne(x) ==
    IF x.history = <<>> THEN x
    ELSE [SquashOne(x) EXCEPT !.table = Last(x.history)]

UndoAllOne(x) ==
    IF x.history = <<>> THEN x
    ELSE [table |-> x.history[1], history |-> <<>>,
          revision |-> x.revision - Len(x.history)]

(* undo_stack_revision_range *)
RangeBegin(x) == x.revision - Len(x.history)

(* Session i of the stack has revision RangeBegin + i. *)
CommitOne(x, r) ==
    IF r <= RangeBegin(x) THEN x
    ELSE [x EXCEPT !.history = SubSeq(@, r - RangeBegin(x) + 1, Len(@))]

SetRevisionOne(x, r) == [x EXCEPT !.revision = r]

Apply(op, r, x) ==
    CASE op = "start" -> StartOne(x)
      [] op \in {"undo", "rollback"} -> UndoOne(x)
      [] op = "squash" -> SquashOne(x)
      [] op = "commit" -> CommitOne(x, r)
      [] op = "undo_all" -> UndoAllOne(x)
      [] op = "set_revision" -> SetRevisionOne(x, r)

(* Mutant: only the ends of the ranges are compared. *)
SameEnd(x, y) == x.revision = y.revision

SameRange(x, y) == RangeBegin(x) = RangeBegin(y) /\ x.revision = y.revision

-----------------------------------------------------------------------------
Revisions == 0 .. MaxRevision

Indices == [table : Tables, history : Seq(Tables), revision : Revisions]

ASSUME NoIndexAssumption == NoIndex \notin Indices

Snapshots == [Types -> Tables \cup {NoIndex}]

(* A session object: the indices it holds a session of.  `saved' is history: *)
(* the tables when it was started, until something other than the objects    *)
(* nested in it moves the undo stacks (then `mine' is FALSE).                *)
Handles == [subs : Seq(Types), saved : Snapshots, mine : BOOLEAN]

(* A loop over indices: the ones still to do, the ones done, and the handle   *)
(* whose method runs it (0 for a method of database).                         *)
Loops == [op : {"none", "add", "start", "rollback", "undo", "squash", "commit",
                "undo_all", "set_revision"},
          arg : Revisions, todo : Seq(Types), done : Seq(Types),
          handle : 0 .. MaxHandles]

NoCall == [op |-> "none", arg |-> 0, todo |-> <<>>, done |-> <<>>, handle |-> 0]

NoLoop == [op |-> "none", arg |-> 0, over |-> {}, before |-> <<>>]

(* The types of the state. *)
TypeOK ==
    /\ segment \in [Types -> Indices \cup {NoIndex}]
    /\ process \in {"down", "opening", "running", "reading"}
    /\ index_list \in Seq(Types)
    /\ handles \in Seq(Handles)
    /\ call \in Loops
    /\ dirty \in BOOLEAN /\ intact \in BOOLEAN
    /\ whole \in BOOLEAN /\ torn \in BOOLEAN

Init ==
    /\ segment = [t \in Types |-> NoIndex]
    /\ process = "down"
    /\ index_list = <<>>
    /\ handles = <<>>
    /\ call = NoCall
    /\ dirty = FALSE
    /\ interrupted = NoLoop
    /\ intact = TRUE
    /\ whole = TRUE
    /\ torn = FALSE

(* The process is alive, may write, and is in no loop. *)
Ready == process \in {"opening", "running"} /\ call = NoCall

Added == ToSet(index_list)

-----------------------------------------------------------------------------
(***************************************************************************)
(* Life of the process.                                                    *)
(***************************************************************************)
(* Mutant: a writer leaves the flag as it is. *)
OpenUnmarked(how, allow_dirty) ==
    /\ process = "down"
    /\ ~dirty \/ allow_dirty
    /\ process' = how
    /\ intact' = (intact /\ ~dirty)
    /\ UNCHANGED <<segment, index_list, handles, call, dirty, interrupted, whole, torn>>

Open(how, allow_dirty) ==
    /\ process = "down"
    /\ ~dirty \/ allow_dirty
    /\ process' = how
    /\ dirty' = (dirty \/ how = "opening")
    /\ intact' = (intact /\ ~dirty)
    /\ UNCHANGED <<segment, index_list, handles, call, interrupted, whole, torn>>

Ended ==
    /\ process # "down"
    /\ process' = "down"
    /\ index_list' = <<>>
    /\ handles' = <<>>
    /\ call' = NoCall
    /\ UNCHANGED <<segment, interrupted, intact, whole, torn>>

(* ~database, once the session objects are gone; the flag is cleared even if *)
(* it was set before.                                                        *)
Close ==
    /\ Ended
    /\ call = NoCall
    /\ handles = <<>>
    /\ dirty' = (dirty /\ process = "reading")

(* The process ends, wherever it happens to be. *)
Crash == Ended /\ UNCHANGED dirty

(***************************************************************************)
(* add_index.  It throws for a type already added, for a missing index of  *)
(* a read-only database and for an existing index with another revision    *)
(* range than the first one of the list.                                   *)
(***************************************************************************)
Consistent(x) == index_list # <<>> => SameRange(x, segment[index_list[1]])

MayAdd(t) ==
    /\ call = NoCall
    /\ t \notin Added
    /\ process \in {"opening", "reading"} \/ (LateAdd /\ process = "running")

Accept(t) ==
    /\ index_list' = Append(index_list, t)
    /\ intact' = (intact \/ (~torn /\ Added \cup {t} = Types))

AddExisting(t) ==
    /\ MayAdd(t)
    /\ segment[t] # NoIndex
    /\ Consistent(segment[t])
    /\ Accept(t)
    /\ UNCHANGED <<segment, process, handles, call, dirty, interrupted, whole, torn>>

(* The new index is in the segment before its revisions are brought in line. *)
AddNew(t) ==
    /\ MayAdd(t)
    /\ process # "reading"
    /\ segment[t] = NoIndex
    /\ segment' = [segment EXCEPT ![t] = FreshIndex]
    /\ call' = [NoCall EXCEPT !.op = "add", !.todo = <<t>>]
    /\ UNCHANGED <<process, index_list, handles, dirty, interrupted, intact, whole, torn>>

(* set_revision, then start_undo_session(true).push() until the range fits. *)
AddStep ==
    LET t == call.todo[1]
        x == segment[t]
        begin == RangeBegin(segment[index_list[1]])
    IN  /\ call.op = "add"
        /\ IF Consistent(x)
           THEN /\ Accept(t)
                /\ call' = NoCall
                /\ UNCHANGED segment
           ELSE /\ segment' = [segment EXCEPT ![t] =
                      IF RangeBegin(x) # begin THEN SetRevisionOne(x, begin)
                      ELSE StartOne(x)]
                /\ UNCHANGED <<index_list, call, intact>>
        /\ UNCHANGED <<process, handles, dirty, interrupted, whole, torn>>

(* A session of the catch-up loop cannot be allocated: the index stays as it *)
(* is, and is not in the list.                                               *)
AddThrows ==
    /\ call.op = "add"
    /\ ~Consistent(segment[call.todo[1]])
    /\ call' = NoCall
    /\ intact' = FALSE
    /\ UNCHANGED <<segment, process, index_list, handles, dirty, interrupted, whole, torn>>

(***************************************************************************)
(* create, modify and remove change one index.                             *)
(***************************************************************************)
Write(t, v) ==
    /\ Ready
    /\ t \in Added
    /\ v # segment[t].table
    /\ segment' = [segment EXCEPT ![t].table = v]
    /\ process' = "running"
    /\ interrupted' = NoLoop
    /\ intact' = (intact /\ Added = Types)
    /\ whole' = (whole /\ Added = Types)
    /\ UNCHANGED <<index_list, handles, call, dirty, torn>>

(***************************************************************************)
(* Loops over the indices.                                                 *)
(***************************************************************************)
Begin(op, r, subs, h) ==
    /\ Ready
    /\ subs # <<>>
    /\ process' = "running"
    /\ call' = [op |-> op, arg |-> r, todo |-> subs, done |-> <<>>, handle |-> h]
    /\ interrupted' =
         [op |-> op, arg |-> r, over |-> ToSet(subs), before |-> segment]
    /\ intact' = (intact /\ Added = Types)
    /\ whole' = (whole /\ Added = Types)
    /\ UNCHANGED <<segment, index_list, dirty, torn>>

Disturbed(hs) == [i \in DOMAIN hs |-> [hs[i] EXCEPT !.mine = FALSE]]

(* database::undo, squash, commit, undo_all and set_revision. *)
DatabaseCall(op, r) ==
    /\ Begin(op, r, index_list, 0)
    /\ handles' = Disturbed(handles)

start_undo_session ==
    /\ Begin("start", 0, index_list, 0)
    /\ Len(handles) < MaxHandles
    /\ \A t \in Added : segment[t].revision < MaxRevision
    /\ UNCHANGED handles

(* session::undo (which the destructor also runs) and session::squash. *)
HandleCall(op, h) ==
    /\ Begin(op, 0, handles[h].subs, h)
    /\ handles' = IF h = Len(handles) THEN handles ELSE Disturbed(handles)

(* session::push only forgets the sessions: they stay on the stacks. *)
Push(h) ==
    /\ Ready
    /\ handles' = [i \in 1 .. Len(handles) - 1 |->
                     IF i < h THEN [handles[i] EXCEPT !.mine = FALSE]
                     ELSE handles[i + 1]]
    /\ UNCHANGED <<segment, process, index_list, call, dirty, interrupted, intact, whole, torn>>

(* One iteration.  set_revision throws at an index with an undo stack. *)
LoopStep ==
    LET t == call.todo[1]
    IN  /\ call.op \notin {"none", "add"}
        /\ call.todo # <<>>
        /\ ~(call.op = "set_revision" /\ segment[t].history # <<>>)
        /\ segment' = [segment EXCEPT ![t] = Apply(call.op, call.arg, @)]
        /\ call' = [call EXCEPT !.todo = Tail(@), !.done = Append(@, t)]
        /\ UNCHANGED <<process, index_list, handles, dirty, interrupted, intact, whole, torn>>

SetRevisionThrows ==
    /\ call.op = "set_revision"
    /\ call.todo # <<>>
    /\ segment[call.todo[1]].history # <<>>
    /\ call' = NoCall
    /\ interrupted' = NoLoop
    /\ UNCHANGED <<segment, process, index_list, handles, dirty, intact, whole, torn>>

(* Mutant: the sessions started so far are leaked. *)
StartThrowsLeaks ==
    /\ call.op = "start"
    /\ call.todo # <<>>
    /\ call' = NoCall
    /\ interrupted' = NoLoop
    /\ UNCHANGED <<segment, process, index_list, handles, dirty, intact, whole, torn>>

(* A session of one more index cannot be allocated: the destructors of the  *)
(* sessions started so far undo them.                                       *)
StartThrows ==
    /\ call.op = "start"
    /\ call.todo # <<>>
    /\ call' = [call EXCEPT !.op = "rollback", !.todo = call.done, !.done = <<>>]
    /\ UNCHANGED <<segment, process, index_list, handles, dirty, interrupted, intact, whole, torn>>

LoopReturns ==
    /\ call.op \notin {"none", "add"}
    /\ call.todo = <<>>
    /\ call' = NoCall
    /\ interrupted' = NoLoop
    /\ handles' =
         IF call.op = "start"
         THEN Append(handles,
                     [subs |-> call.done, mine |-> TRUE,
                      saved |-> [t \in Types |-> IF t \in ToSet(call.done)
                                                 THEN segment[t].table
                                                 ELSE NoIndex]])
         ELSE IF call.handle = 0 THEN handles
         ELSE RemoveAt(handles, call.handle)
    /\ UNCHANGED <<segment, process, index_list, dirty, intact, whole, torn>>

(* What a method that runs out of memory leaves of the index: squash may have *)
(* merged the two newest undo states in part, undo may have taken back the     *)
(* newest one in part (emplace of a removed row allocates), undo_all may have   *)
(* done so after undoing others.  What is half done stands for any contents.   *)
HalfDone(op, x) ==
    LET n == Len(x.history)
        Bottom(k) == SubSeq(x.history, 1, k)
        HalfUndone(k) ==
            [table : Tables, history : {Append(Bottom(k - 1), v) : v \in Tables},
             revision : {RangeBegin(x) + k}]
        HalfMerged ==
            [table : {x.table}, revision : {x.revision},
             history : {Append(Append(Bottom(n - 2), v), w) : v, w \in Tables}]
    IN  CASE op = "squash" -> IF n < 2 THEN {} ELSE HalfMerged
          [] op = "undo" -> IF n = 0 THEN {} ELSE HalfUndone(n)
          [] op = "undo_all" -> UNION {HalfUndone(k) : k \in 1 .. n}

(* bad_alloc leaves the loop: the indices before this one are done, the ones   *)
(* after it untouched.  A session object keeps the sessions still to do.       *)
IterationThrows ==
    LET t == call.todo[1]
    IN  /\ call.op \in {"undo", "squash", "undo_all"}
        /\ call.todo # <<>>
        /\ \E x \in HalfDone(call.op, segment[t]) : segment' = [segment EXCEPT ![t] = x]
        /\ call' = NoCall
        /\ handles' = IF call.handle = 0 THEN handles
                      ELSE [Disturbed(handles) EXCEPT ![call.handle].subs = call.todo]
        /\ interrupted' = NoLoop
        /\ intact' = FALSE
        /\ whole' = FALSE
        /\ torn' = TRUE
        /\ UNCHANGED <<process, index_list, dirty>>

-----------------------------------------------------------------------------
Lifecycle ==
    \/ \E how \in {"opening", "reading"}, allow \in BOOLEAN : Open(how, allow)
    \/ Close
    \/ Crash
    \/ \E t \in Types : AddExisting(t) \/ AddNew(t)
    \/ AddStep
    \/ AddThrows

Calls ==
    \/ \E t \in Types, v \in Tables : Write(t, v)
    \/ \E op \in {"undo", "squash", "undo_all"} : DatabaseCall(op, 0)
    \/ \E op \in {"commit", "set_revision"}, r \in Revisions : DatabaseCall(op, r)
    \/ start_undo_session
    \/ \E h \in DOMAIN handles :
         Push(h) \/ \E op \in {"undo", "squash"} : HandleCall(op, h)

Loop == LoopStep \/ SetRevisionThrows \/ StartThrows \/ LoopReturns

Next == Lifecycle \/ Calls \/ Loop \/ IterationThrows

Spec == Init /\ [][Next]_vars

-----------------------------------------------------------------------------
(***************************************************************************)
(* Properties.                                                             *)
(***************************************************************************)

(* "Ensure the undo stack of added index is consistent with the other        *)
(* indices in the database": whenever no loop over the indices is running,   *)
(* all indices of the process have the same revision range, so that one       *)
(* undo(), squash() or commit() means the same session in each of them.  Not   *)
(* so once one of these methods ran out of memory half way.                   *)
InSync ==
    call = NoCall /\ ~torn =>
      \A t, u \in Added : SameRange(segment[t], segment[u])

(* A process that ends in the middle of a loop leaves some indices changed    *)
(* and others not.  When add_index accepts all of them again, no revision      *)
(* range told them apart: then the loop had run for all of them, or for none.  *)
(* (No undo, squash or undo_all has run out of memory.)                        *)
CrashAtomic ==
    LET over == interrupted.over
        before == interrupted.before
    IN  /\ process \in {"opening", "reading"}
        /\ interrupted.op # "none"
        /\ over \subseteq Added
        /\ ~torn
        => \/ \A t \in over : segment[t] = before[t]
           \/ \A t \in over : segment[t] = Apply(interrupted.op, interrupted.arg, before[t])

(* A file that was closed by its last writer opens: its indices have one      *)
(* revision range, and no add_index refuses one as corrupted.  This needs that *)
(* add_index accepted all indices since the file was last opened in spite of   *)
(* its dirty flag, used without some of them or left with one not brought in   *)
(* line, and that no undo, squash or undo_all has run out of memory.           *)
CleanOpens ==
    process = "down" /\ ~dirty /\ intact =>
      \A t, u \in {v \in Types : segment[v] # NoIndex} :
         SameRange(segment[t], segment[u])

(* A session object that goes out of scope, with only the objects nested in   *)
(* it squashed or undone meanwhile, leaves every index as it found it, as long *)
(* as no undo, squash or undo_all has run out of memory.                       *)
SessionRestores ==
    call.op = "undo" /\ call.handle # 0 /\ call.todo = <<>> /\ ~torn =>
      LET h == handles[call.handle]
      IN  h.mine => \A t \in ToSet(h.subs) : segment[t].table = h.saved[t]

(***************************************************************************)
(* The abstract specification.                                             *)
(***************************************************************************)

(* The indices as the last complete operation left them: a loop over them     *)
(* takes effect with its last iteration.                                      *)
Settled ==
    LET Done(t) == segment[t] = Apply(interrupted.op, interrupted.arg, interrupted.before[t])
    IN  IF interrupted.op = "none" \/ \A t \in interrupted.over : Done(t)
        THEN segment ELSE interrupted.before

(* An index that add_index will create holds nothing yet. *)
Index(t) == IF Settled[t] = NoIndex THEN FreshIndex ELSE Settled[t]

AnyType == CHOOSE t \in Types : TRUE

AllTables == [t \in Types |-> Index(t).table]

(* The table of session i in a stack; a stack too short to have one shows it. *)
SessionTable(stack, i) == IF i \in DOMAIN stack THEN stack[i] ELSE NoIndex

AllHistory ==
    IF whole
    THEN [i \in 1 .. Len(Index(AnyType).history) |->
            [t \in Types |-> SessionTable(Index(t).history, i)]]
    ELSE <<>>

DS == INSTANCE DatabaseStore WITH
          Ids <- Types, Rows <- Tables, Absent <- EmptyTable,
          table <- AllTables, history <- AllHistory, revision <- Index(AnyType).revision

(* Used with all its indices, the database is one store of all tables: undo,  *)
(* squash and commit treat them as one, also where start_undo_session or       *)
(* set_revision throws or a crash cuts a loop off between two indices, and     *)
(* even if the file is opened in spite of its dirty flag.  Nothing is promised *)
(* once undo, squash or undo_all has run out of memory.                        *)
Implements == DS!DatabaseSpec
=============================================================================
