---------------------------- MODULE GenericIndex ----------------------------
(***************************************************************************)
(* chainbase::generic_index: a multi_index_container of rows and the deque *)
(* of undo_states that lets nested sessions be undone, squashed and        *)
(* committed.                                                              *)
(*                                                                         *)
(* An index is used by one thread, so an operation is one step.  undo_all  *)
(* is the exception: it is a loop over undo(), modelled iteration by       *)
(* iteration.                                                              *)
(***************************************************************************)
EXTENDS UndoState, Sequences

CONSTANTS
    MaxRevision,  \* std::numeric_limits<int64_t>::max()
    MaxDepth,     \* bound of the exploration: open sessions
    ReuseIds,     \* TRUE: callers give a removed id to a new row
    RekeyRows     \* TRUE: a modifier may change the key of a row

ASSUME MaxRevisionAssumption == MaxRevision \in Nat
ASSUME MaxDepthAssumption == MaxDepth \in Nat
ASSUME ReuseIdsAssumption == ReuseIds \in BOOLEAN
ASSUME RekeyRowsAssumption == RekeyRows \in BOOLEAN

VARIABLES
    indices,      \* _indices
    stack,        \* _stack, oldest session first
    revision,     \* _revision
    unwinding,    \* TRUE while undo_all's loop runs
    status,       \* "ok", or how the process left defined behaviour
    snapshots     \* history variable: indices when each session on the
                  \* stack started

vars == <<indices, stack, revision, unwinding, status, snapshots>>

Statuses == {"ok", "aborted", "undefined", "overflow"}

(* The types of the state; _revision stays within int64_t. *)
TypeOK ==
    /\ indices \in Tables
    /\ stack \in Seq(UndoStates)
    /\ revision \in Int /\ revision <= MaxRevision
    /\ unwinding \in BOOLEAN
    /\ status \in Statuses
    /\ snapshots \in Seq(Tables)

enabled == Len(stack) > 0

head == stack[Len(stack)]

(* The process calls into the index: it has not died, and the previous call *)
(* has returned.                                                            *)
Idle == status = "ok" /\ ~unwinding

Init ==
    /\ indices = NoRows
    /\ stack = <<>>
    /\ revision = 0
    /\ unwinding = FALSE
    /\ status = "ok"
    /\ snapshots = <<>>

(* The process stops in this operation; nothing else of it matters. *)
Halt(how) ==
    /\ status' = how
    /\ UNCHANGED <<indices, stack, revision, unwinding, snapshots>>

(* What an operation on rows leaves in the head of the stack. *)
Record(u) ==
    stack' = IF enabled THEN [stack EXCEPT ![Len(stack)] = u] ELSE stack

(***************************************************************************)
(* Operations on rows.                                                     *)
(***************************************************************************)

(* The ids a caller may give a new row.  The id is the caller's: the line   *)
(* that assigned _next_id is commented out.                                 *)
Assignable(id) ==
    \/ ReuseIds
    \/ \A i \in 1 .. Len(stack) : stack[i].removed_values[id] = Absent

(* emplace throws, changing nothing, when an index refuses the row. *)
emplace(id, row) ==
    /\ Idle
    /\ Assignable(id)
    /\ indices[id] = Absent
    /\ ~Clash(indices, id, row)
    /\ indices' = [indices EXCEPT ![id] = row]
    /\ Record(on_create(head, id))
    /\ UNCHANGED <<revision, unwinding, status, snapshots>>

(* The row is in the container when on_create's new_ids.insert runs out of   *)
(* shared memory: the exception leaves the row and no record of it.          *)
EmplaceThrows(id, row) ==
    /\ Idle
    /\ enabled
    /\ Assignable(id)
    /\ indices[id] = Absent
    /\ ~Clash(indices, id, row)
    /\ indices' = [indices EXCEPT ![id] = row]
    /\ UNCHANGED <<stack, revision, unwinding, status, snapshots>>

(* The modifier of a well-behaved caller keeps the key. *)
Modifiable(id, row) ==
    /\ indices[id] # Absent
    /\ RekeyRows \/ row.key = indices[id].key

modify(id, row) ==
    /\ Idle
    /\ Modifiable(id, row)
    /\ ~Clash(indices, id, row)
    /\ indices' = [indices EXCEPT ![id] = row]
    /\ Record(on_modify(head, indices, id))
    /\ UNCHANGED <<revision, unwinding, status, snapshots>>

ModifyAborts(id, row) ==
    /\ Idle
    /\ Modifiable(id, row)
    /\ Clash(indices, id, row)
    /\ Halt("aborted")

(* remove, and remove_object, which throws when there is no such row. *)
remove(id) ==
    /\ Idle
    /\ indices[id] # Absent
    /\ indices' = [indices EXCEPT ![id] = Absent]
    /\ Record(on_remove(head, indices, id))
    /\ UNCHANGED <<revision, unwinding, status, snapshots>>

(***************************************************************************)
(* Sessions.                                                               *)
(***************************************************************************)
start_undo_session ==
    /\ Idle
    /\ Len(stack) < MaxDepth
    /\ revision < MaxRevision
    /\ stack' = Append(stack, FreshState(revision + 1))
    /\ revision' = revision + 1
    /\ snapshots' = Append(snapshots, indices)
    /\ UNCHANGED <<indices, unwinding, status>>

(* ++_revision past the largest int64_t. *)
StartOverflows ==
    /\ Idle
    /\ Len(stack) < MaxDepth
    /\ revision = MaxRevision
    /\ Halt("overflow")

(* Mutant: ++_revision for --_revision. *)
PopIncrements ==
    /\ snapshots' = SubSeq(snapshots, 1, Len(snapshots) - 1)
    /\ revision' = revision + 1

(* Mutant: --_revision is forgotten. *)
PopKeepsRevision ==
    /\ snapshots' = SubSeq(snapshots, 1, Len(snapshots) - 1)
    /\ UNCHANGED revision

(* The newest session leaves the stack. *)
Pop ==
    /\ snapshots' = SubSeq(snapshots, 1, Len(snapshots) - 1)
    /\ revision' = revision - 1

(* The body of undo, which returns at once when there is nothing to undo. *)
Undone ==
    /\ enabled
    /\ IF ~RevertDefined(indices, head) THEN Halt("undefined")
       ELSE IF ~RevertUnique(indices, head) THEN Halt("aborted")
       ELSE /\ indices' = Revert(indices, head)
            /\ stack' = SubSeq(stack, 1, Len(stack) - 1)
            /\ Pop
            /\ UNCHANGED <<unwinding, status>>

undo == Idle /\ Undone

(* The new top of the stack: with a single session its undo state is just   *)
(* dropped.                                                                 *)
Squashed ==
    IF Len(stack) = 1 THEN <<>>
    ELSE [SubSeq(stack, 1, Len(stack) - 1) EXCEPT
            ![Len(stack) - 1] = Merge(@, head)]

(* The assertions of the merging loops. *)
SquashAsserts == Len(stack) > 1 => MergeAsserts(stack[Len(stack) - 1], head)

squash ==
    /\ Idle
    /\ enabled
    /\ IF ~SquashAsserts THEN Halt("aborted")
       ELSE /\ stack' = Squashed
            /\ Pop
            /\ UNCHANGED <<indices, unwinding, status>>

(* squash runs out of memory at entry n of a loop: the session below has    *)
(* what was merged so far, and nothing is popped.  A row that was moved out  *)
(* of the head is left there with any contents.                              *)
SquashThrows(loop, n) ==
    /\ Idle
    /\ Len(stack) > 1
    /\ LET d == Len(stack)
           prev == stack[d - 1]
           moved == MovedOut(prev, head, loop, n)
       IN /\ MergeAsserts(prev, Merged(head, loop, n + 1))
          /\ Allocates(prev, head, loop, n)
          /\ \E data \in [moved -> Datas] :
               stack' = [stack EXCEPT
                   ![d - 1] = Merge(@, Merged(head, loop, n)),
                   ![d].removed_values =
                      [id \in Ids |-> IF id \in moved
                                      THEN [@[id] EXCEPT !.data = data[id]]
                                      ELSE @[id]]]
    /\ UNCHANGED <<indices, revision, unwinding, status, snapshots>>

(* The n sessions at the front of the deque that commit(r) pops. *)
Committed(r, n) ==
    /\ \A i \in 1 .. n : stack[i].revision <= r
    /\ n < Len(stack) => stack[n + 1].revision > r

commit(r) ==
    /\ Idle
    /\ \E n \in 0 .. Len(stack) :
         /\ Committed(r, n)
         /\ stack' = SubSeq(stack, n + 1, Len(stack))
         /\ snapshots' = SubSeq(snapshots, n + 1, Len(snapshots))
    /\ UNCHANGED <<indices, revision, unwinding, status>>

undo_all ==
    /\ Idle
    /\ unwinding' = TRUE
    /\ UNCHANGED <<indices, stack, revision, status, snapshots>>

UndoAllStep ==
    /\ status = "ok"
    /\ unwinding
    /\ Undone

(* Mutant: `if' for `while'. *)
UndoAllReturnsEarly ==
    /\ status = "ok"
    /\ unwinding
    /\ unwinding' = FALSE
    /\ UNCHANGED <<indices, stack, revision, status, snapshots>>

UndoAllReturns ==
    /\ status = "ok"
    /\ unwinding
    /\ ~enabled
    /\ unwinding' = FALSE
    /\ UNCHANGED <<indices, stack, revision, status, snapshots>>

(* Throws, changing nothing, while there is an undo stack. *)
set_revision(r) ==
    /\ Idle
    /\ ~enabled
    /\ revision' = r
    /\ UNCHANGED <<indices, stack, unwinding, status, snapshots>>

-----------------------------------------------------------------------------
RowStep ==
    \E id \in Ids :
      \/ remove(id)
      \/ \E row \in Rows :
           emplace(id, row) \/ modify(id, row) \/ ModifyAborts(id, row)

SessionStep ==
    \/ start_undo_session \/ StartOverflows
    \/ undo
    \/ squash
    \/ \E r \in 0 .. MaxRevision : commit(r) \/ set_revision(r)
    \/ undo_all

UndoAllLoop == UndoAllStep \/ UndoAllReturns

(* After std::abort or undefined behaviour no step of the program follows. *)
Halted == status # "ok" /\ UNCHANGED vars

Next == RowStep \/ SessionStep \/ UndoAllLoop \/ Halted

(* undo_all runs on its caller's thread, which keeps running. *)
Spec == Init /\ [][Next]_vars /\ WF_vars(UndoAllLoop)

(* The same index in a memory segment that can be exhausted. *)
FaultyNext ==
    \/ Next
    \/ \E id \in Ids, row \in Rows : EmplaceThrows(id, row)
    \/ \E id \in Ids, loop \in SquashLoops : SquashThrows(loop, id)

FaultySpec == Init /\ [][FaultyNext]_vars

-----------------------------------------------------------------------------
(***************************************************************************)
(* Properties.                                                             *)
(***************************************************************************)

(* The table when session i + 1 started, or now if i is the newest. *)
After(i) == IF i = Len(stack) THEN indices ELSE snapshots[i + 1]

(* Undo restores the state to how it was prior to the session: however the  *)
(* sessions on the stack came about (nested, squashed, committed below), the *)
(* differences each keeps lead from the table after it back to exactly the   *)
(* table before it.                                                          *)
Restorable ==
    /\ Len(stack) = Len(snapshots)
    /\ \A i \in 1 .. Len(stack) : Revert(After(i), stack[i]) = snapshots[i]

(* The revisions on the stack are consecutive and end in _revision, which    *)
(* commit(revision) and add_index's comparison of revision ranges rely on.   *)
RevisionsConsecutive ==
    /\ revision >= Len(stack)
    /\ \A i \in 1 .. Len(stack) : stack[i].revision = revision - Len(stack) + i

(* undo never erases or modifies through an end iterator. *)
UndoFindsRows == status # "undefined"

(* With callers that never reuse a removed id and never change a row's key,  *)
(* neither undo's and modify's std::abort nor squash's assertions are         *)
(* reached.                                                                   *)
NeverAborts == status # "aborted"

(* undo_all ends, with the table as it was before the oldest session, unless *)
(* undoing met a uniqueness violation.                                        *)
UndoAllRestores ==
    \A t \in Tables :
      (unwinding /\ enabled /\ snapshots[1] = t)
        ~> (status = "aborted" \/ (~unwinding /\ ~enabled /\ indices = t))

(***************************************************************************)
(* The inductive invariant behind them.                                    *)
(***************************************************************************)

(* One undo state u between the table `before' its session and the table     *)
(* `after' it: its three containers are disjoint, and tell what became of    *)
(* every row.                                                                *)
Linked(before, u, after) ==
    \A id \in Ids :
      /\ id \in u.new_ids =>
           /\ before[id] = Absent /\ after[id] # Absent
           /\ u.old_values[id] = Absent /\ u.removed_values[id] = Absent
      /\ u.old_values[id] # Absent =>
           /\ before[id] = u.old_values[id] /\ after[id] # Absent
           /\ u.removed_values[id] = Absent
      /\ u.removed_values[id] # Absent =>
           before[id] = u.removed_values[id] /\ after[id] = Absent
      /\ id \notin u.new_ids /\ u.old_values[id] = Absent
         /\ u.removed_values[id] = Absent => before[id] = after[id]

AllLinked ==
    /\ Len(stack) = Len(snapshots)
    /\ \A i \in 1 .. Len(stack) : Linked(snapshots[i], stack[i], After(i))

(* No session creates an id an older session on the stack removed. *)
NoIdReused ==
    \A i, j \in 1 .. Len(stack) : \A id \in Ids :
      i < j /\ id \in stack[j].new_ids => stack[i].removed_values[id] = Absent

(* Keys are unique now and were so at the start of every session. *)
KeysUnique ==
    /\ Unique(indices)
    /\ \A i \in 1 .. Len(snapshots) : Unique(snapshots[i])

(* A row of both tables has the same key in both. *)
SameKeys(before, after) ==
    \A id \in Ids :
      before[id] # Absent /\ after[id] # Absent => before[id].key = after[id].key

(* A row that lives through a session keeps its key. *)
KeysStable ==
    \A i \in 1 .. Len(stack) : SameKeys(snapshots[i], After(i))

(* The differences implement the snapshots: every step of the index is a     *)
(* step of the abstract store, or leaves it alone.                            *)
VS == INSTANCE VersionedStore WITH table <- indices, history <- snapshots

Implements == VS!Spec
=============================================================================
