------------------------- MODULE GenericIndexProofs -------------------------
(***************************************************************************)
(* Theorems about GenericIndex, for every set of ids, keys and data, every *)
(* depth of nesting and every largest revision.                            *)
(***************************************************************************)
EXTENDS GenericIndex, SequenceTheorems, TLAPS

(***************************************************************************)
(* Types.                                                                  *)
(***************************************************************************)

(* The operations on undo states yield undo states. *)
LEMMA RecordTypes ==
    ASSUME NEW u \in UndoStates, NEW t \in Tables, NEW id \in Ids
    PROVE  /\ on_create(u, id) \in UndoStates
           /\ on_modify(u, t, id) \in UndoStates
           /\ on_remove(u, t, id) \in UndoStates
<1>1. on_create(u, id) \in UndoStates
  BY DEF on_create, UndoStates
<1>2. on_modify(u, t, id) \in UndoStates
  BY DEF on_modify, UndoStates, Tables
<1>3. on_remove(u, t, id) \in UndoStates
  BY DEF on_remove, Emplaced, UndoStates, Tables
<1> QED BY <1>1, <1>2, <1>3

(* undo leaves a table of rows. *)
LEMMA RevertType ==
    ASSUME NEW u \in UndoStates, NEW t \in Tables
    PROVE  Revert(t, u) \in Tables
BY DEF Revert, Erased, UndoStates, Tables

(* A new session starts with an undo state. *)
LEMMA FreshType ==
    ASSUME NEW r \in Int
    PROVE  FreshState(r) \in UndoStates
BY DEF FreshState, NoRows, UndoStates, Tables

(* squash leaves an undo state with the older session's revision. *)
LEMMA MergeType ==
    ASSUME NEW A \in UndoStates, NEW B \in UndoStates
    PROVE  Merge(A, B) \in UndoStates /\ Merge(A, B).revision = A.revision
BY DEF Merge, MergedOld, MergedNew, Emplaced, UndoStates, Tables

(* What Record and the pops of the stack leave, as sequences. *)
LEMMA RecordSeq ==
    ASSUME NEW S, NEW s \in Seq(S), Len(s) > 0, NEW u \in S
    PROVE  LET t == [s EXCEPT ![Len(s)] = u]
           IN  /\ t \in Seq(S)
               /\ Len(t) = Len(s)
               /\ t[Len(s)] = u
               /\ \A i \in 1 .. Len(s) - 1 : t[i] = s[i]
OBVIOUS

(* pop_back. *)
LEMMA PopSeq ==
    ASSUME NEW S, NEW s \in Seq(S), Len(s) > 0
    PROVE  LET t == SubSeq(s, 1, Len(s) - 1)
           IN  /\ t \in Seq(S)
               /\ Len(t) = Len(s) - 1
               /\ \A i \in 1 .. Len(s) - 1 : t[i] = s[i]
<1> DEFINE n == Len(s) - 1
<1>1. /\ 1 \in Int /\ n \in Nat /\ n \in Int
      /\ \A i \in 1 .. n : s[i] \in S
  OBVIOUS
<1>2. Len(s) - 1 = n
  OBVIOUS
<1> HIDE DEF n
<1>3. /\ SubSeq(s, 1, n) \in Seq(S)
      /\ Len(SubSeq(s, 1, n)) = IF 1 <= n THEN n - 1 + 1 ELSE 0
      /\ \A i \in 1 .. n - 1 + 1 : SubSeq(s, 1, n)[i] = s[1 + i - 1]
  BY <1>1, SubSeqProperties
<1>4. Len(SubSeq(s, 1, n)) = n /\ \A i \in 1 .. n : SubSeq(s, 1, n)[i] = s[i]
  BY <1>1, <1>3
<1> QED BY <1>2, <1>3, <1>4

(* commit's n times pop_front. *)
LEMMA DropSeq ==
    ASSUME NEW S, NEW s \in Seq(S), NEW n \in 0 .. Len(s)
    PROVE  LET t == SubSeq(s, n + 1, Len(s))
           IN  /\ t \in Seq(S)
               /\ Len(t) = Len(s) - n
               /\ \A i \in 1 .. Len(s) - n : t[i] = s[i + n]
OBVIOUS

(* emplace_back. *)
LEMMA PushSeq ==
    ASSUME NEW S, NEW s \in Seq(S), NEW u \in S
    PROVE  LET t == Append(s, u)
           IN  /\ t \in Seq(S)
               /\ Len(t) = Len(s) + 1
               /\ t[Len(s) + 1] = u
               /\ \A i \in 1 .. Len(s) : t[i] = s[i]
OBVIOUS

(* Record leaves an undo stack. *)
LEMMA RecordType ==
    ASSUME stack \in Seq(UndoStates), NEW u,
           enabled => u \in UndoStates, Record(u)
    PROVE  /\ stack' \in Seq(UndoStates)
           /\ Len(stack') = Len(stack)
BY RecordSeq DEF Record, enabled

(* The new stack squash computes. *)
LEMMA SquashedSeq ==
    ASSUME stack \in Seq(UndoStates), enabled
    PROVE  LET n == Len(stack) - 1
           IN  /\ Squashed \in Seq(UndoStates)
               /\ Len(Squashed) = n
               /\ n > 0 => Squashed[n] = Merge(stack[n], head)
               /\ \A i \in 1 .. n - 1 : Squashed[i] = stack[i]
<1> DEFINE n == Len(stack) - 1
           t == SubSeq(stack, 1, n)
<1>1. CASE Len(stack) = 1
  BY <1>1 DEF Squashed
<1>2. CASE Len(stack) > 1
  <2>1. /\ t \in Seq(UndoStates) /\ Len(t) = n
        /\ \A i \in 1 .. n : t[i] = stack[i]
    BY <1>2, PopSeq
  <2>2. stack[n] \in UndoStates /\ head \in UndoStates
    BY <1>2 DEF head
  <2>3. Merge(t[n], head) \in UndoStates
    BY <1>2, <2>1, <2>2, MergeType
  <2>4. Squashed = [t EXCEPT ![Len(t)] = Merge(t[n], head)]
    BY <1>2, <2>1 DEF Squashed
  <2>5. /\ Squashed \in Seq(UndoStates) /\ Len(Squashed) = Len(t)
        /\ Squashed[Len(t)] = Merge(t[n], head)
        /\ \A i \in 1 .. Len(t) - 1 : Squashed[i] = t[i]
    <3> HIDE DEF t
    <3> QED BY <1>2, <2>1, <2>3, <2>4, RecordSeq
  <2> QED BY <1>2, <2>1, <2>5
<1>3. Len(stack) = 1 \/ Len(stack) > 1
  <2>1. Len(stack) \in Nat
    OBVIOUS
  <2>2. Len(stack) > 0
    BY DEF enabled
  <2> QED BY <2>1, <2>2
<1> QED BY <1>1, <1>2, <1>3

(***************************************************************************)
(* The shapes of a step.                                                   *)
(***************************************************************************)

(* A step that touches neither the rows nor the sessions. *)
Quiet ==
    /\ UNCHANGED <<indices, stack, snapshots>>
    /\ \/ revision' = revision
       \/ ~enabled /\ revision' \in 0 .. MaxRevision
    /\ unwinding' \in BOOLEAN
    /\ status' \in Statuses

(* An undo, of undo() or of undo_all's loop, that succeeds. *)
UndoSucceeds ==
    /\ enabled
    /\ RevertDefined(indices, head)
    /\ indices' = Revert(indices, head)
    /\ stack' = SubSeq(stack, 1, Len(stack) - 1)
    /\ Pop
    /\ UNCHANGED <<unwinding, status>>

(* undo restores the table or stops the process. *)
LEMMA UndoneCases ==
    ASSUME TypeOK, Undone
    PROVE  UndoSucceeds \/ Quiet
BY DEF TypeOK, Undone, UndoSucceeds, Quiet, Halt, Statuses

(* A squash whose assertions hold. *)
SquashSucceeds ==
    /\ enabled
    /\ stack' = Squashed
    /\ Pop
    /\ UNCHANGED <<indices, unwinding, status>>

(* squash merges the two newest sessions or stops the process. *)
LEMMA SquashCases ==
    ASSUME TypeOK, squash
    PROVE  SquashSucceeds \/ Quiet
BY DEF TypeOK, squash, SquashSucceeds, Quiet, Halt, Statuses

(* Every step has one of these shapes. *)
LEMMA StepCases ==
    ASSUME TypeOK, [Next]_vars
    PROVE  \/ \E id \in Ids, row \in Rows : emplace(id, row) \/ modify(id, row)
           \/ \E id \in Ids : remove(id)
           \/ start_undo_session
           \/ UndoSucceeds
           \/ SquashSucceeds
           \/ \E r \in Int : commit(r)
           \/ Quiet
<1>1. CASE RowStep
  <2>1. ASSUME NEW id \in Ids, NEW row \in Rows, ModifyAborts(id, row)
        PROVE  Quiet
    BY <2>1 DEF ModifyAborts, Halt, Quiet, TypeOK, Statuses
  <2> QED BY <1>1, <2>1 DEF RowStep
<1>2. CASE SessionStep
  <2>1. ASSUME StartOverflows \/ undo_all PROVE Quiet
    BY <2>1 DEF StartOverflows, undo_all, Halt, Quiet, TypeOK, Statuses
  <2>2. ASSUME undo PROVE UndoSucceeds \/ Quiet
    BY <2>2, UndoneCases DEF undo
  <2>3. ASSUME NEW r \in 0 .. MaxRevision, set_revision(r) PROVE Quiet
    BY <2>3, MaxRevisionAssumption DEF set_revision, Quiet, TypeOK
  <2>4. 0 .. MaxRevision \subseteq Int
    BY MaxRevisionAssumption
  <2> QED BY <1>2, <2>1, <2>2, <2>3, <2>4, SquashCases DEF SessionStep
<1>3. CASE UndoAllLoop
  <2>1. ASSUME UndoAllStep PROVE UndoSucceeds \/ Quiet
    BY <2>1, UndoneCases DEF UndoAllStep
  <2>2. ASSUME UndoAllReturns PROVE Quiet
    BY <2>2 DEF UndoAllReturns, Quiet, TypeOK
  <2> QED BY <1>3, <2>1, <2>2 DEF UndoAllLoop
<1>4. CASE Halted \/ UNCHANGED vars
  BY <1>4 DEF Halted, vars, Quiet, TypeOK
<1> QED BY <1>1, <1>2, <1>3, <1>4 DEF Next

(* There is one snapshot per session, which the types of the pops need. *)
TypeInv == TypeOK /\ Len(stack) = Len(snapshots)

(* Every step keeps the types. *)
LEMMA TypeStep ==
    TypeInv /\ [Next]_vars => TypeInv'
<1> SUFFICES ASSUME TypeInv, [Next]_vars PROVE TypeInv'
  OBVIOUS
<1> USE MaxRevisionAssumption DEF TypeInv, TypeOK
<1>h. enabled => head \in UndoStates
  BY DEF head, enabled
<1>r. ASSUME NEW id \in Ids, NEW row \in Rows \cup {Absent}
      PROVE  [indices EXCEPT ![id] = row] \in Tables
  BY DEF Tables
<1>1. ASSUME NEW id \in Ids, NEW row \in Rows, emplace(id, row) PROVE TypeInv'
  BY <1>1, <1>h, <1>r, RecordTypes, RecordType DEF emplace
<1>2. ASSUME NEW id \in Ids, NEW row \in Rows, modify(id, row) PROVE TypeInv'
  BY <1>2, <1>h, <1>r, RecordTypes, RecordType DEF modify
<1>3. ASSUME NEW id \in Ids, remove(id) PROVE TypeInv'
  BY <1>3, <1>h, <1>r, RecordTypes, RecordType DEF remove
<1>4. ASSUME start_undo_session PROVE TypeInv'
  <2>1. revision + 1 \in Int /\ FreshState(revision + 1) \in UndoStates
    BY FreshType
  <2> QED BY <1>4, <2>1, PushSeq DEF start_undo_session
<1>5. ASSUME UndoSucceeds PROVE TypeInv'
  <2>1. Revert(indices, head) \in Tables
    BY <1>5, <1>h, RevertType DEF UndoSucceeds
  <2> QED BY <1>5, <2>1, PopSeq DEF UndoSucceeds, Pop, enabled
<1>6. ASSUME SquashSucceeds PROVE TypeInv'
  <2>1. stack' \in Seq(UndoStates) /\ Len(stack') = Len(stack) - 1
    BY <1>6, SquashedSeq DEF SquashSucceeds
  <2> QED BY <1>6, <2>1, PopSeq DEF SquashSucceeds, Pop, enabled
<1>7. ASSUME NEW r \in Int, commit(r) PROVE TypeInv'
  <2>1. PICK n \in 0 .. Len(stack) :
           /\ stack' = SubSeq(stack, n + 1, Len(stack))
           /\ snapshots' = SubSeq(snapshots, n + 1, Len(snapshots))
    BY <1>7 DEF commit
  <2> QED BY <1>7, <2>1, DropSeq DEF commit
<1>8. ASSUME Quiet PROVE TypeInv'
  BY <1>8 DEF Quiet
<1> QED BY <1>1, <1>2, <1>3, <1>4, <1>5, <1>6, <1>7, <1>8, StepCases

(* Types, and one snapshot per session, in every reachable state. *)
LEMMA TypeInvariant == Spec => []TypeInv
<1>1. Init => TypeInv
  <2> SUFFICES ASSUME Init PROVE TypeInv
    OBVIOUS
  <2>1. indices \in Tables
    BY DEF Init, NoRows, Tables
  <2>2. stack \in Seq(UndoStates) /\ snapshots \in Seq(Tables)
    BY DEF Init
  <2>3. status \in Statuses
    BY DEF Init, Statuses
  <2>4. revision \in Int /\ revision <= MaxRevision /\ Len(stack) = Len(snapshots)
    BY MaxRevisionAssumption DEF Init
  <2>5. unwinding \in BOOLEAN
    BY DEF Init
  <2> QED BY <2>1, <2>2, <2>3, <2>4, <2>5 DEF TypeInv, TypeOK
<1> QED BY <1>1, TypeStep, PTL DEF Spec

(* The index stays well typed: rows, undo states and revisions of every     *)
(* reachable state are what undo_state and generic_index declare.           *)
THEOREM TypeCorrect == Spec => []TypeOK
<1>1. TypeInv => TypeOK
  BY DEF TypeInv
<1> QED BY <1>1, TypeInvariant, PTL


(***************************************************************************)
(* Revisions.                                                              *)
(***************************************************************************)
LEMMA RevisionStep ==
    TypeInv /\ RevisionsConsecutive /\ [Next]_vars => RevisionsConsecutive'
<1> SUFFICES ASSUME TypeInv, RevisionsConsecutive, [Next]_vars
             PROVE  RevisionsConsecutive'
  OBVIOUS
<1> USE DEF TypeInv, TypeOK
<1> DEFINE Kept == /\ Len(stack') = Len(stack) /\ revision' = revision
                   /\ \A i \in 1 .. Len(stack) : stack'[i].revision = stack[i].revision
<1>0. ASSUME Kept PROVE RevisionsConsecutive'
  BY <1>0 DEF RevisionsConsecutive
<1>1. ASSUME NEW u, Record(u), revision' = revision,
             enabled => u \in UndoStates /\ u.revision = head.revision
      PROVE  RevisionsConsecutive'
  <2>1. CASE enabled
    <3>1. stack' = [stack EXCEPT ![Len(stack)] = u]
      BY <1>1, <2>1 DEF Record
    <3> QED BY <1>0, <1>1, <2>1, <3>1, RecordSeq DEF enabled, head
  <2> QED BY <1>0, <1>1, <2>1 DEF Record
<1>2. ASSUME NEW id \in Ids, NEW row \in Rows, emplace(id, row) \/ modify(id, row)
      PROVE RevisionsConsecutive'
  <2>1. enabled => head \in UndoStates
    BY DEF head, enabled
  <2>2. enabled => on_create(head, id).revision = head.revision
    BY <2>1 DEF on_create, UndoStates
  <2>3. enabled => on_modify(head, indices, id).revision = head.revision
    BY <2>1 DEF on_modify, UndoStates
  <2> QED BY <1>1, <1>2, <2>1, <2>2, <2>3, RecordTypes DEF emplace, modify
<1>3. ASSUME NEW id \in Ids, remove(id) PROVE RevisionsConsecutive'
  <2>1. enabled => head \in UndoStates
    BY DEF head, enabled
  <2>2. enabled => on_remove(head, indices, id).revision = head.revision
    BY <2>1 DEF on_remove, UndoStates
  <2> QED BY <1>1, <1>3, <2>1, <2>2, RecordTypes DEF remove
<1>4. ASSUME start_undo_session PROVE RevisionsConsecutive'
  <2>1. FreshState(revision + 1) \in UndoStates
    BY FreshType
  <2>2. FreshState(revision + 1).revision = revision + 1
    BY DEF FreshState
  <2> QED BY <1>4, <2>1, <2>2, PushSeq DEF start_undo_session, RevisionsConsecutive
<1>5. ASSUME UndoSucceeds PROVE RevisionsConsecutive'
  <2>1. /\ Len(stack') = Len(stack) - 1
        /\ \A i \in 1 .. Len(stack) - 1 : stack'[i] = stack[i]
    BY <1>5, PopSeq DEF UndoSucceeds, enabled
  <2>2. Len(stack) \in Nat /\ revision' = revision - 1
    BY <1>5 DEF UndoSucceeds, Pop
  <2> QED BY <2>1, <2>2 DEF RevisionsConsecutive
<1>6. ASSUME SquashSucceeds PROVE RevisionsConsecutive'
  <2> DEFINE n == Len(stack) - 1
  <2>1. /\ Len(stack') = n
        /\ n > 0 => stack'[n] = Merge(stack[n], head)
        /\ \A i \in 1 .. n - 1 : stack'[i] = stack[i]
    BY <1>6, SquashedSeq DEF SquashSucceeds
  <2>2. n > 0 => stack'[n].revision = stack[n].revision
    BY <2>1, MergeType DEF head
  <2>3. \A i \in 1 .. n : stack'[i].revision = stack[i].revision
    BY <2>1, <2>2
  <2>4. Len(stack) \in Nat /\ n \in Nat /\ revision \in Int /\ revision' = revision - 1
    BY <1>6 DEF SquashSucceeds, Pop, enabled
  <2> HIDE DEF TypeInv, TypeOK
  <2> QED BY <2>1, <2>3, <2>4 DEF RevisionsConsecutive
<1>7. ASSUME NEW r \in Int, commit(r) PROVE RevisionsConsecutive'
  <2>1. PICK n \in 0 .. Len(stack) : stack' = SubSeq(stack, n + 1, Len(stack))
    BY <1>7 DEF commit
  <2>2. /\ Len(stack') = Len(stack) - n
        /\ \A i \in 1 .. Len(stack) - n : stack'[i] = stack[i + n]
    BY <2>1, DropSeq
  <2>3. \A i \in 1 .. Len(stack) - n : stack[i + n].revision = revision - Len(stack) + i + n
    <3>1. Len(stack) \in Nat /\ revision \in Int /\ n \in Nat
      OBVIOUS
    <3>2. \A j \in 1 .. Len(stack) : stack[j].revision = revision - Len(stack) + j
      BY DEF RevisionsConsecutive
    <3> HIDE DEF TypeInv, TypeOK
    <3> QED BY <3>1, <3>2
  <2>4. Len(stack) \in Nat /\ revision' = revision
    BY <1>7 DEF commit
  <2> QED BY <2>2, <2>3, <2>4 DEF RevisionsConsecutive
<1>8. ASSUME Quiet PROVE RevisionsConsecutive'
  BY <1>0, <1>8 DEF Quiet, enabled, RevisionsConsecutive
<1> QED BY <1>2, <1>3, <1>4, <1>5, <1>6, <1>7, <1>8, StepCases

(* The revisions on the stack are consecutive and end in _revision, whatever *)
(* mixture of start, undo, squash, commit and set_revision came before.      *)
THEOREM RevisionsCorrect == Spec => []RevisionsConsecutive
<1>1. Init => RevisionsConsecutive
  BY DEF Init, RevisionsConsecutive
<1> QED BY <1>1, TypeInvariant, RevisionStep, PTL DEF Spec

(***************************************************************************)
(* What the operations on one undo state do to the tables it links.        *)
(***************************************************************************)
LEMMA LinkedFresh ==
    ASSUME NEW t \in Tables, NEW r \in Int
    PROVE  Linked(t, FreshState(r), t)
BY DEF Linked, FreshState, NoRows

(* Undoing a linked session finds every row and restores the table before. *)
LEMMA LinkedRevert ==
    ASSUME NEW b \in Tables, NEW u \in UndoStates, NEW a \in Tables,
           Linked(b, u, a)
    PROVE  Revert(a, u) = b /\ RevertDefined(a, u)
<1>1. Revert(a, u) = b
  <2>1. ASSUME NEW id \in Ids PROVE Revert(a, u)[id] = b[id]
    BY DEF Linked, Revert, Erased, UndoStates
  <2> QED BY <2>1 DEF Revert, Tables
<1>2. RevertDefined(a, u)
  BY DEF Linked, RevertDefined, Erased, UndoStates
<1> QED BY <1>1, <1>2

(* emplace keeps the newest undo state linked: the id was free in it. *)
LEMMA LinkedCreate ==
    ASSUME NEW b \in Tables, NEW u \in UndoStates, NEW a \in Tables,
           Linked(b, u, a), NEW id \in Ids, NEW row \in Rows,
           a[id] = Absent, u.removed_values[id] = Absent
    PROVE  Linked(b, on_create(u, id), [a EXCEPT ![id] = row])
BY AbsentAssumption DEF Linked, on_create, UndoStates, Tables

(* modify keeps the newest undo state linked. *)
LEMMA LinkedModify ==
    ASSUME NEW b \in Tables, NEW u \in UndoStates, NEW a \in Tables,
           Linked(b, u, a), NEW id \in Ids, NEW row \in Rows, a[id] # Absent
    PROVE  Linked(b, on_modify(u, a, id), [a EXCEPT ![id] = row])
BY AbsentAssumption DEF Linked, on_modify, UndoStates, Tables

(* remove keeps the newest undo state linked. *)
LEMMA LinkedRemove ==
    ASSUME NEW b \in Tables, NEW u \in UndoStates, NEW a \in Tables,
           Linked(b, u, a), NEW id \in Ids, a[id] # Absent
    PROVE  Linked(b, on_remove(u, a, id), [a EXCEPT ![id] = Absent])
BY DEF Linked, on_remove, Emplaced, UndoStates, Tables

(* Squash: the merged state links the table before the older session to the  *)
(* table after the newer one, if the newer creates nothing the older removed. *)
LEMMA LinkedMerge ==
    ASSUME NEW b \in Tables, NEW A \in UndoStates, NEW m \in Tables,
           NEW B \in UndoStates, NEW a \in Tables,
           Linked(b, A, m), Linked(m, B, a),
           \A id \in B.new_ids : A.removed_values[id] = Absent
    PROVE  Linked(b, Merge(A, B), a) /\ MergeAsserts(A, B)
<1> DEFINE M == Merge(A, B)
<1>1. ASSUME NEW id \in Ids
      PROVE /\ M.old_values[id] =
                 IF B.removed_values[id] # Absent /\ id \notin MergedNew(A, B)
                 THEN Absent ELSE MergedOld(A, B)[id]
            /\ M.removed_values[id] =
                 IF B.removed_values[id] # Absent /\ id \notin MergedNew(A, B)
                 THEN Emplaced(A.removed_values[id],
                        Emplaced(MergedOld(A, B)[id], B.removed_values[id]))
                 ELSE A.removed_values[id]
            /\ id \in M.new_ids <=>
                 id \in MergedNew(A, B) /\ B.removed_values[id] = Absent
  BY DEF Merge, UndoStates, MergedNew
<1> HIDE DEF M
<1>2. Linked(b, M, a)
  <2> SUFFICES ASSUME NEW id \in Ids
               PROVE  /\ id \in M.new_ids =>
                           /\ b[id] = Absent /\ a[id] # Absent
                           /\ M.old_values[id] = Absent
                           /\ M.removed_values[id] = Absent
                      /\ M.old_values[id] # Absent =>
                           /\ b[id] = M.old_values[id] /\ a[id] # Absent
                           /\ M.removed_values[id] = Absent
                      /\ M.removed_values[id] # Absent =>
                           b[id] = M.removed_values[id] /\ a[id] = Absent
                      /\ id \notin M.new_ids /\ M.old_values[id] = Absent
                         /\ M.removed_values[id] = Absent => b[id] = a[id]
    BY DEF Linked
  <2>1. MergedOld(A, B)[id] = IF A.old_values[id] = Absent /\ id \notin A.new_ids
                              THEN B.old_values[id] ELSE A.old_values[id]
    BY DEF MergedOld
  <2>2. id \in MergedNew(A, B) <=> id \in A.new_ids \/ id \in B.new_ids
    BY DEF MergedNew
  <2>3. id \in B.new_ids => A.removed_values[id] = Absent
    OBVIOUS
  <2> QED BY <1>1, <2>1, <2>2, <2>3 DEF Linked, Emplaced
<1>3. MergeAsserts(A, B)
  BY DEF Linked, MergeAsserts, MergedOld, MergedNew
<1> QED BY <1>2, <1>3 DEF M

(***************************************************************************)
(* The stack as a whole.                                                   *)
(***************************************************************************)
SessionInv == TypeInv /\ AllLinked /\ NoIdReused

(* Undo, squash and commit keep every session linked to its neighbours. *)
LEMMA SessionStepInv ==
    ASSUME ~ReuseIds
    PROVE  SessionInv /\ [Next]_vars => SessionInv'
<1> SUFFICES ASSUME SessionInv, [Next]_vars
             PROVE  AllLinked' /\ NoIdReused'
  BY TypeStep DEF SessionInv
<1>n. PICK n \in Nat : n = Len(stack)
  BY DEF SessionInv, TypeInv, TypeOK
<1>t. /\ stack \in Seq(UndoStates) /\ snapshots \in Seq(Tables)
      /\ Len(snapshots) = n /\ n \in Nat /\ indices \in Tables
      /\ \A i \in 1 .. n : stack[i] \in UndoStates /\ snapshots[i] \in Tables
      /\ \A i \in 1 .. n : After(i) \in Tables
  BY <1>n DEF SessionInv, TypeInv, TypeOK, After
<1>l. \A i \in 1 .. n : Linked(snapshots[i], stack[i], After(i))
  BY <1>n DEF SessionInv, AllLinked
<1>u. \A i, j \in 1 .. n : \A id \in Ids :
        i < j /\ id \in stack[j].new_ids => stack[i].removed_values[id] = Absent
  BY <1>n DEF SessionInv, NoIdReused
<1>a. n > 0 => /\ After(n) = indices /\ head = stack[n]
               /\ head \in UndoStates /\ snapshots[n] \in Tables
               /\ Linked(snapshots[n], head, indices)
  <2>1. n > 0 => n \in 1 .. n
    BY <1>n, <1>t
  <2> QED BY <1>n, <1>t, <1>l, <2>1 DEF After, head
(* A change of rows, recorded in the head. *)
<1>1. ASSUME NEW u, NEW t, Record(u), indices' = t, snapshots' = snapshots,
             n > 0 => /\ u \in UndoStates
                      /\ Linked(snapshots[n], u, t)
                      /\ \A id \in Ids, i \in 1 .. n - 1 :
                           id \in u.new_ids => stack[i].removed_values[id] = Absent
      PROVE  AllLinked' /\ NoIdReused'
  <2>1. CASE n > 0
    <3>1. /\ Len(stack') = n /\ stack'[n] = u
          /\ \A i \in 1 .. n - 1 : stack'[i] = stack[i]
      <4>1. stack' = [stack EXCEPT ![Len(stack)] = u]
        BY <1>n, <1>1, <2>1 DEF Record, enabled
      <4> QED BY <1>n, <1>1, <1>t, <2>1, <4>1, RecordSeq
    <3>2. \A i \in 1 .. n - 1 : After(i)' = After(i)
      BY <1>n, <1>1, <1>t, <2>1, <3>1 DEF After
    <3>3. After(n)' = t
      BY <1>n, <1>1, <3>1 DEF After
    <3>4. \A i \in 1 .. n : Linked(snapshots'[i], stack'[i], After(i)')
      BY <1>n, <1>1, <1>l, <1>t, <2>1, <3>1, <3>2, <3>3
    <3>5. AllLinked'
      BY <1>n, <1>1, <1>t, <3>1, <3>4 DEF AllLinked
    <3>6. \A i, j \in 1 .. n : \A id \in Ids :
            i < j /\ id \in stack'[j].new_ids => stack'[i].removed_values[id] = Absent
      BY <1>n, <1>1, <1>u, <1>t, <2>1, <3>1
    <3> QED BY <1>n, <3>1, <3>5, <3>6 DEF NoIdReused
  <2>2. CASE n = 0
    <3>1. stack' = stack
      BY <1>n, <1>1, <2>2 DEF Record, enabled
    <3>2. Len(stack') = 0 /\ Len(snapshots') = 0
      <4>1. Len(stack) = 0 /\ Len(snapshots) = 0
        BY <1>n, <1>t, <2>2
      <4> QED BY <1>1, <3>1, <4>1
    <3>3. 1 .. 0 = {}
      OBVIOUS
    <3> QED BY <3>2, <3>3 DEF AllLinked, NoIdReused
  <2> QED BY <1>n, <1>t, <2>1, <2>2
<1>2. ASSUME NEW id \in Ids, NEW row \in Rows, emplace(id, row)
      PROVE  AllLinked' /\ NoIdReused'
  <2>1. \A i \in 1 .. n : stack[i].removed_values[id] = Absent
    BY <1>n, <1>2, <1>t DEF emplace, Assignable
  <2>2. n > 0 => on_create(head, id) \in UndoStates
    BY <1>n, <1>a, <1>t, RecordTypes
  <2>3. n > 0 => Linked(snapshots[n], on_create(head, id), [indices EXCEPT ![id] = row])
    <3>1. n > 0 => head.removed_values[id] = Absent
      BY <1>n, <1>a, <1>t, <2>1
    <3> QED BY <1>n, <1>2, <1>a, <1>t, <3>1, LinkedCreate DEF emplace
  <2>4. \A k \in Ids, i \in 1 .. n - 1 :
          n > 0 /\ k \in on_create(head, id).new_ids => stack[i].removed_values[k] = Absent
    <3>1. n > 0 => on_create(head, id).new_ids = stack[n].new_ids \cup {id}
      BY <1>n, <1>a, <1>t DEF on_create, UndoStates
    <3> QED BY <1>n, <1>t, <1>u, <2>1, <3>1
  <2> QED BY <1>n, <1>1, <1>2, <2>2, <2>3, <2>4 DEF emplace
<1>3. ASSUME NEW id \in Ids, NEW row \in Rows, modify(id, row)
      PROVE  AllLinked' /\ NoIdReused'
  <2>1. n > 0 => on_modify(head, indices, id) \in UndoStates
    BY <1>n, <1>a, <1>t, RecordTypes
  <2>2. n > 0 => Linked(snapshots[n], on_modify(head, indices, id),
                        [indices EXCEPT ![id] = row])
    BY <1>n, <1>3, <1>a, <1>t, LinkedModify DEF modify, Modifiable
  <2>3. \A k \in Ids, i \in 1 .. n - 1 :
          n > 0 /\ k \in on_modify(head, indices, id).new_ids
            => stack[i].removed_values[k] = Absent
    <3>1. n > 0 => on_modify(head, indices, id).new_ids = stack[n].new_ids
      BY <1>n, <1>a, <1>t DEF on_modify, UndoStates
    <3> QED BY <1>n, <1>t, <1>u, <3>1
  <2> QED BY <1>n, <1>1, <1>3, <2>1, <2>2, <2>3 DEF modify
<1>4. ASSUME NEW id \in Ids, remove(id)
      PROVE  AllLinked' /\ NoIdReused'
  <2>1. n > 0 => on_remove(head, indices, id) \in UndoStates
    BY <1>n, <1>a, <1>t, RecordTypes
  <2>2. n > 0 => Linked(snapshots[n], on_remove(head, indices, id),
                        [indices EXCEPT ![id] = Absent])
    BY <1>n, <1>4, <1>a, <1>t, LinkedRemove DEF remove
  <2>3. \A k \in Ids, i \in 1 .. n - 1 :
          n > 0 /\ k \in on_remove(head, indices, id).new_ids
            => stack[i].removed_values[k] = Absent
    <3>1. n > 0 => on_remove(head, indices, id).new_ids \subseteq stack[n].new_ids
      BY <1>n, <1>a, <1>t DEF on_remove, UndoStates
    <3> QED BY <1>n, <1>t, <1>u, <3>1
  <2> QED BY <1>n, <1>1, <1>4, <2>1, <2>2, <2>3 DEF remove
<1>5. ASSUME start_undo_session PROVE AllLinked' /\ NoIdReused'
  <2> DEFINE f == FreshState(revision + 1)
  <2>1. revision + 1 \in Int /\ f \in UndoStates
    BY <1>n, FreshType DEF SessionInv, TypeInv, TypeOK
  <2>2. /\ Len(stack') = n + 1 /\ stack'[n + 1] = f
        /\ \A i \in 1 .. n : stack'[i] = stack[i]
    BY <1>n, <1>5, <1>t, <2>1, PushSeq DEF start_undo_session
  <2>3. /\ Len(snapshots') = n + 1 /\ snapshots'[n + 1] = indices
        /\ \A i \in 1 .. n : snapshots'[i] = snapshots[i]
    BY <1>n, <1>5, <1>t, PushSeq DEF start_undo_session
  <2>4. indices' = indices
    BY <1>n, <1>5 DEF start_undo_session
  <2>5. After(n + 1)' = indices /\ \A i \in 1 .. n : After(i)' = After(i)
    <3>1. After(n + 1)' = indices
      BY <1>n, <2>2, <2>4 DEF After
    <3>2. n > 0 => After(n)' = After(n)
      BY <1>n, <1>a, <1>t, <2>2, <2>3 DEF After
    <3>3. ASSUME NEW i \in 1 .. n, i < n PROVE After(i)' = After(i)
      <4>1. i + 1 \in 1 .. n /\ i # n + 1 /\ i # n
        BY <1>n, <1>t, <3>3
      <4> QED BY <1>n, <2>2, <2>3, <4>1 DEF After
    <3> QED BY <1>n, <1>t, <3>1, <3>2, <3>3
  <2>6. Linked(indices, f, indices)
    BY <1>n, <1>t, <2>1, LinkedFresh
  <2>7. f.new_ids = {}
    BY <1>n DEF FreshState
  <2> HIDE DEF f
  <2>8. ASSUME NEW i \in 1 .. n + 1 PROVE Linked(snapshots'[i], stack'[i], After(i)')
    <3>1. CASE i = n + 1
      BY <1>n, <2>2, <2>3, <2>5, <2>6, <3>1
    <3>2. CASE i \in 1 .. n
      BY <1>n, <1>l, <2>2, <2>3, <2>5, <3>2
    <3> QED BY <1>n, <1>t, <3>1, <3>2
  <2>9. \A i, j \in 1 .. n + 1 : \A id \in Ids :
          i < j /\ id \in stack'[j].new_ids => stack'[i].removed_values[id] = Absent
    BY <1>n, <1>t, <1>u, <2>2, <2>7
  <2> QED BY <1>n, <2>2, <2>3, <2>8, <2>9 DEF AllLinked, NoIdReused
<1>6. ASSUME UndoSucceeds PROVE AllLinked' /\ NoIdReused'
  <2>0. n > 0 /\ indices' = Revert(indices, head)
    BY <1>n, <1>6 DEF UndoSucceeds, enabled
  <2>1. indices' = snapshots[n]
    BY <1>n, <1>a, <1>l, <1>t, <2>0, LinkedRevert
  <2>2. Len(stack') = n - 1 /\ \A i \in 1 .. n - 1 : stack'[i] = stack[i]
    BY <1>n, <1>6, <1>t, <2>0, PopSeq DEF UndoSucceeds
  <2>3. Len(snapshots') = n - 1 /\ \A i \in 1 .. n - 1 : snapshots'[i] = snapshots[i]
    BY <1>n, <1>6, <1>t, <2>0, PopSeq DEF UndoSucceeds, Pop
  <2>4. \A i \in 1 .. n - 1 : After(i)' = After(i)
    <3> SUFFICES ASSUME NEW i \in 1 .. n - 1 PROVE After(i)' = After(i)
      OBVIOUS
    <3>1. i # n /\ (i = n - 1 => i + 1 = n) /\ (i # n - 1 => i + 1 \in 1 .. n - 1)
      BY <1>n
    <3> QED BY <1>n, <2>1, <2>2, <2>3, <3>1 DEF After
  <2>5. \A i \in 1 .. n - 1 : i \in 1 .. n
    BY <1>n, <1>t
  <2>6. \A i \in 1 .. n - 1 : Linked(snapshots'[i], stack'[i], After(i)')
    BY <1>n, <1>l, <2>2, <2>3, <2>4, <2>5
  <2>7. \A i, j \in 1 .. n - 1 : \A id \in Ids :
          i < j /\ id \in stack'[j].new_ids => stack'[i].removed_values[id] = Absent
    BY <1>n, <1>u, <2>2, <2>5
  <2> QED BY <1>n, <2>2, <2>3, <2>6, <2>7 DEF AllLinked, NoIdReused
<1>7. ASSUME SquashSucceeds PROVE AllLinked' /\ NoIdReused'
  <2>0. n > 0 /\ indices' = indices
    BY <1>n, <1>7 DEF SquashSucceeds, enabled
  <2>1. /\ Len(stack') = n - 1
        /\ n - 1 > 0 => stack'[n - 1] = Merge(stack[n - 1], stack[n])
        /\ \A i \in 1 .. n - 2 : stack'[i] = stack[i]
    BY <1>n, <1>7, <1>a, <1>t, <2>0, SquashedSeq DEF SquashSucceeds
  <2>2. Len(snapshots') = n - 1 /\ \A i \in 1 .. n - 1 : snapshots'[i] = snapshots[i]
    BY <1>n, <1>7, <1>t, <2>0, PopSeq DEF SquashSucceeds, Pop
  <2>3. \A i \in 1 .. n - 2 : After(i)' = After(i)
    BY <1>n, <1>t, <2>0, <2>1, <2>2 DEF After
  <2>4. n > 1 => After(n - 1)' = indices /\ After(n - 1) = snapshots[n]
    <3>1. n > 1 => n - 1 # n /\ n - 1 + 1 = n
      BY <1>n, <1>t
    <3> QED BY <1>n, <2>0, <2>1, <3>1 DEF After
  <2>5. n > 1 => Linked(snapshots[n - 1], Merge(stack[n - 1], stack[n]), indices)
    <3>1. SUFFICES ASSUME n > 1
                   PROVE Linked(snapshots[n - 1], Merge(stack[n - 1], stack[n]), indices)
      OBVIOUS
    <3>2. n \in 1 .. n /\ n - 1 \in 1 .. n /\ n - 1 < n
      BY <1>n, <1>t, <3>1
    <3>3. /\ Linked(snapshots[n - 1], stack[n - 1], snapshots[n])
          /\ Linked(snapshots[n], stack[n], indices)
      BY <1>n, <1>a, <1>l, <2>4, <3>1, <3>2
    <3>4. \A id \in stack[n].new_ids : stack[n - 1].removed_values[id] = Absent
      <4>1. stack[n].new_ids \subseteq Ids
        BY <1>n, <1>t, <3>2 DEF UndoStates
      <4> QED BY <1>n, <1>u, <3>2, <4>1
    <3> QED BY <1>n, <1>t, <3>2, <3>3, <3>4, LinkedMerge
  <2>6. n > 1 => Merge(stack[n - 1], stack[n]).new_ids
                   \subseteq stack[n - 1].new_ids \cup stack[n].new_ids
    <3>1. n > 1 => stack[n - 1] \in UndoStates
      BY <1>n, <1>t
    <3> QED BY <1>n, <3>1 DEF Merge, MergedNew, UndoStates
  <2>7. ASSUME NEW i \in 1 .. n - 1 PROVE Linked(snapshots'[i], stack'[i], After(i)')
    <3>1. CASE i = n - 1
      <4>1. n > 1 /\ n - 1 > 0 /\ n - 1 \in 1 .. n - 1
        BY <1>n, <1>t, <3>1
      <4> QED BY <1>n, <2>1, <2>2, <2>4, <2>5, <3>1, <4>1
    <3>2. CASE i # n - 1
      <4>1. i \in 1 .. n - 2 /\ i \in 1 .. n
        BY <1>n, <1>t, <3>2
      <4> QED BY <1>n, <1>l, <2>1, <2>2, <2>3, <4>1
    <3> QED BY <1>n, <3>1, <3>2
  <2>8. \A i, j \in 1 .. n - 1 : \A id \in Ids :
          i < j /\ id \in stack'[j].new_ids => stack'[i].removed_values[id] = Absent
    <3> SUFFICES ASSUME NEW i \in 1 .. n - 1, NEW j \in 1 .. n - 1, NEW id \in Ids,
                        i < j, id \in stack'[j].new_ids
                 PROVE  stack'[i].removed_values[id] = Absent
      OBVIOUS
    <3>1. i \in 1 .. n - 2 /\ stack'[i] = stack[i] /\ n > 1
      BY <1>n, <1>t, <2>1
    <3>2. CASE j < n - 1
      <4>1. j \in 1 .. n - 2 /\ j \in 1 .. n /\ i \in 1 .. n
        BY <1>n, <1>t, <3>1, <3>2
      <4> QED BY <1>n, <1>u, <2>1, <3>1, <4>1
    <3>3. CASE j = n - 1
      <4>1. id \in stack[n - 1].new_ids \/ id \in stack[n].new_ids
        BY <1>n, <2>1, <2>6, <3>1, <3>3
      <4>2. n - 1 \in 1 .. n /\ n \in 1 .. n /\ i \in 1 .. n /\ i < n - 1 /\ i < n
        BY <1>n, <1>t, <3>1
      <4> QED BY <1>n, <1>u, <3>1, <4>1, <4>2
    <3> QED BY <1>n, <1>t, <3>2, <3>3
  <2> QED BY <1>n, <2>1, <2>2, <2>7, <2>8 DEF AllLinked, NoIdReused
<1>8. ASSUME NEW r \in Int, commit(r) PROVE AllLinked' /\ NoIdReused'
  <2>1. PICK k \in 0 .. n :
           /\ stack' = SubSeq(stack, k + 1, Len(stack))
           /\ snapshots' = SubSeq(snapshots, k + 1, Len(snapshots))
    BY <1>n, <1>8 DEF commit
  <2>2. Len(stack') = n - k /\ \A i \in 1 .. n - k : stack'[i] = stack[i + k]
    <3>1. stack \in Seq(UndoStates) /\ k \in 0 .. Len(stack) /\ Len(stack) = n
      BY <1>n, <1>t
    <3> QED BY <2>1, <3>1, DropSeq
  <2>3. Len(snapshots') = n - k /\ \A i \in 1 .. n - k : snapshots'[i] = snapshots[i + k]
    <3>1. snapshots \in Seq(Tables) /\ k \in 0 .. Len(snapshots) /\ Len(snapshots) = n
      BY <1>t
    <3> QED BY <2>1, <3>1, DropSeq
  <2>4. indices' = indices
    BY <1>n, <1>8 DEF commit
  <2>5. \A i \in 1 .. n - k : i + k \in 1 .. n /\ After(i)' = After(i + k)
    BY <1>n, <1>t, <2>2, <2>3, <2>4 DEF After
  <2>6. \A i \in 1 .. n - k : Linked(snapshots'[i], stack'[i], After(i)')
    BY <1>n, <1>l, <2>2, <2>3, <2>5
  <2>7. \A i, j \in 1 .. n - k : \A id \in Ids :
          i < j /\ id \in stack'[j].new_ids => stack'[i].removed_values[id] = Absent
    <3> SUFFICES ASSUME NEW i \in 1 .. n - k, NEW j \in 1 .. n - k, NEW id \in Ids,
                        i < j, id \in stack'[j].new_ids
                 PROVE  stack'[i].removed_values[id] = Absent
      OBVIOUS
    <3>1. i + k \in 1 .. n /\ j + k \in 1 .. n /\ i + k < j + k
      BY <1>n, <1>t
    <3>2. id \in stack[j + k].new_ids /\ stack'[i] = stack[i + k]
      BY <1>n, <2>2
    <3> QED BY <1>n, <1>u, <3>1, <3>2
  <2> QED BY <1>n, <2>2, <2>3, <2>6, <2>7 DEF AllLinked, NoIdReused
<1>9. ASSUME Quiet PROVE AllLinked' /\ NoIdReused'
  <2>1. indices' = indices /\ stack' = stack /\ snapshots' = snapshots
    BY <1>n, <1>9 DEF Quiet
  <2>2. AllLinked /\ NoIdReused
    BY <1>n DEF SessionInv
  <2> QED BY <1>n, <2>1, <2>2 DEF AllLinked, NoIdReused, After
<1> QED BY <1>n, <1>2, <1>3, <1>4, <1>5, <1>6, <1>7, <1>8, <1>9, StepCases
         DEF SessionInv, TypeInv

(* The inductive invariant holds in every reachable state. *)
LEMMA SessionInvariant ==
    ASSUME ~ReuseIds
    PROVE  Spec => []SessionInv
<1>1. Init /\ TypeInv => SessionInv
  <2> SUFFICES ASSUME Init, TypeInv PROVE SessionInv
    OBVIOUS
  <2>1. Len(stack) = 0 /\ Len(snapshots) = 0 /\ 1 .. 0 = {}
    BY DEF Init
  <2> QED BY <2>1 DEF SessionInv, AllLinked, NoIdReused
<1>2. SessionInv /\ [Next]_vars => SessionInv'
  BY SessionStepInv
<1> QED BY <1>1, <1>2, TypeInvariant, PTL DEF Spec

(* Linked undo states lead back to the tables before their sessions. *)
LEMMA SessionInvRestores ==
    SessionInv => Restorable
<1> SUFFICES ASSUME SessionInv PROVE Restorable
  OBVIOUS
<1>1. Len(stack) = Len(snapshots)
  BY DEF SessionInv, TypeInv
<1>2. ASSUME NEW i \in 1 .. Len(stack)
      PROVE  Revert(After(i), stack[i]) = snapshots[i]
  <2>1. /\ stack[i] \in UndoStates /\ snapshots[i] \in Tables
        /\ After(i) \in Tables
    BY <1>1 DEF SessionInv, TypeInv, TypeOK, After
  <2>2. Linked(snapshots[i], stack[i], After(i))
    BY DEF SessionInv, AllLinked
  <2> QED BY <2>1, <2>2, LinkedRevert
<1> QED BY <1>1, <1>2 DEF Restorable

(* Undo restores the state to how it was prior to the session, after any    *)
(* sequence of row operations, nested sessions, undos, squashes and commits, *)
(* for callers that never give a removed id to a new row.                    *)
THEOREM UndoRestores ==
    ASSUME ~ReuseIds
    PROVE  Spec => []Restorable
BY SessionInvariant, SessionInvRestores, PTL

(* The stronger fact: every session's containers are disjoint and account    *)
(* for every row that changed.                                               *)
THEOREM SessionsLinked ==
    ASSUME ~ReuseIds
    PROVE  Spec => []AllLinked
<1>1. SessionInv => AllLinked
  BY DEF SessionInv
<1> QED BY <1>1, SessionInvariant, PTL

(***************************************************************************)
(* Undo finds the rows it erases and modifies.                             *)
(***************************************************************************)

(* A linked head can be reverted. *)
LEMMA HeadLinked ==
    ASSUME SessionInv, enabled
    PROVE  /\ head \in UndoStates /\ indices \in Tables
           /\ Len(snapshots) > 0 /\ snapshots[Len(snapshots)] \in Tables
           /\ Linked(snapshots[Len(snapshots)], head, indices)
           /\ RevertDefined(indices, head)
           /\ Revert(indices, head) = snapshots[Len(snapshots)]
<1>n. PICK n \in Nat : n = Len(stack)
  BY DEF SessionInv, TypeInv, TypeOK
<1>1. n \in 1 .. n /\ n = Len(snapshots)
  BY <1>n DEF SessionInv, TypeInv, enabled
<1>2. /\ head \in UndoStates /\ indices \in Tables
      /\ snapshots[n] \in Tables /\ head = stack[n] /\ After(n) = indices
  BY <1>n, <1>1 DEF SessionInv, TypeInv, TypeOK, head, After
<1>3. Linked(snapshots[n], head, indices)
  BY <1>n, <1>1, <1>2 DEF SessionInv, AllLinked
<1> QED BY <1>1, <1>2, <1>3, LinkedRevert

(* Undo never erases or modifies through an end iterator, for callers that    *)
(* never give a removed id to a new row.                                      *)
THEOREM UndoDefined ==
    ASSUME ~ReuseIds
    PROVE  Spec => []UndoFindsRows
<1>1. Init => UndoFindsRows
  BY DEF Init, UndoFindsRows
<1>2. SessionInv /\ UndoFindsRows /\ [Next]_vars => UndoFindsRows'
  <2> SUFFICES ASSUME SessionInv, UndoFindsRows, [Next]_vars PROVE UndoFindsRows'
    OBVIOUS
  <2> USE DEF UndoFindsRows
  <2>1. ASSUME Undone PROVE UndoFindsRows'
    <3>1. RevertDefined(indices, head)
      BY <2>1, HeadLinked DEF Undone
    <3> QED BY <2>1, <3>1 DEF Undone, Halt
  <2>2. CASE RowStep
    BY <2>2 DEF RowStep, emplace, modify, ModifyAborts, remove, Halt
  <2>3. CASE SessionStep
    BY <2>1, <2>3 DEF SessionStep, start_undo_session, StartOverflows, undo,
       squash, commit, set_revision, undo_all, Halt
  <2>4. CASE UndoAllLoop
    BY <2>1, <2>4 DEF UndoAllLoop, UndoAllStep, UndoAllReturns
  <2>5. CASE Halted \/ UNCHANGED vars
    BY <2>5 DEF Halted, vars
  <2> QED BY <2>2, <2>3, <2>4, <2>5 DEF Next
<1>3. Spec => []SessionInv
  BY SessionInvariant
<1> QED BY <1>1, <1>2, <1>3, PTL DEF Spec

(***************************************************************************)
(* Differences implement snapshots.                                        *)
(***************************************************************************)
LEMMA StepImplements ==
    ASSUME SessionInv, [Next]_vars
    PROVE  [VS!Next]_(VS!vars)
<1> USE DEF VS!Next, VS!vars
<1>t. TypeOK /\ Len(stack) = Len(snapshots) /\ Len(stack) \in Nat
  BY DEF SessionInv, TypeInv, TypeOK
<1>1. ASSUME NEW id \in Ids, NEW row \in Rows, emplace(id, row) \/ modify(id, row)
      PROVE  VS!Next
  <2>1. VS!Write(id, row)
    BY <1>1 DEF emplace, modify, VS!Write
  <2> QED BY <2>1
<1>2. ASSUME NEW id \in Ids, remove(id) PROVE VS!Next
  <2>1. VS!Write(id, Absent)
    BY <1>2 DEF remove, VS!Write
  <2> QED BY <2>1
<1>3. ASSUME start_undo_session PROVE VS!Next
  BY <1>3 DEF start_undo_session, VS!Start
<1>4. ASSUME UndoSucceeds PROVE VS!Next
  <2>1. enabled /\ Revert(indices, head) = snapshots[Len(snapshots)] /\ Len(snapshots) > 0
    BY <1>4, HeadLinked DEF UndoSucceeds
  <2>2. snapshots # <<>>
    BY <2>1
  <2> QED BY <1>4, <2>1, <2>2 DEF UndoSucceeds, Pop, VS!Undo
<1>5. ASSUME SquashSucceeds PROVE VS!Next
  <2>1. snapshots # <<>>
    BY <1>5, HeadLinked DEF SquashSucceeds
  <2> QED BY <1>5, <2>1 DEF SquashSucceeds, Pop, VS!Squash
<1>6. ASSUME NEW r \in Int, commit(r) PROVE VS!Next
  <2>1. PICK n \in 0 .. Len(snapshots) :
           snapshots' = SubSeq(snapshots, n + 1, Len(snapshots))
    BY <1>6, <1>t DEF commit
  <2>2. VS!Commit(n)
    BY <1>6, <2>1 DEF commit, VS!Commit
  <2> QED BY <2>2
<1>7. ASSUME Quiet PROVE [VS!Next]_(VS!vars)
  <2>1. CASE revision' = revision
    BY <1>7, <2>1 DEF Quiet
  <2>2. CASE ~enabled /\ revision' \in Nat
    <3>1. snapshots = <<>>
      BY <1>t, <2>2 DEF enabled, TypeOK
    <3> QED BY <1>7, <2>2, <3>1 DEF Quiet, VS!SetRevision
  <2> QED BY <1>7, <2>1, <2>2 DEF Quiet
<1> QED BY <1>1, <1>2, <1>3, <1>4, <1>5, <1>6, <1>7, <1>t, StepCases

(* The index, which keeps only differences, implements the store that keeps  *)
(* a snapshot per session, for callers that never give a removed id to a new *)
(* row.                                                                      *)
THEOREM IndexImplementsStore ==
    ASSUME ~ReuseIds
    PROVE  Spec => Implements
<1>1. Init => VS!Init
  BY DEF Init, VS!Init, NoRows
<1>2. SessionInv /\ [Next]_vars => [VS!Next]_(VS!vars)
  BY StepImplements
<1>3. Spec => []SessionInv
  BY SessionInvariant
<1> QED BY <1>1, <1>2, <1>3, PTL DEF Spec, Implements, VS!Spec

(***************************************************************************)
(* Uniqueness.                                                             *)
(***************************************************************************)

(* Putting old values back in order of their ids meets no clash: each takes   *)
(* the place of a row with the same key.                                      *)
LEMMA RevertIsUnique ==
    ASSUME NEW b \in Tables, NEW u \in UndoStates, NEW a \in Tables,
           Linked(b, u, a), SameKeys(b, a), Unique(a), Unique(b)
    PROVE  RevertUnique(a, u)
<1>1. ASSUME NEW id \in Ids, u.old_values[id] # Absent,
             Clash(RestoredBelow(a, u, id), id, u.old_values[id])
      PROVE  FALSE
  <2>1. a[id] # Absent /\ a[id].key = u.old_values[id].key
    BY <1>1 DEF Linked, SameKeys
  <2>2. PICK other \in Ids \ {id} :
           /\ RestoredBelow(a, u, id)[other] # Absent
           /\ RestoredBelow(a, u, id)[other].key = u.old_values[id].key
    BY <1>1 DEF Clash
  <2>3. a[other] # Absent /\ a[other].key = RestoredBelow(a, u, id)[other].key
    <3>1. CASE u.old_values[other] # Absent /\ other < id
      <4>1. RestoredBelow(a, u, id)[other] = u.old_values[other]
        BY <3>1 DEF RestoredBelow
      <4> QED BY <3>1, <4>1 DEF Linked, SameKeys
    <3>2. CASE ~(u.old_values[other] # Absent /\ other < id)
      <4>1. RestoredBelow(a, u, id)[other] = Erased(a, u)[other]
        BY <3>2 DEF RestoredBelow
      <4>2. Erased(a, u)[other] = IF other \in u.new_ids THEN Absent ELSE a[other]
        BY DEF Erased
      <4> QED BY <2>2, <4>1, <4>2
    <3> QED BY <3>1, <3>2
  <2>4. Clash(a, id, a[id])
    BY <2>1, <2>2, <2>3 DEF Clash
  <2> QED BY <2>1, <2>4 DEF Unique
<1>2. ASSUME NEW id \in Ids, u.removed_values[id] # Absent
      PROVE  u.old_values[id] = Absent /\ Erased(a, u)[id] = Absent
  BY <1>2 DEF Linked, Erased
<1>3. Unique(Revert(a, u))
  BY LinkedRevert
<1> QED BY <1>1, <1>2, <1>3 DEF RevertUnique

(* Rows that live through two sessions keep their keys through both. *)
LEMMA SameKeysMerge ==
    ASSUME NEW b \in Tables, NEW A \in UndoStates, NEW m \in Tables,
           NEW B \in UndoStates, NEW a \in Tables,
           Linked(b, A, m), Linked(m, B, a),
           \A id \in B.new_ids : A.removed_values[id] = Absent,
           SameKeys(b, m), SameKeys(m, a)
    PROVE  SameKeys(b, a)
<1> SUFFICES ASSUME NEW id \in Ids, b[id] # Absent, a[id] # Absent
             PROVE  b[id].key = a[id].key
  BY DEF SameKeys
<1>1. CASE m[id] = Absent
  BY <1>1 DEF Linked
<1>2. CASE m[id] # Absent
  BY <1>2 DEF SameKeys
<1> QED BY <1>1, <1>2

(* One row of a table with unique keys is written. *)
LEMMA UniqueWrite ==
    ASSUME NEW t \in Tables, Unique(t), NEW id \in Ids,
           NEW row \in Rows \cup {Absent}, row # Absent => ~Clash(t, id, row)
    PROVE  Unique([t EXCEPT ![id] = row])
<1> DEFINE w == [t EXCEPT ![id] = row]
<1> SUFFICES ASSUME NEW x \in Ids, w[x] # Absent, NEW y \in Ids \ {x},
                    w[y] # Absent, w[y].key = w[x].key
             PROVE  FALSE
  BY DEF Unique, Clash
<1>1. w[id] = row /\ \A z \in Ids \ {id} : w[z] = t[z]
  BY DEF Tables
<1> HIDE DEF w
<1>2. CASE x = id
  BY <1>1, <1>2 DEF Clash
<1>3. CASE y = id
  BY <1>1, <1>3 DEF Clash
<1>4. CASE x # id /\ y # id
  BY <1>1, <1>4 DEF Unique, Clash
<1> QED BY <1>2, <1>3, <1>4

(* The sessions of a disciplined caller. *)
KeyInv == SessionInv /\ KeysUnique /\ KeysStable

(* A disciplined caller's steps keep keys unique and stable. *)
LEMMA KeyStepInv ==
    ASSUME ~ReuseIds, ~RekeyRows
    PROVE  KeyInv /\ [Next]_vars => KeyInv'
<1> SUFFICES ASSUME KeyInv, [Next]_vars
             PROVE  KeysUnique' /\ KeysStable'
  BY SessionStepInv DEF KeyInv
<1>i. SessionInv
  BY DEF KeyInv
<1>n. PICK n \in Nat : n = Len(stack)
  BY <1>i DEF SessionInv, TypeInv, TypeOK
<1>t. /\ TypeOK /\ Len(stack) = n /\ Len(snapshots) = n
      /\ stack \in Seq(UndoStates) /\ snapshots \in Seq(Tables) /\ indices \in Tables
      /\ \A i \in 1 .. n : /\ stack[i] \in UndoStates /\ snapshots[i] \in Tables
                           /\ After(i) \in Tables
                           /\ Linked(snapshots[i], stack[i], After(i))
                           /\ SameKeys(snapshots[i], After(i))
                           /\ Unique(snapshots[i])
      /\ Unique(indices)
  BY <1>n, <1>i DEF KeyInv, SessionInv, TypeInv, TypeOK, AllLinked, After,
                    KeysUnique, KeysStable
<1>a. n > 0 => /\ n \in 1 .. n /\ After(n) = indices /\ head = stack[n]
               /\ SameKeys(snapshots[n], indices)
               /\ Linked(snapshots[n], head, indices)
  <2>1. n > 0 => n \in 1 .. n /\ After(n) = indices /\ head = stack[n]
    BY <1>n DEF After, head
  <2> QED BY <1>t, <2>1
(* One row is written; the number of sessions and the snapshots stay. *)
<1>1. ASSUME NEW id \in Ids, NEW row \in Rows \cup {Absent},
             indices' = [indices EXCEPT ![id] = row],
             row # Absent => ~Clash(indices, id, row),
             n > 0 /\ row # Absent /\ snapshots[n][id] # Absent
               => row.key = snapshots[n][id].key,
             Len(stack') = n, snapshots' = snapshots
      PROVE  KeysUnique' /\ KeysStable'
  <2>1. Unique(indices')
    BY <1>1, <1>t, UniqueWrite
  <2>2. KeysUnique'
    BY <1>1, <1>t, <2>1 DEF KeysUnique
  <2>3. \A i \in 1 .. n : i # n => After(i)' = After(i)
    BY <1>1, <1>n DEF After
  <2>4. n > 0 => SameKeys(snapshots[n], indices')
    BY <1>1, <1>a, <1>t DEF SameKeys, Tables
  <2>5. n > 0 => After(n)' = indices'
    BY <1>1 DEF After
  <2>6. \A i \in 1 .. n : SameKeys(snapshots'[i], After(i)')
    <3> SUFFICES ASSUME NEW i \in 1 .. n PROVE SameKeys(snapshots'[i], After(i)')
      OBVIOUS
    <3>1. CASE i = n
      <4>1. n > 0
        BY <1>n, <3>1
      <4> QED BY <1>1, <2>4, <2>5, <3>1, <4>1
    <3>2. CASE i # n
      BY <1>1, <1>t, <2>3, <3>2
    <3> QED BY <3>1, <3>2
  <2> QED BY <1>1, <2>2, <2>6 DEF KeysStable
<1>r. ASSUME NEW u, Record(u) PROVE Len(stack') = n
  BY <1>r, <1>t, <1>n DEF Record, enabled
<1>2. ASSUME NEW id \in Ids, NEW row \in Rows, emplace(id, row)
      PROVE  KeysUnique' /\ KeysStable'
  <2>1. n > 0 => snapshots[n][id] = Absent
    <3>1. n > 0 => head.removed_values[id] = Absent
      BY <1>2, <1>a, <1>n DEF emplace, Assignable
    <3> QED BY <1>2, <1>a, <3>1 DEF emplace, Linked
  <2> QED BY <1>1, <1>2, <1>r, <2>1 DEF emplace
<1>3. ASSUME NEW id \in Ids, NEW row \in Rows, modify(id, row)
      PROVE  KeysUnique' /\ KeysStable'
  <2>1. n > 0 /\ snapshots[n][id] # Absent => row.key = snapshots[n][id].key
    BY <1>3, <1>a DEF modify, Modifiable, SameKeys
  <2> QED BY <1>1, <1>3, <1>r, <2>1 DEF modify
<1>4. ASSUME NEW id \in Ids, remove(id) PROVE KeysUnique' /\ KeysStable'
  BY <1>1, <1>4, <1>r DEF remove
<1>5. ASSUME start_undo_session PROVE KeysUnique' /\ KeysStable'
  <2>1. /\ Len(stack') = n + 1 /\ indices' = indices
        /\ Len(snapshots') = n + 1 /\ snapshots'[n + 1] = indices
        /\ \A i \in 1 .. n : snapshots'[i] = snapshots[i]
    <3>1. FreshState(revision + 1) \in UndoStates
      BY <1>t, FreshType DEF TypeOK
    <3> QED BY <1>5, <1>t, <3>1, PushSeq DEF start_undo_session
  <2>2. After(n + 1)' = indices
    BY <2>1 DEF After
  <2>3. ASSUME NEW i \in 1 .. n PROVE After(i)' = After(i)
    <3>1. i # n + 1 /\ (i = n => i + 1 = n + 1) /\ (i # n => i + 1 \in 1 .. n)
      BY <1>n
    <3> QED BY <1>n, <2>1, <3>1 DEF After
  <2>4. SameKeys(indices, indices)
    BY DEF SameKeys
  <2>5. \A i \in 1 .. n + 1 : i = n + 1 \/ i \in 1 .. n
    BY <1>n
  <2>6. \A i \in 1 .. n + 1 : Unique(snapshots'[i]) /\ SameKeys(snapshots'[i], After(i)')
    BY <1>t, <2>1, <2>2, <2>3, <2>4, <2>5
  <2> QED BY <1>t, <2>1, <2>6 DEF KeysUnique, KeysStable
<1>6. ASSUME UndoSucceeds PROVE KeysUnique' /\ KeysStable'
  <2>1. n > 0 /\ indices' = snapshots[n]
    BY <1>6, <1>i, <1>n, <1>t, HeadLinked DEF UndoSucceeds, enabled
  <2>2. Len(stack') = n - 1
    BY <1>6, <1>t, <2>1, PopSeq DEF UndoSucceeds
  <2>3. Len(snapshots') = n - 1 /\ \A i \in 1 .. n - 1 : snapshots'[i] = snapshots[i]
    BY <1>6, <1>t, <2>1, PopSeq DEF UndoSucceeds, Pop
  <2>4. ASSUME NEW i \in 1 .. n - 1 PROVE After(i)' = After(i)
    <3>1. i # n /\ (i = n - 1 => i + 1 = n) /\ (i # n - 1 => i + 1 \in 1 .. n - 1)
      BY <1>n
    <3> QED BY <1>n, <2>1, <2>2, <2>3, <3>1 DEF After
  <2>5. \A i \in 1 .. n - 1 : i \in 1 .. n
    BY <1>n
  <2>6. \A i \in 1 .. n - 1 : Unique(snapshots'[i]) /\ SameKeys(snapshots'[i], After(i)')
    BY <1>t, <2>3, <2>4, <2>5
  <2>7. Unique(indices')
    BY <1>t, <1>a, <2>1
  <2> QED BY <2>2, <2>3, <2>6, <2>7 DEF KeysUnique, KeysStable
<1>7. ASSUME SquashSucceeds PROVE KeysUnique' /\ KeysStable'
  <2>0. n > 0 /\ indices' = indices
    BY <1>7, <1>n DEF SquashSucceeds, enabled
  <2>1. Len(stack') = n - 1
    BY <1>7, <1>t, <2>0, SquashedSeq DEF SquashSucceeds
  <2>2. Len(snapshots') = n - 1 /\ \A i \in 1 .. n - 1 : snapshots'[i] = snapshots[i]
    BY <1>7, <1>t, <2>0, PopSeq DEF SquashSucceeds, Pop
  <2>3. ASSUME NEW i \in 1 .. n - 1 PROVE SameKeys(snapshots[i], After(i)')
    <3>0. i \in 1 .. n /\ i # n
      BY <1>n
    <3>1. CASE i = n - 1
      <4>1. n \in 1 .. n /\ i < n /\ i + 1 = n /\ After(i)' = indices
        BY <1>n, <2>0, <2>1, <3>1 DEF After
      <4>2. After(i) = snapshots[n]
        BY <1>n, <3>0, <4>1 DEF After
      <4>3. \A id \in stack[n].new_ids : stack[i].removed_values[id] = Absent
        <5>1. stack[n].new_ids \subseteq Ids
          BY <1>t, <4>1 DEF UndoStates
        <5> QED BY <1>i, <1>n, <3>0, <4>1, <5>1 DEF SessionInv, NoIdReused
      <4>4. /\ Linked(snapshots[i], stack[i], snapshots[n])
            /\ SameKeys(snapshots[i], snapshots[n])
        BY <1>t, <3>0, <4>2
      <4>5. /\ Linked(snapshots[n], stack[n], indices)
            /\ SameKeys(snapshots[n], indices)
        BY <1>a, <2>0
      <4>6. /\ stack[i] \in UndoStates /\ stack[n] \in UndoStates
            /\ snapshots[i] \in Tables /\ snapshots[n] \in Tables /\ indices \in Tables
        BY <1>t, <3>0, <4>1
      <4> QED BY <4>1, <4>3, <4>4, <4>5, <4>6, SameKeysMerge
    <3>2. CASE i # n - 1
      <4>1. i + 1 \in 1 .. n - 1
        BY <1>n, <3>2
      <4>2. After(i)' = After(i)
        BY <1>n, <2>1, <2>2, <3>0, <3>2, <4>1 DEF After
      <4> QED BY <1>t, <3>0, <4>2
    <3> QED BY <3>1, <3>2
  <2>4. \A i \in 1 .. n - 1 : i \in 1 .. n
    BY <1>n
  <2>5. \A i \in 1 .. n - 1 : Unique(snapshots'[i]) /\ SameKeys(snapshots'[i], After(i)')
    BY <1>t, <2>2, <2>3, <2>4
  <2> QED BY <1>t, <2>0, <2>1, <2>2, <2>5 DEF KeysUnique, KeysStable
<1>8. ASSUME NEW r \in Int, commit(r) PROVE KeysUnique' /\ KeysStable'
  <2>1. PICK k \in 0 .. n :
           /\ stack' = SubSeq(stack, k + 1, Len(stack))
           /\ snapshots' = SubSeq(snapshots, k + 1, Len(snapshots))
    BY <1>8, <1>n DEF commit
  <2>2. Len(stack') = n - k
    BY <1>t, <2>1, DropSeq
  <2>3. Len(snapshots') = n - k /\ \A i \in 1 .. n - k : snapshots'[i] = snapshots[i + k]
    BY <1>t, <2>1, DropSeq
  <2>4. indices' = indices
    BY <1>8 DEF commit
  <2>5. \A i \in 1 .. n - k : i + k \in 1 .. n /\ After(i)' = After(i + k)
    BY <1>n, <1>t, <2>2, <2>3, <2>4 DEF After
  <2>6. \A i \in 1 .. n - k : Unique(snapshots'[i]) /\ SameKeys(snapshots'[i], After(i)')
    BY <1>t, <2>3, <2>5
  <2> QED BY <1>t, <2>2, <2>3, <2>4, <2>6 DEF KeysUnique, KeysStable
<1>9. ASSUME Quiet PROVE KeysUnique' /\ KeysStable'
  <2>1. indices' = indices /\ stack' = stack /\ snapshots' = snapshots
    BY <1>9 DEF Quiet
  <2>2. KeysUnique /\ KeysStable
    BY DEF KeyInv
  <2> QED BY <2>1, <2>2 DEF KeysUnique, KeysStable, After
<1> QED BY <1>2, <1>3, <1>4, <1>5, <1>6, <1>7, <1>8, <1>9, <1>t, StepCases

(* Neither undo's and modify's std::abort nor squash's assertions are ever   *)
(* reached by callers that never give a removed id to a new row and never    *)
(* change a row's key: the preconditions in modify's comment are met then.   *)
THEOREM DisciplinedNeverAborts ==
    ASSUME ~ReuseIds, ~RekeyRows
    PROVE  Spec => []NeverAborts
<1>1. Init /\ SessionInv => KeyInv /\ NeverAborts
  <2> SUFFICES ASSUME Init, SessionInv PROVE KeyInv /\ NeverAborts
    OBVIOUS
  <2>1. Len(stack) = 0 /\ Len(snapshots) = 0
    BY DEF Init
  <2>2. 1 .. 0 = {}
    OBVIOUS
  <2>3. Unique(indices)
    BY DEF Init, NoRows, Unique
  <2>4. NeverAborts
    BY DEF Init, NeverAborts
  <2> QED BY <2>1, <2>2, <2>3, <2>4 DEF KeyInv, KeysUnique, KeysStable
<1>2. KeyInv /\ [Next]_vars => KeyInv'
  BY KeyStepInv
<1>3. KeyInv /\ NeverAborts /\ [Next]_vars => NeverAborts'
  <2> SUFFICES ASSUME KeyInv, NeverAborts, [Next]_vars PROVE NeverAborts'
    OBVIOUS
  <2> USE DEF NeverAborts
  <2>i. SessionInv
    BY DEF KeyInv
  <2>n. PICK n \in Nat : n = Len(stack) /\ n = Len(snapshots)
    BY <2>i DEF SessionInv, TypeInv, TypeOK
  <2>1. ASSUME Undone PROVE NeverAborts'
    <3>1. enabled /\ n \in 1 .. n
      BY <2>1, <2>n DEF Undone, enabled
    <3>2. /\ Linked(snapshots[n], head, indices) /\ head \in UndoStates
          /\ snapshots[n] \in Tables /\ indices \in Tables
      BY <2>i, <2>n, <3>1, HeadLinked
    <3>3. /\ SameKeys(snapshots[n], indices)
          /\ Unique(snapshots[n]) /\ Unique(indices)
      BY <2>n, <3>1 DEF KeyInv, KeysStable, KeysUnique, After
    <3>4. RevertUnique(indices, head)
      BY <3>2, <3>3, RevertIsUnique
    <3> QED BY <2>1, <3>4 DEF Undone, Halt
  <2>2. ASSUME NEW id \in Ids, NEW row \in Rows, ModifyAborts(id, row) PROVE FALSE
    <3>1. indices[id] # Absent /\ row.key = indices[id].key /\ Clash(indices, id, row)
      BY <2>2 DEF ModifyAborts, Modifiable
    <3>2. Clash(indices, id, indices[id])
      BY <3>1 DEF Clash
    <3> QED BY <3>1, <3>2 DEF KeyInv, KeysUnique, Unique
  <2>3. ASSUME ~SquashAsserts PROVE FALSE
    <3>1. n > 1 /\ n \in 1 .. n /\ n - 1 \in 1 .. n /\ n - 1 < n
      BY <2>3, <2>n DEF SquashAsserts
    <3>2. /\ stack[n - 1] \in UndoStates /\ stack[n] \in UndoStates /\ indices \in Tables
          /\ snapshots[n - 1] \in Tables /\ snapshots[n] \in Tables
      BY <2>i, <2>n, <3>1 DEF SessionInv, TypeInv, TypeOK
    <3>3. After(n) = indices /\ After(n - 1) = snapshots[n]
      BY <2>n, <3>1 DEF After
    <3>4. /\ Linked(snapshots[n - 1], stack[n - 1], snapshots[n])
          /\ Linked(snapshots[n], stack[n], indices)
      BY <2>i, <2>n, <3>1, <3>3 DEF SessionInv, AllLinked
    <3>5. \A id \in stack[n].new_ids : stack[n - 1].removed_values[id] = Absent
      <4>1. stack[n].new_ids \subseteq Ids
        BY <3>2 DEF UndoStates
      <4> QED BY <2>i, <2>n, <3>1, <4>1 DEF SessionInv, NoIdReused
    <3>6. MergeAsserts(stack[n - 1], stack[n])
      BY <3>2, <3>4, <3>5, LinkedMerge
    <3> QED BY <2>3, <2>n, <3>6 DEF SquashAsserts, head
  <2>4. CASE RowStep
    BY <2>2, <2>4 DEF RowStep, emplace, modify, remove
  <2>5. CASE SessionStep
    BY <2>1, <2>3, <2>5 DEF SessionStep, start_undo_session, StartOverflows, undo,
       squash, commit, set_revision, undo_all, Halt
  <2>6. CASE UndoAllLoop
    BY <2>1, <2>6 DEF UndoAllLoop, UndoAllStep, UndoAllReturns
  <2>7. CASE Halted \/ UNCHANGED vars
    BY <2>7 DEF Halted, vars
  <2> QED BY <2>4, <2>5, <2>6, <2>7 DEF Next
<1>4. Spec => []SessionInv
  BY SessionInvariant
<1> QED BY <1>1, <1>2, <1>3, <1>4, PTL DEF Spec
=============================================================================
