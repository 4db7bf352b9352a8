----------------------------- MODULE UndoIndex ------------------------------
(***************************************************************************)
(* chainbase::generic_index: a table of objects with a stack of undo       *)
(* states.  An undo state records only what changed since its session      *)
(* began: the old value of each modified object, the value of each removed *)
(* object, and the ids of the new ones.                                    *)
(*                                                                         *)
(* A total function over Ids stands for each std::map keyed by id: NoObj   *)
(* marks an absent key.  KeyOf is the object's unique secondary key (an    *)
(* account's name, an escrow's (from, id) ...): no object of the chain     *)
(* changes it after creation, so modify keeps it.                          *)
(***************************************************************************)
EXTENDS Integers, Sequences

CONSTANTS
  MaxObjects,   \* bound: ids are below it
  MaxRevision,  \* bound: no session is started at this revision
  Values,       \* what an object can hold
  NoObj,        \* "no such object"
  Keys,         \* values of the unique secondary key
  KeyOf         \* the unique secondary key of each value

ASSUME BoundAssumption == MaxObjects \in Nat /\ MaxRevision \in Nat

ASSUME ValueAssumption == NoObj \notin Values /\ KeyOf \in [Values -> Keys]

Ids == 0 .. MaxObjects - 1

Obj == Values \cup {NoObj}

VARIABLES
  indices,   \* _indices: id |-> object
  next_id,   \* _next_id
  revision,  \* _revision
  stack,     \* _stack: the undo states, oldest first
  saved      \* history variable: what the table was when each session began

vars == <<indices, next_id, revision, stack, saved>>

UndoState ==
  [old_values : [Ids -> Obj], removed_values : [Ids -> Obj],
   new_ids : SUBSET Ids, old_next_id : 0 .. MaxObjects, revision : Int]

Snapshot == [table : [Ids -> Obj], next : 0 .. MaxObjects]

NoObjects == [i \in Ids |-> NoObj]

Init ==
  /\ indices = NoObjects
  /\ next_id = 0
  /\ revision = 0
  /\ stack = << >>
  /\ saved = << >>

enabled == stack # << >>

head == stack[Len(stack)]

ButLast(s) == SubSeq(s, 1, Len(s) - 1)

\* The secondary key of value v belongs to no object of table t but i's.
KeyFree(t, i, v) ==
  \A j \in Ids \ {i} : t[j] # NoObj => KeyOf[t[j]] # KeyOf[v]

-----------------------------------------------------------------------------
\* The recording done before every write: what becomes of the top undo state.

on_create(s, i) == [s EXCEPT !.new_ids = @ \cup {i}]

\* Mutant: a second write of the same object overwrites the value recorded first.
on_modify_Again(s, i) ==
  IF i \in s.new_ids THEN s ELSE [s EXCEPT !.old_values[i] = indices[i]]

on_modify(s, i) ==
  IF i \in s.new_ids \/ s.old_values[i] # NoObj
  THEN s
  ELSE [s EXCEPT !.old_values[i] = indices[i]]

\* Mutant: a new object that is removed stays among the new ones.
on_remove_KeepsNew(s, i) ==
  IF i \in s.new_ids \/ s.removed_values[i] # NoObj
  THEN s
  ELSE IF s.old_values[i] # NoObj
  THEN [s EXCEPT !.removed_values[i] = s.old_values[i],
                 !.old_values[i] = NoObj]
  ELSE [s EXCEPT !.removed_values[i] = indices[i]]

on_remove(s, i) ==
  IF i \in s.new_ids
  THEN [s EXCEPT !.new_ids = @ \ {i}]
  ELSE IF s.old_values[i] # NoObj
  THEN [s EXCEPT !.removed_values[i] = s.old_values[i],
                 !.old_values[i] = NoObj]
  ELSE IF s.removed_values[i] # NoObj
  THEN s
  ELSE [s EXCEPT !.removed_values[i] = indices[i]]

\* Replace the top undo state, if undo is enabled at all.
Record(s) == IF enabled THEN [stack EXCEPT ![Len(stack)] = s] ELSE stack

-----------------------------------------------------------------------------
\* Writes.  A violated uniqueness constraint throws before anything changed.

emplace ==
  /\ next_id \in Ids
  /\ \E v \in Values :
        /\ KeyFree(indices, next_id, v)
        /\ indices' = [indices EXCEPT ![next_id] = v]
  /\ next_id' = next_id + 1
  /\ stack' = Record(on_create(head, next_id))
  /\ UNCHANGED <<revision, saved>>

\* A modifier that throws half way leaves the object with some other value, so
\* it is a modify too.
modify ==
  /\ \E i \in Ids, v \in Values :
        /\ indices[i] # NoObj
        /\ KeyOf[v] = KeyOf[indices[i]]
        /\ indices' = [indices EXCEPT ![i] = v]
        /\ stack' = Record(on_modify(head, i))
  /\ UNCHANGED <<next_id, revision, saved>>

remove ==
  /\ \E i \in Ids :
        /\ indices[i] # NoObj
        /\ indices' = [indices EXCEPT ![i] = NoObj]
        /\ stack' = Record(on_remove(head, i))
  /\ UNCHANGED <<next_id, revision, saved>>

-----------------------------------------------------------------------------
\* Sessions.

start_undo_session ==
  /\ revision < MaxRevision
  /\ revision' = revision + 1
  /\ stack' = Append(stack, [old_values |-> NoObjects,
                             removed_values |-> NoObjects,
                             new_ids |-> {},
                             old_next_id |-> next_id,
                             revision |-> revision + 1])
  /\ saved' = Append(saved, [table |-> indices, next |-> next_id])
  /\ UNCHANGED <<indices, next_id>>

\* The three loops of undo(), in their order.
RestoreOld(s, t) ==
  [i \in Ids |-> IF s.old_values[i] # NoObj THEN s.old_values[i] ELSE t[i]]

EraseNew(s, t) == [i \in Ids |-> IF i \in s.new_ids THEN NoObj ELSE t[i]]

RestoreRemoved(s, t) ==
  [i \in Ids |-> IF s.removed_values[i] # NoObj THEN s.removed_values[i] ELSE t[i]]

Reverted(s, t) == RestoreRemoved(s, EraseNew(s, RestoreOld(s, t)))

undo ==
  /\ enabled
  /\ indices' = Reverted(head, indices)
  /\ next_id' = head.old_next_id
  /\ stack' = ButLast(stack)
  /\ revision' = revision - 1
  /\ saved' = ButLast(saved)

\* Mutant: the new objects of the upper state are forgotten.
Merged_LosesNew(prev, s) ==
  [prev EXCEPT
     !.old_values = [i \in Ids |-> IF prev.old_values[i] # NoObj \/ i \in prev.new_ids
                                   THEN prev.old_values[i] ELSE s.old_values[i]],
     !.removed_values = [i \in Ids |-> IF s.removed_values[i] # NoObj
                                       THEN s.removed_values[i]
                                       ELSE prev.removed_values[i]]]

\* prev_state after s, the state above it, was merged into it: the 4x4 matrix.
Merged(prev, s) ==
  LET newOld(i) == /\ s.old_values[i] # NoObj
                   /\ i \notin prev.new_ids
                   /\ prev.old_values[i] = NoObj
      old == [i \in Ids |-> IF newOld(i) THEN s.old_values[i] ELSE prev.old_values[i]]
      new == prev.new_ids \cup s.new_ids
      del == {i \in Ids : s.removed_values[i] # NoObj}
  IN [prev EXCEPT
        !.old_values = [i \in Ids |-> IF i \in del \ new THEN NoObj ELSE old[i]],
        !.new_ids = new \ del,
        !.removed_values =
           [i \in Ids |-> IF i \notin del \ new THEN prev.removed_values[i]
                          ELSE IF old[i] # NoObj THEN old[i]
                          ELSE s.removed_values[i]]]

squash ==
  /\ enabled
  /\ IF Len(stack) = 1
     THEN /\ stack' = << >>
          /\ UNCHANGED revision
     ELSE /\ stack' = Append(SubSeq(stack, 1, Len(stack) - 2),
                             Merged(stack[Len(stack) - 1], head))
          /\ revision' = revision - 1
  /\ saved' = ButLast(saved)
  /\ UNCHANGED <<indices, next_id>>

\* pop_front while the front's revision is not above r.
commit ==
  /\ \E r \in 0 .. MaxRevision, n \in 1 .. Len(stack) :
        /\ \A k \in 1 .. n : stack[k].revision <= r
        /\ n < Len(stack) => stack[n + 1].revision > r
        /\ stack' = SubSeq(stack, n + 1, Len(stack))
        /\ saved' = SubSeq(saved, n + 1, Len(saved))
  /\ UNCHANGED <<indices, next_id, revision>>

set_revision ==
  /\ ~ enabled
  /\ revision' \in 0 .. MaxRevision
  /\ UNCHANGED <<indices, next_id, stack, saved>>

Next ==
  \/ emplace \/ modify \/ remove
  \/ start_undo_session \/ undo \/ squash \/ commit \/ set_revision

Spec == Init /\ [][Next]_vars

-----------------------------------------------------------------------------
(***************************************************************************)
(* Properties.                                                             *)
(***************************************************************************)

\* The table that undo state k is to be applied to.
Above(k) == IF k = Len(stack) THEN indices ELSE saved[k + 1].table

UniqueKeys(t) ==
  \A i, j \in Ids : (t[i] # NoObj /\ t[j] # NoObj /\ i # j) => KeyOf[t[i]] # KeyOf[t[j]]

\* Undo state s describes changes that led to table t.
Consistent(s, t) ==
  \A i \in Ids :
     /\ i \in s.new_ids => /\ t[i] # NoObj
                           /\ s.old_values[i] = NoObj
                           /\ s.removed_values[i] = NoObj
     /\ s.old_values[i] # NoObj => /\ t[i] # NoObj
                                   /\ s.removed_values[i] = NoObj
                                   /\ KeyOf[s.old_values[i]] = KeyOf[t[i]]
     /\ s.removed_values[i] # NoObj => t[i] = NoObj

\* Type invariant of the index and its undo stack.
TypeOK ==
  /\ indices \in [Ids -> Obj]
  /\ next_id \in 0 .. MaxObjects
  /\ revision \in Int
  /\ stack \in Seq(UndoState)
  /\ saved \in Seq(Snapshot)
  /\ Len(saved) = Len(stack)

\* undo() is exact at every depth: applying an undo state to the table it is
\* meant for gives back, object by object, the table and the next id there were
\* when its session began, whatever was created, modified, removed, squashed or
\* committed since.
UndoIsExact ==
  \A k \in 1 .. Len(stack) :
     /\ Reverted(stack[k], Above(k)) = saved[k].table
     /\ stack[k].old_next_id = saved[k].next

\* undo() never fails half way: an object whose old value it restores, or which
\* it erases, is there; an object it puts back is not; and neither loop meets a
\* secondary key that is taken.  An exception between the loops would leave an
\* index that is in no version at all.
UndoNeverFails ==
  enabled => /\ Consistent(head, indices)
             /\ UniqueKeys(RestoreOld(head, indices))
             /\ UniqueKeys(Reverted(head, indices))

\* No id is handed out twice: every object of the current table and of every
\* saved one has an id below that table's next id.
IdsBelowNext ==
  /\ \A i \in Ids : indices[i] # NoObj => i < next_id
  /\ \A k \in 1 .. Len(saved), i \in Ids : saved[k].table[i] # NoObj => i < saved[k].next

\* The undo states carry consecutive revision numbers that end at _revision, so
\* that commit(r) drops exactly the history up to block r.
RevisionsConsecutive ==
  \A k \in 1 .. Len(stack) : stack[k].revision = revision - Len(stack) + k

\* squash() "merges the change set from the two most recent revision numbers
\* into one revision number (reducing the head revision number)".
SquashReducesRevision == [][squash => revision' = revision - 1]_vars

Store == INSTANCE VersionedStore
           WITH table <- indices, next <- next_id, versions <- saved, rev <- revision

\* The index implements a table under a stack of full saved versions, although
\* it only keeps what changed.
ImplementsVersionedStore == Store!SSpec
=============================================================================
