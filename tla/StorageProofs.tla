---------------------------- MODULE StorageProofs ----------------------------
(***************************************************************************)
(* The two stores of a node: the undo stack of chainbase is exact, for     *)
(* every number of objects and every depth of sessions; the block log      *)
(* finds every block again, for every number of blocks.                    *)
(***************************************************************************)
EXTENDS UndoIndex, BlockLog, TLAPS

\* The steps late in a module of this size need more than the default time.
USE SMTT(30), ZenonT(30), SMTT(60)

\* The next id of the table that undo state k is to be applied to.
AboveNext(k) == IF k = Len(stack) THEN next_id ELSE saved[k + 1].next

\* One level of the stack: the undo state leads from the table above it to the
\* version saved when its session began.
Level(k) ==
  /\ Consistent(stack[k], Above(k))
  /\ Reverted(stack[k], Above(k)) = saved[k].table
  /\ stack[k].old_next_id = saved[k].next
  /\ stack[k].revision = revision - Len(stack) + k
  /\ saved[k].next <= AboveNext(k)
  /\ \A i \in stack[k].new_ids : i >= saved[k].next
  /\ UniqueKeys(saved[k].table)
  /\ \A i \in Ids : saved[k].table[i] # NoObj => i < saved[k].next

\* The inductive invariant.
IInv ==
  /\ TypeOK
  /\ UniqueKeys(indices)
  /\ \A i \in Ids : indices[i] # NoObj => i < next_id
  /\ \A k \in 1 .. Len(stack) : Level(k)

-----------------------------------------------------------------------------
(* What the pure operators do, object by object. *)

LEMMA RevertedAt ==
  ASSUME NEW s \in UndoState, NEW t \in [Ids -> Obj]
  PROVE  /\ Reverted(s, t) \in [Ids -> Obj]
         /\ \A i \in Ids : Reverted(s, t)[i] =
              IF s.removed_values[i] # NoObj THEN s.removed_values[i]
              ELSE IF i \in s.new_ids THEN NoObj
              ELSE IF s.old_values[i] # NoObj THEN s.old_values[i] ELSE t[i]
BY DEF Reverted, RestoreOld, EraseNew, RestoreRemoved, UndoState, Obj

\* An undo state without entries changes nothing.
LEMMA EmptyState ==
  ASSUME NEW t \in [Ids -> Obj], NEW n \in 0 .. MaxObjects, NEW r \in Int
  PROVE  LET s == [old_values |-> NoObjects, removed_values |-> NoObjects,
                   new_ids |-> {}, old_next_id |-> n, revision |-> r]
         IN  s \in UndoState /\ Consistent(s, t) /\ Reverted(s, t) = t
<1> DEFINE s == [old_values |-> NoObjects, removed_values |-> NoObjects,
                 new_ids |-> {}, old_next_id |-> n, revision |-> r]
<1>1. s \in UndoState
  BY DEF UndoState, NoObjects, Obj
<1>2. Consistent(s, t)
  BY DEF Consistent, NoObjects
<1>3. Reverted(s, t) = t
  BY <1>1, RevertedAt DEF NoObjects
<1> QED BY <1>1, <1>2, <1>3

\* squash: undoing the merged state is undoing the upper one, then the lower.
LEMMA MergeIsExact ==
  ASSUME NEW prev \in UndoState, NEW s \in UndoState,
         NEW t \in [Ids -> Obj], NEW u \in [Ids -> Obj],
         Consistent(s, t), u = Reverted(s, t), Consistent(prev, u),
         \A i \in s.new_ids : prev.removed_values[i] = NoObj
  PROVE  /\ Merged(prev, s) \in UndoState
         /\ Consistent(Merged(prev, s), t)
         /\ Reverted(Merged(prev, s), t) = Reverted(prev, u)
         /\ Merged(prev, s).new_ids \subseteq prev.new_ids \cup s.new_ids
         /\ Merged(prev, s).old_next_id = prev.old_next_id
         /\ Merged(prev, s).revision = prev.revision
<1> DEFINE m == Merged(prev, s)
<1>1. m \in UndoState /\ m.old_next_id = prev.old_next_id /\ m.revision = prev.revision
  BY Zenon DEF Merged, UndoState, Obj
<1>2. m.new_ids = (prev.new_ids \cup s.new_ids) \ {i \in Ids : s.removed_values[i] # NoObj}
  BY DEF Merged, UndoState
<1>3. ASSUME NEW i \in Ids
      PROVE  /\ m.old_values[i] =
                  IF s.removed_values[i] # NoObj /\ i \notin prev.new_ids \cup s.new_ids THEN NoObj
                  ELSE IF /\ s.old_values[i] # NoObj
                          /\ i \notin prev.new_ids
                          /\ prev.old_values[i] = NoObj
                  THEN s.old_values[i] ELSE prev.old_values[i]
             /\ m.removed_values[i] =
                  IF ~(s.removed_values[i] # NoObj /\ i \notin prev.new_ids \cup s.new_ids)
                  THEN prev.removed_values[i]
                  ELSE IF /\ s.old_values[i] # NoObj
                          /\ i \notin prev.new_ids
                          /\ prev.old_values[i] = NoObj
                  THEN s.old_values[i]
                  ELSE IF prev.old_values[i] # NoObj THEN prev.old_values[i]
                  ELSE s.removed_values[i]
  BY DEF Merged, UndoState
<1> HIDE DEF m
<1>4. \A i \in Ids : u[i] =
        IF s.removed_values[i] # NoObj THEN s.removed_values[i]
        ELSE IF i \in s.new_ids THEN NoObj
        ELSE IF s.old_values[i] # NoObj THEN s.old_values[i] ELSE t[i]
  BY RevertedAt
<1>5. Consistent(m, t)
  BY <1>1, <1>2, <1>3, <1>4, ValueAssumption DEF Consistent, UndoState, Obj
<1>6. Reverted(m, t) = Reverted(prev, u)
  <2>1. \A i \in Ids : Reverted(m, t)[i] = Reverted(prev, u)[i]
    <3> SUFFICES ASSUME NEW i \in Ids
                 PROVE  Reverted(m, t)[i] = Reverted(prev, u)[i]
      OBVIOUS
    <3>1. Reverted(prev, u)[i] =
            IF prev.removed_values[i] # NoObj THEN prev.removed_values[i]
            ELSE IF i \in prev.new_ids THEN NoObj
            ELSE IF prev.old_values[i] # NoObj THEN prev.old_values[i] ELSE u[i]
      BY RevertedAt
    <3>2. Reverted(m, t)[i] =
            IF m.removed_values[i] # NoObj THEN m.removed_values[i]
            ELSE IF i \in m.new_ids THEN NoObj
            ELSE IF m.old_values[i] # NoObj THEN m.old_values[i] ELSE t[i]
      BY <1>1, RevertedAt
    <3> QED BY <1>2, <1>3, <1>4, <3>1, <3>2 DEF Consistent
  <2> QED BY <1>1, <2>1, RevertedAt
<1> QED BY <1>1, <1>2, <1>5, <1>6 DEF m

\* Recording a write in undo state s keeps it leading to the same version.
LEMMA CreateIsExact ==
  ASSUME NEW s \in UndoState, NEW i \in Ids, NEW v \in Values,
         TypeOK, Consistent(s, indices), indices[i] = NoObj,
         Reverted(s, indices)[i] = NoObj
  PROVE  LET t == [indices EXCEPT ![i] = v]
             r == on_create(s, i)
         IN  /\ r \in UndoState
             /\ Consistent(r, t)
             /\ Reverted(r, t) = Reverted(s, indices)
             /\ r.new_ids = s.new_ids \cup {i}
             /\ r.old_next_id = s.old_next_id /\ r.revision = s.revision
<1> DEFINE t == [indices EXCEPT ![i] = v]
           r == on_create(s, i)
<1>1. /\ r \in UndoState
      /\ r.new_ids = s.new_ids \cup {i}
      /\ r.old_values = s.old_values /\ r.removed_values = s.removed_values
      /\ r.old_next_id = s.old_next_id /\ r.revision = s.revision
  BY DEF on_create, UndoState
<1>2. /\ t \in [Ids -> Obj] /\ indices \in [Ids -> Obj] /\ t[i] = v
      /\ \A j \in Ids \ {i} : t[j] = indices[j]
  BY DEF TypeOK, Obj
<1> HIDE DEF t, r
<1>3. s.removed_values[i] = NoObj /\ s.old_values[i] = NoObj
  BY <1>2, RevertedAt DEF Consistent
<1>4. Consistent(r, t)
  BY <1>1, <1>2, <1>3, ValueAssumption DEF Consistent
<1>5. \A j \in Ids : Reverted(r, t)[j] = Reverted(s, indices)[j]
  BY <1>1, <1>2, <1>3, RevertedAt
<1>6. Reverted(r, t) = Reverted(s, indices)
  BY <1>1, <1>2, <1>5, RevertedAt
<1> QED BY <1>1, <1>4, <1>6 DEF t, r

LEMMA ModifyIsExact ==
  ASSUME NEW s \in UndoState, NEW i \in Ids, NEW v \in Values,
         TypeOK, Consistent(s, indices), indices[i] # NoObj,
         KeyOf[v] = KeyOf[indices[i]]
  PROVE  LET t == [indices EXCEPT ![i] = v]
             r == on_modify(s, i)
         IN  /\ r \in UndoState
             /\ Consistent(r, t)
             /\ Reverted(r, t) = Reverted(s, indices)
             /\ r.new_ids = s.new_ids
             /\ r.old_next_id = s.old_next_id /\ r.revision = s.revision
<1> DEFINE t == [indices EXCEPT ![i] = v]
           r == on_modify(s, i)
<1>1. /\ r \in UndoState
      /\ r.new_ids = s.new_ids
      /\ r.removed_values = s.removed_values
      /\ r.old_next_id = s.old_next_id /\ r.revision = s.revision
      /\ \A j \in Ids \ {i} : r.old_values[j] = s.old_values[j]
      /\ r.old_values[i] = IF i \in s.new_ids \/ s.old_values[i] # NoObj
                           THEN s.old_values[i] ELSE indices[i]
  BY Zenon DEF on_modify, UndoState, TypeOK
<1>2. /\ t \in [Ids -> Obj] /\ indices \in [Ids -> Obj] /\ t[i] = v
      /\ \A j \in Ids \ {i} : t[j] = indices[j]
  BY DEF TypeOK, Obj
<1> HIDE DEF t, r
<1>3. s.removed_values[i] = NoObj
  BY DEF Consistent
<1>4. Consistent(r, t)
  BY <1>1, <1>2, <1>3, ValueAssumption DEF Consistent
<1>5. \A j \in Ids : Reverted(r, t)[j] = Reverted(s, indices)[j]
  BY <1>1, <1>2, <1>3, RevertedAt
<1>6. Reverted(r, t) = Reverted(s, indices)
  BY <1>1, <1>2, <1>5, RevertedAt
<1> QED BY <1>1, <1>4, <1>6 DEF t, r

LEMMA RemoveIsExact ==
  ASSUME NEW s \in UndoState, NEW i \in Ids,
         TypeOK, Consistent(s, indices), indices[i] # NoObj
  PROVE  LET t == [indices EXCEPT ![i] = NoObj]
             r == on_remove(s, i)
         IN  /\ r \in UndoState
             /\ Consistent(r, t)
             /\ Reverted(r, t) = Reverted(s, indices)
             /\ r.new_ids \subseteq s.new_ids
             /\ r.old_next_id = s.old_next_id /\ r.revision = s.revision
<1> DEFINE t == [indices EXCEPT ![i] = NoObj]
           r == on_remove(s, i)
<1>0. s.removed_values[i] = NoObj
  BY DEF Consistent
<1>1. /\ r \in UndoState
      /\ r.new_ids = s.new_ids \ {i}
      /\ r.old_next_id = s.old_next_id /\ r.revision = s.revision
      /\ \A j \in Ids \ {i} : /\ r.old_values[j] = s.old_values[j]
                              /\ r.removed_values[j] = s.removed_values[j]
      /\ i \in s.new_ids => /\ r.old_values[i] = s.old_values[i]
                            /\ r.removed_values[i] = NoObj
      /\ i \notin s.new_ids =>
           /\ r.old_values[i] = NoObj
           /\ r.removed_values[i] = IF s.old_values[i] # NoObj
                                    THEN s.old_values[i] ELSE indices[i]
  BY <1>0, Zenon DEF on_remove, UndoState, TypeOK, Obj
<1>2. /\ t \in [Ids -> Obj] /\ indices \in [Ids -> Obj] /\ t[i] = NoObj
      /\ \A j \in Ids \ {i} : t[j] = indices[j]
  BY DEF TypeOK, Obj
<1> HIDE DEF t, r
<1>4. Consistent(r, t)
  BY <1>0, <1>1, <1>2, ValueAssumption DEF Consistent
<1>5. \A j \in Ids : Reverted(r, t)[j] = Reverted(s, indices)[j]
  BY <1>0, <1>1, <1>2, RevertedAt DEF Consistent
<1>6. Reverted(r, t) = Reverted(s, indices)
  BY <1>1, <1>2, <1>5, RevertedAt
<1> QED BY <1>1, <1>4, <1>6 DEF t, r


-----------------------------------------------------------------------------
(* The steps. *)

\* A write changes the table and the top undo state only.
LEMMA WriteStep ==
  ASSUME IInv, NEW r,
         indices' \in [Ids -> Obj], next_id' \in 0 .. MaxObjects, next_id' >= next_id,
         UniqueKeys(indices'),
         \A i \in Ids : indices'[i] # NoObj => i < next_id',
         UNCHANGED <<revision, saved>>,
         stack' = Record(r),
         enabled => /\ r \in UndoState
                    /\ Consistent(r, indices')
                    /\ Reverted(r, indices') = Reverted(head, indices)
                    /\ \A i \in r.new_ids : i \in head.new_ids \/ i >= next_id
                    /\ r.old_next_id = head.old_next_id
                    /\ r.revision = head.revision
  PROVE  IInv'
<1>1. stack' \in Seq(UndoState) /\ Len(stack') = Len(stack)
  BY DEF IInv, TypeOK, Record, enabled
<1>2. TypeOK'
  BY <1>1 DEF IInv, TypeOK
<1>3. ASSUME NEW k \in 1 .. Len(stack')
      PROVE  Level(k)'
  <2>1. k \in 1 .. Len(stack) /\ Level(k) /\ stack # << >>
    BY <1>1, <1>3 DEF IInv, TypeOK
  <2>2. CASE k # Len(stack)
    <3>1. stack'[k] = stack[k]
      BY <2>1, <2>2 DEF Record, enabled, IInv, TypeOK
    <3>2. Above(k)' = Above(k) /\ AboveNext(k)' = AboveNext(k)
      BY <1>1, <2>2 DEF Above, AboveNext
    <3> QED BY <1>1, <2>1, <3>1, <3>2 DEF Level
  <2>3. CASE k = Len(stack)
    <3>1. stack'[k] = r /\ head = stack[k]
      BY <2>1, <2>3 DEF Record, enabled, head, IInv, TypeOK
    <3>2. /\ Above(k)' = indices' /\ AboveNext(k)' = next_id'
          /\ Above(k) = indices /\ AboveNext(k) = next_id
      BY <1>1, <2>3 DEF Above, AboveNext
    <3>3. saved[k] \in Snapshot /\ saved'[k] = saved[k]
      BY <2>1 DEF IInv, TypeOK
    <3>4. enabled /\ Ids \subseteq Int /\ r.new_ids \subseteq Ids
      BY <2>1 DEF enabled, Ids, UndoState
    <3>a. saved[k].next \in Int /\ next_id \in Int /\ saved[k].next <= next_id
      BY <2>1, <3>2, <3>3 DEF Level, Snapshot, IInv, TypeOK
    <3>b. \A i \in head.new_ids : i >= saved[k].next
      BY <2>1, <3>1 DEF Level
    <3>5. \A i \in r.new_ids : i >= saved[k].next
      BY <3>4, <3>a, <3>b
    <3>c. next_id' \in Int
      BY <1>2 DEF TypeOK
    <3>6. saved'[k].next <= next_id'
      BY <3>3, <3>a, <3>c
    <3> QED BY <1>1, <2>1, <3>1, <3>2, <3>3, <3>4, <3>5, <3>6 DEF Level
  <2> QED BY <2>2, <2>3
<1> QED BY <1>2, <1>3 DEF IInv

LEMMA TopLevel ==
  ASSUME IInv, enabled
  PROVE  /\ Len(stack) \in Nat /\ Len(stack) >= 1
         /\ head \in UndoState
         /\ Level(Len(stack))
         /\ Consistent(head, indices)
         /\ saved[Len(stack)] \in Snapshot
         /\ Reverted(head, indices) = saved[Len(stack)].table
         /\ saved[Len(stack)].next <= next_id
<1>1. Len(stack) \in Nat /\ Len(stack) >= 1
  BY DEF IInv, TypeOK, enabled
<1>2. head \in UndoState /\ saved[Len(stack)] \in Snapshot
  BY <1>1 DEF IInv, TypeOK, head
<1>3. Level(Len(stack))
  BY <1>1 DEF IInv
<1> QED BY <1>1, <1>2, <1>3 DEF Level, Above, AboveNext, head

LEMMA EmplaceStep == ASSUME IInv, emplace PROVE IInv'
<1>1. PICK v \in Values : /\ KeyFree(indices, next_id, v)
                          /\ indices' = [indices EXCEPT ![next_id] = v]
  BY Zenon DEF emplace
<1>2. /\ next_id \in Ids /\ next_id \in Int /\ next_id' = next_id + 1
      /\ indices[next_id] = NoObj
      /\ next_id' \in 0 .. MaxObjects
  BY BoundAssumption DEF emplace, IInv, TypeOK, Ids
<1>3. indices' \in [Ids -> Obj] /\ \A i \in Ids : indices'[i] # NoObj => i < next_id'
  BY <1>1, <1>2 DEF IInv, TypeOK, Obj, Ids
<1>4. UniqueKeys(indices')
  BY <1>1, <1>2, <1>3 DEF UniqueKeys, KeyFree, IInv, TypeOK, Ids
<1>5. ASSUME enabled
      PROVE  LET r == on_create(head, next_id) IN
             /\ r \in UndoState
             /\ Consistent(r, indices')
             /\ Reverted(r, indices') = Reverted(head, indices)
             /\ \A i \in r.new_ids : i \in head.new_ids \/ i >= next_id
             /\ r.old_next_id = head.old_next_id
             /\ r.revision = head.revision
  <2>1. /\ head \in UndoState /\ Consistent(head, indices) /\ TypeOK
        /\ Reverted(head, indices) = saved[Len(stack)].table
        /\ saved[Len(stack)].next \in Int
        /\ saved[Len(stack)].next <= next_id
        /\ \A i \in Ids : saved[Len(stack)].table[i] # NoObj => i < saved[Len(stack)].next
    BY <1>5, TopLevel DEF Level, Snapshot, IInv
  <2>2. Reverted(head, indices)[next_id] = NoObj
    BY <1>2, <2>1
  <2> DEFINE r == on_create(head, next_id)
  <2>3. /\ r \in UndoState
        /\ Consistent(r, indices')
        /\ Reverted(r, indices') = Reverted(head, indices)
        /\ r.new_ids = head.new_ids \cup {next_id}
        /\ r.old_next_id = head.old_next_id /\ r.revision = head.revision
    BY <1>1, <1>2, <2>1, <2>2, CreateIsExact, Zenon
  <2> HIDE DEF r
  <2>4. \A i \in r.new_ids : i \in head.new_ids \/ i >= next_id
    BY <1>2, <2>3
  <2> QED BY <2>3, <2>4 DEF r
<1>6. stack' = Record(on_create(head, next_id)) /\ UNCHANGED <<revision, saved>>
  BY DEF emplace
<1> QED BY <1>2, <1>3, <1>4, <1>5, <1>6, WriteStep

LEMMA ModifyStep == ASSUME IInv, modify PROVE IInv'
<1>1. PICK i \in Ids, v \in Values :
         /\ indices[i] # NoObj
         /\ KeyOf[v] = KeyOf[indices[i]]
         /\ indices' = [indices EXCEPT ![i] = v]
         /\ stack' = Record(on_modify(head, i))
  BY Zenon DEF modify
<1>2. indices' \in [Ids -> Obj] /\ \A j \in Ids : indices'[j] # NoObj => j < next_id
  BY <1>1 DEF IInv, TypeOK, Obj
<1>3. UniqueKeys(indices')
  BY <1>1 DEF UniqueKeys, IInv, TypeOK
<1>4. ASSUME enabled
      PROVE  LET r == on_modify(head, i) IN
             /\ r \in UndoState
             /\ Consistent(r, indices')
             /\ Reverted(r, indices') = Reverted(head, indices)
             /\ \A j \in r.new_ids : j \in head.new_ids \/ j >= next_id
             /\ r.old_next_id = head.old_next_id
             /\ r.revision = head.revision
  BY <1>1, <1>4, TopLevel, ModifyIsExact, Zenon DEF IInv
<1>5. UNCHANGED <<next_id, revision, saved>> /\ next_id \in 0 .. MaxObjects /\ next_id' >= next_id
  BY DEF modify, IInv, TypeOK
<1> QED BY <1>1, <1>2, <1>3, <1>4, <1>5, WriteStep, Zenon

LEMMA RemoveStep == ASSUME IInv, remove PROVE IInv'
<1>1. PICK i \in Ids :
         /\ indices[i] # NoObj
         /\ indices' = [indices EXCEPT ![i] = NoObj]
         /\ stack' = Record(on_remove(head, i))
  BY Zenon DEF remove
<1>2. indices' \in [Ids -> Obj] /\ \A j \in Ids : indices'[j] # NoObj => j < next_id
  BY <1>1 DEF IInv, TypeOK, Obj
<1>3. UniqueKeys(indices')
  BY <1>1 DEF UniqueKeys, IInv, TypeOK
<1>4. ASSUME enabled
      PROVE  LET r == on_remove(head, i) IN
             /\ r \in UndoState
             /\ Consistent(r, indices')
             /\ Reverted(r, indices') = Reverted(head, indices)
             /\ \A j \in r.new_ids : j \in head.new_ids \/ j >= next_id
             /\ r.old_next_id = head.old_next_id
             /\ r.revision = head.revision
  BY <1>1, <1>4, TopLevel, RemoveIsExact, Zenon DEF IInv
<1>5. UNCHANGED <<next_id, revision, saved>> /\ next_id \in 0 .. MaxObjects /\ next_id' >= next_id
  BY DEF remove, IInv, TypeOK
<1> QED BY <1>1, <1>2, <1>3, <1>4, <1>5, WriteStep, Zenon


LEMMA StartStep == ASSUME IInv, start_undo_session PROVE IInv'
<1> DEFINE n == Len(stack)
           s == [old_values |-> NoObjects, removed_values |-> NoObjects,
                 new_ids |-> {}, old_next_id |-> next_id, revision |-> revision + 1]
           v == [table |-> indices, next |-> next_id]
<1>1. /\ stack' = Append(stack, s) /\ saved' = Append(saved, v)
      /\ revision' = revision + 1 /\ UNCHANGED <<indices, next_id>>
  BY DEF start_undo_session
<1>2. /\ s \in UndoState /\ Consistent(s, indices) /\ Reverted(s, indices) = indices
      /\ s.new_ids = {} /\ s.old_next_id = next_id /\ s.revision = revision + 1
  BY EmptyState DEF IInv, TypeOK
<1>3. v \in Snapshot /\ v.table = indices /\ v.next = next_id
  BY DEF Snapshot, IInv, TypeOK
<1> HIDE DEF s, v
<1>4. /\ n \in Nat /\ Len(saved) = n
      /\ Len(stack') = n + 1 /\ Len(saved') = n + 1
      /\ stack' \in Seq(UndoState) /\ saved' \in Seq(Snapshot)
      /\ \A k \in 1 .. n : stack'[k] = stack[k] /\ saved'[k] = saved[k]
      /\ stack'[n + 1] = s /\ saved'[n + 1] = v
  BY <1>1, <1>2, <1>3 DEF IInv, TypeOK
<1>5. TypeOK'
  BY <1>1, <1>4 DEF IInv, TypeOK
<1>6. ASSUME NEW k \in 1 .. n PROVE Level(k)'
  <2>1. Level(k)
    BY <1>6 DEF IInv
  <2>2. Above(k)' = Above(k) /\ AboveNext(k)' = AboveNext(k)
    BY <1>1, <1>3, <1>4, <1>6 DEF Above, AboveNext
  <2>3. revision' - Len(stack') + k = revision - Len(stack) + k
    BY <1>1, <1>4 DEF IInv, TypeOK
  <2> QED BY <1>4, <1>6, <2>1, <2>2, <2>3 DEF Level
<1>7. ASSUME NEW k, k = n + 1 PROVE Level(k)'
  <2>1. Above(k)' = indices /\ AboveNext(k)' = next_id
    BY <1>1, <1>4, <1>7 DEF Above, AboveNext
  <2>2. revision' - Len(stack') + k = revision + 1
    BY <1>1, <1>4, <1>7 DEF IInv, TypeOK
  <2>3. stack'[k] = s /\ saved'[k] = v /\ next_id <= next_id
    BY <1>4, <1>7 DEF IInv, TypeOK
  <2> QED BY <1>1, <1>2, <1>3, <2>1, <2>2, <2>3 DEF Level, IInv
<1>8. \A k \in 1 .. Len(stack') : Level(k)'
  BY <1>4, <1>6, <1>7
<1> QED BY <1>1, <1>5, <1>8 DEF IInv

\* Dropping the top of both stacks: what the levels below still say.
LEMMA ButLastFacts ==
  ASSUME IInv, enabled
  PROVE  LET n == Len(stack) IN
         /\ n \in Nat /\ n >= 1 /\ Len(saved) = n
         /\ ButLast(stack) \in Seq(UndoState) /\ ButLast(saved) \in Seq(Snapshot)
         /\ Len(ButLast(stack)) = n - 1 /\ Len(ButLast(saved)) = n - 1
         /\ \A k \in 1 .. n - 1 : /\ ButLast(stack)[k] = stack[k]
                                  /\ ButLast(saved)[k] = saved[k]
<1>1. Len(stack) \in Nat /\ Len(stack) >= 1 /\ Len(saved) = Len(stack)
  BY DEF IInv, TypeOK, enabled
<1> QED BY <1>1 DEF ButLast, IInv, TypeOK

LEMMA UndoStep == ASSUME IInv, undo PROVE IInv'
<1> DEFINE n == Len(stack)
<1>1. /\ enabled /\ indices' = Reverted(head, indices) /\ next_id' = head.old_next_id
      /\ stack' = ButLast(stack) /\ saved' = ButLast(saved) /\ revision' = revision - 1
  BY DEF undo
<1>2. /\ indices' = saved[n].table /\ next_id' = saved[n].next
      /\ saved[n] \in Snapshot /\ Level(n)
  BY <1>1, TopLevel DEF Level, head
<1>3. /\ n \in Nat /\ n >= 1 /\ Len(stack') = n - 1 /\ Len(saved') = n - 1
      /\ stack' \in Seq(UndoState) /\ saved' \in Seq(Snapshot)
      /\ \A k \in 1 .. n - 1 : stack'[k] = stack[k] /\ saved'[k] = saved[k]
  BY <1>1, ButLastFacts
<1>4. TypeOK'
  BY <1>1, <1>2, <1>3 DEF IInv, TypeOK, Snapshot
<1>5. UniqueKeys(indices') /\ \A i \in Ids : indices'[i] # NoObj => i < next_id'
  BY <1>2 DEF Level
<1>6. ASSUME NEW k \in 1 .. Len(stack') PROVE Level(k)'
  <2>1. k \in 1 .. n - 1 /\ k \in 1 .. n /\ Level(k)
    BY <1>3 DEF IInv
  <2>2. Above(k)' = Above(k) /\ AboveNext(k)' = AboveNext(k)
    <3>1. k # Len(stack) /\ k + 1 \in 1 .. n
      BY <1>3, <2>1
    <3>2. CASE k = n - 1
      <4>1. k + 1 = n /\ k = Len(stack')
        BY <1>3, <2>1, <3>2
      <4>2. Above(k) = saved[n].table /\ AboveNext(k) = saved[n].next
        BY <3>1, <4>1 DEF Above, AboveNext
      <4>3. Above(k)' = indices' /\ AboveNext(k)' = next_id'
        BY <4>1 DEF Above, AboveNext
      <4> QED BY <1>2, <4>2, <4>3
    <3>3. CASE k # n - 1
      <4>1. k + 1 \in 1 .. n - 1 /\ k # Len(stack')
        BY <1>3, <2>1, <3>3
      <4>2. saved'[k + 1] = saved[k + 1]
        BY <1>3, <4>1
      <4> QED BY <3>1, <4>1, <4>2 DEF Above, AboveNext
    <3> QED BY <3>2, <3>3
  <2>3. revision' - Len(stack') + k = revision - Len(stack) + k
    BY <1>1, <1>3, <2>1 DEF IInv, TypeOK
  <2> QED BY <1>3, <2>1, <2>2, <2>3 DEF Level
<1> QED BY <1>4, <1>5, <1>6 DEF IInv


LEMMA SquashStep == ASSUME IInv, squash PROVE IInv'
<1> DEFINE n == Len(stack)
           m == Merged(stack[n - 1], stack[n])
<1>1. enabled /\ saved' = ButLast(saved) /\ UNCHANGED <<indices, next_id>>
  BY DEF squash
<1>2. /\ n \in Nat /\ n >= 1 /\ Len(saved') = n - 1 /\ saved' \in Seq(Snapshot)
      /\ \A k \in 1 .. n - 1 : saved'[k] = saved[k]
  BY <1>1, ButLastFacts
<1>3. CASE n = 1
  <2>1. stack' = << >> /\ UNCHANGED revision
    BY <1>3 DEF squash
  <2> QED BY <1>1, <1>2, <1>3, <2>1 DEF IInv, TypeOK
<1>4. CASE n # 1
  <2>1. /\ stack' = Append(SubSeq(stack, 1, n - 2), m)
        /\ revision' = revision - 1
    BY <1>4 DEF squash, head
  <2>2. n - 1 \in 1 .. n /\ n \in 1 .. n /\ Level(n - 1) /\ Level(n)
    BY <1>2, <1>4 DEF IInv
  <2>3. /\ stack[n - 1] \in UndoState /\ stack[n] \in UndoState
        /\ saved[n - 1] \in Snapshot /\ saved[n] \in Snapshot
        /\ saved[n].next \in Int /\ saved[n - 1].next \in Int /\ next_id \in Int
        /\ saved[n].table \in [Ids -> Obj] /\ indices \in [Ids -> Obj]
    <3>1. /\ stack[n - 1] \in UndoState /\ stack[n] \in UndoState
          /\ saved[n - 1] \in Snapshot /\ saved[n] \in Snapshot
      BY <2>2 DEF IInv, TypeOK
    <3> QED BY <3>1 DEF IInv, TypeOK, Snapshot
  <2>4. /\ Above(n) = indices /\ AboveNext(n) = next_id
        /\ Above(n - 1) = saved[n].table /\ AboveNext(n - 1) = saved[n].next
    BY <1>2, <1>4 DEF Above, AboveNext
  <2>5. /\ saved[n].next <= next_id /\ saved[n - 1].next <= saved[n].next
        /\ \A i \in stack[n].new_ids : i >= saved[n].next
        /\ \A i \in stack[n - 1].new_ids : i >= saved[n - 1].next
    BY <2>2, <2>4 DEF Level
  <2>6. \A i \in stack[n].new_ids : stack[n - 1].removed_values[i] = NoObj
    <3> SUFFICES ASSUME NEW i \in stack[n].new_ids, stack[n - 1].removed_values[i] # NoObj
                 PROVE  FALSE
      OBVIOUS
    <3>1. i \in Ids /\ i \in Int /\ i >= saved[n - 1].next
      BY <2>3, <2>5 DEF UndoState, Ids
    <3>2. saved[n - 1].table[i] = stack[n - 1].removed_values[i]
      BY <2>2, <2>3, <2>4, <3>1, RevertedAt DEF Level
    <3> QED BY <2>2, <2>3, <3>1, <3>2 DEF Level
  <2>7. /\ m \in UndoState /\ Consistent(m, indices)
        /\ Reverted(m, indices) = saved[n - 1].table
        /\ m.new_ids \subseteq stack[n - 1].new_ids \cup stack[n].new_ids
        /\ m.old_next_id = saved[n - 1].next
        /\ m.revision = stack[n - 1].revision
    <3>1. /\ Consistent(stack[n], indices) /\ saved[n].table = Reverted(stack[n], indices)
          /\ Consistent(stack[n - 1], saved[n].table)
          /\ Reverted(stack[n - 1], saved[n].table) = saved[n - 1].table
          /\ stack[n - 1].old_next_id = saved[n - 1].next
      BY <2>2, <2>4 DEF Level
    <3> QED BY <2>3, <2>6, <3>1, MergeIsExact
  <2> HIDE DEF m
  <2>8. /\ Len(stack') = n - 1 /\ stack' \in Seq(UndoState)
        /\ \A k \in 1 .. n - 2 : stack'[k] = stack[k]
        /\ stack'[n - 1] = m
    BY <1>2, <1>4, <2>1, <2>7 DEF IInv, TypeOK
  <2>9. TypeOK'
    BY <1>1, <1>2, <2>1, <2>8 DEF IInv, TypeOK
  <2>10. ASSUME NEW k \in 1 .. n - 2 PROVE Level(k)'
    <3>1. k \in 1 .. n /\ k \in 1 .. n - 1 /\ k + 1 \in 1 .. n - 1 /\ Level(k)
      BY <1>2, <1>4 DEF IInv
    <3>2. Above(k)' = Above(k) /\ AboveNext(k)' = AboveNext(k)
      BY <1>2, <2>8, <3>1 DEF Above, AboveNext
    <3>3. revision' - Len(stack') + k = revision - Len(stack) + k
      <4>1. revision \in Int
        BY DEF IInv, TypeOK
      <4>2. revision' = revision - 1 /\ Len(stack') = n - 1
        BY <2>1, <2>8
      <4>3. n \in Int /\ k \in Int
        BY <1>2, <3>1
      <4> HIDE DEF n
      <4>4. revision' - Len(stack') + k = revision - n + k
        BY <4>1, <4>2, <4>3
      <4> QED BY <4>4 DEF n
    <3> QED BY <1>2, <2>8, <3>1, <3>2, <3>3 DEF Level
  <2>11. ASSUME NEW k, k = n - 1 PROVE Level(k)'
    <3>1. Above(k)' = indices /\ AboveNext(k)' = next_id
      BY <1>1, <2>8, <2>11 DEF Above, AboveNext
    <3>2. revision' - Len(stack') + k = revision - Len(stack) + (n - 1)
      BY <1>2, <2>1, <2>8, <2>11 DEF IInv, TypeOK
    <3>3. stack'[k] = m /\ saved'[k] = saved[n - 1]
      BY <1>2, <1>4, <2>8, <2>11
    <3>4. saved[n - 1].next <= next_id
      BY <2>3, <2>5
    <3>5. \A i \in m.new_ids : i >= saved[n - 1].next
      <4>1. \A i \in m.new_ids : i \in Int
        BY <2>7 DEF UndoState, Ids
      <4> QED BY <2>3, <2>5, <2>7, <4>1
    <3> QED BY <2>2, <2>7, <3>1, <3>2, <3>3, <3>4, <3>5 DEF Level
  <2>12. \A k \in 1 .. Len(stack') : Level(k)'
    BY <1>2, <1>4, <2>8, <2>10, <2>11
  <2> QED BY <1>1, <2>9, <2>12 DEF IInv
<1> QED BY <1>3, <1>4

LEMMA CommitStep == ASSUME IInv, commit PROVE IInv'
<1> DEFINE len == Len(stack)
<1>0. revision \in Int
  BY DEF IInv, TypeOK
<1>1. PICK n \in 1 .. len : /\ stack' = SubSeq(stack, n + 1, len)
                            /\ saved' = SubSeq(saved, n + 1, Len(saved))
  BY DEF commit
<1>2. UNCHANGED <<indices, next_id, revision>>
  BY DEF commit
<1>3. /\ len \in Nat /\ Len(saved) = len
      /\ Len(stack') = len - n /\ Len(saved') = len - n
      /\ stack' \in Seq(UndoState) /\ saved' \in Seq(Snapshot)
      /\ \A k \in 1 .. len - n : stack'[k] = stack[k + n] /\ saved'[k] = saved[k + n]
  BY <1>1 DEF IInv, TypeOK
<1>4. TypeOK'
  BY <1>2, <1>3 DEF IInv, TypeOK
<1>5. ASSUME NEW k \in 1 .. Len(stack') PROVE Level(k)'
  <2>1. k \in 1 .. len - n /\ k + n \in 1 .. len /\ Level(k + n)
    BY <1>3 DEF IInv
  <2>2. CASE k = len - n
    <3>1. /\ Above(k)' = indices /\ AboveNext(k)' = next_id
          /\ Above(k + n) = indices /\ AboveNext(k + n) = next_id
      BY <1>2, <1>3, <2>2 DEF Above, AboveNext
    <3>2. revision' - Len(stack') + k = revision - Len(stack) + (k + n)
      BY <1>0, <1>2, <1>3, <2>1
    <3> QED BY <1>3, <2>1, <3>1, <3>2 DEF Level
  <2>3. CASE k # len - n
    <3>1. k + 1 \in 1 .. len - n /\ (k + 1) + n = (k + n) + 1
      BY <1>3, <2>1, <2>3
    <3>2. Above(k)' = Above(k + n) /\ AboveNext(k)' = AboveNext(k + n)
      BY <1>3, <2>1, <2>3, <3>1 DEF Above, AboveNext
    <3>3. revision' - Len(stack') + k = revision - Len(stack) + (k + n)
      BY <1>0, <1>2, <1>3, <2>1
    <3> QED BY <1>3, <2>1, <3>2, <3>3 DEF Level
  <2> QED BY <2>2, <2>3
<1> QED BY <1>2, <1>4, <1>5 DEF IInv

LEMMA SetRevisionStep == ASSUME IInv, set_revision PROVE IInv'
<1>1. /\ stack = << >> /\ revision' \in Int
      /\ UNCHANGED <<indices, next_id, stack, saved>>
  BY DEF set_revision, enabled
<1> QED BY <1>1 DEF IInv, TypeOK


-----------------------------------------------------------------------------
(* The theorems. *)

LEMMA InitInductive == Init => IInv
BY BoundAssumption DEF Init, IInv, TypeOK, UniqueKeys, NoObjects, Obj, Ids

LEMMA NextInductive == IInv /\ [Next]_vars => IInv'
<1> SUFFICES ASSUME IInv, [Next]_vars PROVE IInv'
  OBVIOUS
<1>1. CASE emplace BY <1>1, EmplaceStep
<1>2. CASE modify BY <1>2, ModifyStep
<1>3. CASE remove BY <1>3, RemoveStep
<1>4. CASE start_undo_session BY <1>4, StartStep
<1>5. CASE undo BY <1>5, UndoStep
<1>6. CASE squash BY <1>6, SquashStep
<1>7. CASE commit BY <1>7, CommitStep
<1>8. CASE set_revision BY <1>8, SetRevisionStep
<1>9. CASE UNCHANGED vars
  <2>1. UNCHANGED <<indices, next_id, revision, stack, saved>>
    BY <1>9 DEF vars
  <2>2. \A k \in 1 .. Len(stack) : Level(k) => Level(k)'
    BY <2>1 DEF Level, Above, AboveNext
  <2> QED BY <2>1, <2>2 DEF IInv, TypeOK
<1> QED BY <1>1, <1>2, <1>3, <1>4, <1>5, <1>6, <1>7, <1>8, <1>9 DEF Next

\* The inductive invariant holds in every reachable state of the index.
THEOREM IInvInvariant == Spec => []IInv
BY InitInductive, NextInductive, PTL DEF Spec

\* The index and its undo stack are well typed after any sequence of writes,
\* sessions, undos, squashes and commits.
THEOREM TypeCorrect == Spec => []TypeOK
<1>1. IInv => TypeOK
  BY DEF IInv
<1> QED BY <1>1, IInvInvariant, PTL

\* undo() is exact at every depth of the stack: generic_index::undo gives back
\* what generic_index::start_undo_session found.
THEOREM UndoExactness == Spec => []UndoIsExact
<1>1. IInv => UndoIsExact
  BY DEF IInv, UndoIsExact, Level
<1> QED BY <1>1, IInvInvariant, PTL

\* The revisions on the stack are consecutive, so that generic_index::commit
\* drops exactly the history it is asked to drop.
THEOREM RevisionNumbers == Spec => []RevisionsConsecutive
<1>1. IInv => RevisionsConsecutive
  BY DEF IInv, RevisionsConsecutive, Level
<1> QED BY <1>1, IInvInvariant, PTL

\* Ids are never reused while an object or a saved version holds them.
THEOREM IdsFresh == Spec => []IdsBelowNext
<1>1. IInv => IdsBelowNext
  BY DEF IInv, TypeOK, IdsBelowNext, Level
<1> QED BY <1>1, IInvInvariant, PTL

\* undo() meets no missing object and no taken key: it cannot throw.
THEOREM UndoCannotThrow == Spec => []UndoNeverFails
<1>1. IInv => UndoNeverFails
  <2> SUFFICES ASSUME IInv, enabled
               PROVE  /\ Consistent(head, indices)
                      /\ UniqueKeys(RestoreOld(head, indices))
                      /\ UniqueKeys(Reverted(head, indices))
    BY DEF UndoNeverFails
  <2>1. /\ head \in UndoState /\ Consistent(head, indices)
        /\ UniqueKeys(Reverted(head, indices))
    BY TopLevel DEF Level
  <2>2. UniqueKeys(RestoreOld(head, indices))
    <3> DEFINE t == RestoreOld(head, indices)
    <3>1. \A i \in Ids : /\ t[i] # NoObj => indices[i] # NoObj
                         /\ t[i] # NoObj => KeyOf[t[i]] = KeyOf[indices[i]]
      BY <2>1 DEF RestoreOld, Consistent
    <3> HIDE DEF t
    <3>2. UniqueKeys(indices)
      BY DEF IInv
    <3>3. UniqueKeys(t)
      BY <3>1, <3>2 DEF UniqueKeys
    <3> QED BY <3>3 DEF t
  <2> QED BY <2>1, <2>2
<1> QED BY <1>1, IInvInvariant, PTL

-----------------------------------------------------------------------------
(* The index implements the versioned store. *)

\* A step of the index, taken where the inductive invariant holds, is a step of
\* the versioned store or leaves it alone.
LEMMA StepRefines == IInv /\ [Next]_vars => [Store!SNext]_(Store!svars)
<1> SUFFICES ASSUME IInv, [Next]_vars PROVE [Store!SNext]_(Store!svars)
  OBVIOUS
<1>1. CASE emplace
  BY <1>1, Zenon DEF emplace, Ids, Store!Ids, Store!Insert, Store!SNext
<1>2. CASE modify
  BY <1>2, Zenon DEF modify, Ids, Obj, Store!Ids, Store!Obj, Store!Update, Store!SNext
<1>3. CASE remove
  BY <1>3, Zenon DEF remove, Ids, Obj, Store!Ids, Store!Obj, Store!Update, Store!SNext
<1>4. CASE start_undo_session
  BY <1>4 DEF start_undo_session, Store!Save, Store!SNext
<1>5. CASE undo
  <2>1. enabled
    BY <1>5 DEF undo
  <2>2. /\ Len(saved) = Len(stack) /\ saved \in Seq(Snapshot) /\ Len(stack) >= 1
        /\ Reverted(head, indices) = saved[Len(stack)].table
        /\ head.old_next_id = saved[Len(stack)].next
    BY <2>1, TopLevel DEF IInv, TypeOK, Level, head
  <2>3. saved # << >>
    BY <2>2
  <2>4. Store!Restore
    BY <1>5, <2>2, <2>3 DEF undo, ButLast, Store!Restore
  <2> QED BY <2>4 DEF Store!SNext
<1>6. CASE squash
  <2>1. saved # << >>
    BY <1>6 DEF squash, enabled, IInv, TypeOK
  <2>2. Store!Merge
    BY <1>6, <2>1 DEF squash, ButLast, Store!Merge
  <2> QED BY <2>2 DEF Store!SNext
<1>7. CASE commit
  BY <1>7 DEF commit, IInv, TypeOK, Store!Forget, Store!SNext
<1>8. CASE set_revision
  <2>1. saved \in Seq(Snapshot) /\ Len(saved) = Len(stack) /\ stack = << >>
    BY <1>8 DEF set_revision, enabled, IInv, TypeOK
  <2>2. saved = << >>
    BY <2>1
  <2> QED BY <1>8, <2>2 DEF set_revision, Store!Renumber, Store!SNext
<1>9. CASE UNCHANGED vars
  BY <1>9 DEF vars, Store!svars
<1> QED BY <1>1, <1>2, <1>3, <1>4, <1>5, <1>6, <1>7, <1>8, <1>9 DEF Next

\* generic_index, which keeps only differences, implements a table under a stack
\* of full saved versions, for any number of objects and any depth of sessions.
THEOREM IndexImplementsStore == Spec => ImplementsVersionedStore
<1>1. Init => Store!SInit
  BY DEF Init, NoObjects, Ids, Store!SInit, Store!Ids
<1> QED BY <1>1, StepRefines, IInvInvariant, PTL
        DEF Spec, ImplementsVersionedStore, Store!SSpec

-----------------------------------------------------------------------------
(***************************************************************************)
(* The block log, for every number of blocks and whatever a killed process *)
(* leaves of the two buffers.                                              *)
(***************************************************************************)

Cells == [block : Nat, part : {1, 2}] \cup [position : Nat]

\* The piece at place k of a file that has been written from its beginning.
Cell(k) ==
  LET n == (k + 2) \div 3
  IN IF k = 3 * n THEN Position(3 * (n - 1)) ELSE Data(n, k - 3 * (n - 1))

\* The inductive invariant.  Both files are always a beginning of the same log, each cut
\* anywhere; what flush() has written is in the block file; an open log has an index
\* entry for each block.
LogInv ==
  /\ block_file \in Seq(Cells) /\ block_buffer \in Seq(Cells)
  /\ index_file \in Seq(Nat) /\ index_buffer \in Seq(Nat)
  /\ log_head \in Nat /\ flushed \in Nat /\ status \in {"open", "killed", "unreadable"}
  /\ \A k \in 1 .. Len(Blocks) : Blocks[k] = Cell(k)
  /\ \A n \in 1 .. Len(Index) : Index[n] = 3 * (n - 1)
  /\ Len(Blocks) <= 3 * MaxBlocks
  /\ 2 <= flushed /\ 3 * flushed <= Len(block_file)
  /\ status = "open" => Len(Blocks) = 3 * log_head /\ Len(Index) = log_head
  /\ status # "open" => block_buffer = << >> /\ index_buffer = << >>

-----------------------------------------------------------------------------
\* The three pieces of block n.
LEMMA CellAt ==
  ASSUME NEW n \in Nat \ {0}
  PROVE  /\ Cell(3 * n - 2) = Data(n, 1)
         /\ Cell(3 * n - 1) = Data(n, 2)
         /\ Cell(3 * n) = Position(3 * (n - 1))
<1>1. (3 * n - 2 + 2) \div 3 = n /\ (3 * n - 1 + 2) \div 3 = n /\ (3 * n + 2) \div 3 = n
  OBVIOUS
<1> QED
  BY <1>1 DEF Cell

\* Every piece belongs to a block.
LEMMA CellType ==
  ASSUME NEW k \in Nat \ {0}
  PROVE  /\ Cell(k) \in Cells
         /\ \E n \in Nat \ {0} : k = 3 * n - 2 \/ k = 3 * n - 1 \/ k = 3 * n
<1>1. PICK n \in Nat \ {0} : k = 3 * n - 2 \/ k = 3 * n - 1 \/ k = 3 * n
  <2>1. (k + 2) \div 3 \in Nat \ {0}
    OBVIOUS
  <2>2. LET n == (k + 2) \div 3 IN k = 3 * n - 2 \/ k = 3 * n - 1 \/ k = 3 * n
    OBVIOUS
  <2> QED
    BY <2>1, <2>2
<1>2. Data(n, 1) \in Cells /\ Data(n, 2) \in Cells /\ Position(3 * (n - 1)) \in Cells
  BY DEF Data, Position, Cells
<1> QED
  BY <1>1, <1>2, CellAt, Zenon

\* Data are told from positions.
LEMMA Kinds ==
  ASSUME NEW n \in Nat, NEW i \in {1, 2}, NEW p \in Nat
  PROVE  /\ ~ IsPosition(Data(n, i)) /\ IsPosition(Position(p))
         /\ Position(p).position = p /\ Data(n, i).block = n
<1>1. DOMAIN Data(n, i) = {"block", "part"} /\ DOMAIN Position(p) = {"position"}
  BY DEF Data, Position
<1> QED
  BY <1>1 DEF Data, Position, IsPosition

\* What \o does, place by place.
LEMMA Concat ==
  ASSUME NEW S, NEW s \in Seq(S), NEW t \in Seq(S)
  PROVE  /\ s \o t \in Seq(S) /\ Len(s \o t) = Len(s) + Len(t)
         /\ \A k \in 1 .. Len(s) : (s \o t)[k] = s[k]
         /\ \A k \in 1 .. Len(t) : (s \o t)[Len(s) + k] = t[k]
         /\ s \o << >> = s /\ << >> \o s = s
  OBVIOUS

LEMMA Associative ==
  ASSUME NEW S, NEW s \in Seq(S), NEW t \in Seq(S), NEW u \in Seq(S)
  PROVE  (s \o t) \o u = s \o (t \o u)
  OBVIOUS

\* A sequence is its two parts.
LEMMA Cut ==
  ASSUME NEW S, NEW t \in Seq(S), NEW k \in 1 .. Len(t)
  PROVE  /\ SubSeq(t, 1, k) \in Seq(S) /\ Len(SubSeq(t, 1, k)) = k
         /\ SubSeq(t, k + 1, Len(t)) \in Seq(S)
         /\ SubSeq(t, 1, k) \o SubSeq(t, k + 1, Len(t)) = t
  OBVIOUS

\* One entry more at the end.
LEMMA AppendOne ==
  ASSUME NEW S, NEW s \in Seq(S), NEW t \in Seq(S), NEW x \in S
  PROVE  /\ Append(t, x) \in Seq(S) /\ Len(Append(t, x)) = Len(t) + 1
         /\ s \o Append(t, x) = Append(s \o t, x)
         /\ \A k \in 1 .. Len(t) : Append(t, x)[k] = t[k]
         /\ Append(t, x)[Len(t) + 1] = x
  OBVIOUS

LEMMA Pair ==
  ASSUME NEW S, NEW s \in Seq(S), Len(s) = 2
  PROVE  s = <<s[1], s[2]>>
  OBVIOUS

\* read_block_helper finds block n at the place where append put it.
LEMMA ReadBlock ==
  ASSUME NEW file \in Seq(Cells), NEW n \in 1 .. MaxBlocks, MaxBlocks \in Nat,
         \A k \in 1 .. Len(file) : file[k] = Cell(k),
         3 * n <= Len(file)
  PROVE  read_block(file, 3 * (n - 1)) = n
<1>1. n \in Nat \ {0} /\ Len(file) \in Nat
  OBVIOUS
<1>2. file[3 * n - 2] = Data(n, 1) /\ file[3 * n - 1] = Data(n, 2)
  <2>1. 3 * n - 2 \in 1 .. Len(file) /\ 3 * n - 1 \in 1 .. Len(file)
    BY <1>1
  <2>2. Cell(3 * n - 2) = Data(n, 1) /\ Cell(3 * n - 1) = Data(n, 2)
    BY <1>1, CellAt, Zenon
  <2> QED
    BY <2>1, <2>2
<1>3. SubSeq(file, 3 * (n - 1) + 1, 3 * (n - 1) + 2) = <<Data(n, 1), Data(n, 2)>>
  <2> DEFINE s == SubSeq(file, 3 * (n - 1) + 1, 3 * (n - 1) + 2)
  <2>1. s \in Seq(Cells) /\ Len(s) = 2
    BY <1>1
  <2>2. s[1] = file[3 * n - 2] /\ s[2] = file[3 * n - 1]
    BY <1>1
  <2> HIDE DEF s
  <2>3. s = <<s[1], s[2]>>
    BY <2>1, Pair
  <2> QED
    BY <2>2, <2>3, <1>2 DEF s
<1>4. read_block(file, 3 * (n - 1)) = file[3 * (n - 1) + 1].block
  <2> DEFINE p == 3 * (n - 1)
  <2>1. p + 2 <= Len(file)
    BY <1>1
  <2> HIDE DEF p
  <2>2. read_block(file, p) = file[p + 1].block
    BY <1>3, <2>1 DEF read_block, p
  <2> QED
    BY <2>2 DEF p
<1> QED
  BY <1>1, <1>2, <1>4, Kinds

\* A file that ends with a position ends with a whole block; each block is followed by its
\* own position.
LEMMA LastPiece ==
  ASSUME NEW file \in Seq(Cells), \A k \in 1 .. Len(file) : file[k] = Cell(k),
         file # << >>
  PROVE  /\ IsPosition(file[Len(file)]) => \E m \in Nat \ {0} : Len(file) = 3 * m
         /\ \A m \in Nat \ {0} :
               3 * m <= Len(file) => file[3 * m].position = 3 * (m - 1)
<1>1. Len(file) \in Nat \ {0}
  OBVIOUS
<1>2. file[Len(file)] = Cell(Len(file))
  BY <1>1
<1>3. PICK n \in Nat \ {0} : Len(file) = 3 * n - 2 \/ Len(file) = 3 * n - 1 \/ Len(file) = 3 * n
  BY <1>1, CellType, Zenon
<1>4. IsPosition(file[Len(file)]) => Len(file) = 3 * n
  <2>1. n \in Nat /\ 1 \in {1, 2} /\ 2 \in {1, 2}
    OBVIOUS
  <2>2. ~ IsPosition(Cell(3 * n - 2)) /\ ~ IsPosition(Cell(3 * n - 1))
    BY <2>1, CellAt, Kinds, Zenon
  <2> QED
    BY <1>2, <1>3, <2>2
<1>5. ASSUME NEW m \in Nat \ {0}, 3 * m <= Len(file)
      PROVE  file[3 * m].position = 3 * (m - 1)
  <2>1. 3 * m \in 1 .. Len(file) /\ 3 * (m - 1) \in Nat
    BY <1>1, <1>5
  <2>2. file[3 * m] = Position(3 * (m - 1))
    BY <2>1, CellAt, Zenon
  <2> QED
    BY <2>1, <2>2 DEF Position
<1>6. IsPosition(file[Len(file)]) => \E m \in Nat \ {0} : Len(file) = 3 * m
  BY <1>4
<1>7. \A m \in Nat \ {0} : 3 * m <= Len(file) => file[3 * m].position = 3 * (m - 1)
  BY <1>5
<1> QED
  BY <1>6, <1>7

-----------------------------------------------------------------------------
LEMMA InitLog ==
  ASSUME Stored \in Nat, MaxBlocks \in Nat, 2 <= Stored, Stored <= MaxBlocks, LogInit
  PROVE  LogInv
<1>1. ASSUME NEW k \in 1 .. 3 * Stored
      PROVE  (LET n == (k + 2) \div 3 IN Written(n, 3 * (n - 1))[k - 3 * (n - 1)]) = Cell(k)
  <2> DEFINE n == (k + 2) \div 3
  <2>1. n \in Nat \ {0} /\ (k = 3 * n - 2 \/ k = 3 * n - 1 \/ k = 3 * n)
    OBVIOUS
  <2> HIDE DEF n
  <2>2. Written(n, 3 * (n - 1))[k - 3 * (n - 1)] = Cell(k)
    <3>1. CASE k = 3 * n - 2
      <4>1. k - 3 * (n - 1) = 1 /\ Cell(k) = Data(n, 1)
        BY <2>1, <3>1, CellAt
      <4> QED
        BY <4>1 DEF Written
    <3>2. CASE k = 3 * n - 1
      <4>1. k - 3 * (n - 1) = 2 /\ Cell(k) = Data(n, 2)
        BY <2>1, <3>2, CellAt
      <4> QED
        BY <4>1 DEF Written
    <3>3. CASE k = 3 * n
      <4> DEFINE p == 3 * (n - 1)
      <4>1. k - p = 3
        BY <2>1, <3>3
      <4>2. Cell(k) = Position(p)
        BY <2>1, <3>3, CellAt, Zenon
      <4> HIDE DEF p
      <4>3. Written(n, p)[k - p] = Cell(k)
        BY <4>1, <4>2 DEF Written
      <4> QED
        BY <4>3 DEF p
    <3> QED
      BY <2>1, <3>1, <3>2, <3>3
  <2> QED
    BY <2>2 DEF n
<1>2. block_file = [k \in 1 .. 3 * Stored |-> Cell(k)]
  BY <1>1, Zenon DEF LogInit
<1>3. \A k \in 1 .. 3 * Stored : Cell(k) \in Cells
  BY CellType
<1>4. block_file \in Seq(Cells) /\ Len(block_file) = 3 * Stored
  BY <1>2, <1>3
<1>5. index_file \in Seq(Nat) /\ Len(index_file) = Stored
  BY DEF LogInit
<1>6. Blocks = block_file /\ Index = index_file
  BY <1>4, <1>5, Concat DEF LogInit, Blocks, Index
<1>7. << >> \in Seq(Cells) /\ << >> \in Seq(Nat)
  OBVIOUS
<1>8. \A n \in 1 .. Stored : index_file[n] = 3 * (n - 1)
  BY DEF LogInit
<1>9. /\ log_head = Stored /\ flushed = Stored /\ status = "open"
      /\ block_buffer = << >> /\ index_buffer = << >>
  BY DEF LogInit
<1>10. \A k \in 1 .. Len(Blocks) : Blocks[k] = Cell(k)
  BY <1>2, <1>4, <1>6
<1>11. \A n \in 1 .. Len(Index) : Index[n] = 3 * (n - 1)
  BY <1>5, <1>6, <1>8
<1>12. /\ Len(Blocks) = 3 * log_head /\ Len(Index) = log_head /\ Len(Blocks) <= 3 * MaxBlocks
       /\ 2 <= flushed /\ 3 * flushed <= Len(block_file) /\ log_head \in Nat /\ flushed \in Nat
  BY <1>4, <1>5, <1>6, <1>9
<1> QED
  BY <1>4, <1>5, <1>7, <1>9, <1>10, <1>11, <1>12 DEF LogInv

\* What append adds to the two files.
LEMMA AppendLog ==
  ASSUME LogInv, append, MaxBlocks \in Nat
  PROVE  LogInv'
<1> DEFINE h == log_head + 1
           p == Len(Blocks)
           r == Written(h, p)
<1>1. /\ block_file \in Seq(Cells) /\ block_buffer \in Seq(Cells) /\ log_head \in Nat
      /\ index_file \in Seq(Nat) /\ index_buffer \in Seq(Nat) /\ flushed \in Nat
      /\ \A k \in 1 .. Len(Blocks) : Blocks[k] = Cell(k)
      /\ \A n \in 1 .. Len(Index) : Index[n] = 3 * (n - 1)
  BY DEF LogInv
<1>2. Blocks \in Seq(Cells) /\ Index \in Seq(Nat)
  BY <1>1, Concat DEF Blocks, Index
<1>3. /\ p = 3 * log_head /\ Len(Index) = log_head /\ p \in Nat
      /\ h \in Nat \ {0} /\ p = 3 * (h - 1) /\ h <= MaxBlocks
  BY <1>1, <1>2 DEF LogInv, append
<1>4. /\ block_buffer' = block_buffer \o r /\ index_buffer' = Append(index_buffer, p)
      /\ log_head' = h /\ block_file' = block_file /\ index_file' = index_file
      /\ status' = status /\ flushed' = flushed /\ status = "open"
  BY DEF append
<1>5. /\ r \in Seq(Cells) /\ Len(r) = 3
      /\ r[1] = Data(h, 1) /\ r[2] = Data(h, 2) /\ r[3] = Position(p)
  <2>1. Data(h, 1) \in Cells /\ Data(h, 2) \in Cells /\ Position(p) \in Cells
    BY <1>3 DEF Data, Position, Cells
  <2> QED
    BY <2>1 DEF Written
<1> HIDE DEF h, p, r
<1>6. block_buffer' \in Seq(Cells) /\ Blocks' = Blocks \o r
  <2>1. Blocks' = block_file \o (block_buffer \o r)
    BY <1>4 DEF Blocks
  <2>2. block_file \in Seq(Cells) /\ block_buffer \in Seq(Cells) /\ r \in Seq(Cells)
    BY <1>1, <1>5
  <2>3. (block_file \o block_buffer) \o r = block_file \o (block_buffer \o r)
    BY <2>2, Associative
  <2>4. block_buffer \o r \in Seq(Cells)
    BY <2>2, Concat, Zenon
  <2> QED
    BY <1>4, <2>1, <2>3, <2>4 DEF Blocks
<1>7. index_buffer' \in Seq(Nat) /\ Index' = Append(Index, p)
  <2>1. Index' = index_file \o Append(index_buffer, p)
    BY <1>4 DEF Index
  <2>2. index_file \in Seq(Nat) /\ index_buffer \in Seq(Nat) /\ p \in Nat
    BY <1>1, <1>3
  <2>3. /\ index_file \o Append(index_buffer, p) = Append(index_file \o index_buffer, p)
        /\ Append(index_buffer, p) \in Seq(Nat)
    BY <2>2, AppendOne
  <2> QED
    BY <1>4, <2>1, <2>3 DEF Index
<1>8. Len(Blocks') = p + 3 /\ Len(Index') = h
  <2>1. Len(Blocks \o r) = Len(Blocks) + Len(r)
    BY <1>2, <1>5, Concat, Zenon
  <2>2. Len(Append(Index, p)) = log_head + 1
    BY <1>2, <1>3, AppendOne
  <2> QED
    BY <1>5, <1>6, <1>7, <2>1, <2>2 DEF h, p
<1>9. ASSUME NEW k \in 1 .. Len(Blocks') PROVE Blocks'[k] = Cell(k)
  <2>1. CASE k \in 1 .. p
    <3>1. Blocks'[k] = Blocks[k]
      BY <1>2, <1>5, <1>6, <2>1, Concat DEF p
    <3> QED
      BY <1>1, <2>1, <3>1 DEF p
  <2>2. CASE ~ k \in 1 .. p
    <3>1. PICK i \in {1, 2, 3} : k = p + i
      BY <1>3, <1>8, <1>9, <2>2
    <3>2. Blocks'[k] = r[i]
      BY <1>2, <1>5, <1>6, <3>1, Concat DEF p
    <3>3. Cell(3 * h - 2) = r[1] /\ Cell(3 * h - 1) = r[2] /\ Cell(3 * h) = r[3]
      BY <1>3, <1>5, CellAt
    <3>4. p + 1 = 3 * h - 2 /\ p + 2 = 3 * h - 1 /\ p + 3 = 3 * h
      BY <1>3
    <3> QED
      BY <3>1, <3>2, <3>3, <3>4
  <2> QED
    BY <2>1, <2>2
<1>10. ASSUME NEW n \in 1 .. Len(Index') PROVE Index'[n] = 3 * (n - 1)
  <2>1. n \in 1 .. Len(Index) + 1
    BY <1>3, <1>8, <1>10 DEF h
  <2>2. CASE n \in 1 .. Len(Index)
    <3>1. Append(Index, p)[n] = Index[n]
      BY <1>2, <1>3, <2>2, AppendOne
    <3> QED
      BY <1>1, <1>7, <2>2, <3>1
  <2>3. CASE n = Len(Index) + 1
    <3>1. Append(Index, p)[n] = p
      BY <1>2, <1>3, <2>3, AppendOne
    <3> QED
      BY <1>3, <1>7, <2>3, <3>1 DEF h
  <2> QED
    BY <1>2, <2>1, <2>2, <2>3
<1>11. /\ Len(Blocks') = 3 * log_head' /\ Len(Index') = log_head'
       /\ Len(Blocks') <= 3 * MaxBlocks /\ log_head' \in Nat
  BY <1>3, <1>4, <1>8
<1> QED
  BY <1>1, <1>4, <1>6, <1>7, <1>9, <1>10, <1>11, Zenon DEF LogInv

\* Pieces move from the buffers to the files.
LEMMA MovePieces ==
  ASSUME LogInv, status = "open", status' = status, log_head' = log_head,
         block_file' \in Seq(Cells), block_buffer' \in Seq(Cells), Blocks' = Blocks,
         index_file' \in Seq(Nat), index_buffer' \in Seq(Nat), Index' = Index,
         flushed' \in Nat, 2 <= flushed', 3 * flushed' <= Len(block_file')
  PROVE  LogInv'
<1> DEFINE B == Blocks
           I == Index
<1>1. /\ log_head \in Nat /\ Len(B) <= 3 * MaxBlocks /\ Len(B) = 3 * log_head /\ Len(I) = log_head
      /\ \A k \in 1 .. Len(B) : B[k] = Cell(k)
      /\ \A n \in 1 .. Len(I) : I[n] = 3 * (n - 1)
  BY DEF LogInv
<1>2. Blocks' = B /\ Index' = I
  OBVIOUS
<1> HIDE DEF B, I
<1> QED
  BY <1>1, <1>2 DEF LogInv

LEMMA LogTypes ==
  ASSUME LogInv
  PROVE  /\ block_file \in Seq(Cells) /\ block_buffer \in Seq(Cells) /\ Blocks \in Seq(Cells)
         /\ index_file \in Seq(Nat) /\ index_buffer \in Seq(Nat) /\ Index \in Seq(Nat)
         /\ log_head \in Nat /\ flushed \in Nat /\ 2 <= flushed /\ 3 * flushed <= Len(block_file)
         /\ Len(Blocks) = Len(block_file) + Len(block_buffer)
         /\ status = "open" => Len(Blocks) = 3 * log_head /\ flushed <= log_head
<1>1. /\ block_file \in Seq(Cells) /\ block_buffer \in Seq(Cells)
      /\ index_file \in Seq(Nat) /\ index_buffer \in Seq(Nat)
  BY DEF LogInv
<1>2. /\ Blocks \in Seq(Cells) /\ Index \in Seq(Nat)
      /\ Len(Blocks) = Len(block_file) + Len(block_buffer)
  BY <1>1, Concat DEF Blocks, Index
<1>3. /\ log_head \in Nat /\ flushed \in Nat /\ 2 <= flushed /\ 3 * flushed <= Len(block_file)
      /\ status = "open" => Len(Blocks) = 3 * log_head
  BY DEF LogInv
<1>4. Len(block_file) \in Nat /\ Len(block_buffer) \in Nat
  BY <1>1
<1> QED
  BY <1>1, <1>2, <1>3, <1>4

\* flush empties both buffers.
LEMMA FlushLog ==
  ASSUME LogInv, flush
  PROVE  LogInv'
<1>1. << >> \in Seq(Cells) /\ << >> \in Seq(Nat)
  OBVIOUS
<1>2. /\ block_file' = Blocks /\ block_buffer' = << >>
      /\ index_file' = Index /\ index_buffer' = << >>
      /\ status = "open" /\ status' = status /\ log_head' = log_head /\ flushed' = log_head
  BY DEF flush
<1>3. /\ Blocks \in Seq(Cells) /\ Index \in Seq(Nat) /\ log_head \in Nat
      /\ flushed \in Nat /\ 2 <= flushed /\ flushed <= log_head /\ Len(Blocks) = 3 * log_head
  BY <1>2, LogTypes
<1>4. Blocks' = Blocks /\ Index' = Index
  BY <1>2, <1>3, Concat DEF Blocks, Index
<1> QED
  BY <1>1, <1>2, <1>3, <1>4, MovePieces

\* A read empties the buffer of the index, and perhaps that of the block file.
LEMMA ReadLog ==
  ASSUME LogInv, NEW n, read_block_by_num(n)
  PROVE  LogInv'
<1>1. << >> \in Seq(Cells) /\ << >> \in Seq(Nat)
  OBVIOUS
<1>2. /\ index_file' = Index /\ index_buffer' = << >>
      /\ status = "open" /\ status' = status /\ log_head' = log_head /\ flushed' = flushed
      /\ \/ block_file' = Blocks /\ block_buffer' = << >>
         \/ block_file' = block_file /\ block_buffer' = block_buffer
  BY DEF read_block_by_num
<1>3. /\ Blocks \in Seq(Cells) /\ Index \in Seq(Nat) /\ block_file \in Seq(Cells)
      /\ block_buffer \in Seq(Cells) /\ log_head \in Nat /\ flushed \in Nat /\ 2 <= flushed
      /\ flushed <= log_head /\ Len(Blocks) = 3 * log_head /\ 3 * flushed <= Len(block_file)
  BY <1>2, LogTypes
<1>4. Blocks' = Blocks /\ Index' = Index
  BY <1>2, <1>3, Concat, Zenon DEF Blocks, Index
<1>5. /\ block_file' \in Seq(Cells) /\ block_buffer' \in Seq(Cells)
      /\ 3 * flushed' <= Len(block_file')
  <2>1. CASE block_file' = Blocks /\ block_buffer' = << >>
    BY <1>1, <1>2, <1>3, <2>1
  <2>2. CASE block_file' = block_file /\ block_buffer' = block_buffer
    BY <1>2, <1>3, <2>2
  <2> QED
    BY <1>2, <2>1, <2>2
<1> QED
  BY <1>1, <1>2, <1>3, <1>4, <1>5, MovePieces

\* Some of a buffer is written to its file.
LEMMA Spilled ==
  ASSUME NEW S, NEW s \in Seq(S), NEW t \in Seq(S), NEW k \in 1 .. Len(t)
  PROVE  /\ s \o SubSeq(t, 1, k) \in Seq(S) /\ SubSeq(t, k + 1, Len(t)) \in Seq(S)
         /\ (s \o SubSeq(t, 1, k)) \o SubSeq(t, k + 1, Len(t)) = s \o t
         /\ Len(s) <= Len(s \o SubSeq(t, 1, k))
<1> DEFINE u == SubSeq(t, 1, k)
           w == SubSeq(t, k + 1, Len(t))
<1>1. u \in Seq(S) /\ w \in Seq(S) /\ u \o w = t /\ Len(u) = k
  BY Cut
<1> HIDE DEF u, w
<1>2. s \o u \in Seq(S) /\ Len(s \o u) = Len(s) + k
  BY <1>1, Concat, Zenon
<1>3. (s \o u) \o w = s \o (u \o w)
  <2>1. u \in Seq(S) /\ w \in Seq(S)
    BY <1>1
  <2> QED
    BY <2>1
<1>4. (s \o u) \o w = s \o t
  BY <1>1, <1>3
<1>5. Len(s) <= Len(s \o u)
  BY <1>2
<1> QED
  BY <1>1, <1>2, <1>4, <1>5, Zenon DEF u, w

\* Any part of a buffer may be written at any time.
LEMMA SpillLog ==
  ASSUME LogInv, spill
  PROVE  LogInv'
<1>1. /\ status = "open" /\ status' = status /\ log_head' = log_head /\ flushed' = flushed
  BY DEF spill
<1>2. /\ block_file \in Seq(Cells) /\ block_buffer \in Seq(Cells)
      /\ index_file \in Seq(Nat) /\ index_buffer \in Seq(Nat)
  BY LogTypes
<1>3. /\ flushed \in Nat /\ 2 <= flushed /\ 3 * flushed <= Len(block_file)
  BY LogTypes
<1>4. ASSUME NEW k \in 1 .. Len(block_buffer),
             block_file' = block_file \o SubSeq(block_buffer, 1, k),
             block_buffer' = SubSeq(block_buffer, k + 1, Len(block_buffer)),
             UNCHANGED <<index_file, index_buffer>>
      PROVE  LogInv'
  <2>1. /\ block_file' \in Seq(Cells) /\ block_buffer' \in Seq(Cells)
        /\ block_file' \o block_buffer' = block_file \o block_buffer
        /\ Len(block_file) <= Len(block_file')
    <3> DEFINE s == block_file
               t == block_buffer
    <3>1. s \in Seq(Cells) /\ t \in Seq(Cells)
      BY <1>2
    <3> HIDE DEF s, t
    <3>2. ASSUME NEW i \in 1 .. Len(t)
          PROVE  /\ s \o SubSeq(t, 1, i) \in Seq(Cells) /\ SubSeq(t, i + 1, Len(t)) \in Seq(Cells)
                 /\ (s \o SubSeq(t, 1, i)) \o SubSeq(t, i + 1, Len(t)) = s \o t
                 /\ Len(s) <= Len(s \o SubSeq(t, 1, i))
      BY <3>1, Spilled, Zenon
    <3> QED
      BY <1>4, <3>2, Zenon DEF s, t
  <2>2. 3 * flushed' <= Len(block_file')
    <3>1. Len(block_file) \in Nat /\ Len(block_file') \in Nat
      BY <1>2, <2>1
    <3> QED
      BY <1>1, <1>3, <2>1, <3>1
  <2>3. /\ Blocks' = Blocks /\ Index' = Index
        /\ index_file' = index_file /\ index_buffer' = index_buffer
    BY <1>4, <2>1, Zenon DEF Blocks, Index
  <2> QED
    BY <1>1, <1>2, <1>3, <2>1, <2>2, <2>3, MovePieces
<1>5. ASSUME NEW k \in 1 .. Len(index_buffer),
             index_file' = index_file \o SubSeq(index_buffer, 1, k),
             index_buffer' = SubSeq(index_buffer, k + 1, Len(index_buffer)),
             UNCHANGED <<block_file, block_buffer>>
      PROVE  LogInv'
  <2>1. /\ index_file' \in Seq(Nat) /\ index_buffer' \in Seq(Nat)
        /\ index_file' \o index_buffer' = index_file \o index_buffer
    <3> DEFINE s == index_file
               t == index_buffer
    <3>1. s \in Seq(Nat) /\ t \in Seq(Nat)
      BY <1>2
    <3> HIDE DEF s, t
    <3>2. ASSUME NEW i \in 1 .. Len(t)
          PROVE  /\ s \o SubSeq(t, 1, i) \in Seq(Nat) /\ SubSeq(t, i + 1, Len(t)) \in Seq(Nat)
                 /\ (s \o SubSeq(t, 1, i)) \o SubSeq(t, i + 1, Len(t)) = s \o t
                 /\ Len(s) <= Len(s \o SubSeq(t, 1, i))
      BY <3>1, Spilled, Zenon
    <3> QED
      BY <1>5, <3>2, Zenon DEF s, t
  <2>2. /\ Blocks' = Blocks /\ Index' = Index
        /\ block_file' = block_file /\ block_buffer' = block_buffer
    BY <1>5, <2>1, Zenon DEF Blocks, Index
  <2> QED
    BY <1>1, <1>2, <1>3, <2>1, <2>2, MovePieces
<1> QED
  BY <1>4, <1>5, Zenon DEF spill

\* Killed: the files stay as they are.
LEMMA KilledLog ==
  ASSUME LogInv, MaxBlocks \in Nat, killed
  PROVE  LogInv'
<1>1. << >> \in Seq(Cells) /\ << >> \in Seq(Nat)
  OBVIOUS
<1>2. /\ block_file' = block_file /\ block_buffer' = << >> /\ index_file' = index_file
      /\ index_buffer' = << >> /\ status' = "killed" /\ log_head' = 0 /\ flushed' = flushed
  BY DEF killed
<1>3. /\ block_file \in Seq(Cells) /\ block_buffer \in Seq(Cells)
      /\ index_file \in Seq(Nat) /\ index_buffer \in Seq(Nat)
  BY LogTypes
<1>4. Blocks' = block_file /\ Index' = index_file
  BY <1>2, <1>3, Concat DEF Blocks, Index
<1>5. /\ flushed \in Nat /\ 2 <= flushed /\ 3 * flushed <= Len(block_file)
      /\ Len(Blocks) <= 3 * MaxBlocks
      /\ \A k \in 1 .. Len(Blocks) : Blocks[k] = Cell(k)
      /\ \A n \in 1 .. Len(Index) : Index[n] = 3 * (n - 1)
  BY DEF LogInv
<1>6. /\ Len(Blocks) = Len(block_file) + Len(block_buffer)
      /\ Len(Index) = Len(index_file) + Len(index_buffer)
  BY <1>3, Concat DEF Blocks, Index
<1>7. /\ Len(block_file) \in Nat /\ Len(block_buffer) \in Nat
      /\ Len(index_file) \in Nat /\ Len(index_buffer) \in Nat
  BY <1>3
<1>8. ASSUME NEW k \in 1 .. Len(block_file) PROVE block_file[k] = Cell(k)
  <2>1. k \in 1 .. Len(Blocks)
    BY <1>6, <1>7, <1>8
  <2>2. Blocks[k] = block_file[k]
    BY <1>3, <1>8, Concat DEF Blocks
  <2> QED
    BY <1>5, <2>1, <2>2
<1>9. ASSUME NEW n \in 1 .. Len(index_file) PROVE index_file[n] = 3 * (n - 1)
  <2>1. n \in 1 .. Len(Index)
    BY <1>6, <1>7, <1>9
  <2>2. Index[n] = index_file[n]
    BY <1>3, <1>9, Concat DEF Index
  <2> QED
    BY <1>5, <2>1, <2>2
<1>10. Len(block_file) <= 3 * MaxBlocks
  BY <1>5, <1>6, <1>7
<1> QED
  BY <1>1, <1>2, <1>3, <1>4, <1>5, <1>8, <1>9, <1>10 DEF LogInv

\* open: the head is the last block of the file, and the index is as long.
LEMMA OpenLog ==
  ASSUME LogInv, MaxBlocks \in Nat, open
  PROVE  LogInv'
<1> DEFINE last == block_file[Len(block_file)]
<1>1. /\ status # "open" /\ block_buffer = << >> /\ index_buffer = << >>
      /\ block_file' = block_file /\ block_buffer' = block_buffer /\ flushed' = flushed
  BY DEF open, LogInv
<1>2. /\ block_file \in Seq(Cells) /\ index_file \in Seq(Nat) /\ log_head \in Nat
      /\ flushed \in Nat /\ 2 <= flushed /\ 3 * flushed <= Len(block_file)
  BY LogTypes
<1>3. Blocks = block_file /\ Index = index_file /\ Blocks' = block_file
  BY <1>1, <1>2, Concat DEF Blocks, Index
<1>4. /\ \A k \in 1 .. Len(block_file) : block_file[k] = Cell(k)
      /\ \A n \in 1 .. Len(index_file) : index_file[n] = 3 * (n - 1)
      /\ Len(block_file) <= 3 * MaxBlocks
  BY <1>3 DEF LogInv
<1>5. /\ Len(block_file) \in Nat /\ Len(block_file) >= 6 /\ block_file # << >>
      /\ Len(index_file) \in Nat
  BY <1>2
<1>6. << >> \in Seq(Cells) /\ << >> \in Seq(Nat)
  OBVIOUS
<1>7. CASE ~ IsPosition(last)
  <2>1. /\ status' = "unreadable" /\ log_head' = log_head /\ index_file' = index_file
        /\ index_buffer' = index_buffer
    BY <1>5, <1>7 DEF open
  <2>2. Index' = index_file
    BY <1>1, <1>2, <2>1, Concat DEF Index
  <2> QED
    BY <1>1, <1>2, <1>3, <1>4, <1>6, <2>1, <2>2 DEF LogInv
<1>8. CASE IsPosition(last)
  <2>1. PICK N \in Nat \ {0} : Len(block_file) = 3 * N
    BY <1>2, <1>4, <1>5, <1>8, LastPiece
  <2>2. /\ N \in 1 .. MaxBlocks /\ 2 <= N /\ flushed <= N
    BY <1>2, <1>4, <1>5, <2>1
  <2>3. ASSUME NEW n \in 1 .. N PROVE block_file[3 * n].position = 3 * (n - 1)
    <3>1. \A m \in Nat \ {0} : 3 * m <= Len(block_file) => block_file[3 * m].position = 3 * (m - 1)
      BY <1>2, <1>4, <1>5, LastPiece
    <3>2. n \in Nat \ {0} /\ 3 * n <= Len(block_file)
      BY <2>1, <2>3
    <3> QED
      BY <3>1, <3>2
  <2>4. last.position = 3 * (N - 1)
    BY <2>1, <2>2, <2>3
  <2>5. read_block(block_file, 3 * (N - 1)) = N
    <3>1. 3 * N <= Len(block_file) /\ \A k \in 1 .. Len(block_file) : block_file[k] = Cell(k)
      BY <1>4, <2>1
    <3>2. block_file \in Seq(Cells) /\ N \in 1 .. MaxBlocks
      BY <1>2, <2>2
    <3> QED
      BY <3>1, <3>2, ReadBlock
  <2>6. log_head' = N /\ status' = "open"
    BY <1>5, <1>8, <2>4, <2>5 DEF open
  <2>7. Len(block_file) \div 3 = N
    BY <2>1
  <2>8. /\ index_file' \in Seq(Nat) /\ index_buffer' \in Seq(Nat)
        /\ Len(Index') = N /\ \A n \in 1 .. N : Index'[n] = 3 * (n - 1)
    <3>1. CASE IndexFits
      <4>1. index_file # << >> /\ index_file[Len(index_file)] = 3 * (N - 1)
        BY <2>4, <3>1 DEF IndexFits
      <4>2. Len(index_file) \in 1 .. Len(index_file)
        BY <1>2, <4>1
      <4>3. Len(index_file) = N
        BY <1>4, <1>5, <4>1, <4>2
      <4>4. index_file' = index_file /\ index_buffer' = << >>
        BY <1>1, <1>5, <1>8, <3>1 DEF open
      <4>5. Index' = index_file
        BY <1>2, <4>4, Concat DEF Index
      <4> QED
        BY <1>2, <1>4, <1>6, <4>3, <4>4, <4>5
    <3>2. CASE ~ IndexFits
      <4>1. index_file' = << >> /\ index_buffer' = construct_index(block_file)
        BY <1>5, <1>8, <3>2 DEF open
      <4>2. construct_index(block_file) = [n \in 1 .. N |-> 3 * (n - 1)]
        <5>1. last.position # 0
          BY <2>2, <2>4
        <5>2. construct_index(block_file) = [n \in 1 .. N |-> block_file[3 * n].position]
          BY <2>7, <5>1 DEF construct_index
        <5> QED
          BY <2>3, <5>2
      <4>3. construct_index(block_file) \in Seq(Nat) /\ Len(construct_index(block_file)) = N
        BY <4>2
      <4>4. Index' = construct_index(block_file)
        BY <4>1, <4>3, Concat DEF Index
      <4> QED
        BY <1>6, <4>1, <4>2, <4>3, <4>4
    <3> QED
      BY <3>1, <3>2
  <2> QED
    BY <1>1, <1>2, <1>3, <1>4, <1>6, <2>1, <2>2, <2>6, <2>8 DEF LogInv
<1> QED
  BY <1>7, <1>8

\* No step leads out of the invariant.
LEMMA NextLog ==
  ASSUME LogInv, MaxBlocks \in Nat, [LogNext]_(log_vars)
  PROVE  LogInv'
<1>1. CASE LogNext
  BY <1>1, AppendLog, SpillLog, FlushLog, ReadLog, KilledLog, OpenLog DEF LogNext
<1>2. CASE UNCHANGED log_vars
  BY <1>2, Zenon DEF log_vars, LogInv, Blocks, Index
<1> QED
  BY <1>1, <1>2

\* block_log from its first start on: the invariant holds whatever is appended, read and
\* flushed and wherever the process is killed.  It needs two blocks
\* to begin with: construct_index writes nothing for a log of one (BlockLogFaults.cfg).
THEOREM LogInvariant ==
  ASSUME 2 <= Stored
  PROVE  LogSpec => []LogInv
<1>1. LogInit => LogInv
  BY InitLog, BlockLogAssumption
<1>2. LogInv /\ [LogNext]_log_vars => LogInv'
  BY NextLog, BlockLogAssumption
<1> QED
  BY <1>1, <1>2, PTL DEF LogSpec

\* The properties follow from it.
LEMMA LogReads ==
  ASSUME LogInv, MaxBlocks \in Nat
  PROVE  ReadsBack /\ IndexComplete /\ FlushedStays
<1>1. IndexComplete
  BY DEF LogInv, IndexComplete
<1>2. FlushedStays
  BY LogTypes DEF FlushedStays
<1>3. ASSUME status = "open", NEW n \in 1 .. log_head
      PROVE  n <= Len(Index) /\ read_block(Blocks, Index[n]) = n
  <2>1. /\ Len(Index) = log_head /\ Len(Blocks) = 3 * log_head /\ log_head \in Nat
        /\ Len(Blocks) <= 3 * MaxBlocks
        /\ \A k \in 1 .. Len(Blocks) : Blocks[k] = Cell(k)
        /\ \A m \in 1 .. Len(Index) : Index[m] = 3 * (m - 1)
    BY <1>3 DEF LogInv
  <2>2. /\ n \in 1 .. MaxBlocks /\ 3 * n <= Len(Blocks)
        /\ n <= Len(Index) /\ Index[n] = 3 * (n - 1)
    BY <2>1
  <2>3. Blocks \in Seq(Cells) /\ \A k \in 1 .. Len(Blocks) : Blocks[k] = Cell(k)
    BY <2>1, LogTypes
  <2>4. read_block(Blocks, 3 * (n - 1)) = n
    BY <2>2, <2>3, ReadBlock
  <2> QED
    BY <2>2, <2>4
<1> QED
  BY <1>1, <1>2, <1>3 DEF ReadsBack

\* read_block_by_num: every block up to the head is found through the index under its own
\* number, so that "Wrong block was read from block log." is never raised.
THEOREM AlwaysReadsBack ==
  ASSUME 2 <= Stored
  PROVE  LogSpec => []ReadsBack
<1>1. LogInv => ReadsBack
  BY LogReads, BlockLogAssumption
<1> QED
  BY <1>1, LogInvariant, PTL

\* open and construct_index: an open log has one index entry for each block, so that append
\* never finds itself at the wrong position.
THEOREM AlwaysIndexComplete ==
  ASSUME 2 <= Stored
  PROVE  LogSpec => []IndexComplete
<1>1. LogInv => IndexComplete
  BY LogReads, BlockLogAssumption
<1> QED
  BY <1>1, LogInvariant, PTL

\* flush: a block that it has written is in every log that is opened later.
THEOREM AlwaysFlushedStays ==
  ASSUME 2 <= Stored
  PROVE  LogSpec => []FlushedStays
<1>1. LogInv => FlushedStays
  BY LogReads, BlockLogAssumption
<1> QED
  BY <1>1, LogInvariant, PTL
=============================================================================
