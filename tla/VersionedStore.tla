--------------------------- MODULE VersionedStore ---------------------------
(***************************************************************************)
(* What a chainbase index promises: a table of objects under a stack of    *)
(* saved versions.  Nothing is said about how a version is represented;    *)
(* UndoIndex shows that keeping only the differences is enough.            *)
(***************************************************************************)
EXTENDS Integers, Sequences

CONSTANTS
  MaxObjects,   \* bound on object ids
  MaxRevision,  \* bound on the revision counter
  Values,       \* what an object can hold
  NoObj         \* marks an id that holds no object

Ids == 0 .. MaxObjects - 1

Obj == Values \cup {NoObj}

VARIABLES
  table,     \* id |-> object
  next,      \* the id the next new object gets
  versions,  \* the saved versions, oldest first
  rev        \* the revision number

svars == <<table, next, versions, rev>>

Version == [table : [Ids -> Obj], next : 0 .. MaxObjects]

SInit ==
  /\ table = [i \in Ids |-> NoObj]
  /\ next = 0
  /\ versions = << >>
  /\ rev = 0

\* Objects are written in the current version only.
Insert ==
  /\ next \in Ids
  /\ \E v \in Values : table' = [table EXCEPT ![next] = v]
  /\ next' = next + 1
  /\ UNCHANGED <<versions, rev>>

Update ==
  /\ \E i \in Ids, w \in Obj :
        /\ table[i] # NoObj
        /\ table' = [table EXCEPT ![i] = w]
  /\ UNCHANGED <<next, versions, rev>>

\* Save the current version under a new revision number.
Save ==
  /\ rev < MaxRevision
  /\ versions' = Append(versions, [table |-> table, next |-> next])
  /\ rev' = rev + 1
  /\ UNCHANGED <<table, next>>

\* Go back to exactly the version saved last.
Restore ==
  /\ versions # << >>
  /\ table' = versions[Len(versions)].table
  /\ next' = versions[Len(versions)].next
  /\ versions' = SubSeq(versions, 1, Len(versions) - 1)
  /\ rev' = rev - 1

\* Forget the version saved last, keeping the table as it is.
Merge ==
  /\ versions # << >>
  /\ versions' = SubSeq(versions, 1, Len(versions) - 1)
  /\ rev' \in {rev, rev - 1}
  /\ UNCHANGED <<table, next>>

\* Forget some of the oldest versions.
Forget ==
  /\ \E n \in 1 .. Len(versions) : versions' = SubSeq(versions, n + 1, Len(versions))
  /\ UNCHANGED <<table, next, rev>>

Renumber ==
  /\ versions = << >>
  /\ rev' \in 0 .. MaxRevision
  /\ UNCHANGED <<table, next, versions>>

SNext ==
  \/ Insert \/ Update \/ Save \/ Restore \/ Merge \/ Forget
  \/ Renumber

SSpec == SInit /\ [][SNext]_svars
=============================================================================
