---------------------------- MODULE MCUndoIndex -----------------------------
\* UndoIndex for TLC: an object is a unique key and a payload.
EXTENDS UndoIndex

MCKeys == {"k1", "k2"}

MCValues == MCKeys \X {0, 1}

MCKeyOf == [v \in MCValues |-> v[1]]
=============================================================================
