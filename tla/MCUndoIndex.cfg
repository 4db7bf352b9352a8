SPECIFICATION Spec
CONSTANTS
  MaxObjects = 2
  MaxRevision = 3
  Values <- MCValues
  Keys <- MCKeys
  KeyOf <- MCKeyOf
  NoObj = NoObj
INVARIANTS
  UndoIsExact
  UndoNeverFails
PROPERTY
  ImplementsVersionedStore
