SPECIFICATION Spec
CONSTANTS
  MaxObjects = 1
  MaxRevision = 2
  Values <- MCValues
  Keys <- MCKeys
  KeyOf <- MCKeyOf
  NoObj = NoObj
PROPERTY
  SquashReducesRevision
