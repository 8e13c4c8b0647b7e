CONSTANTS
  Keys <- MCKeys
  Vals = {v1, v2}
  NoVal = NoVal
  NoBuf = NoBuf
  MaxRecs = 4
SPECIFICATION AlignedSpec
CHECK_DEADLOCK FALSE
INVARIANTS IndexExact FreeListExact
PROPERTIES ImplementsKeyStore
