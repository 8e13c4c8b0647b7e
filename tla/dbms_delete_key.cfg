CONSTANTS
  Keys <- MCKeys
  Vals = {v1}
  NoVal = NoVal
  NoBuf = NoBuf
  MaxRecs = 3
SPECIFICATION Spec
CHECK_DEADLOCK FALSE
PROPERTIES DeletedKeyGone
