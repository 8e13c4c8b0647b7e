CONSTANTS
  Plans <- MCPlans
  Settings <- MCSettings
  Arguments <- MCArguments
  Byte <- MCByte
  Bauds <- MCBauds
  modemconnect <- MCConnect
  modembusy <- MCBusy
  NoByte = "none"
  COLS = 4
  ROWS = 3
  QMax = 3
  RMax = 3
  DialTime = 2
  DAY = 5
SPECIFICATION FairSpec
CHECK_DEADLOCK FALSE
INVARIANTS TypeOK RevealInPlace SavedScreenViews PortMatchesSettings VectorsRestored
PROPERTIES WaitHeard LoopsCount ScriptEnds
