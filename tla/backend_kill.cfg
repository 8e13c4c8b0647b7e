CONSTANTS
  Accts <- MCOne
  Requests <- MCSingle
  Passwords <- MCPasswords
  MaxBal = 2
  NoVal = NoVal
  NoReq = NoReq
  MaxLog = 5
  MaxKills = 2
  MaxDay = 2
SPECIFICATION FairSpec
CHECK_DEADLOCK FALSE
INVARIANTS TypeOK
PROPERTIES ImplementsLedger LogTellsBalance Answered
