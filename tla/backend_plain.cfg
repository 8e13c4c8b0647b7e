CONSTANTS
  Accts <- MCTwo
  Requests <- MCPlain
  Passwords <- MCPasswords
  MaxBal = 3
  NoVal = NoVal
  NoReq = NoReq
  MaxLog = 7
  MaxKills = 0
  MaxDay = 1
SPECIFICATION Spec
CHECK_DEADLOCK FALSE
INVARIANTS LogAgrees
PROPERTIES ImplementsLedger
