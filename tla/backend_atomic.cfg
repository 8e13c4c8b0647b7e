CONSTANTS
  Accts <- MCTwo
  Requests <- MCPlain
  Passwords <- MCPasswords
  MaxBal = 3
  NoVal = NoVal
  NoReq = NoReq
  MaxLog = 6
  MaxKills = 1
  MaxDay = 1
SPECIFICATION Spec
CHECK_DEADLOCK FALSE
PROPERTIES ImplementsLedger
