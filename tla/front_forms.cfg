SPECIFICATION Spec
CONSTANTS
  Typed <- MCTyped
  Balances <- MCBalances
  L_OPERID = 1
  L_PASSWORD = 2
  L_ACCNUM = 2
  L_CUSTNAME = 3
  L_AMOUNT = 9
CHECK_DEADLOCK FALSE
INVARIANTS
  TypeOK
  SentAsShown
  AmountTaken
  RecheckKeeps
  BalanceShown
  NothingLeft
