CONSTANTS
  Fronts <- MCFronts
  Staffs <- MCStaffs
  Types <- MCClos
  Capacity = 2
  NoMsg = NoMsg
  MaxSent = 2
  MaxKills = 1
  MaxQuits = 1
SPECIFICATION FairSpec
CHECK_DEADLOCK FALSE
INVARIANTS TypeOK ReplyMatches OneCopy ReplyHasRoom
PROPERTIES OnlyRequestsServed WaitEnds
