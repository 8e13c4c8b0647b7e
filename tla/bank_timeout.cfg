CONSTANTS
  Fronts <- MCFronts
  Staffs <- MCOneWay
  Types <- MCClos
  Capacity = 2
  NoMsg = NoMsg
  MaxSent = 2
  MaxKills = 1
  MaxQuits = 0
SPECIFICATION FairSpec
CHECK_DEADLOCK FALSE
PROPERTIES WaitTimesOut
