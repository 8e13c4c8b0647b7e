SPECIFICATION FairSpec
CONSTANTS
  Names <- MCNames
  Addresses <- MCAddresses
  Nodes <- MCNodes
  Clients <- MCClients
  Messages <- MCMessages
  Nothing = Nothing
INVARIANTS
  TypeOK
  TableSound
PROPERTIES
  EarlyCloseHarmless
  PrintsTruth
  Answered
  NameMapButMiddle
