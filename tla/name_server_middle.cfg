SPECIFICATION Spec
CONSTANTS
  Names <- MCNames
  Addresses <- MCAddresses
  Nodes <- MCNodes
  Clients <- MCClients
  Messages <- MCMessages
  Nothing = Nothing
PROPERTY
  ImplementsNameMap
