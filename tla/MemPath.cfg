SPECIFICATION FairSpec
CONSTANTS
  RamTop = 2
  GranuleLow = 2
  Ops <- BusOp
  Addresses <- MCAddresses
  DataValues <- MCDataValues
  NoRequest = NoRequest
INVARIANTS TypeOK Handshake
PROPERTIES ImplementsTaggedMemory AccessCompletes
