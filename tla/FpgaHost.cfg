SPECIFICATION BoardSpec
CONSTANTS
  RamTop = 2
  GranuleLow = 2
  PcTop = 2
  DataBits = 1
  MaxDivider = 14
  MinGap = 4
  MaxPolls = 2
  MaxStarts = 2
  Steps = 1
  PowerUp <- MCPowerUp
  ResetPc <- MCReset
  Insns <- MCInsns
  Addresses <- MCAddresses
  Images <- MCImages
  Greeting <- MCGreeting
  Farewell <- MCText
  BaudWord <- MCBaud
INVARIANTS ImageVerified FetchesMemory OneInstructionPerStep
PROPERTIES OnlyIntendedWrites DriverFinishes
