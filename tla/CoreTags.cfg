SPECIFICATION FairSpec
CONSTANTS
  RamTop = 2
  GranuleLow = 2
  PcTop = 2
  ResetPc = {}
  Insns <- MCTagInsns
  TimerLevels = {FALSE}
  HostPins <- MCFree
INVARIANTS ShadowsCoherent NoMistaggedExec NoPendingAtExec ClearWhenQuiet PreciseTrap TrapWritesNoRegister
PROPERTIES OnlyTagsAcknowledge Progress ViolationServed
