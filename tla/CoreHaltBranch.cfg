SPECIFICATION Spec
CONSTANTS
  RamTop = 2
  GranuleLow = 2
  PcTop = 2
  ResetPc = {}
  Insns <- MCHostInsns
  TimerLevels = {FALSE}
  HostPins <- MCHalting
PROPERTY BranchDecides
