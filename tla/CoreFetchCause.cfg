SPECIFICATION Spec
CONSTANTS
  RamTop = 2
  GranuleLow = 2
  PcTop = 2
  ResetPc = {}
  Insns <- MCFetchInsns
  TimerLevels = {FALSE}
  HostPins <- MCFree
INVARIANT PreciseTrap
