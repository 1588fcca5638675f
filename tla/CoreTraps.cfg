SPECIFICATION Spec
CONSTANTS
  RamTop = 2
  GranuleLow = 2
  PcTop = 2
  ResetPc = {}
  Insns <- MCTrapInsns
  TimerLevels = {FALSE, TRUE}
  HostPins <- MCStepping
INVARIANTS PreciseTrap MretResumes ShadowsSound IdleIsQuiet
PROPERTIES BranchDecides TrapEntersHandler
