SPECIFICATION Spec
CONSTANTS
  RamTop = 2
  GranuleLow = 2
  PcTop = 2
  ResetPc = {}
  Insns <- MCReadInsns
  TimerLevels = {FALSE}
  HostPins <- MCFree
PROPERTY OnlyTagsAcknowledge
