SPECIFICATION BenchSpec
CONSTANTS
  RamTop = 2
  GranuleLow = 2
  PcTop = 2
  ResetPc = {}
  Insns <- MCInsns
  TimerLevels = {FALSE, TRUE}
  HostPins <- MCFree
  AluTicks = 33
  BraindeadAfter = 50
  StallAfter = 75
  MaxPrinted = 1
  DataBits = 8
  MaxDivider = 1
  PowerUp = {}
INVARIANTS BraindeadMeansDead StallMeansSpinning
CHECK_DEADLOCK FALSE
