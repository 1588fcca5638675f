SPECIFICATION FairSpec
CONSTANTS
  LoSize = 16
  HiSize = 3
  MaxTime = 20
  Intervals <- MCIntervals
  Rates <- MCRates
PROPERTIES ReadAtomic NoEarlyInterrupt AlarmRings
