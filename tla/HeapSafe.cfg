SPECIFICATION FairSpec
CONSTANTS
  TagCount = 5
  AddrSpace = 208
  SecCntx = 0
  MemInfo = 16
  ArenaStart = 32
  ArenaEnd = 200
  Sizes <- MCSizes
INVARIANTS BlockHoldsRequest BlocksDisjoint TagsSeparate ListIntact
PROPERTY MallocReturns
