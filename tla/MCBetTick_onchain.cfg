SPECIFICATION Spec
CONSTANTS
  e1 = e1  e2 = e2  NoPick = NoPick
  Handlers = {h1, h2}
  Events = {e1, e2}
  PickLists <- MCPickLists
  PoolSize = 2
  Budget = 3
  MaxMarkets = 6
  MaxTicks = 2
  MaxFaults = 0
INVARIANTS
  OnchainMeansLanded
CHECK_DEADLOCK FALSE
