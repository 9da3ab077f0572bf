SPECIFICATION Safety
CONSTANTS
  o1 = o1
  o2 = o2
  p1 = p1
  p2 = p2
  Obligations = {}
  Pools <- OnePool
  NoEntry = NoEntry
  OppCap = 1
  SigCap = 1
  StaleAge = 1
  GcAge = 2
  SlotFeeds = {FALSE}
  MaxSlot = 2
  StreamCap = 1
INVARIANT
  StaleFiltered
