SPECIFICATION Spec
CONSTANTS
  o1 = o1
  o2 = o2
  p1 = p1
  p2 = p2
  Obligations <- TwoObligations
  Pools = {}
  NoEntry = NoEntry
  OppCap = 1
  SigCap = 1
  StaleAge = 0
  GcAge = 0
  SlotFeeds = {FALSE}
  MaxSlot = 0
  StreamCap = 1
PROPERTIES
  MonitorReturns
  Rescue
