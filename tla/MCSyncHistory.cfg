SPECIFICATION Spec
CONSTANTS
  b1 = b1  b2 = b2  d1 = d1  d2 = d2
  Bag = {b1}  Device = {d1}  SyncFlag = {d1}  SyncHistory = {d1}
  HasMd5 <- NoMd5
  SourceOps = {"write", "finish", "remove"}
  MaxClock = 3  MaxPlugs = 1  MaxRestarts = 0
  NoName = NoName
INVARIANTS HistoryComplete EventsWaitForHistory OneWriter
