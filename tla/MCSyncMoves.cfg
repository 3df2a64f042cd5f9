SPECIFICATION Spec
CONSTANTS
  b1 = b1  b2 = b2  d1 = d1  d2 = d2
  Bag = {b1, b2}  Device = {d1}  SyncFlag = {d1}  SyncHistory = {}
  HasMd5 <- NoMd5
  SourceOps = {"finish", "write", "in", "out"}
  MaxClock = 2  MaxPlugs = 0  MaxRestarts = 0
  NoName = NoName
PROPERTIES CopyKept
