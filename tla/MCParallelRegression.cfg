SPECIFICATION FairSpec
CONSTANTS
  c1 = c1  c2 = c2  c3 = c3
  Case = {c1, c2, c3}  CaseList <- RepeatedList  Missing = {c3}
  BasePort = 1  Workers = 2
  ForeignPorts = {3, 4}  MaxChanges = 1
  NoCase = NoCase
INVARIANTS MeetOnlyWhenPushed ResultOfItsOwnCase DiedForAReason NoMasterLeft
PROPERTIES RunEnds
