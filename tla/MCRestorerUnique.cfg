SPECIFICATION FairSpec
CONSTANTS
  pA = pA  pB = pB  b1 = b1  b2 = b2
  f1 = f1  f2 = f2  f3 = f3  id1 = id1  id2 = id2  id3 = id3
  Pose = {pA, pB}  DefaultPose = pA
  Block = {b1, b2}  File = {f1, f2, f3}  Id = {id1, id2, id3}
  BlockFiles <- UBlockFiles  FileId <- UFileId  LastIndex <- ULastIndex
  Moving <- UMoving  Window <- UWindow  Near <- UNear
  Unreadable = {}
  StaticReplayTimes = 1  DynamicReplayTimes = 2
  NoPose = NoPose  NoFile = NoFile
INVARIANTS PlayingHasTrack NoObstacleLost FaultsHaveCause PublishedMapComplete
PROPERTIES ImplementsLifecycle PlayedIsFreed WindowIsRead NearIsShifted
