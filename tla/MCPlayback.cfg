SPECIFICATION FairSpec
CONSTANTS
  W = 64  Track = {1, 2, 3, 4}
  Last <- MCLast  Begins <- MCBegins  Moving <- MCMoving
  Steps = {0, 1, 2, 3, 7, 25, 59, 62, 63}
  StaticReplayTimes = 2  DynamicReplayTimes = 3
INVARIANTS PositionFollowsTime PassesAsConfigured FaultNeedsLongFirstState StampsAgree BackwardsHoldsOrEnds
PROPERTIES ImplementsReplay PlaysOut
