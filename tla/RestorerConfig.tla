--------------------------- MODULE RestorerConfig ---------------------------
(* LoadConfig of src/aw_simulation_obstacle_new/src/utils.cpp: the node      *)
(* parameters are read one by one into global variables, which are 0 or      *)
(* empty before; a parameter that is not set ends the node at once.  A value *)
(* is the name of the parameter it came from.                                *)
EXTENDS Sequences, SequencesExt

Sizes == <<"kRobotLength", "kRobotWidth", "kRobotHeight">>
Vision == <<"kRobotVisionForward", "kRobotVisionBackward", "kRobotVisionLeftRight">>

\* Mutant of RobotParams: the sizes are read last.
RobotParamsReversed == Vision \o Sizes
RobotParams == Sizes \o Vision

Params ==
  <<"kQueueSize", "kFileAbsolutePath", "kResultGridFilePath", "kObstacleGridFilePath",
    "kBaseGridFilePath">> \o RobotParams \o
  <<"kRobotValidVisionForward", "kRobotValidVisionBackward", "kRobotValidVisionLeftRight",
    "kRobotAccurateVisionForward", "kRobotAccurateVisionBackward", "kRobotAccurateVisionLeftRight",
    "kRobotBlindVisionForward", "kRobotBlindVisionBackward", "kRobotBlindVisionLeftRight",
    "kThreshold1", "kThreshold2", "kThreshold3", "kDenominator",
    "kRobotVisionRange", "kRobotVisionGranularity", "kGridBlockGranularity", "kGridPixelGranularity",
    "kGridPixelStoreGranularity", "kBlockMapFilePath", "kBlockMapGridFilePath", "kThreadPoolSize",
    "kStaticObstacleFilePath", "kDynamicObstacleFilePath", "kCurbFilePath", "kFusionMapFreq",
    "kStaticVeloThreshold", "kStaticReplayTimes", "kDynamicReplayTimes">>

\* The three sizes are read into the three vision ranges.
Variable(p) == IF p \in Range(Sizes) THEN Vision[CHOOSE i \in 1..3 : Sizes[i] = p] ELSE p

\* Paths that kFileAbsolutePath is put in front of as soon as they are read.
Relative == {"kResultGridFilePath", "kObstacleGridFilePath", "kBaseGridFilePath", "kBlockMapGridFilePath"}

\* The variables before, 0 or an empty string.
Unset == [v \in Range(Params) |-> <<>>]

\* One parameter; the node has ended, goes on, or ends for want of it.
ReadParam(r, p) ==
  IF r.exited \/ p \in r.unset THEN [r EXCEPT !.exited = TRUE]
  ELSE [r EXCEPT !.value[Variable(p)] =
          IF p \in Relative THEN r.value["kFileAbsolutePath"] \o <<p>> ELSE <<p>>]

LoadConfig(unset) == FoldLeft(ReadParam, [unset |-> unset, exited |-> FALSE, value |-> Unset], Params)

\* The constructor of the restorer: right after the parameters are loaded the
\* size of a pixel is replaced by the one of the stored grid.
Started(unset) ==
  LET r == LoadConfig(unset)
  IN  [r EXCEPT !.value["kGridPixelGranularity"] = r.value["kGridPixelStoreGranularity"]]

-----------------------------------------------------------------------------
\* What a started node computes with.  Every variable has the parameter of its
\* name, behind the directory if it is a relative path, except four: the three
\* sizes are 0, since lines 101-109 read them into the vision ranges, which
\* still end with their own parameters (lines 110-118); and the size of a pixel
\* is that of the stored grid.  The node starts if and only if every parameter
\* is there, also those four, whose values nothing uses.
ConfigNamed(unset) ==
  LET r == Started(unset)
  IN  /\ r.exited <=> unset \cap Range(Params) # {}
      /\ ~ r.exited => \A v \in Range(Params) :
           r.value[v] = IF v \in Range(Sizes) THEN <<>>
                        ELSE IF v = "kGridPixelGranularity" THEN <<"kGridPixelStoreGranularity">>
                        ELSE IF v \in Relative THEN <<"kFileAbsolutePath", v>> ELSE <<v>>
=============================================================================
