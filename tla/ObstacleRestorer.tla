-------------------------- MODULE ObstacleRestorer --------------------------
(***************************************************************************)
(* The obstacle restorer node (aw_simulation_obstacle_new).  Two threads   *)
(* share the tracks of recorded obstacles:                                 *)
(*                                                                         *)
(*  - the loader (LoadDynamicObstacleFromFile) follows the robot, reads    *)
(*    the files of the map blocks around it, hands their obstacles to the  *)
(*    main thread and frees the ones that have been played;                *)
(*  - the main thread (run) starts the obstacles the robot comes near to,  *)
(*    replays each of them into the fusion map, tick after tick, and       *)
(*    reports the ones that came to their end.                             *)
(*                                                                         *)
(* One action is one critical section, or one unlocked access to the map   *)
(* of tracks with the thread-local work that follows it.  How far a track  *)
(* advances in a tick is left open here; module Playback has the clocks.   *)
(***************************************************************************)
EXTENDS Integers

CONSTANTS
  Pose,                 \* the poses the localization can report
  DefaultPose,          \* localized_pose_ before the first message
  Block,                \* map blocks, one directory each
  File,                 \* obstacle files
  Id,                   \* obstacle ids stored in the files
  BlockFiles,           \* [Block -> SUBSET File], what GetFileList returns
  FileId,               \* [File -> Id], the id recorded in a file
  LastIndex,            \* [File -> Int], number of recorded states minus one
  Moving,               \* [File -> SUBSET Nat], indices faster than kStaticVeloThreshold
  Window,               \* [Pose -> SUBSET Block], the blocks in kRobotVisionRange
  Near,                 \* [Pose -> SUBSET File], files whose start matches the pose
  Unreadable,           \* the files that cannot be opened
  StaticReplayTimes,    \* kStaticReplayTimes
  DynamicReplayTimes,   \* kDynamicReplayTimes
  NoPose, NoFile

ASSUME RestorerAssumption ==
  /\ DefaultPose \in Pose /\ NoPose \notin Pose
  /\ NoFile \notin File /\ Unreadable \subseteq File
  /\ BlockFiles \in [Block -> SUBSET File]
  /\ FileId \in [File -> Id]
  /\ LastIndex \in [File -> Int]
  /\ Moving \in [File -> SUBSET Nat]
  /\ Window \in [Pose -> SUBSET Block]
  /\ Near \in [Pose -> SUBSET File]
  /\ StaticReplayTimes \in Int /\ DynamicReplayTimes \in Int

kReplayTimesNotSet == -100

VARIABLES
  localized_pose_,      \* the last pose received (main thread only)
  loc_data_,            \* top of the stack of poses for the loader, or NoPose
  dynamic_obstacle_files_,  \* blocks already visited (loader only)
  dynamic_obstacle_,    \* id -> the file whose track is in memory, or NoFile
  done,                 \* dynamic_obstacle_id_to_do_: the state of each entry
  place,                \* dynamic_obstacle_id_to_do_: the file its pose comes from
  doing,                \* the keys of dynamic_obstacle_id_doing_
  replay_times, current_pos, total_size,   \* the fields of its Iter entries
  fusion_map,           \* ids in fusion_map_true_pub_.dynamic_obstacle_list
  l_pc, l_blocks, l_files, l_file, l_ids,  \* the loader's control and locals
  m_pc, m_left, m_id, m_track, finished,   \* the main thread's
  fault                 \* why the process ended, or "none"

loaderVars == <<l_pc, l_blocks, l_files, l_file, l_ids>>
mainVars == <<m_pc, m_left, m_id, m_track, finished>>
todoVars == <<done, place>>
iterVars == <<doing, replay_times, current_pos, total_size>>
vars == <<localized_pose_, loc_data_, dynamic_obstacle_files_, dynamic_obstacle_,
          todoVars, iterVars, fusion_map, loaderVars, mainVars, fault>>

\* done == 0, 1, 2 of an entry, and no entry at all.
Status == {"absent", "waiting", "shifted", "finished"}

Init ==
  /\ localized_pose_ = DefaultPose /\ loc_data_ = NoPose
  /\ dynamic_obstacle_files_ = {}
  /\ dynamic_obstacle_ = [id \in Id |-> NoFile]
  /\ done = [id \in Id |-> "absent"] /\ place = [id \in Id |-> NoFile]
  /\ doing = {}
  /\ replay_times = [id \in Id |-> 0]
  /\ current_pos = [id \in Id |-> 0]
  /\ total_size = [id \in Id |-> 0]
  /\ fusion_map = {}
  /\ l_pc = "take" /\ l_blocks = {} /\ l_files = {} /\ l_file = NoFile /\ l_ids = {}
  /\ m_pc = "push" /\ m_left = {} /\ m_id \in Id /\ m_track = NoFile /\ finished = {}
  /\ fault = "none"

Fail(why) ==
  /\ fault' = why
  /\ UNCHANGED <<localized_pose_, loc_data_, dynamic_obstacle_files_, dynamic_obstacle_,
                 todoVars, iterVars, fusion_map, loaderVars, mainVars>>

-----------------------------------------------------------------------------
(* The loader.                                                             *)

\* Lock mtx_data_, take the newest pose, drop the older ones, unlock.  With
\* an empty stack the loader sleeps and looks again: no step.
LoaderTake ==
  /\ l_pc = "take" /\ loc_data_ # NoPose
  /\ l_blocks' = Window[loc_data_]
  /\ loc_data_' = NoPose
  /\ l_pc' = "scan"
  /\ UNCHANGED <<localized_pose_, dynamic_obstacle_files_, dynamic_obstacle_, todoVars,
                 iterVars, fusion_map, l_files, l_file, l_ids, mainVars, fault>>

\* Mutants of LoaderVisit: the visited set is not kept; only one block of a
\* window is visited.
LoaderVisitAgain(b) ==
  /\ l_pc = "scan" /\ l_files = {} /\ b \in l_blocks
  /\ l_blocks' = l_blocks \ {b}
  /\ l_files' = BlockFiles[b]
  /\ UNCHANGED <<localized_pose_, loc_data_, dynamic_obstacle_files_, dynamic_obstacle_,
                 todoVars, iterVars, fusion_map, l_pc, l_file, l_ids, mainVars, fault>>
LoaderVisitOne(b) ==
  /\ l_pc = "scan" /\ l_files = {} /\ b \in l_blocks
  /\ l_blocks' = {}
  /\ l_files' = IF b \in dynamic_obstacle_files_ THEN {} ELSE BlockFiles[b]
  /\ dynamic_obstacle_files_' = dynamic_obstacle_files_ \cup {b}
  /\ UNCHANGED <<localized_pose_, loc_data_, dynamic_obstacle_, todoVars, iterVars,
                 fusion_map, l_pc, l_file, l_ids, mainVars, fault>>

\* One block of the window: its directory is listed the first time only.
LoaderVisit(b) ==
  /\ l_pc = "scan" /\ l_files = {} /\ b \in l_blocks
  /\ l_blocks' = l_blocks \ {b}
  /\ l_files' = IF b \in dynamic_obstacle_files_ THEN {} ELSE BlockFiles[b]
  /\ dynamic_obstacle_files_' = dynamic_obstacle_files_ \cup {b}
  /\ UNCHANGED <<localized_pose_, loc_data_, dynamic_obstacle_, todoVars, iterVars,
                 fusion_map, l_pc, l_file, l_ids, mainVars, fault>>

\* Open and parse one file; from here to LoaderStore the loader is inside
\* dynamic_obstacle_[id] = ..., without mtx_obstacle_.
LoaderOpen(f) ==
  /\ l_pc = "scan" /\ f \in l_files \ Unreadable
  /\ l_file' = f
  /\ l_pc' = "store"
  /\ UNCHANGED <<localized_pose_, loc_data_, dynamic_obstacle_files_, dynamic_obstacle_,
                 todoVars, iterVars, fusion_map, l_blocks, l_files, l_ids, mainVars, fault>>

\* Mutant of LoaderOpenFails: the loader goes on without a file.
LoaderOpenIgnored(f) ==
  /\ l_pc = "scan" /\ f \in l_files \cap Unreadable
  /\ l_pc' = "store"
  /\ UNCHANGED <<localized_pose_, loc_data_, dynamic_obstacle_files_, dynamic_obstacle_,
                 todoVars, iterVars, fusion_map, l_blocks, l_files, l_file, l_ids,
                 mainVars, fault>>

\* A file of the listing that cannot be opened ends the process: exit(0).
LoaderOpenFails(f) ==
  /\ l_pc = "scan" /\ f \in l_files \cap Unreadable
  /\ Fail("exit")

LoaderStore ==
  /\ l_pc = "store"
  /\ dynamic_obstacle_' = [dynamic_obstacle_ EXCEPT ![FileId[l_file]] = l_file]
  /\ l_ids' = l_ids \cup {FileId[l_file]}
  /\ l_files' = l_files \ {l_file}
  /\ l_file' = NoFile
  /\ l_pc' = "scan"
  /\ UNCHANGED <<localized_pose_, loc_data_, dynamic_obstacle_files_, todoVars, iterVars,
                 fusion_map, l_blocks, mainVars, fault>>

\* All files read: lock mtx_obstacle_.  The critical sections of the main
\* thread are single actions, so the mutex is held exactly while l_pc = "locked".
LoaderLock ==
  /\ l_pc = "scan" /\ l_blocks = {} /\ l_files = {}
  /\ l_pc' = "locked"
  /\ UNCHANGED <<localized_pose_, loc_data_, dynamic_obstacle_files_, dynamic_obstacle_,
                 todoVars, iterVars, fusion_map, l_blocks, l_files, l_file, l_ids,
                 mainVars, fault>>

\* Mutants: obstacles still in play are freed; only the list entry is erased.
ReclaimableEarly == {id \in Id : done[id] \in {"shifted", "finished"}}
TracksKept == dynamic_obstacle_

Reclaimable == {id \in Id : done[id] = "finished"}
TracksLeft == [id \in Id |-> IF id \in Reclaimable THEN NoFile ELSE dynamic_obstacle_[id]]

\* Free the finished obstacles, then list the ones just read, unlock.
\* dynamic_obstacle_[id] of an id whose track the same pass has just erased
\* is a null pointer, dereferenced by state_list->x().
LoaderHandOver ==
  /\ l_pc = "locked"
  /\ IF \E id \in l_ids : TracksLeft[id] = NoFile THEN Fail("null")
     ELSE /\ dynamic_obstacle_' = TracksLeft
          /\ done' = [id \in Id |-> IF id \in l_ids THEN "waiting"
                                    ELSE IF id \in Reclaimable THEN "absent" ELSE done[id]]
          /\ place' = [id \in Id |-> IF id \in l_ids THEN TracksLeft[id]
                                     ELSE IF id \in Reclaimable THEN NoFile ELSE place[id]]
          /\ l_ids' = {}
          /\ l_pc' = "take"
          /\ UNCHANGED <<localized_pose_, loc_data_, dynamic_obstacle_files_, iterVars,
                         fusion_map, l_blocks, l_files, l_file, mainVars, fault>>

-----------------------------------------------------------------------------
(* The main thread.                                                        *)

\* Top of the loop: push the pose under mtx_data_.
MainPush ==
  /\ m_pc = "push"
  /\ loc_data_' = localized_pose_
  /\ m_pc' = "shift"
  /\ UNCHANGED <<localized_pose_, dynamic_obstacle_files_, dynamic_obstacle_, todoVars,
                 iterVars, fusion_map, loaderVars, m_left, m_id, m_track, finished, fault>>

\* ros::ok() is false: run returns, and the process ends with its loader.
MainStop ==
  /\ m_pc = "push"
  /\ Fail("stopped")

\* The waiting entries the robot stands at, and those with enough states to play.
Hits == {id \in Id : done[id] = "waiting" /\ place[id] \in Near[localized_pose_]}
Playable == {id \in Hits : LastIndex[dynamic_obstacle_[id]] + 1 > 2}

\* Mutants of StartHits: total_size is the number of states; the obstacles
\* just shifted wait for the next tick; entries too short to play stay waiting.
StartHitsWith(shifted, total(_), left) ==
  /\ done' = [id \in Id |-> IF id \in shifted THEN "shifted" ELSE done[id]]
  /\ doing' = doing \cup Playable
  /\ replay_times' = [id \in Id |-> IF id \in Playable THEN kReplayTimesNotSet
                                    ELSE replay_times[id]]
  /\ current_pos' = [id \in Id |-> IF id \in Playable THEN 1 ELSE current_pos[id]]
  /\ total_size' = [id \in Id |-> IF id \in Playable THEN total(id) ELSE total_size[id]]
  /\ fusion_map' = {}
  /\ m_left' = left
  /\ m_pc' = "process"
  /\ UNCHANGED <<localized_pose_, loc_data_, dynamic_obstacle_files_, dynamic_obstacle_,
                 place, loaderVars, m_id, m_track, finished, fault>>
LastOf(id) == LastIndex[dynamic_obstacle_[id]]
SizeOf(id) == LastIndex[dynamic_obstacle_[id]] + 1
StartHitsSize == StartHitsWith(Hits, SizeOf, doing \cup Playable)
StartHitsLater == StartHitsWith(Hits, LastOf, doing)
StartHitsLong == StartHitsWith(Playable, LastOf, doing \cup Playable)

\* InitFusionMap and ShiftTodoToDoing, the latter under mtx_obstacle_; then
\* the loop of ProcessDoing starts at the first entry.
StartHits ==
  /\ done' = [id \in Id |-> IF id \in Hits THEN "shifted" ELSE done[id]]
  /\ doing' = doing \cup Playable
  /\ replay_times' = [id \in Id |-> IF id \in Playable THEN kReplayTimesNotSet
                                    ELSE replay_times[id]]
  /\ current_pos' = [id \in Id |-> IF id \in Playable THEN 1 ELSE current_pos[id]]
  /\ total_size' = [id \in Id |-> IF id \in Playable THEN LastIndex[dynamic_obstacle_[id]]
                                  ELSE total_size[id]]
  /\ fusion_map' = {}
  /\ m_left' = doing \cup Playable
  /\ m_pc' = "process"
  /\ UNCHANGED <<localized_pose_, loc_data_, dynamic_obstacle_files_, dynamic_obstacle_,
                 place, loaderVars, m_id, m_track, finished, fault>>

\* The track of an entry is dereferenced without a check.
MainShift ==
  /\ m_pc = "shift" /\ l_pc # "locked"
  /\ IF \A id \in Hits : dynamic_obstacle_[id] # NoFile THEN StartHits ELSE Fail("null")

\* The loader inserts into the map of tracks (possibly rehashing it) while
\* the main thread looks a key up: the lookup may miss a key that is there,
\* and the null it then creates is dereferenced.  The other outcome is the
\* right value, as in MainShift.
MainShiftRace ==
  /\ m_pc = "shift" /\ l_pc = "store" /\ Hits # {}
  /\ Fail("race")

\* state_list = dynamic_obstacle_[it->first], without the lock; a null track
\* is dereferenced right after.
MainLookup(id) ==
  /\ m_pc = "process" /\ id \in m_left
  /\ IF dynamic_obstacle_[id] = NoFile THEN Fail("null")
     ELSE /\ m_id' = id
          /\ m_track' = dynamic_obstacle_[id]
          /\ m_pc' = "play"
          /\ UNCHANGED <<localized_pose_, loc_data_, dynamic_obstacle_files_,
                         dynamic_obstacle_, todoVars, iterVars, fusion_map, loaderVars,
                         m_left, finished, fault>>

\* The two unlocked lookups of a tick: before the loop over the states, and
\* for the length of the current one.
MainLookupRace ==
  /\ m_pc = "play" \/ (m_pc = "process" /\ m_left # {})
  /\ l_pc \in {"store", "locked"}
  /\ Fail("race")

\* The index reached in this tick: any, the time that passed is open here.
Reached(id) == current_pos[id]..total_size[id]
\* Both the track looked up first and the one looked up for the step are read
\* at p, the first also at p - 1 (an unsigned index: 0 - 1 is out of range).
InRange(id, p) == 1 <= p /\ p <= LastIndex[m_track] /\ p <= LastIndex[dynamic_obstacle_[id]]

TimesAt(id, p) ==
  IF replay_times[id] = kReplayTimesNotSet /\ p \in Moving[m_track]
  THEN DynamicReplayTimes ELSE replay_times[id]
TimesAtEnd(id, p) ==
  (IF TimesAt(id, p) = kReplayTimesNotSet THEN StaticReplayTimes ELSE TimesAt(id, p)) - 1

\* The obstacle enters the fusion map and the track is not at its end.
PlayOn(id, p) ==
  /\ p < total_size[id]
  /\ replay_times' = [replay_times EXCEPT ![id] = TimesAt(id, p)]
  /\ current_pos' = [current_pos EXCEPT ![id] = p]
  /\ m_left' = m_left \ {id}
  /\ UNCHANGED <<doing, total_size, finished>>

\* At the end with replays left: rewind; the iterator stays on this entry,
\* which is processed again in the same tick.
Rewind(id, p) ==
  /\ p >= total_size[id] /\ TimesAtEnd(id, p) > 0
  /\ replay_times' = [replay_times EXCEPT ![id] = TimesAtEnd(id, p)]
  /\ current_pos' = [current_pos EXCEPT ![id] = 0]
  /\ UNCHANGED <<doing, total_size, finished, m_left>>

\* Mutant of PlayOut: the id is not remembered.
PlayOutSilently(id, p) ==
  /\ p >= total_size[id] /\ TimesAtEnd(id, p) <= 0
  /\ doing' = doing \ {id}
  /\ replay_times' = [replay_times EXCEPT ![id] = 0]
  /\ current_pos' = [current_pos EXCEPT ![id] = 0]
  /\ total_size' = [total_size EXCEPT ![id] = 0]
  /\ m_left' = m_left \ {id}
  /\ UNCHANGED finished

\* At the end for the last time: erase the entry and remember the id.
PlayOut(id, p) ==
  /\ p >= total_size[id] /\ TimesAtEnd(id, p) <= 0
  /\ doing' = doing \ {id}
  /\ finished' = finished \cup {id}
  /\ replay_times' = [replay_times EXCEPT ![id] = 0]
  /\ current_pos' = [current_pos EXCEPT ![id] = 0]
  /\ total_size' = [total_size EXCEPT ![id] = 0]
  /\ m_left' = m_left \ {id}

ShowAt(id, p) ==
  /\ PlayOn(id, p) \/ Rewind(id, p) \/ PlayOut(id, p)
  /\ fusion_map' = fusion_map \cup {id}
  /\ m_track' = NoFile
  /\ m_pc' = "process"
  /\ UNCHANGED <<localized_pose_, loc_data_, dynamic_obstacle_files_, dynamic_obstacle_,
                 todoVars, loaderVars, m_id, fault>>

MainPlay(id, p) ==
  /\ m_pc = "play" /\ id = m_id
  /\ IF dynamic_obstacle_[id] = NoFile THEN Fail("null")
     ELSE IF InRange(id, p) THEN ShowAt(id, p) ELSE Fail("range")

\* Mutant of MarkFinished: done stays 1.
MarkNothing ==
  /\ finished' = {}
  /\ m_pc' = "publish"
  /\ UNCHANGED <<localized_pose_, loc_data_, dynamic_obstacle_files_, dynamic_obstacle_,
                 todoVars, iterVars, fusion_map, loaderVars, m_left, m_id, m_track, fault>>

MarkFinished ==
  /\ done' = [id \in Id |-> IF id \in finished THEN "finished" ELSE done[id]]
  /\ finished' = {}
  /\ m_pc' = "publish"
  /\ UNCHANGED <<localized_pose_, loc_data_, dynamic_obstacle_files_, dynamic_obstacle_,
                 place, iterVars, fusion_map, loaderVars, m_left, m_id, m_track, fault>>

\* End of Comp: under mtx_obstacle_, done = 2 for every id of the list; what
\* find returns is used without a check for end().
MainMark ==
  /\ m_pc = "process" /\ m_left = {} /\ l_pc # "locked"
  /\ IF \A id \in finished : done[id] # "absent" THEN MarkFinished ELSE Fail("end")

\* publish, then spinOnce runs the callbacks: the last message wins, and
\* there may be none.
MainPublish ==
  /\ m_pc = "publish"
  /\ \E p \in Pose : localized_pose_' = p
  /\ m_pc' = "push"
  /\ UNCHANGED <<loc_data_, dynamic_obstacle_files_, dynamic_obstacle_, todoVars,
                 iterVars, fusion_map, loaderVars, m_left, m_id, m_track, finished, fault>>

-----------------------------------------------------------------------------
Loader ==
  \/ LoaderTake \/ LoaderStore \/ LoaderLock \/ LoaderHandOver
  \/ \E b \in Block : LoaderVisit(b)
  \/ \E f \in File : LoaderOpen(f) \/ LoaderOpenFails(f)

Main ==
  \/ MainPush \/ MainShift \/ MainMark \/ MainPublish
  \/ \E id \in Id : MainLookup(id)
  \/ \E id \in Id : \E p \in Reached(id) : MainPlay(id, p)

Ended == fault # "none" /\ UNCHANGED vars

Next ==
  \/ fault = "none" /\ (Loader \/ Main \/ MainStop \/ MainShiftRace \/ MainLookupRace)
  \/ Ended

Spec == Init /\ [][Next]_vars

(***************************************************************************)
(* Fairness.  Both threads keep running, and neither is refused the mutex  *)
(* for ever: the other one sleeps outside it every round (sleep(1),        *)
(* rate.sleep()).  Localization stamps keep growing, so a track in play    *)
(* does not stand still for ever.                                          *)
(***************************************************************************)
Advance(id) == fault = "none" /\ \E p \in Reached(id) : p > current_pos[id] /\ MainPlay(id, p)

Fairness ==
  /\ WF_vars(fault = "none" /\ Loader)
  /\ WF_vars(fault = "none" /\ Main)
  /\ SF_vars(fault = "none" /\ MainShift)
  /\ SF_vars(fault = "none" /\ MainMark)
  /\ \A id \in Id : SF_vars(Advance(id))

FairSpec == Spec /\ Fairness

-----------------------------------------------------------------------------
(***************************************************************************)
(* Properties.                                                             *)
(***************************************************************************)
Faults == {"none", "stopped", "exit", "race", "null", "range", "end"}

TypeOK ==
  /\ localized_pose_ \in Pose /\ loc_data_ \in Pose \cup {NoPose}
  /\ dynamic_obstacle_files_ \subseteq Block
  /\ dynamic_obstacle_ \in [Id -> File \cup {NoFile}]
  /\ done \in [Id -> Status] /\ place \in [Id -> File \cup {NoFile}]
  /\ doing \subseteq Id
  /\ replay_times \in [Id -> Int] /\ current_pos \in [Id -> Int] /\ total_size \in [Id -> Int]
  /\ fusion_map \subseteq Id
  /\ l_pc \in {"take", "scan", "store", "locked"}
  /\ l_blocks \subseteq Block /\ l_files \subseteq File /\ l_ids \subseteq Id
  /\ l_file \in File \cup {NoFile} /\ (l_pc = "store" => l_file \in File)
  /\ m_pc \in {"push", "shift", "process", "play", "publish"}
  /\ m_left \subseteq Id /\ m_id \in Id /\ finished \subseteq Id
  /\ m_track \in File \cup {NoFile} /\ (m_pc = "play" => m_track \in File)
  /\ fault \in Faults

\* Each id is recorded in one file, and each file lies in one block.
UniqueIds ==
  /\ \A f, g \in File : FileId[f] = FileId[g] => f = g
  /\ \A a, b \in Block : BlockFiles[a] \cap BlockFiles[b] # {} => a = b

\* An obstacle that is being played is listed as shifted and its track, the
\* one its length was taken from, stays in memory: the loader, which frees
\* tracks in its own thread, never frees one the main thread still reads
\* without the lock (ProcessDoing, lines 197 and 351).
PlayingHasTrack ==
  UniqueIds => \A id \in doing \cup m_left :
    /\ done[id] = "shifted"
    /\ dynamic_obstacle_[id] # NoFile
    /\ total_size[id] = LastIndex[dynamic_obstacle_[id]]

\* No obstacle is lost between the three maps: one that was shifted is in
\* play, or came to its end and waits for done = 2, or has two states at
\* most (such an entry is never played, reported or freed).
NoObstacleLost ==
  UniqueIds => \A id \in Id :
    done[id] = "shifted" => \/ id \in doing \cup finished
                            \/ LastIndex[place[id]] + 1 <= 2

\* Whatever ids the files repeat, an obstacle in play or about to be marked
\* is listed and its track is in memory: find at line 492 never returns
\* end(), and no lookup of ProcessDoing finds a null track.
ActiveStillListed ==
  /\ fault # "end"
  /\ \A id \in doing \cup finished :
       done[id] \in {"waiting", "shifted"} /\ dynamic_obstacle_[id] # NoFile

\* Every track in memory is listed or about to be: none is leaked.
TracksAccounted ==
  \A id \in Id : dynamic_obstacle_[id] # NoFile => done[id] # "absent" \/ id \in l_ids

\* With ids that are not repeated a null track is never dereferenced, in
\* either thread, and a state index is out of range only after a rewind.
FaultsHaveCause ==
  UniqueIds => /\ fault # "null"
               /\ fault = "range" => current_pos[m_id] = 0

\* The published map shows every obstacle in play, and besides them only
\* obstacles that came to their end in this tick (already done = 2, or even
\* freed by the loader meanwhile).
PublishedMapComplete ==
  (UniqueIds /\ m_pc = "publish") =>
    /\ doing \subseteq fusion_map
    /\ \A id \in fusion_map \ doing : done[id] \in {"finished", "absent"}

\* Once started, an obstacle is played to its end, reported and freed, unless
\* the process ends.
PlayedIsFreed ==
  \A id \in Id : id \in doing ~> (done[id] = "absent" \/ fault # "none")

\* If the robot stays at a pose, the blocks around it are all read, though
\* the loader drops every pose but the newest each time.
WindowIsRead ==
  \A p \in Pose : <>[](localized_pose_ = p) =>
                    <>(fault # "none" \/ Window[p] \subseteq dynamic_obstacle_files_)

\* A waiting obstacle the robot stands at does not wait for ever.
NearIsShifted == \A id \in Id : []<>(fault # "none" \/ id \notin Hits)
=============================================================================
