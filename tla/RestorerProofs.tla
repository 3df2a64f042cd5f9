--------------------------- MODULE RestorerProofs ---------------------------
(***************************************************************************)
(* Theorems about ObstacleRestorer, for every set of poses, blocks, files  *)
(* and ids, and every replay count.                                        *)
(***************************************************************************)
EXTENDS RestorerRefinement, TLAPS

(***************************************************************************)
(* Two inductive invariants.  ThreadInv needs nothing of the recorded      *)
(* files; OnceInv rests on it and holds when ids are not repeated.         *)
(***************************************************************************)

\* What the two critical sections on mtx_obstacle_ keep true between them.
ThreadInv ==
  /\ \A id \in Id : done[id] # "absent" => dynamic_obstacle_[id] # NoFile
  /\ \A id \in doing \cup finished : done[id] \in {"waiting", "shifted"}
  /\ doing \cap finished = {}
  /\ finished # {} => m_pc \in {"process", "play"}
  /\ m_left \subseteq doing
  /\ m_pc = "play" => m_id \in m_left
  /\ fault # "end"
  /\ TracksAccounted

\* The files not yet parsed: of the block being read, and of unvisited blocks.
Unread == l_files \cup UNION {BlockFiles[b] : b \in Block \ dynamic_obstacle_files_}

\* A file not yet parsed has left no trace of its id anywhere.
LoadInv ==
  /\ \A f \in Unread : /\ dynamic_obstacle_[FileId[f]] = NoFile
                       /\ FileId[f] \notin l_ids \cup fusion_map
  /\ l_files \subseteq UNION {BlockFiles[b] : b \in dynamic_obstacle_files_}
  /\ l_pc = "store" => l_file \in l_files
  /\ \A id \in l_ids : /\ dynamic_obstacle_[id] # NoFile
                       /\ done[id] = "absent" /\ id \notin fusion_map
  /\ fault # "null"

PlayInv ==
  /\ \A id \in Id : done[id] # "absent" => place[id] = dynamic_obstacle_[id]
  /\ \A id \in doing : /\ total_size[id] = LastIndex[dynamic_obstacle_[id]]
                       /\ current_pos[id] >= 0
  /\ \A id \in doing \cup finished : done[id] = "shifted"
  /\ m_pc = "play" => m_track = dynamic_obstacle_[m_id]
  /\ NoObstacleLost
  /\ fault = "range" => current_pos[m_id] = 0

MapInv ==
  /\ m_pc \in {"process", "play"} => /\ doing \ m_left \subseteq fusion_map
                                     /\ fusion_map \subseteq doing \cup finished
  /\ PublishedMapComplete

OnceInv == LoadInv /\ PlayInv /\ MapInv
-----------------------------------------------------------------------------
LEMMA TypeStep == TypeOK /\ [Next]_vars => TypeOK'
<1> SUFFICES ASSUME TypeOK, [Next]_vars PROVE TypeOK'
  OBVIOUS
<1> USE RestorerAssumption DEF TypeOK, Fail, Faults, Status, loaderVars, mainVars, todoVars, iterVars
<1>1. CASE LoaderTake
  BY <1>1 DEF LoaderTake
<1>2. ASSUME NEW b \in Block, LoaderVisit(b) PROVE TypeOK'
  BY <1>2 DEF LoaderVisit
<1>3. ASSUME NEW f \in File, LoaderOpen(f) PROVE TypeOK'
  BY <1>3 DEF LoaderOpen
<1>4. ASSUME NEW f \in File, LoaderOpenFails(f) PROVE TypeOK'
  BY <1>4 DEF LoaderOpenFails
<1>5. CASE LoaderStore
  BY <1>5 DEF LoaderStore
<1>6. CASE LoaderLock
  BY <1>6 DEF LoaderLock
<1>7. CASE LoaderHandOver
  <2>1. TracksLeft \in [Id -> File \cup {NoFile}]
    BY DEF TracksLeft
  <2>2. CASE \E id \in l_ids : TracksLeft[id] = NoFile
    BY <1>7, <2>2 DEF LoaderHandOver
  <2>3. CASE ~ \E id \in l_ids : TracksLeft[id] = NoFile
    <3>1. done' \in [Id -> Status]
      BY <1>7, <2>3 DEF LoaderHandOver
    <3>2. place' \in [Id -> File \cup {NoFile}]
      BY <1>7, <2>1, <2>3 DEF LoaderHandOver
    <3> QED
      BY <1>7, <2>1, <2>3, <3>1, <3>2 DEF LoaderHandOver
  <2> QED
    BY <2>2, <2>3
<1>8. CASE MainPush
  BY <1>8 DEF MainPush
<1>9. CASE MainStop
  BY <1>9 DEF MainStop
<1>10. CASE MainShift
  <2>1. CASE ~ \A id \in Hits : dynamic_obstacle_[id] # NoFile
    BY <1>10, <2>1 DEF MainShift
  <2>2. CASE \A id \in Hits : dynamic_obstacle_[id] # NoFile
    <3>1. StartHits
      BY <1>10, <2>2 DEF MainShift
    <3>2. Playable \subseteq Hits /\ Hits \subseteq Id
      BY DEF Playable, Hits
    <3>3. \A id \in Playable : LastIndex[dynamic_obstacle_[id]] \in Int
      BY <2>2, <3>2
    <3>4. total_size' \in [Id -> Int]
      BY <3>1, <3>3 DEF StartHits
    <3>5. replay_times' \in [Id -> Int] /\ current_pos' \in [Id -> Int]
      BY <3>1 DEF StartHits, kReplayTimesNotSet
    <3>6. done' \in [Id -> Status]
      BY <3>1 DEF StartHits
    <3> QED
      BY <3>1, <3>2, <3>4, <3>5, <3>6 DEF StartHits
  <2> QED
    BY <2>1, <2>2
<1>11. CASE MainShiftRace
  BY <1>11 DEF MainShiftRace
<1>12. ASSUME NEW id \in Id, MainLookup(id) PROVE TypeOK'
  BY <1>12 DEF MainLookup
<1>13. CASE MainLookupRace
  BY <1>13 DEF MainLookupRace
<1>14. ASSUME NEW id \in Id, NEW p \in Reached(id), MainPlay(id, p) PROVE TypeOK'
  <2>1. CASE ~ ShowAt(id, p)
    BY <1>14, <2>1 DEF MainPlay
  <2>2. CASE ShowAt(id, p)
    <3>1. p \in Int /\ TimesAt(id, p) \in Int /\ TimesAtEnd(id, p) \in Int
      BY DEF Reached, TimesAt, TimesAtEnd
    <3>2. /\ replay_times' \in [Id -> Int]
          /\ current_pos' \in [Id -> Int]
          /\ total_size' \in [Id -> Int]
      BY <2>2, <3>1 DEF ShowAt, PlayOn, Rewind, PlayOut
    <3>3. doing' \subseteq Id /\ m_left' \subseteq Id /\ finished' \subseteq Id
      BY <2>2 DEF ShowAt, PlayOn, Rewind, PlayOut
    <3> QED
      BY <2>2, <3>2, <3>3 DEF ShowAt
  <2> QED
    BY <2>1, <2>2
<1>15. CASE MainMark
  BY <1>15 DEF MainMark, MarkFinished
<1>16. CASE MainPublish
  BY <1>16 DEF MainPublish
<1>17. CASE UNCHANGED vars
  BY <1>17 DEF vars
<1> QED
  BY <1>1, <1>2, <1>3, <1>4, <1>5, <1>6, <1>7, <1>8, <1>9, <1>10, <1>11, <1>12, <1>13, <1>14, <1>15, <1>16, <1>17
  DEF Next, Loader, Main, Ended

\* Every variable keeps its type.
THEOREM TypeCorrect == Spec => []TypeOK
<1>1. Init => TypeOK
  BY RestorerAssumption DEF Init, TypeOK, Faults, Status
<1> QED
  BY <1>1, TypeStep, PTL DEF Spec

-----------------------------------------------------------------------------
(***************************************************************************)
(* The main thread reads tracks without the lock, and yet never one that   *)
(* is not there: a track is erased only once its entry is finished, the    *)
(* main thread finishes an entry only after it left doing, and a new entry *)
(* gets into doing only while the entry is waiting.                        *)
(***************************************************************************)
LEMMA ThreadInit == Init => ThreadInv
BY DEF Init, ThreadInv, TracksAccounted

LEMMA FailKeepsThread ==
  ASSUME TypeOK, ThreadInv, NEW why \in Faults \ {"end"}, Fail(why)
  PROVE  ThreadInv'
BY DEF ThreadInv, TracksAccounted, Fail, todoVars, iterVars, loaderVars, mainVars

LEMMA ThreadStep == TypeOK /\ ThreadInv /\ [Next]_vars => ThreadInv'
<1> SUFFICES ASSUME TypeOK, ThreadInv, [Next]_vars PROVE ThreadInv'
  OBVIOUS
<1>f. ASSUME NEW why \in Faults \ {"end"}, Fail(why) PROVE ThreadInv'
  BY <1>f, FailKeepsThread
<1> USE RestorerAssumption DEF ThreadInv, TracksAccounted, loaderVars, mainVars, todoVars, iterVars
<1>1. CASE LoaderTake
  BY <1>1 DEF LoaderTake
<1>2. ASSUME NEW b \in Block, LoaderVisit(b) PROVE ThreadInv'
  BY <1>2 DEF LoaderVisit
<1>3. ASSUME NEW f \in File, LoaderOpen(f) PROVE ThreadInv'
  BY <1>3 DEF LoaderOpen
<1>4. ASSUME NEW f \in File, LoaderOpenFails(f) PROVE ThreadInv'
  BY <1>4, <1>f DEF LoaderOpenFails, Faults
<1>5. CASE LoaderStore
  BY <1>5 DEF LoaderStore, TypeOK
<1>6. CASE LoaderLock
  BY <1>6 DEF LoaderLock
<1>7. CASE LoaderHandOver
  <2>1. CASE \E id \in l_ids : TracksLeft[id] = NoFile
    BY <1>7, <1>f, <2>1 DEF LoaderHandOver, Faults
  <2>2. CASE ~ \E id \in l_ids : TracksLeft[id] = NoFile
    <3>1. \A id \in Id :
            /\ dynamic_obstacle_'[id] = IF done[id] = "finished" THEN NoFile
                                        ELSE dynamic_obstacle_[id]
            /\ done'[id] = IF id \in l_ids THEN "waiting"
                           ELSE IF done[id] = "finished" THEN "absent" ELSE done[id]
      BY <1>7, <2>2 DEF LoaderHandOver, TracksLeft, Reclaimable
    <3>2. \A id \in l_ids : dynamic_obstacle_'[id] # NoFile
      BY <1>7, <2>2 DEF LoaderHandOver
    <3> QED
      BY <1>7, <2>2, <3>1, <3>2 DEF LoaderHandOver, TypeOK
  <2> QED
    BY <2>1, <2>2
<1>8. CASE MainPush
  BY <1>8 DEF MainPush
<1>9. CASE MainStop
  BY <1>9, <1>f DEF MainStop, Faults
<1>10. CASE MainShift
  <2>1. CASE ~ \A id \in Hits : dynamic_obstacle_[id] # NoFile
    BY <1>10, <1>f, <2>1 DEF MainShift, Faults
  <2>2. CASE \A id \in Hits : dynamic_obstacle_[id] # NoFile
    <3>1. StartHits
      BY <1>10, <2>2 DEF MainShift
    <3>2. \A id \in Id : /\ done'[id] = IF id \in Hits THEN "shifted" ELSE done[id]
                         /\ id \in Hits => done[id] = "waiting"
      BY <3>1 DEF StartHits, Hits
    <3>3. Playable \subseteq Hits /\ Hits \subseteq Id
      BY DEF Playable, Hits
    <3>4. finished = {}
      BY <1>10 DEF MainShift
    <3> QED
      BY <3>1, <3>2, <3>3, <3>4 DEF StartHits, TypeOK
  <2> QED
    BY <2>1, <2>2
<1>11. CASE MainShiftRace
  BY <1>11, <1>f DEF MainShiftRace, Faults
<1>12. ASSUME NEW id \in Id, MainLookup(id) PROVE ThreadInv'
  BY <1>12, <1>f DEF MainLookup, Faults
<1>13. CASE MainLookupRace
  BY <1>13, <1>f DEF MainLookupRace, Faults
<1>14. ASSUME NEW id \in Id, NEW p \in Reached(id), MainPlay(id, p) PROVE ThreadInv'
  <2>1. CASE ~ ShowAt(id, p)
    BY <1>14, <1>f, <2>1 DEF MainPlay, Faults
  <2>2. CASE ShowAt(id, p)
    <3>1. id \in doing /\ m_pc = "play"
      BY <1>14 DEF MainPlay
    <3> QED
      BY <2>2, <3>1 DEF ShowAt, PlayOn, Rewind, PlayOut
  <2> QED
    BY <2>1, <2>2
<1>15. CASE MainMark
  <2>1. \A id \in finished : done[id] # "absent"
    OBVIOUS
  <2>2. MarkFinished
    BY <1>15, <2>1 DEF MainMark
  <2>3. \A id \in Id : done'[id] = IF id \in finished THEN "finished" ELSE done[id]
    BY <2>2 DEF MarkFinished
  <2> QED
    BY <1>15, <2>2, <2>3 DEF MainMark, MarkFinished, TypeOK
<1>16. CASE MainPublish
  BY <1>16 DEF MainPublish
<1>17. CASE UNCHANGED vars
  BY <1>17 DEF vars
<1> QED
  BY <1>1, <1>2, <1>3, <1>4, <1>5, <1>6, <1>7, <1>8, <1>9, <1>10, <1>11, <1>12, <1>13,
     <1>14, <1>15, <1>16, <1>17
  DEF Next, Loader, Main, Ended

LEMMA ThreadCorrect == Spec => []ThreadInv
BY ThreadInit, ThreadStep, TypeCorrect, PTL DEF Spec

\* Whatever the files contain, an obstacle in play or about to be marked is
\* listed and its track is in memory.
THEOREM ActiveListed == Spec => []ActiveStillListed
<1>1. TypeOK /\ ThreadInv => ActiveStillListed
  BY DEF TypeOK, ThreadInv, ActiveStillListed
<1> QED
  BY <1>1, TypeCorrect, ThreadCorrect, PTL

\* No track is leaked.
THEOREM NoTrackLeaked == Spec => []TracksAccounted
<1>1. ThreadInv => TracksAccounted
  BY DEF ThreadInv
<1> QED
  BY <1>1, ThreadCorrect, PTL

-----------------------------------------------------------------------------
(***************************************************************************)
(* With ids that are not repeated, a file is read before anything else is  *)
(* known of its id, so no entry in use is ever replaced.                   *)
(***************************************************************************)
LEMMA LoadInit == UniqueIds /\ Init => LoadInv
BY RestorerAssumption DEF Init, LoadInv, Unread

LEMMA FailKeepsLoad ==
  ASSUME LoadInv, NEW why \in Faults \ {"null"}, Fail(why)
  PROVE  LoadInv'
BY DEF LoadInv, Unread, Fail, todoVars, iterVars, loaderVars, mainVars

\* Visiting a block moves its files from the unvisited blocks to l_files.
LEMMA VisitKeepsUnread ==
  ASSUME NEW b \in Block, LoaderVisit(b) PROVE Unread' \subseteq Unread
BY DEF LoaderVisit, Unread

LEMMA LoadStep ==
  UniqueIds /\ TypeOK /\ ThreadInv /\ LoadInv /\ [Next]_vars => LoadInv'
<1> SUFFICES ASSUME UniqueIds, TypeOK, ThreadInv, LoadInv, [Next]_vars PROVE LoadInv'
  OBVIOUS
<1>f. ASSUME NEW why \in Faults \ {"null"}, Fail(why) PROVE LoadInv'
  BY <1>f, FailKeepsLoad
<1> USE RestorerAssumption DEF LoadInv, Unread, loaderVars, mainVars, todoVars, iterVars
<1>1. CASE LoaderTake
  BY <1>1 DEF LoaderTake
<1>2. ASSUME NEW b \in Block, LoaderVisit(b) PROVE LoadInv'
  <2>1. Unread' \subseteq Unread
    BY <1>2, VisitKeepsUnread
  <2> QED
    BY <1>2, <2>1 DEF LoaderVisit, TypeOK
<1>3. ASSUME NEW f \in File, LoaderOpen(f) PROVE LoadInv'
  BY <1>3 DEF LoaderOpen
<1>4. ASSUME NEW f \in File, LoaderOpenFails(f) PROVE LoadInv'
  BY <1>4, <1>f DEF LoaderOpenFails, Faults
<1>5. CASE LoaderStore
  <2>1. l_file \in l_files /\ l_file \in File
    BY <1>5 DEF LoaderStore, TypeOK
  <2>2. \A f \in Unread' : f \in Unread /\ f # l_file /\ f \in File
    BY <1>5, <2>1 DEF LoaderStore, UniqueIds, TypeOK
  <2>3. \A f \in Unread' : FileId[f] # FileId[l_file]
    BY <2>1, <2>2 DEF UniqueIds
  <2>4. dynamic_obstacle_'[FileId[l_file]] = l_file
    BY <1>5, <2>1 DEF LoaderStore, TypeOK
  <2>5. \A id \in Id \ {FileId[l_file]} : dynamic_obstacle_'[id] = dynamic_obstacle_[id]
    BY <1>5 DEF LoaderStore, TypeOK
  <2>6. done[FileId[l_file]] = "absent" /\ FileId[l_file] \notin fusion_map
    BY <2>1 DEF ThreadInv
  <2> QED
    BY <1>5, <2>1, <2>2, <2>3, <2>4, <2>5, <2>6 DEF LoaderStore, TypeOK
<1>6. CASE LoaderLock
  BY <1>6 DEF LoaderLock
<1>7. CASE LoaderHandOver
  <2>1. \A id \in l_ids : TracksLeft[id] # NoFile
    BY DEF TracksLeft, Reclaimable, TypeOK
  <2>2. \A id \in Id : dynamic_obstacle_'[id] # NoFile => dynamic_obstacle_[id] # NoFile
    BY <1>7, <2>1 DEF LoaderHandOver, TracksLeft
  <2> QED
    BY <1>7, <2>1, <2>2 DEF LoaderHandOver, TypeOK
<1>8. CASE MainPush
  BY <1>8 DEF MainPush
<1>9. CASE MainStop
  BY <1>9, <1>f DEF MainStop, Faults
<1>10. CASE MainShift
  <2>1. Hits \subseteq Id /\ Playable \subseteq Hits
    BY DEF Hits, Playable
  <2>2. StartHits
    BY <1>10, <2>1 DEF MainShift, Hits, ThreadInv
  <2>3. \A id \in Id : done'[id] = IF id \in Hits THEN "shifted" ELSE done[id]
    BY <2>2 DEF StartHits
  <2>4. \A id \in l_ids : id \in Id /\ id \notin Hits
    BY DEF Hits, TypeOK
  <2> QED
    BY <2>2, <2>3, <2>4 DEF StartHits
<1>11. CASE MainShiftRace
  BY <1>11, <1>f DEF MainShiftRace, Faults
<1>12. ASSUME NEW id \in Id, MainLookup(id) PROVE LoadInv'
  <2>1. dynamic_obstacle_[id] # NoFile
    BY <1>12 DEF MainLookup, ThreadInv, TypeOK
  <2> QED
    BY <1>12, <2>1 DEF MainLookup
<1>13. CASE MainLookupRace
  BY <1>13, <1>f DEF MainLookupRace, Faults
<1>14. ASSUME NEW id \in Id, NEW p \in Reached(id), MainPlay(id, p) PROVE LoadInv'
  <2>1. CASE ~ ShowAt(id, p)
    BY <1>14, <1>f, <2>1 DEF MainPlay, Faults, ThreadInv
  <2>2. CASE ShowAt(id, p)
    <3>1. id \in doing /\ m_pc = "play"
      BY <1>14 DEF MainPlay, ThreadInv
    <3>2. done[id] # "absent" /\ dynamic_obstacle_[id] # NoFile
      BY <3>1 DEF ThreadInv, TypeOK
    <3> QED
      BY <2>2, <3>2 DEF ShowAt
  <2> QED
    BY <2>1, <2>2
<1>15. CASE MainMark
  <2>1. MarkFinished
    BY <1>15 DEF MainMark, ThreadInv
  <2>2. \A id \in Id : done'[id] = IF id \in finished THEN "finished" ELSE done[id]
    BY <2>1 DEF MarkFinished
  <2>3. \A id \in l_ids : id \in Id /\ id \notin finished
    BY DEF ThreadInv, TypeOK
  <2> QED
    BY <2>1, <2>2, <2>3 DEF MarkFinished
<1>16. CASE MainPublish
  BY <1>16 DEF MainPublish
<1>17. CASE UNCHANGED vars
  BY <1>17 DEF vars
<1> QED
  BY <1>1, <1>2, <1>3, <1>4, <1>5, <1>6, <1>7, <1>8, <1>9, <1>10, <1>11, <1>12, <1>13,
     <1>14, <1>15, <1>16, <1>17
  DEF Next, Loader, Main, Ended

-----------------------------------------------------------------------------
(***************************************************************************)
(* So the length and the position of an obstacle in play always belong to  *)
(* the track that is in memory, and an obstacle is in exactly one place.   *)
(***************************************************************************)
LEMMA PlayInit == UniqueIds /\ Init => PlayInv
BY DEF Init, PlayInv, NoObstacleLost

\* The files that fail leave the three maps as they are.
LEMMA FailKeepsPlay ==
  ASSUME PlayInv, NEW why \in Faults, Fail(why),
         why = "range" => current_pos[m_id] = 0
  PROVE  PlayInv'
BY DEF PlayInv, NoObstacleLost, Fail, todoVars, iterVars, loaderVars, mainVars

\* Every index the playback can reach lies on the track, except index 0.
LEMMA OnlyZeroOutOfRange ==
  ASSUME TypeOK, ThreadInv, PlayInv, UniqueIds,
         NEW id \in Id, NEW p \in Reached(id), m_pc = "play", id = m_id, ~ InRange(id, p)
  PROVE  current_pos[m_id] = 0
<1>1. id \in doing /\ done[id] = "shifted" /\ dynamic_obstacle_[id] \in File
  BY DEF ThreadInv, PlayInv, TypeOK
<1>2. /\ total_size[id] = LastIndex[m_track]
      /\ total_size[id] = LastIndex[dynamic_obstacle_[id]]
      /\ current_pos[id] \in Int /\ total_size[id] \in Int
      /\ 0 <= current_pos[id]
  BY <1>1 DEF PlayInv, TypeOK
<1>3. p \in Int /\ current_pos[id] <= p /\ p <= total_size[id]
  BY <1>2 DEF Reached
<1> QED
  BY <1>2, <1>3 DEF InRange

LEMMA PlayStep ==
  UniqueIds /\ TypeOK /\ ThreadInv /\ LoadInv /\ PlayInv /\ [Next]_vars => PlayInv'
<1> SUFFICES ASSUME UniqueIds, TypeOK, ThreadInv, LoadInv, PlayInv, [Next]_vars
             PROVE  PlayInv'
  OBVIOUS
<1>f. ASSUME NEW why \in Faults \ {"range"}, Fail(why) PROVE PlayInv'
  BY <1>f, FailKeepsPlay
<1> USE RestorerAssumption DEF PlayInv, NoObstacleLost, loaderVars, mainVars, todoVars, iterVars
<1>1. CASE LoaderTake
  BY <1>1 DEF LoaderTake
<1>2. ASSUME NEW b \in Block, LoaderVisit(b) PROVE PlayInv'
  BY <1>2 DEF LoaderVisit
<1>3. ASSUME NEW f \in File, LoaderOpen(f) PROVE PlayInv'
  BY <1>3 DEF LoaderOpen
<1>4. ASSUME NEW f \in File, LoaderOpenFails(f) PROVE PlayInv'
  BY <1>4, <1>f DEF LoaderOpenFails, Faults
<1>5. CASE LoaderStore
  <2>1. l_file \in l_files /\ l_file \in File
    BY <1>5 DEF LoaderStore, LoadInv, TypeOK
  <2>2. done[FileId[l_file]] = "absent"
    BY <2>1 DEF LoadInv, Unread, ThreadInv
  <2>3. \A id \in Id \ {FileId[l_file]} : dynamic_obstacle_'[id] = dynamic_obstacle_[id]
    BY <1>5 DEF LoaderStore, TypeOK
  <2>4. \A id \in doing \cup finished : id \in Id /\ id # FileId[l_file]
    BY <2>2 DEF TypeOK
  <2>5. m_pc = "play" => m_id \in doing
    BY DEF ThreadInv
  <2> QED
    BY <1>5, <2>1, <2>2, <2>3, <2>4, <2>5 DEF LoaderStore, TypeOK
<1>6. CASE LoaderLock
  BY <1>6 DEF LoaderLock
<1>7. CASE LoaderHandOver
  <2>1. \A id \in l_ids : TracksLeft[id] # NoFile
    BY DEF LoadInv, TracksLeft, Reclaimable, TypeOK
  <2>2. \A id \in Id :
          /\ dynamic_obstacle_'[id] = IF done[id] = "finished" THEN NoFile
                                      ELSE dynamic_obstacle_[id]
          /\ done'[id] = IF id \in l_ids THEN "waiting"
                         ELSE IF done[id] = "finished" THEN "absent" ELSE done[id]
          /\ place'[id] = IF id \in l_ids THEN dynamic_obstacle_'[id]
                          ELSE IF done[id] = "finished" THEN NoFile ELSE place[id]
    <3>1. dynamic_obstacle_' = TracksLeft
      BY <1>7, <2>1 DEF LoaderHandOver
    <3>2. \A id \in Id : dynamic_obstacle_'[id] = IF done[id] = "finished" THEN NoFile
                                                  ELSE dynamic_obstacle_[id]
      BY <3>1 DEF TracksLeft, Reclaimable
    <3>3. \A id \in Id : place'[id] = IF id \in l_ids THEN TracksLeft[id]
                                      ELSE IF id \in Reclaimable THEN NoFile ELSE place[id]
      BY <1>7, <2>1 DEF LoaderHandOver
    <3>4. \A id \in Id : done'[id] = IF id \in l_ids THEN "waiting"
                                     ELSE IF id \in Reclaimable THEN "absent" ELSE done[id]
      BY <1>7, <2>1 DEF LoaderHandOver
    <3> QED
      BY <3>1, <3>2, <3>3, <3>4 DEF Reclaimable
  <2>3. \A id \in l_ids : done[id] = "absent" /\ id \notin fusion_map /\ id \in Id
    BY DEF LoadInv, TypeOK
  <2>4. m_pc = "play" => m_id \in doing
    BY DEF ThreadInv
  <2>5. \A id \in doing \cup finished : id \in Id
    BY DEF TypeOK
  <2>6. UNCHANGED <<iterVars, mainVars, fault>>
    BY <1>7, <2>1 DEF LoaderHandOver
  <2> QED
    BY <2>2, <2>3, <2>4, <2>5, <2>6 DEF TypeOK
<1>8. CASE MainPush
  BY <1>8 DEF MainPush
<1>9. CASE MainStop
  BY <1>9, <1>f DEF MainStop, Faults
<1>10. CASE fault = "none" /\ MainShift
  <2>1. Hits \subseteq Id /\ Playable \subseteq Hits
    BY DEF Hits, Playable
  <2>2. StartHits
    BY <1>10, <2>1 DEF MainShift, Hits, ThreadInv
  <2>3. \A id \in Id : done'[id] = IF id \in Hits THEN "shifted" ELSE done[id]
    BY <2>2 DEF StartHits
  <2>4. \A id \in Playable : /\ dynamic_obstacle_[id] \in File
                             /\ dynamic_obstacle_[id] = place[id]
                             /\ LastIndex[dynamic_obstacle_[id]] + 1 > 2
    BY <2>1 DEF Playable, Hits, ThreadInv, TypeOK
  <2>5. \A id \in Hits : /\ done[id] = "waiting"
                         /\ id \notin Playable => LastIndex[place[id]] + 1 <= 2
    BY DEF Playable, Hits, ThreadInv, TypeOK
  <2>6. doing' = doing \cup Playable /\ doing \subseteq Id /\ finished = {} /\ m_pc = "shift"
    BY <1>10, <2>2 DEF MainShift, StartHits, TypeOK, ThreadInv
  <2>7. \A id \in Id :
          /\ total_size'[id] = IF id \in Playable THEN LastIndex[dynamic_obstacle_[id]]
                               ELSE total_size[id]
          /\ current_pos'[id] = IF id \in Playable THEN 1 ELSE current_pos[id]
    BY <2>2 DEF StartHits
  <2>8. fault # "range"
    BY <1>10
  <2> QED
    BY <2>1, <2>2, <2>3, <2>4, <2>5, <2>6, <2>7, <2>8 DEF StartHits
<1>11. CASE MainShiftRace
  BY <1>11, <1>f DEF MainShiftRace, Faults
<1>12. ASSUME NEW id \in Id, fault = "none", MainLookup(id) PROVE PlayInv'
  <2>1. dynamic_obstacle_[id] # NoFile
    BY <1>12 DEF MainLookup, ThreadInv, TypeOK
  <2> QED
    BY <1>12, <2>1 DEF MainLookup
<1>13. CASE MainLookupRace
  BY <1>13, <1>f DEF MainLookupRace, Faults
<1>14. ASSUME NEW id \in Id, NEW p \in Reached(id), fault = "none", MainPlay(id, p) PROVE PlayInv'
  <2>1. CASE ~ ShowAt(id, p)
    BY <1>14, <1>f, <2>1, OnlyZeroOutOfRange, FailKeepsPlay DEF MainPlay, Faults, ThreadInv
  <2>2. CASE ShowAt(id, p)
    <3>1. id \in doing /\ m_pc = "play"
      BY <1>14 DEF MainPlay, ThreadInv
    <3>2. p \in Int /\ p >= 0
      BY <3>1 DEF Reached, TypeOK
    <3>3. CASE PlayOn(id, p) \/ Rewind(id, p)
      BY <1>14, <2>2, <3>1, <3>2, <3>3 DEF ShowAt, PlayOn, Rewind, TypeOK
    <3>4. CASE PlayOut(id, p)
      BY <1>14, <2>2, <3>1, <3>4 DEF ShowAt, PlayOut, TypeOK
    <3> QED
      BY <2>2, <3>3, <3>4 DEF ShowAt
  <2> QED
    BY <2>1, <2>2
<1>15. CASE MainMark
  <2>1. MarkFinished
    BY <1>15 DEF MainMark, ThreadInv
  <2>2. \A id \in Id : done'[id] = IF id \in finished THEN "finished" ELSE done[id]
    BY <2>1 DEF MarkFinished
  <2> QED
    BY <2>1, <2>2 DEF MarkFinished, ThreadInv, TypeOK
<1>16. CASE MainPublish
  BY <1>16 DEF MainPublish
<1>17. CASE UNCHANGED vars
  BY <1>17 DEF vars
<1> QED
  BY <1>1, <1>2, <1>3, <1>4, <1>5, <1>6, <1>7, <1>8, <1>9, <1>10, <1>11, <1>12, <1>13,
     <1>14, <1>15, <1>16, <1>17
  DEF Next, Loader, Main, Ended

-----------------------------------------------------------------------------
(***************************************************************************)
(* The fusion map of a tick holds the entries already processed, and when  *)
(* it is published nothing is missing.                                     *)
(***************************************************************************)
LEMMA MapInit == Init => MapInv
BY DEF Init, MapInv, PublishedMapComplete

LEMMA FailKeepsMap ==
  ASSUME MapInv, NEW why \in Faults, Fail(why) PROVE MapInv'
BY DEF MapInv, PublishedMapComplete, Fail, todoVars, iterVars, loaderVars, mainVars

LEMMA MapStep ==
  UniqueIds /\ TypeOK /\ ThreadInv /\ LoadInv /\ PlayInv /\ MapInv /\ [Next]_vars => MapInv'
<1> SUFFICES ASSUME UniqueIds, TypeOK, ThreadInv, LoadInv, PlayInv, MapInv, [Next]_vars
             PROVE  MapInv'
  OBVIOUS
<1>f. ASSUME NEW why \in Faults, Fail(why) PROVE MapInv'
  BY <1>f, FailKeepsMap
<1> USE DEF MapInv, PublishedMapComplete, loaderVars, mainVars, todoVars, iterVars
<1>1. CASE LoaderTake
  BY <1>1 DEF LoaderTake
<1>2. ASSUME NEW b \in Block, LoaderVisit(b) PROVE MapInv'
  BY <1>2 DEF LoaderVisit
<1>3. ASSUME NEW f \in File, LoaderOpen(f) PROVE MapInv'
  BY <1>3 DEF LoaderOpen
<1>4. ASSUME NEW f \in File, LoaderOpenFails(f) PROVE MapInv'
  BY <1>4, <1>f DEF LoaderOpenFails, Faults
<1>5. CASE LoaderStore
  BY <1>5 DEF LoaderStore
<1>6. CASE LoaderLock
  BY <1>6 DEF LoaderLock
<1>7. CASE LoaderHandOver
  <2>1. \A id \in l_ids : TracksLeft[id] # NoFile
    BY DEF LoadInv, TracksLeft, Reclaimable, TypeOK
  <2>2. \A id \in Id :
          /\ dynamic_obstacle_'[id] = IF done[id] = "finished" THEN NoFile
                                      ELSE dynamic_obstacle_[id]
          /\ done'[id] = IF id \in l_ids THEN "waiting"
                         ELSE IF done[id] = "finished" THEN "absent" ELSE done[id]
          /\ place'[id] = IF id \in l_ids THEN dynamic_obstacle_'[id]
                          ELSE IF done[id] = "finished" THEN NoFile ELSE place[id]
    <3>1. dynamic_obstacle_' = TracksLeft
      BY <1>7, <2>1 DEF LoaderHandOver
    <3>2. \A id \in Id : dynamic_obstacle_'[id] = IF done[id] = "finished" THEN NoFile
                                                  ELSE dynamic_obstacle_[id]
      BY <3>1 DEF TracksLeft, Reclaimable
    <3>3. \A id \in Id : place'[id] = IF id \in l_ids THEN TracksLeft[id]
                                      ELSE IF id \in Reclaimable THEN NoFile ELSE place[id]
      BY <1>7, <2>1 DEF LoaderHandOver
    <3>4. \A id \in Id : done'[id] = IF id \in l_ids THEN "waiting"
                                     ELSE IF id \in Reclaimable THEN "absent" ELSE done[id]
      BY <1>7, <2>1 DEF LoaderHandOver
    <3> QED
      BY <3>1, <3>2, <3>3, <3>4 DEF Reclaimable
  <2>3. \A id \in l_ids : done[id] = "absent" /\ id \notin fusion_map /\ id \in Id
    BY DEF LoadInv, TypeOK
  <2>4. UNCHANGED <<iterVars, mainVars, fusion_map>>
    BY <1>7, <2>1 DEF LoaderHandOver
  <2>5. fusion_map \subseteq Id
    BY DEF TypeOK
  <2> QED
    BY <2>2, <2>3, <2>4, <2>5
<1>8. CASE MainPush
  BY <1>8 DEF MainPush
<1>9. CASE MainStop
  BY <1>9, <1>f DEF MainStop, Faults
<1>10. CASE MainShift
  <2>1. Hits \subseteq Id /\ Playable \subseteq Hits
    BY DEF Hits, Playable
  <2>2. StartHits
    BY <1>10, <2>1 DEF MainShift, Hits, ThreadInv
  <2>3. \A id \in Id : done'[id] = IF id \in Hits THEN "shifted" ELSE done[id]
    BY <2>2 DEF StartHits
  <2> QED
    BY <2>2 DEF StartHits
<1>11. CASE MainShiftRace
  BY <1>11, <1>f DEF MainShiftRace, Faults
<1>12. ASSUME NEW id \in Id, MainLookup(id) PROVE MapInv'
  <2>1. dynamic_obstacle_[id] # NoFile
    BY <1>12 DEF MainLookup, ThreadInv, TypeOK
  <2> QED
    BY <1>12, <2>1 DEF MainLookup
<1>13. CASE MainLookupRace
  BY <1>13, <1>f DEF MainLookupRace, Faults
<1>14. ASSUME NEW id \in Id, NEW p \in Reached(id), MainPlay(id, p) PROVE MapInv'
  <2>1. CASE ~ ShowAt(id, p)
    BY <1>14, <1>f, <2>1 DEF MainPlay, Faults
  <2>2. CASE ShowAt(id, p)
    BY <1>14, <2>2 DEF MainPlay, ShowAt, PlayOn, Rewind, PlayOut, ThreadInv
  <2> QED
    BY <2>1, <2>2
<1>15. CASE MainMark
  <2>1. MarkFinished
    BY <1>15 DEF MainMark, ThreadInv
  <2>2. \A id \in Id : done'[id] = IF id \in finished THEN "finished" ELSE done[id]
    BY <2>1 DEF MarkFinished
  <2>3. m_pc = "process" /\ m_left = {} /\ fusion_map \subseteq Id
    BY <1>15 DEF MainMark, TypeOK
  <2> QED
    BY <2>1, <2>2, <2>3 DEF MarkFinished
<1>16. CASE MainPublish
  BY <1>16 DEF MainPublish
<1>17. CASE UNCHANGED vars
  BY <1>17 DEF vars
<1> QED
  BY <1>1, <1>2, <1>3, <1>4, <1>5, <1>6, <1>7, <1>8, <1>9, <1>10, <1>11, <1>12, <1>13,
     <1>14, <1>15, <1>16, <1>17
  DEF Next, Loader, Main, Ended

-----------------------------------------------------------------------------
LEMMA OnceCorrect == ASSUME UniqueIds PROVE Spec => []OnceInv
<1>1. Init => OnceInv
  BY LoadInit, PlayInit, MapInit DEF OnceInv
<1>2. TypeOK /\ ThreadInv /\ OnceInv /\ [Next]_vars => OnceInv'
  BY LoadStep, PlayStep, MapStep DEF OnceInv
<1> QED
  BY <1>1, <1>2, TypeCorrect, ThreadCorrect, PTL DEF Spec

\* The loader never frees the track of an obstacle in play, and its length
\* is the one the playback counts with.
THEOREM PlayedTracksStay == Spec => []PlayingHasTrack
<1>1. TypeOK /\ ThreadInv /\ OnceInv => PlayingHasTrack
  BY DEF OnceInv, TypeOK, ThreadInv, PlayInv, PlayingHasTrack
<1>2. ~ UniqueIds => PlayingHasTrack
  BY DEF PlayingHasTrack
<1>3. CASE UniqueIds
  BY <1>1, <1>3, OnceCorrect, TypeCorrect, ThreadCorrect, PTL
<1>4. CASE ~ UniqueIds
  BY <1>2, <1>4, PTL
<1> QED
  BY <1>3, <1>4

\* A shifted obstacle is in play, at its end, or too short.
THEOREM NothingLost == Spec => []NoObstacleLost
<1>1. TypeOK /\ ThreadInv /\ OnceInv => NoObstacleLost
  BY DEF OnceInv, TypeOK, PlayInv, NoObstacleLost
<1>2. ~ UniqueIds => NoObstacleLost
  BY DEF NoObstacleLost
<1>3. CASE UniqueIds
  BY <1>1, <1>3, OnceCorrect, TypeCorrect, ThreadCorrect, PTL
<1>4. CASE ~ UniqueIds
  BY <1>2, <1>4, PTL
<1> QED
  BY <1>3, <1>4

\* No null track is dereferenced, and no index is out of range but after a
\* rewind.
THEOREM OnlyRewindFaults == Spec => []FaultsHaveCause
<1>1. TypeOK /\ ThreadInv /\ OnceInv => FaultsHaveCause
  BY DEF OnceInv, TypeOK, LoadInv, PlayInv, FaultsHaveCause
<1>2. ~ UniqueIds => FaultsHaveCause
  BY DEF FaultsHaveCause
<1>3. CASE UniqueIds
  BY <1>1, <1>3, OnceCorrect, TypeCorrect, ThreadCorrect, PTL
<1>4. CASE ~ UniqueIds
  BY <1>2, <1>4, PTL
<1> QED
  BY <1>3, <1>4

\* The published map shows the obstacles in play.
THEOREM MapComplete == Spec => []PublishedMapComplete
<1>1. TypeOK /\ ThreadInv /\ OnceInv => PublishedMapComplete
  BY DEF OnceInv, TypeOK, MapInv, PublishedMapComplete
<1>2. ~ UniqueIds => PublishedMapComplete
  BY DEF PublishedMapComplete
<1>3. CASE UniqueIds
  BY <1>1, <1>3, OnceCorrect, TypeCorrect, ThreadCorrect, PTL
<1>4. CASE ~ UniqueIds
  BY <1>2, <1>4, PTL
<1> QED
  BY <1>3, <1>4

(***************************************************************************)
(* The restorer implements ObstacleLifecycle, for every set of poses,      *)
(* blocks, files and ids whose ids are not repeated.                       *)
(***************************************************************************)

\* What the mapping needs besides OnceInv: a track in memory is the one of
\* its id, whatever is or was listed comes from a file that was read, and an
\* obstacle that came to its end in this tick is in the map of this tick.
ReadInv ==
  /\ \A id \in Id : dynamic_obstacle_[id] # NoFile => FileId[dynamic_obstacle_[id]] = id
  /\ \A id \in Id : done[id] # "absent" \/ id \in l_ids => WasRead(id)
  /\ finished \subseteq fusion_map

LEMMA ReadInit == Init => ReadInv
BY DEF Init, ReadInv

\* Once read, an obstacle stays read: a block is visited once, and its files
\* leave l_files only when they are parsed.
LEMMA ReadStays ==
  ASSUME UniqueIds, TypeOK, [Next]_vars, NEW id \in Id, WasRead(id)
  PROVE  WasRead(id)'
<1> USE RestorerAssumption DEF WasRead, loaderVars, mainVars, todoVars, iterVars
<1>1. ASSUME UNCHANGED <<dynamic_obstacle_files_, l_files>> PROVE WasRead(id)'
  BY <1>1
<1>2. ASSUME NEW b \in Block, LoaderVisit(b) PROVE WasRead(id)'
  <2>1. PICK c \in dynamic_obstacle_files_ : \E f \in BlockFiles[c] \ l_files : FileId[f] = id
    OBVIOUS
  <2>2. PICK f \in BlockFiles[c] : FileId[f] = id
    BY <2>1
  <2>3. c \in dynamic_obstacle_files_' /\ c \in Block
    BY <1>2, <2>1 DEF LoaderVisit, TypeOK
  <2>4. f \notin l_files'
    BY <1>2, <2>1, <2>2, <2>3 DEF LoaderVisit, UniqueIds
  <2> QED
    BY <2>2, <2>3, <2>4
<1>3. CASE LoaderStore
  BY <1>3 DEF LoaderStore
<1>4. CASE ~ LoaderStore /\ ~ \E b \in Block : LoaderVisit(b)
  BY <1>1, <1>4
  DEF Next, Loader, Main, Ended, vars, Fail, LoaderTake, LoaderOpen, LoaderOpenFails, LoaderLock,
      LoaderHandOver, MainPush, MainStop, MainShift, StartHits, MainShiftRace, MainLookup,
      MainLookupRace, MainPlay, ShowAt, MainMark, MarkFinished, MainPublish
<1> QED
  BY <1>2, <1>3, <1>4

LEMMA FailKeepsRead ==
  ASSUME ReadInv, NEW why, Fail(why) PROVE ReadInv'
BY DEF ReadInv, WasRead, Fail, todoVars, iterVars, loaderVars, mainVars

LEMMA ReadStep ==
  UniqueIds /\ TypeOK /\ ThreadInv /\ OnceInv /\ ReadInv /\ [Next]_vars => ReadInv'
<1> SUFFICES ASSUME UniqueIds, TypeOK, ThreadInv, OnceInv, ReadInv, [Next]_vars PROVE ReadInv'
  OBVIOUS
<1>f. ASSUME NEW why, Fail(why) PROVE ReadInv'
  BY <1>f, FailKeepsRead
\* Most actions list and load nothing: what was read stays so.
<1>r. ASSUME UNCHANGED <<dynamic_obstacle_, done, l_ids>>, finished' \subseteq fusion_map'
      PROVE  ReadInv'
  BY <1>r, ReadStays DEF ReadInv
<1> USE RestorerAssumption DEF loaderVars, mainVars, todoVars, iterVars
<1>1. CASE LoaderTake
  BY <1>1, <1>r DEF LoaderTake, ReadInv
<1>2. ASSUME NEW b \in Block, LoaderVisit(b) PROVE ReadInv'
  BY <1>2, <1>r DEF LoaderVisit, ReadInv
<1>3. ASSUME NEW f \in File, LoaderOpen(f) PROVE ReadInv'
  BY <1>3, <1>r DEF LoaderOpen, ReadInv
<1>4. ASSUME NEW f \in File, LoaderOpenFails(f) PROVE ReadInv'
  BY <1>4, <1>f DEF LoaderOpenFails
<1>5. CASE LoaderStore
  <2>1. l_file \in l_files /\ l_file \in File
    BY <1>5 DEF LoaderStore, OnceInv, LoadInv, TypeOK
  <2>2. ASSUME NEW id \in Id, id = FileId[l_file] PROVE WasRead(id)'
    <3>1. PICK b \in dynamic_obstacle_files_ : l_file \in BlockFiles[b]
      BY <2>1 DEF OnceInv, LoadInv
    <3> QED
      BY <1>5, <2>2, <3>1 DEF LoaderStore, WasRead
  <2>3. \A id \in Id : done[id] # "absent" \/ id \in l_ids => WasRead(id)'
    BY ReadStays DEF ReadInv
  <2>4. \A id \in Id : done'[id] # "absent" \/ id \in l_ids' =>
                         id = FileId[l_file] \/ done[id] # "absent" \/ id \in l_ids
    BY <1>5 DEF LoaderStore
  <2> QED
    BY <1>5, <2>1, <2>2, <2>3, <2>4 DEF LoaderStore, ReadInv, TypeOK
<1>6. CASE LoaderLock
  BY <1>6, <1>r DEF LoaderLock, ReadInv
<1>7. CASE LoaderHandOver
  <2>1. CASE \E id \in l_ids : TracksLeft[id] = NoFile
    BY <1>7, <1>f, <2>1 DEF LoaderHandOver
  <2>2. CASE ~ \E id \in l_ids : TracksLeft[id] = NoFile
    <3>1. \A id \in Id : done[id] # "absent" \/ id \in l_ids => WasRead(id)'
      BY ReadStays DEF ReadInv
    <3>2. \A id \in Id : done'[id] # "absent" \/ id \in l_ids' => done[id] # "absent" \/ id \in l_ids
      BY <1>7, <2>2 DEF LoaderHandOver
    <3>3. \A id \in Id : dynamic_obstacle_'[id] \in {NoFile, dynamic_obstacle_[id]}
      BY <1>7, <2>2 DEF LoaderHandOver, TracksLeft
    <3> QED
      BY <1>7, <2>2, <3>1, <3>2, <3>3 DEF LoaderHandOver, ReadInv
  <2> QED
    BY <2>1, <2>2
<1>8. CASE MainPush
  BY <1>8, <1>r DEF MainPush, ReadInv
<1>9. CASE MainStop
  BY <1>9, <1>f DEF MainStop
<1>10. CASE MainShift
  <2>1. CASE ~ \A id \in Hits : dynamic_obstacle_[id] # NoFile
    BY <1>10, <1>f, <2>1 DEF MainShift
  <2>2. CASE StartHits
    <3>1. \A id \in Id : done'[id] # "absent" => done[id] # "absent"
      BY <2>2 DEF StartHits, Hits
    <3>2. finished' = {}
      BY <1>10, <2>2 DEF MainShift, StartHits, ThreadInv
    <3>3. \A id \in Id : done[id] # "absent" \/ id \in l_ids => WasRead(id)'
      BY ReadStays DEF ReadInv
    <3> QED
      BY <2>2, <3>1, <3>2, <3>3 DEF StartHits, ReadInv
  <2> QED
    BY <1>10, <2>1, <2>2 DEF MainShift
<1>11. CASE MainShiftRace
  BY <1>11, <1>f DEF MainShiftRace
<1>12. ASSUME NEW id \in Id, MainLookup(id) PROVE ReadInv'
  BY <1>12, <1>f, <1>r DEF MainLookup, ReadInv
<1>13. CASE MainLookupRace
  BY <1>13, <1>f DEF MainLookupRace
<1>14. ASSUME NEW id \in Id, NEW p \in Reached(id), MainPlay(id, p) PROVE ReadInv'
  <2>1. CASE ~ ShowAt(id, p)
    BY <1>14, <1>f, <2>1 DEF MainPlay
  <2>2. CASE ShowAt(id, p)
    BY <1>r, <2>2 DEF ShowAt, PlayOn, Rewind, PlayOut, ReadInv
  <2> QED
    BY <2>1, <2>2
<1>15. CASE MainMark
  <2>1. MarkFinished
    BY <1>15 DEF MainMark, ThreadInv
  <2>2. \A id \in Id : done'[id] # "absent" => done[id] # "absent"
    BY <2>1 DEF MarkFinished, ThreadInv
  <2>3. \A id \in Id : done[id] # "absent" \/ id \in l_ids => WasRead(id)'
    BY ReadStays DEF ReadInv
  <2> QED
    BY <2>1, <2>2, <2>3 DEF MarkFinished, ReadInv
<1>16. CASE MainPublish
  BY <1>16, <1>r DEF MainPublish, ReadInv
<1>17. CASE UNCHANGED vars
  BY <1>17, <1>r DEF vars, ReadInv
<1> QED
  BY <1>1, <1>2, <1>3, <1>4, <1>5, <1>6, <1>7, <1>8, <1>9, <1>10, <1>11, <1>12, <1>13,
     <1>14, <1>15, <1>16, <1>17
  DEF Next, Loader, Main, Ended

LEMMA ReadCorrect == ASSUME UniqueIds PROVE Spec => []ReadInv
BY ReadInit, ReadStep, OnceCorrect, TypeCorrect, ThreadCorrect, PTL DEF Spec
-----------------------------------------------------------------------------
(***************************************************************************)
(* The mapping.                                                            *)
(***************************************************************************)
ShortIds == {FileId[f] : f \in {g \in File : LastIndex[g] + 1 <= 2}}
phaseBar == [id \in Id |-> PhaseOf(id)]

\* A step that changes nothing the phases are read off is no step of the
\* lifecycle.
LEMMA PhasesStay ==
  ASSUME UNCHANGED <<done, doing, finished, l_ids>>,
         \A id \in Id : done[id] = "absent" => WasRead(id)' = WasRead(id)
  PROVE  phaseBar' = phaseBar
<1>1. ASSUME NEW id \in Id PROVE PhaseOf(id)' = PhaseOf(id)
  BY DEF PhaseOf
<1> QED
  BY <1>1 DEF phaseBar

\* A failure leaves everything but fault as it is.
LEMMA FailStutters == ASSUME NEW why, Fail(why) PROVE UNCHANGED <<phaseBar, fusion_map>>
<1>1. \A id \in Id : WasRead(id)' = WasRead(id)
  BY DEF Fail, WasRead, loaderVars
<1> QED
  BY <1>1, PhasesStay DEF Fail, todoVars, iterVars, mainVars, loaderVars

\* Of the files with one id there is one, so that an id is absent and unread
\* exactly as long as its file is.
LEMMA VisitStutters ==
  ASSUME UniqueIds, TypeOK, NEW b \in Block, LoaderVisit(b)
  PROVE  UNCHANGED <<phaseBar, fusion_map>>
<1>1. ASSUME NEW id \in Id PROVE WasRead(id)' = WasRead(id)
  <2>1. CASE b \in dynamic_obstacle_files_
    BY <2>1 DEF LoaderVisit, WasRead
  <2>2. CASE b \notin dynamic_obstacle_files_
    <3>1. l_files = {} /\ l_files' = BlockFiles[b]
      BY <2>2 DEF LoaderVisit
    <3>2. \A c \in dynamic_obstacle_files_ : BlockFiles[c] \ l_files = BlockFiles[c] \ l_files'
      BY <2>2, <3>1, RestorerAssumption DEF UniqueIds, TypeOK
    <3>3. BlockFiles[b] \ l_files' = {}
      BY <3>1
    <3>4. dynamic_obstacle_files_' = dynamic_obstacle_files_ \cup {b}
      BY DEF LoaderVisit
    <3> QED
      BY <3>2, <3>3, <3>4 DEF WasRead
  <2> QED
    BY <2>1, <2>2
<1> QED
  BY <1>1, PhasesStay DEF LoaderVisit, todoVars, iterVars, mainVars
\* While a file is parsed its id stays unread: it is in l_ids from then on.
LEMMA StoreStutters ==
  ASSUME UniqueIds, TypeOK, ThreadInv, LoadInv, LoaderStore
  PROVE  UNCHANGED <<phaseBar, fusion_map>>
<1>1. l_file \in l_files /\ l_file \in File
  BY DEF LoaderStore, LoadInv, TypeOK
<1>2. ASSUME NEW id \in Id, id # FileId[l_file] PROVE WasRead(id)' = WasRead(id)
  BY <1>2, RestorerAssumption DEF LoaderStore, WasRead
<1>3. ASSUME NEW id \in Id, id = FileId[l_file] PROVE ~ WasRead(id) /\ done[id] = "absent"
  <2>1. ~ WasRead(id)
    BY <1>1, <1>3, RestorerAssumption DEF WasRead, UniqueIds, TypeOK
  <2>2. dynamic_obstacle_[id] = NoFile
    BY <1>1, <1>3 DEF LoadInv, Unread
  <2> QED
    BY <2>1, <2>2 DEF ThreadInv
<1>4. ASSUME NEW id \in Id PROVE PhaseOf(id)' = PhaseOf(id)
  <2>1. CASE id = FileId[l_file]
    BY <1>3, <2>1 DEF LoaderStore, PhaseOf, todoVars, iterVars, mainVars
  <2>2. CASE id # FileId[l_file]
    BY <1>2, <2>2 DEF LoaderStore, PhaseOf, todoVars, iterVars, mainVars
  <2> QED
    BY <2>1, <2>2
<1> QED
  BY <1>4 DEF LoaderStore, phaseBar

\* The loader's critical section hands over what it read and frees what was
\* acknowledged.
LEMMA HandOverMaps ==
  ASSUME TypeOK, LoadInv, ReadInv, LoaderHandOver
  PROVE  Lifecycle!HandOver(l_ids)
<1>1. ~ \E id \in l_ids : TracksLeft[id] = NoFile
  BY DEF LoadInv, TracksLeft, Reclaimable, TypeOK
<1>2. \A id \in Id : WasRead(id)' = WasRead(id)
  BY <1>1 DEF LoaderHandOver, WasRead
<1>3. \A id \in l_ids : id \in Id /\ done[id] = "absent" /\ PhaseOf(id) = "unread"
  BY DEF LoadInv, TypeOK, PhaseOf
<1>4. l_ids \subseteq Lifecycle!In("unread")
  BY <1>3 DEF Lifecycle!In
<1>5. ASSUME NEW id \in Id
      PROVE  PhaseOf(id)' = IF id \in l_ids THEN "waiting"
                            ELSE IF PhaseOf(id) = "acknowledged" THEN "freed" ELSE PhaseOf(id)
  <2>1. /\ done'[id] = IF id \in l_ids THEN "waiting"
                       ELSE IF done[id] = "finished" THEN "absent" ELSE done[id]
        /\ l_ids' = {} /\ UNCHANGED <<doing, finished, fusion_map>>
    BY <1>1 DEF LoaderHandOver, Reclaimable, iterVars, mainVars
  <2>2. done[id] = "finished" => WasRead(id)
    BY DEF ReadInv
  <2>3. PhaseOf(id) = "acknowledged" <=> done[id] = "finished"
    BY DEF PhaseOf, TypeOK, Status
  <2>4. CASE id \in l_ids
    BY <2>1, <2>4 DEF PhaseOf
  <2>5. CASE id \notin l_ids /\ done[id] = "finished"
    BY <1>2, <2>1, <2>2, <2>3, <2>5 DEF PhaseOf
  <2>6. CASE id \notin l_ids /\ done[id] # "finished"
    BY <1>2, <2>1, <2>3, <2>6 DEF PhaseOf, TypeOK, Status
  <2> QED
    BY <2>4, <2>5, <2>6
<1>6. UNCHANGED fusion_map
  BY <1>1 DEF LoaderHandOver
<1> QED
  BY <1>4, <1>5, <1>6 DEF Lifecycle!HandOver, Lifecycle!In

\* ShiftTodoToDoing starts the obstacles the robot stands at; the track it
\* finds too short is the one of the id.
LEMMA StartMaps ==
  ASSUME UniqueIds, TypeOK, ThreadInv, PlayInv, ReadInv, StartHits
  PROVE  Lifecycle!Start(Hits)
<1>1. Hits \subseteq Id /\ Playable \subseteq Hits
  BY DEF Hits, Playable
<1>2. \A id \in Hits : PhaseOf(id) = "waiting" /\ done[id] = "waiting"
  BY DEF Hits, PhaseOf
<1>3. Hits \subseteq Lifecycle!In("waiting")
  BY <1>1, <1>2 DEF Lifecycle!In
<1>4. \A id \in Hits : id \in Playable <=> id \notin ShortIds
  <2> SUFFICES ASSUME NEW id \in Hits PROVE id \in Playable <=> id \notin ShortIds
    OBVIOUS
  <2>1. /\ dynamic_obstacle_[id] \in File /\ FileId[dynamic_obstacle_[id]] = id
        /\ LastIndex[dynamic_obstacle_[id]] \in Int
    BY <1>1, <1>2, RestorerAssumption DEF ThreadInv, ReadInv, TypeOK
  <2>2. \A f \in File : FileId[f] = id => f = dynamic_obstacle_[id]
    BY <2>1 DEF UniqueIds
  <2> QED
    BY <2>1, <2>2 DEF Playable, ShortIds
<1>5. ASSUME NEW id \in Id
      PROVE  PhaseOf(id)' = IF id \notin Hits THEN PhaseOf(id)
                            ELSE IF id \in ShortIds THEN "parked" ELSE "playing"
  <2>1. /\ done'[id] = IF id \in Hits THEN "shifted" ELSE done[id]
        /\ doing' = doing \cup Playable
        /\ UNCHANGED <<finished, l_ids, l_files, dynamic_obstacle_files_>>
    BY DEF StartHits, loaderVars
  <2>2. id \in doing \cup finished => done[id] = "shifted"
    BY DEF PlayInv
  <2>3. WasRead(id)' = WasRead(id)
    BY <2>1 DEF WasRead
  <2>4. CASE id \in Hits
    <3>1. done'[id] = "shifted" /\ id \notin finished' /\ id \notin doing
      BY <1>2, <2>1, <2>2, <2>4
    <3>2. id \in doing' <=> id \notin ShortIds
      BY <1>4, <2>1, <2>4, <3>1
    <3> QED
      BY <2>4, <3>1, <3>2 DEF PhaseOf
  <2>5. CASE id \notin Hits
    <3>1. done'[id] = done[id] /\ (id \in doing' <=> id \in doing)
      BY <1>1, <2>1, <2>5
    <3>2. (id \in finished' <=> id \in finished) /\ l_ids' = l_ids
      BY <2>1
    <3>3. PhaseOf(id)' = PhaseOf(id)
      BY <2>3, <3>1, <3>2 DEF PhaseOf
    <3> QED
      BY <2>5, <3>3
  <2> QED
    BY <2>4, <2>5
<1>6. fusion_map' = {}
  BY DEF StartHits
<1> QED
  BY <1>3, <1>5, <1>6 DEF Lifecycle!Start, ShortIds
\* A tick of an obstacle in play shows it; PlayOut is its end.
LEMMA ShowMaps ==
  ASSUME TypeOK, ThreadInv, PlayInv, NEW id \in Id, NEW p \in Reached(id),
         MainPlay(id, p), ShowAt(id, p)
  PROVE  Lifecycle!Show(id)
<1>1. id \in doing /\ id \notin finished /\ done[id] = "shifted"
  BY DEF MainPlay, ThreadInv, PlayInv
<1>2. PhaseOf(id) = "playing"
  BY <1>1 DEF PhaseOf
<1>3. UNCHANGED <<done, l_ids, l_files, dynamic_obstacle_files_>> /\ fusion_map' = fusion_map \cup {id}
  BY DEF ShowAt, todoVars, loaderVars
<1>4. \A i \in Id : WasRead(i)' = WasRead(i)
  BY <1>3 DEF WasRead
<1>5. CASE PlayOn(id, p) \/ Rewind(id, p)
  <2>1. phaseBar' = phaseBar
    BY <1>3, <1>4, <1>5, PhasesStay DEF PlayOn, Rewind
  <2> QED
    BY <1>2, <1>3, <2>1 DEF Lifecycle!Show, phaseBar
<1>6. CASE PlayOut(id, p)
  <2>1. doing' = doing \ {id} /\ finished' = finished \cup {id}
    BY <1>6 DEF PlayOut
  <2>2. \A i \in Id \ {id} : PhaseOf(i)' = PhaseOf(i)
    BY <1>3, <1>4, <2>1 DEF PhaseOf
  <2>3. PhaseOf(id)' = "over"
    BY <1>1, <1>3, <2>1 DEF PhaseOf
  <2>4. phaseBar' = [phaseBar EXCEPT ![id] = "over"]
    BY <2>2, <2>3 DEF phaseBar
  <2> QED
    BY <1>2, <1>3, <2>4 DEF Lifecycle!Show, phaseBar
<1> QED
  BY <1>5, <1>6 DEF ShowAt

\* At the end of Comp every obstacle in play, or at its end, is in the map.
LEMMA AcknowledgeMaps ==
  ASSUME TypeOK, ThreadInv, PlayInv, MapInv, ReadInv, MainMark
  PROVE  Lifecycle!Acknowledge
<1>1. MarkFinished
  BY DEF MainMark, ThreadInv
<1>2. doing \cup finished \subseteq fusion_map
  BY DEF MainMark, MapInv, ReadInv
<1>3. \A id \in Id : PhaseOf(id) \in {"playing", "over"} => id \in doing \cup finished
  BY DEF PhaseOf, TypeOK, Status
<1>4. Lifecycle!In("playing") \cup Lifecycle!In("over") \subseteq fusion_map
  BY <1>2, <1>3 DEF Lifecycle!In
<1>5. ASSUME NEW id \in Id
      PROVE  PhaseOf(id)' = IF PhaseOf(id) = "over" THEN "acknowledged" ELSE PhaseOf(id)
  <2>1. /\ done'[id] = IF id \in finished THEN "finished" ELSE done[id]
        /\ finished' = {}
        /\ UNCHANGED <<doing, l_ids, l_files, dynamic_obstacle_files_>>
    BY <1>1 DEF MarkFinished, iterVars, loaderVars
  <2>2. WasRead(id)' = WasRead(id)
    BY <2>1 DEF WasRead
  <2>3. CASE id \in finished
    <3>1. done[id] = "shifted" /\ id \notin doing
      BY <2>3 DEF PlayInv, ThreadInv
    <3> QED
      BY <2>1, <2>3, <3>1 DEF PhaseOf
  <2>4. CASE id \notin finished
    BY <2>1, <2>2, <2>4 DEF PhaseOf, TypeOK, Status
  <2> QED
    BY <2>3, <2>4
<1>6. UNCHANGED fusion_map
  BY <1>1 DEF MarkFinished
<1> QED
  BY <1>4, <1>5, <1>6 DEF Lifecycle!Acknowledge

\* The other actions do not show in the lifecycle.
LEMMA OthersStutter ==
  ASSUME UNCHANGED <<dynamic_obstacle_files_, todoVars, iterVars, finished, fusion_map,
                     l_files, l_ids>>
  PROVE  UNCHANGED <<phaseBar, fusion_map>>
<1>1. \A id \in Id : WasRead(id)' = WasRead(id)
  BY DEF WasRead
<1> QED
  BY <1>1, PhasesStay DEF todoVars, iterVars

LEMMA InitMaps == Init => Lifecycle!Init
<1> SUFFICES ASSUME Init PROVE Lifecycle!Init
  OBVIOUS
<1>1. \A id \in Id : PhaseOf(id) = "unread"
  BY DEF Init, PhaseOf, WasRead
<1> QED
  BY <1>1 DEF Init, Lifecycle!Init

LEMMA StepMaps ==
  UniqueIds /\ TypeOK /\ ThreadInv /\ OnceInv /\ ReadInv /\ [Next]_vars
    => [Lifecycle!Next]_<<phaseBar, fusion_map>>
<1> SUFFICES ASSUME UniqueIds, TypeOK, ThreadInv, OnceInv, ReadInv, [Next]_vars
             PROVE  Lifecycle!Next \/ UNCHANGED <<phaseBar, fusion_map>>
  OBVIOUS
<1>o. LoadInv /\ PlayInv /\ MapInv
  BY DEF OnceInv
<1>f. ASSUME NEW why, Fail(why) PROVE UNCHANGED <<phaseBar, fusion_map>>
  BY <1>f, FailStutters
<1> USE DEF loaderVars, mainVars
<1>1. CASE LoaderTake \/ LoaderLock \/ \E f \in File : LoaderOpen(f)
  BY <1>1, OthersStutter DEF LoaderTake, LoaderLock, LoaderOpen
<1>2. ASSUME NEW b \in Block, LoaderVisit(b) PROVE UNCHANGED <<phaseBar, fusion_map>>
  BY <1>2, VisitStutters
<1>3. CASE LoaderStore
  BY <1>o, <1>3, StoreStutters
<1>4. CASE LoaderHandOver
  <2>1. Lifecycle!HandOver(l_ids) /\ l_ids \in SUBSET Id
    BY <1>o, <1>4, HandOverMaps DEF TypeOK
  <2> QED
    BY <2>1 DEF Lifecycle!Next
<1>5. CASE MainShift
  <2>1. StartHits \/ Fail("null")
    BY <1>5 DEF MainShift
  <2>2. StartHits => Lifecycle!Start(Hits) /\ Hits \in SUBSET Id
    BY <1>o, StartMaps DEF Hits
  <2> QED
    BY <1>f, <2>1, <2>2 DEF Lifecycle!Next
<1>6. ASSUME NEW id \in Id, NEW p \in Reached(id), MainPlay(id, p)
      PROVE  Lifecycle!Next \/ UNCHANGED <<phaseBar, fusion_map>>
  <2>1. ShowAt(id, p) \/ \E why : Fail(why)
    BY <1>6 DEF MainPlay
  <2>2. ShowAt(id, p) => Lifecycle!Show(id)
    BY <1>o, <1>6, ShowMaps
  <2> QED
    BY <1>f, <2>1, <2>2 DEF Lifecycle!Next
<1>7. CASE MainMark
  BY <1>o, <1>7, AcknowledgeMaps DEF Lifecycle!Next
<1>8. CASE MainPush \/ MainPublish
  BY <1>8, OthersStutter DEF MainPush, MainPublish
<1>9. ASSUME NEW id \in Id, MainLookup(id) PROVE UNCHANGED <<phaseBar, fusion_map>>
  BY <1>9, <1>f, OthersStutter DEF MainLookup
<1>10. CASE MainStop \/ MainShiftRace \/ MainLookupRace \/ \E f \in File : LoaderOpenFails(f)
  BY <1>10, <1>f DEF MainStop, MainShiftRace, MainLookupRace, LoaderOpenFails
<1>11. CASE UNCHANGED vars
  BY <1>11, OthersStutter DEF vars
<1> QED
  BY <1>1, <1>2, <1>3, <1>4, <1>5, <1>6, <1>7, <1>8, <1>9, <1>10, <1>11
  DEF Next, Loader, Main, Ended

\* The two threads, their locks and their unlocked reads implement the
\* lifecycle of an obstacle: it is listed once, in play from the tick that
\* reaches it, in every map until its end, acknowledged and only then freed.
THEOREM RestorerImplementsLifecycle == ASSUME UniqueIds PROVE Spec => ImplementsLifecycle
<1>1. UniqueIds /\ TypeOK /\ ThreadInv /\ OnceInv /\ ReadInv /\ [Next]_vars
        => [Lifecycle!Next]_<<[id \in Id |-> PhaseOf(id)], fusion_map>>
  BY StepMaps DEF phaseBar
<1> QED
  BY <1>1, InitMaps, TypeCorrect, ThreadCorrect, OnceCorrect, ReadCorrect, PTL
  DEF Spec, ImplementsLifecycle, Lifecycle!Spec
=============================================================================
