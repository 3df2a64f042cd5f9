------------------------------- MODULE SyncBag -------------------------------
(***************************************************************************)
(* The bag synchronization daemon, sync_bag_to_plugged_device.sh.  Its     *)
(* processes share two files, each under its own flock:                    *)
(*                                                                         *)
(*  - the data reader (process_file_notify_event) batches the inotify      *)
(*    events of the bag directory into the merged event queue;             *)
(*  - the device reader (add_or_delete_device_handler) puts the devices    *)
(*    that come and go into the device queue;                              *)
(*  - the main loop (sync_file) empties both, merges the events and        *)
(*    repeats them on every device, through copiers in the background;     *)
(*  - one background process per device copies the older files             *)
(*    (sync_history_files) while the main loop holds the events back.      *)
(*                                                                         *)
(* A file is the time of its last write (0: no such file): the recorder    *)
(* only appends, so that of two versions of a recording the later one is   *)
(* the longer.  The clock counts the writes.  Other times are abstract: a  *)
(* batch is flushed, and a MOVED_FROM becomes 120 s old, at any moment.    *)
(* CLOSE_WRITE events do not appear: inotifywait prints them as            *)
(* CLOSE_WRITE,CLOSE, which the reader takes for the event of a directory. *)
(***************************************************************************)
EXTENDS Integers, Sequences, FiniteSets, SequencesExt

CONSTANTS
  Bag,             \* recordings
  Device,          \* mount points
  SyncFlag,        \* the devices that hold a sync file
  SyncHistory,     \* those of them whose sync file sets sync_history
  HasMd5,          \* [Device -> SUBSET Name]: files with a .md5 beside them
  SourceOps,       \* what happens to recordings in the instance
  MaxClock,        \* bound: of the clock, which counts the writes from 1
  MaxPlugs,        \* bound: how often devices are plugged in
  MaxRestarts,     \* bound: how often the daemon is killed and restarted
  NoName

\* A recording is x.bag.active while it is written and x.bag afterwards.  A
\* deferred MOVED_FROM has a backslash and an n after its name: no such file.
Active(b) == <<b, "active">>
Closed(b) == <<b, "bag">>
File == {Active(b) : b \in Bag} \cup {Closed(b) : b \in Bag}
Mangled(n) == IF n[2] \in {"active", "active\\n"} THEN <<n[1], "active\\n">>
              ELSE <<n[1], "bag\\n">>
Name == File \cup {Mangled(n) : n \in File}

ASSUME SyncAssumption ==
  /\ IsFiniteSet(Device)
  /\ SyncHistory \subseteq SyncFlag /\ SyncFlag \subseteq Device
  /\ HasMd5 \in [Device -> SUBSET File]
  /\ SourceOps \subseteq {"write", "finish", "remove", "in", "out"}
  /\ MaxClock \in Nat /\ MaxPlugs \in Nat /\ MaxRestarts \in Nat
  /\ NoName \notin Name

VARIABLES
  clock,           \* the number of writes, from 1
  src,             \* [File -> version], 0: no such file
  dst,             \* [Device -> [File -> version]], Foreign: of another recording
  plugged,         \* mounted devices
  since,           \* time of mounting less start_timestamp: older files are of no interest
  fifo, dfifo,     \* inotify events not yet read, of files and of devices
  batch,           \* prev_n_event_string of the data reader
  merged,          \* the file MERGED_EVENT_QUEUE
  known,           \* DEVICE_TIMESTAMP of the device reader
  devq,            \* the file SYNC_HISTORY_FILE_DEVICE_QUEUE
  toadd,           \* devices main has still to look at
  watching,        \* what inotifywait watches by now: "devices", "data"
  pc,              \* the main loop: "off", "devices", "take", "check", "exec", "wait"
  event_string,    \* its events for the next round
  roots,           \* device_root_paths: how often each device is listed
  running,         \* running_sync_processes
  device_pids,     \* the process to kill when a device goes, 0: none
  todo,            \* the merged events still to be repeated
  procs,           \* background processes alive
  orphans,         \* rsyncs whose process was killed
  meta,            \* files reported as "Copied"
  ended,           \* recordings removed or moved out: they do not come back
  plugs, restarts, \* bounds
  overlooked,      \* auxiliary: devices that came or went without sync_file
                   \* being told, or of which it was told by a former run
  missed           \* auxiliary: recordings that changed while sync_file ran
                   \* and inotifywait did not watch yet

files == <<src, dst>>
queues == <<fifo, dfifo, batch, merged, known, devq>>
loopVars == <<pc, event_string, roots, running, device_pids, todo>>
start == <<toadd, watching>>
world == <<clock, plugged, since, ended, missed>>
bounds == <<plugs, restarts>>
vars == <<files, queues, loopVars, start, procs, orphans, meta, world, bounds, overlooked>>

NoProc == 0
Failed == -1
Foreign == -1
None == [n \in File |-> 0]
Created(d, time) == [action |-> "CREATE", device |-> d, since |-> time]
Deleted(d) == [action |-> "DELETE", device |-> d, since |-> 0]
Event(ev, n) == [ev |-> ev, name |-> n]

\* The daemon starts: main lists the mounted devices and looks at each of them
\* before the main loop runs and before anything is watched.
Init ==
  /\ clock = 1 /\ src = None /\ dst = [d \in Device |-> None]
  /\ plugged \in SUBSET Device /\ since = [d \in Device |-> 0]
  /\ fifo = <<>> /\ dfifo = <<>> /\ batch = <<>> /\ merged = <<>>
  /\ known = {} /\ devq = <<>>
  /\ toadd = plugged /\ watching = {}
  /\ pc = "off" /\ event_string = <<>> /\ todo = <<>>
  /\ roots = [d \in Device |-> 0]
  /\ running = {} /\ device_pids = [d \in Device |-> NoProc]
  /\ procs = {} /\ orphans = {} /\ meta = {}
  /\ ended = {} /\ plugs = 0 /\ restarts = 0
  /\ overlooked = {} /\ missed = {}

-----------------------------------------------------------------------------
(* The recorder, the user and the kernel: what the daemon observes.        *)

\* An event that inotifywait does not see is lost.
Emit(b, events) ==
  /\ IF "data" \in watching THEN fifo' = fifo \o events ELSE UNCHANGED fifo
  /\ missed' = IF "data" \in watching \/ pc = "off" THEN missed ELSE missed \cup {b}
  /\ UNCHANGED <<dst, plugged, since, dfifo, batch, merged, known, devq, start, loopVars, procs,
                 orphans, meta, bounds, overlooked>>

\* The recorder appends to x.bag.active.
Write(b) ==
  /\ "write" \in SourceOps /\ b \notin ended
  /\ src[Closed(b)] = 0 /\ clock < MaxClock
  /\ clock' = clock + 1 /\ src' = [src EXCEPT ![Active(b)] = clock']
  /\ Emit(b, <<Event("MODIFY", Active(b))>>) /\ UNCHANGED ended

\* It closes the recording: a rename inside the directory.
Finish(b) ==
  /\ "finish" \in SourceOps /\ src[Active(b)] > 0
  /\ src' = [src EXCEPT ![Closed(b)] = src[Active(b)], ![Active(b)] = 0]
  /\ Emit(b, <<Event("MOVED_FROM", Active(b)), Event("MOVED_TO", Closed(b))>>)
  /\ UNCHANGED <<clock, ended>>

\* A closed recording is deleted, or moved to another directory.
Leave(b, ev) ==
  /\ src[Closed(b)] > 0
  /\ src' = [src EXCEPT ![Closed(b)] = 0]
  /\ ended' = ended \cup {b}
  /\ Emit(b, <<Event(ev, Closed(b))>>) /\ UNCHANGED clock
Erase(b) == "remove" \in SourceOps /\ Leave(b, "DELETE")
MoveOut(b) == "out" \in SourceOps /\ Leave(b, "MOVED_FROM")

\* A closed recording of any age is moved in from another directory.
MoveIn(b) ==
  /\ "in" \in SourceOps /\ b \notin ended /\ src[Active(b)] = 0 /\ src[Closed(b)] = 0
  /\ \E age \in 1..clock : src' = [src EXCEPT ![Closed(b)] = age]
  /\ Emit(b, <<Event("MOVED_TO", Closed(b))>>) /\ UNCHANGED <<clock, ended>>

\* A device comes or goes; the files its history leaves out are older than any
\* time up to now, as its sync file says.
Cutoffs(d) == IF d \in SyncHistory THEN 0..clock ELSE {0}
Mount(e) ==
  /\ IF "devices" \in watching THEN dfifo' = Append(dfifo, e) /\ UNCHANGED overlooked
     ELSE overlooked' = overlooked \cup {e.device} /\ UNCHANGED dfifo
  /\ UNCHANGED <<clock, src, dst, fifo, batch, merged, known, devq, start, loopVars, meta, ended,
                 missed, restarts>>
Plug(d) ==
  /\ d \notin plugged /\ plugs < MaxPlugs
  /\ plugged' = plugged \cup {d} /\ plugs' = plugs + 1
  /\ \E time \in Cutoffs(d) : since' = [since EXCEPT ![d] = time] /\ Mount(Created(d, time))
  /\ UNCHANGED <<procs, orphans>>

\* An rsync that was writing to the device fails.
Broken(p, d) == IF p.dev = d /\ p.ver > 0 THEN [p EXCEPT !.ver = Failed] ELSE p
Unplug(d) ==
  /\ d \in plugged /\ plugs < MaxPlugs
  /\ plugged' = plugged \ {d}
  /\ procs' = {Broken(p, d) : p \in procs}
  /\ orphans' = {p \in orphans : p.dev # d}
  /\ Mount(Deleted(d)) /\ UNCHANGED <<since, plugs>>

-----------------------------------------------------------------------------
(* The data reader.                                                        *)

\* The same event as the one before it is dropped, within a batch.
Noted(e) == IF batch # <<>> /\ Last(batch) = e THEN batch ELSE Append(batch, e)

\* The handler: a line of the fifo, or nothing after 5 s without a line; then
\* the batch is flushed under flock 200 if its first event is 5 s old.
Handle(noted, rest) ==
  /\ fifo' = rest
  /\ \/ noted # <<>> /\ merged' = merged \o noted /\ batch' = <<>>
     \/ batch' = noted /\ UNCHANGED merged
  /\ UNCHANGED <<files, dfifo, known, devq, loopVars, start, procs, orphans, meta, world, bounds,
                 overlooked>>
\* Mutant of Timeout: a batch is flushed by the next line only.
TimeoutOnLine == batch # <<>> /\ fifo # <<>> /\ Handle(batch, fifo)

FileEvent == fifo # <<>> /\ Handle(Noted(Head(fifo)), Tail(fifo))
Timeout == batch # <<>> /\ Handle(batch, fifo)

(* The device reader: only devices with a sync file are of interest, and   *)
(* one that is known is not added again.                                   *)
AddDevice(d, time) ==
  IF d \in plugged \cap SyncFlag /\ d \notin known
  THEN devq' = Append(devq, Created(d, time)) /\ known' = known \cup {d}
  ELSE UNCHANGED <<devq, known>>
\* Mutant of DropDevice: sync_file is not told.
DropQuietly(d) == known' = known \ {d} /\ UNCHANGED devq
DropDevice(d) ==
  IF d \in known
  THEN devq' = Append(devq, Deleted(d)) /\ known' = known \ {d}
  ELSE UNCHANGED <<devq, known>>
DeviceEvent ==
  /\ dfifo # <<>> /\ dfifo' = Tail(dfifo)
  /\ LET e == Head(dfifo)
     IN  IF e.action = "CREATE" THEN AddDevice(e.device, e.since) ELSE DropDevice(e.device)
  /\ UNCHANGED <<files, fifo, batch, merged, loopVars, start, procs, orphans, meta, world, bounds,
                 overlooked>>

-----------------------------------------------------------------------------
(* main: the devices mounted when the daemon starts are added one after    *)
(* the other (5 s each); then the merged queue is emptied, sync_file and   *)
(* the readers are started, and at last the two inotifywaits, each in the  *)
(* background.                                                             *)

\* Mutant of AddMounted: the devices mounted are taken as known.
TakeAsKnown(d) ==
  /\ pc = "off" /\ d \in toadd
  /\ toadd' = toadd \ {d} /\ known' = known \cup {d}
  /\ UNCHANGED <<files, fifo, dfifo, batch, merged, devq, watching, loopVars, procs, orphans, meta,
                 world, bounds, overlooked>>
AddMounted(d) ==
  /\ pc = "off" /\ d \in toadd
  /\ toadd' = toadd \ {d} /\ AddDevice(d, since[d])
  /\ UNCHANGED <<files, fifo, dfifo, batch, merged, watching, loopVars, procs, orphans, meta, world,
                 bounds, overlooked>>

StartLoop ==
  /\ pc = "off" /\ toadd = {}
  /\ pc' = "devices" /\ merged' = <<>>
  /\ UNCHANGED <<files, fifo, dfifo, batch, known, devq, start, event_string, roots, running,
                 device_pids, todo, procs, orphans, meta, world, bounds, overlooked>>

Watch(what) ==
  /\ pc # "off" /\ what \notin watching
  /\ watching' = watching \cup {what}
  /\ UNCHANGED <<files, queues, toadd, loopVars, procs, orphans, meta, world, bounds, overlooked>>

-----------------------------------------------------------------------------
(* The main loop.                                                          *)

Pids == {p.pid : p \in procs} \cup running
FreshPid(i) == (IF Pids = {} THEN 0 ELSE Max(Pids)) + i
Proc(pid, d, history, left, job) ==
  [pid |-> pid, dev |-> d, history |-> history, left |-> left, job |-> job, at |-> job, ver |-> 0]

\* A device that came is listed once more, and its history started: the files
\* younger than the record says.
List(r) ==
  /\ roots' = [roots EXCEPT ![r.device] = @ + 1]
  /\ IF r.device \in SyncHistory
     THEN LET left == {n \in File : src[n] > r.since}
              p == Proc(FreshPid(1), r.device, TRUE, left, NoName)
          IN  /\ procs' = procs \cup {p} /\ running' = running \cup {p.pid}
              /\ device_pids' = [device_pids EXCEPT ![r.device] = p.pid]
     ELSE UNCHANGED <<procs, running, device_pids>>
  /\ UNCHANGED orphans

\* One that went is not listed any more, and its last copier killed: an rsync
\* the copier waits for goes on.
Unlist(d) ==
  LET killed == {p \in procs : p.pid = device_pids[d]}
  IN  /\ roots' = [roots EXCEPT ![d] = 0]
      /\ procs' = procs \ killed
      /\ orphans' = orphans \cup {p \in killed : p.ver > 0}
      /\ device_pids' = [device_pids EXCEPT ![d] = NoProc]
      /\ UNCHANGED running

\* Empty the device queue under flock 300.  read takes the first line of what
\* was in it; the records on the others are lost.
Devices ==
  /\ pc = "devices" /\ pc' = "take"
  /\ devq' = <<>>
  /\ IF devq = <<>>
     THEN UNCHANGED <<roots, running, device_pids, procs, orphans, overlooked>>
     ELSE /\ LET r == Head(devq) IN IF r.action = "CREATE" THEN List(r) ELSE Unlist(r.device)
          /\ overlooked' = overlooked \cup {devq[i].device : i \in 2..Len(devq)}
  /\ UNCHANGED <<files, fifo, dfifo, batch, merged, known, start, event_string, todo, meta, world,
                 bounds>>

\* Empty the merged queue under flock 200; with no event at all, sleep.
Take ==
  /\ pc = "take"
  /\ event_string' = event_string \o merged
  /\ merged' = <<>>
  /\ pc' = IF event_string' = <<>> THEN "devices" ELSE "check"
  /\ UNCHANGED <<files, fifo, dfifo, batch, known, devq, start, roots, running, device_pids, todo,
                 procs, orphans, meta, world, bounds, overlooked>>

\* Merging.  acc.list is what is to be repeated, acc.kept the string to start
\* from again if that has to wait.
Entry(e) == [ev |-> e.ev, name |-> e.name, to |-> NoName]
SameObject(entry, e) == entry.to = NoName /\ entry.name = e.name
\* Mutant of OpenMoves: an event of any kind is taken for a MOVED_FROM.
AnyEvent(list) == DOMAIN list
OpenMoves(list) == {i \in DOMAIN list : list[i].ev = "MOVED_FROM"}

\* The latest open MOVED_FROM is what a MOVED_TO is paired with; an unpaired
\* MOVED_TO that is not the first event is kept twice.
MergeMovedTo(acc, e) ==
  IF OpenMoves(acc.list) # {}
  THEN [list |-> [acc.list EXCEPT ![Max(OpenMoves(acc.list))] =
                    [ev |-> "MOVED", name |-> @.name, to |-> e.name]],
        kept |-> Append(acc.kept, e)]
  ELSE [list |-> Append(acc.list, Entry(e)),
        kept |-> acc.kept \o (IF acc.list = <<>> THEN <<e>> ELSE <<e, e>>)]

\* Of consecutive events on one object the last one stands.
MergeOther(acc, e) ==
  IF acc.list = <<>> \/ ~ SameObject(Last(acc.list), e)
  THEN [list |-> Append(acc.list, Entry(e)), kept |-> Append(acc.kept, e)]
  ELSE IF Last(acc.list).ev = e.ev THEN acc
  ELSE [list |-> [acc.list EXCEPT ![Len(acc.list)].ev = e.ev], kept |-> Append(acc.kept, e)]

MergeOne(acc, e) == IF e.ev = "MOVED_TO" THEN MergeMovedTo(acc, e) ELSE MergeOther(acc, e)
Merge(events) == FoldLeft(MergeOne, [list |-> <<>>, kept |-> <<>>], events)

\* Mutant of Busy: the history processes are not counted.
BusyCopiers == \E p \in procs : p.pid \in running /\ ~ p.history
Busy == \E p \in procs : p.pid \in running
Forget == running' = {} /\ device_pids' = [d \in Device |-> NoProc]

\* Mutant of Check: what has to wait is dropped.
CheckDrops ==
  /\ pc = "check"
  /\ event_string' = <<>>
  /\ IF Busy THEN pc' = "devices" /\ UNCHANGED <<running, device_pids, todo>>
     ELSE /\ Forget
          /\ IF \A d \in Device : roots[d] = 0
             THEN pc' = "devices" /\ UNCHANGED todo
             ELSE pc' = "exec" /\ todo' = Merge(event_string).list
  /\ UNCHANGED <<files, queues, roots, start, procs, orphans, meta, world, bounds, overlooked>>

\* Wait while a process started earlier is alive, drop everything if there
\* is no device, else go through the merged events.
Check ==
  /\ pc = "check"
  /\ IF Busy
     THEN /\ event_string' = Merge(event_string).kept
          /\ pc' = "devices" /\ UNCHANGED <<running, device_pids, todo>>
     ELSE /\ event_string' = <<>> /\ Forget
          /\ IF \A d \in Device : roots[d] = 0
             THEN pc' = "devices" /\ UNCHANGED todo
             ELSE pc' = "exec" /\ todo' = Merge(event_string).list
  /\ UNCHANGED <<files, queues, roots, start, procs, orphans, meta, world, bounds, overlooked>>

\* mv and rm on every listed device that is really mounted.
OnDevices(change(_)) ==
  dst' = [d \in Device |-> IF roots[d] > 0 /\ d \in plugged THEN change(dst[d]) ELSE dst[d]]
Renamed(f, from, to) ==
  IF from \in File /\ f[from] # 0
  THEN [f EXCEPT ![to] = IF from[1] = to[1] THEN f[from] ELSE Foreign, ![from] = 0] ELSE f

\* One process for every listing of a device.
Slots == UNION {{<<d, k>> : k \in 1..roots[d]} : d \in Device}
Copiers(n) ==
  LET order == SetToSeq(Slots)
  IN  {Proc(FreshPid(i), order[i][1], FALSE, {}, n) : i \in DOMAIN order}
Copy(n) ==
  LET started == Copiers(n)
  IN  /\ procs' = procs \cup started
      /\ running' = running \cup {p.pid : p \in started}
      /\ device_pids' = [d \in Device |->
           IF roots[d] = 0 THEN device_pids[d] ELSE Max({p.pid : p \in {q \in started : q.dev = d}})]
CopyNothing == UNCHANGED <<procs, running, device_pids>>

\* The final name of a file that MOVED_FROM names: without .active and the rest.
ClosedName(n) == IF n[2] \in {"active", "active\\n"} THEN Closed(n[1]) ELSE n

Repeat(e) ==
  \/ e.ev \in {"MODIFY", "MOVED_TO"} /\ Copy(e.name) /\ UNCHANGED dst
  \/ e.ev = "DELETE" /\ OnDevices(LAMBDA f : [f EXCEPT ![e.name] = 0]) /\ CopyNothing
  \/ e.ev = "MOVED" /\ OnDevices(LAMBDA f : Renamed(f, e.name, e.to)) /\ Copy(e.to)
  \/ /\ e.ev = "MOVED_FROM"
     /\ IF ClosedName(e.name) \in File /\ src[ClosedName(e.name)] > 0
        THEN /\ OnDevices(LAMBDA f : Renamed(f, e.name, ClosedName(e.name)))
             /\ Copy(ClosedName(e.name))
        ELSE UNCHANGED dst /\ CopyNothing

\* A MOVED_FROM younger than 120 s is put off: event_string is overwritten,
\* and "\n" is appended to the name literally.
Defer ==
  /\ pc = "exec" /\ todo # <<>> /\ Head(todo).ev = "MOVED_FROM"
  /\ event_string' = <<Event("MOVED_FROM", Mangled(Head(todo).name))>>
  /\ todo' = Tail(todo)
  /\ UNCHANGED <<files, queues, pc, roots, running, device_pids, start, procs, orphans, meta, world,
                 bounds, overlooked>>

Exec ==
  /\ pc = "exec" /\ todo # <<>>
  /\ Repeat(Head(todo))
  /\ todo' = Tail(todo)
  /\ pc' = "wait"
  /\ UNCHANGED <<src, queues, event_string, roots, start, orphans, meta, world, bounds, overlooked>>

\* wait: until every background process has ended.
Waited ==
  /\ pc = "wait" /\ procs = {}
  /\ pc' = "exec"
  /\ UNCHANGED <<files, queues, event_string, roots, running, device_pids, todo, start, procs,
                 orphans, meta, world, bounds, overlooked>>

ExecEnd ==
  /\ pc = "exec" /\ todo = <<>>
  /\ pc' = "devices"
  /\ UNCHANGED <<files, queues, event_string, roots, running, device_pids, todo, start, procs,
                 orphans, meta, world, bounds, overlooked>>

-----------------------------------------------------------------------------
(* Background processes.                                                   *)

Becomes(p, q) == procs' = (procs \ {p}) \cup {q}

\* The next file of the history: skipped if it has been copied before, or if
\* the merged queue has an event on it (grep finds x.bag in x.bag.active too).
Queued(n) == \E i \in DOMAIN merged :
               merged[i].name = n \/ n = Closed(merged[i].name[1])
HistoryNext(p, n) ==
  /\ p.history /\ p.job = NoName /\ n \in p.left
  /\ Becomes(p, IF n \in HasMd5[p.dev] \/ Queued(n) THEN [p EXCEPT !.left = @ \ {n}]
                ELSE [p EXCEPT !.left = @ \ {n}, !.job = n, !.at = n, !.ver = 0])
  /\ UNCHANGED <<files, queues, loopVars, start, orphans, meta, world, bounds, overlooked>>

HistoryEnd(p) ==
  /\ p.history /\ p.job = NoName /\ p.left = {}
  /\ procs' = procs \ {p}
  /\ UNCHANGED <<files, queues, loopVars, start, orphans, meta, world, bounds, overlooked>>

\* A copy is over, whatever came of it.  A history process then reports the
\* file, unless it is .active; the report may fail three times.
CopyOver(p) ==
  IF p.history
  THEN /\ Becomes(p, [p EXCEPT !.job = NoName, !.at = NoName, !.ver = 0])
       /\ IF p.job[2] = "bag" THEN meta' \in {meta, meta \cup {p.job}} ELSE UNCHANGED meta
  ELSE procs' = procs \ {p} /\ UNCHANGED meta

\* copy_to_device and direct_copy up to rsync: an .active file that was
\* closed meanwhile is renamed on the device too.  Without a device the
\* directory is on /, and without the file rsync fails.
Target(p) == IF src[p.at] = 0 THEN ClosedName(p.at) ELSE p.at
CopyStart(p) ==
  /\ p.job # NoName /\ p.ver = 0
  /\ LET n == Target(p)
     IN  /\ dst' = IF p.dev \in plugged /\ n # p.at /\ src[n] > 0
                   THEN [dst EXCEPT ![p.dev] = Renamed(@, p.at, n)] ELSE dst
         /\ IF p.dev \in plugged /\ src[n] > 0
            THEN Becomes(p, [p EXCEPT !.at = n, !.ver = src[n]]) /\ UNCHANGED meta
            ELSE CopyOver(p)
  /\ UNCHANGED <<src, queues, loopVars, start, orphans, world, bounds, overlooked>>

\* rsync appends what the file held when it was opened, and skips a
\* destination that is not shorter.  What another recording left there may be
\* longer or not: --append takes it for the beginning of this one,
\* --append-verify finds the difference and sends the whole file.
Appended(held, ver, verify) ==
  IF held # Foreign THEN {Max({held, ver})} ELSE {Foreign} \cup (IF verify THEN {ver} ELSE {})
Received(p, held) == dst' = [dst EXCEPT ![p.dev][p.at] = held]

\* It writes in place: meanwhile the destination is any beginning of the file.
CopyPart(p) ==
  /\ p.ver > 0 /\ dst[p.dev][p.at] # Foreign
  /\ \E part \in (dst[p.dev][p.at] + 1)..(p.ver - 1) : Received(p, part)
  /\ UNCHANGED <<src, queues, loopVars, start, procs, orphans, meta, world, bounds, overlooked>>

CopyEnd(p) ==
  /\ p.ver # 0
  /\ IF p.ver = Failed THEN UNCHANGED dst
     ELSE \E held \in Appended(dst[p.dev][p.at], p.ver, ~ p.history) : Received(p, held)
  /\ CopyOver(p)
  /\ UNCHANGED <<src, queues, loopVars, start, orphans, world, bounds, overlooked>>

\* The rsync of a killed process: the file it opened may have been renamed or
\* removed since.
OrphanEnd(p) ==
  /\ orphans' = orphans \ {p}
  /\ \/ \E held \in Appended(dst[p.dev][p.at], p.ver, ~ p.history) : Received(p, held)
     \/ UNCHANGED dst
  /\ UNCHANGED <<src, queues, loopVars, start, procs, meta, world, bounds, overlooked>>

-----------------------------------------------------------------------------
\* Killed and started again: the processes and what they hold are lost.  The
\* device queue stays, and the merged queue until main removes it.
Restart ==
  /\ restarts < MaxRestarts /\ restarts' = restarts + 1
  /\ fifo' = <<>> /\ dfifo' = <<>> /\ batch' = <<>> /\ UNCHANGED <<merged, devq>>
  /\ known' = {} /\ toadd' = plugged /\ watching' = {}
  /\ since' \in {f \in [Device -> 0..clock] : \A d \in Device :
                  IF d \in plugged THEN f[d] \in Cutoffs(d) ELSE f[d] = since[d]}
  /\ pc' = "off" /\ event_string' = <<>> /\ todo' = <<>>
  /\ roots' = [d \in Device |-> 0]
  /\ Forget /\ procs' = {} /\ orphans' = {}
  /\ overlooked' = {devq[i].device : i \in DOMAIN devq} /\ missed' = {}
  /\ UNCHANGED <<files, clock, plugged, meta, ended, plugs>>

Source == \E b \in Bag : Write(b) \/ Finish(b) \/ Erase(b) \/ MoveOut(b) \/ MoveIn(b)
User == \E d \in Device : Plug(d) \/ Unplug(d)
Readers == FileEvent \/ Timeout \/ DeviceEvent
Boot == StartLoop \/ (\E d \in Device : AddMounted(d)) \/ Watch("devices") \/ Watch("data")
Main == Devices \/ Take \/ Check \/ Exec \/ Waited \/ ExecEnd
Copier(p) == HistoryEnd(p) \/ CopyStart(p) \/ CopyEnd(p) \/ \E n \in File : HistoryNext(p, n)

Next ==
  \/ Source \/ User \/ Readers \/ Boot \/ Main \/ Defer \/ Restart
  \/ \E p \in procs : Copier(p)
  \/ \E p \in orphans : OrphanEnd(p)
  \/ \E p \in procs \cup orphans : CopyPart(p)

Spec == Init /\ [][Next]_vars

(***************************************************************************)
(* Fairness: the processes of the daemon run, and a MOVED_FROM does not    *)
(* stay younger than 120 s.                                                *)
(***************************************************************************)
Fairness ==
  /\ WF_vars(FileEvent) /\ WF_vars(Timeout) /\ WF_vars(DeviceEvent)
  /\ WF_vars(Boot) /\ WF_vars(Main) /\ SF_vars(Exec)
  /\ WF_vars(\E p \in procs : Copier(p)) /\ WF_vars(\E p \in orphans : OrphanEnd(p))
FairSpec == Spec /\ Fairness

-----------------------------------------------------------------------------
\* The daemon is up, no event is under way and no process runs.
Quiet ==
  /\ pc # "off" /\ procs = {} /\ orphans = {}
  /\ fifo = <<>> /\ batch = <<>> /\ merged = <<>> /\ event_string = <<>> /\ todo = <<>>
  /\ dfifo = <<>> /\ devq = <<>>

\* Once all is quiet, a mounted device that asked for the history holds every
\* closed recording younger than it asked for, complete: whatever was renamed,
\* written to, unplugged or killed while copiers ran, each file was covered by
\* the history or by an event.  It is not promised to a device whose coming or
\* going sync_file was not told of (line 422, and line 843 at the start), nor
\* for what changed before the bag directory was watched (847), nor where a
\* move was merged with the move of another file (542).
HistoryComplete ==
  Quiet => \A d \in (plugged \cap SyncHistory) \ overlooked, b \in Bag \ missed :
    (src[Closed(b)] > since[d] /\ Closed(b) \notin HasMd5[d])
      => dst[d][Closed(b)] \in {src[Closed(b)], Foreign}

\* No two processes write one file of a device at a time (both append), as
\* long as sync_file was told of each coming and going of it: the one that a
\* device had is killed before it gets another.  (The rsync of a killed one is
\* no process of the daemon any more, and may go on.)
OneWriter ==
  \A p, q \in procs : (p # q /\ p.dev = q.dev /\ p.dev \notin overlooked /\ p.ver > 0 /\ q.ver > 0)
    => p.at # q.at

\* A copy is not taken off a device while its recording is still there under
\* that name, though events are repeated long after they happened.
CopyKept ==
  [][\A d \in Device, n \in File : (dst[d][n] # 0 /\ dst'[d][n] = 0) => src[n] = 0]_vars

\* Events are repeated only while no history is being copied, on any device:
\* what running_sync_processes knows is all that runs.
EventsWaitForHistory == pc \in {"exec", "wait"} => \A p \in procs : ~ p.history

\* If the recorder rests, the daemon comes to rest.
ComesToRest == <>[]Quiet

\* Line 544: a MOVED_TO is merged with its MOVED_FROM, so that the device has
\* no copy under the old name left.
RenamedOnDevice ==
  Quiet => \A d \in plugged, b \in Bag :
    (roots[d] > 0 /\ src[Closed(b)] > 0) => dst[d][Active(b)] = 0
=============================================================================
