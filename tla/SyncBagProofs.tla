----------------------------- MODULE SyncBagProofs -----------------------------
(***************************************************************************)
(* Theorems about SyncBag, for all devices, recordings and bounds: what    *)
(* running_sync_processes, the list of the main loop, has to do with the   *)
(* processes that run, why one process at most repeats events on a device  *)
(* of which no record was lost, and why no copy of a recording is taken    *)
(* away while the recording is there.                                      *)
(***************************************************************************)
EXTENDS SyncBag, FiniteSetTheorems, SequenceTheorems, WellFoundedInduction, TLAPS

Fields == {"pid", "dev", "history", "left", "job", "at", "ver"}

\* Every process that copies a history is in running, which the main loop
\* empties only when none of those in it is alive.
ListedInv ==
  /\ \A p \in procs : DOMAIN p = Fields
  /\ \A p \in procs : p.history => p.pid \in running
  /\ EventsWaitForHistory

\* A process that is started has the device of its listing.
LEMMA Started ==
  ASSUME NEW n, NEW p \in Copiers(n)
  PROVE  DOMAIN p = Fields /\ ~ p.history
<1>1. \A pid, d : /\ DOMAIN Proc(pid, d, FALSE, {}, n) = Fields
                 /\ ~ Proc(pid, d, FALSE, {}, n).history
  BY DEF Proc, Fields
<1> DEFINE order == SetToSeq(Slots)
<1>2. \E i \in DOMAIN order : p = Proc(FreshPid(i), order[i][1], FALSE, {}, n)
  BY DEF Copiers
<1> HIDE DEF order
<1> QED BY <1>1, <1>2

\* A process whose rsync fails is the same process.
LEMMA BrokenSame ==
  ASSUME NEW p, NEW d, DOMAIN p = Fields
  PROVE  /\ DOMAIN Broken(p, d) = Fields
         /\ \A f \in Fields \ {"ver"} : Broken(p, d)[f] = p[f]
         /\ Broken(p, d).ver = (IF p.dev = d /\ p.ver > 0 THEN Failed ELSE p.ver)
BY DEF Broken, Fields

LEMMA ListedInit == Init => ListedInv
BY DEF Init, ListedInv, EventsWaitForHistory

\* A new record for a process is one of the same process.
LEMMA Replaced ==
  ASSUME ListedInv, NEW p \in procs, NEW q, Becomes(p, q),
         DOMAIN q = Fields, q.pid = p.pid, q.history = p.history,
         UNCHANGED <<running, pc>>
  PROVE  ListedInv'
BY DEF ListedInv, EventsWaitForHistory, Becomes

\* So it is when processes end.
LEMMA Fewer ==
  ASSUME ListedInv, procs' \subseteq procs, UNCHANGED <<running, pc>>
  PROVE  ListedInv'
BY DEF ListedInv, EventsWaitForHistory

LEMMA CopyOverListed ==
  ASSUME ListedInv, NEW p \in procs, CopyOver(p), UNCHANGED <<running, pc>>
  PROVE  ListedInv'
<1>1. CASE p.history
  <2> DEFINE q == [p EXCEPT !.job = NoName, !.at = NoName, !.ver = 0]
  <2>1. DOMAIN p = Fields
    BY DEF ListedInv
  <2>2. DOMAIN q = Fields /\ q.pid = p.pid /\ q.history = p.history
    BY <2>1 DEF Fields
  <2>3. Becomes(p, q)
    BY <1>1 DEF CopyOver
  <2> HIDE DEF q
  <2> QED BY <2>2, <2>3, Replaced
<1>2. CASE ~ p.history
  BY <1>2, Fewer DEF CopyOver
<1> QED BY <1>1, <1>2

LEMMA CopierListed ==
  ASSUME ListedInv, NEW p \in procs, Copier(p)
  PROVE  ListedInv'
<1>1. UNCHANGED <<running, pc>>
  BY DEF Copier, HistoryEnd, CopyStart, CopyEnd, HistoryNext, loopVars
<1>2. DOMAIN p = Fields
  BY DEF ListedInv
<1>3. CASE HistoryEnd(p)
  BY <1>1, <1>3, Fewer DEF HistoryEnd
<1>4. ASSUME NEW n \in File, HistoryNext(p, n) PROVE ListedInv'
  <2> DEFINE skipped == [p EXCEPT !.left = @ \ {n}]
             begun == [p EXCEPT !.left = @ \ {n}, !.job = n, !.at = n, !.ver = 0]
  <2>1. DOMAIN skipped = Fields /\ skipped.pid = p.pid /\ skipped.history = p.history
    BY <1>2 DEF Fields
  <2>2. DOMAIN begun = Fields /\ begun.pid = p.pid /\ begun.history = p.history
    BY <1>2 DEF Fields
  <2>3. Becomes(p, skipped) \/ Becomes(p, begun)
    BY <1>4 DEF HistoryNext
  <2> HIDE DEF skipped, begun
  <2> QED BY <1>1, <2>1, <2>2, <2>3, Replaced
<1>5. CASE CopyStart(p)
  <2> DEFINE n == Target(p)
             opened == [p EXCEPT !.at = n, !.ver = src[n]]
  <2>1. DOMAIN opened = Fields /\ opened.pid = p.pid /\ opened.history = p.history
    BY <1>2 DEF Fields
  <2>2. Becomes(p, opened) \/ CopyOver(p)
    BY <1>5 DEF CopyStart
  <2> HIDE DEF opened
  <2> QED BY <1>1, <2>1, <2>2, Replaced, CopyOverListed
<1>6. CASE CopyEnd(p)
  BY <1>1, <1>6, CopyOverListed DEF CopyEnd
<1> QED BY <1>3, <1>4, <1>5, <1>6 DEF Copier

LEMMA ListedNext == ListedInv /\ [Next]_vars => ListedInv'
<1> SUFFICES ASSUME ListedInv, [Next]_vars PROVE ListedInv'
  OBVIOUS
<1>1. ASSUME UNCHANGED <<procs, running, pc>> PROVE ListedInv'
  BY <1>1, Fewer
<1>2. CASE Source
  BY <1>1, <1>2 DEF Source, Write, Finish, Erase, MoveOut, Leave, MoveIn, Emit, loopVars
<1>3. CASE User
  <2>1. ASSUME NEW d, Plug(d) PROVE ListedInv'
    BY <1>1, <2>1 DEF Plug, Mount, loopVars
  <2>2. ASSUME NEW d, Unplug(d) PROVE ListedInv'
    <3>1. procs' = {Broken(p, d) : p \in procs} /\ UNCHANGED <<running, pc>>
      BY <2>2 DEF Unplug, Mount, loopVars
    <3>2. \A q \in procs' : \E p \in procs : /\ DOMAIN q = Fields /\ q.history = p.history
                                            /\ q.pid = p.pid
      <4> SUFFICES ASSUME NEW p \in procs
                   PROVE  LET q == Broken(p, d)
                          IN  DOMAIN q = Fields /\ q.history = p.history /\ q.pid = p.pid
        BY <3>1
      <4>1. DOMAIN p = Fields
        BY DEF ListedInv
      <4> QED BY <4>1, BrokenSame DEF Fields
    <3> QED BY <3>1, <3>2 DEF ListedInv, EventsWaitForHistory
  <2> QED BY <1>3, <2>1, <2>2 DEF User
<1>4. CASE Readers
  BY <1>1, <1>4 DEF Readers, FileEvent, Timeout, Handle, DeviceEvent, loopVars
<1>5. CASE Devices
  <2>1. pc' = "take"
    BY <1>5 DEF Devices
  <2>2. CASE devq = <<>>
    BY <1>5, <2>1, <2>2 DEF Devices, ListedInv, EventsWaitForHistory
  <2>3. CASE devq # <<>> /\ Head(devq).action = "CREATE"
    <3>1. List(Head(devq))
      BY <1>5, <2>3 DEF Devices
    <3>2. \/ UNCHANGED <<procs, running>>
          \/ \E p : /\ DOMAIN p = Fields
                   /\ procs' = procs \cup {p} /\ running' = running \cup {p.pid}
      BY <3>1 DEF List, Proc, Fields
    <3> QED BY <2>1, <3>2 DEF ListedInv, EventsWaitForHistory
  <2>4. CASE devq # <<>> /\ Head(devq).action # "CREATE"
    <3>1. procs' \subseteq procs /\ UNCHANGED running
      BY <1>5, <2>4 DEF Devices, Unlist
    <3> QED BY <2>1, <3>1 DEF ListedInv, EventsWaitForHistory
  <2> QED BY <2>2, <2>3, <2>4
<1>6. CASE Take
  BY <1>6 DEF Take, ListedInv, EventsWaitForHistory
<1>7. CASE Check
  BY <1>7 DEF Check, Busy, Forget, ListedInv, EventsWaitForHistory
<1>8. CASE Exec
  <2>1. /\ pc = "exec" /\ pc' = "wait"
        /\ \/ UNCHANGED <<procs, running>>
           \/ \E n : /\ procs' = procs \cup Copiers(n)
                     /\ running \subseteq running'
    <3>1. pc = "exec" /\ pc' = "wait" /\ Repeat(Head(todo))
      BY <1>8 DEF Exec
    <3>2. CopyNothing \/ \E n : Copy(n)
      BY <3>1 DEF Repeat
    <3> QED BY <3>1, <3>2 DEF Copy, CopyNothing
  <2>2. \A n : \A p \in Copiers(n) : DOMAIN p = Fields /\ ~ p.history
    BY Started
  <2> QED BY <2>1, <2>2 DEF ListedInv, EventsWaitForHistory
<1>9. CASE Waited \/ ExecEnd \/ Defer
  BY <1>9 DEF Waited, ExecEnd, Defer, ListedInv, EventsWaitForHistory
<1>10. CASE Restart
  BY <1>10 DEF Restart, ListedInv, EventsWaitForHistory
<1>11. ASSUME NEW p \in procs, Copier(p) PROVE ListedInv'
  BY <1>11, CopierListed
<1>12. CASE UNCHANGED vars
  BY <1>1, <1>12 DEF vars, loopVars
<1>13. CASE Boot
  <2>1. UNCHANGED <<procs, running>> /\ (UNCHANGED pc \/ pc' = "devices")
    BY <1>13 DEF Boot, StartLoop, AddMounted, Watch, loopVars
  <2> QED BY <2>1 DEF ListedInv, EventsWaitForHistory
<1>14. ASSUME NEW p, OrphanEnd(p) \/ CopyPart(p) PROVE ListedInv'
  BY <1>1, <1>14 DEF OrphanEnd, CopyPart, loopVars
<1> QED
  BY <1>2, <1>3, <1>4, <1>5, <1>6, <1>7, <1>8, <1>9, <1>10, <1>11, <1>12, <1>13, <1>14
  DEF Next, Main

\* While events are repeated no history is being copied, on any device and
\* for any number of devices that come and go: the list of the main loop
\* misses none of the processes that copy one.
THEOREM EventsNeverMeetHistory == Spec => []EventsWaitForHistory
<1>1. ListedInv => EventsWaitForHistory
  BY DEF ListedInv
<1> QED BY <1>1, ListedInit, ListedNext, PTL DEF Spec
-----------------------------------------------------------------------------
(***************************************************************************)
(* One writer per file: as long as sync_file was told of each coming and   *)
(* going of a device, the device is listed once at most, and has one       *)
(* process at most.  Of a device that lost a record nothing is claimed.    *)
(***************************************************************************)
Record == {Created(d, time) : d \in Device, time \in Nat} \cup {Deleted(d) : d \in Device}
RecordInv ==
  /\ clock \in Nat /\ since \in [Device -> Nat]
  /\ plugged \subseteq Device /\ known \subseteq Device /\ toadd \subseteq Device
  /\ dfifo \in Seq(Record) /\ devq \in Seq(Record)

\* The records of a device that wait for sync_file.
Of(d) == {i \in DOMAIN devq : devq[i].device = d}
\* Where the first of them lists it, it is not listed; the last one says what
\* the device reader knows.
Told(d) ==
  /\ roots[d] \in {0, 1}
  /\ \A i \in Of(d) : (\A j \in Of(d) : j >= i) => (devq[i].action = "CREATE" => roots[d] = 0)
  /\ \A i \in Of(d) : (\A j \in Of(d) : j <= i) => (devq[i].action = "CREATE" <=> d \in known)
  /\ Of(d) = {} => (roots[d] = 1 => d \in known)

\* While no events are repeated, a process is the one to kill when its device
\* goes; and none is alive when the next event is repeated.
OnceInv ==
  /\ roots \in [Device -> Nat] /\ device_pids = [d \in Device |-> device_pids[d]]
  /\ \A p \in procs : DOMAIN p = Fields /\ p.dev \in Device /\ p.pid \in running
  /\ pc \in {"exec", "off"} => procs = {}
  /\ \A d \in Device \ overlooked : Told(d)
  /\ \A p, q \in procs : (p.dev = q.dev /\ p.dev \notin overlooked) => p = q
  /\ pc \notin {"exec", "wait"} => \A p \in procs :
       p.dev \notin overlooked => roots[p.dev] = 1 /\ device_pids[p.dev] = p.pid

LEMMA Records ==
  ASSUME NEW r \in Record
  PROVE  /\ r.device \in Device /\ r.since \in Nat /\ r.action \in {"CREATE", "DELETE"}
         /\ Created(r.device, r.since) \in Record /\ Deleted(r.device) \in Record
BY DEF Record, Created, Deleted

LEMMA RecordInit == Init => RecordInv /\ OnceInv
<1> SUFFICES ASSUME Init PROVE RecordInv /\ OnceInv
  OBVIOUS
<1>1. \A S : <<>> \in Seq(S)
  OBVIOUS
<1>2. RecordInv
  BY <1>1 DEF Init, RecordInv
<1>3. \A d \in Device : Told(d)
  BY DEF Init, Told, Of
<1>4. device_pids = [d \in Device |-> device_pids[d]]
  BY DEF Init
<1>5. OnceInv
  BY <1>3, <1>4 DEF Init, OnceInv
<1> QED
  BY <1>2, <1>5

\* The device reader and main queue records of devices.
LEMMA AddDeviceRecords ==
  ASSUME RecordInv, NEW d, NEW time \in Nat, AddDevice(d, time)
  PROVE  known' \subseteq Device /\ devq' \in Seq(Record)
<1>1. CASE d \in plugged \cap SyncFlag /\ d \notin known
  <2>1. d \in Device /\ known' = known \cup {d} /\ devq' = Append(devq, Created(d, time))
    BY <1>1, SyncAssumption DEF AddDevice
  <2>2. Created(d, time) \in Record
    BY <2>1 DEF Record
  <2> QED BY <2>1, <2>2 DEF RecordInv
<1>2. CASE ~ (d \in plugged \cap SyncFlag /\ d \notin known)
  BY <1>2 DEF AddDevice, RecordInv
<1> QED
  BY <1>1, <1>2

LEMMA DropDeviceRecords ==
  ASSUME RecordInv, NEW d, DropDevice(d)
  PROVE  known' \subseteq Device /\ devq' \in Seq(Record)
<1>1. CASE d \in known
  <2>1. d \in Device /\ known' = known \ {d} /\ devq' = Append(devq, Deleted(d))
    BY <1>1 DEF DropDevice, RecordInv
  <2>2. Deleted(d) \in Record
    BY <2>1 DEF Record
  <2> QED BY <2>1, <2>2 DEF RecordInv
<1>2. CASE d \notin known
  BY <1>2 DEF DropDevice, RecordInv
<1> QED
  BY <1>1, <1>2

\* The devices that the device reader hears of.
LEMMA DeviceEventRecords ==
  ASSUME RecordInv, DeviceEvent
  PROVE  /\ known' \subseteq Device /\ devq' \in Seq(Record) /\ dfifo' \in Seq(Record)
         /\ \E d : (\E time \in Nat : AddDevice(d, time)) \/ DropDevice(d)
<1>1. Head(dfifo) \in Record /\ Tail(dfifo) \in Seq(Record) /\ dfifo' = Tail(dfifo)
  BY DEF DeviceEvent, RecordInv
<1> DEFINE e == Head(dfifo)
<1>2. IF e.action = "CREATE" THEN AddDevice(e.device, e.since) ELSE DropDevice(e.device)
  BY DEF DeviceEvent
<1>3. e.since \in Nat
  BY <1>1, Records
<1> HIDE DEF e
<1>4. CASE AddDevice(e.device, e.since)
  BY <1>1, <1>3, <1>4, AddDeviceRecords
<1>5. CASE DropDevice(e.device)
  BY <1>1, <1>5, DropDeviceRecords
<1> QED
  BY <1>2, <1>4, <1>5

LEMMA MountRecords ==
  ASSUME RecordInv, NEW e \in Record, Mount(e)
  PROVE  dfifo' \in Seq(Record) /\ UNCHANGED <<clock, known, toadd, devq>>
<1>1. UNCHANGED <<clock, known, toadd, devq>>
  BY DEF Mount, start
<1>2. dfifo' = Append(dfifo, e) \/ dfifo' = dfifo
  BY DEF Mount
<1> QED
  BY <1>1, <1>2 DEF RecordInv

LEMMA RecordStep == RecordInv /\ [Next]_vars => RecordInv'
<1> SUFFICES ASSUME RecordInv, [Next]_vars PROVE RecordInv'
  OBVIOUS
<1>1. /\ clock \in Nat /\ since \in [Device -> Nat]
      /\ plugged \subseteq Device /\ known \subseteq Device /\ toadd \subseteq Device
      /\ dfifo \in Seq(Record) /\ devq \in Seq(Record)
  BY DEF RecordInv
<1>2. ASSUME UNCHANGED <<clock, since, plugged, known, toadd, dfifo, devq>> PROVE RecordInv'
  BY <1>1, <1>2 DEF RecordInv
<1>3. CASE Source
  <2>1. UNCHANGED <<since, plugged, known, toadd, dfifo, devq>> /\ clock' \in Nat
    BY <1>1, <1>3 DEF Source, Write, Finish, Erase, MoveOut, Leave, MoveIn, Emit, start
  <2> QED BY <1>1, <2>1 DEF RecordInv
<1>4. ASSUME NEW d \in Device, Plug(d) PROVE RecordInv'
  <2>1. PICK time \in Cutoffs(d) : since' = [since EXCEPT ![d] = time] /\ Mount(Created(d, time))
    BY <1>4 DEF Plug
  <2>2. time \in Nat
    BY <1>1 DEF Cutoffs
  <2>3. Created(d, time) \in Record
    BY <2>2 DEF Record
  <2>4. dfifo' \in Seq(Record) /\ UNCHANGED <<clock, known, toadd, devq>>
    BY <2>1, <2>3, MountRecords
  <2>5. plugged' \subseteq Device /\ since' \in [Device -> Nat]
    BY <1>1, <1>4, <2>1, <2>2 DEF Plug
  <2> QED BY <1>1, <2>4, <2>5 DEF RecordInv
<1>5. ASSUME NEW d \in Device, Unplug(d) PROVE RecordInv'
  <2>1. Deleted(d) \in Record
    BY DEF Record
  <2>2. dfifo' \in Seq(Record) /\ UNCHANGED <<clock, since, known, toadd, devq>>
    BY <1>5, <2>1, MountRecords DEF Unplug
  <2>3. plugged' \subseteq Device
    BY <1>1, <1>5 DEF Unplug
  <2> QED BY <1>1, <2>2, <2>3 DEF RecordInv
<1>6. CASE FileEvent \/ Timeout
  BY <1>2, <1>6 DEF FileEvent, Timeout, Handle, start, world
<1>7. CASE DeviceEvent
  <2>1. UNCHANGED <<clock, since, plugged, toadd>>
    BY <1>7 DEF DeviceEvent, start, world
  <2> QED BY <1>1, <1>7, <2>1, DeviceEventRecords DEF RecordInv
<1>8. ASSUME NEW d \in Device, AddMounted(d) PROVE RecordInv'
  <2>1. UNCHANGED <<clock, since, plugged, dfifo>> /\ toadd' \subseteq toadd /\ AddDevice(d, since[d])
    BY <1>8 DEF AddMounted, world
  <2>2. since[d] \in Nat
    BY <1>1
  <2> QED BY <1>1, <2>1, <2>2, AddDeviceRecords DEF RecordInv
<1>9. CASE StartLoop \/ Watch("devices") \/ Watch("data") \/ Defer
  BY <1>2, <1>9 DEF StartLoop, Watch, Defer, queues, start, world
<1>10. CASE Devices
  <2>1. UNCHANGED <<clock, since, plugged, known, toadd, dfifo>> /\ devq' = <<>>
    BY <1>10 DEF Devices, start, world
  <2> QED BY <1>1, <2>1 DEF RecordInv
<1>11. CASE Take \/ Check \/ Exec \/ Waited \/ ExecEnd
  BY <1>2, <1>11 DEF Take, Check, Exec, Waited, ExecEnd, queues, start, world
<1>12. CASE Restart
  <2>1. UNCHANGED <<clock, plugged, devq>> /\ dfifo' = <<>> /\ known' = {} /\ toadd' = plugged
    BY <1>12 DEF Restart
  <2>2. since' \in [Device -> 0..clock]
    BY <1>12 DEF Restart
  <2>3. since' \in [Device -> Nat]
    BY <1>1, <2>2
  <2> QED BY <1>1, <2>1, <2>3 DEF RecordInv
<1>13. ASSUME NEW p, Copier(p) \/ OrphanEnd(p) \/ CopyPart(p) PROVE RecordInv'
  BY <1>2, <1>13 DEF Copier, HistoryEnd, HistoryNext, CopyStart, CopyEnd, OrphanEnd, CopyPart, queues, start, world
<1>14. CASE UNCHANGED vars
  BY <1>2, <1>14 DEF vars, queues, start, world
<1> QED
  BY <1>3, <1>4, <1>5, <1>6, <1>7, <1>8, <1>9, <1>10, <1>11, <1>12, <1>13, <1>14
  DEF Next, User, Readers, Boot, Main

\* One more record for sync_file.
LEMMA Queued1 ==
  ASSUME RecordInv, NEW r \in Record, devq' = Append(devq, r), NEW d
  PROVE  LET n == Len(devq) + 1
         IN  /\ Len(devq) \in Nat /\ Of(d) \subseteq 1..Len(devq) /\ devq'[n] = r
             /\ \A i \in Of(d) : devq'[i] = devq[i]
             /\ Of(d)' = IF r.device = d THEN Of(d) \cup {n} ELSE Of(d)
<1> DEFINE n == Len(devq) + 1
<1>1. /\ Len(devq) \in Nat /\ DOMAIN devq = 1..Len(devq)
      /\ DOMAIN devq' = 1..n /\ devq'[n] = r /\ \A i \in 1..Len(devq) : devq'[i] = devq[i]
  BY DEF RecordInv
<1>2. Of(d) \subseteq 1..Len(devq)
  BY <1>1 DEF Of
<1>3. \A i : i \in 1..n <=> i \in 1..Len(devq) \/ i = n
  BY <1>1
<1>4. Of(d)' = IF r.device = d THEN Of(d) \cup {n} ELSE Of(d)
  <2>1. Of(d)' = {i \in 1..n : devq'[i].device = d}
    BY <1>1 DEF Of
  <2>2. Of(d) = {i \in 1..Len(devq) : devq'[i].device = d}
    BY <1>1 DEF Of
  <2> HIDE DEF n
  <2>3. \A i : i \in Of(d)' <=> i \in Of(d) \/ (i = n /\ r.device = d)
    BY <1>1, <1>3, <2>1, <2>2
  <2> QED BY <2>3
<1> QED
  BY <1>1, <1>2, <1>4

\* The device reader tells sync_file what it knows.
LEMMA ToldAdded ==
  ASSUME RecordInv, NEW d \in Device, Told(d), UNCHANGED roots,
         NEW x, (\E time \in Nat : AddDevice(x, time)) \/ DropDevice(x)
  PROVE  Told(d)'
<1>1. CASE UNCHANGED <<devq, known>>
  BY <1>1 DEF Told, Of
<1>2. ASSUME NEW r \in Record, r.device = x, devq' = Append(devq, r),
             \A y : y # x => (y \in known' <=> y \in known),
             x \in known' <=> r.action = "CREATE", r.action = "CREATE" => x \notin known
      PROVE  Told(d)'
  <2> DEFINE n == Len(devq) + 1
  <2>1. /\ Len(devq) \in Nat /\ Of(d) \subseteq 1..Len(devq) /\ devq'[n] = r
        /\ \A i \in Of(d) : devq'[i] = devq[i]
        /\ Of(d)' = IF r.device = d THEN Of(d) \cup {n} ELSE Of(d)
    BY <1>2, Queued1
  <2>2. CASE x # d
    <3>1. Of(d)' = Of(d) /\ (d \in known' <=> d \in known)
      BY <1>2, <2>1, <2>2
    <3>2. \A i \in Of(d) : devq'[i].action = devq[i].action
      BY <2>1
    <3> QED BY <3>1, <3>2 DEF Told
  <2>3. CASE x = d
    <3>1. Of(d)' = Of(d) \cup {n} /\ \A i \in Of(d) : i < n /\ i \in Nat
      BY <1>2, <2>1, <2>3
    <3>2. devq'[n] = r /\ \A i \in Of(d) : devq'[i].action = devq[i].action
      BY <2>1
    <3>3. n \in Nat
      BY <2>1
    <3> HIDE DEF n
    <3>4. ASSUME NEW i \in Of(d)', \A j \in Of(d)' : j >= i, devq'[i].action = "CREATE"
          PROVE  roots[d] = 0
      <4>1. CASE Of(d) = {}
        <5>1. r.action = "CREATE"
          BY <3>1, <3>2, <3>4, <4>1
        <5> QED BY <1>2, <2>3, <4>1, <5>1 DEF Told
      <4>2. CASE Of(d) # {}
        <5>1. i \in Of(d) /\ \A j \in Of(d) : j >= i
          BY <3>1, <3>3, <3>4, <4>2
        <5> QED BY <3>2, <3>4, <5>1 DEF Told
      <4> QED BY <4>1, <4>2
    <3>5. ASSUME NEW i \in Of(d)', \A j \in Of(d)' : j <= i
          PROVE  devq'[i].action = "CREATE" <=> d \in known'
      <4>1. i = n
        BY <3>1, <3>3, <3>5
      <4> QED BY <1>2, <2>3, <3>2, <4>1
    <3>6. Of(d)' # {}
      BY <3>1
    <3> QED BY <3>4, <3>5, <3>6 DEF Told
  <2> QED BY <2>2, <2>3
<1>3. ASSUME NEW time \in Nat, AddDevice(x, time), ~ UNCHANGED <<devq, known>>
      PROVE  Told(d)'
  <2>1. /\ x \in Device /\ x \notin known
        /\ devq' = Append(devq, Created(x, time)) /\ known' = known \cup {x}
    BY <1>3, SyncAssumption DEF AddDevice
  <2>2. Created(x, time) \in Record /\ Created(x, time).device = x /\ Created(x, time).action = "CREATE"
    BY <2>1 DEF Record, Created
  <2> QED BY <1>2, <2>1, <2>2
<1>4. ASSUME DropDevice(x), ~ UNCHANGED <<devq, known>>
      PROVE  Told(d)'
  <2>1. x \in Device /\ devq' = Append(devq, Deleted(x)) /\ known' = known \ {x}
    BY <1>4 DEF DropDevice, RecordInv
  <2>2. Deleted(x) \in Record /\ Deleted(x).device = x /\ Deleted(x).action = "DELETE"
    BY <2>1 DEF Record, Deleted
  <2> QED BY <1>2, <2>1, <2>2
<1> QED
  BY <1>1, <1>3, <1>4

\* Nothing that has to do with the devices or the processes.
LEMMA OnceStill ==
  ASSUME OnceInv, UNCHANGED <<roots, device_pids, procs, running, pc, devq, known>>,
         overlooked \subseteq overlooked'
  PROVE  OnceInv'
<1>1. \A d \in Device \ overlooked' : Told(d)'
  BY DEF OnceInv, Told, Of
<1> QED
  BY <1>1 DEF OnceInv

\* Processes that go on, each for the same device, or end.
LEMMA OnceFewer ==
  ASSUME OnceInv, UNCHANGED <<roots, device_pids, running, pc, devq, known>>,
         overlooked \subseteq overlooked',
         NEW was, \A q \in procs' : was[q] \in procs,
         \A q \in procs' : DOMAIN q = Fields /\ q.dev = was[q].dev /\ q.pid = was[q].pid,
         \A q, r \in procs' : was[q] = was[r] => q = r
  PROVE  OnceInv'
<1>1. \A d \in Device \ overlooked' : Told(d)'
  BY DEF OnceInv, Told, Of
<1>2. \A q \in procs' : q.dev \in Device /\ q.pid \in running
  BY DEF OnceInv
<1>3. \A q, r \in procs' : (q.dev = r.dev /\ q.dev \notin overlooked') => q = r
  BY DEF OnceInv
<1>4. procs = {} => procs' = {}
  OBVIOUS
<1>5. pc \notin {"exec", "wait"} => \A q \in procs' :
        q.dev \notin overlooked' => roots[q.dev] = 1 /\ device_pids[q.dev] = q.pid
  BY DEF OnceInv
<1> QED
  BY <1>1, <1>2, <1>3, <1>4, <1>5 DEF OnceInv

LEMMA OnceReplaced ==
  ASSUME OnceInv, UNCHANGED <<roots, device_pids, running, pc, devq, known, overlooked>>,
         NEW p \in procs, NEW q, Becomes(p, q), DOMAIN q = Fields, q.dev = p.dev, q.pid = p.pid
  PROVE  OnceInv'
<1> DEFINE was == [x \in procs' |-> IF x = q THEN p ELSE x]
<1>1. procs' = (procs \ {p}) \cup {q}
  BY DEF Becomes
<1>2. \A x \in procs' : was[x] = IF x = q THEN p ELSE x
  OBVIOUS
<1> HIDE DEF was
<1>3. \A x \in procs' : was[x] \in procs
  BY <1>1, <1>2
<1>4. \A x \in procs' : DOMAIN x = Fields /\ x.dev = was[x].dev /\ x.pid = was[x].pid
  BY <1>1, <1>2 DEF OnceInv
<1>5. \A x, y \in procs' : was[x] = was[y] => x = y
  BY <1>1, <1>2
<1> QED
  BY <1>3, <1>4, <1>5, OnceFewer

LEMMA OnceEnds ==
  ASSUME OnceInv, UNCHANGED <<roots, device_pids, running, pc, devq, known, overlooked>>,
         procs' \subseteq procs
  PROVE  OnceInv'
<1>1. \A d \in Device \ overlooked' : Told(d)'
  BY DEF OnceInv, Told, Of
<1> QED
  BY <1>1 DEF OnceInv

LEMMA CopyOverOnce ==
  ASSUME OnceInv, UNCHANGED <<roots, device_pids, running, pc, devq, known, overlooked>>,
         NEW p \in procs, CopyOver(p)
  PROVE  OnceInv'
<1>1. CASE p.history
  <2>1. PICK q : q = [p EXCEPT !.job = NoName, !.at = NoName, !.ver = 0]
    OBVIOUS
  <2>2. DOMAIN p = Fields
    BY DEF OnceInv
  <2>3. DOMAIN q = Fields /\ q.pid = p.pid /\ q.dev = p.dev
    BY <2>1, <2>2 DEF Fields
  <2>4. Becomes(p, q)
    BY <1>1, <2>1 DEF CopyOver
  <2> QED BY <2>3, <2>4, OnceReplaced
<1>2. CASE ~ p.history
  BY <1>2, OnceEnds DEF CopyOver
<1> QED
  BY <1>1, <1>2

LEMMA CopierOnce ==
  ASSUME OnceInv, NEW p \in procs, Copier(p)
  PROVE  OnceInv'
<1>1. UNCHANGED <<roots, device_pids, running, pc, devq, known, overlooked>>
  BY DEF Copier, HistoryEnd, CopyStart, CopyEnd, HistoryNext, loopVars, queues
<1>2. DOMAIN p = Fields
  BY DEF OnceInv
<1>3. CASE HistoryEnd(p)
  BY <1>1, <1>3, OnceEnds DEF HistoryEnd
<1>4. ASSUME NEW n \in File, HistoryNext(p, n) PROVE OnceInv'
  <2>1. PICK skipped : skipped = [p EXCEPT !.left = @ \ {n}]
    OBVIOUS
  <2>2. PICK begun : begun = [p EXCEPT !.left = @ \ {n}, !.job = n, !.at = n, !.ver = 0]
    OBVIOUS
  <2>3. DOMAIN skipped = Fields /\ skipped.pid = p.pid /\ skipped.dev = p.dev
    BY <1>2, <2>1 DEF Fields
  <2>4. DOMAIN begun = Fields /\ begun.pid = p.pid /\ begun.dev = p.dev
    BY <1>2, <2>2 DEF Fields
  <2>5. Becomes(p, skipped) \/ Becomes(p, begun)
    BY <1>4, <2>1, <2>2 DEF HistoryNext
  <2> QED BY <1>1, <2>3, <2>4, <2>5, OnceReplaced
<1>5. CASE CopyStart(p)
  <2>1. PICK opened : opened = [p EXCEPT !.at = Target(p), !.ver = src[Target(p)]]
    OBVIOUS
  <2>2. DOMAIN opened = Fields /\ opened.pid = p.pid /\ opened.dev = p.dev
    BY <1>2, <2>1 DEF Fields
  <2>3. Becomes(p, opened) \/ CopyOver(p)
    BY <1>5, <2>1 DEF CopyStart
  <2> QED BY <1>1, <2>2, <2>3, OnceReplaced, CopyOverOnce
<1>6. CASE CopyEnd(p)
  BY <1>1, <1>6, CopyOverOnce DEF CopyEnd
<1> QED
  BY <1>3, <1>4, <1>5, <1>6 DEF Copier

\* SetToSeq lists a finite set without repetition.
LEMMA ListedOnce ==
  ASSUME NEW S, IsFiniteSet(S)
  PROVE  /\ SetToSeq(S) \in Seq(S) /\ IsInjective(SetToSeq(S))
         /\ Len(SetToSeq(S)) = Cardinality(S) /\ Cardinality(S) \in Nat
<1>1. Cardinality(S) \in Nat /\ ExistsBijection(1..Cardinality(S), S)
  BY FS_CardinalityType
<1>2. \E f \in [1..Cardinality(S) -> S] : IsInjective(f)
  BY <1>1 DEF ExistsBijection, Bijection, Injection
<1>3. SetToSeq(S) \in [1..Cardinality(S) -> S] /\ IsInjective(SetToSeq(S))
  BY <1>2 DEF SetToSeq
<1> QED
  BY <1>1, <1>3

LEMMA SlotsFinite ==
  ASSUME roots \in [Device -> Nat]
  PROVE  IsFiniteSet(Slots)
<1> DEFINE slots(d) == {<<d, k>> : k \in 1..roots[d]}
           T == {slots(d) : d \in Device}
<1>1. IsFiniteSet(T)
  <2> DEFINE f == [d \in Device |-> slots(d)]
  <2>1. f \in Surjection(Device, T)
    <3> HIDE DEF slots
    <3> QED BY DEF Surjection
  <2> QED BY <2>1, FS_Surjection, SyncAssumption
<1>2. ASSUME NEW d \in Device PROVE IsFiniteSet(slots(d))
  <2> DEFINE f == [k \in 1..roots[d] |-> <<d, k>>]
  <2>1. f \in Surjection(1..roots[d], slots(d))
    BY DEF Surjection
  <2>2. IsFiniteSet(1..roots[d])
    BY FS_Interval
  <2> HIDE DEF slots
  <2> QED BY <2>1, <2>2, FS_Surjection
<1>3. IsFiniteSet(UNION T)
  <2> HIDE DEF slots
  <2> QED BY <1>1, <1>2, FS_UNION
<1> QED
  BY <1>3 DEF Slots

\* One copier is started for every listing of a device.
LEMMA CopiersOnce ==
  ASSUME roots \in [Device -> Nat], NEW n
  PROVE  /\ \A p \in Copiers(n) : DOMAIN p = Fields /\ p.dev \in Device
         /\ \A p, q \in Copiers(n) : (p.dev = q.dev /\ roots[p.dev] \in {0, 1}) => p = q
<1> DEFINE order == SetToSeq(Slots)
<1>1. order \in Seq(Slots) /\ IsInjective(order)
  BY SlotsFinite, ListedOnce
<1>2. Copiers(n) = {Proc(FreshPid(i), order[i][1], FALSE, {}, n) : i \in DOMAIN order}
  BY DEF Copiers
<1> HIDE DEF order
<1>3. \A i \in DOMAIN order : order[i] \in Slots
  BY <1>1
<1>4. \A s \in Slots : \E d \in Device : \E k \in 1..roots[d] : s = <<d, k>>
  BY DEF Slots
<1>5. \A s, t \in Slots : (s[1] = t[1] /\ roots[s[1]] \in {0, 1}) => s = t
  <2> SUFFICES ASSUME NEW d \in Device, NEW k \in 1..roots[d], NEW l \in 1..roots[d], roots[d] \in {0, 1}
               PROVE  k = l
    BY <1>4
  <2> QED OBVIOUS
<1>6. \A s \in Slots : s[1] \in Device
  BY <1>4
<1>7. \A pid, d : LET p == Proc(pid, d, FALSE, {}, n) IN DOMAIN p = Fields /\ p.dev = d
  BY DEF Proc, Fields
<1>8. \A p \in Copiers(n) : DOMAIN p = Fields /\ p.dev \in Device
  BY <1>2, <1>3, <1>6, <1>7
<1>9. ASSUME NEW p \in Copiers(n), NEW q \in Copiers(n), p.dev = q.dev, roots[p.dev] \in {0, 1}
      PROVE  p = q
  <2>1. PICK i \in DOMAIN order : p = Proc(FreshPid(i), order[i][1], FALSE, {}, n)
    BY <1>2
  <2>2. PICK j \in DOMAIN order : q = Proc(FreshPid(j), order[j][1], FALSE, {}, n)
    BY <1>2
  <2>3. p.dev = order[i][1] /\ q.dev = order[j][1]
    BY <1>7, <2>1, <2>2
  <2>4. order[i] = order[j]
    BY <1>3, <1>5, <1>9, <2>3
  <2>5. i = j
    BY <1>1, <2>4 DEF IsInjective
  <2> QED BY <2>1, <2>2, <2>5
<1> QED
  BY <1>8, <1>9

\* The main loop lists and drops devices.
LEMMA DevicesOnce ==
  ASSUME RecordInv, OnceInv, Devices
  PROVE  OnceInv'
<1>1. /\ pc = "devices" /\ pc' = "take" /\ devq' = <<>> /\ known' = known
  BY DEF Devices
<1>2. /\ roots \in [Device -> Nat] /\ device_pids = [d \in Device |-> device_pids[d]]
      /\ \A p \in procs : DOMAIN p = Fields /\ p.dev \in Device /\ p.pid \in running
      /\ \A d \in Device \ overlooked : Told(d)
      /\ \A p, q \in procs : (p.dev = q.dev /\ p.dev \notin overlooked) => p = q
      /\ \A p \in procs : p.dev \notin overlooked => roots[p.dev] = 1 /\ device_pids[p.dev] = p.pid
  BY <1>1 DEF OnceInv
<1>3. \A d : Of(d)' = {}
  BY <1>1 DEF Of
<1>4. CASE devq = <<>>
  <2>1. UNCHANGED <<roots, running, device_pids, procs, overlooked>>
    BY <1>4 DEF Devices
  <2>2. \A d \in Device \ overlooked : Told(d)'
    BY <1>1, <1>2, <1>3, <1>4, <2>1 DEF Told, Of
  <2> QED BY <1>1, <1>2, <2>1, <2>2 DEF OnceInv
<1>5. CASE devq # <<>>
  <2> DEFINE r == Head(devq)
  <2>1. /\ Len(devq) \in Nat /\ Len(devq) > 0 /\ DOMAIN devq = 1..Len(devq) /\ r = devq[1] /\ r \in Record
        /\ overlooked' = overlooked \cup {devq[i].device : i \in 2..Len(devq)}
    BY <1>5 DEF RecordInv, Devices
  <2>2. r.device \in Device
    BY <2>1, Records
  <2>3. ASSUME NEW d \in Device \ overlooked'
        PROVE  /\ d \notin overlooked /\ Told(d)
               /\ Of(d) = IF r.device = d THEN {1} ELSE {}
    <3>1. \A i \in Of(d) : i = 1
      BY <2>1, <2>3 DEF Of
    <3>2. 1 \in Of(d) <=> r.device = d
      BY <2>1 DEF Of
    <3> HIDE DEF r
    <3> QED BY <1>2, <2>1, <2>3, <3>1, <3>2
  <2>4. ASSUME NEW d \in Device \ overlooked', d # r.device
        PROVE  roots[d] \in {0, 1} /\ (roots[d] = 1 => d \in known)
    BY <2>3, <2>4 DEF Told
  <2>5. ASSUME r.device \notin overlooked'
        PROVE  /\ roots[r.device] \in {0, 1}
               /\ r.action = "CREATE" => roots[r.device] = 0 /\ r.device \in known
    <3>1. Told(r.device) /\ Of(r.device) = {1} /\ r = devq[1]
      BY <2>1, <2>2, <2>3, <2>5
    <3> HIDE DEF r
    <3>2. r.action = "CREATE" => roots[r.device] = 0
      BY <3>1 DEF Told
    <3>3. r.action = "CREATE" => r.device \in known
      BY <3>1 DEF Told
    <3> QED BY <3>1, <3>2, <3>3 DEF Told
  <2> HIDE DEF r
  <2>6. CASE r.action = "CREATE"
    <3>1. List(r)
      BY <1>5, <2>6 DEF Devices, r
    <3>2. roots' = [roots EXCEPT ![r.device] = @ + 1]
      BY <3>1 DEF List
    <3>3. roots' \in [Device -> Nat]
      <4>1. roots[r.device] + 1 \in Nat
        BY <1>2, <2>2
      <4> QED BY <1>2, <3>2, <4>1
    <3>4. ASSUME NEW d \in Device \ overlooked' PROVE Told(d)'
      <4>1. roots'[d] \in {0, 1} /\ (roots'[d] = 1 => d \in known)
        BY <1>2, <2>2, <2>4, <2>5, <2>6, <3>2, <3>4
      <4> QED BY <1>1, <1>3, <4>1 DEF Told
    <3>5. CASE UNCHANGED <<procs, running, device_pids>>
      <4>1. \A p \in procs : p.dev \notin overlooked' => roots'[p.dev] = 1
        BY <1>2, <2>1, <2>2, <2>5, <2>6, <3>2
      <4> QED BY <1>1, <1>2, <2>1, <3>3, <3>4, <3>5, <4>1 DEF OnceInv
    <3>6. CASE ~ UNCHANGED <<procs, running, device_pids>>
      <4>1. PICK p : /\ DOMAIN p = Fields /\ p.dev = r.device
                     /\ procs' = procs \cup {p} /\ running' = running \cup {p.pid}
                     /\ device_pids' = [device_pids EXCEPT ![r.device] = p.pid]
        BY <3>1, <3>6 DEF List, Proc, Fields
      <4>2. r.device \notin overlooked' => \A q \in procs : q.dev # r.device
        BY <1>2, <2>1, <2>5, <2>6
      <4>3. \A q \in procs' : DOMAIN q = Fields /\ q.dev \in Device /\ q.pid \in running'
        BY <1>2, <2>2, <4>1
      <4>4. \A q, s \in procs' : (q.dev = s.dev /\ q.dev \notin overlooked') => q = s
        BY <1>2, <2>1, <4>1, <4>2
      <4>5. \A q \in procs' : q.dev \notin overlooked' => roots'[q.dev] = 1 /\ device_pids'[q.dev] = q.pid
        <5> SUFFICES ASSUME NEW q \in procs', q.dev \notin overlooked'
                     PROVE  roots'[q.dev] = 1 /\ device_pids'[q.dev] = q.pid
          OBVIOUS
        <5>1. CASE q = p
          BY <1>2, <2>2, <2>5, <2>6, <3>2, <4>1, <5>1
        <5>2. CASE q # p
          <6>1. q \in procs /\ q.dev # r.device /\ q.dev \notin overlooked
            BY <2>1, <4>1, <4>2, <5>2
          <6> QED BY <1>2, <3>2, <4>1, <6>1
        <5> QED BY <5>1, <5>2
      <4>6. device_pids' = [d \in Device |-> device_pids'[d]]
        BY <1>2, <4>1
      <4> QED BY <1>1, <3>3, <3>4, <4>3, <4>4, <4>5, <4>6 DEF OnceInv
    <3> QED BY <3>5, <3>6
  <2>7. CASE r.action # "CREATE"
    <3>1. /\ roots' = [roots EXCEPT ![r.device] = 0] /\ UNCHANGED running
          /\ procs' = procs \ {p \in procs : p.pid = device_pids[r.device]}
          /\ device_pids' = [device_pids EXCEPT ![r.device] = NoProc]
      BY <1>5, <2>7 DEF Devices, Unlist, r
    <3>2. roots' \in [Device -> Nat] /\ device_pids' = [d \in Device |-> device_pids'[d]]
      BY <1>2, <3>1
    <3>3. ASSUME NEW d \in Device \ overlooked' PROVE Told(d)'
      <4>1. roots'[d] \in {0, 1} /\ (roots'[d] = 1 => d \in known)
        BY <1>2, <2>2, <2>4, <3>1, <3>3
      <4> QED BY <1>1, <1>3, <4>1 DEF Told
    <3>4. \A p \in procs' : p.dev \notin overlooked' =>
            p \in procs /\ p.dev # r.device /\ p.dev \notin overlooked
      BY <1>2, <2>1, <3>1
    <3>5. \A p \in procs' : p.dev \notin overlooked' => roots'[p.dev] = 1 /\ device_pids'[p.dev] = p.pid
      BY <1>2, <3>1, <3>4
    <3>6. \A p, q \in procs' : (p.dev = q.dev /\ p.dev \notin overlooked') => p = q
      BY <1>2, <2>1, <3>1
    <3> QED BY <1>1, <1>2, <3>1, <3>2, <3>3, <3>5, <3>6 DEF OnceInv
  <2> QED BY <2>6, <2>7
<1> QED
  BY <1>4, <1>5

LEMMA ExecOnce ==
  ASSUME OnceInv, Exec
  PROVE  OnceInv'
<1>1. pc = "exec" /\ pc' = "wait" /\ UNCHANGED <<roots, devq, known, overlooked>> /\ Repeat(Head(todo))
  BY DEF Exec, queues
<1>2. procs = {} /\ roots \in [Device -> Nat] /\ \A d \in Device \ overlooked : Told(d)
  BY <1>1 DEF OnceInv
<1>3. \A d \in Device \ overlooked : Told(d)'
  BY <1>1, <1>2 DEF Told, Of
<1>4. CopyNothing \/ \E n : Copy(n)
  BY <1>1 DEF Repeat
<1>5. CASE CopyNothing
  BY <1>1, <1>2, <1>3, <1>5 DEF CopyNothing, OnceInv
<1>6. ASSUME NEW n, Copy(n) PROVE OnceInv'
  <2>1. /\ procs' = Copiers(n) /\ running' = running \cup {p.pid : p \in Copiers(n)}
        /\ device_pids' = [d \in Device |-> device_pids'[d]]
    BY <1>2, <1>6 DEF Copy
  <2>2. /\ \A p \in procs' : DOMAIN p = Fields /\ p.dev \in Device
        /\ \A p, q \in procs' : (p.dev = q.dev /\ roots[p.dev] \in {0, 1}) => p = q
    BY <1>2, <2>1, CopiersOnce
  <2>3. \A d \in Device \ overlooked : roots[d] \in {0, 1}
    BY <1>2 DEF Told
  <2>4. \A p \in procs' : p.pid \in running'
    BY <2>1
  <2> QED BY <1>1, <1>2, <1>3, <2>1, <2>2, <2>3, <2>4 DEF OnceInv
<1> QED
  BY <1>4, <1>5, <1>6

LEMMA UnplugOnce ==
  ASSUME OnceInv, NEW d, Unplug(d)
  PROVE  OnceInv'
<1>1. /\ UNCHANGED <<roots, device_pids, running, pc, devq, known>> /\ overlooked \subseteq overlooked'
      /\ procs' = {Broken(p, d) : p \in procs}
  BY DEF Unplug, Mount, loopVars
<1> DEFINE was == [q \in procs' |-> CHOOSE p \in procs : q = Broken(p, d)]
<1>2. \A q \in procs' : was[q] \in procs /\ q = Broken(was[q], d)
  BY <1>1
<1> HIDE DEF was
<1>3. \A q \in procs' : DOMAIN q = Fields /\ q.dev = was[q].dev /\ q.pid = was[q].pid
  <2> TAKE q \in procs'
  <2>1. DOMAIN was[q] = Fields
    BY <1>2 DEF OnceInv
  <2> QED BY <1>2, <2>1, BrokenSame DEF Fields
<1>4. \A q, r \in procs' : was[q] = was[r] => q = r
  BY <1>2
<1> QED
  BY <1>1, <1>2, <1>3, <1>4, OnceFewer

LEMMA OnceStep == RecordInv /\ OnceInv /\ [Next]_vars => OnceInv'
<1> SUFFICES ASSUME RecordInv, OnceInv, [Next]_vars PROVE OnceInv'
  OBVIOUS
<1>1. CASE Source
  BY <1>1, OnceStill DEF Source, Write, Finish, Erase, MoveOut, Leave, MoveIn, Emit, loopVars
<1>2. ASSUME NEW d, Plug(d) PROVE OnceInv'
  <2>1. UNCHANGED <<roots, device_pids, procs, running, pc, devq, known>> /\ overlooked \subseteq overlooked'
    BY <1>2 DEF Plug, Mount, loopVars
  <2> QED BY <2>1, OnceStill
<1>3. ASSUME NEW d, Unplug(d) PROVE OnceInv'
  BY <1>3, UnplugOnce
<1>4. CASE FileEvent \/ Timeout
  BY <1>4, OnceStill DEF FileEvent, Timeout, Handle, loopVars
<1>5. ASSUME UNCHANGED <<roots, device_pids, procs, running, pc, overlooked>>,
             NEW x, (\E time \in Nat : AddDevice(x, time)) \/ DropDevice(x)
      PROVE  OnceInv'
  <2>1. \A d \in Device \ overlooked : Told(d)'
    BY <1>5, ToldAdded DEF OnceInv
  <2> QED BY <1>5, <2>1 DEF OnceInv
<1>6. CASE DeviceEvent
  <2>1. UNCHANGED <<roots, device_pids, procs, running, pc, overlooked>>
    BY <1>6 DEF DeviceEvent, loopVars
  <2> QED BY <1>5, <1>6, <2>1, DeviceEventRecords
<1>7. ASSUME NEW d \in Device, AddMounted(d) PROVE OnceInv'
  <2>1. UNCHANGED <<roots, device_pids, procs, running, pc, overlooked>>
    BY <1>7 DEF AddMounted, loopVars
  <2>2. AddDevice(d, since[d]) /\ since[d] \in Nat
    BY <1>7 DEF AddMounted, RecordInv
  <2> QED BY <1>5, <2>1, <2>2
<1>8. CASE StartLoop
  <2>1. /\ pc = "off" /\ pc' = "devices"
        /\ UNCHANGED <<roots, device_pids, procs, running, devq, known, overlooked>>
    BY <1>8 DEF StartLoop
  <2>2. procs = {} /\ \A d \in Device \ overlooked : Told(d)'
    BY <2>1 DEF OnceInv, Told, Of
  <2> QED BY <2>1, <2>2 DEF OnceInv
<1>9. CASE Watch("devices") \/ Watch("data") \/ Defer \/ UNCHANGED vars
  BY <1>9, OnceStill DEF Watch, Defer, queues, loopVars, vars
<1>10. CASE Devices
  BY <1>10, DevicesOnce
<1>11. CASE Take
  <2>1. UNCHANGED <<roots, device_pids, procs, running, devq, known, overlooked>>
        /\ pc = "take" /\ pc' \in {"devices", "check"}
    BY <1>11 DEF Take
  <2>2. \A d \in Device \ overlooked : Told(d)'
    BY <2>1 DEF OnceInv, Told, Of
  <2> QED BY <2>1, <2>2 DEF OnceInv
<1>12. CASE Check
  <2>1. UNCHANGED <<roots, procs, devq, known, overlooked>> /\ pc = "check"
    BY <1>12 DEF Check, queues
  <2>2. \A d \in Device \ overlooked : Told(d)'
    BY <2>1 DEF OnceInv, Told, Of
  <2>3. CASE Busy
    <3>1. UNCHANGED <<running, device_pids>> /\ pc' = "devices"
      BY <1>12, <2>3 DEF Check
    <3> QED BY <2>1, <2>2, <3>1 DEF OnceInv
  <2>4. CASE ~ Busy
    <3>1. procs = {}
      BY <2>4 DEF Busy, OnceInv
    <3>2. device_pids' = [d \in Device |-> device_pids'[d]]
      BY <1>12, <2>4 DEF Check, Forget
    <3> QED BY <2>1, <2>2, <3>1, <3>2 DEF OnceInv
  <2> QED BY <2>3, <2>4
<1>13. CASE Exec
  BY <1>13, ExecOnce
<1>14. CASE Waited \/ ExecEnd
  <2>1. UNCHANGED <<roots, device_pids, procs, running, devq, known, overlooked>> /\ procs = {}
    BY <1>14 DEF Waited, ExecEnd, queues, OnceInv
  <2>2. \A d \in Device \ overlooked : Told(d)'
    BY <2>1 DEF OnceInv, Told, Of
  <2> QED BY <2>1, <2>2 DEF OnceInv
<1>15. CASE Restart
  <2>1. /\ procs' = {} /\ roots' = [d \in Device |-> 0] /\ device_pids' = [d \in Device |-> NoProc]
        /\ UNCHANGED devq /\ overlooked' = {devq[i].device : i \in DOMAIN devq}
    BY <1>15 DEF Restart, Forget
  <2>2. \A d \in Device \ overlooked' : Told(d)'
    BY <2>1 DEF Told, Of
  <2> QED BY <2>1, <2>2 DEF OnceInv
<1>16. ASSUME NEW p \in procs, Copier(p) PROVE OnceInv'
  BY <1>16, CopierOnce
<1>17. ASSUME NEW p, OrphanEnd(p) \/ CopyPart(p) PROVE OnceInv'
  BY <1>17, OnceStill DEF OrphanEnd, CopyPart, loopVars, queues
<1> QED
  BY <1>1, <1>2, <1>3, <1>4, <1>6, <1>7, <1>8, <1>9, <1>10, <1>11, <1>12, <1>13, <1>14, <1>15, <1>16, <1>17
  DEF Next, User, Readers, Boot, Main

\* No two processes write one file of a device at a time, as long as sync_file
\* was told of each coming and going of the device: it is listed once at most,
\* and its process killed before it gets another.
THEOREM OneWriterPerFile == Spec => []OneWriter
<1>1. OnceInv => OneWriter
  BY DEF OnceInv, OneWriter
<1>2. RecordInv /\ OnceInv /\ [Next]_vars => RecordInv' /\ OnceInv'
  BY RecordStep, OnceStep
<1> QED
  BY <1>1, <1>2, RecordInit, PTL DEF Spec
-----------------------------------------------------------------------------
(***************************************************************************)
(* The copies: no event that is repeated, however late, and no copier      *)
(* takes a copy off a device while its recording is still there.  The      *)
(* invariant says which events may be under way: what is removed or        *)
(* renamed by one has no recording of that name any more, and never will.  *)
(***************************************************************************)
OverEvents == INSTANCE FoldTheorems WITH Step <- MergeOne

\* A recording has been closed: its name ends in .bag for good.
Past(b) == src[Closed(b)] > 0 \/ b \in ended
MovedTo(b) == Event("MOVED_TO", Closed(b))

\* The events of the directory, and the deferred ones.
Legal ==
  {Event("MODIFY", Active(b)) : b \in Bag} \cup {MovedTo(b) : b \in Bag}
  \cup {Event("MOVED_FROM", Active(b)) : b \in {c \in Bag : Past(c)}}
  \cup {Event("DELETE", Closed(b)) : b \in ended} \cup {Event("MOVED_FROM", Closed(b)) : b \in ended}
  \cup {Event("MOVED_FROM", Mangled(n)) : n \in File}
\* What merging makes of them.
LegalEntry ==
  {Entry(e) : e \in Legal}
  \cup UNION {{[ev |-> "MOVED", name |-> e.name, to |-> Closed(b)] : b \in Bag} :
                e \in {x \in Legal : x.ev = "MOVED_FROM"}}

\* A recording has one name at a time, and none after it was ended.
Held == Nat \cup {Foreign}
SourceInv ==
  /\ clock \in Nat
  /\ src \in [File -> Nat] /\ dst \in [Device -> [File -> Held]] /\ ended \subseteq Bag
  /\ \A b \in Bag : Past(b) => src[Active(b)] = 0
  /\ \A b \in ended : src[Closed(b)] = 0

LegalInv ==
  /\ fifo \in Seq(Legal) /\ batch \in Seq(Legal) /\ merged \in Seq(Legal)
  /\ event_string \in Seq(Legal) /\ todo \in Seq(LegalEntry)

\* What an rsync writes is a version, or it fails.
Sound(p) ==
  /\ DOMAIN p = Fields /\ p.ver \in Nat \cup {Failed}
  /\ p.job # NoName => p.at \in File
SoundInv ==
  /\ \A p \in procs : Sound(p)
  /\ \A p \in orphans : Sound(p) /\ p.ver > 0

CopyInv == SourceInv /\ LegalInv /\ SoundInv

\* No copy is taken away that has a recording of its name.
Kept == \A d \in Device, n \in File : (dst[d][n] # 0 /\ dst'[d][n] = 0) => src[n] = 0
Copies == [Device -> [File -> Held]]

\* Names are told apart by the recording and by the suffix.
LEMMA NamesApart ==
  /\ \A b \in Bag : Active(b) \in File /\ Closed(b) \in File
  /\ \A n \in File : \E b \in Bag : n = Active(b) \/ n = Closed(b)
  /\ \A b, c : /\ Active(b) = Active(c) => b = c
               /\ Closed(b) = Closed(c) => b = c
               /\ Active(b) # Closed(c)
  /\ \A b : Active(b)[1] = b /\ Closed(b)[1] = b
  /\ \A n \in File : Mangled(n) \notin File
  /\ File \subseteq Name /\ NoName \notin File
<1>1. \A n \in File : \E b \in Bag : n = <<b, "active">> \/ n = <<b, "bag">>
  BY DEF File, Active, Closed
<1>2. \A b \in Bag : Active(b) \in File /\ Closed(b) \in File
  BY DEF File
<1>3. ASSUME NEW n \in File PROVE Mangled(n) \notin File
  <2>1. Mangled(n)[2] \in {"active\\n", "bag\\n"}
    BY DEF Mangled
  <2>2. \A m \in File : m[2] \in {"active", "bag"}
    BY <1>1
  <2> QED BY <2>1, <2>2
<1>4. File \subseteq Name
  BY DEF Name
<1> QED
  BY <1>1, <1>2, <1>3, <1>4, SyncAssumption DEF Active, Closed

LEMMA LegalEvents ==
  ASSUME SourceInv, NEW e \in Legal
  PROVE  /\ e = Event(e.ev, e.name) /\ e.ev \in {"MODIFY", "MOVED_TO", "MOVED_FROM", "DELETE"}
         /\ e.ev = "MODIFY" => \E b \in Bag : e.name = Active(b)
         /\ e.ev = "MOVED_TO" => \E b \in Bag : e = MovedTo(b)
         /\ e.ev = "DELETE" => \E b \in ended : e.name = Closed(b)
         /\ (e.ev = "MOVED_FROM" /\ e.name \in File) => src[e.name] = 0
         /\ e.ev = "MOVED_FROM" => Event("MOVED_FROM", Mangled(e.name)) \in Legal
         /\ \A b \in Bag : e.name = Closed(b) => e = MovedTo(b) \/ b \in ended
<1>1. \A ev, n : Event(ev, n).ev = ev /\ Event(ev, n).name = n
  BY DEF Event
<1>2. ended \subseteq Bag
  BY DEF SourceInv
<1>3. CASE \E b \in Bag : e = Event("MODIFY", Active(b))
  BY <1>1, <1>3, NamesApart
<1>4. CASE \E b \in Bag : e = MovedTo(b)
  BY <1>1, <1>4, NamesApart DEF MovedTo
<1>5. ASSUME NEW b \in Bag, Past(b), e = Event("MOVED_FROM", Active(b))
      PROVE  /\ src[e.name] = 0 /\ Event("MOVED_FROM", Mangled(e.name)) \in Legal
             /\ \A c \in Bag : e.name # Closed(c)
  BY <1>1, <1>5, NamesApart DEF SourceInv, Legal
<1>6. CASE \E b \in ended : e = Event("DELETE", Closed(b))
  BY <1>1, <1>2, <1>6, NamesApart
<1>7. ASSUME NEW b \in ended, e = Event("MOVED_FROM", Closed(b))
      PROVE  /\ src[e.name] = 0 /\ Event("MOVED_FROM", Mangled(e.name)) \in Legal
             /\ \A c \in Bag : e.name = Closed(c) => c \in ended
  BY <1>1, <1>2, <1>7, NamesApart DEF SourceInv, Legal
<1>8. ASSUME NEW n \in File, e = Event("MOVED_FROM", Mangled(n))
      PROVE  /\ e.name \notin File /\ Event("MOVED_FROM", Mangled(e.name)) \in Legal
             /\ \A c \in Bag : e.name # Closed(c)
  <2>1. Mangled(Mangled(n)) = Mangled(n)
    BY DEF Mangled
  <2> QED BY <1>1, <1>8, <2>1, NamesApart DEF Legal
<1> QED
  BY <1>1, <1>3, <1>4, <1>5, <1>6, <1>7, <1>8 DEF Legal

LEMMA LegalEntries ==
  ASSUME SourceInv, NEW t \in LegalEntry
  PROVE  /\ t.ev \in {"MODIFY", "MOVED_TO"} => t.name \in File
         /\ t.ev = "DELETE" => \E b \in ended : t.name = Closed(b)
         /\ (t.ev \in {"MOVED", "MOVED_FROM"} /\ t.name \in File) => src[t.name] = 0
         /\ t.ev = "MOVED" => \E b \in Bag : t.to = Closed(b)
         /\ t.ev = "MOVED_FROM" => Event(t.ev, t.name) \in Legal
         /\ t.to = NoName => \E e \in Legal : t = Entry(e)
<1>1. \A e : Entry(e).ev = e.ev /\ Entry(e).name = e.name /\ Entry(e).to = NoName
  BY DEF Entry
<1>2. \A ev, n, to : LET m == [ev |-> ev, name |-> n, to |-> to]
                     IN  m.ev = ev /\ m.name = n /\ m.to = to
  OBVIOUS
<1>3. ASSUME NEW e \in Legal, t = Entry(e)
      PROVE  /\ t.ev \in {"MODIFY", "MOVED_TO"} => t.name \in File
             /\ t.ev = "DELETE" => \E b \in ended : t.name = Closed(b)
             /\ (t.ev \in {"MOVED", "MOVED_FROM"} /\ t.name \in File) => src[t.name] = 0
             /\ t.ev # "MOVED"
             /\ t.ev = "MOVED_FROM" => Event(t.ev, t.name) \in Legal
  <2>1. t.ev = e.ev /\ t.name = e.name
    BY <1>1, <1>3
  <2>2. \A b : MovedTo(b).name = Closed(b)
    BY DEF MovedTo, Event
  <2> QED BY <2>1, <2>2, LegalEvents, NamesApart
<1>4. ASSUME NEW e \in Legal, e.ev = "MOVED_FROM", NEW b \in Bag,
             t = [ev |-> "MOVED", name |-> e.name, to |-> Closed(b)]
      PROVE  /\ t.ev = "MOVED" /\ (t.name \in File => src[t.name] = 0)
             /\ t.to = Closed(b) /\ t.to # NoName
  BY <1>2, <1>4, LegalEvents, NamesApart
<1>5. \/ \E e \in Legal : t = Entry(e)
      \/ \E e \in Legal, b \in Bag : /\ e.ev = "MOVED_FROM"
                                     /\ t = [ev |-> "MOVED", name |-> e.name, to |-> Closed(b)]
  BY DEF LegalEntry
<1> QED
  BY <1>3, <1>4, <1>5

\* What is legal stays so: a recording that was closed or has ended did.
LEMMA LegalStays ==
  ASSUME \A b \in Bag : Past(b) => Past(b)', ended \subseteq ended'
  PROVE  Legal \subseteq Legal' /\ LegalEntry \subseteq LegalEntry'
<1>1. Legal \subseteq Legal'
  BY DEF Legal
<1>2. LegalEntry \subseteq LegalEntry'
  BY <1>1 DEF LegalEntry
<1> QED
  BY <1>1, <1>2

\* A set of numbers up to a bound has a greatest member.
LEMMA GreatestNat ==
  ASSUME NEW n \in Nat, NEW S \in SUBSET (1..n), S # {}
  PROVE  Max(S) \in S /\ \A q \in S : q <= Max(S)
BY OverEvents!GreatestNat DEF Max

\* Merging makes legal entries of legal events, and keeps legal events.
Merging == [list : Seq(LegalEntry), kept : Seq(Legal)]
LEMMA MergeOneLegal ==
  ASSUME SourceInv, NEW acc \in Merging, NEW e \in Legal
  PROVE  MergeOne(acc, e) \in Merging
<1> DEFINE n == Len(acc.list)
           next == MergeOne(acc, e)
           appended == Append(acc.list, Entry(e))
<1>1. /\ acc.list \in Seq(LegalEntry) /\ acc.kept \in Seq(Legal)
      /\ n \in Nat /\ DOMAIN acc.list = 1..n /\ \A i \in 1..n : acc.list[i] \in LegalEntry
      /\ Entry(e) \in LegalEntry
  BY DEF Merging, LegalEntry
<1>2. appended \in Seq(LegalEntry)
  <2> DEFINE x == Entry(e)
  <2> HIDE DEF x
  <2> QED BY <1>1 DEF x
<1>3. /\ Append(acc.kept, e) \in Seq(Legal) /\ acc.kept \o <<e>> \in Seq(Legal)
      /\ acc.kept \o <<e, e>> \in Seq(Legal)
  BY <1>1
<1>4. CASE e.ev = "MOVED_TO" /\ OpenMoves(acc.list) # {}
  <2> DEFINE m == Max(OpenMoves(acc.list))
             moved == [ev |-> "MOVED", name |-> acc.list[m].name, to |-> e.name]
  <2>1. m \in 1..n /\ acc.list[m].ev = "MOVED_FROM"
    <3>1. OpenMoves(acc.list) \in SUBSET (1..n)
      BY <1>1 DEF OpenMoves
    <3>2. m \in OpenMoves(acc.list)
      BY <1>1, <1>4, <3>1, GreatestNat
    <3> HIDE DEF m
    <3> QED BY <1>1, <3>2 DEF OpenMoves
  <2>2. PICK c \in Bag : e.name = Closed(c)
    BY <1>4, LegalEvents DEF MovedTo, Event
  <2>3. moved \in LegalEntry
    <3>1. Event(acc.list[m].ev, acc.list[m].name) \in Legal
      BY <1>1, <2>1, LegalEntries
    <3>2. Event(acc.list[m].ev, acc.list[m].name).ev = "MOVED_FROM"
          /\ Event(acc.list[m].ev, acc.list[m].name).name = acc.list[m].name
      BY <2>1 DEF Event
    <3> HIDE DEF m
    <3> QED BY <2>2, <3>1, <3>2 DEF LegalEntry
  <2>4. /\ next.list = [acc.list EXCEPT ![m] = moved] /\ next.kept = Append(acc.kept, e)
        /\ next = [list |-> next.list, kept |-> next.kept]
    BY <1>4 DEF MergeOne, MergeMovedTo
  <2> HIDE DEF m, moved, next
  <2>5. next.list \in Seq(LegalEntry)
    BY <1>1, <2>1, <2>3, <2>4
  <2> QED BY <1>3, <2>4, <2>5 DEF next, Merging
<1>5. CASE e.ev = "MOVED_TO" /\ OpenMoves(acc.list) = {}
  <2>1. /\ next.list = appended /\ next = [list |-> next.list, kept |-> next.kept]
        /\ next.kept \in {acc.kept \o <<e>>, acc.kept \o <<e, e>>}
    BY <1>5 DEF MergeOne, MergeMovedTo
  <2> HIDE DEF next, appended
  <2> QED BY <1>2, <1>3, <2>1 DEF next, Merging
<1>6. CASE e.ev # "MOVED_TO"
  <2>1. CASE acc.list = <<>> \/ ~ SameObject(Last(acc.list), e)
    <3>1. /\ next.list = appended /\ next.kept = Append(acc.kept, e)
          /\ next = [list |-> next.list, kept |-> next.kept]
      BY <1>6, <2>1 DEF MergeOne, MergeOther
    <3> HIDE DEF next, appended
    <3> QED BY <1>2, <1>3, <3>1 DEF next, Merging
  <2>2. CASE acc.list # <<>> /\ SameObject(Last(acc.list), e) /\ Last(acc.list).ev = e.ev
    BY <1>6, <2>2 DEF MergeOne, MergeOther
  <2>3. CASE acc.list # <<>> /\ SameObject(Last(acc.list), e) /\ Last(acc.list).ev # e.ev
    <3>1. n \in 1..n /\ Last(acc.list) = acc.list[n]
      BY <1>1, <2>3 DEF Last
    <3>2. acc.list[n].to = NoName /\ acc.list[n].name = e.name
      BY <2>3, <3>1 DEF SameObject
    <3>3. PICK old \in Legal : acc.list[n] = Entry(old)
      BY <1>1, <3>1, <3>2, LegalEntries
    <3>4. [acc.list[n] EXCEPT !.ev = e.ev] = Entry(e)
      BY <3>2, <3>3 DEF Entry
    <3>5. /\ next.list = [acc.list EXCEPT ![n].ev = e.ev] /\ next.kept = Append(acc.kept, e)
          /\ next = [list |-> next.list, kept |-> next.kept]
      BY <1>6, <2>3 DEF MergeOne, MergeOther
    <3> HIDE DEF next
    <3>6. next.list = [acc.list EXCEPT ![n] = Entry(e)]
      BY <1>1, <3>4, <3>5
    <3>7. next.list \in Seq(LegalEntry)
      BY <1>1, <3>1, <3>6
    <3> QED BY <1>3, <3>5, <3>7 DEF next, Merging
  <2> QED BY <2>1, <2>2, <2>3
<1> QED
  BY <1>4, <1>5, <1>6

\* So does merging them all, one step per event.
LEMMA MergeLegal ==
  ASSUME SourceInv, NEW events \in Seq(Legal)
  PROVE  Merge(events).list \in Seq(LegalEntry) /\ Merge(events).kept \in Seq(Legal)
<1> DEFINE base == [list |-> <<>>, kept |-> <<>>]
           n == Len(events)
<1>1. Merge(events) = OverEvents!Fold(base, events)
  BY DEF Merge, FoldLeft, MapThenFoldSet, Max, OverEvents!Fold, OverEvents!FoldLeft,
         OverEvents!MapThenFoldSet, OverEvents!Max
<1>2. base \in Merging
  BY DEF Merging
<1> HIDE DEF base
<1>3. PICK g : /\ g[0] = base /\ g[n] = OverEvents!Fold(base, events)
               /\ \A i \in 1..n : g[i] = MergeOne(g[i - 1], events[i])
  BY OverEvents!FoldSteps
<1>4. n \in Nat /\ \A i \in 1..n : events[i] \in Legal
  OBVIOUS
<1> DEFINE Upto == {i \in Nat : i > n \/ g[i] \in Merging}
<1>5. 0 \in Upto
  BY <1>2, <1>3
<1>6. ASSUME NEW j \in Upto PROVE j + 1 \in Upto
  <2> SUFFICES ASSUME j + 1 <= n PROVE g[j + 1] \in Merging
    BY <1>4
  <2>1. j + 1 \in 1..n /\ (j + 1) - 1 = j /\ g[j] \in Merging
    BY <1>4
  <2>2. g[j + 1] = MergeOne(g[j], events[j + 1]) /\ events[j + 1] \in Legal
    BY <1>3, <1>4, <2>1
  <2> QED BY <2>1, <2>2, MergeOneLegal
<1>7. n \in Upto
  <2>1. Upto \in SUBSET Nat
    OBVIOUS
  <2> HIDE DEF Upto
  <2> QED BY <1>4, <1>5, <1>6, <2>1, OverEvents!SetInduction
<1>8. Merge(events) \in Merging
  BY <1>1, <1>3, <1>4, <1>7
<1> QED
  BY <1>8 DEF Merging
-----------------------------------------------------------------------------
\* Renaming takes away the old name only.
LEMMA RenamedFile ==
  ASSUME NEW f \in [File -> Held], NEW from, NEW to \in File
  PROVE  /\ Renamed(f, from, to) \in [File -> Held]
         /\ \A n \in File : (f[n] # 0 /\ Renamed(f, from, to)[n] = 0) => n = from
<1>1. CASE from \in File /\ f[from] # 0
  <2> DEFINE x == IF from[1] = to[1] THEN f[from] ELSE Foreign
             g == [f EXCEPT ![to] = x, ![from] = 0]
  <2>1. Renamed(f, from, to) = g
    BY <1>1 DEF Renamed
  <2>2. x \in Held /\ x # 0 /\ 0 \in Held
    BY <1>1 DEF Held, Foreign
  <2> HIDE DEF x
  <2>3. g \in [File -> Held] /\ (from # to => g[to] = x)
        /\ \A n \in File : n # from /\ n # to => g[n] = f[n]
    BY <1>1, <2>2
  <2> HIDE DEF g
  <2> QED BY <2>1, <2>2, <2>3
<1>2. CASE ~ (from \in File /\ f[from] # 0)
  BY <1>2 DEF Renamed
<1> QED
  BY <1>1, <1>2

\* So does repeating an event, which names a file that is gone.
LEMMA RepeatKeeps ==
  ASSUME SourceInv, NEW e \in LegalEntry, Repeat(e)
  PROVE  dst' \in Copies /\ Kept /\ (CopyNothing \/ \E n \in File : Copy(n))
<1> DEFINE On(d) == roots[d] > 0 /\ d \in plugged
<1>1. dst \in [Device -> [File -> Held]] /\ \A d \in Device : dst[d] \in [File -> Held]
  BY DEF SourceInv
<1>2. ASSUME NEW from, NEW to \in File, from \in File => src[from] = 0,
             dst' = [d \in Device |-> IF On(d) THEN Renamed(dst[d], from, to) ELSE dst[d]]
      PROVE  dst' \in Copies /\ Kept
  <2>1. \A d \in Device :
          /\ Renamed(dst[d], from, to) \in [File -> Held]
          /\ \A n \in File : (dst[d][n] # 0 /\ Renamed(dst[d], from, to)[n] = 0) => n = from
    BY <1>1, RenamedFile
  <2> HIDE DEF On
  <2>2. dst' \in Copies
    BY <1>1, <1>2, <2>1 DEF Copies
  <2>3. \A d \in Device : dst'[d] = dst[d] \/ dst'[d] = Renamed(dst[d], from, to)
    BY <1>2
  <2>4. Kept
    BY <1>2, <2>1, <2>3 DEF Kept
  <2> QED BY <2>2, <2>4
<1>3. ASSUME UNCHANGED dst PROVE dst' \in Copies /\ Kept
  BY <1>1, <1>3 DEF Kept, Copies
<1>4. CASE e.ev \in {"MODIFY", "MOVED_TO"}
  <2>1. Copy(e.name) /\ UNCHANGED dst /\ e.name \in File
    BY <1>4, LegalEntries DEF Repeat
  <2> QED BY <1>3, <2>1
<1>5. CASE e.ev = "DELETE"
  <2>1. OnDevices(LAMBDA f : [f EXCEPT ![e.name] = 0]) /\ CopyNothing
    BY <1>5 DEF Repeat
  <2>2. e.name \in File /\ src[e.name] = 0
    BY <1>5, LegalEntries, NamesApart DEF SourceInv
  <2>3. dst' = [d \in Device |-> IF On(d) THEN [dst[d] EXCEPT ![e.name] = 0] ELSE dst[d]]
    BY <2>1 DEF OnDevices
  <2>4. 0 \in Held
    BY DEF Held
  <2> HIDE DEF On
  <2>5. \A d \in Device : /\ dst'[d] \in [File -> Held]
                          /\ \A n \in File : n # e.name => dst'[d][n] = dst[d][n]
    BY <1>1, <2>3, <2>4
  <2>6. dst' \in Copies
    BY <2>3, <2>5 DEF Copies
  <2>7. Kept
    BY <1>1, <2>2, <2>5 DEF Kept
  <2> QED BY <2>1, <2>6, <2>7
<1>6. CASE e.ev = "MOVED"
  <2>1. /\ dst' = [d \in Device |-> IF On(d) THEN Renamed(dst[d], e.name, e.to) ELSE dst[d]]
        /\ Copy(e.to)
    BY <1>6 DEF Repeat, OnDevices
  <2>2. e.to \in File /\ (e.name \in File => src[e.name] = 0)
    BY <1>6, LegalEntries, NamesApart
  <2> HIDE DEF On
  <2> QED BY <1>2, <2>1, <2>2
<1>7. CASE e.ev = "MOVED_FROM"
  <2>1. e.name \in File => src[e.name] = 0
    BY <1>7, LegalEntries
  <2> DEFINE n == ClosedName(e.name)
  <2>2. CASE n \in File /\ src[n] > 0
    <3>1. /\ dst' = [d \in Device |-> IF On(d) THEN Renamed(dst[d], e.name, n) ELSE dst[d]]
          /\ Copy(n)
      BY <1>7, <2>2 DEF Repeat, OnDevices
    <3> HIDE DEF On, n
    <3> QED BY <1>2, <2>1, <2>2, <3>1
  <2>3. CASE ~ (n \in File /\ src[n] > 0)
    <3>1. UNCHANGED dst /\ CopyNothing
      BY <1>7, <2>3 DEF Repeat
    <3> QED BY <1>3, <3>1
  <2> QED BY <2>2, <2>3
<1> QED
  BY <1>4, <1>5, <1>6, <1>7 DEF Repeat
-----------------------------------------------------------------------------
\* What a copier writes leaves something in the place of what was there.
LEMMA ReceivedKeeps ==
  ASSUME SourceInv, NEW p, NEW held, Received(p, held),
         (p.dev \in Device /\ p.at \in File) => held \in Held /\ held # 0
  PROVE  dst' \in Copies /\ Kept
<1>1. dst \in [Device -> [File -> Held]] /\ \A d \in Device : dst[d] \in [File -> Held]
  BY DEF SourceInv
<1>2. dst' = [dst EXCEPT ![p.dev][p.at] = held]
  BY DEF Received
<1>3. ASSUME NEW d \in Device
      PROVE  /\ dst'[d] \in [File -> Held]
             /\ \A n \in File : dst'[d][n] = dst[d][n] \/ dst'[d][n] # 0
  <2>1. CASE d # p.dev
    BY <1>1, <1>2, <2>1
  <2>2. CASE d = p.dev /\ p.at \in File
    <3>1. dst'[d] = [dst[d] EXCEPT ![p.at] = held] /\ held \in Held /\ held # 0
      BY <1>1, <1>2, <2>2
    <3> QED BY <1>1, <2>2, <3>1
  <2>3. CASE d = p.dev /\ p.at \notin File
    <3>1. dst'[d] = dst[d]
      BY <1>1, <1>2, <2>3
    <3> QED BY <1>1, <3>1
  <2> QED BY <2>1, <2>2, <2>3
<1>4. dst' \in Copies
  BY <1>1, <1>2, <1>3 DEF Copies
<1>5. Kept
  BY <1>3 DEF Kept
<1> QED
  BY <1>4, <1>5

LEMMA Greater ==
  ASSUME NEW a \in Nat, NEW b \in Nat
  PROVE  Max({a, b}) \in {a, b} /\ Max({a, b}) >= b
<1>1. \E x \in {a, b} : \A y \in {a, b} : x >= y
  <2>1. CASE a >= b
    BY <2>1
  <2>2. CASE b >= a
    BY <2>2
  <2> QED BY <2>1, <2>2
<1> QED
  BY <1>1 DEF Max

\* An rsync that ends leaves the longer of the two, or another recording.
LEMMA AppendedKeeps ==
  ASSUME SourceInv, NEW p, p.ver \in Nat, p.ver > 0, NEW verify,
         NEW held \in Appended(dst[p.dev][p.at], p.ver, verify), Received(p, held)
  PROVE  dst' \in Copies /\ Kept
<1>1. ASSUME p.dev \in Device, p.at \in File PROVE held \in Held /\ held # 0
  <2> DEFINE was == dst[p.dev][p.at]
  <2>1. was \in Held
    BY <1>1 DEF SourceInv
  <2>2. held \in Appended(was, p.ver, verify)
    OBVIOUS
  <2> HIDE DEF was
  <2>3. CASE was # Foreign
    <3>1. was \in Nat /\ held = Max({was, p.ver})
      BY <2>1, <2>2, <2>3 DEF Appended, Held
    <3>2. held \in {was, p.ver} /\ held >= p.ver
      BY <3>1, Greater
    <3> QED BY <3>1, <3>2 DEF Held
  <2>4. CASE was = Foreign
    BY <2>2, <2>4 DEF Appended, Held, Foreign
  <2> QED BY <2>3, <2>4
<1> QED
  BY <1>1, ReceivedKeeps

\* Half a copy is no loss either.
LEMMA PartKeeps ==
  ASSUME SourceInv, SoundInv, NEW p \in procs \cup orphans, CopyPart(p)
  PROVE  dst' \in Copies /\ Kept
<1>1. PICK part \in (dst[p.dev][p.at] + 1)..(p.ver - 1) : Received(p, part)
  BY DEF CopyPart
<1>2. p.ver \in Nat
  BY DEF SoundInv, Sound, CopyPart, Failed
<1>3. ASSUME p.dev \in Device, p.at \in File PROVE part \in Held /\ part # 0
  <2>1. dst[p.dev][p.at] \in Nat
    BY <1>3 DEF SourceInv, CopyPart, Held
  <2> QED BY <1>1, <1>2, <2>1 DEF Held
<1> QED
  BY <1>1, <1>3, ReceivedKeeps

\* A copier, the names of whose files are those of recordings.
LEMMA CopierKeeps ==
  ASSUME SourceInv, SoundInv, NEW p \in procs, Copier(p)
  PROVE  dst' \in Copies /\ Kept
<1>1. dst \in [Device -> [File -> Held]] /\ \A d \in Device : dst[d] \in [File -> Held]
  BY DEF SourceInv
<1>2. p.ver \in Nat \cup {Failed} /\ (p.job # NoName => p.at \in File)
  BY DEF SoundInv, Sound
<1>3. ASSUME UNCHANGED dst PROVE dst' \in Copies /\ Kept
  BY <1>1, <1>3 DEF Kept, Copies
<1>4. CASE HistoryEnd(p) \/ \E n \in File : HistoryNext(p, n)
  BY <1>3, <1>4 DEF HistoryEnd, HistoryNext, files
<1>5. CASE CopyStart(p)
  <2> DEFINE n == Target(p)
  <2>1. p.at \in File
    BY <1>2, <1>5 DEF CopyStart
  <2>2. n \in File /\ (n # p.at => src[p.at] = 0)
    <3>1. ClosedName(p.at) \in File
      BY <2>1, NamesApart DEF ClosedName, Active, Closed
    <3> QED BY <2>1, <3>1 DEF Target
  <2>3. \/ UNCHANGED dst
        \/ n # p.at /\ dst' = [dst EXCEPT ![p.dev] = Renamed(dst[p.dev], p.at, n)]
    BY <1>5 DEF CopyStart
  <2> HIDE DEF n
  <2>4. ASSUME n # p.at, dst' = [dst EXCEPT ![p.dev] = Renamed(dst[p.dev], p.at, n)]
        PROVE  dst' \in Copies /\ Kept
    <3>1. \A d \in Device : d # p.dev => dst'[d] = dst[d]
      BY <1>1, <2>4
    <3>2. ASSUME p.dev \in Device
          PROVE  /\ dst'[p.dev] \in [File -> Held]
                 /\ \A m \in File : (dst[p.dev][m] # 0 /\ dst'[p.dev][m] = 0) => m = p.at
      <4>1. dst'[p.dev] = Renamed(dst[p.dev], p.at, n)
        BY <1>1, <2>4, <3>2
      <4> QED BY <1>1, <2>2, <3>2, <4>1, RenamedFile
    <3>3. dst' \in Copies
      BY <1>1, <2>4, <3>1, <3>2 DEF Copies
    <3>4. Kept
      BY <2>2, <2>4, <3>1, <3>2 DEF Kept
    <3> QED BY <3>3, <3>4
  <2> QED BY <1>3, <2>3, <2>4
<1>6. CASE CopyEnd(p)
  <2>1. CASE UNCHANGED dst
    BY <1>3, <2>1
  <2>2. ASSUME p.ver # Failed, NEW held \in Appended(dst[p.dev][p.at], p.ver, ~ p.history), Received(p, held)
        PROVE  dst' \in Copies /\ Kept
    <3>1. p.ver \in Nat /\ p.ver > 0
      BY <1>2, <1>6, <2>2 DEF CopyEnd
    <3> QED BY <2>2, <3>1, AppendedKeeps
  <2> QED BY <1>6, <2>1, <2>2 DEF CopyEnd
<1> QED
  BY <1>4, <1>5, <1>6 DEF Copier

LEMMA OrphanKeeps ==
  ASSUME SourceInv, SoundInv, NEW p \in orphans, OrphanEnd(p)
  PROVE  dst' \in Copies /\ Kept
<1>1. p.ver \in Nat /\ p.ver > 0
  BY DEF SoundInv, Sound, Failed
<1>2. CASE UNCHANGED dst
  BY <1>2 DEF Kept, Copies, SourceInv
<1>3. ASSUME NEW held \in Appended(dst[p.dev][p.at], p.ver, ~ p.history), Received(p, held)
      PROVE  dst' \in Copies /\ Kept
  BY <1>1, <1>3, AppendedKeeps
<1> QED
  BY <1>2, <1>3 DEF OrphanEnd

\* No step takes away a copy whose recording is still there.
LEMMA CopiesStay ==
  ASSUME CopyInv, [Next]_vars
  PROVE  dst' \in Copies /\ Kept
<1>1. ASSUME UNCHANGED dst PROVE dst' \in Copies /\ Kept
  BY <1>1 DEF Kept, Copies, CopyInv, SourceInv
<1>2. CASE Exec
  <2>1. Head(todo) \in LegalEntry /\ Repeat(Head(todo))
    BY <1>2 DEF Exec, CopyInv, LegalInv
  <2> QED BY <2>1, RepeatKeeps DEF CopyInv
<1>3. ASSUME NEW p \in procs, Copier(p) PROVE dst' \in Copies /\ Kept
  BY <1>3, CopierKeeps DEF CopyInv
<1>4. ASSUME NEW p \in orphans, OrphanEnd(p) PROVE dst' \in Copies /\ Kept
  BY <1>4, OrphanKeeps DEF CopyInv
<1>5. ASSUME NEW p \in procs \cup orphans, CopyPart(p) PROVE dst' \in Copies /\ Kept
  BY <1>5, PartKeeps DEF CopyInv
<1>6. CASE Source
  BY <1>1, <1>6 DEF Source, Write, Finish, Erase, MoveOut, Leave, MoveIn, Emit
<1>7. CASE User \/ Readers \/ Boot \/ Defer \/ Restart
  BY <1>1, <1>7 DEF User, Plug, Unplug, Mount, Readers, FileEvent, Timeout, Handle, DeviceEvent, Boot,
                    StartLoop, AddMounted, Watch, Defer, Restart, files
<1>8. CASE Devices \/ Take \/ Check \/ Waited \/ ExecEnd \/ UNCHANGED vars
  BY <1>1, <1>8 DEF Devices, Take, Check, Waited, ExecEnd, files, vars
<1> HIDE DEF Kept
<1> QED
  BY <1>2, <1>3, <1>4, <1>5, <1>6, <1>7, <1>8 DEF Next, Main
-----------------------------------------------------------------------------
\* Recordings: what was closed stays closed or has ended.
Onward == (\A b \in Bag : Past(b) => Past(b)') /\ ended \subseteq ended'
LEMMA SourceStep ==
  ASSUME CopyInv, [Next]_vars
  PROVE  SourceInv' /\ Onward
<1>1. /\ clock \in Nat /\ src \in [File -> Nat] /\ ended \subseteq Bag
      /\ \A b \in Bag : Past(b) => src[Active(b)] = 0
      /\ \A b \in ended : src[Closed(b)] = 0
      /\ \A b \in Bag : Closed(b) \in File /\ Active(b) \in File
      /\ \A b, c \in Bag : /\ Active(b) = Active(c) => b = c
                           /\ Closed(b) = Closed(c) => b = c
                           /\ Active(b) # Closed(c)
  BY NamesApart DEF SourceInv, CopyInv
<1>2. dst' \in [Device -> [File -> Held]]
  BY CopiesStay DEF Copies
<1>3. ASSUME UNCHANGED <<clock, src, ended>> PROVE SourceInv' /\ Onward
  BY <1>1, <1>2, <1>3 DEF SourceInv, Past, Onward
<1>4. CASE Source
  <2>1. PICK b \in Bag : Write(b) \/ Finish(b) \/ Erase(b) \/ MoveOut(b) \/ MoveIn(b)
    BY <1>4 DEF Source
  <2>2. CASE Write(b)
    <3>1. /\ clock' = clock + 1 /\ src' = [src EXCEPT ![Active(b)] = clock'] /\ ended' = ended
          /\ src[Closed(b)] = 0 /\ b \notin ended
      BY <2>2 DEF Write
    <3>2. /\ clock' \in Nat /\ src' \in [File -> Nat]
          /\ \A c \in Bag : src'[Closed(c)] = src[Closed(c)] /\ (c # b => src'[Active(c)] = src[Active(c)])
      BY <1>1, <3>1
    <3> QED BY <1>1, <1>2, <3>1, <3>2 DEF SourceInv, Past, Onward
  <2>3. CASE Finish(b)
    <3>1. /\ src' = [src EXCEPT ![Closed(b)] = src[Active(b)], ![Active(b)] = 0]
          /\ UNCHANGED <<clock, ended>> /\ src[Active(b)] > 0
      BY <2>3 DEF Finish
    <3>2. /\ src' \in [File -> Nat] /\ src'[Closed(b)] > 0 /\ src'[Active(b)] = 0
          /\ \A c \in Bag : c # b => src'[Closed(c)] = src[Closed(c)] /\ src'[Active(c)] = src[Active(c)]
      BY <1>1, <3>1
    <3>3. b \notin ended
      BY <1>1, <3>1 DEF Past
    <3> QED BY <1>1, <1>2, <3>1, <3>2, <3>3 DEF SourceInv, Past, Onward
  <2>4. CASE Erase(b) \/ MoveOut(b)
    <3>1. /\ src' = [src EXCEPT ![Closed(b)] = 0] /\ ended' = ended \cup {b} /\ src[Closed(b)] > 0
          /\ UNCHANGED clock
      BY <2>4 DEF Erase, MoveOut, Leave
    <3>2. /\ src' \in [File -> Nat] /\ src'[Closed(b)] = 0
          /\ \A c \in Bag : /\ c # b => src'[Closed(c)] = src[Closed(c)]
                            /\ src'[Active(c)] = src[Active(c)]
      BY <1>1, <3>1
    <3> QED BY <1>1, <1>2, <3>1, <3>2 DEF SourceInv, Past, Onward
  <2>5. CASE MoveIn(b)
    <3>1. PICK age \in 1..clock : src' = [src EXCEPT ![Closed(b)] = age]
      BY <2>5 DEF MoveIn
    <3>2. UNCHANGED <<clock, ended>> /\ b \notin ended /\ src[Active(b)] = 0
      BY <2>5 DEF MoveIn
    <3>3. age \in Nat
      BY <1>1
    <3>4. /\ src' \in [File -> Nat] /\ src'[Closed(b)] = age
          /\ \A c \in Bag : /\ c # b => src'[Closed(c)] = src[Closed(c)]
                            /\ src'[Active(c)] = src[Active(c)]
      BY <1>1, <3>1, <3>3
    <3> QED BY <1>1, <1>2, <3>1, <3>2, <3>4 DEF SourceInv, Past, Onward
  <2> QED BY <2>1, <2>2, <2>3, <2>4, <2>5
<1>5. CASE User \/ Readers \/ Boot \/ Defer \/ Restart
  BY <1>3, <1>5 DEF User, Plug, Unplug, Mount, Readers, FileEvent, Timeout, Handle, DeviceEvent, Boot,
                    StartLoop, AddMounted, Watch, Defer, Restart, files, world
<1>6. CASE Main
  BY <1>3, <1>6 DEF Main, Devices, Take, Check, Exec, Waited, ExecEnd, files, world
<1>7. ASSUME NEW p, Copier(p) \/ OrphanEnd(p) \/ CopyPart(p) PROVE SourceInv' /\ Onward
  BY <1>3, <1>7 DEF Copier, HistoryEnd, HistoryNext, CopyStart, CopyEnd, OrphanEnd, CopyPart, files, world
<1>8. CASE UNCHANGED vars
  BY <1>3, <1>8 DEF vars, files, world
<1> QED
  BY <1>4, <1>5, <1>6, <1>7, <1>8 DEF Next

\* The events: what is legal stays so.
LEMMA LegalStep ==
  ASSUME CopyInv, [Next]_vars
  PROVE  LegalInv'
<1>1. /\ fifo \in Seq(Legal) /\ batch \in Seq(Legal) /\ merged \in Seq(Legal)
      /\ event_string \in Seq(Legal) /\ todo \in Seq(LegalEntry)
  BY DEF CopyInv, LegalInv
<1>2. SourceInv /\ SourceInv' /\ Onward
  BY SourceStep DEF CopyInv
<1>3. Legal \subseteq Legal' /\ LegalEntry \subseteq LegalEntry'
  BY <1>2, LegalStays DEF Onward
<1>4. ASSUME fifo' \in Seq(Legal'), batch' \in Seq(Legal), merged' \in Seq(Legal),
             event_string' \in Seq(Legal), todo' \in Seq(LegalEntry)
      PROVE  LegalInv'
  <2>1. \A S, T : S \subseteq T => Seq(S) \subseteq Seq(T)
    OBVIOUS
  <2> QED BY <1>3, <1>4, <2>1 DEF LegalInv
<1>5. fifo \in Seq(Legal')
  BY <1>1, <1>3
<1>6. CASE Source
  <2>1. PICK b \in Bag : Write(b) \/ Finish(b) \/ Erase(b) \/ MoveOut(b) \/ MoveIn(b)
    BY <1>6 DEF Source
  <2>2. PICK events \in Seq(Legal') : fifo' = fifo \o events \/ UNCHANGED fifo
    <3>1. CASE Write(b)
      <4>1. Event("MODIFY", Active(b)) \in Legal'
        BY DEF Legal
      <4>2. <<Event("MODIFY", Active(b))>> \in Seq(Legal')
        BY <4>1
      <4> QED BY <3>1, <4>2 DEF Write, Emit
    <3>2. CASE Finish(b)
      <4>1. Past(b)'
        <5>1. Closed(b) \in File /\ Active(b) \in File /\ Active(b) # Closed(b) /\ src \in [File -> Nat]
          BY <1>2, NamesApart DEF SourceInv
        <5>2. src' = [src EXCEPT ![Closed(b)] = src[Active(b)], ![Active(b)] = 0] /\ src[Active(b)] > 0
          BY <3>2 DEF Finish
        <5> QED BY <5>1, <5>2 DEF Past
      <4>2. Event("MOVED_FROM", Active(b)) \in Legal' /\ Event("MOVED_TO", Closed(b)) \in Legal'
        BY <4>1 DEF Legal, MovedTo
      <4>3. <<Event("MOVED_FROM", Active(b)), Event("MOVED_TO", Closed(b))>> \in Seq(Legal')
        BY <4>2
      <4> QED BY <3>2, <4>3 DEF Finish, Emit
    <3>3. ASSUME NEW ev \in {"DELETE", "MOVED_FROM"}, Leave(b, ev)
          PROVE  \E events \in Seq(Legal') : fifo' = fifo \o events \/ UNCHANGED fifo
      <4>1. b \in ended'
        BY <3>3 DEF Leave
      <4>2. Event(ev, Closed(b)) \in Legal'
        BY <4>1 DEF Legal
      <4>3. <<Event(ev, Closed(b))>> \in Seq(Legal')
        BY <4>2
      <4> QED BY <3>3, <4>3 DEF Leave, Emit
    <3>4. CASE MoveIn(b)
      <4>1. Event("MOVED_TO", Closed(b)) \in Legal'
        BY DEF Legal, MovedTo
      <4>2. <<Event("MOVED_TO", Closed(b))>> \in Seq(Legal')
        BY <4>1
      <4> QED BY <3>4, <4>2 DEF MoveIn, Emit
    <3> QED BY <2>1, <3>1, <3>2, <3>3, <3>4 DEF Erase, MoveOut
  <2>3. fifo' \in Seq(Legal')
    <3>1. fifo \o events \in Seq(Legal')
      BY <1>5
    <3> QED BY <1>5, <2>2, <3>1
  <2>4. UNCHANGED <<batch, merged, event_string, todo>>
    BY <2>1 DEF Write, Finish, Erase, MoveOut, Leave, MoveIn, Emit, loopVars
  <2> QED BY <1>1, <1>4, <2>3, <2>4
<1>7. CASE User
  BY <1>1, <1>4, <1>5, <1>7 DEF User, Plug, Unplug, Mount, loopVars
<1>8. CASE FileEvent \/ Timeout
  <2>1. PICK noted, rest : Handle(noted, rest) /\ noted \in Seq(Legal) /\ rest \in Seq(Legal)
    <3>1. CASE Timeout
      BY <1>1, <3>1 DEF Timeout
    <3>2. CASE FileEvent
      <4>1. Noted(Head(fifo)) \in Seq(Legal) /\ Tail(fifo) \in Seq(Legal)
        <5>1. Head(fifo) \in Legal /\ Tail(fifo) \in Seq(Legal)
          BY <1>1, <3>2 DEF FileEvent
        <5> QED BY <1>1, <5>1 DEF Noted
      <4> QED BY <3>2, <4>1 DEF FileEvent
    <3> QED BY <1>8, <3>1, <3>2
  <2>2. rest \in Seq(Legal') /\ merged \o noted \in Seq(Legal) /\ <<>> \in Seq(Legal)
    BY <1>1, <1>3, <2>1
  <2>3. fifo' = rest /\ UNCHANGED <<event_string, todo>>
    BY <2>1 DEF Handle, loopVars
  <2>4. batch' \in Seq(Legal) /\ merged' \in Seq(Legal)
    BY <1>1, <2>1, <2>2 DEF Handle
  <2>5. fifo' \in Seq(Legal') /\ event_string' \in Seq(Legal) /\ todo' \in Seq(LegalEntry)
    BY <1>1, <2>2, <2>3
  <2> QED BY <1>4, <2>4, <2>5
<1>9. CASE DeviceEvent \/ Boot
  <2> DEFINE Still == UNCHANGED <<fifo, batch, event_string, todo>> /\ (UNCHANGED merged \/ merged' = <<>>)
  <2>1. Still
    <3>1. CASE DeviceEvent
      BY <3>1 DEF DeviceEvent, loopVars
    <3>2. CASE StartLoop
      BY <3>2 DEF StartLoop
    <3>3. ASSUME NEW d \in Device, AddMounted(d)
          PROVE  Still
      BY <3>3 DEF AddMounted, loopVars
    <3>4. CASE Watch("devices") \/ Watch("data")
      BY <3>4 DEF Watch, queues, loopVars
    <3> HIDE DEF Still
    <3> QED BY <1>9, <3>1, <3>2, <3>3, <3>4 DEF Boot
  <2>2. merged' \in Seq(Legal)
    <3>1. <<>> \in Seq(Legal)
      OBVIOUS
    <3> QED BY <1>1, <2>1, <3>1
  <2> QED BY <1>1, <1>4, <1>5, <2>1, <2>2
<1>10. CASE Devices \/ Waited \/ ExecEnd
  BY <1>1, <1>4, <1>5, <1>10 DEF Devices, Waited, ExecEnd, queues
<1>11. CASE Take
  <2>1. event_string \o merged \in Seq(Legal) /\ <<>> \in Seq(Legal)
    BY <1>1
  <2> QED BY <1>1, <1>4, <1>5, <1>11, <2>1 DEF Take
<1>12. CASE Check
  <2>1. Merge(event_string).list \in Seq(LegalEntry) /\ Merge(event_string).kept \in Seq(Legal)
    BY <1>1, <1>2, MergeLegal
  <2>2. <<>> \in Seq(Legal)
    OBVIOUS
  <2> QED BY <1>1, <1>4, <1>5, <1>12, <2>1, <2>2 DEF Check, queues
<1>13. CASE Exec
  <2>1. Tail(todo) \in Seq(LegalEntry)
    BY <1>1, <1>13 DEF Exec
  <2> QED BY <1>1, <1>4, <1>5, <1>13, <2>1 DEF Exec, queues
<1>14. CASE Defer
  <2>1. Head(todo) \in LegalEntry /\ Tail(todo) \in Seq(LegalEntry) /\ Head(todo).ev = "MOVED_FROM"
    BY <1>1, <1>14 DEF Defer
  <2> DEFINE n == Head(todo).name
             e == Event("MOVED_FROM", n)
  <2>2. e \in Legal
    BY <1>2, <2>1, LegalEntries
  <2>3. Event("MOVED_FROM", Mangled(n)) \in Legal
    <3>1. e.ev = "MOVED_FROM" /\ e.name = n
      BY DEF Event
    <3> HIDE DEF e
    <3> QED BY <1>2, <2>2, <3>1, LegalEvents
  <2>4. event_string' = <<Event("MOVED_FROM", Mangled(n))>> /\ todo' = Tail(todo)
    BY <1>14 DEF Defer
  <2> HIDE DEF n, e
  <2>5. event_string' \in Seq(Legal)
    BY <2>3, <2>4
  <2> QED BY <1>1, <1>4, <1>5, <1>14, <2>1, <2>4, <2>5 DEF Defer, queues
<1>15. CASE Restart
  <2>1. \A S : <<>> \in Seq(S)
    OBVIOUS
  <2> QED BY <1>1, <1>4, <1>15, <2>1 DEF Restart
<1>16. ASSUME NEW p, Copier(p) \/ OrphanEnd(p) \/ CopyPart(p) PROVE LegalInv'
  BY <1>1, <1>4, <1>5, <1>16 DEF Copier, HistoryEnd, HistoryNext, CopyStart, CopyEnd, OrphanEnd, CopyPart,
     queues, loopVars
<1>17. CASE UNCHANGED vars
  BY <1>1, <1>4, <1>5, <1>17 DEF vars, queues, loopVars
<1> QED
  BY <1>6, <1>7, <1>8, <1>9, <1>10, <1>11, <1>12, <1>13, <1>14, <1>15, <1>16, <1>17
  DEF Next, Readers, Main

\* The processes: a new one has the name of a file and has opened none.
LEMMA SoundReplaced ==
  ASSUME SoundInv, NEW p \in procs, NEW q, Becomes(p, q), UNCHANGED orphans, Sound(q)'
  PROVE  SoundInv'
BY DEF SoundInv, Becomes, Sound

LEMMA CopyOverSound ==
  ASSUME SoundInv, NEW p \in procs, CopyOver(p), UNCHANGED orphans
  PROVE  SoundInv'
<1>1. CASE p.history
  <2> DEFINE q == [p EXCEPT !.job = NoName, !.at = NoName, !.ver = 0]
  <2>1. DOMAIN p = Fields
    BY DEF SoundInv, Sound
  <2>2. DOMAIN q = Fields /\ q.job = NoName /\ q.ver = 0
    BY <2>1 DEF Fields
  <2>3. Becomes(p, q)
    BY <1>1 DEF CopyOver
  <2> HIDE DEF q
  <2>4. Sound(q)'
    BY <2>2 DEF Sound
  <2> QED BY <2>3, <2>4, SoundReplaced
<1>2. CASE ~ p.history
  BY <1>2 DEF CopyOver, SoundInv, Sound
<1> QED
  BY <1>1, <1>2

LEMMA CopierSound ==
  ASSUME CopyInv, NEW p \in procs, Copier(p)
  PROVE  SoundInv'
<1>1. SoundInv /\ UNCHANGED orphans
  BY DEF CopyInv, Copier, HistoryEnd, HistoryNext, CopyStart, CopyEnd
<1>2. DOMAIN p = Fields /\ p.ver \in Nat \cup {Failed} /\ (p.job # NoName => p.at \in File)
  BY <1>1 DEF SoundInv, Sound
<1>3. CASE HistoryEnd(p)
  BY <1>1, <1>3 DEF HistoryEnd, SoundInv, Sound
<1>4. ASSUME NEW n \in File, HistoryNext(p, n) PROVE SoundInv'
  <2> DEFINE skipped == [p EXCEPT !.left = @ \ {n}]
             begun == [p EXCEPT !.left = @ \ {n}, !.job = n, !.at = n, !.ver = 0]
  <2>1. DOMAIN skipped = Fields /\ skipped.ver = p.ver /\ skipped.job = p.job /\ skipped.at = p.at
    BY <1>2 DEF Fields
  <2>2. DOMAIN begun = Fields /\ begun.ver = 0 /\ begun.at = n
    BY <1>2 DEF Fields
  <2>3. Becomes(p, skipped) \/ Becomes(p, begun)
    BY <1>4 DEF HistoryNext
  <2> HIDE DEF skipped, begun
  <2>4. Sound(skipped)' /\ Sound(begun)'
    BY <1>2, <1>4, <2>1, <2>2 DEF Sound
  <2> QED BY <1>1, <2>3, <2>4, SoundReplaced
<1>5. CASE CopyStart(p)
  <2> DEFINE n == Target(p)
  <2>1. n \in File /\ src[n] \in Nat
    <3>1. p.at \in File /\ src \in [File -> Nat]
      BY <1>2, <1>5 DEF CopyStart, CopyInv, SourceInv
    <3>2. ClosedName(p.at) \in File
      BY <3>1, NamesApart DEF ClosedName, Active, Closed
    <3> QED BY <3>1, <3>2 DEF Target
  <2>2. PICK opened : opened = [p EXCEPT !.at = n, !.ver = src[n]]
    OBVIOUS
  <2>3. Becomes(p, opened) \/ CopyOver(p)
    BY <1>5, <2>2 DEF CopyStart
  <2>4. DOMAIN opened = Fields /\ opened.at = n /\ opened.ver = src[n]
    BY <1>2, <2>2 DEF Fields
  <2> HIDE DEF n
  <2>5. Sound(opened)
    BY <2>1, <2>4 DEF Sound
  <2>6. Sound(opened)'
    BY <2>5 DEF Sound
  <2> QED BY <1>1, <2>3, <2>6, SoundReplaced, CopyOverSound
<1>6. CASE CopyEnd(p)
  BY <1>1, <1>6, CopyOverSound DEF CopyEnd
<1> QED
  BY <1>3, <1>4, <1>5, <1>6 DEF Copier

LEMMA SoundStep ==
  ASSUME CopyInv, [Next]_vars
  PROVE  SoundInv'
<1>1. SoundInv
  BY DEF CopyInv
<1>2. ASSUME UNCHANGED <<procs, orphans>> PROVE SoundInv'
  BY <1>1, <1>2 DEF SoundInv, Sound
<1>3. CASE Source
  BY <1>2, <1>3 DEF Source, Write, Finish, Erase, MoveOut, Leave, MoveIn, Emit
<1>4. CASE User
  <2>1. ASSUME NEW d, Plug(d) PROVE SoundInv'
    BY <1>2, <2>1 DEF Plug
  <2>2. ASSUME NEW d, Unplug(d) PROVE SoundInv'
    <3>1. procs' = {Broken(p, d) : p \in procs} /\ orphans' \subseteq orphans
      BY <2>2 DEF Unplug
    <3>2. ASSUME NEW p \in procs PROVE Sound(Broken(p, d))'
      <4> DEFINE q == Broken(p, d)
      <4>1. Sound(p)
        BY <1>1 DEF SoundInv
      <4>2. DOMAIN q = Fields /\ q.at = p.at /\ q.job = p.job /\ q.ver \in {p.ver, Failed}
        BY <4>1, BrokenSame DEF Sound, Fields
      <4> HIDE DEF q
      <4>3. Sound(q)'
        BY <4>1, <4>2 DEF Sound
      <4> QED BY <4>3 DEF q
    <3> QED BY <1>1, <3>1, <3>2 DEF SoundInv, Sound
  <2> QED BY <1>4, <2>1, <2>2 DEF User
<1>5. CASE Readers \/ Boot \/ Defer
  BY <1>2, <1>5 DEF Readers, FileEvent, Timeout, Handle, DeviceEvent, Boot, StartLoop, AddMounted, Watch, Defer
<1>6. CASE Devices
  <2>1. CASE devq = <<>>
    BY <1>2, <1>6, <2>1 DEF Devices
  <2>2. CASE devq # <<>> /\ Head(devq).action = "CREATE"
    <3>1. List(Head(devq))
      BY <1>6, <2>2 DEF Devices
    <3>2. /\ UNCHANGED orphans
          /\ UNCHANGED procs \/ \E p : Sound(p) /\ procs' = procs \cup {p}
      <4>1. \A pid, d, left : Sound(Proc(pid, d, TRUE, left, NoName))
        BY DEF Proc, Sound, Fields
      <4> QED BY <3>1, <4>1 DEF List
    <3> QED BY <1>1, <3>2 DEF SoundInv, Sound
  <2>3. CASE devq # <<>> /\ Head(devq).action # "CREATE"
    <3>1. procs' \subseteq procs /\ \A p \in orphans' : p \in orphans \/ (p \in procs /\ p.ver > 0)
      BY <1>6, <2>3 DEF Devices, Unlist
    <3> QED BY <1>1, <3>1 DEF SoundInv, Sound
  <2> QED BY <2>1, <2>2, <2>3
<1>7. CASE Take \/ Check \/ Waited \/ ExecEnd \/ UNCHANGED vars
  BY <1>2, <1>7 DEF Take, Check, Waited, ExecEnd, vars
<1>8. CASE Exec
  <2>1. CopyNothing \/ \E n \in File : Copy(n)
    BY <1>8, RepeatKeeps DEF Exec, CopyInv, LegalInv
  <2>2. UNCHANGED orphans
    BY <1>8 DEF Exec
  <2>3. ASSUME NEW n \in File, Copy(n) PROVE SoundInv'
    <3>1. \A pid, d : Sound(Proc(pid, d, FALSE, {}, n))
      BY <2>3 DEF Proc, Sound, Fields
    <3> DEFINE order == SetToSeq(Slots)
    <3>2. Copiers(n) = {Proc(FreshPid(i), order[i][1], FALSE, {}, n) : i \in DOMAIN order}
      BY DEF Copiers
    <3> HIDE DEF order
    <3>3. \A p \in Copiers(n) : Sound(p)
      BY <3>1, <3>2
    <3>4. procs' = procs \cup Copiers(n)
      BY <2>3 DEF Copy
    <3> QED BY <1>1, <2>2, <3>3, <3>4 DEF SoundInv, Sound
  <2> QED BY <1>2, <2>1, <2>2, <2>3 DEF CopyNothing
<1>9. CASE Restart
  BY <1>9 DEF Restart, SoundInv
<1>10. ASSUME NEW p \in procs, Copier(p) PROVE SoundInv'
  BY <1>10, CopierSound
<1>11. ASSUME NEW p, OrphanEnd(p) \/ CopyPart(p) PROVE SoundInv'
  BY <1>1, <1>11 DEF OrphanEnd, CopyPart, SoundInv, Sound
<1> QED
  BY <1>3, <1>4, <1>5, <1>6, <1>7, <1>8, <1>9, <1>10, <1>11 DEF Next, Main
-----------------------------------------------------------------------------
LEMMA CopyInit == Init => CopyInv
<1> SUFFICES ASSUME Init PROVE CopyInv
  OBVIOUS
<1>1. \A S : <<>> \in Seq(S)
  OBVIOUS
<1>2. LegalInv /\ SoundInv
  BY <1>1 DEF Init, LegalInv, SoundInv
<1>3. \A b \in Bag : Active(b) \in File /\ Closed(b) \in File
  BY NamesApart
<1>4. SourceInv
  BY <1>3 DEF Init, SourceInv, Past, None, Held
<1> QED
  BY <1>2, <1>4 DEF CopyInv

\* No event, however late sync_file repeats it, and no copier, not even the
\* rsync of one that was killed, takes a copy off a device while the recording
\* is still there under that name: where exec_sync and direct_copy rename or
\* remove, the recording has gone on.
THEOREM CopiesKept == Spec => CopyKept
<1>1. CopyInv /\ [Next]_vars => CopyInv'
  BY SourceStep, LegalStep, SoundStep DEF CopyInv
<1>2. CopyInv /\ [Next]_vars => [Kept]_vars
  BY CopiesStay
<1>3. [][Kept]_vars => CopyKept
  BY PTL DEF CopyKept, Kept
<1> QED
  BY <1>1, <1>2, <1>3, CopyInit, PTL DEF Spec
=============================================================================
