------------------------------ MODULE ImrPersist ------------------------------
(***************************************************************************)
(* How IMRSim keeps zone_state (device config, statistics, zone status and *)
(* zone maps) on the disk: the persistence task, which once a second saves *)
(* all of it or flushes a part, the requests and ioctls that change it and *)
(* raise the change flags, and the reload when a target is created.        *)
(*                                                                         *)
(* The unit is a page.  Page 0 holds the header with its checksum, the     *)
(* config and the statistics; a page's content is the number of the event  *)
(* that last changed it.  imrsim_zone_lock is held by the task between     *)
(* TaskBegin... and TaskDone and by a request for the length of its action;   *)
(* the statistics are also changed by ioctls that do not take it.          *)
(***************************************************************************)
EXTENDS Naturals, Sequences

CONSTANTS
  NumPages,       \* pages that header.length covers, the partial one included
  NumZones,
  MapPages,       \* MapPages[z]: the pages with zone z's status and zone map
  PSTORE_QDEPTH,  \* IMR_PSTORE_QDEPTH
  PSTORE_PG_EDG,  \* IMR_PSTORE_PG_EDG
  PSTORE_PG_GAP,  \* IMR_PSTORE_PG_GAP
  IoErrors,       \* may page allocations and page writes of the task fail?
  MaxClock,       \* bound: events that change the state
  MaxRestarts     \* bound: crashes and removals of the target

Pages == 0..(NumPages - 1)
Zones == 0..(NumZones - 1)

ASSUME SizesAssumption == NumPages \in Nat \ {0} /\ NumZones \in Nat \ {0}
ASSUME MapPagesAssumption == MapPages \in [Zones -> SUBSET Pages]
ASSUME QueueAssumption ==
  PSTORE_QDEPTH \in Nat \ {0} /\ PSTORE_PG_EDG \in Nat /\ PSTORE_PG_GAP \in Nat \ {0}
ASSUME PersistBoundsAssumption ==
  IoErrors \in BOOLEAN /\ MaxClock \in Nat /\ MaxRestarts \in Nat

VARIABLES
  mem,            \* zone_state, page by page
  tail,           \* the last entries of the last zone's map: header.length ends before them
  crc,            \* header.crc32 in memory: what its checksum was taken of
  configured,     \* IMR_NUMZONES # 0
  disk,           \* the persistence area, page by page
  diskCrc,        \* header.crc32 on the disk, or NoHeader if the magic is not there
  diskConfigured, \* num_zones # 0 on the disk (page 0)
  flag,           \* imrsim_ptask.flag
  queue,          \* imrsim_ptask.stu_zone_idx
  gap,            \* imrsim_ptask.stu_zone_idx_gap
  task,           \* the persistence task
  ioctl,          \* the ioctl that holds imrsim_ioctl_lock
  clock,          \* history: number of the last event that changed the state
  past,           \* history: every state memory has been in
  clean,          \* history: nothing disturbed the save or flush under way
  restarts        \* history: number of restarts

memory == <<mem, tail, configured>>
store == <<disk, diskCrc, diskConfigured, crc>>
pending == <<flag, queue, gap>>
vars == <<memory, store, pending, task, ioctl, clock, past, clean, restarts>>

NoHeader == <<>>              \* a checksum of no page at all
Blank == [p \in Pages |-> 0]      \* never written, or zeroed memory
Default == [p \in Pages |-> 1]    \* the default state
TaskIdle == [pc |-> "idle"]

Running == task.pc # "create"                    \* the target exists
TaskHoldsLock == task.pc \notin {"idle", "create"}
LockFree == Running /\ ~TaskHoldsLock

-----------------------------------------------------------------------------
(* Changes of the state in memory.                                         *)

Change(pages, tailToo) ==
  /\ clock < MaxClock
  /\ clock' = clock + 1
  /\ mem' = [p \in Pages |-> IF p \in pages THEN clock + 1 ELSE mem[p]]
  /\ tail' = IF tailToo THEN clock + 1 ELSE tail
  /\ past' = past \cup {mem'}

\* A request updates the statistics and may change an entry of its zone's map.
ChangeZone(z) ==
  \/ Change({0}, FALSE)
  \/ \E p \in MapPages[z] : Change({0, p}, FALSE)
  \/ z = NumZones - 1 /\ Change({0}, TRUE)

\* imrsim_ptask_queue_ok and imrsim_ptask_gap_ok, over a queue q.
Distance(a, b) == IF a < b THEN b - a ELSE a - b
QueueOk(q, z) == \A i \in DOMAIN q : Distance(z, q[i]) > PSTORE_PG_EDG
GapOk(q, z) == \E i \in DOMAIN q : Distance(z, q[i]) <= PSTORE_PG_GAP * PSTORE_PG_EDG

QueueZoneUnbounded(z) ==                         \* wrong: the depth is not checked
  IF QueueOk(queue, z)
  THEN queue' = Append(queue, z) /\ UNCHANGED gap
  ELSE UNCHANGED <<queue, gap>>
QueueZone(z) ==
  IF Len(queue) = PSTORE_QDEPTH
  THEN gap' = PSTORE_PG_GAP /\ UNCHANGED queue
  ELSE IF QueueOk(queue, z)
  THEN /\ queue' = Append(queue, z)
       /\ gap' = IF GapOk(queue', z) THEN gap ELSE gap + 1
  ELSE UNCHANGED <<queue, gap>>

-----------------------------------------------------------------------------
(* Requests, under imrsim_zone_lock.                                       *)

HostWrite(z) ==
  /\ LockFree /\ configured
  /\ ChangeZone(z)
  /\ flag' = flag \cup {"status"}
  /\ QueueZone(z)
  /\ UNCHANGED <<configured, store, task, ioctl, clean, restarts>>

\* A write that takes the read-modify-write path, or a read: nothing is flagged.
HostUnflagged(z) ==
  /\ LockFree /\ configured
  /\ ChangeZone(z)
  /\ UNCHANGED <<configured, store, pending, task, ioctl, clean, restarts>>

HostDiscard(z) ==
  /\ LockFree /\ configured
  /\ ChangeZone(z)
  /\ flag' = flag \cup {"status"}
  /\ UNCHANGED <<configured, store, queue, gap, task, ioctl, clean, restarts>>

HostRejected ==
  /\ LockFree
  /\ Change({0}, FALSE)
  /\ flag' = flag \cup {"stats"}
  /\ UNCHANGED <<configured, store, queue, gap, task, ioctl, clean, restarts>>

-----------------------------------------------------------------------------
(* ioctls, under imrsim_ioctl_lock.                                        *)

\* A change made without imrsim_zone_lock disturbs a save or flush under way.
ChangeUnlocked ==
  /\ Running
  /\ Change({0}, FALSE)
  /\ clean' = (clean /\ ~TaskHoldsLock)
  /\ UNCHANGED <<configured, store, pending, task, restarts>>

\* Every ioctl first updates the idle statistics (imrsim_dev_idle_update).
IoctlBegin ==
  /\ ioctl = "idle"
  /\ ChangeUnlocked
  /\ ioctl' = "begun"

IoctlQuery ==
  /\ ioctl = "begun"
  /\ ioctl' = "idle"
  /\ UNCHANGED <<memory, store, pending, task, clock, past, clean, restarts>>

\* Set device config (page 0), or set the zone size and reset the zone config.
IoctlConfig ==
  /\ ioctl = "begun"
  /\ LockFree
  /\ \/ Change({0}, FALSE) /\ UNCHANGED configured
     \/ Change(Pages, TRUE) /\ configured' = TRUE
  /\ ioctl' = "raise"
  /\ UNCHANGED <<store, pending, task, clean, restarts>>

IoctlResetStats ==
  /\ ioctl = "begun"
  /\ ChangeUnlocked
  /\ ioctl' = "raise"

\* imrsim_clear_zone_config clears the statistics before it takes the lock.
IoctlClearStats ==
  /\ ioctl = "begun"
  /\ ChangeUnlocked
  /\ ioctl' = "clear"

IoctlClearZones ==
  /\ ioctl = "clear"
  /\ LockFree
  /\ Change(Pages, TRUE)
  /\ configured' = FALSE
  /\ ioctl' = "raise"
  /\ UNCHANGED <<store, pending, task, clean, restarts>>

\* The flag is raised last, without imrsim_zone_lock.
IoctlRaise ==
  /\ ioctl = "raise"
  /\ flag' = flag \cup {"config"}
  /\ ioctl' = "idle"
  /\ UNCHANGED <<memory, store, queue, gap, task, clock, past, clean, restarts>>

-----------------------------------------------------------------------------
(* The persistence task.                                                   *)

Writing(pc) == [pc |-> pc, page |-> 0]
ClearsQueue(t) == t.pc = "save all"

TakeChecksumOnce ==                              \* wrong: not taken again
  clean' = TRUE /\ crc' = IF diskCrc = NoHeader THEN mem ELSE diskCrc
\* The checksum is taken of all of memory when a save or a flush begins.
TakeChecksum == clean' = TRUE /\ crc' = mem

\* imrsim_ptask.flag &= IMR_CONFIG_CHANGE, then the config bit is cleared.
FlushFlags == (flag \cap {"config"}) \ {"config"}

GapReachedLate == gap > PSTORE_PG_GAP            \* wrong
GapReached == gap >= PSTORE_PG_GAP

\* With no zones there is nothing to save: the change is dropped.
TaskDropsChange ==
  /\ task = TaskIdle
  /\ "config" \in flag /\ ~configured
  /\ flag' = {}
  /\ UNCHANGED <<memory, store, queue, gap, task, ioctl, clock, past, clean, restarts>>

TaskBeginSave ==
  /\ task = TaskIdle
  /\ \/ "config" \in flag /\ configured /\ task' = Writing("save config")
     \/ flag # {} /\ "config" \notin flag /\ GapReached /\ task' = Writing("save all")
  /\ TakeChecksum
  /\ UNCHANGED <<memory, disk, diskCrc, diskConfigured, pending, ioctl, clock, past, restarts>>

TaskBeginFlush ==
  /\ task = TaskIdle
  /\ flag # {} /\ "config" \notin flag /\ ~GapReached
  /\ task' = Writing("flush")
  /\ TakeChecksum
  /\ flag' = FlushFlags
  /\ UNCHANGED <<memory, disk, diskCrc, diskConfigured, queue, gap, ioctl, clock, past, restarts>>

\* imrsim_write_page.  Its result is ignored: the task goes on.
WritePage(p) ==
  /\ disk' = [disk EXCEPT ![p] = mem[p]]
  /\ diskCrc' = IF p = 0 THEN crc ELSE diskCrc
  /\ diskConfigured' = IF p = 0 THEN configured ELSE diskConfigured

LastPageWhole(t) ==                              \* wrong: the partial page is left out
  IF t.pc = "flush" THEN 0 ELSE NumPages - 2
LastPageBeyond(t) ==                             \* wrong: one page too many
  IF t.pc = "flush" THEN 0 ELSE NumPages
LastPage(t) == IF t.pc = "flush" THEN 0 ELSE NumPages - 1

Written == task.pc # "idle" /\ task.page > LastPage(task)

TaskWritePage ==
  /\ task.pc # "idle"
  /\ ~Written
  /\ \/ WritePage(task.page) /\ UNCHANGED clean
     \/ IoErrors /\ clean' = FALSE /\ UNCHANGED <<disk, diskCrc, diskConfigured>>
  /\ task' = [task EXCEPT !.page = @ + 1]
  /\ UNCHANGED <<memory, crc, pending, ioctl, clock, past, restarts>>

\* No page could be allocated for a save: nothing is written, but the flags go
\* (a flush returns before it clears them and is begun again).
TaskCannotSave ==
  /\ IoErrors
  /\ task.pc \notin {"idle", "flush"}
  /\ task.page = 0
  /\ clean' = FALSE
  /\ task' = [task EXCEPT !.page = NumPages]
  /\ UNCHANGED <<memory, store, pending, ioctl, clock, past, restarts>>

\* A flush masks the flags twice more before the bits the masks removed are
\* tested: the pages of changed statistics and zones are never written.
FlagsAfter == IF task.pc = "flush" THEN flag \cap {"stats"} \cap {"status"} ELSE {}

TaskDone ==
  /\ Written
  /\ flag' = FlagsAfter
  /\ IF ClearsQueue(task) THEN queue' = <<>> /\ gap' = 0 ELSE UNCHANGED <<queue, gap>>
  /\ task' = TaskIdle
  /\ UNCHANGED <<memory, store, ioctl, clock, past, clean, restarts>>

-----------------------------------------------------------------------------
(* Removal or crash of the target, and its creation over what is on the    *)
(* disk.  A removal saves nothing, so it is no better than a crash.        *)

LoadableUnchecked == diskCrc # NoHeader          \* wrong: the checksum is ignored
Loadable == diskCrc = disk

Load ==
  /\ configured' = (Loadable => diskConfigured)
  /\ mem' = IF Loadable THEN disk ELSE Default
  /\ tail' = IF Loadable THEN 0 ELSE 1
  /\ past' = past \cup {mem'}

Restart ==
  /\ restarts < MaxRestarts
  /\ restarts' = restarts + 1
  /\ Load
  /\ flag' = {} /\ queue' = <<>> /\ gap' = 0
  /\ ioctl' = "idle"
  /\ clean' = TRUE
  /\ crc' = mem'
  /\ task' = IF Loadable THEN TaskIdle ELSE [pc |-> "create", page |-> 0]
  /\ UNCHANGED <<disk, diskCrc, diskConfigured, clock>>

Init ==
  /\ mem = Default /\ tail = 1 /\ configured = TRUE
  /\ crc = mem
  /\ disk = Blank /\ diskCrc = NoHeader /\ diskConfigured = TRUE
  /\ flag = {} /\ queue = <<>> /\ gap = 0
  /\ task = [pc |-> "create", page |-> 0]
  /\ ioctl = "idle"
  /\ clock = 1 /\ past = {Default} /\ clean = TRUE /\ restarts = 0

TaskNext ==
  \/ TaskDropsChange \/ TaskBeginSave \/ TaskBeginFlush
  \/ TaskWritePage \/ TaskCannotSave \/ TaskDone

IoctlNext ==
  \/ IoctlBegin \/ IoctlQuery \/ IoctlConfig \/ IoctlResetStats
  \/ IoctlClearStats \/ IoctlClearZones \/ IoctlRaise

HostNext ==
  \/ \E z \in Zones : HostWrite(z) \/ HostUnflagged(z) \/ HostDiscard(z)
  \/ HostRejected

Next == TaskNext \/ IoctlNext \/ HostNext \/ Restart

Spec == Init /\ [][Next]_vars

\* The task is a kernel thread: it wakes up every second, and disk writes end.
Fairness ==
  /\ WF_vars(TaskDropsChange \/ TaskBeginSave \/ TaskBeginFlush)
  /\ WF_vars(TaskWritePage) /\ WF_vars(TaskDone)

FairSpec == Spec /\ Fairness

-----------------------------------------------------------------------------
(* Properties.                                                             *)

\* The types of the variables: the task never goes past the last page of the
\* state, and the checksum is one of a whole state.
TypeOK ==
  /\ mem \in [Pages -> Nat] /\ tail \in Nat /\ configured \in BOOLEAN
  /\ crc \in [Pages -> Nat]
  /\ disk \in [Pages -> Nat] /\ diskConfigured \in BOOLEAN
  /\ diskCrc \in {NoHeader} \cup [Pages -> Nat]
  /\ flag \subseteq {"config", "stats", "status"}
  /\ queue \in Seq(Zones) /\ gap \in 0..PSTORE_PG_GAP
  /\ task \in {TaskIdle}
       \cup [pc : {"create", "save config", "save all", "flush"}, page : 0..NumPages]
  /\ ioctl \in {"idle", "begun", "clear", "raise"}
  /\ clock \in Nat /\ past \subseteq [Pages -> Nat]
  /\ clean \in BOOLEAN /\ restarts \in Nat

Current == Loadable /\ disk = mem

\* A reload never mixes two states, wherever the writing of the pages was cut
\* off, whichever of the writes failed and whatever changed meanwhile: what the
\* checksum lets through is a state that memory was in at one moment.
LoadIsPast == Loadable => disk \in past

\* A save that nothing disturbs leaves on the disk exactly what memory holds.
SaveIsCurrent ==
  Written /\ task.pc # "flush" /\ clean => Current

\* The fixed-size queue of zones never overflows, and no two of its entries lie
\* so close that one write of their pages would serve both.
QueueBounded ==
  /\ Len(queue) <= PSTORE_QDEPTH
  /\ \A i, j \in DOMAIN queue : i # j => Distance(queue[i], queue[j]) > PSTORE_PG_EDG

\* A config change whose flag is raised while no flush is running reaches the
\* disk, unless the save is disturbed or the zone config has been cleared.
ConfigReachesDisk ==
  ("config" \in flag /\ task.pc # "flush") ~> (Current \/ ~clean \/ ~configured)

\* Once the queue is full the next write makes the task save the whole state.
FullQueueIsSaved ==
  gap >= PSTORE_PG_GAP ~> (Current \/ ~clean \/ ~configured)

\* "Handling of disk state changes." (imrsim_flush_persistence): when no change
\* is pending any more, the pages of the queued zones have been written.
StatusIsFlushed ==
  task = TaskIdle /\ flag = {} =>
    \A i \in DOMAIN queue : \A p \in MapPages[queue[i]] : disk[p] = mem[p]
===============================================================================
