--------------------------- MODULE ImrPersistProofs ---------------------------
(***************************************************************************)
(* Proofs about ImrPersist for every number of pages and zones, every      *)
(* layout of the zones over the pages and every depth of the queue, with   *)
(* failing writes and restarts at any moment.                              *)
(***************************************************************************)
EXTENDS ImrPersist, TLAPS

States == [Pages -> Nat]
Tasks == [pc : {"create", "save config", "save all", "flush"}, page : 0..NumPages]

\* Every checksum, in memory or on the disk, is one of a past state.
ChecksumsPast ==
  /\ mem \in past
  /\ crc \in past
  /\ diskCrc # NoHeader => diskCrc \in past

\* The pages an undisturbed save has written are those of memory.
SaveProgress ==
  task.pc \notin {"idle", "flush"} /\ clean =>
    /\ crc = mem
    /\ \A p \in Pages : p < task.page => disk[p] = mem[p]
    /\ task.page > 0 => diskCrc = crc

IInv == TypeOK /\ ChecksumsPast /\ SaveProgress /\ QueueBounded

-----------------------------------------------------------------------------
LEMMA PagesFacts == Pages # {} /\ 0 \in Pages /\ NumPages \in Nat /\ NumPages >= 1
  BY SizesAssumption DEF Pages

\* A state is never mistaken for a missing header.
LEMMA StateHasPages == \A s \in States : s # NoHeader
<1>1. SUFFICES ASSUME NEW s \in States, s = <<>> PROVE FALSE
  BY DEF NoHeader
<1>2. DOMAIN s = Pages
  BY DEF States
<1>3. DOMAIN <<>> = {}
  OBVIOUS
<1> QED
  BY <1>1, <1>2, <1>3, PagesFacts

\* A change of pages yields a state, which becomes one of the past states.
LEMMA ChangeTyped ==
  ASSUME TypeOK, NEW ps, NEW t, Change(ps, t)
  PROVE  /\ mem' \in States /\ tail' \in Nat /\ clock' \in Nat
         /\ past' = past \cup {mem'} /\ past' \subseteq States
<1>1. mem \in States /\ tail \in Nat /\ clock \in Nat /\ past \subseteq States
  BY DEF TypeOK, States
<1>2. clock' \in Nat /\ tail' \in Nat /\ clock + 1 \in Nat /\ past' = past \cup {mem'}
  BY <1>1 DEF Change
<1>3. mem' = [p \in Pages |-> IF p \in ps THEN clock + 1 ELSE mem[p]]
  BY DEF Change
<1>4. mem' \in States
  BY <1>1, <1>2, <1>3 DEF States
<1> QED
  BY <1>1, <1>2, <1>4

\* While the task is at work its state has a page.
LEMMA TaskTyped ==
  ASSUME TypeOK, task.pc # "idle" PROVE task \in Tasks
<1>1. task \in {TaskIdle} \cup Tasks
  BY DEF TypeOK, Tasks
<1>2. task # TaskIdle
  BY DEF TaskIdle
<1> QED
  BY <1>1, <1>2

\* imrsim_ptask_gap_ok finds the zone that was just queued: the gap never grows.
LEMMA GapOfQueued ==
  ASSUME NEW q \in Seq(Zones), NEW z \in Zones PROVE GapOk(Append(q, z), z)
<1>1. PSTORE_PG_GAP * PSTORE_PG_EDG \in Nat
  BY QueueAssumption
<1>2. Distance(z, z) = 0
  BY SizesAssumption DEF Distance, Zones
<1>3. Len(q) + 1 \in DOMAIN Append(q, z) /\ Append(q, z)[Len(q) + 1] = z
  OBVIOUS
<1> QED
  BY <1>1, <1>2, <1>3 DEF GapOk

LEMMA QueueKept ==
  ASSUME TypeOK, QueueBounded, NEW z \in Zones, QueueZone(z)
  PROVE  queue' \in Seq(Zones) /\ gap' \in 0..PSTORE_PG_GAP /\ QueueBounded'
<1> /\ queue \in Seq(Zones) /\ gap \in 0..PSTORE_PG_GAP
    /\ Len(queue) <= PSTORE_QDEPTH
    /\ PSTORE_PG_GAP \in Nat /\ PSTORE_QDEPTH \in Nat
  BY QueueAssumption DEF TypeOK, QueueBounded
<1>1. CASE Len(queue) = PSTORE_QDEPTH
  <2>1. queue' = queue /\ gap' = PSTORE_PG_GAP
    BY <1>1 DEF QueueZone
  <2> QED
    BY <2>1 DEF QueueBounded
<1>2. CASE Len(queue) # PSTORE_QDEPTH /\ ~QueueOk(queue, z)
  <2>1. queue' = queue /\ gap' = gap
    BY <1>2 DEF QueueZone
  <2> QED
    BY <2>1 DEF QueueBounded
<1>3. CASE Len(queue) # PSTORE_QDEPTH /\ QueueOk(queue, z)
  <2>1. queue' = Append(queue, z) /\ gap' = gap
    BY <1>3, GapOfQueued DEF QueueZone
  <2>2. queue' \in Seq(Zones) /\ Len(queue') <= PSTORE_QDEPTH
    <3>1. Len(queue) \in Nat /\ Len(queue) < PSTORE_QDEPTH
      BY <1>3
    <3> QED
      BY <2>1, <3>1
  <2>3. ASSUME NEW i \in DOMAIN queue', NEW j \in DOMAIN queue', i # j
        PROVE  Distance(queue'[i], queue'[j]) > PSTORE_PG_EDG
    <3>1. \A a, b \in Zones : Distance(a, b) = Distance(b, a)
      BY SizesAssumption DEF Distance, Zones
    <3>2. queue \in Seq(Zones)
      BY DEF TypeOK
    <3>3. CASE i \in DOMAIN queue /\ j \in DOMAIN queue
      BY <2>1, <2>3, <3>2, <3>3 DEF QueueBounded
    <3>4. CASE i = Len(queue) + 1
      BY <1>3, <2>1, <2>3, <3>2, <3>4 DEF QueueOk
    <3>5. CASE j = Len(queue) + 1
      BY <1>3, <2>1, <2>3, <3>1, <3>2, <3>5 DEF QueueOk
    <3> QED
      BY <2>1, <2>3, <3>2, <3>3, <3>4, <3>5
  <2> QED
    BY <2>1, <2>2, <2>3 DEF QueueBounded, TypeOK
<1> QED
  BY <1>1, <1>2, <1>3

-----------------------------------------------------------------------------
(* The invariant.                                                          *)

LEMMA InitInv == Init => IInv
<1> SUFFICES ASSUME Init PROVE IInv
  OBVIOUS
<1>1. TypeOK
  BY PagesFacts, QueueAssumption DEF Init, TypeOK, Blank, Default, NoHeader
<1>2. ChecksumsPast /\ SaveProgress
  BY PagesFacts DEF Init, ChecksumsPast, SaveProgress, Pages
<1>3. QueueBounded
  BY QueueAssumption DEF Init, QueueBounded
<1> QED
  BY <1>1, <1>2, <1>3 DEF IInv

\* A request changes memory only while the task does not hold the lock.
LEMMA HostStep ==
  ASSUME IInv, HostNext PROVE IInv'
<1>1. /\ task.pc = "idle" /\ UNCHANGED <<configured, store, task, ioctl, clean, restarts>>
      /\ \E ps, t : Change(ps, t)
      /\ flag' \subseteq {"config", "stats", "status"}
      /\ UNCHANGED <<queue, gap>> \/ \E z \in Zones : QueueZone(z)
  BY DEF HostNext, HostWrite, HostUnflagged, HostDiscard, HostRejected, LockFree,
     TaskHoldsLock, Running, ChangeZone, pending, IInv, TypeOK
<1>2. /\ mem' \in States /\ tail' \in Nat /\ clock' \in Nat
      /\ past' = past \cup {mem'} /\ past' \subseteq States
  BY <1>1, ChangeTyped DEF IInv
<1>3. queue' \in Seq(Zones) /\ gap' \in 0..PSTORE_PG_GAP /\ QueueBounded'
  BY <1>1, QueueKept DEF IInv, TypeOK, QueueBounded
<1>4. TypeOK'
  BY <1>1, <1>2, <1>3 DEF IInv, TypeOK, store, States
<1>5. ChecksumsPast' /\ SaveProgress'
  BY <1>1, <1>2 DEF IInv, ChecksumsPast, SaveProgress, store
<1> QED
  BY <1>3, <1>4, <1>5 DEF IInv

\* What an ioctl changes without the lock disturbs the save under way.
LEMMA UnlockedStep ==
  ASSUME IInv, ChangeUnlocked, ioctl' \in {"idle", "begun", "clear", "raise"} PROVE IInv'
<1>1. /\ mem' \in States /\ tail' \in Nat /\ clock' \in Nat
      /\ past' = past \cup {mem'} /\ past' \subseteq States
  BY ChangeTyped DEF IInv, ChangeUnlocked
<1>2. TypeOK'
  BY <1>1 DEF IInv, TypeOK, ChangeUnlocked, store, pending, States
<1>3. ChecksumsPast' /\ SaveProgress' /\ QueueBounded'
  BY <1>1 DEF IInv, ChecksumsPast, SaveProgress, QueueBounded, ChangeUnlocked,
     TaskHoldsLock, Running, store, pending
<1> QED
  BY <1>2, <1>3 DEF IInv

LEMMA IoctlStep ==
  ASSUME IInv, IoctlNext PROVE IInv'
<1>1. CASE IoctlBegin \/ IoctlResetStats \/ IoctlClearStats
  BY <1>1, UnlockedStep DEF IoctlBegin, IoctlResetStats, IoctlClearStats
<1>2. CASE IoctlQuery \/ IoctlRaise
  <2>1. /\ UNCHANGED <<memory, store, queue, gap, task, clock, past, clean, restarts>>
        /\ ioctl' = "idle" /\ flag' \subseteq flag \cup {"config"}
    BY <1>2 DEF IoctlQuery, IoctlRaise, pending
  <2>2. TypeOK'
    BY <2>1 DEF IInv, TypeOK, memory, store
  <2>3. ChecksumsPast' /\ SaveProgress' /\ QueueBounded'
    BY <2>1 DEF IInv, ChecksumsPast, SaveProgress, QueueBounded, memory, store
  <2> QED
    BY <2>2, <2>3 DEF IInv
<1>3. CASE IoctlConfig \/ IoctlClearZones
  <2>1. /\ \E ps, t : Change(ps, t)
        /\ task.pc = "idle" /\ configured' \in BOOLEAN /\ ioctl' = "raise"
        /\ UNCHANGED <<store, pending, task, clean, restarts>>
    BY <1>3 DEF IoctlConfig, IoctlClearZones, LockFree, TaskHoldsLock, Running, IInv, TypeOK
  <2>2. /\ mem' \in States /\ tail' \in Nat /\ clock' \in Nat
        /\ past' = past \cup {mem'} /\ past' \subseteq States
    BY <2>1, ChangeTyped DEF IInv
  <2>3. TypeOK'
    BY <2>1, <2>2 DEF IInv, TypeOK, store, pending, States
  <2>4. ChecksumsPast' /\ SaveProgress' /\ QueueBounded'
    BY <2>1, <2>2 DEF IInv, ChecksumsPast, SaveProgress, QueueBounded, store, pending
  <2> QED
    BY <2>3, <2>4 DEF IInv
<1> QED
  BY <1>1, <1>2, <1>3 DEF IoctlNext

LEMMA BeginStep ==
  ASSUME IInv, TaskDropsChange \/ TaskBeginSave \/ TaskBeginFlush PROVE IInv'
<1>1. CASE TaskDropsChange
  BY <1>1 DEF TaskDropsChange, IInv, TypeOK, ChecksumsPast, SaveProgress, QueueBounded,
     memory, store
<1>2. CASE TaskBeginSave \/ TaskBeginFlush
  <2>1. /\ crc' = mem /\ clean' = TRUE
        /\ task' \in Tasks /\ task'.page = 0
        /\ flag' \subseteq flag
        /\ UNCHANGED <<memory, disk, diskCrc, diskConfigured, queue, gap, ioctl, clock, past, restarts>>
    <3>1. /\ \E pc \in {"save config", "save all", "flush"} : task' = [pc |-> pc, page |-> 0]
          /\ flag' = flag \/ flag' = (flag \cap {"config"}) \ {"config"}
          /\ crc' = mem /\ clean' = TRUE
          /\ UNCHANGED <<memory, disk, diskCrc, diskConfigured, queue, gap, ioctl, clock, past, restarts>>
      BY <1>2 DEF TaskBeginSave, TaskBeginFlush, TakeChecksum, Writing, FlushFlags, pending
    <3>2. 0 \in 0..NumPages
      BY PagesFacts
    <3>3. task' \in Tasks /\ task'.page = 0
      <4>1. PICK pc \in {"save config", "save all", "flush"} : task' = [pc |-> pc, page |-> 0]
        BY <3>1
      <4> QED
        BY <4>1, <3>2 DEF Tasks
    <3> QED
      BY <3>1, <3>3
  <2>2. TypeOK'
    BY <2>1 DEF IInv, TypeOK, Tasks, memory
  <2>3. ChecksumsPast' /\ SaveProgress' /\ QueueBounded'
    BY <2>1, PagesFacts DEF IInv, ChecksumsPast, SaveProgress, QueueBounded, memory, Pages
  <2> QED
    BY <2>2, <2>3 DEF IInv
<1> QED
  BY <1>1, <1>2

LEMMA WriteStep ==
  ASSUME IInv, TaskWritePage PROVE IInv'
<1>1. task \in Tasks /\ task.page \in Pages
  <2>1. task \in Tasks
    BY TaskTyped DEF IInv, TaskWritePage
  <2>2. task.page \in 0..NumPages /\ ~(task.page > LastPage(task))
    BY <2>1 DEF TaskWritePage, Written, Tasks
  <2> QED
    BY <2>1, <2>2, PagesFacts DEF LastPage, Pages
<1>2. /\ task' \in Tasks /\ task'.page = task.page + 1 /\ task'.pc = task.pc
      /\ UNCHANGED <<memory, crc, pending, ioctl, clock, past, restarts>>
  <2>1. task' = [task EXCEPT !.page = task.page + 1]
    BY DEF TaskWritePage
  <2>2. task.page + 1 \in 0..NumPages
    BY <1>1, PagesFacts DEF Pages
  <2> QED
    BY <1>1, <2>1, <2>2 DEF TaskWritePage, Tasks
<1>3. \/ WritePage(task.page) /\ clean' = clean
      \/ clean' = FALSE /\ UNCHANGED <<disk, diskCrc, diskConfigured>>
  BY DEF TaskWritePage
<1>4. TypeOK'
  BY <1>1, <1>2, <1>3 DEF IInv, TypeOK, WritePage, Tasks, memory, pending
<1>5. ChecksumsPast' /\ QueueBounded'
  BY <1>2, <1>3 DEF IInv, ChecksumsPast, QueueBounded, WritePage, memory, pending
<1>6. SaveProgress'
  <2> SUFFICES ASSUME WritePage(task.page), clean, task.pc \notin {"idle", "flush"}
               PROVE  SaveProgress'
    BY <1>2, <1>3 DEF SaveProgress
  <2>1. disk' = [disk EXCEPT ![task.page] = mem[task.page]] /\ disk \in States /\ mem' = mem
    BY <1>2 DEF WritePage, IInv, TypeOK, States, memory
  <2>2. \A p \in Pages : p < task.page + 1 => disk'[p] = mem[p]
    BY <1>1, <2>1 DEF SaveProgress, IInv, States, Pages
  <2>3. diskCrc' = crc /\ crc' = crc /\ crc = mem
    BY <1>1, <1>2 DEF WritePage, SaveProgress, IInv, Pages
  <2> QED
    BY <1>2, <2>1, <2>2, <2>3 DEF SaveProgress
<1> QED
  BY <1>4, <1>5, <1>6 DEF IInv

LEMMA EndStep ==
  ASSUME IInv, TaskCannotSave \/ TaskDone PROVE IInv'
<1>1. CASE TaskCannotSave
  <2>1. task' \in Tasks /\ clean' = FALSE
    <3>1. task \in Tasks /\ task' = [task EXCEPT !.page = NumPages] /\ clean' = FALSE
      BY <1>1, TaskTyped DEF TaskCannotSave, IInv
    <3>2. NumPages \in 0..NumPages
      BY PagesFacts
    <3> QED
      BY <3>1, <3>2 DEF Tasks
  <2>2. UNCHANGED <<memory, store, pending, ioctl, clock, past, restarts>>
    BY <1>1 DEF TaskCannotSave
  <2>3. TypeOK'
    BY <2>1, <2>2 DEF IInv, TypeOK, Tasks, memory, store, pending
  <2>4. ChecksumsPast' /\ SaveProgress' /\ QueueBounded'
    BY <2>1, <2>2 DEF IInv, ChecksumsPast, SaveProgress, QueueBounded, memory, store, pending
  <2> QED
    BY <2>3, <2>4 DEF IInv
<1>2. CASE TaskDone
  <2>1. QueueBounded' /\ queue' \in Seq(Zones) /\ gap' \in 0..PSTORE_PG_GAP
    <3>1. CASE queue' = <<>> /\ gap' = 0
      BY <3>1, QueueAssumption DEF QueueBounded
    <3>2. CASE queue' = queue /\ gap' = gap
      BY <3>2 DEF IInv, TypeOK, QueueBounded
    <3> QED
      BY <1>2, <3>1, <3>2 DEF TaskDone
  <2>2. flag' \subseteq flag
    BY <1>2 DEF TaskDone, FlagsAfter
  <2> QED
    BY <1>2, <2>1, <2>2 DEF TaskDone, TaskIdle, IInv, TypeOK, ChecksumsPast, SaveProgress,
       memory, store
<1> QED
  BY <1>1, <1>2

LEMMA RestartStep ==
  ASSUME IInv, Restart PROVE IInv'
<1>1. mem' \in States /\ past' = past \cup {mem'} /\ crc' = mem'
  BY DEF Restart, Load, IInv, TypeOK, Default, States
<1>2. TypeOK'
  <2>1. configured' \in BOOLEAN
    <3>1. configured' = (Loadable => diskConfigured)
      BY DEF Restart, Load
    <3> QED
      BY <3>1, Zenon
  <2>2. /\ tail' \in Nat /\ restarts' \in Nat
        /\ flag' = {} /\ queue' = <<>> /\ gap' = 0 /\ ioctl' = "idle" /\ clean' = TRUE
        /\ UNCHANGED <<disk, diskCrc, diskConfigured, clock>>
    <3>1. tail' = IF Loadable THEN 0 ELSE 1
      BY DEF Restart, Load
    <3>2. restarts' = restarts + 1 /\ restarts \in Nat
      BY DEF Restart, IInv, TypeOK
    <3>3. /\ flag' = {} /\ queue' = <<>> /\ gap' = 0 /\ ioctl' = "idle" /\ clean' = TRUE
          /\ UNCHANGED <<disk, diskCrc, diskConfigured, clock>>
      BY DEF Restart
    <3> QED
      BY <3>1, <3>2, <3>3
  <2>3. task' \in {TaskIdle} \cup Tasks
    BY PagesFacts DEF Restart, Tasks
  <2>4. <<>> \in Seq(Zones) /\ 0 \in 0..PSTORE_PG_GAP
    BY QueueAssumption
  <2> QED
    BY <1>1, <2>1, <2>2, <2>3, <2>4 DEF IInv, TypeOK, States, Tasks
<1>3. ChecksumsPast' /\ SaveProgress'
  BY <1>1, PagesFacts DEF Restart, Load, IInv, ChecksumsPast, SaveProgress, TaskIdle, Pages
<1>4. QueueBounded'
  BY QueueAssumption DEF Restart, QueueBounded
<1> QED
  BY <1>2, <1>3, <1>4 DEF IInv

LEMMA StepInv == IInv /\ [Next]_vars => IInv'
<1> SUFFICES ASSUME IInv, [Next]_vars PROVE IInv'
  OBVIOUS
<1>1. CASE UNCHANGED vars
  BY <1>1 DEF vars, memory, store, pending, IInv, TypeOK, ChecksumsPast, SaveProgress,
     QueueBounded
<1> QED
  BY <1>1, HostStep, IoctlStep, BeginStep, WriteStep, EndStep, RestartStep
     DEF Next, TaskNext

LEMMA InvCorrect == Spec => []IInv
  BY InitInv, StepInv, PTL DEF Spec

-----------------------------------------------------------------------------
\* The variables keep their types: the task writes no page behind the state.
THEOREM PersistTypeCorrect == Spec => []TypeOK
<1>1. IInv => TypeOK
  BY DEF IInv
<1> QED
  BY <1>1, InvCorrect, PTL

\* Whatever writes fail and wherever a crash cuts a save or a flush off, a
\* reload accepts nothing but a state memory was in at one moment.
THEOREM ReloadsArePast == Spec => []LoadIsPast
<1>1. IInv => LoadIsPast
  <2> SUFFICES ASSUME IInv, Loadable PROVE disk \in past
    BY DEF LoadIsPast
  <2>1. disk # NoHeader
    BY StateHasPages DEF IInv, TypeOK, States
  <2> QED
    BY <2>1 DEF Loadable, IInv, ChecksumsPast
<1> QED
  BY <1>1, InvCorrect, PTL

\* A save that nothing disturbs puts exactly what memory holds on the disk, for
\* every number of pages, the partial last one included.
THEOREM SavesAreCurrent == Spec => []SaveIsCurrent
<1>1. IInv => SaveIsCurrent
  <2> SUFFICES ASSUME IInv, Written, task.pc # "flush", clean PROVE Current
    BY DEF SaveIsCurrent
  <2>1. task \in Tasks /\ task.page = NumPages
    <3>1. task \in Tasks
      BY TaskTyped DEF IInv, Written
    <3>2. task.page \in 0..NumPages /\ task.page > NumPages - 1
      BY <3>1 DEF Written, LastPage, Tasks
    <3> QED
      BY <3>1, <3>2, PagesFacts
  <2>2. /\ crc = mem /\ diskCrc = crc
        /\ \A p \in Pages : disk[p] = mem[p]
    BY <2>1, PagesFacts DEF IInv, SaveProgress, Written, Pages
  <2>3. disk = mem
    <3>1. disk \in [Pages -> Nat] /\ mem \in [Pages -> Nat]
      BY DEF IInv, TypeOK
    <3> QED
      BY <2>2, <3>1
  <2> QED
    BY <2>2, <2>3 DEF Current, Loadable
<1> QED
  BY <1>1, InvCorrect, PTL

\* The queue of zones stays within its fixed depth, its entries far apart.
THEOREM QueueStaysBounded == Spec => []QueueBounded
<1>1. IInv => QueueBounded
  BY DEF IInv
<1> QED
  BY <1>1, InvCorrect, PTL
===============================================================================
