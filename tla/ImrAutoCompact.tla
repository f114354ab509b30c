---------------------------- MODULE ImrAutoCompact ---------------------------
(***************************************************************************)
(* Which zone is compacted, and when: the candidate that a write to a full *)
(* zone records, the pending auto-run it leaves behind, the workqueue item *)
(* that end_io queues for it, the debugfs files that seed a zone, compact  *)
(* one and switch auto-run on and off, and the ioctls that reset the zones.*)
(*                                                                         *)
(* Every action but EndIo and Dequeue runs under imrsim_zone_lock.  EndIo  *)
(* runs in interrupt context without any lock.                             *)
(***************************************************************************)
EXTENDS Naturals

CONSTANTS NumZones,   \* IMR_NUMZONES
          MaxBios,    \* bound: writes in flight
          WriteErrors,\* may writes fail on the disk?
          AllocFails  \* may a reset find no memory?

Zones == 0..(NumZones - 1)
NoZone == NumZones                          \* IMR_LSM_ZONE_COMPACTION_NONE

ASSUME AutoAssumption == NumZones \in Nat \ {0} /\ MaxBios \in Nat
                         /\ {WriteErrors, AllocFails} \subseteq BOOLEAN

VARIABLES
  size,       \* z_map_size of each zone: "empty", "partial" or "full"
  autoRun,    \* zone_compaction_auto_run
  candidate,  \* stats.zone_compaction_candidate_zone
  ready,      \* stats.zone_compaction_candidate_ready
  pending,    \* zone_compaction_auto_pending_zone, NoZone if nothing is pending
  work,       \* imr_lsm_zone_compaction_work: is it queued?
  running,    \* its function has been dequeued and waits for the locks
  bios,       \* writes in flight
  failed,     \* history: a write has failed since the work was last queued
  locked,     \* imrsim_zone_lock is held for ever
  stale       \* history: the zones were reset since the candidate was recorded

vars == <<size, autoRun, candidate, ready, pending, work, running, bios, failed,
          locked, stale>>

-----------------------------------------------------------------------------
NextEmpty(z) == z + 1 \in Zones /\ size[z + 1] = "empty"

\* imr_lsm_record_zone_compaction_candidate_locked
Record(z) ==
  IF size'[z] = "full"
  THEN candidate' = z /\ ready' = NextEmpty(z) /\ stale' = FALSE
  ELSE UNCHANGED <<candidate, ready, stale>>

\* imr_lsm_defer_zone_compaction_auto_run_locked: may the zone become pending?
Defers(z) == autoRun' /\ candidate' = z /\ ready' /\ pending # z

\* imr_lsm_queue_zone_compaction_auto_work: queueing it twice queues it once.
QueueNever(b) == UNCHANGED <<work, failed>> \* wrong: left to the next write
Queue(b) == work' = (work \/ b) /\ failed' = (failed /\ ~b)

\* A write fills a zone step by step, or updates a key of a full one.
HostWrite(z) ==
  /\ ~locked /\ bios < MaxBios
  /\ \E s \in (IF size[z] = "full" THEN {"full"} ELSE {"partial", "full"}) :
       size' = [size EXCEPT ![z] = s]
  /\ Record(z)
  /\ pending' = IF autoRun /\ candidate' = z /\ ready' THEN z ELSE pending
  /\ bios' = bios + 1
  /\ UNCHANGED <<autoRun, work, running, failed, locked>>

\* A write completes; only after a successful one is the work queued.
EndIo ==
  /\ bios > 0
  /\ bios' = bios - 1
  /\ \/ Queue(pending # NoZone)
     \/ WriteErrors /\ failed' = TRUE /\ UNCHANGED work
  /\ UNCHANGED <<size, autoRun, candidate, ready, pending, running, locked, stale>>

-----------------------------------------------------------------------------
(* imr_lsm_compact_zone_locked, as far as the choice of zones goes.        *)

CanCompact(z) == size[z] = "full" /\ NextEmpty(z)

KeepPending(z) == pending                   \* wrong: the zone stays pending
KeepCandidate(z) == candidate               \* wrong: the zone stays the candidate
ClearCandidate(z) == IF candidate = z THEN NoZone ELSE candidate
ClearPending(z) == IF pending = z THEN NoZone ELSE pending

\* The blocks move to the bottom tracks of z and, if they do not fit, of z + 1,
\* and the zone stops being the candidate (if it is).
CompactDone(z) ==
  /\ \E s \in {"empty", "partial"} :
       size' = [size EXCEPT ![z] = "partial", ![z + 1] = s]
  /\ candidate' = ClearCandidate(z)
  /\ ready' = (ready /\ candidate # z)
  /\ stale' = (stale /\ candidate # z)

\* The work function.  It takes the zone off pending whatever then happens.
Dequeue ==
  /\ work /\ ~running
  /\ work' = FALSE /\ running' = TRUE
  /\ UNCHANGED <<size, autoRun, candidate, ready, pending, bios, failed, locked, stale>>

WorkCompacts ==
  /\ running /\ ~locked
  /\ autoRun /\ pending # NoZone
  /\ candidate = pending /\ ready /\ CanCompact(pending)
  /\ CompactDone(pending)
  /\ pending' = ClearPending(pending)
  /\ running' = FALSE
  /\ UNCHANGED <<autoRun, work, bios, failed, locked>>

\* Nothing is pending, the candidate has changed, or the compaction fails (an
\* I/O or allocation failure, no live block, or the next zone is in use by now).
WorkEndsWithout ==
  /\ running /\ ~locked
  /\ pending' = IF autoRun THEN ClearPending(pending) ELSE pending
  /\ running' = FALSE
  /\ UNCHANGED <<size, autoRun, candidate, ready, work, bios, failed, locked, stale>>

-----------------------------------------------------------------------------
(* debugfs.                                                                *)

CompactManually(z) ==
  /\ ~locked /\ CanCompact(z)
  /\ CompactDone(z)
  /\ pending' = IF candidate = z THEN ClearPending(z) ELSE pending
  /\ UNCHANGED <<autoRun, work, running, bios, failed, locked>>

SeedFullZone(z) ==
  /\ ~locked
  /\ size' = [size EXCEPT ![z] = "full"]
  /\ Record(z)
  /\ UNCHANGED <<autoRun, running, bios, locked>>
  /\ pending' = IF Defers(z) THEN z ELSE pending
  /\ Queue(Defers(z))

EnableAutoRun ==
  /\ ~locked
  /\ autoRun' = TRUE
  /\ UNCHANGED <<size, candidate, ready, running, bios, locked, stale>>
  /\ pending' = IF candidate # NoZone /\ Defers(candidate) THEN candidate ELSE pending
  /\ Queue(candidate # NoZone /\ Defers(candidate))

PendingKept == pending                      \* wrong: the pending zone stays
PendingDropped == NoZone

DisableAutoRun ==
  /\ ~locked
  /\ autoRun' = FALSE
  /\ pending' = PendingDropped
  /\ UNCHANGED <<size, candidate, ready, work, running, bios, failed, locked, stale>>

-----------------------------------------------------------------------------
(* Ioctls.                                                                 *)

\* The zones are reset, with the size they have: the candidate and what is
\* pending belong to the index, which is left alone.
ResetZones ==
  /\ ~locked
  /\ size' = [z \in Zones |-> "empty"]
  /\ stale' = (candidate # NoZone)
  /\ UNCHANGED <<autoRun, candidate, ready, pending, work, running, bios, failed, locked>>

\* imrsim_reset_default_zone_config finds no memory and returns with the lock.
ResetZonesFails ==
  /\ ~locked /\ AllocFails
  /\ locked' = TRUE
  /\ UNCHANGED <<size, autoRun, candidate, ready, pending, work, running, bios, failed, stale>>

-----------------------------------------------------------------------------
Init ==
  /\ size = [z \in Zones |-> "empty"]
  /\ autoRun = FALSE
  /\ candidate = NoZone /\ ready = FALSE /\ pending = NoZone
  /\ work = FALSE /\ running = FALSE
  /\ bios = 0
  /\ failed = FALSE /\ locked = FALSE /\ stale = FALSE

DebugfsNext ==
  \/ \E z \in Zones : CompactManually(z) \/ SeedFullZone(z)
  \/ EnableAutoRun \/ DisableAutoRun

Next ==
  \/ \E z \in Zones : HostWrite(z)
  \/ EndIo \/ Dequeue \/ WorkCompacts \/ WorkEndsWithout
  \/ DebugfsNext
  \/ ResetZones \/ ResetZonesFails

Spec == Init /\ [][Next]_vars

\* Disk writes complete, and the workqueue runs what is queued on it.
Fairness == WF_vars(EndIo) /\ WF_vars(Dequeue) /\ WF_vars(WorkCompacts \/ WorkEndsWithout)
FairSpec == Spec /\ Fairness

-----------------------------------------------------------------------------
(* Properties.                                                             *)

\* The types of the variables.
TypeOK ==
  /\ size \in [Zones -> {"empty", "partial", "full"}]
  /\ autoRun \in BOOLEAN /\ ready \in BOOLEAN
  /\ candidate \in Zones \cup {NoZone} /\ pending \in Zones \cup {NoZone}
  /\ work \in BOOLEAN /\ running \in BOOLEAN
  /\ bios \in 0..MaxBios
  /\ failed \in BOOLEAN /\ locked \in BOOLEAN /\ stale \in BOOLEAN

\* The recorded candidate is a full zone, however compactions asked for by hand
\* and by auto-run follow each other, and a ready one has a zone after it.  Only
\* a reset of the zones leaves a candidate that is not full any more.
CandidateIsFull ==
  candidate # NoZone /\ ~stale =>
    size[candidate] = "full" /\ (ready => candidate + 1 \in Zones)

\* Only what auto-run is still switched on for is pending: a compaction nobody
\* wants any more never starts, though its work may already be queued.
PendingIsWanted == pending # NoZone => autoRun

\* A pending auto-run is never stranded: something will look at it, either the
\* work, or the end of a write still in flight.  Only a write that fails on the
\* disk leaves it to a later one.
PendingIsWatched == pending # NoZone => work \/ running \/ bios > 0 \/ failed

\* A pending auto-run is taken up, whatever was queued or running before and
\* however the zones are reset meanwhile, unless a write fails or a reset has
\* kept imrsim_zone_lock: then the work waits for the lock for ever.
PendingIsServed == pending # NoZone ~> pending = NoZone \/ failed \/ locked
===============================================================================
