------------------------- MODULE ImrAutoCompactProofs -------------------------
(***************************************************************************)
(* Proofs about ImrAutoCompact for every number of zones and of writes in  *)
(* flight, with and without failing writes and resets.                     *)
(***************************************************************************)
EXTENDS ImrAutoCompact, TLAPS

IInv == TypeOK /\ CandidateIsFull /\ PendingIsWanted

-----------------------------------------------------------------------------
LEMMA ZonesFacts == NoZone \notin Zones /\ NoZone \in Nat /\ \A z \in Zones : z \in Nat
  BY AutoAssumption DEF NoZone, Zones

LEMMA InitInv == Init => IInv
<1> SUFFICES ASSUME Init PROVE IInv
  OBVIOUS
<1>1. size \in [Zones -> {"empty", "partial", "full"}]
  BY DEF Init
<1>2. bios \in 0..MaxBios
  BY AutoAssumption DEF Init
<1> QED
  BY <1>1, <1>2 DEF Init, IInv, TypeOK, CandidateIsFull, PendingIsWanted

\* A zone that is recorded is full; one that is not leaves the candidate, which
\* is still full.
LEMMA Recorded ==
  ASSUME IInv, NEW z \in Zones, NEW s \in {"partial", "full"},
         size' = [size EXCEPT ![z] = s], size[z] = "full" => s = "full", Record(z)
  PROVE  /\ size' \in [Zones -> {"empty", "partial", "full"}]
         /\ ready' \in BOOLEAN /\ candidate' \in Zones \cup {NoZone} /\ stale' \in BOOLEAN
         /\ CandidateIsFull'
<1>1. size \in [Zones -> {"empty", "partial", "full"}] /\ size'[z] = s
  BY DEF IInv, TypeOK
<1>2. CASE s = "full"
  BY <1>1, <1>2, ZonesFacts DEF Record, CandidateIsFull, NextEmpty
<1>3. CASE s # "full"
  BY <1>1, <1>3, ZonesFacts DEF Record, CandidateIsFull, IInv, TypeOK
<1> QED
  BY <1>2, <1>3

\* A compaction takes the fullness of z away, and the candidate with it.
LEMMA Compacted ==
  ASSUME IInv, NEW z \in Zones, CanCompact(z), CompactDone(z)
  PROVE  /\ size' \in [Zones -> {"empty", "partial", "full"}]
         /\ ready' \in BOOLEAN /\ candidate' \in Zones \cup {NoZone} /\ stale' \in BOOLEAN
         /\ CandidateIsFull'
<1>1. /\ size \in [Zones -> {"empty", "partial", "full"}]
      /\ size[z] = "full" /\ z + 1 \in Zones /\ size[z + 1] = "empty"
  BY DEF IInv, TypeOK, CanCompact, NextEmpty
<1>2. PICK s \in {"empty", "partial"} :
        size' = [size EXCEPT ![z] = "partial", ![z + 1] = s]
  BY DEF CompactDone
<1>3. CASE candidate = z
  BY <1>1, <1>2, <1>3, ZonesFacts DEF CompactDone, ClearCandidate, CandidateIsFull
<1>4. CASE candidate # z
  <2>1. candidate' = candidate /\ ready' = ready /\ stale' = stale
    <3>1. /\ ready' = (ready /\ candidate # z) /\ ready \in BOOLEAN
          /\ stale' = (stale /\ candidate # z) /\ stale \in BOOLEAN
      BY DEF CompactDone, IInv, TypeOK
    <3>2. candidate' = candidate
      BY <1>4 DEF CompactDone, ClearCandidate
    <3> QED
      BY <1>4, <3>1, <3>2
  <2>2. candidate # NoZone /\ ~stale => size'[candidate] = size[candidate]
    BY <1>1, <1>2, <1>4 DEF IInv, TypeOK, CandidateIsFull
  <2> QED
    BY <1>1, <1>2, <2>1, <2>2 DEF IInv, TypeOK, CandidateIsFull
<1> QED
  BY <1>3, <1>4

LEMMA Queued ==
  ASSUME IInv, NEW b \in BOOLEAN, Queue(b) PROVE work' \in BOOLEAN /\ failed' \in BOOLEAN
  BY Zenon DEF Queue, IInv, TypeOK

LEMMA StepInv == IInv /\ [Next]_vars => IInv'
<1> SUFFICES ASSUME IInv, [Next]_vars PROVE IInv'
  OBVIOUS
<1>1. ASSUME NEW z \in Zones, HostWrite(z) PROVE IInv'
  <2>1. PICK s \in (IF size[z] = "full" THEN {"full"} ELSE {"partial", "full"}) :
          size' = [size EXCEPT ![z] = s]
    BY <1>1 DEF HostWrite
  <2>2. CandidateIsFull' /\ size' \in [Zones -> {"empty", "partial", "full"}]
        /\ ready' \in BOOLEAN /\ candidate' \in Zones \cup {NoZone} /\ stale' \in BOOLEAN
    BY <1>1, <2>1, Recorded DEF HostWrite
  <2>3. bios' \in 0..MaxBios
    BY <1>1, AutoAssumption DEF HostWrite, IInv, TypeOK
  <2>4. TypeOK' /\ PendingIsWanted'
    BY <1>1, <2>2, <2>3, ZonesFacts DEF HostWrite, IInv, TypeOK, PendingIsWanted
  <2> QED
    BY <2>2, <2>4 DEF IInv
<1>2. CASE EndIo
  <2>1. work' \in BOOLEAN /\ failed' \in BOOLEAN
    BY <1>2, Queued DEF EndIo, IInv, TypeOK
  <2> QED
    BY <1>2, <2>1, AutoAssumption DEF EndIo, IInv, TypeOK, CandidateIsFull, PendingIsWanted
<1>3. CASE Dequeue
  BY <1>3 DEF Dequeue, IInv, TypeOK, CandidateIsFull, PendingIsWanted
<1>4. CASE WorkCompacts
  <2>1. pending \in Zones
    BY <1>4 DEF WorkCompacts, IInv, TypeOK
  <2>2. CandidateIsFull' /\ size' \in [Zones -> {"empty", "partial", "full"}]
        /\ ready' \in BOOLEAN /\ candidate' \in Zones \cup {NoZone} /\ stale' \in BOOLEAN
    BY <1>4, <2>1, Compacted DEF WorkCompacts
  <2> QED
    BY <1>4, <2>2 DEF WorkCompacts, ClearPending, IInv, TypeOK, PendingIsWanted
<1>5. CASE WorkEndsWithout
  BY <1>5 DEF WorkEndsWithout, ClearPending, IInv, TypeOK, CandidateIsFull, PendingIsWanted
<1>6. ASSUME NEW z \in Zones, CompactManually(z) PROVE IInv'
  <2>1. CandidateIsFull' /\ size' \in [Zones -> {"empty", "partial", "full"}]
        /\ ready' \in BOOLEAN /\ candidate' \in Zones \cup {NoZone} /\ stale' \in BOOLEAN
    BY <1>6, Compacted DEF CompactManually
  <2> QED
    BY <1>6, <2>1 DEF CompactManually, ClearPending, IInv, TypeOK, PendingIsWanted
<1>7. ASSUME NEW z \in Zones, SeedFullZone(z) PROVE IInv'
  <2>1. CandidateIsFull' /\ size' \in [Zones -> {"empty", "partial", "full"}]
        /\ ready' \in BOOLEAN /\ candidate' \in Zones \cup {NoZone} /\ stale' \in BOOLEAN
    BY <1>7, Recorded DEF SeedFullZone
  <2>2. pending' \in Zones \cup {NoZone} /\ PendingIsWanted'
    BY <1>7 DEF SeedFullZone, Defers, IInv, TypeOK, PendingIsWanted
  <2>3. work' \in BOOLEAN /\ failed' \in BOOLEAN
    BY <1>7, Queued DEF SeedFullZone, Defers, IInv, TypeOK
  <2> QED
    BY <1>7, <2>1, <2>2, <2>3 DEF SeedFullZone, IInv, TypeOK
<1>8. CASE EnableAutoRun
  <2>1. pending' \in Zones \cup {NoZone}
    BY <1>8 DEF EnableAutoRun, IInv, TypeOK
  <2>2. work' \in BOOLEAN /\ failed' \in BOOLEAN
    BY <1>8, Queued DEF EnableAutoRun, Defers, IInv, TypeOK
  <2> QED
    BY <1>8, <2>1, <2>2 DEF EnableAutoRun, IInv, TypeOK, CandidateIsFull, PendingIsWanted
<1>9. CASE DisableAutoRun
  BY <1>9 DEF DisableAutoRun, PendingDropped, IInv, TypeOK, CandidateIsFull, PendingIsWanted
<1>10. CASE ResetZones
  <2>1. size' \in [Zones -> {"empty", "partial", "full"}] /\ stale' = (candidate # NoZone)
    BY <1>10 DEF ResetZones
  <2> QED
    BY <1>10, <2>1 DEF ResetZones, IInv, TypeOK, CandidateIsFull, PendingIsWanted
<1>11. CASE ResetZonesFails
  BY <1>11 DEF ResetZonesFails, IInv, TypeOK, CandidateIsFull, PendingIsWanted
<1>12. CASE UNCHANGED vars
  BY <1>12 DEF vars, IInv, TypeOK, CandidateIsFull, PendingIsWanted
<1> QED
  BY <1>1, <1>2, <1>3, <1>4, <1>5, <1>6, <1>7, <1>8, <1>9, <1>10, <1>11, <1>12
  DEF Next, DebugfsNext

LEMMA InvCorrect == Spec => []IInv
  BY InitInv, StepInv, PTL DEF Spec

-----------------------------------------------------------------------------
\* The candidate of compaction is always a full zone, and a ready one is never
\* the last zone, whatever writes, seeds and compactions came between.
THEOREM CandidateStaysFull == Spec => []CandidateIsFull
<1>1. IInv => CandidateIsFull
  BY DEF IInv
<1> QED
  BY <1>1, InvCorrect, PTL

\* Switching auto-run off leaves nothing pending behind.
THEOREM PendingStaysWanted == Spec => []PendingIsWanted
<1>1. IInv => PendingIsWanted
  BY DEF IInv
<1> QED
  BY <1>1, InvCorrect, PTL

\* No pending auto-run is left without work that is queued or running, or a write
\* whose end will queue it, until a write fails.
THEOREM PendingStaysWatched == Spec => []PendingIsWatched
<1>1. Init => PendingIsWatched
  BY DEF Init, PendingIsWatched
<1>2. IInv /\ PendingIsWatched /\ [Next]_vars => PendingIsWatched'
  <2> SUFFICES ASSUME IInv, PendingIsWatched, [Next]_vars PROVE PendingIsWatched'
    OBVIOUS
  <2> bios \in Nat
    BY DEF IInv, TypeOK
  <2>1. ASSUME NEW z \in Zones, HostWrite(z) PROVE PendingIsWatched'
    BY <2>1 DEF HostWrite, PendingIsWatched
  <2>2. CASE EndIo
    BY <2>2 DEF EndIo, Queue, PendingIsWatched
  <2>3. CASE Dequeue
    BY <2>3 DEF Dequeue, PendingIsWatched
  <2>4. CASE WorkCompacts \/ WorkEndsWithout
    BY <2>4 DEF WorkCompacts, WorkEndsWithout, ClearPending, PendingIsWatched, IInv,
       PendingIsWanted
  <2>5. ASSUME NEW z \in Zones, CompactManually(z) PROVE PendingIsWatched'
    BY <2>5 DEF CompactManually, ClearPending, PendingIsWatched
  <2>6. ASSUME NEW z \in Zones, SeedFullZone(z) PROVE PendingIsWatched'
    BY <2>6 DEF SeedFullZone, Queue, PendingIsWatched
  <2>7. CASE EnableAutoRun
    BY <2>7 DEF EnableAutoRun, Queue, PendingIsWatched
  <2>8. CASE DisableAutoRun
    BY <2>8 DEF DisableAutoRun, PendingDropped, PendingIsWatched
  <2>9. CASE ResetZones \/ ResetZonesFails \/ UNCHANGED vars
    BY <2>9 DEF ResetZones, ResetZonesFails, vars, PendingIsWatched
  <2> QED
    BY <2>1, <2>2, <2>3, <2>4, <2>5, <2>6, <2>7, <2>8, <2>9 DEF Next, DebugfsNext
<1> QED
  BY <1>1, <1>2, InvCorrect, PTL DEF Spec
===============================================================================
