------------------------ MODULE ImrZonePayloadProofs --------------------------
(***************************************************************************)
(* Proof that ImrZone loses a payload only in the ways LostOnlyExposed     *)
(* lists.  Each part of the inductive invariant says where the newest      *)
(* payload of a tracked key is: on its block, in a bio that goes there, in *)
(* the write an RMW holds back, among the tops it has saved, or in a copy  *)
(* that a compaction has made.                                             *)
(***************************************************************************)
EXTENDS ImrZoneProofs

\* A compaction copies in the order of the keys to the bottom blocks in the order of the
\* allocation: it overwrites no block it has yet to copy if the host fills the zone, all of
\* it, in that order, each key once.
FillsInOrder ==
  Compactable # {} => InOrder /\ {k \in Keys : ZoneOf(k) \in Compactable} \subseteq HostKeys

Tracked(k) == Placed(k) /\ map[k] \in Pbas /\ k \notin exposed

\* The RMW thread holds the write of the key back.
Submitting(k) == rmw.pc \in {"back up", "write", "gone"} /\ \E b \in rmw.bio : b.key = k

\* A running compaction has put another key on the block that the key still has.
Overwritten(k) ==
  cmp.pc = "copy" /\ \E i \in 1..Len(cmp.out) : cmp.out[i].pba = map[k] /\ cmp.out[i].key # k

OnDisk ==
  \A k \in Keys :
    Tracked(k) /\ ~ InFlight(k) /\ ~ Submitting(k) /\ ~ Overwritten(k) => media[map[k]] = k

\* Bios go to the block of their key, and no other bio goes there.
BiosGoHome == \A b \in bios : Tracked(b.key) => b.pba = map[b.key]
NoStrayBio ==
  \A b \in bios, k \in Keys : Tracked(k) /\ ~ Submitting(k) /\ b.pba = map[k] => b.key = k

\* The write an RMW holds back is of one key, on a bottom track.
HeldBack ==
  rmw.pc \in {"back up", "write", "gone"} =>
    \E k \in HostKeys, p \in Pbas :
      /\ rmw.bio = {[key |-> k, pba |-> p]}
      /\ ~ IsTop(p) /\ map[k] = p /\ k \notin stale /\ ~ InFlight(k)

SavedNewest ==
  rmw.pc # "idle" =>
    \A i \in 1..Len(rmw.saved), k \in Keys :
      Tracked(k) /\ map[k] = rmw.tops[i] => rmw.saved[i] = k

TrackedWritten == (\A k \in Keys : Tracked(k) => k \in written) /\ written \cap stale = {}

\* A zone that may be compacted is being filled in order, or was filled and compacted.
ZoneKeys(z) == {k \in Keys : ZoneOf(k) = z}
Filling(z) ==
  \A k \in ZoneKeys(z) :
    /\ k \in written <=> Offset(k) < mapSize[z]
    /\ Placed(k) => map[k] = Allocated(z, Offset(k))
Filled(z) == ZoneKeys(z) \subseteq written /\ mapSize[z] <= BottomBlocks
ZonesInOrder ==
  \A z \in Compactable :
    /\ \A k \in ZoneKeys(z) : Placed(k) => k \in written
    /\ Filling(z) \/ Filled(z)

\* The copies a running compaction has made.
CopiesKept ==
  cmp.pc = "copy" =>
    /\ mapSize[cmp.zone] >= TOTAL
    /\ \A i \in 1..Len(cmp.out) :
         /\ \A b \in bios : b.pba = cmp.out[i].pba => cmp.out[i].key \in exposed
         /\ Tracked(cmp.out[i].key) =>
              ~ InFlight(cmp.out[i].key) /\ media[cmp.out[i].pba] = cmp.out[i].key

PayloadInv ==
  /\ OnDisk /\ BiosGoHome /\ NoStrayBio /\ HeldBack /\ SavedNewest
  /\ TrackedWritten /\ ZonesInOrder /\ CopiesKept

LEMMA PayloadInit == Init => PayloadInv
<1> SUFFICES ASSUME Init PROVE PayloadInv
  OBVIOUS
<1>1. \A k \in Keys : ~ Placed(k) /\ ~ Tracked(k)
  BY DEF Init, Placed, Tracked
<1>2. bios = {} /\ written = {} /\ stale = {} /\ rmw.pc = "idle" /\ cmp.pc = "idle"
  BY DEF Init, RmwIdle, CmpIdle
<1>3. ZonesInOrder
  <2> SUFFICES ASSUME NEW z \in Compactable, NEW k \in ZoneKeys(z)
               PROVE  k \in Keys /\ k \notin written /\ ~ (Offset(k) < mapSize[z])
    BY <1>1 DEF ZonesInOrder, Filling
  <2>1. k \in Keys /\ z \in Zones
    BY Constants DEF ZoneKeys, Compactable
  <2>2. Offset(k) \in Nat /\ mapSize[z] = 0
    BY <2>1, KeyZone DEF Init
  <2> QED
    BY <1>2, <2>1, <2>2
<1> QED
  BY <1>1, <1>2, <1>3 DEF PayloadInv, OnDisk, BiosGoHome, NoStrayBio, HeldBack, SavedNewest,
     TrackedWritten, CopiesKept

-----------------------------------------------------------------------------
(* What the steps leave alone.                                             *)

LEMMA ZonesInOrderKept ==
  ASSUME ZonesInOrder, UNCHANGED <<map, mapSize, written, stale>>
  PROVE  ZonesInOrder'
BY DEF ZonesInOrder, Filling, Filled, Placed

\* Only exposures are added.
LEMMA TrackedStays ==
  ASSUME UNCHANGED <<map, stale>>, exposed \subseteq exposed', NEW k, Tracked(k)'
  PROVE  Tracked(k)
BY DEF Tracked, Placed

LEMMA TrackedWrittenKept ==
  ASSUME TrackedWritten, UNCHANGED <<map, written, stale>>, exposed \subseteq exposed'
  PROVE  TrackedWritten'
BY TrackedStays DEF TrackedWritten

\* No compaction is running, before the step or after.
LEMMA NoCopies ==
  ASSUME cmp.pc # "copy"
  PROVE  CopiesKept /\ \A k : ~ Overwritten(k)
BY DEF CopiesKept, Overwritten

\* No RMW is running.
LEMMA NoRmw ==
  ASSUME rmw = RmwIdle
  PROVE  HeldBack /\ SavedNewest /\ \A k : ~ Submitting(k)
BY DEF HeldBack, SavedNewest, Submitting, RmwIdle

LEMMA FreeLock ==
  ASSUME LockFree
  PROVE  /\ rmw = RmwIdle /\ cmp = CmpIdle /\ cmp.pc # "copy" /\ rmw.pc = "idle"
         /\ \A k : ~ Submitting(k) /\ ~ Overwritten(k)
BY NoRmw, NoCopies DEF LockFree, CmpIdle, RmwIdle

\* An RMW and a compaction never run together.
LEMMA OneAtATime ==
  ASSUME PlaceInv
  PROVE  /\ rmw.pc # "idle" => cmp.pc # "copy"
         /\ cmp.pc = "copy" => rmw = RmwIdle
BY DEF PlaceInv, CopyOrder, RmwIdle

LEMMA BioTypes ==
  ASSUME TypeInv, NEW b \in bios
  PROVE  b.key \in Keys /\ b.key \in HostKeys /\ b.pba \in Pbas /\ b = [key |-> b.key, pba |-> b.pba]
BY Constants DEF TypeInv, TypeOK

LEMMA NoCopiesNext ==
  ASSUME cmp' = CmpIdle
  PROVE  CopiesKept' /\ \A k : ~ Overwritten(k)'
BY DEF CopiesKept, Overwritten, CmpIdle

LEMMA NoRmwNext ==
  ASSUME rmw' = RmwIdle
  PROVE  HeldBack' /\ SavedNewest' /\ \A k : ~ Submitting(k)'
BY DEF HeldBack, SavedNewest, Submitting, RmwIdle

-----------------------------------------------------------------------------
(* Host writes and discards.                                               *)

LEMMA WriteOthers ==
  ASSUME TypeInv, SingleBlocks, NEW k \in HostKeys, NEW n \in 1..MaxBlocks,
         HostWrite(k, n) \/ HostWriteRejected(k, n), NEW j \in Keys, j # k
  PROVE  map'[j] = map[j] /\ (Placed(j)' <=> Placed(j))
<1>1. map' = [map EXCEPT ![k] = Target(k)] /\ stale' = stale \ {k} /\ k \in Keys
  BY SingleWrite, Constants
<1>2. map \in [Keys -> Nat]
  BY DEF TypeInv, TypeOK
<1> QED
  BY <1>1, <1>2 DEF Placed

\* A key of a zone filled in order gets the block at its own offset.
LEMMA InOrderTarget ==
  ASSUME TypeInv, PlaceInv, ZonesInOrder, SingleBlocks, FillsInOrder, NEW k \in HostKeys,
         MayWrite(k, 1), ZoneOf(k) \in Compactable, ~ Placed(k)
  PROVE  mapSize[ZoneOf(k)] = Offset(k) /\ Filling(ZoneOf(k))
<1> DEFINE z == ZoneOf(k)
<1>1. InOrder /\ ZoneKeys(z) \subseteq HostKeys /\ k \in Keys /\ z \in Zones /\ HostKeys \subseteq Keys
  BY Constants, KeyZone DEF FillsInOrder, ZoneKeys
<1>2. Unmapped(k)
  BY DEF Placed, Unmapped
<1>3. \A j \in ZoneKeys(z) : j < k <=> j \in written
  <2>1. {j \in HostKeys : ZoneOf(j) = z /\ j < k} = {j \in written : ZoneOf(j) = z}
    BY <1>1, <1>2 DEF MayWrite
  <2> QED
    BY <1>1, <2>1 DEF ZoneKeys
<1>4. k \in ZoneKeys(z) /\ k \in Nat /\ ~ (k < k)
  BY <1>1, KeyZone DEF ZoneKeys
<1>5. k \notin written
  BY <1>3, <1>4
<1>6. Filling(z)
  BY <1>4, <1>5 DEF ZonesInOrder, Filled
<1>7. Offset(k) \in 0..(TOTAL - 1) /\ k = ZoneStart(z) + Offset(k) /\ ~ (Offset(k) < mapSize[z])
  BY <1>1, <1>4, <1>5, <1>6, KeyZone DEF Filling
<1>8. mapSize[z] \in Nat
  <2>1. mapSize \in [Zones -> 0..MaxMapped]
    BY DEF TypeInv, TypeOK
  <2>2. mapSize[z] \in 0..MaxMapped
    BY <1>1, <2>1
  <2> QED
    BY <2>2, Constants
<1>9. mapSize[z] = Offset(k)
  <2> SUFFICES ASSUME mapSize[z] # Offset(k) PROVE FALSE
    OBVIOUS
  <2>1. mapSize[z] \in 0..(TOTAL - 1) /\ mapSize[z] < Offset(k)
    BY <1>7, <1>8, GeometryFacts
  <2> DEFINE j == ZoneStart(z) + mapSize[z]
  <2>2. j \in Keys /\ ZoneOf(j) = z /\ ZoneStart(z) \in Nat
    BY <1>1, <2>1, ZoneKey
  <2>3. Offset(j) = mapSize[z]
    <3>1. j = ZoneStart(z) + Offset(j) /\ Offset(j) \in Nat
      BY <2>2, KeyZone
    <3> HIDE DEF j
    <3>2. j = ZoneStart(z) + mapSize[z]
      BY DEF j
    <3> QED
      BY <1>8, <2>2, <3>1, <3>2
  <2>4. j < k
    BY <1>7, <1>8, <2>1, <2>2
  <2>5. j \in ZoneKeys(z)
    BY <2>2 DEF ZoneKeys
  <2> HIDE DEF j
  <2>6. j \in written /\ ~ (j \in written)
    <3>1. ~ (mapSize[z] < mapSize[z])
      BY <1>8
    <3>2. j \in written <=> mapSize[z] < mapSize[z]
      BY <1>6, <2>3, <2>5, Zenon DEF Filling
    <3> QED
      BY <1>3, <2>4, <2>5, <3>1, <3>2, Zenon
  <2> QED
    BY <2>6
<1> QED
  BY <1>6, <1>9

\* A zone below another holds every block it allocates.
LEMMA TargetFits ==
  ASSUME TypeInv, PlaceInv, ZonesHold, SingleBlocks, NEW k \in HostKeys, NEW n \in 1..MaxBlocks,
         HostWriteRejected(k, n)
  PROVE  Compactable = {}
<1> SUFFICES ASSUME NEW z \in Compactable PROVE FALSE
  OBVIOUS
<1>1. NumZones # 1
  <2>1. z \in Zones /\ z + 1 \in Zones
    BY Constants DEF Compactable
  <2>2. z \in Nat /\ NumZones \in Nat
    BY <2>1, ZoneNatural, GeometryFacts
  <2> QED
    BY <2>1, <2>2 DEF Zones
<1>2. /\ mapSize' = Grown(k, 1) /\ Grown(k, 1)[ZoneOf(k)] <= MaxMapped
      /\ Target(k) \notin Pbas
  BY SingleWrite
<1>3. k \in Keys /\ ZoneOf(k) \in Zones /\ mapSize \in [Zones -> 0..MaxMapped]
  BY Constants, KeyZone DEF TypeInv, TypeOK
<1>4. CASE Placed(k)
  <2>1. Target(k) = map[k]
    BY <1>4 DEF Placed, Target, Unmapped
  <2>2. PICK y \in Zones, i \in Nat : LocatedAt(k, y, i)
    BY <1>3, <1>4 DEF PlaceInv, AllLocated
  <2>3. i \in 0..(MaxMapped - 1) /\ map[k] = Allocated(y, i)
    BY <2>2, AllocatedIndex DEF LocatedAt
  <2> QED
    BY <1>1, <1>2, <2>1, <2>3, AllocatedPba
<1>5. CASE ~ Placed(k)
  <2>1. Target(k) = Allocated(ZoneOf(k), mapSize[ZoneOf(k)])
        /\ Grown(k, 1) = [mapSize EXCEPT ![ZoneOf(k)] = mapSize[ZoneOf(k)] + 1]
    BY <1>5 DEF Placed, Target, Unmapped, Grown
  <2>2. mapSize[ZoneOf(k)] \in 0..(MaxMapped - 1)
    BY <1>2, <1>3, <2>1, Constants
  <2> QED
    BY <1>1, <1>2, <1>3, <2>1, <2>2, AllocatedPba
<1> QED
  BY <1>4, <1>5

LEMMA WriteInOrder ==
  ASSUME TypeInv, PlaceInv, ZonesInOrder, ZonesHold, SingleBlocks, FillsInOrder,
         NEW k \in HostKeys, NEW n \in 1..MaxBlocks, HostWrite(k, n) \/ HostWriteRejected(k, n)
  PROVE  ZonesInOrder'
<1>1. CASE HostWriteRejected(k, n)
  BY <1>1, TargetFits DEF ZonesInOrder
<1>2. CASE HostWrite(k, n)
  <2>1. /\ n = 1 /\ map' = [map EXCEPT ![k] = Target(k)] /\ stale' = stale \ {k}
        /\ mapSize' = Grown(k, 1) /\ k \in Keys
    BY SingleWrite, Constants
  <2>2. MayWrite(k, 1) /\ written' = written \cup {k}
    <3>1. Blocks(k, 1) = {k}
      BY <2>1, OneBlock, TargetNatural
    <3> QED
      BY <1>2, <2>1, <3>1 DEF HostWrite
  <2>3. ZoneOf(k) \in Zones /\ map \in [Keys -> Nat] /\ mapSize \in [Zones -> 0..MaxMapped]
    BY <2>1, KeyZone DEF TypeInv, TypeOK
  <2>4. \A j \in Keys : j # k => map'[j] = map[j] /\ (Placed(j)' <=> Placed(j))
    BY WriteOthers
  <2> SUFFICES ASSUME NEW z \in Compactable
               PROVE  /\ \A j \in ZoneKeys(z) : Placed(j)' => j \in written'
                      /\ Filling(z)' \/ Filled(z)'
    BY DEF ZonesInOrder
  <2>5. z \in Zones /\ ZoneKeys(z) \subseteq Keys
    BY Constants DEF Compactable, ZoneKeys
  <2>6. /\ \A j \in ZoneKeys(z) : Placed(j) => j \in written
        /\ Filling(z) \/ Filled(z)
    BY DEF ZonesInOrder
  <2>7. \A j \in ZoneKeys(z) : Placed(j)' => j \in written'
    BY <2>2, <2>4, <2>5, <2>6
  <2>8. CASE ZoneOf(k) # z
    <3>1. k \notin ZoneKeys(z) /\ mapSize'[z] = mapSize[z]
      BY <2>1, <2>3, <2>5, <2>8 DEF ZoneKeys, Grown
    <3>2. Filling(z) => Filling(z)'
      BY <2>2, <2>4, <2>5, <3>1 DEF Filling
    <3>3. Filled(z) => Filled(z)'
      BY <2>2, <3>1 DEF Filled
    <3> QED
      BY <2>6, <2>7, <3>2, <3>3
  <2>9. CASE ZoneOf(k) = z /\ Placed(k)
    <3>1. Target(k) = map[k] /\ mapSize' = mapSize /\ k \in ZoneKeys(z)
      BY <2>1, <2>9 DEF Placed, Target, Unmapped, Grown, ZoneKeys
    <3>2. map' = map /\ written' = written /\ stale' = stale
      BY <2>1, <2>2, <2>3, <2>6, <2>9, <3>1 DEF Placed
    <3>3. Filling(z)' \/ Filled(z)'
      BY <2>6, <3>1, <3>2 DEF Filling, Filled, Placed
    <3> QED
      BY <2>7, <3>3
  <2>10. CASE ZoneOf(k) = z /\ ~ Placed(k)
    <3>1. mapSize[z] = Offset(k) /\ Filling(z)
      BY <2>2, <2>10, InOrderTarget
    <3>2. Target(k) = Allocated(z, Offset(k)) /\ mapSize'[z] = Offset(k) + 1
      BY <2>1, <2>3, <2>5, <2>10, <3>1 DEF Placed, Target, Unmapped, Grown
    <3>3. ASSUME NEW j \in ZoneKeys(z)
          PROVE  /\ j \in written' <=> Offset(j) < mapSize'[z]
                 /\ Placed(j)' => map'[j] = Allocated(z, Offset(j))
      <4>1. CASE j = k
        <5>1. Offset(k) < Offset(k) + 1
          BY <2>1, KeyZone
        <5> QED
          BY <2>1, <2>2, <2>3, <3>2, <4>1, <5>1
      <4>2. CASE j # k
        <5>1. /\ Offset(j) \in Nat /\ Offset(k) \in Nat /\ Offset(j) # Offset(k)
          BY <2>1, <2>5, <2>10, <4>2, KeyZone DEF ZoneKeys
        <5>2. Offset(j) < Offset(k) <=> Offset(j) < Offset(k) + 1
          BY <5>1
        <5>3. j \in written <=> Offset(j) < Offset(k)
          BY <3>1 DEF Filling
        <5> QED
          BY <2>2, <2>4, <2>5, <3>1, <3>2, <4>2, <5>2, <5>3 DEF Filling
      <4> QED
        BY <4>1, <4>2
    <3>4. Filling(z)'
      BY <3>3 DEF Filling
    <3> QED
      BY <2>7, <3>4
  <2> QED
    BY <2>8, <2>9, <2>10
<1> QED
  BY <1>1, <1>2

LEMMA RejectedPayload ==
  ASSUME TypeInv, PlaceInv, PayloadInv, ZonesHold, SingleBlocks, FillsInOrder, NEW k \in HostKeys,
         NEW n \in 1..MaxBlocks, HostWriteRejected(k, n)
  PROVE  PayloadInv'
<1>1. /\ map' = [map EXCEPT ![k] = Target(k)] /\ stale' = stale \ {k} /\ Target(k) \notin Pbas
      /\ k \in Keys /\ LockFree
  BY SingleWrite, Constants
<1>2. UNCHANGED <<media, bios, written, rmw, cmp, exposed>>
  BY DEF HostWriteRejected
<1>3. map'[k] = Target(k)
  BY <1>1 DEF TypeInv, TypeOK
<1>4. \A j \in Keys : Tracked(j)' => j # k /\ Tracked(j) /\ map'[j] = map[j]
  <2> SUFFICES ASSUME NEW j \in Keys, Tracked(j)' PROVE j # k /\ Tracked(j) /\ map'[j] = map[j]
    OBVIOUS
  <2>1. j # k
    BY <1>1, <1>3 DEF Tracked
  <2> QED
    BY <1>2, <2>1, WriteOthers DEF Tracked
<1>5. rmw' = RmwIdle /\ cmp' = CmpIdle
  BY <1>1, <1>2 DEF LockFree
<1>6. \A b \in bios : b.key \in Keys
  BY BioTypes
<1>7. OnDisk'
  BY <1>1, <1>2, <1>4, FreeLock DEF PayloadInv, OnDisk, InFlight
<1>8. BiosGoHome' /\ NoStrayBio'
  BY <1>1, <1>2, <1>4, <1>6, FreeLock DEF PayloadInv, BiosGoHome, NoStrayBio
<1>9. TrackedWritten'
  BY <1>1, <1>2, <1>4 DEF PayloadInv, TrackedWritten
<1>10. ZonesInOrder'
  BY WriteInOrder DEF PayloadInv
<1> QED
  BY <1>5, <1>7, <1>8, <1>9, <1>10, NoCopiesNext, NoRmwNext DEF PayloadInv

LEMMA WrittenPayload ==
  ASSUME TypeInv, PlaceInv, PayloadInv, ZonesHold, SingleBlocks, FillsInOrder, NEW k \in HostKeys,
         NEW n \in 1..MaxBlocks, HostWrite(k, n)
  PROVE  PayloadInv'
<1> DEFINE p == Target(k)
           bio == [key |-> k, pba |-> p]
<1>1. /\ n = 1 /\ LockFree /\ ~ InFlight(k)
      /\ map' = [map EXCEPT ![k] = p] /\ p \in Pbas /\ p \in Nat
      /\ stale' = stale \ {k} /\ UNCHANGED cmp /\ k \in Keys
  BY SingleWrite, Constants
<1>2. Blocks(k, 1) = {k} /\ Bio(k, 1, p) = {bio} /\ bio.key = k /\ bio.pba = p
  BY <1>1, OneBlock
<1> HIDE DEF p, bio
<1>3. /\ media' = Outdate({k}) /\ written' = written \cup {k}
      /\ \/ /\ bios' = bios \cup {bio} /\ exposed' = (exposed \ {k}) \cup Joining({bio})
            /\ rmw' = rmw
         \/ /\ BackUp(p) # <<>> /\ bios' = bios /\ exposed' = exposed \ {k}
            /\ rmw' = [pc |-> "back up", tops |-> BackUp(p), saved |-> <<>>, bio |-> {bio}]
  BY <1>1, <1>2 DEF HostWrite, p
<1>4. map'[k] = p /\ Placed(k)' /\ media \in [Pbas -> Keys \cup {Garbage}]
  BY <1>1, NoneIsNoBlock DEF Placed, TypeInv, TypeOK
<1>5. \A j \in Keys : j # k /\ Tracked(j)' => Tracked(j) /\ map'[j] = map[j]
  BY <1>3, WriteOthers DEF Tracked
<1>6. Apart'
  BY WritePlaced DEF PlaceInv
<1>7. \A b \in bios : b.key \in Keys /\ b.key # k
  BY <1>1, BioTypes DEF InFlight
<1>8. \A j : ~ Submitting(j) /\ ~ Overwritten(j)
  BY <1>1, FreeLock
<1>9. cmp' = CmpIdle
  BY <1>1 DEF LockFree
<1>10. \A q \in Pbas : media[q] # k => media'[q] = media[q]
  BY <1>3 DEF Outdate
<1>11. ASSUME NEW j \in Keys, j # k, Tracked(j)', ~ InFlight(j) PROVE media'[map'[j]] = j
  <2>1. Tracked(j) /\ map'[j] = map[j] /\ map[j] \in Pbas
    BY <1>5, <1>11 DEF Tracked
  <2>2. media[map[j]] = j
    BY <1>8, <1>11, <2>1 DEF PayloadInv, OnDisk
  <2> QED
    BY <1>10, <1>11, <2>1, <2>2
<1>12. TrackedWritten'
  BY <1>1, <1>3, <1>5 DEF PayloadInv, TrackedWritten
<1>13. ZonesInOrder'
  BY WriteInOrder DEF PayloadInv
<1>14. CopiesKept'
  BY <1>9, NoCopiesNext
<1>15. \A b \in bios : Tracked(b.key)' => b.pba = map'[b.key]
  BY <1>5, <1>7 DEF PayloadInv, BiosGoHome
<1>16. ASSUME NEW b \in bios, NEW j \in Keys, j # k, Tracked(j)', b.pba = map'[j] PROVE b.key = j
  BY <1>5, <1>8, <1>16 DEF PayloadInv, NoStrayBio
<1>17. CASE /\ bios' = bios \cup {bio} /\ exposed' = (exposed \ {k}) \cup Joining({bio})
            /\ rmw' = rmw
  <2>1. rmw' = RmwIdle
    BY <1>1, <1>17 DEF LockFree
  <2>2. OnDisk'
    <3> SUFFICES ASSUME NEW j \in Keys, Tracked(j)', ~ InFlight(j)' PROVE media'[map'[j]] = j
      BY DEF OnDisk
    <3>1. j # k /\ ~ InFlight(j)
      BY <1>2, <1>17 DEF InFlight
    <3> QED
      BY <1>11, <3>1
  <2>3. BiosGoHome'
    BY <1>2, <1>4, <1>15, <1>17 DEF BiosGoHome
  <2>4. NoStrayBio'
    <3> SUFFICES ASSUME NEW b \in bios', NEW j \in Keys, Tracked(j)', b.pba = map'[j] PROVE b.key = j
      BY DEF NoStrayBio
    <3>1. CASE b \in bios /\ j # k
      BY <1>16, <3>1
    <3>2. CASE b \in bios /\ j = k
      <4>1. b.key \in KeysInFlightTo({bio.pba})
        BY <1>2, <1>4, <3>2 DEF KeysInFlightTo
      <4>2. k \in Joining({bio})
        BY <1>2, <4>1 DEF Joining
      <4> QED
        BY <1>17, <3>2, <4>2 DEF Tracked
    <3>3. CASE b = bio /\ j # k
      <4>1. Placed(j)' /\ map'[j] = map'[k]
        BY <1>2, <1>4, <3>3 DEF Tracked
      <4> QED
        BY <1>1, <1>4, <1>6, <3>3, <4>1 DEF Apart
    <3>4. CASE b = bio /\ j = k
      BY <1>2, <3>4
    <3> QED
      BY <1>17, <3>1, <3>2, <3>3, <3>4
  <2> QED
    BY <1>12, <1>13, <1>14, <2>1, <2>2, <2>3, <2>4, NoRmwNext DEF PayloadInv
<1>18. CASE /\ BackUp(p) # <<>> /\ bios' = bios /\ exposed' = exposed \ {k}
            /\ rmw' = [pc |-> "back up", tops |-> BackUp(p), saved |-> <<>>, bio |-> {bio}]
  <2>1. rmw'.pc = "back up" /\ rmw'.saved = <<>> /\ rmw'.bio = {bio}
    BY <1>18
  <2>2. Submitting(k)'
    BY <1>2, <2>1 DEF Submitting
  <2>3. OnDisk'
    <3> SUFFICES ASSUME NEW j \in Keys, Tracked(j)', ~ InFlight(j)', ~ Submitting(j)'
                 PROVE  media'[map'[j]] = j
      BY DEF OnDisk
    <3>1. j # k /\ ~ InFlight(j)
      BY <1>18, <2>2 DEF InFlight
    <3> QED
      BY <1>11, <3>1
  <2>4. BiosGoHome'
    BY <1>15, <1>18 DEF BiosGoHome
  <2>5. NoStrayBio'
    BY <1>16, <1>18, <2>2 DEF NoStrayBio
  <2>6. HeldBack'
    <3>1. ~ IsTop(p)
      BY <1>18 DEF BackUp
    <3>2. k \notin stale' /\ ~ InFlight(k)' /\ rmw'.bio = {[key |-> k, pba |-> p]}
      BY <1>1, <1>18, <2>1 DEF InFlight, bio
    <3> QED
      BY <1>1, <1>4, <3>1, <3>2 DEF HeldBack
  <2>7. SavedNewest'
    <3>1. Len(rmw'.saved) = Len(<<>>) /\ Len(<<>>) = 0
      BY <2>1, EmptySeq, Zenon
    <3>2. 1..Len(rmw'.saved) = {}
      BY <3>1
    <3> QED
      BY <3>2 DEF SavedNewest
  <2> QED
    BY <1>12, <1>13, <1>14, <2>3, <2>4, <2>5, <2>6, <2>7 DEF PayloadInv
<1> QED
  BY <1>3, <1>17, <1>18

LEMMA DiscardPayload ==
  ASSUME TypeInv, PayloadInv, NEW k \in DiscardKeys, HostDiscard(k)
  PROVE  PayloadInv'
<1>1. /\ LockFree /\ map' = [map EXCEPT ![k] = None] /\ stale' = stale \ {k}
      /\ UNCHANGED <<mapSize, used, media, bios, written, rmw, cmp, incidents, exposed, freed>>
      /\ map \in [Keys -> Nat] /\ k \in Keys
  BY Constants DEF HostDiscard, TypeInv, TypeOK
<1>2. \A j \in Keys : Placed(j)' => Placed(j) /\ map'[j] = map[j]
  BY <1>1 DEF Placed
<1>3. \A j \in Keys : Tracked(j)' => Tracked(j) /\ map'[j] = map[j]
  BY <1>1, <1>2 DEF Tracked
<1>4. rmw' = RmwIdle /\ cmp' = CmpIdle
  BY <1>1 DEF LockFree
<1>5. OnDisk'
  BY <1>1, <1>3, FreeLock DEF PayloadInv, OnDisk, InFlight
<1>6. BiosGoHome' /\ NoStrayBio'
  BY <1>1, <1>3, FreeLock, BioTypes DEF PayloadInv, BiosGoHome, NoStrayBio
<1>7. TrackedWritten'
  BY <1>1, <1>3 DEF PayloadInv, TrackedWritten
<1>8. ZonesInOrder'
  BY <1>1, <1>2 DEF PayloadInv, ZonesInOrder, Filling, Filled, ZoneKeys
<1> QED
  BY <1>4, <1>5, <1>6, <1>7, <1>8, NoCopiesNext, NoRmwNext DEF PayloadInv

\* A bio lands on the block of its key, or on a block that is nobody's.
LEMMA LandsPayload ==
  ASSUME TypeInv, PlaceInv, PayloadInv, NEW b \in bios, BioLands(b)
  PROVE  PayloadInv'
<1>1. /\ bios' = bios \ {b} /\ media' = [media EXCEPT ![b.pba] = b.key]
      /\ UNCHANGED <<map, mapSize, used, written, rmw, cmp, incidents, exposed, stale, freed>>
      /\ media \in [Pbas -> Keys \cup {Garbage}]
  BY DEF BioLands, TypeInv, TypeOK
<1>2. b.key \in Keys /\ b.pba \in Pbas /\ \A c \in bios : c = [key |-> c.key, pba |-> c.pba]
  BY BioTypes
<1>3. \A k : /\ Tracked(k)' <=> Tracked(k)
             /\ Submitting(k)' <=> Submitting(k)
             /\ Overwritten(k)' <=> Overwritten(k)
             /\ InFlight(k)' => InFlight(k)
  BY <1>1 DEF Tracked, Placed, Submitting, Overwritten, InFlight
<1>4. OnDisk'
  <2> SUFFICES ASSUME NEW k \in Keys, Tracked(k), ~ InFlight(k)', ~ Submitting(k), ~ Overwritten(k)
               PROVE  media'[map[k]] = k
    BY <1>1, <1>3 DEF OnDisk
  <2>1. map[k] \in Pbas
    BY DEF Tracked
  <2>2. CASE map[k] = b.pba
    <3>1. b.key = k
      BY <2>2 DEF PayloadInv, NoStrayBio
    <3> QED
      BY <1>1, <2>1, <2>2, <3>1
  <2>3. CASE map[k] # b.pba
    <3>1. ~ InFlight(k)
      <4> SUFFICES ASSUME NEW c \in bios, c.key = k PROVE FALSE
        BY DEF InFlight
      <4>1. c = b
        BY <1>1 DEF InFlight
      <4> QED
        BY <2>3, <4>1 DEF PayloadInv, BiosGoHome
    <3>2. media[map[k]] = k
      BY <3>1 DEF PayloadInv, OnDisk
    <3> QED
      BY <1>1, <2>1, <2>3, <3>2
  <2> QED
    BY <2>2, <2>3
<1>5. BiosGoHome' /\ NoStrayBio'
  BY <1>1, <1>3 DEF PayloadInv, BiosGoHome, NoStrayBio
<1>6. HeldBack'
  BY <1>1, <1>3 DEF PayloadInv, HeldBack
<1>7. SavedNewest'
  BY <1>1, <1>3 DEF PayloadInv, SavedNewest
<1>8. TrackedWritten' /\ ZonesInOrder'
  BY <1>1, TrackedWrittenKept, ZonesInOrderKept DEF PayloadInv
<1>9. CopiesKept'
  <2> SUFFICES ASSUME cmp.pc = "copy", NEW i \in 1..Len(cmp.out)
               PROVE  /\ \A c \in bios' : c.pba = cmp.out[i].pba => cmp.out[i].key \in exposed
                      /\ Tracked(cmp.out[i].key) =>
                           ~ InFlight(cmp.out[i].key)' /\ media'[cmp.out[i].pba] = cmp.out[i].key
    BY <1>1, <1>3 DEF PayloadInv, CopiesKept
  <2>1. /\ \A c \in bios : c.pba = cmp.out[i].pba => cmp.out[i].key \in exposed
        /\ Tracked(cmp.out[i].key) =>
             ~ InFlight(cmp.out[i].key) /\ media[cmp.out[i].pba] = cmp.out[i].key
    BY DEF PayloadInv, CopiesKept
  <2>2. Tracked(cmp.out[i].key) => cmp.out[i].pba # b.pba
    BY <2>1 DEF Tracked
  <2> QED
    BY <1>1, <1>3, <2>1, <2>2
<1> QED
  BY <1>4, <1>5, <1>6, <1>7, <1>8, <1>9 DEF PayloadInv

-----------------------------------------------------------------------------
(* The RMW thread.                                                         *)

\* What the thread reads off a top block is the newest payload of the key that has it: its
\* own write is on a bottom track, and a write on its way to the block exposes the key.
LEMMA ReadPayload ==
  ASSUME TypeInv, PlaceInv, PayloadInv, RmwRead
  PROVE  PayloadInv'
<1> DEFINE h == Len(rmw.saved)
           top == rmw.tops[h + 1]
           saved == Append(rmw.saved, media[top])
<1>1. /\ rmw.pc = "back up"
      /\ rmw' = [rmw EXCEPT !.saved = saved,
                            !.pc = IF Len(saved) = Len(rmw.tops) THEN "write" ELSE rmw.pc]
      /\ exposed' = exposed \cup KeysInFlightTo({top})
      /\ UNCHANGED <<map, mapSize, used, media, bios, written, cmp, incidents, stale, freed>>
  BY DEF RmwRead
<1>2. /\ rmw \in RmwRecords
      /\ rmw.tops \in Seq(TopPbas) /\ rmw.saved \in Seq(Keys \cup {Garbage})
      /\ Len(rmw.tops) \in Nat /\ h \in Nat /\ h < Len(rmw.tops)
  BY <1>1, RmwRunning
<1>3. top \in TopPbas
  <2>1. h + 1 \in 1..Len(rmw.tops)
    BY <1>2
  <2> QED
    BY <1>2, <2>1, ElementOfSeq
<1>4. cmp.pc # "copy" /\ \A k : ~ Overwritten(k)
  BY <1>1, OneAtATime, NoCopies
<1>5. top \in Pbas /\ IsTop(top) /\ media[top] \in Keys \cup {Garbage}
  BY <1>3 DEF TopPbas, TypeInv, TypeOK
<1>6. /\ Len(saved) = h + 1 /\ saved[h + 1] = media[top]
      /\ \A i \in 1..h : saved[i] = rmw.saved[i]
  BY <1>2, <1>5, AppendProperties
<1> HIDE DEF h, saved, top
<1>7. /\ rmw'.saved = saved /\ rmw'.tops = rmw.tops /\ rmw'.bio = rmw.bio
      /\ rmw'.pc \in {"back up", "write"}
  BY <1>1, <1>2 DEF RmwRecords
<1>8. \A k : (Tracked(k)' => Tracked(k)) /\ (Submitting(k)' <=> Submitting(k))
             /\ (InFlight(k)' <=> InFlight(k)) /\ ~ Overwritten(k)'
  BY <1>1, <1>4, <1>7, TrackedStays DEF Submitting, InFlight, Overwritten
<1>9. OnDisk'
  BY <1>1, <1>4, <1>8 DEF PayloadInv, OnDisk
<1>10. BiosGoHome' /\ NoStrayBio'
  BY <1>1, <1>8 DEF PayloadInv, BiosGoHome, NoStrayBio
<1>11. HeldBack'
  BY <1>1, <1>7, <1>8 DEF PayloadInv, HeldBack
<1>12. SavedNewest'
  <2> SUFFICES ASSUME NEW i \in 1..(h + 1), NEW k \in Keys, Tracked(k)', map[k] = rmw.tops[i]
               PROVE  saved[i] = k
    BY <1>1, <1>6, <1>7, ZenonT(40) DEF SavedNewest
  <2>1. CASE i \in 1..h
    <3>1. rmw.saved[i] = k
      BY <1>1, <1>8, <2>1 DEF PayloadInv, SavedNewest, h
    <3> QED
      BY <1>6, <2>1, <3>1
  <2>2. CASE i = h + 1
    <3>1. map[k] = top /\ Tracked(k) /\ k \notin exposed'
      BY <1>8, <2>2 DEF top, Tracked
    <3>2. ~ InFlight(k)
      <4> SUFFICES ASSUME NEW b \in bios, b.key = k PROVE FALSE
        BY DEF InFlight
      <4>1. b.pba = top
        BY <3>1 DEF PayloadInv, BiosGoHome
      <4>2. k \in KeysInFlightTo({top})
        BY <4>1 DEF KeysInFlightTo
      <4> QED
        BY <1>1, <3>1, <4>2
    <3>3. ~ Submitting(k)
      <4>1. PICK j \in HostKeys, p \in Pbas : rmw.bio = {[key |-> j, pba |-> p]} /\ ~ IsTop(p) /\ map[j] = p
        BY <1>1 DEF PayloadInv, HeldBack
      <4>2. j # k
        BY <1>5, <3>1, <4>1
      <4>3. \A b \in rmw.bio : b.key = j
        BY <4>1
      <4> QED
        BY <4>2, <4>3 DEF Submitting
    <3>4. media[map[k]] = k
      BY <1>4, <3>1, <3>2, <3>3 DEF PayloadInv, OnDisk
    <3> QED
      BY <1>6, <2>2, <3>1, <3>4
  <2> QED
    BY <1>2, <2>1, <2>2 DEF h
<1>13. TrackedWritten' /\ ZonesInOrder'
  BY <1>1, TrackedWrittenKept, ZonesInOrderKept DEF PayloadInv
<1>14. CopiesKept'
  BY <1>1, <1>4 DEF CopiesKept
<1> QED
  BY <1>9, <1>10, <1>11, <1>12, <1>13, <1>14 DEF PayloadInv

LEMMA GonePayload ==
  ASSUME TypeInv, PlaceInv, PayloadInv, RmwGone
  PROVE  PayloadInv'
<1>1. /\ rmw.pc = "back up" /\ rmw' = [rmw EXCEPT !.pc = "gone"]
      /\ UNCHANGED <<map, mapSize, used, media, bios, written, cmp, incidents, exposed, stale, freed>>
  BY DEF RmwGone
<1>2. rmw \in RmwRecords
  BY <1>1, RmwRunning
<1>3. rmw'.pc = "gone" /\ rmw'.saved = rmw.saved /\ rmw'.tops = rmw.tops /\ rmw'.bio = rmw.bio
  BY <1>1, <1>2 DEF RmwRecords
<1>4. \A k : /\ Tracked(k)' <=> Tracked(k)
             /\ Submitting(k)' <=> Submitting(k)
             /\ Overwritten(k)' <=> Overwritten(k)
             /\ InFlight(k)' <=> InFlight(k)
  BY <1>1, <1>3 DEF Tracked, Placed, Submitting, Overwritten, InFlight
<1>5. OnDisk' /\ BiosGoHome' /\ NoStrayBio'
  BY <1>1, <1>4 DEF PayloadInv, OnDisk, BiosGoHome, NoStrayBio
<1>6. HeldBack'
  BY <1>1, <1>3, <1>4 DEF PayloadInv, HeldBack
<1>7. SavedNewest'
  BY <1>1, <1>3, <1>4, ZenonT(40) DEF PayloadInv, SavedNewest
<1>8. TrackedWritten' /\ ZonesInOrder'
  BY <1>1, TrackedWrittenKept, ZonesInOrderKept DEF PayloadInv
<1>9. CopiesKept'
  BY <1>1, <1>4 DEF PayloadInv, CopiesKept
<1> QED
  BY <1>5, <1>6, <1>7, <1>8, <1>9 DEF PayloadInv

LEMMA SubmitPayload ==
  ASSUME TypeInv, PlaceInv, PayloadInv, RmwWrite
  PROVE  PayloadInv'
<1>1. /\ rmw.pc = "write" /\ rmw' = [rmw EXCEPT !.pc = "write back"]
      /\ bios' = bios \cup rmw.bio /\ exposed' = exposed \cup Joining(rmw.bio)
      /\ UNCHANGED <<map, mapSize, used, media, written, cmp, incidents, stale, freed>>
  BY DEF RmwWrite
<1>2. rmw \in RmwRecords
  BY <1>1, RmwRunning
<1>3. rmw'.pc = "write back" /\ rmw'.saved = rmw.saved /\ rmw'.tops = rmw.tops
  BY <1>1, <1>2 DEF RmwRecords
<1>4. PICK k \in HostKeys, p \in Pbas :
        /\ rmw.bio = {[key |-> k, pba |-> p]} /\ map[k] = p /\ k \notin stale /\ ~ InFlight(k)
  BY <1>1 DEF PayloadInv, HeldBack
<1> DEFINE bio == [key |-> k, pba |-> p]
<1>5. bio.key = k /\ bio.pba = p /\ rmw.bio = {bio} /\ k \in Keys
  BY <1>4, Constants
<1> HIDE DEF bio
<1>6. cmp.pc # "copy" /\ \A j : ~ Overwritten(j)
  BY <1>1, OneAtATime, NoCopies
<1>7. \A j : Tracked(j)' => Tracked(j)
  BY <1>1, TrackedStays
<1>8. \A j : j # k => ~ Submitting(j)
  BY <1>5 DEF Submitting
<1>9. Placed(k)
  BY <1>4, NoneIsNoBlock DEF Placed
<1>10. OnDisk'
  <2> SUFFICES ASSUME NEW j \in Keys, Tracked(j)', ~ InFlight(j)' PROVE media[map[j]] = j
    BY <1>1 DEF OnDisk
  <2>1. j # k /\ ~ InFlight(j)
    BY <1>1, <1>5 DEF InFlight
  <2> QED
    BY <1>6, <1>7, <1>8, <2>1 DEF PayloadInv, OnDisk
<1>11. BiosGoHome'
  BY <1>1, <1>4, <1>5, <1>7 DEF PayloadInv, BiosGoHome
<1>12. NoStrayBio'
  <2> SUFFICES ASSUME NEW b \in bios', NEW j \in Keys, Tracked(j)', b.pba = map[j] PROVE b.key = j
    BY <1>1 DEF NoStrayBio
  <2>1. CASE b \in bios /\ j # k
    BY <1>7, <1>8, <2>1 DEF PayloadInv, NoStrayBio
  <2>2. CASE b \in bios /\ j = k
    <3>1. b.key \in KeysInFlightTo({bio.pba})
      BY <1>4, <1>5, <2>2 DEF KeysInFlightTo
    <3>2. k \in Joining(rmw.bio)
      BY <1>5, <3>1 DEF Joining
    <3> QED
      BY <1>1, <2>2, <3>2 DEF Tracked
  <2>3. CASE b = bio /\ j # k
    <3>1. Placed(j) /\ map[j] = map[k]
      BY <1>4, <1>5, <1>7, <2>3 DEF Tracked
    <3> QED
      BY <1>5, <1>9, <2>3, <3>1 DEF PlaceInv, Apart
  <2>4. CASE b = bio /\ j = k
    BY <1>5, <2>4
  <2> QED
    BY <1>1, <1>5, <2>1, <2>2, <2>3, <2>4
<1>13. HeldBack'
  BY <1>3 DEF HeldBack
<1>14. SavedNewest'
  BY <1>1, <1>3, <1>7, ZenonT(40) DEF PayloadInv, SavedNewest
<1>15. TrackedWritten' /\ ZonesInOrder'
  BY <1>1, TrackedWrittenKept, ZonesInOrderKept DEF PayloadInv
<1>16. CopiesKept'
  BY <1>1, <1>6 DEF CopiesKept
<1> QED
  BY <1>10, <1>11, <1>12, <1>13, <1>14, <1>15, <1>16 DEF PayloadInv

LEMMA WriteBackPayload ==
  ASSUME TypeInv, PlaceInv, PayloadInv, RmwWriteBack
  PROVE  PayloadInv'
<1>1. /\ rmw.pc = "write back"
      /\ media' = [media EXCEPT ![Head(rmw.tops)] = Head(rmw.saved)]
      /\ rmw' = IF Len(rmw.tops) = 1 THEN RmwIdle
                ELSE [rmw EXCEPT !.tops = Tail(rmw.tops), !.saved = Tail(rmw.saved)]
      /\ UNCHANGED <<map, mapSize, used, bios, written, cmp, incidents, exposed, stale, freed>>
      /\ media \in [Pbas -> Keys \cup {Garbage}]
  BY DEF RmwWriteBack, SavedFirst, TypeInv, TypeOK
<1>2. /\ rmw \in RmwRecords
      /\ rmw.tops \in Seq(TopPbas) /\ rmw.saved \in Seq(Keys \cup {Garbage})
      /\ Len(rmw.tops) \in Nat \ {0} /\ Len(rmw.saved) = Len(rmw.tops)
  BY <1>1, RmwRunning, Zenon
<1>3. rmw.tops # <<>> /\ rmw.saved # <<>>
  BY <1>2, EmptySeq
<1>4. /\ Head(rmw.tops) = rmw.tops[1] /\ Head(rmw.saved) = rmw.saved[1]
      /\ Len(Tail(rmw.tops)) = Len(rmw.tops) - 1 /\ Len(Tail(rmw.saved)) = Len(rmw.saved) - 1
      /\ \A i \in 1..(Len(rmw.tops) - 1) :
           /\ Tail(rmw.tops)[i] = rmw.tops[i + 1] /\ Tail(rmw.saved)[i] = rmw.saved[i + 1]
           /\ i + 1 \in 1..Len(rmw.saved)
      /\ 1 \in 1..Len(rmw.saved)
  BY <1>2, <1>3, HeadTailProperties
<1>5. cmp.pc # "copy" /\ \A k : ~ Overwritten(k)
  BY <1>1, OneAtATime, NoCopies
<1>6. rmw' = RmwIdle \/ (rmw'.pc = "write back" /\ rmw'.tops = Tail(rmw.tops) /\ rmw'.saved = Tail(rmw.saved))
  BY <1>1, <1>2 DEF RmwRecords
<1>7. \A k : /\ Tracked(k)' <=> Tracked(k)
             /\ ~ Submitting(k) /\ ~ Submitting(k)'
             /\ ~ Overwritten(k)'
             /\ InFlight(k)' <=> InFlight(k)
  BY <1>1, <1>5, <1>6 DEF Tracked, Placed, Submitting, Overwritten, InFlight, RmwIdle
<1>8. OnDisk'
  <2> SUFFICES ASSUME NEW k \in Keys, Tracked(k), ~ InFlight(k) PROVE media'[map[k]] = k
    BY <1>1, <1>7 DEF OnDisk
  <2>1. media[map[k]] = k /\ map[k] \in Pbas
    BY <1>5, <1>7 DEF PayloadInv, OnDisk, Tracked
  <2>2. CASE map[k] = Head(rmw.tops)
    <3>1. rmw.saved[1] = k
      BY <1>1, <1>4, <2>2 DEF PayloadInv, SavedNewest
    <3> QED
      BY <1>1, <1>4, <2>1, <2>2, <3>1
  <2>3. CASE map[k] # Head(rmw.tops)
    BY <1>1, <2>1, <2>3
  <2> QED
    BY <2>2, <2>3
<1>9. BiosGoHome' /\ NoStrayBio'
  BY <1>1, <1>7 DEF PayloadInv, BiosGoHome, NoStrayBio
<1>10. HeldBack'
  <2>1. rmw' = RmwIdle => rmw'.pc = "idle"
    BY DEF RmwIdle
  <2>2. rmw'.pc = "idle" \/ rmw'.pc = "write back"
    BY <1>6, <2>1, Zenon
  <2> QED
    BY <2>2 DEF HeldBack
<1>11. SavedNewest'
  <2>1. CASE rmw' = RmwIdle
    BY <2>1, NoRmwNext
  <2>2. CASE rmw'.tops = Tail(rmw.tops) /\ rmw'.saved = Tail(rmw.saved)
    <3> SUFFICES ASSUME NEW i \in 1..Len(rmw'.saved), NEW k \in Keys, Tracked(k), map[k] = rmw'.tops[i]
                 PROVE  rmw'.saved[i] = k
      BY <1>1, <1>7 DEF SavedNewest
    <3>1. i \in 1..(Len(rmw.tops) - 1)
      BY <1>2, <1>4, <2>2, Zenon
    <3>2. /\ rmw'.tops[i] = rmw.tops[i + 1] /\ rmw'.saved[i] = rmw.saved[i + 1]
          /\ i + 1 \in 1..Len(rmw.saved)
      BY <1>4, <2>2, <3>1, Zenon
    <3> QED
      BY <1>1, <3>2 DEF PayloadInv, SavedNewest
  <2> QED
    BY <1>6, <2>1, <2>2
<1>12. TrackedWritten' /\ ZonesInOrder'
  BY <1>1, TrackedWrittenKept, ZonesInOrderKept DEF PayloadInv
<1>13. CopiesKept'
  BY <1>1, <1>5 DEF CopiesKept
<1> QED
  BY <1>8, <1>9, <1>10, <1>11, <1>12, <1>13 DEF PayloadInv

-----------------------------------------------------------------------------
(* Compactions and resets.                                                 *)

LEMMA BeginPayload ==
  ASSUME TypeInv, PayloadInv, NEW z \in CompactZones, CompactBegin(z)
  PROVE  PayloadInv'
<1>1. /\ LockFree /\ mapSize[z] >= TOTAL
      /\ cmp' = [pc |-> "copy", zone |-> z, next |-> 0, out |-> <<>>]
      /\ UNCHANGED <<map, mapSize, used, media, bios, written, rmw, incidents, exposed, stale, freed>>
  BY DEF CompactBegin
<1>2. cmp'.zone = z /\ Len(cmp'.out) = Len(<<>>) /\ Len(<<>>) = 0
  BY <1>1, EmptySeq
<1>3. 1..Len(cmp'.out) = {}
  BY <1>2
<1>4. rmw' = RmwIdle /\ \A k : ~ Submitting(k) /\ ~ Overwritten(k)
  BY <1>1, FreeLock
<1>5. \A k : Tracked(k)' => Tracked(k)
  BY <1>1, TrackedStays
<1>6. OnDisk' /\ BiosGoHome' /\ NoStrayBio'
  BY <1>1, <1>4, <1>5 DEF PayloadInv, OnDisk, BiosGoHome, NoStrayBio, InFlight
<1>7. TrackedWritten' /\ ZonesInOrder'
  BY <1>1, TrackedWrittenKept, ZonesInOrderKept DEF PayloadInv
<1>8. CopiesKept'
  BY <1>1, <1>2, <1>3 DEF CopiesKept
<1> QED
  BY <1>4, <1>6, <1>7, <1>8, NoRmwNext DEF PayloadInv

\* No copy made so far went over the block of the key to be copied next.
LEMMA NextNotOverwritten ==
  ASSUME TypeInv, PlaceInv, PayloadInv, ZonesHold, CompactsApart, CompactBlock,
         Tracked(ZoneStart(cmp.zone) + cmp.next)
  PROVE  ~ Overwritten(ZoneStart(cmp.zone) + cmp.next)
<1> DEFINE key == ZoneStart(cmp.zone) + cmp.next
<1>1. cmp.pc = "copy" /\ cmp.next < TOTAL
  BY DEF CompactBlock
<1>2. /\ cmp.zone \in Compactable /\ cmp.zone \in Zones /\ ZoneStart(cmp.zone) \in Nat
      /\ cmp.next \in 0..TOTAL /\ Len(cmp.out) \in Nat /\ Len(cmp.out) <= cmp.next
      /\ \A i \in 1..Len(cmp.out) : cmp.out[i].pba = Destination(cmp.zone, i - 1)
  BY <1>1, Copying, Zenon DEF PlaceInv
<1>3. cmp.zone + 1 \in Zones /\ TOTAL <= MaxMapped /\ cmp.zone \in Nat
  BY <1>1, CmpRunning
<1>4. cmp.next \in 0..(TOTAL - 1) /\ cmp.next \in 0..(MaxMapped - 1)
  BY <1>1, <1>2, <1>3, GeometryFacts, Constants
<1>5. key \in Keys /\ ZoneOf(key) = cmp.zone
  BY <1>2, <1>4, ZoneKey
<1>6. Offset(key) = cmp.next
  <2>1. key = ZoneStart(cmp.zone) + Offset(key) /\ Offset(key) \in Nat
    BY <1>5, KeyZone
  <2>2. key = ZoneStart(cmp.zone) + cmp.next
    OBVIOUS
  <2> HIDE DEF key
  <2> QED
    BY <1>2, <1>4, <2>1, <2>2
<1> HIDE DEF key
<1>7. Filling(cmp.zone)
  <2>1. Filling(cmp.zone) \/ Filled(cmp.zone)
    BY <1>2 DEF PayloadInv, ZonesInOrder
  <2>2. mapSize[cmp.zone] >= TOTAL /\ mapSize[cmp.zone] \in 0..MaxMapped
    BY <1>1, <1>2 DEF PayloadInv, CopiesKept, TypeInv, TypeOK
  <2>3. ~ (mapSize[cmp.zone] <= BottomBlocks)
    <3>1. BottomBlocks < TOTAL
      <4>1. TOP * TRACKS > 0
        BY GeometryFacts, SMT
      <4> QED
        BY <4>1, GeometryFacts
    <3> QED
      BY <2>2, <3>1, GeometryFacts, Constants
  <2> QED
    BY <2>1, <2>3 DEF Filled
<1>8. Placed(key)
  BY DEF Tracked, key
<1>9. map[key] = Allocated(cmp.zone, cmp.next)
  BY <1>5, <1>6, <1>7, <1>8 DEF Filling, ZoneKeys
<1> SUFFICES ASSUME NEW i \in 1..Len(cmp.out), cmp.out[i].pba = map[key] PROVE FALSE
  BY DEF Overwritten, key
<1>10. i - 1 \in 0..(TOTAL - 1) /\ i - 1 < cmp.next
  BY <1>2, <1>4, GeometryFacts
<1>11. Destination(cmp.zone, i - 1) = Allocated(cmp.zone, cmp.next)
  BY <1>2, <1>9
<1>12. /\ i - 1 < BottomBlocks => Destination(cmp.zone, i - 1) = Allocated(cmp.zone, i - 1)
       /\ i - 1 >= BottomBlocks =>
            /\ (i - 1) - BottomBlocks \in 0..(BottomBlocks - 1)
            /\ Destination(cmp.zone, i - 1) = Allocated(cmp.zone + 1, (i - 1) - BottomBlocks)
  BY <1>2, <1>3, <1>10, DestinationPba
<1>13. CASE i - 1 < BottomBlocks
  <2>1. i - 1 \in 0..(MaxMapped - 1) /\ Allocated(cmp.zone, i - 1) = Allocated(cmp.zone, cmp.next)
    BY <1>3, <1>10, <1>11, <1>12, <1>13, GeometryFacts, Constants
  <2>2. i - 1 = cmp.next
    BY <1>2, <1>4, <2>1, AllocatedApart
  <2> QED
    BY <1>4, <1>10, <2>2
<1>14. CASE i - 1 >= BottomBlocks
  <2>1. /\ (i - 1) - BottomBlocks \in 0..(MaxMapped - 1)
        /\ Allocated(cmp.zone + 1, (i - 1) - BottomBlocks) = Allocated(cmp.zone, cmp.next)
    BY <1>3, <1>10, <1>11, <1>12, <1>14, GeometryFacts, Constants
  <2>2. cmp.zone + 1 = cmp.zone
    BY <1>2, <1>3, <1>4, <2>1, AllocatedApart
  <2> QED
    BY <1>3, <2>2
<1> QED
  BY <1>10, <1>13, <1>14, GeometryFacts

LEMMA BlockPayload ==
  ASSUME TypeInv, PlaceInv, PayloadInv, ZonesHold, CompactsApart, CompactBlock
  PROVE  PayloadInv'
<1>1. /\ cmp.pc = "copy" /\ cmp.next < TOTAL
      /\ UNCHANGED <<map, mapSize, used, bios, written, rmw, incidents, stale, freed>>
      /\ media \in [Pbas -> Keys \cup {Garbage}]
  BY DEF CompactBlock, TypeInv, TypeOK
<1>2. /\ cmp \in [pc : {"copy"}, zone : Zones, next : 0..TOTAL,
                  out : Seq([key : HostKeys, pba : Nat])]
      /\ cmp.zone + 1 \in Zones /\ cmp.zone \in Nat /\ cmp.zone \in Zones
      /\ Len(cmp.out) \in Nat /\ Len(cmp.out) <= cmp.next /\ TOTAL <= MaxMapped
  BY <1>1, CmpRunning
<1>3. /\ cmp.next \in 0..(TOTAL - 1)
      /\ \E len \in Nat : len = Len(cmp.out) /\ len \in 0..(TOTAL - 1)
  BY <1>1, <1>2, GeometryFacts
<1> PICK len \in Nat : len = Len(cmp.out) /\ len \in 0..(TOTAL - 1)
  BY <1>3
<1>key. PICK key \in Keys : key = ZoneStart(cmp.zone) + cmp.next /\ ZoneOf(key) = cmp.zone
  BY <1>2, <1>3, ZoneKey
<1>dest. PICK dest \in Pbas : dest = Destination(cmp.zone, len)
  BY <1>2, <1>3, DestinationPba
<1> PICK new : new = [key |-> key, pba |-> dest]
  OBVIOUS
<1>new. new = [key |-> key, pba |-> dest] /\ new.key = key /\ new.pba = dest
  OBVIOUS
<1>4. /\ rmw = RmwIdle
      /\ \A i \in 1..len : cmp.out[i].pba = Destination(cmp.zone, i - 1)
                          /\ cmp.out[i].key \in Keys
  BY <1>1, Copying, Zenon DEF PlaceInv
<1>5. \A i \in 1..len : i - 1 \in 0..(TOTAL - 1) /\ i - 1 # len
  BY <1>3, GeometryFacts
<1>6. \A i \in 1..len : cmp.out[i].pba # dest /\ cmp.out[i].pba \in Pbas
  <2> SUFFICES ASSUME NEW i \in 1..len
               PROVE  cmp.out[i].pba # dest /\ cmp.out[i].pba \in Pbas
    OBVIOUS
  <2>1. i - 1 \in 0..(TOTAL - 1) /\ i - 1 # len /\ cmp.out[i].pba = Destination(cmp.zone, i - 1)
    BY <1>4, <1>5
  <2>2. cmp.out[i].pba \in Pbas
    BY <1>2, <2>1, DestinationPba
  <2>3. Destination(cmp.zone, i - 1) # Destination(cmp.zone, len)
    BY <1>2, <1>3, <2>1, DestinationInjective
  <2> QED
    BY <1>dest, <2>1, <2>2, <2>3
<1>7. \A k : ~ Submitting(k)
  BY <1>4, NoRmw
<1>8. exposed \subseteq exposed'
  BY DEF CompactBlock
<1>9. \A k : (Tracked(k)' => Tracked(k)) /\ (InFlight(k)' <=> InFlight(k)) /\ ~ Submitting(k)'
  BY <1>1, <1>7, <1>8, TrackedStays DEF InFlight, Submitting
<1>10. BiosGoHome' /\ NoStrayBio'
  BY <1>1, <1>7, <1>9 DEF PayloadInv, BiosGoHome, NoStrayBio
<1>11. HeldBack' /\ SavedNewest'
  BY <1>1, <1>4, NoRmwNext
<1>12. TrackedWritten' /\ ZonesInOrder'
  BY <1>1, <1>8, TrackedWrittenKept, ZonesInOrderKept DEF PayloadInv
<1>13. /\ mapSize[cmp.zone] >= TOTAL
       /\ \A i \in 1..len :
            /\ \A b \in bios : b.pba = cmp.out[i].pba => cmp.out[i].key \in exposed
            /\ Tracked(cmp.out[i].key) =>
                 ~ InFlight(cmp.out[i].key) /\ media[cmp.out[i].pba] = cmp.out[i].key
  BY <1>1 DEF PayloadInv, CopiesKept
<1>14. CASE map[key] = None
  <2>1. cmp' = [cmp EXCEPT !.next = cmp.next + 1] /\ media' = media
    BY <1>14, <1>key DEF CompactBlock
  <2>2. cmp'.pc = "copy" /\ cmp'.zone = cmp.zone /\ cmp'.out = cmp.out
    BY <1>2, <2>1
  <2>3. OnDisk'
    BY <1>1, <1>7, <1>9, <2>1, <2>2 DEF PayloadInv, OnDisk, Overwritten
  <2>4. CopiesKept'
    BY <1>1, <1>8, <1>9, <2>1, <2>2 DEF PayloadInv, CopiesKept
  <2> QED
    BY <1>10, <1>11, <1>12, <2>3, <2>4 DEF PayloadInv
<1>15. CASE map[key] # None
  <2>1. /\ media' = [media EXCEPT ![dest] = IF map[key] \in Pbas THEN media[map[key]] ELSE Garbage]
        /\ cmp' = [cmp EXCEPT !.next = cmp.next + 1, !.out = Append(cmp.out, new)]
        /\ exposed' = exposed \cup KeysInFlightTo({map[key], dest})
                        \cup (IF KeysInFlightTo({dest}) = {} THEN {} ELSE {key})
    BY <1>3, <1>15, <1>key, <1>dest, <1>new DEF CompactBlock
  <2>2. cmp'.pc = "copy" /\ cmp'.zone = cmp.zone /\ cmp'.out = Append(cmp.out, new)
    BY <1>2, <2>1
  <2>4. Tracked(key) => ~ Overwritten(key)
    BY <1>key, NextNotOverwritten
  <2>5. /\ Len(cmp'.out) = len + 1 /\ cmp'.out[len + 1] = new
        /\ \A i \in 1..len : cmp'.out[i] = cmp.out[i]
        /\ 1..(len + 1) = 1..len \cup {len + 1}
    BY <1>2, <1>new, <2>2, AppendProperties
  <2>6. /\ media'[dest] = IF map[key] \in Pbas THEN media[map[key]] ELSE Garbage
        /\ \A q \in Pbas : q # dest => media'[q] = media[q]
    BY <1>1, <1>6, <2>1
  <2>7. ASSUME NEW k \in Keys, ~ Overwritten(k)'
        PROVE  ~ Overwritten(k) /\ (map[k] = dest => k = key)
    <3>1. \A i \in 1..(len + 1) : cmp'.out[i].pba = map[k] => cmp'.out[i].key = k
      BY <1>1, <2>2, <2>5, <2>7 DEF Overwritten
    <3>2. ~ Overwritten(k)
      BY <2>5, <3>1 DEF Overwritten
    <3> QED
      BY <1>new, <2>5, <3>1, <3>2
  <2>8. OnDisk'
    <3> SUFFICES ASSUME NEW k \in Keys, Tracked(k)', ~ InFlight(k), ~ Overwritten(k)'
                 PROVE  media'[map[k]] = k
      BY <1>1, <1>9 DEF OnDisk
    <3>1. media[map[k]] = k /\ map[k] \in Pbas
      BY <1>7, <1>9, <2>7 DEF PayloadInv, OnDisk, Tracked
    <3>2. CASE map[k] = dest
      BY <2>6, <2>7, <3>1, <3>2
    <3>3. CASE map[k] # dest
      BY <2>6, <3>1, <3>3
    <3> QED
      BY <3>2, <3>3
  <2>9. ASSUME Tracked(key)' PROVE ~ InFlight(key) /\ media'[dest] = key
    <3>1. Tracked(key) /\ key \notin exposed' /\ map[key] \in Pbas
      BY <1>9, <2>9 DEF Tracked
    <3>2. ~ InFlight(key)
      <4> SUFFICES ASSUME NEW b \in bios, b.key = key PROVE FALSE
        BY DEF InFlight
      <4>1. b.pba = map[key]
        BY <3>1 DEF PayloadInv, BiosGoHome
      <4>2. key \in KeysInFlightTo({map[key], dest})
        BY <4>1 DEF KeysInFlightTo
      <4> QED
        BY <2>1, <3>1, <4>2
    <3>3. media[map[key]] = key
      BY <1>7, <2>4, <3>1, <3>2 DEF PayloadInv, OnDisk
    <3> QED
      BY <2>6, <3>1, <3>2, <3>3
  <2>10. ASSUME NEW b \in bios, b.pba = dest PROVE key \in exposed'
    <3>1. b.key \in KeysInFlightTo({dest})
      BY <2>10 DEF KeysInFlightTo
    <3> QED
      BY <2>1, <3>1
  <2>11. ASSUME NEW i \in 1..(len + 1), NEW k \in Keys, NEW q, cmp'.out[i].key = k, cmp'.out[i].pba = q
         PROVE  /\ \A b \in bios : b.pba = q => k \in exposed'
                /\ Tracked(k)' => ~ InFlight(k) /\ media'[q] = k
    <3>1. CASE i \in 1..len
      <4>1. cmp.out[i].key = k /\ cmp.out[i].pba = q /\ q # dest /\ q \in Pbas
        BY <1>6, <2>5, <2>11, <3>1
      <4>2. /\ \A b \in bios : b.pba = q => k \in exposed
            /\ Tracked(k) => ~ InFlight(k) /\ media[q] = k
        BY <1>13, <3>1, <4>1
      <4> QED
        BY <1>8, <1>9, <2>6, <4>1, <4>2
    <3>2. CASE i = len + 1
      <4>1. k = key /\ q = dest
        BY <1>new, <2>5, <2>11, <3>2
      <4> QED
        BY <2>9, <2>10, <4>1
    <3> QED
      BY <2>5, <3>1, <3>2
  <2>12. \A i \in 1..(len + 1) : cmp'.out[i].key \in Keys
    BY <1>4, <1>new, <2>5
  <2>13. CopiesKept'
    <3>1. mapSize'[cmp'.zone] >= TOTAL /\ Len(cmp'.out) = len + 1
      BY <1>1, <1>13, <2>2, <2>5
    <3> SUFFICES ASSUME NEW i \in 1..(len + 1), NEW k \in Keys, NEW q,
                        cmp'.out[i].key = k, cmp'.out[i].pba = q
                 PROVE  /\ \A b \in bios' : b.pba = q => k \in exposed'
                        /\ Tracked(k)' => ~ InFlight(k)' /\ media'[q] = k
      BY <2>12, <3>1 DEF CopiesKept, Tracked, Placed, InFlight
    <3> QED
      BY <1>1, <1>9, <2>11
  <2> QED
    BY <1>10, <1>11, <1>12, <2>8, <2>13 DEF PayloadInv
<1> QED
  BY <1>14, <1>15

LEMMA FailsPayload ==
  ASSUME TypeInv, PlaceInv, PayloadInv, CompactFails
  PROVE  PayloadInv'
<1>1. /\ cmp.pc = "copy" /\ cmp' = CmpIdle
      /\ exposed' = exposed \cup {k \in written : \E i \in DOMAIN cmp.out :
                                   cmp.out[i].pba = map[k] /\ cmp.out[i].key # k}
      /\ UNCHANGED <<map, mapSize, used, media, bios, written, rmw, stale, freed>>
  BY DEF CompactFails
<1>2. DOMAIN cmp.out = 1..Len(cmp.out)
  <2>1. cmp.out \in Seq([key : HostKeys, pba : Nat])
    BY <1>1, CmpRunning
  <2> QED
    BY <2>1, LenProperties
<1>3. rmw = RmwIdle /\ \A k : ~ Submitting(k)
  BY <1>1, OneAtATime, NoRmw
<1>4. \A k : (Tracked(k)' => Tracked(k)) /\ (InFlight(k)' <=> InFlight(k))
  BY <1>1, TrackedStays DEF InFlight
<1>5. OnDisk'
  <2> SUFFICES ASSUME NEW k \in Keys, Tracked(k)', ~ InFlight(k) PROVE media[map[k]] = k
    BY <1>1, <1>4 DEF OnDisk
  <2>1. Tracked(k) /\ k \in written /\ k \notin exposed'
    BY <1>4 DEF PayloadInv, TrackedWritten, Tracked
  <2>2. ~ Overwritten(k)
    BY <1>1, <1>2, <2>1 DEF Overwritten
  <2> QED
    BY <1>3, <2>1, <2>2 DEF PayloadInv, OnDisk
<1>6. BiosGoHome' /\ NoStrayBio'
  BY <1>1, <1>3, <1>4 DEF PayloadInv, BiosGoHome, NoStrayBio
<1>7. TrackedWritten' /\ ZonesInOrder'
  BY <1>1, TrackedWrittenKept, ZonesInOrderKept DEF PayloadInv
<1> QED
  BY <1>1, <1>3, <1>5, <1>6, <1>7, NoCopiesNext, NoRmwNext DEF PayloadInv

\* A key that a compaction has moved is on the disk where it was copied to, unless it is
\* exposed, and no bio of it or to its new block is in flight.
LEMMA MovedPayload ==
  ASSUME TypeInv, PlaceInv, PayloadInv, ZonesHold, CompactEnd, NEW k \in Keys, Moved(k) # {},
         Tracked(k)'
  PROVE  /\ ZoneOf(k) = cmp.zone /\ Tracked(k) /\ ~ InFlight(k) /\ media[map'[k]] = k
         /\ \A b \in bios : b.pba # map'[k]
<1>1. /\ cmp.pc = "copy" /\ exposed' = exposed \cup {j \in stale : Moved(j) # {}}
  BY DEF CompactEnd
<1>2. PICK i \in 1..Len(cmp.out) : cmp.out[i].key = k /\ map'[k] = Destination(cmp.zone, i - 1)
  BY MovedBlock
<1>3. /\ cmp.out[i].pba = Destination(cmp.zone, i - 1) /\ ZoneOf(k) = cmp.zone /\ map[k] # None
      /\ cmp.zone \in Compactable
  BY <1>1, <1>2, Copying, Zenon DEF PlaceInv
<1>4. k \notin stale /\ k \notin exposed
  BY <1>1 DEF Tracked
<1>5. PICK y \in Zones, n \in Nat : LocatedAt(k, y, n)
  BY <1>3, <1>4 DEF PlaceInv, AllLocated, Placed
<1>6. map[k] \in Pbas
  <2>1. n \in 0..(MaxMapped - 1) /\ map[k] = Allocated(y, n)
    BY <1>5, AllocatedIndex DEF LocatedAt
  <2>2. NumZones # 1
    <3>1. cmp.zone + 1 \in Zones /\ cmp.zone \in Nat
      BY <1>1, CmpRunning
    <3> QED
      BY <3>1, GeometryFacts DEF Zones
  <2> QED
    BY <2>1, <2>2, AllocatedPba
<1>7. Tracked(k)
  BY <1>3, <1>4, <1>6 DEF Tracked, Placed
<1> QED
  BY <1>1, <1>2, <1>3, <1>4, <1>7 DEF PayloadInv, CopiesKept

\* The others are where they were, and no copy has gone over them.
LEMMA StayingPayload ==
  ASSUME TypeInv, PlaceInv, PayloadInv, ZonesHold, CompactsApart, CompactEnd, NEW k \in Keys,
         Moved(k) = {}, Tracked(k)'
  PROVE  Tracked(k) /\ map'[k] = map[k] /\ ~ Overwritten(k)
<1>1. cmp.pc = "copy" /\ exposed \subseteq exposed'
  BY DEF CompactEnd
<1>2. Placed(k) /\ map'[k] = map[k]
  BY StayingBlock DEF Tracked
<1>3. Tracked(k)
  BY <1>1, <1>2 DEF Tracked
<1>4. PICK y \in Zones \ {cmp.zone, cmp.zone + 1}, n \in Nat : LocatedAt(k, y, n)
  BY StayingBlock DEF Tracked
<1>5. n \in 0..(MaxMapped - 1) /\ map[k] = Allocated(y, n)
  BY <1>4, AllocatedIndex DEF LocatedAt
<1>6. /\ cmp.zone \in Zones /\ cmp.next \in 0..TOTAL /\ Len(cmp.out) \in Nat /\ Len(cmp.out) <= cmp.next
      /\ \A i \in 1..Len(cmp.out) : cmp.out[i].pba = Destination(cmp.zone, i - 1)
  BY <1>1, Copying, Zenon DEF PlaceInv
<1>7. cmp.zone + 1 \in Zones /\ TOTAL <= MaxMapped /\ cmp.zone \in Nat
  BY <1>1, CmpRunning
<1>8. NumZones # 1
  BY <1>7, GeometryFacts DEF Zones
<1>9. ASSUME NEW i \in 1..Len(cmp.out) PROVE cmp.out[i].pba # map[k]
  <2>1. i - 1 \in 0..(TOTAL - 1)
    <3>1. /\ Len(cmp.out) \in Nat /\ Len(cmp.out) <= cmp.next /\ cmp.next \in 0..TOTAL
          /\ TOTAL \in Nat
      BY <1>6, GeometryFacts, Zenon
    <3>2. \A t, l \in Nat : \A c \in 0..t : l <= c => \A j \in 1..l : j - 1 \in 0..(t - 1)
      OBVIOUS
    <3> QED
      BY <3>1, <3>2, Zenon
  <2>2. ZoneOf(Destination(cmp.zone, i - 1)) \in {cmp.zone, cmp.zone + 1}
    BY <1>6, <1>7, <2>1, DestinationPba
  <2>3. ZoneOf(map[k]) = y
    BY <1>4, <1>5, <1>8, AllocatedPba
  <2> QED
    BY <1>4, <1>6, <2>2, <2>3
<1> QED
  BY <1>2, <1>3, <1>9 DEF Overwritten

LEMMA EndInOrder ==
  ASSUME TypeInv, PlaceInv, PayloadInv, ZonesHold, CompactsApart, CompactEnd
  PROVE  ZonesInOrder'
<1>1. /\ cmp.pc = "copy" /\ mapSize' = Sizes(cmp.zone, Len(cmp.out))
      /\ written' = written
  BY DEF CompactEnd
<1>2. /\ cmp.zone \in Compactable /\ cmp.zone \in Zones /\ mapSize[cmp.zone + 1] = 0
      /\ Len(cmp.out) \in Nat
  BY <1>1, Copying, Zenon DEF PlaceInv
<1>3. cmp.zone + 1 \in Zones /\ cmp.zone \in Nat
  BY <1>1, CmpRunning
<1>4. mapSize \in [Zones -> 0..MaxMapped]
  BY DEF TypeInv, TypeOK
<1> SUFFICES ASSUME NEW z \in Compactable
             PROVE  /\ \A k \in ZoneKeys(z) : Placed(k)' => k \in written
                    /\ Filling(z)' \/ Filled(z)'
  BY <1>1 DEF ZonesInOrder
<1>5. z \in Zones /\ ZoneKeys(z) \subseteq Keys /\ z \in Nat
  BY Constants, ZoneNatural DEF Compactable, ZoneKeys
<1>6. /\ \A k \in ZoneKeys(z) : Placed(k) => k \in written
      /\ Filling(z) \/ Filled(z)
  BY DEF PayloadInv, ZonesInOrder
<1>7. CASE z = cmp.zone
  <2>1. mapSize[z] >= TOTAL /\ mapSize[z] \in 0..MaxMapped
    BY <1>1, <1>4, <1>5, <1>7 DEF PayloadInv, CopiesKept
  <2>2. ZoneKeys(z) \subseteq written
    <3>1. CASE Filled(z)
      BY <3>1 DEF Filled
    <3>2. CASE Filling(z)
      <4> SUFFICES ASSUME NEW k \in ZoneKeys(z) PROVE Offset(k) < mapSize[z]
        BY <3>2 DEF Filling
      <4>1. Offset(k) \in 0..(TOTAL - 1)
        BY <1>5, KeyZone
      <4> QED
        BY <2>1, <4>1, GeometryFacts, Constants
    <3> QED
      BY <1>6, <3>1, <3>2
  <2>3. mapSize'[z] <= BottomBlocks
    <3>1. z # z + 1 /\ BottomBlocks \in Nat
      BY <1>5, GeometryFacts
    <3>2. mapSize'[z] = IF Len(cmp.out) > BottomBlocks THEN BottomBlocks ELSE Len(cmp.out)
      BY <1>1, <1>3, <1>4, <1>5, <1>7, <3>1, Zenon DEF Sizes
    <3> QED
      BY <1>2, <3>1, <3>2
  <2> QED
    BY <1>1, <2>2, <2>3 DEF Filled
<1>8. CASE z # cmp.zone
  <2>1. z # cmp.zone + 1
    BY <1>2 DEF CompactsApart
  <2>2. mapSize'[z] = mapSize[z]
    BY <1>1, <1>4, <1>5, <1>8, <2>1 DEF Sizes
  <2>3. ASSUME NEW k \in ZoneKeys(z), Placed(k)' PROVE Placed(k) /\ map'[k] = map[k]
    <3>1. k \in Keys /\ ZoneOf(k) = z
      BY <1>5 DEF ZoneKeys
    <3>2. Moved(k) = {}
      <4> SUFFICES ASSUME Moved(k) # {} PROVE FALSE
        OBVIOUS
      <4>1. PICK i \in 1..Len(cmp.out) : cmp.out[i].key = k
        BY <3>1, MovedBlock
      <4>2. ZoneOf(k) = cmp.zone
        BY <1>1, <4>1, Copying, Zenon DEF PlaceInv
      <4> QED
        BY <1>8, <3>1, <4>2
    <3> QED
      BY <2>3, <3>1, <3>2, StayingBlock
  <2>4. Filling(z) => Filling(z)'
    BY <1>1, <2>2, <2>3 DEF Filling
  <2>5. Filled(z) => Filled(z)'
    BY <1>1, <2>2 DEF Filled
  <2> QED
    BY <1>6, <2>3, <2>4, <2>5
<1> QED
  BY <1>7, <1>8

LEMMA EndPayload ==
  ASSUME TypeInv, PlaceInv, PayloadInv, ZonesHold, CompactsApart, CompactEnd
  PROVE  PayloadInv'
<1>1. /\ cmp.pc = "copy" /\ cmp' = CmpIdle /\ stale' \subseteq stale
      /\ UNCHANGED <<media, bios, written, rmw>>
  BY DEF CompactEnd
<1>2. rmw = RmwIdle /\ \A k : ~ Submitting(k)
  BY <1>1, OneAtATime, NoRmw
<1>3. rmw' = RmwIdle /\ \A k : ~ Submitting(k)' /\ (InFlight(k)' <=> InFlight(k))
  BY <1>1, <1>2, NoRmwNext DEF InFlight
<1>4. \A k \in Keys : Tracked(k)' => Tracked(k)
  BY MovedPayload, StayingPayload
<1>5. OnDisk'
  <2> SUFFICES ASSUME NEW k \in Keys, Tracked(k)', ~ InFlight(k) PROVE media[map'[k]] = k
    BY <1>1, <1>3 DEF OnDisk
  <2>1. CASE Moved(k) # {}
    BY <2>1, MovedPayload
  <2>2. CASE Moved(k) = {}
    BY <1>2, <2>2, StayingPayload DEF PayloadInv, OnDisk
  <2> QED
    BY <2>1, <2>2
<1>6. BiosGoHome'
  <2> SUFFICES ASSUME NEW b \in bios, Tracked(b.key)' PROVE b.pba = map'[b.key]
    BY <1>1 DEF BiosGoHome
  <2>1. b.key \in Keys /\ InFlight(b.key)
    BY BioTypes DEF InFlight
  <2>2. Moved(b.key) = {}
    BY <2>1, MovedPayload
  <2>3. Tracked(b.key) /\ map'[b.key] = map[b.key]
    BY <2>1, <2>2, StayingPayload
  <2> QED
    BY <2>3 DEF PayloadInv, BiosGoHome
<1>7. NoStrayBio'
  <2> SUFFICES ASSUME NEW b \in bios, NEW k \in Keys, Tracked(k)', b.pba = map'[k] PROVE b.key = k
    BY <1>1 DEF NoStrayBio
  <2>1. Moved(k) = {}
    BY MovedPayload
  <2> QED
    BY <1>2, <2>1, StayingPayload DEF PayloadInv, NoStrayBio
<1>8. TrackedWritten'
  BY <1>1, <1>4 DEF PayloadInv, TrackedWritten
<1> QED
  BY <1>1, <1>3, <1>5, <1>6, <1>7, <1>8, EndInOrder, NoCopiesNext, NoRmwNext DEF PayloadInv

LEMMA ResetPayload ==
  ASSUME TypeInv, ResetZones
  PROVE  PayloadInv'
<1>1. /\ LockFree /\ stale' = {k \in Keys : map[k] # None} /\ written' = {}
      /\ mapSize' = [z \in Zones |-> 0]
      /\ UNCHANGED <<map, media, bios, rmw, cmp, exposed, freed>>
  BY DEF ResetZones, MayReset
<1>2. rmw' = RmwIdle /\ cmp' = CmpIdle
  BY <1>1 DEF LockFree
<1>3. \A k \in Keys : ~ Placed(k)' /\ ~ Tracked(k)'
  BY <1>1 DEF Placed, Tracked
<1>4. \A b \in bios : b.key \in Keys
  BY BioTypes
<1>5. OnDisk' /\ BiosGoHome' /\ NoStrayBio' /\ TrackedWritten'
  BY <1>1, <1>3, <1>4 DEF OnDisk, BiosGoHome, NoStrayBio, TrackedWritten
<1>6. ZonesInOrder'
  <2> SUFFICES ASSUME NEW z \in Compactable, NEW k \in ZoneKeys(z)
               PROVE  k \in Keys /\ ~ (Offset(k) < mapSize'[z])
    BY <1>1, <1>3 DEF ZonesInOrder, Filling
  <2>1. k \in Keys /\ z \in Zones
    BY Constants DEF ZoneKeys, Compactable
  <2>2. Offset(k) \in Nat /\ mapSize'[z] = 0
    BY <1>1, <2>1, KeyZone
  <2> QED
    BY <2>1, <2>2
<1> QED
  BY <1>2, <1>5, <1>6, NoCopiesNext, NoRmwNext DEF PayloadInv

\* Steps that touch nothing the invariant speaks of.
LEMMA PayloadUntouched ==
  ASSUME PayloadInv,
         UNCHANGED <<map, mapSize, media, bios, written, rmw, cmp, exposed, stale>>
  PROVE  PayloadInv'
<1>1. \A k : /\ Tracked(k)' <=> Tracked(k)
             /\ Submitting(k)' <=> Submitting(k)
             /\ Overwritten(k)' <=> Overwritten(k)
             /\ InFlight(k)' <=> InFlight(k)
  BY DEF Tracked, Placed, Submitting, Overwritten, InFlight
<1>2. OnDisk' /\ BiosGoHome' /\ NoStrayBio'
  BY <1>1 DEF PayloadInv, OnDisk, BiosGoHome, NoStrayBio
<1>3. HeldBack' /\ SavedNewest'
  BY <1>1 DEF PayloadInv, HeldBack, SavedNewest
<1>4. TrackedWritten' /\ ZonesInOrder'
  BY TrackedWrittenKept, ZonesInOrderKept DEF PayloadInv
<1>5. CopiesKept'
  BY <1>1 DEF PayloadInv, CopiesKept
<1> QED
  BY <1>2, <1>3, <1>4, <1>5 DEF PayloadInv

LEMMA PayloadStep ==
  ASSUME SingleBlocks, ZonesHold, CompactsApart, FillsInOrder, TypeInv, PlaceInv, PayloadInv,
         [Next]_vars
  PROVE  PayloadInv'
<1>1. CASE UNCHANGED vars
  BY <1>1, PayloadUntouched DEF vars
<1>2. CASE ResetZonesFails
  BY <1>2, PayloadUntouched DEF ResetZonesFails
<1>3. CASE Next
  BY <1>2, <1>3, RejectedPayload, WrittenPayload, DiscardPayload, LandsPayload, ReadPayload,
     GonePayload, SubmitPayload, WriteBackPayload, BeginPayload, BlockPayload, FailsPayload,
     EndPayload, ResetPayload DEF Next
<1> QED
  BY <1>1, <1>3

\* A payload is lost in the ways LostOnlyExposed lists and in no other, for every geometry,
\* queue depth and number of zones, whatever fails and however bios, RMWs, compactions and
\* resets interleave.  To the hypotheses of BlocksApart this adds that the zones to be
\* compacted are filled in order.
THEOREM LossesExplained ==
  ASSUME SingleBlocks, ZonesHold, CompactsApart, FillsInOrder
  PROVE  Spec => []LostOnlyExposed
<1>1. TypeInv /\ PlaceInv /\ PayloadInv /\ [Next]_vars => PayloadInv'
  BY PayloadStep
<1>2. PayloadInv => LostOnlyExposed
  <2> SUFFICES ASSUME PayloadInv, NEW k \in HostKeys, Settled(k), k \notin exposed \cup stale
               PROVE  media[map[k]] = k
    BY DEF LostOnlyExposed
  <2>1. LockFree /\ map[k] \in Pbas /\ ~ InFlight(k) /\ k \in Keys
    BY Constants DEF Settled
  <2>2. Tracked(k)
    BY <2>1, NoneIsNoBlock DEF Tracked, Placed
  <2>3. ~ Submitting(k) /\ ~ Overwritten(k)
    BY <2>1, FreeLock
  <2> QED
    BY <2>1, <2>2, <2>3 DEF PayloadInv, OnDisk
<1> QED
  BY <1>1, <1>2, PayloadInit, TypesKept, PlaceKept, PTL DEF Spec

-----------------------------------------------------------------------------
(* One bio at a time, and nothing that fails.                              *)

\* The host waits for every write, compactions wait for the disk, and there are no resets
\* and no failed compactions.
OneWriteAtATime == QueueDepth = 1 /\ ~ CompactBusy /\ MaxIncidents = 0

\* While an RMW holds its write back, or a compaction copies, no bio is in flight.
Quiet ==
  /\ exposed = {} /\ stale = {}
  /\ rmw.pc \in {"back up", "write"} => bios = {}
  /\ cmp.pc = "copy" => bios = {}

\* No bio is in flight if the queue of one has room.
LEMMA EmptyQueue ==
  ASSUME TypeInv, QueueDepth = 1, NEW m \in Nat, m > 0, Cardinality(bios) + m <= QueueDepth
  PROVE  bios = {}
<1>1. IsFiniteSet(bios) /\ Cardinality(bios) \in Nat
  BY FS_CardinalityType DEF TypeInv
<1>2. Cardinality(bios) = 0
  BY <1>1
<1> QED
  BY <1>1, <1>2, FS_EmptySet

LEMMA NoIncident ==
  ASSUME TypeInv, OneWriteAtATime
  PROVE  ~ (incidents < MaxIncidents)
<1>1. incidents \in 0..MaxIncidents
  BY DEF TypeInv, TypeOK
<1> QED
  BY <1>1 DEF OneWriteAtATime

LEMMA NobodyInFlight ==
  ASSUME bios = {}
  PROVE  \A S : KeysInFlightTo(S) = {} /\ Joining(S) = {}
BY DEF KeysInFlightTo, Joining

LEMMA QuietWrite ==
  ASSUME TypeInv, SingleBlocks, OneWriteAtATime, Quiet, NEW k \in HostKeys, NEW n \in 1..MaxBlocks,
         HostWrite(k, n)
  PROVE  Quiet'
<1>1. n = 1 /\ cmp' = CmpIdle
  BY SingleWrite DEF LockFree
<1>2. Cardinality(bios) + 1 <= QueueDepth /\ stale' \subseteq stale /\ LockFree
  BY <1>1 DEF HostWrite, MayWrite
<1>3. bios = {}
  BY <1>2, EmptyQueue DEF OneWriteAtATime
<1>4. exposed' \subseteq exposed /\ (rmw' = rmw \/ bios' = bios)
  BY <1>3, NobodyInFlight DEF HostWrite
<1> QED
  <2>1. exposed' = {} /\ stale' = {}
    BY <1>2, <1>4 DEF Quiet
  <2>2. cmp'.pc # "copy"
    BY <1>1 DEF CmpIdle
  <2>3. rmw'.pc \in {"back up", "write"} => bios' = {}
    <3>1. CASE rmw' = rmw
      <4>1. rmw'.pc = "idle"
        BY <1>2, <3>1, FreeLock
      <4> QED
        BY <4>1
    <3>2. CASE bios' = bios
      BY <1>3, <3>2
    <3> QED
      BY <1>4, <3>1, <3>2
  <2> QED
    BY <2>1, <2>2, <2>3 DEF Quiet

LEMMA QuietRmw ==
  ASSUME TypeInv, PlaceInv, PayloadInv, OneWriteAtATime, Quiet, RmwRead \/ RmwGone \/ RmwWrite \/ RmwWriteBack
  PROVE  Quiet'
<1>1. rmw.pc # "idle" /\ rmw \in RmwRecords
  <2>1. rmw.pc # "idle"
    BY DEF RmwRead, RmwGone, RmwWrite, RmwWriteBack
  <2> QED
    BY <2>1, RmwRunning
<1>2. cmp.pc # "copy"
  BY <1>1, OneAtATime
<1>3. UNCHANGED <<cmp, stale>>
  BY DEF RmwRead, RmwGone, RmwWrite, RmwWriteBack
<1>4. CASE RmwRead
  <2>1. exposed' = {} /\ bios' = {}
    BY <1>4, NobodyInFlight DEF RmwRead, Quiet
  <2> QED
    BY <1>2, <1>3, <2>1 DEF Quiet
<1>5. CASE RmwGone
  BY <1>1, <1>2, <1>3, <1>5 DEF RmwGone, RmwRecords, Quiet
<1>6. CASE RmwWrite
  <2>1. exposed' = {}
    BY <1>6, NobodyInFlight DEF RmwWrite, Quiet
  <2>2. rmw'.pc = "write back"
    BY <1>1, <1>6 DEF RmwWrite, RmwRecords
  <2> QED
    BY <1>2, <1>3, <2>1, <2>2 DEF Quiet
<1>7. CASE RmwWriteBack
  <2>1. rmw'.pc \in {"idle", "write back"}
    BY <1>1, <1>7 DEF RmwWriteBack, RmwRecords, RmwIdle
  <2> QED
    BY <1>2, <1>3, <1>7, <2>1 DEF RmwWriteBack, Quiet
<1> QED
  BY <1>4, <1>5, <1>6, <1>7

LEMMA QuietCompact ==
  ASSUME TypeInv, PlaceInv, OneWriteAtATime, Quiet,
         (\E z \in CompactZones : CompactBegin(z)) \/ CompactBlock \/ CompactFails \/ CompactEnd
  PROVE  Quiet'
<1>1. CASE \E z \in CompactZones : CompactBegin(z)
  <2>1. bios' = {} /\ UNCHANGED <<exposed, stale, rmw>>
    BY <1>1 DEF CompactBegin, OneWriteAtATime
  <2> QED
    BY <2>1 DEF Quiet
<1>2. CASE CompactBlock
  <2>1. bios' = {} /\ UNCHANGED <<stale, rmw>>
    BY <1>2 DEF CompactBlock, Quiet
  <2>2. exposed' = {}
    BY <1>2, NobodyInFlight DEF CompactBlock, Quiet
  <2> QED
    BY <2>1, <2>2 DEF Quiet
<1>3. CASE CompactFails
  <2>1. cmp.out = <<>>
    BY <1>3, NoIncident DEF CompactFails
  <2>2. exposed' = {}
    <3>1. DOMAIN cmp.out = {}
      BY <2>1
    <3>2. exposed' = exposed \cup {k \in written : \E i \in DOMAIN cmp.out :
                                    cmp.out[i].pba = map[k] /\ cmp.out[i].key # k}
      BY <1>3 DEF CompactFails
    <3> QED
      BY <3>1, <3>2 DEF Quiet
  <2> QED
    BY <1>3, <2>2 DEF CompactFails, CmpIdle, Quiet
<1>4. CASE CompactEnd
  BY <1>4 DEF CompactEnd, CmpIdle, Quiet
<1> QED
  BY <1>1, <1>2, <1>3, <1>4

LEMMA QuietStep ==
  ASSUME SingleBlocks, OneWriteAtATime, TypeInv, PlaceInv, PayloadInv, Quiet, [Next]_vars
  PROVE  Quiet'
<1>1. CASE UNCHANGED vars
  BY <1>1 DEF vars, Quiet
<1>2. ASSUME NEW k \in HostKeys, NEW n \in 1..MaxBlocks, HostWriteRejected(k, n) PROVE Quiet'
  BY <1>2 DEF HostWriteRejected, Quiet
<1>3. ASSUME NEW k \in DiscardKeys, HostDiscard(k) PROVE Quiet'
  BY <1>3 DEF HostDiscard, Quiet
<1>4. ASSUME NEW b \in bios, BioLands(b) PROVE Quiet'
  BY <1>4 DEF BioLands, Quiet
<1>5. ~ MayReset
  BY NoIncident DEF MayReset
<1>6. CASE Next
  BY <1>2, <1>3, <1>4, <1>5, <1>6, QuietWrite, QuietRmw, QuietCompact
     DEF Next, ResetZones, ResetZonesFails
<1> QED
  BY <1>1, <1>6

\* With one bio in flight at a time and nothing that fails, no payload is ever lost: what a
\* read looks at is the newest, after writes, discards, RMWs and compactions in any order.
THEOREM PayloadsKept ==
  ASSUME SingleBlocks, ZonesHold, CompactsApart, FillsInOrder, OneWriteAtATime
  PROVE  Spec => []PayloadKept
<1>1. Init => Quiet
  BY DEF Init, Quiet, RmwIdle, CmpIdle
<1>2. TypeInv /\ PlaceInv /\ PayloadInv /\ Quiet /\ [Next]_vars => Quiet'
  BY QuietStep
<1>3. TypeInv /\ PlaceInv /\ PayloadInv /\ [Next]_vars => PayloadInv'
  BY PayloadStep
<1>4. Quiet /\ LostOnlyExposed => PayloadKept
  BY DEF Quiet, LostOnlyExposed, PayloadKept
<1> QED
  BY <1>1, <1>2, <1>3, <1>4, PayloadInit, LossesExplained, TypesKept, PlaceKept, PTL DEF Spec

===============================================================================
