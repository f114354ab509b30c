------------------------------- MODULE ImrZone -------------------------------
(***************************************************************************)
(* Where IMRSim puts blocks: the allocation of a zone's tracks, the        *)
(* mapping of host writes, the read-modify-write (RMW) of the top blocks   *)
(* that a bottom write would overwrite on an interlaced disk, and the      *)
(* compaction of a full zone into the bottom tracks of two zones.          *)
(*                                                                         *)
(* imrsim_map holds imrsim_zone_lock while it maps a bio and, if it takes  *)
(* the RMW path, until the RMW thread is done; zone compaction holds it    *)
(* from its first copy to its last change of the map.  The bios themselves *)
(* reach the disk later, whoever holds the lock.                           *)
(*                                                                         *)
(* A key is a logical block, a PBA a physical one.  map[k] is where a read *)
(* of k finds it: the newest record of the index, or the zone map.  Every  *)
(* operation here changes them together (module ImrLsm), but for the reset *)
(* of the zones: it clears the zone map only, and leaves stale keys.       *)
(***************************************************************************)
EXTENDS Naturals, Sequences, FiniteSets

CONSTANTS
  NumZones,      \* IMR_NUMZONES
  TOP, BOTTOM,   \* IMR_TOP_TRACK_SIZE, IMR_BOTTOM_TRACK_SIZE
  TRACKS,        \* TOP_TRACK_NUM_TOTAL
  PHASE,         \* IMR_ALLOCATION_PHASE
  HostKeys,      \* the keys the host uses
  MaxBlocks,     \* blocks of a host write
  QueueDepth,    \* bios the host keeps in flight
  InOrder,       \* does the host fill a zone in order, each key written anew once?
  DiscardKeys,   \* the keys the host discards
  CompactZones,  \* the zones that are compacted
  CompactBusy,   \* may a compaction begin while bios are in flight?
  AllocFails,    \* may the RMW thread find no page, or a reset no memory?
  MaxIncidents,  \* bound: zone compactions that fail, and resets of the zones
  MaxMapped      \* bound: z_map_size

TOTAL == (TOP + BOTTOM) * TRACKS                   \* TOTAL_ITEMS
Zones == 0..(NumZones - 1)
Keys == 0..(NumZones * TOTAL - 1)
Pbas == Keys
None == TOTAL * (NumZones + 2)                     \* -1 in z_pba_map
Garbage == None                                    \* a payload that is nobody's newest

ASSUME GeometryAssumption ==
  /\ {NumZones, TOP, BOTTOM, TRACKS, MaxBlocks, QueueDepth} \subseteq Nat \ {0}
  /\ TOP <= BOTTOM /\ PHASE \in {2, 3}
ASSUME HostAssumption ==
  /\ HostKeys \subseteq Keys /\ DiscardKeys \subseteq HostKeys
  /\ CompactZones \subseteq Zones /\ {MaxIncidents, MaxMapped} \subseteq Nat
  /\ {InOrder, CompactBusy, AllocFails} \subseteq BOOLEAN

VARIABLES
  map,       \* key -> PBA, or None
  mapSize,   \* z_map_size, per zone
  used,      \* the blocks of top tracks whose isUsedBlock is set
  media,     \* PBA -> the key whose newest payload it holds, or Garbage
  bios,      \* host writes mapped but not yet on the disk, block by block
  written,   \* history: the keys written since the last reset
  rmw,       \* the RMW thread
  cmp,       \* the zone compaction
  incidents, \* zone compactions that failed, and resets of the zones
  exposed,   \* history: the keys whose payload may be lost on the way, see LostOnlyExposed
  stale,     \* the keys the index still maps though a reset has cleared z_pba_map
  freed      \* has a reset freed zone_state and kept the lock?

vars == <<map, mapSize, used, media, bios, written, rmw, cmp, incidents, exposed, stale, freed>>

RmwIdle == [pc |-> "idle"]
CmpIdle == [pc |-> "idle"]
LockFree == rmw = RmwIdle /\ cmp = CmpIdle /\ ~freed

-----------------------------------------------------------------------------
(* Geometry.                                                               *)

ZoneOf(b) == b \div TOTAL
ZoneStart(z) == z * TOTAL
Offset(b) == b % TOTAL
Track(b) == Offset(b) \div (TOP + BOTTOM)
TrackStart(b) == b - (Offset(b) % (TOP + BOTTOM))
IsTop(b) == Offset(b) % (TOP + BOTTOM) < TOP

BottomBlocks == BOTTOM * TRACKS
BottomPba(z, i) ==
  ZoneStart(z) + (i \div BOTTOM) * (TOP + BOTTOM) + TOP + (i % BOTTOM)
TopBlock(track, i) == track * (TOP + BOTTOM) + (i % TOP)

AllocatedEarly(z, n) ==                            \* wrong: off by one at the boundary
  IF n <= BottomBlocks THEN BottomPba(z, n)
  ELSE ZoneStart(z) + TopBlock((n - BottomBlocks) \div TOP, n - BottomBlocks)
\* Bottom tracks first, then the top tracks: in order, or the even ones first.
Allocated(z, n) ==
  LET top == n - BottomBlocks
      half == (TOP * TRACKS) \div 2
  IN IF n < BottomBlocks THEN BottomPba(z, n)
     ELSE ZoneStart(z) +
       IF PHASE = 2 THEN TopBlock(top \div TOP, top)
       ELSE IF top < half THEN TopBlock(2 * (top \div TOP), top)
       ELSE TopBlock(2 * ((top - half) \div TOP) + 1, top - half)

\* The top block beside a bottom block, on its own track group.
TopIndex(b) ==
  LET blockno == (Offset(b) % (TOP + BOTTOM)) - TOP
      trackrate == (BOTTOM * 10000) \div TOP
  IN (blockno * 10000) \div trackrate
Beside(b) == TrackStart(b) + TopIndex(b)

-----------------------------------------------------------------------------
(* Host writes and discards.                                               *)

Blocks(k, n) == k..(k + n - 1)
InFlight(k) == \E b \in bios : b.key = k

\* What k held before is no longer its newest payload.
Outdate(keys) == [p \in Pbas |-> IF media[p] \in keys THEN Garbage ELSE media[p]]

\* z_pba_map[k] is -1.
Unmapped(k) == map[k] = None \/ k \in stale

TargetOfRecord(k) ==                               \* wrong: where the index has the key
  IF map[k] = None THEN Allocated(ZoneOf(k), mapSize[ZoneOf(k)]) ELSE map[k]
\* A key without a mapping gets the next block of its zone.
Target(k) ==
  IF Unmapped(k) THEN Allocated(ZoneOf(k), mapSize[ZoneOf(k)]) ELSE map[k]

\* z_map_size after a write of n blocks from k.
Grown(k, n) ==
  IF Unmapped(k) THEN [mapSize EXCEPT ![ZoneOf(k)] = @ + n] ELSE mapSize

Crosses(k, n) == ZoneOf(k) # ZoneOf(k + n - 1)

\* imrsim_record_write_mapping_range: the blocks of a write follow its first, up
\* to the end of the zone.
Mapped(k, n, target) ==
  [j \in Keys |-> IF j \in Blocks(k, n) /\ ZoneOf(j) = ZoneOf(k) THEN target + (j - k) ELSE map[j]]

MayWrite(k, n) ==
  /\ LockFree
  /\ Blocks(k, n) \subseteq HostKeys
  /\ \A j \in Blocks(k, n) : ~InFlight(j)
  /\ Cardinality(bios) + n <= QueueDepth
  /\ Grown(k, n)[ZoneOf(k)] <= MaxMapped
  /\ InOrder /\ Unmapped(k) =>
       {j \in HostKeys : ZoneOf(j) = ZoneOf(k) /\ j < k}
         = {j \in written : ZoneOf(j) = ZoneOf(k)}

Fits(target, n) == target + n <= NumZones * TOTAL /\ Offset(target) + n <= TOTAL

MarkedNextTrack(target) ==                         \* wrong: on the next track
  IF IsTop(target) THEN used \cup {target + TOP + BOTTOM} ELSE used
\* Only the first block of a write is marked.
Marked(target) == IF IsTop(target) THEN used \cup {target} ELSE used

\* The blocks to back up: the used ones beside the first block of the write, on its
\* own track group and the next.
IfUsed(b) == IF b \in used THEN <<b>> ELSE <<>>
BackUp(target) ==
  IF IsTop(target) THEN <<>>
  ELSE IfUsed(Beside(target)) \o
       IF Track(target) + 1 < TRACKS THEN IfUsed(Beside(target) + TOP + BOTTOM) ELSE <<>>

\* For the history: the keys with a bio in flight to some blocks, and the keys of new
\* bios that join one in flight to the same block; the disk orders neither.
KeysInFlightTo(blocks) == {b.key : b \in {c \in bios : c.pba \in blocks}}
Joining(new) == {b.key : b \in {c \in new : KeysInFlightTo({c.pba}) # {}}}

Bio(k, n, target) == {[key |-> j, pba |-> target + (j - k)] : j \in Blocks(k, n)}

HostWrite(k, n) ==
  LET target == Target(k)
  IN /\ MayWrite(k, n)
     /\ Fits(target, n) /\ ~Crosses(k, n)
     /\ map' = Mapped(k, n, target)
     /\ mapSize' = Grown(k, n)
     /\ used' = Marked(target)
     /\ media' = Outdate(Blocks(k, n))
     /\ written' = written \cup Blocks(k, n)
     /\ IF BackUp(target) = <<>>
        THEN /\ bios' = bios \cup Bio(k, n, target)
             /\ exposed' = (exposed \ Blocks(k, n)) \cup Joining(Bio(k, n, target))
             /\ UNCHANGED rmw
        ELSE /\ rmw' = [pc |-> "back up", tops |-> BackUp(target), saved |-> <<>>,
                        bio |-> Bio(k, n, target)]
             /\ exposed' = exposed \ Blocks(k, n)
             /\ UNCHANGED bios
     /\ stale' = stale \ Blocks(k, n)
     /\ UNCHANGED <<cmp, incidents, freed>>

\* The write crosses the end of its zone, or its target that of a zone or of the
\* device: it fails, but the map and the index already hold the new PBAs.
HostWriteRejected(k, n) ==
  LET target == Target(k)
  IN /\ MayWrite(k, n)
     /\ ~Fits(target, n) \/ Crosses(k, n)
     /\ map' = Mapped(k, n, target)
     /\ mapSize' = Grown(k, n)
     /\ stale' = {j \in stale : j \notin Blocks(k, n) \/ ZoneOf(j) # ZoneOf(k)}
     /\ UNCHANGED <<used, media, bios, written, rmw, cmp, incidents, exposed, freed>>

\* A bio reaches the disk.
BioLands(b) ==
  /\ bios' = bios \ {b}
  /\ media' = [media EXCEPT ![b.pba] = b.key]
  /\ UNCHANGED <<map, mapSize, used, written, rmw, cmp, incidents, exposed, stale, freed>>

\* A discard appends tombstones and clears the zone map; z_map_size stays.
HostDiscard(k) ==
  /\ LockFree
  /\ map[k] # None /\ ~InFlight(k)
  /\ map' = [map EXCEPT ![k] = None]
  /\ stale' = stale \ {k}
  /\ UNCHANGED <<mapSize, used, media, bios, written, rmw, cmp, incidents, exposed, freed>>

-----------------------------------------------------------------------------
(* Read-modify-write: read the top blocks, submit the bio, write them back.*)

RmwRead ==
  /\ rmw.pc = "back up"
  /\ LET saved == Append(rmw.saved, media[rmw.tops[Len(rmw.saved) + 1]])
     IN rmw' = [rmw EXCEPT !.saved = saved,
                           !.pc = IF Len(saved) = Len(rmw.tops) THEN "write" ELSE @]
  /\ exposed' = exposed \cup KeysInFlightTo({rmw.tops[Len(rmw.saved) + 1]})
  /\ UNCHANGED <<map, mapSize, used, media, bios, written, cmp, incidents, stale, freed>>

\* There is no page: the thread returns and imrsim_map waits for it for ever.
RmwGone ==
  /\ AllocFails /\ rmw.pc = "back up"
  /\ rmw' = [rmw EXCEPT !.pc = "gone"]
  /\ UNCHANGED <<map, mapSize, used, media, bios, written, cmp, incidents, exposed, stale, freed>>

RmwWrite ==
  /\ rmw.pc = "write"
  /\ bios' = bios \cup rmw.bio
  /\ exposed' = exposed \cup Joining(rmw.bio)
  /\ rmw' = [rmw EXCEPT !.pc = "write back"]
  /\ UNCHANGED <<map, mapSize, used, media, written, cmp, incidents, stale, freed>>

SavedLast == rmw.saved[Len(rmw.saved)]             \* wrong: not of the first block
SavedFirst == Head(rmw.saved)

RmwWriteBack ==
  /\ rmw.pc = "write back"
  /\ media' = [media EXCEPT ![Head(rmw.tops)] = SavedFirst]
  /\ rmw' = IF Len(rmw.tops) = 1 THEN RmwIdle
            ELSE [rmw EXCEPT !.tops = Tail(@), !.saved = Tail(@)]
  /\ UNCHANGED <<map, mapSize, used, bios, written, cmp, incidents, exposed, stale, freed>>

-----------------------------------------------------------------------------
(* Zone compaction (imr_lsm_compact_zone_locked).                          *)

CompactBegin(z) ==
  /\ LockFree
  /\ CompactBusy \/ bios = {}
  /\ z + 1 \in Zones
  /\ mapSize[z] >= TOTAL /\ mapSize[z + 1] = 0
  /\ cmp' = [pc |-> "copy", zone |-> z, next |-> 0, out |-> <<>>]
  /\ UNCHANGED <<map, mapSize, used, media, bios, written, rmw, incidents, exposed, stale, freed>>

\* The i-th live block goes to the i-th bottom block of the two zones.
DestinationStays(z, i) ==                          \* wrong: the zone is not switched
  BottomPba(z, i % BottomBlocks)
Destination(z, i) ==
  IF i < BottomBlocks THEN BottomPba(z, i) ELSE BottomPba(z + 1, i - BottomBlocks)

CompactBlock ==
  LET key == ZoneStart(cmp.zone) + cmp.next
      dest == Destination(cmp.zone, Len(cmp.out))
  IN /\ cmp.pc = "copy" /\ cmp.next < TOTAL
     /\ IF map[key] = None
        THEN cmp' = [cmp EXCEPT !.next = @ + 1] /\ UNCHANGED <<media, exposed>>
        ELSE /\ media' = [media EXCEPT ![dest] =
                           IF map[key] \in Pbas THEN media[map[key]] ELSE Garbage]
             /\ cmp' = [cmp EXCEPT !.next = @ + 1,
                                   !.out = Append(@, [key |-> key, pba |-> dest])]
             /\ exposed' = exposed \cup KeysInFlightTo({map[key], dest})
                         \cup (IF KeysInFlightTo({dest}) = {} THEN {} ELSE {key})
     /\ UNCHANGED <<map, mapSize, used, bios, written, rmw, incidents, stale, freed>>

CompactFailsLocked ==                              \* wrong: the lock is kept
  /\ cmp.pc = "copy" /\ incidents < MaxIncidents
  /\ incidents' = incidents + 1
  /\ cmp' = [cmp EXCEPT !.pc = "failed"]
  /\ UNCHANGED <<map, mapSize, used, media, bios, written, rmw, exposed, stale, freed>>
\* A page, a copy, a block entry or the append of the segment fails, or no
\* block is live: the zone keeps its map, the copies made stay on the disk.
CompactFails ==
  /\ cmp.pc = "copy"
  /\ IF cmp.next = TOTAL /\ cmp.out = <<>> THEN UNCHANGED incidents
     ELSE incidents < MaxIncidents /\ incidents' = incidents + 1
  /\ cmp' = CmpIdle
  /\ exposed' = exposed \cup {k \in written : \E i \in DOMAIN cmp.out :
                               cmp.out[i].pba = map[k] /\ cmp.out[i].key # k}
  /\ UNCHANGED <<map, mapSize, used, media, bios, written, rmw, stale, freed>>

SizesWrap(z, live) ==                              \* wrong: off by one, it wraps around
  [mapSize EXCEPT ![z] = IF live > BottomBlocks THEN BottomBlocks ELSE live,
                  ![z + 1] = (live + 2^16 - (BottomBlocks + 1)) % 2^16]
Sizes(z, live) ==
  [mapSize EXCEPT ![z] = IF live > BottomBlocks THEN BottomBlocks ELSE live,
                  ![z + 1] = IF live > BottomBlocks THEN live - BottomBlocks ELSE 0]

Moved(j) == {i \in DOMAIN cmp.out : cmp.out[i].key = j}

CompactEnd ==
  /\ cmp.pc = "copy" /\ cmp.next = TOTAL /\ cmp.out # <<>>
  /\ map' = [j \in Keys |->
       IF Moved(j) # {} THEN cmp.out[CHOOSE i \in Moved(j) : TRUE].pba ELSE map[j]]
  /\ mapSize' = Sizes(cmp.zone, Len(cmp.out))
  /\ used' = {b \in used : ZoneOf(b) \notin {cmp.zone, cmp.zone + 1}}
  /\ cmp' = CmpIdle
  /\ exposed' = exposed \cup {j \in stale : Moved(j) # {}}
  /\ stale' = {j \in stale : Moved(j) = {}}
  /\ UNCHANGED <<media, bios, written, rmw, incidents, freed>>

-----------------------------------------------------------------------------
(* Resets of the zones, with the size they have: the index keeps its       *)
(* records and reads still follow them.                                    *)

MayReset == LockFree /\ incidents < MaxIncidents /\ incidents' = incidents + 1

ResetZones ==
  /\ MayReset
  /\ stale' = {k \in Keys : map[k] # None}
  /\ mapSize' = [z \in Zones |-> 0]
  /\ used' = {} /\ written' = {}
  /\ UNCHANGED <<map, media, bios, rmw, cmp, exposed, freed>>

\* imrsim_reset_default_zone_config has freed zone_state when it finds no memory
\* for the new one, and returns with the lock.
ResetZonesFails ==
  /\ MayReset /\ AllocFails
  /\ freed' = TRUE
  /\ UNCHANGED <<map, mapSize, used, media, bios, written, rmw, cmp, exposed, stale>>

-----------------------------------------------------------------------------
Init ==
  /\ map = [k \in Keys |-> None]
  /\ mapSize = [z \in Zones |-> 0]
  /\ used = {}
  /\ media = [p \in Pbas |-> Garbage]
  /\ bios = {} /\ written = {}
  /\ rmw = RmwIdle /\ cmp = CmpIdle
  /\ incidents = 0 /\ exposed = {}
  /\ stale = {} /\ freed = FALSE

Next ==
  \/ \E k \in HostKeys, n \in 1..MaxBlocks : HostWrite(k, n) \/ HostWriteRejected(k, n)
  \/ \E k \in DiscardKeys : HostDiscard(k)
  \/ \E b \in bios : BioLands(b)
  \/ RmwRead \/ RmwGone \/ RmwWrite \/ RmwWriteBack
  \/ \E z \in CompactZones : CompactBegin(z)
  \/ CompactBlock \/ CompactFails \/ CompactEnd
  \/ ResetZones \/ ResetZonesFails

\* The kernel runs the RMW thread, and the ioctl that compacts a zone goes on.
Fairness ==
  /\ WF_vars(RmwRead) /\ WF_vars(RmwWrite) /\ WF_vars(RmwWriteBack)
  /\ WF_vars(CompactBlock \/ CompactFails \/ CompactEnd)

Spec == Init /\ [][Next]_vars /\ Fairness

-----------------------------------------------------------------------------
(* Properties.                                                             *)

\* The types of the variables: only blocks of top tracks are ever marked used
\* and z_map_size stays within its bound.
TypeOK ==
  /\ map \in [Keys -> Nat]
  /\ mapSize \in [Zones -> 0..MaxMapped]
  /\ used \subseteq {b \in Pbas : IsTop(b)}
  /\ media \in [Pbas -> Keys \cup {Garbage}]
  /\ bios \subseteq [key : HostKeys, pba : Pbas] /\ Cardinality(bios) <= QueueDepth
  /\ written \subseteq HostKeys
  /\ rmw.pc \in {"idle", "back up", "write", "write back", "gone"}
  /\ cmp.pc \in {"idle", "copy"} /\ incidents \in 0..MaxIncidents /\ exposed \subseteq HostKeys
  /\ stale \subseteq HostKeys /\ freed \in BOOLEAN

Settled(k) == LockFree /\ map[k] \in Pbas /\ ~InFlight(k)

\* Once its write has reached the disk, a key's newest payload is where a read
\* of it looks, after allocations, RMWs and compactions in any order.  In
\* particular "zone compaction skips tombstones, preserves live data, and hides
\* stale payloads" (TEST_REPORT.md).
PayloadKept == \A k \in HostKeys : Settled(k) => media[map[k]] = k

\* With several bios in flight and compactions that fail, a payload is lost in these
\* ways only: its block was backed up or copied before its write reached it; a block
\* was copied over one that a write was on its way to; two writes were on their way to
\* one block; a compaction failed after a copy over the block the key is still mapped
\* to; or the zones were reset since the key was written.  A reset exposes nothing that
\* is written after it.
LostOnlyExposed ==
  \A k \in HostKeys : Settled(k) => media[map[k]] = k \/ k \in exposed \cup stale

\* imrsim_zone_lock is released after every RMW and every zone compaction, failed
\* ones included.  Only an RMW thread that found no page and a reset that found no
\* memory keep it for ever, and with it hold up every later request and ioctl.
LockReleased == ~LockFree ~> (LockFree \/ rmw.pc = "gone" \/ freed)

\* No block belongs to two keys: "Each logical block maps to the expected latest
\* physical block." (TEST_REPORT.md).  Keys from before a reset may still be read
\* where a key written since has been put, but never two written since it.
NoSharedBlock ==
  \A j, k \in Keys \ stale : j # k /\ map[j] \in Pbas => map[j] # map[k]

\* Every top block that holds a key is marked, so that a write beside it on a
\* bottom track backs it up: "If lba is on the top track, mark the top track with
\* data" (imrsim_write_rule_check).
LiveTopsMarked ==
  \A k \in Keys \ stale : map[k] \in Pbas /\ IsTop(map[k]) => map[k] \in used
===============================================================================
