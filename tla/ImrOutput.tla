------------------------------ MODULE ImrOutput -------------------------------
(***************************************************************************)
(* What becomes of a segment on the disk.  Every segment is given a Bloom  *)
(* filter, a placement (the top tracks beside the bottom tracks of its     *)
(* keys) and, if it fits, an output range there with one slot for every    *)
(* live entry.  commit_output plans all mapped entries, copies their       *)
(* payloads one by one to the slots (mode 3), then makes the slots their   *)
(* PBAs.  compact_segment rewrites a segment without its dead entries,     *)
(* retires it, and commits.                                                *)
(*                                                                         *)
(* Module ImrLsm has the rest of the index: which level a record is put in *)
(* and which level is compacted into which is left open here.  A payload   *)
(* is named by the timestamp of its write.  All of it runs under           *)
(* imr_lsm_lock; the bios of the host reach the disk whoever holds it.     *)
(***************************************************************************)
EXTENDS Integers, FiniteSets, FiniteSetsExt

CONSTANTS
  NumZones,               \* IMR_NUMZONES
  TOP, BOTTOM, TRACKS,    \* IMR_TOP_TRACK_SIZE, IMR_BOTTOM_TRACK_SIZE, TOP_TRACK_NUM_TOTAL
  LEVELS,                 \* IMR_LSM_LEVELS
  HostKeys,               \* the keys the host uses
  BloomHash(_, _),        \* imr_lsm_bloom_hash of a key and a seed, before it is masked
  BitsPerKey(_),          \* bloom_bits_per_key, which debugfs sets at will, when a segment is built
  MinBits, MaxBits,       \* IMR_LSM_BLOOM_MIN_BITS, IMR_LSM_BLOOM_MAX_BITS
  MinHashes, MaxHashes,   \* IMR_LSM_BLOOM_MIN_HASHES, IMR_LSM_BLOOM_MAX_HASHES
  Modes,                  \* the modes commit_output is used with
  CopyBusy,               \* may a commit run while bios are in flight?
  MaxFailures,            \* bound: copies that fail
  MaxMapped,              \* bound: z_map_size
  MaxTimestamp,           \* bound: host requests
  MaxSegments             \* bound: segments appended

TOTAL == (TOP + BOTTOM) * TRACKS                   \* TOTAL_ITEMS
Blocks == 0..(NumZones * TOTAL - 1)
None == NumZones * TOTAL                           \* no PBA
Mixed == NumZones                                  \* IMR_LSM_SEGMENT_ZONE_MIXED

ASSUME OutputGeometry ==
  /\ {NumZones, TOP, BOTTOM, TRACKS, LEVELS} \subseteq Nat \ {0}
  /\ HostKeys \subseteq Blocks
ASSUME OutputBounds ==
  /\ {MaxFailures, MaxMapped, MaxTimestamp, MaxSegments} \subseteq Nat
  /\ Modes \subseteq {2, 3} /\ CopyBusy \in BOOLEAN
ASSUME OutputFilters ==
  /\ \A id \in 0..MaxSegments : BitsPerKey(id) \in Nat \ {0}
  /\ {MinBits, MaxBits} \subseteq Nat \ {0} /\ {MinHashes, MaxHashes} \subseteq Nat
  /\ \A k \in HostKeys, i \in 0..(MaxHashes - 1) : BloomHash(k, i) \in Nat

VARIABLES
  home,        \* z_pba_map: key -> the block the host writes it to, or None
  mapSize,     \* z_map_size, per zone
  timestamp,   \* of the last record
  unsorted,    \* the records in the unsorted list of each level
  sorted,      \* the records in the sorted list of each level; tables hold them too
  segments,    \* the segments that are not retired, ordered by their ids
  nextId,      \* next_segment_id
  copied,      \* <<segment id, key>> of the entries with output_copied
  committed,   \* <<segment id, key>> of the entries with output_committed
  tree,        \* the read tree
  op,          \* the commit that is running: it copies, or commits the entries
  media,       \* block -> timestamp of the write whose payload it holds, or 0
  bios,        \* host writes that have not reached the disk
  failures,    \* copies that failed
  last,        \* history: key -> timestamp of its payload, 0 if it has none
  contested    \* history: the payloads that were given one block with another

disk == <<media, bios>>
index == <<unsorted, sorted, segments, nextId>>
output == <<copied, committed, op, failures>>
host == <<home, mapSize, timestamp, last>>
vars == <<index, output, disk, host, tree, contested>>

Levels == 1..LEVELS
ZoneOf(k) == k \div TOTAL
Offset(k) == k % TOTAL
Records == [key : HostKeys, ts : Nat, live : BOOLEAN, pba : Blocks \cup {None}]

-----------------------------------------------------------------------------
(* Bloom filters.                                                          *)

PowersOfTwo == {2^i : i \in 0..16}
AtLeastPower(n) == Min({p \in PowersOfTwo : p >= n})   \* imr_lsm_next_power_of_two_u32
Clamp(n, low, high) == Max({low, Min({n, high})})

\* imr_lsm_bloom_choose_bits and imr_lsm_bloom_choose_hashes.
FilterBits(count, perKey) ==
  Clamp(AtLeastPower(Clamp(count * perKey, MinBits, MaxBits)), MinBits, MaxBits)
FilterHashes(bits, count) ==
  Clamp((Max({1, bits \div count}) * 69) \div 100, MinHashes, MaxHashes)

HashBits(k, bits, hashes) == {BloomHash(k, i) % bits : i \in 0..(hashes - 1)}

KeysOf(table) == {r.key : r \in table}
BuiltFilter(table, perKey) ==
  LET count == Cardinality(table)
      bits == FilterBits(count, perKey)
      hashes == FilterHashes(bits, count)
  IN [bits |-> bits, hashes |-> hashes,
      set |-> UNION {HashBits(k, bits, hashes) : k \in KeysOf(table)}]

MayContainCurrent(s, k) ==                         \* wrong: with the current parameter
  LET bits == FilterBits(Cardinality(s.table), BitsPerKey(nextId))
  IN HashBits(k, bits, FilterHashes(bits, Cardinality(s.table))) \subseteq s.filter.set
\* imr_lsm_bloom_may_contain, with the parameters the segment was built with.
MayContain(s, k) == HashBits(k, s.filter.bits, s.filter.hashes) \subseteq s.filter.set

-----------------------------------------------------------------------------
(* Entries and reads.                                                      *)

Newest(S) == {r \in S : \A q \in S : q.key = r.key => q.ts <= r.ts}
LiveKeys(s) == {r.key : r \in {e \in s.table : e.live}}

\* imr_lsm_map_segment_output_entries_locked: consecutive blocks, in key order.
SlotAfter(s, k) == s.first + Cardinality({j \in LiveKeys(s) : j <= k})  \* wrong: the next block
Slot(s, k) == s.first + Cardinality({j \in LiveKeys(s) : j < k})

\* entry->pba
EntryPba(s, r) == IF <<s.id, r.key>> \in committed THEN Slot(s, r.key) ELSE r.pba
Entries(s) == {[r EXCEPT !.pba = EntryPba(s, r)] : r \in s.table}

UnsortedRecords == UNION {unsorted[l] : l \in Levels}
\* A read goes to the read tree, else to the unsorted lists and the tables whose
\* filter does not exclude the key (sorted lists are skipped where a segment was made).
Found(k) ==
  {r \in UnsortedRecords : r.key = k}
    \cup {r \in UNION {Entries(s) : s \in {t \in segments : MayContain(t, k)}} : r.key = k}
ReadCopies(k) ==
  LET nodes == {n \in tree : n.key = k}
  IN IF nodes # {} THEN nodes ELSE Newest(Found(k))

\* The read tree after updates with some nodes; it may lose nodes to evictions.
TreesWith(nodes) ==
  {t \in SUBSET ({n \in tree : n.key \notin KeysOf(nodes)} \cup nodes) :
     \A m, n \in t : m.key = n.key => m = n}

Searchable ==
  UnsortedRecords \cup (UNION {sorted[l] : l \in Levels}) \cup (UNION {s.table : s \in segments})
HasNewer(r) == \E q \in Searchable : q.key = r.key /\ q.ts > r.ts
HasOlderLive(r) == \E q \in Searchable : q.key = r.key /\ q.live /\ q.ts < r.ts
ShouldKeep(r) ==
  ~HasNewer(r) /\ (r.live \/ home[r.key] # None \/ HasOlderLive(r))
Dead(s) == {r \in s.table : ~ShouldKeep(r)}

-----------------------------------------------------------------------------
(* Placement and allocation of an output.                                  *)

TopStart(z, t) == z * TOTAL + t * (TOP + BOTTOM)
BottomKeys == BOTTOM * TRACKS

\* imr_lsm_apply_segment_placement_locked: from the top track beside the first
\* key's bottom track to the one beside the last key's.
Placement(zone, table) ==
  LET offsets == {Offset(k) : k \in KeysOf(table)}
      lastKey == Min({Max(offsets), BottomKeys - 1})
  IN IF zone = Mixed \/ Min(offsets) >= BottomKeys THEN {}
     ELSE TopStart(zone, Min(offsets) \div BOTTOM)
            ..(TopStart(zone, lastKey \div BOTTOM) + TOP - 1)

OutputRange(s) ==
  IF s.first = None THEN {} ELSE s.first..(s.first + Cardinality(s.table) - 1)
Taken == UNION {OutputRange(s) : s \in segments}

\* imr_lsm_allocate_segment_output_locked: the first range of the placement that
\* overlaps no output of another segment.
Starts(target, n) ==
  {b \in target : b + n - 1 \in target /\ (b..(b + n - 1)) \cap Taken = {}}
FirstFit(target, n) ==
  IF Starts(target, n) = {} THEN None ELSE Min(Starts(target, n))

\* imr_lsm_append_segment_locked.
Segment(zone, table) ==
  [id |-> nextId, zone |-> zone, table |-> table,
   first |-> FirstFit(Placement(zone, table), Cardinality(table)),
   filter |-> BuiltFilter(table, BitsPerKey(nextId))]

\* For the history: the newest live records whose PBA is one of some blocks, and the
\* records that a write of k to a target has to share it with.
InUse(blocks) ==
  LET records == Searchable \cup UNION {Entries(s) : s \in segments}
  IN {r \in records : r.live /\ r.ts = last[r.key] /\ r.pba \in blocks}
Rivals(k, target) ==
  {r \in InUse({target}) : r.key # k}
    \cup UNION {s.table : s \in {t \in segments : target \in OutputRange(t)}}

Append(s) ==
  /\ nextId' = nextId + 1
  /\ contested' = contested \cup {r.ts : r \in InUse(OutputRange(s))}

\* A builder keeps the zone of its records if they agree.
BuilderZone(table) ==
  LET zones == {ZoneOf(k) : k \in KeysOf(table)}
  IN IF Cardinality(zones) = 1 THEN CHOOSE z \in zones : TRUE ELSE Mixed

-----------------------------------------------------------------------------
(* Host requests.                                                          *)

InFlight(k) == \E b \in bios : b.key = k

AllocatedEarly(z, n) ==                            \* wrong: off by one at the boundary
  LET top == n - BottomKeys
  IN IF n <= BottomKeys THEN TopStart(z, n \div BOTTOM) + TOP + (n % BOTTOM)
     ELSE TopStart(z, top \div TOP) + (top % TOP)
\* Bottom tracks are filled first, then top tracks.
Allocated(z, n) ==
  LET top == n - BottomKeys
  IN IF n < BottomKeys THEN TopStart(z, n \div BOTTOM) + TOP + (n % BOTTOM)
     ELSE TopStart(z, top \div TOP) + (top % TOP)

HostWrite(k, l) ==
  LET z == ZoneOf(k)
      target == IF home[k] = None THEN Allocated(z, mapSize[z]) ELSE home[k]
      record == [key |-> k, ts |-> timestamp + 1, live |-> TRUE, pba |-> target]
  IN /\ op = "idle"
     /\ timestamp < MaxTimestamp
     /\ ~InFlight(k)
     /\ home[k] = None => mapSize[z] < MaxMapped
     /\ home' = [home EXCEPT ![k] = target]
     /\ mapSize' = IF home[k] = None THEN [mapSize EXCEPT ![z] = @ + 1] ELSE mapSize
     /\ timestamp' = timestamp + 1
     /\ unsorted' = [unsorted EXCEPT ![l] = @ \cup {record}]
     /\ tree' \in TreesWith({record})
     /\ bios' = bios \cup {[key |-> k, ts |-> timestamp + 1, pba |-> target]}
     /\ last' = [last EXCEPT ![k] = timestamp + 1]
     /\ contested' = contested \cup
          IF Rivals(k, target) = {} THEN {}
          ELSE {timestamp + 1} \cup {r.ts : r \in Rivals(k, target)}
     /\ UNCHANGED <<sorted, segments, nextId, output, media>>

HostDelete(k, l) ==
  LET record == [key |-> k, ts |-> timestamp + 1, live |-> FALSE, pba |-> None]
  IN /\ op = "idle"
     /\ timestamp < MaxTimestamp
     /\ ~InFlight(k)
     /\ home' = [home EXCEPT ![k] = None]
     /\ timestamp' = timestamp + 1
     /\ unsorted' = [unsorted EXCEPT ![l] = @ \cup {record}]
     /\ tree' \in TreesWith({record})
     /\ last' = [last EXCEPT ![k] = 0]
     /\ UNCHANGED <<mapSize, sorted, segments, nextId, output, disk, contested>>

BioLands(b) ==
  /\ bios' = bios \ {b}
  /\ media' = [media EXCEPT ![b.pba] = b.ts]
  /\ UNCHANGED <<index, output, host, tree, contested>>

\* A read that misses the tree leaves the record it found there.
Read(k) ==
  /\ op = "idle"
  /\ {n \in tree : n.key = k} = {}
  /\ \E r \in ReadCopies(k) : tree' \in TreesWith({r})
  /\ UNCHANGED <<index, output, disk, host, contested>>

-----------------------------------------------------------------------------
(* Compaction, commit and rewrite.                                         *)

\* The compaction of a level, or the flush of the bottom one, moves its records to
\* a sorted list and into a new segment.
CompactionInput(src, dst) == unsorted[src] \cup (IF dst = src THEN {} ELSE sorted[src])

Compact(src, dst) ==
  LET input == CompactionInput(src, dst)
  IN /\ op = "idle"
     /\ nextId < MaxSegments
     /\ src < dst \/ (src = dst /\ dst = LEVELS)
     /\ input # {}
     /\ unsorted' = [unsorted EXCEPT ![src] = {}]
     /\ sorted' = [l \in Levels |-> IF l = dst THEN Newest(sorted[l] \cup input)
                                     ELSE IF l = src THEN {} ELSE sorted[l]]
     /\ \E s \in {Segment(BuilderZone(Newest(input)), Newest(input))} :
          Append(s) /\ segments' = segments \cup {s}
     /\ UNCHANGED <<output, disk, host, tree>>

\* imr_lsm_plan_output_copy_locked: the live entries of segments with an output.
Planned ==
  UNION {{<<s.id, k>> : k \in LiveKeys(s)} : s \in {t \in segments : t.first # None}}
SegmentOf(e) == CHOOSE s \in segments : s.id = e[1]
RecordOf(e) == CHOOSE r \in SegmentOf(e).table : r.key = e[2]

ToCopy == Planned \ (copied \cup committed)
Before(e, f) == e[1] < f[1] \/ (e[1] = f[1] /\ e[2] < f[2])
NextCopy == CHOOSE e \in ToCopy : \A f \in ToCopy : e = f \/ Before(e, f)

SourceOf(e) == EntryPba(SegmentOf(e), RecordOf(e))
SlotOf(e) == Slot(SegmentOf(e), e[2])

\* commit_output begins: mode 3 copies first, mode 2 only changes the entries.
CommitOutput(mode) ==
  /\ op = "idle"
  /\ CopyBusy \/ bios = {}
  /\ op' = IF mode = 3 THEN "copy" ELSE "commit"
  /\ UNCHANGED <<index, disk, host, tree, copied, committed, failures, contested>>

\* One step of imr_lsm_copy_output_payload_locked.
CopyEntry ==
  /\ op = "copy" /\ ToCopy # {}
  /\ media' = [media EXCEPT ![SlotOf(NextCopy)] = media[SourceOf(NextCopy)]]
  /\ copied' = copied \cup {NextCopy}
  /\ UNCHANGED <<index, host, tree, bios, op, committed, failures, contested>>

CopyFailsUnnoticed ==                              \* wrong: the commit goes on
  /\ op = "copy" /\ ToCopy # {}
  /\ failures < MaxFailures
  /\ failures' = failures + 1
  /\ op' = "commit"
  /\ UNCHANGED <<index, host, tree, disk, copied, committed, contested>>

\* The page, the read or the write fails; a write may leave a torn block behind.
CopyFails ==
  /\ op = "copy" /\ ToCopy # {}
  /\ failures < MaxFailures
  /\ failures' = failures + 1
  /\ op' = "idle"
  /\ media' \in {media, [media EXCEPT ![SlotOf(NextCopy)] = 0]}
  /\ UNCHANGED <<index, host, tree, bios, copied, committed, contested>>

\* The nodes of the entries being committed that have no newer record.
CommittedNodes ==
  {[RecordOf(e) EXCEPT !.pba = SlotOf(e)] :
     e \in {f \in Planned \ committed : ~HasNewer(RecordOf(f))}}

\* imr_lsm_commit_output_metadata_locked.
CommitMetadata ==
  /\ op # "idle" /\ (op = "copy" => ToCopy = {})
  /\ committed' = committed \cup Planned
  /\ tree' \in TreesWith(CommittedNodes)
  /\ op' = "idle"
  /\ UNCHANGED <<index, disk, host, copied, failures, contested>>

Candidate(s) ==
  /\ Dead(s) # {}
  /\ (Cardinality(Dead(s)) * 1000) \div Cardinality(s.table) >= 250

RewrittenTable(s) == {r \in Entries(s) : ShouldKeep(r)}

\* imr_lsm_compact_selected_segment_locked: the new segment is appended while the
\* old one still holds its output; then a commit in mode 3 begins.
Rewrite(s) ==
  /\ op = "idle"
  /\ nextId < MaxSegments
  /\ CopyBusy \/ bios = {}
  /\ Candidate(s)
  /\ IF RewrittenTable(s) = {}
     THEN /\ segments' = segments \ {s}
          /\ UNCHANGED <<nextId, op, contested>>
     ELSE /\ \E t \in {Segment(s.zone, RewrittenTable(s))} :
               Append(t) /\ segments' = (segments \ {s}) \cup {t}
          /\ op' = "copy"
  /\ copied' = {e \in copied : e[1] # s.id}
  /\ committed' = {e \in committed : e[1] # s.id}
  /\ UNCHANGED <<unsorted, sorted, disk, host, tree, failures>>

-----------------------------------------------------------------------------
Init ==
  /\ home = [k \in HostKeys |-> None]
  /\ mapSize = [z \in 0..(NumZones - 1) |-> 0]
  /\ timestamp = 0
  /\ unsorted = [l \in Levels |-> {}] /\ sorted = [l \in Levels |-> {}]
  /\ segments = {} /\ nextId = 0
  /\ copied = {} /\ committed = {} /\ tree = {}
  /\ op = "idle" /\ failures = 0
  /\ media = [b \in Blocks |-> 0] /\ bios = {}
  /\ last = [k \in HostKeys |-> 0] /\ contested = {}

Next ==
  \/ \E k \in HostKeys, l \in Levels : HostWrite(k, l) \/ HostDelete(k, l)
  \/ \E k \in HostKeys : Read(k)
  \/ \E b \in bios : BioLands(b)
  \/ \E src, dst \in Levels : Compact(src, dst)
  \/ \E mode \in Modes : CommitOutput(mode)
  \/ CopyEntry \/ CopyFails \/ CommitMetadata
  \/ \E s \in segments : Rewrite(s)

Spec == Init /\ [][Next]_vars

-----------------------------------------------------------------------------
(* Properties.                                                             *)

\* The types of the variables: a key's block is in its zone, and the flags belong to
\* entries of segments that were made.
TypeOK ==
  /\ home \in [HostKeys -> Blocks \cup {None}]
  /\ \A k \in HostKeys : home[k] # None => ZoneOf(home[k]) = ZoneOf(k)
  /\ mapSize \in [0..(NumZones - 1) -> 0..MaxMapped]
  /\ timestamp \in 0..MaxTimestamp /\ nextId \in 0..MaxSegments
  /\ {unsorted, sorted} \subseteq [Levels -> SUBSET Records] /\ tree \subseteq Records
  /\ \A s \in segments : s.id < nextId /\ s.table \subseteq Records /\ s.first \in Blocks \cup {None}
  /\ copied \cup committed \subseteq (0..(nextId - 1)) \X HostKeys
  /\ op \in {"idle", "copy", "commit"} /\ failures \in 0..MaxFailures
  /\ media \in [Blocks -> 0..MaxTimestamp]
  /\ bios \subseteq [key : HostKeys, ts : 1..MaxTimestamp, pba : Blocks]
  /\ last \in [HostKeys -> 0..MaxTimestamp] /\ contested \subseteq 1..MaxTimestamp

\* No two segments that are in use have overlapping outputs, and every live entry
\* of an output has a slot of its own inside it.
OutputsApart ==
  /\ \A s, t \in segments : s # t => OutputRange(s) \cap OutputRange(t) = {}
  /\ \A s \in segments : s.first # None =>
       /\ \A j \in LiveKeys(s) : Slot(s, j) \in OutputRange(s)
       /\ \A j, k \in LiveKeys(s) : j # k => Slot(s, j) # Slot(s, k)

\* A read of a key that was written finds a record and, wherever it finds it, the
\* record's PBA holds the payload last written; a read of a deleted key finds nothing
\* live: "unrelated live key survives", "deleted key has no copied stale metadata
\* after segment compaction" (TEST_REPORT.md).
ReadsFindPayload ==
  op = "idle" => \A k \in HostKeys :
    IF last[k] = 0 THEN \A r \in ReadCopies(k) : ~r.live
    ELSE ~InFlight(k) =>
           ReadCopies(k) # {} /\ \A r \in ReadCopies(k) : r.live /\ media[r.pba] = last[k]

\* The only way in which a payload is lost: an output was placed on its block while
\* the block was in use.  Copies, torn and failed copies, commits, retries, rewrites
\* and the filters lose nothing else and bring nothing deleted back.
LostOnlyToOutputs ==
  op = "idle" => \A k \in HostKeys :
    IF last[k] = 0 THEN \A r \in ReadCopies(k) : ~r.live
    ELSE ~InFlight(k) =>
           /\ ReadCopies(k) # {}
           /\ \A r \in ReadCopies(k) :
                r.live /\ (media[r.pba] = last[k] \/ last[k] \in contested)

\* No filter hides a key of its segment's table, although bloom_bits_per_key
\* changes between the building of a filter and its use.
FiltersAdmit == \A s \in segments : \A k \in KeysOf(s.table) : MayContain(s, k)

===============================================================================
