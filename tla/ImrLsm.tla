-------------------------------- MODULE ImrLsm --------------------------------
(***************************************************************************)
(* The LSM block index of IMRSim (imr_lsm_meta in dm-imrsim.c): unsorted   *)
(* and sorted lists per level, segments with block tables, the read tree,  *)
(* the dynamic level targets that schedule compaction, and the fallback of *)
(* a read to the zone map z_pba_map.                                       *)
(*                                                                         *)
(* Two mutexes matter.  imrsim_zone_lock serialises host requests: it is   *)
(* held while "host" is not idle.  imr_lsm_lock is held while "op" is not  *)
(* idle; the debugfs writers of compact, compact_segment, commit_output,   *)
(* the read tree and the threshold take only that one, so they run between *)
(* the steps of a host request.  A record carries the payload its PBA      *)
(* holds instead of the PBA.  Bloom filters and the min/max keys only skip *)
(* segments that do not hold the key and are left out.                     *)
(***************************************************************************)
EXTENDS Integers, FiniteSets, FiniteSetsExt

CONSTANTS
  Keys,             \* logical block numbers
  Payload,          \* block contents
  NoPayload,        \* no content: a tombstone (valid = 0) or an unmapped block
  Zones,            \* the zones, each a set of keys
  LEVELS,           \* IMR_LSM_LEVELS
  Thresholds,       \* values imr_lsm_compaction_threshold may be given
  ReadTreeLimits,   \* values read_tree_limit may be given
  AllocFail,        \* the allocations that may fail: "node", "tree", "table", "append"
  MaxTimestamp,     \* bound: no request starts once this timestamp is reached
  MaxSegments       \* bound: segments ever appended by the debugfs commands

MAX_LEVEL == LEVELS - 1
LEVEL_RATIO == 2
SCORE_SCALE == 1000
SCORE_BOOST == 10
MIN_OBSOLETE_RATIO == 250      \* permille

ASSUME LevelsAssumption == LEVELS \in Nat /\ LEVELS >= 2
ASSUME NoPayloadAssumption == NoPayload \notin Payload
ASSUME ThresholdAssumption == Thresholds \subseteq (Nat \ {0}) /\ Thresholds # {}
ASSUME LimitAssumption == ReadTreeLimits \subseteq (Nat \ {0}) /\ ReadTreeLimits # {}
ASSUME ZonesAssumption == \A z \in Zones : z \subseteq Keys /\ IsFiniteSet(z)
ASSUME BoundsAssumption == MaxTimestamp \in Nat /\ MaxSegments \in Nat

VARIABLES
  timestamp,        \* imr_lsm_meta.timestamp
  unsorted,         \* levels[l].unsorted_head, as the set of its nodes
  sorted,           \* levels[l].sorted_head, as the set of its nodes
  segments,         \* the segment list, as a set (its order is the order of ids)
  nextSegmentId,    \* imr_lsm_meta.next_segment_id
  readTree,         \* the read tree, as the set of its nodes
  readTreeLimit,    \* imr_lsm_meta.read_tree_limit
  threshold,        \* imr_lsm_compaction_threshold
  zoneMap,          \* what the block z_pba_map[k] points to holds, or NoPayload for -1
  host,             \* the request that holds imrsim_zone_lock
  op,               \* the operation that holds imr_lsm_lock
  last,             \* history: the newest record ever made for each key
  unrecorded,       \* history: keys whose last write was mapped but not recorded
  stillMapped       \* history: keys whose last delete was recorded but not unmapped

lists == <<unsorted, sorted, segments, nextSegmentId>>
settings == <<readTreeLimit, threshold>>
history == <<last, unrecorded, stillMapped>>
vars == <<timestamp, lists, readTree, settings, zoneMap, host, op, history>>

Levels == 0..MAX_LEVEL
Value == Payload \cup {NoPayload}
Records == [key : Keys, ts : Nat, val : Value]
Valid(r) == r.val # NoPayload

HostIdle == [pc |-> "idle"]
OpIdle == [pc |-> "idle"]

-----------------------------------------------------------------------------
(* The lists and the tables.                                               *)

\* Keyed lists keep one node per key and replace it only by a newer one.
NewestAppendsOnly(S) == S                        \* wrong: inserts without replacing
Newest(S) == {r \in S : \A q \in S : q.key = r.key => q.ts <= r.ts}

Active == {s \in segments : ~s.retired}
UnsortedRecords == UNION {unsorted[l] : l \in Levels}
SortedRecords == UNION {sorted[l] : l \in Levels}
TableRecords == UNION {s.table : s \in Active}

\* The records imr_lsm_find_newer_record, find_latest_record and
\* find_older_valid_record search.
SearchableSkipsUnsorted == SortedRecords \cup TableRecords           \* wrong
Searchable == UnsortedRecords \cup SortedRecords \cup TableRecords

HasNewer(r) == \E q \in Searchable : q.key = r.key /\ q.ts > r.ts
HasOlderValid(r) == \E q \in Searchable : q.key = r.key /\ Valid(q) /\ q.ts < r.ts

\* The zone map is still a read-path fallback: a tombstone stays while the
\* zone map has its key or an older live record could be seen again.
TombstoneKeepIgnoresZoneMap(r) == HasOlderValid(r)                  \* wrong
TombstoneKeepIgnoresOlder(r) == zoneMap[r.key] # NoPayload          \* wrong
TombstoneShouldKeep(r) == zoneMap[r.key] # NoPayload \/ HasOlderValid(r)
ShouldKeep(r) == ~HasNewer(r) /\ (Valid(r) \/ TombstoneShouldKeep(r))
LatestRecord(k) ==
  {r \in Searchable : r.key = k /\ \A q \in Searchable : q.key = k => q.ts <= r.ts}

-----------------------------------------------------------------------------
(* The read path.                                                          *)

\* A level's sorted list is read only if no segment was ever made for it.
SortedFallback(l) == ~ \E s \in segments : s.level = l
Visible ==
  UnsortedRecords \cup TableRecords
    \cup UNION {sorted[l] : l \in {m \in Levels : SortedFallback(m)}}

Found(k) == {r \in Visible : r.key = k}
NewestFound(k) == {r \in Found(k) : \A q \in Found(k) : q.ts <= r.ts}
TreeNodes(k) == {n \in readTree : n.key = k}

\* imr_lsm_read answers from the read tree if it can, else from the newest
\* record it finds; on a miss the caller falls back to the zone map.
ReadValue(k) ==
  IF TreeNodes(k) # {} THEN (CHOOSE n \in TreeNodes(k) : TRUE).val
  ELSE IF \E r \in NewestFound(k) : Valid(r)
       THEN (CHOOSE r \in NewestFound(k) : Valid(r)).val
  ELSE IF Found(k) # {} THEN NoPayload
  ELSE zoneMap[k]

\* imr_lsm_tree_update_locked: an existing node is replaced unless it is
\* newer; a new one may fail to be allocated, and evicts down to the limit
\* (the LRU order is abstracted: any other nodes may go).
TreeUpdatesNoEviction(tree, r) ==                \* wrong: the limit is ignored
  {{n \in tree : n.key # r.key} \cup {r}}
TreeUpdates(tree, r) ==
  LET mine == {n \in tree : n.key = r.key} IN
  IF mine # {}
  THEN {IF \A n \in mine : r.ts >= n.ts THEN (tree \ mine) \cup {r} ELSE tree}
  ELSE (IF Cardinality(tree) < readTreeLimit THEN {tree \cup {r}}
        ELSE {t \cup {r} : t \in kSubset(readTreeLimit - 1, tree)})
       \cup (IF "tree" \in AllocFail THEN {tree} ELSE {})

\* Several updates in a row, of entries that are not newer than the tree's.
TreesAfter(entries) ==
  {t \in SUBSET (readTree \cup entries) : Cardinality(t) <= readTreeLimit}

-----------------------------------------------------------------------------
(* The dynamic level targets, derived anew from the sizes of the levels    *)
(* whenever the code consults them.                                        *)

Total(l) == Cardinality(unsorted[l]) + Cardinality(sorted[l])
UsedLevels == {l \in 1..MAX_LEVEL : Total(l) > 0}

\* imr_lsm_calculate_dynamic_levels_locked: base_level (also the active write
\* level), lowest_unnecessary_level and the base level's target size.
DynamicLevels ==
  LET first == Min(UsedLevels)
      largest == Max({Total(l) : l \in UsedLevels})
      bytesMin == Max({1, threshold \div LEVEL_RATIO})
      \* cur_level_size once the scan from the bottom has reached level l
      SizeAt(l) == largest \div (LEVEL_RATIO ^ (MAX_LEVEL - l))
      raised == Max({b \in 1..first : b = 1 \/ SizeAt(b) <= threshold})
      small == {l \in 1..(MAX_LEVEL - 2) : l >= first /\ SizeAt(l) <= bytesMin}
      lowest == IF small = {} THEN -1 ELSE Max(small)
  IN  IF UsedLevels = {}
        THEN [base |-> MAX_LEVEL, size |-> threshold, lowest |-> -1]
      ELSE IF SizeAt(first) <= bytesMin
        THEN [base |-> first, size |-> bytesMin + 1, lowest |-> lowest]
      ELSE [base |-> raised, size |-> Max({1, Min({SizeAt(raised), threshold})}),
            lowest |-> lowest]

BaseLevel == DynamicLevels.base

\* imr_lsm_level_capacity: level_max_entries doubles from the base level down,
\* and is unset above it.
CapacityUnder(d, l) ==
  IF l < d.base THEN threshold
  ELSE Max({threshold, d.size * LEVEL_RATIO ^ (l - d.base)})
Capacity(l) == CapacityUnder(DynamicLevels, l)

CompactionDst(l) ==
  IF l >= MAX_LEVEL THEN MAX_LEVEL ELSE Max({l + 1, BaseLevel})

-----------------------------------------------------------------------------
(* Picking the level to compact.                                           *)

\* What the levels above l are about to push down to it.
DowncompactAbove(d, l) ==
  LET Excess(m) == IF m <= d.lowest THEN Total(m)
                   ELSE Max({0, Total(m) - CapacityUnder(d, m)})
  IN  MapThenSumSet(Excess, 0..(l - 1))

CompactionScore(d, l) ==
  LET total == Total(l)
      target == CapacityUnder(d, l)
  IN  IF total = 0 THEN 0
      ELSE IF l <= d.lowest THEN SCORE_SCALE * SCORE_BOOST + 1 + (d.lowest - l)
      ELSE IF total < target THEN (total * SCORE_SCALE) \div target
      ELSE (total * SCORE_SCALE * SCORE_BOOST) \div (target + DowncompactAbove(d, l))

\* imr_lsm_pick_compaction_level_locked: the first level with the best score,
\* if that is worth a compaction (the bottom level is never compacted).
PickedLevels ==
  LET d == DynamicLevels
      Score(l) == CompactionScore(d, l)
      sources == 0..(MAX_LEVEL - 1)
  IN  {l \in {m \in sources : Total(m) > 0} :
         /\ Score(l) >= SCORE_SCALE
         /\ \A m \in sources : Score(m) < Score(l) \/ (Score(m) = Score(l) /\ m >= l)}

-----------------------------------------------------------------------------
(* Moving records down: the common part of a flush and of a compaction.    *)

\* imr_lsm_append_unsorted_node_locked stamps a record with ++timestamp.
NextTimestampStale == timestamp                  \* wrong: stamped before the increment
NextTimestampBackward == timestamp - 1           \* wrong: counts down
NextTimestamp == timestamp + 1

\* imr_lsm_run_compactions_locked gives up after this many rounds.
OneRound == 1                                    \* wrong
MaxRounds == LEVELS

Segment(l, table) ==
  [id |-> nextSegmentId, level |-> l, retired |-> FALSE, table |-> table]

\* The source lists are freed before the segment is appended.
FreeSources(src, dst, input) ==
  /\ unsorted' = [unsorted EXCEPT ![src] = {}]
  /\ sorted' = [l \in Levels |-> IF l = dst THEN Newest(sorted[l] \cup input)
                                 ELSE IF l = src THEN {} ELSE sorted[l]]

MoveInto(src, dst, input) ==
  /\ FreeSources(src, dst, input)
  /\ segments' = segments \cup {Segment(dst, Newest(input))}
  /\ nextSegmentId' = nextSegmentId + 1

\* Part of the input reached the destination's sorted list before an
\* allocation failed; the sources are still in place.
MoveFailsEmptied(dst, input) ==                  \* wrong: the unsorted source is freed
  /\ "table" \in AllocFail
  /\ \E done \in SUBSET input :
       sorted' = [sorted EXCEPT ![dst] = Newest(@ \cup done)]
  /\ unsorted' = [l \in Levels |-> unsorted[l] \ input]
  /\ UNCHANGED <<segments, nextSegmentId>>
MoveFailsEarly(dst, input) ==
  /\ "table" \in AllocFail
  /\ \E done \in SUBSET input :
       sorted' = [sorted EXCEPT ![dst] = Newest(@ \cup done)]
  /\ UNCHANGED <<unsorted, segments, nextSegmentId>>

\* imr_lsm_append_segment_locked failed after the sources were freed.
MoveFailsLate(src, dst, input) ==
  /\ "append" \in AllocFail
  /\ FreeSources(src, dst, input)
  /\ UNCHANGED <<segments, nextSegmentId>>

NeedsBottomFlush == BaseLevel < MAX_LEVEL /\ unsorted[MAX_LEVEL] # {}

FlushBottom ==
  IF NeedsBottomFlush
  THEN MoveInto(MAX_LEVEL, MAX_LEVEL, unsorted[MAX_LEVEL])
  ELSE UNCHANGED lists

FlushBottomFails ==
  /\ NeedsBottomFlush
  /\ \/ MoveFailsEarly(MAX_LEVEL, unsorted[MAX_LEVEL])
     \/ MoveFailsLate(MAX_LEVEL, MAX_LEVEL, unsorted[MAX_LEVEL])

CompactionInput(l, dst) ==
  unsorted[l] \cup (IF dst = l THEN {} ELSE sorted[l])

CompactLevel(l) ==
  \E dst \in Levels :
    /\ dst = CompactionDst(l)
    /\ IF CompactionInput(l, dst) = {} THEN UNCHANGED lists
       ELSE MoveInto(l, dst, CompactionInput(l, dst))

CompactLevelFails(l) ==
  \E dst \in Levels :
    /\ dst = CompactionDst(l)
    /\ CompactionInput(l, dst) # {}
    /\ \/ MoveFailsEarly(dst, CompactionInput(l, dst))
       \/ MoveFailsLate(l, dst, CompactionInput(l, dst))

-----------------------------------------------------------------------------
(* Host requests, under imrsim_zone_lock.                                  *)

HasPending == host.pc \in {"insert", "delete"}

\* imrsim_write_rule_check maps the block, then records it in the index.
StartWrite(k, p) ==
  /\ host = HostIdle
  /\ timestamp < MaxTimestamp
  /\ zoneMap' = [zoneMap EXCEPT ![k] = p]
  /\ host' = [pc |-> "insert", key |-> k, val |-> p]
  /\ UNCHANGED <<timestamp, lists, readTree, settings, op, history>>

StartDelete(k) ==
  /\ host = HostIdle
  /\ timestamp < MaxTimestamp
  /\ host' = [pc |-> "delete", key |-> k, val |-> NoPayload]
  /\ UNCHANGED <<timestamp, lists, readTree, settings, zoneMap, op, history>>

\* The operation returns: a recorded tombstone is followed by z_pba_map = -1,
\* which is written after imr_lsm_lock has been released.
ReturnForgetsUnmap(ok) ==                        \* wrong: z_pba_map is left alone
  /\ op' = OpIdle
  /\ host' = HostIdle
Return(ok) ==
  /\ op' = OpIdle
  /\ host' = IF ok /\ host.pc = "delete" THEN [host EXCEPT !.pc = "unmap"]
             ELSE HostIdle

\* An error before the record is made leaves a mapped block the index lacks.
FailUnrecorded ==
  /\ Return(FALSE)
  /\ unrecorded' = IF host.pc = "insert" THEN unrecorded \cup {host.key} ELSE unrecorded
  /\ UNCHANGED <<last, stillMapped>>

\* An error after that: a recorded delete leaves its block mapped.
FailRecorded ==
  /\ Return(FALSE)
  /\ stillMapped' = IF host.pc = "delete" THEN stillMapped \cup {host.key} ELSE stillMapped
  /\ UNCHANGED <<last, unrecorded>>

\* imr_lsm_append_unsorting_node and imr_lsm_delete take imr_lsm_lock and
\* flush the bottom level if the base level has moved up.
BeginAppend ==
  /\ op = OpIdle
  /\ HasPending
  /\ FlushBottom
  /\ op' = [pc |-> "append"]
  /\ UNCHANGED <<timestamp, readTree, settings, zoneMap, host, history>>

BeginAppendFails ==
  /\ op = OpIdle
  /\ HasPending
  /\ FlushBottomFails
  /\ FailUnrecorded
  /\ UNCHANGED <<timestamp, readTree, settings, zoneMap>>

\* A delete removes the key's tree node before the tombstone is appended.
TreeBeforeAppend ==
  IF host.pc = "delete" THEN readTree \ TreeNodes(host.key) ELSE readTree

AppendUnsorted ==
  /\ op.pc = "append"
  /\ \E l \in Levels :
       LET r == [key |-> host.key, ts |-> NextTimestamp, val |-> host.val] IN
       /\ l = BaseLevel
       /\ timestamp' = NextTimestamp
       /\ unsorted' = [unsorted EXCEPT ![l] = @ \cup {r}]
       /\ readTree' \in TreeUpdates(TreeBeforeAppend, r)
       /\ last' = [last EXCEPT ![r.key] = r]
       /\ unrecorded' = unrecorded \ {r.key}
       /\ stillMapped' = IF host.pc = "insert" THEN stillMapped \ {r.key} ELSE stillMapped
       /\ op' = IF Cardinality(unsorted'[l]) >= Capacity(l)
                THEN [pc |-> "compact", level |-> l]
                ELSE [pc |-> "flush"]
  /\ UNCHANGED <<sorted, segments, nextSegmentId, settings, zoneMap, host>>

AppendUnsortedFails ==
  /\ op.pc = "append"
  /\ "node" \in AllocFail
  /\ readTree' = TreeBeforeAppend
  /\ FailUnrecorded
  /\ UNCHANGED <<timestamp, lists, settings, zoneMap>>

CompactFullLevel ==
  /\ op.pc = "compact"
  /\ CompactLevel(op.level)
  /\ op' = [pc |-> "flush"]
  /\ UNCHANGED <<timestamp, readTree, settings, zoneMap, host, history>>

CompactFullLevelFails ==
  /\ op.pc = "compact"
  /\ CompactLevelFails(op.level)
  /\ FailRecorded
  /\ UNCHANGED <<timestamp, readTree, settings, zoneMap>>

\* imr_lsm_run_compactions_locked: flush the bottom, then at most LEVELS rounds.
RunFlush ==
  /\ op.pc = "flush"
  /\ FlushBottom
  /\ op' = [pc |-> "rounds", round |-> 0]
  /\ UNCHANGED <<timestamp, readTree, settings, zoneMap, host, history>>

RunFlushFails ==
  /\ op.pc = "flush"
  /\ FlushBottomFails
  /\ FailRecorded
  /\ UNCHANGED <<timestamp, readTree, settings, zoneMap>>

RunRound ==
  /\ op.pc = "rounds"
  /\ op.round < MaxRounds
  /\ \E l \in PickedLevels : CompactLevel(l)
  /\ op' = [op EXCEPT !.round = @ + 1]
  /\ UNCHANGED <<timestamp, readTree, settings, zoneMap, host, history>>

RunRoundFails ==
  /\ op.pc = "rounds"
  /\ op.round < MaxRounds
  /\ \E l \in PickedLevels : CompactLevelFails(l)
  /\ FailRecorded
  /\ UNCHANGED <<timestamp, readTree, settings, zoneMap>>

RunDone ==
  /\ op.pc = "rounds"
  /\ op.round = MaxRounds \/ PickedLevels = {}
  /\ Return(TRUE)
  /\ UNCHANGED <<timestamp, lists, readTree, settings, zoneMap, history>>

UnmapDeleted ==
  /\ host.pc = "unmap"
  /\ zoneMap' = [zoneMap EXCEPT ![host.key] = NoPayload]
  /\ host' = HostIdle
  /\ stillMapped' = stillMapped \ {host.key}
  /\ UNCHANGED <<timestamp, lists, readTree, settings, op, last, unrecorded>>

\* imr_lsm_read: only the read tree changes, and only when it had no node.
Read(k) ==
  /\ host = HostIdle
  /\ op = OpIdle
  /\ TreeNodes(k) = {}
  /\ \E r \in NewestFound(k) : readTree' \in TreeUpdates(readTree, r)
  /\ UNCHANGED <<timestamp, lists, settings, zoneMap, host, op, history>>

-----------------------------------------------------------------------------
(* Zone compaction: every live key of the zone gets a new record of the    *)
(* bottom level, which is also what the rebuilt zone map points to.  Which *)
(* zones are full, and where the blocks go, is not part of this module.    *)

LivePayload(k) ==
  IF LatestRecord(k) = {} THEN zoneMap[k]
  ELSE (CHOOSE r \in LatestRecord(k) : TRUE).val

LiveKeys(zone) == {k \in zone : LivePayload(k) # NoPayload}

CompactZone(zone) ==
  /\ host = HostIdle
  /\ op = OpIdle
  /\ nextSegmentId < MaxSegments
  /\ LiveKeys(zone) # {}
  /\ LET live == LiveKeys(zone)
         stamps == (timestamp + 1)..(timestamp + Cardinality(live))
     IN \E stamp \in [live -> stamps] :
          LET table == {[key |-> k, ts |-> stamp[k], val |-> LivePayload(k)] : k \in live}
          IN
          /\ \A j, k \in live : stamp[j] = stamp[k] => j = k
          /\ timestamp + Cardinality(live) <= MaxTimestamp
          /\ timestamp' = timestamp + Cardinality(live)
          /\ segments' = segments \cup {Segment(MAX_LEVEL, table)}
          /\ nextSegmentId' = nextSegmentId + 1
          /\ zoneMap' = [k \in Keys |-> IF k \notin zone THEN zoneMap[k]
                                        ELSE IF k \in live THEN LivePayload(k)
                                        ELSE NoPayload]
          /\ readTree' \in {t \in SUBSET ({n \in readTree : n.key \notin live} \cup table) :
                              Cardinality(t) <= readTreeLimit}
          /\ last' = [k \in Keys |-> IF k \in live
                                     THEN [key |-> k, ts |-> stamp[k], val |-> LivePayload(k)]
                                     ELSE last[k]]
          /\ unrecorded' = unrecorded \ zone
          /\ stillMapped' = stillMapped \ zone
  /\ UNCHANGED <<unsorted, sorted, settings, host, op>>

\* A failed copy or allocation leaves only the advanced timestamp behind.
CompactZoneFails(zone) ==
  /\ host = HostIdle
  /\ op = OpIdle
  /\ "table" \in AllocFail
  /\ \E n \in 1..Cardinality(LiveKeys(zone)) :
       timestamp + n <= MaxTimestamp /\ timestamp' = timestamp + n
  /\ UNCHANGED <<lists, readTree, settings, zoneMap, host, op, history>>

-----------------------------------------------------------------------------
(* debugfs commands, under imr_lsm_lock only.                              *)

ManualCompact(l) ==
  /\ op = OpIdle
  /\ nextSegmentId < MaxSegments
  /\ CompactLevel(l)
  /\ UNCHANGED <<timestamp, readTree, settings, zoneMap, host, op, history>>

ManualCompactFails(l) ==
  /\ op = OpIdle
  /\ CompactLevelFails(l)
  /\ UNCHANGED <<timestamp, readTree, settings, zoneMap, host, op, history>>

\* The obsolete ratio decides which segments are candidates; the weights that
\* rank the candidates are abstracted, so any of them may be selected.
InvalidEntries(s) == {r \in s.table : ~ShouldKeep(r)}
IsCandidate(s) ==
  /\ ~s.retired
  /\ InvalidEntries(s) # {}
  /\ (Cardinality(InvalidEntries(s)) * 1000) \div Cardinality(s.table) >= MIN_OBSOLETE_RATIO

SelectSegment(s) ==
  /\ op = OpIdle
  /\ nextSegmentId < MaxSegments
  /\ IsCandidate(s)
  /\ op' = [pc |-> "rewrite", segment |-> s]
  /\ UNCHANGED <<timestamp, lists, readTree, settings, zoneMap, host, history>>

\* The entries imr_lsm_commit_output_metadata_locked puts into the read tree:
\* live, committed to an output block, and not obsolete.
Committable == {r \in TableRecords : Valid(r) /\ ~HasNewer(r)}

\* z_pba_map is read again here, without imrsim_zone_lock: a host request may
\* have changed it since the segment was selected.
RewriteSegment ==
  /\ op.pc = "rewrite"
  /\ UNCHANGED <<timestamp, unsorted, sorted, settings, zoneMap, host, history>>
  /\ LET s == op.segment
         kept == {r \in s.table : ShouldKeep(r)}
         retired == (segments \ {s}) \cup {[s EXCEPT !.retired = TRUE]}
     IN IF kept = {}
        THEN /\ segments' = retired
             /\ UNCHANGED <<nextSegmentId, readTree>>
        ELSE /\ segments' = retired \cup {Segment(s.level, kept)}
             /\ nextSegmentId' = nextSegmentId + 1
             /\ readTree' \in TreesAfter(Committable')
  /\ op' = OpIdle

RewriteSegmentFails ==
  /\ op.pc = "rewrite"
  /\ "table" \in AllocFail
  /\ op' = OpIdle
  /\ UNCHANGED <<timestamp, lists, readTree, settings, zoneMap, host, history>>

CommitOutput ==
  /\ op = OpIdle
  /\ readTree' \in TreesAfter(Committable)
  /\ UNCHANGED <<timestamp, lists, settings, zoneMap, host, op, history>>

ClearReadTree ==
  /\ op = OpIdle
  /\ readTree' = {}
  /\ UNCHANGED <<timestamp, lists, settings, zoneMap, host, op, history>>

SetReadTreeLimit(limit) ==
  /\ op = OpIdle
  /\ readTreeLimit' = limit
  /\ readTree' \in {t \in SUBSET readTree :
                      IF Cardinality(readTree) <= limit THEN t = readTree
                      ELSE Cardinality(t) = limit}
  /\ UNCHANGED <<timestamp, lists, threshold, zoneMap, host, op, history>>

SetThreshold(t) ==
  /\ op = OpIdle
  /\ threshold' = t
  /\ UNCHANGED <<timestamp, lists, readTree, readTreeLimit, zoneMap, host, op, history>>

-----------------------------------------------------------------------------
\* A target is created over a zone map restored from disk and an empty index.
Init ==
  /\ timestamp = 0
  /\ unsorted = [l \in Levels |-> {}]
  /\ sorted = [l \in Levels |-> {}]
  /\ segments = {}
  /\ nextSegmentId = 0
  /\ readTree = {}
  /\ readTreeLimit \in ReadTreeLimits
  /\ threshold \in Thresholds
  /\ zoneMap \in [Keys -> Value]
  /\ host = HostIdle
  /\ op = OpIdle
  /\ last = [k \in Keys |-> [key |-> k, ts |-> 0, val |-> zoneMap[k]]]
  /\ unrecorded = {} /\ stillMapped = {}

HostNext ==
  \/ \E k \in Keys, p \in Payload : StartWrite(k, p)
  \/ \E k \in Keys : StartDelete(k) \/ Read(k)
  \/ \E z \in Zones : CompactZone(z) \/ CompactZoneFails(z)
  \/ UnmapDeleted

IndexNext ==
  \/ BeginAppend \/ BeginAppendFails
  \/ AppendUnsorted \/ AppendUnsortedFails
  \/ CompactFullLevel \/ CompactFullLevelFails
  \/ RunFlush \/ RunFlushFails
  \/ RunRound \/ RunRoundFails \/ RunDone

DebugNext ==
  \/ \E l \in Levels : ManualCompact(l) \/ ManualCompactFails(l)
  \/ \E s \in segments : SelectSegment(s)
  \/ RewriteSegment \/ RewriteSegmentFails
  \/ CommitOutput
  \/ ClearReadTree
  \/ \E limit \in ReadTreeLimits : SetReadTreeLimit(limit)
  \/ \E t \in Thresholds : SetThreshold(t)

Next == HostNext \/ IndexNext \/ DebugNext

Spec == Init /\ [][Next]_vars

-----------------------------------------------------------------------------
(* Properties.                                                             *)

\* The types of the variables: every record the index keeps is of a known key,
\* every level is one of the LEVELS, and a rewrite's segment is still listed.
TypeOK ==
  /\ timestamp \in Nat
  /\ unsorted \in [Levels -> SUBSET Records]
  /\ sorted \in [Levels -> SUBSET Records]
  /\ segments \subseteq [id : Nat, level : Levels, retired : BOOLEAN, table : SUBSET Records]
  /\ nextSegmentId \in Nat
  /\ readTree \subseteq Records
  /\ readTreeLimit \in ReadTreeLimits
  /\ threshold \in Thresholds
  /\ zoneMap \in [Keys -> Value]
  /\ host \in {HostIdle} \cup [pc : {"insert", "delete", "unmap"}, key : Keys, val : Value]
  /\ op \in {OpIdle} \cup [pc : {"append", "flush"}] \cup [pc : {"compact"}, level : Levels]
           \cup [pc : {"rounds"}, round : 0..MaxRounds] \cup [pc : {"rewrite"}, segment : segments]
  /\ last \in [Keys -> Records]
  /\ unrecorded \subseteq Keys /\ stillMapped \subseteq Keys

Inserting(k) == host.pc = "insert" /\ host.key = k

\* A read answers with the newest record of its key wherever compaction has
\* put it, whatever the read tree holds, at every step of every operation;
\* only a write that failed before it was recorded may show through instead.
ReadsNewest ==
  \A k \in Keys :
    \/ Inserting(k)
    \/ ReadValue(k) = last[k].val
    \/ k \in unrecorded /\ ReadValue(k) = zoneMap[k]

\* Zone compaction, which also consults the sorted lists a read skips, keeps
\* exactly the content a read returns.
ZoneCompactionSeesNewest ==
  \A k \in Keys :
    \/ Inserting(k)
    \/ LivePayload(k) = last[k].val
    \/ k \in unrecorded /\ LivePayload(k) = zoneMap[k]

\* However its allocations fail, a flush, a compaction or a rewrite never drops
\* the newest live record of a key: the index itself holds it at every step, and
\* no read of it depends on the zone map happening to agree.
NewestKept == \A k \in Keys : last[k].ts > 0 /\ Valid(last[k]) => last[k] \in Searchable

\* "During reads, the newest tombstone masks older live records and prevents
\* fallback to stale disk data" (README.md): once a delete is recorded, no read
\* sees the key again before it is written again.
TombstoneMasks ==
  \A k \in Keys :
    last[k].ts > 0 /\ last[k].val = NoPayload /\ ~Inserting(k) /\ k \notin unrecorded
      => ReadValue(k) = NoPayload

\* Two searchable copies of one record (same key and timestamp) are equal, so
\* it does not matter which level a tie is resolved to.
CopiesAgree ==
  \A r, q \in Searchable \cup readTree :
    r.key = q.key /\ r.ts = q.ts => r.val = q.val

\* The scans that stop at the first match miss nothing: a sorted list, a block
\* table and the read tree hold one record of a key.
OneRecordPerKey ==
  \A S \in {sorted[l] : l \in Levels} \cup {s.table : s \in segments} \cup {readTree} :
    \A r, q \in S : r.key = q.key => r = q

\* Between requests the persisted zone map alone gives every key the content
\* the index gives it: losing the index (it is not persisted) loses no write
\* and resurrects no deleted key.  Only a request that failed half-way may leave
\* its own key different in the two.
ZoneMapSuffices ==
  host = HostIdle =>
    \A k \in Keys : zoneMap[k] = last[k].val \/ k \in unrecorded \cup stillMapped

\* imr_lsm_run_compactions_locked gives up after a bounded number of rounds, but
\* under requests alone that suffices: a request that returns without an error leaves
\* no level that should be compacted.  (It may when the threshold has been lowered far
\* or after compactions by hand: several levels at once are then beyond their targets.)
LevelsSettled == [][RunDone => PickedLevels = {}]_vars

\* The read tree never holds more nodes than the limit in force allows.
ReadTreeBounded == Cardinality(readTree) <= readTreeLimit

-----------------------------------------------------------------------------
(* The index implements the dictionary of ImrIndex: a key's content is what *)
(* a read returns, and during a write what the key's last record says.  A   *)
(* key is torn while a write of it has been mapped, though not recorded.    *)

TornBlock == [pc |-> "torn"]
Stored(k) ==
  IF k \in unrecorded THEN TornBlock
  ELSE IF Inserting(k) THEN last[k].val
  ELSE ReadValue(k)

Dictionary == INSTANCE ImrIndex
  WITH content <- [k \in Keys |-> Stored(k)],
       request <- IF host = HostIdle THEN HostIdle
                  ELSE [key |-> host.key, val |-> host.val],
       NoRequest <- HostIdle,
       Torn <- TornBlock

\* Every request takes effect once, before it is acknowledged, or fails without
\* one, whatever allocation fails when; and no compaction, rewrite, cache or
\* debugfs step changes what reads return.
ImplementsDictionary == Dictionary!Spec
===============================================================================
