----------------------------- MODULE ImrLsmProofs -----------------------------
(***************************************************************************)
(* Proofs about ImrLsm, for every set of keys, zones and payloads, every   *)
(* number of levels and every threshold.  They assume that the append of a *)
(* segment does not fail once its sources have been freed; with that       *)
(* failure the theorems are false (run lsm_append_failure).                *)
(***************************************************************************)
EXTENDS ImrLsm, FiniteSetTheorems, TLAPS

-----------------------------------------------------------------------------
(* The inductive invariant.  A read consults less than the index holds: it *)
(* skips the sorted list of a level that ever had a segment.  So it is the *)
(* unsorted lists and the tables that must hold the newest record.         *)

Recorded == UnsortedRecords \cup TableRecords

\* No record is newer than its key's last one, and a tie is the same record.
RecordsBounded ==
  \A r \in Searchable :
    /\ r.ts >= 1
    /\ r.ts <= last[r.key].ts
    /\ r.ts = last[r.key].ts => r.val = last[r.key].val

LastBounded == \A k \in Keys : last[k].key = k /\ last[k].ts <= timestamp

\* A read tree node may be older than the last record only if both are
\* tombstones of the key.
TreeCurrent ==
  \A n \in readTree : n.val = last[n.key].val /\ n.ts <= last[n.key].ts

\* What a read that finds no live record of the key falls back to.
Unindexed(k) ==
  \/ last[k].ts = 0
  \/ ~Valid(last[k]) /\ \A r \in Searchable : r.key = k => ~Valid(r)
FallbackCurrent(k) == zoneMap[k] = last[k].val \/ k \in unrecorded \/ Inserting(k)

NewestHeld ==
  \A k \in Keys : last[k] \in Recorded \/ (Unindexed(k) /\ FallbackCurrent(k))

\* The phases of a host request: whether its record has been made yet.
RecordMade == op.pc \in {"compact", "flush", "rounds"} \/ host.pc = "unmap"
HostConsistent ==
  /\ host.pc = "insert" => host.val # NoPayload /\ zoneMap[host.key] # NoPayload
  /\ host.pc \in {"delete", "unmap"} => host.val = NoPayload
  /\ op.pc \in {"append", "compact", "flush", "rounds"} => HasPending
  /\ RecordMade => /\ last[host.key].ts > 0
                   /\ last[host.key].val = host.val
                   /\ host.key \notin unrecorded
  /\ op.pc = "rewrite" => ~op.segment.retired
  /\ \A k \in unrecorded : zoneMap[k] # NoPayload

IndexOK == RecordsBounded /\ LastBounded /\ TreeCurrent /\ NewestHeld
IInv == TypeOK /\ IndexOK /\ HostConsistent

-----------------------------------------------------------------------------
(* What moving records between lists preserves.                            *)

ListsType ==
  /\ unsorted \in [Levels -> SUBSET Records]
  /\ sorted \in [Levels -> SUBSET Records]
  /\ segments \subseteq [id : Nat, level : Levels, retired : BOOLEAN, table : SUBSET Records]
  /\ nextSegmentId \in Nat

Unsurpassed(r) == \A q \in Searchable : q.key = r.key => q.ts <= r.ts

\* A step that only moves records: none appears, and none that is the newest of
\* its key leaves the unsorted lists and the tables.
RecordsMove ==
  /\ ListsType'
  /\ segments \subseteq segments'
  /\ Searchable' \subseteq Searchable
  /\ \A r \in Recorded : Unsurpassed(r) => r \in Recorded'

LEMMA LevelsNumbered == MAX_LEVEL \in Levels /\ 0..(MAX_LEVEL - 1) \subseteq Levels
  BY LevelsAssumption DEF MAX_LEVEL, Levels

LEMMA SearchableTyped ==
  ASSUME ListsType PROVE Searchable \subseteq Records /\ Recorded \subseteq Searchable
  BY DEF ListsType, Searchable, Recorded, UnsortedRecords, SortedRecords, TableRecords, Active

\* Freeing the sources and appending the segment of their newest records.
LEMMA MoveIntoMoves ==
  ASSUME ListsType,
         NEW src \in Levels, NEW dst \in Levels, NEW input,
         unsorted[src] \subseteq input,
         input \subseteq unsorted[src] \cup sorted[src],
         MoveInto(src, dst, input)
  PROVE  RecordsMove
<1>1. input \subseteq Records /\ input \subseteq Searchable
  BY DEF ListsType, Searchable, UnsortedRecords, SortedRecords
<1>2. Newest(input) \subseteq input
  BY DEF Newest
<1>3. Segment(dst, Newest(input)) \in
        [id : Nat, level : Levels, retired : BOOLEAN, table : SUBSET Records]
  BY <1>1, <1>2 DEF Segment, ListsType
<1>4. ListsType'
  <2>1. Newest(sorted[dst] \cup input) \subseteq Records
    BY <1>1 DEF Newest, ListsType
  <2> QED
    BY <1>3, <2>1 DEF ListsType, MoveInto, FreeSources
<1>5. UnsortedRecords' \subseteq UnsortedRecords
  BY DEF MoveInto, FreeSources, UnsortedRecords, ListsType
<1>6. SortedRecords' \subseteq SortedRecords \cup input
  BY DEF MoveInto, FreeSources, SortedRecords, ListsType, Newest
<1>7. TableRecords' = TableRecords \cup Newest(input)
  <2> DEFINE new == Segment(dst, Newest(input))
  <2>1. ~new.retired /\ new.table = Newest(input)
    BY DEF Segment
  <2>2. Active' = Active \cup {new}
    BY <2>1 DEF Active, MoveInto
  <2> HIDE DEF new
  <2> QED
    BY <2>1, <2>2 DEF TableRecords
<1>8. Searchable' \subseteq Searchable
  BY <1>1, <1>2, <1>5, <1>6, <1>7 DEF Searchable
<1>9. ASSUME NEW r \in Recorded, Unsurpassed(r) PROVE r \in Recorded'
  <2>1. CASE r \in TableRecords
    BY <2>1, <1>7 DEF Recorded
  <2>2. CASE r \in unsorted[src]
    <3>1. r \in Newest(input)
      BY <2>2, <1>1, <1>9 DEF Newest, Unsurpassed
    <3> QED
      BY <3>1, <1>7 DEF Recorded
  <2>3. CASE r \in UnsortedRecords /\ r \notin unsorted[src]
    BY <2>3 DEF Recorded, UnsortedRecords, MoveInto, FreeSources, ListsType
  <2> QED
    BY <2>1, <2>2, <2>3 DEF Recorded
<1> QED
  BY <1>4, <1>8, <1>9 DEF RecordsMove, MoveInto

\* A failure before the sources are freed leaves copies of some of them.
LEMMA FailedMoveMoves ==
  ASSUME ListsType, NEW dst \in Levels, NEW input,
         input \subseteq Searchable,
         MoveFailsEarly(dst, input)
  PROVE  RecordsMove
<1>1. PICK done \in SUBSET input : sorted' = [sorted EXCEPT ![dst] = Newest(@ \cup done)]
  BY DEF MoveFailsEarly
<1>2. Newest(sorted[dst] \cup done) \subseteq sorted[dst] \cup input
  BY DEF Newest
<1>3. ListsType'
  BY <1>1, <1>2, SearchableTyped DEF ListsType, MoveFailsEarly
<1>4. SortedRecords' \subseteq SortedRecords \cup input
  BY <1>1, <1>2 DEF SortedRecords, ListsType
<1>5. UnsortedRecords' = UnsortedRecords /\ TableRecords' = TableRecords
  BY DEF MoveFailsEarly, UnsortedRecords, TableRecords, Active
<1> QED
  BY <1>3, <1>4, <1>5 DEF RecordsMove, MoveFailsEarly, Searchable, Recorded

LEMMA StutterMoves ==
  ASSUME ListsType, UNCHANGED lists PROVE RecordsMove
  BY SearchableTyped
  DEF ListsType, lists, RecordsMove, Searchable, Recorded, UnsortedRecords, SortedRecords,
      TableRecords, Active

LEMMA FlushBottomMoves ==
  ASSUME ListsType, FlushBottom PROVE RecordsMove
<1>1. CASE NeedsBottomFlush
  BY <1>1, LevelsNumbered, MoveIntoMoves DEF FlushBottom
<1>2. CASE ~NeedsBottomFlush
  BY <1>2, StutterMoves DEF FlushBottom
<1> QED
  BY <1>1, <1>2

LEMMA FlushBottomFailsMoves ==
  ASSUME "append" \notin AllocFail, ListsType, FlushBottomFails PROVE RecordsMove
<1>1. unsorted[MAX_LEVEL] \subseteq Searchable
  BY LevelsNumbered DEF ListsType, Searchable, UnsortedRecords
<1> QED
  BY <1>1, LevelsNumbered, FailedMoveMoves DEF FlushBottomFails, MoveFailsLate

LEMMA CompactLevelMoves ==
  ASSUME ListsType, NEW l \in Levels, CompactLevel(l) PROVE RecordsMove
<1>1. PICK dst \in Levels :
        IF CompactionInput(l, dst) = {} THEN UNCHANGED lists
        ELSE MoveInto(l, dst, CompactionInput(l, dst))
  BY DEF CompactLevel
<1>2. CASE CompactionInput(l, dst) = {}
  BY <1>1, <1>2, StutterMoves
<1>3. CASE CompactionInput(l, dst) # {}
  <2>1. /\ unsorted[l] \subseteq CompactionInput(l, dst)
        /\ CompactionInput(l, dst) \subseteq unsorted[l] \cup sorted[l]
    BY DEF CompactionInput
  <2> QED
    BY <1>1, <1>3, <2>1, MoveIntoMoves
<1> QED
  BY <1>2, <1>3

LEMMA CompactLevelFailsMoves ==
  ASSUME "append" \notin AllocFail, ListsType, NEW l \in Levels, CompactLevelFails(l)
  PROVE  RecordsMove
<1>1. PICK dst \in Levels : MoveFailsEarly(dst, CompactionInput(l, dst))
  BY DEF CompactLevelFails, MoveFailsLate
<1>2. CompactionInput(l, dst) \subseteq Searchable
  BY DEF CompactionInput, ListsType, Searchable, UnsortedRecords, SortedRecords
<1> QED
  BY <1>1, <1>2, FailedMoveMoves

-----------------------------------------------------------------------------
(* Type correctness.                                                       *)

HostType == host \in {HostIdle} \cup [pc : {"insert", "delete", "unmap"}, key : Keys, val : Value]
OpType ==
  op \in {OpIdle} \cup [pc : {"append", "flush"}] \cup [pc : {"compact"}, level : Levels]
         \cup [pc : {"rounds"}, round : 0..MaxRounds] \cup [pc : {"rewrite"}, segment : segments]
RestType ==
  /\ timestamp \in Nat
  /\ readTree \subseteq Records
  /\ readTreeLimit \in ReadTreeLimits
  /\ threshold \in Thresholds
  /\ zoneMap \in [Keys -> Value]
  /\ last \in [Keys -> Records]
  /\ unrecorded \subseteq Keys /\ stillMapped \subseteq Keys

LEMMA TypeParts == TypeOK <=> ListsType /\ RestType /\ HostType /\ OpType
  BY DEF TypeOK, ListsType, RestType, HostType, OpType

LEMMA TypePartsPrimed ==
  ASSUME ListsType', RestType', HostType', OpType' PROVE TypeOK'
  BY DEF TypeOK, ListsType, RestType, HostType, OpType

LEMMA TreeUpdatesTyped ==
  ASSUME NEW tree, NEW r, NEW t \in TreeUpdates(tree, r)
  PROVE  t \subseteq tree \cup {r}
  BY DEF TreeUpdates, kSubset

LEMMA ReturnTyped ==
  ASSUME HostType, HasPending, NEW ok, Return(ok) PROVE HostType' /\ OpType'
  BY DEF HostType, OpType, HasPending, Return, HostIdle, OpIdle

LEMMA OpKept ==
  ASSUME OpType, segments \subseteq segments', op' = op PROVE OpType'
  BY DEF OpType

\* While a record is on its way the request that made it is still pending.
OpHasPending == op.pc \in {"append", "compact", "flush", "rounds"} => HasPending

LEMMA InsertPayload ==
  ASSUME HostType, HasPending
  PROVE  /\ host.key \in Keys /\ host.val \in Value
         /\ host \in [pc : {"insert", "delete"}, key : Keys, val : Value]
  BY DEF HostType, HasPending, HostIdle

LEMMA RoundsTyped ==
  ASSUME OpType, op.pc = "rounds", op.round < MaxRounds
  PROVE  [op EXCEPT !.round = @ + 1] \in [pc : {"rounds"}, round : 0..MaxRounds]
  BY LevelsAssumption DEF OpType, OpIdle, MaxRounds

LEMMA LiveTyped ==
  ASSUME ListsType, RestType, NEW k \in Keys
  PROVE  LivePayload(k) \in Value
<1>1. LatestRecord(k) \subseteq Records
  BY SearchableTyped DEF LatestRecord
<1>2. CASE LatestRecord(k) = {}
  BY <1>2 DEF LivePayload, RestType
<1>3. CASE LatestRecord(k) # {}
  <2>1. (CHOOSE r \in LatestRecord(k) : TRUE) \in Records
    BY <1>1, <1>3
  <2> QED
    BY <1>3, <2>1 DEF LivePayload, Records
<1> QED
  BY <1>2, <1>3

LEMMA ZoneTyped ==
  ASSUME NEW zone \in Zones
  PROVE  /\ LiveKeys(zone) \subseteq zone /\ zone \subseteq Keys
         /\ Cardinality(LiveKeys(zone)) \in Nat
<1>1. LiveKeys(zone) \subseteq zone /\ zone \subseteq Keys /\ IsFiniteSet(zone)
  BY ZonesAssumption DEF LiveKeys
<1> QED
  BY <1>1, FS_Subset, FS_CardinalityType

-----------------------------------------------------------------------------
(* A step that only moves records preserves the index invariant, provided  *)
(* that what an unindexed key falls back to stays as it was.               *)

\* The read tree keeps nodes or takes up current records.
TreeMoves ==
  readTree' \subseteq
    readTree \cup {r \in Records : r.val = last[r.key].val /\ r.ts <= last[r.key].ts}

LEMMA RecordsMovePreserves ==
  ASSUME TypeOK, IndexOK, RecordsMove, TreeMoves,
         UNCHANGED <<timestamp, last>>,
         \A k \in Keys : Unindexed(k) /\ FallbackCurrent(k) => FallbackCurrent(k)'
  PROVE  IndexOK'
<1>1. RecordsBounded' /\ LastBounded' /\ TreeCurrent'
  BY DEF IndexOK, RecordsMove, TreeMoves, RecordsBounded, LastBounded, TreeCurrent
<1>2. NewestHeld'
  <2> SUFFICES ASSUME NEW k \in Keys
               PROVE  last[k] \in Recorded' \/ (Unindexed(k)' /\ FallbackCurrent(k)')
    BY DEF NewestHeld
  <2>1. CASE last[k] \in Recorded
    <3>1. Unsurpassed(last[k])
      BY DEF IndexOK, RecordsBounded, LastBounded, Unsurpassed
    <3> QED
      BY <2>1, <3>1 DEF RecordsMove
  <2>2. CASE Unindexed(k) /\ FallbackCurrent(k)
    BY <2>2 DEF RecordsMove, Unindexed
  <2> QED
    BY <2>1, <2>2 DEF IndexOK, NewestHeld
<1> QED
  BY <1>1, <1>2 DEF IndexOK

-----------------------------------------------------------------------------
(* Every action preserves the invariant.                                   *)

LEMMA InitEstablishes == Init => IInv
<1> SUFFICES ASSUME Init PROVE IInv
  OBVIOUS
<1>1. Searchable = {}
  BY DEF Init, Searchable, UnsortedRecords, SortedRecords, TableRecords, Active
<1>2. TypeOK
  BY DEF Init, TypeOK, Records
<1>3. IndexOK
  BY <1>1 DEF Init, IndexOK, RecordsBounded, LastBounded, TreeCurrent, NewestHeld,
              Unindexed, FallbackCurrent
<1>4. HostConsistent
  BY DEF Init, HostConsistent, RecordMade, HostIdle, OpIdle
<1> QED
  BY <1>2, <1>3, <1>4 DEF IInv

LEMMA StartWriteStep ==
  ASSUME IInv, NEW k \in Keys, NEW p \in Payload, StartWrite(k, p) PROVE IInv'
<1> USE DEF StartWrite, HostIdle
<1>1. p # NoPayload /\ p \in Value
  BY NoPayloadAssumption DEF Value
<1>2. ListsType /\ RestType /\ OpType
  BY TypeParts DEF IInv
<1>3. RecordsMove
  BY <1>2, StutterMoves
<1>4. TypeOK'
  <2>1. RestType' /\ HostType'
    BY <1>1, <1>2 DEF RestType, HostType, settings, history
  <2>2. ListsType' /\ OpType'
    BY <1>2, <1>3, OpKept DEF RecordsMove
  <2> QED
    BY <2>1, <2>2, TypePartsPrimed
<1>5. IndexOK'
  <2>1. \A j \in Keys : FallbackCurrent(j) => FallbackCurrent(j)'
    BY <1>2 DEF FallbackCurrent, Inserting, RestType, history
  <2> QED
    BY <1>3, <2>1, RecordsMovePreserves DEF IInv, history, TreeMoves
<1>6. HostConsistent'
  BY <1>1, <1>2 DEF IInv, HostConsistent, RecordMade, HasPending, RestType, history
<1> QED
  BY <1>4, <1>5, <1>6 DEF IInv

LEMMA StartDeleteStep ==
  ASSUME IInv, NEW k \in Keys, StartDelete(k) PROVE IInv'
<1> USE DEF StartDelete, HostIdle
<1>1. ListsType /\ RestType /\ OpType
  BY TypeParts DEF IInv
<1>2. RecordsMove
  BY <1>1, StutterMoves
<1>3. TypeOK'
  <2>1. RestType' /\ HostType'
    BY <1>1 DEF RestType, HostType, settings, history, Value
  <2>2. ListsType' /\ OpType'
    BY <1>1, <1>2, OpKept DEF RecordsMove
  <2> QED
    BY <2>1, <2>2, TypePartsPrimed
<1>4. IndexOK'
  <2>1. \A j \in Keys : FallbackCurrent(j) => FallbackCurrent(j)'
    BY DEF FallbackCurrent, Inserting, history
  <2> QED
    BY <1>2, <2>1, RecordsMovePreserves DEF IInv, history, TreeMoves
<1>5. HostConsistent'
  BY DEF IInv, HostConsistent, RecordMade, HasPending, history
<1> QED
  BY <1>3, <1>4, <1>5 DEF IInv

\* The record of a request that is being unmapped is a tombstone already.
LEMMA UnmapDeletedStep ==
  ASSUME IInv, UnmapDeleted PROVE IInv'
<1> USE DEF UnmapDeleted
<1>1. ListsType /\ RestType /\ OpType /\ HostType
  BY TypeParts DEF IInv
<1>2. RecordsMove
  BY <1>1, StutterMoves
<1>3. host.key \in Keys /\ last[host.key].val = NoPayload
  BY <1>1 DEF IInv, HostConsistent, RecordMade, HostType, HostIdle
<1>4. TypeOK'
  <2>1. RestType' /\ HostType'
    BY <1>1 DEF RestType, HostType, settings, history, Value
  <2>2. ListsType' /\ OpType'
    BY <1>1, <1>2, OpKept DEF RecordsMove
  <2> QED
    BY <2>1, <2>2, TypePartsPrimed
<1>5. IndexOK'
  <2>1. \A j \in Keys : FallbackCurrent(j) => FallbackCurrent(j)'
    BY <1>1, <1>3 DEF FallbackCurrent, Inserting, history, RestType
  <2> QED
    BY <1>2, <2>1, RecordsMovePreserves DEF IInv, history, TreeMoves
<1>6. HostConsistent'
  BY <1>1 DEF IInv, HostConsistent, RecordMade, HasPending, history, RestType, HostIdle
<1> QED
  BY <1>4, <1>5, <1>6 DEF IInv

\* A step of a request that moves records, changes op and leaves the rest alone.
LEMMA IndexStep ==
  ASSUME IInv, RecordsMove, HasPending, host' = host,
         UNCHANGED <<timestamp, readTree, settings, zoneMap, history>>,
         OpType', op'.pc # "rewrite",
         RecordMade' => RecordMade
  PROVE  IInv'
<1>1. TypeOK'
  BY TypeParts, TypePartsPrimed DEF IInv, RecordsMove, RestType, HostType, settings, history
<1>2. IndexOK'
  <2>1. \A j \in Keys : FallbackCurrent(j) => FallbackCurrent(j)'
    BY DEF FallbackCurrent, Inserting, history
  <2> QED
    BY <2>1, RecordsMovePreserves DEF IInv, history, TreeMoves
<1>3. HostConsistent'
  BY DEF IInv, HostConsistent, RecordMade, HasPending, history
<1> QED
  BY <1>1, <1>2, <1>3 DEF IInv

\* The operation ends after the record was made, well or not.
LEMMA ReturnStep ==
  ASSUME IInv, RecordsMove, HasPending, RecordMade, NEW ok, Return(ok),
         UNCHANGED <<timestamp, readTree, settings, zoneMap, history>>
  PROVE  IInv'
<1>1. ListsType /\ RestType /\ HostType /\ OpType
  BY TypeParts DEF IInv
<1>2. TypeOK'
  BY <1>1, ReturnTyped, TypePartsPrimed DEF RecordsMove, RestType, settings, history
<1>3. host.key \in Keys /\ last[host.key].ts > 0 /\ last[host.key].val = host.val
  BY <1>1, InsertPayload DEF IInv, HostConsistent
<1>4. IndexOK'
  <2>1. ASSUME NEW j \in Keys, Unindexed(j), FallbackCurrent(j) PROVE FallbackCurrent(j)'
    <3>1. ~Inserting(j)
      BY <1>3, <2>1 DEF Inserting, IInv, HostConsistent, Unindexed, Valid
    <3> QED
      BY <2>1, <3>1 DEF FallbackCurrent, history
  <2> QED
    BY <2>1, RecordsMovePreserves DEF IInv, history, TreeMoves
<1>5. HostConsistent'
  BY DEF IInv, HostConsistent, RecordMade, HasPending, history, Return, OpIdle, HostIdle
<1> QED
  BY <1>2, <1>4, <1>5 DEF IInv

\* Whether the operation's delete is noted as still mapped does not matter here.
LEMMA FailRecordedStep ==
  ASSUME IInv, RecordsMove, HasPending, RecordMade, FailRecorded,
         UNCHANGED <<timestamp, readTree, settings, zoneMap>>
  PROVE  IInv'
<1> USE DEF FailRecorded
<1>1. ListsType /\ RestType /\ HostType /\ OpType
  BY TypeParts DEF IInv
<1>2. host.key \in Keys /\ last[host.key].ts > 0 /\ last[host.key].val = host.val
  BY <1>1, InsertPayload DEF IInv, HostConsistent
<1>3. TypeOK'
  BY <1>1, <1>2, ReturnTyped, TypePartsPrimed DEF RecordsMove, RestType, settings
<1>4. IndexOK'
  <2>1. ASSUME NEW j \in Keys, Unindexed(j), FallbackCurrent(j) PROVE FallbackCurrent(j)'
    <3>1. ~Inserting(j)
      BY <1>2, <2>1 DEF Inserting, IInv, HostConsistent, Unindexed, Valid
    <3> QED
      BY <2>1, <3>1 DEF FallbackCurrent
  <2> QED
    BY <2>1, RecordsMovePreserves DEF IInv, TreeMoves
<1>5. HostConsistent'
  BY DEF IInv, HostConsistent, RecordMade, HasPending, Return, OpIdle, HostIdle
<1> QED
  BY <1>3, <1>4, <1>5 DEF IInv

\* The operation fails before the record is made.
LEMMA FailUnrecordedStep ==
  ASSUME IInv, RecordsMove, HasPending, ~RecordMade, FailUnrecorded,
         readTree' \subseteq readTree,
         UNCHANGED <<timestamp, settings, zoneMap>>
  PROVE  IInv'
<1> USE DEF FailUnrecorded
<1>1. ListsType /\ RestType /\ HostType /\ OpType
  BY TypeParts DEF IInv
<1>2. TypeOK'
  BY <1>1, ReturnTyped, InsertPayload, TypePartsPrimed DEF RecordsMove, RestType, settings
<1>3. IndexOK'
  <2>1. ASSUME NEW j \in Keys, FallbackCurrent(j) PROVE FallbackCurrent(j)'
    BY <2>1 DEF FallbackCurrent, Inserting
  <2> QED
    BY <2>1, RecordsMovePreserves DEF IInv, TreeMoves
<1>4. HostConsistent'
  BY <1>1 DEF IInv, HostConsistent, RecordMade, HasPending, Return, OpIdle, HostIdle
<1> QED
  BY <1>2, <1>3, <1>4 DEF IInv

\* A step that moves records, tree nodes or settings and no request or operation.
LEMMA BackgroundStep ==
  ASSUME IInv, RecordsMove, TreeMoves,
         readTreeLimit' \in ReadTreeLimits, threshold' \in Thresholds,
         UNCHANGED <<timestamp, zoneMap, host, op, history>>
  PROVE  IInv'
<1>1. TypeOK'
  BY TypeParts, TypePartsPrimed, OpKept
  DEF IInv, RecordsMove, TreeMoves, RestType, HostType, history
<1>2. IndexOK'
  <2>1. \A j \in Keys : FallbackCurrent(j) => FallbackCurrent(j)'
    BY DEF FallbackCurrent, Inserting, history
  <2> QED
    BY <2>1, RecordsMovePreserves DEF IInv, history
<1>3. HostConsistent'
  BY DEF IInv, HostConsistent, RecordMade, HasPending, history
<1> QED
  BY <1>1, <1>2, <1>3 DEF IInv

-----------------------------------------------------------------------------
(* The steps of a request in the index.                                    *)

LEMMA BeginAppendStep ==
  ASSUME IInv, BeginAppend PROVE IInv'
<1>1. RecordsMove
  BY FlushBottomMoves, TypeParts DEF IInv, BeginAppend
<1>2. OpType' /\ ~RecordMade'
  BY DEF BeginAppend, OpType, RecordMade, HasPending
<1> QED
  BY <1>1, <1>2, IndexStep DEF BeginAppend

LEMMA BeginAppendFailsStep ==
  ASSUME "append" \notin AllocFail, IInv, BeginAppendFails PROVE IInv'
<1>1. RecordsMove
  BY FlushBottomFailsMoves, TypeParts DEF IInv, BeginAppendFails
<1>2. ~RecordMade
  BY DEF BeginAppendFails, RecordMade, HasPending, OpIdle
<1> QED
  BY <1>1, <1>2, FailUnrecordedStep DEF BeginAppendFails

\* The new record is newer than all others, and the tree takes it or loses its key.
\* The tree loses the key's nodes to the new record, which none of them is newer than.
LEMMA AppendedTree ==
  ASSUME IInv, AppendUnsorted
  PROVE  readTree' \subseteq {n \in readTree : n.key # host.key}
                              \cup {[key |-> host.key, ts |-> NextTimestamp, val |-> host.val]}
<1> DEFINE r == [key |-> host.key, ts |-> NextTimestamp, val |-> host.val]
           tree == TreeBeforeAppend
           mine == {n \in tree : n.key = r.key}
<1>1. ListsType /\ RestType /\ HostType /\ OpType /\ op.pc = "append"
  BY TypeParts DEF IInv, AppendUnsorted
<1>2. host.key \in Keys /\ timestamp \in Nat
  BY <1>1, InsertPayload DEF IInv, HostConsistent, RestType
<1>3. r.key = host.key /\ r.ts = timestamp + 1
  BY DEF NextTimestamp
<1>4. readTree' \in TreeUpdates(tree, r)
  BY DEF AppendUnsorted
<1>5. tree \subseteq readTree
  BY DEF TreeBeforeAppend
<1>6. CASE mine # {}
  <2>1. \A n \in mine : r.ts >= n.ts
    <3> SUFFICES ASSUME NEW n \in mine PROVE r.ts >= n.ts
      OBVIOUS
    <3>1. n \in readTree /\ n \in Records /\ n.key = host.key
      BY <1>1, <1>3, <1>5 DEF RestType
    <3>2. n.ts \in Nat /\ n.ts <= last[host.key].ts /\ last[host.key].ts <= timestamp
          /\ last[host.key].ts \in Nat
      BY <3>1, <1>1, <1>2 DEF IInv, IndexOK, TreeCurrent, LastBounded, RestType, Records
    <3> QED
      BY <3>2, <1>2, <1>3
  <2>2. readTree' = (tree \ mine) \cup {r}
    BY <1>4, <1>6, <2>1 DEF TreeUpdates
  <2> QED
    BY <2>2, <1>3, <1>5
<1>7. CASE mine = {}
  BY <1>3, <1>4, <1>5, <1>7, TreeUpdatesTyped
<1> QED
  BY <1>6, <1>7

LEMMA AppendUnsortedStep ==
  ASSUME IInv, AppendUnsorted PROVE IInv'
<1> DEFINE r == [key |-> host.key, ts |-> NextTimestamp, val |-> host.val]
<1>1. PICK l \in Levels :
        /\ timestamp' = NextTimestamp
        /\ unsorted' = [unsorted EXCEPT ![l] = @ \cup {r}]
        /\ readTree' \in TreeUpdates(TreeBeforeAppend, r)
        /\ last' = [last EXCEPT ![r.key] = r]
        /\ unrecorded' = unrecorded \ {r.key}
        /\ stillMapped' \subseteq stillMapped
        /\ op' = IF Cardinality(unsorted'[l]) >= Capacity(l)
                 THEN [pc |-> "compact", level |-> l]
                 ELSE [pc |-> "flush"]
  BY DEF AppendUnsorted
<1>2. UNCHANGED <<sorted, segments, nextSegmentId, settings, zoneMap, host>> /\ op.pc = "append"
  BY DEF AppendUnsorted
<1>3. ListsType /\ RestType /\ HostType /\ OpType
  BY TypeParts DEF IInv
<1>4. HasPending /\ host.key \in Keys /\ host.val \in Value
  BY <1>2, <1>3, InsertPayload DEF IInv, HostConsistent
<1>5. /\ r \in Records /\ r.key = host.key /\ r.val = host.val /\ r.ts = timestamp + 1
      /\ timestamp \in Nat /\ timestamp' = timestamp + 1
  BY <1>1, <1>3, <1>4 DEF RestType, Records, NextTimestamp
<1>6. readTree' \subseteq readTree \cup {r}
  BY <1>1, TreeUpdatesTyped DEF TreeBeforeAppend
<1>7. Searchable' = Searchable \cup {r} /\ Recorded' = Recorded \cup {r}
  <2>1. UnsortedRecords' = UnsortedRecords \cup {r}
    <3> HIDE DEF r
    <3> QED
      BY <1>1, <1>3 DEF UnsortedRecords, ListsType
  <2>2. SortedRecords' = SortedRecords /\ TableRecords' = TableRecords
    BY <1>2 DEF SortedRecords, TableRecords, Active
  <2> QED
    BY <2>1, <2>2 DEF Searchable, Recorded
<1>8. TypeOK'
  <2>1. ListsType'
    BY <1>1, <1>2, <1>3, <1>5 DEF ListsType
  <2>2. RestType'
    <3> HIDE DEF r
    <3>1. last' \in [Keys -> Records] /\ readTree' \subseteq Records
         /\ unrecorded' \subseteq Keys /\ stillMapped' \subseteq Keys
      BY <1>1, <1>3, <1>5, <1>6 DEF RestType
    <3> QED
      BY <3>1, <1>2, <1>3, <1>5 DEF RestType, settings
  <2>3. HostType' /\ OpType'
    BY <1>1, <1>2, <1>3 DEF HostType, OpType
  <2> QED
    BY <2>1, <2>2, <2>3, TypePartsPrimed
<1>9. /\ last'[host.key] = r
      /\ \A k \in Keys : k # host.key => last'[k] = last[k]
  BY <1>1, <1>3, <1>4, <1>5 DEF RestType
<1>10. readTree' \subseteq {n \in readTree : n.key # host.key} \cup {r}
  BY AppendedTree
<1> HIDE DEF r
<1>11. \A q \in Searchable \cup readTree : q \in Records
  BY <1>3, SearchableTyped DEF RestType
<1>12. \A k \in Keys : last[k].ts \in Nat /\ last[k].ts <= timestamp /\ last[k].key = k
  BY <1>3 DEF IInv, IndexOK, LastBounded, RestType, Records
<1>13. RecordsBounded' /\ LastBounded' /\ TreeCurrent'
  <2>1. RecordsBounded'
    <3> SUFFICES ASSUME NEW q \in Searchable'
                 PROVE  /\ q.ts >= 1 /\ q.ts <= last'[q.key].ts
                        /\ q.ts = last'[q.key].ts => q.val = last'[q.key].val
      BY DEF RecordsBounded
    <3>1. CASE q = r
      BY <3>1, <1>5, <1>9
    <3>2. CASE q \in Searchable
      <4>1. /\ q.key \in Keys /\ q.ts \in Nat
            /\ q.ts >= 1 /\ q.ts <= last[q.key].ts
            /\ q.ts = last[q.key].ts => q.val = last[q.key].val
        BY <3>2, <1>11 DEF IInv, IndexOK, RecordsBounded, Records
      <4> QED
        BY <4>1, <1>5, <1>9, <1>12
    <3> QED
      BY <3>1, <3>2, <1>7
  <2>2. LastBounded'
    BY <1>4, <1>5, <1>9, <1>12 DEF LastBounded
  <2>3. TreeCurrent'
    <3> SUFFICES ASSUME NEW n \in readTree'
                 PROVE  n.val = last'[n.key].val /\ n.ts <= last'[n.key].ts
      BY DEF TreeCurrent
    <3>1. CASE n = r
      BY <3>1, <1>5, <1>9
    <3>2. CASE n \in readTree /\ n.key # host.key
      BY <3>2, <1>9, <1>11 DEF IInv, IndexOK, TreeCurrent, Records
    <3> QED
      BY <3>1, <3>2, <1>10
  <2> QED
    BY <2>1, <2>2, <2>3
<1>14. NewestHeld'
  <2> SUFFICES ASSUME NEW k \in Keys
               PROVE  last'[k] \in Recorded' \/ (Unindexed(k)' /\ FallbackCurrent(k)')
    BY DEF NewestHeld
  <2>1. CASE k = host.key
    BY <2>1, <1>7, <1>9
  <2>2. CASE k # host.key
    <3>1. FallbackCurrent(k) => FallbackCurrent(k)'
      BY <2>2, <1>1, <1>2, <1>5, <1>9 DEF FallbackCurrent, Inserting
    <3>2. Unindexed(k) => Unindexed(k)'
      BY <2>2, <1>5, <1>7, <1>9 DEF Unindexed
    <3> QED
      BY <2>2, <3>1, <3>2, <1>7, <1>9 DEF IInv, IndexOK, NewestHeld
  <2> QED
    BY <2>1, <2>2
<1>15. HostConsistent'
  <2>1. /\ host' = host /\ op'.pc \in {"compact", "flush"}
        /\ last'[host.key].ts > 0 /\ last'[host.key].val = host.val
        /\ unrecorded' = unrecorded \ {host.key}
    BY <1>1, <1>2, <1>5, <1>9
  <2> QED
    BY <2>1, <1>2, <1>4 DEF IInv, HostConsistent, RecordMade, HasPending
<1> QED
  BY <1>8, <1>13, <1>14, <1>15 DEF IInv, IndexOK

LEMMA AppendUnsortedFailsStep ==
  ASSUME IInv, AppendUnsortedFails PROVE IInv'
<1>1. RecordsMove
  BY StutterMoves, TypeParts DEF IInv, AppendUnsortedFails
<1>2. HasPending /\ ~RecordMade /\ readTree' \subseteq readTree
  BY DEF IInv, HostConsistent, AppendUnsortedFails, RecordMade, HasPending, TreeBeforeAppend
<1> QED
  BY <1>1, <1>2, FailUnrecordedStep DEF AppendUnsortedFails

LEMMA RecordMadePhases ==
  ASSUME IInv, op.pc \in {"compact", "flush", "rounds"}
  PROVE  RecordMade /\ HasPending /\ ListsType /\ OpType
  BY TypeParts DEF IInv, HostConsistent, RecordMade

LEMMA CompactFullLevelStep ==
  ASSUME IInv, CompactFullLevel PROVE IInv'
<1>1. RecordMade /\ HasPending /\ ListsType /\ op.level \in Levels
  BY RecordMadePhases DEF CompactFullLevel, OpType, OpIdle
<1>2. RecordsMove
  BY <1>1, CompactLevelMoves DEF CompactFullLevel
<1>3. OpType'
  BY DEF CompactFullLevel, OpType
<1> QED
  BY <1>1, <1>2, <1>3, IndexStep DEF CompactFullLevel

LEMMA CompactFullLevelFailsStep ==
  ASSUME "append" \notin AllocFail, IInv, CompactFullLevelFails PROVE IInv'
<1>1. RecordMade /\ HasPending /\ ListsType /\ op.level \in Levels
  BY RecordMadePhases DEF CompactFullLevelFails, OpType, OpIdle
<1>2. RecordsMove
  BY <1>1, CompactLevelFailsMoves DEF CompactFullLevelFails
<1> QED
  BY <1>1, <1>2, FailRecordedStep DEF CompactFullLevelFails

LEMMA RunFlushStep ==
  ASSUME IInv, RunFlush PROVE IInv'
<1>1. RecordMade /\ HasPending /\ ListsType
  BY RecordMadePhases DEF RunFlush
<1>2. RecordsMove
  BY <1>1, FlushBottomMoves DEF RunFlush
<1>3. OpType'
  BY LevelsAssumption DEF RunFlush, OpType, MaxRounds
<1> QED
  BY <1>1, <1>2, <1>3, IndexStep DEF RunFlush

LEMMA RunFlushFailsStep ==
  ASSUME "append" \notin AllocFail, IInv, RunFlushFails PROVE IInv'
<1>1. RecordMade /\ HasPending /\ ListsType
  BY RecordMadePhases DEF RunFlushFails
<1>2. RecordsMove
  BY <1>1, FlushBottomFailsMoves DEF RunFlushFails
<1> QED
  BY <1>1, <1>2, FailRecordedStep DEF RunFlushFails

LEMMA PickedTyped == PickedLevels \subseteq Levels
  BY LevelsNumbered DEF PickedLevels

LEMMA RunRoundStep ==
  ASSUME IInv, RunRound PROVE IInv'
<1>1. RecordMade /\ HasPending /\ ListsType /\ OpType
  BY RecordMadePhases DEF RunRound
<1>2. RecordsMove
  BY <1>1, PickedTyped, CompactLevelMoves DEF RunRound
<1>3. op' \in [pc : {"rounds"}, round : 0..MaxRounds]
  BY <1>1, RoundsTyped DEF RunRound
<1>4. OpType' /\ op'.pc = "rounds"
  BY <1>3 DEF OpType
<1> QED
  BY <1>1, <1>2, <1>4, IndexStep DEF RunRound

LEMMA RunRoundFailsStep ==
  ASSUME "append" \notin AllocFail, IInv, RunRoundFails PROVE IInv'
<1>1. RecordMade /\ HasPending /\ ListsType
  BY RecordMadePhases DEF RunRoundFails
<1>2. RecordsMove
  BY <1>1, PickedTyped, CompactLevelFailsMoves DEF RunRoundFails
<1> QED
  BY <1>1, <1>2, FailRecordedStep DEF RunRoundFails

LEMMA RunDoneStep ==
  ASSUME IInv, RunDone PROVE IInv'
<1>1. RecordMade /\ HasPending /\ ListsType
  BY RecordMadePhases DEF RunDone
<1>2. RecordsMove
  BY <1>1, StutterMoves DEF RunDone
<1> QED
  BY <1>1, <1>2, ReturnStep DEF RunDone

-----------------------------------------------------------------------------
(* Reads and debugfs commands that touch the read tree or the settings.    *)

\* The newest record a read finds is current: it is the last one of the key, or
\* one more tombstone of a key whose last tombstone has been dropped.
LEMMA NewestFoundCurrent ==
  ASSUME IInv, NEW k \in Keys, NEW r \in NewestFound(k)
  PROVE  r \in Records /\ r.key = k /\ r.val = last[k].val /\ r.ts <= last[k].ts
<1>1. ListsType /\ RestType
  BY TypeParts DEF IInv
<1>2. Visible \subseteq Searchable /\ Recorded \subseteq Visible
  BY DEF Visible, Searchable, Recorded, SortedRecords
<1>3. r \in Searchable /\ r \in Records /\ r.key = k
  BY <1>1, <1>2, SearchableTyped DEF NewestFound, Found
<1>4. /\ r.ts \in Nat /\ r.ts >= 1 /\ r.ts <= last[k].ts /\ last[k].ts \in Nat
      /\ last[k].key = k
      /\ r.ts = last[k].ts => r.val = last[k].val
  BY <1>1, <1>3 DEF IInv, IndexOK, RecordsBounded, LastBounded, Records, RestType
<1>5. CASE last[k] \in Recorded
  BY <1>2, <1>3, <1>4, <1>5 DEF NewestFound, Found
<1>6. CASE Unindexed(k)
  BY <1>3, <1>4, <1>6 DEF Unindexed, Valid
<1> QED
  BY <1>3, <1>4, <1>5, <1>6 DEF IInv, IndexOK, NewestHeld

LEMMA ReadStep ==
  ASSUME IInv, NEW k \in Keys, Read(k) PROVE IInv'
<1>1. PICK r \in NewestFound(k) : readTree' \in TreeUpdates(readTree, r)
  BY DEF Read
<1>2. TreeMoves
  BY <1>1, TreeUpdatesTyped, NewestFoundCurrent DEF TreeMoves
<1>3. RecordsMove
  BY StutterMoves, TypeParts DEF IInv, Read
<1> QED
  BY <1>2, <1>3, TypeParts, BackgroundStep DEF IInv, RestType, Read, settings

\* A live entry that no record surpasses is the last record of its key.
CommittableCurrent ==
  \A r \in Committable : r \in Records /\ r.val = last[r.key].val /\ r.ts <= last[r.key].ts

LEMMA CommittableIsCurrent ==
  TypeOK /\ RecordsBounded /\ LastBounded /\ NewestHeld => CommittableCurrent
<1> SUFFICES ASSUME TypeOK, RecordsBounded, LastBounded, NewestHeld, NEW r \in Committable
             PROVE  r \in Records /\ r.val = last[r.key].val /\ r.ts <= last[r.key].ts
  BY DEF CommittableCurrent
<1>1. ListsType /\ RestType
  BY TypeParts
<1>2. r \in Searchable /\ r \in Records /\ Valid(r) /\ ~HasNewer(r)
  BY <1>1, SearchableTyped DEF Committable, Searchable
<1>3. /\ r.key \in Keys /\ r.ts \in Nat /\ r.ts >= 1 /\ r.ts <= last[r.key].ts
      /\ last[r.key].ts \in Nat /\ last[r.key].key = r.key
      /\ r.ts = last[r.key].ts => r.val = last[r.key].val
  BY <1>1, <1>2 DEF RecordsBounded, LastBounded, Records, RestType
<1>4. CASE last[r.key] \in Recorded
  <2>1. last[r.key] \in Searchable
    BY <1>4, <1>1, SearchableTyped
  <2> QED
    BY <2>1, <1>2, <1>3 DEF HasNewer
<1>5. CASE Unindexed(r.key)
  BY <1>2, <1>3, <1>5 DEF Unindexed
<1> QED
  BY <1>2, <1>3, <1>4, <1>5 DEF NewestHeld

\* The same of the state a step leads to.
LEMMA CommittableIsCurrentNext ==
  (TypeOK /\ RecordsBounded /\ LastBounded /\ NewestHeld)' => CommittableCurrent'
BY CommittableIsCurrent, PTL

LEMMA CommitOutputStep ==
  ASSUME IInv, CommitOutput PROVE IInv'
<1>1. TreeMoves
  BY CommittableIsCurrent DEF IInv, IndexOK, CommittableCurrent, CommitOutput, TreesAfter, TreeMoves
<1>2. RecordsMove
  BY StutterMoves, TypeParts DEF IInv, CommitOutput
<1> QED
  BY <1>1, <1>2, TypeParts, BackgroundStep DEF IInv, RestType, CommitOutput, settings

LEMMA SettingsStep ==
  ASSUME IInv,
         \/ ClearReadTree
         \/ \E limit \in ReadTreeLimits : SetReadTreeLimit(limit)
         \/ \E t \in Thresholds : SetThreshold(t)
  PROVE  IInv'
<1>1. RecordsMove
  BY StutterMoves, TypeParts DEF IInv, ClearReadTree, SetReadTreeLimit, SetThreshold
<1>2. /\ TreeMoves
      /\ readTreeLimit' \in ReadTreeLimits /\ threshold' \in Thresholds
  BY TypeParts DEF IInv, RestType, TreeMoves, ClearReadTree, SetReadTreeLimit, SetThreshold, settings
<1> QED
  BY <1>1, <1>2, BackgroundStep DEF ClearReadTree, SetReadTreeLimit, SetThreshold

LEMMA ManualCompactStep ==
  ASSUME "append" \notin AllocFail, IInv, NEW l \in Levels,
         ManualCompact(l) \/ ManualCompactFails(l)
  PROVE  IInv'
<1>1. RecordsMove
  BY TypeParts, CompactLevelMoves, CompactLevelFailsMoves DEF IInv, ManualCompact, ManualCompactFails
<1> QED
  BY <1>1, TypeParts, BackgroundStep
  DEF IInv, RestType, TreeMoves, ManualCompact, ManualCompactFails, settings

LEMMA SelectSegmentStep ==
  ASSUME IInv, NEW s \in segments, SelectSegment(s) PROVE IInv'
<1>1. ListsType /\ RestType /\ HostType /\ OpType
  BY TypeParts DEF IInv
<1>2. RecordsMove
  BY <1>1, StutterMoves DEF SelectSegment
<1>3. TypeOK'
  <2>1. segments' = segments /\ op' \in [pc : {"rewrite"}, segment : segments]
    BY DEF SelectSegment, lists
  <2>2. OpType'
    BY <2>1 DEF OpType
  <2> QED
    BY <1>1, <1>2, <2>2, TypePartsPrimed DEF SelectSegment, RecordsMove, RestType, HostType, settings, history
<1>4. IndexOK'
  <2>1. \A j \in Keys : FallbackCurrent(j) => FallbackCurrent(j)'
    BY DEF FallbackCurrent, Inserting, SelectSegment, history
  <2> QED
    BY <1>2, <2>1, RecordsMovePreserves DEF IInv, SelectSegment, history, TreeMoves
<1>5. HostConsistent'
  BY DEF IInv, HostConsistent, RecordMade, HasPending, SelectSegment, IsCandidate, OpIdle, history
<1> QED
  BY <1>3, <1>4, <1>5 DEF IInv

-----------------------------------------------------------------------------
(* The rewrite of a segment, the one step that drops newest records: of    *)
(* tombstones that mask nothing any more.                                  *)

LEMMA RewriteSegmentStep ==
  ASSUME IInv, RewriteSegment PROVE IInv'
<1> DEFINE s == op.segment
           kept == {r \in s.table : ShouldKeep(r)}
           retired == (segments \ {s}) \cup {[s EXCEPT !.retired = TRUE]}
<1>1. ListsType /\ RestType /\ HostType /\ OpType
  BY TypeParts DEF IInv
<1>2. /\ op.pc = "rewrite" /\ op' = OpIdle
      /\ UNCHANGED <<timestamp, unsorted, sorted, settings, zoneMap, host, history>>
      /\ \/ kept = {} /\ segments' = retired /\ UNCHANGED <<nextSegmentId, readTree>>
         \/ /\ segments' = retired \cup {Segment(s.level, kept)}
            /\ nextSegmentId' = nextSegmentId + 1
            /\ readTree' \in TreesAfter(Committable')
  BY DEF RewriteSegment
<1>3. s \in segments /\ ~s.retired
  BY <1>1, <1>2 DEF OpType, OpIdle, IInv, HostConsistent
<1>4. /\ s.table \subseteq Records /\ s.level \in Levels /\ kept \subseteq s.table
      /\ [s EXCEPT !.retired = TRUE].retired
      /\ [s EXCEPT !.retired = TRUE] \in
           [id : Nat, level : Levels, retired : BOOLEAN, table : SUBSET Records]
  BY <1>1, <1>3 DEF ListsType
<1>5. /\ Segment(s.level, kept) \in
            [id : Nat, level : Levels, retired : BOOLEAN, table : SUBSET Records]
      /\ ~Segment(s.level, kept).retired /\ Segment(s.level, kept).table = kept
  BY <1>1, <1>4 DEF Segment, ListsType
<1>6. ListsType'
  <2>1. retired \subseteq [id : Nat, level : Levels, retired : BOOLEAN, table : SUBSET Records]
    BY <1>1, <1>4 DEF ListsType
  <2> HIDE DEF s, kept, retired
  <2> QED
    BY <2>1, <1>1, <1>2, <1>5 DEF ListsType
<1>7. /\ \A r \in TableRecords' : r \in TableRecords
      /\ \A r \in TableRecords : r \in TableRecords' \/ (r \in s.table /\ r \notin kept)
  <2> DEFINE old == [s EXCEPT !.retired = TRUE]
             new == Segment(s.level, kept)
  <2>1. Active' = Active \ {s} \/ (Active' = (Active \ {s}) \cup {new})
    BY <1>2, <1>4, <1>5 DEF Active
  <2>2. kept = {} \/ new \in Active'
    BY <1>2, <1>5 DEF Active
  <2>3. s \in Active
    BY <1>3 DEF Active
  <2> HIDE DEF new, old, s
  <2>4. new.table = kept /\ kept \subseteq s.table
    BY <1>4, <1>5 DEF new
  <2> HIDE DEF kept
  <2> QED
    BY <2>1, <2>2, <2>3, <2>4 DEF TableRecords
<1>8. UnsortedRecords' = UnsortedRecords /\ SortedRecords' = SortedRecords
  BY <1>2 DEF UnsortedRecords, SortedRecords
<1>9. Searchable' \subseteq Searchable
  BY <1>7, <1>8 DEF Searchable
<1>10. RecordsBounded' /\ LastBounded'
  BY <1>2, <1>9 DEF IInv, IndexOK, RecordsBounded, LastBounded, history
<1>11. NewestHeld'
  <2> SUFFICES ASSUME NEW k \in Keys
               PROVE  last[k] \in Recorded' \/ (Unindexed(k)' /\ FallbackCurrent(k)')
    BY <1>2 DEF NewestHeld, history
  <2>1. last' = last /\ unrecorded' = unrecorded /\ zoneMap' = zoneMap /\ host' = host
    BY <1>2 DEF history
  <2>2. CASE Unindexed(k) /\ FallbackCurrent(k)
    BY <2>1, <2>2, <1>9 DEF Unindexed, FallbackCurrent, Inserting
  <2>3. CASE last[k] \in UnsortedRecords \/ last[k] \in TableRecords'
    BY <2>3, <1>8 DEF Recorded
  <2>4. CASE last[k] \in s.table /\ last[k] \notin kept
    <3>1. /\ last[k].key = k /\ last[k].ts \in Nat /\ ~ShouldKeep(last[k])
          /\ Searchable \subseteq Records
      BY <1>1, <2>4, SearchableTyped DEF IInv, IndexOK, LastBounded, RestType, Records
    <3>2. ~HasNewer(last[k])
      BY <3>1 DEF HasNewer, IInv, IndexOK, RecordsBounded, Records
    <3>3. ~Valid(last[k]) /\ zoneMap[k] = NoPayload /\ ~HasOlderValid(last[k])
      BY <3>1, <3>2 DEF ShouldKeep, TombstoneShouldKeep
    <3>4. Unindexed(k)
      BY <3>1, <3>3 DEF Unindexed, HasOlderValid, IInv, IndexOK, RecordsBounded, Records, Valid
    <3>5. last[k].val = NoPayload
      BY <3>3 DEF Valid
    <3> QED
      BY <2>1, <3>3, <3>4, <3>5, <1>9 DEF Unindexed, FallbackCurrent
  <2> QED
    BY <2>2, <2>3, <2>4, <1>7 DEF IInv, IndexOK, NewestHeld, Recorded
<1>12. readTree' \subseteq readTree \/ readTree' \subseteq readTree \cup Committable'
  BY <1>2 DEF TreesAfter
<1>13. TypeOK'
  <2>1. Committable' \subseteq Records
    BY <1>6, <1>7, <1>1, SearchableTyped DEF Committable, Searchable
  <2>2. RestType' /\ HostType' /\ OpType'
    BY <1>1, <1>2, <1>12, <2>1 DEF RestType, HostType, OpType, settings, history
  <2> QED
    BY <1>6, <2>2, TypePartsPrimed
<1>14. TreeCurrent'
  <2>1. \A r \in Committable' : r.val = last'[r.key].val /\ r.ts <= last'[r.key].ts
    BY <1>10, <1>11, <1>13, CommittableIsCurrentNext DEF CommittableCurrent
  <2> QED
    BY <2>1, <1>2, <1>12 DEF IInv, IndexOK, TreeCurrent, history
<1>15. HostConsistent'
  BY <1>2 DEF IInv, HostConsistent, RecordMade, HasPending, OpIdle, history
<1> QED
  BY <1>10, <1>11, <1>13, <1>14, <1>15 DEF IInv, IndexOK

LEMMA RewriteSegmentFailsStep ==
  ASSUME IInv, RewriteSegmentFails PROVE IInv'
<1> USE DEF RewriteSegmentFails
<1>1. ListsType /\ RestType /\ HostType /\ OpType
  BY TypeParts DEF IInv
<1>2. RecordsMove
  BY <1>1, StutterMoves
<1>3. TypeOK'
  BY <1>1, <1>2, TypePartsPrimed DEF RecordsMove, RestType, HostType, OpType, settings, history
<1>4. IndexOK'
  <2>1. \A j \in Keys : FallbackCurrent(j) => FallbackCurrent(j)'
    BY DEF FallbackCurrent, Inserting, history
  <2> QED
    BY <1>2, <2>1, RecordsMovePreserves DEF IInv, history, TreeMoves
<1>5. HostConsistent'
  BY DEF IInv, HostConsistent, RecordMade, HasPending, OpIdle, history
<1> QED
  BY <1>3, <1>4, <1>5 DEF IInv

-----------------------------------------------------------------------------
(* Zone compaction gives every live key of the zone a new record and drops *)
(* the zone map entries of the others.                                     *)

LEMMA CompactZoneStep ==
  ASSUME IInv, NEW zone \in Zones, CompactZone(zone) PROVE IInv'
<1> DEFINE live == LiveKeys(zone)
           n == Cardinality(live)
<1>1. ListsType /\ RestType /\ HostType /\ OpType
  BY TypeParts DEF IInv
<1>2. live \subseteq zone /\ zone \subseteq Keys /\ n \in Nat
  BY ZoneTyped
<1>3. /\ host = HostIdle /\ op = OpIdle
      /\ UNCHANGED <<unsorted, sorted, settings, host, op>>
  BY DEF CompactZone
<1>4. PICK stamp \in [live -> (timestamp + 1)..(timestamp + n)] :
        LET table == {[key |-> k, ts |-> stamp[k], val |-> LivePayload(k)] : k \in live} IN
        /\ timestamp' = timestamp + n
        /\ segments' = segments \cup {Segment(MAX_LEVEL, table)}
        /\ nextSegmentId' = nextSegmentId + 1
        /\ zoneMap' = [k \in Keys |-> IF k \notin zone THEN zoneMap[k]
                                      ELSE IF k \in live THEN LivePayload(k)
                                      ELSE NoPayload]
        /\ readTree' \in {t \in SUBSET ({m \in readTree : m.key \notin live} \cup table) :
                            Cardinality(t) <= readTreeLimit}
        /\ last' = [k \in Keys |-> IF k \in live
                                   THEN [key |-> k, ts |-> stamp[k], val |-> LivePayload(k)]
                                   ELSE last[k]]
        /\ unrecorded' = unrecorded \ zone
        /\ stillMapped' \subseteq stillMapped
  BY DEF CompactZone
<1> DEFINE made(k) == [key |-> k, ts |-> stamp[k], val |-> LivePayload(k)]
           table == {made(k) : k \in live}
<1>5. \A k \in live : /\ k \in Keys /\ stamp[k] \in Nat
                      /\ stamp[k] > timestamp /\ stamp[k] <= timestamp'
                      /\ LivePayload(k) \in Value /\ LivePayload(k) # NoPayload
  BY <1>1, <1>2, <1>4, LiveTyped DEF RestType, LiveKeys
<1>6. /\ \A k \in live : made(k) \in Records /\ made(k) \in table
      /\ table \subseteq Records
      /\ \A r \in table : r.key \in live /\ r = made(r.key)
  BY <1>5 DEF Records
<1>7. /\ Segment(MAX_LEVEL, table) \in
            [id : Nat, level : Levels, retired : BOOLEAN, table : SUBSET Records]
      /\ ~Segment(MAX_LEVEL, table).retired /\ Segment(MAX_LEVEL, table).table = table
  BY <1>1, <1>6, LevelsNumbered DEF Segment, ListsType
<1>8. /\ timestamp \in Nat /\ timestamp' \in Nat /\ timestamp' >= timestamp
      /\ segments' = segments \cup {Segment(MAX_LEVEL, table)}
      /\ nextSegmentId' = nextSegmentId + 1
      /\ readTree' \subseteq {m \in readTree : m.key \notin live} \cup table
      /\ unrecorded' = unrecorded \ zone /\ stillMapped' \subseteq stillMapped
  BY <1>1, <1>2, <1>4 DEF RestType
<1>9. /\ \A k \in live : last'[k] = made(k)
      /\ \A k \in Keys \ live : last'[k] = last[k]
      /\ last' \in [Keys -> Records]
  BY <1>1, <1>2, <1>4, <1>6 DEF RestType
<1>10. /\ \A k \in Keys \ zone : zoneMap'[k] = zoneMap[k]
       /\ \A k \in zone \ live : zoneMap'[k] = NoPayload
       /\ zoneMap' \in [Keys -> Value]
  BY <1>1, <1>2, <1>4, <1>5 DEF RestType, Value
<1>11. TypeOK'
  <2> HIDE DEF table
  <2>1. ListsType'
    BY <1>1, <1>3, <1>7, <1>8 DEF ListsType
  <2>2. RestType'
    BY <1>1, <1>3, <1>6, <1>8, <1>9, <1>10 DEF RestType, settings
  <2>3. HostType' /\ OpType'
    BY <1>3 DEF HostType, OpType
  <2> QED
    BY <2>1, <2>2, <2>3, TypePartsPrimed
<1> HIDE DEF table, live, n
<1>12. Searchable' = Searchable \cup table /\ Recorded' = Recorded \cup table
  <2>1. UnsortedRecords' = UnsortedRecords /\ SortedRecords' = SortedRecords
    BY <1>3 DEF UnsortedRecords, SortedRecords
  <2>2. Active' = Active \cup {Segment(MAX_LEVEL, table)}
    BY <1>7, <1>8 DEF Active
  <2>3. TableRecords' = TableRecords \cup table
    BY <2>2, <1>7 DEF TableRecords
  <2> QED
    BY <2>1, <2>3 DEF Searchable, Recorded
<1>13. \A k \in Keys : last[k].key = k /\ last[k].ts \in Nat /\ last[k].ts <= timestamp
  BY <1>1 DEF IInv, IndexOK, LastBounded, RestType, Records
<1>14. \A r \in Searchable : /\ r \in Records /\ r.ts \in Nat /\ r.key \in Keys
                             /\ r.ts >= 1 /\ r.ts <= last[r.key].ts
                             /\ r.ts = last[r.key].ts => r.val = last[r.key].val
  BY <1>1, SearchableTyped DEF IInv, IndexOK, RecordsBounded, Records
<1>15. \A k \in Keys : /\ last'[k].key = k /\ last'[k].ts \in Nat /\ last'[k].ts <= timestamp'
                       /\ k \in live => last'[k].ts > timestamp
  <2> SUFFICES ASSUME NEW k \in Keys
               PROVE  /\ last'[k].key = k /\ last'[k].ts \in Nat /\ last'[k].ts <= timestamp'
                      /\ k \in live => last'[k].ts > timestamp
    OBVIOUS
  <2>1. CASE k \in live
    <3>1. last'[k] = made(k)
      BY <2>1, <1>9
    <3>2. made(k).key = k /\ made(k).ts = stamp[k]
      OBVIOUS
    <3> QED
      BY <2>1, <3>1, <3>2, <1>5
  <2>2. CASE k \notin live
    <3>1. last'[k] = last[k]
      BY <2>2, <1>9
    <3> QED
      BY <2>2, <3>1, <1>8, <1>13
  <2> QED
    BY <2>1, <2>2
<1>16. RecordsBounded'
  <2> SUFFICES ASSUME NEW q \in Searchable'
               PROVE  /\ q.ts >= 1 /\ q.ts <= last'[q.key].ts
                      /\ q.ts = last'[q.key].ts => q.val = last'[q.key].val
    BY DEF RecordsBounded
  <2>1. CASE q \in table
    BY <2>1, <1>5, <1>6, <1>8, <1>9
  <2>2. CASE q \in Searchable /\ q.key \notin live
    BY <2>2, <1>9, <1>14
  <2>3. CASE q \in Searchable /\ q.key \in live
    BY <2>3, <1>8, <1>13, <1>14, <1>15
  <2> QED
    BY <2>1, <2>2, <2>3, <1>12
<1>17. LastBounded'
  BY <1>15 DEF LastBounded
<1>18. TreeCurrent'
  <2> SUFFICES ASSUME NEW m \in readTree'
               PROVE  m.val = last'[m.key].val /\ m.ts <= last'[m.key].ts
    BY DEF TreeCurrent
  <2>1. CASE m \in table
    BY <2>1, <1>5, <1>6, <1>9
  <2>2. CASE m \in readTree /\ m.key \notin live
    BY <2>2, <1>1, <1>9 DEF IInv, IndexOK, TreeCurrent, RestType, Records
  <2> QED
    BY <2>1, <2>2, <1>8
<1>19. NewestHeld'
  <2> SUFFICES ASSUME NEW k \in Keys
               PROVE  last'[k] \in Recorded' \/ (Unindexed(k)' /\ FallbackCurrent(k)')
    BY DEF NewestHeld
  <2>1. CASE k \in live
    BY <2>1, <1>6, <1>9, <1>12
  <2>2. CASE k \notin live /\ last[k] \in Recorded
    BY <2>2, <1>9, <1>12
  <2>3. CASE k \notin live /\ Unindexed(k) /\ FallbackCurrent(k)
    <3>1. Unindexed(k)' /\ last'[k] = last[k]
      BY <2>3, <1>6, <1>9, <1>12 DEF Unindexed
    <3>2. CASE k \notin zone
      BY <2>3, <3>1, <3>2, <1>3, <1>8, <1>10 DEF FallbackCurrent, Inserting
    <3>3. CASE k \in zone
      <4>1. zoneMap'[k] = NoPayload /\ LivePayload(k) = NoPayload
        BY <2>3, <3>3, <1>10 DEF live, LiveKeys
      <4>2. CASE last[k].val = NoPayload
        BY <3>1, <4>1, <4>2 DEF FallbackCurrent
      <4>3. CASE last[k].ts = 0
        <5>1. LatestRecord(k) = {}
          BY <4>3, <1>14 DEF LatestRecord
        <5>2. zoneMap[k] = NoPayload /\ k \notin unrecorded /\ ~Inserting(k)
          BY <4>1, <5>1, <1>3 DEF LivePayload, IInv, HostConsistent, Inserting, HostIdle
        <5> QED
          BY <2>3, <5>2, <3>1, <4>1 DEF FallbackCurrent
      <4> QED
        BY <2>3, <4>2, <4>3 DEF Unindexed, Valid
    <3> QED
      BY <3>1, <3>2, <3>3
  <2> QED
    BY <2>1, <2>2, <2>3 DEF IInv, IndexOK, NewestHeld
<1>20. HostConsistent'
  BY <1>1, <1>3, <1>8, <1>10 DEF IInv, HostConsistent, RecordMade, HasPending, HostIdle, OpIdle, RestType
<1> QED
  BY <1>11, <1>16, <1>17, <1>18, <1>19, <1>20 DEF IInv, IndexOK

LEMMA CompactZoneFailsStep ==
  ASSUME IInv, NEW zone \in Zones, CompactZoneFails(zone) PROVE IInv'
<1>1. ListsType /\ RestType /\ HostType /\ OpType
  BY TypeParts DEF IInv
<1>2. timestamp \in Nat /\ timestamp' \in Nat /\ timestamp <= timestamp'
  BY <1>1, ZoneTyped DEF CompactZoneFails, RestType
<1>3. UNCHANGED <<lists, readTree, settings, zoneMap, host, op, history>>
  BY DEF CompactZoneFails
<1>4. Searchable' = Searchable /\ Recorded' = Recorded
  BY <1>3 DEF Searchable, Recorded, UnsortedRecords, SortedRecords, TableRecords, Active, lists
<1>5. TypeOK'
  BY <1>1, <1>2, <1>3, TypePartsPrimed DEF ListsType, RestType, HostType, OpType, settings, history, lists
<1>6. RecordsBounded' /\ TreeCurrent' /\ NewestHeld'
  BY <1>3, <1>4 DEF IInv, IndexOK, RecordsBounded, TreeCurrent, NewestHeld, Unindexed,
                    FallbackCurrent, Inserting, history
<1>7. LastBounded'
  BY <1>1, <1>2, <1>3 DEF IInv, IndexOK, LastBounded, RestType, Records, history
<1>8. HostConsistent'
  BY <1>3 DEF IInv, HostConsistent, RecordMade, HasPending, history
<1> QED
  BY <1>5, <1>6, <1>7, <1>8 DEF IInv, IndexOK

-----------------------------------------------------------------------------
(* The theorems.                                                           *)

LEMMA NextPreserves ==
  ASSUME "append" \notin AllocFail, IInv, [Next]_vars PROVE IInv'
<1>1. CASE HostNext
  BY <1>1, StartWriteStep, StartDeleteStep, ReadStep, CompactZoneStep, CompactZoneFailsStep,
     UnmapDeletedStep DEF HostNext
<1>2. CASE IndexNext
  BY <1>2, BeginAppendStep, BeginAppendFailsStep, AppendUnsortedStep, AppendUnsortedFailsStep,
     CompactFullLevelStep, CompactFullLevelFailsStep, RunFlushStep, RunFlushFailsStep,
     RunRoundStep, RunRoundFailsStep, RunDoneStep DEF IndexNext
<1>3. CASE DebugNext
  BY <1>3, ManualCompactStep, SelectSegmentStep, RewriteSegmentStep, RewriteSegmentFailsStep,
     CommitOutputStep, SettingsStep DEF DebugNext
<1>4. CASE UNCHANGED vars
  <2>1. RecordsMove
    BY <1>4, TypeParts, StutterMoves DEF IInv, vars
  <2> QED
    BY <1>4, <2>1, TypeParts, BackgroundStep DEF IInv, vars, TreeMoves, RestType, settings
<1> QED
  BY <1>1, <1>2, <1>3, <1>4 DEF Next

\* IInv is inductive.
LEMMA InvariantHolds ==
  ASSUME "append" \notin AllocFail PROVE Spec => []IInv
<1>1. Init => IInv
  BY InitEstablishes
<1>2. IInv /\ [Next]_vars => IInv'
  BY NextPreserves
<1> QED
  BY <1>1, <1>2, PTL DEF Spec

\* Every variable keeps its type.
THEOREM TypeCorrect ==
  ASSUME "append" \notin AllocFail PROVE Spec => []TypeOK
<1>1. IInv => TypeOK
  BY DEF IInv
<1> QED
  BY <1>1, InvariantHolds, PTL

LEMMA ReadsSeeNewest == IInv => ReadsNewest
<1> SUFFICES ASSUME IInv, NEW k \in Keys
             PROVE  \/ Inserting(k)
                    \/ ReadValue(k) = last[k].val
                    \/ k \in unrecorded /\ ReadValue(k) = zoneMap[k]
  BY DEF ReadsNewest
<1>1. CASE TreeNodes(k) # {}
  <2>1. (CHOOSE n \in TreeNodes(k) : TRUE) \in TreeNodes(k)
    BY <1>1
  <2> QED
    BY <1>1, <2>1 DEF ReadValue, TreeNodes, IInv, IndexOK, TreeCurrent
<1>2. CASE TreeNodes(k) = {} /\ \E r \in NewestFound(k) : Valid(r)
  <2>1. (CHOOSE r \in NewestFound(k) : Valid(r)) \in NewestFound(k)
    BY <1>2
  <2> QED
    BY <1>2, <2>1, NewestFoundCurrent DEF ReadValue
<1>3. CASE TreeNodes(k) = {} /\ ~ \E r \in NewestFound(k) : Valid(r)
  <2>1. ReadValue(k) = IF Found(k) # {} THEN NoPayload ELSE zoneMap[k]
    BY <1>3 DEF ReadValue
  <2>2. CASE last[k] \in Recorded
    <3>1. last[k] \in NewestFound(k)
      BY <2>2 DEF NewestFound, Found, Visible, Recorded, IInv, IndexOK, RecordsBounded,
                  LastBounded, Searchable, SortedRecords
    <3> QED
      BY <1>3, <2>1, <3>1 DEF NewestFound, Valid
  <2>3. CASE Unindexed(k) /\ FallbackCurrent(k)
    <3>1. CASE Found(k) = {}
      BY <2>1, <2>3, <3>1 DEF FallbackCurrent
    <3>2. CASE Found(k) # {}
      <4>1. last[k].ts # 0
        BY <3>2, TypeParts, SearchableTyped
        DEF IInv, IndexOK, RecordsBounded, Found, Visible, Searchable, SortedRecords, Records
      <4> QED
        BY <2>1, <2>3, <3>2, <4>1 DEF Unindexed, Valid
    <3> QED
      BY <3>1, <3>2
  <2> QED
    BY <2>2, <2>3 DEF IInv, IndexOK, NewestHeld
<1> QED
  BY <1>1, <1>2, <1>3

\* However compactions, rewrites, cache evictions and allocation failures
\* interleave with requests, a read returns the newest record of its key
\* (imr_lsm_read falling back to z_pba_map).
THEOREM ReadsAreNewest ==
  ASSUME "append" \notin AllocFail PROVE Spec => []ReadsNewest
  BY ReadsSeeNewest, InvariantHolds, PTL

\* No flush, compaction, rewrite or failure drops the newest live record of a key.
THEOREM NewestIsKept ==
  ASSUME "append" \notin AllocFail PROVE Spec => []NewestKept
<1>1. IInv => NewestKept
  BY TypeParts, SearchableTyped DEF IInv, IndexOK, NewestHeld, Unindexed, NewestKept
<1> QED
  BY <1>1, InvariantHolds, PTL

\* A recorded delete masks the key until it is written again.
THEOREM TombstonesMask ==
  ASSUME "append" \notin AllocFail PROVE Spec => []TombstoneMasks
<1>1. ReadsNewest => TombstoneMasks
  BY DEF ReadsNewest, TombstoneMasks
<1> QED
  BY <1>1, ReadsAreNewest, PTL

\* The newest record zone compaction finds, by the same argument.
LEMMA LatestRecordCurrent ==
  ASSUME IInv, NEW k \in Keys, NEW r \in LatestRecord(k)
  PROVE  r.val = last[k].val
<1>1. ListsType /\ RestType
  BY TypeParts DEF IInv
<1>2. /\ r \in Searchable /\ r \in Records /\ r.key = k
      /\ \A q \in Searchable : q.key = k => q.ts <= r.ts
  BY <1>1, SearchableTyped DEF LatestRecord
<1>3. /\ r.ts \in Nat /\ r.ts >= 1 /\ r.ts <= last[k].ts /\ last[k].ts \in Nat
      /\ last[k].key = k
      /\ r.ts = last[k].ts => r.val = last[k].val
  BY <1>1, <1>2 DEF IInv, IndexOK, RecordsBounded, LastBounded, Records, RestType
<1>4. CASE last[k] \in Recorded
  BY <1>1, <1>2, <1>3, <1>4, SearchableTyped
<1>5. CASE Unindexed(k)
  BY <1>2, <1>3, <1>5 DEF Unindexed, Valid
<1> QED
  BY <1>4, <1>5 DEF IInv, IndexOK, NewestHeld

LEMMA ZoneSeesNewest == IInv => ZoneCompactionSeesNewest
<1> SUFFICES ASSUME IInv, NEW k \in Keys
             PROVE  \/ Inserting(k)
                    \/ LivePayload(k) = last[k].val
                    \/ k \in unrecorded /\ LivePayload(k) = zoneMap[k]
  BY DEF ZoneCompactionSeesNewest
<1>1. CASE LatestRecord(k) # {}
  <2>1. (CHOOSE r \in LatestRecord(k) : TRUE) \in LatestRecord(k)
    BY <1>1
  <2> QED
    BY <1>1, <2>1, LatestRecordCurrent DEF LivePayload
<1>2. CASE LatestRecord(k) = {}
  <2>1. last[k] \notin Recorded
    BY <1>2, TypeParts, SearchableTyped
    DEF IInv, IndexOK, LastBounded, RecordsBounded, LatestRecord
  <2> QED
    BY <1>2, <2>1 DEF IInv, IndexOK, NewestHeld, FallbackCurrent, LivePayload
<1> QED
  BY <1>1, <1>2

\* Zone compaction carries over exactly what a read of the zone returns.
THEOREM ZoneCompactionIsNewest ==
  ASSUME "append" \notin AllocFail PROVE Spec => []ZoneCompactionSeesNewest
  BY ZoneSeesNewest, InvariantHolds, PTL

-----------------------------------------------------------------------------
(* Refinement.  The content of the dictionary is the value of every key's  *)
(* last record, except that a key with an unrecorded write is torn.        *)

LastValues == [k \in Keys |-> IF k \in unrecorded THEN TornBlock ELSE last[k].val]

ContentIsLast == [k \in Keys |-> Stored(k)] = LastValues

LEMMA StoredIsLast == IInv => ContentIsLast
  BY ReadsSeeNewest DEF ReadsNewest, Stored, LastValues, ContentIsLast

LEMMA StoredIsLastNext == IInv' => ContentIsLast'
  BY StoredIsLast, PTL

Pending == IF host = HostIdle THEN HostIdle ELSE [key |-> host.key, val |-> host.val]

\* A pending request is not the idle value.
LEMMA PendingRequest ==
  ASSUME HostType, host # HostIdle
  PROVE  /\ Pending = [key |-> host.key, val |-> host.val] /\ Pending # HostIdle
         /\ host.key \in Keys /\ host.val \in Value
<1>1. DOMAIN [key |-> host.key, val |-> host.val] = {"key", "val"} /\ DOMAIN HostIdle = {"pc"}
  BY DEF HostIdle
<1>2. "key" \in {"key", "val"} /\ "key" \notin {"pc"}
  OBVIOUS
<1>3. [key |-> host.key, val |-> host.val] # HostIdle
  BY <1>1, <1>2
<1> QED
  BY <1>3 DEF Pending, HostType

\* What a step of the index is in the dictionary.
DictionarySubmit ==
  \E k \in Keys, v \in Value :
    host = HostIdle /\ Pending' = [key |-> k, val |-> v] /\ LastValues' = LastValues
DictionaryApply ==
  /\ host # HostIdle
  /\ LastValues' = [LastValues EXCEPT ![host.key] = host.val]
  /\ Pending' = Pending
DictionaryAcknowledge ==
  /\ host # HostIdle
  /\ LastValues[host.key] = host.val
  /\ Pending' = HostIdle
  /\ LastValues' = LastValues
DictionaryReject ==
  /\ host # HostIdle
  /\ LastValues' \in {LastValues, [LastValues EXCEPT ![host.key] = TornBlock]}
  /\ Pending' = HostIdle
DictionarySettle ==
  /\ \A k \in Keys : LastValues[k] # TornBlock => LastValues'[k] = LastValues[k]
  /\ Pending' = Pending
DictionaryStutter == Pending' = Pending /\ LastValues' = LastValues
DictionaryStep ==
  \/ DictionarySubmit \/ DictionaryApply \/ DictionaryAcknowledge
  \/ DictionaryReject \/ DictionarySettle \/ DictionaryStutter

LEMMA StutterStep ==
  ASSUME UNCHANGED <<host, last, unrecorded>> PROVE DictionaryStutter
  BY DEF DictionaryStutter, Pending, LastValues

LEMMA SubmitStep ==
  ASSUME NEW k \in Keys, NEW v \in Value, host = HostIdle, UNCHANGED <<last, unrecorded>>,
         \E p \in {"insert", "delete"} : host' = [pc |-> p, key |-> k, val |-> v]
  PROVE  DictionarySubmit
<1>1. host'.pc # "idle" /\ host'.key = k /\ host'.val = v
  OBVIOUS
<1>2. host' # HostIdle
  BY <1>1 DEF HostIdle
<1> QED
  BY <1>1, <1>2 DEF DictionarySubmit, Pending, LastValues

\* A request returns once its record is made, or goes on to unmap its block.
LEMMA ReturnIsAcknowledge ==
  ASSUME IInv, RecordMade, HasPending, NEW ok, Return(ok), UNCHANGED <<last, unrecorded>>
  PROVE  DictionaryAcknowledge \/ DictionaryStutter
<1>1. HostType /\ host # HostIdle
  BY TypeParts DEF IInv, HasPending, HostIdle
<1>2. host.key \in Keys /\ last[host.key].val = host.val /\ host.key \notin unrecorded
  BY <1>1, PendingRequest DEF IInv, HostConsistent
<1>3. CASE host' = HostIdle
  BY <1>1, <1>2, <1>3 DEF DictionaryAcknowledge, LastValues, Pending
<1>4. CASE host' = [host EXCEPT !.pc = "unmap"]
  <2>1. host'.key = host.key /\ host'.val = host.val /\ host'.pc = "unmap"
    BY <1>1, <1>4 DEF HostType
  <2>2. host' # HostIdle
    BY <2>1 DEF HostIdle
  <2> QED
    BY <1>1, <2>1, <2>2 DEF DictionaryStutter, LastValues, Pending
<1> QED
  BY <1>3, <1>4 DEF Return

\* A request that fails before its record is made tears the block it has mapped.
LEMMA FailUnrecordedIsReject ==
  ASSUME IInv, HasPending, FailUnrecorded PROVE DictionaryReject
<1>1. HostType /\ host # HostIdle /\ host.key \in Keys
  BY TypeParts, InsertPayload DEF IInv, HasPending, HostIdle
<1>2. host' = HostIdle /\ last' = last
  BY DEF FailUnrecorded, Return
<1>3. CASE host.pc = "insert"
  <2>1. unrecorded' = unrecorded \cup {host.key}
    BY <1>3 DEF FailUnrecorded
  <2>2. LastValues' = [LastValues EXCEPT ![host.key] = TornBlock]
    BY <1>1, <1>2, <2>1 DEF LastValues, TornBlock
  <2> QED
    BY <1>1, <1>2, <2>2 DEF DictionaryReject, Pending
<1>4. CASE host.pc # "insert"
  <2>1. unrecorded' = unrecorded
    BY <1>4 DEF FailUnrecorded
  <2>2. LastValues' = LastValues
    BY <1>2, <2>1 DEF LastValues
  <2> QED
    BY <1>1, <1>2, <2>2 DEF DictionaryReject, Pending
<1> QED
  BY <1>3, <1>4

LEMMA IndexNextSimulates ==
  ASSUME "append" \notin AllocFail, IInv, IndexNext PROVE DictionaryStep
<1> USE DEF DictionaryStep, history
<1>1. CASE BeginAppend \/ RunFlush \/ RunRound \/ CompactFullLevel
  BY <1>1, StutterStep DEF BeginAppend, RunFlush, RunRound, CompactFullLevel
<1>2. CASE BeginAppendFails \/ AppendUnsortedFails
  <2>1. HasPending
    BY <1>2 DEF BeginAppendFails, AppendUnsortedFails, IInv, HostConsistent
  <2> QED
    BY <1>2, <2>1, FailUnrecordedIsReject DEF BeginAppendFails, AppendUnsortedFails
<1>3. CASE CompactFullLevelFails \/ RunFlushFails \/ RunRoundFails \/ RunDone
  <2>1. RecordMade /\ HasPending
    BY <1>3, RecordMadePhases DEF CompactFullLevelFails, RunFlushFails, RunRoundFails, RunDone
  <2> QED
    BY <1>3, <2>1, ReturnIsAcknowledge
    DEF CompactFullLevelFails, RunFlushFails, RunRoundFails, RunDone, FailRecorded
<1>4. CASE AppendUnsorted
  <2> DEFINE r == [key |-> host.key, ts |-> NextTimestamp, val |-> host.val]
  <2>1. HasPending /\ HostType /\ host' = host
    BY <1>4, TypeParts DEF AppendUnsorted, IInv, HostConsistent
  <2>2. host # HostIdle /\ host.key \in Keys
    BY <2>1, PendingRequest DEF HasPending, HostIdle
  <2>3. /\ last' = [last EXCEPT ![host.key] = r] /\ r.val = host.val
        /\ unrecorded' = unrecorded \ {host.key}
    BY <1>4 DEF AppendUnsorted
  <2>4. last \in [Keys -> Records]
    BY TypeParts DEF IInv, RestType
  <2> HIDE DEF r
  <2>5. LastValues' = [LastValues EXCEPT ![host.key] = host.val]
    BY <2>2, <2>3, <2>4 DEF LastValues
  <2> QED
    BY <2>1, <2>2, <2>5 DEF DictionaryApply, Pending
<1> QED
  BY <1>1, <1>2, <1>3, <1>4 DEF IndexNext

LEMMA HostNextSimulates ==
  ASSUME IInv, HostNext PROVE DictionaryStep
<1> USE DEF DictionaryStep, history
<1>1. CASE \E k \in Keys, p \in Payload : StartWrite(k, p)
  BY <1>1, SubmitStep DEF StartWrite, Value
<1>2. CASE \E k \in Keys : StartDelete(k)
  BY <1>2, SubmitStep DEF StartDelete, Value
<1>3. CASE \/ \E k \in Keys : Read(k)
           \/ \E z \in Zones : CompactZoneFails(z)
  BY <1>3, StutterStep DEF Read, CompactZoneFails
<1>4. ASSUME NEW z \in Zones, CompactZone(z) PROVE DictionarySettle
  <2>1. host = HostIdle /\ host' = host
    BY <1>4 DEF CompactZone
  <2>2. \A k \in Keys : k \in unrecorded \/ LivePayload(k) = last[k].val
    BY <2>1, ZoneSeesNewest DEF ZoneCompactionSeesNewest, Inserting, HostIdle
  <2>3. PICK stamp : last' = [k \in Keys |-> IF k \in LiveKeys(z)
                                THEN [key |-> k, ts |-> stamp[k], val |-> LivePayload(k)]
                                ELSE last[k]]
    BY <1>4 DEF CompactZone
  <2>4. \A k \in Keys : k \in unrecorded \/ last'[k].val = last[k].val
    BY <2>2, <2>3
  <2>5. unrecorded' \subseteq unrecorded
    BY <1>4 DEF CompactZone
  <2> QED
    BY <2>1, <2>4, <2>5 DEF DictionarySettle, Pending, LastValues
<1>5. CASE UnmapDeleted
  <2>1. /\ HostType /\ host # HostIdle /\ RecordMade
        /\ host' = HostIdle /\ UNCHANGED <<last, unrecorded>>
    BY <1>5, TypeParts DEF UnmapDeleted, IInv, RecordMade, HostIdle
  <2>2. host.key \in Keys /\ last[host.key].val = host.val /\ host.key \notin unrecorded
    BY <2>1, PendingRequest DEF IInv, HostConsistent
  <2> QED
    BY <2>1, <2>2 DEF DictionaryAcknowledge, LastValues, Pending
<1> QED
  BY <1>1, <1>2, <1>3, <1>4, <1>5 DEF HostNext

LEMMA DebugNextSimulates ==
  ASSUME DebugNext PROVE DictionaryStep
  BY StutterStep
  DEF DictionaryStep, history, DebugNext, ManualCompact, ManualCompactFails, SelectSegment,
      RewriteSegment, RewriteSegmentFails, CommitOutput, ClearReadTree, SetReadTreeLimit, SetThreshold

\* With the content equal to the last values, a dictionary step is one of the
\* abstract specification's.
LEMMA StepImplements ==
  ASSUME IInv, IInv', DictionaryStep PROVE [Dictionary!Next]_(Dictionary!vars)
<1> DEFINE content == [k \in Keys |-> Stored(k)]
           request == IF host = HostIdle THEN HostIdle ELSE [key |-> host.key, val |-> host.val]
<1>1. content = LastValues /\ content' = LastValues' /\ request = Pending /\ request' = Pending'
  BY StoredIsLast, StoredIsLastNext DEF Pending, ContentIsLast
<1>2. HostType
  BY TypeParts DEF IInv
<1>3. LastValues' \in [Keys -> Value \cup {TornBlock}]
  <2>1. (last \in [Keys -> Records])'
    BY DEF IInv, TypeOK
  <2> QED
    BY <2>1 DEF LastValues, Records, TornBlock
<1> HIDE DEF content, request
<1>4. CASE DictionarySubmit
  BY <1>1, <1>4
  DEF DictionarySubmit, Dictionary!Next, Dictionary!Submit, Dictionary!Value, Value, content,
      request, Pending
<1>5. CASE DictionaryApply
  BY <1>1, <1>2, <1>5, PendingRequest
  DEF DictionaryApply, Dictionary!Next, Dictionary!Apply, content, request
<1>6. CASE DictionaryAcknowledge
  BY <1>1, <1>2, <1>6, PendingRequest
  DEF DictionaryAcknowledge, Dictionary!Next, Dictionary!Acknowledge, content, request
<1>7. CASE DictionaryReject
  BY <1>1, <1>2, <1>7, PendingRequest
  DEF DictionaryReject, Dictionary!Next, Dictionary!Reject, content, request
<1>8. CASE DictionarySettle
  BY <1>1, <1>3, <1>8
  DEF DictionarySettle, Dictionary!Next, Dictionary!Settle, Dictionary!Value, Value, content, request
<1>9. CASE DictionaryStutter
  BY <1>1, <1>9 DEF DictionaryStutter, Dictionary!vars, content, request
<1> QED
  BY <1>4, <1>5, <1>6, <1>7, <1>8, <1>9 DEF DictionaryStep

\* The index implements the dictionary: each request takes effect once, before
\* it is acknowledged, or fails without one, and nothing else changes what
\* reads return.
THEOREM IndexImplementsDictionary ==
  ASSUME "append" \notin AllocFail PROVE Spec => ImplementsDictionary
<1>1. Init => Dictionary!Init
  <2> SUFFICES ASSUME Init PROVE Dictionary!Init
    OBVIOUS
  <2>1. IInv
    BY InitEstablishes
  <2>2. \A k \in Keys : Stored(k) \in Value
    BY <2>1, ReadsSeeNewest, TypeParts DEF Init, Stored, ReadsNewest, IInv, RestType, Records
  <2> QED
    BY <2>2 DEF Dictionary!Init, Dictionary!Value, Value, Init
<1>2. IInv /\ IInv' /\ [Next]_vars => [Dictionary!Next]_(Dictionary!vars)
  <2> SUFFICES ASSUME IInv, IInv', [Next]_vars PROVE [Dictionary!Next]_(Dictionary!vars)
    OBVIOUS
  <2>1. CASE HostNext
    BY <2>1, HostNextSimulates, StepImplements
  <2>2. CASE IndexNext
    BY <2>2, IndexNextSimulates, StepImplements
  <2>3. CASE DebugNext
    BY <2>3, DebugNextSimulates, StepImplements
  <2>4. CASE UNCHANGED vars
    BY <2>4, StutterStep, StepImplements DEF vars, history, DictionaryStep
  <2> QED
    BY <2>1, <2>2, <2>3, <2>4 DEF Next
<1> QED
  BY <1>1, <1>2, InvariantHolds, PTL DEF Spec, ImplementsDictionary, Dictionary!Spec

===============================================================================
