-------------------------- MODULE ImrLsmCopiesProofs --------------------------
(***************************************************************************)
(* More proofs about ImrLsm: the zone map alone still gives every block    *)
(* its content, the copies that compaction leaves behind agree with each   *)
(* other, and the read tree keeps to its limit.                            *)
(***************************************************************************)
EXTENDS ImrLsmProofs

-----------------------------------------------------------------------------
(* The zone map.  It differs from the newest record only for the key of a  *)
(* request under way, and for a delete only once its tombstone is made.    *)

Underway(k) == host # HostIdle /\ host.key = k /\ (host.pc = "insert" \/ RecordMade)
Mapped(k) == zoneMap[k] = last[k].val \/ k \in unrecorded \cup stillMapped \/ Underway(k)
ZoneInv ==
  /\ \A k \in Keys : Mapped(k)
  /\ host.pc = "insert" => zoneMap[host.key] = host.val

\* Nothing that matters here changes.
LEMMA MappedKept ==
  ASSUME ZoneInv, UNCHANGED <<zoneMap, host, history>>, RecordMade' <=> RecordMade
  PROVE  ZoneInv'
  BY DEF ZoneInv, Mapped, Underway, history

\* The record of the pending request is made; what it mapped agrees with it.
LEMMA RecordedReturn ==
  ASSUME IInv, ZoneInv, HasPending, RecordMade, NEW ok \in BOOLEAN, Return(ok),
         UNCHANGED <<zoneMap, last, unrecorded>>,
         stillMapped \subseteq stillMapped',
         ~ok /\ host.pc = "delete" => host.key \in stillMapped'
  PROVE  ZoneInv'
<1>1. HostType /\ host.key \in Keys /\ last[host.key].val = host.val
  BY TypeParts, InsertPayload DEF IInv, HostConsistent
<1>2. CASE ok /\ host.pc = "delete"
  <2>1. host'.pc = "unmap" /\ host'.key = host.key
    BY <1>1, <1>2 DEF Return, HostType
  <2>2. host' # HostIdle /\ RecordMade'
    BY <2>1 DEF HostIdle, RecordMade
  <2> QED
    BY <2>1, <2>2 DEF ZoneInv, Mapped, Underway
<1>3. CASE ~(ok /\ host.pc = "delete")
  <2>1. host' = HostIdle /\ (host.pc = "insert" \/ host.key \in stillMapped')
    BY <1>1, <1>3 DEF Return, HasPending
  <2> QED
    BY <2>1, <1>1 DEF ZoneInv, Mapped, Underway, HostIdle
<1> QED
  BY <1>2, <1>3

\* A request that fails before its record is made leaves a delete's block as it was.
LEMMA UnrecordedReturn ==
  ASSUME ZoneInv, HasPending, ~RecordMade, FailUnrecorded, UNCHANGED zoneMap
  PROVE  ZoneInv'
<1>1. host' = HostIdle /\ UNCHANGED <<last, stillMapped>>
  BY DEF FailUnrecorded, Return
<1>2. CASE host.pc = "insert"
  BY <1>1, <1>2 DEF FailUnrecorded, ZoneInv, Mapped, Underway, HostIdle
<1>3. CASE host.pc = "delete"
  BY <1>1, <1>3 DEF FailUnrecorded, ZoneInv, Mapped, Underway, HostIdle
<1> QED
  BY <1>2, <1>3 DEF HasPending

LEMMA ZoneHostStep == ASSUME IInv, ZoneInv, HostNext PROVE ZoneInv'
<1>1. ListsType /\ RestType /\ HostType /\ OpType
  BY TypeParts DEF IInv
<1>2. ASSUME NEW k \in Keys, NEW p \in Payload, StartWrite(k, p) PROVE ZoneInv'
  <2>1. host = HostIdle /\ host'.pc = "insert" /\ host'.key = k /\ host'.val = p /\ host' # HostIdle
    BY <1>2 DEF StartWrite, HostIdle
  <2>2. zoneMap'[k] = p /\ \A j \in Keys \ {k} : zoneMap'[j] = zoneMap[j]
    BY <1>1, <1>2 DEF StartWrite, RestType
  <2> QED
    BY <2>1, <2>2, <1>2 DEF StartWrite, ZoneInv, Mapped, Underway, history
<1>3. ASSUME NEW k \in Keys, StartDelete(k) PROVE ZoneInv'
  <2>1. host = HostIdle /\ host'.pc = "delete"
    BY <1>3 DEF StartDelete
  <2> QED
    BY <2>1, <1>3 DEF StartDelete, ZoneInv, Mapped, Underway, history
<1>4. ASSUME \/ \E k \in Keys : Read(k)
             \/ \E z \in Zones : CompactZoneFails(z)
      PROVE  ZoneInv'
  BY <1>4, MappedKept DEF Read, CompactZoneFails, RecordMade
<1>5. ASSUME NEW z \in Zones, CompactZone(z) PROVE ZoneInv'
  <2>1. /\ host = HostIdle /\ host' = host
        /\ unrecorded' = unrecorded \ z /\ stillMapped' = stillMapped \ z
        /\ zoneMap' = [k \in Keys |-> IF k \notin z THEN zoneMap[k]
                                      ELSE IF k \in LiveKeys(z) THEN LivePayload(k)
                                      ELSE NoPayload]
    BY <1>5 DEF CompactZone
  <2>2. PICK stamp : last' = [k \in Keys |-> IF k \in LiveKeys(z)
                                THEN [key |-> k, ts |-> stamp[k], val |-> LivePayload(k)]
                                ELSE last[k]]
    BY <1>5 DEF CompactZone
  <2>3. LiveKeys(z) \subseteq z /\ z \subseteq Keys
    BY ZoneTyped
  <2>4. \A k \in Keys : LivePayload(k) = NoPayload => last[k].val = NoPayload
    BY <2>1, ZoneSeesNewest DEF ZoneCompactionSeesNewest, Inserting, HostIdle, IInv, HostConsistent
  <2>5. ASSUME NEW k \in Keys PROVE Mapped(k)'
    <3>1. CASE k \in LiveKeys(z)
      BY <2>1, <2>2, <2>3, <3>1 DEF Mapped
    <3>2. CASE k \in z \ LiveKeys(z)
      <4>1. LivePayload(k) = NoPayload /\ zoneMap'[k] = NoPayload /\ last'[k] = last[k]
        BY <3>2, <2>1, <2>2 DEF LiveKeys
      <4> QED
        BY <4>1, <2>4 DEF Mapped
    <3>3. CASE k \notin z
      <4>1. zoneMap'[k] = zoneMap[k] /\ last'[k] = last[k]
        BY <3>3, <2>1, <2>2, <2>3
      <4> QED
        BY <4>1, <3>3, <2>1 DEF ZoneInv, Mapped, Underway
    <3> QED
      BY <3>1, <3>2, <3>3
  <2> QED
    BY <2>1, <2>5 DEF ZoneInv, HostIdle
<1>6. ASSUME UnmapDeleted PROVE ZoneInv'
  <2>1. host # HostIdle /\ host.key \in Keys /\ last[host.key].val = NoPayload /\ host' = HostIdle
    BY <1>1, <1>6 DEF UnmapDeleted, HostType, HostIdle, IInv, HostConsistent, RecordMade
  <2>2. zoneMap'[host.key] = NoPayload /\ \A j \in Keys \ {host.key} : zoneMap'[j] = zoneMap[j]
    BY <1>1, <1>6, <2>1 DEF UnmapDeleted, RestType
  <2> QED
    BY <2>1, <2>2, <1>6 DEF UnmapDeleted, ZoneInv, Mapped, Underway, HostIdle
<1> QED
  BY <1>2, <1>3, <1>4, <1>5, <1>6 DEF HostNext

LEMMA ZoneIndexStep == ASSUME IInv, ZoneInv, IndexNext PROVE ZoneInv'
<1> USE DEF history
<1>1. CASE BeginAppend
  BY <1>1, MappedKept DEF BeginAppend, RecordMade, HasPending, OpIdle
<1>2. CASE CompactFullLevel \/ RunFlush \/ RunRound
  <2>1. RecordMade
    BY <1>2 DEF CompactFullLevel, RunFlush, RunRound, RecordMade
  <2>2. RecordMade'
    <3>1. CASE CompactFullLevel \/ RunFlush
      BY <3>1 DEF CompactFullLevel, RunFlush, RecordMade
    <3>2. CASE RunRound
      <4>1. op'.pc = "rounds"
        BY <3>2, TypeParts, RoundsTyped DEF IInv, RunRound
      <4> QED
        BY <4>1 DEF RecordMade
    <3> QED
      BY <1>2, <3>1, <3>2
  <2> QED
    BY <1>2, <2>1, <2>2, MappedKept DEF CompactFullLevel, RunFlush, RunRound
<1>3. CASE BeginAppendFails \/ AppendUnsortedFails
  <2>1. HasPending /\ ~RecordMade
    BY <1>3 DEF BeginAppendFails, AppendUnsortedFails, IInv, HostConsistent, RecordMade, HasPending, OpIdle
  <2> QED
    BY <1>3, <2>1, UnrecordedReturn DEF BeginAppendFails, AppendUnsortedFails
<1>4. CASE CompactFullLevelFails \/ RunFlushFails \/ RunRoundFails
  <2>1. HasPending /\ RecordMade
    BY <1>4, RecordMadePhases DEF CompactFullLevelFails, RunFlushFails, RunRoundFails
  <2>2. FailRecorded /\ UNCHANGED zoneMap
    BY <1>4 DEF CompactFullLevelFails, RunFlushFails, RunRoundFails
  <2> QED
    BY <2>1, <2>2, RecordedReturn DEF FailRecorded
<1>5. CASE RunDone
  <2>1. HasPending /\ RecordMade
    BY <1>5, RecordMadePhases DEF RunDone
  <2> QED
    BY <1>5, <2>1, RecordedReturn DEF RunDone
<1>6. CASE AppendUnsorted
  <2> DEFINE r == [key |-> host.key, ts |-> NextTimestamp, val |-> host.val]
  <2>1. HasPending /\ host # HostIdle /\ host' = host /\ UNCHANGED zoneMap
    BY <1>6 DEF AppendUnsorted, IInv, HostConsistent, HasPending, HostIdle
  <2>2. /\ last' = [last EXCEPT ![host.key] = r]
        /\ unrecorded' = unrecorded \ {host.key}
        /\ stillMapped \ {host.key} \subseteq stillMapped'
    BY <1>6 DEF AppendUnsorted
  <2>3. RecordMade'
    BY <1>6 DEF AppendUnsorted, RecordMade
  <2>4. last \in [Keys -> Records]
    BY TypeParts DEF IInv, RestType
  <2> HIDE DEF r
  <2>5. \A k \in Keys \ {host.key} : last'[k] = last[k]
    BY <2>2, <2>4
  <2> QED
    BY <2>1, <2>2, <2>3, <2>5 DEF ZoneInv, Mapped, Underway
<1> QED
  BY <1>1, <1>2, <1>3, <1>4, <1>5, <1>6 DEF IndexNext

LEMMA ZoneDebugStep == ASSUME ZoneInv, DebugNext PROVE ZoneInv'
  BY MappedKept
  DEF DebugNext, ManualCompact, ManualCompactFails, SelectSegment, RewriteSegment,
      RewriteSegmentFails, CommitOutput, ClearReadTree, SetReadTreeLimit, SetThreshold,
      RecordMade, OpIdle, history

\* Between requests the zone map, which is all that is persisted, gives every
\* key its content, except the keys of requests that failed half-way.
THEOREM ZoneMapIsEnough ==
  ASSUME "append" \notin AllocFail PROVE Spec => []ZoneMapSuffices
<1>1. Init => ZoneInv
  BY DEF Init, ZoneInv, Mapped, HostIdle
<1>2. IInv /\ ZoneInv /\ [Next]_vars => ZoneInv'
  <2> SUFFICES ASSUME IInv, ZoneInv, [Next]_vars PROVE ZoneInv'
    OBVIOUS
  <2>1. CASE UNCHANGED vars
    BY <2>1, MappedKept DEF vars, RecordMade
  <2> QED
    BY <2>1, ZoneHostStep, ZoneIndexStep, ZoneDebugStep DEF Next
<1>3. ZoneInv => ZoneMapSuffices
  BY DEF ZoneInv, Mapped, Underway, ZoneMapSuffices
<1> QED
  BY <1>1, <1>2, <1>3, InvariantHolds, PTL DEF Spec

-----------------------------------------------------------------------------
(* The copies of records.  Moving records makes more copies of the same    *)
(* record, and every new record has a timestamp of its own.                *)

Keyed(S) == \A r, q \in S : r.key = q.key => r = q
ListsKeyed == (\A l \in Levels : Keyed(sorted[l])) /\ (\A s \in segments : Keyed(s.table))

\* A live tree node is the last record of its key; only tombstones may lag.
TreeLive == \A n \in readTree : Valid(n) => n = last[n.key]
CopiesInv == CopiesAgree /\ ListsKeyed /\ Keyed(readTree) /\ TreeLive

\* The newest records of searchable ones are one per key.
LEMMA NewestKeyed ==
  ASSUME ListsType, CopiesAgree, NEW S, S \subseteq Searchable PROVE Keyed(Newest(S))
<1> SUFFICES ASSUME NEW r \in Newest(S), NEW q \in Newest(S), r.key = q.key PROVE r = q
  BY DEF Keyed
<1>1. r \in S /\ q \in S /\ r.ts <= q.ts /\ q.ts <= r.ts
  BY DEF Newest
<1>2. r \in Records /\ q \in Records /\ r \in Searchable /\ q \in Searchable
  BY <1>1, SearchableTyped
<1>3. r.ts = q.ts
  BY <1>1, <1>2 DEF Records
<1>4. r.val = q.val
  BY <1>2, <1>3 DEF CopiesAgree
<1> QED
  BY <1>2, <1>3, <1>4 DEF Records

LEMMA FreedKeyed ==
  ASSUME ListsType, CopiesAgree, ListsKeyed,
         NEW src \in Levels, NEW dst \in Levels, NEW input, input \subseteq Searchable,
         FreeSources(src, dst, input)
  PROVE  \A l \in Levels : Keyed(sorted'[l])
<1> SUFFICES ASSUME NEW l \in Levels PROVE Keyed(sorted'[l])
  OBVIOUS
<1>1. sorted[l] \cup input \subseteq Searchable
  BY DEF Searchable, SortedRecords
<1>2. sorted'[l] = IF l = dst THEN Newest(sorted[l] \cup input)
                   ELSE IF l = src THEN {} ELSE sorted[l]
  BY DEF FreeSources
<1>3. Keyed(Newest(sorted[l] \cup input)) /\ Keyed({})
  BY <1>1, NewestKeyed DEF Keyed
<1> QED
  BY <1>2, <1>3 DEF ListsKeyed

LEMMA MoveIntoKeyed ==
  ASSUME ListsType, CopiesAgree, ListsKeyed,
         NEW src \in Levels, NEW dst \in Levels, NEW input, input \subseteq Searchable,
         MoveInto(src, dst, input)
  PROVE  ListsKeyed'
<1>1. \A l \in Levels : Keyed(sorted'[l])
  BY FreedKeyed DEF MoveInto
<1>2. Segment(dst, Newest(input)).table = Newest(input) /\ Keyed(Newest(input))
  BY NewestKeyed DEF Segment
<1>3. \A s \in segments' : Keyed(s.table)
  BY <1>2 DEF MoveInto, ListsKeyed
<1> QED
  BY <1>1, <1>3 DEF ListsKeyed

LEMMA FailedMoveKeyed ==
  ASSUME ListsType, CopiesAgree, ListsKeyed, NEW dst \in Levels, NEW input,
         input \subseteq Searchable, MoveFailsEarly(dst, input)
  PROVE  ListsKeyed'
<1>1. PICK done \in SUBSET input : sorted' = [sorted EXCEPT ![dst] = Newest(@ \cup done)]
  BY DEF MoveFailsEarly
<1>2. Keyed(Newest(sorted[dst] \cup done))
  BY NewestKeyed DEF Searchable, SortedRecords
<1>3. \A l \in Levels : Keyed(sorted'[l])
  BY <1>1, <1>2 DEF ListsKeyed, ListsType
<1> QED
  BY <1>3 DEF ListsKeyed, MoveFailsEarly

LEMMA FlushBottomKeyed ==
  ASSUME "append" \notin AllocFail, ListsType, CopiesAgree, ListsKeyed,
         FlushBottom \/ FlushBottomFails
  PROVE  ListsKeyed'
<1>1. unsorted[MAX_LEVEL] \subseteq Searchable
  BY LevelsNumbered DEF ListsType, Searchable, UnsortedRecords
<1> QED
  BY <1>1, LevelsNumbered, MoveIntoKeyed, FailedMoveKeyed
  DEF FlushBottom, FlushBottomFails, MoveFailsLate, lists, ListsKeyed

LEMMA CompactLevelKeyed ==
  ASSUME "append" \notin AllocFail, ListsType, CopiesAgree, ListsKeyed, NEW l \in Levels,
         CompactLevel(l) \/ CompactLevelFails(l)
  PROVE  ListsKeyed'
<1>1. \A dst \in Levels : CompactionInput(l, dst) \subseteq Searchable
  BY DEF CompactionInput, ListsType, Searchable, UnsortedRecords, SortedRecords
<1>2. CASE CompactLevel(l)
  BY <1>1, <1>2, MoveIntoKeyed DEF CompactLevel, lists, ListsKeyed
<1>3. CASE CompactLevelFails(l)
  BY <1>1, <1>3, FailedMoveKeyed DEF CompactLevelFails, MoveFailsLate
<1> QED
  BY <1>2, <1>3

\* A step that makes no record, and takes none into the tree.
LEMMA CopiesKept ==
  ASSUME CopiesInv, Searchable' \subseteq Searchable, ListsKeyed', readTree' \subseteq readTree,
         last' = last
  PROVE  CopiesInv'
  BY DEF CopiesInv, CopiesAgree, Keyed, TreeLive

\* A step that makes records with timestamps of their own, one for a key.
LEMMA FreshCopies ==
  ASSUME IInv, CopiesAgree, NEW fresh \in SUBSET Records,
         \A r \in fresh : r.ts > timestamp,
         Keyed(fresh),
         (Searchable \cup readTree)' \subseteq Searchable \cup readTree \cup fresh
  PROVE  CopiesAgree'
<1>1. \A r \in Searchable \cup readTree : r \in Records /\ r.ts \in Nat /\ r.ts <= timestamp
  <2> SUFFICES ASSUME NEW r \in Searchable \cup readTree
               PROVE  r \in Records /\ r.ts \in Nat /\ r.ts <= timestamp
    OBVIOUS
  <2>1. ListsType /\ RestType
    BY TypeParts DEF IInv
  <2>2. r \in Records
    BY <2>1, SearchableTyped DEF RestType
  <2>3. r.key \in Keys /\ r.ts \in Nat /\ r.ts <= last[r.key].ts
    BY <2>2 DEF IInv, IndexOK, RecordsBounded, TreeCurrent, Records
  <2>4. last[r.key].ts \in Nat /\ last[r.key].ts <= timestamp /\ timestamp \in Nat
    BY <2>1, <2>3 DEF IInv, IndexOK, LastBounded, RestType, Records
  <2> QED
    BY <2>2, <2>3, <2>4
<1>2. timestamp \in Nat /\ \A r \in fresh : r.ts \in Nat
  BY TypeParts DEF IInv, RestType, Records
<1> SUFFICES ASSUME NEW r \in (Searchable \cup readTree)', NEW q \in (Searchable \cup readTree)',
                    r.key = q.key, r.ts = q.ts
             PROVE  r.val = q.val
  BY DEF CopiesAgree
<1>3. CASE r \in fresh /\ q \in fresh
  BY <1>3 DEF Keyed
<1>4. CASE r \in Searchable \cup readTree /\ q \in Searchable \cup readTree
  BY <1>4 DEF CopiesAgree
<1> QED
  BY <1>1, <1>2, <1>3, <1>4

\* A key with a live record has its last record in a list a read looks at.
LEMMA LiveIsIndexed ==
  ASSUME TypeOK, RecordsBounded, LastBounded, NewestHeld, NEW r \in Searchable, Valid(r)
  PROVE  last[r.key] \in Recorded
<1>1. r.key \in Keys /\ r.ts >= 1 /\ r.ts <= last[r.key].ts /\ r.ts \in Nat
  BY TypeParts, SearchableTyped DEF RecordsBounded, Records
<1>2. ~Unindexed(r.key)
  BY <1>1 DEF Unindexed
<1> QED
  BY <1>1, <1>2 DEF NewestHeld

LEMMA SurpassingIsLast ==
  ASSUME TypeOK, RecordsBounded, LastBounded, NEW r \in Searchable, last[r.key].ts <= r.ts
  PROVE  r = last[r.key]
<1>1. ListsType /\ RestType /\ r \in Records
  BY TypeParts, SearchableTyped
<1>2. r.key \in Keys /\ r.ts \in Nat /\ r.ts <= last[r.key].ts
  BY <1>1 DEF RecordsBounded, Records
<1>3. last[r.key] \in Records /\ last[r.key].ts \in Nat /\ last[r.key].key = r.key
  BY <1>1, <1>2 DEF LastBounded, RestType, Records
<1>4. r.ts = last[r.key].ts /\ r.val = last[r.key].val
  BY <1>2, <1>3 DEF RecordsBounded
<1> QED
  BY <1>1, <1>3, <1>4 DEF Records

\* A live record that a read finds is the last one of its key.
LEMMA NewestFoundIsLast ==
  ASSUME IInv, NEW k \in Keys, NEW r \in NewestFound(k), Valid(r) PROVE r = last[k]
<1>1. ListsType /\ RestType
  BY TypeParts DEF IInv
<1>2. Visible \subseteq Searchable /\ Recorded \subseteq Visible
  BY DEF Visible, Searchable, Recorded, SortedRecords
<1>3. r \in Searchable /\ r.key = k
  BY <1>2 DEF NewestFound, Found
<1>4. last[k] \in Recorded
  BY <1>3, LiveIsIndexed DEF IInv, IndexOK
<1>5. last[k] \in Found(k)
  BY <1>2, <1>4 DEF Found, IInv, IndexOK, LastBounded
<1> QED
  BY <1>3, <1>5, SurpassingIsLast DEF NewestFound, IInv, IndexOK

\* The same of a live entry that nothing is newer than.
CommittableLast == \A r \in Committable : r = last[r.key]
LEMMA CommittableIsLast ==
  TypeOK /\ RecordsBounded /\ LastBounded /\ NewestHeld => CommittableLast
<1> SUFFICES ASSUME TypeOK, RecordsBounded, LastBounded, NewestHeld, NEW r \in Committable
             PROVE  r = last[r.key]
  BY DEF CommittableLast
<1>1. ListsType /\ RestType
  BY TypeParts
<1>2. r \in Searchable /\ r \in Records /\ r.key \in Keys /\ Valid(r) /\ ~HasNewer(r)
  BY <1>1, SearchableTyped DEF Committable, Searchable, Records
<1>3. last[r.key] \in Searchable
  BY <1>1, <1>2, LiveIsIndexed, SearchableTyped
<1>4. last[r.key].key = r.key /\ last[r.key].ts \in Nat /\ r.ts \in Nat
  BY <1>1, <1>2 DEF LastBounded, RestType, Records
<1>5. last[r.key].ts <= r.ts
  BY <1>2, <1>3, <1>4 DEF HasNewer
<1> QED
  BY <1>1, <1>2, <1>5, SurpassingIsLast

LEMMA CommittableIsLastNext ==
  (TypeOK /\ RecordsBounded /\ LastBounded /\ NewestHeld)' => CommittableLast'
BY CommittableIsLast, PTL

LEMMA CopiesZoneStep ==
  ASSUME IInv, CopiesInv, NEW z \in Zones, CompactZone(z) PROVE CopiesInv'
<1> DEFINE live == LiveKeys(z)
           n == Cardinality(live)
<1>1. PICK stamp \in [live -> (timestamp + 1)..(timestamp + n)] :
        LET table == {[key |-> k, ts |-> stamp[k], val |-> LivePayload(k)] : k \in live} IN
        /\ segments' = segments \cup {Segment(MAX_LEVEL, table)}
        /\ readTree' \in {t \in SUBSET ({m \in readTree : m.key \notin live} \cup table) :
                            Cardinality(t) <= readTreeLimit}
        /\ last' = [k \in Keys |-> IF k \in live
                                   THEN [key |-> k, ts |-> stamp[k], val |-> LivePayload(k)]
                                   ELSE last[k]]
  BY DEF CompactZone
<1> DEFINE made(k) == [key |-> k, ts |-> stamp[k], val |-> LivePayload(k)]
           table == {made(k) : k \in live}
<1>2. ListsType /\ RestType /\ UNCHANGED <<unsorted, sorted>>
  BY TypeParts DEF IInv, CompactZone
<1>3. live \subseteq Keys /\ n \in Nat /\ timestamp \in Nat
  BY <1>2, ZoneTyped DEF RestType
<1>4. \A k \in live : stamp[k] \in Nat /\ stamp[k] > timestamp /\ LivePayload(k) \in Value
  BY <1>1, <1>2, <1>3, LiveTyped
<1>5. /\ table \subseteq Records /\ \A r \in table : r.ts > timestamp
      /\ \A r \in table : r.key \in live /\ r = made(r.key)
  BY <1>3, <1>4 DEF Records
<1>6. Keyed(table)
  BY <1>5 DEF Keyed
<1>7. /\ Segment(MAX_LEVEL, table).table = table /\ ~Segment(MAX_LEVEL, table).retired
      /\ segments' = segments \cup {Segment(MAX_LEVEL, table)}
      /\ readTree' \subseteq {m \in readTree : m.key \notin live} \cup table
  BY <1>1 DEF Segment
<1>8. /\ \A k \in live : last'[k] = made(k)
      /\ \A k \in Keys \ live : last'[k] = last[k]
  BY <1>1, <1>3
<1> HIDE DEF table, live, n
<1>9. Searchable' \subseteq Searchable \cup table
  BY <1>2, <1>7 DEF Searchable, UnsortedRecords, SortedRecords, TableRecords, Active
<1>10. CopiesAgree'
  BY <1>5, <1>6, <1>7, <1>9, FreshCopies DEF CopiesInv
<1>11. ListsKeyed'
  BY <1>2, <1>6, <1>7 DEF ListsKeyed, CopiesInv
<1>12. Keyed(readTree')
  BY <1>5, <1>6, <1>7 DEF Keyed, CopiesInv
<1>13. TreeLive'
  <2> SUFFICES ASSUME NEW m \in readTree', Valid(m) PROVE m = last'[m.key]
    BY DEF TreeLive
  <2>1. CASE m \in table
    BY <2>1, <1>5, <1>8
  <2>2. CASE m \in readTree /\ m.key \notin live
    BY <2>2, <1>2, <1>8 DEF TreeLive, CopiesInv, RestType, Records
  <2> QED
    BY <2>1, <2>2, <1>7
<1> QED
  BY <1>10, <1>11, <1>12, <1>13 DEF CopiesInv

LEMMA CopiesHostStep ==
  ASSUME IInv, CopiesInv, HostNext PROVE CopiesInv'
<1>1. ListsType /\ RestType /\ HostType /\ OpType
  BY TypeParts DEF IInv
<1>2. ASSUME UNCHANGED <<lists, readTree, last>> PROVE CopiesInv'
  BY <1>1, <1>2, StutterMoves, CopiesKept DEF RecordsMove, lists, ListsKeyed, CopiesInv
<1>3. ASSUME NEW k \in Keys, Read(k) PROVE CopiesInv'
  <2>1. PICK r \in NewestFound(k) : readTree' \in TreeUpdates(readTree, r)
    BY <1>3 DEF Read
  <2>2. UNCHANGED <<lists, last>> /\ TreeNodes(k) = {}
    BY <1>3 DEF Read, history
  <2>3. Searchable' = Searchable /\ ListsKeyed'
    BY <1>1, <2>2 DEF lists, Searchable, UnsortedRecords, SortedRecords, TableRecords, Active,
                      ListsKeyed, CopiesInv
  <2>4. readTree' \subseteq readTree \cup {r}
    BY <2>1, TreeUpdatesTyped
  <2>5. r \in Searchable /\ r.key = k
    BY DEF NewestFound, Found, Visible, Searchable, SortedRecords
  <2>6. Valid(r) => r = last[r.key]
    BY <2>5, NewestFoundIsLast
  <2>7. Keyed(readTree')
    BY <2>2, <2>4, <2>5 DEF Keyed, TreeNodes, CopiesInv
  <2> QED
    BY <2>2, <2>3, <2>4, <2>5, <2>6, <2>7 DEF CopiesInv, CopiesAgree, TreeLive
<1>4. ASSUME NEW z \in Zones, CompactZone(z) PROVE CopiesInv'
  BY <1>4, CopiesZoneStep
<1> QED
  BY <1>2, <1>3, <1>4
  DEF HostNext, StartWrite, StartDelete, UnmapDeleted, CompactZoneFails, history

LEMMA CopiesAppendStep ==
  ASSUME IInv, CopiesInv, AppendUnsorted PROVE CopiesInv'
<1> DEFINE r == [key |-> host.key, ts |-> NextTimestamp, val |-> host.val]
<1>1. PICK l \in Levels :
        /\ unsorted' = [unsorted EXCEPT ![l] = @ \cup {r}]
        /\ last' = [last EXCEPT ![host.key] = r]
  BY DEF AppendUnsorted
<1>2. UNCHANGED <<sorted, segments>> /\ op.pc = "append"
  BY DEF AppendUnsorted
<1>3. ListsType /\ RestType /\ HostType
  BY TypeParts DEF IInv
<1>4. host.key \in Keys /\ host.val \in Value /\ timestamp \in Nat
  BY <1>2, <1>3, InsertPayload DEF IInv, HostConsistent, RestType
<1>5. r \in Records /\ r.ts > timestamp /\ r.key = host.key
  BY <1>4 DEF Records, NextTimestamp
<1>6. readTree' \subseteq {n \in readTree : n.key # host.key} \cup {r}
  BY AppendedTree
<1> HIDE DEF r
<1>7. Searchable' \subseteq Searchable \cup {r}
  BY <1>1, <1>2, <1>3 DEF Searchable, UnsortedRecords, SortedRecords, TableRecords, Active, ListsType
<1>8. CopiesAgree'
  <2>1. {r} \in SUBSET Records /\ Keyed({r}) /\ \A q \in {r} : q.ts > timestamp
    BY <1>5 DEF Keyed
  <2>2. (Searchable \cup readTree)' \subseteq Searchable \cup readTree \cup {r}
    BY <1>6, <1>7
  <2> QED
    BY <2>1, <2>2, FreshCopies DEF CopiesInv
<1>9. ListsKeyed'
  BY <1>2 DEF ListsKeyed, CopiesInv
<1>10. Keyed(readTree')
  BY <1>5, <1>6 DEF Keyed, CopiesInv
<1>11. last'[host.key] = r /\ \A k \in Keys \ {host.key} : last'[k] = last[k]
  BY <1>1, <1>3, <1>4 DEF RestType
<1>12. TreeLive'
  BY <1>3, <1>5, <1>6, <1>11 DEF TreeLive, CopiesInv, RestType, Records
<1> QED
  BY <1>8, <1>9, <1>10, <1>12 DEF CopiesInv

LEMMA CopiesIndexStep ==
  ASSUME "append" \notin AllocFail, IInv, CopiesInv, IndexNext PROVE CopiesInv'
<1>1. ListsType /\ OpType
  BY TypeParts DEF IInv
<1>2. CASE BeginAppend \/ BeginAppendFails \/ RunFlush \/ RunFlushFails
  <2>1. FlushBottom \/ FlushBottomFails
    BY <1>2 DEF BeginAppend, BeginAppendFails, RunFlush, RunFlushFails
  <2>2. RecordsMove /\ ListsKeyed'
    BY <1>1, <2>1, FlushBottomMoves, FlushBottomFailsMoves, FlushBottomKeyed DEF CopiesInv
  <2> QED
    BY <1>2, <2>2, CopiesKept
    DEF RecordsMove, BeginAppend, BeginAppendFails, RunFlush, RunFlushFails, FailUnrecorded,
        FailRecorded, history
<1>3. CASE CompactFullLevel \/ CompactFullLevelFails \/ RunRound \/ RunRoundFails
  <2>1. \E l \in Levels : CompactLevel(l) \/ CompactLevelFails(l)
    BY <1>1, <1>3, PickedTyped
    DEF OpType, OpIdle, CompactFullLevel, CompactFullLevelFails, RunRound, RunRoundFails
  <2>2. RecordsMove /\ ListsKeyed'
    BY <1>1, <2>1, CompactLevelMoves, CompactLevelFailsMoves, CompactLevelKeyed DEF CopiesInv
  <2> QED
    BY <1>3, <2>2, CopiesKept
    DEF RecordsMove, CompactFullLevel, CompactFullLevelFails, RunRound, RunRoundFails,
        FailRecorded, history
<1>4. CASE AppendUnsortedFails \/ RunDone
  <2>1. UNCHANGED <<lists, last>> /\ readTree' \subseteq readTree
    BY <1>4 DEF AppendUnsortedFails, RunDone, FailUnrecorded, TreeBeforeAppend, history
  <2> QED
    BY <1>1, <2>1, StutterMoves, CopiesKept DEF RecordsMove, lists, ListsKeyed, CopiesInv
<1> QED
  BY <1>2, <1>3, <1>4, CopiesAppendStep DEF IndexNext

\* The tree takes up live last records.
LEMMA CommittedTree ==
  ASSUME TreeCurrent, CopiesInv, last' = last, ListsKeyed', Searchable' \subseteq Searchable,
         NEW entries, entries \subseteq Searchable,
         \A r \in entries : Valid(r) /\ r = last[r.key],
         readTree' \subseteq readTree \cup entries
  PROVE  CopiesInv'
<1>1. CopiesAgree'
  BY DEF CopiesInv, CopiesAgree
<1>2. TreeLive'
  BY DEF CopiesInv, TreeLive
<1>3. \A n \in readTree, r \in entries : n.key = r.key => n = r
  BY DEF CopiesInv, TreeLive, TreeCurrent, Valid
<1>4. Keyed(readTree')
  BY <1>3 DEF CopiesInv, Keyed
<1> QED
  BY <1>1, <1>2, <1>4 DEF CopiesInv

\* A rewrite makes no record: what it keeps was in the table it retires.
LEMMA RewriteMakesNothing ==
  ASSUME IInv, RewriteSegment
  PROVE  /\ Searchable' \subseteq Searchable
         /\ (\A s \in segments : Keyed(s.table)) => (\A s \in segments' : Keyed(s.table))
<1> DEFINE s == op.segment
           kept == {r \in s.table : ShouldKeep(r)}
           old == [s EXCEPT !.retired = TRUE]
           new == Segment(s.level, kept)
<1>1. /\ UNCHANGED <<unsorted, sorted>>
      /\ \/ segments' = (segments \ {s}) \cup {old}
         \/ segments' = ((segments \ {s}) \cup {old}) \cup {new}
  BY DEF RewriteSegment
<1>2. ListsType /\ s \in segments /\ ~s.retired
  BY TypeParts DEF IInv, HostConsistent, OpType, OpIdle, RewriteSegment
<1>3. /\ old.retired /\ old.table = s.table
      /\ ~new.retired /\ new.table = kept /\ kept \subseteq s.table
  BY <1>2 DEF ListsType, Segment
<1> HIDE DEF s, kept, old, new
<1>4. Active' \subseteq Active \cup {new} /\ s \in Active
  BY <1>1, <1>2, <1>3 DEF Active
<1>5. Searchable' \subseteq Searchable
  BY <1>1, <1>3, <1>4 DEF Searchable, UnsortedRecords, SortedRecords, TableRecords
<1>6. ASSUME \A t \in segments : Keyed(t.table) PROVE \A t \in segments' : Keyed(t.table)
  <2>1. Keyed(s.table) /\ Keyed(kept)
    BY <1>2, <1>3, <1>6 DEF Keyed
  <2> QED
    BY <2>1, <1>1, <1>3, <1>6
<1> QED
  BY <1>5, <1>6

LEMMA CopiesRewriteStep ==
  ASSUME IInv, CopiesInv, IInv', RewriteSegment PROVE CopiesInv'
<1>1. Searchable' \subseteq Searchable
  BY RewriteMakesNothing
<1>2. ListsKeyed'
  BY RewriteMakesNothing DEF CopiesInv, ListsKeyed, RewriteSegment
<1>3. last' = last
  BY DEF RewriteSegment, history
<1>4. /\ Committable' \subseteq Searchable
      /\ \A r \in Committable' : Valid(r) /\ r = last[r.key]
  <2>1. CommittableLast'
    BY CommittableIsLastNext DEF IInv, IndexOK
  <2> QED
    BY <1>1, <1>3, <2>1 DEF CommittableLast, Committable, Searchable
<1>5. readTree' \subseteq readTree \cup Committable'
  BY DEF RewriteSegment, TreesAfter
<1> QED
  BY <1>1, <1>2, <1>3, <1>4, <1>5, CommittedTree DEF IInv, IndexOK

LEMMA CopiesDebugStep ==
  ASSUME "append" \notin AllocFail, IInv, CopiesInv, IInv', DebugNext PROVE CopiesInv'
<1>1. ListsType
  BY TypeParts DEF IInv
<1>2. ASSUME NEW l \in Levels, ManualCompact(l) \/ ManualCompactFails(l) PROVE CopiesInv'
  <2>1. RecordsMove /\ ListsKeyed'
    BY <1>1, <1>2, CompactLevelMoves, CompactLevelFailsMoves, CompactLevelKeyed
    DEF CopiesInv, ManualCompact, ManualCompactFails
  <2> QED
    BY <1>2, <2>1, CopiesKept DEF RecordsMove, ManualCompact, ManualCompactFails, history
<1>3. ASSUME UNCHANGED <<lists, last>> PROVE Searchable' = Searchable /\ ListsKeyed'
  BY <1>3 DEF lists, Searchable, UnsortedRecords, SortedRecords, TableRecords, Active,
              ListsKeyed, CopiesInv
<1>4. CASE CommitOutput
  <2>1. /\ Committable \subseteq Searchable
        /\ \A r \in Committable : Valid(r) /\ r = last[r.key]
    BY CommittableIsLast DEF IInv, IndexOK, CommittableLast, Committable, Searchable
  <2>2. UNCHANGED <<lists, last>> /\ readTree' \subseteq readTree \cup Committable
    BY <1>4 DEF CommitOutput, TreesAfter, history
  <2> QED
    BY <1>3, <2>1, <2>2, CommittedTree DEF IInv, IndexOK
<1>5. ASSUME \/ \E s \in segments : SelectSegment(s)
             \/ RewriteSegmentFails
             \/ ClearReadTree
             \/ \E limit \in ReadTreeLimits : SetReadTreeLimit(limit)
             \/ \E t \in Thresholds : SetThreshold(t)
      PROVE  CopiesInv'
  <2>1. UNCHANGED <<lists, last>> /\ readTree' \subseteq readTree
    BY <1>5 DEF SelectSegment, RewriteSegmentFails, ClearReadTree, SetReadTreeLimit,
                SetThreshold, history
  <2> QED
    BY <1>3, <2>1, CopiesKept
<1> QED
  BY <1>2, <1>4, <1>5, CopiesRewriteStep DEF DebugNext

LEMMA CopiesInvariant ==
  ASSUME "append" \notin AllocFail PROVE Spec => []CopiesInv
<1>1. Init => CopiesInv
  BY DEF Init, CopiesInv, CopiesAgree, ListsKeyed, Keyed, TreeLive, Searchable,
         UnsortedRecords, SortedRecords, TableRecords, Active
<1>2. IInv /\ CopiesInv /\ IInv' /\ [Next]_vars => CopiesInv'
  <2> SUFFICES ASSUME IInv, CopiesInv, IInv', [Next]_vars PROVE CopiesInv'
    OBVIOUS
  <2>1. CASE UNCHANGED vars
    <3>1. RecordsMove
      BY <2>1, TypeParts, StutterMoves DEF IInv, vars
    <3> QED
      BY <2>1, <3>1, CopiesKept DEF vars, RecordsMove, lists, ListsKeyed, CopiesInv, history
  <2> QED
    BY <2>1, CopiesHostStep, CopiesIndexStep, CopiesDebugStep DEF Next
<1> QED
  BY <1>1, <1>2, InvariantHolds, PTL DEF Spec

\* Copies of one record agree wherever compaction, rewriting and the read tree
\* have put them.
THEOREM CopiesAlwaysAgree ==
  ASSUME "append" \notin AllocFail PROVE Spec => []CopiesAgree
<1>1. CopiesInv => CopiesAgree
  BY DEF CopiesInv
<1> QED
  BY <1>1, CopiesInvariant, PTL

\* A scan of a sorted list, a block table or the read tree may stop at the
\* first match.
THEOREM ListsStayKeyed ==
  ASSUME "append" \notin AllocFail PROVE Spec => []OneRecordPerKey
<1>1. CopiesInv => OneRecordPerKey
  BY DEF CopiesInv, ListsKeyed, Keyed, OneRecordPerKey
<1> QED
  BY <1>1, CopiesInvariant, PTL

-----------------------------------------------------------------------------
(* The limit of the read tree.                                             *)

Limited(t) == IsFiniteSet(t) /\ Cardinality(t) <= readTreeLimit
LimitInv == IsFiniteSet(Searchable) /\ Limited(readTree)

\* Room for one more.
LEMMA OneMore ==
  ASSUME readTreeLimit \in Nat, NEW u, IsFiniteSet(u), Cardinality(u) < readTreeLimit, NEW r
  PROVE  Limited(u \cup {r})
<1>1. Cardinality(u) \in Nat
  BY FS_CardinalityType
<1>2. /\ IsFiniteSet(u \cup {r})
      /\ Cardinality(u \cup {r}) = IF r \in u THEN Cardinality(u) ELSE Cardinality(u) + 1
  BY FS_AddElement
<1> QED
  BY <1>1, <1>2 DEF Limited

\* An update of a tree that keeps to its limit.
LEMMA TreeUpdatesLimited ==
  ASSUME readTreeLimit \in Nat \ {0}, NEW tree, Limited(tree), NEW r, NEW t \in TreeUpdates(tree, r)
  PROVE  Limited(t)
<1> DEFINE mine == {n \in tree : n.key = r.key}
<1>1. Cardinality(tree) \in Nat
  BY FS_CardinalityType DEF Limited
<1>2. CASE mine # {}
  <2>1. t = tree \/ t = (tree \ mine) \cup {r}
    BY <1>2 DEF TreeUpdates
  <2>2. IsFiniteSet(tree \ mine) /\ Cardinality(tree \ mine) < Cardinality(tree)
    <3>1. tree \ mine \in SUBSET tree /\ tree \ mine # tree
      BY <1>2
    <3> HIDE DEF mine
    <3>2. IsFiniteSet(tree \ mine)
      BY <3>1, FS_Subset DEF Limited
    <3> QED
      BY <1>1, <3>1, <3>2, FS_Subset, FS_CardinalityType DEF Limited
  <2> HIDE DEF mine
  <2>3. Cardinality(tree \ mine) < readTreeLimit
    BY <1>1, <2>2, FS_CardinalityType DEF Limited
  <2> QED
    BY <2>1, <2>2, <2>3, OneMore
<1>3. CASE mine = {}
  <2>1. t = tree \/ \E u \in SUBSET tree : t = u \cup {r} /\ Cardinality(u) < readTreeLimit
    BY <1>3 DEF TreeUpdates, kSubset
  <2>2. \A u \in SUBSET tree : IsFiniteSet(u)
    BY FS_Subset DEF Limited
  <2> QED
    BY <2>1, <2>2, OneMore
<1> QED
  BY <1>2, <1>3

\* A step that keeps the limit and makes no record.
LEMMA LimitKept ==
  ASSUME LimitInv, Searchable' \subseteq Searchable, readTree' \subseteq readTree,
         readTreeLimit' = readTreeLimit, readTreeLimit \in Nat
  PROVE  LimitInv'
<1>1. IsFiniteSet(Searchable') /\ IsFiniteSet(readTree')
  BY FS_Subset DEF LimitInv, Limited
<1>2. Cardinality(readTree') \in Nat /\ Cardinality(readTree) \in Nat
      /\ Cardinality(readTree') <= Cardinality(readTree)
  BY <1>1, FS_Subset, FS_CardinalityType DEF LimitInv, Limited
<1> QED
  BY <1>1, <1>2 DEF LimitInv, Limited

\* A step that only moves records or only drops tree nodes.
LEMMA LimitQuietStep ==
  ASSUME "append" \notin AllocFail, IInv, LimitInv,
         \/ \E k \in Keys : StartDelete(k) \/ \E p \in Payload : StartWrite(k, p)
         \/ \E z \in Zones : CompactZoneFails(z)
         \/ UnmapDeleted
         \/ IndexNext /\ ~AppendUnsorted
         \/ \E l \in Levels : ManualCompact(l) \/ ManualCompactFails(l)
         \/ \E s \in segments : SelectSegment(s)
         \/ RewriteSegmentFails \/ ClearReadTree
         \/ \E t \in Thresholds : SetThreshold(t)
         \/ UNCHANGED vars
  PROVE  LimitInv'
<1>1. ListsType /\ OpType /\ readTreeLimit \in Nat
  BY TypeParts, LimitAssumption DEF IInv, RestType
<1>2. RecordsMove
  <2>1. CASE \/ BeginAppend \/ BeginAppendFails \/ RunFlush \/ RunFlushFails
    BY <1>1, <2>1, FlushBottomMoves, FlushBottomFailsMoves
    DEF BeginAppend, BeginAppendFails, RunFlush, RunFlushFails
  <2>2. CASE CompactFullLevel \/ CompactFullLevelFails
    BY <1>1, <2>2, CompactLevelMoves, CompactLevelFailsMoves
    DEF CompactFullLevel, CompactFullLevelFails, OpType, OpIdle
  <2>3. CASE RunRound \/ RunRoundFails
    BY <1>1, <2>3, PickedTyped, CompactLevelMoves, CompactLevelFailsMoves
    DEF RunRound, RunRoundFails
  <2>4. CASE \E l \in Levels : ManualCompact(l) \/ ManualCompactFails(l)
    BY <1>1, <2>4, CompactLevelMoves, CompactLevelFailsMoves DEF ManualCompact, ManualCompactFails
  <2>5. CASE UNCHANGED lists
    BY <1>1, <2>5, StutterMoves
  <2> QED
    BY <2>1, <2>2, <2>3, <2>4, <2>5
    DEF StartDelete, StartWrite, CompactZoneFails, UnmapDeleted, IndexNext, AppendUnsortedFails,
        RunDone, SelectSegment, RewriteSegmentFails, ClearReadTree, SetThreshold, vars
<1>3. readTree' \subseteq readTree /\ readTreeLimit' = readTreeLimit
  BY DEF StartDelete, StartWrite, CompactZoneFails, UnmapDeleted, IndexNext,
         BeginAppend, BeginAppendFails, AppendUnsortedFails, CompactFullLevel,
         CompactFullLevelFails, RunFlush, RunFlushFails, RunRound, RunRoundFails, RunDone,
         ManualCompact, ManualCompactFails, SelectSegment, RewriteSegmentFails,
         ClearReadTree, SetThreshold, vars, settings, TreeBeforeAppend
<1> QED
  BY <1>1, <1>2, <1>3, LimitKept DEF RecordsMove

LEMMA LimitAppendStep ==
  ASSUME IInv, LimitInv, AppendUnsorted PROVE LimitInv'
<1> DEFINE r == [key |-> host.key, ts |-> NextTimestamp, val |-> host.val]
<1>1. /\ readTreeLimit' = readTreeLimit /\ UNCHANGED <<sorted, segments>>
      /\ readTree' \in TreeUpdates(TreeBeforeAppend, r)
      /\ \E l \in Levels : unsorted' = [unsorted EXCEPT ![l] = @ \cup {r}]
  BY DEF AppendUnsorted, settings
<1>2. ListsType /\ readTreeLimit \in Nat \ {0}
  BY TypeParts, LimitAssumption DEF IInv, RestType
<1> HIDE DEF r
<1>3. Searchable' \subseteq Searchable \cup {r}
  BY <1>1, <1>2 DEF Searchable, UnsortedRecords, SortedRecords, TableRecords, Active, ListsType
<1>4. IsFiniteSet(Searchable')
  BY <1>3, FS_AddElement, FS_Subset DEF LimitInv
<1>5. Limited(TreeBeforeAppend)
  <2>1. TreeBeforeAppend \in SUBSET readTree
    BY DEF TreeBeforeAppend
  <2>2. IsFiniteSet(TreeBeforeAppend) /\ Cardinality(TreeBeforeAppend) <= Cardinality(readTree)
    BY <2>1, FS_Subset DEF LimitInv, Limited
  <2> QED
    BY <1>2, <2>2, FS_CardinalityType DEF LimitInv, Limited
<1>6. Limited(readTree')
  BY <1>1, <1>2, <1>5, TreeUpdatesLimited
<1> QED
  BY <1>1, <1>4, <1>6 DEF LimitInv, Limited

LEMMA LimitZoneStep ==
  ASSUME IInv, LimitInv, NEW z \in Zones, CompactZone(z) PROVE LimitInv'
<1> DEFINE live == LiveKeys(z)
<1>1. PICK stamp :
        LET table == {[key |-> k, ts |-> stamp[k], val |-> LivePayload(k)] : k \in live} IN
        /\ segments' = segments \cup {Segment(MAX_LEVEL, table)}
        /\ readTree' \in {t \in SUBSET ({m \in readTree : m.key \notin live} \cup table) :
                            Cardinality(t) <= readTreeLimit}
  BY DEF CompactZone
<1> DEFINE made == [k \in live |-> [key |-> k, ts |-> stamp[k], val |-> LivePayload(k)]]
           table == {[key |-> k, ts |-> stamp[k], val |-> LivePayload(k)] : k \in live}
<1>2. IsFiniteSet(live)
  BY ZonesAssumption, FS_Subset DEF LiveKeys
<1>3. IsFiniteSet(table)
  <2>1. made \in Surjection(live, table)
    BY DEF Surjection
  <2> QED
    BY <1>2, <2>1, FS_Surjection
<1>4. /\ segments' = segments \cup {Segment(MAX_LEVEL, table)}
      /\ Segment(MAX_LEVEL, table).table = table
      /\ readTree' \subseteq readTree \cup table /\ Cardinality(readTree') <= readTreeLimit
      /\ UNCHANGED <<unsorted, sorted, readTreeLimit>>
  BY <1>1 DEF CompactZone, Segment, settings
<1> HIDE DEF table
<1>5. Searchable' \subseteq Searchable \cup table
  BY <1>4 DEF Searchable, UnsortedRecords, SortedRecords, TableRecords, Active
<1>6. IsFiniteSet(Searchable') /\ IsFiniteSet(readTree')
  BY <1>3, <1>4, <1>5, FS_Union, FS_Subset DEF LimitInv, Limited
<1> QED
  BY <1>4, <1>6 DEF LimitInv, Limited

LEMMA LimitTreeStep ==
  ASSUME IInv, LimitInv,
         \/ \E k \in Keys : Read(k)
         \/ CommitOutput
         \/ \E limit \in ReadTreeLimits : SetReadTreeLimit(limit)
  PROVE  LimitInv'
<1>1. ListsType /\ readTreeLimit \in Nat \ {0}
  BY TypeParts, LimitAssumption DEF IInv, RestType
<1>2. Searchable' = Searchable
  BY DEF Read, CommitOutput, SetReadTreeLimit, lists, Searchable, UnsortedRecords,
         SortedRecords, TableRecords, Active
<1>3. CASE \E k \in Keys : Read(k)
  BY <1>1, <1>2, <1>3, TreeUpdatesLimited DEF Read, settings, LimitInv, Limited
<1>4. CASE CommitOutput
  <2>1. Committable \subseteq Searchable
    BY DEF Committable, Searchable
  <2>2. IsFiniteSet(readTree \cup Committable)
    BY <2>1, FS_Subset, FS_Union DEF LimitInv, Limited
  <2>3. readTree' \in SUBSET (readTree \cup Committable) /\ Cardinality(readTree') <= readTreeLimit
        /\ readTreeLimit' = readTreeLimit
    BY <1>4 DEF CommitOutput, TreesAfter, settings
  <2> QED
    BY <1>2, <2>2, <2>3, FS_Subset DEF LimitInv, Limited
<1>5. ASSUME NEW limit \in ReadTreeLimits, SetReadTreeLimit(limit) PROVE LimitInv'
  <2>1. /\ readTreeLimit' = limit /\ readTree' \in SUBSET readTree
        /\ IF Cardinality(readTree) <= limit THEN readTree' = readTree
           ELSE Cardinality(readTree') = limit
    BY <1>5 DEF SetReadTreeLimit
  <2>2. limit \in Nat /\ IsFiniteSet(readTree')
    BY <2>1, LimitAssumption, FS_Subset DEF LimitInv, Limited
  <2> QED
    BY <1>2, <2>1, <2>2 DEF LimitInv, Limited
<1> QED
  BY <1>3, <1>4, <1>5

LEMMA LimitRewriteStep ==
  ASSUME IInv, LimitInv, RewriteSegment, Searchable' \subseteq Searchable PROVE LimitInv'
<1>1. readTreeLimit' = readTreeLimit /\ readTreeLimit \in Nat /\ IsFiniteSet(Searchable')
  BY TypeParts, LimitAssumption, FS_Subset DEF IInv, RestType, RewriteSegment, settings, LimitInv
<1>2. CASE readTree' = readTree
  BY <1>1, <1>2 DEF LimitInv, Limited
<1>3. CASE readTree' \in TreesAfter(Committable')
  <2>1. Committable' \subseteq Searchable
    BY DEF Committable, Searchable
  <2>2. IsFiniteSet(readTree \cup Committable')
    BY <2>1, FS_Subset, FS_Union DEF LimitInv, Limited
  <2> QED
    BY <1>1, <1>3, <2>2, FS_Subset DEF TreesAfter, LimitInv, Limited
<1> QED
  BY <1>2, <1>3 DEF RewriteSegment

\* The read tree never exceeds the limit that is set, whatever is read, cached,
\* evicted or committed, and whenever the limit is changed.
THEOREM TreeStaysBounded ==
  ASSUME "append" \notin AllocFail PROVE Spec => []ReadTreeBounded
<1>1. Init => LimitInv
  <2> SUFFICES ASSUME Init PROVE LimitInv
    OBVIOUS
  <2>1. Searchable = {} /\ readTree = {} /\ readTreeLimit \in Nat
    BY LimitAssumption DEF Init, Searchable, UnsortedRecords, SortedRecords, TableRecords, Active
  <2> QED
    BY <2>1, FS_EmptySet DEF LimitInv, Limited
<1>2. IInv /\ LimitInv /\ [Next]_vars => LimitInv'
  <2> SUFFICES ASSUME IInv, LimitInv, [Next]_vars PROVE LimitInv'
    OBVIOUS
  <2> QED
    BY LimitQuietStep, LimitAppendStep, LimitZoneStep, LimitTreeStep, LimitRewriteStep,
       RewriteMakesNothing
    DEF Next, HostNext, IndexNext, DebugNext
<1>3. LimitInv => ReadTreeBounded
  BY DEF LimitInv, Limited, ReadTreeBounded
<1> QED
  BY <1>1, <1>2, <1>3, InvariantHolds, PTL DEF Spec

===============================================================================
