--------------------------- MODULE ImrOutputProofs ----------------------------
(***************************************************************************)
(* Proofs about ImrOutput for every geometry, every set of keys and every  *)
(* choice of the Bloom filters' parameters: the outputs of the segments in *)
(* use never overlap, no filter hides a key of its segment, and the types  *)
(* hold as long as the allocations stay within a zone.                     *)
(***************************************************************************)
EXTENDS ImrOutput, FiniteSetTheorems, WellFoundedInduction, TLAPS

-----------------------------------------------------------------------------
(* Least elements.                                                         *)

LEMMA LeastNatural ==
  ASSUME NEW S \in SUBSET Nat, S # {}
  PROVE  \E x \in S : \A y \in S : x <= y
<1> DEFINE R == {ss \in Nat \X Nat : ss[1] < ss[2]}
<1>1. IsWellFoundedOn(R, Nat)
  BY NatLessThanWellFounded, Zenon DEF OpToRel
<1> HIDE DEF R
<1>2. PICK x \in S : \A y \in S : ~ (<<y, x>> \in R)
  BY <1>1, WFMin, Zenon
<1>3. ASSUME NEW y \in S, y < x PROVE FALSE
  <2>1. <<y, x>> \in Nat \X Nat /\ <<y, x>>[1] < <<y, x>>[2]
    BY <1>3
  <2>2. <<y, x>> \in R
    BY <2>1, Zenon DEF R
  <2> QED
    BY <1>2, <2>2
<1> QED
  BY <1>3

LEMMA MinNatural ==
  ASSUME NEW S \in SUBSET Nat, S # {}
  PROVE  Min(S) \in S /\ Min(S) \in Nat
<1>1. PICK x \in S : \A y \in S : x <= y
  BY LeastNatural
<1> QED
  BY <1>1 DEF Min

LEMMA GreatestBounded ==
  ASSUME NEW n \in Nat, NEW S \in SUBSET (0..n), S # {}
  PROVE  \E x \in S : \A y \in S : y <= x
<1> DEFINE T == {n - x : x \in S}
<1>1. \A x \in S : x \in Nat /\ x <= n /\ n - x \in Nat
  OBVIOUS
<1>2. T \in SUBSET Nat
  BY <1>1
<1>3. T # {}
  OBVIOUS
<1> HIDE DEF T
<1>4. PICK t \in T : \A u \in T : t <= u
  BY <1>2, <1>3, LeastNatural
<1>5. PICK x \in S : t = n - x
  BY DEF T
<1>6. ASSUME NEW y \in S PROVE y <= x
  <2>1. n - y \in T
    BY DEF T
  <2>2. n - x <= n - y
    BY <1>4, <1>5, <2>1
  <2> QED
    BY <1>1, <2>2
<1> QED
  BY <1>6

-----------------------------------------------------------------------------
(* The slots of a table's live entries.                                    *)

\* A finite set of records of known keys, none newer than n.
IsRecord(r) == r = [key |-> r.key, ts |-> r.ts, live |-> r.live, pba |-> r.pba]
Held(S, n) ==
  IsFiniteSet(S) /\ \A r \in S : IsRecord(r) /\ r.key \in HostKeys /\ r.ts \in 0..n

LEMMA KeysAreNatural == HostKeys \subseteq Nat
  BY OutputGeometry DEF Blocks

Below(K, k) == {j \in K : j < k}

\* The number of smaller elements is below the cardinality and tells elements apart.
LEMMA Ranks ==
  ASSUME NEW K \in SUBSET Nat, IsFiniteSet(K)
  PROVE  /\ \A k \in K : Cardinality(Below(K, k)) \in 0..(Cardinality(K) - 1)
         /\ \A j, k \in K : j < k => Cardinality(Below(K, j)) < Cardinality(Below(K, k))
<1>1. Cardinality(K) \in Nat
  BY FS_CardinalityType
<1>2. ASSUME NEW k \in K
      PROVE  /\ IsFiniteSet(Below(K, k)) /\ Cardinality(Below(K, k)) \in Nat
             /\ IsFiniteSet(Below(K, k) \cup {k})
             /\ Cardinality(Below(K, k) \cup {k}) = Cardinality(Below(K, k)) + 1
  <2>1. Below(K, k) \in SUBSET K /\ k \notin Below(K, k)
    BY DEF Below
  <2>2. IsFiniteSet(Below(K, k))
    BY <2>1, FS_Subset
  <2> QED
    BY <2>1, <2>2, FS_AddElement, FS_CardinalityType
<1>3. ASSUME NEW k \in K PROVE Cardinality(Below(K, k)) + 1 <= Cardinality(K)
  <2>1. Below(K, k) \cup {k} \in SUBSET K
    BY DEF Below
  <2>2. Cardinality(Below(K, k) \cup {k}) <= Cardinality(K)
    BY <2>1, FS_Subset
  <2> QED
    BY <1>2, <2>2
<1>4. ASSUME NEW j \in K, NEW k \in K, j < k
      PROVE  Cardinality(Below(K, j)) < Cardinality(Below(K, k))
  <2>1. Below(K, j) \cup {j} \in SUBSET Below(K, k)
    <3>1. \A i \in Nat, m \in Nat, n \in Nat : i < m /\ m < n => i < n
      OBVIOUS
    <3>2. \A i \in K : i < j => i < k
      BY <1>4, <3>1
    <3> QED
      BY <1>4, <3>2 DEF Below
  <2>2. Cardinality(Below(K, j) \cup {j}) <= Cardinality(Below(K, k))
    BY <1>2, <2>1, FS_Subset
  <2>3. /\ Cardinality(Below(K, j)) \in Nat /\ Cardinality(Below(K, k)) \in Nat
        /\ Cardinality(Below(K, j)) + 1 <= Cardinality(Below(K, k))
    BY <1>2, <2>2
  <2> QED
    BY <2>3
<1>5. ASSUME NEW k \in K PROVE Cardinality(Below(K, k)) \in 0..(Cardinality(K) - 1)
  <2>1. \A c, n \in Nat : c + 1 <= n => c \in 0..(n - 1)
    OBVIOUS
  <2> QED
    BY <1>1, <1>2, <1>3, <2>1
<1> QED
  BY <1>4, <1>5

\* Each live entry has a slot of its own among as many blocks as the table has entries.
LEMMA SlotsFit ==
  ASSUME NEW s, NEW n, Held(s.table, n), s.first \in Nat, s.first # None
  PROVE  /\ \A j \in LiveKeys(s) : Slot(s, j) \in OutputRange(s)
         /\ \A j, k \in LiveKeys(s) : j # k => Slot(s, j) # Slot(s, k)
<1> DEFINE live == {e \in s.table : e.live}
           f == [r \in live |-> r.key]
<1>1. LiveKeys(s) = {r.key : r \in live} /\ LiveKeys(s) \in SUBSET Nat
  BY KeysAreNatural DEF Held, LiveKeys
<1>2. IsFiniteSet(live) /\ Cardinality(live) <= Cardinality(s.table)
  BY FS_Subset DEF Held
<1>3. f \in Surjection(live, LiveKeys(s))
  BY <1>1 DEF Surjection
<1>4. IsFiniteSet(LiveKeys(s)) /\ Cardinality(LiveKeys(s)) <= Cardinality(live)
  BY <1>2, <1>3, FS_Surjection
<1>5. /\ Cardinality(s.table) \in Nat /\ Cardinality(live) \in Nat
      /\ Cardinality(LiveKeys(s)) \in Nat
  BY <1>2, <1>4, FS_CardinalityType DEF Held
<1> HIDE DEF live
<1>6. ASSUME NEW k \in LiveKeys(s)
      PROVE  /\ Slot(s, k) = s.first + Cardinality(Below(LiveKeys(s), k))
             /\ Cardinality(Below(LiveKeys(s), k)) \in 0..(Cardinality(s.table) - 1)
  <2>1. Slot(s, k) = s.first + Cardinality(Below(LiveKeys(s), k))
    BY Zenon DEF Slot, Below
  <2>2. Cardinality(Below(LiveKeys(s), k)) \in 0..(Cardinality(LiveKeys(s)) - 1)
    BY <1>1, <1>4, Ranks
  <2>3. Cardinality(LiveKeys(s)) <= Cardinality(s.table)
    BY <1>2, <1>4, <1>5
  <2> QED
    BY <1>5, <2>1, <2>2, <2>3
<1>7. \A j, k \in LiveKeys(s) : j < k =>
        Cardinality(Below(LiveKeys(s), j)) < Cardinality(Below(LiveKeys(s), k))
  BY <1>1, <1>4, Ranks
<1>8. OutputRange(s) = s.first..(s.first + Cardinality(s.table) - 1)
  BY DEF OutputRange
<1>9. ASSUME NEW j \in LiveKeys(s), NEW k \in LiveKeys(s), j # k
      PROVE  Slot(s, j) # Slot(s, k)
  <2>1. j < k \/ k < j
    <3>1. j \in Nat /\ k \in Nat
      BY <1>1
    <3> QED
      BY <1>9, <3>1
  <2> QED
    BY <1>6, <1>7, <2>1
<1> QED
  BY <1>5, <1>6, <1>8, <1>9

-----------------------------------------------------------------------------
(* Allocation.                                                             *)

LEMMA GeometryFacts ==
  /\ TOTAL \in Nat \ {0} /\ BottomKeys \in Nat \ {0} /\ None \in Nat /\ Mixed \in Nat
  /\ BOTTOM \in Nat \ {0} /\ TOP \in Nat \ {0} /\ TRACKS \in Nat \ {0}
<1>1. {TOP, BOTTOM, TRACKS, NumZones} \subseteq Nat \ {0}
  BY OutputGeometry
<1>2. \A a, b \in Nat \ {0} : a * b \in Nat \ {0}
  OBVIOUS
<1>3. TOTAL \in Nat \ {0}
  BY <1>1, <1>2 DEF TOTAL
<1> QED
  BY <1>1, <1>2, <1>3 DEF BottomKeys, None, Mixed

LEMMA DivNatural == \A n \in Nat, d \in Nat \ {0} : n \div d \in Nat /\ n % d \in Nat
  OBVIOUS

LEMMA TopStartNatural == \A z, t \in Nat : TopStart(z, t) \in Nat
<1>1. \A a, b \in Nat : a * b \in Nat /\ a + b \in Nat
  OBVIOUS
<1>2. TOTAL \in Nat /\ TOP + BOTTOM \in Nat
  BY GeometryFacts
<1> SUFFICES ASSUME NEW z \in Nat, NEW t \in Nat PROVE z * TOTAL + t * (TOP + BOTTOM) \in Nat
  BY DEF TopStart
<1>3. z * TOTAL \in Nat /\ t * (TOP + BOTTOM) \in Nat
  BY <1>1, <1>2
<1> QED
  BY <1>1, <1>3

\* The top tracks beside the keys of a table are blocks.
LEMMA PlacementNatural ==
  ASSUME NEW n, NEW table, Held(table, n), table # {}, NEW zone \in Nat
  PROVE  Placement(zone, table) \in SUBSET Nat
<1> DEFINE offsets == {Offset(k) : k \in KeysOf(table)}
           start == TopStart(zone, Min(offsets) \div BOTTOM)
<1>1. offsets \in SUBSET Nat /\ offsets # {}
  <2>1. \A k \in Nat : Offset(k) \in Nat
    BY GeometryFacts, DivNatural, Zenon DEF Offset
  <2>2. KeysOf(table) \subseteq Nat /\ KeysOf(table) # {}
    BY KeysAreNatural DEF Held, KeysOf
  <2> QED
    BY <2>1, <2>2
<1>2. Min(offsets) \in Nat
  BY <1>1, MinNatural
<1>3. start \in Nat
  <2>1. Min(offsets) \div BOTTOM \in Nat
    BY <1>2, GeometryFacts, DivNatural, Zenon
  <2> HIDE DEF offsets
  <2> QED
    BY <2>1, TopStartNatural
<1> HIDE DEF offsets
<1>4. \A e : start..e \in SUBSET Nat
  BY <1>3
<1> QED
  BY <1>4 DEF Placement, offsets

-----------------------------------------------------------------------------
(* The inductive invariant.                                                *)

SegmentOK(s) ==
  /\ Held(s.table, timestamp) /\ s.table # {}
  /\ s.zone \in Nat /\ s.first \in Nat
FilterOK(s) ==
  s.filter.set =
    UNION {HashBits(k, s.filter.bits, s.filter.hashes) : k \in KeysOf(s.table)}

ListsOK ==
  /\ timestamp \in Nat
  /\ unsorted = [l \in Levels |-> unsorted[l]]
  /\ sorted = [l \in Levels |-> sorted[l]]
  /\ \A l \in Levels : Held(unsorted[l], timestamp) /\ Held(sorted[l], timestamp)
RangesApart ==
  \A s, t \in segments : s # t => OutputRange(s) \cap OutputRange(t) = {}

OInv ==
  /\ ListsOK
  /\ \A s \in segments : SegmentOK(s) /\ FilterOK(s)
  /\ RangesApart

LEMMA HeldUnion ==
  ASSUME NEW n, NEW S, NEW T, Held(S, n), Held(T, n)
  PROVE  Held(S \cup T, n)
  BY FS_Union DEF Held

LEMMA HeldSubset ==
  ASSUME NEW n, NEW S, Held(S, n), NEW T \in SUBSET S
  PROVE  Held(T, n)
  BY FS_Subset DEF Held

LEMMA HeldLater ==
  ASSUME NEW n \in Nat, NEW S, Held(S, n)
  PROVE  Held(S, n + 1)
<1>1. \A t \in 0..n : t \in 0..(n + 1)
  OBVIOUS
<1> QED
  BY <1>1 DEF Held

LEMMA HeldEmpty == \A n : Held({}, n)
  BY FS_EmptySet DEF Held

LEMMA HeldNewest ==
  ASSUME NEW n \in Nat, NEW S, Held(S, n), S # {}
  PROVE  Held(Newest(S), n) /\ Newest(S) # {}
<1>1. Newest(S) \in SUBSET S
  BY DEF Newest
<1>2. PICK r \in S : TRUE
  OBVIOUS
<1> DEFINE stamps == {q.ts : q \in {e \in S : e.key = r.key}}
<1>3. stamps \in SUBSET (0..n) /\ stamps # {}
  BY <1>2 DEF Held
<1> HIDE DEF stamps
<1>4. PICK t \in stamps : \A u \in stamps : u <= t
  BY <1>3, GreatestBounded
<1>5. PICK q \in S : q.key = r.key /\ q.ts = t
  BY DEF stamps
<1>6. \A e \in S : e.key = q.key => e.ts <= q.ts
  BY <1>4, <1>5 DEF stamps
<1>7. q \in Newest(S)
  BY <1>5, <1>6 DEF Newest
<1> QED
  BY <1>1, <1>7, HeldSubset

-----------------------------------------------------------------------------
(* A new segment.                                                          *)

LEMMA FirstFitStarts ==
  ASSUME NEW target \in SUBSET Nat, NEW n
  PROVE  /\ FirstFit(target, n) \in Nat
         /\ FirstFit(target, n) # None =>
              (FirstFit(target, n)..(FirstFit(target, n) + n - 1)) \cap Taken = {}
<1>1. Starts(target, n) \in SUBSET Nat
  BY DEF Starts
<1>2. CASE Starts(target, n) = {}
  BY <1>2, GeometryFacts DEF FirstFit
<1>3. CASE Starts(target, n) # {}
  <2>1. Min(Starts(target, n)) \in Starts(target, n)
    BY <1>1, <1>3, MinNatural
  <2>2. FirstFit(target, n) = Min(Starts(target, n))
    BY <1>3 DEF FirstFit
  <2>3. FirstFit(target, n) \in Starts(target, n)
    BY <2>1, <2>2
  <2> QED
    BY <1>1, <2>3 DEF Starts
<1> QED
  BY <1>2, <1>3

LEMMA NewSegment ==
  ASSUME NEW zone \in Nat, timestamp \in Nat,
         NEW table, Held(table, timestamp), table # {}
  PROVE  /\ SegmentOK(Segment(zone, table))
         /\ FilterOK(Segment(zone, table))
         /\ \A t \in segments : OutputRange(Segment(zone, table)) \cap OutputRange(t) = {}
<1> DEFINE s == Segment(zone, table)
           n == Cardinality(table)
<1>1. /\ s.table = table /\ s.zone = zone /\ s.first = FirstFit(Placement(zone, table), n)
      /\ s.filter = BuiltFilter(table, BitsPerKey(nextId))
  BY DEF Segment
<1>2. Placement(zone, table) \in SUBSET Nat
  BY PlacementNatural
<1>3. /\ s.first \in Nat
      /\ s.first # None => (s.first..(s.first + n - 1)) \cap Taken = {}
  BY <1>1, <1>2, FirstFitStarts
<1>4. OutputRange(s) \cap Taken = {}
  BY <1>1, <1>3 DEF OutputRange
<1>5. \A t \in segments : OutputRange(t) \subseteq Taken
  BY DEF Taken
<1>6. FilterOK(s)
  BY <1>1 DEF FilterOK, BuiltFilter
<1>7. SegmentOK(s)
  BY <1>1, <1>3 DEF SegmentOK
<1> QED
  BY <1>4, <1>5, <1>6, <1>7

-----------------------------------------------------------------------------
(* The invariant holds.                                                    *)

LEMMA InitInv == Init => OInv
<1> SUFFICES ASSUME Init PROVE OInv
  OBVIOUS
<1>1. timestamp = 0 /\ segments = {}
  BY DEF Init
<1>2. unsorted = [l \in Levels |-> {}] /\ sorted = [l \in Levels |-> {}]
  BY DEF Init
<1>3. ListsOK
  BY <1>1, <1>2, HeldEmpty DEF ListsOK
<1> QED
  BY <1>1, <1>3 DEF OInv, RangesApart

\* Nothing the invariant is about changes.
LEMMA Untouched ==
  ASSUME OInv, UNCHANGED <<unsorted, sorted, segments, timestamp>>
  PROVE  OInv'
<1>1. ListsOK'
  BY DEF OInv, ListsOK
<1>2. \A s \in segments' : SegmentOK(s)' /\ FilterOK(s)
  BY DEF OInv, SegmentOK
<1> QED
  BY <1>1, <1>2 DEF OInv, RangesApart

\* A record of the next timestamp is added to an unsorted list.
LEMMA RecordAdded ==
  ASSUME OInv, NEW l \in Levels, NEW r, IsRecord(r), r.key \in HostKeys, r.ts = timestamp + 1,
         timestamp' = timestamp + 1, unsorted' = [unsorted EXCEPT ![l] = @ \cup {r}],
         UNCHANGED <<sorted, segments>>
  PROVE  OInv'
<1>1. timestamp \in Nat /\ timestamp' \in Nat
  BY DEF OInv, ListsOK
<1>2. Held({r}, timestamp')
  <2>1. r.ts \in 0..timestamp'
    BY <1>1
  <2> QED
    BY <2>1, FS_Singleton DEF Held
<1>3. \A m \in Levels : Held(unsorted[m], timestamp') /\ Held(sorted[m], timestamp')
  BY <1>1, HeldLater DEF OInv, ListsOK
<1>4. Held(unsorted[l] \cup {r}, timestamp')
  BY <1>2, <1>3, HeldUnion
<1>5. /\ unsorted' = [m \in Levels |-> unsorted'[m]]
      /\ \A m \in Levels : unsorted'[m] = IF m = l THEN unsorted[l] \cup {r} ELSE unsorted[m]
  BY Zenon DEF OInv, ListsOK
<1>6. ListsOK'
  <2>1. sorted' = [m \in Levels |-> sorted'[m]]
    BY DEF OInv, ListsOK
  <2>2. \A m \in Levels : Held(unsorted'[m], timestamp')
    BY <1>3, <1>4, <1>5
  <2>3. \A m \in Levels : Held(sorted'[m], timestamp')
    BY <1>3
  <2> QED
    BY <1>1, <1>5, <2>1, <2>2, <2>3 DEF ListsOK
<1>7. \A s \in segments' : SegmentOK(s)' /\ FilterOK(s)
  BY <1>1, HeldLater DEF OInv, SegmentOK
<1> QED
  BY <1>6, <1>7 DEF OInv, RangesApart

\* A segment joins some of the others.
LEMMA SegmentAdded ==
  ASSUME OInv, ListsOK', NEW old \in SUBSET segments, NEW zone \in Nat,
         NEW table, Held(table, timestamp), table # {},
         segments' = old \cup {Segment(zone, table)}, timestamp' = timestamp
  PROVE  OInv'
<1> DEFINE s == Segment(zone, table)
<1>1. /\ SegmentOK(s) /\ FilterOK(s)
      /\ \A t \in segments : OutputRange(s) \cap OutputRange(t) = {}
  BY NewSegment DEF OInv, ListsOK
<1> HIDE DEF s
<1>2. \A t \in segments' : SegmentOK(t) /\ FilterOK(t)
  BY <1>1 DEF OInv, s
<1>3. \A t \in segments' : SegmentOK(t)' /\ FilterOK(t)
  BY <1>2 DEF SegmentOK
<1>4. \A t, u \in segments' : t # u => OutputRange(t) \cap OutputRange(u) = {}
  <2> SUFFICES ASSUME NEW t \in segments', NEW u \in segments', t # u
               PROVE  OutputRange(t) \cap OutputRange(u) = {}
    OBVIOUS
  <2>1. segments' = old \cup {s}
    BY DEF s
  <2>2. CASE t \in segments /\ u \in segments
    BY <2>2 DEF OInv, RangesApart
  <2>3. CASE t = s /\ u \in segments
    BY <1>1, <2>3
  <2>4. CASE u = s /\ t \in segments
    BY <1>1, <2>4
  <2> QED
    BY <2>1, <2>2, <2>3, <2>4
<1>5. RangesApart'
  <2>1. \A t : OutputRange(t)' = OutputRange(t)
    BY DEF OutputRange
  <2> QED
    BY <1>4 DEF RangesApart, OutputRange
<1> QED
  BY <1>3, <1>5 DEF OInv

LEMMA BuilderZoneNatural ==
  ASSUME NEW n, NEW table, Held(table, n)
  PROVE  BuilderZone(table) \in Nat
<1> DEFINE zones == {ZoneOf(k) : k \in KeysOf(table)}
<1>1. zones \in SUBSET Nat
  <2>1. \A k \in Nat : ZoneOf(k) \in Nat
    BY GeometryFacts, DivNatural, Zenon DEF ZoneOf
  <2>2. KeysOf(table) \subseteq Nat
    BY KeysAreNatural DEF Held, KeysOf
  <2> QED
    BY <2>1, <2>2
<1> HIDE DEF zones
<1>2. CASE Cardinality(zones) = 1 /\ zones # {}
  <2>1. (CHOOSE z \in zones : TRUE) \in zones
    BY <1>2
  <2> QED
    BY <1>1, <1>2, <2>1 DEF BuilderZone, zones
<1>3. CASE zones = {}
  <2>1. Cardinality(zones) = 0
    BY <1>3, FS_EmptySet
  <2> QED
    BY <2>1, GeometryFacts DEF BuilderZone, zones
<1>4. CASE Cardinality(zones) # 1
  BY <1>4, GeometryFacts DEF BuilderZone, zones
<1> QED
  BY <1>2, <1>3, <1>4

LEMMA HostWriteInv ==
  ASSUME OInv, NEW k \in HostKeys, NEW l \in Levels, HostWrite(k, l)
  PROVE  OInv'
<1> DEFINE target == IF home[k] = None THEN Allocated(ZoneOf(k), mapSize[ZoneOf(k)]) ELSE home[k]
           r == [key |-> k, ts |-> timestamp + 1, live |-> TRUE, pba |-> target]
<1>1. /\ timestamp' = timestamp + 1 /\ unsorted' = [unsorted EXCEPT ![l] = @ \cup {r}]
      /\ UNCHANGED <<sorted, segments>>
  BY Zenon DEF HostWrite
<1>2. IsRecord(r) /\ r.key = k /\ r.ts = timestamp + 1
  BY DEF IsRecord
<1> HIDE DEF r
<1> QED
  BY <1>1, <1>2, RecordAdded

LEMMA HostDeleteInv ==
  ASSUME OInv, NEW k \in HostKeys, NEW l \in Levels, HostDelete(k, l)
  PROVE  OInv'
<1> DEFINE r == [key |-> k, ts |-> timestamp + 1, live |-> FALSE, pba |-> None]
<1>1. /\ timestamp' = timestamp + 1 /\ unsorted' = [unsorted EXCEPT ![l] = @ \cup {r}]
      /\ UNCHANGED <<sorted, segments>>
  BY Zenon DEF HostDelete, index
<1>2. IsRecord(r) /\ r.key = k /\ r.ts = timestamp + 1
  BY DEF IsRecord
<1> HIDE DEF r
<1> QED
  BY <1>1, <1>2, RecordAdded

LEMMA CompactInv ==
  ASSUME OInv, NEW src \in Levels, NEW dst \in Levels, Compact(src, dst)
  PROVE  OInv'
<1> DEFINE input == CompactionInput(src, dst)
           table == Newest(input)
<1>1. /\ input # {} /\ timestamp' = timestamp
      /\ unsorted' = [unsorted EXCEPT ![src] = {}]
      /\ sorted' = [l \in Levels |-> IF l = dst THEN Newest(sorted[l] \cup input)
                                      ELSE IF l = src THEN {} ELSE sorted[l]]
      /\ segments' = segments \cup {Segment(BuilderZone(table), table)}
  BY DEF Compact, host
<1>2. /\ timestamp \in Nat
      /\ \A l \in Levels : Held(unsorted[l], timestamp) /\ Held(sorted[l], timestamp)
  BY DEF OInv, ListsOK
<1>3. Held(input, timestamp)
  BY <1>2, HeldUnion, HeldEmpty DEF CompactionInput
<1> HIDE DEF input
<1>4. Held(table, timestamp) /\ table # {}
  BY <1>1, <1>2, <1>3, HeldNewest
<1>5. Held(Newest(sorted[dst] \cup input), timestamp)
  <2>1. Held(sorted[dst] \cup input, timestamp) /\ sorted[dst] \cup input # {}
    BY <1>1, <1>2, <1>3, HeldUnion
  <2> QED
    BY <1>2, <2>1, HeldNewest
<1>6. ListsOK'
  <2>1. /\ unsorted' = [m \in Levels |-> unsorted'[m]]
        /\ \A m \in Levels : unsorted'[m] = IF m = src THEN {} ELSE unsorted[m]
    BY <1>1, Zenon DEF OInv, ListsOK
  <2>2. /\ sorted' = [m \in Levels |-> sorted'[m]]
        /\ \A m \in Levels : sorted'[m] = IF m = dst THEN Newest(sorted[m] \cup input)
                                          ELSE IF m = src THEN {} ELSE sorted[m]
    BY <1>1, Zenon
  <2>3. \A m \in Levels : Held(unsorted'[m], timestamp)
    BY <1>2, <2>1, HeldEmpty
  <2>4. \A m \in Levels : Held(sorted'[m], timestamp)
    BY <1>2, <1>5, <2>2, HeldEmpty
  <2> QED
    BY <1>1, <1>2, <2>1, <2>2, <2>3, <2>4 DEF ListsOK
<1>7. BuilderZone(table) \in Nat
  BY <1>4, BuilderZoneNatural
<1> HIDE DEF table
<1> QED
  BY <1>1, <1>4, <1>6, <1>7, SegmentAdded

\* A rewritten table holds keys and timestamps of the old one.
LEMMA RewrittenHeld ==
  ASSUME NEW n, NEW s, Held(s.table, n)
  PROVE  Held(RewrittenTable(s), n)
<1> DEFINE f == [r \in s.table |-> [r EXCEPT !.pba = EntryPba(s, r)]]
<1>1. f \in Surjection(s.table, Entries(s))
  BY DEF Surjection, Entries
<1>2. IsFiniteSet(Entries(s))
  BY <1>1, FS_Surjection DEF Held
<1>3. \A e \in Entries(s) : \E r \in s.table : e = [r EXCEPT !.pba = EntryPba(s, r)]
  BY DEF Entries
<1>4. ASSUME NEW r \in s.table, NEW p
      PROVE  /\ IsRecord([r EXCEPT !.pba = p])
             /\ [r EXCEPT !.pba = p].key = r.key /\ [r EXCEPT !.pba = p].ts = r.ts
  <2>1. r = [key |-> r.key, ts |-> r.ts, live |-> r.live, pba |-> r.pba]
    BY DEF Held, IsRecord
  <2>2. [r EXCEPT !.pba = p] = [key |-> r.key, ts |-> r.ts, live |-> r.live, pba |-> p]
    BY <2>1
  <2> QED
    BY <2>2 DEF IsRecord
<1>5. ASSUME NEW e \in Entries(s)
      PROVE  IsRecord(e) /\ e.key \in HostKeys /\ e.ts \in 0..n
  <2>1. PICK r \in s.table : e = [r EXCEPT !.pba = EntryPba(s, r)]
    BY <1>3
  <2>2. IsRecord(e) /\ e.key = r.key /\ e.ts = r.ts
    BY <1>4, <2>1, Zenon
  <2> QED
    BY <2>2 DEF Held
<1>6. Held(Entries(s), n)
  BY <1>2, <1>5 DEF Held
<1> QED
  BY <1>6, HeldSubset DEF RewrittenTable

LEMMA RewriteInv ==
  ASSUME OInv, NEW s \in segments, Rewrite(s)
  PROVE  OInv'
<1>1. UNCHANGED <<unsorted, sorted, timestamp>>
  BY DEF Rewrite, host
<1>2. ListsOK'
  BY <1>1 DEF OInv, ListsOK
<1>3. Held(RewrittenTable(s), timestamp) /\ s.zone \in Nat
  BY RewrittenHeld DEF OInv, SegmentOK
<1>4. CASE RewrittenTable(s) = {}
  <2>1. segments' = segments \ {s}
    BY <1>4 DEF Rewrite
  <2>2. \A t \in segments' : SegmentOK(t)' /\ FilterOK(t)
    BY <1>1, <2>1 DEF OInv, SegmentOK
  <2> QED
    BY <1>2, <2>1, <2>2 DEF OInv, RangesApart
<1>5. CASE RewrittenTable(s) # {}
  <2>1. segments' = (segments \ {s}) \cup {Segment(s.zone, RewrittenTable(s))}
    BY <1>5 DEF Rewrite
  <2> QED
    BY <1>1, <1>2, <1>3, <1>5, <2>1, SegmentAdded
<1> QED
  BY <1>4, <1>5

LEMMA StepInv == OInv /\ [Next]_vars => OInv'
<1> SUFFICES ASSUME OInv, [Next]_vars PROVE OInv'
  OBVIOUS
<1> USE DEF index, output, disk, host
<1>1. CASE \E k \in HostKeys, l \in Levels : HostWrite(k, l) \/ HostDelete(k, l)
  BY <1>1, HostWriteInv, HostDeleteInv
<1>2. CASE \E k \in HostKeys : Read(k)
  BY <1>2, Untouched DEF Read
<1>3. CASE \E b \in bios : BioLands(b)
  BY <1>3, Untouched DEF BioLands
<1>4. CASE \E src, dst \in Levels : Compact(src, dst)
  BY <1>4, CompactInv
<1>5. CASE \E mode \in Modes : CommitOutput(mode)
  BY <1>5, Untouched DEF CommitOutput
<1>6. CASE CopyEntry \/ CopyFails \/ CommitMetadata
  BY <1>6, Untouched DEF CopyEntry, CopyFails, CommitMetadata
<1>7. CASE \E s \in segments : Rewrite(s)
  BY <1>7, RewriteInv
<1>8. CASE UNCHANGED vars
  BY <1>8, Untouched DEF vars
<1> QED
  BY <1>1, <1>2, <1>3, <1>4, <1>5, <1>6, <1>7, <1>8 DEF Next

LEMMA SpecInv == Spec => []OInv
  BY InitInv, StepInv, PTL DEF Spec

-----------------------------------------------------------------------------
(* What follows.                                                           *)

\* The outputs of the segments in use never overlap, whatever is compacted, rewritten
\* and retired in whatever order, and every live entry of an output has a slot of its
\* own inside it.
THEOREM OutputsStayApart == Spec => []OutputsApart
<1>1. OInv => OutputsApart
  <2> SUFFICES ASSUME OInv PROVE OutputsApart
    OBVIOUS
  <2>1. \A s \in segments : s.first # None =>
          /\ \A j \in LiveKeys(s) : Slot(s, j) \in OutputRange(s)
          /\ \A j, k \in LiveKeys(s) : j # k => Slot(s, j) # Slot(s, k)
    BY SlotsFit DEF OInv, SegmentOK
  <2> QED
    BY <2>1 DEF OInv, RangesApart, OutputsApart
<1> QED
  BY <1>1, SpecInv, PTL

\* Whatever bloom_bits_per_key was when a filter was built and is when it is used,
\* and whatever the hash function, no filter hides a key of its segment.
THEOREM FiltersNeverHide == Spec => []FiltersAdmit
<1>1. OInv => FiltersAdmit
  BY DEF OInv, FilterOK, FiltersAdmit, MayContain
<1> QED
  BY <1>1, SpecInv, PTL

-----------------------------------------------------------------------------
(* Blocks: a zone, a track group, a place in the group.                    *)

Group == TOP + BOTTOM

LEMMA DivMod ==
  ASSUME NEW a \in Nat, NEW b \in Nat \ {0}
  PROVE  a \div b \in Nat /\ a % b \in 0..(b - 1) /\ a = ((a \div b) * b) + (a % b)
BY SMT

LEMMA Unique ==
  ASSUME NEW b \in Nat, NEW q \in Nat, NEW r \in 0..(b - 1)
  PROVE  (q * b + r) \div b = q
BY SMT

LEMMA Quotient ==
  ASSUME NEW a \in Nat, NEW b \in Nat \ {0}, NEW c \in Nat, a < b * c
  PROVE  a \div b < c
<1>1. a \div b \in Nat /\ (a \div b) * b <= a
  BY DivMod, SMT
<1>2. CASE a \div b >= c
  <2>1. (a \div b) * b >= c * b
    BY <1>1, <1>2, SMT
  <2> QED
    BY <1>1, <2>1, SMT
<1> QED
  BY <1>1, <1>2

\* The m-th of c rows of b places each.
LEMMA InRows ==
  ASSUME NEW b \in Nat \ {0}, NEW c \in Nat, NEW q \in 0..(c - 1), NEW r \in 0..(b - 1)
  PROVE  q * b + r \in 0..(c * b - 1)
<1>1. (q + 1) * b <= c * b
  BY SMT
<1>2. q * b + b <= c * b /\ q * b \in Nat /\ c * b \in Nat
  BY <1>1, SMT
<1> QED
  BY <1>2

LEMMA Sizes ==
  /\ Group \in Nat \ {0} /\ TOTAL = TRACKS * Group /\ NumZones \in Nat \ {0}
  /\ TOTAL = TOP * TRACKS + BottomKeys /\ None = NumZones * TOTAL
  /\ Mixed = NumZones /\ BottomKeys = BOTTOM * TRACKS
<1>1. {TOP, BOTTOM, TRACKS, NumZones} \subseteq Nat \ {0}
  BY OutputGeometry
<1>2. \A a, b, c \in Nat \ {0} :
        (a + b) * c = c * (a + b) /\ (a + b) * c = a * c + b * c /\ a + b \in Nat \ {0}
  BY SMT
<1> QED
  BY <1>1, <1>2 DEF Group, TOTAL, BottomKeys, None, Mixed

\* A place in a track group of a zone is a block of that zone.
LEMMA PlaceInZone ==
  ASSUME NEW z \in 0..(NumZones - 1), NEW t \in 0..(TRACKS - 1), NEW p \in 0..(Group - 1)
  PROVE  TopStart(z, t) + p \in Blocks /\ ZoneOf(TopStart(z, t) + p) = z
<1> DEFINE o == t * Group + p
<1>1. o \in 0..(TOTAL - 1)
  BY Sizes, GeometryFacts, InRows
<1>2. TopStart(z, t) + p = z * TOTAL + o
  <2>1. \A a, b, c \in Nat : (a + b) + c = a + (b + c)
    OBVIOUS
  <2>2. z * TOTAL \in Nat /\ t * Group \in Nat /\ p \in Nat
    <3>1. \A a, b \in Nat : a * b \in Nat
      OBVIOUS
    <3>2. z \in Nat /\ t \in Nat /\ TOTAL \in Nat /\ Group \in Nat
      BY Sizes, GeometryFacts
    <3> QED
      BY <3>1, <3>2
  <2> QED
    BY <2>1, <2>2, Zenon DEF TopStart, Group
<1> HIDE DEF o
<1>3. z * TOTAL + o \in 0..(NumZones * TOTAL - 1)
  BY <1>1, Sizes, GeometryFacts, InRows
<1>4. (z * TOTAL + o) \div TOTAL = z
  BY <1>1, Sizes, GeometryFacts, Unique
<1> QED
  BY <1>2, <1>3, <1>4 DEF Blocks, ZoneOf

\* z_map_size stays within a zone: allocations do not run into the next one.
ZonesHold == MaxMapped <= TOTAL

LEMMA AllocatedInZone ==
  ASSUME NEW z \in 0..(NumZones - 1), NEW n \in Nat, n < TOTAL
  PROVE  Allocated(z, n) \in Blocks /\ ZoneOf(Allocated(z, n)) = z
<1>1. CASE n < BottomKeys
  <2>1. n \div BOTTOM < TRACKS
    BY <1>1, Sizes, GeometryFacts, Quotient
  <2>2. n \div BOTTOM \in 0..(TRACKS - 1) /\ TOP + (n % BOTTOM) \in 0..(Group - 1)
    <3>1. n \div BOTTOM \in Nat /\ n % BOTTOM \in 0..(BOTTOM - 1)
      BY GeometryFacts, DivMod
    <3> HIDE DEF Group
    <3>2. TOP + BOTTOM = Group
      BY DEF Group
    <3> QED
      BY <2>1, <3>1, <3>2, GeometryFacts
  <2>3. Allocated(z, n) = TopStart(z, n \div BOTTOM) + (TOP + (n % BOTTOM))
    <3>1. TopStart(z, n \div BOTTOM) \in Nat /\ TOP \in Nat /\ n % BOTTOM \in Nat
      <4>1. z \in Nat /\ n \div BOTTOM \in Nat
        BY <2>2, Sizes
      <4>2. n % BOTTOM \in Nat
        BY GeometryFacts, DivNatural
      <4> QED
        BY <4>1, <4>2, TopStartNatural, GeometryFacts
    <3>2. \A a, b, c \in Nat : (a + b) + c = a + (b + c)
      OBVIOUS
    <3>3. Allocated(z, n) = (TopStart(z, n \div BOTTOM) + TOP) + (n % BOTTOM)
      BY <1>1, Zenon DEF Allocated
    <3> QED
      BY <3>1, <3>2, <3>3, Zenon
  <2> QED
    BY <2>2, <2>3, PlaceInZone
<1>2. CASE ~ (n < BottomKeys)
  <2> DEFINE top == n - BottomKeys
  <2>1. top \in Nat /\ top < TOP * TRACKS
    <3>1. TOP * TRACKS \in Nat
      BY GeometryFacts
    <3> QED
      BY <1>2, <3>1, Sizes, GeometryFacts
  <2>2. Allocated(z, n) = TopStart(z, top \div TOP) + (top % TOP)
    BY <1>2, Zenon DEF Allocated
  <2> HIDE DEF top
  <2>3. top \div TOP < TRACKS
    BY <2>1, GeometryFacts, Quotient
  <2>4. top \div TOP \in 0..(TRACKS - 1) /\ top % TOP \in 0..(Group - 1)
    <3>1. top \div TOP \in Nat /\ top % TOP \in 0..(TOP - 1)
      BY <2>1, GeometryFacts, DivMod
    <3> QED
      BY <2>3, <3>1, GeometryFacts DEF Group
  <2> QED
    BY <2>2, <2>4, PlaceInZone
<1> QED
  BY <1>1, <1>2

LEMMA ZoneOfKey == \A k \in HostKeys : ZoneOf(k) \in 0..(NumZones - 1) /\ Offset(k) \in Nat
<1> SUFFICES ASSUME NEW k \in HostKeys PROVE ZoneOf(k) \in 0..(NumZones - 1) /\ Offset(k) \in Nat
  OBVIOUS
<1>1. k \in Nat /\ k < TOTAL * NumZones
  <2>1. \A a, b \in Nat : a * b = b * a /\ a * b \in Nat
    OBVIOUS
  <2>2. k \in 0..(NumZones * TOTAL - 1)
    BY OutputGeometry DEF Blocks
  <2>3. \A n \in Nat : k \in 0..(n - 1) => k \in Nat /\ k < n
    OBVIOUS
  <2> QED
    BY <2>1, <2>2, <2>3, Sizes, GeometryFacts
<1>2. k \div TOTAL < NumZones
  BY <1>1, Sizes, GeometryFacts, Quotient
<1>3. k \div TOTAL \in Nat /\ k % TOTAL \in Nat
  BY <1>1, GeometryFacts, DivNatural
<1> QED
  BY <1>2, <1>3, Sizes DEF ZoneOf, Offset

LEMMA NoneIsNoBlock == Blocks \subseteq Nat /\ None \notin Blocks
  BY GeometryFacts DEF Blocks, None

-----------------------------------------------------------------------------
(* The types.                                                              *)

ListRecords == UnsortedRecords \cup UNION {sorted[l] : l \in Levels}
Tables == UNION {s.table : s \in segments}

Placed(s) ==
  /\ s.zone \in 0..NumZones /\ s.first \in Blocks \cup {None} /\ OutputRange(s) \subseteq Blocks
  /\ \A q, r \in s.table : q.key = r.key => q = r

RecordsOK ==
  \A r \in Searchable \cup tree :
    r \in Records /\ r.ts \in 1..timestamp /\ (r.live => r.pba \in Blocks)

\* Records of one timestamp are of one request; in the lists they are one record.
Stamps ==
  /\ \A q, r \in Searchable \cup tree : q.ts = r.ts => q.key = r.key /\ q.live = r.live
  /\ \A q, r \in ListRecords : q.ts = r.ts => q = r

SegmentsOK ==
  /\ \A s \in segments : s.id \in 0..(nextId - 1) /\ Placed(s)
  /\ \A s, t \in segments : s.id = t.id => s = t
FlagsPlaced ==
  \A s \in segments, k \in HostKeys :
    <<s.id, k>> \in copied \cup committed => s.first # None /\ k \in LiveKeys(s)

HostTypes ==
  /\ home \in [HostKeys -> Blocks \cup {None}]
  /\ \A k \in HostKeys : home[k] # None => ZoneOf(home[k]) = ZoneOf(k)
  /\ mapSize \in [0..(NumZones - 1) -> 0..MaxMapped]
  /\ timestamp \in 0..MaxTimestamp /\ last \in [HostKeys -> 0..timestamp]
DiskTypes ==
  /\ media \in [Blocks -> 0..MaxTimestamp]
  /\ bios \subseteq [key : HostKeys, ts : 1..MaxTimestamp, pba : Blocks]
  /\ contested \subseteq 1..MaxTimestamp
OutputTypes ==
  /\ copied \cup committed \subseteq (0..(nextId - 1)) \X HostKeys
  /\ op \in {"idle", "copy", "commit"} /\ failures \in 0..MaxFailures
  /\ nextId \in 0..MaxSegments

TInv ==
  /\ OInv /\ HostTypes /\ DiskTypes /\ OutputTypes
  /\ RecordsOK /\ Stamps /\ SegmentsOK /\ FlagsPlaced

LEMMA Limits ==
  /\ MaxFailures \in Nat /\ MaxMapped \in Nat /\ MaxTimestamp \in Nat /\ MaxSegments \in Nat
  /\ Modes \subseteq {2, 3} /\ CopyBusy \in BOOLEAN
BY OutputBounds

LEMMA Everywhere == Searchable = ListRecords \cup Tables
BY DEF Searchable, ListRecords, Tables

LEMMA LastBlock == NumZones * TOTAL - 1 \in Nat
<1>1. \A a, b \in Nat \ {0} : a * b - 1 \in Nat
  BY SMT
<1> QED
  BY <1>1, Sizes, GeometryFacts

LEMMA MinLeast ==
  ASSUME NEW S \in SUBSET Nat, S # {}
  PROVE  Min(S) \in S /\ \A y \in S : Min(S) <= y
<1>1. PICK x \in S : \A y \in S : x <= y
  BY LeastNatural
<1> QED
  BY <1>1 DEF Min

\* The top tracks beside the keys of a table are blocks of the disk.
LEMMA PlacementInside ==
  ASSUME NEW n, NEW table, Held(table, n), table # {}, NEW zone \in 0..NumZones
  PROVE  Placement(zone, table) \subseteq Blocks
<1> DEFINE offsets == {Offset(k) : k \in KeysOf(table)}
           lastKey == Min({Max(offsets), BottomKeys - 1})
           start == TopStart(zone, Min(offsets) \div BOTTOM)
           end == TopStart(zone, lastKey \div BOTTOM)
<1>1. offsets \in SUBSET (0..(TOTAL - 1)) /\ offsets # {}
  <2>1. KeysOf(table) \subseteq Nat /\ KeysOf(table) # {}
    BY KeysAreNatural DEF Held, KeysOf
  <2>2. \A k \in Nat : Offset(k) \in 0..(TOTAL - 1)
    BY GeometryFacts, DivMod DEF Offset
  <2> QED
    BY <2>1, <2>2
<1>2. CASE zone = Mixed \/ Min(offsets) >= BottomKeys
  BY <1>2, Zenon DEF Placement
<1>3. CASE zone # Mixed /\ ~ (Min(offsets) >= BottomKeys)
  <2>1. Placement(zone, table) = start..(end + TOP - 1)
    BY <1>3, Zenon DEF Placement
  <2> HIDE DEF offsets
  <2>2. Max(offsets) \in Nat
    <3>1. TOTAL - 1 \in Nat
      BY GeometryFacts
    <3>2. PICK x \in offsets : \A y \in offsets : y <= x
      BY <1>1, <3>1, GreatestBounded
    <3>3. \A y \in offsets : x >= y
      BY <1>1, <3>2
    <3>4. Max(offsets) \in offsets
      BY <3>3, Zenon DEF Max
    <3>5. \A o \in 0..(TOTAL - 1) : o \in Nat
      BY <3>1
    <3> QED
      BY <1>1, <3>4, <3>5, Zenon
  <2>3. lastKey \in Nat /\ lastKey <= BottomKeys - 1
    <3>1. {Max(offsets), BottomKeys - 1} \in SUBSET Nat
      BY <2>2, GeometryFacts
    <3> QED
      BY <3>1, MinLeast
  <2> HIDE DEF lastKey
  <2>4. zone \in 0..(NumZones - 1)
    BY <1>3, Sizes
  <2>5. lastKey \div BOTTOM \in 0..(TRACKS - 1)
    <3>1. lastKey < BOTTOM * TRACKS
      BY <2>3, Sizes, GeometryFacts
    <3>2. lastKey \div BOTTOM < TRACKS /\ lastKey \div BOTTOM \in Nat
      BY <2>3, <3>1, GeometryFacts, Quotient, DivNatural
    <3> QED
      BY <3>2, GeometryFacts
  <2>6. end + (TOP - 1) \in Blocks
    <3>1. TOP - 1 \in 0..(Group - 1)
      BY GeometryFacts DEF Group
    <3> QED
      BY <2>4, <2>5, <3>1, PlaceInZone
  <2>7. start \in Nat
    <3>1. offsets \in SUBSET Nat
      BY <1>1
    <3>2. Min(offsets) \in Nat
      BY <1>1, <3>1, MinNatural
    <3>3. Min(offsets) \div BOTTOM \in Nat /\ zone \in Nat
      BY <2>4, <3>2, GeometryFacts, DivNatural, Sizes
    <3> QED
      BY <3>3, TopStartNatural
  <2>8. end \in Nat
    <3>1. zone \in Nat /\ lastKey \div BOTTOM \in Nat
      BY <2>4, <2>5, Sizes, GeometryFacts
    <3> QED
      BY <3>1, TopStartNatural
  <2> HIDE DEF start, end
  <2>9. \A c \in Nat : end + (TOP - 1) \in 0..c => start..(end + TOP - 1) \subseteq 0..c
    BY <2>7, <2>8, GeometryFacts
  <2>10. NumZones * TOTAL - 1 \in Nat
    BY LastBlock
  <2> QED
    BY <2>1, <2>6, <2>9, <2>10, Zenon DEF Blocks
<1> QED
  BY <1>2, <1>3

LEMMA NewPlaced ==
  ASSUME NEW n, NEW table, Held(table, n), table # {}, NEW zone \in 0..NumZones,
         \A q, r \in table : q.key = r.key => q = r
  PROVE  Placed(Segment(zone, table))
<1> DEFINE s == Segment(zone, table)
           m == Cardinality(table)
           target == Placement(zone, table)
<1> SUFFICES Placed(s)
  OBVIOUS
<1>1. s.table = table /\ s.zone = zone /\ s.first = FirstFit(target, m)
  BY DEF Segment
<1>2. target \subseteq Blocks
  BY PlacementInside
<1> HIDE DEF s, target
<1>3. m \in Nat
  BY FS_CardinalityType DEF Held
<1>4. CASE s.first = None
  BY <1>1, <1>4 DEF Placed, OutputRange
<1>5. CASE s.first # None
  <2>1. Starts(target, m) # {} /\ s.first = Min(Starts(target, m))
    BY <1>1, <1>5, Zenon DEF FirstFit
  <2>2. Starts(target, m) \in SUBSET Nat
    BY <1>2, NoneIsNoBlock DEF Starts
  <2>3. s.first \in Starts(target, m)
    BY <2>1, <2>2, MinNatural
  <2>4. s.first \in Blocks /\ s.first + m - 1 \in Blocks
    BY <1>2, <2>3 DEF Starts
  <2>5. \A c \in Nat : \A b, e \in 0..c : b..e \subseteq 0..c
    OBVIOUS
  <2>6. NumZones * TOTAL - 1 \in Nat
    BY LastBlock
  <2>7. s.first..(s.first + m - 1) \subseteq Blocks
    BY <2>4, <2>5, <2>6 DEF Blocks
  <2> QED
    BY <1>1, <1>5, <2>4, <2>7 DEF Placed, OutputRange
<1> QED
  BY <1>4, <1>5

LEMMA BuilderZoneInside ==
  ASSUME NEW n, NEW table, Held(table, n)
  PROVE  BuilderZone(table) \in 0..NumZones
<1> DEFINE zones == {ZoneOf(k) : k \in KeysOf(table)}
<1>1. zones \in SUBSET (0..(NumZones - 1))
  <2>1. KeysOf(table) \subseteq HostKeys
    BY DEF Held, KeysOf
  <2> QED
    BY <2>1, ZoneOfKey
<1> HIDE DEF zones
<1>2. CASE Cardinality(zones) = 1
  <2>1. zones # {}
    BY <1>2, FS_EmptySet
  <2>2. (CHOOSE z \in zones : TRUE) \in zones
    BY <2>1
  <2>3. BuilderZone(table) = CHOOSE z \in zones : TRUE
    BY <1>2 DEF BuilderZone, zones
  <2>4. BuilderZone(table) \in 0..(NumZones - 1)
    BY <1>1, <2>2, <2>3, Zenon
  <2> QED
    BY <2>4, Sizes
<1>3. CASE Cardinality(zones) # 1
  BY <1>3, Sizes DEF BuilderZone, zones
<1> QED
  BY <1>2, <1>3

-----------------------------------------------------------------------------
(* Records and entries.                                                    *)

LEMMA ListsSearched ==
  /\ ListRecords \subseteq Searchable /\ Tables \subseteq Searchable
  /\ \A s \in segments : s.table \subseteq Tables
  /\ \A l \in Levels : unsorted[l] \subseteq ListRecords /\ sorted[l] \subseteq ListRecords
<1>1. \A s \in segments : s.table \subseteq Tables
  BY DEF Tables
<1>2. \A l \in Levels : unsorted[l] \subseteq ListRecords /\ sorted[l] \subseteq ListRecords
  BY DEF ListRecords, UnsortedRecords
<1> QED
  BY <1>1, <1>2, Everywhere

LEMMA TypesFollow == TInv => TypeOK
<1> SUFFICES ASSUME TInv PROVE TypeOK
  OBVIOUS
<1>1. \A r \in Searchable \cup tree : r \in Records
  BY DEF TInv, RecordsOK
<1>2. unsorted \in [Levels -> SUBSET Records] /\ sorted \in [Levels -> SUBSET Records]
  <2>1. \A l \in Levels : unsorted[l] \subseteq Records /\ sorted[l] \subseteq Records
    BY <1>1, ListsSearched
  <2>2. unsorted = [l \in Levels |-> unsorted[l]] /\ sorted = [l \in Levels |-> sorted[l]]
    BY DEF TInv, OInv, ListsOK
  <2> QED
    BY <2>1, <2>2
<1>3. \A s \in segments : s.id < nextId /\ s.table \subseteq Records /\ s.first \in Blocks \cup {None}
  <2> SUFFICES ASSUME NEW s \in segments
               PROVE  s.id < nextId /\ s.table \subseteq Records /\ s.first \in Blocks \cup {None}
    OBVIOUS
  <2>1. s.id \in 0..(nextId - 1) /\ nextId \in Nat /\ Placed(s)
    BY Limits DEF TInv, SegmentsOK, OutputTypes
  <2>2. s.table \subseteq Records
    BY <1>1, ListsSearched
  <2> QED
    BY <2>1, <2>2 DEF Placed
<1>4. last \in [HostKeys -> 0..MaxTimestamp]
  <2>1. \A i \in 0..timestamp : i \in 0..MaxTimestamp
    BY Limits DEF TInv, HostTypes
  <2> QED
    BY <2>1 DEF TInv, HostTypes
<1> QED
  BY <1>1, <1>2, <1>3, <1>4 DEF TInv, HostTypes, DiskTypes, OutputTypes, TypeOK

\* The slots of the live entries of a placed segment.
LEMMA SlotsInside ==
  ASSUME TInv, NEW s \in segments, s.first # None
  PROVE  /\ \A j \in LiveKeys(s) : Slot(s, j) \in OutputRange(s) /\ Slot(s, j) \in Blocks
         /\ \A j, k \in LiveKeys(s) : j # k => Slot(s, j) # Slot(s, k)
<1>1. Held(s.table, timestamp) /\ s.first \in Nat /\ OutputRange(s) \subseteq Blocks
  BY DEF TInv, OInv, SegmentOK, SegmentsOK, Placed
<1> QED
  BY <1>1, SlotsFit

LEMMA TableRecord ==
  ASSUME TInv, NEW s \in segments, NEW r \in s.table
  PROVE  /\ r \in Records /\ r \in Searchable /\ r.ts \in 1..timestamp /\ r.ts \in Nat
         /\ r.key \in HostKeys /\ r.live \in BOOLEAN
         /\ r.pba \in Blocks \cup {None} /\ (r.live => r.pba \in Blocks)
         /\ r.live <=> r.key \in LiveKeys(s)
         /\ \A q \in s.table : q.key = r.key => q = r
<1>1. r \in Searchable
  BY ListsSearched
<1>2. r \in Records /\ r.ts \in 1..timestamp /\ (r.live => r.pba \in Blocks)
  BY <1>1 DEF TInv, RecordsOK
<1>3. \A q \in s.table : q.key = r.key => q = r
  BY DEF TInv, SegmentsOK, Placed
<1>4. r.live <=> r.key \in LiveKeys(s)
  BY <1>3 DEF LiveKeys
<1> QED
  BY <1>1, <1>2, <1>3, <1>4 DEF Records

\* An entry is its record, at its slot once it is committed.
Entry(s, r) == [r EXCEPT !.pba = EntryPba(s, r)]

LEMMA EntryFacts ==
  ASSUME TInv, NEW s \in segments, NEW r \in s.table
  PROVE  /\ Entry(s, r) = [key |-> r.key, ts |-> r.ts, live |-> r.live, pba |-> EntryPba(s, r)]
         /\ Entry(s, r) \in Records /\ Entry(s, r) \in Entries(s)
         /\ r.live => EntryPba(s, r) \in Blocks
         /\ <<s.id, r.key>> \in committed => r.live /\ s.first # None /\ EntryPba(s, r) = Slot(s, r.key)
         /\ <<s.id, r.key>> \notin committed => EntryPba(s, r) = r.pba
<1>1. /\ r.key \in HostKeys /\ r.ts \in Nat /\ r.live \in BOOLEAN
      /\ r.pba \in Blocks \cup {None} /\ (r.live => r.pba \in Blocks) /\ r \in Records
  BY TableRecord
<1>2. r = [key |-> r.key, ts |-> r.ts, live |-> r.live, pba |-> r.pba]
  BY <1>1 DEF Records
<1>3. Entry(s, r) = [key |-> r.key, ts |-> r.ts, live |-> r.live, pba |-> EntryPba(s, r)]
  BY <1>2 DEF Entry
<1>4. CASE <<s.id, r.key>> \in committed
  <2>1. s.first # None /\ r.key \in LiveKeys(s)
    BY <1>1, <1>4 DEF TInv, FlagsPlaced
  <2>2. EntryPba(s, r) = Slot(s, r.key) /\ Slot(s, r.key) \in Blocks /\ r.live
    BY <1>4, <2>1, SlotsInside, TableRecord DEF EntryPba
  <2> QED
    BY <1>1, <1>3, <1>4, <2>1, <2>2 DEF Records, Entries, Entry
<1>5. CASE <<s.id, r.key>> \notin committed
  BY <1>1, <1>3, <1>5 DEF EntryPba, Records, Entries, Entry
<1> QED
  BY <1>4, <1>5

LEMMA EntryOf ==
  ASSUME TInv, NEW s \in segments, NEW e \in Entries(s)
  PROVE  \E r \in s.table :
           /\ e = Entry(s, r) /\ e.key = r.key /\ e.ts = r.ts /\ e.live = r.live
           /\ e.pba = EntryPba(s, r) /\ e \in Records
<1>1. PICK r \in s.table : e = Entry(s, r)
  BY DEF Entries, Entry
<1>2. /\ Entry(s, r) = [key |-> r.key, ts |-> r.ts, live |-> r.live, pba |-> EntryPba(s, r)]
      /\ Entry(s, r) \in Records
  BY EntryFacts
<1> QED
  BY <1>1, <1>2

\* What is read or placed over is typed like the records it comes from.
LEMMA CopyTyped ==
  ASSUME TInv, NEW e, e \in Searchable \/ \E s \in segments : e \in Entries(s)
  PROVE  e \in Records /\ e.ts \in 1..timestamp /\ (e.live => e.pba \in Blocks)
<1>1. CASE e \in Searchable
  BY <1>1 DEF TInv, RecordsOK
<1>2. CASE \E s \in segments : e \in Entries(s)
  <2>1. PICK s \in segments : e \in Entries(s)
    BY <1>2
  <2>2. PICK r \in s.table : /\ e.ts = r.ts /\ e.live = r.live /\ e.pba = EntryPba(s, r)
                             /\ e \in Records
    BY <2>1, EntryOf
  <2>3. r.ts \in 1..timestamp /\ (r.live => EntryPba(s, r) \in Blocks)
    BY EntryFacts, TableRecord
  <2> QED
    BY <2>2, <2>3
<1> QED
  BY <1>1, <1>2

LEMMA InUseStamps ==
  ASSUME TInv, NEW blocks
  PROVE  {r.ts : r \in InUse(blocks)} \subseteq 1..timestamp
<1>1. \A r \in InUse(blocks) : r.ts \in 1..timestamp
  <2> SUFFICES ASSUME NEW r \in InUse(blocks) PROVE r.ts \in 1..timestamp
    OBVIOUS
  <2>1. r \in Searchable \/ \E s \in segments : r \in Entries(s)
    BY DEF InUse
  <2> QED
    BY <2>1, CopyTyped
<1> QED
  BY <1>1

LEMMA TypesInit == Init => TInv
<1> SUFFICES ASSUME Init PROVE TInv
  OBVIOUS
<1>1. OInv
  BY InitInv
<1>2. Searchable = {} /\ tree = {} /\ ListRecords = {} /\ segments = {}
  <2>1. \A l \in Levels : unsorted[l] = {} /\ sorted[l] = {}
    BY DEF Init
  <2>2. UnsortedRecords = {} /\ ListRecords = {} /\ Tables = {}
    BY <2>1 DEF UnsortedRecords, ListRecords, Tables, Init
  <2> QED
    BY <2>2, Everywhere DEF Init
<1>3. HostTypes
  BY Limits, Sizes, NoneIsNoBlock DEF Init, HostTypes
<1>4. DiskTypes /\ OutputTypes
  BY Limits DEF Init, DiskTypes, OutputTypes
<1> QED
  BY <1>1, <1>2, <1>3, <1>4 DEF TInv, RecordsOK, Stamps, SegmentsOK, FlagsPlaced

-----------------------------------------------------------------------------
(* A host request adds a record to a list.                                 *)

\* What HostWrite and HostDelete of k do to the index.
Joins(r, l) ==
  /\ timestamp < MaxTimestamp /\ timestamp' = timestamp + 1
  /\ unsorted' = [unsorted EXCEPT ![l] = @ \cup {r}]
  /\ tree' \in TreesWith({r})
  /\ UNCHANGED <<sorted, segments, nextId, output>>

LEMMA TreeWithOne ==
  ASSUME NEW r, NEW t \in TreesWith({r})
  PROVE  t \subseteq tree \cup {r} /\ \A n \in t : n.key = r.key => n = r
<1>1. KeysOf({r}) = {r.key}
  BY DEF KeysOf
<1>2. t \in SUBSET ({n \in tree : n.key \notin {r.key}} \cup {r})
  BY <1>1, Zenon DEF TreesWith
<1> QED
  BY <1>2

LEMMA JoinedSets ==
  ASSUME TInv, NEW l \in Levels, NEW r, Joins(r, l)
  PROVE  /\ ListRecords' = ListRecords \cup {r} /\ Tables' = Tables
         /\ UnsortedRecords' = UnsortedRecords \cup {r}
         /\ Searchable' = Searchable \cup {r}
         /\ \A s : Entries(s)' = Entries(s)
<1>1. unsorted = [m \in Levels |-> unsorted[m]]
  BY DEF TInv, OInv, ListsOK
<1>2. \A m \in Levels : unsorted'[m] = IF m = l THEN unsorted[l] \cup {r} ELSE unsorted[m]
  BY <1>1, Zenon DEF Joins
<1>3. UnsortedRecords' = UnsortedRecords \cup {r}
  BY <1>2 DEF UnsortedRecords
<1>4. sorted' = sorted /\ segments' = segments /\ committed' = committed
  BY DEF Joins, output
<1>5. Tables' = Tables /\ UNION {sorted'[m] : m \in Levels} = UNION {sorted[m] : m \in Levels}
  BY <1>4 DEF Tables
<1>6. ListRecords' = ListRecords \cup {r}
  BY <1>3, <1>5 DEF ListRecords
<1>7. Searchable' = Searchable \cup {r}
  <2>1. Searchable' = ListRecords' \cup Tables'
    BY <1>3, <1>5, Zenon DEF Searchable, ListRecords, Tables
  <2> QED
    BY <1>5, <1>6, <2>1, Everywhere
<1>8. \A s : Entries(s)' = Entries(s)
  BY <1>4 DEF Entries, EntryPba
<1> QED
  BY <1>3, <1>5, <1>6, <1>7, <1>8

LEMMA JoinTypes ==
  ASSUME TInv, NEW l \in Levels, NEW r \in Records, Joins(r, l), r.ts = timestamp + 1,
         r.live => r.pba \in Blocks, HostTypes', DiskTypes'
  PROVE  TInv'
<1>1. timestamp \in Nat /\ timestamp' = timestamp + 1 /\ \A i \in 1..timestamp : i # timestamp + 1
  BY Limits DEF TInv, HostTypes, Joins
<1>2. OInv'
  <2>1. IsRecord(r) /\ r.key \in HostKeys
    BY DEF IsRecord, Records
  <2> QED
    BY <2>1, RecordAdded DEF TInv, Joins
<1>3. tree' \subseteq tree \cup {r}
  BY TreeWithOne DEF Joins
<1>4. \A q \in Searchable \cup tree : q.ts \in 1..timestamp
  BY DEF TInv, RecordsOK
<1>5. RecordsOK'
  <2>1. \A i \in 1..timestamp : i \in 1..timestamp'
    BY <1>1
  <2>2. r.ts \in 1..timestamp'
    BY <1>1
  <2> QED
    BY <1>3, <2>1, <2>2, JoinedSets DEF TInv, RecordsOK
<1>6. Stamps'
  <2>1. \A q \in Searchable \cup tree : q.ts # r.ts
    BY <1>1, <1>4
  <2>2. ListRecords \subseteq Searchable
    BY ListsSearched
  <2> QED
    BY <1>3, <2>1, <2>2, JoinedSets DEF TInv, Stamps
<1>7. SegmentsOK' /\ FlagsPlaced' /\ OutputTypes'
  BY DEF TInv, Joins, SegmentsOK, FlagsPlaced, OutputTypes, output, Placed
<1> QED
  BY <1>2, <1>5, <1>6, <1>7 DEF TInv

LEMMA WriteJoins ==
  ASSUME TInv, ZonesHold, NEW k \in HostKeys, NEW l \in Levels, HostWrite(k, l)
  PROVE  \E target \in Blocks :
           LET r == [key |-> k, ts |-> timestamp + 1, live |-> TRUE, pba |-> target]
           IN /\ r \in Records /\ Joins(r, l) /\ op = "idle" /\ ~ InFlight(k)
              /\ HostTypes' /\ DiskTypes' /\ media' = media
              /\ bios' = bios \cup {[key |-> k, ts |-> timestamp + 1, pba |-> target]}
              /\ last' = [last EXCEPT ![k] = timestamp + 1]
              /\ home'[k] # None /\ \A j \in HostKeys \ {k} : home'[j] = home[j]
              /\ contested' = contested \cup
                   IF Rivals(k, target) = {} THEN {}
                   ELSE {timestamp + 1} \cup {q.ts : q \in Rivals(k, target)}
<1> DEFINE z == ZoneOf(k)
           target == IF home[k] = None THEN Allocated(z, mapSize[z]) ELSE home[k]
           r == [key |-> k, ts |-> timestamp + 1, live |-> TRUE, pba |-> target]
<1>1. /\ op = "idle" /\ timestamp < MaxTimestamp /\ ~ InFlight(k)
      /\ home[k] = None => mapSize[z] < MaxMapped
      /\ home' = [home EXCEPT ![k] = target]
      /\ mapSize' = IF home[k] = None THEN [mapSize EXCEPT ![z] = @ + 1] ELSE mapSize
      /\ timestamp' = timestamp + 1
      /\ unsorted' = [unsorted EXCEPT ![l] = @ \cup {r}]
      /\ tree' \in TreesWith({r})
      /\ bios' = bios \cup {[key |-> k, ts |-> timestamp + 1, pba |-> target]}
      /\ last' = [last EXCEPT ![k] = timestamp + 1]
      /\ contested' = contested \cup
           IF Rivals(k, target) = {} THEN {}
           ELSE {timestamp + 1} \cup {q.ts : q \in Rivals(k, target)}
      /\ UNCHANGED <<sorted, segments, nextId, output, media>>
  BY Zenon DEF HostWrite
<1>2. /\ home \in [HostKeys -> Blocks \cup {None}] /\ mapSize \in [0..(NumZones - 1) -> 0..MaxMapped]
      /\ \A j \in HostKeys : home[j] # None => ZoneOf(home[j]) = ZoneOf(j)
      /\ timestamp \in 0..MaxTimestamp /\ last \in [HostKeys -> 0..timestamp]
      /\ media \in [Blocks -> 0..MaxTimestamp]
      /\ bios \subseteq [key : HostKeys, ts : 1..MaxTimestamp, pba : Blocks]
      /\ contested \subseteq 1..MaxTimestamp
  BY DEF TInv, HostTypes, DiskTypes
<1>3. z \in 0..(NumZones - 1)
  BY ZoneOfKey
<1>4. target \in Blocks /\ ZoneOf(target) = z
  <2>1. CASE home[k] = None
    <3>1. mapSize[z] \in Nat /\ mapSize[z] < TOTAL
      <4>1. mapSize[z] \in 0..MaxMapped /\ mapSize[z] < MaxMapped
        BY <1>1, <1>2, <1>3, <2>1
      <4> HIDE DEF z
      <4> QED
        BY <4>1, Limits, GeometryFacts DEF ZonesHold
    <3> HIDE DEF z
    <3> QED
      BY <1>3, <2>1, <3>1, AllocatedInZone
  <2>2. CASE home[k] # None
    BY <1>2, <2>2
  <2> QED
    BY <2>1, <2>2
<1> HIDE DEF z, target
<1>5. timestamp + 1 \in 1..MaxTimestamp /\ timestamp \in Nat
  BY <1>1, <1>2, Limits
<1>6. r \in Records
  BY <1>4, <1>5 DEF Records
<1>7. HostTypes'
  <2>1. home' \in [HostKeys -> Blocks \cup {None}]
    BY <1>1, <1>2, <1>4
  <2>2. \A j \in HostKeys : home'[j] # None => ZoneOf(home'[j]) = ZoneOf(j)
    BY <1>1, <1>2, <1>4 DEF z
  <2>3. mapSize' \in [0..(NumZones - 1) -> 0..MaxMapped]
    <3>1. CASE home[k] = None
      <4>1. mapSize[z] + 1 \in 0..MaxMapped
        BY <1>1, <1>2, <1>3, <3>1, Limits
      <4> QED
        BY <1>1, <1>2, <3>1, <4>1
    <3>2. CASE home[k] # None
      BY <1>1, <1>2, <3>2
    <3> QED
      BY <3>1, <3>2
  <2>4. timestamp' \in 0..MaxTimestamp /\ last' \in [HostKeys -> 0..timestamp']
    <3>1. \A i \in 0..timestamp : i \in 0..(timestamp + 1)
      BY <1>5
    <3>2. timestamp + 1 \in 0..(timestamp + 1) /\ timestamp + 1 \in 0..MaxTimestamp
      BY <1>5
    <3>3. last \in [HostKeys -> 0..(timestamp + 1)]
      BY <1>2, <3>1
    <3> QED
      BY <1>1, <3>2, <3>3
  <2> QED
    BY <2>1, <2>2, <2>3, <2>4 DEF HostTypes
<1>8. \A q \in Rivals(k, target) : q.ts \in 1..MaxTimestamp
  <2> SUFFICES ASSUME NEW q \in Rivals(k, target) PROVE q.ts \in 1..MaxTimestamp
    OBVIOUS
  <2>1. q \in InUse({target}) \/ \E s \in segments : q \in s.table
    BY DEF Rivals
  <2>2. q \in Searchable \/ \E s \in segments : q \in Entries(s)
    BY <2>1, TableRecord DEF InUse
  <2>3. q.ts \in 1..timestamp
    BY <2>2, CopyTyped
  <2> QED
    BY <1>2, <2>3, Limits
<1>9. DiskTypes'
  <2>1. contested' \subseteq 1..MaxTimestamp
    BY <1>1, <1>2, <1>5, <1>8
  <2>2. bios' \subseteq [key : HostKeys, ts : 1..MaxTimestamp, pba : Blocks]
    BY <1>1, <1>2, <1>4, <1>5
  <2> QED
    BY <1>1, <1>2, <2>1, <2>2 DEF DiskTypes
<1>10. home'[k] # None /\ \A j \in HostKeys \ {k} : home'[j] = home[j]
  BY <1>1, <1>2, <1>4, NoneIsNoBlock
<1>11. Joins(r, l)
  BY <1>1, Zenon DEF Joins
<1> QED
  BY <1>1, <1>4, <1>6, <1>7, <1>9, <1>10, <1>11

LEMMA DeleteJoins ==
  ASSUME TInv, NEW k \in HostKeys, NEW l \in Levels, HostDelete(k, l)
  PROVE  LET r == [key |-> k, ts |-> timestamp + 1, live |-> FALSE, pba |-> None]
         IN /\ r \in Records /\ Joins(r, l) /\ op = "idle" /\ ~ InFlight(k)
            /\ HostTypes' /\ DiskTypes' /\ UNCHANGED <<media, bios, contested>>
            /\ last' = [last EXCEPT ![k] = 0]
            /\ \A j \in HostKeys \ {k} : home'[j] = home[j]
<1> DEFINE r == [key |-> k, ts |-> timestamp + 1, live |-> FALSE, pba |-> None]
<1>1. /\ op = "idle" /\ timestamp < MaxTimestamp /\ ~ InFlight(k)
      /\ home' = [home EXCEPT ![k] = None]
      /\ timestamp' = timestamp + 1
      /\ unsorted' = [unsorted EXCEPT ![l] = @ \cup {r}]
      /\ tree' \in TreesWith({r})
      /\ last' = [last EXCEPT ![k] = 0]
      /\ UNCHANGED <<mapSize, sorted, segments, nextId, output, media, bios, contested>>
  BY Zenon DEF HostDelete, disk
<1>2. /\ home \in [HostKeys -> Blocks \cup {None}]
      /\ \A j \in HostKeys : home[j] # None => ZoneOf(home[j]) = ZoneOf(j)
      /\ mapSize \in [0..(NumZones - 1) -> 0..MaxMapped]
      /\ timestamp \in 0..MaxTimestamp /\ last \in [HostKeys -> 0..timestamp]
  BY DEF TInv, HostTypes
<1>3. timestamp + 1 \in 1..MaxTimestamp /\ timestamp \in Nat
  BY <1>1, <1>2, Limits
<1>4. r \in Records
  BY <1>3 DEF Records
<1>5. HostTypes'
  <2>1. /\ home' \in [HostKeys -> Blocks \cup {None}]
        /\ \A j \in HostKeys : home'[j] # None => ZoneOf(home'[j]) = ZoneOf(j)
    BY <1>1, <1>2
  <2>2. timestamp' \in 0..MaxTimestamp /\ last' \in [HostKeys -> 0..timestamp']
    <3>1. \A i \in 0..timestamp : i \in 0..(timestamp + 1)
      BY <1>3
    <3>2. 0 \in 0..(timestamp + 1) /\ timestamp + 1 \in 0..MaxTimestamp
      BY <1>3
    <3>3. last \in [HostKeys -> 0..(timestamp + 1)]
      BY <1>2, <3>1
    <3> QED
      BY <1>1, <3>2, <3>3
  <2> QED
    BY <1>1, <1>2, <2>1, <2>2 DEF HostTypes
<1>6. DiskTypes'
  BY <1>1 DEF TInv, DiskTypes
<1>7. \A j \in HostKeys \ {k} : home'[j] = home[j]
  BY <1>1, <1>2
<1>8. Joins(r, l)
  BY <1>1, Zenon DEF Joins
<1> QED
  BY <1>1, <1>4, <1>5, <1>6, <1>7, <1>8

-----------------------------------------------------------------------------
(* The other steps make records out of records.                            *)

Like(e, r) == e.key = r.key /\ e.ts = r.ts /\ e.live = r.live

LEMMA RecordsDescend ==
  ASSUME RecordsOK, Stamps, timestamp' = timestamp, ListRecords' \subseteq ListRecords,
         \A e \in Searchable' \cup tree' :
           /\ e \in Records /\ (e.live => e.pba \in Blocks)
           /\ \E r \in Searchable \cup tree : Like(e, r)
  PROVE  RecordsOK' /\ Stamps'
<1>1. RecordsOK'
  BY DEF RecordsOK, Like
<1>2. \A q, r \in Searchable' \cup tree' : q.ts = r.ts => q.key = r.key /\ q.live = r.live
  BY DEF Stamps, Like
<1> QED
  BY <1>1, <1>2 DEF Stamps

\* A segment with a new id joins some of the others.
LEMMA SegmentJoins ==
  ASSUME SegmentsOK, FlagsPlaced, OutputTypes, NEW old \in SUBSET segments,
         NEW table, Held(table, timestamp), table # {}, NEW zone \in 0..NumZones,
         \A q, r \in table : q.key = r.key => q = r,
         segments' = old \cup {Segment(zone, table)}, nextId' = nextId + 1,
         copied' \cup committed' \subseteq copied \cup committed
  PROVE  SegmentsOK' /\ FlagsPlaced'
<1> DEFINE s == Segment(zone, table)
<1>1. s.id = nextId /\ Placed(s)
  BY NewPlaced DEF Segment
<1>2. segments' = old \cup {s}
  OBVIOUS
<1> HIDE DEF s
<1>3. nextId \in Nat
  BY Limits DEF OutputTypes
<1>4. \A t \in old : t.id \in 0..(nextId - 1) /\ Placed(t)
  BY DEF SegmentsOK
<1>5. \A t \in segments' : t.id \in 0..(nextId' - 1) /\ Placed(t)
  BY <1>1, <1>2, <1>3, <1>4
<1>6. \A t, u \in segments' : t.id = u.id => t = u
  <2>1. \A t \in old : t.id # s.id
    BY <1>1, <1>3, <1>4
  <2> QED
    BY <1>2, <2>1 DEF SegmentsOK
<1>7. SegmentsOK'
  BY <1>5, <1>6 DEF SegmentsOK, Placed
<1>8. FlagsPlaced'
  <2>1. \A k : <<s.id, k>> \notin copied \cup committed
    <3>1. nextId \notin 0..(nextId - 1)
      BY <1>3
    <3> QED
      BY <1>1, <3>1 DEF OutputTypes
  <2> QED
    BY <1>2, <2>1 DEF FlagsPlaced
<1> QED
  BY <1>7, <1>8

\* A compaction: the newest of its input makes a segment and stays in a list.
LEMMA CompactedSets ==
  ASSUME TInv, NEW src \in Levels, NEW dst \in Levels, Compact(src, dst)
  PROVE  \E table :
    /\ table # {} /\ table \subseteq ListRecords /\ Held(table, timestamp)
    /\ \A q, r \in table : q.key = r.key => q = r
    /\ BuilderZone(table) \in 0..NumZones
    /\ Append(Segment(BuilderZone(table), table))
    /\ segments' = segments \cup {Segment(BuilderZone(table), table)}
    /\ ListRecords' \subseteq ListRecords
    /\ \A p \in ListRecords :
         (\A q \in ListRecords : q.key = p.key => q.ts <= p.ts) =>
           p \in ListRecords' /\ (p \in UnsortedRecords => p \in UnsortedRecords' \cup table)
<1> DEFINE input == CompactionInput(src, dst)
           table == Newest(input)
<1>1. /\ input # {} /\ timestamp' = timestamp
      /\ unsorted' = [unsorted EXCEPT ![src] = {}]
      /\ sorted' = [l \in Levels |-> IF l = dst THEN Newest(sorted[l] \cup input)
                                      ELSE IF l = src THEN {} ELSE sorted[l]]
      /\ segments' = segments \cup {Segment(BuilderZone(table), table)}
      /\ Append(Segment(BuilderZone(table), table))
  BY DEF Compact, host
<1>2. /\ timestamp \in Nat /\ unsorted = [l \in Levels |-> unsorted[l]]
      /\ \A l \in Levels : Held(unsorted[l], timestamp) /\ Held(sorted[l], timestamp)
  BY DEF TInv, OInv, ListsOK
<1>3. Held(input, timestamp) /\ input \subseteq ListRecords
  <2>1. Held(input, timestamp)
    BY <1>2, HeldUnion, HeldEmpty DEF CompactionInput
  <2>2. input \subseteq ListRecords
    BY ListsSearched DEF CompactionInput
  <2> QED
    BY <2>1, <2>2
<1>4. /\ unsorted[src] \subseteq input /\ (src # dst => sorted[src] \subseteq input)
      /\ \A m \in Levels : unsorted'[m] = IF m = src THEN {} ELSE unsorted[m]
      /\ \A m \in Levels : sorted'[m] = IF m = dst THEN Newest(sorted[m] \cup input)
                                        ELSE IF m = src THEN {} ELSE sorted[m]
  <2>1. unsorted[src] \subseteq input /\ (src # dst => sorted[src] \subseteq input)
    BY DEF CompactionInput
  <2>2. \A m \in Levels : unsorted'[m] = IF m = src THEN {} ELSE unsorted[m]
    BY <1>1, <1>2, Zenon
  <2> QED
    BY <1>1, <2>1, <2>2, Zenon
<1> HIDE DEF input
<1>5. Held(table, timestamp) /\ table # {}
  BY <1>1, <1>2, <1>3, HeldNewest
<1>6. table \subseteq input /\ \A S : Newest(S) \subseteq S
  BY DEF Newest
<1>7. \A q, r \in table : q.key = r.key => q = r
  <2> SUFFICES ASSUME NEW q \in table, NEW r \in table, q.key = r.key PROVE q = r
    OBVIOUS
  <2>1. q.ts \in Nat /\ r.ts \in Nat
    BY <1>2, <1>5 DEF Held
  <2>2. q.ts <= r.ts /\ r.ts <= q.ts
    BY <1>6 DEF Newest
  <2>3. q.ts = r.ts
    BY <2>1, <2>2
  <2> QED
    BY <1>3, <1>6, <2>3 DEF TInv, Stamps
<1>8. BuilderZone(table) \in 0..NumZones
  BY <1>5, BuilderZoneInside
<1>9. ListRecords' \subseteq ListRecords
  <2>1. \A m \in Levels : unsorted'[m] \subseteq ListRecords
    BY <1>4, ListsSearched
  <2>2. \A m \in Levels : sorted'[m] \subseteq ListRecords
    BY <1>3, <1>4, <1>6, ListsSearched
  <2> QED
    BY <2>1, <2>2 DEF ListRecords, UnsortedRecords
<1>10. ASSUME NEW p \in ListRecords, \A q \in ListRecords : q.key = p.key => q.ts <= p.ts
       PROVE  p \in ListRecords' /\ (p \in UnsortedRecords => p \in UnsortedRecords' \cup table)
  <2>1. \A S \in SUBSET ListRecords : p \in S => p \in Newest(S)
    BY <1>10 DEF Newest
  <2>2. p \in input => p \in sorted'[dst] /\ p \in table
    <3>1. sorted[dst] \cup input \subseteq ListRecords
      BY <1>3, ListsSearched
    <3>2. p \in input => p \in Newest(sorted[dst] \cup input)
      BY <2>1, <3>1
    <3>3. p \in input => p \in Newest(input)
      BY <1>3, <2>1
    <3> QED
      BY <1>4, <3>2, <3>3
  <2>3. ASSUME NEW m \in Levels, p \in unsorted[m]
        PROVE  p \in input \/ p \in unsorted'[m]
    BY <1>4, <2>3
  <2>4. ASSUME NEW m \in Levels, p \in sorted[m]
        PROVE  p \in input \/ p \in sorted'[m]
    <3>1. CASE m = dst
      <4>1. sorted[dst] \cup input \subseteq ListRecords
        BY <1>3, ListsSearched
      <4>2. p \in Newest(sorted[dst] \cup input)
        BY <2>1, <2>4, <3>1, <4>1
      <4> QED
        BY <1>4, <3>1, <4>2
    <3>2. CASE m # dst
      BY <1>4, <2>4, <3>2
    <3> QED
      BY <3>1, <3>2
  <2>5. \A m \in Levels : unsorted'[m] \subseteq UnsortedRecords' /\ sorted'[m] \subseteq ListRecords'
    BY DEF UnsortedRecords, ListRecords
  <2>6. UnsortedRecords' \subseteq ListRecords'
    BY DEF ListRecords
  <2>7. p \in UnsortedRecords => p \in input \cup UnsortedRecords'
    BY <2>3, <2>5 DEF UnsortedRecords
  <2>8. p \in input => p \in ListRecords' /\ p \in table
    BY <2>2, <2>5
  <2>9. p \in ListRecords => p \in input \cup ListRecords'
    BY <2>4, <2>5, <2>6, <2>7 DEF ListRecords
  <2> QED
    BY <2>7, <2>8, <2>9
<1> HIDE DEF table
<1> QED
  BY <1>1, <1>3, <1>5, <1>6, <1>7, <1>8, <1>9, <1>10

LEMMA CompactTypes ==
  ASSUME TInv, NEW src \in Levels, NEW dst \in Levels, Compact(src, dst)
  PROVE  TInv'
<1>1. PICK table :
    /\ table # {} /\ table \subseteq ListRecords /\ Held(table, timestamp)
    /\ \A q, r \in table : q.key = r.key => q = r
    /\ BuilderZone(table) \in 0..NumZones
    /\ Append(Segment(BuilderZone(table), table))
    /\ segments' = segments \cup {Segment(BuilderZone(table), table)}
    /\ ListRecords' \subseteq ListRecords
  BY CompactedSets
<1>2. /\ UNCHANGED <<host, output, disk, tree>> /\ nextId < MaxSegments
  BY DEF Compact
<1>3. OInv'
  BY CompactInv DEF TInv
<1>4. Searchable' \subseteq Searchable
  <2>1. Tables' = Tables \cup table
    BY <1>1 DEF Tables, Segment
  <2>2. Searchable' = ListRecords' \cup Tables'
    BY DEF Searchable, ListRecords, Tables
  <2> QED
    BY <1>1, <2>1, <2>2, Everywhere
<1>5. RecordsOK' /\ Stamps'
  <2>1. timestamp' = timestamp /\ tree' = tree
    BY <1>2 DEF host
  <2>2. \A e \in Searchable' \cup tree' :
          /\ e \in Records /\ (e.live => e.pba \in Blocks)
          /\ \E r \in Searchable \cup tree : Like(e, r)
    BY <1>4, <2>1 DEF TInv, RecordsOK, Like
  <2> QED
    BY <1>1, <2>1, <2>2, RecordsDescend DEF TInv
<1>6. nextId' = nextId + 1 /\ contested' = contested \cup
        {r.ts : r \in InUse(OutputRange(Segment(BuilderZone(table), table)))}
  BY <1>1 DEF Append
<1>7. SegmentsOK' /\ FlagsPlaced'
  BY <1>1, <1>2, <1>6, SegmentJoins DEF TInv, output
<1>8. HostTypes'
  BY <1>2 DEF TInv, HostTypes, host
<1>9. DiskTypes'
  <2>1. {r.ts : r \in InUse(OutputRange(Segment(BuilderZone(table), table)))} \subseteq 1..timestamp
    BY InUseStamps
  <2>2. \A i \in 1..timestamp : i \in 1..MaxTimestamp
    BY Limits DEF TInv, HostTypes
  <2> QED
    BY <1>2, <1>6, <2>1, <2>2 DEF TInv, DiskTypes, disk
<1>10. OutputTypes'
  <2>1. \A i \in 0..(nextId - 1) : i \in 0..((nextId + 1) - 1)
    BY Limits DEF TInv, OutputTypes
  <2>2. nextId + 1 \in 0..MaxSegments
    BY <1>2, Limits DEF TInv, OutputTypes
  <2> QED
    BY <1>2, <1>6, <2>1, <2>2 DEF TInv, OutputTypes, output
<1> QED
  BY <1>3, <1>5, <1>7, <1>8, <1>9, <1>10 DEF TInv

-----------------------------------------------------------------------------
(* Commits.                                                                *)

\* A planned copy is of a live entry of a segment with an output.
LEMMA PlannedEntry ==
  ASSUME TInv, NEW e \in Planned
  PROVE  \E s \in segments : \E r \in s.table :
           /\ e = <<s.id, r.key>> /\ e[1] = s.id /\ e[2] = r.key /\ r.live /\ s.first # None
           /\ SegmentOf(e) = s /\ RecordOf(e) = r
           /\ SlotOf(e) = Slot(s, r.key) /\ SlotOf(e) \in OutputRange(s) /\ SlotOf(e) \in Blocks
           /\ SourceOf(e) = EntryPba(s, r) /\ SourceOf(e) \in Blocks
<1>1. PICK s \in segments : s.first # None /\ e \in {<<s.id, k>> : k \in LiveKeys(s)}
  BY DEF Planned
<1>2. PICK r \in s.table : r.live /\ r.key \in LiveKeys(s) /\ e = <<s.id, r.key>>
  BY <1>1 DEF LiveKeys
<1>3. e[1] = s.id /\ e[2] = r.key /\ e = <<s.id, r.key>>
  BY <1>1, <1>2
<1>4. SegmentOf(e) = s
  <2>1. \A t \in segments : t.id = e[1] <=> t = s
    BY <1>3 DEF TInv, SegmentsOK
  <2> QED
    BY <2>1 DEF SegmentOf
<1>5. RecordOf(e) = r
  <2>1. \A q \in s.table : q.key = e[2] <=> q = r
    BY <1>3, TableRecord
  <2> QED
    BY <1>4, <2>1 DEF RecordOf
<1>6. Slot(s, r.key) \in OutputRange(s) /\ Slot(s, r.key) \in Blocks
  BY <1>1, <1>2, SlotsInside
<1>7. EntryPba(s, r) \in Blocks
  BY <1>2, EntryFacts
<1>8. SlotOf(e) = Slot(s, r.key) /\ SourceOf(e) = EntryPba(s, r)
  BY <1>3, <1>4, <1>5 DEF SlotOf, SourceOf
<1> QED
  BY <1>1, <1>2, <1>3, <1>4, <1>5, <1>6, <1>7, <1>8

LEMMA PlannedPlaced ==
  ASSUME TInv
  PROVE  /\ Planned \subseteq (0..(nextId - 1)) \X HostKeys
         /\ \A s \in segments, k \in HostKeys :
              <<s.id, k>> \in Planned => s.first # None /\ k \in LiveKeys(s)
<1>1. ASSUME NEW e \in Planned
      PROVE  \E s \in segments : \E r \in s.table :
               e = <<s.id, r.key>> /\ r.live /\ s.first # None
  BY PlannedEntry
<1>2. ASSUME NEW e \in Planned PROVE e \in (0..(nextId - 1)) \X HostKeys
  <2>1. PICK s \in segments : \E q \in s.table : e = <<s.id, q.key>>
    BY <1>1
  <2>2. PICK r \in s.table : e = <<s.id, r.key>>
    BY <2>1
  <2> QED
    BY <2>2, TableRecord DEF TInv, SegmentsOK
<1>3. ASSUME NEW s \in segments, NEW k \in HostKeys, <<s.id, k>> \in Planned
      PROVE  s.first # None /\ k \in LiveKeys(s)
  <2>1. PICK t \in segments : \E q \in t.table :
          <<s.id, k>> = <<t.id, q.key>> /\ q.live /\ t.first # None
    BY <1>1, <1>3
  <2>2. PICK r \in t.table : <<s.id, k>> = <<t.id, r.key>> /\ r.live /\ t.first # None
    BY <2>1
  <2>3. s.id = t.id /\ k = r.key
    BY <2>2
  <2>4. s = t
    BY <2>3 DEF TInv, SegmentsOK
  <2> QED
    BY <2>2, <2>3, <2>4 DEF LiveKeys
<1> QED
  BY <1>2, <1>3

LEMMA CopyChosen ==
  ASSUME TInv, ToCopy # {}
  PROVE  NextCopy \in ToCopy
<1>1. \A e \in ToCopy : e[1] \in Nat /\ e[2] \in Nat /\ e = <<e[1], e[2]>>
  <2> SUFFICES ASSUME NEW e \in ToCopy
               PROVE  e[1] \in Nat /\ e[2] \in Nat /\ e = <<e[1], e[2]>>
    OBVIOUS
  <2>1. PICK s \in segments : \E q \in s.table : e = <<s.id, q.key>>
    BY PlannedEntry DEF ToCopy
  <2> PICK r \in s.table : e = <<s.id, r.key>>
    BY <2>1
  <2>2. s.id \in Nat
    BY DEF TInv, SegmentsOK
  <2>3. r.key \in Nat
    BY TableRecord, KeysAreNatural
  <2> QED
    BY <2>2, <2>3
<1> DEFINE ids == {e[1] : e \in ToCopy}
<1>2. PICK i \in ids : \A j \in ids : i <= j
  <2>1. ids \in SUBSET Nat /\ ids # {}
    BY <1>1
  <2> QED
    BY <2>1, LeastNatural
<1> DEFINE keys == {e[2] : e \in {f \in ToCopy : f[1] = i}}
<1>3. PICK k \in keys : \A j \in keys : k <= j
  <2>1. keys \in SUBSET Nat /\ keys # {}
    BY <1>1, <1>2
  <2> QED
    BY <2>1, LeastNatural
<1>4. PICK e \in ToCopy : e[1] = i /\ e[2] = k
  BY <1>3
<1>5. ASSUME NEW f \in ToCopy PROVE e = f \/ Before(e, f)
  <2>1. e[1] <= f[1] /\ (f[1] = e[1] => e[2] <= f[2])
    BY <1>2, <1>3, <1>4
  <2>2. \/ e[1] < f[1] \/ (e[1] = f[1] /\ e[2] < f[2])
        \/ (e[1] = f[1] /\ e[2] = f[2])
    BY <1>1, <2>1
  <2> QED
    BY <1>1, <2>2 DEF Before
<1>6. NextCopy \in ToCopy
  BY <1>4, <1>5, Zenon DEF NextCopy
<1> QED
  BY <1>6

-----------------------------------------------------------------------------
(* Types.                                                                  *)

LEMMA SameSets ==
  ASSUME UNCHANGED <<unsorted, sorted, segments>>
  PROVE  /\ Searchable' = Searchable /\ ListRecords' = ListRecords /\ Tables' = Tables
         /\ UnsortedRecords' = UnsortedRecords
BY DEF Searchable, ListRecords, Tables, UnsortedRecords

\* Steps that change no record.
LEMMA TypesUntouched ==
  ASSUME TInv, UNCHANGED <<index, host, tree, copied, committed>>,
         media' \in [Blocks -> 0..MaxTimestamp], bios' \subseteq bios, contested' = contested,
         op' \in {"idle", "copy", "commit"}, failures' \in 0..MaxFailures
  PROVE  TInv'
<1>1. OInv'
  BY Untouched DEF TInv, index, host
<1>2. RecordsOK' /\ Stamps'
  BY SameSets DEF TInv, index, host, RecordsOK, Stamps
<1>3. SegmentsOK' /\ FlagsPlaced'
  BY DEF TInv, index, SegmentsOK, FlagsPlaced
<1>4. HostTypes'
  BY DEF TInv, HostTypes, host
<1>5. DiskTypes' /\ OutputTypes'
  BY DEF TInv, DiskTypes, OutputTypes, index
<1> QED
  BY <1>1, <1>2, <1>3, <1>4, <1>5 DEF TInv

\* Steps that change the read tree and perhaps commit entries.
LEMMA TreeTypes ==
  ASSUME TInv, UNCHANGED <<index, host, disk, copied, failures, contested>>, op' \in {op, "idle"},
         committed' \subseteq committed \cup Planned,
         NEW nodes, tree' \in TreesWith(nodes),
         \A n \in nodes : /\ n \in Records /\ (n.live => n.pba \in Blocks)
                          /\ \E r \in Searchable : Like(n, r)
  PROVE  TInv'
<1>1. OInv'
  BY Untouched DEF TInv, index, host
<1>2. RecordsOK' /\ Stamps'
  <2>1. tree' \subseteq tree \cup nodes
    <3>1. tree' \in SUBSET ({n \in tree : n.key \notin KeysOf(nodes)} \cup nodes)
      BY Zenon DEF TreesWith
    <3> QED
      BY <3>1
  <2>2. Searchable' = Searchable /\ ListRecords' = ListRecords /\ timestamp' = timestamp
    BY SameSets DEF index, host
  <2>3. \A e \in Searchable' \cup tree' :
          /\ e \in Records /\ (e.live => e.pba \in Blocks)
          /\ \E r \in Searchable \cup tree : Like(e, r)
    <3>1. \A e \in Searchable \cup tree : Like(e, e)
      BY DEF Like
    <3> QED
      BY <2>1, <2>2, <3>1 DEF TInv, RecordsOK
  <2> QED
    BY <2>2, <2>3, RecordsDescend DEF TInv
<1>3. SegmentsOK'
  BY DEF TInv, index, SegmentsOK
<1>4. FlagsPlaced'
  <2> SUFFICES ASSUME NEW s \in segments, NEW k \in HostKeys, <<s.id, k>> \in copied \cup committed \cup Planned
               PROVE  s.first # None /\ k \in LiveKeys(s)
    BY DEF FlagsPlaced, index
  <2>1. CASE <<s.id, k>> \in copied \cup committed
    BY <2>1 DEF TInv, FlagsPlaced
  <2>2. CASE <<s.id, k>> \in Planned
    BY <2>2, PlannedPlaced
  <2> QED
    BY <2>1, <2>2
<1>5. HostTypes' /\ DiskTypes'
  BY DEF TInv, HostTypes, host, DiskTypes, disk
<1>6. OutputTypes'
  BY PlannedPlaced DEF TInv, OutputTypes, index
<1> QED
  BY <1>1, <1>2, <1>3, <1>4, <1>5, <1>6 DEF TInv

LEMMA ReadTypes ==
  ASSUME TInv, NEW k \in HostKeys, Read(k)
  PROVE  TInv'
<1>1. PICK r \in ReadCopies(k) : tree' \in TreesWith({r})
  BY DEF Read
<1>2. \/ r \in UnsortedRecords \/ \E s \in segments : r \in Entries(s)
  <2>1. r \in Newest(Found(k))
    BY <1>1 DEF Read, ReadCopies
  <2>2. r \in Found(k)
    BY <2>1 DEF Newest
  <2> QED
    BY <2>2 DEF Found
<1>3. \E q \in Searchable : Like(r, q)
  <2>1. CASE r \in UnsortedRecords
    BY <2>1, ListsSearched DEF ListRecords, Like
  <2>2. CASE \E s \in segments : r \in Entries(s)
    <3>1. PICK s \in segments : r \in Entries(s)
      BY <2>2
    <3>2. PICK q \in s.table : r.key = q.key /\ r.ts = q.ts /\ r.live = q.live
      BY <3>1, EntryOf
    <3> QED
      BY <3>2, TableRecord DEF Like
  <2> QED
    BY <1>2, <2>1, <2>2
<1>4. r \in Records /\ (r.live => r.pba \in Blocks)
  <2>1. r \in Searchable \/ \E s \in segments : r \in Entries(s)
    BY <1>2, ListsSearched DEF ListRecords
  <2> QED
    BY <2>1, CopyTyped
<1>5. UNCHANGED <<index, host, disk, copied, failures, contested, op, committed>>
  BY DEF Read, output
<1> QED
  BY <1>1, <1>3, <1>4, <1>5, TreeTypes

LEMMA CommitTypes ==
  ASSUME TInv, CommitMetadata
  PROVE  TInv'
<1>1. /\ committed' = committed \cup Planned /\ tree' \in TreesWith(CommittedNodes) /\ op' = "idle"
      /\ UNCHANGED <<index, disk, host, copied, failures, contested>>
  BY DEF CommitMetadata
<1>2. ASSUME NEW n \in CommittedNodes
      PROVE  /\ n \in Records /\ (n.live => n.pba \in Blocks)
             /\ \E r \in Searchable : Like(n, r)
  <2>1. PICK e \in Planned : n = [RecordOf(e) EXCEPT !.pba = SlotOf(e)]
    BY <1>2 DEF CommittedNodes
  <2>0. PICK s \in segments : \E q \in s.table : RecordOf(e) = q /\ SlotOf(e) \in Blocks
    BY PlannedEntry
  <2>2. PICK r \in s.table : RecordOf(e) = r /\ SlotOf(e) \in Blocks
    BY <2>0
  <2>3. r \in Records /\ r \in Searchable
    BY TableRecord
  <2>4. n = [key |-> r.key, ts |-> r.ts, live |-> r.live, pba |-> SlotOf(e)]
    BY <2>1, <2>2, <2>3 DEF Records
  <2> QED
    BY <2>2, <2>3, <2>4 DEF Like, Records
<1> QED
  BY <1>1, <1>2, TreeTypes

LEMMA DiskTypesKept ==
  ASSUME TInv,
         (\E b \in bios : BioLands(b)) \/ (\E mode \in Modes : CommitOutput(mode)) \/ CopyEntry \/ CopyFails
  PROVE  TInv'
<1>1. CASE \E b \in bios : BioLands(b)
  <2>1. PICK b \in bios : BioLands(b)
    BY <1>1
  <2>2. b.ts \in 0..MaxTimestamp
    BY Limits DEF TInv, DiskTypes
  <2>3. media' \in [Blocks -> 0..MaxTimestamp] /\ bios' \subseteq bios
    BY <2>1, <2>2 DEF BioLands, TInv, DiskTypes
  <2>4. UNCHANGED <<index, host, tree, copied, committed, op, failures, contested>>
    BY <2>1 DEF BioLands, output
  <2> QED
    BY <2>3, <2>4, TypesUntouched DEF TInv, OutputTypes
<1>2. CASE \E mode \in Modes : CommitOutput(mode)
  <2>1. op' \in {"copy", "commit"}
    BY <1>2 DEF CommitOutput
  <2>2. UNCHANGED <<index, host, tree, copied, committed, media, bios, failures, contested>>
    BY <1>2 DEF CommitOutput, disk
  <2> QED
    BY <2>1, <2>2, TypesUntouched DEF TInv, OutputTypes, DiskTypes
<1>3. CASE CopyEntry
  <2>1. NextCopy \in ToCopy /\ NextCopy \in Planned
    BY <1>3, CopyChosen DEF CopyEntry, ToCopy
  <2>2. SlotOf(NextCopy) \in Blocks /\ SourceOf(NextCopy) \in Blocks
    BY <2>1, PlannedEntry
  <2>3. media \in [Blocks -> 0..MaxTimestamp]
    BY DEF TInv, DiskTypes
  <2> DEFINE moved == media[SourceOf(NextCopy)]
  <2>4. media' = [media EXCEPT ![SlotOf(NextCopy)] = moved]
    BY <1>3 DEF CopyEntry
  <2>5. moved \in 0..MaxTimestamp
    BY <2>2, <2>3
  <2> HIDE DEF moved
  <2>6. media' \in [Blocks -> 0..MaxTimestamp]
    BY <2>3, <2>4, <2>5
  <2>7. /\ UNCHANGED <<index, host, tree, bios, op, committed, failures, contested>>
        /\ copied' = copied \cup {NextCopy}
    BY <1>3 DEF CopyEntry
  <2>9. OInv'
    BY <2>7, Untouched DEF TInv, index, host
  <2>10. RecordsOK' /\ Stamps'
    BY <2>7, SameSets DEF TInv, index, host, RecordsOK, Stamps
  <2>11. SegmentsOK' /\ FlagsPlaced'
    BY <2>1, <2>7, PlannedPlaced DEF TInv, index, SegmentsOK, FlagsPlaced
  <2>12. HostTypes' /\ DiskTypes'
    BY <2>6, <2>7 DEF TInv, HostTypes, host, DiskTypes
  <2>13. OutputTypes'
    <3>1. NextCopy \in (0..(nextId - 1)) \X HostKeys
      BY <2>1, PlannedPlaced
    <3> QED
      BY <2>7, <3>1 DEF TInv, OutputTypes, index
  <2> QED
    BY <2>9, <2>10, <2>11, <2>12, <2>13 DEF TInv
<1>4. CASE CopyFails
  <2>1. NextCopy \in Planned
    BY <1>4, CopyChosen DEF CopyFails, ToCopy
  <2>2. SlotOf(NextCopy) \in Blocks
    BY <2>1, PlannedEntry
  <2>3. media \in [Blocks -> 0..MaxTimestamp] /\ 0 \in 0..MaxTimestamp
    BY Limits DEF TInv, DiskTypes
  <2>4. media' \in [Blocks -> 0..MaxTimestamp]
    BY <1>4, <2>2, <2>3 DEF CopyFails
  <2>5. failures' \in 0..MaxFailures /\ op' = "idle"
    BY <1>4, Limits DEF CopyFails, TInv, OutputTypes
  <2>6. UNCHANGED <<index, host, tree, bios, copied, committed, contested>>
    BY <1>4 DEF CopyFails
  <2> QED
    BY <2>4, <2>5, <2>6, TypesUntouched
<1> QED
  BY <1>1, <1>2, <1>3, <1>4


\* A rewrite: the old segment leaves, perhaps for one with its newest entries.
LEMMA RewrittenSets ==
  ASSUME TInv, NEW s \in segments, Rewrite(s)
  PROVE  /\ UNCHANGED <<unsorted, sorted, host, disk, tree, failures>>
         /\ ListRecords' = ListRecords /\ UnsortedRecords' = UnsortedRecords
         /\ copied' = {e \in copied : e[1] # s.id} /\ committed' = {e \in committed : e[1] # s.id}
         /\ Held(RewrittenTable(s), timestamp) /\ s.zone \in 0..NumZones
         /\ \A q, r \in RewrittenTable(s) : q.key = r.key => q = r
         /\ Searchable' = ListRecords \cup Tables'
<1>1. /\ UNCHANGED <<unsorted, sorted, disk, host, tree, failures>>
      /\ copied' = {e \in copied : e[1] # s.id} /\ committed' = {e \in committed : e[1] # s.id}
  BY DEF Rewrite
<1>2. UnsortedRecords' = UnsortedRecords /\ ListRecords' = ListRecords
  BY <1>1 DEF UnsortedRecords, ListRecords
<1>3. Searchable' = ListRecords' \cup Tables'
  BY DEF Searchable, ListRecords, Tables
<1>4. Held(RewrittenTable(s), timestamp)
  BY RewrittenHeld DEF TInv, OInv, SegmentOK
<1>5. s.zone \in 0..NumZones
  BY DEF TInv, SegmentsOK, Placed
<1>6. \A q, r \in RewrittenTable(s) : q.key = r.key => q = r
  <2> SUFFICES ASSUME NEW q \in Entries(s), NEW r \in Entries(s), q.key = r.key PROVE q = r
    BY DEF RewrittenTable
  <2>1. PICK p \in s.table : q = Entry(s, p) /\ q.key = p.key
    BY EntryOf
  <2>2. PICK o \in s.table : r = Entry(s, o) /\ r.key = o.key
    BY EntryOf
  <2>3. p = o
    BY <2>1, <2>2, TableRecord
  <2> QED
    BY <2>1, <2>2, <2>3
<1> QED
  BY <1>1, <1>2, <1>3, <1>4, <1>5, <1>6

LEMMA RewriteTypes ==
  ASSUME TInv, NEW s \in segments, Rewrite(s)
  PROVE  TInv'
<1> DEFINE table == RewrittenTable(s)
           t == Segment(s.zone, table)
<1>1. OInv'
  BY RewriteInv DEF TInv
<1>2. \/ table = {} /\ segments' = segments \ {s} /\ UNCHANGED <<nextId, op, contested>>
      \/ /\ table # {} /\ segments' = (segments \ {s}) \cup {t}
         /\ nextId' = nextId + 1 /\ op' = "copy"
         /\ contested' = contested \cup {r.ts : r \in InUse(OutputRange(t))}
  BY DEF Rewrite, Append
<1>3. t.table = table
  BY DEF Segment
<1>4. nextId < MaxSegments
  BY DEF Rewrite
<1> HIDE DEF t
<1>5. Tables' \subseteq Tables \cup table
  BY <1>2, <1>3 DEF Tables
<1>6. UNCHANGED <<unsorted, sorted, host, disk, tree, failures>>
  BY RewrittenSets
<1>7. RecordsOK' /\ Stamps'
  <2>1. timestamp' = timestamp /\ tree' = tree /\ ListRecords' = ListRecords
    BY <1>6, RewrittenSets DEF host
  <2>2. \A e \in table : /\ e \in Records /\ (e.live => e.pba \in Blocks)
                         /\ \E r \in Searchable : Like(e, r)
    <3> SUFFICES ASSUME NEW e \in Entries(s)
                 PROVE  /\ e \in Records /\ (e.live => e.pba \in Blocks)
                        /\ \E r \in Searchable : Like(e, r)
      BY DEF RewrittenTable
    <3>1. PICK r \in s.table : e.key = r.key /\ e.ts = r.ts /\ e.live = r.live
      BY EntryOf
    <3> QED
      BY <3>1, CopyTyped, TableRecord DEF Like
  <2>3. \A e \in Searchable \cup tree : /\ e \in Records /\ (e.live => e.pba \in Blocks)
                                        /\ Like(e, e)
    BY DEF TInv, RecordsOK, Like
  <2>4. Searchable' \subseteq Searchable \cup table
    BY <1>5, RewrittenSets, Everywhere
  <2> HIDE DEF table
  <2>5. \A e \in Searchable' \cup tree' :
          /\ e \in Records /\ (e.live => e.pba \in Blocks)
          /\ \E r \in Searchable \cup tree : Like(e, r)
    BY <2>1, <2>2, <2>3, <2>4
  <2> QED
    BY <2>1, <2>5, RecordsDescend DEF TInv
<1>8. SegmentsOK' /\ FlagsPlaced'
  <2>1. copied' \cup committed' \subseteq copied \cup committed
    BY RewrittenSets
  <2>2. CASE table = {}
    <3>1. segments' \subseteq segments /\ nextId' = nextId
      BY <1>2, <2>2
    <3> QED
      BY <2>1, <3>1 DEF TInv, SegmentsOK, FlagsPlaced
  <2>3. CASE table # {}
    BY <1>2, <2>1, <2>3, RewrittenSets, SegmentJoins DEF TInv, t
  <2> QED
    BY <2>2, <2>3
<1>9. HostTypes'
  BY <1>6 DEF TInv, HostTypes, host
<1>10. DiskTypes'
  <2>1. {r.ts : r \in InUse(OutputRange(t))} \subseteq 1..timestamp
    BY InUseStamps
  <2>2. \A i \in 1..timestamp : i \in 1..MaxTimestamp
    BY Limits DEF TInv, HostTypes
  <2>3. contested' \subseteq 1..MaxTimestamp
    BY <1>2, <2>1, <2>2 DEF TInv, DiskTypes
  <2> QED
    BY <1>6, <2>3 DEF TInv, DiskTypes, disk
<1>11. OutputTypes'
  <2>1. \A i \in 0..(nextId - 1) : i \in 0..((nextId + 1) - 1)
    BY Limits DEF TInv, OutputTypes
  <2>2. nextId \in 0..MaxSegments /\ nextId + 1 \in 0..MaxSegments
    BY <1>4, Limits DEF TInv, OutputTypes
  <2>3. copied' \cup committed' \subseteq copied \cup committed
    BY RewrittenSets
  <2>4. nextId' \in 0..MaxSegments /\ op' \in {"idle", "copy", "commit"}
    BY <1>2, <2>2 DEF TInv, OutputTypes
  <2>5. copied' \cup committed' \subseteq (0..(nextId' - 1)) \X HostKeys
    BY <1>2, <2>1, <2>3 DEF TInv, OutputTypes
  <2> QED
    BY <1>6, <2>4, <2>5 DEF TInv, OutputTypes
<1> QED
  BY <1>1, <1>7, <1>8, <1>9, <1>10, <1>11 DEF TInv

LEMMA StepTypes ==
  ASSUME ZonesHold, TInv, [Next]_vars
  PROVE  TInv'
<1>1. CASE \E k \in HostKeys, l \in Levels : HostWrite(k, l) \/ HostDelete(k, l)
  <2>1. ASSUME NEW k \in HostKeys, NEW l \in Levels, HostWrite(k, l) PROVE TInv'
    <3>1. PICK target \in Blocks :
            LET r == [key |-> k, ts |-> timestamp + 1, live |-> TRUE, pba |-> target]
            IN r \in Records /\ Joins(r, l) /\ HostTypes' /\ DiskTypes'
      BY <2>1, WriteJoins
    <3> QED
      BY <3>1, JoinTypes
  <2>2. ASSUME NEW k \in HostKeys, NEW l \in Levels, HostDelete(k, l) PROVE TInv'
    BY <2>2, DeleteJoins, JoinTypes
  <2> QED
    BY <1>1, <2>1, <2>2
<1>2. CASE \E k \in HostKeys : Read(k)
  BY <1>2, ReadTypes
<1>3. CASE \E b \in bios : BioLands(b)
  BY <1>3, DiskTypesKept
<1>4. CASE \E src, dst \in Levels : Compact(src, dst)
  BY <1>4, CompactTypes
<1>5. CASE \E mode \in Modes : CommitOutput(mode)
  BY <1>5, DiskTypesKept
<1>6. CASE CopyEntry \/ CopyFails
  BY <1>6, DiskTypesKept
<1>7. CASE CommitMetadata
  BY <1>7, CommitTypes
<1>8. CASE \E s \in segments : Rewrite(s)
  BY <1>8, RewriteTypes
<1>9. CASE UNCHANGED vars
  <2>1. UNCHANGED <<index, host, tree, copied, committed, media, bios, contested, op, failures>>
    BY <1>9 DEF vars, output, disk
  <2> QED
    BY <2>1, TypesUntouched DEF TInv, DiskTypes, OutputTypes
<1> QED
  BY <1>1, <1>2, <1>3, <1>4, <1>5, <1>6, <1>7, <1>8, <1>9 DEF Next

LEMMA SpecTypes == ZonesHold => (Spec => []TInv)
<1> SUFFICES ASSUME ZonesHold PROVE Spec => []TInv
  OBVIOUS
<1>1. TInv /\ [Next]_vars => TInv'
  BY StepTypes
<1> QED
  BY <1>1, TypesInit, PTL DEF Spec

\* The types, when allocations stay within a zone: a host write that allocates its key
\* a block finds one in the key's zone, every placement and every slot is on the disk,
\* and whatever has a flag is an entry of a segment that was made.
THEOREM OutputTypeCorrect == ZonesHold => (Spec => []TypeOK)
  BY SpecTypes, TypesFollow, PTL
===============================================================================
