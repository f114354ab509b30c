---------------------------- MODULE ImrZoneProofs -----------------------------
(***************************************************************************)
(* Proofs about ImrZone for every geometry, any number of zones and any    *)
(* host: the types, and, for writes of one block in zones that are not     *)
(* allocated past their end, that no block is shared by two keys and that  *)
(* every top block in use is marked.                                       *)
(***************************************************************************)
EXTENDS ImrZone, FiniteSetTheorems, SequenceTheorems, TLAPS

-----------------------------------------------------------------------------
(* Division.                                                               *)

LEMMA DivMod ==
  ASSUME NEW a \in Nat, NEW b \in Nat \ {0}
  PROVE  a \div b \in Nat /\ a % b \in 0..(b - 1) /\ a = ((a \div b) * b) + (a % b)
BY SMT

LEMMA DivModUnique ==
  ASSUME NEW b \in Nat, NEW q \in Nat, NEW r \in 0..(b - 1)
  PROVE  (q * b + r) \div b = q /\ (q * b + r) % b = r
BY SMT

LEMMA Quotient ==
  ASSUME NEW a \in Nat, NEW b \in Nat \ {0}, NEW c \in Nat, a < b * c
  PROVE  a \div b < c
<1>1. a \div b \in Nat /\ (a \div b) * b <= a
  BY DivMod, SMT
<1>2. CASE a \div b >= c
  <2>1. (a \div b) * b >= c * b
    BY <1>1, <1>2, SMT
  <2> QED
    BY <1>1, <2>1, SMT
<1> QED
  BY <1>1, <1>2

-----------------------------------------------------------------------------
(* Geometry: every block is a row and a column of its zone.                *)

Group == TOP + BOTTOM

LEMMA GeometryFacts ==
  /\ NumZones \in Nat \ {0} /\ TOP \in Nat \ {0} /\ BOTTOM \in Nat \ {0}
  /\ TRACKS \in Nat \ {0} /\ Group \in Nat \ {0} /\ TOTAL \in Nat \ {0}
  /\ BottomBlocks \in Nat \ {0} /\ TOP * TRACKS \in Nat
  /\ Group = TOP + BOTTOM /\ TOTAL = TRACKS * Group /\ BottomBlocks = BOTTOM * TRACKS
  /\ TOTAL = BottomBlocks + TOP * TRACKS
  /\ TOTAL <= 2 * BottomBlocks
  /\ PHASE \in {2, 3}
<1>1. /\ NumZones \in Nat \ {0} /\ TOP \in Nat \ {0} /\ BOTTOM \in Nat \ {0}
      /\ TRACKS \in Nat \ {0} /\ TOP <= BOTTOM /\ PHASE \in {2, 3}
  BY GeometryAssumption
<1>2. Group \in Nat \ {0} /\ Group = TOP + BOTTOM
  BY <1>1 DEF Group
<1>3. BOTTOM * TRACKS \in Nat \ {0} /\ TOP * TRACKS \in Nat /\ TOP * TRACKS <= BOTTOM * TRACKS
  BY <1>1, SMT
<1>4. TOTAL = BOTTOM * TRACKS + TOP * TRACKS /\ TOTAL = TRACKS * Group
  BY <1>1, SMT DEF TOTAL, Group
<1> QED
  BY <1>1, <1>2, <1>3, <1>4 DEF BottomBlocks

LEMMA InGroups ==
  ASSUME NEW t \in 0..(TRACKS - 1), NEW r \in 0..(Group - 1)
  PROVE  t * Group + r \in 0..(TOTAL - 1)
<1>1. t * Group + Group <= TRACKS * Group
  <2>1. (t + 1) * Group <= TRACKS * Group
    BY GeometryFacts, SMT
  <2> QED
    BY <2>1, GeometryFacts, SMT
<1> QED
  BY <1>1, GeometryFacts, SMT

LEMMA Position ==
  ASSUME NEW z \in Nat, NEW t \in 0..(TRACKS - 1), NEW r \in 0..(Group - 1)
  PROVE  LET b == z * TOTAL + (t * Group + r)
         IN /\ ZoneOf(b) = z /\ Offset(b) = t * Group + r
            /\ Track(b) = t /\ Offset(b) % (TOP + BOTTOM) = r
<1> DEFINE o == t * Group + r
<1> DEFINE b == z * TOTAL + o
<1>1. o \in 0..(TOTAL - 1)
  BY InGroups
<1>2. (z * TOTAL + o) \div TOTAL = z /\ (z * TOTAL + o) % TOTAL = o
  <2> HIDE DEF o
  <2> QED BY <1>1, GeometryFacts, DivModUnique
<1>3. (t * Group + r) \div Group = t /\ (t * Group + r) % Group = r
  BY GeometryFacts, DivModUnique
<1> QED
  BY <1>2, <1>3 DEF ZoneOf, Offset, Track, Group

\* The row and the column of the n-th block that a zone allocates.
Half == (TOP * TRACKS) \div 2
Row(n) ==
  LET top == n - BottomBlocks
  IN IF n < BottomBlocks THEN n \div BOTTOM
     ELSE IF PHASE = 2 THEN top \div TOP
     ELSE IF top < Half THEN 2 * (top \div TOP)
     ELSE 2 * ((top - Half) \div TOP) + 1
Column(n) ==
  LET top == n - BottomBlocks
  IN IF n < BottomBlocks THEN TOP + (n % BOTTOM)
     ELSE IF PHASE = 2 \/ top < Half THEN top % TOP
     ELSE (top - Half) % TOP

LEMMA HalfNatural == Half \in Nat
BY GeometryFacts, SMT DEF Half

LEMMA AllocatedPosition ==
  ASSUME NEW z \in Nat, NEW n \in Nat
  PROVE  /\ Row(n) \in Nat /\ Column(n) \in 0..(Group - 1)
         /\ Allocated(z, n) = z * TOTAL + (Row(n) * Group + Column(n))
         /\ n >= BottomBlocks <=> Column(n) < TOP
<1> DEFINE top == n - BottomBlocks
<1>1. CASE n < BottomBlocks
  <2>1. n \div BOTTOM \in Nat /\ n % BOTTOM \in 0..(BOTTOM - 1)
    BY DivMod, GeometryFacts
  <2>2. Row(n) = n \div BOTTOM /\ Column(n) = TOP + (n % BOTTOM)
    BY <1>1 DEF Row, Column
  <2>3. Allocated(z, n) = z * TOTAL + (n \div BOTTOM) * Group + TOP + (n % BOTTOM)
    BY <1>1 DEF Allocated, BottomPba, ZoneStart, Group
  <2>4. z * TOTAL \in Nat /\ (n \div BOTTOM) * Group \in Nat
    BY <2>1, GeometryFacts, SMT
  <2>5. Allocated(z, n) = z * TOTAL + ((n \div BOTTOM) * Group + (TOP + (n % BOTTOM)))
    <3> HIDE DEF top
    <3> QED BY <2>1, <2>3, <2>4, GeometryFacts
  <2> QED
    BY <1>1, <2>1, <2>2, <2>5, GeometryFacts
<1>2. CASE n >= BottomBlocks /\ PHASE = 2
  <2>0. top \in Nat
    BY <1>2, GeometryFacts
  <2>1. top \in Nat /\ top \div TOP \in Nat /\ top % TOP \in 0..(TOP - 1)
    <3> HIDE DEF top
    <3> QED BY <2>0, DivMod, GeometryFacts
  <2>2. Row(n) = top \div TOP /\ Column(n) = top % TOP
    BY <1>2, GeometryFacts DEF Row, Column
  <2>3. Allocated(z, n) = z * TOTAL + ((top \div TOP) * Group + (top % TOP))
    BY <1>2, GeometryFacts DEF Allocated, TopBlock, ZoneStart, Group
  <2> QED
    BY <1>2, <2>1, <2>2, <2>3, GeometryFacts
<1>3. CASE n >= BottomBlocks /\ PHASE = 3 /\ top < Half
  <2>0. top \in Nat
    BY <1>3, GeometryFacts
  <2>1. top \in Nat /\ top \div TOP \in Nat /\ top % TOP \in 0..(TOP - 1)
    <3> HIDE DEF top
    <3> QED BY <2>0, DivMod, GeometryFacts
  <2>2. Row(n) = 2 * (top \div TOP) /\ Column(n) = top % TOP
    BY <1>3, GeometryFacts DEF Row, Column
  <2>3. Allocated(z, n) = z * TOTAL + (2 * (top \div TOP) * Group + (top % TOP))
    BY <1>3, GeometryFacts DEF Allocated, TopBlock, ZoneStart, Group, Half
  <2> QED
    BY <1>3, <2>1, <2>2, <2>3, GeometryFacts
<1>4. CASE n >= BottomBlocks /\ PHASE = 3 /\ ~ (top < Half)
  <2>0. top - Half \in Nat
    BY <1>4, HalfNatural, GeometryFacts
  <2>1. /\ top - Half \in Nat /\ (top - Half) \div TOP \in Nat
        /\ (top - Half) % TOP \in 0..(TOP - 1)
    <3> DEFINE rest == top - Half
    <3> HIDE DEF rest
    <3>1. rest \in Nat
      BY <2>0 DEF rest
    <3>2. rest \div TOP \in Nat /\ rest % TOP \in 0..(TOP - 1)
      BY <3>1, DivMod, GeometryFacts
    <3> QED BY <3>1, <3>2 DEF rest
  <2>2. Row(n) = 2 * ((top - Half) \div TOP) + 1 /\ Column(n) = (top - Half) % TOP
    BY <1>4, GeometryFacts DEF Row, Column
  <2>3. Allocated(z, n) =
          z * TOTAL + ((2 * ((top - Half) \div TOP) + 1) * Group + ((top - Half) % TOP))
    BY <1>4, GeometryFacts DEF Allocated, TopBlock, ZoneStart, Group, Half
  <2> QED
    BY <1>4, <2>1, <2>2, <2>3, GeometryFacts
<1> QED
  BY <1>1, <1>2, <1>3, <1>4, GeometryFacts

LEMMA SameBlock ==
  ASSUME NEW a \in Nat, NEW b \in Nat, NEW c \in Nat \ {0},
         a \div c = b \div c, a % c = b % c
  PROVE  a = b
<1>1. a = ((a \div c) * c) + (a % c) /\ b = ((b \div c) * c) + (b % c)
  BY DivMod
<1> QED
  BY <1>1

LEMMA Cancel ==
  /\ \A c \in Nat \ {0}, a, b \in Nat : c + a = c + b => a = b
  /\ \A a, b \in Nat : 2 * a = 2 * b => a = b
  /\ \A a, b \in Nat : 2 * a + 1 = 2 * b + 1 => a = b
  /\ \A a, b \in Nat : 2 * a # 2 * b + 1
OBVIOUS

LEMMA RowColumnInjective ==
  ASSUME NEW m \in Nat, NEW n \in Nat, Row(m) = Row(n), Column(m) = Column(n)
  PROVE  m = n
<1>1. m >= BottomBlocks <=> n >= BottomBlocks
  <2>1. 0 \in Nat
    OBVIOUS
  <2> QED BY <2>1, AllocatedPosition
<1>2. CASE m < BottomBlocks /\ n < BottomBlocks
  <2>1. Row(m) = m \div BOTTOM /\ Column(m) = TOP + (m % BOTTOM)
    BY <1>2 DEF Row, Column
  <2>2. Row(n) = n \div BOTTOM /\ Column(n) = TOP + (n % BOTTOM)
    BY <1>2 DEF Row, Column
  <2>3. m % BOTTOM \in Nat /\ n % BOTTOM \in Nat
    BY DivMod, GeometryFacts
  <2>4. m \div BOTTOM = n \div BOTTOM /\ m % BOTTOM = n % BOTTOM
    BY <2>1, <2>2, <2>3, Cancel, GeometryFacts, Zenon
  <2> QED
    BY <2>4, SameBlock, GeometryFacts
<1>3. ASSUME m >= BottomBlocks, n >= BottomBlocks PROVE m = n
  <2> DEFINE p == m - BottomBlocks
  <2> DEFINE q == n - BottomBlocks
  <2>1. p \in Nat /\ q \in Nat /\ (p = q => m = n)
    BY <1>3, GeometryFacts
  <2>2. /\ Row(m) = IF PHASE = 2 THEN p \div TOP
                    ELSE IF p < Half THEN 2 * (p \div TOP) ELSE 2 * ((p - Half) \div TOP) + 1
        /\ Column(m) = IF PHASE = 2 \/ p < Half THEN p % TOP ELSE (p - Half) % TOP
    BY <1>3, GeometryFacts DEF Row, Column
  <2>3. /\ Row(n) = IF PHASE = 2 THEN q \div TOP
                    ELSE IF q < Half THEN 2 * (q \div TOP) ELSE 2 * ((q - Half) \div TOP) + 1
        /\ Column(n) = IF PHASE = 2 \/ q < Half THEN q % TOP ELSE (q - Half) % TOP
    BY <1>3, GeometryFacts DEF Row, Column
  <2> HIDE DEF p, q
  <2>4. p \div TOP \in Nat /\ q \div TOP \in Nat
    BY <2>1, DivMod, GeometryFacts
  <2>5. CASE PHASE = 2
    BY <2>1, <2>2, <2>3, <2>5, SameBlock, GeometryFacts
  <2>6. CASE PHASE # 2 /\ p < Half /\ q < Half
    <3>1. 2 * (p \div TOP) = 2 * (q \div TOP) /\ p % TOP = q % TOP
      BY <2>2, <2>3, <2>6, Zenon
    <3>2. p \div TOP = q \div TOP
      BY <2>4, <3>1, Cancel, Zenon
    <3> QED BY <2>1, <3>1, <3>2, SameBlock, GeometryFacts
  <2>7. CASE PHASE # 2 /\ ~ (p < Half) /\ ~ (q < Half)
    <3> DEFINE x == p - Half
    <3> DEFINE y == q - Half
    <3>1. x \in Nat /\ y \in Nat /\ (x = y => p = q)
      BY <2>1, <2>7, HalfNatural
    <3>2. 2 * (x \div TOP) + 1 = 2 * (y \div TOP) + 1 /\ x % TOP = y % TOP
      BY <2>2, <2>3, <2>7, Zenon
    <3> HIDE DEF x, y
    <3>3. x \div TOP = y \div TOP
      <4>1. x \div TOP \in Nat /\ y \div TOP \in Nat
        BY <3>1, DivMod, GeometryFacts
      <4> QED BY <4>1, <3>2, Cancel, Zenon
    <3> QED BY <2>1, <3>1, <3>2, <3>3, SameBlock, GeometryFacts
  <2>8. CASE PHASE # 2 /\ p < Half /\ ~ (q < Half)
    <3>1. q - Half \in Nat
      BY <2>1, <2>8, HalfNatural
    <3>2. 2 * (p \div TOP) = 2 * ((q - Half) \div TOP) + 1
      BY <2>2, <2>3, <2>8, Zenon
    <3>3. (q - Half) \div TOP \in Nat
      BY <3>1, DivMod, GeometryFacts
    <3> QED BY <2>4, <3>2, <3>3, Cancel, Zenon
  <2>9. CASE PHASE # 2 /\ ~ (p < Half) /\ q < Half
    <3>1. p - Half \in Nat
      BY <2>1, <2>9, HalfNatural
    <3>2. 2 * (q \div TOP) = 2 * ((p - Half) \div TOP) + 1
      BY <2>2, <2>3, <2>9, Zenon
    <3>3. (p - Half) \div TOP \in Nat
      BY <3>1, DivMod, GeometryFacts
    <3> QED BY <2>4, <3>2, <3>3, Cancel, Zenon
  <2> QED
    BY <2>5, <2>6, <2>7, <2>8, <2>9, Zenon
<1> QED
  BY <1>1, <1>2, <1>3, GeometryFacts

LEMMA AllocatedInjective ==
  ASSUME NEW z \in Nat, NEW m \in Nat, NEW n \in Nat, Allocated(z, m) = Allocated(z, n)
  PROVE  m = n
<1>1. /\ Row(m) \in Nat /\ Column(m) \in 0..(Group - 1)
      /\ Row(n) \in Nat /\ Column(n) \in 0..(Group - 1)
      /\ z * TOTAL + (Row(m) * Group + Column(m)) = z * TOTAL + (Row(n) * Group + Column(n))
  BY AllocatedPosition
<1>2. /\ z * TOTAL \in Nat
      /\ Row(m) * Group + Column(m) \in Nat /\ Row(n) * Group + Column(n) \in Nat
  BY <1>1, GeometryFacts, SMT
<1>3. Row(m) * Group + Column(m) = Row(n) * Group + Column(n)
  BY <1>1, <1>2
<1>4. /\ (Row(m) * Group + Column(m)) \div Group = Row(m)
      /\ (Row(m) * Group + Column(m)) % Group = Column(m)
  BY <1>1, DivModUnique, GeometryFacts
<1>5. /\ (Row(n) * Group + Column(n)) \div Group = Row(n)
      /\ (Row(n) * Group + Column(n)) % Group = Column(n)
  BY <1>1, DivModUnique, GeometryFacts
<1>6. Row(m) = Row(n) /\ Column(m) = Column(n)
  BY <1>3, <1>4, <1>5, Zenon
<1> QED
  BY <1>6, RowColumnInjective

\* Phase three fills the even top tracks, then the odd ones: as many of each.
EvenTracks == PHASE = 3 => TRACKS % 2 = 0

LEMMA RowInZone ==
  ASSUME EvenTracks, NEW n \in Nat, n < TOTAL
  PROVE  Row(n) < TRACKS
<1> DEFINE top == n - BottomBlocks
<1>1. CASE n < BottomBlocks
  <2>1. n \div BOTTOM < TRACKS
    BY <1>1, Quotient, GeometryFacts
  <2> QED BY <1>1, <2>1 DEF Row
<1>2. CASE n >= BottomBlocks /\ PHASE = 2
  <2>1. top \in Nat /\ top < TOP * TRACKS
    BY <1>2, GeometryFacts
  <2>2. top \div TOP < TRACKS
    <3> HIDE DEF top
    <3> QED BY <2>1, Quotient, GeometryFacts
  <2> QED BY <1>2, <2>2, GeometryFacts DEF Row
<1>3. ASSUME n >= BottomBlocks, PHASE = 3 PROVE Row(n) < TRACKS
  <2>1. PICK h \in Nat : TRACKS = 2 * h
    <3>1. TRACKS = ((TRACKS \div 2) * 2) + (TRACKS % 2) /\ TRACKS \div 2 \in Nat
      BY DivMod, GeometryFacts
    <3> QED BY <1>3, <3>1 DEF EvenTracks
  <2>2. TOP * h \in Nat /\ TOP * TRACKS = 2 * (TOP * h)
    BY <2>1, GeometryFacts, SMT
  <2>3. Half = TOP * h
    BY <2>2 DEF Half
  <2>4. top \in Nat /\ top < 2 * (TOP * h)
    BY <1>3, <2>2, GeometryFacts
  <2>5. CASE top < Half
    <3>1. top \div TOP < h /\ top \div TOP \in Nat
      <4> HIDE DEF top
      <4> QED BY <2>3, <2>4, <2>5, Quotient, DivMod, GeometryFacts
    <3>2. Row(n) = 2 * (top \div TOP)
      BY <1>3, <2>5, GeometryFacts DEF Row
    <3> QED BY <2>1, <3>1, <3>2
  <2>6. CASE ~ (top < Half)
    <3> DEFINE rest == top - Half
    <3>1. rest \in Nat /\ rest < TOP * h
      BY <2>2, <2>3, <2>4, <2>6
    <3>2. rest \div TOP < h /\ rest \div TOP \in Nat
      <4> HIDE DEF rest
      <4> QED BY <3>1, Quotient, DivMod, GeometryFacts
    <3>3. Row(n) = 2 * (rest \div TOP) + 1
      BY <1>3, <2>6, GeometryFacts DEF Row
    <3> HIDE DEF rest
    <3> QED BY <2>1, <3>2, <3>3
  <2> QED BY <2>5, <2>6
<1> QED
  BY <1>1, <1>2, <1>3, GeometryFacts

LEMMA AllocatedInZone ==
  ASSUME EvenTracks, NEW z \in Nat, NEW n \in Nat, n < TOTAL
  PROVE  /\ ZoneOf(Allocated(z, n)) = z
         /\ IsTop(Allocated(z, n)) <=> n >= BottomBlocks
<1>1. Row(n) \in 0..(TRACKS - 1) /\ Column(n) \in 0..(Group - 1)
  BY RowInZone, AllocatedPosition, GeometryFacts
<1>2. Allocated(z, n) = z * TOTAL + (Row(n) * Group + Column(n))
  BY AllocatedPosition
<1>3. n >= BottomBlocks <=> Column(n) < TOP
  BY AllocatedPosition
<1> QED
  BY <1>1, <1>2, <1>3, Position DEF IsTop

LEMMA BottomAllocated ==
  ASSUME NEW z \in Nat, NEW n \in Nat, n < BottomBlocks
  PROVE  Allocated(z, n) = BottomPba(z, n) /\ Allocated(z, n) \in Nat
<1>1. Row(n) \in Nat /\ Column(n) \in 0..(Group - 1)
      /\ Allocated(z, n) = z * TOTAL + (Row(n) * Group + Column(n))
  BY AllocatedPosition
<1>2. z * TOTAL \in Nat /\ Row(n) * Group \in Nat
  BY <1>1, GeometryFacts, SMT
<1> QED
  BY <1>1, <1>2, GeometryFacts DEF Allocated

LEMMA KeyZone ==
  ASSUME NEW k \in Keys
  PROVE  ZoneOf(k) \in Zones /\ k \in Nat /\ Offset(k) \in 0..(TOTAL - 1)
         /\ k = ZoneStart(ZoneOf(k)) + Offset(k)
<1>1. NumZones * TOTAL \in Nat /\ TOTAL * NumZones = NumZones * TOTAL
  BY GeometryFacts, SMT
<1>2. k \in Nat /\ k < NumZones * TOTAL
  BY <1>1 DEF Keys
<1>3. k \div TOTAL \in Nat /\ k % TOTAL \in 0..(TOTAL - 1) /\ k = ((k \div TOTAL) * TOTAL) + (k % TOTAL)
  BY <1>2, DivMod, GeometryFacts
<1>4. k \div TOTAL < NumZones
  BY <1>1, <1>2, Quotient, GeometryFacts
<1> QED
  BY <1>2, <1>3, <1>4, GeometryFacts DEF ZoneOf, Zones, Offset, ZoneStart

LEMMA AllocatedNatural ==
  ASSUME NEW z \in Nat, NEW n \in Nat
  PROVE  Allocated(z, n) \in Nat
<1>1. Row(n) \in Nat /\ Column(n) \in 0..(Group - 1)
      /\ Allocated(z, n) = z * TOTAL + (Row(n) * Group + Column(n))
  BY AllocatedPosition
<1>2. z * TOTAL \in Nat /\ Row(n) * Group \in Nat
  BY <1>1, GeometryFacts, SMT
<1> QED
  BY <1>1, <1>2

LEMMA DestinationNatural ==
  ASSUME NEW z \in Nat, NEW i \in 0..(TOTAL - 1)
  PROVE  /\ Destination(z, i) \in Nat
         /\ i < BottomBlocks => Destination(z, i) = Allocated(z, i)
         /\ i >= BottomBlocks => /\ i - BottomBlocks \in 0..(BottomBlocks - 1)
                                 /\ Destination(z, i) = Allocated(z + 1, i - BottomBlocks)
<1>1. i >= BottomBlocks => i - BottomBlocks \in 0..(BottomBlocks - 1)
  BY GeometryFacts
<1> QED
  BY <1>1, BottomAllocated, GeometryFacts DEF Destination

-----------------------------------------------------------------------------
(* Types.                                                                  *)

TopPbas == {b \in Pbas : IsTop(b)}
Bios == [key : HostKeys, pba : Pbas]

RmwRecords == [pc : {"back up", "write", "write back", "gone"}, tops : Seq(TopPbas),
               saved : Seq(Keys \cup {Garbage}), bio : SUBSET Bios]

\* A running RMW has saved a prefix of the blocks it backs up, and its bio has room in
\* the queue.
RmwTyped ==
  rmw # RmwIdle =>
     /\ rmw \in RmwRecords
     /\ Len(rmw.tops) > 0 /\ Len(rmw.saved) <= Len(rmw.tops)
     /\ rmw.pc = "back up" => Len(rmw.saved) < Len(rmw.tops)
     /\ rmw.pc \in {"write", "write back"} => Len(rmw.saved) = Len(rmw.tops)
     /\ IsFiniteSet(rmw.bio)
     /\ rmw.pc \in {"back up", "write"} => Cardinality(bios) + Cardinality(rmw.bio) <= QueueDepth

\* A running compaction has copied at most as many blocks as it has looked at.
CmpTyped ==
  \/ cmp = CmpIdle
  \/ /\ cmp \in [pc : {"copy"}, zone : Zones, next : 0..TOTAL, out : Seq([key : HostKeys, pba : Nat])]
     /\ cmp.zone + 1 \in Zones
     /\ Len(cmp.out) <= cmp.next
     /\ TOTAL <= MaxMapped

TypeInv ==
  /\ TypeOK
  /\ IsFiniteSet(bios)
  /\ \A k \in Keys : map[k] # None => k \in HostKeys
  /\ RmwTyped
  /\ CmpTyped

LEMMA Constants ==
  /\ MaxMapped \in Nat /\ MaxIncidents \in Nat /\ QueueDepth \in Nat \ {0} /\ MaxBlocks \in Nat \ {0}
  /\ HostKeys \subseteq Keys /\ DiscardKeys \subseteq HostKeys /\ CompactZones \subseteq Zones
  /\ Pbas = Keys /\ None \in Nat /\ Garbage = None
<1>1. None \in Nat
  BY GeometryFacts, SMT DEF None
<1> QED
  BY <1>1, HostAssumption, GeometryAssumption DEF Pbas, Garbage

LEMMA DeviceSize == NumZones * TOTAL \in Nat /\ NumZones * TOTAL <= None
BY GeometryFacts, SMT DEF None

LEMMA NoneIsNoBlock == ASSUME NEW p \in Pbas PROVE p # None /\ p \in Nat
BY Constants, DeviceSize DEF Keys

LEMMA TypeInit == Init => TypeInv
<1> SUFFICES ASSUME Init PROVE TypeInv
  OBVIOUS
<1>1. IsFiniteSet(bios) /\ Cardinality(bios) = 0
  BY FS_EmptySet DEF Init
<1>2. /\ map \in [Keys -> Nat] /\ \A k \in Keys : map[k] = None
      /\ mapSize \in [Zones -> 0..MaxMapped] /\ media \in [Pbas -> Keys \cup {Garbage}]
  BY Constants DEF Init
<1>3. RmwTyped /\ CmpTyped /\ rmw.pc = "idle" /\ cmp.pc = "idle"
  BY DEF Init, RmwTyped, CmpTyped, RmwIdle, CmpIdle
<1>4. /\ used = {} /\ bios = {} /\ written = {} /\ incidents = 0 /\ exposed = {}
      /\ stale = {} /\ freed = FALSE
  BY DEF Init
<1>5. TypeOK
  <2>1. /\ used \subseteq {b \in Pbas : IsTop(b)} /\ bios \subseteq [key : HostKeys, pba : Pbas]
        /\ written \subseteq HostKeys /\ exposed \subseteq HostKeys /\ stale \subseteq HostKeys
        /\ freed \in BOOLEAN
    BY <1>4, Zenon
  <2>2. incidents \in 0..MaxIncidents /\ Cardinality(bios) <= QueueDepth
    BY <1>1, <1>4, Constants
  <2> QED
    BY <1>2, <1>3, <2>1, <2>2, Zenon DEF TypeOK
<1> QED
  BY <1>1, <1>2, <1>3, <1>5 DEF TypeInv

\* A write of n blocks is n bios, all of them to blocks of the device if it fits.
LEMMA BioTyped ==
  ASSUME NEW k \in Keys, NEW n \in Nat, n > 0, NEW target \in Nat, Blocks(k, n) \subseteq HostKeys,
         Fits(target, n)
  PROVE  /\ Bio(k, n, target) \subseteq Bios
         /\ IsFiniteSet(Bio(k, n, target)) /\ Cardinality(Bio(k, n, target)) <= n
         /\ target \in Pbas
<1>1. k \in Nat
  BY KeyZone
<1>2. target + n <= NumZones * TOTAL
  BY DEF Fits
<1>3. \A j \in Blocks(k, n) : target + (j - k) \in Pbas
  BY <1>1, <1>2, DeviceSize DEF Blocks, Pbas, Keys
<1>4. target \in Pbas
  BY <1>2, DeviceSize DEF Pbas, Keys
<1>5. IsFiniteSet(Blocks(k, n)) /\ Cardinality(Blocks(k, n)) = n
  <2>1. k + n - 1 \in Int /\ k <= k + n - 1 /\ (k + n - 1) - k + 1 = n
    BY <1>1
  <2> QED
    BY <1>1, <2>1, FS_Interval DEF Blocks
<1>6. IsFiniteSet(Bio(k, n, target)) /\ Cardinality(Bio(k, n, target)) <= n
  <2> DEFINE f == [j \in Blocks(k, n) |-> [key |-> j, pba |-> target + (j - k)]]
  <2>1. f \in Surjection(Blocks(k, n), Bio(k, n, target))
    BY DEF Bio, Surjection
  <2> QED
    BY <1>5, <2>1, FS_Surjection
<1> QED
  BY <1>3, <1>4, <1>6 DEF Bio, Bios

LEMMA TargetNatural ==
  ASSUME TypeInv, NEW k \in Keys
  PROVE  Target(k) \in Nat
<1>1. ZoneOf(k) \in Zones /\ ZoneOf(k) \in Nat
  BY KeyZone, GeometryFacts DEF Zones
<1>2. map \in [Keys -> Nat] /\ mapSize \in [Zones -> 0..MaxMapped]
  BY DEF TypeInv, TypeOK
<1>3. map[k] \in Nat /\ mapSize[ZoneOf(k)] \in Nat
  BY <1>1, <1>2, Constants
<1> QED
  BY <1>1, <1>3, AllocatedNatural DEF Target

LEMMA BackUpTyped ==
  ASSUME TypeInv, NEW target \in Nat
  PROVE  BackUp(target) \in Seq(TopPbas)
<1>1. <<>> \in Seq(TopPbas)
  BY EmptySeq
<1>2. ASSUME NEW b PROVE IfUsed(b) \in Seq(TopPbas)
  <2>1. b \in used => b \in TopPbas
    BY DEF TypeInv, TypeOK, TopPbas
  <2>2. b \in TopPbas => <<b>> \in Seq(TopPbas)
    OBVIOUS
  <2> QED
    BY <1>1, <2>1, <2>2, Zenon DEF IfUsed
<1>3. ASSUME NEW s \in Seq(TopPbas), NEW t \in Seq(TopPbas) PROVE s \o t \in Seq(TopPbas)
  BY ConcatProperties
<1> QED
  BY <1>1, <1>2, <1>3, Zenon DEF BackUp

LEMMA MapTyped ==
  ASSUME TypeInv, NEW k \in Keys, NEW n \in Nat, NEW target \in Nat, Blocks(k, n) \subseteq HostKeys
  PROVE  /\ Mapped(k, n, target) \in [Keys -> Nat]
         /\ \A j \in Keys : Mapped(k, n, target)[j] # None => j \in HostKeys
<1>1. k \in Nat
  BY KeyZone
<1>2. \A j \in Blocks(k, n) : target + (j - k) \in Nat
  BY <1>1 DEF Blocks
<1> QED
  BY <1>2 DEF Mapped, TypeInv, TypeOK

LEMMA GrownTyped ==
  ASSUME TypeInv, NEW k \in Keys, NEW n \in Nat, Grown(k, n)[ZoneOf(k)] <= MaxMapped
  PROVE  Grown(k, n) \in [Zones -> 0..MaxMapped]
<1>1. ZoneOf(k) \in Zones
  BY KeyZone
<1>2. mapSize \in [Zones -> 0..MaxMapped] /\ mapSize[ZoneOf(k)] + n \in Nat
  <2>1. mapSize \in [Zones -> 0..MaxMapped]
    BY DEF TypeInv, TypeOK
  <2> QED
    BY <1>1, <2>1, Constants
<1>3. CASE Unmapped(k)
  <2>1. Grown(k, n) = [mapSize EXCEPT ![ZoneOf(k)] = mapSize[ZoneOf(k)] + n]
    BY <1>3 DEF Grown
  <2>2. mapSize[ZoneOf(k)] + n <= MaxMapped
    BY <1>1, <1>2, <2>1
  <2> QED
    BY <1>1, <1>2, <2>1, <2>2, Constants
<1> QED
  BY <1>2, <1>3 DEF Grown

LEMMA HostWriteTyped ==
  ASSUME TypeInv, NEW k \in HostKeys, NEW n \in 1..MaxBlocks, HostWrite(k, n)
  PROVE  TypeInv'
<1> DEFINE target == Target(k)
<1>1. k \in Keys /\ n \in Nat /\ n > 0 /\ target \in Nat
  BY Constants, TargetNatural
<1> HIDE DEF target
<1>2. /\ MayWrite(k, n) /\ Fits(target, n)
      /\ map' = Mapped(k, n, target) /\ mapSize' = Grown(k, n)
      /\ used' = Marked(target) /\ media' = Outdate(Blocks(k, n))
      /\ written' = written \cup Blocks(k, n) /\ stale' = stale \ Blocks(k, n)
      /\ UNCHANGED <<cmp, incidents, freed>>
  BY DEF HostWrite, target
<1>3. /\ LockFree /\ Blocks(k, n) \subseteq HostKeys /\ Cardinality(bios) + n <= QueueDepth
      /\ Grown(k, n)[ZoneOf(k)] <= MaxMapped
  BY <1>2 DEF MayWrite
<1>4. /\ Bio(k, n, target) \subseteq Bios /\ IsFiniteSet(Bio(k, n, target))
      /\ Cardinality(Bio(k, n, target)) <= n /\ target \in Pbas
  BY <1>1, <1>2, <1>3, BioTyped
<1>5. /\ map' \in [Keys -> Nat] /\ \A j \in Keys : map'[j] # None => j \in HostKeys
  BY <1>1, <1>2, <1>3, MapTyped
<1>6. mapSize' \in [Zones -> 0..MaxMapped]
  BY <1>1, <1>2, <1>3, GrownTyped
<1>7. /\ used' \subseteq {b \in Pbas : IsTop(b)} /\ media' \in [Pbas -> Keys \cup {Garbage}]
      /\ written' \subseteq HostKeys /\ stale' \subseteq HostKeys /\ freed' \in BOOLEAN
      /\ cmp'.pc \in {"idle", "copy"} /\ incidents' \in 0..MaxIncidents
  BY <1>2, <1>3, <1>4 DEF Marked, Outdate, TypeInv, TypeOK
<1>8. IsFiniteSet(bios) /\ Cardinality(bios) \in Nat /\ Cardinality(Bio(k, n, target)) \in Nat
      /\ bios \subseteq Bios
  BY <1>4, FS_CardinalityType DEF TypeInv, TypeOK, Bios
<1>9. /\ bios' \subseteq Bios /\ IsFiniteSet(bios') /\ Cardinality(bios') <= QueueDepth
      /\ RmwTyped' /\ exposed' \subseteq HostKeys
      /\ rmw'.pc \in {"idle", "back up", "write", "write back", "gone"}
  <2>1. CASE BackUp(target) = <<>>
    <3>1. bios' = bios \cup Bio(k, n, target) /\ rmw' = rmw
          /\ exposed' = (exposed \ Blocks(k, n)) \cup Joining(Bio(k, n, target))
      BY <2>1 DEF HostWrite, target
    <3>2. Cardinality(bios') <= QueueDepth /\ IsFiniteSet(bios')
      <4>1. /\ IsFiniteSet(bios \cup Bio(k, n, target))
            /\ Cardinality(bios \cup Bio(k, n, target)) =
                 Cardinality(bios) + Cardinality(Bio(k, n, target))
                   - Cardinality(bios \cap Bio(k, n, target))
        BY <1>4, <1>8, FS_Union
      <4>2. Cardinality(bios \cap Bio(k, n, target)) \in Nat
        BY <1>8, FS_Intersection, FS_CardinalityType
      <4> QED
        BY <1>1, <1>3, <1>4, <1>8, <3>1, <4>1, <4>2, Constants
    <3>3. rmw' = RmwIdle
      BY <1>3, <3>1 DEF LockFree
    <3>4. Joining(Bio(k, n, target)) \subseteq HostKeys
      BY <1>4 DEF Joining, Bios
    <3> QED
      BY <1>4, <1>8, <3>1, <3>2, <3>3, <3>4 DEF RmwTyped, RmwIdle, TypeInv, TypeOK
  <2>2. CASE BackUp(target) # <<>>
    <3>1. /\ rmw' = [pc |-> "back up", tops |-> BackUp(target), saved |-> <<>>,
                     bio |-> Bio(k, n, target)]
          /\ exposed' = exposed \ Blocks(k, n) /\ bios' = bios
      BY <2>2 DEF HostWrite, target
    <3>2. BackUp(target) \in Seq(TopPbas) /\ Len(BackUp(target)) > 0
      BY <1>1, <2>2, BackUpTyped, EmptySeq, LenProperties
    <3>3. Cardinality(bios) + Cardinality(Bio(k, n, target)) <= QueueDepth
      BY <1>1, <1>3, <1>4, <1>8, Constants
    <3>4. /\ rmw'.pc = "back up" /\ rmw'.tops = BackUp(target) /\ rmw'.saved = <<>>
          /\ rmw'.bio = Bio(k, n, target)
          /\ rmw' \in RmwRecords
      <4>1. <<>> \in Seq(Keys \cup {Garbage})
        BY EmptySeq
      <4> QED
        BY <1>4, <3>1, <3>2, <4>1 DEF RmwRecords
    <3>5. RmwTyped'
      <4>1. Len(<<>>) = 0 /\ Len(BackUp(target)) \in Nat
        BY <3>2, LenProperties
      <4>2. /\ Len(rmw'.tops) > 0 /\ Len(rmw'.saved) <= Len(rmw'.tops)
            /\ Len(rmw'.saved) < Len(rmw'.tops) /\ IsFiniteSet(rmw'.bio)
            /\ Cardinality(bios') + Cardinality(rmw'.bio) <= QueueDepth
        <5>1. Len(rmw'.tops) = Len(BackUp(target)) /\ Len(rmw'.saved) = Len(<<>>)
              /\ IsFiniteSet(rmw'.bio)
              /\ Cardinality(rmw'.bio) = Cardinality(Bio(k, n, target))
              /\ Cardinality(bios') = Cardinality(bios)
          BY <1>4, <3>1, <3>4, Zenon
        <5> QED
          BY <3>2, <3>3, <4>1, <5>1
      <4> QED
        BY <3>4, <4>2, Zenon DEF RmwTyped
    <3> QED
      BY <1>8, <3>1, <3>4, <3>5 DEF TypeInv, TypeOK
  <2> QED
    BY <2>1, <2>2
<1>10. CmpTyped'
  BY <1>2 DEF CmpTyped, TypeInv
<1> QED
  BY <1>5, <1>6, <1>7, <1>9, <1>10 DEF TypeInv, TypeOK, Bios


LEMMA HostWriteRejectedTyped ==
  ASSUME TypeInv, NEW k \in HostKeys, NEW n \in 1..MaxBlocks, HostWriteRejected(k, n)
  PROVE  TypeInv'
<1> DEFINE target == Target(k)
<1>1. k \in Keys /\ n \in Nat /\ target \in Nat
  BY Constants, TargetNatural
<1> HIDE DEF target
<1>2. /\ MayWrite(k, n)
      /\ map' = Mapped(k, n, target) /\ mapSize' = Grown(k, n)
      /\ stale' \subseteq stale
      /\ UNCHANGED <<used, media, bios, written, rmw, cmp, incidents, exposed, freed>>
  BY DEF HostWriteRejected, target
<1>3. /\ map' \in [Keys -> Nat] /\ \A j \in Keys : map'[j] # None => j \in HostKeys
  BY <1>1, <1>2, MapTyped DEF MayWrite
<1>4. mapSize' \in [Zones -> 0..MaxMapped]
  BY <1>1, <1>2, GrownTyped DEF MayWrite
<1> QED
  BY <1>2, <1>3, <1>4 DEF TypeInv, TypeOK, RmwTyped, CmpTyped

LEMMA HostDiscardTyped ==
  ASSUME TypeInv, NEW k \in DiscardKeys, HostDiscard(k)
  PROVE  TypeInv'
<1>1. /\ map' = [map EXCEPT ![k] = None] /\ stale' \subseteq stale
      /\ UNCHANGED <<mapSize, used, media, bios, written, rmw, cmp, incidents, exposed, freed>>
  BY DEF HostDiscard
<1>2. /\ map' \in [Keys -> Nat] /\ \A j \in Keys : map'[j] # None => j \in HostKeys
  BY <1>1, Constants DEF TypeInv, TypeOK
<1> QED
  BY <1>1, <1>2 DEF TypeInv, TypeOK, RmwTyped, CmpTyped

LEMMA BioLandsTyped ==
  ASSUME TypeInv, NEW b \in bios, BioLands(b)
  PROVE  TypeInv'
<1>1. /\ bios' = bios \ {b} /\ media' = [media EXCEPT ![b.pba] = b.key]
      /\ UNCHANGED <<map, mapSize, used, written, rmw, cmp, incidents, exposed, stale, freed>>
  BY DEF BioLands
<1>2. b.key \in Keys
  BY Constants DEF TypeInv, TypeOK
<1>3. media' \in [Pbas -> Keys \cup {Garbage}]
  BY <1>1, <1>2 DEF TypeInv, TypeOK
<1>4. IsFiniteSet(bios') /\ Cardinality(bios') \in Nat /\ Cardinality(bios') <= Cardinality(bios)
      /\ Cardinality(bios) \in Nat
  <2>1. IsFiniteSet(bios) /\ bios' \in SUBSET bios
    BY <1>1 DEF TypeInv
  <2> QED
    BY <2>1, FS_Subset, FS_CardinalityType
<1>5. Cardinality(bios') <= QueueDepth
  <2>1. Cardinality(bios) <= QueueDepth
    BY DEF TypeInv, TypeOK
  <2> QED
    BY <1>4, <2>1, Constants
<1>6. RmwTyped'
  <2>1. CASE rmw = RmwIdle
    BY <1>1, <2>1 DEF RmwTyped
  <2>2. CASE rmw # RmwIdle
    <3>1. RmwTyped /\ Cardinality(rmw.bio) \in Nat
      <4>1. RmwTyped
        BY DEF TypeInv
      <4>2. IsFiniteSet(rmw.bio)
        BY <2>2, <4>1 DEF RmwTyped
      <4> QED
        BY <4>1, <4>2, FS_CardinalityType
    <3>2. Cardinality(bios) + Cardinality(rmw.bio) <= QueueDepth =>
            Cardinality(bios') + Cardinality(rmw.bio) <= QueueDepth
      BY <1>4, <3>1, Constants
    <3> QED
      BY <1>1, <2>2, <3>1, <3>2, Zenon DEF RmwTyped
  <2> QED
    BY <2>1, <2>2
<1> QED
  BY <1>1, <1>3, <1>4, <1>5, <1>6 DEF TypeInv, TypeOK, CmpTyped

-----------------------------------------------------------------------------
(* Types: the RMW thread.                                                  *)

LEMMA LengthFacts ==
  /\ \A n \in Nat : n > 0 => n \in Nat \ {0}
  /\ \A n \in Nat \ {0} : n > 0
  /\ \A m \in Nat, n \in Nat \ {0} : m < n => m + 1 \in Nat /\ m + 1 <= n /\ (m + 1 # n => m + 1 < n)
  /\ \A n \in Nat \ {0} : n # 1 => n - 1 > 0 /\ n - 1 <= n - 1
OBVIOUS

LEMMA RmwRunning ==
  ASSUME TypeInv, rmw.pc # "idle"
  PROVE  /\ rmw \in RmwRecords
         /\ rmw.tops \in Seq(TopPbas) /\ rmw.saved \in Seq(Keys \cup {Garbage}) /\ rmw.bio \subseteq Bios
         /\ Len(rmw.tops) \in Nat \ {0} /\ Len(rmw.saved) \in Nat /\ Len(rmw.saved) <= Len(rmw.tops)
         /\ rmw.pc = "back up" => Len(rmw.saved) < Len(rmw.tops)
         /\ rmw.pc \in {"write", "write back"} => Len(rmw.saved) = Len(rmw.tops)
         /\ IsFiniteSet(rmw.bio) /\ Cardinality(rmw.bio) \in Nat
         /\ rmw.pc \in {"back up", "write"} => Cardinality(bios) + Cardinality(rmw.bio) <= QueueDepth
<1>1. rmw # RmwIdle
  BY DEF RmwIdle
<1>2. /\ rmw \in RmwRecords
      /\ Len(rmw.tops) > 0 /\ Len(rmw.saved) <= Len(rmw.tops)
      /\ rmw.pc = "back up" => Len(rmw.saved) < Len(rmw.tops)
      /\ rmw.pc \in {"write", "write back"} => Len(rmw.saved) = Len(rmw.tops)
      /\ IsFiniteSet(rmw.bio)
      /\ rmw.pc \in {"back up", "write"} => Cardinality(bios) + Cardinality(rmw.bio) <= QueueDepth
  BY <1>1, Zenon DEF TypeInv, RmwTyped
<1>3. rmw.tops \in Seq(TopPbas) /\ rmw.saved \in Seq(Keys \cup {Garbage}) /\ rmw.bio \subseteq Bios
  BY <1>2 DEF RmwRecords
<1>4. Len(rmw.tops) \in Nat /\ Len(rmw.saved) \in Nat /\ Cardinality(rmw.bio) \in Nat
  BY <1>2, <1>3, FS_CardinalityType, LenProperties
<1>5. Len(rmw.tops) \in Nat \ {0}
  BY <1>2, <1>4, LengthFacts, Zenon
<1> QED
  BY <1>2, <1>3, <1>4, <1>5, Zenon

LEMMA InFlightKeys ==
  ASSUME TypeInv, NEW S
  PROVE  KeysInFlightTo(S) \subseteq HostKeys
BY DEF KeysInFlightTo, TypeInv, TypeOK

\* A step of the thread, its record given field by field.
LEMMA RmwStepTyped ==
  ASSUME TypeInv, NEW pc \in {"back up", "write", "write back", "gone"},
         NEW tops \in Seq(TopPbas), NEW saved \in Seq(Keys \cup {Garbage}), rmw.pc # "idle",
         rmw' = [rmw EXCEPT !.pc = pc, !.tops = tops, !.saved = saved],
         Len(tops) > 0, Len(saved) <= Len(tops), pc = "back up" => Len(saved) < Len(tops),
         pc \in {"write", "write back"} => Len(saved) = Len(tops),
         pc \in {"back up", "write"} => rmw.pc = "back up" /\ bios' = bios
  PROVE  RmwTyped' /\ rmw'.pc = pc
<1>1. /\ rmw \in RmwRecords /\ IsFiniteSet(rmw.bio)
      /\ rmw.pc = "back up" => Cardinality(bios) + Cardinality(rmw.bio) <= QueueDepth
  BY RmwRunning, Zenon
<1>2. /\ rmw'.pc = pc /\ rmw'.tops = tops /\ rmw'.saved = saved /\ rmw'.bio = rmw.bio
      /\ rmw' \in RmwRecords
  BY <1>1 DEF RmwRecords
<1> QED
  BY <1>1, <1>2, Zenon DEF RmwTyped

LEMMA RmwReadTyped ==
  ASSUME TypeInv, RmwRead
  PROVE  TypeInv'
<1> DEFINE next == Len(rmw.saved) + 1
           saved == Append(rmw.saved, media[rmw.tops[next]])
           pc == IF Len(saved) = Len(rmw.tops) THEN "write" ELSE rmw.pc
<1>1. /\ rmw.pc = "back up"
      /\ rmw' = [rmw EXCEPT !.saved = saved, !.pc = pc]
      /\ exposed' = exposed \cup KeysInFlightTo({rmw.tops[next]})
      /\ UNCHANGED <<map, mapSize, used, media, bios, written, cmp, incidents, stale, freed>>
  BY DEF RmwRead
<1>2. /\ rmw \in RmwRecords
      /\ rmw.tops \in Seq(TopPbas) /\ rmw.saved \in Seq(Keys \cup {Garbage})
      /\ Len(rmw.tops) \in Nat \ {0} /\ Len(rmw.saved) \in Nat /\ Len(rmw.saved) < Len(rmw.tops)
  BY <1>1, RmwRunning, Zenon
<1>3. media[rmw.tops[next]] \in Keys \cup {Garbage}
  <2>1. next \in 1..Len(rmw.tops)
    <3> HIDE DEF saved
    <3> QED BY <1>2
  <2> HIDE DEF next
  <2>2. rmw.tops[next] \in TopPbas
    BY <1>2, <2>1, ElementOfSeq
  <2> QED
    BY <2>2 DEF TopPbas, TypeInv, TypeOK
<1>4. saved \in Seq(Keys \cup {Garbage}) /\ Len(saved) = Len(rmw.saved) + 1
  <2> DEFINE e == media[rmw.tops[next]]
  <2> HIDE DEF e
  <2>1. e \in Keys \cup {Garbage}
    BY <1>3 DEF e
  <2>2. Append(rmw.saved, e) \in Seq(Keys \cup {Garbage}) /\ Len(Append(rmw.saved, e)) = Len(rmw.saved) + 1
    BY <1>2, <2>1, AppendProperties
  <2> QED
    BY <2>2 DEF e
<1> HIDE DEF saved, next
<1>5. rmw' = [rmw EXCEPT !.pc = pc, !.tops = rmw.tops, !.saved = saved]
  BY <1>1, <1>2 DEF RmwRecords
<1>6. RmwTyped' /\ rmw'.pc = pc
  <2>1. /\ Len(rmw.tops) > 0 /\ Len(saved) <= Len(rmw.tops)
        /\ Len(saved) # Len(rmw.tops) => Len(saved) < Len(rmw.tops)
    BY <1>2, <1>4, LengthFacts, SMTT(30)
  <2>2. /\ pc = "back up" => Len(saved) < Len(rmw.tops)
        /\ pc \in {"write", "write back"} => Len(saved) = Len(rmw.tops)
        /\ pc \in {"back up", "write", "write back", "gone"}
    BY <1>1, <2>1, Zenon
  <2> HIDE DEF pc
  <2> QED
    BY <1>1, <1>2, <1>4, <1>5, <2>1, <2>2, RmwStepTyped
<1>7. exposed' \subseteq HostKeys /\ rmw'.pc \in {"back up", "write"}
  BY <1>1, <1>6, InFlightKeys DEF TypeInv, TypeOK
<1> QED
  BY <1>1, <1>6, <1>7 DEF TypeInv, TypeOK, CmpTyped

LEMMA RmwGoneTyped ==
  ASSUME TypeInv, RmwGone
  PROVE  TypeInv'
<1>1. /\ rmw.pc = "back up" /\ rmw' = [rmw EXCEPT !.pc = "gone"]
      /\ UNCHANGED <<map, mapSize, used, media, bios, written, cmp, incidents, exposed, stale, freed>>
  BY DEF RmwGone
<1>2. /\ rmw \in RmwRecords /\ Len(rmw.tops) \in Nat \ {0} /\ Len(rmw.saved) <= Len(rmw.tops)
      /\ rmw.tops \in Seq(TopPbas) /\ rmw.saved \in Seq(Keys \cup {Garbage})
  BY <1>1, RmwRunning, Zenon
<1>3. rmw' = [rmw EXCEPT !.pc = "gone", !.tops = rmw.tops, !.saved = rmw.saved]
  BY <1>1, <1>2 DEF RmwRecords
<1>4. RmwTyped' /\ rmw'.pc = "gone"
  <2>1. Len(rmw.tops) > 0
    BY <1>2
  <2> QED
    BY <1>1, <1>2, <1>3, <2>1, RmwStepTyped
<1> QED
  BY <1>1, <1>4 DEF TypeInv, TypeOK, CmpTyped

LEMMA RmwWriteTyped ==
  ASSUME TypeInv, RmwWrite
  PROVE  TypeInv'
<1>1. /\ rmw.pc = "write" /\ rmw' = [rmw EXCEPT !.pc = "write back"]
      /\ bios' = bios \cup rmw.bio /\ exposed' = exposed \cup Joining(rmw.bio)
      /\ UNCHANGED <<map, mapSize, used, media, written, cmp, incidents, stale, freed>>
  BY DEF RmwWrite
<1>2. /\ rmw \in RmwRecords /\ Len(rmw.tops) \in Nat \ {0} /\ Len(rmw.saved) = Len(rmw.tops)
      /\ rmw.tops \in Seq(TopPbas) /\ rmw.saved \in Seq(Keys \cup {Garbage}) /\ rmw.bio \subseteq Bios
      /\ IsFiniteSet(rmw.bio) /\ Cardinality(rmw.bio) \in Nat
      /\ Cardinality(bios) + Cardinality(rmw.bio) <= QueueDepth
  BY <1>1, RmwRunning, Zenon
<1>3. rmw' = [rmw EXCEPT !.pc = "write back", !.tops = rmw.tops, !.saved = rmw.saved]
  BY <1>1, <1>2 DEF RmwRecords
<1>4. RmwTyped' /\ rmw'.pc = "write back"
  <2>1. Len(rmw.tops) > 0 /\ Len(rmw.saved) <= Len(rmw.tops)
    BY <1>2
  <2> QED
    BY <1>1, <1>2, <1>3, <2>1, RmwStepTyped
<1>5. Joining(rmw.bio) \subseteq HostKeys
  BY <1>2 DEF Joining, Bios
<1>6. IsFiniteSet(bios) /\ bios \subseteq Bios /\ Cardinality(bios) \in Nat
  BY FS_CardinalityType DEF TypeInv, TypeOK, Bios
<1>7. IsFiniteSet(bios') /\ Cardinality(bios') <= QueueDepth
  <2>1. /\ IsFiniteSet(bios')
        /\ Cardinality(bios') =
             Cardinality(bios) + Cardinality(rmw.bio) - Cardinality(bios \cap rmw.bio)
    BY <1>1, <1>2, <1>6, FS_Union, Zenon
  <2>2. Cardinality(bios \cap rmw.bio) \in Nat
    BY <1>6, FS_Intersection, FS_CardinalityType
  <2> QED
    BY <1>2, <1>6, <2>1, <2>2, Constants
<1> QED
  BY <1>1, <1>2, <1>4, <1>5, <1>6, <1>7 DEF TypeInv, TypeOK, CmpTyped, Bios

LEMMA RmwWriteBackTyped ==
  ASSUME TypeInv, RmwWriteBack
  PROVE  TypeInv'
<1>1. /\ rmw.pc = "write back"
      /\ media' = [media EXCEPT ![Head(rmw.tops)] = SavedFirst]
      /\ rmw' = IF Len(rmw.tops) = 1 THEN RmwIdle
                ELSE [rmw EXCEPT !.tops = Tail(rmw.tops), !.saved = Tail(rmw.saved)]
      /\ UNCHANGED <<map, mapSize, used, bios, written, cmp, incidents, exposed, stale, freed>>
  BY DEF RmwWriteBack
<1>2. /\ rmw \in RmwRecords
      /\ rmw.tops \in Seq(TopPbas) /\ rmw.saved \in Seq(Keys \cup {Garbage})
      /\ Len(rmw.tops) \in Nat \ {0} /\ Len(rmw.saved) = Len(rmw.tops)
  BY <1>1, RmwRunning, Zenon
<1>3. rmw.tops # <<>> /\ rmw.saved # <<>>
  BY <1>2, EmptySeq
<1>4. Tail(rmw.tops) \in Seq(TopPbas) /\ Len(Tail(rmw.tops)) = Len(rmw.tops) - 1
  BY <1>2, <1>3, HeadTailProperties
<1>5. /\ Head(rmw.saved) \in Keys \cup {Garbage}
      /\ Tail(rmw.saved) \in Seq(Keys \cup {Garbage}) /\ Len(Tail(rmw.saved)) = Len(rmw.saved) - 1
  BY <1>2, <1>3, HeadTailProperties
<1>6. media' \in [Pbas -> Keys \cup {Garbage}]
  BY <1>1, <1>5 DEF SavedFirst, TypeInv, TypeOK
<1>7. RmwTyped' /\ rmw'.pc \in {"idle", "write back"}
  <2>1. CASE Len(rmw.tops) = 1
    BY <1>1, <2>1 DEF RmwTyped, RmwIdle
  <2>2. CASE Len(rmw.tops) # 1
    <3>1. rmw' = [rmw EXCEPT !.pc = "write back", !.tops = Tail(rmw.tops), !.saved = Tail(rmw.saved)]
      BY <1>1, <1>2, <2>2 DEF RmwRecords
    <3>2. Len(Tail(rmw.tops)) > 0 /\ Len(Tail(rmw.saved)) = Len(Tail(rmw.tops))
          /\ Len(Tail(rmw.saved)) <= Len(Tail(rmw.tops))
      BY <1>2, <1>4, <1>5, <2>2, LengthFacts, Zenon
    <3> QED
      BY <1>1, <1>4, <1>5, <3>1, <3>2, RmwStepTyped
  <2> QED
    BY <2>1, <2>2
<1> QED
  BY <1>1, <1>6, <1>7 DEF TypeInv, TypeOK, CmpTyped

-----------------------------------------------------------------------------
(* Types: compaction and resets.                                           *)

LEMMA CmpRunning ==
  ASSUME TypeInv, cmp.pc # "idle"
  PROVE  /\ cmp \in [pc : {"copy"}, zone : Zones, next : 0..TOTAL,
                     out : Seq([key : HostKeys, pba : Nat])]
         /\ cmp.zone + 1 \in Zones /\ cmp.zone \in Nat
         /\ Len(cmp.out) \in Nat /\ Len(cmp.out) <= cmp.next
         /\ TOTAL <= MaxMapped
<1>1. cmp # CmpIdle
  BY DEF CmpIdle
<1>2. CmpTyped
  BY DEF TypeInv
<1>3. Zones \subseteq Nat
  BY GeometryFacts DEF Zones
<1> QED
  BY <1>1, <1>2, <1>3, LenProperties DEF CmpTyped

LEMMA ZoneKey ==
  ASSUME NEW z \in Zones, NEW i \in 0..(TOTAL - 1)
  PROVE  ZoneStart(z) + i \in Keys /\ ZoneOf(ZoneStart(z) + i) = z /\ ZoneStart(z) \in Nat
<1>1. z \in Nat /\ z < NumZones /\ z * TOTAL \in Nat
  BY GeometryFacts, SMT DEF Zones
<1>2. (z + 1) * TOTAL <= NumZones * TOTAL /\ (z + 1) * TOTAL = z * TOTAL + TOTAL
  BY <1>1, GeometryFacts, SMT
<1>3. z * TOTAL + i \in Keys
  BY <1>1, <1>2, DeviceSize, GeometryFacts DEF Keys
<1>4. (z * TOTAL + i) \div TOTAL = z
  BY <1>1, GeometryFacts, DivModUnique
<1> QED
  BY <1>1, <1>3, <1>4 DEF ZoneStart, ZoneOf

LEMMA CompactBeginTyped ==
  ASSUME TypeInv, NEW z \in CompactZones, CompactBegin(z)
  PROVE  TypeInv'
<1>1. /\ z + 1 \in Zones /\ mapSize[z] >= TOTAL
      /\ cmp' = [pc |-> "copy", zone |-> z, next |-> 0, out |-> <<>>]
      /\ UNCHANGED <<map, mapSize, used, media, bios, written, rmw, incidents, exposed, stale, freed>>
  BY DEF CompactBegin
<1>2. z \in Zones /\ mapSize[z] \in 0..MaxMapped
  BY Constants DEF TypeInv, TypeOK
<1>3. TOTAL <= MaxMapped /\ 0 \in 0..TOTAL
  BY <1>1, <1>2, GeometryFacts, Constants
<1>4. <<>> \in Seq([key : HostKeys, pba : Nat]) /\ Len(<<>>) = 0
  BY EmptySeq
<1>5. /\ cmp' \in [pc : {"copy"}, zone : Zones, next : 0..TOTAL,
                   out : Seq([key : HostKeys, pba : Nat])]
      /\ cmp'.zone = z /\ cmp'.next = 0 /\ cmp'.out = <<>> /\ cmp'.pc = "copy"
  BY <1>1, <1>2, <1>3, <1>4
<1>6. CmpTyped'
  BY <1>1, <1>3, <1>4, <1>5 DEF CmpTyped
<1> QED
  BY <1>1, <1>5, <1>6 DEF TypeInv, TypeOK, RmwTyped

LEMMA CompactBlockTyped ==
  ASSUME TypeInv, CompactBlock
  PROVE  TypeInv'
<1> DEFINE key == ZoneStart(cmp.zone) + cmp.next
           dest == Destination(cmp.zone, Len(cmp.out))
<1>1. /\ cmp.pc = "copy" /\ cmp.next < TOTAL
      /\ UNCHANGED <<map, mapSize, used, bios, written, rmw, incidents, stale, freed>>
  BY DEF CompactBlock
<1>2. /\ cmp \in [pc : {"copy"}, zone : Zones, next : 0..TOTAL,
                  out : Seq([key : HostKeys, pba : Nat])]
      /\ cmp.zone + 1 \in Zones /\ cmp.zone \in Nat
      /\ Len(cmp.out) \in Nat /\ Len(cmp.out) <= cmp.next
      /\ TOTAL <= MaxMapped
  BY <1>1, CmpRunning
<1>3. cmp.next \in 0..(TOTAL - 1) /\ Len(cmp.out) \in 0..(TOTAL - 1) /\ cmp.next + 1 \in 0..TOTAL
  BY <1>1, <1>2, GeometryFacts
<1>4. key \in Keys /\ dest \in Nat
  BY <1>2, <1>3, ZoneKey, DestinationNatural
<1> HIDE DEF key, dest
<1>5. CASE map[key] = None
  <2>1. cmp' = [cmp EXCEPT !.next = cmp.next + 1] /\ media' = media /\ exposed' = exposed
    BY <1>5 DEF CompactBlock, key
  <2>2. CmpTyped' /\ cmp'.pc = "copy"
    <3>1. /\ cmp' \in [pc : {"copy"}, zone : Zones, next : 0..TOTAL,
                       out : Seq([key : HostKeys, pba : Nat])]
          /\ cmp'.zone = cmp.zone /\ cmp'.next = cmp.next + 1 /\ cmp'.out = cmp.out
      BY <1>2, <1>3, <2>1
    <3> QED
      BY <1>2, <3>1 DEF CmpTyped
  <2> QED
    BY <1>1, <2>1, <2>2 DEF TypeInv, TypeOK, RmwTyped
<1>6. CASE map[key] # None
  <2> DEFINE out == Append(cmp.out, [key |-> key, pba |-> dest])
  <2>1. /\ media' = [media EXCEPT ![dest] = IF map[key] \in Pbas THEN media[map[key]] ELSE Garbage]
        /\ cmp' = [cmp EXCEPT !.next = cmp.next + 1, !.out = out]
        /\ exposed' = exposed \cup KeysInFlightTo({map[key], dest})
                        \cup (IF KeysInFlightTo({dest}) = {} THEN {} ELSE {key})
    BY <1>6 DEF CompactBlock, key, dest
  <2>2. key \in HostKeys
    BY <1>4, <1>6 DEF TypeInv
  <2>3. out \in Seq([key : HostKeys, pba : Nat]) /\ Len(out) = Len(cmp.out) + 1
    BY <1>2, <1>4, <2>2, AppendProperties
  <2> HIDE DEF out
  <2>4. CmpTyped' /\ cmp'.pc = "copy"
    <3>1. /\ cmp' \in [pc : {"copy"}, zone : Zones, next : 0..TOTAL,
                       out : Seq([key : HostKeys, pba : Nat])]
          /\ cmp'.zone = cmp.zone /\ cmp'.next = cmp.next + 1 /\ cmp'.out = out
      BY <1>2, <1>3, <2>1, <2>3
    <3>2. Len(cmp'.out) = Len(cmp.out) + 1
      BY <2>3, <3>1, Zenon
    <3> QED
      BY <1>2, <1>3, <3>1, <3>2 DEF CmpTyped
  <2>5. media' \in [Pbas -> Keys \cup {Garbage}]
    BY <2>1 DEF TypeInv, TypeOK
  <2>6. exposed' \subseteq HostKeys
    BY <2>1, <2>2, InFlightKeys DEF TypeInv, TypeOK
  <2> QED
    BY <1>1, <2>4, <2>5, <2>6 DEF TypeInv, TypeOK, RmwTyped
<1> QED
  BY <1>5, <1>6

LEMMA IncidentsTyped ==
  ASSUME TypeInv, incidents' = incidents \/ (incidents < MaxIncidents /\ incidents' = incidents + 1)
  PROVE  incidents' \in 0..MaxIncidents
<1>1. incidents \in 0..MaxIncidents
  BY DEF TypeInv, TypeOK
<1> QED
  BY <1>1, Constants

LEMMA CompactFailsTyped ==
  ASSUME TypeInv, CompactFails
  PROVE  TypeInv'
<1>1. /\ incidents' = incidents \/ (incidents < MaxIncidents /\ incidents' = incidents + 1)
      /\ cmp' = CmpIdle /\ exposed' \subseteq exposed \cup written
      /\ UNCHANGED <<map, mapSize, used, media, bios, written, rmw, stale, freed>>
  BY DEF CompactFails
<1>2. incidents' \in 0..MaxIncidents
  BY <1>1, IncidentsTyped
<1>3. CmpTyped' /\ cmp'.pc = "idle"
  BY <1>1 DEF CmpTyped, CmpIdle
<1> QED
  BY <1>1, <1>2, <1>3 DEF TypeInv, TypeOK, RmwTyped

LEMMA SizesTyped ==
  ASSUME TypeInv, NEW z \in Zones, z + 1 \in Zones, NEW live \in 0..TOTAL, TOTAL <= MaxMapped
  PROVE  Sizes(z, live) \in [Zones -> 0..MaxMapped]
<1>1. mapSize \in [Zones -> 0..MaxMapped]
  BY DEF TypeInv, TypeOK
<1>2. /\ BottomBlocks \in 0..MaxMapped /\ live \in 0..MaxMapped /\ 0 \in 0..MaxMapped
      /\ live > BottomBlocks => live - BottomBlocks \in 0..MaxMapped
  BY GeometryFacts, Constants
<1> QED
  BY <1>1, <1>2, Zenon DEF Sizes

LEMMA MovedPba ==
  ASSUME TypeInv, NEW j \in Keys, cmp.pc = "copy", Moved(j) # {}
  PROVE  /\ cmp.out[CHOOSE i \in Moved(j) : TRUE].pba \in Nat
         /\ j \in HostKeys
<1>1. PICK i \in Moved(j) : TRUE
  OBVIOUS
<1>2. (CHOOSE h \in Moved(j) : TRUE) \in Moved(j)
  BY <1>1
<1>3. cmp.out \in Seq([key : HostKeys, pba : Nat])
  BY CmpRunning
<1>4. \A h \in Moved(j) : cmp.out[h] \in [key : HostKeys, pba : Nat] /\ cmp.out[h].key = j
  BY <1>3, LenProperties, ElementOfSeq DEF Moved
<1> QED
  BY <1>2, <1>4

LEMMA CompactEndTyped ==
  ASSUME TypeInv, CompactEnd
  PROVE  TypeInv'
<1>1. /\ cmp.pc = "copy"
      /\ map' = [j \in Keys |->
           IF Moved(j) # {} THEN cmp.out[CHOOSE i \in Moved(j) : TRUE].pba ELSE map[j]]
      /\ mapSize' = Sizes(cmp.zone, Len(cmp.out))
      /\ used' \subseteq used /\ cmp' = CmpIdle
      /\ exposed' \subseteq exposed \cup stale /\ stale' \subseteq stale
      /\ UNCHANGED <<media, bios, written, rmw, incidents, freed>>
  BY DEF CompactEnd
<1>2. mapSize' \in [Zones -> 0..MaxMapped]
  <2>1. /\ cmp.zone \in Zones /\ cmp.zone + 1 \in Zones /\ TOTAL <= MaxMapped
        /\ Len(cmp.out) \in 0..TOTAL
    <3>1. /\ cmp \in [pc : {"copy"}, zone : Zones, next : 0..TOTAL,
                     out : Seq([key : HostKeys, pba : Nat])]
          /\ cmp.zone + 1 \in Zones /\ Len(cmp.out) \in Nat /\ Len(cmp.out) <= cmp.next
          /\ TOTAL <= MaxMapped
      BY <1>1, CmpRunning
    <3> QED
      BY <3>1, GeometryFacts
  <2> QED
    BY <1>1, <2>1, SizesTyped
<1>3. /\ map' \in [Keys -> Nat] /\ \A j \in Keys : map'[j] # None => j \in HostKeys
  BY <1>1, MovedPba DEF TypeInv, TypeOK
<1>4. CmpTyped' /\ cmp'.pc = "idle"
  BY <1>1 DEF CmpTyped, CmpIdle
<1> QED
  BY <1>1, <1>2, <1>3, <1>4 DEF TypeInv, TypeOK, RmwTyped

LEMMA MayResetTyped ==
  ASSUME TypeInv, MayReset
  PROVE  incidents' \in 0..MaxIncidents
BY IncidentsTyped DEF MayReset

LEMMA ResetZonesTyped ==
  ASSUME TypeInv, ResetZones
  PROVE  TypeInv'
<1>1. /\ stale' = {k \in Keys : map[k] # None} /\ mapSize' = [z \in Zones |-> 0]
      /\ used' = {} /\ written' = {}
      /\ UNCHANGED <<map, media, bios, rmw, cmp, exposed, freed>>
  BY DEF ResetZones
<1>2. mapSize' \in [Zones -> 0..MaxMapped] /\ stale' \subseteq HostKeys
  BY <1>1, Constants DEF TypeInv
<1>3. incidents' \in 0..MaxIncidents
  BY MayResetTyped DEF ResetZones
<1> QED
  BY <1>1, <1>2, <1>3 DEF TypeInv, TypeOK, RmwTyped, CmpTyped

LEMMA ResetZonesFailsTyped ==
  ASSUME TypeInv, ResetZonesFails
  PROVE  TypeInv'
<1>1. /\ freed' = TRUE
      /\ UNCHANGED <<map, mapSize, used, media, bios, written, rmw, cmp, exposed, stale>>
  BY DEF ResetZonesFails
<1>2. incidents' \in 0..MaxIncidents /\ freed' \in BOOLEAN
  BY <1>1, MayResetTyped, Zenon DEF ResetZonesFails
<1> QED
  BY <1>1, <1>2 DEF TypeInv, TypeOK, RmwTyped, CmpTyped

LEMMA TypeStep == TypeInv /\ [Next]_vars => TypeInv'
<1> SUFFICES ASSUME TypeInv, [Next]_vars PROVE TypeInv'
  OBVIOUS
<1>1. CASE UNCHANGED vars
  BY <1>1 DEF vars, TypeInv, TypeOK, RmwTyped, CmpTyped
<1>2. CASE Next
  BY <1>2, HostWriteTyped, HostWriteRejectedTyped, HostDiscardTyped, BioLandsTyped, RmwReadTyped,
     RmwGoneTyped, RmwWriteTyped, RmwWriteBackTyped, CompactBeginTyped, CompactBlockTyped,
     CompactFailsTyped, CompactEndTyped, ResetZonesTyped, ResetZonesFailsTyped DEF Next
<1> QED
  BY <1>1, <1>2

LEMMA TypesKept == Spec => []TypeInv
BY TypeInit, TypeStep, PTL DEF Spec

\* The types of the variables, for every geometry, host and bound: only blocks of top
\* tracks are marked used, z_map_size stays within what was allocated through a write, a
\* compaction never gives a zone more blocks than it has, and the queue is never overrun.
THEOREM TypeCorrect == Spec => []TypeOK
BY TypesKept, PTL DEF TypeInv


-----------------------------------------------------------------------------
(* Where the blocks are: writes of one block, in zones that are not        *)
(* allocated past their end.                                               *)

SingleBlocks == MaxBlocks = 1

\* Past its last block a zone would allocate blocks of the next zone, if there is one.
ZonesHold == NumZones = 1 \/ (MaxMapped <= TOTAL /\ EvenTracks)

\* A compaction fills the next zone with blocks of its own, so no zone is compacted next
\* to another that is.
Compactable == {z \in CompactZones : z + 1 \in Zones}
CompactsApart == \A z \in Compactable : z + 1 \notin Compactable

LEMMA ZoneNatural == \A z \in Zones : z \in Nat
BY GeometryFacts DEF Zones

LEMMA AllocatedApart ==
  ASSUME ZonesHold, NEW y \in Zones, NEW z \in Zones, NEW m \in 0..(MaxMapped - 1),
         NEW n \in 0..(MaxMapped - 1), Allocated(y, m) = Allocated(z, n)
  PROVE  y = z /\ m = n
<1>1. y \in Nat /\ z \in Nat /\ m \in Nat /\ n \in Nat
  BY ZoneNatural, Constants
<1>2. y = z
  <2>1. CASE NumZones = 1
    BY <2>1 DEF Zones
  <2>2. CASE MaxMapped <= TOTAL /\ EvenTracks
    <3>1. m < TOTAL /\ n < TOTAL
      BY <2>2, Constants, GeometryFacts
    <3> QED
      BY <1>1, <2>2, <3>1, AllocatedInZone
  <2> QED
    BY <2>1, <2>2 DEF ZonesHold
<1>3. m = n
  BY <1>1, <1>2, AllocatedInjective
<1> QED
  BY <1>2, <1>3

\* Two zones or more: whatever a zone allocates is one of its blocks.
LEMMA AllocatedPba ==
  ASSUME ZonesHold, NumZones # 1, NEW z \in Zones, NEW n \in 0..(MaxMapped - 1)
  PROVE  /\ ZoneOf(Allocated(z, n)) = z /\ Allocated(z, n) \in Pbas
         /\ IsTop(Allocated(z, n)) <=> n >= BottomBlocks
<1>1. z \in Nat /\ n \in Nat /\ n < TOTAL /\ EvenTracks
  BY ZoneNatural, Constants, GeometryFacts DEF ZonesHold
<1>2. Row(n) \in 0..(TRACKS - 1) /\ Column(n) \in 0..(Group - 1)
  BY <1>1, RowInZone, AllocatedPosition, GeometryFacts
<1>3. Row(n) * Group + Column(n) \in 0..(TOTAL - 1)
  BY <1>2, InGroups
<1>4. Allocated(z, n) = ZoneStart(z) + (Row(n) * Group + Column(n))
  BY <1>1, AllocatedPosition DEF ZoneStart
<1>5. Allocated(z, n) \in Pbas
  BY <1>3, <1>4, ZoneKey, Constants
<1> QED
  BY <1>1, <1>5, AllocatedInZone

LEMMA DestinationPba ==
  ASSUME ZonesHold, TOTAL <= MaxMapped, NEW z \in Zones, z + 1 \in Zones, NEW i \in 0..(TOTAL - 1)
  PROVE  /\ Destination(z, i) \in Pbas /\ ~ IsTop(Destination(z, i))
         /\ ZoneOf(Destination(z, i)) \in {z, z + 1}
         /\ i < BottomBlocks => Destination(z, i) = Allocated(z, i)
         /\ i >= BottomBlocks => /\ i - BottomBlocks \in 0..(BottomBlocks - 1)
                                 /\ Destination(z, i) = Allocated(z + 1, i - BottomBlocks)
<1>1. z \in Nat /\ NumZones # 1
  BY ZoneNatural, GeometryFacts DEF Zones
<1>2. /\ i < BottomBlocks => Destination(z, i) = Allocated(z, i)
      /\ i >= BottomBlocks => /\ i - BottomBlocks \in 0..(BottomBlocks - 1)
                              /\ Destination(z, i) = Allocated(z + 1, i - BottomBlocks)
  BY <1>1, DestinationNatural
<1>3. CASE i < BottomBlocks
  <2>1. i \in 0..(MaxMapped - 1) /\ ~ (i >= BottomBlocks)
    BY <1>3, Constants, GeometryFacts
  <2> QED
    BY <1>1, <1>2, <1>3, <2>1, AllocatedPba
<1>4. CASE i >= BottomBlocks
  <2>1. /\ i - BottomBlocks \in 0..(MaxMapped - 1)
        /\ ~ (i - BottomBlocks >= BottomBlocks)
        /\ ~ (i < BottomBlocks)
    BY <1>2, <1>4, Constants, GeometryFacts
  <2> QED
    BY <1>1, <1>2, <1>4, <2>1, AllocatedPba
<1> QED
  BY <1>3, <1>4, GeometryFacts

LEMMA DestinationInjective ==
  ASSUME ZonesHold, TOTAL <= MaxMapped, NEW z \in Zones, z + 1 \in Zones,
         NEW i \in 0..(TOTAL - 1), NEW j \in 0..(TOTAL - 1), Destination(z, i) = Destination(z, j)
  PROVE  i = j
<1>1. /\ i < BottomBlocks => Destination(z, i) = Allocated(z, i)
      /\ i >= BottomBlocks => /\ i - BottomBlocks \in 0..(BottomBlocks - 1)
                              /\ Destination(z, i) = Allocated(z + 1, i - BottomBlocks)
      /\ j < BottomBlocks => Destination(z, j) = Allocated(z, j)
      /\ j >= BottomBlocks => /\ j - BottomBlocks \in 0..(BottomBlocks - 1)
                              /\ Destination(z, j) = Allocated(z + 1, j - BottomBlocks)
  BY DestinationPba
<1>2. /\ \A h \in 0..(TOTAL - 1) : h \in 0..(MaxMapped - 1)
      /\ \A h \in 0..(BottomBlocks - 1) : h \in 0..(MaxMapped - 1)
      /\ z # z + 1
  BY Constants, GeometryFacts, ZoneNatural
<1>3. CASE i < BottomBlocks /\ j < BottomBlocks
  <2>1. Allocated(z, i) = Allocated(z, j)
    BY <1>1, <1>3, Zenon
  <2>2. i \in 0..(MaxMapped - 1) /\ j \in 0..(MaxMapped - 1)
    BY <1>2
  <2> QED
    BY <2>1, <2>2, AllocatedApart, ZenonT(40)
<1>4. CASE i >= BottomBlocks /\ j >= BottomBlocks
  <2>1. i - BottomBlocks = j - BottomBlocks
    BY <1>1, <1>2, <1>4, AllocatedApart
  <2> QED
    BY <1>4, <2>1, GeometryFacts
<1>5. CASE i < BottomBlocks /\ j >= BottomBlocks
  <2>1. Allocated(z, i) = Allocated(z + 1, j - BottomBlocks)
    BY <1>1, <1>5, Zenon
  <2>2. i \in 0..(MaxMapped - 1) /\ j - BottomBlocks \in 0..(MaxMapped - 1)
    BY <1>1, <1>2, <1>5
  <2> QED
    BY <1>2, <2>1, <2>2, AllocatedApart, Zenon
<1>6. CASE i >= BottomBlocks /\ j < BottomBlocks
  BY <1>1, <1>2, <1>6, AllocatedApart
<1> QED
  BY <1>3, <1>4, <1>5, <1>6, GeometryFacts

Placed(k) == map[k] # None /\ k \notin stale

\* The key's block is the i-th that zone y allocated: the key's own zone, or the next one
\* after a compaction.
LocatedAt(k, y, i) ==
  /\ i < mapSize[y] /\ map[k] = Allocated(y, i)
  /\ y = ZoneOf(k) \/ (y = ZoneOf(k) + 1 /\ ZoneOf(k) \in Compactable)
AllLocated == \A k \in Keys : Placed(k) => \E y \in Zones, i \in Nat : LocatedAt(k, y, i)

Apart == \A j, k \in Keys : Placed(j) /\ Placed(k) /\ j # k => map[j] # map[k]
TopsMarked == \A k \in Keys : Placed(k) /\ map[k] \in Pbas /\ IsTop(map[k]) => map[k] \in used

\* What a running compaction has copied: every live key up to the next one, in order, to
\* the bottom blocks of two zones of which the second is empty.
CopyOrder ==
  cmp.pc = "copy" =>
    /\ cmp.zone \in Compactable /\ mapSize[cmp.zone + 1] = 0 /\ rmw = RmwIdle
    /\ \A i \in 1..Len(cmp.out) :
         /\ cmp.out[i].pba = Destination(cmp.zone, i - 1)
         /\ ZoneStart(cmp.zone) <= cmp.out[i].key
         /\ cmp.out[i].key < ZoneStart(cmp.zone) + cmp.next
         /\ map[cmp.out[i].key] # None
    /\ \A i, j \in 1..Len(cmp.out) : i < j => cmp.out[i].key < cmp.out[j].key
    /\ \A n \in 0..(cmp.next - 1) : map[ZoneStart(cmp.zone) + n] # None =>
         \E i \in 1..Len(cmp.out) : cmp.out[i].key = ZoneStart(cmp.zone) + n

PlaceInv == AllLocated /\ Apart /\ TopsMarked /\ CopyOrder

LEMMA PlaceInit == Init => PlaceInv
BY DEF Init, PlaceInv, AllLocated, Apart, TopsMarked, CopyOrder, Placed, CmpIdle

\* A write of one block.
LEMMA OneBlock ==
  ASSUME TypeInv, NEW k \in HostKeys, NEW target \in Nat
  PROVE  /\ Blocks(k, 1) = {k}
         /\ Mapped(k, 1, target) = [map EXCEPT ![k] = target]
         /\ Bio(k, 1, target) = {[key |-> k, pba |-> target]}
         /\ ~ Crosses(k, 1)
         /\ Fits(target, 1) <=> target \in Pbas
<1>1. k \in Keys /\ k \in Nat /\ map \in [Keys -> Nat]
  BY Constants, KeyZone DEF TypeInv, TypeOK
<1>2. Blocks(k, 1) = {k} /\ k + 1 - 1 = k /\ target + (k - k) = target
  BY <1>1 DEF Blocks
<1>3. Mapped(k, 1, target) = [map EXCEPT ![k] = target]
  BY <1>1, <1>2 DEF Mapped
<1>4. Bio(k, 1, target) = {[key |-> k, pba |-> target]}
  BY <1>2, Zenon DEF Bio
<1>5. Fits(target, 1) <=> target \in Pbas
  <2>1. Offset(target) \in 0..(TOTAL - 1)
    BY DivMod, GeometryFacts DEF Offset
  <2>2. Offset(target) + 1 <= TOTAL
    BY <2>1, GeometryFacts
  <2> QED
    BY <2>2, DeviceSize DEF Fits, Pbas, Keys
<1> QED
  BY <1>2, <1>3, <1>4, <1>5, Zenon DEF Crosses

LEMMA SingleWrite ==
  ASSUME TypeInv, SingleBlocks, NEW k \in HostKeys, NEW n \in 1..MaxBlocks,
         HostWrite(k, n) \/ HostWriteRejected(k, n)
  PROVE  /\ n = 1 /\ LockFree /\ ~ InFlight(k)
         /\ map' = [map EXCEPT ![k] = Target(k)] /\ Target(k) \in Nat
         /\ stale' = stale \ {k}
         /\ mapSize' = Grown(k, 1) /\ Grown(k, 1)[ZoneOf(k)] <= MaxMapped
         /\ UNCHANGED cmp
         /\ HostWrite(k, n) => Target(k) \in Pbas
         /\ HostWriteRejected(k, n) => Target(k) \notin Pbas /\ UNCHANGED <<used, rmw>>
<1>1. n = 1 /\ Target(k) \in Nat /\ k \in Keys
  BY TargetNatural, Constants DEF SingleBlocks
<1>2. /\ MayWrite(k, 1) /\ mapSize' = Grown(k, 1) /\ UNCHANGED cmp
      /\ map' = Mapped(k, 1, Target(k))
      /\ HostWrite(k, 1) => Fits(Target(k), 1)
      /\ HostWriteRejected(k, 1) => ~ Fits(Target(k), 1) \/ Crosses(k, 1)
      /\ HostWriteRejected(k, 1) => UNCHANGED <<used, rmw>>
  BY <1>1 DEF HostWrite, HostWriteRejected
<1>3. stale' = stale \ {k}
  <2>1. CASE HostWrite(k, 1)
    BY <1>1, <2>1, OneBlock DEF HostWrite
  <2>2. CASE HostWriteRejected(k, 1)
    <3>1. stale' = {j \in stale : j \notin Blocks(k, 1) \/ ZoneOf(j) # ZoneOf(k)}
      BY <2>2 DEF HostWriteRejected
    <3> QED
      BY <1>1, <3>1, OneBlock
  <2> QED
    BY <1>1, <2>1, <2>2
<1>4. LockFree /\ ~ InFlight(k) /\ Grown(k, 1)[ZoneOf(k)] <= MaxMapped
  BY <1>1, <1>2, OneBlock DEF MayWrite
<1> QED
  BY <1>1, <1>2, <1>3, <1>4, OneBlock

-----------------------------------------------------------------------------
(* Where the blocks are: the steps.                                        *)

LEMMA CopyOrderIdle == cmp' = CmpIdle => CopyOrder'
BY DEF CopyOrder, CmpIdle

\* A step that leaves the map, the sizes and the marks alone, and a compaction as it is or
\* at its end.
LEMMA PlaceUntouched ==
  ASSUME PlaceInv, UNCHANGED <<map, mapSize, used, stale>>,
         (UNCHANGED cmp /\ (UNCHANGED rmw \/ cmp.pc # "copy")) \/ cmp' = CmpIdle
  PROVE  PlaceInv'
<1>1. AllLocated' /\ Apart' /\ TopsMarked'
  BY DEF PlaceInv, AllLocated, LocatedAt, Apart, TopsMarked, Placed
<1>2. CASE cmp' = CmpIdle
  BY <1>1, <1>2, CopyOrderIdle, Zenon DEF PlaceInv
<1>3. CASE UNCHANGED cmp /\ (UNCHANGED rmw \/ cmp.pc # "copy")
  <2>1. CASE UNCHANGED rmw
    <3>1. CopyOrder'
      BY <1>3, <2>1 DEF PlaceInv, CopyOrder
    <3> QED
      BY <1>1, <3>1 DEF PlaceInv
  <2>2. CASE cmp.pc # "copy"
    <3>1. CopyOrder'
      BY <1>3, <2>2 DEF CopyOrder
    <3> QED
      BY <1>1, <3>1 DEF PlaceInv
  <2> QED
    BY <1>3, <2>1, <2>2
<1> QED
  BY <1>2, <1>3

\* What a zone has allocated is below the bound.
LEMMA AllocatedIndex ==
  ASSUME TypeInv, NEW y \in Zones, NEW i \in Nat, i < mapSize[y]
  PROVE  i \in 0..(MaxMapped - 1) /\ mapSize[y] \in 0..MaxMapped
<1>1. mapSize[y] \in 0..MaxMapped
  BY DEF TypeInv, TypeOK
<1> QED
  BY <1>1, Constants

LEMMA WritePlaced ==
  ASSUME TypeInv, PlaceInv, SingleBlocks, ZonesHold, NEW k \in HostKeys, NEW n \in 1..MaxBlocks,
         HostWrite(k, n) \/ HostWriteRejected(k, n)
  PROVE  PlaceInv'
<1>1. /\ n = 1 /\ LockFree
      /\ map' = [map EXCEPT ![k] = Target(k)] /\ Target(k) \in Nat
      /\ stale' = stale \ {k}
      /\ mapSize' = Grown(k, 1) /\ Grown(k, 1)[ZoneOf(k)] <= MaxMapped
      /\ UNCHANGED cmp
      /\ HostWrite(k, n) => Target(k) \in Pbas
      /\ HostWriteRejected(k, n) => Target(k) \notin Pbas /\ UNCHANGED <<used, rmw>>
  BY SingleWrite
<1>2. k \in Keys /\ ZoneOf(k) \in Zones
  BY Constants, KeyZone
<1>3. map \in [Keys -> Nat] /\ mapSize \in [Zones -> 0..MaxMapped]
  BY DEF TypeInv, TypeOK
<1>4. CopyOrder'
  BY <1>1, CopyOrderIdle DEF LockFree
<1>5. used \subseteq used' /\ (Target(k) \in Pbas /\ IsTop(Target(k)) => Target(k) \in used')
  <2>1. CASE HostWrite(k, n)
    <3>1. used' = Marked(Target(k))
      BY <2>1 DEF HostWrite
    <3> QED
      BY <3>1 DEF Marked
  <2>2. CASE HostWriteRejected(k, n)
    BY <1>1, <2>2
  <2> QED
    BY <2>1, <2>2
<1>6. \A j \in Keys : j # k => (Placed(j)' <=> Placed(j)) /\ map'[j] = map[j]
  BY <1>1, <1>2, <1>3 DEF Placed
<1>7. map'[k] = Target(k)
  BY <1>1, <1>2, <1>3
<1>8. CASE Placed(k)
  <2>1. Target(k) = map[k] /\ Grown(k, 1) = mapSize
    BY <1>8 DEF Placed, Target, Unmapped, Grown
  <2>2. map' = map /\ mapSize' = mapSize /\ stale' = stale
    BY <1>1, <1>2, <1>3, <1>8, <2>1 DEF Placed
  <2>3. AllLocated' /\ Apart'
    BY <2>2 DEF PlaceInv, AllLocated, LocatedAt, Apart, Placed
  <2>4. TopsMarked'
    BY <1>5, <2>2 DEF PlaceInv, TopsMarked, Placed
  <2> QED
    BY <1>4, <2>3, <2>4 DEF PlaceInv
<1>9. CASE ~ Placed(k)
  <2> DEFINE y == ZoneOf(k)
  <2>0. PICK m \in Nat : m = mapSize[y]
    BY <1>2, <1>3, Constants
  <2>1. Target(k) = Allocated(y, m) /\ mapSize' = [mapSize EXCEPT ![y] = m + 1]
    BY <1>1, <1>9, <2>0 DEF Placed, Target, Unmapped, Grown
  <2>2. y \in Zones /\ m \in Nat /\ mapSize'[y] = m + 1 /\ m + 1 <= MaxMapped
    BY <1>1, <1>2, <1>3, <2>1, Constants
  <2>3. \A x \in Zones, i \in Nat : i < mapSize[x] => i < mapSize'[x]
    BY <1>3, <2>0, <2>1, <2>2, Constants
  <2> HIDE DEF y
  <2>4. AllLocated'
    <3> SUFFICES ASSUME NEW j \in Keys, Placed(j)'
                 PROVE  \E x \in Zones, i \in Nat : LocatedAt(j, x, i)'
      BY DEF AllLocated
    <3>1. CASE j = k
      <4>1. m < mapSize'[y] /\ map'[j] = Allocated(y, m) /\ y = ZoneOf(j)
        BY <1>7, <2>1, <2>2, <3>1 DEF y
      <4>2. LocatedAt(j, y, m)'
        BY <4>1 DEF LocatedAt
      <4> QED
        BY <2>2, <4>2
    <3>2. CASE j # k
      <4>1. PICK x \in Zones, i \in Nat : LocatedAt(j, x, i)
        BY <1>6, <3>2 DEF PlaceInv, AllLocated
      <4>2. LocatedAt(j, x, i)'
        BY <1>6, <2>3, <3>2, <4>1 DEF LocatedAt
      <4> QED
        BY <4>2
    <3> QED
      BY <3>1, <3>2
  <2>5. ASSUME NEW j \in Keys, j # k, Placed(j) PROVE map[j] # Allocated(y, m)
    <3> SUFFICES ASSUME map[j] = Allocated(y, m) PROVE FALSE
      OBVIOUS
    <3>1. PICK x \in Zones, i \in Nat : LocatedAt(j, x, i)
      BY <2>5 DEF PlaceInv, AllLocated
    <3>2. i < mapSize[x] /\ Allocated(x, i) = Allocated(y, m)
      BY <3>1 DEF LocatedAt
    <3>3. i \in 0..(MaxMapped - 1) /\ m \in 0..(MaxMapped - 1)
      BY <2>2, <3>2, AllocatedIndex, Constants
    <3>4. x = y /\ i = m
      BY <2>2, <3>2, <3>3, AllocatedApart
    <3> QED
      BY <2>0, <2>2, <3>2, <3>4
  <2>6. Apart'
    <3> SUFFICES ASSUME NEW i \in Keys, NEW j \in Keys, Placed(i)', Placed(j)', i # j
                 PROVE  map'[i] # map'[j]
      BY DEF Apart
    <3>1. CASE i # k /\ j # k
      BY <1>6, <3>1 DEF PlaceInv, Apart
    <3>2. CASE i = k
      BY <1>6, <1>7, <2>1, <2>5, <3>2
    <3>3. CASE j = k
      BY <1>6, <1>7, <2>1, <2>5, <3>3
    <3> QED
      BY <3>1, <3>2, <3>3
  <2>7. TopsMarked'
    <3> SUFFICES ASSUME NEW j \in Keys, Placed(j)', map'[j] \in Pbas, IsTop(map'[j])
                 PROVE  map'[j] \in used'
      BY DEF TopsMarked
    <3>1. CASE j = k
      BY <1>5, <1>7, <3>1
    <3>2. CASE j # k
      BY <1>5, <1>6, <3>2 DEF PlaceInv, TopsMarked
    <3> QED
      BY <3>1, <3>2
  <2> QED
    BY <1>4, <2>4, <2>6, <2>7 DEF PlaceInv
<1> QED
  BY <1>8, <1>9

LEMMA DiscardPlaced ==
  ASSUME TypeInv, PlaceInv, NEW k \in DiscardKeys, HostDiscard(k)
  PROVE  PlaceInv'
<1>1. /\ map' = [map EXCEPT ![k] = None] /\ stale' = stale \ {k}
      /\ UNCHANGED <<mapSize, used, cmp>> /\ cmp = CmpIdle
  BY DEF HostDiscard, LockFree
<1>2. map \in [Keys -> Nat] /\ k \in Keys
  BY Constants DEF TypeInv, TypeOK
<1>3. \A j \in Keys : Placed(j)' => Placed(j) /\ map'[j] = map[j]
  BY <1>1, <1>2 DEF Placed
<1>4. AllLocated' /\ Apart' /\ TopsMarked'
  BY <1>1, <1>3 DEF PlaceInv, AllLocated, LocatedAt, Apart, TopsMarked
<1> QED
  BY <1>1, <1>4, CopyOrderIdle DEF PlaceInv

LEMMA ResetPlaced ==
  ASSUME TypeInv, ResetZones
  PROVE  PlaceInv'
<1>1. stale' = {k \in Keys : map[k] # None} /\ map' = map /\ cmp' = CmpIdle
  BY DEF ResetZones, MayReset, LockFree
<1>2. \A j \in Keys : ~ Placed(j)'
  BY <1>1 DEF Placed
<1> QED
  BY <1>1, <1>2, CopyOrderIdle DEF PlaceInv, AllLocated, Apart, TopsMarked

LEMMA BeginPlaced ==
  ASSUME TypeInv, PlaceInv, NEW z \in CompactZones, CompactBegin(z)
  PROVE  PlaceInv'
<1>1. /\ rmw = RmwIdle /\ z + 1 \in Zones /\ mapSize[z + 1] = 0
      /\ cmp' = [pc |-> "copy", zone |-> z, next |-> 0, out |-> <<>>]
      /\ UNCHANGED <<map, mapSize, used, stale, rmw>>
  BY DEF CompactBegin, LockFree
<1>2. cmp'.zone = z /\ cmp'.next = 0 /\ cmp'.out = <<>>
  BY <1>1
<1>3. 1..Len(cmp'.out) = {} /\ 0..(cmp'.next - 1) = {}
  BY <1>2
<1>4. CopyOrder'
  BY <1>1, <1>2, <1>3 DEF CopyOrder, Compactable
<1>5. AllLocated' /\ Apart' /\ TopsMarked'
  BY <1>1 DEF PlaceInv, AllLocated, LocatedAt, Apart, TopsMarked, Placed
<1> QED
  BY <1>4, <1>5 DEF PlaceInv

\* The order of the copies, with the types that make it one.
LEMMA Copying ==
  ASSUME TypeInv, CopyOrder, cmp.pc = "copy"
  PROVE  /\ cmp.zone \in Compactable /\ cmp.zone \in Zones /\ mapSize[cmp.zone + 1] = 0
         /\ rmw = RmwIdle /\ ZoneStart(cmp.zone) \in Nat
         /\ cmp.next \in 0..TOTAL /\ Len(cmp.out) \in Nat /\ Len(cmp.out) <= cmp.next
         /\ \A i \in 1..Len(cmp.out) :
              /\ cmp.out[i] \in [key : HostKeys, pba : Nat]
              /\ cmp.out[i].pba = Destination(cmp.zone, i - 1)
              /\ cmp.out[i].key \in Keys /\ cmp.out[i].key \in Nat
              /\ ZoneStart(cmp.zone) <= cmp.out[i].key
              /\ cmp.out[i].key < ZoneStart(cmp.zone) + cmp.next
              /\ ZoneOf(cmp.out[i].key) = cmp.zone
              /\ map[cmp.out[i].key] # None
         /\ \A i, j \in 1..Len(cmp.out) : i < j => cmp.out[i].key < cmp.out[j].key
         /\ \A n \in 0..(cmp.next - 1) : map[ZoneStart(cmp.zone) + n] # None =>
              \E i \in 1..Len(cmp.out) : cmp.out[i].key = ZoneStart(cmp.zone) + n
<1>1. /\ cmp \in [pc : {"copy"}, zone : Zones, next : 0..TOTAL,
                   out : Seq([key : HostKeys, pba : Nat])]
      /\ Len(cmp.out) \in Nat /\ Len(cmp.out) <= cmp.next
  BY CmpRunning
<1>2. cmp.zone \in Zones /\ cmp.next \in 0..TOTAL /\ cmp.out \in Seq([key : HostKeys, pba : Nat])
  BY <1>1
<1>3. 0 \in 0..(TOTAL - 1) /\ TOTAL \in Nat
  BY GeometryFacts
<1>4. ZoneStart(cmp.zone) \in Nat
  BY <1>2, <1>3, ZoneKey
<1>5. ASSUME NEW i \in 1..Len(cmp.out)
      PROVE  /\ cmp.out[i] \in [key : HostKeys, pba : Nat]
             /\ cmp.out[i].key \in Keys /\ cmp.out[i].key \in Nat
             /\ ZoneOf(cmp.out[i].key) = cmp.zone
  <2>1. cmp.out[i] \in [key : HostKeys, pba : Nat]
    BY <1>2, ElementOfSeq
  <2>2. cmp.out[i].key \in Keys /\ cmp.out[i].key \in Nat
    BY <2>1, Constants, KeyZone
  <2>3. /\ ZoneStart(cmp.zone) <= cmp.out[i].key
        /\ cmp.out[i].key < ZoneStart(cmp.zone) + cmp.next
    BY DEF CopyOrder
  <2>4. PICK n \in 0..(TOTAL - 1) : cmp.out[i].key = ZoneStart(cmp.zone) + n
    <3>1. cmp.out[i].key - ZoneStart(cmp.zone) \in 0..(TOTAL - 1)
      BY <1>2, <1>3, <1>4, <2>2, <2>3, SMTT(30)
    <3>2. cmp.out[i].key = ZoneStart(cmp.zone) + (cmp.out[i].key - ZoneStart(cmp.zone))
      BY <1>4, <2>2
    <3> QED
      BY <3>1, <3>2
  <2>5. ZoneOf(cmp.out[i].key) = cmp.zone
    BY <1>2, <2>4, ZoneKey
  <2> QED
    BY <2>1, <2>2, <2>5
<1>6. /\ cmp.zone \in Compactable /\ mapSize[cmp.zone + 1] = 0 /\ rmw = RmwIdle
      /\ \A i \in 1..Len(cmp.out) :
           /\ cmp.out[i].pba = Destination(cmp.zone, i - 1)
           /\ ZoneStart(cmp.zone) <= cmp.out[i].key
           /\ cmp.out[i].key < ZoneStart(cmp.zone) + cmp.next
           /\ map[cmp.out[i].key] # None
      /\ \A i, j \in 1..Len(cmp.out) : i < j => cmp.out[i].key < cmp.out[j].key
      /\ \A n \in 0..(cmp.next - 1) : map[ZoneStart(cmp.zone) + n] # None =>
           \E i \in 1..Len(cmp.out) : cmp.out[i].key = ZoneStart(cmp.zone) + n
  BY Zenon DEF CopyOrder
<1> QED
  BY <1>1, <1>2, <1>4, <1>5, <1>6, Zenon

LEMMA BlockPlaced ==
  ASSUME TypeInv, PlaceInv, CompactBlock
  PROVE  PlaceInv'
<1> DEFINE start == ZoneStart(cmp.zone)
           key == start + cmp.next
           len == Len(cmp.out)
<1>1. /\ cmp.pc = "copy" /\ cmp.next < TOTAL
      /\ UNCHANGED <<map, mapSize, used, rmw, stale>>
  BY DEF CompactBlock
<1>2. /\ cmp \in [pc : {"copy"}, zone : Zones, next : 0..TOTAL,
                  out : Seq([key : HostKeys, pba : Nat])]
      /\ CopyOrder
  BY <1>1, CmpRunning DEF PlaceInv
<1>3. start \in Nat /\ cmp.next \in Nat /\ len \in Nat
  BY <1>1, <1>2, Copying, GeometryFacts
<1>4. /\ cmp.zone \in Compactable /\ mapSize[cmp.zone + 1] = 0 /\ rmw = RmwIdle
      /\ \A i \in 1..len :
           /\ cmp.out[i].pba = Destination(cmp.zone, i - 1)
           /\ cmp.out[i].key \in Nat /\ start <= cmp.out[i].key
           /\ cmp.out[i].key < start + cmp.next
           /\ map[cmp.out[i].key] # None
      /\ \A i, j \in 1..len : i < j => cmp.out[i].key < cmp.out[j].key
      /\ \A n \in 0..(cmp.next - 1) : map[start + n] # None =>
           \E i \in 1..len : cmp.out[i].key = start + n
  BY <1>1, <1>2, Copying, Zenon
<1>5. AllLocated' /\ Apart' /\ TopsMarked'
  BY <1>1 DEF PlaceInv, AllLocated, LocatedAt, Apart, TopsMarked, Placed
<1> HIDE DEF start, len
<1>6. CASE map[key] = None
  <2>1. /\ cmp'.pc = "copy" /\ cmp'.zone = cmp.zone /\ cmp'.next = cmp.next + 1 /\ cmp'.out = cmp.out
        /\ Len(cmp'.out) = len
    BY <1>2, <1>6 DEF CompactBlock, start, len
  <2>2. \A c \in Nat : c < start + cmp.next => c < start + cmp'.next
    BY <1>3, <2>1
  <2>3. ASSUME NEW n \in 0..(cmp'.next - 1), map'[start + n] # None
        PROVE  \E i \in 1..len : cmp'.out[i].key = start + n
    <3>1. n \in 0..(cmp.next - 1)
      BY <1>1, <1>3, <1>6, <2>1, <2>3
    <3> QED
      BY <1>1, <1>4, <2>1, <2>3, <3>1
  <2>4. CopyOrder'
    BY <1>1, <1>4, <2>1, <2>2, <2>3 DEF CopyOrder, start
  <2> QED
    BY <1>5, <2>4 DEF PlaceInv
<1>7. CASE map[key] # None
  <2> DEFINE new == [key |-> key, pba |-> Destination(cmp.zone, len)]
  <2>1. /\ cmp'.pc = "copy" /\ cmp'.zone = cmp.zone /\ cmp'.next = cmp.next + 1
        /\ cmp'.out = Append(cmp.out, new)
    BY <1>2, <1>7 DEF CompactBlock, start, len
  <2>2. /\ Len(cmp'.out) = len + 1 /\ cmp'.out[len + 1] = new
        /\ \A i \in 1..len : cmp'.out[i] = cmp.out[i]
    BY <1>2, <1>3, <2>1, AppendProperties DEF len
  <2>3. new.key = key /\ new.pba = Destination(cmp.zone, len)
    OBVIOUS
  <2> HIDE DEF new
  <2>4. ASSUME NEW i \in 1..(len + 1)
        PROVE  /\ cmp'.out[i].pba = Destination(cmp.zone, i - 1)
               /\ start <= cmp'.out[i].key
               /\ cmp'.out[i].key < start + cmp'.next
               /\ map[cmp'.out[i].key] # None
    <3>1. CASE i \in 1..len
      <4>1. /\ cmp.out[i].pba = Destination(cmp.zone, i - 1) /\ cmp.out[i].key \in Nat
            /\ start <= cmp.out[i].key /\ cmp.out[i].key < start + cmp.next
            /\ map[cmp.out[i].key] # None
        BY <1>4, <3>1, Zenon
      <4>2. cmp'.out[i] = cmp.out[i]
        BY <2>2, <3>1
      <4>3. cmp.out[i].key < start + cmp'.next
        BY <1>3, <2>1, <4>1
      <4> QED
        BY <4>1, <4>2, <4>3, Zenon
    <3>2. CASE i = len + 1
      <4>1. (len + 1) - 1 = len /\ start <= key /\ key < start + cmp'.next
        BY <1>3, <2>1
      <4> QED
        BY <1>7, <2>2, <2>3, <3>2, <4>1
    <3> QED
      BY <1>3, <3>1, <3>2
  <2>5. ASSUME NEW i \in 1..(len + 1), NEW j \in 1..(len + 1), i < j
        PROVE  cmp'.out[i].key < cmp'.out[j].key
    <3>1. i \in 1..len
      BY <1>3, <2>5
    <3>2. CASE j \in 1..len
      BY <1>4, <2>2, <2>5, <3>1, <3>2
    <3>3. CASE j = len + 1
      BY <1>4, <2>2, <2>3, <3>1, <3>3
    <3> QED
      BY <1>3, <3>2, <3>3
  <2>6. ASSUME NEW n \in 0..(cmp'.next - 1), map'[start + n] # None
        PROVE  \E i \in 1..(len + 1) : cmp'.out[i].key = start + n
    <3>1. CASE n \in 0..(cmp.next - 1)
      <4>1. PICK i \in 1..len : cmp.out[i].key = start + n
        BY <1>1, <1>4, <2>6, <3>1
      <4> QED
        BY <1>3, <2>2, <4>1
    <3>2. CASE n = cmp.next
      <4>1. len + 1 \in 1..(len + 1) /\ cmp'.out[len + 1].key = start + n
        BY <1>3, <2>2, <2>3, <3>2
      <4> QED
        BY <4>1
    <3>3. n \in 0..(cmp.next - 1) \/ n = cmp.next
      BY <1>3, <2>1
    <3> QED
      BY <3>1, <3>2, <3>3
  <2>7. CopyOrder'
    BY <1>1, <1>4, <2>1, <2>2, <2>4, <2>5, <2>6 DEF CopyOrder, start
  <2> QED
    BY <1>5, <2>7 DEF PlaceInv
<1> QED
  BY <1>6, <1>7

\* The bottom block a compaction gives to a key is one that it allocates, in the zone or
\* the next one.
LEMMA MovedBlock ==
  ASSUME TypeInv, PlaceInv, ZonesHold, CompactEnd, NEW j \in Keys, Moved(j) # {}
  PROVE  \E i \in 1..Len(cmp.out) :
           /\ i - 1 \in 0..(TOTAL - 1) /\ cmp.out[i].key = j
           /\ map'[j] = Destination(cmp.zone, i - 1)
           /\ map'[j] \in Pbas /\ ~ IsTop(map'[j])
           /\ \E y \in {cmp.zone, cmp.zone + 1}, n \in Nat : LocatedAt(j, y, n)'
<1>1. /\ cmp.pc = "copy"
      /\ map' = [h \in Keys |->
           IF Moved(h) # {} THEN cmp.out[CHOOSE i \in Moved(h) : TRUE].pba ELSE map[h]]
      /\ mapSize' = Sizes(cmp.zone, Len(cmp.out))
  BY DEF CompactEnd
<1>2. /\ cmp \in [pc : {"copy"}, zone : Zones, next : 0..TOTAL,
                   out : Seq([key : HostKeys, pba : Nat])]
      /\ cmp.zone + 1 \in Zones /\ cmp.zone \in Nat /\ TOTAL <= MaxMapped
  BY <1>1, CmpRunning
<1>3. /\ cmp.zone \in Compactable /\ cmp.zone \in Zones /\ Len(cmp.out) \in Nat /\ Len(cmp.out) <= cmp.next
      /\ cmp.next \in 0..TOTAL
      /\ \A i \in 1..Len(cmp.out) :
           /\ cmp.out[i].pba = Destination(cmp.zone, i - 1)
           /\ ZoneOf(cmp.out[i].key) = cmp.zone
  BY <1>1, Copying DEF PlaceInv
<1>4. PICK i \in Moved(j) : i = CHOOSE h \in Moved(j) : TRUE
  OBVIOUS
<1>5. i \in 1..Len(cmp.out) /\ cmp.out[i].key = j
  BY <1>2, <1>4, LenProperties DEF Moved
<1>6. map'[j] = Destination(cmp.zone, i - 1) /\ ZoneOf(j) = cmp.zone
  BY <1>1, <1>3, <1>4, <1>5
<1>7. i - 1 \in 0..(TOTAL - 1) /\ i - 1 < Len(cmp.out)
  BY <1>3, <1>5, GeometryFacts
<1>8. /\ map'[j] \in Pbas /\ ~ IsTop(map'[j])
      /\ i - 1 < BottomBlocks => map'[j] = Allocated(cmp.zone, i - 1)
      /\ i - 1 >= BottomBlocks => /\ (i - 1) - BottomBlocks \in 0..(BottomBlocks - 1)
                                  /\ map'[j] = Allocated(cmp.zone + 1, (i - 1) - BottomBlocks)
  BY <1>2, <1>3, <1>6, <1>7, DestinationPba
<1>9. mapSize \in [Zones -> 0..MaxMapped]
  BY DEF TypeInv, TypeOK
<1>10. PICK z \in Zones, h \in 0..(TOTAL - 1) : z = cmp.zone /\ h = i - 1
  BY <1>3, <1>7
<1>11. z # z + 1 /\ z + 1 \in Zones /\ h \in Nat /\ BottomBlocks \in Nat /\ Len(cmp.out) \in Nat
  <2>1. z \in Nat /\ z + 1 \in Zones /\ Len(cmp.out) \in Nat
    BY <1>2, <1>3, <1>10, Zenon
  <2>2. z # z + 1 /\ h \in Nat /\ BottomBlocks \in Nat
    BY <2>1, GeometryFacts
  <2> QED
    BY <2>1, <2>2
<1>12. \E y \in {z, z + 1}, n \in Nat : LocatedAt(j, y, n)'
  <2>1. CASE h < BottomBlocks
    <3>1. mapSize'[z] = IF Len(cmp.out) > BottomBlocks THEN BottomBlocks ELSE Len(cmp.out)
      BY <1>1, <1>9, <1>10, <1>11, Zenon DEF Sizes
    <3>2. h < mapSize'[z]
      BY <1>7, <1>10, <1>11, <2>1, <3>1
    <3>3. LocatedAt(j, z, h)'
      BY <1>6, <1>8, <1>10, <2>1, <3>2 DEF LocatedAt
    <3> QED
      BY <1>11, <3>3
  <2>2. CASE h >= BottomBlocks
    <3>1. mapSize'[z + 1] = IF Len(cmp.out) > BottomBlocks THEN Len(cmp.out) - BottomBlocks ELSE 0
      BY <1>1, <1>9, <1>10, <1>11, Zenon DEF Sizes
    <3>2. h - BottomBlocks < mapSize'[z + 1] /\ h - BottomBlocks \in Nat
      BY <1>7, <1>10, <1>11, <2>2, <3>1
    <3>3. LocatedAt(j, z + 1, h - BottomBlocks)'
      BY <1>3, <1>6, <1>8, <1>10, <2>2, <3>2 DEF LocatedAt
    <3> QED
      BY <3>2, <3>3
  <2> QED
    BY <1>11, <2>1, <2>2
<1> QED
  BY <1>5, <1>6, <1>7, <1>8, <1>10, <1>12, Zenon

\* The keys it does not move lie in other zones.
LEMMA StayingBlock ==
  ASSUME TypeInv, PlaceInv, CompactsApart, CompactEnd, NEW j \in Keys, Moved(j) = {},
         Placed(j)'
  PROVE  /\ Placed(j) /\ map'[j] = map[j] /\ ZoneOf(j) # cmp.zone
         /\ \E y \in Zones \ {cmp.zone, cmp.zone + 1}, n \in Nat :
              LocatedAt(j, y, n) /\ LocatedAt(j, y, n)'
<1>1. /\ cmp.pc = "copy" /\ cmp.next = TOTAL
      /\ map' = [h \in Keys |->
           IF Moved(h) # {} THEN cmp.out[CHOOSE i \in Moved(h) : TRUE].pba ELSE map[h]]
      /\ mapSize' = Sizes(cmp.zone, Len(cmp.out))
      /\ stale' = {h \in stale : Moved(h) = {}}
  BY DEF CompactEnd
<1>2. /\ cmp \in [pc : {"copy"}, zone : Zones, next : 0..TOTAL,
                   out : Seq([key : HostKeys, pba : Nat])]
      /\ cmp.zone \in Nat
  BY <1>1, CmpRunning
<1>3. /\ cmp.zone \in Compactable /\ mapSize[cmp.zone + 1] = 0
      /\ \A n \in 0..(cmp.next - 1) : map[ZoneStart(cmp.zone) + n] # None =>
           \E i \in 1..Len(cmp.out) : cmp.out[i].key = ZoneStart(cmp.zone) + n
  BY <1>1, Copying DEF PlaceInv
<1>4. map'[j] = map[j] /\ Placed(j)
  BY <1>1 DEF Placed
<1>5. ZoneOf(j) # cmp.zone
  <2> SUFFICES ASSUME ZoneOf(j) = cmp.zone PROVE FALSE
    OBVIOUS
  <2>1. Offset(j) \in 0..(TOTAL - 1) /\ j = ZoneStart(cmp.zone) + Offset(j)
    BY KeyZone
  <2>2. PICK i \in 1..Len(cmp.out) : cmp.out[i].key = j
    BY <1>1, <1>3, <1>4, <2>1 DEF Placed
  <2>3. i \in Moved(j)
    BY <1>2, <2>2, LenProperties DEF Moved
  <2> QED
    BY <2>3
<1>6. PICK y \in Zones, n \in Nat : LocatedAt(j, y, n)
  BY <1>4 DEF PlaceInv, AllLocated
<1>7. y # cmp.zone /\ y # cmp.zone + 1
  <2>1. y # cmp.zone
    <3>1. CASE y = ZoneOf(j)
      BY <1>5, <3>1
    <3>2. CASE y = ZoneOf(j) + 1 /\ ZoneOf(j) \in Compactable
      BY <1>3, <3>2 DEF CompactsApart
    <3> QED
      BY <1>6, <3>1, <3>2 DEF LocatedAt
  <2>2. y # cmp.zone + 1
    BY <1>3, <1>6 DEF LocatedAt
  <2> QED
    BY <2>1, <2>2
<1>8. mapSize'[y] = mapSize[y]
  <2>1. mapSize \in [Zones -> 0..MaxMapped]
    BY DEF TypeInv, TypeOK
  <2> QED
    BY <1>1, <1>7, <2>1 DEF Sizes
<1>9. LocatedAt(j, y, n)'
  BY <1>4, <1>6, <1>8 DEF LocatedAt
<1> QED
  BY <1>4, <1>5, <1>6, <1>7, <1>9

LEMMA EndPlaced ==
  ASSUME TypeInv, PlaceInv, ZonesHold, CompactsApart, CompactEnd
  PROVE  PlaceInv'
<1>1. /\ cmp.pc = "copy" /\ cmp' = CmpIdle
      /\ used' = {b \in used : ZoneOf(b) \notin {cmp.zone, cmp.zone + 1}}
  BY DEF CompactEnd
<1>2. /\ cmp.zone \in Zones /\ cmp.zone + 1 \in Zones /\ cmp.zone \in Nat /\ TOTAL <= MaxMapped
      /\ NumZones # 1
  <2>1. /\ cmp \in [pc : {"copy"}, zone : Zones, next : 0..TOTAL,
                     out : Seq([key : HostKeys, pba : Nat])]
        /\ cmp.zone + 1 \in Zones /\ cmp.zone \in Nat /\ TOTAL <= MaxMapped
    BY <1>1, CmpRunning
  <2> QED
    BY <2>1, GeometryFacts DEF Zones
<1>3. TypeInv'
  BY CompactEndTyped
<1>4. AllLocated'
  <2> SUFFICES ASSUME NEW j \in Keys, Placed(j)'
               PROVE  \E y \in Zones, n \in Nat : LocatedAt(j, y, n)'
    BY DEF AllLocated
  <2>1. CASE Moved(j) # {}
    BY <1>2, <2>1, MovedBlock
  <2>2. CASE Moved(j) = {}
    BY <2>2, StayingBlock
  <2> QED
    BY <2>1, <2>2
<1>5. ASSUME NEW y \in Zones, NEW m \in Nat, m < mapSize'[y]
      PROVE  m \in 0..(MaxMapped - 1)
  <2>1. mapSize'[y] \in 0..MaxMapped
    BY <1>3 DEF TypeInv, TypeOK
  <2> QED
    BY <1>5, <2>1, Constants
<1>6. ASSUME NEW i \in Keys, NEW j \in Keys, Moved(i) # {}, Moved(j) = {}, Placed(j)'
      PROVE  map'[i] # map'[j]
  <2>1. PICK y \in {cmp.zone, cmp.zone + 1}, m \in Nat : LocatedAt(i, y, m)'
    BY <1>6, MovedBlock
  <2>2. PICK x \in Zones \ {cmp.zone, cmp.zone + 1}, n \in Nat : LocatedAt(j, x, n)'
    BY <1>6, StayingBlock
  <2>3. /\ m < mapSize'[y] /\ map'[i] = Allocated(y, m)
        /\ n < mapSize'[x] /\ map'[j] = Allocated(x, n) /\ x # y /\ x \in Zones /\ y \in Zones
    BY <1>2, <2>1, <2>2 DEF LocatedAt
  <2>4. m \in 0..(MaxMapped - 1) /\ n \in 0..(MaxMapped - 1)
    BY <1>5, <2>3
  <2> QED
    BY <2>3, <2>4, AllocatedApart
<1>7. Apart'
  <2> SUFFICES ASSUME NEW i \in Keys, NEW j \in Keys, Placed(i)', Placed(j)', i # j,
                      map'[i] = map'[j]
               PROVE  FALSE
    BY DEF Apart
  <2>1. CASE Moved(i) # {} /\ Moved(j) # {}
    <3>1. PICK m \in 1..Len(cmp.out) :
            m - 1 \in 0..(TOTAL - 1) /\ cmp.out[m].key = i /\ map'[i] = Destination(cmp.zone, m - 1)
      BY <2>1, MovedBlock
    <3>2. PICK n \in 1..Len(cmp.out) :
            n - 1 \in 0..(TOTAL - 1) /\ cmp.out[n].key = j /\ map'[j] = Destination(cmp.zone, n - 1)
      BY <2>1, MovedBlock
    <3>3. m - 1 = n - 1
      BY <1>2, <3>1, <3>2, DestinationInjective
    <3>4. m = n
      BY <3>3
    <3> QED
      BY <3>1, <3>2, <3>4
  <2>2. CASE Moved(i) # {} /\ Moved(j) = {}
    BY <1>6, <2>2
  <2>3. CASE Moved(i) = {} /\ Moved(j) # {}
    BY <1>6, <2>3
  <2>4. CASE Moved(i) = {} /\ Moved(j) = {}
    BY <2>4, StayingBlock DEF PlaceInv, Apart
  <2> QED
    BY <2>1, <2>2, <2>3, <2>4
<1>8. TopsMarked'
  <2> SUFFICES ASSUME NEW j \in Keys, Placed(j)', map'[j] \in Pbas, IsTop(map'[j])
               PROVE  map'[j] \in used'
    BY DEF TopsMarked
  <2>1. Moved(j) = {}
    BY MovedBlock
  <2>2. Placed(j) /\ map'[j] = map[j]
    BY <2>1, StayingBlock
  <2>3. PICK y \in Zones \ {cmp.zone, cmp.zone + 1}, n \in Nat : LocatedAt(j, y, n)
    BY <2>1, StayingBlock
  <2>4. n \in 0..(MaxMapped - 1) /\ map[j] = Allocated(y, n)
    BY <2>3, AllocatedIndex DEF LocatedAt
  <2>5. ZoneOf(map[j]) = y
    BY <1>2, <2>4, AllocatedPba
  <2> QED
    BY <1>1, <2>2, <2>3, <2>5 DEF PlaceInv, TopsMarked
<1> QED
  BY <1>1, <1>4, <1>7, <1>8, CopyOrderIdle DEF PlaceInv

LEMMA PlaceStep ==
  ASSUME SingleBlocks, ZonesHold, CompactsApart, TypeInv, PlaceInv, [Next]_vars
  PROVE  PlaceInv'
<1>1. CASE UNCHANGED vars
  BY <1>1, PlaceUntouched DEF vars
<1>2. rmw.pc # "idle" => cmp.pc # "copy"
  BY DEF PlaceInv, CopyOrder, RmwIdle
<1>3. ASSUME NEW b \in bios, BioLands(b) PROVE PlaceInv'
  BY <1>3, PlaceUntouched DEF BioLands
<1>4. CASE RmwRead \/ RmwGone \/ RmwWrite \/ RmwWriteBack
  <2>1. /\ cmp.pc # "copy"
        /\ UNCHANGED <<map, mapSize, used, stale, cmp>>
    BY <1>2, <1>4 DEF RmwRead, RmwGone, RmwWrite, RmwWriteBack
  <2> QED
    BY <2>1, PlaceUntouched
<1>5. CASE CompactFails
  BY <1>5, PlaceUntouched DEF CompactFails
<1>6. CASE ResetZonesFails
  BY <1>6, PlaceUntouched DEF ResetZonesFails
<1>7. CASE Next
  BY <1>3, <1>4, <1>5, <1>6, <1>7, WritePlaced, DiscardPlaced, BeginPlaced, BlockPlaced, EndPlaced,
     ResetPlaced DEF Next
<1> QED
  BY <1>1, <1>7

LEMMA PlaceKept ==
  ASSUME SingleBlocks, ZonesHold, CompactsApart
  PROVE  Spec => []PlaceInv
<1>1. TypeInv /\ PlaceInv /\ [Next]_vars => PlaceInv'
  BY PlaceStep
<1> QED
  BY <1>1, PlaceInit, TypesKept, PTL DEF Spec

\* No two keys written since the last reset share a block, through allocations, discards,
\* RMWs, resets and compactions in any order, for every geometry and every number of bios
\* in flight.  The hypotheses are what the code does not check: a write of one block (a
\* larger one also takes the blocks after its first: zone_multi_block), zones that are not
\* allocated past their end, and no compaction of a zone that another one has filled.
THEOREM BlocksApart ==
  ASSUME SingleBlocks, ZonesHold, CompactsApart
  PROVE  Spec => []NoSharedBlock
<1>1. TypeInv /\ PlaceInv => NoSharedBlock
  <2> SUFFICES ASSUME TypeInv, PlaceInv, NEW j \in Keys \ stale, NEW k \in Keys \ stale, j # k,
                      map[j] \in Pbas, map[j] = map[k]
               PROVE  FALSE
    BY DEF NoSharedBlock
  <2>1. map[j] # None
    BY NoneIsNoBlock
  <2> QED
    BY <2>1 DEF PlaceInv, Apart, Placed
<1> QED
  BY <1>1, PlaceKept, TypesKept, PTL

\* Every top block that holds a key written since the last reset is marked, so that the
\* RMW of a write beside it reads it back.
THEOREM TopsKeptMarked ==
  ASSUME SingleBlocks, ZonesHold, CompactsApart
  PROVE  Spec => []LiveTopsMarked
<1>1. PlaceInv => LiveTopsMarked
  <2> SUFFICES ASSUME PlaceInv, NEW k \in Keys \ stale, map[k] \in Pbas, IsTop(map[k])
               PROVE  map[k] \in used
    BY DEF LiveTopsMarked
  <2>1. map[k] # None
    BY NoneIsNoBlock
  <2> QED
    BY <2>1 DEF PlaceInv, TopsMarked, Placed
<1> QED
  BY <1>1, PlaceKept, PTL

===============================================================================
