------------------------ MODULE ImrOutputPayloadProofs ------------------------
(***************************************************************************)
(* Proofs about ImrOutput: if every commit copies and waits for the bios   *)
(* of the host, a payload is lost only where an output was placed on a     *)
(* block in use or a host write went to a block of an output.  The key is  *)
(* where the newest record of each key is: always in a list, visible to    *)
(* reads while the key has a live record, and with its payload on the      *)
(* block of each of its copies, which no other copy is written to.         *)
(***************************************************************************)
EXTENDS ImrOutputProofs

-----------------------------------------------------------------------------
(* The inductive invariant.                                                *)

\* Commits copy (mode 3) and find no bio in flight.
CommitsCopy == Modes \subseteq {3} /\ ~ CopyBusy

Current(r) == r.live /\ r.ts = last[r.key]
Final(r) == IF r.live THEN r.ts = last[r.key] ELSE last[r.key] = 0
Kept(k) == last[k] \notin contested

\* The records that a read, a compaction or a rewrite may take a PBA from, and those
\* whose key a read that misses the tree may find.
Copies == ListRecords \cup UNION {Entries(s) : s \in segments}
Visible == UnsortedRecords \cup Tables

NewestOf(p, S) == \A q \in S : q.key = p.key => q.ts <= p.ts

\* The newest record of a key is in a list and tells whether the key has a payload.
ListsNewest ==
  /\ \A r \in Searchable \cup tree : \E p \in ListRecords :
       p.key = r.key /\ Final(p) /\ NewestOf(p, Searchable \cup tree)
  /\ \A k \in HostKeys : last[k] # 0 => \E p \in ListRecords : p.key = k /\ Current(p)
\* A live record is masked by one that reads see, which is the newest of the key.
Masking ==
  \A r \in Searchable : r.live => \E q \in Visible : q.key = r.key /\ NewestOf(q, Searchable)
\* The read tree is up to date, and a live node has the block of a copy.
TreeNewest ==
  \A n \in tree :
    Final(n) /\ (n.live => \E q \in Copies : q.key = n.key /\ q.ts = n.ts /\ q.pba = n.pba)
Answers == ListsNewest /\ Masking /\ TreeNewest

\* Every copy of a payload, and the slot it was copied to, holds it.
PayloadThere ==
  \A r \in Copies : Current(r) /\ ~ InFlight(r.key) /\ Kept(r.key) => media[r.pba] = r.ts
CopiedThere ==
  \A s \in segments : \A r \in s.table :
    <<s.id, r.key>> \in copied /\ Current(r) /\ Kept(r.key) => media[Slot(s, r.key)] = r.ts
\* A block of an output is used by the entry it is the slot of, and not before the commit.
RangesClear ==
  \A s \in segments : \A r \in Copies :
    Current(r) /\ Kept(r.key) /\ r.pba \in OutputRange(s) =>
      <<s.id, r.key>> \in committed /\ r.pba = Slot(s, r.key)
\* A bio is the last write of its key and goes to the block that all its copies name;
\* no payload that is kept is there, nor a slot in use.
BiosGoHome ==
  \A b \in bios :
    b.ts = last[b.key] /\ \A r \in Copies : Current(r) /\ r.key = b.key => r.pba = b.pba
BiosApart ==
  \A b \in bios : \A r \in Copies :
    Current(r) /\ r.pba = b.pba /\ r.key # b.key => ~ Kept(r.key)
BiosOffSlots ==
  \A b \in bios, s \in segments : \A r \in s.table :
    b.pba \in OutputRange(s) /\ <<s.id, r.key>> \in copied \cup committed /\ Current(r) =>
      ~ Kept(r.key)
Quiet == op # "idle" => op = "copy" /\ bios = {}
Payloads ==
  /\ PayloadThere /\ CopiedThere /\ RangesClear
  /\ BiosGoHome /\ BiosApart /\ BiosOffSlots /\ Quiet

LInv == TInv /\ Answers /\ Payloads

-----------------------------------------------------------------------------
(* What the invariant says of a key.                                       *)

LEMMA AnyRecord ==
  ASSUME TInv, NEW r \in Searchable \cup tree
  PROVE  /\ r \in Records /\ r.key \in HostKeys /\ r.ts \in Nat /\ r.ts # 0 /\ r.live \in BOOLEAN
         /\ last[r.key] \in Nat
<1>1. r \in Records /\ r.ts \in 1..timestamp /\ timestamp \in Nat
  BY Limits DEF TInv, RecordsOK, HostTypes
<1>2. r.key \in HostKeys /\ r.ts \in Nat /\ r.ts # 0 /\ r.live \in BOOLEAN
  BY <1>1 DEF Records
<1>3. last[r.key] \in 0..timestamp
  BY <1>2 DEF TInv, HostTypes
<1> QED
  BY <1>1, <1>2, <1>3

\* A copy is like a record that is searched.
LEMMA CopyLike ==
  ASSUME TInv, NEW e \in Copies
  PROVE  /\ \E r \in Searchable : Like(e, r)
         /\ e \in Records /\ e.key \in HostKeys /\ e.ts \in Nat /\ e.ts # 0
         /\ (e.live => e.pba \in Blocks)
<1>1. CASE e \in ListRecords
  <2>1. e \in Searchable
    BY <1>1, ListsSearched
  <2> QED
    BY <2>1, AnyRecord, CopyTyped DEF Like
<1>2. CASE \E s \in segments : e \in Entries(s)
  <2>1. PICK s \in segments : e \in Entries(s)
    BY <1>2
  <2>2. PICK r \in s.table : e.key = r.key /\ e.ts = r.ts /\ e.live = r.live /\ e \in Records
    BY <2>1, EntryOf
  <2>3. r \in Searchable
    BY TableRecord
  <2> QED
    BY <2>1, <2>2, <2>3, AnyRecord, CopyTyped DEF Like
<1> QED
  BY <1>1, <1>2 DEF Copies

\* The newest records are final, and the current ones are the newest.
LEMMA NewestFinal ==
  ASSUME TInv, ListsNewest, NEW r \in Searchable \cup tree
  PROVE  /\ NewestOf(r, Searchable) => Final(r)
         /\ Current(r) => NewestOf(r, Searchable \cup tree)
<1>1. PICK p \in ListRecords :
        p.key = r.key /\ Final(p) /\ NewestOf(p, Searchable \cup tree)
  BY DEF ListsNewest
<1>2. p \in Searchable /\ r.ts <= p.ts
  BY <1>1, ListsSearched DEF NewestOf
<1>3. p.ts \in Nat /\ r.ts \in Nat /\ r.ts # 0
  BY <1>2, AnyRecord
<1>4. ASSUME NewestOf(r, Searchable) PROVE Final(r)
  <2>1. p.ts <= r.ts
    BY <1>1, <1>2, <1>4 DEF NewestOf
  <2>2. p.ts = r.ts
    BY <1>2, <1>3, <2>1
  <2>3. p.live = r.live
    BY <1>2, <2>2 DEF TInv, Stamps
  <2> QED
    BY <1>1, <2>2, <2>3 DEF Final
<1>5. ASSUME Current(r) PROVE NewestOf(r, Searchable \cup tree)
  <2>1. p.live
    BY <1>1, <1>3, <1>5 DEF Final, Current
  <2>2. p.ts = r.ts
    BY <1>1, <1>5, <2>1 DEF Final, Current
  <2> QED
    BY <1>1, <2>2 DEF NewestOf
<1> QED
  BY <1>4, <1>5

LEMMA LikeNewest ==
  ASSUME NEW e, NEW r, Like(e, r), NEW S
  PROVE  /\ NewestOf(e, S) <=> NewestOf(r, S)
         /\ Final(e) <=> Final(r)
         /\ Current(e) <=> Current(r)
BY DEF Like, NewestOf, Final, Current

\* The block of a live node is the block of a current copy.
LEMMA TreeCopy ==
  ASSUME TInv, TreeNewest, NEW n \in tree, n.live
  PROVE  \E q \in Copies : q.key = n.key /\ q.ts = n.ts /\ q.pba = n.pba /\ Current(q)
<1>1. PICK q \in Copies : q.key = n.key /\ q.ts = n.ts /\ q.pba = n.pba
  BY DEF TreeNewest
<1>2. PICK o \in Searchable : Like(q, o)
  BY CopyLike
<1>3. o.live
  BY <1>1, <1>2 DEF TInv, Stamps, Like
<1>4. n.ts = last[n.key]
  BY DEF TreeNewest, Final
<1> QED
  BY <1>1, <1>2, <1>3, <1>4 DEF Current, Like

\* A filter admits the keys of its table, so a read finds what it may see.
LEMMA VisibleFound ==
  ASSUME TInv, NEW q \in Visible
  PROVE  \E e \in Found(q.key) : Like(e, q)
<1>1. CASE q \in UnsortedRecords
  BY <1>1 DEF Found, Like
<1>2. CASE \E s \in segments : q \in s.table
  <2>1. PICK s \in segments : q \in s.table
    BY <1>2
  <2>2. MayContain(s, q.key)
    BY <2>1 DEF TInv, OInv, FilterOK, MayContain, KeysOf
  <2>3. Entry(s, q) \in Entries(s) /\ Like(Entry(s, q), q)
    <3>1. /\ Entry(s, q) = [key |-> q.key, ts |-> q.ts, live |-> q.live, pba |-> EntryPba(s, q)]
          /\ Entry(s, q) \in Entries(s)
      BY <2>1, EntryFacts
    <3> QED
      BY <3>1 DEF Like
  <2>4. Entry(s, q) \in UNION {Entries(t) : t \in {u \in segments : MayContain(u, q.key)}}
    BY <2>1, <2>2, <2>3
  <2>5. Entry(s, q) \in Found(q.key)
    BY <2>3, <2>4 DEF Found, Like
  <2> QED
    BY <2>3, <2>5
<1> QED
  BY <1>1, <1>2 DEF Visible, Tables

LEMMA FoundCopy ==
  ASSUME TInv, NEW k, NEW e \in Found(k)
  PROVE  e.key = k /\ e \in Copies
BY DEF Found, Copies, ListRecords

\* A read that misses the tree finds the final record, and one for every key with a payload.
LEMMA FoundFinal ==
  ASSUME TInv, Answers, NEW k \in HostKeys
  PROVE  /\ \A e \in Newest(Found(k)) : e.key = k /\ Final(e) /\ e \in Copies
         /\ last[k] # 0 => Newest(Found(k)) # {}
<1>1. ASSUME NEW r \in Searchable, r.live, r.key = k
      PROVE  \E q \in Newest(Found(k)) : NewestOf(q, Searchable)
  <2>1. PICK q \in Visible : q.key = k /\ NewestOf(q, Searchable)
    BY <1>1 DEF Answers, Masking
  <2>2. PICK e \in Found(k) : Like(e, q)
    BY <2>1, VisibleFound
  <2>3. NewestOf(e, Searchable)
    BY <2>1, <2>2, LikeNewest
  <2>4. \A f \in Found(k) : f.key = e.key => f.ts <= e.ts
    <3> SUFFICES ASSUME NEW f \in Found(k), f.key = e.key PROVE f.ts <= e.ts
      OBVIOUS
    <3>1. PICK g \in Searchable : Like(f, g)
      BY FoundCopy, CopyLike
    <3> QED
      BY <2>3, <3>1 DEF NewestOf, Like
  <2> QED
    BY <2>2, <2>3, <2>4 DEF Newest
<1>2. ASSUME NEW e \in Newest(Found(k)) PROVE e.key = k /\ Final(e) /\ e \in Copies
  <2>1. e \in Found(k) /\ \A q \in Found(k) : q.key = e.key => q.ts <= e.ts
    BY DEF Newest
  <2>2. e.key = k /\ e \in Copies
    BY <2>1, FoundCopy
  <2>3. PICK r \in Searchable : Like(e, r)
    BY <2>2, CopyLike
  <2>4. ASSUME NEW g \in Searchable, g.live, g.key = k PROVE Final(e)
    <3>1. PICK q \in Newest(Found(k)) : NewestOf(q, Searchable)
      BY <1>1, <2>4
    <3>2. q \in Found(k) /\ q.key = k
      BY FoundCopy DEF Newest
    <3>3. q.ts <= e.ts
      BY <2>1, <2>2, <3>2
    <3>4. NewestOf(e, Searchable)
      <4> SUFFICES ASSUME NEW f \in Searchable, f.key = e.key PROVE f.ts <= e.ts
        BY DEF NewestOf
      <4>1. f.ts <= q.ts
        BY <2>2, <3>1, <3>2 DEF NewestOf
      <4>2. f.ts \in Nat /\ q.ts \in Nat /\ e.ts \in Nat
        BY <2>2, <3>2, AnyRecord, FoundCopy, CopyLike
      <4> QED
        BY <3>3, <4>1, <4>2
    <3> QED
      BY <2>3, <3>4, LikeNewest, NewestFinal DEF Answers
  <2>5. CASE last[k] = 0
    <3>1. CASE e.live
      BY <2>2, <2>3, <2>4, <3>1 DEF Like
    <3>2. CASE ~ e.live
      BY <2>2, <2>5, <3>2 DEF Final
    <3> QED
      BY <3>1, <3>2
  <2>6. CASE last[k] # 0
    <3>1. PICK p \in ListRecords : p.key = k /\ Current(p)
      BY <2>6 DEF Answers, ListsNewest
    <3>2. p \in Searchable /\ p.live
      BY <3>1, ListsSearched DEF Current
    <3>3. Final(e)
      BY <2>4, <3>1, <3>2
    <3> QED
      BY <2>2, <3>3
  <2> QED
    BY <2>2, <2>5, <2>6
<1>3. ASSUME last[k] # 0 PROVE Newest(Found(k)) # {}
  <2>1. PICK p \in ListRecords : p.key = k /\ Current(p)
    BY <1>3 DEF Answers, ListsNewest
  <2> QED
    BY <1>1, <2>1, ListsSearched DEF Current
<1> QED
  BY <1>2, <1>3

\* What the property says follows.
LEMMA PayloadsFollow == LInv => LostOnlyToOutputs
<1> SUFFICES ASSUME LInv, op = "idle", NEW k \in HostKeys
             PROVE  IF last[k] = 0 THEN \A r \in ReadCopies(k) : ~ r.live
                    ELSE ~ InFlight(k) =>
                           /\ ReadCopies(k) # {}
                           /\ \A r \in ReadCopies(k) :
                                r.live /\ (media[r.pba] = last[k] \/ last[k] \in contested)
  BY DEF LostOnlyToOutputs
<1> DEFINE nodes == {n \in tree : n.key = k}
<1>1. ReadCopies(k) = IF nodes # {} THEN nodes ELSE Newest(Found(k))
  BY DEF ReadCopies
<1>2. \A r \in ReadCopies(k) :
        /\ r.key = k /\ r.ts # 0 /\ Final(r)
        /\ r.live => \E q \in Copies : q.key = k /\ q.ts = r.ts /\ q.live /\ q.pba = r.pba
  <2> SUFFICES ASSUME NEW r \in ReadCopies(k)
               PROVE  /\ r.key = k /\ r.ts # 0 /\ Final(r)
                      /\ r.live => \E q \in Copies : q.key = k /\ q.ts = r.ts /\ q.live /\ q.pba = r.pba
    OBVIOUS
  <2>1. CASE nodes # {}
    <3>1. r \in tree /\ r.key = k
      BY <1>1, <2>1
    <3>2. r.ts # 0 /\ Final(r)
      BY <3>1, AnyRecord DEF LInv, Answers, TreeNewest
    <3>3. r.live => \E q \in Copies : q.key = k /\ q.ts = r.ts /\ q.live /\ q.pba = r.pba
      BY <3>1, TreeCopy DEF LInv, Answers, Current
    <3> QED
      BY <3>1, <3>2, <3>3
  <2>2. CASE nodes = {}
    <3>1. r \in Newest(Found(k))
      BY <1>1, <2>2
    <3>2. r.key = k /\ Final(r) /\ r \in Copies
      BY <3>1, FoundFinal DEF LInv
    <3> QED
      BY <3>2, CopyLike DEF LInv
  <2> QED
    BY <2>1, <2>2
<1>3. CASE last[k] = 0
  BY <1>2, <1>3 DEF Final
<1>4. ASSUME last[k] # 0, ~ InFlight(k)
      PROVE  /\ ReadCopies(k) # {}
             /\ \A r \in ReadCopies(k) :
                  r.live /\ (media[r.pba] = last[k] \/ last[k] \in contested)
  <2>1. ReadCopies(k) # {}
    BY <1>1, <1>4, FoundFinal DEF LInv
  <2>2. ASSUME NEW r \in ReadCopies(k)
        PROVE  r.live /\ (media[r.pba] = last[k] \/ last[k] \in contested)
    <3>1. r.live /\ r.ts = last[k]
      BY <1>2, <1>4 DEF Final
    <3>2. PICK q \in Copies : q.key = k /\ q.ts = last[k] /\ q.live /\ q.pba = r.pba
      BY <1>2, <3>1
    <3>3. Current(q)
      BY <3>2 DEF Current
    <3>4. Kept(k) => media[q.pba] = q.ts
      BY <1>4, <3>2, <3>3 DEF LInv, Payloads, PayloadThere
    <3> QED
      BY <3>1, <3>2, <3>4 DEF Kept
  <2> QED
    BY <2>1, <2>2
<1> QED
  BY <1>3, <1>4

LEMMA PayloadsInit == Init => LInv
<1> SUFFICES ASSUME Init PROVE LInv
  OBVIOUS
<1>1. TInv
  BY TypesInit
<1>2. Searchable = {} /\ tree = {} /\ ListRecords = {} /\ segments = {}
  <2>1. \A l \in Levels : unsorted[l] = {} /\ sorted[l] = {}
    BY DEF Init
  <2>2. UnsortedRecords = {} /\ ListRecords = {} /\ Tables = {}
    BY <2>1 DEF UnsortedRecords, ListRecords, Tables, Init
  <2> QED
    BY <2>2, Everywhere DEF Init
<1>3. Copies = {} /\ bios = {} /\ op = "idle" /\ \A k \in HostKeys : last[k] = 0
  BY <1>2 DEF Copies, Init
<1>4. Answers
  BY <1>2, <1>3 DEF Answers, ListsNewest, Masking, TreeNewest
<1>5. Payloads
  BY <1>2, <1>3 DEF Payloads, PayloadThere, CopiedThere, RangesClear, BiosGoHome, BiosApart,
    BiosOffSlots, Quiet
<1> QED
  BY <1>1, <1>4, <1>5 DEF LInv

-----------------------------------------------------------------------------
(* Host requests.                                                          *)

LEMMA JoinCopies ==
  ASSUME TInv, NEW l \in Levels, NEW r, Joins(r, l), r.ts = timestamp + 1,
         \A j \in HostKeys \ {r.key} : last'[j] = last[j],
         last'[r.key] \in {0, timestamp + 1}
  PROVE  /\ Copies' = Copies \cup {r} /\ Visible' = Visible \cup {r}
         /\ \A e \in Searchable \cup tree : e.ts <= r.ts
         /\ \A e \in Copies \cup Searchable \cup tree : e.key # r.key =>
              (Current(e)' <=> Current(e)) /\ (Final(e)' <=> Final(e))
         /\ \A e \in Copies \cup Searchable : e.key = r.key => ~ Current(e)'
<1>1. Copies' = Copies \cup {r}
  <2>1. \A s \in segments : Entries(s)' = Entries(s)
    BY JoinedSets
  <2>2. segments' = segments /\ ListRecords' = ListRecords \cup {r}
    BY JoinedSets DEF Joins
  <2> QED
    BY <2>1, <2>2 DEF Copies
<1>2. Visible' = Visible \cup {r}
  BY JoinedSets DEF Visible
<1>3. timestamp \in Nat /\ \A e \in Searchable \cup tree : e.ts \in 1..timestamp
  BY Limits DEF TInv, HostTypes, RecordsOK
<1>4. \A e \in Searchable \cup tree : e.ts <= r.ts
  BY <1>3
<1>5. \A e \in Copies : \E q \in Searchable : Like(e, q)
  BY CopyLike
<1>6. \A e \in Copies \cup Searchable \cup tree : e.ts \in 1..timestamp /\ e.key \in HostKeys
  BY <1>3, <1>5, AnyRecord DEF Like
<1>7. \A e \in Copies \cup Searchable \cup tree : e.key # r.key =>
        (Current(e)' <=> Current(e)) /\ (Final(e)' <=> Final(e))
  BY <1>6 DEF Current, Final
<1>8. \A e \in Copies \cup Searchable : e.key = r.key => ~ Current(e)'
  <2>1. \A i \in 1..timestamp : i \notin {0, timestamp + 1}
    BY <1>3
  <2> QED
    BY <1>6, <2>1 DEF Current
<1> QED
  BY <1>1, <1>2, <1>4, <1>7, <1>8

LEMMA JoinAnswers ==
  ASSUME TInv, Answers, NEW l \in Levels, NEW r, Joins(r, l), r.ts = timestamp + 1,
         r.key \in HostKeys, \A j \in HostKeys \ {r.key} : last'[j] = last[j],
         last'[r.key] = IF r.live THEN timestamp + 1 ELSE 0
  PROVE  Answers'
<1>1. /\ Copies' = Copies \cup {r} /\ Visible' = Visible \cup {r}
      /\ \A e \in Searchable \cup tree : e.ts <= r.ts
      /\ \A e \in Copies \cup Searchable \cup tree : e.key # r.key =>
           (Current(e)' <=> Current(e)) /\ (Final(e)' <=> Final(e))
  BY JoinCopies
<1>2. ListRecords' = ListRecords \cup {r} /\ Searchable' = Searchable \cup {r}
  BY JoinedSets
<1>3. tree' \subseteq tree \cup {r} /\ \A n \in tree' : n.key = r.key => n = r
  BY TreeWithOne DEF Joins
<1>4. Final(r)' /\ (r.live => Current(r)') /\ r.ts <= r.ts
  <2>1. timestamp + 1 \in Nat
    BY Limits DEF TInv, HostTypes
  <2> QED
    BY <2>1 DEF Final, Current
<1>5. NewestOf(r, Searchable' \cup tree')
  BY <1>1, <1>2, <1>3, <1>4 DEF NewestOf
<1>6. ASSUME NEW p, p.key # r.key
      PROVE  /\ NewestOf(p, Searchable) => NewestOf(p, Searchable')
             /\ NewestOf(p, Searchable \cup tree) => NewestOf(p, Searchable' \cup tree')
  BY <1>2, <1>3, <1>6 DEF NewestOf
<1>7. ListsNewest'
  <2>1. ASSUME NEW e \in Searchable' \cup tree'
        PROVE  \E p \in ListRecords' :
                 p.key = e.key /\ Final(p)' /\ NewestOf(p, Searchable' \cup tree')
    <3>1. CASE e.key = r.key
      BY <1>2, <1>4, <1>5, <3>1
    <3>2. CASE e.key # r.key
      <4>1. e \in Searchable \cup tree
        BY <1>2, <1>3, <3>2
      <4>2. PICK p \in ListRecords : p.key = e.key /\ Final(p) /\ NewestOf(p, Searchable \cup tree)
        BY <4>1 DEF Answers, ListsNewest
      <4>3. Final(p)'
        BY <1>1, <3>2, <4>2, ListsSearched
      <4> QED
        BY <1>2, <1>6, <3>2, <4>2, <4>3
    <3> QED
      BY <3>1, <3>2
  <2>2. ASSUME NEW k \in HostKeys, last'[k] # 0
        PROVE  \E p \in ListRecords' : p.key = k /\ Current(p)'
    <3>1. CASE k = r.key
      BY <1>2, <1>4, <2>2, <3>1
    <3>2. CASE k # r.key
      <4>1. PICK p \in ListRecords : p.key = k /\ Current(p)
        BY <2>2, <3>2 DEF Answers, ListsNewest
      <4> QED
        BY <1>1, <1>2, <3>2, <4>1, ListsSearched
    <3> QED
      BY <3>1, <3>2
  <2> QED
    BY <2>1, <2>2 DEF ListsNewest, NewestOf
<1>8. Masking'
  <2>1. ASSUME NEW e \in Searchable', e.live
        PROVE  \E q \in Visible' : q.key = e.key /\ NewestOf(q, Searchable')
    <3>1. CASE e.key = r.key
      BY <1>1, <1>5, <3>1 DEF NewestOf
    <3>2. CASE e.key # r.key
      <4>1. e \in Searchable
        BY <1>2, <3>2
      <4>2. PICK q \in Visible : q.key = e.key /\ NewestOf(q, Searchable)
        BY <2>1, <4>1 DEF Answers, Masking
      <4> QED
        BY <1>1, <1>6, <3>2, <4>2
    <3> QED
      BY <3>1, <3>2
  <2> QED
    BY <2>1 DEF Masking, NewestOf
<1>9. TreeNewest'
  <2>1. ASSUME NEW n \in tree'
        PROVE  /\ Final(n)'
               /\ n.live => \E q \in Copies' : q.key = n.key /\ q.ts = n.ts /\ q.pba = n.pba
    <3>1. CASE n.key = r.key
      BY <1>1, <1>3, <1>4, <3>1
    <3>2. CASE n.key # r.key
      <4>1. n \in tree
        BY <1>3, <3>2
      <4> QED
        BY <1>1, <3>2, <4>1 DEF Answers, TreeNewest
    <3> QED
      BY <3>1, <3>2
  <2> QED
    BY <2>1 DEF TreeNewest
<1> QED
  BY <1>7, <1>8, <1>9 DEF Answers

LEMMA UsedBlock ==
  ASSUME NEW e \in Copies \cup Searchable, Current(e), NEW blocks, e.pba \in blocks
  PROVE  e \in InUse(blocks)
<1>1. e \in Searchable \cup UNION {Entries(s) : s \in segments}
  BY Everywhere DEF Copies
<1>2. e.live /\ e.ts = last[e.key]
  BY DEF Current
<1> QED
  BY <1>1, <1>2 DEF InUse

LEMMA WritePayloads ==
  ASSUME LInv, ZonesHold, NEW k \in HostKeys, NEW l \in Levels, HostWrite(k, l)
  PROVE  LInv'
<1>1. PICK target \in Blocks :
           LET r == [key |-> k, ts |-> timestamp + 1, live |-> TRUE, pba |-> target]
           IN /\ r \in Records /\ Joins(r, l) /\ op = "idle" /\ ~ InFlight(k)
              /\ HostTypes' /\ DiskTypes' /\ media' = media
              /\ bios' = bios \cup {[key |-> k, ts |-> timestamp + 1, pba |-> target]}
              /\ last' = [last EXCEPT ![k] = timestamp + 1]
              /\ contested' = contested \cup
                   IF Rivals(k, target) = {} THEN {}
                   ELSE {timestamp + 1} \cup {q.ts : q \in Rivals(k, target)}
  BY WriteJoins DEF LInv
<1> DEFINE r == [key |-> k, ts |-> timestamp + 1, live |-> TRUE, pba |-> target]
           b == [key |-> k, ts |-> timestamp + 1, pba |-> target]
<1>2. /\ r.key = k /\ r.ts = timestamp + 1 /\ r.live /\ r.pba = target
      /\ b.key = k /\ b.ts = timestamp + 1 /\ b.pba = target
  OBVIOUS
<1>3. r \in Records /\ Joins(r, l) /\ bios' = bios \cup {b}
  BY <1>1
<1> HIDE DEF r, b
<1>4. /\ last'[k] = timestamp + 1 /\ \A j \in HostKeys \ {k} : last'[j] = last[j]
  BY <1>1 DEF LInv, TInv, HostTypes
<1>5. TInv'
  BY <1>1, <1>2, <1>3, JoinTypes DEF LInv
<1>6. Answers'
  BY <1>2, <1>3, <1>4, JoinAnswers DEF LInv
<1>7. /\ Copies' = Copies \cup {r}
      /\ \A e \in Copies \cup Searchable : e.key # k => (Current(e)' <=> Current(e))
      /\ \A e \in Copies \cup Searchable : e.key = k => ~ Current(e)'
  <2>1. last'[r.key] \in {0, timestamp + 1}
    BY <1>2, <1>4
  <2> QED
    BY <1>2, <1>3, <1>4, <2>1, JoinCopies DEF LInv
<1>8. \A s \in segments : \A e \in s.table : e \in Searchable
  BY TableRecord DEF LInv
<1>9. \A e \in Copies \cup Searchable : e.key \in HostKeys
  BY CopyLike, AnyRecord DEF LInv
<1>10. /\ segments' = segments /\ copied' = copied /\ committed' = committed /\ op' = "idle"
       /\ media' = media /\ op = "idle"
  BY <1>1, <1>3 DEF Joins, output
<1>11. contested \subseteq contested' /\ \A q \in Rivals(k, target) : q.ts \in contested' /\ timestamp + 1 \in contested'
  BY <1>1
<1>12. \A j \in HostKeys \ {k} : (Kept(j)' => Kept(j)) /\ (InFlight(j)' <=> InFlight(j))
  BY <1>2, <1>3, <1>4, <1>11 DEF Kept, InFlight
<1>13. InFlight(k)' /\ ~ InFlight(k)
  BY <1>1, <1>2, <1>3 DEF InFlight
<1>14. ASSUME NEW e \in Copies, Current(e), e.pba = target, e.key # k
       PROVE  ~ Kept(e.key)' /\ ~ Kept(k)'
  <2>1. e \in Rivals(k, target)
    BY <1>14, UsedBlock DEF Rivals
  <2>2. e.ts = last'[e.key]
    BY <1>4, <1>9, <1>14 DEF Current
  <2> QED
    BY <1>4, <1>11, <2>1, <2>2 DEF Kept
<1>15. ASSUME NEW s \in segments, target \in OutputRange(s)
       PROVE  ~ Kept(k)' /\ \A e \in s.table : e.key # k /\ Current(e) => ~ Kept(e.key)'
  <2>1. s.table \subseteq Rivals(k, target)
    BY <1>15 DEF Rivals
  <2>2. s.table # {}
    BY DEF LInv, TInv, OInv, SegmentOK
  <2>3. \A e \in s.table : e.key # k /\ Current(e) => e.ts = last'[e.key]
    BY <1>4, <1>8, <1>9 DEF Current
  <2> QED
    BY <1>4, <1>11, <2>1, <2>2, <2>3 DEF Kept
<1>16. PayloadThere'
  <2> SUFFICES ASSUME NEW e \in Copies', Current(e)', ~ InFlight(e.key)', Kept(e.key)'
               PROVE  media'[e.pba] = e.ts
    BY DEF PayloadThere
  <2>1. e \in Copies /\ e.key # k
    BY <1>2, <1>7, <1>13
  <2>2. Current(e) /\ ~ InFlight(e.key) /\ Kept(e.key)
    BY <1>7, <1>9, <1>12, <2>1
  <2> QED
    BY <1>10, <2>1, <2>2 DEF LInv, Payloads, PayloadThere
<1>17. CopiedThere'
  <2> SUFFICES ASSUME NEW s \in segments, NEW e \in s.table, <<s.id, e.key>> \in copied,
                      Current(e)', Kept(e.key)'
               PROVE  media[Slot(s, e.key)] = e.ts
    BY <1>10 DEF CopiedThere
  <2>1. e.key # k /\ Current(e) /\ Kept(e.key)
    BY <1>7, <1>8, <1>9, <1>12
  <2> QED
    BY <2>1 DEF LInv, Payloads, CopiedThere
<1>18. RangesClear'
  <2> SUFFICES ASSUME NEW s \in segments, NEW e \in Copies', Current(e)', Kept(e.key)',
                      e.pba \in OutputRange(s)
               PROVE  <<s.id, e.key>> \in committed /\ e.pba = Slot(s, e.key)
    BY <1>10 DEF RangesClear
  <2>1. e \in Copies /\ e.key # k
    BY <1>2, <1>7, <1>15
  <2>2. Current(e) /\ Kept(e.key)
    BY <1>7, <1>9, <1>12, <2>1
  <2> QED
    BY <2>1, <2>2 DEF LInv, Payloads, RangesClear
<1>19. \A c \in bios : c.key \in HostKeys /\ c.key # k
  BY <1>13 DEF InFlight, LInv, TInv, DiskTypes
<1>20. BiosGoHome'
  <2> SUFFICES ASSUME NEW c \in bios'
               PROVE  /\ c.ts = last'[c.key]
                      /\ \A e \in Copies' : Current(e)' /\ e.key = c.key => e.pba = c.pba
    BY DEF BiosGoHome
  <2>1. CASE c \in bios
    BY <1>2, <1>4, <1>7, <1>19, <2>1 DEF LInv, Payloads, BiosGoHome
  <2>2. CASE c = b
    BY <1>2, <1>4, <1>7, <2>2
  <2> QED
    BY <1>3, <2>1, <2>2
<1>21. BiosApart'
  <2> SUFFICES ASSUME NEW c \in bios', NEW e \in Copies', Current(e)', e.pba = c.pba, e.key # c.key
               PROVE  ~ Kept(e.key)'
    BY DEF BiosApart
  <2>1. CASE c = b
    BY <1>2, <1>7, <1>14, <2>1
  <2>2. CASE c \in bios /\ e = r
    <3>1. last[c.key] # 0
      BY <2>2, Limits DEF LInv, TInv, DiskTypes, Payloads, BiosGoHome
    <3>2. PICK p \in ListRecords : p.key = c.key /\ Current(p)
      BY <1>19, <2>2, <3>1 DEF LInv, Answers, ListsNewest
    <3>3. p \in Copies /\ p.pba = c.pba
      BY <2>2, <3>2 DEF Copies, LInv, Payloads, BiosGoHome
    <3> QED
      BY <1>2, <1>14, <1>19, <2>2, <3>2, <3>3
  <2>3. CASE c \in bios /\ e \in Copies
    <3>1. e.key # k /\ Current(e)
      BY <1>7, <2>3
    <3> QED
      BY <1>9, <1>12, <2>3, <3>1 DEF LInv, Payloads, BiosApart
  <2> QED
    BY <1>3, <1>7, <2>1, <2>2, <2>3
<1>22. BiosOffSlots'
  <2> SUFFICES ASSUME NEW c \in bios', NEW s \in segments, NEW e \in s.table, c.pba \in OutputRange(s),
                      <<s.id, e.key>> \in copied \cup committed, Current(e)'
               PROVE  ~ Kept(e.key)'
    BY <1>10 DEF BiosOffSlots
  <2>1. e.key # k /\ Current(e) /\ e.key \in HostKeys
    BY <1>7, <1>8, <1>9
  <2>2. CASE c = b
    BY <1>2, <1>15, <2>1, <2>2
  <2>3. CASE c \in bios
    BY <1>12, <2>1, <2>3 DEF LInv, Payloads, BiosOffSlots
  <2> QED
    BY <1>3, <2>2, <2>3
<1>23. Quiet'
  BY <1>10 DEF Quiet
<1> QED
  BY <1>5, <1>6, <1>16, <1>17, <1>18, <1>20, <1>21, <1>22, <1>23 DEF LInv, Payloads

LEMMA DeletePayloads ==
  ASSUME LInv, NEW k \in HostKeys, NEW l \in Levels, HostDelete(k, l)
  PROVE  LInv'
<1> DEFINE r == [key |-> k, ts |-> timestamp + 1, live |-> FALSE, pba |-> None]
<1>1. /\ r \in Records /\ Joins(r, l) /\ op = "idle" /\ ~ InFlight(k)
      /\ HostTypes' /\ DiskTypes' /\ UNCHANGED <<media, bios, contested>>
      /\ last' = [last EXCEPT ![k] = 0]
  BY DeleteJoins DEF LInv
<1>2. r.key = k /\ r.ts = timestamp + 1 /\ ~ r.live
  OBVIOUS
<1> HIDE DEF r
<1>3. last'[k] = 0 /\ \A j \in HostKeys \ {k} : last'[j] = last[j]
  BY <1>1 DEF LInv, TInv, HostTypes
<1>4. TInv'
  BY <1>1, <1>2, JoinTypes DEF LInv
<1>5. Answers'
  BY <1>1, <1>2, <1>3, JoinAnswers DEF LInv
<1>6. /\ Copies' = Copies \cup {r}
      /\ \A e \in Copies \cup Searchable : e.key # k => (Current(e)' <=> Current(e))
      /\ \A e \in Copies \cup Searchable : e.key = k => ~ Current(e)'
  BY <1>1, <1>2, <1>3, JoinCopies DEF LInv
<1>7. /\ segments' = segments /\ copied' = copied /\ committed' = committed /\ op' = op
      /\ media' = media /\ bios' = bios /\ contested' = contested
  BY <1>1 DEF Joins, output
<1>8. \A e \in Copies \cup Searchable : e.key \in HostKeys
  BY CopyLike, AnyRecord DEF LInv
<1>9. \A e \in Copies' : Current(e)' => e \in Copies /\ e.key \in HostKeys \ {k} /\ Current(e)
  BY <1>2, <1>6, <1>8 DEF Current
<1>10. \A s \in segments : \A e \in s.table : Current(e)' => e.key \in HostKeys \ {k} /\ Current(e)
  <2>1. \A s \in segments : \A e \in s.table : e \in Searchable
    BY TableRecord DEF LInv
  <2> QED
    BY <1>6, <1>8, <2>1
<1>11. \A j \in HostKeys \ {k} : (Kept(j)' <=> Kept(j)) /\ (InFlight(j)' <=> InFlight(j))
  BY <1>3, <1>7 DEF Kept, InFlight
<1>12. \A c \in bios : c.key \in HostKeys \ {k}
  BY <1>1 DEF InFlight, LInv, TInv, DiskTypes
<1>13. PayloadThere'
  BY <1>7, <1>9, <1>11 DEF LInv, Payloads, PayloadThere
<1>14. CopiedThere'
  BY <1>7, <1>10, <1>11 DEF LInv, Payloads, CopiedThere
<1>15. RangesClear'
  BY <1>7, <1>9, <1>11 DEF LInv, Payloads, RangesClear
<1>16. BiosGoHome'
  BY <1>3, <1>7, <1>9, <1>12 DEF LInv, Payloads, BiosGoHome
<1>17. BiosApart'
  BY <1>7, <1>9, <1>11 DEF LInv, Payloads, BiosApart
<1>18. BiosOffSlots'
  BY <1>7, <1>10, <1>11 DEF LInv, Payloads, BiosOffSlots
<1>19. Quiet'
  BY <1>7 DEF LInv, Payloads, Quiet
<1> QED
  BY <1>4, <1>5, <1>13, <1>14, <1>15, <1>16, <1>17, <1>18, <1>19 DEF LInv, Payloads

-----------------------------------------------------------------------------
(* Bios and reads.                                                         *)

\* The other steps make records out of records, and keep the newest ones in the lists.
LEMMA ListsStay ==
  ASSUME TInv, ListsNewest, last' = last,
         \A e \in Searchable' \cup tree' : \E o \in Searchable \cup tree : Like(e, o),
         \A p \in ListRecords : NewestOf(p, Searchable \cup tree) => p \in ListRecords'
  PROVE  ListsNewest'
<1>1. \A p : NewestOf(p, Searchable \cup tree) => NewestOf(p, Searchable' \cup tree')
  BY DEF NewestOf, Like
<1>2. \A e : (Current(e)' <=> Current(e)) /\ (Final(e)' <=> Final(e))
  BY DEF Current, Final
<1>3. ASSUME NEW e \in Searchable' \cup tree'
      PROVE  \E p \in ListRecords' :
               p.key = e.key /\ Final(p)' /\ NewestOf(p, Searchable' \cup tree')
  <2>1. PICK o \in Searchable \cup tree : e.key = o.key
    BY DEF Like
  <2>2. PICK p \in ListRecords : p.key = o.key /\ Final(p) /\ NewestOf(p, Searchable \cup tree)
    BY DEF ListsNewest
  <2> QED
    BY <1>1, <1>2, <2>1, <2>2
<1>4. ASSUME NEW k \in HostKeys, last'[k] # 0
      PROVE  \E p \in ListRecords' : p.key = k /\ Current(p)'
  <2>1. PICK p \in ListRecords : p.key = k /\ Current(p)
    BY <1>4 DEF ListsNewest
  <2>2. NewestOf(p, Searchable \cup tree)
    BY <2>1, ListsSearched, NewestFinal
  <2> QED
    BY <1>2, <2>1, <2>2
<1> QED
  BY <1>3, <1>4 DEF ListsNewest, NewestOf

LEMMA SameIndex ==
  ASSUME UNCHANGED <<index, last, committed>>
  PROVE  /\ Copies' = Copies /\ Visible' = Visible
         /\ \A e : (Current(e)' <=> Current(e)) /\ (Final(e)' <=> Final(e))
<1>1. UNCHANGED <<unsorted, sorted, segments>>
  BY DEF index
<1>2. \A s : Entries(s)' = Entries(s)
  BY DEF Entries, EntryPba
<1>3. Copies' = Copies /\ Visible' = Visible
  BY <1>1, <1>2, SameSets DEF Copies, Visible
<1> QED
  BY <1>3 DEF Current, Final

LEMMA SameAnswers ==
  ASSUME Answers, UNCHANGED <<index, last, committed, tree>>
  PROVE  Answers'
<1>1. /\ Searchable' = Searchable /\ ListRecords' = ListRecords /\ tree' = tree
      /\ Copies' = Copies /\ Visible' = Visible /\ last' = last
      /\ \A e : (Current(e)' <=> Current(e)) /\ (Final(e)' <=> Final(e))
  BY SameSets, SameIndex DEF index
<1>2. ListsNewest'
  BY <1>1 DEF Answers, ListsNewest, NewestOf
<1>3. Masking'
  BY <1>1 DEF Answers, Masking, NewestOf
<1>4. TreeNewest'
  BY <1>1 DEF Answers, TreeNewest
<1> QED
  BY <1>2, <1>3, <1>4 DEF Answers

LEMMA LandPayloads ==
  ASSUME LInv, NEW b \in bios, BioLands(b)
  PROVE  LInv'
<1>1. /\ bios' = bios \ {b} /\ media' = [media EXCEPT ![b.pba] = b.ts]
      /\ UNCHANGED <<index, output, host, tree, contested>>
  BY DEF BioLands
<1>2. UNCHANGED <<segments, copied, committed, op, last>>
  BY <1>1 DEF index, output, host
<1>3. TInv'
  BY DiskTypesKept DEF LInv
<1>4. Answers'
  BY <1>1, <1>2, SameAnswers DEF LInv
<1>5. Copies' = Copies /\ \A e : Current(e)' <=> Current(e)
  BY <1>1, <1>2, SameIndex
<1>6. \A j : Kept(j)' <=> Kept(j)
  BY <1>1, <1>2 DEF Kept
<1>7. \A p \in Blocks : media'[p] = IF p = b.pba THEN b.ts ELSE media[p]
  BY <1>1 DEF LInv, TInv, DiskTypes
<1>8. PayloadThere'
  <2> SUFFICES ASSUME NEW e \in Copies, Current(e), ~ InFlight(e.key)', Kept(e.key)
               PROVE  media'[e.pba] = e.ts
    BY <1>5, <1>6 DEF PayloadThere
  <2>1. e.pba \in Blocks
    BY CopyLike DEF LInv, Current
  <2>2. CASE e.pba = b.pba
    <3>1. e.key = b.key
      BY <2>2 DEF LInv, Payloads, BiosApart
    <3> QED
      BY <1>7, <2>1, <2>2, <3>1 DEF LInv, Payloads, BiosGoHome, Current
  <2>3. CASE e.pba # b.pba
    <3>1. e.key # b.key
      BY <2>3 DEF LInv, Payloads, BiosGoHome
    <3>2. ~ InFlight(e.key)
      BY <1>1, <3>1 DEF InFlight
    <3> QED
      BY <1>7, <2>1, <2>3, <3>2 DEF LInv, Payloads, PayloadThere
  <2> QED
    BY <2>2, <2>3
<1>9. CopiedThere'
  <2> SUFFICES ASSUME NEW s \in segments, NEW e \in s.table, <<s.id, e.key>> \in copied,
                      Current(e), Kept(e.key)
               PROVE  media'[Slot(s, e.key)] = e.ts
    BY <1>2, <1>5, <1>6 DEF CopiedThere
  <2>1. s.first # None /\ e.key \in LiveKeys(s)
    BY TableRecord DEF LInv, TInv, FlagsPlaced
  <2>2. Slot(s, e.key) \in OutputRange(s) /\ Slot(s, e.key) \in Blocks
    BY <2>1, SlotsInside DEF LInv
  <2>3. Slot(s, e.key) # b.pba
    BY <2>2 DEF LInv, Payloads, BiosOffSlots
  <2> QED
    BY <1>7, <2>2, <2>3 DEF LInv, Payloads, CopiedThere
<1>10. RangesClear'
  BY <1>2, <1>5, <1>6 DEF LInv, Payloads, RangesClear
<1>11. BiosGoHome' /\ BiosApart'
  BY <1>1, <1>2, <1>5, <1>6 DEF LInv, Payloads, BiosGoHome, BiosApart
<1>12. BiosOffSlots'
  BY <1>1, <1>2, <1>5, <1>6 DEF LInv, Payloads, BiosOffSlots
<1>13. Quiet'
  BY <1>1, <1>2 DEF LInv, Payloads, Quiet
<1> QED
  BY <1>3, <1>4, <1>8, <1>9, <1>10, <1>11, <1>12, <1>13 DEF LInv, Payloads

\* Steps after which the disk and the copies are what they were.
LEMMA SamePayloads ==
  ASSUME Payloads, UNCHANGED <<index, last, copied, committed, media, bios, contested>>,
         op' = "copy" => bios = {}, op' # "commit", op' \in {"idle", "copy", "commit"}
  PROVE  Payloads'
<1>1. UNCHANGED segments
  BY DEF index
<1>2. Copies' = Copies /\ \A e : Current(e)' <=> Current(e)
  BY SameIndex
<1>3. \A j : (Kept(j)' <=> Kept(j)) /\ (InFlight(j)' <=> InFlight(j))
  BY DEF Kept, InFlight
<1>4. PayloadThere' /\ CopiedThere'
  BY <1>1, <1>2, <1>3 DEF Payloads, PayloadThere, CopiedThere
<1>5. RangesClear' /\ BiosGoHome'
  BY <1>1, <1>2, <1>3 DEF Payloads, RangesClear, BiosGoHome
<1>6. BiosApart' /\ BiosOffSlots' /\ Quiet'
  BY <1>1, <1>2, <1>3 DEF Payloads, BiosApart, BiosOffSlots, Quiet
<1> QED
  BY <1>4, <1>5, <1>6 DEF Payloads

LEMMA ReadPayloads ==
  ASSUME LInv, NEW k \in HostKeys, Read(k)
  PROVE  LInv'
<1>1. PICK r \in ReadCopies(k) : tree' \in TreesWith({r})
  BY DEF Read
<1>2. UNCHANGED <<index, last, copied, committed, media, bios, contested, op>> /\ op = "idle"
  BY DEF Read, output, host, disk
<1>3. tree' \subseteq tree \cup {r}
  BY <1>1, TreeWithOne
<1>4. r \in Newest(Found(k))
  BY <1>1 DEF Read, ReadCopies
<1>5. Final(r) /\ r \in Copies
  BY <1>4, FoundFinal DEF LInv
<1>6. PICK q \in Searchable : Like(r, q)
  BY <1>5, CopyLike DEF LInv
<1>7. TInv'
  BY ReadTypes DEF LInv
<1>8. /\ Searchable' = Searchable /\ ListRecords' = ListRecords
      /\ Copies' = Copies /\ Visible' = Visible /\ last' = last
      /\ \A e : (Current(e)' <=> Current(e)) /\ (Final(e)' <=> Final(e))
  BY <1>2, SameSets, SameIndex DEF index
<1>9. ListsNewest'
  <2>1. \A e \in Searchable' \cup tree' : \E o \in Searchable \cup tree : Like(e, o)
    BY <1>3, <1>6, <1>8 DEF Like
  <2> QED
    BY <1>8, <2>1, ListsStay DEF LInv, Answers
<1>10. Masking'
  BY <1>8 DEF LInv, Answers, Masking, NewestOf
<1>11. TreeNewest'
  BY <1>3, <1>5, <1>8 DEF LInv, Answers, TreeNewest
<1>12. Payloads'
  BY <1>2, SamePayloads DEF LInv
<1> QED
  BY <1>7, <1>9, <1>10, <1>11, <1>12 DEF LInv, Answers

-----------------------------------------------------------------------------
(* Commits.                                                                *)

LEMMA BeginPayloads ==
  ASSUME CommitsCopy, LInv, NEW mode \in Modes, CommitOutput(mode)
  PROVE  LInv'
<1>1. /\ op' = "copy" /\ bios = {}
      /\ UNCHANGED <<index, last, tree, copied, committed, media, bios, contested>>
  BY DEF CommitOutput, CommitsCopy, host, disk
<1>2. TInv'
  BY DiskTypesKept DEF LInv
<1>3. Answers'
  BY <1>1, SameAnswers DEF LInv
<1>4. Payloads'
  BY <1>1, SamePayloads DEF LInv
<1> QED
  BY <1>2, <1>3, <1>4 DEF LInv

\* The slot of an entry that is neither copied nor committed is used by nothing.
LEMMA SlotFree ==
  ASSUME LInv, NEW s \in segments, NEW r \in s.table, r.live, s.first # None,
         <<s.id, r.key>> \notin copied \cup committed
  PROVE  /\ \A c \in Copies : Current(c) /\ Kept(c.key) => c.pba # Slot(s, r.key)
         /\ \A t \in segments : \A q \in t.table :
              <<t.id, q.key>> \in copied => Slot(t, q.key) # Slot(s, r.key)
<1>1. r.key \in LiveKeys(s) /\ TInv
  BY TableRecord DEF LInv
<1>2. Slot(s, r.key) \in OutputRange(s) /\ \A k \in LiveKeys(s) : k # r.key => Slot(s, k) # Slot(s, r.key)
  BY <1>1, SlotsInside
<1>3. ASSUME NEW c \in Copies, Current(c), Kept(c.key), c.pba = Slot(s, r.key) PROVE FALSE
  <2>1. <<s.id, c.key>> \in committed /\ c.pba = Slot(s, c.key)
    BY <1>2, <1>3 DEF LInv, Payloads, RangesClear
  <2>2. c.key \in HostKeys
    BY <1>1, CopyLike
  <2>3. c.key \in LiveKeys(s)
    BY <1>1, <2>1, <2>2 DEF TInv, FlagsPlaced
  <2> QED
    BY <1>2, <1>3, <2>1, <2>3
<1>4. ASSUME NEW t \in segments, NEW q \in t.table, <<t.id, q.key>> \in copied
      PROVE  Slot(t, q.key) # Slot(s, r.key)
  <2>1. t.first # None /\ q.key \in LiveKeys(t)
    BY <1>1, <1>4, TableRecord DEF TInv, FlagsPlaced
  <2>2. Slot(t, q.key) \in OutputRange(t)
    BY <1>1, <2>1, SlotsInside
  <2>3. CASE t = s
    BY <1>2, <1>4, <2>1, <2>3
  <2>4. CASE t # s
    <3>1. OutputRange(t) \cap OutputRange(s) = {}
      BY <1>1, <2>4 DEF TInv, OInv, RangesApart
    <3> QED
      BY <1>2, <2>2, <3>1
  <2> QED
    BY <2>3, <2>4
<1> QED
  BY <1>3, <1>4

\* The entry that is copied next.
LEMMA NextEntry ==
  ASSUME LInv, ToCopy # {}
  PROVE  \E s \in segments : \E r \in s.table :
           /\ NextCopy = <<s.id, r.key>> /\ r.live /\ s.first # None
           /\ SlotOf(NextCopy) = Slot(s, r.key) /\ SlotOf(NextCopy) \in Blocks
           /\ SourceOf(NextCopy) = EntryPba(s, r)
           /\ NextCopy \notin copied \cup committed
<1>1. NextCopy \in Planned /\ NextCopy \notin copied \cup committed /\ TInv
  BY CopyChosen DEF LInv, ToCopy
<1>2. PICK s \in segments : \E r \in s.table :
        /\ NextCopy = <<s.id, r.key>> /\ r.live /\ s.first # None
        /\ SlotOf(NextCopy) = Slot(s, r.key) /\ SlotOf(NextCopy) \in Blocks
        /\ SourceOf(NextCopy) = EntryPba(s, r)
  BY <1>1, PlannedEntry
<1> QED
  BY <1>1, <1>2

\* What is on the slot may change, to what the entry names if it counts as copied.
LEMMA SlotWritten ==
  ASSUME LInv, NEW s \in segments, NEW r \in s.table, r.live, s.first # None,
         <<s.id, r.key>> \notin copied \cup committed,
         UNCHANGED <<index, last, committed, bios, contested>>, bios = {},
         \A p \in Blocks : p # Slot(s, r.key) => media'[p] = media[p],
         \/ copied' = copied
         \/ copied' = copied \cup {<<s.id, r.key>>}
              /\ (Current(r) /\ Kept(r.key) => media'[Slot(s, r.key)] = r.ts),
         op' \in {"idle", "copy"}
  PROVE  Payloads'
<1>1. UNCHANGED segments
  BY DEF index
<1>2. Copies' = Copies /\ \A e : Current(e)' <=> Current(e)
  BY SameIndex
<1>3. \A j : (Kept(j)' <=> Kept(j)) /\ (InFlight(j)' <=> InFlight(j))
  BY DEF Kept, InFlight
<1>4. PayloadThere'
  <2> SUFFICES ASSUME NEW e \in Copies, Current(e), ~ InFlight(e.key), Kept(e.key)
               PROVE  media'[e.pba] = e.ts
    BY <1>2, <1>3 DEF PayloadThere
  <2>1. e.pba \in Blocks /\ e.pba # Slot(s, r.key)
    BY SlotFree, CopyLike DEF LInv, Current
  <2> QED
    BY <2>1 DEF LInv, Payloads, PayloadThere
<1>5. CopiedThere'
  <2> SUFFICES ASSUME NEW t \in segments, NEW e \in t.table, <<t.id, e.key>> \in copied',
                      Current(e), Kept(e.key)
               PROVE  media'[Slot(t, e.key)] = e.ts
    BY <1>1, <1>2, <1>3 DEF CopiedThere
  <2>1. CASE <<t.id, e.key>> \in copied
    <3>1. t.first # None /\ e.key \in LiveKeys(t)
      BY <2>1, TableRecord DEF LInv, TInv, FlagsPlaced
    <3>2. Slot(t, e.key) \in Blocks
      BY <3>1, SlotsInside DEF LInv
    <3>3. Slot(t, e.key) # Slot(s, r.key)
      BY <2>1, SlotFree
    <3> QED
      BY <2>1, <3>2, <3>3 DEF LInv, Payloads, CopiedThere
  <2>2. CASE <<t.id, e.key>> = <<s.id, r.key>> /\ <<t.id, e.key>> \notin copied
    <3>1. t.id = s.id /\ e.key = r.key
      BY <2>2
    <3>2. t = s
      BY <3>1 DEF LInv, TInv, SegmentsOK
    <3>3. e = r
      BY <3>1, <3>2, TableRecord DEF LInv
    <3> QED
      BY <2>2, <3>2, <3>3
  <2> QED
    BY <2>1, <2>2
<1>6. RangesClear'
  BY <1>1, <1>2, <1>3 DEF LInv, Payloads, RangesClear
<1>7. BiosGoHome' /\ BiosApart' /\ BiosOffSlots' /\ Quiet'
  BY DEF BiosGoHome, BiosApart, BiosOffSlots, LInv, Payloads, Quiet
<1> QED
  BY <1>4, <1>5, <1>6, <1>7 DEF Payloads

LEMMA CopyPayloads ==
  ASSUME LInv, CopyEntry \/ CopyFails
  PROVE  LInv'
<1>1. /\ op = "copy" /\ ToCopy # {} /\ bios = {}
      /\ UNCHANGED <<index, last, tree, committed, bios, contested>>
  <2>1. op = "copy" /\ ToCopy # {} /\ UNCHANGED <<index, last, tree, committed, bios, contested>>
    BY DEF CopyEntry, CopyFails, host
  <2> QED
    BY <2>1 DEF LInv, Payloads, Quiet
<1>2. TInv'
  BY DiskTypesKept DEF LInv
<1>3. Answers'
  BY <1>1, SameAnswers DEF LInv
<1>4. PICK s \in segments : \E r \in s.table :
           /\ NextCopy = <<s.id, r.key>> /\ r.live /\ s.first # None
           /\ SlotOf(NextCopy) = Slot(s, r.key) /\ SlotOf(NextCopy) \in Blocks
           /\ SourceOf(NextCopy) = EntryPba(s, r)
           /\ NextCopy \notin copied \cup committed
  BY <1>1, NextEntry
<1>5. PICK r \in s.table :
           /\ NextCopy = <<s.id, r.key>> /\ r.live /\ s.first # None
           /\ SlotOf(NextCopy) = Slot(s, r.key) /\ SlotOf(NextCopy) \in Blocks
           /\ SourceOf(NextCopy) = EntryPba(s, r)
           /\ NextCopy \notin copied \cup committed
  BY <1>4
<1>6. CASE CopyEntry
  <2> DEFINE payload == media[EntryPba(s, r)]
  <2>1. media' = [media EXCEPT ![Slot(s, r.key)] = payload]
    BY <1>5, <1>6 DEF CopyEntry
  <2>2. Current(r) /\ Kept(r.key) => payload = r.ts
    <3>1. /\ Entry(s, r) = [key |-> r.key, ts |-> r.ts, live |-> r.live, pba |-> EntryPba(s, r)]
          /\ Entry(s, r) \in Entries(s)
      BY EntryFacts DEF LInv
    <3>2. Entry(s, r) \in Copies /\ Like(Entry(s, r), r) /\ Entry(s, r).pba = EntryPba(s, r)
      BY <3>1 DEF Copies, Like
    <3>3. ~ InFlight(r.key)
      BY <1>1 DEF InFlight
    <3>4. Current(r) => Current(Entry(s, r))
      BY <3>2, LikeNewest
    <3> QED
      BY <3>2, <3>3, <3>4 DEF LInv, Payloads, PayloadThere, Like
  <2> HIDE DEF payload
  <2>3. /\ media'[Slot(s, r.key)] = payload
        /\ \A p \in Blocks : p # Slot(s, r.key) => media'[p] = media[p]
    BY <1>5, <2>1 DEF LInv, TInv, DiskTypes
  <2>4. copied' = copied \cup {<<s.id, r.key>>} /\ op' = "copy"
    BY <1>1, <1>5, <1>6 DEF CopyEntry
  <2>5. Payloads'
    BY <1>1, <1>5, <2>2, <2>3, <2>4, SlotWritten
  <2> QED
    BY <1>2, <1>3, <2>5 DEF LInv
<1>7. CASE CopyFails
  <2>1. \A p \in Blocks : p # Slot(s, r.key) => media'[p] = media[p]
    BY <1>5, <1>7 DEF CopyFails, LInv, TInv, DiskTypes
  <2>2. copied' = copied /\ op' = "idle"
    BY <1>7 DEF CopyFails
  <2>3. Payloads'
    BY <1>1, <1>5, <2>1, <2>2, SlotWritten
  <2> QED
    BY <1>2, <1>3, <2>3 DEF LInv
<1> QED
  BY <1>6, <1>7

\* The slot of a planned entry is a copy after the commit; the others stay.
LEMMA CommitCopies ==
  ASSUME TInv, UNCHANGED index, committed' = committed \cup Planned
  PROVE  /\ \A e \in Copies' : e \in Copies \/
              \E s \in segments : \E r \in s.table :
                /\ <<s.id, r.key>> \in Planned \ committed
                /\ Like(e, r) /\ e.pba = Slot(s, r.key)
         /\ \A s \in segments : \A r \in s.table : <<s.id, r.key>> \in Planned =>
              \E e \in Copies' : Like(e, r) /\ e.pba = Slot(s, r.key)
         /\ \A e \in Copies : e \in Copies' \/
              \E s \in segments : \E r \in s.table :
                <<s.id, r.key>> \in Planned \ committed /\ Like(e, r)
<1> DEFINE After(s, r) == [r EXCEPT !.pba = EntryPba(s, r)']
<1>1. segments' = segments /\ ListRecords' = ListRecords
  BY SameSets DEF index
<1>2. \A s \in segments : Entries(s)' = {After(s, r) : r \in s.table}
  BY DEF Entries
<1>3. ASSUME NEW s \in segments, NEW r \in s.table
      PROVE  /\ Like(After(s, r), r)
             /\ <<s.id, r.key>> \in Planned => After(s, r).pba = Slot(s, r.key)
             /\ <<s.id, r.key>> \notin Planned \ committed => After(s, r) = Entry(s, r)
  <2>1. r = [key |-> r.key, ts |-> r.ts, live |-> r.live, pba |-> r.pba]
    BY TableRecord DEF Records
  <2>2. After(s, r) = [key |-> r.key, ts |-> r.ts, live |-> r.live, pba |-> EntryPba(s, r)']
    BY <2>1
  <2>3. /\ <<s.id, r.key>> \in Planned => EntryPba(s, r)' = Slot(s, r.key)
        /\ <<s.id, r.key>> \notin Planned \ committed => EntryPba(s, r)' = EntryPba(s, r)
    BY DEF EntryPba, Slot, LiveKeys
  <2>4. Entry(s, r) = [key |-> r.key, ts |-> r.ts, live |-> r.live, pba |-> EntryPba(s, r)]
    BY EntryFacts
  <2> QED
    BY <2>2, <2>3, <2>4 DEF Like
<1> HIDE DEF After
<1>4. ASSUME NEW s \in segments, NEW r \in s.table
      PROVE  After(s, r) \in Copies' /\ Entry(s, r) \in Copies
  <2>1. Entry(s, r) \in Entries(s)
    BY EntryFacts
  <2>2. After(s, r) \in Entries(s)'
    BY <1>2
  <2> QED
    BY <1>1, <2>1, <2>2 DEF Copies
<1>5. ASSUME NEW e \in Copies'
      PROVE  e \in Copies \/ \E s \in segments : \E r \in s.table :
                /\ <<s.id, r.key>> \in Planned \ committed
                /\ Like(e, r) /\ e.pba = Slot(s, r.key)
  <2>1. CASE e \in ListRecords
    BY <2>1 DEF Copies
  <2>2. CASE \E s \in segments : e \in Entries(s)'
    <3>1. PICK s \in segments : e \in Entries(s)'
      BY <2>2
    <3>2. PICK r \in s.table : e = After(s, r)
      BY <1>2, <3>1
    <3>3. CASE <<s.id, r.key>> \in Planned \ committed
      BY <1>3, <3>2, <3>3
    <3>4. CASE <<s.id, r.key>> \notin Planned \ committed
      BY <1>3, <1>4, <3>2, <3>4
    <3> QED
      BY <3>3, <3>4
  <2> QED
    BY <1>1, <2>1, <2>2 DEF Copies
<1>6. ASSUME NEW s \in segments, NEW r \in s.table, <<s.id, r.key>> \in Planned
      PROVE  \E e \in Copies' : Like(e, r) /\ e.pba = Slot(s, r.key)
  BY <1>3, <1>4, <1>6
<1>7. ASSUME NEW e \in Copies
      PROVE  e \in Copies' \/ \E s \in segments : \E r \in s.table :
                <<s.id, r.key>> \in Planned \ committed /\ Like(e, r)
  <2>1. CASE e \in ListRecords
    BY <1>1, <2>1 DEF Copies
  <2>2. CASE \E s \in segments : e \in Entries(s)
    <3>1. PICK s \in segments : e \in Entries(s)
      BY <2>2
    <3>2. PICK r \in s.table : e = Entry(s, r) /\ e.key = r.key /\ e.ts = r.ts /\ e.live = r.live
      BY <3>1, EntryOf
    <3>3. CASE <<s.id, r.key>> \in Planned \ committed
      BY <3>2, <3>3 DEF Like
    <3>4. CASE <<s.id, r.key>> \notin Planned \ committed
      BY <1>3, <1>4, <3>2, <3>4
    <3> QED
      BY <3>3, <3>4
  <2> QED
    BY <2>1, <2>2 DEF Copies
<1> QED
  BY <1>5, <1>6, <1>7

\* A node of a commit is the newest record of its key, at its slot.
LEMMA CommittedNode ==
  ASSUME TInv, ListsNewest, NEW n \in CommittedNodes
  PROVE  \E s \in segments : \E r \in s.table :
           /\ <<s.id, r.key>> \in Planned \ committed /\ Like(n, r) /\ n.pba = Slot(s, r.key)
           /\ r \in Searchable /\ Final(n)
<1>1. PICK e \in Planned \ committed : ~ HasNewer(RecordOf(e)) /\ n = [RecordOf(e) EXCEPT !.pba = SlotOf(e)]
  BY DEF CommittedNodes
<1>2. PICK s \in segments : \E q \in s.table :
        e = <<s.id, q.key>> /\ RecordOf(e) = q /\ SlotOf(e) = Slot(s, q.key)
  BY <1>1, PlannedEntry
<1>3. PICK r \in s.table : e = <<s.id, r.key>> /\ RecordOf(e) = r /\ SlotOf(e) = Slot(s, r.key)
  BY <1>2
<1>4. r \in Searchable /\ r \in Records
  BY TableRecord
<1>5. n = [key |-> r.key, ts |-> r.ts, live |-> r.live, pba |-> Slot(s, r.key)]
  BY <1>1, <1>3, <1>4 DEF Records
<1>6. Like(n, r) /\ n.pba = Slot(s, r.key)
  BY <1>5 DEF Like
<1>7. NewestOf(r, Searchable)
  <2> SUFFICES ASSUME NEW q \in Searchable, q.key = r.key PROVE q.ts <= r.ts
    BY DEF NewestOf
  <2>1. ~ (q.ts > r.ts)
    BY <1>1, <1>3 DEF HasNewer
  <2>2. q.ts \in Nat /\ r.ts \in Nat
    BY <1>4, AnyRecord
  <2> QED
    BY <2>1, <2>2
<1>8. Final(n)
  BY <1>4, <1>6, <1>7, NewestFinal, LikeNewest
<1> QED
  BY <1>1, <1>3, <1>4, <1>6, <1>8

LEMMA CommitAnswers ==
  ASSUME TInv, Answers, UNCHANGED <<index, last>>, committed' = committed \cup Planned,
         tree' \in TreesWith(CommittedNodes)
  PROVE  Answers'
<1>1. /\ Searchable' = Searchable /\ ListRecords' = ListRecords
      /\ UnsortedRecords' = UnsortedRecords /\ Tables' = Tables
  BY SameSets DEF index
<1>2. \A e : Final(e)' <=> Final(e)
  BY DEF Final
<1>3. \A n \in tree' : n \in CommittedNodes \/ (n \in tree /\ n.key \notin KeysOf(CommittedNodes))
  <2>1. tree' \in SUBSET ({n \in tree : n.key \notin KeysOf(CommittedNodes)} \cup CommittedNodes)
    BY Zenon DEF TreesWith
  <2> QED
    BY <2>1
<1>4. ListsNewest'
  <2>1. \A n \in CommittedNodes : \E o \in Searchable : Like(n, o)
    <3> SUFFICES ASSUME NEW n \in CommittedNodes PROVE \E o \in Searchable : Like(n, o)
      OBVIOUS
    <3> QED
      BY CommittedNode DEF Answers
  <2>2. \A e \in Searchable' \cup tree' : \E o \in Searchable \cup tree : Like(e, o)
    BY <1>1, <1>3, <2>1 DEF Like
  <2> QED
    BY <1>1, <2>2, ListsStay DEF Answers
<1>5. Masking'
  BY <1>1 DEF Answers, Masking, NewestOf, Visible
<1>6. TreeNewest'
  <2> SUFFICES ASSUME NEW n \in tree'
               PROVE  /\ Final(n)
                      /\ n.live => \E q \in Copies' : q.key = n.key /\ q.ts = n.ts /\ q.pba = n.pba
    BY <1>2 DEF TreeNewest
  <2>1. CASE n \in CommittedNodes
    <3>1. PICK s \in segments : \E q \in s.table :
            /\ <<s.id, q.key>> \in Planned \ committed /\ Like(n, q) /\ n.pba = Slot(s, q.key)
            /\ Final(n)
      BY <2>1, CommittedNode DEF Answers
    <3>2. PICK r \in s.table :
            /\ <<s.id, r.key>> \in Planned /\ Like(n, r) /\ n.pba = Slot(s, r.key) /\ Final(n)
      BY <3>1
    <3>3. PICK e \in Copies' : Like(e, r) /\ e.pba = Slot(s, r.key)
      BY <3>2, CommitCopies
    <3> QED
      BY <3>2, <3>3 DEF Like
  <2>2. CASE n \in tree /\ n.key \notin KeysOf(CommittedNodes)
    <3>1. Final(n)
      BY <2>2 DEF Answers, TreeNewest
    <3>2. ASSUME n.live
          PROVE  \E q \in Copies' : q.key = n.key /\ q.ts = n.ts /\ q.pba = n.pba
      <4>1. PICK q \in Copies : q.key = n.key /\ q.ts = n.ts /\ q.pba = n.pba
        BY <2>2, <3>2 DEF Answers, TreeNewest
      <4>2. CASE q \in Copies'
        BY <4>1, <4>2
      <4>3. CASE q \notin Copies'
        <5>1. PICK s \in segments : \E r \in s.table :
                <<s.id, r.key>> \in Planned \ committed /\ Like(q, r)
          BY <4>3, CommitCopies
        <5>2. PICK r \in s.table : <<s.id, r.key>> \in Planned \ committed /\ Like(q, r)
          BY <5>1
        <5>3. NewestOf(n, Searchable \cup tree)
          BY <2>2, <3>1, <3>2, NewestFinal DEF Answers, Current, Final
        <5>4. r.key = n.key /\ r.ts = n.ts /\ r.ts \in Nat
          BY <4>1, <5>2, TableRecord DEF Like
        <5>5. ~ HasNewer(r)
          <6> SUFFICES ASSUME NEW p \in Searchable, p.key = r.key, p.ts > r.ts PROVE FALSE
            BY DEF HasNewer
          <6>1. p.ts <= r.ts /\ p.ts \in Nat
            BY <5>3, <5>4, AnyRecord DEF NewestOf
          <6> QED
            BY <5>4, <6>1
        <5> DEFINE e == <<s.id, r.key>>
        <5>6. RecordOf(e) = r
          <6>1. PICK t \in segments : \E o \in t.table : e = <<t.id, o.key>> /\ RecordOf(e) = o
            BY <5>2, PlannedEntry
          <6>2. PICK o \in t.table : e = <<t.id, o.key>> /\ RecordOf(e) = o
            BY <6>1
          <6>3. t.id = s.id /\ o.key = r.key
            BY <6>2
          <6>4. t = s
            BY <6>3 DEF TInv, SegmentsOK
          <6> QED
            BY <6>2, <6>3, <6>4, TableRecord
        <5> HIDE DEF e
        <5>7. [r EXCEPT !.pba = SlotOf(e)] \in CommittedNodes
          BY <5>2, <5>5, <5>6 DEF CommittedNodes, e
        <5>8. [r EXCEPT !.pba = SlotOf(e)].key = r.key
          <6>1. r = [key |-> r.key, ts |-> r.ts, live |-> r.live, pba |-> r.pba]
            BY TableRecord DEF Records
          <6> QED
            BY <6>1
        <5>9. r.key \in KeysOf(CommittedNodes)
          BY <5>7, <5>8 DEF KeysOf
        <5> QED
          BY <2>2, <5>4, <5>9
      <4> QED
        BY <4>2, <4>3
    <3> QED
      BY <3>1, <3>2
  <2> QED
    BY <1>3, <2>1, <2>2
<1> QED
  BY <1>4, <1>5, <1>6 DEF Answers

LEMMA CommitPayloads ==
  ASSUME LInv, CommitMetadata
  PROVE  LInv'
<1>1. /\ committed' = committed \cup Planned /\ tree' \in TreesWith(CommittedNodes) /\ op' = "idle"
      /\ UNCHANGED <<index, last, copied, media, bios, contested>>
      /\ bios = {} /\ Planned \ committed \subseteq copied
  <2>1. /\ committed' = committed \cup Planned /\ tree' \in TreesWith(CommittedNodes) /\ op' = "idle"
        /\ UNCHANGED <<index, last, copied, media, bios, contested>>
        /\ op # "idle" /\ (op = "copy" => ToCopy = {})
    BY DEF CommitMetadata, host, disk
  <2> QED
    BY <2>1 DEF LInv, Payloads, Quiet, ToCopy
<1>2. TInv /\ TInv'
  BY CommitTypes DEF LInv
<1>3. Answers'
  BY <1>1, <1>2, CommitAnswers DEF LInv
<1>4. UNCHANGED segments
  BY <1>1 DEF index
<1>5. \A e \in Copies' : e \in Copies \/
              \E s \in segments : \E r \in s.table :
                /\ <<s.id, r.key>> \in Planned \ committed
                /\ Like(e, r) /\ e.pba = Slot(s, r.key)
  BY <1>1, <1>2, CommitCopies
<1>6. \A e : Current(e)' <=> Current(e)
  BY <1>1 DEF Current
<1>7. \A j : (Kept(j)' <=> Kept(j)) /\ (InFlight(j)' <=> InFlight(j))
  BY <1>1 DEF Kept, InFlight
<1>8. PayloadThere'
  <2> SUFFICES ASSUME NEW e \in Copies', Current(e), ~ InFlight(e.key), Kept(e.key)
               PROVE  media[e.pba] = e.ts
    BY <1>1, <1>6, <1>7 DEF PayloadThere
  <2>1. CASE e \in Copies
    BY <2>1 DEF LInv, Payloads, PayloadThere
  <2>2. CASE e \notin Copies
    <3>1. PICK s \in segments : \E q \in s.table :
            <<s.id, q.key>> \in Planned \ committed /\ Like(e, q) /\ e.pba = Slot(s, q.key)
      BY <1>5, <2>2
    <3>2. PICK r \in s.table :
            <<s.id, r.key>> \in Planned \ committed /\ Like(e, r) /\ e.pba = Slot(s, r.key)
      BY <3>1
    <3>3. <<s.id, r.key>> \in copied /\ Current(r)
      BY <1>1, <3>2, LikeNewest
    <3> QED
      BY <3>2, <3>3 DEF LInv, Payloads, CopiedThere, Like
  <2> QED
    BY <2>1, <2>2
<1>9. CopiedThere'
  BY <1>1, <1>4, <1>6, <1>7 DEF LInv, Payloads, CopiedThere
<1>10. RangesClear'
  <2> SUFFICES ASSUME NEW s \in segments, NEW e \in Copies', Current(e), Kept(e.key),
                      e.pba \in OutputRange(s)
               PROVE  <<s.id, e.key>> \in committed' /\ e.pba = Slot(s, e.key)
    BY <1>4, <1>6, <1>7 DEF RangesClear
  <2>1. CASE e \in Copies
    BY <1>1, <2>1 DEF LInv, Payloads, RangesClear
  <2>2. CASE e \notin Copies
    <3>1. PICK t \in segments : \E q \in t.table :
            <<t.id, q.key>> \in Planned \ committed /\ Like(e, q) /\ e.pba = Slot(t, q.key)
      BY <1>5, <2>2
    <3>2. PICK r \in t.table :
            <<t.id, r.key>> \in Planned \ committed /\ Like(e, r) /\ e.pba = Slot(t, r.key)
      BY <3>1
    <3>3. t.first # None /\ r.key \in LiveKeys(t)
      BY <1>2, <3>2, PlannedPlaced, TableRecord
    <3>4. e.pba \in OutputRange(t)
      BY <1>2, <3>2, <3>3, SlotsInside
    <3>5. t = s
      BY <1>2, <3>4 DEF TInv, OInv, RangesApart
    <3> QED
      BY <1>1, <3>2, <3>5 DEF Like
  <2> QED
    BY <2>1, <2>2
<1>11. BiosGoHome' /\ BiosApart' /\ BiosOffSlots' /\ Quiet'
  BY <1>1 DEF BiosGoHome, BiosApart, BiosOffSlots, Quiet
<1> QED
  BY <1>2, <1>3, <1>8, <1>9, <1>10, <1>11 DEF LInv, Payloads

-----------------------------------------------------------------------------
(* Compactions and rewrites.                                               *)

LEMMA SegmentAnswers ==
  ASSUME TInv, Answers, UNCHANGED <<last, tree>>,
         \A e \in Searchable' : \E o \in Searchable : Like(e, o),
         \A p \in ListRecords : NewestOf(p, ListRecords) => p \in ListRecords',
         \A q \in Visible :
           NewestOf(q, Searchable) /\ (\E o \in Searchable : o.key = q.key /\ o.live) =>
             \E v \in Visible' : Like(v, q),
         \A c \in Copies : Current(c) => c \in Copies'
  PROVE  Answers'
<1>1. ListsNewest'
  <2>1. \A p : NewestOf(p, Searchable \cup tree) => NewestOf(p, ListRecords)
    BY ListsSearched DEF NewestOf
  <2>2. \A e \in Searchable' \cup tree' : \E o \in Searchable \cup tree : Like(e, o)
    BY DEF Like
  <2> QED
    BY <2>1, <2>2, ListsStay DEF Answers
<1>2. Masking'
  <2> SUFFICES ASSUME NEW e \in Searchable', e.live
               PROVE  \E v \in Visible' : v.key = e.key /\ NewestOf(v, Searchable')
    BY DEF Masking, NewestOf
  <2>1. PICK o \in Searchable : Like(e, o)
    OBVIOUS
  <2>2. o.live /\ o.key = e.key
    BY <2>1 DEF Like
  <2>3. PICK q \in Visible : q.key = o.key /\ NewestOf(q, Searchable)
    BY <2>2 DEF Answers, Masking
  <2>4. PICK v \in Visible' : Like(v, q)
    BY <2>2, <2>3
  <2>5. NewestOf(v, Searchable')
    BY <2>3, <2>4 DEF NewestOf, Like
  <2> QED
    BY <2>2, <2>3, <2>4, <2>5 DEF Like
<1>3. TreeNewest'
  <2> SUFFICES ASSUME NEW n \in tree
               PROVE  /\ Final(n)
                      /\ n.live => \E q \in Copies' : q.key = n.key /\ q.ts = n.ts /\ q.pba = n.pba
    BY DEF TreeNewest, Final
  <2>1. Final(n)
    BY DEF Answers, TreeNewest
  <2>2. ASSUME n.live
        PROVE  \E q \in Copies' : q.key = n.key /\ q.ts = n.ts /\ q.pba = n.pba
    <3>1. PICK q \in Copies : q.key = n.key /\ q.ts = n.ts /\ q.pba = n.pba /\ Current(q)
      BY <2>2, TreeCopy DEF Answers
    <3> QED
      BY <3>1
  <2> QED
    BY <2>1, <2>2
<1> QED
  BY <1>1, <1>2, <1>3 DEF Answers

\* No copy is added, and a new segment is given no block in use but contested ones.
LEMMA SegmentPayloads ==
  ASSUME LInv, Copies' \subseteq Copies, UNCHANGED <<last, media, bios>>,
         NEW t, segments' \subseteq segments \cup {t},
         t \in segments' =>
           /\ \A k : <<t.id, k>> \notin copied' \cup committed'
           /\ {r.ts : r \in InUse(OutputRange(t))} \subseteq contested',
         copied' \subseteq copied, committed' \subseteq committed,
         \A u \in segments' \ {t} : \A k : <<u.id, k>> \in committed => <<u.id, k>> \in committed',
         contested \subseteq contested', Quiet'
  PROVE  Payloads'
<1>1. \A e : Current(e)' <=> Current(e)
  BY DEF Current
<1>2. \A j : (Kept(j)' => Kept(j)) /\ (InFlight(j)' <=> InFlight(j))
  BY DEF Kept, InFlight
<1>3. PayloadThere'
  BY <1>1, <1>2 DEF LInv, Payloads, PayloadThere
<1>4. CopiedThere'
  <2> SUFFICES ASSUME NEW s \in segments', NEW r \in s.table, <<s.id, r.key>> \in copied',
                      Current(r), Kept(r.key)'
               PROVE  media[Slot(s, r.key)] = r.ts
    BY <1>1 DEF CopiedThere
  <2>1. s \in segments /\ <<s.id, r.key>> \in copied
    OBVIOUS
  <2> QED
    BY <1>2, <2>1 DEF LInv, Payloads, CopiedThere
<1>5. RangesClear'
  <2> SUFFICES ASSUME NEW s \in segments', NEW r \in Copies, Current(r), Kept(r.key)',
                      r.pba \in OutputRange(s)
               PROVE  <<s.id, r.key>> \in committed' /\ r.pba = Slot(s, r.key)
    BY <1>1 DEF RangesClear
  <2>1. CASE s = t
    <3>1. r \in InUse(OutputRange(t))
      BY <2>1, UsedBlock
    <3>2. r.ts \in contested' /\ r.ts = last'[r.key]
      BY <2>1, <3>1 DEF Current
    <3> QED
      BY <3>2 DEF Kept
  <2>2. CASE s # t
    BY <1>2, <2>2 DEF LInv, Payloads, RangesClear
  <2> QED
    BY <2>1, <2>2
<1>6. BiosGoHome' /\ BiosApart'
  BY <1>1, <1>2 DEF LInv, Payloads, BiosGoHome, BiosApart
<1>7. BiosOffSlots'
  <2> SUFFICES ASSUME NEW b \in bios, NEW s \in segments', NEW r \in s.table, b.pba \in OutputRange(s),
                      <<s.id, r.key>> \in copied' \cup committed', Current(r)
               PROVE  ~ Kept(r.key)'
    BY <1>1 DEF BiosOffSlots
  <2>1. s \in segments /\ <<s.id, r.key>> \in copied \cup committed
    OBVIOUS
  <2> QED
    BY <1>2, <2>1 DEF LInv, Payloads, BiosOffSlots
<1> QED
  BY <1>3, <1>4, <1>5, <1>6, <1>7 DEF Payloads

\* The entries of a new segment are its records, those of the others stay.
LEMMA FreshEntries ==
  ASSUME TInv, committed' \subseteq committed, copied' \subseteq copied, NEW t, t.id = nextId,
         \A r \in t.table : IsRecord(r)
  PROVE  /\ Entries(t)' = t.table
         /\ \A k : <<t.id, k>> \notin copied' \cup committed'
<1>1. nextId \notin 0..(nextId - 1)
  BY Limits DEF TInv, OutputTypes
<1>2. \A k : <<t.id, k>> \notin copied' \cup committed'
  BY <1>1 DEF TInv, OutputTypes
<1>3. Entries(t)' = {[r EXCEPT !.pba = EntryPba(t, r)'] : r \in t.table}
  BY DEF Entries
<1>4. \A r \in t.table : [r EXCEPT !.pba = EntryPba(t, r)'] = r
  <2> SUFFICES ASSUME NEW r \in t.table PROVE [r EXCEPT !.pba = EntryPba(t, r)'] = r
    OBVIOUS
  <2>1. EntryPba(t, r)' = r.pba
    BY <1>2 DEF EntryPba
  <2>2. r = [key |-> r.key, ts |-> r.ts, live |-> r.live, pba |-> r.pba]
    BY DEF IsRecord
  <2> QED
    BY <2>1, <2>2
<1> QED
  BY <1>2, <1>3, <1>4

LEMMA OldEntries ==
  ASSUME committed' \subseteq committed, NEW u,
         \A k : <<u.id, k>> \in committed => <<u.id, k>> \in committed'
  PROVE  Entries(u)' = Entries(u)
<1>1. \A r : EntryPba(u, r)' = EntryPba(u, r)
  BY DEF EntryPba, Slot, LiveKeys
<1> QED
  BY <1>1 DEF Entries

LEMMA CompactPayloads ==
  ASSUME LInv, NEW src \in Levels, NEW dst \in Levels, Compact(src, dst)
  PROVE  LInv'
<1>1. PICK table :
    /\ table # {} /\ table \subseteq ListRecords /\ Held(table, timestamp)
    /\ Append(Segment(BuilderZone(table), table))
    /\ segments' = segments \cup {Segment(BuilderZone(table), table)}
    /\ ListRecords' \subseteq ListRecords
    /\ \A p \in ListRecords :
         (\A q \in ListRecords : q.key = p.key => q.ts <= p.ts) =>
           p \in ListRecords' /\ (p \in UnsortedRecords => p \in UnsortedRecords' \cup table)
  BY CompactedSets DEF LInv
<1>2. PICK t :
        /\ t.table = table /\ t.id = nextId /\ segments' = segments \cup {t}
        /\ contested' = contested \cup {r.ts : r \in InUse(OutputRange(t))}
  BY <1>1 DEF Segment, Append
<1>3. TInv /\ TInv'
  BY CompactTypes DEF LInv
<1>4. UNCHANGED <<copied, committed, op, media, bios, last, tree>>
  BY DEF Compact, output, disk, host
<1>5. /\ Entries(t)' = table
      /\ \A k : <<t.id, k>> \notin copied' \cup committed'
  <2>1. \A r \in t.table : IsRecord(r)
    BY <1>1, <1>2 DEF Held
  <2> QED
    BY <1>2, <1>3, <1>4, <2>1, FreshEntries
<1>6. \A u \in segments : Entries(u)' = Entries(u)
  BY <1>4, OldEntries
<1>7. Copies' \subseteq Copies
  <2>1. Copies' = ListRecords' \cup UNION {Entries(u)' : u \in segments'}
    BY DEF Copies
  <2>2. \A u \in segments' : Entries(u)' \subseteq Copies
    BY <1>1, <1>2, <1>5, <1>6 DEF Copies
  <2>3. ListRecords' \subseteq Copies
    BY <1>1 DEF Copies
  <2> QED
    BY <2>1, <2>2, <2>3
<1>8. Tables' = Tables \cup table
  BY <1>2 DEF Tables
<1>9. \A p \in ListRecords : NewestOf(p, ListRecords) =>
        p \in ListRecords' /\ (p \in UnsortedRecords => p \in UnsortedRecords' \cup table)
  BY <1>1 DEF NewestOf
<1>10. \A e \in Searchable' : \E o \in Searchable : Like(e, o)
  <2>1. Searchable' = ListRecords' \cup Tables'
    BY DEF Searchable, ListRecords, Tables
  <2>2. Searchable' \subseteq Searchable
    BY <1>1, <1>8, <2>1, Everywhere
  <2> QED
    BY <2>2 DEF Like
<1>11. \A q \in Visible : NewestOf(q, Searchable) => \E v \in Visible' : Like(v, q)
  <2> SUFFICES ASSUME NEW q \in Visible, NewestOf(q, Searchable) PROVE q \in Visible'
    BY DEF Like
  <2>1. NewestOf(q, ListRecords)
    BY ListsSearched DEF NewestOf
  <2>2. q \in UnsortedRecords => q \in ListRecords
    BY DEF ListRecords
  <2> QED
    BY <1>8, <1>9, <2>1, <2>2 DEF Visible
<1>12. \A c \in Copies : Current(c) => c \in Copies'
  <2> SUFFICES ASSUME NEW c \in Copies, Current(c) PROVE c \in Copies'
    OBVIOUS
  <2>1. CASE c \in ListRecords
    <3>1. c \in Searchable
      BY <2>1, ListsSearched
    <3>2. NewestOf(c, Searchable \cup tree)
      BY <1>3, <3>1, NewestFinal DEF LInv, Answers
    <3>3. NewestOf(c, ListRecords)
      BY <3>2, ListsSearched DEF NewestOf
    <3> QED
      BY <1>9, <2>1, <3>3 DEF Copies
  <2>2. CASE \E u \in segments : c \in Entries(u)
    BY <1>2, <1>6, <2>2 DEF Copies
  <2> QED
    BY <2>1, <2>2 DEF Copies
<1>13. Answers'
  BY <1>3, <1>4, <1>9, <1>10, <1>11, <1>12, SegmentAnswers DEF LInv
<1>14. Payloads'
  <2>1. Quiet'
    BY <1>4 DEF LInv, Payloads, Quiet
  <2> QED
    BY <1>2, <1>4, <1>5, <1>7, <2>1, SegmentPayloads
<1> QED
  BY <1>3, <1>13, <1>14 DEF LInv

\* A rewrite keeps the entries that tell what their keys have, and what they mask.
LEMMA RewriteKeeps ==
  ASSUME TInv, ListsNewest, NEW s \in segments
  PROVE  /\ \A e \in RewrittenTable(s) : e \in Copies /\ \E o \in Searchable : Like(e, o)
         /\ \A e \in Entries(s) : Current(e) => e \in RewrittenTable(s)
         /\ \A q \in s.table :
              NewestOf(q, Searchable) /\ (\E o \in Searchable : o.key = q.key /\ o.live) =>
                \E e \in RewrittenTable(s) : Like(e, q)
<1>1. ASSUME NEW e \in RewrittenTable(s)
      PROVE  e \in Copies /\ \E o \in Searchable : Like(e, o)
  <2>1. e \in Copies
    BY DEF RewrittenTable, Copies
  <2> QED
    BY <2>1, CopyLike
<1>2. ASSUME NEW e \in Entries(s), NEW q \in s.table, Like(e, q), NewestOf(q, Searchable)
      PROVE  ~ HasNewer(e)
  <2> SUFFICES ASSUME NEW p \in Searchable, p.key = e.key, p.ts > e.ts PROVE FALSE
    BY DEF HasNewer
  <2>1. p.ts <= q.ts /\ q.ts = e.ts
    BY <1>2 DEF NewestOf, Like
  <2>2. p.ts \in Nat /\ q.ts \in Nat
    BY AnyRecord, TableRecord
  <2> QED
    BY <2>1, <2>2
<1>3. ASSUME NEW e \in Entries(s), Current(e) PROVE e \in RewrittenTable(s)
  <2>1. PICK q \in s.table : e.key = q.key /\ e.ts = q.ts /\ e.live = q.live
    BY EntryOf
  <2>2. Like(e, q) /\ q \in Searchable
    BY <2>1, TableRecord DEF Like
  <2>3. NewestOf(q, Searchable)
    <3>1. NewestOf(q, Searchable \cup tree)
      BY <1>3, <2>2, NewestFinal, LikeNewest
    <3> QED
      BY <3>1 DEF NewestOf
  <2>4. ~ HasNewer(e) /\ e.live
    BY <1>2, <1>3, <2>2, <2>3 DEF Current
  <2> QED
    BY <2>4 DEF RewrittenTable, ShouldKeep
<1>4. ASSUME NEW q \in s.table, NewestOf(q, Searchable), NEW o \in Searchable, o.key = q.key, o.live
      PROVE  \E e \in RewrittenTable(s) : Like(e, q)
  <2> DEFINE e == Entry(s, q)
  <2>1. e \in Entries(s) /\ Like(e, q)
    <3>1. /\ Entry(s, q) = [key |-> q.key, ts |-> q.ts, live |-> q.live, pba |-> EntryPba(s, q)]
          /\ Entry(s, q) \in Entries(s)
      BY EntryFacts
    <3> QED
      BY <3>1 DEF Like
  <2> HIDE DEF e
  <2>2. ~ HasNewer(e)
    BY <1>2, <1>4, <2>1
  <2>3. e.live \/ HasOlderLive(e)
    <3>1. CASE q.live
      BY <2>1, <3>1 DEF Like
    <3>2. CASE ~ q.live
      <4>1. q \in Searchable /\ q.ts \in Nat /\ o.ts \in Nat
        BY TableRecord, AnyRecord
      <4>2. o.ts # q.ts
        BY <1>4, <3>2, <4>1 DEF TInv, Stamps
      <4>3. o.ts <= q.ts
        BY <1>4 DEF NewestOf
      <4>4. o.ts < q.ts
        BY <4>1, <4>2, <4>3
      <4> QED
        BY <1>4, <2>1, <4>4 DEF HasOlderLive, Like
    <3> QED
      BY <3>1, <3>2
  <2> QED
    BY <2>1, <2>2, <2>3 DEF RewrittenTable, ShouldKeep
<1> QED
  BY <1>1, <1>3, <1>4

LEMMA RewritePayloads ==
  ASSUME CommitsCopy, LInv, NEW s \in segments, Rewrite(s)
  PROVE  LInv'
<1>1. PICK table : table = RewrittenTable(s)
  OBVIOUS
<1>2. PICK t :
        \/ /\ table = {} /\ t = s /\ segments' = segments \ {s}
           /\ UNCHANGED <<op, contested>>
        \/ /\ table # {} /\ t.table = table /\ t.id = nextId
           /\ segments' = (segments \ {s}) \cup {t} /\ op' = "copy"
           /\ contested' = contested \cup {r.ts : r \in InUse(OutputRange(t))}
  <2>1. \/ table = {} /\ segments' = segments \ {s} /\ UNCHANGED <<nextId, op, contested>>
        \/ /\ table # {} /\ op' = "copy" /\ Append(Segment(s.zone, table))
           /\ segments' = (segments \ {s}) \cup {Segment(s.zone, table)}
    BY <1>1 DEF Rewrite
  <2>2. CASE table = {}
    BY <2>1, <2>2
  <2>3. CASE table # {}
    BY <2>1, <2>3 DEF Segment, Append
  <2> QED
    BY <2>2, <2>3
<1>3. TInv /\ TInv' /\ Answers
  BY RewriteTypes DEF LInv
<1>4. /\ UNCHANGED <<media, bios, last, tree>> /\ bios = {} /\ op = "idle"
      /\ ListRecords' = ListRecords /\ UnsortedRecords' = UnsortedRecords
      /\ copied' = {e \in copied : e[1] # s.id} /\ committed' = {e \in committed : e[1] # s.id}
      /\ Searchable' = ListRecords \cup Tables'
      /\ Held(table, timestamp)
  <2>1. op = "idle" /\ bios = {}
    BY DEF Rewrite, CommitsCopy
  <2>2. UNCHANGED <<media, bios, last, tree>>
    BY DEF Rewrite, disk, host
  <2> QED
    BY <1>1, <1>3, <2>1, <2>2, RewrittenSets
<1>5. \A u \in segments \ {s} : \A k : <<u.id, k>> \in committed => <<u.id, k>> \in committed'
  BY <1>3, <1>4 DEF TInv, SegmentsOK
<1>6. \A u \in segments \ {s} : Entries(u)' = Entries(u)
  BY <1>4, <1>5, OldEntries
<1>7. table # {} => /\ Entries(t)' = table
                    /\ \A k : <<t.id, k>> \notin copied' \cup committed'
  <2> SUFFICES ASSUME table # {}
               PROVE  /\ Entries(t)' = table
                      /\ \A k : <<t.id, k>> \notin copied' \cup committed'
    OBVIOUS
  <2>1. t.id = nextId /\ t.table = table
    BY <1>2
  <2>2. \A r \in t.table : IsRecord(r)
    BY <1>4, <2>1 DEF Held
  <2>3. committed' \subseteq committed /\ copied' \subseteq copied
    BY <1>4
  <2> QED
    BY <1>3, <2>1, <2>2, <2>3, FreshEntries
<1>8. /\ \A e \in table : e \in Copies /\ \E o \in Searchable : Like(e, o)
      /\ \A e \in Entries(s) : Current(e) => e \in table
      /\ \A q \in s.table :
           NewestOf(q, Searchable) /\ (\E o \in Searchable : o.key = q.key /\ o.live) =>
             \E e \in table : Like(e, q)
  BY <1>1, <1>3, RewriteKeeps DEF Answers
<1>9. /\ \A u \in segments' : u \in segments \ {s} \/ (u = t /\ table # {})
      /\ segments \ {s} \subseteq segments' /\ (table # {} => t \in segments' /\ t.table = table)
      /\ t \notin segments \ {s}
  <2>1. \A u \in segments : u.id # nextId
    <3>1. nextId \notin 0..(nextId - 1)
      BY <1>3, Limits DEF TInv, OutputTypes
    <3> QED
      BY <1>3, <3>1 DEF TInv, SegmentsOK
  <2> QED
    BY <1>2, <2>1
<1>10. Copies' \subseteq Copies
  <2>1. \A u \in segments' : Entries(u)' \subseteq Copies
    <3> SUFFICES ASSUME NEW u \in segments' PROVE Entries(u)' \subseteq Copies
      OBVIOUS
    <3>1. CASE u \in segments \ {s}
      BY <1>6, <3>1 DEF Copies
    <3>2. CASE u = t /\ table # {}
      BY <1>7, <1>8, <3>2
    <3> QED
      BY <1>9, <3>1, <3>2
  <2>2. ListRecords' \subseteq Copies
    BY <1>4 DEF Copies
  <2> QED
    BY <2>1, <2>2 DEF Copies
<1>11. \A e \in Searchable' : \E o \in Searchable : Like(e, o)
  <2> SUFFICES ASSUME NEW e \in Searchable' PROVE \E o \in Searchable : Like(e, o)
    OBVIOUS
  <2>1. CASE e \in ListRecords
    BY <2>1, ListsSearched DEF Like
  <2>2. CASE e \in Tables'
    <3>1. PICK u \in segments' : e \in u.table
      BY <2>2 DEF Tables
    <3>2. CASE u \in segments \ {s}
      BY <3>1, <3>2, ListsSearched DEF Like
    <3>3. CASE u = t /\ table # {}
      BY <1>8, <1>9, <3>1, <3>3
    <3> QED
      BY <1>9, <3>2, <3>3
  <2> QED
    BY <1>4, <2>1, <2>2
<1>12. ASSUME NEW q \in Visible, NewestOf(q, Searchable), \E o \in Searchable : o.key = q.key /\ o.live
       PROVE  \E v \in Visible' : Like(v, q)
  <2>1. \A u \in segments' : u.table \subseteq Visible'
    BY DEF Visible, Tables
  <2>2. CASE q \in UnsortedRecords
    BY <1>4, <2>2 DEF Visible, Like
  <2>3. CASE \E u \in segments \ {s} : q \in u.table
    BY <1>9, <2>1, <2>3 DEF Like
  <2>4. CASE q \in s.table
    <3>1. PICK e \in table : Like(e, q)
      BY <1>8, <1>12, <2>4
    <3> QED
      BY <1>9, <2>1, <3>1
  <2> QED
    BY <2>2, <2>3, <2>4 DEF Visible, Tables
<1>13. ASSUME NEW c \in Copies, Current(c) PROVE c \in Copies'
  <2>1. \A u \in segments' : Entries(u)' \subseteq Copies'
    BY DEF Copies
  <2>2. CASE c \in ListRecords
    BY <1>4, <2>2 DEF Copies
  <2>3. CASE \E u \in segments \ {s} : c \in Entries(u)
    BY <1>6, <1>9, <2>1, <2>3
  <2>4. CASE c \in Entries(s)
    BY <1>7, <1>8, <1>9, <1>13, <2>1, <2>4
  <2> QED
    BY <2>2, <2>3, <2>4 DEF Copies
<1>14. Answers'
  BY <1>3, <1>4, <1>11, <1>12, <1>13, SegmentAnswers
<1>15. Payloads'
  <2>1. Quiet' /\ contested \subseteq contested'
    BY <1>2, <1>4 DEF Quiet
  <2>2. t \in segments' =>
           /\ \A k : <<t.id, k>> \notin copied' \cup committed'
           /\ {r.ts : r \in InUse(OutputRange(t))} \subseteq contested'
    BY <1>2, <1>7, <1>9
  <2>3. segments' \subseteq segments \cup {t} /\ copied' \subseteq copied /\ committed' \subseteq committed
    BY <1>4, <1>9
  <2>4. \A u \in segments' \ {t} : \A k : <<u.id, k>> \in committed => <<u.id, k>> \in committed'
    BY <1>5, <1>9
  <2> QED
    BY <1>4, <1>10, <2>1, <2>2, <2>3, <2>4, SegmentPayloads
<1> QED
  BY <1>3, <1>14, <1>15 DEF LInv

-----------------------------------------------------------------------------
(* What follows.                                                           *)

LEMMA StepPayloads ==
  ASSUME ZonesHold, CommitsCopy, LInv, [Next]_vars
  PROVE  LInv'
<1>1. CASE \E k \in HostKeys, l \in Levels : HostWrite(k, l) \/ HostDelete(k, l)
  BY <1>1, WritePayloads, DeletePayloads
<1>2. CASE \E k \in HostKeys : Read(k)
  BY <1>2, ReadPayloads
<1>3. CASE \E b \in bios : BioLands(b)
  BY <1>3, LandPayloads
<1>4. CASE \E src, dst \in Levels : Compact(src, dst)
  BY <1>4, CompactPayloads
<1>5. CASE \E mode \in Modes : CommitOutput(mode)
  BY <1>5, BeginPayloads
<1>6. CASE CopyEntry \/ CopyFails
  BY <1>6, CopyPayloads
<1>7. CASE CommitMetadata
  BY <1>7, CommitPayloads
<1>8. CASE \E s \in segments : Rewrite(s)
  BY <1>8, RewritePayloads
<1>9. CASE UNCHANGED vars
  <2>1. UNCHANGED <<index, host, tree, copied, committed, media, bios, contested, op, failures>>
    BY <1>9 DEF vars, output, disk
  <2>2. TInv'
    BY <2>1, TypesUntouched DEF LInv, TInv, DiskTypes, OutputTypes
  <2>3. UNCHANGED <<index, last, committed, tree, copied, media, bios, contested, op>>
    BY <2>1 DEF host
  <2>4. Answers'
    BY <2>3, SameAnswers DEF LInv
  <2>5. op \in {"idle", "copy"} /\ (op = "copy" => bios = {})
    BY DEF LInv, Payloads, Quiet
  <2>6. Payloads'
    BY <2>3, <2>5, SamePayloads DEF LInv
  <2> QED
    BY <2>2, <2>4, <2>6 DEF LInv
<1> QED
  BY <1>1, <1>2, <1>3, <1>4, <1>5, <1>6, <1>7, <1>8, <1>9 DEF Next

\* While allocations stay within a zone and every commit copies and finds the host
\* quiet, reads answer for every key as if there were no index: nothing is lost, but a
\* payload whose block was given to another too, and nothing deleted comes back,
\* whatever is compacted, committed, torn, retried and rewritten in whatever order.
THEOREM NothingElseLost == ZonesHold /\ CommitsCopy => (Spec => []LostOnlyToOutputs)
<1> SUFFICES ASSUME ZonesHold, CommitsCopy PROVE Spec => []LostOnlyToOutputs
  OBVIOUS
<1>1. LInv /\ [Next]_vars => LInv'
  BY StepPayloads
<1> QED
  BY <1>1, PayloadsInit, PayloadsFollow, PTL DEF Spec
===============================================================================
