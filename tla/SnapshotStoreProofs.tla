------------------------ MODULE SnapshotStoreProofs ------------------------
(***************************************************************************)
(* Proofs about SnapshotStore, for any sessions, messages and batches and  *)
(* snapshots of any length.                                                *)
(***************************************************************************)
EXTENDS SnapshotStore, NatFacts, FiniteSetTheorems, SequenceTheorems, TLAPS

-----------------------------------------------------------------------------
(* Counting positions *)

LEMMA PositionsFinite ==
  ASSUME NEW items, NEW p, NEW from \in Int, NEW to \in Int
  PROVE  /\ IsFiniteSet(Positions(items, p, from, to))
         /\ Cardinality(Positions(items, p, from, to)) \in Nat
<1>1. Positions(items, p, from, to) \in SUBSET (from..to)
  BY DEF Positions
<1>2. IsFiniteSet(from..to)
  BY FS_Interval
<1>3. IsFiniteSet(Positions(items, p, from, to))
  BY <1>1, <1>2, FS_Subset
<1> QED
  BY <1>3, FS_CardinalityType

\* A position that carries p is counted by every longer range and by no shorter one.
LEMMA PositionsGrow ==
  ASSUME NEW items, NEW p, NEW from \in Int, NEW i \in Int, NEW to \in Int,
         from <= i, i <= to, items[i] = p
  PROVE  Cardinality(Positions(items, p, from, i - 1)) < Cardinality(Positions(items, p, from, to))
<1> DEFINE Before == Positions(items, p, from, i - 1)
           All == Positions(items, p, from, to)
<1>1. IsFiniteSet(Before) /\ Cardinality(Before) \in Nat
  BY PositionsFinite
<1>2. IsFiniteSet(All) /\ Cardinality(All) \in Nat
  BY PositionsFinite
<1>3. i \notin Before /\ Before \union {i} \in SUBSET All
  BY DEF Positions
<1> HIDE DEF Before, All
<1>4. Cardinality(Before \union {i}) = Cardinality(Before) + 1
  BY <1>1, <1>3, FS_AddElement
<1>5. Cardinality(Before \union {i}) <= Cardinality(All)
  BY <1>2, <1>3, FS_Subset
<1> QED
  BY <1>1, <1>2, <1>4, <1>5 DEF Before, All

\* The ranks of the positions that carry p are all the numbers below their count.
LEMMA RanksDense ==
  ASSUME NEW items, NEW p, NEW from \in Int, NEW to \in Int,
         NEW d \in 0 .. Cardinality(Positions(items, p, from, to)) - 1
  PROVE  \E i \in Positions(items, p, from, to) :
           d = Cardinality(Positions(items, p, from, i - 1))
<1> DEFINE N == Positions(items, p, from, to)
           c == Cardinality(N)
           rank == [i \in N |-> Cardinality(Positions(items, p, from, i - 1))]
<1>1. IsFiniteSet(N) /\ c \in Nat
  BY PositionsFinite
<1>2. \A i \in N : i \in Int /\ from <= i /\ i <= to /\ items[i] = p
  BY DEF Positions
<1>3. ASSUME NEW i \in N PROVE rank[i] \in 0 .. c - 1
  <2>1. rank[i] = Cardinality(Positions(items, p, from, i - 1)) /\ rank[i] \in Nat
    BY <1>2, PositionsFinite
  <2>2. rank[i] < c
    BY <1>2, <2>1, PositionsGrow
  <2> QED
    BY <1>1, <2>1, <2>2
<1>4. ASSUME NEW i \in N, NEW j \in N, i < j PROVE rank[i] < rank[j]
  <2>1. j - 1 \in Int /\ i <= j - 1 /\ from <= i /\ items[i] = p /\ i \in Int
    BY <1>2, <1>4
  <2>2. Cardinality(Positions(items, p, from, i - 1)) < Cardinality(Positions(items, p, from, j - 1))
    BY <2>1, PositionsGrow
  <2> QED
    BY <2>2
<1>5. rank \in Injection(N, 0 .. c - 1)
  <2>1. rank \in [N -> 0 .. c - 1]
    BY <1>3
  <2>2. ASSUME NEW i \in N, NEW j \in N, rank[i] = rank[j] PROVE i = j
    <3>1. i \in Int /\ j \in Int /\ rank[i] \in Int /\ rank[j] \in Int
      BY <1>2, <1>3
    <3>2. ~(i < j) /\ ~(j < i)
      BY <1>4, <2>2, <3>1
    <3> QED
      BY <3>1, <3>2
  <2> QED
    BY <2>1, <2>2 DEF Injection, IsInjective
<1>6. IsFiniteSet(0 .. c - 1) /\ Cardinality(0 .. c - 1) = c
  BY <1>1, FS_Interval
<1>7. rank \in Surjection(N, 0 .. c - 1)
  BY <1>1, <1>5, <1>6, FS_Injection
<1>8. PICK i \in N : rank[i] = d
  BY <1>7 DEF Surjection
<1> QED
  BY <1>8

-----------------------------------------------------------------------------
(* Alignment *)

\* The search always ends, with the longest alignment there is.
LEMMA OverlapLongest ==
  ASSUME NEW S, NEW previous \in Seq(S), NEW T, NEW items \in Seq(T)
  PROVE  /\ Overlap(previous, items) \in 0..Len(items)
         /\ Aligned(previous, items, Overlap(previous, items))
         /\ \A m \in 0..Len(items) : Aligned(previous, items, m) => m <= Overlap(previous, items)
<1> DEFINE A == {n \in 0..Len(items) : Aligned(previous, items, n)}
<1>1. Len(items) \in Nat /\ Len(previous) \in Nat
  OBVIOUS
<1>2. 0 \in A
  BY <1>1 DEF Aligned
<1>3. PICK n \in A : \A m \in A : m <= n
  BY <1>1, <1>2, GreatestExists
<1>4. \E n2 \in 0..Len(items) :
        /\ Aligned(previous, items, n2)
        /\ \A m \in 0..Len(items) : Aligned(previous, items, m) => m <= n2
  BY <1>3
<1> QED
  BY <1>4 DEF Overlap

LEMMA SnapshotIsSeq ==
  ASSUME NEW items \in Snapshots
  PROVE  items \in Seq(Prints) /\ Len(items) \in 0..MaxItems /\ items \in [1..Len(items) -> Prints]
<1>1. PICK n \in 0..MaxItems : items \in [1..n -> Prints]
  BY DEF Snapshots
<1>2. n \in Nat
  BY BoundsAssumption
<1> QED
  BY <1>1, <1>2

-----------------------------------------------------------------------------
(* What a step does *)

\* What one snapshot does, in the terms the proofs need: the alignment it found, the
\* entries that keep their records and the entries that get new ones.
LEMMA SnapshotEffect ==
  ASSUME IInv, NEW k \in Keys, NEW items \in Snapshots, IngestSnapshot(k, items),
         NEW overlap, overlap = Overlap(state[k], items)
  PROVE  /\ overlap \in 0..Len(items) /\ overlap <= Len(state[k])
         /\ records \subseteq records'
         /\ \A i \in overlap + 1 .. Len(items) : NewId(k, items, overlap, i) \in records'
         /\ state' = [state EXCEPT ![k] = NewState(k, items, overlap)]
         /\ state'[k] \in Seq(Entries) /\ Len(state'[k]) = Len(items)
         /\ \A i \in 1..overlap :
              /\ Len(state[k]) - overlap + i \in 1..Len(state[k])
              /\ state'[k][i] = state[k][Len(state[k]) - overlap + i]
         /\ \A i \in overlap + 1 .. Len(items) :
              /\ state'[k][i] = [print |-> items[i], id |-> NewId(k, items, overlap, i)]
              /\ NewId(k, items, overlap, i) \in SnapshotIds
              /\ items[i] \in Prints
              /\ Occurrence(k, items, overlap, i) \in Nat
              /\ counters[k][items[i]] <= Occurrence(k, items, overlap, i)
              /\ Occurrence(k, items, overlap, i) < counters'[k][items[i]]
         /\ counters' = [counters EXCEPT ![k] = NewCounters(k, items, overlap)]
         /\ \A p \in Prints : counters'[k][p] \in Nat /\ counters[k][p] <= counters'[k][p]
<1>1. items \in Seq(Prints) /\ Len(items) \in Nat /\ items \in [1..Len(items) -> Prints]
  BY SnapshotIsSeq, BoundsAssumption
<1>2. state[k] \in Seq(Entries) /\ Len(state[k]) \in Nat
  BY DEF IInv, TypeOK
<1>3. overlap \in 0..Len(items) /\ Aligned(state[k], items, overlap)
  BY <1>1, <1>2, OverlapLongest
<1>4. /\ records' = records \union Inserted(k, items, overlap)
      /\ state' = [state EXCEPT ![k] = NewState(k, items, overlap)]
      /\ counters' = [counters EXCEPT ![k] = NewCounters(k, items, overlap)]
  BY DEF IngestSnapshot
<1>5. state'[k] = NewState(k, items, overlap)
  BY <1>4 DEF IInv, TypeOK
<1>6. ASSUME NEW i \in 1..overlap
      PROVE  /\ Len(state[k]) - overlap + i \in 1..Len(state[k])
             /\ state'[k][i] = state[k][Len(state[k]) - overlap + i]
  <2>1. Len(state[k]) - overlap + i \in 1..Len(state[k]) /\ i \in 1..Len(items)
    BY <1>1, <1>2, <1>3 DEF Aligned
  <2>2. state[k][Len(state[k]) - overlap + i] \in Entries
    BY <1>2, <2>1
  <2>3. state[k][Len(state[k]) - overlap + i].print = items[i]
    BY <1>3 DEF Aligned
  <2>4. state'[k][i] = [print |-> items[i], id |-> state[k][Len(state[k]) - overlap + i].id]
    BY <1>3, <1>5, <2>1 DEF NewState, KeptId
  <2> QED
    BY <2>1, <2>2, <2>3, <2>4 DEF Entries
<1>7. ASSUME NEW p \in Prints
      PROVE  /\ counters'[k][p] =
                   counters[k][p] + Cardinality(Positions(items, p, overlap + 1, Len(items)))
             /\ counters[k][p] \in Nat
             /\ counters'[k][p] \in Nat /\ counters[k][p] <= counters'[k][p]
  <2>1. counters'[k][p] =
          counters[k][p] + Cardinality(Positions(items, p, overlap + 1, Len(items)))
    BY <1>4 DEF NewCounters, IInv, TypeOK
  <2>2. Cardinality(Positions(items, p, overlap + 1, Len(items))) \in Nat
    BY <1>1, <1>3, PositionsFinite
  <2>3. counters[k][p] \in Nat
    BY DEF IInv, TypeOK
  <2> QED
    BY <2>1, <2>2, <2>3
<1>8. ASSUME NEW i \in overlap + 1 .. Len(items)
      PROVE  /\ state'[k][i] = [print |-> items[i], id |-> NewId(k, items, overlap, i)]
             /\ NewId(k, items, overlap, i) \in SnapshotIds
             /\ items[i] \in Prints
             /\ Occurrence(k, items, overlap, i) \in Nat
             /\ counters[k][items[i]] <= Occurrence(k, items, overlap, i)
             /\ Occurrence(k, items, overlap, i) < counters'[k][items[i]]
  <2>1. i \in 1..Len(items) /\ ~(i <= overlap) /\ i \in Int /\ items[i] \in Prints
    BY <1>1, <1>3
  <2>2. state'[k][i] = [print |-> items[i], id |-> NewId(k, items, overlap, i)]
    BY <1>5, <2>1 DEF NewState
  <2>3. Cardinality(Positions(items, items[i], overlap + 1, i - 1)) \in Nat
    BY <1>3, <2>1, PositionsFinite
  <2>4. Cardinality(Positions(items, items[i], overlap + 1, i - 1))
          < Cardinality(Positions(items, items[i], overlap + 1, Len(items)))
    BY <1>1, <1>3, <2>1, PositionsGrow
  <2>5. Cardinality(Positions(items, items[i], overlap + 1, Len(items))) \in Nat
    BY <1>1, <1>3, PositionsFinite
  <2>6. /\ Occurrence(k, items, overlap, i) \in Nat
        /\ counters[k][items[i]] <= Occurrence(k, items, overlap, i)
        /\ Occurrence(k, items, overlap, i) < counters'[k][items[i]]
    BY <1>7, <2>1, <2>3, <2>4, <2>5 DEF Occurrence
  <2>7. NewId(k, items, overlap, i) \in SnapshotIds
    BY <2>1, <2>6 DEF NewId, RecordId, SnapshotIds
  <2> QED
    BY <2>1, <2>2, <2>6, <2>7
<1>9. state'[k] \in Seq(Entries) /\ Len(state'[k]) = Len(items)
  <2>1. state'[k] \in [1..Len(items) -> Entries]
    <3>1. state'[k] = [i \in 1..Len(items) |-> state'[k][i]]
      BY <1>5 DEF NewState
    <3>2. ASSUME NEW i \in 1..Len(items) PROVE state'[k][i] \in Entries
      <4>1. CASE i <= overlap
        BY <1>2, <1>3, <1>6, <4>1
      <4>2. CASE ~(i <= overlap)
        <5>1. i \in overlap + 1 .. Len(items)
          BY <1>1, <1>3, <4>2
        <5>2. /\ state'[k][i] = [print |-> items[i], id |-> NewId(k, items, overlap, i)]
              /\ items[i] \in Prints /\ NewId(k, items, overlap, i) \in SnapshotIds
          BY <1>8, <5>1
        <5> QED
          BY <5>2 DEF Entries
      <4> QED
        BY <4>1, <4>2
    <3> QED
      BY <3>1, <3>2
  <2> QED
    BY <1>1, <2>1
<1> QED
  BY <1>3, <1>4, <1>6, <1>7, <1>8, <1>9 DEF Aligned, Inserted

LEMMA SnapshotType ==
  ASSUME IInv, NEW k \in Keys, NEW items \in Snapshots, IngestSnapshot(k, items)
  PROVE  TypeOK'
<1> DEFINE overlap == Overlap(state[k], items)
<1>1. records' \subseteq SnapshotIds \union Foreign
  <2>1. Inserted(k, items, overlap) \subseteq SnapshotIds
    <3>1. \A i \in overlap + 1 .. Len(items) : NewId(k, items, overlap, i) \in SnapshotIds
      BY SnapshotEffect
    <3> QED
      BY <3>1 DEF Inserted
  <2>2. records' = records \union Inserted(k, items, overlap)
    BY DEF IngestSnapshot
  <2> QED
    BY <2>1, <2>2 DEF IInv, TypeOK
<1>2. state' \in [Keys -> Seq(Entries)]
  <2>1. state' = [state EXCEPT ![k] = NewState(k, items, overlap)] /\ state'[k] \in Seq(Entries)
    BY SnapshotEffect
  <2> QED
    BY <2>1 DEF IInv, TypeOK
<1>3. counters' \in [Keys -> [Prints -> Nat]]
  <2>1. counters' = [counters EXCEPT ![k] = NewCounters(k, items, overlap)]
    BY SnapshotEffect
  <2>2. counters'[k] = NewCounters(k, items, overlap)
    BY <2>1 DEF IInv, TypeOK
  <2>3. \A p \in Prints : counters'[k][p] \in Nat
    BY SnapshotEffect
  <2>4. NewCounters(k, items, overlap) \in [Prints -> Nat]
    BY <2>2, <2>3 DEF NewCounters
  <2> QED
    BY <2>1, <2>4 DEF IInv, TypeOK
<1>4. promised' \in [Keys -> [Prints -> Nat]]
  <2>1. \A p \in Prints : Copies(items, p) \in Nat
    BY SnapshotIsSeq, PositionsFinite, BoundsAssumption DEF Copies
  <2>2. Promise(k, items) \in [Prints -> Nat]
    BY <2>1 DEF Promise, IInv, TypeOK
  <2>3. promised' = [promised EXCEPT ![k] = Promise(k, items)]
    BY DEF IngestSnapshot
  <2> QED
    BY <2>2, <2>3 DEF IInv, TypeOK
<1>5. request'.key \in Keys /\ request'.items \in Snapshots
  BY DEF IngestSnapshot
<1> QED
  BY <1>1, <1>2, <1>3, <1>4, <1>5 DEF TypeOK

\* An entry is kept with its record, or names the record just inserted for it.
LEMMA SnapshotBacked ==
  ASSUME IInv, NEW k \in Keys, NEW items \in Snapshots, IngestSnapshot(k, items)
  PROVE  StateBacked'
<1> DEFINE overlap == Overlap(state[k], items)
<1> SUFFICES ASSUME NEW l \in Keys, NEW i \in 1..Len(state'[l])
             PROVE  /\ state'[l][i].id \in records'
                    /\ state'[l][i].id.key = l /\ state'[l][i].id.print = state'[l][i].print
                    /\ state'[l][i].id.occurrence < counters'[l][state'[l][i].print]
  BY DEF StateBacked
<1>1. CASE l # k
  <2>1. state'[l] = state[l] /\ counters'[l] = counters[l] /\ records \subseteq records'
    BY <1>1, SnapshotEffect DEF IInv, TypeOK
  <2> QED
    BY <2>1 DEF IInv, StateBacked
<1>2. CASE l = k /\ i \in 1..overlap
  <2> DEFINE j == Len(state[k]) - overlap + i
             entry == state[k][j]
  <2>1. j \in 1..Len(state[k]) /\ state'[k][i] = entry
    BY <1>2, SnapshotEffect
  <2>2. entry \in Entries
    BY <2>1 DEF IInv, TypeOK
  <2>3. /\ entry.id \in records
        /\ entry.id.key = k /\ entry.id.print = entry.print
        /\ entry.id.occurrence < counters[k][entry.print]
    BY <2>1 DEF IInv, StateBacked
  <2>4. entry.print \in Prints /\ entry.id.occurrence \in Nat
    BY <2>2 DEF Entries, SnapshotIds
  <2>5. /\ records \subseteq records' /\ counters[k][entry.print] \in Nat
        /\ counters'[k][entry.print] \in Nat
        /\ counters[k][entry.print] <= counters'[k][entry.print]
    BY <2>4, SnapshotEffect DEF IInv, TypeOK
  <2> QED
    BY <1>2, <2>1, <2>3, <2>4, <2>5
<1>3. CASE l = k /\ i \in overlap + 1 .. Len(items)
  <2>1. /\ state'[k][i] = [print |-> items[i], id |-> NewId(k, items, overlap, i)]
        /\ NewId(k, items, overlap, i) \in records'
        /\ Occurrence(k, items, overlap, i) < counters'[k][items[i]]
    BY <1>3, SnapshotEffect
  <2> QED
    BY <1>3, <2>1 DEF NewId, RecordId
<1>4. overlap \in 0..Len(items) /\ Len(state'[k]) = Len(items) /\ Len(items) \in Nat
  BY SnapshotEffect, SnapshotIsSeq
<1> QED
  BY <1>1, <1>2, <1>3, <1>4

\* New records lie above the counter, kept ones below it, and equal new messages are
\* numbered in turn.
LEMMA SnapshotDistinct ==
  ASSUME IInv, NEW k \in Keys, NEW items \in Snapshots, IngestSnapshot(k, items)
  PROVE  RepetitionsDistinct'
<1> DEFINE overlap == Overlap(state[k], items)
<1>1. overlap \in 0..Len(items) /\ Len(state'[k]) = Len(items) /\ Len(items) \in Nat
  BY SnapshotEffect, SnapshotIsSeq
<1>2. /\ \A i \in 1..overlap :
           /\ Len(state[k]) - overlap + i \in 1..Len(state[k])
           /\ state'[k][i] = state[k][Len(state[k]) - overlap + i]
      /\ \A i \in overlap + 1 .. Len(items) :
           state'[k][i] = [print |-> items[i], id |-> NewId(k, items, overlap, i)]
  BY SnapshotEffect
<1>3. ASSUME NEW i \in 1..Len(items), NEW j \in 1..Len(items), i < j,
             state'[k][i].id = state'[k][j].id
      PROVE  FALSE
  <2>1. CASE j \in 1..overlap
    <3>1. /\ Len(state[k]) - overlap + i \in 1..Len(state[k])
          /\ Len(state[k]) - overlap + j \in 1..Len(state[k])
          /\ state[k][Len(state[k]) - overlap + i].id = state[k][Len(state[k]) - overlap + j].id
      <4>1. i \in 1..overlap
        BY <1>1, <1>3, <2>1
      <4> QED
        BY <1>2, <1>3, <2>1, <4>1
    <3>2. Len(state[k]) - overlap + i = Len(state[k]) - overlap + j
      BY <3>1 DEF IInv, RepetitionsDistinct
    <3>3. Len(state[k]) \in Nat
      BY DEF IInv, TypeOK
    <3> QED
      BY <1>1, <1>3, <3>2, <3>3
  <2>2. CASE i \in 1..overlap /\ j \in overlap + 1 .. Len(items)
    <3> DEFINE entry == state[k][Len(state[k]) - overlap + i]
    <3>1. /\ Len(state[k]) - overlap + i \in 1..Len(state[k])
          /\ state'[k][i] = entry
          /\ state'[k][j] = [print |-> items[j], id |-> NewId(k, items, overlap, j)]
          /\ counters[k][items[j]] <= Occurrence(k, items, overlap, j)
          /\ Occurrence(k, items, overlap, j) \in Nat /\ items[j] \in Prints
      BY <2>2, SnapshotEffect
    <3>2. entry.id = RecordId(k, items[j], Occurrence(k, items, overlap, j))
      BY <1>3, <3>1 DEF NewId
    <3>3. entry.id.print = entry.print /\ entry.id.occurrence < counters[k][entry.print]
      BY <3>1 DEF IInv, StateBacked
    <3>4. Occurrence(k, items, overlap, j) < counters[k][items[j]] /\ counters[k][items[j]] \in Nat
      BY <3>1, <3>2, <3>3 DEF RecordId, IInv, TypeOK
    <3> QED
      BY <3>1, <3>4
  <2>3. CASE i \in overlap + 1 .. Len(items) /\ j \in overlap + 1 .. Len(items)
    <3>1. NewId(k, items, overlap, i) = NewId(k, items, overlap, j)
      <4>1. state'[k][i] = [print |-> items[i], id |-> NewId(k, items, overlap, i)]
        BY <1>2, <2>3
      <4>2. state'[k][j] = [print |-> items[j], id |-> NewId(k, items, overlap, j)]
        BY <1>2, <2>3
      <4> QED
        BY <1>3, <4>1, <4>2
    <3>2. /\ items[i] = items[j]
          /\ Occurrence(k, items, overlap, i) = Occurrence(k, items, overlap, j)
      BY <3>1 DEF NewId, RecordId
    <3>3. Cardinality(Positions(items, items[i], overlap + 1, i - 1))
            < Cardinality(Positions(items, items[i], overlap + 1, j - 1))
      <4>1. overlap + 1 \in Int /\ i \in Int /\ j - 1 \in Int /\ overlap + 1 <= i /\ i <= j - 1
        BY <1>1, <1>3, <2>3
      <4> QED
        BY <4>1, PositionsGrow
    <3>4. /\ Cardinality(Positions(items, items[i], overlap + 1, i - 1)) \in Nat
          /\ Cardinality(Positions(items, items[i], overlap + 1, j - 1)) \in Nat
      BY <1>1, <1>3, PositionsFinite
    <3>5. counters[k][items[i]] \in Nat
      <4>1. items[i] \in Prints
        BY <2>3, SnapshotEffect
      <4> QED
        BY <4>1 DEF IInv, TypeOK
    <3> QED
      BY <3>2, <3>3, <3>4, <3>5 DEF Occurrence
  <2> QED
    BY <1>1, <1>3, <2>1, <2>2, <2>3
<1>4. ASSUME NEW l \in Keys, l # k PROVE state'[l] = state[l]
  BY <1>4, SnapshotEffect DEF IInv, TypeOK
<1> SUFFICES ASSUME NEW l \in Keys, NEW i \in 1..Len(state'[l]), NEW j \in 1..Len(state'[l]),
                    state'[l][i].id = state'[l][j].id
             PROVE  i = j
  BY DEF RepetitionsDistinct
<1>5. CASE l = k
  <2>1. ~(i < j) /\ ~(j < i)
    BY <1>1, <1>3, <1>5
  <2> QED
    BY <1>1, <1>5, <2>1
<1>6. CASE l # k
  BY <1>4, <1>6 DEF IInv, RepetitionsDistinct
<1> QED
  BY <1>5, <1>6

\* The counter moves past exactly the occurrences the new messages are given.
LEMMA SnapshotDense ==
  ASSUME IInv, NEW k \in Keys, NEW items \in Snapshots, IngestSnapshot(k, items)
  PROVE  OccurrencesDense'
<1> DEFINE overlap == Overlap(state[k], items)
           Fresh(p) == Positions(items, p, overlap + 1, Len(items))
<1> SUFFICES ASSUME NEW l \in Keys, NEW p \in Prints, NEW o \in 0..counters'[l][p] - 1
             PROVE  RecordId(l, p, o) \in records'
  BY DEF OccurrencesDense
<1>1. records \subseteq records' /\ overlap \in 0..Len(items) /\ Len(items) \in Nat
  BY SnapshotEffect, SnapshotIsSeq
<1>2. counters[l][p] \in Nat
  BY DEF IInv, TypeOK
<1>3. CASE o \in 0..counters[l][p] - 1
  BY <1>1, <1>3 DEF IInv, OccurrencesDense
<1>4. CASE ~(o \in 0..counters[l][p] - 1)
  <2>1. l = k
    <3>1. l # k => counters'[l] = counters[l]
      BY SnapshotEffect DEF IInv, TypeOK
    <3> QED
      BY <1>4, <3>1
  <2>2. counters'[l][p] = counters[k][p] + Cardinality(Fresh(p))
    <3>1. counters'[k][p] = counters[k][p] + Cardinality(Fresh(p))
      BY SnapshotEffect DEF NewCounters, IInv, TypeOK
    <3> QED
      BY <2>1, <3>1
  <2>3. Cardinality(Fresh(p)) \in Nat
    BY <1>1, PositionsFinite
  <2>4. o - counters[k][p] \in 0 .. Cardinality(Fresh(p)) - 1
    <3> HIDE DEF Fresh
    <3>1. o \in 0 .. counters[k][p] + Cardinality(Fresh(p)) - 1
      BY <1>2, <2>1, <2>2, <2>3
    <3>2. counters[k][p] \in Nat /\ ~(o \in 0..counters[k][p] - 1)
      BY <1>2, <1>4, <2>1
    <3> QED
      BY <2>3, <3>1, <3>2
  <2>5. PICK i \in Fresh(p) :
          o - counters[k][p] = Cardinality(Positions(items, p, overlap + 1, i - 1))
    <3>1. overlap + 1 \in Int /\ Len(items) \in Int
      BY <1>1
    <3> QED
      BY <2>4, <3>1, RanksDense
  <2>6. i \in overlap + 1 .. Len(items) /\ items[i] = p
    BY <2>5 DEF Positions
  <2>7. Occurrence(k, items, overlap, i) = o
    <3>1. Occurrence(k, items, overlap, i) =
            counters[k][p] + Cardinality(Positions(items, p, overlap + 1, i - 1))
      BY <2>6 DEF Occurrence
    <3>2. counters[k][p] \in Nat /\ o \in Int
      BY <1>2, <2>1
    <3> QED
      BY <2>5, <3>1, <3>2
  <2>8. NewId(k, items, overlap, i) \in records'
    BY <2>6, SnapshotEffect
  <2> QED
    BY <2>1, <2>6, <2>7, <2>8 DEF NewId
<1> QED
  BY <1>3, <1>4

\* The copies of a message in the stored snapshot have different occurrences, all below
\* the counter, so there are no more of them than the counter says.
LEMMA SnapshotCounted ==
  ASSUME IInv, NEW k \in Keys, NEW items \in Snapshots, IngestSnapshot(k, items)
  PROVE  PromisesCounted'
<1>1. StateBacked' /\ RepetitionsDistinct' /\ TypeOK'
  BY SnapshotBacked, SnapshotDistinct, SnapshotType
<1>2. Len(state'[k]) = Len(items) /\ Len(items) \in Nat
  BY SnapshotEffect, SnapshotIsSeq
<1>3. \A i \in 1..Len(items) : state'[k][i].print = items[i]
  <2>1. state'[k] = NewState(k, items, Overlap(state[k], items))
    BY SnapshotEffect DEF IInv, TypeOK
  <2> QED
    BY <2>1 DEF NewState
<1>4. ASSUME NEW p \in Prints PROVE Copies(items, p) <= counters'[k][p]
  <2> DEFINE P == Positions(items, p, 1, Len(items))
             c == counters'[k][p]
             place == [i \in P |-> state'[k][i].id.occurrence]
  <2>1. c \in Nat
    BY <1>1 DEF TypeOK
  <2>2. ASSUME NEW i \in P
        PROVE  /\ i \in 1..Len(state'[k]) /\ state'[k][i].print = p
               /\ state'[k][i].id \in SnapshotIds
               /\ state'[k][i].id.key = k /\ state'[k][i].id.print = p
               /\ state'[k][i].id.occurrence \in 0 .. c - 1
    <3>1. i \in 1..Len(state'[k]) /\ state'[k][i].print = p
      BY <1>2, <1>3 DEF Positions
    <3>2. state'[k][i] \in Entries
      BY <1>1, <3>1 DEF TypeOK
    <3>3. /\ state'[k][i].id.key = k /\ state'[k][i].id.print = p
          /\ state'[k][i].id.occurrence < c
      BY <1>1, <3>1 DEF StateBacked
    <3>4. state'[k][i].id \in SnapshotIds /\ state'[k][i].id.occurrence \in Nat
      BY <3>2 DEF Entries, SnapshotIds
    <3> QED
      BY <2>1, <3>1, <3>3, <3>4
  <2>3. ASSUME NEW i \in P, NEW j \in P, place[i] = place[j] PROVE i = j
    <3>1. state'[k][i].id = state'[k][j].id
      BY <2>2, <2>3 DEF SnapshotIds
    <3> QED
      BY <1>1, <2>2, <3>1 DEF RepetitionsDistinct
  <2>4. place \in Injection(P, 0 .. c - 1)
    <3>1. place \in [P -> 0 .. c - 1]
      BY <2>2
    <3> QED
      BY <2>3, <3>1 DEF Injection, IsInjective
  <2>5. IsFiniteSet(0 .. c - 1) /\ Cardinality(0 .. c - 1) = c
    <3> HIDE DEF c
    <3>1. IsFiniteSet(0 .. c - 1) /\ Cardinality(0 .. c - 1) = IF 0 > c - 1 THEN 0 ELSE c - 1 - 0 + 1
      BY <2>1, FS_Interval
    <3> QED
      BY <2>1, <3>1
  <2>6. Cardinality(P) <= Cardinality(0 .. c - 1)
    BY <2>4, <2>5, FS_Injection
  <2> QED
    BY <2>5, <2>6 DEF Copies
<1> SUFFICES ASSUME NEW l \in Keys, NEW p \in Prints PROVE promised'[l][p] <= counters'[l][p]
  BY DEF PromisesCounted
<1>5. CASE l = k
  <2>1. promised'[k][p] = IF promised[k][p] < Copies(items, p) THEN Copies(items, p)
                                                              ELSE promised[k][p]
    BY DEF IngestSnapshot, Promise, IInv, TypeOK
  <2>2. Copies(items, p) <= counters'[k][p]
    BY <1>4
  <2>3. promised[k][p] <= counters[k][p]
    BY DEF IInv, PromisesCounted
  <2>4. counters[k][p] <= counters'[k][p]
    BY SnapshotEffect
  <2>5. promised[k][p] \in Nat /\ counters[k][p] \in Nat /\ counters'[k][p] \in Nat
    BY <1>1 DEF IInv, TypeOK
  <2> QED
    BY <1>5, <2>1, <2>2, <2>3, <2>4, <2>5
<1>6. CASE l # k
  <2>1. promised'[l] = promised[l] /\ counters'[l] = counters[l]
    BY <1>6, SnapshotEffect DEF IngestSnapshot, IInv, TypeOK
  <2> QED
    BY <2>1 DEF IInv, PromisesCounted
<1> QED
  BY <1>5, <1>6

-----------------------------------------------------------------------------
(* Theorems *)

LEMMA SnapshotStepInductive == IInv /\ [Next]_vars => IInv'
<1> SUFFICES ASSUME IInv, [Next]_vars PROVE IInv'
  OBVIOUS
<1>1. ASSUME NEW k \in Keys, NEW items \in Snapshots, IngestSnapshot(k, items) PROVE IInv'
  BY <1>1, SnapshotType, SnapshotBacked, SnapshotDistinct, SnapshotDense, SnapshotCounted DEF IInv
<1>2. ASSUME NEW ids \in Batches, Ingest(ids) PROVE IInv'
  <2>1. /\ records' = records \union ids /\ request' = NoRequest
        /\ state' = state /\ counters' = counters /\ promised' = promised
    BY <1>2 DEF Ingest
  <2>2. TypeOK'
    BY <2>1, BatchesAssumption DEF IInv, TypeOK
  <2>3. StateBacked'
    BY <2>1 DEF IInv, StateBacked
  <2>4. RepetitionsDistinct'
    BY <2>1 DEF IInv, RepetitionsDistinct
  <2>5. OccurrencesDense'
    BY <2>1 DEF IInv, OccurrencesDense
  <2>6. PromisesCounted'
    BY <2>1 DEF IInv, PromisesCounted
  <2> QED
    BY <2>2, <2>3, <2>4, <2>5, <2>6 DEF IInv
<1>3. CASE UNCHANGED vars
  BY <1>3 DEF vars, IInv, TypeOK, StateBacked, RepetitionsDistinct, OccurrencesDense, PromisesCounted
<1> QED
  BY <1>1, <1>2, <1>3 DEF Next

\* The invariant is inductive: types, alignment state backed by records, distinct
\* repetitions, dense occurrences and counted promises hold in every state.
THEOREM Inductive == Spec => []IInv
<1>1. Init => IInv
  <2> SUFFICES ASSUME Init PROVE IInv
    OBVIOUS
  <2>1. TypeOK
    BY DEF Init, TypeOK
  <2>2. \A k \in Keys : Len(state[k]) = 0 /\ \A p \in Prints : counters[k][p] = 0 /\ promised[k][p] = 0
    BY DEF Init
  <2>3. StateBacked /\ RepetitionsDistinct /\ OccurrencesDense /\ PromisesCounted
    BY <2>2 DEF StateBacked, RepetitionsDistinct, OccurrencesDense, PromisesCounted
  <2> QED
    BY <2>1, <2>3 DEF IInv
<1> QED
  BY <1>1, SnapshotStepInductive, PTL DEF Spec

\* ingest_snapshot and ingest_many keep every table well typed.
THEOREM TypeCorrect == Spec => []TypeOK
<1>1. IInv => TypeOK
  BY DEF IInv
<1> QED
  BY <1>1, Inductive, PTL

\* The entries of snapshot_state always name stored records of their own message.
THEOREM StateIsBacked == Spec => []StateBacked
<1>1. IInv => StateBacked
  BY DEF IInv
<1> QED
  BY <1>1, Inductive, PTL

\* Reconciliation never folds a legitimate repetition into the message it repeats.
THEOREM RepetitionsAreDistinct == Spec => []RepetitionsDistinct
<1>1. IInv => RepetitionsDistinct
  BY DEF IInv
<1> QED
  BY <1>1, Inductive, PTL

\* Every occurrence the counter has passed is stored.
THEOREM OccurrencesAreDense == Spec => []OccurrencesDense
<1>1. IInv => OccurrencesDense
  BY DEF IInv
<1> QED
  BY <1>1, Inductive, PTL

\* No later snapshot or batch takes anything away from a snapshot that was stored.
THEOREM SnapshotsAreKept == Spec => []SnapshotsKept
<1>1. IInv => SnapshotsKept
  <2> SUFFICES ASSUME IInv, NEW k \in Keys, NEW p \in Prints, NEW o \in 0..promised[k][p] - 1
               PROVE  RecordId(k, p, o) \in records
    BY DEF SnapshotsKept
  <2>1. promised[k][p] <= counters[k][p] /\ promised[k][p] \in Nat /\ counters[k][p] \in Nat
    BY DEF IInv, PromisesCounted, TypeOK
  <2>2. o \in 0..counters[k][p] - 1
    BY <2>1
  <2> QED
    BY <2>2 DEF IInv, OccurrencesDense
<1> QED
  BY <1>1, Inductive, PTL

\* The new records are no more than the messages behind the alignment.
LEMMA InsertedBounded ==
  ASSUME NEW k, NEW items, NEW overlap \in Nat, Len(items) \in Nat, overlap <= Len(items)
  PROVE  /\ IsFiniteSet(Inserted(k, items, overlap))
         /\ Cardinality(Inserted(k, items, overlap)) \in Nat
         /\ Cardinality(Inserted(k, items, overlap)) <= Len(items) - overlap
<1> DEFINE New == overlap + 1 .. Len(items)
           I == Inserted(k, items, overlap)
           give == [i \in New |-> NewId(k, items, overlap, i)]
<1>1. IsFiniteSet(New) /\ Cardinality(New) = Len(items) - overlap
  <2>1. /\ IsFiniteSet(New)
        /\ Cardinality(New) = IF overlap + 1 > Len(items) THEN 0 ELSE Len(items) - (overlap + 1) + 1
    <3>1. overlap + 1 \in Int /\ Len(items) \in Int
      OBVIOUS
    <3> QED
      BY <3>1, FS_Interval
  <2> QED
    BY <2>1
<1>2. give \in Surjection(New, I)
  BY DEF Inserted, Surjection
<1>3. IsFiniteSet(I) /\ Cardinality(I) <= Cardinality(New)
  BY <1>1, <1>2, FS_Surjection
<1>4. Cardinality(I) \in Nat
  BY <1>3, FS_CardinalityType
<1> QED
  BY <1>1, <1>3, <1>4

\* Sending messages again adds records for what follows any alignment, and nothing else.
THEOREM SnapshotsAddOnlyTheTail == Spec => AddsOnlyTheTail
<1> DEFINE Step == \A k \in Keys : request'.key = k =>
                     \A n \in 0..Len(request'.items) :
                       Aligned(state[k], request'.items, n) =>
                         /\ Cardinality(records' \ records) <= Len(request'.items) - n
                         /\ n = Len(request'.items) => UNCHANGED <<records, counters>>
<1>1. ASSUME IInv, NEW l \in Keys, NEW items \in Snapshots, IngestSnapshot(l, items) PROVE Step
  <2> SUFFICES ASSUME NEW n \in 0..Len(items), Aligned(state[l], items, n)
               PROVE  /\ Cardinality(records' \ records) <= Len(items) - n
                      /\ n = Len(items) => UNCHANGED <<records, counters>>
    BY <1>1 DEF IngestSnapshot
  <2> DEFINE overlap == Overlap(state[l], items)
  <2>1. /\ items \in Seq(Prints) /\ Len(items) \in Nat
        /\ state[l] \in Seq(Entries)
    BY <1>1, SnapshotIsSeq DEF IInv, TypeOK
  <2>2. overlap \in 0..Len(items) /\ n <= overlap
    BY <2>1, OverlapLongest
  <2> HIDE DEF overlap
  <2>3. /\ records' = records \union Inserted(l, items, overlap)
        /\ counters' = [counters EXCEPT ![l] = NewCounters(l, items, overlap)]
    BY <1>1 DEF IngestSnapshot, overlap
  <2>4. records' \ records \in SUBSET Inserted(l, items, overlap)
    BY <2>3
  <2>5. /\ IsFiniteSet(Inserted(l, items, overlap))
        /\ Cardinality(Inserted(l, items, overlap)) \in Nat
        /\ Cardinality(Inserted(l, items, overlap)) <= Len(items) - overlap
    <3>1. overlap \in Nat /\ overlap <= Len(items)
      BY <2>1, <2>2
    <3> QED
      BY <2>1, <3>1, InsertedBounded
  <2>6. /\ IsFiniteSet(records' \ records)
        /\ Cardinality(records' \ records) <= Cardinality(Inserted(l, items, overlap))
    BY <2>4, <2>5, FS_Subset
  <2>7. Cardinality(records' \ records) \in Nat
    BY <2>6, FS_CardinalityType
  <2>8. Cardinality(records' \ records) <= Len(items) - n
    <3> DEFINE d == Cardinality(records' \ records)
               c == Cardinality(Inserted(l, items, overlap))
    <3>1. d \in Nat /\ c \in Nat /\ d <= c /\ c <= Len(items) - overlap
      BY <2>5, <2>6, <2>7
    <3> HIDE DEF d, c
    <3>2. d <= Len(items) - n
      BY <2>1, <2>2, <3>1
    <3> QED
      BY <3>2 DEF d
  <2>9. ASSUME n = Len(items) PROVE UNCHANGED <<records, counters>>
    <3>1. overlap = Len(items)
      BY <2>1, <2>2, <2>9
    <3>2. Inserted(l, items, overlap) = {}
      BY <2>1, <3>1 DEF Inserted
    <3>3. \A p \in Prints : Cardinality(Positions(items, p, overlap + 1, Len(items))) = 0
      <4>1. \A p \in Prints : Positions(items, p, overlap + 1, Len(items)) = {}
        BY <2>1, <3>1 DEF Positions
      <4> QED
        BY <4>1, FS_EmptySet
    <3>4. NewCounters(l, items, overlap) = counters[l]
      BY <1>1, <3>3 DEF NewCounters, IInv, TypeOK
    <3> QED
      BY <1>1, <2>3, <3>2, <3>4 DEF IInv, TypeOK
  <2> QED
    BY <2>8, <2>9
<1>2. ASSUME NEW ids \in Batches, Ingest(ids) PROVE Step
  <2>1. request'.key = NoKey
    BY <1>2 DEF Ingest, NoRequest
  <2> QED
    BY <2>1, NoKeyAssumption
<1>3. IInv /\ [Next]_vars => [Step]_vars
  <2> HIDE DEF Step
  <2> QED
    BY <1>1, <1>2 DEF Next
<1> QED
  BY <1>3, Inductive, PTL DEF Spec, AddsOnlyTheTail
=============================================================================
