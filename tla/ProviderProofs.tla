--------------------------- MODULE ProviderProofs ---------------------------
(***************************************************************************)
(* Proofs about Provider, for any messages, events and summaries, and for  *)
(* conversations, calls and deaths of the host without bound.              *)
(***************************************************************************)
EXTENDS Provider, NatFacts, FiniteSetTheorems, SequenceTheorems, TLAPS

\* SnapshotStore with what is proved about it.
Proved == INSTANCE SnapshotStoreProofs WITH
  Keys <- {Session}, Prints <- Contents \union Summaries, NoKey <- NoSession,
  Foreign <- Ids, Batches <- {{id} : id \in Ids}, MaxItems <- MaxMessages,
  MaxCount <- MaxMessages * MaxCalls

Prints == Contents \union Summaries

-----------------------------------------------------------------------------
(* What is sent of a conversation *)

\* The loop over the messages, as a function from what was kept so far.
Step(source) ==
  [n \in 1..Len(source) |->
     [kept \in Seq(Prints) |-> IF source[n] = Blank THEN kept ELSE Append(kept, source[n])]]

LEMMA PrintsOfMessages ==
  /\ Messages = Prints \union {Blank} /\ Blank \notin Prints
  /\ \A m \in Messages : m # Blank => m \in Prints
BY MessagesAssumption DEF Messages, Prints, Contents

\* Visible is the last value of the only function that follows the loop.
LEMMA VisibleFollows ==
  ASSUME NEW source \in Seq(Messages), NEW f \in [0..Len(source) -> Seq(Prints)],
         Follows(f, <<>>, Step(source), Len(source))
  PROVE  Visible(source) = f[Len(source)]
<1> DEFINE N == Len(source)
<1>1. N \in Nat
  OBVIOUS
<1>2. \A n \in 1..N : f[n] = IF source[n] = Blank THEN f[n - 1] ELSE Append(f[n - 1], source[n])
  <2> SUFFICES ASSUME NEW n \in 1..N
               PROVE  f[n] = IF source[n] = Blank THEN f[n - 1] ELSE Append(f[n - 1], source[n])
    OBVIOUS
  <2>1. f[n - 1] \in Seq(Prints)
    <3>1. n - 1 \in 0..N
      BY <1>1
    <3> QED
      BY <3>1
  <2>2. f[n] = Step(source)[n][f[n - 1]]
    BY DEF Follows
  <2>3. Step(source)[n] = [kept \in Seq(Prints) |->
                            IF source[n] = Blank THEN kept ELSE Append(kept, source[n])]
    BY DEF Step
  <2> QED
    BY <2>1, <2>2, <2>3
<1> DEFINE Loop(g) == g = [n \in 0..N |-> IF n = 0 THEN <<>>
                                          ELSE IF source[n] = Blank THEN g[n - 1]
                                          ELSE Append(g[n - 1], source[n])]
           V == CHOOSE g : Loop(g)
<1>3. Loop(f)
  <2>1. \A n \in 0..N : f[n] = IF n = 0 THEN <<>>
                               ELSE IF source[n] = Blank THEN f[n - 1]
                               ELSE Append(f[n - 1], source[n])
    <3>1. f[0] = <<>>
      BY DEF Follows
    <3>2. \A n \in 0..N : n # 0 => n \in 1..N
      BY <1>1
    <3> QED
      BY <1>2, <3>1, <3>2
  <2> QED
    BY <2>1
<1>4. Loop(V)
  <2> HIDE DEF Loop
  <2> QED
    BY <1>3
<1>5. Visible(source) = V[N]
  BY DEF Visible
<1>6. \A n \in 0..N : V[n] = IF n = 0 THEN <<>>
                             ELSE IF source[n] = Blank THEN V[n - 1]
                             ELSE Append(V[n - 1], source[n])
  BY <1>4
<1> HIDE DEF V
<1> DEFINE S == {k \in Nat : k <= N => V[k] = f[k]}
<1>7. 0 \in S
  BY <1>1, <1>6 DEF Follows
<1>8. ASSUME NEW k \in S PROVE k + 1 \in S
  <2> SUFFICES ASSUME k + 1 <= N PROVE V[k + 1] = f[k + 1]
    OBVIOUS
  <2>1. k + 1 \in 1..N /\ k + 1 \in 0..N /\ k + 1 # 0 /\ (k + 1) - 1 = k /\ V[k] = f[k]
    BY <1>1
  <2> QED
    BY <1>2, <1>6, <2>1
<1>9. S = Nat
  <2>1. S \in SUBSET Nat
    OBVIOUS
  <2> HIDE DEF S
  <2> QED
    BY <1>7, <1>8, <2>1, SetInduction
<1> QED
  BY <1>1, <1>5, <1>9

\* The loop keeps the messages that are not blank, in their order.
LEMMA VisibleStep ==
  ASSUME NEW source \in Seq(Messages), NEW m \in Messages
  PROVE  /\ Visible(source) \in Seq(Prints)
         /\ Visible(Append(source, m)) = IF m = Blank THEN Visible(source)
                                                     ELSE Append(Visible(source), m)
<1> DEFINE N == Len(source)
           longer == Append(source, m)
<1>1. N \in Nat /\ longer \in Seq(Messages) /\ Len(longer) = N + 1
      /\ longer[N + 1] = m /\ \A n \in 1..N : longer[n] = source[n] /\ source[n] \in Messages
  OBVIOUS
<1>2. PICK f \in [0..N -> Seq(Prints)] : Follows(f, <<>>, Step(source), N)
  <2>1. Step(source) \in [1..N -> [Seq(Prints) -> Seq(Prints)]]
    <3> SUFFICES ASSUME NEW n \in 1..N, NEW kept \in Seq(Prints)
                 PROVE  (IF source[n] = Blank THEN kept ELSE Append(kept, source[n])) \in Seq(Prints)
      BY DEF Step
    <3>1. source[n] = Blank \/ source[n] \in Prints
      BY <1>1, PrintsOfMessages
    <3> QED
      BY <3>1
  <2>2. <<>> \in Seq(Prints)
    OBVIOUS
  <2> QED
    BY <1>1, <2>1, <2>2, StepsExist
<1>3. Visible(source) = f[N] /\ f[N] \in Seq(Prints)
  <2>1. N \in 0..N
    BY <1>1
  <2> QED
    BY <1>2, <2>1, VisibleFollows
<1> DEFINE last == IF m = Blank THEN f[N] ELSE Append(f[N], m)
           h == [n \in 0..N + 1 |-> IF n = N + 1 THEN last ELSE f[n]]
<1>4. last \in Seq(Prints)
  <2>1. m = Blank \/ m \in Prints
    BY PrintsOfMessages
  <2> QED
    BY <1>3, <2>1
<1> HIDE DEF last
<1>5. h \in [0..N + 1 -> Seq(Prints)]
  <2> SUFFICES ASSUME NEW n \in 0..N + 1 PROVE h[n] \in Seq(Prints)
    OBVIOUS
  <2>1. CASE n = N + 1
    BY <1>4, <2>1
  <2>2. CASE n # N + 1
    <3>1. n \in 0..N
      BY <1>1, <2>2
    <3> QED
      BY <2>2, <3>1
  <2> QED
    BY <2>1, <2>2
<1>6. h[0] = <<>> /\ h[N + 1] = last
  BY <1>1, <1>2 DEF Follows
<1>7. ASSUME NEW n \in 1..N + 1 PROVE h[n] = Step(longer)[n][h[n - 1]]
  <2>1. n - 1 \in 0..N /\ n - 1 # N + 1 /\ h[n - 1] = f[n - 1] /\ f[n - 1] \in Seq(Prints)
    <3>1. n - 1 \in 0..N /\ n - 1 # N + 1 /\ n - 1 \in 0..N + 1
      BY <1>1
    <3> QED
      BY <3>1
  <2>2. Step(longer)[n][f[n - 1]] = IF longer[n] = Blank THEN f[n - 1] ELSE Append(f[n - 1], longer[n])
    <3>1. Step(longer)[n] = [kept \in Seq(Prints) |->
                              IF longer[n] = Blank THEN kept ELSE Append(kept, longer[n])]
      <4> HIDE DEF longer
      <4>1. n \in 1..Len(longer)
        BY <1>1
      <4> QED
        BY <4>1 DEF Step
    <3> QED
      BY <2>1, <3>1
  <2>3. CASE n = N + 1
    <3>1. n - 1 = N
      BY <1>1, <2>3
    <3> QED
      BY <1>1, <1>6, <2>1, <2>2, <2>3, <3>1 DEF last
  <2>4. CASE n # N + 1
    <3>1. n \in 1..N /\ h[n] = f[n]
      BY <1>1, <2>4
    <3>2. f[n] = Step(source)[n][f[n - 1]]
      BY <1>2, <3>1 DEF Follows
    <3>3. Step(source)[n] = [kept \in Seq(Prints) |->
                              IF source[n] = Blank THEN kept ELSE Append(kept, source[n])]
      BY <3>1 DEF Step
    <3>4. longer[n] = source[n]
      BY <1>1, <3>1
    <3>5. f[n] = IF source[n] = Blank THEN f[n - 1] ELSE Append(f[n - 1], source[n])
      BY <2>1, <3>2, <3>3
    <3> QED
      BY <2>1, <2>2, <3>1, <3>4, <3>5
  <2> QED
    BY <2>3, <2>4
<1>8. Visible(longer) = h[N + 1]
  <2>1. Follows(h, <<>>, Step(longer), N + 1)
    <3> HIDE DEF h, longer
    <3> QED
      BY <1>6, <1>7 DEF Follows
  <2> HIDE DEF h, longer
  <2> QED
    BY <1>1, <1>5, <2>1, VisibleFollows
<1> QED
  BY <1>3, <1>6, <1>8 DEF last

LEMMA VisibleEmpty == Visible(<<>>) = <<>>
<1> DEFINE f == [n \in 0..0 |-> <<>>]
<1>1. f \in [0..0 -> Seq(Prints)] /\ f[0] = <<>>
  OBVIOUS
<1>2. <<>> \in Seq(Messages) /\ Len(<<>>) = 0
  OBVIOUS
<1>3. Follows(f, <<>>, Step(<<>>), 0)
  BY <1>1 DEF Follows
<1> HIDE DEF f
<1> QED
  BY <1>1, <1>2, <1>3, VisibleFollows

-----------------------------------------------------------------------------
(* Counting messages *)

Count(items, p, from) == Cardinality({i \in from..Len(items) : items[i] = p})

LEMMA CountNat ==
  ASSUME NEW items, NEW p, NEW from \in Int, Len(items) \in Int
  PROVE  /\ IsFiniteSet({i \in from..Len(items) : items[i] = p})
         /\ Count(items, p, from) \in Nat
<1>1. IsFiniteSet(from..Len(items))
  BY FS_Interval
<1>2. {i \in from..Len(items) : items[i] = p} \in SUBSET (from..Len(items))
  OBVIOUS
<1>3. IsFiniteSet({i \in from..Len(items) : items[i] = p})
  BY <1>1, <1>2, FS_Subset
<1> QED
  BY <1>3, FS_CardinalityType DEF Count

LEMMA CountAppend ==
  ASSUME NEW S, NEW items \in Seq(S), NEW m \in S, NEW p, NEW from \in 1..Len(items) + 1
  PROVE  Count(Append(items, m), p, from) = Count(items, p, from) + IF m = p THEN 1 ELSE 0
<1> DEFINE N == Len(items)
           longer == Append(items, m)
           Old == {i \in from..N : items[i] = p}
           New == {i \in from..Len(longer) : longer[i] = p}
<1>1. N \in Nat /\ Len(longer) = N + 1 /\ longer[N + 1] = m /\ \A i \in 1..N : longer[i] = items[i]
  OBVIOUS
<1>2. IsFiniteSet(Old) /\ Cardinality(Old) \in Nat
  <2>1. from \in Int /\ Len(items) \in Int
    BY <1>1
  <2>2. IsFiniteSet(Old) /\ Count(items, p, from) \in Nat
    BY <2>1, CountNat
  <2> QED
    BY <2>2 DEF Count
<1>3. New = IF m = p THEN Old \union {N + 1} ELSE Old
  <2> HIDE DEF longer
  <2> QED
    BY <1>1
<1>4. N + 1 \notin Old
  BY <1>1
<1> HIDE DEF Old, New
<1>5. Cardinality(New) = Cardinality(Old) + IF m = p THEN 1 ELSE 0
  <2>1. CASE m = p
    BY <1>2, <1>3, <1>4, <2>1, FS_AddElement
  <2>2. CASE m # p
    BY <1>2, <1>3, <2>2
  <2> QED
    BY <2>1, <2>2
<1> QED
  BY <1>5 DEF Count, Old, New

LEMMA CountEmpty == \A p : Count(<<>>, p, 1) = 0
<1>1. \A p : {i \in 1..Len(<<>>) : <<>>[i] = p} = {}
  OBVIOUS
<1> QED
  BY <1>1, FS_EmptySet DEF Count

\* A sequence is empty or ends in a message.
LEMMA LastSplit ==
  ASSUME NEW S, NEW items \in Seq(S), items # <<>>
  PROVE  \E front \in Seq(S), m \in S :
           items = Append(front, m) /\ Len(front) = Len(items) - 1
<1>1. PICK front \in Seq(S), m \in S : items = Append(front, m)
  BY SequenceEmptyOrAppend
<1>2. Len(front) = Len(items) - 1
  BY <1>1
<1> QED
  BY <1>1, <1>2

\* Nothing but blank messages is dropped.
LEMMA VisibleKeeps ==
  ASSUME NEW source \in Seq(Messages)
  PROVE  /\ Visible(source) \in Seq(Prints)
         /\ Len(Visible(source)) \in 0..Len(source)
         /\ \A p \in Prints : Count(Visible(source), p, 1) = Count(source, p, 1)
         /\ \A p \in Prints : Mentions(Visible(source), p) <=> Mentions(source, p)
<1> DEFINE Kept(s) == /\ Visible(s) \in Seq(Prints)
                      /\ Len(Visible(s)) \in 0..Len(s)
                      /\ \A p \in Prints : Count(Visible(s), p, 1) = Count(s, p, 1)
                      /\ \A p \in Prints : Mentions(Visible(s), p) <=> Mentions(s, p)
           K == {k \in Nat : \A s \in Seq(Messages) : Len(s) = k => Kept(s)}
<1>1. 0 \in K
  <2> SUFFICES ASSUME NEW s \in Seq(Messages), Len(s) = 0 PROVE Kept(s)
    OBVIOUS
  <2>1. s = <<>> /\ Visible(s) = <<>>
    BY VisibleEmpty
  <2>2. <<>> \in Seq(Prints) /\ Len(<<>>) = 0
    OBVIOUS
  <2>3. Len(<<>>) \in 0..Len(<<>>)
    BY <2>2
  <2>4. Kept(<<>>)
    <3>1. \A v : v = <<>> => /\ v \in Seq(Prints) /\ Len(v) \in 0..Len(<<>>)
                             /\ \A p \in Prints : Count(v, p, 1) = Count(<<>>, p, 1)
                             /\ \A p \in Prints : Mentions(v, p) <=> Mentions(<<>>, p)
      BY <2>2, <2>3, Zenon
    <3> QED
      BY <3>1, VisibleEmpty, Zenon
  <2> QED
    BY <2>1, <2>4, Zenon
<1>2. ASSUME NEW k \in K PROVE k + 1 \in K
  <2> SUFFICES ASSUME NEW s \in Seq(Messages), Len(s) = k + 1 PROVE Kept(s)
    OBVIOUS
  <2>1. PICK front \in Seq(Messages), m \in Messages : s = Append(front, m) /\ Len(front) = k
    <3>1. s # <<>> /\ Len(s) - 1 = k
      OBVIOUS
    <3> QED
      BY <3>1, LastSplit
  <2>2. Kept(front)
    BY <2>1
  <2>3. Visible(s) = IF m = Blank THEN Visible(front) ELSE Append(Visible(front), m)
    BY <2>1, VisibleStep
  <2> HIDE DEF K
  <2>4. k \in Nat /\ Len(Visible(front)) \in Nat
    BY <2>1, <2>2
  <2>5. ASSUME NEW p \in Prints
        PROVE  /\ Count(s, p, 1) = Count(front, p, 1) + IF m = p THEN 1 ELSE 0
               /\ Mentions(s, p) <=> Mentions(front, p) \/ m = p
    <3>1. 1 \in 1..Len(front) + 1
      BY <2>1, <2>4
    <3>2. Count(s, p, 1) = Count(front, p, 1) + IF m = p THEN 1 ELSE 0
      BY <2>1, <3>1, CountAppend
    <3>3. /\ Len(s) = k + 1 /\ s[k + 1] = m
          /\ \A i \in 1..k : s[i] = front[i]
      BY <2>1
    <3>4. Mentions(s, p) <=> Mentions(front, p) \/ m = p
      BY <2>1, <2>4, <3>3 DEF Mentions
    <3> QED
      BY <3>2, <3>4
  <2>6. CASE m = Blank
    <3>1. \A p \in Prints : m # p
      BY <2>6, PrintsOfMessages
    <3>2. \A p \in Prints : Count(front, p, 1) \in Nat
      <4>1. 1 \in Int /\ Len(front) \in Int
        BY <2>1, <2>4
      <4> QED
        BY <4>1, CountNat
    <3>3. \A p \in Prints : Count(s, p, 1) = Count(front, p, 1) /\ (Mentions(s, p) <=> Mentions(front, p))
      BY <2>5, <3>1, <3>2
    <3> QED
      BY <2>1, <2>2, <2>3, <2>4, <2>6, <3>3
  <2>7. CASE m # Blank
    <3>1. m \in Prints /\ Visible(s) = Append(Visible(front), m)
      BY <2>3, <2>7, PrintsOfMessages
    <3>2. /\ Visible(s) \in Seq(Prints) /\ Len(Visible(s)) = Len(Visible(front)) + 1
          /\ Visible(s)[Len(Visible(front)) + 1] = m
          /\ \A i \in 1..Len(Visible(front)) : Visible(s)[i] = Visible(front)[i]
      BY <2>2, <3>1
    <3>3. ASSUME NEW p \in Prints
          PROVE  /\ Count(Visible(s), p, 1) = Count(s, p, 1)
                 /\ Mentions(Visible(s), p) <=> Mentions(s, p)
      <4>1. 1 \in 1..Len(Visible(front)) + 1
        BY <2>4
      <4>2. Count(Visible(s), p, 1) = Count(Visible(front), p, 1) + IF m = p THEN 1 ELSE 0
        BY <2>2, <3>1, <4>1, CountAppend
      <4>3. Mentions(Visible(s), p) <=> Mentions(Visible(front), p) \/ m = p
        BY <2>4, <3>2 DEF Mentions
      <4> QED
        BY <2>2, <2>5, <4>2, <4>3
    <3> QED
      BY <2>1, <2>2, <2>4, <3>2, <3>3
  <2> QED
    BY <2>6, <2>7
<1>3. K = Nat
  <2>1. K \in SUBSET Nat
    OBVIOUS
  <2> HIDE DEF K
  <2> QED
    BY <1>1, <1>2, <2>1, SetInduction
<1>4. Len(source) \in K
  BY <1>3
<1> QED
  BY <1>4

-----------------------------------------------------------------------------
(* The store *)

\* The store of Provider and the one of the proofs are the same.
LEMMA SameCounts ==
  /\ \A S : Store!Cardinality(S) = Cardinality(S) /\ Proved!Cardinality(S) = Cardinality(S)
  /\ \A items, p, from, to : Store!Positions(items, p, from, to) = Proved!Positions(items, p, from, to)
  /\ \A items, p : Store!Copies(items, p) = Proved!Copies(items, p)
  /\ \A items, p : Store!Copies(items, p) = Count(items, p, 1)
<1>1. \A S : Store!Cardinality(S) = Cardinality(S) /\ Proved!Cardinality(S) = Cardinality(S)
  BY DEF Store!Cardinality, Proved!Cardinality, Cardinality,
         Store!IsFiniteSet, Proved!IsFiniteSet, IsFiniteSet
<1>2. \A items, p, from, to :
        Store!Positions(items, p, from, to) = Proved!Positions(items, p, from, to)
  BY DEF Store!Positions, Proved!Positions
<1>3. \A items, p : Store!Copies(items, p) = Proved!Copies(items, p)
  BY <1>1, <1>2 DEF Store!Copies, Proved!Copies
<1>4. \A items, p : Store!Copies(items, p) = Count(items, p, 1)
  BY <1>1 DEF Store!Copies, Store!Positions, Count
<1> QED
  BY <1>1, <1>2, <1>3, <1>4

LEMMA SameAlignment ==
  /\ \A a, b, n : Store!Aligned(a, b, n) <=> Proved!Aligned(a, b, n)
  /\ \A a, b : Store!Overlap(a, b) = Proved!Overlap(a, b)
  /\ \A k, p, o : Store!RecordId(k, p, o) = Proved!RecordId(k, p, o)
<1>1. \A a, b, n : Store!Aligned(a, b, n) <=> Proved!Aligned(a, b, n)
  BY DEF Store!Aligned, Proved!Aligned
<1>2. \A a, b : Store!Overlap(a, b) = Proved!Overlap(a, b)
  BY DEF Store!Aligned, Proved!Aligned, Store!Overlap, Proved!Overlap
<1>3. \A k, p, o : Store!RecordId(k, p, o) = Proved!RecordId(k, p, o)
  BY DEF Store!RecordId, Proved!RecordId
<1> QED
  BY <1>1, <1>2, <1>3

LEMMA SameSets ==
  /\ Store!SnapshotIds = Proved!SnapshotIds /\ Store!Entries = Proved!Entries
  /\ Store!Snapshots = Proved!Snapshots /\ Store!NoRequest = Proved!NoRequest
BY DEF Store!SnapshotIds, Proved!SnapshotIds, Store!Entries, Proved!Entries,
       Store!Snapshots, Proved!Snapshots, Store!NoRequest, Proved!NoRequest

LEMMA SameInvariant == (Store!IInv <=> Proved!IInv) /\ (Store!IInv' <=> Proved!IInv')
<1>1. Store!IInv <=> Proved!IInv
  BY SameAlignment, SameSets
     DEF Store!IInv, Proved!IInv, Store!TypeOK, Proved!TypeOK, Store!StateBacked, Proved!StateBacked,
         Store!RepetitionsDistinct, Proved!RepetitionsDistinct, Store!OccurrencesDense,
         Proved!OccurrencesDense, Store!PromisesCounted, Proved!PromisesCounted
<1>2. Store!IInv' <=> Proved!IInv'
  BY SameAlignment, SameSets
     DEF Store!IInv, Proved!IInv, Store!TypeOK, Proved!TypeOK, Store!StateBacked, Proved!StateBacked,
         Store!RepetitionsDistinct, Proved!RepetitionsDistinct, Store!OccurrencesDense,
         Proved!OccurrencesDense, Store!PromisesCounted, Proved!PromisesCounted
<1> QED
  BY <1>1, <1>2

LEMMA SameOperations ==
  /\ \A k, items : Store!IngestSnapshot(k, items) <=> Proved!IngestSnapshot(k, items)
  /\ \A ids : Store!Ingest(ids) <=> Proved!Ingest(ids)
<1>1. \A k, items : Store!IngestSnapshot(k, items) <=> Proved!IngestSnapshot(k, items)
  BY SameCounts, SameAlignment
     DEF Store!IngestSnapshot, Proved!IngestSnapshot, Store!Inserted, Proved!Inserted,
         Store!NewId, Proved!NewId, Store!NewState, Proved!NewState, Store!KeptId, Proved!KeptId,
         Store!NewCounters, Proved!NewCounters, Store!Promise, Proved!Promise,
         Store!Occurrence, Proved!Occurrence
<1>2. \A ids : Store!Ingest(ids) <=> Proved!Ingest(ids)
  BY SameSets DEF Store!Ingest, Proved!Ingest
<1> QED
  BY <1>1, <1>2

\* No id that a run of ingest brings is one of a snapshot record.
LEMMA IdsForeign == \A id \in Ids : id \notin Store!SnapshotIds
<1> SUFFICES ASSUME NEW id \in Ids, id \in Store!SnapshotIds PROVE FALSE
  OBVIOUS
<1>1. CASE id \in Events
  BY <1>1, EventsAssumption
<1>2. CASE id \notin Events
  <2>1. PICK t \in Transcripts : id = [checkpoint |-> t]
    BY <1>2 DEF Ids, CheckpointId
  <2>2. DOMAIN id = {"checkpoint"}
    BY <2>1
  <2>3. DOMAIN id = {"key", "print", "occurrence"}
    BY DEF Store!SnapshotIds
  <2> QED
    BY <2>2, <2>3
<1> QED
  BY <1>1, <1>2

\* The instance meets the assumptions of SnapshotStore.
LEMMA StoreAssumptions ==
  /\ Proved!BoundsAssumption /\ Proved!NoKeyAssumption
  /\ Proved!BatchesAssumption /\ Proved!ForeignAssumption
<1>1. Proved!BoundsAssumption
  BY BoundsAssumption DEF Proved!BoundsAssumption
<1>2. Proved!NoKeyAssumption
  BY SessionAssumption DEF Proved!NoKeyAssumption
<1>3. Proved!BatchesAssumption
  BY DEF Proved!BatchesAssumption
<1>4. Proved!ForeignAssumption
  BY IdsForeign, SameSets DEF Proved!ForeignAssumption
<1> QED
  BY <1>1, <1>2, <1>3, <1>4

\* A later range holds no more, and no range holds more than its length.
LEMMA CountSuffix ==
  ASSUME NEW items, NEW p, NEW from \in Nat \ {0}, Len(items) \in Nat
  PROVE  /\ Count(items, p, from) \in Nat /\ Count(items, p, 1) \in Nat
         /\ Count(items, p, from) <= Count(items, p, 1)
         /\ Count(items, p, 1) <= Len(items)
<1> DEFINE All == {i \in 1..Len(items) : items[i] = p}
           Late == {i \in from..Len(items) : items[i] = p}
<1>1. IsFiniteSet(All) /\ Count(items, p, 1) \in Nat
  <2>1. 1 \in Int /\ Len(items) \in Int
    OBVIOUS
  <2> QED
    BY <2>1, CountNat
<1>2. Count(items, p, from) \in Nat
  <2>1. from \in Int /\ Len(items) \in Int
    OBVIOUS
  <2> QED
    BY <2>1, CountNat
<1>3. Late \in SUBSET All
  OBVIOUS
<1>4. Cardinality(Late) <= Cardinality(All)
  <2> HIDE DEF Late, All
  <2> QED
    BY <1>1, <1>3, FS_Subset DEF All
<1>5. IsFiniteSet(1..Len(items)) /\ Cardinality(1..Len(items)) = Len(items)
  <2>1. /\ IsFiniteSet(1..Len(items))
        /\ Cardinality(1..Len(items)) = IF 1 > Len(items) THEN 0 ELSE Len(items) - 1 + 1
    <3>1. 1 \in Int /\ Len(items) \in Int
      OBVIOUS
    <3> QED
      BY <3>1, FS_Interval
  <2> QED
    BY <2>1
<1>6. All \in SUBSET (1..Len(items))
  OBVIOUS
<1>7. Cardinality(All) <= Len(items)
  <2> HIDE DEF All
  <2> QED
    BY <1>5, <1>6, FS_Subset
<1> QED
  BY <1>1, <1>2, <1>4, <1>7 DEF Count

\* What an invariant of the store says of the session.
LEMMA StoreTyped ==
  ASSUME Store!IInv
  PROVE  /\ state[Session] \in Seq(Store!Entries) /\ Len(state[Session]) \in Nat
         /\ \A p \in Prints : counters[Session][p] \in Nat
         /\ records \subseteq Store!SnapshotIds \union Ids
BY DEF Store!IInv, Store!TypeOK, Prints

\* What one snapshot of the session does.
LEMMA SnapshotCommitted ==
  ASSUME Store!IInv, NEW items \in Store!Snapshots, Store!IngestSnapshot(Session, items),
         NEW overlap, overlap = Store!Overlap(state[Session], items)
  PROVE  /\ Store!IInv'
         /\ items \in Seq(Prints) /\ Len(items) \in 0..MaxMessages
         /\ records \subseteq records'
         /\ \A id \in Ids : id \in records' => id \in records
         /\ overlap \in 0..Len(items) /\ Store!Aligned(state[Session], items, overlap)
         /\ \A m \in 0..Len(items) : Store!Aligned(state[Session], items, m) => m <= overlap
         /\ Len(state'[Session]) = Len(items)
         /\ \A i \in 1..Len(items) : state'[Session][i].print = items[i]
         /\ \A p \in Prints :
              /\ counters[Session][p] \in Nat /\ counters'[Session][p] \in Nat
              /\ counters'[Session][p] = counters[Session][p] + Count(items, p, overlap + 1)
              /\ Count(items, p, overlap + 1) \in Nat
              /\ Count(items, p, 1) \in Nat /\ Count(items, p, 1) <= Len(items)
              /\ Count(items, p, overlap + 1) <= Count(items, p, 1)
              /\ Count(items, p, 1) <= counters'[Session][p]
              /\ \A o \in 0 .. Count(items, p, 1) - 1 : Store!RecordId(Session, p, o) \in records'
<1>1. /\ Proved!IInv /\ items \in Proved!Snapshots /\ Proved!IngestSnapshot(Session, items)
      /\ overlap = Proved!Overlap(state[Session], items) /\ Session \in {Session}
  BY SameInvariant, SameSets, SameOperations, SameAlignment
<1>2. Store!IInv'
  <2>1. Proved!TypeOK'
    BY <1>1, StoreAssumptions, Proved!SnapshotType
  <2>2. Proved!StateBacked'
    BY <1>1, StoreAssumptions, Proved!SnapshotBacked
  <2>3. Proved!RepetitionsDistinct'
    BY <1>1, StoreAssumptions, Proved!SnapshotDistinct
  <2>4. Proved!OccurrencesDense'
    BY <1>1, StoreAssumptions, Proved!SnapshotDense
  <2>5. Proved!PromisesCounted'
    BY <1>1, StoreAssumptions, Proved!SnapshotCounted
  <2> QED
    BY <2>1, <2>2, <2>3, <2>4, <2>5, SameInvariant DEF Proved!IInv
<1>3. items \in Seq(Prints) /\ Len(items) \in 0..MaxMessages /\ Len(items) \in Nat
  <2>1. items \in Seq(Prints) /\ Len(items) \in 0..MaxMessages
    BY <1>1, StoreAssumptions, Proved!SnapshotIsSeq DEF Prints
  <2> QED
    BY <2>1, BoundsAssumption
<1>4. /\ overlap \in 0..Len(items) /\ Store!Aligned(state[Session], items, overlap)
      /\ \A m \in 0..Len(items) : Store!Aligned(state[Session], items, m) => m <= overlap
  <2>1. state[Session] \in Seq(Store!Entries)
    BY StoreTyped
  <2> QED
    BY <1>1, <1>3, <2>1, StoreAssumptions, SameAlignment, Proved!OverlapLongest
<1>5. /\ records' = records \union Store!Inserted(Session, items, overlap)
      /\ counters' = [counters EXCEPT ![Session] = Store!NewCounters(Session, items, overlap)]
      /\ state' = [state EXCEPT ![Session] = Store!NewState(Session, items, overlap)]
  BY DEF Store!IngestSnapshot
<1>6. records \subseteq records'
  BY <1>5
<1>7. \A id \in Ids : id \in records' => id \in records
  <2>1. \A i \in overlap + 1 .. Len(items) :
          Proved!NewId(Session, items, overlap, i) \in Store!SnapshotIds
    BY <1>1, StoreAssumptions, SameSets, Proved!SnapshotEffect
  <2>2. \A i : Proved!NewId(Session, items, overlap, i) = Store!NewId(Session, items, overlap, i)
    BY SameCounts, SameAlignment
       DEF Store!NewId, Proved!NewId, Store!Occurrence, Proved!Occurrence
  <2>3. Store!Inserted(Session, items, overlap) \subseteq Store!SnapshotIds
    BY <2>1, <2>2 DEF Store!Inserted
  <2> QED
    BY <1>5, <2>3, IdsForeign
<1>8. state'[Session] = Store!NewState(Session, items, overlap)
  <2>1. Session \in DOMAIN state
    BY DEF Store!IInv, Store!TypeOK
  <2> QED
    BY <1>5, <2>1
<1>9. Len(state'[Session]) = Len(items) /\ \A i \in 1..Len(items) : state'[Session][i].print = items[i]
  <2>1. Len(state'[Session]) = Len(items)
    BY <1>1, StoreAssumptions, Proved!SnapshotEffect
  <2>2. \A i \in 1..Len(items) : state'[Session][i].print = items[i]
    BY <1>8 DEF Store!NewState
  <2> QED
    BY <2>1, <2>2
<1>10. ASSUME NEW p \in Prints
       PROVE  /\ counters[Session][p] \in Nat /\ counters'[Session][p] \in Nat
              /\ counters'[Session][p] = counters[Session][p] + Count(items, p, overlap + 1)
              /\ Count(items, p, overlap + 1) \in Nat
              /\ Count(items, p, 1) \in Nat /\ Count(items, p, 1) <= Len(items)
              /\ Count(items, p, overlap + 1) <= Count(items, p, 1)
              /\ Count(items, p, 1) <= counters'[Session][p]
              /\ \A o \in 0 .. Count(items, p, 1) - 1 : Store!RecordId(Session, p, o) \in records'
  <2>1. counters[Session][p] \in Nat
    BY StoreTyped
  <2>2. /\ Count(items, p, overlap + 1) \in Nat
        /\ Count(items, p, 1) \in Nat /\ Count(items, p, 1) <= Len(items)
        /\ Count(items, p, overlap + 1) <= Count(items, p, 1)
    <3>1. overlap + 1 \in Nat \ {0}
      BY <1>3, <1>4
    <3> QED
      BY <1>3, <3>1, CountSuffix
  <2>3. counters'[Session][p] = counters[Session][p] + Count(items, p, overlap + 1)
    <3>1. Session \in DOMAIN counters /\ p \in Contents \union Summaries
      BY DEF Store!IInv, Store!TypeOK, Prints
    <3>2. counters'[Session] = Store!NewCounters(Session, items, overlap)
      BY <1>5, <3>1
    <3>3. Store!Cardinality(Store!Positions(items, p, overlap + 1, Len(items)))
            = Count(items, p, overlap + 1)
      BY SameCounts DEF Store!Positions, Count
    <3> QED
      BY <3>1, <3>2, <3>3 DEF Store!NewCounters
  <2>4. promised'[Session][p] \in Nat /\ Count(items, p, 1) <= promised'[Session][p]
    <3>1. Session \in DOMAIN promised /\ p \in Contents \union Summaries
          /\ promised[Session][p] \in Nat
      BY DEF Store!IInv, Store!TypeOK, Prints
    <3>2. promised' = [promised EXCEPT ![Session] = Store!Promise(Session, items)]
      BY DEF Store!IngestSnapshot
    <3>3. promised'[Session] = Store!Promise(Session, items)
      BY <3>1, <3>2
    <3>4. promised'[Session][p] = IF promised[Session][p] < Count(items, p, 1)
                                  THEN Count(items, p, 1) ELSE promised[Session][p]
      BY <3>1, <3>3, SameCounts DEF Store!Promise
    <3> QED
      BY <2>2, <3>1, <3>4
  <2>5. promised'[Session][p] <= counters'[Session][p]
    BY <1>2 DEF Store!IInv, Store!PromisesCounted, Prints
  <2>6. counters'[Session][p] \in Nat
    BY <2>1, <2>2, <2>3
  <2>7. Count(items, p, 1) <= counters'[Session][p]
    BY <2>2, <2>4, <2>5, <2>6
  <2>8. \A o \in 0 .. counters'[Session][p] - 1 : Store!RecordId(Session, p, o) \in records'
    BY <1>2 DEF Store!IInv, Store!OccurrencesDense, Prints
  <2>9. \A o \in 0 .. Count(items, p, 1) - 1 : o \in 0 .. counters'[Session][p] - 1
    BY <2>2, <2>6, <2>7
  <2> QED
    BY <2>1, <2>2, <2>3, <2>6, <2>7, <2>8, <2>9
<1> QED
  BY <1>2, <1>3, <1>4, <1>6, <1>7, <1>9, <1>10

\* What one run of ingest does.
LEMMA RecordCommitted ==
  ASSUME Store!IInv, NEW id \in Ids, Store!Ingest({id})
  PROVE  /\ Store!IInv'
         /\ records' = records \union {id} /\ UNCHANGED <<state, counters, promised>>
<1>1. records' = records \union {id} /\ UNCHANGED <<state, counters, promised>>
      /\ request' = Store!NoRequest
  BY DEF Store!Ingest
<1>2. Store!TypeOK'
  BY <1>1 DEF Store!IInv, Store!TypeOK
<1>3. Store!StateBacked' /\ Store!RepetitionsDistinct'
  BY <1>1 DEF Store!IInv, Store!StateBacked, Store!RepetitionsDistinct
<1>4. Store!OccurrencesDense' /\ Store!PromisesCounted'
  BY <1>1 DEF Store!IInv, Store!OccurrencesDense, Store!PromisesCounted
<1> QED
  BY <1>1, <1>2, <1>3, <1>4 DEF Store!IInv

-----------------------------------------------------------------------------
(* What the calls and the orphans have still to do *)

\* The runs that are planned for a conversation, and what they carry.
LEMMA RunsPlanned ==
  ASSUME NEW source \in Seq(Messages), Len(source) <= MaxMessages
  PROVE  /\ Visible(source) \in Store!Snapshots
         /\ CheckpointId(source) \in Ids /\ CheckpointId(source).checkpoint = source
         /\ SnapshotRun(source) \in Seq(Runs)
         /\ Visible(source) = <<>> => SnapshotRun(source) = <<>>
         /\ Visible(source) # <<>> =>
              SnapshotRun(source) = <<[command |-> "snapshot", items |-> Visible(source)]>>
         /\ RecordRun(CheckpointId(source)) \in Runs
         /\ CheckpointRuns(source) \in Seq(Runs)
         /\ Visible(source) = <<>> => CheckpointRuns(source) = <<RecordRun(CheckpointId(source))>>
         /\ Visible(source) # <<>> =>
              CheckpointRuns(source) = <<[command |-> "snapshot", items |-> Visible(source)],
                                         RecordRun(CheckpointId(source))>>
<1>1. Visible(source) \in Seq(Prints) /\ Len(Visible(source)) \in 0..MaxMessages
  <2>1. Visible(source) \in Seq(Prints) /\ Len(Visible(source)) \in 0..Len(source)
    BY VisibleKeeps
  <2> QED
    BY <2>1, BoundsAssumption
<1>2. Visible(source) \in Store!Snapshots
  <2>1. Visible(source) \in [1..Len(Visible(source)) -> Prints]
    BY <1>1
  <2> QED
    BY <1>1, <2>1 DEF Store!Snapshots, Prints
<1>3. CheckpointId(source) \in Ids /\ CheckpointId(source).checkpoint = source
  <2>1. source \in [1..Len(source) -> Messages] /\ Len(source) \in 0..MaxMessages
    BY BoundsAssumption
  <2> QED
    BY <2>1 DEF Ids, Transcripts, CheckpointId
<1>4. RecordRun(CheckpointId(source)) \in Runs
  BY <1>3 DEF RecordRun, Runs
<1>5. [command |-> "snapshot", items |-> Visible(source)] \in Runs
  BY <1>1 DEF Runs, Prints
<1>6. SnapshotRun(source) \in Seq(Runs)
  BY <1>5 DEF SnapshotRun
<1> DEFINE mark == RecordRun(CheckpointId(source))
           shot == [command |-> "snapshot", items |-> Visible(source)]
<1>7. CheckpointRuns(source) = SnapshotRun(source) \o <<mark>>
  BY DEF CheckpointRuns
<1>8. SnapshotRun(source) = IF Visible(source) = <<>> THEN <<>> ELSE <<shot>>
  BY DEF SnapshotRun
<1> HIDE DEF mark, shot
<1>9. <<>> \o <<mark>> = <<mark>> /\ <<shot>> \o <<mark>> = <<shot, mark>>
  <2>1. \A T, a, b : a \in T /\ b \in T => <<>> \o <<a>> = <<a>> /\ <<a>> \o <<b>> = <<a, b>>
    <3> SUFFICES ASSUME NEW T, NEW a \in T, NEW b \in T
                 PROVE  <<>> \o <<a>> = <<a>> /\ <<a>> \o <<b>> = <<a, b>>
      OBVIOUS
    <3>1. <<a>> \in Seq(T) /\ <<b>> \in Seq(T)
      OBVIOUS
    <3>2. <<>> \o <<a>> = <<a>>
      BY <3>1, ConcatEmptySeq
    <3>3. <<a>> \o <<b>> = <<a, b>>
      <4>1. Append(<<a>>, b) = <<a>> \o <<b>>
        BY <3>1, AppendIsConcat
      <4>2. Append(<<a>>, b) = <<a, b>>
        <5> DEFINE long == Append(<<a>>, b)
        <5>1. long \in Seq(T) /\ Len(long) = 2 /\ long[1] = a /\ long[2] = b
          BY <3>1
        <5>2. <<a, b>> \in Seq(T) /\ Len(<<a, b>>) = 2 /\ <<a, b>>[1] = a /\ <<a, b>>[2] = b
          OBVIOUS
        <5> HIDE DEF long
        <5>3. \A i \in 1..2 : long[i] = <<a, b>>[i]
          <6>1. \A i \in 1..2 : i = 1 \/ i = 2
            OBVIOUS
          <6> QED
            BY <5>1, <5>2, <6>1
        <5>4. long = <<a, b>>
          BY <5>1, <5>2, <5>3, SeqEqual
        <5> QED
          BY <5>4 DEF long
      <4> QED
        BY <4>1, <4>2
    <3> QED
      BY <3>2, <3>3
  <2>2. mark \in {mark, shot} /\ shot \in {mark, shot}
    OBVIOUS
  <2> QED
    BY <2>1, <2>2
<1>10. CheckpointRuns(source) \in Seq(Runs)
  <2>1. <<mark>> \in Seq(Runs)
    BY <1>4 DEF mark
  <2> QED
    BY <1>6, <1>7, <2>1
<1>11. CheckpointRuns(source) = IF Visible(source) = <<>> THEN <<mark>> ELSE <<shot, mark>>
  BY <1>7, <1>8, <1>9
<1> QED
  BY <1>2, <1>3, <1>4, <1>6, <1>8, <1>10, <1>11 DEF mark, shot

\* Stored, and the parts of the invariant that speak of it, over explicit values.
Holds(recs, t) ==
  \A p \in Prints : \A o \in 0 .. Count(t, p, 1) - 1 : Store!RecordId(Session, p, o) \in recs
Vouched(recs) == \A id \in recs : id \in Ids \ Events => Holds(recs, id.checkpoint)
Durable(c, m, recs) ==
  c.purpose = "compress" /\ c.outcome = "returned" =>
    Holds(recs, m) /\ CheckpointId(m) \in recs
Finished(ch) == ch \in {"committed", "succeeded"}
Underway(c, m, ch, recs) ==
  c.purpose = "compress" /\ c.outcome = "pending" =>
    /\ Finished(ch) \/ Head(c.todo).command = "ingest" => Holds(recs, m)
    /\ Finished(ch) /\ Head(c.todo).command = "ingest" => CheckpointId(m) \in recs
Left(left, recs) ==
  \A run \in left :
    /\ run.command = "snapshot" => run.items \in Store!Snapshots
    /\ run.command = "ingest" /\ run.id \notin Events => Holds(recs, run.id.checkpoint)
Plan(c, m) ==
  /\ c.purpose = "none" <=> c.outcome = "idle"
  /\ c.purpose # "turn" => c.said = <<>>
  /\ c.purpose = "turn" /\ c.outcome = "pending" =>
       \E items \in Store!Snapshots : c.todo = <<[command |-> "snapshot", items |-> items]>>
  /\ c.purpose = "event" /\ c.outcome = "pending" => \E e \in Events : c.todo = <<RecordRun(e)>>
  /\ c.purpose = "compress" /\ c.outcome = "pending" =>
       c.todo \in {CheckpointRuns(m), <<RecordRun(CheckpointId(m))>>}

LEMMA OverValues ==
  /\ CheckpointBacked <=> Vouched(records)
  /\ CheckpointBacked' <=> Vouched(records')
  /\ ContextMeansDurable <=> Durable(call, messages, records)
  /\ ContextMeansDurable' <=> Durable(call', messages', records')
  /\ Backed <=> Underway(call, messages, child, records) /\ Left(RunsLeft, records)
  /\ Backed' <=> Underway(call', messages', child', records') /\ Left(RunsLeft', records')
  /\ Planned <=> Plan(call, messages)
  /\ Planned' <=> Plan(call', messages')
<1>1. /\ CheckpointBacked <=> Vouched(records)
      /\ CheckpointBacked' <=> Vouched(records')
  BY SameCounts DEF CheckpointBacked, Vouched, Stored, Holds, Prints
<1>2. /\ ContextMeansDurable <=> Durable(call, messages, records)
      /\ ContextMeansDurable' <=> Durable(call', messages', records')
  BY SameCounts DEF ContextMeansDurable, Durable, Stored, Holds, Prints, CheckpointId
<1>3. /\ Backed <=> Underway(call, messages, child, records) /\ Left(RunsLeft, records)
      /\ Backed' <=> Underway(call', messages', child', records') /\ Left(RunsLeft', records')
  BY SameCounts DEF Backed, Underway, Left, Stored, Holds, Prints, Pending, Done, Finished, CheckpointId
<1>4. /\ Planned <=> Plan(call, messages)
      /\ Planned' <=> Plan(call', messages')
  <2>1. Planned <=> Plan(call, messages)
    BY DEF Planned, Plan, Pending
  <2>2. Planned' <=> Plan(call', messages')
    BY DEF Planned, Plan, Pending
  <2> QED
    BY <2>1, <2>2
<1> QED
  BY <1>1, <1>2, <1>3, <1>4

\* Records are never taken away, and what was stored stays so.
LEMMA HoldsGrows ==
  ASSUME NEW old, NEW new, old \subseteq new, NEW t, Holds(old, t)
  PROVE  Holds(new, t)
BY DEF Holds

-----------------------------------------------------------------------------
(* The core of the invariant *)

Core == TypeOK /\ Store!IInv /\ Planned /\ Backed /\ CheckpointBacked /\ ContextMeansDurable

\* The same, each part once.
LEMMA CoreParts ==
  ASSUME Core
  PROVE  /\ TypeOK /\ Store!IInv /\ Plan(call, messages)
         /\ Underway(call, messages, child, records) /\ Left(RunsLeft, records)
         /\ Vouched(records) /\ Durable(call, messages, records)
BY OverValues DEF Core

LEMMA CoreFromParts ==
  ASSUME TypeOK', Store!IInv', Plan(call', messages'),
         Underway(call', messages', child', records'), Left(RunsLeft', records'),
         Vouched(records'), Durable(call', messages', records')
  PROVE  Core'
BY OverValues DEF Core

\* The run that is next, and what is left behind it.
LEMMA NextRun ==
  ASSUME TypeOK, Plan(call, messages), Pending
  PROVE  LET run == Head(call.todo) IN
         /\ run \in Runs /\ Tail(call.todo) \in Seq(Runs)
         /\ \/ /\ call.purpose \in {"turn", "compress"} /\ run.command = "snapshot"
               /\ run.items \in Store!Snapshots
               /\ call.purpose = "turn" => Tail(call.todo) = <<>>
               /\ call.purpose = "compress" =>
                    /\ run.items = Visible(messages)
                    /\ Tail(call.todo) = <<RecordRun(CheckpointId(messages))>>
            \/ /\ call.purpose = "event" /\ run.command = "ingest" /\ run.id \in Events
               /\ Tail(call.todo) = <<>>
            \/ /\ call.purpose = "compress" /\ run.command = "ingest"
               /\ run.id = CheckpointId(messages) /\ Tail(call.todo) = <<>>
<1> DEFINE run == Head(call.todo)
<1>1. /\ call.todo \in Seq(Runs) /\ call.todo # <<>>
      /\ call.outcome = "pending"
      /\ call.purpose \in {"none", "turn", "event", "compress"}
      /\ messages \in Seq(Messages) /\ Len(messages) <= MaxMessages
  BY DEF TypeOK, Pending
<1>2. run \in Runs /\ Tail(call.todo) \in Seq(Runs)
  BY <1>1
<1>3. call.purpose # "none"
  BY <1>1 DEF Plan
<1>4. \A a : Head(<<a>>) = a /\ Tail(<<a>>) = <<>>
  OBVIOUS
<1>5. \A a, b : Head(<<a, b>>) = a /\ Tail(<<a, b>>) = <<b>>
  OBVIOUS
<1>6. CASE call.purpose = "turn"
  <2>1. PICK items \in Store!Snapshots : call.todo = <<[command |-> "snapshot", items |-> items]>>
    BY <1>1, <1>6 DEF Plan
  <2>2. run = [command |-> "snapshot", items |-> items] /\ Tail(call.todo) = <<>>
    BY <1>4, <2>1
  <2> QED
    BY <1>2, <1>6, <2>2
<1>7. CASE call.purpose = "event"
  <2>1. PICK e \in Events : call.todo = <<RecordRun(e)>>
    BY <1>1, <1>7 DEF Plan
  <2>2. run = RecordRun(e) /\ Tail(call.todo) = <<>>
    BY <1>4, <2>1
  <2> QED
    BY <1>2, <1>7, <2>2 DEF RecordRun
<1>8. CASE call.purpose = "compress"
  <2>1. \/ call.todo = <<RecordRun(CheckpointId(messages))>>
        \/ call.todo = <<[command |-> "snapshot", items |-> Visible(messages)],
                         RecordRun(CheckpointId(messages))>>
    BY <1>1, <1>8, RunsPlanned DEF Plan
  <2>2. Visible(messages) \in Store!Snapshots
    BY <1>1, RunsPlanned
  <2>3. CASE call.todo = <<RecordRun(CheckpointId(messages))>>
    <3>1. run = RecordRun(CheckpointId(messages)) /\ Tail(call.todo) = <<>>
      BY <1>4, <2>3
    <3> QED
      BY <1>2, <1>8, <3>1 DEF RecordRun
  <2>4. CASE call.todo = <<[command |-> "snapshot", items |-> Visible(messages)],
                           RecordRun(CheckpointId(messages))>>
    <3>1. /\ run = [command |-> "snapshot", items |-> Visible(messages)]
          /\ Tail(call.todo) = <<RecordRun(CheckpointId(messages))>>
      BY <1>5, <2>4
    <3> QED
      BY <1>2, <1>8, <2>2, <3>1
  <2> QED
    BY <2>1, <2>3, <2>4
<1> QED
  BY <1>1, <1>3, <1>6, <1>7, <1>8

\* A run may be committed that brings a snapshot, an event, or the checkpoint of a
\* transcript that is stored.
Allowed(run, recs) ==
  /\ run \in Runs
  /\ run.command = "snapshot" => run.items \in Store!Snapshots
  /\ run.command = "ingest" /\ run.id \notin Events => Holds(recs, run.id.checkpoint)

LEMMA RunCommitted ==
  ASSUME Store!IInv, Vouched(records), NEW run, Allowed(run, records), Commit(run)
  PROVE  /\ Store!IInv' /\ Vouched(records') /\ records \subseteq records'
         /\ run.command = "snapshot" =>
              /\ Store!IngestSnapshot(Session, run.items)
              /\ \A t : (\A p \in Prints : Count(t, p, 1) = Count(run.items, p, 1)) =>
                          Holds(records', t)
         /\ run.command = "ingest" =>
              /\ run.id \in Ids /\ run.id \in records'
              /\ UNCHANGED <<state, counters, promised>>
         /\ run.command \in {"snapshot", "ingest"}
<1>1. CASE run.command = "snapshot"
  <2>1. run.items \in Store!Snapshots /\ Store!IngestSnapshot(Session, run.items)
    BY <1>1 DEF Commit, Allowed
  <2> DEFINE overlap == Store!Overlap(state[Session], run.items)
  <2>2. /\ Store!IInv' /\ records \subseteq records'
        /\ \A id \in Ids : id \in records' => id \in records
        /\ \A p \in Prints : \A o \in 0 .. Count(run.items, p, 1) - 1 :
             Store!RecordId(Session, p, o) \in records'
    BY <2>1, SnapshotCommitted
  <2>3. Vouched(records')
    BY <2>2, HoldsGrows DEF Vouched
  <2>4. \A t : (\A p \in Prints : Count(t, p, 1) = Count(run.items, p, 1)) => Holds(records', t)
    BY <2>2 DEF Holds
  <2> QED
    BY <1>1, <2>1, <2>2, <2>3, <2>4
<1>2. CASE run.command = "ingest"
  <2>1. run.id \in Ids /\ Store!Ingest({run.id})
    BY <1>2 DEF Commit, Allowed, Runs
  <2>2. /\ Store!IInv' /\ records' = records \union {run.id}
        /\ UNCHANGED <<state, counters, promised>>
    BY <2>1, RecordCommitted
  <2>3. \A t : Holds(records, t) => Holds(records', t)
    BY <2>2, HoldsGrows
  <2>4. Vouched(records')
    BY <1>2, <2>2, <2>3 DEF Vouched, Allowed
  <2> QED
    BY <1>2, <2>1, <2>2, <2>4
<1> QED
  BY <1>1, <1>2 DEF Allowed, Runs

\* What the store keeps when it is left alone.
LEMMA StoreIdle ==
  ASSUME Store!IInv, UNCHANGED store
  PROVE  Store!IInv'
BY DEF store, Store!IInv, Store!TypeOK, Store!StateBacked, Store!RepetitionsDistinct,
       Store!OccurrencesDense, Store!PromisesCounted

\* The steps of the plugin and its child.
LEMMA CoreProvide ==
  ASSUME Core, Provide \/ ChildFails \/ ChildProjects
  PROVE  Core'
<1>1. /\ TypeOK /\ Store!IInv /\ Plan(call, messages)
      /\ Underway(call, messages, child, records) /\ Left(RunsLeft, records)
      /\ Vouched(records) /\ Durable(call, messages, records)
  BY CoreParts
<1>2. UNCHANGED <<host, store>> /\ orphans' = orphans /\ RunsLeft' = RunsLeft
  BY DEF RunsLeft, Provide, Spawn, Refuse, RunReturns, Timeout, AfterKill, ChildFails, ChildProjects
<1>3. /\ messages' = messages /\ records' = records /\ UNCHANGED <<spoken, delivered, calls, crashes>>
      /\ Store!IInv'
  BY <1>1, <1>2, StoreIdle DEF host, store
<1>4. Left(RunsLeft', records') /\ Vouched(records')
  BY <1>1, <1>2, <1>3
<1>5. Pending
  BY <1>1 DEF Provide, Spawn, Refuse, RunReturns, Timeout, MayBeLate, ChildFails, ChildProjects, TypeOK
<1>6. CASE call' = call /\ child' # "none"
           /\ (Finished(child') => Finished(child))
  <2>1. TypeOK'
    BY <1>1, <1>2, <1>3, <1>5, <1>6
       DEF TypeOK, Pending, Spawn, RunReturns, Refuse, Timeout, Provide, ChildFails, ChildProjects
  <2>2. /\ Plan(call', messages') /\ Durable(call', messages', records')
        /\ Underway(call', messages', child', records')
    BY <1>1, <1>3, <1>6 DEF Underway
  <2> QED
    BY <1>3, <1>4, <2>1, <2>2, CoreFromParts
<1>7. CASE call' = Raised /\ child' = "none"
  <2>1. /\ call' \in [purpose : {"none", "turn", "event", "compress"},
                      outcome : {"idle", "pending", "returned", "raised"},
                      todo : Seq(Runs), said : Seq(Messages)]
        /\ call'.purpose = call.purpose /\ call'.said = call.said
        /\ call'.outcome = "raised" /\ call'.todo = <<>>
    <3>1. <<>> \in Seq(Runs)
      OBVIOUS
    <3>2. call \in [purpose : {"none", "turn", "event", "compress"},
                   outcome : {"idle", "pending", "returned", "raised"},
                   todo : Seq(Runs), said : Seq(Messages)]
      BY <1>1 DEF TypeOK
    <3> QED
      BY <1>7, <3>1, <3>2 DEF Raised
  <2>2. TypeOK'
    BY <1>1, <1>2, <1>3, <1>7, <2>1 DEF TypeOK, Pending
  <2>3. Plan(call', messages')
    BY <1>1, <1>5, <2>1 DEF Plan, Pending
  <2>4. Durable(call', messages', records') /\ Underway(call', messages', child', records')
    BY <2>1 DEF Durable, Underway
  <2> QED
    BY <1>3, <1>4, <2>2, <2>3, <2>4, CoreFromParts
<1>8. CASE call' = Advanced /\ child = "succeeded" /\ child' = "none"
  <2> DEFINE run == Head(call.todo)
             rest == Tail(call.todo)
  <2>1. run \in Runs /\ rest \in Seq(Runs)
    BY <1>1, <1>5, NextRun
  <2>2. /\ call' \in [purpose : {"none", "turn", "event", "compress"},
                      outcome : {"idle", "pending", "returned", "raised"},
                      todo : Seq(Runs), said : Seq(Messages)]
        /\ call'.purpose = call.purpose /\ call'.said = call.said
        /\ call'.outcome = Outcome(rest) /\ call'.todo = rest
    BY <1>1, <1>8, <2>1 DEF TypeOK, Advanced, Outcome
  <2>3. TypeOK'
    BY <1>1, <1>2, <1>3, <1>8, <2>2 DEF TypeOK, Pending, Outcome
  <2>4. CASE rest = <<>>
    <3>1. call'.outcome = "returned"
      BY <2>2, <2>4 DEF Outcome
    <3>2. Plan(call', messages')
      BY <1>1, <1>5, <2>2, <3>1 DEF Plan, Pending
    <3>3. Underway(call', messages', child', records')
      BY <3>1 DEF Underway
    <3>4. Durable(call', messages', records')
      <4> SUFFICES ASSUME call.purpose = "compress"
                   PROVE  Holds(records, messages) /\ CheckpointId(messages) \in records
        BY <1>3, <2>2 DEF Durable
      <4>1. run.command = "ingest"
        <5>1. rest # <<RecordRun(CheckpointId(messages))>>
          BY <2>4
        <5> QED
          BY <1>1, <1>5, <5>1, NextRun
      <4> QED
        BY <1>1, <1>5, <1>8, <4>1 DEF Underway, Finished, Pending
    <3> QED
      BY <1>3, <1>4, <2>3, <3>2, <3>3, <3>4, CoreFromParts
  <2>5. CASE rest # <<>>
    <3>1. /\ call.purpose = "compress" /\ run.command = "snapshot"
          /\ rest = <<RecordRun(CheckpointId(messages))>> /\ call'.outcome = "pending"
      <4>1. \/ call.purpose = "compress" /\ run.command = "snapshot"
               /\ rest = <<RecordRun(CheckpointId(messages))>>
            \/ rest = <<>>
        BY <1>1, <1>5, NextRun
      <4> QED
        BY <2>2, <2>5, <4>1 DEF Outcome
    <3>2. Plan(call', messages')
      BY <1>1, <1>3, <2>2, <3>1 DEF Plan
    <3>3. Durable(call', messages', records')
      BY <3>1 DEF Durable
    <3>4. Holds(records, messages)
      BY <1>1, <1>5, <1>8, <3>1 DEF Underway, Finished, Pending
    <3>5. Underway(call', messages', child', records')
      BY <1>3, <1>8, <3>4 DEF Underway, Finished
    <3> QED
      BY <1>3, <1>4, <2>3, <3>2, <3>3, <3>5, CoreFromParts
  <2> QED
    BY <2>4, <2>5
<1>9. \/ call' = call /\ child' # "none" /\ (Finished(child') => Finished(child))
      \/ call' = Raised /\ child' = "none"
      \/ call' = Advanced /\ child = "succeeded" /\ child' = "none"
  BY <1>1 DEF Provide, Spawn, Refuse, RunReturns, Timeout, ChildFails, ChildProjects, Finished
<1> QED
  BY <1>6, <1>7, <1>8, <1>9

\* What a call is about to run may be committed.
LEMMA ChildAllowed ==
  ASSUME TypeOK, Plan(call, messages), Underway(call, messages, child, records), Pending
  PROVE  Allowed(Head(call.todo), records)
<1> DEFINE run == Head(call.todo)
<1>1. ASSUME run.command = "ingest", run.id \notin Events
      PROVE  Holds(records, run.id.checkpoint)
  <2>1. call.purpose = "compress" /\ run.id = CheckpointId(messages)
    BY <1>1, NextRun
  <2>2. Holds(records, messages)
    BY <1>1, <2>1 DEF Underway, Pending
  <2>3. messages \in Seq(Messages) /\ Len(messages) <= MaxMessages
    BY DEF TypeOK
  <2> QED
    BY <2>1, <2>2, <2>3, RunsPlanned
<1> QED
  BY <1>1, NextRun DEF Allowed

\* The run of a child is committed.
LEMMA CoreChildCommits ==
  ASSUME Core, ChildCommits
  PROVE  Core'
<1> DEFINE run == Head(call.todo)
<1>1. /\ TypeOK /\ Store!IInv /\ Plan(call, messages)
      /\ Underway(call, messages, child, records) /\ Left(RunsLeft, records)
      /\ Vouched(records) /\ Durable(call, messages, records)
  BY CoreParts
<1>2. /\ child = "running" /\ child' = "committed" /\ Commit(run)
      /\ messages' = messages /\ call' = call /\ orphans' = orphans /\ RunsLeft' = RunsLeft
      /\ UNCHANGED <<spoken, delivered, calls, crashes>>
  BY DEF ChildCommits, host, RunsLeft
<1>3. Pending
  BY <1>1, <1>2 DEF TypeOK
<1>4. messages \in Seq(Messages) /\ Len(messages) <= MaxMessages
  BY <1>1 DEF TypeOK
<1>5. Allowed(run, records)
  BY <1>1, <1>3, ChildAllowed
<1>6. /\ Store!IInv' /\ Vouched(records') /\ records \subseteq records'
      /\ run.command = "snapshot" =>
           \A t : (\A p \in Prints : Count(t, p, 1) = Count(run.items, p, 1)) => Holds(records', t)
      /\ run.command = "ingest" => run.id \in records'
      /\ run.command \in {"snapshot", "ingest"}
  BY <1>1, <1>2, <1>5, RunCommitted
<1>7. \A t : Holds(records, t) => Holds(records', t)
  BY <1>6, HoldsGrows
<1>8. TypeOK'
  BY <1>1, <1>2, <1>3 DEF TypeOK, Pending
<1>9. Plan(call', messages') /\ Durable(call', messages', records')
  BY <1>1, <1>2, <1>6, <1>7 DEF Durable
<1>10. Left(RunsLeft', records')
  BY <1>1, <1>2, <1>7 DEF Left
<1>11. Underway(call', messages', child', records')
  <2> SUFFICES ASSUME call.purpose = "compress"
               PROVE  /\ Holds(records', messages)
                      /\ run.command = "ingest" => CheckpointId(messages) \in records'
    BY <1>2 DEF Underway
  <2>1. CASE run.command = "snapshot"
    <3>1. run.items = Visible(messages)
      BY <1>1, <1>3, <2>1, NextRun
    <3>2. \A p \in Prints : Count(messages, p, 1) = Count(Visible(messages), p, 1)
      BY <1>4, VisibleKeeps
    <3>3. Holds(records', messages)
      BY <1>6, <2>1, <3>1, <3>2
    <3> QED
      BY <2>1, <3>3
  <2>2. CASE run.command = "ingest"
    <3>1. run.id = CheckpointId(messages)
      BY <1>1, <1>3, <2>2, NextRun
    <3>2. Holds(records, messages)
      BY <1>1, <1>3, <2>2 DEF Underway, Pending
    <3> QED
      BY <1>6, <1>7, <2>2, <3>1, <3>2
  <2> QED
    BY <1>6, <2>1, <2>2
<1> QED
  BY <1>6, <1>8, <1>9, <1>10, <1>11, CoreFromParts

\* The run of an orphan is committed, or is not.
LEMMA CoreOrphans ==
  ASSUME Core, NEW orphan \in orphans, OrphanCommits(orphan) \/ OrphanDies(orphan)
  PROVE  Core'
<1> DEFINE run == orphan.run
<1>1. /\ TypeOK /\ Store!IInv /\ Plan(call, messages)
      /\ Underway(call, messages, child, records) /\ Left(RunsLeft, records)
      /\ Vouched(records) /\ Durable(call, messages, records)
  BY CoreParts
<1>2. /\ messages' = messages /\ call' = call /\ child' = child /\ orphans' = orphans \ {orphan}
      /\ UNCHANGED <<spoken, delivered, calls, crashes>>
  BY DEF OrphanCommits, OrphanDies, host
<1>3. Allowed(run, records) /\ RunsLeft' \subseteq RunsLeft
  BY <1>1, <1>2 DEF TypeOK, Left, Allowed, RunsLeft
<1>4. Store!IInv' /\ Vouched(records') /\ records \subseteq records'
  <2>1. CASE OrphanCommits(orphan)
    BY <1>1, <1>3, <2>1, RunCommitted DEF OrphanCommits
  <2>2. CASE OrphanDies(orphan)
    BY <1>1, <2>2, StoreIdle DEF OrphanDies, store
  <2> QED
    BY <2>1, <2>2
<1>5. \A t : Holds(records, t) => Holds(records', t)
  BY <1>4, HoldsGrows
<1>6. TypeOK'
  BY <1>1, <1>2 DEF TypeOK, Pending
<1>7. Plan(call', messages') /\ Durable(call', messages', records')
  BY <1>1, <1>2, <1>4, <1>5 DEF Durable
<1>8. Left(RunsLeft', records') /\ Underway(call', messages', child', records')
  BY <1>1, <1>2, <1>3, <1>4, <1>5 DEF Left, Underway
<1> QED
  BY <1>4, <1>6, <1>7, <1>8, CoreFromParts

\* A message list counts what was said.
LEMMA CountedTyped ==
  ASSUME NEW count \in [Contents -> Nat], NEW said \in Seq(Messages)
  PROVE  /\ Counted(count, said) \in [Contents -> Nat]
         /\ \A p \in Contents : Counted(count, said)[p] = count[p] + Count(said, p, 1)
<1>1. \A p \in Contents : Store!Copies(said, p) = Count(said, p, 1) /\ Count(said, p, 1) \in Nat
  <2>1. 1 \in Int /\ Len(said) \in Int
    OBVIOUS
  <2> QED
    BY <2>1, CountNat, SameCounts
<1> QED
  BY <1>1 DEF Counted

LEMMA SaidTyped ==
  ASSUME NEW said \in Said
  PROVE  said \in Seq(Messages) /\ Len(said) = 2
<1>1. PICK a \in Messages, b \in Messages : said = <<a, b>>
  BY DEF Said, Messages, Contents
<1> QED
  BY <1>1

\* A call begins.
LEMMA CoreBegins ==
  ASSUME Core, NEW purpose \in {"turn", "event", "compress"}, NEW todo \in Seq(Runs),
         NEW said \in Seq(Messages), Begin(purpose, todo, said),
         messages' \in Seq(Messages), Len(messages') <= MaxMessages,
         spoken' \in [Contents -> Nat],
         Plan([purpose |-> purpose, outcome |-> Outcome(todo), todo |-> todo, said |-> said],
              messages'),
         purpose = "compress" =>
           /\ todo # <<>>
           /\ Head(todo).command = "ingest" => Holds(records, messages')
  PROVE  Core'
<1>1. /\ TypeOK /\ Store!IInv /\ Plan(call, messages)
      /\ Underway(call, messages, child, records) /\ Left(RunsLeft, records)
      /\ Vouched(records) /\ Durable(call, messages, records)
  BY CoreParts
<1>2. /\ call' = [purpose |-> purpose, outcome |-> Outcome(todo), todo |-> todo, said |-> said]
      /\ child' = child /\ orphans' = orphans /\ UNCHANGED <<delivered, crashes>>
      /\ calls' = calls + 1 /\ RunsLeft' = RunsLeft
      /\ records' = records /\ call.outcome = "idle" /\ Store!IInv'
  BY <1>1, StoreIdle DEF Begin, store, RunsLeft
<1>3. child = "none"
  BY <1>1, <1>2 DEF TypeOK, Pending
<1>4. TypeOK'
  <2>1. call' \in [purpose : {"none", "turn", "event", "compress"},
                   outcome : {"idle", "pending", "returned", "raised"},
                   todo : Seq(Runs), said : Seq(Messages)]
    BY <1>2 DEF Outcome
  <2>2. call'.outcome = "pending" <=> call'.todo # <<>>
    BY <1>2 DEF Outcome
  <2>3. child' = "none" /\ orphans' \subseteq [run : Runs, call : Nat]
        /\ delivered' \in [Contents -> Nat] /\ calls' \in Nat /\ crashes' \in Nat
    BY <1>1, <1>2, <1>3 DEF TypeOK
  <2> QED
    BY <2>1, <2>2, <2>3 DEF TypeOK, Pending
<1>5. Plan(call', messages')
  BY <1>2
<1>6. Durable(call', messages', records')
  <2>1. call'.purpose = "compress" => call'.outcome = "pending"
    BY <1>2 DEF Outcome
  <2> QED
    BY <2>1 DEF Durable
<1>7. Underway(call', messages', child', records')
  BY <1>2, <1>3 DEF Underway, Finished
<1> QED
  BY <1>1, <1>2, <1>4, <1>5, <1>6, <1>7, CoreFromParts

LEMMA CoreSyncTurn ==
  ASSUME Core, NEW said \in Said, NEW listed, SyncTurn(said, listed)
  PROVE  Core'
<1> DEFINE source == IF listed THEN messages \o said ELSE said
<1>1. TypeOK
  BY CoreParts
<1>2. /\ said \in Seq(Messages) /\ Len(said) = 2 /\ messages \in Seq(Messages)
      /\ spoken \in [Contents -> Nat]
  BY <1>1, SaidTyped DEF TypeOK
<1>3. /\ messages' = messages \o said /\ Len(messages) + Len(said) <= MaxMessages
      /\ spoken' = Counted(spoken, said) /\ Begin("turn", SnapshotRun(source), said)
  BY DEF SyncTurn
<1>4. /\ messages' \in Seq(Messages) /\ Len(messages') <= MaxMessages
      /\ source \in Seq(Messages) /\ Len(source) <= MaxMessages
  <2>1. messages \o said \in Seq(Messages) /\ Len(messages \o said) = Len(messages) + Len(said)
    BY <1>2, ConcatProperties
  <2>2. Len(messages) \in Nat /\ Len(said) <= MaxMessages
    BY <1>2, <1>3, BoundsAssumption
  <2> QED
    BY <1>2, <1>3, <2>1, <2>2
<1> HIDE DEF source
<1>5. spoken' \in [Contents -> Nat]
  BY <1>2, <1>3, CountedTyped
<1>6. SnapshotRun(source) \in Seq(Runs)
  BY <1>4, RunsPlanned
<1> DEFINE c == [purpose |-> "turn", outcome |-> Outcome(SnapshotRun(source)),
                 todo |-> SnapshotRun(source), said |-> said]
<1>7. Plan(c, messages')
  <2>1. c.outcome = "pending" =>
          /\ Visible(source) \in Store!Snapshots
          /\ c.todo = <<[command |-> "snapshot", items |-> Visible(source)]>>
    BY <1>4, RunsPlanned DEF Outcome
  <2>2. c.outcome # "idle"
    BY DEF Outcome
  <2> QED
    BY <2>1, <2>2 DEF Plan
<1> QED
  BY <1>2, <1>3, <1>4, <1>5, <1>6, <1>7, CoreBegins

LEMMA CoreOnSessionEvent ==
  ASSUME Core, NEW e \in Events, OnSessionEvent(e)
  PROVE  Core'
<1>1. TypeOK
  BY CoreParts
<1>2. /\ messages' = messages /\ spoken' = spoken /\ Begin("event", <<RecordRun(e)>>, <<>>)
  BY DEF OnSessionEvent
<1>3. <<RecordRun(e)>> \in Seq(Runs) /\ <<>> \in Seq(Messages)
  <2>1. RecordRun(e) \in Runs
    BY DEF RecordRun, Runs, Ids
  <2> QED
    BY <2>1
<1> DEFINE c == [purpose |-> "event", outcome |-> Outcome(<<RecordRun(e)>>),
                 todo |-> <<RecordRun(e)>>, said |-> <<>>]
<1>4. Plan(c, messages')
  <2>1. c.outcome # "idle"
    BY DEF Outcome
  <2> QED
    BY <2>1 DEF Plan
<1>5. messages' \in Seq(Messages) /\ Len(messages') <= MaxMessages /\ spoken' \in [Contents -> Nat]
  BY <1>1, <1>2 DEF TypeOK
<1> QED
  BY <1>2, <1>3, <1>4, <1>5, CoreBegins

LEMMA CoreOnPreCompress ==
  ASSUME Core, OnPreCompress
  PROVE  Core'
<1>1. TypeOK
  BY CoreParts
<1>2. messages' = messages /\ spoken' = spoken /\ Begin("compress", CheckpointRuns(messages), <<>>)
  BY DEF OnPreCompress
<1>3. /\ messages \in Seq(Messages) /\ Len(messages) <= MaxMessages
      /\ spoken \in [Contents -> Nat]
  BY <1>1 DEF TypeOK
<1>4. CheckpointRuns(messages) \in Seq(Runs) /\ <<>> \in Seq(Messages)
  BY <1>3, RunsPlanned
<1> DEFINE c == [purpose |-> "compress", outcome |-> Outcome(CheckpointRuns(messages)),
                 todo |-> CheckpointRuns(messages), said |-> <<>>]
<1>5. Plan(c, messages)
  <2>1. c.outcome # "idle"
    BY DEF Outcome
  <2> QED
    BY <2>1 DEF Plan
<1>6. /\ CheckpointRuns(messages) # <<>>
      /\ Head(CheckpointRuns(messages)).command = "ingest" => Holds(records, messages)
  <2>1. CASE Visible(messages) = <<>>
    <3>1. CheckpointRuns(messages) = <<RecordRun(CheckpointId(messages))>>
      BY <1>3, <2>1, RunsPlanned
    <3>2. \A p \in Prints : Count(messages, p, 1) = 0
      BY <1>3, <2>1, VisibleKeeps, CountEmpty
    <3> QED
      BY <3>1, <3>2 DEF Holds
  <2>2. CASE Visible(messages) # <<>>
    <3>1. CheckpointRuns(messages) = <<[command |-> "snapshot", items |-> Visible(messages)],
                                       RecordRun(CheckpointId(messages))>>
      BY <1>3, <2>2, RunsPlanned
    <3>2. Head(CheckpointRuns(messages)) = [command |-> "snapshot", items |-> Visible(messages)]
      BY <3>1
    <3> QED
      BY <3>1, <3>2
  <2> QED
    BY <2>1, <2>2
<1> QED
  BY <1>2, <1>3, <1>4, <1>5, <1>6, CoreBegins

\* The host leaves the call, with the messages it has or with others.
LEMMA CoreLeaves ==
  ASSUME Core, call' = Idle, child' = "none", UNCHANGED store,
         messages' \in Seq(Messages), Len(messages') <= MaxMessages,
         spoken' = spoken, delivered' \in [Contents -> Nat], calls' = calls, crashes' \in Nat,
         orphans' \subseteq [run : Runs, call : Nat], Left(RunsLeft', records)
  PROVE  Core'
<1>1. /\ TypeOK /\ Store!IInv /\ Vouched(records)
  BY CoreParts
<1>2. Store!IInv' /\ records' = records
  BY <1>1, StoreIdle DEF store
<1>3. /\ call' \in [purpose : {"none", "turn", "event", "compress"},
                    outcome : {"idle", "pending", "returned", "raised"},
                    todo : Seq(Runs), said : Seq(Messages)]
      /\ call'.purpose = "none" /\ call'.outcome = "idle" /\ call'.todo = <<>> /\ call'.said = <<>>
  <2>1. <<>> \in Seq(Runs) /\ <<>> \in Seq(Messages)
    OBVIOUS
  <2> QED
    BY <2>1 DEF Idle
<1>4. TypeOK'
  <2>1. spoken' \in [Contents -> Nat] /\ calls' \in Nat
    BY <1>1 DEF TypeOK
  <2> QED
    BY <1>3, <2>1 DEF TypeOK, Pending
<1>5. /\ Plan(call', messages') /\ Durable(call', messages', records')
      /\ Underway(call', messages', child', records')
  BY <1>3 DEF Plan, Durable, Underway
<1> QED
  BY <1>1, <1>2, <1>4, <1>5, CoreFromParts

LEMMA CoreGoOn ==
  ASSUME Core, GoOn
  PROVE  Core'
<1>1. TypeOK /\ Left(RunsLeft, records)
  BY CoreParts
<1>2. /\ call' = Idle /\ messages' = messages /\ spoken' = spoken /\ child' = child
      /\ orphans' = orphans /\ RunsLeft' = RunsLeft /\ UNCHANGED <<store, calls, crashes>>
      /\ call.outcome \in {"returned", "raised"}
  BY DEF GoOn, store, RunsLeft
<1>3. child' = "none"
  BY <1>1, <1>2 DEF TypeOK, Pending
<1>4. delivered' \in [Contents -> Nat]
  <2>1. delivered \in [Contents -> Nat] /\ call.said \in Seq(Messages)
    BY <1>1 DEF TypeOK
  <2>2. Counted(delivered, call.said) \in [Contents -> Nat]
    BY <2>1, CountedTyped
  <2> QED
    BY <2>1, <2>2 DEF GoOn
<1> QED
  BY <1>1, <1>2, <1>3, <1>4, CoreLeaves DEF TypeOK

\* What a compaction leaves is no longer than what was there.
Compacted(t, head, tail, summary) == SubSeq(t, 1, head) \o <<summary>> \o SubSeq(t, tail, Len(t))
Shorter(t, new, head, tail, summary) ==
  /\ new \in Seq(Messages) /\ Len(new) <= Len(t) /\ Len(new) = head + 1 + Len(t) + 1 - tail
  /\ new[head + 1] = summary
  /\ \A i \in 1..Len(new) : i # head + 1 => \E j \in 1..Len(t) : new[i] = t[j]

LEMMA CompactedTyped ==
  ASSUME NEW t \in Seq(Messages), NEW head \in 0..1, NEW tail \in 2..Len(t) + 1,
         NEW summary \in Summaries, head + 1 < tail
  PROVE  Shorter(t, Compacted(t, head, tail, summary), head, tail, summary)
<1> DEFINE a == SubSeq(t, 1, head)
           b == <<summary>>
           c == SubSeq(t, tail, Len(t))
<1>1. Len(t) \in Nat /\ head \in Int /\ tail \in Int /\ head <= Len(t) /\ summary \in Messages
  BY DEF Messages
<1>2. \A i \in 1..head : t[i] \in Messages
  BY <1>1
<1>3. \A i \in tail..Len(t) : t[i] \in Messages
  BY <1>1
<1>4. a \in Seq(Messages) /\ Len(a) = head /\ \A i \in 1..head : a[i] = t[i]
  <2>1. /\ SubSeq(t, 1, head) \in Seq(Messages)
        /\ Len(SubSeq(t, 1, head)) = IF 1 <= head THEN head - 1 + 1 ELSE 0
        /\ \A i \in 1 .. head - 1 + 1 : SubSeq(t, 1, head)[i] = t[1 + i - 1]
    <3>1. 1 \in Int
      OBVIOUS
    <3> QED
      BY <1>1, <1>2, <3>1, SubSeqProperties
  <2>2. \A i \in 1..head : 1 + i - 1 = i /\ i \in 1 .. head - 1 + 1
    BY <1>1
  <2>3. \A i \in 1..head : a[i] = t[i]
    BY <2>1, <2>2
  <2> QED
    BY <1>1, <2>1, <2>3
<1>5. /\ c \in Seq(Messages) /\ Len(c) = Len(t) + 1 - tail
      /\ \A i \in 1 .. Len(t) + 1 - tail : c[i] = t[tail + i - 1]
  <2>1. /\ SubSeq(t, tail, Len(t)) \in Seq(Messages)
        /\ Len(SubSeq(t, tail, Len(t))) = IF tail <= Len(t) THEN Len(t) - tail + 1 ELSE 0
        /\ \A i \in 1 .. Len(t) - tail + 1 : SubSeq(t, tail, Len(t))[i] = t[tail + i - 1]
    BY <1>1, <1>3, SubSeqProperties
  <2> QED
    BY <1>1, <2>1
<1>6. b \in Seq(Messages) /\ Len(b) = 1 /\ b[1] = summary
  BY <1>1
<1> HIDE DEF a, b, c
<1>7. /\ a \o b \in Seq(Messages) /\ Len(a \o b) = head + 1
      /\ \A i \in 1 .. head + 1 : (a \o b)[i] = IF i <= head THEN a[i] ELSE b[i - head]
  <2>1. /\ a \o b \in Seq(Messages) /\ Len(a \o b) = Len(a) + Len(b)
        /\ \A i \in 1 .. Len(a) + Len(b) :
             (a \o b)[i] = IF i <= Len(a) THEN a[i] ELSE b[i - Len(a)]
    BY <1>4, <1>6, ConcatProperties
  <2>2. Len(a) + Len(b) = head + 1 /\ Len(a) = head
    BY <1>1, <1>4, <1>6
  <2> QED
    BY <2>1, <2>2
<1> DEFINE ab == a \o b
           made == ab \o c
<1> HIDE DEF ab
<1>8. /\ made \in Seq(Messages) /\ Len(made) = head + 1 + Len(c)
      /\ \A i \in 1 .. head + 1 + Len(c) :
           made[i] = IF i <= head + 1 THEN ab[i] ELSE c[i - (head + 1)]
  <2>1. ab \in Seq(Messages) /\ Len(ab) = head + 1
    BY <1>7 DEF ab
  <2>2. /\ ab \o c \in Seq(Messages) /\ Len(ab \o c) = Len(ab) + Len(c)
        /\ \A i \in 1 .. Len(ab) + Len(c) :
             (ab \o c)[i] = IF i <= Len(ab) THEN ab[i] ELSE c[i - Len(ab)]
    BY <1>5, <2>1, ConcatProperties
  <2> QED
    BY <2>1, <2>2
<1>9. \A i \in 1 .. head + 1 : ab[i] = IF i <= head THEN a[i] ELSE b[i - head]
  BY <1>7 DEF ab
<1>10. Compacted(t, head, tail, summary) = made
  BY DEF Compacted, a, b, c, ab
<1> HIDE DEF made
<1>11. made[head + 1] = summary
  <2>1. head + 1 \in 1 .. head + 1 + Len(c) /\ head + 1 \in 1 .. head + 1 /\ head + 1 - head = 1
    BY <1>1, <1>5
  <2> QED
    BY <1>1, <1>6, <1>8, <1>9, <2>1
<1>12. ASSUME NEW i \in 1..Len(made), i # head + 1 PROVE \E j \in 1..Len(t) : made[i] = t[j]
  <2>1. i \in 1 .. head + 1 + Len(c)
    BY <1>8
  <2>2. CASE i <= head
    <3>1. i \in 1..head /\ i \in 1 .. head + 1 /\ i \in 1..Len(t) /\ i <= head + 1
      BY <1>1, <2>1, <2>2
    <3> QED
      BY <1>4, <1>8, <1>9, <2>1, <3>1
  <2>3. CASE ~(i <= head)
    <3>1. /\ ~(i <= head + 1) /\ i - (head + 1) \in 1 .. Len(t) + 1 - tail
          /\ tail + (i - (head + 1)) - 1 \in 1..Len(t)
      BY <1>1, <1>5, <1>12, <2>1, <2>3
    <3> QED
      BY <1>5, <1>8, <2>1, <3>1
  <2> QED
    BY <2>2, <2>3
<1>13. Len(made) <= Len(t) /\ Len(made) = head + 1 + Len(t) + 1 - tail
  <2>1. Len(made) = head + 1 + (Len(t) + 1 - tail)
    BY <1>5, <1>8
  <2> QED
    BY <1>1, <2>1
<1> QED
  <2>1. Shorter(t, made, head, tail, summary)
    BY <1>8, <1>11, <1>12, <1>13 DEF Shorter
  <2> QED
    BY ONLY <1>10, <2>1

LEMMA CoreCompact ==
  ASSUME Core, Compact
  PROVE  Core'
<1>1. TypeOK /\ Left(RunsLeft, records)
  BY CoreParts
<1>2. /\ call' = Idle /\ spoken' = spoken /\ child' = child /\ delivered' = delivered
      /\ orphans' = orphans /\ RunsLeft' = RunsLeft /\ UNCHANGED <<store, calls, crashes>>
      /\ call.outcome \in {"returned", "raised"}
  BY DEF Compact, store, RunsLeft
<1>3. child' = "none"
  BY <1>1, <1>2 DEF TypeOK, Pending
<1>4. messages' \in Seq(Messages) /\ Len(messages') <= MaxMessages
  <2>1. PICK head \in 0..1, tail \in 2..Len(messages) + 1, summary \in Summaries :
          head + 1 < tail /\ messages' = Compacted(messages, head, tail, summary)
    BY DEF Compact, Compacted
  <2>2. messages \in Seq(Messages) /\ Len(messages) <= MaxMessages /\ Len(messages) \in Nat
    BY <1>1 DEF TypeOK
  <2>3. messages' \in Seq(Messages) /\ Len(messages') <= Len(messages)
    BY <2>1, <2>2, CompactedTyped DEF Shorter
  <2> QED
    BY <2>2, <2>3, BoundsAssumption
<1> QED
  BY <1>1, <1>2, <1>3, <1>4, CoreLeaves DEF TypeOK

LEMMA CoreCrash ==
  ASSUME Core, Crash
  PROVE  Core'
<1>1. /\ TypeOK /\ Plan(call, messages)
      /\ Underway(call, messages, child, records) /\ Left(RunsLeft, records)
  BY CoreParts
<1>2. /\ call' = Idle /\ child' = "none" /\ messages' = messages /\ spoken' = spoken
      /\ delivered' = delivered /\ UNCHANGED <<store, calls>> /\ Pending /\ crashes' \in Nat
  BY <1>1 DEF Crash, TypeOK
<1> DEFINE run == Head(call.todo)
<1>3. /\ run \in Runs
      /\ run.command = "snapshot" => run.items \in Store!Snapshots
      /\ run.command = "ingest" /\ run.id \notin Events => Holds(records, run.id.checkpoint)
  BY <1>1, <1>2, ChildAllowed DEF Allowed
<1> HIDE DEF run
<1>4. /\ orphans' \subseteq orphans \union {[run |-> run, call |-> calls]}
      /\ RunsLeft' \subseteq RunsLeft \union {run}
  BY DEF Crash, Orphaned, RunsLeft, run
<1>5. orphans' \subseteq [run : Runs, call : Nat] /\ Left(RunsLeft', records)
  BY <1>1, <1>3, <1>4 DEF TypeOK, Left
<1> QED
  BY <1>1, <1>2, <1>5, CoreLeaves DEF TypeOK

LEMMA CoreStep == Core /\ [Next]_vars => Core'
<1> SUFFICES ASSUME Core, [Next]_vars PROVE Core'
  OBVIOUS
<1>1. CASE Provide
  BY <1>1, CoreProvide
<1>2. CASE Process
  BY <1>2, CoreProvide, CoreChildCommits, CoreOrphans DEF Process
<1>3. CASE Host
  BY <1>3, CoreSyncTurn, CoreOnSessionEvent, CoreOnPreCompress, CoreGoOn, CoreCompact, CoreCrash
     DEF Host
<1>4. CASE UNCHANGED vars
  <2>1. UNCHANGED <<messages, call, child, orphans, spoken, delivered, calls, crashes, store>>
    BY <1>4 DEF vars, host
  <2>2. /\ TypeOK /\ Store!IInv /\ Plan(call, messages)
        /\ Underway(call, messages, child, records) /\ Left(RunsLeft, records)
        /\ Vouched(records) /\ Durable(call, messages, records)
    BY CoreParts
  <2>3. Store!IInv' /\ records' = records
    BY <2>1, <2>2, StoreIdle DEF store
  <2>4. TypeOK'
    BY <2>1, <2>2 DEF TypeOK, Pending
  <2> QED
    BY <2>1, <2>2, <2>3, <2>4, CoreFromParts DEF RunsLeft
<1> QED
  BY <1>1, <1>2, <1>3, <1>4 DEF Next

LEMMA CoreInit == Init => Core
<1> SUFFICES ASSUME Init PROVE Core
  OBVIOUS
<1>1. Store!IInv
  <2>1. /\ records = {} /\ state = [k \in {Session} |-> <<>>]
        /\ counters = [k \in {Session} |-> [p \in Contents \union Summaries |-> 0]]
        /\ promised = [k \in {Session} |-> [p \in Contents \union Summaries |-> 0]]
        /\ request = Store!NoRequest
    BY DEF Init, Store!Init
  <2>2. Store!TypeOK
    BY <2>1 DEF Store!TypeOK
  <2>3. \A k \in {Session} : Len(state[k]) = 0
    BY <2>1
  <2>4. Store!StateBacked /\ Store!RepetitionsDistinct
    BY <2>3 DEF Store!StateBacked, Store!RepetitionsDistinct
  <2>5. Store!OccurrencesDense /\ Store!PromisesCounted
    BY <2>1 DEF Store!OccurrencesDense, Store!PromisesCounted
  <2> QED
    BY <2>2, <2>4, <2>5 DEF Store!IInv
<1>2. /\ messages = <<>> /\ call = Idle /\ child = "none" /\ orphans = {} /\ RunsLeft = {}
      /\ spoken = [p \in Contents |-> 0] /\ delivered = [p \in Contents |-> 0]
      /\ records = {} /\ calls = 0 /\ crashes = 0
  BY DEF Init, Store!Init, RunsLeft
<1>3. TypeOK
  <2>1. <<>> \in Seq(Runs) /\ <<>> \in Seq(Messages) /\ Len(<<>>) = 0 /\ 0 <= MaxMessages
    BY BoundsAssumption
  <2> QED
    BY <1>2, <2>1 DEF TypeOK, Idle, Pending
<1>4. Planned /\ Backed /\ CheckpointBacked /\ ContextMeansDurable
  BY <1>2 DEF Idle, Planned, Backed, CheckpointBacked, ContextMeansDurable, Pending
<1> QED
  BY <1>1, <1>3, <1>4 DEF Core

LEMMA CoreAlways == Spec => []Core
BY CoreInit, CoreStep, PTL DEF Spec

\* Whatever fails, is late or outlives its host, no checkpoint is stored without the
\* transcript it vouches for.
THEOREM CheckpointsAreBacked == Spec => []CheckpointBacked
<1>1. Core => CheckpointBacked
  BY DEF Core
<1> QED
  BY <1>1, CoreAlways, PTL

\* on_pre_compress returns only what is durable: the transcript and its checkpoint.
THEOREM ContextIsDurable == Spec => []ContextMeansDurable
<1>1. Core => ContextMeansDurable
  BY DEF Core
<1> QED
  BY <1>1, CoreAlways, PTL

-----------------------------------------------------------------------------
(* A conversation that grows *)

LEMMA ConcatAppend ==
  ASSUME NEW S, NEW s \in Seq(S), NEW t \in Seq(S), NEW m \in S
  PROVE  s \o Append(t, m) = Append(s \o t, m)
<1>1. <<m>> \in Seq(S) /\ s \o t \in Seq(S)
  BY ConcatProperties
<1>2. Append(t, m) = t \o <<m>> /\ Append(s \o t, m) = (s \o t) \o <<m>>
  BY <1>1, AppendIsConcat
<1>3. (s \o t) \o <<m>> = s \o (t \o <<m>>)
  BY <1>1, ConcatAssociative
<1> QED
  BY <1>2, <1>3

\* What is sent of more messages begins with what is sent of the first.
LEMMA VisibleConcat ==
  ASSUME NEW s \in Seq(Messages), NEW t \in Seq(Messages)
  PROVE  Visible(s \o t) = Visible(s) \o Visible(t)
<1> DEFINE K == {k \in Nat : \A u \in Seq(Messages) :
                               Len(u) = k => Visible(s \o u) = Visible(s) \o Visible(u)}
<1>0. Visible(s) \in Seq(Prints)
  BY VisibleKeeps
<1>1. 0 \in K
  <2> SUFFICES ASSUME NEW u \in Seq(Messages), Len(u) = 0
               PROVE  Visible(s \o u) = Visible(s) \o Visible(u)
    OBVIOUS
  <2>1. u = <<>>
    OBVIOUS
  <2>2. s \o <<>> = s /\ Visible(s) \o <<>> = Visible(s)
    BY <1>0, ConcatEmptySeq
  <2>3. \A v : v = <<>> => Visible(s \o v) = Visible(s) \o Visible(v)
    BY <2>2, VisibleEmpty, Zenon
  <2> QED
    BY <2>1, <2>3, Zenon
<1>2. ASSUME NEW k \in K PROVE k + 1 \in K
  <2> SUFFICES ASSUME NEW u \in Seq(Messages), Len(u) = k + 1
               PROVE  Visible(s \o u) = Visible(s) \o Visible(u)
    OBVIOUS
  <2>1. PICK front \in Seq(Messages), m \in Messages : u = Append(front, m) /\ Len(front) = k
    <3>1. u # <<>> /\ Len(u) - 1 = k
      OBVIOUS
    <3> QED
      BY <3>1, LastSplit
  <2>2. Visible(s \o front) = Visible(s) \o Visible(front)
    BY <2>1
  <2> HIDE DEF K
  <2>3. s \o front \in Seq(Messages) /\ s \o u = Append(s \o front, m)
    BY <2>1, ConcatProperties, ConcatAppend
  <2>4. Visible(s \o u) = IF m = Blank THEN Visible(s \o front) ELSE Append(Visible(s \o front), m)
    BY <2>3, VisibleStep
  <2>5. Visible(u) = IF m = Blank THEN Visible(front) ELSE Append(Visible(front), m)
    BY <2>1, VisibleStep
  <2>6. Visible(front) \in Seq(Prints)
    BY VisibleKeeps
  <2>7. CASE m = Blank
    BY <2>2, <2>4, <2>5, <2>7
  <2>8. CASE m # Blank
    <3>1. m \in Prints
      BY <2>8, PrintsOfMessages
    <3>2. Visible(s) \o Append(Visible(front), m) = Append(Visible(s) \o Visible(front), m)
      BY <1>0, <2>6, <3>1, ConcatAppend
    <3> QED
      BY <2>2, <2>4, <2>5, <2>8, <3>2
  <2> QED
    BY <2>7, <2>8
<1>3. K = Nat
  <2>1. K \in SUBSET Nat
    OBVIOUS
  <2> HIDE DEF K
  <2> QED
    BY <1>1, <1>2, <2>1, SetInduction
<1>4. Len(t) \in K
  BY <1>3
<1> QED
  BY <1>4

\* Behind the first part stand the messages of the second.
LEMMA CountBehind ==
  ASSUME NEW S, NEW s \in Seq(S), NEW t \in Seq(S), NEW p
  PROVE  Count(s \o t, p, Len(s) + 1) = Count(t, p, 1)
<1> DEFINE K == {k \in Nat : \A u \in Seq(S) :
                               Len(u) = k => Count(s \o u, p, Len(s) + 1) = Count(u, p, 1)}
<1>1. 0 \in K
  <2> SUFFICES ASSUME NEW u \in Seq(S), Len(u) = 0
               PROVE  Count(s \o u, p, Len(s) + 1) = Count(u, p, 1)
    OBVIOUS
  <2>1. u = <<>>
    OBVIOUS
  <2>2. s \o <<>> = s
    BY ConcatEmptySeq
  <2>3. {i \in Len(s) + 1 .. Len(s) : s[i] = p} = {}
    OBVIOUS
  <2>4. Count(s, p, Len(s) + 1) = 0 /\ Count(<<>>, p, 1) = 0
    BY <2>3, FS_EmptySet, CountEmpty DEF Count
  <2>5. \A v : v = <<>> => Count(s \o v, p, Len(s) + 1) = Count(v, p, 1)
    BY <2>2, <2>4, Zenon
  <2> QED
    BY <2>1, <2>5, Zenon
<1>2. ASSUME NEW k \in K PROVE k + 1 \in K
  <2> SUFFICES ASSUME NEW u \in Seq(S), Len(u) = k + 1
               PROVE  Count(s \o u, p, Len(s) + 1) = Count(u, p, 1)
    OBVIOUS
  <2>1. PICK front \in Seq(S), m \in S : u = Append(front, m) /\ Len(front) = k
    <3>1. u # <<>> /\ Len(u) - 1 = k
      OBVIOUS
    <3> QED
      BY <3>1, LastSplit
  <2>2. Count(s \o front, p, Len(s) + 1) = Count(front, p, 1) /\ k \in Nat
    BY <2>1
  <2> HIDE DEF K
  <2> DEFINE both == s \o front
  <2>3. both \in Seq(S) /\ s \o u = Append(both, m) /\ Len(both) = Len(s) + Len(front)
    <3>1. s \o front \in Seq(S) /\ Len(s \o front) = Len(s) + Len(front)
      BY ConcatProperties
    <3>2. s \o Append(front, m) = Append(s \o front, m)
      BY ConcatAppend
    <3> QED
      BY <2>1, <3>1, <3>2
  <2> HIDE DEF both
  <2>4. Len(s) + 1 \in 1 .. Len(both) + 1 /\ 1 \in 1 .. Len(front) + 1
    BY <2>1, <2>2, <2>3
  <2>5. Count(Append(both, m), p, Len(s) + 1) = Count(both, p, Len(s) + 1) + IF m = p THEN 1 ELSE 0
    BY <2>3, <2>4, CountAppend
  <2>6. Count(Append(front, m), p, 1) = Count(front, p, 1) + IF m = p THEN 1 ELSE 0
    BY <2>4, CountAppend
  <2> QED
    BY <2>1, <2>2, <2>3, <2>5, <2>6 DEF both
<1>3. K = Nat
  <2>1. K \in SUBSET Nat
    OBVIOUS
  <2> HIDE DEF K
  <2> QED
    BY <1>1, <1>2, <2>1, SetInduction
<1>4. Len(t) \in K
  BY <1>3
<1> QED
  BY <1>4

\* An earlier start counts no less.
LEMMA CountEarlier ==
  ASSUME NEW items, Len(items) \in Nat, NEW p, NEW from \in Nat, NEW later \in Nat, from <= later
  PROVE  /\ Count(items, p, from) \in Nat /\ Count(items, p, later) \in Nat
         /\ Count(items, p, later) <= Count(items, p, from)
<1> DEFINE Early == {i \in from..Len(items) : items[i] = p}
           Late == {i \in later..Len(items) : items[i] = p}
<1>1. IsFiniteSet(Early) /\ Count(items, p, from) \in Nat /\ Count(items, p, later) \in Nat
  <2>1. from \in Int /\ later \in Int /\ Len(items) \in Int
    OBVIOUS
  <2> QED
    BY <2>1, CountNat
<1>2. Late \in SUBSET Early
  OBVIOUS
<1>3. Cardinality(Late) <= Cardinality(Early)
  <2> HIDE DEF Late, Early
  <2> QED
    BY <1>1, <1>2, FS_Subset DEF Early
<1> QED
  BY <1>1, <1>3 DEF Count

LEMMA ConcatMentions ==
  ASSUME NEW s \in Seq(Messages), NEW t \in Seq(Messages), NEW m
  PROVE  Mentions(s \o t, m) <=> Mentions(s, m) \/ Mentions(t, m)
<1>1. /\ Len(s \o t) = Len(s) + Len(t) /\ Len(s) \in Nat /\ Len(t) \in Nat
      /\ \A i \in 1 .. Len(s) + Len(t) : (s \o t)[i] = IF i <= Len(s) THEN s[i] ELSE t[i - Len(s)]
  BY ConcatProperties
<1> DEFINE both == s \o t
<1> HIDE DEF both
<1>2. ASSUME Mentions(both, m) PROVE Mentions(s, m) \/ Mentions(t, m)
  <2>1. PICK i \in 1 .. Len(s) + Len(t) : both[i] = m
    BY <1>1, <1>2 DEF Mentions, both
  <2>2. CASE i <= Len(s)
    <3>1. i \in 1..Len(s) /\ s[i] = m
      BY <1>1, <2>1, <2>2 DEF both
    <3> QED
      BY <3>1 DEF Mentions
  <2>3. CASE ~(i <= Len(s))
    <3>1. i - Len(s) \in 1..Len(t) /\ t[i - Len(s)] = m
      BY <1>1, <2>1, <2>3 DEF both
    <3> QED
      BY <3>1 DEF Mentions
  <2> QED
    BY <2>2, <2>3
<1>3. ASSUME NEW i \in 1..Len(s), s[i] = m PROVE Mentions(both, m)
  <2>1. i \in 1 .. Len(s) + Len(t) /\ i <= Len(s)
    BY <1>1
  <2>2. both[i] = m /\ i \in 1..Len(both)
    BY <1>1, <1>3, <2>1 DEF both
  <2> QED
    BY <2>2 DEF Mentions
<1>4. ASSUME NEW i \in 1..Len(t), t[i] = m PROVE Mentions(both, m)
  <2>1. i + Len(s) \in 1 .. Len(s) + Len(t) /\ ~(i + Len(s) <= Len(s)) /\ (i + Len(s)) - Len(s) = i
    BY <1>1
  <2>2. both[i + Len(s)] = m /\ i + Len(s) \in 1..Len(both)
    BY <1>1, <1>4, <2>1 DEF both
  <2> QED
    BY <2>2 DEF Mentions
<1> QED
  BY <1>2, <1>3, <1>4 DEF Mentions, both

\* What is older than a conversation is older than what grows from it.
LEMMA OlderGrows ==
  ASSUME NEW s \in Seq(Messages), NEW t \in Seq(Messages), NEW items, Len(items) \in Nat,
         Older(items, s)
  PROVE  Older(items, s \o t)
<1>1. Visible(s) \in Seq(Prints) /\ Visible(t) \in Seq(Prints)
  BY VisibleKeeps
<1>2. Len(Visible(s \o t)) = Len(Visible(s)) + Len(Visible(t))
      /\ Len(Visible(s)) \in Nat /\ Len(Visible(t)) \in Nat
  BY <1>1, VisibleConcat, ConcatProperties
<1>3. CASE Len(items) <= Len(Visible(s))
  BY <1>2, <1>3 DEF Older
<1>4. CASE ~(Len(items) <= Len(Visible(s)))
  <2>1. PICK m \in Summaries : Mentions(s, m) /\ ~Mentions(items, m)
    BY <1>4 DEF Older
  <2>2. Mentions(s \o t, m)
    BY <2>1, ConcatMentions
  <2> QED
    BY <2>1, <2>2 DEF Older
<1> QED
  BY <1>3, <1>4

\* A turn is behind everything the previous snapshot can be aligned with: its messages are
\* none of those that are taken for sent already.
LEMMA OverlapBefore ==
  ASSUME NEW previous \in Seq(Store!Entries), NEW s \in Seq(Messages), NEW t \in Seq(Messages),
         Older([i \in 1..Len(previous) |-> previous[i].print], s),
         NEW overlap \in 0..Len(Visible(s \o t)),
         Store!Aligned(previous, Visible(s \o t), overlap)
  PROVE  overlap <= Len(Visible(s))
<1> DEFINE prints == [i \in 1..Len(previous) |-> previous[i].print]
           L == Len(Visible(s))
           items == Visible(s \o t)
<1> SUFFICES ASSUME ~(overlap <= L) PROVE FALSE
  OBVIOUS
<1>1. Visible(s) \in Seq(Prints) /\ Visible(t) \in Seq(Prints)
  BY VisibleKeeps
<1>2. /\ items = Visible(s) \o Visible(t) /\ L \in Nat
      /\ Len(items) = L + Len(Visible(t)) /\ Len(Visible(t)) \in Nat
      /\ \A i \in 1..L : items[i] = Visible(s)[i]
  <2>1. items = Visible(s) \o Visible(t)
    BY VisibleConcat
  <2>2. L \in Nat /\ Len(Visible(t)) \in Nat
    BY <1>1
  <2>3. /\ Len(Visible(s) \o Visible(t)) = L + Len(Visible(t))
        /\ \A i \in 1 .. L + Len(Visible(t)) :
             (Visible(s) \o Visible(t))[i] = IF i <= L THEN Visible(s)[i] ELSE Visible(t)[i - L]
    BY <1>1, ConcatProperties
  <2>4. \A i \in 1..L : i \in 1 .. L + Len(Visible(t)) /\ i <= L
    BY <2>2
  <2> QED
    BY <2>1, <2>2, <2>3, <2>4
<1>3. Len(previous) \in Nat /\ Len(prints) = Len(previous)
  OBVIOUS
<1>4. /\ overlap \in Nat /\ overlap <= Len(previous)
      /\ \A i \in 1..overlap : previous[Len(previous) - overlap + i].print = items[i]
  BY <1>2 DEF Store!Aligned
<1> HIDE DEF items, L
<1>5. PICK m \in Summaries : Mentions(s, m) /\ ~Mentions(prints, m)
  <2>1. ~(Len(prints) <= L)
    BY <1>2, <1>3, <1>4
  <2> QED
    BY <2>1 DEF Older, L
<1>6. Mentions(Visible(s), m)
  BY <1>5, VisibleKeeps DEF Prints
<1>7. PICK i \in 1..L : Visible(s)[i] = m
  BY <1>6 DEF Mentions, L
<1> DEFINE j == Len(previous) - overlap + i
<1>8. j \in 1..Len(previous) /\ previous[j].print = m
  <2>1. i \in 1..overlap /\ j \in 1..Len(previous)
    BY <1>2, <1>3, <1>4
  <2> QED
    BY <1>2, <1>4, <1>7, <2>1
<1>9. Mentions(prints, m)
  BY <1>3, <1>8 DEF Mentions
<1> QED
  BY <1>5, <1>9

-----------------------------------------------------------------------------
(* A host that passes its messages *)

\* TurnsAhead and TurnsKept over explicit values.
Turn(c, m) ==
  c.purpose = "turn" /\ c.outcome = "pending" =>
    c.todo = SnapshotRun(m) /\ m = SubSeq(m, 1, Len(m) - Len(c.said)) \o c.said
Recorded(items, w) == \A m \in Summaries : Mentions(items, m) => m \in w
Prior(c, m, ch) ==
  IF c.purpose = "turn" /\ c.outcome = "pending" /\ ch \in {"none", "running"}
  THEN SubSeq(m, 1, Len(m) - Len(c.said)) ELSE m
PrintsOf(entries) == [i \in 1..Len(entries) |-> entries[i].print]
LeftSnapshots(left) == {run \in left : run.command = "snapshot"}
SentOf(entries, left) == {PrintsOf(entries)} \union {run.items : run \in LeftSnapshots(left)}
AllOlder(sent, t, w) == \A items \in sent : Older(items, t) /\ Recorded(items, w)
Paid(c, ch, said, count) ==
  c.purpose = "turn" /\ (Finished(ch) \/ c.outcome = "returned") =>
    \A p \in Contents : said[p] + Count(c.said, p, 1) <= count[p]
Kept(said, count) == \A p \in Contents : said[p] <= count[p]

Turns ==
  /\ Turn(call, messages) /\ Recorded(messages, written)
  /\ AllOlder(SentOf(state[Session], RunsLeft), Prior(call, messages, child), written)
  /\ Paid(call, child, delivered, counters[Session]) /\ Kept(delivered, counters[Session])

LEMMA TurnsOverValues ==
  ASSUME Listed \subseteq {TRUE}
  PROVE  TurnsAhead /\ TurnsKept <=> Turns
BY SameCounts
   DEF TurnsAhead, TurnsKept, Turns, Turn, Recorded, Prior, PrintsOf, SentOf, LeftSnapshots,
       AllOlder, Paid, Kept, Sent, Known, Uncommitted, Pending, Done, Finished

LEMMA TurnsFromParts ==
  ASSUME Turn(call', messages'), Recorded(messages', written'),
         AllOlder(SentOf(state'[Session], RunsLeft'), Prior(call', messages', child'), written'),
         Paid(call', child', delivered', counters'[Session]), Kept(delivered', counters'[Session])
  PROVE  Turns'
BY DEF Turns

\* What was sent are sequences.
LEMMA SentTyped ==
  ASSUME Store!IInv, Left(RunsLeft, records)
  PROVE  \A items \in SentOf(state[Session], RunsLeft) : Len(items) \in Nat
<1>1. Len(PrintsOf(state[Session])) \in Nat
  <2>1. Len(state[Session]) \in Nat
    BY StoreTyped
  <2> QED
    BY <2>1 DEF PrintsOf
<1>2. ASSUME NEW run \in LeftSnapshots(RunsLeft) PROVE Len(run.items) \in Nat
  <2>1. run.items \in Store!Snapshots
    BY <1>2 DEF Left, LeftSnapshots
  <2>2. run.items \in Proved!Snapshots
    BY <2>1, SameSets
  <2>3. Len(run.items) \in 0..MaxMessages
    BY <2>2, StoreAssumptions, Proved!SnapshotIsSeq
  <2> QED
    BY <2>3, BoundsAssumption
<1> QED
  BY <1>1, <1>2 DEF SentOf

\* The conversation before a turn that is not stored, and the turn.
LEMMA PriorOfTurn ==
  ASSUME TypeOK, Turn(call, messages), call.purpose = "turn", Pending
  PROVE  LET prior == SubSeq(messages, 1, Len(messages) - Len(call.said)) IN
         /\ prior \in Seq(Messages) /\ call.said \in Seq(Messages)
         /\ messages = prior \o call.said
<1>1. messages \in Seq(Messages) /\ call.said \in Seq(Messages) /\ call.outcome = "pending"
  BY DEF TypeOK, Pending
<1>2. 1 \in Int /\ Len(messages) - Len(call.said) \in Int
      /\ \A i \in 1 .. Len(messages) - Len(call.said) : messages[i] \in Messages
  BY <1>1
<1>3. SubSeq(messages, 1, Len(messages) - Len(call.said)) \in Seq(Messages)
  BY <1>2, SubSeqProperties
<1> QED
  BY <1>1, <1>3 DEF Turn

\* What is older than the conversation without the turn is older than all of it.
LEMMA OlderKnown ==
  ASSUME Core, Turns, NEW items \in SentOf(state[Session], RunsLeft)
  PROVE  /\ Older(items, messages) /\ Recorded(items, written)
         /\ Older(items, Prior(call, messages, child))
<1>1. TypeOK /\ Store!IInv /\ Left(RunsLeft, records)
  BY CoreParts
<1>2. Older(items, Prior(call, messages, child)) /\ Recorded(items, written) /\ Len(items) \in Nat
  BY <1>1, SentTyped DEF Turns, AllOlder
<1>3. CASE Prior(call, messages, child) = messages
  BY <1>2, <1>3
<1>4. CASE Prior(call, messages, child) # messages
  <2> DEFINE prior == SubSeq(messages, 1, Len(messages) - Len(call.said))
  <2>1. call.purpose = "turn" /\ Pending /\ Prior(call, messages, child) = prior
    BY <1>4 DEF Prior, Pending
  <2>2. prior \in Seq(Messages) /\ call.said \in Seq(Messages) /\ messages = prior \o call.said
    BY <1>1, <2>1, PriorOfTurn DEF Turns
  <2> HIDE DEF prior
  <2>3. Older(items, prior \o call.said)
    BY <1>2, <2>1, <2>2, OlderGrows
  <2> QED
    BY <1>2, <2>2, <2>3
<1> QED
  BY <1>3, <1>4

LEMMA TurnsProvide ==
  ASSUME Core, Turns, Provide \/ ChildFails \/ ChildProjects \/ UNCHANGED vars
  PROVE  Turns'
<1>1. TypeOK /\ Plan(call, messages)
  BY CoreParts
<1>2. /\ messages' = messages /\ written' = written /\ delivered' = delivered /\ RunsLeft' = RunsLeft
      /\ state' = state /\ counters' = counters
  BY DEF RunsLeft, Provide, Spawn, Refuse, RunReturns, Timeout, AfterKill, ChildFails, ChildProjects,
         vars, host, store
<1>3. \/ call' = call
      \/ call' = Raised
      \/ call' = Advanced /\ child \in {"succeeded", "failed"} /\ child # "failed"
  BY DEF Provide, Spawn, Refuse, RunReturns, Timeout, ChildFails, ChildProjects, vars
<1>4. /\ call'.purpose = call.purpose /\ call'.said = call.said
      /\ call' # call => \/ call'.outcome = "raised"
                         \/ call'.outcome = Outcome(Tail(call.todo)) /\ child = "succeeded"
  BY <1>1, <1>3 DEF Raised, Advanced, TypeOK
<1>5. call'.purpose = "turn" /\ call'.outcome = "pending" => call' = call
  <2> SUFFICES ASSUME call'.purpose = "turn", call'.outcome = "pending", call' # call PROVE FALSE
    OBVIOUS
  <2>1. Pending /\ call.purpose = "turn"
    BY <1>1, <1>4 DEF TypeOK
  <2>2. Tail(call.todo) = <<>>
    BY <1>1, <2>1, NextRun
  <2> QED
    BY <1>4, <2>2 DEF Outcome
<1>6. Turn(call', messages')
  BY <1>2, <1>5 DEF Turns, Turn
<1>7. \/ Prior(call', messages', child') = messages
      \/ Prior(call', messages', child') = Prior(call, messages, child)
  <2>1. CASE call' = call /\ (child' \in {"none", "running"} => child \in {"none", "running"})
    BY <1>2, <2>1 DEF Prior
  <2>2. CASE call' # call
    BY <1>2, <1>5, <2>2 DEF Prior
  <2>3. call' = call => (child' \in {"none", "running"} => child \in {"none", "running"})
    <3>1. CASE Spawn \/ ChildFails \/ ChildProjects \/ UNCHANGED vars
      BY <3>1 DEF Spawn, ChildFails, ChildProjects, vars
    <3>2. CASE Refuse \/ RunReturns \/ Timeout
      <4>1. call'.outcome = "raised" \/ call'.todo = Tail(call.todo)
        BY <1>1, <3>2 DEF Refuse, RunReturns, Timeout, Raised, Advanced, TypeOK
      <4>2. Pending
        BY <1>1, <3>2 DEF Refuse, RunReturns, Timeout, MayBeLate, TypeOK
      <4>3. call.outcome = "pending" /\ call.todo # <<>> /\ call.todo \in Seq(Runs)
        BY <1>1, <4>2 DEF TypeOK, Pending
      <4>4. Tail(call.todo) # call.todo
        <5>1. \A q \in Seq(Runs) : q # <<>> => Tail(q) # q
          <6>1. \A a, b : Len(a) = Len(b) - 1 /\ Len(b) \in Nat => a # b
            <7> SUFFICES ASSUME NEW a, NEW b, Len(a) = Len(b) - 1, Len(b) \in Nat, a = b PROVE FALSE
              OBVIOUS
            <7>1. Len(a) = Len(b)
              OBVIOUS
            <7> QED
              BY <7>1
          <6>2. \A q \in Seq(Runs) : q # <<>> => Len(Tail(q)) = Len(q) - 1 /\ Len(q) \in Nat
            <7> SUFFICES ASSUME NEW q \in Seq(Runs), q # <<>>
                         PROVE  Len(Tail(q)) = Len(q) - 1 /\ Len(q) \in Nat
              OBVIOUS
            <7> QED
              BY HeadTailProperties
          <6> QED
            BY <6>1, <6>2, Zenon
        <5> QED
          BY <4>3, <5>1
      <4> QED
        BY <4>1, <4>3, <4>4
    <3> QED
      BY <3>1, <3>2 DEF Provide
  <2> QED
    BY <2>1, <2>2, <2>3
<1>8. AllOlder(SentOf(state'[Session], RunsLeft'), Prior(call', messages', child'), written')
  BY <1>2, <1>7, OlderKnown DEF AllOlder
<1>9. Paid(call', child', delivered', counters'[Session])
  <2> SUFFICES ASSUME call.purpose = "turn", Finished(child') \/ call'.outcome = "returned"
               PROVE  Finished(child) \/ call.outcome = "returned"
    BY <1>2, <1>4 DEF Turns, Paid
  <2>1. CASE Finished(child')
    <3>1. Finished(child)
      BY <2>1 DEF Provide, Spawn, Refuse, RunReturns, Timeout, ChildFails, ChildProjects, vars, Finished
    <3> QED
      BY <3>1
  <2>2. CASE call'.outcome = "returned"
    BY <1>4, <2>2 DEF Finished
  <2> QED
    BY <2>1, <2>2
<1>10. Recorded(messages', written') /\ Kept(delivered', counters'[Session])
  BY <1>2 DEF Turns
<1> QED
  BY <1>6, <1>8, <1>9, <1>10, TurnsFromParts

\* What the store makes of a snapshot: it is the previous one for the next.
LEMMA StoredIsSent ==
  ASSUME Store!IInv, NEW items \in Store!Snapshots, Store!IngestSnapshot(Session, items)
  PROVE  PrintsOf(state'[Session]) = items
<1>1. /\ items \in Seq(Prints) /\ Len(items) \in 0..MaxMessages
      /\ Len(state'[Session]) = Len(items)
      /\ \A i \in 1..Len(items) : state'[Session][i].print = items[i]
  BY SnapshotCommitted
<1>2. items = [i \in 1..Len(items) |-> items[i]]
  BY <1>1
<1>3. PrintsOf(state'[Session]) = [i \in 1..Len(items) |-> items[i]]
  BY <1>1 DEF PrintsOf
<1> QED
  BY <1>2, <1>3

\* Counters never go back.
LEMMA CountersGrow ==
  ASSUME Store!IInv, Vouched(records), NEW run, Allowed(run, records), Commit(run)
  PROVE  \A p \in Prints : /\ counters[Session][p] \in Nat /\ counters'[Session][p] \in Nat
                           /\ counters[Session][p] <= counters'[Session][p]
<1>1. CASE run.command = "snapshot"
  <2>1. Store!IngestSnapshot(Session, run.items) /\ run.items \in Store!Snapshots
    BY <1>1, RunCommitted DEF Allowed
  <2> DEFINE overlap == Store!Overlap(state[Session], run.items)
  <2>2. \A p \in Prints :
          /\ counters[Session][p] \in Nat /\ counters'[Session][p] \in Nat
          /\ counters'[Session][p] = counters[Session][p] + Count(run.items, p, overlap + 1)
          /\ Count(run.items, p, overlap + 1) \in Nat
    BY <2>1, SnapshotCommitted
  <2> QED
    BY <2>2
<1>2. CASE run.command # "snapshot"
  <2>1. counters' = counters
    BY <1>2, RunCommitted
  <2>2. \A p \in Prints : counters[Session][p] \in Nat
    BY StoreTyped
  <2> QED
    BY <2>1, <2>2
<1> QED
  BY <1>1, <1>2

\* What is delivered stays counted when counters grow.
LEMMA CountsGrow ==
  ASSUME TypeOK, NEW old, NEW new,
         \A p \in Prints : old[p] \in Nat /\ new[p] \in Nat /\ old[p] <= new[p]
  PROVE  /\ Paid(call, child, delivered, old) => Paid(call, child, delivered, new)
         /\ Kept(delivered, old) => Kept(delivered, new)
<1>1. \A p \in Contents : delivered[p] \in Nat /\ Count(call.said, p, 1) \in Nat /\ p \in Prints
  <2>1. 1 \in Int /\ Len(call.said) \in Int
    BY DEF TypeOK
  <2> QED
    BY <2>1, CountNat DEF TypeOK, Prints
<1> QED
  BY <1>1 DEF Paid, Kept

LEMMA TurnsOrphans ==
  ASSUME Core, Turns, NEW orphan \in orphans, OrphanCommits(orphan) \/ OrphanDies(orphan)
  PROVE  Turns'
<1> DEFINE run == orphan.run
<1>1. TypeOK /\ Store!IInv /\ Left(RunsLeft, records) /\ Vouched(records)
  BY CoreParts
<1>2. /\ messages' = messages /\ written' = written /\ delivered' = delivered
      /\ RunsLeft' \subseteq RunsLeft /\ run \in RunsLeft /\ call' = call /\ child' = child
  BY DEF OrphanCommits, OrphanDies, host, RunsLeft
<1>3. SentOf(state'[Session], RunsLeft') \subseteq SentOf(state[Session], RunsLeft)
  <2>1. LeftSnapshots(RunsLeft') \subseteq LeftSnapshots(RunsLeft)
    BY <1>2 DEF LeftSnapshots
  <2>2. PrintsOf(state'[Session]) \in SentOf(state[Session], RunsLeft)
    <3>1. CASE state' = state
      BY <3>1 DEF SentOf
    <3>2. CASE OrphanCommits(orphan)
      <4>1. Allowed(run, records) /\ Commit(run)
        BY <1>1, <1>2, <3>2 DEF TypeOK, Left, Allowed, OrphanCommits
      <4>2. CASE run.command = "snapshot"
        <5>1. Store!IngestSnapshot(Session, run.items) /\ run.items \in Store!Snapshots
          BY <1>1, <4>1, <4>2, RunCommitted DEF Allowed
        <5>2. PrintsOf(state'[Session]) = run.items /\ run \in LeftSnapshots(RunsLeft)
          BY <1>1, <1>2, <4>2, <5>1, StoredIsSent DEF LeftSnapshots
        <5> QED
          BY <5>2 DEF SentOf
      <4>3. CASE run.command # "snapshot"
        <5>1. state' = state
          BY <1>1, <4>1, <4>3, RunCommitted
        <5> QED
          BY <5>1 DEF SentOf
      <4> QED
        BY <4>2, <4>3
    <3>3. CASE OrphanDies(orphan)
      <4>1. state' = state
        BY <3>3 DEF OrphanDies, store
      <4> QED
        BY <4>1 DEF SentOf
    <3> QED
      BY <3>2, <3>3
  <2> QED
    BY <2>1, <2>2 DEF SentOf
<1>4. AllOlder(SentOf(state'[Session], RunsLeft'), Prior(call', messages', child'), written')
  BY <1>2, <1>3 DEF Turns, AllOlder
<1>5. \A p \in Prints : /\ counters[Session][p] \in Nat /\ counters'[Session][p] \in Nat
                        /\ counters[Session][p] <= counters'[Session][p]
  <2>1. CASE OrphanCommits(orphan)
    <3>1. Allowed(run, records) /\ Commit(run)
      BY <1>1, <1>2, <2>1 DEF TypeOK, Left, Allowed, OrphanCommits
    <3> QED
      BY <1>1, <3>1, CountersGrow
  <2>2. CASE OrphanDies(orphan)
    BY <1>1, <2>2, StoreTyped DEF OrphanDies, store
  <2> QED
    BY <2>1, <2>2
<1>6. Paid(call', child', delivered', counters'[Session]) /\ Kept(delivered', counters'[Session])
  BY <1>1, <1>2, <1>5, CountsGrow DEF Turns
<1>7. Turn(call', messages') /\ Recorded(messages', written')
  BY <1>2 DEF Turns
<1> QED
  BY <1>4, <1>6, <1>7, TurnsFromParts

\* A snapshot that is under way is one of the whole conversation.
LEMMA SnapshotOfMessages ==
  ASSUME TypeOK, Plan(call, messages), Turns, Pending, Head(call.todo).command = "snapshot"
  PROVE  Head(call.todo).items = Visible(messages)
<1>1. CASE call.purpose = "compress"
  BY <1>1, NextRun
<1>2. CASE call.purpose = "turn"
  <2>1. call.todo = SnapshotRun(messages) /\ call.todo # <<>>
    BY <1>2 DEF Turns, Turn, TypeOK, Pending
  <2>2. call.todo = <<[command |-> "snapshot", items |-> Visible(messages)]>>
    BY <2>1 DEF SnapshotRun
  <2> QED
    BY <2>2
<1> QED
  BY <1>1, <1>2, NextRun

\* A snapshot of the conversation is stored behind everything the previous one held.
LEMMA TurnsChildCommits ==
  ASSUME Core, Turns, ChildCommits
  PROVE  Turns'
<1> DEFINE run == Head(call.todo)
<1>1. /\ TypeOK /\ Store!IInv /\ Plan(call, messages) /\ Left(RunsLeft, records)
      /\ Vouched(records) /\ Underway(call, messages, child, records)
  BY CoreParts
<1>2. /\ messages' = messages /\ written' = written /\ delivered' = delivered
      /\ RunsLeft' = RunsLeft /\ call' = call /\ child = "running" /\ child' = "committed"
      /\ Commit(run)
  BY DEF ChildCommits, host, RunsLeft
<1>3. Pending /\ call.outcome = "pending" /\ messages \in Seq(Messages) /\ Len(messages) <= MaxMessages
  BY <1>1, <1>2 DEF TypeOK, Pending
<1>4. Allowed(run, records)
  BY <1>1, <1>3, ChildAllowed
<1>5. Turn(call', messages') /\ Recorded(messages', written')
  BY <1>2 DEF Turns
<1>6. Prior(call', messages', child') = messages
  BY <1>2 DEF Prior
<1>7. \A p \in Prints : /\ counters[Session][p] \in Nat /\ counters'[Session][p] \in Nat
                        /\ counters[Session][p] <= counters'[Session][p]
  BY <1>1, <1>2, <1>4, CountersGrow
<1>8. Kept(delivered', counters'[Session])
  BY <1>1, <1>2, <1>7, CountsGrow DEF Turns
<1>9. CASE run.command = "ingest"
  <2>1. call.purpose # "turn" /\ state' = state
    BY <1>1, <1>2, <1>3, <1>4, <1>9, NextRun, RunCommitted
  <2>2. AllOlder(SentOf(state'[Session], RunsLeft'), Prior(call', messages', child'), written')
    BY <1>2, <1>6, <2>1, OlderKnown DEF AllOlder
  <2>3. Paid(call', child', delivered', counters'[Session])
    BY <1>2, <2>1 DEF Paid
  <2> QED
    BY <1>5, <1>8, <2>2, <2>3, TurnsFromParts
<1>10. CASE run.command = "snapshot"
  <2>1. run.items \in Store!Snapshots /\ Store!IngestSnapshot(Session, run.items)
    BY <1>1, <1>2, <1>4, <1>10, RunCommitted DEF Allowed
  <2>2. run.items = Visible(messages)
    BY <1>1, <1>3, <1>10, SnapshotOfMessages
  <2>3. /\ Visible(messages) \in Seq(Prints) /\ Len(Visible(messages)) \in Nat
        /\ \A p \in Prints : Mentions(Visible(messages), p) <=> Mentions(messages, p)
    BY <1>3, VisibleKeeps
  <2>4. PrintsOf(state'[Session]) = Visible(messages)
    BY <1>1, <2>1, <2>2, StoredIsSent
  <2>5. Older(Visible(messages), messages) /\ Recorded(Visible(messages), written)
    <3>1. Older(Visible(messages), messages)
      BY <2>3 DEF Older
    <3>2. \A m \in Summaries : m \in Prints
      BY DEF Prints
    <3> QED
      BY <2>3, <3>1, <3>2 DEF Recorded, Turns
  <2>6. AllOlder(SentOf(state'[Session], RunsLeft'), Prior(call', messages', child'), written')
    <3>1. \A items \in SentOf(state[Session], RunsLeft) :
            Older(items, messages) /\ Recorded(items, written)
      BY OlderKnown
    <3> QED
      BY <1>2, <1>6, <2>4, <2>5, <3>1 DEF AllOlder, SentOf
  <2>7. Paid(call', child', delivered', counters'[Session])
    <3> SUFFICES ASSUME call.purpose = "turn", NEW p \in Contents
                 PROVE  delivered[p] + Count(call.said, p, 1) <= counters'[Session][p]
      BY <1>2 DEF Paid
    <3> DEFINE prior == SubSeq(messages, 1, Len(messages) - Len(call.said))
               said == call.said
               overlap == Store!Overlap(state[Session], run.items)
    <3>1. prior \in Seq(Messages) /\ said \in Seq(Messages) /\ messages = prior \o said
      BY <1>1, <1>3, PriorOfTurn DEF Turns
    <3>2. Older(PrintsOf(state[Session]), prior)
      <4>1. Prior(call, messages, child) = prior
        BY <1>2, <1>3 DEF Prior
      <4> QED
        BY <4>1 DEF Turns, AllOlder, SentOf
    <3> HIDE DEF prior
    <3>3. /\ overlap \in 0..Len(run.items) /\ Store!Aligned(state[Session], run.items, overlap)
          /\ Len(run.items) \in 0..MaxMessages
          /\ counters[Session][p] \in Nat
          /\ counters'[Session][p] = counters[Session][p] + Count(run.items, p, overlap + 1)
      BY <1>1, <2>1, SnapshotCommitted DEF Prints
    <3> HIDE DEF overlap, run
    <3>4. /\ run.items = Visible(prior \o said)
          /\ Visible(prior \o said) = Visible(prior) \o Visible(said)
          /\ Visible(prior) \in Seq(Prints) /\ Visible(said) \in Seq(Prints)
          /\ Len(Visible(prior)) \in Nat
      BY <2>2, <3>1, VisibleConcat, VisibleKeeps
    <3>5. overlap <= Len(Visible(prior))
      <4>1. state[Session] \in Seq(Store!Entries)
        BY <1>1, StoreTyped
      <4> QED
        BY <3>1, <3>2, <3>3, <3>4, <4>1, OverlapBefore DEF PrintsOf
    <3>6. Count(run.items, p, Len(Visible(prior)) + 1) = Count(said, p, 1)
      <4>1. Count(Visible(prior) \o Visible(said), p, Len(Visible(prior)) + 1)
              = Count(Visible(said), p, 1)
        BY <3>4, CountBehind
      <4>2. Count(Visible(said), p, 1) = Count(said, p, 1)
        BY <3>1, VisibleKeeps DEF Prints
      <4> QED
        BY <3>4, <4>1, <4>2
    <3>7. /\ Count(run.items, p, Len(Visible(prior)) + 1) \in Nat
          /\ Count(run.items, p, overlap + 1) \in Nat
          /\ Count(run.items, p, Len(Visible(prior)) + 1) <= Count(run.items, p, overlap + 1)
      <4>1. overlap + 1 \in Nat /\ Len(Visible(prior)) + 1 \in Nat
            /\ overlap + 1 <= Len(Visible(prior)) + 1 /\ Len(run.items) \in Nat
        BY <3>3, <3>4, <3>5, BoundsAssumption
      <4> QED
        BY <4>1, CountEarlier
    <3>8. delivered[p] \in Nat /\ delivered[p] <= counters[Session][p]
      BY <1>1 DEF TypeOK, Turns, Kept
    <3> QED
      BY <3>3, <3>6, <3>7, <3>8
  <2> QED
    BY <1>5, <1>8, <2>6, <2>7, TurnsFromParts
<1> QED
  BY <1>4, <1>9, <1>10 DEF Allowed, Runs

LEMMA BeginningOfConcat ==
  ASSUME NEW S, NEW s \in Seq(S), NEW t \in Seq(S)
  PROVE  SubSeq(s \o t, 1, Len(s)) = s
<1>1. CASE s = <<>>
  <2>1. SubSeq(s \o t, 1, 0) = <<>> /\ Len(s) = 0
    <3>1. 1 \in Int /\ 0 \in Int /\ 0 < 1
      OBVIOUS
    <3> QED
      BY <1>1, <3>1, SubSeqEmpty
  <2> QED
    BY <1>1, <2>1
<1>2. CASE s # <<>>
  <2>1. 1 \in 1..Len(s) /\ Len(s) \in 1..Len(s)
    BY <1>2
  <2> QED
    BY <2>1, SubSeqOfConcat1, SubSeqFull
<1> QED
  BY <1>1, <1>2

LEMMA TurnsSyncTurn ==
  ASSUME Core, Turns, NEW said \in Said, SyncTurn(said, TRUE)
  PROVE  Turns'
<1>1. TypeOK /\ Store!IInv /\ Left(RunsLeft, records)
  BY CoreParts
<1>2. /\ said \in Seq(Messages) /\ Len(said) = 2 /\ messages \in Seq(Messages)
      /\ Len(messages) \in Nat
  BY <1>1, SaidTyped DEF TypeOK
<1>3. /\ messages' = messages \o said
      /\ call' = [purpose |-> "turn", outcome |-> Outcome(SnapshotRun(messages')),
                  todo |-> SnapshotRun(messages'), said |-> said]
      /\ child' = child /\ RunsLeft' = RunsLeft /\ written' = written /\ delivered' = delivered
      /\ state' = state /\ counters' = counters /\ call.outcome = "idle"
  BY DEF SyncTurn, Begin, store, RunsLeft
<1>4. child = "none"
  BY <1>1, <1>3 DEF TypeOK, Pending
<1>5. messages' \in Seq(Messages) /\ SubSeq(messages', 1, Len(messages') - Len(said)) = messages
  <2>1. messages \o said \in Seq(Messages) /\ Len(messages \o said) = Len(messages) + Len(said)
    BY <1>2, ConcatProperties
  <2>2. SubSeq(messages \o said, 1, Len(messages)) = messages
    BY <1>2, BeginningOfConcat
  <2>3. Len(messages') - Len(said) = Len(messages)
    BY <1>2, <1>3, <2>1
  <2> QED
    BY <1>3, <2>1, <2>2, <2>3
<1>6. Turn(call', messages')
  BY <1>3, <1>5 DEF Turn
<1>7. Recorded(messages', written')
  <2>1. \A m \in Summaries : ~Mentions(said, m)
    <3>1. \A i \in 1..Len(said) : said[i] \in Contents \union {Blank}
      <4>1. PICK a \in Contents \union {Blank}, b \in Contents \union {Blank} : said = <<a, b>>
        BY DEF Said, Contents
      <4>2. \A i \in 1..Len(said) : i = 1 \/ i = 2
        BY <1>2
      <4> QED
        BY <4>1, <4>2
    <3> QED
      BY <3>1, MessagesAssumption DEF Mentions, Contents
  <2>2. \A m \in Summaries : Mentions(messages', m) => Mentions(messages, m)
    BY <1>2, <1>3, <2>1, ConcatMentions
  <2> QED
    BY <1>3, <2>2 DEF Recorded, Turns
<1>8. AllOlder(SentOf(state'[Session], RunsLeft'), Prior(call', messages', child'), written')
  <2> SUFFICES ASSUME NEW items \in SentOf(state[Session], RunsLeft)
               PROVE  Older(items, Prior(call', messages', child')) /\ Recorded(items, written)
    BY <1>3 DEF AllOlder
  <2>1. Older(items, messages) /\ Recorded(items, written) /\ Len(items) \in Nat
    BY <1>1, OlderKnown, SentTyped
  <2>2. Older(items, messages \o said)
    BY <1>2, <2>1, OlderGrows
  <2>3. Prior(call', messages', child') \in {messages, messages \o said}
    BY <1>3, <1>5 DEF Prior
  <2> QED
    BY <2>1, <2>2, <2>3
<1>9. Paid(call', child', delivered', counters'[Session])
  <2> SUFFICES ASSUME call'.outcome = "returned", NEW p \in Contents
               PROVE  delivered[p] + Count(said, p, 1) <= counters[Session][p]
    BY <1>3, <1>4 DEF Paid, Finished
  <2>1. Visible(messages \o said) = <<>>
    BY <1>3 DEF Outcome, SnapshotRun
  <2>2. Visible(messages) \in Seq(Prints) /\ Visible(said) \in Seq(Prints)
    BY <1>2, VisibleKeeps
  <2>3. Visible(said) = <<>>
    BY <1>2, <2>1, <2>2, VisibleConcat, ConcatEqualIffEmpty
  <2>4. Count(said, p, 1) = 0
    BY <1>2, <2>3, VisibleKeeps, CountEmpty DEF Prints
  <2>5. delivered[p] \in Nat /\ delivered[p] <= counters[Session][p]
    BY <1>1 DEF TypeOK, Turns, Kept
  <2> QED
    BY <2>4, <2>5
<1>10. Kept(delivered', counters'[Session])
  BY <1>3 DEF Turns
<1> QED
  BY <1>6, <1>7, <1>8, <1>9, <1>10, TurnsFromParts

\* Calls that are no turns.
LEMMA TurnsBegins ==
  ASSUME Core, Turns, NEW purpose \in {"event", "compress"}, NEW todo,
         Begin(purpose, todo, <<>>), messages' = messages
  PROVE  Turns'
<1>1. TypeOK
  BY CoreParts
<1>2. /\ call'.purpose = purpose /\ RunsLeft' = RunsLeft /\ written' = written
      /\ delivered' = delivered /\ state' = state /\ counters' = counters
      /\ call.outcome = "idle"
  BY DEF Begin, store, RunsLeft
<1>3. Turn(call', messages') /\ Paid(call', child', delivered', counters'[Session])
  BY <1>2 DEF Turn, Paid
<1>4. Prior(call', messages', child') = messages
  BY <1>2 DEF Prior
<1>5. AllOlder(SentOf(state'[Session], RunsLeft'), Prior(call', messages', child'), written')
  BY <1>2, <1>4, OlderKnown DEF AllOlder
<1>6. Recorded(messages', written') /\ Kept(delivered', counters'[Session])
  BY <1>2 DEF Turns
<1> QED
  BY <1>3, <1>5, <1>6, TurnsFromParts

\* A turn that returned is counted when the host goes on.
LEMMA TurnsGoOn ==
  ASSUME Core, Turns, GoOn
  PROVE  Turns'
<1>1. TypeOK /\ Plan(call, messages)
  BY CoreParts
<1>2. /\ call' = Idle /\ messages' = messages /\ RunsLeft' = RunsLeft /\ written' = written
      /\ state' = state /\ counters' = counters /\ call.outcome \in {"returned", "raised"}
  BY DEF GoOn, store, RunsLeft
<1>3. Turn(call', messages') /\ Paid(call', child', delivered', counters'[Session])
  BY <1>2 DEF Turn, Paid, Idle
<1>4. Prior(call', messages', child') = messages
  BY <1>2 DEF Prior, Idle
<1>5. AllOlder(SentOf(state'[Session], RunsLeft'), Prior(call', messages', child'), written')
  BY <1>2, <1>4, OlderKnown DEF AllOlder
<1>6. Kept(delivered', counters'[Session])
  <2>1. CASE call.outcome = "raised"
    BY <1>2, <2>1 DEF GoOn, Turns
  <2>2. CASE call.outcome = "returned"
    <3>1. /\ delivered \in [Contents -> Nat] /\ call.said \in Seq(Messages)
          /\ delivered' = Counted(delivered, call.said)
      BY <1>1, <2>2 DEF TypeOK, GoOn
    <3>2. \A p \in Contents : delivered'[p] = delivered[p] + Count(call.said, p, 1)
      BY <3>1, CountedTyped
    <3>3. CASE call.purpose = "turn"
      BY <1>2, <2>2, <3>2, <3>3 DEF Turns, Paid, Kept
    <3>4. CASE call.purpose # "turn"
      <4>1. call.said = <<>>
        BY <1>1, <3>4 DEF Plan
      <4>2. \A p \in Contents : delivered'[p] = delivered[p] /\ delivered[p] \in Nat
        BY <3>1, <3>2, <4>1, CountEmpty
      <4> QED
        BY <1>2, <4>2 DEF Turns, Kept
    <3> QED
      BY <3>3, <3>4
  <2> QED
    BY <1>2, <2>1, <2>2
<1>7. Recorded(messages', written')
  BY <1>2 DEF Turns
<1> QED
  BY <1>3, <1>5, <1>6, <1>7, TurnsFromParts

\* The summary is new, and so it tells the conversation from all that was sent before.
LEMMA TurnsCompact ==
  ASSUME Core, Turns, Compact
  PROVE  Turns'
<1>1. TypeOK
  BY CoreParts
<1>2. /\ call' = Idle /\ RunsLeft' = RunsLeft /\ delivered' = delivered
      /\ state' = state /\ counters' = counters /\ call.outcome \in {"returned", "raised"}
  BY DEF Compact, store, RunsLeft
<1>3. PICK head \in 0..1, tail \in 2..Len(messages) + 1, summary \in Summaries \ written :
        /\ head + 1 < tail
        /\ messages' = Compacted(messages, head, tail, summary)
        /\ written' = written \union {summary}
  BY DEF Compact, Compacted
<1>4. messages \in Seq(Messages) /\ summary \in Summaries /\ Len(messages) \in Nat
  BY <1>1 DEF TypeOK
<1>5. /\ messages' \in Seq(Messages) /\ Len(messages') = head + 1 + Len(messages) + 1 - tail
      /\ messages'[head + 1] = summary
      /\ \A i \in 1..Len(messages') : i # head + 1 => \E j \in 1..Len(messages) : messages'[i] = messages[j]
  <2>1. Shorter(messages, messages', head, tail, summary)
    BY <1>3, <1>4, CompactedTyped
  <2> QED
    BY <2>1 DEF Shorter
<1>6. Mentions(messages', summary)
  <2>1. head + 1 \in 1..Len(messages')
    BY <1>3, <1>4, <1>5
  <2> QED
    BY <1>5, <2>1 DEF Mentions
<1>7. Recorded(messages', written')
  <2> SUFFICES ASSUME NEW m \in Summaries, Mentions(messages', m) PROVE m \in written'
    BY DEF Recorded
  <2>1. PICK i \in 1..Len(messages') : messages'[i] = m
    BY DEF Mentions
  <2>2. CASE i = head + 1
    BY <1>3, <1>5, <2>1, <2>2
  <2>3. CASE i # head + 1
    <3>1. Mentions(messages, m)
      BY <1>5, <2>1, <2>3 DEF Mentions
    <3> QED
      BY <1>3, <3>1 DEF Turns, Recorded
  <2> QED
    BY <2>2, <2>3
<1>8. Prior(call', messages', child') = messages'
  BY <1>2 DEF Prior, Idle
<1>9. AllOlder(SentOf(state'[Session], RunsLeft'), Prior(call', messages', child'), written')
  <2> SUFFICES ASSUME NEW items \in SentOf(state[Session], RunsLeft)
               PROVE  Older(items, messages') /\ Recorded(items, written')
    BY <1>2, <1>8 DEF AllOlder
  <2>1. Recorded(items, written)
    BY OlderKnown
  <2>2. ~Mentions(items, summary)
    BY <1>3, <2>1 DEF Recorded
  <2>3. Older(items, messages')
    BY <1>4, <1>6, <2>2 DEF Older
  <2> QED
    BY <1>3, <2>1, <2>3 DEF Recorded
<1>10. Turn(call', messages') /\ Paid(call', child', delivered', counters'[Session])
  BY <1>2 DEF Turn, Paid, Idle
<1>11. Kept(delivered', counters'[Session])
  BY <1>2 DEF Turns
<1> QED
  BY <1>7, <1>9, <1>10, <1>11, TurnsFromParts

\* The run that is left behind holds no more than the conversation.
LEMMA TurnsCrash ==
  ASSUME Core, Turns, Crash
  PROVE  Turns'
<1> DEFINE run == Head(call.todo)
<1>1. TypeOK /\ Plan(call, messages)
  BY CoreParts
<1>2. /\ call' = Idle /\ messages' = messages /\ written' = written /\ delivered' = delivered
      /\ state' = state /\ counters' = counters /\ Pending
      /\ RunsLeft' \subseteq RunsLeft \union {run}
  BY DEF Crash, store, Orphaned, RunsLeft
<1>3. messages \in Seq(Messages) /\ call.outcome = "pending"
  BY <1>1, <1>2 DEF TypeOK, Pending
<1>4. Turn(call', messages') /\ Paid(call', child', delivered', counters'[Session])
  <2>1. child' = "none"
    BY DEF Crash
  <2> QED
    BY <1>2, <2>1 DEF Turn, Paid, Idle, Finished
<1>5. Prior(call', messages', child') = messages
  BY <1>2 DEF Prior, Idle
<1>6. ASSUME run.command = "snapshot"
      PROVE  Older(run.items, messages) /\ Recorded(run.items, written)
  <2>1. run.items = Visible(messages)
    BY <1>1, <1>2, <1>6, SnapshotOfMessages
  <2>2. /\ Visible(messages) \in Seq(Prints) /\ Len(Visible(messages)) \in Nat
        /\ \A p \in Prints : Mentions(Visible(messages), p) <=> Mentions(messages, p)
    BY <1>3, VisibleKeeps
  <2>3. Older(Visible(messages), messages)
    BY <2>2 DEF Older
  <2>4. \A m \in Summaries : m \in Prints
    BY DEF Prints
  <2> QED
    BY <2>1, <2>2, <2>3, <2>4 DEF Recorded, Turns
<1> HIDE DEF run
<1>7. AllOlder(SentOf(state'[Session], RunsLeft'), Prior(call', messages', child'), written')
  <2>1. \A items \in SentOf(state[Session], RunsLeft) :
          Older(items, messages) /\ Recorded(items, written)
    BY OlderKnown
  <2>2. \A items \in SentOf(state[Session], RunsLeft') :
          \/ items \in SentOf(state[Session], RunsLeft)
          \/ run.command = "snapshot" /\ items = run.items
    BY <1>2 DEF SentOf, LeftSnapshots
  <2> QED
    BY <1>2, <1>5, <1>6, <2>1, <2>2 DEF AllOlder
<1>8. Recorded(messages', written') /\ Kept(delivered', counters'[Session])
  BY <1>2 DEF Turns
<1> QED
  BY <1>4, <1>7, <1>8, TurnsFromParts

LEMMA TurnsNext == Core /\ Turns /\ Listed \subseteq {TRUE} /\ [Next]_vars => Turns'
<1> SUFFICES ASSUME Core, Turns, Listed \subseteq {TRUE}, [Next]_vars PROVE Turns'
  OBVIOUS
<1>1. CASE Provide \/ UNCHANGED vars
  BY <1>1, TurnsProvide
<1>2. CASE Process
  BY <1>2, TurnsProvide, TurnsChildCommits, TurnsOrphans DEF Process
<1>3. ASSUME NEW said \in Said, NEW listed \in Listed, SyncTurn(said, listed) PROVE Turns'
  <2>1. listed = TRUE
    OBVIOUS
  <2> QED
    BY <1>3, <2>1, TurnsSyncTurn
<1>4. CASE (\E e \in Events : OnSessionEvent(e)) \/ OnPreCompress
  BY <1>4, TurnsBegins DEF OnSessionEvent, OnPreCompress
<1>5. CASE GoOn \/ Compact \/ Crash
  BY <1>5, TurnsGoOn, TurnsCompact, TurnsCrash
<1> QED
  BY <1>1, <1>2, <1>3, <1>4, <1>5 DEF Next, Host

LEMMA TurnsInit == Init => Turns
<1> SUFFICES ASSUME Init PROVE Turns
  OBVIOUS
<1>1. /\ messages = <<>> /\ call = Idle /\ child = "none" /\ RunsLeft = {} /\ written = {}
      /\ delivered = [p \in Contents |-> 0]
      /\ state[Session] = <<>>
      /\ \A p \in Contents : counters[Session][p] = 0
  BY DEF Init, Store!Init, RunsLeft
<1>2. Turn(call, messages) /\ Paid(call, child, delivered, counters[Session])
  BY <1>1 DEF Turn, Paid, Idle, Finished
<1>3. Recorded(messages, written)
  BY <1>1 DEF Recorded, Mentions
<1>4. AllOlder(SentOf(state[Session], RunsLeft), Prior(call, messages, child), written)
  <2>1. Prior(call, messages, child) = <<>> /\ SentOf(state[Session], RunsLeft) = {PrintsOf(<<>>)}
    BY <1>1 DEF Prior, Idle, SentOf, LeftSnapshots
  <2>2. Len(PrintsOf(<<>>)) = 0
    <3>1. Len(<<>>) = 0
      OBVIOUS
    <3> QED
      BY <3>1 DEF PrintsOf
  <2>3. Len(Visible(<<>>)) = 0
    BY VisibleEmpty
  <2>4. Older(PrintsOf(<<>>), <<>>) /\ Recorded(PrintsOf(<<>>), written)
    BY <2>2, <2>3 DEF Older, Recorded, Mentions
  <2> QED
    BY <2>1, <2>4 DEF AllOlder
<1>5. Kept(delivered, counters[Session])
  BY <1>1 DEF Kept
<1> QED
  BY <1>2, <1>3, <1>4, <1>5 DEF Turns

\* With a host that passes its messages, no turn whose sync_turn returned is taken for one
\* that was sent before, whatever crashes and compactions came between.
THEOREM TurnsAreKept == Listed \subseteq {TRUE} => (Spec => []TurnsKept)
<1> SUFFICES ASSUME Listed \subseteq {TRUE} PROVE Spec => []TurnsKept
  OBVIOUS
<1>1. Init => Core /\ Turns
  BY CoreInit, TurnsInit
<1>2. Core /\ Turns /\ [Next]_vars => (Core /\ Turns)'
  BY CoreStep, TurnsNext
<1>3. Turns => TurnsKept
  BY TurnsOverValues
<1> QED
  BY <1>1, <1>2, <1>3, PTL DEF Spec

-----------------------------------------------------------------------------
(* A host that neither dies nor compacts *)

\* ReplaysAlign over explicit values.
Beginning(entries, m) ==
  /\ Len(entries) <= Len(Visible(m))
  /\ \A i \in 1..Len(entries) : entries[i].print = Visible(m)[i]
Tallied(entries, count) ==
  \A p \in Contents : count[p] = Cardinality({i \in 1..Len(entries) : entries[i].print = p})

Replays ==
  crashes = 0 /\ written = {} =>
    /\ orphans = {}
    /\ Beginning(state[Session], messages) /\ Tallied(state[Session], counters[Session])

LEMMA ReplaysOverValues ==
  ASSUME Listed \subseteq {TRUE}
  PROVE  ReplaysAlign <=> Replays
BY DEF ReplaysAlign, Replays, Beginning, Tallied

\* The first items and the others make all of them.
LEMMA CountSplit ==
  ASSUME NEW items, Len(items) \in Nat, NEW p, NEW n \in 0..Len(items)
  PROVE  Count(items, p, 1) = Cardinality({i \in 1..n : items[i] = p}) + Count(items, p, n + 1)
<1> DEFINE Front == {i \in 1..n : items[i] = p}
           Back == {i \in n + 1 .. Len(items) : items[i] = p}
           All == {i \in 1..Len(items) : items[i] = p}
<1>1. IsFiniteSet(Front) /\ IsFiniteSet(Back)
  <2>1. n + 1 \in Int /\ Len(items) \in Int /\ 1 \in Int /\ n \in Int
    OBVIOUS
  <2>2. IsFiniteSet(1..n)
    BY <2>1, FS_Interval
  <2>3. Front \in SUBSET (1..n)
    OBVIOUS
  <2>4. IsFiniteSet(Front)
    BY <2>2, <2>3, FS_Subset
  <2> QED
    BY <2>1, <2>4, CountNat
<1>2. All = Front \union Back
  OBVIOUS
<1>3. Front \intersect Back = {}
  OBVIOUS
<1> HIDE DEF Front, Back, All
<1>4. /\ Cardinality(Front \union Back)
           = Cardinality(Front) + Cardinality(Back) - Cardinality(Front \intersect Back)
      /\ Cardinality(Front) \in Nat /\ Cardinality(Back) \in Nat
  BY <1>1, FS_Union, FS_CardinalityType
<1>5. Cardinality(Front \intersect Back) = 0
  BY <1>3, FS_EmptySet
<1>6. Cardinality(All) = Cardinality(Front) + Cardinality(Back)
  <2>1. Cardinality(All) = Cardinality(Front \union Back)
    BY <1>2
  <2> QED
    BY <1>4, <1>5, <2>1
<1> QED
  BY <1>6 DEF Count, Front, Back, All

\* Steps that leave the store and the conversation alone.
LEMMA ReplaysIdle ==
  ASSUME Replays, orphans' = orphans, messages' = messages,
         state' = state, counters' = counters, crashes' = crashes, written' = written
  PROVE  Replays'
BY DEF Replays

LEMMA ReplaysProvide ==
  ASSUME Replays, \/ Provide \/ ChildFails \/ ChildProjects \/ UNCHANGED vars \/ GoOn \/ OnPreCompress
                  \/ \E e \in Events : OnSessionEvent(e)
  PROVE  Replays'
<1>1. /\ orphans' = orphans /\ messages' = messages /\ state' = state /\ counters' = counters
      /\ crashes' = crashes /\ written' = written
  BY DEF Provide, Spawn, Refuse, RunReturns, Timeout, AfterKill, ChildFails, ChildProjects, vars,
         host, store, GoOn, OnPreCompress, OnSessionEvent, Begin
<1> QED
  BY <1>1, ReplaysIdle

\* No run is left behind, a death counts and a compaction leaves its summary.
LEMMA ReplaysEnd ==
  ASSUME Core, Replays,
         Compact \/ Crash \/ (\E orphan \in orphans : OrphanCommits(orphan) \/ OrphanDies(orphan))
  PROVE  Replays'
<1>1. CASE Compact
  <2>1. written' # {}
    BY <1>1 DEF Compact
  <2> QED
    BY <2>1 DEF Replays
<1>2. CASE Crash
  <2>1. crashes \in Nat /\ crashes' = crashes + 1
    BY <1>2, CoreParts DEF Crash, TypeOK
  <2>2. crashes' # 0
    BY <2>1
  <2> QED
    BY <2>2 DEF Replays
<1>3. CASE \E orphan \in orphans : OrphanCommits(orphan) \/ OrphanDies(orphan)
  <2>1. orphans # {} /\ crashes' = crashes /\ written' = written
    BY <1>3 DEF OrphanCommits, OrphanDies, host
  <2> QED
    BY <2>1 DEF Replays
<1> QED
  BY <1>1, <1>2, <1>3

\* A turn leaves what was sent where it was.
LEMMA ReplaysSyncTurn ==
  ASSUME Core, Replays, NEW said \in Said, NEW listed \in Listed, SyncTurn(said, listed)
  PROVE  Replays'
<1>1. /\ messages' = messages \o said /\ orphans' = orphans /\ crashes' = crashes
      /\ written' = written /\ state' = state /\ counters' = counters
  BY DEF SyncTurn, Begin, store
<1>2. messages \in Seq(Messages) /\ said \in Seq(Messages) /\ Len(state[Session]) \in Nat
  BY CoreParts, SaidTyped, StoreTyped DEF TypeOK
<1> DEFINE before == Visible(messages)
           behind == Visible(said)
<1>3. before \in Seq(Prints) /\ behind \in Seq(Prints) /\ Visible(messages \o said) = before \o behind
  BY <1>2, VisibleKeeps, VisibleConcat
<1>4. /\ Len(before \o behind) = Len(before) + Len(behind) /\ Len(before) \in Nat /\ Len(behind) \in Nat
      /\ \A i \in 1 .. Len(before) + Len(behind) :
           (before \o behind)[i] = IF i <= Len(before) THEN before[i] ELSE behind[i - Len(before)]
  BY <1>3, ConcatProperties
<1> DEFINE all == Visible(messages \o said)
<1>5. Len(all) = Len(before) + Len(behind) /\ \A i \in 1..Len(before) : all[i] = before[i]
  <2>1. \A i \in 1..Len(before) : i \in 1 .. Len(before) + Len(behind) /\ i <= Len(before)
    BY <1>4
  <2> QED
    BY <1>3, <1>4, <2>1
<1>6. Beginning(state[Session], messages) => Beginning(state[Session], messages \o said)
  <2> HIDE DEF before, behind, all
  <2> SUFFICES ASSUME Len(state[Session]) <= Len(before),
                      \A i \in 1..Len(state[Session]) : state[Session][i].print = before[i]
               PROVE  /\ Len(state[Session]) <= Len(all)
                      /\ \A i \in 1..Len(state[Session]) : state[Session][i].print = all[i]
    BY DEF Beginning, before, all
  <2>1. \A i \in 1..Len(state[Session]) : i \in 1..Len(before)
    BY <1>2, <1>4
  <2> QED
    BY <1>2, <1>4, <1>5, <2>1
<1> QED
  BY <1>1, <1>6 DEF Replays

\* A snapshot is behind all that was sent, and all of that is taken for sent.
LEMMA ReplaysChildCommits ==
  ASSUME Core, Turns, Replays, ChildCommits
  PROVE  Replays'
<1> DEFINE run == Head(call.todo)
<1>1. /\ TypeOK /\ Store!IInv /\ Plan(call, messages) /\ Vouched(records)
      /\ Underway(call, messages, child, records) /\ Left(RunsLeft, records)
  BY CoreParts
<1>2. /\ messages' = messages /\ written' = written /\ crashes' = crashes /\ orphans' = orphans
      /\ child = "running" /\ Commit(run)
  BY DEF ChildCommits, host
<1>3. Pending /\ Allowed(run, records)
  <2>1. Pending
    BY <1>1, <1>2 DEF TypeOK
  <2> QED
    BY <1>1, <2>1, ChildAllowed
<1>4. CASE run.command = "ingest"
  <2>1. state' = state /\ counters' = counters
    BY <1>1, <1>2, <1>3, <1>4, RunCommitted
  <2> QED
    BY <1>2, <2>1, ReplaysIdle
<1>5. CASE run.command = "snapshot"
  <2> DEFINE items == run.items
             entries == state[Session]
             overlap == Store!Overlap(entries, items)
  <2>1. Store!IngestSnapshot(Session, items) /\ items \in Store!Snapshots
    BY <1>1, <1>2, <1>3, <1>5, RunCommitted DEF Allowed
  <2>2. items = Visible(messages)
    BY <1>1, <1>3, <1>5, SnapshotOfMessages
  <2>3. /\ items \in Seq(Prints) /\ overlap \in 0..Len(items)
        /\ Store!Aligned(entries, items, overlap)
        /\ \A m \in 0..Len(items) : Store!Aligned(entries, items, m) => m <= overlap
        /\ Len(state'[Session]) = Len(items)
        /\ \A i \in 1..Len(items) : state'[Session][i].print = items[i]
        /\ \A p \in Prints : counters'[Session][p] = counters[Session][p] + Count(items, p, overlap + 1)
    BY <1>1, <2>1, SnapshotCommitted
  <2>4. Len(entries) \in Nat /\ Len(items) \in Nat
    BY <1>1, <2>3, StoreTyped
  <2> HIDE DEF items, overlap, run
  <2>5. Beginning(state'[Session], messages)
    BY <2>2, <2>3, <2>4 DEF Beginning
  <2>6. ASSUME Beginning(entries, messages), Tallied(entries, counters[Session])
        PROVE  Tallied(state'[Session], counters'[Session])
    <3>1. Len(entries) <= Len(items) /\ \A i \in 1..Len(entries) : entries[i].print = items[i]
      BY <2>2, <2>6 DEF Beginning
    <3>2. overlap = Len(entries)
      <4>1. Store!Aligned(entries, items, Len(entries))
        BY <2>4, <3>1 DEF Store!Aligned
      <4>2. Len(entries) \in 0..Len(items)
        BY <2>4, <3>1
      <4>3. Len(entries) <= overlap
        BY <2>3, <4>1, <4>2
      <4>4. overlap <= Len(entries)
        BY <2>3 DEF Store!Aligned
      <4> QED
        BY <2>3, <2>4, <4>3, <4>4
    <3> SUFFICES ASSUME NEW p \in Contents
                 PROVE  counters'[Session][p]
                          = Cardinality({i \in 1..Len(state'[Session]) : state'[Session][i].print = p})
      BY DEF Tallied
    <3>3. counters[Session][p] = Cardinality({i \in 1..Len(entries) : items[i] = p})
      <4>1. {i \in 1..Len(entries) : entries[i].print = p} = {i \in 1..Len(entries) : items[i] = p}
        BY <3>1
      <4> QED
        BY <2>6, <4>1 DEF Tallied
    <3>4. Count(items, p, 1) = Cardinality({i \in 1..Len(entries) : items[i] = p})
                                 + Count(items, p, Len(entries) + 1)
      <4>1. Len(entries) \in 0..Len(items)
        BY <2>4, <3>1
      <4> QED
        BY <2>4, <4>1, CountSplit
    <3>5. {i \in 1..Len(state'[Session]) : state'[Session][i].print = p}
            = {i \in 1..Len(items) : items[i] = p}
      BY <2>3
    <3> QED
      BY <2>3, <3>2, <3>3, <3>4, <3>5 DEF Count, Prints
  <2> QED
    BY <1>2, <2>5, <2>6 DEF Replays
<1> QED
  BY <1>3, <1>4, <1>5 DEF Allowed, Runs

LEMMA ReplaysNext == Core /\ Turns /\ Replays /\ [Next]_vars => Replays'
<1> SUFFICES ASSUME Core, Turns, Replays, [Next]_vars PROVE Replays'
  OBVIOUS
<1>1. CASE Provide \/ UNCHANGED vars
  BY <1>1, ReplaysProvide
<1>2. CASE Process
  BY <1>2, ReplaysProvide, ReplaysChildCommits, ReplaysEnd DEF Process
<1>3. CASE Host
  BY <1>3, ReplaysProvide, ReplaysSyncTurn, ReplaysEnd DEF Host
<1> QED
  BY <1>1, <1>2, <1>3 DEF Next

LEMMA ReplaysInit == Init => Replays
<1> SUFFICES ASSUME Init PROVE Replays
  OBVIOUS
<1>1. /\ messages = <<>> /\ orphans = {} /\ state[Session] = <<>>
      /\ \A p \in Contents : counters[Session][p] = 0
  BY DEF Init, Store!Init
<1>2. Beginning(<<>>, <<>>)
  <2>1. Visible(<<>>) = <<>>
    BY VisibleEmpty
  <2> QED
    BY <2>1 DEF Beginning
<1>3. \A p : {i \in 1..Len(<<>>) : <<>>[i].print = p} = {}
  OBVIOUS
<1>4. Tallied(<<>>, counters[Session])
  BY <1>1, <1>3, FS_EmptySet DEF Tallied
<1> QED
  BY <1>1, <1>2, <1>4 DEF Replays

\* The counters of what begins the conversation are within its copies.
LEMMA ReplaysAddNothing ==
  ASSUME Core, Replays
  PROVE  RetriesAddNothing
<1> SUFFICES ASSUME crashes = 0, written = {}, NEW p \in Contents
             PROVE  counters[Session][p] <= Count(messages, p, 1)
  BY SameCounts DEF RetriesAddNothing
<1> DEFINE entries == state[Session]
           items == Visible(messages)
<1>1. messages \in Seq(Messages) /\ Len(entries) \in Nat
  BY CoreParts, StoreTyped DEF TypeOK
<1>2. /\ items \in Seq(Prints) /\ Count(items, p, 1) = Count(messages, p, 1) /\ Len(items) \in Nat
  BY <1>1, VisibleKeeps DEF Prints
<1>3. /\ Len(entries) \in 0..Len(items)
      /\ counters[Session][p] = Cardinality({i \in 1..Len(entries) : items[i] = p})
  <2>1. Len(entries) <= Len(items) /\ \A i \in 1..Len(entries) : entries[i].print = items[i]
    BY DEF Replays, Beginning
  <2>2. {i \in 1..Len(entries) : entries[i].print = p} = {i \in 1..Len(entries) : items[i] = p}
    BY <2>1
  <2> QED
    BY <1>1, <1>2, <2>1, <2>2 DEF Replays, Tallied
<1> HIDE DEF entries, items
<1>4. Count(items, p, 1) = Cardinality({i \in 1..Len(entries) : items[i] = p})
                             + Count(items, p, Len(entries) + 1)
  BY <1>2, <1>3, CountSplit
<1>5. Count(items, p, Len(entries) + 1) \in Nat
  <2>1. Len(entries) + 1 \in Int /\ Len(items) \in Int
    BY <1>1, <1>2
  <2> QED
    BY <2>1, CountNat
<1>6. Cardinality({i \in 1..Len(entries) : items[i] = p}) \in Nat
  BY <1>1, <1>3, StoreTyped, CoreParts DEF Prints
<1> QED
  BY <1>2, <1>3, <1>4, <1>5, <1>6

\* With a host that passes its messages, runs that fail, are late or are repeated add nothing
\* to the store while it neither dies nor compacts.
THEOREM RetriesStoreNothingTwice == Listed \subseteq {TRUE} => (Spec => []RetriesAddNothing)
<1> SUFFICES ASSUME Listed \subseteq {TRUE} PROVE Spec => []RetriesAddNothing
  OBVIOUS
<1>1. Init => Core /\ Turns /\ Replays
  BY CoreInit, TurnsInit, ReplaysInit
<1>2. Core /\ Turns /\ Replays /\ [Next]_vars => (Core /\ Turns /\ Replays)'
  BY CoreStep, TurnsNext, ReplaysNext
<1>3. Core /\ Replays => RetriesAddNothing
  BY ReplaysAddNothing
<1> QED
  BY <1>1, <1>2, <1>3, PTL DEF Spec

\* The inductive invariant of the runs, for every host: what is said of the turns and of the
\* alignment is claimed of hosts that pass their messages.
THEOREM Inductive == Spec => []IInv
<1>1. CASE Listed \subseteq {TRUE}
  <2>1. Init => Core /\ Turns /\ Replays
    BY CoreInit, TurnsInit, ReplaysInit
  <2>2. Core /\ Turns /\ Replays /\ [Next]_vars => (Core /\ Turns /\ Replays)'
    BY <1>1, CoreStep, TurnsNext, ReplaysNext
  <2>3. Core /\ Turns /\ Replays => IInv
    BY <1>1, TurnsOverValues, ReplaysOverValues DEF IInv, Core
  <2> QED
    BY <2>1, <2>2, <2>3, PTL DEF Spec
<1>2. CASE ~(Listed \subseteq {TRUE})
  <2>1. Core => IInv
    BY <1>2 DEF IInv, Core, TurnsAhead, ReplaysAlign
  <2> QED
    BY <2>1, CoreAlways, PTL
<1> QED
  BY <1>1, <1>2
=============================================================================
