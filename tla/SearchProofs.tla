---------------------------- MODULE SearchProofs ----------------------------
(***************************************************************************)
(* Proofs about Search, for any texts, encodings, scopes and budgets.      *)
(***************************************************************************)
EXTENDS Search, NatFacts, FiniteSetTheorems, SequenceTheorems, TLAPS

USE DEF Cutting

LEMMA HitFacts ==
  ASSUME NEW h \in Hits
  PROVE  /\ h.record \in Records /\ h.kept \in Nat /\ h.kept \in Cuts(h.record)
         /\ Chars[h.record] \in Nat
         /\ \A n \in 0..h.kept : n \in Cuts(h.record)
<1>1. h.record \in Records /\ h.kept \in Nat /\ h.kept <= Chars[h.record]
  BY DEF Hits
<1>2. Chars[h.record] \in Nat
  BY <1>1, TextAssumption
<1> QED
  BY <1>1, <1>2 DEF Cuts

LEMMA WholeHit == ASSUME NEW r \in Records PROVE Whole(r) \in Hits
<1>1. Chars[r] \in Nat
  BY TextAssumption
<1> QED
  BY <1>1 DEF Whole, Hits

-----------------------------------------------------------------------------
(* Cuts *)

\* truncate_utf8 ends at the last boundary not after the position, and there is one.
LEMMA LongestCut ==
  ASSUME NEW h \in Hits, NEW position \in Nat, NEW n, n = LongestWithin(h.record, h.kept, position)
  PROVE  /\ n \in 0..h.kept /\ Bytes[h.record][n] <= position
         /\ \A m \in 0..h.kept : Bytes[h.record][m] <= position => m <= n
<1> DEFINE r == h.record
           A == {m \in 0..h.kept : Bytes[r][m] <= position}
<1>1. h.kept \in Nat /\ r \in Records
  BY HitFacts
<1>2. Bytes[r][0] = 0
  BY <1>1, TextAssumption
<1>3. 0 \in A
  BY <1>1, <1>2
<1>4. PICK m \in A : \A o \in A : o <= m
  BY <1>1, <1>3, GreatestExists
<1>5. \E m2 \in 0..h.kept :
        /\ Bytes[r][m2] <= position
        /\ \A o \in 0..h.kept : Bytes[r][o] <= position => o <= m2
  BY <1>4
<1> QED
  BY <1>5 DEF LongestWithin

\* Positions reach every cut and nothing else, for bytes and for characters.
LEMMA Positions ==
  ASSUME by \in Packers, NEW h \in Hits
  PROVE  /\ Length(h.record, h.kept) \in Nat
         /\ \A position \in 0..Length(h.record, h.kept) : Cut(h.record, h.kept, position) \in 0..h.kept
         /\ \A n \in 0..h.kept : \E position \in 0..Length(h.record, h.kept) :
              /\ Cut(h.record, h.kept, position) = n
              /\ \A other \in 0..Length(h.record, h.kept) :
                   Cut(h.record, h.kept, other) < n => other < position
         /\ \A position, other \in 0..Length(h.record, h.kept) :
              position <= other => Cut(h.record, h.kept, position) <= Cut(h.record, h.kept, other)
         /\ Cut(h.record, h.kept, 0) = 0
<1> DEFINE r == h.record
           k == h.kept
           length == Length(r, k)
<1>1. /\ r \in Records /\ k \in Nat /\ k \in Cuts(r)
      /\ \A n \in 0..k : n \in Cuts(r)
  BY HitFacts
<1>2. /\ Bytes[r] \in [Cuts(r) -> Nat] /\ Bytes[r][0] = 0
      /\ \A m, n \in Cuts(r) : m < n => Bytes[r][m] < Bytes[r][n]
  BY <1>1, TextAssumption
<1>3. CASE by = "store"
  <2>1. length = Bytes[r][k] /\ length \in Nat
    BY <1>1, <1>2, <1>3 DEF Length
  <2>2. \A position : Cut(r, k, position) = LongestWithin(r, k, position)
    BY <1>3 DEF Cut
  <2>3. ASSUME NEW position \in 0..length
        PROVE  /\ Cut(r, k, position) \in 0..k /\ Bytes[r][Cut(r, k, position)] <= position
               /\ \A m \in 0..k : Bytes[r][m] <= position => m <= Cut(r, k, position)
    BY <2>1, <2>2, LongestCut
  <2>4. ASSUME NEW n \in 0..k
        PROVE  /\ Bytes[r][n] \in 0..length /\ Cut(r, k, Bytes[r][n]) = n
               /\ \A other \in 0..length : Cut(r, k, other) < n => other < Bytes[r][n]
    <3>1. n \in Cuts(r) /\ Bytes[r][n] \in Nat
      BY <1>1, <1>2
    <3>2. n < k \/ n = k
      BY <1>1
    <3>3. Bytes[r][n] <= length
      BY <1>1, <1>2, <2>1, <3>1, <3>2
    <3>4. Bytes[r][n] \in 0..length
      BY <2>1, <3>1, <3>3
    <3>5. ASSUME NEW m \in 0..k, Bytes[r][m] <= Bytes[r][n] PROVE m <= n
      <4>1. m \in Cuts(r) /\ Bytes[r][m] \in Nat /\ m \in Int /\ n \in Int
        BY <1>1, <1>2
      <4>2. n < m => Bytes[r][n] < Bytes[r][m]
        BY <1>2, <3>1, <4>1
      <4> QED
        BY <3>1, <3>5, <4>1, <4>2
    <3>6. Cut(r, k, Bytes[r][n]) = n
      <4>1. /\ Cut(r, k, Bytes[r][n]) \in 0..k
            /\ Bytes[r][Cut(r, k, Bytes[r][n])] <= Bytes[r][n]
            /\ n <= Cut(r, k, Bytes[r][n])
        BY <2>3, <3>1, <3>4
      <4>2. Cut(r, k, Bytes[r][n]) <= n
        BY <3>5, <4>1
      <4> HIDE DEF r, k
      <4> QED
        BY <4>1, <4>2
    <3>7. ASSUME NEW other \in 0..length, Cut(r, k, other) < n PROVE other < Bytes[r][n]
      <4>1. Cut(r, k, other) \in Int /\ (Bytes[r][n] <= other => n <= Cut(r, k, other))
        BY <2>3
      <4>2. other \in Int /\ n \in Int
        OBVIOUS
      <4> QED
        BY <3>1, <3>7, <4>1, <4>2
    <3> QED
      BY <3>4, <3>6, <3>7
  <2>5. 0 \in 0..k /\ Cut(r, k, 0) = 0
    BY <1>1, <1>2, <2>4
  <2>6. ASSUME NEW position \in 0..length, NEW other \in 0..length, position <= other
        PROVE  Cut(r, k, position) <= Cut(r, k, other)
    <3>1. Cut(r, k, position) \in Cuts(r) /\ Bytes[r][Cut(r, k, position)] \in Nat
      BY <1>1, <1>2, <2>3
    <3>2. Bytes[r][Cut(r, k, position)] <= other
      BY <2>1, <2>3, <2>6, <3>1
    <3> QED
      BY <2>3, <3>2
  <2> QED
    BY <2>1, <2>3, <2>4, <2>5, <2>6
<1>4. CASE by = "plugin"
  <2>1. length = k /\ \A position : Cut(r, k, position) = position
    BY <1>4 DEF Length, Cut
  <2> QED
    BY <1>1, <2>1
<1> QED
  BY <1>3, <1>4 DEF Packers

\* A shorter cut of a hit is not longer when it is encoded.
LEMMA FitsDown ==
  ASSUME by \in Packers, budget \in Nat, used \in Nat, NEW h \in Hits,
         NEW n \in 0..h.kept, NEW m \in 0..h.kept, m <= n, Fits(h.record, n)
  PROVE  Fits(h.record, m)
<1>1. h.record \in Records /\ n \in Cuts(h.record) /\ m \in Cuts(h.record)
  BY HitFacts
<1>2. /\ Size[by][h.record][n] \in Nat /\ Size[by][h.record][m] \in Nat
      /\ m < n => Size[by][h.record][m] <= Size[by][h.record][n]
  BY <1>1, SizeAssumption
<1>3. Envelope[by] \in Nat
  BY BudgetAssumption
<1>4. Envelope[by] + used + Size[by][h.record][n] <= budget
  BY DEF Fits, Encoding
<1>5. Size[by][h.record][m] <= Size[by][h.record][n]
  <2>1. m = n \/ m < n
    OBVIOUS
  <2> QED
    BY <1>2, <2>1
<1> QED
  BY <1>2, <1>3, <1>4, <1>5 DEF Fits, Encoding

-----------------------------------------------------------------------------
(* Scopes and rankings *)

\* What a search is asked for is what its caller means, although identifiers that hold a
\* secret are compared by their digests.
LEMMA ScopeMeant ==
  ASSUME NEW q \in Requests, Given(q), ~Sessionless(q), NEW r \in Records
  PROVE  InScope(r, q) <=> Meant(r, q)
<1>1. /\ q.caller \in {"cli", "tool", "prefetch"} /\ q.all \in BOOLEAN
      /\ q.workspace \in Workspaces \union {NoScope} /\ q.active \in Sessions \union {NoScope}
  BY DEF Requests
<1>2. WorkspaceOf[r] \in Workspaces /\ SessionOf[r] \in Sessions
  BY DEF Workspaces, Sessions
<1>3. ASSUME NEW i \in Sessions \union Workspaces, NEW scope \in Sessions \union Workspaces \union {NoScope}
      PROVE  Within(i, scope) <=> scope \in {NoScope, i}
  BY DigestAssumption DEF Within
<1>4. Within(WorkspaceOf[r], q.workspace) <=> q.workspace \in {NoScope, WorkspaceOf[r]}
  BY <1>1, <1>2, <1>3
<1>5. Within(SessionOf[r], SessionArgument(q)) <=>
        \/ q.caller = "tool" /\ (q.all \/ q.active = SessionOf[r])
        \/ q.caller = "cli" /\ q.active \in {NoScope, SessionOf[r]}
        \/ q.caller = "prefetch"
  <2>1. CASE q.caller = "prefetch" \/ (q.caller = "tool" /\ q.all)
    BY <2>1 DEF SessionArgument, Within
  <2>2. CASE q.caller # "prefetch" /\ ~(q.caller = "tool" /\ q.all)
    <3>1. SessionArgument(q) = q.active
      BY <2>2 DEF SessionArgument
    <3>2. Within(SessionOf[r], q.active) <=> q.active \in {NoScope, SessionOf[r]}
      BY <1>1, <1>2, <1>3
    <3>3. q.caller = "tool" => q.active # NoScope
      BY <2>2 DEF Sessionless
    <3> QED
      BY <1>1, <2>2, <3>1, <3>2, <3>3
  <2> QED
    BY <2>1, <2>2
<1> QED
  BY <1>4, <1>5 DEF InScope, Meant

LEMMA LimitNatural == ASSUME NEW q \in Requests PROVE Limit(q) \in Nat
<1>1. q.limit \in Nat /\ PluginLimit \in Nat
  BY BudgetAssumption DEF Requests
<1> QED
  BY <1>1 DEF Limit

\* A ranking has hits of the set that was selected, and all of them if the limit allows.
LEMMA RankingFacts ==
  ASSUME NEW S \in SUBSET Records, NEW limit \in Nat, NEW hits \in Rankings(S, limit)
  PROVE  /\ hits \in Seq(Hits) /\ RecordsOf(hits) \subseteq S
         /\ Cardinality(S) <= limit => RecordsOf(hits) = S
<1> DEFINE c == Cardinality(S)
<1>1. IsFiniteSet(S) /\ c \in Nat
  BY RecordsAssumption, FS_Subset, FS_CardinalityType
<1>2. PICK s \in SetToSeqs(S) : hits = [i \in 1 .. Min({limit, Len(s)}) |-> Whole(s[i])]
  BY DEF Rankings
<1>3. s \in [1..c -> S] /\ \A i, j \in 1..c : i # j => s[i] # s[j]
  BY <1>2 DEF SetToSeqs
<1>4. s \in Seq(S) /\ Len(s) = c
  BY <1>1, <1>3
<1>5. \E n \in {limit, c} : \A m \in {limit, c} : n <= m
  BY <1>1
<1>6. Min({limit, c}) \in {limit, c} /\ \A m \in {limit, c} : Min({limit, c}) <= m
  BY <1>5 DEF Min
<1>7. PICK n \in Nat : n = Min({limit, Len(s)}) /\ n <= c /\ (c <= limit => n = c)
  BY <1>1, <1>4, <1>6
<1>8. hits = [i \in 1..n |-> Whole(s[i])]
  BY <1>2, <1>7
<1>9. \A i \in 1..n : s[i] \in S /\ s[i] \in Records /\ Whole(s[i]) \in Hits /\ Whole(s[i]).record = s[i]
  BY <1>1, <1>3, <1>7, WholeHit DEF Whole
<1>10. hits \in Seq(Hits) /\ DOMAIN hits = 1..n
  <2>1. hits \in [1..n -> Hits]
    BY <1>8, <1>9
  <2> QED
    BY <2>1
<1>11. RecordsOf(hits) \subseteq S
  BY <1>8, <1>9, <1>10 DEF RecordsOf
<1>12. ASSUME c <= limit, NEW x \in S PROVE x \in RecordsOf(hits)
  <2>1. s \in Injection(1..c, S)
    BY <1>3 DEF Injection, IsInjective
  <2>2. IsFiniteSet(1..c) /\ Cardinality(1..c) = c
    BY <1>1, FS_Interval
  <2>3. s \in Surjection(1..c, S)
    BY <1>1, <2>1, <2>2, FS_Injection
  <2>4. PICK i \in 1..c : s[i] = x
    BY <2>3 DEF Surjection
  <2>5. i \in 1..n /\ hits[i].record = x
    BY <1>7, <1>8, <1>9, <1>12, <2>4
  <2> QED
    BY <1>10, <2>5 DEF RecordsOf
<1> QED
  BY <1>10, <1>11, <1>12

-----------------------------------------------------------------------------
(* The invariant *)

\* The part of the invariant that counts bytes.
Ledger == UsedIsLength /\ Accounted /\ NoneLeftOut

WeightOf(b, h) == Size[b][h.record][h.kept]
LengthOf(b, hits) == SumFunction([i \in DOMAIN hits |-> WeightOf(b, hits[i])])
RoomOf(b, hits, taken, n) ==
  SumFunction([j \in 1..n |-> IF hits[j] \in ToSet(taken) THEN WeightOf(b, hits[j]) + 1 ELSE 0])

LEMMA Folded ==
  /\ UsedIsLength <=> used = LengthOf(by, selected) + Len(selected)
  /\ UsedIsLength' <=> used' = LengthOf(by', selected') + Len(selected')
  /\ \A n : Room(n) = RoomOf(by, offered, selected, n)
  /\ \A n : Room(n)' = RoomOf(by', offered', selected', n)
  /\ \A h : Weight(h) = WeightOf(by, h) /\ Weight(h)' = WeightOf(by', h)
BY DEF UsedIsLength, LengthOf, RoomOf, WeightOf, Room, Weight

LEMMA WeightNatural ==
  ASSUME NEW b \in Packers, NEW h \in Hits
  PROVE  WeightOf(b, h) \in Nat
BY HitFacts, SizeAssumption DEF WeightOf

\* A hit that is packed adds its bytes.
LEMMA LengthGrows ==
  ASSUME NEW b \in Packers, NEW hits \in Seq(Hits), NEW h \in Hits
  PROVE  /\ LengthOf(b, hits) \in Nat
         /\ LengthOf(b, Append(hits, h)) = LengthOf(b, hits) + WeightOf(b, h)
<1> DEFINE n == Len(hits)
           more == Append(hits, h)
           old == [i \in 1..n |-> WeightOf(b, hits[i])]
           new == [i \in 1..n + 1 |-> WeightOf(b, more[i])]
<1>1. /\ n \in Nat /\ DOMAIN hits = 1..n /\ DOMAIN more = 1..n + 1
      /\ more[n + 1] = h /\ \A i \in 1..n : more[i] = hits[i] /\ hits[i] \in Hits
  OBVIOUS
<1>2. /\ LengthOf(b, hits) = SumFunctionOnSet(old, 1..n)
      /\ LengthOf(b, more) = SumFunctionOnSet(new, 1..n + 1)
  BY <1>1 DEF LengthOf, SumFunction
<1>3. \A i \in 1..n : old[i] \in Nat /\ new[i] = old[i]
  BY <1>1, WeightNatural
<1>4. \A i \in 1..n + 1 : new[i] \in Nat
  <2> SUFFICES ASSUME NEW i \in 1..n + 1 PROVE more[i] \in Hits
    BY WeightNatural
  <2> QED
    BY <1>1
<1>5. new[n + 1] = WeightOf(b, h)
  BY <1>1
<1>6. IsFiniteSet(1..n)
  BY <1>1, FS_Interval
<1> HIDE DEF old, new, more
<1>7. SumFunctionOnSet(old, 1..n) \in Nat
  BY <1>3, <1>6, SumSplit
<1>8. SumFunctionOnSet(old, 1..n) = SumFunctionOnSet(new, 1..n)
  BY <1>3, <1>6, SumEqual
<1>9. SumFunctionOnSet(new, 1..n + 1) = SumFunctionOnSet(new, 1..n) + new[n + 1]
  BY <1>1, <1>4, SumLast
<1> QED
  BY <1>2, <1>5, <1>7, <1>8, <1>9 DEF more

LEMMA LengthNatural ==
  ASSUME NEW b \in Packers, NEW hits \in Seq(Hits)
  PROVE  LengthOf(b, hits) \in Nat
<1> DEFINE lengths == [i \in 1..Len(hits) |-> WeightOf(b, hits[i])]
<1>1. Len(hits) \in Nat /\ DOMAIN hits = 1..Len(hits)
  OBVIOUS
<1>2. LengthOf(b, hits) = SumFunctionOnSet(lengths, 1..Len(hits))
  BY <1>1 DEF LengthOf, SumFunction
<1>3. \A i \in 1..Len(hits) : lengths[i] \in Nat
  BY <1>1, WeightNatural
<1>4. IsFiniteSet(1..Len(hits))
  BY <1>1, FS_Interval
<1> HIDE DEF lengths
<1> QED
  BY <1>2, <1>3, <1>4, SumSplit

LEMMA LengthOfNone == ASSUME NEW b \in Packers PROVE LengthOf(b, <<>>) = 0
<1> DEFINE none == [i \in {} |-> WeightOf(b, <<>>[i])]
<1>1. DOMAIN <<>> = {}
  OBVIOUS
<1>2. LengthOf(b, <<>>) = SumFunctionOnSet(none, {})
  BY <1>1 DEF LengthOf, SumFunction
<1>3. IsFiniteSet({}) /\ \A i \in {} : none[i] \in Nat
  BY FS_EmptySet
<1> HIDE DEF none
<1> QED
  BY <1>2, <1>3, SumSplit

LEMMA RoomNatural ==
  ASSUME NEW b \in Packers, NEW hits \in Seq(Hits), NEW taken, NEW n \in 0..Len(hits)
  PROVE  RoomOf(b, hits, taken, n) \in Nat
<1> DEFINE room == [j \in 1..n |-> IF hits[j] \in ToSet(taken) THEN WeightOf(b, hits[j]) + 1 ELSE 0]
<1>1. \A j \in 1..n : room[j] \in Nat
  BY WeightNatural
<1>2. IsFiniteSet(1..n)
  BY FS_Interval
<1>3. RoomOf(b, hits, taken, n) = SumFunctionOnSet(room, 1..n)
  BY DEF RoomOf, SumFunction
<1> HIDE DEF room
<1> QED
  BY <1>1, <1>2, <1>3, SumSplit

\* More hits packed leave less room for the next.
LEMMA RoomMonotone ==
  ASSUME NEW b \in Packers, NEW hits \in Seq(Hits), NEW taken, NEW more,
         ToSet(taken) \subseteq ToSet(more), NEW n \in 0..Len(hits)
  PROVE  RoomOf(b, hits, taken, n) <= RoomOf(b, hits, more, n)
<1> DEFINE lesser == [j \in 1..n |-> IF hits[j] \in ToSet(taken) THEN WeightOf(b, hits[j]) + 1 ELSE 0]
           greater == [j \in 1..n |-> IF hits[j] \in ToSet(more) THEN WeightOf(b, hits[j]) + 1 ELSE 0]
<1>1. \A j \in 1..n : lesser[j] \in Nat /\ greater[j] \in Nat /\ lesser[j] <= greater[j]
  <2> SUFFICES ASSUME NEW j \in 1..n
               PROVE  lesser[j] \in Nat /\ greater[j] \in Nat /\ lesser[j] <= greater[j]
    OBVIOUS
  <2>1. WeightOf(b, hits[j]) \in Nat
    BY WeightNatural
  <2> QED
    BY <2>1
<1>2. IsFiniteSet(1..n)
  BY FS_Interval
<1>3. /\ RoomOf(b, hits, taken, n) = SumFunctionOnSet(lesser, 1..n)
      /\ RoomOf(b, hits, more, n) = SumFunctionOnSet(greater, 1..n)
  BY DEF RoomOf, SumFunction
<1> HIDE DEF lesser, greater
<1> QED
  BY <1>1, <1>2, <1>3, SumMonotone

\* A hit that is there takes its room; one that is not takes none.
LEMMA RoomNext ==
  ASSUME NEW b \in Packers, NEW hits \in Seq(Hits), NEW taken, NEW n \in 0..Len(hits) - 1
  PROVE  RoomOf(b, hits, taken, n + 1) =
           RoomOf(b, hits, taken, n)
             + IF hits[n + 1] \in ToSet(taken) THEN WeightOf(b, hits[n + 1]) + 1 ELSE 0
<1> DEFINE fun == [j \in 1..n |-> IF hits[j] \in ToSet(taken) THEN WeightOf(b, hits[j]) + 1 ELSE 0]
           next == [j \in 1..n + 1 |-> IF hits[j] \in ToSet(taken) THEN WeightOf(b, hits[j]) + 1 ELSE 0]
<1>1. n \in Nat /\ \A j \in 1..n + 1 : hits[j] \in Hits
  OBVIOUS
<1>2. \A j \in 1..n + 1 : next[j] \in Nat
  BY <1>1, WeightNatural
<1>3. \A j \in 1..n : fun[j] \in Nat /\ next[j] = fun[j]
  BY <1>1, WeightNatural
<1>4. next[n + 1] = IF hits[n + 1] \in ToSet(taken) THEN WeightOf(b, hits[n + 1]) + 1 ELSE 0
  BY <1>1
<1>5. IsFiniteSet(1..n)
  BY FS_Interval
<1>6. /\ RoomOf(b, hits, taken, n) = SumFunctionOnSet(fun, 1..n)
      /\ RoomOf(b, hits, taken, n + 1) = SumFunctionOnSet(next, 1..n + 1)
  BY DEF RoomOf, SumFunction
<1> HIDE DEF fun, next
<1>7. SumFunctionOnSet(fun, 1..n) = SumFunctionOnSet(next, 1..n)
  BY <1>3, <1>5, SumEqual
<1>8. SumFunctionOnSet(next, 1..n + 1) = SumFunctionOnSet(next, 1..n) + next[n + 1]
  BY <1>1, <1>2, SumLast
<1> QED
  BY <1>4, <1>6, <1>7, <1>8

LEMMA AppendSet ==
  ASSUME NEW s \in Seq(Hits), NEW h \in Hits
  PROVE  ToSet(Append(s, h)) = ToSet(s) \union {h}
<1>1. /\ DOMAIN s = 1..Len(s) /\ Len(s) \in Nat /\ DOMAIN Append(s, h) = 1 .. Len(s) + 1
      /\ Append(s, h)[Len(s) + 1] = h /\ \A i \in 1..Len(s) : Append(s, h)[i] = s[i]
  OBVIOUS
<1> QED
  BY <1>1 DEF ToSet

LEMMA AppendRecords ==
  ASSUME NEW s \in Seq(Hits), NEW h \in Hits
  PROVE  Append(s, h) \in Seq(Hits) /\ RecordsOf(Append(s, h)) = RecordsOf(s) \union {h.record}
<1>1. /\ Append(s, h) \in Seq(Hits) /\ DOMAIN s = 1..Len(s) /\ Len(s) \in Nat
      /\ DOMAIN Append(s, h) = 1 .. Len(s) + 1
      /\ Append(s, h)[Len(s) + 1] = h /\ \A i \in 1..Len(s) : Append(s, h)[i] = s[i]
  OBVIOUS
<1> QED
  BY <1>1 DEF RecordsOf

LEMMA TailRecords ==
  ASSUME NEW s \in Seq(Hits), s # <<>>
  PROVE  /\ Head(s) \in Hits /\ Tail(s) \in Seq(Hits)
         /\ Head(s).record \in RecordsOf(s) /\ RecordsOf(Tail(s)) \subseteq RecordsOf(s)
<1>1. /\ Len(s) \in Nat \ {0} /\ DOMAIN s = 1..Len(s) /\ Head(s) = s[1] /\ s[1] \in Hits
      /\ Tail(s) \in Seq(Hits) /\ DOMAIN Tail(s) = 1 .. Len(s) - 1
      /\ \A i \in 1 .. Len(s) - 1 : Tail(s)[i] = s[i + 1]
  OBVIOUS
<1> QED
  BY <1>1 DEF RecordsOf

-----------------------------------------------------------------------------
(* Every step keeps the count *)

\* A packer begins with no hits and no bytes.
LEMMA StartLedger ==
  ASSUME NEW who \in Packers, NEW bytes, NEW hits \in Seq(Hits), Start(who, bytes, hits)
  PROVE  Ledger'
<1>1. /\ pc' = "select" /\ by' = who /\ offered' = hits /\ todo' = hits
      /\ selected' = <<>> /\ used' = 0
  BY DEF Start
<1>2. UsedIsLength'
  <2>1. LengthOf(by', selected') = 0 /\ Len(selected') = 0
    BY <1>1, LengthOfNone
  <2> QED
    BY <1>1, <2>1, Folded
<1>3. Seen' = 0 /\ Len(hits) \in Nat
  BY <1>1 DEF Seen
<1>4. used' <= Room(Seen)'
  <2>1. RoomOf(who, hits, <<>>, 0) \in Nat
    BY <1>3, RoomNatural
  <2>2. Room(Seen)' = RoomOf(who, hits, <<>>, 0)
    BY <1>1, <1>3 DEF Room, RoomOf, Weight, WeightOf
  <2> QED
    BY <1>1, <2>1, <2>2
<1>5. \A i \in DOMAIN hits : hits[i] = hits[0 + i]
  OBVIOUS
<1>6. Accounted'
  <2>1. Seen' \in 0..Len(offered') /\ ~Cutting'
    BY <1>1, <1>3
  <2>2. \A i \in DOMAIN todo' : todo'[i] = offered'[Seen' + i]
    BY <1>1, <1>3, <1>5
  <2>3. DOMAIN selected' = {}
    BY <1>1
  <2>4. 1..Seen' = {}
    BY <1>3
  <2> HIDE DEF Cutting
  <2> QED
    BY <1>4, <2>1, <2>2, <2>3, <2>4 DEF Accounted
<1>7. NoneLeftOut'
  BY <1>1 DEF NoneLeftOut
<1> QED
  BY <1>2, <1>6, <1>7 DEF Ledger

LEMMA LookedAtAll ==
  ASSUME Types, todo = <<>>
  PROVE  Seen = Len(offered) /\ DOMAIN offered = 1..Seen
<1>1. Len(todo) = 0 /\ Len(offered) \in Nat /\ DOMAIN offered = 1..Len(offered)
  BY DEF Types
<1> QED
  BY <1>1 DEF Seen

\* Steps of a bisection and after the packing.
LEMMA LedgerStays ==
  ASSUME Types, Ledger, UNCHANGED <<by, budget, offered, todo, selected, used>>,
         pc' = "select" \/ Cutting' => pc = "select" \/ Cutting,
         Cutting' => todo = <<>>,
         pc' = "packed" => pc = "packed" \/ ((pc = "select" \/ Cutting) /\ todo = <<>>)
  PROVE  Ledger'
<1>1. UsedIsLength'
  BY Folded DEF Ledger
<1>2. /\ \A n : Room(n)' = Room(n)
      /\ \A i : Justified(i)' <=> Justified(i)
      /\ Seen' = Seen
  BY DEF Room, Justified, Seen, Weight
<1>3. Accounted'
  <2> SUFFICES ASSUME pc' = "select" \/ Cutting' PROVE Accounted'
    BY DEF Accounted
  <2>1. /\ Seen \in 0..Len(offered) /\ \A i \in DOMAIN todo : todo[i] = offered[Seen + i]
        /\ \A i \in DOMAIN selected : selected[i] \in ToSet(offered)
        /\ used <= Room(Seen)
        /\ \A i \in 1..Seen : Justified(i)
    BY DEF Ledger, Accounted
  <2>2. PICK n \in 0..Len(offered) : n = Seen
    BY <2>1
  <2>3. Room(Seen) = Room(n) /\ Room(Seen)' = Room(n)'
    BY <1>2, <2>2 DEF Room
  <2> HIDE DEF Cutting
  <2> QED
    BY <1>2, <2>1, <2>2, <2>3 DEF Accounted
<1>4. NoneLeftOut'
  <2>1. CASE pc = "packed"
    BY <1>2, <2>1 DEF Ledger, NoneLeftOut
  <2>2. CASE pc' = "packed" /\ (pc = "select" \/ Cutting) /\ todo = <<>>
    <3>1. /\ Seen \in 0..Len(offered) /\ \A i \in 1..Seen : Justified(i)
          /\ \A i \in DOMAIN selected : selected[i] \in ToSet(offered)
      BY <2>2 DEF Ledger, Accounted
    <3>2. \A i \in 1 .. Len(selected) - 1 : i \in DOMAIN selected
      BY DEF Types
    <3> QED
      BY <1>2, <2>2, <3>1, <3>2, LookedAtAll DEF NoneLeftOut
  <2>3. CASE pc' # "packed"
    BY <2>3 DEF NoneLeftOut
  <2> QED
    BY <2>1, <2>2, <2>3
<1> QED
  BY <1>1, <1>3, <1>4 DEF Ledger

\* What is justified stays justified when more hits are packed.
LEMMA PackedMore ==
  ASSUME Types, ToSet(selected) \subseteq ToSet(selected'), UNCHANGED <<by, budget, offered>>
  PROVE  /\ \A n \in 0..Len(offered) : Room(n) \in Nat /\ Room(n)' \in Nat /\ Room(n) <= Room(n)'
         /\ \A i \in DOMAIN offered : Justified(i) => Justified(i)'
<1>1. /\ by \in Packers /\ offered \in Seq(Hits) /\ Envelope[by] \in Nat /\ budget \in Nat
      /\ DOMAIN offered = 1..Len(offered) /\ Len(offered) \in Nat
  BY BudgetAssumption DEF Types
<1>2. ASSUME NEW n \in 0..Len(offered)
      PROVE  Room(n) \in Nat /\ Room(n)' \in Nat /\ Room(n) <= Room(n)'
  <2>1. /\ RoomOf(by, offered, selected, n) \in Nat /\ RoomOf(by, offered, selected', n) \in Nat
        /\ RoomOf(by, offered, selected, n) <= RoomOf(by, offered, selected', n)
    BY <1>1, RoomNatural, RoomMonotone
  <2>2. Room(n) = RoomOf(by, offered, selected, n) /\ Room(n)' = RoomOf(by, offered, selected', n)
    BY Folded
  <2> QED
    BY <2>1, <2>2
<1>3. ASSUME NEW i \in DOMAIN offered, Justified(i) PROVE Justified(i)'
  <2>1. CASE offered[i] \in ToSet(selected)
    BY <2>1 DEF Justified
  <2>2. CASE Envelope[by] + Room(i - 1) + Weight(offered[i]) > budget
    <3> DEFINE before == Room(i - 1)
               after == Room(i - 1)'
               weight == Weight(offered[i])
    <3>1. i - 1 \in 0..Len(offered) /\ offered[i] \in Hits
      BY <1>1
    <3>2. before \in Nat /\ after \in Nat /\ before <= after
      BY <1>2, <3>1
    <3>3. weight \in Nat
      BY <1>1, <3>1, Folded, WeightNatural
    <3>4. Weight(offered[i])' = weight
      BY DEF Weight
    <3>5. Envelope[by] + before + weight > budget
      BY <2>2
    <3>6. Envelope[by] + after + weight > budget
      <4> HIDE DEF before, after, weight
      <4> QED
        BY <1>1, <3>2, <3>3, <3>5
    <3> QED
      BY <3>4, <3>6 DEF Justified
  <2> QED
    BY <1>3, <2>1, <2>2 DEF Justified
<1> QED
  BY <1>2, <1>3

LEMMA TakeCounted ==
  ASSUME Types, UsedIsLength, NEW h \in Hits, Take(h), by' = by
  PROVE  UsedIsLength' /\ ToSet(selected') = ToSet(selected) \union {h}
<1>1. selected' = Append(selected, h) /\ used' = used + WeightOf(by, h) + 1
  BY DEF Take, WeightOf
<1>2. by \in Packers /\ selected \in Seq(Hits) /\ Len(selected) \in Nat
  BY DEF Types
<1>3. LengthOf(by, selected) \in Nat /\ WeightOf(by, h) \in Nat
      /\ LengthOf(by, selected') = LengthOf(by, selected) + WeightOf(by, h)
  BY <1>1, <1>2, LengthGrows, WeightNatural
<1>4. Len(selected') = Len(selected) + 1
  BY <1>1, <1>2
<1>5. used = LengthOf(by, selected) + Len(selected)
  BY Folded
<1>6. used' = LengthOf(by, selected') + Len(selected')
  BY <1>1, <1>2, <1>3, <1>4, <1>5
<1>7. UsedIsLength'
  BY <1>6, Folded
<1> QED
  BY <1>1, <1>2, <1>7, AppendSet

\* The next hit is taken or left for good reason.
LEMMA SelectLedger == ASSUME Types, Ledger, Select PROVE Ledger'
<1>1. /\ pc = "select" /\ pc' = "select" /\ todo # <<>> /\ todo' = Tail(todo)
      /\ UNCHANGED <<by, budget, offered>>
      /\ \/ Take(Head(todo))
         \/ ~Fits(Head(todo).record, Head(todo).kept) /\ selected' = selected /\ used' = used
  BY DEF Select, packer
<1>2. /\ by \in Packers /\ offered \in Seq(Hits) /\ todo \in Seq(Hits) /\ used \in Nat /\ budget \in Nat
      /\ selected \in Seq(Hits) /\ Envelope[by] \in Nat
  BY BudgetAssumption DEF Types
<1>3. /\ Head(todo) \in Hits /\ Seen \in 0..Len(offered)
      /\ UsedIsLength /\ \A i \in DOMAIN todo : todo[i] = offered[Seen + i]
      /\ \A i \in DOMAIN selected : selected[i] \in ToSet(offered)
      /\ used <= Room(Seen)
      /\ \A i \in 1..Seen : Justified(i)
  BY <1>1, <1>2 DEF Ledger, Accounted
<1> PICK h \in Hits, n \in 0..Len(offered) : h = Head(todo) /\ n = Seen
  BY <1>3
<1>4. /\ h = todo[1] /\ 1 \in DOMAIN todo /\ Len(todo) \in Nat /\ Len(offered) \in Nat
      /\ Len(todo') = Len(todo) - 1 /\ Len(todo) # 0
      /\ DOMAIN todo' = 1 .. Len(todo) - 1 /\ DOMAIN todo = 1..Len(todo)
      /\ \A i \in 1 .. Len(todo) - 1 : todo'[i] = todo[i + 1]
  BY <1>1, <1>2
<1>5. h = offered[n + 1]
  BY <1>3, <1>4
<1>6. n = Len(offered) - Len(todo) /\ Seen' = n + 1 /\ n \in 0 .. Len(offered) - 1
  BY <1>1, <1>4 DEF Seen
<1> DEFINE weight == WeightOf(by, h)
<1>7. weight \in Nat /\ weight = Weight(h) /\ weight = Weight(h)'
  BY <1>1, <1>2, WeightNatural, Folded
<1>0. Room(n) = Room(Seen)
  BY DEF Room
<1>8. \A i \in DOMAIN todo' : todo'[i] = offered[(n + 1) + i]
  <2> SUFFICES ASSUME NEW i \in 1 .. Len(todo) - 1 PROVE todo'[i] = offered[(n + 1) + i]
    BY <1>4
  <2>1. i + 1 \in DOMAIN todo /\ n + (i + 1) = (n + 1) + i
    BY <1>4, <1>6
  <2> QED
    BY <1>3, <1>4, <2>1
<1>9. /\ UsedIsLength'
      /\ ToSet(selected) \subseteq ToSet(selected')
      /\ \A i \in DOMAIN selected' : selected'[i] \in ToSet(offered)
      /\ used' <= Room(n + 1)'
      /\ Justified(n + 1)'
  <2> DEFINE room == RoomOf(by, offered, selected', n)
             next == RoomOf(by, offered, selected', n + 1)
  <2>1. Room(n + 1)' = next /\ Room(n)' = room
    BY <1>1, Folded
  <2>2. next = room + IF h \in ToSet(selected') THEN weight + 1 ELSE 0
    BY <1>2, <1>5, <1>6, RoomNext
  <2>3. CASE Take(h)
    <3>1. UsedIsLength' /\ ToSet(selected') = ToSet(selected) \union {h}
      BY <1>1, <1>3, <1>4, <2>3, TakeCounted
    <3>2. Room(n) \in Nat /\ room \in Nat /\ Room(n) <= room
      <4>1. ToSet(selected) \subseteq ToSet(selected')
        BY <3>1
      <4>2. Room(n) \in Nat /\ Room(n)' \in Nat /\ Room(n) <= Room(n)'
        BY <1>1, <4>1, PackedMore
      <4> QED
        BY <2>1, <4>2
    <3>3. used' = used + weight + 1
      BY <2>3 DEF Take, WeightOf
    <3>4. next = room + (weight + 1)
      <4>1. h \in ToSet(selected')
        BY <3>1
      <4> HIDE DEF weight, room, next
      <4> QED
        BY <2>2, <4>1
    <3>5. used' <= next
      <4> HIDE DEF weight, room, next
      <4> QED
        BY <1>0, <1>2, <1>3, <1>7, <3>2, <3>3, <3>4
    <3>6. h \in ToSet(offered)
      BY <1>2, <1>5, <1>6 DEF ToSet
    <3>7. \A x \in ToSet(selected') : x \in ToSet(offered)
      BY <1>3, <3>1, <3>6 DEF ToSet
    <3>8. \A i \in DOMAIN selected' : selected'[i] \in ToSet(selected')
      BY DEF ToSet
    <3>9. Justified(n + 1)'
      BY <1>1, <1>5, <3>1 DEF Justified
    <3> QED
      BY <2>1, <3>1, <3>5, <3>7, <3>8, <3>9
  <2>4. CASE ~Fits(h.record, h.kept) /\ selected' = selected /\ used' = used
    <3>1. UsedIsLength'
      BY <1>1, <1>3, <2>4, Folded
    <3>2. Room(n) = room /\ room \in Nat
      BY <1>2, <1>3, <2>4, Folded, RoomNatural
    <3>3. used' <= next
      <4> HIDE DEF weight, room, next
      <4>1. next = room + 0 \/ next = room + (weight + 1)
        BY <2>2
      <4> QED
        BY <1>0, <1>2, <1>3, <1>7, <2>4, <3>2, <4>1
    <3>4. ~(Envelope[by] + used + weight <= budget)
      BY <2>4 DEF Fits, Encoding, WeightOf
    <3>5. Envelope[by] + room + weight > budget
      <4> HIDE DEF weight, room, next
      <4> QED
        BY <1>0, <1>2, <1>3, <1>7, <3>2, <3>4
    <3>6. Envelope[by]' = Envelope[by] /\ (n + 1) - 1 = n
      BY <1>1, <1>6
    <3>7. Justified(n + 1)'
      <4>1. Weight(offered[n + 1])' = weight /\ Room((n + 1) - 1)' = room
        <5>1. Room((n + 1) - 1)' = Room(n)'
          BY <3>6
        <5> QED
          BY <1>1, <1>5, <2>1, <5>1, Folded
      <4> QED
        BY <1>1, <3>5, <4>1 DEF Justified
    <3> QED
      BY <1>3, <2>1, <2>4, <3>1, <3>3, <3>7
  <2> QED
    BY <1>1, <2>3, <2>4
<1>10. \A i \in 1 .. n + 1 : Justified(i)'
  <2>1. \A i \in 1..n : i \in DOMAIN offered
    BY <1>2, <1>6
  <2>2. \A i \in 1..n : Justified(i)'
    BY <1>1, <1>3, <1>9, <2>1, PackedMore
  <2>3. \A i \in 1 .. n + 1 : i \in 1..n \/ i = n + 1
    BY <1>6
  <2> QED
    BY <1>9, <2>2, <2>3
<1>11. Accounted'
  <2>1. Seen' \in 0..Len(offered')
    BY <1>1, <1>4, <1>6
  <2>2. Room(Seen)' = Room(n + 1)'
    BY <1>6 DEF Room
  <2>3. ~Cutting'
    BY <1>1
  <2> HIDE DEF Cutting
  <2> QED
    BY <1>1, <1>6, <1>8, <1>9, <1>10, <2>1, <2>2, <2>3 DEF Accounted
<1>12. NoneLeftOut'
  BY <1>1 DEF NoneLeftOut
<1> QED
  BY <1>9, <1>11, <1>12 DEF Ledger

\* Only the hit that is packed last was cut.
LEMMA TakeCutLedger == ASSUME Types, Ledger, TakeCut, [hit EXCEPT !.kept = best] \in Hits \/ best = None
                       PROVE  Ledger'
<1> DEFINE h == [hit EXCEPT !.kept = best]
<1>1. /\ pc = "bisected" /\ UNCHANGED <<by, budget, offered, todo>>
      /\ \/ best # None /\ Take(h) /\ pc' = "packed"
         \/ selected' = selected /\ used' = used /\ pc' = "select"
  BY DEF TakeCut, Worthwhile, packer
<1>2. /\ UsedIsLength /\ Seen \in 0..Len(offered) /\ todo = <<>>
      /\ \A i \in DOMAIN selected : selected[i] \in ToSet(offered)
      /\ \A i \in 1..Seen : Justified(i)
  BY <1>1 DEF Ledger, Accounted
<1>3. CASE best # None /\ Take(h) /\ pc' = "packed"
  <2>1. h \in Hits
    BY <1>3
  <2> HIDE DEF h
  <2>2. UsedIsLength' /\ ToSet(selected') = ToSet(selected) \union {h}
    BY <1>1, <1>2, <1>3, <2>1, TakeCounted
  <2>3. \A i \in DOMAIN offered : Justified(i)'
    BY <1>1, <1>2, <2>2, LookedAtAll, PackedMore
  <2>4. \A i \in 1 .. Len(selected') - 1 : i \in DOMAIN selected /\ selected'[i] = selected[i]
    <3>1. selected' = Append(selected, h) /\ selected \in Seq(Hits)
      BY <1>3 DEF Take, Types
    <3> QED
      BY <2>1, <3>1
  <2>5. NoneLeftOut'
    BY <1>1, <1>2, <2>3, <2>4 DEF NoneLeftOut
  <2>6. Accounted'
    BY <1>3 DEF Accounted
  <2> QED
    BY <2>2, <2>5, <2>6 DEF Ledger
<1>4. CASE selected' = selected /\ used' = used /\ pc' = "select"
  BY <1>1, <1>4, LedgerStays
<1> QED
  BY <1>1, <1>3, <1>4

LEMMA TakeFacts ==
  ASSUME Types, NEW h \in Hits, Take(h)
  PROVE  /\ selected' \in Seq(Hits) /\ used' \in Nat
         /\ RecordsOf(selected') = RecordsOf(selected) \union {h.record}
         /\ selected' # <<>>
         /\ Fits(h.record, h.kept) => Envelope[by] + used' - 1 <= budget
<1>1. selected' = Append(selected, h) /\ used' = used + Size[by][h.record][h.kept] + 1
  BY DEF Take
<1>2. Size[by][h.record][h.kept] \in Nat
  BY HitFacts, SizeAssumption DEF Types
<1>3. selected' \in Seq(Hits) /\ RecordsOf(selected') = RecordsOf(selected) \union {h.record}
  BY <1>1, AppendRecords DEF Types
<1>4. used \in Nat /\ budget \in Nat /\ Envelope[by] \in Nat
  BY BudgetAssumption DEF Types
<1>5. used' = used + Size[by][h.record][h.kept] + 1
  BY <1>1
<1>6. \A envelope, size, u, b \in Nat :
        /\ u + size + 1 \in Nat
        /\ envelope + u + size <= b => envelope + (u + size + 1) - 1 <= b
  OBVIOUS
<1>7. Fits(h.record, h.kept) <=> Envelope[by] + used + Size[by][h.record][h.kept] <= budget
  BY DEF Fits, Encoding
<1>8. used' \in Nat /\ (Fits(h.record, h.kept) => Envelope[by] + used' - 1 <= budget)
  BY <1>2, <1>4, <1>5, <1>6, <1>7
<1>9. selected' # <<>>
  BY <1>1 DEF Types
<1> QED
  BY <1>3, <1>8, <1>9

LEMMA TrackedStays ==
  ASSUME Tracked, UNCHANGED <<offered, todo, selected, deferred>>,
         pc' \in {"bisect", "bisected"} => pc \in {"bisect", "bisected"} /\ hit' = hit
  PROVE  Tracked'
<1>1. /\ RecordsOf(offered') = RecordsOf(offered) /\ RecordsOf(todo') = RecordsOf(todo)
      /\ RecordsOf(selected') = RecordsOf(selected) /\ RecordsOf(deferred') = RecordsOf(deferred)
  OBVIOUS
<1> QED
  BY <1>1 DEF Tracked

LEMMA Parts ==
  /\ IInv <=> /\ Types /\ UsedFits /\ Bisection /\ CutFound /\ LongestPrefix
              /\ Tracked /\ ScopeKept /\ Ledger
  /\ IInv' <=> /\ Types' /\ UsedFits' /\ Bisection' /\ CutFound' /\ LongestPrefix'
               /\ Tracked' /\ ScopeKept' /\ Ledger'
BY DEF IInv, Ledger

\* A bisection begins when every hit was looked at.
LEMMA CuttingLast == ASSUME IInv, Cutting PROVE todo = <<>>
BY DEF IInv, Accounted

LEMMA AskInductive == ASSUME IInv, Ask PROVE IInv'
<1>1. PICK q \in Requests : pc = "idle" /\ Given(q) /\ Search(q)
  BY DEF Ask
<1>2. CASE pc' = "refused" /\ UNCHANGED <<found, packer, packing>>
  <2>1. Types'
    BY <1>1, <1>2 DEF IInv, Types, packer, packing
  <2>2. Tracked'
    <3>1. UNCHANGED <<selected, todo, deferred, offered>> /\ pc' = "refused"
      BY <1>2 DEF packer, packing
    <3>2. Tracked
      BY DEF IInv
    <3> QED
      BY <1>2, <3>1, <3>2, TrackedStays
  <2>3. Bisection' /\ CutFound' /\ LongestPrefix' /\ ScopeKept'
    BY <1>2 DEF Bisection, CutFound, LongestPrefix, ScopeKept
  <2>4. UsedFits'
    BY <1>2 DEF IInv, UsedFits, packer, packing
  <2>5. Ledger'
    <3>1. UNCHANGED <<by, budget, offered, todo, selected, used>>
      BY <1>2 DEF packer, packing
    <3> QED
      BY <1>2, <3>1, LedgerStays, Parts
  <2> QED
    BY <2>1, <2>2, <2>3, <2>4, <2>5, Parts
<1>3. ASSUME NEW hits \in Seq(Hits), Start("store", q.bytes, hits), request' = q,
             LET seen == {r \in found' : Meant(r, q)}
             IN  /\ RecordsOf(hits) \subseteq seen
                 /\ Cardinality(seen) <= Limit(q) => RecordsOf(hits) = seen
      PROVE  IInv'
  <2>1. /\ pc' = "select" /\ by' = "store" /\ budget' = q.bytes /\ offered' = hits
        /\ todo' = hits /\ selected' = <<>> /\ used' = 0 /\ deferred' = <<>>
    BY <1>3 DEF Start
  <2>2. q.bytes \in Nat
    BY BudgetAssumption DEF Requests
  <2>3. Types'
    BY <2>1, <2>2 DEF Types, Packers
  <2>4. RecordsOf(<<>>) = {}
    BY DEF RecordsOf
  <2>5. Tracked'
    BY <2>1, <2>4 DEF Tracked, RecordsOf
  <2>6. Bisection' /\ CutFound' /\ LongestPrefix'
    BY <2>1 DEF Bisection, CutFound, LongestPrefix
  <2>7. {h.record : h \in ToSet(hits)} = RecordsOf(hits)
    BY DEF ToSet, RecordsOf
  <2>8. ScopeKept'
    BY <1>3, <2>1, <2>7 DEF ScopeKept, Meant, Limit
  <2>9. UsedFits'
    BY <2>1 DEF UsedFits
  <2>10. Ledger'
    BY <1>3, StartLedger DEF Packers
  <2> QED
    BY <2>3, <2>5, <2>6, <2>8, <2>9, <2>10, Parts
<1>4. request' = q
  BY <1>1 DEF Search
<1>5. CASE found' = {} /\ Start("store", q.bytes, <<>>)
  <2>1. RecordsOf(<<>>) = {} /\ {r \in found' : Meant(r, q)} = {}
    BY <1>5 DEF RecordsOf
  <2>2. <<>> \in Seq(Hits)
    OBVIOUS
  <2> QED
    BY <1>3, <1>4, <1>5, <2>1, <2>2
<1>6. CASE ~Refused(q) /\ \E S \in SUBSET Records : found' = S /\
             \E hits \in Rankings({r \in S : InScope(r, q)}, Limit(q)) : Start("store", q.bytes, hits)
  <2>1. PICK S \in SUBSET Records : found' = S /\
               \E hits \in Rankings({r \in S : InScope(r, q)}, Limit(q)) : Start("store", q.bytes, hits)
    BY <1>6
  <2>2. {r \in S : InScope(r, q)} = {r \in S : Meant(r, q)}
    BY <1>1, <1>6, <2>1, ScopeMeant DEF Refused
  <2>3. PICK hits \in Rankings({r \in S : Meant(r, q)}, Limit(q)) : Start("store", q.bytes, hits)
    BY <2>1, <2>2
  <2>4. /\ hits \in Seq(Hits) /\ RecordsOf(hits) \subseteq {r \in S : Meant(r, q)}
        /\ Cardinality({r \in S : Meant(r, q)}) <= Limit(q) => RecordsOf(hits) = {r \in S : Meant(r, q)}
    BY <2>3, LimitNatural, RankingFacts
  <2> QED
    BY <1>3, <1>4, <2>1, <2>3, <2>4
<1> QED
  BY <1>1, <1>2, <1>5, <1>6 DEF Search

\* Steps that leave a bisection for the packing keep what the packer was given.
LEMMA Unoffered ==
  ASSUME IInv, UNCHANGED <<request, found, by, offered>>, pc \notin {"idle", "refused"}
  PROVE  ScopeKept'
BY DEF IInv, ScopeKept, Meant, Limit

LEMMA SelectInductive == ASSUME IInv, Select PROVE IInv'
<1> DEFINE h == Head(todo)
<1>1. /\ pc = "select" /\ pc' = "select" /\ todo # <<>> /\ todo' = Tail(todo)
      /\ UNCHANGED <<request, found, by, budget, offered>>
      /\ \/ Fits(h.record, h.kept) /\ Take(h) /\ deferred' = deferred
         \/ deferred' = Append(deferred, h) /\ selected' = selected /\ used' = used
  BY DEF Select, asked, packer
<1>2. Types /\ Tracked
  BY DEF IInv
<1>3. /\ h \in Hits /\ todo' \in Seq(Hits)
      /\ h.record \in RecordsOf(todo) /\ RecordsOf(todo') \subseteq RecordsOf(todo)
  BY <1>1, <1>2, TailRecords DEF Types
<1>4. /\ selected' \in Seq(Hits) /\ used' \in Nat /\ deferred' \in Seq(Hits)
      /\ RecordsOf(selected') \subseteq RecordsOf(selected) \union {h.record}
      /\ RecordsOf(deferred') \subseteq RecordsOf(deferred) \union {h.record}
      /\ UsedFits'
  <2> HIDE DEF h
  <2>1. CASE Fits(h.record, h.kept) /\ Take(h) /\ deferred' = deferred
    <3>1. /\ selected' \in Seq(Hits) /\ used' \in Nat /\ selected' # <<>>
          /\ RecordsOf(selected') = RecordsOf(selected) \union {h.record}
          /\ Envelope[by] + used' - 1 <= budget
      BY <1>2, <1>3, <2>1, TakeFacts
    <3> QED
      BY <1>1, <1>2, <2>1, <3>1 DEF Types, UsedFits
  <2>2. CASE deferred' = Append(deferred, h) /\ selected' = selected /\ used' = used
    <3>1. UsedFits'
      BY <1>1, <2>2 DEF IInv, UsedFits
    <3> QED
      BY <1>2, <1>3, <2>2, <3>1, AppendRecords DEF Types
  <2> QED
    BY <1>1, <2>1, <2>2
<1>5. Types'
  BY <1>1, <1>2, <1>3, <1>4 DEF Types
<1>6. Tracked'
  <2>1. RecordsOf(offered') = RecordsOf(offered) /\ h.record \in RecordsOf(offered)
    BY <1>1, <1>2, <1>3 DEF Tracked
  <2> QED
    BY <1>1, <1>2, <1>3, <1>4, <2>1 DEF Tracked
<1>7. Bisection' /\ CutFound' /\ LongestPrefix'
  BY <1>1 DEF Bisection, CutFound, LongestPrefix
<1>8. Ledger'
  BY SelectLedger, Parts
<1> QED
  BY <1>1, <1>4, <1>5, <1>6, <1>7, Unoffered, <1>8, Parts

LEMMA NextDeferredInductive == ASSUME IInv, NextDeferred PROVE IInv'
<1>1. /\ pc = "select" /\ pc' = "bisect" /\ deferred # <<>> /\ deferred' = Tail(deferred)
      /\ hit' = Head(deferred) /\ low' = 0 /\ best' = None
      /\ high' = Length(hit'.record, hit'.kept)
      /\ UNCHANGED <<request, found, by, budget, offered, todo, selected, used>>
  BY DEF NextDeferred, asked, packer
<1>2. Types /\ Tracked
  BY DEF IInv
<1>3. /\ hit' \in Hits /\ deferred' \in Seq(Hits)
      /\ hit'.record \in RecordsOf(deferred) /\ RecordsOf(deferred') \subseteq RecordsOf(deferred)
  BY <1>1, <1>2, TailRecords DEF Types
<1>4. Types'
  BY <1>1, <1>2, <1>3 DEF Types
<1>5. Tracked'
  <2>1. RecordsOf(offered') = RecordsOf(offered) /\ RecordsOf(selected') = RecordsOf(selected)
        /\ RecordsOf(todo') = RecordsOf(todo)
    BY <1>1
  <2> QED
    BY <1>2, <1>3, <2>1 DEF Tracked
<1>6. Length(hit'.record, hit'.kept) \in Nat /\ Length(hit.record, hit.kept)' = high'
  BY <1>1, <1>2, <1>3, Positions DEF Types, Length
<1>7. Bisection'
  BY <1>1, <1>6 DEF Bisection, Length
<1>8. CutFound' /\ LongestPrefix'
  BY <1>1 DEF CutFound, LongestPrefix
<1>9. UsedFits'
  BY <1>1 DEF IInv, UsedFits
<1>10. Ledger'
  <2>1. todo = <<>>
    BY DEF NextDeferred
  <2> QED
    BY <1>1, <2>1, LedgerStays, Parts
<1> QED
  BY <1>1, <1>4, <1>5, <1>7, <1>8, <1>9, Unoffered, <1>10, Parts

\* The middle is in the range, and what is decided about it is decided on one side of it.
LEMMA BisectInductive == ASSUME IInv, Bisect PROVE IInv'
<1> DEFINE r == hit.record
           length == Length(r, hit.kept)
           middle == low + (high - low) \div 2
           n == Cut(r, hit.kept, middle)
<1>1. /\ pc = "bisect" /\ low <= high /\ hit' = hit
      /\ UNCHANGED <<request, found, by, budget, offered, todo, selected, used, deferred>>
      /\ \/ Fits(r, n) /\ best' = n /\ low' = middle + 1 /\ pc' = pc /\ high' = high
         \/ /\ ~Fits(r, n) /\ by = "store" /\ middle = 0
            /\ pc' = "bisected" /\ low' = low /\ high' = high /\ best' = best
         \/ /\ ~Fits(r, n) /\ ~(by = "store" /\ middle = 0)
            /\ high' = middle - 1 /\ pc' = pc /\ low' = low /\ best' = best
  BY DEF Bisect, Above, AtZero, asked, packer, packing
<1>2. /\ Types /\ hit \in Hits /\ by \in Packers /\ budget \in Nat /\ used \in Nat
      /\ length \in Nat
  BY <1>1, Positions DEF IInv, Types
<1>3. /\ low \in 0 .. length + 1
      /\ high \in (IF by = "store" THEN 0 ELSE -1) .. length
      /\ \A position \in 0..length :
           /\ position < low => Fits(r, Cut(r, hit.kept, position))
           /\ position > high => ~Fits(r, Cut(r, hit.kept, position))
      /\ best = IF low = 0 THEN None ELSE Cut(r, hit.kept, low - 1)
  BY <1>1 DEF IInv, Bisection
<1>4. middle \in 0..length /\ low <= middle /\ middle <= high
  <2> HIDE DEF length
  <2> QED
    BY <1>1, <1>2, <1>3
<1>5. /\ n \in 0..hit.kept
      /\ \A position \in 0..length : Cut(r, hit.kept, position) \in 0..hit.kept
      /\ \A n2 \in 0..hit.kept : \E position \in 0..length : Cut(r, hit.kept, position) = n2
      /\ \A position, other \in 0..length :
           position <= other => Cut(r, hit.kept, position) <= Cut(r, hit.kept, other)
      /\ Cut(r, hit.kept, 0) = 0
  BY <1>2, <1>4, Positions
<1>6. \A p, m \in 0..hit.kept : m <= p /\ Fits(r, p) => Fits(r, m)
  BY <1>2, FitsDown
<1>9. Bisection' /\ CutFound' /\ LongestPrefix'
  <2> SUFFICES
        /\ pc' = "bisect" =>
             /\ low' \in 0 .. length + 1
             /\ high' \in (IF by = "store" THEN 0 ELSE -1) .. length
             /\ \A position \in 0..length :
                  /\ position < low' => Fits(r, Cut(r, hit.kept, position))
                  /\ position > high' => ~Fits(r, Cut(r, hit.kept, position))
             /\ best' = IF low' = 0 THEN None ELSE Cut(r, hit.kept, low' - 1)
        /\ pc' = "bisected" => /\ best' = None
                               /\ \A p \in 0..hit.kept : ~Fits(r, p)
    <3>1. \A p \in 0..hit.kept : ~(p <= None)
      BY DEF None
    <3> QED
      BY <1>1, <3>1 DEF Bisection, CutFound, LongestPrefix, Fits, Encoding, Cut, Length
  <2> HIDE DEF r, length, middle, n
  <2>1. CASE Fits(r, n) /\ best' = n /\ low' = middle + 1 /\ pc' = pc /\ high' = high
    <3>1. ASSUME NEW position \in 0..length, position < low'
          PROVE  Fits(r, Cut(r, hit.kept, position))
      <4>1. position <= middle
        BY <1>4, <2>1, <3>1
      <4> QED
        BY <1>4, <1>5, <1>6, <2>1, <4>1 DEF n
    <3>2. low' \in 0 .. length + 1 /\ low' # 0 /\ low' - 1 = middle
      BY <1>2, <1>4, <2>1
    <3> QED
      BY <1>1, <1>3, <2>1, <3>1, <3>2 DEF n
  <2>2. CASE /\ ~Fits(r, n) /\ by = "store" /\ middle = 0
             /\ pc' = "bisected" /\ low' = low /\ high' = high /\ best' = best
    <3>1. low = 0 /\ n = 0
      BY <1>3, <1>4, <1>5, <2>2 DEF n
    <3>2. ASSUME NEW p \in 0..hit.kept PROVE ~Fits(r, p)
      <4>1. 0 \in 0..hit.kept /\ 0 <= p
        BY <1>2, HitFacts
      <4> QED
        BY <1>6, <2>2, <3>1, <4>1
    <3> QED
      BY <1>3, <2>2, <3>1, <3>2
  <2>3. CASE /\ ~Fits(r, n) /\ ~(by = "store" /\ middle = 0)
             /\ high' = middle - 1 /\ pc' = pc /\ low' = low /\ best' = best
    <3>1. ASSUME NEW position \in 0..length, position > high'
          PROVE  ~Fits(r, Cut(r, hit.kept, position))
      <4>1. middle <= position
        BY <1>4, <2>3, <3>1
      <4> QED
        BY <1>4, <1>5, <1>6, <2>3, <4>1 DEF n
    <3>2. high' \in (IF by = "store" THEN 0 ELSE -1) .. length
      BY <1>2, <1>4, <2>3
    <3> QED
      BY <1>1, <1>3, <2>3, <3>1, <3>2
  <2> QED
    BY <1>1, <2>1, <2>2, <2>3
<1>10. Types' /\ UsedFits'
  BY <1>1, <1>2 DEF IInv, Types, UsedFits
<1>11. Tracked'
  BY <1>1, TrackedStays DEF IInv
<1>12. Ledger'
  <2>1. todo = <<>> /\ pc' \in {"bisect", "bisected"}
    BY <1>1, CuttingLast
  <2> QED
    BY <1>1, <2>1, LedgerStays, Parts
<1> QED
  BY <1>1, <1>9, <1>10, <1>11, Unoffered, <1>12, Parts

\* When the range is empty, the cut at its lower end is the longest there is.
LEMMA BisectedInductive == ASSUME IInv, Bisected PROVE IInv'
<1> DEFINE r == hit.record
           length == Length(r, hit.kept)
<1>1. /\ pc = "bisect" /\ low > high /\ pc' = "bisected" /\ hit' = hit /\ best' = best
      /\ UNCHANGED <<request, found, by, budget, offered, todo, selected, used, deferred>>
  BY DEF Bisected, asked, packer, packing, cutting
<1>2. /\ Types /\ hit \in Hits /\ by \in Packers /\ budget \in Nat /\ used \in Nat
      /\ length \in Nat
  BY <1>1, Positions DEF IInv, Types
<1>3. /\ low \in 0 .. length + 1
      /\ high \in (IF by = "store" THEN 0 ELSE -1) .. length
      /\ \A position \in 0..length :
           /\ position < low => Fits(r, Cut(r, hit.kept, position))
           /\ position > high => ~Fits(r, Cut(r, hit.kept, position))
      /\ best = IF low = 0 THEN None ELSE Cut(r, hit.kept, low - 1)
  BY <1>1 DEF IInv, Bisection
<1>4. /\ \A position \in 0..length : Cut(r, hit.kept, position) \in 0..hit.kept
      /\ \A n \in 0..hit.kept : \E position \in 0..length :
           /\ Cut(r, hit.kept, position) = n
           /\ \A other \in 0..length : Cut(r, hit.kept, other) < n => other < position
  BY <1>2, Positions
<1>5. \A p, m \in 0..hit.kept : m <= p /\ Fits(r, p) => Fits(r, m)
  BY <1>2, FitsDown
<1>6. /\ best = None \/ best \in 0..hit.kept
      /\ \A n \in 0..hit.kept : Fits(r, n) <=> n <= best
  <2> HIDE DEF r, length
  <2>1. CASE low = 0
    <3>1. best = None /\ \A position \in 0..length : position > high
      BY <1>1, <1>2, <1>3, <2>1
    <3> QED
      BY <1>3, <1>4, <3>1 DEF None
  <2>2. CASE low # 0
    <3>1. /\ low - 1 \in 0..length /\ low - 1 < low /\ best = Cut(r, hit.kept, low - 1)
      BY <1>1, <1>2, <1>3, <2>2
    <3>2. best \in 0..hit.kept /\ Fits(r, best)
      BY <1>3, <1>4, <3>1
    <3>3. ASSUME NEW n \in 0..hit.kept, best < n PROVE ~Fits(r, n)
      <4>1. PICK position \in 0..length : Cut(r, hit.kept, position) = n /\ low - 1 < position
        BY <1>4, <3>1, <3>3
      <4>2. position > high
        BY <1>1, <1>2, <1>3, <4>1
      <4> QED
        BY <1>3, <4>1, <4>2
    <3>4. ASSUME NEW n \in 0..hit.kept, n <= best PROVE Fits(r, n)
      BY <1>5, <3>2, <3>4
    <3>5. \A n \in 0..hit.kept : n <= best \/ best < n
      BY <3>2
    <3>6. \A n \in 0..hit.kept : ~(n <= best /\ best < n)
      BY <3>2
    <3> QED
      BY <3>2, <3>3, <3>4, <3>5, <3>6
  <2> QED
    BY <2>1, <2>2
<1>7. Bisection' /\ CutFound' /\ LongestPrefix'
  BY <1>1, <1>6 DEF Bisection, CutFound, LongestPrefix, Fits, Encoding
<1>8. Types' /\ UsedFits'
  BY <1>1, <1>2 DEF IInv, Types, UsedFits
<1>9. Tracked'
  BY <1>1, TrackedStays DEF IInv
<1>10. Ledger'
  <2>1. todo = <<>> /\ pc' \in {"bisect", "bisected"}
    BY <1>1, CuttingLast
  <2> QED
    BY <1>1, <2>1, LedgerStays, Parts
<1> QED
  BY <1>1, <1>7, <1>8, <1>9, Unoffered, <1>10, Parts

LEMMA TakeCutInductive == ASSUME IInv, TakeCut PROVE IInv'
<1> DEFINE h == [hit EXCEPT !.kept = best]
<1>1. /\ pc = "bisected" /\ pc' \in {"packed", "select"}
      /\ UNCHANGED <<request, found, by, budget, offered, todo, deferred>>
      /\ \/ best # None /\ Take(h)
         \/ selected' = selected /\ used' = used
  BY DEF TakeCut, Worthwhile, asked, packer
<1>2. Types /\ Tracked /\ UsedFits /\ hit \in Hits
  BY <1>1 DEF IInv, Types
<1>3. best # None => /\ best \in 0..hit.kept /\ Fits(hit.record, best)
                     /\ h \in Hits /\ h.record = hit.record /\ h.kept = best
  <2>1. best # None => best \in 0..hit.kept /\ Fits(hit.record, best)
    BY <1>1 DEF IInv, CutFound, LongestPrefix
  <2>2. hit.kept \in Nat /\ hit.record \in Records /\ Chars[hit.record] \in Nat /\ hit.kept <= Chars[hit.record]
    BY <1>2, HitFacts DEF Hits
  <2> QED
    BY <1>2, <2>1, <2>2 DEF Hits
<1>4. /\ selected' \in Seq(Hits) /\ used' \in Nat /\ UsedFits'
      /\ RecordsOf(selected') \subseteq RecordsOf(selected) \union {hit.record}
  <2>1. CASE best # None /\ Take(h)
    <3>1. /\ h \in Hits /\ h.record = hit.record /\ h.kept = best /\ Fits(hit.record, best)
      BY <1>3, <2>1
    <3> HIDE DEF h
    <3>2. /\ selected' \in Seq(Hits) /\ used' \in Nat /\ selected' # <<>>
          /\ RecordsOf(selected') = RecordsOf(selected) \union {hit.record}
          /\ Envelope[by] + used' - 1 <= budget
      BY <1>2, <2>1, <3>1, TakeFacts
    <3> QED
      BY <1>1, <3>2 DEF UsedFits
  <2>2. CASE selected' = selected /\ used' = used
    BY <1>1, <1>2, <2>2 DEF Types, UsedFits
  <2> QED
    BY <1>1, <2>1, <2>2
<1>5. Types'
  BY <1>1, <1>2, <1>4 DEF Types
<1>6. Tracked'
  <2>1. /\ RecordsOf(offered') = RecordsOf(offered) /\ RecordsOf(todo') = RecordsOf(todo)
        /\ RecordsOf(deferred') = RecordsOf(deferred)
    BY <1>1
  <2> QED
    BY <1>1, <1>2, <1>4, <2>1 DEF Tracked
<1>7. Bisection' /\ CutFound' /\ LongestPrefix'
  BY <1>1 DEF Bisection, CutFound, LongestPrefix
<1>8. Ledger'
  BY <1>3, TakeCutLedger, Parts
<1> QED
  BY <1>1, <1>4, <1>5, <1>6, <1>7, Unoffered, <1>8, Parts

\* NothingDeferred and Answer only go on.
LEMMA GoOnInductive == ASSUME IInv, NothingDeferred \/ Answer PROVE IInv'
<1>1. /\ pc \in {"select", "packed"} /\ pc' \in {"packed", "answered"}
      /\ UNCHANGED <<request, found, by, budget, offered, todo, selected, used, deferred>>
  BY DEF NothingDeferred, Answer, asked, packer, packing
<1>2. Types' /\ UsedFits'
  BY <1>1 DEF IInv, Types, UsedFits
<1>3. Tracked'
  BY <1>1, TrackedStays DEF IInv
<1>4. Bisection' /\ CutFound' /\ LongestPrefix'
  BY <1>1 DEF Bisection, CutFound, LongestPrefix
<1>5. Ledger'
  <2>1. pc' = "packed" => pc = "select" /\ todo = <<>>
    BY DEF NothingDeferred, Answer
  <2> QED
    BY <1>1, <2>1, LedgerStays, Parts
<1> QED
  BY <1>1, <1>2, <1>3, <1>4, Unoffered, <1>5, Parts

\* The plugin packs hits of the store, which were in scope.
LEMMA RepackInductive == ASSUME IInv, Repack PROVE IInv'
<1>1. PICK bytes \in PluginBudgets :
        /\ pc = "packed" /\ pc' = "select" /\ by' = "plugin" /\ budget' = bytes
        /\ offered' = selected /\ todo' = selected
        /\ selected' = <<>> /\ used' = 0 /\ deferred' = <<>>
        /\ UNCHANGED <<request, found>>
  BY DEF Repack, Start, asked
<1>2. RecordsOf(<<>>) = {} /\ bytes \in Nat
  BY BudgetAssumption DEF RecordsOf
<1>3. Types' /\ UsedFits'
  BY <1>1, <1>2 DEF IInv, Types, UsedFits, Packers
<1>4. Tracked'
  <2>1. RecordsOf(offered') = RecordsOf(todo') /\ RecordsOf(selected') = {} /\ RecordsOf(deferred') = {}
    BY <1>1, <1>2
  <2> QED
    BY <1>1, <2>1 DEF Tracked
<1>5. Bisection' /\ CutFound' /\ LongestPrefix'
  BY <1>1 DEF Bisection, CutFound, LongestPrefix
<1>6. ScopeKept'
  <2>1. \A hits : {h.record : h \in ToSet(hits)} = RecordsOf(hits)
    BY DEF ToSet, RecordsOf
  <2>2. RecordsOf(selected) \subseteq {q \in found : Meant(q, request)}
    BY <1>1, <2>1 DEF IInv, Tracked, ScopeKept
  <2> QED
    BY <1>1, <2>1, <2>2 DEF ScopeKept, Meant, Limit
<1>7. Ledger'
  BY StartLedger, Parts DEF Repack, Types, Packers
<1> QED
  BY <1>3, <1>4, <1>5, <1>6, <1>7, Parts

LEMMA SearchInductive == IInv /\ [Next]_vars => IInv'
<1> SUFFICES ASSUME IInv, [Next]_vars PROVE IInv'
  OBVIOUS
<1>1. CASE UNCHANGED vars
  <2>1. UNCHANGED <<pc, request, found, by, budget, offered, todo, selected, used, deferred, hit, low, high, best>>
    BY <1>1 DEF vars, asked, packer, packing, cutting
  <2>2. Types' /\ UsedFits'
    BY <2>1 DEF IInv, Types, UsedFits
  <2>3. Tracked'
    BY <2>1, TrackedStays DEF IInv
  <2>4. Bisection'
    BY <2>1 DEF IInv, Bisection, Fits, Encoding, Cut, Length
  <2>5. CutFound' /\ LongestPrefix'
    BY <2>1 DEF IInv, CutFound, LongestPrefix, Fits, Encoding
  <2>6. ScopeKept'
    BY <2>1 DEF IInv, ScopeKept, Meant, Limit
  <2>7. Ledger'
    BY <2>1, LedgerStays, Parts DEF Ledger, Accounted
  <2> QED
    BY <2>2, <2>3, <2>4, <2>5, <2>6, <2>7, Parts
<1> QED
  BY <1>1, AskInductive, SelectInductive, NextDeferredInductive, BisectInductive, BisectedInductive,
     TakeCutInductive, GoOnInductive, RepackInductive DEF Next, Pack

\* Ranges, cuts, scopes and the bytes used agree in every state of a search and its packing.
THEOREM Inductive == Spec => []IInv
<1>1. Init => IInv
  <2> SUFFICES ASSUME Init PROVE IInv
    OBVIOUS
  <2>1. Types /\ UsedFits
    BY DEF Init, Types, UsedFits, Packers
  <2>2. Tracked
    BY DEF Init, Tracked, RecordsOf
  <2>3. Bisection /\ CutFound /\ LongestPrefix /\ ScopeKept
    BY DEF Init, Bisection, CutFound, LongestPrefix, ScopeKept
  <2>4. Ledger
    BY LengthOfNone, Folded DEF Init, Ledger, Accounted, NoneLeftOut, Packers
  <2> QED
    BY <2>1, <2>2, <2>3, <2>4, Parts
<1> QED
  BY <1>1, SearchInductive, PTL DEF Spec

\* Neither bisection leaves its text or loses a position, over bytes or over characters.
THEOREM BisectionIsSound == Spec => []Bisection
<1>1. IInv => Bisection
  BY DEF IInv
<1> QED
  BY <1>1, Inductive, PTL

\* fit_hit_within_json_budget and the plugin's loop find the longest cut that fits.
THEOREM CutIsLongest == Spec => []LongestPrefix
<1>1. IInv => LongestPrefix
  BY DEF IInv
<1> QED
  BY <1>1, Inductive, PTL

\* search answers from the scope its caller means alone, however identifiers are stored, and
\* the tool not at all when it has no session.
THEOREM ScopeIsKept == Spec => []ScopeKept
<1>1. IInv => ScopeKept
  BY DEF IInv
<1> QED
  BY <1>1, Inductive, PTL

\* An answer of pack_search_hits, or of the plugin's packing, never exceeds its budget.
THEOREM AnswersFit == Spec => []FitsBudget
<1>1. IInv => FitsBudget
  <2> SUFFICES ASSUME IInv, selected # <<>> PROVE EncodedLength(selected) <= budget
    BY DEF FitsBudget
  <2>1. /\ used = LengthOf(by, selected) + Len(selected)
        /\ Envelope[by] + used - 1 <= budget
    BY Folded DEF IInv, UsedFits
  <2>2. EncodedLength(selected) = Envelope[by] + LengthOf(by, selected) + (Len(selected) - 1)
    BY DEF EncodedLength, LengthOf, Weight, WeightOf
  <2>3. Envelope[by] \in Nat /\ budget \in Nat /\ Len(selected) \in Nat /\ used \in Nat
    BY BudgetAssumption DEF IInv, Types
  <2>4. LengthOf(by, selected) \in Int
    BY LengthNatural DEF IInv, Types
  <2> QED
    BY <2>1, <2>2, <2>3, <2>4
<1> QED
  BY <1>1, Inductive, PTL

\* A hit is left out of an answer only if it would not fit with the better hits.
THEOREM LeftOutForReason == Spec => []NoneLeftOut
<1>1. IInv => NoneLeftOut
  BY DEF IInv
<1> QED
  BY <1>1, Inductive, PTL
=============================================================================
