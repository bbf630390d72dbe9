-------------------------- MODULE ProjectionProofs --------------------------
(***************************************************************************)
(* Proofs about Projection, for any number of records, threads, stores and *)
(* temporaries and any number of faults.                                   *)
(***************************************************************************)
EXTENDS Projection, FiniteSetTheorems, TLAPS

USE DEF Steps, UnderLock, UnderMutex

\* Every variable keeps its type.
LEMMA TypeStep == TypeOK /\ [Next]_vars => TypeOK'
<1> SUFFICES ASSUME TypeOK, [Next]_vars PROVE TypeOK'
  OBVIOUS
<1> USE StoreOfAssumption, PinnableAssumption DEF TypeOK
<1>1. NoRow \in Rows /\ NoSnap \in Snapshots
  BY DEF NoRow, NoSnap, Rows, Snapshots, Projections, Contents
<1>2. ASSUME NEW who, Leave(who)
      PROVE  /\ pc' \in [Threads -> Steps]
             /\ batch' \in [Threads -> SUBSET Records]
             /\ row' \in [Threads -> Rows]
             /\ snap' \in [Threads -> Snapshots]
             /\ tmp' \in [Threads -> TempNames \union {None}]
             /\ lock' \in Threads \union {None}
             /\ conn' \in [Stores -> Threads \union {None}]
  BY <1>1, <1>2 DEF Leave, MutexesAfter
<1>3. ASSUME NEW t \in Threads, Call(t) PROVE TypeOK'
  BY <1>3 DEF Call, Open, Ingest, GoTo, db, fs, locks, local, history
<1>4. ASSUME NEW t \in Threads, Commit(t) PROVE TypeOK'
  <2>1. IsFiniteSet(batch[t] \ records)
    BY RecordsAssumption, FS_Subset
  <2>2. current' \in Nat
    BY <1>4, <2>1, FS_CardinalityType DEF Commit
  <2> QED
    BY <1>4, <2>2 DEF Commit, GoTo, fs, locks, local, history
<1>5. ASSUME NEW t \in Threads, Project(t) PROVE TypeOK'
  <2>1. CASE Lock(t)
    BY <2>1 DEF Lock, GoTo, db, fs, local, history
  <2>2. CASE Clean(t)
    BY <2>2 DEF Clean, Orphans, GoTo, db, locks, local, history
  <2>3. CASE ReadState(t)
    BY <2>3 DEF ReadState, Rows, GoTo, db, fs, locks, history
  <2>4. CASE FileMatches(t)
    BY <1>2, <2>4 DEF FileMatches, ReturnOk, db, fs
  <2>5. CASE FileDiffers(t)
    BY <2>5 DEF FileDiffers, GoTo, db, fs, locks, local, history
  <2>6. CASE Snapshot(t)
    BY <2>6 DEF Snapshot, Snapshots, GoTo, db, fs, history
  <2>7. CASE CreateTemp(t)
    BY <2>7 DEF CreateTemp, GoTo, db, locks, history
  <2>8. CASE NoTempName(t)
    BY <1>2, <2>8 DEF NoTempName, db, fs, history
  <2>9. CASE Rename(t)
    <3>1. file' \in Contents
      BY <2>9 DEF Rename, NewContents, Snapshots, Contents
    <3> QED
      BY <2>9, <3>1 DEF Rename, GoTo, db, locks, history
  <2>10. CASE RenameRefused(t)
    BY <1>2, <2>10 DEF RenameRefused, db, fs, history
  <2>11. CASE RecordState(t)
    <3>1. projected' \in Projections
      BY <2>11 DEF RecordState, NewProjection, Snapshots, Projections, Contents
    <3> QED
      BY <1>2, <2>11, <3>1 DEF RecordState, ReturnOk, fs
  <2> QED
    BY <1>5, <2>1, <2>2, <2>3, <2>4, <2>5, <2>6, <2>7, <2>8, <2>9, <2>10, <2>11 DEF Project
<1>6. ASSUME NEW t \in Threads, Fail(t) PROVE TypeOK'
  <2>1. faults' \in 0..MaxFaults
    BY <1>6, MaxFaultsAssumption DEF Fail
  <2>2. temps' \in SUBSET TempNames /\ held' \in SUBSET (temps' \intersect Pinnable)
    BY <1>6 DEF Fail
  <2>3. UNCHANGED <<records, current, projected, file, opened, acked, damaged>>
    BY <1>6 DEF Fail, db
  <2>4. Leave({t})
    BY <1>6 DEF Fail
  <2> QED
    BY <1>2, <2>1, <2>2, <2>3, <2>4
<1>7. ASSUME NEW s \in Stores, Crash(s) PROVE TypeOK'
  <2>1. faults' \in 0..MaxFaults
    BY <1>7, MaxFaultsAssumption DEF Crash
  <2>2. opened' \in SUBSET Stores
    BY <1>7 DEF Crash
  <2>3. UNCHANGED <<records, current, projected, file, temps, held, acked, damaged>>
    BY <1>7 DEF Crash, db, fs
  <2>4. Leave({t \in Threads : StoreOf[t] = s})
    BY <1>7 DEF Crash
  <2> QED
    BY <1>2, <2>1, <2>2, <2>3, <2>4
<1>8. CASE Outside
  <2>1. CASE Tamper
    <3>1. faults' \in 0..MaxFaults
      BY <2>1, MaxFaultsAssumption DEF Tamper
    <3>2. file' \in Contents /\ damaged' \in BOOLEAN
      BY <2>1 DEF Tamper, Contents
    <3> QED
      BY <2>1, <3>1, <3>2 DEF Tamper, db, locks, local
  <2>2. ASSUME NEW n \in Pinnable, Pin(n) \/ Unpin(n) PROVE TypeOK'
    <3>1. held' \in SUBSET (temps' \intersect Pinnable) /\ temps' = temps
      BY <2>2 DEF Pin, Unpin
    <3> QED
      BY <2>2, <3>1 DEF Pin, Unpin, db, locks, local, history
  <2> QED
    BY <1>8, <2>1, <2>2 DEF Outside
<1>9. CASE UNCHANGED vars
  BY <1>9 DEF vars, db, fs, locks, local, history
<1> QED
  BY <1>3, <1>4, <1>5, <1>6, <1>7, <1>8, <1>9 DEF Next

-----------------------------------------------------------------------------
(* Generations *)

\* Rows are only added, and the trigger adds one to the generation for each: rows
\* counted before are still counted.
LEMMA CountedGrows ==
  ASSUME NEW gen, NEW rows, Counted(gen, rows), records \subseteq records'
  PROVE  Counted(gen, rows)'
BY DEF Counted

LEMMA NoSnapCounted == Counted(NoSnap.gen, NoSnap.rows) /\ Counted(NoSnap.gen, NoSnap.rows)'
BY FS_EmptySet DEF Counted, NoSnap

\* The number of rows and current_generation move together in the one transaction that
\* inserts; everything else copies a pair of the two taken at one moment.
LEMMA GenerationsStep == TypeOK /\ GenerationsCount /\ [Next]_vars => GenerationsCount'
<1> SUFFICES ASSUME TypeOK, GenerationsCount, [Next]_vars PROVE GenerationsCount'
  OBVIOUS
<1> USE DEF GenerationsCount
<1>1. CASE UNCHANGED <<records, current, projected, snap>>
  BY <1>1 DEF Counted
<1>2. ASSUME NEW who, Leave(who), UNCHANGED <<records, current, projected>>
      PROVE  GenerationsCount'
  <2> SUFFICES ASSUME NEW u \in Threads PROVE Counted(snap[u].gen, snap[u].rows)'
    BY <1>2 DEF Counted
  <2>1. snap'[u] = NoSnap \/ snap'[u] = snap[u]
    BY <1>2 DEF Leave
  <2> QED
    BY <1>2, <2>1, NoSnapCounted DEF Counted
<1>3. ASSUME NEW t \in Threads, Commit(t) PROVE GenerationsCount'
  <2>1. records \subseteq records' /\ records' = records \union (batch[t] \ records)
    BY <1>3 DEF Commit
  <2>2. IsFiniteSet(records) /\ IsFiniteSet(batch[t] \ records)
    BY RecordsAssumption, FS_Subset DEF TypeOK
  <2>3. records \intersect (batch[t] \ records) = {}
    OBVIOUS
  <2>4. Cardinality(records') = Cardinality(records) + Cardinality(batch[t] \ records)
    <3>1. /\ Cardinality(records) \in Nat
          /\ Cardinality(batch[t] \ records) \in Nat
          /\ Cardinality(records \intersect (batch[t] \ records)) = 0
      BY <2>2, <2>3, FS_CardinalityType, FS_EmptySet
    <3>2. Cardinality(records') = Cardinality(records) + Cardinality(batch[t] \ records)
                                    - Cardinality(records \intersect (batch[t] \ records))
      BY <2>1, <2>2, FS_Union
    <3> QED
      BY <3>1, <3>2
  <2>5. UNCHANGED <<projected, snap>> /\ current' = Cardinality(records')
    BY <1>3, <2>4 DEF Commit, local
  <2> QED
    BY <2>1, <2>5 DEF Counted
<1>4. ASSUME NEW t \in Threads, Snapshot(t) PROVE GenerationsCount'
  <2>1. UNCHANGED <<records, current, projected>>
    BY <1>4 DEF Snapshot, db
  <2>2. snap' = [snap EXCEPT ![t] = [gen |-> current, rows |-> records]]
    BY <1>4 DEF Snapshot
  <2> QED
    BY <2>1, <2>2 DEF Counted, TypeOK
<1>5. ASSUME NEW t \in Threads, RecordState(t) PROVE GenerationsCount'
  <2>1. UNCHANGED <<records, current>> /\ Leave({t})
    BY <1>5 DEF RecordState, ReturnOk
  <2>2. projected' = [gen |-> snap[t].gen, sha |-> snap[t].rows]
    BY <1>5 DEF RecordState, NewProjection
  <2>3. \A u \in Threads : snap'[u] = NoSnap \/ snap'[u] = snap[u]
    BY <2>1 DEF Leave
  <2>4. ASSUME NEW u \in Threads PROVE Counted(snap[u].gen, snap[u].rows)'
    BY <2>1, <2>3, NoSnapCounted DEF Counted
  <2> QED
    BY <2>1, <2>2, <2>4 DEF Counted
<1>6. ASSUME NEW t \in Threads, Call(t) PROVE UNCHANGED <<records, current, projected, snap>>
  BY <1>6 DEF Call, Open, Ingest, db, local
<1>7. ASSUME NEW t \in Threads, Project(t), ~Snapshot(t), ~RecordState(t)
      PROVE  GenerationsCount'
  <2>1. \/ UNCHANGED <<records, current, projected, snap>>
        \/ Leave({t}) /\ UNCHANGED <<records, current, projected>>
    BY <1>7
    DEF Project, Lock, Clean, ReadState, FileMatches, FileDiffers, CreateTemp, NoTempName,
        Rename, RenameRefused, ReturnOk, db, local
  <2> QED
    BY <1>1, <1>2, <2>1
<1>8. ASSUME NEW t \in Threads, Fail(t) PROVE GenerationsCount'
  BY <1>2, <1>8 DEF Fail, db
<1>9. ASSUME NEW s \in Stores, Crash(s) PROVE GenerationsCount'
  BY <1>2, <1>9 DEF Crash, db
<1>10. CASE Outside \/ UNCHANGED vars
  BY <1>1, <1>10 DEF Outside, Tamper, Pin, Unpin, vars, db, local
<1> QED
  BY <1>1, <1>3, <1>4, <1>5, <1>6, <1>7, <1>8, <1>9, <1>10 DEF Next

\* Equal generations mean equal rows: the numbers agree and one set contains the other.
LEMMA SameGeneration ==
  ASSUME TypeOK, GenerationsCount, projected.gen = current
  PROVE  projected.sha = records
<1>1. projected.gen # -1
  BY DEF TypeOK
<1>2. Counted(projected.gen, projected.sha)
  BY <1>1 DEF GenerationsCount, NoRow
<1>3. IsFiniteSet(records)
  BY RecordsAssumption, FS_Subset DEF TypeOK
<1>4. Cardinality(projected.sha) = Cardinality(records)
  BY <1>2 DEF Counted, GenerationsCount
<1> QED
  BY <1>2, <1>3, <1>4, FS_Subset DEF Counted

-----------------------------------------------------------------------------
(* The lock *)

\* Whoever is between the lock and its release is the one thread the lock names.
LEMMA OneProjectorStep == TypeOK /\ OneProjector /\ [Next]_vars => OneProjector'
<1> SUFFICES ASSUME TypeOK, OneProjector, [Next]_vars PROVE OneProjector'
  OBVIOUS
<1> USE NoneAssumption DEF OneProjector
<1>1. CASE UNCHANGED <<pc, lock>>
  BY <1>1
<1>2. ASSUME NEW who, Leave(who) PROVE OneProjector'
  BY <1>2 DEF Leave, TypeOK
<1>3. ASSUME NEW t \in Threads, lock' = lock,
             NEW from \in Steps, NEW to \in Steps, pc[t] = from, GoTo(t, to),
             (from \in UnderLock) <=> (to \in UnderLock)
      PROVE  OneProjector'
  BY <1>3 DEF GoTo, TypeOK
<1>4. ASSUME NEW t \in Threads, Open(t) PROVE OneProjector'
  <2>1. pc[t] = "idle"
    BY <1>4 DEF Open, Mates
  <2> QED
    BY <1>3, <1>4, <2>1 DEF Open, locks
<1>5. ASSUME NEW t \in Threads, Call(t) \/ Commit(t) PROVE OneProjector'
  BY <1>3, <1>4, <1>5 DEF Call, Ingest, Commit, locks
<1>6. ASSUME NEW t \in Threads, Project(t) PROVE OneProjector'
  <2>1. CASE Lock(t)
    BY <2>1 DEF Lock, LockFree, GoTo, TypeOK
  <2>2. CASE Clean(t) \/ FileDiffers(t) \/ Snapshot(t) \/ CreateTemp(t) \/ Rename(t)
    BY <1>3, <2>2 DEF Clean, FileDiffers, Snapshot, CreateTemp, Rename, locks
  <2>3. CASE ReadState(t)
    <3>1. GoTo(t, "compare") \/ GoTo(t, "snapshot")
      BY <2>3 DEF ReadState
    <3> QED
      BY <1>3, <2>3, <3>1 DEF ReadState, locks
  <2>4. CASE FileMatches(t) \/ NoTempName(t) \/ RenameRefused(t) \/ RecordState(t)
    BY <1>2, <2>4 DEF FileMatches, NoTempName, RenameRefused, RecordState, ReturnOk
  <2> QED
    BY <1>6, <2>1, <2>2, <2>3, <2>4 DEF Project
<1>7. ASSUME NEW t \in Threads, Fail(t) PROVE OneProjector'
  BY <1>2, <1>7 DEF Fail
<1>8. ASSUME NEW s \in Stores, Crash(s) PROVE OneProjector'
  BY <1>2, <1>8 DEF Crash
<1>9. CASE Outside \/ UNCHANGED vars
  BY <1>1, <1>9 DEF Outside, Tamper, Pin, Unpin, vars, locks
<1> QED
  BY <1>5, <1>6, <1>7, <1>8, <1>9 DEF Next

-----------------------------------------------------------------------------
(* What is owed to callers *)

\* The per-thread part of OwedCovered.
OwedOf(t) ==
  /\ pc[t] = "idle" => batch[t] = {}
  /\ pc[t] \in {"lock"} \union UnderLock => batch[t] \subseteq records
  /\ pc[t] = "compare" => /\ row[t].projected.sha \in SUBSET records
                         /\ Owed(t) \subseteq row[t].projected.sha
  /\ pc[t] \in UnderMutex => Owed(t) \subseteq snap[t].rows

\* A step that leaves the locals of u alone and promises nothing new keeps OwedOf(u).
LEMMA OwedUntouched ==
  ASSUME NEW u \in Threads, OwedOf(u), records \subseteq records',
         pc'[u] = pc[u], batch'[u] = batch[u], row'[u] = row[u], snap'[u] = snap[u],
         acked' = acked \/ pc[u] \notin UnderLock
  PROVE  OwedOf(u)'
BY DEF OwedOf, Owed

\* Every projector has read the database after whatever it must not lose was committed:
\* calls are answered only by the thread that holds the lock.
LEMMA OwedStep ==
  TypeOK /\ GenerationsCount /\ OneProjector /\ OwedCovered /\ [Next]_vars => OwedCovered'
<1> SUFFICES ASSUME TypeOK, GenerationsCount, OneProjector, OwedCovered, [Next]_vars
             PROVE  OwedCovered'
  OBVIOUS
<1>1. acked \subseteq records /\ \A u \in Threads : OwedOf(u)
  BY DEF OwedCovered, OwedOf
<1>2. SUFFICES acked' \subseteq records' /\ \A u \in Threads : OwedOf(u)'
  BY DEF OwedCovered, OwedOf
<1>3. CASE UNCHANGED <<records, acked, pc, batch, row, snap>>
  BY <1>1, <1>3 DEF OwedOf, Owed
<1>4. ASSUME NEW who, Leave(who), records' = records, acked' = acked
      PROVE  acked' \subseteq records' /\ \A u \in Threads : OwedOf(u)'
  <2> SUFFICES ASSUME NEW u \in Threads PROVE OwedOf(u)'
    BY <1>1, <1>4
  <2>1. CASE u \in who
    BY <1>4, <2>1 DEF Leave, OwedOf
  <2>2. CASE u \notin who
    BY <1>1, <1>4, <2>2, OwedUntouched DEF Leave
  <2> QED
    BY <2>1, <2>2
<1>5. ASSUME NEW t \in Threads, ReturnOk(t), records' = records, pc[t] \in UnderLock
      PROVE  acked' \subseteq records' /\ \A u \in Threads : OwedOf(u)'
  <2>1. batch[t] \subseteq records
    BY <1>1, <1>5 DEF OwedOf
  <2>2. ASSUME NEW u \in Threads \ {t} PROVE pc[u] \notin UnderLock
    BY <1>5, <2>2 DEF OneProjector
  <2>3. Leave({t}) /\ acked' = acked \union batch[t]
    BY <1>5 DEF ReturnOk
  <2>4. ASSUME NEW u \in Threads, u # t PROVE OwedOf(u)'
    BY <1>1, <1>5, <2>2, <2>3, <2>4, OwedUntouched DEF Leave
  <2>5. OwedOf(t)'
    BY <2>3 DEF Leave, OwedOf
  <2> QED
    BY <1>1, <1>5, <2>1, <2>3, <2>4, <2>5
\* A step of t that answers nobody.
<1>6. ASSUME NEW t \in Threads, acked' = acked, records \subseteq records',
             \A u \in Threads \ {t} : /\ pc'[u] = pc[u] /\ batch'[u] = batch[u]
                                     /\ row'[u] = row[u] /\ snap'[u] = snap[u],
             OwedOf(t)'
      PROVE  acked' \subseteq records' /\ \A u \in Threads : OwedOf(u)'
  BY <1>1, <1>6, OwedUntouched
<1>7. ASSUME NEW t \in Threads, Call(t)
      PROVE  acked' \subseteq records' /\ \A u \in Threads : OwedOf(u)'
  <2>1. CASE Open(t)
    <3>1. pc[t] = "idle" /\ pc'[t] = "lock" /\ batch'[t] = batch[t]
      BY <2>1 DEF Open, Mates, GoTo, local, TypeOK
    <3>2. OwedOf(t)'
      BY <1>1, <3>1 DEF OwedOf
    <3> QED
      BY <1>6, <2>1, <3>2 DEF Open, GoTo, db, local, history, TypeOK
  <2>2. ASSUME NEW recs \in SUBSET Records, Ingest(t, recs)
        PROVE  acked' \subseteq records' /\ \A u \in Threads : OwedOf(u)'
    <3>1. OwedOf(t)'
      BY <2>2 DEF Ingest, GoTo, OwedOf, TypeOK
    <3> QED
      BY <1>6, <2>2, <3>1 DEF Ingest, GoTo, db, history, TypeOK
  <2> QED
    BY <1>7, <2>1, <2>2 DEF Call
<1>8. ASSUME NEW t \in Threads, Commit(t)
      PROVE  acked' \subseteq records' /\ \A u \in Threads : OwedOf(u)'
  <2>1. OwedOf(t)'
    BY <1>8 DEF Commit, GoTo, OwedOf, local, TypeOK
  <2> QED
    BY <1>6, <1>8, <2>1 DEF Commit, GoTo, local, history, TypeOK
<1>9. ASSUME NEW t \in Threads, Project(t)
      PROVE  acked' \subseteq records' /\ \A u \in Threads : OwedOf(u)'
  <2>1. CASE Lock(t) \/ Clean(t) \/ FileDiffers(t)
    <3>1. /\ pc[t] \in {"lock"} \union UnderLock
          /\ pc'[t] \in {"clean", "read", "snapshot"}
          /\ batch' = batch /\ records' = records
      BY <2>1 DEF Lock, Clean, FileDiffers, GoTo, db, local, TypeOK
    <3>2. OwedOf(t)'
      BY <1>1, <3>1 DEF OwedOf
    <3> QED
      BY <1>6, <2>1, <3>2 DEF Lock, Clean, FileDiffers, GoTo, db, local, history, TypeOK
  <2>2. CASE ReadState(t)
    <3>1. batch[t] \subseteq records
      BY <1>1, <2>2 DEF ReadState, OwedOf
    <3>2. /\ pc'[t] \in {"compare", "snapshot"}
          /\ row'[t].projected = projected
          /\ UNCHANGED <<records, acked, batch>>
      BY <2>2 DEF ReadState, GoTo, db, history, TypeOK
    <3>3. pc'[t] = "compare" => projected.sha = records
      BY <2>2, SameGeneration DEF ReadState, MarkedCurrent, GoTo, TypeOK
    <3>4. OwedOf(t)'
      BY <1>1, <3>1, <3>2, <3>3 DEF OwedOf, Owed
    <3> QED
      BY <1>6, <2>2, <3>4 DEF ReadState, GoTo, db, history, TypeOK
  <2>3. CASE Snapshot(t)
    <3>1. batch[t] \subseteq records
      BY <1>1, <2>3 DEF Snapshot, OwedOf
    <3>2. /\ pc'[t] = "create"
          /\ snap'[t].rows = records
          /\ UNCHANGED <<records, acked, batch>>
      BY <2>3 DEF Snapshot, GoTo, db, history, TypeOK
    <3>3. OwedOf(t)'
      BY <1>1, <3>1, <3>2 DEF OwedOf, Owed
    <3> QED
      BY <1>6, <2>3, <3>3 DEF Snapshot, GoTo, db, history, TypeOK
  <2>4. CASE CreateTemp(t) \/ Rename(t)
    <3>1. /\ pc[t] \in UnderMutex /\ pc'[t] \in UnderMutex
          /\ UNCHANGED <<records, acked, batch, row, snap>>
      BY <2>4 DEF CreateTemp, Rename, GoTo, db, history, TypeOK
    <3>2. OwedOf(t)'
      BY <1>1, <3>1 DEF OwedOf, Owed
    <3> QED
      BY <1>6, <2>4, <3>1, <3>2 DEF CreateTemp, Rename, GoTo, TypeOK
  <2>5. CASE FileMatches(t) \/ RecordState(t)
    BY <1>5, <2>5 DEF FileMatches, RecordState, db
  <2>6. CASE NoTempName(t) \/ RenameRefused(t)
    BY <1>4, <2>6 DEF NoTempName, RenameRefused, db, history
  <2> QED
    BY <1>9, <2>1, <2>2, <2>3, <2>4, <2>5, <2>6 DEF Project
<1>10. ASSUME NEW t \in Threads, Fail(t)
       PROVE  acked' \subseteq records' /\ \A u \in Threads : OwedOf(u)'
  BY <1>4, <1>10 DEF Fail, db
<1>11. ASSUME NEW s \in Stores, Crash(s)
       PROVE  acked' \subseteq records' /\ \A u \in Threads : OwedOf(u)'
  BY <1>4, <1>11 DEF Crash, db
<1>12. CASE Outside \/ UNCHANGED vars
  BY <1>3, <1>12 DEF Outside, Tamper, Pin, Unpin, vars, db, local, history
<1> QED
  BY <1>7, <1>8, <1>9, <1>10, <1>11, <1>12 DEF Next

-----------------------------------------------------------------------------
(* What readers of events.jsonl find *)

LEMMA ShownRows == \A rows \in SUBSET Records : Shown(rows) = rows
BY FileAssumption DEF Shown

\* The parts of FileCovered.
FileShows == acked \subseteq Shown(file) /\ Shown(file) \subseteq records
FileOf(t) ==
  /\ pc[t] \in UnderMutex => Shown(file) \subseteq snap[t].rows
  /\ pc[t] = "record" => file = snap[t].rows

LEMMA FileCoveredParts == FileCovered <=> (~damaged => FileShows /\ \A t \in Threads : FileOf(t))
BY DEF FileCovered, FileShows, FileOf

\* The file changes by a rename only, under the lock, to rows that hold everything owed.
LEMMA FileStep ==
  /\ TypeOK /\ GenerationsCount /\ OneProjector /\ OwedCovered /\ FileCovered
  /\ [Next]_vars
  => FileCovered'
<1> SUFFICES ASSUME TypeOK, GenerationsCount, OneProjector, OwedCovered, FileCovered,
                    [Next]_vars, ~damaged'
             PROVE  FileShows' /\ \A u \in Threads : FileOf(u)'
  BY DEF FileCovered, FileShows, FileOf
<1>1. ~damaged => FileShows /\ \A u \in Threads : FileOf(u)
  BY FileCoveredParts
<1>2. CASE UNCHANGED <<records, acked, damaged, file, pc, snap>>
  BY <1>1, <1>2 DEF FileShows, FileOf
<1>3. ASSUME NEW who, Leave(who), UNCHANGED <<records, acked, damaged, file>>
      PROVE  FileShows' /\ \A u \in Threads : FileOf(u)'
  <2> SUFFICES ASSUME NEW u \in Threads PROVE FileOf(u)'
    BY <1>1, <1>3 DEF FileShows
  <2>1. CASE u \in who
    BY <1>3, <2>1 DEF Leave, FileOf
  <2>2. CASE u \notin who
    BY <1>1, <1>3, <2>2 DEF Leave, FileOf
  <2> QED
    BY <2>1, <2>2
\* A step of t that leaves the file as it is and answers nobody.
<1>4. ASSUME NEW t \in Threads, UNCHANGED <<acked, damaged, file>>, records \subseteq records',
             \A u \in Threads \ {t} : pc'[u] = pc[u] /\ snap'[u] = snap[u],
             ~damaged => FileOf(t)'
      PROVE  FileShows' /\ \A u \in Threads : FileOf(u)'
  BY <1>1, <1>4 DEF FileShows, FileOf
<1>5. ASSUME NEW t \in Threads, pc[t] \in UnderLock, NEW u \in Threads, u # t
      PROVE  pc[u] \notin UnderLock
  BY <1>5 DEF OneProjector
<1>6. ASSUME NEW t \in Threads, pc[t] \in UnderLock, ReturnOk(t), file' = file,
             records' = records, Owed(t) \subseteq Shown(file), Shown(file) \subseteq records
      PROVE  FileShows' /\ \A u \in Threads : FileOf(u)'
  <2>1. acked' = Owed(t) /\ Leave({t})
    BY <1>6 DEF ReturnOk, Owed
  <2>2. FileShows'
    BY <1>6, <2>1 DEF FileShows
  <2>3. ASSUME NEW u \in Threads PROVE FileOf(u)'
    BY <1>5, <1>6, <2>1 DEF Leave, FileOf
  <2> QED
    BY <2>2, <2>3
<1>7. ASSUME NEW t \in Threads, Call(t) \/ Commit(t)
      PROVE  FileShows' /\ \A u \in Threads : FileOf(u)'
  <2>1. FileOf(t)'
    BY <1>7 DEF Call, Open, Ingest, Commit, GoTo, FileOf, TypeOK
  <2> QED
    BY <1>4, <1>7, <2>1
    DEF Call, Open, Ingest, Commit, GoTo, db, fs, local, history, TypeOK
<1>8. ASSUME NEW t \in Threads, Project(t)
      PROVE  FileShows' /\ \A u \in Threads : FileOf(u)'
  <2>1. CASE Lock(t) \/ Clean(t) \/ ReadState(t) \/ FileDiffers(t)
    <3>1. pc'[t] \in {"clean", "read", "compare", "snapshot"}
      BY <2>1 DEF Lock, Clean, ReadState, FileDiffers, GoTo, TypeOK
    <3>2. FileOf(t)'
      BY <3>1 DEF FileOf
    <3> QED
      BY <1>4, <2>1, <3>2
      DEF Lock, Clean, ReadState, FileDiffers, GoTo, db, fs, local, history, TypeOK
  <2>2. CASE Snapshot(t)
    <3>1. pc'[t] = "create" /\ snap'[t].rows = records /\ file' = file
      BY <2>2 DEF Snapshot, GoTo, fs, TypeOK
    <3>2. ~damaged => FileOf(t)'
      BY <1>1, <3>1 DEF FileOf, FileShows
    <3> QED
      BY <1>4, <2>2, <3>2 DEF Snapshot, GoTo, db, fs, history, TypeOK
  <2>3. CASE CreateTemp(t)
    <3>1. /\ pc[t] = "create" /\ pc'[t] = "write"
          /\ UNCHANGED <<records, snap, file, acked, damaged>>
      BY <2>3 DEF CreateTemp, GoTo, db, history, TypeOK
    <3>2. ~damaged => FileOf(t)'
      BY <1>1, <3>1 DEF FileOf
    <3> QED
      BY <1>4, <2>3, <3>1, <3>2 DEF CreateTemp, GoTo, TypeOK
  <2>4. CASE Rename(t)
    <3>1. /\ pc[t] = "write" /\ pc'[t] = "record"
          /\ UNCHANGED <<records, acked, batch, snap>>
          /\ file' = snap[t].rows
          /\ \A u \in Threads \ {t} : pc'[u] = pc[u]
      BY <2>4 DEF Rename, NewContents, GoTo, db, TypeOK
    <3>2. /\ Owed(t) \subseteq snap[t].rows
          /\ snap[t].rows \in SUBSET records
      BY <3>1 DEF OwedCovered, GenerationsCount, Counted
    <3>3. Shown(file') = snap[t].rows
      BY <3>1, <3>2, ShownRows DEF TypeOK
    <3>4. FileShows'
      BY <3>1, <3>2, <3>3 DEF FileShows, Shown, Owed
    <3>5. ASSUME NEW u \in Threads PROVE FileOf(u)'
      <4>1. CASE u = t
        BY <3>1, <3>3, <4>1 DEF FileOf, Shown
      <4>2. CASE u # t
        BY <1>5, <3>1, <4>2 DEF FileOf
      <4> QED
        BY <4>1, <4>2
    <3> QED
      BY <3>4, <3>5
  <2>5. CASE FileMatches(t)
    <3>1. /\ Owed(t) \subseteq row[t].projected.sha
          /\ row[t].projected.sha \in SUBSET records
          /\ file = row[t].projected.sha
      BY <2>5 DEF FileMatches, FileIsProjected, OwedCovered
    <3>2. Shown(file) = file
      BY <3>1, ShownRows DEF TypeOK
    <3> QED
      BY <1>6, <2>5, <3>1, <3>2 DEF FileMatches, db, fs
  <2>6. CASE RecordState(t)
    <3>1. /\ pc[t] = "record" /\ damaged' = damaged /\ ReturnOk(t)
          /\ file' = file /\ records' = records
      BY <2>6 DEF RecordState, fs
    <3>2. /\ Owed(t) \subseteq snap[t].rows
          /\ snap[t].rows \in SUBSET records
      BY <3>1 DEF OwedCovered, GenerationsCount, Counted
    <3>3. file = snap[t].rows
      BY <1>1, <3>1 DEF FileOf
    <3>4. Shown(file) = snap[t].rows
      BY <3>2, <3>3, ShownRows DEF TypeOK
    <3> QED
      BY <1>6, <3>1, <3>2, <3>4
  <2>7. CASE NoTempName(t) \/ RenameRefused(t)
    BY <1>3, <2>7 DEF NoTempName, RenameRefused, db, fs, history
  <2> QED
    BY <1>8, <2>1, <2>2, <2>3, <2>4, <2>5, <2>6, <2>7 DEF Project
<1>9. ASSUME NEW t \in Threads, Fail(t) PROVE FileShows' /\ \A u \in Threads : FileOf(u)'
  BY <1>3, <1>9 DEF Fail, db
<1>10. ASSUME NEW s \in Stores, Crash(s) PROVE FileShows' /\ \A u \in Threads : FileOf(u)'
  BY <1>3, <1>10 DEF Crash, db, fs
<1>11. CASE Outside \/ UNCHANGED vars
  BY <1>2, <1>11 DEF Outside, Tamper, Pin, Unpin, vars, db, fs, local, history
<1> QED
  BY <1>7, <1>8, <1>9, <1>10, <1>11 DEF Next

-----------------------------------------------------------------------------
(* Temporaries *)

\* The parts of TempsAccounted.
TempOf(t) ==
  /\ tmp[t] # None => pc[t] = "write" /\ tmp[t] \in temps
  /\ pc[t] \in {"read", "compare", "snapshot", "create"} => temps \subseteq Pinnable
AtMostOne == \A m, n \in temps \ Pinnable : m = n

LEMMA TempsParts == TempsAccounted <=> AtMostOne /\ \A t \in Threads : TempOf(t)
BY DEF TempsAccounted, TempOf, AtMostOne

\* Only the thread that holds the lock removes or makes temporaries, and it has removed
\* all that can be removed before it makes its own.
LEMMA TempsStep == TypeOK /\ OneProjector /\ TempsAccounted /\ [Next]_vars => TempsAccounted'
<1> SUFFICES ASSUME TypeOK, OneProjector, TempsAccounted, [Next]_vars
             PROVE  AtMostOne' /\ \A u \in Threads : TempOf(u)'
  BY DEF TempsAccounted, AtMostOne, TempOf
<1> USE NoneAssumption
<1>1. AtMostOne /\ \A u \in Threads : TempOf(u)
  BY TempsParts
<1>2. CASE UNCHANGED <<temps, pc, tmp>>
  BY <1>1, <1>2 DEF AtMostOne, TempOf
<1>3. ASSUME NEW who, Leave(who), temps' = temps
      PROVE  AtMostOne' /\ \A u \in Threads : TempOf(u)'
  <2> SUFFICES ASSUME NEW u \in Threads PROVE TempOf(u)'
    BY <1>1, <1>3 DEF AtMostOne
  <2>1. CASE u \in who
    BY <1>3, <2>1 DEF Leave, TempOf
  <2>2. CASE u \notin who
    BY <1>1, <1>3, <2>2 DEF Leave, TempOf
  <2> QED
    BY <2>1, <2>2
\* A step of t that changes neither the temporaries nor whose they are.
<1>4. ASSUME NEW t \in Threads, UNCHANGED <<temps, tmp>>,
             \A u \in Threads \ {t} : pc'[u] = pc[u], TempOf(t)'
      PROVE  AtMostOne' /\ \A u \in Threads : TempOf(u)'
  BY <1>1, <1>4 DEF AtMostOne, TempOf
<1>5. ASSUME NEW t \in Threads, pc[t] \in UnderLock, NEW u \in Threads, u # t
      PROVE  pc[u] \notin UnderLock /\ tmp[u] = None
  BY <1>1, <1>5 DEF OneProjector, TempOf
<1>6. ASSUME NEW t \in Threads, Call(t) \/ Commit(t)
      PROVE  AtMostOne' /\ \A u \in Threads : TempOf(u)'
  <2>1. pc[t] \in {"idle", "commit"} /\ pc'[t] \in {"commit", "lock"}
    BY <1>6 DEF Call, Open, Ingest, Commit, Mates, GoTo, TypeOK
  <2>2. UNCHANGED <<temps, tmp>>
    BY <1>6 DEF Call, Open, Ingest, Commit, fs, local
  <2>3. TempOf(t)'
    BY <1>1, <2>1, <2>2 DEF TempOf
  <2> QED
    BY <1>4, <1>6, <2>2, <2>3 DEF Call, Open, Ingest, Commit, GoTo, TypeOK
<1>7. ASSUME NEW t \in Threads, Project(t)
      PROVE  AtMostOne' /\ \A u \in Threads : TempOf(u)'
  <2>1. CASE Lock(t) \/ ReadState(t) \/ FileDiffers(t) \/ Snapshot(t)
    <3>1. /\ pc[t] \in {"lock", "read", "compare", "snapshot"}
          /\ pc'[t] \in {"clean", "compare", "snapshot", "create"}
          /\ pc'[t] # "clean" => pc[t] \in {"read", "compare", "snapshot"}
          /\ UNCHANGED <<temps, tmp>>
      BY <2>1 DEF Lock, ReadState, FileDiffers, Snapshot, GoTo, fs, local, TypeOK
    <3>2. TempOf(t)'
      BY <1>1, <3>1 DEF TempOf
    <3> QED
      BY <1>4, <2>1, <3>1, <3>2 DEF Lock, ReadState, FileDiffers, Snapshot, GoTo, TypeOK
  <2>2. CASE Clean(t)
    <3>1. /\ pc[t] = "clean" /\ pc' = [pc EXCEPT ![t] = "read"] /\ tmp' = tmp
          /\ temps' = temps \intersect held
      BY <2>2 DEF Clean, Orphans, GoTo, local
    <3>2. temps' \subseteq Pinnable
      BY <3>1 DEF TypeOK
    <3>3. ASSUME NEW u \in Threads PROVE TempOf(u)'
      <4>1. tmp[u] = None
        BY <1>1, <1>5, <3>1 DEF TempOf
      <4> QED
        BY <3>1, <3>2, <4>1 DEF TempOf
    <3> QED
      BY <3>2, <3>3 DEF AtMostOne
  <2>3. CASE CreateTemp(t)
    <3>1. PICK n \in TempNames \ temps : /\ temps' = temps \union {n}
                                        /\ tmp' = [tmp EXCEPT ![t] = n]
      BY <2>3 DEF CreateTemp
    <3>2. pc[t] = "create" /\ pc' = [pc EXCEPT ![t] = "write"] /\ temps \subseteq Pinnable
      BY <1>1, <2>3 DEF CreateTemp, GoTo, TempOf
    <3>3. AtMostOne'
      BY <3>1, <3>2 DEF AtMostOne
    <3>4. ASSUME NEW u \in Threads PROVE TempOf(u)'
      <4>1. CASE u = t
        BY <3>1, <3>2, <4>1 DEF TempOf, TypeOK
      <4>2. CASE u # t
        BY <1>5, <3>1, <3>2, <4>2 DEF TempOf, TypeOK
      <4> QED
        BY <4>1, <4>2
    <3> QED
      BY <3>3, <3>4
  <2>4. CASE Rename(t)
    <3>1. /\ pc[t] = "write" /\ pc' = [pc EXCEPT ![t] = "record"]
          /\ temps' = temps \ {tmp[t]} /\ tmp' = [tmp EXCEPT ![t] = None]
      BY <2>4 DEF Rename, GoTo
    <3>2. ASSUME NEW u \in Threads PROVE TempOf(u)'
      <4>1. CASE u = t
        BY <3>1, <4>1 DEF TempOf, TypeOK
      <4>2. CASE u # t
        BY <1>5, <3>1, <4>2 DEF TempOf, TypeOK
      <4> QED
        BY <4>1, <4>2
    <3> QED
      BY <1>1, <3>1, <3>2 DEF AtMostOne
  <2>5. CASE FileMatches(t) \/ RecordState(t) \/ NoTempName(t) \/ RenameRefused(t)
    BY <1>3, <2>5 DEF FileMatches, RecordState, NoTempName, RenameRefused, ReturnOk, fs
  <2> QED
    BY <1>7, <2>1, <2>2, <2>3, <2>4, <2>5 DEF Project
<1>8. ASSUME NEW t \in Threads, Fail(t) PROVE AtMostOne' /\ \A u \in Threads : TempOf(u)'
  <2>1. Leave({t}) /\ temps' \subseteq temps /\ temps \ {tmp[t]} \subseteq temps'
    BY <1>8 DEF Fail
  <2>2. ASSUME NEW u \in Threads, u # t, tmp[u] # None PROVE tmp[u] \in temps'
    <3>1. pc[u] = "write" /\ tmp[u] \in temps
      BY <1>1, <2>2 DEF TempOf
    <3>2. tmp[t] = None
      BY <1>5, <2>2, <3>1
    <3> QED
      BY <2>1, <2>2, <3>1, <3>2
  <2>3. ASSUME NEW u \in Threads PROVE TempOf(u)'
    <3>1. CASE u = t
      BY <2>1, <3>1 DEF Leave, TempOf
    <3>2. CASE u # t
      BY <1>1, <2>1, <2>2, <3>2 DEF Leave, TempOf
    <3> QED
      BY <3>1, <3>2
  <2> QED
    BY <1>1, <2>1, <2>3 DEF AtMostOne
<1>9. ASSUME NEW s \in Stores, Crash(s) PROVE AtMostOne' /\ \A u \in Threads : TempOf(u)'
  BY <1>3, <1>9 DEF Crash, fs
<1>10. CASE Outside \/ UNCHANGED vars
  BY <1>2, <1>10 DEF Outside, Tamper, Pin, Unpin, vars, fs, local
<1> QED
  BY <1>6, <1>7, <1>8, <1>9, <1>10 DEF Next

-----------------------------------------------------------------------------
(* The theorems *)

LEMMA InductiveInit == Init => TypeOK /\ IInv
<1> SUFFICES ASSUME Init PROVE TypeOK /\ IInv
  OBVIOUS
<1>1. TypeOK
  BY RecordsAssumption, StoreOfAssumption, PinnableAssumption, MaxFaultsAssumption,
     FS_Subset, FS_CardinalityType
  DEF Init, TypeOK, NoRow, NoSnap, Rows, Snapshots, Projections, Contents
<1>2. GenerationsCount
  BY NoSnapCounted DEF Init, GenerationsCount, NoRow
<1>3. OneProjector
  BY NoneAssumption DEF Init, OneProjector
<1>4. OwedCovered /\ FileCovered
  BY DEF Init, OwedCovered, FileCovered, Shown
<1>5. TempsAccounted
  BY DEF Init, TempsAccounted
<1> QED
  BY <1>1, <1>2, <1>3, <1>4, <1>5 DEF IInv

\* The strengthened invariant: generations count rows, one thread projects, it never
\* publishes less than is owed, and it owns the only fresh temporary.
THEOREM Inductive == Spec => [](TypeOK /\ IInv)
<1>1. TypeOK /\ IInv /\ [Next]_vars => (TypeOK /\ IInv)'
  BY TypeStep, GenerationsStep, OneProjectorStep, OwedStep, FileStep, TempsStep DEF IInv
<1> QED
  BY <1>1, InductiveInit, PTL DEF Spec

\* A file that looks current to projection_is_current holds every committed record.
THEOREM CurrentIsComplete == Spec => []CurrentMeansComplete
<1>1. TypeOK /\ IInv => CurrentMeansComplete
  BY SameGeneration DEF IInv, CurrentMeansComplete
<1> QED
  BY <1>1, Inductive, PTL

\* Every record of a call that returned Ok is in events.jsonl.
THEOREM AckedIsProjected == Spec => []AckedProjected
<1>1. TypeOK /\ IInv => AckedProjected
  BY DEF IInv, FileCovered, AckedProjected
<1> QED
  BY <1>1, Inductive, PTL

\* No thread's temporary is removed or shared while the thread writes it.
THEOREM LiveTempIsSafe == Spec => []LiveTempSafe
<1>1. TypeOK /\ IInv => LiveTempSafe
  <2> SUFFICES ASSUME OneProjector, TempsAccounted, NEW t \in Threads, tmp[t] # None
               PROVE  tmp[t] \in temps /\ \A u \in Threads \ {t} : tmp[u] # tmp[t]
    BY DEF IInv, LiveTempSafe
  <2>1. pc[t] = "write" /\ tmp[t] \in temps /\ lock = t
    BY DEF OneProjector, TempsAccounted
  <2>2. ASSUME NEW u \in Threads, u # t PROVE tmp[u] = None
    BY <2>1, <2>2 DEF OneProjector, TempsAccounted
  <2> QED
    BY <2>1, <2>2
<1> QED
  BY <1>1, Inductive, PTL

\* At most one temporary outlives its writers, however many fail or die.
THEOREM OrphansAreBounded == Spec => []OrphansBounded
<1>1. TypeOK /\ IInv => OrphansBounded
  <2> SUFFICES ASSUME TempsAccounted PROVE Cardinality(temps \ Pinnable) <= 1
    BY DEF IInv, OrphansBounded
  <2>1. CASE temps \ Pinnable = {}
    BY <2>1, FS_EmptySet
  <2>2. CASE temps \ Pinnable # {}
    <3>1. PICK n : n \in temps \ Pinnable
      BY <2>2
    <3>2. temps \ Pinnable = {n}
      BY <3>1 DEF TempsAccounted
    <3> QED
      BY <3>2, FS_Singleton
  <2> QED
    BY <2>1, <2>2
<1> QED
  BY <1>1, Inductive, PTL

\* The state of the vault, of every thread and of every lock keeps its shape.
THEOREM TypeCorrect == Spec => []TypeOK
BY Inductive, PTL

-----------------------------------------------------------------------------
(* Projection implements EventLog *)

\* What a rename publishes: committed rows, all that is owed and all that was shown.
LEMMA RenamePublishes ==
  ASSUME TypeOK, IInv, NEW t \in Threads, Rename(t)
  PROVE  /\ file' = snap[t].rows /\ Shown(file') = snap[t].rows
         /\ snap[t].rows \in SUBSET Records /\ snap[t].rows \subseteq records
         /\ acked \subseteq snap[t].rows
         /\ ~damaged => Shown(file) \subseteq snap[t].rows
<1>1. pc[t] = "write" /\ file' = snap[t].rows
  BY DEF Rename, NewContents
<1>2. snap[t].rows \in SUBSET records /\ Owed(t) \subseteq snap[t].rows
  BY <1>1 DEF IInv, GenerationsCount, Counted, OwedCovered
<1>3. snap[t].rows \in SUBSET Records
  BY <1>2 DEF TypeOK
<1>4. ~damaged => Shown(file) \subseteq snap[t].rows
  BY <1>1 DEF IInv, FileCovered
<1>5. Shown(snap[t].rows) = snap[t].rows
  BY <1>3, ShownRows
<1> QED
  BY <1>1, <1>2, <1>3, <1>4, <1>5 DEF Owed, Shown

LEMMA FileChanges ==
  ASSUME [Next]_vars, ~Tamper, \A t \in Threads : ~Rename(t)
  PROVE  file' = file
<1>1. ASSUME NEW t \in Threads, Call(t) \/ Commit(t) \/ Fail(t) PROVE file' = file
  BY <1>1 DEF Call, Open, Ingest, Commit, Fail, fs
<1>2. ASSUME NEW t \in Threads, Project(t) PROVE file' = file
  BY <1>2
  DEF Project, Lock, Clean, ReadState, FileMatches, FileDiffers, Snapshot, CreateTemp,
      NoTempName, RenameRefused, RecordState, fs
<1>3. ASSUME NEW s \in Stores, Crash(s) PROVE file' = file
  BY <1>3 DEF Crash, fs
<1>4. ASSUME NEW n \in Pinnable, Pin(n) \/ Unpin(n) PROVE file' = file
  BY <1>4 DEF Pin, Unpin
<1>5. ASSUME UNCHANGED vars PROVE file' = file
  BY <1>5 DEF vars, db, fs, locks, local, history
<1> QED
  BY <1>1, <1>2, <1>3, <1>4, <1>5 DEF Next, Outside

\* What a reader has seen in events.jsonl stays there while only the vault writes it.
THEOREM ReadersNeverRegress == Spec => NeverRegresses
<1>1. TypeOK /\ IInv /\ [Next]_vars
      => [~damaged /\ ~damaged' => Shown(file) \subseteq Shown(file')]_vars
  <2> SUFFICES ASSUME TypeOK, IInv, [Next]_vars, ~damaged, ~damaged'
               PROVE  Shown(file) \subseteq Shown(file')
    OBVIOUS
  <2>1. CASE file' = file
    BY <2>1 DEF Shown
  <2>2. CASE \E t \in Threads : Rename(t)
    BY <2>2, RenamePublishes
  <2>3. ~Tamper
    BY DEF Tamper
  <2> QED
    BY <2>1, <2>2, <2>3, FileChanges
<1> QED
  BY <1>1, Inductive, PTL DEF Spec, NeverRegresses

LEMMA SameShown == \A contents : Log!Shown(contents) = Shown(contents)
BY DEF Log!Shown, Shown

\* A step of the vault is a step of the log or leaves the log alone.
LEMMA StepImplements == TypeOK /\ IInv /\ [Next]_vars => [Log!Next]_Log!logVars
<1> SUFFICES ASSUME TypeOK, IInv, [Next]_vars
             PROVE  Log!Next \/ UNCHANGED <<records, file, acked, damaged>>
  BY DEF Log!logVars
<1> USE DEF Log!Next
<1>1. ASSUME NEW t \in Threads, Call(t) PROVE UNCHANGED <<records, file, acked, damaged>>
  BY <1>1 DEF Call, Open, Ingest, db, fs, history
<1>2. ASSUME NEW t \in Threads, Commit(t) PROVE Log!Next
  <2>1. batch[t] \in SUBSET Records /\ Log!Append(batch[t])
    BY <1>2 DEF Commit, fs, history, Log!Append, TypeOK
  <2> QED
    BY <2>1
<1>3. ASSUME NEW t \in Threads, Project(t)
      PROVE  Log!Next \/ UNCHANGED <<records, file, acked, damaged>>
  <2>1. CASE Rename(t)
    <3>1. Log!Publish(snap[t].rows)
      BY <2>1, RenamePublishes, SameShown DEF Rename, db, Log!Publish
    <3> QED
      BY <2>1, <3>1, RenamePublishes
  <2>2. CASE RecordState(t)
    <3>1. /\ pc[t] = "record" /\ UNCHANGED <<records, file, damaged>>
          /\ acked' = acked \union batch[t]
      BY <2>2 DEF RecordState, ReturnOk, fs
    <3>2. batch[t] \subseteq records /\ batch[t] \subseteq snap[t].rows
      BY <3>1 DEF IInv, OwedCovered, Owed
    <3>3. snap[t].rows \in SUBSET Records
      BY DEF IInv, GenerationsCount, Counted, TypeOK
    <3>4. ~damaged => batch[t] \subseteq Shown(file)
      BY <3>1, <3>2, <3>3, ShownRows DEF IInv, FileCovered
    <3>5. Log!Acknowledge(batch[t])
      BY <3>1, <3>2, <3>4, SameShown DEF Log!Acknowledge
    <3> QED
      BY <3>5 DEF TypeOK
  <2>3. CASE FileMatches(t)
    <3>1. /\ pc[t] = "compare" /\ file = row[t].projected.sha /\ damaged' = FALSE
          /\ UNCHANGED <<records, file>> /\ acked' = acked \union batch[t]
      BY <2>3 DEF FileMatches, FileIsProjected, ReturnOk, db, fs
    <3>2. file \in SUBSET records /\ acked \union batch[t] \subseteq file
      BY <3>1 DEF IInv, OwedCovered, Owed
    <3>3. Shown(file) = file
      BY <3>2, ShownRows DEF TypeOK
    <3>4. Log!AcknowledgeChecked(batch[t])
      BY <3>1, <3>2, <3>3, SameShown DEF Log!AcknowledgeChecked
    <3> QED
      BY <3>4 DEF TypeOK
  <2>4. CASE ~Rename(t) /\ ~RecordState(t) /\ ~FileMatches(t)
    BY <1>3, <2>4
    DEF Project, Lock, Clean, ReadState, FileDiffers, Snapshot, CreateTemp, NoTempName,
        RenameRefused, db, fs, history
  <2> QED
    BY <2>1, <2>2, <2>3, <2>4
<1>4. ASSUME NEW t \in Threads, Fail(t) PROVE UNCHANGED <<records, file, acked, damaged>>
  BY <1>4 DEF Fail, db
<1>5. ASSUME NEW s \in Stores, Crash(s) PROVE UNCHANGED <<records, file, acked, damaged>>
  BY <1>5 DEF Crash, db, fs
<1>6. CASE Outside
  <2>1. CASE Tamper
    <3>1. file' \in Log!Contents
      BY <2>1 DEF Tamper, TypeOK, Log!Contents
    <3>2. Log!Damage
      BY <2>1, <3>1 DEF Tamper, db, Log!Damage
    <3> QED
      BY <3>2
  <2>2. CASE ~Tamper
    BY <1>6, <2>2 DEF Outside, Pin, Unpin, db, history
  <2> QED
    BY <2>1, <2>2
<1>7. CASE UNCHANGED vars
  BY <1>7 DEF vars, db, fs, history
<1> QED
  BY <1>1, <1>2, <1>3, <1>4, <1>5, <1>6, <1>7 DEF Next

\* The protocol of locks, temporaries and generations implements the log it promises.
THEOREM ProjectionImplementsEventLog == Spec => ImplementsEventLog
<1>1. Init => Log!Init
  BY InductiveInit DEF Init, TypeOK, Contents, Log!Init, Log!Contents
<1> QED
  BY <1>1, StepImplements, Inductive, PTL DEF Spec, ImplementsEventLog, Log!Spec
=============================================================================
