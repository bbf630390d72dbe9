-------------------------- MODULE StoreOpenProofs --------------------------
(***************************************************************************)
(* Proofs about StoreOpen, for any number of openers and of old rows.      *)
(***************************************************************************)
EXTENDS StoreOpen, TLAPS

LEMMA BatchFacts ==
  /\ Len(Batch) = 8 /\ DOMAIN Batch = 1..8
  /\ \A i \in 1..8 : Batch[i] \in Statements
  /\ \A s \in Statements : \E i \in 1..8 : s = Batch[i]
  /\ Batch[8] = "user_version"
  /\ \A i \in 1..7 : Batch[i] # "user_version"
  /\ "user_version" \in Statements /\ "seed" \in Statements
  /\ "records_ai" \in Statements /\ "projection_records_ai" \in Statements
  /\ Old \subseteq Statements /\ "user_version" \notin Old /\ "seed" \notin Old
<1>1. Len(Batch) = 8 /\ DOMAIN Batch = 1..8
  BY DEF Batch
<1>2. \A i \in 1..8 : Batch[i] \in Statements
  BY <1>1 DEF Statements
<1>3. \A s \in Statements : \E i \in 1..8 : s = Batch[i]
  BY <1>1 DEF Statements
<1>4. /\ Batch[1] = "records" /\ Batch[2] = "snapshots" /\ Batch[3] = "records_fts"
      /\ Batch[4] = "records_ai" /\ Batch[5] = "projection_state" /\ Batch[6] = "seed"
      /\ Batch[7] = "projection_records_ai" /\ Batch[8] = "user_version"
  BY DEF Batch
<1>5. \A i \in 1..7 : i = 1 \/ i = 2 \/ i = 3 \/ i = 4 \/ i = 5 \/ i = 6 \/ i = 7
  OBVIOUS
<1>6. \A i \in 1..7 : Batch[i] # "user_version"
  BY <1>4, <1>5
<1>7. /\ "records" \in Statements /\ "snapshots" \in Statements /\ "records_fts" \in Statements
      /\ "records_ai" \in Statements /\ "seed" \in Statements
      /\ "projection_records_ai" \in Statements /\ "user_version" \in Statements
  BY <1>2, <1>4
<1> QED
  BY <1>1, <1>2, <1>3, <1>4, <1>6, <1>7 DEF Old

-----------------------------------------------------------------------------
(* Every step keeps the invariant *)

\* Giving up whatever lock one has, to be closed or, with the version written, to be open.
LEMMA Leaving ==
  ASSUME IInv, NEW o \in Openers, NEW where \in {"open", "closed"},
         shared' = shared \ {o}, exclusive' = exclusive \ {o}, GoTo(o, where),
         next' = next, db' = db, opens' \in Nat,
         where = "open" => Initialized /\ o \in shared \union exclusive
  PROVE  IInv'
<1>1. /\ \A p \in Openers : p # o => pc'[p] = pc[p]
      /\ pc'[o] = where
      /\ schema' = schema /\ rows' = rows /\ indexed' = indexed /\ generation' = generation
  BY DEF GoTo, db, IInv, TypeOK
<1>2. TypeOK'
  BY <1>1 DEF IInv, TypeOK, GoTo, Places
<1>3. LockHeld'
  BY <1>1 DEF IInv, LockHeld
<1>4. ASSUME NEW p \in Openers, pc'[p] = "executing", NEW q \in Openers PROVE pc'[q] # "open"
  <2>1. p # o /\ pc[p] = "executing" /\ p \in exclusive
    BY <1>1, <1>4 DEF IInv, LockHeld
  <2>2. o \notin shared \union exclusive
    BY <2>1 DEF IInv, LockHeld
  <2>3. pc[q] # "open"
    BY <2>1 DEF IInv, SchemaInOrder
  <2> QED
    BY <1>1, <2>2, <2>3
<1>5. SchemaInOrder'
  BY <1>1, <1>4 DEF IInv, SchemaInOrder, Initialized
<1>6. Counted'
  BY <1>1 DEF IInv, Counted
<1> QED
  BY <1>2, <1>3, <1>5, <1>6 DEF IInv

LEMMA OpenInductive == IInv /\ [Next]_vars => IInv'
<1> SUFFICES ASSUME IInv, [Next]_vars PROVE IInv'
  OBVIOUS
<1> USE DEF IInv
<1>1. ASSUME NEW o \in Openers, Call(o) PROVE IInv'
  <2>1. TypeOK'
    BY <1>1 DEF Call, TypeOK, GoTo, Places, locks, db
  <2>2. LockHeld'
    BY <1>1 DEF Call, TypeOK, LockHeld, GoTo, locks
  <2>3. SchemaInOrder'
    BY <1>1 DEF Call, TypeOK, SchemaInOrder, Initialized, GoTo, db
  <2>4. Counted'
    BY <1>1 DEF Call, Counted, db
  <2> QED
    BY <2>1, <2>2, <2>3, <2>4
<1>2. ASSUME NEW o \in Openers, LockShared(o) PROVE IInv'
  <2>1. TypeOK'
    BY <1>2 DEF LockShared, TypeOK, GoTo, Places, db
  <2>2. LockHeld'
    BY <1>2 DEF LockShared, TypeOK, LockHeld, GoTo
  <2>3. SchemaInOrder'
    BY <1>2 DEF LockShared, TypeOK, SchemaInOrder, Initialized, GoTo, db
  <2>4. Counted'
    BY <1>2 DEF LockShared, Counted, db
  <2> QED
    BY <2>1, <2>2, <2>3, <2>4
<1>3. ASSUME NEW o \in Openers, ReadVersion(o) PROVE IInv'
  <2>1. CASE Initialized
    <3>1. o \in shared
      BY <1>3 DEF ReadVersion, LockHeld
    <3> QED
      BY <1>3, <2>1, <3>1, Leaving DEF ReadVersion, Opened, TypeOK
  <2>2. CASE ~Initialized
    <3>1. /\ shared' = shared \ {o} /\ exclusive' = exclusive /\ GoTo(o, "upgrading")
          /\ UNCHANGED <<next, db, opens>> /\ pc[o] = "reading"
      BY <1>3, <2>2 DEF ReadVersion, LettingGo
    <3>2. TypeOK'
      BY <3>1 DEF TypeOK, GoTo, Places, db
    <3>3. LockHeld'
      BY <3>1 DEF TypeOK, LockHeld, GoTo
    <3>4. SchemaInOrder'
      BY <3>1 DEF TypeOK, SchemaInOrder, Initialized, GoTo, db
    <3>5. Counted'
      BY <3>1 DEF Counted, db
    <3> QED
      BY <3>2, <3>3, <3>4, <3>5
  <2> QED
    BY <2>1, <2>2
<1>4. ASSUME NEW o \in Openers, LockExclusive(o) PROVE IInv'
  <2>1. TypeOK'
    BY <1>4 DEF LockExclusive, TypeOK, GoTo, Places, db
  <2>2. LockHeld'
    BY <1>4 DEF LockExclusive, TypeOK, LockHeld, GoTo
  <2>3. SchemaInOrder'
    BY <1>4 DEF LockExclusive, TypeOK, SchemaInOrder, Initialized, GoTo, db
  <2>4. Counted'
    BY <1>4 DEF LockExclusive, Counted, db
  <2> QED
    BY <2>1, <2>2, <2>3, <2>4
<1>5. ASSUME NEW o \in Openers, Recheck(o) PROVE IInv'
  <2>1. CASE Initialized
    <3>1. o \in exclusive
      BY <1>5 DEF Recheck, LockHeld
    <3> QED
      BY <1>5, <2>1, <3>1, Leaving DEF Recheck, AlreadyDone, Opened, TypeOK
  <2>2. CASE ~Initialized
    <3>1. /\ next' = [next EXCEPT ![o] = 1] /\ GoTo(o, "executing")
          /\ UNCHANGED <<shared, exclusive>> /\ UNCHANGED <<db, opens>> /\ pc[o] = "rechecking"
      BY <1>5, <2>2 DEF Recheck, AlreadyDone, locks
    <3>2. TypeOK'
      BY <3>1, BatchFacts DEF TypeOK, GoTo, Places, db
    <3>3. LockHeld'
      BY <3>1 DEF TypeOK, LockHeld, GoTo
    <3>4. SchemaInOrder'
      <4>1. \A p \in Openers : pc'[p] # "open"
        BY <2>2, <3>1 DEF TypeOK, SchemaInOrder, GoTo
      <4>2. ASSUME NEW p \in Openers, pc'[p] = "executing"
            PROVE  \A i \in 1 .. next'[p] - 1 : Batch[i] \in schema'
        <5>1. CASE p = o
          BY <3>1, <5>1 DEF TypeOK
        <5>2. CASE p # o
          <6>1. pc[p] = "executing" /\ next'[p] = next[p] /\ schema' = schema
            BY <3>1, <4>2, <5>2 DEF TypeOK, GoTo, db
          <6> QED
            BY <6>1 DEF SchemaInOrder
        <5> QED
          BY <5>1, <5>2
      <4>3. Initialized' => schema' = Statements
        BY <3>1 DEF SchemaInOrder, Initialized, db
      <4> QED
        BY <4>1, <4>2, <4>3 DEF SchemaInOrder
    <3>5. Counted'
      BY <3>1 DEF Counted, db
    <3> QED
      BY <3>2, <3>3, <3>4, <3>5
  <2> QED
    BY <2>1, <2>2
<1>6. ASSUME NEW o \in Openers, Execute(o) PROVE IInv'
  <2> DEFINE n == next[o]
             statement == Batch[n]
  <2>1. /\ pc[o] = "executing" /\ n \in 1..8 /\ statement \in Statements
        /\ schema' = schema \union {statement}
        /\ generation' = IF statement = "seed" /\ statement \notin schema THEN rows ELSE generation
        /\ next' = [next EXCEPT ![o] = n + 1]
        /\ UNCHANGED <<pc, shared, exclusive, rows, indexed, opens>>
    BY <1>6, BatchFacts DEF Execute, Seed, TypeOK, locks
  <2>2. TypeOK'
    <3>1. next' \in [Openers -> 1 .. Len(Batch) + 1]
      BY <2>1, BatchFacts DEF TypeOK
    <3> QED
      BY <2>1, <3>1 DEF TypeOK
  <2>3. LockHeld'
    BY <2>1 DEF LockHeld
  <2>4. SchemaInOrder'
    <3>1. \A p \in Openers : p # o => pc[p] # "executing"
      BY <2>1 DEF LockHeld
    <3>2. \A p \in Openers : pc[p] # "open"
      BY <2>1 DEF SchemaInOrder
    <3>3. \A i \in 1 .. n - 1 : Batch[i] \in schema
      BY <2>1 DEF SchemaInOrder
    <3>4. \A i \in 1 .. next'[o] - 1 : Batch[i] \in schema'
      <4>1. next'[o] = n + 1
        BY <2>1 DEF TypeOK
      <4> HIDE DEF n
      <4>2. \A i \in 1 .. n : i \in 1 .. n - 1 \/ i = n
        BY <2>1
      <4> QED
        BY <2>1, <3>3, <4>1, <4>2
    <3>5. ASSUME Initialized' PROVE schema' = Statements
      <4>1. CASE Initialized
        BY <2>1, <4>1 DEF SchemaInOrder
      <4>2. CASE ~Initialized
        <5>1. statement = "user_version"
          BY <2>1, <3>5, <4>2 DEF Initialized
        <5>2. n = 8
          BY <2>1, <5>1, BatchFacts
        <5>3. \A i \in 1..8 : Batch[i] \in schema'
          <6>1. \A i \in 1..8 : i \in 1..7 \/ i = 8
            OBVIOUS
          <6> QED
            BY <2>1, <3>3, <5>2, <6>1
        <5>4. schema' \subseteq Statements
          BY <2>1 DEF TypeOK
        <5> QED
          BY <5>3, <5>4, BatchFacts
      <4> QED
        BY <4>1, <4>2
    <3> QED
      BY <2>1, <3>1, <3>2, <3>4, <3>5 DEF SchemaInOrder
  <2>5. Counted'
    BY <2>1 DEF Counted
  <2> QED
    BY <2>2, <2>3, <2>4, <2>5
<1>7. ASSUME NEW o \in Openers, Synced(o) PROVE IInv'
  <2>1. next[o] = 9 /\ pc[o] = "executing" /\ o \in exclusive
    BY <1>7, BatchFacts DEF Synced, TypeOK, LockHeld
  <2>2. Initialized
    <3>1. 8 \in 1 .. next[o] - 1
      BY <2>1
    <3> QED
      BY <2>1, <3>1, BatchFacts DEF SchemaInOrder, Initialized
  <2> QED
    BY <1>7, <2>1, <2>2, Leaving DEF Synced, Opened, TypeOK
<1>8. ASSUME NEW o \in Openers, Stop(o) PROVE IInv'
  BY <1>8, Leaving DEF Stop, TypeOK
<1>9. ASSUME NEW o \in Openers, Insert(o) PROVE IInv'
  <2>1. /\ pc[o] = "open" /\ schema = Statements
        /\ UNCHANGED <<pc, next, shared, exclusive, schema, opens>>
    BY <1>9 DEF Insert, SchemaInOrder, locks
  <2>2. rows' = rows + 1 /\ indexed' = indexed + 1 /\ generation' = generation + 1
    BY <1>9, <2>1, BatchFacts DEF Insert
  <2>3. TypeOK'
    BY <2>1, <2>2 DEF TypeOK
  <2>4. LockHeld' /\ SchemaInOrder'
    BY <2>1 DEF LockHeld, SchemaInOrder, Initialized
  <2>5. Counted'
    BY <2>1, <2>2, BatchFacts DEF Counted
  <2> QED
    BY <2>3, <2>4, <2>5
<1>10. CASE UNCHANGED vars
  BY <1>10 DEF vars, locks, db, TypeOK, LockHeld, SchemaInOrder, Initialized, Counted
<1> QED
  BY <1>1, <1>2, <1>3, <1>4, <1>5, <1>6, <1>7, <1>8, <1>9, <1>10 DEF Next, Open

\* Locks, schema and counts hold together in every state of any number of openers.
THEOREM Inductive == Spec => []IInv
<1>1. Init => IInv
  <2> SUFFICES ASSUME Init PROVE IInv
    OBVIOUS
  <2>1. TypeOK
    <3>1. rows \in Nat /\ indexed \in Nat /\ generation \in Nat /\ opens \in Nat
      <4>1. rows = 0 \/ rows \in OldRows
        BY DEF Init
      <4>2. indexed = rows /\ generation = 0 /\ opens = 0
        BY DEF Init
      <4>3. \A n \in OldRows : n \in Nat
        BY OldRowsAssumption
      <4>4. rows \in Nat
        BY <4>1, <4>3
      <4> QED
        BY <4>2, <4>4
    <3>2. schema \subseteq Statements
      BY BatchFacts DEF Init
    <3>3. pc \in [Openers -> Places] /\ shared \subseteq Openers /\ exclusive \subseteq Openers
      BY DEF Init, Places
    <3>4. next \in [Openers -> 1 .. Len(Batch) + 1]
      BY BatchFacts DEF Init
    <3> QED
      BY <3>1, <3>2, <3>3, <3>4 DEF TypeOK
  <2>2. LockHeld
    BY DEF Init, LockHeld
  <2>3. SchemaInOrder
    BY BatchFacts DEF Init, SchemaInOrder, Initialized
  <2>4. Counted
    BY BatchFacts DEF Init, Counted
  <2> QED
    BY <2>1, <2>2, <2>3, <2>4 DEF IInv
<1> QED
  BY <1>1, OpenInductive, PTL DEF Spec

\* The steps of open keep the program counters, the locks and the database well typed.
THEOREM TypeCorrect == Spec => []TypeOK
<1>1. IInv => TypeOK
  BY DEF IInv
<1> QED
  BY <1>1, Inductive, PTL

\* memory.init.lock and the second look at user_version keep every reader and every open
\* store away from the one that writes the schema.
THEOREM SchemaIsWrittenAlone == Spec => []WritesSchemaAlone
<1>1. IInv => WritesSchemaAlone
  <2> SUFFICES ASSUME IInv, NEW o \in Openers, NEW p \in Openers, pc[o] = "executing", p # o
               PROVE  pc[p] \notin {"reading", "rechecking", "executing", "open"}
    BY DEF WritesSchemaAlone
  <2>1. pc[p] # "open"
    BY DEF IInv, SchemaInOrder
  <2>2. p \notin shared /\ p \notin exclusive
    BY DEF IInv, LockHeld
  <2> QED
    BY <2>1, <2>2 DEF IInv, LockHeld
<1> QED
  BY <1>1, Inductive, PTL

\* A store that open returned has every table, index and trigger.
THEOREM OpenIsComplete == Spec => []OpenMeansComplete
<1>1. IInv => OpenMeansComplete
  BY DEF IInv, SchemaInOrder, OpenMeansComplete
<1> QED
  BY <1>1, Inductive, PTL

\* No row is missing from the search index or from the generation of an open store.
THEOREM RowsAreTracked == Spec => []RowsTracked
<1>1. IInv => RowsTracked
  BY BatchFacts DEF IInv, SchemaInOrder, Counted, RowsTracked
<1> QED
  BY <1>1, Inductive, PTL
=============================================================================
