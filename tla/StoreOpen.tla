----------------------------- MODULE StoreOpen -----------------------------
(***************************************************************************)
(* Opening one root from several processes at once: the first to come      *)
(* writes the schema, the rest wait for it or find it written.             *)
(*                                                                         *)
(* memory.init.lock is shared while user_version is read, let go, and      *)
(* taken exclusively for the batch of schema statements.  Each statement   *)
(* commits by itself, so a process that dies leaves part of the batch.     *)
(***************************************************************************)
EXTENDS Integers, Sequences, FiniteSets

CONSTANTS
  Openers,   \* threads that open the root, each with a connection and a lock file of its own
  OldRows,   \* numbers of rows in databases of before the projection_state table
  MaxOpens,  \* bound: calls of open
  MaxRows    \* bound: rows inserted

ASSUME OldRowsAssumption == OldRows \subseteq Nat
ASSUME BoundsAssumption == MaxOpens \in Nat /\ MaxRows \in Nat

VARIABLES
  pc,         \* per opener
  next,       \* per opener: the statement of the batch it comes to
  shared, exclusive, \* holders of memory.init.lock
  schema,     \* the statements whose effect is in the database
  rows,       \* rows of records
  indexed,    \* rows of records_fts
  generation, \* projection_state.current_generation
  opens

locks == <<shared, exclusive>>
db == <<schema, rows, indexed, generation>>
vars == <<pc, next, locks, db, opens>>

\* The batch, in the order in which it is executed.  Variant: the version comes first.
VersionFirst == <<"user_version", "records", "snapshots", "records_fts", "records_ai",
                  "projection_state", "seed", "projection_records_ai">>
Batch == <<"records", "snapshots", "records_fts", "records_ai",
           "projection_state", "seed", "projection_records_ai", "user_version">>

\* Databases that lack projection_state have the statements before it.
Old == {"records", "snapshots", "records_fts", "records_ai"}

Init ==
  /\ pc = [o \in Openers |-> "closed"]
  /\ next = [o \in Openers |-> 1]
  /\ shared = {} /\ exclusive = {}
  /\ \/ schema = {} /\ rows = 0
     \/ schema = Old /\ rows \in OldRows
  /\ indexed = rows /\ generation = 0
  /\ opens = 0

GoTo(o, where) == pc' = [pc EXCEPT ![o] = where]

-----------------------------------------------------------------------------
(* MemoryStore::open *)

Call(o) ==
  /\ pc[o] = "closed" /\ opens < MaxOpens
  /\ opens' = opens + 1
  /\ GoTo(o, "locking")
  /\ UNCHANGED <<next, locks, db>>

LockShared(o) ==
  /\ pc[o] = "locking" /\ exclusive = {}
  /\ shared' = shared \union {o}
  /\ GoTo(o, "reading")
  /\ UNCHANGED <<next, exclusive, db, opens>>

Initialized == "user_version" \in schema

\* The store is made and the lock file dropped.
Opened(o) ==
  /\ shared' = shared \ {o} /\ exclusive' = exclusive \ {o}
  /\ GoTo(o, "open")

\* Variant: the shared lock is kept while the exclusive one is asked for.
KeepingShared(o) == shared
LettingGo(o) == shared \ {o}

ReadVersion(o) ==
  /\ pc[o] = "reading"
  /\ IF Initialized
     THEN Opened(o)
     ELSE shared' = LettingGo(o) /\ GoTo(o, "upgrading") /\ UNCHANGED exclusive
  /\ UNCHANGED <<next, db, opens>>

LockExclusive(o) ==
  /\ pc[o] = "upgrading" /\ exclusive = {} /\ shared = {}
  /\ exclusive' = {o}
  /\ GoTo(o, "rechecking")
  /\ UNCHANGED <<next, shared, db, opens>>

\* Another opener may have come first.  Variant: that is not looked at.
Unchecked == FALSE
AlreadyDone == Initialized

Recheck(o) ==
  /\ pc[o] = "rechecking"
  /\ IF AlreadyDone
     THEN Opened(o) /\ UNCHANGED next
     ELSE next' = [next EXCEPT ![o] = 1] /\ GoTo(o, "executing") /\ UNCHANGED locks
  /\ UNCHANGED <<db, opens>>

\* The row of projection_state is inserted with the count of the rows there are, unless it
\* is there already.  Variant: with zero.
FromZero == 0
Seed == rows

\* One statement of the batch, each IF NOT EXISTS or OR IGNORE.
Execute(o) ==
  /\ pc[o] = "executing" /\ next[o] <= Len(Batch)
  /\ LET statement == Batch[next[o]] IN
     /\ schema' = schema \union {statement}
     /\ generation' = IF statement = "seed" /\ statement \notin schema
                      THEN Seed ELSE generation
  /\ next' = [next EXCEPT ![o] = @ + 1]
  /\ UNCHANGED <<pc, locks, rows, indexed, opens>>

\* sync_directory comes after the batch.
Synced(o) ==
  /\ pc[o] = "executing" /\ next[o] > Len(Batch)
  /\ Opened(o)
  /\ UNCHANGED <<next, db, opens>>

\* Any call in open may fail, and any process may die, before and after it has opened: the
\* lock file and the connection go with it.
Stop(o) ==
  /\ pc[o] # "closed"
  /\ shared' = shared \ {o} /\ exclusive' = exclusive \ {o}
  /\ GoTo(o, "closed")
  /\ UNCHANGED <<next, db, opens>>

-----------------------------------------------------------------------------
(* An open store takes rows, and the triggers there are see them. *)

Insert(o) ==
  /\ pc[o] = "open" /\ rows < MaxRows
  /\ rows' = rows + 1
  /\ indexed' = IF "records_ai" \in schema THEN indexed + 1 ELSE indexed
  /\ generation' = IF "projection_records_ai" \in schema THEN generation + 1 ELSE generation
  /\ UNCHANGED <<pc, next, locks, schema, opens>>

Open(o) ==
  \/ LockShared(o) \/ ReadVersion(o) \/ LockExclusive(o) \/ Recheck(o) \/ Execute(o) \/ Synced(o)

Next == \E o \in Openers : Call(o) \/ Open(o) \/ Stop(o) \/ Insert(o)

Spec == Init /\ [][Next]_vars

\* Every opener that can go on does; nothing has to fail.
Fairness == \A o \in Openers : WF_vars(Open(o))
FairSpec == Spec /\ Fairness

-----------------------------------------------------------------------------
(* Properties *)

Statements == {Batch[i] : i \in DOMAIN Batch}
Places == {"closed", "locking", "reading", "upgrading", "rechecking", "executing", "open"}

TypeOK ==
  /\ pc \in [Openers -> Places]
  /\ next \in [Openers -> 1 .. Len(Batch) + 1]
  /\ shared \subseteq Openers /\ exclusive \subseteq Openers
  /\ schema \subseteq Statements
  /\ rows \in Nat /\ indexed \in Nat /\ generation \in Nat /\ opens \in Nat

\* Nobody reads the version, and no store is open, while the schema is being written.
WritesSchemaAlone ==
  \A o, p \in Openers : pc[o] = "executing" /\ p # o => pc[p] \notin {"reading", "rechecking", "executing", "open"}

\* A store that is open has the whole schema, whoever wrote which part of it before dying.
OpenMeansComplete == \A o \in Openers : pc[o] = "open" => schema = Statements

\* Every row is in the search index and counted by the generation, those of an older
\* database too, from the moment somebody may read them.
RowsTracked ==
  \A o \in Openers : pc[o] = "open" => indexed = rows /\ generation = rows

\* The upgrade of the lock never blocks: open comes back.
OpenReturns ==
  \A o \in Openers : pc[o] = "locking" ~> pc[o] \in {"open", "closed"}

-----------------------------------------------------------------------------
(* The inductive invariant behind them *)

\* The lock file is held where the program believes it is, by one writer or by readers.
LockHeld ==
  /\ \A o \in Openers : o \in shared <=> pc[o] = "reading"
  /\ \A o \in Openers : o \in exclusive <=> pc[o] \in {"rechecking", "executing"}
  /\ \A o \in exclusive : exclusive = {o} /\ shared = {}

\* user_version is the last statement, so whoever finds it finds the rest; what a writer has
\* passed is written; and before the version is there no store is open.
SchemaInOrder ==
  /\ Initialized => schema = Statements
  /\ \A o \in Openers : pc[o] = "open" => Initialized
  /\ \A o \in Openers : pc[o] = "executing" =>
       /\ \A i \in 1 .. next[o] - 1 : Batch[i] \in schema
       /\ \A p \in Openers : pc[p] # "open"

\* The index has every row, and from the seed on the generation counts them.
Counted ==
  /\ indexed = rows
  /\ "seed" \in schema => generation = rows

\* Holds whoever dies at which statement.
IInv == TypeOK /\ LockHeld /\ SchemaInOrder /\ Counted
=============================================================================
