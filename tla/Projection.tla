----------------------------- MODULE Projection -----------------------------
(***************************************************************************)
(* How the vault keeps events.jsonl equal to the records table.  Any       *)
(* number of processes (stores) hold the same vault open, each with any    *)
(* number of threads.  A call commits its records in one Immediate         *)
(* transaction under the store's connection mutex, gives the mutex up, and *)
(* then projects: it takes the advisory lock on events.jsonl.lock, removes *)
(* orphaned temporaries, compares the file with the projection_state row,  *)
(* and if they differ writes all rows to a temporary, renames it over      *)
(* events.jsonl and records in a separate statement what it published.     *)
(*                                                                         *)
(* Between any two of those steps other threads and processes commit,      *)
(* fail, die, and programs other than the vault rewrite events.jsonl or    *)
(* keep a temporary open so that it cannot be unlinked or renamed.         *)
(*                                                                         *)
(* A file's contents stand for its hash and length: two contents with the  *)
(* same SHA-256 are taken to be equal.  A record stands for its id, since  *)
(* no code path updates or deletes a row.                                  *)
(***************************************************************************)
EXTENDS Integers, FiniteSets

CONSTANTS
  Records,    \* records a caller may ever store
  Threads,    \* threads that call the library
  Stores,     \* open vaults, one MemoryStore (one process) each
  StoreOf,    \* the store each thread belongs to
  TempNames,  \* names .events.jsonl.<pid>.<sequence>.tmp
  Pinnable,   \* temporaries an outside program may keep open
  MaxFaults,  \* bound: failing steps, process deaths and outside writes
  Missing,    \* contents of events.jsonl when there is no such file
  Corrupt,    \* contents that are no projection of any set of records
  None        \* no thread, no temporary

ASSUME RecordsAssumption == IsFiniteSet(Records)
ASSUME StoreOfAssumption == StoreOf \in [Threads -> Stores]
ASSUME PinnableAssumption == Pinnable \subseteq TempNames
ASSUME MaxFaultsAssumption == MaxFaults \in Nat
ASSUME NoneAssumption == None \notin Threads \union TempNames
ASSUME FileAssumption ==
  /\ Missing \notin SUBSET Records
  /\ Corrupt \notin SUBSET Records
  /\ Missing # Corrupt

VARIABLES
  \* memory.db, shared by every process
  records,   \* ids of the rows of table records
  current,   \* projection_state.current_generation, kept by the triggers
  projected, \* projection_state.projected_generation and projected_sha256
  \* the vault directory, shared by every process
  file,      \* contents of events.jsonl
  temps,     \* temporaries of events.jsonl present in the directory
  held,      \* temporaries an outside program has open
  \* locks
  lock,      \* thread that holds the lock on events.jsonl.lock
  conn,      \* per store, the thread that holds the connection mutex
  \* processes and their threads
  opened,    \* stores whose MemoryStore::open has returned
  pc,        \* per thread, the step it is about to take
  batch,     \* per thread, the records of its call
  row,       \* per thread, the projection_state row it read
  snap,      \* per thread, the generation and rows of its read transaction
  tmp,       \* per thread, the temporary it is writing
  \* history, read by no action of the program
  acked,     \* records of every call that returned Ok
  damaged,   \* an outside program wrote events.jsonl since it was last renamed or found right
  faults     \* faults so far

db == <<records, current, projected>>
fs == <<file, temps, held>>
locks == <<lock, conn>>
local == <<batch, row, snap, tmp>>
history == <<acked, damaged, faults>>
vars == <<db, fs, locks, opened, pc, local, history>>

Contents == (SUBSET Records) \union {Missing, Corrupt}
Shown(contents) == IF contents \in {Missing, Corrupt} THEN {} ELSE contents

\* projected_generation starts at -1 with an empty hash, which is modelled by Missing.
Projections == [gen : Int, sha : Contents]
Rows == [current : Int, projected : Projections]
Snapshots == [gen : Int, rows : SUBSET Records]

NoRow == [current |-> 0, projected |-> [gen |-> -1, sha |-> Missing]]
NoSnap == [gen |-> 0, rows |-> {}]

UnderLock == {"clean", "read", "compare", "snapshot", "create", "write", "record"}
UnderMutex == {"create", "write", "record"}
Steps == {"idle", "commit", "lock"} \union UnderLock

\* A vault of an earlier release has records but no projection_state row: the schema
\* batch counts them, and whatever events.jsonl it has is trusted by nobody.
Init ==
  /\ records \in SUBSET Records
  /\ current = Cardinality(records)
  /\ projected = [gen |-> -1, sha |-> Missing]
  /\ file \in (SUBSET records) \union {Missing, Corrupt}
  /\ temps \in SUBSET Pinnable
  /\ held = {}
  /\ lock = None
  /\ conn = [s \in Stores |-> None]
  /\ opened = {}
  /\ pc = [t \in Threads |-> "idle"]
  /\ batch = [t \in Threads |-> {}]
  /\ row = [t \in Threads |-> NoRow]
  /\ snap = [t \in Threads |-> NoSnap]
  /\ tmp = [t \in Threads |-> None]
  /\ acked = {}
  /\ damaged = (file # Missing)
  /\ faults = 0

-----------------------------------------------------------------------------
(* Calls and what ends them *)

\* Guards are dropped with their scope.  Variant: the mutex guard is leaked.
LeakedMutexes(who) == conn
MutexesAfter(who) == [s \in Stores |-> IF conn[s] \in who THEN None ELSE conn[s]]

Mates(t) == {u \in Threads : StoreOf[u] = StoreOf[t]}

\* The locals of the threads in who go out of scope, and their guards are dropped.
Leave(who) ==
  /\ pc' = [t \in Threads |-> IF t \in who THEN "idle" ELSE pc[t]]
  /\ batch' = [t \in Threads |-> IF t \in who THEN {} ELSE batch[t]]
  /\ row' = [t \in Threads |-> IF t \in who THEN NoRow ELSE row[t]]
  /\ snap' = [t \in Threads |-> IF t \in who THEN NoSnap ELSE snap[t]]
  /\ tmp' = [t \in Threads |-> IF t \in who THEN None ELSE tmp[t]]
  /\ lock' = IF lock \in who THEN None ELSE lock
  /\ conn' = MutexesAfter(who)

ReturnOk(t) ==
  /\ Leave({t})
  /\ opened' = opened \union {StoreOf[t]}
  /\ acked' = acked \union batch[t]

GoTo(t, step) == pc' = [pc EXCEPT ![t] = step]

\* MemoryStore::open, after the schema is known to exist: nobody else can use the
\* store before the constructor returns it.
Open(t) ==
  /\ StoreOf[t] \notin opened
  /\ \A u \in Mates(t) : pc[u] = "idle"
  /\ GoTo(t, "lock")
  /\ UNCHANGED <<db, fs, locks, opened, local, history>>

Ingest(t, recs) ==
  /\ StoreOf[t] \in opened
  /\ pc[t] = "idle"
  /\ GoTo(t, "commit")
  /\ batch' = [batch EXCEPT ![t] = recs]
  /\ UNCHANGED <<db, fs, locks, opened, row, snap, tmp, history>>

MutexFree(t) == conn[StoreOf[t]] = None

\* One Immediate transaction under the mutex: existing ids are skipped, the insert
\* trigger counts each new row.
Commit(t) ==
  /\ pc[t] = "commit"
  /\ MutexFree(t)
  /\ records' = records \union batch[t]
  /\ current' = current + Cardinality(batch[t] \ records)
  /\ GoTo(t, "lock")
  /\ UNCHANGED <<projected, fs, locks, opened, local, history>>

-----------------------------------------------------------------------------
(* project_jsonl *)

\* Variant: the exclusive lock is not taken.
LockIgnored == TRUE
LockFree == lock = None

\* Temporaries the directory scan removes: it finds every one by its name, and passes
\* over those whose removal is refused.  Variant: none is removed.
NoOrphans == {}
Orphans == temps \ held

\* The row says the file was projected at the current generation.  Variant: the
\* generations are not compared.
MarkedProjected == projected.sha # Missing
MarkedCurrent == current = projected.gen /\ projected.sha # Missing

\* The file's hash and length are those of the row read before.  Variant: any file will do.
FileExists(t) == file # Missing
FileIsProjected(t) == file = row[t].projected.sha

\* What the temporary holds when it is renamed.  Variant: an append to what was there.
Appended(t) == Shown(file) \union batch[t]
NewContents(t) == snap[t].rows

\* What the last statement writes to projection_state.  Variant: the generation is read
\* again when it is written.
RereadProjection(t) == [gen |-> current, sha |-> snap[t].rows]
NewProjection(t) == [gen |-> snap[t].gen, sha |-> snap[t].rows]

Lock(t) ==
  /\ pc[t] = "lock"
  /\ LockFree
  /\ lock' = t
  /\ GoTo(t, "clean")
  /\ UNCHANGED <<db, fs, conn, opened, local, history>>

\* Removal is refused for the temporaries an outside program has open, and they are skipped.
Clean(t) ==
  /\ pc[t] = "clean"
  /\ temps' = temps \ Orphans
  /\ GoTo(t, "read")
  /\ UNCHANGED <<db, file, held, locks, opened, local, history>>

\* The mutex is given up again before the file is read.
ReadState(t) ==
  /\ pc[t] = "read"
  /\ MutexFree(t)
  /\ row' = [row EXCEPT ![t] = [current |-> current, projected |-> projected]]
  /\ GoTo(t, IF MarkedCurrent THEN "compare" ELSE "snapshot")
  /\ UNCHANGED <<db, fs, locks, opened, batch, snap, tmp, history>>

FileMatches(t) ==
  /\ pc[t] = "compare"
  /\ FileIsProjected(t)
  /\ ReturnOk(t)
  /\ damaged' = FALSE
  /\ UNCHANGED <<db, fs, faults>>

FileDiffers(t) ==
  /\ pc[t] = "compare"
  /\ ~FileIsProjected(t)
  /\ GoTo(t, "snapshot")
  /\ UNCHANGED <<db, fs, locks, opened, local, history>>

\* The mutex is taken and held to the end; the deferred transaction sees one state of
\* the database from its first SELECT on.
Snapshot(t) ==
  /\ pc[t] = "snapshot"
  /\ MutexFree(t)
  /\ conn' = [conn EXCEPT ![StoreOf[t]] = t]
  /\ snap' = [snap EXCEPT ![t] = [gen |-> current, rows |-> records]]
  /\ GoTo(t, "create")
  /\ UNCHANGED <<db, fs, lock, opened, batch, row, tmp, history>>

\* create_new: a name that exists already is passed over.
CreateTemp(t) ==
  /\ pc[t] = "create"
  /\ \E n \in TempNames \ temps :
       /\ temps' = temps \union {n}
       /\ tmp' = [tmp EXCEPT ![t] = n]
  /\ GoTo(t, "write")
  /\ UNCHANGED <<db, file, held, locks, opened, batch, row, snap, history>>

NoTempName(t) ==
  /\ pc[t] = "create"
  /\ TempNames \subseteq temps
  /\ Leave({t})
  /\ UNCHANGED <<db, fs, opened, history>>

\* Rows are written and synced, the temporary renamed, the directory synced.
Rename(t) ==
  /\ pc[t] = "write"
  /\ tmp[t] \in temps \ held
  /\ file' = NewContents(t)
  /\ temps' = temps \ {tmp[t]}
  /\ tmp' = [tmp EXCEPT ![t] = None]
  /\ damaged' = FALSE
  /\ GoTo(t, "record")
  /\ UNCHANGED <<db, held, locks, opened, batch, row, snap, acked, faults>>

\* A temporary that is held can be neither renamed nor unlinked, one that is gone neither.
RenameRefused(t) ==
  /\ pc[t] = "write"
  /\ tmp[t] \notin temps \ held
  /\ Leave({t})
  /\ UNCHANGED <<db, fs, opened, history>>

RecordState(t) ==
  /\ pc[t] = "record"
  /\ projected' = NewProjection(t)
  /\ ReturnOk(t)
  /\ UNCHANGED <<records, current, fs, damaged, faults>>

-----------------------------------------------------------------------------
(* Faults *)

\* Any step of a call can return an error (a busy database, a full disk, a refused
\* file).  The transaction rolls back, the temporary is unlinked if that succeeds.
Fail(t) ==
  /\ faults < MaxFaults
  /\ pc[t] # "idle"
  /\ temps' \in {temps, (temps \ {tmp[t]}) \union (temps \intersect held)}
  /\ Leave({t})
  /\ faults' = faults + 1
  /\ UNCHANGED <<db, file, held, opened, acked, damaged>>

\* The process of s ends, between calls or in the middle of them: its locks go with it,
\* its temporaries stay.
Crash(s) ==
  /\ faults < MaxFaults
  /\ Leave({t \in Threads : StoreOf[t] = s})
  /\ opened' = opened \ {s}
  /\ faults' = faults + 1
  /\ UNCHANGED <<db, fs, acked, damaged>>

\* An outside program deletes events.jsonl, restores an older one, or writes to it.
Tamper ==
  /\ faults < MaxFaults
  /\ file' \in (SUBSET records) \union {Missing, Corrupt}
  /\ damaged' = TRUE
  /\ faults' = faults + 1
  /\ UNCHANGED <<db, temps, held, locks, opened, pc, local, acked>>

Pin(n) ==
  /\ n \in temps \ held
  /\ held' = held \union {n}
  /\ UNCHANGED <<db, file, temps, locks, opened, pc, local, history>>

Unpin(n) ==
  /\ n \in held
  /\ held' = held \ {n}
  /\ UNCHANGED <<db, file, temps, locks, opened, pc, local, history>>

-----------------------------------------------------------------------------
Project(t) ==
  \/ Lock(t) \/ Clean(t) \/ ReadState(t) \/ FileMatches(t) \/ FileDiffers(t)
  \/ Snapshot(t) \/ CreateTemp(t) \/ NoTempName(t) \/ Rename(t) \/ RenameRefused(t)
  \/ RecordState(t)

Call(t) == Open(t) \/ \E recs \in SUBSET Records : Ingest(t, recs)

Outside == Tamper \/ \E n \in Pinnable : Pin(n) \/ Unpin(n)

Next ==
  \/ \E t \in Threads : Call(t) \/ Commit(t) \/ Project(t) \/ Fail(t)
  \/ \E s \in Stores : Crash(s)
  \/ Outside

Spec == Init /\ [][Next]_vars

\* The scheduler runs every thread that can run; a lock wait ends when the lock is
\* free often enough to be granted at all, not in the order of the requests.
Fairness == \A t \in Threads : WF_vars(Commit(t) \/ Project(t))
FairSpec == Spec /\ Fairness

-----------------------------------------------------------------------------
(* Properties *)

TypeOK ==
  /\ records \in SUBSET Records
  /\ current \in Nat
  /\ projected \in Projections
  /\ file \in Contents
  /\ temps \in SUBSET TempNames
  /\ held \in SUBSET (temps \intersect Pinnable)
  /\ lock \in Threads \union {None}
  /\ conn \in [Stores -> Threads \union {None}]
  /\ opened \in SUBSET Stores
  /\ pc \in [Threads -> Steps]
  /\ batch \in [Threads -> SUBSET Records]
  /\ row \in [Threads -> Rows]
  /\ snap \in [Threads -> Snapshots]
  /\ tmp \in [Threads -> TempNames \union {None}]
  /\ acked \in SUBSET Records
  /\ damaged \in BOOLEAN
  /\ faults \in 0..MaxFaults

\* When the stored generation and hash both agree (the test projection_is_current
\* makes before it skips the rewrite), the file holds every committed record: a crash,
\* a failed statement or a concurrent commit between the read of the rows and the
\* write of projection_state never makes a stale file look current.
CurrentMeansComplete ==
  projected.gen = current /\ file = projected.sha => file = records

\* A call that returned Ok left its records where a reader of events.jsonl finds them,
\* and no projection of another thread or process takes them away again.
AckedProjected == ~damaged => acked \subseteq Shown(file)

\* The temporary a thread writes is its own and stays in the directory until the rename:
\* nobody's cleaning of orphans takes it for one.
LiveTempSafe ==
  \A t \in Threads : tmp[t] # None =>
    /\ tmp[t] \in temps
    /\ \A u \in Threads \ {t} : tmp[u] # tmp[t]

\* However many calls fail and processes die in mid-write, at most one temporary that
\* no outside program ever held is in the directory.
OrphansBounded == Cardinality(temps \ Pinnable) <= 1

\* No step of the vault takes a record out of events.jsonl that a reader could see,
\* whichever of two projectors renames last.
NeverRegresses == [][~damaged /\ ~damaged' => Shown(file) \subseteq Shown(file')]_vars

\* The lock file never stays locked: no order of the mutex and the lock, in any mix of
\* threads and processes, leaves the holder waiting for ever.
LockReleased == \A t \in Threads : (lock = t) ~> (lock # t)

\* A committed record reaches events.jsonl, by the call that committed it or by any
\* other that projects later, unless every call has ended first (in an error or with
\* its process), or another program opens temporaries, which it could do for ever.  No call
\* has to win the race for the lock for this.
CommittedGetsProjected ==
  [](held = {}) =>
    \A r \in Records : (r \in records) ~> (r \in Shown(file) \/ \A t \in Threads : pc[t] = "idle")

-----------------------------------------------------------------------------
(* The inductive invariant behind the safety properties *)

\* A hash that projection_state or a read transaction goes with stands for rows that
\* were committed, and the generation beside it is their number.
Counted(gen, rows) == rows \in SUBSET records /\ gen = Cardinality(rows)

GenerationsCount ==
  /\ current = Cardinality(records)
  /\ projected = NoRow.projected \/ Counted(projected.gen, projected.sha)
  /\ \A t \in Threads : Counted(snap[t].gen, snap[t].rows)

\* The thread between taking the lock and giving it up is the one that holds it.
OneProjector == \A t \in Threads : pc[t] \in UnderLock <=> lock = t

\* What the call of t has to find in events.jsonl before it may return.
Owed(t) == acked \union batch[t]

\* The projector's view of the database is never older than what was promised by then.
OwedCovered ==
  /\ acked \subseteq records
  /\ \A t \in Threads :
       /\ pc[t] = "idle" => batch[t] = {}
       /\ pc[t] \in {"lock"} \union UnderLock => batch[t] \subseteq records
       /\ pc[t] = "compare" => /\ row[t].projected.sha \in SUBSET records
                              /\ Owed(t) \subseteq row[t].projected.sha
       /\ pc[t] \in UnderMutex => Owed(t) \subseteq snap[t].rows

\* The file, while only the vault writes it, holds what was promised and nothing that
\* the next rename would take away.
FileCovered ==
  ~damaged =>
    /\ acked \subseteq Shown(file)
    /\ Shown(file) \subseteq records
    /\ \A t \in Threads : pc[t] \in UnderMutex => Shown(file) \subseteq snap[t].rows
    /\ \A t \in Threads : pc[t] = "record" => file = snap[t].rows

\* Only the projector has a temporary of its own, and after its cleaning there is no other
\* but those an outside program may hold.
TempsAccounted ==
  /\ \A t \in Threads :
       /\ tmp[t] # None => pc[t] = "write" /\ tmp[t] \in temps
       /\ pc[t] \in {"read", "compare", "snapshot", "create"} => temps \subseteq Pinnable
  /\ \A m, n \in temps \ Pinnable : m = n

\* What project_jsonl maintains between any two steps of any threads and processes.
IInv == GenerationsCount /\ OneProjector /\ OwedCovered /\ FileCovered /\ TempsAccounted

-----------------------------------------------------------------------------
\* Commit appends, Rename publishes, a return acknowledges, Tamper damages; every other step
\* of project_jsonl is invisible to callers and to readers of events.jsonl.
Log == INSTANCE EventLog WITH log <- records, view <- file
ImplementsEventLog == Log!Spec
=============================================================================
