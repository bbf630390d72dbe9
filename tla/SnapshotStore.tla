--------------------------- MODULE SnapshotStore ---------------------------
(***************************************************************************)
(* The records table and the two tables that give messages an identity.    *)
(* A host sends the messages of a session again and again, as snapshots    *)
(* that grow at the end and lose messages at the front when the session is *)
(* compacted.  ingest_snapshot aligns the longest suffix of the previous   *)
(* snapshot with a prefix of the new one, keeps the records of that part,  *)
(* and stores the rest as new occurrences of their fingerprints.           *)
(*                                                                         *)
(* Every call is one Immediate transaction: another call sees all of it or *)
(* nothing, and an error in the middle rolls it back.  SHA-256 is taken to *)
(* be injective, so a snapshot record id is the triple that is hashed.     *)
(***************************************************************************)
EXTENDS Integers, Sequences, FiniteSets

CONSTANTS
  Keys,     \* (session, workspace) pairs after sanitize_identifier
  Prints,   \* fingerprints of messages: kind, redacted content, tool call id
  Foreign,  \* record ids chosen by callers of ingest_many
  Batches,  \* sets of ids a call of ingest_many may bring
  MaxItems, \* bound: messages in a snapshot
  MaxCount, \* bound: occurrences of one fingerprint
  NoKey     \* no session

ASSUME BoundsAssumption == MaxItems \in Nat /\ MaxCount \in Nat

ASSUME NoKeyAssumption == NoKey \notin Keys

\* snapshot_record_id
RecordId(key, print, occurrence) == [key |-> key, print |-> print, occurrence |-> occurrence]
SnapshotIds == [key : Keys, print : Prints, occurrence : Nat]

ASSUME BatchesAssumption == \A ids \in Batches : ids \subseteq SnapshotIds \union Foreign
ASSUME ForeignAssumption == \A id \in Foreign : id \notin SnapshotIds

VARIABLES
  records,  \* ids of table records
  state,    \* snapshot_state: per key, the entries of the last snapshot in order
  counters, \* snapshot_counters: next_occurrence per key and fingerprint, 0 without a row
  request,  \* history: the snapshot the last step stored, if it stored one
  promised  \* history: per key and fingerprint, the most copies in one stored snapshot

vars == <<records, state, counters, request, promised>>

Entries == [print : Prints, id : SnapshotIds]
NoRequest == [key |-> NoKey, items |-> <<>>]

Snapshots == UNION {[1..n -> Prints] : n \in 0..MaxItems}

Init ==
  /\ records = {}
  /\ state = [k \in Keys |-> <<>>]
  /\ counters = [k \in Keys |-> [p \in Prints |-> 0]]
  /\ request = NoRequest
  /\ promised = [k \in Keys |-> [p \in Prints |-> 0]]

-----------------------------------------------------------------------------
(* ingest_snapshot *)

\* The last n entries of previous carry the fingerprints of the first n items.
Aligned(previous, items, n) ==
  /\ n <= Len(previous) /\ n <= Len(items)
  /\ \A i \in 1..n : previous[Len(previous) - n + i].print = items[i]

\* The search runs downwards from the shorter length, so it finds the longest.
\* Variant: the previous snapshot is looked for as a whole.
WholeOverlap(previous, items) ==
  IF Aligned(previous, items, Len(previous)) THEN Len(previous) ELSE 0
Overlap(previous, items) ==
  CHOOSE n \in 0..Len(items) :
    /\ Aligned(previous, items, n)
    /\ \A m \in 0..Len(items) : Aligned(previous, items, m) => m <= n

\* Positions of message p among the items from one position to another.
Positions(items, p, from, to) == {i \in from..to : items[i] = p}
Copies(items, p) == Cardinality(Positions(items, p, 1, Len(items)))

\* The counter is read and written back for every new item in turn: item i gets the
\* stored value plus the number of equal items before it in the new part.
\* Variant: the counters are read once, before the loop.
StoredOccurrence(k, items, overlap, i) == counters[k][items[i]]
Occurrence(k, items, overlap, i) ==
  counters[k][items[i]] + Cardinality(Positions(items, items[i], overlap + 1, i - 1))

NewId(k, items, overlap, i) == RecordId(k, items[i], Occurrence(k, items, overlap, i))

\* Aligned items keep the record they have.  Variant: they keep the record at the same
\* position, as if nothing had been dropped from the front.
SamePosition(previous, overlap, i) == previous[i].id
KeptId(previous, overlap, i) == previous[Len(previous) - overlap + i].id

\* INSERT OR IGNORE of the new items.  Variant: only the first is inserted.
FirstInserted(k, items, overlap) ==
  {NewId(k, items, overlap, i) : i \in {overlap + 1} \intersect (1..Len(items))}
Inserted(k, items, overlap) ==
  {NewId(k, items, overlap, i) : i \in overlap + 1 .. Len(items)}

NewState(k, items, overlap) ==
  [i \in 1..Len(items) |->
     [print |-> items[i],
      id |-> IF i <= overlap THEN KeptId(state[k], overlap, i)
                             ELSE NewId(k, items, overlap, i)]]

\* The upserts of next_occurrence, one per new item.
NewCounters(k, items, overlap) ==
  [p \in Prints |->
     counters[k][p] + Cardinality(Positions(items, p, overlap + 1, Len(items)))]

Promise(k, items) ==
  [p \in Prints |-> IF promised[k][p] < Copies(items, p) THEN Copies(items, p)
                                                        ELSE promised[k][p]]

IngestSnapshot(k, items) ==
  LET overlap == Overlap(state[k], items) IN
  /\ request' = [key |-> k, items |-> items]
  /\ records' = records \union Inserted(k, items, overlap)
  /\ state' = [state EXCEPT ![k] = NewState(k, items, overlap)]
  /\ counters' = [counters EXCEPT ![k] = NewCounters(k, items, overlap)]
  /\ promised' = [promised EXCEPT ![k] = Promise(k, items)]

-----------------------------------------------------------------------------
(* ingest_many *)

\* Ids that are stored already are skipped.  Besides ids of the callers' own making a
\* batch may hold ids of snapshot records: lines of an events.jsonl that outlived its
\* database, fed back into a new one.
Ingest(ids) ==
  /\ records' = records \union ids
  /\ request' = NoRequest
  /\ UNCHANGED <<state, counters, promised>>

Next ==
  \/ \E k \in Keys, items \in Snapshots :
       /\ IngestSnapshot(k, items)
       /\ \A p \in Prints : counters[k][p] + Copies(items, p) <= MaxCount
  \/ \E ids \in Batches : Ingest(ids)

Spec == Init /\ [][Next]_vars

-----------------------------------------------------------------------------
(* Properties *)

TypeOK ==
  /\ records \subseteq SnapshotIds \union Foreign
  /\ state \in [Keys -> Seq(Entries)]
  /\ counters \in [Keys -> [Prints -> Nat]]
  /\ request = NoRequest \/ (request.key \in Keys /\ request.items \in Snapshots)
  /\ promised \in [Keys -> [Prints -> Nat]]

\* Every entry of snapshot_state names a stored record of its own session and message,
\* with an occurrence the counter has already passed.
StateBacked ==
  \A k \in Keys : \A i \in 1..Len(state[k]) :
    LET entry == state[k][i] IN
    /\ entry.id \in records
    /\ entry.id.key = k /\ entry.id.print = entry.print
    /\ entry.id.occurrence < counters[k][entry.print]

\* Two messages of a session are two records, equal as they may be: reconciliation never
\* folds a legitimate repetition into the message it repeats.
RepetitionsDistinct ==
  \A k \in Keys : \A i, j \in 1..Len(state[k]) : state[k][i].id = state[k][j].id => i = j

\* Every occurrence below the counter is stored, whatever was fed back by ingest_many.
OccurrencesDense ==
  \A k \in Keys, p \in Prints : \A o \in 0..counters[k][p] - 1 : RecordId(k, p, o) \in records

\* A stored snapshot stays stored: for a message that stood n times in one snapshot there
\* are n records ever after, through compaction, replay and feeding back.
SnapshotsKept ==
  \A k \in Keys, p \in Prints : \A o \in 0..promised[k][p] - 1 : RecordId(k, p, o) \in records

\* What makes SnapshotsKept inductive: no stored snapshot held more copies of a message
\* than the counter has passed.
PromisesCounted == \A k \in Keys, p \in Prints : promised[k][p] <= counters[k][p]

\* The inductive invariant: the next snapshot finds records, alignment state and counters
\* of a session agreeing with each other, whatever order of snapshots, replays and fed-back
\* lines came before.
IInv == TypeOK /\ StateBacked /\ RepetitionsDistinct /\ OccurrencesDense /\ PromisesCounted

\* A snapshot adds records only for what follows any alignment with the previous one:
\* sending the same snapshot again, or only its tail, or the tail and new messages, never
\* stores a message twice.
AddsOnlyTheTail ==
  [][\A k \in Keys : request'.key = k =>
       \A n \in 0..Len(request'.items) :
         Aligned(state[k], request'.items, n) =>
           /\ Cardinality(records' \ records) <= Len(request'.items) - n
           /\ n = Len(request'.items) => UNCHANGED <<records, counters>>]_vars
=============================================================================
