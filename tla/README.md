# Hermes Memory Vault in TLA+

TLA+ modules of the vault (Rust data plane, Hermes plugin, installer), the instances TLC
checks, and proofs that TLAPS checks for every value of the constants.

    tlc -workers 2 -config MCProjection.cfg MCProjection     # any MC*.cfg with its MC module
    tlapm ProjectionProofs.tla                               # any *Proofs.tla, NatFacts.tla

`PROJECT.json` lists the runs, the lines of source behind each definition (`map`), one
mutation per checked property that breaks it, the hazards and the theorems.

## 1. Inventory

| Part | Code | State | Operations | Met by |
|---|---|---|---|---|
| Event log projection | `src/lib.rs` 608-713, 875-972 | `projection_state` row, `events.jsonl`, its temporaries, `events.jsonl.lock`, connection mutex | `project_jsonl` at the end of `open` and of each ingest | threads of a process, other processes, programs that write or open the files |
| Records and reconciliation | `src/lib.rs` 292-462, 974-1005 | `records`, `snapshot_state`, `snapshot_counters` | `ingest_many`, `ingest_snapshot`, each one Immediate transaction | child processes, in any order |
| Opening and schema | `src/lib.rs` 188-290 | `memory.init.lock`, `user_version`, schema | `MemoryStore::open` | several processes opening a new root at once |
| Capture plugin | `plugin/vault/__init__.py` 94-157, 233-407 | the session, a child process | `sync_turn`, `on_session_event`, `on_pre_compress` | Hermes calls it, it runs `hermes-memory` with a timeout |
| Command line | `src/main.rs` | none | `ingest`, `snapshot`, `search`, `export` | one process per run |
| Installer | `installer/hermes_memory_vault_installer.py` | managed files, install manifest, backup, `memory.provider` | `install_bundle` | a user, `hermes config set` |
| Search and byte budget | `src/lib.rs` 464-520, 1229-1304 | the locals of a call | `search`, `pack_search_hits`, `fit_hit_within_json_budget` | command line, plugin recall |
| Markdown export | `src/lib.rs` 522-606 | notes, `Index.md`, `export.lock` | `export_markdown` | command line, tool `vault_export`, other processes that store |
| Recall | `plugin/vault/__init__.py` 159-231, 409-514 | `_last_recall_count`, the locals of the second packing | `prefetch`, `recall_status`, tools | Hermes |
| Redaction, path guards, release builder, CI | rest | none | | |

The parts meet in three ways. The plugin starts a child for every write and knows of it only
its exit code, or that it was late. The children share one directory: SQLite serialises
their transactions, two lock files serialise the schema and the projection, and nothing
orders a commit with the projection after it; a third lock file serialises exports. A search
is packed twice, by the store and by the plugin, into two budgets. Programs other than the vault touch the files
at any moment.

What makes each part correct:

* *Projection*: a file that is taken for current is complete; an answered caller finds its
  records in it; readers never lose a record; temporaries in use are left alone, the others
  do not pile up; no lock is held for ever.
* *Reconciliation*: two messages are two records however equal, a message sent again is not
  a new one, and what was once stored stays stored.
* *Opening*: an open store has the whole schema, whoever died writing it.
* *Capture*: the checkpoint never vouches for a transcript that is not there; a retry after
  a timeout stores nothing twice.
* *Installer*: success is complete, failure restores, no file is lost.
* *Search*: an answer fits its budget and holds as much as fits; it comes from its scope and
  from all of it.
* *Export*: links have notes, notes lose nothing, and show what was there when a successful
  export was called.

The hard behaviour is all between these steps: crashes between a rename and the row that
describes it, commits between a read and a comparison, children that outlive their parent.
`PROJECT.json` lists it line by line under `hazards`.

## 2. Modules

`Projection` models `project_jsonl` step by step. Its variables are the database
(`records`, `current`, `projected`: the two generations and the hash of `projection_state`),
the directory (`file`, `temps`, and `held` for temporaries another program has open), the
locks (`lock`, and `conn` per process) and the locals of every thread. `Commit` is the
Immediate transaction of an ingest. `Lock`, `Clean`, `ReadState`, `FileMatches`,
`FileDiffers`, `Snapshot`, `CreateTemp`, `Rename` and `RecordState` are the steps of
`project_jsonl` at which another thread or process can see a difference. `Fail` returns an
error from any of them, `Crash` ends a process, `Tamper`, `Pin` and `Unpin` are programs
outside. A row is its id, a file is the set of rows in it: rows are never updated, and
equal hashes are taken for equal files. `acked` and `damaged` are history variables:
the records of calls that returned Ok, and whether somebody else wrote the file since the
vault last wrote it or found it right.

`EventLog` is what `Projection` promises: a growing log, a view that is replaced as a whole
by something not older, callers that are answered when the view has their records.
`Projection` implements it with `log <- records, view <- file`.

`SnapshotStore` models `ingest_snapshot` and `ingest_many`. `Overlap` is the longest
alignment of the previous snapshot with the new one, `Occurrence` the counter a new item
reads, `IngestSnapshot` the transaction. A record id is the triple that is hashed. `promised`
is a history variable: the most copies of a message in one stored snapshot. Snapshot ids also
come in through `Ingest`, as lines of an old `events.jsonl` that is fed back.

`Provider` composes with it: `INSTANCE SnapshotStore` is the database behind the child
processes, so what a commit does to the tables is `SnapshotStore`'s by construction and
claimed nowhere. A provider call is a list of runs, and each run is spawned, commits, projects and
ends, or fails, or is late and killed; a child whose host dies becomes an orphan that may
still commit, each orphan with the call it comes from, so that equal runs stay two.
The projection of a child is one step here that may fail; its inside is `Projection`. The host is external: it appends turns, compacts in place behind a summary
(never the same text twice), and comes back with its conversation after a crash. The plugin
gets the message list or not (`Listed`), since the argument is optional.

`StoreOpen` models `MemoryStore::open` up to the projection: the shared lock, the exchange
for the exclusive one, the second look at `user_version`, the batch statement by statement
(each commits by itself), and inserts of open stores that run the triggers there are.

`Installer` models `install_bundle`: backup, replacement of the managed files one by one,
manifest, activation, and the rollback in reverse order. Every step may raise before or
after it took effect, and the process may die at every step. What is installed is a build: a
version, the content of its managed files, and the rest of its manifest, so that a rebuild of an
installed version is told from it by the manifest alone. `Matches` is `_installation_matches`,
which does not look at that rest: a call that finds the installation current activates it
(`Confirm`) and replaces the manifest (`Record`), both outside any rollback (`ConfirmFails`,
`RecordFails`).

`Search` models `search` from its arguments to its answer, and the plugin's second packing of
it with the same variables (`by` says who packs). Which records match and how they rank is
SQLite's choice. A text is its characters, of which `Bytes` tells where each ends in UTF-8 and
`Size` how long the encoded hit is with a prefix of it; both grow, which is all that is assumed
of them. `Select` is one round of the loop over the hits, `NextDeferred` the start of
`fit_hit_within_json_budget`, `Bisect` a round of its loop, `TakeCut` what becomes of the
result. The store's positions are bytes and never below 0 (`AtZero`), the plugin's are
characters (`Cut`, `Length`). The bytes of a candidate are counted up (`used`) where the code
encodes the whole list each time; `FitsBudget` compares with the whole list. `SessionArgument`
and `Limit` are the three callers: command line, `vault_search` and `prefetch`. Any of them may be
without a session; `Sessionless` is the tool call that is refused for it. Identifiers are
compared as `sanitize_identifier` stores them; `Meant` is the scope in the caller's terms, for
`prefetch` its workspace alone, which `SessionByDefault` measures by the documentation.

`Export` models `export_markdown` in several processes: `Call`, `Lock` on `export.lock`, `Read`
of the rows, one `WriteNote` for each session in any order, `WriteIndex`, and `Stop` for an
error or a death at any of them, with `Ingest` of another process at any moment. A note is the
set of records it shows. `owed` and `exported` are history variables: what was stored when the
call came, and what calls that returned were for.

`MC*` modules give TLC its constants. `*Proofs` modules hold the theorems.

## 3. Runs

| Run | Instance | Distinct states | Shows |
|---|---|---|---|
| `projection_safety` | 3 threads in 2 processes, 2 records, 3 temporaries of which 1 may be held, 2 faults | 3.1 million | the inductive invariant, completeness, acknowledged records, temporaries, readers, refinement of `EventLog` |
| `projection_live` | 3 threads in 2 processes, 1 record, 2 temporaries that may be held, 1 fault | 248 thousand | the lock is released, committed records get projected |
| `snapshots` | 2 fingerprints, snapshots up to 3, 4 occurrences | 105 thousand | identity of messages, the inductive invariant |
| `provider` | 1 user message, 1 answer, 1 summary, 1 event, message list given, conversations up to 4, 4 calls, 2 deaths, 1 compaction | 744 thousand | the inductive invariant, checkpoints, retries, calls return |
| `store_open` | 3 openers, 5 calls, old databases | 382 thousand | the inductive invariant, schema and counts, `open` returns |
| `installer` | 4 builds of 2 versions, 3 calls, 3 faults | 1.6 million | the inductive invariant, all or nothing |
| `search` | 3 records in 2 workspaces and 2 sessions (one of each holds a secret), 18 store and 7 plugin budgets, limits 0 to 3 | 257 thousand | the inductive invariant, budget, cuts, scope, end |
| `export` | 3 exporters, 3 records in 2 workspaces, 3 exports, 2 faults | 733 thousand | the inductive invariant, links, notes |
| `provider_pairs`, `provider_compacted`, `installer_activation`, `search_prefetch` | smallest | | the four findings of section 5 |

Bounds. Two processes, one of them with two threads, have every kind of contention there is:
for the mutex alone, for the file lock alone, and for both. Two records tell an older file
from a newer one. One temporary that may be held and two that may not tell a leftover the cleaner
has to pass over from one it must remove; two that may both be held (`projection_live`) leave a
writer without a name. A program that opens every new temporary can make all projections fail for
ever, so `CommittedGetsProjected` is claimed of runs in which none is held. `MaxFaults` counts
errors, deaths and outside writes together; two meet on either side of a rename, and two deaths are
what it takes for orphans to pile up if nobody removed them. Snapshots of three messages over two
fingerprints have all overlaps that are ambiguous (`aab`, `aba`); `MaxCount` leaves room for a
full replacement after each. Four calls reach a turn, a checkpoint that times out, its retry
and a turn after the compaction; with one user message every exchange is a repetition, which is
the case that fingerprints could confuse; two deaths leave two orphans of the same snapshot. The
`MaxCount` of the store in it is `MaxMessages * MaxCalls`, which its calls cannot pass.
Three openers are one writer, one that waits for it and one that dies. Three installer runs
are an install, an update and a retry; the four builds are one, a rebuild of the same files, a later
version that keeps one of them, and a rebuild of the first version with another binary.
The three texts of `search` have an escape, characters of one, two and three bytes and no character at all; the budgets are every value from below one empty
hit to above all hits, and 0 and 1. Three exporters are one that writes, one that waits with
another scope and one that dies; two records of one session tell an older note from a newer one.
Symmetry is used in
`projection_safety` (records, and names that may be held or not alike), which checks no liveness. `CHECK_DEADLOCK FALSE` stands where the calls are
bounded and the system comes to rest when they are used up.

Fairness. `Projection`: weak fairness of each thread's step, which a preemptive scheduler
gives; a thread that waits for a lock is enabled only while the lock is free, so nothing is
assumed about the order in which locks are granted, and no thread is assumed to win the race
for it. `StoreOpen`: the same. `Provider`: the plugin takes its steps and its timeout expires;
nothing is assumed of the child, which may hang. `Search`: a call that has begun goes on, since
it waits for nothing; nobody has to ask.

## 4. Proofs

TLAPS proves, for all values of the constants under the assumptions the modules name (finite
`Records`; `Missing`, `Corrupt` and `None` distinct from what they are not; natural bounds;
snapshot ids and foreign ids disjoint):

*`ProjectionProofs`*: `TypeCorrect`, `CurrentIsComplete`, `AckedIsProjected`,
`LiveTempIsSafe`, `OrphansAreBounded`, `ReadersNeverRegress`, `ProjectionImplementsEventLog`.
None of the properties is inductive alone. The invariant `IInv` adds:
`GenerationsCount` (the generation is the number of rows, and any recorded pair of a
generation and a hash is a set of committed rows with its number: equal generations are then
equal sets, which is why a crash between rename and UPDATE is harmless), `OneProjector` (who
is between `Lock` and the end holds the lock), `OwedCovered` (the rows a projector is about
to publish, or to accept, contain all that was acknowledged and its own batch),
`FileCovered` (an undamaged file is covered by what the projector goes with), and
`TempsAccounted` (after `Clean` only pinnable temporaries remain, so at most one other exists).
The run `projection_safety` checks `IInv` with TLC.

*`SnapshotStoreProofs`*: `TypeCorrect`, `StateIsBacked`, `RepetitionsAreDistinct`,
`OccurrencesAreDense`, `SnapshotsAreKept`, `SnapshotsAddOnlyTheTail`. The invariant is the
`IInv` of `SnapshotStore.tla`, which the run checks: tables that agree, distinct repetitions, dense
occurrences, and `PromisesCounted`: a stored snapshot held no more
copies of a message than its counter has passed. Its step rests on lemmas about `Positions`
(the new items' occurrences are exactly the interval between the old and the new counter)
and on the distinctness of the records in the aligned part.

*`ProviderProofs`*: `CheckpointsAreBacked`, `ContextIsDurable`, `TurnsAreKept`,
`RetriesStoreNothingTwice`. The `IInv` of `Provider.tla` is proved in three layers, each from those
before it. First what holds of every host: types, the invariant of the store, that the runs a call
has still to do are of its own kind, and `Backed`: when the run that writes a checkpoint is next, or
may still come from an orphan, the transcript it names is stored. Then the turns, and last the
repetitions: what a retry would send aligns with what the store has. The last two are claimed of hosts that pass their messages, `Listed \subseteq {TRUE}`,
since the run `provider_pairs` shows `TurnsKept` false of the others, and `IInv` carries that
hypothesis. Assumed further: summaries and the blank message are not messages of the conversation
(a host never writes the same summary twice), event ids are not snapshot ids, and `NoSession` is no
session.

*`InstallerProofs`*: `FailureRestores`, `SuccessIsComplete`, `NoFileIsLost`, for any builds, any
versions and any contents of their files. `FailureRestores` says of a call that raised: everything is
as it was, or (`Confirmed`) the installation was current and has the manifest of the call's build
and no other change. The properties speak of
calls that have ended; the invariant says of a call on its way what every managed file and its
backup are, by how far the call has come and in which direction: replaced up to the step, found as
it was beyond it, and at the step either of the two, since a step that raised may have taken effect.

*`SearchProofs`*: `BisectionIsSound`, `CutIsLongest`, `ScopeIsKept`, `AnswersFit`,
`LeftOutForReason`, for any texts whose encoded length does not fall when a character is added. The
invariant says that every position below the range fits and every one above does not, that `best` is
the cut at the position just below the range, and that whatever is packed is of the records that
were offered. The lemma `Positions` carries the argument from positions to cuts: cuts grow with
positions and every cut is reached, so an empty range leaves no longer cut. `ScopeIsKept` rests on
`DigestAssumption`: digests are injective and no identifier is spelled like one. For the budget the
invariant ties the running count to the hits: `UsedIsLength` says that `used` is the sum over the
packed hits, so that a count within the budget is an answer within it. `Accounted` says that
the hits looked at are the best ones, that `used` is no more than those of them that are there take
(`Room`), and that each of them is there or had no room. Room grows only, so a reason once given stands.

*`ExportProofs`*: `LinksAlwaysExist`, `ExportedIsKept`, `NotesOnlyGrow`. The invariant of
`Export.tla` adds that one exporter at most is past the lock, that notes show rows of their own
session, and `ExportCovered`: the notes an exporter has still to write will show all they show now,
and those it has written show all that it owes. Rows are never deleted, so a later reader has read
more.

*`NatFacts`* has what several of these rest on. A bounded set of naturals that is not empty has a
greatest element. A set of naturals with 0 and every successor has them all: since no induction
theorem with an operator for a parameter can be used, each induction of the project is one over such
a set. A function defined step by step exists. And for `SumFunctionOnSet` of the community modules,
which folds in an order of its choice: the sum does not depend on the order, grows with its terms, and over
a sequence is the sum of the front plus the last term.

*`StoreOpenProofs`*: `TypeCorrect`, `SchemaIsWrittenAlone`, `OpenIsComplete`,
`RowsAreTracked`. The invariant ties the locks to the program counters and says that the
schema is always a prefix of the batch in its order, and that the counts agree from the
statement on that begins to count.

Model-checked only: liveness (`LockReleased`, `CommittedGetsProjected`, `CallsReturn`,
`OpenReturns`, `Terminates`), which is out of the prover's reach here. Every invariant, action property
and refinement that a passing run checks is a theorem. The four violations are TLC's by nature.

## 5. Where code and documents differ

* `provider_pairs`. Without a message list `sync_turn` snapshots the two messages of the turn.
  A turn that repeats the one before it aligns with it completely and is not stored, against
  "preserves complete session records" of the system prompt. With a list (`provider`)
  `TurnsKept` holds, provided two summaries are never equal word for word.
* `provider_compacted`. After a compaction in place the summary in front of the kept messages
  leaves nothing to align, and they are stored again. The test that names this case replays
  the suffix alone, without a summary.
* `installer_activation`. When `hermes config set` takes effect and still fails or is late, the
  rollback removes the plugin and leaves the profile configured with it.
* `search_prefetch`. The recall before every turn asks for its workspace alone and brings records of
  other sessions, where `src/README.md:21` says "session-scoped recall by default" and only
  `all_sessions: true` should widen it. A test (`python_tests/test_vault_provider.py:90`) expects
  the wider scope; `vault_search` keeps to its session (`ScopeKept`).

Read off the code without a run: `Index.md` lists the sessions of the last export alone, so after
`vault_export` of one workspace the notes of others have no link; a search with `--max-bytes 1`
answers `[]`, two bytes. A call that finds its build's files installed and fails in the `fsync` after
it replaced the manifest leaves the new manifest, which `AllOrNothing` allows for: the files are those
of both builds, and no document speaks of this path.

## 6. Assumptions and what is not modelled

SHA-256 is injective. SQLite transactions are atomic and durable, a deferred transaction in
WAL mode reads one state from its first SELECT on. `rename` and `os.replace` are atomic. File
locks end with their process. One installer runs at a time, which the code does not enforce.
Agents that are not primary return before any step. Redaction, path guards, archive checks and
the parsing of input only decide whether a call fails; each module has a failure that stands
for them.

Not modelled: full-text matching and its order; the patterns of `redact_text`, which are regular
expressions without state; the text that `prefetch` makes of its hits and cuts to 4096 bytes, the
contents the plugin replaces because a scanner blocks them, and `recall_status`, which repeats the
number of the last hits; the wording and escaping of notes; temporaries that a dead export leaves in
the destination, which the code never cleans; notes a user edits or removes; two roots that export
into one destination; a session that changes without `initialize`; the release builder and the
workflow, which have no state beyond their output.

## 7. Plan

Done: `EventLog`, `Projection`, `SnapshotStore`, `Provider`, `StoreOpen`, `Installer`, `Search`,
`Export`, and proofs of every safety property of each. Next, in order:

1. An abstract specification of the installer (a profile that changes from one release to another
   at once, or not at all) and of the export (a set of notes that only grows), with the proofs that
   `Installer` and `Export` implement them.
2. `StoreOpen` as an implementation of a schema that is there or not, for whoever is let in.
