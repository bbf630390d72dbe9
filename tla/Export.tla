------------------------------- MODULE Export -------------------------------
(***************************************************************************)
(* export_markdown: one note per session and an Index.md with links to     *)
(* them, rewritten from the records table.  Several processes export the   *)
(* same vault, one at a time under export.lock, while others store         *)
(* records; an export may be of one workspace, and it may fail or die      *)
(* between any two files.                                                  *)
(*                                                                         *)
(* A note is the records it shows.  Every file is written to a temporary   *)
(* and renamed, so a reader sees the old note or the new one.              *)
(* safe_segment ends in a digest, so two sessions never share a note.      *)
(***************************************************************************)
EXTENDS Integers

CONSTANTS
  Records,
  Exporters,    \* processes that export
  Sessions,     \* (workspace, session) pairs
  WorkspaceOf,  \* of a session
  SessionOf,    \* of a record
  NoNote,       \* what a session without a note shows
  Everything,   \* an export without --workspace
  MaxExports,   \* bound: calls of export_markdown
  MaxFaults     \* bound: calls that fail and processes that die

ASSUME SessionAssumption == SessionOf \in [Records -> Sessions]
ASSUME NoneAssumption == NoNote \notin SUBSET Records
ASSUME BoundsAssumption == MaxExports \in Nat /\ MaxFaults \in Nat

Workspaces == {WorkspaceOf[s] : s \in Sessions}
ASSUME EverythingAssumption == Everything \notin Workspaces

VARIABLES
  records,  \* rows of the database
  notes,    \* the records in the note of a session, or NoNote
  index,    \* the sessions Index.md has links to
  lock,     \* the exporter that holds export.lock, as a set
  pc,
  scope,    \* per exporter: the workspace asked for
  read,     \* per exporter: the rows its SELECT returned
  pending,  \* per exporter: sessions whose notes are still to be written
  owed,     \* history, per exporter: rows of its scope when it was called
  exported, \* history: rows of calls that returned
  exports, faults

vault == <<notes, index>>
local == <<scope, read, pending, owed>>
bounds == <<exports, faults>>
vars == <<records, vault, lock, pc, local, exported, bounds>>

Shown(note) == IF note = NoNote THEN {} ELSE note

Init ==
  /\ records \in SUBSET Records
  /\ notes = [s \in Sessions |-> NoNote] /\ index = {}
  /\ lock = {}
  /\ pc = [e \in Exporters |-> "idle"]
  /\ scope = [e \in Exporters |-> Everything]
  /\ read = [e \in Exporters |-> {}]
  /\ pending = [e \in Exporters |-> {}]
  /\ owed = [e \in Exporters |-> {}]
  /\ exported = {}
  /\ exports = 0 /\ faults = 0

GoTo(e, where) == pc' = [pc EXCEPT ![e] = where]

\* WHERE ?1 IS NULL OR workspace = ?1
Within(r, workspace) == workspace \in {Everything, WorkspaceOf[SessionOf[r]]}
Selected(workspace) == {r \in records : Within(r, workspace)}

Of(s, rows) == {r \in rows : SessionOf[r] = s}
SessionsOf(rows) == {SessionOf[r] : r \in rows}

-----------------------------------------------------------------------------
(* Another process stores a record.  Nothing is ever deleted. *)
Ingest(r) ==
  /\ r \notin records
  /\ records' = records \union {r}
  /\ UNCHANGED <<vault, lock, pc, local, exported, bounds>>

-----------------------------------------------------------------------------
(* export_markdown *)

\* The destination has been validated and its directory opened or made.
Call(e, workspace) ==
  /\ pc[e] = "idle" /\ exports < MaxExports
  /\ exports' = exports + 1
  /\ scope' = [scope EXCEPT ![e] = workspace]
  /\ owed' = [owed EXCEPT ![e] = Selected(workspace)]
  /\ GoTo(e, "lock")
  /\ UNCHANGED <<records, vault, lock, read, pending, exported, faults>>

\* Variant: another root's lock is taken, which is always free.
OtherLock == TRUE
LockFree == lock = {}

Lock(e) ==
  /\ pc[e] = "lock" /\ LockFree
  /\ lock' = lock \union {e}
  /\ GoTo(e, "read")
  /\ UNCHANGED <<records, vault, local, exported, bounds>>

\* Rows of one statement, grouped by session; every note is made before the next.
Read(e) ==
  /\ pc[e] = "read"
  /\ read' = [read EXCEPT ![e] = Selected(scope[e])]
  /\ pending' = [pending EXCEPT ![e] = SessionsOf(read'[e])]
  /\ GoTo(e, "notes")
  /\ UNCHANGED <<records, vault, lock, scope, owed, exported, bounds>>

\* A note is made anew from the rows that were read.  Variant: one that exists is kept.
KeptNote(e, s) == IF notes[s] # NoNote THEN notes[s] ELSE Of(s, read[e])
NewNote(e, s) == Of(s, read[e])

\* The sessions come in the order of their names, which may be any.
WriteNote(e, s) ==
  /\ pc[e] = "notes" /\ s \in pending[e]
  /\ notes' = [notes EXCEPT ![s] = NewNote(e, s)]
  /\ pending' = [pending EXCEPT ![e] = @ \ {s}]
  /\ UNCHANGED <<records, index, lock, pc, scope, read, owed, exported, bounds>>

\* The locals and the lock go with the call.
Leave(e) ==
  /\ GoTo(e, "idle")
  /\ lock' = lock \ {e}
  /\ read' = [read EXCEPT ![e] = {}]
  /\ pending' = [pending EXCEPT ![e] = {}]
  /\ owed' = [owed EXCEPT ![e] = {}]

\* Index.md comes last.  Variant: it does not wait for the notes.
Anytime(e) == TRUE
NotesWritten(e) == pending[e] = {}

\* It has the sessions of this export and of no other.
WriteIndex(e) ==
  /\ pc[e] = "notes" /\ NotesWritten(e)
  /\ index' = SessionsOf(read[e])
  /\ exported' = exported \union owed[e]
  /\ Leave(e)
  /\ UNCHANGED <<records, notes, scope, bounds>>

\* Any step may fail, and the process may die at any: what has been written stays.
Stop(e) ==
  /\ pc[e] # "idle" /\ faults < MaxFaults
  /\ faults' = faults + 1
  /\ Leave(e)
  /\ UNCHANGED <<records, vault, scope, exported, exports>>

Export(e) ==
  \/ \E w \in Workspaces \union {Everything} : Call(e, w)
  \/ Lock(e) \/ Read(e) \/ WriteIndex(e) \/ Stop(e)
  \/ \E s \in Sessions : WriteNote(e, s)

Next == (\E r \in Records : Ingest(r)) \/ \E e \in Exporters : Export(e)

Spec == Init /\ [][Next]_vars

-----------------------------------------------------------------------------
(* Properties *)

TypeOK ==
  /\ records \in SUBSET Records /\ exported \in SUBSET records
  /\ notes \in [Sessions -> (SUBSET Records) \union {NoNote}]
  /\ index \in SUBSET Sessions /\ lock \in SUBSET Exporters
  /\ pc \in [Exporters -> {"idle", "lock", "read", "notes"}]
  /\ scope \in [Exporters -> Workspaces \union {Everything}]
  /\ read \in [Exporters -> SUBSET records] /\ owed \in [Exporters -> SUBSET records]
  /\ pending \in [Exporters -> SUBSET Sessions]
  /\ exports \in Nat /\ faults \in Nat

\* Index.md never has a link to a note that is not there, whichever exports have failed or
\* died between two files, and whichever was the last to write it.
LinksExist == \A s \in index : notes[s] # NoNote

\* Every record that was stored when a successful export of its workspace was called is in
\* its note ever after, whoever exports what and dies afterwards.
ExportedKept == \A r \in exported : r \in Shown(notes[SessionOf[r]])

\* No step takes a record out of a note, whichever of two exports read the database first.
NotesNeverRegress == [][\A s \in Sessions : Shown(notes[s]) \subseteq Shown(notes'[s])]_vars

-----------------------------------------------------------------------------
(* The inductive invariant behind them *)

\* The exporter between the lock and the end of its call is the one that holds it.
OneExporter ==
  /\ \A e \in Exporters : pc[e] \in {"read", "notes"} <=> e \in lock
  /\ \A e, f \in lock : e = f

\* A note shows rows of its own session.
NotesTrue == \A s \in Sessions : Shown(notes[s]) \subseteq Of(s, records)

\* The notes still to be written will show all that they show now; those that are written,
\* all that is owed to the caller.
ExportCovered ==
  \A e \in Exporters :
    /\ \A r \in owed[e] : Within(r, scope[e])
    /\ pc[e] = "notes" =>
         /\ owed[e] \subseteq read[e] /\ pending[e] \subseteq SessionsOf(read[e])
         /\ \A s \in pending[e] : Shown(notes[s]) \subseteq Of(s, read[e])
         /\ \A s \in SessionsOf(read[e]) \ pending[e] :
              notes[s] # NoNote /\ Of(s, owed[e]) \subseteq Shown(notes[s])

\* Holds whichever exports have failed or died.
IInv == TypeOK /\ OneExporter /\ NotesTrue /\ ExportCovered /\ LinksExist /\ ExportedKept
=============================================================================
