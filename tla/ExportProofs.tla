---------------------------- MODULE ExportProofs ----------------------------
(***************************************************************************)
(* Proofs about Export, for any records, sessions and exporters and any    *)
(* number of exports and faults.                                           *)
(***************************************************************************)
EXTENDS Export, TLAPS

\* Records of one session are within the same scopes.
LEMMA SameScope ==
  ASSUME NEW r \in Records, NEW q \in Records, SessionOf[r] = SessionOf[q], NEW w, Within(q, w)
  PROVE  Within(r, w)
BY DEF Within

LEMMA ShownRows == ASSUME NEW rows \in SUBSET Records PROVE Shown(rows) = rows /\ rows # NoNote
BY NoneAssumption DEF Shown

\* What Leave does to the exporters that stay, and to the one that goes.
LEMMA Leaving ==
  ASSUME IInv, NEW e \in Exporters, Leave(e)
  PROVE  /\ pc' \in [Exporters -> {"idle", "lock", "read", "notes"}] /\ lock' \in SUBSET Exporters
         /\ \A f \in Exporters : f # e => /\ pc'[f] = pc[f] /\ read'[f] = read[f]
                                          /\ pending'[f] = pending[f] /\ owed'[f] = owed[f]
         /\ pc'[e] = "idle" /\ read'[e] = {} /\ pending'[e] = {} /\ owed'[e] = {}
         /\ read' \in [Exporters -> SUBSET records] /\ owed' \in [Exporters -> SUBSET records]
         /\ pending' \in [Exporters -> SUBSET Sessions]
         /\ OneExporter'
<1>1. /\ pc' = [pc EXCEPT ![e] = "idle"] /\ lock' = lock \ {e}
      /\ read' = [read EXCEPT ![e] = {}] /\ pending' = [pending EXCEPT ![e] = {}]
      /\ owed' = [owed EXCEPT ![e] = {}]
  BY DEF Leave, GoTo
<1>2. TypeOK /\ OneExporter
  BY DEF IInv
<1>3. /\ \A f \in Exporters : f # e => /\ pc'[f] = pc[f] /\ read'[f] = read[f]
                                       /\ pending'[f] = pending[f] /\ owed'[f] = owed[f]
      /\ pc'[e] = "idle" /\ read'[e] = {} /\ pending'[e] = {} /\ owed'[e] = {}
  BY <1>1, <1>2 DEF TypeOK
<1>4. OneExporter'
  BY <1>1, <1>2, <1>3 DEF OneExporter
<1>5. /\ pc' \in [Exporters -> {"idle", "lock", "read", "notes"}] /\ lock' \in SUBSET Exporters
      /\ read' \in [Exporters -> SUBSET records] /\ owed' \in [Exporters -> SUBSET records]
      /\ pending' \in [Exporters -> SUBSET Sessions]
  BY <1>1, <1>2 DEF TypeOK
<1> QED
  BY <1>3, <1>4, <1>5

\* The one exporter that writes: every other is before its Read.
LEMMA WriterAlone ==
  ASSUME IInv, NEW e \in Exporters, pc[e] = "notes", NEW f \in Exporters, f # e
  PROVE  pc[f] # "notes"
BY DEF IInv, OneExporter

\* What a written note shows, and what it showed before.
LEMMA NoteWritten ==
  ASSUME IInv, NEW e \in Exporters, NEW s \in Sessions, WriteNote(e, s)
  PROVE  /\ notes' \in [Sessions -> (SUBSET Records) \union {NoNote}]
         /\ notes'[s] # NoNote /\ Shown(notes'[s]) = Of(s, read[e])
         /\ Shown(notes[s]) \subseteq Shown(notes'[s])
         /\ \A t \in Sessions : t # s => notes'[t] = notes[t]
<1>1. Of(s, read[e]) \in SUBSET Records
  BY DEF IInv, TypeOK, Of
<1>2. notes' = [notes EXCEPT ![s] = Of(s, read[e])]
  BY DEF WriteNote, NewNote
<1>3. notes' \in [Sessions -> (SUBSET Records) \union {NoNote}] /\ notes'[s] = Of(s, read[e])
      /\ \A t \in Sessions : t # s => notes'[t] = notes[t]
  BY <1>1, <1>2 DEF IInv, TypeOK
<1>4. Shown(notes'[s]) = Of(s, read[e]) /\ notes'[s] # NoNote
  BY <1>1, <1>3, ShownRows
<1>5. Shown(notes[s]) \subseteq Of(s, read[e])
  BY DEF WriteNote, IInv, ExportCovered
<1> QED
  BY <1>3, <1>4, <1>5

-----------------------------------------------------------------------------
(* The invariant *)

LEMMA IngestInductive == ASSUME IInv, NEW r \in Records, Ingest(r) PROVE IInv'
<1> USE DEF IInv
<1>1. records' = records \union {r}
  BY DEF Ingest
<1>2. TypeOK'
  BY <1>1 DEF Ingest, TypeOK, vault, local, bounds
<1>3. OneExporter'
  BY DEF Ingest, OneExporter
<1>4. NotesTrue'
  BY <1>1 DEF Ingest, NotesTrue, Of, Shown, vault
<1>5. ExportCovered'
  BY DEF Ingest, ExportCovered, Of, Shown, SessionsOf, Within, vault, local
<1>6. LinksExist' /\ ExportedKept'
  BY DEF Ingest, LinksExist, ExportedKept, Shown, vault
<1> QED
  BY <1>2, <1>3, <1>4, <1>5, <1>6

LEMMA CallInductive ==
  ASSUME IInv, NEW e \in Exporters, NEW w \in Workspaces \union {Everything}, Call(e, w)
  PROVE  IInv'
<1> USE DEF IInv
<1>1. /\ pc[e] = "idle" /\ pc' = [pc EXCEPT ![e] = "lock"] /\ exports' = exports + 1
      /\ scope' = [scope EXCEPT ![e] = w] /\ owed' = [owed EXCEPT ![e] = Selected(w)]
      /\ UNCHANGED <<records, notes, index, lock, read, pending, exported, faults>>
  BY DEF Call, GoTo, vault
<1>2. Selected(w) \subseteq records /\ \A r \in Selected(w) : Within(r, w)
  BY DEF Selected, TypeOK
<1>3. /\ \A f \in Exporters : f # e => pc'[f] = pc[f] /\ scope'[f] = scope[f] /\ owed'[f] = owed[f]
      /\ pc'[e] = "lock" /\ scope'[e] = w /\ owed'[e] = Selected(w)
  BY <1>1 DEF TypeOK
<1>4. TypeOK'
  BY <1>1, <1>2 DEF TypeOK
<1>5. OneExporter'
  BY <1>1, <1>3 DEF OneExporter
<1>6. NotesTrue' /\ LinksExist' /\ ExportedKept'
  BY <1>1 DEF NotesTrue, LinksExist, ExportedKept, Of, Shown
<1>7. ASSUME NEW f \in Exporters, NEW r \in owed'[f] PROVE Within(r, scope'[f])
  <2>1. CASE f = e
    BY <1>2, <1>3, <1>7, <2>1
  <2>2. CASE f # e
    BY <1>3, <1>7, <2>2 DEF ExportCovered
  <2> QED
    BY <2>1, <2>2
<1>8. ASSUME NEW f \in Exporters, pc'[f] = "notes" PROVE f # e
  BY <1>3, <1>8
<1>9. ExportCovered'
  BY <1>1, <1>3, <1>7, <1>8 DEF ExportCovered, Of, Shown, SessionsOf, Within
<1> QED
  BY <1>4, <1>5, <1>6, <1>9

LEMMA LockInductive == ASSUME IInv, NEW e \in Exporters, Lock(e) PROVE IInv'
<1> USE DEF IInv
<1>1. /\ pc[e] = "lock" /\ lock = {} /\ lock' = {e} /\ pc' = [pc EXCEPT ![e] = "read"]
      /\ UNCHANGED <<records, notes, index, scope, read, pending, owed, exported, exports, faults>>
  BY DEF Lock, LockFree, GoTo, vault, local, bounds
<1>2. (\A f \in Exporters : f # e => pc'[f] = pc[f]) /\ pc'[e] = "read"
  BY <1>1 DEF TypeOK
<1>3. TypeOK'
  BY <1>1 DEF TypeOK
<1>4. OneExporter'
  BY <1>1, <1>2 DEF OneExporter
<1>5. NotesTrue' /\ LinksExist' /\ ExportedKept'
  BY <1>1 DEF NotesTrue, LinksExist, ExportedKept, Of, Shown
<1>6. ExportCovered'
  BY <1>1, <1>2 DEF ExportCovered, Of, Shown, SessionsOf, Within
<1> QED
  BY <1>3, <1>4, <1>5, <1>6

LEMMA ReadInductive == ASSUME IInv, NEW e \in Exporters, Read(e) PROVE IInv'
<1> USE DEF IInv
<1> DEFINE rows == Selected(scope[e])
<1>1. /\ pc[e] = "read" /\ pc' = [pc EXCEPT ![e] = "notes"]
      /\ read' = [read EXCEPT ![e] = rows]
      /\ pending' = [pending EXCEPT ![e] = SessionsOf(read'[e])]
      /\ UNCHANGED <<records, notes, index, lock, scope, owed, exported, exports, faults>>
  BY DEF Read, GoTo, vault, bounds
<1>2. rows \subseteq records /\ SessionsOf(rows) \subseteq Sessions
  BY SessionAssumption DEF Selected, SessionsOf, TypeOK
<1>3. /\ \A f \in Exporters : f # e => pc'[f] = pc[f] /\ read'[f] = read[f] /\ pending'[f] = pending[f]
      /\ pc'[e] = "notes" /\ read'[e] = rows /\ pending'[e] = SessionsOf(rows)
  BY <1>1 DEF TypeOK
<1>4. TypeOK'
  <2>1. pending' \in [Exporters -> SUBSET Sessions] /\ read' \in [Exporters -> SUBSET records]
    BY <1>1, <1>2, <1>3 DEF TypeOK
  <2> QED
    BY <1>1, <2>1 DEF TypeOK
<1>5. OneExporter'
  BY <1>1, <1>3 DEF OneExporter
<1>6. NotesTrue' /\ LinksExist' /\ ExportedKept'
  BY <1>1 DEF NotesTrue, LinksExist, ExportedKept, Of, Shown
<1>7. owed[e] \subseteq rows
  BY DEF ExportCovered, TypeOK, Selected
<1>8. ASSUME NEW s \in SessionsOf(rows) PROVE Shown(notes[s]) \subseteq Of(s, rows)
  <2>1. PICK q \in rows : s = SessionOf[q]
    BY <1>8 DEF SessionsOf
  <2>2. q \in Records /\ Within(q, scope[e]) /\ s \in Sessions
    BY <1>2, <2>1, SessionAssumption DEF Selected, TypeOK
  <2>3. ASSUME NEW r \in Shown(notes[s]) PROVE r \in Of(s, rows)
    <3>1. r \in records /\ r \in Records /\ SessionOf[r] = s
      BY <2>2, <2>3 DEF NotesTrue, Of, TypeOK
    <3>2. Within(r, scope[e])
      BY <2>1, <2>2, <3>1, SameScope
    <3> QED
      BY <3>1, <3>2 DEF Of, Selected
  <2> QED
    BY <2>3
<1>9. ExportCovered'
  <2>1. ASSUME NEW f \in Exporters PROVE \A r \in owed'[f] : Within(r, scope'[f])
    BY <1>1 DEF ExportCovered
  <2>2. /\ owed'[e] \subseteq read'[e] /\ pending'[e] = SessionsOf(read'[e])
        /\ \A s \in pending'[e] : Shown(notes'[s]) \subseteq Of(s, read'[e])
    BY <1>1, <1>3, <1>7, <1>8 DEF Shown
  <2>3. ASSUME NEW f \in Exporters, f # e, pc'[f] = "notes"
        PROVE  FALSE
    BY <1>1, <1>3, <2>3 DEF OneExporter
  <2> HIDE DEF rows
  <2> QED
    BY <2>1, <2>2, <2>3 DEF ExportCovered, Of, Shown, SessionsOf, Within
<1> QED
  BY <1>4, <1>5, <1>6, <1>9

LEMMA WriteNoteInductive ==
  ASSUME IInv, NEW e \in Exporters, NEW s \in Sessions, WriteNote(e, s) PROVE IInv'
<1> USE DEF IInv
<1>1. /\ pc[e] = "notes" /\ s \in pending[e] /\ pending' = [pending EXCEPT ![e] = @ \ {s}]
      /\ UNCHANGED <<records, index, lock, pc, scope, read, owed, exported, exports, faults>>
  BY DEF WriteNote, bounds
<1>2. /\ notes' \in [Sessions -> (SUBSET Records) \union {NoNote}]
      /\ notes'[s] # NoNote /\ Shown(notes'[s]) = Of(s, read[e])
      /\ Shown(notes[s]) \subseteq Shown(notes'[s])
      /\ \A t \in Sessions : t # s => notes'[t] = notes[t]
  BY NoteWritten
<1>3. (\A f \in Exporters : f # e => pending'[f] = pending[f]) /\ pending'[e] = pending[e] \ {s}
  BY <1>1 DEF TypeOK
<1>4. TypeOK'
  BY <1>1, <1>2 DEF TypeOK
<1>5. OneExporter'
  BY <1>1 DEF OneExporter
<1>6. \A t \in Sessions : Shown(notes[t]) \subseteq Shown(notes'[t]) /\ (notes[t] # NoNote => notes'[t] # NoNote)
  BY <1>2 DEF Shown
<1>7. NotesTrue'
  <2>1. Of(s, read[e]) \subseteq Of(s, records)
    BY DEF TypeOK, Of
  <2>2. ASSUME NEW t \in Sessions PROVE Shown(notes'[t]) \subseteq Of(t, records)
    BY <1>2, <2>1 DEF NotesTrue, Shown
  <2> QED
    BY <1>1, <2>2 DEF NotesTrue, Of, Shown
<1>8. LinksExist'
  BY <1>1, <1>6 DEF LinksExist, TypeOK
<1>9. ExportedKept'
  <2>1. \A r \in exported : SessionOf[r] \in Sessions
    BY SessionAssumption DEF TypeOK
  <2> QED
    BY <1>1, <1>6, <2>1 DEF ExportedKept, Shown
<1>10. ExportCovered'
  <2>1. ASSUME NEW f \in Exporters PROVE \A r \in owed'[f] : Within(r, scope'[f])
    BY <1>1 DEF ExportCovered
  <2>2. /\ owed[e] \subseteq read[e] /\ pending[e] \subseteq SessionsOf(read[e])
        /\ \A t \in pending[e] : Shown(notes[t]) \subseteq Of(t, read[e])
        /\ \A t \in SessionsOf(read[e]) \ pending[e] :
             notes[t] # NoNote /\ Of(t, owed[e]) \subseteq Shown(notes[t])
    BY <1>1 DEF ExportCovered
  <2>3. SessionsOf(read[e]) \subseteq Sessions
    BY SessionAssumption DEF SessionsOf, TypeOK
  <2>4. \A t \in pending'[e] : Shown(notes'[t]) \subseteq Of(t, read[e])
    BY <1>2, <1>3, <2>2, <2>3 DEF Shown
  <2>5. ASSUME NEW t \in SessionsOf(read[e]) \ pending'[e]
        PROVE  notes'[t] # NoNote /\ Of(t, owed[e]) \subseteq Shown(notes'[t])
    <3>1. CASE t = s
      BY <1>2, <2>2, <3>1 DEF Of
    <3>2. CASE t # s
      BY <1>2, <1>3, <2>2, <2>3, <2>5, <3>2 DEF Shown
    <3> QED
      BY <3>1, <3>2
  <2>6. ASSUME NEW f \in Exporters, pc'[f] = "notes" PROVE f = e
    BY <1>1, <2>6, WriterAlone
  <2>7. /\ owed'[e] \subseteq read'[e] /\ pending'[e] \subseteq SessionsOf(read'[e])
        /\ \A t \in pending'[e] : Shown(notes'[t]) \subseteq Of(t, read'[e])
        /\ \A t \in SessionsOf(read'[e]) \ pending'[e] :
             notes'[t] # NoNote /\ Of(t, owed'[e]) \subseteq Shown(notes'[t])
    BY <1>1, <1>3, <2>2, <2>4, <2>5
  <2> QED
    BY <2>1, <2>6, <2>7 DEF ExportCovered, Of, Shown, SessionsOf, Within
<1> QED
  BY <1>4, <1>5, <1>7, <1>8, <1>9, <1>10

LEMMA WriteIndexInductive == ASSUME IInv, NEW e \in Exporters, WriteIndex(e) PROVE IInv'
<1> USE DEF IInv
<1>1. /\ pc[e] = "notes" /\ pending[e] = {} /\ index' = SessionsOf(read[e])
      /\ exported' = exported \union owed[e] /\ Leave(e)
      /\ UNCHANGED <<records, notes, scope, exports, faults>>
  BY DEF WriteIndex, NotesWritten, bounds
<1>2. /\ pc' \in [Exporters -> {"idle", "lock", "read", "notes"}] /\ lock' \in SUBSET Exporters
      /\ \A f \in Exporters : f # e => /\ pc'[f] = pc[f] /\ read'[f] = read[f]
                                       /\ pending'[f] = pending[f] /\ owed'[f] = owed[f]
      /\ pc'[e] = "idle" /\ read'[e] = {} /\ pending'[e] = {} /\ owed'[e] = {}
      /\ read' \in [Exporters -> SUBSET records] /\ owed' \in [Exporters -> SUBSET records]
      /\ pending' \in [Exporters -> SUBSET Sessions]
      /\ OneExporter'
  BY <1>1, Leaving
<1>3. SessionsOf(read[e]) \subseteq Sessions
  BY SessionAssumption DEF SessionsOf, TypeOK
<1>4. TypeOK'
  BY <1>1, <1>2, <1>3 DEF TypeOK
<1>5. NotesTrue'
  BY <1>1 DEF NotesTrue, Of, Shown
<1>6. /\ owed[e] \subseteq read[e]
      /\ \A t \in SessionsOf(read[e]) : notes[t] # NoNote /\ Of(t, owed[e]) \subseteq Shown(notes[t])
  BY <1>1 DEF ExportCovered
<1>7. LinksExist'
  BY <1>1, <1>6 DEF LinksExist
<1>8. ExportedKept'
  <2>1. \A r \in owed[e] : SessionOf[r] \in SessionsOf(read[e]) /\ r \in Of(SessionOf[r], owed[e])
    BY <1>6 DEF SessionsOf, Of
  <2> QED
    BY <1>1, <1>6, <2>1 DEF ExportedKept, Shown
<1>9. ExportCovered'
  BY <1>1, <1>2 DEF ExportCovered, Of, Shown, SessionsOf, Within
<1> QED
  BY <1>2, <1>4, <1>5, <1>7, <1>8, <1>9

LEMMA StopInductive == ASSUME IInv, NEW e \in Exporters, Stop(e) PROVE IInv'
<1> USE DEF IInv
<1>1. /\ Leave(e) /\ faults' = faults + 1
      /\ UNCHANGED <<records, notes, index, scope, exported, exports>>
  BY DEF Stop, vault
<1>2. /\ pc' \in [Exporters -> {"idle", "lock", "read", "notes"}] /\ lock' \in SUBSET Exporters
      /\ \A f \in Exporters : f # e => /\ pc'[f] = pc[f] /\ read'[f] = read[f]
                                       /\ pending'[f] = pending[f] /\ owed'[f] = owed[f]
      /\ pc'[e] = "idle" /\ read'[e] = {} /\ pending'[e] = {} /\ owed'[e] = {}
      /\ read' \in [Exporters -> SUBSET records] /\ owed' \in [Exporters -> SUBSET records]
      /\ pending' \in [Exporters -> SUBSET Sessions]
      /\ OneExporter'
  BY <1>1, Leaving
<1>3. TypeOK'
  BY <1>1, <1>2 DEF TypeOK
<1>4. NotesTrue' /\ LinksExist' /\ ExportedKept'
  BY <1>1 DEF NotesTrue, LinksExist, ExportedKept, Of, Shown
<1>5. ExportCovered'
  BY <1>1, <1>2 DEF ExportCovered, Of, Shown, SessionsOf, Within
<1> QED
  BY <1>2, <1>3, <1>4, <1>5

LEMMA ExportInductive == IInv /\ [Next]_vars => IInv'
<1> SUFFICES ASSUME IInv, [Next]_vars PROVE IInv'
  OBVIOUS
<1>1. CASE \E r \in Records : Ingest(r)
  BY <1>1, IngestInductive
<1>2. ASSUME NEW e \in Exporters, Export(e) PROVE IInv'
  <2>1. CASE \E w \in Workspaces \union {Everything} : Call(e, w)
    BY <2>1, CallInductive
  <2>2. CASE Lock(e)
    BY <2>2, LockInductive
  <2>3. CASE Read(e)
    BY <2>3, ReadInductive
  <2>4. CASE \E s \in Sessions : WriteNote(e, s)
    BY <2>4, WriteNoteInductive
  <2>5. CASE WriteIndex(e)
    BY <2>5, WriteIndexInductive
  <2>6. CASE Stop(e)
    BY <2>6, StopInductive
  <2> QED
    BY <1>2, <2>1, <2>2, <2>3, <2>4, <2>5, <2>6 DEF Export
<1>3. CASE UNCHANGED vars
  <2>1. TypeOK' /\ OneExporter'
    BY <1>3 DEF IInv, vars, vault, local, bounds, TypeOK, OneExporter
  <2>2. NotesTrue' /\ ExportCovered'
    BY <1>3 DEF IInv, vars, vault, local, bounds, NotesTrue, ExportCovered, Of, Shown, SessionsOf, Within
  <2>3. LinksExist' /\ ExportedKept'
    BY <1>3 DEF IInv, vars, vault, local, bounds, LinksExist, ExportedKept, Shown
  <2> QED
    BY <2>1, <2>2, <2>3 DEF IInv
<1> QED
  BY <1>1, <1>2, <1>3 DEF Next

\* Notes, index, locks and the locals of every export agree with each other in every state,
\* however exports of different workspaces, failures and deaths interleave.
THEOREM Inductive == Spec => []IInv
<1>1. Init => IInv
  <2> SUFFICES ASSUME Init PROVE IInv
    OBVIOUS
  <2>1. TypeOK
    BY DEF Init, TypeOK
  <2>2. OneExporter /\ LinksExist /\ ExportedKept
    BY DEF Init, OneExporter, LinksExist, ExportedKept
  <2>3. NotesTrue /\ ExportCovered
    BY DEF Init, NotesTrue, ExportCovered, Shown
  <2> QED
    BY <2>1, <2>2, <2>3 DEF IInv
<1> QED
  BY <1>1, ExportInductive, PTL DEF Spec

\* Index.md comes after the notes it has links to, and no later export takes a note away.
THEOREM LinksAlwaysExist == Spec => []LinksExist
<1>1. IInv => LinksExist
  BY DEF IInv
<1> QED
  BY <1>1, Inductive, PTL

\* What export_markdown returned for is in the notes ever after.
THEOREM ExportedIsKept == Spec => []ExportedKept
<1>1. IInv => ExportedKept
  BY DEF IInv
<1> QED
  BY <1>1, Inductive, PTL

\* Under export.lock a note only ever gets rows that were read after it was last written.
THEOREM NotesOnlyGrow == Spec => NotesNeverRegress
<1> DEFINE Step == \A s \in Sessions : Shown(notes[s]) \subseteq Shown(notes'[s])
<1>1. IInv /\ [Next]_vars => [Step]_vars
  <2> SUFFICES ASSUME IInv, Next PROVE Step
    BY DEF vars
  <2>1. ASSUME NEW e \in Exporters, NEW s \in Sessions, WriteNote(e, s) PROVE Step
    BY <2>1, NoteWritten DEF Shown
  <2>2. CASE notes' = notes
    BY <2>2 DEF Shown
  <2>3. (\E r \in Records : Ingest(r)) => notes' = notes
    BY DEF Ingest, vault
  <2>4. ASSUME NEW e \in Exporters, Export(e) PROVE Step
    BY <2>1, <2>2, <2>4 DEF Export, Call, Lock, Read, WriteIndex, Stop, vault
  <2> QED
    BY <2>2, <2>3, <2>4 DEF Next
<1> QED
  BY <1>1, Inductive, PTL DEF Spec, NotesNeverRegress
=============================================================================
