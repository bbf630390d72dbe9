------------------------------ MODULE EventLog ------------------------------
(***************************************************************************)
(* What the vault promises of its event log, without saying how: a set of  *)
(* records that only grows (the database), and a readable copy of it       *)
(* (events.jsonl) that is replaced as a whole.  The copy may lag behind    *)
(* the log, but it never shows a record the log does not hold, it never    *)
(* goes backwards, and a caller that was told its records are stored finds *)
(* them in the copy.  A program other than the vault may spoil the copy at *)
(* any moment; the promise about the copy then rests until the vault       *)
(* publishes again.                                                        *)
(***************************************************************************)
CONSTANTS Records,  \* records that may ever be stored
          Missing,  \* the copy when there is no file
          Corrupt   \* the copy when its bytes are no projection of records

VARIABLES log,      \* the records committed so far
          view,     \* what a reader of the copy sees
          acked,    \* the records of every call that returned without error
          damaged   \* an outside program wrote the copy since it was last published or checked

logVars == <<log, view, acked, damaged>>

Contents == (SUBSET Records) \union {Missing, Corrupt}

\* The records a reader finds in a copy.
Shown(contents) == IF contents \in {Missing, Corrupt} THEN {} ELSE contents

Init ==
  /\ log \in SUBSET Records
  /\ view \in Contents
  /\ acked = {}
  /\ damaged = (view # Missing)

Append(batch) ==
  /\ log' = log \union batch
  /\ UNCHANGED <<view, acked, damaged>>

Publish(rows) ==
  /\ rows \subseteq log
  /\ acked \subseteq rows
  /\ ~damaged => Shown(view) \subseteq rows
  /\ view' = rows
  /\ damaged' = FALSE
  /\ UNCHANGED <<log, acked>>

Acknowledge(batch) ==
  /\ batch \subseteq log
  /\ ~damaged => batch \subseteq Shown(view)
  /\ acked' = acked \union batch
  /\ UNCHANGED <<log, view, damaged>>

\* The caller that is answered has found the copy to be whole.
AcknowledgeChecked(batch) ==
  /\ acked \union batch \subseteq Shown(view)
  /\ Shown(view) \subseteq log
  /\ acked' = acked \union batch
  /\ damaged' = FALSE
  /\ UNCHANGED <<log, view>>

Damage ==
  /\ view' \in Contents
  /\ damaged' = TRUE
  /\ UNCHANGED <<log, acked>>

Next ==
  \/ \E batch \in SUBSET Records :
       \/ Append(batch) \/ Publish(batch)
       \/ Acknowledge(batch) \/ AcknowledgeChecked(batch)
  \/ Damage

Spec == Init /\ [][Next]_logVars
=============================================================================
