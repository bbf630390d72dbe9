--------------------------- MODULE MCSnapshotStore ---------------------------
(* Instances of SnapshotStore for TLC. *)
EXTENDS SnapshotStore

CONSTANTS k1, a, b, e

\* Single records, and the whole of an earlier life in which a was sent twice.
MCBatches ==
  {{id} : id \in Foreign \union [key : Keys, print : Prints, occurrence : 0..MaxCount]}
    \union {{RecordId(k1, a, 0), RecordId(k1, a, 1), RecordId(k1, b, 0), e}}
==============================================================================
