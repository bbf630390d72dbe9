---------------------------- MODULE MCProjection ----------------------------
(* Instances of Projection for TLC. *)
EXTENDS Projection, TLC

CONSTANTS r1, r2, t1, t2, t3, s1, s2, n1, n2, n3

\* Two threads share a store, the third is alone in another process.
TwoProcesses == t1 :> s1 @@ t2 :> s1 @@ t3 :> s2

\* No definition tells one record from another, nor one name from another that may be pinned
\* as well, or may not as well.
Alike ==
  Permutations(Records) \union Permutations(TempNames \ Pinnable) \union Permutations(Pinnable)
=============================================================================
