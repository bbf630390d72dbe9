----------------------------- MODULE MCProvider -----------------------------
(* Instances of Provider for TLC. *)
EXTENDS Provider

CONSTANTS u1, u2, r, e, s1, s2
=============================================================================
