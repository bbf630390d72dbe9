------------------------------ MODULE MCExport ------------------------------
(* Instances of Export for TLC. *)
EXTENDS Export, TLC

CONSTANTS r1, r2, r3, s1, s2, w1, w2

\* Two records of one session, one of a session in another workspace.
MCSessionOf == r1 :> s1 @@ r2 :> s1 @@ r3 :> s2
MCWorkspaceOf == s1 :> w1 @@ s2 :> w2
=============================================================================
