------------------------------ MODULE MCSearch ------------------------------
(* Instances of Search for TLC. *)
EXTENDS Search, TLC

CONSTANTS r1, r2, r3, s1, s2, w1, w2

\* Per character: bytes in UTF-8 and bytes in JSON.  An escape takes more of the second, a
\* character of several bytes as many.
Text == r1 :> <<<<1, 1>>, <<1, 2>>, <<1, 1>>>> @@ r2 :> <<<<3, 3>>, <<2, 2>>, <<1, 6>>>> @@ r3 :> <<>>

Sum(r, n, k) == FoldLeft(LAMBDA sum, c : sum + c[k], 0, SubSeq(Text[r], 1, n))

MCChars == [r \in Records |-> Len(Text[r])]
MCBytes == [r \in Records |-> [n \in 0..Len(Text[r]) |-> Sum(r, n, 1)]]

\* The store's hit has a workspace and metadata, the plugin's a mark of trust.
MCSize == [p \in Packers |-> [r \in Records |-> [n \in 0..Len(Text[r]) |->
             Sum(r, n, 2) + IF p = "store" THEN 4 ELSE 3]]]
MCEnvelope == "store" :> 2 @@ "plugin" :> 5
MCSessionOf == r1 :> s1 @@ r2 :> s2 @@ r3 :> s1
MCWorkspaceOf == r1 :> w1 @@ r2 :> w1 @@ r3 :> w2
=============================================================================
