------------------------------ MODULE MCShares ------------------------------
(***************************************************************************)
(* Shares with two servers, a file in the shared directory and one outside *)
(* of it, both of the same name, and contents of up to two blocks.         *)
(***************************************************************************)
EXTENDS Shares, TLC

CONSTANTS in, out, report, a, b, s1, s2

MCContents == {<<>>, <<a>>, <<a, b>>}
\* s1 has an empty and a long file, s2 the long one as well.
MCDisks == {(s1 :> (in :> <<>> @@ out :> <<a, b>>)) @@ (s2 :> (in :> <<a, b>> @@ out :> NoFile))}
MCNameOf == [p \in Paths |-> report]
=============================================================================
