----------------------------- MODULE MCPeerLink -----------------------------
(***************************************************************************)
(* Instances of PeerLink for two nodes.  The order of the ids is           *)
(* ann < bob; each connection is named after the two nodes, the dialling   *)
(* one first.                                                              *)
(***************************************************************************)
EXTENDS PeerLink

CONSTANTS ann, bob, annbob, annbob2, bobann, bobann2

Pair == {ann, bob}
MCRank == [n \in Nodes |-> IF n = ann THEN 1 ELSE 2]
MCDialer == [c \in Conns |-> IF c \in {annbob, annbob2} THEN ann ELSE bob]
MCAcceptor == [c \in Conns |-> IF c \in {annbob, annbob2} THEN bob ELSE ann]

SameWayDials == {bobann, bobann2}
Redials == {annbob, annbob2, bobann}
=============================================================================
