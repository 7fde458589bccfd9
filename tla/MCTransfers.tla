----------------------------- MODULE MCTransfers -----------------------------
(***************************************************************************)
(* Instances of Transfers with two servers of one link each, or with one   *)
(* server and two links, the second a reconnection or a duplicate dial.    *)
(***************************************************************************)
EXTENDS Transfers, TLC

CONSTANTS s1, s2, l1, l2

MCServerOf == [l \in Links |-> IF l = l2 /\ s2 \in Servers THEN s2 ELSE s1]

ClientSymmetry == Permutations(Clients)
=============================================================================
