------------------------------ MODULE MCControl ------------------------------
(***************************************************************************)
(* Instances of Control: the users of two commands, one or two peers and   *)
(* a spare address.                                                        *)
(***************************************************************************)
EXTENDS Control, TLC

PeerSymmetry == Permutations(Peers) \cup Permutations(Addrs) \cup Permutations(Clients)
=============================================================================
