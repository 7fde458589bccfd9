------------------------ MODULE MCConnectionManager ------------------------
(***************************************************************************)
(* A small instance of ConnectionManager: one peer on each side of the     *)
(* tie-break order, and a second link that collides with the first or      *)
(* follows it while the first is still being cleaned up.                   *)
(***************************************************************************)
EXTENDS ConnectionManager

CONSTANTS low, high

MCPeers == {low, high}
MCOutranked == {low}
=============================================================================
