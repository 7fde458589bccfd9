----------------------------- MODULE MCLifecycle -----------------------------
(***************************************************************************)
(* An instance of Lifecycle: three starts, one of them on a port of its    *)
(* own and one by a restart, whose stop is s2.                             *)
(***************************************************************************)
EXTENDS Lifecycle

CONSTANTS d1, d2, d3, s1, s2

OneOnOwnPort == [d \in Daemons |-> IF d = d2 THEN 9001 ELSE 9000]
LastByRestart == [d \in Daemons |-> IF d = d3 THEN s2 ELSE None]
=============================================================================
