------------------------------ MODULE PeerTable ------------------------------
(***************************************************************************)
(* What the connection manager promises to the rest of the daemon, with    *)
(* no locks, no connection ids and no second map: for every remote peer at *)
(* most one link is the current one, a challenger displaces the current    *)
(* link only when the tie-breaker prefers its direction, and the death of  *)
(* a link takes away nothing but that link.                                *)
(***************************************************************************)
CONSTANTS
    Peers,      \* remote peer identities
    Outranked,  \* the peers whose id is smaller than the local one
    Links,      \* links that finished their handshake, each used once
    NoLink      \* "no current link"

Directions == {"Incoming", "Outgoing"}

VARIABLES
    conn,       \* conn[l]: whom link l leads to and who dialled it
    current,    \* current[p]: the link frames for p are sent on
    fate        \* fate[l]: what became of link l

vars == <<conn, current, fate>>

\* When two links collide both ends keep the one that the end with the larger
\* id dialled.
Wins(l) == (conn[l].direction = "Outgoing") <=> (conn[l].remote_peer_id \in Outranked)

Fates == {"new", "live", "refused", "ended", "gone"}

TypeOK ==
    /\ conn \in [Links -> [remote_peer_id : Peers, direction : Directions]]
    /\ current \in [Peers -> Links \cup {NoLink}]
    /\ fate \in [Links -> Fates]

Init ==
    /\ conn \in [Links -> [remote_peer_id : Peers, direction : Directions]]
    /\ current = [p \in Peers |-> NoLink]
    /\ fate = [l \in Links |-> "new"]

\* Link l becomes the current one of its peer, displacing any other.
Admit(l) ==
    LET p == conn[l].remote_peer_id IN
    /\ fate[l] = "new"
    /\ current[p] = NoLink \/ Wins(l)
    /\ current' = [current EXCEPT ![p] = l]
    /\ fate' = [fate EXCEPT ![l] = "live"]
    /\ UNCHANGED conn

\* Link l loses the tie against the current link of its peer.
Refuse(l) ==
    /\ fate[l] = "new"
    /\ current[conn[l].remote_peer_id] # NoLink
    /\ ~Wins(l)
    /\ fate' = [fate EXCEPT ![l] = "refused"]
    /\ UNCHANGED <<conn, current>>

\* The link's byte stream ends.
End(l) ==
    /\ fate[l] = "live"
    /\ fate' = [fate EXCEPT ![l] = "ended"]
    /\ UNCHANGED <<conn, current>>

\* The ended link is forgotten; a link that took its place stays.
Leave(l) ==
    /\ fate[l] = "ended"
    /\ current' = [p \in Peers |-> IF current[p] = l THEN NoLink ELSE current[p]]
    /\ fate' = [fate EXCEPT ![l] = "gone"]
    /\ UNCHANGED conn

Next == \E l \in Links : Admit(l) \/ Refuse(l) \/ End(l) \/ Leave(l)

Spec == Init /\ [][Next]_vars
=============================================================================
