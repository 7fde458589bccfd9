-------------------------- MODULE ConnectionManager --------------------------
(***************************************************************************)
(* src/connection_manager.rs at the granularity of its two mutexes.        *)
(*                                                                         *)
(* Every link that completed a handshake is owned by one thread at a time: *)
(* the registering thread runs insert_connection, then the reader thread   *)
(* runs until the byte stream ends and calls remove(conn_id).  Any thread  *)
(* of the daemon may call send meanwhile.  A critical section that takes   *)
(* one lock and blocks on nothing inside is one action, guarded by that    *)
(* lock being free; insert_connection and remove nest the index lock in    *)
(* the entries lock, so for them each acquisition is a step of its own.    *)
(***************************************************************************)
EXTENDS Naturals

CONSTANTS
    Peers,      \* remote peer identities (never the local one)
    Outranked,  \* the peers p with my_id.to_bytes() > p.to_bytes()
    Links,      \* connections past their handshake, each registered once
    Callers,    \* threads that call send
    NoLink      \* not a link: the free lock, the absent link

ASSUME OutrankedAssumption == Outranked \subseteq Peers
ASSUME NoLinkAssumption == NoLink \notin Links

Directions == {"Incoming", "Outgoing"}

VARIABLES
    conn,         \* conn[l]: remote_peer_id and direction of link l, fixed
    entries,      \* conn id -> link, guarded by entriesLock
    peerIndex,    \* peer -> conn id, guarded by indexLock
    nextConnId,   \* the atomic counter behind reserve_id
    entriesLock,  \* the link whose thread holds the entries mutex, or NoLink
    indexLock,    \* the same for the peer_index mutex
    pc,           \* pc[l]: where the thread that owns l is
    connId,       \* connId[l]: the id reserved for l, 0 before
    broken,       \* links whose writer thread failed a write and exited
    call          \* call[c]: the progress of caller c's send

managerVars == <<entries, peerIndex, nextConnId>>
lockVars == <<entriesLock, indexLock>>
linkVars == <<conn, pc, connId, broken>>
vars == <<managerVars, lockVars, linkVars, call>>

-----------------------------------------------------------------------------
\* HashMap::insert and HashMap::remove.
Put(map, k, v) == [x \in DOMAIN map \cup {k} |-> IF x = k THEN v ELSE map[x]]
Drop(map, k) == [x \in DOMAIN map \ {k} |-> map[x]]

\* is_connected: only the index is asked.
IsConnected(p) == p \in DOMAIN peerIndex

\* Bug variant: the tie-break forgets who dialled.
KeepNewUndirected(l) == conn[l].remote_peer_id \in Outranked

\* keep_new: of two colliding links, keep the one the larger id dialled.
KeepNew(l) ==
    (conn[l].direction = "Outgoing") <=> (conn[l].remote_peer_id \in Outranked)

Locations == {"new", "reserved", "locking", "inserting", "refused", "reading",
              "ended", "removing", "unindexing", "gone"}

Idle == [at |-> "idle"]

Init ==
    /\ conn \in [Links -> [remote_peer_id : Peers, direction : Directions]]
    /\ entries = [id \in {} |-> NoLink]
    /\ peerIndex = [p \in {} |-> 0]
    /\ nextConnId = 1
    /\ entriesLock = NoLink
    /\ indexLock = NoLink
    /\ pc = [l \in Links |-> "new"]
    /\ connId = [l \in Links |-> 0]
    /\ broken = {}
    /\ call = [c \in Callers |-> Idle]

-----------------------------------------------------------------------------
(* insert_connection, run by the thread that did the handshake.            *)

\* Bug variant: the counter is read and not advanced.
ReserveSameId(l) ==
    /\ pc[l] = "new"
    /\ connId' = [connId EXCEPT ![l] = nextConnId]
    /\ pc' = [pc EXCEPT ![l] = "reserved"]
    /\ UNCHANGED <<conn, managerVars, lockVars, broken, call>>

\* reserve_id: the fetch_add precedes both locks.
Reserve(l) ==
    /\ pc[l] = "new"
    /\ connId' = [connId EXCEPT ![l] = nextConnId]
    /\ nextConnId' = nextConnId + 1
    /\ pc' = [pc EXCEPT ![l] = "reserved"]
    /\ UNCHANGED <<conn, entries, peerIndex, lockVars, broken, call>>

InsertLockEntries(l) ==
    /\ pc[l] = "reserved"
    /\ entriesLock = NoLink
    /\ entriesLock' = l
    /\ pc' = [pc EXCEPT ![l] = "locking"]
    /\ UNCHANGED <<managerVars, indexLock, conn, connId, broken, call>>

InsertLockIndex(l) ==
    /\ pc[l] = "locking"
    /\ indexLock = NoLink
    /\ indexLock' = l
    /\ pc' = [pc EXCEPT ![l] = "inserting"]
    /\ UNCHANGED <<managerVars, entriesLock, conn, connId, broken, call>>

\* The indexed link of the same peer, when its entry is still there.
Collides(l) ==
    /\ IsConnected(conn[l].remote_peer_id)
    /\ peerIndex[conn[l].remote_peer_id] \in DOMAIN entries

\* Bug variant: the evicted connection keeps its entry.
EntriesWithEvicted(l) == entries

\* The entries left after a challenger that wins has evicted the old one.
EntriesForInsert(l) ==
    IF Collides(l)
    THEN Drop(entries, peerIndex[conn[l].remote_peer_id])
    ELSE entries

\* Both locks held: keep the link, evicting the one it beats, and let the
\* reader thread start ...
InsertAdmit(l) ==
    /\ pc[l] = "inserting"
    /\ Collides(l) => KeepNew(l)
    /\ entries' = Put(EntriesForInsert(l), connId[l], l)
    /\ peerIndex' = Put(peerIndex, conn[l].remote_peer_id, connId[l])
    /\ pc' = [pc EXCEPT ![l] = "reading"]
    /\ entriesLock' = NoLink
    /\ indexLock' = NoLink
    /\ UNCHANGED <<nextConnId, conn, connId, broken, call>>

\* Bug variant: the refusal returns with the entries mutex still locked.
InsertRefuseHoldsLock(l) ==
    /\ pc[l] = "inserting"
    /\ Collides(l)
    /\ ~KeepNew(l)
    /\ pc' = [pc EXCEPT ![l] = "refused"]
    /\ indexLock' = NoLink
    /\ UNCHANGED <<managerVars, entriesLock, conn, connId, broken, call>>

\* ... or give it up with AlreadyExists; dropping it closes its socket.
InsertRefuse(l) ==
    /\ pc[l] = "inserting"
    /\ Collides(l)
    /\ ~KeepNew(l)
    /\ pc' = [pc EXCEPT ![l] = "refused"]
    /\ entriesLock' = NoLink
    /\ indexLock' = NoLink
    /\ UNCHANGED <<managerVars, conn, connId, broken, call>>

-----------------------------------------------------------------------------
(* The reader thread: its loop ends, then on_disconnect calls remove.      *)

\* End of stream, a read error, the read timeout or a protocol violation.
ReaderEnds(l) ==
    /\ pc[l] = "reading"
    /\ pc' = [pc EXCEPT ![l] = "ended"]
    /\ UNCHANGED <<managerVars, lockVars, conn, connId, broken, call>>

\* The entry is gone already (a newer link evicted it): nothing to do.
RemoveAbsent(l) ==
    /\ pc[l] = "ended"
    /\ entriesLock = NoLink
    /\ connId[l] \notin DOMAIN entries
    /\ pc' = [pc EXCEPT ![l] = "gone"]
    /\ UNCHANGED <<managerVars, lockVars, conn, connId, broken, call>>

\* Bug variant: cleanup is keyed by peer, whatever connection it now has.
RemoveByPeer(l) ==
    LET p == conn[l].remote_peer_id IN
    /\ pc[l] = "ended"
    /\ entriesLock = NoLink
    /\ IsConnected(p)
    /\ entries' = Drop(entries, peerIndex[p])
    /\ peerIndex' = Drop(peerIndex, p)
    /\ pc' = [pc EXCEPT ![l] = "gone"]
    /\ UNCHANGED <<nextConnId, lockVars, conn, connId, broken, call>>

\* Bug variant: the entries mutex is released before the index is updated.
RemoveEntryUnlocked(l) ==
    /\ pc[l] = "ended"
    /\ entriesLock = NoLink
    /\ connId[l] \in DOMAIN entries
    /\ entries' = Drop(entries, connId[l])
    /\ pc' = [pc EXCEPT ![l] = "removing"]
    /\ UNCHANGED <<peerIndex, nextConnId, lockVars, conn, connId, broken, call>>

\* The entry is taken out under the entries lock, which is kept.
RemoveEntry(l) ==
    /\ pc[l] = "ended"
    /\ entriesLock = NoLink
    /\ connId[l] \in DOMAIN entries
    /\ entriesLock' = l
    /\ entries' = Drop(entries, connId[l])
    /\ pc' = [pc EXCEPT ![l] = "removing"]
    /\ UNCHANGED <<peerIndex, nextConnId, indexLock, conn, connId, broken, call>>

RemoveLockIndex(l) ==
    /\ pc[l] = "removing"
    /\ indexLock = NoLink
    /\ indexLock' = l
    /\ pc' = [pc EXCEPT ![l] = "unindexing"]
    /\ UNCHANGED <<managerVars, entriesLock, conn, connId, broken, call>>

\* Bug variant: the entries mutex stays locked after the cleanup.
UnindexHoldsLock(l) ==
    LET p == conn[l].remote_peer_id IN
    /\ pc[l] = "unindexing"
    /\ peerIndex' = IF IsConnected(p) /\ peerIndex[p] = connId[l]
                    THEN Drop(peerIndex, p)
                    ELSE peerIndex
    /\ pc' = [pc EXCEPT ![l] = "gone"]
    /\ indexLock' = NoLink
    /\ UNCHANGED <<entries, nextConnId, entriesLock, conn, connId, broken, call>>

\* The index loses the peer only if it still names this very connection.
Unindex(l) ==
    LET p == conn[l].remote_peer_id IN
    /\ pc[l] = "unindexing"
    /\ peerIndex' = IF IsConnected(p) /\ peerIndex[p] = connId[l]
                    THEN Drop(peerIndex, p)
                    ELSE peerIndex
    /\ pc' = [pc EXCEPT ![l] = "gone"]
    /\ entriesLock' = NoLink
    /\ indexLock' = NoLink
    /\ UNCHANGED <<entries, nextConnId, conn, connId, broken, call>>

-----------------------------------------------------------------------------
(* send: two critical sections with a gap between them.                    *)

\* The index is read and unlocked again: the peer is unknown, or an id is
\* carried into the gap.
SendLookup(c, p) ==
    /\ call[c].at = "idle"
    /\ indexLock = NoLink
    /\ call' = [call EXCEPT ![c] =
                  IF IsConnected(p)
                  THEN [at |-> "looked", peer |-> p, id |-> peerIndex[p]]
                  ELSE Idle]
    /\ UNCHANGED <<managerVars, lockVars, linkVars>>

\* The entry of that id is still there: its channel is cloned.
SendClone(c) ==
    /\ call[c].at = "looked"
    /\ entriesLock = NoLink
    /\ call[c].id \in DOMAIN entries
    /\ call' = [call EXCEPT ![c] =
                  [at |-> "cloned", peer |-> call[c].peer,
                   link |-> entries[call[c].id]]]
    /\ UNCHANGED <<managerVars, lockVars, linkVars>>

\* It is not: NotConnected.
SendMiss(c) ==
    /\ call[c].at = "looked"
    /\ entriesLock = NoLink
    /\ call[c].id \notin DOMAIN entries
    /\ call' = [call EXCEPT ![c] = Idle]
    /\ UNCHANGED <<managerVars, lockVars, linkVars>>

\* The frame enters the channel and is written, unless that write fails:
\* the writer thread then shuts the socket down and exits ...
SendPush(c) ==
    /\ call[c].at = "cloned"
    /\ call[c].link \notin broken
    /\ broken' \in {broken, broken \cup {call[c].link}}
    /\ call' = [call EXCEPT ![c] = Idle]
    /\ UNCHANGED <<managerVars, lockVars, conn, pc, connId>>

\* ... and from then on the channel answers BrokenPipe.
SendBrokenPipe(c) ==
    /\ call[c].at = "cloned"
    /\ call[c].link \in broken
    /\ call' = [call EXCEPT ![c] = Idle]
    /\ UNCHANGED <<managerVars, lockVars, linkVars>>

-----------------------------------------------------------------------------
Insert(l) == \/ Reserve(l)
             \/ InsertLockEntries(l)
             \/ InsertLockIndex(l)
             \/ InsertAdmit(l)
             \/ InsertRefuse(l)

Remove(l) == \/ RemoveAbsent(l)
             \/ RemoveEntry(l)
             \/ RemoveLockIndex(l)
             \/ Unindex(l)

Send(c) == \/ SendClone(c)
           \/ SendMiss(c)
           \/ SendPush(c)
           \/ SendBrokenPipe(c)

Next == \/ \E l \in Links : Insert(l) \/ ReaderEnds(l) \/ Remove(l)
        \/ \E c \in Callers : Send(c) \/ \E p \in Peers : SendLookup(c, p)

\* A runnable thread runs.  No lock is held for ever and each link takes each
\* lock a bounded number of times, so weak fairness lets every waiter in.  A
\* reader must stop only when its own writer has shut the socket down.
Fairness ==
    /\ \A l \in Links : /\ WF_vars(Insert(l))
                        /\ WF_vars(Remove(l))
                        /\ WF_vars(l \in broken /\ ReaderEnds(l))
    /\ \A c \in Callers : WF_vars(Send(c))

Spec == Init /\ [][Next]_vars
FairSpec == Spec /\ Fairness
-----------------------------------------------------------------------------
(* Properties.                                                             *)

Ids == Nat \ {0}

Calls ==
    [at : {"idle"}]
    \cup [at : {"looked"}, peer : Peers, id : Ids]
    \cup [at : {"cloned"}, peer : Peers, link : Links]

\* The type invariant: ids are positive, both maps hold values of their
\* declared types, a lock is held by one link's thread or by nobody.
TypeOK ==
    /\ conn \in [Links -> [remote_peer_id : Peers, direction : Directions]]
    /\ DOMAIN entries \subseteq Ids
    /\ \A id \in DOMAIN entries : entries[id] \in Links
    /\ DOMAIN peerIndex \subseteq Peers
    /\ \A p \in DOMAIN peerIndex : peerIndex[p] \in Ids
    /\ nextConnId \in Ids
    /\ entriesLock \in Links \cup {NoLink}
    /\ indexLock \in Links \cup {NoLink}
    /\ pc \in [Links -> Locations]
    /\ connId \in [Links -> Nat]
    /\ broken \subseteq Links
    /\ call \in [Callers -> Calls]

\* The two maps of ConnectionManager, kept under two mutexes, are inverse to
\* each other whenever the entries mutex is free: every indexed id has an
\* entry of that very peer and every entry is the indexed one of its peer.
\* So a peer has at most one entry and no entry is out of send's reach.
MapsAgree ==
    entriesLock = NoLink =>
        /\ \A p \in DOMAIN peerIndex :
              /\ peerIndex[p] \in DOMAIN entries
              /\ conn[entries[peerIndex[p]]].remote_peer_id = p
        /\ \A id \in DOMAIN entries :
              LET p == conn[entries[id]].remote_peer_id
              IN  IsConnected(p) /\ peerIndex[p] = id

\* The id send carries through the gap between its two critical sections may
\* be stale, yet the channel it then clones is a channel to the peer the
\* caller named: an id never comes to mean another peer.
SendReachesAddressee ==
    \A c \in Callers :
        call[c].at = "cloned" => conn[call[c].link].remote_peer_id = call[c].peer

\* The inductive invariant behind the safety properties.  A lock is held by
\* the thread whose location says so; ids are handed out once; an entry sits
\* under the id of a link whose reader runs or has just ended; an indexed id
\* belongs to a link of that peer, which has its entry or is the one being
\* removed; an entry is indexed; an id in send's gap is an id of its peer.
LocksFollowThreads ==
    \A l \in Links :
        /\ entriesLock = l <=>
               pc[l] \in {"locking", "inserting", "removing", "unindexing"}
        /\ indexLock = l <=> pc[l] \in {"inserting", "unindexing"}

IdsAreUnique ==
    /\ \A l \in Links : /\ connId[l] < nextConnId
                        /\ pc[l] = "new" <=> connId[l] = 0
    /\ \A l, m \in Links : connId[l] = connId[m] /\ connId[l] # 0 => l = m

EntriesHaveOwners ==
    \A id \in DOMAIN entries :
        /\ connId[entries[id]] = id
        /\ pc[entries[id]] \in {"reading", "ended"}

IndexedHasOwner ==
    \A p \in DOMAIN peerIndex : \E l \in Links :
        /\ connId[l] = peerIndex[p]
        /\ conn[l].remote_peer_id = p
        /\ \/ pc[l] \in {"removing", "unindexing"}
           \/ peerIndex[p] \in DOMAIN entries /\ entries[peerIndex[p]] = l

EntriesAreIndexed ==
    \A id \in DOMAIN entries :
        LET p == conn[entries[id]].remote_peer_id
        IN  p \in DOMAIN peerIndex /\ peerIndex[p] = id

LookedUpHasOwner ==
    \A c \in Callers : call[c].at = "looked" =>
        \E l \in Links : /\ connId[l] = call[c].id
                         /\ conn[l].remote_peer_id = call[c].peer

IndInv ==
    /\ TypeOK
    /\ LocksFollowThreads
    /\ IdsAreUnique
    /\ EntriesHaveOwners
    /\ IndexedHasOwner
    /\ EntriesAreIndexed
    /\ LookedUpHasOwner
    /\ SendReachesAddressee

\* A link whose reader is running has its entry unless a link to the same
\* peer, admitted later and preferred by the tie-breaker, evicted it.
OnlyEvictionUntracks ==
    \A l \in Links :
        (pc[l] = "reading" /\ connId[l] \notin DOMAIN entries) =>
            \E m \in Links \ {l} :
                /\ conn[m].remote_peer_id = conn[l].remote_peer_id
                /\ pc[m] \in {"reading", "ended", "removing", "unindexing", "gone"}
                /\ KeepNew(m)

\* The stale-cleanup race: a peer leaves the index only in the cleanup of
\* the very connection the index names, never in that of an older one.
StaleCleanup ==
    [][\A p \in DOMAIN peerIndex : p \notin DOMAIN peerIndex' =>
          \E l \in Links : /\ connId[l] = peerIndex[p]
                           /\ conn[l].remote_peer_id = p
                           /\ pc[l] # "reading" /\ pc'[l] = "gone"]_vars

\* A send that found the peer indexed and then missed its entry ran into the
\* removal or the eviction of that connection: without one in the gap, a
\* connected peer is never reported as not connected.
MissMeansReplacedOrGone ==
    [][\A c \in Callers :
          (call[c].at = "looked" /\ call'[c].at = "idle") =>
              \/ ~IsConnected(call[c].peer)
              \/ peerIndex[call[c].peer] # call[c].id]_vars

\* The cleanup of a link that ended completes: the nested locks never leave
\* every thread waiting, and no lock is left locked.
EndedLinkIsForgotten == \A l \in Links : pc[l] = "ended" ~> pc[l] = "gone"

\* Every send returns to its caller.
SendReturns == \A c \in Callers : call[c].at # "idle" ~> call[c].at = "idle"

-----------------------------------------------------------------------------
(* The locks and the ids implement the plain table of current links.       *)

CurrentLink ==
    [p \in Peers |->
        IF IsConnected(p)
        THEN CHOOSE l \in Links : connId[l] = peerIndex[p]
        ELSE NoLink]

Fate ==
    [l \in Links |->
        CASE pc[l] \in {"new", "reserved", "locking", "inserting"} -> "new"
          [] pc[l] = "reading" -> "live"
          [] pc[l] \in {"ended", "removing", "unindexing"} -> "ended"
          [] OTHER -> pc[l]]

Table == INSTANCE PeerTable WITH current <- CurrentLink, fate <- Fate

\* Seen through the peer index, the manager is the table of PeerTable: one
\* current link per peer, the tie-breaker decides, cleanup is by identity.
ImplementsPeerTable == Table!Spec
=============================================================================
