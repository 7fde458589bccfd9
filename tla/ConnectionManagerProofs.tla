----------------------- MODULE ConnectionManagerProofs -----------------------
(***************************************************************************)
(* The safety of ConnectionManager for any peers, links and callers.       *)
(* IndInv is inductive; MapsAgree and SendReachesAddressee follow from it, *)
(* and so do StaleCleanup and MissMeansReplacedOrGone, step by step, and   *)
(* OnlyEvictionUntracks, which is inductive relative to it.                *)
(***************************************************************************)
EXTENDS ConnectionManager, TLAPS

\* Initially nothing is registered, so the invariant holds.
LEMMA InitInv == Init => IndInv
<1> SUFFICES ASSUME Init PROVE IndInv
    OBVIOUS
<1> USE NoLinkAssumption DEF Init
<1>1. TypeOK
    BY DEF TypeOK, Ids, Calls, Locations, Idle
<1>2. LocksFollowThreads
    BY DEF LocksFollowThreads
<1>3. IdsAreUnique
    BY DEF IdsAreUnique
<1>4. EntriesHaveOwners /\ IndexedHasOwner /\ EntriesAreIndexed
    BY DEF EntriesHaveOwners, IndexedHasOwner, EntriesAreIndexed
<1>5. LookedUpHasOwner /\ SendReachesAddressee
    BY DEF LookedUpHasOwner, SendReachesAddressee, Idle
<1> QED
    BY <1>1, <1>2, <1>3, <1>4, <1>5 DEF IndInv

\* Steps that only move a thread or a lock preserve the invariant.
LEMMA QuietStep ==
    ASSUME IndInv, NEW l \in Links,
           \/ Reserve(l) \/ InsertLockEntries(l) \/ InsertLockIndex(l)
           \/ InsertRefuse(l) \/ ReaderEnds(l) \/ RemoveAbsent(l)
           \/ RemoveLockIndex(l)
    PROVE  IndInv'
<1> USE NoLinkAssumption
        DEF IndInv, managerVars, lockVars
<1> DEFINE Step == \/ Reserve(l) \/ InsertLockEntries(l) \/ InsertLockIndex(l)
                   \/ InsertRefuse(l) \/ ReaderEnds(l) \/ RemoveAbsent(l)
                   \/ RemoveLockIndex(l)
<1>0. /\ UNCHANGED <<conn, entries, peerIndex, call>>
      /\ \A m \in Links \ {l} : pc'[m] = pc[m] /\ connId'[m] = connId[m]
      /\ pc'[l] \in Locations
      /\ pc[l] # "new" => connId'[l] = connId[l]
      /\ pc[l] = "new" => connId'[l] = nextConnId
      /\ pc[l] \in {"reading", "ended"} =>
            pc'[l] = "ended" \/ (pc'[l] = "gone" /\ connId[l] \notin DOMAIN entries)
      /\ pc[l] \in {"removing", "unindexing"} => pc'[l] = "unindexing"
    BY DEF Reserve, InsertLockEntries, InsertLockIndex, InsertRefuse,
           ReaderEnds, RemoveAbsent, RemoveLockIndex, TypeOK, Locations
<1>1. TypeOK'
    BY <1>0 DEF TypeOK, Locations, Ids, Reserve, InsertLockEntries,
           InsertLockIndex, InsertRefuse, ReaderEnds, RemoveAbsent, RemoveLockIndex
<1>2. LocksFollowThreads'
    BY DEF LocksFollowThreads, TypeOK, Reserve, InsertLockEntries,
           InsertLockIndex, InsertRefuse, ReaderEnds, RemoveAbsent, RemoveLockIndex
<1>3. IdsAreUnique'
    BY DEF IdsAreUnique, TypeOK, Ids, Reserve, InsertLockEntries,
           InsertLockIndex, InsertRefuse, ReaderEnds, RemoveAbsent, RemoveLockIndex
<1>4. EntriesHaveOwners'
    BY <1>0 DEF EntriesHaveOwners, TypeOK
<1>5. IndexedHasOwner'
    BY <1>0 DEF IndexedHasOwner, IdsAreUnique, TypeOK, Ids
<1>6. EntriesAreIndexed'
    BY <1>0 DEF EntriesAreIndexed
<1>7. LookedUpHasOwner'
    BY <1>0 DEF LookedUpHasOwner, IdsAreUnique, TypeOK, Ids, Calls
<1>8. SendReachesAddressee'
    BY <1>0 DEF SendReachesAddressee
<1> QED
    BY <1>1, <1>2, <1>3, <1>4, <1>5, <1>6, <1>7, <1>8

\* Admitting a link: while it holds the entries lock no removal is under way,
\* so an indexed peer has its entry and the evicted entry is the indexed one.
LEMMA AdmitStep ==
    ASSUME IndInv, NEW l \in Links, InsertAdmit(l)
    PROVE  IndInv'
<1> USE NoLinkAssumption DEF IndInv, InsertAdmit
<1> DEFINE p == conn[l].remote_peer_id
           old == EntriesForInsert(l)
<1>1. /\ p \in Peers
      /\ connId[l] \in Ids
      /\ entriesLock = l
      /\ pc'[l] = "reading"
      /\ \A m \in Links \ {l} : pc'[m] = pc[m]
    BY DEF TypeOK, LocksFollowThreads, IdsAreUnique, Ids
<1>2. /\ DOMAIN entries' = DOMAIN old \cup {connId[l]}
      /\ entries'[connId[l]] = l
      /\ \A id \in DOMAIN old : id # connId[l] => entries'[id] = old[id]
    BY DEF Put, Drop
<1>3. /\ DOMAIN peerIndex' = DOMAIN peerIndex \cup {p}
      /\ peerIndex'[p] = connId[l]
      /\ \A q \in DOMAIN peerIndex : q # p => peerIndex'[q] = peerIndex[q]
    BY DEF Put, Drop
<1>4. /\ DOMAIN old \subseteq DOMAIN entries
      /\ \A id \in DOMAIN old : old[id] = entries[id]
      /\ \A id \in DOMAIN entries : id \notin DOMAIN old => conn[entries[id]].remote_peer_id = p
    <2>1. CASE Collides(l)
        <3>1. old = Drop(entries, peerIndex[p])
            BY <2>1 DEF EntriesForInsert
        <3>2. \A id \in DOMAIN entries : id # peerIndex[p] => id \in DOMAIN old
            BY <3>1 DEF Put, Drop
        <3>3. conn[entries[peerIndex[p]]].remote_peer_id = p
            BY <2>1, <1>1 DEF Collides, IsConnected, IndexedHasOwner,
               LocksFollowThreads, TypeOK
        <3> QED
            BY <3>1, <3>2, <3>3 DEF Put, Drop
    <2>2. CASE ~Collides(l)
        BY <2>2 DEF EntriesForInsert
    <2> QED
        BY <2>1, <2>2
<1>5. \A id \in DOMAIN old : id # connId[l] /\ conn[entries[id]].remote_peer_id # p
    <2> TAKE id \in DOMAIN old
    <2>1. id # connId[l]
        BY <1>1, <1>4 DEF EntriesHaveOwners, IdsAreUnique, TypeOK, Ids
    <2>2. ASSUME conn[entries[id]].remote_peer_id = p PROVE FALSE
        <3>1. p \in DOMAIN peerIndex /\ peerIndex[p] = id
            BY <2>2, <1>4 DEF EntriesAreIndexed
        <3>2. Collides(l)
            BY <3>1, <1>4 DEF Collides, IsConnected
        <3>3. DOMAIN old = DOMAIN entries \ {peerIndex[p]}
            BY <3>2 DEF Put, Drop, EntriesForInsert
        <3> QED
            BY <3>1, <3>3
    <2> QED
        BY <2>1, <2>2
<1>6. TypeOK'
    BY <1>1, <1>2, <1>3, <1>4 DEF TypeOK, Locations
<1>7. LocksFollowThreads'
    BY <1>1 DEF LocksFollowThreads, TypeOK
<1>8. IdsAreUnique'
    BY <1>1 DEF IdsAreUnique
<1>9. EntriesHaveOwners'
    BY <1>1, <1>2, <1>4, <1>5 DEF EntriesHaveOwners, TypeOK
<1>10. IndexedHasOwner'
    <2> SUFFICES ASSUME NEW q \in DOMAIN peerIndex', q # p
                 PROVE  \E m \in Links :
                           /\ connId[m] = peerIndex'[q]
                           /\ conn[m].remote_peer_id = q
                           /\ \/ pc'[m] \in {"removing", "unindexing"}
                              \/ peerIndex'[q] \in DOMAIN entries' /\ entries'[peerIndex'[q]] = m
        BY <1>2, <1>3 DEF IndexedHasOwner
    <2>1. PICK m \in Links : /\ connId[m] = peerIndex[q]
                             /\ conn[m].remote_peer_id = q
                             /\ \/ pc[m] \in {"removing", "unindexing"}
                                \/ peerIndex[q] \in DOMAIN entries /\ entries[peerIndex[q]] = m
        BY <1>3 DEF IndexedHasOwner
    <2>2. m # l
        BY <2>1
    <2> QED
        BY <2>1, <2>2, <1>1, <1>2, <1>3, <1>4, <1>5
<1>11. EntriesAreIndexed'
    BY <1>2, <1>3, <1>4, <1>5 DEF EntriesAreIndexed
<1>12. LookedUpHasOwner' /\ SendReachesAddressee'
    BY DEF LookedUpHasOwner, SendReachesAddressee
<1> QED
    BY <1>6, <1>7, <1>8, <1>9, <1>10, <1>11, <1>12

\* Taking an entry out: its owner becomes the one removal under way.
LEMMA RemoveEntryStep ==
    ASSUME IndInv, NEW l \in Links, RemoveEntry(l)
    PROVE  IndInv'
<1> USE NoLinkAssumption DEF IndInv, RemoveEntry
<1>1. /\ entriesLock' = l
      /\ pc'[l] = "removing"
      /\ \A m \in Links \ {l} : pc'[m] = pc[m]
    BY DEF TypeOK
<1>2. /\ DOMAIN entries' = DOMAIN entries \ {connId[l]}
      /\ \A id \in DOMAIN entries' : entries'[id] = entries[id] /\ entries[id] # l
    BY DEF Put, Drop, EntriesHaveOwners
<1>3. TypeOK'
    BY <1>1, <1>2 DEF TypeOK, Locations
<1>4. LocksFollowThreads' /\ IdsAreUnique'
    BY <1>1 DEF LocksFollowThreads, IdsAreUnique, TypeOK
<1>5. EntriesHaveOwners' /\ EntriesAreIndexed'
    BY <1>1, <1>2 DEF EntriesHaveOwners, EntriesAreIndexed, TypeOK
<1>6. IndexedHasOwner'
    BY <1>1, <1>2 DEF IndexedHasOwner, EntriesHaveOwners, IdsAreUnique, TypeOK, Ids
<1>7. LookedUpHasOwner' /\ SendReachesAddressee'
    BY DEF LookedUpHasOwner, SendReachesAddressee
<1> QED
    BY <1>3, <1>4, <1>5, <1>6, <1>7

\* Unindexing: the removed link's id goes, every other owner stays.
LEMMA UnindexStep ==
    ASSUME IndInv, NEW l \in Links, Unindex(l)
    PROVE  IndInv'
<1> USE NoLinkAssumption DEF IndInv, Unindex, IsConnected
<1> DEFINE p == conn[l].remote_peer_id
<1>1. /\ pc'[l] = "gone"
      /\ \A m \in Links \ {l} : pc'[m] = pc[m]
      /\ \A m \in Links \ {l} : pc[m] \notin {"removing", "unindexing"}
    BY DEF TypeOK, LocksFollowThreads
<1>2. /\ DOMAIN peerIndex' \subseteq DOMAIN peerIndex
      /\ \A q \in DOMAIN peerIndex' : peerIndex'[q] = peerIndex[q]
      /\ \A q \in DOMAIN peerIndex' : ~(q = p /\ peerIndex[q] = connId[l])
      /\ \A q \in DOMAIN peerIndex :
            q \notin DOMAIN peerIndex' => q = p /\ peerIndex[q] = connId[l]
    BY DEF Put, Drop
<1>3. TypeOK'
    BY <1>2 DEF TypeOK, Locations
<1>4. LocksFollowThreads' /\ IdsAreUnique'
    BY <1>1 DEF LocksFollowThreads, IdsAreUnique, TypeOK
<1>5. EntriesHaveOwners'
    BY <1>1 DEF EntriesHaveOwners, TypeOK
<1>6. IndexedHasOwner'
    BY <1>1, <1>2 DEF IndexedHasOwner, TypeOK
<1>7. EntriesAreIndexed'
    <2>1. \A id \in DOMAIN entries : id # connId[l]
        BY DEF EntriesHaveOwners, IdsAreUnique, TypeOK, Ids
    <2> QED
        BY <2>1, <1>2 DEF EntriesAreIndexed
<1>8. LookedUpHasOwner' /\ SendReachesAddressee'
    BY DEF LookedUpHasOwner, SendReachesAddressee
<1> QED
    BY <1>3, <1>4, <1>5, <1>6, <1>7, <1>8

\* A step of send changes nothing but the caller's progress.
LEMMA SendStep ==
    ASSUME IndInv, NEW c \in Callers,
           Send(c) \/ \E p \in Peers : SendLookup(c, p)
    PROVE  IndInv'
<1> USE DEF IndInv, managerVars, lockVars, linkVars
<1>1. /\ UNCHANGED <<managerVars, lockVars, conn, pc, connId>>
      /\ broken' \subseteq Links
      /\ \A d \in Callers \ {c} : call'[d] = call[d]
      /\ call' \in [Callers -> Calls]
    BY DEF Send, SendLookup, SendClone, SendMiss, SendPush, SendBrokenPipe,
           TypeOK, Calls, Idle, IsConnected
<1>2. TypeOK'
    BY <1>1 DEF TypeOK
<1>3. /\ LocksFollowThreads' /\ IdsAreUnique' /\ EntriesHaveOwners'
      /\ IndexedHasOwner' /\ EntriesAreIndexed'
    BY <1>1 DEF LocksFollowThreads, IdsAreUnique, EntriesHaveOwners,
                IndexedHasOwner, EntriesAreIndexed
<1>4. LookedUpHasOwner'
    BY <1>1 DEF LookedUpHasOwner, IndexedHasOwner, Send, SendLookup, SendClone,
       SendMiss, SendPush, SendBrokenPipe, IsConnected, Idle, TypeOK
<1>5. SendReachesAddressee'
    BY <1>1 DEF SendReachesAddressee, LookedUpHasOwner, EntriesHaveOwners,
       IdsAreUnique, Send, SendLookup, SendClone, SendMiss, SendPush,
       SendBrokenPipe, Idle, TypeOK, Ids
<1> QED
    BY <1>2, <1>3, <1>4, <1>5

\* Every step preserves the invariant.
LEMMA NextInv == IndInv /\ [Next]_vars => IndInv'
<1> SUFFICES ASSUME IndInv, [Next]_vars PROVE IndInv'
    OBVIOUS
<1>1. ASSUME NEW l \in Links, Insert(l) \/ ReaderEnds(l) \/ Remove(l)
      PROVE  IndInv'
    BY <1>1, QuietStep, AdmitStep, RemoveEntryStep, UnindexStep DEF Insert, Remove
<1>2. ASSUME NEW c \in Callers, Send(c) \/ \E p \in Peers : SendLookup(c, p)
      PROVE  IndInv'
    BY <1>2, SendStep
<1>3. ASSUME UNCHANGED vars PROVE IndInv'
    BY <1>3 DEF vars, managerVars, lockVars, linkVars, IndInv, TypeOK,
       LocksFollowThreads, IdsAreUnique, EntriesHaveOwners, IndexedHasOwner,
       EntriesAreIndexed, LookedUpHasOwner, SendReachesAddressee
<1> QED
    BY <1>1, <1>2, <1>3 DEF Next

\* The maps, locks, ids and pending sends of the manager are always in the
\* relation IndInv states, types included.
THEOREM Invariance == Spec => []IndInv
<1> QED
    BY InitInv, NextInv, PTL DEF Spec

\* Outside the critical sections the two maps are inverse to each other.
THEOREM MapsAlwaysAgree == Spec => []MapsAgree
<1>1. IndInv => MapsAgree
    BY NoLinkAssumption DEF IndInv, MapsAgree, LocksFollowThreads, IndexedHasOwner,
       EntriesAreIndexed, IsConnected
<1> QED
    BY <1>1, Invariance, PTL

\* A frame is never queued on a connection to another peer than the addressee.
THEOREM SendIsAddressed == Spec => []SendReachesAddressee
<1>1. IndInv => SendReachesAddressee
    BY DEF IndInv
<1> QED
    BY <1>1, Invariance, PTL

\* Only the cleanup of the connection the index names un-indexes a peer.
THEOREM CleanupIsNeverStale == Spec => StaleCleanup
<1> DEFINE Step ==
        \A p \in DOMAIN peerIndex : p \notin DOMAIN peerIndex' =>
            \E l \in Links : /\ connId[l] = peerIndex[p]
                             /\ conn[l].remote_peer_id = p
                             /\ pc[l] # "reading" /\ pc'[l] = "gone"
<1>1. IndInv /\ [Next]_vars => [Step]_vars
    <2> SUFFICES ASSUME IndInv, Next,
                        NEW p \in DOMAIN peerIndex, p \notin DOMAIN peerIndex'
                 PROVE  \E l \in Links : /\ connId[l] = peerIndex[p]
                                         /\ conn[l].remote_peer_id = p
                                         /\ pc[l] # "reading" /\ pc'[l] = "gone"
        OBVIOUS
    <2>1. PICK l \in Links : Unindex(l) \/ InsertAdmit(l)
        BY DEF Next, Insert, Remove, Send, Reserve, InsertLockEntries,
           InsertLockIndex, InsertRefuse, ReaderEnds, RemoveAbsent, RemoveEntry,
           RemoveLockIndex, SendLookup, SendClone, SendMiss, SendPush,
           SendBrokenPipe, managerVars
    <2>2. ~InsertAdmit(l)
        BY DEF Put, Drop, InsertAdmit
    <2>3. Unindex(l) /\ p = conn[l].remote_peer_id /\ peerIndex[p] = connId[l]
        BY <2>1, <2>2 DEF Put, Drop, Unindex, IsConnected
    <2> QED
        BY <2>3 DEF Unindex, IndInv, TypeOK
<1> QED
    BY <1>1, Invariance, PTL DEF Spec, StaleCleanup

\* A reader that runs without an entry was evicted by a link that the tie-breaker
\* prefers: an entry is taken away by an eviction or by its own reader's end.
THEOREM OnlyEvictionsUntrack == Spec => []OnlyEvictionUntracks
<1> DEFINE Rivals(l) ==
        {m \in Links \ {l} :
            /\ conn[m].remote_peer_id = conn[l].remote_peer_id
            /\ pc[m] \in {"reading", "ended", "removing", "unindexing", "gone"}
            /\ KeepNew(m)}
<1>1. Init => OnlyEvictionUntracks
    BY DEF Init, OnlyEvictionUntracks
<1>2. IndInv /\ IndInv' /\ OnlyEvictionUntracks /\ [Next]_vars => OnlyEvictionUntracks'
    <2> SUFFICES ASSUME IndInv, IndInv', OnlyEvictionUntracks, [Next]_vars,
                        NEW l \in Links, pc'[l] = "reading", connId'[l] \notin DOMAIN entries'
                 PROVE  Rivals(l)' # {}
        BY DEF OnlyEvictionUntracks
    <2>1. /\ conn' = conn
          /\ \A m \in Links : pc[m] \in {"reading", "ended", "removing", "unindexing", "gone"}
                => pc'[m] \in {"reading", "ended", "removing", "unindexing", "gone"}
        <3>1. ASSUME NEW k \in Links, Insert(k) \/ ReaderEnds(k) \/ Remove(k)
              PROVE  conn' = conn /\ pc' = [pc EXCEPT ![k] = pc'[k]]
            BY <3>1 DEF Insert, Remove, Reserve, InsertLockEntries, InsertLockIndex,
               InsertAdmit, InsertRefuse, ReaderEnds, RemoveAbsent, RemoveEntry,
               RemoveLockIndex, Unindex, IndInv, TypeOK
        <3>2. ASSUME NEW k \in Links, Insert(k) \/ ReaderEnds(k) \/ Remove(k)
              PROVE  pc[k] \in {"reading", "ended", "removing", "unindexing", "gone"}
                        => pc'[k] \in {"ended", "removing", "unindexing", "gone"}
            BY <3>2 DEF Insert, Remove, Reserve, InsertLockEntries, InsertLockIndex,
               InsertAdmit, InsertRefuse, ReaderEnds, RemoveAbsent, RemoveEntry,
               RemoveLockIndex, Unindex, IndInv, TypeOK
        <3>3. ASSUME NEW c \in Callers, Send(c) \/ \E p \in Peers : SendLookup(c, p)
              PROVE  UNCHANGED <<conn, pc>>
            BY <3>3 DEF Send, SendLookup, SendClone, SendMiss, SendPush, SendBrokenPipe,
               linkVars
        <3> QED
            BY <3>1, <3>2, <3>3 DEF Next, vars, linkVars, IndInv, TypeOK
    <2>2. pc[l] = "reading" /\ connId'[l] = connId[l]
        <3>1. ~InsertAdmit(l)
            BY DEF InsertAdmit, Put
        <3> QED
            BY <3>1 DEF Next, Insert, Remove, Send, Reserve, InsertLockEntries,
               InsertLockIndex, InsertAdmit, InsertRefuse, ReaderEnds, RemoveAbsent,
               RemoveEntry, RemoveLockIndex, Unindex, SendLookup, SendClone, SendMiss,
               SendPush, SendBrokenPipe, vars, linkVars, IndInv, TypeOK
    <2>3. CASE connId[l] \notin DOMAIN entries
        <3>1. Rivals(l) # {}
            BY <2>2, <2>3 DEF OnlyEvictionUntracks
        <3> QED
            BY <3>1, <2>1 DEF KeepNew
    <2>4. CASE connId[l] \in DOMAIN entries
        <3>1. PICK m \in Links : InsertAdmit(m) \/ RemoveEntry(m)
            BY <2>2, <2>4 DEF Next, Insert, Remove, Send, Reserve, InsertLockEntries,
               InsertLockIndex, InsertRefuse, ReaderEnds, RemoveAbsent, RemoveLockIndex,
               Unindex, SendLookup, SendClone, SendMiss, SendPush, SendBrokenPipe, vars,
               managerVars
        <3>2. m # l
            BY <3>1, <2>2 DEF InsertAdmit, RemoveEntry
        <3>3. connId[m] # connId[l]
            BY <3>2, <2>2 DEF IndInv, IdsAreUnique
        <3>4. InsertAdmit(m)
            BY <3>1, <3>3, <2>2, <2>4 DEF RemoveEntry, Drop
        <3>5. Collides(m) /\ connId[l] = peerIndex[conn[m].remote_peer_id]
            BY <3>4, <2>2, <2>4 DEF InsertAdmit, EntriesForInsert, Put, Drop
        <3>6. entries[connId[l]] = l
            BY <2>2, <2>4 DEF IndInv, EntriesHaveOwners, IdsAreUnique, TypeOK, Ids
        <3>7. conn[m].remote_peer_id = conn[l].remote_peer_id
            BY <3>4, <3>5, <3>6, NoLinkAssumption DEF IndInv, IndexedHasOwner,
               LocksFollowThreads, InsertAdmit, Collides, IsConnected
        <3>8. KeepNew(m) /\ pc'[m] = "reading"
            BY <3>4, <3>5 DEF InsertAdmit, IndInv, TypeOK
        <3>9. m \in Rivals(l)'
            BY <3>2, <3>7, <3>8, <2>1 DEF KeepNew
        <3> QED
            BY <3>9
    <2> QED
        BY <2>3, <2>4
<1> QED
    BY <1>1, <1>2, Invariance, PTL DEF Spec

\* A send that misses the entry of an indexed peer met a removal or an eviction.
THEOREM MissIsNeverSpurious == Spec => MissMeansReplacedOrGone
<1> DEFINE Step ==
        \A c \in Callers :
            (call[c].at = "looked" /\ call'[c].at = "idle") =>
                \/ ~IsConnected(call[c].peer)
                \/ peerIndex[call[c].peer] # call[c].id
<1>1. IndInv /\ [Next]_vars => [Step]_vars
    <2> SUFFICES ASSUME IndInv, Next, NEW c \in Callers,
                        call[c].at = "looked", call'[c].at = "idle",
                        IsConnected(call[c].peer)
                 PROVE  peerIndex[call[c].peer] # call[c].id
        OBVIOUS
    <2>1. SendMiss(c)
        <3>1. ASSUME NEW l \in Links, Insert(l) \/ ReaderEnds(l) \/ Remove(l)
              PROVE  call' = call
            BY <3>1 DEF Insert, Remove, Reserve, InsertLockEntries, InsertLockIndex,
               InsertAdmit, InsertRefuse, ReaderEnds, RemoveAbsent, RemoveEntry,
               RemoveLockIndex, Unindex
        <3>2. ASSUME NEW d \in Callers, Send(d) \/ \E p \in Peers : SendLookup(d, p)
              PROVE  d = c
            BY <3>2 DEF Send, SendLookup, SendClone, SendMiss, SendPush, SendBrokenPipe,
               IndInv, TypeOK
        <3>3. ASSUME SendClone(c) PROVE FALSE
            BY <3>3 DEF SendClone, IndInv, TypeOK
        <3> QED
            BY <3>1, <3>2, <3>3 DEF Next, Send, SendLookup, SendPush, SendBrokenPipe
    <2>2. peerIndex[call[c].peer] \in DOMAIN entries
        BY <2>1, NoLinkAssumption DEF SendMiss, IndInv, IndexedHasOwner,
           LocksFollowThreads, IsConnected
    <2> QED
        BY <2>1, <2>2 DEF SendMiss
<1> QED
    BY <1>1, Invariance, PTL DEF Spec, MissMeansReplacedOrGone

\* In the refinement mapping, the current link of a peer is the one link that
\* holds the indexed id.
CurrentIsIndexed ==
    \A p \in Peers :
        /\ IsConnected(p) => \E l \in Links : connId[l] = peerIndex[p]
        /\ \A l \in Links : CurrentLink[p] = l <=>
                               IsConnected(p) /\ connId[l] = peerIndex[p]
        /\ CurrentLink[p] = NoLink <=> ~IsConnected(p)

\* The abstract current link of a peer is what the index holds.
LEMMA CurrentLinkIs == IndInv => CurrentIsIndexed
<1> SUFFICES ASSUME IndInv, NEW p \in Peers
             PROVE  /\ IsConnected(p) => \E l \in Links : connId[l] = peerIndex[p]
                    /\ \A l \in Links : CurrentLink[p] = l <=>
                          IsConnected(p) /\ connId[l] = peerIndex[p]
                    /\ CurrentLink[p] = NoLink <=> ~IsConnected(p)
    BY DEF CurrentIsIndexed
<1>1. CASE ~IsConnected(p)
    BY <1>1, NoLinkAssumption DEF CurrentLink
<1>2. CASE IsConnected(p)
    <2>1. PICK m \in Links : connId[m] = peerIndex[p]
        BY <1>2 DEF IndInv, IndexedHasOwner, IsConnected
    <2>2. \A l \in Links : connId[l] = peerIndex[p] => l = m
        BY <2>1, <1>2 DEF IndInv, IdsAreUnique, TypeOK, Ids, IsConnected
    <2>3. CurrentLink[p] = CHOOSE l \in Links : connId[l] = peerIndex[p]
        BY <1>2 DEF CurrentLink
    <2>4. CurrentLink[p] = m
        BY <2>1, <2>2, <2>3
    <2> QED
        BY <2>1, <2>2, <2>4, <1>2, NoLinkAssumption
<1> QED
    BY <1>1, <1>2

\* The same after a step.
LEMMA NextCurrentLinkIs == IndInv' => CurrentIsIndexed'
BY CurrentLinkIs, PTL

\* A step that changes neither the index nor the ids changes no current link.
LEMMA SameCurrent ==
    ASSUME IndInv, UNCHANGED <<peerIndex, connId>>
    PROVE  CurrentLink' = CurrentLink
BY DEF CurrentLink, IsConnected

\* reserve_id is invisible: the new id is not indexed yet.
LEMMA ReserveIsInvisible ==
    ASSUME IndInv, IndInv', NEW l \in Links, Reserve(l)
    PROVE  CurrentLink' = CurrentLink /\ Fate' = Fate
<1> DEFINE Same(p) == CurrentLink'[p] = CurrentLink[p]
<1>1. ASSUME NEW p \in Peers PROVE Same(p)
    <2>1. CASE ~IsConnected(p)
        BY <2>1 DEF CurrentLink, IsConnected, Reserve
    <2>2. CASE IsConnected(p)
        <3>1. PICK m \in Links : connId[m] = peerIndex[p]
            BY <2>2, CurrentLinkIs DEF CurrentIsIndexed
        <3>2. m # l
            BY <3>1, <2>2 DEF IndInv, IdsAreUnique, TypeOK, Ids, IsConnected, Reserve
        <3>3. connId'[m] = peerIndex'[p] /\ IsConnected(p)'
            BY <3>1, <3>2, <2>2 DEF Reserve, IndInv, TypeOK, IsConnected
        <3>4. CurrentLink[p] = m
            BY <3>1, <2>2, CurrentLinkIs DEF CurrentIsIndexed
        <3>5. CurrentLink'[p] = CHOOSE k \in Links : connId'[k] = peerIndex'[p]
            BY <3>3 DEF CurrentLink
        <3>6. \A k \in Links : connId'[k] = peerIndex'[p] => k = m
            BY <3>3, <3>1, <2>2 DEF IndInv, IdsAreUnique, TypeOK, Ids, IsConnected
        <3> QED
            BY <3>3, <3>4, <3>5, <3>6
    <2> QED
        BY <2>1, <2>2
<1>2. CurrentLink' = CurrentLink
    BY <1>1 DEF CurrentLink
<1>3. Fate' = Fate
    BY DEF Fate, Reserve, IndInv, TypeOK, Locations
<1> QED
    BY <1>2, <1>3

\* Each remaining step of a link is the step of the table it stands for.
LEMMA InsertMaps ==
    ASSUME IndInv, IndInv', NEW l \in Links, Insert(l)
    PROVE  [Table!Next]_<<conn, CurrentLink, Fate>>
<1> USE DEF IndInv
<1>1. CASE Reserve(l)
    BY <1>1, ReserveIsInvisible DEF Reserve
<1>2. CASE InsertLockEntries(l) \/ InsertLockIndex(l)
    <2>1. CurrentLink' = CurrentLink
        BY <1>2, SameCurrent DEF InsertLockEntries, InsertLockIndex, managerVars
    <2>2. Fate' = Fate
        BY <1>2 DEF Fate, InsertLockEntries, InsertLockIndex, TypeOK, Locations
    <2> QED
        BY <1>2, <2>1, <2>2 DEF InsertLockEntries, InsertLockIndex
<1> DEFINE p == conn[l].remote_peer_id
<1>3. p \in Peers /\ (KeepNew(l) <=> Table!Wins(l))
    BY DEF TypeOK, Table!Wins, KeepNew
<1>4. pc[l] = "inserting" => /\ Fate[l] = "new"
                             /\ (Collides(l) <=> IsConnected(p))
    BY NoLinkAssumption DEF Fate, LocksFollowThreads, IndexedHasOwner, Collides,
       IsConnected, TypeOK, Locations
<1>5. CASE InsertAdmit(l)
    <2>1. CurrentLink[p] = NoLink \/ Table!Wins(l)
        BY <1>3, <1>4, <1>5, CurrentLinkIs DEF CurrentIsIndexed, InsertAdmit
    <2>2. CurrentLink' = [CurrentLink EXCEPT ![p] = l]
        <3>1. p \in DOMAIN peerIndex' /\ peerIndex'[p] = connId'[l]
            BY <1>5 DEF InsertAdmit, Put, IsConnected
        <3>2. CurrentLink'[p] = l
            <4>1. CurrentLink'[p] = l <=>
                     p \in DOMAIN peerIndex' /\ connId'[l] = peerIndex'[p]
                BY <1>3, NextCurrentLinkIs DEF CurrentIsIndexed, IsConnected
            <4> QED
                BY <4>1, <3>1
        <3>3. ASSUME NEW q \in Peers, q # p PROVE CurrentLink'[q] = CurrentLink[q]
            <4>1. /\ IsConnected(q)' <=> IsConnected(q)
                  /\ IsConnected(q) => peerIndex'[q] = peerIndex[q]
                  /\ connId' = connId
                BY <3>3, <1>5 DEF InsertAdmit, Put, IsConnected
            <4> QED
                BY <4>1, CurrentLinkIs, NextCurrentLinkIs DEF CurrentIsIndexed
        <3>4. /\ CurrentLink = [q \in Peers |-> CurrentLink[q]]
              /\ CurrentLink' = [q \in Peers |-> CurrentLink'[q]]
            BY DEF CurrentLink
        <3> QED
            BY <3>2, <3>3, <3>4, <1>3
    <2>3. Fate' = [Fate EXCEPT ![l] = "live"]
        BY <1>5 DEF InsertAdmit, Fate, TypeOK, Locations
    <2>4. Table!Admit(l)
        BY <2>1, <2>2, <2>3, <1>4, <1>5 DEF Table!Admit, InsertAdmit
    <2> QED
        BY <2>4, <1>3 DEF Table!Next
<1>6. CASE InsertRefuse(l)
    <2>1. CurrentLink[p] # NoLink /\ ~Table!Wins(l)
        BY <1>3, <1>4, <1>6, CurrentLinkIs DEF CurrentIsIndexed, InsertRefuse
    <2>2. CurrentLink' = CurrentLink
        BY <1>6, SameCurrent DEF InsertRefuse, managerVars
    <2>3. Fate' = [Fate EXCEPT ![l] = "refused"]
        BY <1>6 DEF InsertRefuse, Fate, TypeOK, Locations
    <2>4. Table!Refuse(l)
        BY <2>1, <2>2, <2>3, <1>4, <1>6 DEF Table!Refuse, InsertRefuse
    <2> QED
        BY <2>4, <1>3 DEF Table!Next
<1> QED
    BY <1>1, <1>2, <1>5, <1>6 DEF Insert

\* A reader that ends, and its cleanup, forget a link of the abstract table or
\* stutter.
LEMMA RemoveMaps ==
    ASSUME IndInv, IndInv', NEW l \in Links, ReaderEnds(l) \/ Remove(l)
    PROVE  [Table!Next]_<<conn, CurrentLink, Fate>>
<1> USE DEF IndInv
<1>1. CASE ReaderEnds(l)
    <2>1. CurrentLink' = CurrentLink
        BY <1>1, SameCurrent DEF ReaderEnds, managerVars
    <2>2. Fate[l] = "live" /\ Fate' = [Fate EXCEPT ![l] = "ended"]
        BY <1>1 DEF ReaderEnds, Fate, TypeOK, Locations
    <2> QED
        BY <1>1, <2>1, <2>2 DEF ReaderEnds, Table!Next, Table!End
<1>2. CASE RemoveEntry(l) \/ RemoveLockIndex(l)
    <2>1. CurrentLink' = CurrentLink
        BY <1>2, SameCurrent DEF RemoveEntry, RemoveLockIndex, managerVars
    <2>2. Fate' = Fate
        BY <1>2 DEF Fate, RemoveEntry, RemoveLockIndex, TypeOK, Locations
    <2> QED
        BY <1>2, <2>1, <2>2 DEF RemoveEntry, RemoveLockIndex
<1>3. CASE RemoveAbsent(l)
    <2>1. CurrentLink' = CurrentLink
        BY <1>3, SameCurrent DEF RemoveAbsent, managerVars
    <2>2. ASSUME NEW q \in Peers PROVE CurrentLink[q] # l
        BY <1>3, CurrentLinkIs, NoLinkAssumption DEF CurrentIsIndexed, RemoveAbsent, IndexedHasOwner,
           LocksFollowThreads, IsConnected
    <2>3. Fate[l] = "ended" /\ Fate' = [Fate EXCEPT ![l] = "gone"]
        BY <1>3 DEF RemoveAbsent, Fate, TypeOK, Locations
    <2>4. CurrentLink' = [q \in Peers |-> IF CurrentLink[q] = l THEN NoLink ELSE CurrentLink[q]]
        BY <2>1, <2>2 DEF CurrentLink
    <2> QED
        BY <1>3, <2>3, <2>4 DEF RemoveAbsent, Table!Next, Table!Leave
<1>4. CASE Unindex(l)
    <2>1. Fate[l] = "ended" /\ Fate' = [Fate EXCEPT ![l] = "gone"]
        BY <1>4 DEF Unindex, Fate, TypeOK, Locations
    <2>2. ASSUME NEW q \in Peers
          PROVE  CurrentLink'[q] = IF CurrentLink[q] = l THEN NoLink ELSE CurrentLink[q]
        <3>1. CASE CurrentLink[q] = l
            <4>1. IsConnected(q) /\ connId[l] = peerIndex[q]
                BY <3>1, CurrentLinkIs DEF CurrentIsIndexed
            <4>2. q = conn[l].remote_peer_id
                BY <4>1 DEF IndexedHasOwner, IsConnected, IdsAreUnique, TypeOK, Ids
            <4>3. ~IsConnected(q)'
                BY <4>1, <4>2, <1>4 DEF Unindex, Drop, IsConnected
            <4> QED
                BY <3>1, <4>3 DEF CurrentLink
        <3>2. CASE CurrentLink[q] # l
            <4>1. ~(IsConnected(q) /\ connId[l] = peerIndex[q])
                BY <3>2, CurrentLinkIs DEF CurrentIsIndexed
            <4>2. /\ IsConnected(q)' <=> IsConnected(q)
                  /\ IsConnected(q) => peerIndex'[q] = peerIndex[q]
                BY <4>1, <1>4 DEF Unindex, Drop, IsConnected
            <4>3. connId' = connId
                BY <1>4 DEF Unindex
            <4> QED
                BY <3>2, <4>2, <4>3, CurrentLinkIs, NextCurrentLinkIs DEF CurrentIsIndexed
        <3> QED
            BY <3>1, <3>2
    <2>3. CurrentLink' = [q \in Peers |-> IF CurrentLink[q] = l THEN NoLink ELSE CurrentLink[q]]
        BY <2>2 DEF CurrentLink
    <2> QED
        BY <1>4, <2>1, <2>3 DEF Unindex, Table!Next, Table!Leave
<1> QED
    BY <1>1, <1>2, <1>3, <1>4 DEF Remove

\* Seen through the peer index, the two locked maps implement PeerTable.
THEOREM Refinement == Spec => ImplementsPeerTable
<1>1. Init => Table!Init
    BY DEF Init, Table!Init, Directions, Table!Directions, CurrentLink, Fate, IsConnected
<1>2. IndInv /\ IndInv' /\ [Next]_vars => [Table!Next]_<<conn, CurrentLink, Fate>>
    <2> SUFFICES ASSUME IndInv, IndInv', [Next]_vars
                 PROVE  [Table!Next]_<<conn, CurrentLink, Fate>>
        OBVIOUS
    <2>1. ASSUME NEW l \in Links, Insert(l) \/ ReaderEnds(l) \/ Remove(l)
          PROVE  [Table!Next]_<<conn, CurrentLink, Fate>>
        BY <2>1, InsertMaps, RemoveMaps
    <2>2. ASSUME NEW c \in Callers, Send(c) \/ \E p \in Peers : SendLookup(c, p)
          PROVE  [Table!Next]_<<conn, CurrentLink, Fate>>
        <3>1. UNCHANGED <<conn, peerIndex, connId, pc>>
            BY <2>2 DEF Send, SendLookup, SendClone, SendMiss, SendPush,
               SendBrokenPipe, managerVars, linkVars
        <3> QED
            BY <3>1, SameCurrent DEF Fate
    <2>3. ASSUME UNCHANGED vars PROVE [Table!Next]_<<conn, CurrentLink, Fate>>
        BY <2>3, SameCurrent DEF Fate, vars, managerVars, linkVars
    <2> QED
        BY <2>1, <2>2, <2>3 DEF Next
<1> QED
    BY <1>1, <1>2, Invariance, PTL DEF Spec, ImplementsPeerTable, Table!Spec, Table!vars
=============================================================================
