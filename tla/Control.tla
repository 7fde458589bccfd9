------------------------------- MODULE Control -------------------------------
(***************************************************************************)
(* The commands scan, connect and peers: the event loop's aliases, its     *)
(* table of discovered peers and its pending requests, with the threads    *)
(* that feed the loop: the UDP listener, the 500 ms scan timers and the    *)
(* dialling threads.  Transfers has list and get.                          *)
(***************************************************************************)
EXTENDS Naturals, FiniteSets, Sequences, Functions

CONSTANTS
    Peers,         \* remote peers
    Addrs,         \* socket addresses
    Clients,       \* parsip commands run against the local daemon
    MaxArrivals,   \* how many datagrams and inbound connections arrive
    MaxMoves       \* how many times a peer changes its address

ASSUME BoundsAssumption == MaxArrivals \in Nat /\ MaxMoves \in Nat

\* The results of a dialling thread that are no peer.
ASSUME NamesAssumption == "dialling" \notin Peers /\ "failed" \notin Peers

VARIABLES
    \* the network
    addrOf,       \* addrOf[p]: where peer p listens now
    arrivals,     \* datagrams and inbound connections so far, for the bound
    moves,        \* address changes so far, for the bound
    \* the threads around the loop
    timers,       \* request ids of scans whose timer thread sleeps
    dials,        \* threads between connect() or accept() and their result
    connected,    \* the peers in the connection manager's index
    events,       \* the mpsc queue of PeerEvents
    \* the event loop
    aliasOf,      \* peer_id_to_alias
    peerOf,       \* peer_aliases
    nextAlias,    \* next_peer_id
    discovered,   \* discovered_peers, peer -> address
    nextReq,      \* RequestTracker::next_id
    pending,      \* RequestTracker::pending_requests
    client,       \* client[c]: the state of the command, with its answer
    \* history
    since         \* since[q]: peers discovered after scan q was handled

worldVars == <<addrOf, arrivals, moves>>
aliasVars == <<aliasOf, peerOf, nextAlias>>
reqVars == <<nextReq, pending, client>>
vars == <<worldVars, timers, dials, connected, events, aliasVars, discovered,
          reqVars, since>>

Empty == [x \in {} |-> x]
Put(map, k, v) == [x \in DOMAIN map \cup {k} |-> IF x = k THEN v ELSE map[x]]
Drop(map, k) == Restrict(map, DOMAIN map \ {k})

Idle == [state |-> "idle"]
Waiting == [state |-> "waiting"]

Init ==
    /\ addrOf \in [Peers -> Addrs]
    /\ IsInjective(addrOf)
    /\ arrivals = 0 /\ moves = 0
    /\ timers = {} /\ dials = {} /\ connected = {} /\ events = <<>>
    /\ aliasOf = Empty /\ peerOf = Empty /\ nextAlias = 1
    /\ discovered = Empty
    /\ nextReq = 1 /\ pending = Empty
    /\ client = [c \in Clients |-> Idle]
    /\ since = Empty

-----------------------------------------------------------------------------
(* The network and the threads that feed the event queue.                  *)

\* A peer gets another, free, address.
Move(p) ==
    /\ moves < MaxMoves
    /\ \E a \in Addrs \ Range(addrOf) : addrOf' = [addrOf EXCEPT ![p] = a]
    /\ moves' = moves + 1
    /\ UNCHANGED <<arrivals, timers, dials, connected, events, aliasVars,
                   discovered, reqVars, since>>

\* A request or a response of peer p reaches the UDP listener, which queues
\* the peer with the address it came from.
Datagram(p) ==
    /\ arrivals < MaxArrivals
    /\ arrivals' = arrivals + 1
    /\ events' = Append(events, [type |-> "discovered", peer |-> p, addr |-> addrOf[p]])
    /\ UNCHANGED <<addrOf, moves, timers, dials, connected, aliasVars,
                   discovered, reqVars, since>>

TimerFires(q) ==
    /\ timers' = timers \ {q}
    /\ events' = Append(events, [type |-> "scanTimeout", req |-> q])
    /\ UNCHANGED <<worldVars, dials, connected, aliasVars, discovered, reqVars, since>>

Dial(req, addr) == [req |-> req, addr |-> addr, result |-> "dialling", announced |-> FALSE]
Accepted(p) == [req |-> 0, addr |-> addrOf[p], result |-> p, announced |-> FALSE]

\* A peer dials this node and is registered: no request waits for this thread.
Accept(p) ==
    /\ arrivals < MaxArrivals
    /\ arrivals' = arrivals + 1
    /\ Accepted(p) \notin dials
    /\ dials' = dials \cup {Accepted(p)}
    /\ connected' = connected \cup {p}
    /\ UNCHANGED <<addrOf, moves, timers, events, aliasVars, discovered, reqVars, since>>

\* connect() reaches whoever listens at the address; the handshake ends well
\* and the connection enters the index.
DialSucceeds(d) ==
    /\ d.result = "dialling"
    /\ \E p \in Peers :
          /\ addrOf[p] = d.addr
          /\ connected' = connected \cup {p}
          /\ dials' = (dials \ {d}) \cup {[d EXCEPT !.result = p]}
    /\ UNCHANGED <<worldVars, timers, events, aliasVars, discovered, reqVars, since>>

\* Refused, unreachable, a failed handshake, or dropped by the tie-break.
DialFails(d) ==
    /\ d.result = "dialling"
    /\ dials' = (dials \ {d}) \cup {[d EXCEPT !.result = "failed"]}
    /\ UNCHANGED <<worldVars, timers, connected, events, aliasVars, discovered,
                   reqVars, since>>

\* The last step of register_connection: NewConnection is queued.
Announce(d) ==
    /\ d.result \in Peers /\ ~d.announced
    /\ dials' = (dials \ {d}) \cup {[d EXCEPT !.announced = TRUE]}
    /\ events' = Append(events, [type |-> "newConnection", peer |-> d.result])
    /\ UNCHANGED <<worldVars, timers, connected, aliasVars, discovered, reqVars, since>>

ConnectResult(d) == [type |-> "connectResult", req |-> d.req, result |-> d.result]

\* Bug variant: the result is reported before the connection is announced.
DialReportsFirst(d) ==
    /\ d.result # "dialling"
    /\ dials' = (dials \ {d}) \cup
                   (IF d.result \in Peers /\ d.req # 0 THEN {[d EXCEPT !.req = 0]} ELSE {})
    /\ events' = IF d.req = 0 THEN events ELSE Append(events, ConnectResult(d))
    /\ UNCHANGED <<worldVars, timers, connected, aliasVars, discovered, reqVars, since>>

\* register_connection has returned; the thread that waits for connect()
\* forwards its result to the event loop.
DialReports(d) ==
    /\ d.result = "failed" \/ d.announced
    /\ dials' = dials \ {d}
    /\ events' = IF d.req = 0 THEN events ELSE Append(events, ConnectResult(d))
    /\ UNCHANGED <<worldVars, timers, connected, aliasVars, discovered, reqVars, since>>

\* A connection ends.  Its Disconnected event changes nothing modelled here.
Hangup(p) ==
    /\ p \in connected
    /\ connected' = connected \ {p}
    /\ UNCHANGED <<worldVars, timers, dials, events, aliasVars, discovered, reqVars, since>>

Ask(c, request) ==
    /\ client[c] = Idle
    /\ client' = [client EXCEPT ![c] = Waiting]
    /\ events' = Append(events, request)
    /\ UNCHANGED <<worldVars, timers, dials, connected, aliasVars, discovered,
                   nextReq, pending, since>>

AskScan(c) == Ask(c, [type |-> "scan", client |-> c])
AskPeers(c) == Ask(c, [type |-> "peers", client |-> c])
AskConnect(c, alias) == Ask(c, [type |-> "connect", client |-> c, alias |-> alias])

-----------------------------------------------------------------------------
(* The event loop.                                                         *)

TakeEvent(type) ==
    /\ events # <<>>
    /\ Head(events).type = type
    /\ events' = Tail(events)
    /\ UNCHANGED <<worldVars, connected>>

\* Bug variant: the alias counter is not advanced.
AddPeerSameAlias(p) ==
    IF p \in DOMAIN aliasOf THEN UNCHANGED aliasVars
    ELSE /\ aliasOf' = Put(aliasOf, p, nextAlias)
         /\ peerOf' = Put(peerOf, nextAlias, p)
         /\ UNCHANGED nextAlias

\* Bug variant: a known peer gets a fresh alias.
AddPeerAlways(p) ==
    /\ aliasOf' = Put(aliasOf, p, nextAlias)
    /\ peerOf' = Put(peerOf, nextAlias, p)
    /\ nextAlias' = nextAlias + 1

\* AliasRegistry::add_peer: the alias a peer has, or the next one.
AddPeer(p) ==
    IF p \in DOMAIN aliasOf THEN UNCHANGED aliasVars
    ELSE /\ aliasOf' = Put(aliasOf, p, nextAlias)
         /\ peerOf' = Put(peerOf, nextAlias, p)
         /\ nextAlias' = nextAlias + 1

\* A request id is registered for the client of the command at hand.
RegisterRequest ==
    /\ nextReq' = nextReq + 1
    /\ pending' = Put(pending, nextReq, Head(events).client)

\* The terminal answer for request q, if it is still pending.
Complete(q, answer) ==
    IF q \in DOMAIN pending
    THEN /\ client' = [client EXCEPT ![pending[q]] = answer]
         /\ pending' = Drop(pending, q)
         /\ UNCHANGED nextReq
    ELSE UNCHANGED reqVars

AnswerNow(answer) ==
    /\ client' = [client EXCEPT ![Head(events).client] = answer]
    /\ UNCHANGED <<nextReq, pending>>

\* The entry of an earlier datagram stays, with its address.
HandleDiscovered ==
    LET e == Head(events) IN
    /\ TakeEvent("discovered")
    /\ AddPeer(e.peer)
    /\ discovered' = IF e.peer \in DOMAIN discovered THEN discovered
                     ELSE Put(discovered, e.peer, e.addr)
    /\ since' = [q \in DOMAIN since |-> since[q] \cup {e.peer}]
    /\ UNCHANGED <<timers, dials, reqVars>>

HandleNewConnection ==
    /\ TakeEvent("newConnection")
    /\ AddPeer(Head(events).peer)
    /\ UNCHANGED <<timers, dials, discovered, reqVars, since>>

\* Bug variant: no timer is started.
HandleScanNoTimer ==
    /\ TakeEvent("scan")
    /\ discovered' = Empty
    /\ RegisterRequest
    /\ since' = Put(since, nextReq, {})
    /\ UNCHANGED <<timers, dials, aliasVars, client>>

\* Bug variant: what earlier scans found stays.
HandleScanKeepsOld ==
    /\ TakeEvent("scan")
    /\ RegisterRequest
    /\ timers' = timers \cup {nextReq}
    /\ since' = Put(since, nextReq, {})
    /\ UNCHANGED <<dials, aliasVars, discovered, client>>

\* Scan: forget what was discovered, broadcast, and start the timer.
HandleScan ==
    /\ TakeEvent("scan")
    /\ discovered' = Empty
    /\ RegisterRequest
    /\ timers' = timers \cup {nextReq}
    /\ since' = Put(since, nextReq, {})
    /\ UNCHANGED <<dials, aliasVars, client>>

\* Scan: the broadcast socket cannot be had.
HandleScanFails ==
    /\ TakeEvent("scan")
    /\ discovered' = Empty
    /\ client' = [client EXCEPT ![Head(events).client] = [state |-> "failed"]]
    /\ nextReq' = nextReq + 1
    /\ since' = Put(since, nextReq, {})
    /\ UNCHANGED <<timers, dials, aliasVars, pending>>

HandleScanTimeout ==
    LET q == Head(events).req IN
    /\ TakeEvent("scanTimeout")
    /\ Complete(q, [state |-> "scanned", req |-> q, found |-> DOMAIN discovered])
    /\ UNCHANGED <<timers, dials, aliasVars, discovered, since>>

\* Connect: the alias is looked up among the discovered peers only.
Named(alias) == {p \in DOMAIN discovered : aliasOf[p] = alias}

HandleConnect ==
    LET e == Head(events) IN
    /\ TakeEvent("connect")
    /\ \E p \in Named(e.alias) : dials' = dials \cup {Dial(nextReq, discovered[p])}
    /\ RegisterRequest
    /\ UNCHANGED <<timers, aliasVars, discovered, client, since>>

\* Connect: an alias nobody was discovered under.
HandleConnectUnknown ==
    /\ TakeEvent("connect")
    /\ Named(Head(events).alias) = {}
    /\ AnswerNow([state |-> "failed"])
    /\ UNCHANGED <<timers, dials, aliasVars, discovered, since>>

\* The id of the peer that was reached is not compared with the alias.
HandleConnectResult ==
    LET e == Head(events) IN
    /\ TakeEvent("connectResult")
    /\ Complete(e.req, IF e.result = "failed" THEN [state |-> "failed"]
                       ELSE [state |-> "connected", peer |-> e.result])
    /\ UNCHANGED <<timers, dials, aliasVars, discovered, since>>

\* ListPeers: the aliases of the peers in the index.
HandlePeers ==
    /\ TakeEvent("peers")
    /\ AnswerNow([state |-> "listed",
                  aliases |-> {a \in DOMAIN peerOf : peerOf[a] \in connected}])
    /\ UNCHANGED <<timers, dials, aliasVars, discovered, since>>

EventLoop == \/ HandleDiscovered \/ HandleNewConnection
             \/ HandleScan \/ HandleScanFails \/ HandleScanTimeout
             \/ HandleConnect \/ HandleConnectUnknown \/ HandleConnectResult
             \/ HandlePeers

Next ==
    \/ \E p \in Peers : Move(p) \/ Datagram(p) \/ Accept(p) \/ Hangup(p)
    \/ \E q \in timers : TimerFires(q)
    \/ \E d \in dials : DialSucceeds(d) \/ DialFails(d) \/ Announce(d) \/ DialReports(d)
    \/ \E c \in Clients : \/ AskScan(c)
                          \/ AskPeers(c)
                          \/ \E a \in 1..Cardinality(Peers) : AskConnect(c, a)
    \/ EventLoop

Spec == Init /\ [][Next]_vars

-----------------------------------------------------------------------------
(* Properties.                                                             *)

Answers ==
    {Idle, Waiting, [state |-> "failed"]}
    \cup [state : {"scanned"}, req : Nat, found : SUBSET Peers]
    \cup [state : {"connected"}, peer : Peers]
    \cup [state : {"listed"}, aliases : SUBSET Nat]

\* What clients and threads send the event loop.
Commands ==
    [type : {"scan", "peers"}, client : Clients]
    \cup [type : {"connect"}, client : Clients, alias : Nat]
Results ==
    [type : {"scanTimeout"}, req : Nat]
    \cup [type : {"connectResult"}, req : Nat, result : Peers \cup {"failed"}]
Events ==
    [type : {"discovered"}, peer : Peers, addr : Addrs]
    \cup [type : {"newConnection"}, peer : Peers]
    \cup Commands \cup Results

Threads == [req : Nat, addr : Addrs, result : Peers \cup {"dialling", "failed"},
            announced : BOOLEAN]

\* The type invariant: ids and aliases are below their counters.
TypeOK ==
    /\ addrOf \in [Peers -> Addrs]
    /\ nextAlias \in Nat \ {0} /\ nextReq \in Nat \ {0}
    /\ events \in Seq(Events)
    /\ \A i \in 1..Len(events) : events[i] \in Results => events[i].req < nextReq
    /\ timers \subseteq 1..(nextReq - 1)
    /\ dials \subseteq Threads
    /\ \A d \in dials : d.req < nextReq /\ (d.announced => d.result \in Peers)
    /\ connected \subseteq Peers
    /\ DOMAIN aliasOf \subseteq Peers /\ aliasOf \in [DOMAIN aliasOf -> 1..(nextAlias - 1)]
    /\ DOMAIN peerOf \subseteq 1..(nextAlias - 1) /\ peerOf \in [DOMAIN peerOf -> Peers]
    /\ DOMAIN discovered \subseteq Peers /\ discovered \in [DOMAIN discovered -> Addrs]
    /\ DOMAIN pending \subseteq 1..(nextReq - 1) /\ pending \in [DOMAIN pending -> Clients]
    /\ client \in [Clients -> Answers]
    /\ DOMAIN since \subseteq 1..(nextReq - 1) /\ since \in [DOMAIN since -> SUBSET Peers]

\* The two alias maps are inverse, and every discovered peer has an alias: an
\* alias the user types means one peer and a peer shows under one alias.
AliasesAreInverse ==
    /\ \A p \in DOMAIN aliasOf : /\ aliasOf[p] \in DOMAIN peerOf
                                 /\ peerOf[aliasOf[p]] = p
    /\ \A a \in DOMAIN peerOf : /\ peerOf[a] \in DOMAIN aliasOf
                                /\ aliasOf[peerOf[a]] = a
    /\ DOMAIN discovered \subseteq DOMAIN aliasOf

\* Peer p has an alias, or will have when the events before the i-th are handled.
NamedBefore(p, i) ==
    p \in DOMAIN aliasOf \/ \E j \in 1..(i - 1) : /\ events[j].type = "newConnection"
                                                 /\ events[j].peer = p

\* The queue keeps the order of a thread's two sends: the announcement of a
\* peer is handled before the result that reports it.
AnnouncedBeforeReported ==
    /\ \A i \in 1..Len(events) :
          (events[i].type = "connectResult" /\ events[i].result \in Peers) =>
              NamedBefore(events[i].result, i)
    /\ \A d \in dials : d.announced => NamedBefore(d.result, Len(events) + 1)

\* discovered holds nobody that a begun scan has not heard, and is what the
\* last scan heard; a timer belongs to a scan.
DiscoveredIsLastScan ==
    /\ \A q \in DOMAIN since :
          /\ DOMAIN discovered \subseteq since[q]
          /\ DOMAIN discovered = since[q] \/ \E r \in DOMAIN since : r > q
    /\ timers \subseteq DOMAIN since
    /\ \A i \in 1..Len(events) :
          events[i].type = "scanTimeout" => events[i].req \in DOMAIN since

\* The registry, the queue and the table of discovered peers together: an
\* inductive invariant.
ControlInv ==
    /\ TypeOK
    /\ AliasesAreInverse
    /\ AnnouncedBeforeReported
    /\ DiscoveredIsLastScan

\* An alias the user has seen keeps its meaning whatever is scanned,
\* connected or lost later.
AliasesAreStable ==
    [][\A a \in DOMAIN peerOf : a \in DOMAIN peerOf' /\ peerOf'[a] = peerOf[a]]_vars

\* A scan reports only peers heard from since it began, also when another
\* scan's timer or clear comes in between; and, when no other scan was begun
\* in its 500 ms, all of them.
ScanReportsTheHeard ==
    [][\A c \in Clients :
         LET answer == client'[c]
             heard == since[answer.req]
         IN  (client[c] = Waiting /\ answer.state = "scanned") =>
                /\ answer.found \subseteq heard
                /\ answer.found = heard \/ \E q \in DOMAIN since : q > answer.req]_vars

\* When connect succeeds the peer it reached has an alias, so that the user
\* finds it with `parsip peers`: NewConnection is handled before the result.
ConnectedHasAlias ==
    \A c \in Clients :
        client[c].state = "connected" => client[c].peer \in DOMAIN aliasOf

\* A command that waits is not forgotten: it is queued, or its request is
\* pending and something will still end it, a timer, a dialling thread or an
\* event in the queue.
NoCommandIsForgotten ==
    \A c \in Clients : client[c] = Waiting =>
        \/ \E e \in Range(events) : e \in Commands /\ e.client = c
        \/ \E q \in DOMAIN pending :
              /\ pending[q] = c
              /\ \/ q \in timers
                 \/ \E d \in dials : d.req = q
                 \/ \E e \in Range(events) : e \in Results /\ e.req = q
=============================================================================
