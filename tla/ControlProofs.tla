----------------------------- MODULE ControlProofs -----------------------------
(***************************************************************************)
(* The safety of Control for any peers, addresses and clients and any      *)
(* number of arrivals and moves.  ControlInv is inductive; the answers of  *)
(* scan and connect, and the fate of a waiting command, follow from it.    *)
(***************************************************************************)
EXTENDS Control, SequenceTheorems, TLAPS

-----------------------------------------------------------------------------
(* Steps that many actions share.                                          *)

\* An event is queued: results are of requests handed out.
LEMMA QueueGrows ==
    ASSUME TypeOK, NEW e \in Events, events' = Append(events, e),
           nextReq' = nextReq, e \in Results => e.req < nextReq
    PROVE  /\ events' \in Seq(Events)
           /\ \A i \in 1..Len(events') : events'[i] \in Results => events'[i].req < nextReq'
<1>1. /\ events' \in Seq(Events) /\ Len(events) \in Nat /\ Len(events') = Len(events) + 1
      /\ events'[Len(events) + 1] = e
      /\ \A i \in 1..Len(events) : events'[i] = events[i]
    BY AppendProperties DEF TypeOK
<1>2. SUFFICES ASSUME NEW i \in 1..Len(events'), events'[i] \in Results
               PROVE  events'[i].req < nextReq
    BY <1>1
<1>3. CASE i = Len(events) + 1
    BY <1>1, <1>2, <1>3
<1>4. CASE i \in 1..Len(events)
    BY <1>1, <1>2, <1>4 DEF TypeOK
<1> QED
    BY <1>1, <1>3, <1>4

\* An event is taken from the front, and the others move up.
LEMMA QueueShrinks ==
    ASSUME TypeOK, NEW type, TakeEvent(type), nextReq' \in Nat, nextReq' >= nextReq
    PROVE  /\ Head(events) \in Events /\ Head(events).type = type
           /\ Len(events) \in Nat \ {0} /\ Head(events) = events[1]
           /\ Len(events') = Len(events) - 1
           /\ \A i \in 1..Len(events') : events'[i] = events[i + 1]
           /\ events' \in Seq(Events)
           /\ \A i \in 1..Len(events') : events'[i] \in Results => events'[i].req < nextReq'
<1>1. /\ Head(events) \in Events /\ Head(events).type = type
      /\ Len(events) \in Nat \ {0} /\ Head(events) = events[1]
      /\ Len(events') = Len(events) - 1
      /\ \A i \in 1..Len(events') : events'[i] = events[i + 1]
      /\ events' \in Seq(Events)
    BY HeadTailProperties DEF TypeOK, TakeEvent
<1>2. SUFFICES ASSUME NEW i \in 1..Len(events'), events'[i] \in Results
               PROVE  events'[i].req < nextReq'
    BY <1>1
<1>3. i + 1 \in 1..Len(events) /\ events'[i] = events[i + 1]
    BY <1>1
<1>4. events[i + 1].req < nextReq
    BY <1>2, <1>3 DEF TypeOK
<1>5. events'[i].req \in Nat /\ nextReq \in Nat
    BY <1>2 DEF Results, TypeOK
<1> QED
    BY <1>3, <1>4, <1>5

-----------------------------------------------------------------------------
(* Types.                                                                  *)

\* The part of TypeOK about the aliases.
AliasTypes ==
    /\ nextAlias \in Nat \ {0}
    /\ DOMAIN aliasOf \subseteq Peers /\ aliasOf \in [DOMAIN aliasOf -> 1..(nextAlias - 1)]
    /\ DOMAIN peerOf \subseteq 1..(nextAlias - 1) /\ peerOf \in [DOMAIN peerOf -> Peers]

\* The part about requests and clients.
RequestTypes ==
    /\ nextReq \in Nat \ {0}
    /\ DOMAIN pending \subseteq 1..(nextReq - 1) /\ pending \in [DOMAIN pending -> Clients]
    /\ client \in [Clients -> Answers]

\* add_peer keeps the two maps inverse and every alias given before.
LEMMA AddPeerTypes ==
    ASSUME TypeOK, AliasesAreInverse, NEW p \in Peers, AddPeer(p)
    PROVE  /\ AliasTypes'
           /\ DOMAIN aliasOf' = DOMAIN aliasOf \cup {p}
           /\ \A q \in DOMAIN aliasOf' : /\ aliasOf'[q] \in DOMAIN peerOf'
                                         /\ peerOf'[aliasOf'[q]] = q
           /\ \A a \in DOMAIN peerOf' : /\ peerOf'[a] \in DOMAIN aliasOf'
                                        /\ aliasOf'[peerOf'[a]] = a
           /\ \A a \in DOMAIN peerOf : a \in DOMAIN peerOf' /\ peerOf'[a] = peerOf[a]
<1>1. CASE p \in DOMAIN aliasOf
  <2>1. UNCHANGED aliasVars
    BY <1>1 DEF AddPeer
  <2> QED
    BY <1>1, <2>1 DEF aliasVars, AliasTypes, TypeOK, AliasesAreInverse
<1>2. CASE p \notin DOMAIN aliasOf
  <2>1. /\ aliasOf' = Put(aliasOf, p, nextAlias) /\ peerOf' = Put(peerOf, nextAlias, p)
        /\ nextAlias' = nextAlias + 1 /\ nextAlias \in Nat \ {0}
    BY <1>2 DEF AddPeer, TypeOK
  <2>2. nextAlias \notin DOMAIN peerOf /\ nextAlias \in 1..(nextAlias' - 1)
        /\ 1..(nextAlias - 1) \subseteq 1..(nextAlias' - 1)
    BY <2>1 DEF TypeOK
  <2>3. aliasOf \in [DOMAIN aliasOf -> 1..(nextAlias' - 1)] /\ peerOf \in [DOMAIN peerOf -> Peers]
    BY <2>2 DEF TypeOK
  <2>4. /\ DOMAIN aliasOf' = DOMAIN aliasOf \cup {p}
        /\ aliasOf' \in [DOMAIN aliasOf' -> 1..(nextAlias' - 1)]
        /\ aliasOf'[p] = nextAlias
        /\ \A q \in DOMAIN aliasOf : aliasOf'[q] = aliasOf[q]
    BY <1>2, <2>1, <2>2, <2>3 DEF Put
  <2>5. /\ DOMAIN peerOf' = DOMAIN peerOf \cup {nextAlias}
        /\ peerOf' \in [DOMAIN peerOf' -> Peers]
        /\ peerOf'[nextAlias] = p
        /\ \A a \in DOMAIN peerOf : peerOf'[a] = peerOf[a]
    BY <2>1, <2>2, <2>3 DEF Put
  <2>6. AliasTypes'
    BY <2>1, <2>2, <2>4, <2>5 DEF AliasTypes, TypeOK
  <2>7. \A q \in DOMAIN aliasOf' : aliasOf'[q] \in DOMAIN peerOf' /\ peerOf'[aliasOf'[q]] = q
    BY <2>2, <2>4, <2>5 DEF AliasesAreInverse
  <2>8. \A a \in DOMAIN peerOf' : peerOf'[a] \in DOMAIN aliasOf' /\ aliasOf'[peerOf'[a]] = a
    BY <1>2, <2>2, <2>4, <2>5 DEF AliasesAreInverse
  <2> QED
    BY <2>4, <2>5, <2>6, <2>7, <2>8
<1> QED
    BY <1>1, <1>2

\* complete answers the client of the request, if there is one, and forgets
\* it.
LEMMA CompleteTypes ==
    ASSUME TypeOK, NEW q, NEW answer \in Answers, Complete(q, answer)
    PROVE  /\ RequestTypes' /\ nextReq' = nextReq
           /\ DOMAIN pending' = DOMAIN pending \ {q}
           /\ \A r \in DOMAIN pending' : pending'[r] = pending[r]
           /\ \A c \in Clients : \/ client'[c] = client[c]
                                 \/ q \in DOMAIN pending /\ client'[c] = answer
           /\ q \in DOMAIN pending => client'[pending[q]] = answer
<1>1. CASE q \in DOMAIN pending
  <2>1. /\ client' = [client EXCEPT ![pending[q]] = answer] /\ pending' = Drop(pending, q)
        /\ nextReq' = nextReq /\ pending[q] \in Clients
    BY <1>1 DEF Complete, TypeOK
  <2>2. /\ DOMAIN pending' = DOMAIN pending \ {q} /\ pending' \in [DOMAIN pending' -> Clients]
        /\ \A r \in DOMAIN pending' : pending'[r] = pending[r]
    BY <2>1 DEF TypeOK, Drop, Restrict
  <2> QED
    BY <1>1, <2>1, <2>2 DEF TypeOK, RequestTypes
<1>2. CASE q \notin DOMAIN pending
  <2>1. UNCHANGED reqVars
    BY <1>2 DEF Complete
  <2> QED
    BY <1>2, <2>1 DEF TypeOK, RequestTypes, reqVars
<1> QED
    BY <1>1, <1>2

\* register gives a new id to the client of the command.
LEMMA RegisterTypes ==
    ASSUME TypeOK, RegisterRequest, Head(events).client \in Clients
    PROVE  /\ nextReq' = nextReq + 1 /\ nextReq \in Nat \ {0} /\ nextReq \notin DOMAIN pending
           /\ DOMAIN pending' = DOMAIN pending \cup {nextReq}
           /\ pending'[nextReq] = Head(events).client
           /\ \A r \in DOMAIN pending : pending'[r] = pending[r]
           /\ DOMAIN pending' \subseteq 1..(nextReq' - 1) /\ pending' \in [DOMAIN pending' -> Clients]
<1>1. /\ nextReq' = nextReq + 1 /\ nextReq \in Nat \ {0}
      /\ pending' = Put(pending, nextReq, Head(events).client)
      /\ DOMAIN pending \subseteq 1..(nextReq - 1) /\ pending \in [DOMAIN pending -> Clients]
    BY DEF RegisterRequest, TypeOK
<1>2. nextReq \notin DOMAIN pending
    BY <1>1
<1> QED
    BY <1>1, <1>2 DEF Put

Registry == TypeOK /\ AliasesAreInverse

\* The registry is empty at first.
LEMMA InitRegistry ==
    Init => Registry
<1> SUFFICES ASSUME Init PROVE Registry
    OBVIOUS
<1>1. AliasesAreInverse
    BY DEF Init, AliasesAreInverse, Empty
<1>2. nextReq = 1 /\ nextAlias = 1 /\ 1..(1 - 1) = {} /\ events = <<>> /\ <<>> \in Seq(Events)
    BY DEF Init
<1>3. client \in [Clients -> Answers]
    BY DEF Init, Answers
<1>4. /\ aliasOf \in [DOMAIN aliasOf -> 1..(nextAlias - 1)] /\ DOMAIN aliasOf = {}
      /\ peerOf \in [DOMAIN peerOf -> Peers] /\ DOMAIN peerOf = {}
      /\ discovered \in [DOMAIN discovered -> Addrs] /\ DOMAIN discovered = {}
      /\ pending \in [DOMAIN pending -> Clients] /\ DOMAIN pending = {}
      /\ since \in [DOMAIN since -> SUBSET Peers] /\ DOMAIN since = {}
    BY DEF Init, Empty
<1> QED
    BY <1>1, <1>2, <1>3, <1>4 DEF Init, TypeOK, Registry

\* The network and the threads.
LEMMA WorldRegistry ==
    ASSUME Registry, NEW p \in Peers, Move(p) \/ Datagram(p) \/ Accept(p) \/ Hangup(p)
    PROVE  Registry'
<1>1. AliasesAreInverse'
    BY DEF Registry, AliasesAreInverse, Move, Datagram, Accept, Hangup, aliasVars
<1>2. CASE Move(p)
  <2>1. addrOf' \in [Peers -> Addrs]
    BY <1>2 DEF Move, Registry, TypeOK
  <2> QED
    BY <1>1, <1>2, <2>1 DEF Move, Registry, TypeOK, aliasVars, reqVars
<1>3. CASE Datagram(p)
  <2> DEFINE e == [type |-> "discovered", peer |-> p, addr |-> addrOf[p]]
  <2>1. e \in Events /\ e \notin Results
    BY DEF Events, Results, Registry, TypeOK
  <2>2. events' = Append(events, e) /\ nextReq' = nextReq
    BY <1>3 DEF Datagram, reqVars
  <2> HIDE DEF e
  <2>3. /\ events' \in Seq(Events)
        /\ \A i \in 1..Len(events') : events'[i] \in Results => events'[i].req < nextReq'
    BY <2>1, <2>2, QueueGrows DEF Registry
  <2> QED
    BY <1>1, <1>3, <2>3 DEF Datagram, Registry, TypeOK, aliasVars, reqVars
<1>4. CASE Accept(p)
  <2>1. Accepted(p) \in Threads /\ Accepted(p).req < nextReq /\ ~Accepted(p).announced
    BY DEF Accepted, Threads, Registry, TypeOK
  <2>2. dials' = dials \cup {Accepted(p)} /\ connected' \subseteq Peers
    BY <1>4 DEF Accept, Registry, TypeOK
  <2>3. dials' \subseteq Threads
        /\ \A d \in dials' : d.req < nextReq /\ (d.announced => d.result \in Peers)
    BY <2>1, <2>2 DEF Registry, TypeOK
  <2> QED
    BY <1>1, <1>4, <2>2, <2>3 DEF Accept, Registry, TypeOK, aliasVars, reqVars
<1>5. CASE Hangup(p)
  <2>1. connected' \subseteq Peers
    BY <1>5 DEF Hangup, Registry, TypeOK
  <2> QED
    BY <1>1, <1>5, <2>1 DEF Hangup, Registry, TypeOK, aliasVars, reqVars, worldVars
<1> QED
    BY <1>2, <1>3, <1>4, <1>5

\* A timer that fires queues a result of its own scan.
LEMMA TimerRegistry ==
    ASSUME Registry, NEW q \in timers, TimerFires(q)
    PROVE  Registry'
<1> DEFINE e == [type |-> "scanTimeout", req |-> q]
<1>1. q \in 1..(nextReq - 1) /\ nextReq \in Nat
    BY DEF Registry, TypeOK
<1>2. e \in Events /\ e.req < nextReq
    BY <1>1 DEF Events, Results
<1>3. events' = Append(events, e) /\ nextReq' = nextReq /\ timers' \subseteq timers
    BY DEF TimerFires, reqVars
<1> HIDE DEF e
<1>4. /\ events' \in Seq(Events)
      /\ \A i \in 1..Len(events') : events'[i] \in Results => events'[i].req < nextReq'
    BY <1>2, <1>3, QueueGrows DEF Registry
<1> QED
    BY <1>3, <1>4 DEF TimerFires, Registry, TypeOK, AliasesAreInverse, aliasVars, reqVars, worldVars

\* A connect thread queues what it has to say of its own request.
LEMMA DialRegistry ==
    ASSUME Registry, NEW d \in dials,
           DialSucceeds(d) \/ DialFails(d) \/ Announce(d) \/ DialReports(d)
    PROVE  Registry'
<1> USE DEF Registry
<1>1. d \in Threads /\ d.req \in Nat /\ d.req < nextReq /\ (d.announced => d.result \in Peers)
    BY DEF TypeOK, Threads
<1>2. AliasesAreInverse' /\ nextReq' = nextReq
    BY DEF AliasesAreInverse, DialSucceeds, DialFails, Announce, DialReports, aliasVars, reqVars
<1>3. ASSUME NEW e \in Threads, dials' \subseteq dials \cup {e},
             e.req < nextReq, e.announced => e.result \in Peers
      PROVE  /\ dials' \subseteq Threads
             /\ \A x \in dials' : x.req < nextReq /\ (x.announced => x.result \in Peers)
    BY <1>3 DEF TypeOK
<1>4. CASE DialSucceeds(d)
  <2>1. PICK p \in Peers : /\ connected' = connected \cup {p}
                           /\ dials' = (dials \ {d}) \cup {[d EXCEPT !.result = p]}
    BY <1>4 DEF DialSucceeds
  <2>2. ~d.announced
    BY <1>1, <1>4, NamesAssumption DEF DialSucceeds
  <2>3. /\ [d EXCEPT !.result = p] \in Threads /\ [d EXCEPT !.result = p].req = d.req
        /\ ~[d EXCEPT !.result = p].announced
    BY <1>1, <2>2 DEF Threads
  <2>4. /\ dials' \subseteq Threads
        /\ \A x \in dials' : x.req < nextReq /\ (x.announced => x.result \in Peers)
    BY <1>1, <1>3, <2>1, <2>3
  <2> QED
    BY <1>2, <1>4, <2>1, <2>4 DEF DialSucceeds, TypeOK, aliasVars, reqVars, worldVars
<1>5. CASE DialFails(d)
  <2>1. ~d.announced
    BY <1>1, <1>5, NamesAssumption DEF DialFails
  <2>2. /\ [d EXCEPT !.result = "failed"] \in Threads /\ [d EXCEPT !.result = "failed"].req = d.req
        /\ ~[d EXCEPT !.result = "failed"].announced
    BY <1>1, <2>1 DEF Threads
  <2>3. /\ dials' \subseteq Threads
        /\ \A x \in dials' : x.req < nextReq /\ (x.announced => x.result \in Peers)
    BY <1>1, <1>3, <1>5, <2>2 DEF DialFails
  <2> QED
    BY <1>2, <1>5, <2>3 DEF DialFails, TypeOK, aliasVars, reqVars, worldVars
<1>6. CASE Announce(d)
  <2>1. /\ [d EXCEPT !.announced = TRUE] \in Threads /\ [d EXCEPT !.announced = TRUE].req = d.req
        /\ [d EXCEPT !.announced = TRUE].result = d.result /\ d.result \in Peers
    BY <1>1, <1>6 DEF Threads, Announce
  <2>2. /\ dials' \subseteq Threads
        /\ \A x \in dials' : x.req < nextReq /\ (x.announced => x.result \in Peers)
    BY <1>1, <1>3, <1>6, <2>1 DEF Announce
  <2>3. /\ [type |-> "newConnection", peer |-> d.result] \in Events \ Results
        /\ events' = Append(events, [type |-> "newConnection", peer |-> d.result])
    BY <1>6, <2>1 DEF Announce, Events, Results
  <2>4. /\ events' \in Seq(Events)
        /\ \A i \in 1..Len(events') : events'[i] \in Results => events'[i].req < nextReq'
    BY <1>2, <2>3, QueueGrows
  <2> QED
    BY <1>2, <1>6, <2>2, <2>4 DEF Announce, TypeOK, aliasVars, reqVars, worldVars
<1>7. CASE DialReports(d)
  <2>1. /\ dials' \subseteq Threads
        /\ \A x \in dials' : x.req < nextReq /\ (x.announced => x.result \in Peers)
    BY <1>7 DEF DialReports, TypeOK
  <2>2. ConnectResult(d) \in Events /\ ConnectResult(d).req < nextReq
    BY <1>1, <1>7 DEF DialReports, ConnectResult, Events, Results
  <2>3. /\ events' \in Seq(Events)
        /\ \A i \in 1..Len(events') : events'[i] \in Results => events'[i].req < nextReq'
    BY <1>2, <1>7, <2>2, QueueGrows DEF DialReports, TypeOK
  <2> QED
    BY <1>2, <1>7, <2>1, <2>3 DEF DialReports, TypeOK, aliasVars, reqVars, worldVars
<1> QED
    BY <1>4, <1>5, <1>6, <1>7

\* A command's question is one event, a record of Commands.
LEMMA AskIs ==
    ASSUME NEW c \in Clients, \/ AskScan(c) \/ AskPeers(c)
                              \/ \E a \in 1..Cardinality(Peers) : AskConnect(c, a)
    PROVE  \E request \in Commands : request.client = c /\ Ask(c, request)
<1>1. CASE AskScan(c)
  <2>1. [type |-> "scan", client |-> c] \in Commands /\ [type |-> "scan", client |-> c].client = c
    BY DEF Commands
  <2> QED
    BY <1>1, <2>1 DEF AskScan
<1>2. CASE AskPeers(c)
  <2>1. [type |-> "peers", client |-> c] \in Commands /\ [type |-> "peers", client |-> c].client = c
    BY DEF Commands
  <2> QED
    BY <1>2, <2>1 DEF AskPeers
<1>3. ASSUME NEW a \in 1..Cardinality(Peers), AskConnect(c, a)
      PROVE  \E request \in Commands : request.client = c /\ Ask(c, request)
  <2> DEFINE request == [type |-> "connect", client |-> c, alias |-> a]
  <2>1. request \in Commands /\ request.client = c
    BY DEF Commands
  <2>2. Ask(c, request)
    BY <1>3 DEF AskConnect
  <2> HIDE DEF request
  <2> QED
    BY <2>1, <2>2
<1> QED
    BY <1>1, <1>2, <1>3

\* A command is queued.
LEMMA AskRegistry ==
    ASSUME Registry, NEW c \in Clients, NEW request \in Commands, Ask(c, request)
    PROVE  Registry'
<1>1. request \in Events /\ request \notin Results
    BY DEF Events, Commands, Results
<1>2. events' = Append(events, request) /\ nextReq' = nextReq
    BY DEF Ask
<1>3. /\ events' \in Seq(Events)
      /\ \A i \in 1..Len(events') : events'[i] \in Results => events'[i].req < nextReq'
    BY <1>1, <1>2, QueueGrows DEF Registry
<1>4. client' \in [Clients -> Answers]
    BY DEF Ask, Registry, TypeOK, Answers
<1> QED
    BY <1>3, <1>4 DEF Ask, Registry, TypeOK, AliasesAreInverse, aliasVars, worldVars

\* The event loop.
LEMMA HeadIs ==
    ASSUME TypeOK, NEW type, TakeEvent(type)
    PROVE  /\ type = "discovered" => Head(events).peer \in Peers /\ Head(events).addr \in Addrs
           /\ type = "newConnection" => Head(events).peer \in Peers
           /\ type \in {"scan", "peers", "connect"} => /\ Head(events) \in Commands
                                                       /\ Head(events).client \in Clients
           /\ type \in {"scanTimeout", "connectResult"} => /\ Head(events) \in Results
                                                           /\ Head(events).req \in Nat
           /\ type = "connectResult" => Head(events).result \in Peers \cup {"failed"}
           /\ Head(events) \in Results => type \in {"scanTimeout", "connectResult"}
           /\ Head(events) \in Commands => type \in {"scan", "peers", "connect"}
<1>1. Head(events) \in Events /\ Head(events).type = type
    BY HeadTailProperties DEF TypeOK, TakeEvent
<1> QED
    BY <1>1 DEF Events, Commands, Results

\* A discovered or connected peer has an alias from then on, and no other
\* alias changes.
LEMMA PeerRegistry ==
    ASSUME Registry, HandleDiscovered \/ HandleNewConnection
    PROVE  /\ Registry' /\ Head(events).peer \in Peers
           /\ DOMAIN aliasOf' = DOMAIN aliasOf \cup {Head(events).peer}
           /\ \A a \in DOMAIN peerOf : a \in DOMAIN peerOf' /\ peerOf'[a] = peerOf[a]
<1> USE DEF Registry
<1> DEFINE p == Head(events).peer
<1>1. p \in Peers /\ nextReq' = nextReq /\ nextReq \in Nat
    BY HeadIs DEF HandleDiscovered, HandleNewConnection, reqVars, TypeOK
<1>2. /\ events' \in Seq(Events)
      /\ \A i \in 1..Len(events') : events'[i] \in Results => events'[i].req < nextReq'
    BY <1>1, QueueShrinks DEF HandleDiscovered, HandleNewConnection
<1>3. AddPeer(p)
    BY DEF HandleDiscovered, HandleNewConnection
<1> HIDE DEF p
<1>4. /\ AliasTypes' /\ DOMAIN aliasOf' = DOMAIN aliasOf \cup {p}
      /\ \A q \in DOMAIN aliasOf' : aliasOf'[q] \in DOMAIN peerOf' /\ peerOf'[aliasOf'[q]] = q
      /\ \A a \in DOMAIN peerOf' : peerOf'[a] \in DOMAIN aliasOf' /\ aliasOf'[peerOf'[a]] = a
      /\ \A a \in DOMAIN peerOf : a \in DOMAIN peerOf' /\ peerOf'[a] = peerOf[a]
    BY <1>1, <1>3, AddPeerTypes
<1>5. CASE HandleDiscovered
  <2>1. /\ DOMAIN discovered' \subseteq DOMAIN discovered \cup {p}
        /\ discovered' \in [DOMAIN discovered' -> Addrs]
    BY <1>1, <1>5, HeadIs DEF HandleDiscovered, TypeOK, Put, p
  <2>2. DOMAIN since' = DOMAIN since /\ since' \in [DOMAIN since' -> SUBSET Peers]
    BY <1>1, <1>5 DEF HandleDiscovered, TypeOK, p
  <2>3. AliasesAreInverse'
    BY <1>4, <2>1 DEF AliasesAreInverse
  <2>4. TypeOK'
    BY <1>1, <1>2, <1>4, <1>5, <2>1, <2>2
    DEF HandleDiscovered, TakeEvent, TypeOK, AliasTypes, reqVars, worldVars
  <2> QED
    BY <1>1, <1>4, <2>3, <2>4 DEF p
<1>6. CASE HandleNewConnection
  <2>1. AliasesAreInverse'
    BY <1>4, <1>6 DEF AliasesAreInverse, HandleNewConnection
  <2>2. TypeOK'
    BY <1>1, <1>2, <1>4, <1>6
    DEF HandleNewConnection, TakeEvent, TypeOK, AliasTypes, reqVars, worldVars
  <2> QED
    BY <1>1, <1>4, <2>1, <2>2 DEF p
<1> QED
    BY <1>5, <1>6

\* A scan gets a new id, clears the table, and has heard nothing yet.
LEMMA ScanRegistry ==
    ASSUME Registry, HandleScan \/ HandleScanFails
    PROVE  /\ Registry' /\ nextReq' = nextReq + 1 /\ DOMAIN discovered' = {}
           /\ DOMAIN since' = DOMAIN since \cup {nextReq} /\ since'[nextReq] = {}
           /\ \A q \in DOMAIN since : since'[q] = since[q]
<1> USE DEF Registry
<1>1. Head(events).client \in Clients /\ nextReq \in Nat \ {0} /\ nextReq' = nextReq + 1
    BY HeadIs DEF HandleScan, HandleScanFails, RegisterRequest, TypeOK
<1>2. /\ events' \in Seq(Events)
      /\ \A i \in 1..Len(events') : events'[i] \in Results => events'[i].req < nextReq'
    BY <1>1, QueueShrinks DEF HandleScan, HandleScanFails
<1>3. DOMAIN discovered' = {} /\ discovered' \in [DOMAIN discovered' -> Addrs]
    BY DEF HandleScan, HandleScanFails, Empty
<1>4. DOMAIN since \subseteq 1..(nextReq - 1) /\ since \in [DOMAIN since -> SUBSET Peers]
    BY DEF TypeOK
<1>5. since' = Put(since, nextReq, {}) /\ nextReq \notin DOMAIN since
    BY <1>1, <1>4 DEF HandleScan, HandleScanFails
<1>6. /\ DOMAIN since' = DOMAIN since \cup {nextReq} /\ since'[nextReq] = {}
      /\ \A q \in DOMAIN since : since'[q] = since[q]
      /\ since' \in [DOMAIN since' -> SUBSET Peers] /\ DOMAIN since' \subseteq 1..(nextReq' - 1)
    BY <1>1, <1>4, <1>5 DEF Put
<1>7. AliasesAreInverse'
    BY <1>3 DEF AliasesAreInverse, HandleScan, HandleScanFails, aliasVars
<1>8. \A d \in dials : d.req < nextReq'
    BY <1>1 DEF TypeOK, Threads
<1>9. CASE HandleScan
  <2>1. DOMAIN pending' \subseteq 1..(nextReq' - 1) /\ pending' \in [DOMAIN pending' -> Clients]
    BY <1>1, <1>9, RegisterTypes DEF HandleScan
  <2>2. timers' \subseteq 1..(nextReq' - 1)
    BY <1>1, <1>9 DEF HandleScan, TypeOK
  <2> QED
    BY <1>1, <1>2, <1>3, <1>6, <1>7, <1>8, <1>9, <2>1, <2>2
    DEF HandleScan, TakeEvent, TypeOK, aliasVars, worldVars
<1>10. CASE HandleScanFails
  <2>1. client' \in [Clients -> Answers]
    BY <1>1, <1>10 DEF HandleScanFails, TypeOK, Answers
  <2>2. DOMAIN pending' \subseteq 1..(nextReq' - 1) /\ timers' \subseteq 1..(nextReq' - 1)
    BY <1>1, <1>10 DEF HandleScanFails, TypeOK
  <2> QED
    BY <1>1, <1>2, <1>3, <1>6, <1>7, <1>8, <1>10, <2>1, <2>2
    DEF HandleScanFails, TakeEvent, TypeOK, aliasVars, worldVars
<1> QED
    BY <1>9, <1>10

\* A connect registers and starts its thread.
LEMMA ConnectRegistry ==
    ASSUME Registry, HandleConnect
    PROVE  Registry'
<1> USE DEF Registry
<1>1. Head(events).client \in Clients /\ nextReq \in Nat \ {0} /\ nextReq' = nextReq + 1
    BY HeadIs DEF HandleConnect, RegisterRequest, TypeOK
<1>2. /\ events' \in Seq(Events)
      /\ \A i \in 1..Len(events') : events'[i] \in Results => events'[i].req < nextReq'
  <2>1. nextReq' \in Nat /\ nextReq' >= nextReq /\ TakeEvent("connect")
    BY <1>1 DEF HandleConnect
  <2> QED
    BY <2>1, QueueShrinks
<1>3. DOMAIN pending' \subseteq 1..(nextReq' - 1) /\ pending' \in [DOMAIN pending' -> Clients]
    BY <1>1, RegisterTypes DEF HandleConnect
<1>4. PICK p \in Named(Head(events).alias) : dials' = dials \cup {Dial(nextReq, discovered[p])}
    BY DEF HandleConnect
<1>5. discovered[p] \in Addrs
    BY DEF Named, TypeOK
<1>6. /\ Dial(nextReq, discovered[p]) \in Threads
      /\ Dial(nextReq, discovered[p]).req = nextReq /\ ~Dial(nextReq, discovered[p]).announced
    BY <1>1, <1>5 DEF Dial, Threads
<1>7. \A d \in dials : d.req < nextReq'
    BY <1>1 DEF TypeOK, Threads
<1>8. /\ dials' \subseteq Threads
      /\ \A d \in dials' : d.req < nextReq' /\ (d.announced => d.result \in Peers)
    BY <1>1, <1>4, <1>6, <1>7 DEF TypeOK
<1>9. timers \subseteq 1..(nextReq' - 1) /\ DOMAIN since \subseteq 1..(nextReq' - 1)
    BY <1>1 DEF TypeOK
<1> QED
    BY <1>1, <1>2, <1>3, <1>8, <1>9
    DEF HandleConnect, TakeEvent, TypeOK, AliasesAreInverse, aliasVars, worldVars

\* The handlers that only answer leave the registry as it is.
LEMMA AnswerRegistry ==
    ASSUME Registry, HandleScanTimeout \/ HandleConnectUnknown \/ HandleConnectResult \/ HandlePeers
    PROVE  Registry' /\ UNCHANGED <<timers, dials, aliasVars, discovered, since, nextReq>>
<1> USE DEF Registry
<1>1. RequestTypes' /\ nextReq' = nextReq
  <2>1. CASE HandleScanTimeout
    <3>1. Head(events).req \in Nat /\ DOMAIN discovered \subseteq Peers
        BY <2>1, HeadIs DEF HandleScanTimeout, TypeOK
    <3>2. [state |-> "scanned", req |-> Head(events).req, found |-> DOMAIN discovered] \in Answers
        BY <3>1 DEF Answers
    <3> QED
        BY <2>1, <3>2, CompleteTypes DEF HandleScanTimeout
  <2>2. CASE HandleConnectResult
    <3> DEFINE answer == IF Head(events).result = "failed" THEN [state |-> "failed"]
                         ELSE [state |-> "connected", peer |-> Head(events).result]
    <3>1. answer \in Answers
        BY <2>2, HeadIs DEF HandleConnectResult, Answers
    <3>2. Complete(Head(events).req, answer)
        BY <2>2 DEF HandleConnectResult
    <3> QED
        BY <3>1, <3>2, CompleteTypes
  <2>3. CASE HandleConnectUnknown
    BY <2>3, HeadIs DEF HandleConnectUnknown, AnswerNow, Answers, RequestTypes, TypeOK
  <2>4. CASE HandlePeers
    <3>1. {a \in DOMAIN peerOf : peerOf[a] \in connected} \subseteq Nat
        BY DEF TypeOK
    <3> QED
        BY <2>4, <3>1, HeadIs DEF HandlePeers, AnswerNow, Answers, RequestTypes, TypeOK
  <2> QED
    BY <2>1, <2>2, <2>3, <2>4
<1>2. nextReq \in Nat /\ UNCHANGED <<timers, dials, aliasVars, discovered, since, worldVars, connected>>
    BY DEF TypeOK, HandleScanTimeout, HandleConnectUnknown, HandleConnectResult, HandlePeers, TakeEvent
<1>3. /\ events' \in Seq(Events)
      /\ \A i \in 1..Len(events') : events'[i] \in Results => events'[i].req < nextReq'
    BY <1>1, <1>2, QueueShrinks
    DEF HandleScanTimeout, HandleConnectUnknown, HandleConnectResult, HandlePeers
<1> QED
    BY <1>1, <1>2, <1>3 DEF TypeOK, AliasesAreInverse, RequestTypes, aliasVars, worldVars

\* Every step keeps the registry.
LEMMA NextRegistry ==
    ASSUME Registry, [Next]_vars
    PROVE  Registry'
<1>1. CASE UNCHANGED vars
    BY <1>1 DEF vars, worldVars, aliasVars, reqVars, Registry, TypeOK, AliasesAreInverse
<1>2. ASSUME NEW c \in Clients, \/ AskScan(c) \/ AskPeers(c)
                                \/ \E a \in 1..Cardinality(Peers) : AskConnect(c, a)
      PROVE  Registry'
    BY <1>2, AskIs, AskRegistry
<1>3. CASE EventLoop
    BY <1>3, PeerRegistry, ScanRegistry, ConnectRegistry, AnswerRegistry DEF EventLoop
<1> QED
    BY <1>1, <1>2, <1>3, WorldRegistry, TimerRegistry, DialRegistry DEF Next

-----------------------------------------------------------------------------
(* The order of an announcement and the result after it.                   *)

\* NamedBefore in the next state.
NamedNext(p, i) ==
    p \in DOMAIN aliasOf' \/ \E j \in 1..(i - 1) : /\ events'[j].type = "newConnection"
                                                  /\ events'[j].peer = p

\* When the head has been handled, every other event has moved up by one.
LEMMA NamedShrinks ==
    ASSUME TypeOK, NEW type, TakeEvent(type), nextReq' \in Nat, nextReq' >= nextReq,
           DOMAIN aliasOf \subseteq DOMAIN aliasOf',
           type = "newConnection" => Head(events).peer \in DOMAIN aliasOf',
           NEW p, NEW i \in 1..Len(events), NamedBefore(p, i + 1)
    PROVE  NamedNext(p, i)
<1>1. /\ Len(events) \in Nat \ {0} /\ Head(events) = events[1] /\ Head(events).type = type
      /\ Len(events') = Len(events) - 1
      /\ \A j \in 1..Len(events') : events'[j] = events[j + 1]
    BY QueueShrinks
<1>2. CASE p \in DOMAIN aliasOf
    BY <1>2 DEF NamedBefore, NamedNext
<1>3. ASSUME NEW j \in 1..i, events[j].type = "newConnection", events[j].peer = p
      PROVE  NamedNext(p, i)
  <2>1. CASE j = 1
    BY <1>1, <1>3, <2>1 DEF NamedBefore, NamedNext
  <2>2. CASE j # 1
    <3>1. j - 1 \in 1..(i - 1) /\ j - 1 \in 1..Len(events') /\ (j - 1) + 1 = j
        BY <1>1, <2>2
    <3>2. events'[j - 1] = events[j]
        BY <1>1, <3>1
    <3> QED
        BY <1>3, <3>1, <3>2 DEF NamedBefore, NamedNext
  <2> QED
    BY <2>1, <2>2
<1> QED
    BY <1>2, <1>3 DEF NamedBefore, NamedNext

\* One more event in the queue, which reports no peer or a named one.
LEMMA OrderGrows ==
    ASSUME TypeOK, AnnouncedBeforeReported, NEW e \in Events, events' = Append(events, e),
           UNCHANGED aliasOf,
           (e.type = "connectResult" /\ e.result \in Peers) => NamedBefore(e.result, Len(events) + 1),
           \A d \in dials' : d.announced =>
               NamedBefore(d.result, Len(events) + 1) \/ e = [type |-> "newConnection", peer |-> d.result]
    PROVE  AnnouncedBeforeReported'
<1>1. /\ Len(events) \in Nat /\ Len(events') = Len(events) + 1
      /\ events'[Len(events) + 1] = e
      /\ \A i \in 1..Len(events) : events'[i] = events[i]
    BY AppendProperties DEF TypeOK
<1>2. ASSUME NEW i \in 1..Len(events'), events'[i].type = "connectResult", events'[i].result \in Peers
      PROVE  NamedNext(events'[i].result, i)
  <2>1. NamedBefore(events'[i].result, i) /\ i \in 1..(Len(events) + 1)
    <3>1. CASE i = Len(events) + 1
        BY <1>1, <1>2, <3>1
    <3>2. CASE i \in 1..Len(events)
        BY <1>1, <1>2, <3>2 DEF AnnouncedBeforeReported, NamedBefore, NamedNext
    <3> QED
        BY <1>1, <3>1, <3>2
  <2> DEFINE p == events'[i].result
  <2>2. NamedBefore(p, i)
    BY <2>1
  <2> HIDE DEF p
  <2>3. \A j \in 1..(i - 1) : events'[j] = events[j]
    BY <1>1, <2>1
  <2>4. \/ p \in DOMAIN aliasOf'
        \/ \E j \in 1..(i - 1) : events'[j].type = "newConnection" /\ events'[j].peer = p
    BY <2>2, <2>3 DEF NamedBefore, NamedNext
  <2> QED
    BY <2>4 DEF NamedBefore, NamedNext, p
<1>3. ASSUME NEW d \in dials', d.announced
      PROVE  NamedNext(d.result, Len(events) + 2)
  <2>1. CASE NamedBefore(d.result, Len(events) + 1)
    <3> DEFINE p == d.result
    <3> HIDE DEF p
    <3>1. NamedBefore(p, Len(events) + 1)
        BY <2>1 DEF p
    <3>2. NamedNext(p, Len(events) + 2)
        BY <1>1, <3>1 DEF NamedBefore, NamedNext
    <3> QED
        BY <3>2 DEF p
  <2>2. CASE e = [type |-> "newConnection", peer |-> d.result]
    <3>1. Len(events) + 1 \in 1..((Len(events) + 2) - 1)
        BY <1>1
    <3>2. events'[Len(events) + 1].type = "newConnection" /\ events'[Len(events) + 1].peer = d.result
        BY <1>1, <2>2
    <3> QED
        BY <3>1, <3>2 DEF NamedBefore, NamedNext
  <2> QED
    BY <1>3, <2>1, <2>2
<1>4. Len(events') + 1 = Len(events) + 2
    BY <1>1
<1> QED
    BY <1>2, <1>3, <1>4 DEF AnnouncedBeforeReported, NamedBefore, NamedNext

\* The order of announcements survives a handler, if the one at the front
\* names its peer.
LEMMA OrderShrinks ==
    ASSUME TypeOK, AnnouncedBeforeReported, NEW type, TakeEvent(type),
           nextReq' \in Nat, nextReq' >= nextReq,
           DOMAIN aliasOf \subseteq DOMAIN aliasOf',
           type = "newConnection" => Head(events).peer \in DOMAIN aliasOf',
           \A d \in dials' : d.announced => d \in dials
    PROVE  AnnouncedBeforeReported'
<1>1. /\ Len(events) \in Nat \ {0} /\ Len(events') = Len(events) - 1
      /\ \A j \in 1..Len(events') : events'[j] = events[j + 1]
    BY QueueShrinks
<1>2. ASSUME NEW i \in 1..Len(events'), events'[i].type = "connectResult", events'[i].result \in Peers
      PROVE  NamedNext(events'[i].result, i)
  <2>1. events'[i] = events[i + 1] /\ i + 1 \in 1..Len(events) /\ i \in 1..Len(events)
    BY <1>1
  <2>2. NamedBefore(events[i + 1].result, i + 1)
    BY <1>2, <2>1 DEF AnnouncedBeforeReported, NamedBefore, NamedNext
  <2>3. ASSUME NEW p, p = events[i + 1].result PROVE NamedNext(p, i)
    BY <2>1, <2>2, <2>3, NamedShrinks
  <2> QED
    BY <2>1, <2>3 DEF NamedBefore, NamedNext
<1>3. ASSUME NEW d \in dials', d.announced
      PROVE  NamedNext(d.result, Len(events') + 1)
  <2> DEFINE p == d.result
             n == Len(events)
  <2>1. NamedBefore(p, n + 1) /\ n \in 1..Len(events) /\ n = Len(events') + 1
    BY <1>1, <1>3 DEF AnnouncedBeforeReported
  <2> HIDE DEF p, n
  <2>2. NamedNext(p, n)
    BY <2>1, NamedShrinks
  <2>3. NamedNext(p, Len(events') + 1)
    BY <2>1, <2>2
  <2> QED
    BY <2>3 DEF p
<1>4. \A i \in 1..Len(events') :
          (events'[i].type = "connectResult" /\ events'[i].result \in Peers) =>
              NamedNext(events'[i].result, i)
    BY <1>2
<1>5. \A d \in dials' : d.announced => NamedNext(d.result, Len(events') + 1)
    BY <1>3
<1> QED
    BY <1>4, <1>5 DEF AnnouncedBeforeReported, NamedBefore, NamedNext

\* Every step keeps announcements before results.
LEMMA NextOrder ==
    ASSUME Registry, AnnouncedBeforeReported, [Next]_vars
    PROVE  AnnouncedBeforeReported'
<1> USE DEF Registry
<1>1. ASSUME UNCHANGED <<events, aliasOf>>, \A d \in dials' : d.announced => d \in dials
      PROVE  AnnouncedBeforeReported'
    BY <1>1 DEF AnnouncedBeforeReported, NamedBefore
<1>2. CASE UNCHANGED vars
    BY <1>1, <1>2 DEF vars, aliasVars
<1>3. ASSUME NEW p \in Peers, Move(p) \/ Datagram(p) \/ Accept(p) \/ Hangup(p)
      PROVE  AnnouncedBeforeReported'
  <2>1. CASE Datagram(p)
    <3> DEFINE e == [type |-> "discovered", peer |-> p, addr |-> addrOf[p]]
    <3>1. e \in Events /\ e.type # "connectResult"
        BY DEF Events, TypeOK
    <3>2. events' = Append(events, e) /\ UNCHANGED <<aliasOf, dials>>
        BY <2>1 DEF Datagram, aliasVars
    <3> HIDE DEF e
    <3>3. \A d \in dials' : d.announced => NamedBefore(d.result, Len(events) + 1)
        BY <3>2 DEF AnnouncedBeforeReported
    <3> QED
        BY <3>1, <3>2, <3>3, OrderGrows
  <2>2. CASE Accept(p)
    <3>1. \A d \in dials' : d.announced => d \in dials
        BY <2>2 DEF Accept, Accepted
    <3> QED
        BY <1>1, <2>2, <3>1 DEF Accept, aliasVars
  <2>3. CASE Move(p) \/ Hangup(p)
    BY <1>1, <2>3 DEF Move, Hangup, aliasVars
  <2> QED
    BY <1>3, <2>1, <2>2, <2>3
<1>4. ASSUME NEW q \in timers, TimerFires(q) PROVE AnnouncedBeforeReported'
  <2> DEFINE e == [type |-> "scanTimeout", req |-> q]
  <2>1. e \in Events /\ e.type # "connectResult"
    BY DEF Events, Results, TypeOK
  <2>2. events' = Append(events, e) /\ UNCHANGED <<aliasOf, dials>>
    BY <1>4 DEF TimerFires, aliasVars
  <2> HIDE DEF e
  <2>3. \A d \in dials' : d.announced => NamedBefore(d.result, Len(events) + 1)
    BY <2>2 DEF AnnouncedBeforeReported
  <2> QED
    BY <2>1, <2>2, <2>3, OrderGrows
<1>5. ASSUME NEW d \in dials, DialSucceeds(d) \/ DialFails(d) \/ Announce(d) \/ DialReports(d)
      PROVE  AnnouncedBeforeReported'
  <2>1. d \in Threads /\ (d.announced => d.result \in Peers)
    BY DEF TypeOK
  <2>2. CASE DialSucceeds(d) \/ DialFails(d)
    <3>1. ~d.announced
        BY <2>1, <2>2, NamesAssumption DEF DialSucceeds, DialFails
    <3>2. \A r : [d EXCEPT !.result = r].announced = d.announced
        BY <2>1 DEF Threads
    <3>3. \A x \in dials' : x.announced => x \in dials
        BY <2>2, <3>1, <3>2 DEF DialSucceeds, DialFails
    <3> QED
        BY <1>1, <2>2, <3>3 DEF DialSucceeds, DialFails, aliasVars
  <2>3. CASE Announce(d)
    <3> DEFINE e == [type |-> "newConnection", peer |-> d.result]
    <3>1. e \in Events /\ e.type # "connectResult"
        BY <2>3 DEF Announce, Events
    <3>2. events' = Append(events, e) /\ UNCHANGED aliasOf
        BY <2>3 DEF Announce, aliasVars
    <3>3. \A x \in dials' : x.announced => NamedBefore(x.result, Len(events) + 1)
                                          \/ e = [type |-> "newConnection", peer |-> x.result]
      <4>1. [d EXCEPT !.announced = TRUE].result = d.result
        BY <2>1 DEF Threads
      <4> QED
        BY <2>3, <4>1 DEF Announce, AnnouncedBeforeReported
    <3> HIDE DEF e
    <3> QED
        BY <3>1, <3>2, <3>3, OrderGrows
  <2>4. CASE DialReports(d) /\ d.req = 0
    BY <1>1, <2>4 DEF DialReports, aliasVars
  <2>5. CASE DialReports(d) /\ d.req # 0
    <3> DEFINE e == ConnectResult(d)
    <3>1. e \in Events /\ e.type = "connectResult" /\ e.result = d.result
        BY <2>1, <2>5 DEF DialReports, Events, Results, Threads, ConnectResult
    <3>2. e.result \in Peers => NamedBefore(e.result, Len(events) + 1)
        BY <2>5, <3>1, NamesAssumption DEF DialReports, AnnouncedBeforeReported
    <3>3. events' = Append(events, e) /\ UNCHANGED aliasOf /\ dials' \subseteq dials
        BY <2>5 DEF DialReports, aliasVars
    <3> HIDE DEF e
    <3>4. \A x \in dials' : x.announced => NamedBefore(x.result, Len(events) + 1)
        BY <3>3 DEF AnnouncedBeforeReported
    <3> QED
        BY <3>1, <3>2, <3>3, <3>4, OrderGrows
  <2> QED
    BY <1>5, <2>2, <2>3, <2>4, <2>5
<1>6. ASSUME NEW c \in Clients, NEW request \in Commands, Ask(c, request)
      PROVE  AnnouncedBeforeReported'
  <2>1. request \in Events /\ request.type # "connectResult"
    BY DEF Events, Commands
  <2>2. events' = Append(events, request) /\ UNCHANGED <<aliasOf, dials>>
    BY <1>6 DEF Ask, aliasVars
  <2>3. \A d \in dials' : d.announced => NamedBefore(d.result, Len(events) + 1)
    BY <2>2 DEF AnnouncedBeforeReported
  <2> QED
    BY <2>1, <2>2, <2>3, OrderGrows
<1>7. ASSUME NEW c \in Clients, \/ AskScan(c) \/ AskPeers(c)
                                \/ \E a \in 1..Cardinality(Peers) : AskConnect(c, a)
      PROVE  AnnouncedBeforeReported'
    BY <1>6, <1>7, AskIs
<1>8. CASE EventLoop
  <2>1. CASE HandleDiscovered \/ HandleNewConnection
    <3>1. /\ Head(events).peer \in DOMAIN aliasOf' /\ DOMAIN aliasOf \subseteq DOMAIN aliasOf'
          /\ dials' = dials /\ nextReq' = nextReq /\ nextReq \in Nat
        BY <2>1, PeerRegistry DEF HandleDiscovered, HandleNewConnection, reqVars, TypeOK
    <3>2. TakeEvent("discovered") \/ TakeEvent("newConnection")
        BY <2>1 DEF HandleDiscovered, HandleNewConnection
    <3> QED
        BY <3>1, <3>2, OrderShrinks
  <2>2. CASE HandleScan \/ HandleScanFails
    <3>1. TakeEvent("scan") /\ UNCHANGED <<dials, aliasOf>> /\ nextReq' = nextReq + 1 /\ nextReq \in Nat
        BY <2>2 DEF HandleScan, HandleScanFails, RegisterRequest, aliasVars, TypeOK
    <3> QED
        BY <3>1, OrderShrinks
  <2>3. CASE HandleConnect
    <3>1. TakeEvent("connect") /\ UNCHANGED aliasOf /\ nextReq' = nextReq + 1 /\ nextReq \in Nat
        BY <2>3 DEF HandleConnect, RegisterRequest, aliasVars, TypeOK
    <3>2. \A d \in dials' : d.announced => d \in dials
        BY <2>3 DEF HandleConnect, Dial
    <3> QED
        BY <3>1, <3>2, OrderShrinks
  <2>4. CASE HandleScanTimeout \/ HandleConnectUnknown \/ HandleConnectResult \/ HandlePeers
    <3>1. UNCHANGED <<dials, aliasOf, nextReq>> /\ nextReq \in Nat
        BY <2>4, AnswerRegistry DEF aliasVars, TypeOK
    <3>2. TakeEvent("scanTimeout") \/ TakeEvent("connect") \/ TakeEvent("connectResult") \/ TakeEvent("peers")
        BY <2>4 DEF HandleScanTimeout, HandleConnectUnknown, HandleConnectResult, HandlePeers
    <3> QED
        BY <3>1, <3>2, OrderShrinks
  <2> QED
    BY <1>8, <2>1, <2>2, <2>3, <2>4 DEF EventLoop
<1> QED
    BY <1>2, <1>3, <1>4, <1>5, <1>7, <1>8 DEF Next

-----------------------------------------------------------------------------
(* The table of discovered peers and the scans.                            *)

\* Every step keeps the table at what was heard since the last scan.
LEMMA NextHeard ==
    ASSUME Registry, DiscoveredIsLastScan, [Next]_vars
    PROVE  DiscoveredIsLastScan'
<1> USE DEF Registry
<1>1. nextReq \in Nat \ {0} /\ DOMAIN since \subseteq 1..(nextReq - 1)
      /\ DOMAIN discovered \subseteq Peers
    BY DEF TypeOK
<1>2. CASE UNCHANGED vars
    BY <1>2 DEF vars, DiscoveredIsLastScan
<1>3. ASSUME NEW e \in Events, events' = Append(events, e), e.type # "scanTimeout",
             UNCHANGED <<discovered, since, timers>>
      PROVE  DiscoveredIsLastScan'
  <2>1. /\ Len(events) \in Nat /\ Len(events') = Len(events) + 1
        /\ events'[Len(events) + 1] = e
        /\ \A i \in 1..Len(events) : events'[i] = events[i]
    BY <1>3, AppendProperties DEF TypeOK
  <2>2. \A i \in 1..Len(events') : events'[i].type = "scanTimeout" => events'[i].req \in DOMAIN since'
    BY <1>3, <2>1 DEF DiscoveredIsLastScan
  <2> QED
    BY <1>3, <2>2 DEF DiscoveredIsLastScan
<1>4. ASSUME UNCHANGED <<events, discovered, since, timers>> PROVE DiscoveredIsLastScan'
    BY <1>4 DEF DiscoveredIsLastScan
<1>5. ASSUME NEW p \in Peers, Move(p) \/ Datagram(p) \/ Accept(p) \/ Hangup(p)
      PROVE  DiscoveredIsLastScan'
  <2>1. [type |-> "discovered", peer |-> p, addr |-> addrOf[p]] \in Events
    BY DEF Events, TypeOK
  <2>2. CASE Datagram(p)
    BY <1>3, <2>1, <2>2 DEF Datagram
  <2> QED
    BY <1>4, <1>5, <2>2 DEF Move, Accept, Hangup
<1>6. ASSUME NEW q \in timers, TimerFires(q) PROVE DiscoveredIsLastScan'
  <2> DEFINE e == [type |-> "scanTimeout", req |-> q]
  <2>1. e \in Events /\ e.req \in DOMAIN since
    BY DEF Events, Results, TypeOK, DiscoveredIsLastScan
  <2>2. events' = Append(events, e) /\ UNCHANGED <<discovered, since>> /\ timers' \subseteq timers
    BY <1>6 DEF TimerFires
  <2> HIDE DEF e
  <2>3. /\ Len(events) \in Nat /\ Len(events') = Len(events) + 1
        /\ events'[Len(events) + 1] = e
        /\ \A i \in 1..Len(events) : events'[i] = events[i]
    BY <2>1, <2>2, AppendProperties DEF TypeOK
  <2>4. \A i \in 1..Len(events') : events'[i].type = "scanTimeout" => events'[i].req \in DOMAIN since'
    BY <2>1, <2>2, <2>3 DEF DiscoveredIsLastScan
  <2> QED
    BY <2>2, <2>4 DEF DiscoveredIsLastScan
<1>7. ASSUME NEW d \in dials, DialSucceeds(d) \/ DialFails(d) \/ Announce(d) \/ DialReports(d)
      PROVE  DiscoveredIsLastScan'
  <2>1. d \in Threads /\ (d.announced => d.result \in Peers)
    BY DEF TypeOK
  <2>2. CASE DialSucceeds(d) \/ DialFails(d)
    BY <1>4, <2>2 DEF DialSucceeds, DialFails
  <2>3. CASE Announce(d)
    <3>1. [type |-> "newConnection", peer |-> d.result] \in Events
        BY <2>3 DEF Announce, Events
    <3> QED
        BY <1>3, <2>3, <3>1 DEF Announce
  <2>4. CASE DialReports(d)
    <3>1. ConnectResult(d) \in Events /\ ConnectResult(d).type # "scanTimeout"
        BY <2>1, <2>4 DEF DialReports, Events, Results, Threads, ConnectResult
    <3> QED
        BY <1>3, <1>4, <2>4, <3>1 DEF DialReports
  <2> QED
    BY <1>7, <2>2, <2>3, <2>4
<1>8. ASSUME NEW c \in Clients, NEW request \in Commands, Ask(c, request)
      PROVE  DiscoveredIsLastScan'
  <2>1. request \in Events /\ request.type # "scanTimeout"
    BY DEF Events, Commands
  <2> QED
    BY <1>3, <1>8, <2>1 DEF Ask
<1>9. ASSUME NEW c \in Clients, \/ AskScan(c) \/ AskPeers(c)
                                \/ \E a \in 1..Cardinality(Peers) : AskConnect(c, a)
      PROVE  DiscoveredIsLastScan'
    BY <1>8, <1>9, AskIs
\* What the event loop takes leaves the later events as they were.
<1>10. ASSUME NEW type, TakeEvent(type), nextReq' \in Nat, nextReq' >= nextReq,
              DOMAIN since \subseteq DOMAIN since'
       PROVE  \A i \in 1..Len(events') :
                  events'[i].type = "scanTimeout" => events'[i].req \in DOMAIN since'
  <2>1. /\ Len(events) \in Nat \ {0} /\ Len(events') = Len(events) - 1
        /\ \A i \in 1..Len(events') : events'[i] = events[i + 1]
    BY <1>10, QueueShrinks
  <2>2. \A i \in 1..Len(events') : i + 1 \in 1..Len(events)
    BY <2>1
  <2> QED
    BY <1>10, <2>1, <2>2 DEF DiscoveredIsLastScan
<1>11. CASE HandleDiscovered
  <2> DEFINE p == Head(events).peer
  <2>1. /\ TakeEvent("discovered") /\ UNCHANGED <<timers, nextReq>>
        /\ since' = [q \in DOMAIN since |-> since[q] \cup {p}]
        /\ discovered' = IF p \in DOMAIN discovered THEN discovered
                         ELSE Put(discovered, p, Head(events).addr)
    BY <1>11 DEF HandleDiscovered, reqVars
  <2>2. DOMAIN discovered' = DOMAIN discovered \cup {p}
    BY <2>1 DEF Put
  <2>3. DOMAIN since' = DOMAIN since /\ \A q \in DOMAIN since : since'[q] = since[q] \cup {p}
    BY <2>1
  <2>4. \A i \in 1..Len(events') : events'[i].type = "scanTimeout" => events'[i].req \in DOMAIN since'
    BY <1>1, <1>10, <2>1, <2>3
  <2> HIDE DEF p
  <2> QED
    BY <2>1, <2>2, <2>3, <2>4 DEF DiscoveredIsLastScan
<1>12. CASE HandleNewConnection
    BY <1>1, <1>10, <1>12 DEF HandleNewConnection, DiscoveredIsLastScan, reqVars
<1>13. CASE HandleScan \/ HandleScanFails
  <2>1. /\ nextReq' = nextReq + 1 /\ DOMAIN discovered' = {}
        /\ DOMAIN since' = DOMAIN since \cup {nextReq} /\ since'[nextReq] = {}
        /\ \A q \in DOMAIN since : since'[q] = since[q]
    BY <1>13, ScanRegistry
  <2>2. TakeEvent("scan") /\ timers' \subseteq timers \cup {nextReq}
    BY <1>13 DEF HandleScan, HandleScanFails
  <2>3. \A i \in 1..Len(events') : events'[i].type = "scanTimeout" => events'[i].req \in DOMAIN since'
    BY <1>1, <1>10, <2>1, <2>2
  <2>4. \A q \in DOMAIN since : nextReq > q
    BY <1>1
  <2> QED
    BY <2>1, <2>2, <2>3, <2>4 DEF DiscoveredIsLastScan
<1>14. CASE HandleConnect
  <2>1. /\ TakeEvent("connect") /\ nextReq' = nextReq + 1 /\ UNCHANGED <<timers, discovered, since>>
    BY <1>14 DEF HandleConnect, RegisterRequest
  <2>2. \A i \in 1..Len(events') : events'[i].type = "scanTimeout" => events'[i].req \in DOMAIN since'
    BY <1>1, <1>10, <2>1
  <2> QED
    BY <2>1, <2>2 DEF DiscoveredIsLastScan
<1>15. CASE HandleScanTimeout \/ HandleConnectUnknown \/ HandleConnectResult \/ HandlePeers
  <2>1. UNCHANGED <<timers, discovered, since, nextReq>>
    BY <1>15, AnswerRegistry
  <2>2. TakeEvent("scanTimeout") \/ TakeEvent("connect") \/ TakeEvent("connectResult") \/ TakeEvent("peers")
    BY <1>15 DEF HandleScanTimeout, HandleConnectUnknown, HandleConnectResult, HandlePeers
  <2>3. \A i \in 1..Len(events') : events'[i].type = "scanTimeout" => events'[i].req \in DOMAIN since'
    BY <1>1, <1>10, <2>1, <2>2
  <2> QED
    BY <2>1, <2>3 DEF DiscoveredIsLastScan
<1> QED
    BY <1>2, <1>5, <1>6, <1>7, <1>9, <1>11, <1>12, <1>13, <1>14, <1>15 DEF Next, EventLoop

-----------------------------------------------------------------------------
(* The invariant and what follows from it.                                 *)

\* ControlInv is inductive.
LEMMA ControlInductive ==
    /\ Init => ControlInv
    /\ ControlInv /\ [Next]_vars => ControlInv'
<1>1. ASSUME Init PROVE ControlInv
  <2>1. AnnouncedBeforeReported /\ DiscoveredIsLastScan
    BY <1>1 DEF Init, AnnouncedBeforeReported, DiscoveredIsLastScan, Empty
  <2> QED
    BY <1>1, <2>1, InitRegistry DEF ControlInv, Registry
<1>2. ASSUME ControlInv, [Next]_vars PROVE ControlInv'
    BY <1>2, NextRegistry, NextOrder, NextHeard DEF ControlInv, Registry
<1> QED
    BY <1>1, <1>2

\* The two alias maps stay inverse, an announcement is handled before the
\* result it belongs to, and the table of discovered peers is what the last
\* scan heard: AliasRegistry::add_peer and the handlers of PeerEvent.
THEOREM RegistryIsSound == Spec => []ControlInv
<1> QED
    BY ControlInductive, PTL DEF Spec

\* No handler gives an alias that a user has seen another meaning.
THEOREM AliasesKeepTheirPeer == Spec => AliasesAreStable
<1>1. ASSUME ControlInv, [Next]_vars
      PROVE  [\A a \in DOMAIN peerOf : a \in DOMAIN peerOf' /\ peerOf'[a] = peerOf[a]]_vars
  <2>1. CASE HandleDiscovered \/ HandleNewConnection
    BY <1>1, <2>1, PeerRegistry DEF ControlInv, Registry
  <2>2. CASE HandleScanTimeout \/ HandleConnectUnknown \/ HandleConnectResult \/ HandlePeers
    BY <1>1, <2>2, AnswerRegistry DEF ControlInv, Registry, aliasVars
  <2>3. CASE HandleScan \/ HandleScanFails \/ HandleConnect
    BY <2>3 DEF HandleScan, HandleScanFails, HandleConnect, aliasVars
  <2>4. CASE ~EventLoop
    <3>1. UNCHANGED peerOf
        BY <1>1, <2>4 DEF Next, vars, aliasVars, Move, Datagram, Accept, Hangup, TimerFires,
            DialSucceeds, DialFails, Announce, DialReports, AskScan, AskPeers, AskConnect, Ask
    <3> QED
        BY <3>1
  <2> QED
    BY <2>1, <2>2, <2>3, <2>4 DEF EventLoop
<1> QED
    BY <1>1, ControlInductive, PTL DEF Spec, AliasesAreStable

\* How the state of a command changes.
LEMMA ClientChanges ==
    ASSUME ControlInv, [Next]_vars, NEW c \in Clients, client'[c] # client[c]
    PROVE  \/ /\ client[c] = Idle /\ client'[c].state = "waiting"
              /\ \E request \in Commands : request.client = c /\ Ask(c, request)
           \/ client'[c].state = "failed"
           \/ /\ HandleScanTimeout /\ client'[c].state = "scanned"
              /\ client'[c].req = Head(events).req /\ client'[c].found = DOMAIN discovered
           \/ /\ HandleConnectResult /\ client'[c].state = "connected"
              /\ client'[c].peer = Head(events).result /\ Head(events).result \in Peers
           \/ client'[c].state = "listed"
<1> USE DEF ControlInv, Registry
<1>1. CASE HandleScanTimeout
  <2> DEFINE answer == [state |-> "scanned", req |-> Head(events).req, found |-> DOMAIN discovered]
  <2>1. answer \in Answers
    BY <1>1, HeadIs DEF HandleScanTimeout, Answers, TypeOK
  <2>2. Complete(Head(events).req, answer)
    BY <1>1 DEF HandleScanTimeout
  <2>3. answer.state = "scanned" /\ answer.req = Head(events).req /\ answer.found = DOMAIN discovered
    OBVIOUS
  <2> HIDE DEF answer
  <2>4. client'[c] = answer
    BY <2>1, <2>2, CompleteTypes
  <2> QED
    BY <1>1, <2>3, <2>4
<1>2. CASE HandleConnectResult
  <2> DEFINE answer == IF Head(events).result = "failed" THEN [state |-> "failed"]
                       ELSE [state |-> "connected", peer |-> Head(events).result]
  <2>1. answer \in Answers /\ Head(events).result \in Peers \cup {"failed"}
    BY <1>2, HeadIs DEF HandleConnectResult, Answers
  <2>2. Complete(Head(events).req, answer)
    BY <1>2 DEF HandleConnectResult
  <2>3. client'[c] = answer
    BY <2>1, <2>2, CompleteTypes
  <2> QED
    BY <1>2, <2>1, <2>3
<1>3. CASE HandlePeers
    BY <1>3 DEF HandlePeers, AnswerNow, TypeOK
<1>4. CASE HandleConnectUnknown
    BY <1>4 DEF HandleConnectUnknown, AnswerNow, TypeOK
<1>5. CASE HandleScanFails
    BY <1>5 DEF HandleScanFails, TypeOK
<1>6. ASSUME NEW d \in Clients, NEW request \in Commands, request.client = d, Ask(d, request)
      PROVE  d = c /\ client[c] = Idle /\ client'[c].state = "waiting"
    BY <1>6 DEF Ask, TypeOK, Waiting
<1>7. CASE HandleDiscovered \/ HandleNewConnection \/ HandleScan \/ HandleConnect
    BY <1>7 DEF HandleDiscovered, HandleNewConnection, HandleScan, HandleConnect, reqVars
<1>8. CASE ~EventLoop /\ ~\E d \in Clients : \/ AskScan(d) \/ AskPeers(d)
                                             \/ \E a \in 1..Cardinality(Peers) : AskConnect(d, a)
    BY <1>8 DEF Next, vars, reqVars, Move, Datagram, Accept, Hangup, TimerFires,
        DialSucceeds, DialFails, Announce, DialReports
<1>9. ASSUME NEW d \in Clients, \/ AskScan(d) \/ AskPeers(d)
                                \/ \E a \in 1..Cardinality(Peers) : AskConnect(d, a)
      PROVE  /\ client[c] = Idle /\ client'[c].state = "waiting"
             /\ \E request \in Commands : request.client = c /\ Ask(c, request)
  <2>1. PICK request \in Commands : request.client = d /\ Ask(d, request)
    BY <1>9, AskIs
  <2> QED
    BY <1>6, <2>1
<1> QED
    BY <1>1, <1>2, <1>3, <1>4, <1>5, <1>7, <1>8, <1>9 DEF EventLoop

\* What the user reads when scan ends was heard in that scan, whatever other
\* scans, clears and timers came in between.
THEOREM ScansAreTrue == Spec => ScanReportsTheHeard
<1>1. ASSUME ControlInv, [Next]_vars, NEW c \in Clients,
             client[c] = Waiting, client'[c].state = "scanned"
      PROVE  LET q == client'[c].req
             IN  /\ client'[c].found \subseteq since[q]
                 /\ client'[c].found = since[q] \/ \E r \in DOMAIN since : r > q
  <2>1. client[c].state # "scanned"
    BY <1>1 DEF Waiting
  <2>2. /\ HandleScanTimeout
        /\ client'[c].req = Head(events).req /\ client'[c].found = DOMAIN discovered
    BY <1>1, <2>1, ClientChanges
  <2>3. Len(events) \in Nat \ {0} /\ Head(events) = events[1] /\ Head(events).type = "scanTimeout"
    BY <1>1, <2>2, HeadTailProperties DEF HandleScanTimeout, TakeEvent, ControlInv, TypeOK
  <2>4. Head(events).req \in DOMAIN since
    BY <1>1, <2>3 DEF ControlInv, DiscoveredIsLastScan
  <2> QED
    BY <1>1, <2>2, <2>4 DEF ControlInv, DiscoveredIsLastScan
<1>2. ASSUME ControlInv, [Next]_vars
      PROVE  [\A c \in Clients :
                 LET answer == client'[c]
                     heard == since[answer.req]
                 IN  (client[c] = Waiting /\ answer.state = "scanned") =>
                        /\ answer.found \subseteq heard
                        /\ answer.found = heard \/ \E q \in DOMAIN since : q > answer.req]_vars
    BY <1>1, <1>2
<1> QED
    BY <1>2, ControlInductive, PTL DEF Spec, ScanReportsTheHeard

\* connect never reports a peer that `parsip peers` cannot name: the thread
\* announces the peer before it reports, and the queue keeps that order.
THEOREM ConnectedPeersAreNamed == Spec => []ConnectedHasAlias
<1>1. Init => ConnectedHasAlias
    BY DEF Init, ConnectedHasAlias, Idle
<1>2. ASSUME ControlInv, ConnectedHasAlias, [Next]_vars PROVE ConnectedHasAlias'
  <2>1. DOMAIN aliasOf \subseteq DOMAIN aliasOf'
    <3>1. CASE HandleDiscovered \/ HandleNewConnection
        BY <1>2, <3>1, PeerRegistry DEF ControlInv, Registry
    <3>2. CASE HandleScanTimeout \/ HandleConnectUnknown \/ HandleConnectResult \/ HandlePeers
        BY <1>2, <3>2, AnswerRegistry DEF ControlInv, Registry, aliasVars
    <3>3. CASE HandleScan \/ HandleScanFails \/ HandleConnect
        BY <3>3 DEF HandleScan, HandleScanFails, HandleConnect, aliasVars
    <3>4. CASE ~EventLoop
        BY <1>2, <3>4 DEF Next, vars, aliasVars, Move, Datagram, Accept, Hangup, TimerFires,
            DialSucceeds, DialFails, Announce, DialReports, AskScan, AskPeers, AskConnect, Ask
    <3> QED
        BY <3>1, <3>2, <3>3, <3>4 DEF EventLoop
  <2>2. SUFFICES ASSUME NEW c \in Clients, client'[c].state = "connected"
                 PROVE  client'[c].peer \in DOMAIN aliasOf'
    BY DEF ConnectedHasAlias
  <2>3. CASE client'[c] = client[c]
    BY <1>2, <2>1, <2>2, <2>3 DEF ConnectedHasAlias
  <2>4. CASE client'[c] # client[c]
    <3>1. /\ HandleConnectResult /\ Head(events).result \in Peers
          /\ client'[c].peer = Head(events).result
        BY <1>2, <2>2, <2>4, ClientChanges
    <3>2. Len(events) \in Nat \ {0} /\ Head(events) = events[1] /\ events[1].type = "connectResult"
        BY <1>2, <3>1, HeadTailProperties DEF HandleConnectResult, TakeEvent, ControlInv, TypeOK
    <3>3. NamedBefore(events[1].result, 1)
        BY <1>2, <3>1, <3>2 DEF ControlInv, AnnouncedBeforeReported
    <3>4. events[1].result \in DOMAIN aliasOf
        BY <3>3 DEF NamedBefore
    <3> QED
        BY <2>1, <3>1, <3>2, <3>4
  <2> QED
    BY <2>3, <2>4
<1> QED
    BY <1>1, <1>2, ControlInductive, PTL DEF Spec

-----------------------------------------------------------------------------
(* Commands that wait.                                                     *)

\* What was queued stays queued when an event is added.
LEMMA RangeGrows ==
    ASSUME TypeOK, NEW e \in Events, events' = Append(events, e)
    PROVE  Range(events) \subseteq Range(events') /\ e \in Range(events')
<1>1. /\ events \in Seq(Events) /\ events' \in Seq(Events)
      /\ Len(events) \in Nat /\ Len(events') = Len(events) + 1
      /\ events'[Len(events) + 1] = e
      /\ \A i \in 1..Len(events) : events'[i] = events[i]
    BY AppendProperties DEF TypeOK
<1>2. DOMAIN events = 1..Len(events) /\ DOMAIN events' = 1..Len(events')
    BY <1>1
<1> QED
    BY <1>1, <1>2 DEF Range

\* What was queued stays queued when another event is taken.
LEMMA RangeShrinks ==
    ASSUME TypeOK, NEW type, TakeEvent(type), NEW e \in Range(events), e # Head(events)
    PROVE  e \in Range(events')
<1>1. /\ events \in Seq(Events) /\ events' \in Seq(Events)
      /\ Len(events) \in Nat \ {0} /\ Head(events) = events[1]
      /\ Len(events') = Len(events) - 1
      /\ \A i \in 1..(Len(events) - 1) : events'[i] = events[i + 1]
    BY HeadTailProperties DEF TypeOK, TakeEvent
<1>2. DOMAIN events = 1..Len(events) /\ DOMAIN events' = 1..Len(events')
    BY <1>1
<1>3. PICK i \in 1..Len(events) : events[i] = e
    BY <1>2 DEF Range
<1>4. i - 1 \in 1..Len(events') /\ events'[i - 1] = e
    BY <1>1, <1>3
<1> QED
    BY <1>2, <1>4 DEF Range

\* Only the event loop takes from the queue.
LEMMA QueueKeeps ==
    ASSUME ControlInv, [Next]_vars, ~EventLoop
    PROVE  Range(events) \subseteq Range(events')
<1> USE DEF ControlInv, Registry
<1>1. ASSUME NEW d \in dials, Announce(d) \/ DialReports(d)
      PROVE  Range(events) \subseteq Range(events')
  <2>1. d \in Threads /\ (d.announced => d.result \in Peers)
    BY DEF TypeOK
  <2>2. CASE Announce(d)
    BY <2>2, RangeGrows DEF Announce, Events
  <2>3. CASE DialReports(d)
    <3>1. ConnectResult(d) \in Events
    BY <2>1, <2>3 DEF DialReports, ConnectResult, Events, Results, Threads
    <3> QED
    BY <2>3, <3>1, RangeGrows DEF DialReports
  <2> QED
    BY <1>1, <2>2, <2>3
<1>2. ASSUME NEW p \in Peers, Datagram(p) PROVE Range(events) \subseteq Range(events')
  <2>1. [type |-> "discovered", peer |-> p, addr |-> addrOf[p]] \in Events
    BY DEF Events, TypeOK
  <2> QED
    BY <1>2, <2>1, RangeGrows DEF Datagram
<1>3. ASSUME NEW q \in timers, TimerFires(q) PROVE Range(events) \subseteq Range(events')
  <2>1. [type |-> "scanTimeout", req |-> q] \in Events
    BY DEF Events, Results, TypeOK
  <2> QED
    BY <1>3, <2>1, RangeGrows DEF TimerFires
<1>4. ASSUME NEW d \in Clients, NEW request \in Commands, Ask(d, request)
      PROVE  Range(events) \subseteq Range(events')
  <2>1. request \in Events
    BY DEF Events
  <2> QED
    BY <1>4, <2>1, RangeGrows DEF Ask
<1>5. ASSUME NEW d \in Clients, \/ AskScan(d) \/ AskPeers(d)
                                \/ \E a \in 1..Cardinality(Peers) : AskConnect(d, a)
      PROVE  Range(events) \subseteq Range(events')
    BY <1>4, <1>5, AskIs
<1>6. CASE \/ UNCHANGED vars
           \/ \E p \in Peers : Move(p) \/ Accept(p) \/ Hangup(p)
           \/ \E d \in dials : DialSucceeds(d) \/ DialFails(d)
  <2>1. events' = events
    BY <1>6 DEF vars, Move, Accept, Hangup, DialSucceeds, DialFails
  <2>2. Range(events') = Range(events)
    BY <2>1 DEF Range
  <2> QED
    BY <2>2
<1> QED
    BY <1>1, <1>2, <1>3, <1>5, <1>6 DEF Next

\* The command of client c is in the queue.
Queued(c) == \E e \in Range(events) : e \in Commands /\ e.client = c

\* Something will end request q.
HasEnd(q) ==
    \/ q \in timers
    \/ \E d \in dials : d.req = q
    \/ \E e \in Range(events) : e \in Results /\ e.req = q

Served(c) == \E q \in DOMAIN pending : pending[q] = c /\ HasEnd(q)

\* A queued command stays in the queue, or is handled: answered, or registered
\* with a timer or a dialling thread.
LEMMA QueuedMoves ==
    ASSUME ControlInv, [Next]_vars, NEW c \in Clients, client'[c] = Waiting, Queued(c)
    PROVE  Queued(c)' \/ Served(c)'
<1> USE DEF ControlInv, Registry
<1>1. PICK e \in Range(events) : e \in Commands /\ e.client = c
    BY DEF Queued
<1>2. ASSUME NEW type, TakeEvent(type), e # Head(events) PROVE Queued(c)'
    BY <1>1, <1>2, RangeShrinks DEF Queued
<1>3. CASE Range(events) \subseteq Range(events')
    BY <1>1, <1>3 DEF Queued
<1>4. CASE HandleScan /\ e = Head(events)
  <2>1. nextReq \in DOMAIN pending' /\ pending'[nextReq] = c /\ nextReq \in timers'
    BY <1>1, <1>4, RegisterTypes DEF HandleScan
  <2> QED
    BY <2>1 DEF Served, HasEnd
<1>5. CASE HandleConnect /\ e = Head(events)
  <2>1. nextReq \in DOMAIN pending' /\ pending'[nextReq] = c
    BY <1>1, <1>5, RegisterTypes DEF HandleConnect
  <2>2. PICK p \in Peers : dials' = dials \cup {Dial(nextReq, discovered[p])}
    BY <1>5 DEF HandleConnect, Named, TypeOK
  <2>3. \E d \in dials' : d.req = nextReq
    <3>1. Dial(nextReq, discovered[p]).req = nextReq
        BY DEF Dial
    <3>2. Dial(nextReq, discovered[p]) \in dials'
        BY <2>2
    <3> QED
        BY <3>1, <3>2
  <2> QED
    BY <2>1, <2>3 DEF Served, HasEnd
<1>6. CASE (HandleScanFails \/ HandleConnectUnknown \/ HandlePeers) /\ e = Head(events)
  <2>1. client'[c].state # "waiting"
    BY <1>1, <1>6 DEF HandleScanFails, HandleConnectUnknown, HandlePeers, AnswerNow, TypeOK
  <2> QED
    BY <2>1 DEF Waiting
<1>7. CASE /\ HandleDiscovered \/ HandleNewConnection \/ HandleScanTimeout \/ HandleConnectResult
           /\ e = Head(events)
    BY <1>1, <1>7, HeadIs
    DEF HandleDiscovered, HandleNewConnection, HandleScanTimeout, HandleConnectResult
<1>8. CASE EventLoop
  <2>1. TakeEvent(Head(events).type)
    BY <1>8 DEF EventLoop, HandleDiscovered, HandleNewConnection, HandleScan, HandleScanFails,
        HandleScanTimeout, HandleConnect, HandleConnectUnknown, HandleConnectResult, HandlePeers,
        TakeEvent
  <2> QED
    BY <1>2, <1>4, <1>5, <1>6, <1>7, <1>8, <2>1 DEF EventLoop
<1>9. CASE ~EventLoop
    BY <1>3, <1>9, QueueKeeps
<1> QED
    BY <1>8, <1>9

\* A served request is answered, or stays pending with what will end it: a timer
\* and a dialling thread end as an event with the same id.
LEMMA ServedMoves ==
    ASSUME ControlInv, [Next]_vars, NEW c \in Clients, client'[c] = Waiting, Served(c)
    PROVE  Served(c)'
<1> USE DEF ControlInv, Registry
<1>1. PICK q \in DOMAIN pending : pending[q] = c /\ HasEnd(q)
    BY DEF Served
<1>2. q \in Nat \ {0} /\ q < nextReq /\ nextReq \in Nat
    BY DEF TypeOK
<1>3. client'[c].state = "waiting"
    BY DEF Waiting
\* The request stays, unless its own result is handled.
<1>4. \/ q \in DOMAIN pending' /\ pending'[q] = c /\ (EventLoop => Head(events) \notin Results \/ Head(events).req # q)
  <2>1. CASE HandleScanTimeout
    <3> DEFINE answer == [state |-> "scanned", req |-> Head(events).req, found |-> DOMAIN discovered]
    <3>1. answer \in Answers
        BY <2>1, HeadIs DEF HandleScanTimeout, Answers, TypeOK
    <3>2. Complete(Head(events).req, answer) /\ answer.state # "waiting"
        BY <2>1 DEF HandleScanTimeout
    <3> HIDE DEF answer
    <3>3. Head(events).req # q
        BY <1>1, <1>3, <3>1, <3>2, CompleteTypes
    <3> QED
        BY <1>1, <3>1, <3>2, <3>3, CompleteTypes
  <2>2. CASE HandleConnectResult
    <3> DEFINE answer == IF Head(events).result = "failed" THEN [state |-> "failed"]
                         ELSE [state |-> "connected", peer |-> Head(events).result]
    <3>1. answer \in Answers
        BY <2>2, HeadIs DEF HandleConnectResult, Answers
    <3>2. Complete(Head(events).req, answer) /\ answer.state # "waiting"
        BY <2>2 DEF HandleConnectResult
    <3> HIDE DEF answer
    <3>3. Head(events).req # q
        BY <1>1, <1>3, <3>1, <3>2, CompleteTypes
    <3> QED
        BY <1>1, <3>1, <3>2, <3>3, CompleteTypes
  <2>3. CASE HandleScan \/ HandleConnect
    <3>1. q \in DOMAIN pending' /\ pending'[q] = c
        BY <1>1, <2>3, HeadIs, RegisterTypes DEF HandleScan, HandleConnect
    <3>2. Head(events) \notin Results
        BY <2>3, HeadIs DEF HandleScan, HandleConnect
    <3> QED
        BY <3>1, <3>2
  <2>4. CASE HandleDiscovered \/ HandleNewConnection \/ HandleScanFails \/ HandleConnectUnknown \/ HandlePeers
    <3>1. Head(events) \notin Results
        BY <2>4, HeadIs
        DEF HandleDiscovered, HandleNewConnection, HandleScanFails, HandleConnectUnknown, HandlePeers
    <3>2. UNCHANGED pending
        BY <2>4 DEF HandleDiscovered, HandleNewConnection, HandleScanFails, HandleConnectUnknown,
            HandlePeers, AnswerNow, reqVars
    <3> QED
        BY <1>1, <3>1, <3>2
  <2>5. CASE ~EventLoop
    <3>1. UNCHANGED pending
        BY <2>5 DEF Next, vars, reqVars, Move, Datagram, Accept, Hangup, TimerFires,
            DialSucceeds, DialFails, Announce, DialReports, AskScan, AskPeers, AskConnect, Ask
    <3> QED
        BY <1>1, <2>5, <3>1
  <2> QED
    BY <2>1, <2>2, <2>3, <2>4, <2>5 DEF EventLoop
<1>5. ASSUME NEW e \in Range(events), e \in Results, e.req = q PROVE HasEnd(q)'
  <2>1. CASE EventLoop
    <3>1. TakeEvent(Head(events).type)
        BY <2>1 DEF EventLoop, HandleDiscovered, HandleNewConnection, HandleScan, HandleScanFails,
            HandleScanTimeout, HandleConnect, HandleConnectUnknown, HandleConnectResult, HandlePeers,
            TakeEvent
    <3>2. e \in Range(events')
        BY <1>4, <1>5, <2>1, <3>1, RangeShrinks
    <3> QED
        BY <1>5, <3>2 DEF HasEnd
  <2>2. CASE ~EventLoop
    BY <1>5, <2>2, QueueKeeps DEF HasEnd
  <2> QED
    BY <2>1, <2>2
<1>6. ASSUME q \in timers PROVE HasEnd(q)'
  <2>1. CASE TimerFires(q)
    <3> DEFINE e == [type |-> "scanTimeout", req |-> q]
    <3>1. e \in Events /\ e \in Results /\ e.req = q
        BY <1>2 DEF Events, Results
    <3>2. events' = Append(events, e)
        BY <2>1 DEF TimerFires
    <3> HIDE DEF e
    <3>3. e \in Range(events')
        BY <3>1, <3>2, RangeGrows
    <3> QED
        BY <3>1, <3>3 DEF HasEnd
  <2>2. CASE ~TimerFires(q)
    <3>1. q \in timers'
      <4>1. CASE EventLoop
        BY <1>6, <4>1 DEF EventLoop, HandleDiscovered, HandleNewConnection, HandleScan,
            HandleScanFails, HandleScanTimeout, HandleConnect, HandleConnectUnknown,
            HandleConnectResult, HandlePeers
      <4>2. CASE ~EventLoop
        BY <1>6, <2>2, <4>2 DEF Next, vars, Move, Datagram, Accept, Hangup, TimerFires,
            DialSucceeds, DialFails, Announce, DialReports, AskScan, AskPeers, AskConnect, Ask
      <4> QED
        BY <4>1, <4>2
    <3> QED
        BY <3>1 DEF HasEnd
  <2> QED
    BY <2>1, <2>2
<1>7. ASSUME NEW d \in dials, d.req = q PROVE HasEnd(q)'
  <2>1. d \in Threads /\ (d.announced => d.result \in Peers)
    BY DEF TypeOK
  <2>2. CASE d \in dials'
    BY <1>7, <2>2 DEF HasEnd
  <2>3. CASE DialSucceeds(d)
    <3>1. PICK p : [d EXCEPT !.result = p] \in dials'
        BY <2>3 DEF DialSucceeds
    <3>2. [d EXCEPT !.result = p].req = q
        BY <1>7, <2>1 DEF Threads
    <3> QED
        BY <3>1, <3>2 DEF HasEnd
  <2>4. CASE DialFails(d)
    <3>1. [d EXCEPT !.result = "failed"] \in dials'
        BY <2>4 DEF DialFails
    <3>2. [d EXCEPT !.result = "failed"].req = q
        BY <1>7, <2>1 DEF Threads
    <3> QED
        BY <3>1, <3>2 DEF HasEnd
  <2>5. CASE Announce(d)
    <3>1. [d EXCEPT !.announced = TRUE] \in dials'
        BY <2>5 DEF Announce
    <3>2. [d EXCEPT !.announced = TRUE].req = q
        BY <1>7, <2>1 DEF Threads
    <3> QED
        BY <3>1, <3>2 DEF HasEnd
  <2>6. CASE DialReports(d)
    <3> DEFINE e == ConnectResult(d)
    <3>1. e \in Events /\ e \in Results /\ e.req = q
        BY <1>7, <2>1, <2>6 DEF DialReports, Events, Results, Threads, ConnectResult
    <3>2. events' = Append(events, e)
        BY <1>2, <1>7, <2>6 DEF DialReports
    <3> HIDE DEF e
    <3>3. e \in Range(events')
        BY <3>1, <3>2, RangeGrows
    <3> QED
        BY <3>1, <3>3 DEF HasEnd
  <2>7. CASE ~(DialSucceeds(d) \/ DialFails(d) \/ Announce(d) \/ DialReports(d))
    <3>1. d \in dials'
      <4>1. CASE EventLoop
        BY <1>7, <4>1 DEF EventLoop, HandleDiscovered, HandleNewConnection, HandleScan,
            HandleScanFails, HandleScanTimeout, HandleConnect, HandleConnectUnknown,
            HandleConnectResult, HandlePeers
      <4>2. CASE ~EventLoop
        BY <1>7, <2>7, <4>2 DEF Next, vars, Move, Datagram, Accept, Hangup, TimerFires,
            DialSucceeds, DialFails, Announce, DialReports, AskScan, AskPeers, AskConnect, Ask
      <4> QED
        BY <4>1, <4>2
    <3> QED
        BY <2>2, <3>1
  <2> QED
    BY <2>3, <2>4, <2>5, <2>6, <2>7
<1>8. HasEnd(q)'
    BY <1>1, <1>5, <1>6, <1>7 DEF HasEnd
<1> QED
    BY <1>4, <1>8 DEF Served

\* Every command that waits is in the queue, or pending with something that will
\* end it: no handler returns early without answering or registering.
THEOREM WaitingCommandsAreKept == Spec => []NoCommandIsForgotten
<1>1. Init => NoCommandIsForgotten
    BY DEF Init, NoCommandIsForgotten, Idle, Waiting
<1>2. NoCommandIsForgotten <=> \A c \in Clients : client[c] = Waiting => Queued(c) \/ Served(c)
    BY DEF NoCommandIsForgotten, Queued, Served, HasEnd
<1>3. ASSUME ControlInv, NoCommandIsForgotten, [Next]_vars,
             NEW c \in Clients, client'[c] = Waiting
      PROVE  Queued(c)' \/ Served(c)'
  <2>1. CASE client[c] = Waiting
    <3>1. Queued(c) \/ Served(c)
        BY <1>2, <1>3, <2>1
    <3> QED
        BY <1>3, <3>1, QueuedMoves, ServedMoves
  <2>2. CASE client[c] # Waiting
    <3>1. client'[c].state = "waiting" /\ client'[c] # client[c]
        BY <1>3, <2>2 DEF Waiting
    <3>2. PICK request \in Commands : request.client = c /\ Ask(c, request)
        BY <1>3, <3>1, ClientChanges
    <3>3. request \in Range(events')
        BY <1>3, <3>2, RangeGrows DEF Ask, Events, ControlInv
    <3> QED
        BY <3>2, <3>3 DEF Queued
  <2> QED
    BY <2>1, <2>2
<1>4. ASSUME ControlInv, NoCommandIsForgotten, [Next]_vars PROVE NoCommandIsForgotten'
    BY <1>3, <1>4 DEF NoCommandIsForgotten, Queued, Served, HasEnd
<1> QED
    BY <1>1, <1>4, ControlInductive, PTL DEF Spec
=============================================================================
