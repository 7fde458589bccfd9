---------------------------- MODULE TransfersProofs ----------------------------
(***************************************************************************)
(* The safety of Transfers for any servers, links, resources and clients   *)
(* and any size, losses and faults.  LoopInv is inductive: commands and    *)
(* downloads are accounted for whatever the links do.                      *)
(***************************************************************************)
EXTENDS Transfers, SequenceTheorems, TLAPS

-----------------------------------------------------------------------------
(* Queues as sets of what is in them.                                      *)

\* What is in a queue has its type.
LEMMA InQueue ==
    ASSUME NEW S, NEW q \in Seq(S)
    PROVE  Range(q) \subseteq S
BY DEF Range

\* A queued message is added to what is in the queue.
LEMMA QueuedLast ==
    ASSUME NEW S, NEW q \in Seq(S), NEW m \in S
    PROVE  Append(q, m) \in Seq(S) /\ Range(Append(q, m)) = Range(q) \cup {m}
<1>1. /\ Append(q, m) \in Seq(S) /\ Len(q) \in Nat /\ Len(Append(q, m)) = Len(q) + 1
      /\ Append(q, m)[Len(q) + 1] = m /\ \A i \in 1..Len(q) : Append(q, m)[i] = q[i]
    BY AppendProperties
<1> DEFINE new == Append(q, m)
<1>2. DOMAIN new = 1..(Len(q) + 1) /\ DOMAIN q = 1..Len(q)
    BY <1>1
<1>3. \A i \in 1..(Len(q) + 1) : i = Len(q) + 1 \/ i \in 1..Len(q)
    BY <1>1
<1>4. Len(q) + 1 \in 1..(Len(q) + 1) /\ \A i \in 1..Len(q) : i \in 1..(Len(q) + 1)
    BY <1>1
<1> HIDE DEF new
<1>5. Range(new) = Range(q) \cup {m}
    BY <1>1, <1>2, <1>3, <1>4 DEF Range, new
<1> QED
    BY <1>1, <1>5 DEF new

\* What is taken was in the queue, and what remains was too.
LEMMA TakenFirst ==
    ASSUME NEW S, NEW q \in Seq(S), q # <<>>
    PROVE  /\ Tail(q) \in Seq(S) /\ Range(Tail(q)) \subseteq Range(q)
           /\ Head(q) \in Range(q) /\ Head(q) \in S
<1>1. /\ Len(q) \in Nat \ {0} /\ Head(q) = q[1] /\ Head(q) \in S
      /\ Tail(q) \in Seq(S) /\ Len(Tail(q)) = Len(q) - 1
      /\ \A i \in 1..(Len(q) - 1) : Tail(q)[i] = q[i + 1]
    BY HeadTailProperties
<1> DEFINE new == Tail(q)
<1>2. DOMAIN new = 1..(Len(q) - 1) /\ DOMAIN q = 1..Len(q) /\ 1 \in 1..Len(q)
    BY <1>1
<1>3. \A i \in 1..(Len(q) - 1) : i + 1 \in 1..Len(q)
    BY <1>1
<1> HIDE DEF new
<1>4. Range(new) \subseteq Range(q)
    BY <1>1, <1>2, <1>3 DEF Range, new
<1>5. Head(q) \in Range(q)
    BY <1>1, <1>2 DEF Range
<1> QED
    BY <1>1, <1>4, <1>5 DEF new

-----------------------------------------------------------------------------
(* Types.                                                                  *)

LinkTypes ==
    /\ link \in [Links -> {"down", "up", "ended", "closed"}]
    /\ srvLink \in [Links -> {"down", "up", "closed"}]
    /\ mine \in [Servers -> Links \cup {NoLink}]
    /\ theirs \in [Servers -> Links \cup {NoLink}]
    /\ lost \subseteq Links
FrameTypes ==
    /\ toMe \in [Links -> Seq(FromServer)] /\ toSrv \in [Links -> Seq(ToServer)]
    /\ uploads \subseteq Uploads
    /\ events \in Seq(Events)
LoopTypes ==
    /\ nextReq \in Nat \ {0}
    /\ DOMAIN pending \subseteq Requests /\ pending \in [DOMAIN pending -> Clients]
    /\ DOMAIN transfers \subseteq Requests /\ transfers \in [DOMAIN transfers -> TransferRecords]
    /\ DOMAIN downloads \subseteq Resources
    /\ downloads \in [DOMAIN downloads -> [got : Chunks, broken : BOOLEAN]]
    /\ DOMAIN files \subseteq Resources /\ files \in [DOMAIN files -> Chunks]
    /\ client \in [Clients -> {"idle", "waiting", "ok", "failed"}]

\* The type invariant by component.
LEMMA TypeParts == TypeOK <=> LinkTypes /\ FrameTypes /\ LoopTypes
BY DEF TypeOK, LinkTypes, FrameTypes, LoopTypes

\* What is taken from the head of the event queue.
LEMMA NextEvent ==
    ASSUME TypeOK, events # <<>>
    PROVE  LET e == Head(events) IN
           /\ e \in Range(events) /\ e \in Events
           /\ e.type = "disconnected" => e.peer \in Servers
           /\ e.type = "list" => e.client \in Clients /\ e.peer \in Servers
           /\ e.type = "get" => e.client \in Clients /\ e.peer \in Servers /\ e.res \in Resources
           /\ e.type = "resources" => e.req \in Nat /\ e \in FromServer
           /\ e.type = "chunk" => /\ e.req \in Nat /\ e.res \in Resources /\ e.index \in 1..Size
                                  /\ e \in FromServer
           /\ e.type = "end" => e.req \in Nat /\ e.res \in Resources /\ e \in FromServer
<1>1. Head(events) \in Range(events) /\ Head(events) \in Events
    BY TakenFirst DEF TypeOK
<1>2. ASSUME NEW e \in Events
      PROVE  /\ e.type = "disconnected" => e.peer \in Servers
             /\ e.type = "list" => e.client \in Clients /\ e.peer \in Servers
             /\ e.type = "get" => e.client \in Clients /\ e.peer \in Servers /\ e.res \in Resources
             /\ e.type = "resources" => e.req \in Nat /\ e \in FromServer
             /\ e.type = "chunk" => /\ e.req \in Nat /\ e.res \in Resources /\ e.index \in 1..Size
                                    /\ e \in FromServer
             /\ e.type = "end" => e.req \in Nat /\ e.res \in Resources /\ e \in FromServer
    BY DEF Events, FromServer
<1> QED
    BY <1>1, <1>2

\* The next request at a server is one that was sent.
LEMMA NextRequest ==
    ASSUME TypeOK, NEW l \in Links, toSrv[l] # <<>>
    PROVE  LET m == Head(toSrv[l]) IN
           /\ m \in Range(toSrv[l]) /\ m \in ToServer /\ m.req \in Nat
           /\ m.type = "download" => m.res \in Resources
<1>1. Head(toSrv[l]) \in Range(toSrv[l]) /\ Head(toSrv[l]) \in ToServer
    BY TakenFirst DEF TypeOK
<1>2. ASSUME NEW m \in ToServer PROVE m.req \in Nat /\ (m.type = "download" => m.res \in Resources)
    BY DEF ToServer
<1> QED
    BY <1>1, <1>2

\* Frames that are sent.
LEMMA SentToServer ==
    ASSUME TypeOK, NEW s \in Servers, NEW m \in ToServer, SendTo(s, m)
    PROVE  /\ toSrv' \in [Links -> Seq(ToServer)]
           /\ \A l \in Links : Range(toSrv'[l]) \subseteq Range(toSrv[l]) \cup {m}
<1>1. CASE mine[s] = NoLink
    BY <1>1 DEF SendTo, TypeOK
<1>2. CASE mine[s] # NoLink
  <2>1. PICK k \in Links : k = mine[s]
    BY <1>2 DEF TypeOK
  <2>2. toSrv' = [toSrv EXCEPT ![k] = Append(toSrv[k], m)]
    BY <1>2, <2>1 DEF SendTo
  <2>3. /\ Append(toSrv[k], m) \in Seq(ToServer)
        /\ Range(Append(toSrv[k], m)) = Range(toSrv[k]) \cup {m}
    BY QueuedLast DEF TypeOK
  <2> QED
    BY <2>2, <2>3 DEF TypeOK
<1> QED
    BY <1>1, <1>2

\* A reply is all that a server adds on the way to the local daemon.
LEMMA SentToMe ==
    ASSUME TypeOK, NEW s \in Servers, NEW m \in FromServer, Reply(s, m)
    PROVE  /\ toMe' \in [Links -> Seq(FromServer)]
           /\ \A l \in Links : Range(toMe'[l]) \subseteq Range(toMe[l]) \cup {m}
<1>1. PICK k \in Links : k = theirs[s]
    BY DEF Reply, TypeOK
<1>2. toMe' = [toMe EXCEPT ![k] = Append(toMe[k], m)]
    BY <1>1 DEF Reply
<1>3. /\ Append(toMe[k], m) \in Seq(FromServer)
      /\ Range(Append(toMe[k], m)) = Range(toMe[k]) \cup {m}
    BY QueuedLast DEF TypeOK
<1> QED
    BY <1>2, <1>3 DEF TypeOK

\* A served request is taken from its link and nothing is added.
LEMMA RequestServed ==
    ASSUME TypeOK, NEW l \in Links, NEW type, TakeRequest(l, type)
    PROVE  /\ toSrv' \in [Links -> Seq(ToServer)]
           /\ \A k \in Links : Range(toSrv'[k]) \subseteq Range(toSrv[k])
<1>1. toSrv[l] # <<>> /\ toSrv' = [toSrv EXCEPT ![l] = Tail(toSrv[l])]
    BY DEF TakeRequest
<1>2. Tail(toSrv[l]) \in Seq(ToServer) /\ Range(Tail(toSrv[l])) \subseteq Range(toSrv[l])
    BY <1>1, TakenFirst DEF TypeOK
<1> QED
    BY <1>1, <1>2 DEF TypeOK

-----------------------------------------------------------------------------
(* The links, the reader threads and the servers.                          *)

LinkStep(l) ==
    \/ Connect(l) \/ Lose(l) \/ ReadFrame(l) \/ ReaderEnds(l)
    \/ ReadTimesOut(l) \/ Remove(l) \/ ServerEnds(l) \/ Serve(l)
Network == (\E l \in Links : LinkStep(l)) \/ (\E u \in uploads : Upload(u))

\* The end of a link, as the event loop hears of it.
Ended(s) == [type |-> "disconnected", peer |-> s]

\* A Disconnected event is an event, and no frame.
LEMMA EndedIsNoFrame ==
    ASSUME NEW s \in Servers
    PROVE  Ended(s) \in Events /\ Ended(s) \notin FromServer
BY DEF Ended, Events, FromServer

\* What links and readers do: types stay, and the queue gets a frame that was
\* on its way, or a Disconnected.
LEMMA LinksStep ==
    ASSUME TypeOK, NEW l \in Links, Connect(l) \/ Lose(l) \/ ReadFrame(l) \/ ReaderEnds(l)
                                    \/ ReadTimesOut(l) \/ Remove(l) \/ ServerEnds(l)
    PROVE  /\ LinkTypes' /\ FrameTypes' /\ UNCHANGED <<toSrv, uploads, loopVars, client>>
           /\ \A k \in Links : Range(toMe'[k]) \subseteq Range(toMe[k])
           /\ \/ events' = events
              \/ events' = Append(events, Ended(ServerOf[l]))
              \/ \E m \in Range(toMe[l]) : m \in FromServer /\ events' = Append(events, m)
<1>0. LinkTypes /\ FrameTypes /\ ServerOf[l] \in Servers
    BY TypeParts, LinksAssumption
<1>1. CASE Connect(l) \/ Lose(l) \/ Remove(l) \/ ServerEnds(l)
  <2>1. UNCHANGED <<toMe, toSrv, uploads, events, loopVars, client>>
    BY <1>1 DEF Connect, Lose, Remove, ServerEnds
  <2>2. LinkTypes'
    BY <1>0, <1>1 DEF LinkTypes, Connect, Lose, Remove, ServerEnds
  <2> QED
    BY <1>0, <2>1, <2>2 DEF FrameTypes
<1>2. CASE ReaderEnds(l) \/ ReadTimesOut(l)
  <2>1. /\ UNCHANGED <<srvLink, mine, theirs, lost, toMe, toSrv, uploads, loopVars, client>>
        /\ link' = [link EXCEPT ![l] = "ended"]
        /\ events' = Append(events, Ended(ServerOf[l]))
    BY <1>2 DEF ReaderEnds, ReadTimesOut, Ended
  <2>2. events' \in Seq(Events)
    BY <1>0, <2>1, EndedIsNoFrame, QueuedLast DEF FrameTypes
  <2>3. LinkTypes'
    BY <1>0, <2>1 DEF LinkTypes
  <2> QED
    BY <1>0, <2>1, <2>2, <2>3 DEF FrameTypes
<1>3. CASE ReadFrame(l)
  <2>1. /\ UNCHANGED <<linkVars, toSrv, uploads, loopVars, client>> /\ toMe[l] # <<>>
        /\ events' = Append(events, Head(toMe[l])) /\ toMe' = [toMe EXCEPT ![l] = Tail(toMe[l])]
    BY <1>3 DEF ReadFrame
  <2>2. /\ Tail(toMe[l]) \in Seq(FromServer) /\ Range(Tail(toMe[l])) \subseteq Range(toMe[l])
        /\ Head(toMe[l]) \in Range(toMe[l]) /\ Head(toMe[l]) \in FromServer
    BY <1>0, <2>1, TakenFirst DEF FrameTypes
  <2>3. events' \in Seq(Events)
    BY <1>0, <2>1, <2>2, QueuedLast DEF FrameTypes, Events
  <2>4. /\ toMe' \in [Links -> Seq(FromServer)]
        /\ \A k \in Links : Range(toMe'[k]) \subseteq Range(toMe[k])
    BY <1>0, <2>1, <2>2 DEF FrameTypes
  <2>5. LinkTypes'
    BY <1>0, <2>1 DEF LinkTypes, linkVars
  <2> QED
    BY <1>0, <2>1, <2>2, <2>3, <2>4, <2>5 DEF FrameTypes
<1> QED
    BY <1>1, <1>2, <1>3

\* The servers only send what they were asked for.
LEMMA ServersStep ==
    ASSUME TypeOK, FramesMatch,
           (\E l \in Links : Serve(l)) \/ (\E u \in uploads : Upload(u))
    PROVE  /\ UNCHANGED <<linkVars, events, loopVars, client>> /\ FrameTypes'
           /\ \A k \in Links : Range(toSrv'[k]) \subseteq Range(toSrv[k])
           /\ \A k \in Links : \A m \in Range(toMe'[k]) :
                 m \in Range(toMe[k]) \/ Consistent(m, nextReq, transfers)
           /\ \A u \in uploads' : OfRequest(u, nextReq, transfers)
<1>0. FrameTypes
    BY TypeParts
<1> DEFINE Goal == /\ UNCHANGED <<linkVars, events, loopVars, client>> /\ FrameTypes'
                   /\ \A k \in Links : Range(toSrv'[k]) \subseteq Range(toSrv[k])
                   /\ \A k \in Links : \A m \in Range(toMe'[k]) :
                         m \in Range(toMe[k]) \/ Consistent(m, nextReq, transfers)
                   /\ \A u \in uploads' : OfRequest(u, nextReq, transfers)
<1>1. ASSUME NEW l \in Links, ServeList(l) PROVE Goal
  <2> DEFINE q == Head(toSrv[l])
             m == [type |-> "resources", req |-> q.req]
  <2>1. /\ TakeRequest(l, "list") /\ toSrv[l] # <<>> /\ q.type = "list" /\ uploads' = uploads
        /\ IF theirs[ServerOf[l]] = NoLink THEN UNCHANGED toMe ELSE Reply(ServerOf[l], m)
    BY <1>1 DEF ServeList, TakeRequest
  <2>2. q \in Range(toSrv[l]) /\ q.req \in Nat
    BY <2>1, NextRequest
  <2>3. m \in FromServer /\ m.type = "resources" /\ m.req = q.req
    BY <2>2 DEF FromServer
  <2>4. Consistent(m, nextReq, transfers)
    BY <2>1, <2>2, <2>3 DEF FramesMatch, Consistent
  <2> HIDE DEF m, q
  <2>5. /\ toMe' \in [Links -> Seq(FromServer)]
        /\ \A k \in Links : Range(toMe'[k]) \subseteq Range(toMe[k]) \cup {m}
    BY <1>0, <2>1, <2>3, SentToMe, LinksAssumption DEF FrameTypes
  <2>6. /\ toSrv' \in [Links -> Seq(ToServer)]
        /\ \A k \in Links : Range(toSrv'[k]) \subseteq Range(toSrv[k])
    BY <2>1, RequestServed
  <2>7. UNCHANGED <<linkVars, events, loopVars, client>>
    BY <2>1 DEF TakeRequest
  <2>8. FrameTypes'
    BY <1>0, <2>1, <2>5, <2>6, <2>7 DEF FrameTypes
  <2> QED
    BY <2>1, <2>4, <2>5, <2>6, <2>7, <2>8 DEF FramesMatch
<1>2. ASSUME NEW l \in Links, ServeDownload(l) PROVE Goal
  <2> DEFINE q == Head(toSrv[l])
             u == [server |-> ServerOf[l], req |-> q.req, res |-> q.res, next |-> 1]
  <2>1. /\ TakeRequest(l, "download") /\ toSrv[l] # <<>> /\ q.type = "download"
        /\ toMe' = toMe /\ uploads' = uploads \cup {u}
    BY <1>2 DEF ServeDownload, TakeRequest
  <2>2. q \in Range(toSrv[l]) /\ q.req \in Nat /\ q.res \in Resources
    BY <2>1, NextRequest
  <2>3. OfRequest(q, nextReq, transfers)
    BY <2>1, <2>2 DEF FramesMatch, Consistent
  <2>4. u \in Uploads /\ u.req = q.req /\ u.res = q.res
    BY <2>2, LinksAssumption, BoundsAssumption DEF Uploads
  <2>5. OfRequest(u, nextReq, transfers)
    BY <2>3, <2>4 DEF OfRequest
  <2> HIDE DEF u, q
  <2>6. /\ toSrv' \in [Links -> Seq(ToServer)]
        /\ \A k \in Links : Range(toSrv'[k]) \subseteq Range(toSrv[k])
    BY <2>1, RequestServed
  <2>7. UNCHANGED <<linkVars, events, loopVars, client>>
    BY <2>1 DEF TakeRequest
  <2>8. FrameTypes'
    BY <1>0, <2>1, <2>4, <2>6, <2>7 DEF FrameTypes
  <2> QED
    BY <2>1, <2>5, <2>6, <2>7, <2>8 DEF FramesMatch
<1>3. ASSUME NEW l \in Links, IgnoreDownload(l) PROVE Goal
  <2>1. TakeRequest(l, "download") /\ UNCHANGED <<toMe, uploads>>
    BY <1>3 DEF IgnoreDownload
  <2>2. /\ toSrv' \in [Links -> Seq(ToServer)]
        /\ \A k \in Links : Range(toSrv'[k]) \subseteq Range(toSrv[k])
    BY <2>1, RequestServed
  <2>3. UNCHANGED <<linkVars, events, loopVars, client>>
    BY <2>1 DEF TakeRequest
  <2> QED
    BY <1>0, <2>1, <2>2, <2>3 DEF FramesMatch, FrameTypes
<1>4. ASSUME NEW u \in uploads, UploadChunk(u) PROVE Goal
  <2> DEFINE m == [type |-> "chunk", req |-> u.req, res |-> u.res, index |-> u.next]
             v == [u EXCEPT !.next = @ + 1]
  <2>1. /\ u.next <= Size /\ Reply(u.server, m) /\ uploads' = (uploads \ {u}) \cup {v}
        /\ UNCHANGED <<linkVars, toSrv, events, loopVars, client>>
    BY <1>4 DEF UploadChunk
  <2>2. u \in Uploads /\ OfRequest(u, nextReq, transfers) /\ u.server \in Servers
    BY <1>0 DEF FrameTypes, FramesMatch, Uploads
  <2>3. m \in FromServer /\ m.type = "chunk" /\ m.req = u.req /\ m.res = u.res
    BY <2>1, <2>2, BoundsAssumption DEF Uploads, FromServer
  <2>4. Consistent(m, nextReq, transfers)
    BY <2>2, <2>3 DEF Consistent, OfRequest
  <2>5. v \in Uploads /\ v.req = u.req /\ v.res = u.res
    BY <2>1, <2>2, BoundsAssumption DEF Uploads
  <2>6. OfRequest(v, nextReq, transfers)
    BY <2>2, <2>5 DEF OfRequest
  <2> HIDE DEF m, v
  <2>7. /\ toMe' \in [Links -> Seq(FromServer)]
        /\ \A k \in Links : Range(toMe'[k]) \subseteq Range(toMe[k]) \cup {m}
    BY <2>1, <2>2, <2>3, SentToMe
  <2>8. FrameTypes'
    BY <1>0, <2>1, <2>5, <2>7 DEF FrameTypes
  <2> QED
    BY <2>1, <2>4, <2>6, <2>7, <2>8 DEF FramesMatch
<1>5. ASSUME NEW u \in uploads, UploadEnd(u) PROVE Goal
  <2> DEFINE m == [type |-> "end", req |-> u.req, res |-> u.res]
  <2>1. /\ Reply(u.server, m) /\ uploads' = uploads \ {u}
        /\ UNCHANGED <<linkVars, toSrv, events, loopVars, client>>
    BY <1>5 DEF UploadEnd
  <2>2. u \in Uploads /\ OfRequest(u, nextReq, transfers) /\ u.server \in Servers
    BY <1>0 DEF FrameTypes, FramesMatch, Uploads
  <2>3. m \in FromServer /\ m.type = "end" /\ m.req = u.req /\ m.res = u.res
    BY <2>2 DEF Uploads, FromServer
  <2>4. Consistent(m, nextReq, transfers)
    BY <2>2, <2>3 DEF Consistent, OfRequest
  <2> HIDE DEF m
  <2>5. /\ toMe' \in [Links -> Seq(FromServer)]
        /\ \A k \in Links : Range(toMe'[k]) \subseteq Range(toMe[k]) \cup {m}
    BY <2>1, <2>2, <2>3, SentToMe
  <2>6. FrameTypes'
    BY <1>0, <2>1, <2>5 DEF FrameTypes
  <2> QED
    BY <2>1, <2>4, <2>5, <2>6 DEF FramesMatch
<1>6. ASSUME NEW u \in uploads, UploadAborts(u) PROVE Goal
    BY <1>0, <1>6 DEF UploadAborts, FrameTypes, FramesMatch
<1> HIDE DEF Goal
<1> QED
  <2>1. Goal
    BY <1>1, <1>2, <1>3, <1>4, <1>5, <1>6 DEF Serve, Upload
  <2> QED
    BY <2>1 DEF Goal

\* So frames go on matching the requests, and the loop hears of commands from
\* nobody but its clients.
LEMMA NetworkStep ==
    ASSUME TypeOK, FramesMatch, Network
    PROVE  /\ TypeOK' /\ FramesMatch' /\ UNCHANGED <<loopVars, client>>
           /\ events' = events \/ \E m \in Events : /\ m.type \notin {"get", "list"}
                                                    /\ events' = Append(events, m)
<1>0. LinkTypes /\ FrameTypes /\ LoopTypes
    BY TypeParts
<1>1. UNCHANGED <<loopVars, client>> => LoopTypes'
    BY <1>0 DEF LoopTypes, loopVars, Requests
<1>2. ASSUME (\E l \in Links : Serve(l)) \/ (\E u \in uploads : Upload(u))
      PROVE  TypeOK' /\ FramesMatch' /\ UNCHANGED <<loopVars, client, events>>
  <2>1. /\ UNCHANGED <<linkVars, events, loopVars, client>> /\ FrameTypes'
        /\ \A k \in Links : Range(toSrv'[k]) \subseteq Range(toSrv[k])
        /\ \A k \in Links : \A m \in Range(toMe'[k]) :
              m \in Range(toMe[k]) \/ Consistent(m, nextReq, transfers)
        /\ \A u \in uploads' : OfRequest(u, nextReq, transfers)
    BY <1>2, ServersStep
  <2>2. nextReq' = nextReq /\ transfers' = transfers
    BY <2>1 DEF loopVars
  <2>3. FramesMatch'
    BY <2>1, <2>2 DEF FramesMatch
  <2>4. LinkTypes'
    BY <1>0, <2>1 DEF LinkTypes, linkVars
  <2> QED
    BY <1>1, <2>1, <2>3, <2>4 DEF TypeOK, LinkTypes, FrameTypes, LoopTypes
<1>3. ASSUME NEW l \in Links, LinkStep(l), ~Serve(l)
      PROVE  /\ TypeOK' /\ FramesMatch' /\ UNCHANGED <<loopVars, client>>
             /\ events' = events \/ \E m \in Events : /\ m.type \notin {"get", "list"}
                                                      /\ events' = Append(events, m)
  <2>1. /\ LinkTypes' /\ FrameTypes' /\ UNCHANGED <<toSrv, uploads, loopVars, client>>
        /\ \A k \in Links : Range(toMe'[k]) \subseteq Range(toMe[k])
        /\ \/ events' = events
           \/ events' = Append(events, Ended(ServerOf[l]))
           \/ \E m \in Range(toMe[l]) : m \in FromServer /\ events' = Append(events, m)
    BY <1>3, LinksStep DEF LinkStep
  <2>2. nextReq' = nextReq /\ transfers' = transfers
    BY <2>1 DEF loopVars
  <2>3. events' = events \/ \E m \in Events :
            /\ m.type \notin {"get", "list"} /\ events' = Append(events, m)
            /\ m \in FromServer => Consistent(m, nextReq, transfers)
    <3>1. Ended(ServerOf[l]) \in Events /\ Ended(ServerOf[l]) \notin FromServer
        BY EndedIsNoFrame, LinksAssumption
    <3>2. Ended(ServerOf[l]).type = "disconnected"
        BY DEF Ended
    <3>3. \A m \in FromServer : m \in Events /\ m.type \notin {"get", "list"}
        BY DEF FromServer, Events
    <3>4. \A m \in Range(toMe[l]) : Consistent(m, nextReq, transfers)
        BY DEF FramesMatch
    <3> QED
        BY <2>1, <3>1, <3>2, <3>3, <3>4
  <2>4. \A m \in Range(events') \cap FromServer : Consistent(m, nextReq, transfers)
    <3>1. CASE events' = events
        BY <3>1 DEF FramesMatch
    <3>2. ASSUME NEW m \in Events, events' = Append(events, m),
                 m \in FromServer => Consistent(m, nextReq, transfers)
          PROVE  \A x \in Range(events') \cap FromServer : Consistent(x, nextReq, transfers)
      <4>1. Range(events') = Range(events) \cup {m}
        BY <1>0, <3>2, QueuedLast DEF FrameTypes
      <4> QED
        BY <3>2, <4>1 DEF FramesMatch
    <3> QED
        BY <2>3, <3>1, <3>2
  <2>5. FramesMatch'
    BY <2>1, <2>2, <2>4 DEF FramesMatch
  <2> QED
    BY <1>1, <2>1, <2>3, <2>5 DEF TypeOK, LinkTypes, FrameTypes, LoopTypes
<1> QED
    BY <1>2, <1>3 DEF Network, LinkStep

-----------------------------------------------------------------------------
(* Commands in the queue and pending requests.                             *)

IsCommandOf(m, c) == m.type \in {"get", "list"} /\ m.client = c

\* The commands of a client in the queue, after one more event.
LEMMA QueuedAfterSend ==
    ASSUME NEW q \in Seq(Events), NEW m \in Events, NEW c
    PROVE  /\ IsCommandOf(m, c) => Queued(Append(q, m), c) = Queued(q, c) \cup {Len(q) + 1}
           /\ ~IsCommandOf(m, c) => Queued(Append(q, m), c) = Queued(q, c)
<1>1. /\ Len(q) \in Nat /\ Len(Append(q, m)) = Len(q) + 1 /\ Append(q, m) \in Seq(Events)
      /\ Append(q, m)[Len(q) + 1] = m /\ \A i \in 1..Len(q) : Append(q, m)[i] = q[i]
    BY AppendProperties
<1> DEFINE new == Append(q, m)
<1>2. DOMAIN new = 1..(Len(q) + 1) /\ DOMAIN q = 1..Len(q)
    BY <1>1
<1>3. \A i \in 1..(Len(q) + 1) : i = Len(q) + 1 \/ i \in 1..Len(q)
    BY <1>1
<1>4. \A i \in 1..Len(q) : i \in 1..(Len(q) + 1) /\ i # Len(q) + 1
    BY <1>1
<1>5. Len(q) + 1 \in 1..(Len(q) + 1)
    BY <1>1
<1> HIDE DEF new
<1>6. IsCommandOf(m, c) => Queued(new, c) = Queued(q, c) \cup {Len(q) + 1}
    BY <1>1, <1>2, <1>3, <1>4, <1>5 DEF Queued, IsCommandOf, new
<1>7. ~IsCommandOf(m, c) => Queued(new, c) = Queued(q, c)
    BY <1>1, <1>2, <1>3, <1>4, <1>5 DEF Queued, IsCommandOf, new
<1> QED
    BY <1>6, <1>7 DEF new

\* The commands of a client in the queue, after the first event is taken.
LEMMA QueuedAfterTake ==
    ASSUME NEW q \in Seq(Events), q # <<>>, NEW c
    PROVE  /\ \A i \in Queued(Tail(q), c) : i \in Nat /\ i + 1 # 1 /\ i + 1 \in Queued(q, c)
           /\ \A k \in Queued(q, c) : k # 1 => k - 1 \in Queued(Tail(q), c)
           /\ 1 \in Queued(q, c) <=> IsCommandOf(Head(q), c)
<1>1. /\ Len(q) \in Nat \ {0} /\ Head(q) = q[1] /\ Len(Tail(q)) = Len(q) - 1 /\ Tail(q) \in Seq(Events)
      /\ \A i \in 1..(Len(q) - 1) : Tail(q)[i] = q[i + 1]
    BY HeadTailProperties
<1> DEFINE new == Tail(q)
<1>2. DOMAIN new = 1..(Len(q) - 1) /\ DOMAIN q = 1..Len(q) /\ 1 \in DOMAIN q
    BY <1>1
<1> HIDE DEF new
<1>3. \A i \in DOMAIN new : i \in Nat /\ i + 1 # 1 /\ i + 1 \in DOMAIN q /\ new[i] = q[i + 1]
    BY <1>1, <1>2 DEF new
<1>4. \A k \in DOMAIN q : k # 1 => k - 1 \in DOMAIN new /\ new[k - 1] = q[k]
    BY <1>1, <1>2 DEF new
<1>5. \A i \in Queued(new, c) : i \in Nat /\ i + 1 # 1 /\ i + 1 \in Queued(q, c)
    BY <1>3 DEF Queued
<1>6. \A k \in Queued(q, c) : k # 1 => k - 1 \in Queued(new, c)
    BY <1>4 DEF Queued
<1>7. 1 \in Queued(q, c) <=> IsCommandOf(Head(q), c)
    BY <1>1, <1>2 DEF Queued, IsCommandOf
<1> QED
    BY <1>5, <1>6, <1>7 DEF new

\* Another event is taken: the command of c keeps its place, or there is none.
LEMMA OtherTaken ==
    ASSUME NEW q \in Seq(Events), q # <<>>, NEW c, ~IsCommandOf(Head(q), c)
    PROVE  /\ (\A i, j \in Queued(q, c) : i = j) => \A i, j \in Queued(Tail(q), c) : i = j
           /\ Queued(Tail(q), c) = {} <=> Queued(q, c) = {}
<1>1. \A i \in Queued(Tail(q), c) : i \in Nat /\ i + 1 \in Queued(q, c)
    BY QueuedAfterTake
<1>2. \A k \in Queued(q, c) : k - 1 \in Queued(Tail(q), c)
    BY QueuedAfterTake
<1>3. \A i, j \in Nat : i + 1 = j + 1 => i = j
    OBVIOUS
<1> QED
    BY <1>1, <1>2, <1>3

\* The command of c is taken: c waits and has nothing else.
LEMMA CommandTaken ==
    ASSUME NEW q \in Seq(Events), q # <<>>, NEW c, IsCommandOf(Head(q), c),
           NEW requests, NEW answer, Accounted(q, requests, answer, c)
    PROVE  Queued(Tail(q), c) = {} /\ Asked(requests, c) = {} /\ answer = "waiting"
BY QueuedAfterTake DEF Accounted

\* An event that is none of the client's commands leaves its account as it is.
LEMMA TakenKeepsAccount ==
    ASSUME NEW q \in Seq(Events), q # <<>>, NEW c, ~IsCommandOf(Head(q), c),
           NEW requests, NEW answer, Accounted(q, requests, answer, c)
    PROVE  Accounted(Tail(q), requests, answer, c)
BY OtherTaken DEF Accounted

\* A request is added for a client that has none, or taken out of the tracker.
LEMMA AskedAfterPut ==
    ASSUME NEW map, NEW n, n \notin DOMAIN map, NEW d, NEW c
    PROVE  /\ c = d /\ Asked(map, c) = {} => Asked(Put(map, n, d), c) = {n}
           /\ c # d => Asked(Put(map, n, d), c) = Asked(map, c)
BY DEF Asked, Put

\* The requests qs are answered, when the event taken is no command.
LEMMA AnswerAccounts ==
    ASSUME TypeOK, RequestsAccountedFor, events # <<>>, events' = Tail(events),
           Head(events).type \notin {"get", "list"},
           NEW qs, NEW answer \in {"ok", "failed"}, Answer(qs, answer)
    PROVE  /\ \A c \in Clients : Accounted(events', pending', client'[c], c)
           /\ DOMAIN pending' = DOMAIN pending \ qs
           /\ \A q \in DOMAIN pending' : pending'[q] = pending[q]
           /\ client' \in [Clients -> {"idle", "waiting", "ok", "failed"}]
           /\ pending' \in [DOMAIN pending' -> Clients]
           /\ \A q \in qs \cap DOMAIN pending : client'[pending[q]] = answer
<1>1. /\ DOMAIN pending' = DOMAIN pending \ qs
      /\ \A q \in DOMAIN pending' : pending'[q] = pending[q]
      /\ pending' \in [DOMAIN pending' -> Clients]
    BY DEF Answer, TypeOK, Drop, Restrict
<1>2. client' \in [Clients -> {"idle", "waiting", "ok", "failed"}]
    BY DEF Answer, TypeOK
<1>3. ASSUME NEW c \in Clients PROVE Accounted(events', pending', client'[c], c)
  <2>1. Accounted(Tail(events), pending, client[c], c)
    BY TakenKeepsAccount DEF RequestsAccountedFor, IsCommandOf, TypeOK
  <2>2. CASE \E q \in qs \cap DOMAIN pending : pending[q] = c
    <3>1. PICK q \in qs \cap DOMAIN pending : pending[q] = c
        BY <2>2
    <3>2. q \in Asked(pending, c) /\ Asked(pending', c) = {}
        BY <1>1, <2>1, <3>1 DEF Accounted, Asked
    <3>3. Queued(Tail(events), c) = {}
        BY <2>1, <3>2 DEF Accounted
    <3>4. client'[c] = answer
        BY <2>2 DEF Answer
    <3> QED
        BY <3>2, <3>3, <3>4 DEF Accounted
  <2>3. CASE ~\E q \in qs \cap DOMAIN pending : pending[q] = c
    <3>1. Asked(pending', c) = Asked(pending, c)
        BY <1>1, <2>3 DEF Asked
    <3>2. client'[c] = client[c]
        BY <2>3 DEF Answer
    <3> QED
        BY <2>1, <3>1, <3>2 DEF Accounted
  <2> QED
    BY <2>2, <2>3
<1>4. \A q \in qs \cap DOMAIN pending : client'[pending[q]] = answer
    BY DEF Answer, TypeOK
<1> QED
    BY <1>1, <1>2, <1>3, <1>4
-----------------------------------------------------------------------------
(* The event loop.                                                         *)

\* What is about a request handed out stays so while requests are added, or
\* their transfers end.
LEMMA StaysConsistent ==
    ASSUME NEW m, m.req \in Nat, NEW n \in Nat, NEW next \in Nat, next >= n, NEW old, NEW new,
           \A q \in DOMAIN new : (q \in DOMAIN old /\ new[q] = old[q]) \/ (q \in Nat /\ q >= n)
    PROVE  /\ OfRequest(m, n, old) => OfRequest(m, next, new)
           /\ Consistent(m, n, old) => Consistent(m, next, new)
<1>1. m.req < n => m.req < next /\ (m.req \in DOMAIN new =>
                                       m.req \in DOMAIN old /\ new[m.req] = old[m.req])
    OBVIOUS
<1> QED
    BY <1>1 DEF OfRequest, Consistent

\* Frames go on matching when the loop takes an event, if new transfers have
\* new ids and what it sends matches.
LEMMA FramesStillMatch ==
    ASSUME TypeOK, FramesMatch, UNCHANGED <<toMe, uploads>>, Range(events') \subseteq Range(events),
           nextReq' \in Nat, nextReq' >= nextReq,
           \A q \in DOMAIN transfers' : \/ q \in DOMAIN transfers /\ transfers'[q] = transfers[q]
                                        \/ q = nextReq,
           \A l \in Links : \A m \in Range(toSrv'[l]) :
              m \in Range(toSrv[l]) \/ Consistent(m, nextReq', transfers')
    PROVE  FramesMatch'
<1>1. PICK next \in Nat : next = nextReq' /\ next >= nextReq
    OBVIOUS
<1>2. PICK new : new = transfers' /\ \A q \in DOMAIN new :
             \/ q \in DOMAIN transfers /\ new[q] = transfers[q]
             \/ q \in Nat /\ q >= nextReq
    BY DEF TypeOK
<1>3. \A m : m.req \in Nat =>
        /\ OfRequest(m, nextReq, transfers) => OfRequest(m, next, new)
        /\ Consistent(m, nextReq, transfers) => Consistent(m, next, new)
    BY <1>1, <1>2, StaysConsistent DEF TypeOK
<1>4. /\ \A m \in FromServer : m.req \in Nat
      /\ \A m \in ToServer : m.req \in Nat
      /\ \A u \in Uploads : u.req \in Nat
    BY DEF FromServer, ToServer, Uploads
<1>5. ASSUME NEW l \in Links, NEW m \in Range(toMe[l]) PROVE Consistent(m, next, new)
  <2>1. m \in FromServer
    BY <1>5, InQueue DEF TypeOK
  <2> QED
    BY <1>3, <1>4, <2>1 DEF FramesMatch
<1>6. ASSUME NEW l \in Links, NEW m \in Range(toSrv[l]) PROVE Consistent(m, next, new)
  <2>1. m \in ToServer
    BY <1>6, InQueue DEF TypeOK
  <2> QED
    BY <1>3, <1>4, <2>1 DEF FramesMatch
<1>7. \A m \in Range(events) \cap FromServer : Consistent(m, next, new)
    BY <1>3, <1>4 DEF FramesMatch
<1>8. \A u \in uploads : OfRequest(u, next, new)
    BY <1>3, <1>4 DEF FramesMatch, TypeOK
<1>9. \A l \in Links : \A m \in Range(toSrv'[l]) : Consistent(m, next, new)
    BY <1>1, <1>2, <1>6
<1> QED
    BY <1>1, <1>2, <1>5, <1>7, <1>8, <1>9 DEF FramesMatch

\* What it means for a handler to take its event.
LEMMA EventTaken ==
    ASSUME TypeOK, NEW type, TakeEvent(type)
    PROVE  /\ events # <<>> /\ events' = Tail(events) /\ Head(events).type = type
           /\ events' \in Seq(Events) /\ Range(events') \subseteq Range(events)
           /\ UNCHANGED <<linkVars, toMe, uploads>>
           /\ LinkTypes' /\ (toSrv' \in [Links -> Seq(ToServer)] => FrameTypes')
<1>1. /\ events # <<>> /\ events' = Tail(events) /\ Head(events).type = type
      /\ UNCHANGED <<linkVars, toMe, uploads>>
    BY DEF TakeEvent
<1>2. Tail(events) \in Seq(Events) /\ Range(Tail(events)) \subseteq Range(events)
    BY <1>1, TakenFirst DEF TypeOK
<1> QED
    BY <1>1, <1>2 DEF LinkTypes, FrameTypes, TypeOK, linkVars

\* The command taken becomes the one request of its client.
LEMMA CommandBecomesRequest ==
    ASSUME TypeOK, RequestsAccountedFor, events # <<>>, events' = Tail(events),
           Head(events).type \in {"get", "list"}, Head(events).client \in Clients,
           pending' = Put(pending, nextReq, Head(events).client), UNCHANGED client
    PROVE  \A c \in Clients : Accounted(events', pending', client'[c], c)
<1>1. PICK d \in Clients : d = Head(events).client
    OBVIOUS
<1>2. nextReq \notin DOMAIN pending /\ pending' = Put(pending, nextReq, d)
    BY <1>1 DEF TypeOK, Requests
<1>3. ASSUME NEW c \in Clients, c = d PROVE Accounted(events', pending', client'[c], c)
  <2>1. Queued(Tail(events), c) = {} /\ Asked(pending, c) = {} /\ client[c] = "waiting"
    <3>1. IsCommandOf(Head(events), c) /\ Accounted(events, pending, client[c], c)
        BY <1>1, <1>3 DEF IsCommandOf, RequestsAccountedFor
    <3>2. events \in Seq(Events) /\ events # <<>>
        BY DEF TypeOK
    <3> QED
        BY <3>1, <3>2, CommandTaken
  <2>2. Asked(pending', c) = {nextReq}
    BY <1>2, <1>3, <2>1, AskedAfterPut
  <2> QED
    BY <2>1, <2>2 DEF Accounted
<1>4. ASSUME NEW c \in Clients, c # d PROVE Accounted(events', pending', client'[c], c)
  <2>1. Accounted(Tail(events), pending, client[c], c)
    BY <1>1, <1>4, TakenKeepsAccount DEF IsCommandOf, RequestsAccountedFor, TypeOK
  <2>2. Asked(pending', c) = Asked(pending, c)
    BY <1>2, <1>4, AskedAfterPut
  <2> QED
    BY <2>1, <2>2 DEF Accounted
<1> QED
    BY <1>3, <1>4

\* A list moves its command from the queue to the tracker.
LEMMA ListHandled ==
    ASSUME LoopInv, HandleList
    PROVE  LoopInv'
<1> DEFINE e == Head(events)
           m == [type |-> "list", req |-> nextReq]
<1>0. TypeOK /\ FramesMatch /\ RequestsAccountedFor /\ DownloadIsCancellable /\ LoopTypes
    BY TypeParts DEF LoopInv
<1>1. /\ TakeEvent("list") /\ nextReq' = nextReq + 1
      /\ pending' = Put(pending, nextReq, e.client) /\ SendTo(e.peer, m)
      /\ UNCHANGED <<transfers, downloads, files, client>>
    BY DEF HandleList
<1>2. /\ events # <<>> /\ events' = Tail(events) /\ e.type = "list"
      /\ Range(events') \subseteq Range(events) /\ UNCHANGED <<toMe, uploads>>
      /\ LinkTypes' /\ (toSrv' \in [Links -> Seq(ToServer)] => FrameTypes')
    BY <1>0, <1>1, EventTaken
<1>3. e.client \in Clients /\ e.peer \in Servers
    BY <1>0, <1>2, NextEvent
<1>4. m \in ToServer /\ m.type = "list" /\ m.req = nextReq
    BY <1>0 DEF LoopTypes, ToServer
<1>5. Consistent(m, nextReq', transfers')
    BY <1>0, <1>1, <1>4 DEF Consistent, LoopTypes, Requests
<1>6. \A c \in Clients : Accounted(events', pending', client'[c], c)
    BY <1>0, <1>1, <1>2, <1>3, CommandBecomesRequest
<1> HIDE DEF e, m
<1>7. /\ toSrv' \in [Links -> Seq(ToServer)]
      /\ \A l \in Links : Range(toSrv'[l]) \subseteq Range(toSrv[l]) \cup {m}
    BY <1>0, <1>1, <1>3, <1>4, SentToServer
<1>8. LoopTypes'
    BY <1>0, <1>1, <1>3 DEF LoopTypes, Requests, Put
<1>9. FramesMatch'
  <2>1. nextReq' \in Nat /\ nextReq' >= nextReq
    BY <1>0, <1>1 DEF LoopTypes
  <2> QED
    BY <1>0, <1>1, <1>2, <1>5, <1>7, <2>1, FramesStillMatch
<1>10. RequestsAccountedFor'
    BY <1>0, <1>1, <1>6 DEF RequestsAccountedFor, Put
<1>11. DownloadIsCancellable'
    BY <1>0, <1>1 DEF DownloadIsCancellable
<1> QED
    BY <1>2, <1>7, <1>8, <1>9, <1>10, <1>11 DEF LoopInv, TypeOK, LinkTypes, FrameTypes, LoopTypes

\* A get does too, with a transfer and a download of its own.
LEMMA GetHandled ==
    ASSUME LoopInv, HandleGet
    PROVE  LoopInv'
<1> DEFINE e == Head(events)
           m == [type |-> "download", req |-> nextReq, res |-> e.res]
           d == [got |-> <<>>, broken |-> FALSE]
           t == [peer |-> e.peer, res |-> e.res, via |-> mine[e.peer]]
<1>0. TypeOK /\ FramesMatch /\ RequestsAccountedFor /\ DownloadIsCancellable /\ LoopTypes
    BY TypeParts DEF LoopInv
<1>1. /\ TakeEvent("get") /\ nextReq' = nextReq + 1
      /\ pending' = Put(pending, nextReq, e.client) /\ SendTo(e.peer, m)
      /\ downloads' = Put(downloads, e.res, d) /\ transfers' = Put(transfers, nextReq, t)
      /\ UNCHANGED <<files, client>>
    BY DEF HandleGet
<1>2. /\ events # <<>> /\ events' = Tail(events) /\ e.type = "get"
      /\ Range(events') \subseteq Range(events) /\ UNCHANGED <<toMe, uploads>>
      /\ LinkTypes' /\ (toSrv' \in [Links -> Seq(ToServer)] => FrameTypes')
    BY <1>0, <1>1, EventTaken
<1>3. e.client \in Clients /\ e.peer \in Servers /\ e.res \in Resources
    BY <1>0, <1>2, NextEvent
<1>4. m \in ToServer /\ m.type = "download" /\ m.req = nextReq /\ m.res = e.res
    BY <1>0, <1>3 DEF LoopTypes, ToServer
<1>5. t \in TransferRecords /\ t.res = e.res /\ d \in [got : Chunks, broken : BOOLEAN]
    BY <1>0, <1>3 DEF TransferRecords, TypeOK, Chunks
<1>6. \A c \in Clients : Accounted(events', pending', client'[c], c)
    BY <1>0, <1>1, <1>2, <1>3, CommandBecomesRequest
<1> HIDE DEF e, m, d, t
<1>7. /\ toSrv' \in [Links -> Seq(ToServer)]
      /\ \A l \in Links : Range(toSrv'[l]) \subseteq Range(toSrv[l]) \cup {m}
    BY <1>0, <1>1, <1>3, <1>4, SentToServer
<1>8. LoopTypes'
  <2>1. nextReq' \in Nat \ {0} /\ nextReq \in Requests' /\ Requests \subseteq Requests'
    BY <1>0, <1>1 DEF LoopTypes, Requests
  <2>2. DOMAIN pending' \subseteq Requests' /\ pending' \in [DOMAIN pending' -> Clients]
    BY <1>0, <1>1, <1>3, <2>1 DEF LoopTypes, Put
  <2>3. /\ DOMAIN transfers' \subseteq Requests'
        /\ transfers' \in [DOMAIN transfers' -> TransferRecords]
    BY <1>0, <1>1, <1>5, <2>1 DEF LoopTypes, Put
  <2>4. /\ DOMAIN downloads' \subseteq Resources
        /\ downloads' \in [DOMAIN downloads' -> [got : Chunks, broken : BOOLEAN]]
    BY <1>0, <1>1, <1>3, <1>5 DEF LoopTypes, Put
  <2> QED
    BY <1>0, <1>1, <2>1, <2>2, <2>3, <2>4 DEF LoopTypes
<1>9. FramesMatch'
  <2>1. nextReq' \in Nat /\ nextReq' >= nextReq
    BY <1>0, <1>1 DEF LoopTypes
  <2>2. /\ transfers'[nextReq] = t
        /\ \A q \in DOMAIN transfers' : \/ q \in DOMAIN transfers /\ transfers'[q] = transfers[q]
                                        \/ q = nextReq
    BY <1>1 DEF Put
  <2>3. Consistent(m, nextReq', transfers')
    BY <1>0, <1>1, <1>4, <1>5, <2>2 DEF Consistent, OfRequest, LoopTypes
  <2> QED
    BY <1>0, <1>2, <1>7, <2>1, <2>2, <2>3, FramesStillMatch
<1>10. RequestsAccountedFor'
    BY <1>0, <1>1, <1>6 DEF RequestsAccountedFor, Put
<1>11. DownloadIsCancellable'
  <2>1. /\ transfers'[nextReq] = t /\ nextReq \in DOMAIN transfers'
        /\ \A q \in DOMAIN transfers : q \in DOMAIN transfers' /\ transfers'[q] = transfers[q]
        /\ DOMAIN downloads' = DOMAIN downloads \cup {e.res}
    BY <1>0, <1>1 DEF Put, LoopTypes, Requests
  <2> QED
    BY <1>0, <1>5, <2>1 DEF DownloadIsCancellable
<1> QED
    BY <1>2, <1>7, <1>8, <1>9, <1>10, <1>11 DEF LoopInv, TypeOK, LinkTypes, FrameTypes, LoopTypes

\* The command taken is answered at once.
LEMMA GetFailureHandled ==
    ASSUME LoopInv, HandleGetFails
    PROVE  LoopInv'
<1> DEFINE e == Head(events)
<1>0. TypeOK /\ FramesMatch /\ RequestsAccountedFor /\ DownloadIsCancellable /\ LoopTypes
    BY TypeParts DEF LoopInv
<1>1. /\ TakeEvent("get") /\ client' = [client EXCEPT ![e.client] = "failed"]
      /\ UNCHANGED <<toSrv, nextReq, pending, transfers, downloads, files>>
    BY DEF HandleGetFails, loopVars
<1>2. /\ events # <<>> /\ events' = Tail(events) /\ e.type = "get"
      /\ Range(events') \subseteq Range(events) /\ UNCHANGED <<toMe, uploads>>
      /\ LinkTypes' /\ (toSrv' \in [Links -> Seq(ToServer)] => FrameTypes')
    BY <1>0, <1>1, EventTaken
<1>3. e.client \in Clients
    BY <1>0, <1>2, NextEvent
<1>4. LoopTypes' /\ FrameTypes'
    BY <1>0, <1>1, <1>2 DEF LoopTypes, Requests, TypeOK
<1>5. FramesMatch'
  <2>1. nextReq' \in Nat /\ nextReq' >= nextReq
    BY <1>0, <1>1 DEF LoopTypes
  <2> QED
    BY <1>0, <1>1, <1>2, <2>1, FramesStillMatch
<1>6. ASSUME NEW c \in Clients PROVE Accounted(events', pending', client'[c], c)
  <2>1. CASE c = e.client
    <3>1. Queued(Tail(events), c) = {} /\ Asked(pending, c) = {}
        BY <1>0, <1>2, <2>1, CommandTaken DEF IsCommandOf, RequestsAccountedFor, TypeOK
    <3>2. client'[c] = "failed"
        BY <1>0, <1>1, <1>3, <2>1 DEF LoopTypes
    <3> QED
        BY <1>1, <1>2, <3>1, <3>2 DEF Accounted
  <2>2. CASE c # e.client
    <3>1. Accounted(Tail(events), pending, client[c], c)
        BY <1>0, <1>2, <2>2, TakenKeepsAccount DEF IsCommandOf, RequestsAccountedFor, TypeOK
    <3>2. client'[c] = client[c]
        BY <1>0, <1>1, <2>2 DEF LoopTypes
    <3> QED
        BY <1>1, <1>2, <3>1, <3>2
  <2> QED
    BY <2>1, <2>2
<1>7. RequestsAccountedFor' /\ DownloadIsCancellable'
    BY <1>0, <1>1, <1>6 DEF RequestsAccountedFor, DownloadIsCancellable
<1> QED
    BY <1>2, <1>4, <1>5, <1>7 DEF LoopInv, TypeOK, LinkTypes, FrameTypes, LoopTypes
\* The other events leave the queued commands where they are.
LEMMA OthersKeepAccount ==
    ASSUME TypeOK, RequestsAccountedFor, events # <<>>, events' = Tail(events),
           Head(events).type \notin {"get", "list"}, UNCHANGED <<pending, client>>
    PROVE  \A c \in Clients : Accounted(events', pending', client'[c], c)
BY TakenKeepsAccount DEF RequestsAccountedFor, IsCommandOf, TypeOK

\* A resource list answers its request, which is no transfer.
LEMMA ResourcesHandled ==
    ASSUME LoopInv, HandleResources
    PROVE  LoopInv'
<1> DEFINE e == Head(events)
<1>0. TypeOK /\ FramesMatch /\ RequestsAccountedFor /\ DownloadIsCancellable /\ LoopTypes
    BY TypeParts DEF LoopInv
<1>1. /\ TakeEvent("resources") /\ Answer({e.req}, "ok")
      /\ UNCHANGED <<toSrv, nextReq, transfers, downloads, files>>
    BY DEF HandleResources
<1>2. /\ events # <<>> /\ events' = Tail(events) /\ e.type = "resources"
      /\ Range(events') \subseteq Range(events) /\ UNCHANGED <<toMe, uploads>>
      /\ LinkTypes' /\ (toSrv' \in [Links -> Seq(ToServer)] => FrameTypes')
    BY <1>0, <1>1, EventTaken
<1>3. /\ \A c \in Clients : Accounted(events', pending', client'[c], c)
      /\ DOMAIN pending' = DOMAIN pending \ {e.req}
      /\ client' \in [Clients -> {"idle", "waiting", "ok", "failed"}]
      /\ pending' \in [DOMAIN pending' -> Clients]
    BY <1>0, <1>1, <1>2, AnswerAccounts
<1>4. e.req \notin DOMAIN transfers
    BY <1>0, <1>2, NextEvent DEF FramesMatch, Consistent
<1> HIDE DEF e
<1>5. LoopTypes' /\ FrameTypes'
    BY <1>0, <1>1, <1>2, <1>3 DEF LoopTypes, Requests, TypeOK
<1>6. FramesMatch'
  <2>1. nextReq' \in Nat /\ nextReq' >= nextReq
    BY <1>0, <1>1 DEF LoopTypes
  <2> QED
    BY <1>0, <1>1, <1>2, <2>1, FramesStillMatch
<1>7. RequestsAccountedFor' /\ DownloadIsCancellable'
    BY <1>0, <1>1, <1>3, <1>4 DEF RequestsAccountedFor, DownloadIsCancellable
<1> QED
    BY <1>2, <1>5, <1>6, <1>7 DEF LoopInv, TypeOK, LinkTypes, FrameTypes, LoopTypes

\* A chunk touches its download only.
LEMMA ChunkHandled ==
    ASSUME LoopInv, HandleChunk
    PROVE  LoopInv'
<1> DEFINE e == Head(events)
<1>0. TypeOK /\ FramesMatch /\ RequestsAccountedFor /\ DownloadIsCancellable /\ LoopTypes
    BY TypeParts DEF LoopInv
<1>1. /\ TakeEvent("chunk")
      /\ UNCHANGED <<toSrv, nextReq, pending, transfers, files, client>>
    BY DEF HandleChunk
<1>2. /\ events # <<>> /\ events' = Tail(events) /\ e.type = "chunk"
      /\ Range(events') \subseteq Range(events) /\ UNCHANGED <<toMe, uploads>>
      /\ LinkTypes' /\ (toSrv' \in [Links -> Seq(ToServer)] => FrameTypes')
    BY <1>0, <1>1, EventTaken
<1>3. e.res \in Resources /\ e.index \in 1..Size
    BY <1>0, <1>2, NextEvent
<1>4. /\ DOMAIN downloads' = DOMAIN downloads
      /\ downloads' \in [DOMAIN downloads' -> [got : Chunks, broken : BOOLEAN]]
  <2>1. CASE e.res \in DOMAIN downloads /\ ~downloads[e.res].broken
    <3>1. PICK fails \in BOOLEAN : downloads' = [downloads EXCEPT ![e.res] =
                    [got |-> Append(downloads[e.res].got, e.index), broken |-> fails]]
        BY <2>1, FaultsAssumption DEF HandleChunk
    <3>2. Append(downloads[e.res].got, e.index) \in Chunks
        BY <1>0, <1>3, <2>1, AppendProperties DEF LoopTypes, Chunks
    <3> QED
        BY <1>0, <2>1, <3>1, <3>2 DEF LoopTypes
  <2>2. CASE ~(e.res \in DOMAIN downloads /\ ~downloads[e.res].broken)
    BY <1>0, <2>2 DEF HandleChunk, LoopTypes
  <2> QED
    BY <2>1, <2>2
<1>5. \A c \in Clients : Accounted(events', pending', client'[c], c)
    BY <1>0, <1>1, <1>2, OthersKeepAccount
<1> HIDE DEF e
<1>6. LoopTypes' /\ FrameTypes'
    BY <1>0, <1>1, <1>2, <1>4 DEF LoopTypes, Requests, TypeOK
<1>7. FramesMatch'
  <2>1. nextReq' \in Nat /\ nextReq' >= nextReq
    BY <1>0, <1>1 DEF LoopTypes
  <2> QED
    BY <1>0, <1>1, <1>2, <2>1, FramesStillMatch
<1>8. RequestsAccountedFor' /\ DownloadIsCancellable'
    BY <1>0, <1>1, <1>4, <1>5 DEF RequestsAccountedFor, DownloadIsCancellable
<1> QED
    BY <1>2, <1>6, <1>7, <1>8 DEF LoopInv, TypeOK, LinkTypes, FrameTypes, LoopTypes

\* An End names the resource its request is of: the transfer that goes and the
\* download that goes are of one resource.
LEMMA EndHandled ==
    ASSUME LoopInv, HandleEnd
    PROVE  LoopInv'
<1> DEFINE e == Head(events)
<1>0. TypeOK /\ FramesMatch /\ RequestsAccountedFor /\ DownloadIsCancellable /\ LoopTypes
    BY TypeParts DEF LoopInv
<1>1. /\ TakeEvent("end") /\ e.res \in DOMAIN downloads
      /\ files' = Put(files, e.res, downloads[e.res].got)
      /\ downloads' = Drop(downloads, {e.res}) /\ transfers' = Drop(transfers, {e.req})
      /\ IF e.req \in DOMAIN transfers THEN Answer({e.req}, "ok")
         ELSE UNCHANGED <<pending, client>>
      /\ UNCHANGED <<toSrv, nextReq>>
    BY DEF HandleEnd
<1>2. /\ events # <<>> /\ events' = Tail(events) /\ e.type = "end"
      /\ Range(events') \subseteq Range(events) /\ UNCHANGED <<toMe, uploads>>
      /\ LinkTypes' /\ (toSrv' \in [Links -> Seq(ToServer)] => FrameTypes')
    BY <1>0, <1>1, EventTaken
<1>3. e.req \in Nat /\ e.res \in Resources /\ OfRequest(e, nextReq, transfers)
    BY <1>0, <1>2, NextEvent DEF FramesMatch, Consistent
<1>4. /\ \A c \in Clients : Accounted(events', pending', client'[c], c)
      /\ DOMAIN pending' \subseteq DOMAIN pending
      /\ DOMAIN pending \ {e.req} \subseteq DOMAIN pending'
      /\ client' \in [Clients -> {"idle", "waiting", "ok", "failed"}]
      /\ pending' \in [DOMAIN pending' -> Clients]
  <2>1. CASE e.req \in DOMAIN transfers
    BY <1>0, <1>1, <1>2, <2>1, AnswerAccounts
  <2>2. CASE e.req \notin DOMAIN transfers
    BY <1>0, <1>1, <1>2, <2>2, OthersKeepAccount DEF LoopTypes
  <2> QED
    BY <2>1, <2>2
<1> HIDE DEF e
<1>5. /\ DOMAIN transfers' = DOMAIN transfers \ {e.req}
      /\ \A q \in DOMAIN transfers' : transfers'[q] = transfers[q]
      /\ transfers' \in [DOMAIN transfers' -> TransferRecords]
    BY <1>0, <1>1 DEF LoopTypes, Drop, Restrict
<1>6. /\ DOMAIN downloads' = DOMAIN downloads \ {e.res}
      /\ downloads' \in [DOMAIN downloads' -> [got : Chunks, broken : BOOLEAN]]
    BY <1>0, <1>1 DEF LoopTypes, Drop, Restrict
<1>7. DOMAIN files' \subseteq Resources /\ files' \in [DOMAIN files' -> Chunks]
    BY <1>0, <1>1, <1>3 DEF LoopTypes, Put
<1>8. LoopTypes' /\ FrameTypes'
    BY <1>0, <1>1, <1>2, <1>4, <1>5, <1>6, <1>7 DEF LoopTypes, Requests, TypeOK
<1>9. FramesMatch'
  <2>1. nextReq' \in Nat /\ nextReq' >= nextReq
    BY <1>0, <1>1 DEF LoopTypes
  <2> QED
    BY <1>0, <1>1, <1>2, <1>5, <2>1, FramesStillMatch
<1>10. RequestsAccountedFor'
    BY <1>0, <1>4, <1>5 DEF RequestsAccountedFor
<1>11. DownloadIsCancellable'
  <2>1. ASSUME NEW r \in DOMAIN downloads'
        PROVE  \E q \in DOMAIN transfers' : transfers'[q].res = r
    <3>1. PICK q \in DOMAIN transfers : transfers[q].res = r
        BY <1>0, <1>6 DEF DownloadIsCancellable
    <3>2. r # e.res
        BY <1>6
    <3>3. q # e.req
        BY <1>3, <3>1, <3>2 DEF OfRequest
    <3> QED
        BY <1>5, <3>1, <3>3
  <2> QED
    BY <2>1 DEF DownloadIsCancellable
<1> QED
    BY <1>2, <1>8, <1>9, <1>10, <1>11 DEF LoopInv, TypeOK, LinkTypes, FrameTypes, LoopTypes

\* A failed completion takes the download and leaves the transfer, which stays
\* pending.
LEMMA EndFailureHandled ==
    ASSUME LoopInv, HandleEndFails
    PROVE  LoopInv'
<1> DEFINE e == Head(events)
<1>0. TypeOK /\ FramesMatch /\ RequestsAccountedFor /\ DownloadIsCancellable /\ LoopTypes
    BY TypeParts DEF LoopInv
<1>1. /\ TakeEvent("end") /\ downloads' = Drop(downloads, {e.res})
      /\ UNCHANGED <<toSrv, nextReq, pending, transfers, files, client>>
    BY DEF HandleEndFails
<1>2. /\ events # <<>> /\ events' = Tail(events) /\ e.type = "end"
      /\ Range(events') \subseteq Range(events) /\ UNCHANGED <<toMe, uploads>>
      /\ LinkTypes' /\ (toSrv' \in [Links -> Seq(ToServer)] => FrameTypes')
    BY <1>0, <1>1, EventTaken
<1>3. \A c \in Clients : Accounted(events', pending', client'[c], c)
    BY <1>0, <1>1, <1>2, OthersKeepAccount
<1> HIDE DEF e
<1>4. /\ DOMAIN downloads' = DOMAIN downloads \ {e.res}
      /\ downloads' \in [DOMAIN downloads' -> [got : Chunks, broken : BOOLEAN]]
    BY <1>0, <1>1 DEF LoopTypes, Drop, Restrict
<1>5. LoopTypes' /\ FrameTypes'
    BY <1>0, <1>1, <1>2, <1>4 DEF LoopTypes, Requests, TypeOK
<1>6. FramesMatch'
  <2>1. nextReq' \in Nat /\ nextReq' >= nextReq
    BY <1>0, <1>1 DEF LoopTypes
  <2> QED
    BY <1>0, <1>1, <1>2, <2>1, FramesStillMatch
<1>7. RequestsAccountedFor' /\ DownloadIsCancellable'
    BY <1>0, <1>1, <1>3, <1>4 DEF RequestsAccountedFor, DownloadIsCancellable
<1> QED
    BY <1>2, <1>5, <1>6, <1>7 DEF LoopInv, TypeOK, LinkTypes, FrameTypes, LoopTypes

\* A disconnect takes transfers away, and every download they could cancel.
LEMMA DisconnectHandled ==
    ASSUME LoopInv, HandleDisconnected
    PROVE  LoopInv'
<1> DEFINE e == Head(events)
           qs == Cancelled(e.peer)
<1>0. TypeOK /\ FramesMatch /\ RequestsAccountedFor /\ DownloadIsCancellable /\ LoopTypes
    BY TypeParts DEF LoopInv
<1>1. /\ TakeEvent("disconnected") /\ transfers' = Drop(transfers, qs)
      /\ downloads' = Drop(downloads, {transfers[q].res : q \in qs})
      /\ Answer(qs, "failed") /\ UNCHANGED <<toSrv, nextReq, files>>
    BY DEF HandleDisconnected
<1>2. /\ events # <<>> /\ events' = Tail(events) /\ e.type = "disconnected"
      /\ Range(events') \subseteq Range(events) /\ UNCHANGED <<toMe, uploads>>
      /\ LinkTypes' /\ (toSrv' \in [Links -> Seq(ToServer)] => FrameTypes')
    BY <1>0, <1>1, EventTaken
<1>3. /\ \A c \in Clients : Accounted(events', pending', client'[c], c)
      /\ DOMAIN pending' = DOMAIN pending \ qs
      /\ client' \in [Clients -> {"idle", "waiting", "ok", "failed"}]
      /\ pending' \in [DOMAIN pending' -> Clients]
    BY <1>0, <1>1, <1>2, AnswerAccounts
<1> HIDE DEF e, qs
<1>4. /\ DOMAIN transfers' = DOMAIN transfers \ qs
      /\ \A q \in DOMAIN transfers' : transfers'[q] = transfers[q]
      /\ transfers' \in [DOMAIN transfers' -> TransferRecords]
    BY <1>0, <1>1 DEF LoopTypes, Drop, Restrict
<1>5. /\ DOMAIN downloads' = DOMAIN downloads \ {transfers[q].res : q \in qs}
      /\ downloads' \in [DOMAIN downloads' -> [got : Chunks, broken : BOOLEAN]]
    BY <1>0, <1>1 DEF LoopTypes, Drop, Restrict
<1>6. LoopTypes' /\ FrameTypes'
    BY <1>0, <1>1, <1>2, <1>3, <1>4, <1>5 DEF LoopTypes, Requests, TypeOK
<1>7. FramesMatch'
  <2>1. nextReq' \in Nat /\ nextReq' >= nextReq
    BY <1>0, <1>1 DEF LoopTypes
  <2> QED
    BY <1>0, <1>1, <1>2, <1>4, <2>1, FramesStillMatch
<1>8. RequestsAccountedFor'
    BY <1>0, <1>3, <1>4 DEF RequestsAccountedFor
<1>9. DownloadIsCancellable'
    BY <1>0, <1>4, <1>5 DEF DownloadIsCancellable
<1> QED
    BY <1>2, <1>6, <1>7, <1>8, <1>9 DEF LoopInv, TypeOK, LinkTypes, FrameTypes, LoopTypes

-----------------------------------------------------------------------------
(* The commands, and the invariant.                                        *)

\* A client that asks was idle: it has no other command and no request.
LEMMA CommandAsked ==
    ASSUME LoopInv, NEW d \in Clients, NEW m \in Events, Ask(d, m),
           m.type \in {"get", "list"}, m.client = d, m \notin FromServer
    PROVE  LoopInv'
<1>0. TypeOK /\ FramesMatch /\ RequestsAccountedFor /\ DownloadIsCancellable
    BY DEF LoopInv
<1>1. /\ client[d] = "idle" /\ client' = [client EXCEPT ![d] = "waiting"]
      /\ events' = Append(events, m) /\ UNCHANGED <<linkVars, toMe, toSrv, uploads, loopVars>>
    BY DEF Ask
<1>2. events' \in Seq(Events) /\ Range(events') = Range(events) \cup {m}
    BY <1>0, <1>1, QueuedLast DEF TypeOK
<1>3. TypeOK'
    BY <1>0, <1>1, <1>2 DEF TypeOK, linkVars, loopVars, Requests
<1>4. FramesMatch'
    BY <1>0, <1>1, <1>2 DEF FramesMatch, loopVars
<1>5. ASSUME NEW c \in Clients PROVE Accounted(events', pending', client'[c], c)
  <2>1. Accounted(events, pending, client[c], c) /\ pending' = pending
    BY <1>0, <1>1 DEF RequestsAccountedFor, loopVars
  <2>2. CASE c = d
    <3>1. Queued(events, c) = {} /\ Asked(pending, c) = {}
        BY <1>1, <2>1, <2>2 DEF Accounted
    <3>2. Queued(events', c) = {Len(events) + 1}
      <4>1. events \in Seq(Events) /\ IsCommandOf(m, c)
        BY <1>0, <2>2 DEF IsCommandOf, TypeOK
      <4>2. Queued(Append(events, m), c) = Queued(events, c) \cup {Len(events) + 1}
        BY <4>1, QueuedAfterSend
      <4> QED
        BY <1>1, <3>1, <4>2
    <3>3. client'[c] = "waiting"
        BY <1>0, <1>1, <2>2 DEF TypeOK
    <3> QED
        BY <2>1, <3>1, <3>2, <3>3 DEF Accounted
  <2>3. CASE c # d
    <3>1. Queued(events', c) = Queued(events, c)
        BY <1>0, <1>1, <2>3, QueuedAfterSend DEF IsCommandOf, TypeOK
    <3>2. client'[c] = client[c]
        BY <1>0, <1>1, <2>3 DEF TypeOK
    <3> QED
        BY <2>1, <3>1, <3>2 DEF Accounted
  <2> QED
    BY <2>2, <2>3
<1>6. RequestsAccountedFor' /\ DownloadIsCancellable'
    BY <1>0, <1>1, <1>5 DEF RequestsAccountedFor, DownloadIsCancellable, loopVars
<1> QED
    BY <1>3, <1>4, <1>6 DEF LoopInv

\* Links, readers, servers and uploads leave the commands accounted for.
LEMMA NetworkKeepsLoop ==
    ASSUME LoopInv, Network
    PROVE  LoopInv'
<1>0. TypeOK /\ FramesMatch /\ RequestsAccountedFor /\ DownloadIsCancellable
    BY DEF LoopInv
<1>1. /\ TypeOK' /\ FramesMatch' /\ UNCHANGED <<loopVars, client>>
      /\ events' = events \/ \E m \in Events : /\ m.type \notin {"get", "list"}
                                               /\ events' = Append(events, m)
    BY <1>0, NetworkStep
<1>2. ASSUME NEW c \in Clients PROVE Queued(events', c) = Queued(events, c)
  <2>1. ASSUME NEW m \in Events, m.type \notin {"get", "list"}
        PROVE  Queued(Append(events, m), c) = Queued(events, c)
    <3>1. events \in Seq(Events) /\ ~IsCommandOf(m, c)
        BY <1>0, <2>1 DEF IsCommandOf, TypeOK
    <3> QED
        BY <3>1, QueuedAfterSend
  <2>2. CASE events' = events
    BY <2>2
  <2>3. CASE events' # events
    <3>1. PICK m \in Events : m.type \notin {"get", "list"} /\ events' = Append(events, m)
        BY <1>1, <2>3
    <3> QED
        BY <2>1, <3>1
  <2> QED
    BY <2>2, <2>3
<1>3. RequestsAccountedFor' /\ DownloadIsCancellable'
    BY <1>0, <1>1, <1>2 DEF RequestsAccountedFor, Accounted, DownloadIsCancellable, loopVars
<1> QED
    BY <1>1, <1>3 DEF LoopInv

\* LoopInv is preserved by every step.
LEMMA LoopStep ==
    ASSUME LoopInv, [Next]_vars
    PROVE  LoopInv'
<1>1. CASE UNCHANGED vars
    BY <1>1 DEF LoopInv, TypeOK, FramesMatch, RequestsAccountedFor, DownloadIsCancellable,
                Requests, vars, linkVars, loopVars
<1>2. CASE Network
    BY <1>2, NetworkKeepsLoop
<1>3. ASSUME NEW c \in Clients, NEW s \in Servers, AskList(c, s) PROVE LoopInv'
  <2> DEFINE m == [type |-> "list", client |-> c, peer |-> s]
  <2>1. Ask(c, m) /\ m \in Events /\ m.type = "list" /\ m.client = c /\ m \notin FromServer
    BY <1>3 DEF AskList, Events, FromServer
  <2> QED
    BY <2>1, CommandAsked
<1>4. ASSUME NEW c \in Clients, NEW s \in Servers, NEW r \in Resources, AskGet(c, s, r)
      PROVE  LoopInv'
  <2> DEFINE m == [type |-> "get", client |-> c, peer |-> s, res |-> r]
  <2>1. Ask(c, m) /\ m \in Events /\ m.type = "get" /\ m.client = c /\ m \notin FromServer
    BY <1>4 DEF AskGet, Events, FromServer
  <2> QED
    BY <2>1, CommandAsked
<1>5. CASE EventLoop
    BY <1>5, ListHandled, GetHandled, GetFailureHandled, ResourcesHandled, ChunkHandled,
       EndHandled, EndFailureHandled, DisconnectHandled DEF EventLoop
<1> QED
    BY <1>1, <1>2, <1>3, <1>4, <1>5 DEF Next, Network, LinkStep

\* LoopInv holds initially: nothing was asked.
LEMMA LoopInit == Init => LoopInv
<1> SUFFICES ASSUME Init PROVE LoopInv
    OBVIOUS
<1>1. TypeOK
    BY LinksAssumption DEF Init, TypeOK, Empty, Requests, TransferRecords, Chunks
<1>2. Range(events) = {} /\ (\A l \in Links : Range(toMe[l]) = {} /\ Range(toSrv[l]) = {})
    BY DEF Init, Range
<1>3. FramesMatch
    BY <1>2 DEF Init, FramesMatch
<1>4. RequestsAccountedFor /\ DownloadIsCancellable
    BY DEF Init, RequestsAccountedFor, DownloadIsCancellable, Accounted, Queued, Asked, Empty
<1> QED
    BY <1>1, <1>3, <1>4 DEF LoopInv

\* Whatever links come and go and whatever fails: the types, the frames that are
\* about requests handed out, the clients that are waited for, the downloads.
THEOREM CommandsAreAccountedFor == Spec => []LoopInv
<1>1. Init => LoopInv
    BY LoopInit
<1>2. LoopInv /\ [Next]_vars => LoopInv'
    BY LoopStep
<1> QED
    BY <1>1, <1>2, PTL DEF Spec

\* A waiting client has its command queued or one pending request, never both.
THEOREM NoRequestIsLost == Spec => []RequestsAccountedFor
<1>1. LoopInv => RequestsAccountedFor
    BY DEF LoopInv
<1> QED
    BY <1>1, CommandsAreAccountedFor, PTL

\* No active download is orphaned: some transfer's disconnect takes it away.
THEOREM DownloadsCanBeCancelled == Spec => []DownloadIsCancellable
<1>1. LoopInv => DownloadIsCancellable
    BY DEF LoopInv
<1> QED
    BY <1>1, CommandsAreAccountedFor, PTL
-----------------------------------------------------------------------------
(* Failed transfers and the ends of links.                                 *)

\* The index and the transfers go on naming links to their peers.
LEMMA IndexStaysOfPeers ==
    ASSUME LoopInv, IndexIsOfPeers, [Next]_vars
    PROVE  IndexIsOfPeers'
<1>0. TypeOK /\ LoopTypes
    BY TypeParts DEF LoopInv
<1>1. ASSUME UNCHANGED <<mine, transfers>> PROVE IndexIsOfPeers'
    BY <1>1 DEF IndexIsOfPeers
<1>2. CASE UNCHANGED vars
    BY <1>1, <1>2 DEF vars, linkVars, loopVars
<1>3. ASSUME NEW l \in Links, Connect(l) \/ Remove(l) PROVE IndexIsOfPeers'
  <2>1. transfers' = transfers /\ \A s \in Servers : OfLink(s, mine'[s])
    BY <1>0, <1>3 DEF Connect, Remove, IndexIsOfPeers, OfLink, TypeOK, loopVars
  <2> QED
    BY <2>1 DEF IndexIsOfPeers
<1>4. ASSUME NEW l \in Links, Lose(l) \/ ReadFrame(l) \/ ReaderEnds(l) \/ ReadTimesOut(l)
                               \/ ServerEnds(l) \/ Serve(l)
      PROVE  IndexIsOfPeers'
    BY <1>1, <1>4 DEF Lose, ReadFrame, ReaderEnds, ReadTimesOut, ServerEnds, Serve, ServeList,
       ServeDownload, IgnoreDownload, TakeRequest, linkVars, loopVars
<1>5. ASSUME NEW u \in uploads, Upload(u) PROVE IndexIsOfPeers'
    BY <1>1, <1>5 DEF Upload, UploadChunk, UploadEnd, UploadAborts, linkVars, loopVars
<1>6. ASSUME NEW c, NEW m, Ask(c, m) PROVE IndexIsOfPeers'
    BY <1>1, <1>6 DEF Ask, linkVars, loopVars
<1>7. CASE HandleGet
  <2> DEFINE e == Head(events)
             t == [peer |-> e.peer, res |-> e.res, via |-> mine[e.peer]]
  <2>1. TakeEvent("get") /\ transfers' = Put(transfers, nextReq, t)
    BY <1>7 DEF HandleGet
  <2>2. mine' = mine /\ events # <<>> /\ e.type = "get"
    BY <2>1 DEF TakeEvent, linkVars
  <2>3. e.peer \in Servers /\ t.peer = e.peer /\ t.via = mine[e.peer]
    BY <1>0, <2>2, NextEvent
  <2>4. OfLink(t.peer, t.via)
    BY <2>3 DEF IndexIsOfPeers
  <2> HIDE DEF t
  <2> QED
    BY <2>1, <2>2, <2>4 DEF IndexIsOfPeers, Put
<1>8. CASE HandleEnd \/ HandleDisconnected
    BY <1>8 DEF HandleEnd, HandleDisconnected, TakeEvent, IndexIsOfPeers, Drop, Restrict, linkVars
<1>9. CASE HandleList \/ HandleGetFails \/ HandleResources \/ HandleChunk \/ HandleEndFails
    BY <1>1, <1>9 DEF HandleList, HandleGetFails, HandleResources, HandleChunk, HandleEndFails,
       TakeEvent, linkVars, loopVars
<1> QED
    BY <1>2, <1>3, <1>4, <1>5, <1>6, <1>7, <1>8, <1>9
    DEF Next, EventLoop, AskList, AskGet

\* A Disconnected event is queued by a link that ends, and no ended link comes
\* up again.
LEMMA EndsStayReal ==
    ASSUME LoopInv, EndsAreReal, [Next]_vars
    PROVE  EndsAreReal'
<1>0. TypeOK /\ LinkTypes
    BY TypeParts DEF LoopInv
<1>1. ASSUME Range(events') \subseteq Range(events), UNCHANGED link PROVE EndsAreReal'
    BY <1>1 DEF EndsAreReal, HasEnded
<1>2. CASE UNCHANGED vars
    BY <1>1, <1>2 DEF vars, linkVars
<1>3. ASSUME NEW m \in Events, events' = Append(events, m), m.type # "disconnected",
             UNCHANGED link
      PROVE  EndsAreReal'
  <2>1. Range(events') = Range(events) \cup {m}
    BY <1>0, <1>3, QueuedLast DEF TypeOK
  <2> QED
    BY <1>3, <2>1 DEF EndsAreReal, HasEnded
<1>4. ASSUME NEW l \in Links, Connect(l) \/ Remove(l) PROVE EndsAreReal'
    BY <1>0, <1>4 DEF Connect, Remove, EndsAreReal, HasEnded, LinkTypes
<1>5. ASSUME NEW l \in Links, ReaderEnds(l) \/ ReadTimesOut(l) PROVE EndsAreReal'
  <2>1. /\ link' = [link EXCEPT ![l] = "ended"]
        /\ events' = Append(events, Ended(ServerOf[l]))
    BY <1>5 DEF ReaderEnds, ReadTimesOut, Ended
  <2>2. /\ Range(events') = Range(events) \cup {Ended(ServerOf[l])}
        /\ Ended(ServerOf[l]).peer = ServerOf[l]
    <3>1. events \in Seq(Events) /\ Ended(ServerOf[l]) \in Events
        BY <1>0, LinksAssumption, EndedIsNoFrame DEF TypeOK
    <3>2. Range(events') = Range(events) \cup {Ended(ServerOf[l])}
        BY <2>1, <3>1, QueuedLast
    <3> QED
        BY <3>2 DEF Ended
  <2>3. \A s : HasEnded(s) \/ s = ServerOf[l] => HasEnded(s)'
    BY <1>0, <2>1 DEF HasEnded, LinkTypes
  <2> QED
    BY <2>2, <2>3 DEF EndsAreReal
<1>6. ASSUME NEW l \in Links, ReadFrame(l) PROVE EndsAreReal'
  <2>1. /\ toMe[l] # <<>> /\ events' = Append(events, Head(toMe[l])) /\ link' = link
    BY <1>6 DEF ReadFrame, linkVars
  <2>2. Head(toMe[l]) \in FromServer
    BY <1>0, <2>1, TakenFirst DEF TypeOK
  <2>3. Head(toMe[l]) \in Events /\ Head(toMe[l]).type # "disconnected"
    BY <2>2 DEF FromServer, Events
  <2> QED
    BY <1>3, <2>1, <2>3
<1>7. ASSUME NEW l \in Links, Lose(l) \/ ServerEnds(l) \/ Serve(l) PROVE EndsAreReal'
    BY <1>1, <1>7 DEF Lose, ServerEnds, Serve, ServeList, ServeDownload, IgnoreDownload,
       TakeRequest, linkVars
<1>8. ASSUME NEW u \in uploads, Upload(u) PROVE EndsAreReal'
    BY <1>1, <1>8 DEF Upload, UploadChunk, UploadEnd, UploadAborts, linkVars
<1>9. ASSUME NEW c, NEW m \in Events, m.type # "disconnected", Ask(c, m) PROVE EndsAreReal'
    BY <1>3, <1>9 DEF Ask, linkVars
<1>10. ASSUME NEW c \in Clients, NEW s \in Servers, AskList(c, s) PROVE EndsAreReal'
  <2> DEFINE m == [type |-> "list", client |-> c, peer |-> s]
  <2>1. Ask(c, m) /\ m \in Events /\ m.type # "disconnected"
    BY <1>10 DEF AskList, Events
  <2> QED
    BY <1>9, <2>1
<1>11. ASSUME NEW c \in Clients, NEW s \in Servers, NEW r \in Resources, AskGet(c, s, r)
       PROVE  EndsAreReal'
  <2> DEFINE m == [type |-> "get", client |-> c, peer |-> s, res |-> r]
  <2>1. Ask(c, m) /\ m \in Events /\ m.type # "disconnected"
    BY <1>11 DEF AskGet, Events
  <2> QED
    BY <1>9, <2>1
<1>12. ASSUME NEW type, TakeEvent(type) PROVE EndsAreReal'
    BY <1>0, <1>1, <1>12, EventTaken DEF linkVars
<1>13. CASE EventLoop
    BY <1>12, <1>13 DEF EventLoop, HandleList, HandleGet, HandleGetFails, HandleResources,
       HandleChunk, HandleEnd, HandleEndFails, HandleDisconnected
<1> QED
    BY <1>2, <1>4, <1>5, <1>6, <1>7, <1>8, <1>10, <1>11, <1>13 DEF Next

\* A transfer is only failed by a disconnect of its peer.
LEMMA OnlyDisconnectFails ==
    ASSUME LoopInv, [Next]_vars, NEW q \in DOMAIN transfers, q \notin DOMAIN transfers',
           client'[pending[q]] = "failed"
    PROVE  /\ events # <<>> /\ Head(events).type = "disconnected"
           /\ transfers[q].peer = Head(events).peer
<1>0. TypeOK /\ FramesMatch /\ LoopTypes /\ q \in DOMAIN pending
    BY TypeParts DEF LoopInv, RequestsAccountedFor
<1>1. transfers' # transfers
    OBVIOUS
<1>2. ~UNCHANGED vars /\ ~Network
    BY <1>0, <1>1, NetworkStep DEF vars, loopVars
<1>3. \A c, m : ~Ask(c, m)
    BY <1>1 DEF Ask, loopVars
<1>4. EventLoop
    BY <1>2, <1>3 DEF Next, Network, LinkStep, AskList, AskGet
<1>5. ~HandleGet
    BY DEF HandleGet, Put
<1>6. ~HandleEnd
  <2> SUFFICES ASSUME HandleEnd PROVE FALSE
    OBVIOUS
  <2>1. transfers' = Drop(transfers, {Head(events).req})
    BY DEF HandleEnd
  <2>2. q = Head(events).req
    BY <2>1 DEF Drop, Restrict
  <2>3. Answer({q}, "ok")
    BY <2>2 DEF HandleEnd
  <2>4. client'[pending[q]] = "ok"
    BY <1>0, <2>3 DEF Answer, LoopTypes
  <2> QED
    BY <2>4
<1>7. HandleDisconnected
    BY <1>1, <1>4, <1>5, <1>6 DEF EventLoop, HandleList, HandleGetFails, HandleResources,
       HandleChunk, HandleEndFails, loopVars
<1>8. TakeEvent("disconnected") /\ transfers' = Drop(transfers, Cancelled(Head(events).peer))
    BY <1>7 DEF HandleDisconnected
<1>9. q \in Cancelled(Head(events).peer)
    BY <1>8 DEF Drop, Restrict
<1> QED
    BY <1>8, <1>9 DEF TakeEvent, Cancelled

LinkEndsInv == LoopInv /\ IndexIsOfPeers /\ EndsAreReal

\* The two hold always, along with LoopInv.
LEMMA LinkEndsInvariance == Spec => []LinkEndsInv
<1>1. Init => LinkEndsInv
  <2> SUFFICES ASSUME Init PROVE LinkEndsInv
    OBVIOUS
  <2>1. LoopInv
    BY LoopInit
  <2>2. IndexIsOfPeers
    BY DEF Init, IndexIsOfPeers, OfLink, Empty
  <2>3. EndsAreReal
    BY DEF Init, EndsAreReal, Range
  <2> QED
    BY <2>1, <2>2, <2>3 DEF LinkEndsInv
<1>2. LinkEndsInv /\ [Next]_vars => LinkEndsInv'
    BY LoopStep, IndexStaysOfPeers, EndsStayReal DEF LinkEndsInv
<1> QED
    BY <1>1, <1>2, PTL DEF Spec

\* A transfer fails only after some link to its peer has ended.
FailsAfterAnEnd ==
    [][\A q \in DOMAIN transfers :
          (q \notin DOMAIN transfers' /\ client'[pending[q]] = "failed") =>
             HasEnded(transfers[q].peer)]_vars

\* A step that fails a transfer handles the end of a link to its peer.
LEMMA FailureFollowsAnEnd ==
    ASSUME LinkEndsInv, [Next]_vars, NEW q \in DOMAIN transfers, q \notin DOMAIN transfers',
           client'[pending[q]] = "failed"
    PROVE  HasEnded(transfers[q].peer)
<1>1. /\ events # <<>> /\ Head(events).type = "disconnected"
      /\ transfers[q].peer = Head(events).peer
    BY OnlyDisconnectFails DEF LinkEndsInv
<1>2. Head(events) \in Range(events)
    BY <1>1, TakenFirst DEF LinkEndsInv, LoopInv, TypeOK
<1> QED
    BY <1>1, <1>2 DEF LinkEndsInv, EndsAreReal

\* Whatever fails and however often peers reconnect, a get is only failed when a
\* link to the peer it went to has ended, though not always the link it went by.
THEOREM FailuresFollowEnds == Spec => FailsAfterAnEnd
<1>1. LinkEndsInv /\ [Next]_vars =>
        [\A q \in DOMAIN transfers :
            (q \notin DOMAIN transfers' /\ client'[pending[q]] = "failed") =>
               HasEnded(transfers[q].peer)]_vars
    BY FailureFollowsAnEnd
<1> QED
    BY <1>1, LinkEndsInvariance, PTL DEF Spec, FailsAfterAnEnd

OneLinkEach == \A k, l \in Links : ServerOf[k] = ServerOf[l] => k = l

\* While a peer is not connected twice, a get fails only when the link that its
\* request went out on has ended.
THEOREM LiveTransfersNeverFail ==
    ASSUME OneLinkEach
    PROVE  Spec => LiveTransfersSurvive
<1>1. ASSUME LinkEndsInv, [Next]_vars, NEW q \in DOMAIN transfers, q \notin DOMAIN transfers',
             client'[pending[q]] = "failed"
      PROVE  transfers[q].via = NoLink \/ link[transfers[q].via] # "up"
  <2>1. PICK l \in Links : /\ ServerOf[l] = transfers[q].peer
                            /\ link[l] \in {"ended", "closed"}
    BY <1>1, FailureFollowsAnEnd DEF HasEnded
  <2>2. OfLink(transfers[q].peer, transfers[q].via)
    BY <1>1 DEF LinkEndsInv, IndexIsOfPeers
  <2> QED
    BY <2>1, <2>2, OneLinkEach DEF OneLinkEach, OfLink
<1>2. LinkEndsInv /\ [Next]_vars =>
        [\A q \in DOMAIN transfers :
            (q \notin DOMAIN transfers' /\ client'[pending[q]] = "failed") =>
               \/ transfers[q].via = NoLink
               \/ link[transfers[q].via] # "up"]_vars
    BY <1>1
<1> QED
    BY <1>2, LinkEndsInvariance, PTL DEF Spec, LiveTransfersSurvive
=============================================================================
