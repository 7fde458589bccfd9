------------------------------ MODULE Transfers ------------------------------
(***************************************************************************)
(* The requesting daemon's event loop and the daemons it downloads from:   *)
(* event_handler.rs with the request tracker, the transfer manager, the    *)
(* download manager, the reader threads that feed the event queue and the  *)
(* upload threads of the remote side.                                      *)
(*                                                                         *)
(* The links are those of PeerLink seen from one node, reduced: both ends  *)
(* register a link in one step, a later link to the same peer displaces    *)
(* the earlier one at both ends (it is dialled in the winning direction;   *)
(* a losing challenger never carries a frame), and a displaced link stays  *)
(* readable until it ends.  Peer and resource aliases are already known.   *)
(***************************************************************************)
EXTENDS Naturals, FiniteSets, Sequences, Functions

CONSTANTS
    Servers,       \* remote peers
    Links,         \* connections, each established at most once
    ServerOf,      \* ServerOf[l]: the peer at the other end of link l
    NoLink,        \* no entry in an index
    Resources,     \* resource ids, each served by every server
    Size,          \* chunks of a resource
    Clients,       \* parsip commands run against the local daemon
    MaxLost,       \* how many links the network may lose
    ReadTimeouts,  \* whether the 60 s read timeout may fire
    ServeFaults,   \* whether a server may lack or fail to read the file
    DiskFaults     \* whether writing or renaming the download may fail

ASSUME LinksAssumption == ServerOf \in [Links -> Servers] /\ NoLink \notin Links
ASSUME BoundsAssumption == Size \in Nat \ {0} /\ MaxLost \in Nat
ASSUME FaultsAssumption ==
    ReadTimeouts \in BOOLEAN /\ ServeFaults \in BOOLEAN /\ DiskFaults \in BOOLEAN

VARIABLES
    \* connections
    link,       \* link[l]: the local end, as in PeerLink
    srvLink,    \* srvLink[l]: the remote end
    mine,       \* mine[s]: the local index entry for s
    theirs,     \* theirs[s]: the entry for the local peer in s's index
    lost,       \* links whose path died
    toMe,       \* toMe[l]: frames on their way to the local reader
    toSrv,      \* toSrv[l]: frames on their way to the server
    uploads,    \* the servers' running upload threads
    \* the local event loop
    events,     \* the mpsc queue of PeerEvents
    nextReq,    \* RequestTracker::next_id
    pending,    \* RequestTracker::pending_requests, request id -> client
    transfers,  \* TransferManager::transfers, request id -> transfer
    downloads,  \* DownloadManager::downloads, resource id -> active download
    files,      \* the downloads directory, resource id -> chunks written
    client      \* client[c]: "idle", "waiting" or the terminal answer

linkVars == <<link, srvLink, mine, theirs, lost>>
loopVars == <<nextReq, pending, transfers, downloads, files>>
vars == <<linkVars, toMe, toSrv, uploads, events, loopVars, client>>

Whole == [k \in 1..Size |-> k]
Empty == [x \in {} |-> x]

Put(map, k, v) == [x \in DOMAIN map \cup {k} |-> IF x = k THEN v ELSE map[x]]
Drop(map, ks) == Restrict(map, DOMAIN map \ ks)

Init ==
    /\ link = [l \in Links |-> "down"]
    /\ srvLink = [l \in Links |-> "down"]
    /\ mine = [s \in Servers |-> NoLink]
    /\ theirs = [s \in Servers |-> NoLink]
    /\ lost = {}
    /\ toMe = [l \in Links |-> <<>>]
    /\ toSrv = [l \in Links |-> <<>>]
    /\ uploads = {}
    /\ events = <<>>
    /\ nextReq = 1
    /\ pending = Empty
    /\ transfers = Empty
    /\ downloads = Empty
    /\ files = Empty
    /\ client = [c \in Clients |-> "idle"]

\* peer.send on the local side: a frame for s goes to the indexed link; the
\* error of a peer without one is ignored by every caller in the event loop.
SendTo(s, msg) ==
    toSrv' = IF mine[s] = NoLink THEN toSrv
             ELSE [toSrv EXCEPT ![mine[s]] = Append(@, msg)]

-----------------------------------------------------------------------------
(* Connections and their reader threads.                                   *)

Connect(l) ==
    /\ link[l] = "down"
    /\ link' = [link EXCEPT ![l] = "up"]
    /\ srvLink' = [srvLink EXCEPT ![l] = "up"]
    /\ mine' = [mine EXCEPT ![ServerOf[l]] = l]
    /\ theirs' = [theirs EXCEPT ![ServerOf[l]] = l]
    /\ UNCHANGED <<lost, toMe, toSrv, uploads, events, loopVars, client>>

Lose(l) ==
    /\ Cardinality(lost) < MaxLost
    /\ l \notin lost
    /\ link[l] = "up" \/ srvLink[l] = "up"
    /\ lost' = lost \cup {l}
    /\ UNCHANGED <<link, srvLink, mine, theirs, toMe, toSrv, uploads, events,
                   loopVars, client>>

\* The reader thread forwards the next frame to the event queue.
ReadFrame(l) ==
    /\ link[l] = "up"
    /\ toMe[l] # <<>>
    /\ events' = Append(events, Head(toMe[l]))
    /\ toMe' = [toMe EXCEPT ![l] = Tail(@)]
    /\ UNCHANGED <<linkVars, toSrv, uploads, loopVars, client>>

\* Bug variant: the loop ends and tells nobody.
ReaderEndsSilently(l) ==
    /\ link[l] = "up"
    /\ l \in lost \/ (srvLink[l] = "closed" /\ toMe[l] = <<>>)
    /\ link' = [link EXCEPT ![l] = "ended"]
    /\ UNCHANGED <<srvLink, mine, theirs, lost, toMe, toSrv, uploads, events,
                   loopVars, client>>

\* Its loop ends: Disconnected is queued first, the index is cleaned after.
ReaderEnds(l) ==
    /\ link[l] = "up"
    /\ l \in lost \/ (srvLink[l] = "closed" /\ toMe[l] = <<>>)
    /\ link' = [link EXCEPT ![l] = "ended"]
    /\ events' = Append(events, [type |-> "disconnected", peer |-> ServerOf[l]])
    /\ UNCHANGED <<srvLink, mine, theirs, lost, toMe, toSrv, uploads, loopVars, client>>

ReadTimesOut(l) ==
    /\ ReadTimeouts
    /\ link[l] = "up"
    /\ toMe[l] = <<>>
    /\ link' = [link EXCEPT ![l] = "ended"]
    /\ events' = Append(events, [type |-> "disconnected", peer |-> ServerOf[l]])
    /\ UNCHANGED <<srvLink, mine, theirs, lost, toMe, toSrv, uploads, loopVars, client>>

Remove(l) ==
    /\ link[l] = "ended"
    /\ link' = [link EXCEPT ![l] = "closed"]
    /\ mine' = [s \in Servers |-> IF mine[s] = l THEN NoLink ELSE mine[s]]
    /\ UNCHANGED <<srvLink, theirs, lost, toMe, toSrv, uploads, events, loopVars, client>>

\* The remote end notices the end of the link, or times out, and cleans up.
ServerEnds(l) ==
    /\ srvLink[l] = "up"
    /\ l \in lost \/ link[l] = "closed" \/ ReadTimeouts
    /\ srvLink' = [srvLink EXCEPT ![l] = "closed"]
    /\ theirs' = [s \in Servers |-> IF theirs[s] = l THEN NoLink ELSE theirs[s]]
    /\ UNCHANGED <<link, mine, lost, toMe, toSrv, uploads, events, loopVars, client>>

-----------------------------------------------------------------------------
(* The remote daemon: its handle_message and its upload threads.           *)

\* send_to on the remote side: to whatever link it has for the local peer.
Reply(s, msg) ==
    /\ theirs[s] # NoLink
    /\ toMe' = [toMe EXCEPT ![theirs[s]] = Append(@, msg)]

TakeRequest(l, type) ==
    /\ srvLink[l] = "up"
    /\ toSrv[l] # <<>>
    /\ Head(toSrv[l]).type = type
    /\ toSrv' = [toSrv EXCEPT ![l] = Tail(@)]
    /\ UNCHANGED <<linkVars, events, loopVars, client>>

\* ListResources is answered on the spot, unless nobody is connected.
ServeList(l) ==
    /\ TakeRequest(l, "list")
    /\ IF theirs[ServerOf[l]] = NoLink THEN UNCHANGED toMe
       ELSE Reply(ServerOf[l], [type |-> "resources", req |-> Head(toSrv[l]).req])
    /\ UNCHANGED uploads

\* DownloadResource starts an upload thread ...
ServeDownload(l) ==
    /\ TakeRequest(l, "download")
    /\ uploads' = uploads \cup {[server |-> ServerOf[l], req |-> Head(toSrv[l]).req,
                                 res |-> Head(toSrv[l]).res, next |-> 1]}
    /\ UNCHANGED toMe

\* ... or, for an unknown id or a file that cannot be opened, nothing at all.
IgnoreDownload(l) ==
    /\ ServeFaults
    /\ TakeRequest(l, "download")
    /\ UNCHANGED <<toMe, uploads>>

UploadChunk(u) ==
    /\ u.next <= Size
    /\ Reply(u.server, [type |-> "chunk", req |-> u.req, res |-> u.res, index |-> u.next])
    /\ uploads' = (uploads \ {u}) \cup {[u EXCEPT !.next = @ + 1]}
    /\ UNCHANGED <<linkVars, toSrv, events, loopVars, client>>

UploadEnd(u) ==
    /\ u.next > Size
    /\ Reply(u.server, [type |-> "end", req |-> u.req, res |-> u.res])
    /\ uploads' = uploads \ {u}
    /\ UNCHANGED <<linkVars, toSrv, events, loopVars, client>>

\* A failed send, or a read error, ends the thread without an End.
UploadAborts(u) ==
    /\ theirs[u.server] = NoLink \/ (ServeFaults /\ u.next <= Size)
    /\ uploads' = uploads \ {u}
    /\ UNCHANGED <<linkVars, toMe, toSrv, events, loopVars, client>>

-----------------------------------------------------------------------------
(* The CLI and the event loop; a handler runs to its end for every event.  *)

\* A control connection queues its command and waits for a terminal answer.
Ask(c, request) ==
    /\ client[c] = "idle"
    /\ client' = [client EXCEPT ![c] = "waiting"]
    /\ events' = Append(events, request)
    /\ UNCHANGED <<linkVars, toMe, toSrv, uploads, loopVars>>

AskGet(c, s, r) == Ask(c, [type |-> "get", client |-> c, peer |-> s, res |-> r])
AskList(c, s) == Ask(c, [type |-> "list", client |-> c, peer |-> s])

TakeEvent(type) ==
    /\ events # <<>>
    /\ Head(events).type = type
    /\ events' = Tail(events)
    /\ UNCHANGED <<linkVars, toMe, uploads>>

\* Bug variant: the sender is looked up and left in the tracker.
AnswerKeepsPending(qs, answer) ==
    /\ client' = [c \in Clients |->
                    IF \E q \in qs \cap DOMAIN pending : pending[q] = c
                    THEN answer ELSE client[c]]
    /\ UNCHANGED pending

\* tracker.complete(q) and a terminal answer to the client found there.
Answer(qs, answer) ==
    /\ pending' = Drop(pending, qs)
    /\ client' = [c \in Clients |->
                    IF \E q \in qs \cap DOMAIN pending : pending[q] = c
                    THEN answer ELSE client[c]]

HandleList ==
    LET e == Head(events) IN
    /\ TakeEvent("list")
    /\ nextReq' = nextReq + 1
    /\ pending' = Put(pending, nextReq, e.client)
    /\ SendTo(e.peer, [type |-> "list", req |-> nextReq])
    /\ UNCHANGED <<transfers, downloads, files, client>>

\* Bug variant: a running download of the same resource is started over.
HandleGetAgain ==
    LET e == Head(events) IN
    /\ TakeEvent("get")
    /\ downloads' = Put(downloads, e.res, [got |-> <<>>, broken |-> FALSE])
    /\ nextReq' = nextReq + 1
    /\ pending' = Put(pending, nextReq, e.client)
    /\ transfers' = Put(transfers, nextReq,
                        [peer |-> e.peer, res |-> e.res, via |-> mine[e.peer]])
    /\ SendTo(e.peer, [type |-> "download", req |-> nextReq, res |-> e.res])
    /\ UNCHANGED <<files, client>>

\* Bug variant: the request counter is not advanced.
HandleGetSameId ==
    LET e == Head(events) IN
    /\ TakeEvent("get")
    /\ e.res \notin DOMAIN downloads
    /\ downloads' = Put(downloads, e.res, [got |-> <<>>, broken |-> FALSE])
    /\ pending' = Put(pending, nextReq, e.client)
    /\ transfers' = Put(transfers, nextReq,
                        [peer |-> e.peer, res |-> e.res, via |-> mine[e.peer]])
    /\ SendTo(e.peer, [type |-> "download", req |-> nextReq, res |-> e.res])
    /\ UNCHANGED <<nextReq, files, client>>

\* GetResource: one download per resource id at a time.
HandleGet ==
    LET e == Head(events) IN
    /\ TakeEvent("get")
    /\ e.res \notin DOMAIN downloads
    /\ downloads' = Put(downloads, e.res, [got |-> <<>>, broken |-> FALSE])
    /\ nextReq' = nextReq + 1
    /\ pending' = Put(pending, nextReq, e.client)
    /\ transfers' = Put(transfers, nextReq,
                        [peer |-> e.peer, res |-> e.res, via |-> mine[e.peer]])
    /\ SendTo(e.peer, [type |-> "download", req |-> nextReq, res |-> e.res])
    /\ UNCHANGED <<files, client>>

\* start_download fails: in progress already, or no temporary file.
HandleGetFails ==
    LET e == Head(events) IN
    /\ TakeEvent("get")
    /\ e.res \in DOMAIN downloads \/ DiskFaults
    /\ client' = [client EXCEPT ![e.client] = "failed"]
    /\ UNCHANGED <<toSrv, loopVars>>

HandleResources ==
    /\ TakeEvent("resources")
    /\ Answer({Head(events).req}, "ok")
    /\ UNCHANGED <<toSrv, nextReq, transfers, downloads, files>>

\* process_chunk goes by the resource id; neither the request id nor the
\* offset of the chunk has a say.  The writer thread may fail from then on.
HandleChunk ==
    LET e == Head(events) IN
    /\ TakeEvent("chunk")
    /\ IF e.res \in DOMAIN downloads /\ ~downloads[e.res].broken
       THEN \E fails \in {FALSE, DiskFaults} :
              downloads' = [downloads EXCEPT ![e.res] =
                              [got |-> Append(@.got, e.index), broken |-> fails]]
       ELSE UNCHANGED downloads
    /\ UNCHANGED <<toSrv, nextReq, pending, transfers, files, client>>

\* Bug variant: the finished transfer stays with the transfer manager.
HandleEndKeepsTransfer ==
    LET e == Head(events) IN
    /\ TakeEvent("end")
    /\ e.res \in DOMAIN downloads /\ ~downloads[e.res].broken
    /\ files' = Put(files, e.res, downloads[e.res].got)
    /\ downloads' = Drop(downloads, {e.res})
    /\ IF e.req \in DOMAIN transfers THEN Answer({e.req}, "ok")
       ELSE UNCHANGED <<pending, client>>
    /\ UNCHANGED <<toSrv, nextReq, transfers>>

\* ResourceEnd: the file is flushed, renamed and the request answered ...
HandleEnd ==
    LET e == Head(events) IN
    /\ TakeEvent("end")
    /\ e.res \in DOMAIN downloads /\ ~downloads[e.res].broken
    /\ files' = Put(files, e.res, downloads[e.res].got)
    /\ downloads' = Drop(downloads, {e.res})
    /\ transfers' = Drop(transfers, {e.req})
    /\ IF e.req \in DOMAIN transfers THEN Answer({e.req}, "ok")
       ELSE UNCHANGED <<pending, client>>
    /\ UNCHANGED <<toSrv, nextReq>>

\* ... unless the download is not there, its writer failed, or the flush or
\* the rename fails: the error is dropped, the transfer stays.
HandleEndFails ==
    LET e == Head(events) IN
    /\ TakeEvent("end")
    /\ e.res \in DOMAIN downloads => downloads[e.res].broken \/ DiskFaults
    /\ downloads' = Drop(downloads, {e.res})
    /\ UNCHANGED <<toSrv, nextReq, pending, transfers, files, client>>

\* Bug variant: a disconnect cancels every transfer.
CancelledAll(s) == DOMAIN transfers

\* Disconnected: every transfer of the peer is cancelled and answered.
Cancelled(s) == {q \in DOMAIN transfers : transfers[q].peer = s}

\* Bug variant: the partial download is not cancelled.
HandleDisconnectedKeepsDownload ==
    LET qs == Cancelled(Head(events).peer) IN
    /\ TakeEvent("disconnected")
    /\ transfers' = Drop(transfers, qs)
    /\ Answer(qs, "failed")
    /\ UNCHANGED <<toSrv, nextReq, downloads, files>>

HandleDisconnected ==
    LET qs == Cancelled(Head(events).peer) IN
    /\ TakeEvent("disconnected")
    /\ transfers' = Drop(transfers, qs)
    /\ downloads' = Drop(downloads, {transfers[q].res : q \in qs})
    /\ Answer(qs, "failed")
    /\ UNCHANGED <<toSrv, nextReq, files>>

EventLoop == \/ HandleList \/ HandleGet \/ HandleGetFails \/ HandleResources
             \/ HandleChunk \/ HandleEnd \/ HandleEndFails \/ HandleDisconnected

Serve(l) == ServeList(l) \/ ServeDownload(l) \/ IgnoreDownload(l)

Upload(u) == UploadChunk(u) \/ UploadEnd(u) \/ UploadAborts(u)

Next ==
    \/ \E l \in Links : \/ Connect(l) \/ Lose(l) \/ ReadFrame(l) \/ ReaderEnds(l)
                        \/ ReadTimesOut(l) \/ Remove(l) \/ ServerEnds(l) \/ Serve(l)
    \/ \E u \in uploads : Upload(u)
    \/ \E c \in Clients, s \in Servers : AskList(c, s) \/ \E r \in Resources : AskGet(c, s, r)
    \/ EventLoop

\* Threads run and keepalive turns a lost path into a read error; nobody has
\* to connect, ask or fail.
Fairness ==
    /\ WF_vars(EventLoop)
    /\ WF_vars(\E u \in uploads : Upload(u))
    /\ \A l \in Links : /\ WF_vars(ReadFrame(l) \/ ReaderEnds(l))
                        /\ WF_vars(Remove(l))
                        /\ WF_vars((l \in lost \/ link[l] = "closed") /\ ServerEnds(l))
                        /\ WF_vars(Serve(l))

Spec == Init /\ [][Next]_vars
FairSpec == Spec /\ Fairness
-----------------------------------------------------------------------------
(* Properties.                                                             *)

Requests == 1..(nextReq - 1)

ToServer == [type : {"list"}, req : Nat]
            \cup [type : {"download"}, req : Nat, res : Resources]
FromServer == [type : {"resources"}, req : Nat]
              \cup [type : {"chunk"}, req : Nat, res : Resources, index : 1..Size]
              \cup [type : {"end"}, req : Nat, res : Resources]
Events == FromServer
          \cup [type : {"disconnected"}, peer : Servers]
          \cup [type : {"list"}, client : Clients, peer : Servers]
          \cup [type : {"get"}, client : Clients, peer : Servers, res : Resources]

Uploads == [server : Servers, req : Nat, res : Resources, next : 1..(Size + 1)]
TransferRecords == [peer : Servers, res : Resources, via : Links \cup {NoLink}]
Chunks == Seq(1..Size)

\* The type invariant; requests in the maps are requests handed out.
TypeOK ==
    /\ link \in [Links -> {"down", "up", "ended", "closed"}]
    /\ srvLink \in [Links -> {"down", "up", "closed"}]
    /\ mine \in [Servers -> Links \cup {NoLink}]
    /\ theirs \in [Servers -> Links \cup {NoLink}]
    /\ lost \subseteq Links
    /\ toMe \in [Links -> Seq(FromServer)] /\ toSrv \in [Links -> Seq(ToServer)]
    /\ uploads \subseteq Uploads
    /\ events \in Seq(Events)
    /\ nextReq \in Nat \ {0}
    /\ DOMAIN pending \subseteq Requests /\ pending \in [DOMAIN pending -> Clients]
    /\ DOMAIN transfers \subseteq Requests /\ transfers \in [DOMAIN transfers -> TransferRecords]
    /\ DOMAIN downloads \subseteq Resources
    /\ downloads \in [DOMAIN downloads -> [got : Chunks, broken : BOOLEAN]]
    /\ DOMAIN files \subseteq Resources /\ files \in [DOMAIN files -> Chunks]
    /\ client \in [Clients -> {"idle", "waiting", "ok", "failed"}]

\* The commands of a client that are in the queue, and those that were asked.
Queued(queue, c) ==
    {i \in DOMAIN queue : queue[i].type \in {"get", "list"} /\ queue[i].client = c}
Asked(requests, c) == {q \in DOMAIN requests : requests[q] = c}

\* A waiting client has its command in the queue or one pending request, and not
\* both; another has neither.
Accounted(queue, requests, answer, c) ==
    /\ \A i, j \in Queued(queue, c) : i = j
    /\ \A q, r \in Asked(requests, c) : q = r
    /\ Queued(queue, c) = {} \/ Asked(requests, c) = {}
    /\ answer = "waiting" <=> Queued(queue, c) # {} \/ Asked(requests, c) # {}

\* No command is lost or answered twice; and every transfer can be answered, its
\* request is pending.
RequestsAccountedFor ==
    /\ \A c \in Clients : Accounted(events, pending, client[c], c)
    /\ DOMAIN transfers \subseteq DOMAIN pending

\* A frame is about a request handed out before: one for a list or one for a
\* resource, and then the resource that its transfer is of.
OfRequest(m, next, map) == m.req < next /\ (m.req \in DOMAIN map => map[m.req].res = m.res)
Consistent(m, next, map) ==
    IF m.type \in {"list", "resources"} THEN m.req < next /\ m.req \notin DOMAIN map
    ELSE OfRequest(m, next, map)

FramesMatch ==
    /\ \A l \in Links : \A m \in Range(toMe[l]) \cup Range(toSrv[l]) :
          Consistent(m, nextReq, transfers)
    /\ \A m \in Range(events) \cap FromServer : Consistent(m, nextReq, transfers)
    /\ \A u \in uploads : OfRequest(u, nextReq, transfers)

\* An active download blocks every later get of its resource, so it must not
\* be orphaned: some transfer exists whose peer's disconnect cancels it.
DownloadIsCancellable ==
    \A r \in DOMAIN downloads : \E q \in DOMAIN transfers : transfers[q].res = r

\* The commands, whatever links come and go and whatever fails: an inductive
\* invariant.
LoopInv == TypeOK /\ FramesMatch /\ RequestsAccountedFor /\ DownloadIsCancellable

\* Every entry of the index and every transfer names a link to its peer.
OfLink(s, l) == l = NoLink \/ (l \in Links /\ ServerOf[l] = s)
IndexIsOfPeers ==
    /\ \A s \in Servers : OfLink(s, mine[s])
    /\ \A q \in DOMAIN transfers : OfLink(transfers[q].peer, transfers[q].via)

\* No end is reported of a peer none of whose links has ended.
HasEnded(s) == \E l \in Links : ServerOf[l] = s /\ link[l] \in {"ended", "closed"}
EndsAreReal == \A m \in Range(events) : m.type = "disconnected" => HasEnded(m.peer)

\* What an upload sends for a request, by position in a queue; the end has the
\* rank behind the last chunk.
IsData(m) == m.type \in {"chunk", "end"}
DataOf(queue, q) == {i \in DOMAIN queue : IsData(queue[i]) /\ queue[i].req = q}
Rank(m) == IF m.type = "chunk" THEN m.index ELSE Size + 1
Ranks(queue, q) == {Rank(queue[i]) : i \in DataOf(queue, q)}

\* The frames for request q with ranks from one to another, in order.
InOrder(queue, q, first, last) ==
    /\ Ranks(queue, q) = first..last
    /\ \A i, j \in DataOf(queue, q) : i < j => Rank(queue[i]) < Rank(queue[j])

Downloads(queue, q) == {i \in DOMAIN queue : queue[i].type = "download" /\ queue[i].req = q}

\* What a live link carries for request q after rank n: frames, then the upload
\* that goes on behind them; or the request, and nothing yet.
OnLink(toLocal, toServer, sending, q, n) ==
    \E last \in n..(Size + 1) :
        /\ InOrder(toLocal, q, n + 1, last)
        /\ \A u, v \in sending : u = v
        /\ \A u \in sending : u.next = last + 1
        /\ \A i, j \in Downloads(toServer, q) : i = j
        /\ Downloads(toServer, q) # {} => last = 0 /\ sending = {}

Sending(running, s, q) == {u \in running : u.server = s /\ u.req = q}

\* A transfer goes on where its download stands.
Flows(q) ==
    LET d == downloads[transfers[q].res] IN
    /\ ~d.broken /\ Len(d.got) <= Size /\ \A k \in 1..Len(d.got) : d.got[k] = k
    /\ \E n \in Len(d.got)..(Size + 1) :
          /\ InOrder(events, q, Len(d.got) + 1, n)
          /\ \A l \in Links : ServerOf[l] = transfers[q].peer /\ link[l] = "up" =>
                OnLink(toMe[l], toSrv[l], Sending(uploads, ServerOf[l], q), q, n)

OneTransferEach ==
    \A q \in DOMAIN transfers :
        /\ transfers[q].res \in DOMAIN downloads
        /\ \A p \in DOMAIN transfers : transfers[p].res = transfers[q].res => p = q

\* What the loop has yet to see is of transfers under way: nothing is left of one
\* that ended, and nothing comes behind the end of its link.
Wanted(m, s, map) == m.req \in DOMAIN map /\ map[m.req].peer = s
EventsAreWanted(queue, map) ==
    \A j \in DOMAIN queue : IsData(queue[j]) =>
        /\ queue[j].req \in DOMAIN map
        /\ \A i \in 1..j : queue[i].type = "disconnected" =>
              ~Wanted(queue[j], queue[i].peer, map)
FramesAreWanted ==
    /\ EventsAreWanted(events, transfers)
    /\ \A l \in Links : link[l] = "up" =>
          /\ \A m \in Range(toMe[l]) : IsData(m) => Wanted(m, ServerOf[l], transfers)
          /\ \A m \in Range(toSrv[l]) : m.type = "download" => Wanted(m, ServerOf[l], transfers)
          /\ \A u \in uploads : u.server = ServerOf[l] => Wanted(u, ServerOf[l], transfers)

\* Nothing is sent before there is a link.
NothingBefore ==
    /\ \A l \in Links : link[l] = "down" =>
          /\ srvLink[l] = "down" /\ toMe[l] = <<>> /\ toSrv[l] = <<>>
          /\ \A u \in uploads : u.server # ServerOf[l]
    /\ \A s \in Servers : /\ OfLink(s, theirs[s])
                          /\ mine[s] # NoLink => link[mine[s]] # "down"
                          /\ theirs[s] # NoLink => link[theirs[s]] # "down"

\* What is renamed into the downloads directory is the whole resource, in
\* order: no chunk lost, repeated, or taken from another request's upload.
FilesAreWhole == \A r \in DOMAIN files : files[r] = Whole

\* While every peer has one link and the disk does not fail, each transfer is one
\* unbroken line of frames from the server's file to the download: an inductive
\* invariant.
FlowInv ==
    /\ LoopInv /\ IndexIsOfPeers /\ EndsAreReal /\ NothingBefore /\ FramesAreWanted
    /\ OneTransferEach /\ (\A q \in DOMAIN transfers : Flows(q))
    /\ FilesAreWhole

\* A transfer fails only when the link its request went out on has ended; the
\* end of another link, a displaced one say, leaves it alone.
LiveTransfersSurvive ==
    [][\A q \in DOMAIN transfers :
          (q \notin DOMAIN transfers' /\ client'[pending[q]] = "failed") =>
             \/ transfers[q].via = NoLink
             \/ link[transfers[q].via] # "up"]_vars

\* A disconnect takes a download away only together with every transfer that
\* waits for it: the transfer of another peer never loses its download.
DisconnectSparesOthers ==
    [][(events # <<>> /\ Head(events).type = "disconnected" /\ events' = Tail(events)) =>
          \A q \in DOMAIN transfers' :
             transfers'[q].res \in DOMAIN downloads =>
                transfers'[q].res \in DOMAIN downloads']_vars

\* A get whose request went out on a link whose reader was running is
\* answered: completed, or failed when the link ends.
LiveGetIsAnswered ==
    \A c \in Clients :
        (\E q \in DOMAIN transfers \cap DOMAIN pending :
            /\ pending[q] = c
            /\ transfers[q].via # NoLink
            /\ link[transfers[q].via] = "up")
        ~> client[c] \in {"ok", "failed"}

\* Once the link to a peer has ended, no get from that peer waits for ever.
DisconnectUnblocksGets ==
    \A c \in Clients :
        (\E q \in DOMAIN transfers \cap DOMAIN pending :
            /\ pending[q] = c
            /\ \E l \in Links : /\ ServerOf[l] = transfers[q].peer
                                /\ link[l] \in {"ended", "closed"})
        ~> client[c] # "waiting"
=============================================================================
