# Verification of parsip

parsip is a daemon for sharing files in a local network: it discovers peers by
UDP broadcast, keeps authenticated TCP connections to them, and serves the
commands of a small CLI over a Unix socket. This directory holds TLA+ models of
it, the TLC configurations that check them, and TLAPS proofs. File and line
references below are to `src/` of the repository's crate (`src/src/` here).

## Inventory

One daemon is a process with these threads: the event loop (the main thread,
the only owner of the registries and managers below), one accept loop, a thread
per connection being registered, a reader and a writer thread per registered
connection, the UDP listener, a thread per control connection, a 500 ms timer
per scan, a waiting thread per `connect`, a thread per upload, and a disk writer
per download. They share the `ConnectionManager` (two mutexes) and talk through
one unbounded event queue into the loop and one reply channel per command.

| Component | State | Operations | What makes it correct |
|---|---|---|---|
| connection manager (`connection_manager.rs`) | `entries`, `peer_index`, id counter | insert with tie-break, remove, send, is_connected | maps inverse; cleanup only of one's own connection; a frame goes to the peer named; no deadlock |
| peer, connection (`peer/*.rs`, `connection/*.rs`) | the two ends of each TCP connection | connect, accept, register, read loop, writer, teardown | both ends agree on the link; nothing half open; loss is noticed |
| handshake (`connection/handshake.rs`) | how far each end has come | Hello, HelloProof, verify | it never waits for itself; only a proven id enters an index |
| codec (`protocol/codec.rs`) | bytes in flight | encode, decode | frames whole, in order, once |
| message formats (`protocol/message/*.rs`) | - | message to frame, frame to message | the parser is the inverse of the writer and refuses everything else |
| resource store (`resource/store.rs`) | id to path and name | scan a directory, hash, add, list, path of an id | what is listed is served, as it was hashed |
| resource aliases (`event_handler.rs`) | alias to id and back, id to metadata | add_resource, cache_info, lookups | an alias keeps its resource; what was listed can be fetched |
| event loop: transfers (`event_handler.rs`, `resource/transfer.rs`, `request_tracker.rs`, `resource/download.rs`) | transfers, pending requests, downloads | list, get, serve, chunk, end, disconnect | files whole; every command answered once; a disconnect hits its own transfers only |
| event loop: scan, connect, peers (`event_handler.rs`, `discovery/mod.rs`) | aliases, discovered peers, pending requests | scan, timer, connect, result, peers, discovered | aliases stable; scans report their own finds; every command answered |
| daemon lifecycle (`main.rs`, `daemon/mod.rs`) | pid file and lock, socket, port | start, stop, restart | one daemon; always stoppable; restartable after any crash |
| identity (`identity/*.rs`, `random.rs`) | the key file | load, generate, sign | the key the network saw never changes |
| configuration, CLI | config.toml | load, set; parse, print | see *Not modelled* |

Hard behaviours: both ends run the tie-break of duplicate connections on their
own; a displaced connection stays readable; Disconnected names a peer and not a
connection and is queued before the index is cleaned; uploads follow the peer to
a new connection; handlers ignore errors of `send`; locks are released between
lookup and use; scans overlap; a file is hashed once and read later; nothing
limits how long a handshake may take; processes die between any two file
operations.
`PROJECT.json` lists them at their lines as hazards.

## Modules

| Module | Models | Correspondence |
|---|---|---|
| `PeerTable` | abstract: the current link per peer | refined by `ConnectionManager` |
| `ConnectionManager` | `connection_manager.rs` lock by lock, with the threads that call it | `entries`, `index`, the two mutexes and a program counter per thread; an action per lock acquisition or critical section |
| `PeerLink` | connections between daemons, both ends, from the handshake on | `end[c][n]` is the thread of connection c at node n, `said[c][n]` the frames of the handshake it has sent, `table[n]` the index of n; the manager is atomic here |
| `Transfers` | one requesting daemon's event loop, the links and servers it uses | an action per event handler, reader step and upload step; `events` is the queue |
| `Control` | scan, connect, peers | an action per event handler and per step of a feeding thread |
| `Lifecycle` | start, stop, restart, crash | an action per system call on a shared file; `Start` is all the command waits for, `strays` is history |
| `Shares` | resource store of the servers; aliases, metadata and saved files of a client | an action per command, per handler and per step of an upload; the id of a resource is the content that was hashed, `disk` what the files hold by now |
| `MessageChannel` | abstract: messages in, the same messages out | refined by `Codec` |
| `Messages` | the messages, their frames and the parser, as operators | one operator per arm of the conversion; `Message` is the enum with the ranges of its fields |
| `Codec` | encode and decode of `Messages` with partial writes and early ends, and what the reader refuses | `iov` are the three slices, `wire` the bytes in the kernel |
| `ConnectionManagerProofs`, `PeerLinkProofs`, `ControlProofs`, `LifecycleProofs`, `SharesProofs`, `TransfersProofs`, `TransferFlowProofs`, `CodecProofs` | - | the theorems about the module each is named for (`TransferFlowProofs` builds on `TransfersProofs`) |

`MC*.tla` fix constants for TLC; `MC*.cfg` choose the bounds. Definitions marked
*Bug variant* are mutations of the definition that follows them: replacing it by
the variant must break the property named with it in `PROJECT.json`, which shows
that the property depends on that line of the code.

The modules compose by abstraction: `PeerLink` uses the manager as an atomic
index; `Transfers` uses links as `PeerLink` leaves them (registered at both ends,
displaced, lost, timed out), with messages as `Codec` delivers them (that is
`MessageChannel`), and files that do not change; `Shares` looks at files that do,
over channels that keep order until they end, and leaves the links to
`Transfers`; `Control` uses only who is connected.

## Runs

| Run | Bounds | Shows |
|---|---|---|
| manager | two links of one peer or of two, two callers, fair | the maps agree whenever the entries mutex is free, frames reach their addressee, only an eviction untracks a live link, cleanup is never stale, `send` misses only what was replaced or ended; `PeerTable` is implemented; every cleanup and every `send` finishes, so the nested locks do not deadlock |
| link | two nodes, three dials (two one way), read timeouts, one loss or restart anywhere, or none of these faults | no index entry outlives its reader or names a peer that has not proven its id; handshakes end; every loss, refusal, restart and close completes at both ends; crossed dials settle on the link dialled by the larger id; without faults, and one dial each, both ends at rest send over one link and read besides only what it displaced |
| transfers_links | two servers that have their files, one link each, two commands, a loss, fair | the invariant of transfers, `FlowInv`; files are whole; a transfer fails only with its own link; a disconnect spares other peers; a get sent on a live link is answered |
| transfers_faults | one server, two links in turn, a loss, read timeouts, server and disk faults | every command waits in the queue or in the tracker exactly once; a download can always be cancelled |
| control | two peers, three addresses, two commands, two arrivals, two moves | aliases inverse and stable; scan reports; the alias exists when connect succeeds; something is under way to end each waiting command |
| lifecycle | three starts on two ports, one of them a restart, two stops, at any time; a crash; disk full or not | but for the strays (below): one daemon, what serves can be stopped, a successful stop leaves none; without any, only a daemon blocks a start and the identity is stable; always, no later daemon on the port takes the socket |
| codec | three items, two-byte prefix, eight-valued bytes, every split; 1,900 messages and 10,900 frames for the parser | `MessageChannel` is implemented, with truncated frames, empty ones and handshake messages between the others; a clean close loses nothing; messages arrive; the parser inverts the writer |
| shares | two servers, two paths with one file name, contents of up to two blocks, four commands, one edit, addition or restart | aliases and metadata of resources; a download is what was asked for; a get of what was listed ends |

Some properties hold under a condition that is part of the initial state, so
that one run covers both sides of it: `calm` in `PeerLink` (no loss, no timeout,
nobody dials a peer twice), `diskFull` in `Lifecycle` (the identity can be saved).

`Lifecycle` puts no condition on the users: `parsip daemon start` returns when
`daemonize` has forked twice (`main.rs:48`), before the daemon has opened the pid
file, so that even commands given one after the other race. The history variable
`strays` collects the daemons the code loses that way: those that a stop ran
beside between their fork and their serving, and those that live but that a
stop did not recognise (`main.rs:102`). The properties are about all others, and
about every daemon of a user whose starts and stops do not overlap, who waits for a
daemon to serve (or to end) before a stop, and whose binary stays in place.

Why the bounds suffice: pairs of nodes share nothing but their own links, so two
nodes stand for any number in `PeerLink`; a tie-break involves a peer's old and
new connection, and staleness a third one; a transfer conflict needs two commands and two links or
two peers, and a file of two chunks tells a lost chunk from a doubled or a
swapped one; scans conflict in pairs; a start can collide with one daemon, a
stop and one more start. The manager's invariants are proved for any number of
links and callers, so its run can do with two of each; that is what its liveness
needs: a lock that is not given back is missed by one other thread. The codec's
slices have every length from empty up, and one of its frames is exactly at the
limit, one over it; the parser's lists have up to two entries, so that there is a
first, a last and a missing one, and names from empty on. Shares conflict in
pairs: two resources of one name, one resource at two servers, a list and an
addition.

### Runs that end in a violation

Each checks what a document or comment says against what the code does.

* `link_same_way` (`QuietEndsAgree`): two dials in the same direction leave the
  ends with different current links. The tie-break looks at the direction of
  the new connection only, not at that of the old one.
* `transfers_stale_disconnect` (`LiveTransfersSurvive`): the end of a displaced
  link cancels the transfers on its successor.
* `transfers_hung_get` (`DisconnectUnblocksGets`): a get handled after
  Disconnected waits for ever.
* `transfers_reconnect` (`FilesAreWhole`): after a reconnection an incomplete
  file is renamed and reported complete.

### Limits of the code the models show

These have no run of their own; they are why a property carries a condition.

* A displaced connection is dropped from `entries` but not closed
  (`connection_manager.rs:72`). Its readers go on, and when the connection that
  displaced it is lost, an open link is left that neither end tracks. Where
  `ARCHITECTURE.md:19` has a single link, `CalmEndsAgree` says what there is: one
  link that both ends send over, and besides it at most links both go on reading
  that lost the tie against it (`UntrackedIsDisplaced`). It excludes losses because
  of the link that is left.
* When `complete_download` fails (`event_handler.rs:424`) the transfer stays
  registered and its command is never answered; the later disconnect of its peer
  cancels, by the resource id, a download from another peer. This is why
  `DisconnectSparesOthers` is checked with disks that work.
* `stop` removes the pid file by its path, after it looked at the pid in it
  (`main.rs:111`, `main.rs:131`). A daemon that starts in between runs on without
  a pid file, and another may start beside it.
* `start; stop`, one after the other, is such a race: `start` returns at
  `main.rs:48`, and the stop that follows finds no pid file, or an empty one, and
  reports success (`main.rs:71`-`86`) while the daemon comes up, in the second case
  without a pid file.
* A daemon whose executable is not called `parsip` any more (after an upgrade
  `/proc` shows `parsip (deleted)`), or cannot be looked up, is taken for another
  program: its pid file is removed and success reported (`main.rs:102`-`108`).
  These three are why the properties of `Lifecycle` leave out `strays`;
  `ServingKeepsSocket` does not.
* A list whose peer disconnects, and a get from a server that does not have the
  file, are never answered: `LiveGetIsAnswered` is about gets, and about servers
  that have their files; `GetOfListedEnds` about what a server has listed and
  still shares.
* A file that is edited after it was hashed, or was hashed only in part because
  a read failed (`store.rs:43`), is served under the old id, and the receiver
  does not compare: `SavesWhatWasAsked` excludes such servers. A file that was
  added from outside the shared directory is forgotten at the next start.
* A second download of the same file name replaces the first file
  (`download.rs:124`).
* The handshake has neither keepalive nor timeout: `Connection::new` sets both
  when it is over. A thread that waits for a frame on a path that died stays, and
  with it the `connect` that started it: `HandshakesEnd` and `TeardownCompletes`
  except it.
* After a restart of one daemon its peers keep the old entry until their reader
  ends; meanwhile the tie-break may refuse the new dial, and nobody dials again.
* The directed broadcast addresses are collected from `/proc/net/fib_trie` by a
  line that is just `LOCAL` (`discovery/mod.rs:143`), which that file does not
  have (its lines read `/32 host LOCAL`), so the fallback of line 160 decides.
  No model depends on it.

## Fairness

Weak fairness of threads: a thread that can run does, a mutex that is free is
taken by someone who waits. A lost path turns into a read error (keepalive,
`connection/mod.rs:38`). Nothing obliges users to give commands, the network to
fail, peers to dial or the read timeout to fire. Locks are weakly fair; the lock
order alone excludes deadlock. In `PeerLink` a step of the handshake is fair only
while its path is alive, and that the kernel gives up a write of the handshake on
a dead path is possible, never owed. `Shares` has fair servers and a fair client,
and no connection that is lost but by a restart. `Control` and `Lifecycle` assume
no fairness: a dial may last for ever there, as it may in the code;
`NoCommandIsForgotten` says that a waiting command always has something that can
still end it.

## Proofs

Every safety property the passing runs check is a theorem: it holds for any nodes,
links, commands, messages, files and bounds that satisfy the named assumptions on
the constants. Each proof has an inductive invariant that
TLC checks too, in the run of its component (all but `ChannelInv`, which says that a
decomposition of the stream exists, among infinitely many), an initial step, a step
with a case per action, and a temporal step. Action properties follow from the invariant and
a look at one step.

| Module | Theorem | States | From |
|---|---|---|---|
| `ConnectionManagerProofs` | `Invariance`, `MapsAlwaysAgree`, `SendIsAddressed`, `OnlyEvictionsUntrack` | `IndInv`, `MapsAgree`, `SendReachesAddressee`, `OnlyEvictionUntracks` | `IndInv` |
| | `CleanupIsNeverStale`, `MissIsNeverSpurious` | `StaleCleanup`, `MissMeansReplacedOrGone`: properties of steps | `IndInv` |
| | `Refinement` | the manager implements `PeerTable` | `IndInv` |
| `PeerLinkProofs` | `IndexesAreSound`, `CalmEndsAlwaysAgree` | `LinkInv`, `CalmEndsAgree` | `LinkInv` |
| `ControlProofs` | `RegistryIsSound` | `ControlInv` | `ControlInv` |
| | `AliasesKeepTheirPeer`, `ScansAreTrue` | `AliasesAreStable`, `ScanReportsTheHeard`: steps | `ControlInv` |
| | `ConnectedPeersAreNamed`, `WaitingCommandsAreKept` | `ConnectedHasAlias`, `NoCommandIsForgotten` | `ControlInv`, and what each adds |
| `LifecycleProofs` | `OneDaemonPerUser`, `TheServingCanBeStopped` | `DaemonInv`, `ServingIsStoppable` | `DaemonInv` |
| | `SocketIsKept`, `LeftoversBlockNothing`, `IdentityNeverChanges`, `StoppedMeansGone` | `ServingKeepsSocket`, `OnlyDaemonsBlockStart`, `IdentityIsStable`, `StoppedIsGone`: steps | `DaemonInv` |
| `SharesProofs` | `TransfersAreInOrder`, `DownloadsAreWhatWasAsked` | `SharesInv`, `SavesWhatWasAsked` | `SharesInv` |
| | `AliasesStay` | `AliasesKeepTheirResource`: steps | `SharesInv` |
| `TransfersProofs` | `CommandsAreAccountedFor`, `NoRequestIsLost`, `DownloadsCanBeCancelled` | `LoopInv`, `RequestsAccountedFor`, `DownloadIsCancellable` | `LoopInv` |
| | `FailuresFollowEnds` | a get fails only after some link to its peer has ended | `LinkEndsInv` |
| | `LiveTransfersNeverFail` | `LiveTransfersSurvive`, if `OneLinkEach` | `LinkEndsInv` |
| `TransferFlowProofs` | `TransfersFlow`, `DownloadsAreWhole`, `DisconnectsSpareOthers` | `FlowInv`, `FilesAreWhole`, `DisconnectSparesOthers`, if `OneLinkEach` and not `DiskFaults` | `FlowInv` |
| `CodecProofs` | `ParserInverse` | every message is read back from its frame; every frame is refused or read as what it says | lemmas on numbers, parts of a frame, lists |
| | `SpecTypeOK`, `SpecCodecInv` | `TypeOK`, `CodecInv` | `ChannelInv`, `ParserInverse` |
| | `SpecChannelInv`, `SpecCleanCloseLosesNothing` | `ChannelInv`, `CleanCloseLosesNothing` | `ChannelInv` |
| | `SpecImplementsMessageChannel` | `Codec` implements `MessageChannel` | `ChannelInv` |

### The inductive invariants

* `IndInv`. `MapsAgree` is not inductive, because both maps are written in
  several steps inside one critical section and `remove` deletes the entry before
  it takes the index lock. `IndInv` adds who holds which lock at which program
  counter, that reserved ids are below the counter and distinct, and what exactly
  the maps differ by in the middle of `remove`: the one link whose thread holds the
  entries mutex.
* `LinkInv`. That two quiet ends agree says nothing of the states on the way.
  `CalmLinks` does: in calm, a connection dialled by the larger id is never given
  up by an end that has registered it, and who reads a loser has an entry. What the
  handshake has said (`SaidFollowsEnd`) is needed so that a registered end's peer
  has sent its proof, and `DialledTogether` so that a thread that never
  started has nothing to give up.
* `ControlInv`. That an announcement is handled before its result is a property
  of the queue (`AnnouncedBeforeReported`): in front of each result stands the
  announcement, or the alias is there. `DiscoveredIsLastScan` compares the table
  with what every scan since has heard, and not with the last one only.
* `DaemonInv`. At most one daemon has a lock because the file of every living daemon
  that is no stray is the one the path names (`FilesAreTheDaemons`), and that is
  true because a stop that removes the path has met every such daemon: it serves,
  and the stop reads its pid and waits for it to end (`StopsMeetTheirDaemon`).
* `SharesInv`. A chunk is written at the end of the temporary file whatever its
  offset, so the blocks are right only if the queue, the upload and the
  file are one line: of one resource one thing is under way at a time
  (`OneTransferEach`), and chunks carry on where the file stops
  (`ChunksInOrder`), read from a file that is as it was hashed (`SteadyFiles`).
* `LoopInv`. A command is answered once because it is in the queue or in the
  tracker and not in both; that a list is never answered as a get needs
  `FramesMatch`, that a frame's request id is one that was handed out.
* `FlowInv`. A get is whole because from the server's file to the download the
  frames of its request are consecutive: what is in the download, then in the event
  queue, then on the link, then what the upload has still to send (`Flows`). A
  second line to the same download, a frame left behind by a cancelled one,
  or a frame behind the Disconnected that cancels it would be written too, so
  none exists (`OneTransferEach`, `FramesAreWanted`).
* `ChannelInv`. What is in the kernel and what the writer still holds of its slices
  are together the frames taken from the queue and not yet returned, the first of
  them without its prefix when the reader waits for a body (`StreamInv`). So the
  reader never loses its place: a prefix it reads is a prefix that was written, and
  whatever the kernel takes of the three slices, `AdvanceIs` leaves the rest.

### The parser

`Messages` converts numbers, and the entries of a list, by recursive functions. What
they compute is proved by induction, without an induction theorem: those of the
library take an operator as a parameter, so `UpTo` states the principle for a set of
numbers (from the least-element property, `Least`), and `Recursion` that a function
given by a first value and steps exists (by `UpTo` over partial ones). Each
recursive function is a case of the latter.

* Numbers: after k of the bytes of n, `FromBytes` has n shifted by the others
  (`ValueIs`, `NumberReturns`); and any bytes are written back as they were.
* Fixed layouts: `At` of a concatenation is the part it stands at, so that each field
  comes back, and the parts of a frame of the right length make it up.
* Lists: after k rounds the loop of `parse_resource_list` stands behind the k-th
  entry and has read the first k (`ListReturns`); in the other direction, what the
  rounds have passed over is what the entries read are written as (`ListIsWritten`),
  whatever the count and the name lengths claim. So `CountFits` refuses no list
  that is written, and no check of a length is missing.

### Hypotheses

`OneLinkEach` (no peer is connected twice in a behaviour) is the condition under
which the code keeps these promises, not a convenience: the runs
`transfers_stale_disconnect` and `transfers_reconnect` are counterexamples with a
second link, on an otherwise perfect network. Without it `FailuresFollowEnds`
remains. `DiskFaults` likewise: with it TLC finds a `complete_download` that
failed, whose transfer stays registered, whose peer's disconnect then cancels
another peer's download of the same resource, and a third get that mixes two
uploads in one file. Read timeouts, losses, and servers that lack or fail to read
their file are all allowed in these theorems; the run transfers_links, which also
checks liveness, has them off.

The theorems of `Codec` have no hypothesis but the assumptions on its constants.
`WidthsAssumption`: a byte has more than seven values (there are seven types), text
is made of bytes, and no field is empty. `ItemsAssumption`: a writer is handed
members of `Message`, or in their place, as from a foreign peer, any frame that is
refused (`Foreign`; a frame that is accepted is the frame of a message, by
`ParserInverse`, but for what follows a list), each of a length its prefix can
hold. `Peer::send` casts the length to u32 unchecked; a frame of 2^32 bytes would
be a resource list of tens of millions of entries, since a chunk is of 128 KiB at most.
`ProbesAssumption` says that the parser is tried with messages and with frames.

`ContentsAssumption` in `Shares` (finitely many contents, closed under
prefixes) lets a read that fails hash what was read so far; `NamesAssumption`
in `Control` keeps a peer apart from the two results that are no peer. The other
assumptions say that constants have their types. Nothing else is assumed.

### Only model-checked

* Liveness, all of it: `EndedLinkIsForgotten`, `SendReturns`, `CrossedDialsSettle`,
  `HandshakesEnd`, `TeardownCompletes`, `LiveGetIsAnswered`, `MessagesArrive`,
  `GetOfListedEnds`. TLAPS has no rule for fairness that goes through here, nor
  ENABLED.

## Not modelled

* Cryptography: a proof of the handshake convinces, hashes do not collide.
* Peers that do not run this code, but for the frames of `Codec` that are none of
  the session.
* Progress figures (`transfer.rs`, `update_progress`): they are shown, nothing
  depends on them.
* The layout of discovery datagrams, the replies the UDP listener gives to other
  nodes, and the choice of broadcast addresses. `Control` has what the listener
  delivers to its own event loop.
* Configuration (`config.rs`, `parsip config`): a file that is read at each start
  and rewritten by each `set`; the code promises nothing about two at once.
* Argument parsing, JSON, printing. Unknown aliases are in `Control` and, as
  commands that change nothing, in `Shares`.
* Lock poisoning (no critical section panics), process ids used again, ports held
  by other programs, the wrap of the u32 request ids.

## Plan

1. Done: `PeerTable`, `ConnectionManager` with proofs, `PeerLink` with the
   handshake, `Transfers`, `Control`, `Lifecycle`, `MessageChannel`, `Messages`,
   `Codec`, `Shares`.
2. Done: the proofs above, of every safety property.
3. A `Discovery` module for the listeners of several nodes (only requests are
   answered, nobody answers itself), and `config set` in `Lifecycle`.
