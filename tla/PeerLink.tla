------------------------------ MODULE PeerLink ------------------------------
(***************************************************************************)
(* Both ends of every connection between the nodes: the dialling and the   *)
(* accepting thread shake hands and register the same TCP connection each  *)
(* with its own ConnectionManager, in any order, and each end stops reading*)
(* when the other end has closed it, when it is lost, or when it was silent*)
(* for the read timeout.  A manager is its peer index here (insert_        *)
(* connection and remove are atomic, as ConnectionManager shows they are   *)
(* for an observer).  Keys and signatures are symbolic: a proof convinces. *)
(***************************************************************************)
EXTENDS Naturals, FiniteSets

CONSTANTS
    Nodes,         \* the daemons
    Rank,          \* Rank[n]: the order of n's PeerId bytes
    Conns,         \* TCP connections, each dialled at most once
    Dialer,        \* Dialer[c]: the node whose connect() opens c
    Acceptor,      \* Acceptor[c]: the node whose accept loop receives c
    NoConn,        \* no entry in the index
    MaxFaults,     \* how many losses of a connection and restarts there may be
    Restartable,   \* the nodes whose daemon may be stopped and started, once
    ReadTimeouts   \* whether the 60 s read timeout may fire

ASSUME RankAssumption ==
    /\ Rank \in [Nodes -> Nat]
    /\ \A n, m \in Nodes : Rank[n] = Rank[m] => n = m
ASSUME EndsAssumption ==
    /\ Dialer \in [Conns -> Nodes]
    /\ Acceptor \in [Conns -> Nodes]
    /\ \A c \in Conns : Dialer[c] # Acceptor[c]
ASSUME OtherAssumption ==
    /\ NoConn \notin Conns /\ MaxFaults \in Nat
    /\ Restartable \subseteq Nodes /\ ReadTimeouts \in BOOLEAN

VARIABLES
    end,       \* end[c][n]: what node n's thread for connection c is doing
    said,      \* said[c][n]: how many frames of the handshake n has sent on c
    table,     \* table[n][m]: the connection node n's index has for peer m
    lost,      \* connections whose path died (Wi-Fi sleep, a host that crashed)
    restarted, \* nodes whose daemon was restarted
    calm       \* whether, throughout this behaviour, nothing is lost, times out
               \* or restarts and no node dials a peer twice

vars == <<end, said, table, lost, restarted, calm>>

Ends(c) == {Dialer[c], Acceptor[c]}

\* The remote id the handshake yields at n; it is never n's own, register_
\* connection rejects that.
Other(c, n) == IF n = Dialer[c] THEN Acceptor[c] ELSE Dialer[c]

NoEntries == [m \in Nodes |-> NoConn]

Init ==
    /\ end = [c \in Conns |-> [n \in Nodes |-> "idle"]]
    /\ said = [c \in Conns |-> [n \in Nodes |-> 0]]
    /\ table = [n \in Nodes |-> NoEntries]
    /\ lost = {} /\ restarted = {}
    /\ calm \in BOOLEAN

SetEnd(c, n, s) == end' = [end EXCEPT ![c][n] = s]

SameWay(c, d) == Dialer[c] = Dialer[d] /\ Acceptor[c] = Acceptor[d]

\* TcpStream::connect succeeds and accept() returns: a thread on each side
\* starts the handshake.  Nothing asks whether the peer is connected already.
Dial(c) ==
    /\ end[c][Dialer[c]] = "idle"
    /\ calm => \A d \in Conns : SameWay(c, d) => end[d][Dialer[d]] = "idle"
    /\ end' = [end EXCEPT ![c] =
                 [n \in Nodes |-> IF n \in Ends(c) THEN "starting" ELSE "idle"]]
    /\ UNCHANGED <<said, table, lost, restarted, calm>>

-----------------------------------------------------------------------------
(* perform_handshake and register_connection.                              *)

ShakingStates == {"starting", "greeting", "proving"}
Shaking(c, n) == end[c][n] \in ShakingStates

\* A frame written on a dead path never arrives.
Say(c, n) == said' = IF c \in lost THEN said ELSE [said EXCEPT ![c][n] = @ + 1]

\* Bug variant: a node greets only the peer that has greeted it.
GreetBack(c, n) ==
    /\ end[c][n] = "starting"
    /\ said[c][Other(c, n)] > 0
    /\ Say(c, n)
    /\ SetEnd(c, n, "greeting")
    /\ UNCHANGED <<table, lost, restarted, calm>>

\* Hello goes out before anything is read, on both sides alike.
Greet(c, n) ==
    /\ end[c][n] = "starting"
    /\ Say(c, n)
    /\ SetEnd(c, n, "greeting")
    /\ UNCHANGED <<table, lost, restarted, calm>>

\* The peer's Hello arrives; its nonce, signed, goes back as HelloProof.
Prove(c, n) ==
    /\ end[c][n] = "greeting"
    /\ said[c][Other(c, n)] > 0
    /\ Say(c, n)
    /\ SetEnd(c, n, "proving")
    /\ UNCHANGED <<table, lost, restarted, calm>>

\* The peer's HelloProof arrives and verifies.
Proved(c, n) == end[c][n] = "proving" /\ said[c][Other(c, n)] = 2

\* Bug variant: each end prefers what it has when its own id is the larger.
KeepNewByRank(c, n) == Rank[n] < Rank[Other(c, n)]

\* insert_connection's tie-break, as node n decides it for connection c.
KeepNew(c, n) == (n = Dialer[c]) <=> (Rank[n] > Rank[Other(c, n)])

\* insert_connection keeps the connection: the reader thread starts.
Register(c, n) ==
    /\ Proved(c, n)
    /\ table[n][Other(c, n)] = NoConn \/ KeepNew(c, n)
    /\ table' = [table EXCEPT ![n][Other(c, n)] = c]
    /\ SetEnd(c, n, "reading")
    /\ UNCHANGED <<said, lost, restarted, calm>>

\* The tie-break drops the connection.
Refuse(c, n) ==
    /\ Proved(c, n)
    /\ table[n][Other(c, n)] # NoConn
    /\ ~KeepNew(c, n)
    /\ SetEnd(c, n, "closed")
    /\ UNCHANGED <<said, table, lost, restarted, calm>>

\* The peer closed the socket: a read or write of the handshake gets an end of
\* stream or a reset, maybe before the frames the peer had sent are read.
HandshakeFails(c, n) ==
    /\ Shaking(c, n)
    /\ end[c][Other(c, n)] = "closed"
    /\ SetEnd(c, n, "closed")
    /\ UNCHANGED <<said, table, lost, restarted, calm>>

\* A write on the dead path is given up by the kernel.  A thread that has
\* nothing unacknowledged and waits for a frame may wait for ever: keepalive
\* and read timeout are set by Connection::new, after the handshake.
HandshakeBreaks(c, n) ==
    /\ Shaking(c, n)
    /\ c \in lost
    /\ SetEnd(c, n, "closed")
    /\ UNCHANGED <<said, table, lost, restarted, calm>>

-----------------------------------------------------------------------------
(* The reader thread and its cleanup.                                      *)

\* Bug variant: the close of the other end goes unnoticed.
ReaderEndsOnLossOnly(c, n) ==
    /\ end[c][n] = "reading"
    /\ c \in lost
    /\ SetEnd(c, n, "ended")
    /\ UNCHANGED <<said, table, lost, restarted, calm>>

\* The reader of n gets an end of stream or an error: the other end closed
\* the socket, or keepalive or a failed write found the path dead.
ReaderEnds(c, n) ==
    /\ end[c][n] = "reading"
    /\ c \in lost \/ end[c][Other(c, n)] = "closed"
    /\ SetEnd(c, n, "ended")
    /\ UNCHANGED <<said, table, lost, restarted, calm>>

\* No frame arrived for 60 s; an idle connection is not told from a hung one.
ReadTimesOut(c, n) ==
    /\ ReadTimeouts /\ ~calm
    /\ end[c][n] = "reading"
    /\ SetEnd(c, n, "ended")
    /\ UNCHANGED <<said, table, lost, restarted, calm>>

\* Bug variant: cleanup leaves the index alone.
RemoveKeepsIndex(c, n) ==
    /\ end[c][n] = "ended"
    /\ SetEnd(c, n, "closed")
    /\ UNCHANGED <<said, table, lost, restarted, calm>>

\* on_disconnect: the index loses this connection and no other one; with the
\* reader gone and the channel dropped the socket closes.
Remove(c, n) ==
    /\ end[c][n] = "ended"
    /\ table' = [table EXCEPT ![n] =
                   [m \in Nodes |-> IF @[m] = c THEN NoConn ELSE @[m]]]
    /\ SetEnd(c, n, "closed")
    /\ UNCHANGED <<said, lost, restarted, calm>>

-----------------------------------------------------------------------------
(* The environment.                                                        *)

MayFail == ~calm /\ Cardinality(lost) + Cardinality(restarted) < MaxFaults

\* The network path dies.
Lose(c) ==
    /\ MayFail
    /\ c \notin lost
    /\ \E n \in Nodes : Shaking(c, n) \/ end[c][n] = "reading"
    /\ lost' = lost \cup {c}
    /\ UNCHANGED <<end, said, table, restarted, calm>>

\* `daemon stop` and `daemon start`: the process is killed, its kernel closes
\* its sockets, and the next one begins with an empty manager.
Restart(n) ==
    /\ MayFail
    /\ n \in Restartable \ restarted
    /\ restarted' = restarted \cup {n}
    /\ end' = [c \in Conns |->
                 IF end[c][n] = "idle" THEN end[c] ELSE [end[c] EXCEPT ![n] = "closed"]]
    /\ table' = [table EXCEPT ![n] = NoEntries]
    /\ UNCHANGED <<said, lost, calm>>

Shake(c, n) == \/ Greet(c, n) \/ Prove(c, n)
               \/ Register(c, n) \/ Refuse(c, n)
               \/ HandshakeFails(c, n)

Session(c, n) == ReaderEnds(c, n) \/ Remove(c, n)

Next == \/ \E n \in Nodes : Restart(n)
        \/ \E c \in Conns :
            \/ Dial(c)
            \/ Lose(c)
            \/ \E n \in Ends(c) : \/ Shake(c, n) \/ HandshakeBreaks(c, n)
                                 \/ Session(c, n) \/ ReadTimesOut(c, n)

\* Threads run, and what is sent on a living path arrives; keepalive turns a
\* dead path into an error of the reader, but not of the handshake.  Nobody is
\* obliged to dial or to restart, the network to fail or a timeout to fire.
Fairness ==
    \A c \in Conns : \A n \in Nodes :
        WF_vars(c \notin lost /\ Shake(c, n)) /\ WF_vars(Session(c, n))

Spec == Init /\ [][Next]_vars
FairSpec == Spec /\ Fairness

-----------------------------------------------------------------------------
(* Properties.                                                             *)

\* The type invariant; a node has no connection to itself.
TypeOK ==
    /\ end \in [Conns -> [Nodes ->
                 ShakingStates \cup {"idle", "reading", "ended", "closed"}]]
    /\ said \in [Conns -> [Nodes -> 0..2]]
    /\ table \in [Nodes -> [Nodes -> Conns \cup {NoConn}]]
    /\ \A n \in Nodes : table[n][n] = NoConn
    /\ lost \subseteq Conns /\ restarted \subseteq Nodes /\ calm \in BOOLEAN

\* An index entry names a connection to that very peer whose reader is alive
\* or about to clean up: no entry outlives its reader's cleanup.
IndexNamesOpenConn ==
    \A n, m \in Nodes : table[n][m] # NoConn =>
        /\ n \in Ends(table[n][m]) /\ m = Other(table[n][m], n)
        /\ end[table[n][m]][n] \in {"reading", "ended"}

\* An index never names a peer that has not sent its proof on that connection,
\* whatever was lost, refused or restarted: frames only go to authenticated ids.
IndexedIsProved ==
    \A n, m \in Nodes : table[n][m] # NoConn => said[table[n][m]][m] = 2

\* No end has said more than its handshake has come to.
SaidFollowsEnd ==
    \A c \in Conns : \A n \in Nodes :
        /\ end[c][n] \in {"idle", "starting"} => said[c][n] = 0
        /\ end[c][n] = "greeting" => said[c][n] <= 1

\* Only the two ends of a connection have threads for it, and both from the dial on.
DialledTogether ==
    \A c \in Conns :
        /\ \A n \in Nodes \ Ends(c) : end[c][n] = "idle"
        /\ end[c][Dialer[c]] = "idle" <=> end[c][Acceptor[c]] = "idle"

\* The connection that wins the tie-break wins it at both ends.
DialledByLarger(c) == Rank[Dialer[c]] > Rank[Acceptor[c]]

\* With at most one dial each way and no faults, a winner is never given up, so
\* that it stays in both indexes, and a loser is read only beside an entry.
CalmLinks ==
    calm =>
        /\ lost = {} /\ restarted = {}
        /\ \A c, d \in Conns :
              (SameWay(c, d) /\ end[c][Dialer[c]] # "idle" /\ end[d][Dialer[d]] # "idle")
                 => c = d
        /\ \A c \in Conns : \A n \in Ends(c) :
              /\ end[c][n] \in {"ended", "closed"} => ~DialledByLarger(c)
              /\ end[c][n] = "reading" =>
                    /\ table[n][Other(c, n)] # NoConn
                    /\ DialledByLarger(c) => table[n][Other(c, n)] = c

\* The connection invariant, which is inductive: what the indexes promise, with
\* how far the threads have come and what becomes of the ties.
LinkInv ==
    /\ TypeOK /\ IndexNamesOpenConn /\ IndexedIsProved
    /\ SaidFollowsEnd /\ DialledTogether /\ CalmLinks

\* No handshake and no teardown is under way anywhere.
Quiet == \A c \in Conns : \A n \in Ends(c) :
            /\ end[c][n] \in {"idle", "reading", "closed"}
            /\ end[c][n] = "reading" =>
                  c \notin lost /\ end[c][Other(c, n)] # "closed"

\* Both indexes name the same connection, or none.
EndsAgree == \A n, m \in Nodes : table[n][m] = table[m][n]

\* A connection that is read and not indexed is the loser of a tie, which the
\* dial of the larger id won: displacing it did not close it.
UntrackedIsDisplaced ==
    \A c \in Conns : \A n \in Ends(c) :
        end[c][n] = "reading" =>
            LET current == table[n][Other(c, n)] IN
            \/ current = c
            \/ current # NoConn /\ DialledByLarger(current) /\ ~DialledByLarger(c)

\* Two nodes that dial each other once each, at the same time or not, use the
\* same connection whenever they are quiet.  It need not be the only open one:
\* the connection it displaced, if any, goes on being read, by both.
CalmEndsAgree == calm /\ Quiet => EndsAgree /\ UntrackedIsDisplaced

\* Without the restriction to one dial each: the single bidirectional link of
\* ARCHITECTURE.md is the same one at both ends.
QuietEndsAgree ==
    lost = {} /\ restarted = {} /\ ~ReadTimeouts /\ Quiet => EndsAgree

\* They end up, both, with the connection dialled by the larger id if there is
\* one, and stay there.
CrossedDialsSettle ==
    calm => \A c \in Conns : DialledByLarger(c) =>
        [](end[c][Dialer[c]] # "idle" =>
              <>[](\A n \in Ends(c) : table[n][Other(c, n)] = c))

\* Both ends send before they read, so no handshake waits for itself: each one
\* ends, well or not, unless its path dies under it.
HandshakesEnd ==
    \A c \in Conns :
        (\E n \in Ends(c) : Shaking(c, n))
        ~> (\A n \in Ends(c) : ~Shaking(c, n)) \/ c \in lost

\* A connection that is lost, refused or closed at one end is forgotten by both
\* indexes and closed by both, so the peer can be dialled afresh; only a thread
\* whose path died in the middle of its handshake may be left over.
TeardownCompletes ==
    \A c \in Conns :
        (c \in lost \/ \E n \in Ends(c) : end[c][n] = "closed")
        ~> \A m \in Ends(c) :
              /\ end[c][m] = "closed" \/ (c \in lost /\ Shaking(c, m))
              /\ table[m][Other(c, m)] # c
=============================================================================
