------------------------------ MODULE Lifecycle ------------------------------
(***************************************************************************)
(* `parsip daemon start | stop | restart` and what they share on disk: the *)
(* pid file with its lock, the identity and the control socket.  Every     *)
(* system call on one of these is a step, and a process may die between    *)
(* any two steps.  Commands are given at any time: `start` returns before  *)
(* its daemon has opened the pid file.  The ports belong to parsip only    *)
(* and process ids are not used again.                                     *)
(***************************************************************************)
EXTENDS Naturals, FiniteSets

CONSTANTS
    Daemons,     \* processes that run start_daemon, named by their pids
    Stops,       \* calls of stop_daemon
    None,        \* no process, no file
    Port,        \* Port[d]: the configured listen port of d
    StopFirst,   \* StopFirst[d]: the stop that `restart` runs before d, or None
    MaxCrashes   \* how many processes die by themselves

ASSUME NoneAssumption == None \notin Daemons \cup Stops
ASSUME PortAssumption == DOMAIN Port = Daemons
ASSUME StopFirstAssumption == StopFirst \in [Daemons -> Stops \cup {None}]
ASSUME MaxCrashesAssumption == MaxCrashes \in Nat

VARIABLES
    diskFull,   \* whether saving the identity may fail
    pc,         \* pc[d]: how far daemon d has come
    pidFile,    \* the inode parsip.pid names: the daemon that created it, or None
    content,    \* content[i]: the pid written in inode i, or None
    fd,         \* fd[d]: the inode d has open
    identity,   \* whose key ~/.parsip/identity holds; None: absent or too short
    key,        \* key[d]: the identity d runs under
    socket,     \* the daemon that bound the path of the control socket
    signalled,  \* daemons with a SIGTERM on its way
    crashes,    \* deaths so far, for the bound
    stop,       \* stop[s]: the state of a stop and the pid it read
    strays      \* history: daemons that were starting while a stop ran, or that
                \* a stop took for another program

diskVars == <<pidFile, content, identity, socket>>
vars == <<diskFull, pc, fd, key, diskVars, signalled, crashes, stop, strays>>

Init ==
    /\ diskFull \in BOOLEAN
    /\ pc = [d \in Daemons |-> "idle"]
    /\ fd = [d \in Daemons |-> None]
    /\ key = [d \in Daemons |-> None]
    /\ pidFile = None
    /\ content = [i \in Daemons |-> None]
    /\ identity = None
    /\ socket = None
    /\ signalled = {}
    /\ crashes = 0
    /\ stop = [s \in Stops |-> [state |-> "idle", pid |-> None]]
    /\ strays = {}

Alive(d) == pc[d] \notin {"idle", "gone"}
Starting(d) == Alive(d) /\ pc[d] # "serving"
Listening(d) == pc[d] \in {"listening", "cleared", "serving"}
HasLock(d) == Alive(d) /\ pc[d] \notin {"forked", "opened"}

StopIsRunning(s) == stop[s].state \notin {"idle", "done", "failed"}

Goto(d, state) == pc' = [pc EXCEPT ![d] = state]

\* Of a process that ends only its files remain.
Exit(d) ==
    /\ Goto(d, "gone")
    /\ fd' = [fd EXCEPT ![d] = None]
    /\ key' = [key EXCEPT ![d] = None]

-----------------------------------------------------------------------------
(* start_daemon and daemon::run.                                           *)

\* Daemonize::start forks twice, and `parsip daemon start` is over.
Start(d) ==
    /\ pc[d] = "idle"
    /\ StopFirst[d] # None => stop[StopFirst[d]].state = "done"
    /\ Goto(d, "forked")
    /\ UNCHANGED <<fd, key, diskVars, signalled, crashes, stop>>

\* The grandchild opens the pid file, and creates it where there is none.
OpenPidFile(d) ==
    /\ pc[d] = "forked"
    /\ Goto(d, "opened")
    /\ LET inode == IF pidFile = None THEN d ELSE pidFile IN
       /\ pidFile' = inode
       /\ fd' = [fd EXCEPT ![d] = inode]
    /\ UNCHANGED <<content, identity, socket, key, signalled, crashes, stop>>

LockTaken(d) == \E e \in Daemons \ {d} : HasLock(e) /\ fd[e] = fd[d]

\* Bug variant: the error of the lock is passed over.
LockOrNot(d) ==
    /\ pc[d] = "opened"
    /\ Goto(d, "locked")
    /\ UNCHANGED <<fd, key, diskVars, signalled, crashes, stop>>

\* flock without blocking: the lock lives as long as its process.
Lock(d) ==
    /\ pc[d] = "opened"
    /\ ~LockTaken(d)
    /\ Goto(d, "locked")
    /\ UNCHANGED <<fd, key, diskVars, signalled, crashes, stop>>

LockFails(d) ==
    /\ pc[d] = "opened"
    /\ LockTaken(d)
    /\ Exit(d)
    /\ UNCHANGED <<diskVars, signalled, crashes, stop>>

WritePid(d) ==
    /\ pc[d] = "locked"
    /\ Goto(d, "named")
    /\ content' = [content EXCEPT ![fd[d]] = d]
    /\ UNCHANGED <<fd, key, pidFile, identity, socket, signalled, crashes, stop>>

\* Bug variant: a new key at every start.
AlwaysGenerate(d) ==
    /\ pc[d] = "named"
    /\ Goto(d, "saving")
    /\ key' = [key EXCEPT ![d] = d]
    /\ identity' = None
    /\ UNCHANGED <<fd, pidFile, content, socket, signalled, crashes, stop>>

LoadIdentity(d) ==
    /\ pc[d] = "named"
    /\ identity # None
    /\ Goto(d, "identified")
    /\ key' = [key EXCEPT ![d] = identity]
    /\ UNCHANGED <<fd, diskVars, signalled, crashes, stop>>

\* No identity, or one of the wrong length: fs::write truncates the file ...
GenerateIdentity(d) ==
    /\ pc[d] = "named"
    /\ identity = None
    /\ Goto(d, "saving")
    /\ key' = [key EXCEPT ![d] = d]
    /\ UNCHANGED <<fd, diskVars, signalled, crashes, stop>>

\* ... and writes the new key; a failure is a warning only.
SaveIdentity(d) ==
    /\ pc[d] = "saving"
    /\ \/ identity' = key[d]
       \/ diskFull /\ identity' = None
    /\ Goto(d, "identified")
    /\ UNCHANGED <<fd, key, pidFile, content, socket, signalled, crashes, stop>>

PortTaken(d) == \E e \in Daemons \ {d} : Listening(e) /\ Port[e] = Port[d]

\* Bug variant: the port is not asked for before the socket is taken over.
ListenLater(d) ==
    /\ pc[d] = "identified"
    /\ Goto(d, "listening")
    /\ UNCHANGED <<fd, key, diskVars, signalled, crashes, stop>>

Listen(d) ==
    /\ pc[d] = "identified"
    /\ ~PortTaken(d)
    /\ Goto(d, "listening")
    /\ UNCHANGED <<fd, key, diskVars, signalled, crashes, stop>>

ListenFails(d) ==
    /\ pc[d] = "identified"
    /\ PortTaken(d)
    /\ Exit(d)
    /\ UNCHANGED <<diskVars, signalled, crashes, stop>>

\* Bug variant: what is at the path stays there.
ClearNothing(d) ==
    /\ pc[d] = "listening"
    /\ Goto(d, "cleared")
    /\ UNCHANGED <<fd, key, diskVars, signalled, crashes, stop>>

\* A control socket left by another daemon is removed.
ClearSocket(d) ==
    /\ pc[d] = "listening"
    /\ socket' = None
    /\ Goto(d, "cleared")
    /\ UNCHANGED <<fd, key, pidFile, content, identity, signalled, crashes, stop>>

BindSocket(d) ==
    /\ pc[d] = "cleared"
    /\ socket = None
    /\ socket' = d
    /\ Goto(d, "serving")
    /\ UNCHANGED <<fd, key, pidFile, content, identity, signalled, crashes, stop>>

BindFails(d) ==
    /\ pc[d] = "cleared"
    /\ socket # None
    /\ Exit(d)
    /\ UNCHANGED <<diskVars, signalled, crashes, stop>>

\* The process dies, of a signal or by itself.  Its files stay.
Die(d) ==
    /\ Alive(d)
    /\ \/ d \in signalled /\ UNCHANGED crashes
       \/ d \notin signalled /\ crashes < MaxCrashes /\ crashes' = crashes + 1
    /\ Exit(d)
    /\ UNCHANGED <<diskVars, signalled, stop>>

-----------------------------------------------------------------------------
(* stop_daemon.                                                            *)

StopGoes(s, state) == stop' = [stop EXCEPT ![s].state = state]

\* Without a pid file there is nothing to stop; an empty one is removed.
ReadPid(s) ==
    /\ stop[s].state = "idle"
    /\ LET pid == IF pidFile = None THEN None ELSE content[pidFile]
           state == CASE pidFile = None -> "done"
                      [] pidFile # None /\ pid = None -> "removing"
                      [] OTHER -> "read"
       IN  stop' = [stop EXCEPT ![s] = [state |-> state, pid |-> pid]]
    /\ UNCHANGED <<pc, fd, key, diskVars, signalled, crashes>>

\* A look at /proc tells a stale pid file.  A daemon that lives may still not be
\* recognised: its binary was replaced, moved or runs under another name.
Probe(s) ==
    /\ stop[s].state = "read"
    /\ \/ Alive(stop[s].pid) /\ StopGoes(s, "killing")
       \/ StopGoes(s, "removing")
    /\ UNCHANGED <<pc, fd, key, diskVars, signalled, crashes>>

Kill(s) ==
    /\ stop[s].state = "killing"
    /\ IF Alive(stop[s].pid)
       THEN signalled' = signalled \cup {stop[s].pid} /\ StopGoes(s, "waiting")
       ELSE StopGoes(s, "failed") /\ UNCHANGED signalled
    /\ UNCHANGED <<pc, fd, key, diskVars, crashes>>

\* Bug variant: the exit is not waited for.
SeeKill(s) ==
    /\ stop[s].state = "waiting"
    /\ StopGoes(s, "removing")
    /\ UNCHANGED <<pc, fd, key, diskVars, signalled, crashes>>

SeeExit(s) ==
    /\ stop[s].state = "waiting"
    /\ ~Alive(stop[s].pid)
    /\ StopGoes(s, "removing")
    /\ UNCHANGED <<pc, fd, key, diskVars, signalled, crashes>>

\* Bug variant: a daemon that takes too long counts as stopped.
GiveUpRemoves(s) ==
    /\ stop[s].state = "waiting"
    /\ StopGoes(s, "removing")
    /\ UNCHANGED <<pc, fd, key, diskVars, signalled, crashes>>

\* Five seconds are over.
GiveUp(s) ==
    /\ stop[s].state = "waiting"
    /\ StopGoes(s, "failed")
    /\ UNCHANGED <<pc, fd, key, diskVars, signalled, crashes>>

\* remove_file goes by the path, whatever inode it names by now.
RemovePidFile(s) ==
    /\ stop[s].state = "removing"
    /\ pidFile' = None
    /\ StopGoes(s, "done")
    /\ UNCHANGED <<pc, fd, key, content, identity, socket, signalled, crashes>>

Run(d) == \/ OpenPidFile(d) \/ Lock(d) \/ LockFails(d) \/ WritePid(d)
          \/ LoadIdentity(d) \/ GenerateIdentity(d) \/ SaveIdentity(d)
          \/ Listen(d) \/ ListenFails(d)
          \/ ClearSocket(d) \/ BindSocket(d) \/ BindFails(d)

StopStep(s) == Probe(s) \/ Kill(s) \/ SeeExit(s) \/ GiveUp(s) \/ RemovePidFile(s)

\* The daemons this step has a stop run beside while they start ...
Overtaken ==
    {d \in Daemons : Starting(d)'
                       /\ \E s \in Stops : StopIsRunning(s)' \/ stop'[s] # stop[s]}

\* ... and those it has a stop give up as another program.
Mistaken ==
    {d \in Daemons : Alive(d) /\ \E s \in Stops :
        stop[s] = [state |-> "read", pid |-> d] /\ stop'[s].state = "removing"}

Next ==
    /\ \/ \E d \in Daemons : Start(d) \/ Run(d) \/ Die(d)
       \/ \E s \in Stops : ReadPid(s) \/ StopStep(s)
    /\ UNCHANGED diskFull
    /\ strays' = strays \cup Overtaken \cup Mistaken

Spec == Init /\ [][Next]_vars

-----------------------------------------------------------------------------
(* Properties.                                                             *)

PcStates == {"idle", "forked", "opened", "locked", "named", "saving", "identified",
             "listening", "cleared", "serving", "gone"}
StopStates == {"idle", "read", "killing", "waiting", "removing", "done", "failed"}

\* The type invariant: a daemon past its fork has the pid file open.
TypeOK ==
    /\ diskFull \in BOOLEAN
    /\ pc \in [Daemons -> PcStates]
    /\ fd \in [Daemons -> Daemons \cup {None}]
    /\ \A d \in Daemons : Alive(d) /\ pc[d] # "forked" => fd[d] \in Daemons
    /\ key \in [Daemons -> Daemons \cup {None}]
    /\ pidFile \in Daemons \cup {None}
    /\ content \in [Daemons -> Daemons \cup {None}]
    /\ identity \in Daemons \cup {None} /\ socket \in Daemons \cup {None}
    /\ signalled \subseteq Daemons
    /\ crashes \in 0..MaxCrashes
    /\ stop \in [Stops -> [state : StopStates, pid : Daemons \cup {None}]]
    /\ \A s \in Stops : stop[s].state \in {"read", "killing", "waiting"} =>
                            stop[s].pid \in Daemons
    /\ strays \subseteq Daemons

\* One daemon per user: however starts and stops race and whatever ports they ask
\* for, at most one that is no stray gets past the pid file.
AtMostOneDaemon ==
    \A d, e \in Daemons \ strays : HasLock(d) /\ HasLock(e) => d = e

\* Two locks are on two inodes, the inode a daemon has locked holds its pid
\* once it is written, and a port has one listener.
LocksHold ==
    /\ \A d, e \in Daemons : HasLock(d) /\ HasLock(e) /\ fd[d] = fd[e] => d = e
    /\ \A d \in Daemons : HasLock(d) /\ pc[d] # "locked" => content[fd[d]] = d
    /\ \A d, e \in Daemons : Listening(d) /\ Listening(e) /\ Port[d] = Port[e] => d = e

\* A daemon that is no stray has the inode parsip.pid names; and while there never
\* was a stray, the path it cleared and the identity it runs under are its own.
FilesAreTheDaemons ==
    /\ \A d \in Daemons \ strays : Alive(d) /\ pc[d] # "forked" => fd[d] = pidFile
    /\ strays = {} => \A d \in Daemons :
        /\ pc[d] = "cleared" => socket = None
        /\ pc[d] = "saving" => identity = None
        /\ ~diskFull /\ (pc[d] = "identified" \/ Listening(d)) => identity = key[d]

\* While a stop runs, whoever lives and is no stray is the daemon it stops; it
\* removes the pid file when nobody is.
StopsMeetTheirDaemon ==
    \A s \in Stops : StopIsRunning(s) =>
        \A d \in Daemons \ strays : Alive(d) =>
            pc[d] = "serving" /\ stop[s].state # "removing" /\ stop[s].pid = d

\* One daemon, its files and the stops that wait for it: an inductive invariant.
DaemonInv ==
    /\ TypeOK
    /\ AtMostOneDaemon
    /\ LocksHold
    /\ FilesAreTheDaemons
    /\ StopsMeetTheirDaemon

\* Commands reach the daemon that serves: even when a stop that raced with its
\* start removed its pid file, no later start on its port takes its control
\* socket over.
ServingKeepsSocket ==
    [][\A d \in Daemons :
          (pc[d] = "serving" /\ pc'[d] = "serving" /\ socket = d /\ socket' # d)
             => \E e \in Daemons : pc[e] # pc'[e] /\ Port[e] # Port[d]]_vars

\* A daemon that serves can be stopped: the pid file names it, unless a stop ran
\* between its fork and its serving, or took it for another program.  That the
\* command which started it had returned is not enough.
ServingIsStoppable ==
    \A d \in Daemons \ strays :
        pc[d] = "serving" => pidFile # None /\ content[pidFile] = d

\* What earlier daemons left behind, a pid file, an identity half written, a
\* socket, keeps none from starting: without strays only a running daemon does.
OnlyDaemonsBlockStart ==
    [][\A d \in Daemons :
          (strays = {} /\ Alive(d) /\ ~Alive(d)' /\ d \notin signalled /\ crashes' = crashes)
             => \E e \in Daemons \ {d} : Alive(e)]_vars

\* The node stays the same logical participant across restarts and crashes: a
\* daemon that opened its port runs under the saved key, which never changes,
\* while saving works and there are no strays to race for it.
IdentityIsStable ==
    /\ [](\A d \in Daemons :
             (strays = {} /\ ~diskFull /\ Listening(d)) => identity = key[d])
    /\ [][(strays = {} /\ identity # None) => identity' = identity]_vars

\* When stop, or the stop of a restart, reports success no daemon is running but
\* strays: those that this or another stop ran beside while they were starting,
\* and those it took for another program.
StoppedIsGone ==
    [][\A s \in Stops : (stop[s].state # "done" /\ stop'[s].state = "done")
          => \A d \in Daemons \ strays' : ~Alive(d)]_vars
=============================================================================
