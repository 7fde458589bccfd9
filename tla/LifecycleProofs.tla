---------------------------- MODULE LifecycleProofs ----------------------------
(***************************************************************************)
(* The safety of Lifecycle for any number of starts, stops and restarts on *)
(* any ports, with deaths anywhere and commands at any time.  DaemonInv is *)
(* inductive; the locks of the processes carry it, and each property       *)
(* follows from it.                                                        *)
(***************************************************************************)
EXTENDS Lifecycle, TLAPS

Moves(d) == Start(d) \/ Run(d) \/ Die(d)
StopMoves(s) == ReadPid(s) \/ StopStep(s)

\* A daemon's step touches no stop and no other daemon.
LEMMA OnlyOneMoves ==
    ASSUME TypeOK, NEW d \in Daemons, Moves(d)
    PROVE  /\ UNCHANGED stop
           /\ pc' \in [Daemons -> PcStates] /\ fd' \in [Daemons -> Daemons \cup {None}]
           /\ key' \in [Daemons -> Daemons \cup {None}]
           /\ \A e \in Daemons : e # d => pc'[e] = pc[e] /\ fd'[e] = fd[e] /\ key'[e] = key[e]
<1> USE DEF TypeOK, PcStates, Goto, Exit, diskVars
<1>1. CASE OpenPidFile(d)
  <2>1. IF pidFile = None THEN d \in Daemons ELSE pidFile \in Daemons
    OBVIOUS
  <2> QED
    BY <1>1, <2>1 DEF OpenPidFile
<1>2. CASE Start(d) \/ Die(d)
    BY <1>2 DEF Start, Die
<1>3. CASE Lock(d) \/ LockFails(d) \/ WritePid(d)
    BY <1>3 DEF Lock, LockFails, WritePid
<1>4. CASE LoadIdentity(d) \/ GenerateIdentity(d) \/ SaveIdentity(d)
    BY <1>4 DEF LoadIdentity, GenerateIdentity, SaveIdentity
<1>5. CASE Listen(d) \/ ListenFails(d) \/ ClearSocket(d) \/ BindSocket(d) \/ BindFails(d)
    BY <1>5 DEF Listen, ListenFails, ClearSocket, BindSocket, BindFails
<1> QED
    BY <1>1, <1>2, <1>3, <1>4, <1>5 DEF Moves, Run

\* A stop's step touches no daemon.
LEMMA OnlyOneStops ==
    ASSUME TypeOK, NEW s \in Stops, StopMoves(s)
    PROVE  /\ UNCHANGED <<pc, fd, key, content, identity, socket, crashes>>
           /\ stop' \in [Stops -> [state : StopStates, pid : Daemons \cup {None}]]
           /\ \A t \in Stops : t # s => stop'[t] = stop[t]
           /\ stop'[s] # stop[s]
           /\ stop'[s].state \in {"read", "killing", "waiting"} => stop'[s].pid \in Daemons
           /\ pidFile' \in {pidFile, None} /\ signalled' \subseteq Daemons
<1> USE DEF TypeOK, StopStates, diskVars
<1>1. CASE ReadPid(s)
  <2> DEFINE pid == IF pidFile = None THEN None ELSE content[pidFile]
             state == CASE pidFile = None -> "done"
                        [] pidFile # None /\ pid = None -> "removing"
                        [] OTHER -> "read"
  <2>1. pid \in Daemons \cup {None} /\ state \in {"done", "removing", "read"}
        /\ (state = "read" => pid \in Daemons)
    OBVIOUS
  <2>2. stop' = [stop EXCEPT ![s] = [state |-> state, pid |-> pid]]
    BY <1>1 DEF ReadPid
  <2> HIDE DEF pid, state
  <2>3. UNCHANGED <<pc, fd, key, diskVars, signalled, crashes>> /\ stop[s].state = "idle"
    BY <1>1 DEF ReadPid
  <2>4. stop'[s].state = state /\ state # "idle" /\ stop'[s].pid = pid
    BY <2>1, <2>2
  <2> QED
    BY <2>1, <2>2, <2>3, <2>4
<1>2. CASE Probe(s)
    BY <1>2 DEF Probe, StopGoes
<1>3. CASE Kill(s)
    BY <1>3 DEF Kill, StopGoes
<1>4. CASE SeeExit(s) \/ GiveUp(s)
    BY <1>4 DEF SeeExit, GiveUp, StopGoes
<1>5. CASE RemovePidFile(s)
    BY <1>5 DEF RemovePidFile, StopGoes
<1> QED
    BY <1>1, <1>2, <1>3, <1>4, <1>5 DEF StopMoves, StopStep

\* A step is one of a daemon or of a stop; whether the disk is full never changes.
LEMMA NextIs ==
    ASSUME [Next]_vars
    PROVE  /\ UNCHANGED diskFull
           /\ \/ UNCHANGED vars
              \/ /\ \/ \E d \in Daemons : Moves(d)
                    \/ \E s \in Stops : StopMoves(s)
                 /\ strays' = strays \cup Overtaken \cup Mistaken
BY DEF Next, vars, Moves, StopMoves

\* Who is no stray after a step was none before.
LEMMA StraysStay ==
    ASSUME [Next]_vars
    PROVE  strays \subseteq strays'
BY NextIs DEF vars

\* Who is a stray is a daemon.
LEMMA StraysAreDaemons ==
    ASSUME [Next]_vars, strays \subseteq Daemons
    PROVE  strays' \subseteq Daemons
BY NextIs DEF vars, Overtaken, Mistaken

\* Of the daemons that live, one that is no stray after a step of a stop serves,
\* and if the stop takes its pid for a stale one it is another's.
LEMMA SparedIs ==
    ASSUME TypeOK, [Next]_vars, NEW s \in Stops, StopMoves(s),
           NEW d \in Daemons \ strays', Alive(d)
    PROVE  /\ pc[d] = "serving" /\ d \notin strays
           /\ stop[s].state = "read" /\ stop'[s].state = "removing" => stop[s].pid # d
<1>1. /\ pc' = pc /\ stop'[s] # stop[s]
    BY OnlyOneStops
<1>2. strays' = strays \cup Overtaken \cup Mistaken
    BY <1>1, NextIs DEF vars
<1>3. d \notin Overtaken /\ d \notin Mistaken /\ d \notin strays
    BY <1>2
<1>4. pc[d] = "serving"
    BY <1>1, <1>3 DEF Overtaken, Starting, Alive
<1>5. ASSUME stop[s].state = "read", stop'[s].state = "removing", stop[s].pid = d
      PROVE  FALSE
  <2>1. stop[s] = [state |-> "read", pid |-> d]
    BY <1>5 DEF TypeOK
  <2> QED
    BY <1>3, <1>5, <2>1 DEF Mistaken
<1> QED
    BY <1>3, <1>4, <1>5

\* Types are preserved.
LEMMA NextTypes ==
    ASSUME TypeOK, [Next]_vars
    PROVE  TypeOK'
<1>1. UNCHANGED diskFull /\ strays' \subseteq Daemons
    BY NextIs, StraysAreDaemons DEF TypeOK
<1>2. CASE UNCHANGED vars
    BY <1>2 DEF TypeOK, vars, diskVars, Alive
<1>3. ASSUME NEW d \in Daemons, Moves(d) PROVE TypeOK'
  <2>1. /\ UNCHANGED stop
        /\ pc' \in [Daemons -> PcStates] /\ fd' \in [Daemons -> Daemons \cup {None}]
        /\ key' \in [Daemons -> Daemons \cup {None}]
        /\ \A e \in Daemons : e # d => pc'[e] = pc[e] /\ fd'[e] = fd[e]
    BY <1>3, OnlyOneMoves
  <2>2. pc'[d] \notin {"idle", "gone", "forked"} => fd'[d] \in Daemons
    <3>1. CASE OpenPidFile(d)
        BY <3>1 DEF OpenPidFile, TypeOK
    <3>2. CASE Start(d) \/ Die(d) \/ LockFails(d) \/ ListenFails(d) \/ BindFails(d)
        BY <3>2 DEF Start, Die, LockFails, ListenFails, BindFails, Exit, Goto, TypeOK
    <3>3. CASE Run(d) /\ ~OpenPidFile(d) /\ ~LockFails(d) /\ ~ListenFails(d) /\ ~BindFails(d)
      <4>1. Alive(d) /\ pc[d] # "forked" /\ fd' = fd
        BY <3>3 DEF Run, Lock, WritePid, LoadIdentity, GenerateIdentity, SaveIdentity,
            Listen, ClearSocket, BindSocket, Alive
      <4> QED
        BY <4>1 DEF TypeOK
    <3> QED
        BY <1>3, <3>1, <3>2, <3>3 DEF Moves, Run
  <2>3. \A e \in Daemons : Alive(e)' /\ pc'[e] # "forked" => fd'[e] \in Daemons
    BY <2>1, <2>2 DEF Alive, TypeOK
  <2>4. /\ pidFile' \in Daemons \cup {None} /\ content' \in [Daemons -> Daemons \cup {None}]
        /\ identity' \in Daemons \cup {None} /\ socket' \in Daemons \cup {None}
        /\ signalled' \subseteq Daemons /\ crashes' \in 0..MaxCrashes
    <3>1. CASE Start(d) \/ Die(d)
        BY <3>1, MaxCrashesAssumption DEF Start, Die, TypeOK, diskVars
    <3>2. CASE Run(d)
        BY <3>2 DEF Run, OpenPidFile, Lock, LockFails, WritePid, LoadIdentity, GenerateIdentity,
            SaveIdentity, Listen, ListenFails, ClearSocket, BindSocket, BindFails, TypeOK, diskVars
    <3> QED
        BY <1>3, <3>1, <3>2 DEF Moves
  <2> QED
    BY <1>1, <2>1, <2>3, <2>4 DEF TypeOK
<1>4. ASSUME NEW s \in Stops, StopMoves(s) PROVE TypeOK'
  <2>1. /\ UNCHANGED <<pc, fd, key, content, identity, socket, crashes>>
        /\ stop' \in [Stops -> [state : StopStates, pid : Daemons \cup {None}]]
        /\ \A t \in Stops : t # s => stop'[t] = stop[t]
        /\ stop'[s].state \in {"read", "killing", "waiting"} => stop'[s].pid \in Daemons
        /\ pidFile' \in {pidFile, None} /\ signalled' \subseteq Daemons
    BY <1>4, OnlyOneStops
  <2>2. \A t \in Stops : stop'[t].state \in {"read", "killing", "waiting"} => stop'[t].pid \in Daemons
    BY <2>1 DEF TypeOK
  <2> QED
    BY <1>1, <2>1, <2>2 DEF TypeOK, Alive
<1> QED
    BY <1>2, <1>3, <1>4, NextIs

-----------------------------------------------------------------------------
(* The locks.                                                              *)

\* An inode is locked only by who finds it free, and released only by a daemon
\* that dies.
LEMMA NextLocks ==
    ASSUME TypeOK, LocksHold, [Next]_vars
    PROVE  LocksHold'
<1>1. CASE UNCHANGED vars
    BY <1>1 DEF LocksHold, vars, diskVars, HasLock, Alive, Listening
<1>2. ASSUME NEW s \in Stops, StopMoves(s) PROVE LocksHold'
    BY <1>2, OnlyOneStops DEF LocksHold, HasLock, Alive, Listening
<1>3. ASSUME NEW d \in Daemons, Moves(d) PROVE LocksHold'
  <2>1. \A e \in Daemons : e # d => pc'[e] = pc[e] /\ fd'[e] = fd[e]
    BY <1>3, OnlyOneMoves
  <2>2. \A e \in Daemons : e # d => (HasLock(e)' <=> HasLock(e)) /\ (Listening(e)' <=> Listening(e))
    BY <2>1 DEF HasLock, Alive, Listening
  <2>3. HasLock(d)' => fd'[d] = fd[d] /\ (HasLock(d) \/ ~LockTaken(d))
    <3>1. CASE Start(d) \/ OpenPidFile(d) \/ Die(d)
        BY <3>1 DEF Start, OpenPidFile, Die, Exit, Goto, HasLock, Alive, TypeOK
    <3>2. CASE LockFails(d) \/ ListenFails(d) \/ BindFails(d)
        BY <3>2 DEF LockFails, ListenFails, BindFails, Exit, Goto, HasLock, Alive, TypeOK
    <3>3. CASE Lock(d)
        BY <3>3 DEF Lock
    <3>4. CASE WritePid(d) \/ LoadIdentity(d) \/ GenerateIdentity(d) \/ SaveIdentity(d)
               \/ Listen(d) \/ ClearSocket(d) \/ BindSocket(d)
        BY <3>4 DEF WritePid, LoadIdentity, GenerateIdentity, SaveIdentity,
            Listen, ClearSocket, BindSocket, HasLock, Alive
    <3> QED
        BY <1>3, <3>1, <3>2, <3>3, <3>4 DEF Moves, Run
  <2>4. \A e \in Daemons : HasLock(d)' /\ HasLock(e)' /\ fd'[d] = fd'[e] => d = e
    BY <2>1, <2>2, <2>3 DEF LocksHold, LockTaken
  <2>5. \A e, f \in Daemons : HasLock(e)' /\ HasLock(f)' /\ fd'[e] = fd'[f] => e = f
    BY <2>1, <2>2, <2>4 DEF LocksHold
  <2>6. \A e \in Daemons : HasLock(e)' /\ pc'[e] # "locked" => content'[fd'[e]] = e
    <3>1. CASE WritePid(d)
      <4>1. /\ fd' = fd /\ content' = [content EXCEPT ![fd[d]] = d] /\ HasLock(d)
            /\ fd[d] \in Daemons
        BY <3>1 DEF WritePid, HasLock, Alive, TypeOK
      <4>2. \A e \in Daemons : e # d /\ HasLock(e) => fd[e] # fd[d] /\ fd[e] \in Daemons
        BY <4>1 DEF LocksHold, HasLock, TypeOK
      <4> QED
        BY <2>1, <2>2, <4>1, <4>2 DEF LocksHold, TypeOK
    <3>2. CASE ~WritePid(d)
      <4>1. content' = content
        BY <1>3, <3>2 DEF Moves, Start, Die, Run, OpenPidFile, Lock, LockFails, LoadIdentity,
            GenerateIdentity, SaveIdentity, Listen, ListenFails, ClearSocket, BindSocket, BindFails,
            diskVars
      <4>2. HasLock(d)' /\ pc'[d] # "locked" => HasLock(d) /\ pc[d] # "locked" /\ fd' = fd
        BY <1>3, <3>2 DEF Moves, Start, Die, Run, OpenPidFile, Lock, LockFails, LoadIdentity,
            GenerateIdentity, SaveIdentity, Listen, ListenFails, ClearSocket, BindSocket, BindFails,
            Goto, Exit, HasLock, Alive, TypeOK
      <4> QED
        BY <2>1, <2>2, <4>1, <4>2 DEF LocksHold
    <3> QED
        BY <3>1, <3>2
  <2>7. Listening(d)' => Listening(d) \/ ~PortTaken(d)
    BY <1>3 DEF Moves, Start, Die, Run, OpenPidFile, Lock, LockFails, WritePid, LoadIdentity,
        GenerateIdentity, SaveIdentity, Listen, ListenFails, ClearSocket, BindSocket, BindFails,
        Goto, Exit, Listening, TypeOK
  <2>8. \A e \in Daemons : Listening(d)' /\ Listening(e)' /\ Port[d] = Port[e] => d = e
    BY <2>2, <2>7 DEF LocksHold, PortTaken
  <2>9. \A e, f \in Daemons : Listening(e)' /\ Listening(f)' /\ Port[e] = Port[f] => e = f
    BY <2>2, <2>8 DEF LocksHold
  <2> QED
    BY <2>5, <2>6, <2>9 DEF LocksHold
<1> QED
    BY <1>1, <1>2, <1>3, NextIs

-----------------------------------------------------------------------------
(* The files and the stop.                                                 *)

\* Two daemons with a lock that are no strays have the inode parsip.pid names, so
\* they are one.
LEMMA OneDaemon ==
    ASSUME LocksHold, FilesAreTheDaemons
    PROVE  AtMostOneDaemon
BY DEF LocksHold, FilesAreTheDaemons, AtMostOneDaemon, HasLock

\* A daemon that starts beside a stop becomes a stray; one that serves is known to
\* every stop that runs.
LEMMA NextMeets ==
    ASSUME TypeOK, LocksHold, FilesAreTheDaemons, StopsMeetTheirDaemon, [Next]_vars
    PROVE  StopsMeetTheirDaemon'
<1>1. SUFFICES ASSUME NEW s \in Stops, StopIsRunning(s)',
                      NEW d \in Daemons, d \notin strays', Alive(d)'
               PROVE  pc'[d] = "serving" /\ stop'[s].state # "removing" /\ stop'[s].pid = d
    BY DEF StopsMeetTheirDaemon
<1>2. d \notin strays
    BY <1>1, StraysStay
<1>3. CASE UNCHANGED vars
    BY <1>1, <1>2, <1>3 DEF StopsMeetTheirDaemon, StopIsRunning, vars, Alive
<1>4. ASSUME NEW e \in Daemons, Moves(e), ~UNCHANGED vars
      PROVE  pc'[d] = "serving" /\ stop'[s].state # "removing" /\ stop'[s].pid = d
  <2>1. stop' = stop /\ \A f \in Daemons : f # e => pc'[f] = pc[f]
    BY <1>4, OnlyOneMoves
  <2>2. StopIsRunning(s)
    BY <1>1, <2>1 DEF StopIsRunning
  <2>3. Alive(d)
    <3>1. ASSUME ~Alive(d) PROVE d \in Overtaken
      <4>1. e = d /\ Start(d)
        BY <1>1, <1>4, <2>1, <3>1 DEF Alive, Moves, Die, Run, OpenPidFile, Lock, LockFails, WritePid,
            LoadIdentity, GenerateIdentity, SaveIdentity, Listen, ListenFails, ClearSocket,
            BindSocket, BindFails
      <4>2. pc'[d] = "forked"
        BY <4>1 DEF Start, Goto, TypeOK
      <4> QED
        BY <1>1, <4>2 DEF Overtaken, Starting, Alive
    <3> QED
        BY <1>1, <1>4, <3>1, NextIs
  <2>4. pc[d] = "serving" /\ stop[s].state # "removing" /\ stop[s].pid = d
    BY <1>2, <2>2, <2>3 DEF StopsMeetTheirDaemon
  <2>5. pc'[d] = "serving"
    <3>1. CASE e # d
        BY <2>1, <2>4, <3>1
    <3>2. CASE e = d
      <4>1. Die(d)
        BY <1>4, <2>4, <3>2 DEF Moves, Start, Run, OpenPidFile, Lock, LockFails, WritePid,
            LoadIdentity, GenerateIdentity, SaveIdentity, Listen, ListenFails, ClearSocket,
            BindSocket, BindFails
      <4> QED
        BY <1>1, <4>1 DEF Die, Exit, Goto, Alive, TypeOK
    <3> QED
        BY <3>1, <3>2
  <2> QED
    BY <2>1, <2>4, <2>5
<1>5. ASSUME NEW t \in Stops, StopMoves(t)
      PROVE  pc'[d] = "serving" /\ stop'[s].state # "removing" /\ stop'[s].pid = d
  <2>1. pc' = pc /\ \A u \in Stops : u # t => stop'[u] = stop[u]
    BY <1>5, OnlyOneStops
  <2>2. Alive(d)
    BY <1>1, <2>1 DEF Alive
  <2>3. /\ pc[d] = "serving"
        /\ stop[t].state = "read" /\ stop'[t].state = "removing" => stop[t].pid # d
    BY <1>1, <1>5, <2>2, SparedIs
  <2>4. \A u \in Stops : StopIsRunning(u) => stop[u].state # "removing" /\ stop[u].pid = d
    BY <1>2, <2>2 DEF StopsMeetTheirDaemon
  <2>5. CASE s # t
    BY <1>1, <2>1, <2>3, <2>4, <2>5 DEF StopIsRunning
  <2>6. CASE s = t /\ ReadPid(t)
    <3>1. pidFile \in Daemons /\ content[pidFile] = d
        BY <1>2, <2>2, <2>3 DEF FilesAreTheDaemons, LocksHold, HasLock, TypeOK
    <3>2. content[pidFile] = d /\ pidFile # None /\ d # None
        BY <3>1, NoneAssumption
    <3>3. stop' = [stop EXCEPT ![t] = [state |-> "read", pid |-> d]]
        BY <2>6, <3>2 DEF ReadPid
    <3> QED
        BY <2>1, <2>3, <2>6, <3>3 DEF TypeOK
  <2>7. CASE s = t /\ StopStep(t)
    <3>1. StopIsRunning(t)
        BY <2>7 DEF StopStep, Probe, Kill, SeeExit, GiveUp, RemovePidFile, StopIsRunning
    <3>2. stop[t].state # "removing" /\ stop[t].pid = d
        BY <2>4, <3>1
    <3>3. stop'[t].pid = stop[t].pid
        BY <2>7 DEF StopStep, Probe, Kill, SeeExit, GiveUp, RemovePidFile, StopGoes, TypeOK
    <3>4. ~SeeExit(t) /\ ~RemovePidFile(t)
        BY <2>2, <3>2 DEF SeeExit, RemovePidFile
    <3>5. CASE Probe(t)
        BY <2>1, <2>3, <2>7, <3>2, <3>3, <3>5 DEF Probe
    <3>6. CASE Kill(t) \/ GiveUp(t)
      <4>1. stop'[t].state # "removing"
        BY <3>6 DEF Kill, GiveUp, StopGoes, TypeOK
      <4> QED
        BY <2>1, <2>3, <2>7, <3>2, <3>3, <4>1
    <3> QED
        BY <2>7, <3>4, <3>5, <3>6 DEF StopStep
  <2> QED
    BY <1>5, <2>5, <2>6, <2>7 DEF StopMoves
<1> QED
    BY <1>3, <1>4, <1>5, NextIs

\* The inode of a daemon that is no stray stays the one parsip.pid names.
LEMMA NextInode ==
    ASSUME TypeOK, FilesAreTheDaemons, StopsMeetTheirDaemon, [Next]_vars,
           NEW e \in Daemons, e \notin strays', Alive(e)', pc'[e] # "forked"
    PROVE  fd'[e] = pidFile'
<1>1. e \notin strays
    BY StraysStay
<1>2. \A f \in Daemons : f \notin strays /\ Alive(f) /\ pc[f] # "forked" => fd[f] = pidFile
    BY DEF FilesAreTheDaemons
<1>3. CASE UNCHANGED vars
    BY <1>1, <1>2, <1>3 DEF vars, diskVars, Alive
<1>4. ASSUME NEW s \in Stops, StopMoves(s) PROVE fd'[e] = pidFile'
  <2>1. UNCHANGED <<pc, fd>>
    BY <1>4, OnlyOneStops
  <2>2. Alive(e) /\ fd[e] = pidFile
    BY <1>1, <1>2, <2>1 DEF Alive
  <2>3. ~RemovePidFile(s)
    BY <1>1, <2>2 DEF RemovePidFile, StopIsRunning, StopsMeetTheirDaemon
  <2>4. pidFile' = pidFile
    BY <1>4, <2>3 DEF StopMoves, StopStep, ReadPid, Probe, Kill, SeeExit, GiveUp, diskVars
  <2> QED
    BY <2>1, <2>2, <2>4
<1>5. ASSUME NEW d \in Daemons, Moves(d) PROVE fd'[e] = pidFile'
  <2>1. \A f \in Daemons : f # d => pc'[f] = pc[f] /\ fd'[f] = fd[f]
    BY <1>5, OnlyOneMoves
  <2>2. CASE OpenPidFile(d) /\ e = d
    BY <2>2 DEF OpenPidFile, TypeOK
  <2>3. CASE OpenPidFile(d) /\ e # d
    <3>1. fd[e] = pidFile /\ fd[e] \in Daemons
        BY <1>1, <1>2, <2>1, <2>3 DEF Alive, TypeOK
    <3> QED
        BY <2>1, <2>3, <3>1, NoneAssumption DEF OpenPidFile
  <2>4. CASE ~OpenPidFile(d)
    <3>1. pidFile' = pidFile
        BY <1>5, <2>4 DEF Moves, Start, Die, Run, Lock, LockFails, WritePid, LoadIdentity,
            GenerateIdentity, SaveIdentity, Listen, ListenFails, ClearSocket, BindSocket, BindFails,
            diskVars
    <3>2. CASE Start(d) \/ Die(d) \/ LockFails(d) \/ ListenFails(d) \/ BindFails(d)
      <4>1. e # d
        BY <3>2 DEF Start, Die, LockFails, ListenFails, BindFails, Exit, Goto, Alive, TypeOK
      <4> QED
        BY <1>1, <1>2, <2>1, <3>1, <4>1 DEF Alive
    <3>3. CASE Run(d) /\ ~LockFails(d) /\ ~ListenFails(d) /\ ~BindFails(d)
      <4>1. Alive(d) /\ pc[d] # "forked" /\ fd' = fd
        BY <2>4, <3>3 DEF Run, Lock, WritePid, LoadIdentity, GenerateIdentity, SaveIdentity,
            Listen, ClearSocket, BindSocket, Alive
      <4> QED
        BY <1>1, <1>2, <2>1, <3>1, <4>1 DEF Alive
    <3> QED
        BY <1>5, <3>2, <3>3 DEF Moves
  <2> QED
    BY <2>2, <2>3, <2>4
<1> QED
    BY <1>3, <1>4, <1>5, NextIs

\* What is on disk stays the living daemon's.
LEMMA NextFiles ==
    ASSUME TypeOK, LocksHold, FilesAreTheDaemons, StopsMeetTheirDaemon, [Next]_vars
    PROVE  FilesAreTheDaemons'
<1> DEFINE Own ==
        \A d \in Daemons :
            /\ pc[d] = "cleared" => socket = None
            /\ pc[d] = "saving" => identity = None
            /\ ~diskFull /\ (pc[d] = "identified" \/ Listening(d)) => identity = key[d]
<1>1. SUFFICES ASSUME strays' = {} PROVE Own'
    BY NextInode DEF FilesAreTheDaemons
<1>2. strays = {} /\ diskFull' = diskFull
    BY <1>1, StraysStay, NextIs
<1>3. Own
    BY <1>2 DEF FilesAreTheDaemons
<1>4. CASE UNCHANGED vars
    BY <1>3, <1>4 DEF vars, diskVars, Listening
<1>5. ASSUME NEW s \in Stops, StopMoves(s) PROVE Own'
    BY <1>2, <1>3, <1>5, OnlyOneStops DEF Listening
<1>6. ASSUME NEW d \in Daemons, Moves(d) PROVE Own'
  <2>1. \A e \in Daemons : e # d => pc'[e] = pc[e] /\ fd'[e] = fd[e] /\ key'[e] = key[e]
    BY <1>6, OnlyOneMoves
  <2>2. \A e \in Daemons : e # d => (Listening(e)' <=> Listening(e))
    BY <2>1 DEF Listening
  \* A daemon that holds the lock is alone.
  <2>3. HasLock(d) => \A e \in Daemons : HasLock(e) => e = d
    BY <1>2, OneDaemon DEF AtMostOneDaemon
  <2>4. \A e \in Daemons : pc'[e] = "cleared" => socket' = None
    <3>1. CASE ClearSocket(d)
        BY <3>1 DEF ClearSocket
    <3>2. CASE BindSocket(d)
      <4>1. HasLock(d) /\ pc'[d] # "cleared"
        BY <3>2 DEF BindSocket, HasLock, Alive, Goto, TypeOK
      <4>2. \A e \in Daemons : e # d => pc'[e] # "cleared"
        BY <2>1, <2>3, <4>1 DEF HasLock, Alive
      <4> QED
        BY <4>1, <4>2
    <3>3. CASE ~ClearSocket(d) /\ ~BindSocket(d)
      <4>1. UNCHANGED socket /\ pc'[d] # "cleared"
        BY <1>6, <3>3 DEF Moves, Start, Die, Run, OpenPidFile, Lock, LockFails, WritePid, LoadIdentity,
            GenerateIdentity, SaveIdentity, Listen, ListenFails, BindFails, diskVars, Exit, Goto, TypeOK
      <4> QED
        BY <1>3, <2>1, <4>1
    <3> QED
        BY <3>1, <3>2, <3>3
  <2>5. \A e \in Daemons : pc'[e] = "saving" => identity' = None
    <3>1. CASE SaveIdentity(d)
      <4>1. HasLock(d) /\ pc'[d] # "saving"
        BY <3>1 DEF SaveIdentity, HasLock, Alive, Goto, TypeOK
      <4>2. \A e \in Daemons : e # d => pc'[e] # "saving"
        BY <2>1, <2>3, <4>1 DEF HasLock, Alive
      <4> QED
        BY <4>1, <4>2
    <3>2. CASE ~SaveIdentity(d)
      <4>1. UNCHANGED identity /\ (pc'[d] = "saving" => identity = None)
        BY <1>6, <3>2 DEF Moves, Start, Die, Run, OpenPidFile, Lock, LockFails, WritePid, LoadIdentity,
            GenerateIdentity, Listen, ListenFails, ClearSocket, BindSocket, BindFails, diskVars,
            Exit, Goto, TypeOK
      <4> QED
        BY <1>3, <2>1, <4>1
    <3> QED
        BY <3>1, <3>2
  <2>6. \A e \in Daemons : ~diskFull /\ (pc'[e] = "identified" \/ Listening(e)') => identity' = key'[e]
    <3>1. CASE SaveIdentity(d)
      <4>1. HasLock(d) /\ key' = key /\ (~diskFull => identity' = key[d])
        BY <3>1 DEF SaveIdentity, HasLock, Alive
      <4>2. \A e \in Daemons : e # d => ~(pc'[e] = "identified" \/ Listening(e)')
        BY <2>1, <2>3, <4>1 DEF HasLock, Alive, Listening
      <4> QED
        BY <4>1, <4>2
    <3>2. CASE ~SaveIdentity(d)
      <4>1. UNCHANGED identity
        BY <1>6, <3>2 DEF Moves, Start, Die, Run, OpenPidFile, Lock, LockFails, WritePid, LoadIdentity,
            GenerateIdentity, Listen, ListenFails, ClearSocket, BindSocket, BindFails, diskVars
      <4>2. pc'[d] = "identified" \/ Listening(d)' =>
                \/ identity = key'[d]
                \/ (pc[d] = "identified" \/ Listening(d)) /\ key' = key
        BY <1>6, <3>2 DEF Moves, Start, Die, Run, OpenPidFile, Lock, LockFails, WritePid, LoadIdentity,
            GenerateIdentity, Listen, ListenFails, ClearSocket, BindSocket, BindFails, Exit, Goto,
            Listening, TypeOK
      <4> QED
        BY <1>3, <2>1, <2>2, <4>1, <4>2
    <3> QED
        BY <3>1, <3>2
  <2> QED
    BY <1>2, <2>4, <2>5, <2>6
<1> QED
    BY <1>4, <1>5, <1>6, NextIs

-----------------------------------------------------------------------------
(* The invariant and what follows from it.                                 *)

\* Nothing was started yet.
LEMMA InitDaemons ==
    Init => DaemonInv
<1> SUFFICES ASSUME Init PROVE DaemonInv
    OBVIOUS
<1>1. \A d \in Daemons : pc[d] = "idle"
    BY DEF Init
<1>2. LocksHold /\ FilesAreTheDaemons /\ AtMostOneDaemon
    BY <1>1 DEF LocksHold, FilesAreTheDaemons, AtMostOneDaemon, HasLock, Alive, Listening
<1>3. StopsMeetTheirDaemon
    BY DEF Init, StopsMeetTheirDaemon, StopIsRunning
<1>4. TypeOK
    BY <1>1, MaxCrashesAssumption DEF Init, TypeOK, PcStates, StopStates, Alive
<1> QED
    BY <1>2, <1>3, <1>4 DEF DaemonInv

\* DaemonInv is preserved by every step.
LEMMA NextDaemons ==
    DaemonInv /\ [Next]_vars => DaemonInv'
<1> SUFFICES ASSUME DaemonInv, [Next]_vars PROVE DaemonInv'
    OBVIOUS
<1>1. TypeOK' /\ LocksHold' /\ FilesAreTheDaemons' /\ StopsMeetTheirDaemon'
    BY NextTypes, NextLocks, NextFiles, NextMeets DEF DaemonInv
<1>2. AtMostOneDaemon'
    BY <1>1 DEF LocksHold, FilesAreTheDaemons, AtMostOneDaemon, HasLock
<1> QED
    BY <1>1, <1>2 DEF DaemonInv

\* However starts and stops race and whatever ports they ask for, of the daemons
\* that no stop ran beside while they started, and that none took for another
\* program, one gets past the pid file of start_daemon, and that file is its own.
THEOREM OneDaemonPerUser == Spec => []DaemonInv
    BY InitDaemons, NextDaemons, PTL DEF Spec

\* The pid file names the daemon that serves, so that stop_daemon finds it, if no
\* stop ran while it started and none failed to recognise it.
THEOREM TheServingCanBeStopped == Spec => []ServingIsStoppable
<1>1. DaemonInv => ServingIsStoppable
  <2> SUFFICES ASSUME DaemonInv, NEW d \in Daemons \ strays, pc[d] = "serving"
               PROVE  pidFile # None /\ content[pidFile] = d
    BY DEF ServingIsStoppable
  <2>1. fd[d] = pidFile /\ fd[d] \in Daemons /\ content[fd[d]] = d
    BY DEF DaemonInv, TypeOK, FilesAreTheDaemons, LocksHold, HasLock, Alive
  <2> QED
    BY <2>1, NoneAssumption
<1> QED
    BY <1>1, OneDaemonPerUser, PTL

\* The control socket of a daemon that serves goes only to a daemon with another
\* port: daemon::run asks for the port before it clears the path.
THEOREM SocketIsKept == Spec => ServingKeepsSocket
<1>1. ASSUME DaemonInv, [Next]_vars,
             NEW d \in Daemons, pc[d] = "serving", pc'[d] = "serving", socket = d, socket' # d
      PROVE  \E e \in Daemons : pc[e] # pc'[e] /\ Port[e] # Port[d]
  <2>1. PICK e \in Daemons : Moves(e)
    BY <1>1, NextIs, OnlyOneStops DEF vars, diskVars, DaemonInv
  <2>2. ClearSocket(e) \/ BindSocket(e)
    BY <1>1, <2>1 DEF Moves, Start, Die, Run, OpenPidFile, Lock, LockFails, WritePid,
        LoadIdentity, GenerateIdentity, SaveIdentity, Listen, ListenFails, BindFails, diskVars
  <2>3. socket # None
    BY <1>1, NoneAssumption
  <2>4. pc[e] = "listening" /\ pc'[e] = "cleared"
    BY <1>1, <2>2, <2>3 DEF ClearSocket, BindSocket, Goto, DaemonInv, TypeOK
  <2>5. Port[e] # Port[d]
    BY <1>1, <2>4 DEF DaemonInv, LocksHold, Listening
  <2> QED
    BY <2>4, <2>5
<1>2. ASSUME DaemonInv, [Next]_vars
      PROVE  [\A d \in Daemons :
                 (pc[d] = "serving" /\ pc'[d] = "serving" /\ socket = d /\ socket' # d)
                    => \E e \in Daemons : pc[e] # pc'[e] /\ Port[e] # Port[d]]_vars
    BY <1>1, <1>2
<1> QED
    BY <1>2, OneDaemonPerUser, PTL DEF Spec, ServingKeepsSocket

\* A start fails only beside a daemon that lives: no file a dead one left makes
\* start_daemon or run give up.
THEOREM LeftoversBlockNothing == Spec => OnlyDaemonsBlockStart
<1>1. ASSUME DaemonInv, [Next]_vars, NEW d \in Daemons,
             strays = {}, Alive(d), ~Alive(d)', d \notin signalled, crashes' = crashes
      PROVE  \E e \in Daemons \ {d} : Alive(e)
  <2>1. pc'[d] # pc[d]
    BY <1>1 DEF Alive
  <2>2. Moves(d)
    BY <1>1, <2>1, NextIs, OnlyOneMoves, OnlyOneStops DEF vars, DaemonInv
  <2>3. ~Die(d)
    BY <1>1 DEF Die, DaemonInv, TypeOK
  <2>4. LockFails(d) \/ ListenFails(d) \/ BindFails(d)
    BY <1>1, <2>2, <2>3 DEF Moves, Start, Run, OpenPidFile, Lock, WritePid, LoadIdentity,
        GenerateIdentity, SaveIdentity, Listen, ClearSocket, BindSocket, Goto, Alive, DaemonInv, TypeOK
  <2>5. ~BindFails(d)
    BY <1>1 DEF BindFails, DaemonInv, FilesAreTheDaemons
  <2> QED
    BY <2>4, <2>5 DEF LockFails, ListenFails, LockTaken, PortTaken, HasLock, Listening, Alive
<1>2. ASSUME DaemonInv, [Next]_vars
      PROVE  [\A d \in Daemons :
                 (strays = {} /\ Alive(d) /\ ~Alive(d)' /\ d \notin signalled /\ crashes' = crashes)
                    => \E e \in Daemons \ {d} : Alive(e)]_vars
    BY <1>1, <1>2
<1> QED
    BY <1>2, OneDaemonPerUser, PTL DEF Spec, OnlyDaemonsBlockStart

\* load_or_generate gives every daemon the key that was saved first.
THEOREM IdentityNeverChanges == Spec => IdentityIsStable
<1>1. ASSUME DaemonInv, NEW d \in Daemons, strays = {}, ~diskFull, Listening(d)
      PROVE  identity = key[d]
    BY <1>1 DEF DaemonInv, FilesAreTheDaemons
<1>2. ASSUME DaemonInv, [Next]_vars, strays = {}, identity # None
      PROVE  identity' = identity
  <2>1. CASE UNCHANGED vars
    BY <2>1 DEF vars, diskVars
  <2>2. ASSUME NEW s \in Stops, StopMoves(s) PROVE identity' = identity
    BY <1>2, <2>2, OnlyOneStops DEF DaemonInv
  <2>3. ASSUME NEW d \in Daemons, Moves(d) PROVE identity' = identity
    <3>1. ~SaveIdentity(d)
        BY <1>2 DEF SaveIdentity, DaemonInv, FilesAreTheDaemons
    <3> QED
        BY <2>3, <3>1 DEF Moves, Start, Die, Run, OpenPidFile, Lock, LockFails, WritePid, LoadIdentity,
            GenerateIdentity, Listen, ListenFails, ClearSocket, BindSocket, BindFails, diskVars
  <2> QED
    BY <1>2, <2>1, <2>2, <2>3, NextIs
<1>3. DaemonInv => \A d \in Daemons :
                       (strays = {} /\ ~diskFull /\ Listening(d)) => identity = key[d]
    BY <1>1
<1>4. DaemonInv /\ [Next]_vars => [(strays = {} /\ identity # None) => identity' = identity]_vars
    BY <1>2
<1> QED
    BY <1>3, <1>4, OneDaemonPerUser, PTL DEF Spec, IdentityIsStable

\* When stop_daemon returns true, also for a pid file that was stale, empty or
\* absent, no daemon is left but those that a stop ran beside while they started,
\* or took for another program.
THEOREM StoppedMeansGone == Spec => StoppedIsGone
<1>1. ASSUME DaemonInv, [Next]_vars, NEW s \in Stops,
             stop[s].state # "done", stop'[s].state = "done", NEW d \in Daemons \ strays', Alive(d)
      PROVE  FALSE
  <2>1. StopMoves(s)
    BY <1>1, NextIs, OnlyOneMoves, OnlyOneStops DEF vars, DaemonInv
  <2>2. pc[d] = "serving" /\ d \notin strays
    BY <1>1, <2>1, SparedIs DEF DaemonInv
  <2>3. CASE ReadPid(s)
    <3>1. pidFile = None
        BY <1>1, <2>3 DEF ReadPid, DaemonInv, TypeOK
    <3>2. fd[d] = pidFile /\ fd[d] \in Daemons
        BY <1>1, <2>2 DEF DaemonInv, TypeOK, FilesAreTheDaemons
    <3> QED
        BY <3>1, <3>2, NoneAssumption
  <2>4. CASE StopStep(s)
    <3>1. stop[s].state = "removing"
        BY <1>1, <2>4 DEF StopStep, Probe, Kill, SeeExit, GiveUp, RemovePidFile, StopGoes,
            DaemonInv, TypeOK
    <3> QED
        BY <1>1, <2>2, <3>1 DEF DaemonInv, StopsMeetTheirDaemon, StopIsRunning
  <2> QED
    BY <2>1, <2>3, <2>4 DEF StopMoves
<1>2. ASSUME DaemonInv, [Next]_vars
      PROVE  [\A s \in Stops : (stop[s].state # "done" /\ stop'[s].state = "done")
                 => \A d \in Daemons \ strays' : ~Alive(d)]_vars
    BY <1>1, <1>2
<1> QED
    BY <1>2, OneDaemonPerUser, PTL DEF Spec, StoppedIsGone
=============================================================================
