\* Starts, a stop and a restart at any time, with and without a full disk, and
\* processes that die anywhere.
SPECIFICATION Spec
CONSTANTS
    d1 = d1
    d2 = d2
    d3 = d3
    s1 = s1
    s2 = s2
    Daemons = {d1, d2, d3}
    Stops = {s1, s2}
    None = None
    Port <- OneOnOwnPort
    StopFirst <- LastByRestart
    MaxCrashes = 1
CHECK_DEADLOCK FALSE
INVARIANTS
    DaemonInv
    ServingIsStoppable
PROPERTIES
    ServingKeepsSocket
    OnlyDaemonsBlockStart
    IdentityIsStable
    StoppedIsGone
