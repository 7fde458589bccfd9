\* Two servers with one link each, which may be lost.
SPECIFICATION FairSpec
CONSTANTS
    s1 = s1
    s2 = s2
    l1 = l1
    l2 = l2
    Servers = {s1, s2}
    Links = {l1, l2}
    ServerOf <- MCServerOf
    NoLink = NoLink
    Resources = {r1}
    Size = 2
    Clients = {c1, c2}
    MaxLost = 1
    ReadTimeouts = FALSE
    ServeFaults = FALSE
    DiskFaults = FALSE
CHECK_DEADLOCK FALSE
INVARIANTS
    FlowInv
    FilesAreWhole
PROPERTIES
    LiveTransfersSurvive
    DisconnectSparesOthers
    LiveGetIsAnswered
