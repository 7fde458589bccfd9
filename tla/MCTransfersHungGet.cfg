\* A get handled after the Disconnected event of its peer.
SPECIFICATION FairSpec
CONSTANTS
    s1 = s1
    s2 = s2
    l1 = l1
    l2 = l2
    Servers = {s1}
    Links = {l1}
    ServerOf <- MCServerOf
    NoLink = NoLink
    Resources = {r1}
    Size = 2
    Clients = {c1}
    MaxLost = 1
    ReadTimeouts = FALSE
    ServeFaults = FALSE
    DiskFaults = FALSE
CHECK_DEADLOCK FALSE
PROPERTIES
    DisconnectUnblocksGets
