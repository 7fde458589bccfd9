\* A displaced link ends after a get went out on its successor.
SPECIFICATION Spec
CONSTANTS
    s1 = s1
    s2 = s2
    l1 = l1
    l2 = l2
    Servers = {s1}
    Links = {l1, l2}
    ServerOf <- MCServerOf
    NoLink = NoLink
    Resources = {r1}
    Size = 2
    Clients = {c1}
    MaxLost = 1
    ReadTimeouts = FALSE
    ServeFaults = FALSE
    DiskFaults = FALSE
CHECK_DEADLOCK FALSE
PROPERTIES
    LiveTransfersSurvive
