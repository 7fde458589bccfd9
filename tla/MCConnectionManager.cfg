\* Safety, refinement and progress: a link and its rival or successor, 2 senders,
\* both tie-break outcomes.
SPECIFICATION FairSpec
CONSTANTS
    low = low
    high = high
    Peers <- MCPeers
    Outranked <- MCOutranked
    Links = {l1, l2}
    Callers = {c1, c2}
    NoLink = NoLink
INVARIANTS
    IndInv
    MapsAgree
    SendReachesAddressee
    OnlyEvictionUntracks
PROPERTIES
    StaleCleanup
    MissMeansReplacedOrGone
    ImplementsPeerTable
    EndedLinkIsForgotten
    SendReturns
