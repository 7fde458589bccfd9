\* Aliases and answers: two commands, two arrivals, two address changes.
SPECIFICATION Spec
CONSTANTS
    Peers = {p1, p2}
    Addrs = {a1, a2, a3}
    Clients = {c1, c2}
    MaxArrivals = 2
    MaxMoves = 2
SYMMETRY PeerSymmetry
CHECK_DEADLOCK FALSE
INVARIANTS
    ControlInv
    NoCommandIsForgotten
    ConnectedHasAlias
PROPERTIES
    AliasesAreStable
    ScanReportsTheHeard
