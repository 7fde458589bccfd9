\* Two dials the same way: the ends may keep different ones.
SPECIFICATION FairSpec
CONSTANTS
    ann = ann
    bob = bob
    annbob = annbob
    annbob2 = annbob2
    bobann = bobann
    bobann2 = bobann2
    NoConn = NoConn
    Nodes <- Pair
    Rank <- MCRank
    Dialer <- MCDialer
    Acceptor <- MCAcceptor
    Conns <- SameWayDials
    MaxFaults = 0
    Restartable = {}
    ReadTimeouts = FALSE
CHECK_DEADLOCK FALSE
INVARIANTS
    QuietEndsAgree
