\* Two dials one way and one the other, a loss or a restart, read timeouts.
SPECIFICATION FairSpec
CONSTANTS
    ann = ann
    bob = bob
    annbob = annbob
    annbob2 = annbob2
    bobann = bobann
    bobann2 = bobann2
    NoConn = NoConn
    Nodes <- Pair
    Rank <- MCRank
    Dialer <- MCDialer
    Acceptor <- MCAcceptor
    Conns <- Redials
    MaxFaults = 1
    Restartable = {ann}
    ReadTimeouts = TRUE
CHECK_DEADLOCK FALSE
INVARIANTS
    LinkInv
    CalmEndsAgree
PROPERTIES
    CrossedDialsSettle
    HandshakesEnd
    TeardownCompletes
