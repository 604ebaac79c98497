SPECIFICATION FairSpec
CONSTANTS
    NULL = NULL
    Acks = {"ACK"}
    p1 = p1
    p2 = p2
    i1 = i1
    i2 = i2
    Peers = {p1, p2}
    ClientIds = {i1, i2}
    Fds = {3, 4}
    Closures = {c1, c2, c3}
    Addrs = {a1, a2, a3}
    Ids <- OwnIds
    May <- GoodMay
INVARIANTS
    NoDangling
PROPERTIES
    Isolation
    RepliesSent
CHECK_DEADLOCK FALSE
