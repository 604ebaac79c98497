SPECIFICATION FairSpec
CONSTANTS
    NULL = NULL
    Acks = {"ACK"}
    p1 = p1
    p2 = p2
    i1 = i1
    i2 = i2
    Peers = {p1}
    ClientIds = {i1}
    Fds = {3, 4, 5}
    Closures = {c1, c2, c3}
    Addrs = {a1, a2}
    Ids <- LoneIds
    May <- LoneMay
PROPERTIES
    Reconnects
CHECK_DEADLOCK FALSE
