SPECIFICATION BrokerSpec
CONSTANTS
    NULL = NULL
    Acks = {"SUBACK", "UNSUBACK", "PUBACK", "PUBREC"}
    p1 = p1
    p2 = p2
    i1 = i1
    i2 = i2
    SysTopics <- SysNames
    StatTopics <- StatNames
    Ids <- OwnIds
    Peers = {p1, p2}
    ClientIds = {i1, i2}
    Fds = {3, 4}
    Closures = {c1, c2}
    Addrs = {a1, a2}
    May <- ChurnMay
    Subs <- ChurnSubs
    Pubs <- ChurnPubs
    MaxList = 3
SYMMETRY Symmetric
INVARIANTS
    BrokerTypeOK
PROPERTIES
    SubscribersServed
CHECK_DEADLOCK FALSE
