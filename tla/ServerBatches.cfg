SPECIFICATION ServerFairSpec
CONSTANTS
    NULL = NULL
    t1 = t1
    Conns = {c1, c2}
    Periodic <- OneTimer
    MaxEvents = 2
    Commands <- MCCommands
    Files <- MCFiles
    Beginnings <- MCBeginnings
    Kilo = 4
    SOMAXCONN = 100
    May = {"rearm", "forget", "hangup"}
INVARIANTS
    TypeOK
    OneShot
    
    FamilyFits
PROPERTIES
    TasksRun
    Reached
    StatsPublished
CHECK_DEADLOCK FALSE
