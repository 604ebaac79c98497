SPECIFICATION Spec
CONSTANTS
    NULL = NULL
    t1 = t1
    Conns = {c1, c2}
    Periodic <- OneTimer
    MaxEvents = 3
    May = {"rearm"}
PROPERTIES
    HandedOver
CHECK_DEADLOCK FALSE
