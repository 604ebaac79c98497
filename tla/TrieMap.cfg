CONSTANTS
    NULL = NULL
    Keys <- MCKeys
    Vals = {v1, v2}
SPECIFICATION Spec
INVARIANT SizeCountsKeys
INVARIANT WellFormed
PROPERTY RefinesMap
