SPECIFICATION Spec
CONSTANTS
    MaxNumber = 14
    MaxAllocated = 7
    StreamBase = 7
    MaxPerStream = 2
    None = None
    Bases <- MCBases
INVARIANTS
    EveryObjectFound
    ReadableInClear
    NumberingSound
CHECK_DEADLOCK FALSE
