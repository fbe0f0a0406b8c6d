SPECIFICATION Spec
CONSTANTS
    MaxNumber = 14
    MaxAllocated = 7
    StreamBase = 7
    MaxPerStream = 2
    None = None
    Bases <- MCBases
INVARIANT EncryptedReadsBack
CHECK_DEADLOCK FALSE
