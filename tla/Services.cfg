SPECIFICATION ServicesSpec
CONSTANTS
    Threads = {t1, t2}
    key1 = key1
    key2 = key2
    key3 = key3
    None = None
    Files <- TreeFiles
    MaxPages = 3
    PagesPerNode = 2
    FlatPages = 2
    MaxCalls = 2
    MaxNumber = 8
    MaxOffset = 6
    BufferSize = 3
    MaxStreams = 2
    MaxRequests = 3
    Fields = {1, 2}
    Originals <- SignedBefore
    SignOptions <- Signers
    MaxRevisions = 4
INVARIANTS
    TypesOK
    SignedTermsHold
    PoolsKeepAccount
    PageIndexIsExact
    PagesAsInTree
    CutsDoNotMatter
    StreamedFileSound
    ScanResultsExact
    FormsKeepUp
    StructureSurvives
PROPERTIES
    AnswersFromFile
    CallsReturn
CHECK_DEADLOCK FALSE
