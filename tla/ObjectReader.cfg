SPECIFICATION Spec
CONSTANTS
    MaxNumber = 4
    MaxDepth = 2
    MaxParse = 1
    CacheBytes = 3
    None = None
    Gens <- MCGens
    Files <- MCFiles
    Questions <- MCQuestions
INVARIANTS
    GuardIsStack
    NullOnlyIfSaid
    DecryptedOnce
    StreamCacheSound
PROPERTY AnswersAgree
