CONSTANTS
    Objects = {1}
    Offsets = {1, 2, 3}
    Files <- MCFiles
    None = none
SPECIFICATION Spec
INVARIANTS
    SectionsMergeOnce
    NewestRevisionWins
    HistoryIsIsolated
    ReplayAgrees
