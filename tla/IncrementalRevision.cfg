CONSTANTS
    MaxNumber = 6
    MaxRevisions = 3
    Root = 1
    Bases <- MCBases
    RefSets <- MCRefSets
    None = none
SPECIFICATION Spec
INVARIANTS
    TypeOK
    FreshIds
    NoDanglingReference
    RetiredStaysFree
PROPERTIES
    InventoryIsExact
    IsTransactional
CHECK_DEADLOCK FALSE
