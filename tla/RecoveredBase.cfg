CONSTANTS
    MaxNumber = 6
    MaxRevisions = 3
    Root = 1
    Bases <- DamagedBases
    RefSets <- MCRefSets
    None = none
SPECIFICATION Spec
INVARIANT BaseSurvives
CHECK_DEADLOCK FALSE
