SPECIFICATION Spec
CONSTANTS
    MaxOperations = 2
    MaxBatches = 1
    MaxReordered = 3
    MaxImport = 2
    None = None
    Documents <- MCUnsharedResources
    Sources <- MCSources
    Imported <- MCImported
    Boxes <- MCBoxes
INVARIANT PlanIsExact
CHECK_DEADLOCK FALSE
