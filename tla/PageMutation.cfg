SPECIFICATION Spec
CONSTANTS
    MaxOperations = 2
    MaxBatches = 2
    MaxReordered = 3
    MaxImport = 2
    None = None
    Documents <- MCDocuments
    Sources <- MCSources
    Imported <- MCImported
    Boxes <- MCBoxes
INVARIANTS
    PassesValidation
PROPERTIES
    AttributesPreserved
    NoDanglingReference
CHECK_DEADLOCK FALSE
