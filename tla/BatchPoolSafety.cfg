CONSTANTS
    Workers = {w1, w2}
    Main = main
    NumJobs = 3
    None = none
SPECIFICATION Spec
SYMMETRY WorkerSymmetry
INVARIANTS
    TypeOK
    SnapshotsAreHonest
    ProgressMatchesResults
    FailureVisibleAfterStop
    EachJobInOnePlace
