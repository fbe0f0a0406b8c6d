CONSTANTS
    Workers = {w1, w2}
    Main = main
    NumJobs = 2
    None = none
SPECIFICATION FairSpec
PROPERTIES
    KeepsContract
    CallReturns
