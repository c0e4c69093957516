CONSTANTS
    N = 2
    Parallelism = 1
    Workers = {w1}
    WriteFaults = TRUE
SPECIFICATION FairSpec
INVARIANTS TypeOK BatchedStart DesiredIsLive OrphansOnlyAfterFault
PROPERTIES ImplementsDeployment EngineSettles DeathDegrades StopLeadsToExit
