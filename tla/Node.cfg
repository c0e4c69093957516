CONSTANTS
    N = 2
    Parallelism = 2
    Workers = {}
    WriteFaults = TRUE
SPECIFICATION NodeFairSpec
INVARIANTS NodeTypeOK HealthyMeansServing ReadyPhaseIsHonest CleanExitMeansServed
PROPERTIES NoRestart HangIsNoticed
