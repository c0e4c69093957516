CONSTANTS
    N = 1
    Parallelism = 1
    Workers = {w1}
    WriteFaults = TRUE
    MaxExits = 1
    MaxProbes = 0
    MaxLost = 1
SPECIFICATION FairSpec
PROPERTIES FailedEngineIsReaped PeerLossIsNoticed WorkersFollow
