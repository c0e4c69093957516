CONSTANTS
    N = 2
    Parallelism = 1
    Workers = {w1}
    WriteFaults = FALSE
    MaxExits = 1
    MaxProbes = 1
    MaxLost = 1
SPECIFICATION Spec
INVARIANTS ReleasedBeforeLaunch
PROPERTIES StoppedIsFinal HeadAfterPeers
