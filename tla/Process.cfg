CONSTANTS
    Helpers = {h1, h2, h3}
    Holders = {h1, h2}
    Limit = 2
    MaxStops = 2
    MaxOutput = 6
SPECIFICATION FairSpec
INVARIANTS ReturnedMeansDrained LinesKept
PROPERTIES StopFromRunningReturns IsAChild
