CONSTANTS
    Helpers = {h1, h2}
    Holders = {h1}
    Limit = 2
    MaxStops = 2
    MaxOutput = 1
SPECIFICATION Spec
INVARIANTS NoStragglers
