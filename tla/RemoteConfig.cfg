CONSTANTS
    Nodes = {n1, n2}
    Docs = {good, other, bad}
    Valid = {good, other}
    MaxRedirects = 2
    MaxBoots = 3
    None = None
    Torn = Torn
SPECIFICATION Spec
INVARIANTS RunsWhatItFetched FileIsWhole
PROPERTIES ParsedBeforePersisted
