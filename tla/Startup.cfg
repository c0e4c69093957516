CONSTANTS
    MaxPort = 7
    FirstPort = 5
    MaxModels = 4
    k1 = k1
    k2 = k2
    Keys = {k1, k2}
    MaxLives = 2
    None = None
    Families <- MCFamilies
    SshChoices <- MCSshChoices
SPECIFICATION StartSpec
INVARIANTS AcceptedIsUsable RaisedNamesAClash EnginesFit ValidateAgrees SshdServesThisLife
CHECK_DEADLOCK FALSE
