CONSTANTS
    Engines = {e1, e2}
    Ids = {i1, i2, i3}
    Requests = {r1, r2}
    Maximum = 2
    TTL = 2
    MaxClock = 3
    Unnamed = Unnamed
    Unknown = Unknown
    Nobody = Nobody
SPECIFICATION Spec
SYMMETRY RouterSymmetry
INVARIANTS TypeOK NothingForgottenEarly FollowUpsReachOwner
PROPERTIES NoExpiredRoute
