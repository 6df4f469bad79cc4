SPECIFICATION AccessSpec
CONSTANTS
    Users = {adm, par}
    Staff = {adm}
    Sids = {s1, s2, s3}
    Requests = {r1, r2}
    Nobody = Nobody
    None = None
    SessionTTL = 2
    ImpTTL = 2
    Admins = {a1, a2}
    CacheTTL = 2
    FirstExpiry = 1
    Expiries = {3}
    Horizon = 3
    MaxEdits = 2
INVARIANTS TypeInv IndexNamesOwnSession
PROPERTIES SessionsKept TokensKept
SYMMETRY NameSymmetry
CHECK_DEADLOCK FALSE
