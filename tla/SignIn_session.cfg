CONSTANTS
    NotAnInteger = NotAnInteger
    NULL = NULL
    Keep = Keep
    t1 = t1
    t2 = t2
    Users = {"ada"}
    Tokens <- MCTokens
    Requests <- MCRequests
    Ttl = 2
    AbsoluteTtl = 3
    MaxTime = 2
    MaxMoves = 2
SPECIFICATION LiveSpec
CHECK_DEADLOCK FALSE
INVARIANTS
    SessionTypeOK
    CookieHasUser
PROPERTIES
    RevokedStaysRevoked
    LiveCookieIsKept
    AuthSettles
