SPECIFICATION Spec
CONSTANTS
    Requests = {r1, r2}
    Tokens = {t1, t2, t3}
    Lifetime = 2
    MaxTime = 2
    NoToken = NoToken
SYMMETRY Interchangeable
\* Tokens and time run out.
CHECK_DEADLOCK FALSE
INVARIANTS
    TypeOK
    AtMostOneAccount
    RevokedStaysRevoked
    OneSuccessorUnlessOverlap
    CookieWorks
PROPERTIES
    RevokedIsRejected
