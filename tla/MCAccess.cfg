CONSTANTS
    Payments = {p1, p2}
    Requests = {r1, r2}
    Duration = 2
    CacheTTL = 2
    RedisDelay = 1
    MaxTime = 6
    NoPayment = NoPayment
SPECIFICATION Spec
SYMMETRY Interchangeable
INVARIANTS
    TypeOK
    AdmittedWhilePaid
