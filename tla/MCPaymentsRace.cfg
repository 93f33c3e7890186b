CONSTANTS
    Payments = {p1}
    Deliveries = {d1, d2}
    NoEvent = NoEvent
SPECIFICATION Spec
SYMMETRY Interchangeable
\* A payment is opened once: in the end every charge is paid and acknowledged.
CHECK_DEADLOCK FALSE
INVARIANTS
    MatchedFromTheStart
