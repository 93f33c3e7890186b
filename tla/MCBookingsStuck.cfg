CONSTANTS
    s1 = s1
    s2 = s2
    u1 = u1
    p1 = p1
    Requests = {r1, r2}
    SlotIds = {s1, s2}
    BookingIds = {b1, b2}
    Renters = {u1}
    Properties = {p1}
    SlotProperty <- OneProperty
    SlotStart <- OneHour
    BookingRenter <- OneRenter
    MaxPending = 2
    MaxTime = 0
    NoSlot = NoSlot
    NoBooking = NoBooking
SPECIFICATION Spec
SYMMETRY Twins
\* The rows run out: with fewer ids than the database has, all may be used up.
CHECK_DEADLOCK FALSE
INVARIANTS
    CancelGetsThrough
