CONSTANTS
    Payments = {p1}
    Deliveries = {d1, d2}
    NoEvent = NoEvent
SPECIFICATION FairSpec
\* A payment is opened once: in the end its charge is paid and acknowledged.
CHECK_DEADLOCK FALSE
INVARIANTS
    TypeOK
    GrantedOnceIffSuccessful
    SuccessfulOnlyIfPaid
    PaidIsNotForgotten
PROPERTIES
    SuccessfulIsFinal
    ImplementsLedger
    PaidIsGranted
