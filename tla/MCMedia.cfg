SPECIFICATION FairSpec
CONSTANTS
    Requests = {r1, r2}
    Images = {1, 2, 3}
    Positions = {0}
    Arrangements <- Either
    MaxImages = 1
    Unlisted = Unlisted
    NoImage = NoImage
CHECK_DEADLOCK FALSE
INVARIANTS TypeOK AtMostOnePrimary PrimaryUnlessOvertaken ImagesOvershootBounded DeadlockMovesPrimary
PROPERTIES ImplementsGallery EveryRequestEnds
