CONSTANTS
    Listings = {l1}
    Requests = {r1, r2, r3}
    MaxEdits = 2
    NoListing = NoListing
SPECIFICATION Spec
SYMMETRY Interchangeable
INVARIANTS
    TypeOK
    SearchMatchesPage
    ApprovedContentUnlessLostUpdate
PROPERTIES
    ImplementsReview
