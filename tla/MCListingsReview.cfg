CONSTANTS
    Listings = {l1}
    Requests = {r1, r2}
    MaxEdits = 1
    NoListing = NoListing
SPECIFICATION Spec
SYMMETRY Interchangeable
INVARIANTS
    PublicIsApproved
