SPECIFICATION SimilaritySpec
CONSTANTS
    Users = {"u1", "u2"}
    Items <- MCItems
    MaxRating = 1
    MaxRows = 2
    NeighborCount = 1
CHECK_DEADLOCK FALSE
INVARIANTS
    StatsFitRatings
    AgreesWithRefit
    VariantsAgree
