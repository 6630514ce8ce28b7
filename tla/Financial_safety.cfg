CONSTANTS
    Payments = {p1, p2}
    MaxCents = 40
SPECIFICATION Spec
SYMMETRY Interchangeable
INVARIANTS TypeOK BooksFollowStatus OnlyFundingRefused
CHECK_DEADLOCK FALSE
