CONSTANTS
    Providers = {p1, p2}
    Nobody = Nobody
    Funders = {f1, f2}
    MaxOffers = 3
    MaxApplications = 2
SPECIFICATION Spec
SYMMETRY Interchangeable
INVARIANTS TypeOK OneHire PayeeWasChosen TakenHasProvider
PROPERTIES MoneyPinsProvider DecisionsAreFinal
CHECK_DEADLOCK FALSE
