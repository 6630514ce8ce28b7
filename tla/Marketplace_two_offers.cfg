CONSTANTS
    Providers = {p1, p2}
    Nobody = Nobody
    Funders = {f1}
    MaxOffers = 2
    MaxApplications = 1
SPECIFICATION Spec
INVARIANT OneOfferAccepted
CHECK_DEADLOCK FALSE
