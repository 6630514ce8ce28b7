CONSTANTS
    Uploads = {u1, u2, u3, u4}
    Max = 2
    Backend = "local"
    r1 = r1
    r2 = r2
    LimitSetup <- MCLimitSetup
    FormSetup <- MCFormSetup
    WellFormedKeys = {"a", "b", "c"}
    Verticals <- MCVerticals
    Payloads <- MCPayloads
    MaxLength = 3
    MaxAttributes = 3
    Jobs = {"a", "b", "c", "d"}
    Job <- MCJob
    Applications <- MCApplications
    Contexts <- MCContexts
    Distance <- MCDistance
    Decay <- MCDecay
    Today = 180
    PageLimit = 2
    MaxRequests = 2
SPECIFICATION RequestsSpec
INVARIANTS ParsersSound LimitsSound JobsSound AttributesSound RankingSound
PROPERTIES WaitersServed PickedAreShown
CHECK_DEADLOCK FALSE
