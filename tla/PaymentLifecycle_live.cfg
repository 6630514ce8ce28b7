CONSTANTS
    Workers = {w1, w2}
    MaxAttempts = 2
    RefundKeys = {k1}
    NoKey = NoKey
    MaxRefunds = 2
    WebhookIds = {}
    MaxFaults = 1
    Nobody = Nobody
SPECIFICATION FairSpec
PROPERTIES HoldResolves EndsResolve
CHECK_DEADLOCK FALSE
