CONSTANTS
    Workers = {w1}
    MaxAttempts = 2
    RefundKeys = {k1}
    NoKey = NoKey
    MaxRefunds = 2
    WebhookIds = {}
    MaxFaults = 0
    Nobody = Nobody
SPECIFICATION Spec
INVARIANT NoDeadRefund
CHECK_DEADLOCK FALSE
