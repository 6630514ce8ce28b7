CONSTANTS
    Workers = {w1, w2}
    MaxAttempts = 2
    RefundKeys = {k1}
    NoKey = NoKey
    MaxRefunds = 2
    WebhookIds = {e1, e2}
    MaxFaults = 2
    Nobody = Nobody
SPECIFICATION Spec
SYMMETRY Interchangeable
INVARIANTS TypeOK LedgerMatchesPayment JobMatchesPayment PendingPaymentHasLiveEvent BooksFollowProvider OneRefundPaid
PROPERTIES NoConfirmationLost ImplementsEscrow
CHECK_DEADLOCK FALSE
