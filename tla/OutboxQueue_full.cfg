CONSTANTS
    Workers = 1
    Lease = 1
    MaxEvents = 5
    MaxNotifications = 2
SPECIFICATION Spec
PROPERTY PaymentServed
