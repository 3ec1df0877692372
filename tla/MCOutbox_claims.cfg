CONSTANTS
    Events = {e1}
    Consumers = {seller, customer}
    ConsumersOf <- MCConsumersOf
    Workers = {w1, w2}
    Tokens = {t1, t2, t3, t4, t5}
    NoToken = NoToken
    NoEvent = NoEvent
    MaxAttempts = 2
    BatchSize = 1
    MaxRetries = 1
    MaxCrashes = 1
    MaxWaits = 1
    MaxStalls = 1
CHECK_DEADLOCK FALSE
SPECIFICATION Spec
SYMMETRY Symmetry
INVARIANTS
    TypeOK
    OwnedClaimsAreCurrent
    EventMatchesDeliveries
PROPERTIES
    KeepsPromise
    FailuresCountOnce
