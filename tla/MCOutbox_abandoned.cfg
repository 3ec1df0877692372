CONSTANTS
    Events = {e1, e2}
    Consumers = {seller}
    ConsumersOf <- MCConsumersOf
    Workers = {w1, w2}
    Tokens = {t1, t2, t3, t4, t5}
    NoToken = NoToken
    NoEvent = NoEvent
    MaxAttempts = 2
    BatchSize = 2
    MaxRetries = 0
    MaxCrashes = 0
    MaxWaits = 1
    MaxStalls = 0
CHECK_DEADLOCK FALSE
SPECIFICATION Spec
PROPERTIES
    OnlyAbandonedClaimsRecover
