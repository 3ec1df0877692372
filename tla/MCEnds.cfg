CONSTANTS
    Sessions = {s1, s2}
    Nobody = Nobody
    Keys = {k1, k2}
    Payloads = {p1}
    NoKey = NoKey
    NoPayload = NoPayload
    CommitsExpiry = FALSE
    MaxExecutions = 2
    Recipients = {r1, r2}
    MaxAttempts = 2
    BatchLimit = 2
    MaxTroubles = 1
    MaxMessages = 1
    MaxLost = 1
    Events = {e1}
    Consumers = {seller, customer}
    Tokens = {t1, t2, t3, t4, t5}
    NoToken = NoToken
    NoEvent = NoEvent
    BatchSize = 1
    MaxRetries = 0
    MaxCrashes = 1
    MaxWaits = 0
    MaxStalls = 1
CHECK_DEADLOCK FALSE
SPECIFICATION EndsSpec
PROPERTIES
    RequestsAnswered
    CampaignsEnd
    EventsSettle
