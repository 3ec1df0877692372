CONSTANTS
    Sessions = {s1, s2}
    Nobody = Nobody
    Recipients = {r1, r2}
    MaxAttempts = 2
    BatchLimit = 2
    MaxTroubles = 0
    MaxMessages = 2
    MaxLost = 1
CHECK_DEADLOCK FALSE
SPECIFICATION CampaignSpec
PROPERTIES
    UnfinishedSendsAreNotRetried
