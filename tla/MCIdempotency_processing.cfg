CONSTANTS
    Keys = {k1}
    Payloads = {p1}
    Sessions = {s1, s2}
    NoKey = NoKey
    NoPayload = NoPayload
    CommitsExpiry = TRUE
    MaxExecutions = 2
SPECIFICATION Spec
PROPERTIES
    StillProcessingIsTrue
