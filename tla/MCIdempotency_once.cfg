CONSTANTS
    Keys = {k1, k2}
    Payloads = {p1, p2}
    Sessions = {s1, s2}
    NoKey = NoKey
    NoPayload = NoPayload
    CommitsExpiry = TRUE
    MaxExecutions = 3
SPECIFICATION Spec
SYMMETRY Symmetry
INVARIANTS
    TypeOK
    ReplaysAreFaithful
PROPERTIES
    ExecutesOnce
    ValidRecordsStay
