CONSTANTS
    Sessions = {s1, s2}
    Nobody = Nobody
    Recipients = {r1, r2}
    MaxAttempts = 2
    BatchLimit = 2
    MaxTroubles = 2
    MaxMessages = 2
    MaxLost = 1
    Customers = {c1, c2}
    PromoRows <- MCPromoRows
    Subtotals = {99, 101}
    MaxPromoEdits = 2
    MaxUsages = 2
    Registrations = {g1, g2}
    NoRegistration = NoRegistration
    MaxMishaps = 2
    ReceiptFile = {f1, f2, f3}
    NoFile = NoFile
    MaxFileFaults = 1
CHECK_DEADLOCK FALSE
SPECIFICATION SupportSpec
SYMMETRY Symmetry
INVARIANTS
    TypesOK
    SentOnceUnlessForgotten
    ClosedMeansFinished
    VerifiedOwnsTheCredential
    SeenTogether
    AcknowledgedMeansArrived
    ReceiptIsKept
PROPERTIES
    FinishedDeliveryIsFinal
    UsagesWithinLimits
    BillsFollowTheRow
