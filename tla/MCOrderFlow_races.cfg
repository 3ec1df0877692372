CONSTANTS
    Users = {u1, u2}
    Variants = {v1}
    Looks = {}
    Sessions = {s1, s2}
    Nobody = Nobody
    NoUser = NoUser
    InitialStock = 2
    EditedStock = 1
    InitialVariant <- MCInitialVariant
    EditedRows <- MCEditedRows
    SellerStatuses = {"DELIVERED", "CANCELLED"}
    Quantities = {1}
    CartChanges = {"quantity", "selection", "removal"}
    MaxOrderNumber = 2
    MaxAdded = 1
    MaxEdits = 1
    MaxAborts = 1
CHECK_DEADLOCK FALSE
SPECIFICATION Spec
SYMMETRY Symmetry
INVARIANTS
    TypeOK
    ReleasedExactlyOnFailure
    ActivePaymentKeepsOrderNew
    NothingBoughtTwice
PROPERTIES
    SettledPaymentIsFinal
    StatusFollowsPayment
    OnlyStaleSalesLoseUnits
