CONSTANTS
    Users = {u1, u2}
    Variants = {v1, v2}
    Looks = {}
    Sessions = {s1, s2}
    Nobody = Nobody
    NoUser = NoUser
    InitialStock = 1
    InitialVariant <- MCInitialVariant
    EditedRows = {}
    SellerStatuses = {"CANCELLED"}
    Quantities = {1}
    CartChanges = {}
    MaxOrderNumber = 2
    MaxAdded = 2
    MaxEdits = 0
    MaxAborts = 2
CHECK_DEADLOCK FALSE
SPECIFICATION OrderEndsSpec
PROPERTIES
    PaymentsSettle
    RequestsEnd
