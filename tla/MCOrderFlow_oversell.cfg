CONSTANTS
    Users = {u1, u2}
    Variants = {v1}
    Looks = {}
    Sessions = {s1, s2}
    Nobody = Nobody
    NoUser = NoUser
    InitialStock = 1
    EditedStock = 2
    InitialVariant <- MCInitialVariant
    EditedRows <- MCNoEdits
    SellerStatuses = {}
    Quantities = {1}
    CartChanges = {}
    MaxOrderNumber = 2
    MaxAdded = 1
    MaxEdits = 0
    MaxAborts = 0
CHECK_DEADLOCK FALSE
SPECIFICATION Spec
PROPERTIES
    SellsOnlyAvailable
