CONSTANTS
    Users = {u1}
    Variants = {v1, v2}
    Looks = {look}
    Sessions = {s1}
    Nobody = Nobody
    NoUser = NoUser
    InitialStock = 2
    EditedStock = 1
    InitialVariant <- MCInitialVariant
    EditedRows <- MCEditedRows
    SellerStatuses = {"CANCELLED"}
    Quantities = {1, 2}
    CartChanges = {"quantity", "selection", "removal"}
    MaxOrderNumber = 2
    MaxAdded = 2
    MaxEdits = 1
    MaxAborts = 0
CHECK_DEADLOCK FALSE
SPECIFICATION Spec
PROPERTIES
    SellsOnlyAvailable
    ImplementsLedger
