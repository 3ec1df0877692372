CONSTANTS
    o1 = o1
    o2 = o2
    i1 = i1
    i2 = i2
    Orders = {o1, o2}
    Items = {i1, i2}
    OrderOf <- MCOrderOf
    VariantOf <- MCVariantOf
    Bought <- MCBought
    Returnable = {i1, i2}
    Variants = {v1}
    InitialStock <- MCInitialStock
    SellerStatuses = {"SHIPPED", "DELIVERED"}
    Sessions = {s1, s2}
    Nobody = Nobody
    NoOrder = NoOrder
    Files = {f1, f2}
    MaxAttachments = 1
    MaxElsewhere = 1
    MaxFailures = 1
SPECIFICATION Spec
SYMMETRY Symmetry
INVARIANTS
    TypeOK
    StockMatchesRestocks
    RestockedWithinPurchase
    EvidenceIsKept
    FilesAreAccounted
PROPERTIES
    SettledRequestIsFinal
    ClosedWindowStaysClosed
