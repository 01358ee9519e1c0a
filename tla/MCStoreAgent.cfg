SPECIFICATION MCSpec
CONSTANTS
    NApps = 2
    Listings <- MCListings
    Widening <- MCWidening
    Clients = {shell, ctl}
    Slots = {1, 2}
    MaxBatch = 2
    MaxAuthorizations = 6
    MaxRequests = 6
INVARIANTS OperationsSound
PROPERTIES  CatalogNeverGoesBack OperationsSettle
CHECK_DEADLOCK FALSE
