SPECIFICATION MCSpec
CONSTANTS
    r1 = r1
    r2 = r2
    Releases = {r1, r2}
    NoRelease = none
    AppOf <- MCAppOf
    EventIds = {1, 2}
    Workers = {w1, w2}
    MaxAttempts = 2
    MaxCrashes = 1
INVARIANTS PublisherSound CatalogCatchesUp
PROPERTIES PublicationSettles
