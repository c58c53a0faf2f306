CONSTANTS
    c1 = c1
    c2 = c2
    boot = boot
    nobody = nobody
    red = red
    blue = blue
    bad = bad
    none = none
    Reloaders <- MCReloaders
    Operators <- MCOperators
    Contents <- MCContents
    Boot = boot
    Nobody = nobody
    Unreadable = bad
    None = none
    AutoActivate = TRUE
    MaxVersions = 1
    VersionBound = 2
    AuditBound = 1
SPECIFICATION FairSpec
INVARIANTS
    AuditedBeforeAcknowledged
    NoEditLost
PROPERTY
    ReloadsSettle
