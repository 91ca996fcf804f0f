SPECIFICATION DossierSpec
CONSTANTS
    UploadIds = {base, u1}
    Base = base
    Keys = {k1, k2}
    BaseKey = k0
    Contents = {small}
    Targets = {NewDocument}
    NewDocument = NewDocument
    None = None
    TTL = 1
    MaxCleanups = 1
    MaxPending = 2
    MaxDocuments = 2
    MaxVersions = 3
    MaxMatterVersions = 4
    MaxBytes = 4
    MaxRevision = 3
    MaxUploadFaults = 1
    Workers = {w1, w2}
    Jobs = {j1, j2}
    Nobody = Nobody
    Gone = Gone
    LeaseTime = 1
    MaxRecoveries = 1
    MaxFaults = 2
    Slow = {j2}
INVARIANTS
    TypeOK
    ReadyHasResult
    TextKeptInTime
    LeaseExclusive
PROPERTIES
    OnlyHolderSettles
    JobsSettle
    ReservationsSettle
