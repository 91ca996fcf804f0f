SPECIFICATION Spec
CONSTANTS
    Requests = {r1, r2}
    UploadIds = {base, u1, u2}
    Base = base
    Keys = {k1, k2}
    BaseKey = k0
    Contents = {small, large}
    small = small
    large = large
    Size <- MCSize
    Targets = {NewDocument, base}
    NewDocument = NewDocument
    None = None
    TTL = 1
    MaxCleanups = 1
    MaxPending = 2
    MaxDocuments = 2
    MaxVersions = 2
    MaxMatterVersions = 4
    MaxBytes = 4
    MaxRevision = 4
    MaxFaults = 0
SYMMETRY Symmetry
CONSTRAINT OfOneKind
INVARIANT QuotasHold
