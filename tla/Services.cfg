SPECIFICATION Spec
CONSTANTS
    w1 = w1  w2 = w2  k1 = k1  k2 = k2  s1 = s1  s2 = s2
    Workers = {w1, w2}
    Keys = {k1, k2}
    Selections = {s1, s2}
    MaxRevision = 2
    Requests <- MCRequests
    Slots = 1
    MaxAttempts = 2
    MaxActive = 1
    MaxFaults = 1
    None = None
    Users = {u1, u2}
    SessionKeys = {k1}
    EventIds = {e1, e2}
    MaxEvents = 2
    MaxPlayFaults = 1
    MaxChanges = 2
    MaxLinks = 2
    Documents = {d1}
    MaxVersion = 2
    Packages = {p1, p2, p3}
    Parent <- MCParent
    p1 = p1  p2 = p2  p3 = p3
    MaxCommits = 6
    Scenarios <- MCPlayedScenarios
    MaxAdvance = 5
    Horizon = 10
    Tabs = {t1}
    LibraryKeys = {1, 2, 3}
    OpKeys = {1, 2, 3}
    Contents = {x, y}
    Paths = {p1}
    MaxSends = 3
    MaxLibraryFaults = 1
    Names = {n1}
    MaxImport = 1
    MaxPosts = 2
    MaxContactFaults = 1
CONSTRAINT Small
SYMMETRY Symmetry
INVARIANTS
    ServicesTypeOK
    CallsWithinAttempts
    CoveredCallsWithinSlots
    OneOutcomePerRevision
    StateIsLog
    AckedIsDone
    OneWayBack
    SessionsOfThisPassword
    PromisedLinkLives
    GuardsAgree
    PackageLine
    ChunksAgree
    NoticesTrue
    VersionsBacked
    ReceiptsTellContacts
    MatchesReviewed
PROPERTY OnlyHolderSettlesJob
CHECK_DEADLOCK FALSE
