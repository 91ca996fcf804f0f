SPECIFICATION Spec
CONSTANTS
    Clients = {c1, c2}
    Actors = {owner, reviewer}
    owner = owner
    reviewer = reviewer
    second = second
    Role <- MCRole
    Snapshots = {s1, s2}
    Outputs = {o1, o2}
    Formats = {pdf}
    Asked = {"output_approved", "active"}
    Start = 1
    MaxRevision = 3
    MaxFaults = 1
    None = None
INVARIANT ManifestsKept
CHECK_DEADLOCK FALSE
