SPECIFICATION Spec
CONSTANTS
    Workers = {w1, w2}
    Jobs = {j1}
    Nobody = Nobody
    Gone = Gone
    LeaseTime = 1
    MaxRecoveries = 1
    MaxFaults = 1
    Slow = {j1}
SYMMETRY Symmetry
INVARIANT ResultTextKept
