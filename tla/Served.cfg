SPECIFICATION PipelineSpec
CONSTANTS
    Tables = {t1}
    Contents = {c1, c2}
    Blocked = {}
    Inputs = {i1}
    Identities = {m1}
    Bodies = {b1, b2}
    MaxEdits = 2
    BatchSize = 1
    MaxRetries = 0
    MaxPushes = 2
    MaxFaults = 2
    MaxLate = 1
INVARIANTS ServedWasApproved ServedIsTheTree
SYMMETRY Symmetry
