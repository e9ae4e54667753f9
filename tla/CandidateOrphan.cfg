SPECIFICATION Spec
CONSTANTS
    Tables = {t1, t2}
    Contents = {c1}
    Blocked = {}
    Inputs = {i1}
    Identities = {m1}
    Bodies = {b1}
    MaxEdits = 2
INVARIANT IndexedIsReviewed
