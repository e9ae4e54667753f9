SPECIFICATION Spec
CONSTANTS
    Tables = {t1,t2}
    Contents = {c1,c2}
    Blocked = {}
    Inputs = {i1,i2}
    Identities = {m1,m2}
    Bodies = {b1,b2}
    MaxEdits = 2
INVARIANTS TypeOK PromotedWasReviewed RerunIsUnchanged IndexedIsApproved
SYMMETRY Symmetry
