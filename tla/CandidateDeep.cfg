SPECIFICATION FairSeenSpec
CONSTANTS
    Tables = {t1}
    Contents = {c1,c2}
    Blocked = {c2}
    Inputs = {i1,i2}
    Identities = {m1,m2}
    Bodies = {b1,b2}
    MaxEdits = 3
INVARIANTS IndexedIsApproved RerunIsUnchanged ReportIsOutcome
PROPERTIES RetriesSettle RefusalIsNoOutcome
