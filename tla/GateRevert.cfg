SPECIFICATION Spec
CONSTANTS
    c1 = c1
    c2 = c2
    x2 = x2
    Contents = {c1, c2}
    Inputs <- TwoDrafts
    Texts = {x1}
    Answers = {x1}
    MaxEdits = 2
    MaxReruns = 0
CONSTRAINT EverythingSet
ACTION_CONSTRAINT InputEdits
INVARIANT InputCommitIsSynced
CHECK_DEADLOCK FALSE
