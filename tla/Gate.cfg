SPECIFICATION GateSpec
CONSTANTS
    c1 = c1
    c2 = c2
    x2 = x2
    Contents = {c1, c2}
    Inputs <- TwoDrafts
    Texts = {x1, x2, y1}
    Answers = {x1, x2}
    MaxEdits = 2
    MaxReruns = 1
INVARIANTS TypeOK GreenIsClean OneBotCommit PendingHasRun
PROPERTIES BotKeepsInputs GateAnswers
CHECK_DEADLOCK FALSE
