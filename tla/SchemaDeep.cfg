SPECIFICATION FairSpec
CONSTANTS
    Databases = {{t1}}
    Versions = {v1, v2}
    Texts = {w1}
    MaxMigrations = 2
    MaxSaves = 2
INVARIANTS ApprovalIsForItsSchema
PROPERTIES WordsStay MainCatchesUp
