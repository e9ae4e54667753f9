SPECIFICATION Spec
CONSTANTS
    Databases = {{t1}, {t2}}
    Versions = {v1, v2}
    Texts = {w1}
    MaxMigrations = 2
    MaxSaves = 1
INVARIANTS TypeOK ApprovalIsForItsSchema DraftsFollowSchema
PROPERTIES WordsStay
SYMMETRY Symmetry
