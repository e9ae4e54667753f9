SPECIFICATION FairSpec
CONSTANTS
    Databases = {{t1}}
    Versions = {v1, v2}
    Texts = {}
    MaxMigrations = 1
    MaxSaves = 0
PROPERTIES UnsentIsRetried
