SPECIFICATION RunSpec
CONSTANTS
    Databases = {{t1}}
    Versions = {v1, v2}
    Texts = {}
    MaxMigrations = 2
    MaxSaves = 0
PROPERTIES PullRequestFollows
