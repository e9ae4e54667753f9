SPECIFICATION FairSpec
CONSTANTS
    Chunks = {c1, c2}
    Hashes = {h1, h2}
    BatchSize = 1
    MaxRetries = 1
    MaxPushes = 2
    MaxFaults = 3
    MaxLate = 1
INVARIANTS TypeOK PlanReachesTarget
PROPERTIES AnnouncedIsNews NoGap KeepsPromise Heals
