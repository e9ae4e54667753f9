SPECIFICATION Spec
CONSTANTS
    p1 = p1
    p2 = p2
    p3 = p3
    k1 = k1
    k2 = k2
    Documents = {d1, d2}
    Parts = {p1, p2, p3}
    Overview = p1
    Keys = {k1, k2}
    KeyOf <- OneKeyShared
    Contents = {b1, b2}
    Splitting = {b2}
    Versions = {v1}
    MaxEdits = 3
INVARIANTS TypeOK ManifestIsWhole ListsReplay MirrorFollows
SYMMETRY Symmetry
