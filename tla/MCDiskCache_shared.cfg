CONSTANTS
    p1 = p1
    p2 = p2
    k1 = k1
    k2 = k2
    i1 = i1
    i2 = i2
    i3 = i3
    i4 = i4
    Procs = {p1, p2}
    Keys = {k1, k2}
    Files = {i1, i2, i3, i4}
    NoKey = NoKey
    NoFile = NoFile
    Model <- FileModel
    BlobSize <- Sizes
    MaxSize = 3
    Errors = TRUE
    Crashes = TRUE
SPECIFICATION Spec
SYMMETRY CacheSymmetry
INVARIANTS TypeOK BlobIntact NeverWaits
