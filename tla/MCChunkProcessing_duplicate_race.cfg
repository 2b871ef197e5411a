SPECIFICATION Spec

CONSTANTS
    i1 = i1
    i2 = i2
    w1 = w1
    w2 = w2
    c1 = c1
    c2 = c2
    NoCode = NoCode
    Unreadable = Unreadable
    NoImport = NoImport
    Imports = {i1, i2}
    Workers = {w1, w2}
    Codes = {c1, c2}
    CodeLength <- MCCodeLength
    MaxWeight = 1000
    MaxPrice = 1000
    Uploads <- RacingUploads
    ChunkSize = 2
    MaxAttempts = 2

INVARIANTS
    DuplicateRaceIsRowError
