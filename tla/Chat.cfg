SPECIFICATION FairSpec
CONSTANTS
    c1 = c1
    c2 = c2
    u1 = u1
    u2 = u2
    Docs = {d1}
    Uploads = {u1, u2}
    Pages <- SomePages
    ChunkSize = 4
    Overlap = 2
    NoUpload = noupload
    NoDoc = nodoc
    Turns = {t1}
    Cases = {c1, c2}
    NoCase = nocase
    Texts <- SomeTexts
    Roles = {"admin", "pm"}
    MaxRounds = 3
    MaxCalls = 2
INVARIANTS CallsAnswered IndexedAsStored PassagesFound
PROPERTIES MessageSettles
CHECK_DEADLOCK FALSE
