SPECIFICATION MCSpec
CONSTANTS
    a = a
    b = b
    c = c
    d = d
    act = act
    provision = provision
    law1 = law1
    law2 = law2
    x1 = x1
    j1 = j1
    j2 = j2
    old1 = old1
    old2 = old2
    None = None
    Ids <- MCIds
    Laws = {law1, law2}
    LawOf <- MCLawOf
    Rows <- MCRows
    MaxRows = 4
    MaxDate = 3
    Links <- MCLinks
    MaxLinks = 2
    Objects <- MCObjects
    MappedRows <- MCMappedRows
    Files <- MCFiles
    MaxObjects = 4
    Unslugged = {j1, j2}
INVARIANTS
    AcceptedIsForest
    AcceptedAtEveryDate
    AcceptedResolves
    WellFormedIsAccepted
    CompiledAsWritten
    OneNodeOneProvisionWithoutKey
    RefusedWithCause
SYMMETRY NodeSymmetry
\* a corpus has its bound of rows, a compilation ends
CHECK_DEADLOCK FALSE
