\* Two instances of two releases that boot while requests change the default
\* template and another one.
SPECIFICATION FairSpec
CONSTANTS
    i1 = i1
    i2 = i2
    v1 = v1
    v2 = v2
    p1 = p1
    p2 = p2
    p3 = p3
    t1 = t1
    Instances = {i1, i2}
    Releases = {v1, v2}
    Requests = {p1, p2, p3}
    Others = {t1}
    MaxFaults = 1
INVARIANTS
    TypeOK
    LastWriteShown
    FlagRight
    SeededUnlessDeleted
PROPERTIES
    OverrideKept
    RecreatedUntouched
    AllUp
CHECK_DEADLOCK FALSE
