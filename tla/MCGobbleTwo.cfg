\* Two instances, one worker each: crashes, reboots, Unlock under live workers.
SPECIFICATION FairSpec
CONSTANTS
    i1 = i1
    i2 = i2
    w1 = w1
    w2 = w2
    Free = Free
    Instances = {i1, i2}
    Workers = {w1, w2}
    Host <- TwoHosts
    MaxJobs = 2
    MaxRetries = 1
    MaxBoots = 3
    Haltable = {w1}
    Closable = {i1}
INVARIANTS
    OneCurrentHolder
    AttemptsAccounted
    LockedRowHasHolder
    HolderIsCurrent
PROPERTIES
    ReservationRespected
    ImplementsJobQueue
    Drains
CHECK_DEADLOCK FALSE
