\* The claim of queue_test.go about reservations, with a second instance booting.
SPECIFICATION Spec
CONSTANTS
    i1 = i1
    i2 = i2
    w1 = w1
    w2 = w2
    Free = Free
    Instances = {i1, i2}
    Workers = {w1, w2}
    Host <- TwoHosts
    MaxJobs = 1
    MaxRetries = 0
    MaxBoots = 2
    Haltable = {}
    Closable = {}
INVARIANTS
    SingleReservation
CHECK_DEADLOCK FALSE
