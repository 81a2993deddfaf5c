\* Two updates on two kinds, one worker or GET, one change of a kind.
SPECIFICATION Spec
CONSTANTS
    k1 = k1
    k2 = k2
    c1 = c1
    p1 = p1
    p2 = p2
    r1 = r1
    Kinds = {k1, k2}
    Clients = {c1}
    ClientOf <- OneClient
    Updates = {p1, p2}
    Asks <- SomeAsks
    Readers = {r1}
    MaxChanges = 1
INVARIANTS
    PromiseKept
    UnsubscribeAllowed
    OffHonoured
    OnHonoured
    ListingTrue
    DeadlocksExplained
PROPERTIES
    Atomic
CHECK_DEADLOCK FALSE
SYMMETRY Symmetry
