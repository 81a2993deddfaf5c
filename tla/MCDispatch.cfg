\* Three requests or delivery attempts while tokens expire and calls fail.
SPECIFICATION FairSpec
CONSTANTS
    p1 = p1
    p2 = p2
    p3 = p3
    Requests = {p1, p2, p3}
    RoutesOf <- SomeRoutes
    Lifetime = 2
    Buffer = 1
    MaxTime = 5
    MaxFaults = 1
INVARIANTS
    UsedNotOlder
    IssuedRarely
PROPERTIES
    Answered
CHECK_DEADLOCK FALSE
