\* What uaa/token.go says of the tolerance, with a lifetime well above it.
SPECIFICATION Spec
CONSTANTS
    p1 = p1
    p2 = p2
    p3 = p3
    Requests = {p1, p2, p3}
    RoutesOf <- SomeRoutes
    Lifetime = 3
    Buffer = 1
    MaxTime = 5
    MaxFaults = 0
INVARIANTS
    ExpiryAhead
CHECK_DEADLOCK FALSE
