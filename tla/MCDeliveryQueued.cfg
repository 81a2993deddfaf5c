\* What API.md says of the status "queued".
SPECIFICATION Spec
CONSTANTS
    r1 = r1
    m1 = m1
    m2 = m2
    u1 = u1
    w1 = w1
    w2 = w2
    Requests = {r1}
    Messages = {m1}
    MessagesOf <- OneMessage
    Users = {u1}
    UserOf <- OneUser
    Address <- ByAddress
    Workers = {w1}
    RetryLimit = 0
    MaxBoots = 1
    MaxChanges = 0
INVARIANTS
    QueuedHasJob
CHECK_DEADLOCK FALSE
