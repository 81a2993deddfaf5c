\* One message, two workers: redelivery after crashes and boots, and
\* under fairness the end of every job.
SPECIFICATION FairSpec
CONSTANTS
    r1 = r1
    m1 = m1
    m2 = m2
    u1 = u1
    w1 = w1
    w2 = w2
    Requests = {r1}
    Messages = {m1}
    MessagesOf <- OneMessage
    Users = {u1}
    UserOf <- OneUser
    Address <- ByAddress
    Workers = {w1, w2}
    RetryLimit = 1
    MaxBoots = 2
    MaxChanges = 0
INVARIANTS
    DuplicatesAccounted
PROPERTIES
    Processed
CHECK_DEADLOCK FALSE
