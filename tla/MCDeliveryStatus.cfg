\* Two messages of one request, one worker: the mailer's transaction against
\* the worker's status updates and the collector, with one change of the kind
\* or of the preferences.
SPECIFICATION Spec
CONSTANTS
    r1 = r1
    m1 = m1
    m2 = m2
    u1 = u1
    w1 = w1
    w2 = w2
    Requests = {r1}
    Messages = {m1, m2}
    MessagesOf <- TwoMessages
    Users = {u1}
    UserOf <- OneUser
    Address <- ByUser
    Workers = {w1}
    RetryLimit = 1
    MaxBoots = 1
    MaxChanges = 1
INVARIANTS
    TypeOK
    DeliveredWasSent
    QueuedExplained
    ReceiptForEveryMail
CHECK_DEADLOCK FALSE
SYMMETRY Symmetry
