\* Two requests at a time on two kinds: registrations, notify requests,
\* assignments, updates, and lookups of a template while templates come and go.
SPECIFICATION Spec
CONSTANTS
    Kinds = {k1, k2}
    Templates = {t1}
    Requests = {p1, p2}
    Ops = {"notify", "register", "assign", "update", "load", "templates"}
    MaxUnsafe = 1
    MaxNamed = 1
INVARIANTS
    TypeOK
    CriticalAuthorised
    DispatchedRegistered
    LoadExplained
PROPERTIES
    RegistrationTakesEffect
    NoStaleWriteBack
CHECK_DEADLOCK FALSE
SYMMETRY Symmetry
