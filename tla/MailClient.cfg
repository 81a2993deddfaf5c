\* Three sessions, two faults.
SPECIFICATION FairSpec
CONSTANTS
    Sessions = {s1, s2, s3}
    MaxFaults = 2
INVARIANTS
    ResultTruthful
    LeaksAreTimeouts
PROPERTIES
    Returns
