\* The claim of API.md that failed deliveries are retried.
SPECIFICATION FairSpec
CONSTANTS
    Sessions = {s1, s2, s3}
    MaxFaults = 1
PROPERTIES
    RetryDelivers
CHECK_DEADLOCK FALSE
