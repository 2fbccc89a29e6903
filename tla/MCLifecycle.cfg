SPECIFICATION FairSpec
CONSTANTS
    TestEndpoint = FALSE
    MaxRequests = 2
INVARIANT
    ConsumerClosedLast
PROPERTY
    EndsWhenTold
CHECK_DEADLOCK FALSE
