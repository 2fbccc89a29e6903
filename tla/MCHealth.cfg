SPECIFICATION FairSpec
CONSTANTS
    g = g
    h = h
    d = d
    Request = {g, h, d}
    Endpoint <- MCEndpoint
    Environments <- MCEnvironments
    MaxArrivals = 2
INVARIANTS
    HealthyMeansClient
    EndpointsAgree
PROPERTIES
    BrokenOnlyByTornClient
    RequestsAnswered
CHECK_DEADLOCK FALSE
