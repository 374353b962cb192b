SPECIFICATION FairSpec
CONSTANTS
    Endpoint = {"e1", "e2"}
    Upstream <- BothEndpoints
    MaxVersion = 2
    EndpointsOf <- MovedEndpoints
    Soft = 1
    Hard = 2
    ValidUntil = 5
    MaxTime = 2
    Confirmations = 0
    SafetyBlocks = 1
    MaxIncidents = 3
INVARIANTS RevocationSettles RevokedNeverReleased
PROPERTY EventuallyConsistent
CHECK_DEADLOCK FALSE
