CONSTANTS
    e1 = e1
    e2 = e2
    e3 = e3
    None = None
    Server = {1, 2}
    Endpoint = {e1, e2, e3}
    Draft <- Drafts
    MaxEndpoints = 2
    MaxEntries = 2
    MaxPlans = 2
    MaxFaults = 2
SPECIFICATION FairSpec
INVARIANTS CompletedMatches NothingLeftBound SnapshotsAgree
PROPERTIES RevokedForGood PublicationCompletes
CHECK_DEADLOCK FALSE
