SPECIFICATION FairSpec
CONSTANTS
    MaxRequests = 3
    MaxStops = 1
    Together <- MCTogether
    CacheSize = 1
    None = None
INVARIANTS TypeOK AcceptedIsFound
PROPERTY AcceptedBegins
CHECK_DEADLOCK FALSE
