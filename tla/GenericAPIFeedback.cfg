SPECIFICATION Spec
CONSTANTS
    MaxRequests = 2
    MaxStops = 0
    Together <- MCTogether
    CacheSize = 1
    None = None
INVARIANT FeedbackHeedsReload
CHECK_DEADLOCK FALSE
