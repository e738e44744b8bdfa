SPECIFICATION Spec
CONSTANTS
    a1 = a1
    a2 = a2
    a3 = a3
    Assets = {a1, a2, a3}
    MaxConns = 2
    NoAsset = NoAsset
INVARIANTS
    WatchedIsLive
    TrackedIsSubscribed
    NewsArrives
PROPERTIES
    WatchedComesLive
    ReconnectsOrEnds
CHECK_DEADLOCK FALSE
