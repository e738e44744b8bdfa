SPECIFICATION Spec
CONSTANTS
    k = k
    p = p
    kalshi = kalshi
    polymarket = polymarket
    t = t
    live = live
    Markets = {k, p}
    Platforms = {kalshi, polymarket}
    Tags = {t}
    Live = live
    PlatformOf <- MCPlatformOf
    TagOf <- MCTagOf
    Similar <- MCSimilar
    HitLimit = 1
    Start = 3
    Reach = 1
    MaxTime = 4
    MaxUpsets = 2
INVARIANTS
    StoredPairsReported
    ReportedAreStored
    
CHECK_DEADLOCK FALSE
