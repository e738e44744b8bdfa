SPECIFICATION Spec
CONSTANTS
    t1 = t1
    t2 = t2
    Tickers = {t1, t2}
    MaxAttempts = 2
    MaxConns = 2
    MaxSubs = 1
    NoSid = NoSid
    NoTicker = NoTicker
INVARIANTS
    TypeOK
    SidsAreCurrent
    OnlyOvertakenAreLost
PROPERTY ReconnectsOrEnds
CHECK_DEADLOCK FALSE
