SPECIFICATION Spec
CONSTANTS
    t1 = t1
    t2 = t2
    Tickers = {t1, t2}
    MaxAttempts = 2
    MaxConns = 1
    MaxSubs = 1
    NoSid = NoSid
    NoTicker = NoTicker
INVARIANT TrackedIsLive
CHECK_DEADLOCK FALSE
