SPECIFICATION Spec
CONSTANTS
    a = a
    b = b
    k = k
    p = p
    q = q
    Arbs = {a, b}
    Markets = {k, p, q}
    KalshiMarkets = {k}
    AnchorOf <- MCAnchorOf
    MatchOf <- MCMatchOf
    AnchorSide <- MCAnchorSide
    MatchSide <- MCLeftSides
    QueueCap = 1
    Optimistic = FALSE
    Quotes <- MCQuotes
    MaxTs = 2
    Closes = {"far"}
    NoArb = NoArb
INVARIANTS
    TypeOK
    IndexesInSync
    AtMostOnePending
    PendingIsMarked
    EvaluationStaysValid
    KalshiTobIsWatched
PROPERTIES
    NoRequestWhileCooling
    FreshCooldownStays
    ImplementsGateSafety
