SPECIFICATION Spec
CONSTANTS
    a = a
    b = b
    k = k
    p = p
    q = q
    Arbs = {a, b}
    Markets = {k, p, q}
    KalshiMarkets = {k}
    AnchorOf <- MCAnchorOf
    MatchOf <- MCMatchOf
    AnchorSide <- MCLeftSides
    MatchSide <- MCLeftSides
    QueueCap = 1
    Optimistic = TRUE
    Quotes <- MCCheap
    MaxTs = 1
    Closes = {"far", "hour"}
    NoArb = NoArb
PROPERTIES
    OnlyTheRaceStrands
