SPECIFICATION Spec
CONSTANTS
    a = a
    b = b
    k = k
    p = p
    q = q
    Arbs = {a, b}
    Markets = {k, p, q}
    KalshiMarkets = {k}
    AnchorOf <- MCAnchorOf
    MatchOf <- MCMatchOf
    AnchorSide <- MCLeftSides
    MatchSide <- MCLeftSides
    QueueCap = 2
    Optimistic = FALSE
    Quotes <- MCCheap
    MaxTs = 2
    Closes = {"far"}
    NoArb = NoArb
PROPERTIES
    ImplementsGate
    CommsComesBack
