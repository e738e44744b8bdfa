SPECIFICATION Spec
CONSTANTS
    Hundredth = 4
    Parts = {0, 3, 6}
    Fractions <- MCFractions
    MinTrade = 1
    Deposit = 3
    Routes <- MCRoutes
    Prices = {450, 466}
    Liquidity = {1, 14}
    MaxTrades = 2
INVARIANTS
    TypeOK
    TrackedNonNegative
    OrdersAffordable
    HedgeKeepsPairs
    RiskNearFraction
CHECK_DEADLOCK FALSE
