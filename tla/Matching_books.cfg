SPECIFICATION Spec
CONSTANTS
    Assets <- TwoAssets
    Scale <- MCScale
    Markets <- MCMarkets
    BuyerFeeBps = 3000
    FeeRecipient = 1
    MaxAmount = 15000
    Buyers = {1, 2}
    Sellers = {2, 3}
    Prices = {2, 3}
    Quantities = {1, 3}
    MaxPerSide = 2
    MaxArrivals = 4
    MarketsUsed = {1, 2}
INVARIANTS MatchTypeOK FillsAddUp PriceTimePriority NoCrossLeft TermsHonoured
PROPERTY TradesConserve
\* A call of settle_batch ends: the last state of a behaviour has no successor.
CHECK_DEADLOCK FALSE
