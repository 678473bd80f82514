SPECIFICATION Spec
CONSTANTS
    Assets <- AssetIds
    Scale <- MCScale
    Markets <- MCMarkets
    BuyerFeeBps = 5000
    FeeRecipient = 2
    MaxAmount = 30000
    Ids = {1, 2, 3, 4, 5}
    Limits <- MCLimits
    Depositors = {3}
    Requesters = {1, 3}
    Traders = {3, 4}
    Withdrawers = {3}
    MaxEntries = 3
    MaxConsumed = 5
INVARIANT ForcedDrainsMin
\* MaxConsumed ends every behaviour.
CHECK_DEADLOCK FALSE
