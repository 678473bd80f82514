SPECIFICATION Spec
CONSTANTS
    Assets <- AssetIds
    Scale <- MCScale
    Markets <- MCMarkets
    BuyerFeeBps = 5000
    FeeRecipient = 1
    MaxAmount = 30000
    Ids = {1, 2, 3, 4}
    Limits <- MCLimits
    Profiles <- OneRequest
INVARIANT ForcedDrainsMin
\* A call of settle_batch ends: the last state of a behaviour has no successor.
CHECK_DEADLOCK FALSE
