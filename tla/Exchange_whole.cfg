\* Two deposits, one forced withdrawal, one signed withdrawal.
SPECIFICATION FairExchange
CONSTANTS
    Assets = {1, 2}
    Scale <- MCScale
    Markets <- MCMarkets
    BuyerFeeBps = 0
    FeeRecipient = 2
    MaxAmount = 10
    Ids = {1, 2}
    Limits <- MCLimits
    AssetOrder <- MCAssetOrder
    Delay = 1
    DepositAmounts = {2}
    RequestAmounts = {1}
    WithdrawAmounts = {2}
    MaxTime = 1
    MaxDeposits = 2
    MaxRequests = 1
    MaxWithdrawals = 1
    MaxRefused = 1
INVARIANTS HostAhead ProofsSettle EveryoneKeepsTheirs
PROPERTIES ExchangeIsZkClob QueuesServed
\* The bounds on time, queues and withdrawals end every behaviour.
CHECK_DEADLOCK FALSE
