\* Two requests that fall due one after the other, under fairness.
CONSTANTS
    alice = alice
    fees = fees
    eth = eth
    tok = tok
    Accounts = {alice, fees}
    Assets = {eth}
    Configured = {eth}
    AssetOrder <- OneAsset
    FeeRecipient = fees
    Delay = 1
    Domains = {"here"}
    Here = "here"
    DepositAmounts = {1}
    RequestAmounts = {1}
    WithdrawAmounts = {1}
    MaxTime = 3
    MaxDeposits = 1
    MaxRequests = 2
    MaxProofs = 1
    MaxPerBatch = 2
    MaxBalance = 1
SPECIFICATION FairSpec
INVARIANTS OverdueIsActionable
PROPERTIES ForcedRequestsResolve EscapersPaid
\* The bounds on time, queues and proofs end every behaviour.
CHECK_DEADLOCK FALSE
