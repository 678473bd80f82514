\* Two assets, one of which the exchange does not configure; a token that delivers less than asked; a second deployment.
CONSTANTS
    alice = alice
    fees = fees
    eth = eth
    tok = tok
    Accounts = {alice, fees}
    Assets = {eth, tok}
    Configured = {eth}
    AssetOrder <- TwoAssets
    FeeRecipient = fees
    Delay = 1
    Domains = {"here", "there"}
    Here = "here"
    DepositAmounts = {2}
    RequestAmounts = {1, 3}
    WithdrawAmounts = {1}
    MaxTime = 1
    MaxDeposits = 2
    MaxRequests = 1
    MaxProofs = 1
    MaxPerBatch = 1
    MaxBalance = 2
SPECIFICATION Spec
INVARIANTS Backed
\* The bounds on time, queues and proofs end every behaviour.
CHECK_DEADLOCK FALSE
