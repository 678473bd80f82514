\* Two accounts, one asset, deposits of one unit, two proofs in flight.
CONSTANTS
    alice = alice
    fees = fees
    eth = eth
    tok = tok
    Accounts = {alice, fees}
    Assets = {eth}
    Configured = {eth}
    AssetOrder <- OneAsset
    FeeRecipient = fees
    Delay = 1
    Domains = {"here"}
    Here = "here"
    DepositAmounts = {1}
    RequestAmounts = {1}
    WithdrawAmounts = {1}
    MaxTime = 2
    MaxDeposits = 2
    MaxRequests = 1
    MaxProofs = 2
    MaxPerBatch = 1
    MaxBalance = 2
SPECIFICATION Spec
INVARIANTS TypeOK Backed ExactlyOnce
PROPERTIES EscapeIsFinal InputsTakenInOrder
\* The bounds on time, queues and proofs end every behaviour.
CHECK_DEADLOCK FALSE
