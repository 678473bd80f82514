-------------------------------- MODULE ZkClob --------------------------------
(***************************************************************************)
(* The settlement contract, contracts/src/ZkClob.sol.                      *)
(*                                                                         *)
(* A transaction is atomic, but it is not one step: every payout of        *)
(* settle, escapeWithdraw and withdrawPending calls the recipient, and the *)
(* recipient may call the contract again before the payout returns. The    *)
(* variable call holds the payouts the running transaction still owes; the *)
(* functions that carry nonReentrant start only when no call is running,   *)
(* requestForcedWithdrawal and activateEscapeMode, which do not carry it,  *)
(* also start in the middle of one. A call that reverts changes nothing    *)
(* and is no step at all.                                                  *)
(*                                                                         *)
(* SHA-256 is taken to be injective: a hash is modelled by what it hashes, *)
(* a state root by the ledger it commits to.                               *)
(***************************************************************************)
EXTENDS GuestContract

CONSTANTS
    AssetOrder,         \* the assets in the order a leaf lists its balances
    FeeRecipient,       \* the one account of the initial ledger
    Delay,              \* FORCED_WITHDRAWAL_DELAY
    Domains,            \* (protocolVersion, chainId, exchangeId, configHash) in the world
    Here,               \* ... of this deployment
    DepositAmounts, RequestAmounts, WithdrawAmounts,    \* inputs
    MaxTime,            \* bound: last value of the clock
    MaxDeposits,        \* bound: deposits ever queued
    MaxRequests,        \* bound: forced withdrawals ever requested
    MaxProofs,          \* bound: proofs ever made
    MaxPerBatch,        \* bound: entries of each kind in one batch
    MaxBalance          \* bound: balance of an account in a proven ledger

ASSUME AddressAssumption ==
    /\ IsFiniteSet(Accounts)     \* an address has 20 bytes
    /\ FeeRecipient \in Accounts
    /\ Assets # {}               \* ETH is always one
    /\ Configured \subseteq Assets
    /\ Here \in Domains
    /\ AssetOrder \in Seq(Assets)
    /\ \A x \in Assets : \E i \in DOMAIN AssetOrder : AssetOrder[i] = x
    /\ \A i, j \in DOMAIN AssetOrder : AssetOrder[i] = AssetOrder[j] => i = j

ASSUME AmountAssumption ==
    /\ DepositAmounts \subseteq Nat \ {0}
    /\ RequestAmounts \subseteq Nat \ {0}
    /\ WithdrawAmounts \subseteq Nat \ {0}
    /\ {Delay, MaxTime, MaxDeposits, MaxRequests, MaxProofs, MaxPerBatch, MaxBalance} \subseteq Nat

VARIABLES
    now,                                \* block.timestamp
    stateRoot, nextBatchId,
    deposits,                           \* the queue; deposit id i is deposits[i + 1]
    nextUnprocessedDeposit,
    forcedWithdrawalRequests,           \* the queue; request id i is [i + 1]
    nextUnprocessedForcedWithdrawal,
    escapeMode, escaped, pendingWithdrawals,
    vault,                              \* what the contract really holds of each asset
    call,                               \* the running transaction
    proofs,                             \* the public outputs that verifyProof accepts
    credited, served                    \* history: inputs that settled batches consumed

cursors == <<nextBatchId, nextUnprocessedDeposit, nextUnprocessedForcedWithdrawal>>
history == <<credited, served>>
claims  == <<escaped, pendingWithdrawals, vault>>
vars == <<now, stateRoot, cursors, deposits, forcedWithdrawalRequests, escapeMode, claims,
          call, proofs, history>>

nextDepositId          == Len(deposits)
nextForcedWithdrawalId == Len(forcedWithdrawalRequests)

Request == [account : Accounts, asset : Assets, amount : Nat, deadline : Nat]
Payout  == [to : Accounts, asset : Assets, amount : Nat]

NoCall == [kind |-> "none", owed |-> <<>>, entered |-> FALSE]

\* A transaction runs, and keeps the others out, exactly while it owes a payout.
Call == {NoCall} \cup
        [kind : {"settle", "escape", "claim"}, owed : Seq(Payout) \ {<<>>}, entered : BOOLEAN]
Idle   == call = NoCall

IsOutput(out) ==
    /\ out.domain \in Domains
    /\ {out.batchId, out.oldDepositCursor, out.newDepositCursor,
        out.oldForcedWithdrawalCursor} \subseteq Nat
    /\ IsLedger(out.oldStateRoot) /\ IsLedger(out.newStateRoot)
    /\ {out.consumedDeposits, out.consumedForcedWithdrawals, out.forcedWithdrawals}
          \subseteq Seq(Entry)
    /\ out.withdrawals \in Seq(Withdrawal)

\* The part of a queued request that its hash covers: everything but the deadline.
Hashed(requests) ==
    [i \in DOMAIN requests |-> [account |-> requests[i].account, asset |-> requests[i].asset,
                                amount |-> requests[i].amount]]

\* A new exchange: the deployer, who may pass the constructor any root and batch id, passes
\* those of the state that holds the fee account alone.
Init ==
    /\ now = 0
    /\ stateRoot = [a \in {FeeRecipient} |-> [x \in Assets |-> 0]]
    /\ nextBatchId = 0
    /\ deposits = <<>> /\ nextUnprocessedDeposit = 0
    /\ forcedWithdrawalRequests = <<>> /\ nextUnprocessedForcedWithdrawal = 0
    /\ escapeMode = FALSE
    /\ escaped = {}
    /\ pendingWithdrawals = [p \in Accounts \X Assets |-> 0]
    /\ vault = [x \in Assets |-> 0]
    /\ call = NoCall
    /\ proofs = {}
    /\ credited = <<>> /\ served = <<>>

------------------------------------------------------------------------------
(* Calls of users *)

\* Fault: queues what was asked for and not what arrived.
DepositAsAsked(a, x, amount, received) ==
    /\ Idle
    /\ nextDepositId < MaxDeposits
    /\ deposits' = Append(deposits, [account |-> a, asset |-> x, amount |-> amount])
    /\ vault' = [vault EXCEPT ![x] = @ + received]
    /\ UNCHANGED <<now, stateRoot, cursors, forcedWithdrawalRequests, escapeMode, escaped,
                   pendingWithdrawals, call, proofs, history>>

\* deposit() and deposit(token, amount): a token may deliver another amount
\* than it was asked for, and the contract then reverts.
Deposit(a, x, amount, received) ==
    /\ Idle
    /\ nextDepositId < MaxDeposits
    /\ received = amount
    /\ deposits' = Append(deposits, [account |-> a, asset |-> x, amount |-> amount])
    /\ vault' = [vault EXCEPT ![x] = @ + received]
    /\ UNCHANGED <<now, stateRoot, cursors, forcedWithdrawalRequests, escapeMode, escaped,
                   pendingWithdrawals, call, proofs, history>>

\* A function without the nonReentrant modifier: called on its own, or by the
\* recipient of the payout in progress.
Reenterable ==
    \/ Idle /\ call' = call
    \/ call.owed # <<>> /\ Head(call.owed).amount # 0 /\ call' = [call EXCEPT !.entered = TRUE]

RequestForcedWithdrawal(a, x, amount) ==
    /\ Reenterable
    /\ nextForcedWithdrawalId < MaxRequests
    /\ now + Delay =< MaxTime
    /\ forcedWithdrawalRequests' =
          Append(forcedWithdrawalRequests,
                 [account |-> a, asset |-> x, amount |-> amount, deadline |-> now + Delay])
    /\ UNCHANGED <<now, stateRoot, cursors, deposits, escapeMode, claims, proofs, history>>

\* Fault: looks at the request queued last.
NewestOverdue ==
    /\ nextUnprocessedForcedWithdrawal < nextForcedWithdrawalId
    /\ now >= forcedWithdrawalRequests[nextForcedWithdrawalId].deadline

\* Fault: takes a queue of one pending request for an empty one.
OverdueBehindAnother ==
    /\ nextUnprocessedForcedWithdrawal + 1 < nextForcedWithdrawalId
    /\ now >= forcedWithdrawalRequests[nextUnprocessedForcedWithdrawal + 1].deadline

\* The deadline of the oldest request the contract has not seen drained.
OldestOverdue ==
    /\ nextUnprocessedForcedWithdrawal < nextForcedWithdrawalId
    /\ now >= forcedWithdrawalRequests[nextUnprocessedForcedWithdrawal + 1].deadline

ActivateEscapeMode ==
    /\ Reenterable
    /\ OldestOverdue
    /\ escapeMode' = TRUE
    /\ UNCHANGED <<now, stateRoot, cursors, deposits, forcedWithdrawalRequests, claims,
                   proofs, history>>

Leaf(ledger, a) == [present |-> a \in DOMAIN ledger,
                    balances |-> IF a \in DOMAIN ledger THEN ledger[a] ELSE [x \in Assets |-> 0]]

LeafPayouts(a, balances) ==
    [i \in DOMAIN AssetOrder |-> [to |-> a, asset |-> AssetOrder[i],
                                  amount |-> balances[AssetOrder[i]]]]

\* Fault: does not compare the reconstructed root with stateRoot.
EscapeWithdrawAnyRoot(a, leaf) ==
    /\ Idle
    /\ escapeMode
    /\ a \notin escaped
    /\ leaf.present
    /\ \A x \in Assets : leaf.balances[x] =< vault[x]
    /\ escaped' = escaped \cup {a}
    /\ call' = [kind |-> "escape", owed |-> LeafPayouts(a, leaf.balances), entered |-> FALSE]
    /\ UNCHANGED <<now, stateRoot, cursors, deposits, forcedWithdrawalRequests, escapeMode,
                   pendingWithdrawals, vault, proofs, history>>

\* Fault: one flag says that somebody has escaped, instead of one for each account.
EscapeWithdrawOnce(a, leaf) ==
    /\ Idle
    /\ escapeMode
    /\ escaped = {}
    /\ leaf.present
    /\ leaf = Leaf(stateRoot, a)
    /\ \A x \in Assets : leaf.balances[x] =< vault[x]
    /\ escaped' = escaped \cup {a}
    /\ call' = [kind |-> "escape", owed |-> LeafPayouts(a, leaf.balances), entered |-> FALSE]
    /\ UNCHANGED <<now, stateRoot, cursors, deposits, forcedWithdrawalRequests, escapeMode,
                   pendingWithdrawals, vault, proofs, history>>

\* escapeWithdraw: anyone presents the leaf of account a, taken from the ledger
\* of any batch. Only the leaf under the current root is accepted, and one
\* payout that fails reverts them all.
EscapeWithdraw(a, leaf) ==
    /\ Idle
    /\ escapeMode
    /\ a \notin escaped
    /\ leaf.present
    /\ leaf = Leaf(stateRoot, a)
    /\ \A x \in Assets : leaf.balances[x] =< vault[x]
    /\ escaped' = escaped \cup {a}
    /\ call' = [kind |-> "escape", owed |-> LeafPayouts(a, leaf.balances), entered |-> FALSE]
    /\ UNCHANGED <<now, stateRoot, cursors, deposits, forcedWithdrawalRequests, escapeMode,
                   pendingWithdrawals, vault, proofs, history>>

\* withdrawPending: the entry is cleared before the transfer; a transfer that
\* fails puts it back and reverts.
WithdrawPending(a, x) ==
    LET amount == pendingWithdrawals[<<a, x>>]
    IN  /\ Idle
        /\ amount # 0
        /\ amount =< vault[x]
        /\ pendingWithdrawals' = [pendingWithdrawals EXCEPT ![<<a, x>>] = 0]
        /\ call' = [kind |-> "claim", owed |-> <<[to |-> a, asset |-> x, amount |-> amount]>>,
                    entered |-> FALSE]
        /\ UNCHANGED <<now, stateRoot, cursors, deposits, forcedWithdrawalRequests, escapeMode,
                       escaped, vault, proofs, history>>

------------------------------------------------------------------------------
(* The operator: settle *)

\* _decodeAndValidatePublicOutput
ValidOutput(out) ==
    /\ out.domain = Here
    /\ out.batchId = nextBatchId
    /\ out.oldStateRoot = stateRoot
    /\ out.oldDepositCursor = nextUnprocessedDeposit
    /\ out.newDepositCursor >= out.oldDepositCursor
    /\ out.newDepositCursor =< nextDepositId
    /\ out.oldForcedWithdrawalCursor = nextUnprocessedForcedWithdrawal

\* _validateForcedWithdrawalCursor: the new cursor follows from the number of
\* payouts in the calldata.
NewForcedCursor(out, forced) == out.oldForcedWithdrawalCursor + Len(forced)
ValidForcedCursor(out, forced) == NewForcedCursor(out, forced) =< nextForcedWithdrawalId

\* Fault: trusts the deposits the proof claims.
DepositsUnchecked(out, newForcedCursor) ==
    Hashed(SubSeq(forcedWithdrawalRequests, out.oldForcedWithdrawalCursor + 1, newForcedCursor))
        = out.consumedForcedWithdrawals

\* Fault: trusts the requests the proof claims.
RequestsUnchecked(out, newForcedCursor) ==
    SubSeq(deposits, out.oldDepositCursor + 1, out.newDepositCursor) = out.consumedDeposits

\* _validateConsumedInputs: the queues' own entries, not the proof's claim of them.
ValidConsumedInputs(out, newForcedCursor) ==
    /\ SubSeq(deposits, out.oldDepositCursor + 1, out.newDepositCursor) = out.consumedDeposits
    /\ Hashed(SubSeq(forcedWithdrawalRequests, out.oldForcedWithdrawalCursor + 1, newForcedCursor))
          = out.consumedForcedWithdrawals

\* _validateWithdrawals: the plaintext calldata is what the proof commits to.
ValidWithdrawals(out, wds, forced) ==
    /\ wds = out.withdrawals
    /\ forced = out.forcedWithdrawals

BatchPayouts(wds, forced) ==
    [i \in DOMAIN wds |-> [to |-> wds[i].recipient, asset |-> wds[i].asset,
                           amount |-> wds[i].amount]]
    \o [i \in DOMAIN forced |-> [to |-> forced[i].account, asset |-> forced[i].asset,
                                 amount |-> forced[i].amount]]

\* _applySettlement: root, cursors and batch id first, the payouts after them.
ApplySettlement(out, wds, forced) ==
    /\ stateRoot' = out.newStateRoot
    /\ nextUnprocessedDeposit' = out.newDepositCursor
    /\ nextUnprocessedForcedWithdrawal' = NewForcedCursor(out, forced)
    /\ nextBatchId' = nextBatchId + 1
    /\ call' = IF BatchPayouts(wds, forced) = <<>> THEN NoCall
               ELSE [kind |-> "settle", owed |-> BatchPayouts(wds, forced), entered |-> FALSE]

\* Fault: settles in escape mode.
SettleInEscape(out, wds, forced) ==
    /\ Idle
    /\ ValidOutput(out)
    /\ ValidForcedCursor(out, forced)
    /\ ValidConsumedInputs(out, NewForcedCursor(out, forced))
    /\ ValidWithdrawals(out, wds, forced)
    /\ out \in proofs
    /\ ApplySettlement(out, wds, forced)
    /\ credited' = credited \o out.consumedDeposits
    /\ served' = served \o out.consumedForcedWithdrawals
    /\ UNCHANGED <<now, deposits, forcedWithdrawalRequests, escapeMode, claims, proofs>>

Settle(out, wds, forced) ==
    /\ Idle
    /\ ~escapeMode
    /\ ValidOutput(out)
    /\ ValidForcedCursor(out, forced)
    /\ ValidConsumedInputs(out, NewForcedCursor(out, forced))
    /\ ValidWithdrawals(out, wds, forced)
    /\ out \in proofs
    /\ ApplySettlement(out, wds, forced)
    /\ credited' = credited \o out.consumedDeposits
    /\ served' = served \o out.consumedForcedWithdrawals
    /\ UNCHANGED <<now, deposits, forcedWithdrawalRequests, escapeMode, claims, proofs>>

------------------------------------------------------------------------------
(* The payouts of the running transaction *)

\* Fault: keeps the reentrancy guard after the last payout.
AfterHeadGuarded == [call EXCEPT !.owed = Tail(@), !.entered = FALSE]

AfterHead == IF Len(call.owed) = 1 THEN NoCall
             ELSE [call EXCEPT !.owed = Tail(@), !.entered = FALSE]

PaySkip ==
    /\ call.owed # <<>>
    /\ Head(call.owed).amount = 0
    /\ call' = AfterHead
    /\ UNCHANGED <<now, stateRoot, cursors, deposits, forcedWithdrawalRequests, escapeMode,
                   claims, proofs, history>>

\* Recipients are users: a payout to the contract itself, which would leave its tokens
\* where they are and so a surplus, lowers the vault here too.
PaySucceed ==
    /\ call.owed # <<>>
    /\ LET p == Head(call.owed)
       IN  /\ p.amount # 0
           /\ p.amount =< vault[p.asset]
           /\ vault' = [vault EXCEPT ![p.asset] = @ - p.amount]
    /\ call' = AfterHead
    /\ UNCHANGED <<now, stateRoot, cursors, deposits, forcedWithdrawalRequests, escapeMode,
                   escaped, pendingWithdrawals, proofs, history>>

\* _attemptTransfer returned false in settle. What the recipient called before
\* it failed is undone with its call, so it has called nothing.
PayFail ==
    /\ call.kind = "settle"
    /\ call.owed # <<>>
    /\ ~call.entered
    /\ LET p == Head(call.owed)
       IN  /\ p.amount # 0
           /\ pendingWithdrawals' = [pendingWithdrawals EXCEPT ![<<p.to, p.asset>>] = @ + p.amount]
    /\ call' = AfterHead
    /\ UNCHANGED <<now, stateRoot, cursors, deposits, forcedWithdrawalRequests, escapeMode,
                   escaped, vault, proofs, history>>

------------------------------------------------------------------------------
(* The world around the contract *)

\* Time passes between transactions.
Tick ==
    /\ Idle
    /\ now < MaxTime
    /\ now' = now + 1
    /\ UNCHANGED <<stateRoot, cursors, deposits, forcedWithdrawalRequests, escapeMode, claims,
                   call, proofs, history>>

\* Where a batch may start: the contract's state, or the end of a batch that
\* is proven and not settled (the prover works ahead of the chain).
Bases ==
    {[batchId |-> nextBatchId, root |-> stateRoot, dep |-> nextUnprocessedDeposit,
      forced |-> nextUnprocessedForcedWithdrawal]} \cup
    {[batchId |-> p.batchId + 1, root |-> p.newStateRoot, dep |-> p.newDepositCursor,
      forced |-> p.oldForcedWithdrawalCursor + Len(p.consumedForcedWithdrawals)] : p \in proofs}

BatchSizes(cursor, length) == {0} \cup {n \in 1..MaxPerBatch : cursor + n =< length}

\* The inputs a batch claims: a prefix of those the queue still holds, or one
\* the prover saw before the chain confirmed it (the chain may confirm another
\* in its place).
ClaimedInputs(queue, cursor, assets, inputs) ==
    {SubSeq(queue, cursor + 1, cursor + n) : n \in BatchSizes(cursor, Len(queue))}
    \cup (IF cursor = Len(queue)
          THEN {<<[account |-> a, asset |-> x, amount |-> n]>> :
                     a \in Accounts, x \in assets, n \in inputs}
          ELSE {})

SignedWithdrawals ==
    {<<>>} \cup {<<[account |-> a, recipient |-> r, asset |-> x, amount |-> n]>> :
                    a \in Accounts, r \in Accounts, x \in Configured, n \in WithdrawAmounts}

DrainedOf(requests, amounts) ==
    [i \in DOMAIN requests |-> [requests[i] EXCEPT !.amount = amounts[i]]]

\* build_output: what the guest commits to.
BatchOutput(base, dom, deps, requests, drained, wds, new) ==
    [domain |-> dom, batchId |-> base.batchId,
     oldStateRoot |-> base.root, newStateRoot |-> new,
     oldDepositCursor |-> base.dep, newDepositCursor |-> base.dep + Len(deps),
     consumedDeposits |-> deps,
     oldForcedWithdrawalCursor |-> base.forced, consumedForcedWithdrawals |-> requests,
     withdrawals |-> wds, forcedWithdrawals |-> drained]

\* A prover runs the guest and obtains a proof. It may do so at any time, for
\* any batch; what it cannot do is to prove a batch settle_batch rejects.
ProveFrom(base, dom, wds, deps, requests, drained, new) ==
    /\ Admits(base.root, deps, requests, drained, wds, new)
    /\ proofs' = proofs \cup {BatchOutput(base, dom, deps, requests, drained, wds, new)}

Prove ==
    /\ Idle
    /\ Cardinality(proofs) < MaxProofs
    /\ \E base \in Bases, dom \in Domains, wds \in SignedWithdrawals :
       \E deps \in ClaimedInputs(deposits, base.dep, Configured, DepositAmounts),
          requests \in ClaimedInputs(Hashed(forcedWithdrawalRequests), base.forced, Assets,
                                     RequestAmounts) :
       \E amounts \in [DOMAIN requests -> 0..MaxBalance],
          new \in [DOMAIN base.root \cup {deps[i].account : i \in DOMAIN deps}
                      -> [Assets -> 0..MaxBalance]] :
             ProveFrom(base, dom, wds, deps, requests, DrainedOf(requests, amounts), new)
    /\ UNCHANGED <<now, stateRoot, cursors, deposits, forcedWithdrawalRequests, escapeMode,
                   claims, call, history>>

KnownRoots == {stateRoot} \cup {p.newStateRoot : p \in proofs} \cup {p.oldStateRoot : p \in proofs}

UserStep ==
    \/ \E a \in Accounts, x \in Assets, n \in DepositAmounts : \E r \in 1..n : Deposit(a, x, n, r)
    \/ \E a \in Accounts, x \in Assets, n \in RequestAmounts : RequestForcedWithdrawal(a, x, n)
    \/ ActivateEscapeMode
    \/ \E a \in Accounts, r \in KnownRoots : EscapeWithdraw(a, Leaf(r, a))
    \/ \E a \in Accounts, x \in Assets : WithdrawPending(a, x)

SettleStep == \E out \in proofs, w \in proofs, f \in proofs :
                 Settle(out, w.withdrawals, f.forcedWithdrawals)

PayStep == PaySkip \/ PaySucceed \/ PayFail

Next == UserStep \/ SettleStep \/ PayStep \/ Tick \/ Prove

Spec == Init /\ [][Next]_vars

\* A transaction that started ends, blocks keep being made, and somebody calls
\* activateEscapeMode (the account whose request is overdue, for one) and, for
\* each account, escapeWithdraw, whose transfers do not fail.
Fairness ==
    /\ WF_vars(PayStep) /\ SF_vars(Tick) /\ WF_vars(ActivateEscapeMode)
    /\ \A a \in Accounts : SF_vars(EscapeWithdraw(a, Leaf(stateRoot, a)))
FairSpec == Spec /\ Fairness
------------------------------------------------------------------------------
(* Properties *)

TypeOK ==
    /\ now \in Nat
    /\ IsLedger(stateRoot)
    /\ nextBatchId \in Nat
    /\ deposits \in Seq(Entry) /\ nextUnprocessedDeposit \in Nat
    /\ forcedWithdrawalRequests \in Seq(Request) /\ nextUnprocessedForcedWithdrawal \in Nat
    /\ escapeMode \in BOOLEAN
    /\ escaped \in SUBSET Accounts
    /\ pendingWithdrawals \in [Accounts \X Assets -> Nat]
    /\ vault \in [Assets -> Nat]
    /\ call \in Call
    /\ \A out \in proofs : IsOutput(out)
    /\ credited \in Seq(Entry) /\ served \in Seq(Entry)

\* What the deposits behind the cursor, which no batch has credited, hold.
Waiting(queue, cursor, x) ==
    SumFunction([i \in (cursor + 1)..Len(queue) |-> AmountIn(queue[i], x)])

\* What the accounts that are not gone hold in a ledger.
Remaining(ledger, gone, x) == SumFunction([a \in DOMAIN ledger \ gone |-> ledger[a][x]])

\* What failed payouts left for their recipients.
Pending(pending, x) == SumFunction([a \in Accounts |-> pending[<<a, x>>]])

\* What the contract owes of asset x, the payouts of the running transaction
\* included.
OwedTo(x) == Waiting(deposits, nextUnprocessedDeposit, x) + Remaining(stateRoot, escaped, x)
             + Pending(pendingWithdrawals, x) + MovedTotal(call.owed, x)

\* The contract holds exactly what it owes, whatever proofs, payouts, failed
\* payouts, reentrant calls and escapes happened in whatever order.
Backed == \A x \in Assets : vault[x] = OwedTo(x)

\* Settled batches consume each queue exactly once, in order and without a
\* gap: what the guest was told is what the contract had queued.
ExactlyOnce ==
    /\ credited = SubSeq(deposits, 1, nextUnprocessedDeposit)
    /\ served = Hashed(SubSeq(forcedWithdrawalRequests, 1, nextUnprocessedForcedWithdrawal))

\* activateEscapeMode looks at the oldest request only; that is enough, since
\* no request behind it can be overdue earlier.
OverdueIsActionable ==
    (\E i \in (nextUnprocessedForcedWithdrawal + 1)..Len(forcedWithdrawalRequests) :
        forcedWithdrawalRequests[i].deadline =< now) => OldestOverdue

\* After escape mode is activated the state root and the cursors never move
\* again, not even at the end of a settle whose payout activated it, and the
\* mode is never left.
EscapeIsFinal ==
    [][escapeMode => escapeMode' /\ UNCHANGED <<stateRoot, cursors>>]_vars

\* Each queue keeps the promise of InputQueue, escape mode closing both.
DepositQueue == INSTANCE InputQueue WITH
    Item <- Entry, queue <- deposits, taken <- credited, closed <- escapeMode
RequestQueue == INSTANCE InputQueue WITH
    Item <- Entry, queue <- Hashed(forcedWithdrawalRequests), taken <- served,
    closed <- escapeMode

\* What the guest was told to credit is the deposit queue, taken in order and
\* at most once, never after escape mode.
DepositsTakenInOrder == DepositQueue!QSpec

\* The same of the forced withdrawals the guest was told to drain.
RequestsTakenInOrder == RequestQueue!QSpec

\* Both queues at once: the two never get in each other's way, though one batch
\* takes from both (ZkClob.sol:217-244, 268-292).
InputsTakenInOrder == DepositsTakenInOrder /\ RequestsTakenInOrder

\* Every forced withdrawal is consumed by a batch, or the exchange is in escape
\* mode: a stalled or censoring operator cannot leave a request undecided.
ForcedRequestsResolve ==
    \A i \in 1..MaxRequests :
        (i =< Len(forcedWithdrawalRequests))
            ~> (escapeMode \/ i =< nextUnprocessedForcedWithdrawal)

\* Once in escape mode every account of the frozen root gets its leaf paid out
\* and the transaction ends, whatever was owed, failed or in progress when the
\* mode began and whoever escaped first (ZkClob.sol:101-115, 397-411).
EscapersPaid ==
    \A a \in Accounts :
        (escapeMode /\ a \in DOMAIN stateRoot) ~> (a \in escaped /\ Idle)

\* Every queued deposit is of an asset the guest accepts. (Refuted: the
\* contract queues a deposit of any token.)
QueuedDepositsSupported ==
    \A i \in (nextUnprocessedDeposit + 1)..Len(deposits) : deposits[i].asset \in Configured
==============================================================================
