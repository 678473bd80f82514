------------------------------- MODULE Exchange -------------------------------
(***************************************************************************)
(* The whole exchange: the settlement contract of ZkClob.tla and the host of *)
(* Operator.tla, which works ahead of it.                                   *)
(*                                                                         *)
(*   users --> queues of the contract --> BatchBuilder --> settle_batch      *)
(*     ^                                                       |            *)
(*     +-- payouts <-- settle <-- proofs <-- PublicOutput <----+--> apply    *)
(*                                                                         *)
(* The repository holds both ends and not the service between them: what    *)
(* reads the queues and submits the proofs is modelled from the lifecycle    *)
(* the builder's and the contract's signatures imply.  The host takes queue  *)
(* entries the chain has confirmed, numbers its batches from zero on and    *)
(* applies a batch as soon as the guest has accepted it, before the          *)
(* contract has.                                                            *)
(***************************************************************************)
EXTENDS Operator

CONSTANTS
    AssetOrder, Delay, DepositAmounts, RequestAmounts, WithdrawAmounts,
    MaxTime, MaxDeposits, MaxRequests,      \* as in ZkClob
    MaxWithdrawals,                         \* bound: withdrawals users ever sign
    MaxRefused                              \* bound: deposits of assets not configured;
                                            \* requests are of configured ones

\* What ZkClob assumes of its parameters; amounts are u128 on both sides.
ASSUME WholeAssumption ==
    /\ IsFiniteSet(Ids) /\ Assets # {}
    /\ AssetOrder \in Seq(Assets)
    /\ \A x \in Assets : \E i \in DOMAIN AssetOrder : AssetOrder[i] = x
    /\ \A i, j \in DOMAIN AssetOrder : AssetOrder[i] = AssetOrder[j] => i = j
    /\ DepositAmounts \cup RequestAmounts \cup WithdrawAmounts \subseteq 1..MaxAmount
    /\ {Delay, MaxTime, MaxDeposits, MaxRequests, Limits.deposits} \subseteq Nat

VARIABLES
    now, stateRoot, nextBatchId, deposits, nextUnprocessedDeposit,
    forcedWithdrawalRequests, nextUnprocessedForcedWithdrawal, escapeMode, escaped,
    pendingWithdrawals, vault, call, proofs, credited, served,      \* of ZkClob
    batchId,    \* the id the host gives its next batch
    paid        \* history: what the contract has paid out, by recipient and asset

Chain == INSTANCE ZkClob WITH
    Accounts <- Ids, Domains <- {"here"}, Here <- "here",
    MaxProofs <- MaxDeposits + MaxRequests, MaxPerBatch <- Limits.deposits, MaxBalance <- MaxAmount

chainCursors == <<nextBatchId, nextUnprocessedDeposit, nextUnprocessedForcedWithdrawal>>
notProofs == <<now, stateRoot, chainCursors, deposits, forcedWithdrawalRequests, escapeMode,
               escaped, pendingWithdrawals, vault, call, credited, served>>
chainVars == <<notProofs, proofs>>
exchangeVars == <<operatorVars, chainVars, batchId, paid>>

ExchangeInit ==
    /\ Chain!Init
    /\ OperatorInit([id \in {FeeRecipient} |-> NewAccount(id)])
    /\ batchId = 0
    /\ paid = [p \in Ids \X Assets |-> 0]

-----------------------------------------------------------------------------
(* The host.                                                               *)

HostOnly == UNCHANGED <<chainVars, batchId, paid>>

\* The next entry of a queue the builder has not got yet.
Numbered(id, entry) ==
    [id |-> id, account |-> entry.account, asset |-> entry.asset, amount |-> entry.amount]

CollectDeposit ==
    LET next == cursors.deposits + Len(draft.deposits)
    IN  next < Len(deposits) /\ Deposit(Numbered(next, deposits[next + 1])) /\ HostOnly

CollectRequest ==
    LET next == cursors.forced + Len(draft.forced)
    IN  /\ next < Len(forcedWithdrawalRequests)
        /\ ForcedWithdraw(Numbered(next, forcedWithdrawalRequests[next + 1]))
        /\ HostOnly

\* A user hands the host a withdrawal signed with the account's next nonce, a u64.
CollectWithdrawal(a, x, n) ==
    LET nonce == NextNonce(a) + Cardinality(NoncesOf(a))
    IN  /\ nonce \in 0..Limits.u64
        /\ Withdraw([account |-> a, recipient |-> a, asset |-> x, amount |-> n,
                     nonce |-> nonce, signed |-> TRUE])
        /\ HostOnly

RunBatch == (Build \/ BuildFails \/ Settle \/ Abandon) /\ HostOnly

Entries(list) ==
    [i \in DOMAIN list |-> [account |-> list[i].account, asset |-> list[i].asset,
                            amount |-> list[i].amount]]

Signed(list) ==
    [i \in DOMAIN list |-> [account |-> list[i].account, recipient |-> list[i].recipient,
                            asset |-> list[i].asset, amount |-> list[i].amount]]

\* The PublicOutput of the batch: the contract sees ledgers where the guest
\* sees accounts, and each list by its hash.
PublicOutput ==
    [domain |-> "here", batchId |-> batchId,
     oldStateRoot |-> Ledger(output.oldRoot), newStateRoot |-> Ledger(output.newRoot),
     oldDepositCursor |-> output.oldDepositCursor,
     newDepositCursor |-> output.newDepositCursor,
     consumedDeposits |-> Entries(input.deposits),
     oldForcedWithdrawalCursor |-> output.oldForcedCursor,
     consumedForcedWithdrawals |-> Entries(input.forced),
     withdrawals |-> Signed(output.withdrawals), forcedWithdrawals |-> Entries(output.forced)]

\* Fault: forgets to number the batches.
ApplyUnnumbered ==
    /\ Apply
    /\ proofs' = proofs \cup {PublicOutput}
    /\ UNCHANGED <<notProofs, batchId, paid>>

\* The host proves what the guest accepted and goes on from its end.
ApplyAndProve ==
    /\ Apply
    /\ proofs' = proofs \cup {PublicOutput}
    /\ batchId' = batchId + 1
    /\ UNCHANGED <<notProofs, paid>>

-----------------------------------------------------------------------------
(* The chain.                                                              *)

ChainOnly == UNCHANGED <<operatorVars, batchId>>

Refused(queue) == Cardinality({i \in DOMAIN queue : queue[i].asset \notin Configured})

UsersAndTime ==
    /\ Chain!UserStep \/ Chain!Tick
    /\ Refused(deposits') =< MaxRefused /\ Refused(forcedWithdrawalRequests') = 0
    /\ ChainOnly /\ UNCHANGED paid

SubmitProof == Chain!SettleStep /\ ChainOnly /\ UNCHANGED paid

Paying ==
    /\ Chain!PaySucceed
    /\ paid' = [paid EXCEPT ![<<Head(call.owed).to, Head(call.owed).asset>>]
                                = @ + Head(call.owed).amount]
    /\ ChainOnly

NotPaying == (Chain!PaySkip \/ Chain!PayFail) /\ ChainOnly /\ UNCHANGED paid

-----------------------------------------------------------------------------
(* The two together.                                                       *)

Sign ==
    /\ Cardinality(spent) + Len(draft.withdrawals) < MaxWithdrawals
    /\ \E a \in Ids, x \in Assets, n \in WithdrawAmounts : CollectWithdrawal(a, x, n)

\* An empty batch changes nothing.
Work == draft # NewBuilder /\ (RunBatch \/ ApplyAndProve)

ExchangeNext ==
    \/ CollectDeposit \/ CollectRequest \/ Sign \/ Work
    \/ UsersAndTime \/ SubmitProof \/ Paying \/ NotPaying

ExchangeSpec == ExchangeInit /\ [][ExchangeNext]_exchangeVars

QueuesOnly(A) == A /\ draft.withdrawals = <<>>

\* An operator that keeps working: batches are finished and submitted, the
\* transactions that pay end, and now and then a batch is made of queue entries
\* alone, which is what a batch that was rejected calls for.
OperatorWorks ==
    /\ WF_exchangeVars(SubmitProof) /\ WF_exchangeVars(Paying \/ NotPaying)
    /\ SF_exchangeVars(QueuesOnly(CollectDeposit \/ CollectRequest))
    /\ SF_exchangeVars(QueuesOnly(Work)) /\ WF_exchangeVars(Work)

FairExchange == ExchangeSpec /\ OperatorWorks

-----------------------------------------------------------------------------
(* Properties.                                                             *)

Unsettled == {p \in proofs : p.batchId >= nextBatchId}

\* The host's ledger, cursors and batch number are those of the contract, or
\* those the contract reaches when it settles the batches in flight: nothing
\* the contract does on its own moves one without the other
\* (account_tree.rs:43-79, batch_builder.rs:29-55, ZkClob.sol:268-292).
HostAhead ==
    IF Unsettled = {}
    THEN /\ batchId = nextBatchId /\ Ledger(tree) = stateRoot
         /\ cursors = [deposits |-> nextUnprocessedDeposit, forced |-> nextUnprocessedForcedWithdrawal]
    ELSE \E p \in Unsettled :
            /\ batchId = p.batchId + 1 /\ Ledger(tree) = p.newStateRoot
            /\ cursors = [deposits |-> p.newDepositCursor,
                          forced   |-> Chain!NewForcedCursor(p, p.forcedWithdrawals)]

\* A batch the host built from confirmed entries and the guest accepted is
\* never lost to the contract: when its turn comes every check of settle but
\* that of escape mode passes, however long the proof took and whatever users
\* queued meanwhile (ZkClob.sol:130-147, 149-266).
ProofsSettle ==
    \A p \in Unsettled : p.batchId = nextBatchId =>
        /\ Chain!ValidOutput(p)
        /\ Chain!ValidForcedCursor(p, p.forcedWithdrawals)
        /\ Chain!ValidConsumedInputs(p, Chain!NewForcedCursor(p, p.forcedWithdrawals))
        /\ Chain!ValidWithdrawals(p, p.withdrawals, p.forcedWithdrawals)

\* The step of ZkClob that ApplyAndProve is: a proof from one of the places a
\* batch may start, of a batch the contract of the guest admits.
ProveStep ==
    /\ stage = "settled"
    /\ \E base \in Chain!Bases :
          Chain!ProveFrom(base, "here", PublicOutput.withdrawals, PublicOutput.consumedDeposits,
                          PublicOutput.consumedForcedWithdrawals, PublicOutput.forcedWithdrawals,
                          PublicOutput.newStateRoot)
    /\ UNCHANGED notProofs

\* The exchange implements the specification the theorems of ZkClobProofs are
\* about: with the real guest behind the proofs every step is a step of ZkClob
\* or leaves the contract alone (mod.rs:30-141, ZkClob.sol:130-147).
ExchangeIsZkClob ==
    [][Chain!UserStep \/ Chain!SettleStep \/ Chain!PayStep \/ Chain!Tick \/ ProveStep]_chainVars

OfAccount(list, a, x) ==
    SumFunction([i \in DOMAIN list |->
                    IF list[i].account = a /\ list[i].asset = x THEN list[i].amount ELSE 0])

\* Without trades nobody's money becomes another's: what an account deposited
\* is in the queue, in the settled ledger, in a payout or paid to it, through
\* batches, failed payouts and escapes alike (ZkClob.sol:101-147, 268-292, 355-411;
\* deposits.rs:3-36, forced_withdrawals.rs:4-28).
EveryoneKeepsTheirs ==
    \A a \in Ids, x \in Assets :
        OfAccount(deposits, a, x)
            = OfAccount(SubSeq(deposits, nextUnprocessedDeposit + 1, Len(deposits)), a, x)
              + (IF a \in escaped THEN 0 ELSE Guest!BalanceOf(stateRoot, a, x))
              + pendingWithdrawals[<<a, x>>] + paid[<<a, x>>]
              + SumFunction([i \in DOMAIN call.owed |->
                               IF call.owed[i].to = a /\ call.owed[i].asset = x
                               THEN call.owed[i].amount ELSE 0])

\* A batch of queue entries alone is never rejected: the operator can always
\* serve the queues, and only what users sign can cost it a batch
\* (batch_builder.rs:57-112, mod.rs:30-141).
QueueBatchesAccepted ==
    [][stage' = "rejected" => input.orders # <<>> \/ input.withdrawals # <<>>]_exchangeVars

\* While the operator works, what is queued is consumed, or the exchange is in
\* escape mode: neither a rejected batch nor a deposit of a token the guest
\* refuses keeps a forced withdrawal waiting, and only the latter keeps a
\* deposit (batch_builder.rs:57-112, ZkClob.sol:130-147).
QueuesServed ==
    /\ QueueBatchesAccepted
    /\ \A i \in 1..MaxRequests :
          (i =< Len(forcedWithdrawalRequests))
              ~> (escapeMode \/ i =< nextUnprocessedForcedWithdrawal)
    /\ \A i \in 1..MaxDeposits :
          (i =< Len(deposits) /\ \A j \in 1..i : deposits[j].asset \in Configured)
              ~> (escapeMode \/ i =< nextUnprocessedDeposit)
=============================================================================
