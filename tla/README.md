# Verification of zk-clob

TLA+ models of the zk-clob exchange, TLC configurations that check them on small
instances, and TLAPS proofs for every instance: about the settlement contract, the
matching engine, the guest program, the host, and the exchange they make together. Paths below are relative to the root of the
repository (`src/` in `PROJECT.json`).

    tlc -workers 2 -config ZkClob_core.cfg MCZkClob     # a run: see "Runs"
    for m in ZkClobProofs SumTheorems FoldTheorems MatchingProofs \
             WitnessProofs SettlementProofs OperatorProofs ExchangeProofs
    do tlapm $m.tla; done                               # the proofs

## 1. The system

Users keep accounts in an off-chain ledger. An **operator** collects signed orders
and withdrawals, and deposits and forced-withdrawal requests that users queued on
chain, into a **batch**; the **guest** (a zkVM program) settles the batch and
commits to what it did; the **contract** verifies the proof, moves its state root
and pays. If the operator ignores a forced withdrawal for longer than a delay,
anybody can switch the contract to **escape mode**, where users take their balance
out with a Merkle proof against the last root.

    users ---- deposit, requestForcedWithdrawal, activateEscapeMode, escapeWithdraw ----+
      |                                                                                  v
      | signed orders, withdrawals                                            +--------------------+
      v                                                                       |  ZkClob.sol        |
    BatchBuilder --- BatchInput + witness ---> settle_batch --- proof of ---> |  queues, root,     |
      ^                                         (guest)         PublicOutput  |  payouts, escape   |
      |                                            |                          +--------------------+
      +------------- AccountTree.apply <---- updated accounts                            |
                                                                          recipients (may call back)

### Components

| component | state it keeps | operations | correct when |
|---|---|---|---|
| settlement contract `contracts/src/ZkClob.sol` | state root, batch id, two queues with cursors, escape mode, escaped accounts, pending withdrawals, token holdings | `deposit` (2 forms), `requestForcedWithdrawal`, `settle`, `withdrawPending`, `activateEscapeMode`, `escapeWithdraw` | it always holds exactly what it owes; every queued input is consumed once and in order; an overdue request can always trigger escape mode; escape mode is final |
| guest `crates/core/src/settlement/*`, `crates/guest` | locals of one call of `settle_batch`: accounts, asset totals, sweep of the books | one pipeline: validation, deposits, forced withdrawals, checks of operations, withdrawals, nonces, matching, conservation check, output | an accepted batch does what the contract assumes without seeing the ledger; nobody loses what they did not sign for; nonces are used up; no order is kept from trading |
| matching engine `settlement/matching.rs`, `types/order.rs`, `types/trade.rs` | position of the sweep, quantities left, trades | `match_order_book` | price-time priority, no crossing orders left, limits and fees honoured, value conserved |
| accounts and configuration `types/account.rs`, `types/config.rs` | balances in canonical form, nonce | debit, credit, set | no zero entries, nothing out of range |
| batch builder `crates/host/src/batch_builder.rs` | entries of a batch, accounts they touch | `deposit`, `forced_withdraw`, `order`, `withdraw`, `build` | what it builds is well formed for the guest |
| account tree `crates/host/src/account_tree.rs`, `crates/core/src/state.rs` | the ledger | `apply`, `witness_for`, roots | it follows the guest |
| Patricia commitment `crates/core/src/trees/patricia.rs` | none | root, multiproof, root from proof | proofs are sound, survive changes and insertions |
| contract's verifier `contracts/src/PatriciaProof.sol` | none | `verifyAccount` | agrees with the guest's reconstruction |
| encodings and hashes `hashing.rs`, `types/*.rs` | none | byte layouts, SHA-256 | injective, equal in both languages |
| signatures `types/signature.rs` | none | digest, secp256k1 recovery | a signature speaks for one operation in one deployment |
| sparse and dense trees `trees/smt.rs`, `trees/dmt.rs` | none | root, multiproof, root from proof; not used by `State` | as the Patricia commitment; one proof per statement |
| the service between builder and contract (not in the repository) | number of the next batch | reads queues, runs batches, submits proofs | the host stays in step with the chain; the queues are served |
| host command line, test support | none | fixtures | |

Shared between components: the public output (`settlement/output.rs` writes it,
`_decodeAndValidatePublicOutput` reads it), the two input queues (the contract
keeps them, the builder and the guest are told about them), the state root (the
guest computes it, `escapeWithdraw` reconstructs it in Solidity), and the account
indices the builder predicts and the guest looks up.

### What is hard here

- A payout of `settle`, `escapeWithdraw` or `withdrawPending` calls the recipient
  in the middle of a transaction. Two functions do not carry `nonReentrant`.
- A payout may fail; in `settle` it is parked, in the other two it reverts all.
- The contract trusts cursors, consumed inputs and payouts of a proof only as far
  as it checks them; proofs are made ahead of the chain, by anyone, for another
  deployment, or over a queue that the chain then confirms differently.
- `activateEscapeMode` looks at one request only, and time passes.
- The guest must hold against any host: wrong indices, gaps in nonces, books that
  omit or duplicate orders, witnesses with an account left out or added.
- Rounding of quotes and fees over partial fills, a trader on both sides of a
  trade, the fee account as a trader, deposits that open accounts and shift the
  indices of all accounts behind them.
- A multiproof is built before the batch and used for the tree after it.
- The host applies a batch when the guest accepts it, before the chain settles it,
  while users go on queueing inputs and escape mode may start.
- A rejected batch takes all its entries with it; served again beside the same
  signed withdrawal they are rejected again.
- Rust writes and Solidity recomputes the same hashes; the byte strings hashed have
  no separators.

`PROJECT.json` lists these at their lines under `hazards`, each with the
properties that would catch it going wrong.

## 2. The modules

| module | models | extends / instantiates |
|---|---|---|
| `GuestContract` | abstract: what a valid proof says (`Admits`), over ledgers | |
| `InputQueue` | abstract: a queue whose inputs are taken once and in order until it is closed | |
| `ZkClob` | the contract | `GuestContract`; `InputQueue` twice, by refinement mapping |
| `ZkClobProofs` | theorems about the contract: types, queues, deadlines, escape mode, solvency | `ZkClob`, `SumTheorems` |
| `AccountTypes` | accounts, debit and credit, configuration | |
| `Matching` | the matching sweep | `AccountTypes` |
| `Settlement` | `settle_batch` | `Matching`; `GuestContract` as what it must satisfy |
| `Operator` | builder, account tree, batch after batch | `Settlement` |
| `Exchange` | users, host, guest and contract together | `Operator`; `ZkClob`, whose variables it declares |
| `Patricia` | commitment, multiproofs, both verifiers | |
| `MerkleTrees` | the sparse and the dense tree | `Patricia`, for its keys, trees and state machine |
| `Commitments` | what is hashed and signed, byte by byte, in both languages | |
| `SumTheorems` | theorems: sums over finite sets, induction over finite sets and over counting | |
| `FoldTheorems` | theorems: a left fold goes step by step | instantiated once per loop body |
| `MatchingProofs` | theorems about the matching engine | `Matching`, `SumTheorems`; `FoldTheorems` for the balance updates |
| `WitnessProofs` | theorems about account lists: who is listed, what deposits, requests, withdrawals and trades do to each account | `Settlement`, `MatchingProofs`; `FoldTheorems` for the deposits |
| `SettlementProofs` | theorems about `settle_batch` | `WitnessProofs` |
| `OperatorProofs` | theorems about the host, over any number of batches | `Operator`, `SettlementProofs` |
| `ExchangeProofs` | theorems about host, guest and contract together | `Exchange`, `OperatorProofs`; instantiates `ZkClobProofs` for its theorems |
| `MC*` | instances for TLC and the environments that feed them | |

`GuestContract` is the joint of the two halves. `ZkClob` lets a proof exist for
exactly the batches `Admits` allows; `Settlement` models `settle_batch` step by
step, and each batch it accepts is admitted (`GuestHonoursContract`: checked on an
instance, and proved for all of them).
Neither half needs the other's state space. `Exchange` puts the two halves
themselves together, and `ExchangeIsZkClob` says that this whole implements `ZkClob`,
the specification the contract's theorems are about: checked on a smaller instance
and proved for all of them.

An operator whose comment begins with "Fault:" is no part of a model. It is a
variant of the operator after it with a mistake somebody could make in that code;
putting it in the place of the real one must break the property that
`PROJECT.json` pairs it with under `mutants`.

### ZkClob

Variables carry the names of the contract. A state root is the ledger it commits
to and a hash is what it hashes, so "equal hashes" is "equal values". `vault` is
what the contract really holds. `call` is the running transaction: the payouts it
still owes and whether the recipient of the current one has called back. `settle`
is `Settle` (all checks, then root, cursors, batch id) followed by one `PaySkip`,
`PaySucceed` or `PayFail` per payout, as in `_applySettlement`. Functions with
`nonReentrant` need `Idle`; `RequestForcedWithdrawal` and `ActivateEscapeMode` only
need `Reenterable`, so they also happen between two payouts. A call that reverts is
no step. `Prove` is the world: some prover has a proof of some admitted batch,
based on the current state or on another unsettled proof, for this deployment or
another one, over the entries queued or over an entry that is not (yet) queued.
`credited` and `served` are history: what the guest was told it consumed.

### Matching, Settlement, Operator

`Fill` is one turn of the loop of `match_order_book`; `FillFails` the turn whose
checked arithmetic or debit fails; `NextBook` the end of a book. `Settlement`
follows `settle_batch` (`settlement/mod.rs:30-141`) stage by stage in a variable
`stage`: `Validate`, `ApplyDeposits`, `ApplyForced`, `ValidateOperations`,
`ApplyOperations`, `Match`, `Conclude`, and for each stage the step that rejects the
batch. The order of checks within a stage is abstracted, since none of them
changes state and they all end in rejection (`Reject`); which error is reported is not
modelled. `Operator` has one action per method of `BatchBuilder`, `Build` and
`BuildFails`, the guest, and `Apply` or `Abandon`. `witness_for`'s proof is
represented by the set of keys it covers and the untouched rest of the tree, which
is what `Patricia` shows the real proof determines.

### Exchange

`Exchange` extends `Operator` and instantiates `ZkClob` over the variables of the
contract, with the public output of the guest (`PublicOutput`) where `ZkClob` alone
has any admitted batch. The service that reads the queues and submits proofs is
not in the repository: `CollectDeposit` and `CollectRequest` hand the builder the
next entry of each queue (PROTOCOL.md:75-78), `ApplyAndProve` applies what the guest
accepted, numbers it and has it proved, and `SubmitProof` calls `settle` with any
proof, at any time, also twice. The host never waits for the chain. `paid` is
history. Orders are left out: nobody trades, so each account's money can be
followed through queue, ledger, payout and claim (`EveryoneKeepsTheirs`). The guest
is the guest of `Settlement`, stage by stage.

### Patricia and MerkleTrees

Keys of `Bits` bits instead of 160 (an address has 20 bytes) and symbolic hashes: a node is a record of its
children and its key range. `Subtree`, `SideNodes` and `Combine` are the recursive
functions of `patricia.rs`; an error of the code is the empty set. `VerifyAccount` is
`PatriciaProof.sol`. A small state machine (`WitnessFor`, `Change`, `Apply`) takes
a witness, changes or adds accounts under it and applies it, as a batch does.
`MerkleTrees` states the other two trees of `crates/core/src/trees` over the leaves
of that machine. A proof of either is a stream of subtree roots that builder and
reader have to walk alike; the sparse tree replaces empty subtrees by bits of a
padded bitmap, whose "bytes" have `ByteBits` bits here. `EmptyHash` is the recursion
whose results `smt_empty_hashes.rs` tabulates. The sparse reader accepts a proof that
sends an empty subtree as a side node although a zero bit would do, so
`SparseProofsAreCanonical` speaks of proofs without such nodes; the root is the same.
`MCPatricia` instantiates both modules twice, `Wide` and `Narrow`, and states each property for
the instances it is checked of.

### Commitments

A byte string is a sequence of units, a field takes `Width` units, a hash is one
unit, and SHA-256 is injective on (domain string, bytes). Two documents of one kind
grow entry by entry: `written` is what the contract, the deployer or a trader holds,
`read` what the host gives the guest in its place. Each property says that the hash
the code computes on one side equals the other side's exactly when the documents are
equal. Domain strings are hashed as unseparated prefixes; none in the code is a
prefix of another, which is what lets a domain be a component of its own here.

## 3. Runs

A property that names several (`TermsHonoured`, `LedgerSound`, `PatriciaCommits`,
`LanguagesAgree` and the like) is the conjunction of parts stated one by one in its
module. All bounds are CONSTANTs named in the `.cfg` files or definitions of the MC module.

| run | instance | shows |
|---|---|---|
| `contract_core` (571 k states) | 2 accounts, 1 asset, amount 1, 2 deposits, 1 request, 2 proofs in flight | type correctness, `Backed`, `ExactlyOnce`, `EscapeIsFinal`, and that both queues implement `InputQueue` |
| `contract_tokens` (246 k) | 2 assets, one not configured; a token that delivers 1 when asked for 2; 2 deployments | `Backed` |
| `contract_deadlines` (50 k) | 2 requests, time 0..3, delay 1, a batch may take both | `OverdueIsActionable`; `ForcedRequestsResolve` and `EscapersPaid` under fairness |
| `matching_books` (1.0 M) | two markets over the same assets and accounts, up to 2 orders a side and 4 in all, 2 prices, 2 quantities, 3 traders of whom one is on both sides, balances that run out | type, priority, maximality, limits, fees, conservation; nothing of the first sweep leaks into the second |
| `guest_batches` (4.2 M) | one family of batches with 2 deposits, 1 forced withdrawal, 1 withdrawal with arbitrary indices, amounts at the limits, flaws, honest and 6 tampered witnesses; another with 2 orders and a withdrawal, arbitrary nonces, sequences, indices and books | type, `GuestHonoursContract`, `LossesAuthorised`, `ConservationNeverTrips`, `NoncesUsedUp`, `NoOrderLeftOut` |
| `operator_batches` (684 k) | up to 3 entries a batch, several batches, 5 entries in all; a deposit opens an account before others; requests of an account behind all others that is not in the tree | `LedgerSound` (form, and backing by what came in), `BatchesFollowOn` (the host follows the guest, nothing is replayed), `BuiltIsWellFormed`, `ForcedDrainsMin` |
| `trees` (169 k) | *wide*: 8 keys, up to 4 leaves, every set of proved keys; *narrow*: 4 keys, 2 contents, every set of nodes of the tree as a proof | Patricia and sparse proofs follow changes and insertions, each leaf provable to the contract, both verifiers agree (in both); no proof of a false ledger, to either verifier; key ranges are committed; the sparse and dense trees are sound, sparse proofs canonical, dense proofs follow changes (narrow) |
| `commitments` (1.6 M) | every kind of document, lists of up to 2 entries (2 and 1 for the configuration), every field with two values (those of operations one at a time around a common entry), units of 3 values | each hash and each signed digest says one thing, the same in Rust and Solidity |
| `exchange_whole` (132 k) | 2 accounts, one of them not in the ledger at first; 2 deposits, at most one of them of a token the guest refuses; 1 request, 1 signed withdrawal, time 0..1 | `HostAhead`, `ProofsSettle`, `EveryoneKeepsTheirs`, `ExchangeIsZkClob`; `QueuesServed` under fairness, with `QueueBatchesAccepted` |

Three runs end in a counterexample, each of a statement the repository makes:

| run | statement | what the code does |
|---|---|---|
| `unsupported_deposit` | the contract validates that a deposited asset is supported (implied by `validation.rs:87-89`) | `deposit(token, amount)` queues any token. The guest and the builder refuse it, and the queue is first in first out. |
| `operator_phantom` | a forced withdrawal drains min(requested, available) (`PROTOCOL.md:160-163`) | a request of an account that is not in the tree is counted in the ranks of the builder and not in the guest's list; requests of later accounts then miss their account and drain 0, and the cursor passes them. For the same reason their orders get an index that is not theirs, against the comment at `batch_builder.rs:251-255`, and the guest rejects the batch. |
| `guest_wrong_index` | the same, and "The operator drains `min(amount, balance)`" (`types/forced_withdrawal.rs:7-8`) | the guest looks for the account of a request only at the index the host attached (`forced_withdrawals.rs:9-23`). A host that attaches another index has an accepted batch that drains 0 from an account with a balance, and the cursor passes the request. |

The last one is what the guest leaves to the host, so `GuestContract!Drains` admits 0 beside the
minimum for every request: that is all the contract may rely on. `GuestHonoursContract` says in
addition that a request whose index is the place of its account is drained in full. What
`ForcedRequestsResolve` promises of the contract is that a request is *consumed* or escape
mode opens; one drained with 0 under a wrong index counts as consumed, and its deadline can no
longer open escape mode. A censored account is the subject of these two findings and not of that property.

`operator_batches` keeps the absent requester behind all other accounts (id 5),
where it shifts nobody: the same properties hold there.

**Why these bounds.** The contract's hazards need two of a thing: two deposits to
be consumed out of order, two proofs for one to be stale, two requests for one to
hide the other, two payouts for one to fail; more adds repetition. Amounts 1 and 2
tell "delivered less" from "delivered" and "partly drained" from "drained"; the
second asset of `contract_tokens` separates configured from not. Prices 2 and 3
with scale 2 make every quote of an odd quantity round, and 30 % or 50 % fees round
as well; two orders a side give every pattern of partial fill at both ends. The
limit values of `Limits` and `MaxAmount` are set so that a batch can reach each.
In `commitments` an address takes one unit and a 16-byte integer one, so a market
(a 32-byte id and two addresses) is as long as two assets, as it is in the code (72
and twice 36 bytes): lists that could be mistaken for each other do occur, and the
mutant that leaves out the lengths is found that way. In `exchange_whole` one of
each input is the least for which a batch can hold a mixture, be rejected, be
overtaken by escape mode or lie unsettled while the next one is built.
Eight keys are the fewest for which a proof has two side nodes at different depths
on both sides of a key; four leaves make each shape of three-level tree.

**Fairness** is assumed in two runs.

`contract_deadlines` (`FairSpec`): weak fairness of the payouts (a transaction that
started ends), strong fairness of `Tick` (blocks keep being made, also when
transactions keep coming between them), weak fairness of `ActivateEscapeMode` and
strong fairness of `escapeWithdraw` with the account's current leaf, for each
account. The last two are assumptions about people and not about the operator:
functions open to all are called by whoever has an interest, again if need be, for
an attempt may revert because a token fails or another transaction came first.
Nothing is assumed of the operator, which is what these properties are about.

`exchange_whole` (`FairExchange`): there the operator works. Proofs are submitted and
payouts end (weak fairness), the operator "periodically reads pending deposits"
(PROTOCOL.md:75) and finishes the batches it began, and it keeps making batches of
queue entries alone (strong fairness of collecting and working while no signed
withdrawal is in the builder). Without the last, an operator could build the same
rejected mixture for ever; with it, `QueuesServed` says that queue batches
cannot be rejected, that a refused deposit does not hold up the forced
withdrawals, and that everything else is consumed or ends in escape mode.

**Deadlock** is checked for the trees, whose life never ends. The other
specifications stop by their bounds (time, queues, proofs, entries) or because a
call of `settle_batch` ends; their `.cfg` files say so.

## 4. What is proved

### Assumptions

| assumption | says | why it may be assumed |
|---|---|---|
| `AddressAssumption`, `AmountAssumption` (`ZkClob`) | finitely many accounts, one of them the fee account; there is an asset; configured assets are assets; `AssetOrder` enumerates the assets without repetition; inputs are positive, bounds are naturals | addresses have 20 bytes, ETH is always an asset, `deposit` and `requestForcedWithdrawal` refuse 0 |
| `ExchangeAssumption` (`AccountTypes`) | markets have numbers, scales belong to assets, `BuyerFeeBps` and `MaxAmount` are naturals | Rust types of `ExchangeConfig` |
| `SettlementAssumption` (`Settlement`) | account ids are integers (the order of addresses), the limits are naturals | Rust types |
| `OperatorAssumption` (`Operator`) | the fee recipient is an account, a batch may touch at least one, the other limits are naturals, there are finitely many markets | `ExchangeConfig` lists its markets; `MAX_TOUCHED_ACCOUNTS_PER_BATCH` is 1001, the others are `usize` |
| `WholeAssumption` (`Exchange`) | finitely many accounts; there is an asset and `AssetOrder` enumerates them; what users send in is a positive u128; bounds are naturals | as for `ZkClob`, and `deposit` and `requestForcedWithdrawal` take a `uint128` |

Nothing is assumed about the width of an amount: `MaxAmount` and `Limits` are any
naturals, so the theorems hold of u128 and u64 as of the small numbers of the runs.
Nothing is assumed of a configuration to be good, such as scales other than zero: the
guest checks what it needs.

`SettleSpec` starts from any input with its Rust types (`BatchIn`), however
dishonest: wrong witness, wrong indices, any books. TLC evaluated `BatchIn` on every
input of `guest_batches`; all satisfy it. `MatchSpec`, the matching engine alone,
starts from an account list and books that are `Validated`. That is no assumption in
the pipeline: `PipelineMatches` proves that the books the guest's own checks let
through are such. Every reachable state of `matching_books` is `Validated` as well.
So no theorem is vacuous, and the theorems cover the instances checked.
`HostSpec` is the host of `Operator` given anything: any well-formed ledger to start
from, and at each step any queue entry, order or withdrawal with its Rust types,
signed or not. `ExchangeSpec` is the specification `exchange_whole` checks, without
its fairness.

### Theorems

Of the contract, from any of its histories. Each is proved for `AnySpec`, where provers may
prove batches of any size that `Admits` allows (`ProveAny`), at any time, and not only the
few small ones `Prove` enumerates for TLC; `SpecIsAny` (`Spec => AnySpec`) carries it to
`Spec`:

| theorem | statement |
|---|---|
| `TypeCorrect` | `Spec => []TypeOK`: in particular neither the vault nor a pending withdrawal is ever negative, and the reentrancy guard is held exactly while payouts are owed |
| `ConsumedExactlyOnce` | `Spec => []ExactlyOnce` |
| `OldestIsFirstDue` | `Spec => []OverdueIsActionable` |
| `EscapeModeIsFinal` | `Spec => EscapeIsFinal` |
| `DepositQueueImplemented`, `RequestQueueImplemented`, `InputQueuesImplemented` | `Spec` implements `InputQueue`, for each of the two queues and for both (`InputsTakenInOrder`) |
| `Solvency` | `Spec => []Backed`: the contract holds of each asset exactly what it owes |
| `NobodyFindsItShort` | `Spec => []ClaimsCovered`: no single payout, parked claim or escaped balance is larger than what the contract holds |

Of the matching engine, for any validated books:

| theorem | statement |
|---|---|
| `MatchTypes` | `MatchSpec => []MatchTypeOK` |
| `MatchingConserves` | `MatchSpec => TradesConserve` |
| `NoOverfill` | `MatchSpec => []FillsAddUp` |
| `PriorityHolds` | `MatchSpec => []PriceTimePriority` |
| `MatchingIsMaximal` | `MatchSpec => []NoCrossLeft` |
| `TermsHold` | `MatchSpec => []TermsHonoured` |

Of `settle_batch`, for any input:

| theorem | statement |
|---|---|
| `SettlementTypes` | `SettleSpec => []SettlementTypeOK` |
| `ConservationHolds` | `SettleSpec => []ConservationNeverTrips` |
| `NobodyIsLeftOut` | `SettleSpec => []NoOrderLeftOut` |
| `NoReplay` | `SettleSpec => []NoncesUsedUp` |
| `ContractHonoured` | `SettleSpec => []GuestHonoursContract`: every accepted batch is one `GuestContract!Admits`, and each forced withdrawal whose index is the place of its account takes all it may |
| `LossesAreAuthorised` | `SettleSpec => []LossesAuthorised` |
| `PipelineMatches` | the guarantees of the matching engine hold inside the pipeline |

Of the host, over any number of batches, whatever users hand in:

| theorem | statement |
|---|---|
| `HostHolds` | `HostSpec => []HostInv`, the invariant behind the next ones |
| `HostLedgerSound` | `HostSpec => []LedgerSound`: the ledger is well formed and holds what came in and was not paid out |
| `HostBatchesFollowOn` | `HostSpec => BatchesFollowOn`: the ledger is the one the last batch committed to, and no account and nonce is accepted twice |
| `HostDrainsMin` | `HostSpec => []` of: with the repository's builder, a request drains the lesser of its amount and what its account has at its turn, unless an account that is neither in the tree nor opened by a deposit comes before it in the batch; so `ForcedDrainsMin`, where such accounts come last |
| `HostCollects` | `HostSpec => []BuildInv`: what the builder has asked of the entries still holds of all of them together when the guest gets them |
| `HostBuildsWellFormed` | `HostSpec` gives `BuiltIsWellFormed` of every batch that is `Orderly`, step by step and so also `[]Orderly => BuiltIsWellFormed`; the part about the books holds of every batch |

Of the exchange as a whole:

| theorem | statement |
|---|---|
| `ExchangeHolds` | `ExchangeSpec => []ExchangeInv`, the invariant behind the next ones |
| `ExchangeHostAhead` | `ExchangeSpec => []HostAhead` |
| `ExchangeProofsSettle` | `ExchangeSpec => []ProofsSettle`: no batch the host makes is lost to the contract, but to escape mode |
| `ExchangeImplementsZkClob` | `ExchangeSpec => ExchangeIsZkClob`: the whole implements `ZkClob` |
| `ExchangeKeepsTheirs` | `ExchangeSpec => []EveryoneKeepsTheirs` |
| `ExchangeRefinesContract` | `ExchangeSpec => Contract!AnySpec`: the whole implements the contract with any provers |
| `ExchangeIsSolvent` | `ExchangeSpec => [](Backed /\ ClaimsCovered)` of the contract: the whole is solvent |
| `ExchangeConsumesInOrder` | `ExchangeSpec` gives `ExactlyOnce`, `OverdueIsActionable`, the abstract queues and `EscapeIsFinal` of the contract |

`Solvency` rests on the assumption that proofs say what `Admits` says; `ContractHonoured`
proves that `settle_batch` says no more than that. The two theorems meet in
`GuestContract`, and `ExchangeImplementsZkClob` is the proof that they fit: every step of
the host, the guest and the chain together is a step of `ZkClob` or leaves the contract
alone. `ExchangeRefinesContract` says the same of `AnySpec`, for which the theorems about
the contract are proved; so they hold of the contract with this host and guest behind it
(`ExchangeIsSolvent`, `ExchangeConsumesInOrder`), and the assumption about proofs is gone but
for what the SP1 verifier promises: that a proof is of a run the guest accepted.

### The arguments

**The queues** (`ZkClobProofs`). `ExactlyOnce` says that what batches claimed to consume
is the prefix of the queue below the cursor. It is not inductive alone: `SubSeq` beyond
the end of a queue says nothing, so `QueueInv` adds that both cursors stay within
their queues, which `Settle` maintains because `ValidOutput` and `ValidForcedCursor`
bound the new cursors. A settlement then appends `SubSeq(queue, old + 1, new)`, equal
to the proof's claim by `ValidConsumedInputs`, to `SubSeq(queue, 1, old)`; the lemmas on
sequences (`SubSeqType`, `HashedSubSeq`, `HashedAppend` and the like) do the rest.
`OverdueIsActionable` needs `DeadlineInv`: deadlines in the queue are non-decreasing and
none lies more than `Delay` after `now`; a new request gets `now + Delay`, so it can go
to the end, and time only grows. `EscapeIsFinal` and the implementation theorems are
step facts under `TypeOK` and `QueueInv`.

**Solvency** (`ZkClobProofs`). `Backed` compares the vault with four sums: what the
last root still owes accounts that have not escaped, the deposits behind the cursor,
the payouts of the running transaction, the parked claims. Each action moves an
amount between two of them or between one and the vault. `SolventInv` adds what
`Settle` and `EscapeWithdraw` need: each proof in circulation conserves value over what
it consumes (`ProofsConserve`), and nobody has escaped outside escape mode
(`EscapedInEscapeMode`), so that no settlement brings back a balance that was paid out.

**The sweep** (`MatchingProofs`). `SweepInv` says where the sweep stands in terms of the
trades made: orders before the two positions are filled, those behind them have not
traded, the remainders are quantity minus the sum of the fills, books before the
current one are done and those after it untouched. From this follow `FillsAddUp`,
`PriceTimePriority` and, at the end, `NoCrossLeft`. That sequence numbers are unique
over the batch is used throughout: a trade names its orders by them. `TermsInv` bounds
the sums of quotes and fees over the fills of one order; the arithmetic is that
rounding down once per fill only ever favours the buyer's bound, and costs a seller
less than a unit each time.

**The pipeline** (`WitnessProofs`, `SettlementProofs`). Three invariants, each on top of
the one before. `SettleInv` says, stage by stage, what has been established: the
account list is a canonical witness, the tracker plus what the accounts hold is what
came in, the checks passed so far hold, and from matching on the books are
`Validated` and `SweepInv` holds. `LedgerInv` relates the account list to the input:
who is listed, which nonces are used up, what deposits, executed requests and
withdrawals have moved for each account and asset; it gives `NoncesUsedUp` and
`GuestHonoursContract`. `LossInv` bounds what trading has taken from anybody by the
cost of the fills of that account's orders; with `TermsInv` these are within what the
owner signed, hence `LossesAuthorised`. The lemma `TradeCosts` is where buyer, seller
and fee account may be one and the same.

**The host** (`OperatorProofs`). The guest does not trust the host, so `HostInv` has to say
little of what the builder collected: its types and whose entries they are. While a
batch is with the guest (`WithGuest`) the input is what `build` made of the draft and
the guest's invariants hold of it. `RootMatches` lets the batch pass only if the old root is
the one of the tree; then `Applied`, account by account, is the new root the guest
committed to. `Backing` follows from what `ContractHonoured` says of totals. `SpentOK`,
that every spent nonce lies below its account's next one, is what makes `NeverReplayed`
inductive: the guest takes nonces from the account's next one on and leaves them used
up (`NoncesUsedUp`). For `HostDrainsMin`, `DrainedInTurn` says that a request whose index is the
rank of its account among those of the witness and the deposits (`RightlyIndexed`) takes
all it may; the builder attaches the rank among the touched accounts, which is the same
unless one that is nowhere comes before (`RanksAreRight`). With the builder of
the repository the finding of `operator_phantom` is thus the only way a request gets too little; a
host that does not use it has another (`guest_wrong_index`).

**What `build` predicts** (`OperatorProofs`). The builder checks entries one at a time, against
the ledger and what it has collected so far; the guest checks the batch as a whole. `BuildInv`
says what the first amounts to: `Collected` holds of the lists together (ids that follow on,
withdrawals that with those before them stay within the balance, no nonce twice), and
`NoncesContiguous` once `build` has let the batch through. Then each check of the guest is met in turn.
*Validation* (`BuiltIsValid`): the witness lists the touched accounts of the tree and commits to it
(`WitnessIsAccepted`, `WitnessCommits`), the tracker starts within its type because the listed
accounts hold no more than came in (`ListedIsBacked`) and the withdrawals no more than they hold
(`WithdrawalsAreBacked`). *Deposits* (`BuiltDepositsFit`): by induction over the list, each finds room among
the touched accounts and a balance that cannot overflow. *Operations* (`BuiltWithdrawalsValid`,
`BuiltOrdersValid`, `BuiltNoncesValid`): after the deposits the rank of an account is its place
(`RankIsPlace`), so the operations at a place are its owner's, one for each nonce (`OneNonceEach`).
*Books* (`BuiltBooksValid`): a side of a market can be sorted because no two orders have the same
sequence (`SidesSort`). `Orderly` is what this takes beyond the builder's own checks: the
configuration is one `settle_batch` accepts, the fee recipient has an account, operations are signed, the sum of
what came in and is coming in fits an amount, the cursors after the batch fit u64, and touched accounts that are
nowhere come last. `build` looks at none of these. TLC finds orderly batches that settle
with trades, and orderly ones the guest still rejects for want of balance.

**The exchange** (`ExchangeProofs`). A *place* is a ledger with the two cursors that go
with it. `ExchangeInv` says that the proofs form a chain of places: the batch the
contract expects starts where the contract is, each later one where the one before it
ended, the last one ends where the host is. It holds because the entries the host
takes are those behind its own cursors (`DraftTaken`), and because queues only grow
at their ends, so what a proof says it consumed stays what the queue holds (`ProofOK`).
`HostAhead` and `ProofsSettle` follow from it. For `ExchangeImplementsZkClob` each step is
mapped; the one that has to be argued is `ApplyAndProve`, which is a `Prove` of
`ZkClob` because `ContractHonoured` gives `Admits` of the guest's lists and `PlainAdmits` carries
that over to the lists the contract sees. For `ExchangeRefinesContract` that step is a
`ProveAny` (`ProvingIsProve`), which asks the lists only to have their types
(`ProofTypes`); the other steps carry over because the instance of `ZkClob` in
`Exchange` and the one of `ZkClobProofs` have the same definitions (`SameSteps`,
`SameAdmits`).

**Whose money it is** (`ExchangeProofs`). `KeepInv` follows each account and asset: what was
credited to an account is in the settled ledger, claimable, paid out, or still owed by
the running transaction. `ExactInv` sharpens the guest's `LedgerInv` for batches without
orders: an account has exactly its old balance plus its deposits minus what was drained
and withdrawn. Each proof therefore keeps everybody's money (`ProofKeeps`), a settlement
turns the proof's lists into payouts (`SettlingKeeps`), and a payout moves an amount
from owed to paid or claimable (`MovingKeeps`).

**Tools.** TLAPS cannot instantiate an induction theorem with an operator here, so
induction is done by minimal counterexample: `SubsetInduction` and `CountingInduction` in
`SumTheorems` speak of sets instead of predicates, and the facts on sums over finite
sets follow from the first. `FoldTheorems` unrolls a left fold over a sequence and is
instantiated once per loop body (debits and credits of a trade, deposits).

### Only model-checked

- The liveness properties `ForcedRequestsResolve`, `EscapersPaid` and `QueuesServed`:
  liveness under fairness is beyond this prover.
- `BuiltIsWellFormed` and `ForcedDrainsMin` as they stand, without a condition. Neither holds of
  `HostSpec`: an account that is not in the tree shifts the ranks of those behind it
  (`operator_phantom`), and operations may be unsigned and the ledger too large for the tracker. They
  hold of the instance of `operator_batches`, where such an account comes last, operations are signed
  and amounts fit; under these conditions they are proved of every instance
  (`HostBuildsWellFormed`, `HostDrainsMin`).
- The trees: `Patricia` and `MerkleTrees` use recursive operators, of which TLAPS proves
  nothing. What a recursive definition computes for every input would need induction
  over data.
- The encodings (`Commitments`): byte strings are made by flattening and with powers,
  which the provers do not know.

## 5. What is not modelled

- SHA-256 itself: it is taken to be injective. The encodings are modelled in units
  with the order and relative widths of the code (`Commitments`); single bytes, and
  the `abi.encode` of the public output that `settle` decodes, are not.
- secp256k1 recovery, its low-s rule included: an operation is signed by its owner or
  not. What is signed is modelled.
- The widths of ids, nonces in the contract and timestamps (`uint64`, `uint256`):
  no run of the system reaches them. The guest's `u64` nonces and `u128` amounts
  do have limits in the model (`Limits.u64`, `MaxAmount`).
- The command line of the host, fixtures and test support.
- Trading in `Exchange` (it is in `Operator`), and a crash of the operator: the
  repository persists nothing, so a restart is a new host that has to learn the
  ledger from elsewhere. README.md:103-111 names that as a trust assumption.
- Older ledgers. `AccountTree` keeps the newest one; when escape mode starts with
  batches in flight the root the contract froze is an earlier one, whose leaves the
  service has to have kept. In the model an account always can present its leaf.
- A token whose supply passes `u128::MAX`: `Account::credit` would then reject the
  batch at the head of the deposit queue. `QueuesServed` is checked for amounts whose
  sum stays below `MaxAmount`.
- The SP1 verifier, the ERC-20 tokens and OpenZeppelin are external, modelled from
  how the contract uses them: `verifyProof` accepts exactly what was proved, a
  token may deliver less than asked, a transfer may fail or call back. A token that
  changes balances at other times, or a plain transfer to the contract, is not.

- A deployment that takes over a ledger. The constructor accepts any root and batch id;
  `Init` passes it those of the state that holds the fee account alone, for of any other root the
  repository does not say who funds it.
- A payout whose recipient is the contract itself. `PaySucceed` always takes the amount from
  `vault`; a token transfer to the contract would leave it there, as a surplus nobody is owed.
- `account_index` left out (`None`) by the host. A deposit, order or withdrawal without one makes the
  guest panic (`deposits.rs:6`, `validation.rs:15`), so there is no proof, as after a rejection. A
  forced withdrawal without one drains 0, as with an index outside the list, which is in the model.
- Which error a rejected batch reports: `Reject` stands for all of `SettlementError`.
- The operators that feed a model are no translations and so not in the `map` of `PROJECT.json`: what provers,
  users and dishonest hosts may try (`Bases`, `BatchSizes`, `ClaimedInputs`, `SignedWithdrawals` in
  `ZkClob`), and the service between builder and contract (`Proceed` in `Operator`; `Numbered`,
  `RunBatch`, `Work` in `Exchange`), of which the repository has no loop.

## 6. Plan

Done: the contract with its abstract queue and guest contract; matching; the guest;
the host; the three trees; the encodings; the exchange as a whole, its liveness
with a working operator and that of escape mode; proofs of every safety property of
the contract, the matching engine, the guest, the host and the exchange as a whole.

What is left:

1. **Absent accounts.** Once the builder leaves touched accounts that are nowhere out of its
   ranks, `PhantomsLast` can go from the conditions of `HostDrainsMin` and `HostBuildsWellFormed`, and the
   finding of `operator_phantom` with it.
2. **Proofs about the encodings.** Injectivity of lists of entries of a fixed width.
3. **Inputs that escape mode strands.** What escape mode owes a depositor whose
   deposit was never consumed is not stated anywhere in the repository; the model
   counts it as owed (`Backed`), and the contract has no function that pays it.
