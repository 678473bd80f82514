------------------------------ MODULE Operator ------------------------------
(***************************************************************************)
(* The host that runs the exchange off chain: BatchBuilder collects the     *)
(* queue entries and signed operations of a batch and builds the input of   *)
(* the guest, Settlement.tla runs the guest on it, and AccountTree.apply    *)
(* brings the host's own copy of the ledger up to date.                     *)
(*                                                                         *)
(* The repository has no service that drives these parts from batch to      *)
(* batch; its tests do (crates/host/tests/batch_builder.rs), and this       *)
(* module follows them: build, settle, apply, and a new builder.  A builder *)
(* is used up by build, and a batch the guest rejects leaves no trace.      *)
(***************************************************************************)
EXTENDS Settlement

\* MAX_TOUCHED_ACCOUNTS_PER_BATCH leaves room for the fee recipient.
ASSUME OperatorAssumption ==
    /\ FeeRecipient \in Ids /\ Limits.accounts # 0 /\ IsFiniteSet(DOMAIN Markets)
    /\ {Limits.orders, Limits.deposits, Limits.withdrawals, Limits.forced,
        Limits.markets} \subseteq Nat

VARIABLES
    tree,       \* AccountTree: the accounts by id
    draft,      \* the lists and touched_accounts of the BatchBuilder
    cursors,    \* the next deposit and forced withdrawal id to consume
    custody,    \* what has come in minus what has been paid out, by asset
    spent       \* nonces of the accepted operations, as <<account, nonce>>

hostVars == <<tree, draft, cursors, custody, spent>>
operatorVars == <<settleVars, hostVars>>

\* Fault: leaves the fee recipient to the entries.
BuilderWithoutFees ==
    [deposits |-> <<>>, forced |-> <<>>, orders |-> <<>>, withdrawals |-> <<>>, touched |-> {}]

NewBuilder ==
    [deposits |-> <<>>, forced |-> <<>>, orders |-> <<>>, withdrawals |-> <<>>,
     touched |-> {FeeRecipient}]

NextNonce(id) == IF id \in DOMAIN tree THEN tree[id].nonce ELSE 0

NoncesOf(id) ==
    {draft.orders[i].nonce : i \in {i \in DOMAIN draft.orders : draft.orders[i].trader = id}}
    \cup {draft.withdrawals[i].nonce :
            i \in {i \in DOMAIN draft.withdrawals : draft.withdrawals[i].account = id}}

\* The builder turns down an account beyond MAX_TOUCHED_ACCOUNTS_PER_BATCH.
MayTouch(id) == id \in draft.touched \/ Cardinality(draft.touched) < Limits.accounts

Put(kind, entry, id) ==
    /\ draft' = [draft EXCEPT ![kind] = Append(@, entry), !.touched = @ \cup {id}]
    /\ UNCHANGED <<settleVars, tree, cursors, custody, spent>>

Deposit(d) ==
    /\ stage = "building"
    /\ Len(draft.deposits) < Limits.deposits
    /\ d.id = cursors.deposits + Len(draft.deposits) /\ d.id =< Limits.u64
    /\ d.amount # 0 /\ d.asset \in Configured
    /\ MayTouch(d.account)
    /\ Put("deposits", d, d.account)

ForcedWithdraw(r) ==
    /\ stage = "building"
    /\ Len(draft.forced) < Limits.forced
    /\ r.id = cursors.forced + Len(draft.forced) /\ r.id =< Limits.u64
    /\ r.amount # 0
    /\ MayTouch(r.account)
    /\ Put("forced", r, r.account)

PlaceOrder(o) ==
    /\ stage = "building"
    /\ Len(draft.orders) < Limits.orders
    /\ o.price # 0 /\ o.quantity # 0
    /\ \/ o.trader \in DOMAIN tree
       \/ \E i \in DOMAIN draft.deposits : draft.deposits[i].account = o.trader
    /\ o.market \in DOMAIN Markets
    /\ \A i \in DOMAIN draft.orders : draft.orders[i].sequence # o.sequence
    /\ o.nonce >= NextNonce(o.trader) /\ o.nonce \notin NoncesOf(o.trader)
    /\ MayTouch(o.trader)
    /\ Put("orders", o, o.trader)

\* The balance is the one before the batch: what other entries of the batch
\* add or take is not seen here.
Withdraw(w) ==
    /\ stage = "building"
    /\ Len(draft.withdrawals) < Limits.withdrawals
    /\ w.amount # 0 /\ w.asset \in Configured
    /\ w.account \in DOMAIN tree
    /\ Guest!MovedBy(draft.withdrawals, DOMAIN draft.withdrawals, w.account, w.asset) + w.amount
         =< Balance(tree[w.account], w.asset)
    /\ w.nonce >= NextNonce(w.account) /\ w.nonce \notin NoncesOf(w.account)
    /\ MayTouch(w.account)
    /\ Put("withdrawals", w, w.account)

\* Fault: leaves gaps in the nonces to the guest.
NoncesAnyhow == \A id \in draft.touched : NoncesOf(id) \subseteq Nat

\* The nonces collected for an account follow on from its next one, and the
\* one after them is a nonce too.
NoncesContiguous ==
    \A id \in draft.touched :
        /\ NoncesOf(id) = NextNonce(id)..(NextNonce(id) + Cardinality(NoncesOf(id)) - 1)
        /\ NextNonce(id) + Cardinality(NoncesOf(id)) =< Limits.u64

Ascending(ids) == CHOOSE s \in SetToSeqs(ids) : \A i \in 1..(Len(s) - 1) : s[i] < s[i + 1]

\* State::witness_for: the touched accounts that exist, with a proof for all keys.
Witness == [i \in DOMAIN Ascending(draft.touched \cap DOMAIN tree) |->
                tree[Ascending(draft.touched \cap DOMAIN tree)[i]]]

Untouched == [id \in DOMAIN tree \ draft.touched |-> tree[id]]

\* Fault: the rank among the accounts the tree already has.
RankInTree(id) == Cardinality({j \in draft.touched \cap DOMAIN tree : j < id}) + 1

\* The account_index of build: the rank among the touched accounts.
Rank(id) == Cardinality({j \in draft.touched : j < id}) + 1

IndexedInputs(list) == [i \in DOMAIN list |->
    [id |-> list[i].id, account |-> list[i].account, asset |-> list[i].asset,
     amount |-> list[i].amount, index |-> Rank(list[i].account)]]

IndexedOrders == [i \in DOMAIN draft.orders |->
    LET o == draft.orders[i]
    IN  [market |-> o.market, side |-> o.side, price |-> o.price, quantity |-> o.quantity,
         nonce |-> o.nonce, trader |-> o.trader, sequence |-> o.sequence, signed |-> o.signed,
         index |-> Rank(o.trader)]]

IndexedWithdrawals == [i \in DOMAIN draft.withdrawals |->
    LET w == draft.withdrawals[i]
    IN  [account |-> w.account, recipient |-> w.recipient, asset |-> w.asset,
         amount |-> w.amount, nonce |-> w.nonce, signed |-> w.signed,
         index |-> Rank(w.account)]]

\* The indices of the orders of a market and side, best first.
SortedSide(m, side) ==
    CHOOSE s \in SetToSeqs({i \in DOMAIN draft.orders : /\ draft.orders[i].market = m
                                                       /\ draft.orders[i].side = side}) :
        \A i \in 1..(Len(s) - 1) : Precedes(draft.orders[s[i]], draft.orders[s[i + 1]])

SortedBooks ==
    LET used == Ascending({draft.orders[i].market : i \in DOMAIN draft.orders})
    IN  [k \in DOMAIN used |-> [market |-> used[k], buys |-> SortedSide(used[k], "buy"),
                                sells |-> SortedSide(used[k], "sell")]]

BatchInput ==
    [accounts |-> Witness, keys |-> draft.touched, rest |-> Untouched, expectedRoot |-> tree,
     depositCursor |-> cursors.deposits, deposits |-> IndexedInputs(draft.deposits),
     forcedCursor |-> cursors.forced, forced |-> IndexedInputs(draft.forced),
     orders |-> IndexedOrders, withdrawals |-> IndexedWithdrawals,
     orderBooks |-> SortedBooks]

Build ==
    /\ stage = "building" /\ NoncesContiguous
    /\ input' = BatchInput
    /\ stage' = "validate"
    /\ UNCHANGED <<accounts, books, sweep, trades, tracker, drained, output, hostVars>>

\* build takes the builder by value: its entries are gone on an error too.
BuildFails ==
    /\ stage = "building" /\ ~NoncesContiguous
    /\ draft' = NewBuilder
    /\ UNCHANGED <<settleVars, tree, cursors, custody, spent>>

Settle == SettleNext /\ UNCHANGED hostVars

\* Fault: accounts the batch opened are not inserted.
AppliedToExisting(t, updated) ==
    [id \in DOMAIN t |->
        IF \E i \in DOMAIN updated : updated[i].id = id
        THEN CHOOSE a \in ToSet(updated) : a.id = id ELSE t[id]]

\* AccountTree.apply replaces the accounts it has and inserts the others.
Applied(t, updated) ==
    [id \in DOMAIN t \cup {updated[i].id : i \in DOMAIN updated} |->
        IF \E i \in DOMAIN updated : updated[i].id = id
        THEN CHOOSE a \in ToSet(updated) : a.id = id ELSE t[id]]

\* The locals of settle_batch and the used-up builder are gone.
NextBatch ==
    /\ stage' = "building" /\ draft' = NewBuilder
    /\ input' = <<>> /\ output' = <<>>
    /\ accounts' = <<>> /\ books' = <<>> /\ trades' = <<>> /\ StartOfBook(1)
    /\ tracker' = [x \in Assets |-> 0] /\ drained' = <<>>

Apply ==
    /\ stage = "settled"
    /\ tree' = Applied(tree, output.accounts)
    /\ cursors' = [deposits |-> output.newDepositCursor,
                   forced   |-> output.oldForcedCursor + Len(output.forced)]
    /\ custody' = [x \in Assets |-> custody[x] + Total(input.deposits, x)
                                      - Total(output.forced, x) - Total(output.withdrawals, x)]
    /\ spent' = spent \cup {<<IF "trader" \in DOMAIN op THEN op.trader ELSE op.account, op.nonce>> :
                              op \in ToSet(Operations)}
    /\ NextBatch

Abandon ==
    /\ stage = "rejected"
    /\ NextBatch
    /\ UNCHANGED <<tree, cursors, custody, spent>>

OperatorInit(accs) ==
    /\ stage = "building" /\ Called(<<>>)
    /\ tree = accs
    /\ draft = NewBuilder
    /\ cursors = [deposits |-> 0, forced |-> 0]
    /\ custody = [x \in Assets |-> SumFunction([id \in DOMAIN accs |-> Balance(accs[id], x)])]
    /\ spent = {}

\* The steps that take no entry from outside.
Proceed == Build \/ BuildFails \/ Settle \/ Apply \/ Abandon

-----------------------------------------------------------------------------
(* Properties.                                                             *)

\* The accounts of the host keep the form a witness must have, and the builder
\* never collects more than a batch may hold (batch_builder.rs:57-234).
OperatorTypeOK ==
    /\ \A id \in DOMAIN tree :
          /\ tree[id].id = id /\ tree[id].nonce \in 0..Limits.u64
          /\ \A x \in DOMAIN tree[id].balances : tree[id].balances[x] \in 1..MaxAmount
    /\ Cardinality(draft.touched) =< Limits.accounts
    /\ {draft.orders[i].trader : i \in DOMAIN draft.orders} \subseteq draft.touched

\* The host's copy of the ledger is the one the last accepted batch committed
\* to, new accounts and removed balances included (account_tree.rs:43-79).
HostFollowsGuest ==
    [][stage = "settled" => tree' = output.newRoot]_operatorVars

\* Over any number of batches the ledger holds what came in and was not paid
\* out (mod.rs:88-117, account_tree.rs:43-79).
LedgerBacked ==
    stage = "building" =>
        \A x \in Assets :
            custody[x] = SumFunction([id \in DOMAIN tree |-> Balance(tree[id], x)])

\* The host's ledger is well formed and backed, batch after batch: one account
\* applied wrongly spoils the witness or the sums of a later batch.
LedgerSound == OperatorTypeOK /\ LedgerBacked

\* No batch accepts an operation whose account and nonce an earlier batch has
\* accepted, whatever the users resubmit (batch_builder.rs:140-153, 208-220).
NeverReplayed ==
    [][stage = "settled" =>
        \A k \in DOMAIN Operations :
            LET op == Operations[k]
                id == IF "trader" \in DOMAIN op THEN op.trader ELSE op.account
            IN  <<id, op.nonce>> \notin spent]_operatorVars

\* Each batch starts where the one before it ended: the ledger is the one that
\* batch left, and nothing it accepted is accepted again.
BatchesFollowOn == HostFollowsGuest /\ NeverReplayed

\* A batch the builder lets through is well formed for the guest: the queues,
\* the indices, the books and the nonces it attaches are the ones settle_batch
\* checks, and only balances can still fail (batch_builder.rs:236-327).
BuiltIsWellFormed ==
    [][stage' = "rejected" =>
          /\ stage \notin {"validate", "deposits", "operations"}
          /\ stage = "apply" => ValidBooks(input.orderBooks)]_operatorVars
=============================================================================
