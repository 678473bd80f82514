----------------------------- MODULE Settlement -----------------------------
(***************************************************************************)
(* The guest program: settle_batch of crates/core/src/settlement, in the   *)
(* order of the code.  The host that prepares the input is not trusted, so  *)
(* an input is any record the types allow; the guest either rejects it or   *)
(* ends in "settled" with an output, and only then can a proof exist.       *)
(*                                                                         *)
(*   validate -> deposits -> forced -> operations -> apply                  *)
(*            -> matching (Matching.tla) -> matched -> settled              *)
(*                                                                         *)
(* A state root is the ledger it commits to: the accounts of the tree by id. *)
(* A witness is the touched accounts, the keys its multiproof covers and the *)
(* ledger its side nodes commit to.  Errors are not told apart.             *)
(***************************************************************************)
EXTENDS Matching

CONSTANTS
    Ids,        \* account ids, ordered as addresses are
    Limits      \* MAX_*_PER_BATCH, MAX_ASSETS, MAX_MARKETS and the largest u64, by name

ASSUME SettlementAssumption ==
    /\ Ids \subseteq Int
    /\ Limits.u64 \in Nat /\ Limits.accounts \in Nat

VARIABLES
    input,      \* BatchInput
    tracker,    \* AssetTracker: the units of each asset not yet accounted for
    drained,    \* executed forced withdrawals
    output      \* BatchOutput, <<>> before the end

settleVars == <<matchVars, input, tracker, drained, output>>

Configured == DOMAIN Scale

-----------------------------------------------------------------------------
(* State roots.                                                            *)

Root(accs, rest) ==
    [id \in {accs[i].id : i \in DOMAIN accs} \cup DOMAIN rest |->
        IF id \in DOMAIN rest THEN rest[id]
        ELSE CHOOSE a \in ToSet(accs) : a.id = id]

\* compute_root_from_proof refuses an account its proof has no key for and a
\* side node that covers one of its keys.
Provable(accs, witness) ==
    /\ {accs[i].id : i \in DOMAIN accs} \subseteq witness.keys
    /\ witness.keys \cap DOMAIN witness.rest = {}

-----------------------------------------------------------------------------
(* Validation of the input.                                                *)

WithinLimits ==
    /\ Len(input.accounts) =< Limits.accounts
    /\ Len(input.orders) =< Limits.orders
    /\ Len(input.deposits) =< Limits.deposits
    /\ Len(input.withdrawals) =< Limits.withdrawals
    /\ Len(input.forced) =< Limits.forced
    /\ Cardinality(Configured) =< Limits.assets
    /\ Cardinality(DOMAIN Markets) =< Limits.markets
    /\ Len(input.orderBooks) =< Limits.markets

\* Scale and Markets are functions of the ids, so that the lists of the code
\* are sorted and free of duplicates.
ValidConfig ==
    /\ \A x \in Configured : Scale[x] # 0
    /\ \A m \in DOMAIN Markets :
          /\ Markets[m].base # Markets[m].quote
          /\ {Markets[m].base, Markets[m].quote} \subseteq Configured
    /\ BuyerFeeBps =< BPS
    /\ \E i \in DOMAIN input.accounts : input.accounts[i].id = FeeRecipient

\* The entries of a queue carry consecutive ids from the cursor on.
InOrder(entries, cursor) ==
    /\ \A i \in DOMAIN entries : entries[i].id = cursor + i - 1
    /\ cursor + Len(entries) =< Limits.u64

ValidDeposits ==
    /\ InOrder(input.deposits, input.depositCursor)
    /\ \A i \in DOMAIN input.deposits :
          input.deposits[i].amount # 0 /\ input.deposits[i].asset \in Configured

ValidForcedWithdrawals ==
    /\ InOrder(input.forced, input.forcedCursor)
    /\ \A i \in DOMAIN input.forced : input.forced[i].amount # 0

RootMatches ==
    /\ Provable(input.accounts, input)
    /\ Root(input.accounts, input.rest) = input.expectedRoot

-----------------------------------------------------------------------------
(* The conservation tracker.                                               *)

Total(entries, x) ==
    SumFunction([i \in DOMAIN entries |-> IF entries[i].asset = x THEN entries[i].amount ELSE 0])

\* What is left of a total once the entries are taken out of it.
Remaining(totals, entries) == [x \in Assets |-> totals[x] - Total(entries, x)]

Baseline == [x \in Assets |-> Held(input.accounts, x) + Total(input.deposits, x)]

Fits(totals) == \A x \in Assets : totals[x] \in 0..MaxAmount

-----------------------------------------------------------------------------
(* Steps of the pipeline.                                                  *)

Reject ==
    /\ stage' = "rejected"
    /\ UNCHANGED <<accounts, books, sweep, trades, input, tracker, drained, output>>

ValidInput ==
    /\ WithinLimits /\ ValidConfig /\ Canonical(input.accounts)
    /\ ValidDeposits /\ RootMatches
    /\ Fits(Baseline) /\ Fits(Remaining(Baseline, input.withdrawals))

Validate ==
    /\ stage = "validate" /\ ValidInput
    /\ accounts' = input.accounts
    /\ tracker' = Remaining(Baseline, input.withdrawals)
    /\ stage' = "deposits"
    /\ UNCHANGED <<books, sweep, trades, input, drained, output>>

InvalidInput == stage = "validate" /\ ~ValidInput /\ Reject

\* Fault: trusts any index inside the list or just past its end.
LocateTrusting(accs, d) ==
    IF d.index \in 1..(Len(accs) + 1) THEN d.index
    ELSE Cardinality({i \in DOMAIN accs : accs[i].id < d.account}) + 1

\* locate_deposit_account: the index the host attached is used if the account
\* is there or belongs there; otherwise the sorted list is searched.  A deposit
\* without an index makes the guest panic: no batch, and so not enumerated.
Locate(accs, d) ==
    LET here   == IsAt(accs, d.index, d.account)
        before == d.index = 1 \/ (d.index - 1 \in DOMAIN accs /\ accs[d.index - 1].id < d.account)
        after  == d.index \in DOMAIN accs => d.account < accs[d.index].id
    IN  IF here \/ (before /\ after) THEN d.index
        ELSE Cardinality({i \in DOMAIN accs : accs[i].id < d.account}) + 1

\* Fault: opens a new account without crediting it.
OpenedOnly(accs, d) ==
    LET at == Locate(accs, d)
    IN  IF IsAt(accs, at, d.account)
        THEN ApplyMove(accs, [op |-> "credit", index |-> at, asset |-> d.asset, amount |-> d.amount])
        ELSE IF Len(accs) >= Limits.accounts THEN {}
        ELSE {InsertAt(accs, at, NewAccount(d.account))}

\* A deposit to an account the witness does not list opens it.
Deposited(accs, d) ==
    LET at     == Locate(accs, d)
        opened == IF IsAt(accs, at, d.account) THEN accs
                  ELSE InsertAt(accs, at, NewAccount(d.account))
    IN  IF Len(opened) > Len(accs) /\ Len(accs) >= Limits.accounts THEN {}
        ELSE ApplyMove(opened, [op |-> "credit", index |-> at,
                                asset |-> d.asset, amount |-> d.amount])

ThenDeposit(results, d) == UNION {Deposited(accs, d) : accs \in results}

WithDeposits == FoldLeft(ThenDeposit, {accounts}, input.deposits)

ApplyDeposits ==
    /\ stage = "deposits"
    /\ accounts' \in WithDeposits
    /\ stage' = "forced"
    /\ UNCHANGED <<books, sweep, trades, input, tracker, drained, output>>

DepositsFail == stage = "deposits" /\ WithDeposits = {} /\ Reject

\* Fault: a request the balance does not cover takes nothing.
DrainOrNothing(s, r) ==
    LET there     == IsAt(s.accounts, r.index, r.account)
        available == IF there THEN Balance(s.accounts[r.index], r.asset) ELSE 0
        amount    == IF r.amount =< available THEN r.amount ELSE 0
    IN  [accounts |-> IF amount = 0 THEN s.accounts
                      ELSE [s.accounts EXCEPT ![r.index] =
                                SetBalance(@, r.asset, available - amount)],
         drained  |-> Append(s.drained, [r EXCEPT !.amount = amount])]

\* Fault: drains whichever account is at the index.
DrainAtIndex(s, r) ==
    LET there     == r.index \in DOMAIN s.accounts
        available == IF there THEN Balance(s.accounts[r.index], r.asset) ELSE 0
        amount    == IF r.amount < available THEN r.amount ELSE available
    IN  [accounts |-> IF amount = 0 THEN s.accounts
                      ELSE [s.accounts EXCEPT ![r.index] =
                                SetBalance(@, r.asset, available - amount)],
         drained  |-> Append(s.drained, [r EXCEPT !.amount = amount])]

\* A request takes what there is, and nothing unless its account is at the
\* index the host attached, if it attached any; it never fails.
Drain(s, r) ==
    LET there     == IsAt(s.accounts, r.index, r.account)
        available == IF there THEN Balance(s.accounts[r.index], r.asset) ELSE 0
        amount    == IF r.amount < available THEN r.amount ELSE available
    IN  [accounts |-> IF amount = 0 THEN s.accounts
                      ELSE [s.accounts EXCEPT ![r.index] =
                                SetBalance(@, r.asset, available - amount)],
         drained  |-> Append(s.drained, [r EXCEPT !.amount = amount])]

AfterForced == FoldLeft(Drain, [accounts |-> accounts, drained |-> <<>>], input.forced)

ForcedOK == ValidForcedWithdrawals /\ Fits(Remaining(tracker, AfterForced.drained))

ApplyForced ==
    /\ stage = "forced" /\ ForcedOK
    /\ accounts' = AfterForced.accounts
    /\ drained' = AfterForced.drained
    /\ tracker' = Remaining(tracker, AfterForced.drained)
    /\ stage' = "operations"
    /\ UNCHANGED <<books, sweep, trades, input, output>>

ForcedFail == stage = "forced" /\ ~ForcedOK /\ Reject

Operations == input.orders \o input.withdrawals

\* Fault: takes an operation without its owner's signature.
UnsignedOperation(accs, op, owner) == IsAt(accs, op.index, owner)

\* An operation without an index makes the guest panic: no proof either.
ValidOperation(accs, op, owner) == op.signed /\ IsAt(accs, op.index, owner)

ValidWithdrawals ==
    \A i \in DOMAIN input.withdrawals :
        LET w == input.withdrawals[i]
        IN  /\ w.amount # 0 /\ w.asset \in Configured
            /\ ValidOperation(accounts, w, w.account)

ValidOrders ==
    /\ \A i \in DOMAIN input.orders :
          LET o == input.orders[i]
          IN  /\ o.price # 0 /\ o.quantity # 0 /\ o.market \in DOMAIN Markets
              /\ ValidOperation(accounts, o, o.trader)
    /\ \A i, j \in DOMAIN input.orders :
          input.orders[i].sequence = input.orders[j].sequence => i = j

\* How many operations of the batch are attached to position i.
OperationsAt(i) == {k \in DOMAIN Operations : Operations[k].index = i}

\* Orders and withdrawals share one nonce sequence per account; together they
\* use the next nonces, each once.
ValidNonces ==
    \A i \in DOMAIN accounts :
        LET next == accounts[i].nonce
            n    == Cardinality(OperationsAt(i))
        IN  /\ {Operations[k].nonce : k \in OperationsAt(i)} = next..(next + n - 1)
            /\ next + n =< Limits.u64

ValidateOperations ==
    /\ stage = "operations"
    /\ ValidWithdrawals /\ ValidOrders /\ ValidNonces
    /\ stage' = "apply"
    /\ UNCHANGED <<accounts, books, sweep, trades, input, tracker, drained, output>>

InvalidOperations ==
    /\ stage = "operations"
    /\ ~(ValidWithdrawals /\ ValidOrders /\ ValidNonces)
    /\ Reject

Withdrawn ==
    ApplyMoves(accounts, [i \in DOMAIN input.withdrawals |->
        [op |-> "debit", index |-> input.withdrawals[i].index,
         asset |-> input.withdrawals[i].asset, amount |-> input.withdrawals[i].amount]])

\* Fault: counts the orders only.
ConsumeOrderNonces(accs) ==
    [i \in DOMAIN accs |-> [accs[i] EXCEPT !.nonce = @ + Cardinality(
        {k \in DOMAIN input.orders : input.orders[k].index = i})]]

ConsumeNonces(accs) ==
    [i \in DOMAIN accs |-> [accs[i] EXCEPT !.nonce = @ + Cardinality(OperationsAt(i))]]

OrderAt(i) == input.orders[i]

\* validate_book_orders: orders of this market and side, best first.
ValidSide(ob, side) ==
    LET list == SideOf(ob, side)
    IN  /\ \A i \in DOMAIN list : /\ list[i] \in DOMAIN input.orders
                                  /\ OrderAt(list[i]).market = ob.market
                                  /\ OrderAt(list[i]).side = side
        /\ \A i \in 1..(Len(list) - 1) : Precedes(OrderAt(list[i]), OrderAt(list[i + 1]))

\* The places of the books: book, side and position.
Places(obs) ==
    UNION {{<<k, side, i>> : i \in DOMAIN SideOf(obs[k], side)} :
               k \in DOMAIN obs, side \in {"buy", "sell"}}

IndexAt(obs, p) == SideOf(obs[p[1]], p[2])[p[3]]

\* seen_indices: no order of the batch is in two places.
SeenOnce(obs) == \A p, q \in Places(obs) : IndexAt(obs, p) = IndexAt(obs, q) => p = q

\* Fault: does not ask for every order.
BooksMayOmit(obs) ==
    /\ \A i \in DOMAIN obs :
          /\ obs[i].buys # <<>> \/ obs[i].sells # <<>>
          /\ obs[i].market \in DOMAIN Markets
          /\ ValidSide(obs[i], "buy") /\ ValidSide(obs[i], "sell")
    /\ \A i \in 1..(Len(obs) - 1) : obs[i].market < obs[i + 1].market
    /\ SeenOnce(obs)

ValidBooks(obs) ==
    /\ \A i \in DOMAIN obs :
          /\ obs[i].buys # <<>> \/ obs[i].sells # <<>>
          /\ obs[i].market \in DOMAIN Markets
          /\ ValidSide(obs[i], "buy") /\ ValidSide(obs[i], "sell")
    /\ \A i \in 1..(Len(obs) - 1) : obs[i].market < obs[i + 1].market
    /\ SeenOnce(obs)
    /\ \A i \in DOMAIN input.orders : \E p \in Places(obs) : IndexAt(obs, p) = i

Resolved(list) == [i \in DOMAIN list |-> OrderAt(list[i])]

\* apply_withdrawals, consume_nonces and build_validated_books.
ApplyOperations ==
    /\ stage = "apply" /\ ValidBooks(input.orderBooks)
    /\ accounts' \in {ConsumeNonces(a) : a \in Withdrawn}
    /\ books' = [i \in DOMAIN input.orderBooks |->
                    [market |-> input.orderBooks[i].market,
                     buys  |-> Resolved(input.orderBooks[i].buys),
                     sells |-> Resolved(input.orderBooks[i].sells)]]
    /\ StartOfBook(1)
    /\ stage' = "matching"
    /\ UNCHANGED <<trades, input, tracker, drained, output>>

ApplyFails ==
    /\ stage = "apply" /\ (Withdrawn = {} \/ ~ValidBooks(input.orderBooks))
    /\ Reject

Match == MatchNext /\ UNCHANGED <<input, tracker, drained, output>>

\* subtract_accounts has to leave the tracker empty.
Balanced == \A x \in Assets : tracker[x] = Held(accounts, x)

\* Fault: reports the amounts requested and not the amounts drained.
OutputsAsRequested ==
    [oldRoot |-> input.expectedRoot, newRoot |-> Root(accounts, input.rest),
     oldDepositCursor |-> input.depositCursor,
     newDepositCursor |-> input.depositCursor + Len(input.deposits),
     oldForcedCursor |-> input.forcedCursor,
     accounts |-> accounts, trades |-> trades,
     withdrawals |-> input.withdrawals, forced |-> input.forced]

Outputs ==
    [oldRoot |-> input.expectedRoot, newRoot |-> Root(accounts, input.rest),
     oldDepositCursor |-> input.depositCursor,
     newDepositCursor |-> input.depositCursor + Len(input.deposits),
     oldForcedCursor |-> input.forcedCursor,
     accounts |-> accounts, trades |-> trades,
     withdrawals |-> input.withdrawals, forced |-> drained]

Conclude ==
    /\ stage = "matched" /\ Balanced /\ Provable(accounts, input)
    /\ output' = Outputs
    /\ stage' = "settled"
    /\ UNCHANGED <<accounts, books, sweep, trades, input, tracker, drained>>

CannotConclude ==
    /\ stage = "matched" /\ ~(Balanced /\ Provable(accounts, input))
    /\ Reject

SettleNext ==
    \/ Validate \/ InvalidInput
    \/ ApplyDeposits \/ DepositsFail
    \/ ApplyForced \/ ForcedFail
    \/ ValidateOperations \/ InvalidOperations
    \/ ApplyOperations \/ ApplyFails
    \/ Match
    \/ Conclude \/ CannotConclude

\* settle_batch called with an input.
Called(in) ==
    /\ input = in /\ MatchStart(<<>>, <<>>)
    /\ tracker = [x \in Assets |-> 0] /\ drained = <<>> /\ output = <<>>

-----------------------------------------------------------------------------
(* Properties.                                                             *)

\* "building": the host is still putting the input together.
Stages == {"building", "validate", "deposits", "forced", "operations", "apply",
           "matching", "matched", "settled", "rejected"}

\* From the first step to the last the account list is one the guest would
\* accept as a witness, wherever the host's indices point (deposits.rs:3-17),
\* and no checked arithmetic has gone out of range.
SettlementTypeOK ==
    /\ stage \in Stages
    /\ Canonical(accounts)
    /\ \A i \in DOMAIN accounts :
          /\ accounts[i].id \in Ids /\ accounts[i].nonce \in 0..Limits.u64
          /\ \A x \in Assets : Balance(accounts[i], x) \in 0..MaxAmount
    /\ Fits(tracker)
    /\ Len(accounts) =< Limits.accounts
    /\ Len(drained) =< Len(input.forced)

Ledger(root) == [id \in DOMAIN root |-> [x \in Assets |-> Balance(root[id], x)]]

Guest == INSTANCE GuestContract WITH Accounts <- Ids

\* Request i takes the lesser of what it asks for and what its account has at
\* its turn.
DrainsMin(i) ==
    LET r         == input.forced[i]
        available == Guest!AvailableTo(Ledger(output.oldRoot), input.deposits, output.forced,
                                       i, r.account, r.asset)
    IN  output.forced[i].amount = IF r.amount < available THEN r.amount ELSE available

\* Whatever the host puts in a batch, an accepted one does what the settlement
\* contract relies on without seeing the ledger, GuestContract!Admits
\* (mod.rs:30-141), and a request whose index is its account's place gets all
\* it may have (forced_withdrawals.rs:9-21).  A request with another index
\* may get nothing: see ForcedDrainsMin.
GuestHonoursContract ==
    stage = "settled" =>
        /\ Guest!Admits(Ledger(output.oldRoot), input.deposits, input.forced,
                        output.forced, output.withdrawals, Ledger(output.newRoot))
        /\ \A i \in DOMAIN input.forced :
              IsAt(accounts, input.forced[i].index, input.forced[i].account) => DrainsMin(i)

\* PROTOCOL.md:160-163: the guest drains min(requested_amount,
\* available_balance) from the account as the batch finds it after its deposits.
\* The guest leaves it to the host to say where the account is
\* (forced_withdrawals.rs:9-23), so this takes a host that says so rightly.
ForcedDrainsMin == stage = "settled" => \A i \in DOMAIN input.forced : DrainsMin(i)

OwnedBy(op, id) == IF "trader" \in DOMAIN op THEN op.trader = id ELSE op.account = id

\* The most an order may cost its trader in asset x.
Committed(o, x) ==
    LET m     == Markets[o.market]
        quote == QuoteAmount(o.quantity, o.price, m.base)
    IN  IF o.side = "sell" THEN IF x = m.base THEN o.quantity ELSE 0
        ELSE IF x = m.quote THEN quote + QuoteFee(quote) ELSE 0

\* What owner id has signed away of asset x in the batch, or asked for on chain.
Authorised(id, x) ==
    SumFunction([i \in DOMAIN input.orders |->
                    IF input.orders[i].trader = id /\ input.orders[i].signed
                    THEN Committed(input.orders[i], x) ELSE 0])
    + Guest!MovedBy(input.withdrawals,
                    {i \in DOMAIN input.withdrawals : input.withdrawals[i].signed}, id, x)
    + Guest!MovedBy(input.forced, DOMAIN input.forced, id, x)

\* No account loses more of an asset than its owner signed for or requested,
\* and deposits reach the account they name, whichever indices, books and
\* order of operations the host chose (validation.rs:10-23, forced_withdrawals.rs:9-26).
LossesAuthorised ==
    stage = "settled" =>
        LET old == Ledger(output.oldRoot)
            new == Ledger(output.newRoot)
        IN  \A id \in DOMAIN new, x \in Assets :
                new[id][x] + Authorised(id, x) >=
                    Guest!BalanceOf(old, id, x)
                      + Guest!MovedBy(input.deposits, DOMAIN input.deposits, id, x)

NonceIn(root, id) == IF id \in DOMAIN root THEN root[id].nonce ELSE 0

\* An accepted batch uses up exactly the nonces its operations carry, orders
\* and withdrawals of an account together, so that no signed operation is
\* accepted again by a later batch (validation.rs:250-280, nonces.rs:4-35).
NoncesUsedUp ==
    stage = "settled" =>
        \A id \in DOMAIN output.newRoot :
            LET ops == {k \in DOMAIN Operations : OwnedBy(Operations[k], id)}
                old == NonceIn(output.oldRoot, id)
            IN  /\ {Operations[k].nonce : k \in ops} = old..(NonceIn(output.newRoot, id) - 1)
                /\ NonceIn(output.newRoot, id) = old + Cardinality(ops)

\* The host cannot keep an order of the batch from trading: in an accepted
\* batch two orders of one market that cross are not both left unfilled, over
\* the orders signed and not the books the host built (validation.rs:318-368).
NoOrderLeftOut ==
    stage = "settled" =>
        \A i, j \in DOMAIN input.orders :
            LET b == OrderAt(i)
                s == OrderAt(j)
            IN  b.market = s.market /\ b.side = "buy" /\ s.side = "sell" /\ b.price >= s.price
                    => Filled(b) = b.quantity \/ Filled(s) = s.quantity

\* The conservation check at the end never fails: what the tracker is left
\* with after the baseline is what the accounts hold (mod.rs:88-97, 113-116).
ConservationNeverTrips == stage = "matched" => Balanced
=============================================================================
