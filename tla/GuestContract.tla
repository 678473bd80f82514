---------------------------- MODULE GuestContract ----------------------------
(***************************************************************************)
(* What a valid proof of the guest program (crates/core, settle_batch)     *)
(* tells the settlement contract, which never sees an order, a trade or an *)
(* account: a relation between the ledger a batch starts from, the deposits *)
(* and forced-withdrawal requests it consumes, the payouts it orders and   *)
(* the ledger it commits to.                                               *)
(*                                                                         *)
(* ZkClob.tla lets a proof exist exactly for the batches this relation     *)
(* admits; Settlement.tla models settle_batch step by step and checks that *)
(* every batch it accepts is admitted.                                     *)
(*                                                                         *)
(* A state root is modelled by the ledger it commits to: a function from   *)
(* the accounts present in the tree to their balances (Patricia.tla checks *)
(* that the commitment determines the ledger).                             *)
(***************************************************************************)
EXTENDS Integers, Sequences, FiniteSetsExt

CONSTANTS
    Accounts,       \* addresses that may hold an account
    Assets,         \* addresses of assets somebody may deposit or request
    Configured      \* the assets of ExchangeConfig

Balances == [Assets -> Nat]

\* A ledger: an account absent from its domain is absent from the tree.
IsLedger(l) == DOMAIN l \subseteq Accounts /\ l \in [DOMAIN l -> Balances]

Entry      == [account : Accounts, asset : Assets, amount : Nat]
Withdrawal == [account : Accounts, recipient : Accounts, asset : Assets, amount : Nat]

BalanceOf(ledger, a, x) == IF a \in DOMAIN ledger THEN ledger[a][x] ELSE 0

TotalOf(ledger, x) == SumFunction([a \in DOMAIN ledger |-> ledger[a][x]])

\* What the entries of a list whose index is in I move of asset x for account a.
MovedBy(list, I, a, x) ==
    SumFunction([i \in I |-> IF list[i].account = a /\ list[i].asset = x
                             THEN list[i].amount ELSE 0])

AmountIn(entry, x) == IF entry.asset = x THEN entry.amount ELSE 0

MovedTotal(list, x) == SumFunction([i \in DOMAIN list |-> AmountIn(list[i], x)])

\* Deposits are credited before the first forced withdrawal is drained, so a
\* request may draw on a deposit of its own batch and not on what the requests
\* before it took.
AvailableTo(old, deps, drained, i, a, x) ==
    BalanceOf(old, a, x) + MovedBy(deps, DOMAIN deps, a, x) - MovedBy(drained, 1..(i - 1), a, x)

\* apply_forced_withdrawals: a request drains min(amount, available), or
\* nothing at all when the account index the host attached is not the
\* account's own.  The contract sees no index, so to it either may be the case.
\* PROTOCOL.md:160-163 knows of no 0 beside the minimum: this relation is what
\* the code does, and Settlement!ForcedDrainsMin what the document says.
Drains(old, deps, requests, drained) ==
    /\ Len(drained) = Len(requests)
    /\ \A i \in DOMAIN requests :
          LET r     == requests[i]
              avail == AvailableTo(old, deps, drained, i, r.account, r.asset)
          IN  /\ drained[i].account = r.account
              /\ drained[i].asset = r.asset
              /\ drained[i].amount \in {0, IF r.amount < avail THEN r.amount ELSE avail}

\* apply_withdrawals: every debit succeeds, after deposits and forced withdrawals.
Covers(old, deps, drained, wds) ==
    \A i \in DOMAIN wds :
        /\ wds[i].account \in DOMAIN old \cup {deps[j].account : j \in DOMAIN deps}
        /\ MovedBy(wds, DOMAIN wds, wds[i].account, wds[i].asset)
             =< AvailableTo(old, deps, drained, Len(drained) + 1, wds[i].account, wds[i].asset)

\* The AssetTracker balance: trades and fees move value between accounts and
\* neither create nor destroy any.
Conserves(old, deps, drained, wds, new) ==
    \A x \in Assets :
        TotalOf(new, x) + MovedTotal(drained, x) + MovedTotal(wds, x)
            = TotalOf(old, x) + MovedTotal(deps, x)

Admits(old, deps, requests, drained, wds, new) ==
    /\ \A i \in DOMAIN deps : deps[i].asset \in Configured /\ deps[i].amount # 0
    /\ \A i \in DOMAIN wds : wds[i].asset \in Configured /\ wds[i].amount # 0
    /\ DOMAIN new = DOMAIN old \cup {deps[i].account : i \in DOMAIN deps}
    /\ Drains(old, deps, requests, drained)
    /\ Covers(old, deps, drained, wds)
    /\ Conserves(old, deps, drained, wds, new)
==============================================================================
