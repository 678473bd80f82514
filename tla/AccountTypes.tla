---------------------------- MODULE AccountTypes ----------------------------
(***************************************************************************)
(* The account of crates/core/src/types/account.rs and the exchange        *)
(* configuration, shared by the modules of the guest program and the host.  *)
(*                                                                         *)
(* An account keeps its nonzero balances only: balances is a function whose *)
(* domain is the set of assets held, so two equal accounts have one         *)
(* representation.  A fallible operation is the set of its results: one     *)
(* account, or none when the code returns an error.  Positions in account   *)
(* and order lists are counted from 1, the code counts them from 0.         *)
(***************************************************************************)
EXTENDS Integers, Sequences, SequencesExt, FiniteSets, FiniteSetsExt

CONSTANTS
    Assets,         \* asset ids somebody may deposit or request
    Scale,          \* configured assets: smallest units in one whole unit
    Markets,        \* configured markets: [base, quote]
    BuyerFeeBps,    \* buyer fee in basis points
    FeeRecipient,   \* account credited with the fees
    MaxAmount       \* stands for u128::MAX

ASSUME ExchangeAssumption ==
    /\ DOMAIN Scale \subseteq Assets
    /\ Scale \in [DOMAIN Scale -> Nat]
    /\ DOMAIN Markets \subseteq Int
    /\ BuyerFeeBps \in Nat /\ MaxAmount \in Nat

BPS == 10000

NewAccount(id) == [id |-> id, balances |-> <<>>, nonce |-> 0]

Balance(acc, x) == IF x \in DOMAIN acc.balances THEN acc.balances[x] ELSE 0

\* Fault: keeps a balance of zero.
SetBalanceKeepsZero(acc, x, n) ==
    [acc EXCEPT !.balances = [y \in DOMAIN acc.balances \cup {x} |->
                                IF y = x THEN n ELSE acc.balances[y]]]

\* A balance that reaches zero is removed from the account.
SetBalance(acc, x, n) ==
    LET held == IF n = 0 THEN DOMAIN acc.balances \ {x} ELSE DOMAIN acc.balances \cup {x}
    IN  [acc EXCEPT !.balances = [y \in held |-> IF y = x THEN n ELSE acc.balances[y]]]

\* Debiting an asset the account does not hold fails, whatever the amount.
Debit(acc, x, n) ==
    IF x \in DOMAIN acc.balances /\ n =< acc.balances[x]
    THEN {SetBalance(acc, x, acc.balances[x] - n)} ELSE {}

Credit(acc, x, n) ==
    IF n = 0 THEN {acc}
    ELSE IF Balance(acc, x) + n =< MaxAmount THEN {SetBalance(acc, x, Balance(acc, x) + n)}
    ELSE {}

\* One debit or credit of the account at a position of a list.
ApplyMove(accs, m) ==
    {[accs EXCEPT ![m.index] = a] :
        a \in IF m.op = "debit" THEN Debit(accs[m.index], m.asset, m.amount)
                                ELSE Credit(accs[m.index], m.asset, m.amount)}

ThenMove(results, m) == UNION {ApplyMove(accs, m) : accs \in results}

\* Moves applied in order; none of the results if one of them fails.
ApplyMoves(accs, moves) == FoldLeft(ThenMove, {accs}, moves)

\* What the accounts of a list hold of an asset.
Held(accs, x) == SumFunction([i \in DOMAIN accs |-> Balance(accs[i], x)])

\* A list the guest accepts as witness: strictly sorted, no zero balance.
Canonical(accs) ==
    /\ \A i \in 1..(Len(accs) - 1) : accs[i].id < accs[i + 1].id
    /\ \A i \in DOMAIN accs : \A x \in DOMAIN accs[i].balances : accs[i].balances[x] # 0

IsAt(accs, index, id) == index \in DOMAIN accs /\ accs[index].id = id

\* Side::compare_priority: better price first, then the earlier sequence.
Precedes(o, p) ==
    \/ IF o.side = "buy" THEN o.price > p.price ELSE o.price < p.price
    \/ o.price = p.price /\ o.sequence < p.sequence
=============================================================================
