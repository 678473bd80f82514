----------------------------- MODULE MCOperator -----------------------------
(* A few batches of a small exchange.  Account 2 takes the fees; 3 and 4 trade; *)
(* 1 and 5 are not in the tree until a deposit names them, below and above     *)
(* every account of the tree.                                                 *)
EXTENDS Operator

CONSTANTS
    Depositors, Requesters, Traders, Withdrawers,
    MaxEntries,         \* entries of one batch
    MaxConsumed         \* entries of all batches

AssetIds == {1, 2, 3}
MCScale == 1 :> 2 @@ 2 :> 1
MCMarkets == 1 :> [base |-> 1, quote |-> 2]
MCLimits == [accounts |-> 4, orders |-> 2, deposits |-> 2, withdrawals |-> 2, forced |-> 2,
             assets |-> 2, markets |-> 1, u64 |-> 20]

Account(i, held, nonce) == [id |-> i, balances |-> held, nonce |-> nonce]

Tree == 2 :> Account(2, 2 :> 1, 0)
     @@ 3 :> Account(3, 1 :> 1 @@ 2 :> 4, 7)
     @@ 4 :> Account(4, 1 :> 3, 0)

Entries == Len(draft.deposits) + Len(draft.forced) + Len(draft.orders) + Len(draft.withdrawals)

\* A bound on the entries of a batch and on the entries consumed in all.
Open ==
    /\ Entries < MaxEntries
    /\ cursors.deposits + cursors.forced + Cardinality(spent) + Entries < MaxConsumed

MCDeposit ==
    \E a \in Depositors, x \in {1, 3} :
        Deposit([id |-> cursors.deposits + Len(draft.deposits), account |-> a, asset |-> x, amount |-> 2])

MCForcedWithdraw ==
    \E a \in Requesters, n \in {1, 5} :
        ForcedWithdraw([id |-> cursors.forced + Len(draft.forced), account |-> a, asset |-> 1, amount |-> n])

\* Users may resubmit what they signed before: nonces start at the first one.
FirstNonce(id) == IF id \in DOMAIN Tree THEN Tree[id].nonce ELSE 0

MCOrder ==
    \E side \in {"buy", "sell"}, t \in Traders, p \in {2, 3}, n \in {0, 1, 2} :
        PlaceOrder([market |-> 1, side |-> side, price |-> p, quantity |-> 1, trader |-> t,
                    nonce |-> FirstNonce(t) + n, sequence |-> 1 + Len(draft.orders), signed |-> TRUE])

MCWithdraw ==
    \E a \in Withdrawers, n \in {0, 1, 2} :
        Withdraw([account |-> a, recipient |-> a, asset |-> 1, amount |-> 1,
                  nonce |-> FirstNonce(a) + n, signed |-> TRUE])

Init == OperatorInit(Tree)

Collect == Open /\ (MCDeposit \/ MCForcedWithdraw \/ MCOrder \/ MCWithdraw)

\* An empty batch changes nothing.
Next == Collect \/ (Entries > 0 /\ Proceed)

Spec == Init /\ [][Next]_operatorVars
=============================================================================
