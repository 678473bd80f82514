---------------------------- MODULE MCSettlement ----------------------------
(* settle_batch on every input an untrusted host can put together from a few *)
(* entries: it picks queue entries, signed operations, indices, books and the *)
(* parts of the witness one at a time and then calls the guest.              *)
EXTENDS Settlement

\* What the host may put together: at most so many entries of each kind, and
\* the kinds of tampering of the witness.
CONSTANT Profiles

AssetIds == {1, 2, 3}
MCScale == 1 :> 2 @@ 2 :> 1
MCMarkets == 1 :> [base |-> 1, quote |-> 2]
MCLimits == [accounts |-> 3, orders |-> 3, deposits |-> 2, withdrawals |-> 2, forced |-> 2,
             assets |-> 2, markets |-> 1, u64 |-> 5]

Account(i, held, nonce) == [id |-> i, balances |-> held, nonce |-> nonce]

\* The exchange before the batch: 1 takes the fees, 2 and 4 trade, 3 is unknown.
Tree == 1 :> Account(1, 2 :> 3, 0)
     @@ 2 :> Account(2, 1 :> 1 @@ 2 :> 6, 3)
     @@ 4 :> Account(4, 1 :> 4, 0)

NoInput == [accounts |-> <<Tree[1], Tree[2], Tree[4]>>, keys |-> {1, 2, 3, 4}, rest |-> <<>>,
            expectedRoot |-> Tree, depositCursor |-> 3, forcedCursor |-> 0,
            deposits |-> <<>>, forced |-> <<>>, orders |-> <<>>, withdrawals |-> <<>>,
            orderBooks |-> <<>>]

Kinds == {"deposits", "forced", "withdrawals", "orders"}

Within(p, in) == \A kind \in Kinds : Len(in[kind]) =< p.counts[kind]

Room(kind) ==
    /\ stage = "building"
    /\ \E p \in Profiles : Within(p, input) /\ Len(input[kind]) < p.counts[kind]

Add(kind, entry) ==
    /\ input' = [input EXCEPT ![kind] = Append(@, entry)]
    /\ UNCHANGED <<matchVars, tracker, drained, output>>

\* Each entry may carry one flaw, the first of its list only.
Flawed(kind, entry, flaws) ==
    \/ Add(kind, entry)
    \/ input[kind] = <<>> /\ \E flaw \in flaws : Add(kind, flaw @@ entry)

AddDeposit ==
    /\ Room("deposits")
    /\ \E a \in {2, 3}, i \in 1..4 :
          Flawed("deposits",
                 [id |-> 3 + Len(input.deposits), account |-> a, asset |-> 1, amount |-> 2, index |-> i],
                 {[amount |-> MaxAmount]}
                 \cup IF a = 2 THEN {[id |-> 4], [asset |-> 3], [amount |-> 0]} ELSE {})

AddForced ==
    /\ Room("forced")
    /\ \E a \in {2, 3}, x \in {1, 3}, n \in {1, 4}, i \in 1..4 :
          Flawed("forced",
                 [id |-> Len(input.forced), account |-> a, asset |-> x, amount |-> n, index |-> i],
                 IF x = 1 /\ n = 1 THEN {[id |-> 1], [amount |-> 0]} ELSE {})

AddWithdrawal ==
    /\ Room("withdrawals")
    /\ \E nonce \in 3..5 :
          Flawed("withdrawals",
                 [account |-> 2, recipient |-> 2, asset |-> 1, amount |-> 1, nonce |-> nonce,
                  index |-> 2, signed |-> TRUE],
                 IF input.orders = <<>> /\ nonce = 3
                 THEN {[asset |-> 3], [amount |-> 0], [index |-> 3], [signed |-> FALSE], [amount |-> 4]}
                 ELSE {})

Flaws == {[price |-> 0], [quantity |-> 0], [market |-> 2], [signed |-> FALSE], [index |-> 2]}

AddOrder ==
    /\ Room("orders")
    /\ \E side \in {"buy", "sell"}, t \in {2, 4}, p \in {2, 3}, q \in {1, 2}, n \in {0, 1}, s \in {1, 2} :
          LET o == [market |-> 1, side |-> side, price |-> p, quantity |-> q,
                    nonce |-> Tree[t].nonce + n, trader |-> t,
                    index |-> IF t = 2 THEN 2 ELSE 3, sequence |-> s, signed |-> TRUE]
          IN  Flawed("orders", o, IF t = 4 /\ s = 1 /\ p = 2 /\ n = 0 THEN Flaws ELSE {})

\* Index lists of a book: permutations, omissions, repetitions and, with
\* one order, an index out of range.  A book without an order comes with a
\* batch that takes no deposit.
Lists == {<<>>, <<1>>, <<2>>, <<1, 1>>, <<1, 2>>, <<2, 1>>}

BookChoices ==
    IF input.orders = <<>>
    THEN {<<>>} \cup IF input.deposits = <<>> THEN {<<[market |-> 1, buys |-> <<>>, sells |-> <<>>]>>} ELSE {}
    ELSE {<<[market |-> 1, buys |-> bs[1], sells |-> bs[2]]>> : bs \in
            {bs \in Lists \X Lists : Len(input.orders) - (Len(bs[1]) + Len(bs[2])) \in {0, 1}}}

\* Another witness for the same or for another tree.
Tampered(in, shape) ==
    CASE shape = "honest"   -> in
      [] shape = "side"     -> [in EXCEPT !.accounts = <<Tree[1], Tree[2]>>,
                                          !.keys = {1, 2, 3}, !.rest = 4 :> Tree[4]]
      [] shape = "unkeyed"  -> [in EXCEPT !.accounts = <<Tree[1], Tree[2]>>,
                                          !.keys = {1, 2}, !.rest = 4 :> Tree[4]]
      [] shape = "omitted"  -> [in EXCEPT !.accounts = <<Tree[1], Tree[2]>>]
      [] shape = "inflated" -> [in EXCEPT !.accounts[2].balances = 2 :> 9]
      [] shape = "unsorted" -> [in EXCEPT !.accounts = <<Tree[2], Tree[1], Tree[4]>>]
      [] shape = "nofees"   -> [in EXCEPT !.accounts = <<Tree[2], Tree[4]>>,
                                          !.keys = {2, 3, 4}, !.rest = 1 :> Tree[1]]

Call ==
    /\ stage = "building"
    /\ \E shape \in UNION {p.shapes : p \in {p \in Profiles : Within(p, input)}}, obs \in BookChoices :
          /\ shape \in {"omitted", "inflated", "unsorted", "nofees"} =>
                input.forced = <<>> /\ input.withdrawals = <<>>
          /\ input' = Tampered([input EXCEPT !.orderBooks = obs], shape)
    /\ stage' = "validate"
    /\ UNCHANGED <<accounts, books, sweep, trades, tracker, drained, output>>

Init == stage = "building" /\ Called(NoInput)

Next == AddDeposit \/ AddForced \/ AddWithdrawal \/ AddOrder \/ Call \/ SettleNext

Spec == Init /\ [][Next]_settleVars

-----------------------------------------------------------------------------
\* The queues and a withdrawal under every witness, and the orders with a
\* withdrawal under the honest one.
QueuesAndOrders ==
    {[counts |-> [deposits |-> 2, forced |-> 1, withdrawals |-> 1, orders |-> 0],
      shapes |-> {"honest", "side", "unkeyed", "omitted", "inflated", "unsorted", "nofees"}],
     [counts |-> [deposits |-> 0, forced |-> 0, withdrawals |-> 1, orders |-> 2],
      shapes |-> {"honest"}]}

\* One request, on top of a ledger the witness shows in full.
OneRequest ==
    {[counts |-> [deposits |-> 0, forced |-> 1, withdrawals |-> 0, orders |-> 0],
      shapes |-> {"honest"}]}
=============================================================================
