----------------------------- MODULE MCMatching -----------------------------
(* Bounded books for the matching engine.  Assets 1 and 2; market 1 sells asset *)
(* 1 for asset 2, market 2 the other way round.  Account 1 takes the fees.     *)
EXTENDS Matching

CONSTANTS
    Buyers, Sellers, Prices, Quantities,    \* what an order may say
    MaxPerSide,                     \* orders on one side of a book
    MaxArrivals,                    \* orders in all
    MarketsUsed                     \* markets with a book

TwoAssets == {1, 2}
MCScale == 1 :> 2 @@ 2 :> 1
MCMarkets == 1 :> [base |-> 1, quote |-> 2] @@ 2 :> [base |-> 2, quote |-> 1]

StartAccounts == <<
    [id |-> 1, balances |-> (1 :> 1 @@ 2 :> 5), nonce |-> 0],
    [id |-> 2, balances |-> (1 :> 4 @@ 2 :> 9), nonce |-> 0],
    [id |-> 3, balances |-> (1 :> 3), nonce |-> 0] >>

Arriving(side) == IF side = "buy" THEN Buyers ELSE Sellers

\* Orders arrive one by one, sequences count the arrivals and a side stays sorted:
\* validate_orders and validate_book_orders refuse any other list.
Placed(list, o) ==
    LET ahead == Cardinality({i \in DOMAIN list : Precedes(list[i], o)})
    IN  InsertAt(list, ahead + 1, o)

Arrivals == Cardinality(AllOrders)

HasOrders(ob) == ob.buys # <<>> \/ ob.sells # <<>>

\* Sequences of different markets are never compared: the orders of one market
\* may as well all arrive before those of the next.
Arrive(i, side) ==
    /\ stage = "collecting"
    /\ Arrivals < MaxArrivals
    /\ \A j \in DOMAIN books : j > i => ~HasOrders(books[j])
    /\ Len(IF side = "buy" THEN books[i].buys ELSE books[i].sells) < MaxPerSide
    /\ \E t \in Arriving(side), p \in Prices, q \in Quantities :
          LET o == [market |-> books[i].market, side |-> side, sequence |-> Arrivals + 1,
                    nonce |-> 0, trader |-> t, index |-> t, price |-> p, quantity |-> q]
          IN  books' = IF side = "buy" THEN [books EXCEPT ![i].buys = Placed(@, o)]
                                       ELSE [books EXCEPT ![i].sells = Placed(@, o)]
    /\ UNCHANGED <<stage, accounts, sweep, trades>>

\* build_validated_books refuses a book without orders.
Begin ==
    /\ stage = "collecting"
    /\ books' = SelectSeq(books, HasOrders)
    /\ stage' = "matching"
    /\ UNCHANGED <<accounts, sweep, trades>>

Init ==
    /\ stage = "collecting"
    /\ MatchStart(StartAccounts, [i \in 1..Cardinality(MarketsUsed) |->
                                    [market |-> i, buys |-> <<>>, sells |-> <<>>]])

Next == (\E i \in DOMAIN books, side \in {"buy", "sell"} : Arrive(i, side)) \/ Begin \/ MatchNext

Spec == Init /\ [][Next]_matchVars
=============================================================================
