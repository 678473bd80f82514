------------------------------ MODULE Matching ------------------------------
(***************************************************************************)
(* The matching engine of the guest, crates/core/src/settlement/matching.rs: *)
(* match_and_settle walks the validated books, match_market sweeps the two  *)
(* sides of a book with two positions and the quantity left at each, and    *)
(* settle_trade moves the money of one fill.  One action is one turn of the *)
(* inner loop, so every intermediate state of the account list is a state.  *)
(*                                                                         *)
(* stage is the control point settle_batch is at; this module owns          *)
(* "matching" and leaves it for "matched" or "rejected".                    *)
(***************************************************************************)
EXTENDS AccountTypes

VARIABLES
    stage,
    accounts,       \* the account list, sorted by id
    books,          \* validated books: [market, buys, sells]
    book,           \* the book being swept
    buyIndex, sellIndex, buyRemaining, sellRemaining,
    trades          \* trades so far, with the sequences of the two orders

sweep == <<book, buyIndex, sellIndex, buyRemaining, sellRemaining>>
matchVars == <<stage, accounts, books, sweep, trades>>

\* Fault: goes on with the quantities left in the book before.
StartKeepsRemaining(n) ==
    /\ book' = n
    /\ buyIndex' = 1 /\ sellIndex' = 1
    /\ UNCHANGED <<buyRemaining, sellRemaining>>

\* Fault: goes on at the positions of the book before.
StartKeepsPositions(n) ==
    /\ book' = n
    /\ buyRemaining' = 0 /\ sellRemaining' = 0
    /\ UNCHANGED <<buyIndex, sellIndex>>

StartOfBook(n) ==
    /\ book' = n
    /\ buyIndex' = 1 /\ sellIndex' = 1
    /\ buyRemaining' = 0 /\ sellRemaining' = 0

MatchStart(accs, bks) ==
    /\ accounts = accs /\ books = bks /\ trades = <<>>
    /\ book = 1 /\ buyIndex = 1 /\ sellIndex = 1 /\ buyRemaining = 0 /\ sellRemaining = 0

SideOf(ob, side) == IF side = "buy" THEN ob.buys ELSE ob.sells

Buys  == books[book].buys
Sells == books[book].sells

\* Fault: leaves equal prices unmatched.
CrossesStrictly ==
    /\ book \in DOMAIN books
    /\ buyIndex \in DOMAIN Buys /\ sellIndex \in DOMAIN Sells
    /\ Buys[buyIndex].price > Sells[sellIndex].price

\* The loop goes on while both sides have an order and the best two cross.
Crosses ==
    /\ book \in DOMAIN books
    /\ buyIndex \in DOMAIN Buys /\ sellIndex \in DOMAIN Sells
    /\ Buys[buyIndex].price >= Sells[sellIndex].price

\* What is left of an order: a position just reached starts with all of it.
Left(remaining, order) == IF remaining = 0 THEN order.quantity ELSE remaining

FillQuantity ==
    LET b == Left(buyRemaining, Buys[buyIndex])
        s == Left(sellRemaining, Sells[sellIndex])
    IN  IF b < s THEN b ELSE s

\* The earlier of the two orders was resting and sets the price.
FillPrice(buy, sell) == IF buy.sequence < sell.sequence THEN buy.price ELSE sell.price

\* Fault: rounds against the buyer.
QuoteRoundedUp(quantity, price, base) == (quantity * price + Scale[base] - 1) \div Scale[base]

QuoteAmount(quantity, price, base) == (quantity * price) \div Scale[base]

\* Fault: rounds the fee up.
FeeRoundedUp(quote) == (quote * BuyerFeeBps + BPS - 1) \div BPS

QuoteFee(quote) == (quote * BuyerFeeBps) \div BPS

TradeOf(market, buy, sell, quantity, price) ==
    LET quote == QuoteAmount(quantity, price, Markets[market].base)
    IN  [market |-> market, buyer |-> buy.trader, seller |-> sell.trader,
         price |-> price, quantity |-> quantity, quote |-> quote, fee |-> QuoteFee(quote),
         buy |-> buy.sequence, sell |-> sell.sequence]

\* match_and_settle looks the fee recipient up once; validate_config has
\* checked that it is in the list.
FeeRecipientIndex(accs) == CHOOSE i \in DOMAIN accs : accs[i].id = FeeRecipient

\* Fault: debits the buyer without the fee.
MovesWithoutFee(accs, t, buy, sell) ==
    LET m == Markets[t.market]
        Move(op, i, x, n) == [op |-> op, index |-> i, asset |-> x, amount |-> n]
    IN  << Move("debit",  buy.index,  m.quote, t.quote),
           Move("credit", buy.index,  m.base,  t.quantity),
           Move("debit",  sell.index, m.base,  t.quantity),
           Move("credit", sell.index, m.quote, t.quote),
           Move("credit", FeeRecipientIndex(accs), m.quote, t.fee) >>

\* The five balance updates of settle_trade, in its order: buyer, seller and
\* fee recipient may be the same account.
MovesOf(accs, t, buy, sell) ==
    LET m == Markets[t.market]
        Move(op, i, x, n) == [op |-> op, index |-> i, asset |-> x, amount |-> n]
    IN  << Move("debit",  buy.index,  m.quote, t.quote + t.fee),
           Move("credit", buy.index,  m.base,  t.quantity),
           Move("debit",  sell.index, m.base,  t.quantity),
           Move("credit", sell.index, m.quote, t.quote),
           Move("credit", FeeRecipientIndex(accs), m.quote, t.fee) >>

\* settle_trade: the account list after the trade, or nothing on an error
\* (self trade, overflow, a quote that rounds to zero, an unfunded side).
Settled(accs, t, buy, sell) ==
    IF \/ buy.trader = sell.trader
       \/ t.quantity * t.price > MaxAmount
       \/ t.quote = 0
       \/ t.quote * BuyerFeeBps > MaxAmount
       \/ t.quote + t.fee > MaxAmount
    THEN {}
    ELSE ApplyMoves(accs, MovesOf(accs, t, buy, sell))

NextTrade ==
    LET buy == Buys[buyIndex]
        sell == Sells[sellIndex]
    IN  TradeOf(books[book].market, buy, sell, FillQuantity, FillPrice(buy, sell))

\* Fault: a used-up buy order takes the sell order's remainder with it.
AdvanceForgets(quantity) ==
    LET buyLeft  == Left(buyRemaining, Buys[buyIndex]) - quantity
        sellLeft == Left(sellRemaining, Sells[sellIndex]) - quantity
    IN  /\ buyRemaining' = buyLeft
        /\ sellRemaining' = 0
        /\ buyIndex'  = IF buyLeft = 0 THEN buyIndex + 1 ELSE buyIndex
        /\ sellIndex' = IF sellLeft = 0 THEN sellIndex + 1 ELSE sellIndex
        /\ book' = book

\* Fault: both sides move on after every fill.
AdvanceBoth(quantity) ==
    /\ buyRemaining' = 0 /\ sellRemaining' = 0
    /\ buyIndex' = buyIndex + 1 /\ sellIndex' = sellIndex + 1
    /\ book' = book

\* A side whose order is used up moves to its next order.
Advance(quantity) ==
    LET buyLeft  == Left(buyRemaining, Buys[buyIndex]) - quantity
        sellLeft == Left(sellRemaining, Sells[sellIndex]) - quantity
    IN  /\ buyRemaining' = buyLeft
        /\ sellRemaining' = sellLeft
        /\ buyIndex'  = IF buyLeft = 0 THEN buyIndex + 1 ELSE buyIndex
        /\ sellIndex' = IF sellLeft = 0 THEN sellIndex + 1 ELSE sellIndex
        /\ book' = book

Fill ==
    /\ stage = "matching" /\ Crosses
    /\ accounts' \in Settled(accounts, NextTrade, Buys[buyIndex], Sells[sellIndex])
    /\ trades' = Append(trades, NextTrade)
    /\ Advance(FillQuantity)
    /\ UNCHANGED <<stage, books>>

\* Any failing trade fails the batch: settle_batch drops its accounts.
FillFails ==
    /\ stage = "matching" /\ Crosses
    /\ Settled(accounts, NextTrade, Buys[buyIndex], Sells[sellIndex]) = {}
    /\ stage' = "rejected"
    /\ UNCHANGED <<accounts, books, sweep, trades>>

NextBook ==
    /\ stage = "matching" /\ book \in DOMAIN books /\ ~Crosses
    /\ StartOfBook(book + 1)
    /\ UNCHANGED <<stage, accounts, books, trades>>

EndMatching ==
    /\ stage = "matching" /\ book \notin DOMAIN books
    /\ stage' = "matched"
    /\ UNCHANGED <<accounts, books, sweep, trades>>

MatchNext == Fill \/ FillFails \/ NextBook \/ EndMatching

-----------------------------------------------------------------------------
(* Helpers of the properties.                                              *)

OrdersOf(bks, side) == UNION {ToSet(SideOf(bks[i], side)) : i \in DOMAIN bks}

FillsOf(o) ==
    {i \in DOMAIN trades : IF o.side = "buy" THEN trades[i].buy = o.sequence
                                             ELSE trades[i].sell = o.sequence}

Filled(o) == SumFunction([i \in FillsOf(o) |-> trades[i].quantity])
Quoted(o) == SumFunction([i \in FillsOf(o) |-> trades[i].quote])
Charged(o) == SumFunction([i \in FillsOf(o) |-> trades[i].fee])

AllOrders == OrdersOf(books, "buy") \cup OrdersOf(books, "sell")

\* The list stays one the guest would accept as a witness, balances fit and
\* the sweep stays inside the books or one past an end (account.rs:51-91).
MatchTypeOK ==
    /\ Canonical(accounts)
    /\ \A i \in DOMAIN accounts : \A x \in Assets : Balance(accounts[i], x) \in 0..MaxAmount
    /\ book \in 1..(Len(books) + 1)
    /\ book \in DOMAIN books => /\ buyIndex \in 1..(Len(Buys) + 1) /\ sellIndex \in 1..(Len(Sells) + 1)
                               /\ buyRemaining \in 0..MaxAmount /\ sellRemaining \in 0..MaxAmount

\* A trade moves value between accounts and creates none: rounding, the fee and
\* an account on two sides of a trade included (matching.rs:47-51).
TradesConserve ==
    [][stage = "matching" => \A x \in Assets : Held(accounts', x) = Held(accounts, x)]_matchVars

\* No order trades more than its quantity over all its fills, and the two
\* positions of the sweep agree with what has been traded: the quantity left
\* is what the trades leave of the order (matching.rs:78-116).
FillsAddUp ==
    /\ \A o \in AllOrders : Filled(o) =< o.quantity
    /\ stage = "matching" /\ Crosses =>
          /\ Filled(Buys[buyIndex]) = Buys[buyIndex].quantity - Left(buyRemaining, Buys[buyIndex])
          /\ Filled(Sells[sellIndex]) = Sells[sellIndex].quantity - Left(sellRemaining, Sells[sellIndex])

\* Price-time priority: an order trades only when every order of its book and
\* side that precedes it is filled completely (matching.rs:77-117).
PriceTimePriority ==
    \A o, p \in AllOrders :
        o.market = p.market /\ o.side = p.side /\ Precedes(o, p) /\ FillsOf(p) # {}
            => Filled(o) = o.quantity

\* Maximality: once matching ends, a buy and a sell of one market that are both
\* unfilled do not cross (matching.rs:87-89).
NoCrossLeft ==
    stage = "matched" =>
        \A b \in OrdersOf(books, "buy"), s \in OrdersOf(books, "sell") :
            b.market = s.market /\ b.price >= s.price
                => Filled(b) = b.quantity \/ Filled(s) = s.quantity

\* A trader never does worse than the limit signed: a buyer pays at most the
\* limit for what it got, rounded down, and a seller loses to rounding less
\* than one quote unit per fill (matching.rs:32, 92-96).
LimitsHonoured ==
    \A o \in AllOrders :
        LET scale == Scale[Markets[o.market].base]
        IN  IF o.side = "buy"
            THEN Quoted(o) * scale =< Filled(o) * o.price
            ELSE Quoted(o) * scale + Cardinality(FillsOf(o)) * (scale - 1) >= Filled(o) * o.price

\* Splitting an order over many fills never makes the buyer pay more fee than
\* the rate on its total (matching.rs:36-42).
FeesBounded ==
    \A o \in OrdersOf(books, "buy") : Charged(o) * BPS =< Quoted(o) * BuyerFeeBps

\* However an order is cut into fills, its owner pays no more than the limit
\* price and the fee rate allow (matching.rs:32-39).
TermsHonoured == LimitsHonoured /\ FeesBounded
=============================================================================
