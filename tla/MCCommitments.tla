---------------------------- MODULE MCCommitments ----------------------------
(* Documents of a few entries, every field with two values or more.  Where    *)
(* all combinations would be too many, there are those of some fields, and    *)
(* for the others the entries that differ from one entry in one field: leaving *)
(* out a field, or swapping two, confuses two of these.  The widths are the   *)
(* code's with a unit for sixteen bytes, an address and the short integers    *)
(* taking one: a market then has the size of two assets, as it has in the     *)
(* code (72 bytes and twice 36).                                              *)
EXTENDS Commitments

MCWidth == [u8 |-> 1, u16 |-> 1, u32 |-> 1, u64 |-> 1, u128 |-> 1, address |-> 1, b256 |-> 2]

MCKinds == {"deposits", "requests", "withdrawals", "drained", "account", "branch", "top",
            "config", "batch", "trades", "operation"}

Some == {1, 2}

\* The entry and those that differ from it in one field.
OneOff(entry, other) == {entry} \cup {[entry EXCEPT ![f] = other[f]] : f \in DOMAIN entry}

Queued    == [account : Some, asset : Some, amount : Some]
Inputs    == [id : {0, 1, 2}, account : Some, asset : Some, amount : Some]
Payouts   ==
    [account : Some, recipient : Some, asset : {1}, amount : Some, nonce : {0, 1}]
    \cup OneOff([account |-> 1, recipient |-> 1, asset |-> 1, amount |-> 1, nonce |-> 0],
                [account |-> 2, recipient |-> 2, asset |-> 2, amount |-> 2, nonce |-> 1])
Drained   == [id : {0, 1}, account : Some, asset : Some, amount : Some]
Held      == [asset : Some, available : Some]
Scaled    == [id : Some, scale : Some]
Traded    == [id : {4, 8}, base : Some, quote : Some]
Orders    ==
    [market : {4}, side : {"buy", "sell"}, price : {1}, quantity : {1}, nonce : {0},
     trader : Some, sequence : {0, 1}]
    \cup OneOff([market |-> 4, side |-> "buy", price |-> 1, quantity |-> 1, nonce |-> 0,
                 trader |-> 1, sequence |-> 0],
                [market |-> 5, side |-> "sell", price |-> 2, quantity |-> 2, nonce |-> 1,
                 trader |-> 2, sequence |-> 1])
Trades    ==
    [market : {4}, buyer : Some, seller : Some, price : {1}, quantity : Some, quote : Some, fee : {0}]
    \cup OneOff([market |-> 4, buyer |-> 1, seller |-> 1, price |-> 1, quantity |-> 1,
                 quote |-> 1, fee |-> 0],
                [market |-> 5, buyer |-> 2, seller |-> 2, price |-> 2, quantity |-> 2,
                 quote |-> 2, fee |-> 1])

Roots == {"r", "s"}
Nodes == [root : Roots, min : Some, max : Some]
Here  == [protocolVersion |-> 1, chainId |-> 1, exchangeId |-> 1]
There == [protocolVersion |-> 1, chainId |-> 1, exchangeId |-> 2]
Worlds == [protocolVersion : Some, chainId : Some, exchangeId : Some]
Signable == [market : {4, 5}, side : {"buy", "sell"}, price : Some, quantity : Some, nonce : {0, 1}]
            \cup [asset : Some, amount : Some, recipient : Some, nonce : {0, 1}]

OfKind(k) ==
    CASE k = "deposits"    -> [heads |-> [start : {0, 1}], list |-> Queued, markets |-> {}]
      [] k = "requests"    -> [heads |-> [start : {0, 1}], list |-> Queued, markets |-> {}]
      [] k = "withdrawals" -> [heads |-> {<<>>}, list |-> Payouts, markets |-> {}]
      [] k = "drained"     -> [heads |-> {<<>>}, list |-> Drained, markets |-> {}]
      [] k = "account"     -> [heads |-> [id : Some, nonce : {0, 1}], list |-> Held, markets |-> {}]
      [] k = "branch"      -> [heads |-> [depth : {0, 1}, left : Nodes, right : Nodes],
                               list |-> {}, markets |-> {}]
      [] k = "top"         -> [heads |-> Nodes, list |-> {}, markets |-> {}]
      [] k = "config"      -> [heads |-> OneOff([recipient |-> 1, bps |-> 0], [recipient |-> 2, bps |-> 1]),
                               list |-> Scaled, markets |-> Traded]
      [] k = "batch"       -> [heads |-> OneOff(
                                   [domain |-> Here, id |-> 0, oldRoot |-> "r", config |-> "c"],
                                   [domain |-> There, id |-> 1, oldRoot |-> "s", config |-> "d"]),
                               list |-> Orders, markets |-> {}]
      [] k = "trades"      -> [heads |-> {<<>>}, list |-> Trades, markets |-> {}]
      [] k = "operation"   -> [heads |-> [domain : Worlds, op : Signable], list |-> {}, markets |-> {}]

\* The guest is given its inputs with their ids and without a start.
MCHeads       == [k \in MCKinds |-> OfKind(k).heads]
MCReadHeads   == [k \in MCKinds |-> IF k \in {"deposits", "requests"} THEN {<<>>} ELSE OfKind(k).heads]
MCEntries     == [k \in MCKinds |-> [list |-> OfKind(k).list, markets |-> OfKind(k).markets]]
MCReadEntries == [k \in MCKinds |-> IF k \in {"deposits", "requests"}
                                    THEN [list |-> Inputs, markets |-> {}] ELSE MCEntries[k]]

MCMaxEntries == [k \in MCKinds |-> [list |-> 2, markets |-> 1]]
=============================================================================
