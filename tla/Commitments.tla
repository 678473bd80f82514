----------------------------- MODULE Commitments -----------------------------
(***************************************************************************)
(* What the exchange hashes and signs, byte by byte.  The contract          *)
(* compares hashes it computes in Solidity (ZkClob.sol, PatriciaProof.sol)  *)
(* with hashes the guest computed in Rust (crates/core), and a signature    *)
(* speaks for an operation only through the digest of its bytes.  The other *)
(* modules take a hash for what it hashes; this one checks that the two     *)
(* encodings allow it.                                                     *)
(*                                                                         *)
(* A byte string is a sequence of units: an integer of a type is written    *)
(* big-endian in Width[type] units of Radix values each, a hash is one unit *)
(* by itself.  The strings of one kind have no separators, so only the      *)
(* widths, the lengths and the domains keep them apart.  SHA-256 is         *)
(* injective: a hash is its domain string and the bytes after it.           *)
(***************************************************************************)
EXTENDS Integers, Sequences, SequencesExt

CONSTANTS
    Radix,          \* values of a unit; 256 in the code
    Width,          \* units of an integer, by type
    Kinds,          \* the kinds of document that get hashed
    Heads,          \* by kind: the fixed part of a document, as written
    Entries,        \* by kind: what its lists hold, as written
    ReadHeads,      \* by kind: the fixed part, as the guest is given it
    ReadEntries,    \* by kind: what its lists hold, as the guest is given them
    MaxEntries      \* by kind and list: bound on its length

ASSUME WidthAssumption ==
    /\ Radix \in Nat \ {0, 1}
    /\ Width \in [{"u8", "u16", "u32", "u64", "u128", "address", "b256"} -> Nat \ {0}]

VARIABLES
    kind,       \* what the two documents are
    written,    \* what the contract, the deployer or a trader holds
    read        \* what the untrusted host gives to the guest in its place

vars == <<kind, written, read>>

-----------------------------------------------------------------------------
(* Bytes and hashes.                                                       *)

\* to_be_bytes, and abi.encodePacked of one value.
Bytes(n, type) ==
    [i \in 1..Width[type] |-> [unit |-> (n \div Radix^(Width[type] - i)) % Radix]]

U64(n)     == Bytes(n, "u64")
U128(n)    == Bytes(n, "u128")
Address(a) == Bytes(a, "address")

Hash(domain, bytes) == [domain |-> domain, bytes |-> bytes]

\* A hash among the bytes of another one.
Nested(h) == <<[hash |-> h]>>

\* Fault: the entries of a list without their number.
ListUncounted(items) == FlattenSeq(items)

\* The number of entries, and the entries.
List(items) == U64(Len(items)) \o FlattenSeq(items)

-----------------------------------------------------------------------------
(* Solidity: the queues, the payouts and the account leaf.                 *)

\* Fault: the id of an entry is left out.
HashDepositsWithoutIds(start, queued) ==
    Hash("DEPOSITS",
         List([i \in DOMAIN queued |->
                 Address(queued[i].account) \o Address(queued[i].asset) \o U128(queued[i].amount)]))

\* _hashDeposits over the queue entries from start on.
SolHashDeposits(start, queued) ==
    Hash("DEPOSITS",
         List([i \in DOMAIN queued |->
                 U64(start + i - 1) \o Address(queued[i].account) \o Address(queued[i].asset)
                 \o U128(queued[i].amount)]))

\* _hashForcedWithdrawalRequests.
SolHashForcedWithdrawalRequests(start, queued) ==
    Hash("FORCED_WITHDRAWALS",
         List([i \in DOMAIN queued |->
                 U64(start + i - 1) \o Address(queued[i].account) \o Address(queued[i].asset)
                 \o U128(queued[i].amount)]))

\* Fault: the recipient before the account.
HashWithdrawalsRecipientFirst(wds) ==
    Hash("WITHDRAWALS",
         List([i \in DOMAIN wds |->
                 Address(wds[i].recipient) \o Address(wds[i].account) \o Address(wds[i].asset)
                 \o U128(wds[i].amount) \o U64(wds[i].nonce)]))

\* _hashWithdrawals over the calldata.
SolHashWithdrawals(wds) ==
    Hash("WITHDRAWALS",
         List([i \in DOMAIN wds |->
                 Address(wds[i].account) \o Address(wds[i].recipient) \o Address(wds[i].asset)
                 \o U128(wds[i].amount) \o U64(wds[i].nonce)]))

\* _hashForcedWithdrawals over the calldata.
SolHashForcedWithdrawals(forced) ==
    Hash("FORCED_WITHDRAWALS",
         List([i \in DOMAIN forced |->
                 U64(forced[i].id) \o Address(forced[i].account) \o Address(forced[i].asset)
                 \o U128(forced[i].amount)]))

SolAccountHash(id, nextNonce, balances) ==
    Hash("ACCOUNT", Address(id) \o U64(nextNonce)
                    \o List([i \in DOMAIN balances |->
                               Address(balances[i].asset) \o U128(balances[i].available)]))

SolLeafHash(id, nextNonce, balances) ==
    Hash("PATRICIA_LEAF", Address(id) \o Nested(SolAccountHash(id, nextNonce, balances)))

\* Fault: the ranges of the two children change places.
SolCombineSwapped(depth, l, r) ==
    Hash("PATRICIA_BRANCH", U64(depth) \o Nested(l.root) \o Address(r.min) \o Address(r.max)
                            \o Nested(r.root) \o Address(l.min) \o Address(l.max))

\* _combine: the hash of a branch.
SolCombine(depth, l, r) ==
    Hash("PATRICIA_BRANCH", U64(depth) \o Nested(l.root) \o Address(l.min) \o Address(l.max)
                            \o Nested(r.root) \o Address(r.min) \o Address(r.max))

SolRoot(n) == Hash("PATRICIA_ROOT", Nested(n.root) \o Address(n.min) \o Address(n.max))

-----------------------------------------------------------------------------
(* Rust: update_hash of the types, and the domain of each hash.            *)

DepositBytes(d) == U64(d.id) \o Address(d.account) \o Address(d.asset) \o U128(d.amount)

ForcedWithdrawalBytes(r) == U64(r.id) \o Address(r.account) \o Address(r.asset) \o U128(r.amount)

ExecutedWithdrawalBytes(w) ==
    Address(w.account) \o Address(w.recipient) \o Address(w.asset) \o U128(w.amount) \o U64(w.nonce)

HashDeposits(ds)           == Hash("DEPOSITS", List([i \in DOMAIN ds |-> DepositBytes(ds[i])]))
HashForcedWithdrawals(fs)  ==
    Hash("FORCED_WITHDRAWALS", List([i \in DOMAIN fs |-> ForcedWithdrawalBytes(fs[i])]))
HashWithdrawals(ws)        ==
    Hash("WITHDRAWALS", List([i \in DOMAIN ws |-> ExecutedWithdrawalBytes(ws[i])]))

AssetBalanceBytes(b) == Address(b.asset) \o U128(b.available)

AccountHash(id, nextNonce, balances) ==
    Hash("ACCOUNT", Address(id) \o U64(nextNonce)
                    \o List([i \in DOMAIN balances |-> AssetBalanceBytes(balances[i])]))

LeafHash(id, nextNonce, balances) ==
    Hash("PATRICIA_LEAF", Address(id) \o Nested(AccountHash(id, nextNonce, balances)))

NodeBytes(n) == Nested(n.root) \o Address(n.min) \o Address(n.max)

BranchHash(depth, l, r) == Hash("PATRICIA_BRANCH", U64(depth) \o NodeBytes(l) \o NodeBytes(r))

RootHash(n) == Hash("PATRICIA_ROOT", NodeBytes(n))

AssetConfigBytes(a)  == Address(a.id) \o U128(a.scale)
MarketConfigBytes(m) == Bytes(m.id, "b256") \o Address(m.base) \o Address(m.quote)

ConfigHash(assets, markets, fees) ==
    Hash("CONFIG", List([i \in DOMAIN assets |-> AssetConfigBytes(assets[i])])
                   \o List([i \in DOMAIN markets |-> MarketConfigBytes(markets[i])])
                   \o Address(fees.recipient) \o Bytes(fees.bps, "u16"))

OrderBytes(o) ==
    Bytes(o.market, "b256") \o Bytes(IF o.side = "buy" THEN 0 ELSE 1, "u8")
    \o U128(o.price) \o U128(o.quantity) \o U64(o.nonce)

WithdrawalBytes(w) == Address(w.asset) \o U128(w.amount) \o Address(w.recipient) \o U64(w.nonce)

\* Fault: leaves the trader out, who signed but is no part of the order.
SequencedWithoutTrader(o) == OrderBytes(o) \o U64(o.sequence)

SequencedOrderBytes(o) == OrderBytes(o) \o Address(o.trader) \o U64(o.sequence)

DomainHash(d) ==
    Hash("SIGNING_DOMAIN", Bytes(d.protocolVersion, "u32") \o U64(d.chainId) \o Address(d.exchangeId))

\* Fault: the hash of the batch does not name the configuration.
BatchHashWithoutConfig(batch, orders) ==
    Hash("BATCH", Nested(DomainHash(batch.domain)) \o U64(batch.id) \o Nested(batch.oldRoot)
                  \o List([i \in DOMAIN orders |-> SequencedOrderBytes(orders[i])]))

BatchHash(batch, orders) ==
    Hash("BATCH", Nested(DomainHash(batch.domain)) \o U64(batch.id) \o Nested(batch.oldRoot)
                  \o Nested(batch.config)
                  \o List([i \in DOMAIN orders |-> SequencedOrderBytes(orders[i])]))

TradeBytes(t) ==
    Bytes(t.market, "b256") \o Address(t.buyer) \o Address(t.seller)
    \o U128(t.price) \o U128(t.quantity) \o U128(t.quote) \o U128(t.fee)

TradesHash(trades) == Hash("TRADES", List([i \in DOMAIN trades |-> TradeBytes(trades[i])]))

\* Fault: the digest does not name the deployment.
SignedAnywhere(d, op) ==
    Hash("SIGNED_OPERATION",
         Nested(IF "side" \in DOMAIN op THEN Hash("ORDER", OrderBytes(op))
                ELSE Hash("WITHDRAWAL", WithdrawalBytes(op))))

\* SignableOperation::digest: what the signer of an operation signs.
Digest(d, op) ==
    Hash("SIGNED_OPERATION",
         Nested(DomainHash(d))
         \o Nested(IF "side" \in DOMAIN op THEN Hash("ORDER", OrderBytes(op))
                   ELSE Hash("WITHDRAWAL", WithdrawalBytes(op))))

-----------------------------------------------------------------------------
(* The two documents.  One side writes entry by entry; the host, which      *)
(* carries the document to the guest, may change any of it on the way.      *)

Blank(head) == [head |-> head, list |-> <<>>, markets |-> <<>>]

Lists(k) == IF k = "config" THEN {"list", "markets"} ELSE {"list"}

Put(doc, list, e) == [doc EXCEPT ![list] = Append(@, e)]

Init ==
    /\ kind \in Kinds
    /\ \E h \in Heads[kind] : written = Blank(h)
    /\ \E h \in ReadHeads[kind] : read = Blank(h)

Write(list, e) ==
    /\ Len(written[list]) < MaxEntries[kind][list]
    /\ written' = Put(written, list, e)
    /\ UNCHANGED <<kind, read>>

Read(list, e) ==
    /\ Len(read[list]) < MaxEntries[kind][list]
    /\ read' = Put(read, list, e)
    /\ UNCHANGED <<kind, written>>

Next ==
    \E list \in Lists(kind) :
        \/ \E e \in Entries[kind][list] : Write(list, e)
        \/ \E e \in ReadEntries[kind][list] : Read(list, e)

Spec == Init /\ [][Next]_vars

-----------------------------------------------------------------------------
(* Properties.                                                             *)

\* The inputs a batch states are the queue's own, ids included, exactly when
\* the hash the contract computes from its queue is the guest's (ZkClob.sol:
\* 217-244, 309-325, hashing.rs:53-77).
QueueHashesCommit ==
    LET held == [i \in DOMAIN written.list |-> [id |-> written.head.start + i - 1] @@ written.list[i]]
    IN  /\ kind = "deposits" =>
              ((SolHashDeposits(written.head.start, written.list) = HashDeposits(read.list))
                  <=> (held = read.list))
        /\ kind = "requests" =>
              ((SolHashForcedWithdrawalRequests(written.head.start, written.list)
                    = HashForcedWithdrawals(read.list))
                  <=> (held = read.list))

\* The payouts somebody submits with a proof are those the guest ordered,
\* recipients, amounts and order included (ZkClob.sol:246-266, 327-353).
PayoutHashesCommit ==
    /\ kind = "withdrawals" =>
          ((SolHashWithdrawals(written.list) = HashWithdrawals(read.list)) <=> (written = read))
    /\ kind = "drained" =>
          ((SolHashForcedWithdrawals(written.list) = HashForcedWithdrawals(read.list))
              <=> (written = read))

\* The contract and the guest hash the nodes of the account tree alike: the
\* same leaf, branch or top has one hash in both languages and no other has it
\* (PatriciaProof.sol:84, 87-126, patricia.rs:140-190, account.rs:93-107).
NodeHashesCommit ==
    /\ kind = "account" =>
          ((SolLeafHash(written.head.id, written.head.nonce, written.list)
                = LeafHash(read.head.id, read.head.nonce, read.list)) <=> (written = read))
    /\ kind = "branch" =>
          ((SolCombine(written.head.depth, written.head.left, written.head.right)
                = BranchHash(read.head.depth, read.head.left, read.head.right)) <=> (written = read))
    /\ kind = "top" => ((SolRoot(written.head) = RootHash(read.head)) <=> (written = read))

\* Solidity and Rust hash alike: queues, payouts and tree nodes.
LanguagesAgree == QueueHashesCommit /\ PayoutHashesCommit /\ NodeHashesCommit

\* A deployment runs under one configuration: no other list of assets and
\* markets has its CONFIG_HASH (config.rs:145-160, ZkClob.sol:171-173).
ConfigHashCommits ==
    kind = "config" =>
        ((ConfigHash(written.list, written.markets, written.head)
              = ConfigHash(read.list, read.markets, read.head)) <=> (written = read))

\* The orders and the trades of a settled batch can be told from its two
\* hashes in BatchSettled: every order with its trader and its place in the
\* sequence (hashing.rs:21-51, order.rs:166-173).
AuditHashesCommit ==
    /\ kind = "batch" =>
          ((BatchHash(written.head, written.list) = BatchHash(read.head, read.list))
              <=> (written = read))
    /\ kind = "trades" =>
          ((TradesHash(written.list) = TradesHash(read.list)) <=> (written = read))

\* The hashes nobody recomputes on chain say one thing each as well: the
\* configuration a deployment is bound to, the orders and the trades.
GuestHashesCommit == ConfigHashCommits /\ AuditHashesCommit

\* A signature speaks for one operation, with its terms, in one deployment: the
\* host can pass no order for a withdrawal, and nothing signed for another
\* chain, exchange or version (signature.rs:12-20, 69-75).
SignatureSpeaksForOne ==
    kind = "operation" =>
        ((Digest(written.head.domain, written.head.op) = Digest(read.head.domain, read.head.op))
            <=> (written = read))
=============================================================================
