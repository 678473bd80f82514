----------------------------- MODULE ZkClobProofs -----------------------------
(***************************************************************************)
(* Theorems about the settlement contract, for every set of accounts and   *)
(* assets, every delay and every value of the bounds.                      *)
(*                                                                         *)
(* First the types, the queues, the deadlines and escape mode; then that   *)
(* the contract holds exactly what it owes, of every asset and at every    *)
(* moment (theorem Solvency): the proof counts value through each function *)
(* of the contract, with the facts about sums of SumTheorems.              *)
(***************************************************************************)
EXTENDS ZkClob, SequenceTheorems, SumTheorems, TLAPS


(* Sequences the contract builds *)

\* A stretch of a queue holds the queue's own entries, at their places.
LEMMA SubSeqType ==
    ASSUME NEW S, NEW s \in Seq(S), NEW m \in Nat \ {0}, NEW n \in Nat, n =< Len(s)
    PROVE  /\ SubSeq(s, m, n) \in Seq(S)
           /\ Len(SubSeq(s, m, n)) = IF m =< n THEN n - m + 1 ELSE 0
           /\ \A i \in 1..Len(SubSeq(s, m, n)) : /\ SubSeq(s, m, n)[i] = s[m + i - 1]
                                                 /\ m + i - 1 \in 1..Len(s)
  <1>1. \A i \in m..n : s[i] \in S
    OBVIOUS
  <1>2. /\ SubSeq(s, m, n) \in Seq(S)
        /\ Len(SubSeq(s, m, n)) = IF m =< n THEN n - m + 1 ELSE 0
        /\ \A i \in 1..(n - m + 1) : SubSeq(s, m, n)[i] = s[m + i - 1]
    BY <1>1, SubSeqProperties
  <1>. QED
    BY <1>2

\* Hashing a stretch of requests keeps their number and their order and drops
\* the deadlines (_hashForcedWithdrawalRequests).
LEMMA HashedType ==
    ASSUME NEW s \in Seq(Request)
    PROVE  /\ Hashed(s) \in Seq(Entry)
           /\ Len(Hashed(s)) = Len(s)
           /\ \A i \in 1..Len(s) : Hashed(s)[i] = [account |-> s[i].account,
                                     asset |-> s[i].asset, amount |-> s[i].amount]
  <1>. DEFINE e(i) == [account |-> s[i].account, asset |-> s[i].asset, amount |-> s[i].amount]
  <1>1. ASSUME NEW i \in 1..Len(s)
        PROVE  e(i) \in Entry
    <2>1. s[i] \in Request
      OBVIOUS
    <2>. QED
      BY <2>1 DEF Request, Entry
  <1>2. Hashed(s) = [i \in 1..Len(s) |-> e(i)]
    BY DEF Hashed
  <1>. HIDE DEF e
  <1>3. [i \in 1..Len(s) |-> e(i)] \in Seq(Entry)
    BY <1>1, IsASeq
  <1>4. Len([i \in 1..Len(s) |-> e(i)]) = Len(s)
    OBVIOUS
  <1>. QED
    BY <1>2, <1>3, <1>4 DEF e

\* Hashing a stretch of the queue is the stretch of the hashed queue.
LEMMA HashedSubSeq ==
    ASSUME NEW s \in Seq(Request), NEW m \in Nat \ {0}, NEW n \in Nat, n =< Len(s)
    PROVE  Hashed(SubSeq(s, m, n)) = SubSeq(Hashed(s), m, n)
  <1>. DEFINE cut  == SubSeq(s, m, n)
              left == Hashed(cut)
              right == SubSeq(Hashed(s), m, n)
  <1>1. /\ cut \in Seq(Request)
        /\ Len(cut) = IF m =< n THEN n - m + 1 ELSE 0
        /\ \A i \in 1..Len(cut) : cut[i] = s[m + i - 1] /\ m + i - 1 \in 1..Len(s)
    BY SubSeqType
  <1>2. Hashed(s) \in Seq(Entry) /\ Len(Hashed(s)) = Len(s)
    BY HashedType
  <1>3. /\ right \in Seq(Entry)
        /\ Len(right) = IF m =< n THEN n - m + 1 ELSE 0
        /\ \A i \in 1..Len(right) : right[i] = Hashed(s)[m + i - 1]
    BY <1>2, SubSeqType
  <1>4. left \in Seq(Entry) /\ Len(left) = Len(cut)
        /\ \A i \in 1..Len(cut) : left[i] = [account |-> cut[i].account,
                        asset |-> cut[i].asset, amount |-> cut[i].amount]
    BY <1>1, HashedType
  <1>. HIDE DEF cut, left, right
  <1>5. ASSUME NEW i \in 1..Len(left)
        PROVE  left[i] = right[i]
    <2>1. left[i] = [account |-> cut[i].account, asset |-> cut[i].asset,
                     amount |-> cut[i].amount]
      BY <1>4
    <2>2. cut[i] = s[m + i - 1] /\ m + i - 1 \in 1..Len(s)
      BY <1>1, <1>4
    <2>3. right[i] = Hashed(s)[m + i - 1]
      BY <1>1, <1>3, <1>4
    <2>4. Hashed(s)[m + i - 1] = [account |-> s[m + i - 1].account,
                 asset |-> s[m + i - 1].asset, amount |-> s[m + i - 1].amount]
      BY <2>2, HashedType
    <2>. QED
      BY <2>1, <2>2, <2>3, <2>4
  <1>6. left = right
    BY <1>1, <1>3, <1>4, <1>5, SeqEqual
  <1>. QED
    BY <1>6 DEF cut, left, right

\* An empty stretch of the request queue hashes to no entries.
LEMMA HashedEmpty == Hashed(<<>>) = <<>>
  <1>1. <<>> \in Seq(Request) /\ Len(<<>>) = 0
    OBVIOUS
  <1>2. Hashed(<<>>) \in Seq(Entry) /\ Len(Hashed(<<>>)) = 0
    BY <1>1, HashedType
  <1>. QED
    BY <1>2

\* requestForcedWithdrawal adds one entry at the end of the hashed queue and
\* changes none before it.
LEMMA HashedAppend ==
    ASSUME NEW s \in Seq(Request), NEW r \in Request
    PROVE  Hashed(Append(s, r)) = Append(Hashed(s), [account |-> r.account, asset |-> r.asset,
                                                     amount |-> r.amount])
  <1>. DEFINE h == [account |-> r.account, asset |-> r.asset, amount |-> r.amount]
  <1>1. h \in Entry
    BY DEF Request, Entry
  <1>2. Append(s, r) \in Seq(Request) /\ Len(Append(s, r)) = Len(s) + 1
        /\ (\A i \in 1..Len(s) : Append(s, r)[i] = s[i]) /\ Append(s, r)[Len(s) + 1] = r
    BY AppendProperties
  <1>3. Append(Hashed(s), h) \in Seq(Entry) /\ Len(Append(Hashed(s), h)) = Len(s) + 1
        /\ (\A i \in 1..Len(s) : Append(Hashed(s), h)[i] = Hashed(s)[i])
        /\ Append(Hashed(s), h)[Len(s) + 1] = h
    BY <1>1, HashedType, AppendProperties
  <1>4. Hashed(Append(s, r)) \in Seq(Entry) /\ Len(Hashed(Append(s, r))) = Len(s) + 1
        /\ \A i \in 1..(Len(s) + 1) : Hashed(Append(s, r))[i] =
              [account |-> Append(s, r)[i].account, asset |-> Append(s, r)[i].asset,
               amount |-> Append(s, r)[i].amount]
    BY <1>2, HashedType
  <1>5. \A i \in 1..Len(Hashed(Append(s, r))) : Hashed(Append(s, r))[i] = Append(Hashed(s), h)[i]
    BY <1>2, <1>3, <1>4, HashedType
  <1>. HIDE DEF h
  <1>6. Hashed(Append(s, r)) = Append(Hashed(s), h)
    BY <1>3, <1>4, <1>5, SeqEqual
  <1>. QED
    BY <1>6 DEF h

\* settle owes well-formed payouts: withdrawals first, then forced withdrawals.
LEMMA BatchPayoutsType ==
    ASSUME NEW wds \in Seq(Withdrawal), NEW forced \in Seq(Entry)
    PROVE  BatchPayouts(wds, forced) \in Seq(Payout)
  <1>. DEFINE w(i) == [to |-> wds[i].recipient, asset |-> wds[i].asset, amount |-> wds[i].amount]
              f(i) == [to |-> forced[i].account, asset |-> forced[i].asset,
                       amount |-> forced[i].amount]
  <1>1. ASSUME NEW i \in 1..Len(wds) PROVE w(i) \in Payout
    <2>1. wds[i] \in Withdrawal
      OBVIOUS
    <2>. QED
      BY <2>1 DEF Withdrawal, Payout
  <1>2. ASSUME NEW i \in 1..Len(forced) PROVE f(i) \in Payout
    <2>1. forced[i] \in Entry
      OBVIOUS
    <2>. QED
      BY <2>1 DEF Entry, Payout
  <1>. HIDE DEF w, f
  <1>3. [i \in 1..Len(wds) |-> w(i)] \in Seq(Payout)
    BY <1>1, IsASeq
  <1>4. [i \in 1..Len(forced) |-> f(i)] \in Seq(Payout)
    BY <1>2, IsASeq
  <1>5. [i \in 1..Len(wds) |-> w(i)] \o [i \in 1..Len(forced) |-> f(i)] \in Seq(Payout)
    BY <1>3, <1>4, ConcatProperties
  <1>6. DOMAIN wds = 1..Len(wds) /\ DOMAIN forced = 1..Len(forced)
    OBVIOUS
  <1>. QED
    BY <1>5, <1>6 DEF BatchPayouts, w, f

\* escapeWithdraw owes one well-formed payout for each asset of the leaf.
LEMMA LeafPayoutsType ==
    ASSUME NEW a \in Accounts, NEW balances \in Balances
    PROVE  LeafPayouts(a, balances) \in Seq(Payout) \ {<<>>}
  <1>. DEFINE p(i) == [to |-> a, asset |-> AssetOrder[i], amount |-> balances[AssetOrder[i]]]
  <1>1. ASSUME NEW i \in 1..Len(AssetOrder) PROVE p(i) \in Payout
    <2>1. AssetOrder[i] \in Assets
      BY AddressAssumption
    <2>. QED
      BY <2>1 DEF Balances, Payout
  <1>. HIDE DEF p
  <1>2. Len(AssetOrder) \in Nat /\ DOMAIN AssetOrder = 1..Len(AssetOrder)
    BY AddressAssumption
  <1>3. [i \in 1..Len(AssetOrder) |-> p(i)] \in Seq(Payout)
    BY <1>1, <1>2, IsASeq
  <1>4. Len([i \in 1..Len(AssetOrder) |-> p(i)]) # 0
    BY <1>2, AddressAssumption
  <1>. QED
    BY <1>2, <1>3, <1>4 DEF LeafPayouts, p

\* Whatever transaction runs, what it owes is a list of payouts.
LEMMA OwedType ==
    ASSUME NEW c \in Call
    PROVE  c.owed \in Seq(Payout) /\ (c.owed # <<>> => c # NoCall)
  <1>1. CASE c = NoCall
    <2>1. c.owed = <<>>
      BY <1>1 DEF NoCall
    <2>. QED
      BY <2>1
  <1>2. CASE c \in [kind : {"settle", "escape", "claim"}, owed : Seq(Payout) \ {<<>>},
                    entered : BOOLEAN]
    <2>1. c.kind # "none" /\ c.owed \in Seq(Payout)
      BY <1>2
    <2>2. NoCall.kind = "none"
      BY DEF NoCall
    <2>. QED
      BY <2>1, <2>2
  <1>. QED
    BY <1>1, <1>2 DEF Call

\* Dropping the payout just made leaves a well-formed running transaction.
LEMMA AfterHeadType ==
    ASSUME call \in Call, call.owed # <<>>
    PROVE  AfterHead \in Call
  <1>1. call.owed \in Seq(Payout) /\ call # NoCall
    BY OwedType
  <1>. DEFINE rest == Tail(call.owed)
  <1>2. rest \in Seq(Payout) /\ Len(rest) = Len(call.owed) - 1
    BY <1>1, HeadTailProperties
  <1>. HIDE DEF rest
  <1>3. Len(call.owed) # 1 => rest # <<>>
    <2>1. Len(call.owed) \in Nat
      BY <1>1
    <2>2. Len(<<>>) = 0
      OBVIOUS
    <2>3. rest = <<>> => Len(rest) = 0
      BY <2>2, Zenon
    <2>. QED
      BY <1>2, <2>1, <2>3
  <1>4. ASSUME Len(call.owed) # 1
        PROVE  [call EXCEPT !.owed = Tail(@), !.entered = FALSE] \in Call
    BY <1>1, <1>2, <1>3, <1>4 DEF Call, rest
  <1>. QED
    BY <1>4 DEF AfterHead, Call

------------------------------------------------------------------------------
(* Type correctness *)

\* The constructor establishes the types.
LEMMA InitType == Init => TypeOK
  <1>. SUFFICES ASSUME Init PROVE TypeOK
    OBVIOUS
  <1>1. IsLedger(stateRoot)
    BY AddressAssumption DEF Init, IsLedger, Balances
  <1>2. call \in Call
    BY DEF Init, NoCall, Call
  <1>3. pendingWithdrawals \in [Accounts \X Assets -> Nat] /\ vault \in [Assets -> Nat]
    BY DEF Init
  <1>4. /\ deposits \in Seq(Entry) /\ forcedWithdrawalRequests \in Seq(Request)
        /\ credited \in Seq(Entry) /\ served \in Seq(Entry)
    BY DEF Init
  <1>. QED
    BY <1>1, <1>2, <1>3, <1>4 DEF Init, TypeOK

\* Starting a function that is not guarded against reentrancy leaves a call.
LEMMA ReenterableType ==
    ASSUME call \in Call, Reenterable
    PROVE  call' \in Call
  <1>1. CASE call' = call
    BY <1>1
  <1>2. CASE call.owed # <<>> /\ call' = [call EXCEPT !.entered = TRUE]
    <2>1. call # NoCall
      BY <1>2, OwedType
    <2>. QED
      BY <1>2, <2>1 DEF Call
  <1>. QED
    BY <1>1, <1>2 DEF Reenterable

\* deposit preserves the types.
LEMMA DepositType ==
    ASSUME TypeOK, NEW a \in Accounts, NEW x \in Assets, NEW n \in DepositAmounts,
           NEW r \in 1..n, Deposit(a, x, n, r)
    PROVE  TypeOK'
  <1>1. [account |-> a, asset |-> x, amount |-> n] \in Entry
    BY AmountAssumption DEF Entry
  <1>2. deposits' \in Seq(Entry)
    BY <1>1, AppendProperties DEF Deposit, TypeOK
  <1>3. vault' \in [Assets -> Nat]
    BY AmountAssumption DEF Deposit, TypeOK
  <1>. QED
    BY <1>2, <1>3 DEF Deposit, TypeOK, cursors, history

\* requestForcedWithdrawal preserves the types, also when a recipient calls it.
LEMMA RequestType ==
    ASSUME TypeOK, NEW a \in Accounts, NEW x \in Assets, NEW n \in RequestAmounts,
           RequestForcedWithdrawal(a, x, n)
    PROVE  TypeOK'
  <1>1. [account |-> a, asset |-> x, amount |-> n, deadline |-> now + Delay] \in Request
    BY AmountAssumption DEF Request, TypeOK
  <1>2. forcedWithdrawalRequests' \in Seq(Request)
    BY <1>1, AppendProperties DEF RequestForcedWithdrawal, TypeOK
  <1>3. call' \in Call
    BY ReenterableType DEF RequestForcedWithdrawal, TypeOK
  <1>. QED
    BY <1>2, <1>3 DEF RequestForcedWithdrawal, TypeOK, cursors, claims, history

\* activateEscapeMode preserves the types, also when a recipient calls it.
LEMMA ActivateType ==
    ASSUME TypeOK, ActivateEscapeMode
    PROVE  TypeOK'
  <1>1. call' \in Call
    BY ReenterableType DEF ActivateEscapeMode, TypeOK
  <1>. QED
    BY <1>1 DEF ActivateEscapeMode, TypeOK, cursors, claims, history

\* escapeWithdraw preserves the types: the leaf it pays out is the leaf under
\* the current root, whose balances are naturals.
LEMMA EscapeWithdrawType ==
    ASSUME TypeOK, NEW a \in Accounts, NEW leaf, EscapeWithdraw(a, leaf)
    PROVE  TypeOK'
  <1>1. leaf = Leaf(stateRoot, a) /\ leaf.present
    BY DEF EscapeWithdraw
  <1>2. leaf.balances \in Balances
    BY <1>1 DEF Leaf, IsLedger, TypeOK
  <1>3. LeafPayouts(a, leaf.balances) \in Seq(Payout) \ {<<>>}
    BY <1>2, LeafPayoutsType
  <1>4. call' \in Call
    BY <1>3 DEF EscapeWithdraw, Call
  <1>. QED
    BY <1>4 DEF EscapeWithdraw, TypeOK, cursors, history

\* withdrawPending preserves the types.
LEMMA WithdrawPendingType ==
    ASSUME TypeOK, NEW a \in Accounts, NEW x \in Assets, WithdrawPending(a, x)
    PROVE  TypeOK'
  <1>1. pendingWithdrawals[<<a, x>>] \in Nat
    BY DEF TypeOK
  <1>2. pendingWithdrawals' \in [Accounts \X Assets -> Nat]
    BY DEF WithdrawPending, TypeOK
  <1>. DEFINE p == [to |-> a, asset |-> x, amount |-> pendingWithdrawals[<<a, x>>]]
  <1>3. p \in Payout
    BY <1>1 DEF Payout
  <1>. HIDE DEF p
  <1>4. call' = [kind |-> "claim", owed |-> <<p>>, entered |-> FALSE]
    BY DEF WithdrawPending, p
  <1>5. call' \in Call
    BY <1>3, <1>4 DEF Call
  <1>. QED
    BY <1>2, <1>5 DEF WithdrawPending, TypeOK, cursors, history

\* settle preserves the types: root, cursors and payouts come from an output
\* the verifier accepts.
LEMMA SettleType ==
    ASSUME TypeOK, NEW out \in proofs, NEW wds, NEW forced, Settle(out, wds, forced)
    PROVE  TypeOK'
  <1>1. IsOutput(out)
    BY DEF TypeOK
  <1>2. wds \in Seq(Withdrawal) /\ forced \in Seq(Entry)
    BY <1>1 DEF Settle, ValidWithdrawals, IsOutput
  <1>3. BatchPayouts(wds, forced) \in Seq(Payout)
    BY <1>2, BatchPayoutsType
  <1>4. call' \in Call
    BY <1>3 DEF Settle, ApplySettlement, NoCall, Call
  <1>5. /\ IsLedger(stateRoot') /\ nextBatchId' \in Nat
        /\ nextUnprocessedDeposit' \in Nat /\ nextUnprocessedForcedWithdrawal' \in Nat
    BY <1>1, <1>2 DEF Settle, ApplySettlement, NewForcedCursor, TypeOK, IsOutput
  <1>6. credited' \in Seq(Entry) /\ served' \in Seq(Entry)
    BY <1>1, ConcatProperties DEF Settle, TypeOK, IsOutput
  <1>. QED
    BY <1>4, <1>5, <1>6 DEF Settle, TypeOK, claims

\* A payout preserves the types; the vault never goes below zero, because a
\* transfer beyond it fails.
LEMMA PayType ==
    ASSUME TypeOK, PayStep
    PROVE  TypeOK'
  <1>1. call.owed # <<>>
    BY DEF PayStep, PaySkip, PaySucceed, PayFail
  <1>2. AfterHead \in Call
    BY <1>1, AfterHeadType DEF TypeOK
  <1>3. Head(call.owed) \in Payout
    BY <1>1, OwedType, HeadTailProperties DEF TypeOK
  <1>4. CASE PaySkip
    BY <1>2, <1>4 DEF PaySkip, TypeOK, cursors, claims, history
  <1>5. CASE PaySucceed
    <2>1. vault' \in [Assets -> Nat]
      BY <1>3, <1>5 DEF PaySucceed, TypeOK, Payout
    <2>. QED
      BY <1>2, <1>5, <2>1 DEF PaySucceed, TypeOK, cursors, history
  <1>6. CASE PayFail
    <2>1. pendingWithdrawals' \in [Accounts \X Assets -> Nat]
      BY <1>3, <1>6 DEF PayFail, TypeOK, Payout
    <2>. QED
      BY <1>2, <1>6, <2>1 DEF PayFail, TypeOK, cursors, history
  <1>. QED
    BY <1>4, <1>5, <1>6 DEF PayStep

\* The inputs a proof claims to consume are entries, whether they are the
\* queue's own or made up.
LEMMA ClaimedType ==
    ASSUME NEW q \in Seq(Entry), NEW cursor \in Nat, NEW A \in SUBSET Assets,
           NEW I \in SUBSET Nat, NEW s \in ClaimedInputs(q, cursor, A, I)
    PROVE  s \in Seq(Entry)
  <1>1. CASE \E n \in BatchSizes(cursor, Len(q)) : s = SubSeq(q, cursor + 1, cursor + n)
    <2>1. PICK n \in BatchSizes(cursor, Len(q)) : s = SubSeq(q, cursor + 1, cursor + n)
      BY <1>1
    <2>2. CASE n = 0
      BY <2>1, <2>2, SubSeqEmpty
    <2>3. CASE n # 0
      BY <2>1, <2>3, SubSeqType, AmountAssumption DEF BatchSizes
    <2>. QED
      BY <2>2, <2>3
  <1>2. CASE \E a \in Accounts, x \in A, n \in I :
                 s = <<[account |-> a, asset |-> x, amount |-> n]>>
    BY <1>2 DEF Entry
  <1>. QED
    BY <1>1, <1>2 DEF ClaimedInputs

\* The forced withdrawals a batch reports are entries.
LEMMA DrainedType ==
    ASSUME NEW q \in Seq(Entry), NEW amounts \in [DOMAIN q -> 0..MaxBalance]
    PROVE  DrainedOf(q, amounts) \in Seq(Entry)
  <1>. DEFINE d(i) == [q[i] EXCEPT !.amount = amounts[i]]
  <1>1. ASSUME NEW i \in 1..Len(q) PROVE d(i) \in Entry
    <2>1. q[i] \in Entry /\ amounts[i] \in Nat
      BY AmountAssumption
    <2>. QED
      BY <2>1 DEF Entry
  <1>2. DOMAIN q = 1..Len(q)
    OBVIOUS
  <1>. HIDE DEF d
  <1>3. [i \in 1..Len(q) |-> d(i)] \in Seq(Entry)
    BY <1>1, IsASeq
  <1>. QED
    BY <1>2, <1>3 DEF DrainedOf, d

\* The withdrawals a batch reports are withdrawals.
LEMMA SignedType ==
    ASSUME NEW wds \in SignedWithdrawals
    PROVE  wds \in Seq(Withdrawal)
  <1>1. CASE wds = <<>>
    BY <1>1
  <1>2. ASSUME NEW a \in Accounts, NEW r \in Accounts, NEW x \in Configured,
               NEW n \in WithdrawAmounts,
               wds = <<[account |-> a, recipient |-> r, asset |-> x, amount |-> n]>>
        PROVE  wds \in Seq(Withdrawal)
    <2>1. [account |-> a, recipient |-> r, asset |-> x, amount |-> n] \in Withdrawal
      BY AddressAssumption, AmountAssumption DEF Withdrawal
    <2>. QED
      BY <1>2, <2>1
  <1>. QED
    BY <1>1, <1>2 DEF SignedWithdrawals

\* A batch starts from a ledger and from natural cursors.
LEMMA BaseType ==
    ASSUME TypeOK, NEW base \in Bases
    PROVE  /\ base.batchId \in Nat /\ base.dep \in Nat /\ base.forced \in Nat
           /\ IsLedger(base.root)
  <1>1. CASE base = [batchId |-> nextBatchId, root |-> stateRoot, dep |-> nextUnprocessedDeposit,
                     forced |-> nextUnprocessedForcedWithdrawal]
    BY <1>1 DEF TypeOK
  <1>2. ASSUME NEW p \in proofs,
               base = [batchId |-> p.batchId + 1, root |-> p.newStateRoot,
                       dep |-> p.newDepositCursor,
                       forced |-> p.oldForcedWithdrawalCursor + Len(p.consumedForcedWithdrawals)]
        PROVE  /\ base.batchId \in Nat /\ base.dep \in Nat /\ base.forced \in Nat
               /\ IsLedger(base.root)
    <2>1. /\ p.batchId \in Nat /\ p.newDepositCursor \in Nat /\ p.oldForcedWithdrawalCursor \in Nat
          /\ IsLedger(p.newStateRoot) /\ p.consumedForcedWithdrawals \in Seq(Entry)
      BY DEF TypeOK, IsOutput
    <2>. QED
      BY <1>2, <2>1
  <1>. QED
    BY <1>1, <1>2 DEF Bases

\* Prove enumerates small batches, so that TLC can. Here a prover proves any lists and any
\* ledger that the contract of the guest admits, of any size and at any time.
ProveAny ==
    /\ \E base \in Bases, dom \in Domains, wds \in Seq(Withdrawal), deps \in Seq(Entry),
          requests \in Seq(Entry), drained \in Seq(Entry) : \E new :
             IsLedger(new) /\ ProveFrom(base, dom, wds, deps, requests, drained, new)
    /\ UNCHANGED <<now, stateRoot, cursors, deposits, forcedWithdrawalRequests, escapeMode,
                   claims, call, history>>

AnyNext == UserStep \/ SettleStep \/ PayStep \/ Tick \/ ProveAny

AnySpec == Init /\ [][AnyNext]_vars

\* What the prover of the model can prove, any prover can.
LEMMA ProveIsAny ==
    ASSUME TypeOK, Prove
    PROVE  ProveAny
  <1>. DEFINE Deps(base)     == ClaimedInputs(deposits, base.dep, Configured, DepositAmounts)
              Requests(base) == ClaimedInputs(Hashed(forcedWithdrawalRequests), base.forced,
                                              Assets, RequestAmounts)
              News(base, deps) == [DOMAIN base.root \cup {deps[i].account : i \in DOMAIN deps}
                                     -> [Assets -> 0..MaxBalance]]
  <1>1. PICK base \in Bases, dom \in Domains, wds \in SignedWithdrawals :
           \E deps \in Deps(base), requests \in Requests(base) :
              \E amounts \in [DOMAIN requests -> 0..MaxBalance], new \in News(base, deps) :
                 ProveFrom(base, dom, wds, deps, requests, DrainedOf(requests, amounts), new)
    BY DEF Prove
  <1>. HIDE DEF Deps, Requests, News
  <1>2. PICK deps \in Deps(base), requests \in Requests(base) :
              \E amounts \in [DOMAIN requests -> 0..MaxBalance], new \in News(base, deps) :
                 ProveFrom(base, dom, wds, deps, requests, DrainedOf(requests, amounts), new)
    BY <1>1
  <1>3. PICK amounts \in [DOMAIN requests -> 0..MaxBalance], new \in News(base, deps) :
                 ProveFrom(base, dom, wds, deps, requests, DrainedOf(requests, amounts), new)
    BY <1>2
  <1>4. /\ base.batchId \in Nat /\ base.dep \in Nat /\ base.forced \in Nat
        /\ IsLedger(base.root)
    BY BaseType
  <1>5. deps \in Seq(Entry)
    BY <1>4, ClaimedType, AddressAssumption, AmountAssumption DEF TypeOK, Deps
  <1>6. requests \in Seq(Entry)
    <2>1. Hashed(forcedWithdrawalRequests) \in Seq(Entry)
      BY HashedType DEF TypeOK
    <2>. QED
      BY <1>4, <2>1, ClaimedType, AmountAssumption DEF Requests
  <1>7. DrainedOf(requests, amounts) \in Seq(Entry)
    BY <1>6, DrainedType
  <1>8. wds \in Seq(Withdrawal)
    BY SignedType
  <1>9. IsLedger(new)
    <2>1. {deps[i].account : i \in DOMAIN deps} \subseteq Accounts
      <3>1. ASSUME NEW i \in DOMAIN deps PROVE deps[i].account \in Accounts
        <4>1. deps[i] \in Entry
          BY <1>5
        <4>. QED
          BY <4>1 DEF Entry
      <3>. QED
        BY <3>1
    <2>2. DOMAIN base.root \subseteq Accounts
      BY <1>4 DEF IsLedger
    <2>3. [Assets -> 0..MaxBalance] \subseteq Balances
      BY AmountAssumption DEF Balances
    <2>. QED
      BY <2>1, <2>2, <2>3 DEF IsLedger, News
  <1>10. UNCHANGED <<now, stateRoot, cursors, deposits, forcedWithdrawalRequests, escapeMode,
                     claims, call, history>>
    BY DEF Prove
  <1>. QED
    BY <1>3, <1>5, <1>6, <1>7, <1>8, <1>9, <1>10 DEF ProveAny

\* A proof any prover can make has the fields of a public output.
LEMMA ProveType ==
    ASSUME TypeOK, ProveAny
    PROVE  TypeOK'
  <1>1. PICK base \in Bases, dom \in Domains, wds \in Seq(Withdrawal), deps \in Seq(Entry),
             requests \in Seq(Entry), drained \in Seq(Entry) :
           \E new : IsLedger(new) /\ ProveFrom(base, dom, wds, deps, requests, drained, new)
    BY DEF ProveAny
  <1>2. PICK new : IsLedger(new) /\ ProveFrom(base, dom, wds, deps, requests, drained, new)
    BY <1>1
  <1>3. /\ base.batchId \in Nat /\ base.dep \in Nat /\ base.forced \in Nat
        /\ IsLedger(base.root)
    BY BaseType
  <1>. DEFINE out == BatchOutput(base, dom, deps, requests, drained, wds, new)
  <1>4. IsOutput(out)
    BY <1>3, <1>2 DEF IsOutput, BatchOutput
  <1>. HIDE DEF out
  <1>5. proofs' = proofs \cup {out}
    BY <1>2 DEF out, ProveFrom
  <1>6. \A o \in proofs' : IsOutput(o)
    BY <1>4, <1>5 DEF TypeOK
  <1>7. UNCHANGED <<now, stateRoot, cursors, deposits, forcedWithdrawalRequests, escapeMode,
                    claims, call, history>>
    BY DEF ProveAny
  <1>. QED
    BY <1>6, <1>7 DEF TypeOK, cursors, claims, history

\* Every step of the contract, the clock and the provers preserves the types.
LEMMA TypeInductive == TypeOK /\ [AnyNext]_vars => TypeOK'
  <1>. SUFFICES ASSUME TypeOK, [AnyNext]_vars PROVE TypeOK'
    OBVIOUS
  <1>1. CASE UNCHANGED vars
    BY <1>1 DEF vars, TypeOK, cursors, claims, history
  <1>2. CASE UserStep
    <2>1. ASSUME NEW a \in Accounts, NEW x \in Assets, NEW n \in DepositAmounts,
                 NEW r \in 1..n, Deposit(a, x, n, r)
          PROVE  TypeOK'
      BY <2>1, DepositType
    <2>2. ASSUME NEW a \in Accounts, NEW x \in Assets, NEW n \in RequestAmounts,
                 RequestForcedWithdrawal(a, x, n)
          PROVE  TypeOK'
      BY <2>2, RequestType
    <2>3. ASSUME NEW a \in Accounts, NEW r \in KnownRoots, EscapeWithdraw(a, Leaf(r, a))
          PROVE  TypeOK'
      BY <2>3, EscapeWithdrawType
    <2>4. ASSUME NEW a \in Accounts, NEW x \in Assets, WithdrawPending(a, x)
          PROVE  TypeOK'
      BY <2>4, WithdrawPendingType
    <2>. QED
      BY <1>2, <2>1, <2>2, <2>3, <2>4, ActivateType DEF UserStep
  <1>3. CASE SettleStep
    BY <1>3, SettleType DEF SettleStep
  <1>4. CASE PayStep
    BY <1>4, PayType
  <1>5. CASE Tick
    BY <1>5 DEF Tick, TypeOK, cursors, claims, history
  <1>6. CASE ProveAny
    BY <1>6, ProveType
  <1>. QED
    BY <1>1, <1>2, <1>3, <1>4, <1>5, <1>6 DEF AnyNext

\* With any prover: the types.
LEMMA AnyTypes == AnySpec => []TypeOK
  BY InitType, TypeInductive, PTL DEF AnySpec

\* The provers of the model are some of all provers.
LEMMA SpecIsAny == Spec => AnySpec
<1>1. TypeOK /\ [Next]_vars => [AnyNext]_vars
  BY ProveIsAny DEF Next, AnyNext
<1>2. TypeOK /\ [Next]_vars => TypeOK'
  BY <1>1, TypeInductive
<1> QED BY <1>1, <1>2, InitType, PTL DEF Spec, AnySpec

\* In every state the contract reaches, each of its variables is of its type:
\* balances and cursors are natural numbers, queues hold entries.
THEOREM TypeCorrect == Spec => []TypeOK
BY AnyTypes, SpecIsAny, PTL

------------------------------------------------------------------------------
(* The input queues *)

\* ExactlyOnce does not survive a step by itself: that a batch ends inside the
\* queue is what makes the next stretch a stretch of it.
QueueInv ==
    /\ nextUnprocessedDeposit =< Len(deposits)
    /\ nextUnprocessedForcedWithdrawal =< Len(forcedWithdrawalRequests)
    /\ ExactlyOnce

\* A queue that grows at its end keeps its prefixes.
LEMMA PrefixOfAppend ==
    ASSUME NEW S, NEW s \in Seq(S), NEW e \in S, NEW n \in Nat, n =< Len(s)
    PROVE  SubSeq(Append(s, e), 1, n) = SubSeq(s, 1, n)
  <1>1. Append(s, e) \in Seq(S) /\ Len(Append(s, e)) = Len(s) + 1
        /\ \A i \in 1..Len(s) : Append(s, e)[i] = s[i]
    BY AppendProperties
  <1>2. SubSeq(s, 1, n) \in Seq(S) /\ Len(SubSeq(s, 1, n)) = n
        /\ \A i \in 1..n : SubSeq(s, 1, n)[i] = s[i]
    BY SubSeqType
  <1>3. SubSeq(Append(s, e), 1, n) \in Seq(S) /\ Len(SubSeq(Append(s, e), 1, n)) = n
        /\ \A i \in 1..n : SubSeq(Append(s, e), 1, n)[i] = Append(s, e)[i]
    BY <1>1, SubSeqType
  <1>. QED
    BY <1>1, <1>2, <1>3, SeqEqual

\* Only a deposit, a request and a settled batch touch the queues and cursors.
LEMMA QueueSteps ==
    ASSUME TypeOK, [AnyNext]_vars
    PROVE  \/ UNCHANGED <<deposits, forcedWithdrawalRequests, cursors, history, stateRoot>>
              /\ escapeMode' \in {escapeMode, TRUE}
           \/ \E a \in Accounts, x \in Assets, n \in DepositAmounts : \E r \in 1..n :
                 Deposit(a, x, n, r)
           \/ \E a \in Accounts, x \in Assets, n \in RequestAmounts :
                 RequestForcedWithdrawal(a, x, n)
           \/ SettleStep
  <1>. DEFINE Same == UNCHANGED <<deposits, forcedWithdrawalRequests, cursors, history, stateRoot>>
                      /\ escapeMode' \in {escapeMode, TRUE}
  <1>1. CASE UNCHANGED vars
    BY <1>1 DEF vars
  <1>2. CASE UserStep
    <2>1. ASSUME NEW a \in Accounts, NEW r \in KnownRoots, EscapeWithdraw(a, Leaf(r, a))
          PROVE  Same
      BY <2>1 DEF EscapeWithdraw
    <2>2. ASSUME NEW a \in Accounts, NEW x \in Assets, WithdrawPending(a, x)
          PROVE  Same
      BY <2>2 DEF WithdrawPending
    <2>3. ActivateEscapeMode => Same
      BY DEF ActivateEscapeMode
    <2>. HIDE DEF Same
    <2>4. \/ Same
          \/ \E a \in Accounts, x \in Assets, n \in DepositAmounts : \E r \in 1..n :
                 Deposit(a, x, n, r)
          \/ \E a \in Accounts, x \in Assets, n \in RequestAmounts :
                 RequestForcedWithdrawal(a, x, n)
      BY <1>2, <2>1, <2>2, <2>3 DEF UserStep
    <2>. QED
      BY <2>4 DEF Same
  <1>3. CASE PayStep
    BY <1>3 DEF PayStep, PaySkip, PaySucceed, PayFail
  <1>4. CASE Tick
    BY <1>4 DEF Tick
  <1>5. CASE ProveAny
    BY <1>5 DEF ProveAny
  <1>. QED
    BY <1>1, <1>2, <1>3, <1>4, <1>5 DEF AnyNext

\* Every step keeps the cursors inside their queues and the consumed inputs
\* equal to the queues up to the cursors: settle compares the hashes of the
\* queues' own entries with the ones the proof consumed.
LEMMA QueueInductive == TypeOK /\ QueueInv /\ [AnyNext]_vars => QueueInv'
  <1>. SUFFICES ASSUME TypeOK, QueueInv, [AnyNext]_vars PROVE QueueInv'
    OBVIOUS
  <1>. USE DEF cursors, history
  <1>1. /\ deposits \in Seq(Entry) /\ forcedWithdrawalRequests \in Seq(Request)
        /\ nextUnprocessedDeposit \in Nat /\ nextUnprocessedForcedWithdrawal \in Nat
    BY DEF TypeOK
  <1>2. CASE UNCHANGED <<deposits, forcedWithdrawalRequests, cursors, history>>
    BY <1>2 DEF QueueInv, ExactlyOnce
  <1>3. ASSUME NEW a \in Accounts, NEW x \in Assets, NEW n \in DepositAmounts, NEW r \in 1..n,
               Deposit(a, x, n, r)
        PROVE  QueueInv'
    <2>. DEFINE e == [account |-> a, asset |-> x, amount |-> n]
    <2>1. e \in Entry
      BY AmountAssumption DEF Entry
    <2>2. deposits' = Append(deposits, e)
      BY <1>3 DEF Deposit
    <2>. HIDE DEF e
    <2>3. SubSeq(deposits', 1, nextUnprocessedDeposit) = SubSeq(deposits, 1, nextUnprocessedDeposit)
      BY <1>1, <2>1, <2>2, PrefixOfAppend DEF QueueInv
    <2>4. Len(deposits') = Len(deposits) + 1
      BY <1>1, <2>1, <2>2, AppendProperties
    <2>. QED
      BY <1>1, <1>3, <2>3, <2>4 DEF Deposit, QueueInv, ExactlyOnce
  <1>4. ASSUME NEW a \in Accounts, NEW x \in Assets, NEW n \in RequestAmounts,
               RequestForcedWithdrawal(a, x, n)
        PROVE  QueueInv'
    <2>. DEFINE q == [account |-> a, asset |-> x, amount |-> n, deadline |-> now + Delay]
    <2>1. q \in Request
      BY AmountAssumption DEF Request, TypeOK
    <2>2. forcedWithdrawalRequests' = Append(forcedWithdrawalRequests, q)
      BY <1>4 DEF RequestForcedWithdrawal
    <2>. HIDE DEF q
    <2>3. SubSeq(forcedWithdrawalRequests', 1, nextUnprocessedForcedWithdrawal)
            = SubSeq(forcedWithdrawalRequests, 1, nextUnprocessedForcedWithdrawal)
      BY <1>1, <2>1, <2>2, PrefixOfAppend DEF QueueInv
    <2>4. Len(forcedWithdrawalRequests') = Len(forcedWithdrawalRequests) + 1
      BY <1>1, <2>1, <2>2, AppendProperties
    <2>5. UNCHANGED <<cursors, deposits, history>>
      BY <1>4 DEF RequestForcedWithdrawal
    <2>6. Hashed(SubSeq(forcedWithdrawalRequests', 1, nextUnprocessedForcedWithdrawal)) = served
      BY <2>3 DEF QueueInv, ExactlyOnce
    <2>. QED
      BY <1>1, <2>4, <2>5, <2>6 DEF QueueInv, ExactlyOnce
  <1>5. ASSUME NEW out \in proofs, NEW wds, NEW forced, Settle(out, wds, forced)
        PROVE  QueueInv'
    <2>1. /\ out.oldDepositCursor = nextUnprocessedDeposit
          /\ out.newDepositCursor >= nextUnprocessedDeposit
          /\ out.newDepositCursor =< Len(deposits)
          /\ out.newDepositCursor \in Nat
      BY <1>5 DEF Settle, ValidOutput, nextDepositId, TypeOK, IsOutput
    <2>2. forced \in Seq(Entry)
      BY <1>5 DEF Settle, ValidWithdrawals, TypeOK, IsOutput
    <2>. DEFINE f == nextUnprocessedForcedWithdrawal
                g == NewForcedCursor(out, forced)
    <2>3. g \in Nat /\ f =< g /\ g =< Len(forcedWithdrawalRequests)
          /\ out.oldForcedWithdrawalCursor = f
      BY <1>1, <1>5, <2>2 DEF Settle, ValidOutput, ValidForcedCursor, NewForcedCursor,
                              nextForcedWithdrawalId
    <2>4. /\ credited' = credited \o SubSeq(deposits, nextUnprocessedDeposit + 1,
                                            out.newDepositCursor)
          /\ served' = served \o Hashed(SubSeq(forcedWithdrawalRequests, f + 1, g))
      BY <1>5, <2>1, <2>3 DEF Settle, ValidConsumedInputs
    <2>5. /\ nextUnprocessedDeposit' = out.newDepositCursor
          /\ nextUnprocessedForcedWithdrawal' = g
          /\ UNCHANGED <<deposits, forcedWithdrawalRequests>>
      BY <1>5 DEF Settle, ApplySettlement
    <2>. HIDE DEF g
    <2>6. credited' = SubSeq(deposits, 1, out.newDepositCursor)
      <3>1. SubSeq(deposits, 1, nextUnprocessedDeposit)
              \o SubSeq(deposits, nextUnprocessedDeposit + 1, out.newDepositCursor)
            = SubSeq(deposits, 1, out.newDepositCursor)
        <4>. DEFINE c == nextUnprocessedDeposit
                    d == out.newDepositCursor
        <4>1. 1 \in 1..(Len(deposits) + 1) /\ c \in 0..Len(deposits) /\ d \in c..Len(deposits)
          BY <1>1, <2>1 DEF QueueInv
        <4>. HIDE DEF c, d
        <4>2. SubSeq(deposits, 1, c) \o SubSeq(deposits, c + 1, d) = SubSeq(deposits, 1, d)
          BY <1>1, <4>1, ConcatAdjacentSubSeq
        <4>. QED
          BY <4>2 DEF c, d
      <3>. QED
        BY <2>4, <3>1 DEF QueueInv, ExactlyOnce
    <2>7. served' = Hashed(SubSeq(forcedWithdrawalRequests, 1, g))
      <3>. DEFINE h == Hashed(forcedWithdrawalRequests)
      <3>1. h \in Seq(Entry) /\ Len(h) = Len(forcedWithdrawalRequests)
        BY <1>1, HashedType
      <3>. HIDE DEF h
      <3>4. f \in Nat /\ f =< Len(forcedWithdrawalRequests)
        BY <1>1 DEF QueueInv
      <3>. HIDE DEF f
      <3>2. /\ Hashed(SubSeq(forcedWithdrawalRequests, 1, f)) = SubSeq(h, 1, f)
            /\ Hashed(SubSeq(forcedWithdrawalRequests, f + 1, g)) = SubSeq(h, f + 1, g)
            /\ Hashed(SubSeq(forcedWithdrawalRequests, 1, g)) = SubSeq(h, 1, g)
        BY <1>1, <2>3, <3>4, HashedSubSeq DEF h
      <3>3. SubSeq(h, 1, f) \o SubSeq(h, f + 1, g) = SubSeq(h, 1, g)
        <4>1. 1 \in 1..(Len(h) + 1) /\ f \in 0..Len(h) /\ g \in f..Len(h)
          BY <2>3, <3>1, <3>4
        <4>. QED
          BY <3>1, <4>1, ConcatAdjacentSubSeq
      <3>5. served = Hashed(SubSeq(forcedWithdrawalRequests, 1, f))
        BY DEF f, QueueInv, ExactlyOnce
      <3>. QED
        BY <2>4, <3>2, <3>3, <3>5
    <2>. QED
      BY <2>1, <2>3, <2>5, <2>6, <2>7 DEF QueueInv, ExactlyOnce
  <1>. QED
    BY <1>2, <1>3, <1>4, <1>5, QueueSteps DEF SettleStep

\* At deployment both queues are empty and nothing is consumed.
LEMMA InitQueue == Init => QueueInv
  <1>. SUFFICES ASSUME Init PROVE QueueInv
    OBVIOUS
  <1>1. SubSeq(deposits, 1, 0) = <<>> /\ SubSeq(forcedWithdrawalRequests, 1, 0) = <<>>
    BY SubSeqEmpty
  <1>2. Hashed(<<>>) = <<>>
    BY HashedEmpty
  <1>3. /\ deposits = <<>> /\ forcedWithdrawalRequests = <<>> /\ credited = <<>> /\ served = <<>>
        /\ nextUnprocessedDeposit = 0 /\ nextUnprocessedForcedWithdrawal = 0
    BY DEF Init
  <1>4. ExactlyOnce
    BY <1>1, <1>2, <1>3 DEF ExactlyOnce
  <1>. QED
    BY <1>3, <1>4 DEF QueueInv

\* With any prover: each input once.
LEMMA AnyConsumesOnce == AnySpec => []ExactlyOnce
  <1>1. QueueInv => ExactlyOnce
    BY DEF QueueInv
  <1>. QED
    BY <1>1, InitType, InitQueue, TypeInductive, QueueInductive, PTL DEF AnySpec

\* What settled batches were told to credit and to drain is what the contract
\* had queued: every deposit and every request once, in order, without a gap,
\* however proofs are made, reordered, replayed or left unused.
THEOREM ConsumedExactlyOnce == Spec => []ExactlyOnce
BY AnyConsumesOnce, SpecIsAny, PTL

------------------------------------------------------------------------------
(* Deadlines *)

\* The clock only moves forward, so a request queued later is due later, and
\* none is due more than Delay from now.
DeadlineInv ==
    \A i \in 1..Len(forcedWithdrawalRequests) :
        /\ forcedWithdrawalRequests[i].deadline =< now + Delay
        /\ \A j \in 1..i :
              forcedWithdrawalRequests[j].deadline =< forcedWithdrawalRequests[i].deadline

\* Every step keeps the deadlines of the request queue in the order of the
\* queue: the delay is a constant of the deployment and the clock never goes back.
LEMMA DeadlineInductive == TypeOK /\ DeadlineInv /\ [AnyNext]_vars => DeadlineInv'
  <1>. SUFFICES ASSUME TypeOK, DeadlineInv, [AnyNext]_vars PROVE DeadlineInv'
    OBVIOUS
  <1>1. forcedWithdrawalRequests \in Seq(Request) /\ now \in Nat /\ Delay \in Nat
    BY AmountAssumption DEF TypeOK
  <1>2. \A i \in 1..Len(forcedWithdrawalRequests) : forcedWithdrawalRequests[i].deadline \in Nat
    <2>1. ASSUME NEW i \in 1..Len(forcedWithdrawalRequests)
          PROVE  forcedWithdrawalRequests[i].deadline \in Nat
      <3>1. forcedWithdrawalRequests[i] \in Request
        BY <1>1
      <3>. QED
        BY <3>1 DEF Request
    <2>. QED
      BY <2>1
  <1>3. CASE forcedWithdrawalRequests' = forcedWithdrawalRequests /\ now' \in {now, now + 1}
    BY <1>1, <1>2, <1>3 DEF DeadlineInv
  <1>4. ASSUME NEW a \in Accounts, NEW x \in Assets, NEW n \in RequestAmounts,
               RequestForcedWithdrawal(a, x, n)
        PROVE  DeadlineInv'
    <2>. DEFINE q == [account |-> a, asset |-> x, amount |-> n, deadline |-> now + Delay]
                old == forcedWithdrawalRequests
                new == forcedWithdrawalRequests'
    <2>1. q \in Request /\ q.deadline = now + Delay
      BY <1>1, AmountAssumption DEF Request
    <2>2. new = Append(old, q) /\ now' = now
      BY <1>4 DEF RequestForcedWithdrawal
    <2>. HIDE DEF q
    <2>3. /\ Len(new) = Len(old) + 1
          /\ \A i \in 1..Len(old) : new[i] = old[i]
          /\ new[Len(old) + 1] = q
      BY <1>1, <2>1, <2>2, AppendProperties
    <2>. HIDE DEF new, old
    <2>4. ASSUME NEW i \in 1..Len(new), NEW j \in 1..i
          PROVE  new[i].deadline =< now + Delay /\ new[j].deadline =< new[i].deadline
      <3>1. Len(old) \in Nat
        BY <1>1 DEF old
      <3>2. CASE i = Len(old) + 1
        <4>1. CASE j = i
          BY <1>1, <2>1, <2>3, <3>1, <3>2, <4>1
        <4>2. CASE j # i
          <5>1. j \in 1..Len(old) /\ new[j] = old[j]
            BY <2>3, <3>1, <3>2, <4>2
          <5>2. old[j].deadline =< now + Delay
            BY <5>1 DEF DeadlineInv, old
          <5>. QED
            BY <1>1, <2>1, <2>3, <3>2, <5>1, <5>2
        <4>. QED
          BY <4>1, <4>2
      <3>3. CASE i \in 1..Len(old)
        <4>1. j \in 1..Len(old) /\ new[j] = old[j] /\ new[i] = old[i]
          BY <2>3, <3>1, <3>3
        <4>. QED
          BY <3>3, <4>1 DEF DeadlineInv, old
      <3>. QED
        BY <2>3, <3>1, <3>2, <3>3
    <2>. QED
      BY <2>2, <2>4 DEF DeadlineInv, new
  <1>5. CASE UNCHANGED vars
    BY <1>3, <1>5 DEF vars
  <1>6. CASE UserStep
    <2>1. ASSUME NEW a \in Accounts, NEW x \in Assets, NEW n \in DepositAmounts,
                 NEW r \in 1..n, Deposit(a, x, n, r)
          PROVE  DeadlineInv'
      BY <1>3, <2>1 DEF Deposit
    <2>2. ASSUME NEW a \in Accounts, NEW r \in KnownRoots, EscapeWithdraw(a, Leaf(r, a))
          PROVE  DeadlineInv'
      BY <1>3, <2>2 DEF EscapeWithdraw
    <2>3. ASSUME NEW a \in Accounts, NEW x \in Assets, WithdrawPending(a, x)
          PROVE  DeadlineInv'
      BY <1>3, <2>3 DEF WithdrawPending
    <2>4. ActivateEscapeMode => DeadlineInv'
      BY <1>3 DEF ActivateEscapeMode
    <2>. QED
      BY <1>4, <1>6, <2>1, <2>2, <2>3, <2>4 DEF UserStep
  <1>7. CASE SettleStep
    BY <1>3, <1>7 DEF SettleStep, Settle
  <1>8. CASE PayStep
    BY <1>3, <1>8 DEF PayStep, PaySkip, PaySucceed, PayFail
  <1>9. CASE Tick
    BY <1>3, <1>9 DEF Tick
  <1>10. CASE ProveAny
    BY <1>3, <1>10 DEF ProveAny
  <1>. QED
    BY <1>5, <1>6, <1>7, <1>8, <1>9, <1>10 DEF AnyNext

\* With any prover: the oldest request is due first.
LEMMA AnyOldestFirst == AnySpec => []OverdueIsActionable
  <1>1. Init => DeadlineInv
    BY DEF Init, DeadlineInv
  <1>2. TypeOK /\ DeadlineInv => OverdueIsActionable
    <2>. SUFFICES ASSUME TypeOK, DeadlineInv,
                         NEW i \in (nextUnprocessedForcedWithdrawal + 1)
                                     ..Len(forcedWithdrawalRequests),
                         forcedWithdrawalRequests[i].deadline =< now
                  PROVE  OldestOverdue
      BY DEF OverdueIsActionable
    <2>. DEFINE c == nextUnprocessedForcedWithdrawal + 1
    <2>1. c \in 1..i /\ i \in 1..Len(forcedWithdrawalRequests)
      BY DEF TypeOK
    <2>2. /\ forcedWithdrawalRequests[c] \in Request
          /\ forcedWithdrawalRequests[i] \in Request
      BY <2>1 DEF TypeOK
    <2>3. forcedWithdrawalRequests[c].deadline =< forcedWithdrawalRequests[i].deadline
      BY <2>1 DEF DeadlineInv
    <2>4. /\ forcedWithdrawalRequests[c].deadline \in Nat
          /\ forcedWithdrawalRequests[i].deadline \in Nat /\ now \in Nat
      BY <2>2 DEF Request, TypeOK
    <2>5. now >= forcedWithdrawalRequests[c].deadline
      BY <2>3, <2>4
    <2>6. nextUnprocessedForcedWithdrawal < nextForcedWithdrawalId
      BY <2>1 DEF nextForcedWithdrawalId, TypeOK
    <2>. QED
      BY <2>5, <2>6 DEF OldestOverdue
  <1>. QED
    BY <1>1, <1>2, InitType, TypeInductive, DeadlineInductive, PTL DEF AnySpec

\* Looking at the oldest request is enough: as soon as any request of the queue
\* is overdue, so is the one activateEscapeMode looks at.
THEOREM OldestIsFirstDue == Spec => []OverdueIsActionable
BY AnyOldestFirst, SpecIsAny, PTL

------------------------------------------------------------------------------
(* Escape mode *)

\* With any prover: escape mode is final.
LEMMA AnyEscapeFinal == AnySpec => EscapeIsFinal
  <1>1. TypeOK /\ [AnyNext]_vars => [escapeMode => escapeMode' /\ UNCHANGED <<stateRoot, cursors>>]_vars
    <2>. SUFFICES ASSUME TypeOK, [AnyNext]_vars, escapeMode
                  PROVE  escapeMode' /\ UNCHANGED <<stateRoot, cursors>>
      OBVIOUS
    <2>1. CASE UNCHANGED <<deposits, forcedWithdrawalRequests, cursors, history, stateRoot>>
               /\ escapeMode' \in {escapeMode, TRUE}
      BY <2>1
    <2>2. ASSUME NEW a \in Accounts, NEW x \in Assets, NEW n \in DepositAmounts,
                 NEW r \in 1..n, Deposit(a, x, n, r)
          PROVE  escapeMode' /\ UNCHANGED <<stateRoot, cursors>>
      BY <2>2 DEF Deposit
    <2>3. ASSUME NEW a \in Accounts, NEW x \in Assets, NEW n \in RequestAmounts,
                 RequestForcedWithdrawal(a, x, n)
          PROVE  escapeMode' /\ UNCHANGED <<stateRoot, cursors>>
      BY <2>3 DEF RequestForcedWithdrawal
    <2>4. CASE SettleStep
      BY <2>4 DEF SettleStep, Settle
    <2>. QED
      BY <2>1, <2>2, <2>3, <2>4, QueueSteps
  <1>. QED
    BY <1>1, InitType, TypeInductive, PTL DEF AnySpec, EscapeIsFinal

\* Once escape mode is on it stays on, and the root and the cursors stay where
\* they are: every leaf that could be escaped with can be escaped with for good.
THEOREM EscapeModeIsFinal == Spec => EscapeIsFinal
BY AnyEscapeFinal, SpecIsAny, PTL

------------------------------------------------------------------------------
(* The contract implements InputQueue, twice *)

\* The step of the abstract queue that a settled batch is.
LEMMA TakeOfPrefix ==
    ASSUME NEW s \in Seq(Entry), NEW c \in Nat, NEW d \in Nat, c =< d, d =< Len(s)
    PROVE  \E n \in 0..(Len(s) - Len(SubSeq(s, 1, c))) :
               SubSeq(s, 1, d) = SubSeq(s, 1, Len(SubSeq(s, 1, c)) + n)
  <1>1. Len(SubSeq(s, 1, c)) = c
    BY SubSeqType
  <1>2. d - c \in 0..(Len(s) - c) /\ c + (d - c) = d
    OBVIOUS
  <1>. QED
    BY <1>1, <1>2

\* Appending to a queue is the step Enqueue.
LEMMA EnqueueOfAppend ==
    ASSUME NEW s \in Seq(Entry), NEW e \in Entry
    PROVE  /\ Len(Append(s, e)) = Len(s) + 1
           /\ SubSeq(Append(s, e), 1, Len(s)) = s
           /\ Append(s, e)[Len(s) + 1] \in Entry
  <1>1. SubSeq(Append(s, e), 1, Len(s)) = SubSeq(s, 1, Len(s))
    BY PrefixOfAppend
  <1>2. SubSeq(s, 1, Len(s)) = s
    BY SubSeqFull
  <1>. QED
    BY <1>1, <1>2, AppendProperties

\* Both cursors of a settled batch move forward and end inside their queue.
LEMMA SettleAdvances ==
    ASSUME TypeOK, SettleStep
    PROVE  /\ ~escapeMode
           /\ UNCHANGED <<deposits, forcedWithdrawalRequests, escapeMode>>
           /\ nextUnprocessedDeposit =< nextUnprocessedDeposit'
           /\ nextUnprocessedForcedWithdrawal =< nextUnprocessedForcedWithdrawal'
           /\ nextUnprocessedDeposit' \in Nat /\ nextUnprocessedForcedWithdrawal' \in Nat
  <1>1. PICK out \in proofs, w \in proofs, f \in proofs :
           Settle(out, w.withdrawals, f.forcedWithdrawals)
    BY DEF SettleStep
  <1>2. f.forcedWithdrawals \in Seq(Entry) /\ out.newDepositCursor \in Nat
    BY DEF TypeOK, IsOutput
  <1>. QED
    BY <1>1, <1>2 DEF Settle, ApplySettlement, ValidOutput, NewForcedCursor, TypeOK

\* Every step of the contract is a step of the deposit queue or leaves it alone.
LEMMA DepositQueueStep ==
    ASSUME TypeOK, QueueInv, QueueInv', [AnyNext]_vars
    PROVE  [DepositQueue!QNext]_<<deposits, credited, escapeMode>>
  <1>1. deposits \in Seq(Entry) /\ nextUnprocessedDeposit \in Nat
    BY DEF TypeOK
  <1>2. CASE UNCHANGED <<deposits, forcedWithdrawalRequests, cursors, history, stateRoot>>
             /\ escapeMode' \in {escapeMode, TRUE}
    BY <1>2 DEF history, DepositQueue!QNext, DepositQueue!Close
  <1>3. ASSUME NEW a \in Accounts, NEW x \in Assets, NEW n \in DepositAmounts,
               NEW r \in 1..n, Deposit(a, x, n, r)
        PROVE  DepositQueue!Enqueue
    <2>. DEFINE e == [account |-> a, asset |-> x, amount |-> n]
    <2>1. e \in Entry
      BY AmountAssumption DEF Entry
    <2>2. deposits' = Append(deposits, e) /\ UNCHANGED <<credited, escapeMode>>
      BY <1>3 DEF Deposit, history
    <2>. QED
      BY <1>1, <2>1, <2>2, EnqueueOfAppend DEF DepositQueue!Enqueue
  <1>4. ASSUME NEW a \in Accounts, NEW x \in Assets, NEW n \in RequestAmounts,
               RequestForcedWithdrawal(a, x, n)
        PROVE  UNCHANGED <<deposits, credited, escapeMode>>
    BY <1>4 DEF RequestForcedWithdrawal, history
  <1>5. CASE SettleStep
    <2>. DEFINE c == nextUnprocessedDeposit
                d == nextUnprocessedDeposit'
    <2>1. /\ ~escapeMode /\ UNCHANGED <<deposits, escapeMode>>
          /\ c \in Nat /\ d \in Nat /\ c =< d
      BY <1>1, <1>5, SettleAdvances
    <2>2. d =< Len(deposits)
      BY <2>1 DEF QueueInv
    <2>3. credited = SubSeq(deposits, 1, c) /\ credited' = SubSeq(deposits, 1, d)
      BY <2>1 DEF QueueInv, ExactlyOnce
    <2>. HIDE DEF c, d
    <2>4. \E n \in 0..(Len(deposits) - Len(credited)) :
             credited' = SubSeq(deposits, 1, Len(credited) + n)
      BY <1>1, <2>1, <2>2, <2>3, TakeOfPrefix
    <2>5. DepositQueue!Take
      BY <2>1, <2>4 DEF DepositQueue!Take
    <2>. QED
      BY <2>5 DEF DepositQueue!QNext
  <1>. QED
    BY <1>2, <1>3, <1>4, <1>5, QueueSteps DEF DepositQueue!QNext

\* With any prover: the deposit queue.
LEMMA AnyDepositQueue == AnySpec => DepositsTakenInOrder
  <1>1. Init => DepositQueue!QInit
    BY DEF Init, DepositQueue!QInit
  <1>2. TypeOK /\ QueueInv /\ QueueInv' /\ [AnyNext]_vars
          => [DepositQueue!QNext]_<<deposits, credited, escapeMode>>
    BY DepositQueueStep
  <1>. QED
    BY <1>1, <1>2, InitType, InitQueue, TypeInductive, QueueInductive, PTL
       DEF AnySpec, DepositsTakenInOrder, DepositQueue!QSpec

\* The deposits that proofs credit are the contract's deposit queue, taken from
\* the front in order, each once, and never after escape mode.
THEOREM DepositQueueImplemented == Spec => DepositsTakenInOrder
BY AnyDepositQueue, SpecIsAny, PTL

\* Every step of the contract is a step of the request queue or leaves it alone.
LEMMA RequestQueueStep ==
    ASSUME TypeOK, QueueInv, QueueInv', [AnyNext]_vars
    PROVE  [RequestQueue!QNext]_<<Hashed(forcedWithdrawalRequests), served, escapeMode>>
  <1>1. forcedWithdrawalRequests \in Seq(Request) /\ nextUnprocessedForcedWithdrawal \in Nat
    BY DEF TypeOK
  <1>2. CASE UNCHANGED <<deposits, forcedWithdrawalRequests, cursors, history, stateRoot>>
             /\ escapeMode' \in {escapeMode, TRUE}
    <2>1. Hashed(forcedWithdrawalRequests)' = Hashed(forcedWithdrawalRequests)
      BY <1>2
    <2>2. UNCHANGED <<Hashed(forcedWithdrawalRequests), served>>
      BY <1>2, <2>1 DEF history
    <2>. QED
      BY <1>2, <2>2 DEF RequestQueue!QNext, RequestQueue!Close
  <1>3. ASSUME NEW a \in Accounts, NEW x \in Assets, NEW n \in DepositAmounts,
               NEW r \in 1..n, Deposit(a, x, n, r)
        PROVE  UNCHANGED <<Hashed(forcedWithdrawalRequests), served, escapeMode>>
    BY <1>3 DEF Deposit, history
  <1>4. ASSUME NEW a \in Accounts, NEW x \in Assets, NEW n \in RequestAmounts,
               RequestForcedWithdrawal(a, x, n)
        PROVE  RequestQueue!Enqueue
    <2>. DEFINE q == [account |-> a, asset |-> x, amount |-> n, deadline |-> now + Delay]
                e == [account |-> q.account, asset |-> q.asset, amount |-> q.amount]
                h == Hashed(forcedWithdrawalRequests)
    <2>1. q \in Request
      BY AmountAssumption DEF Request, TypeOK
    <2>2. forcedWithdrawalRequests' = Append(forcedWithdrawalRequests, q)
          /\ UNCHANGED <<served, escapeMode>>
      BY <1>4 DEF RequestForcedWithdrawal, history
    <2>3. e \in Entry
      BY <2>1 DEF Request, Entry
    <2>. HIDE DEF q
    <2>4. Hashed(forcedWithdrawalRequests') = Append(h, e)
      BY <1>1, <2>1, <2>2, HashedAppend
    <2>5. h \in Seq(Entry)
      BY <1>1, HashedType
    <2>6. h' = Append(h, e)
      BY <2>4
    <2>. HIDE DEF h, e
    <2>7. Len(h') = Len(h) + 1 /\ SubSeq(h', 1, Len(h)) = h /\ h'[Len(h) + 1] \in Entry
      BY <2>3, <2>5, <2>6, EnqueueOfAppend
    <2>. QED
      BY <2>2, <2>7 DEF RequestQueue!Enqueue, h
  <1>5. CASE SettleStep
    <2>. DEFINE c == nextUnprocessedForcedWithdrawal
                d == nextUnprocessedForcedWithdrawal'
                h == Hashed(forcedWithdrawalRequests)
    <2>1. /\ ~escapeMode /\ UNCHANGED <<forcedWithdrawalRequests, escapeMode>>
          /\ c \in Nat /\ d \in Nat /\ c =< d
      BY <1>1, <1>5, SettleAdvances
    <2>2. c =< Len(forcedWithdrawalRequests) /\ d =< Len(forcedWithdrawalRequests)
      BY <2>1 DEF QueueInv
    <2>3. /\ served = Hashed(SubSeq(forcedWithdrawalRequests, 1, c))
          /\ served' = Hashed(SubSeq(forcedWithdrawalRequests, 1, d))
      BY <2>1 DEF QueueInv, ExactlyOnce
    <2>4. h \in Seq(Entry) /\ Len(h) = Len(forcedWithdrawalRequests)
      BY <1>1, HashedType
    <2>. HIDE DEF c, d
    <2>5. served = SubSeq(h, 1, c) /\ served' = SubSeq(h, 1, d)
      <3>1. Hashed(SubSeq(forcedWithdrawalRequests, 1, c)) = SubSeq(h, 1, c)
        BY <1>1, <2>1, <2>2, HashedSubSeq
      <3>2. Hashed(SubSeq(forcedWithdrawalRequests, 1, d)) = SubSeq(h, 1, d)
        BY <1>1, <2>1, <2>2, HashedSubSeq
      <3>. QED
        BY <2>3, <3>1, <3>2
    <2>6. h' = h
      BY <2>1
    <2>. HIDE DEF h
    <2>7. \E n \in 0..(Len(h) - Len(served)) : served' = SubSeq(h, 1, Len(served) + n)
      BY <2>1, <2>2, <2>4, <2>5, TakeOfPrefix
    <2>8. RequestQueue!Take
      BY <2>1, <2>6, <2>7 DEF RequestQueue!Take, h
    <2>. QED
      BY <2>8 DEF RequestQueue!QNext
  <1>. QED
    BY <1>2, <1>3, <1>4, <1>5, QueueSteps DEF RequestQueue!QNext

\* With any prover: the request queue.
LEMMA AnyRequestQueue == AnySpec => RequestsTakenInOrder
  <1>1. Init => RequestQueue!QInit
    BY HashedEmpty DEF Init, RequestQueue!QInit
  <1>2. TypeOK /\ QueueInv /\ QueueInv' /\ [AnyNext]_vars
          => [RequestQueue!QNext]_<<Hashed(forcedWithdrawalRequests), served, escapeMode>>
    BY RequestQueueStep
  <1>. QED
    BY <1>1, <1>2, InitType, InitQueue, TypeInductive, QueueInductive, PTL
       DEF AnySpec, RequestsTakenInOrder, RequestQueue!QSpec

\* The requests that proofs drain are the contract's forced-withdrawal queue,
\* taken from the front in order, each once, and never after escape mode.
THEOREM RequestQueueImplemented == Spec => RequestsTakenInOrder
BY AnyRequestQueue, SpecIsAny, PTL

\* The contract implements both input queues: whatever proofs exist, one batch
\* takes from each only what is next in it (ZkClob.sol:217-244).
THEOREM InputQueuesImplemented == Spec => InputsTakenInOrder
  <1>. QED
    BY DepositQueueImplemented, RequestQueueImplemented DEF InputsTakenInOrder

------------------------------------------------------------------------------
(* What lists of entries, withdrawals and payouts move *)

\* A set of records with a natural amount.
HasAmounts(S) == \A e \in S : e.amount \in Nat

\* The three kinds of records the contract adds up.
LEMMA RecordsHaveAmounts == HasAmounts(Entry) /\ HasAmounts(Withdrawal) /\ HasAmounts(Payout)
BY DEF HasAmounts, Entry, Withdrawal, Payout

\* What one record moves is a natural number.
LEMMA AmountInType ==
    ASSUME NEW S, HasAmounts(S), NEW e \in S, NEW x
    PROVE  AmountIn(e, x) \in Nat
BY DEF AmountIn, HasAmounts

\* A total is the sum over the positions of the list.
LEMMA MovedTotalIsSum ==
    ASSUME NEW S, HasAmounts(S), NEW list \in Seq(S), NEW x
    PROVE  LET f == [i \in 1..Len(list) |-> AmountIn(list[i], x)]
           IN  /\ MovedTotal(list, x) = SumFunctionOnSet(f, 1..Len(list))
               /\ IsFiniteSet(1..Len(list))
               /\ \A i \in 1..Len(list) : f[i] = AmountIn(list[i], x) /\ f[i] \in Nat
<1> DEFINE f == [i \in 1..Len(list) |-> AmountIn(list[i], x)]
<1>1. DOMAIN list = 1..Len(list) /\ Len(list) \in Nat
  OBVIOUS
<1>2. DOMAIN f = 1..Len(list)
  OBVIOUS
<1>3. MovedTotal(list, x) = SumFunctionOnSet(f, 1..Len(list))
  BY <1>1, <1>2 DEF MovedTotal, SumFunction
<1>4. IsFiniteSet(1..Len(list))
  BY <1>1, FS_Interval
<1>5. \A i \in 1..Len(list) : f[i] = AmountIn(list[i], x) /\ f[i] \in Nat
  BY AmountInType
<1> QED BY <1>3, <1>4, <1>5

\* A total is a natural number.
LEMMA MovedTotalType ==
    ASSUME NEW S, HasAmounts(S), NEW list \in Seq(S), NEW x
    PROVE  MovedTotal(list, x) \in Nat
<1> DEFINE f == [i \in 1..Len(list) |-> AmountIn(list[i], x)]
<1>1. /\ MovedTotal(list, x) = SumFunctionOnSet(f, 1..Len(list)) /\ IsFiniteSet(1..Len(list))
      /\ \A i \in 1..Len(list) : f[i] \in Nat
  BY MovedTotalIsSum
<1> HIDE DEF f
<1> QED BY <1>1, SumNat

\* An empty list moves nothing.
LEMMA MovedTotalEmpty ==
    ASSUME NEW x
    PROVE  MovedTotal(<<>>, x) = 0
<1>1. HasAmounts(Entry) /\ <<>> \in Seq(Entry) /\ 1..Len(<<>>) = {}
  BY RecordsHaveAmounts
<1> QED BY <1>1, MovedTotalIsSum, SumEmpty

\* A list of one record moves what the record moves.
LEMMA MovedTotalOne ==
    ASSUME NEW S, HasAmounts(S), NEW e \in S, NEW x
    PROVE  MovedTotal(<<e>>, x) = AmountIn(e, x)
<1> DEFINE f == [i \in 1..Len(<<e>>) |-> AmountIn(<<e>>[i], x)]
<1>1. <<e>> \in Seq(S) /\ 1..Len(<<e>>) = {1} /\ <<e>>[1] = e
  OBVIOUS
<1>2. MovedTotal(<<e>>, x) = SumFunctionOnSet(f, {1}) /\ f[1] = AmountIn(e, x) /\ f[1] \in Nat
  BY <1>1, MovedTotalIsSum
<1> HIDE DEF f
<1>3. SumFunctionOnSet(f, {1}) = f[1]
  BY <1>2, SumSingle
<1> QED BY <1>2, <1>3

\* Lists of equal length that move the same at each position move the same.
LEMMA MovedTotalEqual ==
    ASSUME NEW S, HasAmounts(S), NEW s \in Seq(S), NEW T, HasAmounts(T), NEW t \in Seq(T), NEW x,
           Len(s) = Len(t), \A i \in 1..Len(s) : AmountIn(s[i], x) = AmountIn(t[i], x)
    PROVE  MovedTotal(s, x) = MovedTotal(t, x)
<1> DEFINE f == [i \in 1..Len(s) |-> AmountIn(s[i], x)]
           g == [i \in 1..Len(t) |-> AmountIn(t[i], x)]
<1>1. /\ MovedTotal(s, x) = SumFunctionOnSet(f, 1..Len(s)) /\ IsFiniteSet(1..Len(s))
      /\ \A i \in 1..Len(s) : f[i] \in Nat
  BY MovedTotalIsSum
<1>2. MovedTotal(t, x) = SumFunctionOnSet(g, 1..Len(s))
  BY MovedTotalIsSum
<1>3. \A i \in 1..Len(s) : f[i] \in Int /\ f[i] = g[i]
  BY <1>1
<1> HIDE DEF f, g
<1> QED BY <1>1, <1>2, <1>3, SumEqual

\* What a list moves between two of its positions, as a list and as a sum over
\* its positions.
LEMMA MovedTotalSlice ==
    ASSUME NEW S, HasAmounts(S), NEW list \in Seq(S), NEW x,
           NEW c \in Nat, NEW d \in Nat, c =< d, d =< Len(list),
           NEW g, \A i \in (c + 1)..d : g[i] = AmountIn(list[i], x)
    PROVE  MovedTotal(SubSeq(list, c + 1, d), x) = SumFunctionOnSet(g, (c + 1)..d)
<1> DEFINE cut == SubSeq(list, c + 1, d)
           f == [i \in 1..Len(cut) |-> AmountIn(cut[i], x)]
           h == [i \in 1..Len(cut) |-> c + i]
<1>1. /\ cut \in Seq(S) /\ Len(cut) = d - c
      /\ \A i \in 1..Len(cut) : cut[i] = list[c + i] /\ c + i \in 1..Len(list)
  BY SubSeqType
<1>2. /\ MovedTotal(cut, x) = SumFunctionOnSet(f, 1..Len(cut)) /\ IsFiniteSet(1..Len(cut))
      /\ \A i \in 1..Len(cut) : f[i] = AmountIn(cut[i], x) /\ f[i] \in Nat
  BY <1>1, MovedTotalIsSum
<1>3. IsFiniteSet((c + 1)..d)
  BY FS_Interval
<1>4. \A i \in 1..Len(cut) : h[i] = c + i /\ h[i] \in (c + 1)..d
  BY <1>1
<1>5. \A i, j \in 1..Len(cut) : h[i] = h[j] => i = j
  BY <1>4
<1>6. ASSUME NEW t \in (c + 1)..d PROVE \E i \in 1..Len(cut) : h[i] = t
  <2>1. t - c \in 1..Len(cut) /\ c + (t - c) = t
    BY <1>1
  <2> QED BY <2>1, <1>4
<1> HIDE DEF cut, f, h
<1>7. \A i \in 1..Len(cut) : h[i] \in (c + 1)..d /\ f[i] \in Int /\ f[i] = g[h[i]]
  BY <1>1, <1>2, <1>4
<1>8. SumFunctionOnSet(f, 1..Len(cut)) = SumFunctionOnSet(g, (c + 1)..d)
  <2> DEFINE I == 1..Len(cut)
             J == (c + 1)..d
  <2>1. IsFiniteSet(I) /\ IsFiniteSet(J)
    BY <1>2, <1>3
  <2>2. \A i \in I : h[i] \in J /\ f[i] \in Int /\ f[i] = g[h[i]]
    BY <1>7
  <2>3. \A i, j \in I : h[i] = h[j] => i = j
    BY <1>5
  <2>4. \A t \in J : \E i \in I : h[i] = t
    BY <1>6
  <2> HIDE DEF I, J
  <2>5. SumFunctionOnSet(f, I) = SumFunctionOnSet(g, J)
    BY <2>1, <2>2, <2>3, <2>4, SumReindex
  <2> QED BY <2>5 DEF I, J
<1> QED BY <1>2, <1>8 DEF cut

\* A list moves what its two parts move.
LEMMA MovedTotalSplit ==
    ASSUME NEW S, HasAmounts(S), NEW list \in Seq(S), NEW x, NEW c \in 0..Len(list)
    PROVE  MovedTotal(list, x)
             = MovedTotal(SubSeq(list, 1, c), x) + MovedTotal(SubSeq(list, c + 1, Len(list)), x)
<1> DEFINE n == Len(list)
           f == [i \in 1..n |-> AmountIn(list[i], x)]
<1>1. /\ MovedTotal(list, x) = SumFunctionOnSet(f, 1..n) /\ n \in Nat /\ c \in Nat /\ c =< n
      /\ \A i \in 1..n : f[i] = AmountIn(list[i], x) /\ f[i] \in Int
  BY MovedTotalIsSum
<1> HIDE DEF f, n
<1>2. MovedTotal(SubSeq(list, 1, c), x) = SumFunctionOnSet(f, 1..c)
  <2> DEFINE z == 0
  <2>0. z + 1 = 1
    OBVIOUS
  <2>1. /\ z \in Nat /\ c \in Nat /\ z =< c /\ c =< Len(list)
        /\ \A i \in (z + 1)..c : f[i] = AmountIn(list[i], x)
    BY <1>1 DEF n
  <2> HIDE DEF z
  <2>2. MovedTotal(SubSeq(list, z + 1, c), x) = SumFunctionOnSet(f, (z + 1)..c)
    BY <2>1, MovedTotalSlice
  <2> QED BY <2>0, <2>2
<1>3. MovedTotal(SubSeq(list, c + 1, n), x) = SumFunctionOnSet(f, (c + 1)..n)
  BY <1>1, MovedTotalSlice DEF n
<1>4. /\ IsFiniteSet(1..c) /\ IsFiniteSet((c + 1)..n) /\ (1..c) \cap ((c + 1)..n) = {}
      /\ (1..c) \cup ((c + 1)..n) = 1..n
  BY <1>1, FS_Interval
<1>5. SumFunctionOnSet(f, (1..c) \cup ((c + 1)..n))
        = SumFunctionOnSet(f, 1..c) + SumFunctionOnSet(f, (c + 1)..n)
  BY <1>1, <1>4, SumUnion
<1>6. SumFunctionOnSet(f, (1..c) \cup ((c + 1)..n)) = SumFunctionOnSet(f, 1..n)
  BY <1>4
<1>7. MovedTotal(list, x)
        = MovedTotal(SubSeq(list, 1, c), x) + MovedTotal(SubSeq(list, c + 1, n), x)
  BY <1>1, <1>2, <1>3, <1>5, <1>6
<1> QED BY <1>7 DEF n

\* Two lists in a row move what each of them moves.
LEMMA MovedTotalConcat ==
    ASSUME NEW S, HasAmounts(S), NEW s \in Seq(S), NEW t \in Seq(S), NEW x
    PROVE  MovedTotal(s \o t, x) = MovedTotal(s, x) + MovedTotal(t, x)
<1>1. s \o t \in Seq(S) /\ Len(s \o t) = Len(s) + Len(t)
  BY ConcatProperties
<1>2. SubSeq(s \o t, 1, Len(s)) = s /\ SubSeq(s \o t, Len(s) + 1, Len(s \o t)) = t
  BY <1>1
<1>3. Len(s) \in 0..Len(s \o t)
  BY <1>1
<1> HIDE DEF HasAmounts
<1> QED BY <1>1, <1>2, <1>3, MovedTotalSplit

\* Paying the first payout leaves what the others move.
LEMMA MovedTotalTail ==
    ASSUME NEW S, HasAmounts(S), NEW s \in Seq(S), s # <<>>, NEW x
    PROVE  MovedTotal(s, x) = AmountIn(Head(s), x) + MovedTotal(Tail(s), x)
<1>1. Head(s) \in S /\ Tail(s) \in Seq(S)
  BY HeadTailProperties
<1>2. s = <<Head(s)>> \o Tail(s)
  OBVIOUS
<1>3. <<Head(s)>> \in Seq(S)
  BY <1>1
<1>4. MovedTotal(<<Head(s)>> \o Tail(s), x) = MovedTotal(<<Head(s)>>, x) + MovedTotal(Tail(s), x)
  BY <1>1, <1>3, MovedTotalConcat
<1>5. MovedTotal(<<Head(s)>>, x) = AmountIn(Head(s), x)
  BY <1>1, MovedTotalOne
<1> QED BY <1>2, <1>4, <1>5

\* settle pays what the withdrawals and the forced withdrawals of the batch move.
LEMMA BatchPayoutsMove ==
    ASSUME NEW wds \in Seq(Withdrawal), NEW forced \in Seq(Entry), NEW x
    PROVE  MovedTotal(BatchPayouts(wds, forced), x) = MovedTotal(wds, x) + MovedTotal(forced, x)
<1> DEFINE v == [i \in 1..Len(wds) |-> [to |-> wds[i].recipient, asset |-> wds[i].asset,
                                        amount |-> wds[i].amount]]
           w == [i \in 1..Len(forced) |-> [to |-> forced[i].account, asset |-> forced[i].asset,
                                           amount |-> forced[i].amount]]
<1>1. v \in Seq(Payout) /\ Len(v) = Len(wds)
  <2>1. \A i \in 1..Len(wds) : v[i] \in Payout
    <3>1. \A i \in 1..Len(wds) : wds[i] \in Withdrawal
      OBVIOUS
    <3> QED BY <3>1 DEF Withdrawal, Payout
  <2>2. v = [i \in 1..Len(wds) |-> v[i]]
    OBVIOUS
  <2> HIDE DEF v
  <2>3. [i \in 1..Len(wds) |-> v[i]] \in Seq(Payout)
    BY <2>1, IsASeq
  <2>4. Len([i \in 1..Len(wds) |-> v[i]]) = Len(wds)
    OBVIOUS
  <2> QED BY <2>2, <2>3, <2>4
<1>2. w \in Seq(Payout) /\ Len(w) = Len(forced)
  <2>1. \A i \in 1..Len(forced) : w[i] \in Payout
    <3>1. \A i \in 1..Len(forced) : forced[i] \in Entry
      OBVIOUS
    <3> QED BY <3>1 DEF Entry, Payout
  <2>2. w = [i \in 1..Len(forced) |-> w[i]]
    OBVIOUS
  <2> HIDE DEF w
  <2>3. [i \in 1..Len(forced) |-> w[i]] \in Seq(Payout)
    BY <2>1, IsASeq
  <2>4. Len([i \in 1..Len(forced) |-> w[i]]) = Len(forced)
    OBVIOUS
  <2> QED BY <2>2, <2>3, <2>4
<1>3. \A i \in 1..Len(wds) : AmountIn(v[i], x) = AmountIn(wds[i], x)
  BY DEF AmountIn
<1>4. \A i \in 1..Len(forced) : AmountIn(w[i], x) = AmountIn(forced[i], x)
  BY DEF AmountIn
<1>5. BatchPayouts(wds, forced) = v \o w
  <2>1. DOMAIN wds = 1..Len(wds) /\ DOMAIN forced = 1..Len(forced)
    OBVIOUS
  <2> QED BY <2>1 DEF BatchPayouts
<1> HIDE DEF v, w
<1>6. HasAmounts(Entry) /\ HasAmounts(Withdrawal) /\ HasAmounts(Payout)
  BY RecordsHaveAmounts
<1>7. MovedTotal(v, x) = MovedTotal(wds, x)
  BY <1>1, <1>3, <1>6, MovedTotalEqual
<1>8. MovedTotal(w, x) = MovedTotal(forced, x)
  BY <1>2, <1>4, <1>6, MovedTotalEqual
<1>9. MovedTotal(v \o w, x) = MovedTotal(v, x) + MovedTotal(w, x)
  BY <1>1, <1>2, <1>6, MovedTotalConcat
<1> QED BY <1>5, <1>7, <1>8, <1>9

\* escapeWithdraw pays of each asset what the leaf holds of it, once.
LEMMA LeafPayoutsMove ==
    ASSUME NEW a \in Accounts, NEW balances \in Balances, NEW x \in Assets
    PROVE  MovedTotal(LeafPayouts(a, balances), x) = balances[x]
<1> DEFINE list == LeafPayouts(a, balances)
           f == [i \in 1..Len(list) |-> AmountIn(list[i], x)]
<1>1. list \in Seq(Payout) /\ HasAmounts(Payout)
  BY LeafPayoutsType, RecordsHaveAmounts
<1>2. /\ Len(AssetOrder) \in Nat /\ DOMAIN AssetOrder = 1..Len(AssetOrder)
      /\ \A i \in 1..Len(AssetOrder) : AssetOrder[i] \in Assets
  BY AddressAssumption
<1>3. Len(list) = Len(AssetOrder)
      /\ \A i \in 1..Len(list) : list[i] = [to |-> a, asset |-> AssetOrder[i],
                                            amount |-> balances[AssetOrder[i]]]
  BY <1>2 DEF LeafPayouts
<1> HIDE DEF list
<1>12. \A i \in 1..Len(list) : AmountIn(list[i], x)
                                 = IF AssetOrder[i] = x THEN balances[x] ELSE 0
  <2>1. ASSUME NEW i \in 1..Len(list)
        PROVE  AmountIn(list[i], x) = IF AssetOrder[i] = x THEN balances[x] ELSE 0
    <3>1. list[i] = [to |-> a, asset |-> AssetOrder[i], amount |-> balances[AssetOrder[i]]]
      BY <1>3
    <3>2. list[i].asset = AssetOrder[i] /\ list[i].amount = balances[AssetOrder[i]]
      BY <3>1
    <3> QED BY <3>2 DEF AmountIn
  <2> QED BY <2>1
<1>4. /\ MovedTotal(list, x) = SumFunctionOnSet(f, 1..Len(list)) /\ IsFiniteSet(1..Len(list))
      /\ \A i \in 1..Len(list) : f[i] = AmountIn(list[i], x) /\ f[i] \in Nat
  BY <1>1, MovedTotalIsSum
<1> HIDE DEF f
<1>5. PICK k \in 1..Len(list) : AssetOrder[k] = x
  BY <1>2, <1>3, AddressAssumption
<1>6. f[k] = balances[x]
  BY <1>12, <1>4, <1>5
<1>7. \A i \in (1..Len(list)) \ {k} : f[i] = 0
  <2>1. \A i \in (1..Len(list)) \ {k} : AssetOrder[i] # x
    BY <1>2, <1>3, <1>5, AddressAssumption
  <2> QED BY <2>1, <1>12, <1>4
<1>8. IsFiniteSet((1..Len(list)) \ {k})
  BY <1>4, FS_RemoveElement
<1>9. SumFunctionOnSet(f, (1..Len(list)) \ {k}) = 0
  BY <1>7, <1>8, SumZero
<1>10. SumFunctionOnSet(f, 1..Len(list)) = f[k] + SumFunctionOnSet(f, (1..Len(list)) \ {k})
  BY <1>4, <1>5, SumRemove
<1>11. balances[x] \in Nat
  BY DEF Balances
<1> QED BY <1>4, <1>6, <1>9, <1>10, <1>11 DEF list

------------------------------------------------------------------------------
(* The deposit queue *)

\* What waits is the sum over the positions behind the cursor of any function
\* that agrees with the queue there.
LEMMA WaitingIsSum ==
    ASSUME NEW queue \in Seq(Entry), NEW c \in Nat, NEW x,
           NEW g, \A i \in (c + 1)..Len(queue) : g[i] = AmountIn(queue[i], x)
    PROVE  /\ Waiting(queue, c, x) = SumFunctionOnSet(g, (c + 1)..Len(queue))
           /\ \A i \in (c + 1)..Len(queue) : g[i] \in Nat
           /\ IsFiniteSet((c + 1)..Len(queue))
<1> DEFINE I == (c + 1)..Len(queue)
           f == [i \in I |-> AmountIn(queue[i], x)]
<1>1. Waiting(queue, c, x) = SumFunctionOnSet(f, I)
  <2>1. DOMAIN f = I
    OBVIOUS
  <2> QED BY <2>1 DEF Waiting, SumFunction
<1>2. IsFiniteSet(I)
  BY FS_Interval
<1>3. \A i \in I : f[i] \in Nat /\ f[i] = g[i]
  <2>1. \A i \in I : queue[i] \in Entry
    OBVIOUS
  <2> QED BY <2>1, RecordsHaveAmounts, AmountInType
<1>4. \A i \in I : f[i] \in Int /\ f[i] = g[i]
  BY <1>3
<1> HIDE DEF f, I
<1>5. SumFunctionOnSet(f, I) = SumFunctionOnSet(g, I)
  BY <1>2, <1>4, SumEqual
<1> QED BY <1>1, <1>2, <1>3, <1>5 DEF I

\* What waits is a natural number.
LEMMA WaitingType ==
    ASSUME NEW queue \in Seq(Entry), NEW c \in Nat, NEW x
    PROVE  Waiting(queue, c, x) \in Nat
<1> DEFINE g == [i \in (c + 1)..Len(queue) |-> AmountIn(queue[i], x)]
<1>1. \A i \in (c + 1)..Len(queue) : g[i] = AmountIn(queue[i], x)
  OBVIOUS
<1> HIDE DEF g
<1> QED BY <1>1, WaitingIsSum, SumNat

\* deposit adds what it queues.
LEMMA WaitingAppend ==
    ASSUME NEW queue \in Seq(Entry), NEW c \in 0..Len(queue), NEW e \in Entry, NEW x
    PROVE  Waiting(Append(queue, e), c, x) = Waiting(queue, c, x) + AmountIn(e, x)
<1> DEFINE n == Len(queue)
           longer == Append(queue, e)
           g == [i \in 1..(n + 1) |-> AmountIn(longer[i], x)]
<1>1. /\ longer \in Seq(Entry) /\ Len(longer) = n + 1 /\ longer[n + 1] = e
      /\ \A i \in 1..n : longer[i] = queue[i]
  BY AppendProperties
<1>2. n \in Nat /\ c \in Nat /\ c =< n
  OBVIOUS
<1>3. \A i \in (c + 1)..(n + 1) : g[i] = AmountIn(longer[i], x)
  BY <1>2
<1>4. \A i \in (c + 1)..n : g[i] = AmountIn(queue[i], x)
  BY <1>1, <1>2
<1> HIDE DEF g, longer
<1>5. /\ Waiting(longer, c, x) = SumFunctionOnSet(g, (c + 1)..(n + 1))
      /\ \A i \in (c + 1)..(n + 1) : g[i] \in Nat
  BY <1>1, <1>2, <1>3, WaitingIsSum
<1>6. Waiting(queue, c, x) = SumFunctionOnSet(g, (c + 1)..n) /\ IsFiniteSet((c + 1)..n)
  BY <1>2, <1>4, WaitingIsSum
<1> HIDE DEF n
<1>7. (c + 1)..(n + 1) = ((c + 1)..n) \cup {n + 1} /\ n + 1 \notin (c + 1)..n
  BY <1>2
<1>8. SumFunctionOnSet(g, ((c + 1)..n) \cup {n + 1}) = g[n + 1] + SumFunctionOnSet(g, (c + 1)..n)
  <2>1. \A i \in ((c + 1)..n) \cup {n + 1} : g[i] \in Int
    BY <1>5, <1>7
  <2> QED BY <1>6, <1>7, <2>1, SumAdd
<1>9. g[n + 1] = AmountIn(e, x)
  <2>1. n + 1 \in (c + 1)..(n + 1)
    BY <1>2
  <2> QED BY <1>1, <1>3, <2>1
<1>10. AmountIn(e, x) \in Nat /\ Waiting(queue, c, x) \in Nat
  BY <1>2, RecordsHaveAmounts, AmountInType, WaitingType
<1>11. Waiting(longer, c, x) = AmountIn(e, x) + Waiting(queue, c, x)
  BY <1>5, <1>6, <1>7, <1>8, <1>9
<1>12. AmountIn(e, x) + Waiting(queue, c, x) = Waiting(queue, c, x) + AmountIn(e, x)
  BY <1>10
<1> QED BY <1>11, <1>12 DEF longer

\* settle takes what it moves the cursor over.
LEMMA WaitingSettle ==
    ASSUME NEW queue \in Seq(Entry), NEW c \in Nat, NEW d \in Nat, c =< d, d =< Len(queue), NEW x
    PROVE  Waiting(queue, c, x) = MovedTotal(SubSeq(queue, c + 1, d), x) + Waiting(queue, d, x)
<1> DEFINE n == Len(queue)
           g == [i \in 1..n |-> AmountIn(queue[i], x)]
<1>1. n \in Nat /\ \A i \in 1..n : g[i] = AmountIn(queue[i], x)
  OBVIOUS
<1> HIDE DEF g
<1>2. /\ Waiting(queue, c, x) = SumFunctionOnSet(g, (c + 1)..n)
      /\ \A i \in (c + 1)..n : g[i] \in Nat
  <2>1. \A i \in (c + 1)..n : g[i] = AmountIn(queue[i], x)
    BY <1>1
  <2> QED BY <2>1, WaitingIsSum
<1>3. Waiting(queue, d, x) = SumFunctionOnSet(g, (d + 1)..n)
  <2>1. \A i \in (d + 1)..n : g[i] = AmountIn(queue[i], x)
    BY <1>1
  <2> QED BY <2>1, WaitingIsSum
<1>4. MovedTotal(SubSeq(queue, c + 1, d), x) = SumFunctionOnSet(g, (c + 1)..d)
  BY <1>1, RecordsHaveAmounts, MovedTotalSlice
<1> HIDE DEF n
<1>5. /\ IsFiniteSet((c + 1)..d) /\ IsFiniteSet((d + 1)..n)
      /\ ((c + 1)..d) \cap ((d + 1)..n) = {}
  BY <1>1, FS_Interval
<1>6. ((c + 1)..d) \cup ((d + 1)..n) = (c + 1)..n
  BY <1>1 DEF n
<1>7. \A i \in ((c + 1)..d) \cup ((d + 1)..n) : g[i] \in Int
  BY <1>2, <1>6
<1>8. SumFunctionOnSet(g, ((c + 1)..d) \cup ((d + 1)..n))
        = SumFunctionOnSet(g, (c + 1)..d) + SumFunctionOnSet(g, (d + 1)..n)
  BY <1>5, <1>7, SumUnion
<1> QED BY <1>2, <1>3, <1>4, <1>6, <1>8

------------------------------------------------------------------------------
(* The ledger and the failed payouts *)

\* The accounts of a ledger that are not gone hold naturals, finitely many.
LEMMA RemainingIsSum ==
    ASSUME NEW ledger, IsLedger(ledger), NEW gone, NEW x \in Assets,
           NEW g, \A a \in DOMAIN ledger : g[a] = ledger[a][x]
    PROVE  /\ Remaining(ledger, gone, x) = SumFunctionOnSet(g, DOMAIN ledger \ gone)
           /\ \A a \in DOMAIN ledger : g[a] \in Nat
           /\ IsFiniteSet(DOMAIN ledger \ gone)
<1> DEFINE A == DOMAIN ledger \ gone
           f == [a \in A |-> ledger[a][x]]
<1>1. Remaining(ledger, gone, x) = SumFunctionOnSet(f, A)
  <2>1. DOMAIN f = A
    OBVIOUS
  <2> QED BY <2>1 DEF Remaining, SumFunction
<1>2. IsFiniteSet(A)
  <2>1. A \in SUBSET Accounts /\ IsFiniteSet(Accounts)
    BY AddressAssumption DEF IsLedger
  <2> QED BY <2>1, FS_Subset
<1>3. \A a \in DOMAIN ledger : ledger[a][x] \in Nat
  BY DEF IsLedger, Balances
<1>4. \A a \in A : f[a] \in Int /\ f[a] = g[a]
  BY <1>3
<1> HIDE DEF f, A
<1>5. SumFunctionOnSet(f, A) = SumFunctionOnSet(g, A)
  BY <1>2, <1>4, SumEqual
<1> QED BY <1>1, <1>2, <1>3, <1>5 DEF A

\* What remains is a natural number.
LEMMA RemainingType ==
    ASSUME NEW ledger, IsLedger(ledger), NEW gone, NEW x \in Assets
    PROVE  Remaining(ledger, gone, x) \in Nat
<1> DEFINE g == [a \in DOMAIN ledger |-> ledger[a][x]]
<1>1. \A a \in DOMAIN ledger : g[a] = ledger[a][x]
  OBVIOUS
<1> HIDE DEF g
<1>2. /\ Remaining(ledger, gone, x) = SumFunctionOnSet(g, DOMAIN ledger \ gone)
      /\ \A a \in DOMAIN ledger \ gone : g[a] \in Nat
      /\ IsFiniteSet(DOMAIN ledger \ gone)
  BY <1>1, RemainingIsSum
<1> QED BY <1>2, SumNat

\* Until somebody escapes the whole ledger remains.
LEMMA RemainingAll ==
    ASSUME NEW ledger, NEW x
    PROVE  Remaining(ledger, {}, x) = TotalOf(ledger, x)
<1>1. DOMAIN ledger \ {} = DOMAIN ledger
  OBVIOUS
<1> QED BY <1>1 DEF Remaining, TotalOf

\* An escape takes one account's balance out of what remains.
LEMMA RemainingEscape ==
    ASSUME NEW ledger, IsLedger(ledger), NEW gone, NEW a \in DOMAIN ledger, a \notin gone,
           NEW x \in Assets
    PROVE  Remaining(ledger, gone, x) = ledger[a][x] + Remaining(ledger, gone \cup {a}, x)
<1> DEFINE g == [b \in DOMAIN ledger |-> ledger[b][x]]
           A == DOMAIN ledger \ gone
<1>1. \A b \in DOMAIN ledger : g[b] = ledger[b][x]
  OBVIOUS
<1> HIDE DEF g
<1>2. /\ Remaining(ledger, gone, x) = SumFunctionOnSet(g, A)
      /\ \A b \in DOMAIN ledger : g[b] \in Nat
      /\ IsFiniteSet(A)
  BY <1>1, RemainingIsSum
<1>3. Remaining(ledger, gone \cup {a}, x) = SumFunctionOnSet(g, DOMAIN ledger \ (gone \cup {a}))
  BY <1>1, RemainingIsSum
<1>4. DOMAIN ledger \ (gone \cup {a}) = A \ {a} /\ a \in A /\ \A b \in A : g[b] \in Int
  BY <1>2
<1> HIDE DEF A
<1>5. SumFunctionOnSet(g, A) = g[a] + SumFunctionOnSet(g, A \ {a})
  BY <1>2, <1>4, SumRemove
<1> QED BY <1>1, <1>2, <1>3, <1>4, <1>5

\* The failed payouts of one asset are naturals, one for each account.
LEMMA PendingIsSum ==
    ASSUME NEW pending \in [Accounts \X Assets -> Nat], NEW x \in Assets
    PROVE  LET f == [a \in Accounts |-> pending[<<a, x>>]]
           IN  /\ Pending(pending, x) = SumFunctionOnSet(f, Accounts)
               /\ \A a \in Accounts : f[a] = pending[<<a, x>>] /\ f[a] \in Nat
<1> DEFINE f == [a \in Accounts |-> pending[<<a, x>>]]
<1>1. DOMAIN f = Accounts
  OBVIOUS
<1>2. Pending(pending, x) = SumFunctionOnSet(f, Accounts)
  BY <1>1 DEF Pending, SumFunction
<1> QED BY <1>2

\* What failed payouts left is a natural number.
LEMMA PendingType ==
    ASSUME NEW pending \in [Accounts \X Assets -> Nat], NEW x \in Assets
    PROVE  Pending(pending, x) \in Nat
<1> DEFINE f == [a \in Accounts |-> pending[<<a, x>>]]
<1>1. Pending(pending, x) = SumFunctionOnSet(f, Accounts) /\ \A a \in Accounts : f[a] \in Nat
  BY PendingIsSum
<1> HIDE DEF f
<1> QED BY <1>1, SumNat, AddressAssumption

\* The entry of account a and asset y is set to n, the others keep their values.
EntrySet(pending, after, a, y, n) ==
    pending \in [Accounts \X Assets -> Nat] /\ after = [pending EXCEPT ![<<a, y>>] = n]

\* A failed payout and its claim change one account's entry for one asset.
LEMMA PendingChange ==
    ASSUME NEW pending, NEW after, NEW a \in Accounts, NEW y \in Assets, NEW n \in Nat,
           EntrySet(pending, after, a, y, n)
    PROVE  /\ Pending(after, y) = Pending(pending, y) - pending[<<a, y>>] + n
           /\ \A x \in Assets \ {y} : Pending(after, x) = Pending(pending, x)
<1>0. pending \in [Accounts \X Assets -> Nat] /\ after = [pending EXCEPT ![<<a, y>>] = n]
  BY DEF EntrySet
<1>1. /\ after \in [Accounts \X Assets -> Nat] /\ after[<<a, y>>] = n
      /\ \A b \in Accounts, x \in Assets : b # a \/ x # y => after[<<b, x>>] = pending[<<b, x>>]
  BY <1>0
<1>2. IsFiniteSet(Accounts)
  BY AddressAssumption
<1>3. Pending(after, y) = Pending(pending, y) - pending[<<a, y>>] + n
  <2> DEFINE f == [b \in Accounts |-> pending[<<b, y>>]]
             g == [b \in Accounts |-> after[<<b, y>>]]
  <2>1. /\ Pending(pending, y) = SumFunctionOnSet(f, Accounts)
        /\ \A b \in Accounts : f[b] = pending[<<b, y>>] /\ f[b] \in Nat
    BY <1>0, PendingIsSum
  <2>2. /\ Pending(after, y) = SumFunctionOnSet(g, Accounts)
        /\ \A b \in Accounts : g[b] = after[<<b, y>>] /\ g[b] \in Nat
    BY <1>1, PendingIsSum
  <2> HIDE DEF f, g
  <2>3. ASSUME NEW b \in Accounts
        PROVE  f[b] \in Int /\ g[b] \in Int /\ (b # a => g[b] = f[b])
    <3>1. f[b] = pending[<<b, y>>] /\ f[b] \in Nat /\ g[b] = after[<<b, y>>] /\ g[b] \in Nat
      BY <2>1, <2>2
    <3>2. b # a => after[<<b, y>>] = pending[<<b, y>>]
      BY <1>1
    <3> QED BY <3>1, <3>2
  <2>4. SumFunctionOnSet(g, Accounts) = SumFunctionOnSet(f, Accounts) - f[a] + g[a]
    BY <1>2, <2>3, SumChange
  <2> QED BY <1>1, <2>1, <2>2, <2>4
<1>4. ASSUME NEW x \in Assets \ {y} PROVE Pending(after, x) = Pending(pending, x)
  <2> DEFINE f == [b \in Accounts |-> pending[<<b, x>>]]
             g == [b \in Accounts |-> after[<<b, x>>]]
  <2>1. f = g
    BY <1>1
  <2>2. Pending(pending, x) = SumFunction(f) /\ Pending(after, x) = SumFunction(g)
    BY DEF Pending
  <2> QED BY <2>1, <2>2
<1> QED BY <1>3, <1>4

------------------------------------------------------------------------------
(* Solvency *)

\* A batch the guest proves conserves value: what the contract relies on, and
\* all it knows of a batch.
ProofsConserve ==
    \A out \in proofs :
        Conserves(out.oldStateRoot, out.consumedDeposits, out.forcedWithdrawals,
                  out.withdrawals, out.newStateRoot)

\* While batches settle nobody has escaped, so that a batch that rewrites the
\* ledger never brings back a balance that was paid out.
EscapedInEscapeMode == escaped # {} => escapeMode

\* Backed is not inductive alone: settle needs the other two.
SolventInv == Backed /\ ProofsConserve /\ EscapedInEscapeMode

\* The four parts of what the contract owes are natural numbers.
LEMMA OwedParts ==
    ASSUME TypeOK, NEW x \in Assets
    PROVE  /\ Waiting(deposits, nextUnprocessedDeposit, x) \in Nat
           /\ Remaining(stateRoot, escaped, x) \in Nat
           /\ Pending(pendingWithdrawals, x) \in Nat
           /\ MovedTotal(call.owed, x) \in Nat
           /\ vault[x] \in Nat
<1>1. call.owed \in Seq(Payout)
  BY OwedType DEF TypeOK
<1>2. MovedTotal(call.owed, x) \in Nat
  BY <1>1, RecordsHaveAmounts, MovedTotalType
<1> QED BY <1>2, WaitingType, RemainingType, PendingType DEF TypeOK

\* A step that moves nothing keeps the contract solvent.
LEMMA NothingMoves ==
    ASSUME Backed, call'.owed = call.owed,
           UNCHANGED <<vault, deposits, nextUnprocessedDeposit, stateRoot, escaped,
                       pendingWithdrawals>>
    PROVE  Backed'
BY DEF Backed, OwedTo

\* A function called by the recipient of a payout leaves what is owed as it is.
LEMMA ReenterableOwes ==
    ASSUME call \in Call, Reenterable
    PROVE  call'.owed = call.owed
<1>1. CASE call' = call
  BY <1>1
<1>2. CASE call.owed # <<>> /\ call' = [call EXCEPT !.entered = TRUE]
  <2>1. call # NoCall
    BY <1>2, OwedType
  <2> QED BY <1>2, <2>1 DEF Call
<1> QED BY <1>1, <1>2 DEF Reenterable

\* deposit: what arrives is what is queued.
LEMMA DepositBacked ==
    ASSUME TypeOK, QueueInv, Backed, NEW a \in Accounts, NEW y \in Assets,
           NEW n \in DepositAmounts, NEW r \in 1..n, Deposit(a, y, n, r)
    PROVE  Backed'
<1> DEFINE e == [account |-> a, asset |-> y, amount |-> n]
<1>1. e \in Entry /\ n \in Nat
  BY AmountAssumption DEF Entry
<1>2. deposits' = Append(deposits, e) /\ vault' = [vault EXCEPT ![y] = @ + n]
      /\ UNCHANGED <<nextUnprocessedDeposit, stateRoot, escaped, pendingWithdrawals, call>>
  BY DEF Deposit, cursors
<1> SUFFICES ASSUME NEW x \in Assets PROVE vault'[x] = OwedTo(x)'
  BY DEF Backed
<1>3. AmountIn(e, x) = IF y = x THEN n ELSE 0
  BY DEF AmountIn
<1> HIDE DEF e
<1>4. deposits \in Seq(Entry) /\ nextUnprocessedDeposit \in 0..Len(deposits)
  BY DEF TypeOK, QueueInv
<1>5. Waiting(deposits', nextUnprocessedDeposit, x)
        = Waiting(deposits, nextUnprocessedDeposit, x) + AmountIn(e, x)
  BY <1>1, <1>2, <1>4, WaitingAppend
<1>6. vault[x] = OwedTo(x)
  BY DEF Backed
<1>7. vault'[x] = vault[x] + AmountIn(e, x)
  <2>1. vault \in [Assets -> Nat]
    BY DEF TypeOK
  <2>2. vault'[x] = IF y = x THEN vault[y] + n ELSE vault[x]
    BY <1>2, <2>1
  <2>3. vault[x] \in Nat
    BY <2>1
  <2> QED BY <1>3, <2>2, <2>3
<1>8. AmountIn(e, x) \in Nat
  BY <1>1, <1>3
<1>9. OwedTo(x)' = Waiting(deposits', nextUnprocessedDeposit, x) + Remaining(stateRoot, escaped, x)
                   + Pending(pendingWithdrawals, x) + MovedTotal(call.owed, x)
  BY <1>2 DEF OwedTo
<1> QED BY <1>5, <1>6, <1>7, <1>8, <1>9, OwedParts DEF OwedTo

\* A transaction that starts finds none running: the contract owes no payout.
LEMMA IdleOwesNothing ==
    ASSUME Idle, NEW x
    PROVE  MovedTotal(call.owed, x) = 0
<1>1. call.owed = <<>>
  BY DEF Idle, NoCall
<1> QED BY <1>1, MovedTotalEmpty

\* escapeWithdraw: the balance leaves the ledger and becomes the payouts.
LEMMA EscapeBacked ==
    ASSUME TypeOK, Backed, NEW a \in Accounts, NEW leaf, EscapeWithdraw(a, leaf)
    PROVE  Backed'
<1>1. /\ a \in DOMAIN stateRoot /\ leaf.balances = stateRoot[a] /\ a \notin escaped /\ Idle
      /\ escaped' = escaped \cup {a} /\ call'.owed = LeafPayouts(a, leaf.balances)
      /\ UNCHANGED <<vault, deposits, nextUnprocessedDeposit, stateRoot, pendingWithdrawals>>
  BY DEF EscapeWithdraw, Leaf, cursors
<1>2. IsLedger(stateRoot) /\ stateRoot[a] \in Balances
  BY <1>1 DEF TypeOK, IsLedger
<1> SUFFICES ASSUME NEW x \in Assets PROVE vault'[x] = OwedTo(x)'
  BY DEF Backed
<1>3. MovedTotal(call'.owed, x) = stateRoot[a][x]
  BY <1>1, <1>2, LeafPayoutsMove
<1>4. Remaining(stateRoot, escaped, x) = stateRoot[a][x] + Remaining(stateRoot, escaped', x)
  <2>1. a \in DOMAIN stateRoot /\ a \notin escaped /\ escaped' = escaped \cup {a}
    BY <1>1
  <2>2. Remaining(stateRoot, escaped, x)
          = stateRoot[a][x] + Remaining(stateRoot, escaped \cup {a}, x)
    BY <1>2, <2>1, RemainingEscape
  <2> QED BY <2>1, <2>2
<1>5. MovedTotal(call.owed, x) = 0
  BY <1>1, IdleOwesNothing
<1>6. vault[x] = OwedTo(x)
  BY DEF Backed
<1>7. OwedTo(x)' = Waiting(deposits, nextUnprocessedDeposit, x) + Remaining(stateRoot, escaped', x)
                   + Pending(pendingWithdrawals, x) + MovedTotal(call'.owed, x)
  BY <1>1 DEF OwedTo
<1>8. stateRoot[a][x] \in Nat /\ Remaining(stateRoot, escaped', x) \in Nat
  BY <1>2, RemainingType DEF Balances
<1> QED BY <1>1, <1>3, <1>4, <1>5, <1>6, <1>7, <1>8, OwedParts DEF OwedTo

\* withdrawPending: the entry that is cleared becomes the payout.
LEMMA ClaimBacked ==
    ASSUME TypeOK, Backed, NEW a \in Accounts, NEW y \in Assets, WithdrawPending(a, y)
    PROVE  Backed'
<1> DEFINE n == pendingWithdrawals[<<a, y>>]
           p == [to |-> a, asset |-> y, amount |-> n]
<1>1. /\ Idle /\ pendingWithdrawals' = [pendingWithdrawals EXCEPT ![<<a, y>>] = 0]
      /\ call'.owed = <<p>>
      /\ UNCHANGED <<vault, deposits, nextUnprocessedDeposit, stateRoot, escaped>>
  BY DEF WithdrawPending, cursors
<1>2. pendingWithdrawals \in [Accounts \X Assets -> Nat] /\ n \in Nat /\ p \in Payout
  BY DEF TypeOK, Payout
<1> SUFFICES ASSUME NEW x \in Assets PROVE vault'[x] = OwedTo(x)'
  BY DEF Backed
<1>3. AmountIn(p, x) = IF y = x THEN n ELSE 0
  BY DEF AmountIn
<1>4. Pending(pendingWithdrawals', x)
        = IF x = y THEN Pending(pendingWithdrawals, x) - n ELSE Pending(pendingWithdrawals, x)
  <2> DEFINE z == 0
  <2>1. z \in Nat /\ EntrySet(pendingWithdrawals, pendingWithdrawals', a, y, z)
    BY <1>1, <1>2 DEF EntrySet
  <2> HIDE DEF z
  <2>2. /\ Pending(pendingWithdrawals', y)
             = Pending(pendingWithdrawals, y) - pendingWithdrawals[<<a, y>>] + z
        /\ \A w \in Assets \ {y} : Pending(pendingWithdrawals', w) = Pending(pendingWithdrawals, w)
    BY <2>1, PendingChange
  <2>3. Pending(pendingWithdrawals, y) \in Nat /\ n \in Nat
    BY <1>2, OwedParts
  <2> QED BY <2>2, <2>3 DEF z
<1> HIDE DEF p
<1>5. MovedTotal(call'.owed, x) = AmountIn(p, x)
  BY <1>1, <1>2, RecordsHaveAmounts, MovedTotalOne
<1> HIDE DEF n
<1>6. MovedTotal(call.owed, x) = 0
  BY <1>1, IdleOwesNothing
<1>7. vault[x] = OwedTo(x)
  BY DEF Backed
<1>8. OwedTo(x)' = Waiting(deposits, nextUnprocessedDeposit, x) + Remaining(stateRoot, escaped, x)
                   + Pending(pendingWithdrawals', x) + MovedTotal(call'.owed, x)
  BY <1>1 DEF OwedTo
<1> QED BY <1>1, <1>2, <1>3, <1>4, <1>5, <1>6, <1>7, <1>8, OwedParts DEF OwedTo

\* settle: by the conservation the proof attests, what the new ledger and the
\* payouts hold is what the old ledger and the consumed deposits held.
LEMMA SettleBacked ==
    ASSUME TypeOK, QueueInv, SolventInv, NEW out \in proofs, NEW wds, NEW forced,
           Settle(out, wds, forced)
    PROVE  Backed'
<1> DEFINE c == nextUnprocessedDeposit
           d == nextUnprocessedDeposit'
<1>1. IsOutput(out)
  BY DEF TypeOK
<1>2. /\ Idle /\ ~escapeMode /\ wds = out.withdrawals /\ forced = out.forcedWithdrawals
      /\ out.oldStateRoot = stateRoot /\ stateRoot' = out.newStateRoot
      /\ c \in Nat /\ d \in Nat /\ c =< d /\ d =< Len(deposits)
      /\ out.consumedDeposits = SubSeq(deposits, c + 1, d)
      /\ UNCHANGED <<vault, deposits, escaped, pendingWithdrawals>>
  BY <1>1 DEF Settle, ValidOutput, ValidConsumedInputs, ValidWithdrawals, ApplySettlement,
              TypeOK, IsOutput, nextDepositId, claims
<1>3. wds \in Seq(Withdrawal) /\ forced \in Seq(Entry) /\ deposits \in Seq(Entry)
      /\ IsLedger(stateRoot')
  BY <1>1, <1>2 DEF IsOutput, TypeOK
<1>4. call'.owed = BatchPayouts(wds, forced)
  BY DEF Settle, ApplySettlement, NoCall
<1>5. escaped = {}
  BY <1>2 DEF SolventInv, EscapedInEscapeMode
<1> SUFFICES ASSUME NEW x \in Assets PROVE vault'[x] = OwedTo(x)'
  BY DEF Backed
<1> HIDE DEF c, d
<1>6. Waiting(deposits, c, x) = MovedTotal(out.consumedDeposits, x) + Waiting(deposits, d, x)
  BY <1>2, <1>3, WaitingSettle
<1>7. MovedTotal(call'.owed, x) = MovedTotal(wds, x) + MovedTotal(forced, x)
  BY <1>3, <1>4, BatchPayoutsMove
<1>8. Remaining(stateRoot, escaped, x) = TotalOf(stateRoot, x)
      /\ Remaining(stateRoot', escaped, x) = TotalOf(stateRoot', x)
  BY <1>5, RemainingAll
<1>9. TotalOf(stateRoot', x) + MovedTotal(forced, x) + MovedTotal(wds, x)
        = TotalOf(stateRoot, x) + MovedTotal(out.consumedDeposits, x)
  BY <1>2 DEF SolventInv, ProofsConserve, Conserves
<1>10. /\ MovedTotal(wds, x) \in Nat /\ MovedTotal(forced, x) \in Nat
       /\ Remaining(stateRoot', escaped, x) \in Nat /\ Waiting(deposits, d, x) \in Nat
       /\ MovedTotal(out.consumedDeposits, x) \in Nat
  BY <1>1, <1>2, <1>3, RecordsHaveAmounts, MovedTotalType, RemainingType, WaitingType DEF IsOutput
<1>11. MovedTotal(call.owed, x) = 0
  BY <1>2, IdleOwesNothing
<1>12. vault[x] = Waiting(deposits, c, x) + Remaining(stateRoot, escaped, x)
                  + Pending(pendingWithdrawals, x) + MovedTotal(call.owed, x)
  BY DEF SolventInv, Backed, OwedTo, c
<1>13. OwedTo(x)' = Waiting(deposits, d, x) + Remaining(stateRoot', escaped, x)
                    + Pending(pendingWithdrawals, x) + MovedTotal(call'.owed, x)
  BY <1>2 DEF OwedTo, d
<1>14. /\ Pending(pendingWithdrawals, x) \in Nat /\ TotalOf(stateRoot, x) \in Nat
       /\ TotalOf(stateRoot', x) \in Nat
  BY <1>8, <1>10, OwedParts
<1>15. vault[x] = MovedTotal(out.consumedDeposits, x) + Waiting(deposits, d, x)
                  + TotalOf(stateRoot, x) + Pending(pendingWithdrawals, x)
  BY <1>6, <1>8, <1>10, <1>11, <1>12, <1>14
<1>16. OwedTo(x)' = Waiting(deposits, d, x) + TotalOf(stateRoot', x)
                    + Pending(pendingWithdrawals, x)
                    + (MovedTotal(wds, x) + MovedTotal(forced, x))
  BY <1>7, <1>8, <1>13
<1>17. OwedTo(x)' = vault[x]
  BY <1>9, <1>10, <1>14, <1>15, <1>16
<1> QED BY <1>2, <1>17

\* The payout at the head of the list is the only one a payout step settles.
LEMMA AfterHeadMoves ==
    ASSUME TypeOK, call.owed # <<>>, NEW x
    PROVE  /\ Head(call.owed) \in Payout
           /\ MovedTotal(call.owed, x) = AmountIn(Head(call.owed), x) + MovedTotal(AfterHead.owed, x)
           /\ MovedTotal(AfterHead.owed, x) \in Nat
<1>1. call.owed \in Seq(Payout) /\ call # NoCall
  BY OwedType DEF TypeOK
<1>2. Head(call.owed) \in Payout /\ Tail(call.owed) \in Seq(Payout)
      /\ Len(Tail(call.owed)) = Len(call.owed) - 1
  BY <1>1, HeadTailProperties
<1>3. AfterHead.owed = Tail(call.owed)
  <2>1. CASE Len(call.owed) = 1
    <3>1. Tail(call.owed) = <<>>
      <4> DEFINE rest == Tail(call.owed)
      <4>1. rest \in Seq(Payout) /\ Len(rest) = 0
        BY <1>1, <1>2, <2>1
      <4> HIDE DEF rest
      <4>2. rest = <<>>
        BY <4>1
      <4> QED BY <4>2 DEF rest
    <3> QED BY <2>1, <3>1 DEF AfterHead, NoCall
  <2>2. CASE Len(call.owed) # 1
    BY <1>1, <2>2 DEF AfterHead, TypeOK, Call
  <2> QED BY <2>1, <2>2
<1>4. MovedTotal(call.owed, x) = AmountIn(Head(call.owed), x) + MovedTotal(Tail(call.owed), x)
  BY <1>1, RecordsHaveAmounts, MovedTotalTail
<1>5. MovedTotal(Tail(call.owed), x) \in Nat
  BY <1>2, RecordsHaveAmounts, MovedTotalType
<1> QED BY <1>2, <1>3, <1>4, <1>5

\* A transfer of nothing is skipped and settles nothing.
LEMMA SkipBacked ==
    ASSUME TypeOK, Backed, PaySkip
    PROVE  Backed'
<1>1. /\ call.owed # <<>> /\ Head(call.owed).amount = 0 /\ call' = AfterHead
      /\ UNCHANGED <<vault, deposits, nextUnprocessedDeposit, stateRoot, escaped,
                     pendingWithdrawals>>
  BY DEF PaySkip, cursors, claims
<1> SUFFICES ASSUME NEW x \in Assets PROVE vault'[x] = OwedTo(x)'
  BY DEF Backed
<1>2. MovedTotal(call.owed, x) = AmountIn(Head(call.owed), x) + MovedTotal(AfterHead.owed, x)
      /\ MovedTotal(AfterHead.owed, x) \in Nat
  BY <1>1, AfterHeadMoves
<1>3. AmountIn(Head(call.owed), x) = 0
  BY <1>1 DEF AmountIn
<1>4. MovedTotal(call'.owed, x) = MovedTotal(call.owed, x)
  BY <1>1, <1>2, <1>3
<1> QED BY <1>1, <1>4 DEF Backed, OwedTo

\* A payout that succeeds leaves the vault and what is owed by the same amount.
LEMMA SucceedBacked ==
    ASSUME TypeOK, Backed, PaySucceed
    PROVE  Backed'
<1> DEFINE p == Head(call.owed)
<1>1. /\ call.owed # <<>> /\ p.amount =< vault[p.asset] /\ call' = AfterHead
      /\ vault' = [vault EXCEPT ![p.asset] = @ - p.amount]
      /\ UNCHANGED <<deposits, nextUnprocessedDeposit, stateRoot, escaped, pendingWithdrawals>>
  BY DEF PaySucceed, cursors
<1> SUFFICES ASSUME NEW x \in Assets PROVE vault'[x] = OwedTo(x)'
  BY DEF Backed
<1>2. /\ p \in Payout
      /\ MovedTotal(call.owed, x) = AmountIn(p, x) + MovedTotal(AfterHead.owed, x)
      /\ MovedTotal(AfterHead.owed, x) \in Nat
  BY <1>1, AfterHeadMoves
<1> HIDE DEF p
<1>3. AmountIn(p, x) = (IF p.asset = x THEN p.amount ELSE 0) /\ p.amount \in Nat /\ p.asset \in Assets
  BY <1>2 DEF AmountIn, Payout
<1>4. vault'[x] = vault[x] - AmountIn(p, x)
  BY <1>1, <1>3, OwedParts DEF TypeOK
<1>5. vault[x] = OwedTo(x)
  BY DEF Backed
<1>6. OwedTo(x)' = Waiting(deposits, nextUnprocessedDeposit, x) + Remaining(stateRoot, escaped, x)
                   + Pending(pendingWithdrawals, x) + MovedTotal(AfterHead.owed, x)
  BY <1>1 DEF OwedTo
<1> QED BY <1>2, <1>3, <1>4, <1>5, <1>6, OwedParts DEF OwedTo

\* A payout that fails moves from the transaction to the recipient's entry.
LEMMA FailBacked ==
    ASSUME TypeOK, Backed, PayFail
    PROVE  Backed'
<1> DEFINE p == Head(call.owed)
           before == pendingWithdrawals
           after == pendingWithdrawals'
<1>1. /\ call.owed # <<>> /\ call' = AfterHead
      /\ after = [before EXCEPT ![<<p.to, p.asset>>] = @ + p.amount]
      /\ UNCHANGED <<vault, deposits, nextUnprocessedDeposit, stateRoot, escaped>>
  BY DEF PayFail, cursors
<1> SUFFICES ASSUME NEW x \in Assets PROVE vault'[x] = OwedTo(x)'
  BY DEF Backed
<1>2. /\ p \in Payout
      /\ MovedTotal(call.owed, x) = AmountIn(p, x) + MovedTotal(AfterHead.owed, x)
      /\ MovedTotal(AfterHead.owed, x) \in Nat
  BY <1>1, AfterHeadMoves
<1>3. before \in [Accounts \X Assets -> Nat]
  BY DEF TypeOK
<1>7. vault[x] = Waiting(deposits, nextUnprocessedDeposit, x) + Remaining(stateRoot, escaped, x)
                 + Pending(before, x) + MovedTotal(call.owed, x)
  BY DEF Backed, OwedTo
<1>8. OwedTo(x)' = Waiting(deposits, nextUnprocessedDeposit, x) + Remaining(stateRoot, escaped, x)
                   + Pending(after, x) + MovedTotal(AfterHead.owed, x)
  BY <1>1 DEF OwedTo
<1>9. Pending(before, x) \in Nat
  BY <1>3, PendingType
<1>10. vault' = vault
  BY <1>1
<1> HIDE DEF p, before, after
<1> DEFINE a == p.to
           y == p.asset
<1>4. AmountIn(p, x) = (IF y = x THEN p.amount ELSE 0) /\ p.amount \in Nat /\ y \in Assets
      /\ a \in Accounts
  BY <1>2 DEF AmountIn, Payout
<1> DEFINE n == before[<<a, y>>] + p.amount
<1>5. before[<<a, y>>] \in Nat /\ n \in Nat /\ EntrySet(before, after, a, y, n)
  BY <1>1, <1>3, <1>4 DEF EntrySet
<1> HIDE DEF a, y, n
<1>6. /\ Pending(after, y) = Pending(before, y) - before[<<a, y>>] + n
      /\ \A w \in Assets \ {y} : Pending(after, w) = Pending(before, w)
  BY <1>4, <1>5, PendingChange
<1>11. Pending(after, x) = Pending(before, x) + AmountIn(p, x)
  BY <1>4, <1>5, <1>6, <1>9 DEF n
<1>12. AmountIn(p, x) \in Nat
  BY <1>4
<1> QED BY <1>2, <1>7, <1>8, <1>9, <1>10, <1>11, <1>12, OwedParts

\* Only a run of the guest adds a proof, and it admits no batch that does not
\* conserve value.
LEMMA ProveConserves ==
    ASSUME ProofsConserve, ProveAny
    PROVE  ProofsConserve'
<1>1. PICK base \in Bases, dom \in Domains, wds \in Seq(Withdrawal), deps \in Seq(Entry),
           requests \in Seq(Entry), drained \in Seq(Entry) :
         \E new : ProveFrom(base, dom, wds, deps, requests, drained, new)
  BY DEF ProveAny
<1>2. PICK new : ProveFrom(base, dom, wds, deps, requests, drained, new)
  BY <1>1
<1> DEFINE made == BatchOutput(base, dom, deps, requests, drained, wds, new)
<1>3. proofs' = proofs \cup {made} /\ Conserves(base.root, deps, drained, wds, new)
  BY <1>2 DEF ProveFrom, Admits
<1>4. /\ made.oldStateRoot = base.root /\ made.consumedDeposits = deps
      /\ made.forcedWithdrawals = drained /\ made.withdrawals = wds /\ made.newStateRoot = new
  BY DEF BatchOutput
<1> HIDE DEF made
<1> SUFFICES ASSUME NEW out \in proofs'
             PROVE  Conserves(out.oldStateRoot, out.consumedDeposits, out.forcedWithdrawals,
                              out.withdrawals, out.newStateRoot)
  BY DEF ProofsConserve
<1>5. CASE out \in proofs
  BY <1>5 DEF ProofsConserve
<1>6. CASE out = made
  BY <1>3, <1>4, <1>6
<1> QED BY <1>3, <1>5, <1>6

\* The constructor owes nothing and holds nothing.
LEMMA InitSolvent == Init => SolventInv
<1> SUFFICES ASSUME Init PROVE SolventInv
  OBVIOUS
<1>1. ProofsConserve /\ EscapedInEscapeMode
  BY DEF Init, ProofsConserve, EscapedInEscapeMode
<1>2. TypeOK
  BY InitType
<1> SUFFICES ASSUME NEW x \in Assets PROVE vault[x] = OwedTo(x)
  BY <1>1 DEF SolventInv, Backed
<1>3. vault[x] = 0 /\ deposits = <<>> /\ escaped = {} /\ call = NoCall
  BY DEF Init
<1>4. Waiting(deposits, nextUnprocessedDeposit, x) = 0
  <2> DEFINE z == nextUnprocessedDeposit
             g == [i \in {} |-> AmountIn(deposits[i], x)]
  <2>1. z \in Nat /\ deposits \in Seq(Entry) /\ (z + 1)..Len(deposits) = {}
    BY <1>3 DEF Init
  <2>2. \A i \in (z + 1)..Len(deposits) : g[i] = AmountIn(deposits[i], x)
    BY <2>1
  <2> HIDE DEF z, g
  <2>3. Waiting(deposits, z, x) = SumFunctionOnSet(g, (z + 1)..Len(deposits))
    BY <2>1, <2>2, WaitingIsSum
  <2>4. Waiting(deposits, z, x) = 0
    BY <2>1, <2>3, SumEmpty
  <2> QED BY <2>4 DEF z
<1>5. Remaining(stateRoot, escaped, x) = 0
  <2> DEFINE g == [a \in DOMAIN stateRoot |-> stateRoot[a][x]]
  <2>1. \A a \in DOMAIN stateRoot : g[a] = stateRoot[a][x] /\ stateRoot[a][x] = 0
    BY DEF Init
  <2> HIDE DEF g
  <2>2. Remaining(stateRoot, escaped, x) = SumFunctionOnSet(g, DOMAIN stateRoot \ escaped)
        /\ IsFiniteSet(DOMAIN stateRoot \ escaped)
    BY <1>2, <2>1, RemainingIsSum DEF TypeOK
  <2>3. \A a \in DOMAIN stateRoot \ escaped : g[a] = 0
    BY <2>1
  <2> QED BY <2>2, <2>3, SumZero
<1>6. Pending(pendingWithdrawals, x) = 0
  <2> DEFINE f == [a \in Accounts |-> pendingWithdrawals[<<a, x>>]]
  <2>1. Pending(pendingWithdrawals, x) = SumFunctionOnSet(f, Accounts)
    BY <1>2, PendingIsSum DEF TypeOK
  <2>2. \A a \in Accounts : f[a] = 0
    BY DEF Init
  <2> HIDE DEF f
  <2> QED BY <2>1, <2>2, SumZero, AddressAssumption
<1>7. MovedTotal(call.owed, x) = 0
  BY <1>3, IdleOwesNothing DEF Idle
<1> QED BY <1>3, <1>4, <1>5, <1>6, <1>7 DEF OwedTo

\* Every step of the contract and of the world around it keeps the contract
\* solvent.
LEMMA SolventInductive ==
    TypeOK /\ QueueInv /\ SolventInv /\ [AnyNext]_vars => SolventInv'
<1> SUFFICES ASSUME TypeOK, QueueInv, SolventInv, [AnyNext]_vars PROVE SolventInv'
  OBVIOUS
<1>1. Backed /\ ProofsConserve /\ EscapedInEscapeMode
  BY DEF SolventInv
<1>2. ASSUME UNCHANGED <<escaped, escapeMode>> PROVE EscapedInEscapeMode'
  BY <1>1, <1>2 DEF EscapedInEscapeMode
<1>3. ASSUME UNCHANGED proofs PROVE ProofsConserve'
  BY <1>1, <1>3 DEF ProofsConserve
<1>4. ASSUME NEW a \in Accounts, NEW x \in Assets, NEW n \in DepositAmounts, NEW r \in 1..n,
             Deposit(a, x, n, r)
      PROVE  SolventInv'
  <2>1. Backed'
    BY <1>1, <1>4, DepositBacked
  <2>2. UNCHANGED <<escaped, escapeMode, proofs>>
    BY <1>4 DEF Deposit
  <2> QED BY <1>2, <1>3, <2>1, <2>2 DEF SolventInv
<1>5. ASSUME NEW a \in Accounts, NEW x \in Assets, NEW n \in RequestAmounts,
             RequestForcedWithdrawal(a, x, n)
      PROVE  SolventInv'
  <2>1. call'.owed = call.owed
    BY <1>5, ReenterableOwes DEF RequestForcedWithdrawal, TypeOK
  <2>2. UNCHANGED <<vault, deposits, nextUnprocessedDeposit, stateRoot, escaped,
                    pendingWithdrawals, escapeMode, proofs>>
    BY <1>5 DEF RequestForcedWithdrawal, cursors, claims
  <2> QED BY <1>1, <1>2, <1>3, <2>1, <2>2, NothingMoves DEF SolventInv
<1>6. CASE ActivateEscapeMode
  <2>1. call'.owed = call.owed
    BY <1>6, ReenterableOwes DEF ActivateEscapeMode, TypeOK
  <2>2. UNCHANGED <<vault, deposits, nextUnprocessedDeposit, stateRoot, escaped,
                    pendingWithdrawals, proofs>>
    BY <1>6 DEF ActivateEscapeMode, cursors, claims
  <2>3. EscapedInEscapeMode'
    BY <1>6 DEF ActivateEscapeMode, EscapedInEscapeMode
  <2> QED BY <1>1, <1>3, <2>1, <2>2, <2>3, NothingMoves DEF SolventInv
<1>7. ASSUME NEW a \in Accounts, NEW leaf, EscapeWithdraw(a, leaf)
      PROVE  SolventInv'
  <2>1. Backed'
    BY <1>1, <1>7, EscapeBacked
  <2>2. UNCHANGED proofs /\ EscapedInEscapeMode'
    BY <1>7 DEF EscapeWithdraw, EscapedInEscapeMode
  <2> QED BY <1>3, <2>1, <2>2 DEF SolventInv
<1>8. ASSUME NEW a \in Accounts, NEW x \in Assets, WithdrawPending(a, x)
      PROVE  SolventInv'
  <2>1. Backed'
    BY <1>1, <1>8, ClaimBacked
  <2>2. UNCHANGED <<escaped, escapeMode, proofs>>
    BY <1>8 DEF WithdrawPending
  <2> QED BY <1>2, <1>3, <2>1, <2>2 DEF SolventInv
<1>9. ASSUME NEW out \in proofs, NEW wds, NEW forced, Settle(out, wds, forced)
      PROVE  SolventInv'
  <2>1. Backed'
    BY <1>9, SettleBacked
  <2>2. UNCHANGED <<escaped, escapeMode, proofs>>
    BY <1>9 DEF Settle, claims
  <2> QED BY <1>2, <1>3, <2>1, <2>2 DEF SolventInv
<1>10. CASE PayStep
  <2>1. Backed'
    BY <1>1, <1>10, SkipBacked, SucceedBacked, FailBacked DEF PayStep
  <2>2. UNCHANGED <<escaped, escapeMode, proofs>>
    BY <1>10 DEF PayStep, PaySkip, PaySucceed, PayFail, claims
  <2> QED BY <1>2, <1>3, <2>1, <2>2 DEF SolventInv
<1>11. CASE Tick
  <2>1. UNCHANGED <<vault, deposits, nextUnprocessedDeposit, stateRoot, escaped,
                    pendingWithdrawals, call, escapeMode, proofs>>
    BY <1>11 DEF Tick, cursors, claims
  <2> QED BY <1>1, <1>2, <1>3, <2>1, NothingMoves DEF SolventInv
<1>12. CASE ProveAny
  <2>1. ProofsConserve'
    BY <1>1, <1>12, ProveConserves
  <2>2. UNCHANGED <<vault, deposits, nextUnprocessedDeposit, stateRoot, escaped,
                    pendingWithdrawals, call, escapeMode>>
    BY <1>12 DEF ProveAny, cursors, claims
  <2> QED BY <1>1, <1>2, <2>1, <2>2, NothingMoves DEF SolventInv
<1>13. CASE UNCHANGED vars
  <2>1. UNCHANGED <<vault, deposits, nextUnprocessedDeposit, stateRoot, escaped,
                    pendingWithdrawals, call, escapeMode, proofs>>
    BY <1>13 DEF vars, cursors, claims
  <2> QED BY <1>1, <1>2, <1>3, <2>1, NothingMoves DEF SolventInv
<1>14. CASE UserStep
  BY <1>4, <1>5, <1>6, <1>7, <1>8, <1>14 DEF UserStep
<1>15. CASE SettleStep
  BY <1>9, <1>15 DEF SettleStep
<1> QED BY <1>10, <1>11, <1>12, <1>13, <1>14, <1>15 DEF AnyNext

\* With any prover: solvency.
LEMMA AnySolvent == AnySpec => []Backed
<1>1. Init => TypeOK /\ QueueInv /\ SolventInv
  BY InitType, InitQueue, InitSolvent
<1>2. TypeOK /\ QueueInv /\ SolventInv /\ [AnyNext]_vars
        => (TypeOK /\ QueueInv /\ SolventInv)'
  BY TypeInductive, QueueInductive, SolventInductive
<1>3. SolventInv => Backed
  BY DEF SolventInv
<1> QED BY <1>1, <1>2, <1>3, PTL DEF AnySpec

\* The contract holds exactly what it owes of every asset, whatever proofs,
\* payouts, failed payouts, reentrant calls and escapes happened in whatever
\* order (ZkClob.sol).
THEOREM Solvency == Spec => []Backed
BY AnySolvent, SpecIsAny, PTL

\* Every payout of the running transaction, every leaf that has not escaped and
\* every failed payout that is not claimed is at most what the contract holds.
ClaimsCovered ==
    /\ \A i \in DOMAIN call.owed : call.owed[i].amount =< vault[call.owed[i].asset]
    /\ \A a \in DOMAIN stateRoot \ escaped, x \in Assets : stateRoot[a][x] =< vault[x]
    /\ \A a \in Accounts, x \in Assets : pendingWithdrawals[<<a, x>>] =< vault[x]

\* A part of what is owed is at most the whole.
LEMMA CoveredWhenBacked ==
    ASSUME TypeOK, Backed
    PROVE  ClaimsCovered
<1>1. ASSUME NEW x \in Assets
      PROVE  /\ MovedTotal(call.owed, x) =< vault[x]
             /\ Remaining(stateRoot, escaped, x) =< vault[x]
             /\ Pending(pendingWithdrawals, x) =< vault[x]
  <2>1. vault[x] = Waiting(deposits, nextUnprocessedDeposit, x) + Remaining(stateRoot, escaped, x)
                   + Pending(pendingWithdrawals, x) + MovedTotal(call.owed, x)
    BY DEF Backed, OwedTo
  <2> QED BY <2>1, OwedParts
<1>2. ASSUME NEW i \in DOMAIN call.owed
      PROVE  call.owed[i].amount =< vault[call.owed[i].asset]
  <2> DEFINE list == call.owed
             x == list[i].asset
             f == [j \in 1..Len(list) |-> AmountIn(list[j], x)]
             I == 1..Len(list)
  <2>1. list \in Seq(Payout) /\ DOMAIN list = I
    BY OwedType DEF TypeOK
  <2>2. list[i] \in Payout /\ x \in Assets /\ list[i].amount \in Nat /\ i \in I
    <3>1. i \in I /\ list[i] \in Payout
      BY <2>1
    <3> QED BY <3>1 DEF Payout
  <2>3. /\ MovedTotal(list, x) = SumFunctionOnSet(f, I) /\ IsFiniteSet(I)
        /\ \A j \in I : f[j] = AmountIn(list[j], x) /\ f[j] \in Nat
    BY <2>1, RecordsHaveAmounts, MovedTotalIsSum
  <2>4. f[i] = list[i].amount
    BY <2>2, <2>3 DEF AmountIn
  <2> HIDE DEF list, x, f, I
  <2>5. f[i] =< SumFunctionOnSet(f, I)
    BY <2>2, <2>3, SumAtLeast
  <2>6. MovedTotal(list, x) =< vault[x] /\ vault[x] \in Nat /\ MovedTotal(list, x) \in Nat
    BY <1>1, <2>2, OwedParts DEF list
  <2>7. list[i].amount =< vault[x]
    BY <2>2, <2>3, <2>4, <2>5, <2>6
  <2> QED BY <2>7 DEF list, x
<1>3. ASSUME NEW a \in DOMAIN stateRoot \ escaped, NEW x \in Assets
      PROVE  stateRoot[a][x] =< vault[x]
  <2> DEFINE g == [b \in DOMAIN stateRoot |-> stateRoot[b][x]]
             A == DOMAIN stateRoot \ escaped
  <2>1. IsLedger(stateRoot) /\ a \in A /\ \A b \in DOMAIN stateRoot : g[b] = stateRoot[b][x]
    BY DEF TypeOK
  <2> HIDE DEF g
  <2>2. /\ Remaining(stateRoot, escaped, x) = SumFunctionOnSet(g, A) /\ IsFiniteSet(A)
        /\ \A b \in A : g[b] \in Nat
    BY <2>1, RemainingIsSum
  <2>3. g[a] = stateRoot[a][x]
    BY <2>1
  <2> HIDE DEF A
  <2>4. g[a] =< SumFunctionOnSet(g, A)
    BY <2>1, <2>2, SumAtLeast
  <2>5. SumFunctionOnSet(g, A) =< vault[x] /\ SumFunctionOnSet(g, A) \in Nat /\ g[a] \in Nat
        /\ vault[x] \in Nat
    BY <1>1, <2>1, <2>2, OwedParts
  <2> QED BY <2>3, <2>4, <2>5
<1>4. ASSUME NEW a \in Accounts, NEW x \in Assets
      PROVE  pendingWithdrawals[<<a, x>>] =< vault[x]
  <2> DEFINE f == [b \in Accounts |-> pendingWithdrawals[<<b, x>>]]
  <2>1. /\ Pending(pendingWithdrawals, x) = SumFunctionOnSet(f, Accounts)
        /\ \A b \in Accounts : f[b] = pendingWithdrawals[<<b, x>>] /\ f[b] \in Nat
    BY PendingIsSum DEF TypeOK
  <2> HIDE DEF f
  <2>2. f[a] =< SumFunctionOnSet(f, Accounts)
    BY <2>1, SumAtLeast, AddressAssumption
  <2>3. SumFunctionOnSet(f, Accounts) =< vault[x] /\ SumFunctionOnSet(f, Accounts) \in Nat
        /\ vault[x] \in Nat
    BY <1>1, <2>1, OwedParts
  <2> QED BY <2>1, <2>2, <2>3
<1> QED BY <1>2, <1>3, <1>4 DEF ClaimsCovered

\* With any prover: nobody finds the contract short.
LEMMA AnyCovered == AnySpec => []ClaimsCovered
<1>1. Init => TypeOK /\ QueueInv /\ SolventInv
  BY InitType, InitQueue, InitSolvent
<1>2. TypeOK /\ QueueInv /\ SolventInv /\ [AnyNext]_vars
        => (TypeOK /\ QueueInv /\ SolventInv)'
  BY TypeInductive, QueueInductive, SolventInductive
<1>3. TypeOK /\ SolventInv => ClaimsCovered
  BY CoveredWhenBacked DEF SolventInv
<1> QED BY <1>1, <1>2, <1>3, PTL DEF AnySpec

\* No payout, escape or claim ever finds the contract short, in whatever order
\* users make them (ZkClob.sol:101-127, 355-412): the comparisons with what the
\* contract holds are never what turns a user away.
THEOREM NobodyFindsItShort == Spec => []ClaimsCovered
BY AnyCovered, SpecIsAny, PTL
==============================================================================
