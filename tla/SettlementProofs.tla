-------------------------- MODULE SettlementProofs --------------------------
(***************************************************************************)
(* Proofs about the guest program of Settlement.tla: settle_batch called   *)
(* with any input its types allow, for every set of accounts, assets,      *)
(* markets, queues and orders.                                             *)
(*                                                                         *)
(* The proofs rest on three inductive invariants. SettleInv says, stage by *)
(* stage, what the guest has established so far: the account list is a     *)
(* witness it would accept, what the tracker is left with is what the      *)
(* accounts hold and what is still to be paid, and once matching starts    *)
(* the books are the validated ones that MatchingProofs.tla is about.      *)
(* LedgerInv relates the account list to the witness the batch started     *)
(* from: who is listed, which nonces are used, what the deposits, requests *)
(* and withdrawals have moved. LossInv bounds what the trades have taken   *)
(* from anybody by what the fills of their orders cost.                    *)
(***************************************************************************)
EXTENDS WitnessProofs

-----------------------------------------------------------------------------
(* The calls of settle_batch                                               *)

\* An account as it is decoded: zero balances are still in it.
RawAccount ==
    [id : Ids, balances : UNION {[held -> 0..MaxAmount] : held \in SUBSET Assets},
     nonce : 0..Limits.u64]

\* A signed order, as the host passes it on.
OrderEntry ==
    [market : Int, side : {"buy", "sell"}, price : 0..MaxAmount, quantity : 0..MaxAmount,
     nonce : 0..Limits.u64, trader : Ids, index : Nat \ {0}, sequence : 0..Limits.u64,
     signed : BOOLEAN]

\* One book: the orders of a market by their place in the batch.
BookEntry == [market : Int, buys : Seq(Nat), sells : Seq(Nat)]

\* BatchInput: whatever the host passes, honest or not, its types are right.
BatchIn(in) ==
    /\ in.accounts \in Seq(RawAccount)
    /\ in.deposits \in Seq(QueueEntry) /\ in.forced \in Seq(QueueEntry)
    /\ in.withdrawals \in Seq(WithdrawalEntry) /\ in.orders \in Seq(OrderEntry)
    /\ in.orderBooks \in Seq(BookEntry)
    /\ IsFiniteSet(DOMAIN in.rest) /\ DOMAIN in.rest \subseteq Ids
    /\ in.rest \in [DOMAIN in.rest -> RawAccount]
    /\ in.depositCursor \in 0..Limits.u64 /\ in.forcedCursor \in 0..Limits.u64

SettleInit == stage = "validate" /\ \E in : BatchIn(in) /\ Called(in)

SettleSpec == SettleInit /\ [][SettleNext]_settleVars

-----------------------------------------------------------------------------
(* The inductive invariant                                                 *)

\* The account list is one the guest would accept as a witness.
WitnessOK ==
    /\ accounts \in Seq(AnAccount) /\ Canonical(accounts) /\ Len(accounts) =< Limits.accounts
    /\ \A i \in DOMAIN accounts : accounts[i].id \in Ids /\ accounts[i].nonce \in 0..Limits.u64

\* The checks of the configuration have been passed, and the fee recipient is listed.
ConfigOK ==
    /\ \A m \in DOMAIN Markets : ConfiguredMarket(m) /\ Scale[Markets[m].base] \in Nat \ {0}
    /\ Has(accounts, FeeRecipient)

\* What is left of the tracker is what the accounts hold, given what is still to be
\* credited and to be paid.
Accounted ==
    /\ stage = "deposits" => \A x \in Assets :
          tracker[x] + Total(input.withdrawals, x) = Held(accounts, x) + Total(input.deposits, x)
    /\ stage \in {"forced", "operations", "apply"} => \A x \in Assets :
          tracker[x] + Total(input.withdrawals, x) = Held(accounts, x)
    /\ stage \in {"matching", "matched", "settled"} => \A x \in Assets :
          tracker[x] = Held(accounts, x)

\* The books as build_validated_books hands them over.
Handed == [i \in DOMAIN input.orderBooks |->
              [market |-> input.orderBooks[i].market,
               buys  |-> Resolved(input.orderBooks[i].buys),
               sells |-> Resolved(input.orderBooks[i].sells)]]

\* Two orders of the batch with one sequence are one order.
UniqueSequences ==
    \A i, j \in DOMAIN input.orders :
        input.orders[i].sequence = input.orders[j].sequence => i = j

\* The books being swept are the host's, with an order of the batch at every place, and
\* every order at one.
BooksOK ==
    /\ SweepInv
    /\ ValidBooks(input.orderBooks) /\ UniqueSequences
    /\ books = Handed
    /\ stage \in {"matched", "settled"} => book \notin DOMAIN books

Before == {"validate", "deposits", "forced", "operations", "apply"}

SettleInv ==
    /\ BatchIn(input)
    /\ stage \in Before \cup {"matching", "matched", "settled", "rejected"}
    /\ WitnessOK /\ Fits(tracker)
    /\ Len(drained) =< Len(input.forced)
    /\ stage \in Before => trades = <<>>
    /\ stage \in {"validate", "deposits", "forced"} => drained = <<>>
    /\ stage \notin {"validate", "rejected"} => ConfigOK
    /\ Accounted
    /\ stage = "apply" => ValidWithdrawals /\ ValidOrders /\ ValidNonces
    /\ stage \in {"matching", "matched", "settled"} => BooksOK

-----------------------------------------------------------------------------
(* What the types of an input say                                          *)

\* The entries of a list add up to what its positions add up to.
LEMMA EntriesTotal ==
    ASSUME NEW S, NEW list \in Seq(S), \A i \in DOMAIN list : list[i].amount \in Nat, NEW x
    PROVE  Total(list, x) = TotalIn(list, 1..Len(list), x) /\ Total(list, x) \in Nat
<1> DEFINE I == DOMAIN list
           f == [i \in I |-> IF list[i].asset = x THEN list[i].amount ELSE 0]
<1>1. I = 1..Len(list) /\ Len(list) \in Nat
  OBVIOUS
<1>2. Total(list, x) = SumFunctionOnSet(f, I)
  BY DEF Total, SumFunction
<1>3. Total(list, x) = TotalIn(list, I, x)
  BY DEF Total, TotalIn
<1>4. \A i \in I : f[i] \in Nat
  OBVIOUS
<1>5. IsFiniteSet(I)
  BY <1>1, FS_Interval
<1> HIDE DEF f, I
<1>6. SumFunctionOnSet(f, I) \in Nat
  BY <1>4, <1>5, SumNat
<1> QED BY <1>1, <1>2, <1>3, <1>6

\* Decoded accounts without a zero balance are accounts.
LEMMA DecodedAccounts ==
    ASSUME NEW accs \in Seq(RawAccount), Canonical(accs)
    PROVE  /\ accs \in Seq(AnAccount)
           /\ \A i \in DOMAIN accs : accs[i].id \in Ids /\ accs[i].nonce \in 0..Limits.u64
<1>1. ASSUME NEW i \in DOMAIN accs
      PROVE  accs[i] \in AnAccount /\ accs[i].id \in Ids /\ accs[i].nonce \in 0..Limits.u64
  <2>1. accs[i] \in RawAccount
    OBVIOUS
  <2> DEFINE a == accs[i]
             b == a.balances
  <2>2. /\ a.id \in Ids /\ a.nonce \in 0..Limits.u64
        /\ b \in UNION {[held -> 0..MaxAmount] : held \in SUBSET Assets}
        /\ a = [id |-> a.id, balances |-> a.balances, nonce |-> a.nonce]
    BY <2>1 DEF RawAccount
  <2>3. DOMAIN b \in SUBSET Assets /\ b \in [DOMAIN b -> 0..MaxAmount]
    BY <2>2
  <2>4. \A x \in DOMAIN b : b[x] # 0
    BY DEF Canonical
  <2>5. \A x \in DOMAIN b : b[x] \in 1..MaxAmount
    BY <2>3, <2>4, ExchangeAssumption
  <2>6. b \in [DOMAIN b -> 1..MaxAmount]
    <3> HIDE DEF b
    <3> QED BY <2>3, <2>5
  <2>7. b \in Holdings
    <3> HIDE DEF b
    <3> QED BY <2>3, <2>6, HoldingsAre
  <2>8. a.id \in Int /\ a.nonce \in Nat
    <3>1. a.id \in Ids /\ a.nonce \in 0..Limits.u64
      BY <2>2
    <3>2. Ids \subseteq Int
      BY SettlementAssumption
    <3>3. \A k \in 0..Limits.u64 : k \in Nat
      BY SettlementAssumption
    <3>4. a.id \in Int
      BY <3>1, <3>2
    <3>5. a.nonce \in Nat
      BY <3>1, <3>3
    <3> QED BY <3>4, <3>5
  <2> QED BY <2>2, <2>7, <2>8 DEF AnAccount
<1>2. accs \in Seq(AnAccount)
  BY <1>1
<1> QED BY <1>1, <1>2

\* The entries of an input are entries.
LEMMA InputEntries ==
    ASSUME NEW in, BatchIn(in)
    PROVE  /\ \A i \in DOMAIN in.deposits :
                 AnEntry(in.deposits[i]) /\ in.deposits[i].amount \in Nat /\ in.deposits[i].account \in Ids
           /\ \A i \in DOMAIN in.withdrawals : in.withdrawals[i].amount \in Nat
<1>1. ASSUME NEW i \in DOMAIN in.deposits
      PROVE  AnEntry(in.deposits[i]) /\ in.deposits[i].amount \in Nat /\ in.deposits[i].account \in Ids
  <2>1. in.deposits[i] \in QueueEntry
    BY DEF BatchIn
  <2>2. AnEntry(in.deposits[i]) /\ in.deposits[i].account \in Ids
    BY <2>1, QueueEntryType
  <2> QED BY <2>2, ExchangeAssumption DEF AnEntry
<1>2. ASSUME NEW i \in DOMAIN in.withdrawals PROVE in.withdrawals[i].amount \in Nat
  <2>1. in.withdrawals[i] \in WithdrawalEntry
    BY DEF BatchIn
  <2>2. \A w \in WithdrawalEntry : w.amount \in Nat
    BY ExchangeAssumption DEF WithdrawalEntry
  <2> QED BY <2>1, <2>2
<1> QED BY <1>1, <1>2

-----------------------------------------------------------------------------
(* The steps of the pipeline                                               *)

\* settle_batch is called with nothing done.
LEMMA SettleStarts == SettleInit => SettleInv
<1> SUFFICES ASSUME SettleInit PROVE SettleInv
  OBVIOUS
<1>1. stage = "validate" /\ BatchIn(input) /\ MatchStart(<<>>, <<>>)
      /\ tracker = [x \in Assets |-> 0] /\ drained = <<>>
  BY DEF SettleInit, Called
<1>2. accounts = <<>> /\ trades = <<>>
  BY <1>1 DEF MatchStart
<1>3. WitnessOK
  <2>1. accounts \in Seq(AnAccount) /\ Len(accounts) = 0 /\ DOMAIN accounts = {}
    BY <1>2
  <2>2. 1..(Len(accounts) - 1) = {}
    BY <2>1
  <2> QED BY <2>1, <2>2, SettlementAssumption DEF WitnessOK, Canonical
<1>4. Fits(tracker)
  BY <1>1, ExchangeAssumption DEF Fits
<1>5. Len(drained) =< Len(input.forced)
  <2>1. Len(input.forced) \in Nat
    BY <1>1 DEF BatchIn
  <2>2. Len(drained) = 0
    BY <1>1
  <2> QED BY <2>1, <2>2
<1>6. Accounted
  BY <1>1 DEF Accounted
<1> QED BY <1>1, <1>2, <1>3, <1>4, <1>5, <1>6 DEF SettleInv, Before

\* A rejected batch leaves everything as it was.
LEMMA RejectKeeps ==
    ASSUME SettleInv, Reject
    PROVE  SettleInv'
<1>1. /\ stage' = "rejected" /\ input' = input /\ accounts' = accounts
      /\ tracker' = tracker /\ drained' = drained
  BY DEF Reject
<1>2. WitnessOK' /\ Fits(tracker)'
  BY <1>1 DEF SettleInv, WitnessOK, Fits
<1>3. Accounted'
  BY <1>1 DEF Accounted
<1>4. BatchIn(input)'
  BY <1>1 DEF SettleInv
<1> QED BY <1>1, <1>2, <1>3, <1>4 DEF SettleInv, Before

\* Validation leaves a witness, a configuration that can be traded under, and the
\* tracker with what the accounts and the deposits hold and the withdrawals do not take.
LEMMA ValidateKeeps ==
    ASSUME SettleInv, Validate
    PROVE  SettleInv'
<1>1. /\ stage = "validate" /\ stage' = "deposits" /\ input' = input
      /\ accounts' = input.accounts /\ tracker' = Remaining(Baseline, input.withdrawals)
      /\ drained' = drained /\ trades' = trades
      /\ WithinLimits /\ ValidConfig /\ Canonical(input.accounts)
      /\ Fits(Remaining(Baseline, input.withdrawals))
  BY DEF Validate, ValidInput
<1>2. BatchIn(input) /\ Len(drained) =< Len(input.forced) /\ drained = <<>> /\ trades = <<>>
  BY <1>1 DEF SettleInv, Before
<1>3. input.accounts \in Seq(RawAccount)
  BY <1>2 DEF BatchIn
<1>4. /\ input.accounts \in Seq(AnAccount)
      /\ \A i \in DOMAIN input.accounts :
            input.accounts[i].id \in Ids /\ input.accounts[i].nonce \in 0..Limits.u64
  BY <1>1, <1>3, DecodedAccounts
<1>5. WitnessOK'
  BY <1>1, <1>4 DEF WitnessOK, WithinLimits
<1>6. Fits(tracker)'
  BY <1>1 DEF Fits
<1>7. ConfigOK'
  <2>1. ASSUME NEW m \in DOMAIN Markets
        PROVE  ConfiguredMarket(m) /\ Scale[Markets[m].base] \in Nat \ {0}
    <3>1. {Markets[m].base, Markets[m].quote} \subseteq DOMAIN Scale
      BY <1>1 DEF ValidConfig, Configured
    <3>2. Scale[Markets[m].base] # 0
      BY <1>1, <3>1 DEF ValidConfig, Configured
    <3> QED BY <3>1, <3>2, ExchangeAssumption DEF ConfiguredMarket
  <2>2. Has(input.accounts, FeeRecipient)
    BY <1>1 DEF ValidConfig, Has
  <2>3. Has(accounts, FeeRecipient)'
    BY <1>1, <2>2 DEF Has
  <2> QED BY <2>1, <2>3 DEF ConfigOK
<1>8. Accounted'
  <2>1. ASSUME NEW x \in Assets
        PROVE  tracker'[x] + Total(input.withdrawals, x) = Held(input.accounts, x) + Total(input.deposits, x)
    <3>1. /\ tracker'[x] = Baseline[x] - Total(input.withdrawals, x)
          /\ Baseline[x] = Held(input.accounts, x) + Total(input.deposits, x)
      <4>1. tracker' = Remaining(Baseline, input.withdrawals)
        BY <1>1
      <4>2. tracker'[x] = Baseline[x] - Total(input.withdrawals, x)
        BY <4>1 DEF Remaining
      <4>3. Baseline[x] = Held(input.accounts, x) + Total(input.deposits, x)
        BY DEF Baseline
      <4> QED BY <4>2, <4>3
    <3>2. Held(input.accounts, x) \in Nat
      BY <1>4, HeldType
    <3>3. Total(input.deposits, x) \in Nat
      <4>1. \A i \in DOMAIN input.deposits : input.deposits[i].amount \in Nat
        BY <1>2, InputEntries
      <4> QED BY <1>2, <4>1, EntriesTotal DEF BatchIn
    <3>4. Total(input.withdrawals, x) \in Nat
      <4>1. \A i \in DOMAIN input.withdrawals : input.withdrawals[i].amount \in Nat
        BY <1>2, InputEntries
      <4> QED BY <1>2, <4>1, EntriesTotal DEF BatchIn
    <3> QED BY <3>1, <3>2, <3>3, <3>4
  <2> QED BY <1>1, <2>1 DEF Accounted
<1> QED BY <1>1, <1>2, <1>5, <1>6, <1>7, <1>8 DEF SettleInv, Before

\* What the lists of an input add up to.
LEMMA InputTotals ==
    ASSUME BatchIn(input), NEW x
    PROVE  /\ Total(input.deposits, x) \in Nat
           /\ Total(input.deposits, x) = TotalIn(input.deposits, 1..Len(input.deposits), x)
           /\ Total(input.withdrawals, x) \in Nat
           /\ Total(input.withdrawals, x) = TotalIn(input.withdrawals, 1..Len(input.withdrawals), x)
<1>1. /\ \A i \in DOMAIN input.deposits : input.deposits[i].amount \in Nat
      /\ \A i \in DOMAIN input.withdrawals : input.withdrawals[i].amount \in Nat
  BY InputEntries
<1>2. input.deposits \in Seq(QueueEntry) /\ input.withdrawals \in Seq(WithdrawalEntry)
  BY DEF BatchIn
<1>3. /\ Total(input.deposits, x) = TotalIn(input.deposits, 1..Len(input.deposits), x)
      /\ Total(input.deposits, x) \in Nat
  BY <1>1, <1>2, EntriesTotal
<1>4. /\ Total(input.withdrawals, x) = TotalIn(input.withdrawals, 1..Len(input.withdrawals), x)
      /\ Total(input.withdrawals, x) \in Nat
  BY <1>1, <1>2, EntriesTotal
<1> QED BY <1>3, <1>4

\* apply_deposits moves what the deposits are worth from the queue into the accounts.
LEMMA DepositsKeep ==
    ASSUME SettleInv, ApplyDeposits
    PROVE  SettleInv'
<1>1. /\ stage = "deposits" /\ stage' = "forced" /\ input' = input
      /\ accounts' \in FoldLeft(ThenDeposit, {accounts}, input.deposits)
      /\ tracker' = tracker /\ drained' = drained /\ trades' = trades
  BY DEF ApplyDeposits, WithDeposits
<1>2. /\ BatchIn(input) /\ WitnessOK /\ Fits(tracker) /\ Len(drained) =< Len(input.forced)
      /\ drained = <<>> /\ trades = <<>> /\ ConfigOK /\ Accounted
  BY <1>1 DEF SettleInv, Before
<1>3. /\ accounts \in Seq(AnAccount) /\ Canonical(accounts) /\ Len(accounts) =< Limits.accounts
      /\ \A i \in DOMAIN accounts : accounts[i].id \in Ids /\ accounts[i].nonce \in 0..Limits.u64
  BY <1>2 DEF WitnessOK
<1>4. input.deposits \in Seq(QueueEntry)
  BY <1>2 DEF BatchIn
<1>5. \A i \in DOMAIN input.deposits : AnEntry(input.deposits[i]) /\ input.deposits[i].account \in Ids
  BY <1>2, InputEntries
<1> DEFINE deps == input.deposits
           n == Len(deps)
           new == accounts'
<1>6. Credited(accounts, new, deps, n)
  BY <1>1, <1>3, <1>4, <1>5, DepositsCredit
<1>7. n \in Nat /\ DOMAIN deps = 1..n
  BY <1>4
<1>8. /\ new \in Seq(AnAccount) /\ Canonical(new) /\ Len(new) =< Limits.accounts
      /\ \A id : Has(new, id) <=> Has(accounts, id) \/ \E i \in 1..n : deps[i].account = id
      /\ \A id : NonceFor(new, id) = NonceFor(accounts, id)
      /\ \A x : Held(new, x) = Held(accounts, x) + TotalIn(deps, 1..n, x)
  BY <1>6 DEF Credited
<1>9. ASSUME NEW i \in DOMAIN new
      PROVE  new[i].id \in Ids /\ new[i].nonce \in 0..Limits.u64
  <2> DEFINE id == new[i].id
  <2>1. Has(new, id) /\ NonceFor(new, id) = new[i].nonce
    BY <1>8, AtItsPlace
  <2> HIDE DEF id, new, deps, n
  <2>2. CASE Has(accounts, id)
    <3>1. PICK j \in DOMAIN accounts : accounts[j].id = id
      BY <2>2 DEF Has
    <3>2. NonceFor(accounts, id) = accounts[j].nonce
      BY <1>3, <3>1, AtItsPlace
    <3> QED BY <1>3, <1>8, <2>1, <3>1, <3>2 DEF id
  <2>3. CASE ~Has(accounts, id)
    <3>1. PICK j \in 1..n : deps[j].account = id
      BY <1>8, <2>1, <2>3
    <3>2. deps[j].account \in Ids
      BY <1>5, <1>7 DEF deps
    <3>3. NonceFor(accounts, id) = 0
      BY <2>3 DEF NonceFor
    <3> QED BY <1>8, <2>1, <3>1, <3>2, <3>3, SettlementAssumption DEF id
  <2> QED BY <2>2, <2>3
<1>10. WitnessOK'
  BY <1>8, <1>9 DEF WitnessOK
<1>11. ConfigOK'
  <2>1. Has(new, FeeRecipient)
    BY <1>2, <1>8 DEF ConfigOK
  <2> QED BY <1>2, <2>1 DEF ConfigOK, Has
<1>12. Accounted'
  <2>1. ASSUME NEW x \in Assets
        PROVE  tracker[x] + Total(input.withdrawals, x) = Held(new, x)
    <3>1. tracker[x] + Total(input.withdrawals, x) = Held(accounts, x) + Total(input.deposits, x)
      BY <1>1, <1>2 DEF Accounted
    <3>2. Total(input.deposits, x) = TotalIn(deps, 1..n, x)
      BY <1>2, InputTotals
    <3> QED BY <1>8, <3>1, <3>2
  <2> QED BY <1>1, <2>1 DEF Accounted
<1> QED BY <1>1, <1>2, <1>10, <1>11, <1>12 DEF SettleInv, Before, Fits

\* apply_forced_withdrawals takes what it drains out of the accounts and the tracker.
LEMMA ForcedKeeps ==
    ASSUME SettleInv, ApplyForced
    PROVE  SettleInv'
<1>1. /\ stage = "forced" /\ stage' = "operations" /\ input' = input
      /\ accounts' = AfterForced.accounts /\ drained' = AfterForced.drained
      /\ tracker' = Remaining(tracker, AfterForced.drained)
      /\ Fits(Remaining(tracker, AfterForced.drained)) /\ trades' = trades
  BY DEF ApplyForced, ForcedOK
<1>2. /\ BatchIn(input) /\ WitnessOK /\ trades = <<>> /\ ConfigOK /\ Accounted
  BY <1>1 DEF SettleInv, Before
<1>3. /\ accounts \in Seq(AnAccount) /\ Canonical(accounts) /\ Len(accounts) =< Limits.accounts
      /\ \A i \in DOMAIN accounts : accounts[i].id \in Ids /\ accounts[i].nonce \in 0..Limits.u64
  BY <1>2 DEF WitnessOK
<1>4. input.forced \in Seq(QueueEntry)
  BY <1>2 DEF BatchIn
<1> DEFINE n == Len(input.forced)
           s == AfterForced
           list == s.drained
           new == s.accounts
<1>5. DrainedTo(accounts, s, input.forced, n)
  BY <1>3, <1>4, RequestsDrain DEF AfterForced
<1> HIDE DEF s
<1>6. /\ new \in Seq(AnAccount) /\ SamePeople(accounts, new)
      /\ IsList(list) /\ Len(list) = n
      /\ \A i \in 1..n : list[i].amount \in Nat
      /\ \A x : Held(new, x) = Held(accounts, x) - TotalIn(list, 1..n, x)
  BY <1>5 DEF DrainedTo, TakenInTurn
<1>7. /\ accounts' = new /\ drained' = list /\ tracker' = Remaining(tracker, list)
      /\ Fits(Remaining(tracker, list))
  BY <1>1 DEF s
<1> HIDE DEF list, new
<1>8. Canonical(new)
  BY <1>3, <1>6, StaysCanonical
<1>9. WitnessOK'
  BY <1>3, <1>6, <1>7, <1>8 DEF WitnessOK, SamePeople
<1>10. ConfigOK'
  <2>1. Has(new, FeeRecipient)
    BY <1>2, <1>6 DEF ConfigOK, SamePeople, Has
  <2> QED BY <1>2, <1>7, <2>1 DEF ConfigOK, Has
<1>11. Fits(tracker)'
  BY <1>7 DEF Fits
<1>12. Len(drained') =< Len(input.forced)
  <2>1. n \in Nat
    BY <1>4
  <2> QED BY <1>6, <1>7, <2>1
<1>13. \A x : Total(list, x) = TotalIn(list, 1..n, x) /\ Total(list, x) \in Nat
  <2>1. \A i \in DOMAIN list : list[i].amount \in Nat
    BY <1>6 DEF IsList
  <2> QED BY <1>6, <2>1, EntriesTotal DEF IsList
<1>14. Accounted'
  <2>1. ASSUME NEW x \in Assets
        PROVE  tracker'[x] + Total(input.withdrawals, x) = Held(new, x)
    <3>1. tracker[x] + Total(input.withdrawals, x) = Held(accounts, x)
      BY <1>1, <1>2 DEF Accounted
    <3>2. tracker'[x] = tracker[x] - Total(list, x)
      BY <1>7 DEF Remaining
    <3>3. tracker[x] \in Int
      BY ExchangeAssumption DEF SettleInv, Fits
    <3>4. Total(input.withdrawals, x) \in Nat
      BY <1>2, InputTotals
    <3>5. Held(accounts, x) \in Nat
      BY <1>3, HeldType
    <3>6. Total(list, x) = TotalIn(list, 1..n, x) /\ Total(list, x) \in Nat
      BY <1>13
    <3>7. Held(new, x) = Held(accounts, x) - TotalIn(list, 1..n, x)
      BY <1>6
    <3> QED BY <3>1, <3>2, <3>3, <3>4, <3>5, <3>6, <3>7
  <2> QED BY <1>1, <1>7, <2>1 DEF Accounted
<1> QED BY <1>1, <1>2, <1>9, <1>10, <1>11, <1>12, <1>14 DEF SettleInv, Before

\* validate_operations moves nothing.
LEMMA OperationsKeep ==
    ASSUME SettleInv, ValidateOperations
    PROVE  SettleInv'
<1>1. /\ stage = "operations" /\ stage' = "apply" /\ input' = input
      /\ accounts' = accounts /\ tracker' = tracker /\ drained' = drained /\ trades' = trades
      /\ ValidWithdrawals /\ ValidOrders /\ ValidNonces
  BY DEF ValidateOperations
<1>2. /\ BatchIn(input) /\ WitnessOK /\ Fits(tracker) /\ Len(drained) =< Len(input.forced)
      /\ trades = <<>> /\ ConfigOK /\ Accounted
  BY <1>1 DEF SettleInv, Before
<1>3. ValidWithdrawals' /\ ValidOrders' /\ ValidNonces'
  <2>1. ValidWithdrawals'
    BY <1>1 DEF ValidWithdrawals
  <2>2. ValidOrders'
    BY <1>1 DEF ValidOrders
  <2>3. Operations' = Operations
    BY <1>1 DEF Operations
  <2>4. \A i : OperationsAt(i)' = OperationsAt(i)
    BY <2>3 DEF OperationsAt
  <2>5. ValidNonces'
    BY <1>1, <2>3, <2>4 DEF ValidNonces
  <2> QED BY <2>1, <2>2, <2>5
<1>4. WitnessOK' /\ Fits(tracker)' /\ ConfigOK'
  BY <1>1, <1>2 DEF WitnessOK, Fits, ConfigOK
<1>5. Accounted'
  BY <1>1, <1>2 DEF Accounted
<1> QED BY <1>1, <1>2, <1>3, <1>4, <1>5 DEF SettleInv, Before

-----------------------------------------------------------------------------
(* The operations of the batch                                             *)

\* The operations attached to a position can be counted.
LEMMA OperationsAreFinite ==
    ASSUME BatchIn(input), NEW i
    PROVE  /\ Operations \in Seq(OrderEntry \cup WithdrawalEntry)
           /\ IsFiniteSet(OperationsAt(i)) /\ Cardinality(OperationsAt(i)) \in Nat
<1>1. Operations \in Seq(OrderEntry \cup WithdrawalEntry)
  <2>1. input.orders \in Seq(OrderEntry) /\ input.withdrawals \in Seq(WithdrawalEntry)
    BY DEF BatchIn
  <2>2. /\ input.orders \in Seq(OrderEntry \cup WithdrawalEntry)
        /\ input.withdrawals \in Seq(OrderEntry \cup WithdrawalEntry)
    BY <2>1
  <2> QED BY <2>2 DEF Operations
<1>2. DOMAIN Operations = 1..Len(Operations) /\ Len(Operations) \in Nat
  BY <1>1
<1>3. IsFiniteSet(DOMAIN Operations)
  BY <1>2, FS_Interval
<1>4. OperationsAt(i) \subseteq DOMAIN Operations
  BY DEF OperationsAt
<1>5. IsFiniteSet(OperationsAt(i))
  BY <1>3, <1>4, FS_Subset
<1> QED BY <1>1, <1>5, FS_CardinalityType

\* consume_nonces changes nonces and nothing else.
LEMMA NoncesConsumed ==
    ASSUME BatchIn(input), NEW accs \in Seq(AnAccount), Canonical(accs),
           NEW new, new = ConsumeNonces(accs)
    PROVE  /\ new \in Seq(AnAccount) /\ DOMAIN new = DOMAIN accs /\ Len(new) = Len(accs)
           /\ Canonical(new)
           /\ \A i \in DOMAIN accs :
                 /\ new[i].id = accs[i].id /\ new[i].balances = accs[i].balances
                 /\ new[i].nonce = accs[i].nonce + Cardinality(OperationsAt(i))
           /\ \A x : Held(new, x) = Held(accs, x)
<1> DEFINE n == Len(accs)
<1>1. n \in Nat /\ DOMAIN accs = 1..n /\ \A i \in 1..n : accs[i] \in AnAccount
  OBVIOUS
<1>2. new = [i \in 1..n |-> [accs[i] EXCEPT !.nonce = @ + Cardinality(OperationsAt(i))]]
  BY <1>1 DEF ConsumeNonces
<1>3. ASSUME NEW i \in 1..n
      PROVE  /\ new[i].id = accs[i].id /\ new[i].balances = accs[i].balances
             /\ new[i].nonce = accs[i].nonce + Cardinality(OperationsAt(i))
             /\ new[i] \in AnAccount
  <2> DEFINE c == Cardinality(OperationsAt(i))
             a == accs[i]
  <2>1. c \in Nat
    BY OperationsAreFinite
  <2>2. a \in AnAccount
    BY <1>1
  <2>3. new[i] = [a EXCEPT !.nonce = @ + c]
    BY <1>2
  <2> HIDE DEF c, a
  <2>4. a = [id |-> a.id, balances |-> a.balances, nonce |-> a.nonce]
        /\ a.id \in Int /\ a.balances \in Holdings /\ a.nonce \in Nat
    BY <2>2 DEF AnAccount
  <2>5. new[i] = [id |-> a.id, balances |-> a.balances, nonce |-> a.nonce + c]
    BY <2>3, <2>4
  <2>6. a.nonce + c \in Nat
    BY <2>1, <2>4
  <2>7. new[i] \in AnAccount
    BY <2>4, <2>5, <2>6 DEF AnAccount
  <2> QED BY <2>5, <2>7 DEF a, c
<1>4. DOMAIN new = 1..n
  BY <1>2
<1>5. new \in Seq(AnAccount) /\ Len(new) = n
  <2>1. new \in [1..n -> AnAccount]
    BY <1>2, <1>3, <1>4
  <2> HIDE DEF n
  <2> QED BY <1>1, <1>4, <2>1
<1>6. Canonical(new)
  <2>1. \A i \in 1..(Len(new) - 1) : new[i].id < new[i + 1].id
    <3>1. \A i \in 1..(n - 1) : i \in 1..n /\ i + 1 \in 1..n /\ accs[i].id < accs[i + 1].id
      BY <1>1 DEF Canonical
    <3> HIDE DEF n
    <3> QED BY <1>3, <1>5, <3>1
  <2>2. \A i \in DOMAIN new : \A x \in DOMAIN new[i].balances : new[i].balances[x] # 0
    BY <1>1, <1>3, <1>4 DEF Canonical
  <2> QED BY <2>1, <2>2 DEF Canonical
<1>7. ASSUME NEW x PROVE Held(new, x) = Held(accs, x)
  <2>1. \A i \in 1..n : Balance(new[i], x) = Balance(accs[i], x)
    BY <1>3 DEF Balance
  <2> QED BY <1>1, <1>4, <2>1 DEF Held
<1> QED BY <1>1, <1>3, <1>4, <1>5, <1>6, <1>7

-----------------------------------------------------------------------------
(* The books                                                               *)

\* What validate_orders has checked of an order.
Checked(o) ==
    /\ o.price \in Nat /\ o.quantity \in 1..MaxAmount /\ o.sequence \in Nat
    /\ o.index \in DOMAIN accounts /\ accounts[o.index].id = o.trader
    /\ o.side \in {"buy", "sell"}

\* Every order of the batch is checked.
LEMMA OrdersAreChecked ==
    ASSUME BatchIn(input), ValidOrders, NEW i \in DOMAIN input.orders
    PROVE  Checked(OrderAt(i)) /\ OrderAt(i) \in OrderEntry
<1> DEFINE o == input.orders[i]
<1>1. o \in OrderEntry
  BY DEF BatchIn
<1>2. /\ o.price \in 0..MaxAmount /\ o.quantity \in 0..MaxAmount /\ o.sequence \in 0..Limits.u64
      /\ o.side \in {"buy", "sell"}
  BY <1>1 DEF OrderEntry
<1>3. o.quantity # 0 /\ IsAt(accounts, o.index, o.trader)
  BY DEF ValidOrders, ValidOperation
<1>4. o.price \in Nat /\ o.quantity \in 1..MaxAmount
  BY <1>2, <1>3, ExchangeAssumption
<1>5. o.sequence \in Nat
  <2>1. \A k \in 0..Limits.u64 : k \in Nat
    BY SettlementAssumption
  <2> QED BY <1>2, <2>1
<1> QED BY <1>1, <1>2, <1>3, <1>4, <1>5 DEF Checked, IsAt, OrderAt

\* Priority is transitive on one side of a market.
LEMMA PrecedesOnwards ==
    ASSUME NEW o, NEW p, NEW q, o.side = p.side, p.side = q.side,
           o.price \in Nat, p.price \in Nat, q.price \in Nat,
           o.sequence \in Nat, p.sequence \in Nat, q.sequence \in Nat,
           Precedes(o, p), Precedes(p, q)
    PROVE  Precedes(o, q)
BY DEF Precedes

\* One side of a book that validate_book_orders has let through.
LEMMA SideIsValidated ==
    ASSUME BatchIn(input), ValidOrders, NEW ob \in BookEntry, NEW side \in {"buy", "sell"},
           ValidSide(ob, side), NEW accs, DOMAIN accs = DOMAIN accounts
    PROVE  ASide(Resolved(SideOf(ob, side)), ob.market, side, accs)
<1> DEFINE places == SideOf(ob, side)
           list == Resolved(places)
           n == Len(places)
<1>1. places \in Seq(Nat)
  BY DEF BookEntry, SideOf
<1>2. n \in Nat /\ DOMAIN places = 1..n
  BY <1>1
<1>3. \A i \in 1..n : /\ places[i] \in DOMAIN input.orders
                      /\ OrderAt(places[i]).market = ob.market
                      /\ OrderAt(places[i]).side = side
  BY <1>2 DEF ValidSide
<1>4. \A i \in 1..(n - 1) : Precedes(OrderAt(places[i]), OrderAt(places[i + 1]))
  BY DEF ValidSide
<1> HIDE DEF places, n
<1>5. list = [i \in 1..n |-> OrderAt(places[i])]
  BY <1>2 DEF Resolved
<1> HIDE DEF list
<1>6. \A i \in 1..n : /\ list[i] = OrderAt(places[i]) /\ list[i].market = ob.market
                      /\ list[i].side = side /\ Checked(list[i]) /\ list[i] \in OrderEntry
  BY <1>3, <1>5, OrdersAreChecked
<1>7. DOMAIN list = 1..n /\ Len(list) = n
  <2>1. list \in [1..n -> OrderEntry]
    BY <1>5, <1>6
  <2> QED BY <1>2, <2>1
<1>8. \A i, j \in 1..n : i < j => Precedes(list[i], list[j])
  <2> DEFINE R == {p \in (1..n) \X (1..n) : Precedes(list[p[1]], list[p[2]])}
  <2>1. \A i, j \in 1..n : <<i, j>> \in R <=> Precedes(list[i], list[j])
    OBVIOUS
  <2>2. ASSUME NEW i \in 1..(n - 1) PROVE <<i, i + 1>> \in R
    <3>1. i \in 1..n /\ i + 1 \in 1..n
      BY <1>2
    <3> HIDE DEF R
    <3> QED BY <1>4, <1>6, <2>1, <3>1
  <2> HIDE DEF R
  <2>3. ASSUME NEW i \in 1..n, NEW j \in 1..n, NEW k \in 1..n, <<i, j>> \in R, <<j, k>> \in R
        PROVE  <<i, k>> \in R
    <3>1. Precedes(list[i], list[j]) /\ Precedes(list[j], list[k])
      BY <2>1, <2>3
    <3>2. Checked(list[i]) /\ Checked(list[j]) /\ Checked(list[k])
          /\ list[i].side = side /\ list[j].side = side /\ list[k].side = side
      BY <1>6
    <3>3. Precedes(list[i], list[k])
      BY <3>1, <3>2, PrecedesOnwards DEF Checked
    <3> QED BY <2>1, <3>3
  <2>4. \A i, j \in 1..n : i < j => <<i, j>> \in R
    BY <1>2, <2>2, <2>3, Neighbours
  <2> QED BY <2>1, <2>4
<1>9. \A i \in 1..n :
        /\ list[i].market = ob.market /\ list[i].side = side
        /\ list[i].index \in DOMAIN accs /\ list[i].sequence \in Nat
        /\ list[i].price \in Nat /\ list[i].quantity \in 1..MaxAmount
  BY <1>6 DEF Checked
<1>10. ASide(list, ob.market, side, accs)
  BY <1>2, <1>7, <1>8, <1>9 DEF ASide
<1> QED BY <1>10 DEF list, places

\* A side of the books that are handed over is a side of the host's books.
LEMMA HandedSide ==
    ASSUME NEW k \in DOMAIN input.orderBooks, NEW side \in {"buy", "sell"}
    PROVE  /\ SideOf(Handed[k], side) = Resolved(SideOf(input.orderBooks[k], side))
           /\ DOMAIN SideOf(Handed[k], side) = DOMAIN SideOf(input.orderBooks[k], side)
           /\ \A i \in DOMAIN SideOf(input.orderBooks[k], side) :
                 SideOf(Handed[k], side)[i] = OrderAt(SideOf(input.orderBooks[k], side)[i])
BY DEF Handed, SideOf, Resolved

\* The places of the books are those of their sides.
LEMMA PlacesAre ==
    ASSUME NEW obs
    PROVE  /\ \A k \in DOMAIN obs, side \in {"buy", "sell"} :
                \A i \in DOMAIN SideOf(obs[k], side) : <<k, side, i>> \in Places(obs)
           /\ \A p \in Places(obs) : \E k \in DOMAIN obs, side \in {"buy", "sell"} :
                \E i \in DOMAIN SideOf(obs[k], side) : p = <<k, side, i>>
<1> DEFINE Of(k, side) == {<<k, side, i>> : i \in DOMAIN SideOf(obs[k], side)}
<1>1. Places(obs) = UNION {Of(k, side) : k \in DOMAIN obs, side \in {"buy", "sell"}}
  BY DEF Places
<1>2. ASSUME NEW k \in DOMAIN obs, NEW side \in {"buy", "sell"},
             NEW i \in DOMAIN SideOf(obs[k], side)
      PROVE  <<k, side, i>> \in Places(obs)
  <2>1. <<k, side, i>> \in Of(k, side)
    OBVIOUS
  <2> HIDE DEF Of
  <2> QED BY <1>1, <2>1
<1>3. ASSUME NEW p \in Places(obs)
      PROVE  \E k \in DOMAIN obs, side \in {"buy", "sell"} :
                 \E i \in DOMAIN SideOf(obs[k], side) : p = <<k, side, i>>
  <2> HIDE DEF Of
  <2>1. PICK k \in DOMAIN obs, side \in {"buy", "sell"} : p \in Of(k, side)
    BY <1>1
  <2> QED BY <2>1 DEF Of
<1> QED BY <1>2, <1>3

\* No order stands in two places, so that no two places carry one sequence.
LEMMA HandedSequences ==
    ASSUME UniqueSequences, ValidBooks(input.orderBooks), NEW side \in {"buy", "sell"}
    PROVE  OneSequence(Handed, side)
<1> DEFINE obs == input.orderBooks
<1> SUFFICES ASSUME NEW k \in DOMAIN Handed, NEW l \in DOMAIN Handed,
                    NEW i \in DOMAIN SideOf(Handed[k], side), NEW j \in DOMAIN SideOf(Handed[l], side),
                    SideOf(Handed[k], side)[i].sequence = SideOf(Handed[l], side)[j].sequence
             PROVE  k = l /\ i = j
  BY DEF OneSequence
<1>0. k \in DOMAIN obs /\ l \in DOMAIN obs
  BY DEF Handed
<1> DEFINE o == SideOf(obs[k], side)[i]
           p == SideOf(obs[l], side)[j]
<1>1. /\ i \in DOMAIN SideOf(obs[k], side) /\ j \in DOMAIN SideOf(obs[l], side)
      /\ OrderAt(o).sequence = OrderAt(p).sequence
  <2>1. /\ DOMAIN SideOf(Handed[k], side) = DOMAIN SideOf(obs[k], side)
        /\ \A h \in DOMAIN SideOf(obs[k], side) :
              SideOf(Handed[k], side)[h] = OrderAt(SideOf(obs[k], side)[h])
    BY <1>0, HandedSide
  <2>2. /\ DOMAIN SideOf(Handed[l], side) = DOMAIN SideOf(obs[l], side)
        /\ \A h \in DOMAIN SideOf(obs[l], side) :
              SideOf(Handed[l], side)[h] = OrderAt(SideOf(obs[l], side)[h])
    BY <1>0, HandedSide
  <2> QED BY <2>1, <2>2
<1>2. o \in DOMAIN input.orders /\ p \in DOMAIN input.orders
  <2>1. ValidSide(obs[k], side) /\ ValidSide(obs[l], side)
    BY <1>0 DEF ValidBooks
  <2> QED BY <1>1, <2>1 DEF ValidSide
<1>3. o = p
  BY <1>1, <1>2 DEF OrderAt, UniqueSequences
<1> DEFINE here  == <<k, side, i>>
           there == <<l, side, j>>
<1>4. here \in Places(obs) /\ there \in Places(obs)
  BY <1>0, <1>1, PlacesAre
<1>5. IndexAt(obs, here) = o /\ IndexAt(obs, there) = p
  BY DEF IndexAt
<1>6. SeenOnce(obs)
  BY DEF ValidBooks
<1>7. here = there
  <2> HIDE DEF here, there, o, p, obs
  <2> QED BY <1>3, <1>4, <1>5, <1>6 DEF SeenOnce
<1> QED BY <1>7

\* No two books are of the same market.
LEMMA MarketsIncrease ==
    ASSUME BatchIn(input), ValidBooks(input.orderBooks)
    PROVE  \A k, l \in DOMAIN input.orderBooks :
               input.orderBooks[k].market = input.orderBooks[l].market => k = l
<1> DEFINE obs == input.orderBooks
           n == Len(obs)
           R == {p \in (1..n) \X (1..n) : obs[p[1]].market < obs[p[2]].market}
<1>1. obs \in Seq(BookEntry)
  BY DEF BatchIn
<1>2. n \in Nat /\ DOMAIN obs = 1..n
  BY <1>1
<1>3. \A i \in 1..n : obs[i].market \in Int
  <2>1. \A b \in BookEntry : b.market \in Int
    BY DEF BookEntry
  <2> QED BY <1>1, <1>2, <2>1
<1>4. \A i \in 1..(n - 1) : obs[i].market < obs[i + 1].market
  BY DEF ValidBooks
<1> HIDE DEF obs, n
<1>5. \A i, j \in 1..n : <<i, j>> \in R <=> obs[i].market < obs[j].market
  OBVIOUS
<1>6. \A i \in 1..(n - 1) : i \in 1..n /\ i + 1 \in 1..n
  BY <1>2
<1> HIDE DEF R
<1>7. \A i \in 1..(n - 1) : <<i, i + 1>> \in R
  BY <1>4, <1>5, <1>6
<1>8. ASSUME NEW i \in 1..n, NEW j \in 1..n, NEW k \in 1..n, <<i, j>> \in R, <<j, k>> \in R
      PROVE  <<i, k>> \in R
  <2>1. obs[i].market < obs[j].market /\ obs[j].market < obs[k].market
    BY <1>5, <1>8
  <2>2. obs[i].market \in Int /\ obs[j].market \in Int /\ obs[k].market \in Int
    BY <1>3
  <2>3. obs[i].market < obs[k].market
    BY <2>1, <2>2
  <2> QED BY <1>5, <2>3
<1>9. \A i, j \in 1..n : i < j => <<i, j>> \in R
  BY <1>2, <1>7, <1>8, Neighbours
<1>10. ASSUME NEW k \in 1..n, NEW l \in 1..n, obs[k].market = obs[l].market PROVE k = l
  <2>1. ~(obs[k].market < obs[l].market) /\ ~(obs[l].market < obs[k].market)
    BY <1>3, <1>10
  <2>2. ~(k < l) /\ ~(l < k)
    BY <1>5, <1>9, <2>1
  <2> QED BY <2>2
<1> QED BY <1>2, <1>10 DEF obs

\* What validate_operations and build_validated_books have checked is what the matching
\* engine relies on.
LEMMA BooksAreValidated ==
    ASSUME BatchIn(input), ValidOrders, ConfigOK, ValidBooks(input.orderBooks),
           NEW accs \in Seq(AnAccount), Canonical(accs), DOMAIN accs = DOMAIN accounts,
           Has(accs, FeeRecipient)
    PROVE  Validated(accs, Handed)
<1> DEFINE obs == input.orderBooks
           bks == Handed
<1>1. obs \in Seq(BookEntry)
  BY DEF BatchIn
<1>2. Len(obs) \in Nat /\ DOMAIN obs = 1..Len(obs) /\ \A k \in DOMAIN obs : obs[k] \in BookEntry
  BY <1>1
<1>3. DOMAIN bks = DOMAIN obs /\ \A k \in DOMAIN obs : bks[k].market = obs[k].market
  BY DEF Handed
<1>4. Len(bks) = Len(obs)
  <2>1. bks \in [1..Len(obs) -> {bks[k] : k \in DOMAIN bks}]
    BY <1>2, <1>3 DEF Handed
  <2> HIDE DEF bks, obs
  <2> QED BY <1>2, <1>3, <2>1
<1>5. ASSUME NEW k \in DOMAIN obs
      PROVE  /\ ConfiguredMarket(bks[k].market)
             /\ Scale[Markets[bks[k].market].base] \in Nat \ {0}
             /\ ASide(bks[k].buys, bks[k].market, "buy", accs)
             /\ ASide(bks[k].sells, bks[k].market, "sell", accs)
  <2>1. obs[k].market \in DOMAIN Markets /\ ValidSide(obs[k], "buy") /\ ValidSide(obs[k], "sell")
    BY DEF ValidBooks
  <2>2. /\ ASide(Resolved(SideOf(obs[k], "buy")), obs[k].market, "buy", accs)
        /\ ASide(Resolved(SideOf(obs[k], "sell")), obs[k].market, "sell", accs)
    BY <1>2, <2>1, SideIsValidated
  <2>3. /\ bks[k].buys = Resolved(SideOf(obs[k], "buy"))
        /\ bks[k].sells = Resolved(SideOf(obs[k], "sell"))
    BY DEF Handed, SideOf
  <2> QED BY <1>3, <2>1, <2>2, <2>3 DEF ConfigOK
<1>6. \A k, l \in DOMAIN obs : obs[k].market = obs[l].market => k = l
  BY MarketsIncrease
<1>7. OneSequence(bks, "buy") /\ OneSequence(bks, "sell")
  <2>1. UniqueSequences
    BY DEF ValidOrders, UniqueSequences
  <2> QED BY <2>1, HandedSequences
<1>8. \E i \in DOMAIN accs : accs[i].id = FeeRecipient
  BY DEF Has
<1> HIDE DEF bks, obs
<1>9. Validated(accs, bks)
  BY <1>2, <1>3, <1>4, <1>5, <1>6, <1>7, <1>8 DEF Validated
<1> QED BY <1>9 DEF bks

-----------------------------------------------------------------------------
(* Applying the operations                                                 *)

\* The sweep of validated books starts with its invariant.
LEMMA MatchingStarts == MatchInit => SweepInv
BY SweepStarts

\* It does so whichever step has handed them over.
LEMMA MatchingStartsNext == MatchInit' => SweepInv'
BY MatchingStarts, PTL

\* And the terms of its orders.
LEMMA TermsStartNext == MatchInit' => TermsInv'
<1>1. MatchInit => TermsInv
  BY TermsStart
<1> QED BY <1>1, PTL

\* The books of an input are what they are at every step.
LEMMA BooksStay ==
    ASSUME input' = input
    PROVE  /\ UniqueSequences' <=> UniqueSequences
           /\ ValidBooks(input.orderBooks)' <=> ValidBooks(input.orderBooks)
           /\ Handed' = Handed
<1>1. UniqueSequences' <=> UniqueSequences
  BY DEF UniqueSequences
<1>2. ValidBooks(input.orderBooks)' <=> ValidBooks(input.orderBooks)
  <2>1. \A ob, side : ValidSide(ob, side)' <=> ValidSide(ob, side)
    BY DEF ValidSide, OrderAt
  <2> QED BY <2>1 DEF ValidBooks
<1>3. Handed' = Handed
  BY DEF Handed, Resolved, OrderAt
<1> QED BY <1>1, <1>2, <1>3

\* What apply_withdrawals and consume_nonces make of the account list.
AppliedTo(accs, new) ==
    /\ new \in Seq(AnAccount) /\ Canonical(new) /\ DOMAIN new = DOMAIN accs /\ Len(new) = Len(accs)
    /\ \A i \in DOMAIN accs :
          /\ new[i].id = accs[i].id
          /\ new[i].nonce = accs[i].nonce + Cardinality(OperationsAt(i))
    /\ \A id, x : BalanceFor(new, id, x)
          = BalanceFor(accs, id, x) - Guest!MovedBy(input.withdrawals, 1..Len(input.withdrawals), id, x)
    /\ \A x : Held(new, x) = Held(accs, x) - Total(input.withdrawals, x)

\* The withdrawals are taken from the accounts they name.
LEMMA OperationsApply ==
    ASSUME BatchIn(input), accounts \in Seq(AnAccount), Canonical(accounts), ValidWithdrawals,
           NEW mid \in Withdrawn, NEW new, new = ConsumeNonces(mid)
    PROVE  AppliedTo(accounts, new)
<1> DEFINE wds == input.withdrawals
           n == Len(wds)
<1>1. wds \in Seq(WithdrawalEntry)
  BY DEF BatchIn
<1>2. \A i \in DOMAIN wds : IsAt(accounts, wds[i].index, wds[i].account)
  BY DEF ValidWithdrawals, ValidOperation
<1>3. mid \in ApplyMoves(accounts, [i \in DOMAIN wds |-> DebitOf(wds[i])])
  BY DEF Withdrawn, DebitOf
<1>4. PaidOut(accounts, mid, wds, n)
  BY <1>1, <1>2, <1>3, WithdrawalsPay
<1>5. /\ mid \in Seq(AnAccount) /\ SamePeople(accounts, mid)
      /\ \A id, x : BalanceFor(mid, id, x)
                      = BalanceFor(accounts, id, x) - Guest!MovedBy(wds, 1..n, id, x)
      /\ \A x : Held(mid, x) = Held(accounts, x) - TotalIn(wds, 1..n, x)
  BY <1>4 DEF PaidOut
<1>6. Canonical(mid)
  BY <1>5, StaysCanonical
<1>7. /\ new \in Seq(AnAccount) /\ DOMAIN new = DOMAIN mid /\ Len(new) = Len(mid)
      /\ Canonical(new)
      /\ \A i \in DOMAIN mid :
            /\ new[i].id = mid[i].id /\ new[i].balances = mid[i].balances
            /\ new[i].nonce = mid[i].nonce + Cardinality(OperationsAt(i))
      /\ \A x : Held(new, x) = Held(mid, x)
  BY <1>5, <1>6, NoncesConsumed
<1>8. /\ DOMAIN mid = DOMAIN accounts /\ Len(mid) = Len(accounts)
      /\ \A i \in DOMAIN accounts : mid[i].id = accounts[i].id /\ mid[i].nonce = accounts[i].nonce
  BY <1>5 DEF SamePeople
<1> HIDE DEF wds, n
<1>9. ASSUME NEW id, NEW x
      PROVE  BalanceFor(new, id, x) = BalanceFor(mid, id, x)
  <2>1. CASE Has(mid, id)
    <3>1. PICK i \in DOMAIN mid : mid[i].id = id
      BY <2>1 DEF Has
    <3>2. /\ BalanceFor(mid, mid[i].id, x) = Balance(mid[i], x)
      BY <1>5, <1>6, AtItsPlace
    <3>3. i \in DOMAIN new /\ new[i].id = id
      BY <1>7, <3>1
    <3>4. BalanceFor(new, new[i].id, x) = Balance(new[i], x)
      BY <1>7, <3>3, AtItsPlace
    <3>5. Balance(new[i], x) = Balance(mid[i], x)
      BY <1>7 DEF Balance
    <3> QED BY <3>1, <3>2, <3>3, <3>4, <3>5
  <2>2. CASE ~Has(mid, id)
    <3>1. ~Has(new, id)
      BY <1>7, <2>2 DEF Has
    <3> QED BY <2>2, <3>1 DEF BalanceFor
  <2> QED BY <2>1, <2>2
<1>10. \A x : TotalIn(wds, 1..n, x) = Total(wds, x)
  BY InputTotals DEF wds, n
<1>11. \A i \in DOMAIN accounts :
          /\ new[i].id = accounts[i].id
          /\ new[i].nonce = accounts[i].nonce + Cardinality(OperationsAt(i))
  BY <1>7, <1>8
<1>12. \A id, x : BalanceFor(new, id, x)
                    = BalanceFor(accounts, id, x) - Guest!MovedBy(wds, 1..n, id, x)
  BY <1>5, <1>9
<1>13. \A x : Held(new, x) = Held(accounts, x) - Total(wds, x)
  BY <1>5, <1>7, <1>10
<1>14. DOMAIN new = DOMAIN accounts /\ Len(new) = Len(accounts)
  BY <1>7, <1>8
<1> QED BY <1>7, <1>11, <1>12, <1>13, <1>14 DEF AppliedTo, wds, n

\* Applying the operations leaves what the matching engine relies on.
LEMMA ApplyKeeps ==
    ASSUME SettleInv, ApplyOperations
    PROVE  SettleInv' /\ AppliedTo(accounts, accounts') /\ MatchInit'
<1>1. /\ stage = "apply" /\ stage' = "matching" /\ input' = input
      /\ tracker' = tracker /\ drained' = drained /\ trades' = trades
      /\ ValidBooks(input.orderBooks) /\ books' = Handed
      /\ book' = 1 /\ buyIndex' = 1 /\ sellIndex' = 1 /\ buyRemaining' = 0 /\ sellRemaining' = 0
  BY DEF ApplyOperations, Handed, StartOfBook
<1>2. PICK mid \in Withdrawn : accounts' = ConsumeNonces(mid)
  BY DEF ApplyOperations
<1>3. /\ BatchIn(input) /\ WitnessOK /\ Fits(tracker) /\ Len(drained) =< Len(input.forced)
      /\ trades = <<>> /\ ConfigOK /\ Accounted
      /\ ValidWithdrawals /\ ValidOrders /\ ValidNonces
  BY <1>1 DEF SettleInv, Before
<1>4. /\ accounts \in Seq(AnAccount) /\ Canonical(accounts) /\ Len(accounts) =< Limits.accounts
      /\ \A i \in DOMAIN accounts : accounts[i].id \in Ids /\ accounts[i].nonce \in 0..Limits.u64
  BY <1>3 DEF WitnessOK
<1> DEFINE new == accounts'
<1>5. AppliedTo(accounts, new)
  BY <1>2, <1>3, <1>4, OperationsApply
<1>6. /\ new \in Seq(AnAccount) /\ Canonical(new) /\ DOMAIN new = DOMAIN accounts
      /\ Len(new) = Len(accounts)
      /\ \A i \in DOMAIN accounts :
            /\ new[i].id = accounts[i].id
            /\ new[i].nonce = accounts[i].nonce + Cardinality(OperationsAt(i))
      /\ \A x : Held(new, x) = Held(accounts, x) - Total(input.withdrawals, x)
  BY <1>5 DEF AppliedTo
<1>7. ASSUME NEW i \in DOMAIN new
      PROVE  new[i].id \in Ids /\ new[i].nonce \in 0..Limits.u64
  <2>1. i \in DOMAIN accounts
    BY <1>6
  <2>2. accounts[i].nonce + Cardinality(OperationsAt(i)) =< Limits.u64
    BY <1>3, <2>1 DEF ValidNonces
  <2>3. Cardinality(OperationsAt(i)) \in Nat
    BY <1>3, OperationsAreFinite
  <2>4. accounts[i].id \in Ids /\ accounts[i].nonce \in 0..Limits.u64
    BY <1>4, <2>1
  <2>5. new[i].id = accounts[i].id /\ new[i].nonce = accounts[i].nonce + Cardinality(OperationsAt(i))
    BY <1>6, <2>1
  <2>6. Limits.u64 \in Nat
    BY SettlementAssumption
  <2> DEFINE a == accounts[i].nonce
             c == Cardinality(OperationsAt(i))
             u == Limits.u64
  <2>7. a + c \in 0..u
    <3>1. a \in 0..u /\ c \in Nat /\ u \in Nat /\ a + c =< u
      BY <2>2, <2>3, <2>4, <2>6
    <3> HIDE DEF a, c, u
    <3> QED BY <3>1
  <2> QED BY <2>4, <2>5, <2>7
<1>8. WitnessOK'
  BY <1>4, <1>6, <1>7 DEF WitnessOK
<1>9. Has(new, FeeRecipient)
  BY <1>3, <1>6 DEF ConfigOK, Has
<1>10. ConfigOK'
  BY <1>3, <1>9 DEF ConfigOK, Has
<1>11. Validated(new, books')
  <2>1. Validated(new, Handed)
    BY <1>1, <1>3, <1>6, <1>9, BooksAreValidated
  <2> QED BY <1>1, <2>1
<1>12. MatchInit' /\ SweepInv'
  <2>1. \E accs, bks :
           /\ accounts' = accs /\ books' = bks /\ trades' = <<>> /\ book' = 1
           /\ buyIndex' = 1 /\ sellIndex' = 1 /\ buyRemaining' = 0 /\ sellRemaining' = 0
           /\ Validated(accs, bks)
    BY <1>1, <1>3, <1>11
  <2>2. MatchInit'
    BY <1>1, <2>1 DEF MatchInit, MatchStart
  <2> QED BY <2>2, MatchingStartsNext
<1>13. BooksOK'
  <2>1. UniqueSequences
    BY <1>3 DEF UniqueSequences, ValidOrders
  <2>2. UniqueSequences' /\ ValidBooks(input.orderBooks)' /\ Handed' = Handed
    BY <1>1, <2>1, BooksStay
  <2> QED BY <1>1, <1>12, <2>2 DEF BooksOK
<1>14. Accounted'
  <2>1. ASSUME NEW x \in Assets PROVE tracker[x] = Held(new, x)
    <3>1. tracker[x] + Total(input.withdrawals, x) = Held(accounts, x)
      BY <1>1, <1>3 DEF Accounted
    <3>2. tracker[x] \in Int
      BY <1>3, ExchangeAssumption DEF Fits
    <3>3. Total(input.withdrawals, x) \in Nat
      BY <1>3, InputTotals
    <3>4. Held(new, x) = Held(accounts, x) - Total(input.withdrawals, x)
      BY <1>6
    <3>5. Held(accounts, x) \in Nat
      BY <1>4, HeldType
    <3> QED BY <3>1, <3>2, <3>3, <3>4, <3>5
  <2> QED BY <1>1, <2>1 DEF Accounted
<1>15. Fits(tracker)' /\ BatchIn(input)' /\ (Len(drained) =< Len(input.forced))'
  BY <1>1, <1>3 DEF Fits
<1> QED BY <1>1, <1>5, <1>8, <1>10, <1>12, <1>13, <1>14, <1>15 DEF SettleInv, Before

\* Matching keeps the account list one the guest would accept and what it holds.
LEMMA MatchKeeps ==
    ASSUME SettleInv, Match
    PROVE  SettleInv' /\ SamePeople(accounts, accounts')
<1>1. MatchNext /\ input' = input /\ tracker' = tracker /\ drained' = drained
  BY DEF Match
<1>2. stage = "matching" /\ stage' \in {"matching", "matched", "rejected"} /\ books' = books
  BY <1>1 DEF MatchNext, Fill, FillFails, NextBook, EndMatching
<1>3. /\ BatchIn(input) /\ WitnessOK /\ Fits(tracker) /\ Len(drained) =< Len(input.forced)
      /\ ConfigOK /\ Accounted /\ BooksOK
  BY <1>2 DEF SettleInv, Before
<1>4. SweepInv' /\ SamePeople(accounts, accounts') /\ \A x : Held(accounts', x) = Held(accounts, x)
  BY <1>1, <1>3, SweepStep DEF BooksOK
<1>5. accounts' \in Seq(AnAccount) /\ Canonical(accounts')
  BY <1>4 DEF SweepInv, Validated
<1>6. /\ DOMAIN accounts' = DOMAIN accounts /\ Len(accounts') = Len(accounts)
      /\ \A i \in DOMAIN accounts :
            accounts'[i].id = accounts[i].id /\ accounts'[i].nonce = accounts[i].nonce
  BY <1>4 DEF SamePeople
<1>7. WitnessOK'
  BY <1>3, <1>5, <1>6 DEF WitnessOK
<1>8. ConfigOK'
  BY <1>3, <1>6 DEF ConfigOK, Has
<1>9. Accounted'
  BY <1>1, <1>2, <1>3, <1>4 DEF Accounted
<1>10. BooksOK' \/ stage' = "rejected"
  <2>1. UniqueSequences' /\ ValidBooks(input.orderBooks)' /\ Handed' = Handed
    BY <1>1, <1>3, BooksStay DEF BooksOK
  <2>2. books' = Handed'
    BY <1>2, <1>3, <2>1 DEF BooksOK
  <2>3. stage' = "matched" => (book \notin DOMAIN books)'
    BY <1>4 DEF SweepInv
  <2> QED BY <1>2, <1>4, <2>1, <2>2, <2>3 DEF BooksOK
<1>11. Fits(tracker)' /\ BatchIn(input)' /\ (Len(drained) =< Len(input.forced))'
  BY <1>1, <1>3 DEF Fits
<1> QED BY <1>2, <1>4, <1>7, <1>8, <1>9, <1>10, <1>11 DEF SettleInv, Before

\* The end of a batch, or no step, leaves what the guest has established.
LEMMA NothingMoved ==
    ASSUME SettleInv, UNCHANGED <<accounts, books, sweep, trades, input, tracker, drained>>,
           stage' = stage \/ (stage = "matched" /\ stage' = "settled")
    PROVE  SettleInv'
<1>1. /\ accounts' = accounts /\ books' = books /\ trades' = trades /\ input' = input
      /\ tracker' = tracker /\ drained' = drained /\ book' = book
      /\ buyIndex' = buyIndex /\ sellIndex' = sellIndex
      /\ buyRemaining' = buyRemaining /\ sellRemaining' = sellRemaining
  BY DEF sweep
<1>2. WitnessOK' /\ Fits(tracker)' /\ BatchIn(input)' /\ (Len(drained) =< Len(input.forced))'
  BY <1>1 DEF SettleInv, WitnessOK, Fits
<1>3. ConfigOK <=> ConfigOK'
  BY <1>1 DEF ConfigOK
<1>4. Accounted'
  BY <1>1 DEF SettleInv, Accounted
<1>5. stage = "apply" => (ValidWithdrawals /\ ValidOrders /\ ValidNonces)'
  <2>1. ValidWithdrawals' <=> ValidWithdrawals
    BY <1>1 DEF ValidWithdrawals
  <2>2. ValidOrders' <=> ValidOrders
    BY <1>1 DEF ValidOrders
  <2>3. Operations' = Operations
    BY <1>1 DEF Operations
  <2>4. \A i : OperationsAt(i)' = OperationsAt(i)
    BY <2>3 DEF OperationsAt
  <2>5. ValidNonces' <=> ValidNonces
    BY <1>1, <2>3, <2>4 DEF ValidNonces
  <2> QED BY <2>1, <2>2, <2>5 DEF SettleInv
<1>6. BooksOK => BooksOK'
  <2> SUFFICES ASSUME BooksOK PROVE BooksOK'
    OBVIOUS
  <2>1. UniqueSequences' /\ ValidBooks(input.orderBooks)' /\ Handed' = Handed
    BY <1>1, BooksStay DEF BooksOK
  <2>2. SweepInv'
    BY <1>1 DEF BooksOK, SweepInv
  <2> QED BY <1>1, <2>1, <2>2 DEF BooksOK
<1>7. trades = <<>> => trades' = <<>>
  BY <1>1
<1>8. drained = <<>> => drained' = <<>>
  BY <1>1
<1> QED BY <1>2, <1>3, <1>4, <1>5, <1>6, <1>7, <1>8 DEF SettleInv, Before

\* Every step of the guest keeps its invariant.
LEMMA SettleStep == SettleInv /\ [SettleNext]_settleVars => SettleInv'
<1> SUFFICES ASSUME SettleInv, [SettleNext]_settleVars PROVE SettleInv'
  OBVIOUS
<1>1. CASE Validate
  BY <1>1, ValidateKeeps
<1>2. CASE ApplyDeposits
  BY <1>2, DepositsKeep
<1>3. CASE ApplyForced
  BY <1>3, ForcedKeeps
<1>4. CASE ValidateOperations
  BY <1>4, OperationsKeep
<1>5. CASE ApplyOperations
  BY <1>5, ApplyKeeps
<1>6. CASE Match
  BY <1>6, MatchKeeps
<1>7. CASE Conclude
  BY <1>7, NothingMoved DEF Conclude
<1>8. CASE InvalidInput \/ DepositsFail \/ ForcedFail \/ InvalidOperations \/ ApplyFails
           \/ CannotConclude
  BY <1>8, RejectKeeps
     DEF InvalidInput, DepositsFail, ForcedFail, InvalidOperations, ApplyFails, CannotConclude
<1>9. CASE UNCHANGED settleVars
  BY <1>9, NothingMoved DEF settleVars, matchVars
<1> QED BY <1>1, <1>2, <1>3, <1>4, <1>5, <1>6, <1>7, <1>8, <1>9 DEF SettleNext

\* What the guest has established holds of every state of settle_batch.
THEOREM SettleHolds == SettleSpec => []SettleInv
BY SettleStarts, SettleStep, PTL DEF SettleSpec

-----------------------------------------------------------------------------
(* What the invariant says of a batch                                      *)

\* subtract_accounts never finds the tracker out of balance: what the guest has counted
\* is what the accounts hold (mod.rs:88-97, 113-116).
THEOREM ConservationHolds == SettleSpec => []ConservationNeverTrips
<1>1. SettleInv => ConservationNeverTrips
  BY DEF SettleInv, Accounted, ConservationNeverTrips, Balanced
<1> QED BY SettleHolds, <1>1, PTL

\* The account list is one the guest would accept as a witness at every step, whatever the
\* host passes, and no balance, nonce or total leaves its type (deposits.rs:3-17).
THEOREM SettlementTypes == SettleSpec => []SettlementTypeOK
<1>1. SettleInv => SettlementTypeOK
  <2> SUFFICES ASSUME SettleInv PROVE SettlementTypeOK
    OBVIOUS
  <2>1. stage \in Stages
    BY DEF SettleInv, Before, Stages
  <2>2. /\ accounts \in Seq(AnAccount) /\ Canonical(accounts) /\ Len(accounts) =< Limits.accounts
        /\ \A i \in DOMAIN accounts : accounts[i].id \in Ids /\ accounts[i].nonce \in 0..Limits.u64
    BY DEF SettleInv, WitnessOK
  <2>3. \A i \in DOMAIN accounts : \A x \in Assets : Balance(accounts[i], x) \in 0..MaxAmount
    BY <2>2, BalanceType
  <2>4. Fits(tracker) /\ Len(drained) =< Len(input.forced)
    BY DEF SettleInv
  <2> QED BY <2>1, <2>2, <2>3, <2>4 DEF SettlementTypeOK
<1> QED BY SettleHolds, <1>1, PTL

\* Every order of the batch stands in a book of its market, on its side.
LEMMA OrdersAreListed ==
    ASSUME BooksOK, NEW i \in DOMAIN input.orders
    PROVE  OrderAt(i) \in OrdersOf(books, OrderAt(i).side)
<1> DEFINE obs == input.orderBooks
<1>1. PICK p \in Places(obs) : IndexAt(obs, p) = i
  BY DEF BooksOK, ValidBooks
<1>2. PICK k \in DOMAIN obs, side \in {"buy", "sell"} :
         \E j \in DOMAIN SideOf(obs[k], side) : p = <<k, side, j>>
  BY PlacesAre
<1>3. PICK j \in DOMAIN SideOf(obs[k], side) : p = <<k, side, j>>
  BY <1>2
<1>4. SideOf(obs[k], side)[j] = i
  BY <1>1, <1>3 DEF IndexAt
<1>5. OrderAt(i).side = side
  <2>1. ValidSide(obs[k], side)
    BY DEF BooksOK, ValidBooks
  <2> QED BY <1>4, <2>1 DEF ValidSide
<1>6. /\ k \in DOMAIN books /\ j \in DOMAIN SideOf(books[k], side)
      /\ SideOf(books[k], side)[j] = OrderAt(i)
  <2>1. books = Handed /\ DOMAIN Handed = DOMAIN obs
    BY DEF BooksOK, Handed
  <2>2. /\ DOMAIN SideOf(Handed[k], side) = DOMAIN SideOf(obs[k], side)
        /\ \A h \in DOMAIN SideOf(obs[k], side) :
              SideOf(Handed[k], side)[h] = OrderAt(SideOf(obs[k], side)[h])
    BY HandedSide
  <2> QED BY <1>4, <2>1, <2>2
<1>7. OrderAt(i) \in ToSet(SideOf(books[k], side))
  BY <1>6 DEF ToSet
<1>8. OrderAt(i) \in OrdersOf(books, side)
  BY <1>6, <1>7 DEF OrdersOf
<1> QED BY <1>5, <1>8

\* The host cannot keep an order from trading: in an accepted batch two signed orders that
\* cross are not both left unfilled, whichever books it built (validation.rs:318-368).
THEOREM NobodyIsLeftOut == SettleSpec => []NoOrderLeftOut
<1>1. SettleInv => NoOrderLeftOut
  <2> SUFFICES ASSUME SettleInv, stage = "settled",
                      NEW i \in DOMAIN input.orders, NEW j \in DOMAIN input.orders,
                      OrderAt(i).market = OrderAt(j).market, OrderAt(i).side = "buy",
                      OrderAt(j).side = "sell", OrderAt(i).price >= OrderAt(j).price
               PROVE  \/ Filled(OrderAt(i)) = OrderAt(i).quantity
                      \/ Filled(OrderAt(j)) = OrderAt(j).quantity
    BY DEF NoOrderLeftOut
  <2>1. BooksOK /\ SweepInv /\ book \notin DOMAIN books
    BY DEF SettleInv, BooksOK
  <2>2. OrderAt(i) \in OrdersOf(books, "buy") /\ OrderAt(j) \in OrdersOf(books, "sell")
    BY <2>1, OrdersAreListed
  <2> QED BY <2>1, <2>2, SweptIsMaximal
<1> QED BY SettleHolds, <1>1, PTL

-----------------------------------------------------------------------------
(* What a batch has done to the ledger so far                              *)

OpsOf(in) == in.orders \o in.withdrawals

\* The operations of somebody.
OwnOps(in, id) == {k \in DOMAIN OpsOf(in) : OwnedBy(OpsOf(in)[k], id)}

\* What somebody owns once the deposits are in.
Owned(in, id, x) ==
    BalanceFor(in.accounts, id, x) + Guest!MovedBy(in.deposits, 1..Len(in.deposits), id, x)

\* The list is of the people of the witness and of those the deposits name.
Joined(in, accs) ==
    \A id : Has(accs, id) <=> \/ Has(in.accounts, id)
                              \/ \E i \in 1..Len(in.deposits) : in.deposits[i].account = id

NoncesKept(in, accs) == \A id : NonceFor(accs, id) = NonceFor(in.accounts, id)

\* Everybody's operations have used the next nonces, each once.
NoncesUsed(in, accs) ==
    \A id :
        /\ {OpsOf(in)[k].nonce : k \in OwnOps(in, id)}
              = NonceFor(in.accounts, id)..(NonceFor(accs, id) - 1)
        /\ NonceFor(accs, id) = NonceFor(in.accounts, id) + Cardinality(OwnOps(in, id))
        /\ OwnOps(in, id) # {} => Has(accs, id)

DepositsIn(in, accs) == \A id, x : BalanceFor(accs, id, x) = Owned(in, id, x)

\* What the requests drained before one, and all of them, have left of somebody's balance.
LeftBefore(in, taken, i, id, x) == Owned(in, id, x) - Guest!MovedBy(taken, 1..(i - 1), id, x)
LeftAfter(in, taken, id, x) == Owned(in, id, x) - Guest!MovedBy(taken, 1..Len(taken), id, x)

\* Everybody the list will have once the deposits are in, and the index a request needs to
\* find its account there, if it is there at all.
People(in) ==
    {id \in Ids : Has(in.accounts, id) \/ \E i \in 1..Len(in.deposits) : in.deposits[i].account = id}
RightlyIndexed(in, r) ==
    r.account \in People(in) => r.index = Cardinality({id \in People(in) : id < r.account}) + 1

\* Every request has drained its account in turn, or nothing if its index is wrong.
DrainedInTurn(in, taken) ==
    /\ Len(taken) = Len(in.forced) /\ IsList(taken)
    /\ \A i \in 1..Len(in.forced) :
          LET r == in.forced[i]
          IN  /\ taken[i].account = r.account /\ taken[i].asset = r.asset
              /\ taken[i].amount \in Nat
              /\ taken[i].amount \in
                    {0, Lesser(r.amount, LeftBefore(in, taken, i, r.account, r.asset))}
              /\ RightlyIndexed(in, r) =>
                    taken[i].amount = Lesser(r.amount, LeftBefore(in, taken, i, r.account, r.asset))

RequestsOut(in, accs, taken) ==
    \A id, x : BalanceFor(accs, id, x) = LeftAfter(in, taken, id, x)

\* The withdrawals of somebody never exceed what the deposits and requests have left.
WithdrawalsFit(in, accs, taken) ==
    /\ \A id, x : Guest!MovedBy(in.withdrawals, 1..Len(in.withdrawals), id, x)
                    =< LeftAfter(in, taken, id, x)
    /\ \A i \in DOMAIN in.withdrawals : Has(accs, in.withdrawals[i].account)

\* What the tracker has been given and what has been taken from it.
TrackedFrom(in, tr, taken) ==
    \A x \in Assets :
        tr[x] + Total(in.withdrawals, x) + Total(taken, x)
            = Held(in.accounts, x) + Total(in.deposits, x)

\* The witness and the deposits have been validated.
InputOK ==
    /\ input.accounts \in Seq(AnAccount) /\ Canonical(input.accounts)
    /\ ValidDeposits /\ RootMatches

PayoutsOK ==
    \A i \in DOMAIN input.withdrawals :
        input.withdrawals[i].amount # 0 /\ input.withdrawals[i].asset \in Configured

\* The inductive invariant of the history, stage by stage.
LedgerInv ==
    /\ stage \notin {"validate", "rejected"} => InputOK /\ TrackedFrom(input, tracker, drained)
    /\ stage = "deposits" => accounts = input.accounts
    /\ stage \in {"forced", "operations", "apply", "matching", "matched", "settled"} =>
          Joined(input, accounts)
    /\ stage \in {"forced", "operations", "apply"} => NoncesKept(input, accounts)
    /\ stage = "forced" => DepositsIn(input, accounts)
    /\ stage \in {"operations", "apply", "matching", "matched", "settled"} =>
          DrainedInTurn(input, drained)
    /\ stage \in {"operations", "apply"} => RequestsOut(input, accounts, drained)
    /\ stage \in {"matching", "matched", "settled"} =>
          PayoutsOK /\ NoncesUsed(input, accounts) /\ WithdrawalsFit(input, accounts, drained)
    /\ stage = "settled" => output = Outputs /\ Provable(accounts, input)

\* Before the first step there is no history.
LEMMA LedgerStarts == SettleInit => LedgerInv
BY DEF SettleInit, LedgerInv

\* Nothing is known of a rejected batch.
LEMMA LedgerRejected ==
    ASSUME Reject
    PROVE  LedgerInv'
BY DEF Reject, LedgerInv

\* What has been validated stays valid.
LEMMA InputStays ==
    ASSUME input' = input
    PROVE  (InputOK <=> InputOK') /\ (PayoutsOK <=> PayoutsOK')
<1>1. ValidDeposits <=> ValidDeposits'
  BY DEF ValidDeposits
<1>2. RootMatches <=> RootMatches'
  BY DEF RootMatches
<1> QED BY <1>1, <1>2 DEF InputOK, PayoutsOK

\* A list of no entry adds up to nothing.
LEMMA NoEntries ==
    ASSUME NEW x
    PROVE  Total(<<>>, x) = 0
<1>1. <<>> \in Seq({}) /\ Len(<<>>) = 0 /\ \A i \in DOMAIN <<>> : <<>>[i].amount \in Nat
  OBVIOUS
<1>2. Total(<<>>, x) = TotalIn(<<>>, 1..0, x)
  BY <1>1, EntriesTotal
<1> QED BY <1>2, NothingMoves

\* Validation starts the history with the witness and the tracker with its baseline.
LEMMA LedgerValidates ==
    ASSUME SettleInv, Validate
    PROVE  LedgerInv'
<1>1. /\ stage = "validate" /\ stage' = "deposits" /\ input' = input /\ accounts' = input.accounts
      /\ tracker' = Remaining(Baseline, input.withdrawals) /\ drained' = drained
      /\ Canonical(input.accounts) /\ ValidDeposits /\ RootMatches
  BY DEF Validate, ValidInput
<1>2. BatchIn(input) /\ drained = <<>>
  BY <1>1 DEF SettleInv
<1>3. input.accounts \in Seq(AnAccount)
  BY <1>1, <1>2, DecodedAccounts DEF BatchIn
<1>4. InputOK'
  BY <1>1, <1>3, InputStays DEF InputOK
<1>5. TrackedFrom(input, tracker', drained')
  <2>1. ASSUME NEW x \in Assets
        PROVE  tracker'[x] + Total(input.withdrawals, x) + Total(drained', x)
                 = Held(input.accounts, x) + Total(input.deposits, x)
    <3>1. tracker'[x] = Baseline[x] - Total(input.withdrawals, x)
      <4>1. tracker' = Remaining(Baseline, input.withdrawals)
        BY <1>1
      <4> QED BY <4>1 DEF Remaining
    <3>2. Baseline[x] = Held(input.accounts, x) + Total(input.deposits, x)
      BY DEF Baseline
    <3>3. Held(input.accounts, x) \in Nat
      BY <1>3, HeldType
    <3>4. Total(input.deposits, x) \in Nat /\ Total(input.withdrawals, x) \in Nat
      BY <1>2, InputTotals
    <3>5. Total(drained', x) = 0
      BY <1>1, <1>2, NoEntries
    <3> QED BY <3>1, <3>2, <3>3, <3>4, <3>5
  <2> QED BY <2>1 DEF TrackedFrom
<1> QED BY <1>1, <1>4, <1>5 DEF LedgerInv

\* The deposits are credited to the people they name, who join the list.
LEMMA LedgerDeposits ==
    ASSUME SettleInv, LedgerInv, ApplyDeposits
    PROVE  LedgerInv'
<1>1. /\ stage = "deposits" /\ stage' = "forced" /\ input' = input
      /\ accounts' \in FoldLeft(ThenDeposit, {accounts}, input.deposits)
      /\ tracker' = tracker /\ drained' = drained
  BY DEF ApplyDeposits, WithDeposits
<1>2. BatchIn(input) /\ WitnessOK /\ InputOK /\ TrackedFrom(input, tracker, drained)
      /\ accounts = input.accounts
  BY <1>1 DEF SettleInv, LedgerInv
<1>3. /\ accounts \in Seq(AnAccount) /\ Canonical(accounts) /\ Len(accounts) =< Limits.accounts
  BY <1>2 DEF WitnessOK
<1>4. input.deposits \in Seq(QueueEntry)
  BY <1>2 DEF BatchIn
<1>5. \A i \in DOMAIN input.deposits : AnEntry(input.deposits[i]) /\ input.deposits[i].account \in Ids
  BY <1>2, InputEntries
<1>6. Credited(accounts, accounts', input.deposits, Len(input.deposits))
  BY <1>1, <1>3, <1>4, <1>5, DepositsCredit
<1>7. Joined(input, accounts') /\ NoncesKept(input, accounts') /\ DepositsIn(input, accounts')
  BY <1>2, <1>6 DEF Credited, Joined, NoncesKept, DepositsIn, Owned
<1>8. InputOK'
  BY <1>1, <1>2, InputStays
<1>9. TrackedFrom(input', tracker', drained')
  BY <1>1, <1>2
<1> QED BY <1>1, <1>7, <1>8, <1>9 DEF LedgerInv

\* A request with the right index finds its account among those of the witness and of the
\* deposits.
LEMMA RightIndexFinds ==
    ASSUME NEW accs \in Seq(AnAccount), Canonical(accs), \A i \in DOMAIN accs : accs[i].id \in Ids,
           NEW in, Joined(in, accs), NEW r \in QueueEntry, RightlyIndexed(in, r)
    PROVE  Found(accs, r)
<1>1. \A id : id \in IdsOf(accs) <=> Has(accs, id)
  BY IdsAreFinite
<1>2. IdsOf(accs) = People(in)
  BY <1>1 DEF People, Joined, IdsOf
<1>3. CASE Has(accs, r.account)
  <2>1. PICK k \in DOMAIN accs : accs[k].id = r.account
    BY <1>3 DEF Has
  <2>2. Cardinality({id \in IdsOf(accs) : id < accs[k].id}) = k - 1
    BY PlaceIsRank
  <2>3. r.account \in People(in) /\ k \in Int
    BY <1>1, <1>2, <1>3
  <2>4. r.index = Cardinality({id \in People(in) : id < r.account}) + 1
    BY <2>3 DEF RightlyIndexed
  <2>5. r.index = k
    BY <1>2, <2>1, <2>2, <2>3, <2>4
  <2> QED BY <2>1, <2>5 DEF Found, IsAt
<1> QED BY <1>3 DEF Found

\* The requests are drained in turn.
LEMMA LedgerForced ==
    ASSUME SettleInv, LedgerInv, ApplyForced
    PROVE  LedgerInv'
<1>1. /\ stage = "forced" /\ stage' = "operations" /\ input' = input
      /\ accounts' = AfterForced.accounts /\ drained' = AfterForced.drained
      /\ tracker' = Remaining(tracker, AfterForced.drained)
  BY DEF ApplyForced
<1>2. /\ BatchIn(input) /\ WitnessOK /\ InputOK /\ TrackedFrom(input, tracker, drained)
      /\ Joined(input, accounts) /\ NoncesKept(input, accounts) /\ DepositsIn(input, accounts)
      /\ drained = <<>> /\ Fits(tracker)
  BY <1>1 DEF SettleInv, LedgerInv
<1>3. accounts \in Seq(AnAccount) /\ Canonical(accounts)
  BY <1>2 DEF WitnessOK
<1>4. input.forced \in Seq(QueueEntry)
  BY <1>2 DEF BatchIn
<1> DEFINE n == Len(input.forced)
           s == AfterForced
<1>5. DrainedTo(accounts, s, input.forced, n)
  BY <1>3, <1>4, RequestsDrain DEF AfterForced
<1>6. n \in Nat
  BY <1>4
<1>7. accounts' = s.accounts /\ drained' = s.drained /\ tracker' = Remaining(tracker, s.drained)
  BY <1>1
<1> HIDE DEF s
<1> DEFINE new == accounts'
           list == drained'
<1>8. /\ new \in Seq(AnAccount) /\ SamePeople(accounts, new)
      /\ IsList(list) /\ Len(list) = n
      /\ \A i \in 1..n : TakenInTurn(accounts, input.forced, list, i)
      /\ \A id, x : BalanceFor(new, id, x)
                      = BalanceFor(accounts, id, x) - Guest!MovedBy(list, 1..n, id, x)
  BY <1>5, <1>7 DEF DrainedTo
<1>9. tracker' = Remaining(tracker, list)
  BY <1>7
<1> HIDE DEF new, list
<1>10. \A id : SaysOf(accounts, new, id)
  BY <1>3, <1>8, SamePeopleFor
<1>11. Joined(input, new) /\ NoncesKept(input, new)
  BY <1>2, <1>10 DEF SaysOf, Joined, NoncesKept
<1>12. \A id, x : BalanceFor(accounts, id, x) = Owned(input, id, x)
  BY <1>2 DEF DepositsIn
<1>13. DrainedInTurn(input, list)
  <2>1. ASSUME NEW i \in 1..n
        PROVE  LET r == input.forced[i]
               IN  /\ list[i].account = r.account /\ list[i].asset = r.asset
                   /\ list[i].amount \in Nat
                   /\ list[i].amount \in
                         {0, Lesser(r.amount, LeftBefore(input, list, i, r.account, r.asset))}
                   /\ RightlyIndexed(input, r) =>
                        list[i].amount = Lesser(r.amount, LeftBefore(input, list, i, r.account, r.asset))
    <3> DEFINE r == input.forced[i]
    <3>1. TakenInTurn(accounts, input.forced, list, i)
      BY <1>8
    <3>2. r \in QueueEntry
      BY <1>4
    <3>3. \A j \in DOMAIN accounts : accounts[j].id \in Ids
      BY <1>2 DEF WitnessOK
    <3>4. RightlyIndexed(input, r) => Found(accounts, r)
      BY <1>2, <1>3, <3>2, <3>3, RightIndexFinds
    <3>5. BalanceFor(accounts, r.account, r.asset) = Owned(input, r.account, r.asset)
      BY <1>12
    <3> QED BY <3>1, <3>4, <3>5 DEF TakenInTurn, LeftBefore
  <2> QED BY <1>8, <2>1 DEF DrainedInTurn
<1>14. RequestsOut(input, new, list)
  BY <1>8, <1>12 DEF RequestsOut, LeftAfter
<1>15. TrackedFrom(input, tracker', list)
  <2>1. ASSUME NEW x \in Assets
        PROVE  tracker'[x] + Total(input.withdrawals, x) + Total(list, x)
                 = Held(input.accounts, x) + Total(input.deposits, x)
    <3>1. tracker'[x] = tracker[x] - Total(list, x)
      BY <1>9 DEF Remaining
    <3>2. tracker[x] + Total(input.withdrawals, x) + Total(drained, x)
            = Held(input.accounts, x) + Total(input.deposits, x)
      BY <1>2 DEF TrackedFrom
    <3>3. Total(drained, x) = 0
      BY <1>2, NoEntries
    <3>4. tracker[x] \in Int
      BY <1>2, ExchangeAssumption DEF Fits
    <3>5. Total(input.withdrawals, x) \in Nat
      BY <1>2, InputTotals
    <3>6. Total(list, x) \in Nat
      <4>1. \A i \in DOMAIN list : list[i].amount \in Nat
        BY <1>8, <1>13 DEF IsList, DrainedInTurn
      <4> QED BY <1>8, <4>1, EntriesTotal DEF IsList
    <3> QED BY <3>1, <3>2, <3>3, <3>4, <3>5, <3>6
  <2> QED BY <2>1 DEF TrackedFrom
<1>16. InputOK'
  BY <1>1, <1>2, InputStays
<1> QED BY <1>1, <1>11, <1>13, <1>14, <1>15, <1>16 DEF LedgerInv, new, list

\* Validating the operations tells which payouts there will be.
LEMMA LedgerChecks ==
    ASSUME SettleInv, LedgerInv, ValidateOperations
    PROVE  LedgerInv'
<1>1. /\ stage = "operations" /\ stage' = "apply" /\ input' = input
      /\ accounts' = accounts /\ tracker' = tracker /\ drained' = drained
  BY DEF ValidateOperations
<1>2. InputOK' <=> InputOK
  BY <1>1, InputStays
<1> QED BY <1>1, <1>2 DEF LedgerInv

\* What the first entries of a list move of somebody's balance is a number.
LEMMA MovedByType ==
    ASSUME NEW S, NEW list \in Seq(S), \A i \in DOMAIN list : list[i].amount \in Nat, NEW a, NEW x,
           NEW p \in 0..Len(list)
    PROVE  Guest!MovedBy(list, 1..p, a, x) \in Nat
<1> DEFINE I == 1..p
           f == [i \in I |-> IF list[i].account = a /\ list[i].asset = x THEN list[i].amount ELSE 0]
<1>1. DOMAIN list = 1..Len(list) /\ Len(list) \in Nat
  OBVIOUS
<1>2. I \subseteq DOMAIN list
  BY <1>1
<1>3. IsFiniteSet(I) /\ \A i \in I : f[i] \in Nat
  <2>1. IsFiniteSet(I)
    <3>1. 1 \in Int /\ p \in Int
      BY <1>1
    <3> QED BY <3>1, FS_Interval
  <2>2. \A i \in I : list[i].amount \in Nat
    BY <1>2
  <2>3. \A i \in I : f[i] \in Nat
    <3> HIDE DEF I
    <3> QED BY <2>2
  <2> QED BY <2>1, <2>3
<1>4. Guest!MovedBy(list, I, a, x) = SumFunctionOnSet(f, I)
  BY GuestSums DEF Guest!MovedBy, SumFunction
<1> HIDE DEF f, I
<1>5. SumFunctionOnSet(f, I) \in Nat
  BY <1>3, SumNat
<1> QED BY <1>4, <1>5 DEF I

\* The operations attached to a place are those of the account there.
LEMMA OwnersAreThere ==
    ASSUME BatchIn(input), accounts \in Seq(AnAccount), Canonical(accounts),
           ValidWithdrawals, ValidOrders
    PROVE  /\ Operations = OpsOf(input)
           /\ \A k \in DOMAIN Operations :
                 \E i \in DOMAIN accounts :
                    /\ Operations[k].index = i
                    /\ \A id : OwnedBy(Operations[k], id) <=> accounts[i].id = id
<1>1. Operations = OpsOf(input)
  BY DEF Operations, OpsOf
<1>2. input.orders \in Seq(OrderEntry) /\ input.withdrawals \in Seq(WithdrawalEntry)
  BY DEF BatchIn
<1>3. ASSUME NEW k \in DOMAIN Operations
      PROVE  \/ \E j \in DOMAIN input.orders : Operations[k] = input.orders[j]
             \/ \E j \in DOMAIN input.withdrawals : Operations[k] = input.withdrawals[j]
  <2> DEFINE os == input.orders
             ws == input.withdrawals
             S == OrderEntry \cup WithdrawalEntry
  <2>1. os \in Seq(S) /\ ws \in Seq(S)
    BY <1>2
  <2>2. Operations = os \o ws
    BY DEF Operations
  <2> HIDE DEF os, ws, S
  <2>3. /\ Len(os) \in Nat /\ Len(ws) \in Nat /\ Len(os \o ws) = Len(os) + Len(ws)
        /\ DOMAIN os = 1..Len(os) /\ DOMAIN ws = 1..Len(ws)
        /\ DOMAIN (os \o ws) = 1..(Len(os) + Len(ws))
    BY <2>1
  <2>4. k \in 1..(Len(os) + Len(ws))
    BY <2>2, <2>3
  <2>5. CASE k =< Len(os)
    <3>1. k \in DOMAIN os /\ (os \o ws)[k] = os[k]
      BY <2>1, <2>3, <2>4, <2>5
    <3> QED BY <2>2, <3>1 DEF os
  <2>6. CASE k > Len(os)
    <3>1. k - Len(os) \in DOMAIN ws /\ (os \o ws)[k] = ws[k - Len(os)]
      BY <2>1, <2>3, <2>4, <2>6
    <3> QED BY <2>2, <3>1 DEF ws
  <2> QED BY <2>3, <2>4, <2>5, <2>6
<1>4. ASSUME NEW j \in DOMAIN input.orders
      PROVE  LET op == input.orders[j]
             IN  \E i \in DOMAIN accounts :
                    op.index = i /\ \A id : OwnedBy(op, id) <=> accounts[i].id = id
  <2> DEFINE op == input.orders[j]
  <2>1. op \in OrderEntry
    BY <1>2
  <2>2. "trader" \in DOMAIN op
    BY <2>1 DEF OrderEntry
  <2>3. op.index \in DOMAIN accounts /\ accounts[op.index].id = op.trader
    BY DEF ValidOrders, ValidOperation, IsAt
  <2> QED BY <2>2, <2>3 DEF OwnedBy
<1>5. ASSUME NEW j \in DOMAIN input.withdrawals
      PROVE  LET op == input.withdrawals[j]
             IN  \E i \in DOMAIN accounts :
                    op.index = i /\ \A id : OwnedBy(op, id) <=> accounts[i].id = id
  <2> DEFINE op == input.withdrawals[j]
  <2>1. op \in WithdrawalEntry
    BY <1>2
  <2>2. "trader" \notin DOMAIN op
    BY <2>1 DEF WithdrawalEntry
  <2>3. op.index \in DOMAIN accounts /\ accounts[op.index].id = op.account
    BY DEF ValidWithdrawals, ValidOperation, IsAt
  <2> QED BY <2>2, <2>3 DEF OwnedBy
<1>6. ASSUME NEW k \in DOMAIN Operations
      PROVE  \E i \in DOMAIN accounts :
                Operations[k].index = i /\ \A id : OwnedBy(Operations[k], id) <=> accounts[i].id = id
  <2> DEFINE Placed(op) == \E i \in DOMAIN accounts :
                op.index = i /\ \A id : OwnedBy(op, id) <=> accounts[i].id = id
  <2>1. /\ \A j \in DOMAIN input.orders : Placed(input.orders[j])
        /\ \A j \in DOMAIN input.withdrawals : Placed(input.withdrawals[j])
    BY <1>4, <1>5
  <2> HIDE DEF Placed
  <2>2. Placed(Operations[k])
    BY <1>3, <2>1
  <2> QED BY <2>2 DEF Placed
<1> QED BY <1>1, <1>6

\* Somebody's operations are the ones attached to the account, which uses their nonces.
LEMMA NoncesAreUsed ==
    ASSUME BatchIn(input), accounts \in Seq(AnAccount), Canonical(accounts),
           ValidWithdrawals, ValidOrders, ValidNonces, NoncesKept(input, accounts),
           NEW new, AppliedTo(accounts, new)
    PROVE  NoncesUsed(input, new)
<1> SUFFICES ASSUME NEW id
             PROVE  /\ {OpsOf(input)[k].nonce : k \in OwnOps(input, id)}
                          = NonceFor(input.accounts, id)..(NonceFor(new, id) - 1)
                    /\ NonceFor(new, id)
                          = NonceFor(input.accounts, id) + Cardinality(OwnOps(input, id))
                    /\ OwnOps(input, id) # {} => Has(new, id)
  BY DEF NoncesUsed
<1>1. /\ Operations = OpsOf(input)
      /\ \A k \in DOMAIN Operations :
            \E i \in DOMAIN accounts :
               /\ Operations[k].index = i
               /\ \A a : OwnedBy(Operations[k], a) <=> accounts[i].id = a
  BY OwnersAreThere
<1>2. /\ new \in Seq(AnAccount) /\ Canonical(new) /\ DOMAIN new = DOMAIN accounts
      /\ \A i \in DOMAIN accounts :
            /\ new[i].id = accounts[i].id
            /\ new[i].nonce = accounts[i].nonce + Cardinality(OperationsAt(i))
  BY DEF AppliedTo
<1>3. NonceFor(accounts, id) = NonceFor(input.accounts, id)
  BY DEF NoncesKept
<1>4. CASE Has(accounts, id)
  <2>1. PICK i \in DOMAIN accounts : accounts[i].id = id
    BY <1>4 DEF Has
  <2>2. NonceFor(accounts, id) = accounts[i].nonce
    BY <2>1, AtItsPlace
  <2>3. NonceFor(new, id) = new[i].nonce /\ Has(new, id)
    <3>1. i \in DOMAIN new /\ new[i].id = id
      BY <1>2, <2>1
    <3>2. NonceFor(new, new[i].id) = new[i].nonce /\ Has(new, new[i].id)
      BY <1>2, <3>1, AtItsPlace
    <3> QED BY <3>1, <3>2
  <2>4. \A j \in DOMAIN accounts : accounts[j].id = id <=> j = i
    BY <2>1, CanonicalIsSorted
  <2>5. \A k \in DOMAIN Operations : OwnedBy(Operations[k], id) <=> Operations[k].index = i
    BY <1>1, <2>4
  <2>6. OwnOps(input, id) = OperationsAt(i)
    BY <1>1, <2>5 DEF OwnOps, OperationsAt
  <2>7. {Operations[k].nonce : k \in OperationsAt(i)}
          = accounts[i].nonce..(accounts[i].nonce + Cardinality(OperationsAt(i)) - 1)
    BY DEF ValidNonces
  <2> DEFINE old == NonceFor(input.accounts, id)
             c == Cardinality(OwnOps(input, id))
             last == NonceFor(new, id)
             used == {OpsOf(input)[k].nonce : k \in OwnOps(input, id)}
  <2>8. last = old + c
    BY <1>2, <1>3, <2>2, <2>3, <2>6
  <2>9. used = old..(old + c - 1)
    BY <1>1, <1>3, <2>2, <2>6, <2>7
  <2>10. used = old..(last - 1)
    <3>1. old \in Nat
      BY <1>3, ForType
    <3>2. c \in Nat
      BY <2>6, OperationsAreFinite
    <3> HIDE DEF old, c, last, used
    <3>3. last - 1 = old + c - 1
      BY <2>8, <3>1, <3>2
    <3> QED BY <2>9, <3>3
  <2> QED BY <2>3, <2>8, <2>10
<1>5. CASE ~Has(accounts, id)
  <2>1. ~Has(new, id)
    BY <1>2, <1>5 DEF Has
  <2>2. NonceFor(accounts, id) = 0 /\ NonceFor(new, id) = 0
    BY <1>5, <2>1 DEF NonceFor
  <2>3. OwnOps(input, id) = {}
    BY <1>1, <1>5 DEF OwnOps, Has
  <2>4. Cardinality(OwnOps(input, id)) = 0
    BY <2>3, FS_EmptySet
  <2>5. 0..(0 - 1) = {}
    OBVIOUS
  <2> QED BY <1>3, <2>2, <2>3, <2>4, <2>5
<1> QED BY <1>4, <1>5

\* Applying the operations uses their nonces and pays what is there to be paid.
LEMMA LedgerApplies ==
    ASSUME SettleInv, LedgerInv, ApplyOperations
    PROVE  LedgerInv'
<1>1. /\ stage = "apply" /\ stage' = "matching" /\ input' = input
      /\ tracker' = tracker /\ drained' = drained
  BY DEF ApplyOperations
<1>2. /\ BatchIn(input) /\ WitnessOK /\ InputOK /\ TrackedFrom(input, tracker, drained)
      /\ Joined(input, accounts) /\ NoncesKept(input, accounts)
      /\ DrainedInTurn(input, drained) /\ RequestsOut(input, accounts, drained)
      /\ ValidWithdrawals /\ ValidOrders /\ ValidNonces
  BY <1>1 DEF SettleInv, LedgerInv
<1>3. accounts \in Seq(AnAccount) /\ Canonical(accounts)
  BY <1>2 DEF WitnessOK
<1> DEFINE new == accounts'
           wds == input.withdrawals
           n == Len(wds)
<1>4. AppliedTo(accounts, new)
  BY ApplyKeeps
<1>5. /\ new \in Seq(AnAccount) /\ DOMAIN new = DOMAIN accounts
      /\ \A i \in DOMAIN accounts : new[i].id = accounts[i].id
      /\ \A id, x : BalanceFor(new, id, x)
                      = BalanceFor(accounts, id, x) - Guest!MovedBy(wds, 1..n, id, x)
  BY <1>4 DEF AppliedTo
<1>6. \A id : Has(new, id) <=> Has(accounts, id)
  BY <1>5 DEF Has
<1>7. Joined(input, new)
  BY <1>2, <1>6 DEF Joined
<1>8. NoncesUsed(input, new)
  BY <1>2, <1>3, <1>4, NoncesAreUsed
<1>9. PayoutsOK
  BY <1>2 DEF ValidWithdrawals, PayoutsOK
<1>10. WithdrawalsFit(input, new, drained)
  <2>1. ASSUME NEW id, NEW x
        PROVE  Guest!MovedBy(wds, 1..n, id, x) =< LeftAfter(input, drained, id, x)
    <3>1. BalanceFor(new, id, x) = BalanceFor(accounts, id, x) - Guest!MovedBy(wds, 1..n, id, x)
      BY <1>5
    <3>2. BalanceFor(new, id, x) \in Nat /\ BalanceFor(accounts, id, x) \in Nat
      <4>1. BalanceFor(new, id, x) \in 0..MaxAmount /\ BalanceFor(accounts, id, x) \in 0..MaxAmount
        BY <1>3, <1>5, ForType
      <4> QED BY <4>1, ExchangeAssumption
    <3>3. BalanceFor(accounts, id, x) = LeftAfter(input, drained, id, x)
      BY <1>2 DEF RequestsOut
    <3>4. Guest!MovedBy(wds, 1..n, id, x) \in Int
      <4>1. wds \in Seq(WithdrawalEntry)
        BY <1>2 DEF BatchIn
      <4>2. \A i \in DOMAIN wds : wds[i].amount \in Nat
        BY <1>2, InputEntries
      <4>3. n \in 0..n
        BY <4>1
      <4> QED BY <4>1, <4>2, <4>3, MovedByType
    <3> QED BY <3>1, <3>2, <3>3, <3>4
  <2>2. ASSUME NEW i \in DOMAIN wds PROVE Has(new, wds[i].account)
    <3>1. IsAt(accounts, wds[i].index, wds[i].account)
      BY <1>2 DEF ValidWithdrawals, ValidOperation
    <3> QED BY <1>6, <3>1 DEF IsAt, Has
  <2> QED BY <2>1, <2>2 DEF WithdrawalsFit
<1>11. InputOK' /\ PayoutsOK'
  BY <1>1, <1>2, <1>9, InputStays
<1> QED BY <1>1, <1>2, <1>7, <1>8, <1>10, <1>11 DEF LedgerInv

\* Trades move balances between the people of the list and nothing else.
LEMMA LedgerMatches ==
    ASSUME SettleInv, LedgerInv, Match
    PROVE  LedgerInv'
<1>1. MatchNext /\ input' = input /\ tracker' = tracker /\ drained' = drained
  BY DEF Match
<1>2. stage = "matching" /\ stage' \in {"matching", "matched", "rejected"}
  BY <1>1 DEF MatchNext, Fill, FillFails, NextBook, EndMatching
<1>3. /\ InputOK /\ TrackedFrom(input, tracker, drained) /\ DrainedInTurn(input, drained)
      /\ Joined(input, accounts) /\ NoncesUsed(input, accounts)
      /\ PayoutsOK /\ WithdrawalsFit(input, accounts, drained)
  BY <1>2 DEF LedgerInv
<1> DEFINE new == accounts'
<1>4. SamePeople(accounts, new) /\ accounts \in Seq(AnAccount) /\ Canonical(accounts)
      /\ new \in Seq(AnAccount)
  BY MatchKeeps DEF SettleInv, WitnessOK
<1>5. ASSUME NEW id
      PROVE  (Has(new, id) <=> Has(accounts, id)) /\ NonceFor(new, id) = NonceFor(accounts, id)
  <2>1. SaysOf(accounts, new, id)
    BY <1>4, SamePeopleFor
  <2> QED BY <2>1 DEF SaysOf
<1> HIDE DEF new
<1>6. Joined(input, new)
  BY <1>3, <1>5 DEF Joined
<1>7. NoncesUsed(input, new)
  BY <1>3, <1>5 DEF NoncesUsed
<1>8. WithdrawalsFit(input, new, drained)
  BY <1>3, <1>5 DEF WithdrawalsFit
<1>9. InputOK' /\ PayoutsOK'
  BY <1>1, <1>3, InputStays
<1> QED BY <1>1, <1>2, <1>3, <1>6, <1>7, <1>8, <1>9 DEF LedgerInv, new

\* The batch ends with its outputs, or a step changes nothing.
LEMMA LedgerEnds ==
    ASSUME LedgerInv, Conclude \/ UNCHANGED settleVars
    PROVE  LedgerInv'
<1>1. CASE Conclude
  <2>1. /\ stage = "matched" /\ stage' = "settled" /\ input' = input /\ accounts' = accounts
        /\ trades' = trades /\ tracker' = tracker /\ drained' = drained
        /\ output' = Outputs /\ Provable(accounts, input)
    BY <1>1 DEF Conclude
  <2>2. InputOK' /\ PayoutsOK'
    BY <2>1, InputStays DEF LedgerInv
  <2>3. Outputs' = Outputs
    BY <2>1 DEF Outputs
  <2> QED BY <2>1, <2>2, <2>3 DEF LedgerInv
<1>2. CASE UNCHANGED settleVars
  <2>1. /\ stage' = stage /\ input' = input /\ accounts' = accounts /\ trades' = trades
        /\ tracker' = tracker /\ drained' = drained /\ output' = output
    BY <1>2 DEF settleVars, matchVars
  <2>2. (InputOK' <=> InputOK) /\ (PayoutsOK' <=> PayoutsOK)
    BY <2>1, InputStays
  <2>3. Outputs' = Outputs
    BY <2>1 DEF Outputs
  <2> QED BY <2>1, <2>2, <2>3 DEF LedgerInv
<1> QED BY <1>1, <1>2

\* Every step keeps the history.
LEMMA LedgerStep == SettleInv /\ LedgerInv /\ [SettleNext]_settleVars => LedgerInv'
<1> SUFFICES ASSUME SettleInv, LedgerInv, [SettleNext]_settleVars PROVE LedgerInv'
  OBVIOUS
<1>1. CASE Validate
  BY <1>1, LedgerValidates
<1>2. CASE ApplyDeposits
  BY <1>2, LedgerDeposits
<1>3. CASE ApplyForced
  BY <1>3, LedgerForced
<1>4. CASE ValidateOperations
  BY <1>4, LedgerChecks
<1>5. CASE ApplyOperations
  BY <1>5, LedgerApplies
<1>6. CASE Match
  BY <1>6, LedgerMatches
<1>7. CASE Conclude \/ UNCHANGED settleVars
  BY <1>7, LedgerEnds
<1>8. CASE InvalidInput \/ DepositsFail \/ ForcedFail \/ InvalidOperations \/ ApplyFails
           \/ CannotConclude
  BY <1>8, LedgerRejected
     DEF InvalidInput, DepositsFail, ForcedFail, InvalidOperations, ApplyFails, CannotConclude
<1> QED BY <1>1, <1>2, <1>3, <1>4, <1>5, <1>6, <1>7, <1>8 DEF SettleNext

\* The history holds of every state of settle_batch.
THEOREM LedgerHolds == SettleSpec => [](SettleInv /\ LedgerInv)
<1>1. SettleInv /\ LedgerInv /\ [SettleNext]_settleVars => (SettleInv /\ LedgerInv)'
  BY SettleStep, LedgerStep
<1>2. SettleInit => SettleInv /\ LedgerInv
  BY SettleStarts, LedgerStarts
<1> QED BY <1>1, <1>2, PTL DEF SettleSpec

-----------------------------------------------------------------------------
(* What the two roots of a batch commit to                                 *)

\* The side nodes commit to accounts.
LEMMA RestIsAccounts ==
    ASSUME BatchIn(input), NEW id \in DOMAIN input.rest, NEW x
    PROVE  Balance(input.rest[id], x) \in Nat /\ input.rest[id].nonce \in Nat
<1> DEFINE a == input.rest[id]
           b == a.balances
<1>1. a \in RawAccount
  BY DEF BatchIn
<1>2. a.nonce \in 0..Limits.u64 /\ b \in UNION {[held -> 0..MaxAmount] : held \in SUBSET Assets}
  BY <1>1 DEF RawAccount
<1>3. b \in [DOMAIN b -> 0..MaxAmount]
  BY <1>2
<1>4. \A k \in 0..Limits.u64 : k \in Nat
  BY SettlementAssumption
<1>5. a.nonce \in Nat
  BY <1>2, <1>4
<1>6. Balance(a, x) \in Nat
  <2>1. CASE x \in DOMAIN b
    <3>1. b[x] \in 0..MaxAmount
      BY <1>3, <2>1
    <3> QED BY <2>1, <3>1, ExchangeAssumption DEF Balance
  <2>2. CASE x \notin DOMAIN b
    BY <2>2 DEF Balance
  <2> QED BY <2>1, <2>2
<1> QED BY <1>5, <1>6

\* A root that the witness proves commits to the listed accounts and, apart from them, to
\* those of the side nodes.
LEMMA RootCommits ==
    ASSUME BatchIn(input), NEW accs \in Seq(AnAccount), Canonical(accs), Provable(accs, input),
           NEW id
    PROVE  LET root == Root(accs, input.rest)
           IN  /\ id \in DOMAIN root <=> Has(accs, id) \/ id \in DOMAIN input.rest
               /\ Has(accs, id) => /\ id \notin DOMAIN input.rest
                                   /\ root[id] = accs[PlaceOf(accs, id)]
                                   /\ PlaceOf(accs, id) \in DOMAIN accs
               /\ id \in DOMAIN input.rest => root[id] = input.rest[id] /\ ~Has(accs, id)
<1> DEFINE rest == input.rest
           root == Root(accs, rest)
           I == {accs[i].id : i \in DOMAIN accs}
<1>1. root = [a \in I \cup DOMAIN rest |-> IF a \in DOMAIN rest THEN rest[a]
                                           ELSE CHOOSE acc \in ToSet(accs) : acc.id = a]
  BY DEF Root
<1>2. Has(accs, id) <=> id \in I
  BY DEF Has
<1>3. I \cap DOMAIN rest = {}
  BY DEF Provable
<1>4. DOMAIN root = I \cup DOMAIN rest
  BY <1>1
<1>5. ASSUME Has(accs, id)
      PROVE  root[id] = accs[PlaceOf(accs, id)] /\ PlaceOf(accs, id) \in DOMAIN accs
  <2>1. PICK i \in DOMAIN accs : accs[i].id = id
    BY <1>5 DEF Has
  <2>2. PlaceOf(accs, id) = i
    <3>1. PlaceOf(accs, accs[i].id) = i
      BY AtItsPlace
    <3> QED BY <2>1, <3>1
  <2>3. ToSet(accs) = {accs[j] : j \in DOMAIN accs}
    BY DEF ToSet
  <2>4. \A acc \in ToSet(accs) : acc.id = id => acc = accs[i]
    BY <2>1, <2>3, CanonicalIsSorted
  <2>5. accs[i] \in ToSet(accs) /\ accs[i].id = id
    BY <2>1, <2>3
  <2>6. (CHOOSE acc \in ToSet(accs) : acc.id = id) = accs[i]
    BY <2>4, <2>5
  <2>7. root[id] = CHOOSE acc \in ToSet(accs) : acc.id = id
    BY <1>1, <1>2, <1>3, <1>5
  <2> QED BY <2>1, <2>2, <2>6, <2>7
<1>6. id \in DOMAIN rest => root[id] = rest[id]
  BY <1>1
<1> HIDE DEF root, rest, I
<1>7. /\ id \in DOMAIN root <=> Has(accs, id) \/ id \in DOMAIN rest
      /\ Has(accs, id) => id \notin DOMAIN rest
  BY <1>2, <1>3, <1>4
<1> QED BY <1>5, <1>6, <1>7 DEF root, rest

\* A batch that is accepted, with all that has been established of it.
Accepted ==
    /\ BatchIn(input) /\ InputOK /\ PayoutsOK
    /\ accounts \in Seq(AnAccount) /\ Canonical(accounts)
    /\ Joined(input, accounts) /\ NoncesUsed(input, accounts)
    /\ DrainedInTurn(input, drained) /\ WithdrawalsFit(input, accounts, drained)
    /\ TrackedFrom(input, tracker, drained) /\ \A x \in Assets : tracker[x] = Held(accounts, x)
    /\ output = Outputs /\ Provable(accounts, input)
    /\ Provable(input.accounts, input) /\ Root(input.accounts, input.rest) = input.expectedRoot

\* So is every batch that reaches the end.
LEMMA SettledIsAccepted ==
    ASSUME SettleInv, LedgerInv, stage = "settled"
    PROVE  Accepted
<1>1. BatchIn(input) /\ accounts \in Seq(AnAccount) /\ Canonical(accounts)
  BY DEF SettleInv, WitnessOK
<1>2. \A x \in Assets : tracker[x] = Held(accounts, x)
  BY DEF SettleInv, Accounted
<1>3. Provable(input.accounts, input) /\ Root(input.accounts, input.rest) = input.expectedRoot
  BY DEF LedgerInv, InputOK, RootMatches
<1> QED BY <1>1, <1>2, <1>3 DEF LedgerInv, Accepted

\* The nonces of the two roots of a batch are those of the account lists, where these list
\* somebody; the side nodes stand for everybody else, before and after.
LEMMA NoncesOfRoots ==
    ASSUME Accepted, NEW id \in DOMAIN output.newRoot
    PROVE  \/ /\ Has(accounts, id)
              /\ NonceIn(output.oldRoot, id) = NonceFor(input.accounts, id)
              /\ NonceIn(output.newRoot, id) = NonceFor(accounts, id)
           \/ /\ ~Has(accounts, id) /\ NonceIn(output.newRoot, id) \in Nat
              /\ NonceIn(output.oldRoot, id) = NonceIn(output.newRoot, id)
<1> DEFINE old == Root(input.accounts, input.rest)
           new == Root(accounts, input.rest)
<1>1. output.oldRoot = old /\ output.newRoot = new
  BY DEF Accepted, Outputs
<1>2. /\ BatchIn(input) /\ accounts \in Seq(AnAccount) /\ Canonical(accounts)
      /\ Provable(accounts, input) /\ Provable(input.accounts, input)
      /\ input.accounts \in Seq(AnAccount) /\ Canonical(input.accounts)
  BY DEF Accepted, InputOK
<1>3. /\ id \in DOMAIN new <=> Has(accounts, id) \/ id \in DOMAIN input.rest
      /\ Has(accounts, id) => /\ id \notin DOMAIN input.rest
                              /\ new[id] = accounts[PlaceOf(accounts, id)]
      /\ id \in DOMAIN input.rest => new[id] = input.rest[id] /\ ~Has(accounts, id)
  BY <1>2, RootCommits
<1>4. /\ id \in DOMAIN old <=> Has(input.accounts, id) \/ id \in DOMAIN input.rest
      /\ Has(input.accounts, id) => old[id] = input.accounts[PlaceOf(input.accounts, id)]
      /\ id \in DOMAIN input.rest => old[id] = input.rest[id]
  BY <1>2, RootCommits
<1> HIDE DEF old, new
<1>5. CASE Has(accounts, id)
  <2>1. NonceIn(new, id) = NonceFor(accounts, id)
    BY <1>3, <1>5 DEF NonceIn, NonceFor
  <2>2. NonceIn(old, id) = NonceFor(input.accounts, id)
    BY <1>3, <1>4, <1>5 DEF NonceIn, NonceFor
  <2> QED BY <1>1, <1>5, <2>1, <2>2
<1>6. CASE ~Has(accounts, id)
  <2>1. id \in DOMAIN input.rest
    BY <1>1, <1>3, <1>6
  <2>2. input.rest[id].nonce \in Nat
    BY <1>2, <2>1, RestIsAccounts
  <2>3. NonceIn(new, id) = input.rest[id].nonce /\ NonceIn(old, id) = input.rest[id].nonce
    BY <1>3, <1>4, <2>1 DEF NonceIn
  <2> QED BY <1>1, <1>6, <2>2, <2>3
<1> QED BY <1>5, <1>6

\* What has been established of the batch says which nonces it has used.
LEMMA BatchUsesNonces == SettleInv /\ LedgerInv => NoncesUsedUp
<1> SUFFICES ASSUME SettleInv, LedgerInv, stage = "settled", NEW id \in DOMAIN output.newRoot
             PROVE  LET ops == {k \in DOMAIN Operations : OwnedBy(Operations[k], id)}
                        old == NonceIn(output.oldRoot, id)
                    IN  /\ {Operations[k].nonce : k \in ops}
                              = old..(NonceIn(output.newRoot, id) - 1)
                        /\ NonceIn(output.newRoot, id) = old + Cardinality(ops)
  BY DEF NoncesUsedUp
<1>1. Accepted
  BY SettledIsAccepted
<1>2. NoncesUsed(input, accounts)
  BY <1>1 DEF Accepted
<1>3. Operations = OpsOf(input) /\ OwnOps(input, id) = {k \in DOMAIN Operations : OwnedBy(Operations[k], id)}
  BY DEF Operations, OpsOf, OwnOps
<1> DEFINE ops == OwnOps(input, id)
           old == NonceIn(output.oldRoot, id)
           new == NonceIn(output.newRoot, id)
<1>4. /\ {Operations[k].nonce : k \in ops} = old..(new - 1)
      /\ new = old + Cardinality(ops)
  <2>1. CASE Has(accounts, id) /\ old = NonceFor(input.accounts, id) /\ new = NonceFor(accounts, id)
    BY <1>2, <1>3, <2>1 DEF NoncesUsed
  <2>2. CASE ~Has(accounts, id) /\ new \in Nat /\ old = new
    <3>1. ops = {} /\ Cardinality(ops) = 0
      BY <1>2, <2>2, FS_EmptySet DEF NoncesUsed
    <3>2. {Operations[k].nonce : k \in ops} = {}
      BY <3>1
    <3> HIDE DEF old, new, ops
    <3>3. old..(new - 1) = {} /\ new = old + 0
      BY <2>2
    <3> QED BY <3>1, <3>2, <3>3
  <2> QED BY <1>1, <2>1, <2>2, NoncesOfRoots
<1> QED BY <1>3, <1>4

\* An accepted batch uses up exactly the nonces of its operations, so that no signed
\* operation is accepted twice (validation.rs:250-280, nonces.rs:4-35).
THEOREM NoReplay == SettleSpec => []NoncesUsedUp
BY LedgerHolds, BatchUsesNonces, PTL

-----------------------------------------------------------------------------
(* What the settlement contract relies on                                  *)

\* What the accounts behind the side nodes hold.
RestHeld(x) ==
    SumFunctionOnSet([id \in DOMAIN input.rest |-> Balance(input.rest[id], x)], DOMAIN input.rest)

\* The ledger a root commits to gives the listed people what the list says of them.
LEMMA LedgerSays ==
    ASSUME BatchIn(input), NEW accs \in Seq(AnAccount), Canonical(accs), Provable(accs, input),
           NEW id, NEW x \in Assets
    PROVE  LET l == Ledger(Root(accs, input.rest))
           IN  /\ id \in DOMAIN l <=> Has(accs, id) \/ id \in DOMAIN input.rest
               /\ id \in DOMAIN input.rest => /\ l[id][x] = Balance(input.rest[id], x)
                                              /\ ~Has(accs, id)
               /\ Has(accs, id) => l[id][x] = BalanceFor(accs, id, x)
               /\ id \notin DOMAIN input.rest => Guest!BalanceOf(l, id, x) = BalanceFor(accs, id, x)
<1> DEFINE root == Root(accs, input.rest)
           l == Ledger(root)
<1>1. /\ id \in DOMAIN root <=> Has(accs, id) \/ id \in DOMAIN input.rest
      /\ Has(accs, id) => root[id] = accs[PlaceOf(accs, id)]
      /\ id \in DOMAIN input.rest => root[id] = input.rest[id] /\ ~Has(accs, id)
  BY RootCommits
<1>2. DOMAIN l = DOMAIN root /\ \A a \in DOMAIN root : l[a][x] = Balance(root[a], x)
  BY DEF Ledger
<1> HIDE DEF root, l
<1>3. id \in DOMAIN l <=> Has(accs, id) \/ id \in DOMAIN input.rest
  BY <1>1, <1>2
<1>4. id \in DOMAIN input.rest => l[id][x] = Balance(input.rest[id], x) /\ ~Has(accs, id)
  BY <1>1, <1>2
<1>5. Has(accs, id) => l[id][x] = BalanceFor(accs, id, x)
  BY <1>1, <1>2 DEF BalanceFor
<1>6. ASSUME id \notin DOMAIN input.rest
      PROVE  Guest!BalanceOf(l, id, x) = BalanceFor(accs, id, x)
  <2>1. CASE Has(accs, id)
    BY <1>3, <1>5, <2>1 DEF Guest!BalanceOf
  <2>2. CASE ~Has(accs, id)
    BY <1>3, <1>6, <2>2 DEF Guest!BalanceOf, BalanceFor
  <2> QED BY <2>1, <2>2
<1> QED BY <1>3, <1>4, <1>5, <1>6 DEF root, l

\* A root commits to what the list holds and what the side nodes stand for.
LEMMA LedgerTotals ==
    ASSUME BatchIn(input), NEW accs \in Seq(AnAccount), Canonical(accs), Provable(accs, input),
           NEW x \in Assets
    PROVE  /\ Guest!TotalOf(Ledger(Root(accs, input.rest)), x) = Held(accs, x) + RestHeld(x)
           /\ RestHeld(x) \in Int
<1> DEFINE l == Ledger(Root(accs, input.rest))
           I == IdsOf(accs)
           R == DOMAIN input.rest
           f == [a \in DOMAIN l |-> l[a][x]]
           g == [id \in I |-> BalanceFor(accs, id, x)]
           h == [id \in R |-> Balance(input.rest[id], x)]
<1>1. IsFiniteSet(I) /\ (\A id : id \in I <=> Has(accs, id)) /\ IsFiniteSet(R)
  BY IdsAreFinite DEF BatchIn
<1>2. \A id : /\ id \in DOMAIN l <=> Has(accs, id) \/ id \in R
              /\ id \in R => l[id][x] = Balance(input.rest[id], x) /\ ~Has(accs, id)
              /\ Has(accs, id) => l[id][x] = BalanceFor(accs, id, x)
  BY LedgerSays
<1>3. Held(accs, x) = SumFunctionOnSet(g, I) /\ \A id \in I : g[id] \in Nat
  BY <1>1, HeldByPeople
<1>4. RestHeld(x) = SumFunctionOnSet(h, R) /\ \A id \in R : h[id] \in Nat
  BY RestIsAccounts DEF RestHeld
<1>5. Guest!TotalOf(l, x) = SumFunctionOnSet(f, DOMAIN l)
  BY GuestSums DEF Guest!TotalOf, SumFunction
<1> HIDE DEF l
<1>6. DOMAIN l = I \cup R /\ I \cap R = {}
  BY <1>1, <1>2
<1>7. (\A id \in I : f[id] = g[id]) /\ (\A id \in R : f[id] = h[id])
  BY <1>1, <1>2, <1>6
<1> HIDE DEF I, R, f, g, h
<1>8. \A id \in I \cup R : f[id] \in Int
  BY <1>3, <1>4, <1>7
<1>9. SumFunctionOnSet(f, I \cup R) = SumFunctionOnSet(f, I) + SumFunctionOnSet(f, R)
  BY <1>1, <1>6, <1>8, SumUnion
<1>10. SumFunctionOnSet(f, I) = SumFunctionOnSet(g, I)
  <2>1. \A id \in I : f[id] \in Int /\ f[id] = g[id]
    BY <1>7, <1>8
  <2> QED BY <1>1, <2>1, SumEqual
<1>11. SumFunctionOnSet(f, R) = SumFunctionOnSet(h, R)
  <2>1. \A id \in R : f[id] \in Int /\ f[id] = h[id]
    BY <1>7, <1>8
  <2> QED BY <1>1, <2>1, SumEqual
<1>12. SumFunctionOnSet(h, R) \in Int
  <2>1. \A id \in R : h[id] \in Int
    BY <1>4
  <2> QED BY <1>1, <2>1, SumInt
<1>13. Guest!TotalOf(l, x) = Held(accs, x) + RestHeld(x)
  BY <1>3, <1>4, <1>5, <1>6, <1>9, <1>10, <1>11
<1>14. RestHeld(x) \in Int
  BY <1>4, <1>12
<1> QED BY <1>13, <1>14 DEF l

\* The totals of the contract are those of the guest.
LEMMA GuestTotals ==
    ASSUME NEW list, NEW x
    PROVE  Guest!MovedTotal(list, x) = Total(list, x)
BY GuestSums DEF Guest!MovedTotal, Guest!AmountIn, Total

\* A batch moves value into and out of the ledger and creates none.
LEMMA BatchConserves ==
    ASSUME Accepted
    PROVE  Guest!Conserves(Ledger(output.oldRoot), input.deposits, output.forced,
                           output.withdrawals, Ledger(output.newRoot))
<1>1. /\ output.oldRoot = Root(input.accounts, input.rest)
      /\ output.newRoot = Root(accounts, input.rest)
      /\ output.forced = drained /\ output.withdrawals = input.withdrawals
  BY DEF Accepted, Outputs
<1>2. /\ BatchIn(input) /\ accounts \in Seq(AnAccount) /\ Canonical(accounts)
      /\ Provable(accounts, input) /\ Provable(input.accounts, input)
      /\ input.accounts \in Seq(AnAccount) /\ Canonical(input.accounts)
  BY DEF Accepted, InputOK
<1> SUFFICES ASSUME NEW x \in Assets
             PROVE  Guest!TotalOf(Ledger(output.newRoot), x) + Guest!MovedTotal(drained, x)
                       + Guest!MovedTotal(input.withdrawals, x)
                      = Guest!TotalOf(Ledger(output.oldRoot), x) + Guest!MovedTotal(input.deposits, x)
  BY <1>1 DEF Guest!Conserves
<1>3. /\ Guest!TotalOf(Ledger(output.newRoot), x) = Held(accounts, x) + RestHeld(x)
      /\ RestHeld(x) \in Int
  BY <1>1, <1>2, LedgerTotals
<1>4. Guest!TotalOf(Ledger(output.oldRoot), x) = Held(input.accounts, x) + RestHeld(x)
  BY <1>1, <1>2, LedgerTotals
<1>5. /\ tracker[x] + Total(input.withdrawals, x) + Total(drained, x)
           = Held(input.accounts, x) + Total(input.deposits, x)
      /\ tracker[x] = Held(accounts, x)
  BY DEF Accepted, TrackedFrom
<1>6. Held(accounts, x) \in Nat /\ Held(input.accounts, x) \in Nat
  BY <1>2, HeldType
<1>7. Total(input.withdrawals, x) \in Nat /\ Total(input.deposits, x) \in Nat
  BY <1>2, InputTotals
<1>8. Total(drained, x) \in Nat
  <2>1. IsList(drained) /\ \A i \in DOMAIN drained : drained[i].amount \in Nat
    BY DEF Accepted, DrainedInTurn, IsList
  <2> QED BY <2>1, EntriesTotal DEF IsList
<1>9. /\ Guest!MovedTotal(drained, x) = Total(drained, x)
      /\ Guest!MovedTotal(input.withdrawals, x) = Total(input.withdrawals, x)
      /\ Guest!MovedTotal(input.deposits, x) = Total(input.deposits, x)
  BY GuestTotals
<1> QED BY <1>3, <1>4, <1>5, <1>6, <1>7, <1>8, <1>9

\* A list without an entry for somebody moves nothing of theirs.
LEMMA NobodysEntries ==
    ASSUME NEW S, NEW list \in Seq(S), NEW a, NEW x,
           \A i \in 1..Len(list) : list[i].account # a
    PROVE  Guest!MovedBy(list, 1..Len(list), a, x) = 0
<1> DEFINE I == 1..Len(list)
           f == [i \in I |-> IF list[i].account = a /\ list[i].asset = x THEN list[i].amount ELSE 0]
<1>1. IsFiniteSet(I)
  BY FS_Interval
<1>2. \A i \in I : f[i] = 0
  OBVIOUS
<1>3. Guest!MovedBy(list, I, a, x) = SumFunctionOnSet(f, I)
  BY GuestSums DEF Guest!MovedBy, SumFunction
<1> HIDE DEF f, I
<1>4. SumFunctionOnSet(f, I) = 0
  BY <1>1, <1>2, SumZero
<1> QED BY <1>3, <1>4 DEF I

\* What the contract takes to be available to somebody is what the guest has left them.
LEMMA AvailableIsLeft ==
    ASSUME Accepted, NEW id, id \notin DOMAIN input.rest, NEW x \in Assets,
           NEW i \in 1..(Len(drained) + 1)
    PROVE  Guest!AvailableTo(Ledger(output.oldRoot), input.deposits, drained, i, id, x)
             = LeftBefore(input, drained, i, id, x)
<1>1. output.oldRoot = Root(input.accounts, input.rest)
  BY DEF Accepted, Outputs
<1>2. /\ BatchIn(input) /\ Provable(input.accounts, input)
      /\ input.accounts \in Seq(AnAccount) /\ Canonical(input.accounts)
      /\ DrainedInTurn(input, drained)
  BY DEF Accepted, InputOK
<1>3. Guest!BalanceOf(Ledger(output.oldRoot), id, x) = BalanceFor(input.accounts, id, x)
  BY <1>1, <1>2, LedgerSays
<1>4. DOMAIN input.deposits = 1..Len(input.deposits)
  BY <1>2 DEF BatchIn
<1> DEFINE held == BalanceFor(input.accounts, id, x)
           credited == Guest!MovedBy(input.deposits, 1..Len(input.deposits), id, x)
           gone == Guest!MovedBy(drained, 1..(i - 1), id, x)
<1>5. held \in Nat
  BY <1>2, ForType, ExchangeAssumption
<1>6. credited \in Nat
  <2>1. input.deposits \in Seq(QueueEntry) /\ Len(input.deposits) \in 0..Len(input.deposits)
    BY <1>2 DEF BatchIn
  <2> QED BY <1>2, <2>1, InputEntries, MovedByType
<1>7. gone \in Nat
  <2>1. drained \in Seq({drained[j] : j \in DOMAIN drained})
    BY <1>2 DEF DrainedInTurn, IsList
  <2>2. DOMAIN drained = 1..Len(drained) /\ Len(drained) \in Nat
    BY <2>1
  <2>3. \A j \in DOMAIN drained : drained[j].amount \in Nat
    BY <1>2, <2>2 DEF DrainedInTurn
  <2>4. i - 1 \in 0..Len(drained)
    BY <2>2
  <2> QED BY <2>1, <2>3, <2>4, MovedByType
<1>8. /\ Guest!AvailableTo(Ledger(output.oldRoot), input.deposits, drained, i, id, x)
           = held + (credited - gone)
      /\ LeftBefore(input, drained, i, id, x) = (held + credited) - gone
  BY <1>3, <1>4 DEF Guest!AvailableTo, LeftBefore, Owned
<1> HIDE DEF held, credited, gone
<1> QED BY <1>5, <1>6, <1>7, <1>8

\* The requests are drained as the contract expects.
LEMMA BatchDrains ==
    ASSUME Accepted
    PROVE  Guest!Drains(Ledger(output.oldRoot), input.deposits, input.forced, drained)
<1>1. /\ BatchIn(input) /\ DrainedInTurn(input, drained) /\ Joined(input, accounts)
      /\ accounts \in Seq(AnAccount) /\ Canonical(accounts) /\ Provable(accounts, input)
      /\ input.accounts \in Seq(AnAccount) /\ Canonical(input.accounts)
  BY DEF Accepted, InputOK
<1>2. /\ input.forced \in Seq(QueueEntry) /\ DOMAIN input.forced = 1..Len(input.forced)
      /\ Len(input.forced) \in Nat
  BY <1>1 DEF BatchIn
<1> SUFFICES ASSUME NEW i \in 1..Len(input.forced)
             PROVE  LET r     == input.forced[i]
                        avail == Guest!AvailableTo(Ledger(output.oldRoot), input.deposits, drained,
                                                   i, r.account, r.asset)
                    IN  /\ drained[i].account = r.account
                        /\ drained[i].asset = r.asset
                        /\ drained[i].amount \in {0, IF r.amount < avail THEN r.amount ELSE avail}
  BY <1>1, <1>2 DEF Guest!Drains, DrainedInTurn
<1> DEFINE r == input.forced[i]
           left == LeftBefore(input, drained, i, r.account, r.asset)
           avail == Guest!AvailableTo(Ledger(output.oldRoot), input.deposits, drained,
                                      i, r.account, r.asset)
<1>3. /\ drained[i].account = r.account /\ drained[i].asset = r.asset /\ drained[i].amount \in Nat
      /\ drained[i].amount \in {0, Lesser(r.amount, left)}
  BY <1>1 DEF DrainedInTurn
<1>4. r \in QueueEntry
  BY <1>2
<1>5. r.asset \in Assets /\ r.amount \in 0..MaxAmount /\ r.amount \in Nat
  <2>1. \A e \in QueueEntry : e.asset \in Assets /\ e.amount \in 0..MaxAmount
    BY DEF QueueEntry
  <2> QED BY <1>4, <2>1, ExchangeAssumption
<1>6. CASE r.account \notin DOMAIN input.rest
  <2>1. avail = left
    <3>1. i \in 1..(Len(drained) + 1)
      BY <1>1, <1>2 DEF DrainedInTurn
    <3> QED BY <1>5, <1>6, <3>1, AvailableIsLeft
  <2> HIDE DEF avail, left, r
  <2>2. drained[i].amount \in {0, IF r.amount < avail THEN r.amount ELSE avail}
    BY <1>3, <2>1 DEF Lesser
  <2> QED BY <1>3, <2>2 DEF avail, r
<1>7. CASE r.account \in DOMAIN input.rest
  <2>1. ~Has(accounts, r.account)
    <3>1. \A id : id \in DOMAIN input.rest => ~Has(accounts, id)
      BY <1>1, RootCommits
    <3> QED BY <1>7, <3>1
  <2>2. /\ ~Has(input.accounts, r.account)
        /\ \A j \in 1..Len(input.deposits) : input.deposits[j].account # r.account
    BY <1>1, <2>1 DEF Joined
  <2>3. BalanceFor(input.accounts, r.account, r.asset) = 0
    BY <2>2 DEF BalanceFor
  <2>4. Guest!MovedBy(input.deposits, 1..Len(input.deposits), r.account, r.asset) = 0
    <3>1. input.deposits \in Seq(QueueEntry)
      BY <1>1 DEF BatchIn
    <3> QED BY <2>2, <3>1, NobodysEntries
  <2>5. Guest!MovedBy(drained, 1..(i - 1), r.account, r.asset) \in Nat
    <3>1. drained \in Seq({drained[j] : j \in DOMAIN drained})
      BY <1>1 DEF DrainedInTurn, IsList
    <3>2. DOMAIN drained = 1..Len(drained) /\ Len(drained) = Len(input.forced)
      BY <1>1, <3>1 DEF DrainedInTurn
    <3>3. \A j \in DOMAIN drained : drained[j].amount \in Nat
      BY <1>1, <3>2 DEF DrainedInTurn
    <3>4. i - 1 \in 0..Len(drained)
      BY <1>2, <3>2
    <3> HIDE DEF r
    <3> QED BY <3>1, <3>3, <3>4, MovedByType
  <2> DEFINE before == Guest!MovedBy(drained, 1..(i - 1), r.account, r.asset)
             amount == drained[i].amount
  <2>6. left = 0 - before
    BY <2>3, <2>4 DEF LeftBefore, Owned
  <2>7. amount = 0
    <3>1. amount \in Nat /\ amount \in {0, Lesser(r.amount, left)} /\ before \in Nat /\ r.amount \in Nat
      BY <1>3, <1>5, <2>5
    <3> HIDE DEF amount, before, left, r
    <3> QED BY <2>6, <3>1 DEF Lesser
  <2> QED BY <1>3, <2>7
<1> QED BY <1>6, <1>7

\* The payouts are covered as the contract expects.
LEMMA BatchCovers ==
    ASSUME Accepted
    PROVE  Guest!Covers(Ledger(output.oldRoot), input.deposits, drained, input.withdrawals)
<1>1. /\ BatchIn(input) /\ Joined(input, accounts) /\ WithdrawalsFit(input, accounts, drained)
      /\ accounts \in Seq(AnAccount) /\ Canonical(accounts) /\ Provable(accounts, input)
      /\ input.accounts \in Seq(AnAccount) /\ Canonical(input.accounts)
      /\ Provable(input.accounts, input) /\ output.oldRoot = Root(input.accounts, input.rest)
      /\ DrainedInTurn(input, drained)
  BY DEF Accepted, InputOK, Outputs
<1> DEFINE wds == input.withdrawals
           old == Ledger(output.oldRoot)
<1>2. wds \in Seq(WithdrawalEntry) /\ DOMAIN wds = 1..Len(wds)
  BY <1>1 DEF BatchIn
<1> SUFFICES ASSUME NEW i \in DOMAIN wds
             PROVE  /\ wds[i].account \in DOMAIN old \cup {input.deposits[j].account : j \in DOMAIN input.deposits}
                    /\ Guest!MovedBy(wds, DOMAIN wds, wds[i].account, wds[i].asset)
                         =< Guest!AvailableTo(old, input.deposits, drained, Len(drained) + 1,
                                              wds[i].account, wds[i].asset)
  BY DEF Guest!Covers
<1> DEFINE a == wds[i].account
           x == wds[i].asset
<1>3. x \in Assets
  <2>1. \A w \in WithdrawalEntry : w.asset \in Assets
    BY DEF WithdrawalEntry
  <2> QED BY <1>2, <2>1
<1>4. Has(accounts, a)
  BY <1>1 DEF WithdrawalsFit
<1> HIDE DEF a, x, old
<1>5. a \notin DOMAIN input.rest
  BY <1>1, <1>4, RootCommits
<1>6. a \in DOMAIN old \cup {input.deposits[j].account : j \in DOMAIN input.deposits}
  <2>1. Has(input.accounts, a) \/ \E j \in 1..Len(input.deposits) : input.deposits[j].account = a
    BY <1>1, <1>4 DEF Joined
  <2>2. CASE Has(input.accounts, a)
    <3>1. a \in DOMAIN Ledger(Root(input.accounts, input.rest))
      BY <1>1, <1>3, <2>2, LedgerSays
    <3> QED BY <1>1, <3>1 DEF old
  <2>3. DOMAIN input.deposits = 1..Len(input.deposits)
    BY <1>1 DEF BatchIn
  <2> QED BY <2>1, <2>2, <2>3
<1>7. Guest!AvailableTo(old, input.deposits, drained, Len(drained) + 1, a, x)
        = LeftBefore(input, drained, Len(drained) + 1, a, x)
  <2>1. Len(drained) + 1 \in 1..(Len(drained) + 1)
    BY <1>1 DEF DrainedInTurn, BatchIn
  <2> QED BY <1>3, <1>5, <2>1, AvailableIsLeft DEF old
<1>8. LeftBefore(input, drained, Len(drained) + 1, a, x) = LeftAfter(input, drained, a, x)
  <2>1. Len(drained) \in Nat
    BY <1>1 DEF DrainedInTurn, BatchIn
  <2>2. (Len(drained) + 1) - 1 = Len(drained)
    BY <2>1
  <2> QED BY <2>2 DEF LeftBefore, LeftAfter
<1>9. Guest!MovedBy(wds, 1..Len(wds), a, x) =< LeftAfter(input, drained, a, x)
  BY <1>1 DEF WithdrawalsFit
<1> QED BY <1>2, <1>6, <1>7, <1>8, <1>9 DEF a, x

\* The index of an account in the list is the one a request needs.
LEMMA PlaceIsRightIndex ==
    ASSUME NEW accs \in Seq(AnAccount), Canonical(accs), \A i \in DOMAIN accs : accs[i].id \in Ids,
           NEW in, Joined(in, accs), NEW r, IsAt(accs, r.index, r.account)
    PROVE  RightlyIndexed(in, r)
<1>1. \A id : id \in IdsOf(accs) <=> Has(accs, id)
  BY IdsAreFinite
<1>2. IdsOf(accs) = People(in)
  BY <1>1 DEF People, Joined, IdsOf
<1>3. r.index \in DOMAIN accs /\ accs[r.index].id = r.account /\ r.index \in Int
  BY DEF IsAt
<1>4. Cardinality({id \in People(in) : id < r.account}) = r.index - 1
  BY <1>2, <1>3, PlaceIsRank
<1> QED BY <1>3, <1>4 DEF RightlyIndexed

\* A request that finds its account takes all it may.
LEMMA IndexedTakeMin ==
    ASSUME Accepted, WitnessOK, NEW i \in DOMAIN input.forced,
           IsAt(accounts, input.forced[i].index, input.forced[i].account)
    PROVE  DrainsMin(i)
<1> DEFINE r == input.forced[i]
<1>1. /\ BatchIn(input) /\ DrainedInTurn(input, drained) /\ Joined(input, accounts)
      /\ accounts \in Seq(AnAccount) /\ Canonical(accounts) /\ Provable(accounts, input)
      /\ \A k \in DOMAIN accounts : accounts[k].id \in Ids
      /\ output.forced = drained
  BY DEF Accepted, Outputs, WitnessOK
<1>2. RightlyIndexed(input, r)
  <2> HIDE DEF r
  <2>1. IsAt(accounts, r.index, r.account)
    BY DEF r
  <2> QED BY <1>1, <2>1, PlaceIsRightIndex
<1>3. r.account \notin DOMAIN input.rest
  <2>1. Has(accounts, r.account)
    BY DEF IsAt, Has
  <2>2. \A id : id \in DOMAIN input.rest => ~Has(accounts, id)
    BY <1>1, RootCommits
  <2> QED BY <2>1, <2>2
<1>4. /\ i \in 1..Len(input.forced) /\ Len(drained) = Len(input.forced)
      /\ Len(input.forced) \in Nat /\ r.asset \in Assets
  <2>1. input.forced \in Seq(QueueEntry)
    BY <1>1 DEF BatchIn
  <2>2. r \in QueueEntry
    BY <2>1
  <2>3. Len(drained) = Len(input.forced)
    BY <1>1 DEF DrainedInTurn
  <2> QED BY <2>1, <2>2, <2>3 DEF QueueEntry
<1>5. drained[i].amount = Lesser(r.amount, LeftBefore(input, drained, i, r.account, r.asset))
  BY <1>1, <1>2, <1>4 DEF DrainedInTurn
<1>6. Guest!AvailableTo(Ledger(output.oldRoot), input.deposits, drained, i, r.account, r.asset)
        = LeftBefore(input, drained, i, r.account, r.asset)
  BY <1>3, <1>4, AvailableIsLeft
<1> QED BY <1>1, <1>5, <1>6 DEF DrainsMin, Lesser

\* What has been established of the batch is what the contract relies on, and the requests
\* with their own accounts' indices are drained in full.
LEMMA BatchHonours == SettleInv /\ LedgerInv => GuestHonoursContract
<1> SUFFICES ASSUME SettleInv, LedgerInv, stage = "settled"
             PROVE  /\ Guest!Admits(Ledger(output.oldRoot), input.deposits, input.forced,
                                    output.forced, output.withdrawals, Ledger(output.newRoot))
                    /\ \A i \in DOMAIN input.forced :
                          IsAt(accounts, input.forced[i].index, input.forced[i].account)
                              => DrainsMin(i)
  BY DEF GuestHonoursContract
<1>1. Accepted
  BY SettledIsAccepted
<1>2. output.forced = drained /\ output.withdrawals = input.withdrawals
  BY <1>1 DEF Accepted, Outputs
<1>3. /\ \A i \in DOMAIN input.deposits :
            input.deposits[i].asset \in Configured /\ input.deposits[i].amount # 0
      /\ \A i \in DOMAIN input.withdrawals :
            input.withdrawals[i].asset \in Configured /\ input.withdrawals[i].amount # 0
  BY <1>1 DEF Accepted, InputOK, ValidDeposits, PayoutsOK
<1>4. DOMAIN Ledger(output.newRoot)
        = DOMAIN Ledger(output.oldRoot) \cup {input.deposits[i].account : i \in DOMAIN input.deposits}
  <2> DEFINE old == Ledger(Root(input.accounts, input.rest))
             new == Ledger(Root(accounts, input.rest))
  <2>1. output.oldRoot = Root(input.accounts, input.rest) /\ output.newRoot = Root(accounts, input.rest)
    BY <1>1 DEF Accepted, Outputs
  <2>2. DOMAIN old = {id \in DOMAIN old : TRUE} /\ \A id :
           /\ id \in DOMAIN old <=> Has(input.accounts, id) \/ id \in DOMAIN input.rest
           /\ id \in DOMAIN new <=> Has(accounts, id) \/ id \in DOMAIN input.rest
    BY <1>1, RootCommits DEF Accepted, InputOK, Ledger
  <2>3. \A id : Has(accounts, id) <=> \/ Has(input.accounts, id)
                                       \/ \E i \in 1..Len(input.deposits) : input.deposits[i].account = id
    BY <1>1 DEF Accepted, Joined
  <2>4. DOMAIN input.deposits = 1..Len(input.deposits)
    BY <1>1 DEF Accepted, BatchIn
  <2> HIDE DEF old, new
  <2>5. DOMAIN new = DOMAIN old \cup {input.deposits[i].account : i \in DOMAIN input.deposits}
    BY <2>2, <2>3, <2>4
  <2> QED BY <2>1, <2>5 DEF old, new
<1>5. Guest!Drains(Ledger(output.oldRoot), input.deposits, input.forced, output.forced)
  BY <1>1, <1>2, BatchDrains
<1>6. Guest!Covers(Ledger(output.oldRoot), input.deposits, output.forced, output.withdrawals)
  BY <1>1, <1>2, BatchCovers
<1>7. Guest!Conserves(Ledger(output.oldRoot), input.deposits, output.forced, output.withdrawals,
                      Ledger(output.newRoot))
  BY <1>1, BatchConserves
<1>8. ASSUME NEW i \in DOMAIN input.forced,
             IsAt(accounts, input.forced[i].index, input.forced[i].account)
      PROVE  DrainsMin(i)
  <2>1. WitnessOK
    BY DEF SettleInv
  <2> QED BY <1>1, <1>8, <2>1, IndexedTakeMin
<1> QED BY <1>2, <1>3, <1>4, <1>5, <1>6, <1>7, <1>8 DEF Guest!Admits

\* Whatever the host puts in a batch, an accepted one does what the settlement contract
\* relies on without seeing the ledger, and each request whose index is its account's place
\* takes all it may (mod.rs:30-141, forced_withdrawals.rs:9-21).
THEOREM ContractHonoured == SettleSpec => []GuestHonoursContract
BY LedgerHolds, BatchHonours, PTL

-----------------------------------------------------------------------------
(* What the orders of somebody have cost them                              *)

\* What a fill takes from the owner of one of its two orders.
FillCost(t, o, x) ==
    LET m == Markets[o.market]
    IN  IF o.side = "sell" THEN IF x = m.base THEN t.quantity ELSE 0
        ELSE IF x = m.quote THEN t.quote + t.fee ELSE 0

\* What all its fills have taken.
SpentOn(ts, o, x) ==
    LET m == Markets[o.market]
    IN  IF o.side = "sell" THEN IF x = m.base THEN FilledIn(ts, o) ELSE 0
        ELSE IF x = m.quote THEN QuotedIn(ts, o) + ChargedIn(ts, o) ELSE 0

Spent(os, ts, id, x) ==
    SumFunction([i \in DOMAIN os |-> IF os[i].trader = id THEN SpentOn(ts, os[i], x) ELSE 0])

\* One more trade costs the owner of an order it fills its price, and nobody else anything.
LEMMA SpentAppend ==
    ASSUME NEW ts, Traded(ts), NEW t, ATrade(t), NEW o, NEW x
    PROVE  /\ SpentOn(ts, o, x) \in Nat
           /\ FillCost(t, o, x) \in Nat
           /\ SpentOn(Append(ts, t), o, x)
                = SpentOn(ts, o, x) + (IF Fills(t, o) THEN FillCost(t, o, x) ELSE 0)
<1>1. t.quantity \in Nat /\ t.quote \in Nat /\ t.fee \in Nat
  BY DEF ATrade
<1>2. FilledIn(ts, o) \in Nat /\ QuotedIn(ts, o) \in Nat /\ ChargedIn(ts, o) \in Nat
  BY FillsType
<1> DEFINE F == FilledIn(ts, o)
           Q == QuotedIn(ts, o)
           C == ChargedIn(ts, o)
           F2 == FilledIn(Append(ts, t), o)
           Q2 == QuotedIn(Append(ts, t), o)
           C2 == ChargedIn(Append(ts, t), o)
           q == t.quantity
           u == t.quote
           c == t.fee
           m == Markets[o.market]
<1>3. IF Fills(t, o) THEN F2 = F + q /\ Q2 = Q + u /\ C2 = C + c
                     ELSE F2 = F /\ Q2 = Q /\ C2 = C
  BY <1>1, FillsAppend
<1>4. /\ SpentOn(ts, o, x) = IF o.side = "sell" THEN IF x = m.base THEN F ELSE 0
                             ELSE IF x = m.quote THEN Q + C ELSE 0
      /\ SpentOn(Append(ts, t), o, x) = IF o.side = "sell" THEN IF x = m.base THEN F2 ELSE 0
                                        ELSE IF x = m.quote THEN Q2 + C2 ELSE 0
      /\ FillCost(t, o, x) = IF o.side = "sell" THEN IF x = m.base THEN q ELSE 0
                             ELSE IF x = m.quote THEN u + c ELSE 0
  BY DEF SpentOn, FillCost
<1>5. F \in Nat /\ Q \in Nat /\ C \in Nat /\ q \in Nat /\ u \in Nat /\ c \in Nat
  BY <1>1, <1>2
<1> HIDE DEF F, Q, C, F2, Q2, C2, q, u, c, m
<1> QED BY <1>3, <1>4, <1>5

\* So a trade costs the owners of a list that holds both its orders, and no other that it
\* fills, what settle_trade takes.
LEMMA SpentGrows ==
    ASSUME NEW S, NEW os \in Seq(S), NEW ts, Traded(ts), NEW t, ATrade(t),
           NEW k \in DOMAIN os, NEW l \in DOMAIN os,
           os[k].side = "buy", os[l].side = "sell",
           os[k].market = t.market, os[l].market = t.market,
           \A i \in DOMAIN os : Fills(t, os[i]) <=> i = k \/ i = l,
           NEW id, NEW x
    PROVE  /\ Spent(os, ts, id, x) \in Nat
           /\ Spent(os, Append(ts, t), id, x)
                = Spent(os, ts, id, x) + Cost(t, os[k].trader, os[l].trader, id, x)
<1> DEFINE I == DOMAIN os
           f == [i \in I |-> IF os[i].trader = id THEN SpentOn(ts, os[i], x) ELSE 0]
           h == [i \in I |-> IF os[i].trader = id THEN SpentOn(Append(ts, t), os[i], x) ELSE 0]
           g == [i \in I |-> IF os[i].trader = id /\ Fills(t, os[i])
                             THEN FillCost(t, os[i], x) ELSE 0]
<1>1. IsFiniteSet(I)
  <2>1. I = 1..Len(os) /\ 1 \in Int /\ Len(os) \in Int
    OBVIOUS
  <2> HIDE DEF I
  <2> QED BY <2>1, FS_Interval
<1>2. ASSUME NEW i \in I
      PROVE  f[i] \in Nat /\ g[i] \in Nat /\ h[i] = f[i] + g[i]
  <2>1. /\ SpentOn(ts, os[i], x) \in Nat /\ FillCost(t, os[i], x) \in Nat
        /\ SpentOn(Append(ts, t), os[i], x)
             = SpentOn(ts, os[i], x) + (IF Fills(t, os[i]) THEN FillCost(t, os[i], x) ELSE 0)
    BY SpentAppend
  <2> QED BY <2>1
<1>3. k # l
  OBVIOUS
<1>4. \A i \in I : i # k /\ i # l => g[i] = 0
  OBVIOUS
<1>5. g[k] + g[l] = Cost(t, os[k].trader, os[l].trader, id, x)
  <2>1. Fills(t, os[k]) /\ Fills(t, os[l])
    OBVIOUS
  <2>2. /\ g[k] = IF os[k].trader = id /\ x = Markets[t.market].quote THEN t.quote + t.fee ELSE 0
        /\ g[l] = IF os[l].trader = id /\ x = Markets[t.market].base THEN t.quantity ELSE 0
    BY <2>1 DEF FillCost
  <2> HIDE DEF g
  <2> QED BY <2>2 DEF Cost
<1>6. /\ Spent(os, ts, id, x) = SumFunctionOnSet(f, I)
      /\ Spent(os, Append(ts, t), id, x) = SumFunctionOnSet(h, I)
  BY DEF Spent, SumFunction
<1> HIDE DEF f, g, h, I
<1>7. SumFunctionOnSet(h, I) = SumFunctionOnSet(f, I) + SumFunctionOnSet(g, I)
  BY <1>1, <1>2, SumPlus
<1>8. SumFunctionOnSet(f, I) \in Nat
  BY <1>1, <1>2, SumNat
<1>9. SumFunctionOnSet(g, I) = g[k] + g[l]
  <2>1. k \in I /\ l \in I
    BY DEF I
  <2> DEFINE J == I \ {k}
  <2>2. SumFunctionOnSet(g, I) = g[k] + SumFunctionOnSet(g, J)
    <3>1. \A i \in I : g[i] \in Int
      BY <1>2
    <3> QED BY <1>1, <2>1, <3>1, SumRemove
  <2>3. IsFiniteSet(J) /\ l \in J /\ \A i \in J : g[i] \in Int
    BY <1>1, <1>2, <1>3, <2>1, FS_Subset
  <2>4. \A i \in J \ {l} : g[i] = 0
    BY <1>4
  <2> HIDE DEF J
  <2>5. SumFunctionOnSet(g, J) = g[l] + SumFunctionOnSet(g, J \ {l})
    BY <2>3, SumRemove
  <2>6. IsFiniteSet(J \ {l})
    BY <2>3, FS_Subset
  <2>7. SumFunctionOnSet(g, J \ {l}) = 0
    BY <2>4, <2>6, SumZero
  <2>8. g[k] \in Int /\ g[l] \in Int
    BY <1>2, <2>1
  <2> QED BY <2>2, <2>5, <2>7, <2>8
<1> QED BY <1>5, <1>6, <1>7, <1>8, <1>9

\* Rounding down is the largest quotient that fits.
LEMMA DividesInto ==
    ASSUME NEW a \in Nat, NEW b \in Nat, NEW s \in Nat \ {0}, a * s =< b
    PROVE  a =< b \div s
<1> DEFINE q == b \div s
<1>1. q \in Nat /\ b =< q * s + (s - 1)
  BY RoundsDown
<1> HIDE DEF q
<1>2. a =< q
  <2>1. SUFFICES ASSUME a >= q + 1 PROVE FALSE
    BY <1>1
  <2>2. s * (q + 1) =< s * a
    BY <1>1, <2>1, ProductMonotone
  <2>3. (q + 1) * s = q * s + s /\ q * s \in Int
    <3>1. (q + 1) * s = q * s + 1 * s /\ q * s \in Int
      BY <1>1, ProductOfSum
    <3> QED BY <3>1
  <2>4. s * (q + 1) = (q + 1) * s /\ s * a = a * s /\ a * s \in Int
    BY <1>1
  <2> QED BY <1>1, <2>2, <2>3, <2>4
<1> QED BY <1>2 DEF q

\* What the fills of an order have taken is at most what the order commits its owner to.
LEMMA SpentWithin ==
    ASSUME NEW ts, Traded(ts), NEW o, o.side \in {"buy", "sell"}, o.price \in Nat, o.quantity \in Nat,
           Scale[Markets[o.market].base] \in Nat \ {0}, FilledIn(ts, o) =< o.quantity,
           o.side = "buy" => BuyTerms(ts, o, Scale[Markets[o.market].base]), NEW x
    PROVE  SpentOn(ts, o, x) =< Committed(o, x) /\ SpentOn(ts, o, x) \in Nat /\ Committed(o, x) \in Nat
<1> DEFINE m == Markets[o.market]
           scale == Scale[m.base]
           F == FilledIn(ts, o)
           Q == QuotedIn(ts, o)
           C == ChargedIn(ts, o)
           quote == QuoteAmount(o.quantity, o.price, m.base)
           fee == QuoteFee(quote)
<1>1. F \in Nat /\ Q \in Nat /\ C \in Nat
  BY FillsType
<1>2. BuyerFeeBps \in Nat /\ BPS \in Nat \ {0}
  BY ExchangeAssumption DEF BPS
<1>3. quote = (o.quantity * o.price) \div scale /\ fee = (quote * BuyerFeeBps) \div BPS
  BY DEF QuoteAmount, QuoteFee
<1>4. /\ SpentOn(ts, o, x) = IF o.side = "sell" THEN IF x = m.base THEN F ELSE 0
                             ELSE IF x = m.quote THEN Q + C ELSE 0
      /\ Committed(o, x) = IF o.side = "sell" THEN IF x = m.base THEN o.quantity ELSE 0
                           ELSE IF x = m.quote THEN quote + fee ELSE 0
  BY DEF SpentOn, Committed
<1>5. scale \in Nat \ {0} /\ F =< o.quantity
  OBVIOUS
<1>6. o.side = "buy" => Q * scale =< F * o.price /\ C * BPS =< Q * BuyerFeeBps
  BY DEF BuyTerms
<1> HIDE DEF m, scale, F, Q, C, quote, fee
<1>7. o.quantity * o.price \in Nat
  BY ProductNat
<1>8. quote \in Nat
  BY <1>3, <1>5, <1>7, RoundsDown
<1>9. quote * BuyerFeeBps \in Nat
  BY <1>2, <1>8, ProductNat
<1>10. fee \in Nat
  BY <1>2, <1>3, <1>9, RoundsDown
<1>11. CASE o.side = "sell"
  BY <1>1, <1>4, <1>5, <1>11
<1>12. CASE o.side = "buy"
  <2>1. Q * scale =< F * o.price /\ C * BPS =< Q * BuyerFeeBps
    BY <1>6, <1>12
  <2>2. F * o.price =< o.quantity * o.price
    <3>1. o.price * F =< o.price * o.quantity
      BY <1>1, <1>5, ProductMonotone
    <3>2. o.price * F = F * o.price /\ o.price * o.quantity = o.quantity * o.price
      BY <1>1
    <3> QED BY <3>1, <3>2
  <2>3. Q * scale \in Nat /\ F * o.price \in Nat /\ C * BPS \in Nat /\ Q * BuyerFeeBps \in Nat
    BY <1>1, <1>2, <1>5, ProductNat
  <2>4. Q * scale =< o.quantity * o.price
    BY <1>7, <2>1, <2>2, <2>3
  <2>5. Q =< quote
    BY <1>1, <1>3, <1>5, <1>7, <2>4, DividesInto
  <2>6. Q * BuyerFeeBps =< quote * BuyerFeeBps
    <3>1. BuyerFeeBps * Q =< BuyerFeeBps * quote
      BY <1>1, <1>2, <1>8, <2>5, ProductMonotone
    <3>2. BuyerFeeBps * Q = Q * BuyerFeeBps /\ BuyerFeeBps * quote = quote * BuyerFeeBps
      BY <1>1, <1>2, <1>8
    <3> QED BY <3>1, <3>2
  <2>7. C * BPS =< quote * BuyerFeeBps
    BY <1>9, <2>1, <2>3, <2>6
  <2>8. C =< fee
    BY <1>1, <1>2, <1>3, <1>9, <2>7, DividesInto
  <2> QED BY <1>1, <1>4, <1>8, <1>10, <1>12, <2>5, <2>8
<1> QED BY <1>11, <1>12

\* The orders and the withdrawals of the batch are signed, the orders by the accounts at
\* the places attached to them.
OwnersSigned ==
    /\ \A i \in DOMAIN input.orders :
          LET o == input.orders[i] IN o.signed /\ IsAt(accounts, o.index, o.trader)
    /\ \A i \in DOMAIN input.withdrawals : input.withdrawals[i].signed

\* What somebody has signed away with orders.
CommittedBy(in, id, x) ==
    SumFunction([i \in DOMAIN in.orders |->
                    IF in.orders[i].trader = id /\ in.orders[i].signed
                    THEN Committed(in.orders[i], x) ELSE 0])

\* The orders of the batch are orders of the books.
LEMMA OrdersOnTerms ==
    ASSUME BooksOK, TermsInv, BatchIn(input), NEW i \in DOMAIN input.orders, NEW x
    PROVE  /\ SpentOn(trades, input.orders[i], x) =< Committed(input.orders[i], x)
           /\ SpentOn(trades, input.orders[i], x) \in Nat
           /\ Committed(input.orders[i], x) \in Nat
<1> DEFINE o == OrderAt(i)
<1>1. SweepInv /\ TermsHonoured /\ FillsAddUp
  BY SweepAddsUp, TermsAreHonoured DEF BooksOK
<1>2. o \in OrdersOf(books, o.side)
  BY OrdersAreListed
<1>3. o.side \in {"buy", "sell"}
  <2>1. o \in OrderEntry
    BY DEF BatchIn, OrderAt
  <2> HIDE DEF o
  <2> QED BY <2>1 DEF OrderEntry
<1> HIDE DEF o
<1>4. o \in AllOrders
  BY <1>2, <1>3 DEF AllOrders
<1>5. PICK k \in DOMAIN books : o.market = books[k].market /\ o.price \in Nat /\ o.quantity \in 1..MaxAmount
  BY <1>1, <1>4, WhereAnOrderIs
<1>6. Scale[Markets[o.market].base] \in Nat \ {0}
  BY <1>1, <1>5 DEF SweepInv, Validated
<1>7. FilledIn(trades, o) =< o.quantity
  BY <1>1, <1>4, FillsAreFillsOf DEF FillsAddUp
<1>8. o.side = "buy" => BuyTerms(trades, o, Scale[Markets[o.market].base])
  <2> SUFFICES ASSUME o.side = "buy" PROVE BuyTerms(trades, o, Scale[Markets[o.market].base])
    OBVIOUS
  <2>1. o \in OrdersOf(books, "buy")
    BY <1>2
  <2>2. Charged(o) * BPS =< Quoted(o) * BuyerFeeBps
    BY <1>1, <2>1 DEF TermsHonoured, FeesBounded
  <2>3. Quoted(o) * Scale[Markets[o.market].base] =< Filled(o) * o.price
    BY <1>1, <1>4 DEF TermsHonoured, LimitsHonoured
  <2> QED BY <2>2, <2>3, FillsAreFillsOf DEF BuyTerms
<1>9. Traded(trades)
  BY <1>1 DEF SweepInv
<1>10. o.price \in Nat /\ o.quantity \in Nat
  BY <1>5, ExchangeAssumption
<1>11. /\ SpentOn(trades, o, x) =< Committed(o, x)
       /\ SpentOn(trades, o, x) \in Nat /\ Committed(o, x) \in Nat
  BY <1>3, <1>6, <1>7, <1>8, <1>9, <1>10, SpentWithin
<1> QED BY <1>11 DEF o, OrderAt

\* So nobody's orders have cost more than they signed for.
LEMMA SpentAtMost ==
    ASSUME BooksOK, TermsInv, BatchIn(input), OwnersSigned, NEW id, NEW x
    PROVE  /\ Spent(input.orders, trades, id, x) =< CommittedBy(input, id, x)
           /\ Spent(input.orders, trades, id, x) \in Nat
           /\ CommittedBy(input, id, x) \in Nat
<1> DEFINE os == input.orders
           I == DOMAIN os
           f == [i \in I |-> IF os[i].trader = id THEN SpentOn(trades, os[i], x) ELSE 0]
           g == [i \in I |-> IF os[i].trader = id /\ os[i].signed THEN Committed(os[i], x) ELSE 0]
<1>1. IsFiniteSet(I)
  <2>1. I = 1..Len(os) /\ 1 \in Int /\ Len(os) \in Int
    BY DEF BatchIn
  <2> HIDE DEF I
  <2> QED BY <2>1, FS_Interval
<1>2. ASSUME NEW i \in I
      PROVE  f[i] \in Nat /\ g[i] \in Nat /\ f[i] =< g[i]
  <2>1. /\ SpentOn(trades, os[i], x) =< Committed(os[i], x)
        /\ SpentOn(trades, os[i], x) \in Nat /\ Committed(os[i], x) \in Nat
    BY OrdersOnTerms
  <2>2. os[i].signed
    BY DEF OwnersSigned
  <2> QED BY <2>1, <2>2
<1>3. /\ Spent(os, trades, id, x) = SumFunctionOnSet(f, I)
      /\ CommittedBy(input, id, x) = SumFunctionOnSet(g, I)
  BY DEF Spent, CommittedBy, SumFunction
<1> HIDE DEF f, g, I
<1>4. SumFunctionOnSet(f, I) =< SumFunctionOnSet(g, I)
  BY <1>1, <1>2, SumAtMost
<1>5. SumFunctionOnSet(f, I) \in Nat /\ SumFunctionOnSet(g, I) \in Nat
  BY <1>1, <1>2, SumNat
<1> QED BY <1>3, <1>4, <1>5

\* Up to the trades so far nobody has lost more than their withdrawals and fills take.
WithinFills(in, accs, ts, taken) ==
    \A id, x : BalanceFor(accs, id, x)
                 + (Spent(in.orders, ts, id, x)
                    + Guest!MovedBy(in.withdrawals, 1..Len(in.withdrawals), id, x))
               >= LeftAfter(in, taken, id, x)

\* The inductive invariant of the losses, which starts with the operations.
LossInv ==
    stage \in {"matching", "matched", "settled"} =>
        TermsInv /\ OwnersSigned /\ WithinFills(input, accounts, trades, drained)

\* What orders have cost somebody is a number.
LEMMA SpentType ==
    ASSUME NEW S, NEW os \in Seq(S), NEW ts, Traded(ts), NEW id, NEW x
    PROVE  Spent(os, ts, id, x) \in Nat
<1> DEFINE I == DOMAIN os
           f == [i \in I |-> IF os[i].trader = id THEN SpentOn(ts, os[i], x) ELSE 0]
<1>1. IsFiniteSet(I)
  <2>1. I = 1..Len(os) /\ 1 \in Int /\ Len(os) \in Int
    OBVIOUS
  <2> HIDE DEF I
  <2> QED BY <2>1, FS_Interval
<1>2. ASSUME NEW i \in I PROVE f[i] \in Nat
  <2>1. SpentOn(ts, os[i], x) \in Nat
    <3>1. /\ FilledIn(ts, os[i]) \in Nat /\ QuotedIn(ts, os[i]) \in Nat
          /\ ChargedIn(ts, os[i]) \in Nat
      BY FillsType
    <3> QED BY <3>1 DEF SpentOn
  <2> QED BY <2>1
<1>3. Spent(os, ts, id, x) = SumFunctionOnSet(f, I)
  BY DEF Spent, SumFunction
<1> HIDE DEF f, I
<1> QED BY <1>1, <1>2, <1>3, SumNat

\* What the requests have left of what somebody owns is a number.
LEMMA LeftType ==
    ASSUME BatchIn(input), InputOK, DrainedInTurn(input, drained), NEW id, NEW x
    PROVE  /\ LeftAfter(input, drained, id, x) \in Int
           /\ Guest!MovedBy(input.withdrawals, 1..Len(input.withdrawals), id, x) \in Nat
           /\ Guest!MovedBy(input.deposits, 1..Len(input.deposits), id, x) \in Nat
           /\ Guest!MovedBy(drained, 1..Len(drained), id, x) \in Nat
           /\ BalanceFor(input.accounts, id, x) \in Nat
<1>1. BalanceFor(input.accounts, id, x) \in Nat
  BY ForType, ExchangeAssumption DEF InputOK
<1>2. Guest!MovedBy(input.deposits, 1..Len(input.deposits), id, x) \in Nat
  <2>1. input.deposits \in Seq(QueueEntry) /\ Len(input.deposits) \in 0..Len(input.deposits)
    BY DEF BatchIn
  <2> QED BY <2>1, InputEntries, MovedByType
<1>3. Guest!MovedBy(input.withdrawals, 1..Len(input.withdrawals), id, x) \in Nat
  <2>1. input.withdrawals \in Seq(WithdrawalEntry)
        /\ Len(input.withdrawals) \in 0..Len(input.withdrawals)
    BY DEF BatchIn
  <2> QED BY <2>1, InputEntries, MovedByType
<1>4. Guest!MovedBy(drained, 1..Len(drained), id, x) \in Nat
  <2>1. drained \in Seq({drained[j] : j \in DOMAIN drained})
    BY DEF DrainedInTurn, IsList
  <2>2. DOMAIN drained = 1..Len(drained) /\ Len(drained) \in 0..Len(drained)
    BY <2>1
  <2>3. \A j \in DOMAIN drained : drained[j].amount \in Nat
    BY <2>2 DEF DrainedInTurn
  <2> QED BY <2>1, <2>2, <2>3, MovedByType
<1>5. LeftAfter(input, drained, id, x) \in Int
  BY <1>1, <1>2, <1>4 DEF LeftAfter, Owned
<1> QED BY <1>1, <1>2, <1>3, <1>4, <1>5

\* The withdrawals are all that has been taken when matching starts.
LEMMA LossesStart ==
    ASSUME SettleInv, LedgerInv, ApplyOperations
    PROVE  LossInv'
<1>1. /\ stage = "apply" /\ stage' = "matching" /\ input' = input
      /\ drained' = drained /\ trades' = trades
  BY DEF ApplyOperations
<1>2. /\ BatchIn(input) /\ InputOK /\ DrainedInTurn(input, drained)
      /\ RequestsOut(input, accounts, drained) /\ ValidWithdrawals /\ ValidOrders
      /\ trades = <<>>
  BY <1>1 DEF SettleInv, LedgerInv, Before
<1>3. accounts \in Seq(AnAccount) /\ Canonical(accounts)
  BY <1>1 DEF SettleInv, WitnessOK
<1> DEFINE new == accounts'
           wds == input.withdrawals
           n == Len(wds)
<1>4. AppliedTo(accounts, new) /\ MatchInit'
  BY ApplyKeeps
<1>5. /\ new \in Seq(AnAccount) /\ Canonical(new) /\ DOMAIN new = DOMAIN accounts
      /\ \A i \in DOMAIN accounts : new[i].id = accounts[i].id
      /\ \A id, x : BalanceFor(new, id, x)
                      = BalanceFor(accounts, id, x) - Guest!MovedBy(wds, 1..n, id, x)
  BY <1>4 DEF AppliedTo
<1>6. TermsInv'
  BY <1>4, TermsStartNext
<1>7. OwnersSigned'
  <2>1. ASSUME NEW i \in DOMAIN input.orders
        PROVE  LET o == input.orders[i] IN o.signed /\ IsAt(new, o.index, o.trader)
    BY <1>2, <1>5 DEF ValidOrders, ValidOperation, IsAt
  <2>2. \A i \in DOMAIN wds : wds[i].signed
    BY <1>2 DEF ValidWithdrawals, ValidOperation
  <2> QED BY <1>1, <2>1, <2>2 DEF OwnersSigned
<1> HIDE DEF new
<1>8. WithinFills(input, new, trades, drained)
  <2> SUFFICES ASSUME NEW id, NEW x
               PROVE  BalanceFor(new, id, x)
                        + (Spent(input.orders, trades, id, x) + Guest!MovedBy(wds, 1..n, id, x))
                      >= LeftAfter(input, drained, id, x)
    BY DEF WithinFills
  <2> DEFINE b == BalanceFor(new, id, x)
             old == BalanceFor(accounts, id, x)
             s == Spent(input.orders, trades, id, x)
             w == Guest!MovedBy(wds, 1..n, id, x)
             left == LeftAfter(input, drained, id, x)
  <2>1. b = old - w
    BY <1>5
  <2>2. old = left
    BY <1>2 DEF RequestsOut
  <2>3. w \in Nat /\ left \in Int
    BY <1>2, LeftType
  <2>4. s \in Nat
    <3>1. Traded(trades)
      BY <1>2, NothingTraded
    <3>2. input.orders \in Seq(OrderEntry)
      BY <1>2 DEF BatchIn
    <3> QED BY <3>1, <3>2, SpentType
  <2> HIDE DEF b, old, s, w, left
  <2>5. b + (s + w) >= left
    BY <2>1, <2>2, <2>3, <2>4
  <2> QED BY <2>5 DEF b, s, w, left
<1> QED BY <1>1, <1>6, <1>7, <1>8 DEF LossInv, new

\* The orders the sweep is at are orders of the batch, and no other order of the batch is
\* filled by their trade.
LEMMA FillsOfTheBatch ==
    ASSUME BatchIn(input), BooksOK, Crosses
    PROVE  \E k, l \in DOMAIN input.orders :
              /\ input.orders[k] = Buys[buyIndex] /\ input.orders[l] = Sells[sellIndex]
              /\ input.orders[k].side = "buy" /\ input.orders[l].side = "sell"
              /\ input.orders[k].market = NextTrade.market
              /\ input.orders[l].market = NextTrade.market
              /\ \A i \in DOMAIN input.orders :
                    Fills(NextTrade, input.orders[i]) <=> i = k \/ i = l
<1> DEFINE obs == input.orderBooks
           os == input.orders
           t == NextTrade
           k == SideOf(obs[book], "buy")[buyIndex]
           l == SideOf(obs[book], "sell")[sellIndex]
<1>1. /\ book \in DOMAIN books /\ buyIndex \in DOMAIN Buys /\ sellIndex \in DOMAIN Sells
      /\ t.buy = Buys[buyIndex].sequence /\ t.sell = Sells[sellIndex].sequence
  <2>1. SweepInv
    BY DEF BooksOK
  <2> QED BY <2>1, AtTheOrders
<1>2. books = Handed /\ DOMAIN Handed = DOMAIN obs /\ ValidBooks(obs) /\ UniqueSequences
  BY DEF BooksOK, Handed
<1>3. t.market = obs[book].market
  <2>1. t.market = books[book].market
    BY DEF NextTrade, TradeOf
  <2> QED BY <1>1, <1>2, <2>1 DEF Handed
<1>4. Buys = SideOf(Handed[book], "buy") /\ Sells = SideOf(Handed[book], "sell")
  BY <1>2 DEF Buys, Sells, SideOf
<1>5. /\ buyIndex \in DOMAIN SideOf(obs[book], "buy") /\ Buys[buyIndex] = OrderAt(k)
      /\ sellIndex \in DOMAIN SideOf(obs[book], "sell") /\ Sells[sellIndex] = OrderAt(l)
  <2>1. book \in DOMAIN obs
    BY <1>1, <1>2
  <2>2. /\ DOMAIN SideOf(Handed[book], "buy") = DOMAIN SideOf(obs[book], "buy")
        /\ \A i \in DOMAIN SideOf(obs[book], "buy") :
              SideOf(Handed[book], "buy")[i] = OrderAt(SideOf(obs[book], "buy")[i])
    BY <2>1, HandedSide
  <2>3. /\ DOMAIN SideOf(Handed[book], "sell") = DOMAIN SideOf(obs[book], "sell")
        /\ \A i \in DOMAIN SideOf(obs[book], "sell") :
              SideOf(Handed[book], "sell")[i] = OrderAt(SideOf(obs[book], "sell")[i])
    BY <2>1, HandedSide
  <2> QED BY <1>1, <1>4, <2>2, <2>3
<1>6. /\ k \in DOMAIN os /\ OrderAt(k).side = "buy" /\ OrderAt(k).market = obs[book].market
      /\ l \in DOMAIN os /\ OrderAt(l).side = "sell" /\ OrderAt(l).market = obs[book].market
  <2>1. ValidSide(obs[book], "buy") /\ ValidSide(obs[book], "sell")
    BY <1>1, <1>2 DEF ValidBooks
  <2> QED BY <1>5, <2>1 DEF ValidSide
<1> HIDE DEF k, l, t, obs
<1>7. /\ k \in DOMAIN os /\ l \in DOMAIN os
      /\ os[k] = Buys[buyIndex] /\ os[l] = Sells[sellIndex]
      /\ os[k].side = "buy" /\ os[l].side = "sell"
      /\ os[k].market = t.market /\ os[l].market = t.market
      /\ t.buy = os[k].sequence /\ t.sell = os[l].sequence
  BY <1>1, <1>3, <1>5, <1>6 DEF OrderAt
<1>8. ASSUME NEW i \in DOMAIN os
      PROVE  Fills(t, os[i]) <=> i = k \/ i = l
  <2>1. os[i].side \in {"buy", "sell"}
    <3>1. os[i] \in OrderEntry
      BY DEF BatchIn
    <3> QED BY <3>1 DEF OrderEntry
  <2>2. /\ os[i].sequence = os[k].sequence => i = k
        /\ os[i].sequence = os[l].sequence => i = l
    BY <1>2, <1>7 DEF UniqueSequences
  <2>3. CASE os[i].side = "buy"
    <3>1. i # l
      BY <1>7, <2>3
    <3>2. Fills(t, os[i]) <=> os[k].sequence = os[i].sequence
      BY <1>7, <2>3 DEF Fills
    <3> QED BY <2>2, <3>1, <3>2
  <2>4. CASE os[i].side = "sell"
    <3>1. i # k
      BY <1>7, <2>4
    <3>2. Fills(t, os[i]) <=> os[l].sequence = os[i].sequence
      BY <1>7, <2>4 DEF Fills
    <3> QED BY <2>2, <3>1, <3>2
  <2> QED BY <2>1, <2>3, <2>4
<1> QED BY <1>7, <1>8 DEF t

\* A fill takes from its buyer and its seller what it counts for their orders.
LEMMA FillWithinFills ==
    ASSUME BatchIn(input), BooksOK, OwnersSigned, InputOK, DrainedInTurn(input, drained),
           WithinFills(input, accounts, trades, drained), Fill
    PROVE  WithinFills(input, accounts', trades', drained)
<1> DEFINE t == NextTrade
           new == accounts'
           os == input.orders
<1>1. /\ Crosses /\ trades' = Append(trades, t)
      /\ new \in Settled(accounts, t, Buys[buyIndex], Sells[sellIndex])
  BY DEF Fill
<1>2. SweepInv /\ Validated(accounts, books) /\ Traded(trades)
  BY DEF BooksOK, SweepInv
<1>3. /\ ATrade(t) /\ Buys[buyIndex].index \in DOMAIN accounts
      /\ Sells[sellIndex].index \in DOMAIN accounts
  BY <1>1, <1>2, AtTheOrders
<1>4. PICK k, l \in DOMAIN os :
         /\ os[k] = Buys[buyIndex] /\ os[l] = Sells[sellIndex]
         /\ os[k].side = "buy" /\ os[l].side = "sell"
         /\ os[k].market = t.market /\ os[l].market = t.market
         /\ \A i \in DOMAIN os : Fills(t, os[i]) <=> i = k \/ i = l
  BY <1>1, FillsOfTheBatch
<1>5. accounts[os[k].index].id = os[k].trader /\ accounts[os[l].index].id = os[l].trader
  BY DEF OwnersSigned, IsAt
<1>6. /\ accounts \in Seq(AnAccount) /\ Canonical(accounts)
      /\ \E i \in DOMAIN accounts : accounts[i].id = FeeRecipient
  BY <1>2 DEF Validated
<1>7. new \in Seq(AnAccount) /\ Canonical(new)
  <2>1. SweepInv'
    <3>1. [MatchNext]_matchVars
      BY DEF MatchNext
    <3> QED BY <1>2, <3>1, SweepStep
  <2> QED BY <2>1 DEF SweepInv, Validated
<1>8. os \in Seq(OrderEntry)
  BY DEF BatchIn
<1> HIDE DEF t, new
<1> SUFFICES ASSUME NEW id, NEW x
             PROVE  BalanceFor(new, id, x)
                      + (Spent(os, trades', id, x)
                         + Guest!MovedBy(input.withdrawals, 1..Len(input.withdrawals), id, x))
                    >= LeftAfter(input, drained, id, x)
  BY DEF WithinFills, new
<1> DEFINE c == Cost(t, os[k].trader, os[l].trader, id, x)
           b == BalanceFor(accounts, id, x)
           b2 == BalanceFor(new, id, x)
           s == Spent(os, trades, id, x)
           s2 == Spent(os, trades', id, x)
           w == Guest!MovedBy(input.withdrawals, 1..Len(input.withdrawals), id, x)
           left == LeftAfter(input, drained, id, x)
<1>9. b2 + c >= b
  <2>1. new \in Settled(accounts, t, os[k], os[l]) /\ os[k].index \in DOMAIN accounts
        /\ os[l].index \in DOMAIN accounts
    BY <1>1, <1>3, <1>4
  <2>2. b2 + Cost(t, accounts[os[k].index].id, accounts[os[l].index].id, id, x) >= b
    BY <1>3, <1>6, <2>1, TradeCosts
  <2> QED BY <1>5, <2>2
<1>10. s \in Nat /\ s2 = s + c
  BY <1>1, <1>2, <1>3, <1>4, <1>8, SpentGrows
<1>11. b \in Int /\ b2 \in Int
  <2>1. b \in 0..MaxAmount /\ b2 \in 0..MaxAmount
    BY <1>6, <1>7, ForType
  <2> QED BY <2>1, ExchangeAssumption
<1>12. c \in Int
  <2>1. t.quantity \in Nat /\ t.quote \in Nat /\ t.fee \in Nat
    BY <1>3 DEF ATrade
  <2> QED BY <2>1 DEF Cost
<1>13. w \in Nat /\ left \in Int
  BY LeftType
<1>14. b + (s + w) >= left
  BY DEF WithinFills
<1> HIDE DEF c, b, b2, s, s2, w, left
<1>15. b2 + (s2 + w) >= left
  BY <1>9, <1>10, <1>11, <1>12, <1>13, <1>14
<1> QED BY <1>15 DEF b2, s2, w, left

\* A turn of the sweep loses nobody more than its fill takes.
LEMMA LossesMatch ==
    ASSUME SettleInv, LedgerInv, LossInv, Match
    PROVE  LossInv'
<1>1. MatchNext /\ input' = input /\ drained' = drained
  BY DEF Match
<1>2. stage = "matching" /\ stage' \in {"matching", "matched", "rejected"}
  BY <1>1 DEF MatchNext, Fill, FillFails, NextBook, EndMatching
<1>3. /\ BatchIn(input) /\ BooksOK /\ InputOK /\ DrainedInTurn(input, drained)
      /\ TermsInv /\ OwnersSigned /\ WithinFills(input, accounts, trades, drained)
  BY <1>2 DEF SettleInv, LedgerInv, LossInv
<1>4. TermsInv'
  <2>1. SweepInv
    BY <1>3 DEF BooksOK
  <2> QED BY <1>1, <1>3, <2>1, TermsStep
<1>5. OwnersSigned'
  <2>1. SamePeople(accounts, accounts')
    BY MatchKeeps
  <2> QED BY <1>1, <1>3, <2>1 DEF OwnersSigned, SamePeople, IsAt
<1>6. WithinFills(input, accounts', trades', drained)
  <2>1. CASE Fill
    BY <1>3, <2>1, FillWithinFills
  <2>2. CASE FillFails \/ NextBook \/ EndMatching
    <3>1. accounts' = accounts /\ trades' = trades
      BY <2>2 DEF FillFails, NextBook, EndMatching
    <3> QED BY <1>3, <3>1
  <2> QED BY <1>1, <2>1, <2>2 DEF MatchNext
<1> QED BY <1>1, <1>4, <1>5, <1>6 DEF LossInv

\* Every step of settle_batch keeps everybody's losses within what they allowed.
LEMMA LossesStep == SettleInv /\ LedgerInv /\ LossInv /\ [SettleNext]_settleVars => LossInv'
<1> SUFFICES ASSUME SettleInv, LedgerInv, LossInv, [SettleNext]_settleVars PROVE LossInv'
  OBVIOUS
<1>1. CASE ApplyOperations
  BY <1>1, LossesStart
<1>2. CASE Match
  BY <1>2, LossesMatch
<1>3. CASE Conclude \/ UNCHANGED settleVars
  <2>1. /\ input' = input /\ accounts' = accounts /\ books' = books /\ trades' = trades
        /\ drained' = drained
        /\ stage' \in {"matching", "matched", "settled"}
             => stage \in {"matching", "matched", "settled"}
    BY <1>3 DEF Conclude, settleVars, matchVars
  <2>2. (TermsInv' <=> TermsInv) /\ (OwnersSigned' <=> OwnersSigned)
    BY <2>1 DEF TermsInv, OwnersSigned
  <2> QED BY <2>1, <2>2 DEF LossInv
<1>4. CASE \/ Validate \/ ApplyDeposits \/ ApplyForced \/ ValidateOperations
           \/ InvalidInput \/ DepositsFail \/ ForcedFail \/ InvalidOperations \/ ApplyFails
           \/ CannotConclude
  <2>1. stage' \in {"deposits", "forced", "operations", "apply", "rejected"}
    BY <1>4 DEF Validate, ApplyDeposits, ApplyForced, ValidateOperations, Reject,
         InvalidInput, DepositsFail, ForcedFail, InvalidOperations, ApplyFails, CannotConclude
  <2> QED BY <2>1 DEF LossInv
<1> QED BY <1>1, <1>2, <1>3, <1>4 DEF SettleNext

\* The losses of every state of settle_batch are within what its history allows.
THEOREM LossesHold == SettleSpec => [](SettleInv /\ LedgerInv /\ LossInv)
<1>1. SettleInit => LossInv
  BY DEF SettleInit, LossInv
<1>2. SettleInit => SettleInv /\ LedgerInv /\ LossInv
  BY <1>1, SettleStarts, LedgerStarts
<1>3. SettleInv /\ LedgerInv /\ LossInv /\ [SettleNext]_settleVars
        => (SettleInv /\ LedgerInv /\ LossInv)'
  BY SettleStep, LedgerStep, LossesStep
<1> QED BY <1>2, <1>3, PTL DEF SettleSpec

\* Whichever books the host built, the guarantees of the matching engine hold in the batch:
\* no order is overfilled, priority is kept, no crossing pair is left and every order is
\* filled on its terms (matching.rs:77-117).
THEOREM PipelineMatches ==
    SettleSpec => [](stage \in {"matching", "matched", "settled"} =>
                        /\ MatchTypeOK /\ FillsAddUp /\ PriceTimePriority /\ NoCrossLeft
                        /\ TermsHonoured)
<1>1. SettleInv /\ LossInv => (stage \in {"matching", "matched", "settled"} =>
                                  /\ MatchTypeOK /\ FillsAddUp /\ PriceTimePriority /\ NoCrossLeft
                                  /\ TermsHonoured)
  BY SweepAddsUp, SweepPrioritises, SweepIsMaximal, SweepTypes, TermsAreHonoured
     DEF SettleInv, LossInv, BooksOK
<1> QED BY LossesHold, <1>1, PTL

\* What the requests drain from somebody is at most what was requested for them.
LEMMA DrainedAtMost ==
    ASSUME BatchIn(input), DrainedInTurn(input, drained), NEW id, NEW x
    PROVE  /\ Guest!MovedBy(drained, 1..Len(drained), id, x)
                =< Guest!MovedBy(input.forced, DOMAIN input.forced, id, x)
           /\ Guest!MovedBy(input.forced, DOMAIN input.forced, id, x) \in Nat
<1> DEFINE reqs == input.forced
           I == 1..Len(reqs)
           f == [i \in I |-> IF drained[i].account = id /\ drained[i].asset = x
                             THEN drained[i].amount ELSE 0]
           g == [i \in I |-> IF reqs[i].account = id /\ reqs[i].asset = x
                             THEN reqs[i].amount ELSE 0]
<1>1. DOMAIN reqs = I /\ reqs \in Seq(QueueEntry)
  BY DEF BatchIn
<1>2. Len(drained) = Len(reqs)
  BY DEF DrainedInTurn
<1>3. IsFiniteSet(I)
  <2>1. 1 \in Int /\ Len(reqs) \in Int
    BY <1>1
  <2> QED BY <2>1, FS_Interval
<1>4. ASSUME NEW i \in I
      PROVE  f[i] \in Nat /\ g[i] \in Nat /\ f[i] =< g[i]
  <2> DEFINE left == LeftBefore(input, drained, i, reqs[i].account, reqs[i].asset)
  <2>1. /\ drained[i].account = reqs[i].account /\ drained[i].asset = reqs[i].asset
        /\ drained[i].amount \in Nat
        /\ drained[i].amount \in {0, Lesser(reqs[i].amount, left)}
    BY DEF DrainedInTurn
  <2>2. reqs[i].amount \in Nat
    <3>1. reqs[i] \in QueueEntry
      BY <1>1
    <3>2. \A e \in QueueEntry : e.amount \in 0..MaxAmount
      BY DEF QueueEntry
    <3> QED BY <3>1, <3>2, ExchangeAssumption
  <2> DEFINE a == drained[i].amount
             r == reqs[i].amount
  <2>3. a =< r
    <3>1. a \in Nat /\ r \in Nat /\ a \in {0, Lesser(r, left)}
      BY <2>1, <2>2
    <3> HIDE DEF a, r, left
    <3> QED BY <3>1 DEF Lesser
  <2> QED BY <2>1, <2>2, <2>3
<1>5. /\ Guest!MovedBy(drained, 1..Len(drained), id, x) = SumFunctionOnSet(f, I)
      /\ Guest!MovedBy(reqs, DOMAIN reqs, id, x) = SumFunctionOnSet(g, I)
  BY <1>1, <1>2, GuestSums DEF Guest!MovedBy, SumFunction
<1> HIDE DEF f, g, I
<1>6. SumFunctionOnSet(f, I) =< SumFunctionOnSet(g, I)
  BY <1>3, <1>4, SumAtMost
<1>7. SumFunctionOnSet(g, I) \in Nat
  BY <1>3, <1>4, SumNat
<1> QED BY <1>5, <1>6, <1>7

\* No account loses more than its owner signed for or requested, and deposits reach the
\* account they name, whatever the host supplies (validation.rs:10-23,
\* forced_withdrawals.rs:9-26).
THEOREM LossesAreAuthorised == SettleSpec => []LossesAuthorised
<1>1. SettleInv /\ LedgerInv /\ LossInv => LossesAuthorised
  <2> DEFINE old == Ledger(output.oldRoot)
             new == Ledger(output.newRoot)
  <2> SUFFICES ASSUME SettleInv, LedgerInv, LossInv, stage = "settled",
                      NEW id \in DOMAIN new, NEW x \in Assets
               PROVE  new[id][x] + Authorised(id, x) >=
                        Guest!BalanceOf(old, id, x)
                          + Guest!MovedBy(input.deposits, DOMAIN input.deposits, id, x)
    BY DEF LossesAuthorised
  <2> DEFINE wds == input.withdrawals
             deps == Guest!MovedBy(input.deposits, 1..Len(input.deposits), id, x)
             paid == Guest!MovedBy(wds, 1..Len(wds), id, x)
             asked == Guest!MovedBy(input.forced, DOMAIN input.forced, id, x)
             taken == Guest!MovedBy(drained, 1..Len(drained), id, x)
             signed == CommittedBy(input, id, x)
             spent == Spent(input.orders, trades, id, x)
             before == BalanceFor(input.accounts, id, x)
             after == BalanceFor(accounts, id, x)
  <2>1. Accepted
    BY SettledIsAccepted
  <2>2. BooksOK /\ TermsInv /\ OwnersSigned /\ WithinFills(input, accounts, trades, drained)
    BY DEF SettleInv, LossInv
  <2>3. /\ BatchIn(input) /\ InputOK /\ DrainedInTurn(input, drained)
        /\ accounts \in Seq(AnAccount) /\ Canonical(accounts)
        /\ input.accounts \in Seq(AnAccount) /\ Canonical(input.accounts)
        /\ Provable(accounts, input) /\ Provable(input.accounts, input)
        /\ Joined(input, accounts)
        /\ output.oldRoot = Root(input.accounts, input.rest)
        /\ output.newRoot = Root(accounts, input.rest)
    BY <2>1 DEF Accepted, InputOK, Outputs
  <2>4. Guest!MovedBy(input.deposits, DOMAIN input.deposits, id, x) = deps
    BY <2>3 DEF BatchIn
  <2>5. /\ before \in Nat /\ deps \in Nat /\ paid \in Nat /\ taken \in Nat
        /\ asked \in Nat /\ taken =< asked
        /\ signed \in Nat /\ spent \in Nat /\ spent =< signed
    BY <2>2, <2>3, LeftType, DrainedAtMost, SpentAtMost
  <2>6. Authorised(id, x) = signed + (paid + asked)
    <3>1. {i \in DOMAIN wds : wds[i].signed} = 1..Len(wds)
      BY <2>2, <2>3 DEF OwnersSigned, BatchIn
    <3>2. Authorised(id, x) = signed + Guest!MovedBy(wds, {i \in DOMAIN wds : wds[i].signed}, id, x)
                                + asked
      BY DEF Authorised, CommittedBy
    <3>3. Authorised(id, x) = signed + paid + asked
      BY <3>1, <3>2
    <3> HIDE DEF signed, paid, asked
    <3> QED BY <2>5, <3>3
  <2>7. CASE Has(accounts, id)
    <3>1. new[id][x] = after /\ Guest!BalanceOf(old, id, x) = before
      <4>1. id \notin DOMAIN input.rest
        BY <2>3, <2>7, RootCommits
      <4> QED BY <2>3, <2>7, <4>1, LedgerSays
    <3>2. after + (spent + paid) >= (before + deps) - taken
      BY <2>2 DEF WithinFills, LeftAfter, Owned
    <3>3. after \in Nat
      BY <2>3, ForType, ExchangeAssumption
    <3> HIDE DEF after, before, deps, paid, asked, taken, signed, spent, old, new
    <3>4. after + (signed + (paid + asked)) >= before + deps
      BY <2>5, <3>2, <3>3
    <3> QED BY <2>6, <2>4, <3>1, <3>4
  <2>8. CASE ~Has(accounts, id)
    <3>1. id \in DOMAIN input.rest
      BY <2>3, <2>8, RootCommits DEF Ledger
    <3>2. /\ new[id][x] = Balance(input.rest[id], x)
          /\ id \in DOMAIN old /\ old[id][x] = Balance(input.rest[id], x)
      BY <2>3, <3>1, LedgerSays
    <3>3. Balance(input.rest[id], x) \in Nat
      BY <2>3, <3>1, RestIsAccounts
    <3>4. deps = 0
      <4>1. \A i \in 1..Len(input.deposits) : input.deposits[i].account # id
        BY <2>3, <2>8 DEF Joined
      <4>2. input.deposits \in Seq(QueueEntry)
        BY <2>3 DEF BatchIn
      <4> QED BY <4>1, <4>2, NobodysEntries
    <3>5. Guest!BalanceOf(old, id, x) = old[id][x]
      BY <3>2 DEF Guest!BalanceOf
    <3> DEFINE b == Balance(input.rest[id], x)
    <3> HIDE DEF b, deps, paid, asked, signed, old, new
    <3>6. b + (signed + (paid + asked)) >= b + 0
      BY <2>5, <3>3 DEF b
    <3> QED BY <2>6, <2>4, <3>2, <3>4, <3>5, <3>6 DEF b
  <2> QED BY <2>7, <2>8
<1> QED BY LossesHold, <1>1, PTL
=============================================================================
