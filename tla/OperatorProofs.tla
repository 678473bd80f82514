--------------------------- MODULE OperatorProofs ---------------------------
(***************************************************************************)
(* Proofs about the host of Operator.tla, for every ledger it may start    *)
(* from and every queue entry and signed operation it may be given, over   *)
(* any number of batches.                                                  *)
(*                                                                         *)
(* The inductive invariant HostInv has three parts: what the host keeps    *)
(* from batch to batch (its ledger, cursors and the nonces it has spent),  *)
(* what the builder has collected, and, while a batch is with the guest,   *)
(* the invariants of SettlementProofs.tla for the input that was built.    *)
(* The guest does not trust the host, so hardly anything has to be known   *)
(* of the input: what an accepted batch did to the ledger follows from     *)
(* what the guest checked.                                                 *)
(*                                                                         *)
(* For the converse, that the guest accepts what build lets through, more  *)
(* has to be known: BuildInv says what the builder's checks of one entry   *)
(* after the other amount to.                                              *)
(***************************************************************************)
EXTENDS Operator, SettlementProofs

-----------------------------------------------------------------------------
(* Sorting                                                                 *)

\* R orders any two members of S, one way at least.
Ordered(S, R) ==
    /\ \A a, b \in S : a # b => <<a, b>> \in R \/ <<b, a>> \in R
    /\ \A a, b, c \in S : <<a, b>> \in R /\ <<b, c>> \in R => <<a, c>> \in R

\* An enumeration of S in the order of R, neighbour by neighbour.
Sorted(s, R) == \A i \in 1..(Len(s) - 1) : <<s[i], s[i + 1]>> \in R

\* A finite set has a last member.
LEMMA LastMember ==
    ASSUME NEW S, IsFiniteSet(S), S # {}, NEW R, Ordered(S, R)
    PROVE  \E m \in S : \A a \in S : a # m => <<a, m>> \in R
<1> DEFINE FollowsAll(D, m) == \A a \in D : a # m => <<a, m>> \in R
           P == {D \in SUBSET S : D = {} \/ \E m \in D : FollowsAll(D, m)}
<1>1. {} \in P
  OBVIOUS
<1>2. ASSUME NEW D \in P, NEW x \in S, x \notin D PROVE D \cup {x} \in P
  <2>1. CASE D = {}
    <3>1. FollowsAll(D \cup {x}, x)
      BY <2>1
    <3> QED BY <3>1
  <2>2. CASE D # {}
    <3>1. PICK m \in D : FollowsAll(D, m)
      BY <2>2
    <3>2. CASE <<x, m>> \in R
      <4>1. FollowsAll(D \cup {x}, m)
        BY <3>1, <3>2
      <4> QED BY <4>1
    <3>3. CASE <<m, x>> \in R
      <4>1. \A a \in D : a # m => <<a, x>> \in R
        <5>1. \A a \in D : a \in S
          OBVIOUS
        <5> QED BY <3>1, <3>3, <5>1 DEF Ordered
      <4>2. FollowsAll(D \cup {x}, x)
        BY <3>3, <4>1
      <4> QED BY <4>2
    <3>4. m \in S /\ m # x
      BY <1>2
    <3> QED BY <3>2, <3>3, <3>4 DEF Ordered
  <2> QED BY <2>1, <2>2
<1>3. S \in P
  <2> HIDE DEF P
  <2>1. P \in SUBSET SUBSET S
    BY DEF P
  <2> QED BY <1>1, <1>2, <2>1, SubsetInduction
<1> QED BY <1>3

\* An enumeration of a set with one more member at its end.
LEMMA OneMoreAtTheEnd ==
    ASSUME NEW E, IsFiniteSet(E), NEW m, m \notin E, NEW s \in SetToSeqs(E), NEW R, Sorted(s, R),
           \A a \in E : <<a, m>> \in R
    PROVE  \E t \in SetToSeqs(E \cup {m}) : Sorted(t, R)
<1> DEFINE n == Cardinality(E)
           t == [i \in 1..(n + 1) |-> IF i = n + 1 THEN m ELSE s[i]]
<1>1. n \in Nat
  BY FS_CardinalityType
<1>2. Cardinality(E \cup {m}) = n + 1
  BY FS_AddElement
<1>3. s \in [1..n -> E] /\ \A i, j \in 1..n : i # j => s[i] # s[j]
  BY DEF SetToSeqs
<1>4. Len(s) = n
  BY <1>1, <1>3
<1> HIDE DEF n
<1>5. t \in [1..(n + 1) -> E \cup {m}]
  BY <1>1, <1>3
<1>6. Len(t) = n + 1
  BY <1>1
<1>7. \A i, j \in 1..(n + 1) : i # j => t[i] # t[j]
  BY <1>1, <1>3
<1>8. \A i \in 1..((n + 1) - 1) : <<t[i], t[i + 1]>> \in R
  <2> SUFFICES ASSUME NEW i \in 1..((n + 1) - 1) PROVE <<t[i], t[i + 1]>> \in R
    OBVIOUS
  <2>1. i \in 1..n /\ i + 1 \in 1..(n + 1) /\ t[i] = s[i] /\ s[i] \in E
    BY <1>1, <1>3
  <2>2. CASE i = n
    BY <2>1, <2>2, <1>1
  <2>3. CASE i # n
    <3>1. i \in 1..(n - 1) /\ t[i + 1] = s[i + 1]
      BY <1>1, <2>1, <2>3
    <3> QED BY <1>4, <2>1, <3>1 DEF Sorted
  <2> QED BY <2>2, <2>3
<1> HIDE DEF t
<1>9. t \in SetToSeqs(E \cup {m})
  BY <1>2, <1>5, <1>7 DEF SetToSeqs
<1>10. Sorted(t, R)
  BY <1>6, <1>8 DEF Sorted
<1> QED BY <1>9, <1>10

\* A finite set can be listed in order.
LEMMA SortedExists ==
    ASSUME NEW S, IsFiniteSet(S), NEW R, Ordered(S, R)
    PROVE  \E s \in SetToSeqs(S) : Sorted(s, R)
<1> DEFINE X == {D \in SUBSET S : ~ \E s \in SetToSeqs(D) : Sorted(s, R)}
<1>1. SUFFICES ASSUME X # {} PROVE FALSE
  OBVIOUS
<1>2. PICK D \in X : \A E \in X : E \subseteq D => E = D
  <2> HIDE DEF X
  <2>1. X \in SUBSET SUBSET S
    BY DEF X
  <2> QED BY <1>1, <2>1, SmallestSubset
<1>3. D \in SUBSET S /\ IsFiniteSet(D) /\ ~ \E s \in SetToSeqs(D) : Sorted(s, R)
  BY FS_Subset
<1>4. Ordered(D, R)
  BY <1>3 DEF Ordered
<1>5. CASE D = {}
  <2>1. Cardinality({}) = 0
    BY FS_EmptySet
  <2>2. << >> \in SetToSeqs({})
    BY <2>1 DEF SetToSeqs
  <2>3. Sorted(<< >>, R)
    BY DEF Sorted
  <2> QED BY <1>3, <1>5, <2>2, <2>3
<1>6. CASE D # {}
  <2>1. PICK m \in D : \A a \in D : a # m => <<a, m>> \in R
    BY <1>3, <1>4, <1>6, LastMember
  <2> DEFINE E == D \ {m}
  <2>2. E \in SUBSET S /\ E \subseteq D /\ E # D /\ IsFiniteSet(E) /\ m \notin E /\ E \cup {m} = D
    BY <1>3, FS_Subset
  <2>3. E \notin X
    BY <1>2, <2>2
  <2>4. PICK s \in SetToSeqs(E) : Sorted(s, R)
    BY <2>2, <2>3
  <2>5. \A a \in E : <<a, m>> \in R
    BY <2>1
  <2> HIDE DEF E, X
  <2>6. \E t \in SetToSeqs(E \cup {m}) : Sorted(t, R)
    BY <2>2, <2>4, <2>5, OneMoreAtTheEnd
  <2> QED BY <1>3, <2>2, <2>6
<1> QED BY <1>5, <1>6

\* An enumeration of a finite set is a list of its members, each at one place.
LEMMA Enumerates ==
    ASSUME NEW S, IsFiniteSet(S), NEW s \in SetToSeqs(S)
    PROVE  /\ s \in Seq(S) /\ Len(s) = Cardinality(S)
           /\ \A i, j \in DOMAIN s : s[i] = s[j] => i = j
           /\ \A a \in S : \E i \in DOMAIN s : s[i] = a
<1> DEFINE n == Cardinality(S)
<1>1. n \in Nat
  BY FS_CardinalityType
<1>2. s \in [1..n -> S] /\ \A i, j \in 1..n : i # j => s[i] # s[j]
  BY DEF SetToSeqs
<1> HIDE DEF n
<1>3. s \in Seq(S) /\ Len(s) = n /\ DOMAIN s = 1..n
  BY <1>1, <1>2
<1>4. \A a \in S : \E i \in DOMAIN s : s[i] = a
  <2> DEFINE I == {s[i] : i \in 1..n}
  <2>1. I \in SUBSET S /\ IsFiniteSet(1..n) /\ Cardinality(1..n) = n
    BY <1>1, <1>2, FS_Interval
  <2>2. s \in [1..n -> I]
    BY <1>2
  <2>3. s \in Bijection(1..n, I)
    <3>1. \A a \in I : \E i \in 1..n : s[i] = a
      OBVIOUS
    <3>2. IsInjective(s)
      BY <1>2 DEF IsInjective
    <3> HIDE DEF I
    <3> QED BY <2>2, <3>1, <3>2 DEF Bijection, Injection, Surjection
  <2>4. Cardinality(I) = n
    <3> HIDE DEF I
    <3> QED BY <2>1, <2>3, FS_Bijection DEF ExistsBijection
  <2>5. I = S
    <3> HIDE DEF I
    <3> QED BY <2>1, <2>4, FS_Subset DEF n
  <2> QED BY <1>3, <2>5
<1> QED BY <1>2, <1>3, <1>4 DEF n

\* Ascending lists every member of a finite set of numbers once, the lesser first.
LEMMA AscendingLists ==
    ASSUME NEW ids \in SUBSET Int, IsFiniteSet(ids)
    PROVE  /\ Ascending(ids) \in SetToSeqs(ids)
           /\ \A i \in 1..(Len(Ascending(ids)) - 1) : Ascending(ids)[i] < Ascending(ids)[i + 1]
<1> DEFINE R == {p \in ids \X ids : p[1] < p[2]}
           Up(s) == \A i \in 1..(Len(s) - 1) : s[i] < s[i + 1]
<1>1. Ordered(ids, R)
  <2>1. \A a, b \in ids : <<a, b>> \in R <=> a < b
    OBVIOUS
  <2> HIDE DEF R
  <2> QED BY <2>1 DEF Ordered
<1>2. PICK s \in SetToSeqs(ids) : Sorted(s, R)
  <2> HIDE DEF R
  <2> QED BY <1>1, SortedExists
<1>3. Up(s)
  BY <1>2 DEF Sorted
<1>4. Ascending(ids) = CHOOSE t \in SetToSeqs(ids) : Up(t)
  BY DEF Ascending
<1> HIDE DEF Up
<1>5. Ascending(ids) \in SetToSeqs(ids) /\ Up(Ascending(ids))
  BY <1>2, <1>3, <1>4
<1> QED BY <1>5 DEF Up

-----------------------------------------------------------------------------
(* The host                                                                *)

\* An entry of a queue, a signed order and a signed withdrawal, as users hand them in.
QueueItem == [id : Nat, account : Ids, asset : Assets, amount : 0..MaxAmount]

SignedOrder ==
    [market : Int, side : {"buy", "sell"}, price : 0..MaxAmount, quantity : 0..MaxAmount,
     nonce : 0..Limits.u64, trader : Ids, sequence : 0..Limits.u64, signed : BOOLEAN]

SignedWithdrawal ==
    [account : Ids, recipient : Ids, asset : Assets, amount : 0..MaxAmount,
     nonce : 0..Limits.u64, signed : BOOLEAN]

\* A ledger of accounts, each at its id, without zero balances.
AccountsOK(accs) ==
    /\ IsFiniteSet(DOMAIN accs) /\ DOMAIN accs \subseteq Ids
    /\ accs \in [DOMAIN accs -> RawAccount]
    /\ \A id \in DOMAIN accs :
          accs[id].id = id /\ \A x \in DOMAIN accs[id].balances : accs[id].balances[x] # 0

HostInit == \E accs : AccountsOK(accs) /\ OperatorInit(accs)

\* The host is given anything the types allow, in any order.
HostNext ==
    \/ \E d \in QueueItem : Deposit(d)
    \/ \E r \in QueueItem : ForcedWithdraw(r)
    \/ \E o \in SignedOrder : PlaceOrder(o)
    \/ \E w \in SignedWithdrawal : Withdraw(w)
    \/ Proceed

HostSpec == HostInit /\ [][HostNext]_operatorVars

-----------------------------------------------------------------------------
(* The inductive invariant                                                 *)

\* What the builder has collected: the owner of every entry is among the touched
\* accounts, and no two orders have the same sequence.
DraftOK ==
    /\ draft = [deposits |-> draft.deposits, forced |-> draft.forced, orders |-> draft.orders,
                withdrawals |-> draft.withdrawals, touched |-> draft.touched]
    /\ draft.deposits \in Seq(QueueItem) /\ draft.forced \in Seq(QueueItem)
    /\ draft.orders \in Seq(SignedOrder) /\ draft.withdrawals \in Seq(SignedWithdrawal)
    /\ draft.touched \in SUBSET Ids /\ IsFiniteSet(draft.touched)
    /\ Cardinality(draft.touched) =< Limits.accounts
    /\ FeeRecipient \in draft.touched
    /\ \A i \in DOMAIN draft.deposits : draft.deposits[i].account \in draft.touched
    /\ \A i \in DOMAIN draft.forced : draft.forced[i].account \in draft.touched
    /\ \A i \in DOMAIN draft.orders : draft.orders[i].trader \in draft.touched
    /\ \A i \in DOMAIN draft.withdrawals : draft.withdrawals[i].account \in draft.touched
    /\ \A i, j \in DOMAIN draft.orders :
          draft.orders[i].sequence = draft.orders[j].sequence => i = j

CursorsOK ==
    cursors \in [deposits : 0..Limits.u64, forced : 0..Limits.u64]

\* What the ledger holds is what came in and was not paid out.
Backing ==
    /\ custody \in [Assets -> Int]
    /\ \A x \in Assets : custody[x] = Guest!TotalOf(Ledger(tree), x)

\* A nonce that is spent is below the next one of its account.
SpentOK ==
    /\ spent \in SUBSET (Ids \X Nat)
    /\ \A id \in Ids, n \in Nat :
          <<id, n>> \in spent => id \in DOMAIN tree /\ n < tree[id].nonce

\* The guest is at work on the input the builder has built.
WithGuest ==
    /\ SettleInv /\ LedgerInv /\ input = BatchInput
    /\ stage \notin {"validate", "deposits", "forced", "rejected"} => ValidForcedWithdrawals

HostInv ==
    /\ AccountsOK(tree) /\ DraftOK /\ CursorsOK /\ Backing /\ SpentOK
    /\ IF stage = "building" THEN Called(<<>>) ELSE WithGuest

-----------------------------------------------------------------------------
(* Collecting                                                              *)

\* A new builder has the fee recipient and nothing else.
LEMMA NewBuilderOK ==
    ASSUME draft = NewBuilder
    PROVE  DraftOK
<1>1. /\ draft.deposits = <<>> /\ draft.forced = <<>> /\ draft.orders = <<>>
      /\ draft.withdrawals = <<>> /\ draft.touched = {FeeRecipient}
      /\ draft = [deposits |-> draft.deposits, forced |-> draft.forced, orders |-> draft.orders,
                  withdrawals |-> draft.withdrawals, touched |-> draft.touched]
  BY DEF NewBuilder
<1>2. FeeRecipient \in Ids /\ Limits.accounts \in Nat /\ Limits.accounts # 0
  BY OperatorAssumption, SettlementAssumption
<1>3. IsFiniteSet({FeeRecipient}) /\ Cardinality({FeeRecipient}) = 1
  BY FS_Singleton
<1>4. \A S : <<>> \in Seq(S) /\ DOMAIN <<>> = {}
  OBVIOUS
<1>5. Cardinality(draft.touched) =< Limits.accounts
  BY <1>1, <1>2, <1>3
<1> QED BY <1>1, <1>2, <1>3, <1>4, <1>5 DEF DraftOK

\* So has the builder of the next batch.
LEMMA NewDraftNext == draft' = NewBuilder => DraftOK'
<1>1. draft = NewBuilder => DraftOK
  BY NewBuilderOK
<1>2. (draft = NewBuilder)' => DraftOK'
  BY <1>1, PTL
<1>3. draft' = NewBuilder => (draft = NewBuilder)'
  BY DEF NewBuilder
<1> QED BY <1>2, <1>3

\* The accounts touched stay within the limit.
LEMMA TouchesOneMore ==
    ASSUME DraftOK, NEW id \in Ids, MayTouch(id)
    PROVE  LET touched == draft.touched \cup {id}
           IN  /\ touched \in SUBSET Ids /\ IsFiniteSet(touched)
               /\ Cardinality(touched) =< Limits.accounts
<1>1. /\ draft.touched \in SUBSET Ids /\ IsFiniteSet(draft.touched)
      /\ Cardinality(draft.touched) =< Limits.accounts
  BY DEF DraftOK
<1>2. Cardinality(draft.touched) \in Nat /\ Limits.accounts \in Nat
  BY <1>1, FS_CardinalityType, SettlementAssumption
<1>3. CASE id \in draft.touched
  <2>1. draft.touched \cup {id} = draft.touched
    BY <1>3
  <2> QED BY <1>1, <2>1
<1>4. CASE id \notin draft.touched
  <2>1. Cardinality(draft.touched) < Limits.accounts
    BY <1>4 DEF MayTouch
  <2>2. IsFiniteSet(draft.touched \cup {id}) /\ Cardinality(draft.touched \cup {id}) = Cardinality(draft.touched) + 1
    BY <1>1, <1>4, FS_AddElement
  <2> QED BY <1>1, <1>2, <2>1, <2>2
<1> QED BY <1>3, <1>4

\* A list with one more entry.
LEMMA OneEntryMore ==
    ASSUME NEW S, NEW list \in Seq(S), NEW e \in S
    PROVE  LET longer == Append(list, e)
               n == Len(list) + 1
           IN  /\ longer \in Seq(S) /\ DOMAIN longer = DOMAIN list \cup {n} /\ n \notin DOMAIN list
               /\ longer[n] = e /\ \A i \in DOMAIN list : longer[i] = list[i]
OBVIOUS

\* Taking an entry in keeps what holds of the lists.
LEMMA PutKeeps ==
    ASSUME DraftOK,
           \/ \E e \in QueueItem : Put("deposits", e, e.account) /\ MayTouch(e.account)
           \/ \E e \in QueueItem : Put("forced", e, e.account) /\ MayTouch(e.account)
           \/ \E e \in SignedOrder : /\ Put("orders", e, e.trader) /\ MayTouch(e.trader)
                                     /\ \A i \in DOMAIN draft.orders : draft.orders[i].sequence # e.sequence
           \/ \E e \in SignedWithdrawal : Put("withdrawals", e, e.account) /\ MayTouch(e.account)
    PROVE  DraftOK'
<1> DEFINE deps == draft.deposits
           reqs == draft.forced
           os == draft.orders
           wds == draft.withdrawals
           touched == draft.touched
<1>0. /\ draft = [deposits |-> deps, forced |-> reqs, orders |-> os, withdrawals |-> wds, touched |-> touched]
      /\ deps \in Seq(QueueItem) /\ reqs \in Seq(QueueItem)
      /\ os \in Seq(SignedOrder) /\ wds \in Seq(SignedWithdrawal)
      /\ FeeRecipient \in touched
      /\ \A i \in DOMAIN deps : deps[i].account \in touched
      /\ \A i \in DOMAIN reqs : reqs[i].account \in touched
      /\ \A i \in DOMAIN os : os[i].trader \in touched
      /\ \A i \in DOMAIN wds : wds[i].account \in touched
      /\ \A i, j \in DOMAIN os : os[i].sequence = os[j].sequence => i = j
  BY DEF DraftOK
<1>1. ASSUME NEW e \in QueueItem, Put("deposits", e, e.account), MayTouch(e.account)
      PROVE  DraftOK'
  <2>1. draft' = [draft EXCEPT !["deposits"] = Append(@, e), !.touched = @ \cup {e.account}]
    BY <1>1 DEF Put
  <2>2. e.account \in Ids
    BY DEF QueueItem
  <2> HIDE DEF deps, reqs, os, wds, touched
  <2>3. /\ draft' = [deposits |-> Append(deps, e), forced |-> reqs, orders |-> os, withdrawals |-> wds,
                     touched |-> touched \cup {e.account}]
        /\ draft'.deposits = Append(deps, e) /\ draft'.forced = reqs /\ draft'.orders = os
        /\ draft'.withdrawals = wds /\ draft'.touched = touched \cup {e.account}
    BY <1>0, <2>1
  <2>4. /\ draft'.touched \in SUBSET Ids /\ IsFiniteSet(draft'.touched)
        /\ Cardinality(draft'.touched) =< Limits.accounts
    BY <1>1, <2>2, <2>3, TouchesOneMore DEF touched
  <2>5. draft'.deposits \in Seq(QueueItem) /\ \A i \in DOMAIN draft'.deposits : draft'.deposits[i].account \in draft'.touched
    BY <1>0, <2>3, OneEntryMore
  <2> QED BY <1>0, <2>3, <2>4, <2>5 DEF DraftOK
<1>2. ASSUME NEW e \in QueueItem, Put("forced", e, e.account), MayTouch(e.account)
      PROVE  DraftOK'
  <2>1. draft' = [draft EXCEPT !["forced"] = Append(@, e), !.touched = @ \cup {e.account}]
    BY <1>2 DEF Put
  <2>2. e.account \in Ids
    BY DEF QueueItem
  <2> HIDE DEF deps, reqs, os, wds, touched
  <2>3. /\ draft' = [deposits |-> deps, forced |-> Append(reqs, e), orders |-> os, withdrawals |-> wds,
                     touched |-> touched \cup {e.account}]
        /\ draft'.deposits = deps /\ draft'.forced = Append(reqs, e) /\ draft'.orders = os
        /\ draft'.withdrawals = wds /\ draft'.touched = touched \cup {e.account}
    BY <1>0, <2>1
  <2>4. /\ draft'.touched \in SUBSET Ids /\ IsFiniteSet(draft'.touched)
        /\ Cardinality(draft'.touched) =< Limits.accounts
    BY <1>2, <2>2, <2>3, TouchesOneMore DEF touched
  <2>5. draft'.forced \in Seq(QueueItem) /\ \A i \in DOMAIN draft'.forced : draft'.forced[i].account \in draft'.touched
    BY <1>0, <2>3, OneEntryMore
  <2> QED BY <1>0, <2>3, <2>4, <2>5 DEF DraftOK
<1>3. ASSUME NEW e \in SignedOrder, Put("orders", e, e.trader), MayTouch(e.trader),
             \A i \in DOMAIN draft.orders : draft.orders[i].sequence # e.sequence
      PROVE  DraftOK'
  <2>1. draft' = [draft EXCEPT !["orders"] = Append(@, e), !.touched = @ \cup {e.trader}]
    BY <1>3 DEF Put
  <2>2. e.trader \in Ids /\ \A i \in DOMAIN os : os[i].sequence # e.sequence
    BY <1>3 DEF SignedOrder
  <2> HIDE DEF deps, reqs, os, wds, touched
  <2>3. /\ draft' = [deposits |-> deps, forced |-> reqs, orders |-> Append(os, e), withdrawals |-> wds,
                     touched |-> touched \cup {e.trader}]
        /\ draft'.deposits = deps /\ draft'.forced = reqs /\ draft'.orders = Append(os, e)
        /\ draft'.withdrawals = wds /\ draft'.touched = touched \cup {e.trader}
    BY <1>0, <2>1
  <2>4. /\ draft'.touched \in SUBSET Ids /\ IsFiniteSet(draft'.touched)
        /\ Cardinality(draft'.touched) =< Limits.accounts
    BY <1>3, <2>2, <2>3, TouchesOneMore DEF touched
  <2>5. /\ draft'.orders \in Seq(SignedOrder)
        /\ \A i \in DOMAIN draft'.orders : draft'.orders[i].trader \in draft'.touched
        /\ \A i, j \in DOMAIN draft'.orders : draft'.orders[i].sequence = draft'.orders[j].sequence => i = j
    BY <1>0, <2>2, <2>3, OneEntryMore
  <2> QED BY <1>0, <2>3, <2>4, <2>5 DEF DraftOK
<1>4. ASSUME NEW e \in SignedWithdrawal, Put("withdrawals", e, e.account), MayTouch(e.account)
      PROVE  DraftOK'
  <2>1. draft' = [draft EXCEPT !["withdrawals"] = Append(@, e), !.touched = @ \cup {e.account}]
    BY <1>4 DEF Put
  <2>2. e.account \in Ids
    BY DEF SignedWithdrawal
  <2> HIDE DEF deps, reqs, os, wds, touched
  <2>3. /\ draft' = [deposits |-> deps, forced |-> reqs, orders |-> os, withdrawals |-> Append(wds, e),
                     touched |-> touched \cup {e.account}]
        /\ draft'.deposits = deps /\ draft'.forced = reqs /\ draft'.orders = os
        /\ draft'.withdrawals = Append(wds, e) /\ draft'.touched = touched \cup {e.account}
    BY <1>0, <2>1
  <2>4. /\ draft'.touched \in SUBSET Ids /\ IsFiniteSet(draft'.touched)
        /\ Cardinality(draft'.touched) =< Limits.accounts
    BY <1>4, <2>2, <2>3, TouchesOneMore DEF touched
  <2>5. draft'.withdrawals \in Seq(SignedWithdrawal)
        /\ \A i \in DOMAIN draft'.withdrawals : draft'.withdrawals[i].account \in draft'.touched
    BY <1>0, <2>3, OneEntryMore
  <2> QED BY <1>0, <2>3, <2>4, <2>5 DEF DraftOK
<1> QED BY <1>1, <1>2, <1>3, <1>4

-----------------------------------------------------------------------------
(* Building                                                                *)

\* Ranks count from 1.
LEMMA RankType ==
    ASSUME DraftOK, NEW id
    PROVE  Rank(id) \in Nat \ {0}
<1> DEFINE S == {j \in draft.touched : j < id}
<1>1. IsFiniteSet(S)
  BY FS_Subset DEF DraftOK
<1>2. Cardinality(S) \in Nat
  BY <1>1, FS_CardinalityType
<1>3. Rank(id) = Cardinality(S) + 1
  BY DEF Rank
<1> HIDE DEF S
<1> QED BY <1>2, <1>3

\* The places of the orders of a market and side.
SideSet(m, side) == {i \in DOMAIN draft.orders : /\ draft.orders[i].market = m
                                                /\ draft.orders[i].side = side}

\* Orders of one side can be compared, by price and then by sequence.
LEMMA SidesSort ==
    ASSUME DraftOK, NEW m, NEW side
    PROVE  /\ SideSet(m, side) \in SUBSET Nat /\ IsFiniteSet(SideSet(m, side))
           /\ SortedSide(m, side) \in SetToSeqs(SideSet(m, side))
           /\ \A i \in 1..(Len(SortedSide(m, side)) - 1) :
                 Precedes(draft.orders[SortedSide(m, side)[i]], draft.orders[SortedSide(m, side)[i + 1]])
<1> DEFINE os == draft.orders
           S == SideSet(m, side)
           R == {p \in S \X S : Precedes(os[p[1]], os[p[2]])}
           Up(s) == \A i \in 1..(Len(s) - 1) : Precedes(os[s[i]], os[s[i + 1]])
<1>1. /\ os \in Seq(SignedOrder)
      /\ \A i, j \in DOMAIN os : os[i].sequence = os[j].sequence => i = j
  BY DEF DraftOK
<1>2. DOMAIN os = 1..Len(os) /\ Len(os) \in Nat
  BY <1>1
<1>3. S \in SUBSET DOMAIN os /\ \A i \in S : os[i].side = side
  BY DEF SideSet
<1>4. IsFiniteSet(S) /\ S \in SUBSET Nat
  <2> HIDE DEF S, os
  <2>1. IsFiniteSet(DOMAIN os) /\ DOMAIN os \in SUBSET Nat
    BY <1>2, FS_Interval
  <2> QED BY <1>3, <2>1, FS_Subset
<1>5. \A i \in DOMAIN os : os[i].price \in Int /\ os[i].sequence \in Int
  <2> SUFFICES ASSUME NEW i \in DOMAIN os PROVE os[i].price \in Int /\ os[i].sequence \in Int
    OBVIOUS
  <2>1. os[i] \in SignedOrder
    BY <1>1
  <2>2. os[i].price \in 0..MaxAmount /\ os[i].sequence \in 0..Limits.u64
    BY <2>1 DEF SignedOrder
  <2> QED BY <2>2, SettlementAssumption, ExchangeAssumption
<1> HIDE DEF S, os
<1>6. Ordered(S, R)
  <2>1. \A a, b \in S : <<a, b>> \in R <=> Precedes(os[a], os[b])
    OBVIOUS
  <2>2. \A a, b \in S : a # b => Precedes(os[a], os[b]) \/ Precedes(os[b], os[a])
    BY <1>1, <1>3, <1>5 DEF Precedes
  <2>3. \A a, b, c \in S : Precedes(os[a], os[b]) /\ Precedes(os[b], os[c]) => Precedes(os[a], os[c])
    BY <1>3, <1>5 DEF Precedes
  <2> HIDE DEF R
  <2> QED BY <2>1, <2>2, <2>3 DEF Ordered
<1>7. PICK s \in SetToSeqs(S) : Sorted(s, R)
  <2> HIDE DEF R
  <2> QED BY <1>4, <1>6, SortedExists
<1>8. Up(s)
  BY <1>7 DEF Sorted
<1>9. SortedSide(m, side) = CHOOSE q \in SetToSeqs(S) : Up(q)
  BY DEF SortedSide, S, SideSet, os
<1> HIDE DEF Up
<1>10. SortedSide(m, side) \in SetToSeqs(S) /\ Up(SortedSide(m, side))
  BY <1>7, <1>8, <1>9
<1> QED BY <1>4, <1>10 DEF Up, S, os

\* The books are lists of places.
LEMMA BooksTyped ==
    ASSUME DraftOK
    PROVE  SortedBooks \in Seq(BookEntry)
<1> DEFINE os == draft.orders
           markets == {os[i].market : i \in DOMAIN os}
           used == Ascending(markets)
<1>1. os \in Seq(SignedOrder)
  BY DEF DraftOK
<1>2. markets \in SUBSET Int
  <2>1. \A o \in SignedOrder : o.market \in Int
    BY DEF SignedOrder
  <2> QED BY <1>1, <2>1
<1>3. IsFiniteSet(markets)
  <2>1. IsFiniteSet(DOMAIN os)
    <3>1. DOMAIN os = 1..Len(os) /\ Len(os) \in Nat
      BY <1>1
    <3> QED BY <3>1, FS_Interval
  <2> DEFINE M == {os[i].market : i \in DOMAIN os}
             f == [i \in DOMAIN os |-> os[i].market]
  <2>2. f \in Surjection(DOMAIN os, M)
    BY DEF Surjection
  <2> HIDE DEF f, M
  <2>3. IsFiniteSet(M)
    BY <2>1, <2>2, FS_Surjection
  <2> QED BY <2>3 DEF M
<1> HIDE DEF os
<1>4. used \in SetToSeqs(markets)
  BY <1>2, <1>3, AscendingLists
<1>5. used \in Seq(markets)
  BY <1>3, <1>4, Enumerates
<1>6. SortedBooks = [k \in DOMAIN used |-> [market |-> used[k], buys |-> SortedSide(used[k], "buy"),
                                            sells |-> SortedSide(used[k], "sell")]]
  BY DEF SortedBooks, os
<1>7. \A m, side : SortedSide(m, side) \in Seq(Nat)
  <2> SUFFICES ASSUME NEW m, NEW side PROVE SortedSide(m, side) \in Seq(Nat)
    OBVIOUS
  <2>1. /\ SideSet(m, side) \in SUBSET Nat /\ IsFiniteSet(SideSet(m, side))
        /\ SortedSide(m, side) \in SetToSeqs(SideSet(m, side))
    BY SidesSort
  <2>2. SortedSide(m, side) \in Seq(SideSet(m, side))
    BY <2>1, Enumerates
  <2> QED BY <2>1, <2>2
<1> HIDE DEF markets, used
<1>8. used \in Seq(Int)
  <2>1. used \in [1..Len(used) -> markets] /\ Len(used) \in Nat
    BY <1>5
  <2>2. used \in [1..Len(used) -> Int]
    BY <1>2, <2>1
  <2> QED BY <2>1, <2>2, IsASeq
<1>9. \A k \in DOMAIN used :
         [market |-> used[k], buys |-> SortedSide(used[k], "buy"), sells |-> SortedSide(used[k], "sell")]
           \in BookEntry
  BY <1>7, <1>8 DEF BookEntry
<1> QED BY <1>6, <1>8, <1>9

\* What is made of a list entry by entry is a list of the same length.
LEMMA MappedList ==
    ASSUME NEW S, NEW list \in Seq(S), NEW T, NEW f, f = [i \in DOMAIN list |-> f[i]],
           \A i \in DOMAIN list : f[i] \in T
    PROVE  f \in Seq(T) /\ Len(f) = Len(list) /\ DOMAIN f = DOMAIN list
OBVIOUS

\* Queue entries with an index are queue entries of the guest.
LEMMA InputsTyped ==
    ASSUME DraftOK, NEW list \in Seq(QueueItem)
    PROVE  IndexedInputs(list) \in Seq(QueueEntry)
<1>1. \A i \in DOMAIN list :
         [id |-> list[i].id, account |-> list[i].account, asset |-> list[i].asset,
          amount |-> list[i].amount, index |-> Rank(list[i].account)] \in QueueEntry
  <2> SUFFICES ASSUME NEW i \in DOMAIN list
               PROVE  [id |-> list[i].id, account |-> list[i].account, asset |-> list[i].asset,
                       amount |-> list[i].amount, index |-> Rank(list[i].account)] \in QueueEntry
    OBVIOUS
  <2>1. list[i] \in QueueItem /\ Rank(list[i].account) \in Nat \ {0}
    BY RankType
  <2> QED BY <2>1 DEF QueueItem, QueueEntry
<1> QED BY <1>1 DEF IndexedInputs

\* The operations of the batch are operations of the guest.
LEMMA OperationsTyped ==
    ASSUME DraftOK
    PROVE  IndexedOrders \in Seq(OrderEntry) /\ IndexedWithdrawals \in Seq(WithdrawalEntry)
<1> DEFINE os == draft.orders
           wds == draft.withdrawals
<1>1. os \in Seq(SignedOrder) /\ wds \in Seq(SignedWithdrawal)
  BY DEF DraftOK
<1>2. ASSUME NEW i \in DOMAIN os
      PROVE  [market |-> os[i].market, side |-> os[i].side, price |-> os[i].price,
              quantity |-> os[i].quantity, nonce |-> os[i].nonce, trader |-> os[i].trader,
              sequence |-> os[i].sequence, signed |-> os[i].signed,
              index |-> Rank(os[i].trader)] \in OrderEntry
  <2>1. os[i] \in SignedOrder /\ Rank(os[i].trader) \in Nat \ {0}
    BY <1>1, RankType
  <2> QED BY <2>1 DEF SignedOrder, OrderEntry
<1>3. ASSUME NEW i \in DOMAIN wds
      PROVE  [account |-> wds[i].account, recipient |-> wds[i].recipient, asset |-> wds[i].asset,
              amount |-> wds[i].amount, nonce |-> wds[i].nonce, signed |-> wds[i].signed,
              index |-> Rank(wds[i].account)] \in WithdrawalEntry
  <2>1. wds[i] \in SignedWithdrawal /\ Rank(wds[i].account) \in Nat \ {0}
    BY <1>1, RankType
  <2> QED BY <2>1 DEF SignedWithdrawal, WithdrawalEntry
<1>4. IndexedOrders \in Seq(OrderEntry)
  <2>1. DOMAIN IndexedOrders = DOMAIN os
    BY DEF IndexedOrders
  <2>2. \A i \in DOMAIN os : IndexedOrders[i] \in OrderEntry
    BY <1>2 DEF IndexedOrders
  <2>3. IndexedOrders = [i \in DOMAIN os |-> IndexedOrders[i]]
    BY DEF IndexedOrders
  <2> QED BY <1>1, <2>1, <2>2, <2>3, MappedList
<1>5. IndexedWithdrawals \in Seq(WithdrawalEntry)
  <2>1. DOMAIN IndexedWithdrawals = DOMAIN wds
    BY DEF IndexedWithdrawals
  <2>2. \A i \in DOMAIN wds : IndexedWithdrawals[i] \in WithdrawalEntry
    BY <1>3 DEF IndexedWithdrawals
  <2>3. IndexedWithdrawals = [i \in DOMAIN wds |-> IndexedWithdrawals[i]]
    BY DEF IndexedWithdrawals
  <2> QED BY <1>1, <2>1, <2>2, <2>3, MappedList
<1> QED BY <1>4, <1>5

\* The witness lists the touched accounts that exist.
LEMMA WitnessLists ==
    ASSUME AccountsOK(tree), DraftOK
    PROVE  /\ Witness \in Seq(RawAccount)
           /\ Len(Witness) = Len(Ascending(draft.touched \cap DOMAIN tree))
           /\ \A i \in DOMAIN Witness : Witness[i].id = Ascending(draft.touched \cap DOMAIN tree)[i]
           /\ \A i \in DOMAIN Witness : Witness[i] = tree[Witness[i].id]
<1> DEFINE ids == draft.touched \cap DOMAIN tree
           list == Ascending(ids)
<1>1. ids \in SUBSET Int /\ ids \in SUBSET DOMAIN tree /\ IsFiniteSet(ids)
  <2>1. ids \in SUBSET draft.touched /\ IsFiniteSet(draft.touched) /\ draft.touched \in SUBSET Ids
    BY DEF DraftOK
  <2> QED BY <2>1, FS_Subset, SettlementAssumption
<1> HIDE DEF ids
<1>2. list \in Seq(ids)
  BY <1>1, AscendingLists, Enumerates
<1>3. Witness = [i \in DOMAIN list |-> tree[list[i]]]
  BY DEF Witness, ids
<1> HIDE DEF list
<1>4. \A i \in DOMAIN list : tree[list[i]] \in RawAccount /\ tree[list[i]].id = list[i]
  <2>1. \A id \in DOMAIN tree : tree[id] \in RawAccount /\ tree[id].id = id
    BY DEF AccountsOK
  <2>2. \A i \in DOMAIN list : list[i] \in ids
    BY <1>2
  <2> QED BY <1>1, <2>1, <2>2
<1>5. Witness \in Seq(RawAccount) /\ Len(Witness) = Len(list) /\ DOMAIN Witness = DOMAIN list
  BY <1>2, <1>3, <1>4
<1>6. \A i \in DOMAIN Witness : Witness[i].id = list[i] /\ Witness[i] = tree[list[i]]
  BY <1>3, <1>4, <1>5
<1> QED BY <1>5, <1>6 DEF list, ids

\* What the builder builds is of the type the guest is called with.
LEMMA BuiltIsTyped ==
    ASSUME AccountsOK(tree), DraftOK, CursorsOK
    PROVE  BatchIn(BatchInput)
<1>1. /\ BatchInput.accounts = Witness
      /\ BatchInput.deposits = IndexedInputs(draft.deposits)
      /\ BatchInput.forced = IndexedInputs(draft.forced)
      /\ BatchInput.withdrawals = IndexedWithdrawals /\ BatchInput.orders = IndexedOrders
      /\ BatchInput.orderBooks = SortedBooks /\ BatchInput.rest = Untouched
      /\ BatchInput.depositCursor = cursors.deposits /\ BatchInput.forcedCursor = cursors.forced
  BY DEF BatchInput
<1>2. Witness \in Seq(RawAccount)
  BY WitnessLists
<1>3. IndexedInputs(draft.deposits) \in Seq(QueueEntry) /\ IndexedInputs(draft.forced) \in Seq(QueueEntry)
  BY InputsTyped DEF DraftOK
<1>4. IndexedOrders \in Seq(OrderEntry) /\ IndexedWithdrawals \in Seq(WithdrawalEntry)
  BY OperationsTyped
<1>5. SortedBooks \in Seq(BookEntry)
  BY BooksTyped
<1>6. /\ IsFiniteSet(DOMAIN Untouched) /\ DOMAIN Untouched \subseteq Ids
      /\ Untouched \in [DOMAIN Untouched -> RawAccount]
  <2>1. /\ IsFiniteSet(DOMAIN tree) /\ DOMAIN tree \subseteq Ids
        /\ \A id \in DOMAIN tree : tree[id] \in RawAccount
    BY DEF AccountsOK
  <2> DEFINE D == DOMAIN tree \ draft.touched
  <2>2. Untouched = [id \in D |-> tree[id]] /\ D \in SUBSET DOMAIN tree
    BY DEF Untouched
  <2>3. IsFiniteSet(D)
    BY <2>1, <2>2, FS_Subset
  <2> HIDE DEF D
  <2> QED BY <2>1, <2>2, <2>3
<1>7. cursors.deposits \in 0..Limits.u64 /\ cursors.forced \in 0..Limits.u64
  BY DEF CursorsOK
<1> QED BY <1>1, <1>2, <1>3, <1>4, <1>5, <1>6, <1>7 DEF BatchIn

-----------------------------------------------------------------------------
(* Calling the guest                                                       *)

\* What is built depends on the host alone, which waits for the guest.
LEMMA BuiltStays ==
    ASSUME UNCHANGED <<tree, draft, cursors>>
    PROVE  BatchInput' = BatchInput
<1>1. tree' = tree /\ draft' = draft /\ cursors' = cursors
  OBVIOUS
<1>2. \A id : Rank(id)' = Rank(id)
  BY <1>1 DEF Rank
<1>3. Witness' = Witness
  BY <1>1 DEF Witness
<1>4. Untouched' = Untouched
  BY <1>1 DEF Untouched
<1>5. \A list : IndexedInputs(list)' = IndexedInputs(list)
  BY <1>2 DEF IndexedInputs
<1>6. IndexedOrders' = IndexedOrders
  BY <1>1, <1>2 DEF IndexedOrders
<1>7. IndexedWithdrawals' = IndexedWithdrawals
  BY <1>1, <1>2 DEF IndexedWithdrawals
<1>8. \A m, side : SortedSide(m, side)' = SortedSide(m, side)
  BY <1>1 DEF SortedSide
<1>9. SortedBooks' = SortedBooks
  BY <1>1, <1>8 DEF SortedBooks
<1>10. IndexedInputs(draft.deposits)' = IndexedInputs(draft.deposits)
  BY <1>1, <1>2 DEF IndexedInputs
<1>11. IndexedInputs(draft.forced)' = IndexedInputs(draft.forced)
  BY <1>1, <1>2 DEF IndexedInputs
<1> QED BY <1>1, <1>3, <1>4, <1>6, <1>7, <1>9, <1>10, <1>11 DEF BatchInput

\* A call of the guest establishes its invariants.
LEMMA CalledNext == SettleInit' => SettleInv' /\ LedgerInv'
BY SettleStarts, LedgerStarts, PTL

\* build calls the guest with a batch of which nothing is done yet.
LEMMA BuildKeeps ==
    ASSUME HostInv, Build
    PROVE  HostInv'
<1>1. /\ stage = "building" /\ stage' = "validate" /\ input' = BatchInput
      /\ accounts' = accounts /\ books' = books /\ sweep' = sweep /\ trades' = trades
      /\ tracker' = tracker /\ drained' = drained /\ output' = output
      /\ tree' = tree /\ draft' = draft /\ cursors' = cursors /\ custody' = custody /\ spent' = spent
  BY DEF Build, hostVars
<1>2. /\ AccountsOK(tree) /\ DraftOK /\ CursorsOK /\ Backing /\ SpentOK /\ Called(<<>>)
  BY <1>1 DEF HostInv
<1>3. AccountsOK(tree)' /\ DraftOK' /\ CursorsOK' /\ Backing' /\ SpentOK'
  BY <1>1, <1>2 DEF AccountsOK, DraftOK, CursorsOK, Backing, SpentOK
<1>4. PICK in : in = BatchInput
  OBVIOUS
<1>5. BatchIn(in)
  BY <1>2, <1>4, BuiltIsTyped
<1>6. Called(in)'
  BY <1>1, <1>2, <1>4 DEF Called, MatchStart, sweep
<1>7. SettleInit'
  BY <1>1, <1>5, <1>6 DEF SettleInit
<1>8. SettleInv' /\ LedgerInv'
  BY <1>7, CalledNext
<1>9. BatchInput' = BatchInput
  BY <1>1, BuiltStays
<1>10. WithGuest'
  BY <1>1, <1>8, <1>9 DEF WithGuest
<1> QED BY <1>1, <1>3, <1>10 DEF HostInv

\* The guest never changes its input, and it checks the requests before it drains them.
LEMMA RequestsStayChecked ==
    ASSUME SettleInv, SettleNext,
           stage \notin {"validate", "deposits", "forced", "rejected"} => ValidForcedWithdrawals
    PROVE  /\ input' = input
           /\ stage # "building"
           /\ stage' \notin {"validate", "deposits", "forced", "rejected"} => ValidForcedWithdrawals'
<1>1. input' = input
  BY DEF SettleNext, Validate, InvalidInput, ApplyDeposits, DepositsFail, ApplyForced, ForcedFail,
         ValidateOperations, InvalidOperations, ApplyOperations, ApplyFails, Match, Conclude,
         CannotConclude, Reject
<1>2. ValidForcedWithdrawals => ValidForcedWithdrawals'
  BY <1>1 DEF ValidForcedWithdrawals
<1>3. \/ stage' \in {"validate", "deposits", "forced", "rejected"}
      \/ ValidForcedWithdrawals
      \/ stage \notin {"validate", "deposits", "forced", "rejected"}
  BY DEF SettleNext, Validate, InvalidInput, ApplyDeposits, DepositsFail, ApplyForced, ForcedOK,
         ForcedFail, ValidateOperations, InvalidOperations, ApplyOperations, ApplyFails, Match,
         MatchNext, Fill, FillFails, NextBook, EndMatching, Conclude, CannotConclude, Reject
<1>4. stage # "building"
  BY DEF SettleInv, Before
<1> QED BY <1>1, <1>2, <1>3, <1>4

\* While the guest works nothing of the host changes.
LEMMA GuestKeeps ==
    ASSUME HostInv, Settle
    PROVE  HostInv'
<1>1. /\ SettleNext /\ tree' = tree /\ draft' = draft /\ cursors' = cursors
      /\ custody' = custody /\ spent' = spent
  BY DEF Settle, hostVars
<1>2. stage # "building"
  BY <1>1
  DEF SettleNext, Validate, InvalidInput, ApplyDeposits, DepositsFail, ApplyForced, ForcedFail,
      ValidateOperations, InvalidOperations, ApplyOperations, ApplyFails, Match, MatchNext, Fill,
      FillFails, NextBook, EndMatching, Conclude, CannotConclude
<1>3. AccountsOK(tree) /\ DraftOK /\ CursorsOK /\ Backing /\ SpentOK /\ WithGuest
  BY <1>2 DEF HostInv
<1>4. AccountsOK(tree)' /\ DraftOK' /\ CursorsOK' /\ Backing' /\ SpentOK'
  BY <1>1, <1>3 DEF AccountsOK, DraftOK, CursorsOK, Backing, SpentOK
<1>5. SettleInv' /\ LedgerInv'
  BY <1>1, <1>3, SettleStep, LedgerStep DEF WithGuest
<1>6. /\ input' = input
      /\ stage' \notin {"validate", "deposits", "forced", "rejected"} => ValidForcedWithdrawals'
  BY <1>1, <1>3, RequestsStayChecked DEF WithGuest
<1>7. BatchInput' = BatchInput
  BY <1>1, BuiltStays
<1>8. stage' # "building"
  BY <1>5 DEF SettleInv, Before
<1>9. WithGuest'
  BY <1>3, <1>5, <1>6, <1>7 DEF WithGuest
<1> QED BY <1>4, <1>8, <1>9 DEF HostInv

-----------------------------------------------------------------------------
(* Applying an accepted batch                                              *)

\* What an accepted batch hands back refers to the host's own ledger.
LEMMA OutputIsOfTheTree ==
    ASSUME HostInv, stage = "settled"
    PROVE  /\ Accepted /\ WithGuest /\ input.rest = Untouched /\ input.expectedRoot = tree
           /\ output.oldRoot = tree /\ output.newRoot = Root(accounts, input.rest)
           /\ output.accounts = accounts /\ output.forced = drained
           /\ output.withdrawals = input.withdrawals
           /\ Root(input.accounts, input.rest) = tree
<1>1. WithGuest
  BY DEF HostInv
<1>2. Accepted
  BY <1>1, SettledIsAccepted DEF WithGuest
<1>3. input.rest = Untouched /\ input.expectedRoot = tree
  BY <1>1 DEF WithGuest, BatchInput
<1>4. /\ output.oldRoot = input.expectedRoot /\ output.newRoot = Root(accounts, input.rest)
      /\ output.accounts = accounts /\ output.forced = drained
      /\ output.withdrawals = input.withdrawals
  BY <1>2 DEF Accepted, Outputs
<1>5. Root(input.accounts, input.rest) = input.expectedRoot
  BY <1>2 DEF Accepted
<1> QED BY <1>1, <1>2, <1>3, <1>4, <1>5

\* Applying the accounts of the batch to the tree gives the ledger the batch commits to:
\* the guest has listed every touched account there is.
LEMMA AppliedIsNewRoot ==
    ASSUME HostInv, stage = "settled"
    PROVE  Applied(tree, output.accounts) = output.newRoot
<1> DEFINE rest == input.rest
           I == {accounts[i].id : i \in DOMAIN accounts}
           J == {input.accounts[i].id : i \in DOMAIN input.accounts}
           pick(id) == CHOOSE a \in ToSet(accounts) : a.id = id
<1>1. /\ Accepted /\ output.accounts = accounts /\ output.newRoot = Root(accounts, rest)
      /\ Root(input.accounts, rest) = tree /\ rest = Untouched
  BY OutputIsOfTheTree
<1>2. I \cap DOMAIN rest = {}
  BY <1>1 DEF Accepted, Provable
<1>3. J \in SUBSET I
  <2>1. Joined(input, accounts)
    BY <1>1 DEF Accepted
  <2> QED BY <2>1 DEF Joined, Has
<1>4. DOMAIN tree = J \cup DOMAIN rest
  <2>1. DOMAIN Root(input.accounts, rest) = J \cup DOMAIN rest
    BY DEF Root
  <2> QED BY <1>1, <2>1
<1>5. \A id \in DOMAIN rest : rest[id] = tree[id]
  BY <1>1 DEF Untouched
<1>6. Root(accounts, rest) = [id \in I \cup DOMAIN rest |-> IF id \in DOMAIN rest THEN rest[id] ELSE pick(id)]
  BY DEF Root
<1>7. Applied(tree, accounts)
        = [id \in DOMAIN tree \cup I |-> IF \E i \in DOMAIN accounts : accounts[i].id = id THEN pick(id) ELSE tree[id]]
  BY DEF Applied
<1>8. \A id : (\E i \in DOMAIN accounts : accounts[i].id = id) <=> id \in I
  OBVIOUS
<1> HIDE DEF rest, I, J, pick
<1>9. DOMAIN tree \cup I = I \cup DOMAIN rest
  BY <1>3, <1>4
<1>10. \A id \in I \cup DOMAIN rest :
          (IF \E i \in DOMAIN accounts : accounts[i].id = id THEN pick(id) ELSE tree[id])
            = (IF id \in DOMAIN rest THEN rest[id] ELSE pick(id))
  BY <1>2, <1>5, <1>8
<1>11. Applied(tree, accounts) = Root(accounts, rest)
  BY <1>6, <1>7, <1>9, <1>10
<1> QED BY <1>1, <1>11

\* The ledger an accepted batch commits to is well formed.
LEMMA NewRootOK ==
    ASSUME HostInv, stage = "settled"
    PROVE  AccountsOK(output.newRoot)
<1> DEFINE new == output.newRoot
<1>1. /\ Accepted /\ WithGuest /\ new = Root(accounts, input.rest) /\ input.rest = Untouched
  BY OutputIsOfTheTree
<1>2. /\ BatchIn(input) /\ accounts \in Seq(AnAccount) /\ Canonical(accounts)
      /\ Provable(accounts, input)
  BY <1>1 DEF Accepted
<1>3. \A i \in DOMAIN accounts : accounts[i].id \in Ids /\ accounts[i].nonce \in 0..Limits.u64
  BY <1>1 DEF WithGuest, SettleInv, WitnessOK
<1>4. \A id : /\ id \in DOMAIN new <=> Has(accounts, id) \/ id \in DOMAIN input.rest
              /\ Has(accounts, id) => /\ new[id] = accounts[PlaceOf(accounts, id)]
                                      /\ PlaceOf(accounts, id) \in DOMAIN accounts
              /\ id \in DOMAIN input.rest => new[id] = input.rest[id]
  BY <1>1, <1>2, RootCommits
<1>5. DOMAIN new = IdsOf(accounts) \cup DOMAIN input.rest
  <2>1. DOMAIN Root(accounts, input.rest) = {accounts[i].id : i \in DOMAIN accounts} \cup DOMAIN input.rest
    BY DEF Root
  <2> QED BY <1>1, <2>1 DEF IdsOf
<1>6. new = [id \in DOMAIN new |-> new[id]]
  <2>1. Root(accounts, input.rest) = [id \in DOMAIN Root(accounts, input.rest) |-> Root(accounts, input.rest)[id]]
    BY DEF Root
  <2> QED BY <1>1, <2>1
<1>7. IsFiniteSet(DOMAIN new)
  <2>1. IsFiniteSet(IdsOf(accounts)) /\ IsFiniteSet(DOMAIN input.rest)
    BY <1>2, IdsAreFinite DEF BatchIn
  <2> QED BY <1>5, <2>1, FS_Union
<1> HIDE DEF new
<1>8. ASSUME NEW id \in DOMAIN new
      PROVE  /\ id \in Ids /\ new[id] \in RawAccount /\ new[id].id = id
             /\ \A x \in DOMAIN new[id].balances : new[id].balances[x] # 0
  <2>1. CASE Has(accounts, id)
    <3> DEFINE i == PlaceOf(accounts, id)
    <3>1. new[id] = accounts[i] /\ i \in DOMAIN accounts
      BY <1>4, <2>1
    <3>2. accounts[i].id = id
      BY <2>1 DEF Has, PlaceOf
    <3> HIDE DEF i
    <3>3. accounts[i] \in AnAccount /\ accounts[i].id \in Ids /\ accounts[i].nonce \in 0..Limits.u64
      BY <1>2, <1>3, <3>1
    <3>4. accounts[i].balances \in UNION {[held -> 0..MaxAmount] : held \in SUBSET Assets}
      <4>1. accounts[i].balances \in Holdings
        BY <3>3 DEF AnAccount
      <4>2. PICK held \in SUBSET Assets : accounts[i].balances \in [held -> 1..MaxAmount]
        BY <4>1 DEF Holdings
      <4>3. 1..MaxAmount \subseteq 0..MaxAmount
        BY ExchangeAssumption
      <4>4. accounts[i].balances \in [held -> 0..MaxAmount]
        BY <4>2, <4>3
      <4> QED BY <4>4
    <3>5. accounts[i] \in RawAccount
      BY <3>3, <3>4 DEF AnAccount, RawAccount
    <3>6. \A x \in DOMAIN accounts[i].balances : accounts[i].balances[x] # 0
      BY <1>2, <3>1 DEF Canonical
    <3> QED BY <3>1, <3>2, <3>3, <3>5, <3>6
  <2>2. CASE id \in DOMAIN input.rest
    <3>1. new[id] = tree[id] /\ id \in DOMAIN tree
      BY <1>1, <1>4, <2>2 DEF Untouched
    <3> QED BY <3>1 DEF HostInv, AccountsOK
  <2> QED BY <1>4, <2>1, <2>2
<1>9. new \in [DOMAIN new -> RawAccount] /\ DOMAIN new \subseteq Ids
  BY <1>6, <1>8
<1> QED BY <1>7, <1>8, <1>9 DEF AccountsOK, new

\* An accepted operation carries a nonce its account had not used, and now has.
LEMMA OperationsSpend ==
    ASSUME HostInv, stage = "settled", NEW op \in ToSet(Operations)
    PROVE  LET id == IF "trader" \in DOMAIN op THEN op.trader ELSE op.account
           IN  /\ id \in Ids /\ op.nonce \in Nat /\ id \in DOMAIN output.newRoot
               /\ NonceIn(tree, id) =< op.nonce /\ op.nonce < output.newRoot[id].nonce
<1> DEFINE id == IF "trader" \in DOMAIN op THEN op.trader ELSE op.account
           new == output.newRoot
<1>1. /\ Accepted /\ WithGuest /\ output.oldRoot = tree /\ new = Root(accounts, input.rest)
  BY OutputIsOfTheTree
<1>2. BatchIn(input) /\ Operations = OpsOf(input)
  BY <1>1 DEF Accepted, Operations, OpsOf
<1>3. Operations \in Seq(OrderEntry \cup WithdrawalEntry)
  BY <1>2, OperationsAreFinite
<1>4. PICK k \in DOMAIN Operations : op = Operations[k]
  BY DEF ToSet
<1>5. op \in OrderEntry \cup WithdrawalEntry
  BY <1>3, <1>4
<1>6. id \in Ids /\ op.nonce \in 0..Limits.u64
  <2>1. CASE op \in OrderEntry
    <3>1. "trader" \in DOMAIN op /\ op.trader \in Ids /\ op.nonce \in 0..Limits.u64
      BY <2>1 DEF OrderEntry
    <3> QED BY <3>1
  <2>2. CASE op \in WithdrawalEntry
    <3>1. "trader" \notin DOMAIN op /\ op.account \in Ids /\ op.nonce \in 0..Limits.u64
      BY <2>2 DEF WithdrawalEntry
    <3> QED BY <3>1
  <2> QED BY <1>5, <2>1, <2>2
<1>7. OwnedBy(op, id)
  BY DEF OwnedBy
<1> HIDE DEF id, new
<1>8. k \in OwnOps(input, id)
  BY <1>2, <1>4, <1>7 DEF OwnOps
<1>9. Has(accounts, id)
  BY <1>1, <1>8 DEF Accepted, NoncesUsed
<1>10. id \in DOMAIN new
  BY <1>1, <1>9, RootCommits DEF Accepted
<1>11. op.nonce \in NonceIn(tree, id)..(NonceIn(new, id) - 1)
  <2>1. NoncesUsedUp
    BY <1>1, BatchUsesNonces DEF WithGuest
  <2>2. {Operations[j].nonce : j \in {j \in DOMAIN Operations : OwnedBy(Operations[j], id)}}
          = NonceIn(tree, id)..(NonceIn(new, id) - 1)
    BY <1>1, <1>10, <2>1 DEF NoncesUsedUp, new
  <2> QED BY <1>4, <1>7, <2>2
<1>12. NonceIn(tree, id) \in Int /\ NonceIn(new, id) = new[id].nonce /\ new[id].nonce \in Int
  <2>1. AccountsOK(tree) /\ AccountsOK(new)
    BY NewRootOK DEF HostInv, new
  <2>2. \A accs, a : AccountsOK(accs) /\ a \in DOMAIN accs => accs[a].nonce \in 0..Limits.u64
    BY DEF AccountsOK, RawAccount
  <2>3. \A n \in 0..Limits.u64 : n \in Int
    BY SettlementAssumption
  <2> QED BY <1>10, <2>1, <2>2, <2>3 DEF NonceIn
<1>13. op.nonce \in Nat
  BY <1>6, SettlementAssumption
<1> QED BY <1>6, <1>10, <1>11, <1>12, <1>13 DEF id, new

\* No account is closed and no nonce goes back.
LEMMA AccountsStay ==
    ASSUME HostInv, stage = "settled", NEW id \in DOMAIN tree
    PROVE  id \in DOMAIN output.newRoot /\ output.newRoot[id].nonce >= tree[id].nonce
<1> DEFINE new == output.newRoot
<1>1. /\ Accepted /\ WithGuest /\ output.oldRoot = tree /\ new = Root(accounts, input.rest)
      /\ Root(input.accounts, input.rest) = tree
  BY OutputIsOfTheTree
<1>2. BatchIn(input) /\ Operations = OpsOf(input)
  BY <1>1 DEF Accepted, Operations, OpsOf
<1>3. id \in DOMAIN new
  <2>1. new = Applied(tree, output.accounts)
    BY AppliedIsNewRoot
  <2> QED BY <2>1 DEF Applied
<1> HIDE DEF new
<1> DEFINE ops == {k \in DOMAIN Operations : OwnedBy(Operations[k], id)}
<1>4. NonceIn(new, id) = NonceIn(tree, id) + Cardinality(ops)
  <2>1. NoncesUsedUp
    BY <1>1, BatchUsesNonces DEF WithGuest
  <2> QED BY <1>1, <1>3, <2>1 DEF NoncesUsedUp, new
<1>5. Cardinality(ops) \in Nat
  <2>1. Operations \in Seq(OrderEntry \cup WithdrawalEntry)
    BY <1>2, OperationsAreFinite
  <2>2. IsFiniteSet(DOMAIN Operations)
    <3>1. DOMAIN Operations = 1..Len(Operations) /\ Len(Operations) \in Nat
      BY <2>1
    <3> QED BY <3>1, FS_Interval
  <2>3. IsFiniteSet(ops)
    BY <2>2, FS_Subset
  <2> QED BY <2>3, FS_CardinalityType
<1>6. tree[id].nonce \in Int
  <2>1. tree[id].nonce \in 0..Limits.u64
    BY DEF HostInv, AccountsOK, RawAccount
  <2> QED BY <2>1, SettlementAssumption
<1>7. NonceIn(new, id) = new[id].nonce /\ NonceIn(tree, id) = tree[id].nonce
  BY <1>3 DEF NonceIn
<1> HIDE DEF ops
<1> QED BY <1>3, <1>4, <1>5, <1>6, <1>7 DEF new

\* The nonces of the batch join those that are spent.
LEMMA SpentStays ==
    ASSUME HostInv, Apply
    PROVE  SpentOK'
<1> DEFINE new == output.newRoot
           pair(op) == <<IF "trader" \in DOMAIN op THEN op.trader ELSE op.account, op.nonce>>
<1>1. /\ stage = "settled" /\ tree' = new /\ spent' = spent \cup {pair(op) : op \in ToSet(Operations)}
  BY AppliedIsNewRoot DEF Apply
<1>2. \A op \in ToSet(Operations) :
         LET id == IF "trader" \in DOMAIN op THEN op.trader ELSE op.account
         IN  /\ id \in Ids /\ op.nonce \in Nat /\ id \in DOMAIN new
             /\ NonceIn(tree, id) =< op.nonce /\ op.nonce < new[id].nonce
  BY <1>1, OperationsSpend
<1>3. SpentOK /\ AccountsOK(tree) /\ AccountsOK(new)
  BY <1>1, NewRootOK DEF HostInv
<1>4. \A id \in DOMAIN tree : id \in DOMAIN new /\ new[id].nonce >= tree[id].nonce
  BY <1>1, AccountsStay
<1>5. /\ \A id \in DOMAIN tree : tree[id].nonce \in Int
      /\ \A id \in DOMAIN new : new[id].nonce \in Int
  <2>1. \A accs, a : AccountsOK(accs) /\ a \in DOMAIN accs => accs[a].nonce \in 0..Limits.u64
    BY DEF AccountsOK, RawAccount
  <2>2. \A n \in 0..Limits.u64 : n \in Int
    BY SettlementAssumption
  <2> QED BY <1>3, <2>1, <2>2
<1> HIDE DEF new
<1>6. spent' \in SUBSET (Ids \X Nat)
  BY <1>1, <1>2, <1>3 DEF SpentOK
<1>7. ASSUME NEW id \in Ids, NEW n \in Nat, <<id, n>> \in spent'
      PROVE  id \in DOMAIN new /\ n < new[id].nonce
  <2>1. CASE <<id, n>> \in spent
    <3>1. id \in DOMAIN tree /\ n < tree[id].nonce
      BY <1>3, <2>1 DEF SpentOK
    <3> QED BY <1>4, <1>5, <3>1
  <2>2. CASE <<id, n>> \notin spent
    <3>1. PICK op \in ToSet(Operations) : <<id, n>> = pair(op)
      BY <1>1, <1>7, <2>2
    <3>2. n = op.nonce /\ id = IF "trader" \in DOMAIN op THEN op.trader ELSE op.account
      BY <3>1
    <3> QED BY <1>2, <3>2
  <2> QED BY <2>1, <2>2
<1> QED BY <1>1, <1>6, <1>7 DEF SpentOK

\* What the batch took in and paid out is what the ledger gains and loses.
LEMMA BackingStays ==
    ASSUME HostInv, Apply
    PROVE  Backing'
<1>1. /\ stage = "settled" /\ tree' = output.newRoot
      /\ custody' = [x \in Assets |-> custody[x] + Total(input.deposits, x)
                                        - Total(output.forced, x) - Total(output.withdrawals, x)]
  BY AppliedIsNewRoot DEF Apply
<1>2. /\ Accepted /\ output.oldRoot = tree /\ output.forced = drained
      /\ output.withdrawals = input.withdrawals
  BY <1>1, OutputIsOfTheTree
<1>3. custody \in [Assets -> Int] /\ \A x \in Assets : custody[x] = Guest!TotalOf(Ledger(tree), x)
  BY DEF HostInv, Backing
<1>4. BatchIn(input) /\ DrainedInTurn(input, drained)
  BY <1>2 DEF Accepted
<1>5. \A x \in Assets :
        Guest!TotalOf(Ledger(output.newRoot), x) + Guest!MovedTotal(drained, x)
            + Guest!MovedTotal(input.withdrawals, x)
          = Guest!TotalOf(Ledger(tree), x) + Guest!MovedTotal(input.deposits, x)
  BY <1>2, BatchConserves DEF Guest!Conserves
<1>6. \A x : /\ Total(input.deposits, x) \in Nat /\ Total(input.withdrawals, x) \in Nat
             /\ Total(drained, x) \in Nat
  <2>1. IsList(drained) /\ \A i \in DOMAIN drained : drained[i].amount \in Nat
    BY <1>4 DEF DrainedInTurn, IsList
  <2>2. \A x : Total(drained, x) \in Nat
    BY <2>1, EntriesTotal DEF IsList
  <2> QED BY <1>4, <2>2, InputTotals
<1>7. \A x \in Assets : Guest!TotalOf(Ledger(output.newRoot), x) \in Int
  <2> SUFFICES ASSUME NEW x \in Assets PROVE Guest!TotalOf(Ledger(output.newRoot), x) \in Int
    OBVIOUS
  <2>1. output.newRoot = Root(accounts, input.rest)
    BY <1>1, OutputIsOfTheTree
  <2>2. /\ BatchIn(input) /\ accounts \in Seq(AnAccount) /\ Canonical(accounts)
        /\ Provable(accounts, input)
    BY <1>2 DEF Accepted
  <2>3. /\ Guest!TotalOf(Ledger(output.newRoot), x) = Held(accounts, x) + RestHeld(x)
        /\ RestHeld(x) \in Int
    BY <2>1, <2>2, LedgerTotals
  <2>4. Held(accounts, x) \in Nat
    BY <2>2, HeldType
  <2> QED BY <2>3, <2>4
<1>8. ASSUME NEW x \in Assets
      PROVE  /\ custody[x] + Total(input.deposits, x) - Total(output.forced, x)
                  - Total(output.withdrawals, x) = Guest!TotalOf(Ledger(output.newRoot), x)
             /\ Guest!TotalOf(Ledger(output.newRoot), x) \in Int
  <2>1. /\ Guest!MovedTotal(drained, x) = Total(drained, x)
        /\ Guest!MovedTotal(input.withdrawals, x) = Total(input.withdrawals, x)
        /\ Guest!MovedTotal(input.deposits, x) = Total(input.deposits, x)
    BY GuestTotals
  <2>2. custody[x] \in Int
    BY <1>3
  <2> QED BY <1>2, <1>3, <1>5, <1>6, <1>7, <2>1, <2>2
<1>9. \A x \in Assets : custody'[x] = Guest!TotalOf(Ledger(output.newRoot), x)
  BY <1>1, <1>8
<1>10. custody' \in [Assets -> Int]
  BY <1>1, <1>8
<1>11. Ledger(tree)' = Ledger(output.newRoot)
  BY <1>1 DEF Ledger
<1>12. \A x \in Assets : Guest!TotalOf(Ledger(tree), x)' = Guest!TotalOf(Ledger(output.newRoot), x)
  BY <1>11 DEF Guest!TotalOf
<1> QED BY <1>9, <1>10, <1>12 DEF Backing

\* The cursors stay within the range of a queue id: the guest has checked both queues.
LEMMA CursorsStay ==
    ASSUME HostInv, Apply
    PROVE  CursorsOK'
<1>1. /\ stage = "settled"
      /\ cursors' = [deposits |-> output.newDepositCursor,
                     forced   |-> output.oldForcedCursor + Len(output.forced)]
  BY DEF Apply
<1>2. Accepted /\ WithGuest
  BY <1>1, OutputIsOfTheTree
<1>3. /\ output.newDepositCursor = input.depositCursor + Len(input.deposits)
      /\ output.oldForcedCursor = input.forcedCursor /\ output.forced = drained
  BY <1>2 DEF Accepted, Outputs
<1>4. Len(drained) = Len(input.forced)
  BY <1>2 DEF Accepted, DrainedInTurn
<1>5. /\ input.depositCursor \in 0..Limits.u64 /\ input.forcedCursor \in 0..Limits.u64
      /\ Len(input.deposits) \in Nat /\ Len(input.forced) \in Nat
  BY <1>2 DEF Accepted, BatchIn
<1>6. /\ input.depositCursor + Len(input.deposits) =< Limits.u64
      /\ input.forcedCursor + Len(input.forced) =< Limits.u64
  <2>1. ValidDeposits
    BY <1>2 DEF Accepted, InputOK
  <2>2. ValidForcedWithdrawals
    BY <1>1, <1>2 DEF WithGuest
  <2> QED BY <2>1, <2>2 DEF ValidDeposits, ValidForcedWithdrawals, InOrder
<1>7. /\ input.depositCursor + Len(input.deposits) \in 0..Limits.u64
      /\ input.forcedCursor + Len(input.forced) \in 0..Limits.u64
  BY <1>5, <1>6, SettlementAssumption
<1> QED BY <1>1, <1>3, <1>4, <1>7 DEF CursorsOK

\* For the next batch there is a new builder, and nothing is left of the guest.
LEMMA NextBatchStarts ==
    ASSUME NextBatch
    PROVE  stage' = "building" /\ Called(<<>>)' /\ DraftOK'
<1>1. stage' = "building" /\ draft' = NewBuilder
  BY DEF NextBatch
<1>2. Called(<<>>)'
  BY DEF NextBatch, StartOfBook, Called, MatchStart
<1>3. DraftOK'
  BY <1>1, NewDraftNext
<1> QED BY <1>1, <1>2, <1>3

\* Applying a batch leaves the host ready for the next one.
LEMMA ApplyKeepsHost ==
    ASSUME HostInv, Apply
    PROVE  HostInv'
<1>1. stage = "settled" /\ tree' = output.newRoot /\ NextBatch
  BY AppliedIsNewRoot DEF Apply
<1>2. AccountsOK(tree)'
  BY <1>1, NewRootOK DEF AccountsOK
<1>3. stage' = "building" /\ Called(<<>>)' /\ DraftOK'
  BY <1>1, NextBatchStarts
<1> QED BY <1>2, <1>3, SpentStays, BackingStays, CursorsStay DEF HostInv

\* A rejected batch leaves the host where it was.
LEMMA AbandonKeeps ==
    ASSUME HostInv, Abandon
    PROVE  HostInv'
<1>1. /\ NextBatch /\ tree' = tree /\ cursors' = cursors /\ custody' = custody /\ spent' = spent
  BY DEF Abandon
<1>2. AccountsOK(tree) /\ CursorsOK /\ Backing /\ SpentOK
  BY DEF HostInv
<1>3. AccountsOK(tree)' /\ CursorsOK' /\ Backing' /\ SpentOK'
  BY <1>1, <1>2 DEF AccountsOK, CursorsOK, Backing, SpentOK
<1>4. stage' = "building" /\ Called(<<>>)' /\ DraftOK'
  BY <1>1, NextBatchStarts
<1> QED BY <1>3, <1>4 DEF HostInv

\* What the builder does before the guest is called leaves everything else alone.
LEMMA BuilderKeeps ==
    ASSUME HostInv, DraftOK',
           stage = "building", UNCHANGED <<settleVars, tree, cursors, custody, spent>>
    PROVE  HostInv'
<1>1. /\ AccountsOK(tree) /\ CursorsOK /\ Backing /\ SpentOK /\ Called(<<>>)
  BY DEF HostInv
<1>2. tree' = tree /\ cursors' = cursors /\ custody' = custody /\ spent' = spent /\ stage' = stage
  BY DEF settleVars, matchVars
<1>3. AccountsOK(tree)' /\ CursorsOK' /\ Backing' /\ SpentOK'
  BY <1>1, <1>2 DEF AccountsOK, CursorsOK, Backing, SpentOK
<1>4. Called(<<>>)'
  BY <1>1 DEF Called, MatchStart, settleVars, matchVars, sweep
<1> QED BY <1>2, <1>3, <1>4 DEF HostInv

\* Collecting an entry keeps the invariant.
LEMMA CollectKeeps ==
    ASSUME HostInv,
           \/ \E d \in QueueItem : Deposit(d)
           \/ \E r \in QueueItem : ForcedWithdraw(r)
           \/ \E o \in SignedOrder : PlaceOrder(o)
           \/ \E w \in SignedWithdrawal : Withdraw(w)
    PROVE  HostInv'
<1>1. DraftOK
  BY DEF HostInv
<1>2. DraftOK'
  BY <1>1, PutKeeps DEF Deposit, ForcedWithdraw, PlaceOrder, Withdraw
<1>3. stage = "building" /\ UNCHANGED <<settleVars, tree, cursors, custody, spent>>
  BY DEF Deposit, ForcedWithdraw, PlaceOrder, Withdraw, Put
<1> QED BY <1>2, <1>3, BuilderKeeps

\* A builder that fails is replaced.
LEMMA BuildFailsKeeps ==
    ASSUME HostInv, BuildFails
    PROVE  HostInv'
<1>1. stage = "building" /\ UNCHANGED <<settleVars, tree, cursors, custody, spent>>
      /\ draft' = NewBuilder
  BY DEF BuildFails
<1>2. DraftOK'
  BY <1>1, NewDraftNext
<1> QED BY <1>1, <1>2, BuilderKeeps

\* A host that does nothing keeps the invariant.
LEMMA HostRests ==
    ASSUME HostInv, UNCHANGED operatorVars
    PROVE  HostInv'
<1>1. UNCHANGED settleVars /\ UNCHANGED hostVars
  BY DEF operatorVars
<1>2. CASE stage = "building"
  <2>1. UNCHANGED <<settleVars, tree, cursors, custody, spent>> /\ draft' = draft
    BY <1>1 DEF hostVars
  <2>2. DraftOK'
    BY <2>1 DEF HostInv, DraftOK
  <2> QED BY <1>2, <2>1, <2>2, BuilderKeeps
<1>3. CASE stage # "building"
  <2>1. /\ AccountsOK(tree) /\ DraftOK /\ CursorsOK /\ Backing /\ SpentOK /\ WithGuest
    BY <1>3 DEF HostInv
  <2>2. AccountsOK(tree)' /\ DraftOK' /\ CursorsOK' /\ Backing' /\ SpentOK'
    BY <1>1, <2>1 DEF hostVars, AccountsOK, DraftOK, CursorsOK, Backing, SpentOK
  <2>3. SettleInv' /\ LedgerInv'
    BY <1>1, <2>1, SettleStep, LedgerStep DEF WithGuest
  <2>4. BatchInput' = BatchInput
    BY <1>1, BuiltStays DEF hostVars
  <2>5. input' = input /\ stage' = stage
    BY <1>1 DEF settleVars, matchVars
  <2>6. ValidForcedWithdrawals => ValidForcedWithdrawals'
    BY <2>5 DEF ValidForcedWithdrawals
  <2>7. WithGuest'
    BY <2>1, <2>3, <2>4, <2>5, <2>6 DEF WithGuest
  <2> QED BY <1>3, <2>2, <2>5, <2>7 DEF HostInv
<1> QED BY <1>2, <1>3

\* The invariant is inductive.
LEMMA HostStep == HostInv /\ [HostNext]_operatorVars => HostInv'
<1> SUFFICES ASSUME HostInv, [HostNext]_operatorVars PROVE HostInv'
  OBVIOUS
<1>1. CASE \/ \E d \in QueueItem : Deposit(d)
           \/ \E r \in QueueItem : ForcedWithdraw(r)
           \/ \E o \in SignedOrder : PlaceOrder(o)
           \/ \E w \in SignedWithdrawal : Withdraw(w)
  BY <1>1, CollectKeeps
<1>2. CASE Build
  BY <1>2, BuildKeeps
<1>3. CASE BuildFails
  BY <1>3, BuildFailsKeeps
<1>4. CASE Settle
  BY <1>4, GuestKeeps
<1>5. CASE Apply
  BY <1>5, ApplyKeepsHost
<1>6. CASE Abandon
  BY <1>6, AbandonKeeps
<1>7. CASE UNCHANGED operatorVars
  BY <1>7, HostRests
<1> QED BY <1>1, <1>2, <1>3, <1>4, <1>5, <1>6, <1>7 DEF HostNext, Proceed

\* What a ledger holds, account by account.
LEMMA TreeTotals ==
    ASSUME NEW accs, NEW x \in Assets
    PROVE  SumFunction([id \in DOMAIN accs |-> Balance(accs[id], x)]) = Guest!TotalOf(Ledger(accs), x)
<1> DEFINE l == Ledger(accs)
           f == [id \in DOMAIN accs |-> Balance(accs[id], x)]
<1>1. DOMAIN l = DOMAIN accs /\ \A id \in DOMAIN accs : l[id][x] = Balance(accs[id], x)
  BY DEF Ledger
<1> HIDE DEF l
<1>2. [a \in DOMAIN l |-> l[a][x]] = f
  BY <1>1
<1>3. Guest!TotalOf(l, x) = Guest!SumFunction(f)
  BY <1>2 DEF Guest!TotalOf
<1> QED BY <1>3, GuestSums DEF l

\* A well-formed ledger holds a number of each asset.
LEMMA TreeTotalsType ==
    ASSUME NEW accs, AccountsOK(accs), NEW x \in Assets
    PROVE  SumFunction([id \in DOMAIN accs |-> Balance(accs[id], x)]) \in Int
<1> DEFINE f == [id \in DOMAIN accs |-> Balance(accs[id], x)]
<1>1. ASSUME NEW id \in DOMAIN accs PROVE Balance(accs[id], x) \in Int
  <2> DEFINE b == accs[id].balances
  <2>1. b \in UNION {[held -> 0..MaxAmount] : held \in SUBSET Assets}
    BY DEF AccountsOK, RawAccount
  <2>2. b \in [DOMAIN b -> 0..MaxAmount]
    BY <2>1
  <2>3. x \in DOMAIN b => b[x] \in 0..MaxAmount
    BY <2>2
  <2> QED BY <2>3, ExchangeAssumption DEF Balance
<1>2. SumFunction(f) = SumFunctionOnSet(f, DOMAIN accs)
  BY DEF SumFunction
<1>3. IsFiniteSet(DOMAIN accs) /\ \A id \in DOMAIN accs : f[id] \in Int
  BY <1>1 DEF AccountsOK
<1> HIDE DEF f
<1>4. SumFunctionOnSet(f, DOMAIN accs) \in Int
  BY <1>3, SumInt
<1> QED BY <1>2, <1>4 DEF f

\* The host starts with any well-formed ledger and what it holds.
LEMMA HostStarts == HostInit => HostInv
<1> SUFFICES ASSUME NEW accs, AccountsOK(accs), OperatorInit(accs) PROVE HostInv
  BY DEF HostInit
<1>1. /\ stage = "building" /\ Called(<<>>) /\ tree = accs /\ draft = NewBuilder /\ spent = {}
      /\ cursors = [deposits |-> 0, forced |-> 0]
      /\ custody = [x \in Assets |-> SumFunction([id \in DOMAIN accs |-> Balance(accs[id], x)])]
  BY DEF OperatorInit
<1>2. DraftOK
  BY <1>1, NewBuilderOK
<1>3. CursorsOK
  BY <1>1, SettlementAssumption DEF CursorsOK
<1>4. Backing
  <2>1. \A x \in Assets : custody[x] = Guest!TotalOf(Ledger(tree), x) /\ custody[x] \in Int
    BY <1>1, TreeTotals, TreeTotalsType
  <2>2. custody \in [Assets -> Int]
    BY <1>1, <2>1
  <2> QED BY <2>1, <2>2 DEF Backing
<1>5. SpentOK
  BY <1>1 DEF SpentOK
<1> QED BY <1>1, <1>2, <1>3, <1>4, <1>5 DEF HostInv

\* What the host keeps holds of every state, over any number of batches.
THEOREM HostHolds == HostSpec => []HostInv
BY HostStarts, HostStep, PTL DEF HostSpec

-----------------------------------------------------------------------------
(* What the invariant says                                                 *)

\* The host's copy of the ledger is well formed and holds what came in and was not paid
\* out, over any number of batches, accepted or rejected (account_tree.rs:43-79,
\* mod.rs:88-117).
THEOREM HostLedgerSound == HostSpec => []LedgerSound
<1>1. HostInv => LedgerSound
  <2> SUFFICES ASSUME HostInv PROVE LedgerSound
    OBVIOUS
  <2>1. AccountsOK(tree) /\ DraftOK /\ Backing
    BY DEF HostInv
  <2>2. ASSUME NEW id \in DOMAIN tree
        PROVE  /\ tree[id].id = id /\ tree[id].nonce \in 0..Limits.u64
               /\ \A x \in DOMAIN tree[id].balances : tree[id].balances[x] \in 1..MaxAmount
    <3> DEFINE b == tree[id].balances
    <3>1. /\ tree[id].nonce \in 0..Limits.u64 /\ tree[id].id = id
          /\ b \in UNION {[held -> 0..MaxAmount] : held \in SUBSET Assets}
          /\ \A x \in DOMAIN b : b[x] # 0
      BY <2>1 DEF AccountsOK, RawAccount
    <3>2. b \in [DOMAIN b -> 0..MaxAmount]
      BY <3>1
    <3>3. \A x \in DOMAIN b : b[x] \in 1..MaxAmount
      BY <3>1, <3>2, ExchangeAssumption
    <3> QED BY <3>1, <3>3
  <2>3. Cardinality(draft.touched) =< Limits.accounts
    BY <2>1 DEF DraftOK
  <2>4. {draft.orders[i].trader : i \in DOMAIN draft.orders} \subseteq draft.touched
    BY <2>1 DEF DraftOK
  <2>5. OperatorTypeOK
    BY <2>2, <2>3, <2>4 DEF OperatorTypeOK
  <2>6. LedgerBacked
    BY <2>1, TreeTotals DEF Backing, LedgerBacked
  <2> QED BY <2>5, <2>6 DEF LedgerSound
<1> QED BY HostHolds, <1>1, PTL

\* Only Apply ends a batch the guest has accepted.
LEMMA AcceptedIsApplied ==
    ASSUME HostInv, [HostNext]_operatorVars, stage = "settled"
    PROVE  Apply \/ UNCHANGED operatorVars
BY DEF HostNext, Proceed, Deposit, ForcedWithdraw, PlaceOrder, Withdraw, Build, BuildFails, Abandon,
       Settle, SettleNext, Validate, InvalidInput, ApplyDeposits, DepositsFail, ApplyForced, ForcedFail,
       ValidateOperations, InvalidOperations, ApplyOperations, ApplyFails, Match, MatchNext, Fill,
       FillFails, NextBook, EndMatching, Conclude, CannotConclude

\* Each batch starts from the ledger the one before it committed to, and no operation an
\* earlier batch accepted is accepted again, whatever users and host resubmit
\* (account_tree.rs:43-79, batch_builder.rs:140-153, 208-220).
THEOREM HostBatchesFollowOn == HostSpec => BatchesFollowOn
<1>1. HostInv /\ [HostNext]_operatorVars => [stage = "settled" => tree' = output.newRoot]_operatorVars
  <2> SUFFICES ASSUME HostInv, [HostNext]_operatorVars, stage = "settled"
               PROVE  tree' = output.newRoot \/ UNCHANGED operatorVars
    OBVIOUS
  <2>1. CASE Apply
    BY <2>1, AppliedIsNewRoot DEF Apply
  <2> QED BY <2>1, AcceptedIsApplied
<1>2. HostInv /\ [HostNext]_operatorVars =>
        [stage = "settled" =>
            \A k \in DOMAIN Operations :
                LET op == Operations[k]
                    id == IF "trader" \in DOMAIN op THEN op.trader ELSE op.account
                IN  <<id, op.nonce>> \notin spent]_operatorVars
  <2> SUFFICES ASSUME HostInv, stage = "settled", NEW k \in DOMAIN Operations
               PROVE  LET op == Operations[k]
                          id == IF "trader" \in DOMAIN op THEN op.trader ELSE op.account
                      IN  <<id, op.nonce>> \notin spent
    OBVIOUS
  <2> DEFINE op == Operations[k]
             id == IF "trader" \in DOMAIN op THEN op.trader ELSE op.account
  <2>1. op \in ToSet(Operations)
    BY DEF ToSet
  <2> HIDE DEF op
  <2>2. id \in Ids /\ op.nonce \in Nat /\ NonceIn(tree, id) =< op.nonce
    BY <2>1, OperationsSpend
  <2> HIDE DEF id
  <2>3. <<id, op.nonce>> \in spent => id \in DOMAIN tree /\ op.nonce < tree[id].nonce
    BY <2>2 DEF HostInv, SpentOK
  <2>4. id \in DOMAIN tree => tree[id].nonce \in Int
    <3>1. id \in DOMAIN tree => tree[id].nonce \in 0..Limits.u64
      BY DEF HostInv, AccountsOK, RawAccount
    <3> QED BY <3>1, SettlementAssumption
  <2>5. <<id, op.nonce>> \notin spent
    BY <2>2, <2>3, <2>4 DEF NonceIn
  <2> QED BY <2>5 DEF id, op
<1> QED BY HostHolds, <1>1, <1>2, PTL DEF HostSpec, BatchesFollowOn, HostFollowsGuest, NeverReplayed

-----------------------------------------------------------------------------
(* What a request gets                                                     *)

\* The accounts there are, or will be after the deposits.
Opened(accs, deps) == DOMAIN accs \cup {deps[i].account : i \in DOMAIN deps}

\* The accounts the guest will list, if they are touched.
Known == Opened(tree, draft.deposits)

\* No touched account that is nowhere shifts the rank of this one.
NobodyMissingBefore(id) == \A p \in draft.touched : p < id => p \in Known

PhantomsLast == \A p \in draft.touched \ Known, q \in draft.touched \cap Known : q < p

\* The guest lists the touched accounts that are known.
LEMMA PeopleAreKnown ==
    ASSUME AccountsOK(tree), DraftOK, input = BatchInput
    PROVE  People(input) = draft.touched \cap Known
<1> DEFINE ids == draft.touched \cap DOMAIN tree
           list == Ascending(ids)
           owners == {draft.deposits[i].account : i \in DOMAIN draft.deposits}
<1>1. input.accounts = Witness /\ input.deposits = IndexedInputs(draft.deposits)
  BY DEF BatchInput
<1>2. IsFiniteSet(ids) /\ ids \in SUBSET Int /\ ids \in SUBSET Ids
  BY FS_Subset, SettlementAssumption DEF DraftOK
<1>3. \A id : Has(Witness, id) <=> id \in ids
  <2>1. list \in SetToSeqs(ids)
    BY <1>2, AscendingLists
  <2>2. DOMAIN Witness = DOMAIN list /\ \A i \in DOMAIN list : Witness[i].id = list[i]
    <3>1. DOMAIN Witness = DOMAIN list
      BY DEF Witness
    <3>2. \A i \in DOMAIN Witness : Witness[i].id = list[i]
      BY WitnessLists
    <3> QED BY <3>1, <3>2
  <2> HIDE DEF list, ids
  <2>3. {list[i] : i \in DOMAIN list} = ids
    BY <1>2, <2>1, Enumerates
  <2> QED BY <2>2, <2>3 DEF Has
<1>4. /\ draft.deposits \in Seq(QueueItem)
      /\ \A i \in DOMAIN draft.deposits : draft.deposits[i].account \in draft.touched
      /\ draft.touched \in SUBSET Ids
  BY DEF DraftOK
<1>5. \A id : (\E i \in 1..Len(input.deposits) : input.deposits[i].account = id) <=> id \in owners
  <2>1. DOMAIN draft.deposits = 1..Len(draft.deposits) /\ Len(draft.deposits) \in Nat
    BY <1>4
  <2>2. /\ Len(input.deposits) = Len(draft.deposits)
        /\ \A i \in 1..Len(draft.deposits) : input.deposits[i].account = draft.deposits[i].account
    BY <1>1, <2>1 DEF IndexedInputs
  <2> QED BY <2>1, <2>2
<1> HIDE DEF ids, list, owners
<1>6. owners \in SUBSET draft.touched
  BY <1>4 DEF owners
<1>7. \A id : id \in People(input) <=> id \in Ids /\ (id \in ids \/ id \in owners)
  BY <1>1, <1>3, <1>5 DEF People
<1> QED BY <1>4, <1>6, <1>7 DEF Known, Opened, ids, owners

\* A request of an account in front of which nobody is missing has the right index.
LEMMA RanksAreRight ==
    ASSUME AccountsOK(tree), DraftOK, input = BatchInput, NEW i \in DOMAIN input.forced,
           LET id == input.forced[i].account IN id \in Known => NobodyMissingBefore(id)
    PROVE  /\ RightlyIndexed(input, input.forced[i])
           /\ input.forced[i].account \in draft.touched
<1>1. input.forced = IndexedInputs(draft.forced)
  BY DEF BatchInput
<1>2. /\ DOMAIN input.forced = DOMAIN draft.forced
      /\ input.forced[i].account = draft.forced[i].account
      /\ input.forced[i].index = Rank(draft.forced[i].account)
  BY <1>1 DEF IndexedInputs
<1> DEFINE id == input.forced[i].account
<1>3. id \in draft.touched /\ input.forced[i].index = Rank(id)
  BY <1>2 DEF DraftOK
<1>4. People(input) = draft.touched \cap Known
  BY PeopleAreKnown
<1>5. ASSUME id \in People(input)
      PROVE  input.forced[i].index = Cardinality({j \in People(input) : j < id}) + 1
  <2>1. NobodyMissingBefore(id)
    BY <1>4, <1>5
  <2> HIDE DEF id
  <2>2. {j \in People(input) : j < id} = {j \in draft.touched : j < id}
    BY <1>4, <2>1 DEF NobodyMissingBefore
  <2> QED BY <1>3, <2>2 DEF Rank
<1> QED BY <1>3, <1>5 DEF RightlyIndexed

\* A forced withdrawal of an account that exists, or that a deposit of the batch opens,
\* drains the lesser of its amount and what there is at its turn, unless an account that is
\* nowhere comes before it in the batch and shifts its rank; so if such accounts come last,
\* all requests of the batch do (batch_builder.rs:236-327, forced_withdrawals.rs:4-28).
THEOREM HostDrainsMin ==
    HostSpec => [](/\ PhantomsLast => ForcedDrainsMin
                   /\ stage = "settled" =>
                         \A i \in DOMAIN input.forced :
                             LET id == input.forced[i].account
                             IN  (id \in Known => NobodyMissingBefore(id)) => DrainsMin(i))
<1>1. ASSUME HostInv, stage = "settled", NEW i \in DOMAIN input.forced,
             LET id == input.forced[i].account IN id \in Known => NobodyMissingBefore(id)
      PROVE  DrainsMin(i)
  <2>1. /\ Accepted /\ WithGuest /\ input.rest = Untouched /\ output.forced = drained
    BY <1>1, OutputIsOfTheTree
  <2>2. AccountsOK(tree) /\ DraftOK /\ input = BatchInput
    BY <1>1, <2>1 DEF HostInv, WithGuest
  <2> DEFINE r == input.forced[i]
  <2>3. RightlyIndexed(input, r) /\ r.account \in draft.touched
    BY <1>1, <2>2, RanksAreRight
  <2>4. r.account \notin DOMAIN input.rest
    BY <2>1, <2>3 DEF Untouched
  <2>5. /\ input.forced \in Seq(QueueEntry) /\ DrainedInTurn(input, drained)
    BY <2>1 DEF Accepted, BatchIn
  <2>6. /\ i \in 1..Len(input.forced) /\ Len(drained) = Len(input.forced)
        /\ Len(input.forced) \in Nat /\ r.asset \in Assets
    <3>1. r \in QueueEntry
      BY <1>1, <2>5
    <3>2. Len(drained) = Len(input.forced)
      BY <2>5 DEF DrainedInTurn
    <3> QED BY <1>1, <2>5, <3>1, <3>2 DEF QueueEntry
  <2>7. drained[i].amount = Lesser(r.amount, LeftBefore(input, drained, i, r.account, r.asset))
    BY <2>3, <2>5, <2>6 DEF DrainedInTurn
  <2>8. Guest!AvailableTo(Ledger(output.oldRoot), input.deposits, drained, i, r.account, r.asset)
          = LeftBefore(input, drained, i, r.account, r.asset)
    BY <2>1, <2>4, <2>6, AvailableIsLeft
  <2> QED BY <2>1, <2>7, <2>8 DEF DrainsMin, Lesser
<1>2. ASSUME HostInv, PhantomsLast, stage = "settled" PROVE ForcedDrainsMin
  <2>1. ASSUME NEW i \in DOMAIN input.forced PROVE DrainsMin(i)
    <3> DEFINE id == input.forced[i].account
    <3>1. AccountsOK(tree) /\ DraftOK /\ input = BatchInput
      BY <1>2 DEF HostInv, WithGuest
    <3>2. id \in draft.touched
      <4>1. input.forced = IndexedInputs(draft.forced)
        BY <3>1 DEF BatchInput
      <4> QED BY <3>1, <4>1 DEF IndexedInputs, DraftOK
    <3>3. draft.touched \in SUBSET Int /\ id \in Int
      BY <3>1, <3>2, SettlementAssumption DEF DraftOK
    <3> HIDE DEF id
    <3>4. id \in Known => NobodyMissingBefore(id)
      BY <1>2, <3>2, <3>3 DEF PhantomsLast, NobodyMissingBefore
    <3> QED BY <1>1, <1>2, <3>4 DEF id
  <2> QED BY <1>2, <2>1 DEF ForcedDrainsMin
<1>3. HostInv =>
        /\ PhantomsLast => ForcedDrainsMin
        /\ stage = "settled" =>
              \A i \in DOMAIN input.forced :
                  LET id == input.forced[i].account
                  IN  (id \in Known => NobodyMissingBefore(id)) => DrainsMin(i)
  BY <1>1, <1>2 DEF ForcedDrainsMin
<1> QED BY HostHolds, <1>3, PTL

-----------------------------------------------------------------------------
(* What the builder lets through                                           *)

TakenDeposits(deps, cursor) ==
    /\ Len(deps) =< Limits.deposits
    /\ \A i \in DOMAIN deps :
          deps[i].id = cursor + i - 1 /\ deps[i].amount # 0 /\ deps[i].asset \in Configured

TakenOrders(os, known) ==
    /\ Len(os) =< Limits.orders
    /\ \A i \in DOMAIN os :
          /\ os[i].price # 0 /\ os[i].quantity # 0
          /\ os[i].market \in DOMAIN Markets /\ os[i].trader \in known

TakenWithdrawals(ws, accs) ==
    /\ Len(ws) =< Limits.withdrawals
    /\ \A i \in DOMAIN ws :
          ws[i].amount # 0 /\ ws[i].asset \in Configured /\ ws[i].account \in DOMAIN accs
    /\ \A id \in DOMAIN accs, x \in Assets :
          Guest!MovedBy(ws, 1..Len(ws), id, x) =< Balance(accs[id], x)

\* No two operations of an account have the same nonce.
NoncesDistinct(os, ws) ==
    /\ \A i, j \in DOMAIN os : os[i].trader = os[j].trader /\ os[i].nonce = os[j].nonce => i = j
    /\ \A i, j \in DOMAIN ws : ws[i].account = ws[j].account /\ ws[i].nonce = ws[j].nonce => i = j
    /\ \A i \in DOMAIN os, j \in DOMAIN ws :
          os[i].trader = ws[j].account => os[i].nonce # ws[j].nonce

\* No operation of the account has the nonce.
Unseen(os, ws, id, n) ==
    /\ \A i \in DOMAIN os : os[i].trader = id => os[i].nonce # n
    /\ \A i \in DOMAIN ws : ws[i].account = id => ws[i].nonce # n

\* What the builder has asked of the entries it has taken.
Collected ==
    /\ TakenDeposits(draft.deposits, cursors.deposits)
    /\ Len(draft.forced) =< Limits.forced
    /\ TakenOrders(draft.orders, Opened(tree, draft.deposits))
    /\ TakenWithdrawals(draft.withdrawals, tree)
    /\ NoncesDistinct(draft.orders, draft.withdrawals)

\* Of a batch with the guest the nonces are known to follow on as well.
BuildInv == Collected /\ (stage # "building" => NoncesContiguous)

\* Balances are natural numbers.
LEMMA BalancesAreNat ==
    ASSUME NEW accs, AccountsOK(accs), NEW id \in DOMAIN accs, NEW x
    PROVE  Balance(accs[id], x) \in 0..MaxAmount /\ accs[id].nonce \in 0..Limits.u64 /\ accs[id].id = id
<1>1. accs[id] \in RawAccount /\ accs[id].id = id
  BY DEF AccountsOK
<1>2. PICK held \in SUBSET Assets : accs[id].balances \in [held -> 0..MaxAmount]
  BY <1>1 DEF RawAccount
<1> QED BY <1>1, <1>2, ExchangeAssumption DEF Balance, RawAccount

\* A builder without entries has collected nothing wrong.
LEMMA NothingTaken ==
    ASSUME NEW accs, AccountsOK(accs), NEW cursor, NEW known
    PROVE  /\ TakenDeposits(<<>>, cursor) /\ Len(<<>>) =< Limits.forced /\ TakenOrders(<<>>, known)
           /\ TakenWithdrawals(<<>>, accs) /\ NoncesDistinct(<<>>, <<>>)
<1>1. /\ Len(<<>>) = 0 /\ DOMAIN <<>> = {}
      /\ 0 =< Limits.deposits /\ 0 =< Limits.forced /\ 0 =< Limits.orders /\ 0 =< Limits.withdrawals
  BY OperatorAssumption
<1>2. ASSUME NEW id \in DOMAIN accs, NEW x \in Assets
      PROVE  Guest!MovedBy(<<>>, 1..Len(<<>>), id, x) =< Balance(accs[id], x)
  <2>1. Guest!MovedBy(<<>>, 1..0, id, x) = 0
    BY NothingMoves
  <2>2. Balance(accs[id], x) \in 0..MaxAmount
    BY BalancesAreNat
  <2> QED BY <1>1, <2>1, <2>2, ExchangeAssumption
<1>3. TakenDeposits(<<>>, cursor) /\ TakenOrders(<<>>, known) /\ NoncesDistinct(<<>>, <<>>)
  BY <1>1 DEF TakenDeposits, TakenOrders, NoncesDistinct
<1>4. TakenWithdrawals(<<>>, accs)
  BY <1>1, <1>2 DEF TakenWithdrawals
<1> QED BY <1>1, <1>3, <1>4

\* One more deposit.
LEMMA OneMoreDepositTaken ==
    ASSUME NEW deps \in Seq(QueueItem), NEW cursor \in Int, TakenDeposits(deps, cursor),
           NEW d \in QueueItem, Len(deps) < Limits.deposits, d.id = cursor + Len(deps),
           d.amount # 0, d.asset \in Configured
    PROVE  TakenDeposits(Append(deps, d), cursor)
<1>1. /\ Len(Append(deps, d)) = Len(deps) + 1 /\ Len(deps) \in Nat
      /\ DOMAIN Append(deps, d) = DOMAIN deps \cup {Len(deps) + 1}
      /\ Append(deps, d)[Len(deps) + 1] = d /\ \A i \in DOMAIN deps : Append(deps, d)[i] = deps[i]
  BY OneEntryMore
<1>2. Limits.deposits \in Nat
  BY OperatorAssumption
<1> DEFINE new == Append(deps, d)
<1> HIDE DEF new
<1>3. Len(new) =< Limits.deposits
  BY <1>1, <1>2 DEF new
<1>4. ASSUME NEW i \in DOMAIN new
      PROVE  new[i].id = cursor + i - 1 /\ new[i].amount # 0 /\ new[i].asset \in Configured
  <2>1. CASE i \in DOMAIN deps
    BY <1>1, <2>1 DEF TakenDeposits, new
  <2>2. CASE i = Len(deps) + 1
    <3>1. cursor + Len(deps) = cursor + i - 1
      BY <1>1, <2>2
    <3> QED BY <1>1, <2>2, <3>1 DEF new
  <2> QED BY <1>1, <2>1, <2>2 DEF new
<1> QED BY <1>3, <1>4 DEF TakenDeposits, new

\* One more order.
LEMMA OneMoreOrderTaken ==
    ASSUME NEW os \in Seq(SignedOrder), NEW ws, NEW known, TakenOrders(os, known),
           NoncesDistinct(os, ws), NEW o \in SignedOrder, Len(os) < Limits.orders,
           o.price # 0, o.quantity # 0, o.market \in DOMAIN Markets, o.trader \in known,
           Unseen(os, ws, o.trader, o.nonce)
    PROVE  TakenOrders(Append(os, o), known) /\ NoncesDistinct(Append(os, o), ws)
<1> DEFINE new == Append(os, o)
           n == Len(os) + 1
<1>1. /\ Len(new) = n /\ Len(os) \in Nat /\ DOMAIN new = DOMAIN os \cup {n}
      /\ new[n] = o /\ \A i \in DOMAIN os : new[i] = os[i]
  BY OneEntryMore
<1>2. n =< Limits.orders
  BY OperatorAssumption
<1> HIDE DEF new, n
<1>3. TakenOrders(new, known)
  BY <1>1, <1>2 DEF TakenOrders
<1>4. NoncesDistinct(new, ws)
  BY <1>1 DEF NoncesDistinct, Unseen
<1> QED BY <1>3, <1>4 DEF new

\* One more withdrawal: the sums stay within the balances.
LEMMA OneMoreWithdrawalTaken ==
    ASSUME NEW ws \in Seq(SignedWithdrawal), NEW os, NEW accs, AccountsOK(accs),
           TakenWithdrawals(ws, accs), NoncesDistinct(os, ws), NEW w \in SignedWithdrawal,
           Len(ws) < Limits.withdrawals,
           w.amount # 0, w.asset \in Configured, w.account \in DOMAIN accs,
           Guest!MovedBy(ws, 1..Len(ws), w.account, w.asset) + w.amount
             =< Balance(accs[w.account], w.asset),
           Unseen(os, ws, w.account, w.nonce)
    PROVE  TakenWithdrawals(Append(ws, w), accs) /\ NoncesDistinct(os, Append(ws, w))
<1> DEFINE new == Append(ws, w)
           n == Len(ws)
<1>1. /\ Len(new) = n + 1 /\ n \in Nat /\ DOMAIN new = DOMAIN ws \cup {n + 1}
      /\ new[n + 1] = w /\ \A i \in DOMAIN ws : new[i] = ws[i] /\ DOMAIN ws = 1..n
  BY OneEntryMore
<1>2. n + 1 =< Limits.withdrawals
  BY OperatorAssumption
<1>3. \A i \in 1..(n + 1) : new[i].amount \in Nat
  <2>1. \A e \in SignedWithdrawal : e.amount \in Nat
    BY ExchangeAssumption DEF SignedWithdrawal
  <2>2. new \in Seq(SignedWithdrawal) /\ DOMAIN new = 1..(n + 1)
    BY OneEntryMore
  <2>3. \A i \in DOMAIN new : new[i] \in SignedWithdrawal
    BY <2>2
  <2> QED BY <2>1, <2>2, <2>3
<1>4. SamePrefix(ws, new, n)
  BY <1>1 DEF SamePrefix
<1>5. DOMAIN ws = 1..n
  OBVIOUS
<1> HIDE DEF new, n
<1>6. ASSUME NEW id \in DOMAIN accs, NEW x \in Assets
      PROVE  Guest!MovedBy(new, 1..(n + 1), id, x) =< Balance(accs[id], x)
  <2>1. /\ Guest!MovedBy(new, 1..n, id, x) \in Nat
        /\ Guest!MovedBy(new, 1..(n + 1), id, x)
             = Guest!MovedBy(new, 1..n, id, x) + Share(w, id, x)
    <3>1. n \in Nat /\ new[n + 1] = w
      BY <1>1
    <3>2. /\ Guest!MovedBy(new, 1..n, id, x) \in Nat
          /\ Guest!MovedBy(new, 1..(n + 1), id, x)
               = Guest!MovedBy(new, 1..n, id, x) + Share(new[n + 1], id, x)
      BY <1>3, <3>1, MovedByNext
    <3> QED BY <3>1, <3>2
  <2>2. Guest!MovedBy(new, 1..n, id, x) = Guest!MovedBy(ws, 1..n, id, x)
    <3>1. n \in Nat /\ n \in 0..n
      BY <1>1
    <3> QED BY <1>4, <3>1, PrefixMoves
  <2>3. Guest!MovedBy(ws, 1..n, id, x) =< Balance(accs[id], x)
    BY DEF TakenWithdrawals, n
  <2>4. CASE w.account = id /\ w.asset = x
    BY <2>1, <2>2, <2>4 DEF Share, n
  <2>5. CASE ~(w.account = id /\ w.asset = x)
    <3>1. Share(w, id, x) = 0
      BY <2>5 DEF Share
    <3> QED BY <2>1, <2>2, <2>3, <3>1
  <2> QED BY <2>4, <2>5
<1>7. TakenWithdrawals(new, accs)
  BY <1>1, <1>2, <1>5, <1>6 DEF TakenWithdrawals
<1>8. NoncesDistinct(os, new)
  BY <1>1 DEF NoncesDistinct, Unseen
<1> QED BY <1>7, <1>8 DEF new

\* A nonce the builder has not seen from an account is none of its operations'.
LEMMA NonceUnseen ==
    ASSUME NEW id, NEW n, n \notin NoncesOf(id)
    PROVE  Unseen(draft.orders, draft.withdrawals, id, n)
BY DEF NoncesOf, Unseen

\* A new builder has collected nothing.
LEMMA NewBuilderCollects ==
    ASSUME AccountsOK(tree'), draft' = NewBuilder
    PROVE  Collected'
<1>1. /\ draft'.deposits = <<>> /\ draft'.forced = <<>> /\ draft'.orders = <<>>
      /\ draft'.withdrawals = <<>>
  BY DEF NewBuilder
<1>2. /\ TakenDeposits(<<>>, cursors'.deposits) /\ Len(<<>>) =< Limits.forced
      /\ TakenOrders(<<>>, Opened(tree', <<>>))
      /\ TakenWithdrawals(<<>>, tree') /\ NoncesDistinct(<<>>, <<>>)
  BY NothingTaken
<1> QED BY <1>1, <1>2 DEF Collected

\* Nor has a host that waits collected anything new.
LEMMA CollectedStays ==
    ASSUME Collected, UNCHANGED <<tree, draft, cursors>>
    PROVE  Collected'
<1>1. tree' = tree /\ draft' = draft /\ cursors' = cursors
  OBVIOUS
<1> QED BY <1>1 DEF Collected

\* The lists of the builder after an entry is put into one of them.
LEMMA PutAppends ==
    ASSUME DraftOK, NEW e, NEW id
    PROVE  /\ Put("deposits", e, id) =>
                 /\ draft'.deposits = Append(draft.deposits, e) /\ draft'.forced = draft.forced
                 /\ draft'.orders = draft.orders /\ draft'.withdrawals = draft.withdrawals
           /\ Put("forced", e, id) =>
                 /\ draft'.deposits = draft.deposits /\ draft'.forced = Append(draft.forced, e)
                 /\ draft'.orders = draft.orders /\ draft'.withdrawals = draft.withdrawals
           /\ Put("orders", e, id) =>
                 /\ draft'.deposits = draft.deposits /\ draft'.forced = draft.forced
                 /\ draft'.orders = Append(draft.orders, e) /\ draft'.withdrawals = draft.withdrawals
           /\ Put("withdrawals", e, id) =>
                 /\ draft'.deposits = draft.deposits /\ draft'.forced = draft.forced
                 /\ draft'.orders = draft.orders /\ draft'.withdrawals = Append(draft.withdrawals, e)
           /\ \A kind : Put(kind, e, id) => tree' = tree /\ cursors' = cursors
<1>1. draft = [deposits |-> draft.deposits, forced |-> draft.forced, orders |-> draft.orders,
               withdrawals |-> draft.withdrawals, touched |-> draft.touched]
  BY DEF DraftOK
<1>2. \A kind : Put(kind, e, id) =>
        /\ draft' = [draft EXCEPT ![kind] = Append(@, e), !.touched = @ \cup {id}]
        /\ tree' = tree /\ cursors' = cursors
  BY DEF Put
<1> QED BY <1>1, <1>2

\* What the builder takes in is what it has asked for.
LEMMA DepositCollects ==
    ASSUME DraftOK, CursorsOK, Collected, NEW d \in QueueItem, Deposit(d)
    PROVE  Collected'
<1>1. /\ Len(draft.deposits) < Limits.deposits /\ d.id = cursors.deposits + Len(draft.deposits)
      /\ d.amount # 0 /\ d.asset \in Configured /\ Put("deposits", d, d.account)
  BY DEF Deposit
<1>2. /\ draft'.deposits = Append(draft.deposits, d) /\ draft'.forced = draft.forced
      /\ draft'.orders = draft.orders /\ draft'.withdrawals = draft.withdrawals
      /\ tree' = tree /\ cursors' = cursors
  BY <1>1, PutAppends
<1>3. draft.deposits \in Seq(QueueItem) /\ cursors.deposits \in Int
  BY SettlementAssumption DEF DraftOK, CursorsOK
<1>4. TakenDeposits(Append(draft.deposits, d), cursors.deposits)
  BY <1>1, <1>3, OneMoreDepositTaken DEF Collected
<1>5. Opened(tree, draft.deposits) \subseteq Opened(tree, Append(draft.deposits, d))
  <2>1. LET longer == Append(draft.deposits, d)
        IN  /\ DOMAIN longer = DOMAIN draft.deposits \cup {Len(draft.deposits) + 1}
            /\ \A i \in DOMAIN draft.deposits : longer[i] = draft.deposits[i]
    BY <1>3, OneEntryMore
  <2> QED BY <2>1 DEF Opened
<1>6. TakenOrders(draft.orders, Opened(tree, Append(draft.deposits, d)))
  BY <1>5 DEF Collected, TakenOrders
<1> QED BY <1>2, <1>4, <1>6 DEF Collected

LEMMA RequestCollects ==
    ASSUME DraftOK, Collected, NEW r \in QueueItem, ForcedWithdraw(r)
    PROVE  Collected'
<1>1. Len(draft.forced) < Limits.forced /\ Put("forced", r, r.account)
  BY DEF ForcedWithdraw
<1>2. /\ draft'.deposits = draft.deposits /\ draft'.forced = Append(draft.forced, r)
      /\ draft'.orders = draft.orders /\ draft'.withdrawals = draft.withdrawals
      /\ tree' = tree /\ cursors' = cursors
  BY <1>1, PutAppends
<1>3. Len(Append(draft.forced, r)) =< Limits.forced
  <2>1. draft.forced \in Seq(QueueItem) /\ Limits.forced \in Nat
    BY OperatorAssumption DEF DraftOK
  <2> QED BY <1>1, <2>1
<1> QED BY <1>2, <1>3 DEF Collected

LEMMA OrderCollects ==
    ASSUME DraftOK, Collected, NEW o \in SignedOrder, PlaceOrder(o)
    PROVE  Collected'
<1>1. /\ Len(draft.orders) < Limits.orders /\ o.price # 0 /\ o.quantity # 0
      /\ o.market \in DOMAIN Markets /\ o.nonce \notin NoncesOf(o.trader)
      /\ Put("orders", o, o.trader)
  BY DEF PlaceOrder
<1>2. o.trader \in Opened(tree, draft.deposits)
  BY DEF PlaceOrder, Opened
<1>3. /\ draft'.deposits = draft.deposits /\ draft'.forced = draft.forced
      /\ draft'.orders = Append(draft.orders, o) /\ draft'.withdrawals = draft.withdrawals
      /\ tree' = tree /\ cursors' = cursors
  BY <1>1, PutAppends
<1>4. Unseen(draft.orders, draft.withdrawals, o.trader, o.nonce)
  BY <1>1, NonceUnseen
<1>5. draft.orders \in Seq(SignedOrder)
  BY DEF DraftOK
<1>6. /\ TakenOrders(Append(draft.orders, o), Opened(tree, draft.deposits))
      /\ NoncesDistinct(Append(draft.orders, o), draft.withdrawals)
  <2>1. /\ TakenOrders(draft.orders, Opened(tree, draft.deposits))
        /\ NoncesDistinct(draft.orders, draft.withdrawals)
    BY DEF Collected
  <2>2. /\ Len(draft.orders) < Limits.orders /\ o.price # 0 /\ o.quantity # 0
        /\ o.market \in DOMAIN Markets
    BY <1>1
  <2> QED BY <1>2, <1>4, <1>5, <2>1, <2>2, OneMoreOrderTaken
<1> QED BY <1>3, <1>6 DEF Collected

LEMMA WithdrawalCollects ==
    ASSUME AccountsOK(tree), DraftOK, Collected, NEW w \in SignedWithdrawal, Withdraw(w)
    PROVE  Collected'
<1>1. /\ Len(draft.withdrawals) < Limits.withdrawals /\ w.amount # 0 /\ w.asset \in Configured
      /\ w.account \in DOMAIN tree /\ w.nonce \notin NoncesOf(w.account)
      /\ Put("withdrawals", w, w.account)
  BY DEF Withdraw
<1>2. draft.withdrawals \in Seq(SignedWithdrawal)
  BY DEF DraftOK
<1>3. DOMAIN draft.withdrawals = 1..Len(draft.withdrawals)
  BY <1>2
<1>4. Guest!MovedBy(draft.withdrawals, 1..Len(draft.withdrawals), w.account, w.asset) + w.amount
        =< Balance(tree[w.account], w.asset)
  BY <1>3 DEF Withdraw
<1>5. /\ draft'.deposits = draft.deposits /\ draft'.forced = draft.forced
      /\ draft'.orders = draft.orders /\ draft'.withdrawals = Append(draft.withdrawals, w)
      /\ tree' = tree /\ cursors' = cursors
  BY <1>1, PutAppends
<1>6. Unseen(draft.orders, draft.withdrawals, w.account, w.nonce)
  BY <1>1, NonceUnseen
<1>7. /\ TakenWithdrawals(Append(draft.withdrawals, w), tree)
      /\ NoncesDistinct(draft.orders, Append(draft.withdrawals, w))
  BY <1>1, <1>2, <1>4, <1>6, OneMoreWithdrawalTaken DEF Collected
<1> QED BY <1>5, <1>7 DEF Collected

\* The guest has a batch from build, whose nonces follow on, or none.
LEMMA BuildStep == HostInv /\ BuildInv /\ [HostNext]_operatorVars => BuildInv'
<1> SUFFICES ASSUME HostInv, BuildInv, [HostNext]_operatorVars PROVE BuildInv'
  OBVIOUS
<1>0. AccountsOK(tree) /\ DraftOK /\ CursorsOK /\ Collected /\ AccountsOK(tree')
  <2>1. HostInv'
    BY HostStep
  <2> QED BY <2>1 DEF HostInv, BuildInv
<1>1. CASE \/ \E d \in QueueItem : Deposit(d)
           \/ \E r \in QueueItem : ForcedWithdraw(r)
           \/ \E o \in SignedOrder : PlaceOrder(o)
           \/ \E w \in SignedWithdrawal : Withdraw(w)
  <2>1. Collected'
    BY <1>0, <1>1, DepositCollects, RequestCollects, OrderCollects, WithdrawalCollects
  <2>2. stage' = "building"
    BY <1>1 DEF Deposit, ForcedWithdraw, PlaceOrder, Withdraw, Put, settleVars, matchVars
  <2> QED BY <2>1, <2>2 DEF BuildInv
<1>2. CASE BuildFails \/ Apply \/ Abandon
  <2>1. draft' = NewBuilder /\ stage' = "building"
    BY <1>2 DEF BuildFails, Apply, Abandon, NextBatch, settleVars, matchVars
  <2> QED BY <1>0, <2>1, NewBuilderCollects DEF BuildInv
<1>3. CASE Build \/ Settle \/ UNCHANGED operatorVars
  <2>1. UNCHANGED <<tree, draft, cursors>>
    BY <1>3 DEF Build, Settle, operatorVars, hostVars
  <2>2. Collected'
    BY <1>0, <2>1, CollectedStays
  <2>3. NoncesContiguous \/ stage' = "building"
    <3>1. CASE Build
      BY <3>1 DEF Build
    <3>2. CASE Settle
      <4>1. stage # "building"
        BY <3>2
        DEF Settle, SettleNext, Validate, InvalidInput, ApplyDeposits, DepositsFail, ApplyForced,
            ForcedFail, ValidateOperations, InvalidOperations, ApplyOperations, ApplyFails, Match,
            MatchNext, Fill, FillFails, NextBook, EndMatching, Conclude, CannotConclude
      <4> QED BY <4>1 DEF BuildInv
    <3>3. CASE UNCHANGED operatorVars
      BY <3>3 DEF BuildInv, operatorVars, settleVars, matchVars
    <3> QED BY <1>3, <3>1, <3>2, <3>3
  <2>4. NoncesContiguous => NoncesContiguous'
    <3>1. tree' = tree /\ draft' = draft
      BY <2>1
    <3>2. \A id : NoncesOf(id)' = NoncesOf(id) /\ NextNonce(id)' = NextNonce(id)
      BY <3>1 DEF NoncesOf, NextNonce
    <3> QED BY <3>1, <3>2 DEF NoncesContiguous
  <2> QED BY <2>2, <2>3, <2>4 DEF BuildInv
<1> QED BY <1>1, <1>2, <1>3 DEF HostNext, Proceed

LEMMA BuilderStarts == HostInit => BuildInv
<1> SUFFICES ASSUME NEW accs, AccountsOK(accs), OperatorInit(accs) PROVE BuildInv
  BY DEF HostInit
<1>1. tree = accs /\ draft = NewBuilder /\ stage = "building"
  BY DEF OperatorInit
<1>2. /\ draft.deposits = <<>> /\ draft.forced = <<>> /\ draft.orders = <<>>
      /\ draft.withdrawals = <<>>
  BY <1>1 DEF NewBuilder
<1>3. /\ TakenDeposits(<<>>, cursors.deposits) /\ Len(<<>>) =< Limits.forced
      /\ TakenOrders(<<>>, Opened(tree, <<>>))
      /\ TakenWithdrawals(<<>>, tree) /\ NoncesDistinct(<<>>, <<>>)
  BY <1>1, NothingTaken
<1> QED BY <1>1, <1>2, <1>3 DEF BuildInv, Collected

THEOREM HostCollects == HostSpec => []BuildInv
BY HostStarts, HostStep, HostHolds, BuilderStarts, BuildStep, PTL DEF HostSpec

-----------------------------------------------------------------------------
(* What the guest makes of it: its first check                             *)

\* The witness is one the guest accepts: it lists the touched accounts that exist, as
\* they are, in the order of their ids.
LEMMA WitnessIsAccepted ==
    ASSUME AccountsOK(tree), DraftOK
    PROVE  /\ Witness \in Seq(RawAccount) /\ Witness \in Seq(AnAccount) /\ Canonical(Witness)
           /\ Len(Witness) =< Limits.accounts
           /\ \A id : Has(Witness, id) <=> id \in draft.touched \cap DOMAIN tree
           /\ \A i \in DOMAIN Witness : Witness[i] = tree[Witness[i].id]
<1> DEFINE ids == draft.touched \cap DOMAIN tree
           list == Ascending(ids)
<1>1. IsFiniteSet(ids) /\ ids \in SUBSET Int /\ Cardinality(ids) =< Cardinality(draft.touched)
  BY FS_Subset, SettlementAssumption DEF DraftOK
<1>2. /\ Cardinality(ids) \in Nat /\ Cardinality(draft.touched) \in Nat
      /\ Cardinality(draft.touched) =< Limits.accounts /\ Limits.accounts \in Nat
  BY <1>1, FS_CardinalityType, SettlementAssumption DEF DraftOK
<1>3. list \in SetToSeqs(ids) /\ \A i \in 1..(Len(list) - 1) : list[i] < list[i + 1]
  BY <1>1, AscendingLists
<1>4. Witness \in Seq(RawAccount) /\ Len(Witness) = Len(list)
  BY WitnessLists
<1>5. \A i \in DOMAIN Witness : Witness[i].id = list[i] /\ Witness[i] = tree[Witness[i].id]
  BY WitnessLists
<1> HIDE DEF list, ids
<1>6. /\ Len(list) = Cardinality(ids) /\ DOMAIN list = 1..Len(list) /\ Len(list) \in Nat
      /\ \A a \in ids : \E i \in DOMAIN list : list[i] = a
      /\ \A i \in DOMAIN list : list[i] \in ids
  BY <1>1, <1>3, Enumerates
<1>7. DOMAIN Witness = DOMAIN list /\ DOMAIN Witness = 1..Len(list)
  BY <1>4, <1>6
<1>8. \A id : Has(Witness, id) <=> id \in ids
  BY <1>5, <1>6, <1>7 DEF Has
<1>9. Canonical(Witness)
  <2>1. \A i \in 1..(Len(Witness) - 1) : Witness[i].id < Witness[i + 1].id
    <3> SUFFICES ASSUME NEW i \in 1..(Len(Witness) - 1) PROVE Witness[i].id < Witness[i + 1].id
      OBVIOUS
    <3>1. i \in DOMAIN Witness /\ i + 1 \in DOMAIN Witness /\ i \in 1..(Len(list) - 1)
      BY <1>4, <1>6, <1>7
    <3> QED BY <1>3, <1>5, <3>1
  <2>2. \A i \in DOMAIN Witness : \A x \in DOMAIN Witness[i].balances : Witness[i].balances[x] # 0
    <3> SUFFICES ASSUME NEW i \in DOMAIN Witness
                 PROVE  \A x \in DOMAIN Witness[i].balances : Witness[i].balances[x] # 0
      OBVIOUS
    <3>1. Witness[i].id \in DOMAIN tree
      BY <1>5, <1>6, <1>7 DEF ids
    <3>2. \A x \in DOMAIN tree[Witness[i].id].balances : tree[Witness[i].id].balances[x] # 0
      BY <3>1 DEF AccountsOK
    <3> QED BY <1>5, <3>2
  <2> QED BY <2>1, <2>2 DEF Canonical
<1>10. Witness \in Seq(AnAccount)
  BY <1>4, <1>9, DecodedAccounts
<1>11. Len(Witness) =< Limits.accounts
  BY <1>1, <1>2, <1>4, <1>6
<1> QED BY <1>4, <1>5, <1>8, <1>9, <1>10, <1>11 DEF ids

\* It says of the touched accounts what the ledger says.
LEMMA WitnessSays ==
    ASSUME AccountsOK(tree), DraftOK, NEW id \in draft.touched, NEW x
    PROVE  /\ NonceFor(Witness, id) = NextNonce(id)
           /\ BalanceFor(Witness, id, x) = IF id \in DOMAIN tree THEN Balance(tree[id], x) ELSE 0
<1>1. CASE id \in DOMAIN tree
  <2>1. Has(Witness, id)
    BY <1>1, WitnessIsAccepted
  <2>2. PICK i \in DOMAIN Witness : /\ Witness[i].id = id /\ NonceFor(Witness, id) = Witness[i].nonce
                                    /\ \A y : BalanceFor(Witness, id, y) = Balance(Witness[i], y)
    BY <2>1, WitnessIsAccepted, ForAt
  <2>3. Witness[i] = tree[id]
    BY <2>2, WitnessIsAccepted
  <2> QED BY <1>1, <2>2, <2>3 DEF NextNonce
<1>2. CASE id \notin DOMAIN tree
  <2>1. ~Has(Witness, id)
    BY <1>2, WitnessIsAccepted
  <2> QED BY <1>2, <2>1 DEF NextNonce, NonceFor, BalanceFor
<1> QED BY <1>1, <1>2

\* With the accounts left aside it commits to the ledger.
LEMMA WitnessCommits ==
    ASSUME AccountsOK(tree), DraftOK, input = BatchInput
    PROVE  RootMatches
<1>1. /\ input.accounts = Witness /\ input.rest = Untouched /\ input.expectedRoot = tree
      /\ input.keys = draft.touched
  BY DEF BatchInput
<1>2. /\ \A id : Has(Witness, id) <=> id \in draft.touched \cap DOMAIN tree
      /\ \A i \in DOMAIN Witness : Witness[i] = tree[Witness[i].id]
      /\ Witness \in Seq(RawAccount)
  BY WitnessIsAccepted
<1>3. DOMAIN Untouched = DOMAIN tree \ draft.touched /\ \A id \in DOMAIN Untouched : Untouched[id] = tree[id]
  BY DEF Untouched
<1>4. {Witness[i].id : i \in DOMAIN Witness} = draft.touched \cap DOMAIN tree
  BY <1>2 DEF Has
<1>5. Provable(input.accounts, input)
  BY <1>1, <1>3, <1>4 DEF Provable
<1>6. ASSUME NEW id \in DOMAIN tree \ DOMAIN Untouched
      PROVE  (CHOOSE a \in ToSet(Witness) : a.id = id) = tree[id]
  <2>1. Has(Witness, id)
    BY <1>2, <1>3
  <2>2. \E a \in ToSet(Witness) : a.id = id
    BY <2>1 DEF Has, ToSet
  <2>3. \A a \in ToSet(Witness) : a = tree[a.id]
    BY <1>2 DEF ToSet
  <2> QED BY <2>2, <2>3
<1>7. Root(Witness, Untouched) = tree
  <2>1. tree = [id \in DOMAIN tree |-> tree[id]]
    BY DEF AccountsOK
  <2>2. {Witness[i].id : i \in DOMAIN Witness} \cup DOMAIN Untouched = DOMAIN tree
    BY <1>3, <1>4
  <2>3. Root(Witness, Untouched)
          = [id \in DOMAIN tree |-> IF id \in DOMAIN Untouched THEN Untouched[id]
                                    ELSE CHOOSE a \in ToSet(Witness) : a.id = id]
    BY <2>2 DEF Root
  <2> QED BY <1>3, <1>6, <2>1, <2>3
<1> QED BY <1>1, <1>5, <1>7 DEF RootMatches

\* What a list moves, entry by entry, depends on accounts, assets and amounts alone.
SameEntries(s, t) ==
    /\ DOMAIN s = DOMAIN t
    /\ \A i \in DOMAIN t :
          s[i].account = t[i].account /\ s[i].asset = t[i].asset /\ s[i].amount = t[i].amount

LEMMA SameMoves ==
    ASSUME NEW s, NEW t, SameEntries(s, t)
    PROVE  /\ \A x : Total(s, x) = Total(t, x)
           /\ \A I \in SUBSET DOMAIN t : \A id, x : Guest!MovedBy(s, I, id, x) = Guest!MovedBy(t, I, id, x)
<1>1. /\ DOMAIN s = DOMAIN t
      /\ \A i \in DOMAIN t :
            s[i].account = t[i].account /\ s[i].asset = t[i].asset /\ s[i].amount = t[i].amount
  BY DEF SameEntries
<1>2. ASSUME NEW x PROVE Total(s, x) = Total(t, x)
  BY <1>1 DEF Total
<1>3. ASSUME NEW I \in SUBSET DOMAIN t, NEW id, NEW x
      PROVE  Guest!MovedBy(s, I, id, x) = Guest!MovedBy(t, I, id, x)
  BY <1>1 DEF Guest!MovedBy
<1> QED BY <1>2, <1>3

\* What the lists of the batch move is what those of the builder move.
LEMMA BatchMoves ==
    ASSUME DraftOK, input = BatchInput
    PROVE  SameEntries(input.deposits, draft.deposits) /\ SameEntries(input.withdrawals, draft.withdrawals)
<1>1. input.deposits = IndexedInputs(draft.deposits) /\ input.withdrawals = IndexedWithdrawals
  BY DEF BatchInput
<1>2. SameEntries(IndexedInputs(draft.deposits), draft.deposits)
  BY DEF IndexedInputs, SameEntries
<1>3. SameEntries(IndexedWithdrawals, draft.withdrawals)
  BY DEF IndexedWithdrawals, SameEntries
<1> QED BY <1>1, <1>2, <1>3

\* A total is the sum of what the accounts of any set that has them all move.
LEMMA TotalByPeople ==
    ASSUME NEW S, NEW list \in Seq(S), \A i \in DOMAIN list : list[i].amount \in Nat,
           NEW T, IsFiniteSet(T), \A i \in DOMAIN list : list[i].account \in T, NEW x
    PROVE  Total(list, x) = SumFunctionOnSet([id \in T |-> Guest!MovedBy(list, 1..Len(list), id, x)], T)
<1> DEFINE n == Len(list)
           MovedUpTo(p) == [id \in T |-> Guest!MovedBy(list, 1..p, id, x)]
           Q == {p \in 0..n : TotalIn(list, 1..p, x) = SumFunctionOnSet(MovedUpTo(p), T)}
<1>1. n \in Nat /\ DOMAIN list = 1..n
  OBVIOUS
<1>2. 0 \in Q
  <2>1. \A id \in T : MovedUpTo(0)[id] = 0
    BY NothingMoves
  <2> HIDE DEF MovedUpTo
  <2>2. SumFunctionOnSet(MovedUpTo(0), T) = 0
    BY <2>1, SumZero
  <2>3. TotalIn(list, 1..0, x) = 0
    BY NothingMoves
  <2> QED BY <1>1, <2>2, <2>3
<1>3. ASSUME NEW p \in 0..(n - 1), p \in Q PROVE p + 1 \in Q
  <2> DEFINE e == list[p + 1]
  <2>1. p \in Nat /\ p + 1 \in DOMAIN list /\ p + 1 \in 0..n /\ \A i \in 1..(p + 1) : list[i].amount \in Nat
    BY <1>1
  <2>2. \A id : /\ Guest!MovedBy(list, 1..p, id, x) \in Nat
                /\ Guest!MovedBy(list, 1..(p + 1), id, x) = Guest!MovedBy(list, 1..p, id, x) + Share(e, id, x)
                /\ Share(e, id, x) \in Nat
    BY <2>1, MovedByNext
  <2>3. /\ TotalIn(list, 1..p, x) \in Nat /\ AmountOf(e, x) \in Nat
        /\ TotalIn(list, 1..(p + 1), x) = TotalIn(list, 1..p, x) + AmountOf(e, x)
    BY <2>1, TotalInNext
  <2>4. /\ e.account \in T
        /\ \A id \in T : MovedUpTo(p)[id] = Guest!MovedBy(list, 1..p, id, x)
        /\ \A id \in T : MovedUpTo(p + 1)[id] = Guest!MovedBy(list, 1..(p + 1), id, x)
    BY <2>1
  <2>5. Share(e, e.account, x) = AmountOf(e, x) /\ \A id : id # e.account => Share(e, id, x) = 0
    BY DEF Share, AmountOf
  <2>6. TotalIn(list, 1..p, x) = SumFunctionOnSet(MovedUpTo(p), T)
    BY <1>3
  <2> HIDE DEF MovedUpTo, e
  <2>7. \A id \in T : /\ MovedUpTo(p)[id] \in Int /\ MovedUpTo(p + 1)[id] \in Int
                      /\ id # e.account => MovedUpTo(p + 1)[id] = MovedUpTo(p)[id]
    BY <2>2, <2>4, <2>5
  <2>8. SumFunctionOnSet(MovedUpTo(p + 1), T)
          = SumFunctionOnSet(MovedUpTo(p), T) - MovedUpTo(p)[e.account] + MovedUpTo(p + 1)[e.account]
    BY <2>4, <2>7, SumChange
  <2>9. /\ MovedUpTo(p + 1)[e.account] = MovedUpTo(p)[e.account] + AmountOf(e, x)
        /\ MovedUpTo(p)[e.account] \in Nat
    BY <2>2, <2>4, <2>5
  <2>10. SumFunctionOnSet(MovedUpTo(p + 1), T) = SumFunctionOnSet(MovedUpTo(p), T) + AmountOf(e, x)
    <3>1. SumFunctionOnSet(MovedUpTo(p), T) \in Int
      BY <2>3, <2>6
    <3> QED BY <2>3, <2>8, <2>9, <3>1
  <2> QED BY <2>1, <2>3, <2>6, <2>10
<1>4. \A p \in 0..(n - 1) : p \in Q => p + 1 \in Q
  BY <1>3
<1> HIDE DEF Q
<1>5. n \in Q
  BY <1>1, <1>2, <1>4, CountingInduction
<1>6. Total(list, x) = TotalIn(list, 1..n, x)
  BY EntriesTotal
<1> QED BY <1>5, <1>6 DEF Q

\* What the guest asks of the configuration, which no batch can change.
ConfigurationValid ==
    /\ \A x \in Configured : Scale[x] # 0
    /\ \A m \in DOMAIN Markets :
          Markets[m].base # Markets[m].quote /\ {Markets[m].base, Markets[m].quote} \subseteq Configured
    /\ BuyerFeeBps =< BPS
    /\ Cardinality(Configured) =< Limits.assets
    /\ Cardinality(DOMAIN Markets) =< Limits.markets

\* What build cannot see to, or does not look at: the fee recipient has an account, every
\* operation is signed, the amounts fit their type together, the cursor after the deposits is one
\* too, and a touched account that is nowhere comes after all others.
Orderly ==
    /\ ConfigurationValid
    /\ FeeRecipient \in DOMAIN tree
    /\ PhantomsLast
    /\ \A i \in DOMAIN draft.orders : draft.orders[i].signed
    /\ \A i \in DOMAIN draft.withdrawals : draft.withdrawals[i].signed
    /\ \A x \in Assets : custody[x] + Total(draft.deposits, x) =< MaxAmount
    /\ cursors.deposits + Len(draft.deposits) =< Limits.u64

\* The listed accounts hold no more than what has come in.
LEMMA ListedIsBacked ==
    ASSUME HostInv, input = BatchInput, NEW x \in Assets
    PROVE  Held(Witness, x) \in Nat /\ Held(Witness, x) =< custody[x] /\ custody[x] \in Int
<1>1. AccountsOK(tree) /\ DraftOK /\ CursorsOK /\ Backing
  BY DEF HostInv
<1>2. BatchIn(input) /\ input.accounts = Witness
  BY <1>1, BuiltIsTyped DEF BatchInput
<1>3. RootMatches /\ Witness \in Seq(AnAccount) /\ Canonical(Witness)
  BY <1>1, WitnessCommits, WitnessIsAccepted
<1>4. Provable(Witness, input) /\ Root(Witness, input.rest) = tree
  BY <1>2, <1>3 DEF RootMatches, BatchInput
<1>5. Guest!TotalOf(Ledger(tree), x) = Held(Witness, x) + RestHeld(x)
  BY <1>2, <1>3, <1>4, LedgerTotals
<1>6. RestHeld(x) \in Nat
  <2> DEFINE h == [id \in DOMAIN input.rest |-> Balance(input.rest[id], x)]
  <2>1. \A id \in DOMAIN input.rest : h[id] \in Nat
    BY <1>2, RestIsAccounts
  <2>2. IsFiniteSet(DOMAIN input.rest)
    BY <1>2 DEF BatchIn
  <2>3. RestHeld(x) = SumFunctionOnSet(h, DOMAIN input.rest)
    BY DEF RestHeld
  <2> HIDE DEF h
  <2> QED BY <2>1, <2>2, <2>3, SumNat
<1>7. Held(Witness, x) \in Nat
  <2> DEFINE I == IdsOf(Witness)
             f == [id \in I |-> BalanceFor(Witness, id, x)]
  <2>1. IsFiniteSet(I)
    BY <1>3, IdsAreFinite
  <2>2. Held(Witness, x) = SumFunctionOnSet(f, I) /\ \A id \in I : f[id] \in Nat
    BY <1>3, <2>1, HeldByPeople
  <2> HIDE DEF f, I
  <2> QED BY <2>1, <2>2, SumNat
<1>8. custody[x] = Guest!TotalOf(Ledger(tree), x) /\ custody[x] \in Int
  BY <1>1 DEF Backing
<1> QED BY <1>5, <1>6, <1>7, <1>8

\* The withdrawals take no more than the listed accounts hold.
LEMMA WithdrawalsAreBacked ==
    ASSUME AccountsOK(tree), DraftOK, TakenWithdrawals(draft.withdrawals, tree), NEW x \in Assets
    PROVE  Total(draft.withdrawals, x) \in Nat /\ Total(draft.withdrawals, x) =< Held(Witness, x)
<1> DEFINE ws == draft.withdrawals
           T == draft.touched
           f == [id \in T |-> Guest!MovedBy(ws, 1..Len(ws), id, x)]
           g == [id \in T |-> BalanceFor(Witness, id, x)]
<1>1. /\ ws \in Seq(SignedWithdrawal) /\ IsFiniteSet(T) /\ \A i \in DOMAIN ws : ws[i].account \in T
      /\ Len(ws) \in Nat /\ DOMAIN ws = 1..Len(ws)
  BY DEF DraftOK
<1>2. \A i \in DOMAIN ws : ws[i].amount \in Nat
  <2>1. \A e \in SignedWithdrawal : e.amount \in Nat
    BY ExchangeAssumption DEF SignedWithdrawal
  <2> QED BY <1>1, <2>1
<1>3. Total(ws, x) = SumFunctionOnSet(f, T)
  BY <1>1, <1>2, TotalByPeople
<1>4. Held(Witness, x) = SumFunctionOnSet(g, T) /\ \A id \in T : g[id] \in Nat
  <2>1. Witness \in Seq(AnAccount) /\ Canonical(Witness) /\ IdsOf(Witness) \subseteq T
    BY WitnessIsAccepted, IdsAreFinite
  <2> QED BY <1>1, <2>1, HeldByPeople
<1>5. ASSUME NEW id \in T PROVE f[id] \in Nat /\ f[id] =< g[id]
  <2>1. f[id] = Guest!MovedBy(ws, 1..Len(ws), id, x) /\ g[id] = BalanceFor(Witness, id, x)
    OBVIOUS
  <2>2. f[id] \in Nat
    <3>1. Len(ws) \in 0..Len(ws)
      BY <1>1
    <3> QED BY <1>1, <1>2, <2>1, <3>1, MovedByType
  <2>3. CASE id \in DOMAIN tree
    <3>1. g[id] = Balance(tree[id], x)
      BY <2>1, <2>3, WitnessSays
    <3>2. Guest!MovedBy(ws, 1..Len(ws), id, x) =< Balance(tree[id], x)
      BY <2>3 DEF TakenWithdrawals
    <3> QED BY <2>1, <2>2, <3>1, <3>2
  <2>4. CASE id \notin DOMAIN tree
    <3>1. \A i \in 1..Len(ws) : ws[i].account # id
      BY <1>1, <2>4 DEF TakenWithdrawals
    <3>2. f[id] = 0
      BY <1>1, <2>1, <3>1, NobodysEntries
    <3>3. g[id] \in Nat
      BY <1>4
    <3> QED BY <3>2, <3>3
  <2> QED BY <2>3, <2>4
<1> HIDE DEF f, g, T
<1>6. SumFunctionOnSet(f, T) =< SumFunctionOnSet(g, T) /\ SumFunctionOnSet(f, T) \in Nat
  BY <1>1, <1>4, <1>5, SumAtMost, SumNat
<1> QED BY <1>3, <1>4, <1>6

\* The markets of the orders.
UsedMarkets == {draft.orders[i].market : i \in DOMAIN draft.orders}

\* There is a book for each of them, the least market first.
LEMMA BooksListed ==
    ASSUME DraftOK
    PROVE  LET used == Ascending(UsedMarkets)
           IN  /\ Len(used) \in Nat /\ DOMAIN used = 1..Len(used)
               /\ \A k \in 1..(Len(used) - 1) : used[k] < used[k + 1]
               /\ \A k, l \in DOMAIN used : used[k] = used[l] => k = l
               /\ \A k \in DOMAIN used : used[k] \in UsedMarkets
               /\ \A m \in UsedMarkets : \E k \in DOMAIN used : used[k] = m
               /\ DOMAIN SortedBooks = DOMAIN used /\ Len(SortedBooks) = Len(used)
               /\ \A k \in DOMAIN used :
                     /\ SortedBooks[k].market = used[k]
                     /\ SortedBooks[k].buys = SortedSide(used[k], "buy")
                     /\ SortedBooks[k].sells = SortedSide(used[k], "sell")
<1> DEFINE os == draft.orders
           f == [i \in DOMAIN os |-> os[i].market]
           used == Ascending(UsedMarkets)
<1>1. os \in Seq(SignedOrder) /\ DOMAIN os = 1..Len(os) /\ Len(os) \in Nat
  BY DEF DraftOK
<1>2. UsedMarkets \in SUBSET Int
  <2>1. \A o \in SignedOrder : o.market \in Int
    BY DEF SignedOrder
  <2> QED BY <1>1, <2>1 DEF UsedMarkets
<1>3. IsFiniteSet(UsedMarkets)
  <2>1. f \in Surjection(DOMAIN os, UsedMarkets)
    BY DEF Surjection, UsedMarkets
  <2>2. IsFiniteSet(DOMAIN os)
    <3> HIDE DEF os
    <3> QED BY <1>1, FS_Interval
  <2> HIDE DEF f
  <2> QED BY <2>1, <2>2, FS_Surjection
<1>4. used \in SetToSeqs(UsedMarkets) /\ \A k \in 1..(Len(used) - 1) : used[k] < used[k + 1]
  BY <1>2, <1>3, AscendingLists
<1>5. SortedBooks = [k \in DOMAIN used |-> [market |-> used[k], buys |-> SortedSide(used[k], "buy"),
                                            sells |-> SortedSide(used[k], "sell")]]
  BY DEF SortedBooks, UsedMarkets
<1> HIDE DEF used
<1>6. /\ used \in Seq(UsedMarkets)
      /\ \A k, l \in DOMAIN used : used[k] = used[l] => k = l
      /\ \A m \in UsedMarkets : \E k \in DOMAIN used : used[k] = m
  BY <1>3, <1>4, Enumerates
<1>7. Len(used) \in Nat /\ DOMAIN used = 1..Len(used) /\ \A k \in DOMAIN used : used[k] \in UsedMarkets
  BY <1>6
<1>8. DOMAIN SortedBooks = DOMAIN used /\ Len(SortedBooks) = Len(used)
  BY <1>5, <1>7
<1>9. \A k \in DOMAIN used :
         /\ SortedBooks[k].market = used[k]
         /\ SortedBooks[k].buys = SortedSide(used[k], "buy")
         /\ SortedBooks[k].sells = SortedSide(used[k], "sell")
  BY <1>5
<1> QED BY <1>4, <1>6, <1>7, <1>8, <1>9 DEF used

\* No more books than markets.
LEMMA BooksAreFew ==
    ASSUME DraftOK, TakenOrders(draft.orders, Opened(tree, draft.deposits))
    PROVE  Len(SortedBooks) \in Nat /\ Len(SortedBooks) =< Cardinality(DOMAIN Markets)
<1> DEFINE used == Ascending(UsedMarkets)
           n == Len(used)
           h == [k \in 1..n |-> used[k]]
<1>1. /\ n \in Nat /\ DOMAIN used = 1..n /\ Len(SortedBooks) = n
      /\ \A k, l \in DOMAIN used : used[k] = used[l] => k = l
      /\ \A k \in DOMAIN used : used[k] \in UsedMarkets
  BY BooksListed
<1>2. UsedMarkets \subseteq DOMAIN Markets
  BY DEF UsedMarkets, TakenOrders
<1> HIDE DEF used, n
<1>3. h \in Injection(1..n, DOMAIN Markets)
  BY <1>1, <1>2 DEF Injection, IsInjective
<1>4. IsFiniteSet(1..n) /\ Cardinality(1..n) = n
  BY <1>1, FS_Interval
<1> HIDE DEF h
<1>5. Cardinality(1..n) =< Cardinality(DOMAIN Markets)
  BY <1>3, FS_Injection, OperatorAssumption
<1> QED BY <1>1, <1>4, <1>5

\* The guest has nothing to object to in what build hands it.
LEMMA BuiltIsValid ==
    ASSUME HostInv, BuildInv, Orderly, stage = "validate"
    PROVE  ValidInput
<1>1. AccountsOK(tree) /\ DraftOK /\ CursorsOK /\ WithGuest /\ input = BatchInput /\ BatchIn(input)
  BY DEF HostInv, WithGuest, SettleInv
<1>2. /\ input.accounts = Witness /\ input.deposits = IndexedInputs(draft.deposits)
      /\ input.forced = IndexedInputs(draft.forced) /\ input.orders = IndexedOrders
      /\ input.withdrawals = IndexedWithdrawals /\ input.depositCursor = cursors.deposits
  BY <1>1 DEF BatchInput
<1>3. /\ Len(input.deposits) = Len(draft.deposits) /\ Len(input.forced) = Len(draft.forced)
      /\ Len(input.orders) = Len(draft.orders) /\ Len(input.withdrawals) = Len(draft.withdrawals)
  <2>1. /\ draft.deposits \in Seq(QueueItem) /\ draft.forced \in Seq(QueueItem)
        /\ draft.orders \in Seq(SignedOrder) /\ draft.withdrawals \in Seq(SignedWithdrawal)
    BY <1>1 DEF DraftOK
  <2>2. /\ Len(IndexedInputs(draft.deposits)) = Len(draft.deposits)
        /\ Len(IndexedInputs(draft.forced)) = Len(draft.forced)
    BY <2>1 DEF IndexedInputs
  <2>3. Len(IndexedOrders) = Len(draft.orders)
    BY <2>1 DEF IndexedOrders
  <2>4. Len(IndexedWithdrawals) = Len(draft.withdrawals)
    BY <2>1 DEF IndexedWithdrawals
  <2> QED BY <1>2, <2>2, <2>3, <2>4
<1>4. WithinLimits
  <2>1. Len(Witness) =< Limits.accounts
    BY <1>1, WitnessIsAccepted
  <2>2. Len(input.orderBooks) =< Limits.markets
    <3>1. input.orderBooks = SortedBooks
      BY <1>1 DEF BatchInput
    <3>2. Len(SortedBooks) \in Nat /\ Len(SortedBooks) =< Cardinality(DOMAIN Markets)
      BY <1>1, BooksAreFew DEF BuildInv, Collected
    <3>3. Cardinality(DOMAIN Markets) =< Limits.markets
      BY DEF Orderly, ConfigurationValid
    <3>4. Cardinality(DOMAIN Markets) \in Nat /\ Limits.markets \in Nat
      BY OperatorAssumption, FS_CardinalityType
    <3> QED BY <3>1, <3>2, <3>3, <3>4
  <2> QED BY <1>2, <1>3, <2>1, <2>2
          DEF WithinLimits, BuildInv, Collected, TakenDeposits, TakenOrders, TakenWithdrawals,
              Orderly, ConfigurationValid
<1>5. ValidConfig
  <2>1. FeeRecipient \in draft.touched \cap DOMAIN tree
    BY <1>1 DEF Orderly, DraftOK
  <2>2. \E i \in DOMAIN Witness : Witness[i].id = FeeRecipient
    BY <1>1, <2>1, WitnessIsAccepted DEF Has
  <2> QED BY <1>2, <2>2 DEF ValidConfig, Orderly, ConfigurationValid
<1>6. Canonical(input.accounts) /\ RootMatches
  BY <1>1, <1>2, WitnessIsAccepted, WitnessCommits
<1>7. ValidDeposits
  <2>1. DOMAIN input.deposits = DOMAIN draft.deposits
    BY <1>2 DEF IndexedInputs
  <2>2. \A i \in DOMAIN draft.deposits :
           /\ input.deposits[i].id = draft.deposits[i].id /\ input.deposits[i].asset = draft.deposits[i].asset
           /\ input.deposits[i].amount = draft.deposits[i].amount
    BY <1>2 DEF IndexedInputs
  <2>3. TakenDeposits(draft.deposits, cursors.deposits)
    BY DEF BuildInv, Collected
  <2>4. cursors.deposits + Len(draft.deposits) =< Limits.u64
    BY DEF Orderly
  <2> QED BY <1>2, <1>3, <2>1, <2>2, <2>3, <2>4 DEF ValidDeposits, InOrder, TakenDeposits
<1>8. ASSUME NEW x \in Assets
      PROVE  Baseline[x] \in 0..MaxAmount /\ Remaining(Baseline, input.withdrawals)[x] \in 0..MaxAmount
  <2>1. Held(Witness, x) \in Nat /\ Held(Witness, x) =< custody[x] /\ custody[x] \in Int
    BY <1>1, ListedIsBacked
  <2>2. Total(draft.withdrawals, x) \in Nat /\ Total(draft.withdrawals, x) =< Held(Witness, x)
    BY <1>1, WithdrawalsAreBacked DEF BuildInv, Collected
  <2>3. /\ Total(input.deposits, x) = Total(draft.deposits, x)
        /\ Total(input.withdrawals, x) = Total(draft.withdrawals, x)
    BY <1>1, BatchMoves, SameMoves
  <2>4. Total(input.deposits, x) \in Nat
    BY <1>1, InputTotals
  <2>5. custody[x] + Total(draft.deposits, x) =< MaxAmount
    BY DEF Orderly
  <2>6. Baseline[x] = Held(Witness, x) + Total(draft.deposits, x)
    BY <1>2, <2>3 DEF Baseline
  <2>7. Remaining(Baseline, input.withdrawals)[x] = Baseline[x] - Total(draft.withdrawals, x)
    BY <2>3 DEF Remaining
  <2> QED BY <2>1, <2>2, <2>3, <2>4, <2>5, <2>6, <2>7, ExchangeAssumption
<1>9. Fits(Baseline) /\ Fits(Remaining(Baseline, input.withdrawals))
  BY <1>8 DEF Fits
<1> QED BY <1>4, <1>5, <1>6, <1>7, <1>9 DEF ValidInput

-----------------------------------------------------------------------------
(* The deposits                                                            *)

\* A list of accounts is as long as there are people in it.
LEMMA LenIsPeople ==
    ASSUME NEW accs \in Seq(AnAccount), Canonical(accs)
    PROVE  Len(accs) = Cardinality(IdsOf(accs)) /\ IsFiniteSet(IdsOf(accs))
<1> DEFINE n == Len(accs)
<1>1. n \in Nat /\ DOMAIN accs = 1..n /\ IsFiniteSet(IdsOf(accs))
  BY IdsAreFinite
<1>2. CASE n = 0
  <2>1. IdsOf(accs) = {}
    BY <1>1, <1>2 DEF IdsOf
  <2> QED BY <1>1, <1>2, <2>1, FS_EmptySet
<1>3. CASE n # 0
  <2> DEFINE last == accs[n].id
             B == {id \in IdsOf(accs) : id < last}
  <2>1. n \in DOMAIN accs /\ n \in 1..n
    BY <1>1, <1>3
  <2>2. Cardinality(B) = n - 1
    BY <2>1, PlaceIsRank
  <2>3. IsFiniteSet(B) /\ last \notin B
    <3>1. last \in Int
      BY <2>1, CanonicalIsSorted
    <3> QED BY <1>1, <3>1, FS_Subset
  <2>4. IdsOf(accs) = B \cup {last}
    <3>1. last \in IdsOf(accs)
      BY <2>1 DEF IdsOf
    <3>2. ASSUME NEW id \in IdsOf(accs), id # last PROVE id < last
      <4>1. PICK i \in DOMAIN accs : accs[i].id = id
        BY DEF IdsOf
      <4>2. i < n
        BY <1>1, <3>2, <4>1
      <4> QED BY <2>1, <4>1, <4>2, CanonicalIsSorted
    <3> QED BY <3>1, <3>2
  <2> HIDE DEF B, last
  <2>5. Cardinality(B \cup {last}) = Cardinality(B) + 1
    BY <2>3, FS_AddElement
  <2> QED BY <1>1, <2>2, <2>4, <2>5
<1> QED BY <1>2, <1>3

\* The total of a list is at least that of its first entries.
LEMMA TotalInGrows ==
    ASSUME NEW list, NEW n \in Nat, \A i \in 1..n : list[i].amount \in Nat, NEW p \in 0..n, NEW x
    PROVE  TotalIn(list, 1..p, x) =< TotalIn(list, 1..n, x)
<1> DEFINE Q == {k \in 0..n : /\ TotalIn(list, 1..k, x) \in Nat
                              /\ k >= p => TotalIn(list, 1..p, x) =< TotalIn(list, 1..k, x)}
<1>1. 0 \in Q
  <2>1. TotalIn(list, 1..0, x) = 0
    BY NothingMoves
  <2>2. 0 >= p => p = 0
    OBVIOUS
  <2> QED BY <2>1, <2>2
<1>2. ASSUME NEW k \in 0..(n - 1), k \in Q PROVE k + 1 \in Q
  <2>1. k \in Nat /\ k + 1 \in 0..n /\ \A i \in 1..(k + 1) : list[i].amount \in Nat
    OBVIOUS
  <2>2. /\ TotalIn(list, 1..k, x) \in Nat /\ AmountOf(list[k + 1], x) \in Nat
        /\ TotalIn(list, 1..(k + 1), x) = TotalIn(list, 1..k, x) + AmountOf(list[k + 1], x)
    BY <2>1, TotalInNext
  <2>3. CASE k >= p
    <3>1. TotalIn(list, 1..p, x) =< TotalIn(list, 1..k, x)
      BY <1>2, <2>3
    <3>2. TotalIn(list, 1..p, x) \in Int
      <4>1. p \in Nat /\ \A i \in 1..p : list[i].amount \in Nat
        OBVIOUS
      <4>2. CASE p = 0
        BY <4>2, NothingMoves
      <4>3. CASE p # 0
        <5>1. p - 1 \in Nat /\ \A i \in 1..((p - 1) + 1) : list[i].amount \in Nat
          BY <4>1, <4>3
        <5>2. /\ TotalIn(list, 1..(p - 1), x) \in Nat /\ AmountOf(list[(p - 1) + 1], x) \in Nat
              /\ TotalIn(list, 1..((p - 1) + 1), x)
                   = TotalIn(list, 1..(p - 1), x) + AmountOf(list[(p - 1) + 1], x)
          BY <5>1, TotalInNext
        <5>3. (p - 1) + 1 = p
          BY <4>1
        <5> QED BY <5>2, <5>3
      <4> QED BY <4>2, <4>3
    <3> QED BY <2>1, <2>2, <3>1, <3>2
  <2>4. CASE ~(k >= p)
    <3>1. k + 1 >= p => k + 1 = p
      BY <2>1, <2>4
    <3> QED BY <2>1, <2>2, <3>1
  <2> QED BY <2>3, <2>4
<1>3. \A k \in 0..(n - 1) : k \in Q => k + 1 \in Q
  BY <1>2
<1> HIDE DEF Q
<1>4. n \in Q
  BY <1>1, <1>3, CountingInduction
<1> QED BY <1>4 DEF Q

\* Where there is room for the account and the amount, a deposit is credited.
LEMMA CreditFits ==
    ASSUME NEW accs \in Seq(AnAccount), Canonical(accs), NEW d, AnEntry(d),
           NEW T, IsFiniteSet(T), Cardinality(T) =< Limits.accounts,
           IdsOf(accs) \subseteq T, d.account \in T,
           Held(accs, d.asset) + d.amount =< MaxAmount
    PROVE  Deposited(accs, d) # {}
<1> DEFINE x == d.asset
           at == Locate(accs, d)
           opened == IF IsAt(accs, at, d.account) THEN accs
                     ELSE InsertAt(accs, at, NewAccount(d.account))
           m == [op |-> "credit", index |-> at, asset |-> d.asset, amount |-> d.amount]
<1>1. d.asset \in Assets /\ d.amount \in Nat
  BY ExchangeAssumption DEF AnEntry
<1>2. /\ opened \in Seq(AnAccount) /\ Canonical(opened) /\ IsAt(opened, at, d.account)
      /\ \/ Len(opened) = Len(accs)
         \/ Len(opened) = Len(accs) + 1
      /\ \A id : /\ Has(opened, id) <=> Has(accs, id) \/ id = d.account
                 /\ NonceFor(opened, id) = NonceFor(accs, id)
                 /\ \A y : BalanceFor(opened, id, y) = BalanceFor(accs, id, y)
  BY OpenedEffect
<1>3. Deposited(accs, d) = IF Len(opened) > Len(accs) /\ Len(accs) >= Limits.accounts THEN {}
                           ELSE ApplyMove(opened, m)
  BY DEF Deposited
<1> HIDE DEF opened, m
<1>4. Len(opened) =< Limits.accounts
  <2>1. IdsOf(opened) \subseteq T
    <3>1. \A id : id \in IdsOf(opened) <=> Has(opened, id)
      BY <1>2, IdsAreFinite
    <3>2. \A id : id \in IdsOf(accs) <=> Has(accs, id)
      BY IdsAreFinite
    <3> QED BY <1>2, <3>1, <3>2
  <2>2. Cardinality(IdsOf(opened)) =< Cardinality(T) /\ Cardinality(T) \in Nat
    BY <2>1, FS_Subset, FS_CardinalityType
  <2>3. Len(opened) = Cardinality(IdsOf(opened)) /\ Len(opened) \in Nat
    BY <1>2, LenIsPeople
  <2> QED BY <2>2, <2>3, SettlementAssumption
<1>5. /\ Balance(opened[at], x) \in Nat /\ Balance(opened[at], x) =< Held(accs, x)
      /\ Held(accs, x) \in Nat
  <2>1. at \in DOMAIN opened /\ opened[at].id = d.account
    BY <1>2 DEF IsAt
  <2>2. Balance(opened[at], x) = BalanceFor(accs, d.account, x)
    BY <1>2, <2>1, AtItsPlace
  <2> DEFINE I == IdsOf(accs) \cup {d.account}
             f == [id \in I |-> BalanceFor(accs, id, x)]
  <2>3. IsFiniteSet(I)
    BY IdsAreFinite, FS_AddElement
  <2>4. Held(accs, x) = SumFunctionOnSet(f, I) /\ \A id \in I : f[id] \in Nat
    BY <2>3, HeldByPeople
  <2>5. d.account \in I /\ f[d.account] = BalanceFor(accs, d.account, x)
    OBVIOUS
  <2> HIDE DEF f, I
  <2> QED BY <2>2, <2>3, <2>4, <2>5, SumAtLeast, SumNat
<1>6. Balance(opened[at], x) + d.amount =< MaxAmount
  BY <1>1, <1>5, ExchangeAssumption
<1>7. ApplyMove(opened, m) # {}
  <2>1. m.op = "credit" /\ m.index = at /\ m.asset = x /\ m.amount = d.amount
    BY DEF m
  <2>2. Credit(opened[at], x, d.amount) # {}
    BY <1>6 DEF Credit
  <2> HIDE DEF at, x
  <2> QED BY <2>1, <2>2 DEF ApplyMove
<1>8. ~(Len(opened) > Len(accs) /\ Len(accs) >= Limits.accounts)
  <2>1. Len(opened) \in Nat /\ Len(accs) \in Nat
    BY <1>2
  <2> QED BY <1>4, <2>1, SettlementAssumption
<1> QED BY <1>3, <1>7, <1>8

\* Room for every deposit: amounts and accounts.
HasRoom(accs, deps, T) ==
    /\ IsFiniteSet(T) /\ Cardinality(T) =< Limits.accounts
    /\ IdsOf(accs) \subseteq T /\ \A i \in 1..Len(deps) : deps[i].account \in T
    /\ \A x \in Assets : /\ Held(accs, x) \in Nat
                         /\ Held(accs, x) + TotalIn(deps, 1..Len(deps), x) =< MaxAmount

\* Where there is room the next deposit is credited.
LEMMA NextDepositFits ==
    ASSUME NEW accs \in Seq(AnAccount), Canonical(accs), NEW S, NEW deps \in Seq(S),
           \A i \in DOMAIN deps : AnEntry(deps[i]), NEW T, HasRoom(accs, deps, T),
           NEW p \in 0..(Len(deps) - 1), NEW mid, Credited(accs, mid, deps, p)
    PROVE  Deposited(mid, deps[p + 1]) # {}
<1> DEFINE d == deps[p + 1]
           n == Len(deps)
           x == d.asset
<1>1. /\ n \in Nat /\ DOMAIN deps = 1..n /\ p \in Nat /\ p + 1 \in 1..n /\ p + 1 \in 0..n
      /\ p + 1 \in DOMAIN deps
  OBVIOUS
<1>2. AnEntry(d) /\ \A i \in 1..n : deps[i].amount \in Nat
  BY <1>1, ExchangeAssumption DEF AnEntry
<1>3. d.asset \in Assets /\ d.amount \in Nat
  BY <1>2, ExchangeAssumption DEF AnEntry
<1>4. /\ mid \in Seq(AnAccount) /\ Canonical(mid)
      /\ \A id : Has(mid, id) <=> Has(accs, id) \/ \E i \in 1..p : deps[i].account = id
      /\ Held(mid, x) = Held(accs, x) + TotalIn(deps, 1..p, x)
  BY DEF Credited
<1>5. /\ IsFiniteSet(T) /\ Cardinality(T) =< Limits.accounts
      /\ IdsOf(accs) \subseteq T /\ \A i \in 1..n : deps[i].account \in T
      /\ Held(accs, x) \in Nat /\ Held(accs, x) + TotalIn(deps, 1..n, x) =< MaxAmount
  BY <1>3 DEF HasRoom
<1>6. IdsOf(mid) \subseteq T /\ d.account \in T
  <2>1. \A id : id \in IdsOf(mid) <=> Has(mid, id)
    BY <1>4, IdsAreFinite
  <2>2. \A id : id \in IdsOf(accs) <=> Has(accs, id)
    BY IdsAreFinite
  <2>3. d.account \in T /\ \A i \in 1..p : deps[i].account \in T
    BY <1>1, <1>5
  <2> QED BY <1>4, <1>5, <2>1, <2>2, <2>3
<1>7. Held(mid, x) + d.amount =< MaxAmount
  <2>1. \A i \in 1..(p + 1) : deps[i].amount \in Nat
    BY <1>1, <1>2
  <2>2. /\ TotalIn(deps, 1..p, x) \in Nat
        /\ TotalIn(deps, 1..(p + 1), x) = TotalIn(deps, 1..p, x) + AmountOf(deps[p + 1], x)
    BY <1>1, <2>1, TotalInNext
  <2>3. AmountOf(deps[p + 1], x) = d.amount
    BY DEF AmountOf
  <2>4. TotalIn(deps, 1..(p + 1), x) =< TotalIn(deps, 1..n, x)
    BY <1>1, <1>2, TotalInGrows
  <2>5. TotalIn(deps, 1..n, x) \in Nat
    <3>1. Total(deps, x) = TotalIn(deps, 1..n, x) /\ Total(deps, x) \in Nat
      BY <1>1, <1>2, EntriesTotal
    <3> QED BY <3>1
  <2> HIDE DEF n, x, d
  <2> QED BY <1>3, <1>4, <1>5, <2>2, <2>3, <2>4, <2>5, ExchangeAssumption
<1> HIDE DEF d
<1>8. Deposited(mid, d) # {}
  BY <1>2, <1>4, <1>5, <1>6, <1>7, CreditFits
<1> QED BY <1>8 DEF d

\* So all of them are.
LEMMA DepositsFit ==
    ASSUME NEW accs \in Seq(AnAccount), Canonical(accs), Len(accs) =< Limits.accounts,
           NEW S, NEW deps \in Seq(S), \A i \in DOMAIN deps : AnEntry(deps[i]),
           NEW T, HasRoom(accs, deps, T)
    PROVE  FoldLeft(ThenDeposit, {accs}, deps) # {}
<1> DEFINE n == Len(deps)
           Made(p) == Deposits!Fold({accs}, SubSeq(deps, 1, p))
           Good(p) == \E a \in Made(p) : Credited(accs, a, deps, p)
           Q == {p \in 0..n : Good(p)}
<1>0. n \in Nat /\ DOMAIN deps = 1..n
  OBVIOUS
<1>1. 0 \in Q
  <2>1. Made(0) = {accs}
    BY Deposits!FoldEnds
  <2>2. Credited(accs, accs, deps, 0)
    BY NoDeposit
  <2> HIDE DEF Made, n
  <2>3. Good(0)
    BY <2>1, <2>2
  <2>4. 0 \in 0..n
    BY <1>0
  <2> HIDE DEF Good
  <2> QED BY <2>3, <2>4
<1>2. ASSUME NEW p \in 0..(n - 1), p \in Q PROVE p + 1 \in Q
  <2>1. Made(p + 1) = ThenDeposit(Made(p), deps[p + 1])
    BY Deposits!FoldPrefix
  <2>2. p \in Nat /\ p + 1 \in 0..n /\ 1..(p + 1) \subseteq 1..n
    BY <1>0
  <2>3. \A i \in 1..(p + 1) : AnEntry(deps[i])
    BY <1>0, <2>2
  <2>4. PICK mid \in Made(p) : Credited(accs, mid, deps, p)
    BY <1>2
  <2>5. Deposited(mid, deps[p + 1]) # {}
    BY <2>4, NextDepositFits
  <2> HIDE DEF Made, n
  <2>6. PICK a : a \in Deposited(mid, deps[p + 1])
    BY <2>5
  <2>7. a \in Made(p + 1)
    BY <2>1, <2>4, <2>6 DEF ThenDeposit
  <2>8. Credited(accs, a, deps, p + 1)
    BY <2>2, <2>3, <2>4, <2>6, OneMoreDeposit
  <2>9. Good(p + 1)
    BY <2>7, <2>8
  <2> HIDE DEF Good
  <2> QED BY <2>2, <2>9
<1>3. \A p \in 0..(n - 1) : p \in Q => p + 1 \in Q
  BY <1>2
<1>4. n \in Q
  <2> HIDE DEF Q, n
  <2> QED BY <1>0, <1>1, <1>3, CountingInduction
<1>5. Made(n) # {}
  BY <1>4
<1>6. Made(n) = FoldLeft(ThenDeposit, {accs}, deps)
  BY DepositsAreFold, Deposits!FoldEnds
<1> QED BY <1>5, <1>6

\* No deposit of a batch from build is turned down.
LEMMA BuiltDepositsFit ==
    ASSUME HostInv, Orderly, stage = "deposits"
    PROVE  WithDeposits # {}
<1>1. AccountsOK(tree) /\ DraftOK /\ SettleInv /\ LedgerInv /\ input = BatchInput /\ BatchIn(input)
  BY DEF HostInv, WithGuest, SettleInv
<1>2. accounts = Witness
  BY <1>1 DEF LedgerInv, BatchInput
<1>3. /\ Witness \in Seq(AnAccount) /\ Canonical(Witness) /\ Len(Witness) =< Limits.accounts
      /\ IdsOf(Witness) \subseteq draft.touched
  BY <1>1, WitnessIsAccepted, IdsAreFinite
<1>4. /\ input.deposits \in Seq(QueueEntry) /\ \A i \in DOMAIN input.deposits : AnEntry(input.deposits[i])
      /\ DOMAIN input.deposits = 1..Len(input.deposits)
  <2>1. input.deposits \in Seq(QueueEntry)
    BY <1>1 DEF BatchIn
  <2>2. \A i \in DOMAIN input.deposits : AnEntry(input.deposits[i])
    BY <1>1, InputEntries
  <2> QED BY <2>1, <2>2
<1>5. \A i \in 1..Len(input.deposits) : input.deposits[i].account \in draft.touched
  <2>1. SameEntries(input.deposits, draft.deposits)
    BY <1>1, BatchMoves
  <2> QED BY <1>1, <1>4, <2>1 DEF SameEntries, DraftOK
<1>6. ASSUME NEW x \in Assets
      PROVE  /\ Held(Witness, x) \in Nat
             /\ Held(Witness, x) + TotalIn(input.deposits, 1..Len(input.deposits), x) =< MaxAmount
  <2>1. Held(Witness, x) \in Nat /\ Held(Witness, x) =< custody[x] /\ custody[x] \in Int
    BY <1>1, ListedIsBacked
  <2>2. /\ TotalIn(input.deposits, 1..Len(input.deposits), x) = Total(draft.deposits, x)
        /\ Total(draft.deposits, x) \in Nat
    BY <1>1, BatchMoves, SameMoves, InputTotals
  <2>3. custody[x] + Total(draft.deposits, x) =< MaxAmount
    BY DEF Orderly
  <2> QED BY <2>1, <2>2, <2>3, ExchangeAssumption
<1>7. HasRoom(Witness, input.deposits, draft.touched)
  BY <1>1, <1>3, <1>5, <1>6 DEF HasRoom, DraftOK
<1> QED BY <1>2, <1>3, <1>4, <1>7, DepositsFit DEF WithDeposits

-----------------------------------------------------------------------------
(* The operations and their books                                          *)

\* After the deposits the rank of an account is its place, if accounts that are nowhere
\* come last.
LEMMA RankIsPlace ==
    ASSUME HostInv, PhantomsLast, stage = "operations"
    PROVE  /\ \A id \in draft.touched \cap Known : IsAt(accounts, Rank(id), id)
           /\ \A i \in DOMAIN accounts :
                 accounts[i].id \in draft.touched \cap Known /\ i = Rank(accounts[i].id)
<1>1. AccountsOK(tree) /\ DraftOK /\ SettleInv /\ LedgerInv /\ input = BatchInput
  BY DEF HostInv, WithGuest
<1>2. /\ accounts \in Seq(AnAccount) /\ Canonical(accounts)
      /\ \A i \in DOMAIN accounts : accounts[i].id \in Ids
  BY <1>1 DEF SettleInv, WitnessOK
<1>3. Joined(input, accounts)
  BY <1>1 DEF LedgerInv
<1>4. \A id : id \in IdsOf(accounts) <=> Has(accounts, id)
  BY <1>2, IdsAreFinite
<1>5. IdsOf(accounts) = draft.touched \cap Known
  <2>1. IdsOf(accounts) = People(input)
    BY <1>2, <1>3, <1>4 DEF People, Joined, IdsOf
  <2> QED BY <1>1, <2>1, PeopleAreKnown
<1>6. draft.touched \in SUBSET Int
  BY <1>1, SettlementAssumption DEF DraftOK
<1>7. ASSUME NEW i \in DOMAIN accounts
      PROVE  accounts[i].id \in draft.touched \cap Known /\ i = Rank(accounts[i].id)
  <2> DEFINE id == accounts[i].id
  <2>1. id \in draft.touched \cap Known
    BY <1>5 DEF IdsOf
  <2>2. Cardinality({j \in IdsOf(accounts) : j < id}) = i - 1
    BY <1>2, PlaceIsRank
  <2> HIDE DEF id
  <2>3. {j \in draft.touched : j < id} = {j \in IdsOf(accounts) : j < id}
    <3>1. ASSUME NEW j \in draft.touched, j < id PROVE j \in Known
      <4>1. j \notin Known => id < j
        BY <2>1 DEF PhantomsLast
      <4>2. id \in Int /\ j \in Int
        BY <1>6, <2>1
      <4> QED BY <3>1, <4>1, <4>2
    <3> QED BY <1>5, <3>1
  <2>4. i \in Int
    BY <1>2
  <2>5. Cardinality({j \in draft.touched : j < id}) = i - 1
    BY <2>2, <2>3
  <2>6. Rank(id) = i
    BY <2>4, <2>5 DEF Rank
  <2> QED BY <2>1, <2>6 DEF id
<1>8. ASSUME NEW id \in draft.touched \cap Known PROVE IsAt(accounts, Rank(id), id)
  <2>1. PICK i \in DOMAIN accounts : accounts[i].id = id
    BY <1>4, <1>5 DEF Has
  <2> QED BY <1>7, <2>1 DEF IsAt
<1> QED BY <1>7, <1>8

\* A place of two lists one after the other that is none of the first's is one of the second's.
LEMMA PlaceOfLater ==
    ASSUME NEW n \in Nat, NEW m \in Nat, NEW k \in 1..(n + m), k \notin 1..n
    PROVE  k - n \in 1..m /\ k = n + (k - n)
  OBVIOUS

\* Whose operation comes at place k of the batch, and with which nonce.
OwnerAt(k) ==
    IF k =< Len(draft.orders) THEN draft.orders[k].trader
    ELSE draft.withdrawals[k - Len(draft.orders)].account

NonceAt(k) ==
    IF k =< Len(draft.orders) THEN draft.orders[k].nonce
    ELSE draft.withdrawals[k - Len(draft.orders)].nonce

\* The places of the operations are those of the orders and, after them, of the withdrawals.
LEMMA OperationPlaces ==
    ASSUME DraftOK, input = BatchInput
    PROVE  LET n == Len(draft.orders)
           IN  /\ n \in Nat /\ DOMAIN Operations = 1..(n + Len(draft.withdrawals))
               /\ DOMAIN draft.orders = 1..n
               /\ DOMAIN draft.withdrawals = 1..Len(draft.withdrawals)
               /\ Len(draft.withdrawals) \in Nat
               /\ \A k \in DOMAIN Operations :
                     /\ Operations[k].index = Rank(OwnerAt(k)) /\ Operations[k].nonce = NonceAt(k)
                     /\ k =< n => k \in DOMAIN draft.orders
                     /\ k > n => k - n \in DOMAIN draft.withdrawals
<1> DEFINE os == draft.orders
           ws == draft.withdrawals
           n == Len(os)
<1>1. /\ os \in Seq(SignedOrder) /\ ws \in Seq(SignedWithdrawal)
      /\ input.orders = IndexedOrders /\ input.withdrawals = IndexedWithdrawals
  BY DEF DraftOK, BatchInput
<1>2. /\ n \in Nat /\ Len(ws) \in Nat /\ DOMAIN os = 1..n /\ DOMAIN ws = 1..Len(ws)
  BY <1>1
<1>3. /\ Len(input.orders) = n /\ DOMAIN input.orders = 1..n
      /\ \A i \in 1..n : input.orders[i].index = Rank(os[i].trader) /\ input.orders[i].nonce = os[i].nonce
  BY <1>1, <1>2 DEF IndexedOrders
<1>4. /\ Len(input.withdrawals) = Len(ws) /\ DOMAIN input.withdrawals = 1..Len(ws)
      /\ \A i \in 1..Len(ws) : /\ input.withdrawals[i].index = Rank(ws[i].account)
                               /\ input.withdrawals[i].nonce = ws[i].nonce
  BY <1>1, <1>2 DEF IndexedWithdrawals
<1>5. /\ DOMAIN Operations = 1..(n + Len(ws))
      /\ \A k \in 1..(n + Len(ws)) :
            Operations[k] = IF k =< n THEN input.orders[k] ELSE input.withdrawals[k - n]
  <2> DEFINE E == OrderEntry \cup WithdrawalEntry
             a == input.orders
             b == input.withdrawals
  <2>1. a \in Seq(OrderEntry) /\ b \in Seq(WithdrawalEntry)
    BY <1>1, OperationsTyped
  <2>2. a \in Seq(E) /\ b \in Seq(E)
    BY <2>1
  <2>3. Operations = a \o b /\ Len(a) = n /\ Len(b) = Len(ws)
    BY <1>3, <1>4 DEF Operations
  <2> HIDE DEF E, a, b, n
  <2>4. /\ a \o b \in Seq(E) /\ Len(a \o b) = Len(a) + Len(b)
        /\ \A k \in 1..(Len(a) + Len(b)) : (a \o b)[k] = IF k <= Len(a) THEN a[k] ELSE b[k - Len(a)]
    BY <2>2, ConcatProperties
  <2>5. DOMAIN Operations = 1..(n + Len(ws))
    BY <2>3, <2>4
  <2>6. \A k \in 1..(n + Len(ws)) : Operations[k] = IF k =< n THEN a[k] ELSE b[k - n]
    BY <2>3, <2>4
  <2> QED BY <2>5, <2>6 DEF a, b
<1> HIDE DEF n
<1>6. ASSUME NEW k \in 1..(n + Len(ws))
      PROVE  /\ Operations[k].index = Rank(OwnerAt(k)) /\ Operations[k].nonce = NonceAt(k)
             /\ k =< n => k \in DOMAIN os
             /\ k > n => k - n \in DOMAIN ws
  <2>1. CASE k =< n
    <3>1. k \in 1..n /\ Operations[k] = input.orders[k]
      BY <1>2, <1>5, <2>1
    <3> QED BY <1>2, <1>3, <2>1, <3>1 DEF OwnerAt, NonceAt, n
  <2>2. CASE ~(k =< n)
    <3>1. k - n \in 1..Len(ws) /\ Operations[k] = input.withdrawals[k - n] /\ k > n
      BY <1>2, <1>5, <2>2
    <3> QED BY <1>2, <1>4, <2>2, <3>1 DEF OwnerAt, NonceAt, n
  <2> QED BY <2>1, <2>2
<1> QED BY <1>2, <1>5, <1>6 DEF n

\* An account's operations have its nonces, one each.
LEMMA OneNonceEach ==
    ASSUME DraftOK, input = BatchInput, NoncesDistinct(draft.orders, draft.withdrawals), NEW id
    PROVE  LET own == {k \in DOMAIN Operations : OwnerAt(k) = id}
           IN  /\ NoncesOf(id) = {NonceAt(k) : k \in own}
               /\ IsFiniteSet(own) /\ Cardinality(own) = Cardinality(NoncesOf(id))
<1> DEFINE own == {k \in DOMAIN Operations : OwnerAt(k) = id}
           os == draft.orders
           ws == draft.withdrawals
           n == Len(os)
<1>1. /\ n \in Nat /\ Len(ws) \in Nat /\ DOMAIN Operations = 1..(n + Len(ws))
      /\ DOMAIN os = 1..n /\ DOMAIN ws = 1..Len(ws)
  BY OperationPlaces
<1>2. \A k \in 1..n : OwnerAt(k) = os[k].trader /\ NonceAt(k) = os[k].nonce
  BY DEF OwnerAt, NonceAt
<1>3. \A i \in 1..Len(ws) : OwnerAt(n + i) = ws[i].account /\ NonceAt(n + i) = ws[i].nonce
  <2> SUFFICES ASSUME NEW i \in 1..Len(ws)
               PROVE  OwnerAt(n + i) = ws[i].account /\ NonceAt(n + i) = ws[i].nonce
    OBVIOUS
  <2>1. ~(n + i =< n) /\ (n + i) - n = i
    BY <1>1
  <2> QED BY <2>1 DEF OwnerAt, NonceAt
<1>4. \A k \in 1..(n + Len(ws)) : k \in 1..n \/ \E i \in 1..Len(ws) : k = n + i
  <2> SUFFICES ASSUME NEW k \in 1..(n + Len(ws)), k \notin 1..n
               PROVE  \E i \in 1..Len(ws) : k = n + i
    OBVIOUS
  <2> HIDE DEF n, ws
  <2>1. k - n \in 1..Len(ws) /\ k = n + (k - n)
    BY <1>1, PlaceOfLater
  <2> QED BY <2>1
<1>5. NoncesOf(id) = {os[i].nonce : i \in {i \in 1..n : os[i].trader = id}}
                     \cup {ws[i].nonce : i \in {i \in 1..Len(ws) : ws[i].account = id}}
  BY <1>1 DEF NoncesOf
<1>6. (\A i \in 1..n : i \in DOMAIN Operations) /\ \A i \in 1..Len(ws) : n + i \in DOMAIN Operations
  <2> HIDE DEF n, ws
  <2> QED BY <1>1
<1> HIDE DEF n
<1>7. NoncesOf(id) = {NonceAt(k) : k \in own}
  <2>1. ASSUME NEW v \in NoncesOf(id) PROVE v \in {NonceAt(k) : k \in own}
    <3>1. CASE \E i \in 1..n : os[i].trader = id /\ v = os[i].nonce
      <4>1. PICK i \in 1..n : os[i].trader = id /\ v = os[i].nonce
        BY <3>1
      <4>2. i \in own /\ v = NonceAt(i)
        BY <1>2, <1>6, <4>1
      <4> QED BY <4>2
    <3>2. CASE \E i \in 1..Len(ws) : ws[i].account = id /\ v = ws[i].nonce
      <4>1. PICK i \in 1..Len(ws) : ws[i].account = id /\ v = ws[i].nonce
        BY <3>2
      <4>2. n + i \in own /\ v = NonceAt(n + i)
        BY <1>3, <1>6, <4>1
      <4> QED BY <4>2
    <3> QED BY <1>5, <2>1, <3>1, <3>2
  <2>2. ASSUME NEW k \in own PROVE NonceAt(k) \in NoncesOf(id)
    <3>1. k \in 1..(n + Len(ws)) /\ OwnerAt(k) = id
      BY <1>1
    <3>2. CASE k \in 1..n
      BY <1>2, <1>5, <3>1, <3>2
    <3>3. CASE \E i \in 1..Len(ws) : k = n + i
      <4>1. PICK i \in 1..Len(ws) : k = n + i
        BY <3>3
      <4> QED BY <1>3, <1>5, <3>1, <4>1
    <3> QED BY <1>4, <3>1, <3>2, <3>3
  <2> HIDE DEF own
  <2> QED BY <2>1, <2>2
<1>8. ASSUME NEW k \in own, NEW l \in own, NonceAt(k) = NonceAt(l) PROVE k = l
  <2>1. /\ k \in 1..(n + Len(ws)) /\ OwnerAt(k) = id
        /\ l \in 1..(n + Len(ws)) /\ OwnerAt(l) = id
    BY <1>1
  <2>2. /\ \A i, j \in 1..n : os[i].trader = os[j].trader /\ os[i].nonce = os[j].nonce => i = j
        /\ \A i, j \in 1..Len(ws) : ws[i].account = ws[j].account /\ ws[i].nonce = ws[j].nonce => i = j
        /\ \A i \in 1..n, j \in 1..Len(ws) : os[i].trader = ws[j].account => os[i].nonce # ws[j].nonce
    BY <1>1 DEF NoncesDistinct
  <2> HIDE DEF own, os, ws
  <2>3. CASE k \in 1..n /\ l \in 1..n
    BY <1>2, <1>8, <2>1, <2>2, <2>3
  <2>4. CASE k \in 1..n /\ l \notin 1..n
    <3>1. PICK j \in 1..Len(ws) : l = n + j
      BY <1>4, <2>1, <2>4
    <3>2. /\ os[k].trader = id /\ NonceAt(k) = os[k].nonce
          /\ ws[j].account = id /\ NonceAt(l) = ws[j].nonce
      BY <1>2, <1>3, <2>1, <2>4, <3>1
    <3> QED BY <1>8, <2>2, <2>4, <3>2
  <2>5. CASE k \notin 1..n /\ l \in 1..n
    <3>1. PICK j \in 1..Len(ws) : k = n + j
      BY <1>4, <2>1, <2>5
    <3>2. /\ os[l].trader = id /\ NonceAt(l) = os[l].nonce
          /\ ws[j].account = id /\ NonceAt(k) = ws[j].nonce
      BY <1>2, <1>3, <2>1, <2>5, <3>1
    <3> QED BY <1>8, <2>2, <2>5, <3>2
  <2>6. CASE k \notin 1..n /\ l \notin 1..n
    <3>1. PICK i \in 1..Len(ws) : k = n + i
      BY <1>4, <2>1, <2>6
    <3>2. PICK j \in 1..Len(ws) : l = n + j
      BY <1>4, <2>1, <2>6
    <3>3. /\ ws[i].account = id /\ NonceAt(k) = ws[i].nonce
          /\ ws[j].account = id /\ NonceAt(l) = ws[j].nonce
      BY <1>3, <2>1, <3>1, <3>2
    <3> QED BY <1>8, <2>2, <3>1, <3>2, <3>3
  <2> QED BY <2>3, <2>4, <2>5, <2>6
<1>9. IsFiniteSet(own)
  <2>1. IsFiniteSet(1..(n + Len(ws))) /\ own \in SUBSET (1..(n + Len(ws)))
    BY <1>1, FS_Interval
  <2> QED BY <2>1, FS_Subset
<1>10. Cardinality(NoncesOf(id)) = Cardinality(own)
  <2> DEFINE f == [k \in own |-> NonceAt(k)]
  <2> HIDE DEF own
  <2>1. /\ f \in [own -> NoncesOf(id)] /\ \A v \in NoncesOf(id) : \E k \in own : f[k] = v
        /\ \A k, l \in own : f[k] = f[l] => k = l
    BY <1>7, <1>8
  <2> HIDE DEF f
  <2>2. f \in Bijection(own, NoncesOf(id))
    BY <2>1 DEF Bijection, Injection, Surjection, IsInjective
  <2> QED BY <1>9, <2>2, FS_Bijection DEF ExistsBijection
<1> QED BY <1>7, <1>9, <1>10

\* After the deposits everybody has the nonce the ledger had before the batch.
LEMMA NonceIsNext ==
    ASSUME HostInv, stage = "operations", NEW i \in DOMAIN accounts,
           accounts[i].id \in draft.touched
    PROVE  accounts[i].nonce = NextNonce(accounts[i].id) /\ accounts[i].nonce \in 0..Limits.u64
<1>1. AccountsOK(tree) /\ DraftOK /\ SettleInv /\ LedgerInv /\ input = BatchInput
  BY DEF HostInv, WithGuest
<1>2. /\ accounts \in Seq(AnAccount) /\ Canonical(accounts) /\ accounts[i].nonce \in 0..Limits.u64
      /\ input.accounts = Witness
  BY <1>1 DEF SettleInv, WitnessOK, BatchInput
<1>3. NonceFor(accounts, accounts[i].id) = accounts[i].nonce
  BY <1>2, AtItsPlace
<1>4. NonceFor(accounts, accounts[i].id) = NonceFor(Witness, accounts[i].id)
  BY <1>1, <1>2 DEF LedgerInv, NoncesKept
<1>5. NonceFor(Witness, accounts[i].id) = NextNonce(accounts[i].id)
  BY <1>1, WitnessSays
<1> QED BY <1>2, <1>3, <1>4, <1>5

\* Every operation is of somebody who is touched and listed.
LEMMA OwnersAreKnown ==
    ASSUME DraftOK, Collected, input = BatchInput
    PROVE  /\ \A i \in DOMAIN draft.orders : draft.orders[i].trader \in draft.touched \cap Known
           /\ \A i \in DOMAIN draft.withdrawals :
                 draft.withdrawals[i].account \in draft.touched \cap Known
           /\ \A k \in DOMAIN Operations : OwnerAt(k) \in draft.touched \cap Known
<1>1. \A i \in DOMAIN draft.orders : draft.orders[i].trader \in draft.touched \cap Known
  BY DEF Collected, TakenOrders, Opened, Known, DraftOK
<1>2. \A i \in DOMAIN draft.withdrawals : draft.withdrawals[i].account \in draft.touched \cap Known
  BY DEF Collected, TakenWithdrawals, Opened, Known, DraftOK
<1>3. ASSUME NEW k \in DOMAIN Operations PROVE OwnerAt(k) \in draft.touched \cap Known
  <2> DEFINE n == Len(draft.orders)
  <2>1. /\ n \in Nat /\ Len(draft.withdrawals) \in Nat
        /\ DOMAIN Operations = 1..(n + Len(draft.withdrawals))
        /\ k =< n => k \in DOMAIN draft.orders
        /\ k > n => k - n \in DOMAIN draft.withdrawals
    BY OperationPlaces
  <2>2. CASE k =< n
    BY <1>1, <2>1, <2>2 DEF OwnerAt
  <2>3. CASE ~(k =< n)
    <3>1. k > n
      BY <2>1, <2>3
    <3> QED BY <1>2, <2>1, <2>3, <3>1 DEF OwnerAt
  <2> QED BY <2>2, <2>3
<1> QED BY <1>1, <1>2, <1>3

LEMMA BuiltWithdrawalsValid ==
    ASSUME HostInv, BuildInv, Orderly, stage = "operations"
    PROVE  ValidWithdrawals
<1>1. /\ DraftOK /\ input.withdrawals = IndexedWithdrawals /\ input = BatchInput
      /\ Collected /\ TakenWithdrawals(draft.withdrawals, tree)
  BY DEF HostInv, WithGuest, BatchInput, BuildInv, Collected
<1> SUFFICES ASSUME NEW i \in DOMAIN input.withdrawals
             PROVE  /\ input.withdrawals[i].amount # 0 /\ input.withdrawals[i].asset \in Configured
                    /\ input.withdrawals[i].signed
                    /\ IsAt(accounts, input.withdrawals[i].index, input.withdrawals[i].account)
  BY DEF ValidWithdrawals, ValidOperation
<1> DEFINE w == draft.withdrawals[i]
<1>2. /\ i \in DOMAIN draft.withdrawals
      /\ input.withdrawals[i].amount = w.amount /\ input.withdrawals[i].asset = w.asset
      /\ input.withdrawals[i].signed = w.signed /\ input.withdrawals[i].account = w.account
      /\ input.withdrawals[i].index = Rank(w.account)
  BY <1>1 DEF IndexedWithdrawals
<1>3. w.amount # 0 /\ w.asset \in Configured /\ w.signed
  BY <1>1, <1>2 DEF TakenWithdrawals, Orderly
<1>4. IsAt(accounts, Rank(w.account), w.account)
  <2>1. w.account \in draft.touched \cap Known
    BY <1>1, <1>2, OwnersAreKnown
  <2>2. PhantomsLast
    BY DEF Orderly
  <2> HIDE DEF w
  <2> QED BY <2>1, <2>2, RankIsPlace
<1> QED BY <1>2, <1>3, <1>4

LEMMA BuiltOrdersValid ==
    ASSUME HostInv, BuildInv, Orderly, stage = "operations"
    PROVE  ValidOrders
<1>1. /\ DraftOK /\ input.orders = IndexedOrders /\ input = BatchInput
      /\ Collected /\ TakenOrders(draft.orders, Opened(tree, draft.deposits))
  BY DEF HostInv, WithGuest, BatchInput, BuildInv, Collected
<1>2. DOMAIN input.orders = DOMAIN draft.orders
  BY <1>1 DEF IndexedOrders
<1>3. ASSUME NEW i \in DOMAIN input.orders
      PROVE  /\ input.orders[i].price # 0 /\ input.orders[i].quantity # 0
             /\ input.orders[i].market \in DOMAIN Markets
             /\ input.orders[i].signed /\ IsAt(accounts, input.orders[i].index, input.orders[i].trader)
  <2> DEFINE o == draft.orders[i]
  <2>1. /\ i \in DOMAIN draft.orders
        /\ input.orders[i].price = o.price /\ input.orders[i].quantity = o.quantity
        /\ input.orders[i].market = o.market /\ input.orders[i].signed = o.signed
        /\ input.orders[i].trader = o.trader /\ input.orders[i].index = Rank(o.trader)
    BY <1>1 DEF IndexedOrders
  <2>2. o.price # 0 /\ o.quantity # 0 /\ o.market \in DOMAIN Markets /\ o.signed
    BY <1>1, <2>1 DEF TakenOrders, Orderly
  <2>3. o.trader \in draft.touched \cap Known /\ PhantomsLast
    BY <1>1, <2>1, OwnersAreKnown DEF Orderly
  <2>4. IsAt(accounts, Rank(o.trader), o.trader)
    <3> HIDE DEF o
    <3> QED BY <2>3, RankIsPlace
  <2> QED BY <2>1, <2>2, <2>4
<1>4. ASSUME NEW i \in DOMAIN input.orders, NEW j \in DOMAIN input.orders,
             input.orders[i].sequence = input.orders[j].sequence
      PROVE  i = j
  <2>1. /\ input.orders[i].sequence = draft.orders[i].sequence
        /\ input.orders[j].sequence = draft.orders[j].sequence
    BY <1>1, <1>2 DEF IndexedOrders
  <2> QED BY <1>1, <1>2, <1>4, <2>1 DEF DraftOK
<1> QED BY <1>3, <1>4 DEF ValidOrders, ValidOperation

LEMMA BuiltNoncesValid ==
    ASSUME HostInv, BuildInv, Orderly, stage = "operations"
    PROVE  ValidNonces
<1>1. /\ DraftOK /\ input = BatchInput /\ Collected /\ NoncesContiguous /\ PhantomsLast
      /\ NoncesDistinct(draft.orders, draft.withdrawals)
  BY DEF HostInv, WithGuest, BuildInv, Collected, Orderly
<1> SUFFICES ASSUME NEW i \in DOMAIN accounts
             PROVE  /\ {Operations[k].nonce : k \in OperationsAt(i)}
                          = accounts[i].nonce..(accounts[i].nonce + Cardinality(OperationsAt(i)) - 1)
                    /\ accounts[i].nonce + Cardinality(OperationsAt(i)) =< Limits.u64
  BY DEF ValidNonces
<1> DEFINE id == accounts[i].id
           own == {k \in DOMAIN Operations : OwnerAt(k) = id}
<1>2. id \in draft.touched \cap Known /\ i = Rank(id)
  BY <1>1, RankIsPlace
<1>3. accounts[i].nonce = NextNonce(id)
  BY <1>2, NonceIsNext
<1>4. \A k \in DOMAIN Operations : Operations[k].index = Rank(OwnerAt(k)) /\ Operations[k].nonce = NonceAt(k)
  BY <1>1, OperationPlaces
<1>5. ASSUME NEW k \in DOMAIN Operations PROVE Rank(OwnerAt(k)) = i <=> OwnerAt(k) = id
  <2>1. OwnerAt(k) \in draft.touched \cap Known
    BY <1>1, OwnersAreKnown
  <2>2. IsAt(accounts, Rank(OwnerAt(k)), OwnerAt(k))
    BY <1>1, <2>1, RankIsPlace
  <2> QED BY <1>2, <2>2 DEF IsAt
<1> HIDE DEF id
<1>6. OperationsAt(i) = own
  BY <1>4, <1>5 DEF OperationsAt
<1>7. {Operations[k].nonce : k \in own} = {NonceAt(k) : k \in own}
  BY <1>4
<1>8. NoncesOf(id) = {NonceAt(k) : k \in own} /\ Cardinality(own) = Cardinality(NoncesOf(id))
  BY <1>1, OneNonceEach
<1>9. /\ NoncesOf(id) = NextNonce(id)..(NextNonce(id) + Cardinality(NoncesOf(id)) - 1)
      /\ NextNonce(id) + Cardinality(NoncesOf(id)) =< Limits.u64
  BY <1>1, <1>2 DEF NoncesContiguous
<1> HIDE DEF own
<1> QED BY <1>3, <1>6, <1>7, <1>8, <1>9

\* A side lists the orders of its market and side, each once, the best first.
LEMMA SideListed ==
    ASSUME DraftOK, NEW m, NEW side
    PROVE  LET list == SortedSide(m, side)
           IN  /\ Len(list) \in Nat /\ DOMAIN list = 1..Len(list)
               /\ \A i, j \in DOMAIN list : list[i] = list[j] => i = j
               /\ \A i \in DOMAIN list : list[i] \in SideSet(m, side)
               /\ \A n \in SideSet(m, side) : \E i \in DOMAIN list : list[i] = n
               /\ \A i \in 1..(Len(list) - 1) :
                     Precedes(draft.orders[list[i]], draft.orders[list[i + 1]])
<1> DEFINE list == SortedSide(m, side)
           S == SideSet(m, side)
<1>1. /\ IsFiniteSet(S) /\ list \in SetToSeqs(S)
      /\ \A i \in 1..(Len(list) - 1) : Precedes(draft.orders[list[i]], draft.orders[list[i + 1]])
  BY SidesSort
<1> HIDE DEF list, S
<1>2. /\ list \in Seq(S) /\ \A i, j \in DOMAIN list : list[i] = list[j] => i = j
      /\ \A n \in S : \E i \in DOMAIN list : list[i] = n
  BY <1>1, Enumerates
<1>3. Len(list) \in Nat /\ DOMAIN list = 1..Len(list) /\ \A i \in DOMAIN list : list[i] \in S
  BY <1>2
<1> QED BY <1>1, <1>2, <1>3 DEF list, S

\* The order at a place of the books: of the batch, of the book's market and of the side.
LEMMA PlaceListed ==
    ASSUME DraftOK, NEW p \in Places(SortedBooks)
    PROVE  /\ p[1] \in DOMAIN SortedBooks /\ p[2] \in {"buy", "sell"} /\ p = <<p[1], p[2], p[3]>>
           /\ SideOf(SortedBooks[p[1]], p[2]) = SortedSide(SortedBooks[p[1]].market, p[2])
           /\ p[3] \in DOMAIN SortedSide(SortedBooks[p[1]].market, p[2])
           /\ IndexAt(SortedBooks, p) = SortedSide(SortedBooks[p[1]].market, p[2])[p[3]]
           /\ IndexAt(SortedBooks, p) \in SideSet(SortedBooks[p[1]].market, p[2])
<1>1. PICK k \in DOMAIN SortedBooks, side \in {"buy", "sell"} :
         \E i \in DOMAIN SideOf(SortedBooks[k], side) : p = <<k, side, i>>
  BY DEF Places
<1>2. PICK i \in DOMAIN SideOf(SortedBooks[k], side) : p = <<k, side, i>>
  BY <1>1
<1>3. SideOf(SortedBooks[k], side) = SortedSide(SortedBooks[k].market, side)
  BY BooksListed DEF SideOf
<1>4. SortedSide(SortedBooks[k].market, side)[i] \in SideSet(SortedBooks[k].market, side)
  BY <1>2, <1>3, SideListed
<1> QED BY <1>2, <1>3, <1>4 DEF IndexAt

\* The books build makes of the orders are books the guest accepts.
LEMMA BuiltBooksValid ==
    ASSUME DraftOK, Collected, input = BatchInput
    PROVE  ValidBooks(input.orderBooks)
<1> DEFINE obs == SortedBooks
           os == draft.orders
<1>1. /\ input.orderBooks = obs /\ input.orders = IndexedOrders
      /\ \A i \in DOMAIN os : os[i].market \in DOMAIN Markets
      /\ os \in Seq(SignedOrder)
  BY DEF BatchInput, Collected, TakenOrders, DraftOK
<1>2. /\ DOMAIN input.orders = DOMAIN os
      /\ \A i \in DOMAIN os :
            /\ OrderAt(i).market = os[i].market /\ OrderAt(i).side = os[i].side
            /\ OrderAt(i).price = os[i].price /\ OrderAt(i).sequence = os[i].sequence
            /\ os[i].side \in {"buy", "sell"}
  <2>1. \A i \in DOMAIN os : os[i].side \in {"buy", "sell"}
    <3> SUFFICES ASSUME NEW i \in DOMAIN os PROVE os[i].side \in {"buy", "sell"}
      OBVIOUS
    <3> HIDE DEF os
    <3>1. os[i] \in SignedOrder
      BY <1>1
    <3> QED BY <3>1 DEF SignedOrder
  <2> QED BY <1>1, <2>1 DEF IndexedOrders, OrderAt
<1>3. \A k \in DOMAIN obs : obs[k].market \in UsedMarkets
  BY BooksListed
<1>4. \A i \in DOMAIN os : \E k \in DOMAIN obs : obs[k].market = os[i].market
  <2>1. \A i \in DOMAIN os : os[i].market \in UsedMarkets
    BY DEF UsedMarkets
  <2>2. \A m \in UsedMarkets : \E k \in DOMAIN obs : obs[k].market = m
    BY BooksListed
  <2> HIDE DEF obs, os
  <2> QED BY <2>1, <2>2
<1>5. \A k, l \in DOMAIN obs : obs[k].market = obs[l].market => k = l
  BY BooksListed
<1>6. \A k \in 1..(Len(obs) - 1) : obs[k].market < obs[k + 1].market
  <2> SUFFICES ASSUME NEW k \in 1..(Len(obs) - 1) PROVE obs[k].market < obs[k + 1].market
    OBVIOUS
  <2>1. LET used == Ascending(UsedMarkets)
        IN  /\ Len(used) \in Nat /\ DOMAIN used = 1..Len(used) /\ Len(obs) = Len(used)
            /\ k \in 1..(Len(used) - 1) /\ used[k] < used[k + 1]
            /\ \A n \in DOMAIN used : obs[n].market = used[n]
    BY BooksListed
  <2> QED BY <2>1
<1>7. \A k \in DOMAIN obs, side \in {"buy", "sell"} :
         SideOf(obs[k], side) = SortedSide(obs[k].market, side)
  BY BooksListed DEF SideOf
<1> HIDE DEF obs, os
<1>8. ASSUME NEW k \in DOMAIN obs, NEW side \in {"buy", "sell"} PROVE ValidSide(obs[k], side)
  <2> DEFINE m == obs[k].market
             list == SortedSide(m, side)
  <2>1. SideOf(obs[k], side) = list
    BY <1>7
  <2>2. /\ Len(list) \in Nat /\ DOMAIN list = 1..Len(list)
        /\ \A i \in DOMAIN list : list[i] \in SideSet(m, side)
        /\ \A i \in 1..(Len(list) - 1) : Precedes(os[list[i]], os[list[i + 1]])
    BY SideListed DEF os
  <2> HIDE DEF list
  <2>3. ASSUME NEW i \in DOMAIN list
        PROVE  /\ list[i] \in DOMAIN input.orders /\ list[i] \in DOMAIN os
               /\ OrderAt(list[i]).market = m /\ OrderAt(list[i]).side = side
    <3>1. list[i] \in DOMAIN os /\ os[list[i]].market = m /\ os[list[i]].side = side
      BY <2>2 DEF SideSet, os
    <3> QED BY <1>2, <3>1
  <2>4. ASSUME NEW i \in 1..(Len(list) - 1)
        PROVE  Precedes(OrderAt(list[i]), OrderAt(list[i + 1]))
    <3>1. i \in DOMAIN list /\ i + 1 \in DOMAIN list
      BY <2>2
    <3>2. list[i] \in DOMAIN os /\ list[i + 1] \in DOMAIN os
      BY <2>3, <3>1
    <3> DEFINE a == list[i]
               b == list[i + 1]
    <3>3. Precedes(os[a], os[b]) /\ a \in DOMAIN os /\ b \in DOMAIN os
      BY <2>2, <3>2
    <3> HIDE DEF a, b
    <3>4. Precedes(OrderAt(a), OrderAt(b))
      BY <1>2, <3>3 DEF Precedes
    <3> QED BY <3>4 DEF a, b
  <2> QED BY <2>1, <2>3, <2>4 DEF ValidSide
<1>9. ASSUME NEW i \in DOMAIN os
      PROVE  \E k \in DOMAIN obs : \E side \in {"buy", "sell"} : \E n \in DOMAIN SideOf(obs[k], side) :
                obs[k].market = os[i].market /\ side = os[i].side /\ SideOf(obs[k], side)[n] = i
  <2>1. PICK k \in DOMAIN obs : obs[k].market = os[i].market
    BY <1>4
  <2>2. os[i].side \in {"buy", "sell"} /\ i \in SideSet(obs[k].market, os[i].side)
    BY <1>2, <2>1 DEF SideSet, os
  <2>3. \E n \in DOMAIN SortedSide(obs[k].market, os[i].side) :
           SortedSide(obs[k].market, os[i].side)[n] = i
    BY <2>2, SideListed
  <2> QED BY <1>7, <2>1, <2>2, <2>3
<1>10. ASSUME NEW k \in DOMAIN obs PROVE obs[k].buys # <<>> \/ obs[k].sells # <<>>
  <2>1. PICK i \in DOMAIN os : os[i].market = obs[k].market
    BY <1>3 DEF UsedMarkets, os
  <2>2. PICK l \in DOMAIN obs : \E side \in {"buy", "sell"} : \E n \in DOMAIN SideOf(obs[l], side) :
           obs[l].market = os[i].market
    BY <1>9
  <2>3. l = k
    BY <1>5, <2>1, <2>2
  <2>4. PICK side \in {"buy", "sell"} : \E n \in DOMAIN SideOf(obs[k], side) : TRUE
    BY <2>2, <2>3
  <2>5. SideOf(obs[k], side) # <<>>
    BY <2>4
  <2> QED BY <2>5 DEF SideOf
<1>11. SeenOnce(obs)
  <2> SUFFICES ASSUME NEW p \in Places(obs), NEW q \in Places(obs), IndexAt(obs, p) = IndexAt(obs, q)
               PROVE  p = q
    BY DEF SeenOnce
  <2>1. /\ p[1] \in DOMAIN obs /\ p[2] \in {"buy", "sell"} /\ p = <<p[1], p[2], p[3]>>
        /\ p[3] \in DOMAIN SortedSide(obs[p[1]].market, p[2])
        /\ IndexAt(obs, p) = SortedSide(obs[p[1]].market, p[2])[p[3]]
        /\ os[IndexAt(obs, p)].market = obs[p[1]].market /\ os[IndexAt(obs, p)].side = p[2]
    BY PlaceListed DEF obs, os, SideSet
  <2>2. /\ q[1] \in DOMAIN obs /\ q[2] \in {"buy", "sell"} /\ q = <<q[1], q[2], q[3]>>
        /\ q[3] \in DOMAIN SortedSide(obs[q[1]].market, q[2])
        /\ IndexAt(obs, q) = SortedSide(obs[q[1]].market, q[2])[q[3]]
        /\ os[IndexAt(obs, q)].market = obs[q[1]].market /\ os[IndexAt(obs, q)].side = q[2]
    BY PlaceListed DEF obs, os, SideSet
  <2>3. p[1] = q[1] /\ p[2] = q[2]
    BY <1>5, <2>1, <2>2
  <2>4. p[3] = q[3]
    <3> DEFINE list == SortedSide(obs[p[1]].market, p[2])
    <3>1. \A i, j \in DOMAIN list : list[i] = list[j] => i = j
      BY SideListed
    <3>2. p[3] \in DOMAIN list /\ q[3] \in DOMAIN list /\ list[p[3]] = list[q[3]]
      BY <2>1, <2>2, <2>3
    <3> HIDE DEF list
    <3> QED BY <3>1, <3>2
  <2> QED BY <2>1, <2>2, <2>3, <2>4
<1>12. ASSUME NEW i \in DOMAIN os PROVE \E p \in Places(obs) : IndexAt(obs, p) = i
  <2>1. PICK k \in DOMAIN obs : \E side \in {"buy", "sell"} : \E n \in DOMAIN SideOf(obs[k], side) :
           SideOf(obs[k], side)[n] = i
    BY <1>9
  <2>2. PICK side \in {"buy", "sell"} : \E n \in DOMAIN SideOf(obs[k], side) : SideOf(obs[k], side)[n] = i
    BY <2>1
  <2>3. PICK n \in DOMAIN SideOf(obs[k], side) : SideOf(obs[k], side)[n] = i
    BY <2>2
  <2>4. <<k, side, n>> \in Places(obs)
    <3> DEFINE P(l, sd) == {<<l, sd, j>> : j \in DOMAIN SideOf(obs[l], sd)}
    <3>1. <<k, side, n>> \in P(k, side)
      OBVIOUS
    <3>2. P(k, side) \in {P(l, sd) : l \in DOMAIN obs, sd \in {"buy", "sell"}}
      <4> HIDE DEF P
      <4> QED OBVIOUS
    <3>3. Places(obs) = UNION {P(l, sd) : l \in DOMAIN obs, sd \in {"buy", "sell"}}
      BY DEF Places
    <3> HIDE DEF P
    <3> QED BY <3>1, <3>2, <3>3
  <2>5. IndexAt(obs, <<k, side, n>>) = i
    BY <2>3 DEF IndexAt
  <2> QED BY <2>4, <2>5
<1>13. \A k \in DOMAIN obs : obs[k].market \in DOMAIN Markets
  BY <1>1, <1>3 DEF UsedMarkets, os
<1> QED BY <1>1, <1>2, <1>6, <1>8, <1>10, <1>11, <1>12, <1>13 DEF ValidBooks

-----------------------------------------------------------------------------
(* Batches of build are well formed                                        *)

\* Of an orderly batch the guest turns down neither the lists, nor a deposit, nor an
\* operation; of any batch it accepts the books.
LEMMA OrderlyIsAccepted ==
    ASSUME HostInv, BuildInv, [HostNext]_operatorVars, stage' = "rejected", stage # "rejected"
    PROVE  /\ Orderly => stage \notin {"validate", "deposits", "operations"}
           /\ stage = "apply" => ValidBooks(input.orderBooks)
<1>1. CASE stage \in {"validate", "deposits", "operations"}
  <2>1. SettleNext
    BY <1>1 DEF HostNext, Proceed, Settle, Build, BuildFails, Apply, Abandon, NextBatch, Deposit,
           ForcedWithdraw, PlaceOrder, Withdraw, Put, operatorVars, settleVars, matchVars
  <2>2. InvalidInput \/ DepositsFail \/ InvalidOperations
    <3>1. ~Match
      BY <1>1 DEF Match, MatchNext, Fill, FillFails, NextBook, EndMatching
    <3>2. ~ForcedFail /\ ~ApplyFails /\ ~CannotConclude
      BY <1>1 DEF ForcedFail, ApplyFails, CannotConclude
    <3>3. /\ ~Validate /\ ~ApplyDeposits /\ ~ApplyForced /\ ~ValidateOperations
          /\ ~ApplyOperations /\ ~Conclude
      BY DEF Validate, ApplyDeposits, ApplyForced, ValidateOperations, ApplyOperations, Conclude
    <3> QED BY <2>1, <3>1, <3>2, <3>3 DEF SettleNext
  <2>3. Orderly => ~InvalidInput
    BY BuiltIsValid DEF InvalidInput
  <2>4. Orderly => ~DepositsFail
    BY BuiltDepositsFit DEF DepositsFail
  <2>5. Orderly => ~InvalidOperations
    BY BuiltWithdrawalsValid, BuiltOrdersValid, BuiltNoncesValid DEF InvalidOperations
  <2> QED BY <1>1, <2>2, <2>3, <2>4, <2>5
<1>2. CASE stage = "apply"
  <2>1. DraftOK /\ Collected /\ input = BatchInput
    BY <1>2 DEF HostInv, WithGuest, BuildInv
  <2> QED BY <1>2, <2>1, BuiltBooksValid
<1> QED BY <1>1, <1>2

\* A batch the builder lets through is well formed for the guest (batch_builder.rs:236-327),
\* as long as it is orderly: the entries of the queues follow on from the cursors, the indices
\* are those of the owners and the nonces the next ones.  Its books are well formed in any
\* case: every order once, under its market and side, the best first.
THEOREM HostBuildsWellFormed ==
    HostSpec =>
        /\ [][stage' = "rejected" =>
                 /\ Orderly => stage \notin {"validate", "deposits", "operations"}
                 /\ stage = "apply" => ValidBooks(input.orderBooks)]_operatorVars
        /\ []Orderly => BuiltIsWellFormed
<1> DEFINE Kept == stage' = "rejected" =>
                       /\ Orderly => stage \notin {"validate", "deposits", "operations"}
                       /\ stage = "apply" => ValidBooks(input.orderBooks)
           Wellformed == stage' = "rejected" =>
                       /\ stage \notin {"validate", "deposits", "operations"}
                       /\ stage = "apply" => ValidBooks(input.orderBooks)
<1>1. HostInv /\ BuildInv /\ [HostNext]_operatorVars => [Kept]_operatorVars
  BY OrderlyIsAccepted
<1>2. HostInv /\ BuildInv /\ Orderly /\ [HostNext]_operatorVars => [Wellformed]_operatorVars
  BY OrderlyIsAccepted
<1> QED BY <1>1, <1>2, HostHolds, HostCollects, PTL DEF HostSpec, BuiltIsWellFormed
=============================================================================
