--------------------------- MODULE ExchangeProofs ---------------------------
(***************************************************************************)
(* Proofs about the exchange as a whole, Exchange.tla: the host runs ahead  *)
(* of the contract, and the two never drift apart.                         *)
(*                                                                         *)
(* The host part of the invariant is HostInv of OperatorProofs.tla: every   *)
(* step of the exchange is a step of the host or leaves it alone.  The      *)
(* chain part says how the proofs in flight hang together: a place is a     *)
(* ledger and the two cursors that go with it, each batch starts at the     *)
(* place where the one before it ended, the first unsettled one where the   *)
(* contract is, and the last one ends where the host is.                   *)
(* Who owns what is counted by account, position by position of the lists   *)
(* of entries and payouts: every batch keeps everybody's, so the contract   *)
(* that settles them does.                                                 *)
(* Last, the exchange is shown to be the contract of ZkClobProofs.tla with  *)
(* the guest and the host behind its proofs, so that what is proved there   *)
(* is proved of the whole.                                                  *)
(***************************************************************************)
EXTENDS Exchange, OperatorProofs

-----------------------------------------------------------------------------
(* The invariant                                                           *)

\* The queues of the contract hold what users may put in them, and they only grow.
QueuesOK ==
    /\ now \in Nat
    /\ deposits \in Seq([account : Ids, asset : Assets, amount : DepositAmounts])
    /\ forcedWithdrawalRequests
         \in Seq([account : Ids, asset : Assets, amount : RequestAmounts, deadline : Nat])

\* The entries of a list are those of a queue behind a cursor.
TakenFrom(list, queue, cursor) ==
    /\ cursor + Len(list) =< Len(queue)
    /\ \A i \in DOMAIN list : /\ list[i].account = queue[cursor + i].account
                              /\ list[i].asset = queue[cursor + i].asset
                              /\ list[i].amount = queue[cursor + i].amount

\* What the builder has collected is next in the queues; nobody trades, and who withdraws
\* withdraws to themselves.
DraftTaken ==
    /\ TakenFrom(draft.deposits, deposits, cursors.deposits)
    /\ TakenFrom(draft.forced, forcedWithdrawalRequests, cursors.forced)
    /\ draft.orders = <<>>
    /\ \A i \in DOMAIN draft.withdrawals :
          draft.withdrawals[i].recipient = draft.withdrawals[i].account

\* A ledger and the cursors that go with it.
HostPlace == [root |-> Ledger(tree), dep |-> cursors.deposits, forced |-> cursors.forced]

ChainPlace ==
    [root |-> stateRoot, dep |-> nextUnprocessedDeposit, forced |-> nextUnprocessedForcedWithdrawal]

StartOf(p) ==
    [root |-> p.oldStateRoot, dep |-> p.oldDepositCursor, forced |-> p.oldForcedWithdrawalCursor]

EndOf(p) ==
    [root |-> p.newStateRoot, dep |-> p.newDepositCursor,
     forced |-> p.oldForcedWithdrawalCursor + Len(p.forcedWithdrawals)]

\* A proof is of a batch the host has made, from entries the queues hold.
ProofOK(p) ==
    /\ p.domain = "here" /\ p.batchId \in 0..(batchId - 1)
    /\ p.oldDepositCursor \in Nat /\ p.oldForcedWithdrawalCursor \in Nat
    /\ p.newDepositCursor = p.oldDepositCursor + Len(p.consumedDeposits)
    /\ p.newDepositCursor =< Len(deposits)
    /\ Len(p.consumedDeposits) \in Nat /\ Len(p.forcedWithdrawals) \in Nat
    /\ p.consumedDeposits = SubSeq(deposits, p.oldDepositCursor + 1, p.newDepositCursor)
    /\ Len(p.consumedForcedWithdrawals) = Len(p.forcedWithdrawals)
    /\ p.oldForcedWithdrawalCursor + Len(p.forcedWithdrawals) =< Len(forcedWithdrawalRequests)
    /\ p.consumedForcedWithdrawals
         = Chain!Hashed(SubSeq(forcedWithdrawalRequests, p.oldForcedWithdrawalCursor + 1,
                               p.oldForcedWithdrawalCursor + Len(p.forcedWithdrawals)))

\* The proofs form a chain of batches from the contract to the host.
ProofsLinked ==
    /\ batchId \in Nat /\ nextBatchId \in 0..batchId
    /\ \A i \in 0..(batchId - 1) : \E p \in proofs : p.batchId = i
    /\ \A p, q \in proofs : q.batchId = p.batchId + 1 => StartOf(q) = EndOf(p)
    /\ \A p \in proofs : p.batchId + 1 = batchId => EndOf(p) = HostPlace
    /\ \A p \in proofs : p.batchId = nextBatchId => StartOf(p) = ChainPlace
    /\ batchId = nextBatchId => ChainPlace = HostPlace

ExchangeInv ==
    /\ HostInv
    /\ QueuesOK /\ DraftTaken
    /\ \A p \in proofs : ProofOK(p)
    /\ ProofsLinked

-----------------------------------------------------------------------------
(* What the steps leave alone                                              *)

\* A step of the host alone.
LEMMA HostLeaves ==
    ASSUME HostOnly
    PROVE  /\ now' = now /\ stateRoot' = stateRoot /\ nextBatchId' = nextBatchId
           /\ deposits' = deposits /\ nextUnprocessedDeposit' = nextUnprocessedDeposit
           /\ forcedWithdrawalRequests' = forcedWithdrawalRequests
           /\ nextUnprocessedForcedWithdrawal' = nextUnprocessedForcedWithdrawal
           /\ proofs' = proofs /\ batchId' = batchId
BY DEF HostOnly, chainVars, notProofs, chainCursors

\* A step of the chain alone.
LEMMA ChainLeaves ==
    ASSUME ChainOnly
    PROVE  /\ UNCHANGED operatorVars /\ tree' = tree /\ draft' = draft /\ cursors' = cursors
           /\ batchId' = batchId
BY DEF ChainOnly, operatorVars, hostVars

\* A step of users, of time or of a payout does not touch the proofs nor the place of the
\* contract.
LEMMA OthersLeave ==
    ASSUME UsersAndTime \/ Paying \/ NotPaying
    PROVE  /\ stateRoot' = stateRoot /\ nextBatchId' = nextBatchId
           /\ nextUnprocessedDeposit' = nextUnprocessedDeposit
           /\ nextUnprocessedForcedWithdrawal' = nextUnprocessedForcedWithdrawal
           /\ proofs' = proofs /\ ChainOnly
<1>1. CASE UsersAndTime
  BY <1>1 DEF UsersAndTime, Chain!UserStep, Chain!Tick, Chain!Deposit, Chain!RequestForcedWithdrawal,
              Chain!ActivateEscapeMode, Chain!EscapeWithdraw, Chain!WithdrawPending, Chain!cursors
<1>2. CASE Paying
  BY <1>2 DEF Paying, Chain!PaySucceed, Chain!cursors
<1>3. CASE NotPaying
  BY <1>3 DEF NotPaying, Chain!PaySkip, Chain!PayFail, Chain!cursors
<1> QED BY <1>1, <1>2, <1>3

-----------------------------------------------------------------------------
(* The queues                                                              *)

\* A queue with nothing taken away or put in another place.
Longer(new, old) == Len(old) =< Len(new) /\ \A i \in 1..Len(old) : new[i] = old[i]

\* An entry more makes a queue longer.
LEMMA AppendIsLonger ==
    ASSUME NEW S, NEW s \in Seq(S), NEW e \in S
    PROVE  Append(s, e) \in Seq(S) /\ Longer(Append(s, e), s)
BY DEF Longer

\* What is taken of a queue stays what it was when the queue grows.
LEMMA TakenStays ==
    ASSUME NEW S, NEW old \in Seq(S), NEW new \in Seq(S), Longer(new, old),
           NEW T, NEW list \in Seq(T), NEW c \in Nat, TakenFrom(list, old, c)
    PROVE  TakenFrom(list, new, c)
<1>1. Len(old) \in Nat /\ Len(new) \in Nat /\ Len(list) \in Nat /\ DOMAIN list = 1..Len(list)
  OBVIOUS
<1>2. \A i \in DOMAIN list : c + i \in 1..Len(old)
  BY <1>1 DEF TakenFrom
<1> QED BY <1>1, <1>2 DEF TakenFrom, Longer

\* So does a stretch of it.
LEMMA SliceStays ==
    ASSUME NEW S, NEW old \in Seq(S), NEW new \in Seq(S), Longer(new, old),
           NEW a \in Nat, NEW b \in Nat, b =< Len(old)
    PROVE  SubSeq(new, a + 1, b) = SubSeq(old, a + 1, b)
<1>1. Len(old) \in Nat /\ Len(new) \in Nat
  OBVIOUS
<1>2. \A i \in (a + 1)..b : new[i] = old[i]
  BY <1>1 DEF Longer
<1>3. CASE a + 1 =< b
  <2> DEFINE n == (b - (a + 1)) + 1
             u == SubSeq(new, a + 1, b)
             v == SubSeq(old, a + 1, b)
  <2>1. b =< Len(new) /\ a + 1 \in 1..Len(old) /\ a + 1 \in 1..Len(new)
    BY <1>1, <1>3 DEF Longer
  <2>2. u \in Seq(S) /\ v \in Seq(S)
    BY <2>1
  <2>3. Len(u) = n /\ Len(v) = n
    BY <1>3, <2>1
  <2>4. \A i \in 1..n : u[i] = new[(a + 1) + (i - 1)] /\ v[i] = old[(a + 1) + (i - 1)]
    BY <1>3, <2>1
  <2>5. \A i \in 1..n : (a + 1) + (i - 1) \in (a + 1)..b
    OBVIOUS
  <2>6. \A i \in 1..n : u[i] = v[i]
    BY <1>2, <2>4, <2>5
  <2> HIDE DEF u, v
  <2> QED BY <2>2, <2>3, <2>6, SeqEqual DEF u, v
<1>4. CASE ~(a + 1 =< b)
  BY <1>4
<1> QED BY <1>3, <1>4

\* Nothing but users and their calls touches the queues, and they only add to them.
LEMMA QueuesGrow ==
    ASSUME QueuesOK, ExchangeNext
    PROVE  /\ QueuesOK'
           /\ Longer(deposits', deposits)
           /\ Longer(forcedWithdrawalRequests', forcedWithdrawalRequests)
<1> DEFINE D == [account : Ids, asset : Assets, amount : DepositAmounts]
           R == [account : Ids, asset : Assets, amount : RequestAmounts, deadline : Nat]
<1>1. /\ now \in Nat /\ deposits \in Seq(D) /\ forcedWithdrawalRequests \in Seq(R)
      /\ Longer(deposits, deposits) /\ Longer(forcedWithdrawalRequests, forcedWithdrawalRequests)
  BY DEF QueuesOK, Longer
<1>2. ASSUME deposits' = deposits, forcedWithdrawalRequests' = forcedWithdrawalRequests,
             now' = now \/ now' = now + 1
      PROVE  /\ QueuesOK' /\ Longer(deposits', deposits)
             /\ Longer(forcedWithdrawalRequests', forcedWithdrawalRequests)
  <2>1. now' \in Nat
    BY <1>1, <1>2
  <2> QED BY <1>1, <1>2, <2>1 DEF QueuesOK
<1>3. CASE CollectDeposit \/ CollectRequest \/ Sign \/ Work \/ SubmitProof \/ Paying \/ NotPaying
  <2>1. deposits' = deposits /\ forcedWithdrawalRequests' = forcedWithdrawalRequests /\ now' = now
    <3>1. CASE CollectDeposit \/ CollectRequest \/ Sign
      BY <3>1, HostLeaves DEF CollectDeposit, CollectRequest, Sign, CollectWithdrawal
    <3>2. CASE Work
      BY <3>2, HostLeaves DEF Work, RunBatch, ApplyAndProve, notProofs
    <3>3. CASE SubmitProof
      BY <3>3 DEF SubmitProof, Chain!SettleStep, Chain!Settle
    <3>4. CASE Paying \/ NotPaying
      BY <3>4 DEF Paying, NotPaying, Chain!PaySkip, Chain!PaySucceed, Chain!PayFail
    <3> QED BY <1>3, <3>1, <3>2, <3>3, <3>4
  <2> QED BY <1>2, <2>1
<1>4. CASE UsersAndTime
  <2>1. ASSUME NEW a \in Ids, NEW x \in Assets, NEW n \in DepositAmounts, NEW r,
               Chain!Deposit(a, x, n, r)
        PROVE  /\ QueuesOK' /\ Longer(deposits', deposits)
               /\ Longer(forcedWithdrawalRequests', forcedWithdrawalRequests)
    <3> DEFINE e == [account |-> a, asset |-> x, amount |-> n]
    <3>1. /\ deposits' = Append(deposits, e) /\ now' = now
          /\ forcedWithdrawalRequests' = forcedWithdrawalRequests
      BY <2>1 DEF Chain!Deposit
    <3>2. e \in D
      OBVIOUS
    <3> HIDE DEF e, D, R
    <3>3. Append(deposits, e) \in Seq(D) /\ Longer(Append(deposits, e), deposits)
      BY <1>1, <3>2, AppendIsLonger
    <3> QED BY <1>1, <3>1, <3>3 DEF QueuesOK, D, R
  <2>2. ASSUME NEW a \in Ids, NEW x \in Assets, NEW n \in RequestAmounts,
               Chain!RequestForcedWithdrawal(a, x, n)
        PROVE  /\ QueuesOK' /\ Longer(deposits', deposits)
               /\ Longer(forcedWithdrawalRequests', forcedWithdrawalRequests)
    <3> DEFINE e == [account |-> a, asset |-> x, amount |-> n, deadline |-> now + Delay]
    <3>1. /\ forcedWithdrawalRequests' = Append(forcedWithdrawalRequests, e) /\ now' = now
          /\ deposits' = deposits
      BY <2>2 DEF Chain!RequestForcedWithdrawal
    <3>2. e \in R
      BY <1>1, WholeAssumption
    <3> HIDE DEF e, D, R
    <3>3. /\ Append(forcedWithdrawalRequests, e) \in Seq(R)
          /\ Longer(Append(forcedWithdrawalRequests, e), forcedWithdrawalRequests)
      BY <1>1, <3>2, AppendIsLonger
    <3> QED BY <1>1, <3>1, <3>3 DEF QueuesOK, D, R
  <2>3. CASE Chain!ActivateEscapeMode \/ Chain!Tick \/ (\E a, r : Chain!EscapeWithdraw(a, r))
             \/ (\E a, x : Chain!WithdrawPending(a, x))
    <3>1. /\ deposits' = deposits /\ forcedWithdrawalRequests' = forcedWithdrawalRequests
          /\ now' = now \/ now' = now + 1
      BY <2>3 DEF Chain!ActivateEscapeMode, Chain!Tick, Chain!EscapeWithdraw, Chain!WithdrawPending
    <3> QED BY <1>2, <3>1
  <2>4. \/ \E a \in Ids, x \in Assets, n \in DepositAmounts : \E r \in 1..n : Chain!Deposit(a, x, n, r)
        \/ \E a \in Ids, x \in Assets, n \in RequestAmounts : Chain!RequestForcedWithdrawal(a, x, n)
        \/ Chain!ActivateEscapeMode \/ Chain!Tick
        \/ (\E a, r : Chain!EscapeWithdraw(a, r)) \/ (\E a, x : Chain!WithdrawPending(a, x))
    BY <1>4 DEF UsersAndTime, Chain!UserStep
  <2> QED BY <2>1, <2>2, <2>3, <2>4
<1> QED BY <1>3, <1>4 DEF ExchangeNext

-----------------------------------------------------------------------------
(* The host's part                                                         *)

\* A queue entry with its number is what the builder of OperatorProofs may be given.
LEMMA NumberedIsItem ==
    ASSUME NEW A, A \subseteq 1..MaxAmount, NEW id \in Nat, NEW e,
           e.account \in Ids, e.asset \in Assets, e.amount \in A
    PROVE  Numbered(id, e) \in QueueItem
<1>1. e.amount \in 0..MaxAmount
  BY ExchangeAssumption
<1> QED BY <1>1 DEF Numbered, QueueItem

\* The next entry of a queue that holds more is an entry.
LEMMA NextEntry ==
    ASSUME NEW S, NEW queue \in Seq(S), NEW n \in Nat, n < Len(queue)
    PROVE  queue[n + 1] \in S
<1>1. n + 1 \in 1..Len(queue)
  OBVIOUS
<1> QED BY <1>1

\* The place of the next entry of each queue is a number.
LEMMA NextNumber ==
    ASSUME HostInv
    PROVE  /\ cursors.deposits \in Nat /\ cursors.forced \in Nat
           /\ Len(draft.deposits) \in Nat /\ Len(draft.forced) \in Nat
BY SettlementAssumption DEF HostInv, CursorsOK, DraftOK

\* What the host takes from a queue is what the builder of OperatorProofs may be given.
LEMMA CollectedIsItem ==
    ASSUME HostInv, QueuesOK
    PROVE  /\ LET next == cursors.deposits + Len(draft.deposits)
              IN  next < Len(deposits) => Numbered(next, deposits[next + 1]) \in QueueItem
           /\ LET next == cursors.forced + Len(draft.forced)
              IN  next < Len(forcedWithdrawalRequests)
                    => Numbered(next, forcedWithdrawalRequests[next + 1]) \in QueueItem
<1>1. ASSUME NEW next \in Nat, next < Len(deposits)
      PROVE  Numbered(next, deposits[next + 1]) \in QueueItem
  <2> DEFINE e == deposits[next + 1]
  <2>1. e \in [account : Ids, asset : Assets, amount : DepositAmounts]
    BY <1>1, NextEntry DEF QueuesOK
  <2> HIDE DEF e
  <2>2. Numbered(next, e) \in QueueItem
    BY <2>1, NumberedIsItem, WholeAssumption
  <2> QED BY <2>2 DEF e
<1>2. ASSUME NEW next \in Nat, next < Len(forcedWithdrawalRequests)
      PROVE  Numbered(next, forcedWithdrawalRequests[next + 1]) \in QueueItem
  <2> DEFINE e == forcedWithdrawalRequests[next + 1]
  <2>1. e \in [account : Ids, asset : Assets, amount : RequestAmounts, deadline : Nat]
    BY <1>2, NextEntry DEF QueuesOK
  <2> HIDE DEF e
  <2>2. Numbered(next, e) \in QueueItem
    BY <2>1, NumberedIsItem, WholeAssumption
  <2> QED BY <2>2 DEF e
<1>3. /\ cursors.deposits + Len(draft.deposits) \in Nat
      /\ cursors.forced + Len(draft.forced) \in Nat
  BY NextNumber
<1> QED BY <1>1, <1>2, <1>3

\* Every step of the exchange is a step of the host or leaves it alone.
LEMMA HostSteps ==
    ASSUME HostInv, QueuesOK, [ExchangeNext]_exchangeVars
    PROVE  [HostNext]_operatorVars
<1>1. CASE CollectDeposit
  BY <1>1, CollectedIsItem DEF CollectDeposit, HostNext
<1>2. CASE CollectRequest
  BY <1>2, CollectedIsItem DEF CollectRequest, HostNext
<1>3. CASE Sign
  <2>1. PICK a \in Ids, x \in Assets, n \in WithdrawAmounts : CollectWithdrawal(a, x, n)
    BY <1>3 DEF Sign
  <2> DEFINE nonce == NextNonce(a) + Cardinality(NoncesOf(a))
             w == [account |-> a, recipient |-> a, asset |-> x, amount |-> n,
                   nonce |-> nonce, signed |-> TRUE]
  <2>2. nonce \in 0..Limits.u64 /\ Withdraw(w)
    BY <2>1 DEF CollectWithdrawal
  <2>3. n \in 0..MaxAmount
    BY WholeAssumption, ExchangeAssumption
  <2> HIDE DEF nonce
  <2>4. w \in SignedWithdrawal
    BY <2>2, <2>3 DEF SignedWithdrawal
  <2> QED BY <2>2, <2>4 DEF HostNext
<1>4. CASE Work
  BY <1>4 DEF Work, RunBatch, ApplyAndProve, HostNext, Proceed
<1>5. CASE UsersAndTime \/ SubmitProof \/ Paying \/ NotPaying
  BY <1>5 DEF UsersAndTime, SubmitProof, Paying, NotPaying, ChainOnly
<1>6. CASE UNCHANGED exchangeVars
  BY <1>6 DEF exchangeVars
<1> QED BY <1>1, <1>2, <1>3, <1>4, <1>5, <1>6 DEF ExchangeNext

\* A list with the queue's next entry at its end holds what is next in the queue.
LEMMA TakesNext ==
    ASSUME NEW S, NEW list \in Seq(S), NEW queue, Len(queue) \in Nat, NEW c \in Nat,
           TakenFrom(list, queue, c), c + Len(list) < Len(queue),
           NEW e \in S, e = Numbered(c + Len(list), queue[c + Len(list) + 1])
    PROVE  TakenFrom(Append(list, e), queue, c)
<1> DEFINE longer == Append(list, e)
           n == Len(list) + 1
<1>1. /\ longer \in Seq(S) /\ DOMAIN longer = DOMAIN list \cup {n} /\ n \notin DOMAIN list
      /\ longer[n] = e /\ \A i \in DOMAIN list : longer[i] = list[i]
  BY OneEntryMore
<1>2. Len(longer) = Len(list) + 1 /\ Len(list) \in Nat
  OBVIOUS
<1>3. c + Len(longer) =< Len(queue)
  BY <1>2
<1>4. c + n = c + Len(list) + 1
  BY <1>2
<1>5. e.account = queue[c + n].account /\ e.asset = queue[c + n].asset /\ e.amount = queue[c + n].amount
  BY <1>4 DEF Numbered
<1> HIDE DEF longer, n
<1>6. ASSUME NEW i \in DOMAIN longer
      PROVE  /\ longer[i].account = queue[c + i].account /\ longer[i].asset = queue[c + i].asset
             /\ longer[i].amount = queue[c + i].amount
  <2>1. CASE i \in DOMAIN list
    BY <1>1, <2>1 DEF TakenFrom
  <2>2. CASE i = n
    BY <1>1, <1>5, <2>2
  <2> QED BY <1>1, <2>1, <2>2
<1>7. TakenFrom(longer, queue, c)
  BY <1>3, <1>6 DEF TakenFrom
<1> QED BY <1>7 DEF longer

\* A new builder has taken nothing yet.
LEMMA NewTakesNothing ==
    ASSUME draft' = NewBuilder, cursors'.deposits \in Nat, cursors'.forced \in Nat,
           cursors'.deposits =< Len(deposits'), cursors'.forced =< Len(forcedWithdrawalRequests')
    PROVE  DraftTaken'
<1>1. /\ draft'.deposits = <<>> /\ draft'.forced = <<>> /\ draft'.orders = <<>>
      /\ draft'.withdrawals = <<>>
  BY DEF NewBuilder
<1>2. DOMAIN <<>> = {} /\ Len(<<>>) = 0
  OBVIOUS
<1>3. /\ cursors'.deposits + Len(draft'.deposits) =< Len(deposits')
      /\ cursors'.forced + Len(draft'.forced) =< Len(forcedWithdrawalRequests')
  BY <1>1, <1>2
<1> QED BY <1>1, <1>2, <1>3 DEF DraftTaken, TakenFrom

-----------------------------------------------------------------------------
(* What the host has collected                                             *)

\* The batch the guest has accepted is the one the builder has collected.
LEMMA BatchOfDraft ==
    ASSUME HostInv, stage = "settled"
    PROVE  /\ Accepted /\ BatchIn(input)
           /\ input.deposits = IndexedInputs(draft.deposits)
           /\ input.forced = IndexedInputs(draft.forced)
           /\ input.orders = IndexedOrders /\ input.withdrawals = IndexedWithdrawals
           /\ output.oldRoot = tree /\ output.newRoot = Applied(tree, output.accounts)
           /\ output.oldDepositCursor = cursors.deposits
           /\ output.newDepositCursor = cursors.deposits + Len(draft.deposits)
           /\ output.oldForcedCursor = cursors.forced
           /\ Len(output.forced) = Len(draft.forced) /\ output.forced = drained
           /\ output.withdrawals = input.withdrawals
<1>1. /\ Accepted /\ WithGuest /\ output.oldRoot = tree /\ output.forced = drained
      /\ output.withdrawals = input.withdrawals
  BY OutputIsOfTheTree
<1>2. output.newRoot = Applied(tree, output.accounts)
  BY AppliedIsNewRoot
<1>3. /\ input.deposits = IndexedInputs(draft.deposits) /\ input.forced = IndexedInputs(draft.forced)
      /\ input.orders = IndexedOrders /\ input.withdrawals = IndexedWithdrawals
      /\ input.depositCursor = cursors.deposits /\ input.forcedCursor = cursors.forced
  BY <1>1 DEF WithGuest, BatchInput
<1>4. /\ output.oldDepositCursor = input.depositCursor /\ output.oldForcedCursor = input.forcedCursor
      /\ output.newDepositCursor = input.depositCursor + Len(input.deposits)
  BY <1>1 DEF Accepted, Outputs
<1>5. BatchIn(input) /\ Len(drained) = Len(input.forced)
  BY <1>1 DEF Accepted, DrainedInTurn
<1>6. ASSUME NEW list \in Seq(QueueItem) PROVE Len(IndexedInputs(list)) = Len(list)
  BY <1>6 DEF IndexedInputs
<1>7. Len(input.deposits) = Len(draft.deposits) /\ Len(input.forced) = Len(draft.forced)
  BY <1>3, <1>6 DEF HostInv, DraftOK
<1> QED BY <1>1, <1>2, <1>3, <1>4, <1>5, <1>7

\* The host moves on by what it has collected.
LEMMA CursorsMove ==
    ASSUME HostInv, Apply
    PROVE  /\ cursors' = [deposits |-> cursors.deposits + Len(draft.deposits),
                          forced |-> cursors.forced + Len(draft.forced)]
           /\ draft' = NewBuilder /\ stage = "settled" /\ tree' = output.newRoot
BY BatchOfDraft DEF Apply, NextBatch

\* Collecting keeps what has been collected next in the queues.
LEMMA CollectTakes ==
    ASSUME HostInv, QueuesOK, DraftTaken, CollectDeposit \/ CollectRequest \/ Sign
    PROVE  DraftTaken'
<1>1. /\ TakenFrom(draft.deposits, deposits, cursors.deposits)
      /\ TakenFrom(draft.forced, forcedWithdrawalRequests, cursors.forced)
      /\ draft.orders = <<>>
      /\ \A i \in DOMAIN draft.withdrawals :
            draft.withdrawals[i].recipient = draft.withdrawals[i].account
  BY DEF DraftTaken
<1>2. /\ draft.deposits \in Seq(QueueItem) /\ draft.forced \in Seq(QueueItem)
      /\ draft.withdrawals \in Seq(SignedWithdrawal)
      /\ draft = [deposits |-> draft.deposits, forced |-> draft.forced, orders |-> draft.orders,
                  withdrawals |-> draft.withdrawals, touched |-> draft.touched]
  BY DEF HostInv, DraftOK
<1>3. /\ cursors.deposits \in Nat /\ cursors.forced \in Nat
      /\ Len(draft.deposits) \in Nat /\ Len(draft.forced) \in Nat
  BY NextNumber
<1>4. Len(deposits) \in Nat /\ Len(forcedWithdrawalRequests) \in Nat
  BY DEF QueuesOK
<1>5. CASE CollectDeposit
  <2> DEFINE next == cursors.deposits + Len(draft.deposits)
             e == Numbered(next, deposits[next + 1])
  <2>1. /\ next < Len(deposits) /\ Put("deposits", e, e.account)
        /\ deposits' = deposits /\ forcedWithdrawalRequests' = forcedWithdrawalRequests
    BY <1>5, HostLeaves DEF CollectDeposit, Deposit
  <2>3. e \in QueueItem
    BY <2>1, CollectedIsItem
  <2>4. cursors' = cursors /\ draft' = [draft EXCEPT !["deposits"] = Append(@, e), !.touched = @ \cup {e.account}]
    BY <2>1 DEF Put
  <2>5. TakenFrom(Append(draft.deposits, e), deposits, cursors.deposits)
    BY <1>1, <1>2, <1>3, <1>4, <2>1, <2>3, TakesNext
  <2> HIDE DEF e
  <2>6. /\ draft'.deposits = Append(draft.deposits, e) /\ draft'.forced = draft.forced
        /\ draft'.orders = draft.orders /\ draft'.withdrawals = draft.withdrawals
    BY <1>2, <2>4
  <2> QED BY <1>1, <2>1, <2>4, <2>5, <2>6 DEF DraftTaken
<1>6. CASE CollectRequest
  <2> DEFINE next == cursors.forced + Len(draft.forced)
             e == Numbered(next, forcedWithdrawalRequests[next + 1])
  <2>1. /\ next < Len(forcedWithdrawalRequests) /\ Put("forced", e, e.account)
        /\ deposits' = deposits /\ forcedWithdrawalRequests' = forcedWithdrawalRequests
    BY <1>6, HostLeaves DEF CollectRequest, ForcedWithdraw
  <2>3. e \in QueueItem
    BY <2>1, CollectedIsItem
  <2>4. cursors' = cursors /\ draft' = [draft EXCEPT !["forced"] = Append(@, e), !.touched = @ \cup {e.account}]
    BY <2>1 DEF Put
  <2>5. TakenFrom(Append(draft.forced, e), forcedWithdrawalRequests, cursors.forced)
    BY <1>1, <1>2, <1>3, <1>4, <2>1, <2>3, TakesNext
  <2> HIDE DEF e
  <2>6. /\ draft'.deposits = draft.deposits /\ draft'.forced = Append(draft.forced, e)
        /\ draft'.orders = draft.orders /\ draft'.withdrawals = draft.withdrawals
    BY <1>2, <2>4
  <2> QED BY <1>1, <2>1, <2>4, <2>5, <2>6 DEF DraftTaken
<1>7. CASE Sign
  <2>1. PICK a \in Ids, x \in Assets, n \in WithdrawAmounts : CollectWithdrawal(a, x, n)
    BY <1>7 DEF Sign
  <2> DEFINE w == [account |-> a, recipient |-> a, asset |-> x, amount |-> n,
                   nonce |-> NextNonce(a) + Cardinality(NoncesOf(a)), signed |-> TRUE]
  <2>2. /\ Put("withdrawals", w, a)
        /\ deposits' = deposits /\ forcedWithdrawalRequests' = forcedWithdrawalRequests
    BY <2>1, HostLeaves DEF CollectWithdrawal, Withdraw
  <2>3. cursors' = cursors /\ draft' = [draft EXCEPT !["withdrawals"] = Append(@, w), !.touched = @ \cup {a}]
    BY <2>2 DEF Put
  <2>4. w.recipient = w.account
    OBVIOUS
  <2> HIDE DEF w
  <2>5. /\ draft'.deposits = draft.deposits /\ draft'.forced = draft.forced
        /\ draft'.orders = draft.orders /\ draft'.withdrawals = Append(draft.withdrawals, w)
    BY <1>2, <2>3
  <2>6. \A i \in DOMAIN draft'.withdrawals :
            draft'.withdrawals[i].recipient = draft'.withdrawals[i].account
    <3>1. draft.withdrawals \in Seq(SignedWithdrawal \cup {w}) /\ w \in SignedWithdrawal \cup {w}
      BY <1>2
    <3> QED BY <1>1, <2>4, <2>5, <3>1, OneEntryMore
  <2> QED BY <1>1, <2>2, <2>3, <2>5, <2>6 DEF DraftTaken
<1> QED BY <1>5, <1>6, <1>7

\* Working on a batch consumes what was collected, or nothing.
LEMMA WorkTakes ==
    ASSUME HostInv, QueuesOK, DraftTaken, Work
    PROVE  DraftTaken'
<1>1. /\ deposits' = deposits /\ forcedWithdrawalRequests' = forcedWithdrawalRequests
  BY HostLeaves DEF Work, RunBatch, ApplyAndProve, notProofs
<1>2. /\ cursors.deposits \in Nat /\ cursors.forced \in Nat
      /\ Len(draft.deposits) \in Nat /\ Len(draft.forced) \in Nat
      /\ Len(deposits) \in Nat /\ Len(forcedWithdrawalRequests) \in Nat
      /\ cursors.deposits + Len(draft.deposits) =< Len(deposits)
      /\ cursors.forced + Len(draft.forced) =< Len(forcedWithdrawalRequests)
  BY NextNumber DEF QueuesOK, DraftTaken, TakenFrom
<1>3. CASE Build \/ Settle
  <2>1. draft' = draft /\ cursors' = cursors
    BY <1>3 DEF Build, Settle, hostVars
  <2> QED BY <1>1, <2>1 DEF DraftTaken
<1>4. CASE BuildFails \/ Abandon
  <2>1. draft' = NewBuilder /\ cursors' = cursors
    BY <1>4 DEF BuildFails, Abandon, NextBatch
  <2>2. cursors.deposits =< Len(deposits) /\ cursors.forced =< Len(forcedWithdrawalRequests)
    BY <1>2
  <2> QED BY <1>1, <1>2, <2>1, <2>2, NewTakesNothing
<1>5. CASE Apply
  <2>1. /\ draft' = NewBuilder
        /\ cursors'.deposits = cursors.deposits + Len(draft.deposits)
        /\ cursors'.forced = cursors.forced + Len(draft.forced)
    BY <1>5, CursorsMove
  <2>2. /\ cursors'.deposits \in Nat /\ cursors'.deposits =< Len(deposits)
        /\ cursors'.forced \in Nat /\ cursors'.forced =< Len(forcedWithdrawalRequests)
    BY <1>2, <2>1
  <2> QED BY <1>1, <2>1, <2>2, NewTakesNothing
<1> QED BY <1>3, <1>4, <1>5 DEF Work, RunBatch, ApplyAndProve

\* What is collected stays next in the queues.
LEMMA DraftStaysTaken ==
    ASSUME HostInv, QueuesOK, DraftTaken, [ExchangeNext]_exchangeVars
    PROVE  DraftTaken'
<1>1. CASE CollectDeposit \/ CollectRequest \/ Sign
  BY <1>1, CollectTakes
<1>2. CASE Work
  BY <1>2, WorkTakes
<1>3. CASE ExchangeNext /\ (UsersAndTime \/ SubmitProof \/ Paying \/ NotPaying)
  <2>1. draft' = draft /\ cursors' = cursors
    BY <1>3, ChainLeaves DEF UsersAndTime, SubmitProof, Paying, NotPaying
  <2>2. /\ QueuesOK' /\ Longer(deposits', deposits)
        /\ Longer(forcedWithdrawalRequests', forcedWithdrawalRequests)
    BY <1>3, QueuesGrow
  <2>3. /\ draft.deposits \in Seq(QueueItem) /\ draft.forced \in Seq(QueueItem)
        /\ cursors.deposits \in Nat /\ cursors.forced \in Nat
    BY NextNumber DEF HostInv, DraftOK
  <2>4. TakenFrom(draft.deposits, deposits', cursors.deposits)
    BY <2>2, <2>3, TakenStays DEF QueuesOK, DraftTaken
  <2>5. TakenFrom(draft.forced, forcedWithdrawalRequests', cursors.forced)
    BY <2>2, <2>3, TakenStays DEF QueuesOK, DraftTaken
  <2> QED BY <2>1, <2>4, <2>5 DEF DraftTaken
<1>4. CASE UNCHANGED exchangeVars
  <2>1. /\ draft' = draft /\ cursors' = cursors /\ deposits' = deposits
        /\ forcedWithdrawalRequests' = forcedWithdrawalRequests
    BY <1>4 DEF exchangeVars, operatorVars, hostVars, chainVars, notProofs
  <2> QED BY <2>1 DEF DraftTaken
<1> QED BY <1>1, <1>2, <1>3, <1>4 DEF ExchangeNext

-----------------------------------------------------------------------------
(* The proofs                                                              *)

\* The entries of a batch, as the contract sees them.
LEMMA EntriesType ==
    ASSUME NEW S, NEW list \in Seq(S)
    PROVE  /\ Len(Entries(IndexedInputs(list))) = Len(list)
           /\ DOMAIN Entries(IndexedInputs(list)) = 1..Len(list)
           /\ \A i \in 1..Len(list) :
                 Entries(IndexedInputs(list))[i]
                   = [account |-> list[i].account, asset |-> list[i].asset, amount |-> list[i].amount]
           /\ \A T : (\A i \in 1..Len(list) :
                          [account |-> list[i].account, asset |-> list[i].asset, amount |-> list[i].amount] \in T)
                        => Entries(IndexedInputs(list)) \in Seq(T)
<1>1. DOMAIN list = 1..Len(list) /\ Len(list) \in Nat
  OBVIOUS
<1>2. Entries(IndexedInputs(list))
        = [i \in 1..Len(list) |->
             [account |-> list[i].account, asset |-> list[i].asset, amount |-> list[i].amount]]
  BY <1>1 DEF Entries, IndexedInputs
<1> HIDE DEF Entries, IndexedInputs
<1> QED BY <1>1, <1>2

\* A stretch of a queue holds the queue's own entries, at their places.
LEMMA StretchOf ==
    ASSUME NEW S, NEW queue \in Seq(S), NEW c \in Nat, NEW n \in Nat, c + n =< Len(queue)
    PROVE  /\ SubSeq(queue, c + 1, c + n) \in Seq(S)
           /\ Len(SubSeq(queue, c + 1, c + n)) = n
           /\ \A i \in 1..n : queue[c + i] \in S /\ SubSeq(queue, c + 1, c + n)[i] = queue[c + i]
<1> DEFINE u == SubSeq(queue, c + 1, c + n)
<1>1. Len(queue) \in Nat /\ \A i \in 1..n : c + i \in 1..Len(queue)
  OBVIOUS
<1>2. \A i \in 1..n : queue[c + i] \in S
  BY <1>1
<1>3. \A i \in (c + 1)..(c + n) : queue[i] \in S
  BY <1>1
<1>4. u \in Seq(S)
  BY <1>3
<1>5. Len(u) = n
  OBVIOUS
<1>6. \A i \in 1..n : u[i] = queue[(c + 1) + (i - 1)] /\ (c + 1) + (i - 1) = c + i
  OBVIOUS
<1> QED BY <1>2, <1>4, <1>5, <1>6

\* What a batch takes from the deposit queue is a stretch of it.
LEMMA EntriesAreSlice ==
    ASSUME NEW A, NEW queue \in Seq([account : Ids, asset : Assets, amount : A]),
           NEW S, NEW list \in Seq(S), NEW c \in Nat, TakenFrom(list, queue, c)
    PROVE  Entries(IndexedInputs(list)) = SubSeq(queue, c + 1, c + Len(list))
<1> DEFINE Q == [account : Ids, asset : Assets, amount : A]
           n == Len(list)
           u == Entries(IndexedInputs(list))
           v == SubSeq(queue, c + 1, c + n)
<1>1. n \in Nat /\ c + n =< Len(queue) /\ Len(queue) \in Nat /\ DOMAIN list = 1..n
  BY DEF TakenFrom
<1>2. /\ Len(u) = n
      /\ \A i \in 1..n : u[i] = [account |-> list[i].account, asset |-> list[i].asset,
                                 amount |-> list[i].amount]
      /\ \A T : (\A i \in 1..n : [account |-> list[i].account, asset |-> list[i].asset,
                                  amount |-> list[i].amount] \in T) => u \in Seq(T)
  BY EntriesType
<1>3. v \in Seq(Q) /\ Len(v) = n /\ \A i \in 1..n : queue[c + i] \in Q /\ v[i] = queue[c + i]
  <2> HIDE DEF Q, n
  <2>1. queue \in Seq(Q)
    BY DEF Q
  <2> QED BY <1>1, <2>1, StretchOf
<1>4. ASSUME NEW i \in 1..n
      PROVE  [account |-> list[i].account, asset |-> list[i].asset, amount |-> list[i].amount]
               = queue[c + i]
  <2>1. queue[c + i] \in Q
    BY <1>3
  <2>2. /\ list[i].account = queue[c + i].account /\ list[i].asset = queue[c + i].asset
        /\ list[i].amount = queue[c + i].amount
    BY <1>1 DEF TakenFrom
  <2> QED BY <2>1, <2>2
<1> HIDE DEF u, v, n, Q
<1>5. \A i \in 1..n : u[i] = v[i] /\ u[i] = queue[c + i]
  BY <1>2, <1>3, <1>4
<1>6. \A i \in 1..n : queue[c + i] \in Q
  BY <1>3
<1>7. u \in Seq(Q)
  BY <1>2, <1>4, <1>6
<1>8. u = v
  BY <1>2, <1>3, <1>5, <1>7, SeqEqual
<1> QED BY <1>8 DEF u, v, n

\* What a batch takes from the requests is a stretch of them, the deadlines left out.
LEMMA EntriesAreHashed ==
    ASSUME NEW A,
           NEW queue \in Seq([account : Ids, asset : Assets, amount : A, deadline : Nat]),
           NEW S, NEW list \in Seq(S), NEW c \in Nat, TakenFrom(list, queue, c)
    PROVE  Entries(IndexedInputs(list)) = Chain!Hashed(SubSeq(queue, c + 1, c + Len(list)))
<1> DEFINE Q == [account : Ids, asset : Assets, amount : A, deadline : Nat]
           H == [account : Ids, asset : Assets, amount : A]
           n == Len(list)
           u == Entries(IndexedInputs(list))
           w == SubSeq(queue, c + 1, c + n)
           v == Chain!Hashed(w)
<1>1. n \in Nat /\ c + n =< Len(queue) /\ Len(queue) \in Nat /\ DOMAIN list = 1..n
  BY DEF TakenFrom
<1>2. /\ Len(u) = n /\ DOMAIN u = 1..n
      /\ \A i \in 1..n : u[i] = [account |-> list[i].account, asset |-> list[i].asset,
                                 amount |-> list[i].amount]
      /\ \A T : (\A i \in 1..n : [account |-> list[i].account, asset |-> list[i].asset,
                                  amount |-> list[i].amount] \in T) => u \in Seq(T)
  BY EntriesType
<1>3. w \in Seq(Q) /\ Len(w) = n /\ DOMAIN w = 1..n /\ \A i \in 1..n : w[i] = queue[c + i]
  <2> HIDE DEF Q, n
  <2>1. queue \in Seq(Q)
    BY DEF Q
  <2>2. w \in Seq(Q) /\ Len(w) = n /\ \A i \in 1..n : w[i] = queue[c + i]
    BY <1>1, <2>1, StretchOf
  <2> HIDE DEF w
  <2> QED BY <2>2
<1>4. v = [i \in 1..n |-> [account |-> w[i].account, asset |-> w[i].asset, amount |-> w[i].amount]]
  <2> HIDE DEF w, n
  <2> QED BY <1>3 DEF Chain!Hashed
<1>5. ASSUME NEW i \in 1..n
      PROVE  /\ u[i] = [account |-> w[i].account, asset |-> w[i].asset, amount |-> w[i].amount]
             /\ u[i] \in H
  <2>1. w[i] \in Q
    BY <1>3
  <2>2. /\ list[i].account = queue[c + i].account /\ list[i].asset = queue[c + i].asset
        /\ list[i].amount = queue[c + i].amount
    BY <1>1 DEF TakenFrom
  <2> HIDE DEF w, u
  <2> QED BY <1>2, <1>3, <2>1, <2>2
<1>6. u \in Seq(H)
  <2>1. \A i \in 1..n : [account |-> list[i].account, asset |-> list[i].asset,
                         amount |-> list[i].amount] \in H
    BY <1>2, <1>5
  <2> HIDE DEF u, H, n
  <2> QED BY <1>2, <2>1
<1> HIDE DEF u, v, w, n, H
<1>7. u = [i \in 1..n |-> u[i]]
  BY <1>2, <1>6
<1>8. u = v
  BY <1>4, <1>5, <1>7
<1> QED BY <1>8 DEF u, v, w, n

\* A cursor moved on is a number.
LEMMA PlusIsNat ==
    ASSUME NEW m \in Nat, NEW n \in Nat
    PROVE  m + n \in Nat
OBVIOUS

\* A proof is of a batch from the queues as long as the queues only grow.
LEMMA ProofStaysOK ==
    ASSUME QueuesOK, QueuesOK', Longer(deposits', deposits),
           Longer(forcedWithdrawalRequests', forcedWithdrawalRequests),
           batchId \in Nat, batchId' = batchId \/ batchId' = batchId + 1,
           NEW p, ProofOK(p)
    PROVE  ProofOK(p)'
<1> DEFINE a == p.oldDepositCursor
           b == p.newDepositCursor
           c == p.oldForcedWithdrawalCursor
           d == p.oldForcedWithdrawalCursor + Len(p.forcedWithdrawals)
<1>1. /\ p.domain = "here" /\ p.batchId \in 0..(batchId - 1)
      /\ a \in Nat /\ c \in Nat /\ b = a + Len(p.consumedDeposits)
      /\ Len(p.consumedDeposits) \in Nat /\ Len(p.forcedWithdrawals) \in Nat
      /\ b =< Len(deposits) /\ d =< Len(forcedWithdrawalRequests)
      /\ p.consumedDeposits = SubSeq(deposits, a + 1, b)
      /\ Len(p.consumedForcedWithdrawals) = Len(p.forcedWithdrawals)
      /\ p.consumedForcedWithdrawals = Chain!Hashed(SubSeq(forcedWithdrawalRequests, c + 1, d))
  BY DEF ProofOK
<1>2. b \in Nat /\ d \in Nat
  BY <1>1, PlusIsNat
<1>3. /\ Len(deposits) \in Nat /\ Len(deposits') \in Nat
      /\ Len(forcedWithdrawalRequests) \in Nat /\ Len(forcedWithdrawalRequests') \in Nat
      /\ Len(deposits) =< Len(deposits')
      /\ Len(forcedWithdrawalRequests) =< Len(forcedWithdrawalRequests')
  BY DEF QueuesOK, Longer
<1>4. p.batchId \in 0..(batchId' - 1)
  BY <1>1
<1> HIDE DEF a, b, c, d
<1>5. b =< Len(deposits') /\ d =< Len(forcedWithdrawalRequests')
  BY <1>1, <1>2, <1>3
<1> DEFINE D == [account : Ids, asset : Assets, amount : DepositAmounts]
           R == [account : Ids, asset : Assets, amount : RequestAmounts, deadline : Nat]
<1>6. SubSeq(deposits', a + 1, b) = SubSeq(deposits, a + 1, b)
  <2>1. deposits \in Seq(D) /\ deposits' \in Seq(D)
    BY DEF QueuesOK
  <2>2. a \in Nat /\ b \in Nat /\ b =< Len(deposits)
    BY <1>1, <1>2
  <2> HIDE DEF D
  <2> QED BY <2>1, <2>2, SliceStays
<1>7. SubSeq(forcedWithdrawalRequests', c + 1, d) = SubSeq(forcedWithdrawalRequests, c + 1, d)
  <2>1. forcedWithdrawalRequests \in Seq(R) /\ forcedWithdrawalRequests' \in Seq(R)
    BY DEF QueuesOK
  <2>2. c \in Nat /\ d \in Nat /\ d =< Len(forcedWithdrawalRequests)
    BY <1>1, <1>2
  <2> HIDE DEF R
  <2> QED BY <2>1, <2>2, SliceStays
<1>8. \A s, t : s = t => Chain!Hashed(s) = Chain!Hashed(t)
  OBVIOUS
<1>9. Chain!Hashed(SubSeq(forcedWithdrawalRequests', c + 1, d))
        = Chain!Hashed(SubSeq(forcedWithdrawalRequests, c + 1, d))
  BY <1>7, <1>8
<1> QED BY <1>1, <1>4, <1>5, <1>6, <1>9 DEF ProofOK, a, b, c, d

\* What the guest has accepted becomes a proof of what the host took from the queues,
\* from the place of the host to the one it goes on to.
LEMMA NewProof ==
    ASSUME HostInv, QueuesOK, DraftTaken, ApplyAndProve, batchId \in Nat
    PROVE  /\ \A p : p = PublicOutput => ProofOK(p)'
           /\ PublicOutput.batchId = batchId /\ StartOf(PublicOutput) = HostPlace
           /\ EndOf(PublicOutput) = HostPlace'
<1> DEFINE p == PublicOutput
           a == cursors.deposits
           c == cursors.forced
           m == Len(draft.deposits)
           n == Len(draft.forced)
<1>1. /\ Apply /\ batchId' = batchId + 1 /\ deposits' = deposits
      /\ forcedWithdrawalRequests' = forcedWithdrawalRequests
  BY DEF ApplyAndProve, notProofs
<1>2. /\ stage = "settled" /\ tree' = output.newRoot
      /\ cursors' = [deposits |-> a + m, forced |-> c + n]
  BY <1>1, CursorsMove
<1>3. /\ input.deposits = IndexedInputs(draft.deposits)
      /\ input.forced = IndexedInputs(draft.forced)
      /\ output.oldRoot = tree
      /\ output.oldDepositCursor = a /\ output.newDepositCursor = a + m
      /\ output.oldForcedCursor = c /\ Len(output.forced) = n /\ output.forced = drained
      /\ BatchIn(input) /\ Accepted
  BY <1>2, BatchOfDraft
<1>4. /\ a \in Nat /\ c \in Nat /\ m \in Nat /\ n \in Nat
      /\ TakenFrom(draft.deposits, deposits, a) /\ TakenFrom(draft.forced, forcedWithdrawalRequests, c)
      /\ draft.deposits \in Seq(QueueItem) /\ draft.forced \in Seq(QueueItem)
  BY NextNumber DEF HostInv, DraftOK, DraftTaken
<1>5. a + m =< Len(deposits) /\ c + n =< Len(forcedWithdrawalRequests)
  BY <1>4 DEF TakenFrom
<1>6. p.consumedDeposits = SubSeq(deposits, a + 1, a + m) /\ Len(p.consumedDeposits) = m
  <2>1. Entries(input.deposits) = SubSeq(deposits, a + 1, a + m)
    <3> HIDE DEF a
    <3>1. deposits \in Seq([account : Ids, asset : Assets, amount : DepositAmounts])
      BY DEF QueuesOK
    <3>2. Entries(IndexedInputs(draft.deposits)) = SubSeq(deposits, a + 1, a + Len(draft.deposits))
      BY <1>4, <3>1, EntriesAreSlice
    <3> QED BY <1>3, <3>2
  <2>2. Len(Entries(input.deposits)) = m
    BY <1>3, <1>4, EntriesType
  <2> QED BY <2>1, <2>2 DEF PublicOutput
<1>7. /\ p.consumedForcedWithdrawals
           = Chain!Hashed(SubSeq(forcedWithdrawalRequests, c + 1, c + n))
      /\ Len(p.consumedForcedWithdrawals) = n
  <2>1. Entries(input.forced) = Chain!Hashed(SubSeq(forcedWithdrawalRequests, c + 1, c + n))
    <3> HIDE DEF c
    <3>1. forcedWithdrawalRequests
            \in Seq([account : Ids, asset : Assets, amount : RequestAmounts, deadline : Nat])
      BY DEF QueuesOK
    <3>2. Entries(IndexedInputs(draft.forced))
            = Chain!Hashed(SubSeq(forcedWithdrawalRequests, c + 1, c + Len(draft.forced)))
      BY <1>4, <3>1, EntriesAreHashed
    <3> QED BY <1>3, <3>2
  <2>2. Len(Entries(input.forced)) = n
    BY <1>3, <1>4, EntriesType
  <2> QED BY <2>1, <2>2 DEF PublicOutput
<1>8. Len(p.forcedWithdrawals) = n
  <2>1. DOMAIN drained = 1..Len(drained)
    BY <1>3 DEF Accepted, DrainedInTurn, IsList
  <2>2. Entries(output.forced)
          = [i \in 1..n |-> [account |-> drained[i].account, asset |-> drained[i].asset,
                             amount |-> drained[i].amount]]
    BY <1>3, <2>1 DEF Entries
  <2>3. Len(Entries(output.forced)) = n
    BY <1>4, <2>2
  <2> QED BY <2>3 DEF PublicOutput
<1>9. /\ p.domain = "here" /\ p.batchId = batchId
      /\ p.oldStateRoot = Ledger(output.oldRoot) /\ p.newStateRoot = Ledger(output.newRoot)
      /\ p.oldDepositCursor = a /\ p.newDepositCursor = a + m
      /\ p.oldForcedWithdrawalCursor = c
  BY <1>3 DEF PublicOutput
<1> HIDE DEF p, a, c, m, n
<1>10. StartOf(p) = HostPlace
  BY <1>3, <1>9 DEF StartOf, HostPlace, a, c
<1>11. EndOf(p) = HostPlace'
  <2>1. Ledger(tree)' = Ledger(output.newRoot)
    BY <1>2 DEF Ledger
  <2> QED BY <1>2, <1>8, <1>9, <2>1 DEF EndOf, HostPlace
<1>12. batchId \in 0..(batchId' - 1)
  BY <1>1
<1>13. ASSUME NEW q, q = p PROVE ProofOK(q)'
  BY <1>1, <1>4, <1>5, <1>6, <1>7, <1>8, <1>9, <1>12, <1>13 DEF ProofOK
<1> QED BY <1>9, <1>10, <1>11, <1>13 DEF p

\* What is proved next starts where the batch before it ended, which is where the host is.
LEMMA ProvingLinks ==
    ASSUME ExchangeInv, ApplyAndProve
    PROVE  ProofsLinked'
<1>1. /\ batchId' = batchId + 1 /\ proofs' = proofs \cup {PublicOutput}
      /\ nextBatchId' = nextBatchId /\ ChainPlace' = ChainPlace
  BY DEF ApplyAndProve, notProofs, chainCursors, ChainPlace
<1>2. /\ batchId \in Nat /\ nextBatchId \in 0..batchId
      /\ \A i \in 0..(batchId - 1) : \E p \in proofs : p.batchId = i
      /\ \A p, q \in proofs : q.batchId = p.batchId + 1 => StartOf(q) = EndOf(p)
      /\ \A p \in proofs : p.batchId + 1 = batchId => EndOf(p) = HostPlace
      /\ \A p \in proofs : p.batchId = nextBatchId => StartOf(p) = ChainPlace
      /\ batchId = nextBatchId => ChainPlace = HostPlace
  BY DEF ExchangeInv, ProofsLinked
<1>3. PICK new : new = PublicOutput
  OBVIOUS
<1>4. new.batchId = batchId /\ StartOf(new) = HostPlace /\ EndOf(new) = HostPlace'
  BY <1>2, <1>3, NewProof DEF ExchangeInv
<1>5. proofs' = proofs \cup {new}
  BY <1>1, <1>3
<1>6. \A p \in proofs : p.batchId \in 0..(batchId - 1)
  BY DEF ExchangeInv, ProofOK
<1>7. nextBatchId' \in 0..batchId' /\ batchId' \in Nat /\ batchId' # nextBatchId'
  BY <1>1, <1>2
<1>8. \A i \in 0..(batchId' - 1) : \E p \in proofs' : p.batchId = i
  <2> SUFFICES ASSUME NEW i \in 0..(batchId' - 1) PROVE \E p \in proofs' : p.batchId = i
    OBVIOUS
  <2>1. i = batchId \/ i \in 0..(batchId - 1)
    BY <1>1, <1>2
  <2> QED BY <1>2, <1>4, <1>5, <2>1
<1>9. ASSUME NEW p \in proofs', NEW q \in proofs', q.batchId = p.batchId + 1
      PROVE  StartOf(q) = EndOf(p)
  <2>1. p # new
    <3>1. \A r \in proofs' : r.batchId =< batchId /\ r.batchId \in Int
      BY <1>2, <1>4, <1>5, <1>6
    <3> QED BY <1>2, <1>4, <1>9, <3>1
  <2>2. p \in proofs
    BY <1>5, <2>1
  <2>3. CASE q = new
    BY <1>2, <1>4, <1>9, <2>2, <2>3
  <2>4. CASE q \in proofs
    BY <1>2, <1>9, <2>2, <2>4
  <2> QED BY <1>5, <2>3, <2>4
<1>10. ASSUME NEW p \in proofs', p.batchId + 1 = batchId'
       PROVE  EndOf(p) = HostPlace'
  <2>1. p \notin proofs
    BY <1>1, <1>2, <1>6, <1>10
  <2> QED BY <1>4, <1>5, <2>1
<1>11. ASSUME NEW p \in proofs', p.batchId = nextBatchId'
       PROVE  StartOf(p) = ChainPlace'
  <2>1. CASE p \in proofs
    BY <1>1, <1>2, <1>11, <2>1
  <2>2. CASE p = new
    BY <1>1, <1>2, <1>4, <1>11, <2>2
  <2> QED BY <1>5, <2>1, <2>2
<1> QED BY <1>7, <1>8, <1>9, <1>10, <1>11 DEF ProofsLinked

\* Settling a batch takes the contract to its end, where the next one starts.
LEMMA SettlingLinks ==
    ASSUME ExchangeInv, SubmitProof
    PROVE  ProofsLinked'
<1>1. batchId' = batchId /\ tree' = tree /\ cursors' = cursors
  BY ChainLeaves DEF SubmitProof
<1>2. PICK out \in proofs, w \in proofs, f \in proofs :
         Chain!Settle(out, w.withdrawals, f.forcedWithdrawals)
  BY DEF SubmitProof, Chain!SettleStep
<1>3. /\ out.batchId = nextBatchId /\ nextBatchId' = nextBatchId + 1
      /\ stateRoot' = out.newStateRoot /\ nextUnprocessedDeposit' = out.newDepositCursor
      /\ nextUnprocessedForcedWithdrawal'
           = out.oldForcedWithdrawalCursor + Len(out.forcedWithdrawals)
      /\ proofs' = proofs
  BY <1>2 DEF Chain!Settle, Chain!ValidOutput, Chain!ValidWithdrawals, Chain!ApplySettlement,
              Chain!NewForcedCursor
<1>4. ChainPlace' = EndOf(out)
  BY <1>3 DEF ChainPlace, EndOf
<1>5. HostPlace' = HostPlace
  BY <1>1 DEF HostPlace, Ledger
<1>6. /\ batchId \in Nat /\ nextBatchId \in 0..batchId
      /\ \A i \in 0..(batchId - 1) : \E p \in proofs : p.batchId = i
      /\ \A p, q \in proofs : q.batchId = p.batchId + 1 => StartOf(q) = EndOf(p)
      /\ \A p \in proofs : p.batchId + 1 = batchId => EndOf(p) = HostPlace
  BY DEF ExchangeInv, ProofsLinked
<1>7. out.batchId \in 0..(batchId - 1)
  BY DEF ExchangeInv, ProofOK
<1>8. nextBatchId' \in 0..batchId'
  BY <1>1, <1>3, <1>6, <1>7
<1>9. ASSUME NEW p \in proofs', p.batchId = nextBatchId'
      PROVE  StartOf(p) = ChainPlace'
  BY <1>3, <1>4, <1>6, <1>9
<1>10. batchId' = nextBatchId' => ChainPlace' = HostPlace'
  BY <1>1, <1>3, <1>4, <1>5, <1>6
<1> QED BY <1>1, <1>3, <1>5, <1>6, <1>8, <1>9, <1>10 DEF ProofsLinked

\* Where the two sides are depends on nothing else.
LEMMA LinksRest ==
    ASSUME ExchangeInv,
           proofs' = proofs, batchId' = batchId, nextBatchId' = nextBatchId,
           HostPlace' = HostPlace, ChainPlace' = ChainPlace
    PROVE  ProofsLinked'
BY DEF ExchangeInv, ProofsLinked

\* Only applying a batch moves the ledger and the cursors of the host.
LEMMA HostPlaceStays ==
    ASSUME ExchangeNext, ~ApplyAndProve
    PROVE  HostPlace' = HostPlace /\ batchId' = batchId
<1>1. tree' = tree /\ cursors' = cursors /\ batchId' = batchId
  <2>1. \A kind, e, id : Put(kind, e, id) => tree' = tree /\ cursors' = cursors
    BY DEF Put
  <2>2. CASE CollectDeposit
    BY <2>1, <2>2, HostLeaves DEF CollectDeposit, Deposit
  <2>3. CASE CollectRequest
    BY <2>1, <2>3, HostLeaves DEF CollectRequest, ForcedWithdraw
  <2>4. CASE Sign
    BY <2>1, <2>4, HostLeaves DEF Sign, CollectWithdrawal, Withdraw
  <2>5. CASE Work
    BY <2>5, HostLeaves DEF Work, RunBatch, Build, BuildFails, Settle, Abandon, hostVars
  <2>6. CASE UsersAndTime \/ SubmitProof \/ Paying \/ NotPaying
    BY <2>6, ChainLeaves DEF UsersAndTime, SubmitProof, Paying, NotPaying
  <2> QED BY <2>2, <2>3, <2>4, <2>5, <2>6 DEF ExchangeNext
<1> QED BY <1>1 DEF HostPlace, Ledger

\* The invariant is inductive.
LEMMA ExchangeStep == ExchangeInv /\ [ExchangeNext]_exchangeVars => ExchangeInv'
<1> SUFFICES ASSUME ExchangeInv, [ExchangeNext]_exchangeVars PROVE ExchangeInv'
  OBVIOUS
<1>1. HostInv /\ QueuesOK /\ DraftTaken /\ batchId \in Nat
  BY DEF ExchangeInv, ProofsLinked
<1>2. HostInv'
  BY <1>1, HostSteps, HostStep
<1>3. DraftTaken'
  BY <1>1, DraftStaysTaken
<1>4. CASE UNCHANGED exchangeVars
  <2>1. /\ proofs' = proofs /\ batchId' = batchId /\ nextBatchId' = nextBatchId
        /\ deposits' = deposits /\ forcedWithdrawalRequests' = forcedWithdrawalRequests
        /\ now' = now /\ HostPlace' = HostPlace /\ ChainPlace' = ChainPlace
    BY <1>4 DEF exchangeVars, operatorVars, hostVars, chainVars, notProofs, chainCursors, HostPlace,
                ChainPlace, Ledger
  <2>2. ProofsLinked'
    BY <2>1, LinksRest
  <2>3. QueuesOK'
    BY <1>1, <2>1 DEF QueuesOK
  <2>4. \A p \in proofs' : ProofOK(p)'
    BY <2>1 DEF ExchangeInv, ProofOK
  <2> QED BY <1>2, <1>3, <2>2, <2>3, <2>4 DEF ExchangeInv
<1>5. CASE ExchangeNext
  <2>1. /\ QueuesOK' /\ Longer(deposits', deposits)
        /\ Longer(forcedWithdrawalRequests', forcedWithdrawalRequests)
    BY <1>1, <1>5, QueuesGrow
  <2>2. batchId' = batchId \/ batchId' = batchId + 1
    BY <1>5, HostPlaceStays DEF ApplyAndProve
  <2>3. \A p : ProofOK(p) => ProofOK(p)'
    BY <1>1, <2>1, <2>2, ProofStaysOK
  <2>4. CASE ApplyAndProve
    <3>1. proofs' = proofs \cup {PublicOutput}
      BY <2>4 DEF ApplyAndProve
    <3>2. \A p \in proofs' : ProofOK(p)'
      BY <1>1, <2>3, <2>4, <3>1, NewProof DEF ExchangeInv
    <3> QED BY <1>2, <1>3, <2>1, <2>4, <3>2, ProvingLinks DEF ExchangeInv
  <2>5. CASE ~ApplyAndProve
    <3>1. HostPlace' = HostPlace /\ batchId' = batchId
      BY <1>5, <2>5, HostPlaceStays
    <3>2. CASE SubmitProof
      <4>1. proofs' = proofs
        BY <3>2 DEF SubmitProof, Chain!SettleStep, Chain!Settle
      <4>2. \A p \in proofs' : ProofOK(p)'
        BY <2>3, <4>1 DEF ExchangeInv
      <4> QED BY <1>2, <1>3, <2>1, <3>2, <4>2, SettlingLinks DEF ExchangeInv
    <3>3. CASE ~SubmitProof
      <4>1. proofs' = proofs /\ nextBatchId' = nextBatchId /\ ChainPlace' = ChainPlace
        <5>1. CASE UsersAndTime \/ Paying \/ NotPaying
          BY <5>1, OthersLeave DEF ChainPlace
        <5>2. CASE HostOnly
          BY <5>2, HostLeaves DEF ChainPlace
        <5> QED BY <1>5, <2>5, <3>3, <5>1, <5>2
            DEF ExchangeNext, CollectDeposit, CollectRequest, Sign, CollectWithdrawal, Work, RunBatch
      <4>2. ProofsLinked'
        BY <3>1, <4>1, LinksRest
      <4>3. \A p \in proofs' : ProofOK(p)'
        BY <2>3, <4>1 DEF ExchangeInv
      <4> QED BY <1>2, <1>3, <2>1, <4>2, <4>3 DEF ExchangeInv
    <3> QED BY <3>2, <3>3
  <2> QED BY <2>4, <2>5
<1> QED BY <1>4, <1>5

-----------------------------------------------------------------------------
(* The host ahead of the chain                                             *)

\* The exchange starts in one place, the empty account of the fee recipient.
LEMMA ExchangeStarts == ExchangeInit => ExchangeInv
<1> SUFFICES ASSUME ExchangeInit PROVE ExchangeInv
  OBVIOUS
<1> DEFINE accs == [id \in {FeeRecipient} |-> NewAccount(id)]
<1>1. /\ OperatorInit(accs) /\ batchId = 0
      /\ now = 0 /\ stateRoot = [a \in {FeeRecipient} |-> [x \in Assets |-> 0]]
      /\ nextBatchId = 0 /\ deposits = <<>> /\ nextUnprocessedDeposit = 0
      /\ forcedWithdrawalRequests = <<>> /\ nextUnprocessedForcedWithdrawal = 0 /\ proofs = {}
  BY DEF ExchangeInit, Chain!Init
<1>2. AccountsOK(accs)
  <2>1. FeeRecipient \in Ids /\ 0 \in 0..Limits.u64
    BY OperatorAssumption, SettlementAssumption
  <2>2. <<>> \in [{} -> 0..MaxAmount] /\ DOMAIN <<>> = {}
    OBVIOUS
  <2>3. <<>> \in UNION {[held -> 0..MaxAmount] : held \in SUBSET Assets}
    BY <2>2
  <2>4. NewAccount(FeeRecipient) \in RawAccount
    BY <2>1, <2>3 DEF NewAccount, RawAccount
  <2>5. IsFiniteSet({FeeRecipient})
    BY FS_Singleton
  <2> QED BY <2>1, <2>2, <2>4, <2>5 DEF AccountsOK, NewAccount
<1>3. HostInv
  <2> HIDE DEF accs
  <2> QED BY <1>1, <1>2, HostStarts DEF HostInit
<1>4. tree = accs /\ draft = NewBuilder /\ cursors = [deposits |-> 0, forced |-> 0]
  BY <1>1 DEF OperatorInit
<1>5. ChainPlace = HostPlace
  <2>1. Ledger(accs) = [a \in {FeeRecipient} |-> [x \in Assets |-> 0]]
    BY DEF Ledger, Balance, NewAccount
  <2> QED BY <1>1, <1>4, <2>1 DEF ChainPlace, HostPlace
<1>6. QueuesOK
  BY <1>1 DEF QueuesOK
<1>7. DraftTaken
  BY <1>1, <1>4 DEF DraftTaken, TakenFrom, NewBuilder
<1>8. ProofsLinked
  BY <1>1, <1>5 DEF ProofsLinked
<1> QED BY <1>1, <1>3, <1>6, <1>7, <1>8 DEF ExchangeInv

\* The invariant of the exchange: what holds of the host whatever it is given, what the queues
\* hold, and how the batches between the contract and the host hang together.
THEOREM ExchangeHolds == ExchangeSpec => []ExchangeInv
BY ExchangeStarts, ExchangeStep, PTL DEF ExchangeSpec

\* The host's ledger, cursors and batch number are those of the contract or those the contract
\* reaches by settling the batches in flight (account_tree.rs:43-79, batch_builder.rs:29-55,
\* ZkClob.sol:268-292).
THEOREM ExchangeHostAhead == ExchangeSpec => []HostAhead
<1>1. ExchangeInv => HostAhead
  <2> SUFFICES ASSUME ExchangeInv PROVE HostAhead
    OBVIOUS
  <2>1. /\ batchId \in Nat /\ nextBatchId \in 0..batchId
        /\ \A i \in 0..(batchId - 1) : \E p \in proofs : p.batchId = i
        /\ \A p \in proofs : p.batchId + 1 = batchId => EndOf(p) = HostPlace
        /\ batchId = nextBatchId => ChainPlace = HostPlace
    BY DEF ExchangeInv, ProofsLinked
  <2>2. \A p \in proofs : p.batchId \in 0..(batchId - 1)
    BY DEF ExchangeInv, ProofOK
  <2>3. cursors = [deposits |-> cursors.deposits, forced |-> cursors.forced]
    BY DEF ExchangeInv, HostInv, CursorsOK
  <2>4. CASE batchId = nextBatchId
    <3>1. Unsettled = {}
      BY <2>1, <2>2, <2>4 DEF Unsettled
    <3>2. ChainPlace = HostPlace
      BY <2>1, <2>4
    <3>3. /\ Ledger(tree) = stateRoot /\ cursors.deposits = nextUnprocessedDeposit
          /\ cursors.forced = nextUnprocessedForcedWithdrawal
      BY <3>2 DEF ChainPlace, HostPlace
    <3> QED BY <2>3, <2>4, <3>1, <3>3 DEF HostAhead
  <2>5. CASE batchId # nextBatchId
    <3>1. batchId - 1 \in 0..(batchId - 1)
      BY <2>1, <2>5
    <3>2. PICK p \in proofs : p.batchId = batchId - 1
      BY <2>1, <3>1
    <3>3. p.batchId + 1 = batchId /\ p.batchId >= nextBatchId
      BY <2>1, <2>5, <3>2
    <3>4. p \in Unsettled
      BY <3>3 DEF Unsettled
    <3>5. EndOf(p) = HostPlace
      BY <2>1, <3>3
    <3>6. /\ Ledger(tree) = p.newStateRoot /\ cursors.deposits = p.newDepositCursor
          /\ cursors.forced = Chain!NewForcedCursor(p, p.forcedWithdrawals)
      BY <3>5 DEF EndOf, HostPlace, Chain!NewForcedCursor
    <3> QED BY <2>3, <3>3, <3>4, <3>6 DEF HostAhead
  <2> QED BY <2>4, <2>5
<1> QED BY ExchangeHolds, <1>1, PTL

\* No batch is lost to the contract: when its turn comes every check of settle passes but that
\* of escape mode, whatever users queued and batches were proved meanwhile
\* (ZkClob.sol:130-147, 149-266).
THEOREM ExchangeProofsSettle == ExchangeSpec => []ProofsSettle
<1>1. ExchangeInv => ProofsSettle
  <2> SUFFICES ASSUME ExchangeInv, NEW p \in Unsettled, p.batchId = nextBatchId
               PROVE  /\ Chain!ValidOutput(p)
                      /\ Chain!ValidForcedCursor(p, p.forcedWithdrawals)
                      /\ Chain!ValidConsumedInputs(p, Chain!NewForcedCursor(p, p.forcedWithdrawals))
                      /\ Chain!ValidWithdrawals(p, p.withdrawals, p.forcedWithdrawals)
    BY DEF ProofsSettle
  <2>1. p \in proofs
    BY DEF Unsettled
  <2>2. ProofOK(p)
    BY <2>1 DEF ExchangeInv
  <2>3. StartOf(p) = ChainPlace
    BY <2>1 DEF ExchangeInv, ProofsLinked
  <2>4. /\ p.oldStateRoot = stateRoot /\ p.oldDepositCursor = nextUnprocessedDeposit
        /\ p.oldForcedWithdrawalCursor = nextUnprocessedForcedWithdrawal
    BY <2>3 DEF StartOf, ChainPlace
  <2>5. p.newDepositCursor >= p.oldDepositCursor
    <3>1. \A m, n \in Nat : m + n >= m
      OBVIOUS
    <3> QED BY <2>2, <3>1 DEF ProofOK
  <2>6. Chain!ValidOutput(p)
    BY <2>2, <2>4, <2>5 DEF ProofOK, Chain!ValidOutput, Chain!nextDepositId
  <2>7. Chain!ValidForcedCursor(p, p.forcedWithdrawals)
    BY <2>2 DEF ProofOK, Chain!ValidForcedCursor, Chain!NewForcedCursor, Chain!nextForcedWithdrawalId
  <2>8. Chain!ValidConsumedInputs(p, Chain!NewForcedCursor(p, p.forcedWithdrawals))
    BY <2>2 DEF ProofOK, Chain!ValidConsumedInputs, Chain!NewForcedCursor
  <2> QED BY <2>6, <2>7, <2>8 DEF Chain!ValidWithdrawals
<1> QED BY ExchangeHolds, <1>1, PTL

-----------------------------------------------------------------------------
(* The exchange implements the contract's view of it                       *)

\* The sums of the contract are those of the contract of the guest.
LEMMA ChainSums ==
    ASSUME NEW f
    PROVE  Chain!SumFunction(f) = Guest!SumFunction(f)
BY DEF Chain!SumFunction, Chain!SumFunctionOnSet, Chain!FoldFunctionOnSet, Chain!MapThenFoldSet,
       Guest!SumFunction, Guest!SumFunctionOnSet, Guest!FoldFunctionOnSet, Guest!MapThenFoldSet

\* A list as the contract sees it: the host's indices and ids left out.
PlainOf(plain, list) ==
    /\ DOMAIN plain = DOMAIN list /\ Len(plain) = Len(list)
    /\ \A i \in DOMAIN list : /\ plain[i].account = list[i].account
                              /\ plain[i].asset = list[i].asset
                              /\ plain[i].amount = list[i].amount

\* What a list moves in total does not depend on what is left out.
LEMMA PlainTotals ==
    ASSUME NEW plain, NEW list, PlainOf(plain, list), NEW x
    PROVE  Chain!MovedTotal(plain, x) = Guest!MovedTotal(list, x)
<1>1. [i \in DOMAIN plain |-> Chain!AmountIn(plain[i], x)]
        = [i \in DOMAIN list |-> Guest!AmountIn(list[i], x)]
  BY DEF PlainOf, Chain!AmountIn, Guest!AmountIn
<1> QED BY <1>1, ChainSums DEF Chain!MovedTotal, Guest!MovedTotal

\* Nor what some of its entries move for an account.
LEMMA PlainMoves ==
    ASSUME NEW plain, NEW list, PlainOf(plain, list), NEW I, I \subseteq DOMAIN list, NEW a, NEW x
    PROVE  Chain!MovedBy(plain, I, a, x) = Guest!MovedBy(list, I, a, x)
<1>1. [i \in I |-> IF plain[i].account = a /\ plain[i].asset = x THEN plain[i].amount ELSE 0]
        = [i \in I |-> IF list[i].account = a /\ list[i].asset = x THEN list[i].amount ELSE 0]
  BY DEF PlainOf
<1> QED BY <1>1, ChainSums DEF Chain!MovedBy, Guest!MovedBy

\* A batch the contract of the guest admits, it admits as the contract of the chain sees it.
LEMMA PlainAdmits ==
    ASSUME NEW old, NEW new, NEW deps, NEW requests, NEW forced, NEW wds,
           Guest!Admits(old, deps, requests, forced, wds, new),
           DOMAIN requests = 1..Len(forced), Len(forced) \in Nat,
           DOMAIN forced = 1..Len(forced),
           NEW pdeps, NEW prequests, NEW pforced, NEW pwds,
           PlainOf(pdeps, deps), PlainOf(prequests, requests), PlainOf(pforced, forced),
           PlainOf(pwds, wds)
    PROVE  Chain!Admits(old, pdeps, prequests, pforced, pwds, new)
<1>1. /\ \A i \in DOMAIN deps : deps[i].asset \in Configured /\ deps[i].amount # 0
      /\ \A i \in DOMAIN wds : wds[i].asset \in Configured /\ wds[i].amount # 0
      /\ DOMAIN new = DOMAIN old \cup {deps[i].account : i \in DOMAIN deps}
      /\ Guest!Drains(old, deps, requests, forced)
      /\ Guest!Covers(old, deps, forced, wds)
      /\ Guest!Conserves(old, deps, forced, wds, new)
  BY DEF Guest!Admits
<1>2. {pdeps[i].account : i \in DOMAIN pdeps} = {deps[i].account : i \in DOMAIN deps}
  BY DEF PlainOf
<1>3. ASSUME NEW i \in 1..(Len(forced) + 1), NEW a, NEW x
      PROVE  Chain!AvailableTo(old, pdeps, pforced, i, a, x)
               = Guest!AvailableTo(old, deps, forced, i, a, x)
  <2>1. 1..(i - 1) \subseteq DOMAIN forced
    OBVIOUS
  <2>2. Chain!MovedBy(pforced, 1..(i - 1), a, x) = Guest!MovedBy(forced, 1..(i - 1), a, x)
    BY <2>1, PlainMoves
  <2>3. Chain!MovedBy(pdeps, DOMAIN pdeps, a, x) = Guest!MovedBy(deps, DOMAIN deps, a, x)
    <3>1. DOMAIN pdeps = DOMAIN deps /\ DOMAIN deps \subseteq DOMAIN deps
      BY DEF PlainOf
    <3>2. Chain!MovedBy(pdeps, DOMAIN deps, a, x) = Guest!MovedBy(deps, DOMAIN deps, a, x)
      BY <3>1, PlainMoves
    <3> QED BY <3>1, <3>2
  <2> QED BY <2>2, <2>3
      DEF Chain!AvailableTo, Guest!AvailableTo, Chain!BalanceOf, Guest!BalanceOf
<1>4. Chain!Drains(old, pdeps, prequests, pforced)
  <2>1. Len(pforced) = Len(prequests)
    BY <1>1 DEF Guest!Drains, PlainOf
  <2>2. ASSUME NEW i \in DOMAIN prequests
        PROVE  LET r     == prequests[i]
                   avail == Chain!AvailableTo(old, pdeps, pforced, i, r.account, r.asset)
               IN  /\ pforced[i].account = r.account
                   /\ pforced[i].asset = r.asset
                   /\ pforced[i].amount \in {0, IF r.amount < avail THEN r.amount ELSE avail}
    <3> DEFINE r == requests[i]
               avail == Guest!AvailableTo(old, deps, forced, i, r.account, r.asset)
    <3>1. i \in DOMAIN requests /\ i \in DOMAIN forced /\ i \in 1..(Len(forced) + 1)
      BY DEF PlainOf
    <3>2. /\ forced[i].account = r.account /\ forced[i].asset = r.asset
          /\ forced[i].amount \in {0, IF r.amount < avail THEN r.amount ELSE avail}
      BY <1>1, <3>1 DEF Guest!Drains
    <3>3. /\ prequests[i].account = r.account /\ prequests[i].asset = r.asset
          /\ prequests[i].amount = r.amount
          /\ pforced[i].account = forced[i].account /\ pforced[i].asset = forced[i].asset
          /\ pforced[i].amount = forced[i].amount
      BY <3>1 DEF PlainOf
    <3>4. Chain!AvailableTo(old, pdeps, pforced, i, r.account, r.asset) = avail
      BY <1>3, <3>1
    <3> HIDE DEF r, avail
    <3> QED BY <3>2, <3>3, <3>4
  <2> QED BY <2>1, <2>2 DEF Chain!Drains
<1>5. Chain!Covers(old, pdeps, pforced, pwds)
  <2> SUFFICES ASSUME NEW i \in DOMAIN pwds
               PROVE  /\ pwds[i].account \in DOMAIN old \cup {pdeps[j].account : j \in DOMAIN pdeps}
                      /\ Chain!MovedBy(pwds, DOMAIN pwds, pwds[i].account, pwds[i].asset)
                           =< Chain!AvailableTo(old, pdeps, pforced, Len(pforced) + 1,
                                                pwds[i].account, pwds[i].asset)
    BY DEF Chain!Covers
  <2> DEFINE a == wds[i].account
             x == wds[i].asset
  <2>1. i \in DOMAIN wds /\ DOMAIN pwds = DOMAIN wds /\ pwds[i].account = a /\ pwds[i].asset = x
    BY DEF PlainOf
  <2>2. /\ a \in DOMAIN old \cup {deps[j].account : j \in DOMAIN deps}
        /\ Guest!MovedBy(wds, DOMAIN wds, a, x)
             =< Guest!AvailableTo(old, deps, forced, Len(forced) + 1, a, x)
    BY <1>1, <2>1 DEF Guest!Covers
  <2> HIDE DEF a, x
  <2>3. Chain!MovedBy(pwds, DOMAIN pwds, a, x) = Guest!MovedBy(wds, DOMAIN wds, a, x)
    <3>1. Chain!MovedBy(pwds, DOMAIN wds, a, x) = Guest!MovedBy(wds, DOMAIN wds, a, x)
      BY PlainMoves
    <3> QED BY <2>1, <3>1
  <2>4. Len(pforced) = Len(forced) /\ Len(forced) + 1 \in 1..(Len(forced) + 1)
    BY DEF PlainOf
  <2>5. Chain!AvailableTo(old, pdeps, pforced, Len(forced) + 1, a, x)
          = Guest!AvailableTo(old, deps, forced, Len(forced) + 1, a, x)
    BY <1>3, <2>4
  <2> QED BY <1>2, <2>1, <2>2, <2>3, <2>4, <2>5
<1>6. Chain!Conserves(old, pdeps, pforced, pwds, new)
  <2>1. \A l, x : Chain!TotalOf(l, x) = Guest!TotalOf(l, x)
    BY ChainSums DEF Chain!TotalOf, Guest!TotalOf
  <2>2. \A x : /\ Chain!MovedTotal(pforced, x) = Guest!MovedTotal(forced, x)
               /\ Chain!MovedTotal(pwds, x) = Guest!MovedTotal(wds, x)
               /\ Chain!MovedTotal(pdeps, x) = Guest!MovedTotal(deps, x)
    BY PlainTotals
  <2> QED BY <1>1, <2>1, <2>2 DEF Chain!Conserves, Guest!Conserves
<1>7. /\ \A i \in DOMAIN pdeps : pdeps[i].asset \in Configured /\ pdeps[i].amount # 0
      /\ \A i \in DOMAIN pwds : pwds[i].asset \in Configured /\ pwds[i].amount # 0
  BY <1>1 DEF PlainOf
<1> QED BY <1>1, <1>2, <1>4, <1>5, <1>6, <1>7 DEF Chain!Admits

\* The lists of a public output are those of the batch with less in their entries.
LEMMA PlainLists ==
    ASSUME NEW list, NEW n \in Nat, DOMAIN list = 1..n, Len(list) = n
    PROVE  PlainOf(Entries(list), list) /\ PlainOf(Signed(list), list)
<1>1. /\ Entries(list) = [i \in 1..n |-> [account |-> list[i].account, asset |-> list[i].asset,
                                          amount |-> list[i].amount]]
      /\ Signed(list) = [i \in 1..n |-> [account |-> list[i].account, recipient |-> list[i].recipient,
                                         asset |-> list[i].asset, amount |-> list[i].amount]]
  BY DEF Entries, Signed
<1>2. Len(Entries(list)) = n /\ Len(Signed(list)) = n
  BY <1>1
<1> QED BY <1>1, <1>2 DEF PlainOf

\* The host is at one of the places a batch may start from.
LEMMA HostIsAtBase ==
    ASSUME ExchangeInv
    PROVE  [batchId |-> batchId, root |-> Ledger(tree), dep |-> cursors.deposits,
            forced |-> cursors.forced] \in Chain!Bases
<1> DEFINE base == [batchId |-> batchId, root |-> Ledger(tree), dep |-> cursors.deposits,
                    forced |-> cursors.forced]
<1>1. /\ batchId \in Nat /\ nextBatchId \in 0..batchId
      /\ \A i \in 0..(batchId - 1) : \E p \in proofs : p.batchId = i
      /\ \A p \in proofs : p.batchId + 1 = batchId => EndOf(p) = HostPlace
      /\ batchId = nextBatchId => ChainPlace = HostPlace
  BY DEF ExchangeInv, ProofsLinked
<1>2. CASE batchId = nextBatchId
  <2>1. ChainPlace = HostPlace
    BY <1>1, <1>2
  <2>2. /\ Ledger(tree) = stateRoot /\ cursors.deposits = nextUnprocessedDeposit
        /\ cursors.forced = nextUnprocessedForcedWithdrawal
    BY <2>1 DEF ChainPlace, HostPlace
  <2> QED BY <1>2, <2>2 DEF Chain!Bases
<1>3. CASE batchId # nextBatchId
  <2>1. batchId - 1 \in 0..(batchId - 1)
    BY <1>1, <1>3
  <2>2. PICK p \in proofs : p.batchId = batchId - 1
    BY <1>1, <2>1
  <2>3. p.batchId + 1 = batchId
    BY <1>1, <2>2
  <2>4. EndOf(p) = HostPlace
    BY <1>1, <2>3
  <2>5. Len(p.consumedForcedWithdrawals) = Len(p.forcedWithdrawals)
    BY DEF ExchangeInv, ProofOK
  <2>6. /\ Ledger(tree) = p.newStateRoot /\ cursors.deposits = p.newDepositCursor
        /\ cursors.forced = p.oldForcedWithdrawalCursor + Len(p.consumedForcedWithdrawals)
    BY <2>4, <2>5 DEF EndOf, HostPlace
  <2>7. base = [batchId |-> p.batchId + 1, root |-> p.newStateRoot, dep |-> p.newDepositCursor,
                forced |-> p.oldForcedWithdrawalCursor + Len(p.consumedForcedWithdrawals)]
    BY <2>3, <2>6
  <2>8. base \in Chain!Bases
    <3> HIDE DEF base
    <3> QED BY <2>7 DEF Chain!Bases
  <2> QED BY <2>8
<1> QED BY <1>2, <1>3

\* What the host proves is a proof of the contract's world: it starts at one of its places, and
\* the guest admits it.
LEMMA ProvingIsProveStep ==
    ASSUME ExchangeInv, ApplyAndProve
    PROVE  ProveStep
<1> DEFINE base == [batchId |-> batchId, root |-> Ledger(tree), dep |-> cursors.deposits,
                    forced |-> cursors.forced]
           p == PublicOutput
<1>1. /\ HostInv /\ QueuesOK /\ DraftTaken /\ batchId \in Nat
      /\ stage = "settled" /\ proofs' = proofs \cup {p} /\ UNCHANGED notProofs
  BY DEF ExchangeInv, ProofsLinked, ApplyAndProve, Apply
<1>2. /\ Accepted /\ BatchIn(input) /\ output.oldRoot = tree
      /\ output.oldDepositCursor = cursors.deposits /\ output.oldForcedCursor = cursors.forced
      /\ output.newDepositCursor = cursors.deposits + Len(draft.deposits)
      /\ input.deposits = IndexedInputs(draft.deposits)
      /\ output.forced = drained /\ output.withdrawals = input.withdrawals
  BY <1>1, BatchOfDraft
<1>3. /\ DOMAIN input.deposits = 1..Len(input.deposits) /\ Len(input.deposits) \in Nat
      /\ DOMAIN input.forced = 1..Len(input.forced) /\ Len(input.forced) \in Nat
      /\ DOMAIN input.withdrawals = 1..Len(input.withdrawals) /\ Len(input.withdrawals) \in Nat
      /\ DOMAIN drained = 1..Len(drained) /\ Len(drained) = Len(input.forced)
  BY <1>2 DEF Accepted, BatchIn, DrainedInTurn, IsList
<1>4. /\ PlainOf(Entries(input.deposits), input.deposits)
      /\ PlainOf(Entries(input.forced), input.forced)
      /\ PlainOf(Entries(output.forced), output.forced)
      /\ PlainOf(Signed(output.withdrawals), output.withdrawals)
  BY <1>2, <1>3, PlainLists
<1>5. Guest!Admits(Ledger(output.oldRoot), input.deposits, input.forced, output.forced,
                   output.withdrawals, Ledger(output.newRoot))
  <2>1. SettleInv /\ LedgerInv
    BY <1>1, OutputIsOfTheTree DEF WithGuest
  <2> QED BY <1>1, <2>1, BatchHonours DEF GuestHonoursContract
<1>6. Chain!Admits(Ledger(output.oldRoot), Entries(input.deposits), Entries(input.forced),
                   Entries(output.forced), Signed(output.withdrawals), Ledger(output.newRoot))
  BY <1>2, <1>3, <1>4, <1>5, PlainAdmits
<1>7. Len(Entries(input.deposits)) = Len(draft.deposits)
  BY <1>1, <1>2, EntriesType DEF HostInv, DraftOK
<1>8. Chain!BatchOutput(base, "here", p.consumedDeposits, p.consumedForcedWithdrawals,
                        p.forcedWithdrawals, p.withdrawals, p.newStateRoot) = p
  BY <1>2, <1>7 DEF Chain!BatchOutput, PublicOutput
<1>9. Chain!Admits(base.root, p.consumedDeposits, p.consumedForcedWithdrawals,
                   p.forcedWithdrawals, p.withdrawals, p.newStateRoot)
  BY <1>2, <1>6 DEF PublicOutput
<1>10. base \in Chain!Bases
  BY HostIsAtBase
<1> HIDE DEF base, p
<1>11. Chain!ProveFrom(base, "here", p.withdrawals, p.consumedDeposits,
                       p.consumedForcedWithdrawals, p.forcedWithdrawals, p.newStateRoot)
  BY <1>1, <1>8, <1>9 DEF Chain!ProveFrom
<1> QED BY <1>1, <1>10, <1>11 DEF ProveStep, p

\* The exchange implements ZkClob, about which ZkClobProofs proves what it proves: with the guest
\* and the host of the code behind the proofs, every step is a step of users, of time, of settle,
\* of a payout or of a prover whose batch the contract of the guest admits, or leaves the contract
\* alone (mod.rs:30-141, ZkClob.sol:130-147).
THEOREM ExchangeImplementsZkClob == ExchangeSpec => ExchangeIsZkClob
<1> DEFINE A == Chain!UserStep \/ Chain!SettleStep \/ Chain!PayStep \/ Chain!Tick \/ ProveStep
<1>1. ExchangeInv /\ [ExchangeNext]_exchangeVars => [A]_chainVars
  <2> SUFFICES ASSUME ExchangeInv, [ExchangeNext]_exchangeVars
               PROVE  A \/ UNCHANGED chainVars
    OBVIOUS
  <2>1. CASE CollectDeposit \/ CollectRequest \/ Sign
    BY <2>1 DEF CollectDeposit, CollectRequest, Sign, CollectWithdrawal, HostOnly
  <2>2. CASE Work
    BY <2>2, ProvingIsProveStep DEF Work, RunBatch, HostOnly
  <2>3. CASE UsersAndTime
    BY <2>3 DEF UsersAndTime
  <2>4. CASE SubmitProof
    BY <2>4 DEF SubmitProof
  <2>5. CASE Paying \/ NotPaying
    BY <2>5 DEF Paying, NotPaying, Chain!PayStep
  <2>6. CASE UNCHANGED exchangeVars
    BY <2>6 DEF exchangeVars
  <2> QED BY <2>1, <2>2, <2>3, <2>4, <2>5, <2>6 DEF ExchangeNext
<1> QED BY ExchangeHolds, <1>1, PTL DEF ExchangeSpec, ExchangeIsZkClob

-----------------------------------------------------------------------------
(* Who owns what: sums over lists                                          *)

\* A list in two parts adds up to what the parts add up to.
LEMMA SumOfTwo ==
    ASSUME NEW n \in Nat, NEW m \in Nat, NEW l \in Nat, l = n + m, NEW v, NEW u, NEW w,
           \A i \in 1..n : u[i] \in Nat, \A i \in 1..n : v[i] = u[i],
           \A i \in 1..m : w[i] \in Nat, \A i \in 1..m : v[n + i] = w[i]
    PROVE  SumFunctionOnSet(v, 1..l) = SumFunctionOnSet(u, 1..n) + SumFunctionOnSet(w, 1..m)
<1> DEFINE S == 1..n
           T == (n + 1)..(n + m)
           R == 1..m
           h == [i \in R |-> n + i]
<1>1. IsFiniteSet(S) /\ IsFiniteSet(T) /\ IsFiniteSet(R)
  BY FS_Interval
<1>2. S \cup T = 1..l /\ S \cap T = {}
  OBVIOUS
<1>3. /\ \A i \in R : h[i] \in T /\ h[i] = n + i
      /\ \A i, j \in R : h[i] = h[j] => i = j
      /\ \A t \in T : \E i \in R : h[i] = t
  <2>1. \A t \in T : t - n \in R /\ h[t - n] = t
    OBVIOUS
  <2> QED BY <2>1
<1>4. \A i \in R : w[i] \in Int /\ w[i] = v[h[i]]
  BY <1>3
<1>5. \A i \in S : v[i] \in Int /\ v[i] = u[i]
  OBVIOUS
<1>6. \A t \in T : v[t] \in Int
  BY <1>3, <1>4
<1>8. \A i \in S \cup T : v[i] \in Int
  BY <1>5, <1>6
<1> HIDE DEF S, T, R, h
<1>9. SumFunctionOnSet(v, S \cup T) = SumFunctionOnSet(v, S) + SumFunctionOnSet(v, T)
  BY <1>1, <1>2, <1>8, SumUnion
<1>10. SumFunctionOnSet(v, S) = SumFunctionOnSet(u, S)
  BY <1>1, <1>5, SumEqual
<1>11. SumFunctionOnSet(w, R) = SumFunctionOnSet(v, T)
  BY <1>1, <1>3, <1>4, SumReindex
<1> QED BY <1>2, <1>9, <1>10, <1>11 DEF S, R

\* A list of entries whose amounts are numbers.
Amounts(list) == /\ Len(list) \in Nat /\ DOMAIN list = 1..Len(list)
                 /\ \A i \in DOMAIN list : list[i].amount \in Nat

\* What each entry of a list moves for an account, and each payout of a transaction.
Shares(list, a, x) ==
    [i \in DOMAIN list |-> IF list[i].account = a /\ list[i].asset = x THEN list[i].amount ELSE 0]

Dues(owed, a, x) ==
    [i \in DOMAIN owed |-> IF owed[i].to = a /\ owed[i].asset = x THEN owed[i].amount ELSE 0]

DueTo(owed, a, x) == SumFunction(Dues(owed, a, x))

\* A list adds up position by position.
LEMMA SharesSum ==
    ASSUME NEW list, Amounts(list), NEW a, NEW x
    PROVE  /\ \A i \in 1..Len(list) : Shares(list, a, x)[i] \in Nat
           /\ OfAccount(list, a, x) = SumFunctionOnSet(Shares(list, a, x), 1..Len(list))
           /\ OfAccount(list, a, x) \in Nat
<1> DEFINE s == Shares(list, a, x)
           D == 1..Len(list)
<1>1. DOMAIN s = D /\ \A i \in D : s[i] \in Nat
  BY DEF Amounts, Shares
<1>2. OfAccount(list, a, x) = SumFunction(s)
  BY DEF OfAccount, Shares
<1>3. IsFiniteSet(D)
  BY FS_Interval DEF Amounts
<1> HIDE DEF s, D
<1>4. SumFunction(s) = SumFunctionOnSet(s, D)
  BY <1>1 DEF SumFunction
<1>5. SumFunctionOnSet(s, D) \in Nat
  BY <1>1, <1>3, SumNat
<1> QED BY <1>1, <1>2, <1>4, <1>5 DEF s, D

LEMMA DuesSum ==
    ASSUME NEW owed, Amounts(owed), NEW a, NEW x
    PROVE  /\ \A i \in 1..Len(owed) : Dues(owed, a, x)[i] \in Nat
           /\ DueTo(owed, a, x) = SumFunctionOnSet(Dues(owed, a, x), 1..Len(owed))
           /\ DueTo(owed, a, x) \in Nat
<1> DEFINE s == Dues(owed, a, x)
           D == 1..Len(owed)
<1>1. DOMAIN s = D /\ \A i \in D : s[i] \in Nat
  BY DEF Amounts, Dues
<1>2. DueTo(owed, a, x) = SumFunction(s)
  BY DEF DueTo
<1>3. IsFiniteSet(D)
  BY FS_Interval DEF Amounts
<1> HIDE DEF s, D
<1>4. SumFunction(s) = SumFunctionOnSet(s, D)
  BY <1>1 DEF SumFunction
<1>5. SumFunctionOnSet(s, D) \in Nat
  BY <1>1, <1>3, SumNat
<1> QED BY <1>1, <1>2, <1>4, <1>5 DEF s, D

\* What the entries up to a cursor credit to an account.
CreditedTo(queue, cursor, a, x) == SumFunctionOnSet(Shares(queue, a, x), 1..cursor)

\* A cursor that moves on credits the entries it passes.
LEMMA CreditsMore ==
    ASSUME NEW queue, Amounts(queue), NEW k \in Nat, NEW list, Amounts(list),
           k + Len(list) =< Len(queue), \A i \in 1..Len(list) : list[i] = queue[k + i],
           NEW a, NEW x
    PROVE  /\ CreditedTo(queue, k + Len(list), a, x) = CreditedTo(queue, k, a, x) + OfAccount(list, a, x)
           /\ CreditedTo(queue, k, a, x) \in Nat
<1> DEFINE v == Shares(queue, a, x)
           w == Shares(list, a, x)
           m == Len(list)
<1>1. m \in Nat /\ Len(queue) \in Nat /\ k + m =< Len(queue)
      /\ DOMAIN list = 1..m /\ DOMAIN queue = 1..Len(queue)
  BY DEF Amounts
<1>2. /\ \A i \in 1..m : w[i] \in Nat
      /\ OfAccount(list, a, x) = SumFunctionOnSet(w, 1..m)
  BY SharesSum
<1>3. \A i \in 1..Len(queue) : v[i] \in Nat
  BY SharesSum
<1>4. ASSUME NEW i \in 1..m PROVE v[k + i] = w[i]
  <2>1. k + i \in 1..Len(queue)
    BY <1>1
  <2>2. list[i] = queue[k + i]
    OBVIOUS
  <2> QED BY <1>1, <2>1, <2>2 DEF Shares
<1>5. \A i \in 1..k : v[i] \in Nat
  BY <1>1, <1>3
<1> HIDE DEF v, w, m
<1>6. PICK l \in Nat : l = k + m
  BY <1>1
<1>7. SumFunctionOnSet(v, 1..l) = SumFunctionOnSet(v, 1..k) + SumFunctionOnSet(w, 1..m)
  <2>1. \A i \in 1..k : v[i] = v[i]
    OBVIOUS
  <2>2. \A i \in 1..m : w[i] \in Nat
    BY <1>2
  <2> QED BY <1>1, <1>4, <1>5, <1>6, <2>1, <2>2, SumOfTwo
<1>8. SumFunctionOnSet(v, 1..k) \in Nat
  <2>1. IsFiniteSet(1..k)
    BY FS_Interval
  <2> QED BY <1>5, <2>1, SumNat
<1> QED BY <1>2, <1>6, <1>7, <1>8 DEF CreditedTo, v, w, m

\* What has been credited does not change when a queue grows.
LEMMA CreditsStay ==
    ASSUME NEW old, NEW new, Amounts(old), Amounts(new), Longer(new, old),
           NEW k \in 0..Len(old), NEW a, NEW x
    PROVE  CreditedTo(new, k, a, x) = CreditedTo(old, k, a, x)
<1> DEFINE v == Shares(old, a, x)
           w == Shares(new, a, x)
           D == 1..k
<1>1. Len(old) \in Nat /\ Len(new) \in Nat /\ DOMAIN old = 1..Len(old) /\ DOMAIN new = 1..Len(new)
  BY DEF Amounts
<1>2. IsFiniteSet(D)
  BY FS_Interval
<1>3. \A i \in D : i \in 1..Len(old) /\ i \in 1..Len(new) /\ new[i] = old[i]
  BY <1>1 DEF Longer
<1>4. \A i \in D : w[i] = v[i]
  BY <1>1, <1>3 DEF Shares
<1>5. \A i \in D : w[i] \in Int
  <2>1. \A i \in 1..Len(new) : w[i] \in Nat
    BY SharesSum
  <2> QED BY <1>3, <2>1
<1> HIDE DEF v, w, D
<1>6. SumFunctionOnSet(w, D) = SumFunctionOnSet(v, D)
  BY <1>2, <1>4, <1>5, SumEqual
<1> QED BY <1>6 DEF CreditedTo, v, w, D

\* The whole queue is what is credited and what waits behind the cursor.
LEMMA CreditsAndWaits ==
    ASSUME NEW S, NEW queue \in Seq(S), Amounts(queue), NEW k \in 0..Len(queue), NEW a, NEW x
    PROVE  /\ OfAccount(queue, a, x)
                = OfAccount(SubSeq(queue, k + 1, Len(queue)), a, x) + CreditedTo(queue, k, a, x)
           /\ OfAccount(SubSeq(queue, k + 1, Len(queue)), a, x) \in Nat
<1> DEFINE m == Len(queue) - k
           list == SubSeq(queue, k + 1, Len(queue))
<1>1. /\ Len(queue) \in Nat /\ m \in Nat /\ k \in Nat
      /\ k + m = Len(queue) /\ k + m =< Len(queue) /\ DOMAIN queue = 1..Len(queue)
  OBVIOUS
<1>2. /\ SubSeq(queue, k + 1, k + m) \in Seq(S) /\ Len(SubSeq(queue, k + 1, k + m)) = m
      /\ \A i \in 1..m : SubSeq(queue, k + 1, k + m)[i] = queue[k + i]
  <2> HIDE DEF m, list
  <2> QED BY <1>1, StretchOf
<1>3. list \in Seq(S) /\ Len(list) = m /\ \A i \in 1..m : list[i] = queue[k + i]
  BY <1>1, <1>2
<1>4. DOMAIN list = 1..m
  <2> HIDE DEF list, m
  <2> QED BY <1>3
<1>5. \A i \in 1..m : list[i].amount \in Nat
  <2>1. \A i \in 1..m : k + i \in 1..Len(queue)
    BY <1>1
  <2> QED BY <1>1, <1>3, <2>1 DEF Amounts
<1> HIDE DEF list, m
<1>6. Amounts(list)
  BY <1>1, <1>3, <1>4, <1>5 DEF Amounts
<1>7. /\ CreditedTo(queue, k + m, a, x) = CreditedTo(queue, k, a, x) + OfAccount(list, a, x)
      /\ CreditedTo(queue, k, a, x) \in Nat
  <2>1. k + Len(list) =< Len(queue) /\ \A i \in 1..Len(list) : list[i] = queue[k + i]
    BY <1>1, <1>3
  <2>2. /\ CreditedTo(queue, k + Len(list), a, x) = CreditedTo(queue, k, a, x) + OfAccount(list, a, x)
        /\ CreditedTo(queue, k, a, x) \in Nat
    BY <1>1, <1>6, <2>1, CreditsMore
  <2> QED BY <1>3, <2>2
<1>8. OfAccount(queue, a, x) = CreditedTo(queue, Len(queue), a, x)
  BY SharesSum DEF CreditedTo
<1>9. OfAccount(list, a, x) \in Nat
  BY <1>6, SharesSum
<1> QED BY <1>1, <1>7, <1>8, <1>9 DEF list

-----------------------------------------------------------------------------
(* Batches nobody trades in                                                *)

\* What the withdrawals of a batch take from somebody.
PaidTo(in, id, x) == Guest!MovedBy(in.withdrawals, 1..Len(in.withdrawals), id, x)

\* Without orders everybody is left with what the requests left, less what they withdraw.
ExactInv ==
    stage \in {"matching", "matched", "settled"} /\ DOMAIN input.orders = {} =>
        \A id, x : BalanceFor(accounts, id, x) = LeftAfter(input, drained, id, x) - PaidTo(input, id, x)

\* The withdrawals are all that is taken before the matching, and without orders nothing is after.
LEMMA ExactStep ==
    ASSUME SettleInv, LedgerInv, ExactInv, [SettleNext]_settleVars
    PROVE  ExactInv'
<1>1. CASE ApplyOperations
  <2>1. /\ stage = "apply" /\ stage' = "matching" /\ input' = input /\ drained' = drained
    BY <1>1 DEF ApplyOperations
  <2>2. RequestsOut(input, accounts, drained)
    BY <2>1 DEF LedgerInv
  <2>3. AppliedTo(accounts, accounts')
    BY <1>1, ApplyKeeps
  <2>4. \A id, x : BalanceFor(accounts', id, x) = BalanceFor(accounts, id, x) - PaidTo(input, id, x)
    BY <2>3 DEF AppliedTo, PaidTo
  <2>5. \A id, x : BalanceFor(accounts, id, x) = LeftAfter(input, drained, id, x)
    BY <2>2 DEF RequestsOut
  <2> QED BY <2>1, <2>4, <2>5 DEF ExactInv
<1>2. CASE Match
  <2>1. MatchNext /\ input' = input /\ drained' = drained /\ stage = "matching"
    BY <1>2 DEF Match, MatchNext, Fill, FillFails, NextBook, EndMatching
  <2>2. CASE Fill
    <3>1. BatchIn(input) /\ BooksOK /\ Crosses
      BY <2>1, <2>2 DEF SettleInv, Fill
    <3>2. DOMAIN input.orders # {}
      BY <3>1, FillsOfTheBatch
    <3> QED BY <2>1, <3>2 DEF ExactInv
  <2>3. CASE FillFails \/ NextBook \/ EndMatching
    <3>1. accounts' = accounts
      BY <2>3 DEF FillFails, NextBook, EndMatching
    <3> QED BY <2>1, <3>1 DEF ExactInv
  <2> QED BY <2>1, <2>2, <2>3 DEF MatchNext
<1>3. CASE Conclude \/ UNCHANGED settleVars
  <2>1. /\ input' = input /\ accounts' = accounts /\ drained' = drained
        /\ stage' \in {"matching", "matched", "settled"}
             => stage \in {"matching", "matched", "settled"}
    BY <1>3 DEF Conclude, settleVars, matchVars
  <2> QED BY <2>1 DEF ExactInv
<1>4. CASE \/ Validate \/ ApplyDeposits \/ ApplyForced \/ ValidateOperations
           \/ InvalidInput \/ DepositsFail \/ ForcedFail \/ InvalidOperations \/ ApplyFails
           \/ CannotConclude
  <2>1. stage' \in {"deposits", "forced", "operations", "apply", "rejected"}
    BY <1>4 DEF Validate, ApplyDeposits, ApplyForced, ValidateOperations, Reject,
         InvalidInput, DepositsFail, ForcedFail, InvalidOperations, ApplyFails, CannotConclude
  <2> QED BY <2>1 DEF ExactInv
<1> QED BY <1>1, <1>2, <1>3, <1>4 DEF SettleNext

\* So it is whatever the host does.
LEMMA ExactHostStep ==
    ASSUME HostInv, ExactInv, [HostNext]_operatorVars
    PROVE  ExactInv'
<1>1. CASE UNCHANGED settleVars
  <2>1. stage' = stage /\ input' = input /\ accounts' = accounts /\ drained' = drained
    BY <1>1 DEF settleVars, matchVars
  <2> QED BY <2>1 DEF ExactInv
<1>2. CASE Build \/ Apply \/ Abandon
  <2>1. stage' \in {"validate", "building"}
    BY <1>2 DEF Build, Apply, Abandon, NextBatch
  <2> QED BY <2>1 DEF ExactInv
<1>3. CASE Settle
  <2>1. SettleNext /\ stage # "building"
    BY <1>3 DEF Settle, SettleNext, Validate, InvalidInput, ApplyDeposits, DepositsFail, ApplyForced,
         ForcedFail, ValidateOperations, InvalidOperations, ApplyOperations, ApplyFails, Match,
         MatchNext, Fill, FillFails, NextBook, EndMatching, Conclude, CannotConclude
  <2>2. SettleInv /\ LedgerInv
    BY <2>1 DEF HostInv, WithGuest
  <2> QED BY <2>1, <2>2, ExactStep
<1>4. CASE BuildFails
  BY <1>1, <1>4 DEF BuildFails
<1>5. CASE \/ \E d \in QueueItem : Deposit(d)
           \/ \E r \in QueueItem : ForcedWithdraw(r)
           \/ \E o \in SignedOrder : PlaceOrder(o)
           \/ \E w \in SignedWithdrawal : Withdraw(w)
  <2>1. UNCHANGED settleVars
    BY <1>5 DEF Deposit, ForcedWithdraw, PlaceOrder, Withdraw, Put
  <2> QED BY <1>1, <2>1
<1>6. CASE UNCHANGED operatorVars
  BY <1>1, <1>6 DEF operatorVars
<1> QED BY <1>2, <1>3, <1>4, <1>5, <1>6 DEF HostNext, Proceed

-----------------------------------------------------------------------------
(* What an accepted batch does to everybody                                *)

\* What a list moves for somebody, entry by entry, is what it moves for the guest.
LEMMA ListMoves ==
    ASSUME NEW list, NEW a, NEW x
    PROVE  OfAccount(list, a, x) = Guest!MovedBy(list, DOMAIN list, a, x)
BY GuestSums DEF OfAccount, Guest!MovedBy

\* A batch without orders changes nobody's balance but by their deposits, what the requests
\* drained and what they withdrew.
LEMMA ExactBatch ==
    ASSUME SettleInv, LedgerInv, ExactInv, stage = "settled", DOMAIN input.orders = {},
           NEW id, NEW x \in Assets
    PROVE  LET new == Guest!BalanceOf(Ledger(output.newRoot), id, x)
               old == Guest!BalanceOf(Ledger(output.oldRoot), id, x)
               deps == Guest!MovedBy(input.deposits, 1..Len(input.deposits), id, x)
               taken == Guest!MovedBy(drained, 1..Len(drained), id, x)
           IN  /\ old \in Nat /\ new \in Nat /\ deps \in Nat /\ taken \in Nat
               /\ PaidTo(input, id, x) \in Nat
               /\ (new + PaidTo(input, id, x)) + taken = old + deps
<1> DEFINE new == Guest!BalanceOf(Ledger(output.newRoot), id, x)
           old == Guest!BalanceOf(Ledger(output.oldRoot), id, x)
           deps == Guest!MovedBy(input.deposits, 1..Len(input.deposits), id, x)
           taken == Guest!MovedBy(drained, 1..Len(drained), id, x)
           out == PaidTo(input, id, x)
           before == BalanceFor(input.accounts, id, x)
           after == BalanceFor(accounts, id, x)
           left == LeftAfter(input, drained, id, x)
<1>1. Accepted
  BY SettledIsAccepted
<1>2. /\ BatchIn(input) /\ InputOK /\ DrainedInTurn(input, drained)
      /\ accounts \in Seq(AnAccount) /\ Canonical(accounts)
      /\ input.accounts \in Seq(AnAccount) /\ Canonical(input.accounts)
      /\ Provable(accounts, input) /\ Provable(input.accounts, input)
      /\ Joined(input, accounts) /\ WithdrawalsFit(input, accounts, drained)
      /\ output.oldRoot = Root(input.accounts, input.rest)
      /\ output.newRoot = Root(accounts, input.rest)
  BY <1>1 DEF Accepted, InputOK, Outputs
<1>3. before \in Nat /\ deps \in Nat /\ out \in Nat /\ taken \in Nat /\ left = (before + deps) - taken
  BY <1>2, LeftType DEF PaidTo, LeftAfter, Owned
<1>4. after = left - out
  BY DEF ExactInv
<1>5. after \in Nat
  BY <1>2, ForType, ExchangeAssumption
<1>6. CASE id \notin DOMAIN input.rest
  <2>1. new = after /\ old = before
    BY <1>2, <1>6, LedgerSays
  <2> HIDE DEF new, old, deps, taken, out, before, after, left
  <2>2. (after + out) + taken = before + deps
    BY <1>3, <1>4, <1>5
  <2>3. /\ old \in Nat /\ new \in Nat /\ deps \in Nat /\ taken \in Nat /\ out \in Nat
        /\ (new + out) + taken = old + deps
    BY <1>3, <1>5, <2>1, <2>2
  <2> QED BY <2>3 DEF new, old, deps, taken, out
<1>7. CASE id \in DOMAIN input.rest
  <2> DEFINE b == Balance(input.rest[id], x)
  <2>1. /\ id \in DOMAIN Ledger(output.newRoot) /\ Ledger(output.newRoot)[id][x] = b
        /\ id \in DOMAIN Ledger(output.oldRoot) /\ Ledger(output.oldRoot)[id][x] = b
        /\ ~Has(accounts, id) /\ ~Has(input.accounts, id)
    BY <1>2, <1>7, LedgerSays
  <2>2. new = b /\ old = b
    BY <2>1 DEF Guest!BalanceOf
  <2>3. b \in Nat
    BY <1>2, <1>7, RestIsAccounts
  <2>4. deps = 0
    <3>1. \A i \in 1..Len(input.deposits) : input.deposits[i].account # id
      BY <1>2, <2>1 DEF Joined
    <3>2. input.deposits \in Seq(QueueEntry)
      BY <1>2 DEF BatchIn
    <3> QED BY <3>1, <3>2, NobodysEntries
  <2>5. before = 0 /\ after = 0
    BY <2>1 DEF BalanceFor
  <2>6. out =< left
    BY <1>2 DEF WithdrawalsFit, PaidTo
  <2> HIDE DEF new, old, deps, taken, out, before, after, left, b
  <2>7. out = 0 /\ taken = 0
    BY <1>3, <1>4, <2>4, <2>5, <2>6
  <2>8. /\ old \in Nat /\ new \in Nat /\ deps \in Nat /\ taken \in Nat /\ out \in Nat
        /\ (new + out) + taken = old + deps
    BY <2>2, <2>3, <2>4, <2>7
  <2> QED BY <2>8 DEF new, old, deps, taken, out
<1> QED BY <1>6, <1>7

-----------------------------------------------------------------------------
(* What a transaction owes                                                 *)

\* A list of payouts has amounts that are numbers.
LEMMA PayoutAmounts ==
    ASSUME NEW owed \in Seq(Chain!Payout)
    PROVE  Amounts(owed)
<1>1. Len(owed) \in Nat /\ DOMAIN owed = 1..Len(owed)
  OBVIOUS
<1>2. \A i \in DOMAIN owed : owed[i] \in Chain!Payout
  OBVIOUS
<1>3. \A p \in Chain!Payout : p.amount \in Nat
  BY DEF Chain!Payout
<1> QED BY <1>1, <1>2, <1>3 DEF Amounts

\* Who is owed nothing is paid nothing.
LEMMA NothingDue ==
    ASSUME NEW a, NEW x
    PROVE  DueTo(<<>>, a, x) = 0
<1>1. Amounts(<<>>) /\ Len(<<>>) = 0 /\ 1..0 = {}
  BY DEF Amounts
<1>2. DueTo(<<>>, a, x) = SumFunctionOnSet(Dues(<<>>, a, x), {})
  BY <1>1, DuesSum
<1> QED BY <1>2, SumEmpty

\* Two lists of payouts, one after the other.
LEMMA DueOfTwo ==
    ASSUME NEW s \in Seq(Chain!Payout), NEW t \in Seq(Chain!Payout), NEW a, NEW x
    PROVE  DueTo(s \o t, a, x) = DueTo(s, a, x) + DueTo(t, a, x)
<1> DEFINE u == s \o t
           n == Len(s)
           m == Len(t)
           v == Dues(u, a, x)
           f == Dues(s, a, x)
           g == Dues(t, a, x)
<1>1. /\ n \in Nat /\ m \in Nat /\ u \in Seq(Chain!Payout) /\ Len(u) = n + m
      /\ \A i \in 1..n : u[i] = s[i]
      /\ \A i \in 1..m : u[n + i] = t[i]
  OBVIOUS
<1>2. Amounts(s) /\ Amounts(t) /\ Amounts(u)
  BY <1>1, PayoutAmounts
<1>3. DOMAIN s = 1..n /\ DOMAIN t = 1..m /\ DOMAIN u = 1..(n + m)
  BY <1>1, <1>2 DEF Amounts
<1> HIDE DEF u, n, m
<1>4. /\ \A i \in 1..n : f[i] \in Nat
      /\ \A i \in 1..m : g[i] \in Nat
      /\ DueTo(s, a, x) = SumFunctionOnSet(f, 1..n) /\ DueTo(t, a, x) = SumFunctionOnSet(g, 1..m)
      /\ DueTo(u, a, x) = SumFunctionOnSet(v, 1..(n + m))
  BY <1>1, <1>2, DuesSum DEF n, m
<1>5. \A i \in 1..n : v[i] = f[i]
  BY <1>1, <1>3 DEF Dues
<1>6. \A i \in 1..m : v[n + i] = g[i]
  <2>1. \A i \in 1..m : n + i \in 1..(n + m)
    BY <1>1
  <2> QED BY <1>1, <1>3, <2>1 DEF Dues
<1> HIDE DEF v, f, g
<1>7. PICK l \in Nat : l = n + m
  BY <1>1
<1>8. SumFunctionOnSet(v, 1..l) = SumFunctionOnSet(f, 1..n) + SumFunctionOnSet(g, 1..m)
  <2>1. n \in Nat /\ m \in Nat
    BY <1>1
  <2>2. \A i \in 1..n : f[i] \in Nat
    BY <1>4
  <2>3. \A i \in 1..m : g[i] \in Nat
    BY <1>4
  <2> QED BY <1>5, <1>6, <1>7, <2>1, <2>2, <2>3, SumOfTwo, SMTT(60)
<1> QED BY <1>4, <1>7, <1>8 DEF u

\* The payout of one claim.
LEMMA OneDue ==
    ASSUME NEW p \in Chain!Payout, NEW a, NEW x
    PROVE  DueTo(<<p>>, a, x) = IF p.to = a /\ p.asset = x THEN p.amount ELSE 0
<1> DEFINE v == Dues(<<p>>, a, x)
<1>1. <<p>> \in Seq(Chain!Payout) /\ Len(<<p>>) = 1 /\ DOMAIN <<p>> = {1} /\ <<p>>[1] = p
  OBVIOUS
<1>2. v[1] = IF p.to = a /\ p.asset = x THEN p.amount ELSE 0
  BY <1>1 DEF Dues
<1>3. p.amount \in Nat
  BY DEF Chain!Payout
<1>4. DueTo(<<p>>, a, x) = SumFunctionOnSet(v, 1..1)
  BY <1>1, PayoutAmounts, DuesSum
<1>5. 1..1 = {1}
  OBVIOUS
<1>6. v[1] \in Int
  BY <1>2, <1>3
<1> HIDE DEF v
<1>7. SumFunctionOnSet(v, {1}) = v[1]
  BY <1>6, SumSingle
<1> QED BY <1>2, <1>4, <1>5, <1>7

\* What is owed is the next payout and what is owed after it.
LEMMA NextDue ==
    ASSUME NEW owed \in Seq(Chain!Payout), owed # <<>>, NEW a, NEW x
    PROVE  /\ Head(owed) \in Chain!Payout /\ Tail(owed) \in Seq(Chain!Payout)
           /\ DueTo(owed, a, x)
                = (IF Head(owed).to = a /\ Head(owed).asset = x THEN Head(owed).amount ELSE 0)
                  + DueTo(Tail(owed), a, x)
<1> DEFINE P == Chain!Payout
           p == Head(owed)
           rest == Tail(owed)
<1>1. ASSUME NEW S, NEW s \in Seq(S), s # <<>>
      PROVE  Head(s) \in S /\ Tail(s) \in Seq(S) /\ s = <<Head(s)>> \o Tail(s)
  BY <1>1
<1> HIDE DEF P
<1>2. owed \in Seq(P)
  BY DEF P
<1>3. p \in P /\ rest \in Seq(P) /\ owed = <<p>> \o rest
  BY <1>1, <1>2
<1>4. <<p>> \in Seq(P)
  BY <1>3
<1> HIDE DEF p, rest
<1>5. DueTo(<<p>> \o rest, a, x) = DueTo(<<p>>, a, x) + DueTo(rest, a, x)
  <2>1. \A s, t \in Seq(P) : DueTo(s \o t, a, x) = DueTo(s, a, x) + DueTo(t, a, x)
    BY DueOfTwo DEF P
  <2> QED BY <1>3, <1>4, <2>1
<1>6. DueTo(<<p>>, a, x) = IF p.to = a /\ p.asset = x THEN p.amount ELSE 0
  BY <1>3, OneDue DEF P
<1> QED BY <1>3, <1>5, <1>6 DEF P, p, rest

\* A list whose entries name an account and an asset.
NamedList(list) ==
    Amounts(list) /\ \A i \in DOMAIN list : list[i].account \in Ids /\ list[i].asset \in Assets

\* The payouts a list orders, each to somebody.
LEMMA PayoutsOf ==
    ASSUME NEW list, NamedList(list), NEW pays,
           pays = [i \in DOMAIN list |-> [to |-> list[i].account, asset |-> list[i].asset,
                                          amount |-> list[i].amount]],
           NEW a, NEW x
    PROVE  pays \in Seq(Chain!Payout) /\ DueTo(pays, a, x) = OfAccount(list, a, x)
<1>1. Len(list) \in Nat /\ DOMAIN list = 1..Len(list)
  BY DEF NamedList, Amounts
<1>2. ASSUME NEW i \in DOMAIN list PROVE pays[i] \in Chain!Payout
  <2>1. list[i].account \in Ids /\ list[i].asset \in Assets /\ list[i].amount \in Nat
    BY DEF NamedList, Amounts
  <2> QED BY <2>1 DEF Chain!Payout
<1>3. pays \in Seq(Chain!Payout)
  <2>1. pays = [i \in 1..Len(list) |-> pays[i]]
    BY <1>1
  <2>2. \A i \in 1..Len(list) : pays[i] \in Chain!Payout
    BY <1>1, <1>2
  <2> QED BY <1>1, <2>1, <2>2
<1>4. Dues(pays, a, x) = Shares(list, a, x)
  BY DEF Dues, Shares
<1> QED BY <1>3, <1>4 DEF DueTo, OfAccount, Shares

\* The payouts of a batch are its withdrawals and what its requests drained.
LEMMA BatchDues ==
    ASSUME NEW wds, NamedList(wds), \A i \in DOMAIN wds : wds[i].recipient = wds[i].account,
           NEW forced, NamedList(forced), NEW a, NEW x
    PROVE  /\ Chain!BatchPayouts(wds, forced) \in Seq(Chain!Payout)
           /\ DueTo(Chain!BatchPayouts(wds, forced), a, x)
                = OfAccount(wds, a, x) + OfAccount(forced, a, x)
<1> DEFINE P == Chain!Payout
           s == [i \in DOMAIN wds |-> [to |-> wds[i].recipient, asset |-> wds[i].asset,
                                       amount |-> wds[i].amount]]
           u == [i \in DOMAIN wds |-> [to |-> wds[i].account, asset |-> wds[i].asset,
                                       amount |-> wds[i].amount]]
           t == [i \in DOMAIN forced |-> [to |-> forced[i].account, asset |-> forced[i].asset,
                                          amount |-> forced[i].amount]]
<1>1. s = u
  OBVIOUS
<1>2. u \in Seq(P) /\ DueTo(u, a, x) = OfAccount(wds, a, x)
  BY PayoutsOf
<1>3. t \in Seq(P) /\ DueTo(t, a, x) = OfAccount(forced, a, x)
  BY PayoutsOf
<1>4. Chain!BatchPayouts(wds, forced) = s \o t
  BY DEF Chain!BatchPayouts
<1> HIDE DEF s, t, u
<1>5. \A v, w \in Seq(P) : DueTo(v \o w, a, x) = DueTo(v, a, x) + DueTo(w, a, x)
  BY DueOfTwo
<1>6. s \o t \in Seq(P)
  <2> HIDE DEF P
  <2> QED BY <1>1, <1>2, <1>3
<1> HIDE DEF P
<1>7. Chain!BatchPayouts(wds, forced) \in Seq(P)
      /\ DueTo(Chain!BatchPayouts(wds, forced), a, x) = OfAccount(wds, a, x) + OfAccount(forced, a, x)
  BY <1>1, <1>2, <1>3, <1>4, <1>5, <1>6
<1> QED BY <1>7 DEF P

\* A leaf pays its account, asset by asset.
LEMMA LeafPays ==
    ASSUME NEW a \in Ids, NEW bal, \A y \in Assets : bal[y] \in Nat
    PROVE  /\ Chain!LeafPayouts(a, bal) \in Seq(Chain!Payout)
           /\ DOMAIN Chain!LeafPayouts(a, bal) = DOMAIN AssetOrder
           /\ Len(Chain!LeafPayouts(a, bal)) = Len(AssetOrder)
<1> DEFINE D == DOMAIN AssetOrder
           pays == Chain!LeafPayouts(a, bal)
<1>1. /\ D = 1..Len(AssetOrder) /\ Len(AssetOrder) \in Nat
      /\ \A i \in D : AssetOrder[i] \in Assets
  BY WholeAssumption
<1>2. pays = [i \in D |-> [to |-> a, asset |-> AssetOrder[i], amount |-> bal[AssetOrder[i]]]]
  BY DEF Chain!LeafPayouts
<1>3. \A i \in D : pays[i] \in Chain!Payout
  BY <1>1, <1>2 DEF Chain!Payout
<1> HIDE DEF pays, D
<1>4. pays = [i \in 1..Len(AssetOrder) |-> pays[i]] /\ DOMAIN pays = D
  BY <1>1, <1>2
<1>5. \A i \in 1..Len(AssetOrder) : pays[i] \in Chain!Payout
  BY <1>1, <1>3
<1>6. pays \in Seq(Chain!Payout) /\ Len(pays) = Len(AssetOrder)
  BY <1>1, <1>4, <1>5
<1> QED BY <1>4, <1>6 DEF pays, D

\* It pays each of its balances once.
LEMMA LeafDues ==
    ASSUME NEW a \in Ids, NEW bal, \A y \in Assets : bal[y] \in Nat, NEW b, NEW x \in Assets
    PROVE  DueTo(Chain!LeafPayouts(a, bal), b, x) = IF b = a THEN bal[x] ELSE 0
<1> DEFINE D == DOMAIN AssetOrder
           pays == Chain!LeafPayouts(a, bal)
           v == Dues(pays, b, x)
<1>1. /\ D = 1..Len(AssetOrder) /\ Len(AssetOrder) \in Nat
      /\ \A i \in D : AssetOrder[i] \in Assets
      /\ \A i, j \in D : AssetOrder[i] = AssetOrder[j] => i = j
  BY WholeAssumption
<1>2. PICK k \in D : AssetOrder[k] = x
  BY WholeAssumption
<1>3. pays = [i \in D |-> [to |-> a, asset |-> AssetOrder[i], amount |-> bal[AssetOrder[i]]]]
  BY DEF Chain!LeafPayouts
<1>4. pays \in Seq(Chain!Payout) /\ DOMAIN pays = D /\ Len(pays) = Len(AssetOrder)
  BY LeafPays
<1> HIDE DEF pays, D
<1>5. \A i \in D : v[i] = IF a = b /\ AssetOrder[i] = x THEN bal[AssetOrder[i]] ELSE 0
  BY <1>3 DEF Dues
<1>6. \A i \in D : v[i] \in Int
  BY <1>1, <1>5
<1>7. DueTo(pays, b, x) = SumFunctionOnSet(v, D)
  <2>1. Amounts(pays)
    BY <1>4, PayoutAmounts
  <2>2. DueTo(pays, b, x) = SumFunctionOnSet(Dues(pays, b, x), 1..Len(pays))
    BY <2>1, DuesSum
  <2> QED BY <1>1, <1>4, <2>2
<1>8. IsFiniteSet(D) /\ IsFiniteSet(D \ {k})
  <2>1. IsFiniteSet(D)
    <3>1. IsFiniteSet(1..Len(AssetOrder))
      BY <1>1, FS_Interval
    <3> QED BY <1>1, <3>1
  <2> QED BY <2>1, FS_Subset
<1>9. \A i \in D \ {k} : v[i] = 0
  BY <1>1, <1>2, <1>5
<1>10. v[k] = IF b = a THEN bal[x] ELSE 0
  BY <1>2, <1>5
<1> HIDE DEF v
<1>11. SumFunctionOnSet(v, D) = v[k] + SumFunctionOnSet(v, D \ {k})
  BY <1>2, <1>6, <1>8, SumRemove
<1>12. SumFunctionOnSet(v, D \ {k}) = 0
  BY <1>8, <1>9, SumZero
<1>13. v[k] \in Int
  BY <1>2, <1>6
<1>14. DueTo(pays, b, x) = IF b = a THEN bal[x] ELSE 0
  BY <1>7, <1>10, <1>11, <1>12, <1>13
<1> QED BY <1>14 DEF pays

-----------------------------------------------------------------------------
(* What a proof leaves everybody with                                      *)

\* What a batch leaves somebody and pays them is what they had and what it takes from the
\* queue for them.
ProofKeeps(p) ==
    /\ NamedList(p.withdrawals) /\ NamedList(p.forcedWithdrawals) /\ Amounts(p.consumedDeposits)
    /\ \A i \in DOMAIN p.withdrawals : p.withdrawals[i].recipient = p.withdrawals[i].account
    /\ \A a \in Ids, x \in Assets :
          /\ Guest!BalanceOf(p.newStateRoot, a, x) \in Nat
          /\ (Guest!BalanceOf(p.newStateRoot, a, x) + OfAccount(p.withdrawals, a, x))
               + OfAccount(p.forcedWithdrawals, a, x)
                 = Guest!BalanceOf(p.oldStateRoot, a, x) + OfAccount(p.consumedDeposits, a, x)

\* A list as the contract sees it moves what the list moves.
LEMMA PlainShares ==
    ASSUME NEW plain, NEW list, PlainOf(plain, list), NEW a, NEW x
    PROVE  OfAccount(plain, a, x) = Guest!MovedBy(list, DOMAIN list, a, x)
<1>1. Shares(plain, a, x) = Shares(list, a, x)
  BY DEF PlainOf, Shares
<1>2. OfAccount(plain, a, x) = OfAccount(list, a, x)
  BY <1>1 DEF OfAccount, Shares
<1> QED BY <1>2, ListMoves

\* It names who the list names.
LEMMA PlainNames ==
    ASSUME NEW plain, NEW list, PlainOf(plain, list), NamedList(list)
    PROVE  NamedList(plain)
BY DEF PlainOf, NamedList, Amounts

\* The lists of a batch name accounts and assets.
LEMMA BatchNames ==
    ASSUME BatchIn(input), DrainedInTurn(input, drained)
    PROVE  NamedList(input.deposits) /\ NamedList(input.withdrawals) /\ NamedList(drained)
<1>1. \A n \in 0..MaxAmount : n \in Nat
  BY ExchangeAssumption
<1>2. ASSUME NEW S, NEW list \in Seq(S),
             \A e \in S : e.account \in Ids /\ e.asset \in Assets /\ e.amount \in 0..MaxAmount
      PROVE  NamedList(list)
  <2>1. Len(list) \in Nat /\ DOMAIN list = 1..Len(list) /\ \A i \in DOMAIN list : list[i] \in S
    OBVIOUS
  <2> QED BY <1>1, <1>2, <2>1 DEF NamedList, Amounts
<1>3. NamedList(input.deposits)
  <2>1. input.deposits \in Seq(QueueEntry)
    BY DEF BatchIn
  <2>2. \A e \in QueueEntry : e.account \in Ids /\ e.asset \in Assets /\ e.amount \in 0..MaxAmount
    BY DEF QueueEntry
  <2> QED BY <1>2, <2>1, <2>2
<1>4. NamedList(input.withdrawals)
  <2>1. input.withdrawals \in Seq(WithdrawalEntry)
    BY DEF BatchIn
  <2>2. \A e \in WithdrawalEntry : e.account \in Ids /\ e.asset \in Assets /\ e.amount \in 0..MaxAmount
    BY DEF WithdrawalEntry
  <2> QED BY <1>2, <2>1, <2>2
<1>5. NamedList(drained)
  <2>1. /\ input.forced \in Seq(QueueEntry)
        /\ Len(drained) = Len(input.forced)
        /\ Len(drained) \in Nat /\ DOMAIN drained = 1..Len(drained)
    BY DEF BatchIn, DrainedInTurn, IsList
  <2>2. ASSUME NEW i \in DOMAIN drained
        PROVE  drained[i].account \in Ids /\ drained[i].asset \in Assets /\ drained[i].amount \in Nat
    <3>1. i \in 1..Len(input.forced)
      BY <2>1
    <3>2. input.forced[i] \in QueueEntry
      BY <2>1, <3>1
    <3>3. input.forced[i].account \in Ids /\ input.forced[i].asset \in Assets
      BY <3>2 DEF QueueEntry
    <3> QED BY <3>1, <3>3 DEF DrainedInTurn
  <2> QED BY <2>1, <2>2 DEF NamedList, Amounts
<1> QED BY <1>3, <1>4, <1>5

\* What the host proves keeps everybody's.
LEMMA NewProofKeeps ==
    ASSUME HostInv, DraftTaken, ExactInv, stage = "settled"
    PROVE  ProofKeeps(PublicOutput)
<1> DEFINE p == PublicOutput
<1>1. /\ Accepted /\ WithGuest /\ BatchIn(input) /\ DrainedInTurn(input, drained)
      /\ SettleInv /\ LedgerInv
      /\ output.forced = drained /\ output.withdrawals = input.withdrawals
      /\ input.orders = IndexedOrders /\ input.withdrawals = IndexedWithdrawals
  BY BatchOfDraft, OutputIsOfTheTree DEF Accepted, WithGuest
<1>2. DOMAIN input.orders = {}
  <2>1. DOMAIN IndexedOrders = DOMAIN draft.orders
    BY DEF IndexedOrders
  <2> QED BY <1>1, <2>1 DEF DraftTaken
<1>3. NamedList(input.deposits) /\ NamedList(input.withdrawals) /\ NamedList(drained)
  BY <1>1, BatchNames
<1>4. /\ p.consumedDeposits = Entries(input.deposits)
      /\ p.withdrawals = Signed(input.withdrawals)
      /\ p.forcedWithdrawals = Entries(drained)
      /\ p.newStateRoot = Ledger(output.newRoot) /\ p.oldStateRoot = Ledger(output.oldRoot)
  BY <1>1 DEF PublicOutput
<1> HIDE DEF p
<1>5. /\ PlainOf(p.consumedDeposits, input.deposits)
      /\ PlainOf(p.withdrawals, input.withdrawals)
      /\ PlainOf(p.forcedWithdrawals, drained)
  BY <1>3, <1>4, PlainLists DEF NamedList, Amounts
<1>6. NamedList(p.consumedDeposits) /\ NamedList(p.withdrawals) /\ NamedList(p.forcedWithdrawals)
  BY <1>3, <1>5, PlainNames
<1>7. \A i \in DOMAIN p.withdrawals : p.withdrawals[i].recipient = p.withdrawals[i].account
  <2> SUFFICES ASSUME NEW i \in DOMAIN p.withdrawals
               PROVE  p.withdrawals[i].recipient = p.withdrawals[i].account
    OBVIOUS
  <2>1. i \in DOMAIN input.withdrawals
    BY <1>5 DEF PlainOf
  <2>2. DOMAIN input.withdrawals = DOMAIN draft.withdrawals
        /\ input.withdrawals[i].recipient = draft.withdrawals[i].recipient
        /\ input.withdrawals[i].account = draft.withdrawals[i].account
    BY <1>1, <2>1 DEF IndexedWithdrawals
  <2>3. draft.withdrawals[i].recipient = draft.withdrawals[i].account
    BY <2>1, <2>2 DEF DraftTaken
  <2>4. /\ p.withdrawals[i].recipient = input.withdrawals[i].recipient
        /\ p.withdrawals[i].account = input.withdrawals[i].account
    BY <1>4, <2>1 DEF Signed
  <2> QED BY <2>2, <2>3, <2>4
<1>8. ASSUME NEW a \in Ids, NEW x \in Assets
      PROVE  /\ Guest!BalanceOf(p.newStateRoot, a, x) \in Nat
             /\ (Guest!BalanceOf(p.newStateRoot, a, x) + OfAccount(p.withdrawals, a, x))
                  + OfAccount(p.forcedWithdrawals, a, x)
                    = Guest!BalanceOf(p.oldStateRoot, a, x) + OfAccount(p.consumedDeposits, a, x)
  <2> DEFINE new == Guest!BalanceOf(Ledger(output.newRoot), a, x)
             old == Guest!BalanceOf(Ledger(output.oldRoot), a, x)
             deps == Guest!MovedBy(input.deposits, 1..Len(input.deposits), a, x)
             taken == Guest!MovedBy(drained, 1..Len(drained), a, x)
             wds == PaidTo(input, a, x)
  <2>1. new \in Nat /\ (new + wds) + taken = old + deps
    BY <1>1, <1>2, ExactBatch
  <2>2. OfAccount(p.consumedDeposits, a, x) = deps
    <3>1. OfAccount(p.consumedDeposits, a, x) = Guest!MovedBy(input.deposits, DOMAIN input.deposits, a, x)
      BY <1>5, PlainShares
    <3> QED BY <1>3, <3>1 DEF NamedList, Amounts
  <2>3. OfAccount(p.withdrawals, a, x) = wds
    <3>1. OfAccount(p.withdrawals, a, x)
            = Guest!MovedBy(input.withdrawals, DOMAIN input.withdrawals, a, x)
      BY <1>5, PlainShares
    <3> QED BY <1>3, <3>1 DEF NamedList, Amounts, PaidTo
  <2>4. OfAccount(p.forcedWithdrawals, a, x) = taken
    <3>1. OfAccount(p.forcedWithdrawals, a, x) = Guest!MovedBy(drained, DOMAIN drained, a, x)
      BY <1>5, PlainShares
    <3> QED BY <1>3, <3>1 DEF NamedList, Amounts
  <2>5. Guest!BalanceOf(p.newStateRoot, a, x) = new /\ Guest!BalanceOf(p.oldStateRoot, a, x) = old
    BY <1>4
  <2> HIDE DEF new, old, deps, taken, wds
  <2> QED BY <2>1, <2>2, <2>3, <2>4, <2>5
<1>9. ProofKeeps(p)
  BY <1>6, <1>7, <1>8 DEF ProofKeeps, NamedList
<1> QED BY <1>9 DEF p

-----------------------------------------------------------------------------
(* Everyone keeps theirs                                                   *)

\* A running transaction owes payouts.
CallOK == /\ call = [kind |-> call.kind, owed |-> call.owed, entered |-> call.entered]
          /\ call.owed \in Seq(Chain!Payout)

\* What is claimed are amounts, what is credited is behind the cursor, and who has escaped has
\* escaped in escape mode.
ClaimsOK ==
    /\ pendingWithdrawals \in [Ids \X Assets -> Nat] /\ paid \in [Ids \X Assets -> Nat]
    /\ \A a \in Ids, x \in Assets : Guest!BalanceOf(stateRoot, a, x) \in Nat
    /\ nextUnprocessedDeposit \in 0..Len(deposits)
    /\ escaped # {} => escapeMode

\* What the settled ledger still holds for somebody.
StillHeld(a, x) == IF a \in escaped THEN 0 ELSE Guest!BalanceOf(stateRoot, a, x)

\* What was credited to somebody is in the settled ledger, claimable, paid to them or owed.
KeptFor(a, x) ==
    CreditedTo(deposits, nextUnprocessedDeposit, a, x)
      = ((StillHeld(a, x) + pendingWithdrawals[<<a, x>>]) + paid[<<a, x>>]) + DueTo(call.owed, a, x)

KeepInv ==
    /\ ExchangeInv /\ ExactInv
    /\ \A p \in proofs : ProofKeeps(p)
    /\ CallOK /\ ClaimsOK
    /\ \A a \in Ids, x \in Assets : KeptFor(a, x)

\* The deposits have amounts.
LEMMA DepositsAreAmounts ==
    ASSUME QueuesOK
    PROVE  Amounts(deposits)
<1> DEFINE D == [account : Ids, asset : Assets, amount : DepositAmounts]
<1>1. deposits \in Seq(D)
  BY DEF QueuesOK
<1>2. \A e \in D : e.amount \in Nat
  <2>1. \A n \in DepositAmounts : n \in Nat
    BY WholeAssumption, ExchangeAssumption
  <2> QED BY <2>1
<1> HIDE DEF D
<1>3. Len(deposits) \in Nat /\ DOMAIN deposits = 1..Len(deposits)
      /\ \A i \in DOMAIN deposits : deposits[i] \in D
  BY <1>1
<1> QED BY <1>2, <1>3 DEF Amounts

\* What has been credited is credited however the queue grows.
LEMMA CreditedStays ==
    ASSUME QueuesOK, QueuesOK', Longer(deposits', deposits), ClaimsOK,
           nextUnprocessedDeposit' = nextUnprocessedDeposit
    PROVE  /\ nextUnprocessedDeposit' \in 0..Len(deposits')
           /\ \A a, x : CreditedTo(deposits, nextUnprocessedDeposit, a, x)'
                          = CreditedTo(deposits, nextUnprocessedDeposit, a, x)
<1>1. Amounts(deposits)
  BY DepositsAreAmounts
<1>2. Amounts(deposits')
  <2> DEFINE D == [account : Ids, asset : Assets, amount : DepositAmounts]
  <2>1. deposits' \in Seq(D)
    BY DEF QueuesOK
  <2>2. \A e \in D : e.amount \in Nat
    <3>1. \A n \in DepositAmounts : n \in Nat
      BY WholeAssumption, ExchangeAssumption
    <3> QED BY <3>1
  <2> HIDE DEF D
  <2>3. Len(deposits') \in Nat /\ DOMAIN deposits' = 1..Len(deposits')
        /\ \A i \in DOMAIN deposits' : deposits'[i] \in D
    BY <2>1
  <2> QED BY <2>2, <2>3 DEF Amounts
<1>3. nextUnprocessedDeposit \in 0..Len(deposits)
  BY DEF ClaimsOK
<1>4. ASSUME NEW a, NEW x
      PROVE  CreditedTo(deposits', nextUnprocessedDeposit, a, x)
               = CreditedTo(deposits, nextUnprocessedDeposit, a, x)
  BY <1>1, <1>2, <1>3, CreditsStay
<1>5. nextUnprocessedDeposit \in 0..Len(deposits')
  BY <1>1, <1>2, <1>3 DEF Longer, Amounts
<1> QED BY <1>4, <1>5

\* After a payout the others are left.
LEMMA AfterPayout ==
    ASSUME CallOK, call.owed # <<>>, call' = Chain!AfterHead
    PROVE  CallOK' /\ call'.owed = Tail(call.owed)
<1>1. Tail(call.owed) \in Seq(Chain!Payout)
  BY NextDue DEF CallOK
<1>2. CASE Len(call.owed) = 1
  <2>1. call' = [kind |-> "none", owed |-> <<>>, entered |-> FALSE]
    BY <1>2 DEF Chain!AfterHead, Chain!NoCall
  <2>2. Tail(call.owed) = <<>>
    <3>1. ASSUME NEW S, NEW s \in Seq(S), Len(s) = 1 PROVE Tail(s) = <<>>
      <4>1. s # <<>>
        BY <3>1
      <4>2. Tail(s) \in Seq(S) /\ Len(Tail(s)) = 0
        BY <3>1, <4>1
      <4>3. \A t \in Seq(S) : Len(t) = 0 => t = <<>>
        OBVIOUS
      <4> QED BY <4>2, <4>3
    <3> HIDE DEF Chain!Payout
    <3> QED BY <1>2, <3>1 DEF CallOK
  <2> QED BY <1>1, <2>1, <2>2 DEF CallOK
<1>3. CASE Len(call.owed) # 1
  <2>1. call' = [kind |-> call.kind, owed |-> Tail(call.owed), entered |-> FALSE]
    BY <1>3 DEF Chain!AfterHead, CallOK
  <2> QED BY <1>1, <2>1 DEF CallOK
<1> QED BY <1>2, <1>3

\* A payout goes to who it is for, or waits for them, or is of nothing.
LEMMA PayingKeeps ==
    ASSUME CallOK, ClaimsOK, Paying \/ NotPaying
    PROVE  /\ CallOK'
           /\ pendingWithdrawals' \in [Ids \X Assets -> Nat] /\ paid' \in [Ids \X Assets -> Nat]
           /\ \A a \in Ids, x \in Assets :
                 (pendingWithdrawals'[<<a, x>>] + paid'[<<a, x>>]) + DueTo(call'.owed, a, x)
                   = (pendingWithdrawals[<<a, x>>] + paid[<<a, x>>]) + DueTo(call.owed, a, x)
<1> DEFINE p == Head(call.owed)
           rest == Tail(call.owed)
           Q == Ids \X Assets
<1>1. call.owed # <<>> /\ call' = Chain!AfterHead
  BY DEF Paying, NotPaying, Chain!PaySkip, Chain!PaySucceed, Chain!PayFail
<1>2. CallOK' /\ call'.owed = rest
  BY <1>1, AfterPayout
<1>3. p \in Chain!Payout /\ rest \in Seq(Chain!Payout)
  BY <1>1, NextDue DEF CallOK
<1>4. \A a, x : DueTo(call.owed, a, x)
                  = (IF p.to = a /\ p.asset = x THEN p.amount ELSE 0) + DueTo(rest, a, x)
  BY <1>1, NextDue DEF CallOK
<1>5. p.to \in Ids /\ p.asset \in Assets /\ p.amount \in Nat
  BY <1>3 DEF Chain!Payout
<1>6. pendingWithdrawals \in [Q -> Nat] /\ paid \in [Q -> Nat]
  BY DEF ClaimsOK
<1>7. \A a, x : DueTo(rest, a, x) \in Nat
  BY <1>3, PayoutAmounts, DuesSum
<1>8. \/ p.amount = 0 /\ pendingWithdrawals' = pendingWithdrawals /\ paid' = paid
      \/ pendingWithdrawals' = pendingWithdrawals
         /\ paid' = [paid EXCEPT ![<<p.to, p.asset>>] = @ + p.amount]
      \/ paid' = paid
         /\ pendingWithdrawals' = [pendingWithdrawals EXCEPT ![<<p.to, p.asset>>] = @ + p.amount]
  BY DEF Paying, NotPaying, Chain!PaySkip, Chain!PaySucceed, Chain!PayFail, Chain!claims
<1> HIDE DEF p, rest
<1>9. pendingWithdrawals' \in [Q -> Nat] /\ paid' \in [Q -> Nat]
  BY <1>5, <1>6, <1>8
<1>10. ASSUME NEW a \in Ids, NEW x \in Assets
       PROVE  (pendingWithdrawals'[<<a, x>>] + paid'[<<a, x>>]) + DueTo(rest, a, x)
                = (pendingWithdrawals[<<a, x>>] + paid[<<a, x>>]) + DueTo(call.owed, a, x)
  <2> DEFINE n == pendingWithdrawals[<<a, x>>]
             m == paid[<<a, x>>]
             n2 == pendingWithdrawals'[<<a, x>>]
             m2 == paid'[<<a, x>>]
             share == IF p.to = a /\ p.asset = x THEN p.amount ELSE 0
             left == DueTo(rest, a, x)
             all == DueTo(call.owed, a, x)
  <2>1. n \in Nat /\ m \in Nat /\ left \in Nat /\ share \in Nat /\ all = share + left
    BY <1>4, <1>5, <1>6, <1>7
  <2>2. <<p.to, p.asset>> = <<a, x>> <=> p.to = a /\ p.asset = x
    OBVIOUS
  <2>3. \/ share = 0 /\ n2 = n /\ m2 = m
        \/ n2 = n /\ m2 = m + share
        \/ m2 = m /\ n2 = n + share
    BY <1>5, <1>6, <1>8, <2>1, <2>2
  <2> HIDE DEF n, m, n2, m2, share, left, all
  <2>4. (n2 + m2) + left = (n + m) + all
    BY <2>1, <2>3
  <2> QED BY <2>4 DEF n, m, n2, m2, left, all
<1> QED BY <1>2, <1>9, <1>10 DEF rest

\* Money that only moves between what is held, claimed, paid and owed stays with who has it.
LEMMA MovingKeeps ==
    ASSUME QueuesOK, QueuesOK', Longer(deposits', deposits), ClaimsOK,
           nextUnprocessedDeposit' = nextUnprocessedDeposit, stateRoot' = stateRoot,
           pendingWithdrawals' \in [Ids \X Assets -> Nat], paid' \in [Ids \X Assets -> Nat],
           escaped' # {} => escapeMode',
           \A a \in Ids, x \in Assets : KeptFor(a, x),
           \A a \in Ids, x \in Assets :
              ((StillHeld(a, x)' + pendingWithdrawals'[<<a, x>>]) + paid'[<<a, x>>]) + DueTo(call'.owed, a, x)
                = ((StillHeld(a, x) + pendingWithdrawals[<<a, x>>]) + paid[<<a, x>>]) + DueTo(call.owed, a, x)
    PROVE  ClaimsOK' /\ \A a \in Ids, x \in Assets : KeptFor(a, x)'
<1>1. /\ nextUnprocessedDeposit' \in 0..Len(deposits')
      /\ \A a, x : CreditedTo(deposits, nextUnprocessedDeposit, a, x)'
                     = CreditedTo(deposits, nextUnprocessedDeposit, a, x)
  BY CreditedStays
<1>2. ClaimsOK'
  BY <1>1 DEF ClaimsOK
<1> QED BY <1>1, <1>2 DEF KeptFor

\* What users do and the time that passes.
LEMMA UsersKeep ==
    ASSUME QueuesOK, QueuesOK', Longer(deposits', deposits), CallOK, ClaimsOK,
           \A a \in Ids, x \in Assets : KeptFor(a, x), UsersAndTime
    PROVE  CallOK' /\ ClaimsOK' /\ \A a \in Ids, x \in Assets : KeptFor(a, x)'
<1>1. /\ nextUnprocessedDeposit' = nextUnprocessedDeposit /\ stateRoot' = stateRoot
      /\ paid' = paid
  BY OthersLeave DEF UsersAndTime
<1>2. /\ pendingWithdrawals \in [Ids \X Assets -> Nat] /\ paid \in [Ids \X Assets -> Nat]
      /\ \A a \in Ids, x \in Assets : Guest!BalanceOf(stateRoot, a, x) \in Nat
      /\ escaped # {} => escapeMode
  BY DEF ClaimsOK
<1>3. CASE \/ \E a, x, n, r : Chain!Deposit(a, x, n, r)
           \/ \E a, x, n : Chain!RequestForcedWithdrawal(a, x, n)
           \/ Chain!ActivateEscapeMode
           \/ Chain!Tick
  <2>1. /\ escaped' = escaped /\ pendingWithdrawals' = pendingWithdrawals
        /\ escapeMode => escapeMode'
        /\ call' = call \/ call' = [call EXCEPT !.entered = TRUE]
    <3>1. CASE \E a, x, n, r : Chain!Deposit(a, x, n, r)
      BY <3>1 DEF Chain!Deposit
    <3>4. CASE Chain!Tick
      BY <3>4 DEF Chain!Tick, Chain!claims
    <3>2. CASE \E a, x, n : Chain!RequestForcedWithdrawal(a, x, n)
      BY <3>2 DEF Chain!RequestForcedWithdrawal, Chain!Reenterable, Chain!claims
    <3>3. CASE Chain!ActivateEscapeMode
      BY <3>3 DEF Chain!ActivateEscapeMode, Chain!Reenterable, Chain!claims
    <3> QED BY <1>3, <3>1, <3>2, <3>3, <3>4
  <2>2. call'.owed = call.owed /\ CallOK'
    <3>1. CASE call' = call
      BY <3>1 DEF CallOK
    <3>2. CASE call' = [call EXCEPT !.entered = TRUE]
      <4>1. call' = [kind |-> call.kind, owed |-> call.owed, entered |-> TRUE]
        BY <3>2 DEF CallOK
      <4> QED BY <4>1 DEF CallOK
    <3> QED BY <2>1, <3>1, <3>2
  <2>3. \A a \in Ids, x \in Assets : StillHeld(a, x)' = StillHeld(a, x)
    BY <1>1, <2>1 DEF StillHeld
  <2>4. ClaimsOK' /\ \A a \in Ids, x \in Assets : KeptFor(a, x)'
    BY <1>1, <1>2, <2>1, <2>2, <2>3, MovingKeeps
  <2> QED BY <2>2, <2>4
<1>4. ASSUME NEW a \in Ids, NEW leaf, Chain!EscapeWithdraw(a, leaf)
      PROVE  CallOK' /\ ClaimsOK' /\ \A b \in Ids, x \in Assets : KeptFor(b, x)'
  <2> DEFINE bal == stateRoot[a]
             pays == Chain!LeafPayouts(a, bal)
  <2>1. /\ call = Chain!NoCall /\ escapeMode /\ a \notin escaped
        /\ leaf.present /\ leaf = Chain!Leaf(stateRoot, a)
        /\ escaped' = escaped \cup {a}
        /\ call' = [kind |-> "escape", owed |-> Chain!LeafPayouts(a, leaf.balances),
                    entered |-> FALSE]
        /\ escapeMode' = escapeMode /\ pendingWithdrawals' = pendingWithdrawals
    BY <1>4 DEF Chain!EscapeWithdraw, Chain!Idle
  <2>2. a \in DOMAIN stateRoot /\ leaf.balances = bal
    BY <2>1 DEF Chain!Leaf
  <2>3. \A x \in Assets : bal[x] \in Nat
    BY <1>2, <2>2 DEF Guest!BalanceOf
  <2>4. pays \in Seq(Chain!Payout)
        /\ \A b, x : x \in Assets => DueTo(pays, b, x) = IF b = a THEN bal[x] ELSE 0
    <3> HIDE DEF bal
    <3>1. \A y \in Assets : bal[y] \in Nat
      BY <2>3
    <3> QED BY <3>1, LeafPays, LeafDues
  <2>5. call'.owed = pays /\ CallOK'
    BY <2>1, <2>2, <2>4 DEF CallOK
  <2>6. call.owed = <<>>
    BY <2>1 DEF Chain!NoCall
  <2> HIDE DEF pays, bal
  <2>7. ASSUME NEW b \in Ids, NEW x \in Assets
        PROVE  ((StillHeld(b, x)' + pendingWithdrawals'[<<b, x>>]) + paid'[<<b, x>>]) + DueTo(call'.owed, b, x)
                 = ((StillHeld(b, x) + pendingWithdrawals[<<b, x>>]) + paid[<<b, x>>]) + DueTo(call.owed, b, x)
    <3>1. DueTo(call.owed, b, x) = 0
      BY <2>6, NothingDue
    <3>2. DueTo(call'.owed, b, x) = IF b = a THEN bal[x] ELSE 0
      BY <2>4, <2>5
    <3>3. pendingWithdrawals[<<b, x>>] \in Nat /\ paid[<<b, x>>] \in Nat
      BY <1>2
    <3>4. CASE b = a
      <4>1. StillHeld(b, x) = bal[x] /\ StillHeld(b, x)' = 0
        BY <2>1, <2>2, <3>4 DEF StillHeld, bal, Guest!BalanceOf
      <4> QED BY <1>1, <2>1, <2>3, <3>1, <3>2, <3>3, <3>4, <4>1
    <3>5. CASE b # a
      <4>1. StillHeld(b, x)' = StillHeld(b, x)
        BY <1>1, <2>1, <3>5 DEF StillHeld
      <4> QED BY <1>1, <2>1, <3>1, <3>2, <3>5, <4>1
    <3> QED BY <3>4, <3>5
  <2>8. ClaimsOK' /\ \A b \in Ids, x \in Assets : KeptFor(b, x)'
    BY <1>1, <1>2, <2>1, <2>7, MovingKeeps
  <2> QED BY <2>5, <2>8
<1>5. ASSUME NEW a \in Ids, NEW y \in Assets, Chain!WithdrawPending(a, y)
      PROVE  CallOK' /\ ClaimsOK' /\ \A b \in Ids, x \in Assets : KeptFor(b, x)'
  <2> DEFINE n == pendingWithdrawals[<<a, y>>]
             p == [to |-> a, asset |-> y, amount |-> n]
  <2>1. /\ call = Chain!NoCall
        /\ pendingWithdrawals' = [pendingWithdrawals EXCEPT ![<<a, y>>] = 0]
        /\ call' = [kind |-> "claim", owed |-> <<p>>, entered |-> FALSE]
        /\ escapeMode' = escapeMode /\ escaped' = escaped
    BY <1>5 DEF Chain!WithdrawPending, Chain!Idle
  <2>2. n \in Nat
    BY <1>2
  <2>3. p \in Chain!Payout
    BY <2>2 DEF Chain!Payout
  <2>4. call.owed = <<>> /\ call'.owed = <<p>> /\ CallOK'
    BY <2>1, <2>3 DEF Chain!NoCall, CallOK
  <2>5. pendingWithdrawals' \in [Ids \X Assets -> Nat]
    BY <1>2, <2>1
  <2>6. ASSUME NEW b \in Ids, NEW x \in Assets
        PROVE  ((StillHeld(b, x)' + pendingWithdrawals'[<<b, x>>]) + paid'[<<b, x>>]) + DueTo(call'.owed, b, x)
                 = ((StillHeld(b, x) + pendingWithdrawals[<<b, x>>]) + paid[<<b, x>>]) + DueTo(call.owed, b, x)
    <3>1. DueTo(call.owed, b, x) = 0
      BY <2>4, NothingDue
    <3>2. DueTo(call'.owed, b, x) = IF a = b /\ y = x THEN n ELSE 0
      BY <2>3, <2>4, OneDue
    <3>3. StillHeld(b, x)' = StillHeld(b, x) /\ StillHeld(b, x) \in Nat
      BY <1>1, <1>2, <2>1 DEF StillHeld
    <3>4. paid'[<<b, x>>] = paid[<<b, x>>] /\ paid[<<b, x>>] \in Nat
          /\ pendingWithdrawals[<<b, x>>] \in Nat
      BY <1>1, <1>2
    <3>5. CASE a = b /\ y = x
      <4>1. pendingWithdrawals'[<<b, x>>] = 0 /\ pendingWithdrawals[<<b, x>>] = n
        BY <1>2, <2>1, <3>5
      <4> QED BY <2>2, <3>1, <3>2, <3>3, <3>4, <3>5, <4>1
    <3>6. CASE ~(a = b /\ y = x)
      <4>1. pendingWithdrawals'[<<b, x>>] = pendingWithdrawals[<<b, x>>]
        BY <1>2, <2>1, <3>6
      <4> QED BY <3>1, <3>2, <3>3, <3>4, <3>6, <4>1
    <3> QED BY <3>5, <3>6
  <2>7. ClaimsOK' /\ \A b \in Ids, x \in Assets : KeptFor(b, x)'
    BY <1>1, <1>2, <2>1, <2>5, <2>6, MovingKeeps
  <2> QED BY <2>4, <2>7
<1>6. \/ \E a, x, n, r : Chain!Deposit(a, x, n, r)
      \/ \E a, x, n : Chain!RequestForcedWithdrawal(a, x, n)
      \/ Chain!ActivateEscapeMode
      \/ Chain!Tick
      \/ \E a \in Ids : \E leaf : Chain!EscapeWithdraw(a, leaf)
      \/ \E a \in Ids, x \in Assets : Chain!WithdrawPending(a, x)
  BY DEF UsersAndTime, Chain!UserStep
<1> QED BY <1>3, <1>4, <1>5, <1>6

\* Settling a batch credits what it takes from the queue and owes what it pays out.
LEMMA SettlingKeeps ==
    ASSUME KeepInv, SubmitProof
    PROVE  CallOK' /\ ClaimsOK' /\ \A a \in Ids, x \in Assets : KeptFor(a, x)'
<1>1. PICK out \in proofs, w \in proofs, f \in proofs :
         Chain!Settle(out, w.withdrawals, f.forcedWithdrawals)
  BY DEF SubmitProof, Chain!SettleStep
<1> DEFINE wds == out.withdrawals
           forced == out.forcedWithdrawals
           list == out.consumedDeposits
           pays == Chain!BatchPayouts(wds, forced)
           k == nextUnprocessedDeposit
           n == Len(list)
<1>2. /\ call = Chain!NoCall /\ ~escapeMode
      /\ out.oldStateRoot = stateRoot /\ out.oldDepositCursor = k
      /\ stateRoot' = out.newStateRoot /\ nextUnprocessedDeposit' = out.newDepositCursor
      /\ call' = IF pays = <<>> THEN Chain!NoCall
                 ELSE [kind |-> "settle", owed |-> pays, entered |-> FALSE]
      /\ deposits' = deposits /\ escapeMode' = escapeMode /\ escaped' = escaped
      /\ pendingWithdrawals' = pendingWithdrawals
  <2>1. w.withdrawals = wds /\ f.forcedWithdrawals = forced
    BY <1>1 DEF Chain!Settle, Chain!ValidWithdrawals
  <2>2. Chain!Settle(out, wds, forced)
    BY <1>1, <2>1
  <2>3. Chain!ApplySettlement(out, wds, forced) /\ Chain!ValidOutput(out)
        /\ call = Chain!NoCall /\ ~escapeMode
        /\ deposits' = deposits /\ escapeMode' = escapeMode
        /\ escaped' = escaped /\ pendingWithdrawals' = pendingWithdrawals
    BY <2>2 DEF Chain!Settle, Chain!Idle, Chain!claims
  <2> HIDE DEF wds, forced
  <2>4. /\ stateRoot' = out.newStateRoot /\ nextUnprocessedDeposit' = out.newDepositCursor
        /\ call' = IF pays = <<>> THEN Chain!NoCall
                   ELSE [kind |-> "settle", owed |-> pays, entered |-> FALSE]
    BY <2>3 DEF Chain!ApplySettlement
  <2>5. out.oldStateRoot = stateRoot /\ out.oldDepositCursor = k
    BY <2>3 DEF Chain!ValidOutput
  <2> QED BY <2>3, <2>4, <2>5
<1>3. paid' = paid
  BY DEF SubmitProof
<1>4. ProofOK(out) /\ ProofKeeps(out)
  BY <1>1 DEF KeepInv, ExchangeInv
<1>5. /\ NamedList(wds) /\ NamedList(forced) /\ Amounts(list)
      /\ \A i \in DOMAIN wds : wds[i].recipient = wds[i].account
  BY <1>4 DEF ProofKeeps
<1>6. /\ k \in Nat /\ n \in Nat /\ k + n =< Len(deposits)
      /\ nextUnprocessedDeposit' = k + n /\ list = SubSeq(deposits, k + 1, k + n)
  BY <1>2, <1>4 DEF ProofOK
<1>7. /\ pendingWithdrawals \in [Ids \X Assets -> Nat] /\ paid \in [Ids \X Assets -> Nat]
      /\ \A a \in Ids, x \in Assets : Guest!BalanceOf(stateRoot, a, x) \in Nat
      /\ escaped = {}
  BY <1>2 DEF KeepInv, ClaimsOK
<1>8. Amounts(deposits)
  BY DepositsAreAmounts DEF KeepInv, ExchangeInv
<1>9. \A i \in 1..n : list[i] = deposits[k + i]
  <2> DEFINE D == [account : Ids, asset : Assets, amount : DepositAmounts]
  <2>1. deposits \in Seq(D)
    BY DEF KeepInv, ExchangeInv, QueuesOK
  <2> HIDE DEF D, k, n, list
  <2>2. \A i \in 1..n : SubSeq(deposits, k + 1, k + n)[i] = deposits[k + i]
    BY <1>6, <2>1, StretchOf
  <2> QED BY <1>6, <2>2
<1>10. \A a, x : pays \in Seq(Chain!Payout)
                 /\ DueTo(pays, a, x) = OfAccount(wds, a, x) + OfAccount(forced, a, x)
  <2> HIDE DEF wds, forced
  <2> QED BY <1>5, BatchDues DEF pays
<1>11. call.owed = <<>> /\ call'.owed = pays /\ CallOK'
  <2> HIDE DEF pays
  <2>1. call.owed = <<>>
    BY <1>2 DEF Chain!NoCall
  <2>2. CASE pays = <<>>
    <3>1. call' = [kind |-> "none", owed |-> <<>>, entered |-> FALSE]
      BY <1>2, <2>2 DEF Chain!NoCall
    <3> QED BY <2>1, <2>2, <3>1 DEF CallOK
  <2>3. CASE pays # <<>>
    <3>1. call' = [kind |-> "settle", owed |-> pays, entered |-> FALSE]
      BY <1>2, <2>3
    <3> QED BY <1>10, <2>1, <3>1 DEF CallOK
  <2> QED BY <2>2, <2>3
<1> HIDE DEF wds, forced, list, pays, k, n
<1>12. \A a, x : CreditedTo(deposits, k + n, a, x)
                   = CreditedTo(deposits, k, a, x) + OfAccount(list, a, x)
  <2>1. Amounts(list)
    BY <1>5
  <2>2. k + Len(list) =< Len(deposits)
    BY <1>6 DEF n
  <2>3. \A i \in 1..Len(list) : list[i] = deposits[k + i]
    BY <1>9 DEF n
  <2>4. k \in Nat
    BY <1>6
  <2>5. ASSUME NEW a, NEW x
        PROVE  CreditedTo(deposits, k + Len(list), a, x)
                 = CreditedTo(deposits, k, a, x) + OfAccount(list, a, x)
    BY <1>8, <2>1, <2>2, <2>3, <2>4, CreditsMore
  <2> QED BY <2>5 DEF n
<1>13. \A a, x : /\ OfAccount(list, a, x) \in Nat /\ OfAccount(wds, a, x) \in Nat
                 /\ OfAccount(forced, a, x) \in Nat
  <2>1. Amounts(wds) /\ Amounts(forced) /\ Amounts(list)
    BY <1>5 DEF NamedList
  <2> QED BY <2>1, SharesSum
<1>14. ASSUME NEW a \in Ids, NEW x \in Assets
       PROVE  KeptFor(a, x)' /\ Guest!BalanceOf(stateRoot', a, x) \in Nat
  <2> DEFINE old == Guest!BalanceOf(stateRoot, a, x)
             new == Guest!BalanceOf(stateRoot', a, x)
             was == CreditedTo(deposits, k, a, x)
             dep == OfAccount(list, a, x)
             wd == OfAccount(wds, a, x)
             fo == OfAccount(forced, a, x)
             pe == pendingWithdrawals[<<a, x>>]
             pd == paid[<<a, x>>]
  <2>1. new \in Nat /\ (new + wd) + fo = old + dep
    BY <1>2, <1>4 DEF ProofKeeps, wds, forced, list
  <2>2. was = ((old + pe) + pd) + 0
    <3>1. KeptFor(a, x)
      BY DEF KeepInv
    <3>2. DueTo(call.owed, a, x) = 0
      BY <1>11, NothingDue
    <3>3. StillHeld(a, x) = old
      BY <1>7 DEF StillHeld
    <3> QED BY <3>1, <3>2, <3>3 DEF KeptFor, k
  <2>3. CreditedTo(deposits', nextUnprocessedDeposit', a, x) = was + dep
    BY <1>2, <1>6, <1>12
  <2>4. StillHeld(a, x)' = new
    BY <1>2, <1>7 DEF StillHeld
  <2>5. DueTo(call'.owed, a, x) = wd + fo
    BY <1>10, <1>11
  <2>6. pe \in Nat /\ pd \in Nat /\ old \in Nat /\ dep \in Nat /\ wd \in Nat /\ fo \in Nat
    BY <1>7, <1>13
  <2>7. pendingWithdrawals'[<<a, x>>] = pe /\ paid'[<<a, x>>] = pd
    BY <1>2, <1>3
  <2> HIDE DEF old, new, was, dep, wd, fo, pe, pd
  <2>8. was + dep = ((new + pe) + pd) + (wd + fo)
    BY <2>1, <2>2, <2>6
  <2>9. KeptFor(a, x)'
    BY <2>3, <2>4, <2>5, <2>7, <2>8 DEF KeptFor
  <2> QED BY <2>1, <2>9 DEF new
<1>15. ClaimsOK'
  <2>1. Len(deposits) \in Nat
    BY <1>8 DEF Amounts
  <2>2. nextUnprocessedDeposit' \in 0..Len(deposits')
    BY <1>2, <1>6, <2>1
  <2> QED BY <1>2, <1>3, <1>7, <1>14, <2>2 DEF ClaimsOK
<1> QED BY <1>11, <1>14, <1>15

\* The host does not touch what is settled.
LEMMA HostKeeps ==
    ASSUME QueuesOK, QueuesOK', Longer(deposits', deposits), CallOK, ClaimsOK,
           \A a \in Ids, x \in Assets : KeptFor(a, x),
           nextUnprocessedDeposit' = nextUnprocessedDeposit, stateRoot' = stateRoot,
           call' = call, escaped' = escaped, escapeMode' = escapeMode,
           pendingWithdrawals' = pendingWithdrawals, paid' = paid
    PROVE  CallOK' /\ ClaimsOK' /\ \A a \in Ids, x \in Assets : KeptFor(a, x)'
<1>1. \A a \in Ids, x \in Assets : StillHeld(a, x)' = StillHeld(a, x)
  BY DEF StillHeld
<1>2. /\ pendingWithdrawals' \in [Ids \X Assets -> Nat] /\ paid' \in [Ids \X Assets -> Nat]
      /\ escaped' # {} => escapeMode'
  BY DEF ClaimsOK
<1>3. ClaimsOK' /\ \A a \in Ids, x \in Assets : KeptFor(a, x)'
  BY <1>1, <1>2, MovingKeeps
<1>4. CallOK'
  BY DEF CallOK
<1> QED BY <1>3, <1>4

\* The invariant is inductive.
LEMMA KeepStep == KeepInv /\ [ExchangeNext]_exchangeVars => KeepInv'
<1> SUFFICES ASSUME KeepInv, [ExchangeNext]_exchangeVars PROVE KeepInv'
  OBVIOUS
<1> DEFINE Kept == \A a \in Ids, x \in Assets : KeptFor(a, x)
<1>1. /\ ExchangeInv /\ HostInv /\ QueuesOK /\ DraftTaken /\ ExactInv
      /\ CallOK /\ ClaimsOK /\ Kept
  BY DEF KeepInv, ExchangeInv
<1>2. ExchangeInv' /\ QueuesOK'
  BY <1>1, ExchangeStep DEF ExchangeInv
<1>3. ExactInv'
  BY <1>1, HostSteps, ExactHostStep
<1>4. \A p \in proofs' : ProofKeeps(p)
  <2>1. CASE ApplyAndProve
    <3>1. stage = "settled" /\ proofs' = proofs \cup {PublicOutput}
      BY <2>1 DEF ApplyAndProve, Apply
    <3>2. ProofKeeps(PublicOutput)
      BY <1>1, <3>1, NewProofKeeps
    <3>3. \A p \in proofs : ProofKeeps(p)
      BY DEF KeepInv
    <3> QED BY <3>1, <3>2, <3>3
  <2>2. CASE ~ApplyAndProve
    <3>1. proofs' = proofs
      <4>1. CASE UNCHANGED exchangeVars
        BY <4>1 DEF exchangeVars, chainVars
      <4>2. CASE UsersAndTime \/ Paying \/ NotPaying
        BY <4>2, OthersLeave
      <4>3. CASE HostOnly
        BY <4>3, HostLeaves
      <4>4. CASE SubmitProof
        BY <4>4 DEF SubmitProof, Chain!SettleStep, Chain!Settle
      <4> QED BY <2>2, <4>1, <4>2, <4>3, <4>4
          DEF ExchangeNext, CollectDeposit, CollectRequest, Sign, CollectWithdrawal, Work, RunBatch
    <3> QED BY <3>1 DEF KeepInv
  <2> QED BY <2>1, <2>2
<1>5. CallOK' /\ ClaimsOK' /\ Kept'
  <2>1. CASE UNCHANGED exchangeVars
    <3>1. /\ nextUnprocessedDeposit' = nextUnprocessedDeposit /\ stateRoot' = stateRoot
          /\ call' = call /\ escaped' = escaped /\ escapeMode' = escapeMode
          /\ pendingWithdrawals' = pendingWithdrawals /\ paid' = paid /\ deposits' = deposits
      BY <2>1 DEF exchangeVars, chainVars, notProofs, chainCursors
    <3>2. Longer(deposits', deposits)
      BY <1>1, <3>1 DEF Longer, QueuesOK
    <3> QED BY <1>1, <1>2, <3>1, <3>2, HostKeeps
  <2>2. CASE ExchangeNext
    <3>1. Longer(deposits', deposits)
      BY <1>1, <2>2, QueuesGrow
    <3>2. CASE HostOnly \/ ApplyAndProve
      <4>1. /\ nextUnprocessedDeposit' = nextUnprocessedDeposit /\ stateRoot' = stateRoot
            /\ call' = call /\ escaped' = escaped /\ escapeMode' = escapeMode
            /\ pendingWithdrawals' = pendingWithdrawals /\ paid' = paid
        BY <3>2 DEF HostOnly, ApplyAndProve, chainVars, notProofs, chainCursors
      <4> QED BY <1>1, <1>2, <3>1, <4>1, HostKeeps
    <3>3. CASE UsersAndTime
      BY <1>1, <1>2, <3>1, <3>3, UsersKeep
    <3>4. CASE SubmitProof
      BY <3>4, SettlingKeeps
    <3>5. CASE Paying \/ NotPaying
      <4>1. /\ CallOK'
            /\ pendingWithdrawals' \in [Ids \X Assets -> Nat] /\ paid' \in [Ids \X Assets -> Nat]
            /\ \A a \in Ids, x \in Assets :
                  (pendingWithdrawals'[<<a, x>>] + paid'[<<a, x>>]) + DueTo(call'.owed, a, x)
                    = (pendingWithdrawals[<<a, x>>] + paid[<<a, x>>]) + DueTo(call.owed, a, x)
        BY <1>1, <3>5, PayingKeeps
      <4>2. nextUnprocessedDeposit' = nextUnprocessedDeposit /\ stateRoot' = stateRoot
        BY <3>5, OthersLeave
      <4>3. escaped' = escaped /\ escapeMode' = escapeMode
        BY <3>5 DEF Paying, NotPaying, Chain!PaySkip, Chain!PaySucceed, Chain!PayFail, Chain!claims
      <4>4. escaped' # {} => escapeMode'
        BY <1>1, <4>3 DEF ClaimsOK
      <4>5. ASSUME NEW a \in Ids, NEW x \in Assets
            PROVE  ((StillHeld(a, x)' + pendingWithdrawals'[<<a, x>>]) + paid'[<<a, x>>])
                      + DueTo(call'.owed, a, x)
                     = ((StillHeld(a, x) + pendingWithdrawals[<<a, x>>]) + paid[<<a, x>>])
                         + DueTo(call.owed, a, x)
        <5>1. StillHeld(a, x)' = StillHeld(a, x) /\ StillHeld(a, x) \in Nat
          BY <1>1, <4>2, <4>3 DEF StillHeld, ClaimsOK
        <5>2. /\ pendingWithdrawals[<<a, x>>] \in Nat /\ pendingWithdrawals'[<<a, x>>] \in Nat
              /\ paid[<<a, x>>] \in Nat /\ paid'[<<a, x>>] \in Nat
          BY <1>1, <4>1 DEF ClaimsOK
        <5>3. DueTo(call.owed, a, x) \in Nat /\ DueTo(call'.owed, a, x) \in Nat
          <6>1. \A owed \in Seq(Chain!Payout) : DueTo(owed, a, x) \in Nat
            BY PayoutAmounts, DuesSum
          <6> QED BY <1>1, <4>1, <6>1 DEF CallOK
        <5>4. (pendingWithdrawals'[<<a, x>>] + paid'[<<a, x>>]) + DueTo(call'.owed, a, x)
                = (pendingWithdrawals[<<a, x>>] + paid[<<a, x>>]) + DueTo(call.owed, a, x)
          BY <4>1
        <5>5. PICK h \in Nat : h = StillHeld(a, x) /\ h = StillHeld(a, x)'
          BY <5>1
        <5> DEFINE n == pendingWithdrawals[<<a, x>>]
                   m == paid[<<a, x>>]
                   d == DueTo(call.owed, a, x)
                   n2 == pendingWithdrawals'[<<a, x>>]
                   m2 == paid'[<<a, x>>]
                   d2 == DueTo(call'.owed, a, x)
        <5> HIDE DEF n, m, d, n2, m2, d2
        <5>6. /\ n \in Nat /\ m \in Nat /\ d \in Nat /\ n2 \in Nat /\ m2 \in Nat /\ d2 \in Nat
              /\ (n2 + m2) + d2 = (n + m) + d
          BY <5>2, <5>3, <5>4 DEF n, m, d, n2, m2, d2
        <5>7. ((h + n2) + m2) + d2 = ((h + n) + m) + d
          BY <5>6
        <5> QED BY <5>5, <5>7 DEF n, m, d, n2, m2, d2
      <4>6. ClaimsOK' /\ Kept'
        BY <1>1, <1>2, <3>1, <4>1, <4>2, <4>4, <4>5, MovingKeeps
      <4> QED BY <4>1, <4>6
    <3> QED BY <2>2, <3>2, <3>3, <3>4, <3>5
        DEF ExchangeNext, CollectDeposit, CollectRequest, Sign, CollectWithdrawal, Work, RunBatch
  <2> QED BY <2>1, <2>2
<1> QED BY <1>2, <1>3, <1>4, <1>5 DEF KeepInv

\* Nobody has anything before the first deposit.
LEMMA KeepStarts == ExchangeInit => KeepInv
<1> SUFFICES ASSUME ExchangeInit PROVE KeepInv
  OBVIOUS
<1>1. /\ stateRoot = [a \in {FeeRecipient} |-> [x \in Assets |-> 0]]
      /\ deposits = <<>> /\ nextUnprocessedDeposit = 0 /\ escaped = {} /\ proofs = {}
      /\ pendingWithdrawals = [p \in Ids \X Assets |-> 0] /\ call = Chain!NoCall
      /\ paid = [p \in Ids \X Assets |-> 0] /\ stage = "building"
  BY DEF ExchangeInit, Chain!Init, OperatorInit
<1>2. call = [kind |-> "none", owed |-> <<>>, entered |-> FALSE]
  BY <1>1 DEF Chain!NoCall
<1>3. CallOK
  BY <1>2 DEF CallOK
<1>4. \A a \in Ids, x \in Assets : Guest!BalanceOf(stateRoot, a, x) = 0
  BY <1>1 DEF Guest!BalanceOf
<1>5. ClaimsOK
  BY <1>1, <1>4 DEF ClaimsOK
<1>6. ASSUME NEW a \in Ids, NEW x \in Assets PROVE KeptFor(a, x)
  <2>1. CreditedTo(deposits, nextUnprocessedDeposit, a, x) = 0
    <3>1. 1..0 = {}
      OBVIOUS
    <3> QED BY <1>1, <3>1, SumEmpty DEF CreditedTo
  <2>2. StillHeld(a, x) = 0
    BY <1>4 DEF StillHeld
  <2>3. pendingWithdrawals[<<a, x>>] = 0 /\ paid[<<a, x>>] = 0
    BY <1>1
  <2>4. DueTo(call.owed, a, x) = 0
    BY <1>2, NothingDue
  <2> QED BY <2>1, <2>2, <2>3, <2>4 DEF KeptFor
<1>7. ExactInv
  BY <1>1 DEF ExactInv
<1> QED BY <1>1, <1>3, <1>5, <1>6, <1>7, ExchangeStarts DEF KeepInv

\* What an account deposited is in the queue, in the settled ledger, in a payout or paid to it,
\* through batches, failed payouts and escapes alike: as long as nobody trades, nobody's money
\* becomes another's (ZkClob.sol:101-147, 268-292, 355-411; deposits.rs:3-36,
\* forced_withdrawals.rs:4-28).
THEOREM ExchangeKeepsTheirs == ExchangeSpec => []EveryoneKeepsTheirs
<1>1. KeepInv => EveryoneKeepsTheirs
  <2> SUFFICES ASSUME KeepInv, NEW a \in Ids, NEW x \in Assets
               PROVE  OfAccount(deposits, a, x)
                        = OfAccount(SubSeq(deposits, nextUnprocessedDeposit + 1, Len(deposits)), a, x)
                          + StillHeld(a, x) + pendingWithdrawals[<<a, x>>] + paid[<<a, x>>]
                          + DueTo(call.owed, a, x)
    BY DEF EveryoneKeepsTheirs, StillHeld, DueTo, Dues
  <2> DEFINE D == [account : Ids, asset : Assets, amount : DepositAmounts]
             k == nextUnprocessedDeposit
             wait == OfAccount(SubSeq(deposits, k + 1, Len(deposits)), a, x)
             held == StillHeld(a, x)
             pe == pendingWithdrawals[<<a, x>>]
             pd == paid[<<a, x>>]
             due == DueTo(call.owed, a, x)
             got == CreditedTo(deposits, k, a, x)
  <2>1. deposits \in Seq(D) /\ k \in 0..Len(deposits) /\ Amounts(deposits)
    BY DepositsAreAmounts DEF KeepInv, ExchangeInv, QueuesOK, ClaimsOK
  <2> HIDE DEF D
  <2>2. OfAccount(deposits, a, x) = wait + got /\ wait \in Nat
    <3> HIDE DEF k
    <3> QED BY <2>1, CreditsAndWaits
  <2>3. got = ((held + pe) + pd) + due
    BY DEF KeepInv, KeptFor
  <2>4. held \in Nat /\ pe \in Nat /\ pd \in Nat
    BY DEF KeepInv, ClaimsOK, StillHeld
  <2>5. due \in Nat
    BY PayoutAmounts, DuesSum DEF KeepInv, CallOK
  <2> HIDE DEF wait, held, pe, pd, due, got
  <2>6. OfAccount(deposits, a, x) = (((wait + held) + pe) + pd) + due
    BY <2>2, <2>3, <2>4, <2>5
  <2> QED BY <2>6 DEF wait, held, pe, pd, due
<1>2. ExchangeSpec => []KeepInv
  BY KeepStarts, KeepStep, PTL DEF ExchangeSpec
<1> QED BY <1>1, <1>2, PTL

-----------------------------------------------------------------------------
(* What is proved of the contract holds of the exchange                    *)

\* The contract, with what ZkClobProofs.tla proves of it for any provers.
Contract == INSTANCE ZkClobProofs WITH
    Accounts <- Ids, Domains <- {"here"}, Here <- "here",
    MaxProofs <- MaxDeposits + MaxRequests, MaxPerBatch <- Limits.deposits, MaxBalance <- MaxAmount

\* The assumptions of ZkClob.tla hold of the parameters the exchange gives it.
LEMMA ContractParameters ==
    /\ /\ Contract!IsFiniteSet(Ids)
       /\ FeeRecipient \in Ids
       /\ Assets # {}
       /\ Configured \subseteq Assets
       /\ "here" \in {"here"}
       /\ AssetOrder \in Seq(Assets)
       /\ \A x \in Assets : \E i \in DOMAIN AssetOrder : AssetOrder[i] = x
       /\ \A i, j \in DOMAIN AssetOrder : AssetOrder[i] = AssetOrder[j] => i = j
    /\ /\ DepositAmounts \subseteq Nat \ {0}
       /\ RequestAmounts \subseteq Nat \ {0}
       /\ WithdrawAmounts \subseteq Nat \ {0}
       /\ {Delay, MaxTime, MaxDeposits, MaxRequests, MaxDeposits + MaxRequests, Limits.deposits,
           MaxAmount} \subseteq Nat
<1>1. 1..MaxAmount \subseteq Nat \ {0} /\ MaxAmount \in Nat
  BY ExchangeAssumption
<1>2. /\ DepositAmounts \subseteq Nat \ {0} /\ RequestAmounts \subseteq Nat \ {0}
      /\ WithdrawAmounts \subseteq Nat \ {0}
  BY <1>1, WholeAssumption
<1>3. MaxDeposits + MaxRequests \in Nat
  BY WholeAssumption
<1>4. Configured \subseteq Assets
  BY ExchangeAssumption DEF Configured
<1>5. Contract!IsFiniteSet(Ids)
  BY WholeAssumption DEF IsFiniteSet, Contract!IsFiniteSet
<1> QED BY <1>1, <1>2, <1>3, <1>4, <1>5, WholeAssumption, OperatorAssumption

\* The two instances of the contract are one.
LEMMA SameSteps ==
    /\ Chain!UserStep => Contract!UserStep
    /\ Chain!SettleStep => Contract!SettleStep
    /\ Chain!PayStep => Contract!PayStep
    /\ Chain!Tick => Contract!Tick
<1> USE DEF Chain!Idle, Contract!Idle, Chain!NoCall, Contract!NoCall, Chain!cursors, Contract!cursors,
        Chain!claims, Contract!claims, Chain!history, Contract!history,
        Chain!nextDepositId, Contract!nextDepositId,
        Chain!nextForcedWithdrawalId, Contract!nextForcedWithdrawalId
<1>1. Chain!Tick => Contract!Tick
  BY DEF Chain!Tick, Contract!Tick
<1>2. \A a, x, n, r : Chain!Deposit(a, x, n, r) => Contract!Deposit(a, x, n, r)
  BY DEF Chain!Deposit, Contract!Deposit
<1>3. Chain!Reenterable => Contract!Reenterable
  BY DEF Chain!Reenterable, Contract!Reenterable
<1>4. \A a, x, n : Chain!RequestForcedWithdrawal(a, x, n) => Contract!RequestForcedWithdrawal(a, x, n)
  BY <1>3 DEF Chain!RequestForcedWithdrawal, Contract!RequestForcedWithdrawal
<1>5. Chain!ActivateEscapeMode => Contract!ActivateEscapeMode
  BY <1>3 DEF Chain!ActivateEscapeMode, Contract!ActivateEscapeMode, Chain!OldestOverdue,
              Contract!OldestOverdue
<1>6. \A l, a : Chain!Leaf(l, a) = Contract!Leaf(l, a)
  BY DEF Chain!Leaf, Contract!Leaf
<1>7. \A a, b : Chain!LeafPayouts(a, b) = Contract!LeafPayouts(a, b)
  BY DEF Chain!LeafPayouts, Contract!LeafPayouts
<1>8. \A a, l : Chain!EscapeWithdraw(a, l) => Contract!EscapeWithdraw(a, l)
  BY <1>6, <1>7 DEF Chain!EscapeWithdraw, Contract!EscapeWithdraw
<1>9. \A a, x : Chain!WithdrawPending(a, x) => Contract!WithdrawPending(a, x)
  BY DEF Chain!WithdrawPending, Contract!WithdrawPending
<1>10. Chain!KnownRoots = Contract!KnownRoots
  BY DEF Chain!KnownRoots, Contract!KnownRoots
<1>11. Chain!UserStep => Contract!UserStep
  BY <1>2, <1>4, <1>5, <1>6, <1>8, <1>9, <1>10 DEF Chain!UserStep, Contract!UserStep
<1>12. \A w, f : Chain!BatchPayouts(w, f) = Contract!BatchPayouts(w, f)
  BY DEF Chain!BatchPayouts, Contract!BatchPayouts
<1>13. \A p, f : Chain!NewForcedCursor(p, f) = Contract!NewForcedCursor(p, f)
  BY DEF Chain!NewForcedCursor, Contract!NewForcedCursor
<1>14. \A q : Chain!Hashed(q) = Contract!Hashed(q)
  BY DEF Chain!Hashed, Contract!Hashed
<1>15. \A p, w, f : Chain!Settle(p, w, f) => Contract!Settle(p, w, f)
  <2> SUFFICES ASSUME NEW p, NEW w, NEW f, Chain!Settle(p, w, f)
               PROVE  Contract!Settle(p, w, f)
    OBVIOUS
  <2>1. Contract!ValidOutput(p) /\ Contract!ValidForcedCursor(p, f)
        /\ Contract!ValidConsumedInputs(p, Contract!NewForcedCursor(p, f))
        /\ Contract!ValidWithdrawals(p, w, f)
    BY <1>13, <1>14 DEF Chain!Settle, Chain!ValidOutput, Contract!ValidOutput, Chain!ValidForcedCursor,
       Contract!ValidForcedCursor, Chain!ValidConsumedInputs, Contract!ValidConsumedInputs,
       Chain!ValidWithdrawals, Contract!ValidWithdrawals
  <2>2. Contract!ApplySettlement(p, w, f)
    BY <1>12, <1>13 DEF Chain!Settle, Chain!ApplySettlement, Contract!ApplySettlement
  <2> QED BY <2>1, <2>2 DEF Chain!Settle, Contract!Settle
<1>16. Chain!SettleStep => Contract!SettleStep
  BY <1>15 DEF Chain!SettleStep, Contract!SettleStep
<1>17. Chain!AfterHead = Contract!AfterHead
  BY DEF Chain!AfterHead, Contract!AfterHead
<1>18. Chain!PayStep => Contract!PayStep
  BY <1>17 DEF Chain!PayStep, Contract!PayStep, Chain!PaySkip, Contract!PaySkip, Chain!PaySucceed,
               Contract!PaySucceed, Chain!PayFail, Contract!PayFail
<1> QED BY <1>1, <1>11, <1>16, <1>18

\* So are the two contracts of the guest.
LEMMA SameAdmits ==
    ASSUME NEW old, NEW deps, NEW requests, NEW taken, NEW wds, NEW new,
           Chain!Admits(old, deps, requests, taken, wds, new)
    PROVE  Contract!Admits(old, deps, requests, taken, wds, new)
<1>1. \A f : Chain!SumFunction(f) = Contract!SumFunction(f)
  BY DEF Chain!SumFunction, Chain!SumFunctionOnSet, Chain!FoldFunctionOnSet, Chain!MapThenFoldSet,
         Contract!SumFunction, Contract!SumFunctionOnSet, Contract!FoldFunctionOnSet,
         Contract!MapThenFoldSet
<1>2. \A list, I, a, x : Chain!MovedBy(list, I, a, x) = Contract!MovedBy(list, I, a, x)
  BY <1>1 DEF Chain!MovedBy, Contract!MovedBy
<1>3. \A list, x : Chain!MovedTotal(list, x) = Contract!MovedTotal(list, x)
  BY <1>1 DEF Chain!MovedTotal, Contract!MovedTotal, Chain!AmountIn, Contract!AmountIn
<1>4. \A l, x : Chain!TotalOf(l, x) = Contract!TotalOf(l, x)
  BY <1>1 DEF Chain!TotalOf, Contract!TotalOf
<1>5. \A o, d, t, i, a, x :
         Chain!AvailableTo(o, d, t, i, a, x) = Contract!AvailableTo(o, d, t, i, a, x)
  BY <1>2 DEF Chain!AvailableTo, Contract!AvailableTo, Chain!BalanceOf, Contract!BalanceOf
<1>6. Contract!Drains(old, deps, requests, taken)
  BY <1>5 DEF Chain!Admits, Chain!Drains, Contract!Drains
<1>7. Contract!Covers(old, deps, taken, wds)
  BY <1>2, <1>5 DEF Chain!Admits, Chain!Covers, Contract!Covers
<1>8. Contract!Conserves(old, deps, taken, wds, new)
  BY <1>3, <1>4 DEF Chain!Admits, Chain!Conserves, Contract!Conserves
<1> QED BY <1>6, <1>7, <1>8 DEF Chain!Admits, Contract!Admits

\* What the host proves is made of entries, withdrawals and a ledger.
LEMMA ProofTypes ==
    ASSUME HostInv, HostInv', ApplyAndProve
    PROVE  /\ PublicOutput.withdrawals \in Seq(Contract!Withdrawal)
           /\ PublicOutput.consumedDeposits \in Seq(Contract!Entry)
           /\ PublicOutput.consumedForcedWithdrawals \in Seq(Contract!Entry)
           /\ PublicOutput.forcedWithdrawals \in Seq(Contract!Entry)
           /\ Contract!IsLedger(PublicOutput.newStateRoot)
<1> DEFINE p == PublicOutput
<1>1. stage = "settled" /\ tree' = Applied(tree, output.accounts)
  BY DEF ApplyAndProve, Apply
<1>2. /\ Accepted /\ BatchIn(input) /\ DrainedInTurn(input, drained)
      /\ output.newRoot = tree' /\ output.forced = drained /\ output.withdrawals = input.withdrawals
  BY <1>1, BatchOfDraft DEF Accepted
<1>3. /\ p.consumedDeposits = Entries(input.deposits)
      /\ p.consumedForcedWithdrawals = Entries(input.forced)
      /\ p.forcedWithdrawals = Entries(drained)
      /\ p.withdrawals = Signed(input.withdrawals)
      /\ p.newStateRoot = Ledger(tree')
  BY <1>2 DEF PublicOutput
<1> HIDE DEF p
<1>4. ASSUME NEW list, NamedList(list)
      PROVE  Entries(list) \in Seq(Contract!Entry)
  <2>1. Len(list) \in Nat /\ DOMAIN list = 1..Len(list)
    BY <1>4 DEF NamedList, Amounts
  <2>2. \A i \in 1..Len(list) : [account |-> list[i].account, asset |-> list[i].asset,
                                 amount |-> list[i].amount] \in Contract!Entry
    BY <1>4, <2>1 DEF NamedList, Amounts, Contract!Entry
  <2>3. Entries(list) = [i \in 1..Len(list) |-> [account |-> list[i].account,
                           asset |-> list[i].asset, amount |-> list[i].amount]]
    BY <2>1 DEF Entries
  <2> QED BY <2>1, <2>2, <2>3
<1>5. NamedList(input.deposits) /\ NamedList(drained)
  BY <1>2, BatchNames
<1>6. NamedList(input.forced)
  <2>1. input.forced \in Seq(QueueEntry) /\ \A n \in 0..MaxAmount : n \in Nat
    BY <1>2, ExchangeAssumption DEF BatchIn
  <2>2. \A e \in QueueEntry : e.account \in Ids /\ e.asset \in Assets /\ e.amount \in Nat
    BY <2>1 DEF QueueEntry
  <2>3. /\ Len(input.forced) \in Nat /\ DOMAIN input.forced = 1..Len(input.forced)
        /\ \A i \in DOMAIN input.forced : input.forced[i] \in QueueEntry
    BY <2>1
  <2> QED BY <2>2, <2>3 DEF NamedList, Amounts
<1>7. Signed(input.withdrawals) \in Seq(Contract!Withdrawal)
  <2> DEFINE list == input.withdrawals
  <2>1. list \in Seq(WithdrawalEntry) /\ \A n \in 0..MaxAmount : n \in Nat
    BY <1>2, ExchangeAssumption DEF BatchIn
  <2>2. \A e \in WithdrawalEntry :
           [account |-> e.account, recipient |-> e.recipient, asset |-> e.asset,
            amount |-> e.amount] \in Contract!Withdrawal
    BY <2>1 DEF WithdrawalEntry, Contract!Withdrawal
  <2>3. /\ Len(list) \in Nat /\ DOMAIN list = 1..Len(list)
        /\ \A i \in DOMAIN list : list[i] \in WithdrawalEntry
    BY <2>1
  <2>4. Signed(list) = [i \in 1..Len(list) |->
                          [account |-> list[i].account, recipient |-> list[i].recipient,
                           asset |-> list[i].asset, amount |-> list[i].amount]]
    BY <2>3 DEF Signed
  <2> HIDE DEF list
  <2>5. Signed(list) \in Seq(Contract!Withdrawal)
    BY <2>2, <2>3, <2>4
  <2> QED BY <2>5 DEF list
<1>8. Contract!IsLedger(Ledger(tree'))
  <2>1. AccountsOK(tree')
    BY DEF HostInv
  <2>2. DOMAIN tree' \subseteq Ids /\ tree' \in [DOMAIN tree' -> RawAccount]
    BY <2>1 DEF AccountsOK
  <2>3. ASSUME NEW id \in DOMAIN tree', NEW x \in Assets
        PROVE  Balance(tree'[id], x) \in Nat
    <3>1. tree'[id] \in RawAccount
      BY <2>2
    <3>2. PICK held \in SUBSET Assets : tree'[id].balances \in [held -> 0..MaxAmount]
      BY <3>1 DEF RawAccount
    <3> QED BY <3>2, ExchangeAssumption DEF Balance
  <2> QED BY <2>2, <2>3 DEF Ledger, Contract!IsLedger, Contract!Balances
<1> QED BY <1>3, <1>4, <1>5, <1>6, <1>7, <1>8 DEF p

\* The proof the host makes is one that a prover of the contract may make.
LEMMA ProvingIsProve ==
    ASSUME ExchangeInv, HostInv', ApplyAndProve
    PROVE  Contract!ProveAny
<1> DEFINE p == PublicOutput
<1>1. ProveStep
  BY ProvingIsProveStep
<1>2. PICK base \in Chain!Bases :
         Chain!ProveFrom(base, "here", p.withdrawals, p.consumedDeposits,
                         p.consumedForcedWithdrawals, p.forcedWithdrawals, p.newStateRoot)
  BY <1>1 DEF ProveStep
<1>3. UNCHANGED notProofs
  BY <1>1 DEF ProveStep
<1>4. /\ p.withdrawals \in Seq(Contract!Withdrawal) /\ p.consumedDeposits \in Seq(Contract!Entry)
      /\ p.consumedForcedWithdrawals \in Seq(Contract!Entry)
      /\ p.forcedWithdrawals \in Seq(Contract!Entry) /\ Contract!IsLedger(p.newStateRoot)
  BY ProofTypes DEF ExchangeInv
<1> HIDE DEF p
<1>5. base \in Contract!Bases
  BY <1>2 DEF Chain!Bases, Contract!Bases
<1>6. Contract!ProveFrom(base, "here", p.withdrawals, p.consumedDeposits,
                         p.consumedForcedWithdrawals, p.forcedWithdrawals, p.newStateRoot)
  BY <1>2, SameAdmits DEF Chain!ProveFrom, Contract!ProveFrom, Chain!BatchOutput, Contract!BatchOutput
<1>7. UNCHANGED <<now, stateRoot, Contract!cursors, deposits, forcedWithdrawalRequests, escapeMode,
                  Contract!claims, call, Contract!history>>
  BY <1>3 DEF notProofs, chainCursors, Contract!cursors, Contract!claims, Contract!history
<1> QED BY <1>4, <1>5, <1>6, <1>7 DEF Contract!ProveAny

\* The exchange is the contract with provers who prove whatever they like among what the
\* contract of the guest admits: what ZkClobProofs.tla proves of that, it proves of the exchange.
THEOREM ExchangeRefinesContract == ExchangeSpec => Contract!AnySpec
<1>1. ExchangeInit => Contract!Init
  BY DEF ExchangeInit, Chain!Init, Contract!Init, Chain!NoCall, Contract!NoCall
<1>2. ExchangeInv /\ ExchangeInv' /\ [ExchangeNext]_exchangeVars => [Contract!AnyNext]_(Contract!vars)
  <2> SUFFICES ASSUME ExchangeInv, ExchangeInv', [ExchangeNext]_exchangeVars
               PROVE  Contract!AnyNext \/ UNCHANGED Contract!vars
    OBVIOUS
  <2> DEFINE Idles == UNCHANGED Contract!vars
  <2>1. UNCHANGED chainVars => Idles
    BY DEF chainVars, notProofs, chainCursors, Contract!vars, Contract!cursors, Contract!claims,
           Contract!history
  <2> HIDE DEF Idles
  <2>2. CASE CollectDeposit \/ CollectRequest \/ Sign
    <3>1. UNCHANGED chainVars
      BY <2>2 DEF CollectDeposit, CollectRequest, Sign, CollectWithdrawal, HostOnly
    <3> QED BY <2>1, <3>1 DEF Idles
  <2>3. CASE Work
    <3>1. CASE RunBatch
      BY <2>1, <3>1 DEF RunBatch, HostOnly, Idles
    <3>2. CASE ApplyAndProve
      BY <3>2, ProvingIsProve DEF ExchangeInv, Contract!AnyNext
    <3> QED BY <2>3, <3>1, <3>2 DEF Work
  <2>4. CASE UsersAndTime
    BY <2>4, SameSteps DEF UsersAndTime, Contract!AnyNext
  <2>5. CASE SubmitProof
    BY <2>5, SameSteps DEF SubmitProof, Contract!AnyNext
  <2>6. CASE Paying \/ NotPaying
    BY <2>6, SameSteps DEF Paying, NotPaying, Chain!PayStep, Contract!AnyNext
  <2>7. CASE UNCHANGED exchangeVars
    BY <2>1, <2>7 DEF exchangeVars, Idles
  <2> QED BY <2>2, <2>3, <2>4, <2>5, <2>6, <2>7 DEF ExchangeNext
<1> QED BY ExchangeHolds, <1>1, <1>2, PTL DEF ExchangeSpec, Contract!AnySpec

\* Behind the guest and the host of the code the contract holds of each asset exactly what it
\* owes, and nobody with a payout, a claim or a leaf finds it short: solvency of the whole, of
\* which nothing is assumed but that a proof is of a batch the guest accepted
\* (ZkClob.sol:101-147, 268-292, 355-412; mod.rs:30-141).
THEOREM ExchangeIsSolvent == ExchangeSpec => [](Contract!Backed /\ Contract!ClaimsCovered)
<1>1. Contract!AnySpec => []Contract!Backed
  BY ContractParameters, Contract!AnySolvent
<1>2. Contract!AnySpec => []Contract!ClaimsCovered
  BY ContractParameters, Contract!AnyCovered
<1> QED BY <1>1, <1>2, ExchangeRefinesContract, PTL

\* The batches of the host consume both queues of the contract in order, each entry once and
\* none after escape mode, which is final and open as soon as any request is overdue
\* (ZkClob.sol:91-99, 149-292; batch_builder.rs:57-112).
THEOREM ExchangeConsumesInOrder ==
    ExchangeSpec => /\ [](Contract!ExactlyOnce /\ Contract!OverdueIsActionable)
                    /\ Contract!DepositsTakenInOrder /\ Contract!RequestsTakenInOrder
                    /\ Contract!EscapeIsFinal
<1>1. Contract!AnySpec => []Contract!ExactlyOnce
  BY ContractParameters, Contract!AnyConsumesOnce
<1>2. Contract!AnySpec => []Contract!OverdueIsActionable
  BY ContractParameters, Contract!AnyOldestFirst
<1>3. Contract!AnySpec => Contract!DepositsTakenInOrder
  BY ContractParameters, Contract!AnyDepositQueue
<1>4. Contract!AnySpec => Contract!RequestsTakenInOrder
  BY ContractParameters, Contract!AnyRequestQueue
<1>5. Contract!AnySpec => Contract!EscapeIsFinal
  BY ContractParameters, Contract!AnyEscapeFinal
<1> QED BY <1>1, <1>2, <1>3, <1>4, <1>5, ExchangeRefinesContract, PTL
===============================================================================
