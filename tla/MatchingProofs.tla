---------------------------- MODULE MatchingProofs ----------------------------
(***************************************************************************)
(* The matching engine of the guest, for every list of accounts and every  *)
(* set of validated books: what a sweep of the books does to the orders,   *)
(* and what a trade does to the accounts.                                  *)
(***************************************************************************)
EXTENDS Matching, SequenceTheorems, SumTheorems

Moves == INSTANCE FoldTheorems WITH Step <- ThenMove

(* Accounts and moves *)

\* The balances of an account: no zero is kept and u128 holds them.
Holdings == UNION {[held -> 1..MaxAmount] : held \in SUBSET Assets}

AnAccount == [id : Int, balances : Holdings, nonce : Nat]

AMove == [op : {"debit", "credit"}, index : Nat, asset : Assets, amount : Nat]

\* What a move does to the balance of asset x of the account it names.
Moved(m, x) == IF m.asset # x THEN 0 ELSE IF m.op = "debit" THEN -m.amount ELSE m.amount

\* What balances are, asset by asset.
LEMMA HoldingsAre ==
    ASSUME NEW b
    PROVE  b \in Holdings <=> /\ DOMAIN b \in SUBSET Assets
                              /\ b \in [DOMAIN b -> 1..MaxAmount]
<1>1. ASSUME b \in Holdings PROVE DOMAIN b \in SUBSET Assets /\ b \in [DOMAIN b -> 1..MaxAmount]
  <2>1. PICK held \in SUBSET Assets : b \in [held -> 1..MaxAmount]
    BY <1>1 DEF Holdings
  <2>2. DOMAIN b = held
    BY <2>1
  <2> QED BY <2>1, <2>2
<1>2. ASSUME DOMAIN b \in SUBSET Assets, b \in [DOMAIN b -> 1..MaxAmount] PROVE b \in Holdings
  <2> DEFINE held == DOMAIN b
  <2>1. held \in SUBSET Assets /\ b \in [held -> 1..MaxAmount]
    BY <1>2
  <2> HIDE DEF held
  <2> QED BY <2>1 DEF Holdings
<1> QED BY <1>1, <1>2

\* A balance is an unsigned number the code can hold.
LEMMA BalanceType ==
    ASSUME NEW a \in AnAccount, NEW x
    PROVE  /\ Balance(a, x) \in 0..MaxAmount /\ Balance(a, x) \in Nat
           /\ x \in DOMAIN a.balances => Balance(a, x) = a.balances[x] /\ Balance(a, x) # 0
           /\ x \notin DOMAIN a.balances => Balance(a, x) = 0
<1>1. a.balances \in Holdings
  BY DEF AnAccount
<1>2. a.balances \in [DOMAIN a.balances -> 1..MaxAmount]
  BY <1>1, HoldingsAre
<1>3. MaxAmount \in Nat
  BY ExchangeAssumption
<1> QED BY <1>2, <1>3 DEF Balance

\* Setting a balance changes no other and never leaves a zero behind.
LEMMA SetBalanceType ==
    ASSUME NEW a \in AnAccount, NEW x \in Assets, NEW n \in 0..MaxAmount
    PROVE  /\ SetBalance(a, x, n) \in AnAccount
           /\ SetBalance(a, x, n).id = a.id /\ SetBalance(a, x, n).nonce = a.nonce
           /\ Balance(SetBalance(a, x, n), x) = n
           /\ \A y : y # x => Balance(SetBalance(a, x, n), y) = Balance(a, y)
<1> DEFINE old == a.balances
           held == IF n = 0 THEN DOMAIN old \ {x} ELSE DOMAIN old \cup {x}
           new == [y \in held |-> IF y = x THEN n ELSE old[y]]
<1>1. a = [id |-> a.id, balances |-> old, nonce |-> a.nonce] /\ a.id \in Int /\ a.nonce \in Nat
      /\ old \in Holdings
  BY DEF AnAccount
<1>2. DOMAIN old \in SUBSET Assets /\ old \in [DOMAIN old -> 1..MaxAmount]
  BY <1>1, HoldingsAre
<1>3. SetBalance(a, x, n) = [id |-> a.id, balances |-> new, nonce |-> a.nonce]
  BY <1>1 DEF SetBalance
<1>4. DOMAIN new = held /\ held \in SUBSET Assets
  BY <1>2
<1>5. MaxAmount \in Nat
  BY ExchangeAssumption
<1>6. new \in [held -> 1..MaxAmount]
  BY <1>2, <1>5
<1>7. new \in Holdings
  BY <1>4, <1>6, HoldingsAre
<1>8. SetBalance(a, x, n) \in AnAccount
  BY <1>1, <1>3, <1>7 DEF AnAccount
<1>9. SetBalance(a, x, n).balances = new
  BY <1>3
<1>10. Balance(SetBalance(a, x, n), x) = n
  BY <1>9, <1>4 DEF Balance
<1>11. \A y : y # x => Balance(SetBalance(a, x, n), y) = Balance(a, y)
  BY <1>9, <1>4 DEF Balance
<1> QED BY <1>3, <1>8, <1>10, <1>11

\* One move changes one balance of one account, by its amount.
LEMMA MoveEffect ==
    ASSUME NEW accs \in Seq(AnAccount), NEW m \in AMove, m.index \in DOMAIN accs,
           NEW new \in ApplyMove(accs, m)
    PROVE  /\ new \in Seq(AnAccount) /\ DOMAIN new = DOMAIN accs /\ Len(new) = Len(accs)
           /\ \A i \in DOMAIN accs :
                 /\ new[i].id = accs[i].id /\ new[i].nonce = accs[i].nonce
                 /\ \A y : Balance(new[i], y)
                             = Balance(accs[i], y) + (IF i = m.index THEN Moved(m, y) ELSE 0)
<1> DEFINE k == m.index
           x == m.asset
           acc == accs[k]
<1>1. k \in DOMAIN accs /\ acc \in AnAccount /\ x \in Assets /\ m.amount \in Nat
      /\ m.op \in {"debit", "credit"}
  BY DEF AMove
<1>2. PICK a \in (IF m.op = "debit" THEN Debit(acc, x, m.amount) ELSE Credit(acc, x, m.amount)) :
         new = [accs EXCEPT ![k] = a]
  BY DEF ApplyMove
<1>3. MaxAmount \in Nat
  BY ExchangeAssumption
<1>4. Balance(acc, x) \in 0..MaxAmount /\ Balance(acc, x) \in Nat /\ \A y : Balance(acc, y) \in Nat
  BY <1>1, BalanceType
<1> DEFINE n == Balance(acc, x) + Moved(m, x)
<1>5. \/ a = SetBalance(acc, x, n) /\ n \in 0..MaxAmount
      \/ a = acc /\ n = Balance(acc, x)
  <2>1. CASE m.op = "debit"
    <3>1. x \in DOMAIN acc.balances /\ m.amount =< acc.balances[x]
          /\ a = SetBalance(acc, x, acc.balances[x] - m.amount)
      BY <1>2, <2>1 DEF Debit
    <3>2. Balance(acc, x) = acc.balances[x] /\ Moved(m, x) = -m.amount
      BY <2>1, <3>1 DEF Balance, Moved
    <3>3. n = acc.balances[x] - m.amount
      BY <1>1, <1>4, <3>2
    <3> QED BY <1>1, <1>3, <1>4, <3>1, <3>2, <3>3
  <2>2. CASE m.op = "credit"
    <3>1. Moved(m, x) = m.amount
      BY <2>2 DEF Moved
    <3>2. CASE m.amount = 0
      BY <1>2, <1>4, <2>2, <3>1, <3>2 DEF Credit
    <3>3. CASE m.amount # 0
      BY <1>1, <1>2, <1>3, <1>4, <2>2, <3>1, <3>3 DEF Credit
    <3> QED BY <3>2, <3>3
  <2> QED BY <1>1, <2>1, <2>2
<1>6. /\ a \in AnAccount /\ a.id = acc.id /\ a.nonce = acc.nonce
      /\ Balance(a, x) = n /\ \A y : y # x => Balance(a, y) = Balance(acc, y)
  <2> HIDE DEF n, acc, x
  <2>1. CASE a = SetBalance(acc, x, n) /\ n \in 0..MaxAmount
    BY <1>1, <2>1, SetBalanceType
  <2>2. CASE a = acc /\ n = Balance(acc, x)
    BY <1>1, <2>2
  <2> QED BY <1>5, <2>1, <2>2
<1>7. new \in Seq(AnAccount) /\ DOMAIN new = DOMAIN accs /\ Len(new) = Len(accs)
  BY <1>1, <1>2, <1>6
<1>8. ASSUME NEW i \in DOMAIN accs
      PROVE  /\ new[i].id = accs[i].id /\ new[i].nonce = accs[i].nonce
             /\ \A y : Balance(new[i], y)
                         = Balance(accs[i], y) + (IF i = k THEN Moved(m, y) ELSE 0)
  <2>1. CASE i = k
    <3>1. new[i] = a
      BY <1>2, <1>8, <2>1
    <3>2. ASSUME NEW y PROVE Balance(a, y) = Balance(acc, y) + Moved(m, y)
      <4>1. CASE y = x
        BY <1>6, <4>1
      <4>2. CASE y # x
        <5>1. Moved(m, y) = 0
          BY <4>2 DEF Moved
        <5> QED BY <1>4, <1>6, <4>2, <5>1
      <4> QED BY <4>1, <4>2
    <3> QED BY <1>6, <2>1, <3>1, <3>2
  <2>2. CASE i # k
    <3>1. new[i] = accs[i] /\ accs[i] \in AnAccount
      BY <1>2, <1>8, <2>2
    <3>2. \A y : Balance(accs[i], y) \in Nat
      BY <3>1, BalanceType
    <3>3. \A y : Balance(accs[i], y) + 0 = Balance(accs[i], y)
      BY <3>2
    <3> QED BY <2>2, <3>1, <3>3
  <2> QED BY <2>1, <2>2
<1> QED BY <1>7, <1>8

\* What a list holds of an asset is the sum over its accounts.
LEMMA HeldIsSum ==
    ASSUME NEW accs \in Seq(AnAccount), NEW x
    PROVE  LET f == [i \in DOMAIN accs |-> Balance(accs[i], x)]
           IN  /\ Held(accs, x) = SumFunctionOnSet(f, DOMAIN accs)
               /\ \A i \in DOMAIN accs : f[i] = Balance(accs[i], x) /\ f[i] \in Nat
               /\ IsFiniteSet(DOMAIN accs)
<1> DEFINE f == [i \in DOMAIN accs |-> Balance(accs[i], x)]
<1>1. DOMAIN f = DOMAIN accs
  OBVIOUS
<1>2. Held(accs, x) = SumFunctionOnSet(f, DOMAIN accs)
  BY <1>1 DEF Held, SumFunction
<1>3. \A i \in DOMAIN accs : f[i] = Balance(accs[i], x) /\ f[i] \in Nat
  BY BalanceType
<1>4. IsFiniteSet(DOMAIN accs)
  <2>1. DOMAIN accs = 1..Len(accs) /\ Len(accs) \in Nat
    OBVIOUS
  <2> QED BY <2>1, FS_Interval
<1> QED BY <1>2, <1>3, <1>4

\* It is a natural number.
LEMMA HeldType ==
    ASSUME NEW accs \in Seq(AnAccount), NEW x
    PROVE  Held(accs, x) \in Nat
<1> DEFINE f == [i \in DOMAIN accs |-> Balance(accs[i], x)]
<1>1. /\ Held(accs, x) = SumFunctionOnSet(f, DOMAIN accs) /\ IsFiniteSet(DOMAIN accs)
      /\ \A i \in DOMAIN accs : f[i] \in Nat
  BY HeldIsSum
<1> HIDE DEF f
<1> QED BY <1>1, SumNat

\* One move changes what the list holds by its amount.
LEMMA MoveHeld ==
    ASSUME NEW accs \in Seq(AnAccount), NEW m \in AMove, m.index \in DOMAIN accs,
           NEW new \in ApplyMove(accs, m), NEW x
    PROVE  Held(new, x) = Held(accs, x) + Moved(m, x)
<1> DEFINE I == DOMAIN accs
           k == m.index
           f == [i \in DOMAIN accs |-> Balance(accs[i], x)]
           g == [i \in DOMAIN new |-> Balance(new[i], x)]
<1>1. /\ new \in Seq(AnAccount) /\ DOMAIN new = I
      /\ \A i \in I : Balance(new[i], x)
                        = Balance(accs[i], x) + (IF i = k THEN Moved(m, x) ELSE 0)
  BY MoveEffect
<1>2. /\ Held(accs, x) = SumFunctionOnSet(f, I) /\ IsFiniteSet(I)
      /\ \A i \in I : f[i] = Balance(accs[i], x) /\ f[i] \in Nat
  BY HeldIsSum
<1>3. /\ Held(new, x) = SumFunctionOnSet(g, I)
      /\ \A i \in I : g[i] = Balance(new[i], x) /\ g[i] \in Nat
  BY <1>1, HeldIsSum
<1>4. k \in I /\ Moved(m, x) \in Int
  BY DEF Moved, AMove
<1> HIDE DEF f, g, I, k
<1>5. ASSUME NEW i \in I
      PROVE  f[i] \in Int /\ g[i] \in Int /\ (i # k => g[i] = f[i])
  BY <1>1, <1>2, <1>3
<1>6. SumFunctionOnSet(g, I) = SumFunctionOnSet(f, I) - f[k] + g[k]
  BY <1>2, <1>4, <1>5, SumChange
<1>7. g[k] = f[k] + Moved(m, x)
  BY <1>1, <1>2, <1>3, <1>4
<1>8. Held(accs, x) \in Nat /\ f[k] \in Nat
  BY <1>2, <1>4, HeldType
<1> QED BY <1>2, <1>3, <1>4, <1>6, <1>7, <1>8

\* The accounts of a list are the same people, in the same places, with the same nonces.
SamePeople(accs, new) ==
    /\ DOMAIN new = DOMAIN accs /\ Len(new) = Len(accs)
    /\ \A i \in DOMAIN accs : new[i].id = accs[i].id /\ new[i].nonce = accs[i].nonce

\* What the guest accepts as a witness is kept by whatever changes balances only.
LEMMA StaysCanonical ==
    ASSUME NEW accs \in Seq(AnAccount), Canonical(accs),
           NEW new \in Seq(AnAccount), SamePeople(accs, new)
    PROVE  Canonical(new)
<1>1. \A i \in 1..(Len(new) - 1) : new[i].id < new[i + 1].id
  <2>1. DOMAIN accs = 1..Len(accs) /\ Len(accs) \in Nat
    OBVIOUS
  <2> QED BY <2>1 DEF SamePeople, Canonical
<1>2. ASSUME NEW i \in DOMAIN new, NEW x \in DOMAIN new[i].balances
      PROVE  new[i].balances[x] # 0
  <2>1. new[i] \in AnAccount
    BY <1>2
  <2> QED BY <2>1, BalanceType
<1> QED BY <1>1, <1>2 DEF Canonical

\* The results of a list of moves are those of its turns, one after the other.
LEMMA ApplyMovesIsFold ==
    ASSUME NEW accs, NEW moves
    PROVE  ApplyMoves(accs, moves) = Moves!Fold({accs}, moves)
BY DEF ApplyMoves, FoldLeft, MapThenFoldSet, Max, Moves!Fold, Moves!FoldLeft,
       Moves!MapThenFoldSet, Moves!Max

\* No moves leave the list as it is.
LEMMA ApplyMovesNone ==
    ASSUME NEW accs, NEW new \in ApplyMoves(accs, <<>>)
    PROVE  new = accs
<1>1. Moves!Fold({accs}, <<>>) = {accs}
  BY Moves!FoldEmpty
<1> QED BY <1>1, ApplyMovesIsFold

\* Being the same people is kept from list to list.
LEMMA StillSamePeople ==
    ASSUME NEW s, NEW t, NEW u, SamePeople(s, t), SamePeople(t, u)
    PROVE  SamePeople(s, u)
BY DEF SamePeople

\* One move keeps the people and the form of the list.
LEMMA MoveKeeps ==
    ASSUME NEW accs \in Seq(AnAccount), NEW m \in AMove, m.index \in DOMAIN accs,
           NEW new \in ApplyMove(accs, m)
    PROVE  new \in Seq(AnAccount) /\ SamePeople(accs, new)
BY MoveEffect DEF SamePeople

\* The moves keep the people of the list and change what it holds of x by n.
Shifts(accs, moves, x, n) ==
    \A a \in ApplyMoves(accs, moves) :
        a \in Seq(AnAccount) /\ SamePeople(accs, a) /\ Held(a, x) = Held(accs, x) + n

\* One move more, the way settle_trade and apply_withdrawals make them.
LEMMA OneMoreMove ==
    ASSUME NEW accs \in Seq(AnAccount), NEW moves, NEW longer, NEW m \in AMove,
           ApplyMoves(accs, longer) = ThenMove(ApplyMoves(accs, moves), m),
           m.index \in DOMAIN accs, NEW x, NEW n \in Int, Shifts(accs, moves, x, n)
    PROVE  Shifts(accs, longer, x, n + Moved(m, x))
<1> SUFFICES ASSUME NEW new \in ApplyMoves(accs, longer)
             PROVE  /\ new \in Seq(AnAccount) /\ SamePeople(accs, new)
                    /\ Held(new, x) = Held(accs, x) + (n + Moved(m, x))
  BY DEF Shifts
<1>1. PICK a \in ApplyMoves(accs, moves) : new \in ApplyMove(a, m)
  BY DEF ThenMove
<1>2. a \in Seq(AnAccount) /\ SamePeople(accs, a) /\ Held(a, x) = Held(accs, x) + n
  BY <1>1 DEF Shifts
<1>3. m.index \in DOMAIN a
  BY <1>2 DEF SamePeople
<1>4. new \in Seq(AnAccount) /\ SamePeople(a, new)
  BY <1>1, <1>2, <1>3, MoveKeeps
<1>5. SamePeople(accs, new)
  BY <1>2, <1>4, StillSamePeople
<1>6. Held(new, x) = Held(a, x) + Moved(m, x)
  BY <1>1, <1>2, <1>3, MoveHeld
<1>7. Moved(m, x) \in Int /\ Held(accs, x) \in Nat
  BY HeldType DEF Moved, AMove
<1> QED BY <1>2, <1>4, <1>5, <1>6, <1>7

\* What the moves of a list change asset x by, position by position.
MovedAt(moves, x) == [i \in DOMAIN moves |-> Moved(moves[i], x)]

\* A list of moves keeps the people and changes what they hold by the sum of its amounts.
LEMMA MovesShift ==
    ASSUME NEW accs \in Seq(AnAccount), NEW x, NEW moves \in Seq(AMove),
           \A i \in DOMAIN moves : moves[i].index \in DOMAIN accs
    PROVE  Shifts(accs, moves, x, SumFunctionOnSet(MovedAt(moves, x), 1..Len(moves)))
<1> DEFINE n == Len(moves)
           f == MovedAt(moves, x)
           Part(p) == SubSeq(moves, 1, p)
           Sum(p) == SumFunctionOnSet(f, 1..p)
           Q == {p \in 0..n : Shifts(accs, Part(p), x, Sum(p))}
<1>0. n \in Nat /\ DOMAIN moves = 1..n
  OBVIOUS
<1>1. ASSUME NEW i \in 1..n
      PROVE  moves[i] \in AMove /\ moves[i].index \in DOMAIN accs
             /\ f[i] = Moved(moves[i], x) /\ f[i] \in Int
  <2>1. moves[i] \in AMove
    BY <1>0
  <2>2. Moved(moves[i], x) \in Int
    BY <2>1 DEF Moved, AMove
  <2> QED BY <1>0, <2>1, <2>2 DEF MovedAt
<1>2. 0 \in Q
  <2>1. Moves!Fold({accs}, Part(0)) = {accs}
    BY Moves!FoldEnds
  <2>2. Sum(0) = 0
    <3>1. 1..0 = {}
      OBVIOUS
    <3> QED BY <3>1, SumEmpty
  <2>3. \A a \in ApplyMoves(accs, Part(0)) : a = accs
    BY <2>1, ApplyMovesIsFold
  <2>4. Held(accs, x) = Held(accs, x) + 0
    BY HeldType
  <2>5. Shifts(accs, Part(0), x, 0)
    BY <2>3, <2>4 DEF Shifts, SamePeople
  <2>6. 0 \in 0..n
    BY <1>0
  <2> QED BY <2>2, <2>5, <2>6
<1>3. ASSUME NEW p \in 0..(n - 1), p \in Q PROVE p + 1 \in Q
  <2>1. p + 1 \in 1..n /\ p \in Nat /\ 1..p \subseteq 1..n /\ p + 1 \notin 1..p
        /\ 1..(p + 1) = (1..p) \cup {p + 1}
    BY <1>0
  <2>2. Moves!Fold({accs}, Part(p + 1)) = ThenMove(Moves!Fold({accs}, Part(p)), moves[p + 1])
    BY Moves!FoldPrefix
  <2>3. ApplyMoves(accs, Part(p + 1)) = ThenMove(ApplyMoves(accs, Part(p)), moves[p + 1])
    BY <2>2, ApplyMovesIsFold
  <2> HIDE DEF f, n, Part
  <2>4. IsFiniteSet(1..p)
    BY <2>1, FS_Interval
  <2>5. \A i \in (1..p) \cup {p + 1} : f[i] \in Int
    BY <1>1, <2>1
  <2>6. Sum(p) \in Int
    BY <2>4, <2>5, SumInt
  <2>7. Sum(p + 1) = f[p + 1] + Sum(p)
    BY <2>1, <2>4, <2>5, SumAdd
  <2>8. Shifts(accs, Part(p), x, Sum(p))
    BY <1>3
  <2>9. Shifts(accs, Part(p + 1), x, Sum(p) + Moved(moves[p + 1], x))
    <3> HIDE DEF Sum
    <3> QED BY <1>1, <2>1, <2>3, <2>6, <2>8, OneMoreMove
  <2>10. Sum(p + 1) = Sum(p) + Moved(moves[p + 1], x)
    BY <1>1, <2>1, <2>6, <2>7
  <2> HIDE DEF Sum
  <2>11. p + 1 \in 0..n
    BY <1>0, <2>1
  <2> QED BY <2>9, <2>10, <2>11
<1>4. n \in Q
  <2> HIDE DEF Q, n
  <2> QED BY <1>0, <1>2, <1>3, CountingInduction
<1>5. Part(n) = moves
  BY Moves!FoldEnds
<1> QED BY <1>4, <1>5

\* Five positions, no two the same.
Five(a, b, c, d, e) == {a, b, c, d, e}

Different(a, b, c, d, e) ==
    b # a /\ c \notin {a, b} /\ d \notin {a, b, c} /\ e \notin {a, b, c, d}

\* A sum over five positions.
LEMMA SumFive ==
    ASSUME NEW f, NEW a, NEW b, NEW c, NEW d, NEW e, Different(a, b, c, d, e),
           f[a] \in Int, f[b] \in Int, f[c] \in Int, f[d] \in Int, f[e] \in Int
    PROVE  SumFunctionOnSet(f, Five(a, b, c, d, e)) = f[a] + f[b] + f[c] + f[d] + f[e]
<1>0. b # a /\ c \notin {a, b} /\ d \notin {a, b, c} /\ e \notin {a, b, c, d}
  BY DEF Different
<1> DEFINE one   == {a}
           two   == one \cup {b}
           three == two \cup {c}
           four  == three \cup {d}
           five  == four \cup {e}
<1>1. five = Five(a, b, c, d, e)
  BY DEF Five
<1>2. \A i \in five : f[i] \in Int
  OBVIOUS
<1>3. IsFiniteSet(one) /\ SumFunctionOnSet(f, one) = f[a]
  BY SumSingle, FS_Singleton
<1>4. IsFiniteSet(two) /\ SumFunctionOnSet(f, two) = f[a] + f[b]
  <2>1. b \notin one /\ \A i \in one \cup {b} : f[i] \in Int
    BY <1>0, <1>2
  <2> HIDE DEF one
  <2>2. IsFiniteSet(two)
    BY <1>3, FS_AddElement
  <2>3. SumFunctionOnSet(f, two) = f[b] + SumFunctionOnSet(f, one)
    BY <1>3, <2>1, SumAdd
  <2> QED BY <1>3, <2>2, <2>3
<1>5. IsFiniteSet(three) /\ SumFunctionOnSet(f, three) = f[a] + f[b] + f[c]
  <2>1. c \notin two /\ \A i \in two \cup {c} : f[i] \in Int
    BY <1>0, <1>2
  <2> HIDE DEF two
  <2>2. IsFiniteSet(three)
    BY <1>4, FS_AddElement
  <2>3. SumFunctionOnSet(f, three) = f[c] + SumFunctionOnSet(f, two)
    BY <1>4, <2>1, SumAdd
  <2> QED BY <1>4, <2>2, <2>3
<1>6. IsFiniteSet(four) /\ SumFunctionOnSet(f, four) = f[a] + f[b] + f[c] + f[d]
  <2>1. d \notin three /\ \A i \in three \cup {d} : f[i] \in Int
    BY <1>0, <1>2
  <2> HIDE DEF three
  <2>2. IsFiniteSet(four)
    BY <1>5, FS_AddElement
  <2>3. SumFunctionOnSet(f, four) = f[d] + SumFunctionOnSet(f, three)
    BY <1>5, <2>1, SumAdd
  <2> QED BY <1>5, <2>2, <2>3
<1>7. SumFunctionOnSet(f, five) = f[a] + f[b] + f[c] + f[d] + f[e]
  <2>1. e \notin four /\ \A i \in four \cup {e} : f[i] \in Int
    BY <1>0, <1>2
  <2> HIDE DEF four
  <2>2. SumFunctionOnSet(f, five) = f[e] + SumFunctionOnSet(f, four)
    BY <1>6, <2>1, SumAdd
  <2> QED BY <1>6, <2>2
<1> QED BY <1>1, <1>7

(* What a trade does to the accounts *)

\* A market that validate_config lets through.
ConfiguredMarket(m) ==
    /\ m \in DOMAIN Markets
    /\ Markets[m].base \in Assets /\ Markets[m].quote \in Assets

\* A trade of one of them.
ATrade(t) ==
    /\ ConfiguredMarket(t.market)
    /\ t.quantity \in Nat /\ t.quote \in Nat /\ t.fee \in Nat

\* match_and_settle finds the fee recipient, which validate_config asked for.
LEMMA FeeRecipientIsThere ==
    ASSUME NEW accs, \E i \in DOMAIN accs : accs[i].id = FeeRecipient
    PROVE  FeeRecipientIndex(accs) \in DOMAIN accs
BY DEF FeeRecipientIndex

\* settle_trade moves value between accounts of the list and creates none.
LEMMA TradeKeeps ==
    ASSUME NEW accs \in Seq(AnAccount), \E i \in DOMAIN accs : accs[i].id = FeeRecipient,
           NEW t, ATrade(t), NEW buy, NEW sell,
           buy.index \in DOMAIN accs, sell.index \in DOMAIN accs,
           NEW new \in Settled(accs, t, buy, sell)
    PROVE  /\ new \in Seq(AnAccount) /\ SamePeople(accs, new)
           /\ \A x : Held(new, x) = Held(accs, x)
<1> DEFINE mk == Markets[t.market]
           r == FeeRecipientIndex(accs)
           Move(op, i, x, n) == [op |-> op, index |-> i, asset |-> x, amount |-> n]
           m == Move("debit",  buy.index,  mk.quote, t.quote + t.fee)
           n == Move("credit", buy.index,  mk.base,  t.quantity)
           o == Move("debit",  sell.index, mk.base,  t.quantity)
           p == Move("credit", sell.index, mk.quote, t.quote)
           q == Move("credit", r, mk.quote, t.fee)
           moves == <<m, n, o, p, q>>
<1>1. moves = MovesOf(accs, t, buy, sell)
  BY DEF MovesOf
<1>2. new \in ApplyMoves(accs, moves)
  <2> HIDE DEF moves
  <2> QED BY <1>1 DEF Settled
<1>3. r \in DOMAIN accs /\ \A i \in DOMAIN accs : i \in Nat
  BY FeeRecipientIsThere
<1>4. /\ {m.index, n.index, o.index, p.index, q.index} \subseteq DOMAIN accs
      /\ m \in AMove /\ n \in AMove /\ o \in AMove /\ p \in AMove /\ q \in AMove
  <2>1. /\ t.quote + t.fee \in Nat /\ t.quantity \in Nat /\ t.quote \in Nat /\ t.fee \in Nat
        /\ mk.quote \in Assets /\ mk.base \in Assets
    BY DEF ATrade, ConfiguredMarket
  <2>2. {m.index, n.index, o.index, p.index, q.index} \subseteq DOMAIN accs
    BY <1>3
  <2> HIDE DEF mk, r
  <2> QED BY <1>3, <2>1, <2>2 DEF AMove
<1>5. ASSUME NEW x
      PROVE  /\ Moved(m, x) \in Int /\ Moved(n, x) \in Int /\ Moved(o, x) \in Int
             /\ Moved(p, x) \in Int /\ Moved(q, x) \in Int
             /\ Moved(m, x) + Moved(n, x) + Moved(o, x) + Moved(p, x) + Moved(q, x) = 0
  BY DEF Moved, ATrade
<1> HIDE DEF m, n, o, p, q, r
<1>6. /\ moves \in Seq(AMove) /\ DOMAIN moves = 1..5 /\ Len(moves) = 5
      /\ moves[1] = m /\ moves[2] = n /\ moves[3] = o /\ moves[4] = p /\ moves[5] = q
  BY <1>4
<1>7. 1..5 = {1, 2, 3, 4, 5}
  OBVIOUS
<1>8. \A i \in DOMAIN moves : moves[i].index \in DOMAIN accs
  BY <1>4, <1>6, <1>7
<1> HIDE DEF moves
<1>9. ASSUME NEW x
      PROVE  new \in Seq(AnAccount) /\ SamePeople(accs, new) /\ Held(new, x) = Held(accs, x)
  <2> DEFINE f == MovedAt(moves, x)
  <2>1. /\ f[1] = Moved(m, x) /\ f[2] = Moved(n, x) /\ f[3] = Moved(o, x)
        /\ f[4] = Moved(p, x) /\ f[5] = Moved(q, x)
    BY <1>6 DEF MovedAt
  <2> HIDE DEF f
  <2>2. SumFunctionOnSet(f, {1, 2, 3, 4, 5}) = f[1] + f[2] + f[3] + f[4] + f[5]
    <3> DEFINE a == 1
               b == 2
               c == 3
               d == 4
               e == 5
    <3>1. Five(a, b, c, d, e) = {1, 2, 3, 4, 5}
      BY DEF Five
    <3>2. Different(a, b, c, d, e)
      BY DEF Different
    <3>3. f[a] \in Int /\ f[b] \in Int /\ f[c] \in Int /\ f[d] \in Int /\ f[e] \in Int
      BY <1>5, <2>1
    <3>4. SumFunctionOnSet(f, Five(a, b, c, d, e)) = f[a] + f[b] + f[c] + f[d] + f[e]
      <4> HIDE DEF a, b, c, d, e
      <4> QED BY <3>2, <3>3, SumFive
    <3> QED BY <3>1, <3>4
  <2>3. SumFunctionOnSet(f, 1..Len(moves)) = 0
    BY <1>5, <1>6, <1>7, <2>1, <2>2
  <2>4. Shifts(accs, moves, x, 0)
    BY <1>6, <1>8, <2>3, MovesShift DEF f
  <2> QED BY <1>2, <2>4, HeldType DEF Shifts
<1> QED BY <1>9

-----------------------------------------------------------------------------
(* The sweep of the books                                                  *)

\* One side of a book as validate_orders and validate_book_orders leave it: orders
\* of the market, attached to accounts of the list, best first.
ASide(list, market, side, accs) ==
    /\ Len(list) \in Nat /\ DOMAIN list = 1..Len(list)
    /\ \A i \in DOMAIN list :
          /\ list[i].market = market /\ list[i].side = side
          /\ list[i].index \in DOMAIN accs /\ list[i].sequence \in Nat
          /\ list[i].price \in Nat /\ list[i].quantity \in 1..MaxAmount
    /\ \A i, j \in DOMAIN list : i < j => Precedes(list[i], list[j])

\* No two orders of a side carry the same sequence, whichever books they are in.
OneSequence(bks, side) ==
    \A k, l \in DOMAIN bks :
        \A i \in DOMAIN SideOf(bks[k], side), j \in DOMAIN SideOf(bks[l], side) :
            SideOf(bks[k], side)[i].sequence = SideOf(bks[l], side)[j].sequence => k = l /\ i = j

\* What the guest has checked when it starts to match: validate_config, validate_accounts,
\* validate_orders and build_validated_books.
Validated(accs, bks) ==
    /\ accs \in Seq(AnAccount) /\ Canonical(accs)
    /\ \E i \in DOMAIN accs : accs[i].id = FeeRecipient
    /\ Len(bks) \in Nat /\ DOMAIN bks = 1..Len(bks)
    /\ \A k \in DOMAIN bks :
          /\ ConfiguredMarket(bks[k].market)
          /\ Scale[Markets[bks[k].market].base] \in Nat \ {0}
          /\ ASide(bks[k].buys, bks[k].market, "buy", accs)
          /\ ASide(bks[k].sells, bks[k].market, "sell", accs)
    /\ \A k, l \in DOMAIN bks : bks[k].market = bks[l].market => k = l
    /\ OneSequence(bks, "buy") /\ OneSequence(bks, "sell")

\* match_and_settle called with an account list and books.
MatchInit == stage = "matching" /\ \E accs, bks : MatchStart(accs, bks) /\ Validated(accs, bks)

MatchSpec == MatchInit /\ [][MatchNext]_matchVars

\* A trade of the batch fills an order.
Fills(t, o) == IF o.side = "buy" THEN t.buy = o.sequence ELSE t.sell = o.sequence

FillsIn(ts, o) == {i \in DOMAIN ts : Fills(ts[i], o)}

FilledIn(ts, o) == SumFunction([i \in FillsIn(ts, o) |-> ts[i].quantity])
QuotedIn(ts, o) == SumFunction([i \in FillsIn(ts, o) |-> ts[i].quote])
ChargedIn(ts, o) == SumFunction([i \in FillsIn(ts, o) |-> ts[i].fee])

\* The trades so far.
Traded(ts) ==
    /\ ts \in Seq({ts[i] : i \in DOMAIN ts})
    /\ \A i \in DOMAIN ts : ts[i].quantity \in Nat /\ ts[i].quote \in Nat /\ ts[i].fee \in Nat

\* One side of a book is swept up to position i: the orders before it are filled, those
\* after it are not touched, and r is what is left of the one there, 0 while it is whole.
SideAt(ts, list, i, r) ==
    /\ i \in 1..(Len(list) + 1) /\ r \in Nat
    /\ \A j \in DOMAIN list :
          /\ j < i => FilledIn(ts, list[j]) = list[j].quantity
          /\ j = i => /\ FilledIn(ts, list[j]) = list[j].quantity - Left(r, list[j])
                      /\ r < list[j].quantity
                      /\ r = 0 => FillsIn(ts, list[j]) = {}
          /\ j > i => FillsIn(ts, list[j]) = {}
    /\ i \notin DOMAIN list => r = 0

BookAt(ts, ob, i, j, q, r) == SideAt(ts, ob.buys, i, q) /\ SideAt(ts, ob.sells, j, r)

\* The orders at the two positions do not cross, or there are none.
Stuck(ob, i, j) ==
    i \in DOMAIN ob.buys /\ j \in DOMAIN ob.sells => ob.buys[i].price < ob.sells[j].price

\* Books before the current one are swept to the end, those after it are untouched.
Swept(ts, bks, k, i, j, q, r) ==
    \A l \in DOMAIN bks :
        /\ l < k => \E bi, si, br, sr : BookAt(ts, bks[l], bi, si, br, sr) /\ Stuck(bks[l], bi, si)
        /\ l = k => BookAt(ts, bks[l], i, j, q, r)
        /\ l > k => BookAt(ts, bks[l], 1, 1, 0, 0)

\* The inductive invariant of the sweep.
SweepInv ==
    /\ Validated(accounts, books) /\ Traded(trades)
    /\ book \in 1..(Len(books) + 1)
    /\ Swept(trades, books, book, buyIndex, sellIndex, buyRemaining, sellRemaining)
    /\ stage = "matched" => book \notin DOMAIN books

(* The trades so far                                                       *)

\* One more summand.
LEMMA SumOneMore ==
    ASSUME NEW S, IsFiniteSet(S), NEW n, n \notin S, NEW f, NEW g,
           DOMAIN f = S, DOMAIN g = S \cup {n}, \A i \in S : f[i] \in Int /\ g[i] = f[i],
           g[n] \in Int
    PROVE  SumFunction(g) = SumFunction(f) + g[n]
<1>1. \A i \in S \cup {n} : g[i] \in Int
  OBVIOUS
<1>2. SumFunctionOnSet(g, S \cup {n}) = g[n] + SumFunctionOnSet(g, S)
  BY <1>1, SumAdd
<1>3. SumFunctionOnSet(f, S) = SumFunctionOnSet(g, S)
  BY SumEqual
<1>4. SumFunctionOnSet(f, S) \in Int
  BY SumInt
<1> QED BY <1>2, <1>3, <1>4 DEF SumFunction

\* The fills of an order are finitely many, and what they add up to is a natural number.
LEMMA FillsType ==
    ASSUME NEW ts, Traded(ts), NEW o
    PROVE  /\ IsFiniteSet(FillsIn(ts, o)) /\ FillsIn(ts, o) \subseteq DOMAIN ts
           /\ FilledIn(ts, o) \in Nat /\ QuotedIn(ts, o) \in Nat /\ ChargedIn(ts, o) \in Nat
           /\ FillsIn(ts, o) = {} =>
                 FilledIn(ts, o) = 0 /\ QuotedIn(ts, o) = 0 /\ ChargedIn(ts, o) = 0
<1> DEFINE S == FillsIn(ts, o)
           f == [i \in S |-> ts[i].quantity]
           g == [i \in S |-> ts[i].quote]
           h == [i \in S |-> ts[i].fee]
<1>1. DOMAIN ts = 1..Len(ts) /\ Len(ts) \in Nat
  BY DEF Traded
<1>2. IsFiniteSet(DOMAIN ts) /\ S \subseteq DOMAIN ts
  BY <1>1, FS_Interval DEF FillsIn
<1>3. IsFiniteSet(S)
  BY <1>2, FS_Subset
<1>4. \A i \in S : f[i] \in Nat /\ g[i] \in Nat /\ h[i] \in Nat
  BY <1>2 DEF Traded
<1>5. /\ FilledIn(ts, o) = SumFunctionOnSet(f, S) /\ QuotedIn(ts, o) = SumFunctionOnSet(g, S)
      /\ ChargedIn(ts, o) = SumFunctionOnSet(h, S)
  <2>1. DOMAIN f = S /\ DOMAIN g = S /\ DOMAIN h = S
    OBVIOUS
  <2> QED BY <2>1 DEF FilledIn, QuotedIn, ChargedIn, SumFunction
<1> HIDE DEF f, g, h, S
<1>6. /\ SumFunctionOnSet(f, S) \in Nat /\ SumFunctionOnSet(g, S) \in Nat
      /\ SumFunctionOnSet(h, S) \in Nat
  BY <1>3, <1>4, SumNat
<1>7. S = {} => /\ SumFunctionOnSet(f, S) = 0 /\ SumFunctionOnSet(g, S) = 0
                /\ SumFunctionOnSet(h, S) = 0
  BY SumEmpty
<1> QED BY <1>2, <1>3, <1>5, <1>6, <1>7 DEF S

\* A trade more, as match_and_settle pushes it.
LEMMA TradesAppend ==
    ASSUME NEW ts, Traded(ts), NEW t, t.quantity \in Nat, t.quote \in Nat, t.fee \in Nat
    PROVE  /\ Traded(Append(ts, t)) /\ DOMAIN Append(ts, t) = DOMAIN ts \cup {Len(ts) + 1}
           /\ Len(ts) + 1 \notin DOMAIN ts /\ Append(ts, t)[Len(ts) + 1] = t
           /\ \A i \in DOMAIN ts : Append(ts, t)[i] = ts[i]
<1> DEFINE n == Len(ts)
           T == {ts[i] : i \in DOMAIN ts} \cup {t}
           new == Append(ts, t)
<1>1. n \in Nat /\ DOMAIN ts = 1..n /\ ts \in Seq(T)
  BY DEF Traded
<1>2. /\ new \in Seq(T) /\ Len(new) = n + 1 /\ new[n + 1] = t
      /\ \A i \in 1..n : new[i] = ts[i]
  <2>1. t \in T
    OBVIOUS
  <2> HIDE DEF T
  <2> QED BY <1>1, <2>1, AppendProperties
<1>3. DOMAIN new = (1..n) \cup {n + 1} /\ n + 1 \notin 1..n
  BY <1>1, <1>2
<1>4. \A i \in DOMAIN new : new[i].quantity \in Nat /\ new[i].quote \in Nat /\ new[i].fee \in Nat
  BY <1>1, <1>2, <1>3 DEF Traded
<1>5. new \in Seq({new[i] : i \in DOMAIN new})
  BY <1>2
<1> HIDE DEF new
<1> QED BY <1>1, <1>2, <1>3, <1>4, <1>5 DEF new, Traded

\* It counts for the orders it fills, and for no other.
LEMMA FillsAppend ==
    ASSUME NEW ts, Traded(ts), NEW t, t.quantity \in Nat, t.quote \in Nat, t.fee \in Nat, NEW o
    PROVE  /\ Fills(t, o) =>
                 /\ FillsIn(Append(ts, t), o) = FillsIn(ts, o) \cup {Len(ts) + 1}
                 /\ Len(ts) + 1 \notin FillsIn(ts, o)
                 /\ FilledIn(Append(ts, t), o) = FilledIn(ts, o) + t.quantity
                 /\ QuotedIn(Append(ts, t), o) = QuotedIn(ts, o) + t.quote
                 /\ ChargedIn(Append(ts, t), o) = ChargedIn(ts, o) + t.fee
           /\ ~Fills(t, o) =>
                 /\ FillsIn(Append(ts, t), o) = FillsIn(ts, o)
                 /\ FilledIn(Append(ts, t), o) = FilledIn(ts, o)
                 /\ QuotedIn(Append(ts, t), o) = QuotedIn(ts, o)
                 /\ ChargedIn(Append(ts, t), o) = ChargedIn(ts, o)
<1> DEFINE n == Len(ts) + 1
           new == Append(ts, t)
           S == FillsIn(ts, o)
           T == FillsIn(new, o)
           f == [i \in S |-> ts[i].quantity]
           g == [i \in S |-> ts[i].quote]
           h == [i \in S |-> ts[i].fee]
           f2 == [i \in T |-> new[i].quantity]
           g2 == [i \in T |-> new[i].quote]
           h2 == [i \in T |-> new[i].fee]
<1>1. /\ DOMAIN new = DOMAIN ts \cup {n} /\ n \notin DOMAIN ts /\ new[n] = t
      /\ \A i \in DOMAIN ts : new[i] = ts[i]
  BY TradesAppend
<1>2. IsFiniteSet(S) /\ S \subseteq DOMAIN ts
  BY FillsType
<1>3. \A i \in S : ts[i].quantity \in Nat /\ ts[i].quote \in Nat /\ ts[i].fee \in Nat
  BY <1>2 DEF Traded
<1> HIDE DEF new, n
<1>4. T = IF Fills(t, o) THEN S \cup {n} ELSE S
  BY <1>1 DEF FillsIn
<1>5. n \notin S
  BY <1>1, <1>2
<1>6. /\ FilledIn(ts, o) = SumFunction(f) /\ FilledIn(new, o) = SumFunction(f2)
      /\ QuotedIn(ts, o) = SumFunction(g) /\ QuotedIn(new, o) = SumFunction(g2)
      /\ ChargedIn(ts, o) = SumFunction(h) /\ ChargedIn(new, o) = SumFunction(h2)
  BY DEF FilledIn, QuotedIn, ChargedIn
<1>7. ASSUME Fills(t, o)
      PROVE  /\ T = S \cup {n} /\ n \notin S
             /\ FilledIn(new, o) = FilledIn(ts, o) + t.quantity
             /\ QuotedIn(new, o) = QuotedIn(ts, o) + t.quote
             /\ ChargedIn(new, o) = ChargedIn(ts, o) + t.fee
  <2>1. T = S \cup {n}
    BY <1>4, <1>7
  <2>2. /\ DOMAIN f = S /\ DOMAIN f2 = S \cup {n} /\ f2[n] = t.quantity /\ f2[n] \in Int
        /\ \A i \in S : f[i] \in Int /\ f2[i] = f[i]
    BY <1>1, <1>2, <1>3, <2>1
  <2>3. /\ DOMAIN g = S /\ DOMAIN g2 = S \cup {n} /\ g2[n] = t.quote /\ g2[n] \in Int
        /\ \A i \in S : g[i] \in Int /\ g2[i] = g[i]
    BY <1>1, <1>2, <1>3, <2>1
  <2>4. /\ DOMAIN h = S /\ DOMAIN h2 = S \cup {n} /\ h2[n] = t.fee /\ h2[n] \in Int
        /\ \A i \in S : h[i] \in Int /\ h2[i] = h[i]
    BY <1>1, <1>2, <1>3, <2>1
  <2> HIDE DEF f, g, h, f2, g2, h2, S, T
  <2>5. SumFunction(f2) = SumFunction(f) + f2[n]
    BY <1>2, <1>5, <2>2, SumOneMore
  <2>6. SumFunction(g2) = SumFunction(g) + g2[n]
    BY <1>2, <1>5, <2>3, SumOneMore
  <2>7. SumFunction(h2) = SumFunction(h) + h2[n]
    BY <1>2, <1>5, <2>4, SumOneMore
  <2> QED BY <1>5, <1>6, <2>1, <2>2, <2>3, <2>4, <2>5, <2>6, <2>7
<1>8. ASSUME ~Fills(t, o)
      PROVE  /\ T = S /\ FilledIn(new, o) = FilledIn(ts, o)
             /\ QuotedIn(new, o) = QuotedIn(ts, o) /\ ChargedIn(new, o) = ChargedIn(ts, o)
  <2>1. T = S
    BY <1>4, <1>8
  <2>2. \A i \in S : new[i] = ts[i]
    BY <1>1, <1>2
  <2>3. f2 = f /\ g2 = g /\ h2 = h
    <3> HIDE DEF S, T
    <3> QED BY <2>1, <2>2
  <2> HIDE DEF f, g, h, f2, g2, h2
  <2> QED BY <1>6, <2>1, <2>3
<1> QED BY <1>7, <1>8 DEF new, n

(* One side of a book                                                      *)

\* A side none of whose orders the trade fills stays where it was.
LEMMA SideKept ==
    ASSUME NEW ts, Traded(ts), NEW t, t.quantity \in Nat, t.quote \in Nat, t.fee \in Nat,
           NEW list, \A j \in DOMAIN list : ~Fills(t, list[j]),
           NEW i, NEW r, SideAt(ts, list, i, r)
    PROVE  SideAt(Append(ts, t), list, i, r)
<1> DEFINE new == Append(ts, t)
<1>1. \A j \in DOMAIN list : /\ FillsIn(new, list[j]) = FillsIn(ts, list[j])
                             /\ FilledIn(new, list[j]) = FilledIn(ts, list[j])
  BY FillsAppend
<1> HIDE DEF new
<1>2. SideAt(new, list, i, r)
  BY <1>1 DEF SideAt
<1> QED BY <1>2 DEF new

\* The side of the order that trades moves on when nothing is left of it.
LEMMA SideFilled ==
    ASSUME NEW ts, Traded(ts), NEW t, t.quantity \in Nat, t.quote \in Nat, t.fee \in Nat,
           NEW market, NEW side, NEW accs, NEW list, ASide(list, market, side, accs),
           NEW i \in DOMAIN list, NEW r, SideAt(ts, list, i, r),
           \A j \in DOMAIN list : Fills(t, list[j]) <=> j = i,
           t.quantity \in 1..Left(r, list[i])
    PROVE  LET left == Left(r, list[i]) - t.quantity
           IN  SideAt(Append(ts, t), list, IF left = 0 THEN i + 1 ELSE i, left)
<1> DEFINE new == Append(ts, t)
           q == t.quantity
           left == Left(r, list[i]) - q
           next == IF left = 0 THEN i + 1 ELSE i
<1>1. /\ Len(list) \in Nat /\ DOMAIN list = 1..Len(list) /\ i \in 1..Len(list)
      /\ \A j \in DOMAIN list : list[j].quantity \in Nat /\ list[j].quantity > 0
  <2>1. MaxAmount \in Nat
    BY ExchangeAssumption
  <2> QED BY <2>1 DEF ASide
<1>2. /\ r \in Nat /\ r < list[i].quantity
      /\ FilledIn(ts, list[i]) = list[i].quantity - Left(r, list[i])
  BY DEF SideAt
<1>3. /\ Left(r, list[i]) \in Nat /\ Left(r, list[i]) =< list[i].quantity
      /\ q \in Nat /\ q > 0 /\ left \in Nat /\ left < list[i].quantity
  BY <1>1, <1>2 DEF Left
<1>4. FilledIn(new, list[i]) = list[i].quantity - left
  <2>1. FilledIn(new, list[i]) = FilledIn(ts, list[i]) + q
    BY FillsAppend
  <2>2. list[i].quantity \in Nat
    BY <1>1
  <2>3. FilledIn(ts, list[i]) = list[i].quantity - Left(r, list[i])
    BY <1>2
  <2> HIDE DEF new
  <2> QED BY <1>3, <2>1, <2>2, <2>3
<1>5. \A j \in DOMAIN list : j # i =>
         /\ FillsIn(new, list[j]) = FillsIn(ts, list[j])
         /\ FilledIn(new, list[j]) = FilledIn(ts, list[j])
  BY FillsAppend
<1> HIDE DEF new, left
<1>6. /\ next \in 1..(Len(list) + 1) /\ (next \notin DOMAIN list => left = 0)
  BY <1>1
<1>7. ASSUME NEW j \in DOMAIN list
      PROVE  /\ j < next => FilledIn(new, list[j]) = list[j].quantity
             /\ j = next => /\ FilledIn(new, list[j]) = list[j].quantity - Left(left, list[j])
                            /\ left < list[j].quantity
                            /\ left = 0 => FillsIn(new, list[j]) = {}
             /\ j > next => FillsIn(new, list[j]) = {}
  <2>0. /\ j \in Int /\ i \in Int /\ list[j].quantity \in Nat /\ list[j].quantity > 0
        /\ j < i => FilledIn(ts, list[j]) = list[j].quantity
        /\ j > i => FillsIn(ts, list[j]) = {}
    BY <1>1 DEF SideAt
  <2>1. CASE left # 0
    <3>1. next = i /\ Left(left, list[i]) = left
      BY <2>1 DEF Left
    <3> HIDE DEF next
    <3>2. CASE j = i
      BY <1>3, <1>4, <2>0, <2>1, <3>1, <3>2
    <3>3. CASE j # i
      BY <1>5, <2>0, <3>1, <3>3
    <3> QED BY <3>2, <3>3
  <2>2. CASE left = 0
    <3>1. next = i + 1
      BY <2>2
    <3> HIDE DEF next
    <3>2. CASE j = i
      BY <1>1, <1>4, <2>0, <2>2, <3>1, <3>2
    <3>3. CASE j < i
      BY <1>5, <2>0, <3>1, <3>3
    <3>4. CASE j > i
      <4>1. FillsIn(new, list[j]) = {}
        BY <1>5, <2>0, <3>4
      <4>2. FilledIn(new, list[j]) = 0
        BY <4>1, FillsType, TradesAppend DEF new
      <4>3. Left(left, list[j]) = list[j].quantity
        BY <2>2 DEF Left
      <4> QED BY <2>0, <2>2, <3>1, <3>4, <4>1, <4>2, <4>3
    <3> QED BY <2>0, <3>2, <3>3, <3>4
  <2> QED BY <2>1, <2>2
<1>8. SideAt(new, list, next, left)
  <2> HIDE DEF next
  <2> QED BY <1>3, <1>6, <1>7 DEF SideAt
<1> QED BY <1>8 DEF new, left

\* A side no order of which has traded is swept up to its first order.
LEMMA SideUntouched ==
    ASSUME NEW ts, Traded(ts), NEW market, NEW side, NEW accs, NEW list,
           ASide(list, market, side, accs), \A j \in DOMAIN list : FillsIn(ts, list[j]) = {}
    PROVE  SideAt(ts, list, 1, 0)
<1>1. \A j \in DOMAIN list : FilledIn(ts, list[j]) = 0
  BY FillsType
<1>2. /\ Len(list) \in Nat /\ DOMAIN list = 1..Len(list)
      /\ \A j \in DOMAIN list : list[j].quantity \in Nat /\ list[j].quantity > 0
  <2>1. MaxAmount \in Nat
    BY ExchangeAssumption
  <2> QED BY <2>1 DEF ASide
<1> QED BY <1>1, <1>2 DEF SideAt, Left

(* Amounts of a trade                                                      *)

\* Division rounds down, by less than the divisor.
LEMMA RoundsDown ==
    ASSUME NEW a \in Nat, NEW b \in Nat \ {0}
    PROVE  /\ a \div b \in Nat /\ (a \div b) * b =< a /\ a =< (a \div b) * b + (b - 1)
<1>1. a = b * (a \div b) + (a % b) /\ a % b \in 0..(b - 1) /\ a \div b \in Int
  OBVIOUS
<1> DEFINE q == a \div b
           m == a % b
<1>2. q * b = b * q /\ q * b \in Int
  BY <1>1
<1>3. q \in Nat
  <2>1. CASE q < 0
    <3>1. q =< -1 /\ b * q =< -b
      BY <1>1, <2>1
    <3> QED BY <1>1, <3>1
  <2> QED BY <1>1, <2>1
<1> HIDE DEF q, m
<1> QED BY <1>1, <1>2, <1>3 DEF q, m

\* Products of natural numbers.
LEMMA ProductNat ==
    ASSUME NEW a \in Nat, NEW b \in Nat
    PROVE  a * b \in Nat
OBVIOUS

\* A larger factor makes a product no smaller.
LEMMA ProductMonotone ==
    ASSUME NEW a \in Nat, NEW b \in Nat, NEW c \in Nat, b =< c
    PROVE  a * b =< a * c
OBVIOUS

\* Products distribute over sums.
LEMMA ProductOfSum ==
    ASSUME NEW a \in Int, NEW b \in Int, NEW c \in Int
    PROVE  (a + b) * c = a * c + b * c /\ a * c \in Int /\ b * c \in Int
OBVIOUS

\* What a trade at the resting price costs each side: the buyer pays at most its limit,
\* the seller loses less than one quote unit to rounding, and the fee is at most the rate.
Terms(t, buy, sell, scale) ==
    /\ t.quote * scale =< t.quantity * buy.price
    /\ t.quantity * sell.price =< t.quote * scale + (scale - 1)
    /\ t.fee * BPS =< t.quote * BuyerFeeBps

\* settle_trade computes a trade of two crossing orders on these terms.
LEMMA TradeTerms ==
    ASSUME NEW m, ConfiguredMarket(m), Scale[Markets[m].base] \in Nat \ {0},
           NEW buy, NEW sell, buy.price \in Nat, sell.price \in Nat, sell.price =< buy.price,
           NEW q \in Nat
    PROVE  LET t == TradeOf(m, buy, sell, q, FillPrice(buy, sell))
           IN  /\ ATrade(t) /\ t.quantity = q /\ t.buy = buy.sequence /\ t.sell = sell.sequence
               /\ Terms(t, buy, sell, Scale[Markets[m].base])
<1> DEFINE p == FillPrice(buy, sell)
           scale == Scale[Markets[m].base]
           quote == QuoteAmount(q, p, Markets[m].base)
           fee == QuoteFee(quote)
           t == TradeOf(m, buy, sell, q, p)
<1>1. p \in Nat /\ sell.price =< p /\ p =< buy.price
  BY DEF FillPrice
<1>2. scale \in Nat \ {0} /\ BuyerFeeBps \in Nat
  BY ExchangeAssumption
<1>3. /\ t.market = m /\ t.quantity = q /\ t.quote = quote /\ t.fee = fee
      /\ t.buy = buy.sequence /\ t.sell = sell.sequence
  BY DEF TradeOf
<1>4. quote = (q * p) \div scale
  BY DEF QuoteAmount
<1>5. fee = (quote * BuyerFeeBps) \div BPS /\ BPS \in Nat \ {0}
  BY DEF QuoteFee, BPS
<1> HIDE DEF p, scale, quote, fee, t
<1>6. q * p \in Nat /\ q * p =< q * buy.price /\ q * sell.price =< q * p
      /\ q * buy.price \in Nat /\ q * sell.price \in Nat
  BY <1>1, ProductNat, ProductMonotone
<1>7. quote \in Nat /\ quote * scale =< q * p /\ q * p =< quote * scale + (scale - 1)
  BY <1>2, <1>4, <1>6, RoundsDown
<1>8. quote * BuyerFeeBps \in Nat /\ quote * scale \in Nat
  BY <1>2, <1>7, ProductNat
<1>9. fee \in Nat /\ fee * BPS =< quote * BuyerFeeBps
  BY <1>5, <1>8, RoundsDown
<1>10. quote * scale =< q * buy.price /\ q * sell.price =< quote * scale + (scale - 1)
  BY <1>2, <1>6, <1>7, <1>8
<1>11. Terms(t, buy, sell, scale)
  BY <1>3, <1>9, <1>10 DEF Terms
<1>12. ATrade(t)
  BY <1>3, <1>7, <1>9 DEF ATrade
<1> QED BY <1>3, <1>11, <1>12 DEF t, p, scale

(* Steps of the sweep                                                      *)

\* The two orders the loop is at, and the trade it makes of them.
LEMMA AtTheOrders ==
    ASSUME SweepInv, Crosses
    PROVE  LET buy == Buys[buyIndex]
               sell == Sells[sellIndex]
               t == NextTrade
           IN  /\ book \in DOMAIN books /\ buyIndex \in DOMAIN Buys /\ sellIndex \in DOMAIN Sells
               /\ ConfiguredMarket(books[book].market)
               /\ ASide(Buys, books[book].market, "buy", accounts)
               /\ ASide(Sells, books[book].market, "sell", accounts)
               /\ SideAt(trades, Buys, buyIndex, buyRemaining)
               /\ SideAt(trades, Sells, sellIndex, sellRemaining)
               /\ buy.index \in DOMAIN accounts /\ sell.index \in DOMAIN accounts
               /\ ATrade(t) /\ t.quantity = FillQuantity
               /\ t.buy = buy.sequence /\ t.sell = sell.sequence
               /\ FillQuantity \in 1..Left(buyRemaining, buy)
               /\ FillQuantity \in 1..Left(sellRemaining, sell)
               /\ Terms(t, buy, sell, Scale[Markets[books[book].market].base])
<1> DEFINE buy == Buys[buyIndex]
           sell == Sells[sellIndex]
           m == books[book].market
<1>1. /\ book \in DOMAIN books /\ buyIndex \in DOMAIN Buys /\ sellIndex \in DOMAIN Sells
      /\ buy.price >= sell.price
  BY DEF Crosses
<1>2. /\ ConfiguredMarket(m) /\ Scale[Markets[m].base] \in Nat \ {0}
      /\ ASide(Buys, m, "buy", accounts) /\ ASide(Sells, m, "sell", accounts)
  BY <1>1 DEF SweepInv, Validated, Buys, Sells
<1>3. /\ SideAt(trades, Buys, buyIndex, buyRemaining)
      /\ SideAt(trades, Sells, sellIndex, sellRemaining)
  BY <1>1 DEF SweepInv, Swept, BookAt, Buys, Sells
<1>4. /\ buy.index \in DOMAIN accounts /\ sell.index \in DOMAIN accounts
      /\ buy.price \in Nat /\ sell.price \in Nat
      /\ buy.quantity \in 1..MaxAmount /\ sell.quantity \in 1..MaxAmount
  <2> HIDE DEF m
  <2> QED BY <1>1, <1>2 DEF ASide
<1>5. buyRemaining \in Nat /\ sellRemaining \in Nat
  BY <1>3 DEF SideAt
<1>6. MaxAmount \in Nat
  BY ExchangeAssumption
<1> HIDE DEF buy, sell, m
<1>7. /\ Left(buyRemaining, buy) \in Nat \ {0} /\ Left(sellRemaining, sell) \in Nat \ {0}
  BY <1>4, <1>5, <1>6 DEF Left
<1>8. FillQuantity \in 1..Left(buyRemaining, buy) /\ FillQuantity \in 1..Left(sellRemaining, sell)
  BY <1>7 DEF FillQuantity, buy, sell
<1>9. FillQuantity \in Nat /\ sell.price =< buy.price
  BY <1>1, <1>4, <1>7, <1>8 DEF buy, sell
<1>10. NextTrade = TradeOf(m, buy, sell, FillQuantity, FillPrice(buy, sell))
  BY DEF NextTrade, buy, sell, m
<1>11. /\ ATrade(NextTrade) /\ NextTrade.quantity = FillQuantity
       /\ NextTrade.buy = buy.sequence /\ NextTrade.sell = sell.sequence
       /\ Terms(NextTrade, buy, sell, Scale[Markets[m].base])
  BY <1>2, <1>4, <1>9, <1>10, TradeTerms
<1> QED BY <1>1, <1>2, <1>3, <1>4, <1>8, <1>11 DEF buy, sell, m

\* What the guest has checked stays true while balances move.
LEMMA StaysValidated ==
    ASSUME NEW accs, NEW bks, Validated(accs, bks),
           NEW new \in Seq(AnAccount), SamePeople(accs, new)
    PROVE  Validated(new, bks)
<1>1. accs \in Seq(AnAccount) /\ Canonical(accs)
  BY DEF Validated
<1>2. Canonical(new)
  BY <1>1, StaysCanonical
<1>3. DOMAIN new = DOMAIN accs /\ \A i \in DOMAIN accs : new[i].id = accs[i].id
  BY DEF SamePeople
<1>4. \E i \in DOMAIN new : new[i].id = FeeRecipient
  BY <1>3 DEF Validated
<1>5. \A list, market, side : ASide(list, market, side, accs) => ASide(list, market, side, new)
  BY <1>3 DEF ASide
<1> QED BY <1>2, <1>4, <1>5 DEF Validated

\* The trade of two orders fills no order at another place.
LEMMA FillsItsOrders ==
    ASSUME NEW accs, NEW bks, Validated(accs, bks), NEW k \in DOMAIN bks,
           NEW i \in DOMAIN bks[k].buys, NEW j \in DOMAIN bks[k].sells, NEW t,
           t.buy = bks[k].buys[i].sequence, t.sell = bks[k].sells[j].sequence
    PROVE  \A l \in DOMAIN bks :
              /\ \A x \in DOMAIN bks[l].buys : Fills(t, bks[l].buys[x]) <=> l = k /\ x = i
              /\ \A x \in DOMAIN bks[l].sells : Fills(t, bks[l].sells[x]) <=> l = k /\ x = j
<1> SUFFICES ASSUME NEW l \in DOMAIN bks
             PROVE  /\ \A x \in DOMAIN bks[l].buys : Fills(t, bks[l].buys[x]) <=> l = k /\ x = i
                    /\ \A x \in DOMAIN bks[l].sells : Fills(t, bks[l].sells[x]) <=> l = k /\ x = j
  OBVIOUS
<1>1. \A x \in DOMAIN bks[l].buys : bks[l].buys[x].side = "buy"
  BY DEF Validated, ASide
<1>2. \A x \in DOMAIN bks[l].sells : bks[l].sells[x].side = "sell"
  BY DEF Validated, ASide
<1>3. \A x \in DOMAIN bks[l].buys :
         bks[k].buys[i].sequence = bks[l].buys[x].sequence <=> l = k /\ x = i
  BY DEF Validated, OneSequence, SideOf
<1>4. \A x \in DOMAIN bks[l].sells :
         bks[k].sells[j].sequence = bks[l].sells[x].sequence <=> l = k /\ x = j
  BY DEF Validated, OneSequence, SideOf
<1> QED BY <1>1, <1>2, <1>3, <1>4 DEF Fills

\* A fill keeps the invariant of the sweep.
LEMMA FillKeeps ==
    ASSUME SweepInv, Fill
    PROVE  SweepInv' /\ SamePeople(accounts, accounts') /\ \A x : Held(accounts', x) = Held(accounts, x)
<1> DEFINE buy == Buys[buyIndex]
           sell == Sells[sellIndex]
           t == NextTrade
           buyLeft == Left(buyRemaining, buy) - t.quantity
           sellLeft == Left(sellRemaining, sell) - t.quantity
           i == IF buyLeft = 0 THEN buyIndex + 1 ELSE buyIndex
           j == IF sellLeft = 0 THEN sellIndex + 1 ELSE sellIndex
<1>0. stage = "matching" /\ Crosses
  BY DEF Fill
<1>1. /\ book \in DOMAIN books /\ buyIndex \in DOMAIN Buys /\ sellIndex \in DOMAIN Sells
      /\ ConfiguredMarket(books[book].market)
      /\ ASide(Buys, books[book].market, "buy", accounts)
      /\ ASide(Sells, books[book].market, "sell", accounts)
      /\ SideAt(trades, Buys, buyIndex, buyRemaining)
      /\ SideAt(trades, Sells, sellIndex, sellRemaining)
      /\ buy.index \in DOMAIN accounts /\ sell.index \in DOMAIN accounts
      /\ ATrade(t) /\ t.quantity = FillQuantity
      /\ t.buy = buy.sequence /\ t.sell = sell.sequence
      /\ FillQuantity \in 1..Left(buyRemaining, buy)
      /\ FillQuantity \in 1..Left(sellRemaining, sell)
  BY <1>0, AtTheOrders
<1>2. /\ accounts' \in Settled(accounts, t, buy, sell) /\ trades' = Append(trades, t)
      /\ buyRemaining' = buyLeft /\ sellRemaining' = sellLeft
      /\ buyIndex' = i /\ sellIndex' = j /\ book' = book /\ stage' = stage /\ books' = books
  BY <1>1 DEF Fill, Advance
<1>3. /\ Validated(accounts, books) /\ Traded(trades) /\ book \in 1..(Len(books) + 1)
      /\ Swept(trades, books, book, buyIndex, sellIndex, buyRemaining, sellRemaining)
  BY DEF SweepInv
<1>4. /\ accounts \in Seq(AnAccount) /\ \E x \in DOMAIN accounts : accounts[x].id = FeeRecipient
  BY <1>3 DEF Validated
<1>5. /\ t.quantity \in Nat /\ t.quote \in Nat /\ t.fee \in Nat
      /\ t.quantity \in 1..Left(buyRemaining, buy) /\ t.quantity \in 1..Left(sellRemaining, sell)
  BY <1>1 DEF ATrade
<1>6. /\ accounts' \in Seq(AnAccount) /\ SamePeople(accounts, accounts')
      /\ \A x : Held(accounts', x) = Held(accounts, x)
  <2> HIDE DEF buy, sell, t
  <2> QED BY <1>1, <1>2, <1>4, TradeKeeps
<1>7. Validated(accounts', books')
  BY <1>2, <1>3, <1>6, StaysValidated
<1>8. Traded(trades')
  <2> HIDE DEF t
  <2> QED BY <1>2, <1>3, <1>5, TradesAppend
<1>9. \A l \in DOMAIN books :
         /\ \A x \in DOMAIN books[l].buys :
               Fills(t, books[l].buys[x]) <=> l = book /\ x = buyIndex
         /\ \A x \in DOMAIN books[l].sells :
               Fills(t, books[l].sells[x]) <=> l = book /\ x = sellIndex
  <2> HIDE DEF t
  <2> QED BY <1>1, <1>3, FillsItsOrders DEF Buys, Sells
<1>10. ASSUME NEW l \in DOMAIN books, l # book, NEW bi, NEW si, NEW br, NEW sr,
              BookAt(trades, books[l], bi, si, br, sr)
       PROVE  BookAt(trades', books[l], bi, si, br, sr)
  <2>1. /\ \A x \in DOMAIN books[l].buys : ~Fills(t, books[l].buys[x])
        /\ \A x \in DOMAIN books[l].sells : ~Fills(t, books[l].sells[x])
    BY <1>9, <1>10
  <2>2. SideAt(trades, books[l].buys, bi, br) /\ SideAt(trades, books[l].sells, si, sr)
    BY <1>10 DEF BookAt
  <2> HIDE DEF t
  <2>3. SideAt(trades', books[l].buys, bi, br)
    BY <1>2, <1>3, <1>5, <2>1, <2>2, SideKept
  <2>4. SideAt(trades', books[l].sells, si, sr)
    BY <1>2, <1>3, <1>5, <2>1, <2>2, SideKept
  <2> QED BY <2>3, <2>4 DEF BookAt
<1>11. BookAt(trades', books[book], i, j, buyLeft, sellLeft)
  <2>1. /\ \A x \in DOMAIN Buys : Fills(t, Buys[x]) <=> x = buyIndex
        /\ \A x \in DOMAIN Sells : Fills(t, Sells[x]) <=> x = sellIndex
    BY <1>1, <1>9 DEF Buys, Sells
  <2> HIDE DEF t
  <2>2. SideAt(trades', Buys, i, buyLeft)
    BY <1>1, <1>2, <1>3, <1>5, <2>1, SideFilled
  <2>3. SideAt(trades', Sells, j, sellLeft)
    BY <1>1, <1>2, <1>3, <1>5, <2>1, SideFilled
  <2> HIDE DEF i, j, buyLeft, sellLeft
  <2> QED BY <2>2, <2>3 DEF BookAt, Buys, Sells
<1>12. Swept(trades', books, book, i, j, buyLeft, sellLeft)
  <2> HIDE DEF i, j, buyLeft, sellLeft
  <2>1. ASSUME NEW l \in DOMAIN books
        PROVE  /\ l < book => \E bi, si, br, sr :
                      BookAt(trades', books[l], bi, si, br, sr) /\ Stuck(books[l], bi, si)
               /\ l = book => BookAt(trades', books[l], i, j, buyLeft, sellLeft)
               /\ l > book => BookAt(trades', books[l], 1, 1, 0, 0)
    <3>0. l \in Int /\ book \in Int
      BY <1>3 DEF Validated
    <3>1. l < book => \E bi, si, br, sr :
              BookAt(trades, books[l], bi, si, br, sr) /\ Stuck(books[l], bi, si)
      BY <1>3 DEF Swept
    <3>2. l > book => BookAt(trades, books[l], 1, 1, 0, 0)
      BY <1>3 DEF Swept
    <3> QED BY <1>10, <1>11, <3>0, <3>1, <3>2
  <2> QED BY <2>1 DEF Swept
<1>13. SweepInv'
  <2> HIDE DEF i, j, buyLeft, sellLeft
  <2>1. stage' # "matched"
    BY <1>0, <1>2
  <2> QED BY <1>2, <1>3, <1>7, <1>8, <1>12, <2>1 DEF SweepInv
<1> QED BY <1>6, <1>13

\* A book left behind is swept until its best two orders do not cross.
LEMMA NextBookKeeps ==
    ASSUME SweepInv, NextBook
    PROVE  SweepInv'
<1>1. /\ stage = "matching" /\ book \in DOMAIN books /\ ~Crosses
      /\ book' = book + 1 /\ buyIndex' = 1 /\ sellIndex' = 1
      /\ buyRemaining' = 0 /\ sellRemaining' = 0
      /\ stage' = stage /\ accounts' = accounts /\ books' = books /\ trades' = trades
  BY DEF NextBook, StartOfBook
<1>2. /\ Validated(accounts, books) /\ Traded(trades) /\ book \in 1..(Len(books) + 1)
      /\ Swept(trades, books, book, buyIndex, sellIndex, buyRemaining, sellRemaining)
      /\ Len(books) \in Nat /\ DOMAIN books = 1..Len(books)
  BY DEF SweepInv, Validated
<1>3. BookAt(trades, books[book], buyIndex, sellIndex, buyRemaining, sellRemaining)
  BY <1>1, <1>2 DEF Swept
<1>4. Stuck(books[book], buyIndex, sellIndex)
  <2>1. ASSUME buyIndex \in DOMAIN Buys, sellIndex \in DOMAIN Sells
        PROVE  Buys[buyIndex].price < Sells[sellIndex].price
    <3>1. Buys[buyIndex].price \in Nat /\ Sells[sellIndex].price \in Nat
      BY <1>1, <1>2, <2>1 DEF Validated, ASide, Buys, Sells
    <3>2. ~(Buys[buyIndex].price >= Sells[sellIndex].price)
      BY <1>1, <2>1 DEF Crosses
    <3> QED BY <3>1, <3>2
  <2> QED BY <2>1 DEF Stuck, Buys, Sells
<1>5. Swept(trades, books, book + 1, 1, 1, 0, 0)
  <2>1. ASSUME NEW l \in DOMAIN books
        PROVE  /\ l < book + 1 => \E bi, si, br, sr :
                      BookAt(trades, books[l], bi, si, br, sr) /\ Stuck(books[l], bi, si)
               /\ l = book + 1 => BookAt(trades, books[l], 1, 1, 0, 0)
               /\ l > book + 1 => BookAt(trades, books[l], 1, 1, 0, 0)
    <3>1. l \in Int /\ book \in Int
      BY <1>2
    <3>2. l < book => \E bi, si, br, sr :
              BookAt(trades, books[l], bi, si, br, sr) /\ Stuck(books[l], bi, si)
      BY <1>2 DEF Swept
    <3>3. l = book => \E bi, si, br, sr :
              BookAt(trades, books[l], bi, si, br, sr) /\ Stuck(books[l], bi, si)
      BY <1>3, <1>4
    <3>4. l > book => BookAt(trades, books[l], 1, 1, 0, 0)
      BY <1>2 DEF Swept
    <3> QED BY <3>1, <3>2, <3>3, <3>4
  <2> QED BY <2>1 DEF Swept
<1>6. book + 1 \in 1..(Len(books) + 1)
  BY <1>1, <1>2
<1> QED BY <1>1, <1>2, <1>5, <1>6 DEF SweepInv

\* No trade, no fill.
LEMMA NothingTraded ==
    /\ Traded(<<>>)
    /\ \A o : FillsIn(<<>>, o) = {}
BY DEF Traded, FillsIn

\* match_and_settle starts with the sweep before its first order.
LEMMA SweepStarts ==
    ASSUME MatchInit
    PROVE  SweepInv
<1>1. /\ stage = "matching" /\ Validated(accounts, books) /\ trades = <<>> /\ book = 1
      /\ buyIndex = 1 /\ sellIndex = 1 /\ buyRemaining = 0 /\ sellRemaining = 0
  BY DEF MatchInit, MatchStart
<1>2. Traded(trades) /\ \A o : FillsIn(trades, o) = {}
  BY <1>1, NothingTraded
<1>3. Len(books) \in Nat /\ DOMAIN books = 1..Len(books)
  BY <1>1 DEF Validated
<1>4. ASSUME NEW l \in DOMAIN books PROVE BookAt(trades, books[l], 1, 1, 0, 0)
  <2>1. /\ ASide(books[l].buys, books[l].market, "buy", accounts)
        /\ ASide(books[l].sells, books[l].market, "sell", accounts)
    BY <1>1 DEF Validated
  <2> QED BY <1>2, <2>1, SideUntouched DEF BookAt
<1>5. Swept(trades, books, book, buyIndex, sellIndex, buyRemaining, sellRemaining)
  BY <1>1, <1>3, <1>4 DEF Swept
<1> QED BY <1>1, <1>2, <1>3, <1>5 DEF SweepInv

\* Every step keeps the invariant, and what the accounts hold together.
LEMMA SweepStep ==
    ASSUME SweepInv, [MatchNext]_matchVars
    PROVE  /\ SweepInv' /\ SamePeople(accounts, accounts')
           /\ \A x : Held(accounts', x) = Held(accounts, x)
<1>1. CASE Fill
  BY <1>1, FillKeeps
<1>2. CASE NextBook
  BY <1>2, NextBookKeeps DEF NextBook, SamePeople
<1>3. CASE FillFails
  <2>1. /\ UNCHANGED <<accounts, books, book, buyIndex, sellIndex, buyRemaining, sellRemaining, trades>>
        /\ stage' # "matched"
    BY <1>3 DEF FillFails, sweep
  <2> QED BY <2>1 DEF SweepInv, SamePeople
<1>4. CASE EndMatching
  <2>1. /\ UNCHANGED <<accounts, books, book, buyIndex, sellIndex, buyRemaining, sellRemaining, trades>>
        /\ book \notin DOMAIN books
    BY <1>4 DEF EndMatching, sweep
  <2> QED BY <2>1 DEF SweepInv, SamePeople
<1>5. CASE UNCHANGED matchVars
  <2>1. UNCHANGED <<stage, accounts, books, book, buyIndex, sellIndex, buyRemaining, sellRemaining, trades>>
    BY <1>5 DEF matchVars, sweep
  <2> QED BY <2>1 DEF SweepInv, SamePeople
<1> QED BY <1>1, <1>2, <1>3, <1>4, <1>5 DEF MatchNext

\* The invariant of the sweep holds of every state of the matching engine.
THEOREM SweepHolds == MatchSpec => []SweepInv
<1>1. SweepInv /\ [MatchNext]_matchVars => SweepInv'
  BY SweepStep
<1> QED BY SweepStarts, <1>1, PTL DEF MatchSpec

\* Matching moves value between accounts and creates none, rounding and fees included
\* (matching.rs:47-51).
THEOREM MatchingConserves == MatchSpec => TradesConserve
<1>1. SweepInv /\ [MatchNext]_matchVars
        => [stage = "matching" => \A x \in Assets : Held(accounts', x) = Held(accounts, x)]_matchVars
  BY SweepStep
<1> QED BY SweepHolds, <1>1, PTL DEF MatchSpec, TradesConserve

-----------------------------------------------------------------------------
(* What the invariant says of the orders                                   *)

\* The fills of the properties are those of the invariant.
LEMMA FillsAreFillsOf ==
    ASSUME NEW o
    PROVE  /\ FillsOf(o) = FillsIn(trades, o) /\ Filled(o) = FilledIn(trades, o)
           /\ Quoted(o) = QuotedIn(trades, o) /\ Charged(o) = ChargedIn(trades, o)
<1>1. FillsOf(o) = FillsIn(trades, o)
  BY DEF FillsOf, FillsIn, Fills
<1> QED BY <1>1 DEF Filled, Quoted, Charged, FilledIn, QuotedIn, ChargedIn

\* The orders of a side are the orders of its lists.
LEMMA OrdersOfLists ==
    ASSUME NEW bks, NEW side \in {"buy", "sell"}, NEW o \in OrdersOf(bks, side)
    PROVE  \E k \in DOMAIN bks : \E i \in DOMAIN SideOf(bks[k], side) : o = SideOf(bks[k], side)[i]
BY DEF OrdersOf, SideOf, ToSet

\* Where an order of a validated book is, and how far its side is swept.
LEMMA WhereAnOrderIs ==
    ASSUME SweepInv, NEW o \in AllOrders
    PROVE  \E k \in DOMAIN books : \E i \in DOMAIN SideOf(books[k], o.side) : \E at, r :
              /\ o = SideOf(books[k], o.side)[i] /\ o.market = books[k].market
              /\ o.side \in {"buy", "sell"} /\ o.price \in Nat /\ o.quantity \in 1..MaxAmount
              /\ ASide(SideOf(books[k], o.side), books[k].market, o.side, accounts)
              /\ SideAt(trades, SideOf(books[k], o.side), at, r)
<1>1. PICK side \in {"buy", "sell"} : o \in OrdersOf(books, side)
  BY DEF AllOrders
<1>2. PICK k \in DOMAIN books : \E i \in DOMAIN SideOf(books[k], side) :
         o = SideOf(books[k], side)[i]
  BY <1>1, OrdersOfLists
<1>3. PICK i \in DOMAIN SideOf(books[k], side) : o = SideOf(books[k], side)[i]
  BY <1>2
<1>4. ASide(SideOf(books[k], side), books[k].market, side, accounts)
  BY DEF SweepInv, Validated, SideOf
<1>5. /\ o.side = side /\ o.market = books[k].market /\ o.price \in Nat
      /\ o.quantity \in 1..MaxAmount
  BY <1>3, <1>4 DEF ASide
<1>6. \E bi, si, br, sr : BookAt(trades, books[k], bi, si, br, sr)
  <2>1. k \in Int /\ book \in Int
    BY DEF SweepInv, Validated
  <2> QED BY <2>1 DEF SweepInv, Swept
<1>7. \E at, r : SideAt(trades, SideOf(books[k], side), at, r)
  BY <1>6 DEF BookAt, SideOf
<1> QED BY <1>3, <1>4, <1>5, <1>7

\* What the sweep leaves behind is what its trades leave of the orders.
LEMMA SweepAddsUp == SweepInv => FillsAddUp
<1> SUFFICES ASSUME SweepInv PROVE FillsAddUp
  OBVIOUS
<1>1. ASSUME NEW o \in AllOrders PROVE Filled(o) =< o.quantity
  <2>1. PICK k \in DOMAIN books : \E i \in DOMAIN SideOf(books[k], o.side) : \E at, r :
           /\ o = SideOf(books[k], o.side)[i] /\ o.quantity \in 1..MaxAmount
           /\ ASide(SideOf(books[k], o.side), books[k].market, o.side, accounts)
           /\ SideAt(trades, SideOf(books[k], o.side), at, r)
    BY WhereAnOrderIs
  <2> DEFINE list == SideOf(books[k], o.side)
  <2>2. PICK i \in DOMAIN list : \E at, r :
           o = list[i] /\ o.quantity \in 1..MaxAmount /\ SideAt(trades, list, at, r)
           /\ ASide(list, books[k].market, o.side, accounts)
    BY <2>1
  <2>3. PICK at, r :
           o = list[i] /\ o.quantity \in 1..MaxAmount /\ SideAt(trades, list, at, r)
           /\ ASide(list, books[k].market, o.side, accounts)
    BY <2>2
  <2> HIDE DEF list
  <2>4. i \in Int /\ at \in Int /\ r \in Nat /\ o.quantity \in Nat
    BY <2>3, ExchangeAssumption DEF SideAt, ASide
  <2>5. FillsIn(trades, o) = {} => FilledIn(trades, o) = 0
    BY FillsType DEF SweepInv
  <2>6. FilledIn(trades, o) =< o.quantity
    <3>1. CASE i < at
      BY <2>3, <2>4, <3>1 DEF SideAt
    <3>2. CASE i = at
      BY <2>3, <2>4, <3>2 DEF SideAt, Left
    <3>3. CASE i > at
      BY <2>3, <2>4, <2>5, <3>3 DEF SideAt
    <3> QED BY <2>4, <3>1, <3>2, <3>3
  <2> QED BY <2>6, FillsAreFillsOf
<1>2. ASSUME Crosses
      PROVE  /\ Filled(Buys[buyIndex]) = Buys[buyIndex].quantity - Left(buyRemaining, Buys[buyIndex])
             /\ Filled(Sells[sellIndex])
                  = Sells[sellIndex].quantity - Left(sellRemaining, Sells[sellIndex])
  BY <1>2, AtTheOrders, FillsAreFillsOf DEF SideAt
<1> QED BY <1>1, <1>2 DEF FillsAddUp

\* The order of a side is strict.
LEMMA PrecedesOneWay ==
    ASSUME NEW o, NEW p, o.side = p.side, o.price \in Nat, p.price \in Nat,
           o.sequence \in Nat, p.sequence \in Nat, Precedes(o, p)
    PROVE  ~Precedes(p, o)
BY DEF Precedes

\* An order that trades has nothing left before it.
LEMMA SweepPrioritises == SweepInv => PriceTimePriority
<1> SUFFICES ASSUME SweepInv, NEW o \in AllOrders, NEW p \in AllOrders,
                    o.market = p.market, o.side = p.side, Precedes(o, p), FillsOf(p) # {}
             PROVE  Filled(o) = o.quantity
  BY DEF PriceTimePriority
<1> DEFINE side == o.side
<1>1. \E k \in DOMAIN books : \E i \in DOMAIN SideOf(books[k], side) : \E at, r :
         /\ o = SideOf(books[k], side)[i] /\ o.market = books[k].market
         /\ ASide(SideOf(books[k], side), books[k].market, side, accounts)
         /\ SideAt(trades, SideOf(books[k], side), at, r)
  BY WhereAnOrderIs
<1>2. \E l \in DOMAIN books : \E j \in DOMAIN SideOf(books[l], side) :
         p = SideOf(books[l], side)[j] /\ p.market = books[l].market
  BY WhereAnOrderIs
<1>3. PICK k \in DOMAIN books : \E i \in DOMAIN SideOf(books[k], side) : \E at, r :
         /\ o = SideOf(books[k], side)[i] /\ o.market = books[k].market
         /\ ASide(SideOf(books[k], side), books[k].market, side, accounts)
         /\ SideAt(trades, SideOf(books[k], side), at, r)
  BY <1>1
<1>4. PICK l \in DOMAIN books : \E j \in DOMAIN SideOf(books[l], side) :
         p = SideOf(books[l], side)[j] /\ p.market = books[l].market
  BY <1>2
<1>5. l = k
  BY <1>3, <1>4 DEF SweepInv, Validated
<1> DEFINE list == SideOf(books[k], side)
<1>6. PICK i \in DOMAIN list : \E at, r :
         o = list[i] /\ ASide(list, books[k].market, side, accounts) /\ SideAt(trades, list, at, r)
  BY <1>3
<1>7. PICK at, r :
         o = list[i] /\ ASide(list, books[k].market, side, accounts) /\ SideAt(trades, list, at, r)
  BY <1>6
<1>8. PICK j \in DOMAIN list : p = list[j]
  BY <1>4, <1>5
<1> HIDE DEF list, side
<1>9. /\ i \in DOMAIN list /\ j \in DOMAIN list /\ o = list[i] /\ p = list[j]
      /\ ASide(list, books[k].market, side, accounts) /\ SideAt(trades, list, at, r)
  BY <1>8, <1>7
<1>10. /\ i \in Int /\ j \in Int /\ at \in Int
       /\ o.price \in Nat /\ p.price \in Nat /\ o.sequence \in Nat /\ p.sequence \in Nat
  BY <1>9 DEF ASide, SideAt
<1>11. ~Precedes(p, o) /\ ~Precedes(o, o)
  <2>1. ~Precedes(p, o)
    BY <1>10, PrecedesOneWay
  <2>2. ~Precedes(o, o)
    BY <1>10 DEF Precedes
  <2> QED BY <2>1, <2>2
<1>12. ~(j < i) /\ i # j
  BY <1>9, <1>11 DEF ASide
<1>13. ~(j > at)
  BY <1>9, FillsAreFillsOf DEF SideAt
<1>14. i < at
  BY <1>10, <1>12, <1>13
<1> QED BY <1>9, <1>14, FillsAreFillsOf DEF SideAt

\* When every book is swept no two unfilled orders cross.
LEMMA SweptIsMaximal ==
    ASSUME SweepInv, book \notin DOMAIN books,
           NEW b \in OrdersOf(books, "buy"), NEW s \in OrdersOf(books, "sell"),
           b.market = s.market, b.price >= s.price
    PROVE  Filled(b) = b.quantity \/ Filled(s) = s.quantity
<1> SUFFICES ASSUME Filled(b) # b.quantity, Filled(s) # s.quantity PROVE FALSE
  OBVIOUS
<1>1. /\ Validated(accounts, books) /\ Len(books) \in Nat /\ DOMAIN books = 1..Len(books)
      /\ book \in 1..(Len(books) + 1) /\ book \notin DOMAIN books
  BY DEF SweepInv, Validated
<1>2. PICK k \in DOMAIN books : \E i \in DOMAIN books[k].buys : b = books[k].buys[i]
  <2>1. \E k \in DOMAIN books : \E i \in DOMAIN SideOf(books[k], "buy") :
            b = SideOf(books[k], "buy")[i]
    BY OrdersOfLists
  <2> QED BY <2>1 DEF SideOf
<1>3. PICK i \in DOMAIN books[k].buys : b = books[k].buys[i]
  BY <1>2
<1>4. PICK l \in DOMAIN books : \E j \in DOMAIN books[l].sells : s = books[l].sells[j]
  <2>1. \E l \in DOMAIN books : \E j \in DOMAIN SideOf(books[l], "sell") :
            s = SideOf(books[l], "sell")[j]
    BY OrdersOfLists
  <2> QED BY <2>1 DEF SideOf
<1>5. PICK j \in DOMAIN books[l].sells : s = books[l].sells[j]
  BY <1>4
<1> DEFINE buys == books[k].buys
           sells == books[k].sells
           m == books[k].market
<1>6. l = k
  <2>1. ASide(books[k].buys, books[k].market, "buy", accounts)
        /\ ASide(books[l].sells, books[l].market, "sell", accounts)
    BY <1>1 DEF Validated
  <2>2. b.market = books[k].market /\ s.market = books[l].market
    BY <1>3, <1>5, <2>1 DEF ASide
  <2> QED BY <1>1, <2>2 DEF Validated
<1>7. ASide(buys, m, "buy", accounts) /\ ASide(sells, m, "sell", accounts)
  BY <1>1 DEF Validated
<1>8. k < book
  BY <1>1
<1>9. PICK bi, si, br, sr : BookAt(trades, books[k], bi, si, br, sr) /\ Stuck(books[k], bi, si)
  BY <1>8 DEF SweepInv, Swept
<1>10. /\ SideAt(trades, buys, bi, br) /\ SideAt(trades, sells, si, sr)
       /\ bi \in DOMAIN buys /\ si \in DOMAIN sells => buys[bi].price < sells[si].price
  BY <1>9 DEF BookAt, Stuck
<1>11. i \in DOMAIN buys /\ b = buys[i] /\ j \in DOMAIN sells /\ s = sells[j]
  BY <1>3, <1>5, <1>6
<1> HIDE DEF buys, sells, m
<1>12. /\ FilledIn(trades, b) # b.quantity /\ FilledIn(trades, s) # s.quantity
  BY FillsAreFillsOf
<1>13. /\ i \in Int /\ j \in Int /\ bi \in Int /\ si \in Int
       /\ ~(i < bi) /\ ~(j < si)
  BY <1>7, <1>10, <1>11, <1>12 DEF ASide, SideAt
<1>14. bi \in DOMAIN buys /\ si \in DOMAIN sells
  BY <1>7, <1>10, <1>11, <1>13 DEF ASide, SideAt
<1>15. /\ buys[bi].price \in Nat /\ sells[si].price \in Nat
       /\ b.price \in Nat /\ s.price \in Nat
  BY <1>7, <1>11, <1>14 DEF ASide
<1>16. b.price =< buys[bi].price
  <2>1. CASE i = bi
    BY <1>11, <1>15, <2>1
  <2>2. CASE bi < i
    <3>1. Precedes(buys[bi], b) /\ buys[bi].side = "buy"
      BY <1>7, <1>11, <1>14, <2>2 DEF ASide
    <3> QED BY <1>15, <3>1 DEF Precedes
  <2> QED BY <1>13, <2>1, <2>2
<1>17. sells[si].price =< s.price
  <2>1. CASE j = si
    BY <1>11, <1>15, <2>1
  <2>2. CASE si < j
    <3>1. Precedes(sells[si], s) /\ sells[si].side = "sell"
      BY <1>7, <1>11, <1>14, <2>2 DEF ASide
    <3> QED BY <1>15, <3>1 DEF Precedes
  <2> QED BY <1>13, <2>1, <2>2
<1> QED BY <1>10, <1>14, <1>15, <1>16, <1>17

\* So it is when matching ends.
LEMMA SweepIsMaximal == SweepInv => NoCrossLeft
BY SweptIsMaximal DEF SweepInv, NoCrossLeft

\* The list of accounts and the positions keep their form.
LEMMA SweepTypes == SweepInv => MatchTypeOK
<1> SUFFICES ASSUME SweepInv PROVE MatchTypeOK
  OBVIOUS
<1>1. Validated(accounts, books) /\ book \in 1..(Len(books) + 1)
  BY DEF SweepInv
<1>2. Canonical(accounts) /\ accounts \in Seq(AnAccount)
  BY <1>1 DEF Validated
<1>3. \A i \in DOMAIN accounts : \A x \in Assets : Balance(accounts[i], x) \in 0..MaxAmount
  <2>1. \A i \in DOMAIN accounts : accounts[i] \in AnAccount
    BY <1>2
  <2> QED BY <2>1, BalanceType
<1>4. ASSUME book \in DOMAIN books
      PROVE  /\ buyIndex \in 1..(Len(Buys) + 1) /\ sellIndex \in 1..(Len(Sells) + 1)
             /\ buyRemaining \in 0..MaxAmount /\ sellRemaining \in 0..MaxAmount
  <2>1. /\ SideAt(trades, Buys, buyIndex, buyRemaining)
        /\ SideAt(trades, Sells, sellIndex, sellRemaining)
    BY <1>4 DEF SweepInv, Swept, BookAt, Buys, Sells
  <2>2. /\ ASide(Buys, books[book].market, "buy", accounts)
        /\ ASide(Sells, books[book].market, "sell", accounts)
    BY <1>1, <1>4 DEF Validated, Buys, Sells
  <2>3. MaxAmount \in Nat
    BY ExchangeAssumption
  <2>4. buyIndex \in 1..(Len(Buys) + 1) /\ buyRemaining \in 0..MaxAmount
    BY <2>1, <2>2, <2>3 DEF SideAt, ASide
  <2>5. sellIndex \in 1..(Len(Sells) + 1) /\ sellRemaining \in 0..MaxAmount
    BY <2>1, <2>2, <2>3 DEF SideAt, ASide
  <2> QED BY <2>4, <2>5
<1> QED BY <1>1, <1>2, <1>3, <1>4 DEF MatchTypeOK

-----------------------------------------------------------------------------
(* What the fills of an order cost its owner                               *)

\* A buyer has paid at most its limit for what it got, and at most the fee of it.
BuyTerms(ts, o, scale) ==
    /\ QuotedIn(ts, o) * scale =< FilledIn(ts, o) * o.price
    /\ ChargedIn(ts, o) * BPS =< QuotedIn(ts, o) * BuyerFeeBps

\* A seller has lost less than one quote unit per fill to rounding.
SellTerms(ts, o, scale) ==
    FilledIn(ts, o) * o.price
      =< QuotedIn(ts, o) * scale + Cardinality(FillsIn(ts, o)) * (scale - 1)

\* Every order of the books is on its terms.
TermsInv ==
    \A k \in DOMAIN books :
        /\ \A i \in DOMAIN books[k].buys :
              BuyTerms(trades, books[k].buys[i], Scale[Markets[books[k].market].base])
        /\ \A i \in DOMAIN books[k].sells :
              SellTerms(trades, books[k].sells[i], Scale[Markets[books[k].market].base])

\* The terms of one more fill add to those of the fills before it.
LEMMA BuyTermsKept ==
    ASSUME NEW ts, Traded(ts), NEW t, t.quantity \in Nat, t.quote \in Nat, t.fee \in Nat,
           NEW o, o.price \in Nat, NEW scale \in Nat, NEW sell,
           Fills(t, o) => Terms(t, o, sell, scale), BuyTerms(ts, o, scale)
    PROVE  BuyTerms(Append(ts, t), o, scale)
<1> DEFINE new == Append(ts, t)
           F == FilledIn(ts, o)
           Q == QuotedIn(ts, o)
           C == ChargedIn(ts, o)
<1>1. F \in Nat /\ Q \in Nat /\ C \in Nat /\ BPS \in Nat /\ BuyerFeeBps \in Nat
  BY FillsType, ExchangeAssumption DEF BPS
<1>2. Q * scale =< F * o.price /\ C * BPS =< Q * BuyerFeeBps
  BY DEF BuyTerms
<1>3. CASE Fills(t, o)
  <2>1. /\ FilledIn(new, o) = F + t.quantity /\ QuotedIn(new, o) = Q + t.quote
        /\ ChargedIn(new, o) = C + t.fee
    BY <1>3, FillsAppend
  <2>2. t.quote * scale =< t.quantity * o.price /\ t.fee * BPS =< t.quote * BuyerFeeBps
    BY <1>3 DEF Terms
  <2> HIDE DEF new, F, Q, C
  <2>3. /\ (Q + t.quote) * scale = Q * scale + t.quote * scale
        /\ Q * scale \in Int /\ t.quote * scale \in Int
    BY <1>1, ProductOfSum
  <2>4. /\ (F + t.quantity) * o.price = F * o.price + t.quantity * o.price
        /\ F * o.price \in Int /\ t.quantity * o.price \in Int
    BY <1>1, ProductOfSum
  <2>5. /\ (C + t.fee) * BPS = C * BPS + t.fee * BPS /\ C * BPS \in Int /\ t.fee * BPS \in Int
    BY <1>1, ProductOfSum
  <2>6. /\ (Q + t.quote) * BuyerFeeBps = Q * BuyerFeeBps + t.quote * BuyerFeeBps
        /\ Q * BuyerFeeBps \in Int /\ t.quote * BuyerFeeBps \in Int
    BY <1>1, ProductOfSum
  <2>7. (Q + t.quote) * scale =< (F + t.quantity) * o.price
    BY <1>2, <2>2, <2>3, <2>4
  <2>8. (C + t.fee) * BPS =< (Q + t.quote) * BuyerFeeBps
    BY <1>2, <2>2, <2>5, <2>6
  <2>9. BuyTerms(new, o, scale)
    BY <2>1, <2>7, <2>8 DEF BuyTerms
  <2> QED BY <2>9 DEF new
<1>4. CASE ~Fills(t, o)
  <2>1. FilledIn(new, o) = F /\ QuotedIn(new, o) = Q /\ ChargedIn(new, o) = C
    BY <1>4, FillsAppend
  <2> QED BY <1>2, <2>1 DEF BuyTerms
<1> QED BY <1>3, <1>4

\* The same for a seller.
LEMMA SellTermsKept ==
    ASSUME NEW ts, Traded(ts), NEW t, t.quantity \in Nat, t.quote \in Nat, t.fee \in Nat,
           NEW o, o.price \in Nat, NEW scale \in Nat \ {0}, NEW buy,
           Fills(t, o) => Terms(t, buy, o, scale), SellTerms(ts, o, scale)
    PROVE  SellTerms(Append(ts, t), o, scale)
<1> DEFINE new == Append(ts, t)
           F == FilledIn(ts, o)
           Q == QuotedIn(ts, o)
           n == Cardinality(FillsIn(ts, o))
           s == scale - 1
<1>1. F \in Nat /\ Q \in Nat /\ n \in Nat /\ s \in Nat /\ scale \in Nat
  BY FillsType, FS_CardinalityType
<1>2. F * o.price =< Q * scale + n * s
  BY DEF SellTerms
<1>3. CASE Fills(t, o)
  <2>1. /\ FilledIn(new, o) = F + t.quantity /\ QuotedIn(new, o) = Q + t.quote
        /\ FillsIn(new, o) = FillsIn(ts, o) \cup {Len(ts) + 1}
        /\ Len(ts) + 1 \notin FillsIn(ts, o)
    BY <1>3, FillsAppend
  <2>2. Cardinality(FillsIn(new, o)) = n + 1
    <3>1. IsFiniteSet(FillsIn(ts, o))
      BY FillsType
    <3> HIDE DEF new
    <3> QED BY <2>1, <3>1, FS_AddElement
  <2>3. t.quantity * o.price =< t.quote * scale + s
    BY <1>3 DEF Terms
  <2>4. SellTerms(new, o, scale) <=> (F + t.quantity) * o.price =< (Q + t.quote) * scale + (n + 1) * s
    BY <2>1, <2>2 DEF SellTerms
  <2> HIDE DEF new, F, Q, n, s
  <2>5. /\ (Q + t.quote) * scale = Q * scale + t.quote * scale
        /\ Q * scale \in Int /\ t.quote * scale \in Int
    BY <1>1, ProductOfSum
  <2>6. /\ (F + t.quantity) * o.price = F * o.price + t.quantity * o.price
        /\ F * o.price \in Int /\ t.quantity * o.price \in Int
    BY <1>1, ProductOfSum
  <2>7. (n + 1) * s = n * s + s /\ n * s \in Int
    BY <1>1, ProductOfSum
  <2>8. (F + t.quantity) * o.price =< (Q + t.quote) * scale + (n + 1) * s
    BY <1>1, <1>2, <2>3, <2>5, <2>6, <2>7
  <2>9. SellTerms(new, o, scale)
    BY <2>4, <2>8
  <2> QED BY <2>9 DEF new
<1>4. CASE ~Fills(t, o)
  <2>1. FilledIn(new, o) = F /\ QuotedIn(new, o) = Q /\ FillsIn(new, o) = FillsIn(ts, o)
    BY <1>4, FillsAppend
  <2> QED BY <1>2, <2>1 DEF SellTerms
<1> QED BY <1>3, <1>4

\* A fill keeps every order on its terms.
LEMMA FillKeepsTerms ==
    ASSUME SweepInv, TermsInv, Fill
    PROVE  TermsInv'
<1> DEFINE buy == Buys[buyIndex]
           sell == Sells[sellIndex]
           t == NextTrade
           Base(k) == Scale[Markets[books[k].market].base]
<1>0. Crosses /\ books' = books /\ trades' = Append(trades, t)
  BY DEF Fill
<1>1. /\ book \in DOMAIN books /\ buyIndex \in DOMAIN Buys /\ sellIndex \in DOMAIN Sells
      /\ ATrade(t) /\ t.buy = buy.sequence /\ t.sell = sell.sequence
      /\ Terms(t, buy, sell, Base(book))
  BY <1>0, AtTheOrders
<1>2. Validated(accounts, books) /\ Traded(trades)
  BY DEF SweepInv
<1>3. t.quantity \in Nat /\ t.quote \in Nat /\ t.fee \in Nat
  BY <1>1 DEF ATrade
<1> HIDE DEF t
<1>4. \A l \in DOMAIN books :
         /\ \A x \in DOMAIN books[l].buys :
               Fills(t, books[l].buys[x]) <=> l = book /\ x = buyIndex
         /\ \A x \in DOMAIN books[l].sells :
               Fills(t, books[l].sells[x]) <=> l = book /\ x = sellIndex
  BY <1>1, <1>2, FillsItsOrders DEF Buys, Sells
<1>5. ASSUME NEW k \in DOMAIN books
      PROVE  /\ \A i \in DOMAIN books[k].buys : BuyTerms(trades', books[k].buys[i], Base(k))
             /\ \A i \in DOMAIN books[k].sells : SellTerms(trades', books[k].sells[i], Base(k))
  <2>1. /\ Base(k) \in Nat \ {0}
        /\ \A i \in DOMAIN books[k].buys : books[k].buys[i].price \in Nat
        /\ \A i \in DOMAIN books[k].sells : books[k].sells[i].price \in Nat
    BY <1>2 DEF Validated, ASide
  <2>2. ASSUME NEW i \in DOMAIN books[k].buys
        PROVE  BuyTerms(trades', books[k].buys[i], Base(k))
    <3> DEFINE o == books[k].buys[i]
    <3>1. Fills(t, o) => Terms(t, o, sell, Base(k))
      BY <1>1, <1>4 DEF Buys
    <3>2. BuyTerms(trades, o, Base(k))
      BY DEF TermsInv
    <3>3. o.price \in Nat
      BY <2>1
    <3> HIDE DEF o, sell, Base
    <3> QED BY <1>0, <1>2, <1>3, <2>1, <3>1, <3>2, <3>3, BuyTermsKept DEF o
  <2>3. ASSUME NEW i \in DOMAIN books[k].sells
        PROVE  SellTerms(trades', books[k].sells[i], Base(k))
    <3> DEFINE o == books[k].sells[i]
    <3>1. Fills(t, o) => Terms(t, buy, o, Base(k))
      BY <1>1, <1>4 DEF Sells
    <3>2. SellTerms(trades, o, Base(k))
      BY DEF TermsInv
    <3>3. o.price \in Nat
      BY <2>1
    <3> HIDE DEF o, buy, Base
    <3> QED BY <1>0, <1>2, <1>3, <2>1, <3>1, <3>2, <3>3, SellTermsKept DEF o
  <2> QED BY <2>2, <2>3
<1> QED BY <1>0, <1>5 DEF TermsInv

\* An order that has not traded is on its terms.
LEMMA TermsStart ==
    ASSUME MatchInit
    PROVE  TermsInv
<1>1. Validated(accounts, books) /\ trades = <<>>
  BY DEF MatchInit, MatchStart
<1>2. \A o : /\ FillsIn(trades, o) = {} /\ FilledIn(trades, o) = 0
             /\ QuotedIn(trades, o) = 0 /\ ChargedIn(trades, o) = 0
  BY <1>1, NothingTraded, FillsType
<1>3. BPS \in Nat /\ BuyerFeeBps \in Nat
  BY ExchangeAssumption DEF BPS
<1>4. ASSUME NEW o, o.price \in Nat, NEW scale \in Nat \ {0}
      PROVE  BuyTerms(trades, o, scale) /\ SellTerms(trades, o, scale)
  <2>1. 0 * scale = 0 /\ 0 * o.price = 0 /\ 0 * BPS = 0 /\ 0 * BuyerFeeBps = 0
        /\ 0 * (scale - 1) = 0
    BY <1>3, <1>4
  <2>2. Cardinality(FillsIn(trades, o)) = 0
    BY <1>2, FS_EmptySet
  <2> QED BY <1>2, <2>1, <2>2 DEF BuyTerms, SellTerms
<1> QED BY <1>1, <1>4 DEF TermsInv, Validated, ASide

\* Every step of the sweep keeps every order on its terms.
LEMMA TermsStep == SweepInv /\ TermsInv /\ [MatchNext]_matchVars => TermsInv'
<1> SUFFICES ASSUME SweepInv, TermsInv, [MatchNext]_matchVars PROVE TermsInv'
  OBVIOUS
<1>1. CASE Fill
  BY <1>1, FillKeepsTerms
<1>2. CASE FillFails \/ NextBook \/ EndMatching \/ UNCHANGED matchVars
  <2>1. books' = books /\ trades' = trades
    BY <1>2 DEF FillFails, NextBook, EndMatching, matchVars
  <2> QED BY <2>1 DEF TermsInv
<1> QED BY <1>1, <1>2 DEF MatchNext

\* The terms of the invariant are those of the properties.
LEMMA TermsAreHonoured == SweepInv /\ TermsInv => TermsHonoured
<1> SUFFICES ASSUME SweepInv, TermsInv PROVE TermsHonoured
  OBVIOUS
<1>1. Validated(accounts, books) /\ Traded(trades)
  BY DEF SweepInv
<1>2. ASSUME NEW o \in OrdersOf(books, "buy")
      PROVE  o.side = "buy" /\ BuyTerms(trades, o, Scale[Markets[o.market].base])
  <2>1. \E k \in DOMAIN books : \E i \in DOMAIN SideOf(books[k], "buy") :
            o = SideOf(books[k], "buy")[i]
    BY OrdersOfLists
  <2>2. PICK k \in DOMAIN books : \E i \in DOMAIN books[k].buys : o = books[k].buys[i]
    BY <2>1 DEF SideOf
  <2>3. o.market = books[k].market /\ o.side = "buy"
    BY <1>1, <2>2 DEF Validated, ASide
  <2> QED BY <2>2, <2>3 DEF TermsInv
<1>3. ASSUME NEW o \in OrdersOf(books, "sell")
      PROVE  o.side = "sell" /\ SellTerms(trades, o, Scale[Markets[o.market].base])
             /\ Scale[Markets[o.market].base] \in Nat /\ o.price \in Nat
  <2>1. \E k \in DOMAIN books : \E i \in DOMAIN SideOf(books[k], "sell") :
            o = SideOf(books[k], "sell")[i]
    BY OrdersOfLists
  <2>2. PICK k \in DOMAIN books : \E i \in DOMAIN books[k].sells : o = books[k].sells[i]
    BY <2>1 DEF SideOf
  <2>3. o.market = books[k].market /\ o.side = "sell" /\ o.price \in Nat
        /\ Scale[Markets[books[k].market].base] \in Nat
    BY <1>1, <2>2 DEF Validated, ASide
  <2> QED BY <2>2, <2>3 DEF TermsInv
<1>4. FeesBounded
  BY <1>2, FillsAreFillsOf DEF FeesBounded, BuyTerms
<1>5. ASSUME NEW o \in AllOrders
      PROVE  LET scale == Scale[Markets[o.market].base]
             IN  IF o.side = "buy" THEN Quoted(o) * scale =< Filled(o) * o.price
                 ELSE Quoted(o) * scale + Cardinality(FillsOf(o)) * (scale - 1)
                        >= Filled(o) * o.price
  <2>1. CASE o \in OrdersOf(books, "buy")
    BY <1>2, <2>1, FillsAreFillsOf DEF BuyTerms
  <2>2. CASE o \in OrdersOf(books, "sell")
    <3> DEFINE scale == Scale[Markets[o.market].base]
    <3>1. FilledIn(trades, o) * o.price
            =< QuotedIn(trades, o) * scale + Cardinality(FillsIn(trades, o)) * (scale - 1)
      BY <1>3, <2>2 DEF SellTerms
    <3>2. o.side # "buy"
      BY <1>3, <2>2
    <3> QED BY <3>1, <3>2, FillsAreFillsOf
  <2> QED BY <2>1, <2>2 DEF AllOrders
<1>6. LimitsHonoured
  BY <1>5 DEF LimitsHonoured
<1> QED BY <1>4, <1>6 DEF TermsHonoured

-----------------------------------------------------------------------------

\* The account list stays one the guest would accept as a witness, and the sweep stays in
\* its books, however the trades move the balances (account.rs:51-91, matching.rs:78-116).
THEOREM MatchTypes == MatchSpec => []MatchTypeOK
BY SweepHolds, SweepTypes, PTL

\* No order ever trades more than its quantity, and the remainders the two positions carry
\* are what the trades leave of their orders (matching.rs:78-116).
THEOREM NoOverfill == MatchSpec => []FillsAddUp
BY SweepHolds, SweepAddsUp, PTL

\* An order trades only once every order with priority over it is filled (matching.rs:77-117).
THEOREM PriorityHolds == MatchSpec => []PriceTimePriority
BY SweepHolds, SweepPrioritises, PTL

\* Matching ends only when no two unfilled orders of a market cross (matching.rs:87-89).
THEOREM MatchingIsMaximal == MatchSpec => []NoCrossLeft
BY SweepHolds, SweepIsMaximal, PTL

\* However an order is cut into fills, its owner pays no more than the limit price and the
\* fee rate allow (matching.rs:32-42, 92-96).
THEOREM TermsHold == MatchSpec => []TermsHonoured
BY SweepHolds, TermsStart, TermsStep, TermsAreHonoured, PTL DEF MatchSpec
=============================================================================
