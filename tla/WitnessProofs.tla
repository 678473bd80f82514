---------------------------- MODULE WitnessProofs ----------------------------
(***************************************************************************)
(* The account list of settle_batch, read by the ids of its accounts and   *)
(* not by their places: what deposits, forced withdrawals and withdrawals  *)
(* do to it, whatever indices the host attaches to them.                   *)
(***************************************************************************)
EXTENDS Settlement, MatchingProofs

Deposits == INSTANCE FoldTheorems WITH Step <- ThenDeposit
Drains   == INSTANCE FoldTheorems WITH Step <- Drain

(* Sorted lists                                                            *)

\* A transitive relation that holds of neighbours holds of any two in order: what the
\* code checks of consecutive entries is true of all.
LEMMA Neighbours ==
    ASSUME NEW n \in Nat, NEW R,
           \A i \in 1..(n - 1) : <<i, i + 1>> \in R,
           \A i, j, k \in 1..n : <<i, j>> \in R /\ <<j, k>> \in R => <<i, k>> \in R
    PROVE  \A i, j \in 1..n : i < j => <<i, j>> \in R
<1> SUFFICES ASSUME NEW i \in 1..n, NEW j \in 1..n, i < j
             PROVE  <<i, j>> \in R
  OBVIOUS
<1> DEFINE m == j - i - 1
           Q == {d \in 0..m : <<i, i + d + 1>> \in R}
<1>1. m \in Nat /\ i + m + 1 = j
  OBVIOUS
<1>2. 0 \in Q
  <2>1. i \in 1..(n - 1) /\ 0 \in 0..m /\ i + 0 + 1 = i + 1
    BY <1>1
  <2> QED BY <2>1
<1>3. ASSUME NEW d \in 0..(m - 1), d \in Q PROVE d + 1 \in Q
  <2>1. /\ d + 1 \in 0..m /\ i + d + 1 \in 1..(n - 1)
        /\ i + (d + 1) + 1 = (i + d + 1) + 1 /\ (i + d + 1) + 1 \in 1..n /\ i + d + 1 \in 1..n
    BY <1>1
  <2>2. <<i, i + d + 1>> \in R
    BY <1>3
  <2> DEFINE k == i + d + 1
  <2>3. <<i, k>> \in R /\ k \in 1..(n - 1) /\ k \in 1..n /\ k + 1 \in 1..n
    BY <2>1, <2>2
  <2> HIDE DEF k
  <2>4. <<k, k + 1>> \in R
    BY <2>3
  <2>5. <<i, k + 1>> \in R
    BY <2>3, <2>4
  <2> QED BY <2>1, <2>5 DEF k
<1>4. m \in Q
  <2> HIDE DEF Q, m
  <2> QED BY <1>1, <1>2, <1>3, CountingInduction
<1> QED BY <1>1, <1>4

\* Every account of a list the guest accepts comes before those after it.
LEMMA CanonicalIsSorted ==
    ASSUME NEW accs \in Seq(AnAccount), Canonical(accs)
    PROVE  /\ \A i, j \in DOMAIN accs : i < j => accs[i].id < accs[j].id
           /\ \A i, j \in DOMAIN accs : accs[i].id = accs[j].id => i = j
           /\ \A i \in DOMAIN accs : accs[i].id \in Int
<1> DEFINE n == Len(accs)
           R == {p \in (1..n) \X (1..n) : accs[p[1]].id < accs[p[2]].id}
<1>1. n \in Nat /\ DOMAIN accs = 1..n /\ \A i \in 1..n : accs[i].id \in Int
  <2>1. n \in Nat /\ DOMAIN accs = 1..n /\ \A i \in 1..n : accs[i] \in AnAccount
    OBVIOUS
  <2> QED BY <2>1 DEF AnAccount
<1>2. \A i \in 1..(n - 1) : <<i, i + 1>> \in R
  BY <1>1 DEF Canonical
<1>3. \A i, j, k \in 1..n : <<i, j>> \in R /\ <<j, k>> \in R => <<i, k>> \in R
  BY <1>1
<1>4. \A i, j \in 1..n : i < j => <<i, j>> \in R
  <2> HIDE DEF R, n
  <2> QED BY <1>1, <1>2, <1>3, Neighbours
<1>5. \A i, j \in 1..n : i < j => accs[i].id < accs[j].id
  BY <1>4
<1>6. ASSUME NEW i \in 1..n, NEW j \in 1..n, accs[i].id = accs[j].id PROVE i = j
  <2>1. i \in Int /\ j \in Int /\ accs[i].id \in Int
    BY <1>1
  <2>2. ~(i < j) /\ ~(j < i)
    BY <1>5, <1>6, <2>1
  <2> QED BY <2>1, <2>2
<1> QED BY <1>1, <1>5, <1>6

\* The positions of a list before which a condition holds, and after which it does not,
\* are as many as the first of them says: what the code's binary search finds.
LEMMA FirstPositions ==
    ASSUME NEW n \in Nat, NEW D \in SUBSET (1..n),
           \A i \in D : \A j \in 1..n : j < i => j \in D
    PROVE  D = 1..Cardinality(D) /\ Cardinality(D) \in 0..n
<1> DEFINE Q == {m \in 0..n : D \cap (1..m) = 1..Cardinality(D \cap (1..m))
                              /\ Cardinality(D \cap (1..m)) \in 0..m}
<1>1. 0 \in Q
  <2>1. D \cap (1..0) = {} /\ 1..0 = {}
    OBVIOUS
  <2>2. Cardinality(D \cap (1..0)) = 0
    BY <2>1, FS_EmptySet
  <2> QED BY <2>1, <2>2
<1>2. ASSUME NEW m \in 0..(n - 1), m \in Q PROVE m + 1 \in Q
  <2> DEFINE E == D \cap (1..m)
             F == D \cap (1..(m + 1))
             c == Cardinality(E)
  <2>1. E = 1..c /\ c \in 0..m /\ m \in Nat /\ m + 1 \in 0..n /\ m + 1 \in 1..n
    BY <1>2
  <2>2. CASE m + 1 \in D
    <3>1. F = 1..(m + 1)
      BY <2>1, <2>2
    <3>2. Cardinality(F) = m + 1
      <4>1. 1 \in Int /\ m + 1 \in Int /\ ~(1 > m + 1) /\ (m + 1) - 1 + 1 = m + 1
        BY <2>1
      <4>2. Cardinality(1..(m + 1)) = m + 1
        BY <4>1, FS_Interval
      <4> QED BY <3>1, <4>2
    <3> QED BY <2>1, <3>1, <3>2
  <2>3. CASE m + 1 \notin D
    <3>1. F = E
      BY <2>1, <2>3
    <3> QED BY <2>1, <3>1
  <2> QED BY <2>2, <2>3
<1>3. n \in Q
  <2> HIDE DEF Q
  <2> QED BY <1>1, <1>2, CountingInduction
<1>4. D \cap (1..n) = D
  OBVIOUS
<1> QED BY <1>3, <1>4

(* An entry of a list by its id                                            *)

\* Somebody the list lists.
Has(accs, id) == \E i \in DOMAIN accs : accs[i].id = id

IdsOf(accs) == {accs[i].id : i \in DOMAIN accs}

\* Where it lists it.
PlaceOf(accs, id) == CHOOSE i \in DOMAIN accs : accs[i].id = id

\* What the list says of an id: nothing held and no nonce used where it lists nobody.
BalanceFor(accs, id, x) == IF Has(accs, id) THEN Balance(accs[PlaceOf(accs, id)], x) ELSE 0

NonceFor(accs, id) == IF Has(accs, id) THEN accs[PlaceOf(accs, id)].nonce ELSE 0

\* An account is where its id is.
LEMMA AtItsPlace ==
    ASSUME NEW accs \in Seq(AnAccount), Canonical(accs), NEW i \in DOMAIN accs
    PROVE  /\ Has(accs, accs[i].id) /\ PlaceOf(accs, accs[i].id) = i
           /\ NonceFor(accs, accs[i].id) = accs[i].nonce
           /\ \A x : BalanceFor(accs, accs[i].id, x) = Balance(accs[i], x)
<1> DEFINE id == accs[i].id
           j == PlaceOf(accs, id)
<1>1. Has(accs, id)
  BY DEF Has
<1>2. j \in DOMAIN accs /\ accs[j].id = id
  BY DEF PlaceOf
<1>3. j = i
  <2> HIDE DEF j
  <2> QED BY <1>2, CanonicalIsSorted
<1> QED BY <1>1, <1>3 DEF NonceFor, BalanceFor

\* What a list says of somebody is what the account code can hold.
LEMMA ForType ==
    ASSUME NEW accs \in Seq(AnAccount), NEW id, NEW x
    PROVE  BalanceFor(accs, id, x) \in 0..MaxAmount /\ NonceFor(accs, id) \in Nat
<1>1. CASE Has(accs, id)
  <2>1. PlaceOf(accs, id) \in DOMAIN accs
    BY <1>1 DEF Has, PlaceOf
  <2>2. accs[PlaceOf(accs, id)] \in AnAccount
    BY <2>1
  <2> QED BY <1>1, <2>2, BalanceType DEF BalanceFor, NonceFor, AnAccount
<1>2. CASE ~Has(accs, id)
  BY <1>2, ExchangeAssumption DEF BalanceFor, NonceFor
<1> QED BY <1>1, <1>2

\* What a list of people holds of an asset, person by person: nobody else holds any.
LEMMA HeldByPeople ==
    ASSUME NEW accs \in Seq(AnAccount), Canonical(accs), NEW x,
           NEW S, IsFiniteSet(S), IdsOf(accs) \subseteq S
    PROVE  LET f == [id \in S |-> BalanceFor(accs, id, x)]
           IN  Held(accs, x) = SumFunctionOnSet(f, S) /\ \A id \in S : f[id] \in Nat
<1> DEFINE D == DOMAIN accs
           I == IdsOf(accs)
           f == [id \in S |-> BalanceFor(accs, id, x)]
           g == [i \in D |-> Balance(accs[i], x)]
           h == [i \in D |-> accs[i].id]
<1>1. /\ Held(accs, x) = SumFunctionOnSet(g, D) /\ IsFiniteSet(D)
      /\ \A i \in D : g[i] = Balance(accs[i], x) /\ g[i] \in Nat
  BY HeldIsSum
<1>2. IsFiniteSet(I)
  BY FS_Subset
<1>3. \A i, j \in D : h[i] = h[j] => i = j
  BY CanonicalIsSorted
<1>4. \A i \in D : h[i] \in I
  BY DEF IdsOf
<1>5. \A t \in I : \E i \in D : h[i] = t
  BY DEF IdsOf
<1>6. \A i \in D : BalanceFor(accs, accs[i].id, x) = Balance(accs[i], x)
  BY AtItsPlace
<1>7. \A i \in D : g[i] \in Int /\ g[i] = f[h[i]]
  BY <1>1, <1>4, <1>6
<1>8. \A id \in S : f[id] \in Nat /\ (id \notin I => f[id] = 0)
  <2>1. \A id : BalanceFor(accs, id, x) \in Nat
    BY ForType
  <2>2. \A id : id \notin I => BalanceFor(accs, id, x) = 0
    BY DEF IdsOf, Has, BalanceFor
  <2> QED BY <2>1, <2>2
<1> HIDE DEF f, g, h, D, I
<1>9. SumFunctionOnSet(g, D) = SumFunctionOnSet(f, I)
  BY <1>1, <1>2, <1>3, <1>4, <1>5, <1>7, SumReindex
<1> DEFINE J == S \ I
<1>10. IsFiniteSet(J) /\ I \cap J = {} /\ I \cup J = S
  <2>1. I \subseteq S
    BY DEF I
  <2> QED BY <2>1, FS_Subset
<1>11. SumFunctionOnSet(f, J) = 0
  BY <1>8, <1>10, SumZero
<1>12. \A id \in I \cup J : f[id] \in Int
  BY <1>8, <1>10
<1> HIDE DEF J
<1>13. SumFunctionOnSet(f, I \cup J) = SumFunctionOnSet(f, I) + SumFunctionOnSet(f, J)
  BY <1>2, <1>10, <1>12, SumUnion
<1>14. SumFunctionOnSet(f, I) \in Int
  BY <1>2, <1>12, SumInt
<1>15. Held(accs, x) = SumFunctionOnSet(f, S)
  <2>1. SumFunctionOnSet(f, S) = SumFunctionOnSet(f, I \cup J)
    BY <1>10
  <2>2. SumFunctionOnSet(f, I \cup J) = SumFunctionOnSet(f, I)
    BY <1>11, <1>13, <1>14
  <2>3. Held(accs, x) = SumFunctionOnSet(f, I)
    BY <1>1, <1>9
  <2> QED BY <2>1, <2>2, <2>3
<1>16. \A id \in S : f[id] \in Nat
  BY <1>8
<1> QED BY <1>15, <1>16 DEF f

\* The list of ids is finite.
LEMMA IdsAreFinite ==
    ASSUME NEW accs \in Seq(AnAccount)
    PROVE  IsFiniteSet(IdsOf(accs)) /\ \A id : id \in IdsOf(accs) <=> Has(accs, id)
<1>1. IsFiniteSet(DOMAIN accs)
  BY HeldIsSum
<1>2. IsFiniteSet(IdsOf(accs))
  <2> DEFINE D == DOMAIN accs
             I == IdsOf(accs)
             h == [i \in D |-> accs[i].id]
  <2>1. h \in [D -> I] /\ \A t \in I : \E i \in D : h[i] = t
    BY DEF IdsOf
  <2> HIDE DEF h, I, D
  <2>2. h \in Surjection(D, I)
    BY <2>1 DEF Surjection
  <2>3. IsFiniteSet(I)
    BY <1>1, <2>2, FS_Surjection DEF D
  <2> QED BY <2>3 DEF I
<1> QED BY <1>2 DEF IdsOf, Has

\* Where a list has somebody is one more than the number of people before.
LEMMA PlaceIsRank ==
    ASSUME NEW accs \in Seq(AnAccount), Canonical(accs), NEW k \in DOMAIN accs
    PROVE  Cardinality({id \in IdsOf(accs) : id < accs[k].id}) = k - 1
<1> DEFINE D == 1..(k - 1)
           S == {id \in IdsOf(accs) : id < accs[k].id}
           h == [i \in D |-> accs[i].id]
<1>1. k \in Nat \ {0} /\ DOMAIN accs = 1..Len(accs) /\ Len(accs) \in Nat
  OBVIOUS
<1>2. \A i \in D : i \in DOMAIN accs /\ i < k
  BY <1>1
<1>3. /\ \A i, j \in DOMAIN accs : i < j => accs[i].id < accs[j].id
      /\ \A i, j \in DOMAIN accs : accs[i].id = accs[j].id => i = j
      /\ \A i \in DOMAIN accs : accs[i].id \in Int
  BY CanonicalIsSorted
<1>4. \A i \in DOMAIN accs : accs[i].id < accs[k].id => i \in D
  <2> SUFFICES ASSUME NEW i \in DOMAIN accs, accs[i].id < accs[k].id PROVE i \in D
    OBVIOUS
  <2>1. i \in Nat \ {0} /\ i # k /\ ~(k < i)
    BY <1>1, <1>3
  <2> QED BY <1>1, <2>1
<1>5. h \in [D -> S]
  BY <1>2, <1>3 DEF IdsOf
<1>6. \A i, j \in D : h[i] = h[j] => i = j
  BY <1>2, <1>3
<1>7. \A t \in S : \E i \in D : h[i] = t
  BY <1>4 DEF IdsOf
<1> HIDE DEF h, D, S
<1>8. h \in Bijection(D, S)
  BY <1>5, <1>6, <1>7 DEF Bijection, Injection, Surjection, IsInjective
<1>9. ExistsBijection(D, S)
  BY <1>8 DEF ExistsBijection
<1>10. IsFiniteSet(D) /\ Cardinality(D) = k - 1
  <2>1. k - 1 \in Int /\ 1 \in Int
    BY <1>1
  <2>2. IsFiniteSet(1..(k - 1))
        /\ Cardinality(1..(k - 1)) = IF 1 > k - 1 THEN 0 ELSE (k - 1) - 1 + 1
    BY <2>1, FS_Interval
  <2> QED BY <1>1, <2>2 DEF D
<1> QED BY <1>9, <1>10, FS_Bijection DEF S

\* One person's balance moving moves what the list holds by as much.
LEMMA HeldMoves ==
    ASSUME NEW accs \in Seq(AnAccount), Canonical(accs),
           NEW new \in Seq(AnAccount), Canonical(new), NEW id, NEW x, NEW n \in Int,
           \A a : Has(new, a) <=> Has(accs, a) \/ a = id,
           BalanceFor(new, id, x) = BalanceFor(accs, id, x) + n,
           \A a : a # id => BalanceFor(new, a, x) = BalanceFor(accs, a, x)
    PROVE  Held(new, x) = Held(accs, x) + n
<1> DEFINE S == IdsOf(new)
           f == [a \in S |-> BalanceFor(accs, a, x)]
           g == [a \in S |-> BalanceFor(new, a, x)]
<1>1. IsFiniteSet(S) /\ IdsOf(accs) \subseteq S /\ id \in S
  BY IdsAreFinite
<1>2. Held(accs, x) = SumFunctionOnSet(f, S) /\ \A a \in S : f[a] \in Nat
  <2> HIDE DEF S
  <2> QED BY <1>1, HeldByPeople
<1>3. Held(new, x) = SumFunctionOnSet(g, S) /\ \A a \in S : g[a] \in Nat
  BY <1>1, HeldByPeople
<1>4. \A a \in S : f[a] \in Int /\ g[a] \in Int /\ (a # id => g[a] = f[a])
  BY <1>2, <1>3
<1>5. g[id] = f[id] + n /\ f[id] \in Nat
  BY <1>1, <1>2
<1>6. Held(accs, x) \in Nat
  BY HeldType
<1> HIDE DEF S, f, g
<1>7. SumFunctionOnSet(g, S) = SumFunctionOnSet(f, S) - f[id] + g[id]
  BY <1>1, <1>4, SumChange
<1> QED BY <1>2, <1>3, <1>5, <1>6, <1>7

(* Deposits                                                                *)

\* Opening a place in a list.
LEMMA InsertEffect ==
    ASSUME NEW S, NEW s \in Seq(S), NEW e \in S, NEW at \in 1..(Len(s) + 1)
    PROVE  LET new == InsertAt(s, at, e)
           IN  /\ new \in Seq(S) /\ Len(new) = Len(s) + 1 /\ DOMAIN new = 1..(Len(s) + 1)
               /\ new[at] = e
               /\ \A i \in 1..(Len(s) + 1) : i < at => new[i] = s[i]
               /\ \A i \in 1..(Len(s) + 1) : i > at => new[i] = s[i - 1]
<1> DEFINE n == Len(s)
           a == SubSeq(s, 1, at - 1)
           b == <<e>>
           c == SubSeq(s, at, n)
           ab == a \o b
           new == ab \o c
<1>0. n \in Nat /\ DOMAIN s = 1..n /\ at \in Int
  OBVIOUS
<1>1. /\ a \in Seq(S) /\ Len(a) = at - 1 /\ \A i \in 1..(at - 1) : a[i] = s[i]
  <2>1. \A i \in 1..(at - 1) : s[i] \in S
    BY <1>0
  <2>2. /\ a \in Seq(S) /\ Len(a) = (IF 1 =< at - 1 THEN at - 1 - 1 + 1 ELSE 0)
        /\ \A i \in 1..(at - 1 - 1 + 1) : a[i] = s[1 + i - 1]
    BY <1>0, <2>1, SubSeqProperties
  <2> QED BY <1>0, <2>2
<1>2. b \in Seq(S) /\ Len(b) = 1 /\ b[1] = e
  OBVIOUS
<1>3. /\ c \in Seq(S) /\ Len(c) = n - at + 1 /\ \A i \in 1..(n - at + 1) : c[i] = s[at + i - 1]
  <2>1. \A i \in at..n : s[i] \in S
    BY <1>0
  <2>2. /\ c \in Seq(S) /\ Len(c) = (IF at =< n THEN n - at + 1 ELSE 0)
        /\ \A i \in 1..(n - at + 1) : c[i] = s[at + i - 1]
    BY <1>0, <2>1, SubSeqProperties
  <2> QED BY <1>0, <2>2
<1> HIDE DEF a, b, c, n
<1>4. /\ ab \in Seq(S) /\ Len(ab) = Len(a) + Len(b)
      /\ \A i \in 1..(Len(a) + Len(b)) : ab[i] = IF i <= Len(a) THEN a[i] ELSE b[i - Len(a)]
  BY <1>1, <1>2, ConcatProperties
<1>5. /\ Len(ab) = at /\ ab[at] = e /\ \A i \in 1..at : i < at => ab[i] = s[i]
  <2>1. at \in 1..at /\ at - 1 \in Nat /\ at - (at - 1) = 1
    BY <1>0
  <2>2. ab[at] = e
    BY <1>1, <1>2, <1>4, <2>1
  <2>3. ASSUME NEW i \in 1..at, i < at PROVE ab[i] = s[i]
    BY <1>0, <1>1, <1>2, <1>4, <2>3
  <2> QED BY <1>0, <1>1, <1>2, <1>4, <2>2, <2>3
<1> HIDE DEF ab
<1>6. /\ new \in Seq(S) /\ Len(new) = Len(ab) + Len(c)
      /\ \A i \in 1..(Len(ab) + Len(c)) : new[i] = IF i <= Len(ab) THEN ab[i] ELSE c[i - Len(ab)]
  <2>1. ab \in Seq(S) /\ c \in Seq(S)
    BY <1>3, <1>4
  <2> QED BY <2>1, ConcatProperties
<1>7. InsertAt(s, at, e) = new
  BY DEF InsertAt, new, ab, a, b, c, n
<1>8. Len(new) = n + 1
  BY <1>0, <1>3, <1>5, <1>6
<1> HIDE DEF new
<1>9. DOMAIN new = 1..(n + 1)
  BY <1>6, <1>8
<1>10. new[at] = e
  BY <1>0, <1>3, <1>5, <1>6 DEF n
<1>11. ASSUME NEW i \in 1..(n + 1), i < at PROVE new[i] = s[i]
  BY <1>0, <1>3, <1>5, <1>6, <1>11 DEF n
<1>12. ASSUME NEW i \in 1..(n + 1), i > at PROVE new[i] = s[i - 1]
  <2>1. /\ i - at \in 1..(n - at + 1) /\ at + (i - at) - 1 = i - 1 /\ ~(i <= Len(ab))
        /\ i \in 1..(Len(ab) + Len(c)) /\ i - Len(ab) = i - at
    BY <1>0, <1>3, <1>5, <1>12 DEF n
  <2>2. new[i] = c[i - at]
    BY <1>6, <2>1
  <2> QED BY <1>3, <2>1, <2>2
<1> QED BY <1>6, <1>7, <1>8, <1>9, <1>10, <1>11, <1>12 DEF n

\* An entry of a batch that names an account, an asset and an amount, with the index the
\* host attached to it.
AnEntry(d) ==
    d.account \in Int /\ d.asset \in Assets /\ d.amount \in 0..MaxAmount /\ d.index \in Nat \ {0}

\* Where a deposit goes: to its account, or to the place its account belongs to, whether
\* the host's index says so or the list is searched.
LEMMA LocateFinds ==
    ASSUME NEW accs \in Seq(AnAccount), Canonical(accs), NEW d, AnEntry(d)
    PROVE  LET at == Locate(accs, d)
           IN  /\ at \in 1..(Len(accs) + 1)
               /\ \/ IsAt(accs, at, d.account)
                  \/ /\ ~IsAt(accs, at, d.account)
                     /\ \A i \in DOMAIN accs : i < at => accs[i].id < d.account
                     /\ \A i \in DOMAIN accs : i >= at => d.account < accs[i].id
<1> DEFINE n == Len(accs)
           a == d.account
           k == d.index
           here   == IsAt(accs, k, a)
           before == k = 1 \/ (k - 1 \in DOMAIN accs /\ accs[k - 1].id < a)
           after  == k \in DOMAIN accs => a < accs[k].id
           D == {i \in DOMAIN accs : accs[i].id < a}
           at == Locate(accs, d)
<1>1. n \in Nat /\ DOMAIN accs = 1..n /\ a \in Int /\ k \in Nat /\ k # 0
  BY DEF AnEntry
<1>2. at = IF here \/ (before /\ after) THEN k ELSE Cardinality(D) + 1
  BY DEF Locate
<1>3. /\ \A i, j \in DOMAIN accs : i < j => accs[i].id < accs[j].id
      /\ \A i \in DOMAIN accs : accs[i].id \in Int
  BY CanonicalIsSorted
<1>4. CASE here
  BY <1>1, <1>2, <1>4 DEF IsAt
<1>5. CASE ~here /\ before /\ after
  <2>1. at = k
    BY <1>2, <1>5
  <2>2. k \in 1..(n + 1)
    BY <1>1, <1>5
  <2>3. ASSUME NEW i \in DOMAIN accs, i < k PROVE accs[i].id < a
    <3>1. k - 1 \in DOMAIN accs /\ accs[k - 1].id < a
      BY <1>1, <1>5, <2>3
    <3>2. i = k - 1 \/ i < k - 1
      BY <1>1, <2>3
    <3>3. CASE i < k - 1
      <4>1. accs[i].id < accs[k - 1].id
        BY <1>3, <3>1, <3>3
      <4> QED BY <1>1, <1>3, <3>1, <4>1
    <3> QED BY <3>1, <3>2, <3>3
  <2>4. ASSUME NEW i \in DOMAIN accs, i >= k PROVE a < accs[i].id
    <3>1. k \in DOMAIN accs /\ a < accs[k].id
      BY <1>1, <1>5, <2>4
    <3>2. i = k \/ k < i
      BY <1>1, <2>4
    <3>3. CASE k < i
      <4>1. accs[k].id < accs[i].id
        BY <1>3, <3>1, <3>3
      <4> QED BY <1>1, <1>3, <3>1, <4>1
    <3> QED BY <3>1, <3>2, <3>3
  <2> QED BY <1>5, <2>1, <2>2, <2>3, <2>4
<1>6. CASE ~here /\ ~(before /\ after)
  <2>1. at = Cardinality(D) + 1
    BY <1>2, <1>6
  <2>2. D \in SUBSET (1..n) /\ \A i \in D : \A j \in 1..n : j < i => j \in D
    <3>1. ASSUME NEW i \in D, NEW j \in 1..n, j < i PROVE j \in D
      <4>1. accs[j].id < accs[i].id /\ accs[i].id < a /\ accs[j].id \in Int /\ accs[i].id \in Int
        BY <1>1, <1>3, <3>1
      <4> QED BY <1>1, <4>1
    <3> QED BY <1>1, <3>1
  <2>3. D = 1..Cardinality(D) /\ Cardinality(D) \in 0..n
    <3> HIDE DEF D, n
    <3> QED BY <1>1, <2>2, FirstPositions
  <2> DEFINE c == Cardinality(D)
  <2>4. c \in 0..n /\ at = c + 1 /\ \A i \in 1..n : accs[i].id < a <=> i \in 1..c
    BY <1>1, <2>1, <2>3
  <2> HIDE DEF c, D
  <2>5. at \in 1..(n + 1) /\ \A i \in DOMAIN accs : i < at => accs[i].id < a
    BY <1>1, <2>4
  <2>6. \A i \in DOMAIN accs : i >= at => ~(accs[i].id < a)
    BY <1>1, <2>4
  <2>7. CASE IsAt(accs, at, a)
    BY <2>5, <2>7
  <2>8. CASE ~IsAt(accs, at, a)
    <3>1. ASSUME NEW i \in DOMAIN accs, i >= at PROVE a < accs[i].id
      <4>1. ~(accs[i].id < a) /\ accs[i].id \in Int
        BY <1>3, <2>6, <3>1
      <4>2. at \in DOMAIN accs /\ accs[at].id # a /\ ~(accs[at].id < a) /\ accs[at].id \in Int
        BY <1>1, <1>3, <2>5, <2>6, <2>8, <3>1 DEF IsAt
      <4>3. CASE i = at
        BY <1>1, <4>2, <4>3
      <4>4. CASE at < i
        BY <1>1, <1>3, <4>1, <4>2, <4>4
      <4> QED BY <1>1, <2>5, <3>1, <4>3, <4>4
    <3> QED BY <2>5, <2>8, <3>1
  <2> QED BY <2>7, <2>8
<1> QED BY <1>4, <1>5, <1>6

\* What a list says is what the entry at a place says of the id there.
LEMMA ForAt ==
    ASSUME NEW accs \in Seq(AnAccount), Canonical(accs), NEW id, Has(accs, id)
    PROVE  \E i \in DOMAIN accs :
              /\ accs[i].id = id /\ NonceFor(accs, id) = accs[i].nonce
              /\ \A x : BalanceFor(accs, id, x) = Balance(accs[i], x)
<1>1. PICK i \in DOMAIN accs : accs[i].id = id
  BY DEF Has
<1>2. /\ NonceFor(accs, accs[i].id) = accs[i].nonce
      /\ \A x : BalanceFor(accs, accs[i].id, x) = Balance(accs[i], x)
  BY AtItsPlace
<1> QED BY <1>1, <1>2

\* The list a deposit is credited in: its account is where Locate says, a new one empty.
LEMMA OpenedEffect ==
    ASSUME NEW accs \in Seq(AnAccount), Canonical(accs), NEW d, AnEntry(d)
    PROVE  LET at == Locate(accs, d)
               opened == IF IsAt(accs, at, d.account) THEN accs
                         ELSE InsertAt(accs, at, NewAccount(d.account))
           IN  /\ opened \in Seq(AnAccount) /\ Canonical(opened) /\ IsAt(opened, at, d.account)
               /\ \/ Len(opened) = Len(accs)
                  \/ Len(opened) = Len(accs) + 1
               /\ \A id : /\ Has(opened, id) <=> Has(accs, id) \/ id = d.account
                          /\ NonceFor(opened, id) = NonceFor(accs, id)
                          /\ \A x : BalanceFor(opened, id, x) = BalanceFor(accs, id, x)
<1> DEFINE n == Len(accs)
           a == d.account
           at == Locate(accs, d)
           e == NewAccount(a)
           new == InsertAt(accs, at, e)
<1>0. n \in Nat /\ DOMAIN accs = 1..n /\ a \in Int
  BY DEF AnEntry
<1>1. CASE IsAt(accs, at, a)
  BY <1>1 DEF IsAt, Has
<1>2. CASE ~IsAt(accs, at, a)
  <2>1. /\ at \in 1..(n + 1)
        /\ \A i \in DOMAIN accs : i < at => accs[i].id < a
        /\ \A i \in DOMAIN accs : i >= at => a < accs[i].id
    BY <1>2, LocateFinds
  <2>2. e \in AnAccount /\ e.id = a /\ e.nonce = 0 /\ \A x : Balance(e, x) = 0
    <3>1. DOMAIN (<<>>) = {}
      OBVIOUS
    <3>2. <<>> \in Holdings
      <4> DEFINE none == <<>>
      <4>1. DOMAIN none \in SUBSET Assets /\ none \in [DOMAIN none -> 1..MaxAmount]
        BY <3>1
      <4>2. none \in Holdings
        <5> HIDE DEF none
        <5> QED BY <4>1, HoldingsAre
      <4> QED BY <4>2
    <3> QED BY <1>0, <3>1, <3>2 DEF NewAccount, AnAccount, Balance
  <2> HIDE DEF at, e
  <2>3. /\ new \in Seq(AnAccount) /\ Len(new) = n + 1 /\ DOMAIN new = 1..(n + 1)
        /\ new[at] = e
        /\ \A i \in 1..(n + 1) : i < at => new[i] = accs[i]
        /\ \A i \in 1..(n + 1) : i > at => new[i] = accs[i - 1]
    BY <2>1, <2>2, InsertEffect
  <2> HIDE DEF new, n
  <2>4. /\ \A i, j \in DOMAIN accs : i < j => accs[i].id < accs[j].id
        /\ \A i \in DOMAIN accs : accs[i].id \in Int
    BY CanonicalIsSorted
  <2>5. ASSUME NEW i \in 1..n PROVE new[i].id < new[i + 1].id
    <3>1. i \in DOMAIN accs /\ i \in 1..(n + 1) /\ i + 1 \in 1..(n + 1) /\ i \in Int /\ at \in Int
      BY <1>0, <2>1
    <3>2. CASE i + 1 < at
      <4>1. new[i] = accs[i] /\ new[i + 1] = accs[i + 1] /\ i + 1 \in DOMAIN accs /\ i < i + 1
        BY <1>0, <2>1, <2>3, <3>1, <3>2
      <4> QED BY <2>4, <3>1, <4>1
    <3>3. CASE i + 1 = at
      <4>1. new[i] = accs[i] /\ new[i + 1] = e /\ i < at
        BY <2>3, <3>1, <3>3
      <4> QED BY <2>1, <2>2, <3>1, <4>1
    <3>4. CASE i = at
      <4>1. new[i] = e /\ new[i + 1] = accs[(i + 1) - 1] /\ (i + 1) - 1 = i
        BY <2>3, <3>1, <3>4
      <4> QED BY <2>1, <2>2, <3>1, <3>4, <4>1
    <3>5. CASE i > at
      <4>1. new[i] = accs[i - 1] /\ new[i + 1] = accs[(i + 1) - 1] /\ (i + 1) - 1 = i
            /\ i - 1 \in DOMAIN accs /\ i - 1 < i
        BY <1>0, <2>1, <2>3, <3>1, <3>5
      <4> QED BY <2>4, <3>1, <4>1
    <3> QED BY <3>1, <3>2, <3>3, <3>4, <3>5
  <2>6. Canonical(new)
    <3>1. \A i \in 1..(Len(new) - 1) : new[i].id < new[i + 1].id
      BY <1>0, <2>3, <2>5
    <3>2. ASSUME NEW i \in DOMAIN new, NEW x \in DOMAIN new[i].balances
          PROVE  new[i].balances[x] # 0
      <4>1. new[i] \in AnAccount
        BY <2>3
      <4> QED BY <4>1, BalanceType
    <3> QED BY <3>1, <3>2 DEF Canonical
  <2>7. IsAt(new, at, a)
    BY <2>1, <2>2, <2>3 DEF IsAt
  <2>8. ~Has(accs, a)
    <3>1. ASSUME NEW i \in DOMAIN accs PROVE accs[i].id # a
      BY <1>0, <2>1, <2>4
    <3> QED BY <3>1 DEF Has
  <2>9. ASSUME NEW i \in DOMAIN new, i # at
        PROVE  \E j \in DOMAIN accs : new[i] = accs[j]
    <3>1. i \in Int /\ at \in Int /\ i \in 1..(n + 1)
      BY <2>1, <2>3
    <3>2. CASE i < at
      BY <1>0, <2>1, <2>3, <3>1, <3>2
    <3>3. CASE i > at
      <4>1. new[i] = accs[i - 1] /\ i - 1 \in DOMAIN accs
        BY <1>0, <2>1, <2>3, <3>1, <3>3
      <4> QED BY <4>1
    <3> QED BY <2>9, <3>1, <3>2, <3>3
  <2>10. ASSUME NEW j \in DOMAIN accs PROVE \E i \in DOMAIN new : new[i] = accs[j]
    <3>1. j \in Int /\ at \in Int /\ j \in 1..n
      BY <1>0, <2>1
    <3>2. CASE j < at
      BY <1>0, <2>1, <2>3, <3>1, <3>2
    <3>3. CASE j >= at
      <4>1. j + 1 \in 1..(n + 1) /\ j + 1 > at /\ (j + 1) - 1 = j
        BY <1>0, <3>1, <3>3
      <4>2. new[j + 1] = accs[j]
        BY <2>3, <4>1
      <4> QED BY <2>3, <4>1, <4>2
    <3> QED BY <3>1, <3>2, <3>3
  <2>11. ASSUME NEW id
         PROVE  /\ Has(new, id) <=> Has(accs, id) \/ id = a
                /\ NonceFor(new, id) = NonceFor(accs, id)
                /\ \A x : BalanceFor(new, id, x) = BalanceFor(accs, id, x)
    <3>1. Has(new, id) <=> Has(accs, id) \/ id = a
      <4>1. at \in DOMAIN new /\ new[at].id = a
        BY <2>7 DEF IsAt
      <4> QED BY <2>9, <2>10, <4>1 DEF Has
    <3>2. CASE id = a
      <4>1. /\ NonceFor(accs, id) = 0 /\ \A x : BalanceFor(accs, id, x) = 0
        BY <2>8, <3>2 DEF NonceFor, BalanceFor
      <4>2. /\ at \in DOMAIN new /\ new[at] = e
        BY <2>1, <2>3
      <4>3. /\ NonceFor(new, new[at].id) = new[at].nonce
            /\ \A x : BalanceFor(new, new[at].id, x) = Balance(new[at], x)
        BY <2>3, <2>6, <4>2, AtItsPlace
      <4> QED BY <2>2, <3>1, <3>2, <4>1, <4>2, <4>3
    <3>3. CASE id # a /\ Has(accs, id)
      <4>1. PICK i \in DOMAIN new :
               /\ new[i].id = id /\ NonceFor(new, id) = new[i].nonce
               /\ \A x : BalanceFor(new, id, x) = Balance(new[i], x)
        BY <2>3, <2>6, <3>1, <3>3, ForAt
      <4>2. i # at
        BY <2>2, <2>3, <3>3, <4>1
      <4>3. PICK j \in DOMAIN accs : new[i] = accs[j]
        BY <2>9, <4>2
      <4>4. /\ NonceFor(accs, accs[j].id) = accs[j].nonce
            /\ \A x : BalanceFor(accs, accs[j].id, x) = Balance(accs[j], x)
        BY AtItsPlace
      <4> QED BY <3>1, <4>1, <4>3, <4>4
    <3>4. CASE id # a /\ ~Has(accs, id)
      BY <3>1, <3>4 DEF NonceFor, BalanceFor
    <3> QED BY <3>2, <3>3, <3>4
  <2> QED BY <1>2, <2>3, <2>6, <2>7, <2>11 DEF at, e, new, n
<1> QED BY <1>1, <1>2

\* Two lists of the same people say of somebody what their entries for it say.
SaysOf(accs, new, id) ==
    /\ Has(new, id) <=> Has(accs, id)
    /\ NonceFor(new, id) = NonceFor(accs, id)
    /\ \A i \in DOMAIN accs : accs[i].id = id =>
          \A x : /\ BalanceFor(accs, id, x) = Balance(accs[i], x)
                 /\ BalanceFor(new, id, x) = Balance(new[i], x)

\* Who is in a list, with which nonce, when balances alone have moved.
LEMMA SamePeopleFor ==
    ASSUME NEW accs \in Seq(AnAccount), Canonical(accs),
           NEW new \in Seq(AnAccount), SamePeople(accs, new), NEW id
    PROVE  SaysOf(accs, new, id)
<1>1. Canonical(new)
  BY StaysCanonical
<1>2. /\ DOMAIN new = DOMAIN accs
      /\ \A i \in DOMAIN accs : new[i].id = accs[i].id /\ new[i].nonce = accs[i].nonce
  BY DEF SamePeople
<1>3. Has(new, id) <=> Has(accs, id)
  BY <1>2 DEF Has
<1>4. ASSUME NEW i \in DOMAIN accs, accs[i].id = id
      PROVE  /\ NonceFor(new, id) = NonceFor(accs, id)
             /\ \A x : /\ BalanceFor(accs, id, x) = Balance(accs[i], x)
                       /\ BalanceFor(new, id, x) = Balance(new[i], x)
  <2>1. /\ NonceFor(accs, accs[i].id) = accs[i].nonce
        /\ \A x : BalanceFor(accs, accs[i].id, x) = Balance(accs[i], x)
    BY AtItsPlace
  <2>2. /\ NonceFor(new, new[i].id) = new[i].nonce
        /\ \A x : BalanceFor(new, new[i].id, x) = Balance(new[i], x)
    BY <1>1, <1>2, AtItsPlace
  <2> QED BY <1>2, <1>4, <2>1, <2>2
<1>5. CASE Has(accs, id)
  BY <1>3, <1>4, <1>5 DEF Has, SaysOf
<1>6. CASE ~Has(accs, id)
  BY <1>3, <1>6 DEF Has, NonceFor, SaysOf
<1> QED BY <1>3, <1>4, <1>5, <1>6 DEF SaysOf

\* A move changes what the list says of the account at its index, and of nobody else.
LEMMA MoveFor ==
    ASSUME NEW accs \in Seq(AnAccount), Canonical(accs),
           NEW m \in AMove, m.index \in DOMAIN accs, NEW new \in ApplyMove(accs, m)
    PROVE  /\ new \in Seq(AnAccount) /\ Canonical(new) /\ SamePeople(accs, new)
           /\ \A id : /\ Has(new, id) <=> Has(accs, id)
                      /\ NonceFor(new, id) = NonceFor(accs, id)
                      /\ \A x : BalanceFor(new, id, x)
                                  = BalanceFor(accs, id, x)
                                    + (IF accs[m.index].id = id THEN Moved(m, x) ELSE 0)
<1>0. new \in Seq(AnAccount) /\ SamePeople(accs, new)
  BY MoveKeeps
<1>1. \A i \in DOMAIN accs : \A y :
          Balance(new[i], y) = Balance(accs[i], y) + (IF i = m.index THEN Moved(m, y) ELSE 0)
  BY MoveEffect
<1>2. Canonical(new)
  BY <1>0, StaysCanonical
<1>3. ASSUME NEW id
      PROVE  /\ Has(new, id) <=> Has(accs, id)
             /\ NonceFor(new, id) = NonceFor(accs, id)
             /\ \A x : BalanceFor(new, id, x)
                         = BalanceFor(accs, id, x)
                           + (IF accs[m.index].id = id THEN Moved(m, x) ELSE 0)
  <2>1. /\ Has(new, id) <=> Has(accs, id)
        /\ NonceFor(new, id) = NonceFor(accs, id)
        /\ \A i \in DOMAIN accs : accs[i].id = id =>
              \A x : /\ BalanceFor(accs, id, x) = Balance(accs[i], x)
                     /\ BalanceFor(new, id, x) = Balance(new[i], x)
    <3>1. SaysOf(accs, new, id)
      BY <1>0, SamePeopleFor
    <3> QED BY <3>1 DEF SaysOf
  <2>2. CASE Has(accs, id)
    <3>1. PICK i \in DOMAIN accs : accs[i].id = id
      BY <2>2 DEF Has
    <3>2. accs[m.index].id = id <=> i = m.index
      BY <3>1, CanonicalIsSorted
    <3> QED BY <1>1, <2>1, <3>1, <3>2
  <2>3. CASE ~Has(accs, id)
    <3>1. accs[m.index].id # id
      BY <2>3 DEF Has
    <3>2. \A x : BalanceFor(new, id, x) = 0 /\ BalanceFor(accs, id, x) = 0
      BY <2>1, <2>3 DEF BalanceFor
    <3> QED BY <2>1, <3>1, <3>2
  <2> QED BY <2>2, <2>3
<1> QED BY <1>0, <1>2, <1>3

\* What an entry moves of asset x for account a.
Share(d, a, x) == IF d.account = a /\ d.asset = x THEN d.amount ELSE 0

\* A deposit reaches the account it names, and opens it where it is missing.
LEMMA DepositEffect ==
    ASSUME NEW accs \in Seq(AnAccount), Canonical(accs), NEW d, AnEntry(d),
           NEW new \in Deposited(accs, d)
    PROVE  /\ new \in Seq(AnAccount) /\ Canonical(new)
           /\ Len(accs) =< Limits.accounts => Len(new) =< Limits.accounts
           /\ \A id : /\ Has(new, id) <=> Has(accs, id) \/ id = d.account
                      /\ NonceFor(new, id) = NonceFor(accs, id)
                      /\ \A x : BalanceFor(new, id, x) = BalanceFor(accs, id, x) + Share(d, id, x)
<1> DEFINE at == Locate(accs, d)
           opened == IF IsAt(accs, at, d.account) THEN accs
                     ELSE InsertAt(accs, at, NewAccount(d.account))
           m == [op |-> "credit", index |-> at, asset |-> d.asset, amount |-> d.amount]
<1>0. Limits.accounts \in Nat /\ Len(accs) \in Nat /\ MaxAmount \in Nat
  BY SettlementAssumption, ExchangeAssumption
<1>1. /\ opened \in Seq(AnAccount) /\ Canonical(opened) /\ IsAt(opened, at, d.account)
      /\ \/ Len(opened) = Len(accs)
         \/ Len(opened) = Len(accs) + 1
      /\ \A id : /\ Has(opened, id) <=> Has(accs, id) \/ id = d.account
                 /\ NonceFor(opened, id) = NonceFor(accs, id)
                 /\ \A x : BalanceFor(opened, id, x) = BalanceFor(accs, id, x)
  BY OpenedEffect
<1>2. /\ new \in ApplyMove(opened, m)
      /\ ~(Len(opened) > Len(accs) /\ Len(accs) >= Limits.accounts)
  BY DEF Deposited
<1>3. at \in DOMAIN opened /\ opened[at].id = d.account
  BY <1>1 DEF IsAt
<1>4. at \in 1..(Len(accs) + 1)
  BY LocateFinds
<1> HIDE DEF at, opened
<1>5. m \in AMove /\ m.index = at
  BY <1>0, <1>4 DEF AMove, AnEntry
<1>6. \A id, x : (IF opened[m.index].id = id THEN Moved(m, x) ELSE 0) = Share(d, id, x)
  BY <1>3 DEF Moved, Share
<1> HIDE DEF m
<1>7. /\ new \in Seq(AnAccount) /\ Canonical(new) /\ SamePeople(opened, new)
      /\ \A id : /\ Has(new, id) <=> Has(opened, id)
                 /\ NonceFor(new, id) = NonceFor(opened, id)
                 /\ \A x : BalanceFor(new, id, x)
                             = BalanceFor(opened, id, x)
                               + (IF opened[m.index].id = id THEN Moved(m, x) ELSE 0)
  BY <1>1, <1>2, <1>3, <1>5, MoveFor
<1>8. Len(new) = Len(opened)
  BY <1>7 DEF SamePeople
<1>9. Len(accs) =< Limits.accounts => Len(new) =< Limits.accounts
  BY <1>0, <1>1, <1>2, <1>8
<1> QED BY <1>1, <1>6, <1>7, <1>9

(* Sums over the entries of a list                                         *)

\* What the entries at positions I move of an asset.
TotalIn(entries, I, x) ==
    SumFunction([i \in I |-> IF entries[i].asset = x THEN entries[i].amount ELSE 0])

\* What an entry moves of an asset.
AmountOf(d, x) == IF d.asset = x THEN d.amount ELSE 0

\* The sums of the contract are the sums of the guest.
LEMMA GuestSums ==
    ASSUME NEW f
    PROVE  Guest!SumFunction(f) = SumFunction(f)
BY DEF SumFunction, SumFunctionOnSet, FoldFunctionOnSet, MapThenFoldSet, Guest!SumFunction,
       Guest!SumFunctionOnSet, Guest!FoldFunctionOnSet, Guest!MapThenFoldSet

\* A sum over the first positions, and over one more.
LEMMA SumNext ==
    ASSUME NEW p \in Nat, NEW v, \A i \in 1..(p + 1) : v[i] \in Nat
    PROVE  /\ SumFunction([i \in 1..0 |-> v[i]]) = 0
           /\ SumFunction([i \in 1..p |-> v[i]]) \in Nat
           /\ SumFunction([i \in 1..(p + 1) |-> v[i]])
                = SumFunction([i \in 1..p |-> v[i]]) + v[p + 1]
<1>1. ASSUME NEW q \in Nat, \A i \in 1..q : v[i] \in Nat
      PROVE  SumFunction([i \in 1..q |-> v[i]]) = SumFunctionOnSet(v, 1..q)
  <2> DEFINE D == 1..q
             f == [i \in D |-> v[i]]
  <2>1. IsFiniteSet(D)
    BY <1>1, FS_Interval
  <2>2. \A i \in D : f[i] \in Int /\ f[i] = v[i]
    BY <1>1
  <2>3. SumFunction(f) = SumFunctionOnSet(f, D)
    BY DEF SumFunction
  <2> HIDE DEF f, D
  <2>4. SumFunctionOnSet(f, D) = SumFunctionOnSet(v, D)
    BY <2>1, <2>2, SumEqual
  <2> QED BY <2>3, <2>4 DEF f, D
<1> DEFINE S == 1..p
           n == p + 1
<1>2. IsFiniteSet(S)
  BY FS_Interval
<1>3. n \notin S /\ 1..(p + 1) = S \cup {n}
  OBVIOUS
<1>4. \A i \in S : v[i] \in Nat
  BY <1>3
<1>5. \A i \in S \cup {n} : v[i] \in Int
  BY <1>3
<1>6. 1..0 = {}
  OBVIOUS
<1>7. SumFunction([i \in 1..0 |-> v[i]]) = SumFunctionOnSet(v, 1..0)
  BY <1>1, <1>6
<1>8. /\ SumFunction([i \in 1..p |-> v[i]]) = SumFunctionOnSet(v, S)
      /\ SumFunction([i \in 1..(p + 1) |-> v[i]]) = SumFunctionOnSet(v, S \cup {n})
  <2>1. SumFunction([i \in 1..p |-> v[i]]) = SumFunctionOnSet(v, 1..p)
    BY <1>1, <1>4
  <2>2. p + 1 \in Nat
    OBVIOUS
  <2>3. SumFunction([i \in 1..(p + 1) |-> v[i]]) = SumFunctionOnSet(v, 1..(p + 1))
    BY <1>1, <2>2
  <2> QED BY <2>1, <2>3, <1>3
<1> HIDE DEF S, n
<1>9. SumFunctionOnSet(v, S \cup {n}) = v[n] + SumFunctionOnSet(v, S)
  BY <1>2, <1>3, <1>5, SumAdd
<1>10. SumFunctionOnSet(v, S) \in Nat
  BY <1>2, <1>4, SumNat
<1>11. n = p + 1 /\ v[n] \in Nat
  BY <1>3 DEF n
<1> QED BY <1>6, <1>7, <1>8, <1>9, <1>10, <1>11, SumEmpty

\* No entry moves nothing, and one entry more moves its amount more.
LEMMA MovedByNext ==
    ASSUME NEW list, NEW p \in Nat, \A i \in 1..(p + 1) : list[i].amount \in Nat, NEW a, NEW x
    PROVE  /\ Guest!MovedBy(list, 1..0, a, x) = 0
           /\ Guest!MovedBy(list, 1..p, a, x) \in Nat
           /\ Guest!MovedBy(list, 1..(p + 1), a, x)
                = Guest!MovedBy(list, 1..p, a, x) + Share(list[p + 1], a, x)
           /\ Share(list[p + 1], a, x) \in Nat
<1> DEFINE v == [i \in 1..(p + 1) |-> Share(list[i], a, x)]
<1>1. \A i \in 1..(p + 1) : v[i] \in Nat /\ v[i] = Share(list[i], a, x)
  BY DEF Share
<1>2. p + 1 \in 1..(p + 1) /\ 1..p \subseteq 1..(p + 1) /\ 1..0 = {}
  OBVIOUS
<1> HIDE DEF v
<1>3. /\ Guest!MovedBy(list, 1..p, a, x) = SumFunction([i \in 1..p |-> Share(list[i], a, x)])
      /\ Guest!MovedBy(list, 1..(p + 1), a, x)
           = SumFunction([i \in 1..(p + 1) |-> Share(list[i], a, x)])
      /\ Guest!MovedBy(list, 1..0, a, x) = SumFunction([i \in 1..0 |-> Share(list[i], a, x)])
  BY GuestSums DEF Guest!MovedBy, Share
<1>4. /\ [i \in 1..p |-> Share(list[i], a, x)] = [i \in 1..p |-> v[i]]
      /\ [i \in 1..(p + 1) |-> Share(list[i], a, x)] = [i \in 1..(p + 1) |-> v[i]]
      /\ [i \in 1..0 |-> Share(list[i], a, x)] = [i \in 1..0 |-> v[i]]
  BY <1>1, <1>2
<1>5. /\ SumFunction([i \in 1..0 |-> v[i]]) = 0
      /\ SumFunction([i \in 1..p |-> v[i]]) \in Nat
      /\ SumFunction([i \in 1..(p + 1) |-> v[i]])
           = SumFunction([i \in 1..p |-> v[i]]) + v[p + 1]
  BY <1>1, SumNext
<1>6. v[p + 1] = Share(list[p + 1], a, x) /\ v[p + 1] \in Nat
  BY <1>1, <1>2
<1> QED BY <1>3, <1>4, <1>5, <1>6

\* The same of what a list moves together.
LEMMA TotalInNext ==
    ASSUME NEW list, NEW p \in Nat, \A i \in 1..(p + 1) : list[i].amount \in Nat, NEW x
    PROVE  /\ TotalIn(list, 1..0, x) = 0
           /\ TotalIn(list, 1..p, x) \in Nat
           /\ TotalIn(list, 1..(p + 1), x) = TotalIn(list, 1..p, x) + AmountOf(list[p + 1], x)
           /\ AmountOf(list[p + 1], x) \in Nat
<1> DEFINE v == [i \in 1..(p + 1) |-> AmountOf(list[i], x)]
<1>1. \A i \in 1..(p + 1) : v[i] \in Nat /\ v[i] = AmountOf(list[i], x)
  BY DEF AmountOf
<1>2. p + 1 \in 1..(p + 1) /\ 1..p \subseteq 1..(p + 1) /\ 1..0 = {}
  OBVIOUS
<1> HIDE DEF v
<1>3. /\ TotalIn(list, 1..p, x) = SumFunction([i \in 1..p |-> AmountOf(list[i], x)])
      /\ TotalIn(list, 1..(p + 1), x) = SumFunction([i \in 1..(p + 1) |-> AmountOf(list[i], x)])
      /\ TotalIn(list, 1..0, x) = SumFunction([i \in 1..0 |-> AmountOf(list[i], x)])
  BY DEF TotalIn, AmountOf
<1>4. /\ [i \in 1..p |-> AmountOf(list[i], x)] = [i \in 1..p |-> v[i]]
      /\ [i \in 1..(p + 1) |-> AmountOf(list[i], x)] = [i \in 1..(p + 1) |-> v[i]]
      /\ [i \in 1..0 |-> AmountOf(list[i], x)] = [i \in 1..0 |-> v[i]]
  BY <1>1, <1>2
<1>5. /\ SumFunction([i \in 1..0 |-> v[i]]) = 0
      /\ SumFunction([i \in 1..p |-> v[i]]) \in Nat
      /\ SumFunction([i \in 1..(p + 1) |-> v[i]])
           = SumFunction([i \in 1..p |-> v[i]]) + v[p + 1]
  BY <1>1, SumNext
<1>6. v[p + 1] = AmountOf(list[p + 1], x) /\ v[p + 1] \in Nat
  BY <1>1, <1>2
<1> QED BY <1>3, <1>4, <1>5, <1>6

\* No entries, nothing moved.
LEMMA NothingMoves ==
    ASSUME NEW list, NEW x
    PROVE  TotalIn(list, 1..0, x) = 0 /\ \A a : Guest!MovedBy(list, 1..0, a, x) = 0
<1>1. 1..0 = {}
  OBVIOUS
<1>2. \A f : DOMAIN f = {} => SumFunction(f) = 0
  BY SumEmpty DEF SumFunction
<1>3. \A a : Guest!MovedBy(list, 1..0, a, x) = 0
  BY <1>1, <1>2, GuestSums DEF Guest!MovedBy
<1> QED BY <1>1, <1>2, <1>3 DEF TotalIn

-----------------------------------------------------------------------------
(* The deposits of a batch                                                 *)

\* What the first p deposits of a list have made of the accounts: they are credited to
\* the accounts they name, and open those that were missing.
Credited(accs, new, deps, p) ==
    /\ new \in Seq(AnAccount) /\ Canonical(new) /\ Len(new) =< Limits.accounts
    /\ \A id : Has(new, id) <=> Has(accs, id) \/ \E i \in 1..p : deps[i].account = id
    /\ \A id : NonceFor(new, id) = NonceFor(accs, id)
    /\ \A id, x : BalanceFor(new, id, x) = BalanceFor(accs, id, x) + Guest!MovedBy(deps, 1..p, id, x)
    /\ \A x : Held(new, x) = Held(accs, x) + TotalIn(deps, 1..p, x)

\* One deposit adds its amount to what the list holds.
LEMMA DepositHeld ==
    ASSUME NEW accs \in Seq(AnAccount), Canonical(accs), NEW d, AnEntry(d),
           NEW new \in Deposited(accs, d), NEW x
    PROVE  Held(new, x) = Held(accs, x) + AmountOf(d, x)
<1> DEFINE n == AmountOf(d, x)
           id == d.account
<1>1. new \in Seq(AnAccount) /\ Canonical(new)
  BY DepositEffect
<1>2. \A a : Has(new, a) <=> Has(accs, a) \/ a = id
  BY DepositEffect
<1>3. \A a : BalanceFor(new, a, x) = BalanceFor(accs, a, x) + Share(d, a, x)
  <2>1. \A a : \A y : BalanceFor(new, a, y) = BalanceFor(accs, a, y) + Share(d, a, y)
    BY DepositEffect
  <2> QED BY <2>1
<1>4. n \in Int
  BY DEF AmountOf, AnEntry
<1>5. BalanceFor(new, id, x) = BalanceFor(accs, id, x) + n
  BY <1>3 DEF Share, AmountOf
<1>6. \A a : a # id => BalanceFor(new, a, x) = BalanceFor(accs, a, x)
  <2> SUFFICES ASSUME NEW a, a # id PROVE BalanceFor(new, a, x) = BalanceFor(accs, a, x)
    OBVIOUS
  <2>1. Share(d, a, x) = 0
    BY DEF Share
  <2>2. BalanceFor(accs, a, x) \in Int
    BY ForType, ExchangeAssumption
  <2> QED BY <1>3, <2>1, <2>2
<1> HIDE DEF n, id
<1> QED BY <1>1, <1>2, <1>4, <1>5, <1>6, HeldMoves DEF n

\* The next deposit of the list.
LEMMA OneMoreDeposit ==
    ASSUME NEW accs \in Seq(AnAccount), NEW deps, NEW p \in Nat,
           \A i \in 1..(p + 1) : AnEntry(deps[i]),
           NEW mid, Credited(accs, mid, deps, p), NEW new \in Deposited(mid, deps[p + 1])
    PROVE  Credited(accs, new, deps, p + 1)
<1> DEFINE d == deps[p + 1]
<1>1. AnEntry(d) /\ \A i \in 1..(p + 1) : deps[i].amount \in Nat
  BY ExchangeAssumption DEF AnEntry
<1>2. mid \in Seq(AnAccount) /\ Canonical(mid) /\ Len(mid) =< Limits.accounts
  BY DEF Credited
<1>3. /\ new \in Seq(AnAccount) /\ Canonical(new) /\ Len(new) =< Limits.accounts
      /\ \A id : /\ Has(new, id) <=> Has(mid, id) \/ id = d.account
                 /\ NonceFor(new, id) = NonceFor(mid, id)
                 /\ \A x : BalanceFor(new, id, x) = BalanceFor(mid, id, x) + Share(d, id, x)
  <2> HIDE DEF d
  <2> QED BY <1>1, <1>2, DepositEffect DEF d
<1>4. ASSUME NEW id
      PROVE  /\ Has(new, id) <=> Has(accs, id) \/ \E i \in 1..(p + 1) : deps[i].account = id
             /\ NonceFor(new, id) = NonceFor(accs, id)
  <2>1. 1..(p + 1) = (1..p) \cup {p + 1}
    OBVIOUS
  <2> QED BY <1>3, <2>1 DEF Credited
<1>5. ASSUME NEW id, NEW x
      PROVE  BalanceFor(new, id, x)
               = BalanceFor(accs, id, x) + Guest!MovedBy(deps, 1..(p + 1), id, x)
  <2>1. BalanceFor(new, id, x) = BalanceFor(mid, id, x) + Share(d, id, x)
    BY <1>3
  <2>2. BalanceFor(mid, id, x) = BalanceFor(accs, id, x) + Guest!MovedBy(deps, 1..p, id, x)
    BY DEF Credited
  <2>3. /\ Guest!MovedBy(deps, 1..p, id, x) \in Nat
        /\ Guest!MovedBy(deps, 1..(p + 1), id, x)
             = Guest!MovedBy(deps, 1..p, id, x) + Share(d, id, x)
        /\ Share(d, id, x) \in Nat
    BY <1>1, MovedByNext
  <2>4. BalanceFor(accs, id, x) \in Int
    BY ForType, ExchangeAssumption
  <2> HIDE DEF d
  <2> QED BY <2>1, <2>2, <2>3, <2>4
<1>6. ASSUME NEW x
      PROVE  Held(new, x) = Held(accs, x) + TotalIn(deps, 1..(p + 1), x)
  <2>1. Held(new, x) = Held(mid, x) + AmountOf(d, x)
    <3> HIDE DEF d
    <3> QED BY <1>1, <1>2, DepositHeld DEF d
  <2>2. Held(mid, x) = Held(accs, x) + TotalIn(deps, 1..p, x)
    BY DEF Credited
  <2>3. /\ TotalIn(deps, 1..p, x) \in Nat
        /\ TotalIn(deps, 1..(p + 1), x) = TotalIn(deps, 1..p, x) + AmountOf(d, x)
        /\ AmountOf(d, x) \in Nat
    BY <1>1, TotalInNext
  <2>4. Held(accs, x) \in Nat
    BY HeldType
  <2> HIDE DEF d
  <2> QED BY <2>1, <2>2, <2>3, <2>4
<1> QED BY <1>3, <1>4, <1>5, <1>6 DEF Credited

\* Before the first deposit nothing has been credited.
LEMMA NoDeposit ==
    ASSUME NEW accs \in Seq(AnAccount), Canonical(accs), Len(accs) =< Limits.accounts,
           NEW deps
    PROVE  Credited(accs, accs, deps, 0)
<1>1. 1..0 = {}
  OBVIOUS
<1>2. ASSUME NEW id, NEW x
      PROVE  BalanceFor(accs, id, x) = BalanceFor(accs, id, x) + Guest!MovedBy(deps, 1..0, id, x)
  <2>1. Guest!MovedBy(deps, 1..0, id, x) = 0
    BY NothingMoves
  <2>2. BalanceFor(accs, id, x) \in Int
    BY ForType, ExchangeAssumption
  <2> QED BY <2>1, <2>2
<1>3. ASSUME NEW x
      PROVE  Held(accs, x) = Held(accs, x) + TotalIn(deps, 1..0, x)
  <2>1. TotalIn(deps, 1..0, x) = 0
    BY NothingMoves
  <2>2. Held(accs, x) \in Nat
    BY HeldType
  <2> QED BY <2>1, <2>2
<1> QED BY <1>1, <1>2, <1>3 DEF Credited

\* The results of the loop over the deposits are those of its turns.
LEMMA DepositsAreFold ==
    ASSUME NEW accs, NEW deps
    PROVE  FoldLeft(ThenDeposit, {accs}, deps) = Deposits!Fold({accs}, deps)
BY DEF FoldLeft, MapThenFoldSet, Max, Deposits!Fold, Deposits!FoldLeft,
       Deposits!MapThenFoldSet, Deposits!Max

\* apply_deposits credits every deposit of the batch to the account it names.
LEMMA DepositsCredit ==
    ASSUME NEW accs \in Seq(AnAccount), Canonical(accs), Len(accs) =< Limits.accounts,
           NEW S, NEW deps \in Seq(S), \A i \in DOMAIN deps : AnEntry(deps[i]),
           NEW new \in FoldLeft(ThenDeposit, {accs}, deps)
    PROVE  Credited(accs, new, deps, Len(deps))
<1> DEFINE n == Len(deps)
           Made(p) == Deposits!Fold({accs}, SubSeq(deps, 1, p))
           Good(p) == \A a \in Made(p) : Credited(accs, a, deps, p)
           Q == {p \in 0..n : Good(p)}
<1>0. n \in Nat /\ DOMAIN deps = 1..n
  OBVIOUS
<1>1. 0 \in Q
  <2>1. Made(0) = {accs}
    BY Deposits!FoldEnds
  <2>2. Credited(accs, accs, deps, 0)
    BY NoDeposit
  <2> HIDE DEF Made, n
  <2>3. Good(0)
    BY <2>1, <2>2
  <2>4. 0 \in 0..n
    BY <1>0
  <2> HIDE DEF Good
  <2> QED BY <2>3, <2>4
<1>2. ASSUME NEW p \in 0..(n - 1), p \in Q PROVE p + 1 \in Q
  <2>1. Made(p + 1) = ThenDeposit(Made(p), deps[p + 1])
    BY Deposits!FoldPrefix
  <2>2. p \in Nat /\ p + 1 \in 0..n /\ 1..(p + 1) \subseteq 1..n
    BY <1>0
  <2>3. \A i \in 1..(p + 1) : AnEntry(deps[i])
    BY <1>0, <2>2
  <2>4. Good(p)
    BY <1>2
  <2> HIDE DEF Made, n
  <2>5. ASSUME NEW a \in Made(p + 1) PROVE Credited(accs, a, deps, p + 1)
    <3>1. PICK mid \in Made(p) : a \in Deposited(mid, deps[p + 1])
      BY <2>1 DEF ThenDeposit
    <3>2. Credited(accs, mid, deps, p)
      BY <2>4
    <3> HIDE DEF Good
    <3> QED BY <2>2, <2>3, <3>1, <3>2, OneMoreDeposit
  <2>6. Good(p + 1)
    BY <2>5
  <2> HIDE DEF Good
  <2> QED BY <2>2, <2>6
<1>3. n \in Q
  <2> HIDE DEF Q, n
  <2> QED BY <1>0, <1>1, <1>2, CountingInduction
<1>4. Made(n) = FoldLeft(ThenDeposit, {accs}, deps)
  BY Deposits!FoldEnds, DepositsAreFold
<1> HIDE DEF Made
<1> QED BY <1>3, <1>4

-----------------------------------------------------------------------------
(* The forced withdrawals of a batch                                       *)

\* An entry of one of the two queues, as the host passes it on.
QueueEntry ==
    [id : Nat, account : Ids, asset : Assets, amount : 0..MaxAmount, index : Nat \ {0}]

Lesser(m, n) == IF m < n THEN m ELSE n

\* What Drain takes for a request.
Taken(accs, r) ==
    LET available == IF IsAt(accs, r.index, r.account) THEN Balance(accs[r.index], r.asset) ELSE 0
    IN  Lesser(r.amount, available)

\* The request has the right index, if there is one.
Found(accs, r) == IsAt(accs, r.index, r.account) \/ ~Has(accs, r.account)

\* A queue entry is an entry of a batch, and its amount can be replaced.
LEMMA QueueEntryType ==
    ASSUME NEW r \in QueueEntry
    PROVE  /\ AnEntry(r) /\ r.account \in Ids
           /\ \A n : [r EXCEPT !.amount = n].amount = n
                     /\ [r EXCEPT !.amount = n].account = r.account
                     /\ [r EXCEPT !.amount = n].asset = r.asset
BY SettlementAssumption DEF QueueEntry, AnEntry

\* A request takes what there is from the account it names, or nothing; all there is, if
\* the account is where the request looks for it, or nowhere.
LEMMA DrainEffect ==
    ASSUME NEW s, s.accounts \in Seq(AnAccount), Canonical(s.accounts), NEW r \in QueueEntry
    PROVE  LET e == [r EXCEPT !.amount = Taken(s.accounts, r)]
               new == Drain(s, r).accounts
           IN  /\ Drain(s, r).drained = Append(s.drained, e)
               /\ new \in Seq(AnAccount) /\ SamePeople(s.accounts, new)
               /\ e.amount \in Nat
               /\ e.amount \in {0, Lesser(r.amount, BalanceFor(s.accounts, r.account, r.asset))}
               /\ Found(s.accounts, r) =>
                     e.amount = Lesser(r.amount, BalanceFor(s.accounts, r.account, r.asset))
               /\ \A id, x : BalanceFor(new, id, x) = BalanceFor(s.accounts, id, x) - Share(e, id, x)
               /\ \A x : Held(new, x) = Held(s.accounts, x) - AmountOf(e, x)
<1> DEFINE accs == s.accounts
           available == IF IsAt(accs, r.index, r.account) THEN Balance(accs[r.index], r.asset) ELSE 0
           amount == Taken(accs, r)
           e == [r EXCEPT !.amount = amount]
           new == Drain(s, r).accounts
<1>1. /\ Drain(s, r).drained = Append(s.drained, e)
      /\ new = IF amount = 0 THEN accs
               ELSE [accs EXCEPT ![r.index] = SetBalance(@, r.asset, available - amount)]
  BY DEF Drain, Taken, Lesser
<1>2. e.amount = amount /\ e.account = r.account /\ e.asset = r.asset
  BY QueueEntryType
<1>3. /\ r.amount \in Nat /\ r.asset \in Assets /\ r.index \in Nat /\ r.account \in Int
      /\ MaxAmount \in Nat
  BY QueueEntryType, ExchangeAssumption DEF AnEntry
<1>4. CASE ~IsAt(accs, r.index, r.account) \/ amount = 0
  <2>1. amount = 0
    BY <1>3, <1>4 DEF Taken, Lesser
  <2>2. new = accs
    BY <1>1, <2>1
  <2>3. /\ \A id, x : Share(e, id, x) = 0
        /\ \A x : AmountOf(e, x) = 0
    BY <1>2, <2>1 DEF Share, AmountOf
  <2>4. /\ \A id, x : BalanceFor(accs, id, x) \in Int
        /\ \A x : Held(accs, x) \in Int
    BY ForType, HeldType, <1>3
  <2>5. SamePeople(accs, new)
    BY <2>2 DEF SamePeople
  <2>6. \A id, x : BalanceFor(new, id, x) = BalanceFor(accs, id, x) - Share(e, id, x)
    <3> HIDE DEF accs, new, e
    <3> QED BY <2>2, <2>3, <2>4
  <2>7. \A x : Held(new, x) = Held(accs, x) - AmountOf(e, x)
    <3> HIDE DEF accs, new, e
    <3> QED BY <2>2, <2>3, <2>4
  <2>8. Found(accs, r) => amount = Lesser(r.amount, BalanceFor(accs, r.account, r.asset))
    <3>1. CASE IsAt(accs, r.index, r.account)
      <4>1. r.index \in DOMAIN accs /\ accs[r.index].id = r.account
        BY <3>1 DEF IsAt
      <4>2. BalanceFor(accs, r.account, r.asset) = Balance(accs[r.index], r.asset)
        BY <4>1, AtItsPlace
      <4> QED BY <3>1, <4>2 DEF Taken
    <3>2. CASE ~Has(accs, r.account)
      <4>1. BalanceFor(accs, r.account, r.asset) = 0
        BY <3>2 DEF BalanceFor
      <4> HIDE DEF amount
      <4> QED BY <1>3, <2>1, <4>1 DEF Lesser
    <3> QED BY <3>1, <3>2 DEF Found
  <2> QED BY <1>1, <1>2, <2>1, <2>2, <2>5, <2>6, <2>7, <2>8
<1>5. CASE IsAt(accs, r.index, r.account) /\ amount # 0
  <2> DEFINE k == r.index
             x0 == r.asset
             m == [op |-> "debit", index |-> k, asset |-> x0, amount |-> amount]
  <2>1. k \in DOMAIN accs /\ accs[k].id = r.account /\ accs[k] \in AnAccount
    BY <1>5 DEF IsAt
  <2>2. available = Balance(accs[k], x0)
    BY <1>5
  <2>3. /\ Balance(accs[k], x0) \in Nat
        /\ x0 \in DOMAIN accs[k].balances =>
              Balance(accs[k], x0) = accs[k].balances[x0]
        /\ x0 \notin DOMAIN accs[k].balances => Balance(accs[k], x0) = 0
    BY <2>1, BalanceType
  <2>4. amount = Lesser(r.amount, available)
    BY DEF Taken
  <2>5. amount \in Nat /\ amount =< available /\ available \in Nat
    <3> HIDE DEF amount, available
    <3> QED BY <1>3, <2>2, <2>3, <2>4 DEF Lesser
  <2>6. x0 \in DOMAIN accs[k].balances /\ accs[k].balances[x0] = available
    <3> HIDE DEF amount, available
    <3> QED BY <1>5, <2>2, <2>3, <2>5
  <2>7. m \in AMove /\ m.index = k
    <3> HIDE DEF amount
    <3> QED BY <1>3, <2>5 DEF AMove
  <2>8. new \in ApplyMove(accs, m)
    <3> HIDE DEF amount, available, accs, new
    <3>1. Debit(accs[k], x0, amount) = {SetBalance(accs[k], x0, available - amount)}
      BY <2>5, <2>6 DEF Debit
    <3>2. new = [accs EXCEPT ![k] = SetBalance(accs[k], x0, available - amount)]
      BY <1>1, <1>5
    <3> QED BY <3>1, <3>2 DEF ApplyMove
  <2>9. \A id, x : (IF accs[m.index].id = id THEN Moved(m, x) ELSE 0) = - Share(e, id, x)
    <3> HIDE DEF amount, accs, e
    <3> QED BY <1>2, <2>1, <2>5 DEF Moved, Share
  <2>10. \A x : Moved(m, x) = - AmountOf(e, x)
    <3> HIDE DEF amount, accs, e
    <3> QED BY <1>2, <2>5 DEF Moved, AmountOf
  <2>11. \A id, x : /\ Share(e, id, x) \in Int /\ AmountOf(e, x) \in Int
                    /\ BalanceFor(accs, id, x) \in Int /\ Held(accs, x) \in Int
    <3>1. \A id, x : BalanceFor(accs, id, x) \in Int /\ Held(accs, x) \in Int
      BY ForType, HeldType, <1>3
    <3> HIDE DEF amount, accs, e
    <3> QED BY <1>2, <2>5, <3>1 DEF Share, AmountOf
  <2>12. m.index \in DOMAIN accs
    BY <2>1, <2>7
  <2> HIDE DEF accs, new, m, e, amount, available
  <2>13. accs \in Seq(AnAccount) /\ Canonical(accs)
    BY DEF accs
  <2>14. /\ new \in Seq(AnAccount) /\ SamePeople(accs, new)
         /\ \A id : \A x : BalanceFor(new, id, x)
                             = BalanceFor(accs, id, x)
                               + (IF accs[m.index].id = id THEN Moved(m, x) ELSE 0)
    BY <2>7, <2>8, <2>12, <2>13, MoveFor
  <2>15. ASSUME NEW id, NEW x
         PROVE  /\ BalanceFor(new, id, x) = BalanceFor(accs, id, x) - Share(e, id, x)
                /\ Held(new, x) = Held(accs, x) - AmountOf(e, x)
    <3>1. BalanceFor(new, id, x)
            = BalanceFor(accs, id, x) + (IF accs[m.index].id = id THEN Moved(m, x) ELSE 0)
      BY <2>14
    <3>2. BalanceFor(new, id, x) = BalanceFor(accs, id, x) + (- Share(e, id, x))
      BY <3>1, <2>9
    <3>3. Held(new, x) = Held(accs, x) + Moved(m, x)
      BY <2>7, <2>8, <2>12, <2>13, MoveHeld
    <3> QED BY <3>2, <3>3, <2>10, <2>11
  <2>16. BalanceFor(accs, r.account, x0) = available
    <3>1. BalanceFor(accs, accs[k].id, x0) = Balance(accs[k], x0)
      BY <2>1, <2>13, AtItsPlace
    <3> QED BY <2>1, <2>2, <3>1
  <2>17. e.amount = Lesser(r.amount, BalanceFor(accs, r.account, r.asset))
    BY <1>2, <2>4, <2>16
  <2> QED BY <1>1, <1>2, <2>5, <2>14, <2>15, <2>17 DEF accs, new, e, amount
<1> QED BY <1>4, <1>5

\* A list, of whatever elements.
IsList(list) == list \in Seq({list[i] : i \in DOMAIN list})

\* Two lists have the same first p elements.
SamePrefix(list, longer, p) == \A i \in 1..p : longer[i] = list[i]

\* What a prefix of a list moves does not depend on what follows it.
LEMMA PrefixTotals ==
    ASSUME NEW p \in Nat, NEW list, NEW longer, SamePrefix(list, longer, p),
           NEW q \in 0..p, NEW x
    PROVE  TotalIn(longer, 1..q, x) = TotalIn(list, 1..q, x)
<1>1. \A i \in 1..q : longer[i] = list[i]
  BY DEF SamePrefix
<1> QED BY <1>1 DEF TotalIn

\* Nor does what it moves of one account.
LEMMA PrefixMoves ==
    ASSUME NEW p \in Nat, NEW list, NEW longer, SamePrefix(list, longer, p),
           NEW q \in 0..p, NEW a, NEW x
    PROVE  Guest!MovedBy(longer, 1..q, a, x) = Guest!MovedBy(list, 1..q, a, x)
<1>1. \A i \in 1..q : longer[i] = list[i]
  BY DEF SamePrefix
<1> QED BY <1>1 DEF Guest!MovedBy

\* What a request may have taken: what there was left for it at its turn, or nothing if it
\* has the wrong index.
TakenInTurn(accs, reqs, drained0, i) ==
    LET r == reqs[i]
        d == drained0[i]
        most == Lesser(r.amount, BalanceFor(accs, r.account, r.asset)
                                   - Guest!MovedBy(drained0, 1..(i - 1), r.account, r.asset))
    IN  /\ d.account = r.account /\ d.asset = r.asset /\ d.amount \in Nat
        /\ d.amount \in {0, most}
        /\ Found(accs, r) => d.amount = most

\* What the first p requests have made of the accounts: each has taken what it could from
\* the account it names, and what they took has left the list.
DrainedTo(accs, s, reqs, p) ==
    /\ s.accounts \in Seq(AnAccount) /\ SamePeople(accs, s.accounts)
    /\ IsList(s.drained) /\ Len(s.drained) = p
    /\ \A i \in 1..p : TakenInTurn(accs, reqs, s.drained, i)
    /\ \A id, x : BalanceFor(s.accounts, id, x)
                    = BalanceFor(accs, id, x) - Guest!MovedBy(s.drained, 1..p, id, x)
    /\ \A x : Held(s.accounts, x) = Held(accs, x) - TotalIn(s.drained, 1..p, x)

\* One element more at the end of a list.
LEMMA OneElementMore ==
    ASSUME NEW list, IsList(list), NEW e, NEW longer, longer = Append(list, e)
    PROVE  /\ IsList(longer) /\ Len(longer) = Len(list) + 1
           /\ SamePrefix(list, longer, Len(list))
           /\ longer[Len(list) + 1] = e
<1> DEFINE T == {list[i] : i \in DOMAIN list} \cup {e}
<1>1. list \in Seq(T) /\ e \in T
  BY DEF IsList
<1> HIDE DEF T
<1>2. /\ longer \in Seq(T) /\ Len(longer) = Len(list) + 1
      /\ \A i \in 1..Len(list) : longer[i] = list[i]
      /\ longer[Len(list) + 1] = e
  BY <1>1, AppendProperties
<1>3. IsList(longer)
  BY <1>2 DEF IsList
<1> QED BY <1>2, <1>3 DEF SamePrefix

\* The next request.
LEMMA OneMoreDrain ==
    ASSUME NEW accs \in Seq(AnAccount), Canonical(accs), NEW reqs, NEW p \in Nat,
           NEW s, DrainedTo(accs, s, reqs, p), reqs[p + 1] \in QueueEntry
    PROVE  DrainedTo(accs, Drain(s, reqs[p + 1]), reqs, p + 1)
<1> DEFINE r == reqs[p + 1]
           old == s.accounts
           list == s.drained
           t == Drain(s, r)
           e == [r EXCEPT !.amount = Taken(old, r)]
           longer == t.drained
           new == t.accounts
<1>1. /\ old \in Seq(AnAccount) /\ SamePeople(accs, old)
      /\ IsList(list) /\ Len(list) = p
      /\ \A i \in 1..p : TakenInTurn(accs, reqs, list, i)
      /\ \A id, x : BalanceFor(old, id, x) = BalanceFor(accs, id, x) - Guest!MovedBy(list, 1..p, id, x)
      /\ \A x : Held(old, x) = Held(accs, x) - TotalIn(list, 1..p, x)
  BY DEF DrainedTo
<1>2. Canonical(old)
  BY <1>1, StaysCanonical
<1>3. /\ longer = Append(list, e)
      /\ new \in Seq(AnAccount) /\ SamePeople(old, new)
      /\ e.amount \in Nat
      /\ e.amount \in {0, Lesser(r.amount, BalanceFor(old, r.account, r.asset))}
      /\ Found(old, r) => e.amount = Lesser(r.amount, BalanceFor(old, r.account, r.asset))
      /\ \A id, x : BalanceFor(new, id, x) = BalanceFor(old, id, x) - Share(e, id, x)
      /\ \A x : Held(new, x) = Held(old, x) - AmountOf(e, x)
  BY <1>1, <1>2, DrainEffect
<1>4. e.account = r.account /\ e.asset = r.asset
  BY QueueEntryType
<1> HIDE DEF e, t, r, old, list, new, longer
<1>5. /\ IsList(longer) /\ Len(longer) = p + 1
      /\ SamePrefix(list, longer, p)
      /\ longer[p + 1] = e
  BY <1>1, <1>3, OneElementMore
<1>6. \A i \in 1..(p + 1) : longer[i].amount \in Nat
  <2>1. \A i \in 1..p : list[i].amount \in Nat
    BY <1>1 DEF TakenInTurn
  <2>2. \A i \in 1..(p + 1) : i \in 1..p \/ i = p + 1
    OBVIOUS
  <2> QED BY <1>3, <1>5, <2>1, <2>2 DEF SamePrefix
<1>7. ASSUME NEW i \in 1..(p + 1) PROVE TakenInTurn(accs, reqs, longer, i)
  <2>1. CASE i \in 1..p
    <3>1. TakenInTurn(accs, reqs, list, i) /\ longer[i] = list[i]
      BY <1>1, <1>5, <2>1 DEF SamePrefix
    <3>2. i - 1 \in 0..p
      BY <2>1
    <3>3. \A a, x : Guest!MovedBy(longer, 1..(i - 1), a, x) = Guest!MovedBy(list, 1..(i - 1), a, x)
      BY <1>5, <3>2, PrefixMoves
    <3> QED BY <3>1, <3>3 DEF TakenInTurn
  <2>2. CASE i = p + 1
    <3>1. BalanceFor(old, r.account, r.asset)
            = BalanceFor(accs, r.account, r.asset) - Guest!MovedBy(list, 1..p, r.account, r.asset)
      BY <1>1
    <3>2. p \in 0..p /\ i - 1 = p
      BY <2>2
    <3>3. Guest!MovedBy(longer, 1..p, r.account, r.asset) = Guest!MovedBy(list, 1..p, r.account, r.asset)
      BY <1>5, <3>2, PrefixMoves
    <3>4. longer[i] = e /\ reqs[i] = r
      BY <1>5, <2>2 DEF r
    <3>5. Found(old, r) <=> Found(accs, r)
      BY <1>1 DEF Found, IsAt, Has, SamePeople
    <3> QED BY <1>3, <1>4, <3>1, <3>2, <3>3, <3>4, <3>5 DEF TakenInTurn
  <2> QED BY <2>1, <2>2
<1>8. ASSUME NEW id, NEW x
      PROVE  BalanceFor(new, id, x) = BalanceFor(accs, id, x) - Guest!MovedBy(longer, 1..(p + 1), id, x)
  <2>1. BalanceFor(new, id, x) = BalanceFor(old, id, x) - Share(e, id, x)
    BY <1>3
  <2>2. BalanceFor(old, id, x) = BalanceFor(accs, id, x) - Guest!MovedBy(list, 1..p, id, x)
    BY <1>1
  <2>3. p \in 0..p
    OBVIOUS
  <2>4. Guest!MovedBy(longer, 1..p, id, x) = Guest!MovedBy(list, 1..p, id, x)
    BY <1>5, <2>3, PrefixMoves
  <2>5. /\ Guest!MovedBy(longer, 1..p, id, x) \in Nat
        /\ Guest!MovedBy(longer, 1..(p + 1), id, x)
             = Guest!MovedBy(longer, 1..p, id, x) + Share(longer[p + 1], id, x)
        /\ Share(longer[p + 1], id, x) \in Nat
    BY <1>6, MovedByNext
  <2>6. BalanceFor(accs, id, x) \in Int
    BY ForType, ExchangeAssumption
  <2>7. longer[p + 1] = e
    BY <1>5
  <2> QED BY <2>1, <2>2, <2>4, <2>5, <2>6, <2>7
<1>9. ASSUME NEW x
      PROVE  Held(new, x) = Held(accs, x) - TotalIn(longer, 1..(p + 1), x)
  <2>1. Held(new, x) = Held(old, x) - AmountOf(e, x)
    BY <1>3
  <2>2. Held(old, x) = Held(accs, x) - TotalIn(list, 1..p, x)
    BY <1>1
  <2>3. p \in 0..p
    OBVIOUS
  <2>4. TotalIn(longer, 1..p, x) = TotalIn(list, 1..p, x)
    BY <1>5, <2>3, PrefixTotals
  <2>5. /\ TotalIn(longer, 1..p, x) \in Nat
        /\ TotalIn(longer, 1..(p + 1), x) = TotalIn(longer, 1..p, x) + AmountOf(longer[p + 1], x)
        /\ AmountOf(longer[p + 1], x) \in Nat
    BY <1>6, TotalInNext
  <2>6. Held(accs, x) \in Nat
    BY HeldType
  <2>7. longer[p + 1] = e
    BY <1>5
  <2> QED BY <2>1, <2>2, <2>4, <2>5, <2>6, <2>7
<1>10. SamePeople(accs, new)
  BY <1>1, <1>3, StillSamePeople
<1> QED BY <1>3, <1>5, <1>7, <1>8, <1>9, <1>10 DEF DrainedTo, new, longer, t, r

\* Before the first request nothing has been drained.
LEMMA NoDrain ==
    ASSUME NEW accs \in Seq(AnAccount), NEW reqs
    PROVE  DrainedTo(accs, [accounts |-> accs, drained |-> <<>>], reqs, 0)
<1> DEFINE s == [accounts |-> accs, drained |-> <<>>]
<1>1. s.accounts = accs /\ s.drained = <<>> /\ 1..0 = {}
  OBVIOUS
<1>2. IsList(s.drained) /\ Len(s.drained) = 0
  BY DEF IsList
<1>3. SamePeople(accs, s.accounts)
  BY <1>1 DEF SamePeople
<1> HIDE DEF s
<1>4. ASSUME NEW id, NEW x
      PROVE  BalanceFor(s.accounts, id, x)
               = BalanceFor(accs, id, x) - Guest!MovedBy(s.drained, 1..0, id, x)
  <2>1. Guest!MovedBy(s.drained, 1..0, id, x) = 0
    BY NothingMoves
  <2>2. BalanceFor(accs, id, x) \in Int
    BY ForType, ExchangeAssumption
  <2> QED BY <1>1, <2>1, <2>2
<1>5. ASSUME NEW x
      PROVE  Held(s.accounts, x) = Held(accs, x) - TotalIn(s.drained, 1..0, x)
  <2>1. TotalIn(s.drained, 1..0, x) = 0
    BY NothingMoves
  <2>2. Held(accs, x) \in Nat
    BY HeldType
  <2> QED BY <1>1, <2>1, <2>2
<1>6. \A i \in 1..0 : TakenInTurn(accs, reqs, s.drained, i)
  BY <1>1
<1>7. s.accounts \in Seq(AnAccount)
  BY <1>1
<1> QED BY <1>2, <1>3, <1>4, <1>5, <1>6, <1>7 DEF DrainedTo, s

\* apply_forced_withdrawals takes from each account it names what there is, in turn.
LEMMA RequestsDrain ==
    ASSUME NEW accs \in Seq(AnAccount), Canonical(accs), NEW reqs \in Seq(QueueEntry)
    PROVE  DrainedTo(accs, FoldLeft(Drain, [accounts |-> accs, drained |-> <<>>], reqs),
                     reqs, Len(reqs))
<1> DEFINE n == Len(reqs)
           base == [accounts |-> accs, drained |-> <<>>]
           Made(p) == Drains!Fold(base, SubSeq(reqs, 1, p))
           Good(p) == DrainedTo(accs, Made(p), reqs, p)
           Q == {p \in 0..n : Good(p)}
<1>0. n \in Nat /\ DOMAIN reqs = 1..n
  OBVIOUS
<1>1. 0 \in Q
  <2>1. Made(0) = base
    BY Drains!FoldEnds
  <2>2. DrainedTo(accs, base, reqs, 0)
    BY NoDrain
  <2> HIDE DEF Made, n, base
  <2>3. Good(0)
    BY <2>1, <2>2
  <2>4. 0 \in 0..n
    BY <1>0
  <2> HIDE DEF Good
  <2> QED BY <2>3, <2>4
<1>2. ASSUME NEW p \in 0..(n - 1), p \in Q PROVE p + 1 \in Q
  <2>1. Made(p + 1) = Drain(Made(p), reqs[p + 1])
    BY Drains!FoldPrefix
  <2>2. p \in Nat /\ p + 1 \in 0..n /\ p + 1 \in 1..n
    BY <1>0
  <2>3. reqs[p + 1] \in QueueEntry
    BY <1>0, <2>2
  <2>4. DrainedTo(accs, Made(p), reqs, p)
    BY <1>2
  <2> HIDE DEF Made, n
  <2>5. DrainedTo(accs, Drain(Made(p), reqs[p + 1]), reqs, p + 1)
    BY <2>2, <2>3, <2>4, OneMoreDrain
  <2>6. Good(p + 1)
    BY <2>1, <2>5
  <2> HIDE DEF Good
  <2> QED BY <2>2, <2>6
<1>3. n \in Q
  <2> HIDE DEF Q, n
  <2> QED BY <1>0, <1>1, <1>2, CountingInduction
<1>4. Made(n) = FoldLeft(Drain, base, reqs)
  <2>1. SubSeq(reqs, 1, n) = reqs
    BY Drains!FoldEnds
  <2> HIDE DEF base
  <2>2. FoldLeft(Drain, base, reqs) = Drains!Fold(base, reqs)
    BY DEF FoldLeft, MapThenFoldSet, Max, Drains!Fold, Drains!FoldLeft,
           Drains!MapThenFoldSet, Drains!Max
  <2> QED BY <2>1, <2>2
<1> HIDE DEF Made
<1> QED BY <1>3, <1>4

-----------------------------------------------------------------------------
(* The withdrawals of a batch                                              *)

\* A signed withdrawal, as the host passes it on.
WithdrawalEntry ==
    [account : Ids, recipient : Ids, asset : Assets, amount : 0..MaxAmount,
     nonce : 0..Limits.u64, index : Nat \ {0}, signed : BOOLEAN]

DebitOf(w) == [op |-> "debit", index |-> w.index, asset |-> w.asset, amount |-> w.amount]

\* What the first p withdrawals of a list have made of the accounts.
PaidOut(accs, new, wds, p) ==
    /\ new \in Seq(AnAccount) /\ SamePeople(accs, new)
    /\ \A id, x : BalanceFor(new, id, x) = BalanceFor(accs, id, x) - Guest!MovedBy(wds, 1..p, id, x)
    /\ \A x : Held(new, x) = Held(accs, x) - TotalIn(wds, 1..p, x)

\* Before the first withdrawal nothing has been paid out.
LEMMA NoPayout ==
    ASSUME NEW accs \in Seq(AnAccount), NEW wds
    PROVE  PaidOut(accs, accs, wds, 0)
<1>1. SamePeople(accs, accs)
  BY DEF SamePeople
<1>2. ASSUME NEW id, NEW x
      PROVE  BalanceFor(accs, id, x) = BalanceFor(accs, id, x) - Guest!MovedBy(wds, 1..0, id, x)
  <2>1. Guest!MovedBy(wds, 1..0, id, x) = 0
    BY NothingMoves
  <2>2. BalanceFor(accs, id, x) \in Int
    BY ForType, ExchangeAssumption
  <2> QED BY <2>1, <2>2
<1>3. ASSUME NEW x
      PROVE  Held(accs, x) = Held(accs, x) - TotalIn(wds, 1..0, x)
  <2>1. TotalIn(wds, 1..0, x) = 0
    BY NothingMoves
  <2>2. Held(accs, x) \in Nat
    BY HeldType
  <2> QED BY <2>1, <2>2
<1> QED BY <1>1, <1>2, <1>3 DEF PaidOut

\* The next withdrawal: its account is where it says, as validate_withdrawals has checked.
LEMMA OneMorePayout ==
    ASSUME NEW accs \in Seq(AnAccount), Canonical(accs), NEW wds, NEW p \in Nat,
           \A i \in 1..(p + 1) : wds[i].amount \in Nat,
           wds[p + 1] \in WithdrawalEntry, IsAt(accs, wds[p + 1].index, wds[p + 1].account),
           NEW mid, PaidOut(accs, mid, wds, p), NEW new \in ApplyMove(mid, DebitOf(wds[p + 1]))
    PROVE  PaidOut(accs, new, wds, p + 1)
<1> DEFINE w == wds[p + 1]
           m == DebitOf(w)
<1>1. mid \in Seq(AnAccount) /\ SamePeople(accs, mid)
  BY DEF PaidOut
<1>2. Canonical(mid)
  BY <1>1, StaysCanonical
<1>3. w.amount \in Nat /\ w.index \in Nat /\ w.asset \in Assets
  BY ExchangeAssumption DEF WithdrawalEntry
<1>4. m \in AMove
  BY <1>3 DEF DebitOf, AMove
<1>5. m.index \in DOMAIN mid /\ mid[m.index].id = w.account
  BY <1>1 DEF IsAt, SamePeople, DebitOf
<1>6. \A id, x : (IF mid[m.index].id = id THEN Moved(m, x) ELSE 0) = - Share(w, id, x)
  <2> HIDE DEF w
  <2> QED BY <1>3, <1>5 DEF Moved, Share, DebitOf
<1>7. \A x : Moved(m, x) = - AmountOf(w, x)
  <2> HIDE DEF w
  <2> QED BY <1>3 DEF Moved, AmountOf, DebitOf
<1> HIDE DEF m, w
<1>8. new \in ApplyMove(mid, m)
  BY DEF m, w
<1>9. /\ new \in Seq(AnAccount) /\ SamePeople(mid, new)
      /\ \A id : \A x : BalanceFor(new, id, x)
                          = BalanceFor(mid, id, x)
                            + (IF mid[m.index].id = id THEN Moved(m, x) ELSE 0)
  BY <1>1, <1>2, <1>4, <1>5, <1>8, MoveFor
<1>10. ASSUME NEW id, NEW x
       PROVE  BalanceFor(new, id, x)
                = BalanceFor(accs, id, x) - Guest!MovedBy(wds, 1..(p + 1), id, x)
  <2>1. BalanceFor(new, id, x)
          = BalanceFor(mid, id, x) + (IF mid[m.index].id = id THEN Moved(m, x) ELSE 0)
    BY <1>9
  <2>2. BalanceFor(new, id, x) = BalanceFor(mid, id, x) + (- Share(w, id, x))
    BY <1>6, <2>1
  <2>3. BalanceFor(mid, id, x) = BalanceFor(accs, id, x) - Guest!MovedBy(wds, 1..p, id, x)
    BY DEF PaidOut
  <2>4. /\ Guest!MovedBy(wds, 1..p, id, x) \in Nat
        /\ Guest!MovedBy(wds, 1..(p + 1), id, x)
             = Guest!MovedBy(wds, 1..p, id, x) + Share(w, id, x)
        /\ Share(w, id, x) \in Nat
    BY MovedByNext DEF w
  <2>5. BalanceFor(accs, id, x) \in Int
    BY ForType, ExchangeAssumption
  <2> QED BY <2>2, <2>3, <2>4, <2>5
<1>11. ASSUME NEW x
       PROVE  Held(new, x) = Held(accs, x) - TotalIn(wds, 1..(p + 1), x)
  <2>1. Held(new, x) = Held(mid, x) + Moved(m, x)
    BY <1>1, <1>4, <1>5, <1>8, MoveHeld
  <2>2. Held(mid, x) = Held(accs, x) - TotalIn(wds, 1..p, x)
    BY DEF PaidOut
  <2>3. /\ TotalIn(wds, 1..p, x) \in Nat
        /\ TotalIn(wds, 1..(p + 1), x) = TotalIn(wds, 1..p, x) + AmountOf(w, x)
        /\ AmountOf(w, x) \in Nat
    BY TotalInNext DEF w
  <2>4. Held(accs, x) \in Nat
    BY HeldType
  <2> QED BY <1>7, <2>1, <2>2, <2>3, <2>4
<1>12. SamePeople(accs, new)
  BY <1>1, <1>9, StillSamePeople
<1> QED BY <1>9, <1>10, <1>11, <1>12 DEF PaidOut

\* apply_withdrawals takes from each account what its withdrawals say.
LEMMA WithdrawalsPay ==
    ASSUME NEW accs \in Seq(AnAccount), Canonical(accs), NEW wds \in Seq(WithdrawalEntry),
           \A i \in DOMAIN wds : IsAt(accs, wds[i].index, wds[i].account),
           NEW new \in ApplyMoves(accs, [i \in DOMAIN wds |-> DebitOf(wds[i])])
    PROVE  PaidOut(accs, new, wds, Len(wds))
<1> DEFINE n == Len(wds)
           moves == [i \in DOMAIN wds |-> DebitOf(wds[i])]
           S == {DebitOf(wds[i]) : i \in DOMAIN wds}
           Made(p) == Moves!Fold({accs}, SubSeq(moves, 1, p))
           Good(p) == \A a \in Made(p) : PaidOut(accs, a, wds, p)
           Q == {p \in 0..n : Good(p)}
<1>0. n \in Nat /\ DOMAIN wds = 1..n
  OBVIOUS
<1>1. moves \in Seq(S) /\ Len(moves) = n /\ \A i \in 1..n : moves[i] = DebitOf(wds[i])
  <2>1. moves \in [1..n -> S]
    BY <1>0
  <2>2. moves \in Seq(S)
    BY <1>0, <2>1
  <2> QED BY <1>0, <2>2
<1>2. \A i \in 1..n : wds[i] \in WithdrawalEntry /\ wds[i].amount \in Nat
  <2>1. \A i \in 1..n : wds[i] \in WithdrawalEntry
    BY <1>0
  <2>2. \A w \in WithdrawalEntry : w.amount \in Nat
    BY ExchangeAssumption DEF WithdrawalEntry
  <2> QED BY <2>1, <2>2
<1> HIDE DEF moves, S
<1>3. 0 \in Q
  <2>1. Made(0) = {accs}
    BY <1>1, Moves!FoldEnds
  <2>2. PaidOut(accs, accs, wds, 0)
    BY NoPayout
  <2> HIDE DEF Made, n
  <2>3. Good(0)
    BY <2>1, <2>2
  <2>4. 0 \in 0..n
    BY <1>0
  <2> HIDE DEF Good
  <2> QED BY <2>3, <2>4
<1>4. ASSUME NEW p \in 0..(n - 1), p \in Q PROVE p + 1 \in Q
  <2>1. Made(p + 1) = ThenMove(Made(p), moves[p + 1])
    BY <1>1, Moves!FoldPrefix
  <2>2. p \in Nat /\ p + 1 \in 0..n /\ p + 1 \in 1..n /\ 1..(p + 1) \subseteq 1..n
    BY <1>0
  <2>3. Good(p)
    BY <1>4
  <2> HIDE DEF Made, n
  <2>4. \A i \in 1..(p + 1) : wds[i].amount \in Nat
    BY <1>2, <2>2
  <2>5. wds[p + 1] \in WithdrawalEntry /\ IsAt(accs, wds[p + 1].index, wds[p + 1].account)
    BY <1>0, <1>2, <2>2
  <2>6. moves[p + 1] = DebitOf(wds[p + 1])
    BY <1>1, <2>2
  <2>7. ASSUME NEW a \in Made(p + 1) PROVE PaidOut(accs, a, wds, p + 1)
    <3>1. PICK mid \in Made(p) : a \in ApplyMove(mid, moves[p + 1])
      BY <2>1 DEF ThenMove
    <3>2. PaidOut(accs, mid, wds, p)
      BY <2>3
    <3>3. a \in ApplyMove(mid, DebitOf(wds[p + 1]))
      BY <2>6, <3>1
    <3> HIDE DEF Good
    <3> QED BY <2>2, <2>4, <2>5, <3>2, <3>3, OneMorePayout
  <2>8. Good(p + 1)
    BY <2>7
  <2> HIDE DEF Good
  <2> QED BY <2>2, <2>8
<1>5. n \in Q
  <2> HIDE DEF Q, n
  <2> QED BY <1>0, <1>3, <1>4, CountingInduction
<1>6. Made(n) = ApplyMoves(accs, moves)
  BY <1>1, Moves!FoldEnds, ApplyMovesIsFold
<1>7. new \in Made(n)
  BY <1>6 DEF moves
<1> HIDE DEF Made
<1> QED BY <1>5, <1>7

\* What a move changes what the list says of account id by.
Gain(accs, m, id, x) == IF accs[m.index].id = id THEN Moved(m, x) ELSE 0

\* One move more of the people of a list.
LEMMA NextMoveFor ==
    ASSUME NEW accs \in Seq(AnAccount), NEW mid \in Seq(AnAccount), Canonical(mid),
           SamePeople(accs, mid), NEW m \in AMove, m.index \in DOMAIN accs,
           NEW new \in ApplyMove(mid, m)
    PROVE  /\ new \in Seq(AnAccount) /\ Canonical(new) /\ SamePeople(accs, new)
           /\ \A id, x : BalanceFor(new, id, x) = BalanceFor(mid, id, x) + Gain(accs, m, id, x)
<1>1. m.index \in DOMAIN mid /\ mid[m.index].id = accs[m.index].id
  BY DEF SamePeople
<1>2. /\ new \in Seq(AnAccount) /\ Canonical(new) /\ SamePeople(mid, new)
      /\ \A id, x : BalanceFor(new, id, x)
                      = BalanceFor(mid, id, x) + (IF mid[m.index].id = id THEN Moved(m, x) ELSE 0)
  BY <1>1, MoveFor
<1>3. SamePeople(accs, new)
  BY <1>2, StillSamePeople
<1> QED BY <1>1, <1>2, <1>3 DEF Gain

\* What a trade may take from account id: the price and the fee from the buyer, the goods
\* from the seller.
Cost(t, buyer, seller, id, x) ==
    (IF id = buyer /\ x = Markets[t.market].quote THEN t.quote + t.fee ELSE 0)
    + (IF id = seller /\ x = Markets[t.market].base THEN t.quantity ELSE 0)

\* settle_trade takes from nobody more than that, whoever the fee recipient is.
LEMMA TradeCosts ==
    ASSUME NEW accs \in Seq(AnAccount), Canonical(accs),
           \E i \in DOMAIN accs : accs[i].id = FeeRecipient,
           NEW t, ATrade(t), NEW buy, NEW sell,
           buy.index \in DOMAIN accs, sell.index \in DOMAIN accs,
           NEW new \in Settled(accs, t, buy, sell), NEW id, NEW x
    PROVE  BalanceFor(new, id, x) + Cost(t, accs[buy.index].id, accs[sell.index].id, id, x)
             >= BalanceFor(accs, id, x)
<1> DEFINE mk == Markets[t.market]
           r == FeeRecipientIndex(accs)
           Move(op, i, y, k) == [op |-> op, index |-> i, asset |-> y, amount |-> k]
           m == Move("debit",  buy.index,  mk.quote, t.quote + t.fee)
           n == Move("credit", buy.index,  mk.base,  t.quantity)
           o == Move("debit",  sell.index, mk.base,  t.quantity)
           p == Move("credit", sell.index, mk.quote, t.quote)
           q == Move("credit", r, mk.quote, t.fee)
           moves == <<m, n, o, p, q>>
           Made(k) == Moves!Fold({accs}, SubSeq(moves, 1, k))
<1>1. new \in ApplyMoves(accs, moves)
  <2>1. moves = MovesOf(accs, t, buy, sell)
    BY DEF MovesOf
  <2> HIDE DEF moves
  <2> QED BY <2>1 DEF Settled
<1>2. r \in DOMAIN accs /\ \A i \in DOMAIN accs : i \in Nat
  BY FeeRecipientIsThere
<1>3. /\ m.index \in DOMAIN accs /\ n.index \in DOMAIN accs /\ o.index \in DOMAIN accs
      /\ p.index \in DOMAIN accs /\ q.index \in DOMAIN accs
      /\ m \in AMove /\ n \in AMove /\ o \in AMove /\ p \in AMove /\ q \in AMove
  BY <1>2 DEF AMove, ATrade, ConfiguredMarket
<1> DEFINE buyer == accs[buy.index].id
           seller == accs[sell.index].id
           paid == IF id = buyer /\ x = mk.quote THEN t.quote + t.fee ELSE 0
           sold == IF id = seller /\ x = mk.base THEN t.quantity ELSE 0
           g1 == Gain(accs, m, id, x)
           g2 == Gain(accs, n, id, x)
           g3 == Gain(accs, o, id, x)
           g4 == Gain(accs, p, id, x)
           g5 == Gain(accs, q, id, x)
<1>4. /\ paid \in Nat /\ sold \in Nat /\ g1 = -paid /\ g2 \in Nat /\ g3 = -sold
      /\ g4 \in Nat /\ g5 \in Nat
  BY DEF Gain, Moved, ATrade
<1>5. Cost(t, buyer, seller, id, x) = paid + sold
  BY DEF Cost
<1> HIDE DEF m, n, o, p, q, r, paid, sold, g1, g2, g3, g4, g5
<1>6. /\ moves \in Seq(AMove) /\ Len(moves) = 5
      /\ moves[1] = m /\ moves[2] = n /\ moves[3] = o /\ moves[4] = p /\ moves[5] = q
  BY <1>3
<1> HIDE DEF moves
<1>7. Made(0) = {accs}
  BY <1>6, Moves!FoldEnds
<1>8. ASSUME NEW k \in 0..4
      PROVE  Made(k + 1) = ThenMove(Made(k), moves[k + 1])
  <2>1. k \in 0..(Len(moves) - 1)
    BY <1>6
  <2> QED BY <1>6, <2>1, Moves!FoldPrefix
<1>9. new \in Made(5)
  <2>1. SubSeq(moves, 1, 5) = moves
    <3>1. SubSeq(moves, 1, Len(moves)) = moves
      BY <1>6, Moves!FoldEnds
    <3> QED BY <1>6, <3>1
  <2> QED BY <1>1, <2>1, ApplyMovesIsFold
<1>10. /\ Made(1) = ThenMove(Made(0), m) /\ Made(2) = ThenMove(Made(1), n)
       /\ Made(3) = ThenMove(Made(2), o) /\ Made(4) = ThenMove(Made(3), p)
       /\ Made(5) = ThenMove(Made(4), q)
  <2> HIDE DEF Made
  <2>1. Made(0 + 1) = ThenMove(Made(0), moves[0 + 1])
    BY <1>8
  <2>2. Made(1 + 1) = ThenMove(Made(1), moves[1 + 1])
    BY <1>8
  <2>3. Made(2 + 1) = ThenMove(Made(2), moves[2 + 1])
    BY <1>8
  <2>4. Made(3 + 1) = ThenMove(Made(3), moves[3 + 1])
    BY <1>8
  <2>5. Made(4 + 1) = ThenMove(Made(4), moves[4 + 1])
    BY <1>8
  <2> QED BY <1>6, <2>1, <2>2, <2>3, <2>4, <2>5
<1> HIDE DEF Made
<1>11. PICK d \in Made(4) : new \in ApplyMove(d, q)
  BY <1>9, <1>10 DEF ThenMove
<1>12. PICK c \in Made(3) : d \in ApplyMove(c, p)
  BY <1>10 DEF ThenMove
<1>13. PICK b \in Made(2) : c \in ApplyMove(b, o)
  BY <1>10 DEF ThenMove
<1>14. PICK a \in Made(1) : b \in ApplyMove(a, n)
  BY <1>10 DEF ThenMove
<1>15. a \in ApplyMove(accs, m)
  BY <1>7, <1>10 DEF ThenMove
<1>16. SamePeople(accs, accs)
  BY DEF SamePeople
<1> DEFINE Good(list) == list \in Seq(AnAccount) /\ Canonical(list) /\ SamePeople(accs, list)
<1>17. Good(a) /\ BalanceFor(a, id, x) = BalanceFor(accs, id, x) + g1
  BY <1>3, <1>15, <1>16, NextMoveFor DEF g1
<1>18. Good(b) /\ BalanceFor(b, id, x) = BalanceFor(a, id, x) + g2
  BY <1>3, <1>14, <1>17, NextMoveFor DEF g2
<1>19. Good(c) /\ BalanceFor(c, id, x) = BalanceFor(b, id, x) + g3
  BY <1>3, <1>13, <1>18, NextMoveFor DEF g3
<1>20. Good(d) /\ BalanceFor(d, id, x) = BalanceFor(c, id, x) + g4
  BY <1>3, <1>12, <1>19, NextMoveFor DEF g4
<1>21. Good(new) /\ BalanceFor(new, id, x) = BalanceFor(d, id, x) + g5
  BY <1>3, <1>11, <1>20, NextMoveFor DEF g5
<1>22. BalanceFor(accs, id, x) \in Int /\ BalanceFor(new, id, x) \in Int
  <2>1. BalanceFor(accs, id, x) \in 0..MaxAmount /\ BalanceFor(new, id, x) \in 0..MaxAmount
    BY <1>21, ForType
  <2> QED BY <2>1, ExchangeAssumption
<1>23. BalanceFor(new, id, x) + (paid + sold) >= BalanceFor(accs, id, x)
  <2> DEFINE b0 == BalanceFor(accs, id, x)
             b1 == BalanceFor(a, id, x)
             b2 == BalanceFor(b, id, x)
             b3 == BalanceFor(c, id, x)
             b4 == BalanceFor(d, id, x)
             b5 == BalanceFor(new, id, x)
  <2>1. b0 \in Int /\ b1 = b0 + g1 /\ b2 = b1 + g2 /\ b3 = b2 + g3 /\ b4 = b3 + g4 /\ b5 = b4 + g5
    BY <1>17, <1>18, <1>19, <1>20, <1>21, <1>22
  <2> HIDE DEF b0, b1, b2, b3, b4, b5
  <2>2. b1 \in Int /\ b1 + paid = b0
    BY <1>4, <2>1
  <2>3. b2 \in Int /\ b2 + paid >= b0
    BY <1>4, <2>1, <2>2
  <2>4. b3 \in Int /\ b3 + sold = b2
    BY <1>4, <2>1, <2>3
  <2>5. b4 \in Int /\ b4 >= b3
    BY <1>4, <2>1, <2>4
  <2>6. b5 \in Int /\ b5 >= b4
    BY <1>4, <2>1, <2>5
  <2>7. b5 + (paid + sold) >= b0
    BY <1>4, <2>1, <2>2, <2>3, <2>4, <2>5, <2>6
  <2> QED BY <2>7 DEF b0, b5
<1> QED BY <1>5, <1>23
=============================================================================
