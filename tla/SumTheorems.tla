---------------------------- MODULE SumTheorems ----------------------------
(***************************************************************************)
(* Facts about the sums the models add balances and amounts with:          *)
(* SumFunctionOnSet(f, S) of the community modules adds f[x] over a finite *)
(* set S in an order that CHOOSE fixes, and the facts here say that the    *)
(* order does not matter.                                                  *)
(*                                                                         *)
(* A fact about every finite set is proved from its smallest               *)
(* counterexample: among the subsets of S that violate it there is one     *)
(* none of whose proper subsets does (SmallestSubset).                     *)
(***************************************************************************)
EXTENDS Integers, FiniteSetsExt, FiniteSetTheorems, TLAPS

\* The member a sum takes out of a set first.
Pick(D) == CHOOSE x \in D : TRUE

\* What the sum over D is, when g gives the sums over the smaller sets.
Summand(f, g, D) == IF D = {} THEN 0 ELSE f[Pick(D)] + g[D \ {Pick(D)}]

\* g gives the sum of f over every subset of S.
IsSum(g, f, S) == g = [D \in SUBSET S |-> Summand(f, g, D)]

\* The member that is picked is one of the set.
LEMMA PickInSet ==
    ASSUME NEW D, D # {}
    PROVE  Pick(D) \in D
BY DEF Pick

\* A family of subsets of a finite set has a smallest member: the way in which
\* every statement about all the accounts, or all the entries of a queue, is proved.
LEMMA SmallestSubset ==
    ASSUME NEW S, IsFiniteSet(S), NEW X \in SUBSET SUBSET S, X # {}
    PROVE  \E D \in X : \A E \in X : E \subseteq D => E = D
<1>1. FiniteSubsetsOf(S) = SUBSET S
  BY FS_FiniteSubsetsOfFinite
<1>2. IsWellFoundedOn(StrictSubsetOrdering(S), SUBSET S)
  BY <1>1, FS_StrictSubsetOrderingWellFounded
<1>3. PICK D \in X : \A E \in X : ~(<<E, D>> \in StrictSubsetOrdering(S))
  BY <1>2, WFMin
<1>4. ASSUME NEW E \in X, E \subseteq D, E # D PROVE FALSE
  <2>1. <<E, D>> \in StrictSubsetOrdering(S)
    BY <1>4 DEF StrictSubsetOrdering
  <2> QED BY <2>1, <1>3
<1> QED BY <1>4

\* The sums over the subsets of a set are determined by f.
LEMMA SumAgrees ==
    ASSUME NEW f, NEW S, IsFiniteSet(S), NEW T \in SUBSET S, NEW g, NEW h,
           IsSum(g, f, S), IsSum(h, f, T)
    PROVE  \A D \in SUBSET T : g[D] = h[D]
<1> DEFINE X == {D \in SUBSET T : g[D] # h[D]}
<1>1. SUFFICES ASSUME X # {} PROVE FALSE
  OBVIOUS
<1>2. IsFiniteSet(T)
  BY FS_Subset
<1>3. PICK D \in X : \A E \in X : E \subseteq D => E = D
  <2> HIDE DEF X
  <2>1. X \in SUBSET SUBSET T
    BY DEF X
  <2> QED BY <1>1, <1>2, <2>1, SmallestSubset
<1>4. D \in SUBSET T /\ D \in SUBSET S /\ g[D] # h[D]
  OBVIOUS
<1>5. g[D] = Summand(f, g, D) /\ h[D] = Summand(f, h, D)
  BY <1>4 DEF IsSum
<1>6. CASE D = {}
  BY <1>4, <1>5, <1>6 DEF Summand
<1>7. CASE D # {}
  <2> DEFINE E == D \ {Pick(D)}
  <2>1. Pick(D) \in D
    BY <1>7, PickInSet
  <2>2. E \in SUBSET T /\ E \subseteq D /\ E # D
    BY <1>4, <2>1
  <2>3. g[E] = h[E]
    BY <2>2, <1>3
  <2> QED BY <2>3, <1>4, <1>5, <1>7 DEF Summand
<1> QED BY <1>6, <1>7

\* The recursion that defines a sum over a finite set has a solution.
LEMMA SumExists ==
    ASSUME NEW f, NEW S, IsFiniteSet(S)
    PROVE  \E g : IsSum(g, f, S)
<1> DEFINE X == {D \in SUBSET S : ~ \E g : IsSum(g, f, D)}
<1>1. SUFFICES ASSUME X # {} PROVE FALSE
  OBVIOUS
<1>2. PICK D \in X : \A E \in X : E \subseteq D => E = D
  <2> HIDE DEF X
  <2>1. X \in SUBSET SUBSET S
    BY DEF X
  <2> QED BY <1>1, <2>1, SmallestSubset
<1> DEFINE part(E) == CHOOSE g : IsSum(g, f, E)
           value(E) == IF E = {} THEN 0 ELSE f[Pick(E)] + part(E \ {Pick(E)})[E \ {Pick(E)}]
           whole == [E \in SUBSET D |-> value(E)]
<1>3. D \in SUBSET S
  BY <1>2
<1>4. ASSUME NEW E \in SUBSET D, E # D PROVE IsSum(part(E), f, E)
  <2>1. E \notin X /\ E \in SUBSET S
    BY <1>4, <1>2, <1>3
  <2>2. \E g : IsSum(g, f, E)
    BY <2>1
  <2> QED BY <2>2
<1>5. ASSUME NEW E \in SUBSET D, E # D PROVE part(E)[E] = value(E)
  <2> HIDE DEF X, part
  <2>1. IsSum(part(E), f, E)
    BY <1>4, <1>5
  <2>2. part(E)[E] = Summand(f, part(E), E)
    BY <2>1 DEF IsSum
  <2>3. CASE E = {}
    BY <2>2, <2>3 DEF Summand
  <2>4. CASE E # {}
    <3> DEFINE F == E \ {Pick(E)}
    <3>1. Pick(E) \in E
      BY <2>4, PickInSet
    <3>2. F \in SUBSET D /\ F # D /\ F \in SUBSET E
      BY <3>1
    <3>3. IsSum(part(F), f, F)
      BY <3>2, <1>4
    <3>4. IsFiniteSet(E)
      BY <1>3, FS_Subset
    <3>5. part(E)[F] = part(F)[F]
      <4> HIDE DEF F
      <4>1. \A G \in SUBSET F : part(E)[G] = part(F)[G]
        BY <3>2, <3>3, <3>4, <2>1, SumAgrees
      <4> QED BY <4>1
    <3> QED BY <2>2, <2>4, <3>5 DEF Summand
  <2> QED BY <2>3, <2>4
<1>6. ASSUME NEW E \in SUBSET D PROVE value(E) = Summand(f, whole, E)
  <2> HIDE DEF part, X
  <2>1. CASE E = {}
    BY <2>1 DEF Summand
  <2>2. CASE E # {}
    <3> DEFINE F == E \ {Pick(E)}
    <3>1. Pick(E) \in E
      BY <2>2, PickInSet
    <3>2. F \in SUBSET D /\ F # D
      BY <3>1
    <3> HIDE DEF F
    <3>3. part(F)[F] = value(F)
      BY <3>2, <1>5
    <3>4. whole[F] = value(F)
      BY <3>2
    <3>5. whole[F] = part(F)[F]
      BY <3>3, <3>4
    <3> HIDE DEF whole
    <3>6. value(E) = f[Pick(E)] + part(F)[F]
      BY <2>2 DEF F
    <3> QED BY <2>2, <3>5, <3>6 DEF Summand, F
  <2> QED BY <2>1, <2>2
<1>7. IsSum(whole, f, D)
  <2> HIDE DEF value
  <2> QED BY <1>6 DEF IsSum
<1> QED BY <1>2, <1>7

\* The community operator computes that solution: the balance a ledger holds in
\* total, and what a queue moves, are well defined.
LEMMA SumDefined ==
    ASSUME NEW f, NEW S, IsFiniteSet(S)
    PROVE  \E g : IsSum(g, f, S) /\ SumFunctionOnSet(f, S) = g[S]
<1> DEFINE g == CHOOSE h : IsSum(h, f, S)
<1>1. SumFunctionOnSet(f, S) = g[S]
  BY DEF SumFunctionOnSet, FoldFunctionOnSet, MapThenFoldSet, IsSum, Summand, Pick
<1>2. IsSum(g, f, S)
  BY SumExists
<1> QED BY <1>1, <1>2

\* A sum takes out one member, which CHOOSE fixes, and adds the rest.
LEMMA SumRecursion ==
    ASSUME NEW f, NEW S, IsFiniteSet(S)
    PROVE  SumFunctionOnSet(f, S)
             = IF S = {} THEN 0 ELSE f[Pick(S)] + SumFunctionOnSet(f, S \ {Pick(S)})
<1>1. PICK g : IsSum(g, f, S) /\ SumFunctionOnSet(f, S) = g[S]
  BY SumDefined
<1>2. g[S] = Summand(f, g, S)
  BY <1>1 DEF IsSum
<1>3. CASE S = {}
  BY <1>1, <1>2, <1>3 DEF Summand
<1>4. CASE S # {}
  <2> DEFINE T == S \ {Pick(S)}
  <2>1. T \in SUBSET S
    OBVIOUS
  <2> HIDE DEF T
  <2>2. IsFiniteSet(T)
    BY <2>1, FS_Subset
  <2>3. PICK h : IsSum(h, f, T) /\ SumFunctionOnSet(f, T) = h[T]
    BY <2>2, SumDefined
  <2>4. \A G \in SUBSET T : g[G] = h[G]
    BY <1>1, <2>1, <2>3, SumAgrees
  <2>5. g[T] = SumFunctionOnSet(f, T)
    BY <2>3, <2>4
  <2>6. g[S] = f[Pick(S)] + g[T]
    BY <1>2, <1>4 DEF Summand, T
  <2> QED BY <1>1, <1>4, <2>5, <2>6 DEF T
<1> QED BY <1>3, <1>4

------------------------------------------------------------------------------

\* Nothing adds up to zero: an empty queue moves nothing.
LEMMA SumEmpty ==
    ASSUME NEW f
    PROVE  SumFunctionOnSet(f, {}) = 0
BY SumRecursion, FS_EmptySet

\* A sum of integers is an integer.
LEMMA SumInt ==
    ASSUME NEW f, NEW S, IsFiniteSet(S), \A i \in S : f[i] \in Int
    PROVE  SumFunctionOnSet(f, S) \in Int
<1> DEFINE X == {D \in SUBSET S : SumFunctionOnSet(f, D) \notin Int}
<1>1. SUFFICES ASSUME X # {} PROVE FALSE
  OBVIOUS
<1>2. PICK D \in X : \A E \in X : E \subseteq D => E = D
  <2> HIDE DEF X
  <2>1. X \in SUBSET SUBSET S
    BY DEF X
  <2> QED BY <1>1, <2>1, SmallestSubset
<1>3. D \in SUBSET S /\ IsFiniteSet(D)
  BY FS_Subset
<1>4. CASE D = {}
  BY <1>4, SumEmpty
<1>5. CASE D # {}
  <2> DEFINE E == D \ {Pick(D)}
  <2>1. Pick(D) \in D
    BY <1>5, PickInSet
  <2>2. SumFunctionOnSet(f, E) \in Int
    BY <2>1, <1>2, <1>3
  <2>3. SumFunctionOnSet(f, D) = f[Pick(D)] + SumFunctionOnSet(f, E)
    BY <1>3, <1>5, SumRecursion
  <2> QED BY <2>1, <2>2, <2>3, <1>3
<1> QED BY <1>4, <1>5

\* Any member can be taken out first, whatever the order of the definition: the
\* balance of the account that escapes, the payout that is made.
LEMMA SumRemove ==
    ASSUME NEW f, NEW S, IsFiniteSet(S), \A i \in S : f[i] \in Int, NEW x \in S
    PROVE  SumFunctionOnSet(f, S) = f[x] + SumFunctionOnSet(f, S \ {x})
<1> DEFINE T(D) == SumFunctionOnSet(f, D)
           X == {D \in SUBSET S : \E y \in D : T(D) # f[y] + T(D \ {y})}
<1>1. SUFFICES ASSUME X # {} PROVE FALSE
  OBVIOUS
<1>2. PICK D \in X : \A E \in X : E \subseteq D => E = D
  <2> HIDE DEF X
  <2>1. X \in SUBSET SUBSET S
    BY DEF X
  <2> QED BY <1>1, <2>1, SmallestSubset
<1>3. D \in SUBSET S /\ IsFiniteSet(D)
  BY FS_Subset
<1>4. PICK y \in D : T(D) # f[y] + T(D \ {y})
  BY <1>2
<1> DEFINE p == Pick(D)
<1>5. p \in D
  BY <1>4, PickInSet
<1>6. T(D) = f[p] + T(D \ {p})
  BY <1>3, <1>5, SumRecursion
<1>7. y # p
  BY <1>4, <1>6
<1>8. \A E \in SUBSET D : E # D => \A z \in E : T(E) = f[z] + T(E \ {z})
  BY <1>2, <1>3
<1> HIDE DEF X, T, p
<1>9. T(D \ {p}) = f[y] + T((D \ {p}) \ {y})
  BY <1>8, <1>5, <1>7
<1>10. T(D \ {y}) = f[p] + T((D \ {y}) \ {p})
  BY <1>8, <1>5, <1>7
<1>11. (D \ {y}) \ {p} = (D \ {p}) \ {y}
  OBVIOUS
<1>12. T((D \ {p}) \ {y}) \in Int
  <2> DEFINE E == (D \ {p}) \ {y}
  <2>1. E \in SUBSET S
    BY <1>3
  <2> HIDE DEF E
  <2>2. IsFiniteSet(E)
    BY <2>1, FS_Subset
  <2> QED BY <2>1, <2>2, SumInt DEF T, E
<1>13. f[y] \in Int /\ f[p] \in Int
  BY <1>3, <1>5
<1>14. \A a, b, c \in Int : a + (b + c) = b + (a + c)
  OBVIOUS
<1>15. f[p] + (f[y] + T((D \ {p}) \ {y})) = f[y] + (f[p] + T((D \ {p}) \ {y}))
  BY <1>12, <1>13, <1>14
<1> QED BY <1>4, <1>6, <1>9, <1>10, <1>11, <1>15

\* What holds of the empty set and is kept by adding a member holds of a finite
\* set.
LEMMA SubsetInduction ==
    ASSUME NEW S, IsFiniteSet(S), NEW P \in SUBSET SUBSET S, {} \in P,
           \A D \in P : \A x \in S : x \notin D => D \cup {x} \in P
    PROVE  S \in P
<1> DEFINE X == (SUBSET S) \ P
<1>1. SUFFICES ASSUME X # {} PROVE FALSE
  OBVIOUS
<1>2. PICK D \in X : \A E \in X : E \subseteq D => E = D
  <2> HIDE DEF X
  <2>1. X \in SUBSET SUBSET S
    BY DEF X
  <2> QED BY <1>1, <2>1, SmallestSubset
<1>3. D # {}
  OBVIOUS
<1>4. PICK x \in D : TRUE
  BY <1>3
<1>5. D \ {x} \in P
  <2>1. D \ {x} # D
    BY <1>4
  <2>2. D \ {x} \in SUBSET S
    BY <1>2
  <2>3. D \ {x} \notin X
    BY <2>1, <1>2
  <2> QED BY <2>2, <2>3
<1>6. (D \ {x}) \cup {x} = D
  BY <1>4
<1>7. (D \ {x}) \cup {x} \in P
  BY <1>5, <1>4, <1>2
<1> QED BY <1>6, <1>7, <1>2

\* One more member adds its value: a deposit at the end of the queue.
LEMMA SumAdd ==
    ASSUME NEW f, NEW S, IsFiniteSet(S), NEW x, x \notin S,
           \A i \in S \cup {x} : f[i] \in Int
    PROVE  SumFunctionOnSet(f, S \cup {x}) = f[x] + SumFunctionOnSet(f, S)
<1> DEFINE T == S \cup {x}
<1>1. IsFiniteSet(T)
  BY FS_AddElement
<1>2. T \ {x} = S /\ x \in T /\ \A i \in T : f[i] \in Int
  OBVIOUS
<1> HIDE DEF T
<1>3. SumFunctionOnSet(f, T) = f[x] + SumFunctionOnSet(f, T \ {x})
  BY <1>1, <1>2, SumRemove
<1> QED BY <1>2, <1>3 DEF T

\* The sum over one member is its value: a claim pays one entry.
LEMMA SumSingle ==
    ASSUME NEW f, NEW x, f[x] \in Int
    PROVE  SumFunctionOnSet(f, {x}) = f[x]
<1>1. SumFunctionOnSet(f, {} \cup {x}) = f[x] + SumFunctionOnSet(f, {})
  BY FS_EmptySet, SumAdd
<1>2. {} \cup {x} = {x}
  OBVIOUS
<1> QED BY <1>1, <1>2, SumEmpty

\* A sum of naturals is a natural: balances and amounts are unsigned.
LEMMA SumNat ==
    ASSUME NEW f, NEW S, IsFiniteSet(S), \A i \in S : f[i] \in Nat
    PROVE  SumFunctionOnSet(f, S) \in Nat
<1> DEFINE P == {D \in SUBSET S : SumFunctionOnSet(f, D) \in Nat}
<1>1. {} \in P
  BY SumEmpty
<1>2. ASSUME NEW D \in P, NEW x \in S, x \notin D PROVE D \cup {x} \in P
  <2>1. D \in SUBSET S /\ IsFiniteSet(D) /\ SumFunctionOnSet(f, D) \in Nat
    BY FS_Subset
  <2>2. \A i \in D \cup {x} : f[i] \in Int
    BY <2>1
  <2>3. SumFunctionOnSet(f, D \cup {x}) = f[x] + SumFunctionOnSet(f, D)
    BY <1>2, <2>1, <2>2, SumAdd
  <2> QED BY <2>1, <2>3
<1>3. S \in P
  <2>1. P \in SUBSET SUBSET S
    OBVIOUS
  <2> HIDE DEF P
  <2> QED BY <1>1, <1>2, <2>1, SubsetInduction
<1> QED BY <1>3

\* Functions that agree on a set have the same sum over it.
LEMMA SumEqual ==
    ASSUME NEW f, NEW g, NEW S, IsFiniteSet(S), \A i \in S : f[i] \in Int /\ f[i] = g[i]
    PROVE  SumFunctionOnSet(f, S) = SumFunctionOnSet(g, S)
<1> DEFINE P == {D \in SUBSET S : SumFunctionOnSet(f, D) = SumFunctionOnSet(g, D)}
<1>1. {} \in P
  BY SumEmpty
<1>2. ASSUME NEW D \in P, NEW x \in S, x \notin D PROVE D \cup {x} \in P
  <2>1. D \in SUBSET S /\ IsFiniteSet(D) /\ SumFunctionOnSet(f, D) = SumFunctionOnSet(g, D)
    BY FS_Subset
  <2>2. \A i \in D \cup {x} : f[i] \in Int /\ g[i] \in Int
    BY <2>1
  <2>3. SumFunctionOnSet(f, D \cup {x}) = f[x] + SumFunctionOnSet(f, D)
    BY <1>2, <2>1, <2>2, SumAdd
  <2>4. SumFunctionOnSet(g, D \cup {x}) = g[x] + SumFunctionOnSet(g, D)
    BY <1>2, <2>1, <2>2, SumAdd
  <2> QED BY <2>1, <2>3, <2>4
<1>3. S \in P
  <2>1. P \in SUBSET SUBSET S
    OBVIOUS
  <2> HIDE DEF P
  <2> QED BY <1>1, <1>2, <2>1, SubsetInduction
<1> QED BY <1>3

\* Zeros add up to zero: the ledger the constructor starts from.
LEMMA SumZero ==
    ASSUME NEW f, NEW S, IsFiniteSet(S), \A i \in S : f[i] = 0
    PROVE  SumFunctionOnSet(f, S) = 0
<1> DEFINE P == {D \in SUBSET S : SumFunctionOnSet(f, D) = 0}
<1>1. {} \in P
  BY SumEmpty
<1>2. ASSUME NEW D \in P, NEW x \in S, x \notin D PROVE D \cup {x} \in P
  <2>1. D \in SUBSET S /\ IsFiniteSet(D) /\ SumFunctionOnSet(f, D) = 0
    BY FS_Subset
  <2>2. \A i \in D \cup {x} : f[i] \in Int
    BY <2>1
  <2>3. SumFunctionOnSet(f, D \cup {x}) = f[x] + SumFunctionOnSet(f, D)
    BY <1>2, <2>1, <2>2, SumAdd
  <2> QED BY <2>1, <2>3
<1>3. S \in P
  <2>1. P \in SUBSET SUBSET S
    OBVIOUS
  <2> HIDE DEF P
  <2> QED BY <1>1, <1>2, <2>1, SubsetInduction
<1> QED BY <1>3

\* The sum over two sets that share nothing is the sum of the two: the entries a
\* batch consumes and those it leaves.
LEMMA SumUnion ==
    ASSUME NEW f, NEW S, IsFiniteSet(S), NEW T, IsFiniteSet(T), S \cap T = {},
           \A i \in S \cup T : f[i] \in Int
    PROVE  SumFunctionOnSet(f, S \cup T) = SumFunctionOnSet(f, S) + SumFunctionOnSet(f, T)
<1> DEFINE P == {D \in SUBSET S :
                    SumFunctionOnSet(f, D \cup T) = SumFunctionOnSet(f, D) + SumFunctionOnSet(f, T)}
<1>0. SumFunctionOnSet(f, T) \in Int
  BY SumInt
<1>1. {} \in P
  <2>1. {} \cup T = T
    OBVIOUS
  <2> QED BY <1>0, <2>1, SumEmpty
<1>2. ASSUME NEW D \in P, NEW x \in S, x \notin D PROVE D \cup {x} \in P
  <2>1. D \in SUBSET S /\ IsFiniteSet(D)
        /\ SumFunctionOnSet(f, D \cup T) = SumFunctionOnSet(f, D) + SumFunctionOnSet(f, T)
    BY FS_Subset
  <2>2. \A i \in D \cup {x} : f[i] \in Int
    BY <2>1
  <2>3. SumFunctionOnSet(f, D \cup {x}) = f[x] + SumFunctionOnSet(f, D)
    BY <1>2, <2>1, <2>2, SumAdd
  <2> DEFINE U == D \cup T
  <2>4. IsFiniteSet(U) /\ x \notin U /\ \A i \in U \cup {x} : f[i] \in Int
    BY <2>1, <1>2, FS_Union
  <2>5. U \cup {x} = (D \cup {x}) \cup T
    OBVIOUS
  <2>6. SumFunctionOnSet(f, U \cup {x}) = f[x] + SumFunctionOnSet(f, U)
    <3> HIDE DEF U
    <3> QED BY <2>4, SumAdd
  <2>7. SumFunctionOnSet(f, D) \in Int /\ f[x] \in Int
    BY <2>1, <2>2, SumInt
  <2>8. \A a, b, c \in Int : a + (b + c) = (a + b) + c
    OBVIOUS
  <2>9. f[x] + (SumFunctionOnSet(f, D) + SumFunctionOnSet(f, T))
          = (f[x] + SumFunctionOnSet(f, D)) + SumFunctionOnSet(f, T)
    BY <1>0, <2>7, <2>8
  <2>10. SumFunctionOnSet(f, (D \cup {x}) \cup T)
           = SumFunctionOnSet(f, D \cup {x}) + SumFunctionOnSet(f, T)
    BY <2>1, <2>3, <2>5, <2>6, <2>9
  <2>11. D \cup {x} \in SUBSET S
    BY <2>1
  <2> QED BY <2>10, <2>11
<1>3. S \in P
  <2>1. P \in SUBSET SUBSET S
    OBVIOUS
  <2> HIDE DEF P
  <2> QED BY <1>1, <1>2, <2>1, SubsetInduction
<1> QED BY <1>3

\* The sum of two functions is the sum of their sums: what a payout moves of each
\* asset and what the queue holds of it.
LEMMA SumPlus ==
    ASSUME NEW f, NEW g, NEW h, NEW S, IsFiniteSet(S),
           \A i \in S : f[i] \in Int /\ g[i] \in Int /\ h[i] = f[i] + g[i]
    PROVE  SumFunctionOnSet(h, S) = SumFunctionOnSet(f, S) + SumFunctionOnSet(g, S)
<1> DEFINE P == {D \in SUBSET S :
                    SumFunctionOnSet(h, D) = SumFunctionOnSet(f, D) + SumFunctionOnSet(g, D)}
<1>1. {} \in P
  BY SumEmpty
<1>2. ASSUME NEW D \in P, NEW x \in S, x \notin D PROVE D \cup {x} \in P
  <2>1. D \in SUBSET S /\ IsFiniteSet(D)
        /\ SumFunctionOnSet(h, D) = SumFunctionOnSet(f, D) + SumFunctionOnSet(g, D)
    BY FS_Subset
  <2>2. \A i \in D \cup {x} : f[i] \in Int /\ g[i] \in Int /\ h[i] = f[i] + g[i]
    BY <2>1
  <2>3. SumFunctionOnSet(f, D \cup {x}) = f[x] + SumFunctionOnSet(f, D)
    BY <1>2, <2>1, <2>2, SumAdd
  <2>4. SumFunctionOnSet(g, D \cup {x}) = g[x] + SumFunctionOnSet(g, D)
    BY <1>2, <2>1, <2>2, SumAdd
  <2>5. SumFunctionOnSet(h, D \cup {x}) = h[x] + SumFunctionOnSet(h, D)
    <3>1. \A i \in D \cup {x} : h[i] \in Int
      BY <2>2
    <3> QED BY <1>2, <2>1, <3>1, SumAdd
  <2>6. SumFunctionOnSet(f, D) \in Int /\ SumFunctionOnSet(g, D) \in Int
    BY <2>1, <2>2, SumInt
  <2>7. f[x] \in Int /\ g[x] \in Int /\ h[x] = f[x] + g[x]
    OBVIOUS
  <2> QED BY <2>1, <2>3, <2>4, <2>5, <2>6, <2>7
<1>3. S \in P
  <2>1. P \in SUBSET SUBSET S
    OBVIOUS
  <2> HIDE DEF P
  <2> QED BY <1>1, <1>2, <2>1, SubsetInduction
<1> QED BY <1>3

\* A change of one value changes the sum by as much: one account's entry of
\* pendingWithdrawals, one account's balance.
LEMMA SumChange ==
    ASSUME NEW f, NEW g, NEW S, IsFiniteSet(S), NEW x \in S,
           \A i \in S : f[i] \in Int /\ g[i] \in Int /\ (i # x => g[i] = f[i])
    PROVE  SumFunctionOnSet(g, S) = SumFunctionOnSet(f, S) - f[x] + g[x]
<1> DEFINE T == S \ {x}
<1>1. T \in SUBSET S /\ x \notin T
  OBVIOUS
<1>2. IsFiniteSet(T)
  BY <1>1, FS_Subset
<1>3. SumFunctionOnSet(f, S) = f[x] + SumFunctionOnSet(f, T)
  BY SumRemove
<1>4. SumFunctionOnSet(g, S) = g[x] + SumFunctionOnSet(g, T)
  BY SumRemove
<1>5. \A i \in T : f[i] \in Int /\ f[i] = g[i]
  BY <1>1
<1> HIDE DEF T
<1>6. SumFunctionOnSet(f, T) = SumFunctionOnSet(g, T)
  BY <1>2, <1>5, SumEqual
<1>7. SumFunctionOnSet(f, T) \in Int
  BY <1>2, <1>5, SumInt
<1> QED BY <1>3, <1>4, <1>6, <1>7

\* A sum of naturals is at least each of them: what the contract owes to all
\* is at least what it owes to one.
LEMMA SumAtLeast ==
    ASSUME NEW f, NEW S, IsFiniteSet(S), \A i \in S : f[i] \in Nat, NEW x \in S
    PROVE  f[x] =< SumFunctionOnSet(f, S)
<1> DEFINE T == S \ {x}
<1>1. T \in SUBSET S
  OBVIOUS
<1>2. IsFiniteSet(T) /\ \A i \in T : f[i] \in Nat
  BY <1>1, FS_Subset
<1>3. SumFunctionOnSet(f, S) = f[x] + SumFunctionOnSet(f, T)
  BY SumRemove
<1> HIDE DEF T
<1>4. SumFunctionOnSet(f, T) \in Nat
  BY <1>2, SumNat
<1> QED BY <1>3, <1>4

\* Smaller values have a smaller sum: what orders have cost is within what they commit to.
LEMMA SumAtMost ==
    ASSUME NEW f, NEW g, NEW S, IsFiniteSet(S),
           \A i \in S : f[i] \in Nat /\ g[i] \in Nat /\ f[i] =< g[i]
    PROVE  SumFunctionOnSet(f, S) =< SumFunctionOnSet(g, S)
<1> DEFINE d == [i \in S |-> g[i] - f[i]]
<1>1. \A i \in S : f[i] \in Int /\ d[i] \in Int /\ g[i] = f[i] + d[i]
  OBVIOUS
<1>2. \A i \in S : d[i] \in Nat
  OBVIOUS
<1> HIDE DEF d
<1>3. SumFunctionOnSet(g, S) = SumFunctionOnSet(f, S) + SumFunctionOnSet(d, S)
  BY <1>1, SumPlus
<1>4. SumFunctionOnSet(f, S) \in Nat /\ SumFunctionOnSet(d, S) \in Nat
  BY <1>2, SumNat
<1> QED BY <1>3, <1>4

\* A sum does not depend on the names of its positions: a slice of a queue moves
\* what its positions in the queue move.
LEMMA SumReindex ==
    ASSUME NEW f, NEW g, NEW h, NEW S, IsFiniteSet(S), NEW T, IsFiniteSet(T),
           \A i \in S : h[i] \in T /\ f[i] \in Int /\ f[i] = g[h[i]],
           \A i, j \in S : h[i] = h[j] => i = j,
           \A t \in T : \E i \in S : h[i] = t
    PROVE  SumFunctionOnSet(f, S) = SumFunctionOnSet(g, T)
<1> DEFINE I(D) == {t \in T : \E i \in D : h[i] = t}
           P == {D \in SUBSET S : SumFunctionOnSet(f, D) = SumFunctionOnSet(g, I(D))}
<1>1. {} \in P
  <2>1. I({}) = {}
    OBVIOUS
  <2> HIDE DEF I
  <2> QED BY <2>1, SumEmpty
<1>2. ASSUME NEW D \in P, NEW x \in S, x \notin D PROVE D \cup {x} \in P
  <2>1. D \in SUBSET S /\ IsFiniteSet(D) /\ SumFunctionOnSet(f, D) = SumFunctionOnSet(g, I(D))
    BY FS_Subset
  <2>2. \A i \in D \cup {x} : f[i] \in Int
    BY <2>1
  <2>3. SumFunctionOnSet(f, D \cup {x}) = f[x] + SumFunctionOnSet(f, D)
    BY <1>2, <2>1, <2>2, SumAdd
  <2>4. I(D) \in SUBSET T /\ h[x] \notin I(D)
    BY <2>1, <1>2
  <2>5. I(D \cup {x}) = I(D) \cup {h[x]}
    <3>1. h[x] \in T
      OBVIOUS
    <3> QED BY <3>1
  <2>6. IsFiniteSet(I(D))
    BY <2>4, FS_Subset
  <2>7. \A t \in I(D) \cup {h[x]} : g[t] \in Int
    BY <2>1
  <2>8. SumFunctionOnSet(g, I(D) \cup {h[x]}) = g[h[x]] + SumFunctionOnSet(g, I(D))
    <3> HIDE DEF I
    <3> QED BY <2>4, <2>6, <2>7, SumAdd
  <2>9. f[x] = g[h[x]]
    OBVIOUS
  <2> QED BY <2>1, <2>3, <2>5, <2>8, <2>9
<1>3. S \in P
  <2>1. P \in SUBSET SUBSET S
    OBVIOUS
  <2> HIDE DEF P
  <2> QED BY <1>1, <1>2, <2>1, SubsetInduction
<1>4. I(S) = T
  OBVIOUS
<1> QED BY <1>3, <1>4

\* What holds of 0 and is kept by every step up to n holds of n: the way in which
\* a statement about every position of a list is proved.
LEMMA CountingInduction ==
    ASSUME NEW n \in Nat, NEW Q, 0 \in Q, \A i \in 0..(n - 1) : i \in Q => i + 1 \in Q
    PROVE  n \in Q
<1> DEFINE S == 1..n
           X == {1..i : i \in {j \in 0..n : j \notin Q}}
<1>1. SUFFICES ASSUME n \notin Q PROVE FALSE
  OBVIOUS
<1>2. X # {} /\ X \in SUBSET SUBSET S
  BY <1>1
<1>3. IsFiniteSet(S)
  BY FS_Interval
<1>4. PICK D \in X : \A E \in X : E \subseteq D => E = D
  <2> HIDE DEF X, S
  <2> QED BY <1>2, <1>3, SmallestSubset
<1>5. PICK i \in 0..n : i \notin Q /\ D = 1..i
  BY <1>4
<1>6. i # 0
  BY <1>5
<1>7. i - 1 \in 0..(n - 1) /\ (i - 1) + 1 = i
  BY <1>5, <1>6
<1>8. i - 1 \in Q
  <2>1. 1..(i - 1) \subseteq D /\ 1..(i - 1) # D
    <3>1. i \in 1..i /\ i \notin 1..(i - 1)
      BY <1>5, <1>6
    <3> QED BY <1>5, <1>6, <3>1
  <2>2. i - 1 \in 0..n
    BY <1>5, <1>6
  <2> QED BY <1>4, <2>1, <2>2
<1> QED BY <1>5, <1>7, <1>8
=============================================================================
