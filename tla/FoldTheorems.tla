---------------------------- MODULE FoldTheorems ----------------------------
(***************************************************************************)
(* Facts about the folds the guest program is modelled with: FoldLeft of   *)
(* the community modules applies Step to the elements of a sequence from   *)
(* the first to the last.  A module that uses them instantiates Step.      *)
(***************************************************************************)
EXTENDS Sequences, SequencesExt, SequenceTheorems, SumTheorems

CONSTANT Step(_, _)     \* Step(state, element): the loop body

\* What the loop has made of base after the whole of seq.
Fold(base, seq) == FoldLeft(Step, base, seq)

\* What the loop has made after the positions D, when g says what it makes of
\* the smaller sets of positions.
Turn(g, base, seq, D) == IF D = {} THEN base ELSE Step(g[D \ {Max(D)}], seq[Max(D)])

\* g says it of every set of positions.
IsFold(g, base, seq, S) == g = [D \in SUBSET S |-> Turn(g, base, seq, D)]

\* Finitely many positions.
Positions(S) == S \in SUBSET Int /\ IsFiniteSet(S)

\* A finite set of positions has a last one: the element the loop is at.
LEMMA LastPosition ==
    ASSUME NEW S, Positions(S), S # {}
    PROVE  Max(S) \in S /\ \A i \in S : i =< Max(S)
<1>0. S \in SUBSET Int /\ IsFiniteSet(S)
  BY DEF Positions
<1> DEFINE HasMax(D) == \E m \in D : \A y \in D : m >= y
           P == {D \in SUBSET S : D = {} \/ HasMax(D)}
<1>1. {} \in P
  OBVIOUS
<1>2. ASSUME NEW D \in P, NEW x \in S, x \notin D PROVE D \cup {x} \in P
  <2>1. x \in Int /\ D \in SUBSET Int
    BY <1>0
  <2>2. CASE D = {}
    <3>1. HasMax(D \cup {x})
      BY <2>1, <2>2
    <3> QED BY <3>1
  <2>3. CASE HasMax(D)
    <3>1. PICK m \in D : \A y \in D : m >= y
      BY <2>3
    <3>2. CASE m >= x
      <4>1. HasMax(D \cup {x})
        BY <3>1, <3>2
      <4> QED BY <4>1
    <3>3. CASE x > m
      <4>1. \A y \in D \cup {x} : x >= y
        BY <2>1, <3>1, <3>3
      <4>2. HasMax(D \cup {x})
        BY <4>1
      <4> QED BY <4>2
    <3> QED BY <2>1, <3>1, <3>2, <3>3
  <2> QED BY <2>2, <2>3
<1>3. S \in P
  <2> HIDE DEF P
  <2>1. P \in SUBSET SUBSET S
    BY DEF P
  <2> QED BY <1>0, <1>1, <1>2, <2>1, SubsetInduction
<1>4. \E m \in S : \A y \in S : m >= y
  BY <1>3
<1> QED BY <1>0, <1>4 DEF Max

\* Two sequences with the same elements at the positions T.
SameAt(s, t, T) == \A i \in T : s[i] = t[i]

\* The positions of two sequences that agree there lead the loop to the same.
LEMMA FoldAgrees ==
    ASSUME NEW base, NEW s, NEW t, NEW S, Positions(S), NEW T \in SUBSET S,
           SameAt(s, t, T),
           NEW g, NEW h, IsFold(g, base, s, S), IsFold(h, base, t, T)
    PROVE  \A D \in SUBSET T : g[D] = h[D]
<1> DEFINE X == {D \in SUBSET T : g[D] # h[D]}
<1>1. SUFFICES ASSUME X # {} PROVE FALSE
  OBVIOUS
<1>2. IsFiniteSet(T)
  BY FS_Subset DEF Positions
<1>3. PICK D \in X : \A E \in X : E \subseteq D => E = D
  <2> HIDE DEF X
  <2>1. X \in SUBSET SUBSET T
    BY DEF X
  <2> QED BY <1>1, <1>2, <2>1, SmallestSubset
<1>4. D \in SUBSET T /\ D \in SUBSET S /\ g[D] # h[D]
  OBVIOUS
<1>5. g[D] = Turn(g, base, s, D) /\ h[D] = Turn(h, base, t, D)
  BY <1>4 DEF IsFold
<1>6. CASE D = {}
  BY <1>4, <1>5, <1>6 DEF Turn
<1>7. CASE D # {}
  <2> DEFINE E == D \ {Max(D)}
  <2>1. Max(D) \in D
    <3>1. Positions(D)
      BY <1>4, FS_Subset DEF Positions
    <3> QED BY <1>7, <3>1, LastPosition
  <2>2. E \in SUBSET T /\ E \subseteq D /\ E # D
    BY <1>4, <2>1
  <2>3. g[E] = h[E]
    BY <2>2, <1>3
  <2>4. s[Max(D)] = t[Max(D)]
    BY <1>4, <2>1 DEF SameAt
  <2> QED BY <2>3, <2>4, <1>4, <1>5, <1>7 DEF Turn
<1> QED BY <1>6, <1>7

\* The recursion that defines the loop over finitely many positions has a solution.
LEMMA FoldExists ==
    ASSUME NEW base, NEW seq, NEW S, Positions(S)
    PROVE  \E g : IsFold(g, base, seq, S)
<1> DEFINE X == {D \in SUBSET S : ~ \E g : IsFold(g, base, seq, D)}
<1>1. SUFFICES ASSUME X # {} PROVE FALSE
  OBVIOUS
<1>2. PICK D \in X : \A E \in X : E \subseteq D => E = D
  <2> HIDE DEF X
  <2>1. X \in SUBSET SUBSET S
    BY DEF X
  <2>2. IsFiniteSet(S)
    BY DEF Positions
  <2> QED BY <1>1, <2>1, <2>2, SmallestSubset
<1> DEFINE part(E) == CHOOSE g : IsFold(g, base, seq, E)
           value(E) == IF E = {} THEN base
                       ELSE Step(part(E \ {Max(E)})[E \ {Max(E)}], seq[Max(E)])
           whole == [E \in SUBSET D |-> value(E)]
<1>3. D \in SUBSET S
  BY <1>2
<1>4. ASSUME NEW E \in SUBSET D, E # D PROVE IsFold(part(E), base, seq, E)
  <2>1. E \notin X /\ E \in SUBSET S
    BY <1>4, <1>2, <1>3
  <2>2. \E g : IsFold(g, base, seq, E)
    BY <2>1
  <2> QED BY <2>2
<1>8. ASSUME NEW E \in SUBSET D, E # {} PROVE Max(E) \in E
  <2>1. Positions(E)
    <3>1. E \in SUBSET S
      BY <1>3
    <3> QED BY <3>1, FS_Subset DEF Positions
  <2> QED BY <1>8, <2>1, LastPosition
<1>5. ASSUME NEW E \in SUBSET D, E # D PROVE part(E)[E] = value(E)
  <2> HIDE DEF X, part
  <2>1. IsFold(part(E), base, seq, E)
    BY <1>4, <1>5
  <2>2. part(E)[E] = Turn(part(E), base, seq, E)
    BY <2>1 DEF IsFold
  <2>3. CASE E = {}
    BY <2>2, <2>3 DEF Turn
  <2>4. CASE E # {}
    <3> DEFINE F == E \ {Max(E)}
    <3>1. Max(E) \in E
      BY <2>4, <1>8
    <3>2. F \in SUBSET D /\ F # D /\ F \in SUBSET E
      BY <3>1
    <3>3. IsFold(part(F), base, seq, F)
      BY <3>2, <1>4
    <3>4. Positions(E)
      <4>1. E \in SUBSET S
        BY <1>3
      <4> QED BY <4>1, FS_Subset DEF Positions
    <3>5. part(E)[F] = part(F)[F]
      <4> HIDE DEF F
      <4>1. \A G \in SUBSET F : part(E)[G] = part(F)[G]
        <5>1. SameAt(seq, seq, F)
          BY DEF SameAt
        <5> QED BY <3>2, <3>3, <3>4, <2>1, <5>1, FoldAgrees
      <4> QED BY <4>1
    <3> QED BY <2>2, <2>4, <3>5 DEF Turn
  <2> QED BY <2>3, <2>4
<1>6. ASSUME NEW E \in SUBSET D PROVE value(E) = Turn(whole, base, seq, E)
  <2> HIDE DEF part, X
  <2>1. CASE E = {}
    BY <2>1 DEF Turn
  <2>2. CASE E # {}
    <3> DEFINE F == E \ {Max(E)}
    <3>1. Max(E) \in E
      BY <2>2, <1>8
    <3>2. F \in SUBSET D /\ F # D
      BY <3>1
    <3> HIDE DEF F
    <3>3. part(F)[F] = value(F)
      BY <3>2, <1>5
    <3>4. whole[F] = value(F)
      BY <3>2
    <3>5. whole[F] = part(F)[F]
      BY <3>3, <3>4
    <3> HIDE DEF whole
    <3>6. value(E) = Step(part(F)[F], seq[Max(E)])
      BY <2>2 DEF F
    <3> QED BY <2>2, <3>5, <3>6 DEF Turn, F
  <2> QED BY <2>1, <2>2
<1>7. IsFold(whole, base, seq, D)
  <2> HIDE DEF value
  <2> QED BY <1>6 DEF IsFold
<1> QED BY <1>2, <1>7

\* The community operator computes that solution.
LEMMA FoldDefined ==
    ASSUME NEW base, NEW T, NEW seq \in Seq(T)
    PROVE  \E g : IsFold(g, base, seq, 1..Len(seq)) /\ Fold(base, seq) = g[1..Len(seq)]
<1> DEFINE S == DOMAIN seq
           g == CHOOSE h : IsFold(h, base, seq, S)
<1>1. Fold(base, seq) = g[S]
  BY DEF Fold, FoldLeft, MapThenFoldSet, IsFold, Turn
<1>2. S = 1..Len(seq) /\ Len(seq) \in Nat
  OBVIOUS
<1>3. IsFold(g, base, seq, S)
  <2>1. Positions(S)
    BY <1>2, FS_Interval DEF Positions
  <2> HIDE DEF S
  <2> QED BY <2>1, FoldExists
<1> HIDE DEF g
<1> QED BY <1>1, <1>2, <1>3

\* A loop over nothing leaves what it started with.
LEMMA FoldEmpty ==
    ASSUME NEW base
    PROVE  Fold(base, <<>>) = base
<1>1. <<>> \in Seq({}) /\ 1..Len(<<>>) = {}
  OBVIOUS
<1>2. PICK g : IsFold(g, base, <<>>, {}) /\ Fold(base, <<>>) = g[{}]
  BY <1>1, FoldDefined
<1> QED BY <1>2 DEF IsFold, Turn

\* The last element is the last turn of the loop.
LEMMA FoldAppend ==
    ASSUME NEW base, NEW T, NEW seq \in Seq(T), NEW e \in T
    PROVE  Fold(base, Append(seq, e)) = Step(Fold(base, seq), e)
<1> DEFINE longer == Append(seq, e)
           n == Len(seq)
<1>1. /\ longer \in Seq(T) /\ Len(longer) = n + 1 /\ longer[n + 1] = e
      /\ \A i \in 1..n : longer[i] = seq[i]
  BY AppendProperties
<1>2. n \in Nat
  OBVIOUS
<1> HIDE DEF longer
<1>3. PICK g : IsFold(g, base, seq, 1..n) /\ Fold(base, seq) = g[1..n]
  BY FoldDefined
<1>4. PICK h : IsFold(h, base, longer, 1..(n + 1)) /\ Fold(base, longer) = h[1..(n + 1)]
  BY <1>1, FoldDefined
<1> HIDE DEF n
<1>5. Max(1..(n + 1)) = n + 1 /\ (1..(n + 1)) \ {n + 1} = 1..n /\ 1..(n + 1) # {}
  <2>1. Positions(1..(n + 1)) /\ n + 1 \in 1..(n + 1)
    BY <1>2, FS_Interval DEF Positions
  <2>2. Max(1..(n + 1)) \in 1..(n + 1) /\ n + 1 =< Max(1..(n + 1))
    BY <2>1, LastPosition
  <2>3. Max(1..(n + 1)) = n + 1
    BY <1>2, <2>2
  <2> QED BY <1>2, <2>1, <2>3
<1>6. h[1..(n + 1)] = Step(h[1..n], e)
  BY <1>1, <1>4, <1>5 DEF IsFold, Turn
<1>7. h[1..n] = g[1..n]
  <2> DEFINE I == 1..n
             J == 1..(n + 1)
  <2>1. Positions(J) /\ I \in SUBSET J /\ SameAt(longer, seq, I)
    BY <1>1, <1>2, FS_Interval DEF Positions, SameAt
  <2>2. IsFold(g, base, seq, I) /\ IsFold(h, base, longer, J)
    BY <1>3, <1>4
  <2> HIDE DEF I, J
  <2>3. \A D \in SUBSET I : h[D] = g[D]
    BY <2>1, <2>2, FoldAgrees
  <2>4. h[I] = g[I]
    BY <2>3
  <2> QED BY <2>4 DEF I
<1> QED BY <1>3, <1>4, <1>6, <1>7 DEF longer, n

\* The loop over the first no elements, and over all of them.
LEMMA FoldEnds ==
    ASSUME NEW base, NEW T, NEW seq \in Seq(T)
    PROVE  Fold(base, SubSeq(seq, 1, 0)) = base /\ SubSeq(seq, 1, Len(seq)) = seq
<1>1. SubSeq(seq, 1, 0) = <<>>
  OBVIOUS
<1>2. SubSeq(seq, 1, Len(seq)) = seq
  OBVIOUS
<1> QED BY <1>1, <1>2, FoldEmpty

\* One turn of the loop after a prefix of the sequence.
LEMMA FoldPrefix ==
    ASSUME NEW base, NEW T, NEW seq \in Seq(T), NEW p \in 0..(Len(seq) - 1)
    PROVE  Fold(base, SubSeq(seq, 1, p + 1)) = Step(Fold(base, SubSeq(seq, 1, p)), seq[p + 1])
<1> DEFINE front == SubSeq(seq, 1, p)
           e == seq[p + 1]
<1>1. front \in Seq(T) /\ e \in T
  OBVIOUS
<1>2. SubSeq(seq, 1, p + 1) = Append(front, e)
  OBVIOUS
<1> HIDE DEF front, e
<1>3. Fold(base, Append(front, e)) = Step(Fold(base, front), e)
  BY <1>1, FoldAppend
<1> QED BY <1>2, <1>3 DEF front, e
=============================================================================
