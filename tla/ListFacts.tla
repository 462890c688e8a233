----------------------------- MODULE ListFacts -----------------------------
(***************************************************************************)
(* Facts that the proofs of several components need: least elements,       *)
(* induction and the existence of recursive functions, and what is in a    *)
(* sequence after Append and Tail.                                         *)
(***************************************************************************)
EXTENDS Integers, Sequences, FiniteSetsExt, SequencesExt, SequenceTheorems,
        WellFoundedInduction, TLAPS

\* No element twice.
Distinct(s) == \A i, j \in 1..Len(s) : s[i] = s[j] => i = j

IsIn(x, s) == \E i \in 1..Len(s) : s[i] = x

\* A set of naturals that is not empty has a least element.
LEMMA LeastNatural ==
  ASSUME NEW I, I \subseteq Nat, I # {}
  PROVE  \E i \in I : \A j \in I : i <= j
<1> DEFINE R == {ss \in Nat \X Nat : ss[1] < ss[2]}
<1>1. IsWellFoundedOn(R, Nat)
  BY NatLessThanWellFounded DEF OpToRel
<1> HIDE DEF R
<1>2. \E i \in I : \A j \in I : ~(<<j, i>> \in R)
  BY <1>1, WFMin
<1>3. \A i, j \in Nat : j < i => <<j, i>> \in R
  BY DEF R
<1>4. \A i, j \in Nat : ~(j < i) => i <= j
  OBVIOUS
<1> QED BY <1>2, <1>3, <1>4

\* A set of natural numbers has a least element.
LEMMA MinIsLeast ==
  ASSUME NEW I, I \subseteq Nat, I # {}
  PROVE  Min(I) \in I /\ \A j \in I : Min(I) <= j
<1>1. \E i \in I : \A j \in I : i <= j
  BY LeastNatural
<1> QED BY <1>1 DEF Min

\* Min is in the set.
LEMMA MinIsMember == ASSUME NEW I, I \subseteq Nat, I # {} PROVE Min(I) \in I
BY MinIsLeast

\* Induction over an interval, the property given by the set of numbers that have it.
LEMMA IntervalInduction ==
  ASSUME NEW a \in Nat, NEW n \in Nat, NEW P,
         a \in P, \A k \in a..n : k \in P /\ k < n => k + 1 \in P
  PROVE  a..n \subseteq P
<1> DEFINE I == {k \in a..n : k \notin P}
<1> SUFFICES ASSUME I # {} PROVE FALSE
  OBVIOUS
<1>1. I \subseteq Nat
  OBVIOUS
<1>2. PICK k \in I : \A j \in I : k <= j
  BY <1>1, LeastNatural
<1>3. k # a /\ k \in a..n /\ k \notin P
  BY <1>2
<1>4. k - 1 \in a..n /\ k - 1 < n /\ (k - 1) + 1 = k
  BY <1>3
<1>5. k - 1 \in P
  <2>1. k - 1 \notin I
    BY <1>2, <1>4
  <2> QED BY <1>4, <2>1
<1>6. (k - 1) + 1 \in P
  BY <1>4, <1>5
<1> QED BY <1>3, <1>4, <1>6

\* Induction over the size of the members of S.
LEMMA SizeInduction ==
  ASSUME NEW S, NEW size \in [S -> Nat], NEW P,
         \A x \in S : (\A y \in S : size[y] < size[x] => y \in P) => x \in P
  PROVE  S \subseteq P
<1> DEFINE I == {size[x] : x \in {y \in S : y \notin P}}
<1> SUFFICES ASSUME I # {} PROVE FALSE
  OBVIOUS
<1>1. I \subseteq Nat
  OBVIOUS
<1>2. PICK k \in I : \A j \in I : k <= j
  BY <1>1, LeastNatural
<1>3. PICK x \in S : x \notin P /\ size[x] = k
  BY <1>2
<1>4. ASSUME NEW y \in S, size[y] < size[x] PROVE y \in P
  <2>1. SUFFICES ASSUME y \notin P PROVE FALSE
    OBVIOUS
  <2>2. size[y] \in I
    BY <2>1
  <2>3. size[x] <= size[y] /\ size[x] \in Nat /\ size[y] \in Nat
    BY <1>2, <1>3, <2>2
  <2> QED BY <1>4, <2>3
<1> QED BY <1>3, <1>4

\* A loop: from x it goes on to next[x], which is smaller, until it is done and the result
\* is res[x].  There is a function that says where it ends.
EndsSomewhere(S, R, res, Done, next) ==
  \E f \in [S -> R] : \A x \in S : f[x] = IF x \in Done THEN res[x] ELSE f[next[x]]

\* A loop that uses up a measure ends somewhere from every state.
LEMMA LoopFunction ==
  ASSUME NEW S, NEW size \in [S -> Nat], NEW bound \in Nat, \A x \in S : size[x] <= bound,
         NEW R, NEW res \in [S -> R], NEW Done, NEW next \in [S -> S],
         \A x \in S : x \notin Done => size[next[x]] < size[x]
  PROVE  EndsSomewhere(S, R, res, Done, next)
<1> DEFINE Good(f, k) ==
             \A x \in S : size[x] <= k => f[x] = IF x \in Done THEN res[x] ELSE f[next[x]]
           P == {k \in Nat : \E f \in [S -> R] : Good(f, k)}
<1>1. 0 \in P
  <2>1. Good(res, 0)
    <3>1. ASSUME NEW x \in S, size[x] <= 0 PROVE x \in Done
      BY <3>1
    <3> QED BY <3>1
  <2> QED BY <2>1
<1>2. ASSUME NEW k \in 0..bound, k \in P PROVE k + 1 \in P
  <2>1. PICK f \in [S -> R] : Good(f, k)
    BY <1>2
  <2> DEFINE g == [x \in S |-> IF size[x] <= k THEN f[x]
                              ELSE IF x \in Done THEN res[x] ELSE f[next[x]]]
  <2>2. g \in [S -> R]
    OBVIOUS
  <2>3. ASSUME NEW x \in S, size[x] <= k + 1
        PROVE  g[x] = IF x \in Done THEN res[x] ELSE g[next[x]]
    <3>1. x \notin Done => size[next[x]] <= k
      BY <2>3
    <3>2. x \notin Done => g[next[x]] = f[next[x]]
      BY <3>1
    <3>3. CASE size[x] <= k
      BY <2>1, <3>2, <3>3
    <3>4. CASE ~(size[x] <= k)
      BY <3>2, <3>4
    <3> QED BY <3>3, <3>4
  <2>4. Good(g, k + 1)
    BY <2>3
  <2> HIDE DEF g
  <2> QED BY <2>2, <2>4
<1>3. 0..bound \subseteq P
  <2> HIDE DEF P
  <2>1. \A k \in 0..bound : k \in P /\ k < bound => k + 1 \in P
    BY <1>2
  <2> QED BY <1>1, <2>1, IntervalInduction
<1>4. bound \in P
  BY <1>3
<1>5. PICK f \in [S -> R] : Good(f, bound)
  BY <1>4
<1> QED BY <1>5 DEF EndsSomewhere

\* Primitive recursion from a to n.
IsDefined(a, n, V, base, step) ==
  \E f \in [a..n -> V] :
    \A k \in a..n : f[k] = IF k = a THEN base ELSE step[<<k, f[k - 1]>>]

\* A recursion on a number defines a function.
LEMMA RecursiveFunction ==
  ASSUME NEW a \in Nat, NEW n \in Nat, a <= n, NEW V, NEW base \in V,
         NEW step \in [(a..n) \X V -> V]
  PROVE  IsDefined(a, n, V, base, step)
<1> DEFINE Good(f, m) ==
             \A k \in a..m : f[k] = IF k = a THEN base ELSE step[<<k, f[k - 1]>>]
           P == {m \in Nat : \E f \in [a..n -> V] : Good(f, m)}
<1>1. a \in P
  <2> DEFINE f == [k \in a..n |-> base]
  <2>1. f \in [a..n -> V] /\ Good(f, a)
    OBVIOUS
  <2> QED BY <2>1
<1>2. ASSUME NEW m \in a..n, m \in P, m < n PROVE m + 1 \in P
  <2>1. PICK f \in [a..n -> V] : Good(f, m)
    BY <1>2
  <2> DEFINE g == [k \in a..n |-> IF k <= m THEN f[k] ELSE step[<<k, f[m]>>]]
  <2>2. g \in [a..n -> V]
    OBVIOUS
  <2>3. ASSUME NEW k \in a..(m + 1)
        PROVE  g[k] = IF k = a THEN base ELSE step[<<k, g[k - 1]>>]
    <3>1. k \in a..n /\ (k # a => k - 1 \in a..n /\ k - 1 <= m)
      BY <1>2
    <3>2. k # a => g[k - 1] = f[k - 1]
      BY <3>1
    <3>3. CASE k <= m
      <4>1. g[k] = f[k] /\ k \in a..m
        BY <3>1, <3>3
      <4>2. f[k] = IF k = a THEN base ELSE step[<<k, f[k - 1]>>]
        BY <2>1, <4>1
      <4> HIDE DEF g
      <4> QED BY <3>2, <4>1, <4>2
    <3>4. CASE k = m + 1
      <4>1. k \in a..n /\ ~(k <= m) /\ k # a /\ k - 1 = m
        BY <3>1, <3>4
      <4>2. g[k] = step[<<k, f[m]>>]
        BY <4>1
      <4> QED BY <3>2, <4>1, <4>2
    <3> QED BY <3>3, <3>4
  <2>4. Good(g, m + 1)
    BY <2>3
  <2> HIDE DEF g
  <2> QED BY <2>2, <2>4
<1>3. a..n \subseteq P
  <2> HIDE DEF P
  <2>1. \A m \in a..n : m \in P /\ m < n => m + 1 \in P
    BY <1>2
  <2> QED BY <1>1, <2>1, IntervalInduction
<1>4. n \in P
  BY <1>3
<1>5. PICK f \in [a..n -> V] : Good(f, n)
  BY <1>4
<1> QED BY <1>5 DEF IsDefined

\* Positions of a list that are marked have a greatest one.
LEMMA MaxIsGreatest ==
  ASSUME NEW n \in Nat, NEW I, I \subseteq 1..n, I # {}
  PROVE  Max(I) \in I /\ \A j \in I : j <= Max(I)
<1> DEFINE J == {n - i : i \in I}
<1>1. J \subseteq Nat /\ J # {}
  <2>1. \A i \in I : n - i \in Nat
    OBVIOUS
  <2> QED BY <2>1
<1>2. PICK k \in J : \A j \in J : k <= j
  BY <1>1, LeastNatural
<1>3. PICK m \in I : k = n - m
  BY <1>2
<1>4. ASSUME NEW j \in I PROVE m >= j
  <2>1. n - j \in J
    OBVIOUS
  <2>2. k <= n - j
    BY <1>2, <2>1
  <2> QED BY <1>3, <2>2
<1>5. \E x \in I : \A y \in I : x >= y
  BY <1>3, <1>4
<1>6. Max(I) \in I /\ \A y \in I : Max(I) >= y
  BY <1>5 DEF Max
<1> QED BY <1>6

\* The empty sequence.
LEMMA EmptyFacts == Len(<<>>) = 0 /\ Distinct(<<>>) /\ \A x : ~IsIn(x, <<>>)
<1>1. Len(<<>>) = 0
  BY EmptySeq
<1> QED BY <1>1 DEF Distinct, IsIn

\* A sequence with one more element.
LEMMA AppendFacts ==
  ASSUME NEW S, NEW s \in Seq(S), NEW e \in S
  PROVE  /\ Append(s, e) \in Seq(S)
         /\ \A x : IsIn(x, Append(s, e)) <=> IsIn(x, s) \/ x = e
         /\ Distinct(s) /\ ~IsIn(e, s) => Distinct(Append(s, e))
<1> DEFINE t == Append(s, e)
<1>1. /\ t \in Seq(S) /\ Len(t) = Len(s) + 1 /\ Len(s) \in Nat
      /\ \A i \in 1..Len(s) : t[i] = s[i]
      /\ t[Len(s) + 1] = e
  BY AppendProperties
<1> HIDE DEF t
<1>2. \A i : i \in 1..Len(t) <=> i \in 1..Len(s) \/ i = Len(s) + 1
  BY <1>1
<1>3. \A i \in 1..Len(s) : i # Len(s) + 1
  BY <1>1
<1>4. \A x : IsIn(x, t) <=> IsIn(x, s) \/ x = e
  BY <1>1, <1>2 DEF IsIn
<1>5. Distinct(s) /\ ~IsIn(e, s) => Distinct(t)
  BY <1>1, <1>2, <1>3 DEF Distinct, IsIn
<1> QED BY <1>1, <1>4, <1>5 DEF t

\* What is left of any queue when its head has gone.
LEMMA PopFacts ==
  ASSUME NEW S, NEW s \in Seq(S), s # <<>>
  PROVE  /\ Head(s) = s[1] /\ Head(s) \in S /\ IsIn(Head(s), s)
         /\ Tail(s) \in Seq(S) /\ Len(s) \in Nat \ {0} /\ Len(Tail(s)) = Len(s) - 1
         /\ \A i \in 1..Len(Tail(s)) : Tail(s)[i] = s[i + 1]
         /\ \A x : IsIn(x, Tail(s)) => IsIn(x, s)
         /\ \A x : IsIn(x, s) => x = Head(s) \/ IsIn(x, Tail(s))
<1> DEFINE t == Tail(s)
<1>1. Len(s) \in Nat \ {0} /\ Head(s) = s[1]
  BY EmptySeq
<1>2. /\ Head(s) \in S /\ t \in Seq(S) /\ Len(t) = Len(s) - 1
      /\ \A i \in 1..Len(t) : t[i] = s[i + 1]
  BY HeadTailProperties
<1> HIDE DEF t
<1>3. \A i \in 1..Len(t) : i + 1 \in 1..Len(s)
  BY <1>1, <1>2
<1>4. \A j \in 1..Len(s) : j = 1 \/ (j - 1 \in 1..Len(t) /\ (j - 1) + 1 = j)
  BY <1>1, <1>2
<1>5. 1 \in 1..Len(s)
  BY <1>1
<1>6. IsIn(Head(s), s)
  BY <1>1, <1>5 DEF IsIn
<1>7. \A x : IsIn(x, t) => IsIn(x, s)
  BY <1>2, <1>3 DEF IsIn
<1>8. ASSUME NEW j \in 1..Len(s), j # 1 PROVE IsIn(s[j], t)
  <2>1. j - 1 \in 1..Len(t) /\ (j - 1) + 1 = j
    BY <1>4, <1>8
  <2>2. t[j - 1] = s[(j - 1) + 1]
    BY <1>2, <2>1
  <2> QED BY <2>1, <2>2 DEF IsIn
<1>9. \A x : IsIn(x, s) => x = Head(s) \/ IsIn(x, t)
  BY <1>1, <1>8 DEF IsIn
<1> QED BY <1>1, <1>2, <1>6, <1>7, <1>9 DEF t

\* What is left of a queue without repetitions when its head has gone.
LEMMA TailFacts ==
  ASSUME NEW S, NEW s \in Seq(S), s # <<>>, Distinct(s)
  PROVE  /\ Head(s) \in S /\ IsIn(Head(s), s)
         /\ Tail(s) \in Seq(S) /\ Distinct(Tail(s))
         /\ \A x : IsIn(x, Tail(s)) <=> IsIn(x, s) /\ x # Head(s)
<1> DEFINE t == Tail(s)
<1>1. Len(s) \in Nat \ {0} /\ Head(s) = s[1]
  BY EmptySeq
<1>2. /\ Head(s) \in S /\ t \in Seq(S) /\ Len(t) = Len(s) - 1
      /\ \A i \in 1..Len(t) : t[i] = s[i + 1]
  BY HeadTailProperties
<1> HIDE DEF t
<1>3. \A i \in 1..Len(t) : i + 1 \in 1..Len(s) /\ i + 1 # 1
  BY <1>1, <1>2
<1>4. \A j \in 1..Len(s) : j = 1 \/ (j - 1 \in 1..Len(t) /\ (j - 1) + 1 = j)
  BY <1>1, <1>2
<1>5. 1 \in 1..Len(s) /\ IsIn(Head(s), s)
  BY <1>1 DEF IsIn
<1>6. Distinct(t)
  <2> SUFFICES ASSUME NEW i \in 1..Len(t), NEW j \in 1..Len(t), t[i] = t[j] PROVE i = j
    BY DEF Distinct
  <2>1. s[i + 1] = s[j + 1] /\ i + 1 \in 1..Len(s) /\ j + 1 \in 1..Len(s)
    BY <1>2, <1>3
  <2>2. i + 1 = j + 1
    BY <2>1 DEF Distinct
  <2> QED BY <2>2
<1>7. ASSUME NEW x PROVE IsIn(x, t) <=> IsIn(x, s) /\ x # Head(s)
  <2>1. ASSUME IsIn(x, t) PROVE IsIn(x, s) /\ x # Head(s)
    <3>1. PICK i \in 1..Len(t) : t[i] = x
      BY <2>1 DEF IsIn
    <3>2. i + 1 \in 1..Len(s) /\ i + 1 # 1 /\ s[i + 1] = x
      BY <1>2, <1>3, <3>1
    <3> QED BY <1>1, <1>5, <3>2 DEF IsIn, Distinct
  <2>2. ASSUME IsIn(x, s), x # Head(s) PROVE IsIn(x, t)
    <3>1. PICK j \in 1..Len(s) : s[j] = x
      BY <2>2 DEF IsIn
    <3>2. j - 1 \in 1..Len(t) /\ (j - 1) + 1 = j
      BY <1>1, <1>4, <2>2, <3>1
    <3>3. t[j - 1] = s[(j - 1) + 1]
      BY <1>2, <3>2
    <3> QED BY <3>1, <3>2, <3>3 DEF IsIn
  <2> QED BY <2>1, <2>2
<1> QED BY <1>2, <1>5, <1>6, <1>7 DEF t

-----------------------------------------------------------------------------
(* FlattenSeq *)

\* A function on 1..n is a sequence of length n.
LEMMA FunctionIsSeq ==
  ASSUME NEW n \in Nat, NEW V, NEW g \in [1..n -> V]
  PROVE  g \in Seq(V) /\ Len(g) = n
<1>1. g \in Seq(V)
  BY SeqDef
<1>2. Len(g) \in Nat /\ 1..Len(g) = 1..n
  BY <1>1, LenProperties
<1>3. PICK m \in Nat : m = Len(g)
  BY <1>2
<1>4. \A i \in Int : i \in 1..m <=> i \in 1..n
  BY <1>2, <1>3
<1>5. m = n
  <2>1. m > n => m \in 1..m /\ m \notin 1..n
    OBVIOUS
  <2>2. n > m => n \in 1..n /\ n \notin 1..m
    OBVIOUS
  <2> QED BY <1>4, <2>1, <2>2
<1> QED BY <1>1, <1>3, <1>5

IsFlattening(f, g, n) == \A i \in 1..n : f[i] = IF i = 1 THEN g[i] ELSE f[i - 1] \o g[i]

\* The concatenations of the first 1, 2, ... of several sequences exist.
LEMMA FlattenExists ==
  ASSUME NEW n \in Nat \ {0}, NEW C, NEW g \in [1..n -> Seq(C)]
  PROVE  \E f \in [1..n -> Seq(C)] : IsFlattening(f, g, n)
<1> DEFINE step == [p \in (1..n) \X Seq(C) |-> p[2] \o g[p[1]]]
<1>1. PICK one \in Nat : one = 1 /\ one <= n
  OBVIOUS
<1>2. PICK base \in Seq(C) : base = g[1]
  OBVIOUS
<1>3. step \in [(one..n) \X Seq(C) -> Seq(C)]
  <2>1. ASSUME NEW p \in (1..n) \X Seq(C) PROVE p[2] \o g[p[1]] \in Seq(C)
    <3>1. p[2] \in Seq(C) /\ g[p[1]] \in Seq(C)
      OBVIOUS
    <3> QED BY <3>1, ConcatProperties
  <2> QED BY <1>1, <2>1
<1>4. IsDefined(one, n, Seq(C), base, step)
  <2> HIDE DEF step
  <2> QED BY <1>1, <1>3, RecursiveFunction
<1>5. PICK f \in [1..n -> Seq(C)] :
        \A k \in 1..n : f[k] = IF k = 1 THEN base ELSE step[<<k, f[k - 1]>>]
  <2> HIDE DEF step
  <2> QED BY <1>1, <1>4 DEF IsDefined
<1>6. ASSUME NEW k \in 1..n PROVE f[k] = IF k = 1 THEN g[k] ELSE f[k - 1] \o g[k]
  <2>1. CASE k = 1
    <3> HIDE DEF step
    <3> QED BY <1>2, <1>5, <2>1
  <2>2. CASE k # 1
    <3>1. k - 1 \in 1..n
      BY <2>2
    <3>2. PICK q \in (1..n) \X Seq(C) : q = <<k, f[k - 1]>>
      BY <3>1
    <3>3. f[k] = step[q]
      <4> HIDE DEF step
      <4> QED BY <1>5, <2>2, <3>2
    <3>4. step[q] = q[2] \o g[q[1]] /\ q[1] = k /\ q[2] = f[k - 1]
      BY <3>2
    <3> QED BY <2>2, <3>3, <3>4
  <2> QED BY <2>1, <2>2
<1> QED BY <1>6 DEF IsFlattening

\* FlattenSeq is the last of them.
LEMMA FlattenIs ==
  ASSUME NEW n \in Nat \ {0}, NEW C, NEW g \in [1..n -> Seq(C)],
         NEW f \in [1..n -> Seq(C)], IsFlattening(f, g, n)
  PROVE  FlattenSeq(g) = f[n]
<1> DEFINE Eq(h) == h = [i \in 1..Len(g) |-> IF i = 1 THEN g[i] ELSE h[i - 1] \o g[i]]
           v == CHOOSE h : Eq(h)
<1>1. Len(g) = n
  BY FunctionIsSeq
<1>2. Eq(f)
  BY <1>1 DEF IsFlattening
<1>3. Eq(v)
  <2> HIDE DEF Eq
  <2> QED BY <1>2
<1>4. FlattenSeq(g) = v[n]
  BY <1>1 DEF FlattenSeq
<1> HIDE DEF v
<1>5. \A i \in 1..n : v[i] = IF i = 1 THEN g[i] ELSE v[i - 1] \o g[i]
  BY <1>1, <1>3
<1> DEFINE P == {k \in Nat : v[k] = f[k]}
<1>6. PICK one \in Nat : one = 1
  OBVIOUS
<1>7. one \in P
  BY <1>5, <1>6 DEF IsFlattening
<1>8. ASSUME NEW k \in one..n, k \in P, k < n PROVE k + 1 \in P
  <2>1. k + 1 \in 1..n /\ k + 1 # 1 /\ (k + 1) - 1 = k
    BY <1>6, <1>8
  <2>2. v[k + 1] = v[(k + 1) - 1] \o g[k + 1] /\ f[k + 1] = f[(k + 1) - 1] \o g[k + 1]
    BY <1>5, <2>1 DEF IsFlattening
  <2>3. v[k] = f[k] /\ k + 1 \in Nat
    BY <1>8, <2>1
  <2>4. v[k + 1] = f[k + 1]
    BY <2>1, <2>2, <2>3
  <2> QED BY <2>3, <2>4
<1>9. one..n \subseteq P
  <2>1. \A k \in one..n : k \in P /\ k < n => k + 1 \in P
    BY <1>8
  <2> HIDE DEF P
  <2> QED BY <1>7, <2>1, IntervalInduction
<1>10. n \in P
  BY <1>6, <1>9
<1> QED BY <1>4, <1>10

\* The first i of some sequences, one behind the other.
Flat(g, i) == FlattenSeq([k \in 1..i |-> g[k]])

\* Putting no sequences together gives the empty one.
LEMMA FlatEmpty ==
  ASSUME NEW C, NEW g PROVE Flat(g, 0) \in Seq(C) /\ Len(Flat(g, 0)) = 0
<1>1. PICK z \in Nat : z = 0
  OBVIOUS
<1>2. PICK h : h = [k \in 1..z |-> g[k]]
  OBVIOUS
<1>3. h \in [1..z -> C]
  BY <1>1, <1>2
<1>4. h \in Seq(C) /\ Len(h) = z
  BY <1>3, FunctionIsSeq
<1> QED BY <1>1, <1>2, <1>4 DEF Flat, FlattenSeq

\* Flat(g, i) is the i-th of them.
LEMMA FlatIs ==
  ASSUME NEW n \in Nat \ {0}, NEW C, NEW g \in [1..n -> Seq(C)],
         NEW f \in [1..n -> Seq(C)], IsFlattening(f, g, n), NEW i \in 1..n
  PROVE  Flat(g, i) = f[i]
<1>1. i \in Nat \ {0} /\ \A k \in 1..i : k \in 1..n
  OBVIOUS
<1>2. PICK h : h = [k \in 1..i |-> g[k]]
  OBVIOUS
<1>3. h \in [1..i -> Seq(C)]
  BY <1>1, <1>2
<1>4. PICK e : e = [k \in 1..i |-> f[k]]
  OBVIOUS
<1>5. e \in [1..i -> Seq(C)]
  BY <1>1, <1>4
<1>6. ASSUME NEW k \in 1..i PROVE e[k] = IF k = 1 THEN h[k] ELSE e[k - 1] \o h[k]
  <2>1. k \in 1..n /\ e[k] = f[k] /\ h[k] = g[k] /\ (k # 1 => k - 1 \in 1..i)
    BY <1>1, <1>2, <1>4
  <2>2. k # 1 => e[k - 1] = f[k - 1]
    BY <1>4, <2>1
  <2> QED BY <2>1, <2>2 DEF IsFlattening
<1>7. FlattenSeq(h) = e[i]
  <2>1. IsFlattening(e, h, i)
    BY <1>6 DEF IsFlattening
  <2> QED BY <1>1, <1>3, <1>5, <2>1, FlattenIs
<1>8. e[i] = f[i]
  BY <1>1, <1>4
<1> QED BY <1>2, <1>7, <1>8 DEF Flat

\* t is s with e behind it.
IsJoined(t, s, e) ==
  /\ Len(t) = Len(s) + Len(e)
  /\ \A j \in 1..Len(s) : t[j] = s[j]
  /\ \A j \in 1..Len(e) : t[Len(s) + j] = e[j]

\* The next one goes behind what is there.
LEMMA FlatFacts ==
  ASSUME NEW n \in Nat \ {0}, NEW C, NEW g \in [1..n -> Seq(C)], NEW i \in 0..n
  PROVE  /\ Flat(g, i) \in Seq(C)
         /\ i < n => g[i + 1] \in Seq(C) /\ IsJoined(Flat(g, i + 1), Flat(g, i), g[i + 1])
<1>1. PICK f \in [1..n -> Seq(C)] : IsFlattening(f, g, n)
  BY FlattenExists
<1>2. \A k \in 1..n : Flat(g, k) = f[k]
  BY <1>1, FlatIs
<1>3. Flat(g, i) \in Seq(C)
  <2>1. i = 0 \/ i \in 1..n
    OBVIOUS
  <2> QED BY <1>2, <2>1, FlatEmpty
<1>4. ASSUME i < n
      PROVE  g[i + 1] \in Seq(C) /\ IsJoined(Flat(g, i + 1), Flat(g, i), g[i + 1])
  <2>1. i + 1 \in 1..n /\ (i + 1) - 1 = i /\ (i # 0 => i + 1 # 1 /\ i \in 1..n)
    BY <1>4
  <2>2. PICK s \in Seq(C) : s = Flat(g, i)
    BY <1>3
  <2>3. PICK e \in Seq(C) : e = g[i + 1]
    BY <2>1
  <2>4. PICK t : t = Flat(g, i + 1) /\ t = f[i + 1]
    BY <1>2, <2>1
  <2>5. CASE i = 0
    <3>1. Len(s) = 0 /\ t = e /\ Len(e) \in Nat
      BY <1>1, <2>1, <2>2, <2>3, <2>4, <2>5, FlatEmpty DEF IsFlattening
    <3>2. Len(t) = Len(s) + Len(e) /\ \A j \in 1..Len(e) : t[Len(s) + j] = e[j]
      BY <3>1
    <3>3. \A j \in 1..Len(s) : t[j] = s[j]
      BY <3>1
    <3> QED BY <2>2, <2>3, <2>4, <3>2, <3>3 DEF IsJoined
  <2>6. CASE i # 0
    <3>1. t = s \o e
      <4>1. f[i + 1] = f[(i + 1) - 1] \o g[i + 1]
        BY <1>1, <2>1, <2>6 DEF IsFlattening
      <4>2. f[i] = s
        BY <1>2, <2>1, <2>2, <2>6
      <4> QED BY <2>1, <2>3, <2>4, <4>1, <4>2
    <3>2. /\ Len(t) = Len(s) + Len(e) /\ Len(s) \in Nat /\ Len(e) \in Nat
          /\ \A j \in 1..(Len(s) + Len(e)) :
               t[j] = IF j <= Len(s) THEN s[j] ELSE e[j - Len(s)]
      BY <3>1, ConcatProperties
    <3>3. \A j \in 1..Len(s) : t[j] = s[j]
      BY <3>2
    <3>4. ASSUME NEW j \in 1..Len(e) PROVE t[Len(s) + j] = e[j]
      <4>1. /\ Len(s) + j \in 1..(Len(s) + Len(e)) /\ ~(Len(s) + j <= Len(s))
            /\ Len(s) + j - Len(s) = j
        BY <3>2
      <4> QED BY <3>2, <4>1
    <3> QED BY <2>2, <2>3, <2>4, <3>2, <3>3, <3>4 DEF IsJoined
  <2> QED BY <2>5, <2>6
<1> QED BY <1>3, <1>4

\* All of them start with the first i.
LEMMA FlatStarts ==
  ASSUME NEW n \in Nat \ {0}, NEW C, NEW g \in [1..n -> Seq(C)], NEW i \in 0..n
  PROVE  /\ Len(Flat(g, i)) <= Len(Flat(g, n))
         /\ \A j \in 1..Len(Flat(g, i)) : Flat(g, n)[j] = Flat(g, i)[j]
<1>1. PICK s \in Seq(C) : s = Flat(g, i)
  BY FlatFacts
<1> DEFINE P == {k \in Nat : /\ Len(s) <= Len(Flat(g, k))
                             /\ \A j \in 1..Len(s) : Flat(g, k)[j] = s[j]}
<1>2. i \in Nat /\ Len(s) \in Nat
  OBVIOUS
<1>3. i \in P
  BY <1>1, <1>2
<1>4. ASSUME NEW k \in i..n, k \in P, k < n PROVE k + 1 \in P
  <2>1. k \in 0..n /\ k + 1 \in Nat
    OBVIOUS
  <2>2. PICK t \in Seq(C) : t = Flat(g, k)
    BY <2>1, FlatFacts
  <2>3. PICK e \in Seq(C) :
          /\ Len(Flat(g, k + 1)) = Len(t) + Len(e)
          /\ \A j \in 1..Len(t) : Flat(g, k + 1)[j] = t[j]
    <3>1. g[k + 1] \in Seq(C) /\ IsJoined(Flat(g, k + 1), Flat(g, k), g[k + 1])
      BY <1>4, <2>1, FlatFacts
    <3> QED BY <2>2, <3>1 DEF IsJoined
  <2>4. Len(s) <= Len(t) /\ (\A j \in 1..Len(s) : t[j] = s[j])
        /\ Len(t) \in Nat /\ Len(e) \in Nat
    <3>1. Len(s) <= Len(Flat(g, k)) /\ \A j \in 1..Len(s) : Flat(g, k)[j] = s[j]
      BY <1>4, Zenon
    <3>2. Len(t) \in Nat /\ Len(e) \in Nat
      BY LenProperties
    <3> QED BY <2>2, <3>1, <3>2, Zenon
  <2>5. Len(s) <= Len(Flat(g, k + 1))
    BY <1>2, <2>3, <2>4
  <2>6. \A j \in 1..Len(s) : Flat(g, k + 1)[j] = s[j]
    <3>1. \A j \in 1..Len(s) : j \in 1..Len(t)
      BY <1>2, <2>4
    <3> QED BY <2>3, <2>4, <3>1
  <2> QED BY <2>1, <2>5, <2>6
<1>5. i..n \subseteq P
  <2>1. \A k \in i..n : k \in P /\ k < n => k + 1 \in P
    BY <1>4
  <2> HIDE DEF P
  <2> QED BY <1>2, <1>3, <2>1, IntervalInduction
<1>6. n \in P
  BY <1>5
<1> QED BY <1>1, <1>6

\* Putting all sequences together is what FlattenSeq does.
LEMMA FlatAll ==
  ASSUME NEW n \in Nat, NEW C, NEW g \in [1..n -> Seq(C)]
  PROVE  FlattenSeq(g) = Flat(g, n) /\ Flat(g, n) \in Seq(C)
<1>1. g = [k \in 1..n |-> g[k]]
  OBVIOUS
<1>2. FlattenSeq(g) = Flat(g, n)
  BY <1>1 DEF Flat
<1>3. CASE n = 0
  BY <1>2, <1>3, FlatEmpty
<1>4. CASE n # 0
  <2>1. n \in Nat \ {0} /\ n \in 0..n
    BY <1>4
  <2> QED BY <1>2, <2>1, FlatFacts
<1> QED BY <1>3, <1>4
=============================================================================
