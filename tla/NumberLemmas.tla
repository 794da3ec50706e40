---------------------------- MODULE NumberLemmas ----------------------------
(***************************************************************************)
(* Facts about numbers that the proofs of several components need: the     *)
(* powers of two of a delay that doubles, and the sums over the entries of *)
(* a function.  The induction they rest on is over a set of numbers, which *)
(* a set of counterexamples without a smallest element cannot be.          *)
(***************************************************************************)
EXTENDS Integers, Sequences, Functions, FiniteSetTheorems, WellFoundedInduction,
        TLAPS

-----------------------------------------------------------------------------
(* Induction                                                               *)

\* A set of natural numbers has a smallest one.
LEMMA SmallestOf ==
  ASSUME NEW T, T \subseteq Nat, T # {}
  PROVE  \E x \in T : \A y \in T : x <= y
<1> DEFINE Less == {ss \in Nat \X Nat : ss[1] < ss[2]}
<1>1. IsWellFoundedOn(Less, Nat)
  BY NatLessThanWellFounded DEF OpToRel
<1>2. \A x, y \in Nat : y < x => <<y, x>> \in Less
  OBVIOUS
<1> HIDE DEF Less
<1>3. PICK x \in T : \A y \in T : <<y, x>> \notin Less
  BY <1>1, WFMin
<1>4. \A y \in T : ~(y < x)
  BY <1>2, <1>3
<1> QED BY <1>4

\* A set with 0 and with the successor of each number in it has them all.
LEMMA Induction ==
  ASSUME NEW T, 0 \in T, \A n \in Nat : n \in T => n + 1 \in T
  PROVE  \A n \in Nat : n \in T
<1> DEFINE Rest == Nat \ T
<1>1. SUFFICES ASSUME Rest # {} PROVE FALSE
  OBVIOUS
<1>2. PICK x \in Rest : \A y \in Rest : x <= y
  BY <1>1, SmallestOf
<1>3. x # 0 /\ x - 1 \in Nat /\ x - 1 \notin Rest
  BY <1>2
<1> QED BY <1>3

-----------------------------------------------------------------------------
(* Powers of two                                                           *)

\* 2 ^ n counts the subsets of 1 .. n.
LEMMA SubsetsCounted ==
  ASSUME NEW n \in Nat
  PROVE  IsFiniteSet(SUBSET (1 .. n)) /\ Cardinality(SUBSET (1 .. n)) = 2 ^ n
<1>1. IsFiniteSet(1 .. n) /\ Cardinality(1 .. n) = n
  BY FS_Interval
<1> QED BY <1>1, FS_SUBSET

\* The empty set has one subset.
LEMMA PowerOfZero == 2 ^ 0 = 1
<1>1. SUBSET (1 .. 0) = {{}}
  OBVIOUS
<1>2. Cardinality(SUBSET (1 .. 0)) = 1
  BY <1>1, FS_Singleton
<1> QED BY <1>2, SubsetsCounted

\* The next power is twice as large: half of the subsets have n + 1.
LEMMA PowerDoubles ==
  ASSUME NEW n \in Nat
  PROVE  2 ^ n \in Nat /\ 2 ^ (n + 1) = 2 * 2 ^ n
<1> DEFINE A == SUBSET (1 .. n)
           B == {s \cup {n + 1} : s \in A}
<1>1. IsFiniteSet(A) /\ Cardinality(A) = 2 ^ n /\ 2 ^ n \in Nat
  BY SubsetsCounted, FS_CardinalityType
<1>2. SUBSET (1 .. (n + 1)) = A \cup B
  <2>1. 1 .. (n + 1) = (1 .. n) \cup {n + 1} /\ n + 1 \notin 1 .. n
    OBVIOUS
  <2>2. ASSUME NEW s \in SUBSET (1 .. (n + 1)), n + 1 \notin s PROVE s \in A
    BY <2>1, <2>2
  <2>3. ASSUME NEW s \in SUBSET (1 .. (n + 1)), n + 1 \in s PROVE s \in B
    <3> DEFINE r == s \ {n + 1}
    <3>1. r \in A /\ s = r \cup {n + 1}
      BY <2>1, <2>3
    <3> QED BY <3>1
  <2>4. A \cup B \subseteq SUBSET (1 .. (n + 1))
    BY <2>1
  <2> QED BY <2>2, <2>3, <2>4
<1>3. A \cap B = {}
  OBVIOUS
<1>4. IsFiniteSet(B) /\ Cardinality(B) = Cardinality(A)
  <2> DEFINE f == [s \in A |-> s \cup {n + 1}]
  <2>1. f \in [A -> B] /\ \A b \in B : \E s \in A : f[s] = b
    OBVIOUS
  <2>2. \A s, r \in A : f[s] = f[r] => s = r
    <3> SUFFICES ASSUME NEW s \in A, NEW r \in A, s \cup {n + 1} = r \cup {n + 1}
                 PROVE  s = r
      OBVIOUS
    <3>1. n + 1 \notin s /\ n + 1 \notin r
      OBVIOUS
    <3> QED BY <3>1
  <2>3. f \in Bijection(A, B)
    BY <2>1, <2>2 DEF Bijection, Injection, Surjection, IsInjective
  <2>4. ExistsBijection(A, B)
    BY <2>3 DEF ExistsBijection
  <2> QED BY <1>1, <2>4, FS_Bijection
<1>5. Cardinality(SUBSET (1 .. (n + 1))) = 2 ^ (n + 1)
  BY SubsetsCounted
<1> HIDE DEF A, B
<1>6. Cardinality(A \cup B) = Cardinality(A) + Cardinality(B) - Cardinality({})
  BY <1>1, <1>3, <1>4, FS_Union
<1>7. Cardinality(A) \in Nat /\ Cardinality({}) = 0
  BY <1>1, FS_CardinalityType, FS_EmptySet
<1>8. Cardinality(A \cup B) = 2 * Cardinality(A)
  BY <1>4, <1>6, <1>7
<1> QED BY <1>1, <1>2, <1>5, <1>8

-----------------------------------------------------------------------------
(* Recursive functions                                                     *)

\* The values of g begin with first and go on by steps.
Follows(g, S, first, step) ==
    /\ g \in [Nat -> S]
    /\ g[0] = first
    /\ \A n \in Nat : g[n + 1] = step[<<n, g[n]>>]

\* There is such a function for every first value and every step.
LEMMA Recursion ==
  ASSUME NEW S, NEW first \in S, NEW step \in [Nat \X S -> S]
  PROVE  \E g : Follows(g, S, first, step)
<1> DEFINE Starts(n) == {h \in [0 .. n -> S] :
                            /\ h[0] = first
                            /\ \A k \in Nat : k < n => h[k + 1] = step[<<k, h[k]>>]}
           T == {n \in Nat : Starts(n) # {}}
<1>1. 0 \in T
  <2> DEFINE h == [k \in 0 .. 0 |-> first]
  <2>1. h \in [0 .. 0 -> S] /\ h[0] = first
    OBVIOUS
  <2> HIDE DEF h
  <2>2. h \in Starts(0)
    BY <2>1
  <2> QED BY <2>2
<1>2. ASSUME NEW n \in Nat, n \in T PROVE n + 1 \in T
  <2>1. PICK h \in [0 .. n -> S] :
          /\ h[0] = first
          /\ \A k \in Nat : k < n => h[k + 1] = step[<<k, h[k]>>]
    BY <1>2
  <2> DEFINE next == step[<<n, h[n]>>]
             e == [k \in 0 .. n + 1 |-> IF k <= n THEN h[k] ELSE next]
  <2>2. next \in S
    BY <2>1
  <2>3. e \in [0 .. n + 1 -> S] /\ e[0] = first
    BY <2>1, <2>2
  <2>4. ASSUME NEW k \in Nat, k < n + 1 PROVE e[k + 1] = step[<<k, e[k]>>]
    <3>1. CASE k < n
      BY <2>1, <3>1
    <3>2. CASE k = n
      <4>1. n \in 0 .. n + 1 /\ n + 1 \in 0 .. n + 1 /\ ~(n + 1 <= n)
        OBVIOUS
      <4> HIDE DEF next
      <4>2. e[n + 1] = next /\ e[n] = h[n]
        BY <4>1
      <4> QED BY <3>2, <4>2 DEF next
    <3> QED BY <2>4, <3>1, <3>2
  <2> HIDE DEF e
  <2>5. e \in Starts(n + 1)
    BY <2>3, <2>4
  <2> QED BY <2>5
<1>3. \A n \in Nat : Starts(n) # {}
  <2> HIDE DEF Starts
  <2>1. \A n \in Nat : n \in T
    <3> HIDE DEF T
    <3> QED BY <1>1, <1>2, Induction
  <2> QED BY <2>1
<1>4. ASSUME NEW m \in Nat, NEW n \in Nat, NEW h \in Starts(m), NEW e \in Starts(n)
      PROVE  \A k \in Nat : k <= m /\ k <= n => h[k] = e[k]
  <2> DEFINE A == {k \in Nat : k <= m /\ k <= n => h[k] = e[k]}
  <2>1. 0 \in A
    OBVIOUS
  <2>2. ASSUME NEW k \in Nat, k \in A PROVE k + 1 \in A
    <3>1. SUFFICES ASSUME k + 1 <= m, k + 1 <= n PROVE h[k + 1] = e[k + 1]
      OBVIOUS
    <3>2. k < m /\ k < n /\ h[k] = e[k]
      BY <2>2, <3>1
    <3> QED BY <3>2
  <2>3. \A k \in Nat : k \in A
    <3> HIDE DEF A
    <3> QED BY <2>1, <2>2, Induction
  <2> QED BY <2>3
<1> DEFINE F == [n \in Nat |-> CHOOSE h : h \in Starts(n)]
           g == [n \in Nat |-> F[n][n]]
<1>5. \A n \in Nat : F[n] \in Starts(n)
  <2> HIDE DEF Starts
  <2> QED BY <1>3
<1> HIDE DEF F
<1>6. \A n \in Nat : F[n] \in [0 .. n -> S]
  BY <1>5
<1>7. g \in [Nat -> S]
  BY <1>6
<1>8. g[0] = first
  <2>1. F[0] \in Starts(0)
    BY <1>5
  <2> QED BY <2>1
<1>9. ASSUME NEW n \in Nat PROVE g[n + 1] = step[<<n, g[n]>>]
  <2>1. F[n] \in Starts(n) /\ F[n + 1] \in Starts(n + 1) /\ n + 1 \in Nat
    BY <1>5
  <2>2. F[n + 1][n + 1] = step[<<n, F[n + 1][n]>>]
    BY <2>1
  <2>3. F[n + 1][n] = F[n][n]
    <3> HIDE DEF Starts
    <3>1. n <= n /\ n <= n + 1
      OBVIOUS
    <3> QED BY <1>4, <2>1, <3>1
  <2> QED BY <2>1, <2>2, <2>3
<1> HIDE DEF g
<1> QED BY <1>7, <1>8, <1>9 DEF Follows

-----------------------------------------------------------------------------
(* Sums                                                                    *)

\* g sums f over the subsets of S in the order of Functions!SumFunctionOnSet.
Iterates(g, f, S) ==
    g = [s \in SUBSET S |->
           IF s = {} THEN 0
           ELSE f[CHOOSE x \in s : TRUE] + g[s \ {CHOOSE x \in s : TRUE}]]

\* Such a function exists and its values are numbers.
LEMMA SumIterates ==
  ASSUME NEW S, IsFiniteSet(S), NEW f, \A x \in S : f[x] \in Int
  PROVE  \E g \in [SUBSET S -> Int] : Iterates(g, f, S)
<1> DEFINE V == [SUBSET S -> Int]
           c(s) == CHOOSE x \in s : TRUE
           zero == [s \in SUBSET S |-> 0]
           more(h) == [s \in SUBSET S |-> IF s = {} THEN 0 ELSE f[c(s)] + h[s \ {c(s)}]]
           step == [p \in Nat \X V |-> more(p[2])]
<1>1. \A s \in SUBSET S : s # {} => c(s) \in s
  OBVIOUS
<1> HIDE DEF c
<1>2. zero \in V
  OBVIOUS
<1>3. ASSUME NEW h \in V PROVE more(h) \in V
  BY <1>1
<1>4. step \in [Nat \X V -> V]
  BY <1>3
<1>5. PICK g :
        /\ g \in [Nat -> V]
        /\ g[0] = zero /\ \A n \in Nat : g[n + 1] = step[<<n, g[n]>>]
  <2>1. \E g : Follows(g, V, zero, step)
    <3> HIDE DEF V, zero, step
    <3> QED BY <1>2, <1>4, Recursion
  <2> QED BY <2>1 DEF Follows
<1> DEFINE G == [s \in SUBSET S |-> g[Cardinality(s)][s]]
<1>6. ASSUME NEW s \in SUBSET S
      PROVE  /\ IsFiniteSet(s) /\ Cardinality(s) \in Nat
             /\ s = {} <=> Cardinality(s) = 0
  BY FS_Subset, FS_CardinalityType, FS_EmptySet
<1>7. G \in V
  BY <1>5, <1>6
<1>8. ASSUME NEW s \in SUBSET S
      PROVE  G[s] = IF s = {} THEN 0 ELSE f[c(s)] + G[s \ {c(s)}]
  <2>1. CASE s = {}
    <3>1. Cardinality(s) = 0
      BY <1>6, <2>1
    <3> QED BY <1>5, <2>1, <3>1
  <2>2. CASE s # {}
    <3> DEFINE r == s \ {c(s)}
               n == Cardinality(r)
    <3>1. r \in SUBSET S /\ c(s) \in s
      BY <1>1, <2>2
    <3>2. n \in Nat /\ Cardinality(s) = n + 1
      BY <1>6, <3>1, FS_RemoveElement
    <3>3. G[s] = g[n + 1][s] /\ G[r] = g[n][r]
      BY <3>1, <3>2
    <3> HIDE DEF G, n
    <3>4. g[n] \in V /\ g[n + 1] = more(g[n])
      BY <1>5, <3>2
    <3> HIDE DEF V
    <3>5. g[n + 1][s] = f[c(s)] + g[n][r]
      BY <2>2, <3>4
    <3> QED BY <2>2, <3>3, <3>5
  <2> QED BY <2>1, <2>2
<1> HIDE DEF G
<1>9. G = [s \in SUBSET S |-> IF s = {} THEN 0 ELSE f[c(s)] + G[s \ {c(s)}]]
  BY <1>7, <1>8
<1>10. Iterates(G, f, S)
  BY <1>9 DEF Iterates, c
<1> QED BY <1>7, <1>10

\* Two such functions agree on a set on which the summed functions agree.
LEMMA IteratesAgree ==
  ASSUME NEW S, NEW R, NEW T \in (SUBSET S) \cap (SUBSET R), IsFiniteSet(T),
         NEW f, NEW e, \A x \in T : f[x] = e[x],
         NEW g, NEW h, Iterates(g, f, S), Iterates(h, e, R)
  PROVE  g[T] = h[T]
<1> DEFINE c(s) == CHOOSE x \in s : TRUE
           A == {n \in Nat : \A s \in SUBSET T : Cardinality(s) = n => g[s] = h[s]}
<1>1. \A s : s # {} => c(s) \in s
  OBVIOUS
<1>2. ASSUME NEW s \in SUBSET T
      PROVE  /\ g[s] = IF s = {} THEN 0 ELSE f[c(s)] + g[s \ {c(s)}]
             /\ h[s] = IF s = {} THEN 0 ELSE e[c(s)] + h[s \ {c(s)}]
  <2>1. s \in SUBSET S /\ s \in SUBSET R
    OBVIOUS
  <2>2. g[s] = IF s = {} THEN 0 ELSE f[c(s)] + g[s \ {c(s)}]
    BY <2>1 DEF Iterates
  <2>3. h[s] = IF s = {} THEN 0 ELSE e[c(s)] + h[s \ {c(s)}]
    BY <2>1 DEF Iterates
  <2> QED BY <2>2, <2>3
<1>3. ASSUME NEW s \in SUBSET T
      PROVE  /\ IsFiniteSet(s) /\ Cardinality(s) \in Nat
             /\ s = {} <=> Cardinality(s) = 0
  BY FS_Subset, FS_CardinalityType, FS_EmptySet
<1> HIDE DEF c
<1>4. 0 \in A
  BY <1>2, <1>3
<1>5. ASSUME NEW n \in Nat, n \in A PROVE n + 1 \in A
  <2> SUFFICES ASSUME NEW s \in SUBSET T, Cardinality(s) = n + 1
               PROVE  g[s] = h[s]
    OBVIOUS
  <2>1. s # {}
    BY <1>3
  <2>2. c(s) \in s /\ s \ {c(s)} \in SUBSET T
    BY <1>1, <2>1
  <2>3. Cardinality(s \ {c(s)}) = n
    <3>1. IsFiniteSet(s) /\ Cardinality(s \ {c(s)}) = Cardinality(s) - 1
      BY <1>3, <2>2, FS_RemoveElement
    <3> QED BY <3>1
  <2>4. g[s \ {c(s)}] = h[s \ {c(s)}]
    BY <1>5, <2>2, <2>3
  <2>5. f[c(s)] = e[c(s)]
    BY <2>2
  <2> QED BY <1>2, <2>1, <2>4, <2>5
<1>6. \A n \in Nat : n \in A
  <2> HIDE DEF A
  <2> QED BY <1>4, <1>5, Induction
<1>7. T \in SUBSET T /\ Cardinality(T) \in Nat
  BY <1>3
<1> QED BY <1>6, <1>7

\* What SumFunctionOnSet chooses is such a function.
LEMMA SumIsIterated ==
  ASSUME NEW S, IsFiniteSet(S), NEW f, \A x \in S : f[x] \in Int
  PROVE  \E g \in [SUBSET S -> Int] :
            Iterates(g, f, S) /\ SumFunctionOnSet(f, S) = g[S]
<1>1. PICK g \in [SUBSET S -> Int] : Iterates(g, f, S)
  BY SumIterates
<1> DEFINE i == CHOOSE i : Iterates(i, f, S)
<1>2. Iterates(i, f, S)
  BY <1>1
<1>3. SumFunctionOnSet(f, S) = i[S]
  BY Zenon DEF Iterates, SumFunctionOnSet, FoldFunctionOnSet, MapThenFoldSet
<1> HIDE DEF i
<1>4. i[S] = g[S]
  BY <1>1, <1>2, IteratesAgree
<1> QED BY <1>1, <1>3, <1>4

-----------------------------------------------------------------------------

\* A sum of integers over a finite set is an integer.
LEMMA SumTyped ==
  ASSUME NEW S, IsFiniteSet(S), NEW f, \A x \in S : f[x] \in Int
  PROVE  SumFunctionOnSet(f, S) \in Int
<1>1. PICK g \in [SUBSET S -> Int] : SumFunctionOnSet(f, S) = g[S]
  BY SumIsIterated
<1> QED BY <1>1

\* The sum depends on the values in the set only.
LEMMA SumAgrees ==
  ASSUME NEW S, IsFiniteSet(S), NEW f, \A x \in S : f[x] \in Int,
         NEW e, \A x \in S : f[x] = e[x]
  PROVE  SumFunctionOnSet(f, S) = SumFunctionOnSet(e, S)
<1>1. PICK g : Iterates(g, f, S) /\ SumFunctionOnSet(f, S) = g[S]
  BY SumIsIterated
<1>2. PICK h : Iterates(h, e, S) /\ SumFunctionOnSet(e, S) = h[S]
  BY SumIsIterated
<1>3. S \in (SUBSET S) \cap (SUBSET S)
  OBVIOUS
<1>4. g[S] = h[S]
  BY <1>1, <1>2, <1>3, IteratesAgree
<1> QED BY <1>1, <1>2, <1>4

\* The sum over no entries.
LEMMA SumOfNone == ASSUME NEW f PROVE SumFunctionOnSet(f, {}) = 0
<1>1. IsFiniteSet({})
  BY FS_EmptySet
<1>2. PICK g : Iterates(g, f, {}) /\ SumFunctionOnSet(f, {}) = g[{}]
  BY <1>1, SumIsIterated
<1>3. g[{}] = 0
  BY <1>2 DEF Iterates
<1> QED BY <1>2, <1>3

\* The element the sum takes first.
LEMMA SumTakesChosen ==
  ASSUME NEW S, IsFiniteSet(S), S # {}, NEW f, \A x \in S : f[x] \in Int
  PROVE  \E c \in S : SumFunctionOnSet(f, S) = f[c] + SumFunctionOnSet(f, S \ {c})
<1> DEFINE c == CHOOSE x \in S : TRUE
           R == S \ {c}
<1>1. c \in S /\ R \in SUBSET S /\ IsFiniteSet(R) /\ \A x \in R : f[x] \in Int
  BY FS_RemoveElement
<1>2. PICK g : Iterates(g, f, S) /\ SumFunctionOnSet(f, S) = g[S]
  BY SumIsIterated
<1>3. PICK h : Iterates(h, f, R) /\ SumFunctionOnSet(f, R) = h[R]
  BY <1>1, SumIsIterated
<1>4. S \in SUBSET S
  OBVIOUS
<1>5. g[S] = f[c] + g[R]
  BY <1>2, <1>4 DEF Iterates
<1>6. R \in (SUBSET S) \cap (SUBSET R)
  BY <1>1
<1> HIDE DEF c, R
<1>7. g[R] = h[R]
  BY <1>1, <1>2, <1>3, <1>6, IteratesAgree
<1>8. SumFunctionOnSet(f, S) = f[c] + SumFunctionOnSet(f, R)
  BY <1>2, <1>3, <1>5, <1>7
<1> QED BY <1>1, <1>8 DEF R

\* In whatever order the sum is taken, any element can be taken first.
LEMMA SumTakesAny ==
  ASSUME NEW S, IsFiniteSet(S), NEW f, \A x \in S : f[x] \in Int, NEW x \in S
  PROVE  SumFunctionOnSet(f, S) = f[x] + SumFunctionOnSet(f, S \ {x})
<1> DEFINE Sum(s) == SumFunctionOnSet(f, s)
           A == {n \in Nat : \A s \in SUBSET S : Cardinality(s) = n =>
                                \A y \in s : Sum(s) = f[y] + Sum(s \ {y})}
<1>1. ASSUME NEW s \in SUBSET S
      PROVE  /\ IsFiniteSet(s) /\ Cardinality(s) \in Nat /\ Sum(s) \in Int
             /\ s = {} <=> Cardinality(s) = 0
             /\ \A y \in s : Cardinality(s \ {y}) = Cardinality(s) - 1
             /\ s # {} => \E c \in s : Sum(s) = f[c] + Sum(s \ {c})
  <2>1. IsFiniteSet(s) /\ \A y \in s : f[y] \in Int
    BY FS_Subset
  <2>2. /\ Cardinality(s) \in Nat /\ Sum(s) \in Int
        /\ s = {} <=> Cardinality(s) = 0
    BY <2>1, FS_CardinalityType, FS_EmptySet, SumTyped
  <2>3. \A y \in s : Cardinality(s \ {y}) = Cardinality(s) - 1
    BY <2>1, FS_RemoveElement
  <2>4. s # {} => \E c \in s : Sum(s) = f[c] + Sum(s \ {c})
    BY <2>1, SumTakesChosen
  <2> QED BY <2>1, <2>2, <2>3, <2>4
<1> HIDE DEF Sum
<1>2. 0 \in A
  BY <1>1
<1>3. ASSUME NEW n \in Nat, n \in A PROVE n + 1 \in A
  <2> SUFFICES ASSUME NEW s \in SUBSET S, Cardinality(s) = n + 1, NEW y \in s
               PROVE  Sum(s) = f[y] + Sum(s \ {y})
    OBVIOUS
  <2>1. PICK c \in s : Sum(s) = f[c] + Sum(s \ {c})
    BY <1>1
  <2>2. CASE c = y
    BY <2>1, <2>2
  <2>3. CASE c # y
    <3> DEFINE r == s \ {c}
               q == s \ {y}
    <3>1. r \in SUBSET S /\ q \in SUBSET S /\ y \in r /\ c \in q
      BY <2>3
    <3>2. Cardinality(r) = n /\ Cardinality(q) = n
      BY <1>1
    <3>3. r \ {y} = q \ {c} /\ r \ {y} \in SUBSET S
      BY <3>1
    <3>4. Sum(r) = f[y] + Sum(r \ {y}) /\ Sum(q) = f[c] + Sum(q \ {c})
      BY <1>3, <3>1, <3>2
    <3> DEFINE rest == Sum(r \ {y})
    <3>5. rest \in Int /\ f[y] \in Int /\ f[c] \in Int
      BY <1>1, <3>3
    <3>6. Sum(r) = f[y] + rest /\ Sum(q) = f[c] + rest
      BY <3>3, <3>4
    <3>7. Sum(s) = f[c] + Sum(r)
      BY <2>1
    <3> HIDE DEF rest
    <3>8. Sum(s) = f[y] + Sum(q)
      BY <3>5, <3>6, <3>7
    <3> QED BY <3>8
  <2> QED BY <2>2, <2>3
<1>4. \A n \in Nat : n \in A
  <2> HIDE DEF A
  <2> QED BY <1>2, <1>3, Induction
<1>5. S \in SUBSET S /\ Cardinality(S) \in Nat
  BY <1>1
<1> QED BY <1>4, <1>5 DEF Sum

-----------------------------------------------------------------------------
(* Sums of sequences                                                       *)

\* The sum of the first n values of f.
SumTo(f, n) == SumFunctionOnSet(f, 1 .. n)

\* The sum of one entry more.
LEMMA SumToSteps ==
  ASSUME NEW n \in Nat, NEW f, \A i \in 1 .. n + 1 : f[i] \in Int
  PROVE  /\ SumTo(f, 0) = 0 /\ SumTo(f, n) \in Int
         /\ SumTo(f, n + 1) = SumTo(f, n) + f[n + 1]
<1>1. 1 .. 0 = {} /\ (1 .. n + 1) \ {n + 1} = 1 .. n /\ n + 1 \in 1 .. n + 1
  OBVIOUS
<1>2. IsFiniteSet(1 .. n) /\ IsFiniteSet(1 .. n + 1)
  BY FS_Interval
<1>3. SumTo(f, 0) = 0
  BY <1>1, SumOfNone DEF SumTo
<1>4. SumTo(f, n) \in Int
  <2>1. \A i \in 1 .. n : f[i] \in Int
    OBVIOUS
  <2> QED BY <1>2, <2>1, SumTyped DEF SumTo
<1>5. SumTo(f, n + 1) = f[n + 1] + SumTo(f, n)
  BY <1>1, <1>2, SumTakesAny DEF SumTo
<1> QED BY <1>3, <1>4, <1>5

\* Sums to a number agree with any function that begins at 0 and steps alike.
LEMMA SumToIs ==
  ASSUME NEW n \in Nat, NEW f, \A i \in 1 .. n : f[i] \in Int,
         NEW s, s[0] = 0, \A k \in 0 .. n - 1 : s[k + 1] = s[k] + f[k + 1]
  PROVE  SumTo(f, n) = s[n]
<1> DEFINE A == {k \in Nat : k <= n => SumTo(f, k) = s[k]}
<1>1. 0 \in A
  <2>1. SumTo(f, 0) = 0
    <3>1. 1 .. 0 = {}
      OBVIOUS
    <3> QED BY <3>1, SumOfNone DEF SumTo
  <2> QED BY <2>1
<1>2. ASSUME NEW k \in Nat, k \in A PROVE k + 1 \in A
  <2>1. SUFFICES ASSUME k + 1 <= n PROVE SumTo(f, k + 1) = s[k + 1]
    OBVIOUS
  <2>2. \A i \in 1 .. k + 1 : f[i] \in Int
    BY <2>1
  <2>3. SumTo(f, k + 1) = SumTo(f, k) + f[k + 1]
    BY <2>2, SumToSteps
  <2>4. k \in 0 .. n - 1 /\ SumTo(f, k) = s[k]
    BY <1>2, <2>1
  <2> QED BY <2>3, <2>4
<1>3. \A k \in Nat : k \in A
  <2> HIDE DEF A
  <2> QED BY <1>1, <1>2, Induction
<1> QED BY <1>3

\* A multiple of a function and the sum of two are summed term by term.
LEMMA SumToTimes ==
  ASSUME NEW n \in Nat, NEW k \in Int, NEW f, \A i \in 1 .. n : f[i] \in Int,
         NEW h, \A i \in 1 .. n : h[i] = k * f[i]
  PROVE  SumTo(h, n) = k * SumTo(f, n)
<1> DEFINE s == [m \in 0 .. n |-> k * SumTo(f, m)]
<1>1. ASSUME NEW m \in 0 .. n - 1
      PROVE  /\ SumTo(f, 0) = 0 /\ SumTo(f, m) \in Int
             /\ SumTo(f, m + 1) = SumTo(f, m) + f[m + 1]
  <2>1. m \in Nat /\ \A i \in 1 .. m + 1 : f[i] \in Int
    OBVIOUS
  <2> QED BY <2>1, SumToSteps
<1>2. s[0] = 0
  <2>1. SumTo(f, 0) = 0
    <3>1. 1 .. 0 = {}
      OBVIOUS
    <3> QED BY <3>1, SumOfNone DEF SumTo
  <2> QED BY <2>1
<1>3. ASSUME NEW m \in 0 .. n - 1 PROVE s[m + 1] = s[m] + h[m + 1]
  <2> DEFINE a == SumTo(f, m)
             b == f[m + 1]
  <2>1. a \in Int /\ b \in Int /\ SumTo(f, m + 1) = a + b /\ h[m + 1] = k * b
    BY <1>1
  <2>2. s[m] = k * a /\ s[m + 1] = k * SumTo(f, m + 1)
    OBVIOUS
  <2> HIDE DEF a, b, s
  <2>3. k * (a + b) = k * a + k * b
    BY <2>1
  <2> QED BY <2>1, <2>2, <2>3
<1>4. \A i \in 1 .. n : h[i] \in Int
  OBVIOUS
<1>5. s[n] = k * SumTo(f, n)
  OBVIOUS
<1> HIDE DEF s
<1> QED BY <1>2, <1>3, <1>4, <1>5, SumToIs

\* Without its first value a function sums up to less by it.
LEMMA SumToShifts ==
  ASSUME NEW n \in Nat, NEW f, \A i \in 1 .. n + 1 : f[i] \in Int,
         NEW h, \A i \in 1 .. n : h[i] = f[i + 1]
  PROVE  SumTo(h, n) = SumTo(f, n + 1) - f[1]
<1> DEFINE s == [m \in 0 .. n |-> SumTo(f, m + 1) - f[1]]
<1>1. ASSUME NEW m \in 0 .. n
      PROVE  /\ SumTo(f, m) \in Int /\ SumTo(f, 0) = 0
             /\ SumTo(f, m + 1) = SumTo(f, m) + f[m + 1]
  <2>1. m \in Nat /\ \A i \in 1 .. m + 1 : f[i] \in Int
    OBVIOUS
  <2> QED BY <2>1, SumToSteps
<1>2. s[0] = 0
  <2>1. SumTo(f, 1) = f[1] /\ f[1] \in Int
    <3>1. 0 \in 0 .. n /\ 0 + 1 = 1 /\ f[1] \in Int
      OBVIOUS
    <3> QED BY <1>1, <3>1
  <2>2. s[0] = SumTo(f, 1) - f[1]
    OBVIOUS
  <2> QED BY <2>1, <2>2
<1>3. ASSUME NEW m \in 0 .. n - 1 PROVE s[m + 1] = s[m] + h[m + 1]
  <2> DEFINE a == SumTo(f, m + 1)
             b == SumTo(f, m + 1 + 1)
  <2>1. m + 1 \in 0 .. n /\ h[m + 1] = f[m + 1 + 1]
    OBVIOUS
  <2>2. a \in Int /\ b = a + h[m + 1] /\ h[m + 1] \in Int /\ f[1] \in Int
    BY <1>1, <2>1
  <2>3. s[m] = a - f[1] /\ s[m + 1] = b - f[1]
    OBVIOUS
  <2> HIDE DEF s, a, b
  <2> QED BY <2>2, <2>3
<1>4. \A i \in 1 .. n : h[i] \in Int
  OBVIOUS
<1>5. s[n] = SumTo(f, n + 1) - f[1]
  OBVIOUS
<1> HIDE DEF s
<1> QED BY <1>2, <1>3, <1>4, <1>5, SumToIs

\* A value that comes to a sequence of integers, and one that leaves it.
LEMMA SumOfSequence ==
  ASSUME NEW q \in Seq(Int), NEW x \in Int
  PROVE  /\ SumFunction(q) = SumTo(q, Len(q)) /\ SumFunction(q) \in Int
         /\ SumFunction(<<>>) = 0
         /\ SumFunction(Append(q, x)) = SumFunction(q) + x
         /\ q # <<>> => SumFunction(Tail(q)) = SumFunction(q) - q[1]
<1>1. \A s \in Seq(Int) : SumFunction(s) = SumTo(s, Len(s))
  BY DEF SumFunction, SumTo
<1>2. /\ q \in Seq(Int) /\ Len(q) \in Nat
      /\ \A i \in 1 .. Len(q) : q[i] \in Int
  OBVIOUS
<1>3. SumFunction(q) \in Int
  <2>1. IsFiniteSet(1 .. Len(q))
    BY <1>2, FS_Interval
  <2>2. SumTo(q, Len(q)) \in Int
    BY <1>2, <2>1, SumTyped DEF SumTo
  <2> QED BY <1>1, <2>2
<1>4. SumFunction(<<>>) = 0
  <2>1. DOMAIN <<>> = {}
    OBVIOUS
  <2> QED BY <2>1, SumOfNone DEF SumFunction
<1>5. SumFunction(Append(q, x)) = SumFunction(q) + x
  <2> DEFINE r == Append(q, x)
             n == Len(q)
  <2>1. /\ r \in Seq(Int) /\ Len(r) = n + 1 /\ r[n + 1] = x
        /\ \A i \in 1 .. n + 1 : r[i] \in Int
        /\ \A i \in 1 .. n : r[i] = q[i]
    OBVIOUS
  <2>2. SumFunction(r) = SumTo(r, n + 1)
    BY <1>1, <2>1
  <2>3. SumTo(r, n + 1) = SumTo(r, n) + x
    BY <1>2, <2>1, SumToSteps
  <2>4. SumTo(r, n) = SumTo(q, n)
    <3>1. IsFiniteSet(1 .. n) /\ \A i \in 1 .. n : q[i] \in Int /\ q[i] = r[i]
      BY <1>2, <2>1, FS_Interval
    <3> HIDE DEF r, n
    <3> QED BY <3>1, SumAgrees DEF SumTo
  <2> QED BY <1>1, <2>2, <2>3, <2>4
<1>6. ASSUME q # <<>> PROVE SumFunction(Tail(q)) = SumFunction(q) - q[1]
  <2> DEFINE r == Tail(q)
             n == Len(q) - 1
  <2>1. n \in Nat /\ r \in Seq(Int) /\ Len(r) = n /\ Len(q) = n + 1
    BY <1>6
  <2>2. \A i \in 1 .. n : r[i] = q[i + 1]
    BY <1>6
  <2>3. \A i \in 1 .. n + 1 : q[i] \in Int
    BY <2>1
  <2> HIDE DEF r, n
  <2>4. SumTo(r, n) = SumTo(q, n + 1) - q[1]
    BY <2>1, <2>2, <2>3, SumToShifts
  <2>5. SumFunction(r) = SumTo(r, n) /\ SumFunction(q) = SumTo(q, n + 1)
    BY <1>1, <2>1
  <2> QED BY <2>4, <2>5 DEF r
<1> QED BY <1>1, <1>3, <1>4, <1>5, <1>6

=============================================================================
