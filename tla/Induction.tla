----------------------------- MODULE Induction ------------------------------
(***************************************************************************)
(* Induction over numbers and finite sets, in the form in which the        *)
(* provers can use it: the induction hypothesis is membership in a set.    *)
(* What recursion over an interval defines, and how cardinalities and      *)
(* remainders change by one, follow from it.                               *)
(***************************************************************************)
EXTENDS Integers, FiniteSets, FiniteSetTheorems, WellFoundedInduction, TLAPS

(* A set of numbers that is not empty has a least one. *)
LEMMA LeastNatural ==
  ASSUME NEW S, S \subseteq Nat, S # {}
  PROVE  \E x \in S : \A y \in S : x <= y
<1> DEFINE Below(x) == 0 .. x - 1
           B == {Below(x) : x \in S}
<1>1. B \subseteq FiniteSubsetsOf(Nat) /\ B # {}
  <2>1. ASSUME NEW x \in S
        PROVE  Below(x) \in FiniteSubsetsOf(Nat)
    <3>1. IsFiniteSet(Below(x))
      BY FS_Interval
    <3>2. Below(x) \subseteq Nat
      OBVIOUS
    <3> QED
      BY <3>1, <3>2 DEF FiniteSubsetsOf
  <2> QED
    BY <2>1
<1>2. PICK b \in B : \A c \in B : ~(<<c, b>> \in StrictSubsetOrdering(Nat))
  <2> HIDE DEF B
  <2> QED
    BY <1>1, FS_StrictSubsetOrderingWellFounded, WFMin
<1>3. PICK x \in S : b = Below(x)
  OBVIOUS
<1>4. ASSUME NEW y \in S, y < x
      PROVE  FALSE
  <2>1. ~(<<Below(y), b>> \in StrictSubsetOrdering(Nat))
    BY <1>2
  <2>2. Below(y) \subseteq b /\ b \subseteq Nat /\ y \in b /\ y \notin Below(y)
    BY <1>3, <1>4
  <2> QED
    BY <2>1, <2>2 DEF StrictSubsetOrdering
<1> QED
  BY <1>4

(* What holds of 0, and of a number after one that it holds of, holds of   *)
(* all the numbers up to N.                                                *)
LEMMA IntervalInduction ==
  ASSUME NEW N \in Nat, NEW S, 0 \in S, \A n \in 0 .. N - 1 : n \in S => n + 1 \in S
  PROVE  0 .. N \subseteq S
<1> SUFFICES ASSUME (0 .. N) \ S # {}
             PROVE  FALSE
  OBVIOUS
<1>1. PICK x \in (0 .. N) \ S : \A y \in (0 .. N) \ S : x <= y
  <2>1. (0 .. N) \ S \subseteq Nat
    OBVIOUS
  <2> QED
    BY <2>1, LeastNatural
<1>2. x - 1 \in 0 .. N - 1
  BY <1>1
<1>3. x - 1 \in S
  BY <1>1, <1>2
<1> QED
  BY <1>1, <1>2, <1>3

(* A family of sets that holds the empty set, and with a part of a finite  *)
(* set each that has one element more, holds the whole.                    *)
LEMMA FiniteSetInduction ==
  ASSUME NEW S, IsFiniteSet(S), NEW F, {} \in F,
         \A T \in SUBSET S, x \in S : T \in F => T \cup {x} \in F
  PROVE  S \in F
<1> DEFINE Left == {U \in SUBSET S : S \ U \in F}
<1>1. S \in Left /\ Left # {}
  <2>1. S \ S = {}
    OBVIOUS
  <2> QED
    BY <2>1
<1>2. Left \subseteq FiniteSubsetsOf(S)
  BY FS_Subset DEF FiniteSubsetsOf
<1>3. PICK U \in Left : \A V \in Left : ~(<<V, U>> \in StrictSubsetOrdering(S))
  <2> HIDE DEF Left
  <2> QED
    BY <1>1, <1>2, FS_StrictSubsetOrderingWellFounded, WFMin
<1>4. U = {}
  <2> SUFFICES ASSUME NEW x \in U
               PROVE  FALSE
    OBVIOUS
  <2>1. S \ (U \ {x}) = (S \ U) \cup {x}
    OBVIOUS
  <2>2. U \ {x} \in Left
    BY <2>1
  <2> QED
    BY <1>3, <2>2 DEF StrictSubsetOrdering
<1>5. S \ {} = S
  OBVIOUS
<1> QED
  BY <1>3, <1>4, <1>5

(* f starts at base, and every value is made from the one before. *)
Recursive(f, N, base, step) ==
    f[0] = base /\ \A n \in 1 .. N : f[n] = step[n][f[n - 1]]

(* Recursion from 0 up to N is well defined. *)
LEMMA IntervalRecursion ==
  ASSUME NEW N \in Nat, NEW V, NEW base \in V, NEW step \in [1 .. N -> [V -> V]]
  PROVE  \E f \in [0 .. N -> V] : Recursive(f, N, base, step)
<1> DEFINE Good(m, f) == f[0] = base /\ \A n \in 1 .. m : f[n] = step[n][f[n - 1]]
           S == {m \in 0 .. N : \E f \in [0 .. m -> V] : Good(m, f)}
<1>1. 0 \in S
  <2> DEFINE f0 == [n \in 0 .. 0 |-> base]
  <2>1. f0 \in [0 .. 0 -> V] /\ f0[0] = base
    OBVIOUS
  <2>2. Good(0, f0)
    BY <2>1
  <2>3. 0 \in 0 .. N
    OBVIOUS
  <2> HIDE DEF Good, f0
  <2> QED
    BY <2>1, <2>2, <2>3
<1>2. ASSUME NEW m \in 0 .. N - 1, m \in S
      PROVE  m + 1 \in S
  <2>1. PICK f \in [0 .. m -> V] : Good(m, f)
    BY <1>2
  <2> DEFINE g == [n \in 0 .. m + 1 |-> IF n = m + 1 THEN step[m + 1][f[m]] ELSE f[n]]
  <2>2. /\ m + 1 \in 1 .. N /\ f[m] \in V /\ 0 \in 0 .. m + 1 /\ 0 # m + 1
        /\ step[m + 1][f[m]] \in V
    <3>1. m + 1 \in 1 .. N /\ f[m] \in V /\ 0 \in 0 .. m + 1 /\ 0 # m + 1
      BY <2>1
    <3>2. step[m + 1] \in [V -> V]
      BY <3>1
    <3> QED
      BY <3>1, <3>2
  <2>3. g \in [0 .. m + 1 -> V]
    BY <2>2
  <2>4. \A n \in 0 .. m : g[n] = f[n]
    OBVIOUS
  <2>5. g[m + 1] = step[m + 1][f[m]]
    BY <2>2
  <2>6. ASSUME NEW n \in 1 .. m + 1
        PROVE  g[n] = step[n][g[n - 1]]
    <3>1. CASE n = m + 1
      BY <2>4, <2>5, <3>1
    <3>2. CASE n \in 1 .. m
      BY <2>1, <2>4, <3>2
    <3> QED
      BY <3>1, <3>2
  <2>7. Good(m + 1, g)
    BY <2>1, <2>4, <2>6
  <2> HIDE DEF g, Good
  <2> QED
    BY <2>2, <2>3, <2>7
<1>3. 0 .. N \subseteq S
  <2> HIDE DEF S
  <2> QED
    BY <1>1, <1>2, IntervalInduction
<1>4. N \in S
  BY <1>3
<1> QED
  BY <1>4 DEF Recursive

(* What is made of its predecessor by steps within V stays in V. *)
LEMMA RecursionType ==
  ASSUME NEW N \in Nat, NEW V, NEW f, f = [n \in 0 .. N |-> f[n]], f[0] \in V,
         \A n \in 1 .. N : f[n - 1] \in V => f[n] \in V
  PROVE  f \in [0 .. N -> V]
<1> DEFINE S == {n \in 0 .. N : f[n] \in V}
<1>1. 0 \in S
  OBVIOUS
<1>2. ASSUME NEW n \in 0 .. N - 1, n \in S
      PROVE  n + 1 \in S
  <2>1. n + 1 \in 1 .. N /\ (n + 1) - 1 = n /\ f[n] \in V
    BY <1>2
  <2> QED
    BY <2>1
<1>3. 0 .. N \subseteq S
  <2> HIDE DEF S
  <2> QED
    BY <1>1, <1>2, IntervalInduction
<1> QED
  BY <1>3

(* What passes from all that is measured smaller to the next holds of all. *)
LEMMA MeasuredInduction ==
  ASSUME NEW N \in Nat, NEW D, NEW m \in [D -> 0 .. N], NEW S,
         \A x \in D : (\A y \in D : m[y] < m[x] => y \in S) => x \in S
  PROVE  D \subseteq S
<1> DEFINE T == {n \in 0 .. N + 1 : \A x \in D : m[x] < n => x \in S}
<1>1. 0 \in T
  OBVIOUS
<1>2. ASSUME NEW n \in 0 .. (N + 1) - 1, n \in T PROVE n + 1 \in T
  <2>1. n \in 0 .. N /\ n + 1 \in 0 .. N + 1
    OBVIOUS
  <2>2. ASSUME NEW x \in D, m[x] < n + 1 PROVE x \in S
    <3>1. \A y \in D : m[y] < m[x] => m[y] < n
      BY <2>1, <2>2
    <3> QED
      BY <1>2, <3>1
  <2> QED
    BY <2>1, <2>2
<1>3. 0 .. N + 1 \subseteq T
  <2> HIDE DEF T
  <2>1. N + 1 \in Nat
    OBVIOUS
  <2> QED
    BY <1>1, <1>2, <2>1, IntervalInduction
<1>4. N + 1 \in T
  BY <1>3
<1> QED
  BY <1>4

(* A step that makes every value from values at what is measured smaller. *)
Descends(step, D, V, m, N) ==
    /\ N \in Nat /\ V # {} /\ m \in [D -> 0 .. N] /\ step \in [[D -> V] -> [D -> V]]
    /\ \A f, g \in [D -> V], x \in D :
          (\A y \in D : m[y] < m[x] => f[y] = g[y]) => step[f][x] = step[g][x]

(* Recursion by such a step is well defined. *)
LEMMA MeasuredRecursion ==
  ASSUME NEW step, NEW D, NEW V, NEW m, NEW N, Descends(step, D, V, m, N)
  PROVE  \E f \in [D -> V] : step[f] = f
<1>0. /\ N \in Nat /\ V # {} /\ m \in [D -> 0 .. N] /\ step \in [[D -> V] -> [D -> V]]
      /\ \A f, g \in [D -> V], x \in D :
            (\A y \in D : m[y] < m[x] => f[y] = g[y]) => step[f][x] = step[g][x]
  BY DEF Descends
<1>1. PICK F : F = [D -> V]
  OBVIOUS
<1>2. \E first : first \in F
  <2>1. PICK default : default \in V
    BY <1>0
  <2>2. [x \in D |-> default] \in F
    BY <1>1, <2>1
  <2> QED
    BY <2>2
<1>3. PICK first, h : h \in [0 .. N + 1 -> F] /\ Recursive(h, N + 1, first, [n \in 1 .. N + 1 |-> step])
  <2>0. PICK first : first \in F
    BY <1>2
  <2>1. [n \in 1 .. N + 1 |-> step] \in [1 .. N + 1 -> [F -> F]]
    BY <1>0, <1>1
  <2>2. N + 1 \in Nat
    BY <1>0
  <2> QED
    BY <2>0, <2>1, <2>2, IntervalRecursion
<1>4. \A n \in 0 .. N : h[n] \in F /\ h[n + 1] \in F /\ h[n + 1] = step[h[n]]
  <2>1. ASSUME NEW n \in 0 .. N PROVE h[n] \in F /\ h[n + 1] \in F /\ h[n + 1] = step[h[n]]
    <3>1. n \in 0 .. N + 1 /\ n + 1 \in 1 .. N + 1 /\ n + 1 \in 0 .. N + 1 /\ (n + 1) - 1 = n
      BY <1>0
    <3> QED
      BY <1>3, <3>1 DEF Recursive
  <2> QED
    BY <2>1
<1> DEFINE T == {n \in 0 .. N + 1 : \A x \in D : m[x] < n => step[h[n]][x] = h[n][x]}
<1>5. 0 \in T
  BY <1>0
<1>6. ASSUME NEW n \in 0 .. (N + 1) - 1, n \in T PROVE n + 1 \in T
  <2>1. n \in 0 .. N /\ n + 1 \in 0 .. N + 1
    BY <1>0
  <2>2. PICK f, g : f = h[n] /\ g = h[n + 1] /\ f \in F /\ g \in F /\ g = step[f]
    BY <1>4, <2>1
  <2>3. \A x \in D : m[x] < n => g[x] = f[x]
    BY <1>6, <2>2
  <2>4. ASSUME NEW x \in D, m[x] < n + 1 PROVE step[g][x] = g[x]
    <3>1. \A y \in D : m[y] < m[x] => m[y] < n
      BY <1>0, <2>1, <2>4
    <3>2. \A y \in D : m[y] < m[x] => f[y] = g[y]
      BY <2>3, <3>1
    <3>3. step[f][x] = step[g][x]
      BY <1>0, <1>1, <2>2, <3>2
    <3> QED
      BY <2>2, <3>3
  <2> QED
    BY <2>1, <2>2, <2>4
<1>7. 0 .. N + 1 \subseteq T
  <2> HIDE DEF T
  <2>1. N + 1 \in Nat
    BY <1>0
  <2> QED
    BY <1>5, <1>6, <2>1, IntervalInduction
<1>8. PICK f \in F : f = h[N + 1]
  BY <1>0, <1>4
<1>9. \A x \in D : step[f][x] = f[x]
  <2>1. N + 1 \in T
    BY <1>0, <1>7
  <2>2. \A x \in D : m[x] < N + 1
    BY <1>0
  <2> QED
    BY <1>8, <2>1, <2>2
<1>10. step[f] \in F
  BY <1>0, <1>1
<1>11. step[f] = f
  BY <1>1, <1>9, <1>10
<1> QED
  BY <1>1, <1>11

(* Two finite sets that differ in x at most. *)
LEMMA CardinalityChange ==
  ASSUME NEW A, NEW B, NEW x, IsFiniteSet(A), A \ {x} = B \ {x}
  PROVE  /\ IsFiniteSet(B) /\ Cardinality(A) \in Nat /\ Cardinality(B) \in Nat
         /\ x \in A => Cardinality(A) > 0
         /\ x \in A /\ x \in B => Cardinality(B) = Cardinality(A)
         /\ x \in A /\ x \notin B => Cardinality(B) = Cardinality(A) - 1
         /\ x \notin A /\ x \in B => Cardinality(B) = Cardinality(A) + 1
         /\ x \notin A /\ x \notin B => Cardinality(B) = Cardinality(A)
<1>1. Cardinality(A) \in Nat /\ (x \in A => Cardinality(A) > 0)
  BY FS_CardinalityType, FS_EmptySet
<1>2. CASE x \in B
  <2>1. B = (A \ {x}) \cup {x}
    BY <1>2
  <2>2. /\ IsFiniteSet(A \ {x})
        /\ Cardinality(A \ {x}) = IF x \in A THEN Cardinality(A) - 1 ELSE Cardinality(A)
    BY FS_RemoveElement
  <2>3. IsFiniteSet(B) /\ Cardinality(B) = Cardinality(A \ {x}) + 1
    BY <2>1, <2>2, FS_AddElement
  <2> QED
    BY <1>1, <1>2, <2>2, <2>3
<1>3. CASE x \notin B
  <2>1. B = A \ {x}
    BY <1>3
  <2> QED
    BY <1>1, <1>3, <2>1, FS_RemoveElement, FS_CardinalityType
<1> QED
  BY <1>2, <1>3

(* Division with remainder has one result. *)
LEMMA RemainderUnique ==
  ASSUME NEW c \in Nat \ {0}, NEW h \in Nat, NEW d \in Nat, NEW r \in 0 .. c - 1,
         h = c * d + r
  PROVE  h % c = r
  OBVIOUS

(* A number is its quotient times the divisor, and its remainder. *)
LEMMA DivisionWithRemainder ==
  ASSUME NEW c \in Nat \ {0}, NEW h \in Nat
  PROVE  h % c \in 0 .. c - 1 /\ h \div c \in Nat /\ h = c * (h \div c) + (h % c)
  OBVIOUS

=============================================================================
