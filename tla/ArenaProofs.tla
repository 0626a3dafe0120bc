---------------------------- MODULE ArenaProofs -----------------------------
(* Theorems about Arena, for any sizes, any alignment, any number of addresses *)
(* and marks, and every sequence of calls.                                     *)
EXTENDS Arena, Induction, SequenceTheorems

-----------------------------------------------------------------------------
(* Sums.                                                                       *)

\* The first N elements of f are numbers.
Numbers(f, N) == \A i \in 1 .. N : f[i] \in Int

\* The values of g are the sums of the first elements of f.
AreSums(g, f, N) ==
    /\ g[0] = 0
    /\ \A n \in 1 .. N : g[n] = g[n - 1] + f[n]
    /\ \A n \in 0 .. N : SumTo(f, n) = g[n]

\* The sums of the first elements are the values of one function.
LEMMA SumsExist ==
    ASSUME NEW N \in Nat, NEW f, Numbers(f, N)
    PROVE  \E g \in [0 .. N -> Int] : AreSums(g, f, N)
<1> DEFINE IsSum(g, n) == g = [i \in 0 .. n |-> IF i = 0 THEN 0 ELSE g[i - 1] + f[i]]
<1>1. ASSUME NEW n \in 0 .. N
      PROVE  \E g \in [0 .. n -> Int] :
                IsSum(g, n) /\ g[0] = 0 /\ \A i \in 1 .. n : g[i] = g[i - 1] + f[i]
  <2> DEFINE step == [i \in 1 .. n |-> [v \in Int |-> v + f[i]]]
  <2>1. step \in [1 .. n -> [Int -> Int]] /\ n \in Nat
    BY DEF Numbers
  <2>2. \A i \in 1 .. n : \A v \in Int : step[i][v] = v + f[i]
    OBVIOUS
  <2> HIDE DEF step
  <2>3. PICK g \in [0 .. n -> Int] : Recursive(g, n, 0, step)
    <3>1. 0 \in Int
      OBVIOUS
    <3> QED
      BY <2>1, <3>1, IntervalRecursion, Zenon
  <2>4. g[0] = 0 /\ \A i \in 1 .. n : g[i] = g[i - 1] + f[i]
    <3>1. \A i \in 1 .. n : g[i - 1] \in Int
      BY <2>1
    <3> QED
      BY <2>2, <2>3, <3>1 DEF Recursive
  <2>5. IsSum(g, n)
    <3> DEFINE h == [i \in 0 .. n |-> IF i = 0 THEN 0 ELSE g[i - 1] + f[i]]
    <3>1. \A i \in 0 .. n : g[i] = h[i]
      BY <2>1, <2>4
    <3> QED
      BY <2>3, <3>1
  <2> QED
    BY <2>4, <2>5
<1>2. PICK g \in [0 .. N -> Int] : g[0] = 0 /\ \A i \in 1 .. N : g[i] = g[i - 1] + f[i]
  BY <1>1
<1>3. ASSUME NEW n \in 0 .. N
      PROVE  SumTo(f, n) = g[n]
  <2>1. \E h : IsSum(h, n)
    BY <1>1
  <2>2. PICK h : IsSum(h, n) /\ SumTo(f, n) = h[n]
    BY <2>1 DEF SumTo
  <2>3. n \in Nat /\ h[0] = 0 /\ \A i \in 1 .. n : h[i] = h[i - 1] + f[i]
    <3>1. h = [i \in 0 .. n |-> IF i = 0 THEN 0 ELSE h[i - 1] + f[i]]
      BY <2>2
    <3> QED
      BY <3>1
  <2> DEFINE S == {i \in 0 .. n : h[i] = g[i]}
  <2>4. 0 \in S
    BY <1>2, <2>3
  <2>5. \A i \in 0 .. n - 1 : i \in S => i + 1 \in S
    <3>1. ASSUME NEW i \in 0 .. n - 1, i \in S
          PROVE  i + 1 \in S
      <4>1. i + 1 \in 1 .. n /\ i + 1 \in 1 .. N /\ (i + 1) - 1 = i /\ i + 1 \in 0 .. n
        BY <2>3
      <4> QED
        BY <1>2, <2>3, <3>1, <4>1
    <3> QED
      BY <3>1
  <2> HIDE DEF S
  <2>6. n \in S
    <3>1. 0 .. n \subseteq S
      BY <2>3, <2>4, <2>5, IntervalInduction
    <3> QED
      BY <2>3, <3>1
  <2> QED
    BY <2>2, <2>6 DEF S
<1> QED
  BY <1>2, <1>3 DEF AreSums

\* A sum is the sum of one element less, and that element.
LEMMA SumToNext ==
    ASSUME NEW N \in Nat, NEW f, Numbers(f, N)
    PROVE  /\ SumTo(f, 0) = 0
           /\ \A n \in 0 .. N : SumTo(f, n) \in Int
           /\ \A n \in 0 .. N - 1 : SumTo(f, n + 1) = SumTo(f, n) + f[n + 1]
<1>1. PICK g \in [0 .. N -> Int] : AreSums(g, f, N)
  BY SumsExist
<1>2. ASSUME NEW n \in 0 .. N - 1
      PROVE  SumTo(f, n + 1) = SumTo(f, n) + f[n + 1]
  <2>1. n + 1 \in 1 .. N /\ n \in 0 .. N /\ n + 1 \in 0 .. N /\ (n + 1) - 1 = n
    OBVIOUS
  <2> QED
    BY <1>1, <2>1 DEF AreSums
<1> QED
  BY <1>1, <1>2 DEF AreSums

\* Equal elements have equal sums.
LEMMA SumSame ==
    ASSUME NEW N \in Nat, NEW f, Numbers(f, N), NEW g, \A i \in 1 .. N : g[i] = f[i]
    PROVE  SumTo(g, N) = SumTo(f, N)
<1> DEFINE S == {n \in 0 .. N : SumTo(g, n) = SumTo(f, n)}
<1>1. Numbers(g, N)
  BY DEF Numbers
<1>2. 0 \in S
  BY <1>1, SumToNext
<1>3. ASSUME NEW n \in 0 .. N - 1, n \in S
      PROVE  n + 1 \in S
  <2>1. n + 1 \in 1 .. N /\ n + 1 \in 0 .. N
    OBVIOUS
  <2>2. SumTo(g, n + 1) = SumTo(g, n) + g[n + 1] /\ SumTo(f, n + 1) = SumTo(f, n) + f[n + 1]
    BY <1>1, SumToNext
  <2> QED
    BY <1>3, <2>1, <2>2
<1> HIDE DEF S
<1>4. 0 .. N \subseteq S
  BY <1>2, <1>3, IntervalInduction
<1> QED
  BY <1>4 DEF S

\* Elements that are 0 add nothing.
LEMMA SumZeros ==
    ASSUME NEW N \in Nat, NEW f, Numbers(f, N), NEW k \in 0 .. N,
           \A i \in k + 1 .. N : f[i] = 0
    PROVE  SumTo(f, N) = SumTo(f, k)
<1> DEFINE S == {n \in 0 .. N : n >= k => SumTo(f, n) = SumTo(f, k)}
<1>1. 0 \in S
  OBVIOUS
<1>2. ASSUME NEW n \in 0 .. N - 1, n \in S
      PROVE  n + 1 \in S
  <2>1. n + 1 \in 0 .. N
    OBVIOUS
  <2>2. SumTo(f, n + 1) = SumTo(f, n) + f[n + 1] /\ SumTo(f, n) \in Int
    <3>1. n \in 0 .. N
      OBVIOUS
    <3> QED
      BY <3>1, SumToNext
  <2>3. CASE n >= k
    <3>1. f[n + 1] = 0
      BY <2>3
    <3> QED
      BY <1>2, <2>1, <2>2, <2>3, <3>1
  <2>4. CASE ~(n >= k)
    <3>1. n + 1 >= k => n + 1 = k
      BY <2>4
    <3> QED
      BY <2>1, <3>1
  <2> QED
    BY <2>3, <2>4
<1> HIDE DEF S
<1>3. 0 .. N \subseteq S
  BY <1>1, <1>2, IntervalInduction
<1> QED
  BY <1>3 DEF S

\* The sum changes by as much as the one element that does.
LEMMA SumChange ==
    ASSUME NEW N \in Nat, NEW f, Numbers(f, N), NEW g, NEW k \in 1 .. N, g[k] \in Int,
           \A i \in 1 .. N : i # k => g[i] = f[i]
    PROVE  SumTo(g, N) = SumTo(f, N) + g[k] - f[k]
<1> DEFINE S == {n \in 0 .. N : /\ n < k => SumTo(g, n) = SumTo(f, n)
                                /\ n >= k => SumTo(g, n) = SumTo(f, n) + g[k] - f[k]}
<1>1. Numbers(g, N)
  BY DEF Numbers
<1>2. 0 \in S
  BY <1>1, SumToNext
<1>3. ASSUME NEW n \in 0 .. N - 1, n \in S
      PROVE  n + 1 \in S
  <2>1. n + 1 \in 1 .. N /\ n + 1 \in 0 .. N /\ n \in 0 .. N
    OBVIOUS
  <2>2. SumTo(g, n + 1) = SumTo(g, n) + g[n + 1] /\ SumTo(f, n + 1) = SumTo(f, n) + f[n + 1]
    BY <1>1, SumToNext
  <2>3. SumTo(g, n) \in Int /\ SumTo(f, n) \in Int /\ f[k] \in Int /\ f[n + 1] \in Int
    BY <1>1, <2>1, SumToNext DEF Numbers
  <2>4. CASE n + 1 = k
    BY <1>3, <2>1, <2>2, <2>3, <2>4
  <2>5. CASE n + 1 # k
    <3>1. g[n + 1] = f[n + 1]
      BY <2>1, <2>5
    <3>2. (n + 1 < k => n < k) /\ (n + 1 >= k => n >= k)
      BY <2>5
    <3> QED
      BY <1>3, <2>1, <2>2, <2>3, <3>1, <3>2
  <2> QED
    BY <2>4, <2>5
<1> HIDE DEF S
<1>4. 0 .. N \subseteq S
  BY <1>2, <1>3, IntervalInduction
<1>5. N \in S /\ N >= k
  BY <1>4
<1> QED
  BY <1>5 DEF S

\* The sum grows by an element that is put between the others.
LEMMA SumInsert ==
    ASSUME NEW N \in Nat, NEW f, Numbers(f, N), NEW g, NEW k \in 1 .. N + 1, g[k] \in Int,
           \A i \in 1 .. k - 1 : g[i] = f[i],
           \A i \in k + 1 .. N + 1 : g[i] = f[i - 1]
    PROVE  Numbers(g, N + 1) /\ SumTo(g, N + 1) = SumTo(f, N) + g[k]
<1> DEFINE S == {n \in 0 .. N + 1 : /\ n < k => SumTo(g, n) = SumTo(f, n)
                                    /\ n >= k => SumTo(g, n) = SumTo(f, n - 1) + g[k]}
<1>1. Numbers(g, N + 1)
  <2>1. ASSUME NEW i \in 1 .. N + 1
        PROVE  g[i] \in Int
    <3>1. CASE i < k
      <4>1. i \in 1 .. k - 1 /\ i \in 1 .. N
        BY <3>1
      <4> QED
        BY <4>1 DEF Numbers
    <3>2. CASE i > k
      <4>1. i \in k + 1 .. N + 1 /\ i - 1 \in 1 .. N
        BY <3>2
      <4> QED
        BY <4>1 DEF Numbers
    <3> QED
      BY <3>1, <3>2
  <2> QED
    BY <2>1 DEF Numbers
<1>2. 0 \in S
  <2>1. SumTo(g, 0) = 0 /\ SumTo(f, 0) = 0
    BY <1>1, SumToNext
  <2> QED
    BY <2>1
<1>3. ASSUME NEW n \in 0 .. (N + 1) - 1, n \in S
      PROVE  n + 1 \in S
  <2>1. n + 1 \in 0 .. N + 1 /\ n \in 0 .. N + 1 /\ N + 1 \in Nat /\ n \in Nat /\ (n + 1) - 1 = n
    OBVIOUS
  <2>2. SumTo(g, n + 1) = SumTo(g, n) + g[n + 1]
    BY <1>1, <2>1, SumToNext
  <2>3. CASE n + 1 < k
    <3>1. n \in 0 .. N - 1 /\ n < k /\ n + 1 \in 1 .. k - 1
      BY <2>3
    <3>2. SumTo(f, n + 1) = SumTo(f, n) + f[n + 1]
      BY <3>1, SumToNext
    <3> QED
      BY <1>3, <2>1, <2>2, <2>3, <3>1, <3>2
  <2>4. CASE n + 1 = k
    BY <1>3, <2>1, <2>2, <2>4
  <2>5. CASE n + 1 > k
    <3>1. n - 1 \in 0 .. N - 1 /\ n >= k /\ n + 1 \in k + 1 .. N + 1 /\ (n - 1) + 1 = n
          /\ n - 1 \in 0 .. N /\ n \in 1 .. N
      BY <2>5
    <3>2. SumTo(f, n) = SumTo(f, n - 1) + f[n] /\ SumTo(f, n - 1) \in Int /\ f[n] \in Int
      BY <3>1, SumToNext DEF Numbers
    <3>3. g[n + 1] = f[n]
      BY <2>1, <3>1
    <3>4. SumTo(g, n) = SumTo(f, n - 1) + g[k]
      BY <1>3, <3>1
    <3>5. SumTo(g, n + 1) = SumTo(f, n) + g[k]
      BY <2>2, <3>2, <3>3, <3>4
    <3> QED
      BY <2>1, <2>5, <3>5
  <2> QED
    BY <2>3, <2>4, <2>5
<1> HIDE DEF S
<1>4. 0 .. N + 1 \subseteq S
  <2>1. PICK M \in Nat : M = N + 1
    OBVIOUS
  <2> QED
    BY <1>2, <1>3, <2>1, IntervalInduction
<1>5. N + 1 \in S /\ N + 1 >= k /\ (N + 1) - 1 = N
  BY <1>4
<1> QED
  BY <1>1, <1>5 DEF S

\* Sums of numbers that are not negative grow with their elements, and with more of
\* them.
LEMMA SumBelow ==
    ASSUME NEW N \in Nat, NEW f, NEW g, Numbers(f, N), Numbers(g, N),
           \A i \in 1 .. N : 0 <= f[i] /\ f[i] <= g[i], NEW k \in 0 .. N
    PROVE  /\ SumTo(f, k) \in Nat /\ SumTo(f, N) \in Nat
           /\ SumTo(f, k) <= SumTo(f, N) /\ SumTo(f, N) <= SumTo(g, N)
<1> DEFINE S == {n \in 0 .. N : /\ SumTo(f, n) >= 0 /\ SumTo(f, n) <= SumTo(g, n)
                                /\ n >= k => SumTo(f, k) <= SumTo(f, n)}
<1>0. \A n \in 0 .. N : SumTo(f, n) \in Int /\ SumTo(g, n) \in Int
  BY SumToNext
<1>1. 0 \in S
  <2>1. SumTo(f, 0) = 0 /\ SumTo(g, 0) = 0 /\ (0 >= k => k = 0)
    BY SumToNext
  <2> QED
    BY <2>1
<1>2. ASSUME NEW n \in 0 .. N - 1, n \in S
      PROVE  n + 1 \in S
  <2>1. n + 1 \in 1 .. N /\ n + 1 \in 0 .. N /\ n \in 0 .. N
    OBVIOUS
  <2>2. SumTo(g, n + 1) = SumTo(g, n) + g[n + 1] /\ SumTo(f, n + 1) = SumTo(f, n) + f[n + 1]
    BY SumToNext
  <2>3. /\ SumTo(f, n) \in Int /\ SumTo(g, n) \in Int /\ f[n + 1] \in Int /\ g[n + 1] \in Int
        /\ 0 <= f[n + 1] /\ f[n + 1] <= g[n + 1] /\ SumTo(f, k) \in Int
    BY <1>0, <2>1 DEF Numbers
  <2>4. SumTo(f, n + 1) >= 0 /\ SumTo(f, n + 1) <= SumTo(g, n + 1)
    BY <1>2, <2>2, <2>3
  <2>5. n + 1 >= k => SumTo(f, k) <= SumTo(f, n + 1)
    <3>1. CASE n >= k
      BY <1>2, <2>2, <2>3, <3>1
    <3>2. CASE n + 1 = k
      BY <2>2, <2>3, <3>2
    <3> QED
      BY <3>1, <3>2
  <2> QED
    BY <2>1, <2>4, <2>5
<1> HIDE DEF S
<1>3. 0 .. N \subseteq S
  BY <1>1, <1>2, IntervalInduction
<1>4. N \in S /\ k \in S /\ N >= k
  BY <1>3
<1> QED
  BY <1>0, <1>4 DEF S

-----------------------------------------------------------------------------
(* The inductive invariant.                                                    *)

Capacities(c) == [i \in DOMAIN c |-> c[i].capacity]

Useds(c) == [i \in DOMAIN c |-> c[i].used]

Counts(c) == [i \in DOMAIN c |-> c[i].count]

\* What the arena says of its blocks is what they are, whatever the caller does.
Ledger ==
    /\ blockCount = Len(chain)
    /\ capacity = Sum(Capacities(chain))

\* The blocks have different addresses, none is overfull, and those behind the
\* current one are empty; without a current one there are none.
ChainInv ==
    /\ current = 0 => chain = <<>>
    /\ \A i \in DOMAIN chain :
          /\ chain[i].used <= chain[i].capacity
          /\ i > current => chain[i].used = 0 /\ chain[i].count = 0
    /\ \A i, j \in DOMAIN chain : chain[i].addr = chain[j].addr => i = j

\* a and b share no byte.
Apart(a, b) == a.offset + a.size <= b.offset \/ b.offset + b.size <= a.offset

\* What the caller may use is aligned, in use and apart from the rest.
LiveInv ==
    /\ \A a \in live :
          /\ a.offset % Alignment = 0 /\ a.at <= serial
          /\ \E i \in 1 .. current : chain[i].addr = a.addr /\ a.offset + a.size <= chain[i].used
    /\ \A a, b \in live : a # b /\ a.addr = b.addr => Apart(a, b)

\* The block at address x of the chain c comes before the one at y, if both are there.
Before(c, x, y) == \A i, j \in DOMAIN c : c[i].addr = x /\ c[j].addr = y => i < j

\* Restoring m leaves alone all that was allocated before it, which lies in m's block
\* below m, or in a block before it.  It holds of outdated marks, too, whose block
\* may have been freed and another one put in its place.
Covers(m, a) ==
    /\ m.block # None
    /\ a.addr = m.block => a.offset + a.size <= m.used
    /\ a.addr # m.block => Before(chain, a.addr, m.block)

MarkInv ==
    \A s \in MarkSlots : marks[s] # None =>
        /\ marks[s].at <= serial /\ marks[s].life <= inits /\ marks[s].generation # 0
        /\ \A a \in live : a.at <= marks[s].at => Covers(marks[s], a)

GenerationInv == blockSize = 0 <=> generation = 0

\* An up-to-date mark is a state that the arena was in: its block is there and no
\* emptier than then, and the totals are those of the blocks up to it.
Exact(m) ==
    IF m.block = None THEN m.totalUsed = 0 /\ m.totalCount = 0
    ELSE \E j \in 1 .. current :
            /\ chain[j].addr = m.block /\ m.used <= chain[j].used /\ m.count <= chain[j].count
            /\ m.totalUsed = SumTo(Useds(chain), j - 1) + m.used
            /\ m.totalCount = SumTo(Counts(chain), j - 1) + m.count

\* The arena had at most as much in it when q was made as when m was.
Within(q, m) ==
    q.block # None =>
        /\ m.block # None
        /\ q.block = m.block => q.used <= m.used /\ q.count <= m.count
        /\ q.block # m.block => Before(chain, q.block, m.block)

UpToDate(s) == marks[s] # None /\ marks[s].ok = TRUE

StatsInv == careless = FALSE =>
    /\ used = Sum(Useds(chain)) /\ count = Sum(Counts(chain))
    /\ \A s \in MarkSlots : UpToDate(s) => Exact(marks[s])
    /\ \A s, q \in MarkSlots :
          UpToDate(s) /\ UpToDate(q) /\ marks[q].at <= marks[s].at => Within(marks[q], marks[s])

Inv ==
    /\ TypeOK /\ Ledger /\ ChainInv /\ LiveInv /\ MarkInv /\ GenerationInv /\ StatsInv

\* The generation counts the resets since the last arena_init, before it wraps.
ResetInv ==
    /\ blockSize # 0 => generation <= resets + 1
    /\ \A s \in MarkSlots : marks[s] # None /\ marks[s].life = inits /\ blockSize # 0 =>
          /\ generation - marks[s].generation = resets - marks[s].epoch

-----------------------------------------------------------------------------
(* Blocks and chains.                                                          *)

\* What the alignment does to an offset.
LEMMA AlignUpType ==
    ASSUME NEW n \in Nat
    PROVE  AlignUp(n) \in Nat /\ AlignUp(n) >= n /\ AlignUp(n) % Alignment = 0
<1>1. PICK c \in Nat \ {0} : c = Alignment
  BY ArenaAssumption
<1>2. PICK d \in Nat, r \in 0 .. c - 1 : d = n \div c /\ r = n % c /\ n = c * d + r
  BY DivisionWithRemainder
<1>3. CASE r = 0
  <2>1. AlignUp(n) = n
    BY <1>1, <1>2, <1>3 DEF AlignUp
  <2> QED
    BY <1>1, <1>2, <1>3, <2>1
<1>4. CASE r # 0
  <2>1. PICK h \in Nat : h = n + c - r
    BY <1>2
  <2>2. h = c * (d + 1) + 0 /\ d + 1 \in Nat /\ 0 \in 0 .. c - 1 /\ h >= n
    BY <1>2, <2>1
  <2>3. h % c = 0
    BY <2>2, RemainderUnique
  <2>4. AlignUp(n) = h
    BY <1>1, <1>2, <1>4, <2>1 DEF AlignUp
  <2> QED
    BY <1>1, <2>2, <2>3, <2>4
<1> QED
  BY <1>3, <1>4

\* The chain with u and n as what block i holds.
SetBlock(c, i, u, n) == [c EXCEPT ![i].used = u, ![i].count = n]

\* Only that block changes, and nothing of it but what it holds.
LEMMA SetBlockIs ==
    ASSUME NEW c \in Seq(Blocks), NEW i \in 1 .. Len(c), NEW u \in Bytes, NEW n \in Nat
    PROVE  LET d == SetBlock(c, i, u, n) IN
           /\ d \in Seq(Blocks) /\ Len(d) = Len(c) /\ DOMAIN d = 1 .. Len(c)
           /\ \A j \in 1 .. Len(c) :
                 /\ d[j].addr = c[j].addr /\ d[j].capacity = c[j].capacity
                 /\ d[j].used = IF j = i THEN u ELSE c[j].used
                 /\ d[j].count = IF j = i THEN n ELSE c[j].count
                 /\ j # i => d[j] = c[j]
<1>1. c[i] \in Blocks /\ DOMAIN c = 1 .. Len(c)
  BY LenProperties
<1>2. PICK b : b = [c[i] EXCEPT !.used = u, !.count = n]
  OBVIOUS
<1>3. /\ b \in Blocks /\ b.addr = c[i].addr /\ b.capacity = c[i].capacity
      /\ b.used = u /\ b.count = n
  BY <1>1, <1>2 DEF Blocks
<1>4. SetBlock(c, i, u, n) = [c EXCEPT ![i] = b]
  BY <1>1, <1>2 DEF SetBlock, Blocks
<1>5. /\ [c EXCEPT ![i] = b] \in Seq(Blocks) /\ Len([c EXCEPT ![i] = b]) = Len(c)
      /\ \A j \in 1 .. Len(c) : [c EXCEPT ![i] = b][j] = IF j = i THEN b ELSE c[j]
  BY <1>3, ExceptSeq
<1>6. DOMAIN [c EXCEPT ![i] = b] = 1 .. Len(c)
  BY <1>1
<1> QED
  BY <1>3, <1>4, <1>5, <1>6

\* A function on the first n numbers is a sequence.
LEMMA FunctionIsSeq ==
    ASSUME NEW S, NEW n \in Nat, NEW f \in [1 .. n -> S]
    PROVE  f \in Seq(S) /\ Len(f) = n
<1>1. f \in Seq(S)
  BY SeqDef, Zenon
<1> QED
  BY <1>1

\* A sequence of naturals is one of numbers.
LEMMA NaturalsAreNumbers ==
    ASSUME NEW n \in Nat, NEW f \in [1 .. n -> Nat]
    PROVE  Numbers(f, n)
  BY DEF Numbers

\* The columns of a chain.
LEMMA Columns ==
    ASSUME NEW c \in Seq(Blocks)
    PROVE  /\ Len(c) \in Nat /\ DOMAIN c = 1 .. Len(c)
           /\ \A j \in 1 .. Len(c) :
                 /\ c[j] \in Blocks
                 /\ c[j].addr \in Addresses /\ c[j].capacity \in Nat /\ c[j].used \in Nat
                 /\ c[j].count \in Nat
                 /\ Capacities(c)[j] = c[j].capacity /\ Useds(c)[j] = c[j].used
                 /\ Counts(c)[j] = c[j].count
           /\ Numbers(Capacities(c), Len(c)) /\ Numbers(Useds(c), Len(c))
           /\ Numbers(Counts(c), Len(c))
           /\ Sum(Capacities(c)) = SumTo(Capacities(c), Len(c))
           /\ Sum(Useds(c)) = SumTo(Useds(c), Len(c))
           /\ Sum(Counts(c)) = SumTo(Counts(c), Len(c))
<1>1. Len(c) \in Nat /\ DOMAIN c = 1 .. Len(c) /\ \A j \in 1 .. Len(c) : c[j] \in Blocks
  BY LenProperties
<1>2. \A j \in 1 .. Len(c) : /\ c[j].addr \in Addresses /\ c[j].capacity \in Nat
                             /\ c[j].used \in Nat /\ c[j].count \in Nat
  BY <1>1, ArenaAssumption DEF Blocks, Bytes
<1>3. /\ Capacities(c) \in [1 .. Len(c) -> Nat] /\ Useds(c) \in [1 .. Len(c) -> Nat]
      /\ Counts(c) \in [1 .. Len(c) -> Nat]
      /\ \A j \in 1 .. Len(c) : /\ Capacities(c)[j] = c[j].capacity
                                /\ Useds(c)[j] = c[j].used /\ Counts(c)[j] = c[j].count
  BY <1>1, <1>2 DEF Capacities, Useds, Counts
<1>4. /\ Len(Capacities(c)) = Len(c) /\ Len(Useds(c)) = Len(c) /\ Len(Counts(c)) = Len(c)
  BY <1>1, <1>3, FunctionIsSeq
<1>5. /\ Numbers(Capacities(c), Len(c)) /\ Numbers(Useds(c), Len(c))
      /\ Numbers(Counts(c), Len(c))
  BY <1>1, <1>3, NaturalsAreNumbers
<1> QED
  BY <1>1, <1>2, <1>3, <1>4, <1>5 DEF Sum

\* Chains that hold as much in their first k blocks have equal sums up to there.
LEMMA PrefixSums ==
    ASSUME NEW c \in Seq(Blocks), NEW d \in Seq(Blocks), NEW k \in 0 .. Len(c), k <= Len(d),
           \A j \in 1 .. k : d[j].used = c[j].used /\ d[j].count = c[j].count
    PROVE  SumTo(Useds(d), k) = SumTo(Useds(c), k) /\ SumTo(Counts(d), k) = SumTo(Counts(c), k)
<1>1. k \in Nat /\ \A j \in 1 .. k : j \in 1 .. Len(c) /\ j \in 1 .. Len(d)
  BY Columns
<1>2. \A j \in 1 .. k : Useds(d)[j] = Useds(c)[j] /\ Counts(d)[j] = Counts(c)[j]
  BY <1>1, Columns
<1>3. Numbers(Useds(c), k) /\ Numbers(Counts(c), k)
  BY <1>1, Columns DEF Numbers
<1> QED
  BY <1>1, <1>2, <1>3, SumSame

\* Empty blocks behind the k-th add nothing.
LEMMA EmptyTail ==
    ASSUME NEW c \in Seq(Blocks), NEW k \in 0 .. Len(c),
           \A j \in k + 1 .. Len(c) : c[j].used = 0 /\ c[j].count = 0
    PROVE  Sum(Useds(c)) = SumTo(Useds(c), k) /\ Sum(Counts(c)) = SumTo(Counts(c), k)
<1>1. \A j \in k + 1 .. Len(c) : j \in 1 .. Len(c)
  OBVIOUS
<1>2. \A j \in k + 1 .. Len(c) : Useds(c)[j] = 0 /\ Counts(c)[j] = 0
  BY <1>1, Columns
<1>3. /\ Len(c) \in Nat /\ Numbers(Useds(c), Len(c)) /\ Numbers(Counts(c), Len(c))
      /\ Sum(Useds(c)) = SumTo(Useds(c), Len(c)) /\ Sum(Counts(c)) = SumTo(Counts(c), Len(c))
  BY Columns
<1>4. SumTo(Useds(c), Len(c)) = SumTo(Useds(c), k) /\ SumTo(Counts(c), Len(c)) = SumTo(Counts(c), k)
  BY <1>2, <1>3, SumZeros
<1> QED
  BY <1>3, <1>4

\* What is used of the blocks is no more than there is room in them.
LEMMA UsedBelowCapacity ==
    ASSUME NEW c \in Seq(Blocks), \A j \in 1 .. Len(c) : c[j].used <= c[j].capacity
    PROVE  /\ Sum(Useds(c)) \in Nat /\ Sum(Counts(c)) \in Nat /\ Sum(Capacities(c)) \in Nat
           /\ Sum(Useds(c)) <= Sum(Capacities(c))
           /\ \A k \in 0 .. Len(c) : SumTo(Capacities(c), k) \in Nat
                                     /\ SumTo(Capacities(c), k) <= Sum(Capacities(c))
<1>1. PICK n \in Nat : n = Len(c)
  BY Columns
<1>2. /\ Numbers(Capacities(c), n) /\ Numbers(Useds(c), n) /\ Numbers(Counts(c), n)
      /\ Sum(Capacities(c)) = SumTo(Capacities(c), n) /\ Sum(Useds(c)) = SumTo(Useds(c), n)
      /\ Sum(Counts(c)) = SumTo(Counts(c), n)
  BY <1>1, Columns
<1>3. \A j \in 1 .. n : /\ 0 <= Useds(c)[j] /\ Useds(c)[j] <= Capacities(c)[j]
                        /\ 0 <= Counts(c)[j] /\ Counts(c)[j] <= Counts(c)[j]
                        /\ 0 <= Capacities(c)[j] /\ Capacities(c)[j] <= Capacities(c)[j]
  BY <1>1, Columns
<1>4. n \in 0 .. n
  OBVIOUS
<1>5. SumTo(Useds(c), n) \in Nat /\ SumTo(Useds(c), n) <= SumTo(Capacities(c), n)
  BY <1>2, <1>3, <1>4, SumBelow
<1>6. SumTo(Counts(c), n) \in Nat
  BY <1>2, <1>3, <1>4, SumBelow
<1>7. ASSUME NEW k \in 0 .. n
      PROVE  SumTo(Capacities(c), k) \in Nat /\ SumTo(Capacities(c), k) <= SumTo(Capacities(c), n)
  BY <1>2, <1>3, SumBelow
<1> QED
  BY <1>1, <1>2, <1>4, <1>5, <1>6, <1>7

\* The chains c and d have the same first n blocks, and d no address twice.
SameUpTo(n, c, d) ==
    /\ n \in Nat
    /\ \A j \in 1 .. n : j \in DOMAIN c /\ j \in DOMAIN d /\ d[j].addr = c[j].addr
    /\ \A j \in DOMAIN d : j \in Nat \ {0}
    /\ \A i, j \in DOMAIN d : d[i].addr = d[j].addr => i = j

\* The order of two blocks is kept if the chain is up to the first one.
LEMMA BeforeKept ==
    ASSUME NEW c, NEW d, NEW n, SameUpTo(n, c, d),
           NEW x, NEW y, Before(c, x, y), NEW k \in 1 .. n, c[k].addr = x
    PROVE  Before(d, x, y)
<1> SUFFICES ASSUME NEW i \in DOMAIN d, NEW j \in DOMAIN d, d[i].addr = x, d[j].addr = y
             PROVE  i < j
  BY DEF Before
<1>1. i = k /\ n \in Nat
  BY DEF SameUpTo
<1>2. CASE j \in 1 .. n
  <2>1. j \in DOMAIN c /\ c[j].addr = y /\ k \in DOMAIN c
    BY <1>2 DEF SameUpTo
  <2> QED
    BY <1>1, <2>1 DEF Before
<1>3. CASE j \notin 1 .. n
  <2>1. j \in Nat \ {0}
    BY DEF SameUpTo
  <2> QED
    BY <1>1, <1>3, <2>1
<1> QED
  BY <1>2, <1>3

-----------------------------------------------------------------------------
(* Allocation.                                                                 *)

\* c is the chain in whose block i size bytes are about to be taken.
Ready(c, i, size) ==
    /\ c \in Seq(Blocks) /\ Len(c) \in Bytes /\ Sum(Capacities(c)) \in Bytes
    /\ i \in 1 .. Len(c) /\ i \in {current, current + 1} /\ current <= Len(c)
    /\ \A j \in 1 .. current : c[j] = chain[j]
    /\ \A j \in 1 .. Len(c) :
          c[j].used <= c[j].capacity /\ (j > current => c[j].used = 0 /\ c[j].count = 0)
    /\ \A j, k \in 1 .. Len(c) : c[j].addr = c[k].addr => j = k
    /\ CanAllocate(c[i], size)

\* An allocation keeps the invariant, in whatever block it is made.
LEMMA BumpInv ==
    ASSUME Inv, NEW c, NEW i, NEW size \in Sizes, Ready(c, i, size), Allocating(size),
           Bump(c, i, size), blockCount' = Len(c), capacity' = Sum(Capacities(c))
    PROVE  Inv'
<1>1. /\ c \in Seq(Blocks) /\ Len(c) \in Nat /\ DOMAIN c = 1 .. Len(c) /\ i \in 1 .. Len(c)
      /\ chain \in Seq(Blocks) /\ DOMAIN chain = 1 .. Len(chain) /\ Len(chain) \in Nat
      /\ current \in 0 .. Len(chain) /\ current <= Len(c) /\ i \in {current, current + 1}
      /\ serial \in Nat /\ used \in Nat /\ count \in Nat
      /\ size \in Nat /\ size # 0 /\ SizeMax \in Nat
  BY Columns, ArenaAssumption DEF Inv, TypeOK, Ready, Bytes, Allocating
<1>2. PICK b \in Blocks : b = c[i]
  BY <1>1, Columns
<1>3. b.used \in Nat /\ b.capacity \in Bytes /\ b.count \in Nat /\ b.addr \in Addresses
  BY ArenaAssumption DEF Blocks, Bytes
<1>4. PICK base \in Nat : base = AlignUp(b.used) /\ base >= b.used /\ base % Alignment = 0
  BY <1>3, AlignUpType
<1>5. PICK top \in Nat : top = base + size
  BY <1>1
<1>6. top <= b.capacity /\ top \in Bytes /\ base \in Bytes /\ top > b.used
  <2>1. base <= b.capacity /\ size <= b.capacity - base
    BY <1>2, <1>4 DEF Ready, CanAllocate
  <2> QED
    BY <1>1, <1>3, <1>4, <1>5, <2>1 DEF Bytes
<1>7. PICK new : new = [addr |-> b.addr, offset |-> base, size |-> size, at |-> serial + 1]
  OBVIOUS
<1>8. /\ new.addr = b.addr /\ new.offset = base /\ new.size = size /\ new.at = serial + 1
      /\ new \in Allocations
  BY <1>1, <1>3, <1>6, <1>7, ArenaAssumption DEF Allocations, Bytes
<1>9. PICK d : d = SetBlock(c, i, top, b.count + 1)
  OBVIOUS
<1>10. /\ chain' = d /\ current' = i /\ count' = count + 1 /\ serial' = serial + 1
       /\ used' = (used + top - b.used) % (SizeMax + 1) /\ live' = live \cup {new}
       /\ UNCHANGED <<blockSize, generation, marks, inits, resets, careless>> /\ serial < MaxSerial
  BY <1>2, <1>4, <1>5, <1>7, <1>9 DEF Bump, SetBlock, Allocating
<1>11. /\ d \in Seq(Blocks) /\ Len(d) = Len(c) /\ DOMAIN d = 1 .. Len(c)
       /\ \A j \in 1 .. Len(c) :
             /\ d[j].addr = c[j].addr /\ d[j].capacity = c[j].capacity
             /\ d[j].used = IF j = i THEN top ELSE c[j].used
             /\ d[j].count = IF j = i THEN b.count + 1 ELSE c[j].count
  BY <1>1, <1>3, <1>6, <1>9, SetBlockIs
<1>12. TypeOK'
  <2>1. (used + top - b.used) % (SizeMax + 1) \in Bytes
    <3>1. PICK u \in Nat, m \in Nat \ {0} : u = used + top - b.used /\ m = SizeMax + 1
      BY <1>1, <1>3, <1>6
    <3>2. u % m \in 0 .. m - 1
      BY DivisionWithRemainder
    <3> QED
      BY <1>1, <3>1, <3>2 DEF Bytes
  <2>2. i \in 0 .. Len(d) /\ count + 1 \in Nat /\ serial + 1 \in 0 .. MaxSerial
    BY <1>1, <1>10, <1>11, ArenaAssumption
  <2>3. blockCount' \in Bytes /\ capacity' \in Bytes
    BY DEF Ready
  <2>4. live' \subseteq Allocations
    BY <1>8, <1>10 DEF Inv, TypeOK
  <2> QED
    BY <1>10, <1>11, <2>1, <2>2, <2>3, <2>4 DEF Inv, TypeOK
<1>13. Sum(Capacities(d)) = Sum(Capacities(c))
  <2>1. \A j \in 1 .. Len(c) : Capacities(d)[j] = Capacities(c)[j]
    BY <1>1, <1>11, Columns
  <2>2. SumTo(Capacities(d), Len(c)) = SumTo(Capacities(c), Len(c))
    BY <1>1, <2>1, Columns, SumSame
  <2> QED
    BY <1>1, <1>11, <2>2, Columns
<1>14. Ledger'
  BY <1>10, <1>11, <1>13 DEF Ledger
<1>15. ChainInv'
  <2>1. i # 0 /\ \A j \in 1 .. Len(c) : j > i => j > current /\ j # i
    BY <1>1
  <2>2. ASSUME NEW j \in 1 .. Len(c)
        PROVE  d[j].used <= d[j].capacity /\ (j > i => d[j].used = 0 /\ d[j].count = 0)
    BY <1>2, <1>6, <1>11, <2>1 DEF Ready
  <2>3. \A j, k \in 1 .. Len(c) : d[j].addr = d[k].addr => j = k
    BY <1>11 DEF Ready
  <2> QED
    BY <1>10, <1>11, <2>1, <2>2, <2>3 DEF ChainInv
<1>16. ASSUME NEW a \in live
       PROVE  \E k \in 1 .. current :
                 /\ k \in 1 .. i /\ k \in 1 .. Len(c) /\ chain[k] = c[k] /\ c[k].addr = a.addr
                 /\ a.offset + a.size <= c[k].used /\ a.offset + a.size <= d[k].used
  <2>1. PICK k \in 1 .. current : chain[k].addr = a.addr /\ a.offset + a.size <= chain[k].used
    BY DEF Inv, LiveInv
  <2>2. k \in 1 .. i /\ k \in 1 .. Len(c) /\ chain[k] = c[k]
    BY <1>1 DEF Ready
  <2>3. a.offset \in Nat /\ a.size \in Nat /\ c[k].used \in Nat
    BY <1>1, <2>2, Columns DEF Inv, TypeOK, Allocations, Bytes
  <2>4. a.offset + a.size <= d[k].used
    <3>1. CASE k = i
      BY <1>2, <1>3, <1>6, <1>11, <2>1, <2>2, <2>3, <3>1
    <3>2. CASE k # i
      BY <1>11, <2>1, <2>2, <3>2
    <3> QED
      BY <3>1, <3>2
  <2> QED
    BY <2>1, <2>2, <2>4
<1>17. LiveInv'
  <2>1. ASSUME NEW a \in live
        PROVE  /\ a.offset % Alignment = 0 /\ a.at <= serial + 1
               /\ \E k \in 1 .. i : d[k].addr = a.addr /\ a.offset + a.size <= d[k].used
               /\ a.addr = new.addr => a.offset + a.size <= new.offset
    <3>1. a.offset % Alignment = 0 /\ a.at <= serial /\ a.at \in Nat /\ a.offset \in Nat /\ a.size \in Nat
      BY DEF Inv, LiveInv, TypeOK, Allocations, Bytes
    <3>2. PICK k \in 1 .. current :
             /\ k \in 1 .. i /\ k \in 1 .. Len(c) /\ c[k].addr = a.addr
             /\ a.offset + a.size <= c[k].used /\ a.offset + a.size <= d[k].used
      BY <1>16
    <3>3. d[k].addr = a.addr
      BY <1>11, <3>2
    <3>4. ASSUME a.addr = new.addr
          PROVE  a.offset + a.size <= new.offset
      <4>1. k = i
        BY <1>1, <1>2, <1>8, <3>2, <3>4 DEF Ready
      <4> QED
        BY <1>2, <1>3, <1>4, <1>8, <3>1, <3>2, <4>1
    <3> QED
      BY <1>1, <3>1, <3>2, <3>3, <3>4
  <2>2. /\ new.offset % Alignment = 0 /\ new.at <= serial + 1 /\ i \in 1 .. i
        /\ d[i].addr = new.addr /\ new.offset + new.size <= d[i].used
    BY <1>1, <1>2, <1>4, <1>5, <1>8, <1>11
  <2>3. ASSUME NEW a \in live \cup {new}, NEW e \in live \cup {new}, a # e, a.addr = e.addr
        PROVE  Apart(a, e)
    <3>1. CASE a \in live /\ e \in live
      BY <2>3, <3>1 DEF Inv, LiveInv
    <3>2. CASE a = new /\ e \in live
      BY <2>1, <2>3, <3>2 DEF Apart
    <3>3. CASE a \in live /\ e = new
      BY <2>1, <2>3, <3>3 DEF Apart
    <3> QED
      BY <2>3, <3>1, <3>2, <3>3
  <2> QED
    BY <1>10, <2>1, <2>2, <2>3 DEF LiveInv, Apart
<1>18. SameUpTo(current, chain, d)
  <2>1. current \in Nat /\ \A j \in DOMAIN d : j \in Nat \ {0}
    BY <1>1, <1>11
  <2>2. \A j \in 1 .. current : j \in DOMAIN chain /\ j \in DOMAIN d /\ d[j].addr = chain[j].addr
    BY <1>1, <1>11 DEF Ready
  <2>3. \A j, k \in DOMAIN d : d[j].addr = d[k].addr => j = k
    BY <1>11 DEF Ready
  <2> QED
    BY <2>1, <2>2, <2>3 DEF SameUpTo
<1>19. MarkInv'
  <2> SUFFICES ASSUME NEW s \in MarkSlots, marks[s] # None
               PROVE  /\ marks[s].at <= serial + 1 /\ marks[s].life <= inits
                      /\ marks[s].generation # 0
                      /\ \A a \in live \cup {new} : a.at <= marks[s].at => Covers(marks[s], a)'
    BY <1>10 DEF MarkInv
  <2>1. /\ marks[s].at <= serial /\ marks[s].life <= inits /\ marks[s].generation # 0
        /\ marks[s].at \in Nat
    BY DEF Inv, MarkInv, TypeOK, Marks
  <2>2. ASSUME NEW a \in live, a.at <= marks[s].at
        PROVE  Covers(marks[s], a)'
    <3>1. Covers(marks[s], a)
      BY <2>2 DEF Inv, MarkInv
    <3>2. ASSUME a.addr # marks[s].block
          PROVE  Before(d, a.addr, marks[s].block)
      <4>1. Before(chain, a.addr, marks[s].block)
        BY <3>1, <3>2 DEF Covers
      <4>2. PICK k \in 1 .. current : chain[k].addr = a.addr
        BY <1>16
      <4> QED
        BY <1>18, <4>1, <4>2, BeforeKept
    <3> QED
      BY <1>10, <3>1, <3>2 DEF Covers
  <2>3. ~(new.at <= marks[s].at)
    BY <1>1, <1>8, <2>1
  <2> QED
    BY <1>1, <2>1, <2>2, <2>3
<1>20. GenerationInv'
  BY <1>10 DEF Inv, GenerationInv
<1>21. StatsInv'
  <2> SUFFICES ASSUME careless = FALSE
               PROVE  StatsInv'
    BY <1>10 DEF StatsInv
  <2>1. used = Sum(Useds(chain)) /\ count = Sum(Counts(chain))
    BY DEF Inv, StatsInv
  <2>2. Sum(Useds(c)) = used /\ Sum(Counts(c)) = count
    <3>1. \A j \in current + 1 .. Len(c) : j \in 1 .. Len(c) /\ j > current
      BY <1>1
    <3>2. Sum(Useds(c)) = SumTo(Useds(c), current) /\ Sum(Counts(c)) = SumTo(Counts(c), current)
      BY <1>1, <3>1, EmptyTail DEF Ready
    <3>3. \A j \in current + 1 .. Len(chain) : j \in DOMAIN chain /\ j > current
      BY <1>1
    <3>4. /\ Sum(Useds(chain)) = SumTo(Useds(chain), current)
          /\ Sum(Counts(chain)) = SumTo(Counts(chain), current)
      BY <1>1, <3>3, EmptyTail DEF Inv, ChainInv
    <3>5. current \in 0 .. Len(c)
      BY <1>1
    <3>6. /\ SumTo(Useds(chain), current) = SumTo(Useds(c), current)
          /\ SumTo(Counts(chain), current) = SumTo(Counts(c), current)
      BY <1>1, <3>5, PrefixSums DEF Ready
    <3> QED
      BY <2>1, <3>2, <3>4, <3>6
  <2>3. Sum(Useds(d)) = used + top - b.used /\ Sum(Counts(d)) = count + 1
    <3>1. /\ \A j \in 1 .. Len(c) : j # i => Useds(d)[j] = Useds(c)[j] /\ Counts(d)[j] = Counts(c)[j]
          /\ Useds(d)[i] = top /\ Useds(c)[i] = b.used
          /\ Counts(d)[i] = b.count + 1 /\ Counts(c)[i] = b.count
      <4>1. \A j \in 1 .. Len(c) : /\ Useds(d)[j] = d[j].used /\ Useds(c)[j] = c[j].used
                                   /\ Counts(d)[j] = d[j].count /\ Counts(c)[j] = c[j].count
        BY <1>1, <1>11, Columns
      <4> QED
        BY <1>1, <1>2, <1>11, <4>1
    <3>2. Numbers(Useds(c), Len(c)) /\ Numbers(Counts(c), Len(c))
      BY <1>1, Columns
    <3>3. Useds(d)[i] \in Int /\ Counts(d)[i] \in Int
      BY <1>3, <1>6, <3>1
    <3>4. SumTo(Useds(d), Len(c)) = SumTo(Useds(c), Len(c)) + Useds(d)[i] - Useds(c)[i]
      <4>1. /\ Numbers(Useds(c), Len(c)) /\ Useds(d)[i] \in Int
            /\ \A j \in 1 .. Len(c) : j # i => Useds(d)[j] = Useds(c)[j]
        BY <3>1, <3>2, <3>3
      <4> QED
        BY <1>1, <4>1, SumChange
    <3>5. SumTo(Counts(d), Len(c)) = SumTo(Counts(c), Len(c)) + Counts(d)[i] - Counts(c)[i]
      <4>1. /\ Numbers(Counts(c), Len(c)) /\ Counts(d)[i] \in Int
            /\ \A j \in 1 .. Len(c) : j # i => Counts(d)[j] = Counts(c)[j]
        BY <3>1, <3>2, <3>3
      <4> QED
        BY <1>1, <4>1, SumChange
    <3>6. /\ Sum(Useds(d)) = used + top - b.used
          /\ Sum(Counts(d)) = count + (b.count + 1) - b.count
      BY <1>1, <1>11, <2>2, <3>1, <3>4, <3>5, Columns
    <3> QED
      BY <1>1, <1>3, <3>6
  <2>4. used' = Sum(Useds(d)) /\ count' = Sum(Counts(d))
    <3>1. \A j \in 1 .. Len(d) : d[j].used <= d[j].capacity
      BY <1>10, <1>11, <1>15 DEF ChainInv
    <3>2. Sum(Useds(d)) \in Nat /\ Sum(Useds(d)) <= SizeMax
      <4>1. Sum(Useds(d)) \in Nat /\ Sum(Useds(d)) <= Sum(Capacities(d))
        BY <1>11, <3>1, UsedBelowCapacity
      <4>2. Sum(Capacities(c)) \in Nat /\ Sum(Capacities(c)) <= SizeMax
        BY <1>1 DEF Ready, Bytes
      <4> QED
        BY <1>1, <1>13, <4>1, <4>2
    <3>3. PICK u \in Nat, m \in Nat \ {0} : u = Sum(Useds(d)) /\ m = SizeMax + 1
      BY <1>1, <3>2
    <3>4. u \in 0 .. m - 1 /\ u = m * 0 + u
      BY <1>1, <3>2, <3>3
    <3>5. u % m = u
      BY <3>4, RemainderUnique
    <3> QED
      BY <1>10, <2>3, <3>3, <3>5
  <2>5. ASSUME NEW s \in MarkSlots, UpToDate(s)
        PROVE  Exact(marks[s])'
    <3>1. Exact(marks[s])
      BY <2>5 DEF Inv, StatsInv
    <3>2. CASE marks[s].block = None
      BY <1>10, <3>1, <3>2 DEF Exact
    <3>3. CASE marks[s].block # None
      <4>1. PICK j \in 1 .. current :
               /\ chain[j].addr = marks[s].block /\ marks[s].used <= chain[j].used
               /\ marks[s].count <= chain[j].count
               /\ marks[s].totalUsed = SumTo(Useds(chain), j - 1) + marks[s].used
               /\ marks[s].totalCount = SumTo(Counts(chain), j - 1) + marks[s].count
        BY <3>1, <3>3 DEF Exact
      <4>2. j \in 1 .. i /\ j \in 1 .. Len(c) /\ c[j] = chain[j] /\ j - 1 \in 0 .. Len(chain) /\ j - 1 <= Len(d)
        BY <1>1, <1>11 DEF Ready
      <4>3. marks[s].used \in Nat /\ marks[s].count \in Nat /\ c[j].used \in Nat /\ c[j].count \in Nat
        <5>1. marks[s] \in Marks
          BY <2>5 DEF Inv, TypeOK, UpToDate
        <5>2. marks[s].used \in Nat /\ marks[s].count \in Nat
          BY <5>1, ArenaAssumption DEF Marks, Bytes
        <5> QED
          BY <1>1, <4>2, <5>2, Columns
      <4>4. d[j].addr = marks[s].block /\ marks[s].used <= d[j].used /\ marks[s].count <= d[j].count
        <5>1. CASE j = i
          <6>1. /\ c[j].used = b.used /\ c[j].count = b.count
                /\ d[j].used = top /\ d[j].count = b.count + 1 /\ d[j].addr = c[j].addr
            BY <1>2, <1>11, <4>2, <5>1
          <6> QED
            BY <1>3, <1>6, <4>1, <4>2, <4>3, <6>1
        <5>2. CASE j # i
          BY <1>11, <4>1, <4>2, <5>2
        <5> QED
          BY <5>1, <5>2
      <4>5. \A k \in 1 .. j - 1 : k # i /\ k \in 1 .. Len(c) /\ c[k] = chain[k]
        BY <1>1, <4>2 DEF Ready
      <4>6. \A k \in 1 .. j - 1 : d[k].used = chain[k].used /\ d[k].count = chain[k].count
        BY <1>11, <4>5
      <4>7. /\ SumTo(Useds(d), j - 1) = SumTo(Useds(chain), j - 1)
            /\ SumTo(Counts(d), j - 1) = SumTo(Counts(chain), j - 1)
        BY <1>1, <1>11, <4>2, <4>6, PrefixSums
      <4> QED
        BY <1>10, <3>3, <4>1, <4>2, <4>4, <4>7 DEF Exact
    <3> QED
      BY <3>2, <3>3
  <2>6. ASSUME NEW s \in MarkSlots, NEW q \in MarkSlots, UpToDate(s), UpToDate(q),
               marks[q].at <= marks[s].at
        PROVE  Within(marks[q], marks[s])'
    <3>1. Within(marks[q], marks[s]) /\ Exact(marks[q])
      BY <2>6 DEF Inv, StatsInv
    <3>2. ASSUME marks[q].block # None, marks[q].block # marks[s].block
          PROVE  Before(d, marks[q].block, marks[s].block)
      <4>1. Before(chain, marks[q].block, marks[s].block)
        BY <3>1, <3>2 DEF Within
      <4>2. PICK k \in 1 .. current : chain[k].addr = marks[q].block
        BY <3>1, <3>2 DEF Exact
      <4> QED
        BY <1>18, <4>1, <4>2, BeforeKept
    <3> QED
      BY <1>10, <3>1, <3>2 DEF Within
  <2> QED
    BY <1>10, <2>4, <2>5, <2>6 DEF StatsInv, UpToDate
<1> QED
  BY <1>12, <1>14, <1>15, <1>17, <1>19, <1>20, <1>21 DEF Inv

\* The chain is ready for what fits into one of its blocks that is next to be filled.
LEMMA ChainReady ==
    ASSUME Inv, NEW size, NEW i \in {current, current + 1}, i \in DOMAIN chain,
           CanAllocate(chain[i], size)
    PROVE  /\ Ready(chain, i, size) /\ Len(chain) = blockCount /\ Sum(Capacities(chain)) = capacity
<1>1. /\ chain \in Seq(Blocks) /\ DOMAIN chain = 1 .. Len(chain) /\ Len(chain) \in Nat
      /\ current \in 0 .. Len(chain)
  BY Columns DEF Inv, TypeOK
<1>2. /\ Len(chain) = blockCount /\ Sum(Capacities(chain)) = capacity
      /\ blockCount \in Bytes /\ capacity \in Bytes
  BY DEF Inv, Ledger, TypeOK
<1>3. /\ \A j \in 1 .. Len(chain) :
            /\ chain[j].used <= chain[j].capacity
            /\ j > current => chain[j].used = 0 /\ chain[j].count = 0
      /\ \A j, k \in 1 .. Len(chain) : chain[j].addr = chain[k].addr => j = k
  BY <1>1 DEF Inv, ChainInv
<1> QED
  BY <1>1, <1>2, <1>3 DEF Ready

\* A block put behind the k-th one moves those behind it on.
LEMMA InsertedBlock ==
    ASSUME NEW c \in Seq(Blocks), NEW k \in 0 .. Len(c), NEW b \in Blocks
    PROVE  LET d == SubSeq(c, 1, k) \o <<b>> \o SubSeq(c, k + 1, Len(c)) IN
           /\ d \in Seq(Blocks) /\ Len(d) = Len(c) + 1
           /\ \A j \in 1 .. Len(c) + 1 :
                 d[j] = IF j <= k THEN c[j] ELSE IF j = k + 1 THEN b ELSE c[j - 1]
<1>1. PICK n \in Nat : n = Len(c)
  BY LenProperties
<1>2. PICK s : s = SubSeq(c, 1, k)
  OBVIOUS
<1>3. PICK t : t = SubSeq(c, k + 1, n)
  OBVIOUS
<1>4. \A j \in 1 .. n : c[j] \in Blocks
  BY <1>1, LenProperties
<1>5. s \in Seq(Blocks) /\ Len(s) = k /\ \A j \in 1 .. k : s[j] = c[j]
  <2>1. k \in Int /\ 1 \in Int /\ \A j \in 1 .. k : c[j] \in Blocks
    BY <1>1, <1>4
  <2>2. /\ s \in Seq(Blocks) /\ Len(s) = IF 1 <= k THEN k - 1 + 1 ELSE 0
        /\ \A j \in 1 .. k - 1 + 1 : s[j] = c[1 + j - 1]
    BY <1>2, <2>1, SubSeqProperties
  <2> QED
    BY <1>1, <2>1, <2>2
<1>6. t \in Seq(Blocks) /\ Len(t) = n - k /\ \A j \in 1 .. n - k : t[j] = c[k + j]
  <2>1. PICK m \in Int : m = k + 1
    BY <1>1
  <2>2. n \in Int /\ \A j \in m .. n : c[j] \in Blocks
    BY <1>1, <1>4, <2>1
  <2>3. /\ t \in Seq(Blocks) /\ Len(t) = IF m <= n THEN n - m + 1 ELSE 0
        /\ \A j \in 1 .. n - m + 1 : t[j] = c[m + j - 1]
    BY <1>3, <2>1, <2>2, SubSeqProperties
  <2>4. \A j \in 1 .. n - k : j \in 1 .. n - m + 1 /\ m + j - 1 = k + j
    BY <1>1, <2>1
  <2> QED
    BY <1>1, <2>1, <2>3, <2>4
<1>7. PICK u : u = <<b>>
  OBVIOUS
<1>8. u \in Seq(Blocks) /\ Len(u) = 1 /\ u[1] = b
  BY <1>7
<1>9. PICK v : v = s \o u
  OBVIOUS
<1>10. /\ v \in Seq(Blocks) /\ Len(v) = k + 1
       /\ \A j \in 1 .. k + 1 : v[j] = IF j <= k THEN c[j] ELSE b
  <2>1. /\ v \in Seq(Blocks) /\ Len(v) = Len(s) + Len(u)
        /\ \A j \in 1 .. Len(s) + Len(u) : v[j] = IF j <= Len(s) THEN s[j] ELSE u[j - Len(s)]
    BY <1>5, <1>8, <1>9, ConcatProperties
  <2> QED
    BY <1>1, <1>5, <1>8, <2>1
<1>11. PICK d : d = v \o t
  OBVIOUS
<1>12. /\ d \in Seq(Blocks) /\ Len(d) = n + 1
       /\ \A j \in 1 .. n + 1 : d[j] = IF j <= k + 1 THEN v[j] ELSE t[j - (k + 1)]
  <2>1. /\ d \in Seq(Blocks) /\ Len(d) = Len(v) + Len(t)
        /\ \A j \in 1 .. Len(v) + Len(t) : d[j] = IF j <= Len(v) THEN v[j] ELSE t[j - Len(v)]
    BY <1>6, <1>10, <1>11, ConcatProperties
  <2> QED
    BY <1>1, <1>6, <1>10, <2>1
<1>13. ASSUME NEW j \in 1 .. n + 1
       PROVE  d[j] = IF j <= k THEN c[j] ELSE IF j = k + 1 THEN b ELSE c[j - 1]
  <2>1. CASE j <= k + 1
    <3>1. j \in 1 .. k + 1
      BY <2>1
    <3> QED
      BY <1>1, <1>10, <1>12, <2>1, <3>1
  <2>2. CASE j > k + 1
    <3>1. PICK m \in 1 .. n - k : m = j - (k + 1) /\ k + m = j - 1
      BY <1>1, <2>2
    <3>2. d[j] = t[m] /\ t[m] = c[k + m] /\ ~(j <= k) /\ j # k + 1
      BY <1>1, <1>6, <1>12, <2>2, <3>1
    <3> QED
      BY <3>1, <3>2
  <2> QED
    BY <1>1, <2>1, <2>2
<1> QED
  BY <1>1, <1>2, <1>3, <1>7, <1>9, <1>11, <1>12, <1>13

\* So is the chain with a new block, whatever freed address malloc gives it.
LEMMA NewBlockReady ==
    ASSUME Inv, NEW size \in Sizes, NEW a \in Free, CanAdd(size)
    PROVE  LET c == WithBlock(a, size) IN
           /\ Ready(c, current + 1, size) /\ Len(c) = blockCount + 1
           /\ Sum(Capacities(c)) = capacity + NewBlockCapacity(size)
<1>1. /\ chain \in Seq(Blocks) /\ DOMAIN chain = 1 .. Len(chain) /\ Len(chain) \in Nat
      /\ current \in 0 .. Len(chain) /\ a \in Addresses
      /\ Len(chain) = blockCount /\ Sum(Capacities(chain)) = capacity
      /\ blockCount \in Nat /\ capacity \in Nat /\ SizeMax \in Nat /\ blockCount <= SizeMax
  BY Columns, ArenaAssumption DEF Inv, Ledger, TypeOK, Free, Bytes
<1>2. PICK cap : cap = NewBlockCapacity(size)
  OBVIOUS
<1>3. size \in Nat /\ cap \in Bytes /\ cap \in Nat /\ size <= cap
  <2>1. blockSize \in Nat /\ blockSize <= SizeMax /\ size \in Nat /\ Alignment \in Nat \ {0}
    BY <1>1, ArenaAssumption DEF Inv, TypeOK
  <2>2. RequiredCapacity(size) \in Nat /\ size <= RequiredCapacity(size) /\ RequiredCapacity(size) <= SizeMax
    BY <2>1 DEF RequiredCapacity, CanAdd
  <2> QED
    BY <1>1, <1>2, <2>1, <2>2 DEF NewBlockCapacity, Bytes
<1>4. PICK b : b = NewBlock(a, size)
  OBVIOUS
<1>5. /\ b \in Blocks /\ b.addr = a /\ b.capacity = cap /\ b.used = 0 /\ b.count = 0
  <2>1. 0 \in Bytes /\ 0 \in Nat
    BY <1>1 DEF Bytes
  <2>2. PICK o \in BOOLEAN : o = Oversized(cap)
    BY DEF Oversized
  <2>3. b = [addr |-> a, capacity |-> cap, used |-> 0, count |-> 0, oversized |-> o]
    BY <1>2, <1>4, <2>2 DEF NewBlock
  <2> QED
    BY <1>1, <1>3, <2>1, <2>2, <2>3 DEF Blocks
<1>6. PICK c : c = WithBlock(a, size)
  OBVIOUS
<1>7. /\ c \in Seq(Blocks) /\ Len(c) = Len(chain) + 1
      /\ \A j \in 1 .. Len(chain) + 1 :
            c[j] = IF j <= current THEN chain[j] ELSE IF j = current + 1 THEN b ELSE chain[j - 1]
  <2>1. c = SubSeq(chain, 1, current) \o <<b>> \o SubSeq(chain, current + 1, Len(chain))
    BY <1>4, <1>6 DEF WithBlock
  <2> QED
    BY <1>1, <1>5, <2>1, InsertedBlock
<1>8. PICK n \in Nat, k \in Nat : n = Len(chain) /\ k = current /\ k <= n
  BY <1>1
<1>9. ASSUME NEW j \in 1 .. n + 1
      PROVE  \/ j \in 1 .. k /\ c[j] = chain[j]
             \/ j = k + 1 /\ c[j] = b
             \/ j > k + 1 /\ j - 1 \in 1 .. n /\ c[j] = chain[j - 1]
  BY <1>7, <1>8
<1>10. Sum(Capacities(c)) = capacity + cap
  <2>1. /\ Numbers(Capacities(chain), n) /\ Sum(Capacities(chain)) = SumTo(Capacities(chain), n)
        /\ Sum(Capacities(c)) = SumTo(Capacities(c), n + 1)
        /\ \A j \in 1 .. n : Capacities(chain)[j] = chain[j].capacity
        /\ \A j \in 1 .. n + 1 : Capacities(c)[j] = c[j].capacity
    BY <1>1, <1>7, <1>8, Columns
  <2>2. k + 1 \in 1 .. n + 1 /\ Capacities(c)[k + 1] = cap
    BY <1>5, <1>7, <1>8, <2>1
  <2>3. \A j \in 1 .. k : Capacities(c)[j] = Capacities(chain)[j]
    BY <1>7, <1>8, <2>1
  <2>4. \A j \in k + 2 .. n + 1 : Capacities(c)[j] = Capacities(chain)[j - 1]
    <3>1. ASSUME NEW j \in k + 2 .. n + 1
          PROVE  Capacities(c)[j] = Capacities(chain)[j - 1]
      <4>1. j \in 1 .. n + 1 /\ j - 1 \in 1 .. n /\ ~(j <= k) /\ j # k + 1
        OBVIOUS
      <4> QED
        BY <1>7, <1>8, <2>1, <4>1
    <3> QED
      BY <3>1
  <2>5. PICK p \in 1 .. n + 1 : p = k + 1
    BY <2>2
  <2>6. /\ \A j \in 1 .. p - 1 : Capacities(c)[j] = Capacities(chain)[j]
        /\ \A j \in p + 1 .. n + 1 : Capacities(c)[j] = Capacities(chain)[j - 1]
        /\ Capacities(c)[p] = cap /\ cap \in Int
    BY <1>3, <2>2, <2>3, <2>4, <2>5
  <2>7. SumTo(Capacities(c), n + 1) = SumTo(Capacities(chain), n) + Capacities(c)[p]
    BY <2>1, <2>6, SumInsert
  <2> QED
    BY <1>1, <2>1, <2>6, <2>7
<1>11. Len(c) \in Bytes /\ Sum(Capacities(c)) \in Bytes
  BY <1>1, <1>2, <1>3, <1>7, <1>10 DEF CanAdd, Bytes
<1>12. \A j \in 1 .. n + 1 :
          c[j].used <= c[j].capacity /\ (j > k => c[j].used = 0 /\ c[j].count = 0)
  <2>1. \A j \in 1 .. n : /\ chain[j].used <= chain[j].capacity
                          /\ j > k => chain[j].used = 0 /\ chain[j].count = 0
    BY <1>1, <1>8 DEF Inv, ChainInv
  <2>2. ASSUME NEW j \in 1 .. n + 1
        PROVE  c[j].used <= c[j].capacity /\ (j > k => c[j].used = 0 /\ c[j].count = 0)
    <3>1. CASE j \in 1 .. k /\ c[j] = chain[j]
      <4>1. j \in 1 .. n /\ ~(j > k)
        BY <1>8, <3>1
      <4> QED
        BY <2>1, <3>1, <4>1
    <3>2. CASE j = k + 1 /\ c[j] = b
      BY <1>3, <1>5, <3>2
    <3>3. CASE j > k + 1 /\ j - 1 \in 1 .. n /\ c[j] = chain[j - 1]
      <4>1. j - 1 > k
        BY <3>3
      <4> QED
        BY <2>1, <3>3, <4>1
    <3> QED
      BY <1>9, <3>1, <3>2, <3>3
  <2> QED
    BY <2>2
<1>13. ASSUME NEW i \in 1 .. n + 1, NEW j \in 1 .. n + 1, c[i].addr = c[j].addr
       PROVE  i = j
  <2>1. /\ \A x \in 1 .. n : chain[x].addr # a
        /\ \A x, y \in 1 .. n : chain[x].addr = chain[y].addr => x = y
    BY <1>1, <1>8 DEF Inv, ChainInv, Free, InChain
  <2>2. DEFINE Old(x) == IF x <= k THEN x ELSE x - 1
  <2>3. ASSUME NEW x \in 1 .. n + 1, x # k + 1
        PROVE  Old(x) \in 1 .. n /\ c[x] = chain[Old(x)]
    <3>1. CASE x \in 1 .. k /\ c[x] = chain[x]
      BY <1>8, <3>1
    <3>2. CASE x > k + 1 /\ x - 1 \in 1 .. n /\ c[x] = chain[x - 1]
      BY <1>8, <3>2
    <3> QED
      BY <1>9, <2>3, <3>1, <3>2
  <2>4. CASE i = k + 1 \/ j = k + 1
    BY <1>5, <1>9, <1>13, <2>1, <2>3, <2>4
  <2>5. CASE i # k + 1 /\ j # k + 1
    <3>1. Old(i) = Old(j)
      <4> HIDE DEF Old
      <4> QED
        BY <1>13, <2>1, <2>3, <2>5
    <3> QED
      BY <2>5, <3>1
  <2> QED
    BY <2>4, <2>5
<1>14. CanAllocate(c[k + 1], size)
  <2>1. AlignUp(0) = 0
    <3>1. PICK al \in Nat \ {0} : al = Alignment
      BY ArenaAssumption
    <3>2. 0 % al = 0
      <4>1. 0 \in 0 .. al - 1 /\ 0 = al * 0 + 0
        OBVIOUS
      <4> QED
        BY <4>1, RemainderUnique
    <3> QED
      BY <3>1, <3>2 DEF AlignUp
  <2>2. c[k + 1] = b
    BY <1>7, <1>8
  <2> QED
    BY <1>1, <1>3, <1>5, <2>1, <2>2 DEF CanAllocate, AlignUpFits
<1>15. \A j \in 1 .. current : c[j] = chain[j]
  BY <1>7, <1>8
<1>16. Ready(c, current + 1, size)
  <2>1. current + 1 \in 1 .. Len(c) /\ current <= Len(c) /\ Len(c) = n + 1
    BY <1>7, <1>8
  <2> QED
    BY <1>7, <1>8, <1>11, <1>12, <1>13, <1>14, <1>15, <2>1 DEF Ready
<1> QED
  BY <1>1, <1>2, <1>6, <1>7, <1>10, <1>16

\* Allocation keeps the invariant.
LEMMA AllocInv ==
    ASSUME Inv, NEW size \in Sizes,
           AllocCurrent(size) \/ AllocNext(size) \/ \E a \in Addresses : AllocNew(size, a)
    PROVE  Inv'
<1>1. /\ chain \in Seq(Blocks) /\ DOMAIN chain = 1 .. Len(chain) /\ Len(chain) \in Nat
      /\ current \in 0 .. Len(chain)
  BY Columns DEF Inv, TypeOK
<1>2. CASE AllocCurrent(size)
  <2>1. /\ current \in DOMAIN chain /\ CanAllocate(chain[current], size) /\ Allocating(size)
        /\ Bump(chain, current, size) /\ blockCount' = blockCount /\ capacity' = capacity
    BY <1>1, <1>2 DEF AllocCurrent, FitsCurrent
  <2>2. /\ Ready(chain, current, size) /\ Len(chain) = blockCount
        /\ Sum(Capacities(chain)) = capacity
    BY <2>1, ChainReady
  <2>3. PICK c, i : c = chain /\ i = current
    OBVIOUS
  <2>4. /\ Ready(c, i, size) /\ Bump(c, i, size) /\ blockCount' = Len(c)
        /\ capacity' = Sum(Capacities(c))
    BY <2>1, <2>2, <2>3
  <2> QED
    BY <2>1, <2>4, BumpInv
<1>3. CASE AllocNext(size)
  <2>1. /\ current + 1 \in DOMAIN chain /\ CanAllocate(chain[current + 1], size) /\ Allocating(size)
        /\ Bump(chain, current + 1, size) /\ blockCount' = blockCount /\ capacity' = capacity
    BY <1>1, <1>3 DEF AllocNext, FitsNext
  <2>2. /\ Ready(chain, current + 1, size) /\ Len(chain) = blockCount
        /\ Sum(Capacities(chain)) = capacity
    BY <2>1, ChainReady
  <2>3. PICK c, i : c = chain /\ i = current + 1
    OBVIOUS
  <2>4. /\ Ready(c, i, size) /\ Bump(c, i, size) /\ blockCount' = Len(c)
        /\ capacity' = Sum(Capacities(c))
    BY <2>1, <2>2, <2>3
  <2> QED
    BY <2>1, <2>4, BumpInv
<1>4. ASSUME NEW a \in Addresses, AllocNew(size, a)
      PROVE  Inv'
  <2>1. /\ a \in Free /\ CanAdd(size) /\ Allocating(size)
        /\ Bump(WithBlock(a, size), current + 1, size)
        /\ blockCount' = blockCount + 1 /\ capacity' = capacity + NewBlockCapacity(size)
    BY <1>4 DEF AllocNew
  <2>2. PICK c, i : c = WithBlock(a, size) /\ i = current + 1
    OBVIOUS
  <2>3. /\ Ready(c, i, size) /\ Len(c) = blockCount + 1
        /\ Sum(Capacities(c)) = capacity + NewBlockCapacity(size)
    BY <2>1, <2>2, NewBlockReady
  <2>4. Bump(c, i, size) /\ blockCount' = Len(c) /\ capacity' = Sum(Capacities(c))
    BY <2>1, <2>2, <2>3
  <2> QED
    BY <2>1, <2>3, <2>4, BumpInv
<1> QED
  BY <1>2, <1>3, <1>4

-----------------------------------------------------------------------------
(* The other operations.                                                       *)

\* What the empty chain adds up to.
LEMMA EmptyChain ==
    /\ <<>> \in Seq(Blocks) /\ Len(<<>>) = 0 /\ DOMAIN <<>> = {}
    /\ Sum(Capacities(<<>>)) = 0 /\ Sum(Useds(<<>>)) = 0 /\ Sum(Counts(<<>>)) = 0
<1>1. PICK c \in Seq(Blocks) : c = <<>> /\ Len(c) = 0 /\ DOMAIN c = {}
  <2>1. <<>> \in Seq(Blocks) /\ Len(<<>>) = 0 /\ DOMAIN <<>> = {}
    BY EmptySeq
  <2> QED
    BY <2>1
<1>2. \A f : SumTo(f, 0) = 0
  <2>1. ASSUME NEW f
        PROVE  SumTo(f, 0) = 0
    <3>1. 0 \in Nat /\ Numbers(f, 0)
      BY DEF Numbers
    <3> QED
      BY <3>1, SumToNext
  <2> QED
    BY <2>1
<1> QED
  BY <1>1, <1>2, Columns

\* The invariant holds at first.
LEMMA InitInv == Init => Inv
<1> SUFFICES ASSUME Init
             PROVE  Inv
  OBVIOUS
<1>1. /\ blockSize = 0 /\ chain = <<>> /\ current = 0 /\ blockCount = 0 /\ capacity = 0
      /\ used = 0 /\ count = 0 /\ generation = 0 /\ marks = [s \in MarkSlots |-> None]
      /\ live = {} /\ serial = 0 /\ inits = 0 /\ resets = 0 /\ careless \in BOOLEAN
  BY DEF Init
<1>2. /\ 0 \in Bytes /\ 0 \in 0 .. Generations - 1 /\ 0 \in 0 .. MaxSerial
      /\ 0 \in 0 .. MaxInits /\ 0 \in 0 .. MaxResets
  BY ArenaAssumption DEF Bytes
<1>3. chain \in Seq(Blocks) /\ current \in 0 .. Len(chain)
  BY <1>1, EmptyChain
<1>4. marks \in [MarkSlots -> Marks \cup {None}] /\ \A s \in MarkSlots : marks[s] = None
  BY <1>1
<1>5. TypeOK
  BY <1>1, <1>2, <1>3, <1>4 DEF TypeOK
<1>6. Ledger /\ ChainInv
  BY <1>1, EmptyChain DEF Ledger, ChainInv
<1>7. LiveInv /\ MarkInv /\ GenerationInv
  BY <1>1, <1>4 DEF LiveInv, MarkInv, GenerationInv
<1>8. StatsInv
  BY <1>1, <1>4, EmptyChain DEF StatsInv, UpToDate
<1> QED
  BY <1>5, <1>6, <1>7, <1>8 DEF Inv

\* A new arena starts with the generation 1.
LEMMA ArenaInitInv ==
    ASSUME Inv, NEW size \in BlockSizes, arena_init(size)
    PROVE  Inv'
<1>1. /\ blockSize' = size /\ generation' = 1 /\ inits' = inits + 1 /\ inits < MaxInits
      /\ UNCHANGED <<chain, current, blockCount, capacity, used, count, marks, live, serial,
                     resets, careless>>
  BY DEF arena_init
<1>2. size # 0 /\ 1 \in 0 .. Generations - 1 /\ inits + 1 \in 0 .. MaxInits /\ inits \in Nat
  BY <1>1, ArenaAssumption DEF Inv, TypeOK
<1>3. TypeOK'
  BY <1>1, <1>2 DEF Inv, TypeOK
<1>4. Ledger' /\ ChainInv' /\ LiveInv' /\ GenerationInv'
  BY <1>1, <1>2 DEF Inv, Ledger, ChainInv, LiveInv, GenerationInv
<1>5. MarkInv'
  <2> SUFFICES ASSUME NEW s \in MarkSlots, marks[s] # None
               PROVE  /\ marks[s].at <= serial /\ marks[s].life <= inits + 1
                      /\ marks[s].generation # 0
                      /\ \A a \in live : a.at <= marks[s].at => Covers(marks[s], a)'
    BY <1>1 DEF MarkInv
  <2>1. marks[s].life \in Nat
    BY DEF Inv, TypeOK, Marks
  <2>2. /\ marks[s].at <= serial /\ marks[s].life <= inits /\ marks[s].generation # 0
        /\ \A a \in live : a.at <= marks[s].at => Covers(marks[s], a)
    BY DEF Inv, MarkInv
  <2> QED
    BY <1>1, <1>2, <2>1, <2>2 DEF Covers
<1>6. StatsInv'
  BY <1>1 DEF Inv, StatsInv, UpToDate, Exact, Within
<1> QED
  BY <1>3, <1>4, <1>5, <1>6 DEF Inv

\* A mark covers all that is live, and is exact.
LEMMA MarkKeepsInv ==
    ASSUME Inv, NEW s \in MarkSlots, arena_mark(s)
    PROVE  Inv'
<1>1. /\ chain \in Seq(Blocks) /\ DOMAIN chain = 1 .. Len(chain) /\ Len(chain) \in Nat
      /\ current \in 0 .. Len(chain) /\ current \in Nat /\ serial \in Nat /\ generation \in Nat
      /\ used \in Bytes /\ count \in Nat /\ inits \in Nat /\ resets \in Nat /\ SizeMax \in Nat
      /\ marks \in [MarkSlots -> Marks \cup {None}] /\ live \subseteq Allocations
      /\ generation # 0 /\ serial < MaxSerial
      /\ \A j \in 1 .. current : j \in 1 .. Len(chain)
  BY Columns, ArenaAssumption DEF Inv, TypeOK, GenerationInv, arena_mark
<1>2. PICK m : m = [block |-> IF current = 0 THEN None ELSE chain[current].addr,
                    used |-> IF current = 0 THEN 0 ELSE chain[current].used,
                    count |-> IF current = 0 THEN 0 ELSE chain[current].count,
                    totalUsed |-> used, totalCount |-> count, generation |-> generation,
                    life |-> inits, epoch |-> resets, at |-> serial + 1, ok |-> TRUE]
  OBVIOUS
<1>3. /\ current = 0 => m.block = None /\ m.used = 0 /\ m.count = 0
      /\ current # 0 => /\ m.block = chain[current].addr /\ m.used = chain[current].used
                        /\ m.count = chain[current].count
      /\ m.totalUsed = used /\ m.totalCount = count /\ m.generation = generation
      /\ m.life = inits /\ m.epoch = resets /\ m.at = serial + 1 /\ m.ok = TRUE
  BY <1>2
<1>4. m \in Marks
  <2>1. current # 0 => chain[current] \in Blocks
    BY <1>1
  <2>2. 0 \in Bytes
    BY <1>1 DEF Bytes
  <2>3. PICK k, u, n : /\ k = IF current = 0 THEN None ELSE chain[current].addr
                       /\ u = IF current = 0 THEN 0 ELSE chain[current].used
                       /\ n = IF current = 0 THEN 0 ELSE chain[current].count
    OBVIOUS
  <2>4. k \in Addresses \cup {None} /\ u \in Bytes /\ n \in Nat
    BY <2>1, <2>2, <2>3 DEF Blocks
  <2>5. m = [block |-> k, used |-> u, count |-> n, totalUsed |-> used, totalCount |-> count,
             generation |-> generation, life |-> inits, epoch |-> resets, at |-> serial + 1,
             ok |-> TRUE]
    BY <1>2, <2>3
  <2> QED
    BY <1>1, <2>4, <2>5 DEF Marks
<1>5. /\ serial' = serial + 1 /\ marks' = [marks EXCEPT ![s] = m]
      /\ UNCHANGED <<blockSize, chain, current, blockCount, capacity, used, count, generation,
                     live, inits, resets, careless>>
  BY <1>2 DEF arena_mark, arena
<1>6. /\ marks' \in [MarkSlots -> Marks \cup {None}] /\ marks'[s] = m
      /\ \A q \in MarkSlots : q # s => marks'[q] = marks[q]
  BY <1>1, <1>4, <1>5
<1>7. TypeOK'
  <2>1. serial + 1 \in 0 .. MaxSerial
    BY <1>1, ArenaAssumption
  <2> QED
    BY <1>5, <1>6, <2>1 DEF Inv, TypeOK
<1>8. Ledger' /\ ChainInv' /\ GenerationInv'
  BY <1>5 DEF Inv, Ledger, ChainInv, GenerationInv
<1>9. LiveInv'
  <2>1. \A a \in live : a.at \in Nat /\ a.at <= serial
    BY <1>1 DEF Inv, LiveInv, Allocations
  <2>2. \A a \in live : a.at <= serial + 1
    BY <1>1, <2>1
  <2> QED
    BY <1>5, <2>2 DEF Inv, LiveInv, Apart
<1>10. ASSUME NEW k \in 1 .. current
       PROVE  /\ current # 0 /\ m.block # None
              /\ chain[k].addr = m.block => k = current
              /\ chain[k].addr # m.block => Before(chain, chain[k].addr, m.block)
  <2>1. current \in 1 .. Len(chain) /\ k \in 1 .. Len(chain) /\ current # 0
    BY <1>1
  <2>2. m.block # None
    BY <1>1, <1>3, <2>1, Columns, ArenaAssumption
  <2>3. \A i, j \in 1 .. Len(chain) : chain[i].addr = chain[j].addr => i = j
    BY <1>1 DEF Inv, ChainInv
  <2>4. ASSUME chain[k].addr # m.block, NEW i \in 1 .. Len(chain), NEW j \in 1 .. Len(chain),
               chain[i].addr = chain[k].addr, chain[j].addr = m.block
        PROVE  i < j
    <3>1. i = k /\ j = current /\ k # current
      BY <1>3, <2>1, <2>3, <2>4
    <3> QED
      BY <1>1, <3>1
  <2> QED
    BY <1>1, <1>3, <2>1, <2>2, <2>3, <2>4 DEF Before
<1>11. ASSUME NEW a \in live
       PROVE  Covers(m, a)
  <2>1. PICK k \in 1 .. current : chain[k].addr = a.addr /\ a.offset + a.size <= chain[k].used
    BY DEF Inv, LiveInv
  <2> QED
    BY <1>3, <1>10, <2>1 DEF Covers
<1>12. MarkInv'
  <2> SUFFICES ASSUME NEW q \in MarkSlots, marks'[q] # None
               PROVE  /\ marks'[q].at <= serial + 1 /\ marks'[q].life <= inits
                      /\ marks'[q].generation # 0
                      /\ \A a \in live : a.at <= marks'[q].at => Covers(marks[q], a)'
    BY <1>5 DEF MarkInv
  <2>1. CASE q = s
    BY <1>1, <1>3, <1>5, <1>6, <1>11, <2>1 DEF Covers
  <2>2. CASE q # s
    <3>1. marks'[q] = marks[q] /\ marks[q].at \in Nat
      BY <1>6, <2>2 DEF Inv, TypeOK, Marks
    <3>2. /\ marks[q].at <= serial /\ marks[q].life <= inits /\ marks[q].generation # 0
          /\ \A a \in live : a.at <= marks[q].at => Covers(marks[q], a)
      BY <3>1 DEF Inv, MarkInv
    <3> QED
      BY <1>1, <1>5, <3>1, <3>2 DEF Covers
  <2> QED
    BY <2>1, <2>2
<1>13. ASSUME careless = FALSE
       PROVE  Exact(m)
  <2>1. used = Sum(Useds(chain)) /\ count = Sum(Counts(chain))
    BY <1>13 DEF Inv, StatsInv
  <2>2. CASE current = 0
    <3>1. chain = <<>>
      BY <2>2 DEF Inv, ChainInv
    <3> QED
      BY <1>3, <2>1, <2>2, <3>1, EmptyChain DEF Exact
  <2>3. CASE current # 0
    <3>1. PICK n \in Nat, k \in Nat : n = Len(chain) /\ k = current /\ k \in 1 .. n
      <4>1. current \in 1 .. Len(chain)
        BY <1>1, <2>3
      <4> QED
        BY <1>1, <4>1
    <3>2. \A j \in k + 1 .. n : chain[j].used = 0 /\ chain[j].count = 0
      <4>1. \A j \in k + 1 .. n : j \in 1 .. n /\ j > k
        BY <3>1
      <4> QED
        BY <1>1, <3>1, <4>1 DEF Inv, ChainInv
    <3>3. k \in 0 .. n /\ k - 1 \in 0 .. n - 1 /\ (k - 1) + 1 = k
      BY <3>1
    <3>4. Sum(Useds(chain)) = SumTo(Useds(chain), k) /\ Sum(Counts(chain)) = SumTo(Counts(chain), k)
      BY <1>1, <3>1, <3>2, <3>3, EmptyTail
    <3>5. /\ Numbers(Useds(chain), n) /\ Numbers(Counts(chain), n)
          /\ Useds(chain)[k] = chain[k].used /\ Counts(chain)[k] = chain[k].count
      BY <1>1, <3>1, Columns
    <3>6. /\ SumTo(Useds(chain), k) = SumTo(Useds(chain), k - 1) + chain[k].used
          /\ SumTo(Counts(chain), k) = SumTo(Counts(chain), k - 1) + chain[k].count
      BY <3>3, <3>5, SumToNext
    <3>7. chain[k].used <= chain[k].used /\ chain[k].count <= chain[k].count
      BY <1>1, <3>1, Columns
    <3>8. m.block # None /\ k \in 1 .. current
      BY <1>1, <1>10, <3>1
    <3>9. /\ chain[k].addr = m.block /\ m.used = chain[k].used /\ m.count = chain[k].count
          /\ m.totalUsed = SumTo(Useds(chain), k - 1) + m.used
          /\ m.totalCount = SumTo(Counts(chain), k - 1) + m.count
      BY <1>3, <2>1, <2>3, <3>1, <3>4, <3>6
    <3> QED
      BY <3>7, <3>8, <3>9 DEF Exact
  <2> QED
    BY <2>2, <2>3
<1>14. StatsInv'
  <2> SUFFICES ASSUME careless = FALSE
               PROVE  StatsInv'
    BY <1>5 DEF StatsInv
  <2>1. used = Sum(Useds(chain)) /\ count = Sum(Counts(chain))
    BY DEF Inv, StatsInv
  <2>2. ASSUME NEW q \in MarkSlots, UpToDate(q)'
        PROVE  Exact(marks[q])' /\ (q # s => UpToDate(q) /\ Exact(marks[q]))
    <3>1. CASE q = s
      BY <1>5, <1>6, <1>13, <3>1 DEF Exact
    <3>2. CASE q # s
      <4>1. UpToDate(q)
        BY <1>6, <2>2, <3>2 DEF UpToDate
      <4>2. Exact(marks[q])
        BY <4>1 DEF Inv, StatsInv
      <4> QED
        BY <1>5, <1>6, <3>2, <4>1, <4>2 DEF Exact
    <3> QED
      BY <3>1, <3>2
  <2>3. ASSUME NEW r \in MarkSlots, NEW q \in MarkSlots, UpToDate(r)', UpToDate(q)',
               marks'[q].at <= marks'[r].at
        PROVE  Within(marks[q], marks[r])'
    <3>1. CASE q = s /\ r # s
      <4>1. UpToDate(r) /\ marks'[r] = marks[r]
        BY <1>6, <2>2, <2>3, <3>1
      <4>2. marks[r].at \in Nat /\ marks[r].at <= serial
        BY <4>1 DEF Inv, TypeOK, Marks, MarkInv, UpToDate
      <4> QED
        BY <1>1, <1>3, <1>6, <2>3, <3>1, <4>1, <4>2
    <3>2. CASE q # s /\ r = s
      <4>1. UpToDate(q) /\ Exact(marks[q]) /\ marks'[q] = marks[q] /\ marks'[r] = m
        BY <1>6, <2>2, <2>3, <3>2
      <4>2. ASSUME marks[q].block # None
            PROVE  /\ m.block # None
                   /\ marks[q].block = m.block => marks[q].used <= m.used /\ marks[q].count <= m.count
                   /\ marks[q].block # m.block => Before(chain, marks[q].block, m.block)
        <5>1. PICK j \in 1 .. current :
                 /\ chain[j].addr = marks[q].block
                 /\ marks[q].used <= chain[j].used /\ marks[q].count <= chain[j].count
          BY <4>1, <4>2 DEF Exact
        <5> QED
          BY <1>3, <1>10, <5>1
      <4> QED
        BY <1>5, <4>1, <4>2 DEF Within
    <3>3. CASE q = s /\ r = s
      <4>1. m.used <= m.used /\ m.count <= m.count
        BY <1>4, ArenaAssumption DEF Marks, Bytes
      <4> QED
        BY <1>6, <3>3, <4>1 DEF Within
    <3>4. CASE q # s /\ r # s
      <4>1. UpToDate(q) /\ UpToDate(r) /\ marks'[q] = marks[q] /\ marks'[r] = marks[r]
        BY <1>6, <2>2, <2>3, <3>4
      <4>2. Within(marks[q], marks[r])
        BY <2>3, <4>1 DEF Inv, StatsInv
      <4> QED
        BY <1>5, <4>1, <4>2 DEF Within
    <3> QED
      BY <3>1, <3>2, <3>3, <3>4
  <2> QED
    BY <1>5, <2>1, <2>2, <2>3 DEF StatsInv
<1> QED
  BY <1>7, <1>8, <1>9, <1>12, <1>14 DEF Inv

\* The first i blocks of a chain, the last of which holds u and n.
Cut(c, i, u, n) == [SubSeq(c, 1, i) EXCEPT ![i].used = u, ![i].count = n]

\* Nothing else of them changes.
IsCut(d, c, i, u, n) ==
    /\ d \in Seq(Blocks) /\ Len(d) = i /\ DOMAIN d = 1 .. i
    /\ \A j \in 1 .. i :
          /\ d[j].addr = c[j].addr /\ d[j].capacity = c[j].capacity
          /\ d[j].used = IF j = i THEN u ELSE c[j].used
          /\ d[j].count = IF j = i THEN n ELSE c[j].count

\* That is what cutting the chain comes to.
LEMMA Truncated ==
    ASSUME NEW c \in Seq(Blocks), NEW i \in 1 .. Len(c), NEW u \in Bytes, NEW n \in Nat
    PROVE  IsCut(Cut(c, i, u, n), c, i, u, n)
<1>1. i \in Nat /\ i # 0 /\ \A j \in 1 .. i : c[j] \in Blocks
  BY Columns
<1>2. PICK t : t = SubSeq(c, 1, i)
  OBVIOUS
<1>3. t \in Seq(Blocks) /\ Len(t) = i /\ \A j \in 1 .. i : t[j] = c[j]
  <2>1. /\ t \in Seq(Blocks) /\ Len(t) = IF 1 <= i THEN i - 1 + 1 ELSE 0
        /\ \A j \in 1 .. i - 1 + 1 : t[j] = c[1 + j - 1]
    BY <1>1, <1>2, SubSeqProperties
  <2> QED
    BY <1>1, <2>1
<1>4. i \in 1 .. Len(t)
  BY <1>1, <1>3
<1>5. PICK e : e = SetBlock(t, i, u, n)
  OBVIOUS
<1>6. /\ e \in Seq(Blocks) /\ Len(e) = Len(t) /\ DOMAIN e = 1 .. Len(t)
      /\ \A j \in 1 .. Len(t) :
            /\ e[j].addr = t[j].addr /\ e[j].capacity = t[j].capacity
            /\ e[j].used = IF j = i THEN u ELSE t[j].used
            /\ e[j].count = IF j = i THEN n ELSE t[j].count
  BY <1>3, <1>4, <1>5, SetBlockIs
<1>7. Cut(c, i, u, n) = e
  BY <1>2, <1>5 DEF SetBlock, Cut
<1> QED
  BY <1>3, <1>6, <1>7 DEF IsCut

\* q is the mark m, up to whether it may still be used.
SameMark(q, m) ==
    /\ q.block = m.block /\ q.used = m.used /\ q.count = m.count
    /\ q.totalUsed = m.totalUsed /\ q.totalCount = m.totalCount /\ q.generation = m.generation
    /\ q.life = m.life /\ q.epoch = m.epoch /\ q.at = m.at

\* Forbidding the use of a mark changes nothing else of it.
LEMMA MarkForbidden ==
    ASSUME NEW m \in Marks, NEW b \in BOOLEAN
    PROVE  LET q == [m EXCEPT !.ok = b] IN q \in Marks /\ SameMark(q, m) /\ q.ok = b
  BY DEF Marks, SameMark

\* What restoring s, or an arena_reset or arena_destroy, does to the marks: forbid
\* the use of those that are not to be kept.
LEMMA MarksForbidden ==
    ASSUME marks \in [MarkSlots -> Marks \cup {None}], NEW keep \in [MarkSlots -> BOOLEAN],
           marks' = [q \in MarkSlots |-> IF marks[q] = None THEN None
                                         ELSE [marks[q] EXCEPT !.ok = marks[q].ok /\ keep[q]]]
    PROVE  /\ marks' \in [MarkSlots -> Marks \cup {None}]
           /\ \A q \in MarkSlots : marks'[q] # None =>
                 /\ marks[q] # None /\ SameMark(marks'[q], marks[q])
                 /\ marks'[q].ok = TRUE => marks[q].ok = TRUE /\ keep[q] = TRUE
<1>1. ASSUME NEW q \in MarkSlots, marks[q] # None
      PROVE  /\ [marks[q] EXCEPT !.ok = marks[q].ok /\ keep[q]] \in Marks
             /\ SameMark([marks[q] EXCEPT !.ok = marks[q].ok /\ keep[q]], marks[q])
             /\ [marks[q] EXCEPT !.ok = marks[q].ok /\ keep[q]].ok = TRUE
                   => marks[q].ok = TRUE /\ keep[q] = TRUE
  <2>1. marks[q] \in Marks
    BY <1>1
  <2>2. marks[q].ok \in BOOLEAN /\ keep[q] \in BOOLEAN
    BY <2>1 DEF Marks
  <2>3. PICK b \in BOOLEAN : b = (marks[q].ok /\ keep[q])
    BY <2>2
  <2>4. [marks[q] EXCEPT !.ok = marks[q].ok /\ keep[q]] = [marks[q] EXCEPT !.ok = b]
    BY <2>3
  <2>5. b = TRUE => marks[q].ok = TRUE /\ keep[q] = TRUE
    BY <2>2, <2>3
  <2> QED
    BY <2>1, <2>4, <2>5, MarkForbidden
<1>2. ASSUME NEW q \in MarkSlots
      PROVE  marks'[q] = IF marks[q] = None THEN None
                         ELSE [marks[q] EXCEPT !.ok = marks[q].ok /\ keep[q]]
  OBVIOUS
<1>3. marks' \in [MarkSlots -> Marks \cup {None}]
  <2>1. \A q \in MarkSlots : (IF marks[q] = None THEN None
                              ELSE [marks[q] EXCEPT !.ok = marks[q].ok /\ keep[q]])
                             \in Marks \cup {None}
    BY <1>1
  <2> QED
    BY <2>1
<1> QED
  BY <1>1, <1>2, <1>3

\* The chain that restoring m leaves: the blocks up to the marked one, which holds
\* what it did.
LEMMA RestoredIs ==
    ASSUME Inv, NEW m \in Marks, Accepts(m), NEW d, d = RestoredChain(m)
    PROVE  /\ d \in Seq(Blocks) /\ Len(d) \in Nat /\ Len(d) <= Len(chain) /\ DOMAIN d = 1 .. Len(d)
           /\ \A j \in 1 .. Len(d) :
                 /\ j \in 1 .. Len(chain)
                 /\ d[j].addr = chain[j].addr /\ d[j].capacity = chain[j].capacity
                 /\ d[j].used = IF j = Len(d) THEN m.used ELSE chain[j].used
                 /\ d[j].count = IF j = Len(d) THEN m.count ELSE chain[j].count
           /\ m.block = None => d = <<>> /\ Len(d) = 0 /\ m.totalUsed = 0 /\ m.totalCount = 0
           /\ m.block # None => /\ Len(d) # 0 /\ Len(d) \in 1 .. Len(chain)
                                /\ chain[Len(d)].addr = m.block
                                /\ m.used <= chain[Len(d)].used /\ m.count <= chain[Len(d)].count
<1>1. /\ chain \in Seq(Blocks) /\ DOMAIN chain = 1 .. Len(chain) /\ Len(chain) \in Nat
      /\ m.used \in Bytes /\ m.count \in Nat
  BY Columns DEF Inv, TypeOK, Marks
<1>2. CASE m.block = None
  <2>1. d = <<>> /\ m.totalUsed = 0 /\ m.totalCount = 0
    <3>1. m.block \notin Addresses
      BY <1>2, ArenaAssumption
    <3>2. ~InChain(m.block)
      BY <1>1, <3>1, Columns DEF InChain
    <3> QED
      BY <1>2, <3>2 DEF RestoredChain, Accepts
  <2>2. d \in Seq(Blocks) /\ Len(d) = 0 /\ DOMAIN d = {}
    BY <2>1, EmptyChain
  <2> QED
    BY <1>1, <1>2, <2>1, <2>2
<1>3. CASE m.block # None
  <2>1. InChain(m.block) /\ m.used <= chain[IndexOf(m.block)].used
        /\ m.count <= chain[IndexOf(m.block)].count
    BY <1>3 DEF Accepts
  <2>2. PICK i : i = IndexOf(m.block)
    OBVIOUS
  <2>3. i \in 1 .. Len(chain) /\ chain[i].addr = m.block
    BY <1>1, <2>1, <2>2 DEF InChain, IndexOf
  <2>4. PICK u \in Bytes, n \in Nat : u = m.used /\ n = m.count
    BY <1>1
  <2>5. d = Cut(chain, i, u, n)
    BY <1>3, <2>2, <2>4 DEF RestoredChain, Cut
  <2>6. /\ d \in Seq(Blocks) /\ Len(d) = i /\ DOMAIN d = 1 .. i
        /\ \A j \in 1 .. i :
              /\ d[j].addr = chain[j].addr /\ d[j].capacity = chain[j].capacity
              /\ d[j].used = IF j = i THEN u ELSE chain[j].used
              /\ d[j].count = IF j = i THEN n ELSE chain[j].count
    <3>1. IsCut(Cut(chain, i, u, n), chain, i, u, n)
      BY <1>1, <2>3, Truncated
    <3> QED
      BY <2>5, <3>1 DEF IsCut
  <2> QED
    BY <1>1, <1>3, <2>1, <2>2, <2>3, <2>4, <2>6
<1> QED
  BY <1>2, <1>3

\* Restoring a mark keeps the invariant, of a careless caller, too.
LEMMA RestoreInv ==
    ASSUME Inv, NEW s \in MarkSlots, arena_restore(s)
    PROVE  Inv'
<1>1. PICK m : m = marks[s]
  OBVIOUS
<1>2. m # None /\ m \in Marks /\ (m.ok = TRUE \/ careless = TRUE) /\ Accepts(m)
  <2>1. m # None /\ m \in Marks /\ Accepts(m) /\ (m.ok \/ careless)
    BY <1>1 DEF arena_restore, Inv, TypeOK
  <2>2. m.ok \in BOOLEAN /\ careless \in BOOLEAN
    BY <2>1 DEF Marks, Inv, TypeOK
  <2> QED
    BY <2>1, <2>2
<1>3. PICK d : d = RestoredChain(m)
  OBVIOUS
<1>4. PICK K \in Nat : K = Len(d)
  BY <1>2, <1>3, RestoredIs
<1>5. /\ d \in Seq(Blocks) /\ K <= Len(chain) /\ DOMAIN d = 1 .. K
      /\ \A j \in 1 .. K :
            /\ j \in 1 .. Len(chain)
            /\ d[j].addr = chain[j].addr /\ d[j].capacity = chain[j].capacity
            /\ d[j].used = IF j = K THEN m.used ELSE chain[j].used
            /\ d[j].count = IF j = K THEN m.count ELSE chain[j].count
      /\ m.block = None => d = <<>> /\ K = 0 /\ m.totalUsed = 0 /\ m.totalCount = 0
      /\ m.block # None => /\ K \in 1 .. K /\ K \in 1 .. Len(chain) /\ chain[K].addr = m.block
                           /\ m.used <= chain[K].used /\ m.count <= chain[K].count
  BY <1>2, <1>3, <1>4, RestoredIs
<1>6. /\ chain \in Seq(Blocks) /\ DOMAIN chain = 1 .. Len(chain) /\ Len(chain) \in Nat
      /\ current \in 0 .. Len(chain) /\ SizeMax \in Nat
      /\ marks \in [MarkSlots -> Marks \cup {None}] /\ live \subseteq Allocations
      /\ m.used \in Nat /\ m.count \in Nat /\ m.at \in Nat
      /\ m.totalUsed \in Bytes /\ m.totalCount \in Nat
  BY <1>2, Columns, ArenaAssumption DEF Inv, TypeOK, Marks, Bytes
<1>7. PICK keep : keep = [q \in MarkSlots |->
                            IF marks[q] # None /\ marks[q].at <= m.at THEN TRUE ELSE FALSE]
  OBVIOUS
<1>8. /\ keep \in [MarkSlots -> BOOLEAN]
      /\ \A q \in MarkSlots : keep[q] = TRUE => marks[q].at <= m.at
      /\ \A q \in MarkSlots : marks[q] # None /\ keep[q] = FALSE => ~(marks[q].at <= m.at)
  BY <1>7
<1>9. /\ chain' = d /\ current' = K /\ used' = m.totalUsed /\ count' = m.totalCount
      /\ blockCount' = K /\ capacity' = Sum(Capacities(d)) /\ live' = {a \in live : a.at <= m.at}
      /\ UNCHANGED <<blockSize, generation, serial, inits, resets, careless>>
  BY <1>1, <1>3, <1>4 DEF arena_restore, Capacities
<1>10. marks' = [q \in MarkSlots |-> IF marks[q] = None THEN None
                                     ELSE [marks[q] EXCEPT !.ok = marks[q].ok /\ keep[q]]]
  <2>1. marks' = [q \in MarkSlots |-> IF marks[q] = None THEN None
                     ELSE [marks[q] EXCEPT !.ok = marks[q].ok /\ marks[q].at <= m.at]]
    BY <1>1 DEF arena_restore
  <2>2. ASSUME NEW q \in MarkSlots
        PROVE  (IF marks[q] = None THEN None
                ELSE [marks[q] EXCEPT !.ok = marks[q].ok /\ marks[q].at <= m.at])
               = (IF marks[q] = None THEN None
                  ELSE [marks[q] EXCEPT !.ok = marks[q].ok /\ keep[q]])
    <3>1. ASSUME marks[q] # None
          PROVE  (marks[q].ok /\ marks[q].at <= m.at) = (marks[q].ok /\ keep[q])
      <4>1. marks[q].ok \in BOOLEAN /\ marks[q].at \in Nat
        BY <1>6, <3>1 DEF Marks
      <4>2. CASE keep[q] = TRUE
        BY <1>6, <1>8, <4>1, <4>2
      <4>3. CASE keep[q] = FALSE
        BY <1>6, <1>8, <3>1, <4>1, <4>3
      <4> QED
        BY <1>8, <4>2, <4>3
    <3> QED
      BY <3>1
  <2> QED
    BY <2>1, <2>2
<1>11. /\ marks' \in [MarkSlots -> Marks \cup {None}]
       /\ \A q \in MarkSlots : marks'[q] # None =>
             /\ marks[q] # None /\ SameMark(marks'[q], marks[q])
             /\ marks'[q].ok = TRUE => marks[q].ok = TRUE /\ marks[q].at <= m.at
  BY <1>6, <1>8, <1>10, MarksForbidden
<1>12. /\ \A j \in 1 .. Len(chain) : /\ chain[j].used <= chain[j].capacity
                                     /\ chain[j].used \in Nat /\ chain[j].count \in Nat
                                     /\ chain[j].capacity \in Nat
       /\ \A i, j \in 1 .. Len(chain) : chain[i].addr = chain[j].addr => i = j
  BY <1>6, Columns DEF Inv, ChainInv
<1>13. ASSUME NEW j \in 1 .. K
       PROVE  d[j].used <= chain[j].used /\ d[j].used <= d[j].capacity
  <2>1. j = K => m.block # None
    BY <1>5
  <2> QED
    BY <1>5, <1>6, <1>12, <2>1
<1>14. SameUpTo(K, chain, d)
  <2>1. \A j \in DOMAIN d : j \in Nat \ {0}
    BY <1>5
  <2>2. \A i, j \in DOMAIN d : d[i].addr = d[j].addr => i = j
    BY <1>5, <1>12
  <2> QED
    BY <1>5, <1>6, <2>1, <2>2 DEF SameUpTo
<1>15. Sum(Capacities(d)) \in Bytes
  <2>1. K \in 0 .. Len(chain)
    BY <1>5, <1>6
  <2>2. \A j \in 1 .. K : Capacities(d)[j] = Capacities(chain)[j]
    BY <1>4, <1>5, <1>6, Columns
  <2>3. Numbers(Capacities(chain), K)
    BY <1>5, <1>6, Columns DEF Numbers
  <2>4. SumTo(Capacities(d), K) = SumTo(Capacities(chain), K)
    BY <2>2, <2>3, SumSame
  <2>5. Sum(Capacities(d)) = SumTo(Capacities(d), K)
    BY <1>4, <1>5, Columns
  <2>6. SumTo(Capacities(chain), K) \in Nat /\ SumTo(Capacities(chain), K) <= Sum(Capacities(chain))
        /\ Sum(Capacities(chain)) \in Nat
    BY <1>6, <1>12, <2>1, UsedBelowCapacity
  <2>7. Sum(Capacities(chain)) <= SizeMax
    BY DEF Inv, Ledger, TypeOK, Bytes
  <2> QED
    BY <1>6, <2>4, <2>5, <2>6, <2>7 DEF Bytes
<1>16. TypeOK'
  <2>1. K \in Bytes
    <3>1. Len(chain) <= SizeMax
      BY DEF Inv, Ledger, TypeOK, Bytes
    <3> QED
      BY <1>5, <1>6, <3>1 DEF Bytes
  <2>2. K \in 0 .. Len(d) /\ live' \subseteq Allocations
    BY <1>4, <1>6, <1>9
  <2> QED
    BY <1>5, <1>6, <1>9, <1>11, <1>15, <2>1, <2>2 DEF Inv, TypeOK
<1>17. Ledger'
  BY <1>4, <1>9 DEF Ledger
<1>18. ChainInv'
  <2>1. K = 0 => d = <<>>
    BY <1>5
  <2>2. \A j \in DOMAIN d : d[j].used <= d[j].capacity /\ ~(j > K)
    BY <1>5, <1>13
  <2> QED
    BY <1>9, <1>14, <2>1, <2>2 DEF ChainInv, SameUpTo
<1>19. ASSUME NEW a \in live, a.at <= m.at
       PROVE  /\ m.block # None
              /\ \E k \in 1 .. K : /\ chain[k].addr = a.addr /\ d[k].addr = a.addr
                                   /\ a.offset + a.size <= d[k].used
  <2>1. Covers(m, a)
    BY <1>1, <1>2, <1>19 DEF Inv, MarkInv
  <2>2. m.block # None
    BY <2>1 DEF Covers
  <2>3. CASE a.addr = m.block
    <3>1. a.offset + a.size <= m.used
      BY <2>1, <2>3 DEF Covers
    <3> QED
      BY <1>5, <2>2, <2>3, <3>1
  <2>4. CASE a.addr # m.block
    <3>1. PICK k \in 1 .. current : chain[k].addr = a.addr /\ a.offset + a.size <= chain[k].used
      BY DEF Inv, LiveInv
    <3>2. Before(chain, a.addr, m.block)
      BY <2>1, <2>4 DEF Covers
    <3>3. k \in DOMAIN chain /\ K \in DOMAIN chain /\ chain[K].addr = m.block
      BY <1>5, <1>6, <2>2, <3>1
    <3>4. k < K
      BY <3>1, <3>2, <3>3 DEF Before
    <3>5. k \in 1 .. K /\ k # K
      BY <3>4
    <3> QED
      BY <1>5, <2>2, <3>1, <3>5
  <2> QED
    BY <2>2, <2>3, <2>4
<1>20. LiveInv'
  <2>1. ASSUME NEW a \in live, a.at <= m.at
        PROVE  /\ a.offset % Alignment = 0 /\ a.at <= serial
               /\ \E k \in 1 .. K : d[k].addr = a.addr /\ a.offset + a.size <= d[k].used
    <3>1. a.offset % Alignment = 0 /\ a.at <= serial
      BY DEF Inv, LiveInv
    <3> QED
      BY <1>19, <2>1, <3>1
  <2>2. \A a, e \in live : a # e /\ a.addr = e.addr => Apart(a, e)
    BY DEF Inv, LiveInv
  <2> QED
    BY <1>9, <2>1, <2>2 DEF LiveInv, Apart
<1>21. MarkInv'
  <2> SUFFICES ASSUME NEW q \in MarkSlots, marks'[q] # None
               PROVE  /\ marks'[q].at <= serial /\ marks'[q].life <= inits
                      /\ marks'[q].generation # 0
                      /\ \A a \in live' : a.at <= marks'[q].at => Covers(marks[q], a)'
    BY <1>9 DEF MarkInv
  <2>1. marks[q] # None /\ SameMark(marks'[q], marks[q])
    BY <1>11
  <2>2. /\ marks[q].at <= serial /\ marks[q].life <= inits /\ marks[q].generation # 0
        /\ \A a \in live : a.at <= marks[q].at => Covers(marks[q], a)
    BY <2>1 DEF Inv, MarkInv
  <2>3. ASSUME NEW a \in live', a.at <= marks[q].at
        PROVE  Covers(marks[q], a)'
    <3>1. a \in live /\ a.at <= m.at
      BY <1>9
    <3>2. Covers(marks[q], a)
      BY <2>2, <2>3, <3>1
    <3>3. ASSUME a.addr # marks[q].block
          PROVE  Before(d, a.addr, marks[q].block)
      <4>1. Before(chain, a.addr, marks[q].block)
        BY <3>2, <3>3 DEF Covers
      <4>2. PICK k \in 1 .. K : chain[k].addr = a.addr
        BY <1>19, <3>1
      <4> QED
        BY <1>14, <4>1, <4>2, BeforeKept
    <3> QED
      BY <1>9, <2>1, <3>2, <3>3 DEF Covers, SameMark
  <2> QED
    BY <2>1, <2>2, <2>3 DEF SameMark
<1>22. GenerationInv'
  BY <1>9 DEF Inv, GenerationInv
<1>23. StatsInv'
  <2> SUFFICES ASSUME careless = FALSE
               PROVE  StatsInv'
    BY <1>9 DEF StatsInv
  <2>1. Exact(m) /\ UpToDate(s)
    BY <1>1, <1>2 DEF Inv, StatsInv, UpToDate
  <2>2. \A j \in 1 .. K : j # K => d[j].used = chain[j].used /\ d[j].count = chain[j].count
    BY <1>5
  <2>3. used' = Sum(Useds(d)) /\ count' = Sum(Counts(d))
    <3>1. CASE m.block = None
      BY <1>5, <1>9, <3>1, EmptyChain
    <3>2. CASE m.block # None
      <4>1. PICK j \in 1 .. current :
               /\ chain[j].addr = m.block
               /\ m.totalUsed = SumTo(Useds(chain), j - 1) + m.used
               /\ m.totalCount = SumTo(Counts(chain), j - 1) + m.count
        BY <2>1, <3>2 DEF Exact
      <4>2. j = K /\ K \in 1 .. K
        <5>1. j \in 1 .. Len(chain)
          BY <1>6, <4>1
        <5> QED
          BY <1>5, <1>12, <3>2, <4>1, <5>1
      <4>3. PICK k \in Nat : k = K - 1 /\ k + 1 = K /\ k \in 0 .. K - 1
        BY <4>2
      <4>4. /\ \A i \in 1 .. k : i \in 1 .. K /\ i # K
            /\ k \in 0 .. Len(chain) /\ k <= Len(d)
        BY <1>4, <1>5, <1>6, <4>3
      <4>5. /\ SumTo(Useds(d), k) = SumTo(Useds(chain), k)
            /\ SumTo(Counts(d), k) = SumTo(Counts(chain), k)
        <5>1. \A i \in 1 .. k : d[i].used = chain[i].used /\ d[i].count = chain[i].count
          BY <2>2, <4>4
        <5> QED
          BY <1>5, <1>6, <4>4, <5>1, PrefixSums
      <4>6. /\ Numbers(Useds(d), K) /\ Numbers(Counts(d), K)
            /\ Useds(d)[K] = m.used /\ Counts(d)[K] = m.count
            /\ Sum(Useds(d)) = SumTo(Useds(d), K) /\ Sum(Counts(d)) = SumTo(Counts(d), K)
        BY <1>4, <1>5, <4>2, Columns
      <4>7. /\ SumTo(Useds(d), k + 1) = SumTo(Useds(d), k) + Useds(d)[k + 1]
            /\ SumTo(Counts(d), k + 1) = SumTo(Counts(d), k) + Counts(d)[k + 1]
        BY <4>3, <4>6, SumToNext
      <4> QED
        BY <1>9, <4>1, <4>2, <4>3, <4>5, <4>6, <4>7
    <3> QED
      BY <3>1, <3>2
  <2>4. ASSUME NEW q \in MarkSlots, UpToDate(q)'
        PROVE  /\ UpToDate(q) /\ Exact(marks[q]) /\ Within(marks[q], m)
               /\ SameMark(marks'[q], marks[q])
    <3>1. UpToDate(q) /\ marks[q].at <= m.at /\ SameMark(marks'[q], marks[q])
      BY <1>11, <2>4 DEF UpToDate
    <3> QED
      BY <1>1, <2>1, <3>1 DEF Inv, StatsInv
  <2>5. ASSUME NEW q \in MarkSlots, UpToDate(q)', marks[q].block # None
        PROVE  \E j \in 1 .. K :
                  /\ chain[j].addr = marks[q].block
                  /\ d[j].addr = marks[q].block
                  /\ marks[q].used <= d[j].used /\ marks[q].count <= d[j].count
                  /\ marks[q].totalUsed = SumTo(Useds(d), j - 1) + marks[q].used
                  /\ marks[q].totalCount = SumTo(Counts(d), j - 1) + marks[q].count
    <3>1. Exact(marks[q]) /\ Within(marks[q], m)
      BY <2>4, <2>5
    <3>2. PICK j \in 1 .. current :
             /\ chain[j].addr = marks[q].block
             /\ marks[q].used <= chain[j].used /\ marks[q].count <= chain[j].count
             /\ marks[q].totalUsed = SumTo(Useds(chain), j - 1) + marks[q].used
             /\ marks[q].totalCount = SumTo(Counts(chain), j - 1) + marks[q].count
      BY <2>5, <3>1 DEF Exact
    <3>3. m.block # None
      BY <2>5, <3>1 DEF Within
    <3>4. j \in 1 .. Len(chain) /\ K \in 1 .. Len(chain) /\ chain[K].addr = m.block
      BY <1>5, <1>6, <3>2, <3>3
    <3>5. j \in 1 .. K
      <4>1. CASE marks[q].block = m.block
        <5>1. j = K
          BY <1>12, <3>2, <3>4, <4>1
        <5> QED
          BY <1>5, <3>3, <5>1
      <4>2. CASE marks[q].block # m.block
        <5>1. j < K
          BY <1>6, <2>5, <3>1, <3>2, <3>4, <4>2 DEF Within, Before
        <5> QED
          BY <3>4, <5>1
      <4> QED
        BY <4>1, <4>2
    <3>6. d[j].addr = marks[q].block /\ marks[q].used <= d[j].used /\ marks[q].count <= d[j].count
      <4>1. CASE j = K
        <5>1. marks[q].block = m.block
          BY <3>2, <3>4, <4>1
        <5>2. marks[q].used <= m.used /\ marks[q].count <= m.count
          BY <2>5, <3>1, <5>1 DEF Within
        <5> QED
          BY <1>5, <3>2, <3>5, <4>1, <5>2
      <4>2. CASE j # K
        BY <1>5, <3>2, <3>5, <4>2
      <4> QED
        BY <4>1, <4>2
    <3>7. PICK k \in Nat : k = j - 1
      BY <3>5
    <3>8. /\ \A i \in 1 .. k : i \in 1 .. K /\ i # K
          /\ k \in 0 .. Len(chain) /\ k <= Len(d)
      BY <1>4, <1>5, <1>6, <3>5, <3>7
    <3>9. /\ SumTo(Useds(d), k) = SumTo(Useds(chain), k)
          /\ SumTo(Counts(d), k) = SumTo(Counts(chain), k)
      <4>1. \A i \in 1 .. k : d[i].used = chain[i].used /\ d[i].count = chain[i].count
        BY <2>2, <3>8
      <4> QED
        BY <1>5, <1>6, <3>8, <4>1, PrefixSums
    <3> QED
      BY <3>2, <3>5, <3>6, <3>7, <3>9
  <2>6. ASSUME NEW q \in MarkSlots, UpToDate(q)'
        PROVE  Exact(marks[q])'
    <3>1. SameMark(marks'[q], marks[q]) /\ Exact(marks[q])
      BY <2>4, <2>6
    <3>2. CASE marks[q].block = None
      BY <3>1, <3>2 DEF Exact, SameMark
    <3>3. CASE marks[q].block # None
      <4>1. marks'[q].block # None
        BY <3>1, <3>3 DEF SameMark
      <4> QED
        BY <1>9, <2>5, <2>6, <3>1, <3>3, <4>1 DEF Exact, SameMark
    <3> QED
      BY <3>2, <3>3
  <2>7. ASSUME NEW r \in MarkSlots, NEW q \in MarkSlots, UpToDate(r)', UpToDate(q)',
               marks'[q].at <= marks'[r].at
        PROVE  Within(marks[q], marks[r])'
    <3>1. /\ UpToDate(r) /\ UpToDate(q)
          /\ SameMark(marks'[q], marks[q]) /\ SameMark(marks'[r], marks[r])
      BY <2>4, <2>7
    <3>2. Within(marks[q], marks[r])
      BY <2>7, <3>1 DEF Inv, StatsInv, SameMark
    <3>3. ASSUME marks[q].block # None, marks[q].block # marks[r].block
          PROVE  Before(d, marks[q].block, marks[r].block)
      <4>1. Before(chain, marks[q].block, marks[r].block)
        BY <3>2, <3>3 DEF Within
      <4>2. PICK k \in 1 .. K : chain[k].addr = marks[q].block
        BY <2>5, <2>7, <3>3
      <4> QED
        BY <1>14, <4>1, <4>2, BeforeKept
    <3> QED
      BY <1>9, <3>1, <3>2, <3>3 DEF Within, SameMark
  <2> QED
    BY <1>9, <2>3, <2>6, <2>7 DEF StatsInv
<1> QED
  BY <1>16, <1>17, <1>18, <1>20, <1>21, <1>22, <1>23 DEF Inv

\* When nothing is left that may be used, and no mark either, not much remains to
\* be shown.
LEMMA AllOutdated ==
    ASSUME Inv, live' = {}, marks' = Outdated, serial' = serial, inits' = inits
    PROVE  /\ marks' \in [MarkSlots -> Marks \cup {None}] /\ LiveInv' /\ MarkInv'
           /\ \A s \in MarkSlots : ~UpToDate(s)'
           /\ \A s \in MarkSlots : marks'[s] # None =>
                 marks[s] # None /\ SameMark(marks'[s], marks[s])
<1>1. marks \in [MarkSlots -> Marks \cup {None}]
  BY DEF Inv, TypeOK
<1>2. ASSUME NEW s \in MarkSlots
      PROVE  /\ marks'[s] \in Marks \cup {None}
             /\ marks'[s] # None => /\ marks[s] # None /\ SameMark(marks'[s], marks[s])
                                    /\ marks'[s].ok = FALSE
  <2>1. marks'[s] = IF marks[s] = None THEN None ELSE [marks[s] EXCEPT !.ok = FALSE]
    BY DEF Outdated
  <2>2. CASE marks[s] = None
    BY <2>1, <2>2
  <2>3. CASE marks[s] # None
    <3>1. marks[s] \in Marks /\ FALSE \in BOOLEAN
      BY <1>1, <2>3
    <3> QED
      BY <2>1, <2>3, <3>1, MarkForbidden
  <2> QED
    BY <2>2, <2>3
<1>3. marks' \in [MarkSlots -> Marks \cup {None}]
  <2>1. marks' = [s \in MarkSlots |-> IF marks[s] = None THEN None
                                      ELSE [marks[s] EXCEPT !.ok = FALSE]]
    BY DEF Outdated
  <2>2. \A s \in MarkSlots : (IF marks[s] = None THEN None ELSE [marks[s] EXCEPT !.ok = FALSE])
                             \in Marks \cup {None}
    BY <1>2, <2>1
  <2> QED
    BY <2>1, <2>2
<1>4. LiveInv'
  BY DEF LiveInv
<1>5. MarkInv'
  <2>1. \A s \in MarkSlots : marks[s] # None =>
           marks[s].at <= serial /\ marks[s].life <= inits /\ marks[s].generation # 0
    BY DEF Inv, MarkInv
  <2>2. \A s \in MarkSlots : marks'[s] # None =>
           marks'[s].at <= serial /\ marks'[s].life <= inits /\ marks'[s].generation # 0
    BY <1>2, <2>1 DEF SameMark
  <2> QED
    BY <2>2 DEF MarkInv
<1>6. \A s \in MarkSlots : ~UpToDate(s)'
  BY <1>2 DEF UpToDate
<1> QED
  BY <1>2, <1>3, <1>4, <1>5, <1>6

\* arena_destroy forgets everything.
LEMMA DestroyInv ==
    ASSUME Inv, arena_destroy
    PROVE  Inv'
<1>1. /\ blockSize' = 0 /\ chain' = <<>> /\ current' = 0 /\ blockCount' = 0 /\ capacity' = 0
      /\ used' = 0 /\ count' = 0 /\ generation' = 0 /\ live' = {} /\ marks' = Outdated
      /\ UNCHANGED <<serial, inits, resets, careless>>
  BY DEF arena_destroy
<1>2. /\ marks' \in [MarkSlots -> Marks \cup {None}] /\ LiveInv' /\ MarkInv'
      /\ \A s \in MarkSlots : ~UpToDate(s)'
  BY <1>1, AllOutdated
<1>3. TypeOK'
  <2>1. 0 \in Bytes /\ 0 \in 0 .. Generations - 1
    BY ArenaAssumption DEF Bytes
  <2>2. chain' \in Seq(Blocks) /\ current' \in 0 .. Len(chain')
    BY <1>1, EmptyChain
  <2>3. live' \subseteq Allocations
    BY <1>1
  <2> QED
    BY <1>1, <1>2, <2>1, <2>2, <2>3 DEF Inv, TypeOK
<1>4. Ledger' /\ ChainInv' /\ GenerationInv'
  BY <1>1, EmptyChain DEF Ledger, ChainInv, GenerationInv
<1>5. StatsInv'
  BY <1>1, <1>2, EmptyChain DEF StatsInv
<1> QED
  BY <1>2, <1>3, <1>4, <1>5 DEF Inv

-----------------------------------------------------------------------------
(* arena_reset.                                                                *)

\* The next number is another one, and not 0, which says that there is no arena.
LEMMA NextGenerationType ==
    ASSUME NEW g \in 0 .. Generations - 1
    PROVE  /\ NextGeneration(g) \in 1 .. Generations - 1
           /\ g + 1 < Generations => NextGeneration(g) = g + 1
<1>1. PICK G \in Nat \ {0} : G = Generations /\ G > 1
  BY ArenaAssumption
<1>2. PICK h \in Nat : h = g + 1 /\ h \in 1 .. G
  BY <1>1
<1>3. CASE h = G
  <2>1. h = G * 1 + 0 /\ 0 \in 0 .. G - 1
    BY <1>1, <1>3
  <2>2. h % G = 0
    BY <2>1, RemainderUnique
  <2> QED
    BY <1>1, <1>2, <1>3, <2>2 DEF NextGeneration
<1>4. CASE h # G
  <2>1. h = G * 0 + h /\ h \in 0 .. G - 1
    BY <1>1, <1>2, <1>4
  <2>2. h % G = h
    BY <2>1, RemainderUnique
  <2> QED
    BY <1>1, <1>2, <1>4, <2>2 DEF NextGeneration
<1> QED
  BY <1>3, <1>4

\* A block put behind the others.
LEMMA AppendedBlock ==
    ASSUME NEW c \in Seq(Blocks), NEW b \in Blocks
    PROVE  LET d == Append(c, b) IN
           /\ d \in Seq(Blocks) /\ Len(d) = Len(c) + 1 /\ DOMAIN d = 1 .. Len(c) + 1
           /\ \A j \in 1 .. Len(c) : d[j] = c[j]
           /\ d[Len(c) + 1] = b
           /\ Sum(Capacities(c)) \in Int
           /\ Sum(Capacities(d)) = Sum(Capacities(c)) + b.capacity
<1>1. PICK n \in Nat, d \in Seq(Blocks) : n = Len(c) /\ d = Append(c, b)
  <2>1. Len(c) \in Nat /\ Append(c, b) \in Seq(Blocks)
    BY LenProperties, AppendProperties
  <2> QED
    BY <2>1
<1>2. Len(d) = n + 1 /\ d[n + 1] = b /\ \A j \in 1 .. n : d[j] = c[j]
  BY <1>1, AppendProperties
<1>3. /\ Numbers(Capacities(c), n) /\ Numbers(Capacities(d), n + 1) /\ DOMAIN d = 1 .. n + 1
      /\ Sum(Capacities(c)) = SumTo(Capacities(c), n)
      /\ Sum(Capacities(d)) = SumTo(Capacities(d), n + 1)
      /\ \A j \in 1 .. n : Capacities(c)[j] = c[j].capacity
      /\ \A j \in 1 .. n + 1 : Capacities(d)[j] = d[j].capacity
  BY <1>1, <1>2, Columns
<1>4. SumTo(Capacities(d), n) = SumTo(Capacities(c), n)
  <2>1. \A j \in 1 .. n : Capacities(d)[j] = Capacities(c)[j]
    BY <1>2, <1>3
  <2> QED
    BY <1>3, <2>1, SumSame
<1>5. SumTo(Capacities(d), n + 1) = SumTo(Capacities(d), n) + Capacities(d)[n + 1]
  <2>1. PICK m \in Nat : m = n + 1
    OBVIOUS
  <2>2. n \in 0 .. m - 1 /\ Numbers(Capacities(d), m)
    BY <1>3, <2>1
  <2> QED
    BY <2>2, SumToNext
<1>6. SumTo(Capacities(c), n) \in Int
  <2>1. n \in 0 .. n
    OBVIOUS
  <2> QED
    BY <1>3, <2>1, SumToNext
<1>7. Capacities(d)[n + 1] = b.capacity
  BY <1>2, <1>3
<1> QED
  BY <1>1, <1>2, <1>3, <1>4, <1>5, <1>6, <1>7

\* What the loop of arena_reset makes of w when it meets the block b.
Sweep(b, w) ==
    IF b.oversized THEN [w EXCEPT !.blockCount = @ - 1, !.capacity = @ - b.capacity]
    ELSE [w EXCEPT !.chain = Append(@, Emptied(b))]

\* What it counts with.
Sweeps == [chain : Seq(Blocks), blockCount : Int, capacity : Int]

\* One step of the loop, by fields.
LEMMA SweepIs ==
    ASSUME NEW w \in Sweeps, NEW b \in Blocks
    PROVE  /\ Sweep(b, w) \in Sweeps /\ Emptied(b) \in Blocks
           /\ Emptied(b).addr = b.addr /\ Emptied(b).capacity = b.capacity
           /\ Emptied(b).used = 0 /\ Emptied(b).count = 0
           /\ b.oversized = TRUE => /\ Sweep(b, w).chain = w.chain
                                    /\ Sweep(b, w).blockCount = w.blockCount - 1
                                    /\ Sweep(b, w).capacity = w.capacity - b.capacity
           /\ b.oversized = FALSE => /\ Sweep(b, w).chain = Append(w.chain, Emptied(b))
                                     /\ Sweep(b, w).blockCount = w.blockCount
                                     /\ Sweep(b, w).capacity = w.capacity
<1>1. b.oversized \in BOOLEAN /\ b.capacity \in Int /\ 0 \in Bytes
  BY ArenaAssumption DEF Blocks, Bytes
<1>2. PICK e : e = Emptied(b)
  OBVIOUS
<1>3. e \in Blocks /\ e.addr = b.addr /\ e.capacity = b.capacity /\ e.used = 0 /\ e.count = 0
  BY <1>1, <1>2 DEF Emptied, Blocks
<1>4. w.chain \in Seq(Blocks) /\ w.blockCount \in Int /\ w.capacity \in Int
  BY DEF Sweeps
<1>5. CASE b.oversized = TRUE
  <2>1. PICK x \in Int, y \in Int : x = w.blockCount - 1 /\ y = w.capacity - b.capacity
    BY <1>1, <1>4
  <2>2. Sweep(b, w) = [w EXCEPT !.blockCount = x, !.capacity = y]
    BY <1>5, <2>1 DEF Sweep
  <2>3. /\ Sweep(b, w) \in Sweeps /\ Sweep(b, w).chain = w.chain
        /\ Sweep(b, w).blockCount = x /\ Sweep(b, w).capacity = y
    BY <2>2 DEF Sweeps
  <2> QED
    BY <1>2, <1>3, <1>5, <2>1, <2>3
<1>6. CASE b.oversized = FALSE
  <2>1. PICK d : d = Append(w.chain, e)
    OBVIOUS
  <2>2. d \in Seq(Blocks)
    BY <1>3, <1>4, <2>1, AppendProperties
  <2>3. Sweep(b, w) = [w EXCEPT !.chain = d]
    BY <1>2, <1>6, <2>1 DEF Sweep
  <2> QED
    BY <1>2, <1>3, <1>4, <1>6, <2>1, <2>2, <2>3 DEF Sweeps
<1> QED
  BY <1>1, <1>5, <1>6

\* w is what the first n blocks are to be made into.
SweptTo(n, w) ==
    /\ w \in Sweeps
    /\ Len(w.chain) <= n
    /\ \A j \in 1 .. Len(w.chain) :
          /\ w.chain[j].used = 0 /\ w.chain[j].count = 0
          /\ \E i \in 1 .. n : chain[i].addr = w.chain[j].addr
    /\ \A j, k \in 1 .. Len(w.chain) : w.chain[j].addr = w.chain[k].addr => j = k
    /\ w.blockCount = Len(chain) - n + Len(w.chain)
    /\ w.capacity = Sum(Capacities(chain)) - SumTo(Capacities(chain), n) + Sum(Capacities(w.chain))
    /\ Sum(Capacities(w.chain)) <= SumTo(Capacities(chain), n)

\* The next block is freed and taken from the totals, or emptied and kept.
LEMMA SweepOne ==
    ASSUME Inv, NEW n \in 0 .. Len(chain) - 1, NEW w, SweptTo(n, w)
    PROVE  SweptTo(n + 1, Sweep(chain[n + 1], w))
<1>1. /\ chain \in Seq(Blocks) /\ DOMAIN chain = 1 .. Len(chain) /\ Len(chain) \in Nat
      /\ Numbers(Capacities(chain), Len(chain)) /\ Sum(Capacities(chain)) \in Int
      /\ n \in Nat /\ n + 1 \in 1 .. Len(chain) /\ n \in 0 .. Len(chain)
      /\ \A i, j \in 1 .. Len(chain) : chain[i].addr = chain[j].addr => i = j
  <2>1. /\ chain \in Seq(Blocks) /\ capacity \in Int /\ capacity = Sum(Capacities(chain))
    BY DEF Inv, TypeOK, Ledger, Bytes
  <2>2. /\ DOMAIN chain = 1 .. Len(chain) /\ Len(chain) \in Nat
        /\ Numbers(Capacities(chain), Len(chain))
    BY <2>1, Columns
  <2> QED
    BY <2>1, <2>2 DEF Inv, ChainInv
<1>2. PICK b \in Blocks : b = chain[n + 1]
  BY <1>1, Columns
<1>3. b.capacity \in Nat /\ b.oversized \in BOOLEAN
  BY ArenaAssumption DEF Blocks, Bytes
<1>4. /\ SumTo(Capacities(chain), n) \in Int
      /\ SumTo(Capacities(chain), n + 1) = SumTo(Capacities(chain), n) + b.capacity
  <2>1. Capacities(chain)[n + 1] = b.capacity
    BY <1>1, <1>2, Columns
  <2> QED
    BY <1>1, <2>1, SumToNext
<1>5. PICK c \in Seq(Blocks) : c = w.chain
  BY DEF SweptTo, Sweeps
<1>6. PICK L \in Nat : L = Len(c)
  BY Columns
<1>7. w \in Sweeps /\ w.blockCount \in Int /\ w.capacity \in Int
  BY DEF SweptTo, Sweeps
<1>8. /\ L <= n
      /\ \A j \in 1 .. L : /\ c[j].used = 0 /\ c[j].count = 0
                           /\ \E i \in 1 .. n : chain[i].addr = c[j].addr
      /\ \A j, k \in 1 .. L : c[j].addr = c[k].addr => j = k
      /\ w.blockCount = Len(chain) - n + L
      /\ w.capacity = Sum(Capacities(chain)) - SumTo(Capacities(chain), n) + Sum(Capacities(c))
      /\ Sum(Capacities(c)) <= SumTo(Capacities(chain), n)
  BY <1>5, <1>6 DEF SweptTo
<1>9. PICK v : v = Sweep(b, w)
  OBVIOUS
<1>10. \A i \in 1 .. n : i \in 1 .. n + 1 /\ i \in 1 .. Len(chain) /\ i # n + 1
  BY <1>1
<1>11. PICK e \in Blocks : e = Emptied(b)
  BY <1>7, SweepIs
<1>12. e.addr = b.addr /\ e.capacity = b.capacity /\ e.used = 0 /\ e.count = 0 /\ v \in Sweeps
  BY <1>7, <1>9, <1>11, SweepIs
<1>13. PICK d : d = Append(c, e)
  OBVIOUS
<1>14. /\ d \in Seq(Blocks) /\ Len(d) = L + 1
       /\ \A j \in 1 .. L : d[j] = c[j]
       /\ d[L + 1] = e
       /\ Sum(Capacities(c)) \in Int
       /\ Sum(Capacities(d)) = Sum(Capacities(c)) + b.capacity
  BY <1>6, <1>12, <1>13, AppendedBlock
<1>15. CASE b.oversized = TRUE
  <2>1. v.chain = c /\ v.blockCount = w.blockCount - 1 /\ v.capacity = w.capacity - b.capacity
    BY <1>5, <1>7, <1>9, <1>15, SweepIs
  <2>2. L <= n + 1 /\ v.blockCount = Len(chain) - (n + 1) + L
    BY <1>1, <1>7, <1>8, <2>1
  <2>3. v.capacity = Sum(Capacities(chain)) - SumTo(Capacities(chain), n + 1) + Sum(Capacities(c))
        /\ Sum(Capacities(c)) <= SumTo(Capacities(chain), n + 1)
    BY <1>1, <1>3, <1>4, <1>7, <1>8, <1>14, <2>1
  <2>4. \A j \in 1 .. L : /\ c[j].used = 0 /\ c[j].count = 0
                          /\ \E i \in 1 .. n + 1 : chain[i].addr = c[j].addr
    BY <1>8, <1>10
  <2> QED
    BY <1>2, <1>6, <1>8, <1>9, <1>12, <2>1, <2>2, <2>3, <2>4 DEF SweptTo
<1>16. CASE b.oversized = FALSE
  <2>1. v.chain = d /\ v.blockCount = w.blockCount /\ v.capacity = w.capacity
    BY <1>5, <1>7, <1>9, <1>11, <1>13, <1>16, SweepIs
  <2>2. L + 1 <= n + 1 /\ v.blockCount = Len(chain) - (n + 1) + (L + 1)
    BY <1>1, <1>7, <1>8, <2>1
  <2>3. v.capacity = Sum(Capacities(chain)) - SumTo(Capacities(chain), n + 1) + Sum(Capacities(d))
        /\ Sum(Capacities(d)) <= SumTo(Capacities(chain), n + 1)
    BY <1>1, <1>3, <1>4, <1>7, <1>8, <1>14, <2>1
  <2>4. ASSUME NEW j \in 1 .. L + 1
        PROVE  /\ d[j].used = 0 /\ d[j].count = 0
               /\ \E i \in 1 .. n + 1 : chain[i].addr = d[j].addr
               /\ j \in 1 .. L => \E i \in 1 .. n : chain[i].addr = d[j].addr
    <3>1. CASE j \in 1 .. L
      BY <1>8, <1>10, <1>14, <3>1
    <3>2. CASE j \notin 1 .. L
      <4>1. j = L + 1 /\ n + 1 \in 1 .. n + 1
        BY <1>1, <3>2
      <4> QED
        BY <1>2, <1>12, <1>14, <3>2, <4>1
    <3> QED
      BY <3>1, <3>2
  <2>5. ASSUME NEW j \in 1 .. L
        PROVE  d[j].addr # d[L + 1].addr
    <3>1. j \in 1 .. L + 1
      OBVIOUS
    <3>2. PICK i \in 1 .. n : chain[i].addr = d[j].addr
      BY <2>4, <3>1
    <3> QED
      BY <1>1, <1>2, <1>10, <1>12, <1>14, <3>2
  <2>6. ASSUME NEW j \in 1 .. L + 1, NEW k \in 1 .. L + 1, d[j].addr = d[k].addr
        PROVE  j = k
    <3>1. CASE j \in 1 .. L /\ k \in 1 .. L
      BY <1>8, <1>14, <2>6, <3>1
    <3>2. CASE j \notin 1 .. L \/ k \notin 1 .. L
      BY <2>5, <2>6, <3>2
    <3> QED
      BY <3>1, <3>2
  <2> QED
    BY <1>2, <1>9, <1>12, <1>14, <2>1, <2>2, <2>3, <2>4, <2>6 DEF SweptTo
<1> QED
  BY <1>3, <1>15, <1>16

\* So the loop makes of the chain what it should.
LEMMA SweptIsRight ==
    ASSUME Inv
    PROVE  SweptTo(Len(chain), Swept(Len(chain)))
<1>1. PICK N \in Nat : N = Len(chain) /\ chain \in Seq(Blocks) /\ \A j \in 1 .. N : chain[j] \in Blocks
  BY Columns DEF Inv, TypeOK
<1>2. PICK base : base = [chain |-> <<>>, blockCount |-> blockCount, capacity |-> capacity]
  OBVIOUS
<1>3. /\ base \in Sweeps /\ base.chain = <<>> /\ base.blockCount = blockCount
      /\ base.capacity = capacity
  <2>1. <<>> \in Seq(Blocks) /\ blockCount \in Int /\ capacity \in Int
    BY EmptyChain DEF Inv, TypeOK, Bytes
  <2> QED
    BY <1>2, <2>1 DEF Sweeps
<1> DEFINE IsSwept(g) == g = [i \in 0 .. N |-> IF i = 0 THEN base ELSE Sweep(chain[i], g[i - 1])]
<1>4. \E g : IsSwept(g)
  <2> DEFINE step == [i \in 1 .. N |-> [w \in Sweeps |-> Sweep(chain[i], w)]]
  <2>1. step \in [1 .. N -> [Sweeps -> Sweeps]]
    BY <1>1, SweepIs
  <2>2. \A i \in 1 .. N : \A w \in Sweeps : step[i][w] = Sweep(chain[i], w)
    OBVIOUS
  <2> HIDE DEF step
  <2>3. PICK g \in [0 .. N -> Sweeps] : Recursive(g, N, base, step)
    BY <1>3, <2>1, IntervalRecursion
  <2>4. g[0] = base /\ \A i \in 1 .. N : g[i] = Sweep(chain[i], g[i - 1])
    <3>1. \A i \in 1 .. N : g[i - 1] \in Sweeps
      BY <1>1
    <3> QED
      BY <2>2, <2>3, <3>1 DEF Recursive
  <2>5. IsSwept(g)
    <3> DEFINE h == [i \in 0 .. N |-> IF i = 0 THEN base ELSE Sweep(chain[i], g[i - 1])]
    <3>1. \A i \in 0 .. N : g[i] = h[i]
      BY <1>1, <2>4
    <3> QED
      BY <2>3, <3>1
  <2> QED
    BY <2>5
<1>5. PICK g : IsSwept(g) /\ Swept(N) = g[N]
  BY <1>2, <1>4 DEF Swept, Sweep
<1>6. g[0] = base /\ \A i \in 1 .. N : g[i] = Sweep(chain[i], g[i - 1])
  <2>1. g = [i \in 0 .. N |-> IF i = 0 THEN base ELSE Sweep(chain[i], g[i - 1])]
    BY <1>5
  <2> QED
    BY <1>1, <2>1
<1> HIDE DEF IsSwept
<1> DEFINE S == {n \in 0 .. N : SweptTo(n, g[n])}
<1>7. 0 \in S
  <2>1. SumTo(Capacities(chain), 0) = 0
    BY <1>1, Columns, SumToNext
  <2>2. SweptTo(0, base)
    <3>1. Len(<<>>) = 0 /\ Sum(Capacities(<<>>)) = 0
      BY EmptyChain
    <3>2. blockCount = Len(chain) /\ capacity = Sum(Capacities(chain)) /\ blockCount \in Int
          /\ capacity \in Int
      BY DEF Inv, Ledger, TypeOK, Bytes
    <3> QED
      BY <1>3, <2>1, <3>1, <3>2 DEF SweptTo
  <2> QED
    BY <1>1, <1>6, <2>2
<1>8. ASSUME NEW n \in 0 .. N - 1, n \in S
      PROVE  n + 1 \in S
  <2>1. n + 1 \in 1 .. N /\ n + 1 \in 0 .. N /\ (n + 1) - 1 = n
    BY <1>1
  <2>2. g[n + 1] = Sweep(chain[n + 1], g[n])
    BY <1>6, <2>1
  <2>3. SweptTo(n + 1, Sweep(chain[n + 1], g[n]))
    BY <1>1, <1>8, SweepOne
  <2> QED
    BY <2>1, <2>2, <2>3
<1> HIDE DEF S
<1>9. 0 .. N \subseteq S
  BY <1>7, <1>8, IntervalInduction
<1>10. N \in S
  BY <1>9
<1> QED
  BY <1>1, <1>5, <1>10 DEF S

\* A reset empties what it keeps, and its totals are right.
LEMMA ResetKeepsInv ==
    ASSUME Inv, arena_reset
    PROVE  Inv'
<1>1. PICK w : w = Swept(Len(chain))
  OBVIOUS
<1>2. /\ blockSize # 0 /\ resets < MaxResets /\ resets' = resets + 1
      /\ chain' = w.chain /\ current' = (IF w.chain = <<>> THEN 0 ELSE 1)
      /\ blockCount' = w.blockCount /\ capacity' = w.capacity
      /\ used' = 0 /\ count' = 0 /\ generation' = NextGeneration(generation)
      /\ live' = {} /\ marks' = Outdated
      /\ UNCHANGED <<blockSize, serial, inits, careless>>
  BY <1>1 DEF arena_reset
<1>3. /\ marks' \in [MarkSlots -> Marks \cup {None}] /\ LiveInv' /\ MarkInv'
      /\ \A s \in MarkSlots : ~UpToDate(s)'
  BY <1>2, AllOutdated
<1>4. SweptTo(Len(chain), w)
  BY <1>1, SweptIsRight
<1>5. /\ chain \in Seq(Blocks) /\ Len(chain) \in Nat /\ SizeMax \in Nat
      /\ blockCount = Len(chain) /\ capacity = Sum(Capacities(chain))
      /\ blockCount \in Nat /\ blockCount <= SizeMax /\ capacity \in Nat /\ capacity <= SizeMax
  BY Columns, ArenaAssumption DEF Inv, TypeOK, Ledger, Bytes
<1>6. PICK c \in Seq(Blocks) : c = w.chain
  BY <1>4 DEF SweptTo, Sweeps
<1>7. PICK L \in Nat : L = Len(c) /\ DOMAIN c = 1 .. L
  BY Columns
<1>8. Sum(Capacities(chain)) = SumTo(Capacities(chain), Len(chain))
  BY <1>5, Columns
<1>9. \A j \in 1 .. L : c[j].used = 0 /\ c[j].count = 0 /\ c[j].capacity \in Nat
  BY <1>4, <1>6, <1>7, Columns DEF SweptTo
<1>10. Sum(Capacities(c)) \in Nat
  <2>1. \A j \in 1 .. L : c[j].used <= c[j].capacity
    BY <1>9
  <2> QED
    BY <1>7, <2>1, UsedBelowCapacity
<1>11. blockCount' = L /\ capacity' = Sum(Capacities(c)) /\ L <= Len(chain)
       /\ Sum(Capacities(c)) <= capacity
  <2>1. /\ w.blockCount = Len(chain) - Len(chain) + L
        /\ w.capacity = Sum(Capacities(chain)) - SumTo(Capacities(chain), Len(chain))
                        + Sum(Capacities(c))
        /\ Sum(Capacities(c)) <= SumTo(Capacities(chain), Len(chain))
        /\ L <= Len(chain)
    BY <1>4, <1>6, <1>7 DEF SweptTo
  <2>2. w.capacity = capacity - capacity + Sum(Capacities(c))
    BY <1>5, <1>8, <2>1
  <2> QED
    BY <1>2, <1>5, <1>8, <1>10, <2>1, <2>2
<1>12. TypeOK'
  <2>1. 0 \in Bytes /\ L \in Bytes /\ Sum(Capacities(c)) \in Bytes
    BY <1>5, <1>10, <1>11 DEF Bytes
  <2>2. current' \in 0 .. Len(c)
    <3>1. CASE c = <<>>
      BY <1>2, <1>6, <1>7, <3>1
    <3>2. CASE c # <<>>
      <4>1. L # 0
        BY <1>7, <3>2, EmptySeq
      <4> QED
        BY <1>2, <1>6, <1>7, <3>2, <4>1
    <3> QED
      BY <3>1, <3>2
  <2>3. generation' \in 0 .. Generations - 1
    <3>1. generation \in 0 .. Generations - 1
      BY DEF Inv, TypeOK
    <3>2. NextGeneration(generation) \in 1 .. Generations - 1
      BY <3>1, NextGenerationType
    <3> QED
      BY <1>2, <3>2, ArenaAssumption
  <2>4. resets' \in 0 .. MaxResets
    BY <1>2, ArenaAssumption DEF Inv, TypeOK
  <2>5. live' \subseteq Allocations
    BY <1>2
  <2> QED
    BY <1>2, <1>3, <1>6, <1>11, <2>1, <2>2, <2>3, <2>4, <2>5 DEF Inv, TypeOK
<1>13. Ledger'
  BY <1>2, <1>6, <1>7, <1>11 DEF Ledger
<1>14. ChainInv'
  <2>1. current' = 0 => c = <<>>
    BY <1>2, <1>6
  <2>2. \A j \in 1 .. L : c[j].used <= c[j].capacity /\ c[j].used = 0 /\ c[j].count = 0
    BY <1>9
  <2>3. \A j, k \in 1 .. L : c[j].addr = c[k].addr => j = k
    BY <1>4, <1>6, <1>7 DEF SweptTo
  <2> QED
    BY <1>2, <1>6, <1>7, <2>1, <2>2, <2>3 DEF ChainInv
<1>15. GenerationInv'
  <2>1. NextGeneration(generation) \in 1 .. Generations - 1
    BY NextGenerationType DEF Inv, TypeOK
  <2> QED
    BY <1>2, <2>1, ArenaAssumption DEF GenerationInv
<1>16. Sum(Useds(c)) = 0 /\ Sum(Counts(c)) = 0
  <2>1. 0 \in 0 .. Len(c) /\ \A j \in 0 + 1 .. Len(c) : c[j].used = 0 /\ c[j].count = 0
    BY <1>7, <1>9
  <2>2. Sum(Useds(c)) = SumTo(Useds(c), 0) /\ Sum(Counts(c)) = SumTo(Counts(c), 0)
    BY <2>1, EmptyTail
  <2>3. SumTo(Useds(c), 0) = 0 /\ SumTo(Counts(c), 0) = 0
    BY Columns, SumToNext
  <2> QED
    BY <2>2, <2>3
<1>17. StatsInv'
  BY <1>2, <1>3, <1>6, <1>16 DEF StatsInv
<1> QED
  BY <1>3, <1>12, <1>13, <1>14, <1>15, <1>17 DEF Inv

-----------------------------------------------------------------------------
(* The theorems.                                                               *)

\* Every step keeps the invariant.
LEMMA NextInv == Inv /\ [Next]_vars => Inv'
<1> SUFFICES ASSUME Inv, [Next]_vars
             PROVE  Inv'
  OBVIOUS
<1>1. ASSUME NEW size \in BlockSizes, arena_init(size)
      PROVE  Inv'
  BY <1>1, ArenaInitInv
<1>2. ASSUME NEW size \in Sizes,
             AllocCurrent(size) \/ AllocNext(size) \/ \E a \in Addresses : AllocNew(size, a)
      PROVE  Inv'
  BY <1>2, AllocInv
<1>3. ASSUME NEW s \in MarkSlots, arena_mark(s)
      PROVE  Inv'
  BY <1>3, MarkKeepsInv
<1>4. ASSUME NEW s \in MarkSlots, arena_restore(s)
      PROVE  Inv'
  BY <1>4, RestoreInv
<1>5. CASE arena_reset
  BY <1>5, ResetKeepsInv
<1>6. CASE arena_destroy
  BY <1>6, DestroyInv
<1>7. CASE UNCHANGED vars
  BY <1>7 DEF vars, Inv, TypeOK, Ledger, ChainInv, LiveInv, MarkInv, Covers, GenerationInv,
              StatsInv, UpToDate, Exact, Within
<1> QED
  BY <1>1, <1>2, <1>3, <1>4, <1>5, <1>6, <1>7 DEF Next

\* The inductive invariant holds in every reachable state.
THEOREM InvTheorem == Spec => []Inv
  BY InitInv, NextInv, PTL DEF Spec

\* Every total, offset and counter is in its range: the arithmetic of arena_add_block,
\* arena_alloc and arena_restore never leaves size_t.
THEOREM TypeTheorem == Spec => []TypeOK
<1>1. Inv => TypeOK
  BY DEF Inv
<1> QED
  BY <1>1, InvTheorem, PTL

\* Allocations that share no byte occupy none in common.
LEMMA ApartIsDisjoint ==
    ASSUME NEW a \in Allocations, NEW b \in Allocations, Apart(a, b)
    PROVE  Extent(a) \cap Extent(b) = {}
<1>1. a.offset \in Nat /\ a.size \in Nat /\ b.offset \in Nat /\ b.size \in Nat
  BY ArenaAssumption DEF Allocations, Bytes
<1> QED
  BY <1>1 DEF Apart, Extent

\* What is allocated stays intact and apart from the rest through growth, restores of
\* up-to-date and outdated marks, and resets.
THEOREM LiveTheorem == Spec => []LiveIntact
<1>1. Inv => LiveIntact
  <2> SUFFICES ASSUME Inv
               PROVE  LiveIntact
    OBVIOUS
  <2>1. live \subseteq Allocations
    BY DEF Inv, TypeOK
  <2>2. \A a \in live :
           /\ a.offset % Alignment = 0
           /\ \E i \in 1 .. current : chain[i].addr = a.addr /\ a.offset + a.size <= chain[i].used
    BY DEF Inv, LiveInv
  <2>3. \A a, b \in live : a # b /\ a.addr = b.addr => Extent(a) \cap Extent(b) = {}
    BY <2>1, ApartIsDisjoint DEF Inv, LiveInv
  <2>4. \A i \in DOMAIN chain :
           /\ chain[i].used <= chain[i].capacity
           /\ i > current => chain[i].used = 0 /\ chain[i].count = 0
           /\ \A j \in DOMAIN chain : i # j => chain[i].addr # chain[j].addr
    BY DEF Inv, ChainInv
  <2> QED
    BY <2>2, <2>3, <2>4 DEF LiveIntact
<1> QED
  BY <1>1, InvTheorem, PTL

\* arena_stats tells what the chain holds, to a caller who restores no outdated mark.
THEOREM StatsTheorem == Spec => []StatsExact
<1>1. Inv => StatsExact
  BY DEF Inv, Ledger, StatsInv, StatsExact, Capacities, Useds, Counts
<1> QED
  BY <1>1, InvTheorem, PTL

\* The resets are counted until the counter wraps, which it does not do here.
LEMMA ResetInvNext ==
    ASSUME MaxResets + 1 < Generations
    PROVE  Inv /\ ResetInv /\ [Next]_vars => ResetInv'
<1> SUFFICES ASSUME Inv, ResetInv, [Next]_vars
             PROVE  ResetInv'
  OBVIOUS
<1>1. /\ generation \in Nat /\ resets \in Nat /\ inits \in Nat
      /\ marks \in [MarkSlots -> Marks \cup {None}]
      /\ \A s \in MarkSlots : marks[s] # None =>
            /\ marks[s].generation \in Nat /\ marks[s].epoch \in Nat /\ marks[s].life \in Nat
            /\ marks[s].life <= inits
  BY ArenaAssumption DEF Inv, TypeOK, Marks, MarkInv
<1>2. ASSUME UNCHANGED <<blockSize, generation, marks, inits, resets>>
      PROVE  ResetInv'
  BY <1>2 DEF ResetInv
<1>3. ASSUME NEW size \in BlockSizes, arena_init(size)
      PROVE  ResetInv'
  <2>1. generation' = 1 /\ inits' = inits + 1 /\ UNCHANGED <<marks, resets>>
    BY <1>3 DEF arena_init
  <2> QED
    BY <1>1, <2>1 DEF ResetInv
<1>4. ASSUME NEW size \in Sizes,
             AllocCurrent(size) \/ AllocNext(size) \/ \E a \in Addresses : AllocNew(size, a)
      PROVE  ResetInv'
  BY <1>2, <1>4 DEF AllocCurrent, AllocNext, AllocNew, Allocating
<1>5. ASSUME NEW s \in MarkSlots, arena_mark(s)
      PROVE  ResetInv'
  <2>1. PICK m : /\ marks' = [marks EXCEPT ![s] = m] /\ m.generation = generation
                 /\ m.epoch = resets /\ m.life = inits
    <3>1. PICK m : m = [block |-> IF current = 0 THEN None ELSE chain[current].addr,
                        used |-> IF current = 0 THEN 0 ELSE chain[current].used,
                        count |-> IF current = 0 THEN 0 ELSE chain[current].count,
                        totalUsed |-> used, totalCount |-> count, generation |-> generation,
                        life |-> inits, epoch |-> resets, at |-> serial', ok |-> TRUE]
      OBVIOUS
    <3>2. marks' = [marks EXCEPT ![s] = m]
      BY <1>5, <3>1 DEF arena_mark
    <3>3. m.generation = generation /\ m.epoch = resets /\ m.life = inits
      BY <3>1
    <3> QED
      BY <3>2, <3>3
  <2>2. UNCHANGED <<blockSize, generation, inits, resets>>
    BY <1>5 DEF arena_mark, arena
  <2>3. ASSUME NEW q \in MarkSlots, marks'[q] # None, marks'[q].life = inits, blockSize # 0
        PROVE  generation - marks'[q].generation = resets - marks'[q].epoch
    <3>1. CASE q = s
      BY <1>1, <2>1, <3>1
    <3>2. CASE q # s
      <4>1. marks'[q] = marks[q]
        BY <1>1, <2>1, <3>2
      <4> QED
        BY <2>3, <4>1 DEF ResetInv
    <3> QED
      BY <3>1, <3>2
  <2> QED
    BY <2>2, <2>3 DEF ResetInv
<1>6. ASSUME NEW s \in MarkSlots, arena_restore(s)
      PROVE  ResetInv'
  <2>1. UNCHANGED <<blockSize, generation, inits, resets>>
    BY <1>6 DEF arena_restore
  <2>2. PICK m : m = marks[s]
    OBVIOUS
  <2>3. \A q \in MarkSlots : marks'[q] = IF marks[q] = None THEN None
                  ELSE [marks[q] EXCEPT !.ok = marks[q].ok /\ marks[q].at <= m.at]
    BY <1>6, <2>2 DEF arena_restore
  <2>4. ASSUME NEW q \in MarkSlots, marks'[q] # None
        PROVE  /\ marks[q] # None /\ marks'[q].life = marks[q].life
               /\ marks'[q].generation = marks[q].generation /\ marks'[q].epoch = marks[q].epoch
    <3>1. marks[q] \in Marks /\ marks[q] # None
      BY <1>1, <2>3, <2>4
    <3>2. PICK o : o = (marks[q].ok /\ marks[q].at <= m.at)
      OBVIOUS
    <3>3. marks'[q] = [marks[q] EXCEPT !.ok = o]
      BY <2>3, <3>1, <3>2
    <3> QED
      BY <3>1, <3>3 DEF Marks
  <2> QED
    BY <2>1, <2>4 DEF ResetInv
<1>7. CASE arena_reset
  <2>1. /\ blockSize # 0 /\ resets < MaxResets /\ resets' = resets + 1
        /\ generation' = NextGeneration(generation) /\ live' = {} /\ marks' = Outdated
        /\ UNCHANGED <<blockSize, serial, inits>>
    BY <1>7 DEF arena_reset
  <2>2. generation' = generation + 1
    <3>1. generation \in 0 .. Generations - 1
      BY DEF Inv, TypeOK
    <3>2. generation + 1 < Generations
      BY <1>1, <2>1, ArenaAssumption DEF ResetInv
    <3> QED
      BY <2>1, <3>1, <3>2, NextGenerationType
  <2>3. \A q \in MarkSlots : marks'[q] # None => marks[q] # None /\ SameMark(marks'[q], marks[q])
    BY <2>1, AllOutdated
  <2> QED
    BY <1>1, <2>1, <2>2, <2>3 DEF ResetInv, SameMark
<1>8. CASE arena_destroy
  <2>1. blockSize' = 0
    BY <1>8 DEF arena_destroy
  <2> QED
    BY <2>1 DEF ResetInv
<1>9. CASE UNCHANGED vars
  BY <1>2, <1>9 DEF vars
<1> QED
  BY <1>3, <1>4, <1>5, <1>6, <1>7, <1>8, <1>9 DEF Next

\* Unless the arena is reset as often as its counter can count, no mark survives an
\* arena_reset.
THEOREM ResetTheorem ==
    ASSUME MaxResets + 1 < Generations
    PROVE  Spec => ResetOutdatesMarks
<1>1. Init => ResetInv
  BY DEF Init, ResetInv
<1>2. Inv /\ ResetInv =>
         \A s \in MarkSlots :
            marks[s] # None /\ marks[s].life = inits /\ marks[s].epoch # resets => ~arena_restore(s)
  <2> SUFFICES ASSUME Inv, ResetInv, NEW s \in MarkSlots, marks[s] # None,
                      marks[s].life = inits, marks[s].epoch # resets, arena_restore(s)
               PROVE  FALSE
    OBVIOUS
  <2>1. marks[s].generation = generation
    BY DEF arena_restore, Accepts
  <2>2. /\ marks[s].generation \in Nat /\ marks[s].epoch \in Nat /\ resets \in Nat
        /\ marks[s].generation # 0
    BY DEF Inv, TypeOK, Marks, MarkInv
  <2>3. CASE blockSize = 0
    BY <2>1, <2>2, <2>3 DEF Inv, GenerationInv
  <2>4. CASE blockSize # 0
    <3>1. generation - marks[s].generation = resets - marks[s].epoch
      BY <2>4 DEF ResetInv
    <3> QED
      BY <2>1, <2>2, <3>1
  <2> QED
    BY <2>3, <2>4
<1>3. Inv /\ ResetInv /\ [Next]_vars => ResetInv'
  BY ResetInvNext
<1> QED
  BY <1>1, <1>2, <1>3, InvTheorem, PTL DEF Spec, ResetOutdatesMarks

=============================================================================
