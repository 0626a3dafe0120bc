--------------------------- MODULE RequestProofs ---------------------------
(* Theorems about Request and Router, for any set of routes and requests, any *)
(* limits, and every way in which TCP can cut what the client sends.          *)
EXTENDS Request, Induction, SequenceTheorems

-----------------------------------------------------------------------------
(* What the parser makes of a request.                                       *)

\* First finds an entry with the name.
LEMMA FirstIsNamed ==
    ASSUME NEW seq, DOMAIN seq \subseteq Nat, NEW name, Has(seq, name)
    PROVE  \E i \in DOMAIN seq : seq[i].name = name /\ First(seq, name) = seq[i].value
<1>1. Named(seq, name) \subseteq Nat /\ Named(seq, name) # {}
  BY DEF Has, Named
<1>2. \E i \in Named(seq, name) : \A j \in Named(seq, name) : i <= j
  BY <1>1, LeastNatural
<1>3. \E i \in Named(seq, name) : First(seq, name) = seq[i].value
  BY <1>2 DEF First
<1> QED
  BY <1>3 DEF Named

\* A Content-Length that is accepted is a number.
LEMMA LengthIsNumber ==
    ASSUME NEW w \in Wires
    PROVE  /\ w.head \in Nat \ {0} /\ w.size \in Nat
           /\ ~BadLength(w) => ContentLength(w) \in Nat
<1>1. IsWire(w)
  BY RequestAssumption
<1>2. ASSUME HasLength(w), ~BadLength(w)
      PROVE  ContentLength(w) \in Nat
  <2>1. PICK i \in DOMAIN w.headers :
           w.headers[i].name = "length" /\ First(w.headers, "length") = w.headers[i].value
    BY <1>1, <1>2, FirstIsNamed DEF IsWire, HasLength
  <2> QED
    BY <1>1, <1>2, <2>1 DEF IsWire, BadLength, ContentLength
<1> QED
  BY <1>1, <1>2 DEF IsWire, ContentLength

\* What the parser says of a head that is accepted.
LEMMA HeadersAccepted ==
    ASSUME NEW w \in Wires
    PROVE  /\ request_parse_headers(w) \in {"BAD_REQUEST", "UNSUPPORTED", "PAYLOAD_TOO_LARGE", "OK"}
           /\ request_parse_headers(w) = "OK" =>
                 ContentLength(w) \in Nat /\ ContentLength(w) <= MaxRequestBody
<1>1. CASE GoodHeaders(w) /\ ~Chunked(w) /\ ~BadLength(w)
  <2>1. request_parse_headers(w) =
           IF ContentLength(w) > MaxRequestBody THEN "PAYLOAD_TOO_LARGE" ELSE "OK"
    BY <1>1 DEF request_parse_headers
  <2>2. ContentLength(w) \in Nat /\ MaxRequestBody \in Nat
    BY <1>1, LengthIsNumber, RequestAssumption
  <2> QED
    BY <2>1, <2>2
<1>2. CASE ~(GoodHeaders(w) /\ ~Chunked(w) /\ ~BadLength(w))
  BY <1>2 DEF request_parse_headers
<1> QED
  BY <1>1, <1>2

\* A verdict on a part is the verdict on the whole.
LEMMA VerdictStands ==
    ASSUME NEW w \in Wires, NEW m \in Nat, NEW n \in Nat, m <= n,
           request_parse(w, m) # "INCOMPLETE"
    PROVE  request_parse(w, n) = request_parse(w, m)
<1>1. w.head \in Nat /\ MaxHeaderBytes \in Nat
  BY LengthIsNumber, RequestAssumption
<1>2. CASE m < w.head
  <2>1. m >= MaxHeaderBytes /\ request_parse(w, m) = "BAD_REQUEST" /\ w.head > MaxHeaderBytes
    BY <1>1, <1>2 DEF request_parse
  <2>2. n < w.head => n >= MaxHeaderBytes
    BY <1>1, <2>1
  <2> QED
    BY <2>1, <2>2 DEF request_parse
<1>3. CASE ~(m < w.head)
  <2>1. ~(n < w.head)
    BY <1>1, <1>3
  <2>2. CASE w.head > MaxHeaderBytes \/ request_parse_headers(w) # "OK"
    BY <1>3, <2>1, <2>2 DEF request_parse
  <2>3. CASE ~(w.head > MaxHeaderBytes) /\ request_parse_headers(w) = "OK"
    <3>1. ContentLength(w) \in Nat
      BY <2>3, HeadersAccepted
    <3>2. ~BodyMissing(w, m)
      BY <1>3, <2>3 DEF request_parse
    <3>3. ~BodyMissing(w, n)
      BY <1>1, <3>1, <3>2 DEF BodyMissing
    <3> QED
      BY <1>3, <2>1, <2>3, <3>2, <3>3 DEF request_parse
  <2> QED
    BY <2>2, <2>3
<1> QED
  BY <1>2, <1>3

\* No verdict is possible without a byte, and one is once the buffer is full.
LEMMA BufferIsEnough ==
    ASSUME NEW w \in Wires
    PROVE  /\ request_parse(w, 0) = "INCOMPLETE"
           /\ request_parse(w, Capacity) # "INCOMPLETE"
<1>1. /\ w.head \in Nat \ {0} /\ MaxHeaderBytes \in Nat \ {0} /\ MaxRequestBody \in Nat
      /\ Capacity = MaxHeaderBytes + MaxRequestBody
  BY LengthIsNumber, RequestAssumption DEF Capacity
<1>2. request_parse(w, 0) = "INCOMPLETE"
  BY <1>1 DEF request_parse
<1>3. CASE Capacity < w.head \/ w.head > MaxHeaderBytes \/ request_parse_headers(w) # "OK"
  <2>1. Capacity < w.head => Capacity >= MaxHeaderBytes
    BY <1>1
  <2>2. request_parse_headers(w) # "INCOMPLETE"
    BY HeadersAccepted
  <2> QED
    BY <1>2, <1>3, <2>1, <2>2 DEF request_parse
<1>4. CASE ~(Capacity < w.head) /\ ~(w.head > MaxHeaderBytes) /\ request_parse_headers(w) = "OK"
  <2>1. ~BodyMissing(w, Capacity)
    BY <1>1, <1>4, HeadersAccepted DEF BodyMissing
  <2> QED
    BY <1>2, <1>4, <2>1 DEF request_parse
<1> QED
  BY <1>3, <1>4

\* A request that is accepted has arrived whole.
LEMMA AcceptedIsWhole ==
    ASSUME NEW w \in Wires, NEW n \in Nat, request_parse(w, n) = "OK"
    PROVE  n >= w.head + ContentLength(w)
<1>1. CASE n < w.head
  BY <1>1 DEF request_parse
<1>2. CASE ~(n < w.head)
  <2>1. request_parse_headers(w) = "OK" /\ ~BodyMissing(w, n)
    BY <1>2 DEF request_parse
  <2> QED
    BY <2>1, HeadersAccepted, LengthIsNumber DEF BodyMissing
<1> QED
  BY <1>1, <1>2

-----------------------------------------------------------------------------
(* What the router binds and finds.                                          *)

Bindings == [name : Parameters, value : Words]

\* The binding at position j of a pattern and a path.
Binding(pattern, path, j) == [name |-> pattern.segments[j], value |-> path.segments[j]]

\* The parameters among the first n segments.
PositionsUpTo(pattern, path, n) == {j \in 1 .. n : pattern.segments[j] \in Parameters}

\* What the loop of router_path_matches has bound after n segments.
BoundUpTo(pattern, path, n, b) ==
    /\ b \in Seq(Bindings)
    /\ IsFiniteSet(PositionsUpTo(pattern, path, n))
    /\ Len(b) = Cardinality(PositionsUpTo(pattern, path, n))
    /\ \A i \in DOMAIN b : \E j \in PositionsUpTo(pattern, path, n) : b[i] = Binding(pattern, path, j)

\* The first segments that are compared are there.
LEMMA ComparedSegments ==
    ASSUME NEW pattern \in Patterns, NEW path \in Paths
    PROVE  /\ Compared(pattern, path) \in Nat
           /\ \A j \in 1 .. Compared(pattern, path) :
                 /\ j \in DOMAIN pattern.segments /\ j \in DOMAIN path.segments
                 /\ pattern.segments[j] \in Words \cup Parameters
                 /\ path.segments[j] \in Words
<1>1. pattern.segments \in Seq(Words \cup Parameters) /\ path.segments \in Seq(Words)
  BY DEF Patterns, Paths
<1>2. PICK m \in Nat, n \in Nat : m = Len(pattern.segments) /\ n = Len(path.segments)
  BY <1>1
<1>3. Compared(pattern, path) = IF m < n THEN m ELSE n
  BY <1>2 DEF Compared, Shorter
<1>4. ASSUME NEW j \in 1 .. Compared(pattern, path)
      PROVE  j \in 1 .. m /\ j \in 1 .. n
  BY <1>2, <1>3, <1>4
<1> QED
  BY <1>1, <1>2, <1>3, <1>4

\* One segment more.
LEMMA BindOne ==
    ASSUME NEW pattern \in Patterns, NEW path \in Paths, NEW n \in 0 .. Compared(pattern, path) - 1,
           NEW b, BoundUpTo(pattern, path, n, b)
    PROVE  BoundUpTo(pattern, path, n + 1,
                     IF pattern.segments[n + 1] \in Parameters
                     THEN Append(b, Binding(pattern, path, n + 1)) ELSE b)
<1>1. /\ n \in Nat /\ n + 1 \in 1 .. Compared(pattern, path) /\ path.segments[n + 1] \in Words
      /\ 1 .. n + 1 = (1 .. n) \cup {n + 1} /\ n + 1 \notin 1 .. n
  BY ComparedSegments
<1> DEFINE A == PositionsUpTo(pattern, path, n)
           B == PositionsUpTo(pattern, path, n + 1)
           x == Binding(pattern, path, n + 1)
<1>2. CASE pattern.segments[n + 1] \in Parameters
  <2>1. B = A \cup {n + 1} /\ n + 1 \notin A
    BY <1>1, <1>2 DEF PositionsUpTo
  <2>2. IsFiniteSet(B) /\ Cardinality(B) = Cardinality(A) + 1
    BY <2>1, FS_AddElement DEF BoundUpTo
  <2>3. x \in Bindings
    BY <1>1, <1>2 DEF Binding, Bindings
  <2>4. b \in Seq(Bindings)
    BY DEF BoundUpTo
  <2> HIDE DEF x
  <2>5. /\ Append(b, x) \in Seq(Bindings) /\ Len(Append(b, x)) = Len(b) + 1
        /\ \A i \in DOMAIN Append(b, x) : (i \in DOMAIN b /\ Append(b, x)[i] = b[i]) \/ Append(b, x)[i] = x
    BY <2>3, <2>4
  <2>6. ASSUME NEW i \in DOMAIN Append(b, x)
        PROVE  \E j \in B : Append(b, x)[i] = Binding(pattern, path, j)
    <3>1. CASE i \in DOMAIN b /\ Append(b, x)[i] = b[i]
      BY <2>1, <3>1 DEF BoundUpTo
    <3>2. CASE Append(b, x)[i] = x
      BY <2>1, <3>2 DEF x
    <3> QED
      BY <2>5, <2>6, <3>1, <3>2
  <2>7. Len(Append(b, x)) = Cardinality(B)
    BY <2>2, <2>5 DEF BoundUpTo
  <2>8. BoundUpTo(pattern, path, n + 1, Append(b, x))
    BY <2>2, <2>5, <2>6, <2>7 DEF BoundUpTo
  <2> QED
    BY <1>2, <2>8 DEF x
<1>3. CASE pattern.segments[n + 1] \notin Parameters
  <2>1. B = A
    BY <1>1, <1>3 DEF PositionsUpTo
  <2> QED
    BY <1>3, <2>1 DEF BoundUpTo
<1> QED
  BY <1>2, <1>3

\* A match binds the parameters at the compared positions, each to its segment.
LEMMA BoundIsRight ==
    ASSUME NEW pattern \in Patterns, NEW path \in Paths
    PROVE  BoundUpTo(pattern, path, Compared(pattern, path), Bound(pattern, path))
<1> DEFINE N == Compared(pattern, path)
           V == Seq(Bindings)
           Then(i, b) == IF pattern.segments[i] \in Parameters
                         THEN Append(b, Binding(pattern, path, i)) ELSE b
           IsBound(g) == g = [i \in 0 .. N |-> IF i = 0 THEN <<>> ELSE Then(i, g[i - 1])]
<1>1. N \in Nat
  BY ComparedSegments
<1>2. \A i \in 1 .. N : \A b \in V : Then(i, b) \in V
  <2>1. ASSUME NEW i \in 1 .. N, pattern.segments[i] \in Parameters
        PROVE  Binding(pattern, path, i) \in Bindings
    BY <2>1, ComparedSegments DEF Binding, Bindings
  <2> QED
    BY <2>1
<1>3. \E g : IsBound(g)
  <2> DEFINE step == [i \in 1 .. N |-> [b \in V |-> Then(i, b)]]
  <2>1. step \in [1 .. N -> [V -> V]] /\ <<>> \in V
    BY <1>2
  <2>2. \A i \in 1 .. N : \A b \in V : step[i][b] = Then(i, b)
    OBVIOUS
  <2> HIDE DEF step, V
  <2>3. PICK g \in [0 .. N -> V] : Recursive(g, N, <<>>, step)
    <3>1. PICK n \in Nat, base \in V : n = N /\ base = <<>>
      BY <1>1, <2>1
    <3>2. step \in [1 .. n -> [V -> V]]
      BY <2>1, <3>1
    <3>3. \E g \in [0 .. n -> V] : Recursive(g, n, base, step)
      BY <3>2, IntervalRecursion
    <3> QED
      BY <3>1, <3>3
  <2>4. g[0] = <<>> /\ \A i \in 1 .. N : g[i] = Then(i, g[i - 1])
    <3>1. \A i \in 1 .. N : g[i - 1] \in V
      BY <1>1
    <3> QED
      BY <2>2, <2>3, <3>1 DEF Recursive
  <2>5. IsBound(g)
    <3> DEFINE h == [i \in 0 .. N |-> IF i = 0 THEN <<>> ELSE Then(i, g[i - 1])]
    <3> HIDE DEF Then
    <3>1. \A i \in 0 .. N : g[i] = h[i]
      BY <1>1, <2>4
    <3> QED
      BY <2>3, <3>1
  <2> QED
    BY <2>5
<1>4. PICK g : IsBound(g) /\ Bound(pattern, path) = g[N]
  BY <1>3 DEF Bound, Binding
<1>5. g[0] = <<>> /\ \A i \in 1 .. N : g[i] = Then(i, g[i - 1])
  <2>1. g = [i \in 0 .. N |-> IF i = 0 THEN <<>> ELSE Then(i, g[i - 1])]
    BY <1>4
  <2> HIDE DEF Then
  <2> QED
    BY <1>1, <2>1
<1> HIDE DEF IsBound
<1> DEFINE S == {n \in 0 .. N : BoundUpTo(pattern, path, n, g[n])}
<1>6. 0 \in S
  <2>1. PositionsUpTo(pattern, path, 0) = {}
    BY DEF PositionsUpTo
  <2>2. BoundUpTo(pattern, path, 0, <<>>)
    BY <2>1, FS_EmptySet DEF BoundUpTo
  <2> QED
    BY <1>1, <1>5, <2>2
<1>7. ASSUME NEW n \in 0 .. N - 1, n \in S
      PROVE  n + 1 \in S
  <2>1. n + 1 \in 1 .. N /\ n + 1 \in 0 .. N /\ (n + 1) - 1 = n
    BY <1>1
  <2>2. g[n + 1] = Then(n + 1, g[n])
    BY <1>5, <2>1
  <2>3. BoundUpTo(pattern, path, n + 1, Then(n + 1, g[n]))
    BY <1>7, BindOne
  <2> QED
    BY <2>1, <2>2, <2>3
<1> HIDE DEF S
<1>8. N \in S
  <2>1. 0 .. N \subseteq S
    BY <1>1, <1>6, <1>7, IntervalInduction
  <2> QED
    BY <1>1, <2>1
<1> QED
  BY <1>4, <1>8 DEF S

\* A sequence whose elements are in another set is a sequence over it.
LEMMA SeqOver ==
    ASSUME NEW S, NEW T, NEW b \in Seq(S), \A i \in DOMAIN b : b[i] \in T
    PROVE  b \in Seq(T)
<1>1. PICK n \in Nat : n = Len(b)
  OBVIOUS
<1>2. b \in [1 .. n -> T]
  <2>1. DOMAIN b = 1 .. n /\ b \in [1 .. n -> S]
    BY <1>1
  <2> QED
    BY <2>1
<1> QED
  BY <1>2, SeqDef, Zenon

\* A route that matches binds no more than there is room for, and no empty value.
LEMMA MatchBinds ==
    ASSUME NEW pattern \in Patterns, NEW path \in Paths, router_path_matches(pattern, path)
    PROVE  LET b == Bound(pattern, path) IN
           /\ b \in Seq([name : Parameters, value : Words \ {EmptyWord}])
           /\ Len(b) <= MaxRouteParams
           /\ \A i \in DOMAIN b :
                 \E j \in DOMAIN pattern.segments \cap DOMAIN path.segments :
                    pattern.segments[j] = b[i].name /\ path.segments[j] = b[i].value
<1> DEFINE N == Compared(pattern, path)
           P == PositionsUpTo(pattern, path, N)
<1>0. PICK b : b = Bound(pattern, path)
  OBVIOUS
<1>1. /\ b \in Seq(Bindings) /\ Len(b) = Cardinality(P)
      /\ \A i \in DOMAIN b : \E j \in P : b[i] = Binding(pattern, path, j)
  BY <1>0, BoundIsRight DEF BoundUpTo
<1>2. P = ParameterPositions(pattern, path)
  BY DEF PositionsUpTo, ParameterPositions
<1>3. CASE pattern = Root \/ path = Root
  <2>1. pattern = Root /\ path = Root
    BY <1>3 DEF router_path_matches
  <2>2. Root.segments = <<>>
    BY DEF Root
  <2>3. N = 0
    BY <2>1, <2>2 DEF Compared, Shorter
  <2>4. P = {}
    BY <2>3 DEF PositionsUpTo
  <2>5. Len(b) = 0 /\ b = <<>>
    BY <1>1, <2>4, FS_EmptySet
  <2>6. Len(b) <= MaxRouteParams
    BY <2>5, RouterAssumption
  <2> QED
    BY <1>0, <2>5, <2>6
<1>4. CASE ~(pattern = Root \/ path = Root)
  <2>1. /\ \A j \in 1 .. N : SegmentFits(pattern.segments[j], path.segments[j])
        /\ Cardinality(P) <= MaxRouteParams
    BY <1>2, <1>4 DEF router_path_matches, RoomFor
  <2>2. ASSUME NEW j \in P
        PROVE  /\ Binding(pattern, path, j) \in [name : Parameters, value : Words \ {EmptyWord}]
               /\ j \in DOMAIN pattern.segments \cap DOMAIN path.segments
    <3>1. j \in 1 .. N /\ pattern.segments[j] \in Parameters
      BY DEF PositionsUpTo
    <3>2. path.segments[j] \in Words \ {EmptyWord}
      BY <2>1, <3>1, ComparedSegments DEF SegmentFits
    <3> QED
      BY <3>1, <3>2, ComparedSegments DEF Binding
  <2>3. \A i \in DOMAIN b : b[i] \in [name : Parameters, value : Words \ {EmptyWord}]
    BY <1>1, <2>2
  <2>4. b \in Seq([name : Parameters, value : Words \ {EmptyWord}])
    BY <1>1, <2>3, SeqOver
  <2>5. ASSUME NEW i \in DOMAIN b
        PROVE  \E j \in DOMAIN pattern.segments \cap DOMAIN path.segments :
                  pattern.segments[j] = b[i].name /\ path.segments[j] = b[i].value
    <3>1. PICK j \in P : b[i] = Binding(pattern, path, j)
      BY <1>1, <2>5
    <3> QED
      BY <2>2, <3>1 DEF Binding
  <2> QED
    BY <1>0, <1>1, <2>1, <2>4, <2>5
<1> QED
  BY <1>3, <1>4

\* The static segments of a match are counted by a number.
LEMMA StaticIsNumber ==
    ASSUME NEW pattern \in Patterns, NEW path \in Paths
    PROVE  StaticCount(pattern, path) \in Int
<1>1. ParameterPositions(pattern, path) = PositionsUpTo(pattern, path, Compared(pattern, path))
  BY DEF PositionsUpTo, ParameterPositions
<1>2. Cardinality(ParameterPositions(pattern, path)) \in Nat
  BY <1>1, BoundIsRight, FS_CardinalityType DEF BoundUpTo
<1> QED
  BY <1>2, ComparedSegments DEF StaticCount

Static(i, path) == StaticCount(routes[i].path, path)

\* i's place is taken by the route j: j has more static segments, or as many and
\* comes before.
Yields(i, j, path) ==
    Static(i, path) <= Static(j, path) /\ (i < j => Static(i, path) < Static(j, path))

\* f is what router_find has found among the first n routes.
BestUpTo(n, m, path, f) ==
    /\ f.index \in 0 .. n
    /\ f.index = 0 => f.params = <<>>
    /\ f.index # 0 => Candidate(f.index, m, path) /\ f.params = Bound(routes[f.index].path, path)
    /\ \A i \in 1 .. n : Candidate(i, m, path) => f.index # 0 /\ Yields(i, f.index, path)

\* What router_find holds on to after route n + 1.
Pick(n, m, path, f) ==
    IF Candidate(n + 1, m, path) /\ Better(n + 1, f, path)
    THEN [index |-> n + 1, params |-> Bound(routes[n + 1].path, path)] ELSE f

\* One route more.
LEMMA FindOne ==
    ASSUME routes \in Seq(RouteArgs), NEW m, NEW path \in Paths,
           NEW n \in 0 .. Len(routes) - 1, NEW f, BestUpTo(n, m, path, f)
    PROVE  BestUpTo(n + 1, m, path, Pick(n, m, path, f))
<1>1. PICK l \in Nat : l = Len(routes) /\ DOMAIN routes = 1 .. l
  OBVIOUS
<1>2. ASSUME NEW i \in 1 .. l
      PROVE  Static(i, path) \in Int
  <2>1. routes[i].path \in Patterns
    BY <1>1, RouterAssumption
  <2> QED
    BY <2>1, StaticIsNumber DEF Static
<1>3. /\ n \in Nat /\ n + 1 \in 1 .. l /\ f.index \in 0 .. n
      /\ \A i \in 1 .. n + 1 : i \in 1 .. n \/ i = n + 1
  BY <1>1 DEF BestUpTo
<1>4. CASE Candidate(n + 1, m, path) /\ Better(n + 1, f, path)
  <2>1. PICK g : g = [index |-> n + 1, params |-> Bound(routes[n + 1].path, path)]
    OBVIOUS
  <2>2. Pick(n, m, path, f) = g /\ g.index = n + 1 /\ g.params = Bound(routes[n + 1].path, path)
    BY <1>4, <2>1 DEF Pick
  <2>3. ASSUME NEW i \in 1 .. n, Candidate(i, m, path)
        PROVE  Yields(i, n + 1, path)
    <3>1. f.index # 0 /\ Static(i, path) <= Static(f.index, path)
      BY <2>3 DEF BestUpTo, Yields
    <3>2. Static(n + 1, path) > Static(f.index, path)
      BY <1>4, <3>1 DEF Better, Static
    <3>3. f.index \in 1 .. l /\ i \in 1 .. l
      BY <1>3, <3>1
    <3>4. Static(i, path) \in Int /\ Static(f.index, path) \in Int /\ Static(n + 1, path) \in Int
      BY <1>2, <1>3, <3>3
    <3>5. Static(i, path) < Static(n + 1, path) /\ Static(i, path) <= Static(n + 1, path)
      BY <3>1, <3>2, <3>4
    <3> QED
      BY <3>5 DEF Yields
  <2>4. Yields(n + 1, n + 1, path)
    BY <1>2, <1>3 DEF Yields
  <2>5. \A i \in 1 .. n + 1 : Candidate(i, m, path) => Yields(i, n + 1, path)
    BY <1>3, <2>3, <2>4
  <2>6. n + 1 # 0 /\ n + 1 \in 0 .. n + 1
    BY <1>3
  <2> QED
    BY <1>4, <2>2, <2>5, <2>6 DEF BestUpTo
<1>5. CASE ~(Candidate(n + 1, m, path) /\ Better(n + 1, f, path))
  <2>1. Pick(n, m, path, f) = f
    BY <1>5 DEF Pick
  <2>2. ASSUME Candidate(n + 1, m, path)
        PROVE  f.index # 0 /\ Yields(n + 1, f.index, path)
    <3>1. f.index # 0 /\ ~(Static(n + 1, path) > Static(f.index, path))
      BY <1>5, <2>2 DEF Better, Static
    <3>2. f.index \in 1 .. l /\ ~(n + 1 < f.index)
      BY <1>3, <3>1
    <3>3. Static(f.index, path) \in Int /\ Static(n + 1, path) \in Int
      BY <1>2, <1>3, <3>2
    <3> QED
      BY <3>1, <3>2, <3>3 DEF Yields
  <2>3. \A i \in 1 .. n + 1 : Candidate(i, m, path) => f.index # 0 /\ Yields(i, f.index, path)
    BY <1>3, <2>2 DEF BestUpTo
  <2>4. f.index \in 0 .. n + 1
    BY <1>3
  <2> QED
    BY <2>1, <2>3, <2>4 DEF BestUpTo
<1> QED
  BY <1>4, <1>5

\* router_find returns the first of the most specific candidates, if there is one.
LEMMA FindIsRight ==
    ASSUME routes \in Seq(RouteArgs), NEW m, NEW path \in Paths
    PROVE  BestUpTo(Len(routes), m, path, router_find(m, path))
<1>1. PICK N \in Nat : N = Len(routes) /\ DOMAIN routes = 1 .. N
  OBVIOUS
<1> DEFINE W == {<<>>} \cup {Bound(routes[i].path, path) : i \in 1 .. N}
           V == [index : 0 .. N, params : W]
           Then(i, f) == IF Candidate(i, m, path) /\ Better(i, f, path)
                         THEN [index |-> i, params |-> Bound(routes[i].path, path)] ELSE f
           IsBound(g) == g = [i \in 0 .. N |-> IF i = 0 THEN None ELSE Then(i, g[i - 1])]
<1>2. \A i \in 1 .. N : \A f \in V : Then(i, f) \in V
  <2>1. ASSUME NEW i \in 1 .. N
        PROVE  [index |-> i, params |-> Bound(routes[i].path, path)] \in V
    <3>1. i \in 0 .. N /\ Bound(routes[i].path, path) \in W
      BY <1>1
    <3> HIDE DEF W
    <3> QED
      BY <3>1
  <2> HIDE DEF V
  <2> QED
    BY <2>1
<1>3. \E g : IsBound(g)
  <2> DEFINE step == [i \in 1 .. N |-> [f \in V |-> Then(i, f)]]
  <2>1. step \in [1 .. N -> [V -> V]]
    <3> HIDE DEF V, Then
    <3> QED
      BY <1>2
  <2>2. \A i \in 1 .. N : \A f \in V : step[i][f] = Then(i, f)
    OBVIOUS
  <2>3. None \in V
    BY <1>1 DEF None
  <2> HIDE DEF step, V
  <2>4. PICK g \in [0 .. N -> V] : Recursive(g, N, None, step)
    BY <1>1, <2>1, <2>3, IntervalRecursion
  <2>5. g[0] = None /\ \A i \in 1 .. N : g[i] = Then(i, g[i - 1])
    <3>1. \A i \in 1 .. N : g[i - 1] \in V
      BY <1>1
    <3> QED
      BY <2>2, <2>4, <3>1 DEF Recursive
  <2>6. IsBound(g)
    <3> DEFINE h == [i \in 0 .. N |-> IF i = 0 THEN None ELSE Then(i, g[i - 1])]
    <3> HIDE DEF Then
    <3>1. \A i \in 0 .. N : g[i] = h[i]
      BY <1>1, <2>5
    <3> QED
      BY <2>4, <3>1
  <2> QED
    BY <2>6
<1>4. PICK g : IsBound(g) /\ router_find(m, path) = g[N]
  BY <1>1, <1>3 DEF router_find
<1>5. g[0] = None /\ \A i \in 1 .. N : g[i] = Then(i, g[i - 1])
  <2>1. g = [i \in 0 .. N |-> IF i = 0 THEN None ELSE Then(i, g[i - 1])]
    BY <1>4
  <2> HIDE DEF Then
  <2> QED
    BY <1>1, <2>1
<1> HIDE DEF IsBound
<1> DEFINE S == {n \in 0 .. N : BestUpTo(n, m, path, g[n])}
<1>6. 0 \in S
  <2>1. BestUpTo(0, m, path, None)
    BY DEF BestUpTo, None
  <2> QED
    BY <1>1, <1>5, <2>1
<1>7. ASSUME NEW n \in 0 .. N - 1, n \in S
      PROVE  n + 1 \in S
  <2>1. n + 1 \in 1 .. N /\ n + 1 \in 0 .. N /\ (n + 1) - 1 = n
    BY <1>1
  <2>2. g[n + 1] = Then(n + 1, g[n])
    BY <1>5, <2>1
  <2>3. Then(n + 1, g[n]) = Pick(n, m, path, g[n])
    BY DEF Pick
  <2>4. BestUpTo(n + 1, m, path, Pick(n, m, path, g[n]))
    BY <1>1, <1>7, FindOne
  <2> QED
    BY <2>1, <2>2, <2>3, <2>4
<1> HIDE DEF S
<1>8. N \in S
  <2>1. 0 .. N \subseteq S
    BY <1>1, <1>6, <1>7, IntervalInduction
  <2> QED
    BY <1>1, <2>1
<1> QED
  BY <1>1, <1>4, <1>8 DEF S

-----------------------------------------------------------------------------
(* The inductive invariant.                                                  *)

\* What has been read, and what the verdict on it is.
ReadingInv ==
    /\ at = "start" => received = 0
    /\ at # "start" => wire \in Wires /\ received <= wire.size
    /\ at \in {"start", "read"} => verdict = "INCOMPLETE" /\ cut = FALSE
    /\ at = "read" => request_parse(wire, received) = "INCOMPLETE"
    /\ at \in {"form", "dispatch", "done"} => cut = TRUE \/ verdict = request_parse(wire, received)
    /\ at \in {"form", "dispatch"} \/ called # 0 => verdict = "OK" /\ cut = FALSE

\* The method a request may be dispatched by, once its form is seen.
MayBeCalledBy(w, m) ==
    IF CarriesForm(w) THEN m = Overridden(w) /\ (Changes(m) => Verified(w))
    ELSE m = w.method

\* What is known about the method between the form and the handler.
FormInv ==
    /\ at = "form" => method = wire.method
    /\ at = "dispatch" \/ called # 0 => MayBeCalledBy(wire, method)

\* The handler is called last, and it is the route's that router_find chose.
CalledInv ==
    /\ at # "done" => called = 0
    /\ called # 0 =>
          /\ Candidate(called, method, wire.path)
          /\ \A i \in DOMAIN routes : Candidate(i, method, wire.path) => Yields(i, called, wire.path)
          /\ params = Bound(routes[called].path, wire.path)

Inv == TypeOK /\ ReadingInv /\ FormInv /\ CalledInv

\* The methods of a request, before and after its form.
LEMMA MethodsOfWire ==
    ASSUME NEW w \in Wires
    PROVE  /\ w.method \in Methods /\ Overridden(w) \in Methods
           /\ w.path \in Paths /\ w.size \in Nat
<1>1. IsWire(w)
  BY RequestAssumption
<1> QED
  BY <1>1 DEF IsWire, Overridden, Methods

\* The invariant holds at first.
LEMMA InitInv == Init => Inv
<1> SUFFICES ASSUME Init
             PROVE  Inv
  OBVIOUS
<1>1. routes = <<>> /\ called = 0 /\ params = <<>> /\ result = "none"
  BY DEF Init, RouterInit
<1>2. RouterTypeOK
  BY <1>1, RouterAssumption DEF RouterTypeOK
<1>3. 0 \in 0 .. MaxHeaderBytes + MaxRequestBody
  BY RequestAssumption
<1>4. TypeOK
  BY <1>2, <1>3 DEF TypeOK, Init, Methods, Statuses
<1> QED
  BY <1>1, <1>4 DEF Inv, ReadingInv, FormInv, CalledInv, Init

\* Reading ends with the request's method, or an answer.
LEMMA ReadEndsInv ==
    ASSUME Inv, at = "read", NEW v \in {"OK", "BAD_REQUEST", "PAYLOAD_TOO_LARGE", "UNSUPPORTED"},
           ReadEnds(v), UNCHANGED <<router, wire>>,
           received' \in 0 .. Capacity, received' <= wire.size, cut' \in BOOLEAN,
           v = "OK" => cut' = FALSE, cut' = TRUE \/ v = request_parse(wire, received')
    PROVE  Inv'
<1>1. /\ wire \in Wires /\ wire' = wire /\ called' = 0 /\ called = 0 /\ verdict' = v
      /\ at' \in {"form", "done"} /\ (at' = "form" => v = "OK" /\ method' = wire.method)
      /\ method' \in {method, wire.method} /\ status' \in Statuses
  BY DEF Inv, ReadingInv, CalledInv, ReadEnds, router, TypeOK, Statuses
<1>2. RouterTypeOK'
  BY DEF Inv, TypeOK, RouterTypeOK, router
<1>3. TypeOK'
  BY <1>1, <1>2, MethodsOfWire DEF Inv, TypeOK, Capacity
<1>4. ReadingInv'
  BY <1>1 DEF ReadingInv
<1>5. FormInv' /\ CalledInv'
  BY <1>1 DEF FormInv, CalledInv
<1> QED
  BY <1>3, <1>4, <1>5 DEF Inv

\* A piece that arrives keeps the invariant.
LEMMA ReceiveInv ==
    ASSUME Inv, NEW n \in 1 .. Capacity, Receive(n)
    PROVE  Inv'
<1>1. /\ at = "read" /\ wire \in Wires /\ called = 0 /\ verdict = "INCOMPLETE" /\ cut = FALSE
      /\ received \in Nat /\ wire.size \in Nat
  BY MethodsOfWire DEF Inv, ReadingInv, CalledInv, Receive, TypeOK, RouterTypeOK
<1>2. MaxHeaderBytes \in Nat /\ MaxRequestBody \in Nat /\ Capacity = MaxHeaderBytes + MaxRequestBody
  BY RequestAssumption DEF Capacity
<1>3. PICK r \in Nat : r = received + n
  BY <1>1, <1>2
<1>4. /\ r \in 0 .. Capacity /\ r <= wire.size /\ received' = r /\ cut' = FALSE
      /\ UNCHANGED <<router, wire>>
  BY <1>1, <1>2, <1>3 DEF Receive
<1>5. request_parse(wire, r) \in
         {"INCOMPLETE", "OK", "BAD_REQUEST", "PAYLOAD_TOO_LARGE", "UNSUPPORTED"}
  BY <1>1, HeadersAccepted DEF request_parse
<1>6. CASE request_parse(wire, r) # "INCOMPLETE"
  <2>1. ReadEnds(request_parse(wire, r))
    BY <1>3, <1>6 DEF Receive
  <2>2. PICK v \in {"OK", "BAD_REQUEST", "PAYLOAD_TOO_LARGE", "UNSUPPORTED"} :
           v = request_parse(wire, r)
    BY <1>5, <1>6
  <2> QED
    BY <1>1, <1>4, <2>1, <2>2, ReadEndsInv
<1>7. CASE request_parse(wire, r) = "INCOMPLETE"
  <2>1. r # Capacity
    BY <1>1, <1>7, BufferIsEnough
  <2>2. UNCHANGED <<at, verdict, method, status>>
    BY <1>3, <1>7, <2>1 DEF Receive
  <2>3. UNCHANGED <<routes, result, called, params>>
    BY <1>4 DEF router
  <2>4. RouterTypeOK'
    BY <2>3 DEF Inv, TypeOK, RouterTypeOK
  <2>5. TypeOK'
    BY <1>2, <1>4, <2>2, <2>4 DEF Inv, TypeOK
  <2>6. ReadingInv' /\ FormInv' /\ CalledInv'
    BY <1>1, <1>4, <1>7, <2>2, <2>3 DEF ReadingInv, FormInv, CalledInv
  <2> QED
    BY <2>5, <2>6 DEF Inv
<1> QED
  BY <1>6, <1>7

\* The handler that router_dispatch calls is the one of the best route.
LEMMA DispatchInv ==
    ASSUME Inv, Dispatch
    PROVE  Inv'
<1>1. /\ at = "dispatch" /\ at' = "done" /\ wire \in Wires /\ verdict = "OK" /\ cut = FALSE
      /\ UNCHANGED <<routes, wire, received, verdict, method, cut>>
      /\ method \in Methods /\ routes \in Seq(RouteArgs) /\ Len(routes) <= RouterMaxRoutes
  BY DEF Inv, ReadingInv, Dispatch, router_dispatch, TypeOK, RouterTypeOK
<1>2. wire.path \in Paths /\ Len(routes) \in Nat /\ DOMAIN routes = 1 .. Len(routes)
  BY <1>1, MethodsOfWire
<1>3. PICK f : f = router_find(method, wire.path)
  OBVIOUS
<1>4. BestUpTo(Len(routes), method, wire.path, f)
  BY <1>1, <1>2, <1>3, FindIsRight
<1>5. /\ params' = f.params /\ called' \in {0, f.index}
      /\ result' \in {"dispatched", "not_allowed", "not_found"}
  BY <1>3 DEF Dispatch, router_dispatch
<1>6. /\ params' \in Seq([name : Parameters, value : Words \ {EmptyWord}])
      /\ Len(params') <= MaxRouteParams
  <2>1. CASE f.index = 0
    <3>1. params' = <<>>
      BY <1>4, <1>5, <2>1 DEF BestUpTo
    <3> QED
      BY <3>1, RouterAssumption
  <2>2. CASE f.index # 0
    <3>1. f.index \in DOMAIN routes /\ Candidate(f.index, method, wire.path)
          /\ params' = Bound(routes[f.index].path, wire.path)
      BY <1>2, <1>4, <1>5, <2>2 DEF BestUpTo
    <3>2. routes[f.index].path \in Patterns
      BY <1>1, <3>1, RouterAssumption
    <3> QED
      BY <1>2, <3>1, <3>2, MatchBinds DEF Candidate
  <2> QED
    BY <2>1, <2>2
<1>7. called' \in 0 .. Len(routes)
  BY <1>2, <1>4, <1>5 DEF BestUpTo
<1>8. RouterTypeOK'
  BY <1>1, <1>5, <1>6, <1>7 DEF RouterTypeOK
<1>9. status' \in Statuses
  BY <1>5 DEF Dispatch, AnswerTo, Statuses
<1>10. TypeOK'
  BY <1>1, <1>8, <1>9 DEF Inv, TypeOK
<1>11. ReadingInv'
  BY <1>1 DEF Inv, ReadingInv
<1>12. FormInv'
  <2>1. MayBeCalledBy(wire, method)
    BY <1>1 DEF Inv, FormInv
  <2> QED
    BY <1>1, <2>1 DEF FormInv
<1>13. CalledInv'
  <2> SUFFICES ASSUME called' # 0
               PROVE  CalledInv'
    BY <1>1 DEF CalledInv
  <2>1. called' = f.index /\ f.index # 0
    BY <1>5
  <2>2. /\ Candidate(called', method, wire.path) /\ params' = Bound(routes[called'].path, wire.path)
        /\ \A i \in DOMAIN routes :
              Candidate(i, method, wire.path) => Yields(i, called', wire.path)
    BY <1>2, <1>4, <1>5, <2>1 DEF BestUpTo
  <2> QED
    BY <1>1, <2>2 DEF CalledInv, Candidate, Yields, Static
<1> QED
  BY <1>10, <1>11, <1>12, <1>13 DEF Inv

\* Every step keeps the invariant.
LEMMA NextInv == Inv /\ [Next]_vars => Inv'
<1> SUFFICES ASSUME Inv, [Next]_vars
             PROVE  Inv'
  OBVIOUS
<1>1. CASE AddRoute
  <2>1. PICK route \in RouteArgs : router_add_guarded(route)
    BY <1>1 DEF AddRoute
  <2>2. /\ at = "start" /\ called = 0 /\ routes \in Seq(RouteArgs) /\ Len(routes) < RouterMaxRoutes
        /\ UNCHANGED <<at, wire, received, verdict, method, status, cut, result, called, params>>
    BY <1>1, <2>1 DEF Inv, CalledInv, AddRoute, router_add_guarded, TypeOK, RouterTypeOK
  <2>3. routes' \in Seq(RouteArgs) /\ Len(routes') <= RouterMaxRoutes /\ 0 \in 0 .. Len(routes')
    BY <2>1, <2>2, RouterAssumption DEF router_add_guarded
  <2>4. RouterTypeOK'
    BY <2>2, <2>3 DEF Inv, TypeOK, RouterTypeOK
  <2>5. TypeOK'
    BY <2>2, <2>4 DEF Inv, TypeOK
  <2>6. ReadingInv' /\ FormInv' /\ CalledInv'
    BY <2>2 DEF Inv, ReadingInv, FormInv, CalledInv
  <2> QED
    BY <2>5, <2>6 DEF Inv
<1>2. CASE Accept
  <2>1. /\ at = "start" /\ at' = "read" /\ wire' \in Wires /\ received = 0 /\ called = 0
        /\ verdict = "INCOMPLETE" /\ cut = FALSE
        /\ UNCHANGED <<routes, result, called, params, received, verdict, method, status, cut>>
    BY <1>2 DEF Inv, ReadingInv, CalledInv, Accept, router
  <2>2. 0 <= wire'.size /\ request_parse(wire', 0) = "INCOMPLETE"
    BY <2>1, MethodsOfWire, BufferIsEnough
  <2>3. RouterTypeOK'
    BY <2>1 DEF Inv, TypeOK, RouterTypeOK
  <2>4. TypeOK'
    BY <2>1, <2>3 DEF Inv, TypeOK
  <2>5. ReadingInv' /\ FormInv' /\ CalledInv'
    BY <2>1, <2>2 DEF ReadingInv, FormInv, CalledInv
  <2> QED
    BY <2>4, <2>5 DEF Inv
<1>3. ASSUME NEW n \in 1 .. Capacity, Receive(n)
      PROVE  Inv'
  BY <1>3, ReceiveInv
<1>4. CASE ReadFails
  <2>1. /\ at = "read" /\ cut' = TRUE /\ ReadEnds("BAD_REQUEST") /\ received' = received
        /\ UNCHANGED <<router, wire>>
    BY <1>4 DEF ReadFails
  <2>2. received' \in 0 .. Capacity /\ received' <= wire.size
    BY <2>1 DEF Inv, TypeOK, ReadingInv, Capacity
  <2> QED
    BY <2>1, <2>2, ReadEndsInv
<1>5. ASSUME at \in {"form", "dispatch"}, at' \in {"dispatch", "done"},
             UNCHANGED <<router, wire, received, verdict, cut>>,
             method' \in Methods, status' \in Statuses,
             at' = "dispatch" => MayBeCalledBy(wire, method')
      PROVE  Inv'
  <2>1. called = 0 /\ UNCHANGED <<routes, result, called, params>>
    BY <1>5 DEF Inv, CalledInv, router
  <2>2. RouterTypeOK'
    BY <2>1 DEF Inv, TypeOK, RouterTypeOK
  <2>3. TypeOK'
    BY <1>5, <2>2 DEF Inv, TypeOK
  <2>4. ReadingInv'
    BY <1>5, <2>1 DEF Inv, ReadingInv
  <2>5. FormInv' /\ CalledInv'
    BY <1>5, <2>1 DEF FormInv, CalledInv
  <2> QED
    BY <2>3, <2>4, <2>5 DEF Inv
<1>6. at \in {"form", "dispatch"} => wire \in Wires /\ method \in Methods /\ status \in Statuses
  BY DEF Inv, ReadingInv, TypeOK
<1>7. CASE NoForm
  <2>1. method = wire.method /\ MayBeCalledBy(wire, method)
    BY <1>7 DEF Inv, FormInv, NoForm, MayBeCalledBy
  <2> QED
    BY <1>5, <1>6, <1>7, <2>1 DEF NoForm
<1>8. CASE FormFails
  BY <1>5, <1>6, <1>8 DEF FormFails, Refuse, Statuses
<1>9. CASE FormParsed
  <2>1. Overridden(wire) \in Methods
    BY <1>6, <1>9, MethodsOfWire DEF FormParsed
  <2>2. ~(Changes(Overridden(wire)) /\ ~Verified(wire)) => MayBeCalledBy(wire, method')
    BY <1>9 DEF FormParsed, MayBeCalledBy
  <2>3. CASE Changes(Overridden(wire)) /\ ~Verified(wire)
    BY <1>5, <1>6, <1>9, <2>1, <2>3 DEF FormParsed, Refuse, Statuses
  <2>4. CASE ~(Changes(Overridden(wire)) /\ ~Verified(wire))
    BY <1>5, <1>6, <1>9, <2>1, <2>2, <2>4 DEF FormParsed
  <2> QED
    BY <2>3, <2>4
<1>10. CASE PathFails
  BY <1>5, <1>6, <1>10 DEF PathFails, Refuse, Statuses
<1>11. CASE Dispatch
  BY <1>11, DispatchInv
<1>12. CASE UNCHANGED vars
  BY <1>12 DEF vars, router, Inv, TypeOK, RouterTypeOK, ReadingInv, FormInv, CalledInv,
     Candidate, Yields, Static
<1> QED
  BY <1>1, <1>2, <1>3, <1>4, <1>7, <1>8, <1>9, <1>10, <1>11, <1>12 DEF Next

\* Every state satisfies the invariant.
THEOREM InvTheorem == Spec => []Inv
<1> QED
  BY InitInv, NextInv, PTL DEF Spec

-----------------------------------------------------------------------------
(* What follows from it.                                                     *)

\* The verdict on what has arrived is the verdict on all that the client sends.
LEMMA InvCuts == Inv => CutsIrrelevant
<1> SUFFICES ASSUME Inv
             PROVE  CutsIrrelevant
  OBVIOUS
<1>1. ASSUME at # "start"
      PROVE  wire \in Wires /\ received \in Nat /\ wire.size \in Nat /\ received <= wire.size
  <2>1. wire \in Wires /\ received <= wire.size
    BY <1>1 DEF Inv, ReadingInv
  <2>2. received \in Nat
    BY DEF Inv, TypeOK
  <2> QED
    BY <2>1, <2>2, MethodsOfWire
<1>2. ASSUME verdict # "INCOMPLETE", cut # TRUE
      PROVE  verdict = request_parse(wire, wire.size)
  <2>1. at # "start" /\ verdict = request_parse(wire, received)
    BY <1>2 DEF Inv, ReadingInv, TypeOK
  <2> QED
    BY <1>1, <1>2, <2>1, VerdictStands
<1>3. ASSUME at = "read", received = wire.size
      PROVE  request_parse(wire, wire.size) = "INCOMPLETE"
  BY <1>3 DEF Inv, ReadingInv
<1> QED
  BY <1>2, <1>3 DEF CutsIrrelevant

\* The handler's method is the request's, or one that its verified form asks for.
LEMMA InvForms == Inv => FormsVerified
<1> SUFFICES ASSUME Inv, called # 0
             PROVE  FormsVerified
  BY DEF FormsVerified
<1>1. /\ wire \in Wires /\ received \in Nat /\ request_parse(wire, received) = "OK"
      /\ MayBeCalledBy(wire, method) /\ called \in DOMAIN routes /\ routes[called].method = method
  <2>1. at = "done" /\ verdict = "OK" /\ cut = FALSE
    BY DEF Inv, CalledInv, ReadingInv
  <2>2. wire \in Wires /\ request_parse(wire, received) = "OK" /\ MayBeCalledBy(wire, method)
    BY <2>1 DEF Inv, ReadingInv, FormInv
  <2>3. received \in Nat /\ called \in DOMAIN routes
    BY DEF Inv, TypeOK, RouterTypeOK
  <2> QED
    BY <2>2, <2>3 DEF Inv, CalledInv, Candidate
<1>2. method \in Methods \ {"UNKNOWN"}
  <2>1. routes[called] \in RouteArgs
    BY <1>1 DEF Inv, TypeOK, RouterTypeOK
  <2> QED
    BY <1>1, <2>1, RouterAssumption
<1>3. received >= wire.head + ContentLength(wire)
  BY <1>1, AcceptedIsWhole
<1>4. ASSUME method # "GET", FormType(wire)
      PROVE  Verified(wire)
  <2>1. Changes(method)
    BY <1>2, <1>4 DEF Changes, Methods
  <2> QED
    BY <1>1, <1>4, <2>1 DEF MayBeCalledBy, CarriesForm, Changes
<1>5. ASSUME method # wire.method
      PROVE  wire.method \in {"POST", "PATCH", "PUT", "DELETE"} /\ method \in {"PATCH", "DELETE"}
  <2>1. CarriesForm(wire) /\ method = Overridden(wire)
    BY <1>1, <1>5 DEF MayBeCalledBy
  <2> QED
    BY <1>5, <2>1 DEF CarriesForm, Overridden
<1> QED
  BY <1>1, <1>3, <1>4, <1>5 DEF FormsVerified

\* The handler's route is the best of those that fit, and the parameters its own.
LEMMA InvBest == Inv => MostSpecific
<1> SUFFICES ASSUME Inv, called # 0
             PROVE  MostSpecific
  BY DEF MostSpecific
<1>1. /\ Candidate(called, method, wire.path) /\ params = Bound(routes[called].path, wire.path)
      /\ \A i \in DOMAIN routes : Candidate(i, method, wire.path) => Yields(i, called, wire.path)
  BY DEF Inv, CalledInv
<1>2. routes[called].path \in Patterns /\ wire.path \in Paths
  <2>1. at # "start" /\ called \in DOMAIN routes /\ routes[called] \in RouteArgs
    BY DEF Inv, CalledInv, TypeOK, RouterTypeOK
  <2>2. wire \in Wires
    BY <2>1 DEF Inv, ReadingInv
  <2> QED
    BY <2>1, <2>2, MethodsOfWire, RouterAssumption
<1>3. \A i \in DOMAIN params :
         \E j \in DOMAIN routes[called].path.segments \cap DOMAIN wire.path.segments :
            /\ routes[called].path.segments[j] = params[i].name
            /\ wire.path.segments[j] = params[i].value
  BY <1>1, <1>2, MatchBinds DEF Candidate
<1> QED
  BY <1>1, <1>3 DEF MostSpecific, Yields, Static

-----------------------------------------------------------------------------
(* The theorems.                                                             *)

\* Every variable keeps its type: the buffer is never overrun, the table of
\* routes and the parameters of a match stay within their limits.
THEOREM TypeTheorem == Spec => []TypeOK
<1> QED
  BY InvTheorem, PTL DEF Inv

\* ceasy_read_request comes to the verdict on the whole request, however TCP cuts
\* it, and waits for no byte that it does not need.
THEOREM CutsTheorem == Spec => []CutsIrrelevant
<1> QED
  BY InvTheorem, InvCuts, PTL

\* No handler that changes something runs for a form without the csrf token, and
\* no link reaches one (ceasy_handle_client).
THEOREM FormsTheorem == Spec => []FormsVerified
<1> QED
  BY InvTheorem, InvForms, PTL

\* router_dispatch calls the handler of the first of the most specific routes that
\* fit, with the parameters of that route.
THEOREM BestTheorem == Spec => []MostSpecific
<1> QED
  BY InvTheorem, InvBest, PTL

=============================================================================
