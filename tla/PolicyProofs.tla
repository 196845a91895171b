--------------------------- MODULE PolicyProofs ----------------------------
(* What is proved of PolicyEvaluation, for every snapshot and every request  *)
(* of the forms its assumptions state, and of PolicyScores, for all address  *)
(* lists and all sets of anomalies that are tuned one by one.                *)
EXTENDS PolicyEvaluation, PolicyScores, OrderingProofs, SequenceTheorems

-----------------------------------------------------------------------------
(* PolicyEvaluation                                                        *)

(* Induction over the numbers, and what is defined by recursion over them.  *)

LEMMA AllNumbers ==
  ASSUME NEW S, 0 \in S, \A n \in Nat : n \in S => n + 1 \in S
  PROVE  \A n \in Nat : n \in S
<1> SUFFICES ASSUME NEW i \in Nat, i \notin S PROVE FALSE
  OBVIOUS
<1> DEFINE T == Nat \ S
<1>1. \E m \in T : \A n \in T : ~ (<<n, m>> \in OpToRel(<, Nat))
  BY NatLessThanWellFounded, WFMin
<1>2. PICK m \in T : \A n \in T : ~ (n < m)
  BY <1>1 DEF OpToRel
<1>3. m - 1 \in Nat /\ m - 1 < m /\ (m - 1) + 1 = m
  BY <1>2
<1> QED  BY <1>2, <1>3

\* A function defined by a first value and a step exists.
LEMMA RecursionExists ==
  ASSUME NEW V, NEW a \in V, NEW g \in [V -> V]
  PROVE  \E f \in [Nat -> V] : f[0] = a /\ \A k \in Nat : k # 0 => f[k] = g[f[k - 1]]
<1> DEFINE F(n) == {h \in [0 .. n -> V] : h[0] = a /\ \A k \in 1 .. n : h[k] = g[h[k - 1]]}
           S == {n \in Nat : F(n) # {}}
           D == {k \in Nat : \A m, n \in Nat : k <= m /\ k <= n =>
                               \A h \in F(m), i \in F(n) : h[k] = i[k]}
           f == [n \in Nat |-> (CHOOSE h \in F(n) : TRUE)[n]]
<1>1. \A n \in Nat : F(n) # {}
  <2>1. 0 \in S
    <3>1. [k \in 0 .. 0 |-> a] \in F(0)
      OBVIOUS
    <3> QED  BY <3>1
  <2>2. ASSUME NEW n \in Nat, n \in S PROVE n + 1 \in S
    <3>1. PICK h \in F(n) : TRUE
      BY <2>2
    <3> DEFINE i == [k \in 0 .. n + 1 |-> IF k = n + 1 THEN g[h[n]] ELSE h[k]]
    <3>2. h \in [0 .. n -> V] /\ h[0] = a /\ \A k \in 1 .. n : h[k] = g[h[k - 1]]
      BY <3>1
    <3>3. \A k \in 0 .. n + 1 : i[k] \in V
      <4> SUFFICES ASSUME NEW k \in 0 .. n + 1 PROVE i[k] \in V
        OBVIOUS
      <4>1. h[n] \in V
        BY <3>2
      <4>2. k # n + 1 => k \in 0 .. n
        OBVIOUS
      <4> QED  BY <3>2, <4>1, <4>2
    <3>4. i[0] = a
      BY <3>2
    <3>5. \A k \in 1 .. n + 1 : i[k] = g[i[k - 1]]
      <4> SUFFICES ASSUME NEW k \in 1 .. n + 1 PROVE i[k] = g[i[k - 1]]
        OBVIOUS
      <4>1. k - 1 \in 0 .. n + 1 /\ k - 1 # n + 1 /\ i[k - 1] = h[k - 1]
        OBVIOUS
      <4>2. k # n + 1 => k \in 1 .. n
        OBVIOUS
      <4> QED  BY <3>2, <4>1, <4>2
    <3>6. i \in F(n + 1)
      BY <3>3, <3>4, <3>5
    <3> HIDE DEF F, i
    <3>7. F(n + 1) # {} /\ n + 1 \in Nat
      BY <3>6
    <3> QED  BY <3>7
  <2> HIDE DEF F
  <2>3. \A n \in Nat : n \in S
    BY <2>1, <2>2, AllNumbers
  <2> QED  BY <2>3
<1>4. \A n \in Nat : \A h \in F(n) : h[n] \in V /\ h[0] = a /\ \A k \in 1 .. n : h[k] = g[h[k - 1]]
  OBVIOUS
<1> HIDE DEF F
<1>2. \A k \in Nat : k \in D
  <2>1. 0 \in D
    BY <1>4
  <2>2. ASSUME NEW k \in Nat, k \in D PROVE k + 1 \in D
    <3>1. ASSUME NEW m \in Nat, NEW n \in Nat, k + 1 <= m, k + 1 <= n,
                 NEW h \in F(m), NEW i \in F(n)
          PROVE  h[k + 1] = i[k + 1]
      <4>1. k <= m /\ k <= n /\ k + 1 \in 1 .. m /\ k + 1 \in 1 .. n /\ (k + 1) - 1 = k
        BY <3>1
      <4>2. h[k] = i[k]
        BY <2>2, <4>1
      <4>3. h[k + 1] = g[h[k]] /\ i[k + 1] = g[i[k]]
        BY <1>4, <4>1
      <4> QED  BY <4>2, <4>3
    <3> QED  BY <3>1
  <2> HIDE DEF D
  <2> QED  BY <2>1, <2>2, AllNumbers
<1>3. \A n \in Nat : (CHOOSE h \in F(n) : TRUE) \in F(n)
  BY <1>1
<1>5. \A n \in Nat : \A k \in 0 .. n : \A h \in F(n) : f[k] = h[k]
  <2> SUFFICES ASSUME NEW n \in Nat, NEW k \in 0 .. n, NEW h \in F(n) PROVE f[k] = h[k]
    OBVIOUS
  <2>1. k \in Nat /\ k <= n /\ k <= k /\ (CHOOSE i \in F(k) : TRUE) \in F(k)
    BY <1>3
  <2> QED  BY <1>2, <2>1
<1>6. f \in [Nat -> V]
  BY <1>3, <1>4
<1>7. f[0] = a
  BY <1>3, <1>4
<1>8. \A k \in Nat : k # 0 => f[k] = g[f[k - 1]]
  <2> SUFFICES ASSUME NEW k \in Nat, k # 0 PROVE f[k] = g[f[k - 1]]
    OBVIOUS
  <2>1. PICK h \in F(k) : TRUE
    BY <1>1
  <2>2. k \in 0 .. k /\ k - 1 \in 0 .. k /\ k \in 1 .. k
    OBVIOUS
  <2>3. f[k] = h[k] /\ f[k - 1] = h[k - 1]
    BY <1>5, <2>1, <2>2
  <2> QED  BY <1>4, <2>1, <2>2, <2>3
<1> HIDE DEF f
<1> QED  BY <1>6, <1>7, <1>8

-----------------------------------------------------------------------------
(* What the expansion of names gives.                                      *)

AddressesOk(map) == IsFiniteSet(DOMAIN map) /\ \A n \in DOMAIN map : AddressType(map[n])

\* All the names there are to meet.
Met(map, names) == Range(names) \cup UNION {{n} \cup Range(map[n].group) : n \in DOMAIN map}

Closed(map, names, S) ==
  /\ Range(names) \subseteq S
  /\ \A n \in S \cap DOMAIN map : Range(map[n].group) \subseteq S

Leaf(map, n) == n \in DOMAIN map => map[n].group = <<>>

Walks(map, names) ==
  [todo: Seq(Met(map, names)), seen: SUBSET Met(map, names), out: Seq(Met(map, names))]

\* The walk has seen the leaves it gives, each once; what it has seen and what
\* it has still to do is reachable, and holds what the names and the groups seen
\* hold.
WalkOk(map, names, w) ==
  /\ w \in Walks(map, names)
  /\ Range(w.out) = {n \in w.seen : Leaf(map, n)}
  /\ \A i, j \in DOMAIN w.out : w.out[i] = w.out[j] => i = j
  /\ \A S \in SUBSET Met(map, names) : Closed(map, names, S) => w.seen \cup Range(w.todo) \subseteq S
  /\ Range(names) \subseteq w.seen \cup Range(w.todo)
  /\ \A n \in w.seen \cap DOMAIN map : Range(map[n].group) \subseteq w.seen \cup Range(w.todo)

Longest(map) == Max({0} \cup {Len(map[n].group) : n \in Groups(map)})
Left(map, w) == Cardinality(Groups(map) \ w.seen) * Longest(map) + Len(w.todo)

\* Max, of some numbers, is the greatest of them.
LEMMA GreatestIs ==
  ASSUME NEW S, IsFiniteSet(S), S \subseteq Nat, S # {}
  PROVE  Max(S) \in S /\ \A i \in S : Max(S) >= i
<1> DEFINE n == Cardinality(S)
           o == InOrder(S, Ascending(S))
<1>1. /\ n \in Nat /\ o \in Bijection(1 .. n, S)
      /\ \A j, k \in 1 .. n : j < k <=> <<o[j], o[k]>> \in Ascending(S)
      /\ \A i, j \in S : <<i, j>> \in Ascending(S) <=> i < j
  <2>1. S \subseteq Int
    OBVIOUS
  <2>2. IsOrder(S, Ascending(S)) /\ \A i, j \in S : <<i, j>> \in Ascending(S) <=> i < j
    BY <2>1, AscendingIsOrder
  <2> QED  BY <2>2, InOrderIs
<1>2. /\ \A k \in 1 .. n : o[k] \in S
      /\ \A i \in S : \E k \in 1 .. n : o[k] = i
  BY <1>1 DEF Bijection, Injection, Surjection
<1> HIDE DEF n, o
<1>3. n \in 1 .. n
  <2>1. PICK k \in 1 .. n : TRUE
    BY <1>2
  <2> QED  BY <1>1, <2>1
<1>4. \A i \in S : o[n] >= i
  <2> SUFFICES ASSUME NEW i \in S PROVE o[n] >= i
    OBVIOUS
  <2>1. PICK k \in 1 .. n : o[k] = i
    BY <1>2
  <2>2. k = n \/ k < n
    BY <1>1
  <2>3. k < n => o[k] < o[n]
    BY <1>1, <1>2, <1>3
  <2>4. o[n] \in Nat /\ o[k] \in Nat
    BY <1>2, <1>3
  <2>5. CASE k = n
    BY <2>1, <2>4, <2>5
  <2>6. CASE k < n
    BY <2>1, <2>3, <2>4, <2>6
  <2> QED  BY <2>2, <2>5, <2>6
<1>5. \E m \in S : \A i \in S : m >= i
  BY <1>2, <1>3, <1>4
<1> QED  BY <1>5 DEF Max

LEMMA LongestIs ==
  ASSUME NEW map, AddressesOk(map)
  PROVE  /\ IsFiniteSet(Groups(map)) /\ Cardinality(Groups(map)) \in Nat
         /\ Longest(map) \in Nat /\ \A n \in Groups(map) : Len(map[n].group) <= Longest(map)
<1> DEFINE length == [n \in Groups(map) |-> Len(map[n].group)]
           S == {0} \cup {Len(map[n].group) : n \in Groups(map)}
<1>1. IsFiniteSet(Groups(map)) /\ Cardinality(Groups(map)) \in Nat
  <2>1. Groups(map) \subseteq DOMAIN map
    BY DEF Groups
  <2> QED  BY <2>1, FS_Subset, FS_CardinalityType DEF AddressesOk
<1>2. \A n \in Groups(map) : Len(map[n].group) \in Nat
  <2> SUFFICES ASSUME NEW n \in Groups(map) PROVE Len(map[n].group) \in Nat
    OBVIOUS
  <2>1. map[n].group \in Seq(Range(map[n].group))
    BY DEF Groups, AddressesOk, AddressType, IsList
  <2> QED  BY <2>1
<1>3. S \subseteq Nat /\ 0 \in S
  BY <1>2
<1>4. IsFiniteSet(S)
  <2> DEFINE T == {Len(map[n].group) : n \in Groups(map)}
  <2>1. length \in Surjection(Groups(map), T)
    BY DEF Surjection
  <2>2. IsFiniteSet(T)
    BY <1>1, <2>1, FS_Surjection
  <2>3. IsFiniteSet(T \cup {0})
    BY <2>2, FS_AddElement
  <2>4. S = T \cup {0}
    OBVIOUS
  <2> QED  BY <2>3, <2>4
<1> HIDE DEF S
<1>6. Max(S) \in S /\ \A i \in S : Max(S) >= i
  BY <1>3, <1>4, GreatestIs
<1>7. Longest(map) = Max(S)
  BY DEF Longest, S
<1>8. \A n \in Groups(map) : Len(map[n].group) \in S
  BY DEF S
<1> QED  BY <1>1, <1>2, <1>3, <1>6, <1>7, <1>8

\* A step of the walk, by what its first name is.
LEMMA HeadIs ==
  ASSUME NEW U, NEW todo \in Seq(U), todo # <<>>
  PROVE  /\ Head(todo) \in U /\ Tail(todo) \in Seq(U) /\ Len(Tail(todo)) = Len(todo) - 1
         /\ Range(todo) = {Head(todo)} \cup Range(Tail(todo)) /\ Len(todo) \in Nat \ {0}
<1>1. /\ Head(todo) \in U /\ Tail(todo) \in Seq(U) /\ Len(Tail(todo)) = Len(todo) - 1
      /\ \A i \in 1 .. Len(Tail(todo)) : Tail(todo)[i] = todo[i + 1]
  BY HeadTailProperties
<1>2. Head(todo) = todo[1] /\ Len(todo) \in Nat \ {0} /\ DOMAIN todo = 1 .. Len(todo)
      /\ DOMAIN Tail(todo) = 1 .. Len(Tail(todo))
  BY <1>1
<1>3. ASSUME NEW x PROVE x \in Range(todo) <=> x = Head(todo) \/ x \in Range(Tail(todo))
  <2>1. ASSUME NEW i \in 1 .. Len(todo) PROVE todo[i] = Head(todo) \/ todo[i] \in Range(Tail(todo))
    <3>1. CASE i = 1
      BY <1>2, <3>1
    <3>2. CASE i # 1
      <4>1. i - 1 \in 1 .. Len(Tail(todo)) /\ (i - 1) + 1 = i
        BY <1>1, <1>2, <3>2
      <4>2. Tail(todo)[i - 1] = todo[i]
        BY <1>1, <4>1
      <4> QED  BY <1>2, <4>1, <4>2 DEF Range
    <3> QED  BY <3>1, <3>2
  <2>2. ASSUME NEW i \in 1 .. Len(Tail(todo)) PROVE Tail(todo)[i] \in Range(todo)
    <3>1. i + 1 \in 1 .. Len(todo)
      BY <1>1, <1>2
    <3> QED  BY <1>1, <1>2, <3>1 DEF Range
  <2>3. Head(todo) \in Range(todo)
    BY <1>2 DEF Range
  <2> QED  BY <1>2, <2>1, <2>2, <2>3 DEF Range
<1> QED  BY <1>1, <1>2, <1>3

LEMMA AppendIs ==
  ASSUME NEW U, NEW s \in Seq(U), NEW e \in U
  PROVE  /\ Append(s, e) \in Seq(U) /\ Range(Append(s, e)) = Range(s) \cup {e}
         /\ (\A i, j \in DOMAIN s : s[i] = s[j] => i = j) /\ e \notin Range(s)
              => \A i, j \in DOMAIN Append(s, e) : Append(s, e)[i] = Append(s, e)[j] => i = j
<1> DEFINE a == Append(s, e)
           n == Len(s)
<1>1. /\ a \in Seq(U) /\ n \in Nat /\ Len(a) = n + 1
      /\ \A i \in 1 .. n : a[i] = s[i]
      /\ a[n + 1] = e
  BY AppendProperties
<1>2. DOMAIN a = 1 .. n + 1 /\ DOMAIN s = 1 .. n
  BY <1>1
<1> HIDE DEF a, n
<1>3. \A i \in 1 .. n + 1 : i \in 1 .. n \/ i = n + 1
  BY <1>1
<1>4. 1 .. n \subseteq 1 .. n + 1 /\ n + 1 \in 1 .. n + 1
  BY <1>1
<1>5. Range(a) = Range(s) \cup {e}
  BY <1>1, <1>2, <1>3, <1>4 DEF Range
<1>6. ASSUME \A i, j \in DOMAIN s : s[i] = s[j] => i = j, e \notin Range(s),
             NEW i \in DOMAIN a, NEW j \in DOMAIN a, a[i] = a[j]
      PROVE  i = j
  <2>1. \A k \in 1 .. n : a[k] \in Range(s) /\ a[k] # e
    BY <1>1, <1>2, <1>6 DEF Range
  <2> QED  BY <1>1, <1>2, <1>3, <1>6, <2>1
<1> QED  BY <1>1, <1>5, <1>6 DEF a

LEMMA GroupOf ==
  ASSUME NEW map, AddressesOk(map), NEW names, NEW n \in DOMAIN map
  PROVE  map[n].group \in Seq(Met(map, names)) /\ Range(map[n].group) \subseteq Met(map, names)
<1>1. map[n].group \in Seq(Range(map[n].group))
  BY DEF AddressesOk, AddressType, IsList
<1>2. Range(map[n].group) \subseteq Met(map, names)
  BY DEF Met
<1> QED  BY <1>1, <1>2, SeqMonotonic

LEMMA LeftFalls ==
  ASSUME NEW map, AddressesOk(map), NEW names, NEW w \in Walks(map, names), w.todo # <<>>
  PROVE  /\ Left(map, w) \in Nat /\ Left(map, ExpandOne(map, w)) \in Nat
         /\ Left(map, ExpandOne(map, w)) < Left(map, w)
<1> DEFINE U == Met(map, names)
           n == Head(w.todo)
           rest == Tail(w.todo)
           v == ExpandOne(map, w)
           M == Longest(map)
           G == Groups(map)
           a == Cardinality(G \ w.seen)
           b == Cardinality(G \ v.seen)
           A == Left(map, w)
           B == Left(map, v)
<1> SUFFICES A \in Nat /\ B \in Nat /\ B < A
  OBVIOUS
<1>1. /\ w.todo \in Seq(U) /\ w.seen \subseteq U /\ w.out \in Seq(U)
      /\ w = [todo |-> w.todo, seen |-> w.seen, out |-> w.out]
  BY DEF Walks
<1>2. n \in U /\ rest \in Seq(U) /\ Len(rest) = Len(w.todo) - 1 /\ Len(w.todo) \in Nat \ {0}
  BY <1>1, HeadIs
<1>3. IsFiniteSet(G) /\ Cardinality(G) \in Nat /\ M \in Nat /\ \A m \in G : Len(map[m].group) <= M
  BY LongestIs
<1>4. ASSUME NEW S PROVE IsFiniteSet(G \ S) /\ Cardinality(G \ S) \in Nat
  BY <1>3, FS_Subset, FS_CardinalityType
<1>5. A = a * M + Len(w.todo) /\ B = b * M + Len(v.todo)
  BY DEF Left
<1>6. a \in Nat /\ b \in Nat
  BY <1>4
<1>7. \A c, m \in Nat : c * m \in Nat
  OBVIOUS
<1>8. CASE n \in w.seen
  <2>1. v.todo = rest /\ v.seen = w.seen
    BY <1>1, <1>8 DEF ExpandOne
  <2>2. a = b
    BY <2>1
  <2> HIDE DEF v, M, a, b, A, B, rest
  <2>3. a * M \in Nat
    BY <1>3, <1>6, <1>7
  <2> QED  BY <1>2, <1>5, <2>1, <2>2, <2>3
<1>9. CASE n \notin w.seen /\ n \in DOMAIN map /\ map[n].group # <<>>
  <2> DEFINE g == map[n].group
  <2>1. v.todo = g \o rest /\ v.seen = w.seen \cup {n}
    BY <1>1, <1>9 DEF ExpandOne
  <2>2. n \in G /\ g \in Seq(U) /\ Len(g) <= M /\ Len(g) \in Nat
    BY <1>3, <1>9, GroupOf DEF Groups
  <2>3. Len(v.todo) = Len(g) + Len(rest)
    BY <1>2, <2>1, <2>2, ConcatProperties
  <2>4. G \ v.seen = (G \ w.seen) \ {n} /\ n \in G \ w.seen
    BY <1>9, <2>1, <2>2
  <2>5. b = a - 1
    <3> DEFINE X == G \ w.seen
    <3>1. IsFiniteSet(X) /\ Cardinality(X) \in Nat
      BY <1>4
    <3>2. b = Cardinality(X \ {n}) /\ n \in X
      BY <2>4
    <3>3. a = Cardinality(X)
      OBVIOUS
    <3> HIDE DEF v, G, n, a, b, X
    <3>4. Cardinality(X \ {n}) = Cardinality(X) - 1
      BY <3>1, <3>2, FS_RemoveElement
    <3> QED  BY <3>2, <3>3, <3>4
  <2> HIDE DEF v, M, G, g, a, b, A, B, rest
  <2>6. \A c \in Nat, m \in Nat : (c - 1) * m = c * m - m
    OBVIOUS
  <2>7. b * M = a * M - M /\ b * M \in Nat /\ a * M \in Nat
    BY <1>3, <1>6, <1>7, <2>5, <2>6
  <2> DEFINE aM == a * M
             bM == b * M
  <2>8. A = aM + Len(w.todo) /\ B = bM + Len(v.todo) /\ bM = aM - M /\ bM \in Nat /\ aM \in Nat
    BY <1>5, <2>7
  <2> HIDE DEF aM, bM
  <2>9. A \in Nat /\ B \in Nat
    BY <1>2, <2>2, <2>3, <2>8
  <2>10. Len(w.todo) = Len(rest) + 1 /\ Len(v.todo) <= M + Len(rest) /\ Len(rest) \in Nat
    BY <1>2, <1>3, <2>2, <2>3
  <2> QED  BY <1>2, <1>3, <2>8, <2>9, <2>10
<1>10. CASE n \notin w.seen /\ ~ (n \in DOMAIN map /\ map[n].group # <<>>)
  <2>1. v.todo = rest /\ v.seen = w.seen \cup {n} /\ n \notin G
    BY <1>1, <1>10 DEF ExpandOne, Groups
  <2>2. G \ v.seen = G \ w.seen
    BY <2>1
  <2>3. b = a
    BY <2>2
  <2> HIDE DEF v, M, a, b, A, B, rest
  <2>4. a * M \in Nat
    BY <1>3, <1>6, <1>7
  <2> QED  BY <1>2, <1>5, <2>1, <2>3, <2>4
<1> QED  BY <1>8, <1>9, <1>10

LEMMA WalkKeeps ==
  ASSUME NEW map, AddressesOk(map), NEW names, NEW w, WalkOk(map, names, w), w.todo # <<>>
  PROVE  WalkOk(map, names, ExpandOne(map, w))
<1> DEFINE U == Met(map, names)
           n == Head(w.todo)
           rest == Tail(w.todo)
           v == ExpandOne(map, w)
           Holds(x) == \A S \in SUBSET U : Closed(map, names, S) => x.seen \cup Range(x.todo) \subseteq S
           Lacks(x) == /\ Range(names) \subseteq x.seen \cup Range(x.todo)
                       /\ \A m \in x.seen \cap DOMAIN map :
                             Range(map[m].group) \subseteq x.seen \cup Range(x.todo)
           Gives(x) == /\ Range(x.out) = {m \in x.seen : Leaf(map, m)}
                       /\ \A i, j \in DOMAIN x.out : x.out[i] = x.out[j] => i = j
<1>0. \A x : WalkOk(map, names, x) <=> x \in Walks(map, names) /\ Gives(x) /\ Holds(x) /\ Lacks(x)
  BY DEF WalkOk
<1>1. /\ w \in Walks(map, names) /\ w.todo \in Seq(U) /\ w.seen \subseteq U /\ w.out \in Seq(U)
      /\ w = [todo |-> w.todo, seen |-> w.seen, out |-> w.out]
  BY DEF WalkOk, Walks
<1>2. Gives(w) /\ Holds(w) /\ Lacks(w)
  BY <1>0
<1>3. n \in U /\ rest \in Seq(U) /\ Range(w.todo) = {n} \cup Range(rest)
  BY <1>1, HeadIs
<1>4. CASE n \in w.seen
  <2>1. v = [todo |-> rest, seen |-> w.seen, out |-> w.out]
    BY <1>1, <1>4 DEF ExpandOne
  <2>2. v.todo = rest /\ v.seen = w.seen /\ v.out = w.out /\ v \in Walks(map, names)
    BY <1>1, <1>3, <2>1 DEF Walks
  <2> HIDE DEF v, rest, n
  <2>3. v.seen \cup Range(v.todo) = w.seen \cup Range(w.todo)
    BY <1>3, <1>4, <2>2
  <2>4. Gives(v) /\ Holds(v) /\ Lacks(v)
    BY <1>2, <2>2, <2>3
  <2> QED  BY <1>0, <2>2, <2>4 DEF v
<1>5. CASE n \notin w.seen /\ n \in DOMAIN map /\ map[n].group # <<>>
  <2> DEFINE g == map[n].group
  <2>1. v = [todo |-> g \o rest, seen |-> w.seen \cup {n}, out |-> w.out]
    BY <1>1, <1>5 DEF ExpandOne
  <2>2. g \in Seq(U) /\ g \o rest \in Seq(U) /\ Range(g \o rest) = Range(g) \cup Range(rest)
    <3>1. g \in Seq(U)
      BY <1>5, GroupOf
    <3> HIDE DEF g, U, rest
    <3> QED  BY <1>3, <3>1, ConcatProperties, RangeConcatenation
  <2>3. /\ v.todo = g \o rest /\ v.seen = w.seen \cup {n} /\ v.out = w.out
        /\ v \in Walks(map, names)
    BY <1>1, <1>3, <2>1, <2>2 DEF Walks
  <2> HIDE DEF v, rest, n
  <2>4. v.seen \cup Range(v.todo) = w.seen \cup Range(w.todo) \cup Range(g)
    BY <1>3, <2>2, <2>3
  <2>5. Gives(v)
    <3>1. {m \in v.seen : Leaf(map, m)} = {m \in w.seen : Leaf(map, m)}
      BY <1>5, <2>3 DEF Leaf
    <3> QED  BY <1>2, <2>3, <3>1
  <2>6. Holds(v)
    BY <1>2, <1>3, <1>5, <2>4 DEF Closed
  <2>7. Lacks(v)
    <3>1. \A m \in v.seen \cap DOMAIN map : m \in w.seen \/ m = n
      BY <2>3
    <3> QED  BY <1>2, <2>4, <3>1
  <2> QED  BY <1>0, <2>3, <2>5, <2>6, <2>7 DEF v
<1>6. CASE n \notin w.seen /\ ~ (n \in DOMAIN map /\ map[n].group # <<>>)
  <2>1. v = [todo |-> rest, seen |-> w.seen \cup {n}, out |-> Append(w.out, n)]
    BY <1>1, <1>6 DEF ExpandOne
  <2>2. n \notin Range(w.out) /\ Leaf(map, n)
    BY <1>2, <1>6 DEF Leaf
  <2>3. /\ Append(w.out, n) \in Seq(U) /\ Range(Append(w.out, n)) = Range(w.out) \cup {n}
        /\ \A i, j \in DOMAIN Append(w.out, n) : Append(w.out, n)[i] = Append(w.out, n)[j] => i = j
    BY <1>1, <1>2, <1>3, <2>2, AppendIs
  <2>4. /\ v.todo = rest /\ v.seen = w.seen \cup {n} /\ v.out = Append(w.out, n)
        /\ v \in Walks(map, names)
    BY <1>1, <1>3, <2>1, <2>3 DEF Walks
  <2> HIDE DEF v, rest, n
  <2>5. v.seen \cup Range(v.todo) = w.seen \cup Range(w.todo)
    BY <1>3, <2>4
  <2>6. Gives(v)
    <3>1. {m \in v.seen : Leaf(map, m)} = {m \in w.seen : Leaf(map, m)} \cup {n}
      BY <2>2, <2>4
    <3> QED  BY <1>2, <2>3, <2>4, <3>1
  <2>7. Holds(v)
    BY <1>2, <2>5
  <2>8. Lacks(v)
    <3>1. \A m \in v.seen \cap DOMAIN map : m \in w.seen \/ m = n
      BY <2>4
    <3>2. n \in DOMAIN map => Range(map[n].group) = {}
      BY <1>6 DEF Range
    <3> QED  BY <1>2, <2>5, <3>1, <3>2
  <2> QED  BY <1>0, <2>4, <2>6, <2>7, <2>8 DEF v
<1> QED  BY <1>4, <1>5, <1>6

\* The recursion has a solution, and the expansion is what one has given after
\* all its steps.
LEMMA WalkExists ==
  ASSUME NEW map, AddressesOk(map), NEW names, IsList(names)
  PROVE  \E f : /\ ExpandNames(map, names) = f[Steps(map, names)].out
                /\ f[0] = [todo |-> names, seen |-> {}, out |-> <<>>]
                /\ \A k \in Nat : f[k + 1] = IF f[k].todo = <<>> THEN f[k] ELSE ExpandOne(map, f[k])
                /\ WalkOk(map, names, f[0])
<1> DEFINE start == [todo |-> names, seen |-> {}, out |-> <<>>]
           V == {x \in Walks(map, names) : WalkOk(map, names, x)}
           g == [x \in V |-> IF x.todo = <<>> THEN x ELSE ExpandOne(map, x)]
<1>1. WalkOk(map, names, start)
  <2>1. Range(names) \subseteq Met(map, names)
    BY DEF Met
  <2>2. names \in Seq(Met(map, names))
    BY <2>1, SeqMonotonic DEF IsList
  <2>3. start \in Walks(map, names)
    BY <2>2 DEF Walks
  <2>4. Range(start.out) = {} /\ DOMAIN start.out = {}
    BY DEF Range
  <2> QED  BY <2>3, <2>4 DEF WalkOk, Closed
<1>2. start \in V
  BY <1>1 DEF WalkOk
<1>3. g \in [V -> V]
  <2> SUFFICES ASSUME NEW x \in V, x.todo # <<>> PROVE ExpandOne(map, x) \in V
    OBVIOUS
  <2>1. WalkOk(map, names, ExpandOne(map, x))
    BY WalkKeeps
  <2> QED  BY <2>1 DEF WalkOk
<1> HIDE DEF V
<1>4. PICK F \in [Nat -> V] : F[0] = start /\ \A k \in Nat : k # 0 => F[k] = g[F[k - 1]]
  <2> HIDE DEF g, start
  <2>1. \E f \in [Nat -> V] : f[0] = start /\ \A k \in Nat : k # 0 => f[k] = g[f[k - 1]]
    BY <1>2, <1>3, RecursionExists
  <2> QED  BY <2>1
<1>5. \A k \in Nat : k # 0 =>
        F[k] = IF F[k - 1].todo = <<>> THEN F[k - 1] ELSE ExpandOne(map, F[k - 1])
  <2> SUFFICES ASSUME NEW k \in Nat, k # 0
               PROVE  F[k] = IF F[k - 1].todo = <<>> THEN F[k - 1] ELSE ExpandOne(map, F[k - 1])
    OBVIOUS
  <2>1. k - 1 \in Nat /\ F[k - 1] \in V /\ F[k] = g[F[k - 1]]
    BY <1>4
  <2> QED  BY <2>1
<1> HIDE DEF g
<1>6. F = [k \in Nat |-> IF k = 0 THEN start ELSE
             IF F[k - 1].todo = <<>> THEN F[k - 1] ELSE ExpandOne(map, F[k - 1])]
  BY <1>4, <1>5
<1>7. \E f : /\ f = [k \in Nat |-> IF k = 0 THEN [todo |-> names, seen |-> {}, out |-> <<>>]
                       ELSE IF f[k - 1].todo = <<>> THEN f[k - 1] ELSE ExpandOne(map, f[k - 1])]
             /\ ExpandNames(map, names) = f[Steps(map, names)].out
  BY <1>6 DEF ExpandNames
<1>8. PICK f : /\ f = [k \in Nat |-> IF k = 0 THEN start
                         ELSE IF f[k - 1].todo = <<>> THEN f[k - 1] ELSE ExpandOne(map, f[k - 1])]
               /\ ExpandNames(map, names) = f[Steps(map, names)].out
  BY <1>7
<1> HIDE DEF start
<1>9. \A k \in Nat : f[k] = IF k = 0 THEN start
                         ELSE IF f[k - 1].todo = <<>> THEN f[k - 1] ELSE ExpandOne(map, f[k - 1])
  BY <1>8
<1>10. f[0] = start
  BY <1>9
<1>11. \A k \in Nat : f[k + 1] = IF f[k].todo = <<>> THEN f[k] ELSE ExpandOne(map, f[k])
  <2> SUFFICES ASSUME NEW k \in Nat
               PROVE  f[k + 1] = IF f[k].todo = <<>> THEN f[k] ELSE ExpandOne(map, f[k])
    OBVIOUS
  <2>1. k + 1 \in Nat /\ k + 1 # 0 /\ (k + 1) - 1 = k
    OBVIOUS
  <2> QED  BY <1>9, <2>1
<1> QED  BY <1>1, <1>8, <1>10, <1>11 DEF start

\* Expanding names ends, and gives each address under them exactly once.
LEMMA ExpansionIs ==
  ASSUME NEW map, AddressesOk(map), NEW names, IsList(names)
  PROVE  /\ ExpandNames(map, names) \in Seq(Met(map, names))
         /\ Range(ExpandNames(map, names)) = Leaves(map, names)
         /\ \A i, j \in DOMAIN ExpandNames(map, names) :
               ExpandNames(map, names)[i] = ExpandNames(map, names)[j] => i = j
<1> DEFINE n == Steps(map, names)
           D == {k \in Nat : TRUE}
<1>1. PICK f : /\ ExpandNames(map, names) = f[n].out
               /\ f[0] = [todo |-> names, seen |-> {}, out |-> <<>>]
               /\ \A k \in Nat : f[k + 1] = IF f[k].todo = <<>> THEN f[k] ELSE ExpandOne(map, f[k])
               /\ WalkOk(map, names, f[0])
  BY WalkExists
<1>2. Left(map, f[0]) = n
  <2>1. f[0].todo = names /\ Groups(map) \ f[0].seen = Groups(map)
    BY <1>1
  <2> QED  BY <2>1 DEF Left, Steps, Longest
<1> HIDE DEF n
<1>3. n \in Nat
  <2>1. Cardinality(Groups(map)) \in Nat /\ Longest(map) \in Nat /\ Len(names) \in Nat
    BY LongestIs DEF IsList
  <2>2. \A a, b, c \in Nat : a * b + c \in Nat
    OBVIOUS
  <2>3. n = Cardinality(Groups(map)) * Longest(map) + Len(names)
    BY DEF n, Steps, Longest
  <2> QED  BY <2>1, <2>2, <2>3
<1>4. \A k \in Nat : WalkOk(map, names, f[k]) /\ (f[k].todo = <<>> \/ Left(map, f[k]) + k <= n)
  <2> DEFINE E == {k \in Nat : WalkOk(map, names, f[k])
                                /\ (f[k].todo = <<>> \/ Left(map, f[k]) + k <= n)}
  <2>0. \A x : WalkOk(map, names, x) => x \in Walks(map, names)
    BY DEF WalkOk
  <2>1. 0 \in E
    <3>1. f[0].todo = <<>> \/ Left(map, f[0]) \in Nat
      BY <1>1, <2>0, LeftFalls
    <3> QED  BY <1>1, <1>2, <3>1
  <2>2. ASSUME NEW k \in Nat, k \in E PROVE k + 1 \in E
    <3>1. CASE f[k].todo = <<>>
      <4>1. f[k + 1] = f[k]
        BY <1>1, <3>1
      <4> QED  BY <2>2, <3>1, <4>1
    <3>2. CASE f[k].todo # <<>>
      <4>1. f[k + 1] = ExpandOne(map, f[k]) /\ WalkOk(map, names, f[k]) /\ Left(map, f[k]) + k <= n
        BY <1>1, <2>2, <3>2
      <4>2. WalkOk(map, names, f[k + 1])
        BY <3>2, <4>1, WalkKeeps
      <4>3. /\ Left(map, f[k]) \in Nat /\ Left(map, f[k + 1]) \in Nat
            /\ Left(map, f[k + 1]) < Left(map, f[k])
        BY <2>0, <3>2, <4>1, LeftFalls
      <4>5. Left(map, f[k + 1]) + (k + 1) <= n
        BY <1>3, <4>1, <4>3
      <4> QED  BY <4>2, <4>5
    <3> QED  BY <3>1, <3>2
  <2> HIDE DEF E
  <2>3. \A k \in Nat : k \in E
    BY <2>1, <2>2, AllNumbers
  <2> QED  BY <2>3 DEF E
<1> DEFINE w == f[n]
           U == Met(map, names)
<1>5. WalkOk(map, names, w)
  BY <1>3, <1>4
<1>6. w.todo = <<>>
  <2> SUFFICES ASSUME w.todo # <<>> PROVE FALSE
    OBVIOUS
  <2>1. w \in Walks(map, names)
    BY <1>5 DEF WalkOk
  <2>2. Left(map, w) \in Nat /\ Left(map, ExpandOne(map, w)) \in Nat
        /\ Left(map, ExpandOne(map, w)) < Left(map, w)
    BY <2>1, LeftFalls
  <2>3. Left(map, w) + n <= n
    BY <1>3, <1>4
  <2> QED  BY <1>3, <2>2, <2>3
<1> HIDE DEF w
<1>7. /\ w \in Walks(map, names)
      /\ Range(w.out) = {m \in w.seen : Leaf(map, m)}
      /\ \A i, j \in DOMAIN w.out : w.out[i] = w.out[j] => i = j
      /\ \A S \in SUBSET U : Closed(map, names, S) => w.seen \subseteq S
      /\ Closed(map, names, w.seen) /\ w.seen \subseteq U
  <2>1. Range(w.todo) = {}
    BY <1>6 DEF Range
  <2> QED  BY <1>5, <2>1 DEF WalkOk, Closed, Walks
<1>8. Reachable(map, names) = w.seen
  <2>1. Reachable(map, names) = {m \in U : \A S \in {S \in SUBSET U : Closed(map, names, S)} : m \in S}
    BY DEF Reachable, Met, Closed
  <2> HIDE DEF U
  <2> QED  BY <1>7, <2>1
<1>9. Range(w.out) = Leaves(map, names)
  BY <1>7, <1>8 DEF Leaves, Leaf
<1> QED  BY <1>1, <1>7, <1>9 DEF w, Walks

-----------------------------------------------------------------------------
(* The networks of one side of a request.                                  *)

Meant(map, item, net) ==
  IF item \in DOMAIN map THEN \E n \in Leaves(map, <<item>>) \cap DOMAIN map : net = map[n]
  ELSE net = item

LEMMA OneName ==
  ASSUME NEW n
  PROVE  IsList(<<n>>) /\ Range(<<n>>) = {n}
<1>1. Range(<<n>>) = {n}
  BY DEF Range
<1> QED  BY <1>1 DEF IsList

\* They are those that the items mean, and no others.
LEMMA NetworksAre ==
  ASSUME NEW map, AddressesOk(map), NEW items, IsList(items)
  PROVE  LET nets == RequestNetworks(map, items)
         IN  /\ IsList(nets)
             /\ \A i \in DOMAIN nets : \E item \in Range(items) : Meant(map, item, nets[i])
             /\ \A item \in Range(items) : \A net :
                  Meant(map, item, net) => \E i \in DOMAIN nets : nets[i] = net
<1> DEFINE known == {k \in DOMAIN items : items[k] \in DOMAIN map}
           names == [k \in DOMAIN items |->
                       IF k \in known THEN ExpandNames(map, <<items[k]>>) ELSE <<items[k]>>]
           places == {p \in UNION {{k} \X (DOMAIN names[k]) : k \in DOMAIN items} :
                        p[1] \in known => Resolves(map, names[p[1]][p[2]])}
           R == {pq \in places \X places :
                   LET p == pq[1] q == pq[2] IN p[1] < q[1] \/ (p[1] = q[1] /\ p[2] < q[2])}
           order == InOrder(places, R)
           Network(p) == IF p[1] \in known THEN map[names[p[1]][p[2]]] ELSE items[p[1]]
           n == Cardinality(places)
           nets == RequestNetworks(map, items)
<1>1. nets = [i \in 1 .. n |-> Network(order[i])]
  BY DEF RequestNetworks
<1>2. DOMAIN items = 1 .. Len(items) /\ Len(items) \in Nat
  BY DEF IsList
<1>3. \A k \in known : /\ names[k] \in Seq(Met(map, <<items[k]>>))
                        /\ Range(names[k]) = Leaves(map, <<items[k]>>)
  <2> SUFFICES ASSUME NEW k \in known
               PROVE  /\ ExpandNames(map, <<items[k]>>) \in Seq(Met(map, <<items[k]>>))
                      /\ Range(ExpandNames(map, <<items[k]>>)) = Leaves(map, <<items[k]>>)
    OBVIOUS
  <2>1. IsList(<<items[k]>>)
    BY OneName
  <2> QED  BY <2>1, ExpansionIs
<1>4. \A k \in DOMAIN items : /\ Len(names[k]) \in Nat /\ DOMAIN names[k] = 1 .. Len(names[k])
                               /\ k \notin known => DOMAIN names[k] = {1}
  <2> SUFFICES ASSUME NEW k \in DOMAIN items
               PROVE  /\ Len(names[k]) \in Nat /\ DOMAIN names[k] = 1 .. Len(names[k])
                      /\ k \notin known => DOMAIN names[k] = {1}
    OBVIOUS
  <2>1. CASE k \in known
    <3> HIDE DEF names, known
    <3> QED  BY <1>3, <2>1
  <2>2. CASE k \notin known
    <3>1. names[k] = <<items[k]>>
      BY <2>2
    <3>2. \A x : Len(<<x>>) = 1 /\ DOMAIN <<x>> = {1} /\ 1 .. 1 = {1}
      OBVIOUS
    <3> HIDE DEF names, known
    <3> QED  BY <2>2, <3>1, <3>2
  <2> QED  BY <2>1, <2>2
<1>5. \A p : p \in places <=> /\ \E k \in DOMAIN items : p \in {k} \X (DOMAIN names[k])
                              /\ p[1] \in known => Resolves(map, names[p[1]][p[2]])
  OBVIOUS
<1> HIDE DEF names, known
<1>6. \A p \in places : /\ p[1] \in DOMAIN items /\ p[2] \in DOMAIN names[p[1]]
                        /\ p[1] \in Int /\ p[2] \in Int /\ p = <<p[1], p[2]>>
  BY <1>2, <1>4
<1>7. IsFiniteSet(places)
  <2> DEFINE row == [k \in DOMAIN items |-> {k} \X (DOMAIN names[k])]
             T == {row[k] : k \in DOMAIN items}
  <2>1. \A k \in DOMAIN items : IsFiniteSet(row[k])
    <3> SUFFICES ASSUME NEW k \in DOMAIN items PROVE IsFiniteSet({k} \X (DOMAIN names[k]))
      OBVIOUS
    <3>1. IsFiniteSet({k})
      BY FS_Singleton
    <3>2. IsFiniteSet(DOMAIN names[k])
      BY <1>4, FS_Interval
    <3> QED  BY <3>1, <3>2, FS_Product
  <2>2. IsFiniteSet(DOMAIN items)
    BY <1>2, FS_Interval
  <2>3. row \in Surjection(DOMAIN items, T)
    BY DEF Surjection
  <2>4. IsFiniteSet(T)
    BY <2>2, <2>3, FS_Surjection
  <2>5. IsFiniteSet(UNION T)
    BY <2>1, <2>4, FS_UNION
  <2>6. places \subseteq UNION T
    OBVIOUS
  <2> QED  BY <2>5, <2>6, FS_Subset
<1>8. \A p, q \in places : <<p, q>> \in R <=> p[1] < q[1] \/ (p[1] = q[1] /\ p[2] < q[2])
  OBVIOUS
<1> HIDE DEF places, R
<1>9. IsOrder(places, R)
  <2>1. \A m \in places : <<m, m>> \notin R
    BY <1>6, <1>8
  <2>2. \A l, m, o \in places : <<l, m>> \in R /\ <<m, o>> \in R => <<l, o>> \in R
    <3> SUFFICES ASSUME NEW l \in places, NEW m \in places, NEW o \in places,
                        <<l, m>> \in R, <<m, o>> \in R
                 PROVE  l[1] < o[1] \/ (l[1] = o[1] /\ l[2] < o[2])
      BY <1>8
    <3>1. /\ l[1] < m[1] \/ (l[1] = m[1] /\ l[2] < m[2])
          /\ m[1] < o[1] \/ (m[1] = o[1] /\ m[2] < o[2])
      BY <1>8
    <3>2. /\ l[1] \in Int /\ m[1] \in Int /\ o[1] \in Int
          /\ l[2] \in Int /\ m[2] \in Int /\ o[2] \in Int
      BY <1>6
    <3> QED  BY <3>1, <3>2
  <2>3. \A m, o \in places : m = o \/ <<m, o>> \in R \/ <<o, m>> \in R
    <3> SUFFICES ASSUME NEW m \in places, NEW o \in places,
                        ~ (m[1] < o[1] \/ (m[1] = o[1] /\ m[2] < o[2])),
                        ~ (o[1] < m[1] \/ (o[1] = m[1] /\ o[2] < m[2]))
                 PROVE  m = o
      BY <1>8
    <3>1. m[1] \in Int /\ o[1] \in Int /\ m[2] \in Int /\ o[2] \in Int
      BY <1>6
    <3>2. m[1] = o[1] /\ m[2] = o[2]
      BY <3>1
    <3> QED  BY <1>6, <3>2
  <2> QED  BY <2>1, <2>2, <2>3 DEF IsOrder
<1>10. n \in Nat /\ order \in Bijection(1 .. n, places)
  BY <1>7, <1>9, InOrderIs
<1> HIDE DEF n, order
<1>11. /\ \A i \in 1 .. n : order[i] \in places
       /\ \A p \in places : \E i \in 1 .. n : order[i] = p
  BY <1>10 DEF Bijection, Injection, Surjection
<1>12. IsList(nets) /\ DOMAIN nets = 1 .. n
  <2>1. DOMAIN nets = 1 .. n /\ nets \in [1 .. n -> Range(nets)]
    <3> HIDE DEF Network
    <3> QED  BY <1>1 DEF Range
  <2> QED  BY <1>10, <2>1 DEF IsList
<1>13. ASSUME NEW p \in places PROVE items[p[1]] \in Range(items) /\ Meant(map, items[p[1]], Network(p))
  <2>1. p[1] \in DOMAIN items /\ p[2] \in DOMAIN names[p[1]]
    BY <1>6
  <2>2. CASE p[1] \in known
    <3>1. items[p[1]] \in DOMAIN map
      BY <2>2 DEF known
    <3>2. Resolves(map, names[p[1]][p[2]])
      BY <2>2 DEF places
    <3>3. names[p[1]][p[2]] \in Leaves(map, <<items[p[1]]>>)
      BY <1>3, <2>1, <2>2 DEF Range
    <3> QED  BY <2>1, <2>2, <3>1, <3>2, <3>3 DEF Meant, Resolves, Range
  <2>3. CASE p[1] \notin known
    BY <2>1, <2>3 DEF Meant, known, Range
  <2> QED  BY <2>2, <2>3
<1>14. ASSUME NEW i \in DOMAIN nets PROVE \E item \in Range(items) : Meant(map, item, nets[i])
  <2>1. order[i] \in places /\ nets[i] = Network(order[i])
    BY <1>1, <1>11, <1>12
  <2> HIDE DEF nets, Network
  <2> QED  BY <1>13, <2>1
<1>15. ASSUME NEW item \in Range(items), NEW net, Meant(map, item, net)
       PROVE  \E i \in DOMAIN nets : nets[i] = net
  <2>1. PICK k \in DOMAIN items : items[k] = item
    BY DEF Range
  <2>2. \E p \in places : Network(p) = net
    <3>1. CASE k \in known
      <4>1. PICK m \in Leaves(map, <<item>>) \cap DOMAIN map : net = map[m]
        BY <1>15, <2>1, <3>1 DEF Meant, known
      <4>2. PICK j \in DOMAIN names[k] : names[k][j] = m
        BY <1>3, <2>1, <3>1, <4>1 DEF Range
      <4>3. Resolves(map, m)
        BY <4>1 DEF Leaves, Resolves
      <4>4. <<k, j>> \in places
        BY <4>2, <4>3 DEF places
      <4>5. Network(<<k, j>>) = net
        BY <3>1, <4>1, <4>2
      <4> QED  BY <4>4, <4>5
    <3>2. CASE k \notin known
      <4>1. item \notin DOMAIN map /\ net = item
        BY <1>15, <2>1, <3>2 DEF Meant, known
      <4>2. <<k, 1>> \in places
        BY <1>4, <3>2 DEF places
      <4>3. Network(<<k, 1>>) = net
        BY <2>1, <3>2, <4>1
      <4> QED  BY <4>2, <4>3
    <3> QED  BY <3>1, <3>2
  <2>3. PICK p \in places : Network(p) = net
    BY <2>2
  <2>4. PICK i \in 1 .. n : order[i] = p
    BY <1>11
  <2>5. nets[i] = Network(order[i])
    BY <1>1
  <2> QED  BY <1>12, <2>3, <2>4, <2>5
<1> HIDE DEF nets
<1> QED  BY <1>12, <1>14, <1>15 DEF nets

-----------------------------------------------------------------------------
(* The candidates and their order.                                         *)

Expanded(s, p) == [p EXCEPT !.srcaddr = ExpandNames(s.addresses, @),
                            !.dstaddr = ExpandNames(s.addresses, @)]

\* A policy whose addresses are expanded.
ExpandedType(s, p) ==
  /\ IsList(p.srcaddr) /\ IsList(p.dstaddr) /\ IsList(p.service)
  /\ \E k \in DOMAIN s.policies :
       LET q == s.policies[k]
       IN  /\ q.accept /\ q.enabled /\ p.id = q.id /\ p.service = q.service
           /\ p.srcintf = q.srcintf /\ p.dstintf = q.dstintf
           /\ p.srcaddr = ExpandNames(s.addresses, q.srcaddr)
           /\ p.dstaddr = ExpandNames(s.addresses, q.dstaddr)

LEMMA ExpandedIs ==
  ASSUME NEW s, SnapshotType(s), NEW k \in DOMAIN s.policies,
         s.policies[k].accept, s.policies[k].enabled
  PROVE  /\ ExpandedType(s, Expanded(s, s.policies[k]))
         /\ Expanded(s, s.policies[k]).id = s.policies[k].id
         /\ Expanded(s, s.policies[k]).service = s.policies[k].service
         /\ Expanded(s, s.policies[k]).srcaddr = ExpandNames(s.addresses, s.policies[k].srcaddr)
         /\ Expanded(s, s.policies[k]).dstaddr = ExpandNames(s.addresses, s.policies[k].dstaddr)
<1> DEFINE q == s.policies[k]
           p == Expanded(s, q)
           a == ExpandNames(s.addresses, q.srcaddr)
           b == ExpandNames(s.addresses, q.dstaddr)
<1>1. PolicyType(q) /\ AddressesOk(s.addresses)
  BY DEF SnapshotType, AddressesOk
<1>2. IsList(a) /\ IsList(b)
  <2>1. ASSUME NEW names, IsList(names) PROVE IsList(ExpandNames(s.addresses, names))
    BY <1>1, <2>1, ExpansionIs, SeqOfRange DEF IsList
  <2> QED  BY <1>1, <2>1 DEF PolicyType
<1>3. p = [id |-> q.id, srcaddr |-> a, dstaddr |-> b, service |-> q.service,
           srcintf |-> q.srcintf, dstintf |-> q.dstintf, accept |-> q.accept, enabled |-> q.enabled]
  <2>1. q = [id |-> q.id, srcaddr |-> q.srcaddr, dstaddr |-> q.dstaddr, service |-> q.service,
           srcintf |-> q.srcintf, dstintf |-> q.dstintf, accept |-> q.accept, enabled |-> q.enabled]
    BY <1>1 DEF PolicyType
  <2>2. p = [q EXCEPT !.srcaddr = a, !.dstaddr = b]
    BY <2>1 DEF Expanded
  <2> HIDE DEF p, q, a, b
  <2> QED  BY <2>1, <2>2
<1>4. /\ p.id = q.id /\ p.service = q.service /\ p.srcintf = q.srcintf /\ p.dstintf = q.dstintf
      /\ p.srcaddr = a /\ p.dstaddr = b
  <2> HIDE DEF p, a, b
  <2> QED  BY <1>3
<1>5. IsList(q.service)
  BY <1>1 DEF PolicyType
<1> HIDE DEF p
<1>6. ExpandedType(s, p)
  BY <1>2, <1>4, <1>5 DEF ExpandedType
<1> QED  BY <1>4, <1>6 DEF p

LEMMA ListIs ==
  ASSUME NEW l, IsList(l)
  PROVE  Len(l) \in Nat /\ DOMAIN l = 1 .. Len(l) /\ IsFiniteSet(DOMAIN l) /\ Cardinality(DOMAIN l) = Len(l)
<1>1. Len(l) \in Nat /\ DOMAIN l = 1 .. Len(l)
  BY DEF IsList
<1>2. IsFiniteSet(1 .. Len(l)) /\ Cardinality(1 .. Len(l)) = IF 1 > Len(l) THEN 0 ELSE Len(l) - 1 + 1
  BY <1>1, FS_Interval
<1> QED  BY <1>1, <1>2

LEMMA NormalizedIs ==
  ASSUME NEW s, SnapshotType(s)
  PROVE  /\ IsList(Normalized(s))
         /\ \A k \in DOMAIN Normalized(s) : ExpandedType(s, Normalized(s)[k])
         /\ \A j \in DOMAIN s.policies : s.policies[j].accept /\ s.policies[j].enabled =>
              \E k \in DOMAIN Normalized(s) : Normalized(s)[k] = Expanded(s, s.policies[j])
<1> DEFINE P == {k \in DOMAIN s.policies : s.policies[k].accept /\ s.policies[k].enabled}
           kept == At(s.policies, P)
           n == Normalized(s)
           T == Range(s.policies)
<1>1. s.policies \in Seq(T) /\ P \subseteq DOMAIN s.policies
  BY DEF SnapshotType, IsList
<1>2. /\ kept \in Seq(T)
      /\ \A k \in DOMAIN kept : \E i \in P : kept[k] = s.policies[i]
      /\ \A i \in P : \E k \in DOMAIN kept : kept[k] = s.policies[i]
  <2> HIDE DEF P, T
  <2> QED  BY <1>1, AtIs, AtRange
<1>3. n = [k \in DOMAIN kept |-> Expanded(s, kept[k])]
  BY DEF Normalized, Expanded
<1> HIDE DEF kept, n, T
<1>4. DOMAIN n = DOMAIN kept /\ \A k \in DOMAIN kept : n[k] = Expanded(s, kept[k])
  BY <1>3
<1>5. IsList(n)
  <2>1. DOMAIN kept = 1 .. Len(kept) /\ Len(kept) \in Nat
    BY <1>2
  <2>2. n \in [1 .. Len(kept) -> Range(n)]
    BY <1>3, <1>4, <2>1 DEF Range
  <2> QED  BY <2>1, <2>2 DEF IsList
<1>6. ASSUME NEW k \in DOMAIN n PROVE ExpandedType(s, n[k])
  <2>1. PICK i \in P : kept[k] = s.policies[i]
    BY <1>2, <1>4
  <2> QED  BY <1>4, <2>1, ExpandedIs
<1>7. ASSUME NEW j \in P PROVE \E k \in DOMAIN n : n[k] = Expanded(s, s.policies[j])
  BY <1>2, <1>4
<1> QED  BY <1>5, <1>6, <1>7 DEF n

\* The rank is by score, and nothing is left out.
LEMMA RankedIs ==
  ASSUME NEW T, NEW seq \in Seq(T), \A k \in DOMAIN seq : seq[k].score \in Int
  PROVE  /\ IsList(Ranked(seq)) /\ Len(Ranked(seq)) = Len(seq)
         /\ \A k \in DOMAIN Ranked(seq) : \E i \in DOMAIN seq : Ranked(seq)[k] = seq[i]
         /\ \A i \in DOMAIN seq : \E k \in DOMAIN Ranked(seq) : Ranked(seq)[k] = seq[i]
         /\ \A j, k \in DOMAIN Ranked(seq) : j < k => Ranked(seq)[j].score >= Ranked(seq)[k].score
<1> DEFINE D == DOMAIN seq
           First(i, j) == \/ seq[i].score > seq[j].score
                          \/ seq[i].score = seq[j].score /\ i < j
           R == {p \in D \X D : First(p[1], p[2])}
           o == InOrder(D, R)
           r == Ranked(seq)
           n == Len(seq)
<1>1. n \in Nat /\ D = 1 .. n /\ IsFiniteSet(D) /\ Cardinality(D) = n
  <2>1. IsList(seq)
    BY SeqOfRange DEF IsList
  <2> QED  BY <2>1, ListIs
<1>2. r = [k \in 1 .. n |-> seq[o[k]]]
  BY DEF Ranked
<1>3. \A i, j \in D : <<i, j>> \in R <=> First(i, j)
  <2> HIDE DEF D, First
  <2> QED  OBVIOUS
<1>4. \A i \in D : i \in Int /\ seq[i].score \in Int
  BY <1>1
<1> HIDE DEF R, D
<1>5. IsOrder(D, R)
  <2>1. \A m \in D : <<m, m>> \notin R
    BY <1>3, <1>4
  <2>2. \A l, m, i \in D : <<l, m>> \in R /\ <<m, i>> \in R => <<l, i>> \in R
    <3> SUFFICES ASSUME NEW l \in D, NEW m \in D, NEW i \in D, <<l, m>> \in R, <<m, i>> \in R
                 PROVE  <<l, i>> \in R
      OBVIOUS
    <3>1. /\ l \in Int /\ m \in Int /\ i \in Int
          /\ seq[l].score \in Int /\ seq[m].score \in Int /\ seq[i].score \in Int
      BY <1>4
    <3>2. /\ seq[l].score > seq[m].score \/ (seq[l].score = seq[m].score /\ l < m)
          /\ seq[m].score > seq[i].score \/ (seq[m].score = seq[i].score /\ m < i)
      BY <1>3
    <3>3. seq[l].score > seq[i].score \/ (seq[l].score = seq[i].score /\ l < i)
      BY <3>1, <3>2
    <3> QED  BY <1>3, <3>3
  <2>3. \A m, i \in D : m = i \/ <<m, i>> \in R \/ <<i, m>> \in R
    <3> SUFFICES ASSUME NEW m \in D, NEW i \in D PROVE m = i \/ <<m, i>> \in R \/ <<i, m>> \in R
      OBVIOUS
    <3>1. m \in Int /\ i \in Int /\ seq[m].score \in Int /\ seq[i].score \in Int
      BY <1>4
    <3>2. \/ m = i
          \/ seq[m].score > seq[i].score \/ (seq[m].score = seq[i].score /\ m < i)
          \/ seq[i].score > seq[m].score \/ (seq[i].score = seq[m].score /\ i < m)
      BY <3>1
    <3> QED  BY <1>3, <3>2
  <2> QED  BY <2>1, <2>2, <2>3 DEF IsOrder
<1>6. o \in Bijection(1 .. n, D) /\ \A j, k \in 1 .. n : j < k <=> <<o[j], o[k]>> \in R
  BY <1>1, <1>5, InOrderIs
<1> HIDE DEF o, n, r
<1>7. /\ \A k \in 1 .. n : o[k] \in D
      /\ \A i \in D : \E k \in 1 .. n : o[k] = i
  BY <1>6 DEF Bijection, Injection, Surjection
<1>8. DOMAIN r = 1 .. n /\ \A k \in 1 .. n : r[k] = seq[o[k]]
  BY <1>2
<1>9. IsList(r) /\ Len(r) = n
  <2>1. r \in [1 .. n -> Range(r)]
    BY <1>2, <1>8 DEF Range
  <2> QED  BY <1>1, <2>1 DEF IsList
<1>10. \A k \in DOMAIN r : \E i \in D : r[k] = seq[i]
  BY <1>7, <1>8
<1>11. \A i \in D : \E k \in DOMAIN r : r[k] = seq[i]
  BY <1>7, <1>8
<1>12. \A j, k \in DOMAIN r : j < k => r[j].score >= r[k].score
  <2> SUFFICES ASSUME NEW j \in 1 .. n, NEW k \in 1 .. n, j < k PROVE r[j].score >= r[k].score
    BY <1>8
  <2>1. seq[o[j]].score > seq[o[k]].score \/ seq[o[j]].score = seq[o[k]].score
    BY <1>3, <1>6, <1>7
  <2>2. seq[o[j]].score \in Int /\ seq[o[k]].score \in Int
    BY <1>4, <1>7
  <2> QED  BY <1>8, <2>1, <2>2
<1> QED  BY <1>9, <1>10, <1>11, <1>12 DEF D, n, r

-----------------------------------------------------------------------------
(* Scores and answers.                                                     *)

LEMMA PlacesOf ==
  ASSUME NEW l, IsList(l), NEW S, S \subseteq DOMAIN l
  PROVE  Cardinality(S) \in Nat /\ Cardinality(S) <= Len(l) /\ (S # {} => Cardinality(S) > 0)
<1>1. IsFiniteSet(DOMAIN l) /\ Cardinality(DOMAIN l) = Len(l)
  BY ListIs
<1>2. IsFiniteSet(S) /\ Cardinality(S) <= Len(l) /\ Cardinality(S) \in Nat
  BY <1>1, FS_Subset, FS_CardinalityType
<1>3. S # {} => Cardinality(S) # 0
  BY <1>2, FS_EmptySet
<1> QED  BY <1>2, <1>3

LEMMA CoveredCount ==
  ASSUME NEW nets, IsList(nets), NEW bounds
  PROVE  /\ CoveredOf(nets, bounds) \in Nat /\ CoveredOf(nets, bounds) <= Len(nets)
         /\ (\A k \in DOMAIN nets : Covered(nets[k], bounds)) => CoveredOf(nets, bounds) = Len(nets)
<1> DEFINE S == {k \in DOMAIN nets : Covered(nets[k], bounds)}
<1>1. S \subseteq DOMAIN nets
  OBVIOUS
<1>2. Cardinality(S) \in Nat /\ Cardinality(S) <= Len(nets)
  <2> HIDE DEF S
  <2> QED  BY <1>1, PlacesOf
<1>3. ASSUME \A k \in DOMAIN nets : Covered(nets[k], bounds) PROVE Cardinality(S) = Len(nets)
  <2>1. S = DOMAIN nets
    BY <1>3
  <2> QED  BY <2>1, ListIs
<1> QED  BY <1>2, <1>3 DEF CoveredOf

LEMMA OfferedCount ==
  ASSUME NEW map, NEW srvs, IsList(srvs), NEW services
  PROVE  /\ OfferedOf(map, srvs, services) \in Nat
         /\ (\E k \in DOMAIN srvs : ServiceOffered(map, srvs[k], services))
              => OfferedOf(map, srvs, services) > 0
<1> DEFINE S == {k \in DOMAIN srvs : ServiceOffered(map, srvs[k], services)}
<1>1. S \subseteq DOMAIN srvs
  OBVIOUS
<1>2. Cardinality(S) \in Nat /\ (S # {} => Cardinality(S) > 0)
  <2> HIDE DEF S
  <2> QED  BY <1>1, PlacesOf
<1>3. ASSUME NEW k \in DOMAIN srvs, ServiceOffered(map, srvs[k], services) PROVE S # {}
  BY <1>3
<1> QED  BY <1>2, <1>3 DEF OfferedOf

\* The number of broad addresses in a list.
BroadOf(map, addrs) ==
  Cardinality({k \in DOMAIN addrs : Resolves(map, addrs[k]) /\ map[addrs[k]].broad})

LEMMA BroadCount ==
  ASSUME NEW map, NEW addrs, IsList(addrs)
  PROVE  /\ BroadOf(map, addrs) \in Nat
         /\ (\E k \in DOMAIN addrs : Resolves(map, addrs[k]) /\ map[addrs[k]].broad)
              => BroadOf(map, addrs) > 0
         /\ (~ \E k \in DOMAIN addrs : Resolves(map, addrs[k]) /\ map[addrs[k]].broad)
              => BroadOf(map, addrs) = 0
<1> DEFINE S == {k \in DOMAIN addrs : Resolves(map, addrs[k]) /\ map[addrs[k]].broad}
<1>1. S \subseteq DOMAIN addrs
  OBVIOUS
<1>2. Cardinality(S) \in Nat /\ (S # {} => Cardinality(S) > 0)
  <2> HIDE DEF S
  <2> QED  BY <1>1, PlacesOf
<1>3. S = {} => Cardinality(S) = 0
  BY FS_EmptySet
<1>4. S # {} <=> \E k \in DOMAIN addrs : Resolves(map, addrs[k]) /\ map[addrs[k]].broad
  OBVIOUS
<1> HIDE DEF S
<1> QED  BY <1>2, <1>3, <1>4 DEF BroadOf, S

\* The networks whose nearest address gives so many points.
NearestAt(nets, bounds, points) ==
  {k \in DOMAIN nets : /\ ~ Covered(nets[k], bounds)
                       /\ points = Max({0} \cup {Proximity(nets[k], b) : b \in bounds})}

LEMMA SideScoreIs ==
  ASSUME NEW map, NEW nets, IsList(nets), NEW addrs, IsList(addrs)
  PROVE  LET bounds == Bounds(map, addrs)
             covered == CoveredOf(nets, bounds)
             cost == Min2(10, Len(addrs) - covered)
                       + (IF All \in Range(addrs) THEN 15 ELSE 0) + 15 * BroadOf(map, addrs)
         IN  /\ SideScore(map, nets, addrs) \in Int
             /\ (\A k \in DOMAIN nets : Covered(nets[k], bounds)) =>
                   SideScore(map, nets, addrs) = 40 * Len(nets) - cost
<1> DEFINE bounds == Bounds(map, addrs)
           c == CoveredOf(nets, bounds)
           N(points) == Cardinality(NearestAt(nets, bounds, points))
           m == Min2(10, Len(addrs) - c)
           a == IF All \in Range(addrs) THEN 15 ELSE 0
           b == BroadOf(map, addrs)
<1>1. SideScore(map, nets, addrs) =
        40 * c + 50 * N(50) + 35 * N(35) + 18 * N(18) + 12 * N(12) + 6 * N(6) - m - a - 15 * b
  BY DEF SideScore, BroadOf, NearestAt
<1>2. /\ c \in Nat /\ ((\A k \in DOMAIN nets : Covered(nets[k], bounds)) => c = Len(nets))
      /\ b \in Nat /\ a \in Nat
  BY CoveredCount, BroadCount
<1>3. m \in Int
  <2>1. Len(addrs) \in Nat
    BY ListIs
  <2> QED  BY <1>2, <2>1 DEF Min2
<1>4. ASSUME NEW points PROVE N(points) \in Nat
  <2>1. NearestAt(nets, bounds, points) \subseteq DOMAIN nets
    BY DEF NearestAt
  <2> QED  BY <2>1, PlacesOf
<1>5. ASSUME \A k \in DOMAIN nets : Covered(nets[k], bounds), NEW points PROVE N(points) = 0
  <2>1. NearestAt(nets, bounds, points) = {}
    BY <1>5 DEF NearestAt
  <2> QED  BY <2>1, FS_EmptySet
<1> DEFINE n50 == N(50)
           n35 == N(35)
           n18 == N(18)
           n12 == N(12)
           n6 == N(6)
           all == \A k \in DOMAIN nets : Covered(nets[k], bounds)
           score == SideScore(map, nets, addrs)
           n == Len(nets)
<1>6. /\ n50 \in Nat /\ n35 \in Nat /\ n18 \in Nat /\ n12 \in Nat /\ n6 \in Nat
      /\ all => n50 = 0 /\ n35 = 0 /\ n18 = 0 /\ n12 = 0 /\ n6 = 0
  BY <1>4, <1>5
<1>7. score = 40 * c + 50 * n50 + 35 * n35 + 18 * n18 + 12 * n12 + 6 * n6 - m - a - 15 * b
  BY <1>1
<1>8. n \in Nat /\ (all => c = n)
  BY <1>2, ListIs
<1> HIDE DEF c, N, m, a, b, n50, n35, n18, n12, n6, all, score, n
<1>9. score \in Int
  BY <1>2, <1>3, <1>6, <1>7
<1>10. all => score = 40 * n - (m + a + 15 * b)
  BY <1>2, <1>3, <1>6, <1>7, <1>8
<1> QED  BY <1>9, <1>10 DEF c, m, a, b, all, score, n

\* The part of a score that the sources have no share in, but for the interface
\* they come in by.
LEMMA ScoredIs ==
  ASSUME NEW s, NEW p, ExpandedType(s, p), NEW srcs, IsList(srcs), NEW dsts, IsList(dsts),
         NEW srvs, IsList(srvs)
  PROVE  LET r == Scored(s, p, srcs, dsts, srvs)
             rest == SideScore(s.addresses, dsts, p.dstaddr) + ServiceScore(s.services, srvs, p.service)
                       + InterfaceScore(srcs, InterfaceMatches(p.srcintf, r.srcitf))
                       + InterfaceScore(dsts, InterfaceMatches(p.dstintf, r.dstitf))
         IN  /\ r.policy = p /\ r.missing = Missing(s.addresses, p, srcs, dsts)
             /\ r.srcitf = (IF srcs = <<>> THEN None ELSE SelectInterface(s.routes, srcs[1].lo))
             /\ r.dstitf = (IF dsts = <<>> THEN None ELSE SelectInterface(s.routes, dsts[1].lo))
             /\ r.score \in Int /\ rest \in Int
             /\ r.score = SideScore(s.addresses, srcs, p.srcaddr) + rest
<1> DEFINE r == Scored(s, p, srcs, dsts, srvs)
           x == SideScore(s.addresses, srcs, p.srcaddr)
           y == SideScore(s.addresses, dsts, p.dstaddr)
           v == ServiceScore(s.services, srvs, p.service)
           i == InterfaceScore(srcs, InterfaceMatches(p.srcintf, r.srcitf))
           o == InterfaceScore(dsts, InterfaceMatches(p.dstintf, r.dstitf))
<1>1. /\ r.policy = p /\ r.missing = Missing(s.addresses, p, srcs, dsts)
      /\ r.srcitf = (IF srcs = <<>> THEN None ELSE SelectInterface(s.routes, srcs[1].lo))
      /\ r.dstitf = (IF dsts = <<>> THEN None ELSE SelectInterface(s.routes, dsts[1].lo))
  BY DEF Scored
<1>2. r.score = x + y + v + i + o
  BY DEF Scored
<1>3. x \in Int /\ y \in Int
  BY SideScoreIs DEF ExpandedType
<1>4. v \in Int
  <2>1. OfferedOf(s.services, srvs, p.service) \in Nat /\ Len(p.service) \in Nat
    BY OfferedCount, ListIs DEF ExpandedType
  <2> QED  BY <2>1 DEF ServiceScore, Min2
<1>5. i \in Int /\ o \in Int
  BY DEF InterfaceScore
<1> HIDE DEF r, x, y, v, i, o
<1>6. r.score = x + (y + v + i + o) /\ r.score \in Int /\ y + v + i + o \in Int
  BY <1>2, <1>3, <1>4, <1>5
<1> QED  BY <1>1, <1>6 DEF r, x, y, v, i, o

ItemsOk(req) == IsList(req.srcs) /\ IsList(req.dsts) /\ IsList(req.srvs)

\* The answer is made of the candidates, by score, and holds all of them.
LEMMA EvaluateIs ==
  ASSUME NEW s, SnapshotType(s), NEW req, ItemsOk(req)
  PROVE  LET srcs == RequestNetworks(s.addresses, req.srcs)
             dsts == RequestNetworks(s.addresses, req.dsts)
             answer == Evaluate(s, req)
         IN  /\ IsList(srcs) /\ IsList(dsts) /\ IsList(answer)
             /\ \A k \in DOMAIN answer :
                  \E p : ExpandedType(s, p) /\ answer[k] = Scored(s, p, srcs, dsts, req.srvs)
             /\ req.srvs # <<>> =>
                  \A j \in DOMAIN s.policies :
                    LET q == s.policies[j]
                        r == Scored(s, Expanded(s, q), srcs, dsts, req.srvs)
                    IN  q.accept /\ q.enabled /\ r.candidate
                          => \E k \in DOMAIN answer : answer[k] = r
             /\ \A j, k \in DOMAIN answer : j < k => answer[j].score >= answer[k].score
<1> DEFINE srcs == RequestNetworks(s.addresses, req.srcs)
           dsts == RequestNetworks(s.addresses, req.dsts)
           answer == Evaluate(s, req)
           policies == Normalized(s)
           R(p) == Scored(s, p, srcs, dsts, req.srvs)
           all == [k \in DOMAIN policies |-> R(policies[k])]
           P == {k \in DOMAIN all : all[k].candidate}
           some == At(all, P)
           T == Range(all)
<1>1. IsList(srcs) /\ IsList(dsts)
  BY NetworksAre DEF SnapshotType, AddressesOk, ItemsOk
<1>2. /\ IsList(policies)
      /\ \A k \in DOMAIN policies : ExpandedType(s, policies[k])
      /\ \A j \in DOMAIN s.policies : s.policies[j].accept /\ s.policies[j].enabled =>
           \E k \in DOMAIN policies : policies[k] = Expanded(s, s.policies[j])
  BY NormalizedIs
<1>3. answer = IF srcs = <<>> /\ dsts = <<>> /\ req.srvs = <<>> THEN <<>> ELSE Ranked(some)
  BY DEF Evaluate
<1>4. \A p : ExpandedType(s, p) => R(p).score \in Int
  BY <1>1, ScoredIs DEF ItemsOk
<1> HIDE DEF srcs, dsts, answer, policies, R
<1>5. all \in Seq(T) /\ DOMAIN all = DOMAIN policies /\ \A k \in DOMAIN policies : all[k] = R(policies[k])
  <2>1. DOMAIN policies = 1 .. Len(policies) /\ Len(policies) \in Nat
    BY <1>2, ListIs
  <2>2. all \in [1 .. Len(policies) -> T]
    BY <2>1 DEF Range
  <2> QED  BY <2>1, <2>2
<1> HIDE DEF all, T
<1>6. P \subseteq DOMAIN all
  OBVIOUS
<1>7. /\ some \in Seq(T)
      /\ \A k \in DOMAIN some : \E i \in P : some[k] = all[i]
      /\ \A i \in P : \E k \in DOMAIN some : some[k] = all[i]
  <2> HIDE DEF P
  <2> QED  BY <1>5, <1>6, AtIs, AtRange
<1> HIDE DEF some
<1>8. \A k \in DOMAIN some : \E p : ExpandedType(s, p) /\ some[k] = R(p)
  BY <1>2, <1>5, <1>6, <1>7
<1>9. \A k \in DOMAIN some : some[k].score \in Int
  BY <1>4, <1>8
<1>10. /\ IsList(Ranked(some))
       /\ \A k \in DOMAIN Ranked(some) : \E i \in DOMAIN some : Ranked(some)[k] = some[i]
       /\ \A i \in DOMAIN some : \E k \in DOMAIN Ranked(some) : Ranked(some)[k] = some[i]
       /\ \A j, k \in DOMAIN Ranked(some) : j < k => Ranked(some)[j].score >= Ranked(some)[k].score
  BY <1>7, <1>9, RankedIs
<1>11. CASE answer = <<>>
  <2>1. IsList(answer) /\ DOMAIN answer = {}
    BY <1>11 DEF IsList, Range
  <2>2. ASSUME req.srvs # <<>>, NEW j \in DOMAIN s.policies, s.policies[j].accept, s.policies[j].enabled,
               R(Expanded(s, s.policies[j])).candidate
        PROVE  \E k \in DOMAIN answer : answer[k] = R(Expanded(s, s.policies[j]))
    <3>1. answer = Ranked(some)
      BY <1>3, <2>2
    <3>2. PICK k \in DOMAIN policies : policies[k] = Expanded(s, s.policies[j])
      BY <1>2, <2>2
    <3>3. k \in P /\ all[k] = R(Expanded(s, s.policies[j]))
      BY <1>5, <2>2, <3>2
    <3> QED  BY <1>7, <1>10, <3>1, <3>3
  <2> QED  BY <1>1, <2>1, <2>2 DEF srcs, dsts, answer, R
<1>12. CASE answer # <<>>
  <2>1. answer = Ranked(some)
    BY <1>3, <1>12
  <2>2. ASSUME NEW j \in DOMAIN s.policies, s.policies[j].accept, s.policies[j].enabled,
               R(Expanded(s, s.policies[j])).candidate
        PROVE  \E k \in DOMAIN answer : answer[k] = R(Expanded(s, s.policies[j]))
    <3>1. PICK k \in DOMAIN policies : policies[k] = Expanded(s, s.policies[j])
      BY <1>2, <2>2
    <3>2. k \in P /\ all[k] = R(Expanded(s, s.policies[j]))
      BY <1>5, <2>2, <3>1
    <3> QED  BY <1>7, <1>10, <2>1, <3>2
  <2>3. \A k \in DOMAIN answer : \E p : ExpandedType(s, p) /\ answer[k] = R(p)
    BY <1>8, <1>10, <2>1
  <2> QED  BY <1>1, <1>10, <2>1, <2>2, <2>3 DEF srcs, dsts, answer, R
<1> QED  BY <1>11, <1>12

LEMMA NothingAsked ==
  ASSUME NEW s, SnapshotType(s)
  PROVE  Evaluate(s, NoRequest) = <<>> /\ ItemsOk(NoRequest)
<1> DEFINE nets == RequestNetworks(s.addresses, <<>>)
<1>1. Range(<<>>) = {} /\ IsList(<<>>)
  BY DEF Range, IsList
<1>2. IsList(nets) /\ DOMAIN nets = {}
  <2>1. IsList(nets) /\ \A i \in DOMAIN nets : \E item \in Range(<<>>) : Meant(s.addresses, item, nets[i])
    BY <1>1, NetworksAre DEF SnapshotType, AddressesOk
  <2> QED  BY <1>1, <2>1
<1>3. nets = <<>>
  <2> HIDE DEF nets
  <2>1. Len(nets) = 0
    BY <1>2, ListIs, FS_EmptySet
  <2> QED  BY <1>2, <2>1 DEF IsList
<1>4. NoRequest.srcs = <<>> /\ NoRequest.dsts = <<>> /\ NoRequest.srvs = <<>>
  BY DEF NoRequest
<1> QED  BY <1>1, <1>3, <1>4 DEF Evaluate, ItemsOk

-----------------------------------------------------------------------------
(* What is asked has been answered.                                        *)

EvalInv ==
  /\ snapshot \in Snapshots
  /\ results = Evaluate(snapshot, request)
  /\ request = NoRequest \/ (request \in Requests /\ Valid(snapshot, request))

\* The results are the answer to the request, which was valid.
LEMMA Answered == Spec => []EvalInv
<1>1. Init => EvalInv
  <2> SUFFICES ASSUME Init PROVE EvalInv
    OBVIOUS
  <2>1. SnapshotType(snapshot)
    BY SnapshotsAssumption DEF Init
  <2> QED  BY <2>1, NothingAsked DEF Init, EvalInv
<1>2. EvalInv /\ [Next]_vars => EvalInv'
  <2> SUFFICES ASSUME EvalInv, [Next]_vars PROVE EvalInv'
    OBVIOUS
  <2>1. CASE Submit
    BY <2>1 DEF EvalInv, Submit
  <2>2. CASE UNCHANGED vars
    BY <2>2 DEF EvalInv, vars
  <2> QED  BY <2>1, <2>2 DEF Next
<1> QED  BY <1>1, <1>2, PTL DEF Spec

LEMMA DataOk ==
  ASSUME EvalInv
  PROVE  /\ SnapshotType(snapshot) /\ AddressesOk(snapshot.addresses) /\ ItemsOk(request)
         /\ request # NoRequest => request \in Requests /\ Valid(snapshot, request)
<1>1. SnapshotType(snapshot)
  BY SnapshotsAssumption DEF EvalInv
<1>2. ItemsOk(request)
  BY <1>1, NothingAsked, RequestsAssumption DEF EvalInv, ItemsOk
<1> QED  BY <1>1, <1>2 DEF SnapshotType, AddressesOk, EvalInv

\* The expansion of a policy's addresses ends and gives each address under them
\* exactly once, however groups are nested and shared (ExpansionIsClosure).
THEOREM ExpansionTakesAllOnce == Spec => []ExpansionIsClosure
<1>1. EvalInv => ExpansionIsClosure
  <2> SUFFICES ASSUME EvalInv, NEW k \in DOMAIN snapshot.policies
               PROVE  LET e == ExpandNames(snapshot.addresses, snapshot.policies[k].srcaddr)
                      IN  /\ Range(e) = Leaves(snapshot.addresses, snapshot.policies[k].srcaddr)
                          /\ Len(e) = Cardinality(Range(e))
    BY DEF ExpansionIsClosure
  <2> DEFINE names == snapshot.policies[k].srcaddr
             e == ExpandNames(snapshot.addresses, names)
  <2>1. AddressesOk(snapshot.addresses) /\ IsList(names)
    BY DataOk DEF SnapshotType, PolicyType
  <2>2. /\ e \in Seq(Met(snapshot.addresses, names)) /\ Range(e) = Leaves(snapshot.addresses, names)
        /\ \A i, j \in DOMAIN e : e[i] = e[j] => i = j
    BY <2>1, ExpansionIs
  <2> HIDE DEF e
  <2>3. e \in Bijection(DOMAIN e, Range(e))
    <3>1. e \in [DOMAIN e -> Range(e)]
      BY <2>2 DEF Range
    <3> QED  BY <2>2, <3>1 DEF Bijection, Injection, Surjection, IsInjective, Range
  <2>4. ExistsBijection(DOMAIN e, Range(e))
    BY <2>3 DEF ExistsBijection
  <2>5. IsFiniteSet(DOMAIN e) /\ Cardinality(DOMAIN e) = Len(e)
    BY <2>2, ListIs, SeqOfRange DEF IsList
  <2>6. Cardinality(Range(e)) = Len(e)
    BY <2>4, <2>5, FS_Bijection
  <2> QED  BY <2>2, <2>6 DEF e
<1> QED  BY <1>1, Answered, PTL

-----------------------------------------------------------------------------
(* What is shown as covered is covered.                                    *)

LEMMA MissingIs ==
  ASSUME NEW map, NEW p, NEW srcs, NEW dsts
  PROVE  Missing(map, p, srcs, dsts) = {} <=>
           /\ \A k \in DOMAIN srcs : Covered(srcs[k], Bounds(map, p.srcaddr))
           /\ \A k \in DOMAIN dsts : Covered(dsts[k], Bounds(map, p.dstaddr))
<1> DEFINE Lacks(side) ==
      LET nets == IF side = "srcaddr" THEN srcs ELSE dsts
          addrs == IF side = "srcaddr" THEN p.srcaddr ELSE p.dstaddr
      IN  \E k \in DOMAIN nets : ~ Covered(nets[k], Bounds(map, addrs))
<1>1. Missing(map, p, srcs, dsts) = {side \in {"srcaddr", "dstaddr"} : Lacks(side)}
  BY DEF Missing
<1>2. /\ Lacks("srcaddr") <=> \E k \in DOMAIN srcs : ~ Covered(srcs[k], Bounds(map, p.srcaddr))
      /\ Lacks("dstaddr") <=> \E k \in DOMAIN dsts : ~ Covered(dsts[k], Bounds(map, p.dstaddr))
  OBVIOUS
<1> HIDE DEF Lacks
<1>3. Missing(map, p, srcs, dsts) = {} <=> ~ Lacks("srcaddr") /\ ~ Lacks("dstaddr")
  BY <1>1
<1> QED  BY <1>2, <1>3

\* The addresses of a list that has been expanded are under the list.
LEMMA ListedIsLeaf ==
  ASSUME NEW map, NEW names, NEW b \in Bounds(map, names)
  PROVE  \E n \in Leaves(map, names) \cap DOMAIN map : b = map[n]
<1>1. PICK n \in Range(names) : Resolves(map, n) /\ b = map[n]
  BY DEF Bounds
<1>2. n \in Reachable(map, names)
  BY DEF Reachable
<1> QED  BY <1>1, <1>2 DEF Leaves, Resolves

\* The points that a side asks for are those of its networks.
LEMMA PointsOfSide ==
  ASSUME EvalInv, NEW items, IsList(items), NEW x \in PointsAsked(items)
  PROVE  LET nets == RequestNetworks(snapshot.addresses, items)
         IN  \E k \in DOMAIN nets : x \in nets[k].lo .. nets[k].hi
<1> DEFINE map == snapshot.addresses
           nets == RequestNetworks(map, items)
<1>1. \A item \in Range(items) : \A net : Meant(map, item, net) => \E k \in DOMAIN nets : nets[k] = net
  BY DataOk, NetworksAre
<1> HIDE DEF nets
<1>2. PICK i \in Range(items) : x \in IF i \in DOMAIN map THEN Points(<<i>>) ELSE i.lo .. i.hi
  BY DEF PointsAsked
<1>3. \E net : Meant(map, i, net) /\ x \in net.lo .. net.hi
  <2>1. CASE i \in DOMAIN map
    <3>1. PICK n \in Leaves(map, <<i>>) \cap DOMAIN map : x \in map[n].lo .. map[n].hi
      BY <1>2, <2>1 DEF Points
    <3>2. Meant(map, i, map[n])
      BY <2>1, <3>1 DEF Meant
    <3> QED  BY <3>1, <3>2
  <2>2. CASE i \notin DOMAIN map
    <3>1. Meant(map, i, i)
      BY <2>2 DEF Meant
    <3> QED  BY <1>2, <2>2, <3>1
  <2> QED  BY <2>1, <2>2
<1>4. \E k \in DOMAIN nets : x \in nets[k].lo .. nets[k].hi
  BY <1>1, <1>3
<1> QED  BY <1>4 DEF nets

\* The networks of a request are ranges of numbers.
LEMMA NetworkType ==
  ASSUME EvalInv, request # NoRequest, NEW items \in {request.srcs, request.dsts},
         NEW item \in Range(items), NEW net, Meant(snapshot.addresses, item, net)
  PROVE  net.lo \in Nat /\ net.hi \in Nat /\ net.lo <= net.hi
<1>1. CASE item \in DOMAIN snapshot.addresses
  <2>1. PICK n \in DOMAIN snapshot.addresses : net = snapshot.addresses[n]
    BY <1>1 DEF Meant
  <2> QED  BY <2>1, DataOk DEF AddressesOk, AddressType
<1>2. CASE item \notin DOMAIN snapshot.addresses
  <2>1. net = item /\ item \in [lo: Nat, hi: Nat]
    BY <1>2, DataOk DEF Valid, Meant
  <2>2. item.lo <= item.hi
    BY <2>1, DataOk, RequestsAssumption
  <2> QED  BY <2>1, <2>2
<1> QED  BY <1>1, <1>2

LEMMA SideCovered ==
  ASSUME EvalInv, request # NoRequest, NEW items \in {request.srcs, request.dsts}, NEW names,
         LET nets == RequestNetworks(snapshot.addresses, items)
         IN  \A k \in DOMAIN nets : Covered(nets[k], Bounds(snapshot.addresses, names))
  PROVE  PointsAsked(items) \subseteq Points(names)
<1> DEFINE map == snapshot.addresses
           nets == RequestNetworks(map, items)
<1>1. IsList(items)
  BY DataOk DEF ItemsOk
<1> SUFFICES ASSUME NEW x \in PointsAsked(items) PROVE x \in Points(names)
  OBVIOUS
<1>2. PICK k \in DOMAIN nets : x \in nets[k].lo .. nets[k].hi
  BY <1>1, PointsOfSide
<1>3. PICK item \in Range(items) : Meant(map, item, nets[k])
  BY <1>1, DataOk, NetworksAre
<1>4. PICK b \in Bounds(map, names) : IsCoveredBy(nets[k], b)
  BY DEF Covered
<1> HIDE DEF nets
<1>5. nets[k].lo \in Nat /\ nets[k].hi \in Nat
  BY <1>3, NetworkType
<1>6. PICK n \in Leaves(map, names) \cap DOMAIN map : b = map[n]
  BY ListedIsLeaf
<1>7. b.lo \in Nat /\ b.hi \in Nat
  BY <1>6, DataOk DEF AddressesOk, AddressType
<1>8. x \in b.lo .. b.hi
  BY <1>2, <1>4, <1>5, <1>7 DEF IsCoveredBy
<1> QED  BY <1>6, <1>8 DEF Points

\* A result that lacks nothing comes from a policy that holds every single
\* address of the request, on both sides, whatever names, groups, ranges and
\* networks either is made of (CoveredMeansCovered).
THEOREM CoveredIsCovered == Spec => []CoveredMeansCovered
<1>1. EvalInv => CoveredMeansCovered
  <2> SUFFICES ASSUME EvalInv, NEW k \in DOMAIN results, results[k].missing = {}
               PROVE  /\ PointsAsked(request.srcs) \subseteq Points(results[k].policy.srcaddr)
                      /\ PointsAsked(request.dsts) \subseteq Points(results[k].policy.dstaddr)
    BY DEF CoveredMeansCovered
  <2> DEFINE map == snapshot.addresses
             srcs == RequestNetworks(map, request.srcs)
             dsts == RequestNetworks(map, request.dsts)
  <2>1. request # NoRequest
    <3>1. request = NoRequest => results = <<>>
      BY DataOk, NothingAsked DEF EvalInv
    <3> QED  BY <3>1
  <2>2. PICK p : ExpandedType(snapshot, p) /\ results[k] = Scored(snapshot, p, srcs, dsts, request.srvs)
    BY DataOk, EvaluateIs DEF EvalInv
  <2>3. IsList(srcs) /\ IsList(dsts)
    BY DataOk, EvaluateIs
  <2> HIDE DEF srcs, dsts
  <2>4. results[k].policy = p /\ Missing(map, p, srcs, dsts) = {}
    <3>1. IsList(request.srvs)
      BY DataOk DEF ItemsOk
    <3>2. /\ Scored(snapshot, p, srcs, dsts, request.srvs).policy = p
          /\ Scored(snapshot, p, srcs, dsts, request.srvs).missing = Missing(map, p, srcs, dsts)
      <4> DEFINE r == Scored(snapshot, p, srcs, dsts, request.srvs)
      <4>1. ExpandedType(snapshot, p)
        BY <2>2
      <4>2. r.policy = p /\ r.missing = Missing(snapshot.addresses, p, srcs, dsts)
        BY <2>3, <3>1, <4>1, ScoredIs
      <4> QED  BY <4>2
    <3> QED  BY <2>2, <3>2
  <2>5. /\ \A i \in DOMAIN srcs : Covered(srcs[i], Bounds(map, p.srcaddr))
        /\ \A i \in DOMAIN dsts : Covered(dsts[i], Bounds(map, p.dstaddr))
    BY <2>4, MissingIs
  <2> QED  BY <2>1, <2>4, <2>5, SideCovered DEF srcs, dsts
<1> QED  BY <1>1, Answered, PTL

-----------------------------------------------------------------------------
(* What covers is offered.                                                 *)

\* A service is among those reached from it.
LEMMA ReachesItself ==
  ASSUME NEW map, NEW v, IsFiniteSet(DOMAIN map)
  PROVE  v \in ReachFrom(map, v)
<1> DEFINE U == {v} \cup UNION {map[n].group : n \in DOMAIN map}
           V == SUBSET U
           More(met) == met \cup UNION {map[n].group : n \in met \cap DOMAIN map}
           g == [met \in V |-> More(met)]
           c == Cardinality(DOMAIN map)
<1>1. {v} \in V /\ g \in [V -> V]
  OBVIOUS
<1>2. \A met \in V : g[met] = More(met)
  OBVIOUS
<1> HIDE DEF V, g, More
<1>3. \E f \in [Nat -> V] : f[0] = {v} /\ \A k \in Nat : k # 0 => f[k] = g[f[k - 1]]
  BY <1>1, RecursionExists
<1>4. PICK F \in [Nat -> V] : F[0] = {v} /\ \A k \in Nat : k # 0 => F[k] = g[F[k - 1]]
  BY <1>3
<1>5. \A k \in Nat : k # 0 => F[k] = More(F[k - 1])
  <2> SUFFICES ASSUME NEW k \in Nat, k # 0 PROVE F[k] = More(F[k - 1])
    OBVIOUS
  <2>1. k - 1 \in Nat /\ F[k - 1] \in V
    BY <1>4
  <2> QED  BY <1>2, <1>4, <2>1
<1>6. F = [k \in Nat |-> IF k = 0 THEN {v} ELSE More(F[k - 1])]
  BY <1>4, <1>5
<1>7. \E f : /\ f = [k \in Nat |-> IF k = 0 THEN {v} ELSE
                        f[k - 1] \cup UNION {map[n].group : n \in f[k - 1] \cap DOMAIN map}]
             /\ ReachFrom(map, v) = f[c]
  BY <1>6 DEF ReachFrom, More
<1>8. PICK f : f = [k \in Nat |-> IF k = 0 THEN {v} ELSE More(f[k - 1])] /\ ReachFrom(map, v) = f[c]
  BY <1>7 DEF More
<1>9. \A k \in Nat : f[k] = IF k = 0 THEN {v} ELSE More(f[k - 1])
  BY <1>8
<1>10. \A k \in Nat : v \in f[k]
  <2> DEFINE S == {k \in Nat : v \in f[k]}
  <2>1. 0 \in S
    BY <1>9
  <2>2. ASSUME NEW k \in Nat, k \in S PROVE k + 1 \in S
    <3>1. k + 1 \in Nat /\ k + 1 # 0 /\ (k + 1) - 1 = k
      OBVIOUS
    <3>2. f[k + 1] = More(f[k])
      BY <1>9, <3>1
    <3> QED  BY <2>2, <3>1, <3>2 DEF More
  <2> HIDE DEF S
  <2>3. \A k \in Nat : k \in S
    BY <2>1, <2>2, AllNumbers
  <2> QED  BY <2>3 DEF S
<1>11. c \in Nat
  BY FS_CardinalityType
<1> HIDE DEF c
<1> QED  BY <1>8, <1>10, <1>11

\* A service that opens a port matches a request for it.
LEMMA OpenMatches ==
  ASSUME EvalInv, NEW o \in DOMAIN snapshot.services, NEW v \in OpenPorts(o)
  PROVE  ServiceMatches(snapshot.services, v, o)
<1> DEFINE map == snapshot.services
           req == Aliases(map, v)
           pol == Aliases(map, o)
<1>1. /\ \A n \in DOMAIN map : n \notin PortEntries /\ map[n].ports \subseteq PortEntries
      /\ IsFiniteSet(DOMAIN map) /\ All \notin PortEntries
  BY DataOk, SnapshotsAssumption DEF SnapshotType
<1>2. PICK n \in ReachFrom(map, o) \cap DOMAIN map :
        \E a \in map[n].ports : v \in {<<a[1], p>> : p \in a[2] .. a[Len(a)]}
  BY DEF OpenPorts
<1>3. PICK a \in map[n].ports : v \in {<<a[1], p>> : p \in a[2] .. a[Len(a)]}
  BY <1>2
<1>4. PICK p \in a[2] .. a[Len(a)] : v = <<a[1], p>>
  BY <1>3
<1>5. a \in PortEntries
  BY <1>1, <1>2
<1>6. a \in pol
  BY <1>2 DEF Aliases
<1>7. v \in req
  BY <1>1, ReachesItself DEF Aliases
<1>8. CASE a \in {"tcp", "udp"} \X Nat
  <2>1. Len(a) = 2 /\ a = <<a[1], a[2]>> /\ a[2] \in Nat
    BY <1>8
  <2>2. p = a[2]
    BY <1>4, <2>1
  <2>3. v = a
    BY <1>4, <2>1, <2>2
  <2> QED  BY <1>6, <1>7, <2>3 DEF ServiceMatches
<1>9. CASE a \in {"tcp", "udp"} \X Nat \X Nat
  <2>1. Len(a) = 3 /\ a[1] \in {"tcp", "udp"} /\ a[2] \in Nat /\ a[3] \in Nat
    BY <1>9
  <2>2. p \in Nat /\ a[2] <= p /\ p <= a[3]
    BY <1>4, <2>1
  <2>3. v \in PortEntries /\ Len(v) = 2 /\ v[1] = a[1] /\ v[2] = p
    BY <1>4, <2>1, <2>2 DEF PortEntries
  <2>4. IsPort(map, v) /\ IsPortRange(map, a)
    BY <1>1, <1>5, <2>1, <2>3 DEF IsPort, IsPortRange
  <2>5. PortWithin(v, a)
    BY <2>2, <2>3 DEF PortWithin
  <2> HIDE DEF req, pol
  <2>6. ServiceMatches(map, v, o) <=>
          \/ IsAnyOrHasAny(map, o)
          \/ req \cap pol # {}
          \/ \E r \in {x \in req : IsPort(map, x)}, b \in {x \in pol : IsPortRange(map, x)} : PortWithin(r, b)
    BY DEF ServiceMatches, req, pol
  <2> QED  BY <1>6, <1>7, <2>4, <2>5, <2>6
<1> QED  BY <1>5, <1>8, <1>9 DEF PortEntries

\* Addresses that contain each item contain its networks.
LEMMA HoldingCovers ==
  ASSUME EvalInv, request # NoRequest, NEW items \in {request.srcs, request.dsts},
         NEW names, IsList(names),
         \A i \in Range(items) :
           \E n \in Leaves(snapshot.addresses, names) \cap DOMAIN snapshot.addresses :
             PointsAsked(<<i>>) \subseteq snapshot.addresses[n].lo .. snapshot.addresses[n].hi
  PROVE  LET nets == RequestNetworks(snapshot.addresses, items)
         IN  \A k \in DOMAIN nets :
               Covered(nets[k], Bounds(snapshot.addresses, ExpandNames(snapshot.addresses, names)))
<1> DEFINE map == snapshot.addresses
           nets == RequestNetworks(map, items)
<1>1. IsList(items)
  BY DataOk DEF ItemsOk
<1> SUFFICES ASSUME NEW k \in DOMAIN nets
             PROVE  Covered(nets[k], Bounds(map, ExpandNames(map, names)))
  OBVIOUS
<1>2. PICK i \in Range(items) : Meant(map, i, nets[k])
  BY <1>1, DataOk, NetworksAre
<1> DEFINE net == nets[k]
<1> HIDE DEF net, nets
<1>3. net.lo \in Nat /\ net.hi \in Nat /\ net.lo <= net.hi /\ Meant(map, i, net)
  BY <1>2, NetworkType DEF net
<1>4. net.lo .. net.hi \subseteq PointsAsked(<<i>>)
  <2>1. \A x : x \in (IF i \in DOMAIN map THEN Points(<<i>>) ELSE i.lo .. i.hi) => x \in PointsAsked(<<i>>)
    <3>1. i \in Range(<<i>>)
      BY OneName
    <3> QED  BY <3>1 DEF PointsAsked
  <2>2. CASE i \in DOMAIN map
    <3>1. PICK m \in Leaves(map, <<i>>) \cap DOMAIN map : net = map[m]
      BY <1>3, <2>2 DEF Meant
    <3> QED  BY <2>1, <2>2, <3>1 DEF Points
  <2>3. CASE i \notin DOMAIN map
    BY <1>3, <2>1, <2>3 DEF Meant
  <2> QED  BY <2>2, <2>3
<1>5. PICK n \in Leaves(map, names) \cap DOMAIN map : PointsAsked(<<i>>) \subseteq map[n].lo .. map[n].hi
  BY <1>2
<1>6. map[n].lo \in Nat /\ map[n].hi \in Nat
  BY <1>5, DataOk DEF AddressesOk, AddressType
<1>7. net.lo \in map[n].lo .. map[n].hi /\ net.hi \in map[n].lo .. map[n].hi
  <2>1. net.lo \in net.lo .. net.hi /\ net.hi \in net.lo .. net.hi
    BY <1>3
  <2> QED  BY <1>4, <1>5, <2>1
<1>8. IsCoveredBy(net, map[n])
  BY <1>3, <1>6, <1>7 DEF IsCoveredBy
<1>9. map[n] \in Bounds(map, ExpandNames(map, names))
  <2>1. n \in Range(ExpandNames(map, names))
    BY <1>5, DataOk, ExpansionIs
  <2>2. Resolves(map, n)
    BY <1>5 DEF Leaves, Resolves
  <2> QED  BY <2>1, <2>2 DEF Bounds
<1> QED  BY <1>8, <1>9 DEF Covered, net

\* An enabled accepting policy with an address that contains each address asked
\* for, on both sides, and with a port asked for open, is among the results,
\* and nothing is shown as missing: no filter and no score leaves it out
\* (CoveringIsOffered).
THEOREM CoveringPoliciesOffered == Spec => []CoveringIsOffered
<1>1. EvalInv => CoveringIsOffered
  <2> DEFINE map == snapshot.addresses
             srcs == RequestNetworks(map, request.srcs)
             dsts == RequestNetworks(map, request.dsts)
             srvs == request.srvs
             Holds(names, item) ==
               \E n \in Leaves(map, names) \cap DOMAIN map :
                 PointsAsked(<<item>>) \subseteq map[n].lo .. map[n].hi
  <2> SUFFICES ASSUME EvalInv, request # NoRequest, NEW k \in DOMAIN snapshot.policies,
                      snapshot.policies[k].accept, snapshot.policies[k].enabled,
                      \A i \in Range(request.srcs) : Holds(snapshot.policies[k].srcaddr, i),
                      \A i \in Range(request.dsts) : Holds(snapshot.policies[k].dstaddr, i),
                      NEW v \in Range(srvs),
                      NEW o \in Range(snapshot.policies[k].service) \cap DOMAIN snapshot.services,
                      v \in OpenPorts(o)
               PROVE  \E j \in DOMAIN results :
                        results[j].policy.id = snapshot.policies[k].id /\ results[j].missing = {}
    BY DEF CoveringIsOffered
  <2> DEFINE q == snapshot.policies[k]
             p == Expanded(snapshot, q)
             r == Scored(snapshot, p, srcs, dsts, srvs)
             sm == CoveredOf(srcs, Bounds(map, p.srcaddr))
             dm == CoveredOf(dsts, Bounds(map, p.dstaddr))
             vm == OfferedOf(snapshot.services, srvs, p.service)
  <2>1. /\ IsList(q.srcaddr) /\ IsList(q.dstaddr) /\ IsList(srvs) /\ IsList(srcs) /\ IsList(dsts)
        /\ SnapshotType(snapshot)
    BY DataOk, EvaluateIs DEF SnapshotType, PolicyType, ItemsOk
  <2>2. /\ ExpandedType(snapshot, p) /\ p.id = q.id /\ p.service = q.service
        /\ p.srcaddr = ExpandNames(map, q.srcaddr) /\ p.dstaddr = ExpandNames(map, q.dstaddr)
    BY <2>1, ExpandedIs
  <2>3. /\ \A i \in DOMAIN srcs : Covered(srcs[i], Bounds(map, p.srcaddr))
        /\ \A i \in DOMAIN dsts : Covered(dsts[i], Bounds(map, p.dstaddr))
    BY <2>1, <2>2, HoldingCovers
  <2>4. \E i \in DOMAIN srvs : ServiceOffered(snapshot.services, srvs[i], p.service)
    <3>1. ServiceMatches(snapshot.services, v, o)
      BY OpenMatches
    <3> QED  BY <2>2, <3>1 DEF ServiceOffered, Range
  <2> HIDE DEF srcs, dsts
  <2>5. sm = Len(srcs) /\ dm = Len(dsts) /\ vm \in Nat /\ vm > 0
    BY <2>1, <2>3, <2>4, CoveredCount, OfferedCount
  <2>6. r.policy = p /\ r.missing = Missing(map, p, srcs, dsts)
    <3> HIDE DEF p
    <3>1. ExpandedType(snapshot, p)
      BY <2>2
    <3>2. r.policy = p /\ r.missing = Missing(snapshot.addresses, p, srcs, dsts)
      BY <2>1, <3>1, ScoredIs
    <3> QED  BY <3>2
  <2>7. r.candidate = IsCandidate(srcs, dsts, srvs, sm, dm, vm, InterfaceHasRoute(p.dstintf, r.dstitf))
    BY DEF Scored
  <2>8. r.candidate
    <3>1. srvs # <<>>
      BY <2>1, <2>4, ListIs
    <3>2. /\ srcs # <<>> => sm > 0
          /\ dsts # <<>> => dm > 0
      <4>1. ASSUME NEW l, IsList(l), l # <<>> PROVE Len(l) > 0
        BY <4>1 DEF IsList
      <4> QED  BY <2>1, <2>5, <4>1
    <3>3. dsts # <<>> => dm # 0
      BY <2>1, <2>5, <3>2, ListIs
    <3> DEFINE itf == InterfaceHasRoute(p.dstintf, r.dstitf)
    <3>4. IsCandidate(srcs, dsts, srvs, sm, dm, vm, itf)
      <4> HIDE DEF sm, dm, vm, itf
      <4>1. ~ (srvs # <<>> /\ vm = 0) /\ ~ (dsts # <<>> /\ dm = 0)
        BY <2>5, <3>3
      <4> QED  BY <3>2, <4>1 DEF IsCandidate
    <3> HIDE DEF sm, dm, vm, r
    <3> QED  BY <2>7, <3>4
  <2>9. r.missing = {}
    BY <2>3, <2>6, MissingIs
  <2>10. \E j \in DOMAIN results : results[j] = r
    <3> HIDE DEF r, p
    <3>1. srvs # <<>>
      BY <2>1, <2>4, ListIs
    <3> QED  BY <2>1, <2>8, <3>1, DataOk, EvaluateIs DEF EvalInv, srcs, dsts, r, p
  <2> HIDE DEF r
  <2> QED  BY <2>2, <2>6, <2>9, <2>10
<1> QED  BY <1>1, Answered, PTL

-----------------------------------------------------------------------------
(* The order of the routes does not matter.                                *)

Usable(routes, ip) ==
  {k \in DOMAIN routes : routes[k].enabled /\ routes[k].lo <= ip /\ ip <= routes[k].hi}

RoutesOk(routes) == IsList(routes) /\ \A k \in DOMAIN routes : RouteType(routes[k])

\* The usable route that is longer than all others is taken.
LEMMA TakesLongest ==
  ASSUME NEW routes, RoutesOk(routes), NEW ip, NEW k \in Usable(routes, ip),
         \A j \in Usable(routes, ip) : j = k \/ routes[j].length < routes[k].length
  PROVE  SelectInterface(routes, ip) = routes[k].interface
<1> DEFINE usable == Usable(routes, ip)
           best == {i \in usable : \A j \in usable :
                      \/ routes[j].length < routes[i].length
                      \/ routes[j].length = routes[i].length /\ i <= j}
<1>1. SelectInterface(routes, ip) =
        IF usable = {} THEN None ELSE routes[CHOOSE i \in best : TRUE].interface
  BY DEF SelectInterface, Usable
<1>2. \A j \in usable : j \in Nat /\ routes[j].length \in Nat
  BY DEF RoutesOk, RouteType, Usable, IsList
<1>3. best = {k}
  <2>1. k \in best
    <3>1. \A j \in usable : j = k => routes[j].length = routes[k].length /\ k <= j
      BY <1>2
    <3> QED  BY <3>1
  <2>2. ASSUME NEW i \in best PROVE i = k
    <3>1. \/ routes[k].length < routes[i].length
          \/ routes[k].length = routes[i].length
      BY <2>2
    <3>2. routes[k].length \in Nat /\ routes[i].length \in Nat
      BY <1>2, <2>2
    <3>3. ~ (routes[i].length < routes[k].length)
      BY <3>1, <3>2
    <3> QED  BY <2>2, <3>3
  <2> QED  BY <2>1, <2>2
<1> HIDE DEF best
<1>4. (CHOOSE i \in best : TRUE) = k
  BY <1>3
<1>5. usable # {}
  OBVIOUS
<1> QED  BY <1>1, <1>4, <1>5

LEMMA ReverseIs ==
  ASSUME NEW routes, IsList(routes)
  PROVE  LET n == Len(routes)
         IN  /\ IsList(Reverse(routes)) /\ DOMAIN Reverse(routes) = 1 .. n
             /\ \A k \in 1 .. n : Reverse(routes)[k] = routes[n - k + 1] /\ n - k + 1 \in 1 .. n
<1> DEFINE n == Len(routes)
           r == Reverse(routes)
<1>1. n \in Nat /\ DOMAIN routes = 1 .. n
  BY ListIs
<1>2. r = [k \in 1 .. n |-> routes[n - k + 1]]
  BY DEF Reverse
<1> HIDE DEF n, r
<1>3. DOMAIN r = 1 .. n /\ \A k \in 1 .. n : r[k] = routes[n - k + 1] /\ n - k + 1 \in 1 .. n
  BY <1>1, <1>2
<1>4. r \in [1 .. n -> Range(r)]
  BY <1>2, <1>3 DEF Range
<1>5. IsList(r)
  BY <1>1, <1>4 DEF IsList
<1> QED  BY <1>3, <1>5 DEF n, r

LEMMA DistinctLengths ==
  ASSUME NEW routes, IsList(routes),
         Cardinality({routes[k].length : k \in DOMAIN routes}) = Len(routes)
  PROVE  \A j, k \in DOMAIN routes : routes[j].length = routes[k].length => j = k
<1> DEFINE f == [k \in DOMAIN routes |-> routes[k].length]
           T == {routes[k].length : k \in DOMAIN routes}
<1>1. f \in Surjection(DOMAIN routes, T)
  BY DEF Surjection
<1>2. IsFiniteSet(DOMAIN routes) /\ Cardinality(DOMAIN routes) = Len(routes)
  BY ListIs
<1>3. f \in Injection(DOMAIN routes, T)
  <2> HIDE DEF f
  <2> QED  BY <1>1, <1>2, FS_Surjection
<1> QED  BY <1>3 DEF Injection, IsInjective

LEMMA SelectReversed ==
  ASSUME NEW routes, RoutesOk(routes), NEW ip,
         \A j, k \in DOMAIN routes : routes[j].length = routes[k].length => j = k
  PROVE  SelectInterface(Reverse(routes), ip) = SelectInterface(routes, ip)
<1> DEFINE n == Len(routes)
           other == Reverse(routes)
           usable == Usable(routes, ip)
           usable2 == Usable(other, ip)
<1>1. n \in Nat /\ DOMAIN routes = 1 .. n /\ IsFiniteSet(DOMAIN routes)
  BY ListIs DEF RoutesOk
<1>2. /\ IsList(other) /\ DOMAIN other = 1 .. n
      /\ \A k \in 1 .. n : other[k] = routes[n - k + 1] /\ n - k + 1 \in 1 .. n
  BY ReverseIs DEF RoutesOk
<1> HIDE DEF n, other
<1>3. RoutesOk(other)
  BY <1>1, <1>2 DEF RoutesOk
<1>4. \A k \in usable2 : k \in 1 .. n /\ n - k + 1 \in usable
  BY <1>1, <1>2 DEF Usable
<1>5. \A k \in usable : n - k + 1 \in usable2 /\ other[n - k + 1] = routes[k]
  <2> SUFFICES ASSUME NEW k \in usable PROVE n - k + 1 \in usable2 /\ other[n - k + 1] = routes[k]
    OBVIOUS
  <2>1. k \in 1 .. n
    BY <1>1 DEF Usable
  <2>2. n - k + 1 \in 1 .. n /\ n - (n - k + 1) + 1 = k
    BY <1>1, <2>1
  <2>3. other[n - k + 1] = routes[k]
    BY <1>2, <2>2
  <2> QED  BY <1>2, <2>2, <2>3 DEF Usable
<1>6. CASE usable = {}
  <2>1. usable2 = {}
    BY <1>4, <1>6
  <2>2. SelectInterface(routes, ip) = None
    BY <1>6 DEF SelectInterface, Usable
  <2>3. SelectInterface(other, ip) = None
    BY <2>1 DEF SelectInterface, Usable
  <2> QED  BY <2>2, <2>3 DEF other
<1>7. CASE usable # {}
  <2> DEFINE S == {routes[k].length : k \in usable}
             f == [k \in usable |-> routes[k].length]
  <2>1. \A k \in usable : k \in DOMAIN routes /\ routes[k].length \in Nat
    BY DEF RoutesOk, RouteType, Usable
  <2>2. S \subseteq Nat /\ S # {}
    BY <1>7, <2>1
  <2>3. IsFiniteSet(S)
    <3>1. usable \subseteq DOMAIN routes
      BY <2>1
    <3>2. IsFiniteSet(usable)
      BY <1>1, <3>1, FS_Subset
    <3>3. f \in Surjection(usable, S)
      BY DEF Surjection
    <3> HIDE DEF f, S
    <3> QED  BY <3>2, <3>3, FS_Surjection
  <2>4. PICK m \in S : \A l \in S : m >= l
    <3> HIDE DEF S
    <3> QED  BY <2>2, <2>3, GreatestIs
  <2>5. PICK k \in usable : routes[k].length = m
    BY <2>4
  <2>6. \A j \in usable : j = k \/ routes[j].length < routes[k].length
    <3> SUFFICES ASSUME NEW j \in usable, j # k PROVE routes[j].length < routes[k].length
      OBVIOUS
    <3>1. m >= routes[j].length
      BY <2>4
    <3>2. routes[j].length # routes[k].length
      BY <2>1
    <3> QED  BY <2>1, <2>5, <3>1, <3>2
  <2>7. SelectInterface(routes, ip) = routes[k].interface
    BY <2>5, <2>6, TakesLongest
  <2> DEFINE i == n - k + 1
  <2>8. i \in usable2 /\ other[i] = routes[k]
    BY <1>5, <2>5
  <2>9. \A j \in usable2 : j = i \/ other[j].length < other[i].length
    <3> SUFFICES ASSUME NEW j \in usable2, j # i PROVE other[j].length < other[i].length
      OBVIOUS
    <3>1. j \in 1 .. n /\ n - j + 1 \in usable /\ other[j] = routes[n - j + 1]
      BY <1>2, <1>4
    <3>2. k \in 1 .. n
      BY <1>1, <2>1
    <3>3. n - j + 1 # k
      BY <1>1, <3>1, <3>2
    <3> QED  BY <2>6, <2>8, <3>1, <3>3
  <2>10. SelectInterface(other, ip) = other[i].interface
    BY <1>3, <2>8, <2>9, TakesLongest
  <2> QED  BY <2>7, <2>8, <2>10 DEF other
<1> QED  BY <1>6, <1>7

\* Reversing the table of routes changes no answer, as long as no two routes
\* are of the same length (RouteOrderIrrelevant).
THEOREM RouteOrderIsIrrelevant == Spec => []RouteOrderIrrelevant
<1>1. EvalInv => RouteOrderIrrelevant
  <2> SUFFICES ASSUME EvalInv,
                      Cardinality({snapshot.routes[k].length : k \in DOMAIN snapshot.routes})
                        = Len(snapshot.routes)
               PROVE  Evaluate([snapshot EXCEPT !.routes = Reverse(@)], request) = results
    BY DEF RouteOrderIrrelevant
  <2> DEFINE s == snapshot
             other == [s EXCEPT !.routes = Reverse(@)]
  <2>1. SnapshotType(s) /\ RoutesOk(s.routes)
    BY DataOk DEF SnapshotType, RoutesOk
  <2>2. /\ other.addresses = s.addresses /\ other.services = s.services /\ other.policies = s.policies
        /\ other.routes = Reverse(s.routes)
    <3>1. s = [addresses |-> s.addresses, services |-> s.services, routes |-> s.routes,
               policies |-> s.policies]
      BY <2>1 DEF SnapshotType
    <3> HIDE DEF s
    <3> QED  BY <3>1
  <2>3. \A ip : SelectInterface(other.routes, ip) = SelectInterface(s.routes, ip)
    <3>1. \A j, k \in DOMAIN s.routes : s.routes[j].length = s.routes[k].length => j = k
      BY <2>1, DistinctLengths DEF RoutesOk
    <3> QED  BY <2>1, <2>2, <3>1, SelectReversed
  <2> HIDE DEF s, other
  <2>4. Normalized(other) = Normalized(s)
    BY <2>2 DEF Normalized
  <2>5. ASSUME NEW p, NEW srcs, NEW dsts, NEW srvs
        PROVE  Scored(other, p, srcs, dsts, srvs) = Scored(s, p, srcs, dsts, srvs)
    BY <2>2, <2>3 DEF Scored
  <2>6. Evaluate(other, request) = Evaluate(s, request)
    <3> DEFINE srcs == RequestNetworks(s.addresses, request.srcs)
               dsts == RequestNetworks(s.addresses, request.dsts)
               policies == Normalized(s)
               All1 == [k \in DOMAIN policies |-> Scored(s, policies[k], srcs, dsts, request.srvs)]
               All2 == [k \in DOMAIN policies |-> Scored(other, policies[k], srcs, dsts, request.srvs)]
               Answer(all) == IF srcs = <<>> /\ dsts = <<>> /\ request.srvs = <<>> THEN <<>>
                              ELSE Ranked(At(all, {k \in DOMAIN all : all[k].candidate}))
    <3>1. Evaluate(s, request) = Answer(All1)
      BY DEF Evaluate
    <3>2. Evaluate(other, request) = Answer(All2)
      BY <2>2, <2>4 DEF Evaluate
    <3>3. All1 = All2
      <4> HIDE DEF policies, srcs, dsts
      <4> QED  BY <2>5
    <3> HIDE DEF All1, All2, Answer
    <3> QED  BY <3>1, <3>2, <3>3
  <2> QED  BY <2>6 DEF EvalInv, s, other
<1> QED  BY <1>1, Answered, PTL

\* A policy that covers all that is asked scores 40 points for each network and
\* pays for the addresses it lists beside and for those that are broad: a narrow
\* one pays at most 10, a broad one at least 15 less what few addresses win.
LEMMA NarrowPays ==
  ASSUME EvalInv, NEW names, IsList(names), NEW nets, IsList(nets),
         \A k \in DOMAIN nets : Covered(nets[k], Bounds(snapshot.addresses, names))
  PROVE  LET score == SideScore(snapshot.addresses, nets, names)
             n == Len(nets)
         IN  /\ n \in Nat /\ score \in Int
             /\ ~ IsBroad(names) => score >= 40 * n - 10
             /\ IsBroad(names) => score <= 41 * n - 16
<1> DEFINE map == snapshot.addresses
           n == Len(nets)
           l == Len(names)
           score == SideScore(map, nets, names)
           m == Min2(10, l - n)
           a == IF All \in Range(names) THEN 15 ELSE 0
           b == BroadOf(map, names)
           Costs == \E k \in DOMAIN names : Resolves(map, names[k]) /\ map[names[k]].broad
<1>1. score \in Int /\ score = 40 * n - (m + a + 15 * b)
  <2>1. CoveredOf(nets, Bounds(map, names)) = n
    BY CoveredCount
  <2> QED  BY <2>1, SideScoreIs
<1>2. n \in Nat /\ l \in Nat /\ DOMAIN names = 1 .. l
  BY ListIs
<1>3. b \in Nat /\ (Costs => b > 0) /\ (~ Costs => b = 0)
  BY BroadCount
<1>4. a \in Nat /\ (All \in Range(names) => a = 15) /\ (All \notin Range(names) => a = 0)
  OBVIOUS
<1>5. IsBroad(names) <=> (All \in Range(names) \/ Costs)
  <2>1. \A x \in DOMAIN map : map[x].broad => Resolves(map, x)
    BY DataOk DEF AddressesOk, AddressType, Resolves
  <2>2. \A x : x \in Range(names) <=> \E k \in DOMAIN names : names[k] = x
    BY DEF Range
  <2> QED  BY <2>1, <2>2 DEF IsBroad, Resolves
<1>6. IsBroad(names) => l >= 1
  <2>1. IsBroad(names) => \E k \in DOMAIN names : TRUE
    BY DEF IsBroad, Range
  <2> QED  BY <1>2, <2>1
<1>7. m \in Int /\ m <= 10 /\ (l >= 1 => m >= 1 - n)
  <2> HIDE DEF n, l
  <2> QED  BY <1>2 DEF Min2
<1> HIDE DEF score, m, a, b, n, l, Costs
<1>8. ASSUME ~ IsBroad(names) PROVE score >= 40 * n - 10
  <2>1. a = 0 /\ b = 0
    BY <1>3, <1>4, <1>5, <1>8
  <2> QED  BY <1>1, <1>2, <1>7, <2>1
<1>9. ASSUME IsBroad(names) PROVE score <= 41 * n - 16
  <2>1. m >= 1 - n
    BY <1>6, <1>7, <1>9
  <2>2. a + 15 * b >= 15
    <3>1. a = 15 \/ b >= 1
      BY <1>3, <1>4, <1>5, <1>9
    <3> QED  BY <1>3, <1>4, <3>1
  <2> QED  BY <1>1, <1>2, <1>3, <1>4, <1>7, <2>1, <2>2
<1> QED  BY <1>1, <1>2, <1>8, <1>9 DEF score, n

\* Of two results that differ only in their sources, the difference of their
\* scores is that of their source sides.
LEMMA AlikeRest ==
  ASSUME EvalInv, NEW i \in DOMAIN results, NEW j \in DOMAIN results,
         Alike(results[i].policy, results[j].policy)
  PROVE  LET srcs == RequestNetworks(snapshot.addresses, request.srcs)
             Side(k) == SideScore(snapshot.addresses, srcs, results[k].policy.srcaddr)
         IN  \E rest \in Int : /\ results[i].score = Side(i) + rest
                               /\ results[j].score = Side(j) + rest
<1> DEFINE map == snapshot.addresses
           srcs == RequestNetworks(map, request.srcs)
           dsts == RequestNetworks(map, request.dsts)
           Rest(p, r) == SideScore(map, dsts, p.dstaddr)
                           + ServiceScore(snapshot.services, request.srvs, p.service)
                           + InterfaceScore(srcs, InterfaceMatches(p.srcintf, r.srcitf))
                           + InterfaceScore(dsts, InterfaceMatches(p.dstintf, r.dstitf))
<1>1. /\ SnapshotType(snapshot) /\ ItemsOk(request) /\ IsList(request.srvs)
      /\ results = Evaluate(snapshot, request)
  BY DataOk DEF EvalInv, ItemsOk
<1>2. /\ IsList(srcs) /\ IsList(dsts)
      /\ \A k \in DOMAIN results :
           \E p : ExpandedType(snapshot, p) /\ results[k] = Scored(snapshot, p, srcs, dsts, request.srvs)
  BY <1>1, EvaluateIs
<1> HIDE DEF srcs, dsts
<1>3. ASSUME NEW k \in DOMAIN results
      PROVE  /\ results[k].srcitf = (IF srcs = <<>> THEN None ELSE SelectInterface(snapshot.routes, srcs[1].lo))
             /\ results[k].dstitf = (IF dsts = <<>> THEN None ELSE SelectInterface(snapshot.routes, dsts[1].lo))
             /\ Rest(results[k].policy, results[k]) \in Int
             /\ results[k].score = SideScore(map, srcs, results[k].policy.srcaddr)
                                    + Rest(results[k].policy, results[k])
  <2>1. PICK p : ExpandedType(snapshot, p) /\ results[k] = Scored(snapshot, p, srcs, dsts, request.srvs)
    BY <1>2
  <2>2. ExpandedType(snapshot, p)
    BY <2>1
  <2> DEFINE r == Scored(snapshot, p, srcs, dsts, request.srvs)
  <2>3. /\ r.policy = p
        /\ r.srcitf = (IF srcs = <<>> THEN None ELSE SelectInterface(snapshot.routes, srcs[1].lo))
        /\ r.dstitf = (IF dsts = <<>> THEN None ELSE SelectInterface(snapshot.routes, dsts[1].lo))
        /\ Rest(p, r) \in Int
        /\ r.score = SideScore(map, srcs, p.srcaddr) + Rest(p, r)
    BY <1>1, <1>2, <2>2, ScoredIs
  <2>4. results[k] = r
    BY <2>1
  <2> HIDE DEF r, Rest
  <2> QED  BY <2>3, <2>4
<1>4. Rest(results[i].policy, results[i]) = Rest(results[j].policy, results[j])
  BY <1>3 DEF Alike
<1> HIDE DEF Rest
<1> QED  BY <1>3, <1>4 DEF srcs

\* Least privilege for requests of at most five networks: of two policies that
\* differ only in their sources and both cover the request, the broad one never
\* comes first (LeastPrivilegeFirst).
THEOREM LeastPrivilegeRanks == Spec => []LeastPrivilegeFirst
<1>1. EvalInv => LeastPrivilegeFirst
  <2> DEFINE srcs == RequestNetworks(snapshot.addresses, request.srcs)
             dsts == RequestNetworks(snapshot.addresses, request.dsts)
             n == Len(srcs)
             A(k) == results[k].policy.srcaddr
             Side(k) == SideScore(snapshot.addresses, srcs, A(k))
  <2> SUFFICES ASSUME EvalInv, n <= 5, NEW i \in DOMAIN results, NEW j \in DOMAIN results,
                      Alike(results[i].policy, results[j].policy),
                      results[i].missing = {}, results[j].missing = {},
                      ~ IsBroad(A(i)), IsBroad(A(j))
               PROVE  i < j
    BY DEF LeastPrivilegeFirst, NarrowBeforeBroad
  <2>1. /\ SnapshotType(snapshot) /\ ItemsOk(request) /\ IsList(request.srvs)
        /\ results = Evaluate(snapshot, request)
    BY DataOk DEF EvalInv, ItemsOk
  <2>2. /\ IsList(srcs) /\ IsList(dsts) /\ IsList(results)
        /\ \A k \in DOMAIN results :
             \E p : ExpandedType(snapshot, p) /\ results[k] = Scored(snapshot, p, srcs, dsts, request.srvs)
        /\ \A k, l \in DOMAIN results : k < l => results[k].score >= results[l].score
    BY <2>1, EvaluateIs
  <2> HIDE DEF srcs, dsts
  <2>3. ASSUME NEW k \in DOMAIN results, results[k].missing = {}
        PROVE  /\ IsList(A(k))
               /\ \A m \in DOMAIN srcs : Covered(srcs[m], Bounds(snapshot.addresses, A(k)))
    <3>1. PICK p : ExpandedType(snapshot, p) /\ results[k] = Scored(snapshot, p, srcs, dsts, request.srvs)
      BY <2>2
    <3>2. ExpandedType(snapshot, p)
      BY <3>1
    <3> DEFINE r == Scored(snapshot, p, srcs, dsts, request.srvs)
    <3>3. r.policy = p /\ r.missing = Missing(snapshot.addresses, p, srcs, dsts)
      BY <2>1, <2>2, <3>2, ScoredIs
    <3>4. results[k].policy = p /\ Missing(snapshot.addresses, p, srcs, dsts) = {}
      BY <2>3, <3>1, <3>3
    <3> QED  BY <3>2, <3>4, MissingIs DEF ExpandedType
  <2>4. n \in Nat /\ Side(i) \in Int /\ Side(i) >= 40 * n - 10
    BY <2>2, <2>3, NarrowPays
  <2>5. Side(j) \in Int /\ Side(j) <= 41 * n - 16
    BY <2>2, <2>3, NarrowPays
  <2>6. PICK rest \in Int : results[i].score = Side(i) + rest /\ results[j].score = Side(j) + rest
    BY AlikeRest DEF srcs
  <2>7. i \in Nat /\ j \in Nat
    BY <2>2, ListIs
  <2> HIDE DEF n, Side
  <2>8. Side(i) > Side(j)
    BY <2>4, <2>5
  <2>9. ~ (results[j].score >= results[i].score)
    BY <2>4, <2>5, <2>6, <2>8
  <2>10. ~ (j < i)
    BY <2>2, <2>9
  <2>11. i # j
    BY <2>8
  <2> QED  BY <2>7, <2>10, <2>11
<1> QED  BY <1>1, Answered, PTL

\* Why at most five: from 32 networks on, the list of "all" alone, which pays 30
\* points for being open to everyone, wins more than it pays, and scores above a
\* list of as many addresses as are asked for, none of them broad.
THEOREM CrowdFavoursAll ==
  ASSUME NEW map, NEW nets, IsList(nets), Len(nets) >= 32,
         NEW hosts, IsList(hosts), Len(hosts) = Len(nets), All \notin Range(hosts),
         \A k \in DOMAIN hosts : Resolves(map, hosts[k]) => ~ map[hosts[k]].broad,
         \A k \in DOMAIN nets : /\ Covered(nets[k], Bounds(map, hosts))
                               /\ Covered(nets[k], Bounds(map, <<All>>))
  PROVE  SideScore(map, nets, <<All>>) > SideScore(map, nets, hosts)
<1> DEFINE n == Len(nets)
           all == <<All>>
           b == BroadOf(map, all)
<1>1. n \in Nat /\ n >= 32
  BY ListIs
<1>2. IsList(all) /\ Len(all) = 1 /\ DOMAIN all = {1} /\ All \in Range(all)
  BY DEF IsList, Range
<1>3. b \in {0, 1}
  <2> DEFINE S == {k \in DOMAIN all : Resolves(map, all[k]) /\ map[all[k]].broad}
  <2>1. S = {} \/ S = {1}
    BY <1>2
  <2> HIDE DEF S
  <2>2. Cardinality(S) \in {0, 1}
    BY <2>1, FS_EmptySet, FS_Singleton
  <2> QED  BY <2>2 DEF BroadOf, S
<1>4. SideScore(map, nets, all) = 40 * n - (Min2(10, 1 - n) + 15 + 15 * b)
  <2>1. CoveredOf(nets, Bounds(map, all)) = n
    BY CoveredCount
  <2>2. \A k \in DOMAIN nets : Covered(nets[k], Bounds(map, all))
    OBVIOUS
  <2> HIDE DEF all
  <2>3. SideScore(map, nets, all) =
          40 * n - (Min2(10, Len(all) - n) + (IF All \in Range(all) THEN 15 ELSE 0) + 15 * b)
    BY <1>2, <2>1, <2>2, SideScoreIs
  <2> HIDE DEF b, n
  <2> QED  BY <1>2, <2>3
<1>5. SideScore(map, nets, hosts) = 40 * n - Min2(10, 0)
  <2>1. CoveredOf(nets, Bounds(map, hosts)) = n
    BY CoveredCount
  <2>2. BroadOf(map, hosts) = 0
    BY BroadCount
  <2>3. SideScore(map, nets, hosts) = 40 * n - (Min2(10, n - n) + 0 + 15 * 0)
    BY <2>1, <2>2, SideScoreIs
  <2>4. n - n = 0 /\ Min2(10, 0) \in Int
    BY <1>1 DEF Min2
  <2> HIDE DEF n
  <2> QED  BY <1>1, <2>3, <2>4
<1> HIDE DEF n, b, all
<1>6. Min2(10, 0) = 0 /\ Min2(10, 1 - n) = 1 - n
  BY <1>1 DEF Min2
<1> QED  BY <1>1, <1>3, <1>4, <1>5, <1>6 DEF all

-----------------------------------------------------------------------------
(* PolicyScores                                                              *)

Flags == {"srcany", "dstany", "always", "enabled", "deny", "utm"}

Firewalls ==
  [kind : {"firewall"}, src : Sides, dst : Sides, services : {1, 11}, srcany : BOOLEAN,
   dstany : BOOLEAN, always : BOOLEAN, enabled : BOOLEAN, deny : BOOLEAN,
   log : {"disable", "utm", "all"}, utm : BOOLEAN]

Settings == [on : BOOLEAN, log : BOOLEAN, block : BOOLEAN, threshold : {"none", "low", "fit", "high"}]

Doses == [kind : {"dos"}, scope : Scopes, others : SUBSET (Recommended \ Tuned), anomaly : [Tuned -> Settings]]

TypeOK == subject \in Firewalls \/ subject \in Doses

-----------------------------------------------------------------------------
(* The policy stays of its type.                                           *)

LEMMA FirewallFlag ==
  ASSUME NEW p \in Firewalls, NEW f \in Flags
  PROVE  [p EXCEPT ![f] = ~ @] \in Firewalls
<1>1. CASE f = "srcany"
  BY <1>1 DEF Firewalls
<1>2. CASE f = "dstany"
  BY <1>2 DEF Firewalls
<1>3. CASE f = "always"
  BY <1>3 DEF Firewalls
<1>4. CASE f = "enabled"
  BY <1>4 DEF Firewalls
<1>5. CASE f = "deny"
  BY <1>5 DEF Firewalls
<1>6. CASE f = "utm"
  BY <1>6 DEF Firewalls
<1> QED  BY <1>1, <1>2, <1>3, <1>4, <1>5, <1>6 DEF Flags

LEMMA FirewallStep ==
  ASSUME TypeOK, SetFirewall
  PROVE  subject' \in Firewalls
<1>1. subject \in Firewalls
  BY DEF TypeOK, SetFirewall, Doses
<1>2. CASE \E f \in Flags : subject' = [subject EXCEPT ![f] = ~ @]
  BY <1>1, <1>2, FirewallFlag
<1>3. CASE ~ \E f \in Flags : subject' = [subject EXCEPT ![f] = ~ @]
  BY <1>1, <1>3 DEF SetFirewall, Flags, Firewalls
<1> QED  BY <1>2, <1>3

LEMMA DosStep ==
  ASSUME TypeOK, SetDos
  PROVE  subject' \in Doses
<1>1. subject \in Doses
  BY DEF TypeOK, SetDos, Firewalls
<1>2. ASSUME NEW a \in Tuned, NEW f \in {"on", "log", "block"},
             subject' = [subject EXCEPT !.anomaly[a][f] = ~ @]
      PROVE  subject' \in Doses
  <2> DEFINE s == subject.anomaly[a]
  <2>1. s \in Settings
    BY <1>1 DEF Doses
  <2>2. [s EXCEPT ![f] = ~ @] \in Settings
    BY <1>2, <2>1 DEF Settings
  <2>3. subject' = [subject EXCEPT !.anomaly = [@ EXCEPT ![a] = [s EXCEPT ![f] = ~ @]]]
    BY <1>1, <1>2 DEF Doses
  <2> HIDE DEF s
  <2> QED  BY <1>1, <2>2, <2>3 DEF Doses
<1>3. ASSUME NEW a \in Tuned, NEW t \in {"none", "low", "fit", "high"},
             subject' = [subject EXCEPT !.anomaly[a].threshold = t]
      PROVE  subject' \in Doses
  <2> DEFINE s == subject.anomaly[a]
  <2>1. s \in Settings
    BY <1>1 DEF Doses
  <2>2. [s EXCEPT !.threshold = t] \in Settings
    BY <2>1 DEF Settings
  <2>3. subject' = [subject EXCEPT !.anomaly = [@ EXCEPT ![a] = [s EXCEPT !.threshold = t]]]
    BY <1>1, <1>3 DEF Doses
  <2> HIDE DEF s
  <2> QED  BY <1>1, <2>2, <2>3 DEF Doses
<1>4. CASE \E o \in {{}, Recommended \ Tuned} : subject' = [subject EXCEPT !.others = o]
  BY <1>1, <1>4 DEF Doses
<1>5. CASE \E s \in Scopes : subject' = [subject EXCEPT !.scope = s]
  BY <1>1, <1>5 DEF Doses
<1> QED  BY <1>2, <1>3, <1>4, <1>5 DEF SetDos

LEMMA TypeInvariant == ScoresSpec => []TypeOK
<1>1. ScoresInit => TypeOK
  <2> DEFINE off(a) == [Fit(a) EXCEPT !.on = FALSE]
  <2>1. \A a \in Tuned : Fit(a) \in Settings
    BY DEF Fit, Settings
  <2>2. \A a \in Tuned : off(a) \in Settings
    BY <2>1 DEF Settings
  <2>3. \A s \in Scopes : AllOff(s) = [kind |-> "dos", scope |-> s, others |-> {}, anomaly |-> [a \in Tuned |-> off(a)]]
    BY DEF AllOff
  <2> HIDE DEF off
  <2>4. \A s \in Scopes : AllOff(s) \in Doses
    BY <2>2, <2>3 DEF Doses
  <2>5. CASE \E s \in Scopes : subject = AllOff(s)
    BY <2>4, <2>5 DEF TypeOK
  <2>6. CASE \E s \in Sides :
               subject = [kind |-> "firewall", src |-> s, dst |-> s, services |-> 1, srcany |-> FALSE,
                          dstany |-> FALSE, always |-> TRUE, enabled |-> TRUE, deny |-> FALSE,
                          log |-> "utm", utm |-> FALSE]
    BY <2>6 DEF TypeOK, Firewalls
  <2> QED  BY <2>5, <2>6 DEF ScoresInit
<1>2. TypeOK /\ [ScoresNext]_subject => TypeOK'
  BY FirewallStep, DosStep DEF ScoresNext, TypeOK
<1> QED  BY <1>1, <1>2, PTL DEF ScoresSpec

-----------------------------------------------------------------------------
(* Arithmetic.                                                             *)

\* Rounding a sum of weights to hundredths keeps the order.
LEMMA RoundMonotone ==
  ASSUME NEW n \in Nat, NEW m \in Nat, n <= m
  PROVE  Round(n, 100) <= Round(m, 100)
  BY DEF Round, Add

\* So does rounding a coverage, whose parts are 6 and 17.
LEMMA CoverageRoundMonotone ==
  ASSUME NEW n \in Nat, NEW m \in Nat, n <= m
  PROVE  Round(n, 102) <= Round(m, 102) /\ Round(n, 102) \in Nat
  BY DEF Round, Add

LEMMA RoundType ==
  ASSUME NEW n \in Nat
  PROVE  Round(n, 100) \in Nat
  BY DEF Round, Add

LEMMA SideRiskMonotone ==
  ASSUME NEW s \in Sides, NEW t \in Sides, Narrower(t, s)
  PROVE  SideRisk(t) <= SideRisk(s)
<1>1. s.any \in {0, 1} /\ t.any \in {0, 1} /\ s.broad \in Nat /\ t.broad \in Nat
  BY SidesAssumption
<1> QED  BY <1>1 DEF Narrower, SideRisk, Add, Capped

LEMMA Dimensions ==
  ASSUME NEW p \in Firewalls
  PROVE  /\ SideRisk(p.src) \in 0 .. 65 /\ SideRisk(p.dst) \in 0 .. 65
         /\ Size(p.src) \in Nat /\ Size(p.dst) \in Nat
         /\ AddressScope(p) \in 0 .. 100 /\ LoggingRisk(p) \in Nat
         /\ ConfigRisk(p) \in Nat /\ Staleness(p) \in Nat
<1>1. \A s \in Sides : s.any \in {0, 1} /\ s.broad \in Nat /\ s.other \in Nat
  BY SidesAssumption
<1>2. \A s \in Sides : SideRisk(s) \in 0 .. 65 /\ Size(s) \in Nat
  BY <1>1 DEF SideRisk, Size, Add, Capped
<1>3. SideRisk(p.src) \in 0 .. 65 /\ SideRisk(p.dst) \in 0 .. 65 /\ Size(p.src) \in Nat /\ Size(p.dst) \in Nat
  BY <1>2 DEF Firewalls
<1>4. AddressScope(p) \in 0 .. 100
  BY <1>3 DEF AddressScope, Add, Capped
<1>5. LoggingRisk(p) \in Nat /\ ConfigRisk(p) \in Nat /\ Staleness(p) \in Nat
  BY DEF LoggingRisk, ConfigRisk, Staleness, Add, Firewalls
<1> QED  BY <1>3, <1>4, <1>5

\* Each of the four dimensions falls, or stays, when a policy is hardened.
LEMMA DimensionsMonotone ==
  ASSUME NEW p \in Firewalls, NEW q \in Firewalls, Hardened(q, p)
  PROVE  /\ AddressScope(q) <= AddressScope(p) /\ LoggingRisk(q) <= LoggingRisk(p)
         /\ ConfigRisk(q) <= ConfigRisk(p) /\ Staleness(q) <= Staleness(p)
<1>1. SideRisk(q.src) <= SideRisk(p.src) /\ SideRisk(q.dst) <= SideRisk(p.dst)
  BY SideRiskMonotone DEF Hardened, Firewalls
<1>2. Size(q.src) <= Size(p.src) /\ Size(q.dst) <= Size(p.dst)
  BY DEF Hardened, Narrower
<1>3. AddressScope(q) <= AddressScope(p)
  <2>1. /\ SideRisk(q.src) \in Nat /\ SideRisk(q.dst) \in Nat /\ Size(q.src) \in Nat /\ Size(q.dst) \in Nat
        /\ SideRisk(p.src) \in Nat /\ SideRisk(p.dst) \in Nat /\ Size(p.src) \in Nat /\ Size(p.dst) \in Nat
    BY Dimensions
  <2> QED  BY <1>1, <1>2, <2>1 DEF AddressScope, Add, Capped
<1>4. Unlogged(q) => Unlogged(p)
  BY DEF Hardened, LogRank, Unlogged, Firewalls
<1>5. LoggingRisk(q) <= LoggingRisk(p)
  BY <1>4 DEF Hardened, LogRank, LoggingRisk, Unlogged, Add, Firewalls
<1>6. ConfigRisk(q) <= ConfigRisk(p)
  BY DEF Hardened, ConfigRisk, Add, Firewalls
<1>7. Staleness(q) <= Staleness(p)
  BY <1>4 DEF Hardened, Staleness, Add
<1> QED  BY <1>3, <1>5, <1>6, <1>7

\* The sum that falls short of its tie is one only AddressScope reaches, so
\* rounding it down does not put it below the score of a hardened policy.
LEMMA RiskMonotone ==
  ASSUME NEW p \in Firewalls, NEW q \in Firewalls, Hardened(q, p)
  PROVE  RiskScore(q) <= RiskScore(p)
<1> DEFINE sum(r) == 35 * AddressScope(r) + 25 * LoggingRisk(r) + 25 * ConfigRisk(r) + 15 * Staleness(r)
           short(r) == AddressScope(r) = 90 /\ sum(r) = 35 * 90
<1>1. /\ AddressScope(p) \in Nat /\ LoggingRisk(p) \in Nat /\ ConfigRisk(p) \in Nat /\ Staleness(p) \in Nat
      /\ AddressScope(q) \in Nat /\ LoggingRisk(q) \in Nat /\ ConfigRisk(q) \in Nat /\ Staleness(q) \in Nat
  BY Dimensions
<1>2. /\ AddressScope(q) <= AddressScope(p) /\ LoggingRisk(q) <= LoggingRisk(p)
      /\ ConfigRisk(q) <= ConfigRisk(p) /\ Staleness(q) <= Staleness(p)
  BY DimensionsMonotone
<1>3. sum(q) \in Nat /\ sum(p) \in Nat /\ sum(q) <= sum(p)
  BY <1>1, <1>2
<1>4. Round(sum(q), 100) <= Round(sum(p), 100) /\ Round(sum(q), 100) \in Nat /\ Round(sum(p), 100) \in Nat
  BY <1>3, RoundMonotone, RoundType
<1>5. Round(3149, 100) = 31 /\ Round(3150, 100) = 32
  BY DEF Round, Add
<1>6. RiskScore(q) = IF short(q) THEN 31 ELSE Round(sum(q), 100)
  BY DEF RiskScore
<1>7. RiskScore(p) = IF short(p) THEN 31 ELSE Round(sum(p), 100)
  BY DEF RiskScore
<1>8. CASE short(p) /\ ~ short(q)
  <2>1. LoggingRisk(q) = 0 /\ ConfigRisk(q) = 0 /\ Staleness(q) = 0
    <3>1. AddressScope(p) = 90 /\ sum(p) = 3150
      BY <1>8
    <3>2. LoggingRisk(p) = 0 /\ ConfigRisk(p) = 0 /\ Staleness(p) = 0
      BY <1>1, <3>1
    <3> HIDE DEF sum
    <3> QED  BY <1>1, <1>2, <3>2
  <2>2. sum(q) <= 3149
    <3>1. CASE AddressScope(q) = 90
      BY <1>8, <2>1, <3>1
    <3>2. CASE AddressScope(q) # 90
      <4>1. AddressScope(q) <= 89
        BY <1>1, <1>2, <1>8, <3>2
      <4> QED  BY <1>1, <2>1, <4>1
    <3> QED  BY <3>1, <3>2
  <2>3. Round(sum(q), 100) <= 31
    BY <1>3, <1>5, <2>2, RoundMonotone
  <2> QED  BY <1>6, <1>7, <1>8, <2>3
<1>9. CASE short(q) /\ ~ short(p)
  <2>1. Round(sum(q), 100) = 32
    BY <1>5, <1>9
  <2> HIDE DEF sum, short
  <2> QED  BY <1>4, <1>6, <1>7, <1>9, <2>1
<1>10. CASE short(p) <=> short(q)
  <2> HIDE DEF sum, short
  <2> QED  BY <1>4, <1>6, <1>7, <1>10
<1> QED  BY <1>8, <1>9, <1>10

\* Hardening a firewall policy never raises its risk, whatever address lists
\* it has (engine/risk_assessor.py, assess).
THEOREM HardeningIsSafe == ScoresSpec => HardeningNeverRaisesRisk
<1>1. TypeOK /\ TypeOK' /\ [ScoresNext]_subject =>
        [subject.kind = "firewall" /\ Hardened(subject', subject)
           => RiskScore(subject') <= RiskScore(subject)]_subject
  <2> SUFFICES ASSUME TypeOK, TypeOK', ScoresNext, subject.kind = "firewall",
                      Hardened(subject', subject)
               PROVE  RiskScore(subject') <= RiskScore(subject)
    OBVIOUS
  <2>1. subject \in Firewalls
    BY DEF TypeOK, Doses
  <2>2. subject' \in Firewalls
    BY <2>1, FirewallStep DEF ScoresNext, SetDos, Firewalls
  <2> QED  BY <2>1, <2>2, RiskMonotone
<1> QED  BY <1>1, TypeInvariant, PTL DEF ScoresSpec, HardeningNeverRaisesRisk

-----------------------------------------------------------------------------
(* Remediation.                                                            *)

LEMMA NothingToRemedy ==
  ASSUME NEW p \in Firewalls, Remedies(p) = {}
  PROVE  RiskScore(p) < 20
<1>1. /\ "source" \notin RemediesWithoutNarrowing(p) /\ "destination" \notin RemediesWithoutNarrowing(p)
      /\ "log" \notin RemediesWithoutNarrowing(p) /\ "source interface" \notin RemediesWithoutNarrowing(p)
      /\ "destination interface" \notin RemediesWithoutNarrowing(p)
      /\ "remove" \notin RemediesWithoutNarrowing(p) /\ ~ (p.src.broad + p.dst.broad > 0)
  BY DEF Remedies, When
<1>2. /\ ~ (p.src.any > 0) /\ ~ (p.dst.any > 0) /\ ~ Unlogged(p) /\ ~ p.srcany /\ ~ p.dstany /\ p.enabled
  BY <1>1 DEF RemediesWithoutNarrowing, When
<1>3. p.src.broad \in Nat /\ p.dst.broad \in Nat /\ p.src.any \in {0, 1} /\ p.dst.any \in {0, 1}
  BY SidesAssumption DEF Firewalls
<1>4. p.src.broad = 0 /\ p.dst.broad = 0
  <2> DEFINE m == p.src.broad
             n == p.dst.broad
  <2>1. m \in Nat /\ n \in Nat /\ ~ (m + n > 0)
    BY <1>1, <1>3
  <2> HIDE DEF m, n
  <2>2. m = 0 /\ n = 0
    BY <2>1
  <2> QED  BY <2>2 DEF m, n
<1>5. SideRisk(p.src) = 0 /\ SideRisk(p.dst) = 0
  BY <1>2, <1>3, <1>4 DEF SideRisk, Add, Capped
<1>6. AddressScope(p) <= 10
  BY <1>5 DEF AddressScope, Add, Capped
<1>7. LoggingRisk(p) <= 20 /\ ConfigRisk(p) <= 15 /\ Staleness(p) = 0
  BY <1>2 DEF LoggingRisk, ConfigRisk, Staleness, Add
<1> DEFINE sum == 35 * AddressScope(p) + 25 * LoggingRisk(p) + 25 * ConfigRisk(p) + 15 * Staleness(p)
<1>8. sum \in Nat /\ sum <= 1225 /\ AddressScope(p) # 90
  BY <1>6, <1>7, Dimensions
<1>9. RiskScore(p) = Round(sum, 100)
  BY <1>8 DEF RiskScore
<1> HIDE DEF sum
<1>10. Round(sum, 100) <= Round(1225, 100) /\ Round(1225, 100) = 12 /\ Round(sum, 100) \in Nat
  <2>1. Round(1225, 100) = 12
    BY DEF Round, Add
  <2> QED  BY <1>8, <2>1, RoundMonotone, RoundType
<1> QED  BY <1>9, <1>10

\* A policy above "info" comes with something to do about it, whatever
\* address lists it has (engine/risk_assessor.py, _get_remediation).
THEOREM EveryRiskHasRemedy == ScoresSpec => []RiskHasRemedy
<1>1. TypeOK => RiskHasRemedy
  <2> SUFFICES ASSUME TypeOK, subject.kind = "firewall", Remedies(subject) = {}
               PROVE  RiskLevel(RiskScore(subject)) = "info"
    BY DEF RiskHasRemedy
  <2>1. subject \in Firewalls
    BY DEF TypeOK, Doses
  <2>2. RiskScore(subject) < 20
    BY <2>1, NothingToRemedy
  <2>3. RiskScore(subject) \in Nat
    BY <2>1, Dimensions, RoundType DEF RiskScore
  <2> QED  BY <2>2, <2>3 DEF RiskLevel
<1> QED  BY <1>1, TypeInvariant, PTL

-----------------------------------------------------------------------------
(* Anomalies, counted.                                                     *)

\* A set whose elements are numbered from 1 to n has n of them.
LEMMA Counting ==
  ASSUME NEW S, NEW n \in Nat, NEW f \in Bijection(1 .. n, S)
  PROVE  IsFiniteSet(S) /\ Cardinality(S) = n
<1>1. IsFiniteSet(1 .. n) /\ Cardinality(1 .. n) = n
  BY FS_Interval
<1>2. ExistsBijection(1 .. n, S)
  BY DEF ExistsBijection
<1> QED  BY <1>1, <1>2, FS_Bijection

LEMMA CriticalSix == IsFiniteSet(Critical) /\ Cardinality(Critical) = 6
<1> DEFINE f == <<"tcp_syn_flood", "icmp_flood", "udp_flood", "tcp_udp_flood", "ip_spoofing", "land_attack">>
<1>1. f \in [1 .. 6 -> Critical]
  BY DEF Critical
<1>2. \A i, j \in 1 .. 6 : f[i] = f[j] => i = j
  OBVIOUS
<1>3. \A x \in Critical : \E i \in 1 .. 6 : f[i] = x
  BY DEF Critical
<1>4. f \in Bijection(1 .. 6, Critical)
  BY <1>1, <1>2, <1>3 DEF Bijection, Injection, Surjection, IsInjective
<1> HIDE DEF f
<1> QED  BY <1>4, Counting

LEMMA RecommendedSeventeen == IsFiniteSet(Recommended \ Critical) /\ Cardinality(Recommended \ Critical) = 17
<1> DEFINE S == {"tcp_syn_proxy", "tcp_port_scan", "tcp_udp_other", "icmp_land", "udp_land",
                 "ip_martian_source", "ip_bad_options", "ip_unknown_protocol", "tcp_crlf",
                 "tcp_no_flag", "tcp_syn_fin", "tcp_syn_rst", "tcp_fin_no_ack", "tcp_xmas",
                 "tcp_null", "tcp_fin_only", "udp_broadcast"}
           f == <<"tcp_syn_proxy", "tcp_port_scan", "tcp_udp_other", "icmp_land", "udp_land",
                  "ip_martian_source", "ip_bad_options", "ip_unknown_protocol", "tcp_crlf",
                  "tcp_no_flag", "tcp_syn_fin", "tcp_syn_rst", "tcp_fin_no_ack", "tcp_xmas",
                  "tcp_null", "tcp_fin_only", "udp_broadcast">>
<1>0. S = Recommended \ Critical
  BY DEF Recommended, Critical
<1>1. f \in [1 .. 17 -> S]
  OBVIOUS
<1>2. \A i, j \in 1 .. 17 : f[i] = f[j] => i = j
  OBVIOUS
<1>3. \A x \in S : \E i \in 1 .. 17 : f[i] = x
  OBVIOUS
<1> HIDE DEF f, S
<1>4. f \in Bijection(1 .. 17, S)
  BY <1>1, <1>2, <1>3 DEF Bijection, Injection, Surjection, IsInjective
<1> QED  BY <1>0, <1>4, Counting

LEMMA AnomaliesFinite == IsFiniteSet(Recommended)
<1>1. Recommended = Critical \cup (Recommended \ Critical)
  BY DEF Recommended
<1> QED  BY <1>1, CriticalSix, RecommendedSeventeen, FS_Union

\* Sets of anomalies can be counted, and more anomalies count for more.
LEMMA AnomalyCounts ==
  ASSUME NEW S, NEW T, T \subseteq Recommended, S \subseteq T
  PROVE  /\ IsFiniteSet(S) /\ IsFiniteSet(T)
         /\ Cardinality(S) \in Nat /\ Cardinality(T) \in Nat
         /\ Cardinality(S) <= Cardinality(T)
<1>1. IsFiniteSet(T)
  BY AnomaliesFinite, FS_Subset
<1> QED  BY <1>1, FS_Subset, FS_CardinalityType

LEMMA EnabledAnomalies ==
  ASSUME NEW d \in Doses
  PROVE  /\ Enabled(d) \subseteq Recommended
         /\ \A a \in Recommended : SettingOf(d, a) \in Settings
<1>1. \A a \in Recommended : Fit(a) \in Settings
  BY DEF Fit, Settings
<1> QED  BY <1>1, TunedAssumption DEF Doses, Enabled, SettingOf

-----------------------------------------------------------------------------
(* The dimensions of the audit, one by one.                                *)

\* What a better policy has: all that is enabled stays so, what is new is well
\* set, and no setting is worse.
LEMMA ImprovedSettings ==
  ASSUME NEW d \in Doses, NEW e \in Doses, Improved(e, d)
  PROVE  /\ Enabled(d) \subseteq Enabled(e)
         /\ \A a \in Enabled(e) \ Enabled(d) : SettingOf(e, a) = Fit(a)
         /\ \A a \in Enabled(d) :
              /\ SettingOf(d, a).log => SettingOf(e, a).log
              /\ SettingOf(d, a).block => SettingOf(e, a).block
              /\ SettingOf(e, a).threshold \in {SettingOf(d, a).threshold, "fit"}
<1>1. \A a \in Tuned : d.anomaly[a] \in Settings /\ e.anomaly[a] \in Settings
  BY DEF Doses
<1>2. d.others \cap Tuned = {} /\ e.others \cap Tuned = {} /\ d.others \subseteq e.others
  BY DEF Doses, Improved
<1>3. ASSUME NEW a \in Tuned
      PROVE  \/ e.anomaly[a] = d.anomaly[a]
             \/ ~ d.anomaly[a].on /\ e.anomaly[a] = Fit(a)
             \/ /\ d.anomaly[a].on /\ e.anomaly[a].on
                /\ d.anomaly[a].log => e.anomaly[a].log
                /\ d.anomaly[a].block => e.anomaly[a].block
                /\ e.anomaly[a].threshold \in {d.anomaly[a].threshold, "fit"}
  BY DEF Improved
<1>4. Enabled(d) \subseteq Enabled(e)
  BY <1>2, <1>3 DEF Enabled
<1>5. ASSUME NEW a \in Enabled(e) \ Enabled(d)
      PROVE  SettingOf(e, a) = Fit(a)
  BY <1>2, <1>3 DEF Enabled, SettingOf
<1>6. ASSUME NEW a \in Enabled(d)
      PROVE  /\ SettingOf(d, a).log => SettingOf(e, a).log
             /\ SettingOf(d, a).block => SettingOf(e, a).block
             /\ SettingOf(e, a).threshold \in {SettingOf(d, a).threshold, "fit"}
  <2>1. CASE a \in Tuned
    <3>1. d.anomaly[a].on
      BY <1>2, <2>1 DEF Enabled
    <3> QED  BY <1>3, <2>1, <3>1 DEF SettingOf
  <2>2. CASE a \notin Tuned
    BY <2>2 DEF SettingOf
  <2> QED  BY <2>1, <2>2
<1> QED  BY <1>4, <1>5, <1>6

\* Coverage: nothing that was there is missing.
LEMMA CoverageBounds ==
  ASSUME NEW d \in Doses
  PROVE  LET c == Cardinality(Critical \ Enabled(d))
             r == Cardinality((Recommended \ Critical) \ Enabled(d))
         IN  /\ c \in 0 .. 6 /\ r \in 0 .. 17
             /\ CoverageScore(d) = Round(10200 - 833 * c - 54 * r, 102)
<1>1. Critical \ Enabled(d) \subseteq Critical /\ Critical \subseteq Recommended
  BY DEF Recommended
<1>2. Cardinality(Critical \ Enabled(d)) \in 0 .. 6
  BY <1>1, AnomalyCounts, CriticalSix
<1>3. Cardinality((Recommended \ Critical) \ Enabled(d)) \in 0 .. 17
  <2>1. (Recommended \ Critical) \ Enabled(d) \subseteq Recommended \ Critical
    OBVIOUS
  <2> QED  BY <2>1, AnomalyCounts, RecommendedSeventeen
<1>4. CoverageScore(d) = Round(10200 - 833 * Cardinality(Critical \ Enabled(d))
                                 - 54 * Cardinality((Recommended \ Critical) \ Enabled(d)), 102)
  BY <1>2, <1>3, CriticalSix, RecommendedSeventeen DEF CoverageScore
<1> QED  BY <1>2, <1>3, <1>4

LEMMA CoverageMonotone ==
  ASSUME NEW d \in Doses, NEW e \in Doses, Enabled(d) \subseteq Enabled(e)
  PROVE  CoverageScore(d) <= CoverageScore(e) /\ CoverageScore(d) \in Nat /\ CoverageScore(e) \in Nat
<1> DEFINE c(x) == Cardinality(Critical \ Enabled(x))
           r(x) == Cardinality((Recommended \ Critical) \ Enabled(x))
<1>1. c(e) <= c(d)
  <2>1. Critical \ Enabled(e) \subseteq Critical \ Enabled(d) /\ Critical \ Enabled(d) \subseteq Recommended
    BY DEF Recommended
  <2> QED  BY <2>1, AnomalyCounts
<1>2. r(e) <= r(d)
  <2>1. /\ (Recommended \ Critical) \ Enabled(e) \subseteq (Recommended \ Critical) \ Enabled(d)
        /\ (Recommended \ Critical) \ Enabled(d) \subseteq Recommended
    OBVIOUS
  <2> QED  BY <2>1, AnomalyCounts
<1>3. /\ c(d) \in 0 .. 6 /\ r(d) \in 0 .. 17 /\ CoverageScore(d) = Round(10200 - 833 * c(d) - 54 * r(d), 102)
      /\ c(e) \in 0 .. 6 /\ r(e) \in 0 .. 17 /\ CoverageScore(e) = Round(10200 - 833 * c(e) - 54 * r(e), 102)
  BY CoverageBounds
<1> HIDE DEF c, r
<1>4. /\ 10200 - 833 * c(d) - 54 * r(d) \in Nat /\ 10200 - 833 * c(e) - 54 * r(e) \in Nat
      /\ 10200 - 833 * c(d) - 54 * r(d) <= 10200 - 833 * c(e) - 54 * r(e)
  BY <1>1, <1>2, <1>3
<1> QED  BY <1>3, <1>4, CoverageRoundMonotone

\* Thresholds: none becomes low or high.
Rated(d) == {a \in Enabled(d) : a \in Thresholded /\ SettingOf(d, a).threshold # "none"}
RatedAt(d, level) == {a \in Rated(d) : SettingOf(d, a).threshold = level}

LEMMA ThresholdType ==
  ASSUME NEW d \in Doses
  PROVE  /\ ThresholdScore(d) \in Nat
         /\ Cardinality(RatedAt(d, "low")) \in Nat /\ Cardinality(RatedAt(d, "high")) \in Nat
         /\ ThresholdScore(d) =
              IF Rated(d) = {} THEN 80
              ELSE Floored(100 - 20 * Cardinality(RatedAt(d, "low")) - 15 * Cardinality(RatedAt(d, "high")))
<1>1. RatedAt(d, "low") \subseteq Recommended /\ RatedAt(d, "high") \subseteq Recommended
  BY EnabledAnomalies DEF RatedAt, Rated
<1>2. Cardinality(RatedAt(d, "low")) \in Nat /\ Cardinality(RatedAt(d, "high")) \in Nat
  BY <1>1, AnomalyCounts
<1>3. ThresholdScore(d) =
        IF Rated(d) = {} THEN 80
        ELSE Floored(100 - 20 * Cardinality(RatedAt(d, "low")) - 15 * Cardinality(RatedAt(d, "high")))
  BY DEF ThresholdScore, Rated, RatedAt
<1> QED  BY <1>2, <1>3 DEF Floored

LEMMA ThresholdMonotone ==
  ASSUME NEW d \in Doses, NEW e \in Doses, Improved(e, d)
  PROVE  ThresholdScore(d) <= ThresholdScore(e)
<1>1. ASSUME NEW level \in {"low", "high"}
      PROVE  RatedAt(e, level) \subseteq RatedAt(d, level)
  <2> SUFFICES ASSUME NEW a \in RatedAt(e, level)
               PROVE  a \in RatedAt(d, level)
    OBVIOUS
  <2>1. /\ a \in Enabled(e) /\ a \in Thresholded
        /\ SettingOf(e, a).threshold = level /\ level # "fit" /\ level # "none"
    BY DEF RatedAt, Rated
  <2>2. a \in Enabled(d)
    BY <2>1, ImprovedSettings DEF Fit
  <2>3. SettingOf(d, a).threshold = level
    BY <2>1, <2>2, ImprovedSettings
  <2> QED  BY <2>1, <2>2, <2>3 DEF RatedAt, Rated
<1>2. /\ Cardinality(RatedAt(e, "low")) <= Cardinality(RatedAt(d, "low"))
      /\ Cardinality(RatedAt(e, "high")) <= Cardinality(RatedAt(d, "high"))
  <2>1. RatedAt(d, "low") \subseteq Recommended /\ RatedAt(d, "high") \subseteq Recommended
    BY EnabledAnomalies DEF RatedAt, Rated
  <2> QED  BY <1>1, <2>1, AnomalyCounts
<1>3. Rated(d) \subseteq Rated(e)
  BY ImprovedSettings DEF Rated
<1>4. CASE Rated(d) # {}
  <2>1. Rated(e) # {}
    BY <1>3, <1>4
  <2> QED  BY <1>2, <1>4, <2>1, ThresholdType DEF Floored
<1>5. CASE Rated(d) = {}
  <2>1. RatedAt(e, "low") = {} /\ RatedAt(e, "high") = {}
    BY <1>1, <1>5 DEF RatedAt
  <2>2. Cardinality(RatedAt(e, "low")) = 0 /\ Cardinality(RatedAt(e, "high")) = 0
    BY <2>1, FS_EmptySet
  <2> QED  BY <1>5, <2>2, ThresholdType DEF Floored
<1> QED  BY <1>4, <1>5

\* Logging: of those enabled, no more are silent than before.
LEMMA Shares ==
  ASSUME NEW d \in Doses
  PROVE  LET n == Cardinality(Enabled(d))
             l == Cardinality({a \in Enabled(d) : SettingOf(d, a).log})
             u == Cardinality({a \in Enabled(d) : ~ SettingOf(d, a).log})
         IN  n \in Nat /\ l \in Nat /\ u \in Nat /\ n = l + u /\ (n = 0 <=> Enabled(d) = {})
<1> DEFINE L == {a \in Enabled(d) : SettingOf(d, a).log}
           U == {a \in Enabled(d) : ~ SettingOf(d, a).log}
<1>1. IsFiniteSet(Enabled(d)) /\ IsFiniteSet(L) /\ IsFiniteSet(U)
  BY EnabledAnomalies, AnomalyCounts
<1>2. Enabled(d) = L \cup U /\ L \cap U = {}
  OBVIOUS
<1>3. Cardinality(Enabled(d)) \in Nat /\ Cardinality(L) \in Nat /\ Cardinality(U) \in Nat
  BY <1>1, FS_CardinalityType
<1>4. Cardinality(Enabled(d)) = 0 <=> Enabled(d) = {}
  BY <1>1, FS_EmptySet
<1> HIDE DEF L, U
<1>5. Cardinality(Enabled(d)) = Cardinality(L) + Cardinality(U)
  <2>1. Cardinality(L \cup U) = Cardinality(L) + Cardinality(U) - Cardinality(L \cap U)
    BY <1>1, FS_Union
  <2>2. Cardinality(L \cap U) = 0
    BY <1>2, FS_EmptySet
  <2> QED  BY <1>2, <1>3, <2>1, <2>2
<1> QED  BY <1>3, <1>4, <1>5 DEF L, U

LEMMA LoggingMonotone ==
  ASSUME NEW d \in Doses, NEW e \in Doses, Improved(e, d), Enabled(d) # {}
  PROVE  LoggingScore(d) <= LoggingScore(e)
<1> DEFINE n(x) == Cardinality(Enabled(x))
           l(x) == Cardinality({a \in Enabled(x) : SettingOf(x, a).log})
           u(x) == Cardinality({a \in Enabled(x) : ~ SettingOf(x, a).log})
<1>1. /\ n(d) \in Nat /\ l(d) \in Nat /\ u(d) \in Nat /\ n(d) = l(d) + u(d) /\ n(d) # 0
      /\ n(e) \in Nat /\ l(e) \in Nat /\ u(e) \in Nat /\ n(e) = l(e) + u(e)
  BY Shares
<1>2. n(d) <= n(e)
  <2>1. Enabled(d) \subseteq Enabled(e) /\ Enabled(e) \subseteq Recommended
    BY ImprovedSettings, EnabledAnomalies
  <2> QED  BY <2>1, AnomalyCounts
<1>3. u(e) <= u(d)
  <2>1. \A a \in Enabled(e) \ Enabled(d) : SettingOf(e, a).log
    BY ImprovedSettings DEF Fit
  <2>2. {a \in Enabled(e) : ~ SettingOf(e, a).log} \subseteq {a \in Enabled(d) : ~ SettingOf(d, a).log}
    BY <2>1, ImprovedSettings
  <2>3. {a \in Enabled(d) : ~ SettingOf(d, a).log} \subseteq Recommended
    BY EnabledAnomalies
  <2> QED  BY <2>2, <2>3, AnomalyCounts
<1>4. \A x : LoggingScore(x) =
        IF n(x) = 0 THEN 60
        ELSE 100 - Add(2 * l(x) < n(x), 30) - Add(2 * l(x) >= n(x) /\ l(x) < n(x), 15)
  BY DEF LoggingScore
<1> HIDE DEF n, l, u
<1> QED  BY <1>1, <1>2, <1>3, <1>4 DEF Add

LEMMA LoggingRange ==
  ASSUME NEW d \in Doses, Enabled(d) # {}
  PROVE  LoggingScore(d) \in 70 .. 100
<1> DEFINE n == Cardinality(Enabled(d))
           l == Cardinality({a \in Enabled(d) : SettingOf(d, a).log})
<1>1. n \in Nat /\ l \in Nat /\ n # 0
  BY Shares
<1>2. LoggingScore(d) =
        IF n = 0 THEN 60 ELSE 100 - Add(2 * l < n, 30) - Add(2 * l >= n /\ l < n, 15)
  BY DEF LoggingScore
<1> HIDE DEF n, l
<1> QED  BY <1>1, <1>2 DEF Add

\* Actions: of the critical ones, no more are let through than before.
LEMMA ActionType ==
  ASSUME NEW d \in Doses
  PROVE  /\ Cardinality({a \in Enabled(d) \cap Critical : ~ SettingOf(d, a).block}) \in Nat
         /\ ActionScore(d) \in Nat
<1>1. {a \in Enabled(d) \cap Critical : ~ SettingOf(d, a).block} \subseteq Recommended
  BY EnabledAnomalies
<1>2. Cardinality({a \in Enabled(d) \cap Critical : ~ SettingOf(d, a).block}) \in Nat
  BY <1>1, AnomalyCounts
<1> QED  BY <1>2 DEF ActionScore, Floored

LEMMA ActionMonotone ==
  ASSUME NEW d \in Doses, NEW e \in Doses, Improved(e, d)
  PROVE  ActionScore(d) <= ActionScore(e)
<1> DEFINE b(x) == Cardinality({a \in Enabled(x) \cap Critical : ~ SettingOf(x, a).block})
<1>1. b(e) <= b(d)
  <2>1. \A a \in Enabled(e) \ Enabled(d) : SettingOf(e, a).block
    BY ImprovedSettings DEF Fit
  <2>2. {a \in Enabled(e) \cap Critical : ~ SettingOf(e, a).block}
          \subseteq {a \in Enabled(d) \cap Critical : ~ SettingOf(d, a).block}
    BY <2>1, ImprovedSettings
  <2>3. {a \in Enabled(d) \cap Critical : ~ SettingOf(d, a).block} \subseteq Recommended
    BY EnabledAnomalies
  <2> QED  BY <2>2, <2>3, AnomalyCounts
<1>2. b(d) \in Nat /\ b(e) \in Nat
  BY ActionType
<1>3. \A x : ActionScore(x) = Floored(100 - 15 * b(x))
  BY DEF ActionScore
<1> HIDE DEF b
<1> QED  BY <1>1, <1>2, <1>3 DEF Floored

\* Scope depends on nothing but the scope.
LEMMA ScopeRange ==
  ASSUME NEW d, d.scope \in Scopes
  PROVE  ScopeScore(d) \in 50 .. 100
<1>1. d.scope.src \in {"none", "all", "named"} /\ d.scope.dst \in {"none", "all", "named"}
  BY ScopesAssumption
<1> QED  BY <1>1 DEF ScopeScore, Add

-----------------------------------------------------------------------------
(* The audit score.                                                        *)

AuditSum(d) ==
  30 * CoverageScore(d) + 25 * Effective(d, ThresholdScore(d)) + 20 * Effective(d, LoggingScore(d))
    + 15 * ScopeScore(d) + 10 * Effective(d, ActionScore(d))

LEMMA EffectiveType ==
  ASSUME NEW d \in Doses
  PROVE  /\ Effective(d, ThresholdScore(d)) \in Nat /\ Effective(d, LoggingScore(d)) \in Nat
         /\ Effective(d, ActionScore(d)) \in Nat
<1>1. CASE Enabled(d) = {}
  BY <1>1 DEF Effective
<1>2. CASE Enabled(d) # {}
  <2>1. ThresholdScore(d) \in Nat /\ ActionScore(d) \in Nat
    BY ThresholdType, ActionType
  <2>2. LoggingScore(d) \in 70 .. 100
    BY <1>2, LoggingRange
  <2> QED  BY <1>2, <2>1, <2>2 DEF Effective
<1> QED  BY <1>1, <1>2

LEMMA AuditMonotone ==
  ASSUME NEW d \in Doses, NEW e \in Doses, Improved(e, d)
  PROVE  AuditScore(d) <= AuditScore(e)
<1> DEFINE t(x) == Effective(x, ThresholdScore(x))
           l(x) == Effective(x, LoggingScore(x))
           a(x) == Effective(x, ActionScore(x))
<1>1. CoverageScore(d) <= CoverageScore(e) /\ CoverageScore(d) \in Nat /\ CoverageScore(e) \in Nat
  BY ImprovedSettings, CoverageMonotone
<1>2. ScopeScore(d) = ScopeScore(e) /\ ScopeScore(d) \in Nat
  BY ScopeRange DEF ScopeScore, Improved, Doses
<1>3. /\ t(d) \in Nat /\ l(d) \in Nat /\ a(d) \in Nat
      /\ t(e) \in Nat /\ l(e) \in Nat /\ a(e) \in Nat
  BY EffectiveType
<1>4. t(d) <= t(e) /\ l(d) <= l(e) /\ a(d) <= a(e)
  <2>1. CASE Enabled(d) = {}
    BY <1>3, <2>1 DEF Effective
  <2>2. CASE Enabled(d) # {}
    <3>1. Enabled(e) # {}
      BY <2>2, ImprovedSettings
    <3> QED  BY <2>2, <3>1, ThresholdMonotone, LoggingMonotone, ActionMonotone DEF Effective
  <2> QED  BY <2>1, <2>2
<1>5. /\ AuditSum(d) = 30 * CoverageScore(d) + 25 * t(d) + 20 * l(d) + 15 * ScopeScore(d) + 10 * a(d)
      /\ AuditSum(e) = 30 * CoverageScore(e) + 25 * t(e) + 20 * l(e) + 15 * ScopeScore(e) + 10 * a(e)
  BY DEF AuditSum
<1> HIDE DEF t, l, a
<1>6. AuditSum(d) \in Nat /\ AuditSum(e) \in Nat /\ AuditSum(d) <= AuditSum(e)
  BY <1>1, <1>2, <1>3, <1>4, <1>5
<1>7. AuditScore(d) = Round(AuditSum(d), 100) /\ AuditScore(e) = Round(AuditSum(e), 100)
  BY DEF AuditScore, AuditSum
<1> QED  BY <1>6, <1>7, RoundMonotone

LEMMA AuditType ==
  ASSUME NEW d \in Doses
  PROVE  AuditScore(d) \in Nat
<1>1. CoverageScore(d) \in Nat
  BY CoverageMonotone
<1>2. ScopeScore(d) \in Nat
  BY ScopeRange DEF Doses
<1>3. /\ Effective(d, ThresholdScore(d)) \in Nat /\ Effective(d, LoggingScore(d)) \in Nat
      /\ Effective(d, ActionScore(d)) \in Nat
  BY EffectiveType
<1>4. AuditSum(d) \in Nat
  BY <1>1, <1>2, <1>3 DEF AuditSum
<1> QED  BY <1>4, RoundType DEF AuditScore, AuditSum

\* Protecting better never lowers the audit score, whatever is on already
\* (engine/dos_policy_auditor.py, _audit_single).
THEOREM ProtectionPays == ScoresSpec => ProtectionNeverLowersAudit
<1>1. TypeOK /\ [ScoresNext]_subject =>
        [subject.kind = "dos" /\ Improved(subject', subject)
           => AuditScore(subject') >= AuditScore(subject)]_subject
  <2> SUFFICES ASSUME TypeOK, ScoresNext, subject.kind = "dos", Improved(subject', subject)
               PROVE  AuditScore(subject') >= AuditScore(subject)
    OBVIOUS
  <2>1. subject \in Doses
    BY DEF TypeOK, Firewalls
  <2>2. subject' \in Doses
    BY <2>1, DosStep DEF ScoresNext, SetFirewall, Doses
  <2>3. AuditScore(subject) <= AuditScore(subject')
    BY <2>1, <2>2, AuditMonotone
  <2>4. AuditScore(subject) \in Nat /\ AuditScore(subject') \in Nat
    BY <2>1, <2>2, AuditType
  <2> QED  BY <2>3, <2>4
<1> QED  BY <1>1, TypeInvariant, PTL DEF ScoresSpec, ProtectionNeverLowersAudit

\* A policy without any check scores 42 for coverage and for nothing else than
\* its scope.
LEMMA UnprotectedScore ==
  ASSUME NEW s \in Scopes
  PROVE  AuditScore(AllOff(s)) = Round(1260 + 15 * ScopeScore(AllOff(s)), 100)
<1> DEFINE d == AllOff(s)
<1>1. d.others = {} /\ \A a \in Tuned : ~ d.anomaly[a].on
  <2>1. \A a \in Tuned : ~ [Fit(a) EXCEPT !.on = FALSE].on
    BY DEF Fit
  <2> QED  BY <2>1 DEF AllOff
<1>2. Enabled(d) = {}
  BY <1>1 DEF Enabled
<1>3. CoverageScore(d) = 42
  <2>1. Critical \ Enabled(d) = Critical /\ (Recommended \ Critical) \ Enabled(d) = Recommended \ Critical
    BY <1>2
  <2>2. CoverageScore(d) = Round(100 * 6 * 17 - 49 * 6 * 17 - 9 * 17 * 6, 6 * 17)
    BY <2>1, CriticalSix, RecommendedSeventeen DEF CoverageScore
  <2>3. Round(4284, 102) = 42
    BY DEF Round, Add
  <2> QED  BY <2>2, <2>3
<1>4. AuditScore(d) = Round(30 * 42 + 25 * 0 + 20 * 0 + 15 * ScopeScore(d) + 10 * 0, 100)
  BY <1>2, <1>3 DEF AuditScore, Effective
<1>5. ScopeScore(d) \in Nat
  BY ScopeRange DEF AllOff
<1> HIDE DEF d
<1>6. AuditScore(d) = Round(1260 + 15 * ScopeScore(d), 100)
  BY <1>4, <1>5
<1> QED  BY <1>6 DEF d

LEMMA ProtectedScore ==
  ASSUME NEW d \in Doses, Enabled(d) # {}
  PROVE  AuditScore(d) >= Round(2660 + 15 * ScopeScore(d), 100)
<1>1. CoverageScore(d) \in Nat /\ CoverageScore(d) >= 42
  <2> DEFINE c == Cardinality(Critical \ Enabled(d))
             r == Cardinality((Recommended \ Critical) \ Enabled(d))
  <2>1. c \in 0 .. 6 /\ r \in 0 .. 17 /\ CoverageScore(d) = Round(10200 - 833 * c - 54 * r, 102)
    BY CoverageBounds
  <2> HIDE DEF c, r
  <2>2. 10200 - 833 * c - 54 * r \in Nat /\ 10200 - 833 * c - 54 * r >= 4284
    BY <2>1
  <2>3. Round(4284, 102) = 42
    BY DEF Round, Add
  <2> QED  BY <2>1, <2>2, <2>3, CoverageRoundMonotone
<1>2. ScopeScore(d) \in Nat
  BY ScopeRange DEF Doses
<1>3. ThresholdScore(d) \in Nat /\ LoggingScore(d) \in 70 .. 100 /\ ActionScore(d) \in Nat
  BY ThresholdType, LoggingRange, ActionType
<1>4. AuditSum(d) = 30 * CoverageScore(d) + 25 * ThresholdScore(d) + 20 * LoggingScore(d)
                      + 15 * ScopeScore(d) + 10 * ActionScore(d)
  BY DEF AuditSum, Effective
<1>5. AuditSum(d) \in Nat /\ 2660 + 15 * ScopeScore(d) \in Nat /\ 2660 + 15 * ScopeScore(d) <= AuditSum(d)
  BY <1>1, <1>2, <1>3, <1>4
<1>6. AuditScore(d) = Round(AuditSum(d), 100)
  BY DEF AuditScore, AuditSum
<1>7. Round(2660 + 15 * ScopeScore(d), 100) <= Round(AuditSum(d), 100)
  BY <1>5, RoundMonotone
<1>8. Round(2660 + 15 * ScopeScore(d), 100) \in Nat /\ Round(AuditSum(d), 100) \in Nat
  BY <1>5, RoundType
<1> QED  BY <1>6, <1>7, <1>8

\* A policy without any check scores less than every policy of its scope that
\* has one (engine/dos_policy_auditor.py, _audit_single: 14 points less, for
\* any check that is enabled is logged for 70 at least).
THEOREM NoProtectionIsWorst == ScoresSpec => []UnprotectedScoresWorst
<1>1. TypeOK => UnprotectedScoresWorst
  <2> SUFFICES ASSUME TypeOK, subject.kind = "dos", Enabled(subject) # {}
               PROVE  AuditScore(AllOff(subject.scope)) < AuditScore(subject)
    BY DEF UnprotectedScoresWorst
  <2> DEFINE s == ScopeScore(subject)
  <2>1. subject \in Doses
    BY DEF TypeOK, Firewalls
  <2>2. subject.scope \in Scopes
    BY <2>1 DEF Doses
  <2>3. ScopeScore(AllOff(subject.scope)) = s /\ s \in Nat
    BY <2>2, ScopeRange DEF ScopeScore, AllOff
  <2>4. AuditScore(AllOff(subject.scope)) = Round(1260 + 15 * s, 100)
    BY <2>2, <2>3, UnprotectedScore
  <2>5. AuditScore(subject) >= Round(2660 + 15 * s, 100)
    BY <2>1, ProtectedScore
  <2>6. AuditScore(subject) \in Nat
    BY <2>1, AuditType
  <2> HIDE DEF s
  <2>7. Round(1260 + 15 * s, 100) < Round(2660 + 15 * s, 100)
    BY <2>3 DEF Round, Add
  <2>8. Round(1260 + 15 * s, 100) \in Nat /\ Round(2660 + 15 * s, 100) \in Nat
    BY <2>3, RoundType
  <2> QED  BY <2>4, <2>5, <2>6, <2>7, <2>8
<1> QED  BY <1>1, TypeInvariant, PTL
=============================================================================
