---------------------------- MODULE OrderingProofs ----------------------------
(* What is proved of finite orders, and of lists made of them (Ordering).     *)
EXTENDS Ordering, Sequences, FiniteSetTheorems, FunctionTheorems, TLAPS

IsOrder(P, R) ==
  /\ \A m \in P : <<m, m>> \notin R
  /\ \A l, m, n \in P : <<l, m>> \in R /\ <<m, n>> \in R => <<l, n>> \in R
  /\ \A m, n \in P : m = n \/ <<m, n>> \in R \/ <<n, m>> \in R

\* In a finite set that is ordered, each number less than its size is the number
\* of those below exactly one member.
LEMMA RankExists ==
  ASSUME NEW P, NEW R, IsFiniteSet(P), IsOrder(P, R)
  PROVE  /\ \A m, n \in P : m # n => Cardinality(Below(P, R, m)) # Cardinality(Below(P, R, n))
         /\ \A m, n \in P : <<m, n>> \in R
              <=> Cardinality(Below(P, R, m)) < Cardinality(Below(P, R, n))
         /\ \A k \in 1 .. Cardinality(P) : \E n \in P : Cardinality(Below(P, R, n)) = k - 1
<1> DEFINE rank == [n \in P |-> Cardinality(Below(P, R, n)) + 1]
<1>0. Cardinality(P) \in Nat
  BY FS_CardinalityType
<1>1. ASSUME NEW n \in P
      PROVE  /\ IsFiniteSet(Below(P, R, n)) /\ Cardinality(Below(P, R, n)) \in Nat
             /\ Cardinality(Below(P, R, n)) <= Cardinality(P) - 1
  <2>1. Below(P, R, n) \subseteq P \ {n}
    BY DEF Below, IsOrder
  <2>2. IsFiniteSet(P \ {n}) /\ Cardinality(P \ {n}) = Cardinality(P) - 1
    BY FS_RemoveElement
  <2> QED  BY <2>1, <2>2, FS_Subset, FS_CardinalityType
<1>2. ASSUME NEW m \in P, NEW n \in P, <<m, n>> \in R
      PROVE  Cardinality(Below(P, R, m)) < Cardinality(Below(P, R, n))
  <2>1. Below(P, R, m) \subseteq Below(P, R, n) /\ m \in Below(P, R, n) \ Below(P, R, m)
    BY <1>2 DEF Below, IsOrder
  <2>2. Below(P, R, m) # Below(P, R, n)
    BY <2>1
  <2> QED  BY <1>1, <2>1, <2>2, FS_Subset
<1>3. \A m, n \in P : m # n => Cardinality(Below(P, R, m)) # Cardinality(Below(P, R, n))
  <2> SUFFICES ASSUME NEW m \in P, NEW n \in P, m # n
               PROVE  Cardinality(Below(P, R, m)) # Cardinality(Below(P, R, n))
    OBVIOUS
  <2>1. <<m, n>> \in R \/ <<n, m>> \in R
    BY DEF IsOrder
  <2>2. Cardinality(Below(P, R, m)) \in Nat /\ Cardinality(Below(P, R, n)) \in Nat
    BY <1>1
  <2>3. \/ Cardinality(Below(P, R, m)) < Cardinality(Below(P, R, n))
        \/ Cardinality(Below(P, R, n)) < Cardinality(Below(P, R, m))
    BY <2>1, <1>2
  <2> QED  BY <2>2, <2>3
<1>4. rank \in [P -> 1 .. Cardinality(P)]
  BY <1>0, <1>1
<1>5. rank \in Injection(P, 1 .. Cardinality(P))
  <2>1. ASSUME NEW a \in P, NEW b \in P, rank[a] = rank[b]
        PROVE  a = b
    BY <1>1, <1>3, <2>1
  <2> QED  BY <1>4, <2>1, Fun_IsInj
<1>6. rank \in Surjection(P, 1 .. Cardinality(P))
  BY <1>0, <1>5, FS_Interval, FS_Injection
<1>7. \A k \in 1 .. Cardinality(P) : \E n \in P : Cardinality(Below(P, R, n)) = k - 1
  <2> SUFFICES ASSUME NEW k \in 1 .. Cardinality(P)
               PROVE  \E n \in P : Cardinality(Below(P, R, n)) = k - 1
    OBVIOUS
  <2>1. PICK n \in P : rank[n] = k
    BY <1>6 DEF Surjection
  <2>2. Cardinality(Below(P, R, n)) + 1 = k /\ Cardinality(Below(P, R, n)) \in Nat
    BY <1>1, <2>1
  <2> QED  BY <2>2
<1>8. ASSUME NEW m \in P, NEW n \in P,
             Cardinality(Below(P, R, m)) < Cardinality(Below(P, R, n))
      PROVE  <<m, n>> \in R
  <2>1. Cardinality(Below(P, R, m)) \in Nat /\ Cardinality(Below(P, R, n)) \in Nat
    BY <1>1
  <2>2. ~ (Cardinality(Below(P, R, n)) < Cardinality(Below(P, R, m))) /\ m # n
    BY <2>1, <1>8
  <2> QED  BY <2>2, <1>2 DEF IsOrder
<1> QED  BY <1>2, <1>3, <1>7, <1>8

-----------------------------------------------------------------------------
\* A set in order: each member once, and nothing but the order decides where.
LEMMA InOrderIs ==
  ASSUME NEW P, NEW R, IsFiniteSet(P), IsOrder(P, R)
  PROVE  /\ Cardinality(P) \in Nat
         /\ InOrder(P, R) \in Bijection(1 .. Cardinality(P), P)
         /\ \A j, k \in 1 .. Cardinality(P) : j < k <=> <<InOrder(P, R)[j], InOrder(P, R)[k]>> \in R
<1> DEFINE n == Cardinality(P)
           Rank(i) == Cardinality(Below(P, R, i))
           o == InOrder(P, R)
<1>1. n \in Nat
  BY FS_CardinalityType
<1>2. /\ \A m, i \in P : m # i => Rank(m) # Rank(i)
      /\ \A m, i \in P : <<m, i>> \in R <=> Rank(m) < Rank(i)
      /\ \A k \in 1 .. n : \E i \in P : Rank(i) = k - 1
  BY RankExists
<1>3. ASSUME NEW i \in P PROVE Rank(i) \in Nat /\ Rank(i) + 1 \in 1 .. n
  <2>1. Below(P, R, i) \subseteq P \ {i}
    BY DEF Below, IsOrder
  <2>2. IsFiniteSet(P \ {i}) /\ Cardinality(P \ {i}) = n - 1
    BY FS_RemoveElement
  <2>3. Rank(i) \in Nat /\ Rank(i) <= n - 1
    BY <2>1, <2>2, FS_Subset, FS_CardinalityType
  <2> HIDE DEF Rank
  <2> QED  BY <1>1, <2>3
<1>4. \A k \in 1 .. n : o[k] = CHOOSE i \in P : Rank(i) = k - 1
  BY DEF InOrder
<1>5. o = [k \in 1 .. n |-> o[k]]
  BY DEF InOrder
<1> HIDE DEF Rank, o, n
<1>6. \A k \in 1 .. n : o[k] \in P /\ Rank(o[k]) = k - 1
  BY <1>2, <1>4
<1>7. o \in [1 .. n -> P]
  BY <1>5, <1>6
<1>8. \A j, k \in 1 .. n : o[j] = o[k] => j = k
  BY <1>1, <1>6
<1>9. \A i \in P : \E k \in 1 .. n : o[k] = i
  <2> SUFFICES ASSUME NEW i \in P PROVE \E k \in 1 .. n : o[k] = i
    OBVIOUS
  <2>1. PICK k \in 1 .. n : k = Rank(i) + 1
    BY <1>3
  <2>2. o[k] \in P /\ Rank(o[k]) = k - 1
    BY <1>6
  <2>3. Rank(o[k]) = Rank(i)
    BY <1>3, <2>1, <2>2
  <2> QED  BY <1>2, <2>2, <2>3
<1>10. o \in Bijection(1 .. n, P)
  BY <1>7, <1>8, <1>9 DEF Bijection, Injection, Surjection, IsInjective
<1>11. \A j, k \in 1 .. n : j < k <=> <<o[j], o[k]>> \in R
  <2> SUFFICES ASSUME NEW j \in 1 .. n, NEW k \in 1 .. n PROVE j < k <=> <<o[j], o[k]>> \in R
    OBVIOUS
  <2>1. <<o[j], o[k]>> \in R <=> j - 1 < k - 1
    BY <1>2, <1>6
  <2> QED  BY <1>1, <2>1
<1> QED  BY <1>1, <1>10, <1>11 DEF o, n

LEMMA InOrderOnly ==
  ASSUME NEW P, NEW R, IsOrder(P, R), NEW n \in Nat, NEW f \in Bijection(1 .. n, P),
         \A j, k \in 1 .. n : j < k => <<f[j], f[k]>> \in R
  PROVE  IsFiniteSet(P) /\ Cardinality(P) = n /\ InOrder(P, R) = f
<1> DEFINE Rank(i) == Cardinality(Below(P, R, i))
<1>1. /\ f \in [1 .. n -> P] /\ \A j, k \in 1 .. n : f[j] = f[k] => j = k
      /\ \A i \in P : \E k \in 1 .. n : f[k] = i
  BY DEF Bijection, Injection, Surjection, IsInjective
<1>2. IsFiniteSet(P) /\ Cardinality(P) = n
  <2>1. IsFiniteSet(1 .. n) /\ Cardinality(1 .. n) = n
    BY FS_Interval
  <2>2. ExistsBijection(1 .. n, P)
    BY DEF ExistsBijection
  <2> QED  BY <2>1, <2>2, FS_Bijection
<1>3. \A j, k \in 1 .. n : <<f[j], f[k]>> \in R <=> j < k
  <2> SUFFICES ASSUME NEW j \in 1 .. n, NEW k \in 1 .. n PROVE <<f[j], f[k]>> \in R <=> j < k
    OBVIOUS
  <2>1. f[j] \in P /\ f[k] \in P
    BY <1>1
  <2>2. <<f[j], f[k]>> \in R => ~ (<<f[k], f[j]>> \in R) /\ f[j] # f[k]
    BY <2>1 DEF IsOrder
  <2>3. k < j => <<f[k], f[j]>> \in R
    OBVIOUS
  <2> QED  BY <2>2, <2>3
<1>4. ASSUME NEW k \in 1 .. n PROVE Rank(f[k]) = k - 1
  <2> DEFINE B == Below(P, R, f[k])
             g == [j \in 1 .. k - 1 |-> f[j]]
  <2>0. \A j \in 1 .. k - 1 : j \in 1 .. n /\ j < k
    OBVIOUS
  <2>1. g \in [1 .. k - 1 -> B]
    <3>1. \A j \in 1 .. k - 1 : f[j] \in P /\ <<f[j], f[k]>> \in R
      BY <1>1, <1>3, <2>0
    <3> QED  BY <3>1 DEF Below
  <2>2. \A i, j \in 1 .. k - 1 : g[i] = g[j] => i = j
    BY <1>1, <2>0
  <2>3. \A m \in B : \E j \in 1 .. k - 1 : g[j] = m
    <3> SUFFICES ASSUME NEW m \in P, <<m, f[k]>> \in R PROVE \E j \in 1 .. k - 1 : f[j] = m
      BY DEF Below
    <3>1. PICK j \in 1 .. n : f[j] = m
      BY <1>1
    <3>2. j < k
      BY <1>3, <3>1
    <3>3. j \in 1 .. k - 1
      BY <3>2
    <3> QED  BY <3>1, <3>3
  <2>4. g \in Bijection(1 .. k - 1, B)
    BY <2>1, <2>2, <2>3 DEF Bijection, Injection, Surjection, IsInjective
  <2>5. IsFiniteSet(1 .. k - 1) /\ Cardinality(1 .. k - 1) = k - 1
    BY FS_Interval
  <2>6. ExistsBijection(1 .. k - 1, B)
    BY <2>4 DEF ExistsBijection
  <2> HIDE DEF B
  <2>7. Cardinality(B) = k - 1
    BY <2>5, <2>6, FS_Bijection
  <2> QED  BY <2>7 DEF B
<1>5. ASSUME NEW k \in 1 .. n
      PROVE  (CHOOSE i \in P : Rank(i) = k - 1) = f[k]
  <2>1. f[k] \in P /\ Rank(f[k]) = k - 1
    BY <1>1, <1>4
  <2>2. \A i \in P : Rank(i) = k - 1 => i = f[k]
    <3> SUFFICES ASSUME NEW i \in P, Rank(i) = k - 1 PROVE i = f[k]
      OBVIOUS
    <3>1. PICK j \in 1 .. n : f[j] = i
      BY <1>1
    <3>2. Rank(i) = j - 1
      BY <1>4, <3>1
    <3> HIDE DEF Rank
    <3> QED  BY <3>1, <3>2
  <2> HIDE DEF Rank
  <2> QED  BY <2>1, <2>2
<1>6. InOrder(P, R) = [k \in 1 .. Cardinality(P) |-> CHOOSE i \in P : Rank(i) = k - 1]
  BY DEF InOrder
<1>7. f = [k \in 1 .. n |-> f[k]]
  BY <1>1
<1> HIDE DEF Rank
<1> QED  BY <1>2, <1>5, <1>6, <1>7

LEMMA AscendingIsOrder ==
  ASSUME NEW P, P \subseteq Int
  PROVE  /\ IsOrder(P, Ascending(P))
         /\ \A m, n \in P : <<m, n>> \in Ascending(P) <=> m < n
<1>1. \A m, n \in P : <<m, n>> \in Ascending(P) <=> m < n
  BY DEF Ascending
<1>2. \A m \in P : <<m, m>> \notin Ascending(P)
  BY <1>1
<1>3. \A l, m, n \in P :
        <<l, m>> \in Ascending(P) /\ <<m, n>> \in Ascending(P) => <<l, n>> \in Ascending(P)
  <2> SUFFICES ASSUME NEW l \in P, NEW m \in P, NEW n \in P, l < m, m < n PROVE l < n
    BY <1>1
  <2> QED  OBVIOUS
<1>4. \A m, n \in P : m = n \/ <<m, n>> \in Ascending(P) \/ <<n, m>> \in Ascending(P)
  <2> SUFFICES ASSUME NEW m \in P, NEW n \in P PROVE m = n \/ m < n \/ n < m
    BY <1>1
  <2> QED  OBVIOUS
<1> QED  BY <1>1, <1>2, <1>3, <1>4 DEF IsOrder

\* What is left of a list: the entries at the places kept, each once.
LEMMA AtIs ==
  ASSUME NEW T, NEW list \in Seq(T), NEW P, P \subseteq DOMAIN list
  PROVE  /\ IsFiniteSet(P) /\ Cardinality(P) \in Nat
         /\ At(list, P) \in Seq(T) /\ Len(At(list, P)) = Cardinality(P)
         /\ \E place \in Bijection(1 .. Cardinality(P), P) :
              /\ \A k \in 1 .. Cardinality(P) : At(list, P)[k] = list[place[k]]
              /\ \A j, k \in 1 .. Cardinality(P) : j < k <=> place[j] < place[k]
<1> DEFINE n == Cardinality(P)
           R == Ascending(P)
           o == InOrder(P, R)
<1>1. P \subseteq 1 .. Len(list) /\ Len(list) \in Nat /\ \A i \in P : list[i] \in T
  OBVIOUS
<1>2. IsFiniteSet(P) /\ P \subseteq Int
  <2>1. IsFiniteSet(1 .. Len(list))
    BY <1>1, FS_Interval
  <2> QED  BY <1>1, <2>1, FS_Subset
<1>3. IsOrder(P, R) /\ \A m, i \in P : <<m, i>> \in R <=> m < i
  BY <1>2, AscendingIsOrder
<1> HIDE DEF R
<1>4. /\ n \in Nat /\ o \in Bijection(1 .. n, P)
      /\ \A j, k \in 1 .. n : j < k <=> <<o[j], o[k]>> \in R
  BY <1>2, <1>3, InOrderIs
<1>5. At(list, P) = [k \in 1 .. n |-> list[o[k]]]
  BY DEF At, R
<1> HIDE DEF n, o
<1>6. o \in [1 .. n -> P]
  BY <1>4 DEF Bijection, Injection
<1>7. \A k \in 1 .. n : list[o[k]] \in T
  BY <1>1, <1>6
<1>8. At(list, P) \in [1 .. n -> T]
  BY <1>5, <1>7
<1>9. At(list, P) \in Seq(T) /\ Len(At(list, P)) = n
  BY <1>4, <1>8
<1>10. \A j, k \in 1 .. n : j < k <=> o[j] < o[k]
  BY <1>3, <1>4, <1>6
<1>11. \A k \in 1 .. n : At(list, P)[k] = list[o[k]]
  BY <1>5
<1> QED  BY <1>2, <1>4, <1>9, <1>10, <1>11 DEF n

LEMMA AtOnly ==
  ASSUME NEW list, NEW P, P \subseteq Int, NEW n \in Nat, NEW f \in Bijection(1 .. n, P),
         \A j, k \in 1 .. n : j < k => f[j] < f[k]
  PROVE  At(list, P) = [k \in 1 .. n |-> list[f[k]]]
<1>1. f \in [1 .. n -> P]
  BY DEF Bijection, Injection
<1>2. IsOrder(P, Ascending(P)) /\ \A j, k \in 1 .. n : j < k => <<f[j], f[k]>> \in Ascending(P)
  BY <1>1, AscendingIsOrder
<1>3. Cardinality(P) = n /\ InOrder(P, Ascending(P)) = f
  BY <1>2, InOrderOnly
<1> QED  BY <1>3 DEF At

\* The entries left are those of the list.
LEMMA AtRange ==
  ASSUME NEW T, NEW list \in Seq(T), NEW P, P \subseteq DOMAIN list
  PROVE  /\ \A k \in DOMAIN At(list, P) : \E i \in P : At(list, P)[k] = list[i]
         /\ \A i \in P : \E k \in DOMAIN At(list, P) : At(list, P)[k] = list[i]
<1>1. PICK place \in Bijection(1 .. Cardinality(P), P) :
         \A k \in 1 .. Cardinality(P) : At(list, P)[k] = list[place[k]]
  BY AtIs
<1>2. DOMAIN At(list, P) = 1 .. Cardinality(P)
  BY AtIs
<1>3. /\ \A k \in 1 .. Cardinality(P) : place[k] \in P
      /\ \A i \in P : \E k \in 1 .. Cardinality(P) : place[k] = i
  BY DEF Bijection, Injection, Surjection
<1> QED  BY <1>1, <1>2, <1>3
=============================================================================
