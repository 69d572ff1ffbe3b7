---------------------------- MODULE SharedTheorems ----------------------------
(***************************************************************************)
(* What proofs about several components rest on: induction over sets of    *)
(* naturals, what changing one summand does to a sum (Totals), and what is *)
(* picked from a sequence (Sublists).                                      *)
(***************************************************************************)
EXTENDS Totals, Sublists, FiniteSetTheorems, WellFoundedInduction, TLAPS

\* Every set of naturals that is not empty has a least member.
THEOREM LeastNatural ==
    ASSUME NEW T \in SUBSET Nat, T # {}
    PROVE  \E n \in T : \A m \in T : n <= m
  <1>1. PICK n \in T : \A m \in T : ~(<<m, n>> \in OpToRel(<, Nat))
    BY NatLessThanWellFounded, WFMin
  <1>2. \A m \in T : ~(m < n)
    BY <1>1 DEF OpToRel
  <1> QED BY <1>2

\* Induction: a set of naturals that has 0 and each successor has them all.
THEOREM AllNaturals ==
    ASSUME NEW T \in SUBSET Nat, 0 \in T, \A n \in T : n + 1 \in T
    PROVE  T = Nat
  <1> SUFFICES ASSUME Nat \ T # {} PROVE FALSE
    OBVIOUS
  <1>1. PICK n \in Nat \ T : \A m \in Nat \ T : n <= m
    BY LeastNatural
  <1>2. n - 1 \in Nat /\ n - 1 \notin Nat \ T
    BY <1>1
  <1> QED BY <1>1, <1>2

\* The units of one more summand,
LEMMA UnitsInsert ==
    ASSUME NEW S, NEW x, NEW amount
    PROVE  Units(amount, S \cup {x}) = Units(amount, S) \cup ({x} \X (1 .. amount[x]))
PROOF BY DEF Units

\* The units of one summand are as many as it says.
LEMMA UnitsOfOne ==
    ASSUME NEW x, NEW n \in Nat
    PROVE  /\ IsFiniteSet({x} \X (1 .. n))
           /\ Cardinality({x} \X (1 .. n)) = n
PROOF
  <1>1. IsFiniteSet({x}) /\ Cardinality({x}) = 1
    BY FS_Singleton
  <1>2. IsFiniteSet(1 .. n) /\ Cardinality(1 .. n) = n
    BY FS_Interval, SMT
  <1>3. /\ IsFiniteSet({x} \X (1 .. n))
        /\ Cardinality({x} \X (1 .. n)) = Cardinality({x}) * Cardinality(1 .. n)
    BY <1>1, <1>2, FS_Product, Zenon
  <1>4. 1 * n = n
    BY SMT
  <1> QED  BY <1>1, <1>2, <1>3, <1>4, Zenon

\* so that those of a finite set of summands are finite.
LEMMA UnitsFinite ==
    ASSUME NEW S, IsFiniteSet(S), NEW amount, \A x \in S : amount[x] \in Nat
    PROVE  IsFiniteSet(Units(amount, S))
PROOF
  <1> DEFINE T == {{x} \X (1 .. amount[x]) : x \in S}
             f == [x \in S |-> {x} \X (1 .. amount[x])]
  <1>1. f \in Surjection(S, T)
    BY DEF Surjection
  <1>2. IsFiniteSet(T)
    BY <1>1, FS_Surjection
  <1>3. \A t \in T : IsFiniteSet(t)
    <2>1. \A x \in S : IsFiniteSet({x} \X (1 .. amount[x]))
      BY UnitsOfOne, Zenon
    <2> QED  BY <2>1, Zenon
  <1>4. IsFiniteSet(UNION T)
    BY <1>2, <1>3, FS_UNION
  <1> QED  BY <1>4 DEF Units

\* A sum of natural numbers is a natural number.
THEOREM TotalType ==
    ASSUME NEW S, IsFiniteSet(S), NEW amount, \A x \in S : amount[x] \in Nat
    PROVE  Total(amount, S) \in Nat
PROOF BY UnitsFinite, FS_CardinalityType DEF Total

\* The sum of nothing is zero.
THEOREM TotalEmpty ==
    ASSUME NEW amount
    PROVE  Total(amount, {}) = 0
PROOF BY FS_EmptySet DEF Total, Units

\* Another summand adds what it is to the sum.
THEOREM TotalInsert ==
    ASSUME NEW S, IsFiniteSet(S), NEW x, x \notin S, NEW amount,
           \A y \in S \cup {x} : amount[y] \in Nat
    PROVE  Total(amount, S \cup {x}) = Total(amount, S) + amount[x]
PROOF
  <1> DEFINE U == Units(amount, S)
             V == {x} \X (1 .. amount[x])
  <1>1. IsFiniteSet(U) /\ IsFiniteSet(V) /\ Cardinality(V) = amount[x]
    BY UnitsFinite, UnitsOfOne
  <1>2. U \cap V = {}
    BY DEF Units
  <1>3. Cardinality(U \cap V) = 0
    BY <1>2, FS_EmptySet
  <1>4. Cardinality(U) \in Nat /\ amount[x] \in Nat
    BY <1>1, FS_CardinalityType
  <1> HIDE DEF U, V
  <1>5. Cardinality(U \cup V) = Cardinality(U) + amount[x]
    <2>1. Cardinality(U \cup V) = Cardinality(U) + Cardinality(V) - Cardinality(U \cap V)
      BY <1>1, FS_Union, Zenon
    <2> QED  BY <2>1, <1>1, <1>3, <1>4, SMT
  <1>6. Units(amount, S \cup {x}) = U \cup V
    BY UnitsInsert DEF U, V
  <1> QED  BY <1>5, <1>6 DEF Total, U

\* A sum without one of its summands.
THEOREM TotalRemove ==
    ASSUME NEW S, IsFiniteSet(S), NEW x \in S, NEW amount,
           \A y \in S : amount[y] \in Nat
    PROVE  Total(amount, S \ {x}) = Total(amount, S) - amount[x]
PROOF
  <1>1. IsFiniteSet(S \ {x}) /\ x \notin S \ {x} /\ S = (S \ {x}) \cup {x}
    BY FS_RemoveElement
  <1>2. Total(amount, (S \ {x}) \cup {x}) = Total(amount, S \ {x}) + amount[x]
    BY <1>1, TotalInsert
  <1>3. Total(amount, S \ {x}) \in Nat /\ amount[x] \in Nat
    BY <1>1, TotalType
  <1> QED  BY <1>1, <1>2, <1>3, SMT

\* A sum depends on its summands only.
THEOREM TotalSame ==
    ASSUME NEW S, NEW a, NEW b, \A x \in S : a[x] = b[x]
    PROVE  Total(a, S) = Total(b, S)
PROOF BY DEF Total, Units

\* Summands that are zero count for nothing.
THEOREM TotalExtend ==
    ASSUME NEW S, NEW T, S \subseteq T, NEW a, NEW b,
           \A x \in S : a[x] = b[x], \A x \in T \ S : b[x] = 0
    PROVE  Total(a, S) = Total(b, T)
PROOF
  <1>1. \A x \in T \ S : {x} \X (1 .. b[x]) = {}
    <2>1. 1 .. 0 = {}
      BY SMT
    <2> QED  BY <2>1
  <1>2. Units(a, S) = Units(b, T)
    BY <1>1 DEF Units
  <1> QED  BY <1>2 DEF Total

\* A sum after one of its summands changed.
THEOREM TotalChange ==
    ASSUME NEW S, IsFiniteSet(S), NEW x \in S, NEW a, NEW b,
           \A y \in S : a[y] \in Nat /\ b[y] \in Nat, \A y \in S \ {x} : a[y] = b[y]
    PROVE  Total(b, S) = Total(a, S) - a[x] + b[x]
PROOF
  <1>1. /\ Total(a, S \ {x}) = Total(a, S) - a[x]
        /\ Total(b, S \ {x}) = Total(b, S) - b[x]
        /\ Total(a, S \ {x}) = Total(b, S \ {x})
    BY TotalRemove, TotalSame
  <1>2. Total(a, S) \in Nat /\ Total(b, S) \in Nat /\ a[x] \in Nat /\ b[x] \in Nat
    BY TotalType
  <1> QED  BY <1>1, <1>2, SMT

\* The sum over two sets that have nothing in common.
THEOREM TotalUnion ==
    ASSUME NEW S, IsFiniteSet(S), NEW T, IsFiniteSet(T), S \cap T = {}, NEW a,
           \A x \in S \cup T : a[x] \in Nat
    PROVE  Total(a, S \cup T) = Total(a, S) + Total(a, T)
PROOF
  <1>1. /\ IsFiniteSet(Units(a, S)) /\ IsFiniteSet(Units(a, T))
        /\ Units(a, S \cup T) = Units(a, S) \cup Units(a, T)
        /\ Units(a, S) \cap Units(a, T) = {}
    BY UnitsFinite DEF Units
  <1>2. /\ Cardinality(Units(a, S)) \in Nat /\ Cardinality(Units(a, T)) \in Nat
        /\ Cardinality(Units(a, S) \cap Units(a, T)) = 0
    BY <1>1, FS_CardinalityType, FS_EmptySet
  <1>3. Cardinality(Units(a, S) \cup Units(a, T)) = Cardinality(Units(a, S))
            + Cardinality(Units(a, T)) - Cardinality(Units(a, S) \cap Units(a, T))
    BY <1>1, FS_Union, Zenon
  <1>4. Cardinality(Units(a, S \cup T))
            = Cardinality(Units(a, S)) + Cardinality(Units(a, T))
    <2> DEFINE m == Cardinality(Units(a, S))
               k == Cardinality(Units(a, T))
               z == Cardinality(Units(a, S) \cap Units(a, T))
               w == Cardinality(Units(a, S) \cup Units(a, T))
    <2>1. m \in Nat /\ k \in Nat /\ z = 0 /\ w = m + k - z
      BY <1>2, <1>3
    <2> HIDE DEF m, k, z, w
    <2>2. w = m + k
      BY <2>1, SMT
    <2> QED  BY <1>1, <2>2 DEF m, k, w
  <1> QED  BY <1>4 DEF Total

\* A sum does not depend on what its summands are called.
THEOREM TotalRename ==
    ASSUME NEW S, IsFiniteSet(S), NEW T, NEW f \in Bijection(S, T), NEW a, NEW b,
           \A x \in S : a[x] \in Nat /\ b[f[x]] = a[x]
    PROVE  Total(b, T) = Total(a, S)
PROOF
  <1> DEFINE U == Units(a, S)
             V == Units(b, T)
             g == [u \in U |-> <<f[u[1]], u[2]>>]
  <1>1. /\ f \in [S -> T] /\ \A t \in T : \E x \in S : f[x] = t
        /\ \A x, y \in S : f[x] = f[y] => x = y
    BY DEF Bijection, Injection, Surjection, IsInjective
  <1>2. \A u \in U : \E x \in S : \E k \in 1 .. a[x] : u = <<x, k>>
    BY DEF Units
  <1>3. g \in [U -> V]
    <2>1. ASSUME NEW u \in U
          PROVE  <<f[u[1]], u[2]>> \in V
      <3>1. PICK x \in S : \E k \in 1 .. a[x] : u = <<x, k>>
        BY <1>2
      <3>2. PICK k \in 1 .. a[x] : u = <<x, k>>
        BY <3>1
      <3>3. f[x] \in T /\ k \in 1 .. b[f[x]]
        BY <1>1
      <3>4. <<f[x], k>> \in V
        BY <3>3 DEF Units
      <3> QED  BY <3>2, <3>4
    <2> QED  BY <2>1
  <1>4. \A u, v \in U : g[u] = g[v] => u = v
    <2> SUFFICES ASSUME NEW u \in U, NEW v \in U, g[u] = g[v]  PROVE u = v
      OBVIOUS
    <2>1. PICK x \in S : \E k \in 1 .. a[x] : u = <<x, k>>
      BY <1>2
    <2>2. PICK k \in 1 .. a[x] : u = <<x, k>>
      BY <2>1
    <2>3. PICK y \in S : \E j \in 1 .. a[y] : v = <<y, j>>
      BY <1>2
    <2>4. PICK j \in 1 .. a[y] : v = <<y, j>>
      BY <2>3
    <2>5. f[x] = f[y] /\ k = j
      BY <2>2, <2>4
    <2> QED  BY <1>1, <2>2, <2>4, <2>5
  <1>5. \A v \in V : \E u \in U : g[u] = v
    <2> TAKE v \in V
    <2>1. PICK t \in T : \E k \in 1 .. b[t] : v = <<t, k>>
      BY DEF Units
    <2>2. PICK k \in 1 .. b[t] : v = <<t, k>>
      BY <2>1
    <2>3. PICK x \in S : f[x] = t
      BY <1>1
    <2>4. <<x, k>> \in U
      BY <2>2, <2>3 DEF Units
    <2>5. g[<<x, k>>] = <<t, k>>
      BY <2>3, <2>4
    <2> QED  BY <2>2, <2>4, <2>5
  <1> HIDE DEF U, V, g
  <1>6. g \in Bijection(U, V)
    BY <1>3, <1>4, <1>5 DEF Bijection, Injection, Surjection, IsInjective
  <1>7. ExistsBijection(U, V)
    BY <1>6 DEF ExistsBijection
  <1>8. Cardinality(V) = Cardinality(U)
    BY <1>7, UnitsFinite, FS_Bijection DEF U
  <1> QED  BY <1>8 DEF Total, U, V

-----------------------------------------------------------------------------
(* What is picked from a sequence *)

\* kept says what was picked up to each position.
Keeps(s, I, n, kept) ==
    kept = [i \in 0 .. n |->
               IF i = 0 THEN <<>>
               ELSE IF i \in I THEN Append(kept[i - 1], s[i]) ELSE kept[i - 1]]

\* It exists for every prefix.
LEMMA KeptExists ==
    ASSUME NEW s, NEW I
    PROVE  \A n \in Nat : \E kept : Keeps(s, I, n, kept)
  <1> DEFINE T == {n \in Nat : \E kept : Keeps(s, I, n, kept)}
  <1>1. 0 \in T
    <2> DEFINE h == [i \in 0 .. 0 |-> <<>>]
    <2>1. Keeps(s, I, 0, h)
      BY DEF Keeps
    <2> QED BY <2>1
  <1>2. ASSUME NEW n \in T PROVE n + 1 \in T
    <2>1. PICK h : Keeps(s, I, n, h)
      OBVIOUS
    <2> DEFINE last == IF n + 1 \in I THEN Append(h[n], s[n + 1]) ELSE h[n]
               k == [i \in 0 .. n + 1 |-> IF i = n + 1 THEN last ELSE h[i]]
    <2>2. h = [i \in 0 .. n |-> IF i = 0 THEN <<>>
                                ELSE IF i \in I THEN Append(h[i - 1], s[i]) ELSE h[i - 1]]
      BY <2>1 DEF Keeps
    <2>3. \A i \in 0 .. n : h[i] = IF i = 0 THEN <<>>
                                   ELSE IF i \in I THEN Append(h[i - 1], s[i]) ELSE h[i - 1]
      BY <2>2
    <2> HIDE DEF last
    <2>4. k[n + 1] = last /\ \A i \in 0 .. n : k[i] = h[i]
      OBVIOUS
    <2>5. k[n] = h[n] /\ last = IF n + 1 \in I THEN Append(k[n], s[n + 1]) ELSE k[n]
      BY <2>4 DEF last
    <2>6. k = [i \in 0 .. n + 1 |-> k[i]]
      OBVIOUS
    <2> HIDE DEF k
    <2>7. ASSUME NEW i \in 0 .. n + 1
          PROVE  k[i] = IF i = 0 THEN <<>>
                        ELSE IF i \in I THEN Append(k[i - 1], s[i]) ELSE k[i - 1]
      <3>1. CASE i = n + 1
        BY <2>4, <2>5, <3>1
      <3>2. CASE i # n + 1
        <4>1. i \in 0 .. n /\ (i # 0 => i - 1 \in 0 .. n)
          BY <3>2
        <4>2. k[i] = h[i] /\ (i # 0 => k[i - 1] = h[i - 1])
          BY <2>4, <4>1
        <4> QED BY <2>3, <4>1, <4>2
      <3> QED BY <3>1, <3>2
    <2>8. Keeps(s, I, n + 1, k)
      BY <2>6, <2>7 DEF Keeps
    <2> QED BY <2>8
  <1> HIDE DEF T
  <1>3. T = Nat
    BY <1>1, <1>2, AllNaturals DEF T
  <1> QED BY <1>3 DEF T

\* In kept what is picked of s at I grows element by element.
Grows(kept, s, I, S) ==
    /\ kept \in [0 .. Len(s) -> Seq(S)] /\ kept[0] = <<>>
    /\ \A i \in 1 .. Len(s) : kept[i] = IF i \in I THEN Append(kept[i - 1], s[i]) ELSE kept[i - 1]

\* Position by position, what is picked is a sequence of elements of s.
LEMMA PickedStepwise ==
    ASSUME NEW S, NEW s \in Seq(S), NEW I
    PROVE  \E kept : Grows(kept, s, I, S) /\ Picked(s, I) = kept[Len(s)]
  <1>0. Len(s) \in Nat
    OBVIOUS
  <1>1. \E kept : Keeps(s, I, Len(s), kept)
    BY <1>0, KeptExists, Zenon
  <1> DEFINE k == CHOOSE kept : Keeps(s, I, Len(s), kept)
  <1>2. Keeps(s, I, Len(s), k)
    BY <1>1
  <1>3. Picked(s, I) = k[Len(s)]
    BY Zenon DEF Picked, Keeps
  <1> HIDE DEF k
  <1>4. k = [i \in 0 .. Len(s) |-> IF i = 0 THEN <<>>
                                   ELSE IF i \in I THEN Append(k[i - 1], s[i]) ELSE k[i - 1]]
    BY <1>2 DEF Keeps
  <1>5. /\ k[0] = <<>>
        /\ \A i \in 1 .. Len(s) : k[i] = IF i \in I THEN Append(k[i - 1], s[i]) ELSE k[i - 1]
    <2>1. \A i \in 0 .. Len(s) : k[i] = IF i = 0 THEN <<>>
                                        ELSE IF i \in I THEN Append(k[i - 1], s[i]) ELSE k[i - 1]
      BY <1>4, Zenon
    <2>2. 0 \in 0 .. Len(s) /\ \A i \in 1 .. Len(s) : i \in 0 .. Len(s) /\ i # 0
      BY <1>0
    <2> QED BY <2>1, <2>2, Zenon
  <1> DEFINE T == {n \in Nat : n \in 0 .. Len(s) => k[n] \in Seq(S)}
  <1>6. 0 \in T
    <2>1. k[0] \in Seq(S)
      BY <1>5
    <2> QED BY <2>1
  <1>7. ASSUME NEW n \in T PROVE n + 1 \in T
    <2> SUFFICES ASSUME n + 1 \in 0 .. Len(s) PROVE k[n + 1] \in Seq(S)
      OBVIOUS
    <2>1. n \in 0 .. Len(s) /\ n + 1 \in 1 .. Len(s) /\ (n + 1) - 1 = n
      OBVIOUS
    <2>2. k[n] \in Seq(S) /\ s[n + 1] \in S
      BY <2>1
    <2>3. k[n + 1] = IF n + 1 \in I THEN Append(k[n], s[n + 1]) ELSE k[n]
      BY <1>5, <2>1
    <2> QED BY <2>2, <2>3
  <1> HIDE DEF T
  <1>8. T = Nat
    BY <1>6, <1>7, AllNaturals DEF T
  <1>9. \A n \in 0 .. Len(s) : k[n] \in Seq(S)
    BY <1>8 DEF T
  <1>10. k \in [0 .. Len(s) -> Seq(S)]
    BY <1>4, <1>9
  <1> QED BY <1>3, <1>5, <1>10 DEF Grows

\* What is picked is a sequence of elements of s; nothing is picked from nothing.
LEMMA PickedType ==
    ASSUME NEW S, NEW s \in Seq(S), NEW I
    PROVE  Picked(s, I) \in Seq(S) /\ (s = <<>> => Picked(s, I) = <<>>)
  <1>1. PICK k : Grows(k, s, I, S) /\ Picked(s, I) = k[Len(s)]
    BY PickedStepwise
  <1> QED BY <1>1 DEF Grows

\* Picking goes along a sequence that grows: what was picked before stays, and
\* the new element is picked or not.
THEOREM PickedAppend ==
    ASSUME NEW S, NEW s \in Seq(S), NEW e \in S, NEW I, NEW J,
           \A i \in 1 .. Len(s) : i \in I <=> i \in J
    PROVE  Picked(Append(s, e), I)
               = IF Len(s) + 1 \in I THEN Append(Picked(s, J), e) ELSE Picked(s, J)
  <1> DEFINE t == Append(s, e)
  <1>1. t \in Seq(S) /\ Len(t) = Len(s) + 1 /\ t[Len(s) + 1] = e /\ Len(s) \in Nat
        /\ \A i \in 1 .. Len(s) : t[i] = s[i]
    OBVIOUS
  <1> HIDE DEF t
  <1>2. PICK k : Grows(k, t, I, S) /\ Picked(t, I) = k[Len(t)]
    BY <1>1, PickedStepwise, Zenon
  <1>3. PICK h : Grows(h, s, J, S) /\ Picked(s, J) = h[Len(s)]
    BY PickedStepwise, Zenon
  <1> DEFINE T == {n \in Nat : n \in 0 .. Len(s) => k[n] = h[n]}
  <1>4. 0 \in T
    BY <1>2, <1>3 DEF Grows
  <1>5. ASSUME NEW n \in T PROVE n + 1 \in T
    <2> SUFFICES ASSUME n + 1 \in 0 .. Len(s) PROVE k[n + 1] = h[n + 1]
      OBVIOUS
    <2>1. /\ n \in 0 .. Len(s) /\ n + 1 \in 1 .. Len(s) /\ n + 1 \in 1 .. Len(t)
          /\ (n + 1) - 1 = n
      BY <1>1
    <2>2. k[n] = h[n] /\ t[n + 1] = s[n + 1] /\ (n + 1 \in I <=> n + 1 \in J)
      BY <1>1, <2>1
    <2> QED BY <1>2, <1>3, <2>1, <2>2 DEF Grows
  <1> HIDE DEF T
  <1>6. T = Nat
    BY <1>4, <1>5, AllNaturals DEF T
  <1>7. k[Len(s)] = h[Len(s)]
    BY <1>1, <1>6 DEF T
  <1>8. k[Len(t)] = IF Len(s) + 1 \in I THEN Append(k[Len(s)], e) ELSE k[Len(s)]
    <2>1. Len(t) \in 1 .. Len(t) /\ Len(t) - 1 = Len(s)
      BY <1>1
    <2> QED BY <1>1, <1>2, <2>1 DEF Grows
  <1> QED BY <1>2, <1>3, <1>7, <1>8 DEF t

\* at says from where in the first n elements of s those of r were picked.
PlacedAt(r, s, I, n, at) ==
    /\ at \in [1 .. Len(r) -> 1 .. n]
    /\ \A j \in 1 .. Len(r) : at[j] \in I /\ r[j] = s[at[j]]
    /\ \A j, m \in 1 .. Len(r) : j < m => at[j] < at[m]
    /\ \A i \in 1 .. n : i \in I => \E j \in 1 .. Len(r) : at[j] = i

\* What is picked comes from increasing positions, those asked for, all of them.
THEOREM PickedPositions ==
    ASSUME NEW S, NEW s \in Seq(S), NEW I
    PROVE  \E at : PlacedAt(Picked(s, I), s, I, Len(s), at)
  <1>1. PICK k : Grows(k, s, I, S) /\ Picked(s, I) = k[Len(s)]
    BY PickedStepwise, Zenon
  <1> DEFINE T == {n \in Nat : n \in 0 .. Len(s) => \E at : PlacedAt(k[n], s, I, n, at)}
  <1>2. 0 \in T
    <2> DEFINE none == [j \in 1 .. 0 |-> 0]
    <2>1. k[0] = <<>> /\ Len(k[0]) = 0
      BY <1>1 DEF Grows
    <2>2. PlacedAt(k[0], s, I, 0, none)
      BY <2>1 DEF PlacedAt
    <2> QED BY <2>2
  <1>3. ASSUME NEW n \in T PROVE n + 1 \in T
    <2> SUFFICES ASSUME n + 1 \in 0 .. Len(s) PROVE \E at : PlacedAt(k[n + 1], s, I, n + 1, at)
      OBVIOUS
    <2>1. n \in 0 .. Len(s) /\ n + 1 \in 1 .. Len(s) /\ (n + 1) - 1 = n
      BY Len(s) \in Nat, n \in Nat
    <2>2. k[n + 1] = IF n + 1 \in I THEN Append(k[n], s[n + 1]) ELSE k[n]
      BY <1>1, <2>1 DEF Grows
    <2>3. PICK at : PlacedAt(k[n], s, I, n, at)
      BY <2>1
    <2>4. k[n] \in Seq(S) /\ Len(k[n]) \in Nat /\ s[n + 1] \in S
      BY <1>1, <2>1 DEF Grows
    <2>5. CASE n + 1 \notin I
      <3>1. k[n + 1] = k[n]
        BY <2>2, <2>5
      <3>2. PlacedAt(k[n + 1], s, I, n + 1, at)
        BY <2>3, <2>4, <2>5, <3>1 DEF PlacedAt
      <3> QED BY <3>2
    <2>6. CASE n + 1 \in I
      <3> DEFINE len == Len(k[n])
                 more == [j \in 1 .. len + 1 |-> IF j = len + 1 THEN n + 1 ELSE at[j]]
      <3>1. /\ Len(k[n + 1]) = len + 1 /\ k[n + 1][len + 1] = s[n + 1]
            /\ \A j \in 1 .. len : k[n + 1][j] = k[n][j]
        BY <2>2, <2>4, <2>6
      <3>2. more[len + 1] = n + 1 /\ \A j \in 1 .. len : more[j] = at[j]
        BY <2>4
      <3>3. more \in [1 .. len + 1 -> 1 .. n + 1]
        BY <2>3, <2>4 DEF PlacedAt
      <3>4. \A j \in 1 .. len : at[j] \in 1 .. n
        BY <2>3 DEF PlacedAt
      <3> HIDE DEF more
      <3>5. \A j \in 1 .. len + 1 : more[j] \in I /\ k[n + 1][j] = s[more[j]]
        <4> TAKE j \in 1 .. len + 1
        <4>1. CASE j = len + 1
          BY <2>6, <3>1, <3>2, <4>1
        <4>2. CASE j # len + 1
          <5>1. j \in 1 .. len
            BY <2>4, <4>2
          <5> QED BY <2>3, <3>1, <3>2, <5>1 DEF PlacedAt
        <4> QED BY <4>1, <4>2
      <3>6. \A j, m \in 1 .. len + 1 : j < m => more[j] < more[m]
        <4> SUFFICES ASSUME NEW j \in 1 .. len + 1, NEW m \in 1 .. len + 1, j < m
                     PROVE  more[j] < more[m]
          OBVIOUS
        <4>1. j \in 1 .. len /\ more[j] = at[j] /\ at[j] \in 1 .. n
          BY <2>4, <3>2, <3>4
        <4>2. CASE m = len + 1
          BY <3>2, <4>1, <4>2
        <4>3. CASE m # len + 1
          <5>1. m \in 1 .. len
            BY <2>4, <4>3
          <5>2. more[m] = at[m]
            BY <3>2, <5>1
          <5> QED BY <2>3, <4>1, <5>1, <5>2 DEF PlacedAt
        <4> QED BY <4>2, <4>3
      <3>7. \A i \in 1 .. n + 1 : i \in I => \E j \in 1 .. len + 1 : more[j] = i
        <4> SUFFICES ASSUME NEW i \in 1 .. n + 1, i \in I
                     PROVE  \E j \in 1 .. len + 1 : more[j] = i
          OBVIOUS
        <4>1. CASE i = n + 1
          BY <2>4, <3>2, <4>1
        <4>2. CASE i # n + 1
          <5>1. PICK j \in 1 .. len : at[j] = i
            BY <2>3, <4>2 DEF PlacedAt
          <5>2. j \in 1 .. len + 1 /\ more[j] = i
            BY <2>4, <3>2, <5>1
          <5> QED BY <5>2
        <4> QED BY <4>1, <4>2
      <3>8. PlacedAt(k[n + 1], s, I, n + 1, more)
        BY <3>1, <3>3, <3>5, <3>6, <3>7 DEF PlacedAt
      <3> QED BY <3>8
    <2> QED BY <2>5, <2>6
  <1> HIDE DEF T
  <1>4. T = Nat
    BY <1>2, <1>3, AllNaturals DEF T
  <1>5. \E at : PlacedAt(k[Len(s)], s, I, Len(s), at)
    BY <1>4 DEF T
  <1> QED BY <1>1, <1>5

\* Everything picked is everything.
LEMMA PickedAll ==
    ASSUME NEW S, NEW s \in Seq(S), NEW I, \A i \in 1 .. Len(s) : i \in I
    PROVE  Picked(s, I) = s
  <1>1. PICK k : Grows(k, s, I, S) /\ Picked(s, I) = k[Len(s)]
    BY PickedStepwise, Zenon
  <1> DEFINE Same(n) == Len(k[n]) = n /\ \A j \in 1 .. n : k[n][j] = s[j]
             T == {n \in Nat : n \in 0 .. Len(s) => Same(n)}
  <1>2. 0 \in T
    BY <1>1 DEF Grows
  <1>3. ASSUME NEW n \in T PROVE n + 1 \in T
    <2> SUFFICES ASSUME n + 1 \in 0 .. Len(s) PROVE Same(n + 1)
      OBVIOUS
    <2>1. n \in 0 .. Len(s) /\ n + 1 \in 1 .. Len(s) /\ (n + 1) - 1 = n
      BY Len(s) \in Nat, n \in Nat
    <2>2. k[n + 1] = Append(k[n], s[n + 1]) /\ k[n] \in Seq(S) /\ s[n + 1] \in S
      <3>1. n + 1 \in I /\ s[n + 1] \in S
        BY <2>1
      <3>2. k[n + 1] = IF n + 1 \in I THEN Append(k[n], s[n + 1]) ELSE k[n]
        BY <1>1, <2>1 DEF Grows
      <3>3. k[n] \in Seq(S)
        BY <1>1, <2>1 DEF Grows
      <3> QED BY <3>1, <3>2, <3>3
    <2>3. Same(n)
      BY <2>1
    <2> QED BY <2>1, <2>2, <2>3
  <1> HIDE DEF T
  <1>4. T = Nat
    BY <1>2, <1>3, AllNaturals DEF T
  <1>5. Same(Len(s))
    BY <1>4 DEF T
  <1>6. k[Len(s)] \in Seq(S)
    BY <1>1 DEF Grows
  <1> QED BY <1>1, <1>5, <1>6

\* From sequences of one length, the same places are picked.
PickedAlike(r, q, s, t, I, n) ==
    /\ Len(r) = Len(q)
    /\ \A j \in 1 .. Len(r) : \E i \in 1 .. n : i \in I /\ r[j] = s[i] /\ q[j] = t[i]

\* What is picked from two sequences of one length comes from the same places.
THEOREM PickedTogether ==
    ASSUME NEW S, NEW s \in Seq(S), NEW U, NEW t \in Seq(U), Len(s) = Len(t), NEW I
    PROVE  PickedAlike(Picked(s, I), Picked(t, I), s, t, I, Len(s))
  <1>1. PICK k : Grows(k, s, I, S) /\ Picked(s, I) = k[Len(s)]
    BY PickedStepwise, Zenon
  <1>2. PICK h : Grows(h, t, I, U) /\ Picked(t, I) = h[Len(t)]
    BY PickedStepwise, Zenon
  <1> DEFINE T == {n \in Nat : n \in 0 .. Len(s) => PickedAlike(k[n], h[n], s, t, I, n)}
  <1>3. 0 \in T
    <2>1. k[0] = <<>> /\ h[0] = <<>>
      BY <1>1, <1>2 DEF Grows
    <2>2. PickedAlike(k[0], h[0], s, t, I, 0)
      BY <2>1 DEF PickedAlike
    <2> QED BY <2>2
  <1>4. ASSUME NEW n \in T PROVE n + 1 \in T
    <2> SUFFICES ASSUME n + 1 \in 0 .. Len(s) PROVE PickedAlike(k[n + 1], h[n + 1], s, t, I, n + 1)
      OBVIOUS
    <2>1. n \in 0 .. Len(s) /\ n + 1 \in 1 .. Len(s) /\ (n + 1) - 1 = n /\ n \in Nat
      BY Len(s) \in Nat, n \in Nat
    <2>2. /\ k[n + 1] = IF n + 1 \in I THEN Append(k[n], s[n + 1]) ELSE k[n]
          /\ h[n + 1] = IF n + 1 \in I THEN Append(h[n], t[n + 1]) ELSE h[n]
      BY <1>1, <1>2, <2>1 DEF Grows
    <2>3. k[n] \in Seq(S) /\ h[n] \in Seq(U) /\ Len(k[n]) \in Nat
      BY <1>1, <1>2, <2>1 DEF Grows
    <2>4. PickedAlike(k[n], h[n], s, t, I, n)
      BY <2>1
    <2>5. CASE n + 1 \notin I
      <3>1. k[n + 1] = k[n] /\ h[n + 1] = h[n]
        BY <2>2, <2>5
      <3> QED BY <2>1, <2>4, <3>1 DEF PickedAlike
    <2>6. CASE n + 1 \in I
      <3> DEFINE l == Len(k[n])
      <3>1. /\ k[n + 1] = Append(k[n], s[n + 1]) /\ h[n + 1] = Append(h[n], t[n + 1])
            /\ Len(h[n]) = l /\ s[n + 1] \in S /\ t[n + 1] \in U
        BY <2>1, <2>2, <2>4, <2>6 DEF PickedAlike
      <3>2. /\ Len(k[n + 1]) = l + 1 /\ Len(h[n + 1]) = l + 1
            /\ k[n + 1][l + 1] = s[n + 1] /\ h[n + 1][l + 1] = t[n + 1]
            /\ \A j \in 1 .. l : k[n + 1][j] = k[n][j] /\ h[n + 1][j] = h[n][j]
        BY <2>3, <3>1
      <3>3. ASSUME NEW j \in 1 .. l + 1
            PROVE  \E i \in 1 .. n + 1 : i \in I /\ k[n + 1][j] = s[i] /\ h[n + 1][j] = t[i]
        <4>1. CASE j = l + 1
          BY <2>1, <2>6, <3>2, <4>1
        <4>2. CASE j # l + 1
          <5>1. j \in 1 .. l
            BY ONLY Len(k[n]) \in Nat, j \in 1 .. Len(k[n]) + 1, j # Len(k[n]) + 1
          <5>2. PICK i \in 1 .. n : i \in I /\ k[n][j] = s[i] /\ h[n][j] = t[i]
            BY <2>4, <5>1 DEF PickedAlike
          <5> QED BY <2>1, <3>2, <5>1, <5>2
        <4> QED BY <4>1, <4>2
      <3> QED BY <3>2, <3>3 DEF PickedAlike
    <2> QED BY <2>5, <2>6
  <1> HIDE DEF T
  <1>5. T = Nat
    BY <1>3, <1>4, AllNaturals DEF T
  <1>6. PickedAlike(k[Len(s)], h[Len(s)], s, t, I, Len(s))
    BY <1>5 DEF T
  <1> QED BY <1>1, <1>2, <1>6

\* As many are picked as there are places to pick from.
THEOREM PickedCount ==
    ASSUME NEW S, NEW s \in Seq(S), NEW I, I \subseteq 1 .. Len(s)
    PROVE  Cardinality(I) = Len(Picked(s, I))
  <1> DEFINE p == Picked(s, I)
  <1>1. PICK at : PlacedAt(p, s, I, Len(s), at)
    BY PickedPositions, Zenon
  <1>2. p \in Seq(S)
    BY PickedType
  <1> HIDE DEF p
  <1>3. Len(p) \in Nat
    BY <1>2
  <1>4. at \in Bijection(1 .. Len(p), I)
    <2>1. at \in [1 .. Len(p) -> I]
      BY <1>1 DEF PlacedAt
    <2>2. \A j, m \in 1 .. Len(p) : at[j] = at[m] => j = m
      <3> SUFFICES ASSUME NEW j \in 1 .. Len(p), NEW m \in 1 .. Len(p), at[j] = at[m], j # m
                   PROVE  FALSE
        OBVIOUS
      <3>1. at[j] \in 1 .. Len(s) /\ at[m] \in 1 .. Len(s)
        BY <1>1 DEF PlacedAt
      <3>2. j < m \/ m < j
        OBVIOUS
      <3> QED BY <1>1, <3>1, <3>2 DEF PlacedAt
    <2>3. \A i \in I : \E j \in 1 .. Len(p) : at[j] = i
      BY <1>1 DEF PlacedAt
    <2> QED BY <2>1, <2>2, <2>3 DEF Bijection, Injection, Surjection, IsInjective
  <1>5. ExistsBijection(1 .. Len(p), I)
    BY <1>4 DEF ExistsBijection
  <1>6. Cardinality(1 .. Len(p)) = Len(p) /\ IsFiniteSet(1 .. Len(p))
    <2>1. \A n \in Nat : IsFiniteSet(1 .. n) /\ Cardinality(1 .. n) = n
      BY FS_Interval, SMT
    <2> QED BY <1>3, <2>1
  <1>7. Cardinality(I) = Cardinality(1 .. Len(p))
    BY <1>5, <1>6, FS_Bijection
  <1> QED BY <1>6, <1>7 DEF p

==============================================================================
