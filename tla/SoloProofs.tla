------------------------------ MODULE SoloProofs ------------------------------
(***************************************************************************)
(* Proofs about SoloExecution, for any tasks and dependencies, any limits  *)
(* and any answers.                                                        *)
(***************************************************************************)
EXTENDS SoloExecution, SharedTheorems

-----------------------------------------------------------------------------
(* The order of tasks *)

Dependencies == [Tasks -> SUBSET Tasks]

\* The list is a sequence of tasks without repetitions, and has them all.
LEMMA ListedTasks ==
    /\ TaskList \in Seq(Tasks) /\ Len(TaskList) \in Nat \ {0}
    /\ \A i, j \in 1 .. Len(TaskList) : TaskList[i] = TaskList[j] => i = j
    /\ \A t \in Tasks : \E i \in 1 .. Len(TaskList) : TaskList[i] = t
  <1>1. /\ TaskList \in Seq(Tasks) /\ TaskList # <<>>
        /\ IsInjective(TaskList) /\ Range(TaskList) = Tasks
    BY TaskListAssumption
  <1>2. DOMAIN TaskList = 1 .. Len(TaskList) /\ Len(TaskList) \in Nat \ {0}
    BY <1>1
  <1> QED BY <1>1, <1>2 DEF IsInjective, Range

\* s has no task twice, and each task in it comes after what it depends on.
Ordered(d, s) ==
    /\ s \in Seq(Tasks)
    /\ \A i, j \in 1 .. Len(s) : s[i] = s[j] => i = j
    /\ \A i \in 1 .. Len(s) : \A t \in d[s[i]] : \E j \in 1 .. i - 1 : s[j] = t

Has(s, t) == \E i \in 1 .. Len(s) : s[i] = t

\* A task is ready if it is not placed and all it depends on is.
LEMMA ReadyTasks ==
    ASSUME NEW d \in Dependencies, NEW s \in Seq(Tasks)
    PROVE  /\ Ready(d, s) \in Seq(Tasks)
           /\ \A i, j \in 1 .. Len(Ready(d, s)) : Ready(d, s)[i] = Ready(d, s)[j] => i = j
           /\ \A t \in Tasks : Has(Ready(d, s), t)
                  <=> ~Has(s, t) /\ \A u \in d[t] : Has(s, u)
  <1> DEFINE L == TaskList
             I == {i \in DOMAIN L : L[i] \notin Range(s) /\ d[L[i]] \subseteq Range(s)}
             R == Picked(L, I)
  <1>1. /\ L \in Seq(Tasks) /\ Len(L) \in Nat /\ DOMAIN L = 1 .. Len(L)
        /\ \A i, j \in 1 .. Len(L) : L[i] = L[j] => i = j
        /\ \A t \in Tasks : \E i \in 1 .. Len(L) : L[i] = t
    BY ListedTasks
  <1>2. Ready(d, s) = R
    BY DEF Ready
  <1>3. \A t : t \in Range(s) <=> Has(s, t)
    BY DEF Range, Has
  <1>4. \A i \in 1 .. Len(L) :
            i \in I <=> ~Has(s, L[i]) /\ \A u \in d[L[i]] : Has(s, u)
    BY <1>1, <1>3
  <1> HIDE DEF I, L
  <1>5. R \in Seq(Tasks) /\ Len(R) \in Nat
    BY <1>1, PickedType
  <1>6. PICK at : PlacedAt(R, L, I, Len(L), at)
    BY <1>1, PickedPositions, Zenon
  <1> HIDE DEF R
  <1>7. \A i, j \in 1 .. Len(R) : R[i] = R[j] => i = j
    <2> SUFFICES ASSUME NEW i \in 1 .. Len(R), NEW j \in 1 .. Len(R), i < j
                 PROVE  R[i] # R[j]
      BY <1>5
    <2>1. /\ at[i] \in 1 .. Len(L) /\ at[j] \in 1 .. Len(L) /\ at[i] < at[j]
          /\ R[i] = L[at[i]] /\ R[j] = L[at[j]]
      BY <1>6 DEF PlacedAt
    <2> QED BY <1>1, <2>1
  <1>8. ASSUME NEW t \in Tasks
        PROVE  Has(R, t) <=> ~Has(s, t) /\ \A u \in d[t] : Has(s, u)
    <2>1. PICK i \in 1 .. Len(L) : L[i] = t
      BY <1>1
    <2>2. i \in I <=> ~Has(s, t) /\ \A u \in d[t] : Has(s, u)
      BY <1>4, <2>1
    <2>3. ASSUME Has(R, t) PROVE i \in I
      <3>1. PICK j \in 1 .. Len(R) : R[j] = t
        BY <2>3 DEF Has
      <3>2. at[j] \in I /\ at[j] \in 1 .. Len(L) /\ L[at[j]] = t
        BY <1>6, <3>1 DEF PlacedAt
      <3> QED BY <1>1, <2>1, <3>2
    <2>4. ASSUME i \in I PROVE Has(R, t)
      <3>1. PICK j \in 1 .. Len(R) : at[j] = i
        BY <1>6, <2>4 DEF PlacedAt
      <3>2. R[j] = t
        BY <1>6, <2>1, <3>1 DEF PlacedAt
      <3> QED BY <3>2 DEF Has
    <2> QED BY <2>2, <2>3, <2>4
  <1> QED BY <1>2, <1>5, <1>7, <1>8

\* A round appends tasks whose dependencies are in place.
LEMMA RoundOrdered ==
    ASSUME NEW d \in Dependencies, NEW s, Ordered(d, s)
    PROVE  /\ Ordered(d, s \o Ready(d, s))
           /\ Len(s \o Ready(d, s)) = Len(s) + Len(Ready(d, s))
           /\ Len(s) \in Nat /\ Len(Ready(d, s)) \in Nat
           /\ \A t \in Tasks : Has(s \o Ready(d, s), t) <=> Has(s, t) \/ Has(Ready(d, s), t)
  <1> DEFINE R == Ready(d, s)
             more == s \o R
  <1>1. /\ s \in Seq(Tasks) /\ Len(s) \in Nat
        /\ \A i, j \in 1 .. Len(s) : s[i] = s[j] => i = j
        /\ \A i \in 1 .. Len(s) : \A t \in d[s[i]] : \E j \in 1 .. i - 1 : s[j] = t
    BY DEF Ordered
  <1>2. /\ R \in Seq(Tasks) /\ Len(R) \in Nat
        /\ \A i, j \in 1 .. Len(R) : R[i] = R[j] => i = j
        /\ \A t \in Tasks : Has(R, t) <=> ~Has(s, t) /\ \A u \in d[t] : Has(s, u)
    BY <1>1, ReadyTasks
  <1> HIDE DEF R
  <1>3. /\ more \in Seq(Tasks) /\ Len(more) = Len(s) + Len(R)
        /\ \A i \in 1 .. Len(s) : more[i] = s[i]
        /\ \A i \in 1 .. Len(R) : more[Len(s) + i] = R[i]
    BY <1>1, <1>2
  <1> HIDE DEF more
  <1>4. \A i \in 1 .. Len(more) : i \in 1 .. Len(s) \/ \E k \in 1 .. Len(R) : i = Len(s) + k
    <2> TAKE i \in 1 .. Len(more)
    <2>1. i \notin 1 .. Len(s) => i - Len(s) \in 1 .. Len(R) /\ i = Len(s) + (i - Len(s))
      BY <1>1, <1>2, <1>3
    <2> QED BY <2>1
  <1>5. \A i \in 1 .. Len(R) : ~Has(s, R[i]) /\ \A u \in d[R[i]] : Has(s, u)
    <2> TAKE i \in 1 .. Len(R)
    <2>1. R[i] \in Tasks /\ Has(R, R[i])
      BY <1>2 DEF Has
    <2> QED BY <1>2, <2>1
  <1>6. \A i, j \in 1 .. Len(more) : more[i] = more[j] => i = j
    <2> SUFFICES ASSUME NEW i \in 1 .. Len(more), NEW j \in 1 .. Len(more), i < j,
                        more[i] = more[j]
                 PROVE  FALSE
      BY <1>1, <1>2, <1>3
    <2>1. CASE j \in 1 .. Len(s)
      <3>1. i \in 1 .. Len(s)
        BY <1>1, <2>1
      <3> QED BY <1>1, <1>3, <2>1, <3>1
    <2>2. CASE \E k \in 1 .. Len(R) : j = Len(s) + k
      <3>1. PICK k \in 1 .. Len(R) : j = Len(s) + k
        BY <2>2
      <3>2. more[j] = R[k] /\ ~Has(s, R[k])
        BY <1>3, <1>5, <3>1
      <3>3. CASE i \in 1 .. Len(s)
        BY <1>3, <3>2, <3>3 DEF Has
      <3>4. CASE \E m \in 1 .. Len(R) : i = Len(s) + m
        <4>1. PICK m \in 1 .. Len(R) : i = Len(s) + m
          BY <3>4
        <4>2. R[m] = R[k] /\ m # k
          BY <1>1, <1>3, <3>1, <3>2, <4>1
        <4> QED BY <1>2, <4>2
      <3> QED BY <1>4, <3>3, <3>4
    <2> QED BY <1>4, <2>1, <2>2
  <1>7. ASSUME NEW i \in 1 .. Len(more), NEW t \in d[more[i]]
        PROVE  \E j \in 1 .. i - 1 : more[j] = t
    <2>1. CASE i \in 1 .. Len(s)
      <3>1. PICK j \in 1 .. i - 1 : s[j] = t
        BY <1>1, <1>3, <1>7, <2>1
      <3>2. j \in 1 .. Len(s) /\ more[j] = t
        BY <1>1, <1>3, <2>1, <3>1
      <3> QED BY <3>1, <3>2
    <2>2. CASE \E k \in 1 .. Len(R) : i = Len(s) + k
      <3>1. PICK k \in 1 .. Len(R) : i = Len(s) + k
        BY <2>2
      <3>2. Has(s, t)
        BY <1>3, <1>5, <1>7, <3>1
      <3>3. PICK j \in 1 .. Len(s) : s[j] = t
        BY <3>2 DEF Has
      <3>4. j \in 1 .. i - 1 /\ more[j] = t
        BY <1>1, <1>3, <3>1, <3>3
      <3> QED BY <3>4
    <2> QED BY <1>4, <2>1, <2>2
  <1>8. ASSUME NEW t \in Tasks
        PROVE  Has(more, t) <=> Has(s, t) \/ Has(R, t)
    <2>1. ASSUME Has(more, t) PROVE Has(s, t) \/ Has(R, t)
      BY <1>3, <1>4, <2>1 DEF Has
    <2>2. ASSUME Has(s, t) PROVE Has(more, t)
      <3>1. PICK i \in 1 .. Len(s) : s[i] = t
        BY <2>2 DEF Has
      <3>2. i \in 1 .. Len(more) /\ more[i] = t
        BY <1>1, <1>2, <1>3, <3>1
      <3> QED BY <3>2 DEF Has
    <2>3. ASSUME Has(R, t) PROVE Has(more, t)
      <3>1. PICK i \in 1 .. Len(R) : R[i] = t
        BY <2>3 DEF Has
      <3>2. Len(s) + i \in 1 .. Len(more) /\ more[Len(s) + i] = t
        BY <1>1, <1>2, <1>3, <3>1
      <3> QED BY <3>2 DEF Has
    <2> QED BY <2>1, <2>2, <2>3
  <1>9. Ordered(d, more)
    BY <1>3, <1>6, <1>7 DEF Ordered
  <1> QED BY <1>1, <1>2, <1>3, <1>8, <1>9 DEF more, R

\* The rounds of the ordering.
Rounds(d, n, placed) ==
    placed = [i \in 0 .. n |-> IF i = 0 THEN <<>>
                                ELSE placed[i - 1] \o Ready(d, placed[i - 1])]

\* There are rounds, as many as one likes.
LEMMA RoundsExist ==
    ASSUME NEW d
    PROVE  \A n \in Nat : \E placed : Rounds(d, n, placed)
  <1> DEFINE T == {n \in Nat : \E placed : Rounds(d, n, placed)}
  <1>1. 0 \in T
    <2> DEFINE h == [i \in 0 .. 0 |-> <<>>]
    <2>1. Rounds(d, 0, h)
      BY DEF Rounds
    <2> QED BY <2>1
  <1>2. ASSUME NEW n \in T PROVE n + 1 \in T
    <2>1. PICK h : Rounds(d, n, h)
      OBVIOUS
    <2> DEFINE last == h[n] \o Ready(d, h[n])
               k == [i \in 0 .. n + 1 |-> IF i = n + 1 THEN last ELSE h[i]]
    <2>2. h = [i \in 0 .. n |-> IF i = 0 THEN <<>> ELSE h[i - 1] \o Ready(d, h[i - 1])]
      BY <2>1 DEF Rounds
    <2>3. \A i \in 0 .. n : h[i] = IF i = 0 THEN <<>> ELSE h[i - 1] \o Ready(d, h[i - 1])
      BY <2>2
    <2> HIDE DEF last
    <2>4. k[n + 1] = last /\ \A i \in 0 .. n : k[i] = h[i]
      OBVIOUS
    <2>5. k[n] = h[n] /\ last = k[n] \o Ready(d, k[n])
      BY <2>4 DEF last
    <2>6. k = [i \in 0 .. n + 1 |-> k[i]]
      OBVIOUS
    <2> HIDE DEF k
    <2>7. ASSUME NEW i \in 0 .. n + 1
          PROVE  k[i] = IF i = 0 THEN <<>> ELSE k[i - 1] \o Ready(d, k[i - 1])
      <3>1. CASE i = n + 1
        <4>1. i # 0 /\ i - 1 = n
          BY <3>1
        <4> QED BY <2>4, <2>5, <3>1, <4>1, Zenon
      <3>2. CASE i # n + 1
        <4>1. i \in 0 .. n /\ (i # 0 => i - 1 \in 0 .. n)
          BY <3>2
        <4>2. k[i] = h[i] /\ (i # 0 => k[i - 1] = h[i - 1])
          BY <2>4, <4>1
        <4> QED BY <2>3, <4>1, <4>2
      <3> QED BY <3>1, <3>2, Zenon
    <2>8. Rounds(d, n + 1, k)
      BY <2>6, <2>7 DEF Rounds
    <2> QED BY <2>8
  <1> HIDE DEF T
  <1>3. T = Nat
    BY <1>1, <1>2, AllNaturals DEF T
  <1> QED BY <1>3 DEF T

\* TaskList has each task once: there are as many as it is long, and tasks
\* without repetitions are all of them exactly if there are as many.
LEMMA AllWhenAsMany ==
    ASSUME NEW s \in Seq(Tasks), \A i, j \in 1 .. Len(s) : s[i] = s[j] => i = j
    PROVE  /\ Len(s) <= Len(TaskList)
           /\ Len(s) = Len(TaskList) <=> \A t \in Tasks : Has(s, t)
  <1>1. /\ TaskList \in Seq(Tasks) /\ Len(TaskList) \in Nat /\ Len(s) \in Nat
        /\ \A i, j \in 1 .. Len(TaskList) : TaskList[i] = TaskList[j] => i = j
        /\ \A t \in Tasks : \E i \in 1 .. Len(TaskList) : TaskList[i] = t
    BY ListedTasks
  <1>2. /\ IsFiniteSet(1 .. Len(TaskList)) /\ Cardinality(1 .. Len(TaskList)) = Len(TaskList)
        /\ IsFiniteSet(1 .. Len(s)) /\ Cardinality(1 .. Len(s)) = Len(s)
    <2>1. \A n \in Nat : /\ IsFiniteSet(1 .. n)
                         /\ Cardinality(1 .. n) = IF 1 > n THEN 0 ELSE n - 1 + 1
      BY FS_Interval
    <2>2. \A n \in Nat : (IF 1 > n THEN 0 ELSE n - 1 + 1) = n
      OBVIOUS
    <2> QED BY <1>1, <2>1, <2>2, Zenon
  <1>3. TaskList \in Bijection(1 .. Len(TaskList), Tasks)
    <2>1. TaskList \in [1 .. Len(TaskList) -> Tasks]
      BY <1>1
    <2> QED BY <1>1, <2>1 DEF Bijection, Injection, Surjection, IsInjective
  <1>4. IsFiniteSet(Tasks) /\ Cardinality(Tasks) = Len(TaskList)
    BY <1>2, <1>3, FS_Bijection DEF ExistsBijection
  <1>5. s \in Injection(1 .. Len(s), Tasks)
    <2>1. s \in [1 .. Len(s) -> Tasks]
      BY <1>1
    <2> QED BY <2>1 DEF Injection, IsInjective
  <1>6. s \in Surjection(1 .. Len(s), Tasks) <=> \A t \in Tasks : Has(s, t)
    BY <1>5 DEF Injection, Surjection, Has
  <1> QED BY <1>2, <1>4, <1>5, <1>6, FS_Injection

\* The order found is an order; and if it leaves tasks out, there are some that
\* all wait on one another: the rounds stop only when nothing is ready.
LEMMA OrderFound ==
    ASSUME NEW d \in Dependencies
    PROVE  /\ Ordered(d, TopologicalOrder(d))
           /\ \/ Len(TopologicalOrder(d)) = Len(TaskList)
              \/ \A t \in Tasks : ~Has(TopologicalOrder(d), t)
                       => \E u \in d[t] : ~Has(TopologicalOrder(d), u)
  <1> DEFINE N == Len(TaskList)
             placed == CHOOSE h : Rounds(d, N, h)
  <1>1. N \in Nat
    BY ListedTasks
  <1>2. \E h : Rounds(d, N, h)
    BY <1>1, RoundsExist, Zenon
  <1>3. Rounds(d, N, placed)
    BY <1>2
  <1>4. TopologicalOrder(d) = placed[N]
    BY Zenon DEF TopologicalOrder, Rounds
  <1> HIDE DEF placed, N
  <1>5. \A i \in 0 .. N : placed[i] = IF i = 0 THEN <<>>
                                      ELSE placed[i - 1] \o Ready(d, placed[i - 1])
    BY <1>3, Zenon DEF Rounds
  <1> DEFINE Done(i) == /\ Ordered(d, placed[i])
                        /\ Len(placed[i]) >= i \/ Len(Ready(d, placed[i])) = 0
             T == {i \in Nat : i \in 0 .. N => Done(i)}
  <1>6. 0 \in T
    <2>1. 0 \in 0 .. N
      BY <1>1
    <2>2. placed[0] = <<>>
      BY <1>5, <2>1
    <2>3. Done(0)
      BY <2>2 DEF Ordered
    <2> QED BY <2>3
  <1>7. ASSUME NEW i \in T PROVE i + 1 \in T
    <2> SUFFICES ASSUME i + 1 \in 0 .. N PROVE Done(i + 1)
      BY DEF T
    <2> DEFINE s == placed[i]
    <2>1. i \in Nat /\ i \in 0 .. N /\ i + 1 # 0 /\ (i + 1) - 1 = i
      BY <1>1
    <2>2. placed[i + 1] = s \o Ready(d, s)
      BY <1>5, <2>1
    <2>3. Done(i)
      BY <2>1
    <2> HIDE DEF s, T
    <2>4. /\ Ordered(d, s \o Ready(d, s)) /\ s \in Seq(Tasks)
          /\ Len(s \o Ready(d, s)) = Len(s) + Len(Ready(d, s))
          /\ Len(s) \in Nat /\ Len(Ready(d, s)) \in Nat /\ Ready(d, s) \in Seq(Tasks)
      BY <2>3, RoundOrdered, ReadyTasks DEF Ordered, s
    <2>5. CASE Len(Ready(d, s)) = 0
      <3>1. s \o Ready(d, s) = s
        BY <2>4, <2>5
      <3> QED BY <2>2, <2>3, <2>5, <3>1 DEF s
    <2>6. CASE Len(Ready(d, s)) # 0
      <3>1. Len(s) >= i
        BY <2>3, <2>6 DEF s
      <3>2. Len(placed[i + 1]) >= i + 1
        BY <2>1, <2>2, <2>4, <2>6, <3>1
      <3> QED BY <2>2, <2>4, <3>2
    <2> QED BY <2>5, <2>6
  <1> HIDE DEF T
  <1>8. T = Nat
    BY <1>6, <1>7, AllNaturals DEF T
  <1>9. Done(N)
    BY <1>1, <1>8 DEF T
  <1> DEFINE order_ == placed[N]
  <1>10. /\ order_ \in Seq(Tasks) /\ \A i, j \in 1 .. Len(order_) : order_[i] = order_[j] => i = j
    BY <1>9 DEF Ordered
  <1> HIDE DEF order_
  <1>11. Len(order_) <= N /\ Len(order_) \in Nat
    BY <1>10, AllWhenAsMany DEF N
  <1>12. CASE Len(order_) >= N
    BY <1>1, <1>4, <1>9, <1>11, <1>12 DEF order_, N
  <1>13. CASE Len(Ready(d, order_)) = 0
    <2>1. \A t \in Tasks : ~Has(Ready(d, order_), t)
      BY <1>13 DEF Has
    <2>2. \A t \in Tasks : ~Has(order_, t) => \E u \in d[t] : ~Has(order_, u)
      BY <1>10, <2>1, ReadyTasks
    <2> QED BY <1>4, <1>9, <2>2 DEF order_
  <1> QED BY <1>9, <1>12, <1>13 DEF order_

\* Tasks that all wait on one another.
Waits(d) == \E S \in (SUBSET Tasks) \ {{}} : \A t \in S : d[t] \cap S # {}

\* Plans are made of exactly the task graphs without such a set.
LEMMA PlansHaveNoCycle ==
    ASSUME NEW d \in Dependencies
    PROVE  IsPlan(d) <=> ~Waits(d)
  <1> DEFINE s == TopologicalOrder(d)
  <1>1. /\ Ordered(d, s)
        /\ \/ Len(s) = Len(TaskList)
           \/ \A t \in Tasks : ~Has(s, t) => \E u \in d[t] : ~Has(s, u)
    BY OrderFound
  <1>2. Len(s) = Len(TaskList) <=> \A t \in Tasks : Has(s, t)
    BY <1>1, AllWhenAsMany DEF Ordered
  <1> HIDE DEF s
  <1>3. \A t \in Tasks : d[t] \subseteq Tasks
    BY DEF Dependencies
  <1>4. ASSUME IsPlan(d), Waits(d) PROVE FALSE
    <2>1. PICK S \in (SUBSET Tasks) \ {{}} : \A t \in S : d[t] \cap S # {}
      BY <1>4 DEF Waits
    <2>2. \A t \in Tasks : Has(s, t)
      BY <1>2, <1>4 DEF IsPlan, s
    <2> DEFINE T == {i \in 1 .. Len(s) : s[i] \in S}
    <2>3. T \in SUBSET Nat /\ T # {}
      <3>1. PICK t \in S : t \in Tasks
        BY <2>1
      <3>2. PICK i \in 1 .. Len(s) : s[i] = t
        BY <2>2, <3>1 DEF Has
      <3> QED BY <3>2
    <2>4. PICK i \in T : \A j \in T : i <= j
      BY <2>3, LeastNatural
    <2>5. PICK t \in d[s[i]] : t \in S
      BY <2>1, <2>4
    <2>6. PICK j \in 1 .. i - 1 : s[j] = t
      BY <1>1, <2>4, <2>5 DEF Ordered
    <2>7. j \in T /\ j < i
      <3>1. i \in 1 .. Len(s) /\ Len(s) \in Nat
        BY <1>1, <2>4 DEF Ordered
      <3> QED BY <2>5, <2>6, <3>1
    <2>8. i \in Nat /\ j \in Nat /\ i <= j
      BY <2>3, <2>4, <2>7
    <2> QED BY <2>7, <2>8
  <1>5. ASSUME ~IsPlan(d) PROVE Waits(d)
    <2>1. CASE \E t \in Tasks : t \in d[t]
      <3>1. PICK t \in Tasks : t \in d[t]
        BY <2>1
      <3>2. {t} \in (SUBSET Tasks) \ {{}} /\ \A u \in {t} : d[u] \cap {t} # {}
        BY <3>1
      <3> QED BY <3>2 DEF Waits
    <2>2. CASE \A t \in Tasks : t \notin d[t]
      <3> DEFINE S == {t \in Tasks : ~Has(s, t)}
      <3>1. Len(s) # Len(TaskList)
        BY <1>3, <1>5, <2>2 DEF IsPlan, s
      <3>2. S \in (SUBSET Tasks) \ {{}}
        BY <1>2, <3>1
      <3>3. \A t \in S : d[t] \cap S # {}
        BY <1>1, <1>3, <3>1
      <3> QED BY <3>2, <3>3 DEF Waits
    <2> QED BY <2>1, <2>2
  <1> QED BY <1>4, <1>5

-----------------------------------------------------------------------------
(* Rows *)

Account == [calls : Nat, output : Nat, other : Nat]
WorkIds == Tasks \cup {Synthesis, None}
Outputs == [work : Tasks \cup {Synthesis}, good : BOOLEAN]
Refs == [digest : Outputs]
Verdicts == {"pass", "reject"}
ResultStates == {"contract_valid", "contract_rejected"}
Statuses == {"running", "completed", "rejected", "failed", "budget_exceeded"}
Stops == {"completed", "quality", "adapter", "record", "budget"}
Errors == {"execution_record_capacity_exceeded", "execution_budget_exceeded", "adapter_error",
           "task_accept_spec_rejected", "synthesis_accept_spec_rejected"}
Kinds == WorkEvents \cup {"run_rejected", "task_contract_evaluated", "synthesis_contract_evaluated",
                          "run_completed", "record_capacity_exceeded"}

EventRows ==
    [event : Kinds, work : WorkIds, usage : Usages \cup {None}, ref : Refs \cup {None},
     note : {None} \cup Verdicts \cup Statuses \cup Nat]
ResultRows ==
    [status : ResultStates, verdict : Verdicts, usage : Usages, ref : Refs, task : Tasks,
     output : Outputs \cup Refs, retention : {"inline", "digest_only"}]
SynthesisRows == [status : ResultStates, usage : Usages, ref : Refs]
RunRows ==
    [mode : {"solo"}, status : Statuses, stop : Stops \cup {None}, results : Seq(ResultRows),
     synthesis : SynthesisRows \cup {None}, output : Outputs \cup {None},
     verdict : Verdicts \cup {None}, usage : Account, limits : Limits,
     events : Seq(EventRows), error : Errors \cup {None}, complete : BOOLEAN]

\* The fields of a run.
LEMMA RunFields ==
    ASSUME NEW r \in RunRows
    PROVE  /\ r.mode = "solo" /\ r.status \in Statuses /\ r.stop \in Stops \cup {None}
           /\ r.results \in Seq(ResultRows) /\ r.synthesis \in SynthesisRows \cup {None}
           /\ r.output \in Outputs \cup {None} /\ r.verdict \in Verdicts \cup {None}
           /\ r.usage \in Account /\ r.limits \in Limits /\ r.events \in Seq(EventRows)
           /\ r.error \in Errors \cup {None} /\ r.complete \in BOOLEAN
  BY SMT DEF RunRows

\* Runs with one field changed.
LEMMA RunUpdates ==
    ASSUME NEW r \in RunRows
    PROVE  /\ \A x \in Statuses : [r EXCEPT !.status = x] \in RunRows
           /\ \A x \in Stops \cup {None} : [r EXCEPT !.stop = x] \in RunRows
           /\ \A x \in Errors \cup {None} : [r EXCEPT !.error = x] \in RunRows
           /\ \A x \in Seq(ResultRows) : [r EXCEPT !.results = x] \in RunRows
           /\ \A x \in Seq(EventRows) : [r EXCEPT !.events = x] \in RunRows
           /\ \A x \in Account : [r EXCEPT !.usage = x] \in RunRows
           /\ \A x \in BOOLEAN : [r EXCEPT !.complete = x] \in RunRows
           /\ \A x \in SynthesisRows \cup {None} : [r EXCEPT !.synthesis = x] \in RunRows
           /\ \A x \in Outputs \cup {None} : [r EXCEPT !.output = x] \in RunRows
           /\ \A x \in Verdicts \cup {None} : [r EXCEPT !.verdict = x] \in RunRows
  BY SMTT(30) DEF RunRows

-----------------------------------------------------------------------------
(* Events and ends of a run *)

\* The events execute notes as it goes along: plain ones, one with a note, one
\* with what the call used, and one with what it used and what it came to.
Noted(kind, work, x) == [Event(kind, work) EXCEPT !.note = x]
Billed(kind, work, u) == [Event(kind, work) EXCEPT !.usage = u]
Delivered(kind, work, u, ref) == [[Event(kind, work) EXCEPT !.ref = ref] EXCEPT !.usage = u]

\* They are event rows.
LEMMA EventTyped ==
    ASSUME NEW kind \in Kinds, NEW work \in WorkIds
    PROVE  /\ Event(kind, work) \in EventRows
           /\ Event(kind, work)
                 = [event |-> kind, work |-> work, usage |-> None, ref |-> None, note |-> None]
  BY SMTT(30) DEF EventRows, Event

\* So are those with a note.
LEMMA NotedTyped ==
    ASSUME NEW kind \in Kinds, NEW work \in WorkIds, NEW x \in Verdicts \cup Statuses \cup Nat
    PROVE  /\ Noted(kind, work, x) \in EventRows
           /\ Noted(kind, work, x)
                 = [event |-> kind, work |-> work, usage |-> None, ref |-> None, note |-> x]
  BY SMTT(30) DEF EventRows, Event, Noted

\* So are those that say what a call used and what it came to.
LEMMA BilledTyped ==
    ASSUME NEW kind \in Kinds, NEW work \in WorkIds, NEW u \in Usages
    PROVE  /\ Billed(kind, work, u) \in EventRows
           /\ Billed(kind, work, u)
                 = [event |-> kind, work |-> work, usage |-> u, ref |-> None, note |-> None]
           /\ \A ref \in Refs :
                 /\ Delivered(kind, work, u, ref) \in EventRows
                 /\ Delivered(kind, work, u, ref)
                       = [event |-> kind, work |-> work, usage |-> u, ref |-> ref, note |-> None]
  <1>1. Billed(kind, work, u)
            = [event |-> kind, work |-> work, usage |-> u, ref |-> None, note |-> None]
    BY DEF Event, Billed
  <1>2. Billed(kind, work, u) \in EventRows
    BY <1>1 DEF EventRows
  <1>3. ASSUME NEW ref \in Refs
        PROVE  /\ Delivered(kind, work, u, ref)
                     = [event |-> kind, work |-> work, usage |-> u, ref |-> ref, note |-> None]
               /\ Delivered(kind, work, u, ref) \in EventRows
    <2>1. Delivered(kind, work, u, ref)
             = [event |-> kind, work |-> work, usage |-> u, ref |-> ref, note |-> None]
      <3> DEFINE e == [Event(kind, work) EXCEPT !.ref = ref]
      <3>1. e = [event |-> kind, work |-> work, usage |-> None, ref |-> ref, note |-> None]
        BY DEF Event
      <3>2. Delivered(kind, work, u, ref) = [e EXCEPT !.usage = u]
        BY DEF Delivered
      <3> HIDE DEF e
      <3> QED BY <3>1, <3>2
    <2>2. Delivered(kind, work, u, ref) \in EventRows
      BY <2>1 DEF EventRows
    <2> QED BY <2>1, <2>2
  <1> QED BY <1>1, <1>2, <1>3

\* A run with other results.
WithResults(r, x) == [r EXCEPT !.results = x]

\* It is the run it was in all else.
LEMMA ResultsSet ==
    ASSUME NEW r \in RunRows, NEW x \in Seq(ResultRows)
    PROVE  /\ WithResults(r, x) \in RunRows /\ WithResults(r, x).results = x
           /\ \A f \in {"usage", "complete", "limits", "status", "stop", "events", "mode",
                         "error", "synthesis", "output", "verdict"} : WithResults(r, x)[f] = r[f]
  <1>1. WithResults(r, x) \in RunRows
    BY RunUpdates DEF WithResults
  <1>2. WithResults(r, x).results = x
    BY SMTT(30) DEF RunRows, WithResults
  <1>3. \A f \in {"usage", "complete", "limits", "status", "stop", "events", "mode",
                  "error", "synthesis", "output", "verdict"} : WithResults(r, x)[f] = r[f]
    BY SMTT(30) DEF RunRows, WithResults
  <1> QED BY <1>1, <1>2, <1>3

\* A run with a synthesis.
Synthesized(r, x, v, y) == [r EXCEPT !.output = x, !.verdict = v, !.synthesis = y]

\* It has the account, the trace and the results it had.
LEMMA SynthesisSet ==
    ASSUME NEW r \in RunRows, NEW x \in Outputs, NEW v \in Verdicts, NEW y \in SynthesisRows
    PROVE  /\ Synthesized(r, x, v, y) \in RunRows
           /\ Synthesized(r, x, v, y).output = x /\ Synthesized(r, x, v, y).verdict = v
           /\ Synthesized(r, x, v, y).synthesis = y
           /\ \A f \in {"usage", "complete", "limits", "status", "stop", "results", "events",
                         "mode", "error"} : Synthesized(r, x, v, y)[f] = r[f]
  <1> DEFINE q == Synthesized(r, x, v, y)
             r1 == [r EXCEPT !.output = x]
             r2 == [r1 EXCEPT !.verdict = v]
  <1>1. r1 \in RunRows
    BY RunUpdates
  <1>2. r2 \in RunRows
    BY <1>1, RunUpdates
  <1>3. [r2 EXCEPT !.synthesis = y] \in RunRows
    BY <1>2, RunUpdates
  <1>4. q = [r2 EXCEPT !.synthesis = y]
    BY DEF Synthesized
  <1>5. q \in RunRows
    BY <1>3, <1>4, Zenon
  <1>6. /\ q.output = x /\ q.verdict = v /\ q.synthesis = y
        /\ q.usage = r.usage /\ q.complete = r.complete /\ q.limits = r.limits
        /\ q.status = r.status /\ q.stop = r.stop /\ q.results = r.results
        /\ q.events = r.events /\ q.mode = r.mode /\ q.error = r.error
    BY SMTT(30) DEF RunRows, Synthesized
  <1> QED BY <1>5, <1>6

\* q has the account, the results and the state of r.
Kept(r, q) ==
    /\ q.mode = r.mode /\ q.status = r.status /\ q.stop = r.stop /\ q.error = r.error
    /\ q.synthesis = r.synthesis /\ q.output = r.output /\ q.verdict = r.verdict
    /\ q.results = r.results /\ q.limits = r.limits

\* An event is noted at the end of the trace.
LEMMA Logged ==
    ASSUME NEW r \in RunRows, NEW e \in EventRows
    PROVE  /\ Log(r, e) \in RunRows /\ Kept(r, Log(r, e))
           /\ Log(r, e).usage = r.usage /\ Log(r, e).complete = r.complete
           /\ Log(r, e).events = Append(r.events, e)
           /\ Len(Log(r, e).events) = Len(r.events) + 1 /\ Len(r.events) \in Nat
           /\ Log(r, e).events[Len(r.events) + 1] = e
           /\ \A i \in 1 .. Len(r.events) : Log(r, e).events[i] = r.events[i]
  <1>1. r.events \in Seq(EventRows) /\ Append(r.events, e) \in Seq(EventRows)
    BY RunFields
  <1>2. Log(r, e) \in RunRows
    BY <1>1, RunUpdates DEF Log
  <1>3. /\ Kept(r, Log(r, e)) /\ Log(r, e).events = Append(r.events, e)
        /\ Log(r, e).usage = r.usage /\ Log(r, e).complete = r.complete
    BY SMTT(30) DEF Kept, Log, RunRows
  <1> QED BY <1>1, <1>2, <1>3

\* An ended run.
Ended(b, status, stop, error) ==
    [b EXCEPT !.status = status, !.stop = stop, !.error = error]

\* An end sets the status, its reason and the error.
LEMMA EndedRow ==
    ASSUME NEW b \in RunRows, NEW status \in Statuses, NEW stop \in Stops,
           NEW error \in Errors \cup {None}
    PROVE  /\ Ended(b, status, stop, error) \in RunRows
           /\ Ended(b, status, stop, error).status = status
           /\ Ended(b, status, stop, error).stop = stop
           /\ Ended(b, status, stop, error).error = error
           /\ \A f \in {"mode", "synthesis", "output", "verdict", "results", "limits",
                         "events", "usage", "complete"} :
                  Ended(b, status, stop, error)[f] = b[f]
  <1>1. [b EXCEPT !.status = status] \in RunRows
    BY RunUpdates
  <1>2. [[b EXCEPT !.status = status] EXCEPT !.stop = stop] \in RunRows
    BY <1>1, RunUpdates
  <1>3. [[[b EXCEPT !.status = status] EXCEPT !.stop = stop] EXCEPT !.error = error] \in RunRows
    BY <1>2, RunUpdates
  <1>4. Ended(b, status, stop, error)
            = [[[b EXCEPT !.status = status] EXCEPT !.stop = stop] EXCEPT !.error = error]
    BY DEF Ended
  <1>5. Ended(b, status, stop, error) \in RunRows
    BY <1>3, <1>4
  <1> QED BY <1>5, SMTT(30) DEF Ended, RunRows

\* A result of which only the digest of its output is kept.
DigestOnly(result) == [result EXCEPT !.retention = "digest_only", !.output = result.ref]

\* Such results are result rows, of the same tasks, calls and verdicts.
LEMMA DigestRow ==
    ASSUME NEW result \in ResultRows
    PROVE  /\ DigestOnly(result) \in ResultRows
           /\ DigestOnly(result).retention = "digest_only"
           /\ DigestOnly(result).output = result.ref
           /\ \A f \in {"status", "verdict", "usage", "ref", "task"} :
                  DigestOnly(result)[f] = result[f]
  <1>1. result.ref \in Refs
    BY SMT DEF ResultRows
  <1> DEFINE r1 == [result EXCEPT !.retention = "digest_only"]
  <1>2. r1 \in ResultRows
    BY SMTT(30) DEF ResultRows
  <1>3. DigestOnly(result) = [r1 EXCEPT !.output = result.ref]
    BY DEF DigestOnly
  <1> HIDE DEF r1
  <1>4. ASSUME NEW x \in Refs PROVE [r1 EXCEPT !.output = x] \in ResultRows
    <2>1. x \in Outputs \cup Refs
      OBVIOUS
    <2> QED BY <1>2, <2>1, SMTT(30) DEF ResultRows
  <1>5. DigestOnly(result) \in ResultRows
    BY <1>1, <1>3, <1>4
  <1> QED BY <1>5, SMTT(30) DEF DigestOnly, ResultRows

\* A compact record has the account of the run, its trace and results without
\* outputs, and at the end of its trace what the run had come to.
LEMMA CompactRow ==
    ASSUME NEW b \in RunRows
    PROVE  /\ Compact(b) \in RunRows
           /\ Compact(b).mode = b.mode /\ Compact(b).usage = b.usage
           /\ Compact(b).limits = b.limits /\ Compact(b).complete = b.complete
           /\ Compact(b).status = "failed" /\ Compact(b).stop = "record"
           /\ Compact(b).error = "execution_record_capacity_exceeded"
           /\ Compact(b).synthesis = None /\ Compact(b).output = None
           /\ Compact(b).verdict = None
           /\ Compact(b).events
                 = Append(b.events, Noted("record_capacity_exceeded", None, b.status))
           /\ Compact(b).results = [i \in DOMAIN b.results |-> DigestOnly(b.results[i])]
  <1> DEFINE digests == [i \in DOMAIN b.results |-> DigestOnly(b.results[i])]
             e == Noted("record_capacity_exceeded", None, b.status)
             trace == Append(b.events, e)
  <1>1. b.results \in Seq(ResultRows) /\ b.events \in Seq(EventRows) /\ b.status \in Statuses
    BY RunFields
  <1>2. digests \in Seq(ResultRows)
    <2>1. \A i \in 1 .. Len(b.results) : DigestOnly(b.results[i]) \in ResultRows
      BY <1>1, DigestRow
    <2> QED BY <1>1, <2>1
  <1>3. e \in EventRows
    BY <1>1, NotedTyped DEF Kinds, WorkIds
  <1>4. trace \in Seq(EventRows)
    BY <1>1, <1>3
  <1>5. Compact(b) =
            [b EXCEPT !.status = "failed", !.stop = "record", !.results = digests,
                      !.synthesis = None, !.output = None, !.verdict = None,
                      !.events = trace, !.error = "execution_record_capacity_exceeded"]
    BY DEF Compact, DigestOnly, Noted
  <1> HIDE DEF digests, e, trace
  <1>6. /\ "failed" \in Statuses /\ "record" \in Stops \cup {None}
        /\ "execution_record_capacity_exceeded" \in Errors \cup {None}
    BY DEF Statuses, Stops, Errors
  <1> DEFINE b1 == [b EXCEPT !.status = "failed"]
             b2 == [b1 EXCEPT !.stop = "record"]
             b3 == [b2 EXCEPT !.results = digests]
             b4 == [b3 EXCEPT !.synthesis = None]
             b5 == [b4 EXCEPT !.output = None]
             b6 == [b5 EXCEPT !.verdict = None]
             b7 == [b6 EXCEPT !.events = trace]
             b8 == [b7 EXCEPT !.error = "execution_record_capacity_exceeded"]
  <1>7. Compact(b) = b8
    BY <1>5
  <1>8. b1 \in RunRows
    BY <1>6, RunUpdates
  <1>9. b2 \in RunRows
    BY <1>6, <1>8, RunUpdates
  <1>10. b3 \in RunRows
    BY <1>2, <1>9, RunUpdates
  <1>11. b4 \in RunRows
    BY <1>10, RunUpdates
  <1>12. b5 \in RunRows
    BY <1>11, RunUpdates
  <1>13. b6 \in RunRows
    BY <1>12, RunUpdates
  <1>14. b7 \in RunRows
    BY <1>4, <1>13, RunUpdates
  <1>15. b8 \in RunRows
    BY <1>6, <1>14, RunUpdates
  <1>16. Compact(b) \in RunRows
    BY <1>7, <1>15, Zenon
  <1> HIDE DEF b8
  <1>17. /\ Compact(b).mode = b.mode /\ Compact(b).usage = b.usage
         /\ Compact(b).limits = b.limits /\ Compact(b).complete = b.complete
         /\ Compact(b).status = "failed" /\ Compact(b).stop = "record"
         /\ Compact(b).error = "execution_record_capacity_exceeded"
         /\ Compact(b).synthesis = None /\ Compact(b).output = None
         /\ Compact(b).verdict = None
         /\ Compact(b).events = trace /\ Compact(b).results = digests
    BY <1>5, SMTT(30) DEF RunRows
  <1> QED BY <1>16, <1>17, Zenon DEF trace, e, digests

-----------------------------------------------------------------------------
(* The account of a run *)

Going == pc \in {"planning", "refused", "admission", "ready", "calling"}

\* The results of a run are those of the first tasks in order.
Followed(r, tasks) ==
    /\ Len(r.results) <= Len(tasks)
    /\ \A i \in 1 .. Len(r.results) : r.results[i].task = tasks[i]

\* What a run says it used, against what was billed.
BillFits(r, bill) ==
    /\ r.complete => r.usage = bill
    /\ \A d \in {"calls", "output", "other"} : r.usage[d] <= bill[d]
    /\ bill.calls - r.usage.calls <= 1

\* A run that can go on knows its bill and is within its limits.
Open(r, bill) ==
    /\ r.status = "running" /\ r.stop = None /\ r.complete
    /\ r.usage = bill /\ Exceeded(r.limits, r.usage) = {}

\* A run over its limits got there by the last thing it did.
Overran(r) ==
    Exceeded(r.limits, r.usage) # {} =>
        /\ Underlying(r) = "budget_exceeded"
        /\ \E i \in 1 .. Len(r.events) :
              /\ r.events[i].event = "backend_response_rejected"
              /\ \A j \in 1 .. Len(r.events) : r.events[j].event \in WorkEvents => j <= i

IInv ==
    /\ deps \in Dependencies /\ order \in Seq(Tasks) /\ run \in RunRows /\ billed \in Account
    /\ pc \in {"planning", "refused", "admission", "ready", "calling", "done", "raised"}
    /\ Followed(run, order)
    /\ pc = "planning" => order = <<>> /\ run.results = <<>>
    /\ pc = "refused" => ~IsPlan(deps)
    /\ pc \notin {"planning", "refused"} => IsPlan(deps)
    /\ Going => Open(run, billed)
    /\ ~Going => BillFits(run, billed) /\ Overran(run)

\* The work that comes next is a task as long as there is one.
LEMMA NextInOrder ==
    ASSUME order \in Seq(Tasks), run \in RunRows, Followed(run, order)
    PROVE  /\ NextWork \in Tasks \cup {Synthesis}
           /\ NextWork # Synthesis => /\ Len(run.results) + 1 <= Len(order)
                                      /\ NextWork = order[Len(run.results) + 1]
                                      /\ NextWork \in Tasks
           /\ NextWork = Synthesis => Len(run.results) = Len(order)
  <1>1. Len(order) \in Nat /\ Len(run.results) \in Nat /\ Synthesis \notin Tasks
    BY RunFields, TaskListAssumption
  <1>2. CASE Len(run.results) < Len(order)
    <2>1. order[Len(run.results) + 1] \in Tasks
      BY <1>1, <1>2
    <2> QED BY <1>1, <1>2, <2>1 DEF NextWork
  <1>3. CASE ~(Len(run.results) < Len(order))
    BY <1>1, <1>3 DEF NextWork, Followed
  <1> QED BY <1>2, <1>3

\* Whatever a run comes to: if it fits its bill, and is over its limits only by
\* its last answer, it does so when it has been finished, compacted or not.
LEMMA Finished ==
    ASSUME NEW b \in RunRows, NEW status \in Statuses, NEW stop \in Stops \ {"record"},
           NEW error \in Errors \cup {None}, NEW tasks \in Seq(Tasks), NEW bill,
           FinishAs(b, status, stop, error), Followed(b, tasks), BillFits(b, bill),
           \/ Exceeded(b.limits, b.usage) = {}
           \/ /\ status = "budget_exceeded" /\ b.events # <<>>
              /\ b.events[Len(b.events)].event = "backend_response_rejected"
    PROVE  /\ run' \in RunRows /\ pc' \in {"done", "raised"}
           /\ Followed(run', tasks) /\ BillFits(run', bill) /\ Overran(run')
  <1> DEFINE r == Ended(b, status, stop, error)
  <1>1. Finish(r)
    BY DEF FinishAs, Ended
  <1>2. /\ r \in RunRows /\ r.status = status /\ r.stop = stop
        /\ r.results = b.results /\ r.limits = b.limits /\ r.events = b.events
        /\ r.usage = b.usage /\ r.complete = b.complete
    BY EndedRow
  <1> HIDE DEF r
  <1>3. /\ r.events \in Seq(EventRows) /\ Len(r.events) \in Nat
        /\ r.results \in Seq(ResultRows) /\ Len(r.results) \in Nat
    BY <1>2, RunFields
  <1>4. Followed(r, tasks) /\ BillFits(r, bill)
    BY <1>2 DEF Followed, BillFits
  <1>5. ASSUME Exceeded(r.limits, r.usage) # {}
        PROVE  /\ r.status = "budget_exceeded" /\ Len(r.events) \in 1 .. Len(r.events)
               /\ r.events[Len(r.events)].event = "backend_response_rejected"
    BY <1>2, <1>3, <1>5
  <1>6. CASE run' = r /\ pc' = "done"
    <2>1. Underlying(r) = r.status
      BY <1>2 DEF Underlying, CapacityStop
    <2>2. Overran(r)
      BY <1>3, <1>5, <2>1 DEF Overran
    <2> QED BY <1>2, <1>4, <1>6, <2>2
  <1>7. CASE run' = Compact(r) /\ pc' \in {"done", "raised"}
    <2> DEFINE c == Compact(r)
               e == Noted("record_capacity_exceeded", None, r.status)
    <2>1. /\ c \in RunRows /\ c.usage = r.usage /\ c.limits = r.limits
          /\ c.complete = r.complete /\ c.status = "failed" /\ c.stop = "record"
          /\ c.events = Append(r.events, e)
          /\ c.results = [i \in DOMAIN r.results |-> DigestOnly(r.results[i])]
      BY <1>2, CompactRow, Zenon
    <2>2. /\ e \in EventRows /\ e.event = "record_capacity_exceeded" /\ e.note = r.status
      <3>1. /\ "record_capacity_exceeded" \in Kinds /\ None \in WorkIds
            /\ r.status \in Verdicts \cup Statuses \cup Nat
        BY <1>2 DEF Kinds, WorkIds
      <3>2. /\ e \in EventRows
            /\ e = [event |-> "record_capacity_exceeded", work |-> None, usage |-> None,
                    ref |-> None, note |-> r.status]
        BY <3>1, NotedTyped
      <3> QED BY <3>2
    <2> HIDE DEF c, e
    <2>3. /\ Len(c.events) = Len(r.events) + 1 /\ c.events[Len(r.events) + 1] = e
          /\ \A i \in 1 .. Len(r.events) : c.events[i] = r.events[i]
      BY <1>3, <2>1, <2>2
    <2>4. Underlying(c) = r.status
      <3>1. Last(c.events) = e
        BY <2>3 DEF Last
      <3> QED BY <2>1, <2>2, <3>1 DEF Underlying, CapacityStop
    <2>5. Overran(c)
      <3> SUFFICES ASSUME Exceeded(c.limits, c.usage) # {}
                   PROVE  \E i \in 1 .. Len(c.events) :
                            /\ c.events[i].event = "backend_response_rejected"
                            /\ \A j \in 1 .. Len(c.events) :
                                  c.events[j].event \in WorkEvents => j <= i
        BY <1>5, <2>1, <2>4 DEF Overran
      <3>1. /\ Len(r.events) \in 1 .. Len(r.events)
            /\ r.events[Len(r.events)].event = "backend_response_rejected"
        BY <1>5, <2>1
      <3>2. Len(r.events) \in 1 .. Len(c.events)
        BY <1>3, <2>3, <3>1
      <3>3. c.events[Len(r.events)].event = "backend_response_rejected"
        BY <2>3, <3>1
      <3>4. ASSUME NEW j \in 1 .. Len(c.events), c.events[j].event \in WorkEvents
            PROVE  j <= Len(r.events)
        <4>1. "record_capacity_exceeded" \notin WorkEvents
          BY DEF WorkEvents, Ends
        <4>2. j # Len(r.events) + 1
          BY <2>2, <2>3, <3>4, <4>1
        <4> QED BY <1>3, <2>3, <4>2
      <3> QED BY <3>2, <3>3, <3>4
    <2>6. Followed(c, tasks)
      <3>1. /\ DOMAIN c.results = 1 .. Len(r.results)
            /\ \A i \in 1 .. Len(r.results) : c.results[i] = DigestOnly(r.results[i])
        BY <1>3, <2>1
      <3>2. c.results \in Seq(ResultRows)
        BY <2>1, RunFields
      <3>3. Len(c.results) = Len(r.results)
        BY <1>3, <3>1, <3>2
      <3>4. \A i \in 1 .. Len(r.results) : c.results[i].task = r.results[i].task
        BY <1>3, <3>1, DigestRow
      <3> QED BY <1>4, <3>3, <3>4 DEF Followed
    <2>7. BillFits(c, bill)
      BY <1>4, <2>1 DEF BillFits
    <2> QED BY <1>7, <2>1, <2>5, <2>6, <2>7 DEF c
  <1> QED BY <1>1, <1>6, <1>7 DEF Finish

\* An answer is entered in the account and noted.
LEMMA AnsweredRow ==
    ASSUME run \in RunRows, NEW u \in Usages, NEW e, [e EXCEPT !.usage = u] \in EventRows
    PROVE  /\ Answered(u, e) \in RunRows /\ Kept(run, Answered(u, e))
           /\ Answered(u, e).usage = Plus(run.usage, u) /\ Plus(run.usage, u) \in Account
           /\ Answered(u, e).complete = run.complete
           /\ Answered(u, e).events = Append(run.events, [e EXCEPT !.usage = u])
  <1> DEFINE f == [e EXCEPT !.usage = u]
             l == Log(run, f)
  <1>1. /\ l \in RunRows /\ Kept(run, l) /\ l.usage = run.usage
        /\ l.complete = run.complete /\ l.events = Append(run.events, f)
    BY Logged, Zenon
  <1>2. Answered(u, e) = [l EXCEPT !.usage = Plus(run.usage, u)]
    BY <1>1 DEF Answered
  <1> HIDE DEF f, l
  <1>3. Plus(run.usage, u) \in Account
    BY RunFields, UsagesAssumption, SMTT(30) DEF Plus, Account
  <1>4. Answered(u, e) \in RunRows
    BY <1>1, <1>2, <1>3, RunUpdates
  <1>5. /\ Answered(u, e).usage = Plus(run.usage, u)
        /\ Answered(u, e).complete = l.complete /\ Answered(u, e).events = l.events
        /\ Kept(l, Answered(u, e))
    BY <1>1, <1>2, SMTT(30) DEF RunRows, Kept
  <1>6. Kept(run, Answered(u, e))
    BY <1>1, <1>5, SMTT(30) DEF Kept
  <1> QED BY <1>1, <1>3, <1>4, <1>5, <1>6 DEF f

\* A run starts open.
LEMMA InitIInv == Init => IInv
  <1> SUFFICES ASSUME Init PROVE IInv
    OBVIOUS
  <1>1. PICK request \in Requests : deps = request.deps /\ run = NewRun(request.limits)
    BY DEF Init
  <1>2. deps \in Dependencies /\ request.limits \in Limits
    BY <1>1, RequestsAssumption, SMTT(30) DEF Dependencies
  <1>3. /\ NoUsage \in Account /\ NoUsage.calls = 0 /\ NoUsage.output = 0 /\ NoUsage.other = 0
    BY DEF NoUsage, Account
  <1>4. run \in RunRows
    <2>1. <<>> \in Seq(ResultRows) /\ <<>> \in Seq(EventRows) /\ "running" \in Statuses
      BY DEF Statuses
    <2> QED BY <1>1, <1>2, <1>3, <2>1, SMTT(30) DEF NewRun, RunRows
  <1>5. /\ run.status = "running" /\ run.complete /\ run.usage = NoUsage /\ run.results = <<>>
        /\ run.limits = request.limits /\ run.stop = None
    BY <1>1 DEF NewRun
  <1>6. Exceeded(run.limits, run.usage) = {}
    BY <1>2, <1>3, <1>5, SMTT(30) DEF Exceeded, Limits
  <1>7. Open(run, billed)
    BY <1>5, <1>6 DEF Open, Init
  <1>8. Followed(run, order)
    BY <1>5 DEF Followed, Init
  <1> QED BY <1>2, <1>3, <1>4, <1>5, <1>7, <1>8 DEF IInv, Init, Going

\* While nothing is asked of the adapter the run stays open.
LEMMA PlanningKeeps ==
    ASSUME IInv, CreatePlan \/ RefusePlan \/ AdmitRun
    PROVE  IInv'
  <1>1. CASE CreatePlan
    <2>1. TopologicalOrder(deps) \in Seq(Tasks)
      BY OrderFound DEF IInv, Ordered
    <2>2. Followed(run, TopologicalOrder(deps))
      BY <1>1, <2>1 DEF IInv, Followed, CreatePlan
    <2>3. /\ order' = TopologicalOrder(deps) /\ run' = run /\ deps' = deps /\ billed' = billed
          /\ pc' = "admission" /\ IsPlan(deps) /\ pc = "planning"
      BY <1>1 DEF CreatePlan
    <2> QED BY <2>1, <2>2, <2>3 DEF IInv, Going
  <1>2. CASE RefusePlan
    BY <1>2 DEF IInv, Going, RefusePlan
  <1>3. CASE AdmitRun
    BY <1>3 DEF IInv, Going, AdmitRun
  <1> QED BY <1>1, <1>2, <1>3

\* An end of a run that fits its bill.
LEMMA EndKeeps ==
    ASSUME IInv, pc \notin {"planning", "refused"}, UNCHANGED <<deps, order>>,
           NEW b \in RunRows, NEW status \in Statuses, NEW stop \in Stops \ {"record"},
           NEW error \in Errors \cup {None}, FinishAs(b, status, stop, error),
           Followed(b, order), BillFits(b, billed'), billed' \in Account,
           \/ Exceeded(b.limits, b.usage) = {}
           \/ /\ status = "budget_exceeded" /\ b.events # <<>>
              /\ b.events[Len(b.events)].event = "backend_response_rejected"
    PROVE  IInv'
  <1>1. order \in Seq(Tasks)
    BY DEF IInv
  <1>2. /\ run' \in RunRows /\ pc' \in {"done", "raised"}
        /\ Followed(run', order) /\ BillFits(run', billed') /\ Overran(run')
    BY <1>1, Finished, Zenon
  <1> QED BY <1>2 DEF IInv, Going

\* What is logged between calls leaves the account alone.
LEMMA LogKeeps ==
    ASSUME IInv, Going, NEW e \in EventRows
    PROVE  /\ Log(run, e) \in RunRows /\ Followed(Log(run, e), order)
           /\ BillFits(Log(run, e), billed) /\ Open(Log(run, e), billed)
           /\ Exceeded(Log(run, e).limits, Log(run, e).usage) = {}
  <1>1. /\ run \in RunRows /\ Followed(run, order) /\ Open(run, billed) /\ billed \in Account
    BY DEF IInv
  <1> DEFINE l == Log(run, e)
  <1>2. l \in RunRows /\ Kept(run, l) /\ l.usage = run.usage /\ l.complete = run.complete
    BY <1>1, Logged, Zenon
  <1> HIDE DEF l
  <1>3. Followed(l, order) /\ Open(l, billed) /\ l.usage = billed
    BY <1>1, <1>2 DEF Kept, Followed, Open
  <1>4. BillFits(l, billed)
    BY <1>1, <1>3, SMTT(30) DEF BillFits, Account
  <1> QED BY <1>2, <1>3, <1>4 DEF l, Open

\* Steps between calls.
LEMMA WaitingKeeps ==
    ASSUME IInv, RejectRun \/ BlockCall \/ FailPreparation \/ StartCall
    PROVE  IInv'
  <1>1. /\ run \in RunRows /\ Followed(run, order) /\ order \in Seq(Tasks) /\ billed \in Account
        /\ pc \in {"admission", "ready"} /\ Going /\ UNCHANGED <<deps, order, billed>>
    BY DEF IInv, RejectRun, BlockCall, FailPreparation, StartCall, Going
  <1>2. NextWork \in Tasks \cup {Synthesis}
    BY <1>1, NextInOrder
  <1>3. NextWork \in WorkIds /\ None \in WorkIds
    BY <1>2 DEF WorkIds
  <1>4. {"run_rejected", "call_blocked", "call_preparation_failed", "backend_execution_started"}
            \subseteq Kinds
    BY DEF Kinds, WorkEvents
  <1>5. ASSUME NEW e \in EventRows, NEW status \in Statuses, NEW stop \in Stops \ {"record"},
               NEW error \in Errors \cup {None}, FinishAs(Log(run, e), status, stop, error)
        PROVE  IInv'
    <2>1. /\ Log(run, e) \in RunRows /\ Followed(Log(run, e), order)
          /\ BillFits(Log(run, e), billed)
          /\ Exceeded(Log(run, e).limits, Log(run, e).usage) = {}
      BY <1>1, LogKeeps
    <2>2. billed' = billed /\ pc \notin {"planning", "refused"}
      BY <1>1
    <2> HIDE DEF IInv
    <2> QED BY <1>1, <1>5, <2>1, <2>2, EndKeeps
  <1>6. /\ {"budget_exceeded", "failed"} \subseteq Statuses
        /\ {"budget", "adapter"} \subseteq Stops \ {"record"}
        /\ {"execution_budget_exceeded", "adapter_error"} \subseteq Errors
    BY DEF Statuses, Stops, Errors
  <1>7. CASE RejectRun
    <2>1. Event("run_rejected", None) \in EventRows
      BY <1>3, <1>4, EventTyped
    <2> QED BY <1>5, <1>6, <1>7, <2>1 DEF RejectRun, OutOfBudget
  <1>8. CASE BlockCall
    <2>1. Event("call_blocked", NextWork) \in EventRows
      BY <1>3, <1>4, EventTyped
    <2> QED BY <1>5, <1>6, <1>8, <2>1 DEF BlockCall, OutOfBudget
  <1>9. CASE FailPreparation
    <2>1. Event("call_preparation_failed", NextWork) \in EventRows
      BY <1>3, <1>4, EventTyped
    <2> QED BY <1>5, <1>6, <1>9, <2>1 DEF FailPreparation, Fails
  <1>10. CASE StartCall
    <2> DEFINE e == Event("backend_execution_started", NextWork)
    <2>1. e \in EventRows
      BY <1>3, <1>4, EventTyped
    <2>2. run' = Log(run, e) /\ pc' = "calling" /\ pc = "ready"
      BY <1>10 DEF StartCall
    <2>3. Log(run, e) \in RunRows /\ Followed(Log(run, e), order) /\ Open(Log(run, e), billed)
      BY <1>1, <2>1, LogKeeps
    <2> HIDE DEF e
    <2> QED BY <1>1, <2>2, <2>3 DEF IInv, Going
  <1> QED BY <1>7, <1>8, <1>9, <1>10

\* A bill of one more call.
LEMMA PlusGrows ==
    ASSUME NEW total \in Account, NEW u \in Usages
    PROVE  /\ Plus(total, u) \in Account
           /\ \A d \in {"calls", "output", "other"} : total[d] <= Plus(total, u)[d]
           /\ Plus(total, u).calls = total.calls + 1
  BY UsagesAssumption, SMTT(30) DEF Plus, Account

\* A call that failed may have been billed.
LEMMA FailureKeeps ==
    ASSUME IInv, CallFailed
    PROVE  IInv'
  <1>1. /\ run \in RunRows /\ Followed(run, order) /\ order \in Seq(Tasks) /\ billed \in Account
        /\ pc = "calling" /\ UNCHANGED <<deps, order>> /\ Open(run, billed)
    BY DEF IInv, CallFailed, Going
  <1>2. NextWork \in WorkIds
    BY <1>1, NextInOrder DEF WorkIds
  <1> DEFINE e == Event("backend_execution_failed", NextWork)
             l == Log(run, e)
             b == Failed(run, NextWork)
  <1>3. e \in EventRows
    BY <1>2, EventTyped DEF Kinds, WorkEvents, Ends
  <1>4. l \in RunRows /\ Kept(run, l) /\ l.usage = run.usage
    BY <1>1, <1>3, Logged, Zenon
  <1>5. b = [l EXCEPT !.complete = FALSE]
    BY DEF Failed
  <1>6. Fails(b)
    BY DEF CallFailed
  <1> HIDE DEF e, l, b
  <1>7. b \in RunRows
    BY <1>4, <1>5, RunUpdates
  <1>8. b.complete = FALSE /\ Kept(l, b) /\ b.usage = l.usage
    BY <1>4, <1>5, SMTT(30) DEF RunRows, Kept
  <1>9. /\ b.usage = billed /\ b.results = run.results /\ b.limits = run.limits
        /\ Exceeded(b.limits, b.usage) = {}
    BY <1>1, <1>4, <1>8, SMTT(30) DEF Kept, Open
  <1>10. /\ billed' \in Account /\ billed'.calls - billed.calls <= 1
         /\ \A d \in {"calls", "output", "other"} : billed[d] <= billed'[d]
    <2>1. CASE UNCHANGED billed
      BY <1>1, <2>1, SMTT(30) DEF Account
    <2>2. CASE \E u \in Usages : billed' = Plus(billed, u)
      <3>1. PICK u \in Usages : billed' = Plus(billed, u)
        BY <2>2
      <3>2. /\ billed' \in Account /\ billed'.calls = billed.calls + 1
            /\ \A d \in {"calls", "output", "other"} : billed[d] <= billed'[d]
        BY <1>1, <3>1, PlusGrows
      <3> QED BY <1>1, <3>2, SMTT(30) DEF Account
    <2> QED BY <2>1, <2>2 DEF CallFailed
  <1>11. BillFits(b, billed') /\ Followed(b, order)
    BY <1>1, <1>8, <1>9, <1>10 DEF BillFits, Followed
  <1>12. FinishAs(b, "failed", "adapter", "adapter_error")
    BY <1>6 DEF Fails
  <1>13. /\ "failed" \in Statuses /\ "adapter" \in Stops \ {"record"}
         /\ "adapter_error" \in Errors \cup {None} /\ pc \notin {"planning", "refused"}
    BY <1>1 DEF Statuses, Stops, Errors
  <1> HIDE DEF IInv
  <1> QED BY <1>1, <1>7, <1>9, <1>10, <1>11, <1>12, <1>13, EndKeeps

\* What is entered for an answer is what is billed for it.
LEMMA EnteredFits ==
    ASSUME IInv, pc = "calling", NEW u \in Usages, NEW e, [e EXCEPT !.usage = u] \in EventRows
    PROVE  /\ Answered(u, e) \in RunRows /\ Followed(Answered(u, e), order)
           /\ BillFits(Answered(u, e), Plus(billed, u)) /\ Plus(billed, u) \in Account
           /\ Kept(run, Answered(u, e))
           /\ Answered(u, e).usage = Plus(billed, u) /\ Answered(u, e).complete
           /\ Answered(u, e).events = Append(run.events, [e EXCEPT !.usage = u])
           /\ ~Over(u) => Exceeded(Answered(u, e).limits, Answered(u, e).usage) = {}
  <1>1. /\ run \in RunRows /\ Followed(run, order) /\ order \in Seq(Tasks) /\ billed \in Account
        /\ Open(run, billed)
    BY DEF IInv, Going
  <1> DEFINE a == Answered(u, e)
  <1>2. /\ a \in RunRows /\ Kept(run, a) /\ a.usage = Plus(run.usage, u)
        /\ a.complete = run.complete /\ Plus(run.usage, u) \in Account
        /\ a.events = Append(run.events, [e EXCEPT !.usage = u])
    BY <1>1, AnsweredRow, Zenon
  <1> HIDE DEF a
  <1>3. a.usage = Plus(billed, u) /\ a.complete /\ a.limits = run.limits /\ Followed(a, order)
    BY <1>1, <1>2 DEF Open, Kept, Followed
  <1>4. BillFits(a, Plus(billed, u))
    BY <1>1, <1>2, <1>3, SMTT(30) DEF BillFits, Account, Open
  <1>5. ~Over(u) => Exceeded(a.limits, a.usage) = {}
    BY <1>2, <1>3 DEF Over
  <1>6. Plus(billed, u) \in Account
    BY <1>1, PlusGrows
  <1> QED BY <1>2, <1>3, <1>4, <1>5, <1>6 DEF a

\* An answer that is refused is paid for; only one that overran is the run's end
\* for its budget.
LEMMA RefusalKeeps ==
    ASSUME IInv, NEW u \in Usages, RejectOverrun(u) \/ RejectAnswer(u)
    PROVE  IInv'
  <1>1. /\ run \in RunRows /\ Followed(run, order) /\ order \in Seq(Tasks)
        /\ pc = "calling" /\ UNCHANGED <<deps, order>> /\ billed' = Plus(billed, u)
    BY DEF IInv, RejectOverrun, RejectAnswer
  <1>2. NextWork \in WorkIds
    BY <1>1, NextInOrder DEF WorkIds
  <1>3. ASSUME NEW kind \in {"backend_response_rejected", "backend_response_invalid",
                             "backend_response_incomplete"},
               NEW status \in Statuses, NEW stop \in Stops \ {"record"},
               NEW error \in Errors \cup {None},
               FinishAs(Answered(u, Event(kind, NextWork)), status, stop, error),
               ~Over(u) \/ (status = "budget_exceeded" /\ kind = "backend_response_rejected")
        PROVE  IInv'
    <2> DEFINE a == Answered(u, Event(kind, NextWork))
               e == Billed(kind, NextWork, u)
    <2>1. kind \in Kinds
      BY DEF Kinds, WorkEvents, Ends
    <2>2. e \in EventRows /\ e.event = kind
      BY <1>2, <2>1, BilledTyped
    <2>3. [Event(kind, NextWork) EXCEPT !.usage = u] = e
      BY DEF Billed
    <2>4. [Event(kind, NextWork) EXCEPT !.usage = u] \in EventRows
      BY <2>2, <2>3, Zenon
    <2>5. /\ a \in RunRows /\ Followed(a, order)
          /\ BillFits(a, Plus(billed, u)) /\ Plus(billed, u) \in Account
          /\ a.events = Append(run.events, [Event(kind, NextWork) EXCEPT !.usage = u])
          /\ ~Over(u) => Exceeded(a.limits, a.usage) = {}
      BY <1>1, <2>4, EnteredFits, Zenon
    <2>6. a.events = Append(run.events, e)
      BY <2>3, <2>5, Zenon
    <2> HIDE DEF a, e
    <2>7. a.events # <<>> /\ a.events[Len(a.events)].event = kind
      <3>1. run.events \in Seq(EventRows)
        BY <1>1, RunFields
      <3> QED BY <2>2, <2>6, <3>1
    <2>8. \/ Exceeded(a.limits, a.usage) = {}
          \/ /\ status = "budget_exceeded" /\ a.events # <<>>
             /\ a.events[Len(a.events)].event = "backend_response_rejected"
      BY <1>3, <2>5, <2>7
    <2>9. FinishAs(a, status, stop, error)
      BY <1>3 DEF a
    <2>10. BillFits(a, billed') /\ billed' \in Account /\ pc \notin {"planning", "refused"}
      BY <1>1, <2>5
    <2> HIDE DEF IInv
    <2> QED BY <1>1, <2>5, <2>8, <2>9, <2>10, EndKeeps
  <1>4. /\ {"budget_exceeded", "failed"} \subseteq Statuses
        /\ {"budget", "adapter"} \subseteq Stops \ {"record"}
        /\ {"execution_budget_exceeded", "adapter_error"} \subseteq Errors
    BY DEF Statuses, Stops, Errors
  <1>5. CASE RejectOverrun(u)
    BY <1>3, <1>4, <1>5 DEF RejectOverrun, OutOfBudget
  <1>6. CASE RejectAnswer(u)
    <2>1. PICK kind \in {"backend_response_invalid", "backend_response_incomplete"} :
              Fails(Answered(u, Event(kind, NextWork)))
      BY <1>6 DEF RejectAnswer
    <2>2. FinishAs(Answered(u, Event(kind, NextWork)), "failed", "adapter", "adapter_error")
      BY <2>1 DEF Fails
    <2>3. ~Over(u)
      BY <1>6 DEF RejectAnswer
    <2> QED BY <1>3, <1>4, <2>2, <2>3
  <1> QED BY <1>5, <1>6

\* An answer that is evaluated.
LEMMA CompletedFits ==
    ASSUME IInv, pc = "calling", NEW u \in Usages, NEW good \in BOOLEAN, ~Over(u),
           NEW evaluation \in {"task_contract_evaluated", "synthesis_contract_evaluated"}
    PROVE  LET c == Completed(u, good, evaluation)
               output == [work |-> NextWork, good |-> good]
           IN /\ c \in RunRows /\ Kept(run, c) /\ c.usage = Plus(billed, u) /\ c.complete
              /\ Exceeded(c.limits, c.usage) = {}
              /\ output \in Outputs /\ Digest(output) \in Refs /\ Evaluate(output) \in Verdicts
              /\ c.events = Append(Append(run.events,
                       Delivered("backend_execution_completed", NextWork, u, Digest(output))),
                    Noted(evaluation, NextWork, Evaluate(output)))
  <1>1. /\ run \in RunRows /\ Followed(run, order) /\ order \in Seq(Tasks)
    BY DEF IInv
  <1>2. NextWork \in WorkIds /\ NextWork \in Tasks \cup {Synthesis}
    BY <1>1, NextInOrder DEF WorkIds
  <1> DEFINE output == [work |-> NextWork, good |-> good]
             kind == "backend_execution_completed"
             done == [Event(kind, NextWork) EXCEPT !.ref = Digest(output)]
             e == Delivered(kind, NextWork, u, Digest(output))
             v == Noted(evaluation, NextWork, Evaluate(output))
             a == Answered(u, done)
             c == Completed(u, good, evaluation)
  <1>3. output \in Outputs /\ output.good = good
    BY <1>2 DEF Outputs
  <1>4. Evaluate(output) \in Verdicts
    BY DEF Evaluate, Verdicts
  <1> HIDE DEF output
  <1>5. Digest(output) \in Refs
    BY <1>3 DEF Refs, Digest
  <1>6. kind \in Kinds /\ evaluation \in Kinds
    BY DEF Kinds, WorkEvents, Ends
  <1>7. e \in EventRows
    BY <1>2, <1>5, <1>6, BilledTyped
  <1>8. v \in EventRows
    BY <1>2, <1>4, <1>6, NotedTyped
  <1>9. [done EXCEPT !.usage = u] = e
    BY DEF Delivered
  <1>10. c = Log(a, v)
    BY DEF Completed, Noted, output
  <1> HIDE DEF done, e, v, c
  <1>11. [done EXCEPT !.usage = u] \in EventRows
    BY <1>7, <1>9, Zenon
  <1>12. /\ a \in RunRows /\ Kept(run, a) /\ a.usage = Plus(billed, u) /\ a.complete
         /\ a.events = Append(run.events, [done EXCEPT !.usage = u])
         /\ ~Over(u) => Exceeded(a.limits, a.usage) = {}
    BY <1>11, EnteredFits, Zenon
  <1>13. a.events = Append(run.events, e)
    BY <1>9, <1>12, Zenon
  <1> HIDE DEF a
  <1>14. /\ c \in RunRows /\ Kept(a, c) /\ c.usage = a.usage /\ c.complete = a.complete
         /\ c.events = Append(a.events, v)
    BY <1>8, <1>10, <1>12, Logged, Zenon
  <1>15. Kept(run, c) /\ c.limits = a.limits
    BY <1>12, <1>14 DEF Kept
  <1>16. /\ c.usage = Plus(billed, u) /\ c.complete /\ Exceeded(c.limits, c.usage) = {}
         /\ c.events = Append(Append(run.events, e), v)
    BY <1>12, <1>13, <1>14, <1>15
  <1> QED BY <1>3, <1>4, <1>5, <1>14, <1>15, <1>16 DEF c, e, v, output

\* The result of a task that was answered.
LEMMA ResultRow ==
    ASSUME NEW u \in Usages, NEW good \in BOOLEAN, NextWork \in Tasks
    PROVE  LET output == [work |-> NextWork, good |-> good]
           IN /\ Result(u, good) \in ResultRows
              /\ Result(u, good) = [status |-> StatusOf(good), verdict |-> Evaluate(output),
                                    usage |-> u, ref |-> Digest(output), task |-> NextWork,
                                    output |-> output, retention |-> "inline"]
  <1> DEFINE output == [work |-> NextWork, good |-> good]
             r == Result(u, good)
  <1>1. output \in Outputs
    BY DEF Outputs
  <1>2. Evaluate(output) \in Verdicts /\ StatusOf(good) \in ResultStates
    BY DEF Evaluate, Verdicts, StatusOf, ResultStates
  <1>3. r = [status |-> StatusOf(good), verdict |-> Evaluate(output),
             usage |-> u, ref |-> Digest(output), task |-> NextWork,
             output |-> output, retention |-> "inline"]
    BY DEF Result
  <1> HIDE DEF output
  <1>4. Digest(output) \in Refs /\ output \in Outputs \cup Refs
    BY <1>1 DEF Refs, Digest
  <1> HIDE DEF r
  <1>5. r \in ResultRows
    BY <1>2, <1>3, <1>4 DEF ResultRows
  <1> QED BY <1>3, <1>5 DEF r, output

\* A task that was answered adds its result, the next in order.
LEMMA TaskKeeps ==
    ASSUME IInv, NEW u \in Usages, NEW good \in BOOLEAN, CompleteTask(u, good)
    PROVE  IInv'
  <1>1. /\ run \in RunRows /\ Followed(run, order) /\ order \in Seq(Tasks)
        /\ pc = "calling" /\ UNCHANGED <<deps, order>> /\ billed' = Plus(billed, u)
        /\ ~Over(u) /\ NextWork # Synthesis /\ billed \in Account /\ Open(run, billed)
    BY DEF IInv, CompleteTask, Going
  <1>2. /\ Len(run.results) + 1 <= Len(order) /\ NextWork = order[Len(run.results) + 1]
        /\ NextWork \in Tasks
    BY <1>1, NextInOrder
  <1> DEFINE c == Completed(u, good, "task_contract_evaluated")
             added == Append(c.results, Result(u, good))
             r == [c EXCEPT !.results = added]
  <1>3. /\ c \in RunRows /\ Kept(run, c) /\ c.usage = Plus(billed, u) /\ c.complete
        /\ Exceeded(c.limits, c.usage) = {}
    BY <1>1, CompletedFits
  <1>4. Result(u, good) \in ResultRows /\ Result(u, good).task = NextWork
    <2>1. Result(u, good) \in ResultRows
      BY <1>2, ResultRow
    <2> QED BY <2>1 DEF Result
  <1>5. /\ \/ ~good /\ FinishAs(r, "rejected", "quality", "task_accept_spec_rejected")
           \/ /\ good /\ Len(r.results) < Len(order)
              /\ Fails(Log(r, Event("call_preparation_failed", Synthesis)))
           \/ good /\ run' = r /\ pc' = "ready"
    BY DEF CompleteTask
  <1> HIDE DEF c
  <1>6. c.results = run.results /\ run.results \in Seq(ResultRows)
    BY <1>1, <1>3, RunFields DEF Kept
  <1>7. /\ added \in Seq(ResultRows) /\ Len(added) = Len(run.results) + 1
        /\ Len(run.results) \in Nat /\ added[Len(run.results) + 1] = Result(u, good)
        /\ \A i \in 1 .. Len(run.results) : added[i] = run.results[i]
    BY <1>4, <1>6
  <1> HIDE DEF added
  <1>8. /\ r \in RunRows /\ r.results = added /\ r.usage = c.usage /\ r.complete = c.complete
        /\ r.limits = c.limits /\ r.status = c.status /\ r.stop = c.stop /\ r.events = c.events
    <2>1. r = WithResults(c, added) /\ c \in RunRows /\ added \in Seq(ResultRows)
      BY <1>3, <1>7 DEF WithResults
    <2> HIDE DEF r
    <2>2. /\ r \in RunRows /\ r.results = added
          /\ \A f \in {"usage", "complete", "limits", "status", "stop", "events", "mode",
                        "error", "synthesis", "output", "verdict"} : r[f] = c[f]
      BY <2>1, ResultsSet
    <2> QED BY <2>2
  <1> HIDE DEF r
  <1>9. Followed(r, order)
    <2>1. \A i \in 1 .. Len(run.results) : run.results[i].task = order[i]
      BY <1>1 DEF Followed
    <2>2. Len(r.results) = Len(run.results) + 1 /\ Len(r.results) <= Len(order)
      BY <1>2, <1>7, <1>8
    <2>3. \A i \in 1 .. Len(run.results) : r.results[i].task = order[i]
      BY <1>7, <1>8, <2>1
    <2>4. r.results[Len(run.results) + 1].task = order[Len(run.results) + 1]
      BY <1>2, <1>4, <1>7, <1>8
    <2>5. \A i \in 1 .. Len(r.results) :
             i \in 1 .. Len(run.results) \/ i = Len(run.results) + 1
      BY <1>7, <2>2
    <2> QED BY <2>2, <2>3, <2>4, <2>5 DEF Followed
  <1>10. Open(r, Plus(billed, u))
    <2>1. run.status = "running" /\ run.stop = None
      BY <1>1 DEF Open
    <2>2. c.status = "running" /\ c.stop = None
      BY <1>3, <2>1 DEF Kept
    <2> QED BY <1>3, <1>8, <2>2 DEF Open
  <1>11. Plus(billed, u) \in Account
    BY <1>1, PlusGrows
  <1>12. BillFits(r, billed') /\ billed' \in Account
    BY <1>1, <1>10, <1>11, SMTT(30) DEF BillFits, Account, Open
  <1>13. Exceeded(r.limits, r.usage) = {} /\ pc \notin {"planning", "refused"}
    BY <1>1, <1>10 DEF Open
  <1>14. CASE FinishAs(r, "rejected", "quality", "task_accept_spec_rejected")
    <2>1. /\ "rejected" \in Statuses /\ "quality" \in Stops \ {"record"}
          /\ "task_accept_spec_rejected" \in Errors \cup {None}
      BY DEF Statuses, Stops, Errors
    <2> HIDE DEF IInv
    <2> QED BY <1>1, <1>8, <1>9, <1>12, <1>13, <1>14, <2>1, EndKeeps
  <1>15. CASE Fails(Log(r, Event("call_preparation_failed", Synthesis)))
    <2> DEFINE e == Event("call_preparation_failed", Synthesis)
               l == Log(r, e)
    <2>1. e \in EventRows
      BY EventTyped DEF Kinds, WorkEvents, WorkIds
    <2>2. l \in RunRows /\ Kept(r, l) /\ l.usage = r.usage /\ l.complete = r.complete
      BY <1>8, <2>1, Logged, Zenon
    <2>3. FinishAs(l, "failed", "adapter", "adapter_error")
      BY <1>15 DEF Fails
    <2> HIDE DEF e, l
    <2>4. Followed(l, order) /\ BillFits(l, billed') /\ Exceeded(l.limits, l.usage) = {}
      BY <1>9, <1>12, <1>13, <2>2 DEF Kept, Followed, BillFits
    <2>5. /\ "failed" \in Statuses /\ "adapter" \in Stops \ {"record"}
          /\ "adapter_error" \in Errors \cup {None}
      BY DEF Statuses, Stops, Errors
    <2> HIDE DEF IInv
    <2> QED BY <1>1, <1>12, <1>13, <2>2, <2>3, <2>4, <2>5, EndKeeps
  <1>16. CASE run' = r /\ pc' = "ready"
    BY <1>1, <1>8, <1>9, <1>10, <1>11, <1>16 DEF IInv, Going
  <1> QED BY <1>5, <1>14, <1>15, <1>16

\* A synthesis that was answered is the run's last call.
LEMMA SynthesisKeeps ==
    ASSUME IInv, NEW u \in Usages, NEW good \in BOOLEAN, CompleteSynthesis(u, good)
    PROVE  IInv'
  <1>1. /\ run \in RunRows /\ Followed(run, order) /\ order \in Seq(Tasks)
        /\ pc = "calling" /\ UNCHANGED <<deps, order>> /\ billed' = Plus(billed, u)
        /\ ~Over(u) /\ NextWork = Synthesis /\ billed \in Account /\ Open(run, billed)
    BY DEF IInv, CompleteSynthesis, Going
  <1> DEFINE output == [work |-> Synthesis, good |-> good]
             c == Completed(u, good, "synthesis_contract_evaluated")
             verdict == Evaluate(output)
             synthesis == [status |-> StatusOf(good), usage |-> u, ref |-> Digest(output)]
             r == [c EXCEPT !.output = output, !.verdict = verdict, !.synthesis = synthesis]
             e == Noted("run_completed", None, Len(run.results))
  <1>2. /\ c \in RunRows /\ Kept(run, c) /\ c.usage = Plus(billed, u) /\ c.complete
        /\ Exceeded(c.limits, c.usage) = {}
        /\ output \in Outputs /\ Digest(output) \in Refs /\ verdict \in Verdicts
    BY <1>1, CompletedFits
  <1>3. synthesis \in SynthesisRows
    BY <1>2 DEF SynthesisRows, StatusOf, ResultStates
  <1>4. /\ \/ FinishAs(r, "rejected", "quality", "synthesis_accept_spec_rejected")
           \/ FinishAs(Log(r, e), "completed", "completed", None)
    BY DEF CompleteSynthesis, Noted
  <1> HIDE DEF output, c, verdict, synthesis, e
  <1>5. r = Synthesized(c, output, verdict, synthesis)
    BY DEF Synthesized
  <1> HIDE DEF r
  <1>8. r \in RunRows
    BY <1>2, <1>3, <1>5, SynthesisSet
  <1>9. /\ r.usage = c.usage /\ r.limits = c.limits /\ r.complete = c.complete
        /\ r.results = c.results
    <2>1. \A f \in {"usage", "complete", "limits", "status", "stop", "results", "events",
                     "mode", "error"} : Synthesized(c, output, verdict, synthesis)[f] = c[f]
      <3>1. c \in RunRows /\ output \in Outputs /\ verdict \in Verdicts
            /\ synthesis \in SynthesisRows
        BY <1>2, <1>3
      <3> QED BY <3>1, SynthesisSet
    <2> QED BY <1>5, <2>1
  <1>10. Plus(billed, u) \in Account
    BY <1>1, PlusGrows
  <1>11. /\ Followed(r, order) /\ BillFits(r, billed') /\ billed' \in Account
         /\ Exceeded(r.limits, r.usage) = {} /\ pc \notin {"planning", "refused"}
    BY <1>1, <1>2, <1>9, <1>10, SMTT(30) DEF Followed, BillFits, Account, Kept
  <1>12. CASE FinishAs(r, "rejected", "quality", "synthesis_accept_spec_rejected")
    <2>1. /\ "rejected" \in Statuses /\ "quality" \in Stops \ {"record"}
          /\ "synthesis_accept_spec_rejected" \in Errors \cup {None}
      BY DEF Statuses, Stops, Errors
    <2> HIDE DEF IInv
    <2> QED BY <1>1, <1>8, <1>11, <1>12, <2>1, EndKeeps
  <1>13. CASE FinishAs(Log(r, e), "completed", "completed", None)
    <2> DEFINE l == Log(r, e)
    <2>1. e \in EventRows
      <3>1. Len(run.results) \in Nat
        BY <1>1, RunFields
      <3> QED BY <3>1, NotedTyped DEF Kinds, WorkIds, e
    <2>2. l \in RunRows /\ Kept(r, l) /\ l.usage = r.usage /\ l.complete = r.complete
      BY <1>8, <2>1, Logged, Zenon
    <2>3. FinishAs(l, "completed", "completed", None)
      BY <1>13
    <2> HIDE DEF l
    <2>4. Followed(l, order) /\ BillFits(l, billed') /\ Exceeded(l.limits, l.usage) = {}
      BY <1>11, <2>2 DEF Kept, Followed, BillFits
    <2>5. /\ "completed" \in Statuses /\ "completed" \in Stops \ {"record"}
          /\ None \in Errors \cup {None}
      BY DEF Statuses, Stops
    <2> HIDE DEF IInv
    <2> QED BY <1>1, <1>11, <2>2, <2>3, <2>4, <2>5, EndKeeps
  <1> QED BY <1>4, <1>12, <1>13

\* Every step keeps the account.
LEMMA NextIInv == IInv /\ [Next]_vars => IInv'
  <1> SUFFICES ASSUME IInv, [Next]_vars PROVE IInv'
    OBVIOUS
  <1>1. CASE CreatePlan \/ RefusePlan \/ AdmitRun
    BY <1>1, PlanningKeeps
  <1>2. CASE RejectRun \/ BlockCall \/ FailPreparation \/ StartCall
    BY <1>2, WaitingKeeps
  <1>3. CASE CallFailed
    BY <1>3, FailureKeeps
  <1>4. CASE \E u \in Usages : Answer(u)
    <2>1. PICK u \in Usages : Answer(u)
      BY <1>4
    <2>2. CASE RejectOverrun(u) \/ RejectAnswer(u)
      BY <2>2, RefusalKeeps
    <2>3. CASE \E good \in BOOLEAN : CompleteTask(u, good) \/ CompleteSynthesis(u, good)
      <3>1. PICK good \in BOOLEAN : CompleteTask(u, good) \/ CompleteSynthesis(u, good)
        BY <2>3
      <3>2. CASE CompleteTask(u, good)
        BY <3>2, TaskKeeps
      <3>3. CASE CompleteSynthesis(u, good)
        BY <3>3, SynthesisKeeps
      <3> QED BY <3>1, <3>2, <3>3
    <2> QED BY <2>1, <2>2, <2>3 DEF Answer
  <1>5. CASE UNCHANGED vars
    BY <1>5 DEF IInv, vars, Going
  <1> QED BY <1>1, <1>2, <1>3, <1>4, <1>5 DEF Next

-----------------------------------------------------------------------------
(* What a trace shows *)

\* The events of some kinds, the works they name, and where one is.
Chosen(ev, kinds) == Picked(ev, {i \in DOMAIN ev : ev[i].event \in kinds})
WorksOf(ev, kinds) == Works(Chosen(ev, kinds))
Spots(ev, kind, w) == {i \in DOMAIN ev : ev[i].event = kind /\ ev[i].work = w}

\* One event more is chosen, or not.
LEMMA ChosenAppend ==
    ASSUME NEW ev \in Seq(EventRows), NEW e \in EventRows, NEW kinds
    PROVE  /\ Chosen(ev, kinds) \in Seq(EventRows)
           /\ Chosen(Append(ev, e), kinds)
                 = IF e.event \in kinds THEN Append(Chosen(ev, kinds), e) ELSE Chosen(ev, kinds)
  <1> DEFINE more == Append(ev, e)
             I == {i \in DOMAIN more : more[i].event \in kinds}
             J == {i \in DOMAIN ev : ev[i].event \in kinds}
  <1>1. /\ Len(ev) \in Nat /\ DOMAIN ev = 1 .. Len(ev) /\ DOMAIN more = 1 .. Len(ev) + 1
        /\ more[Len(ev) + 1] = e /\ \A i \in 1 .. Len(ev) : more[i] = ev[i]
    OBVIOUS
  <1>2. \A i \in 1 .. Len(ev) : i \in I <=> i \in J
    BY <1>1
  <1>3. Len(ev) + 1 \in I <=> e.event \in kinds
    BY <1>1
  <1> HIDE DEF I, J
  <1>4. Picked(Append(ev, e), I)
           = IF Len(ev) + 1 \in I THEN Append(Picked(ev, J), e) ELSE Picked(ev, J)
    BY <1>2, PickedAppend
  <1>5. Picked(ev, J) \in Seq(EventRows)
    BY PickedType
  <1> QED BY <1>3, <1>4, <1>5 DEF Chosen, I, J

\* No event is chosen from none.
LEMMA ChosenNone ==
    ASSUME NEW kinds
    PROVE  Chosen(<<>>, kinds) = <<>>
  <1>1. <<>> \in Seq(EventRows)
    OBVIOUS
  <1> QED BY <1>1, PickedType DEF Chosen

\* Works along a sequence of events.
LEMMA WorksAppend ==
    ASSUME NEW s \in Seq(EventRows), NEW e \in EventRows
    PROVE  /\ Works(s) \in Seq(WorkIds) /\ Len(Works(s)) = Len(s)
           /\ Works(Append(s, e)) = Append(Works(s), e.work)
  <1>1. \A i \in 1 .. Len(s) : s[i] \in EventRows
    OBVIOUS
  <1>2. \A x \in EventRows : x.work \in WorkIds
    BY DEF EventRows
  <1>3. DOMAIN s = 1 .. Len(s) /\ Len(s) \in Nat
    OBVIOUS
  <1>4. Works(s) \in Seq(WorkIds) /\ Len(Works(s)) = Len(s)
    BY <1>1, <1>2, <1>3 DEF Works
  <1> DEFINE t == Append(s, e)
  <1>5. /\ DOMAIN t = 1 .. Len(s) + 1 /\ t[Len(s) + 1] = e
        /\ \A i \in 1 .. Len(s) : t[i] = s[i]
    BY <1>3
  <1> HIDE DEF t
  <1>6. Works(t) = [i \in 1 .. Len(s) + 1 |-> t[i].work]
    BY <1>5 DEF Works
  <1>7. \A i \in 1 .. Len(s) + 1 : t[i].work = Append(Works(s), e.work)[i]
    BY <1>3, <1>4, <1>5 DEF Works
  <1>8. /\ Append(Works(s), e.work) = [i \in 1 .. Len(s) + 1 |-> Append(Works(s), e.work)[i]]
    BY <1>3, <1>4
  <1>9. Works(t) = Append(Works(s), e.work)
    BY <1>6, <1>7, <1>8
  <1> QED BY <1>4, <1>9 DEF t

\* The works of a trace with one event more.
LEMMA WorksOfAppend ==
    ASSUME NEW ev \in Seq(EventRows), NEW e \in EventRows, NEW kinds
    PROVE  /\ WorksOf(ev, kinds) \in Seq(WorkIds)
           /\ WorksOf(Append(ev, e), kinds)
                 = IF e.event \in kinds THEN Append(WorksOf(ev, kinds), e.work)
                   ELSE WorksOf(ev, kinds)
  <1> DEFINE c == Chosen(ev, kinds)
  <1>1. /\ c \in Seq(EventRows)
        /\ Chosen(Append(ev, e), kinds) = IF e.event \in kinds THEN Append(c, e) ELSE c
    BY ChosenAppend
  <1> HIDE DEF c
  <1>2. Works(c) \in Seq(WorkIds) /\ Works(Append(c, e)) = Append(Works(c), e.work)
    BY <1>1, WorksAppend
  <1> QED BY <1>1, <1>2 DEF WorksOf, c

\* Where works are in a trace with one event more.
LEMMA SpotsAppend ==
    ASSUME NEW ev \in Seq(EventRows), NEW e \in EventRows, NEW kind, NEW w
    PROVE  /\ Spots(ev, kind, w) \subseteq 1 .. Len(ev)
           /\ Spots(Append(ev, e), kind, w)
                 = Spots(ev, kind, w)
                      \cup IF e.event = kind /\ e.work = w THEN {Len(ev) + 1} ELSE {}
  <1>1. /\ DOMAIN ev = 1 .. Len(ev) /\ Len(ev) \in Nat
        /\ DOMAIN Append(ev, e) = 1 .. Len(ev) + 1 /\ Append(ev, e)[Len(ev) + 1] = e
        /\ \A i \in 1 .. Len(ev) : Append(ev, e)[i] = ev[i]
    OBVIOUS
  <1> QED BY <1>1 DEF Spots

\* The places in f are those in ev, and place for events of kind one about v.
GrownAt(ev, f, one, v, place) ==
    \A kind, w :
        /\ kind = one /\ w = v => Spots(f, kind, w) = Spots(ev, kind, w) \cup {place}
        /\ ~(kind = one /\ w = v) => Spots(f, kind, w) = Spots(ev, kind, w)

\* So it is with one event more.
LEMMA SpotsGrow ==
    ASSUME NEW ev \in Seq(EventRows), NEW e \in EventRows
    PROVE  GrownAt(ev, Append(ev, e), e.event, e.work, Len(ev) + 1)
  <1> DEFINE f == Append(ev, e)
  <1>1. \A kind, w : Spots(f, kind, w)
            = Spots(ev, kind, w) \cup IF e.event = kind /\ e.work = w THEN {Len(ev) + 1} ELSE {}
    BY SpotsAppend
  <1> HIDE DEF f
  <1>2. ASSUME NEW kind, NEW w
        PROVE  /\ kind = e.event /\ w = e.work
                      => Spots(f, kind, w) = Spots(ev, kind, w) \cup {Len(ev) + 1}
               /\ ~(kind = e.event /\ w = e.work) => Spots(f, kind, w) = Spots(ev, kind, w)
    <2>1. Spots(f, kind, w)
            = Spots(ev, kind, w) \cup IF e.event = kind /\ e.work = w THEN {Len(ev) + 1} ELSE {}
      BY <1>1
    <2>2. CASE kind = e.event /\ w = e.work
      BY <2>1, <2>2
    <2>3. CASE ~(kind = e.event /\ w = e.work)
      BY <2>1, <2>3
    <2> QED BY <2>2, <2>3
  <1> QED BY <1>2, Zenon DEF GrownAt, f

\* The sum along a sequence of events.
Adds(s, n, total) ==
    total = [i \in 0 .. n |-> IF i = 0 THEN NoUsage ELSE Plus(total[i - 1], s[i].usage)]

\* It exists for every prefix.
LEMMA SumsExist ==
    ASSUME NEW s
    PROVE  \A n \in Nat : \E total : Adds(s, n, total)
  <1> DEFINE T == {n \in Nat : \E total : Adds(s, n, total)}
  <1>1. 0 \in T
    <2> DEFINE h == [i \in 0 .. 0 |-> NoUsage]
    <2>1. Adds(s, 0, h)
      BY DEF Adds
    <2> QED BY <2>1
  <1>2. ASSUME NEW n \in T PROVE n + 1 \in T
    <2>1. PICK h : Adds(s, n, h)
      OBVIOUS
    <2> DEFINE last == Plus(h[n], s[n + 1].usage)
               k == [i \in 0 .. n + 1 |-> IF i = n + 1 THEN last ELSE h[i]]
    <2>2. h = [i \in 0 .. n |-> IF i = 0 THEN NoUsage ELSE Plus(h[i - 1], s[i].usage)]
      BY <2>1 DEF Adds
    <2>3. \A i \in 0 .. n : h[i] = IF i = 0 THEN NoUsage ELSE Plus(h[i - 1], s[i].usage)
      BY <2>2
    <2> HIDE DEF last
    <2>4. k[n + 1] = last /\ \A i \in 0 .. n : k[i] = h[i]
      OBVIOUS
    <2>5. k[n] = h[n] /\ last = Plus(k[n], s[n + 1].usage)
      BY <2>4 DEF last
    <2>6. k = [i \in 0 .. n + 1 |-> k[i]]
      OBVIOUS
    <2> HIDE DEF k
    <2>7. ASSUME NEW i \in 0 .. n + 1
          PROVE  k[i] = IF i = 0 THEN NoUsage ELSE Plus(k[i - 1], s[i].usage)
      <3>1. CASE i = n + 1
        BY <2>4, <2>5, <3>1
      <3>2. CASE i # n + 1
        <4>1. i \in 0 .. n /\ (i # 0 => i - 1 \in 0 .. n)
          BY <3>2
        <4>2. k[i] = h[i] /\ (i # 0 => k[i - 1] = h[i - 1])
          BY <2>4, <4>1
        <4> QED BY <2>3, <4>1, <4>2
      <3> QED BY <3>1, <3>2
    <2>8. Adds(s, n + 1, k)
      BY <2>6, <2>7 DEF Adds
    <2> QED BY <2>8
  <1> HIDE DEF T
  <1>3. T = Nat
    BY <1>1, <1>2, AllNaturals DEF T
  <1> QED BY <1>3 DEF T

\* Step by step it is what Spent says.
LEMMA SpentStepwise ==
    ASSUME NEW s, Len(s) \in Nat
    PROVE  \E total : /\ Spent(s) = total[Len(s)] /\ total[0] = NoUsage
                      /\ \A i \in 1 .. Len(s) : total[i] = Plus(total[i - 1], s[i].usage)
  <1> DEFINE f == CHOOSE total : Adds(s, Len(s), total)
  <1>1. Adds(s, Len(s), f)
    BY SumsExist
  <1>2. Spent(s) = f[Len(s)]
    BY DEF Spent, Adds
  <1> HIDE DEF f
  <1>3. f = [i \in 0 .. Len(s) |-> IF i = 0 THEN NoUsage ELSE Plus(f[i - 1], s[i].usage)]
    BY <1>1 DEF Adds
  <1>4. \A i \in 0 .. Len(s) : f[i] = IF i = 0 THEN NoUsage ELSE Plus(f[i - 1], s[i].usage)
    BY <1>3
  <1>5. f[0] = NoUsage /\ \A i \in 1 .. Len(s) : f[i] = Plus(f[i - 1], s[i].usage)
    BY <1>4
  <1> QED BY <1>2, <1>5

\* An event more adds its usage.
LEMMA SpentAppend ==
    ASSUME NEW s \in Seq(EventRows), NEW e \in EventRows
    PROVE  Spent(Append(s, e)) = Plus(Spent(s), e.usage) /\ Spent(<<>>) = NoUsage
  <1> DEFINE t == Append(s, e)
  <1>1. /\ Len(s) \in Nat /\ Len(t) = Len(s) + 1 /\ t[Len(s) + 1] = e
        /\ \A i \in 1 .. Len(s) : t[i] = s[i]
    OBVIOUS
  <1> HIDE DEF t
  <1>2. PICK f : /\ Spent(s) = f[Len(s)] /\ f[0] = NoUsage
                 /\ \A i \in 1 .. Len(s) : f[i] = Plus(f[i - 1], s[i].usage)
    BY <1>1, SpentStepwise
  <1>3. PICK g : /\ Spent(t) = g[Len(t)] /\ g[0] = NoUsage
                 /\ \A i \in 1 .. Len(t) : g[i] = Plus(g[i - 1], t[i].usage)
    <2>1. Len(t) \in Nat
      BY <1>1
    <2> QED BY <2>1, SpentStepwise
  <1> DEFINE T == {n \in Nat : n \in 0 .. Len(s) => f[n] = g[n]}
  <1>4. 0 \in T
    BY <1>2, <1>3
  <1>5. ASSUME NEW n \in T PROVE n + 1 \in T
    <2> SUFFICES ASSUME n + 1 \in 0 .. Len(s) PROVE f[n + 1] = g[n + 1]
      OBVIOUS
    <2>1. n \in 0 .. Len(s) /\ n + 1 \in 1 .. Len(s) /\ n + 1 \in 1 .. Len(t) /\ (n + 1) - 1 = n
      BY <1>1
    <2>2. f[n] = g[n] /\ t[n + 1] = s[n + 1]
      BY <1>1, <2>1
    <2> QED BY <1>2, <1>3, <2>1, <2>2
  <1> HIDE DEF T
  <1>6. T = Nat
    BY <1>4, <1>5, AllNaturals DEF T
  <1>7. f[Len(s)] = g[Len(s)]
    BY <1>1, <1>6 DEF T
  <1>8. g[Len(t)] = Plus(g[Len(s)], e.usage)
    <2>1. Len(t) \in 1 .. Len(t) /\ Len(t) - 1 = Len(s)
      BY <1>1
    <2> QED BY <1>1, <1>3, <2>1
  <1>9. Spent(<<>>) = NoUsage
    <2>1. Len(<<>>) = 0
      OBVIOUS
    <2> QED BY <2>1, SpentStepwise
  <1> QED BY <1>2, <1>3, <1>7, <1>8, <1>9 DEF t

-----------------------------------------------------------------------------
(* The shape of a trace *)

PlanWorks == Tasks \cup {Synthesis}
Misses == Ends \ {"backend_execution_completed"}
Telling == Ends \cup {"backend_execution_started", "task_contract_evaluated",
                      "synthesis_contract_evaluated"}

\* A task done takes three events; the places of w among those of the tasks done.
Turns(done, w, m) == {3 * k - m : k \in {j \in 1 .. Len(done) : done[j] = w}}
If(holds, place) == IF holds THEN {place} ELSE {}
Then(done, w) == IF w = None THEN done ELSE Append(done, w)

\* What a trace shows of a run in which the tasks in done were completed and
\* evaluated, and then called was called, ended and answered, if not None: the
\* works of its calls, and where it has a work.
WorksShape(ev, done, called, ended, answered) ==
    /\ WorksOf(ev, {"backend_execution_started"}) = Then(done, called)
    /\ WorksOf(ev, Ends) = Then(done, ended)
    /\ WorksOf(ev, {"backend_execution_completed"}) = Then(done, answered)
    /\ WorksOf(ev, {"task_contract_evaluated"}) = done
    /\ WorksOf(ev, {"synthesis_contract_evaluated"}) = Then(<<>>, answered)

SpotsShape(ev, w, done, called, ended, answered) ==
    LET n == Len(done) IN
    /\ Spots(ev, "backend_execution_started", w) = Turns(done, w, 2) \cup If(w = called, 3 * n + 1)
    /\ Spots(ev, "backend_execution_completed", w)
          = Turns(done, w, 1) \cup If(w = answered, 3 * n + 2)
    /\ Spots(ev, "task_contract_evaluated", w) = Turns(done, w, 0)
    /\ Spots(ev, "synthesis_contract_evaluated", w) = If(w = answered, 3 * n + 3)
    /\ \A kind \in Misses :
          Spots(ev, kind, w) \subseteq If(w = ended /\ answered = None, 3 * n + 2)

Traced(ev, done, called, ended, answered) ==
    /\ ev \in Seq(EventRows) /\ Len(ev) >= 3 * Len(done)
    /\ WorksShape(ev, done, called, ended, answered)
    /\ \A w \in PlanWorks : SpotsShape(ev, w, done, called, ended, answered)

\* One task more.
LEMMA TurnsAppend ==
    ASSUME NEW done \in Seq(Tasks), NEW t \in Tasks, NEW w, NEW m \in 0 .. 2
    PROVE  Turns(Append(done, t), w, m)
               = Turns(done, w, m) \cup If(w = t, 3 * Len(done) + 3 - m)
  <1>1. /\ Len(done) \in Nat /\ Len(Append(done, t)) = Len(done) + 1
        /\ Append(done, t)[Len(done) + 1] = t
        /\ \A i \in 1 .. Len(done) : Append(done, t)[i] = done[i]
    OBVIOUS
  <1> DEFINE J == {j \in 1 .. Len(Append(done, t)) : Append(done, t)[j] = w}
             K == {j \in 1 .. Len(done) : done[j] = w}
  <1>2. J = K \cup If(w = t, Len(done) + 1)
    BY <1>1 DEF If
  <1> HIDE DEF J, K
  <1>3. {3 * k - m : k \in J} = {3 * k - m : k \in K} \cup If(w = t, 3 * (Len(done) + 1) - m)
    BY <1>2 DEF If
  <1>4. 3 * (Len(done) + 1) - m = 3 * Len(done) + 3 - m
    BY <1>1
  <1> QED BY <1>3, <1>4 DEF Turns, J, K

\* Events of other kinds leave the shape as it is.
LEMMA TracedOther ==
    ASSUME NEW ev, NEW done, Len(done) \in Nat, NEW called, NEW ended, NEW answered,
           Traced(ev, done, called, ended, answered), NEW e \in EventRows, e.event \notin Telling
    PROVE  Traced(Append(ev, e), done, called, ended, answered)
  <1> DEFINE f == Append(ev, e)
  <1>1. ev \in Seq(EventRows) /\ f \in Seq(EventRows) /\ Len(f) >= 3 * Len(done)
    BY DEF Traced
  <1>2. ASSUME NEW kinds \in SUBSET Telling PROVE WorksOf(f, kinds) = WorksOf(ev, kinds)
    BY <1>1, WorksOfAppend
  <1>3. ASSUME NEW kind \in Telling, NEW w PROVE Spots(f, kind, w) = Spots(ev, kind, w)
    <2>1. GrownAt(ev, f, e.event, e.work, Len(ev) + 1)
      BY <1>1, SpotsGrow
    <2>2. kind # e.event
      OBVIOUS
    <2> QED BY <2>1, <2>2, Zenon DEF GrownAt
  <1>4. /\ {"backend_execution_started"} \subseteq Telling /\ Ends \subseteq Telling
        /\ {"backend_execution_completed"} \subseteq Telling
        /\ {"task_contract_evaluated"} \subseteq Telling
        /\ {"synthesis_contract_evaluated"} \subseteq Telling /\ Misses \subseteq Telling
    BY DEF Telling, Ends, Misses
  <1> HIDE DEF f
  <1>5. WorksShape(f, done, called, ended, answered)
    BY <1>2, <1>4 DEF Traced, WorksShape
  <1>6. ASSUME NEW w \in PlanWorks PROVE SpotsShape(f, w, done, called, ended, answered)
    <2>1. SpotsShape(ev, w, done, called, ended, answered)
      BY DEF Traced
    <2>2. /\ Spots(f, "backend_execution_started", w) = Spots(ev, "backend_execution_started", w)
          /\ Spots(f, "backend_execution_completed", w)
                = Spots(ev, "backend_execution_completed", w)
          /\ Spots(f, "task_contract_evaluated", w) = Spots(ev, "task_contract_evaluated", w)
          /\ Spots(f, "synthesis_contract_evaluated", w)
                = Spots(ev, "synthesis_contract_evaluated", w)
          /\ \A kind \in Misses : Spots(f, kind, w) = Spots(ev, kind, w)
      BY <1>3, <1>4
    <2> QED BY <2>1, <2>2 DEF SpotsShape
  <1> QED BY <1>1, <1>5, <1>6 DEF Traced, f

\* The kinds that matter to the shape are different kinds.
LEMMA KindsApart ==
    /\ Misses \cup {"backend_execution_completed"} = Ends
    /\ "backend_execution_completed" \notin Misses
    /\ "backend_execution_started" \notin Ends /\ "backend_execution_started" \notin Misses
    /\ "task_contract_evaluated" \notin Ends /\ "task_contract_evaluated" \notin Misses
    /\ "synthesis_contract_evaluated" \notin Ends
    /\ "synthesis_contract_evaluated" \notin Misses
    /\ \A w \in PlanWorks : w # None
  <1>1. \A w \in PlanWorks : w # None
    BY NoneAssumption DEF PlanWorks
  <1> QED BY <1>1 DEF Ends, Misses

\* Where a work is while a call is called, or none, and nothing came of it yet.
IdleShape(ev, w, done, starts) ==
    /\ Spots(ev, "backend_execution_started", w) = starts
    /\ Spots(ev, "backend_execution_completed", w) = Turns(done, w, 1)
    /\ Spots(ev, "task_contract_evaluated", w) = Turns(done, w, 0)
    /\ Spots(ev, "synthesis_contract_evaluated", w) = {}
    /\ \A kind \in Misses : Spots(ev, kind, w) = {}

\* It is the shape of such a trace.
LEMMA IdleSpots ==
    ASSUME NEW ev, NEW done, NEW w \in PlanWorks
    PROVE  /\ \A called : SpotsShape(ev, w, done, called, None, None)
                 <=> IdleShape(ev, w, done,
                               Turns(done, w, 2) \cup If(w = called, 3 * Len(done) + 1))
           /\ SpotsShape(ev, w, done, None, None, None)
                 <=> IdleShape(ev, w, done, Turns(done, w, 2))
  <1>1. w # None
    BY KindsApart
  <1>2. /\ If(w = None, 3 * Len(done) + 1) = {} /\ If(w = None, 3 * Len(done) + 2) = {}
        /\ If(w = None, 3 * Len(done) + 3) = {}
        /\ If(w = None /\ None = None, 3 * Len(done) + 2) = {}
    BY <1>1 DEF If
  <1>3. ASSUME NEW called
        PROVE  SpotsShape(ev, w, done, called, None, None)
                 <=> IdleShape(ev, w, done,
                               Turns(done, w, 2) \cup If(w = called, 3 * Len(done) + 1))
    BY <1>2 DEF SpotsShape, IdleShape
  <1>4. Turns(done, w, 2) \cup If(w = None, 3 * Len(done) + 1) = Turns(done, w, 2)
    BY <1>2
  <1> QED BY <1>3, <1>4

\* A call is started.
LEMMA TracedStart ==
    ASSUME NEW ev, NEW done \in Seq(Tasks), Traced(ev, done, None, None, None),
           Len(ev) = 3 * Len(done), NEW w \in PlanWorks, NEW e \in EventRows,
           e.event = "backend_execution_started", e.work = w
    PROVE  /\ Traced(Append(ev, e), done, w, None, None)
           /\ Len(Append(ev, e)) = 3 * Len(done) + 1
  <1> DEFINE f == Append(ev, e)
             n == Len(done)
  <1>1. ev \in Seq(EventRows) /\ f \in Seq(EventRows) /\ Len(f) = 3 * n + 1 /\ n \in Nat
    BY DEF Traced
  <1>2. \A kinds : WorksOf(f, kinds) = IF "backend_execution_started" \in kinds
                                       THEN Append(WorksOf(ev, kinds), w) ELSE WorksOf(ev, kinds)
    BY <1>1, WorksOfAppend
  <1>3. GrownAt(ev, f, "backend_execution_started", w, 3 * n + 1)
    <2>1. 3 * n + 1 = Len(ev) + 1
      BY <1>1
    <2>2. GrownAt(ev, f, e.event, e.work, Len(ev) + 1)
      BY <1>1, SpotsGrow
    <2> QED BY <2>1, <2>2
  <1> HIDE DEF f
  <1>4. WorksShape(f, done, w, None, None)
    <2>1. WorksShape(ev, done, None, None, None)
      BY DEF Traced
    <2> QED BY <1>2, <2>1, KindsApart DEF WorksShape, Then
  <1>5. ASSUME NEW v \in PlanWorks PROVE SpotsShape(f, v, done, w, None, None)
    <2>1. SpotsShape(ev, v, done, None, None, None)
      BY DEF Traced
    <2>2. /\ Spots(ev, "backend_execution_started", v) = Turns(done, v, 2)
          /\ Spots(ev, "backend_execution_completed", v) = Turns(done, v, 1)
          /\ Spots(ev, "task_contract_evaluated", v) = Turns(done, v, 0)
          /\ Spots(ev, "synthesis_contract_evaluated", v) = {}
          /\ \A kind \in Misses : Spots(ev, kind, v) = {}
      <3>1. IdleShape(ev, v, done, Turns(done, v, 2))
        BY <2>1, IdleSpots
      <3> QED BY <3>1 DEF IdleShape
    <2>3. Spots(f, "backend_execution_started", v) = Turns(done, v, 2) \cup If(v = w, 3 * n + 1)
      BY <1>3, <2>2 DEF If, GrownAt
    <2>4. \A kind : kind # "backend_execution_started" => Spots(f, kind, v) = Spots(ev, kind, v)
      BY <1>3 DEF GrownAt
    <2>5. /\ Spots(f, "backend_execution_completed", v) = Turns(done, v, 1)
          /\ Spots(f, "task_contract_evaluated", v) = Turns(done, v, 0)
          /\ Spots(f, "synthesis_contract_evaluated", v) = {}
          /\ \A kind \in Misses : Spots(f, kind, v) = {}
      BY <2>2, <2>4, KindsApart
    <2>6. v # None
      BY KindsApart
    <2> QED BY <2>3, <2>5, <2>6 DEF SpotsShape, If
  <1> QED BY <1>1, <1>4, <1>5 DEF Traced, f

\* It ends without an answer that counts.
LEMMA TracedMiss ==
    ASSUME NEW ev, NEW done \in Seq(Tasks), NEW w \in PlanWorks, Traced(ev, done, w, None, None),
           Len(ev) = 3 * Len(done) + 1, NEW e \in EventRows, e.event \in Misses, e.work = w
    PROVE  /\ Traced(Append(ev, e), done, w, w, None)
           /\ Len(Append(ev, e)) = 3 * Len(done) + 2
  <1> DEFINE f == Append(ev, e)
             n == Len(done)
  <1>1. ev \in Seq(EventRows) /\ f \in Seq(EventRows) /\ Len(f) = 3 * n + 2 /\ n \in Nat
    BY DEF Traced
  <1>2. \A kinds : WorksOf(f, kinds) = IF e.event \in kinds
                                       THEN Append(WorksOf(ev, kinds), w) ELSE WorksOf(ev, kinds)
    BY <1>1, WorksOfAppend
  <1>3. GrownAt(ev, f, e.event, w, 3 * n + 2)
    <2>1. 3 * n + 2 = Len(ev) + 1
      BY <1>1
    <2>2. GrownAt(ev, f, e.event, e.work, Len(ev) + 1)
      BY <1>1, SpotsGrow
    <2> QED BY <2>1, <2>2
  <1> HIDE DEF f
  <1>4. /\ e.event \in Ends
        /\ e.event \notin {"backend_execution_started", "backend_execution_completed",
                           "task_contract_evaluated", "synthesis_contract_evaluated"}
    BY DEF Ends, Misses
  <1>5. WorksShape(f, done, w, w, None)
    <2>1. WorksShape(ev, done, w, None, None)
      BY DEF Traced
    <2> QED BY <1>2, <1>4, <2>1, KindsApart DEF WorksShape, Then
  <1>6. ASSUME NEW v \in PlanWorks PROVE SpotsShape(f, v, done, w, w, None)
    <2>1. SpotsShape(ev, v, done, w, None, None)
      BY DEF Traced
    <2>2. /\ Spots(ev, "backend_execution_started", v) = Turns(done, v, 2) \cup If(v = w, 3 * n + 1)
          /\ Spots(ev, "backend_execution_completed", v) = Turns(done, v, 1)
          /\ Spots(ev, "task_contract_evaluated", v) = Turns(done, v, 0)
          /\ Spots(ev, "synthesis_contract_evaluated", v) = {}
          /\ \A kind \in Misses : Spots(ev, kind, v) = {}
      <3>1. IdleShape(ev, v, done, Turns(done, v, 2) \cup If(v = w, 3 * n + 1))
        BY <2>1, IdleSpots
      <3> QED BY <3>1 DEF IdleShape
    <2>3. \A kind : kind # e.event => Spots(f, kind, v) = Spots(ev, kind, v)
      BY <1>3 DEF GrownAt
    <2>4. /\ Spots(f, "backend_execution_started", v) = Turns(done, v, 2) \cup If(v = w, 3 * n + 1)
          /\ Spots(f, "backend_execution_completed", v) = Turns(done, v, 1)
          /\ Spots(f, "task_contract_evaluated", v) = Turns(done, v, 0)
          /\ Spots(f, "synthesis_contract_evaluated", v) = {}
      BY <1>4, <2>2, <2>3
    <2>5. ASSUME NEW kind \in Misses PROVE Spots(f, kind, v) \subseteq If(v = w, 3 * n + 2)
      <3>1. Spots(ev, kind, v) = {}
        BY <2>2
      <3>2. CASE v = w
        <4>1. If(v = w, 3 * n + 2) = {3 * n + 2}
          BY <3>2 DEF If
        <4> QED BY <1>3, <3>1, <4>1 DEF GrownAt
      <3>3. CASE v # w
        BY <1>3, <3>1, <3>3 DEF GrownAt
      <3> QED BY <3>2, <3>3
    <2>6. v # None
      BY KindsApart
    <2>7. /\ If(v = None, 3 * n + 2) = {} /\ If(v = None, 3 * n + 3) = {}
          /\ If(v = w /\ None = None, 3 * n + 2) = If(v = w, 3 * n + 2)
      BY <2>6 DEF If
    <2> QED BY <2>4, <2>5, <2>7 DEF SpotsShape
  <1> QED BY <1>1, <1>5, <1>6 DEF Traced, f

\* A task is answered and evaluated.
LEMMA TracedTask ==
    ASSUME NEW ev, NEW done \in Seq(Tasks), NEW t \in Tasks, Traced(ev, done, t, None, None),
           Len(ev) = 3 * Len(done) + 1, NEW e \in EventRows, NEW v \in EventRows,
           e.event = "backend_execution_completed", e.work = t,
           v.event = "task_contract_evaluated", v.work = t
    PROVE  /\ Traced(Append(Append(ev, e), v), Append(done, t), None, None, None)
           /\ Len(Append(Append(ev, e), v)) = 3 * Len(Append(done, t))
  <1> DEFINE f == Append(ev, e)
             g == Append(f, v)
             more == Append(done, t)
             n == Len(done)
  <1>1. /\ ev \in Seq(EventRows) /\ f \in Seq(EventRows) /\ g \in Seq(EventRows) /\ n \in Nat
        /\ Len(f) = 3 * n + 2 /\ Len(g) = 3 * n + 3 /\ Len(more) = n + 1
        /\ Len(ev) = 3 * n + 1 /\ more \in Seq(Tasks)
    BY DEF Traced
  <1>2. \A kinds : WorksOf(f, kinds) = IF "backend_execution_completed" \in kinds
                                       THEN Append(WorksOf(ev, kinds), t) ELSE WorksOf(ev, kinds)
    BY <1>1, WorksOfAppend
  <1>3. GrownAt(ev, f, "backend_execution_completed", t, 3 * n + 2)
    <2>1. 3 * n + 2 = Len(ev) + 1
      BY <1>1
    <2>2. GrownAt(ev, f, e.event, e.work, Len(ev) + 1)
      BY <1>1, SpotsGrow
    <2> QED BY <2>1, <2>2
  <1> HIDE DEF f
  <1>4. \A kinds : WorksOf(g, kinds) = IF "task_contract_evaluated" \in kinds
                                       THEN Append(WorksOf(f, kinds), t) ELSE WorksOf(f, kinds)
    BY <1>1, WorksOfAppend
  <1>5. GrownAt(f, g, "task_contract_evaluated", t, 3 * n + 3)
    <2>1. 3 * n + 3 = Len(f) + 1
      BY <1>1
    <2>2. GrownAt(f, g, v.event, v.work, Len(f) + 1)
      BY <1>1, SpotsGrow
    <2> QED BY <2>1, <2>2
  <1> HIDE DEF g
  <1>6. t \in PlanWorks /\ t # None
    BY KindsApart DEF PlanWorks
  <1>7. WorksShape(g, more, None, None, None)
    <2>1. WorksShape(ev, done, t, None, None)
      BY DEF Traced
    <2>2. "backend_execution_completed" \in Ends
      BY KindsApart
    <2> QED BY <1>2, <1>4, <1>6, <2>1, <2>2, KindsApart DEF WorksShape, Then
  <1>8. ASSUME NEW w \in PlanWorks PROVE SpotsShape(g, w, more, None, None, None)
    <2>1. SpotsShape(ev, w, done, t, None, None)
      BY DEF Traced
    <2>2. /\ Spots(ev, "backend_execution_started", w) = Turns(done, w, 2) \cup If(w = t, 3 * n + 1)
          /\ Spots(ev, "backend_execution_completed", w) = Turns(done, w, 1)
          /\ Spots(ev, "task_contract_evaluated", w) = Turns(done, w, 0)
          /\ Spots(ev, "synthesis_contract_evaluated", w) = {}
          /\ \A kind \in Misses : Spots(ev, kind, w) = {}
      <3>1. IdleShape(ev, w, done, Turns(done, w, 2) \cup If(w = t, 3 * n + 1))
        BY <2>1, IdleSpots
      <3> QED BY <3>1 DEF IdleShape
    <2>3. /\ Turns(more, w, 2) = Turns(done, w, 2) \cup If(w = t, 3 * n + 1)
          /\ Turns(more, w, 1) = Turns(done, w, 1) \cup If(w = t, 3 * n + 2)
          /\ Turns(more, w, 0) = Turns(done, w, 0) \cup If(w = t, 3 * n + 3)
      <3>1. \A m \in 0 .. 2 : Turns(more, w, m) = Turns(done, w, m) \cup If(w = t, 3 * n + 3 - m)
        BY TurnsAppend
      <3>2. 3 * n + 3 - 2 = 3 * n + 1 /\ 3 * n + 3 - 1 = 3 * n + 2 /\ 3 * n + 3 - 0 = 3 * n + 3
        BY <1>1
      <3>3. 0 \in 0 .. 2 /\ 1 \in 0 .. 2 /\ 2 \in 0 .. 2
        OBVIOUS
      <3> QED BY <3>1, <3>2, <3>3
    <2> HIDE DEF more
    <2>4. \A kind : kind \notin {"backend_execution_completed", "task_contract_evaluated"}
                        => Spots(g, kind, w) = Spots(ev, kind, w)
      BY <1>3, <1>5 DEF GrownAt
    <2>5. Spots(g, "backend_execution_started", w) = Turns(more, w, 2)
      BY <2>2, <2>3, <2>4
    <2>6. /\ Spots(g, "synthesis_contract_evaluated", w) = {}
          /\ \A kind \in Misses : Spots(g, kind, w) = {}
      BY <2>2, <2>4, KindsApart
    <2>7. Spots(g, "backend_execution_completed", w) = Turns(more, w, 1)
      <3>1. Spots(g, "backend_execution_completed", w) = Spots(f, "backend_execution_completed", w)
        BY <1>5 DEF GrownAt
      <3>2. CASE w = t
        <4>1. If(w = t, 3 * n + 2) = {3 * n + 2}
          BY <3>2 DEF If
        <4>2. Turns(more, w, 1) = Turns(done, w, 1) \cup {3 * n + 2}
          BY <2>3, <4>1
        <4>3. Spots(f, "backend_execution_completed", w)
                  = Spots(ev, "backend_execution_completed", w) \cup {3 * n + 2}
          BY <1>3, <3>2 DEF GrownAt
        <4> QED BY <2>2, <3>1, <4>2, <4>3
      <3>3. CASE w # t
        <4>1. If(w = t, 3 * n + 2) = {}
          BY <3>3 DEF If
        <4>2. Turns(more, w, 1) = Turns(done, w, 1)
          BY <2>3, <4>1
        <4> QED BY <1>3, <2>2, <3>1, <3>3, <4>2, Zenon DEF GrownAt
      <3> QED BY <3>2, <3>3
    <2>8. Spots(g, "task_contract_evaluated", w) = Turns(more, w, 0)
      <3>1. Spots(f, "task_contract_evaluated", w) = Turns(done, w, 0)
        BY <1>3, <2>2 DEF GrownAt
      <3>2. CASE w = t
        <4>1. If(w = t, 3 * n + 3) = {3 * n + 3}
          BY <3>2 DEF If
        <4>2. Turns(more, w, 0) = Turns(done, w, 0) \cup {3 * n + 3}
          BY <2>3, <4>1
        <4>3. Spots(g, "task_contract_evaluated", w)
                  = Spots(f, "task_contract_evaluated", w) \cup {3 * n + 3}
          BY <1>5, <3>2 DEF GrownAt
        <4> QED BY <3>1, <4>2, <4>3
      <3>3. CASE w # t
        <4>1. If(w = t, 3 * n + 3) = {}
          BY <3>3 DEF If
        <4>2. Turns(more, w, 0) = Turns(done, w, 0)
          BY <2>3, <4>1
        <4> QED BY <1>5, <3>1, <3>3, <4>2, Zenon DEF GrownAt
      <3> QED BY <3>2, <3>3
    <2>9. w # None
      BY KindsApart
    <2> QED BY <2>5, <2>6, <2>7, <2>8, <2>9 DEF SpotsShape, If
  <1>9. Len(g) >= 3 * Len(more) /\ Len(g) = 3 * Len(more)
    BY <1>1
  <1> HIDE DEF more
  <1> QED BY <1>1, <1>7, <1>8, <1>9 DEF Traced, f, g, more

\* The synthesis is answered and evaluated.
LEMMA TracedSynthesis ==
    ASSUME NEW ev, NEW done \in Seq(Tasks), Traced(ev, done, Synthesis, None, None),
           Len(ev) = 3 * Len(done) + 1, NEW e \in EventRows, NEW v \in EventRows,
           e.event = "backend_execution_completed", e.work = Synthesis,
           v.event = "synthesis_contract_evaluated", v.work = Synthesis
    PROVE  /\ Traced(Append(Append(ev, e), v), done, Synthesis, Synthesis, Synthesis)
           /\ Len(Append(Append(ev, e), v)) = 3 * Len(done) + 3
  <1> DEFINE f == Append(ev, e)
             g == Append(f, v)
             n == Len(done)
  <1>1. /\ ev \in Seq(EventRows) /\ f \in Seq(EventRows) /\ g \in Seq(EventRows) /\ n \in Nat
        /\ Len(f) = 3 * n + 2 /\ Len(g) = 3 * n + 3 /\ Len(ev) = 3 * n + 1
    BY DEF Traced
  <1>2. \A kinds : WorksOf(f, kinds)
                       = IF "backend_execution_completed" \in kinds
                         THEN Append(WorksOf(ev, kinds), Synthesis) ELSE WorksOf(ev, kinds)
    BY <1>1, WorksOfAppend
  <1>3. GrownAt(ev, f, "backend_execution_completed", Synthesis, 3 * n + 2)
    <2>1. 3 * n + 2 = Len(ev) + 1
      BY <1>1
    <2>2. GrownAt(ev, f, e.event, e.work, Len(ev) + 1)
      BY <1>1, SpotsGrow
    <2> QED BY <2>1, <2>2
  <1> HIDE DEF f
  <1>4. \A kinds : WorksOf(g, kinds)
                       = IF "synthesis_contract_evaluated" \in kinds
                         THEN Append(WorksOf(f, kinds), Synthesis) ELSE WorksOf(f, kinds)
    BY <1>1, WorksOfAppend
  <1>5. GrownAt(f, g, "synthesis_contract_evaluated", Synthesis, 3 * n + 3)
    <2>1. 3 * n + 3 = Len(f) + 1
      BY <1>1
    <2>2. GrownAt(f, g, v.event, v.work, Len(f) + 1)
      BY <1>1, SpotsGrow
    <2> QED BY <2>1, <2>2
  <1> HIDE DEF g
  <1>6. Synthesis \in PlanWorks /\ Synthesis # None
    BY KindsApart DEF PlanWorks
  <1>7. WorksShape(g, done, Synthesis, Synthesis, Synthesis)
    <2>1. WorksShape(ev, done, Synthesis, None, None)
      BY DEF Traced
    <2>2. "backend_execution_completed" \in Ends
      BY KindsApart
    <2>3. WorksOf(ev, {"synthesis_contract_evaluated"}) = <<>>
      BY <2>1 DEF WorksShape, Then
    <2> QED BY <1>2, <1>4, <1>6, <2>1, <2>2, <2>3, KindsApart DEF WorksShape, Then
  <1>8. ASSUME NEW w \in PlanWorks
        PROVE  SpotsShape(g, w, done, Synthesis, Synthesis, Synthesis)
    <2>1. SpotsShape(ev, w, done, Synthesis, None, None)
      BY DEF Traced
    <2>2. /\ Spots(ev, "backend_execution_started", w)
                = Turns(done, w, 2) \cup If(w = Synthesis, 3 * n + 1)
          /\ Spots(ev, "backend_execution_completed", w) = Turns(done, w, 1)
          /\ Spots(ev, "task_contract_evaluated", w) = Turns(done, w, 0)
          /\ Spots(ev, "synthesis_contract_evaluated", w) = {}
          /\ \A kind \in Misses : Spots(ev, kind, w) = {}
      <3>1. IdleShape(ev, w, done, Turns(done, w, 2) \cup If(w = Synthesis, 3 * n + 1))
        BY <2>1, IdleSpots
      <3> QED BY <3>1 DEF IdleShape
    <2>3. \A kind : kind \notin {"backend_execution_completed", "synthesis_contract_evaluated"}
                        => Spots(g, kind, w) = Spots(ev, kind, w)
      BY <1>3, <1>5 DEF GrownAt
    <2>4. /\ Spots(g, "backend_execution_started", w)
                = Turns(done, w, 2) \cup If(w = Synthesis, 3 * n + 1)
          /\ Spots(g, "task_contract_evaluated", w) = Turns(done, w, 0)
          /\ \A kind \in Misses : Spots(g, kind, w) = {}
      BY <2>2, <2>3, KindsApart
    <2>5. Spots(g, "backend_execution_completed", w)
              = Turns(done, w, 1) \cup If(w = Synthesis, 3 * n + 2)
      <3>1. Spots(g, "backend_execution_completed", w) = Spots(f, "backend_execution_completed", w)
        BY <1>5 DEF GrownAt
      <3> QED BY <1>3, <2>2, <3>1 DEF If, GrownAt
    <2>6. Spots(g, "synthesis_contract_evaluated", w) = If(w = Synthesis, 3 * n + 3)
      <3>1. Spots(f, "synthesis_contract_evaluated", w) = {}
        BY <1>3, <2>2 DEF GrownAt
      <3> QED BY <1>5, <3>1 DEF If, GrownAt
    <2> QED BY <2>4, <2>5, <2>6 DEF SpotsShape, If
  <1> QED BY <1>1, <1>7, <1>8 DEF Traced, f, g

\* The empty trace.
LEMMA TracedNothing == Traced(<<>>, <<>>, None, None, None)
  <1>1. <<>> \in Seq(EventRows) /\ Len(<<>>) = 0 /\ DOMAIN <<>> = {}
    OBVIOUS
  <1>2. \A kinds : WorksOf(<<>>, kinds) = <<>>
    BY ChosenNone, <1>1 DEF WorksOf, Works
  <1>3. \A kind, w : Spots(<<>>, kind, w) = {}
    BY <1>1 DEF Spots
  <1>4. \A w, m : Turns(<<>>, w, m) = {}
    BY <1>1 DEF Turns
  <1>5. WorksShape(<<>>, <<>>, None, None, None)
    BY <1>2 DEF WorksShape, Then
  <1>6. ASSUME NEW w \in PlanWorks PROVE SpotsShape(<<>>, w, <<>>, None, None, None)
    <2>1. w # None
      BY KindsApart
    <2> QED BY <1>3, <1>4, <2>1 DEF SpotsShape, If
  <1> QED BY <1>1, <1>5, <1>6 DEF Traced

-----------------------------------------------------------------------------
(* A trace that bears out results *)

\* Events that are about a work name one of the plan.
Named(ev) ==
    \A i \in 1 .. Len(ev) : ev[i].event \in Telling \cup WorkEvents => ev[i].work \in PlanWorks

\* The end of a call comes after its start.
EndsFollow(ev) ==
    \A i \in 1 .. Len(ev) : ev[i].event \in Ends =>
        \E j \in 1 .. i - 1 : ev[j].event = "backend_execution_started" /\ ev[j].work = ev[i].work

TasksOf(results) == [i \in DOMAIN results |-> results[i].task]

\* The i-th task's call says what result says.
Told(ev, i, result) ==
    /\ ev[3 * i - 1].usage = result.usage /\ ev[3 * i - 1].ref = result.ref
    /\ ev[3 * i].note = result.verdict

AllTold(ev, results) == \A i \in 1 .. Len(results) : Told(ev, i, results[i])

\* The results are those of the first tasks in order.
InOrder(results, tasks) ==
    /\ results \in Seq(ResultRows) /\ Len(results) <= Len(tasks)
    /\ \A i \in 1 .. Len(results) : results[i].task = tasks[i]

AllValid(results) == \A i \in 1 .. Len(results) : results[i].status = "contract_valid"

\* The work after that of the results.
Following(results, tasks) ==
    IF Len(results) < Len(tasks) THEN tasks[Len(results) + 1] ELSE Synthesis

\* What may have been called after the tasks of the results, and answered.
CalledFits(results, tasks, called, answered) ==
    /\ called = None \/ (called = Following(results, tasks) /\ AllValid(results))
    /\ answered = None \/ (answered = Synthesis /\ called = Synthesis)

Grounded(ev, results, tasks, called, ended, answered) ==
    /\ Traced(ev, TasksOf(results), called, ended, answered)
    /\ Named(ev) /\ EndsFollow(ev)
    /\ InOrder(results, tasks)
    /\ AllTold(ev, results)
    /\ \A i \in 1 .. Len(results) - 1 : results[i].status = "contract_valid"
    /\ CalledFits(results, tasks, called, answered)

\* The tasks of results are as many.
LEMMA TasksTyped ==
    ASSUME NEW results \in Seq(ResultRows)
    PROVE  /\ TasksOf(results) \in Seq(Tasks) /\ Len(TasksOf(results)) = Len(results)
           /\ Len(results) \in Nat
           /\ \A i \in 1 .. Len(results) : TasksOf(results)[i] = results[i].task
  <1>1. \A x \in ResultRows : x.task \in Tasks
    BY DEF ResultRows
  <1>2. \A i \in 1 .. Len(results) : results[i].task \in Tasks
    BY <1>1
  <1> QED BY <1>2 DEF TasksOf

\* One result more, one task more.
LEMMA TasksAppend ==
    ASSUME NEW results \in Seq(ResultRows), NEW x \in ResultRows
    PROVE  TasksOf(Append(results, x)) = Append(TasksOf(results), x.task)
  <1> DEFINE more == Append(results, x)
  <1>1. /\ TasksOf(results) \in Seq(Tasks) /\ Len(TasksOf(results)) = Len(results)
        /\ Len(results) \in Nat
        /\ \A i \in 1 .. Len(results) : TasksOf(results)[i] = results[i].task
    BY TasksTyped
  <1>2. /\ DOMAIN more = 1 .. Len(results) + 1 /\ more[Len(results) + 1] = x
        /\ \A i \in 1 .. Len(results) : more[i] = results[i]
    BY <1>1
  <1> HIDE DEF more
  <1>3. TasksOf(more) = [i \in 1 .. Len(results) + 1 |-> more[i].task]
    BY <1>2 DEF TasksOf
  <1>4. \A i \in 1 .. Len(results) + 1 : more[i].task = Append(TasksOf(results), x.task)[i]
    BY <1>1, <1>2
  <1>5. Append(TasksOf(results), x.task)
            = [i \in 1 .. Len(results) + 1 |-> Append(TasksOf(results), x.task)[i]]
    BY <1>1
  <1> QED BY <1>3, <1>4, <1>5 DEF more

\* An event more names a work and follows its start.
LEMMA TraceAppend ==
    ASSUME NEW ev \in Seq(EventRows), NEW e \in EventRows, Named(ev), EndsFollow(ev),
           e.event \in Telling \cup WorkEvents => e.work \in PlanWorks,
           e.event \in Ends => \E j \in 1 .. Len(ev) : /\ ev[j].event = "backend_execution_started"
                                                       /\ ev[j].work = e.work
    PROVE  Named(Append(ev, e)) /\ EndsFollow(Append(ev, e))
  <1> DEFINE f == Append(ev, e)
  <1>1. /\ Len(ev) \in Nat /\ Len(f) = Len(ev) + 1 /\ f[Len(ev) + 1] = e
        /\ \A i \in 1 .. Len(ev) : f[i] = ev[i]
    OBVIOUS
  <1> HIDE DEF f
  <1>2. Named(f)
    BY <1>1 DEF Named
  <1>3. ASSUME NEW i \in 1 .. Len(f), f[i].event \in Ends
        PROVE  \E j \in 1 .. i - 1 :
                   f[j].event = "backend_execution_started" /\ f[j].work = f[i].work
    <2>1. CASE i = Len(ev) + 1
      <3>1. PICK j \in 1 .. Len(ev) : /\ ev[j].event = "backend_execution_started"
                                      /\ ev[j].work = e.work
        BY <1>1, <1>3, <2>1
      <3>2. j \in 1 .. i - 1 /\ f[j] = ev[j] /\ f[i] = e
        BY <1>1, <2>1
      <3> QED BY <3>1, <3>2
    <2>2. CASE i # Len(ev) + 1
      <3>1. i \in 1 .. Len(ev) /\ f[i] = ev[i]
        BY <1>1, <2>2
      <3>2. PICK j \in 1 .. i - 1 : /\ ev[j].event = "backend_execution_started"
                                    /\ ev[j].work = ev[i].work
        BY <1>3, <3>1 DEF EndsFollow
      <3>3. j \in 1 .. Len(ev) /\ f[j] = ev[j]
        BY <1>1, <3>1
      <3> QED BY <3>1, <3>2, <3>3
    <2> QED BY <2>1, <2>2
  <1>4. EndsFollow(f)
    BY <1>3 DEF EndsFollow
  <1> QED BY <1>2, <1>4 DEF f

\* What was told stays told.
LEMMA ToldAppend ==
    ASSUME NEW ev \in Seq(EventRows), NEW e \in EventRows, NEW results, Len(results) \in Nat,
           Len(ev) >= 3 * Len(results), AllTold(ev, results)
    PROVE  AllTold(Append(ev, e), results)
  <1> SUFFICES ASSUME NEW i \in 1 .. Len(results) PROVE Told(Append(ev, e), i, results[i])
    BY DEF AllTold
  <1>1. 3 * i \in 1 .. Len(ev) /\ 3 * i - 1 \in 1 .. Len(ev)
    OBVIOUS
  <1>2. Append(ev, e)[3 * i] = ev[3 * i] /\ Append(ev, e)[3 * i - 1] = ev[3 * i - 1]
    BY <1>1
  <1> QED BY <1>2 DEF Told, AllTold

\* Two events more.
LEMMA TwoMore ==
    ASSUME NEW ev \in Seq(EventRows), NEW e \in EventRows, NEW v \in EventRows, NEW m \in Nat,
           Len(ev) = m + 1
    PROVE  /\ Append(ev, e) \in Seq(EventRows) /\ Len(Append(ev, e)) = m + 2
           /\ Append(Append(ev, e), v) \in Seq(EventRows)
           /\ Len(Append(Append(ev, e), v)) = m + 3
           /\ Append(Append(ev, e), v)[m + 2] = e /\ Append(Append(ev, e), v)[m + 3] = v
  <1> DEFINE f == Append(ev, e)
  <1>1. f \in Seq(EventRows) /\ Len(f) = m + 2 /\ f[m + 2] = e
    OBVIOUS
  <1> HIDE DEF f
  <1>2. /\ Append(f, v) \in Seq(EventRows) /\ Len(Append(f, v)) = m + 3
        /\ Append(f, v)[m + 3] = v /\ Append(f, v)[m + 2] = f[m + 2]
    BY <1>1
  <1> QED BY <1>1, <1>2 DEF f

\* The trace before anything was called.
LEMMA GroundedNothing ==
    ASSUME NEW tasks \in Seq(Tasks)
    PROVE  Grounded(<<>>, <<>>, tasks, None, None, None)
  <1>1. TasksOf(<<>>) = <<>> /\ Len(<<>>) = 0 /\ <<>> \in Seq(ResultRows)
    BY DEF TasksOf
  <1>2. Traced(<<>>, TasksOf(<<>>), None, None, None)
    BY <1>1, TracedNothing
  <1> QED BY <1>1, <1>2 DEF Grounded, Named, EndsFollow, InOrder, CalledFits, AllTold

\* Other events leave it so.
LEMMA GroundedOther ==
    ASSUME NEW ev, NEW results, NEW tasks, NEW called, NEW ended, NEW answered,
           Grounded(ev, results, tasks, called, ended, answered),
           NEW e \in EventRows, e.event \notin Telling,
           e.event \in WorkEvents => e.work \in PlanWorks
    PROVE  Grounded(Append(ev, e), results, tasks, called, ended, answered)
  <1>1. /\ results \in Seq(ResultRows) /\ Len(TasksOf(results)) = Len(results)
        /\ Len(results) \in Nat
    BY TasksTyped DEF Grounded, InOrder
  <1>2. Traced(Append(ev, e), TasksOf(results), called, ended, answered)
    BY <1>1, TracedOther DEF Grounded
  <1>3. ev \in Seq(EventRows) /\ Len(ev) >= 3 * Len(results)
    BY <1>1 DEF Grounded, Traced
  <1>4. e.event \notin Ends
    BY DEF Telling
  <1>5. Named(Append(ev, e)) /\ EndsFollow(Append(ev, e))
    BY <1>3, <1>4, TraceAppend DEF Grounded
  <1>6. AllTold(Append(ev, e), results)
    BY <1>1, <1>3, ToldAppend DEF Grounded
  <1> QED BY <1>2, <1>5, <1>6 DEF Grounded

\* What follows the results is a work of the plan, a task unless there are as
\* many results as tasks.
LEMMA FollowingWork ==
    ASSUME NEW tasks \in Seq(Tasks), NEW results, InOrder(results, tasks)
    PROVE  /\ Following(results, tasks) \in PlanWorks
           /\ Following(results, tasks) # Synthesis =>
                 /\ Len(results) < Len(tasks) /\ Following(results, tasks) = tasks[Len(results) + 1]
                 /\ Following(results, tasks) \in Tasks
           /\ Following(results, tasks) = Synthesis => Len(results) = Len(tasks)
  <1>1. Len(tasks) \in Nat /\ Len(results) \in Nat /\ Synthesis \notin Tasks
    BY TaskListAssumption DEF InOrder
  <1>2. CASE Len(results) < Len(tasks)
    <2>1. tasks[Len(results) + 1] \in Tasks
      BY <1>1, <1>2
    <2> QED BY <1>1, <1>2, <2>1 DEF Following, PlanWorks
  <1>3. CASE ~(Len(results) < Len(tasks))
    BY <1>1, <1>3 DEF Following, PlanWorks, InOrder
  <1> QED BY <1>2, <1>3

\* The next work is called.
LEMMA GroundedStart ==
    ASSUME NEW ev, NEW results, NEW tasks \in Seq(Tasks),
           Grounded(ev, results, tasks, None, None, None), AllValid(results),
           Len(ev) = 3 * Len(results), NEW w, w = Following(results, tasks),
           NEW e \in EventRows, e.event = "backend_execution_started", e.work = w
    PROVE  /\ Grounded(Append(ev, e), results, tasks, w, None, None)
           /\ Len(Append(ev, e)) = 3 * Len(results) + 1
  <1>1. /\ results \in Seq(ResultRows) /\ Len(TasksOf(results)) = Len(results)
        /\ Len(results) \in Nat /\ TasksOf(results) \in Seq(Tasks)
    BY TasksTyped DEF Grounded, InOrder
  <1>2. w \in PlanWorks
    BY FollowingWork DEF Grounded
  <1>3. Traced(ev, TasksOf(results), None, None, None) /\ Len(ev) = 3 * Len(TasksOf(results))
    BY <1>1 DEF Grounded
  <1>4. /\ Traced(Append(ev, e), TasksOf(results), w, None, None)
        /\ Len(Append(ev, e)) = 3 * Len(results) + 1
    BY <1>1, <1>2, <1>3, TracedStart
  <1>5. ev \in Seq(EventRows)
    BY DEF Grounded, Traced
  <1>6. e.event \notin Ends
    BY KindsApart
  <1>7. Named(Append(ev, e)) /\ EndsFollow(Append(ev, e))
    BY <1>2, <1>5, <1>6, TraceAppend DEF Grounded
  <1>8. AllTold(Append(ev, e), results)
    BY <1>1, <1>5, ToldAppend DEF Grounded
  <1>9. CalledFits(results, tasks, w, None)
    BY DEF CalledFits
  <1> QED BY <1>4, <1>7, <1>8, <1>9 DEF Grounded

\* In the trace of a call under way the call was started.
LEMMA CallStarted ==
    ASSUME NEW ev, NEW done, NEW w \in PlanWorks, NEW ended, NEW answered,
           Traced(ev, done, w, ended, answered), Len(done) \in Nat
    PROVE  \E j \in 1 .. Len(ev) : ev[j].event = "backend_execution_started" /\ ev[j].work = w
  <1>1. SpotsShape(ev, w, done, w, ended, answered)
    BY DEF Traced
  <1>2. Spots(ev, "backend_execution_started", w)
            = Turns(done, w, 2) \cup If(w = w, 3 * Len(done) + 1)
    BY <1>1 DEF SpotsShape
  <1>3. 3 * Len(done) + 1 \in Spots(ev, "backend_execution_started", w)
    BY <1>2 DEF If
  <1>4. ev \in Seq(EventRows)
    BY DEF Traced
  <1> QED BY <1>3, <1>4 DEF Spots

\* The call ends without an answer that counts.
LEMMA GroundedMiss ==
    ASSUME NEW ev, NEW results, NEW tasks \in Seq(Tasks), NEW w,
           Grounded(ev, results, tasks, w, None, None), w # None,
           Len(ev) = 3 * Len(results) + 1,
           NEW e \in EventRows, e.event \in Misses, e.work = w
    PROVE  Grounded(Append(ev, e), results, tasks, w, w, None)
  <1>1. /\ results \in Seq(ResultRows) /\ Len(TasksOf(results)) = Len(results)
        /\ Len(results) \in Nat /\ TasksOf(results) \in Seq(Tasks)
    BY TasksTyped DEF Grounded, InOrder
  <1>2. w \in PlanWorks
    BY FollowingWork DEF Grounded, CalledFits
  <1>3. Traced(ev, TasksOf(results), w, None, None) /\ Len(ev) = 3 * Len(TasksOf(results)) + 1
    BY <1>1 DEF Grounded
  <1>4. Traced(Append(ev, e), TasksOf(results), w, w, None)
    BY <1>1, <1>2, <1>3, TracedMiss
  <1>5. ev \in Seq(EventRows)
    BY DEF Grounded, Traced
  <1>6. \E j \in 1 .. Len(ev) : ev[j].event = "backend_execution_started" /\ ev[j].work = e.work
    BY <1>1, <1>2, <1>3, CallStarted
  <1>7. Named(Append(ev, e)) /\ EndsFollow(Append(ev, e))
    BY <1>2, <1>5, <1>6, TraceAppend DEF Grounded
  <1>8. AllTold(Append(ev, e), results)
    BY <1>1, <1>5, ToldAppend DEF Grounded
  <1> QED BY <1>4, <1>7, <1>8 DEF Grounded

\* A task is answered, evaluated and its result added.
LEMMA GroundedTask ==
    ASSUME NEW ev, NEW results, NEW tasks \in Seq(Tasks), NEW t \in Tasks,
           Grounded(ev, results, tasks, t, None, None),
           Len(ev) = 3 * Len(results) + 1, NEW e \in EventRows, NEW v \in EventRows,
           e.event = "backend_execution_completed", e.work = t,
           v.event = "task_contract_evaluated", v.work = t,
           NEW x \in ResultRows, x.task = t, x.usage = e.usage, x.ref = e.ref, x.verdict = v.note
    PROVE  /\ Grounded(Append(Append(ev, e), v), Append(results, x), tasks, None, None, None)
           /\ Len(Append(Append(ev, e), v)) = 3 * Len(Append(results, x))
  <1> DEFINE f == Append(ev, e)
             g == Append(f, v)
             more == Append(results, x)
             n == Len(results)
  <1>1. /\ results \in Seq(ResultRows) /\ Len(TasksOf(results)) = n
        /\ n \in Nat /\ TasksOf(results) \in Seq(Tasks)
    BY TasksTyped DEF Grounded, InOrder
  <1>2. t \in PlanWorks /\ t # None
    BY KindsApart DEF PlanWorks
  <1>3. Traced(ev, TasksOf(results), t, None, None) /\ Len(ev) = 3 * Len(TasksOf(results)) + 1
    BY <1>1 DEF Grounded
  <1>4. /\ Traced(g, Append(TasksOf(results), t), None, None, None)
        /\ Len(g) = 3 * Len(Append(TasksOf(results), t))
    BY <1>1, <1>3, TracedTask
  <1>5. TasksOf(more) = Append(TasksOf(results), t)
    BY <1>1, TasksAppend
  <1>6. /\ ev \in Seq(EventRows) /\ f \in Seq(EventRows) /\ g \in Seq(EventRows)
        /\ Len(ev) = 3 * n + 1 /\ Len(f) = 3 * n + 2 /\ Len(g) = 3 * n + 3
        /\ g[3 * n + 3] = v /\ g[3 * n + 2] = e
    <2>1. ev \in Seq(EventRows) /\ 3 * n \in Nat
      BY <1>1 DEF Grounded, Traced
    <2> QED BY <2>1, TwoMore
  <1>19. /\ more \in Seq(ResultRows) /\ Len(more) = n + 1 /\ more[n + 1] = x
         /\ \A i \in 1 .. n : more[i] = results[i]
    BY <1>1
  <1>7. Named(f) /\ EndsFollow(f)
    <2>1. \E j \in 1 .. Len(ev) : ev[j].event = "backend_execution_started" /\ ev[j].work = e.work
      BY <1>1, <1>2, <1>3, CallStarted
    <2> QED BY <1>2, <1>6, <2>1, TraceAppend DEF Grounded
  <1>8. AllTold(f, results)
    BY <1>1, <1>6, ToldAppend DEF Grounded
  <1> HIDE DEF f
  <1>9. Named(g) /\ EndsFollow(g)
    <2>1. v.event \notin Ends
      BY KindsApart
    <2> QED BY <1>2, <1>6, <1>7, <2>1, TraceAppend
  <1>10. AllTold(g, results)
    BY <1>1, <1>6, <1>8, ToldAppend
  <1> HIDE DEF g, more
  <1>11. AllTold(g, more)
    <2>1. 3 * (n + 1) - 1 = 3 * n + 2 /\ 3 * (n + 1) = 3 * n + 3
      BY <1>1
    <2>2. Told(g, n + 1, x)
      BY <1>6, <2>1 DEF Told
    <2>3. \A i \in 1 .. n : Told(g, i, more[i])
      BY <1>10, <1>19 DEF AllTold
    <2>4. more[n + 1] = x /\ \A i \in 1 .. Len(more) : i \in 1 .. n \/ i = n + 1
      BY <1>1, <1>19
    <2> QED BY <2>2, <2>3, <2>4 DEF AllTold
  <1>12. t = Following(results, tasks) /\ AllValid(results)
    BY <1>2 DEF Grounded, CalledFits
  <1>13. InOrder(results, tasks) /\ t # Synthesis
    BY TaskListAssumption DEF Grounded
  <1>14. n < Len(tasks) /\ t = tasks[n + 1]
    BY <1>12, <1>13, FollowingWork
  <1>15. InOrder(more, tasks)
    <2>1. \A i \in 1 .. Len(more) : i \in 1 .. n \/ i = n + 1
      BY <1>1, <1>19
    <2>2. \A i \in 1 .. n : more[i].task = tasks[i]
      BY <1>13, <1>19 DEF InOrder
    <2>3. more[n + 1].task = tasks[n + 1]
      BY <1>14, <1>19
    <2>4. Len(more) <= Len(tasks)
      BY <1>1, <1>14, <1>19
    <2> QED BY <1>19, <2>1, <2>2, <2>3, <2>4 DEF InOrder
  <1>16. \A i \in 1 .. Len(more) - 1 : more[i].status = "contract_valid"
    BY <1>1, <1>12, <1>19 DEF AllValid
  <1>17. CalledFits(more, tasks, None, None)
    BY DEF CalledFits
  <1>18. Len(g) = 3 * Len(more)
    BY <1>1, <1>6, <1>19
  <1> QED BY <1>4, <1>5, <1>9, <1>11, <1>15, <1>16, <1>17, <1>18 DEF Grounded, f, g, more

\* The synthesis is answered and evaluated.
LEMMA GroundedSynthesis ==
    ASSUME NEW ev, NEW results, NEW tasks \in Seq(Tasks),
           Grounded(ev, results, tasks, Synthesis, None, None),
           Len(ev) = 3 * Len(results) + 1, NEW e \in EventRows, NEW v \in EventRows,
           e.event = "backend_execution_completed", e.work = Synthesis,
           v.event = "synthesis_contract_evaluated", v.work = Synthesis
    PROVE  /\ Grounded(Append(Append(ev, e), v), results, tasks, Synthesis, Synthesis, Synthesis)
           /\ Len(Append(Append(ev, e), v)) = 3 * Len(results) + 3
           /\ Append(Append(ev, e), v)[3 * Len(results) + 2] = e
           /\ Append(Append(ev, e), v)[3 * Len(results) + 3] = v
  <1> DEFINE f == Append(ev, e)
             g == Append(f, v)
             n == Len(results)
  <1>1. /\ results \in Seq(ResultRows) /\ Len(TasksOf(results)) = n
        /\ n \in Nat /\ TasksOf(results) \in Seq(Tasks)
    BY TasksTyped DEF Grounded, InOrder
  <1>2. Synthesis \in PlanWorks /\ Synthesis # None
    BY KindsApart DEF PlanWorks
  <1>3. /\ Traced(ev, TasksOf(results), Synthesis, None, None)
        /\ Len(ev) = 3 * Len(TasksOf(results)) + 1
    BY <1>1 DEF Grounded
  <1>4. Traced(g, TasksOf(results), Synthesis, Synthesis, Synthesis)
    BY <1>1, <1>3, TracedSynthesis
  <1>5. /\ ev \in Seq(EventRows) /\ f \in Seq(EventRows) /\ g \in Seq(EventRows)
        /\ Len(ev) = 3 * n + 1 /\ Len(f) = 3 * n + 2 /\ Len(g) = 3 * n + 3
        /\ g[3 * n + 3] = v /\ g[3 * n + 2] = e
    <2>1. ev \in Seq(EventRows) /\ 3 * n \in Nat
      BY <1>1 DEF Grounded, Traced
    <2> QED BY <2>1, TwoMore
  <1>6. Named(f) /\ EndsFollow(f)
    <2>1. \E j \in 1 .. Len(ev) : ev[j].event = "backend_execution_started" /\ ev[j].work = e.work
      BY <1>1, <1>2, <1>3, CallStarted
    <2> QED BY <1>2, <1>5, <2>1, TraceAppend DEF Grounded
  <1>7. AllTold(f, results)
    BY <1>1, <1>5, ToldAppend DEF Grounded
  <1> HIDE DEF f
  <1>8. Named(g) /\ EndsFollow(g)
    <2>1. v.event \notin Ends
      BY KindsApart
    <2> QED BY <1>2, <1>5, <1>6, <2>1, TraceAppend
  <1>9. AllTold(g, results)
    BY <1>1, <1>5, <1>7, ToldAppend
  <1> HIDE DEF g
  <1>10. CalledFits(results, tasks, Synthesis, Synthesis)
    BY <1>2 DEF Grounded, CalledFits
  <1> QED BY <1>4, <1>5, <1>8, <1>9, <1>10 DEF Grounded, f, g

\* Digests of results are results of the same tasks, calls and verdicts.
LEMMA GroundedDigests ==
    ASSUME NEW ev, NEW results, NEW tasks, NEW called, NEW ended, NEW answered,
           Grounded(ev, results, tasks, called, ended, answered)
    PROVE  Grounded(ev, [i \in DOMAIN results |-> DigestOnly(results[i])], tasks,
                    called, ended, answered)
  <1> DEFINE digests == [i \in DOMAIN results |-> DigestOnly(results[i])]
  <1>1. results \in Seq(ResultRows)
    BY DEF Grounded, InOrder
  <1>2. \A i \in 1 .. Len(results) :
            /\ DigestOnly(results[i]) \in ResultRows
            /\ DigestOnly(results[i]).status = results[i].status
            /\ DigestOnly(results[i]).verdict = results[i].verdict
            /\ DigestOnly(results[i]).usage = results[i].usage
            /\ DigestOnly(results[i]).ref = results[i].ref
            /\ DigestOnly(results[i]).task = results[i].task
    BY <1>1, DigestRow
  <1>3. DOMAIN results = 1 .. Len(results) /\ Len(results) \in Nat
    BY <1>1
  <1>4. digests \in Seq(ResultRows) /\ Len(digests) = Len(results)
        /\ DOMAIN digests = 1 .. Len(results)
        /\ \A i \in 1 .. Len(results) : digests[i] = DigestOnly(results[i])
    BY <1>2, <1>3
  <1> HIDE DEF digests
  <1>5. TasksOf(digests) = TasksOf(results)
    BY <1>2, <1>3, <1>4 DEF TasksOf
  <1>6. InOrder(digests, tasks)
    BY <1>2, <1>4 DEF Grounded, InOrder
  <1>7. AllTold(ev, digests)
    BY <1>2, <1>4 DEF Grounded, Told, AllTold
  <1>8. \A i \in 1 .. Len(digests) - 1 : digests[i].status = "contract_valid"
    <2>1. \A i \in 1 .. Len(results) - 1 : i \in 1 .. Len(results)
      BY <1>3
    <2> QED BY <1>2, <1>4, <2>1 DEF Grounded
  <1>9. AllValid(results) => AllValid(digests)
    BY <1>2, <1>4 DEF AllValid
  <1>10. CalledFits(digests, tasks, called, answered)
    BY <1>4, <1>9 DEF Grounded, CalledFits, Following
  <1> QED BY <1>5, <1>6, <1>7, <1>8, <1>10 DEF Grounded, digests

-----------------------------------------------------------------------------
(* What validation asks of a trace *)

\* Works that are tasks are task works, and a synthesis at their end is not.
LEMMA TaskWorksAre ==
    ASSUME NEW evs, Works(evs) \in Seq(WorkIds), Len(evs) \in Nat, DOMAIN evs = 1 .. Len(evs),
           NEW done \in Seq(Tasks)
    PROVE  /\ Works(evs) = done => TaskWorks(evs) = done
           /\ Works(evs) = Append(done, Synthesis) => TaskWorks(evs) = done
  <1> DEFINE W == Works(evs)
             I == {i \in DOMAIN evs : evs[i].work # Synthesis}
  <1>1. /\ DOMAIN W = 1 .. Len(evs) /\ \A i \in 1 .. Len(evs) : W[i] = evs[i].work
        /\ Len(W) = Len(evs)
    BY DEF Works
  <1>2. \A i \in 1 .. Len(W) : i \in I <=> W[i] # Synthesis
    BY <1>1
  <1>3. Synthesis \notin Tasks
    BY TaskListAssumption
  <1> HIDE DEF W, I
  <1>4. ASSUME W = done PROVE Picked(W, I) = done
    <2>1. \A i \in 1 .. Len(done) : i \in I
      BY <1>2, <1>3, <1>4
    <2> QED BY <1>4, <2>1, PickedAll
  <1>5. ASSUME W = Append(done, Synthesis) PROVE Picked(W, I) = done
    <2>1. /\ Len(done) \in Nat /\ Len(W) = Len(done) + 1 /\ W[Len(done) + 1] = Synthesis
          /\ \A i \in 1 .. Len(done) : W[i] = done[i] /\ done[i] \in Tasks
      BY <1>5
    <2>2. \A i \in 1 .. Len(done) : i \in I
      BY <1>2, <1>3, <2>1
    <2>3. Len(done) + 1 \notin I
      BY <1>2, <2>1
    <2>4. done \in Seq(WorkIds) /\ Synthesis \in WorkIds
      BY DEF WorkIds
    <2>5. Picked(Append(done, Synthesis), I) = Picked(done, I)
      <3>1. Picked(Append(done, Synthesis), I)
               = IF Len(done) + 1 \in I THEN Append(Picked(done, I), Synthesis) ELSE Picked(done, I)
        BY <2>4, PickedAppend
      <3> QED BY <2>3, <3>1
    <2> QED BY <1>5, <2>2, <2>5, PickedAll
  <1> QED BY <1>4, <1>5 DEF TaskWorks, W, I

\* Of different tasks each has one turn.
LEMMA TurnsOnce ==
    ASSUME NEW done \in Seq(Tasks), \A i, j \in 1 .. Len(done) : done[i] = done[j] => i = j,
           NEW m \in 0 .. 2
    PROVE  /\ \A k \in 1 .. Len(done) : Turns(done, done[k], m) = {3 * k - m}
           /\ \A w : (\A k \in 1 .. Len(done) : done[k] # w) => Turns(done, w, m) = {}
  <1>1. ASSUME NEW k \in 1 .. Len(done) PROVE Turns(done, done[k], m) = {3 * k - m}
    <2>1. {j \in 1 .. Len(done) : done[j] = done[k]} = {k}
      OBVIOUS
    <2> QED BY <2>1 DEF Turns
  <1>2. ASSUME NEW w, \A k \in 1 .. Len(done) : done[k] # w PROVE Turns(done, w, m) = {}
    <2>1. {j \in 1 .. Len(done) : done[j] = w} = {}
      BY <1>2
    <2> QED BY <2>1 DEF Turns
  <1> QED BY <1>1, <1>2

Distinct(tasks) == \A i, j \in 1 .. Len(tasks) : tasks[i] = tasks[j] => i = j

\* Where the calls of a task and its evaluation are.
TurnAt(ev, t, k) ==
    /\ Spots(ev, "backend_execution_started", t) = {3 * k - 2}
    /\ Spots(ev, "backend_execution_completed", t) = {3 * k - 1}
    /\ Spots(ev, "task_contract_evaluated", t) = {3 * k}

\* Where the events of the synthesis are, if they are anywhere.
SynthesisAt(ev, n, called, answered) ==
    /\ Spots(ev, "backend_execution_started", Synthesis) = If(called = Synthesis, 3 * n + 1)
    /\ Spots(ev, "backend_execution_completed", Synthesis) = If(answered = Synthesis, 3 * n + 2)
    /\ Spots(ev, "task_contract_evaluated", Synthesis) = {}
    /\ Spots(ev, "synthesis_contract_evaluated", Synthesis) = If(answered = Synthesis, 3 * n + 3)

\* The call that did not come to a result.
CalledAt(ev, n, called, answered) ==
    called # None =>
        /\ Spots(ev, "backend_execution_started", called) = {3 * n + 1}
        /\ answered = None => Spots(ev, "backend_execution_completed", called) = {}

\* Each task of a result has its turn, and what was called then comes after.
LEMMA Places ==
    ASSUME NEW ev, NEW results, NEW tasks \in Seq(Tasks), Distinct(tasks),
           NEW called, NEW ended, NEW answered,
           Grounded(ev, results, tasks, called, ended, answered)
    PROVE  /\ \A k \in 1 .. Len(results) : TurnAt(ev, tasks[k], k)
           /\ SynthesisAt(ev, Len(results), called, answered)
           /\ CalledAt(ev, Len(results), called, answered)
  <1> DEFINE n == Len(results)
             done == TasksOf(results)
  <1>1. /\ results \in Seq(ResultRows) /\ n \in Nat /\ Len(tasks) \in Nat /\ n <= Len(tasks)
        /\ \A i \in 1 .. n : results[i].task = tasks[i]
    BY DEF Grounded, InOrder
  <1>2. done \in Seq(Tasks) /\ Len(done) = n /\ \A i \in 1 .. n : done[i] = tasks[i]
    BY <1>1, TasksTyped
  <1>3. /\ Traced(ev, done, called, ended, answered)
        /\ CalledFits(results, tasks, called, answered) /\ InOrder(results, tasks)
    BY DEF Grounded
  <1> HIDE DEF n, done
  <1>4. \A i, j \in 1 .. Len(done) : done[i] = done[j] => i = j
    BY <1>1, <1>2 DEF Distinct
  <1>5. ASSUME NEW m \in 0 .. 2
        PROVE  /\ \A k \in 1 .. n : Turns(done, tasks[k], m) = {3 * k - m}
               /\ \A w : (\A k \in 1 .. n : tasks[k] # w) => Turns(done, w, m) = {}
    <2>1. /\ \A k \in 1 .. Len(done) : Turns(done, done[k], m) = {3 * k - m}
          /\ \A w : (\A k \in 1 .. Len(done) : done[k] # w) => Turns(done, w, m) = {}
      BY <1>2, <1>4, TurnsOnce
    <2>2. \A k \in 1 .. n : Turns(done, tasks[k], m) = {3 * k - m}
      BY <1>2, <2>1
    <2>3. ASSUME NEW w, \A k \in 1 .. n : tasks[k] # w PROVE Turns(done, w, m) = {}
      BY <1>2, <2>1, <2>3
    <2> QED BY <2>2, <2>3
  <1>6. \A w \in PlanWorks : SpotsShape(ev, w, done, called, ended, answered)
    BY <1>3 DEF Traced
  <1>7. \A k \in 1 .. n : tasks[k] \in Tasks /\ tasks[k] \in PlanWorks
    BY <1>1 DEF PlanWorks
  <1>8. \A t \in Tasks : t # Synthesis /\ t # None
    BY TaskListAssumption, KindsApart DEF PlanWorks
  <1>9. /\ Synthesis \in PlanWorks /\ Synthesis # None
        /\ \A k \in 1 .. n : tasks[k] # Synthesis
    BY <1>7, <1>8, KindsApart DEF PlanWorks
  <1>10. called # None => called \in PlanWorks /\ \A k \in 1 .. n : tasks[k] # called
    <2> SUFFICES ASSUME called # None
                 PROVE  called \in PlanWorks /\ \A k \in 1 .. n : tasks[k] # called
      OBVIOUS
    <2>1. called = Following(results, tasks)
      BY <1>3 DEF CalledFits
    <2>2. called \in PlanWorks
      BY <1>3, <2>1, FollowingWork
    <2>3. CASE called = Synthesis
      BY <1>9, <2>2, <2>3
    <2>4. CASE called # Synthesis
      <3>1. n < Len(tasks) /\ called = tasks[n + 1]
        BY <1>3, <2>1, <2>4, FollowingWork DEF n
      <3>2. \A k \in 1 .. n : tasks[k] # tasks[n + 1]
        BY <1>1, <3>1 DEF Distinct
      <3> QED BY <2>2, <3>1, <3>2
    <2> QED BY <2>3, <2>4
  <1>11. answered = None \/ answered = Synthesis
    BY <1>3 DEF CalledFits
  <1>12. 0 \in 0 .. 2 /\ 1 \in 0 .. 2 /\ 2 \in 0 .. 2
    OBVIOUS
  <1>13. ASSUME NEW k \in 1 .. n PROVE TurnAt(ev, tasks[k], k)
    <2>1. SpotsShape(ev, tasks[k], done, called, ended, answered)
      BY <1>6, <1>7
    <2>2. tasks[k] # called
      BY <1>7, <1>8, <1>10
    <2>3. tasks[k] # answered
      BY <1>7, <1>8, <1>11
    <2>4. If(tasks[k] = called, 3 * n + 1) = {} /\ If(tasks[k] = answered, 3 * n + 2) = {}
      BY <2>2, <2>3 DEF If
    <2>5. /\ Turns(done, tasks[k], 2) = {3 * k - 2} /\ Turns(done, tasks[k], 1) = {3 * k - 1}
          /\ Turns(done, tasks[k], 0) = {3 * k - 0}
      BY <1>5, <1>12
    <2>6. 3 * k - 0 = 3 * k
      BY <1>1
    <2>7. /\ Spots(ev, "backend_execution_started", tasks[k])
                = Turns(done, tasks[k], 2) \cup If(tasks[k] = called, 3 * n + 1)
          /\ Spots(ev, "backend_execution_completed", tasks[k])
                = Turns(done, tasks[k], 1) \cup If(tasks[k] = answered, 3 * n + 2)
          /\ Spots(ev, "task_contract_evaluated", tasks[k]) = Turns(done, tasks[k], 0)
      BY <1>2, <2>1 DEF SpotsShape
    <2> QED BY <2>4, <2>5, <2>6, <2>7 DEF TurnAt
  <1>14. SynthesisAt(ev, n, called, answered)
    <2>1. SpotsShape(ev, Synthesis, done, called, ended, answered)
      BY <1>6, <1>9
    <2>2. /\ Turns(done, Synthesis, 2) = {} /\ Turns(done, Synthesis, 1) = {}
          /\ Turns(done, Synthesis, 0) = {}
      BY <1>5, <1>9, <1>12
    <2>3. /\ If(Synthesis = called, 3 * n + 1) = If(called = Synthesis, 3 * n + 1)
          /\ If(Synthesis = answered, 3 * n + 2) = If(answered = Synthesis, 3 * n + 2)
          /\ If(Synthesis = answered, 3 * n + 3) = If(answered = Synthesis, 3 * n + 3)
      BY DEF If
    <2>4. /\ Spots(ev, "backend_execution_started", Synthesis)
                = Turns(done, Synthesis, 2) \cup If(Synthesis = called, 3 * n + 1)
          /\ Spots(ev, "backend_execution_completed", Synthesis)
                = Turns(done, Synthesis, 1) \cup If(Synthesis = answered, 3 * n + 2)
          /\ Spots(ev, "task_contract_evaluated", Synthesis) = Turns(done, Synthesis, 0)
          /\ Spots(ev, "synthesis_contract_evaluated", Synthesis)
                = If(Synthesis = answered, 3 * n + 3)
      BY <1>2, <2>1 DEF SpotsShape
    <2> QED BY <2>2, <2>3, <2>4 DEF SynthesisAt
  <1>15. CalledAt(ev, n, called, answered)
    <2> SUFFICES ASSUME called # None
                 PROVE  /\ Spots(ev, "backend_execution_started", called) = {3 * n + 1}
                        /\ answered = None => Spots(ev, "backend_execution_completed", called) = {}
      BY DEF CalledAt
    <2>1. SpotsShape(ev, called, done, called, ended, answered)
      BY <1>6, <1>10
    <2>2. Turns(done, called, 2) = {} /\ Turns(done, called, 1) = {}
      BY <1>5, <1>10, <1>12
    <2>3. /\ If(called = called, 3 * n + 1) = {3 * n + 1}
          /\ answered = None => If(called = answered, 3 * n + 2) = {}
      BY DEF If
    <2>4. /\ Spots(ev, "backend_execution_started", called)
                = Turns(done, called, 2) \cup If(called = called, 3 * n + 1)
          /\ Spots(ev, "backend_execution_completed", called)
                = Turns(done, called, 1) \cup If(called = answered, 3 * n + 2)
      BY <1>2, <2>1 DEF SpotsShape
    <2> QED BY <2>2, <2>3, <2>4
  <1> QED BY <1>13, <1>14, <1>15 DEF n

\* The position of a work that is in one place.
LEMMA PositionIs ==
    ASSUME NEW r, NEW kind, NEW w, NEW p, Spots(r.events, kind, w) = {p}
    PROVE  Position(r, kind, w) = p /\ At(r, kind, w) = {p}
  BY DEF Position, At, Spots

\* Where a work is.
LEMMA AtIs ==
    ASSUME NEW r, NEW kind, NEW w
    PROVE  At(r, kind, w) = Spots(r.events, kind, w)
  BY DEF At, Spots

\* The works of a record's events.
LEMMA WorksOfRecord ==
    ASSUME NEW r, r.events \in Seq(EventRows), NEW kinds
    PROVE  /\ Works(Of(r, kinds)) = WorksOf(r.events, kinds)
           /\ Of(r, kinds) = Chosen(r.events, kinds)
           /\ Of(r, kinds) \in Seq(EventRows)
           /\ WorksOf(r.events, kinds) \in Seq(WorkIds)
           /\ Len(WorksOf(r.events, kinds)) = Len(Of(r, kinds))
  <1>1. Of(r, kinds) = Chosen(r.events, kinds)
    BY DEF Of, Chosen
  <1>2. Chosen(r.events, kinds) \in Seq(EventRows)
    BY PickedType DEF Chosen
  <1>3. /\ Works(Chosen(r.events, kinds)) \in Seq(WorkIds)
        /\ Len(Works(Chosen(r.events, kinds))) = Len(Chosen(r.events, kinds))
    <2>1. \A x \in EventRows : x.work \in WorkIds
      BY DEF EventRows
    <2> DEFINE c == Chosen(r.events, kinds)
    <2>2. c \in Seq(EventRows)
      BY <1>2
    <2> HIDE DEF c
    <2>3. \A i \in 1 .. Len(c) : c[i].work \in WorkIds
      BY <2>1, <2>2
    <2>4. Works(c) \in Seq(WorkIds) /\ Len(Works(c)) = Len(c)
      BY <2>2, <2>3 DEF Works
    <2> QED BY <2>4 DEF c
  <1> QED BY <1>1, <1>2, <1>3 DEF WorksOf

\* A sequence that goes along another is its prefix.
LEMMA PrefixAlong ==
    ASSUME NEW S, NEW s \in Seq(S), NEW t \in Seq(S), Len(s) <= Len(t),
           \A i \in 1 .. Len(s) : s[i] = t[i]
    PROVE  IsPrefix(s, t)
  <1>1. /\ SubSeq(s, 1, Len(s)) \in Seq(S) /\ Len(SubSeq(s, 1, Len(s))) = Len(s)
        /\ SubSeq(t, 1, Len(s)) \in Seq(S) /\ Len(SubSeq(t, 1, Len(s))) = Len(s)
        /\ \A i \in 1 .. Len(s) : SubSeq(s, 1, Len(s))[i] = s[i] /\ SubSeq(t, 1, Len(s))[i] = t[i]
    OBVIOUS
  <1>2. SubSeq(s, 1, Len(s)) = SubSeq(t, 1, Len(s))
    BY <1>1
  <1> QED BY <1>2 DEF IsPrefix

Plan(d, tasks) == d \in Dependencies /\ Ordered(d, tasks) /\ Len(tasks) = Len(TaskList)

\* The tasks of the results, and what was called after them, in order.
LEMMA ThenInOrder ==
    ASSUME NEW results, NEW tasks \in Seq(Tasks), Distinct(tasks),
           NEW called, NEW answered, InOrder(results, tasks),
           CalledFits(results, tasks, called, answered)
    PROVE  LET done == TasksOf(results)
               n == Len(results)
           IN /\ done \in Seq(Tasks) /\ Len(done) = n /\ n \in Nat
              /\ \A i \in 1 .. n : done[i] = tasks[i]
              /\ IsInjective(done) /\ IsInjective(Then(done, called))
              /\ called = None => Then(done, called) = done
              /\ called = Synthesis => Then(done, called) = Append(done, Synthesis)
              /\ called \notin {None, Synthesis} =>
                    /\ Then(done, called) = Append(done, called) /\ n < Len(tasks)
                    /\ called = tasks[n + 1] /\ called \in Tasks
              /\ called = Synthesis => n = Len(tasks)
  <1> DEFINE n == Len(results)
             done == TasksOf(results)
  <1>1. /\ results \in Seq(ResultRows) /\ n \in Nat /\ Len(tasks) \in Nat /\ n <= Len(tasks)
        /\ \A i \in 1 .. n : results[i].task = tasks[i]
    BY DEF InOrder
  <1>2. done \in Seq(Tasks) /\ Len(done) = n /\ \A i \in 1 .. n : done[i] = tasks[i]
    BY <1>1, TasksTyped
  <1> HIDE DEF done
  <1>3. IsInjective(done)
    BY <1>1, <1>2 DEF IsInjective, Distinct
  <1>4. called # None => called = Following(results, tasks)
    BY DEF CalledFits
  <1>5. Synthesis # None
    BY KindsApart DEF PlanWorks
  <1>6. called \notin {None, Synthesis} =>
            n < Len(tasks) /\ called = tasks[n + 1] /\ called \in Tasks
    BY <1>4, FollowingWork
  <1>7. called = Synthesis => n = Len(tasks)
    BY <1>4, <1>5, FollowingWork
  <1>8. /\ called = None => Then(done, called) = done
        /\ called # None => Then(done, called) = Append(done, called)
    BY DEF Then
  <1>9. called # None => \A i \in 1 .. n : done[i] # called
    <2> SUFFICES ASSUME called # None, NEW i \in 1 .. n PROVE done[i] # called
      OBVIOUS
    <2>1. done[i] \in Tasks /\ done[i] = tasks[i]
      BY <1>1, <1>2
    <2>2. CASE called = Synthesis
      BY <2>1, <2>2, TaskListAssumption
    <2>3. CASE called # Synthesis
      BY <1>1, <1>6, <2>1, <2>3 DEF Distinct
    <2> QED BY <2>2, <2>3
  <1>10. IsInjective(Then(done, called))
    <2>1. CASE called = None
      BY <1>3, <1>8, <2>1
    <2>2. CASE called # None
      <3> DEFINE s == Append(done, called)
      <3>1. /\ DOMAIN s = 1 .. n + 1 /\ s[n + 1] = called /\ \A i \in 1 .. n : s[i] = done[i]
        BY <1>1, <1>2
      <3> HIDE DEF s
      <3>2. ASSUME NEW i \in 1 .. n + 1, NEW j \in 1 .. n + 1, s[i] = s[j] PROVE i = j
        <4>1. DOMAIN done = 1 .. n
          BY <1>2
        <4>2. CASE i \in 1 .. n /\ j \in 1 .. n
          BY <1>3, <3>1, <3>2, <4>1, <4>2 DEF IsInjective
        <4>3. CASE i = n + 1
          BY <1>1, <1>9, <2>2, <3>1, <3>2, <4>3
        <4>4. CASE j = n + 1
          BY <1>1, <1>9, <2>2, <3>1, <3>2, <4>4
        <4> QED BY <1>1, <4>2, <4>3, <4>4
      <3>3. IsInjective(s)
        BY <3>1, <3>2 DEF IsInjective
      <3> QED BY <1>8, <2>2, <3>3 DEF s
    <2> QED BY <2>1, <2>2
  <1> QED BY <1>1, <1>2, <1>3, <1>5, <1>6, <1>7, <1>8, <1>10 DEF done

\* A grounded trace of ended calls has all that validation asks of a trace.
LEMMA TraceHolds ==
    ASSUME NEW r, NEW tasks, NEW d, Plan(d, tasks), NEW called, NEW answered,
           Grounded(r.events, r.results, tasks, called, called, answered)
    PROVE  /\ PrefixOfPlan(r, tasks) /\ RefersToPlan(r) /\ Paired(r)
           /\ CallsFollowPlan(r, tasks) /\ EvaluatedAtOnce(r)
           /\ StartsInTurn(r, tasks, d) /\ SynthesisInTurn(r, tasks)
           /\ \A i \in DOMAIN r.results : ResultMatchesCall(r, r.results[i])
           /\ SynthesisCompleted(r) <=> answered = Synthesis
           /\ called # None => AllValid(r.results)
           /\ called = Synthesis => AllPassed(r, tasks)
  <1> DEFINE ev == r.events
             results == r.results
             n == Len(results)
             done == TasksOf(results)
             ends == Then(done, called)
  <1>1. /\ tasks \in Seq(Tasks) /\ Distinct(tasks) /\ Len(tasks) \in Nat /\ Len(tasks) >= 1
        /\ \A i \in 1 .. Len(tasks) : \A t \in d[tasks[i]] : \E j \in 1 .. i - 1 : tasks[j] = t
    <2>1. Len(TaskList) \in Nat \ {0}
      BY ListedTasks
    <2>2. Ordered(d, tasks) /\ Len(tasks) = Len(TaskList)
      BY DEF Plan
    <2>3. tasks \in Seq(Tasks) /\ Distinct(tasks)
      BY <2>2 DEF Ordered, Distinct
    <2>4. Len(tasks) \in Nat /\ Len(tasks) >= 1
      BY <2>1, <2>2
    <2>5. \A i \in 1 .. Len(tasks) : \A t \in d[tasks[i]] : \E j \in 1 .. i - 1 : tasks[j] = t
      BY <2>2 DEF Ordered
    <2> QED BY <2>3, <2>4, <2>5
  <1>2. /\ Traced(ev, done, called, called, answered) /\ Named(ev) /\ EndsFollow(ev)
        /\ InOrder(results, tasks) /\ AllTold(ev, results)
        /\ \A i \in 1 .. n - 1 : results[i].status = "contract_valid"
        /\ CalledFits(results, tasks, called, answered)
    BY DEF Grounded
  <1>3. /\ ev \in Seq(EventRows) /\ Len(ev) \in Nat /\ DOMAIN ev = 1 .. Len(ev)
        /\ WorksShape(ev, done, called, called, answered)
    BY <1>2 DEF Traced
  <1>4. /\ results \in Seq(ResultRows) /\ DOMAIN results = 1 .. n /\ n \in Nat /\ n <= Len(tasks)
        /\ \A i \in 1 .. n : results[i].task = tasks[i]
    BY <1>2 DEF InOrder
  <1>5. /\ \A k \in 1 .. n : TurnAt(ev, tasks[k], k)
        /\ SynthesisAt(ev, n, called, answered) /\ CalledAt(ev, n, called, answered)
    BY <1>1, Places
  <1>6. /\ done \in Seq(Tasks) /\ Len(done) = n
        /\ \A i \in 1 .. n : done[i] = tasks[i]
        /\ IsInjective(done) /\ IsInjective(ends)
        /\ called = None => ends = done
        /\ called = Synthesis => ends = Append(done, Synthesis)
        /\ called \notin {None, Synthesis} =>
              /\ ends = Append(done, called) /\ n < Len(tasks)
              /\ called = tasks[n + 1] /\ called \in Tasks
        /\ called = Synthesis => n = Len(tasks)
    BY <1>1, <1>2, ThenInOrder
  <1>7. Results(r) = done
    BY DEF Results, TasksOf
  <1> HIDE DEF done, ends
  <1>8. /\ Works(Of(r, {"backend_execution_started"})) = ends
        /\ Works(Of(r, Ends)) = ends
        /\ Works(Of(r, {"backend_execution_completed"})) = Then(done, answered)
        /\ Works(Of(r, {"task_contract_evaluated"})) = done
        /\ Works(Of(r, {"synthesis_contract_evaluated"})) = Then(<<>>, answered)
    BY <1>3, WorksOfRecord DEF WorksShape, ends
  <1>9. Synthesis # None /\ \A t \in Tasks : t # Synthesis /\ t # None
    BY KindsApart, TaskListAssumption DEF PlanWorks
  <1>10. called # None => AllValid(results)
    BY <1>2 DEF CalledFits
  <1>11. answered = None \/ (answered = Synthesis /\ called = Synthesis)
    BY <1>2 DEF CalledFits
  <1>12. PrefixOfPlan(r, tasks)
    <2>1. IsPrefix(done, tasks)
      BY <1>1, <1>4, <1>6, PrefixAlong
    <2>3. \A i \in DOMAIN r.results :
             r.results[i].status = "contract_rejected" => i = Len(r.results)
      BY <1>2, <1>4
    <2> QED BY <1>7, <2>1, <2>3 DEF PrefixOfPlan
  <1>13. RefersToPlan(r)
    BY <1>2, <1>3 DEF RefersToPlan, Named, PlanWorks
  <1>14. Paired(r)
    <2>1. StartedOnce(r) /\ IsInjective(Works(Of(r, Ends)))
      BY <1>6, <1>8 DEF StartedOnce
    <2>2. \A i \in DOMAIN r.events : r.events[i].event \in Ends =>
             \E j \in 1 .. i - 1 : /\ r.events[j].event = "backend_execution_started"
                                   /\ r.events[j].work = r.events[i].work
      BY <1>2, <1>3 DEF EndsFollow
    <2>3. Range(Works(Of(r, {"backend_execution_started"}))) \subseteq Range(Works(Of(r, Ends)))
      BY <1>8
    <2> QED BY <2>1, <2>2, <2>3 DEF Paired
  <1>15. /\ TaskWorks(Of(r, {"backend_execution_started"}))
               = IF called \in {None, Synthesis} THEN done ELSE Append(done, called)
         /\ TaskWorks(Of(r, {"backend_execution_completed"})) = done
    <2> DEFINE S == Of(r, {"backend_execution_started"})
               C == Of(r, {"backend_execution_completed"})
    <2>1. /\ Works(S) \in Seq(WorkIds) /\ Len(S) \in Nat /\ DOMAIN S = 1 .. Len(S)
          /\ Works(C) \in Seq(WorkIds) /\ Len(C) \in Nat /\ DOMAIN C = 1 .. Len(C)
      <3>1. /\ S \in Seq(EventRows) /\ C \in Seq(EventRows)
            /\ Works(S) \in Seq(WorkIds) /\ Works(C) \in Seq(WorkIds)
        BY <1>3, WorksOfRecord
      <3> QED BY <3>1
    <2>2. Works(S) = ends /\ Works(C) = Then(done, answered)
      BY <1>8
    <2> HIDE DEF S, C
    <2>3. TaskWorks(C) = done
      <3>1. CASE answered = None
        BY <1>6, <2>1, <2>2, <3>1, TaskWorksAre DEF Then
      <3>2. CASE answered # None
        BY <1>6, <1>9, <1>11, <2>1, <2>2, <3>2, TaskWorksAre DEF Then
      <3> QED BY <3>1, <3>2
    <2>4. CASE called = None
      <3>1. TaskWorks(S) = done
        BY <1>6, <2>1, <2>2, <2>4, TaskWorksAre
      <3> QED BY <2>3, <2>4, <3>1 DEF S, C
    <2>5. CASE called = Synthesis
      <3>1. TaskWorks(S) = done
        BY <1>6, <2>1, <2>2, <2>5, TaskWorksAre
      <3> QED BY <2>3, <2>5, <3>1 DEF S, C
    <2>6. CASE called \notin {None, Synthesis}
      <3>1. Append(done, called) \in Seq(Tasks) /\ Works(S) = Append(done, called)
        BY <1>6, <2>2, <2>6
      <3>2. TaskWorks(S) = Append(done, called)
        BY <2>1, <3>1, TaskWorksAre
      <3> QED BY <2>3, <2>6, <3>2 DEF S, C
    <2> QED BY <2>4, <2>5, <2>6
  <1>16. CallsFollowPlan(r, tasks)
    <2> DEFINE starts == Works(Of(r, {"backend_execution_started"}))
               called_tasks == TaskWorks(Of(r, {"backend_execution_started"}))
    <2>1. \A i \in DOMAIN starts : starts[i] = Synthesis => i = Len(starts)
      <3>1. starts = ends
        BY <1>8
      <3>2. \A i \in 1 .. n : done[i] # Synthesis
        BY <1>6, <1>9
      <3>3. CASE called = None
        BY <1>6, <3>1, <3>2, <3>3
      <3>4. CASE called # None
        <4>1. ends = Append(done, called)
          BY <1>6, <3>4
        <4>2. DOMAIN ends = 1 .. n + 1 /\ Len(ends) = n + 1 /\ \A i \in 1 .. n : ends[i] = done[i]
          BY <1>4, <1>6, <4>1
        <4> QED BY <1>4, <3>1, <3>2, <4>2
      <3> QED BY <3>3, <3>4
    <2>2. CASE called \in {None, Synthesis}
      <3>1. called_tasks = done
        BY <1>15, <2>2
      <3>2. IsPrefix(done, tasks) /\ Len(done) - Len(r.results) = 0
        BY <1>4, <1>6, <1>7, <1>12 DEF PrefixOfPlan
      <3>3. ~(Len(done) > Len(r.results))
        BY <1>4, <1>6
      <3> HIDE DEF starts, called_tasks
      <3> QED BY <2>1, <3>1, <3>2, <3>3 DEF CallsFollowPlan, starts, called_tasks
    <2>3. CASE called \notin {None, Synthesis}
      <3> DEFINE more == Append(done, called)
      <3>1. called_tasks = more
        BY <1>15, <2>3
      <3>2. /\ more \in Seq(Tasks) /\ Len(more) = n + 1 /\ n + 1 <= Len(tasks)
            /\ Last(more) = called /\ called = tasks[n + 1]
            /\ \A i \in 1 .. n : more[i] = done[i]
        BY <1>1, <1>4, <1>6, <2>3 DEF Last
      <3> HIDE DEF more
      <3>3. \A i \in 1 .. Len(more) : more[i] = tasks[i]
        <4>1. more[n + 1] = tasks[n + 1]
          BY <1>4, <3>2 DEF Last
        <4>2. \A i \in 1 .. Len(more) : i \in 1 .. n \/ i = n + 1
          BY <1>4, <3>2
        <4> QED BY <1>6, <3>2, <4>1, <4>2
      <3>4. IsPrefix(more, tasks)
        BY <1>1, <3>2, <3>3, PrefixAlong
      <3>5. Spots(ev, "backend_execution_completed", called) = {}
        BY <1>5, <1>11, <2>3 DEF CalledAt
      <3>6. At(r, "backend_execution_completed", Last(more)) = {}
        BY <3>2, <3>5, AtIs
      <3>7. Len(more) - Len(r.results) = 1
        BY <1>4, <3>2
      <3> HIDE DEF starts, called_tasks
      <3> QED BY <2>1, <3>1, <3>4, <3>6, <3>7 DEF CallsFollowPlan, starts, called_tasks
    <2> QED BY <2>2, <2>3
  <1>17. ASSUME NEW k \in 1 .. n
         PROVE  /\ Position(r, "backend_execution_started", tasks[k]) = 3 * k - 2
                /\ Position(r, "backend_execution_completed", tasks[k]) = 3 * k - 1
                /\ Position(r, "task_contract_evaluated", tasks[k]) = 3 * k
                /\ At(r, "task_contract_evaluated", tasks[k]) = {3 * k}
    <2>1. TurnAt(ev, tasks[k], k)
      BY <1>5
    <2>2. /\ Spots(r.events, "backend_execution_started", tasks[k]) = {3 * k - 2}
          /\ Spots(r.events, "backend_execution_completed", tasks[k]) = {3 * k - 1}
          /\ Spots(r.events, "task_contract_evaluated", tasks[k]) = {3 * k}
      BY <2>1 DEF TurnAt
    <2>3. Position(r, "backend_execution_started", tasks[k]) = 3 * k - 2
      BY <2>2, AtIs DEF Position
    <2>4. Position(r, "backend_execution_completed", tasks[k]) = 3 * k - 1
      BY <2>2, AtIs DEF Position
    <2>5. /\ Position(r, "task_contract_evaluated", tasks[k]) = 3 * k
          /\ At(r, "task_contract_evaluated", tasks[k]) = {3 * k}
      BY <2>2, AtIs DEF Position
    <2> QED BY <2>3, <2>4, <2>5
  <1>18. \A i \in 1 .. n : Told(ev, i, results[i])
    BY <1>2 DEF AllTold
  <1>19. EvaluatedAtOnce(r)
    <2>1. ASSUME NEW i \in DOMAIN r.results
          PROVE  LET t == r.results[i].task
                     e == Position(r, "task_contract_evaluated", t)
                 IN /\ e = Position(r, "backend_execution_completed", t) + 1
                    /\ r.events[e].note = r.results[i].verdict
      <3>1. i \in 1 .. n /\ r.results[i].task = tasks[i]
        BY <1>4
      <3>2. 3 * i = (3 * i - 1) + 1
        BY <1>4, <3>1
      <3> QED BY <1>17, <1>18, <3>1, <3>2 DEF Told
    <2> QED BY <1>7, <1>8, <1>15, <2>1 DEF EvaluatedAtOnce
  <1>20. \A i \in DOMAIN r.results : ResultMatchesCall(r, r.results[i])
    <2> TAKE i \in DOMAIN r.results
    <2>1. i \in 1 .. n /\ r.results[i].task = tasks[i]
      BY <1>4
    <2> QED BY <1>17, <1>18, <2>1 DEF ResultMatchesCall, Told
  <1>21. called = Synthesis => AllPassed(r, tasks)
    <2> SUFFICES ASSUME called = Synthesis PROVE AllPassed(r, tasks)
      OBVIOUS
    <2>1. AllValid(results) /\ n = Len(tasks)
      BY <1>6, <1>9, <1>10
    <2>2. done = tasks
      BY <1>1, <1>6, <2>1
    <2> QED BY <1>4, <1>7, <2>1, <2>2 DEF AllPassed, AllValid
  <1>22. SynthesisCompleted(r) <=> answered = Synthesis
    <2>1. At(r, "backend_execution_completed", Synthesis) = If(answered = Synthesis, 3 * n + 2)
      BY <1>5, AtIs DEF SynthesisAt
    <2> QED BY <2>1 DEF SynthesisCompleted, If
  <1>23. StartsInTurn(r, tasks, d)
    <2> DEFINE Passed(t, i) == \E k \in DOMAIN r.results :
                   /\ r.results[k].task = t /\ r.results[k].status = "contract_valid"
                   /\ At(r, "task_contract_evaluated", t) \cap i # {}
               called_tasks == TaskWorks(Of(r, {"backend_execution_started"}))
    <2>1. /\ called_tasks \in Seq(Tasks)
          /\ Len(called_tasks) = n \/ (Len(called_tasks) = n + 1 /\ called \notin {None, Synthesis})
      <3>1. CASE called \in {None, Synthesis}
        <4>1. called_tasks = done
          BY <1>15, <3>1
        <4> QED BY <1>6, <4>1
      <3>2. CASE called \notin {None, Synthesis}
        <4>1. called_tasks = Append(done, called)
          BY <1>15, <3>2
        <4>2. called \in Tasks
          BY <1>6, <3>2
        <4> HIDE DEF called_tasks
        <4> QED BY <1>6, <3>2, <4>1, <4>2
      <3> QED BY <3>1, <3>2
    <2>2. ASSUME NEW k \in 1 .. n, NEW i, 3 * k \in i, results[k].status = "contract_valid"
          PROVE  Passed(tasks[k], i)
      <3>1. k \in DOMAIN r.results /\ r.results[k].task = tasks[k]
        BY <1>4
      <3>2. At(r, "task_contract_evaluated", tasks[k]) \cap i # {}
        BY <1>17, <2>2
      <3> QED BY <2>2, <3>1, <3>2
    <2> HIDE DEF called_tasks
    <2>3. ASSUME NEW k \in DOMAIN called_tasks
          PROVE  LET s == Position(r, "backend_execution_started", tasks[k])
                 IN IF r.mode = "solo"
                    THEN IF k = 1 THEN s = 1 ELSE Passed(tasks[k - 1], {s - 1})
                    ELSE \A t \in d[tasks[k]] : Passed(t, 1 .. s - 1)
      <3> DEFINE s == Position(r, "backend_execution_started", tasks[k])
      <3>1. /\ k \in 1 .. Len(tasks)
            /\ k \in 1 .. n \/ (k = n + 1 /\ called \notin {None, Synthesis})
        BY <1>1, <1>4, <1>6, <2>1
      <3>2. s = 3 * k - 2
        <4>1. CASE k \in 1 .. n
          BY <1>17, <4>1
        <4>2. CASE k = n + 1 /\ called \notin {None, Synthesis}
          <5>1. Spots(ev, "backend_execution_started", tasks[k]) = {3 * n + 1}
            BY <1>5, <1>6, <4>2 DEF CalledAt
          <5>2. s = 3 * n + 1
            BY <5>1, AtIs DEF Position
          <5> QED BY <1>4, <4>2, <5>2
        <4> QED BY <3>1, <4>1, <4>2
      <3>3. \A j \in 1 .. k - 1 : j \in 1 .. n /\ results[j].status = "contract_valid"
        <4> TAKE j \in 1 .. k - 1
        <4>1. CASE k \in 1 .. n
          BY <1>2, <1>4, <4>1
        <4>2. CASE k = n + 1 /\ called \notin {None, Synthesis}
          BY <1>4, <1>10, <4>2 DEF AllValid
        <4> QED BY <3>1, <4>1, <4>2
      <3> HIDE DEF s, Passed
      <3>4. CASE k = 1
        <4>1. s = 1
          BY <3>2, <3>4
        <4>2. \A t \in d[tasks[k]] : FALSE
          BY <1>1, <3>1, <3>4
        <4> QED BY <3>4, <4>1, <4>2 DEF s
      <3>5. CASE k # 1
        <4>1. Passed(tasks[k - 1], {s - 1})
          <5>1. k - 1 \in 1 .. k - 1
            BY <3>1, <3>5
          <5>2. 3 * (k - 1) \in {s - 1}
            BY <3>1, <3>2
          <5> QED BY <2>2, <3>3, <5>1, <5>2
        <4>2. ASSUME NEW t \in d[tasks[k]] PROVE Passed(t, 1 .. s - 1)
          <5>1. PICK j \in 1 .. k - 1 : tasks[j] = t
            BY <1>1, <3>1
          <5>2. 3 * j \in 1 .. s - 1
            BY <3>1, <3>2, <5>1
          <5> QED BY <2>2, <3>3, <5>1, <5>2
        <4> QED BY <3>5, <4>1, <4>2 DEF s
      <3> QED BY <3>4, <3>5
    <2> QED BY <2>3 DEF StartsInTurn, called_tasks
  <1>24. SynthesisInTurn(r, tasks)
    <2>1. ASSUME At(r, "backend_execution_started", Synthesis) # {}
          PROVE  LET s == Position(r, "backend_execution_started", Synthesis)
                     evaluations == {i \in DOMAIN r.events :
                                        r.events[i].event = "task_contract_evaluated"}
                 IN /\ AllPassed(r, tasks)
                    /\ IF r.mode = "solo"
                       THEN s = Position(r, "task_contract_evaluated", Last(tasks)) + 1
                       ELSE \A i \in evaluations : i < s
      <3>1. called = Synthesis
        BY <1>5, <2>1, AtIs DEF SynthesisAt, If
      <3>2. Spots(ev, "backend_execution_started", Synthesis) = {3 * n + 1}
        BY <1>5, <3>1 DEF SynthesisAt, If
      <3>3. Position(r, "backend_execution_started", Synthesis) = 3 * n + 1
        BY <3>2, AtIs DEF Position
      <3>4. n = Len(tasks) /\ n \in 1 .. n
        BY <1>1, <1>4, <1>6, <3>1
      <3>5. Position(r, "task_contract_evaluated", Last(tasks)) = 3 * n
        BY <1>17, <3>4 DEF Last
      <3>6. ASSUME NEW i \in DOMAIN r.events, r.events[i].event = "task_contract_evaluated"
            PROVE  i < 3 * n + 1
        <4> DEFINE w == r.events[i].work
        <4>1. w \in PlanWorks
          BY <1>2, <1>3, <3>6 DEF Named, Telling
        <4>2. i \in Spots(ev, "task_contract_evaluated", w)
          BY <3>6 DEF Spots
        <4> HIDE DEF w
        <4>3. w # Synthesis
          BY <1>5, <4>2 DEF SynthesisAt
        <4>4. PICK k \in 1 .. Len(TaskList) : TaskList[k] = w
          BY <4>1, <4>3, ListedTasks DEF PlanWorks
        <4>5. \E j \in 1 .. n : tasks[j] = w
          <5>1. \A t \in Tasks : Has(tasks, t)
            BY <1>1, AllWhenAsMany DEF Plan, Distinct
          <5> QED BY <3>4, <4>1, <4>3, <5>1 DEF Has, PlanWorks
        <4>6. PICK j \in 1 .. n : tasks[j] = w
          BY <4>5
        <4>7. i = 3 * j
          BY <1>5, <4>2, <4>6 DEF TurnAt
        <4> QED BY <1>4, <4>6, <4>7
      <3> QED BY <1>4, <1>21, <3>1, <3>3, <3>5, <3>6
    <2>2. Len(Of(r, {"synthesis_contract_evaluated"})) = IF SynthesisCompleted(r) THEN 1 ELSE 0
      <3>1. Len(Of(r, {"synthesis_contract_evaluated"})) = Len(Then(<<>>, answered))
        BY <1>3, <1>8, WorksOfRecord
      <3>2. CASE answered = None
        BY <1>9, <1>22, <3>1, <3>2 DEF Then
      <3>3. CASE answered = Synthesis
        <4>1. Then(<<>>, answered) = <<Synthesis>>
          BY <1>9, <3>3 DEF Then
        <4> QED BY <1>22, <3>1, <3>3, <4>1
      <3> QED BY <1>11, <3>2, <3>3
    <2>3. SynthesisCompleted(r) =>
             Position(r, "synthesis_contract_evaluated", Synthesis)
                = Position(r, "backend_execution_completed", Synthesis) + 1
      <3> SUFFICES ASSUME answered = Synthesis
                   PROVE  Position(r, "synthesis_contract_evaluated", Synthesis)
                              = Position(r, "backend_execution_completed", Synthesis) + 1
        BY <1>22
      <3>1. /\ Spots(ev, "backend_execution_completed", Synthesis) = {3 * n + 2}
            /\ Spots(ev, "synthesis_contract_evaluated", Synthesis) = {3 * n + 3}
        BY <1>5 DEF SynthesisAt, If
      <3>2. /\ Position(r, "backend_execution_completed", Synthesis) = 3 * n + 2
            /\ Position(r, "synthesis_contract_evaluated", Synthesis) = 3 * n + 3
        BY <3>1, AtIs DEF Position
      <3> QED BY <1>4, <3>2
    <2> QED BY <2>1, <2>2, <2>3 DEF SynthesisInTurn
  <1> QED BY <1>10, <1>12, <1>13, <1>14, <1>16, <1>19, <1>20, <1>21, <1>22, <1>23, <1>24

-----------------------------------------------------------------------------
(* Records of runs that ended *)

\* The account of a run is that of its trace, which knows of no missing answer
\* if the run does not, and of no shortage of room.
Counted(r) ==
    /\ r.usage = Spent(Chosen(r.events, Metered))
    /\ r.complete => Chosen(r.events, {"backend_execution_failed"}) = <<>>
    /\ Chosen(r.events, {"record_capacity_exceeded"}) = <<>>

\* Results are kept with their outputs.
Retained(results) ==
    \A i \in 1 .. Len(results) : results[i].retention = "inline" /\ ResultWellFormed(results[i])

Unanswered(r) ==
    /\ r.synthesis = None /\ r.output = None /\ r.verdict = None
    /\ Chosen(r.events, {"run_completed"}) = <<>>

\* A run ended between its calls or with a call that came to nothing.
CutShort(r, tasks) ==
    /\ \E called \in PlanWorks \cup {None} :
          Grounded(r.events, r.results, tasks, called, called, None)
    /\ AllValid(r.results) /\ Unanswered(r)
    /\ \/ /\ r.status = "budget_exceeded" /\ r.stop = "budget"
          /\ r.error = "execution_budget_exceeded" /\ r.complete
       \/ r.status = "failed" /\ r.stop = "adapter" /\ r.error = "adapter_error"

\* It ended with a task that was rejected.
TaskRejected(r, tasks) ==
    /\ Grounded(r.events, r.results, tasks, None, None, None)
    /\ Unanswered(r)
    /\ r.results # <<>> /\ r.results[Len(r.results)].status = "contract_rejected"
    /\ r.status = "rejected" /\ r.stop = "quality" /\ r.error \in Errors

\* It ended with its synthesis, accepted or rejected.
Concluded(r, tasks) ==
    LET n == Len(r.results) IN
    /\ Grounded(r.events, r.results, tasks, Synthesis, Synthesis, Synthesis)
    /\ r.output \in Outputs /\ r.output.work = Synthesis /\ r.synthesis \in SynthesisRows
    /\ r.synthesis.ref = Digest(r.output)
    /\ r.synthesis.status = StatusOf(r.output.good)
    /\ r.verdict = Evaluate(r.output)
    /\ r.events[3 * n + 2].usage = r.synthesis.usage /\ r.events[3 * n + 2].ref = r.synthesis.ref
    /\ r.events[3 * n + 3].event = "synthesis_contract_evaluated"
    /\ r.events[3 * n + 3].note = r.verdict
    /\ IF r.output.good
       THEN /\ r.status = "completed" /\ r.stop = "completed" /\ r.error = None /\ r.complete
            /\ Len(r.events) = 3 * n + 4 /\ r.events[3 * n + 4].event = "run_completed"
            /\ r.events[3 * n + 4].note = n
            /\ Len(Chosen(r.events, {"run_completed"})) = 1
       ELSE /\ r.status = "rejected" /\ r.stop = "quality" /\ r.error \in Errors
            /\ Chosen(r.events, {"run_completed"}) = <<>>

\* What execute has when it comes to its end, before its size is looked at.
Closed(r, tasks) ==
    /\ Counted(r) /\ Retained(r.results)
    /\ CutShort(r, tasks) \/ TaskRejected(r, tasks) \/ Concluded(r, tasks)

\* r is q, but for the mode perhaps.
Alike(r, q) ==
    /\ r.status = q.status /\ r.stop = q.stop /\ r.results = q.results
    /\ r.synthesis = q.synthesis /\ r.output = q.output /\ r.verdict = q.verdict
    /\ r.usage = q.usage /\ r.limits = q.limits /\ r.events = q.events
    /\ r.error = q.error /\ r.complete = q.complete

\* The answered synthesis and no other answer than None.
LEMMA NoneApart ==
    /\ \A x \in Outputs : x.work = Synthesis => x # None
    /\ \A x \in SynthesisRows : x.ref.digest.work = Synthesis => x # None
    /\ \A x \in Errors : x # None
    /\ Synthesis # None
  <1>1. ASSUME NEW x \in Outputs, x.work = Synthesis PROVE x # None
    <2>1. x = [work |-> Synthesis, good |-> x.good] /\ x.good \in BOOLEAN
      BY <1>1 DEF Outputs
    <2>2. x \in [work : {Synthesis}, good : BOOLEAN]
      BY <2>1
    <2> QED BY <2>2, NoneAssumption
  <1>2. ASSUME NEW x \in SynthesisRows, x.ref.digest.work = Synthesis PROVE x # None
    <2>1. /\ x.ref.digest = [work |-> Synthesis, good |-> x.ref.digest.good]
          /\ x.ref.digest.good \in BOOLEAN
      BY <1>2 DEF SynthesisRows, Refs, Outputs
    <2>2. x.ref.digest \in [work : {Synthesis}, good : BOOLEAN]
      BY <2>1
    <2>3. x.ref \in [digest : [work : {Synthesis}, good : BOOLEAN]]
      BY <2>2 DEF SynthesisRows, Refs
    <2>4. /\ x = [status |-> x.status, usage |-> x.usage, ref |-> x.ref]
          /\ x.status \in ResultStates /\ x.usage \in Usages
      BY SMT DEF SynthesisRows
    <2>5. x \in [status : {"contract_valid", "contract_rejected"}, usage : Usages,
                 ref : [digest : [work : {Synthesis}, good : BOOLEAN]]]
      BY <2>3, <2>4 DEF ResultStates
    <2> QED BY <2>5, NoneAssumption
  <1>3. \A x \in Errors : x # None
    BY NoneAssumption DEF Errors
  <1> QED BY <1>1, <1>2, <1>3, NoneAssumption

\* With a grounded trace, and an account and an end that fit it, a record passes
\* validation if it may be over its limits.
LEMMA ValidIs ==
    ASSUME NEW r, NEW tasks, NEW d, Plan(d, tasks), NEW called, NEW answered,
           Grounded(r.events, r.results, tasks, called, called, answered),
           AccountedFor(r), r.stop \in StopReasons[r.status],
           CapacityDeclared(r), CompletionDeclared(r),
           CapacityStop(r) \/ (answered = Synthesis <=> r.synthesis # None),
           \A i \in DOMAIN r.results : ResultWellFormed(r.results[i]),
           SynthesisBound(r), StatusHolds(r, tasks)
    PROVE  Valid(r, tasks, d) <=> WithinLimits(r)
  <1>1. /\ PrefixOfPlan(r, tasks) /\ RefersToPlan(r) /\ Paired(r)
        /\ CallsFollowPlan(r, tasks) /\ EvaluatedAtOnce(r)
        /\ StartsInTurn(r, tasks, d) /\ SynthesisInTurn(r, tasks)
        /\ \A i \in DOMAIN r.results : ResultMatchesCall(r, r.results[i])
        /\ SynthesisCompleted(r) <=> answered = Synthesis
    BY TraceHolds
  <1>2. SynthesisCompleted(r) \in BOOLEAN
    BY DEF SynthesisCompleted
  <1>3. CapacityStop(r) \/ SynthesisCompleted(r) = (r.synthesis # None)
    BY <1>1, <1>2
  <1> QED BY <1>1, <1>3 DEF Valid

\* The record of a run that was cut short.
LEMMA CutHolds ==
    ASSUME NEW q \in RunRows, NEW r, Alike(r, q), NEW tasks, NEW d, Plan(d, tasks),
           Closed(q, tasks), CutShort(q, tasks)
    PROVE  Valid(r, tasks, d) <=> WithinLimits(r)
  <1>1. PICK called \in PlanWorks \cup {None} :
            Grounded(q.events, q.results, tasks, called, called, None)
    BY DEF CutShort
  <1>2. /\ q.events \in Seq(EventRows) /\ q.results \in Seq(ResultRows)
        /\ r.events = q.events /\ r.results = q.results
    BY RunFields DEF Alike
  <1>3. Grounded(r.events, r.results, tasks, called, called, None)
    BY <1>1, <1>2
  <1>4. \A kinds : Of(r, kinds) = Chosen(q.events, kinds)
    BY <1>2 DEF Of, Chosen
  <1>5. AccountedFor(r)
    BY <1>4 DEF AccountedFor, Closed, Counted, Alike
  <1>6. /\ r.stop \in StopReasons[r.status] /\ ~CapacityStop(r) /\ Underlying(r) # "completed"
    BY DEF CutShort, Alike, CapacityStop, Underlying, StopReasons
  <1>7. \A i \in DOMAIN r.results : /\ r.results[i].retention = "inline"
                                    /\ ResultWellFormed(r.results[i])
    BY <1>2 DEF Closed, Retained
  <1>8. CapacityDeclared(r)
    BY <1>4, <1>6, <1>7 DEF CapacityDeclared, Closed, Counted
  <1>9. CompletionDeclared(r)
    BY <1>4, <1>6 DEF CompletionDeclared, CutShort, Unanswered
  <1>10. None # Synthesis /\ r.synthesis = None /\ r.output = None /\ r.verdict = None
    BY NoneApart DEF CutShort, Unanswered, Alike
  <1>11. SynthesisBound(r)
    BY <1>10 DEF SynthesisBound
  <1>12. StatusHolds(r, tasks)
    <2>1. \A i \in DOMAIN r.results : r.results[i].status = "contract_valid"
      BY <1>2 DEF CutShort, AllValid
    <2>2. CASE q.status = "budget_exceeded"
      BY <1>10, <2>1, <2>2 DEF StatusHolds, BudgetExceededHolds, CutShort, Alike
    <2>3. CASE q.status = "failed"
      <3>1. r.error # None
        BY <2>3, NoneApart DEF CutShort, Alike, Errors
      <3> QED BY <1>10, <2>1, <2>3, <3>1 DEF StatusHolds, FailedHolds, CutShort, Alike
    <2> QED BY <2>2, <2>3 DEF CutShort
  <1> QED BY <1>3, <1>5, <1>6, <1>7, <1>8, <1>9, <1>10, <1>11, <1>12, ValidIs

\* The record of a run that a task ended.
LEMMA RejectionHolds ==
    ASSUME NEW q \in RunRows, NEW r, Alike(r, q), NEW tasks, NEW d, Plan(d, tasks),
           Closed(q, tasks), TaskRejected(q, tasks)
    PROVE  Valid(r, tasks, d) <=> WithinLimits(r)
  <1>2. /\ q.events \in Seq(EventRows) /\ q.results \in Seq(ResultRows)
        /\ r.events = q.events /\ r.results = q.results
    BY RunFields DEF Alike
  <1>3. Grounded(r.events, r.results, tasks, None, None, None)
    BY <1>2 DEF TaskRejected
  <1>4. \A kinds : Of(r, kinds) = Chosen(q.events, kinds)
    BY <1>2 DEF Of, Chosen
  <1>5. AccountedFor(r)
    BY <1>4 DEF AccountedFor, Closed, Counted, Alike
  <1>6. /\ r.stop \in StopReasons[r.status] /\ ~CapacityStop(r) /\ Underlying(r) # "completed"
    BY DEF TaskRejected, Alike, CapacityStop, Underlying, StopReasons
  <1>7. \A i \in DOMAIN r.results : /\ r.results[i].retention = "inline"
                                    /\ ResultWellFormed(r.results[i])
    BY <1>2 DEF Closed, Retained
  <1>8. CapacityDeclared(r)
    BY <1>4, <1>6, <1>7 DEF CapacityDeclared, Closed, Counted
  <1>9. CompletionDeclared(r)
    BY <1>4, <1>6 DEF CompletionDeclared, TaskRejected, Unanswered
  <1>10. None # Synthesis /\ r.synthesis = None /\ r.output = None /\ r.verdict = None
    BY NoneApart DEF TaskRejected, Unanswered, Alike
  <1>11. SynthesisBound(r)
    BY <1>10 DEF SynthesisBound
  <1>12. StatusHolds(r, tasks)
    <2>1. r.results # <<>> /\ Last(r.results).status = "contract_rejected"
      BY <1>2 DEF TaskRejected, Last
    <2>2. r.error # None
      BY NoneApart DEF TaskRejected, Alike
    <2> QED BY <1>10, <2>1, <2>2 DEF StatusHolds, RejectedHolds, TaskRejected, Alike
  <1> QED BY <1>3, <1>5, <1>6, <1>7, <1>8, <1>9, <1>10, <1>11, <1>12, ValidIs

\* The places of the answer of the synthesis.
LEMMA SynthesisPlaces ==
    ASSUME NEW r, NEW tasks, NEW d, Plan(d, tasks),
           Grounded(r.events, r.results, tasks, Synthesis, Synthesis, Synthesis)
    PROVE  /\ Position(r, "backend_execution_completed", Synthesis) = 3 * Len(r.results) + 2
           /\ Position(r, "synthesis_contract_evaluated", Synthesis) = 3 * Len(r.results) + 3
           /\ SynthesisCompleted(r) /\ AllPassed(r, tasks)
           /\ Len(r.results) = Len(TaskList)
  <1>1. tasks \in Seq(Tasks) /\ Distinct(tasks) /\ Len(tasks) = Len(TaskList)
    BY DEF Plan, Ordered, Distinct
  <1>2. SynthesisAt(r.events, Len(r.results), Synthesis, Synthesis)
    BY <1>1, Places
  <1>3. Position(r, "backend_execution_completed", Synthesis) = 3 * Len(r.results) + 2
    BY <1>2, AtIs DEF Position, SynthesisAt, If
  <1>4. Position(r, "synthesis_contract_evaluated", Synthesis) = 3 * Len(r.results) + 3
    BY <1>2, AtIs DEF Position, SynthesisAt, If
  <1>5. /\ SynthesisCompleted(r) <=> Synthesis = Synthesis
        /\ Synthesis = Synthesis => AllPassed(r, tasks)
    BY TraceHolds
  <1>6. Len(r.results) = Len(tasks)
    <2>1. Synthesis = Following(r.results, tasks) /\ InOrder(r.results, tasks)
      BY NoneApart DEF Grounded, CalledFits
    <2> QED BY <1>1, <2>1, FollowingWork
  <1> QED BY <1>1, <1>3, <1>4, <1>5, <1>6

\* The record of a run that came to its synthesis.
LEMMA ConclusionHolds ==
    ASSUME NEW q \in RunRows, NEW r, Alike(r, q), NEW tasks, NEW d, Plan(d, tasks),
           Closed(q, tasks), Concluded(q, tasks)
    PROVE  Valid(r, tasks, d) <=> WithinLimits(r)
  <1> DEFINE n == Len(r.results)
  <1>2. /\ q.events \in Seq(EventRows) /\ q.results \in Seq(ResultRows)
        /\ r.events = q.events /\ r.results = q.results /\ n \in Nat /\ n = Len(q.results)
    BY RunFields DEF Alike
  <1>3. Grounded(r.events, r.results, tasks, Synthesis, Synthesis, Synthesis)
    BY <1>2 DEF Concluded
  <1>4. \A kinds : Of(r, kinds) = Chosen(q.events, kinds)
    BY <1>2 DEF Of, Chosen
  <1>5. AccountedFor(r)
    BY <1>4 DEF AccountedFor, Closed, Counted, Alike
  <1>6. /\ r.stop \in StopReasons[r.status] /\ ~CapacityStop(r) /\ Underlying(r) = r.status
        /\ r.status = IF q.output.good THEN "completed" ELSE "rejected"
    BY DEF Concluded, Alike, CapacityStop, Underlying, StopReasons
  <1>7. \A i \in DOMAIN r.results : /\ r.results[i].retention = "inline"
                                    /\ ResultWellFormed(r.results[i])
    BY <1>2 DEF Closed, Retained
  <1>8. CapacityDeclared(r)
    BY <1>4, <1>6, <1>7 DEF CapacityDeclared, Closed, Counted
  <1>9. /\ Position(r, "backend_execution_completed", Synthesis) = 3 * n + 2
        /\ Position(r, "synthesis_contract_evaluated", Synthesis) = 3 * n + 3
        /\ SynthesisCompleted(r) /\ AllPassed(r, tasks) /\ n = Len(TaskList)
    BY <1>3, SynthesisPlaces
  <1>10. /\ q.synthesis \in SynthesisRows /\ q.output \in Outputs /\ q.output.work = Synthesis
         /\ q.synthesis.ref = Digest(q.output) /\ q.output.good \in BOOLEAN
         /\ r.synthesis = q.synthesis /\ r.output = q.output /\ r.verdict = q.verdict
         /\ q.synthesis.status = StatusOf(q.output.good) /\ q.verdict = Evaluate(q.output)
    BY SMT DEF Concluded, Alike, Outputs
  <1>11. r.synthesis # None /\ r.output # None
    BY <1>10, NoneApart DEF Digest
  <1>12. /\ r.events[3 * n + 2].usage = r.synthesis.usage
         /\ r.events[3 * n + 2].ref = r.synthesis.ref
         /\ r.events[3 * n + 3].event = "synthesis_contract_evaluated"
         /\ r.events[3 * n + 3].note = r.verdict
    BY <1>2, <1>10 DEF Concluded
  <1>13. SynthesisBound(r)
    <2>1. (IF r.synthesis.status = "contract_valid" THEN "pass" ELSE "reject") = r.verdict
      BY <1>10 DEF StatusOf, Evaluate
    <2> QED BY <1>9, <1>10, <1>11, <1>12, <2>1 DEF SynthesisBound
  <1>14. CompletionDeclared(r) /\ StatusHolds(r, tasks)
    <2>1. CASE q.output.good
      <3>1. /\ r.status = "completed" /\ r.error = None /\ r.complete
            /\ Len(r.events) = 3 * n + 4 /\ r.events[3 * n + 4].event = "run_completed"
            /\ r.events[3 * n + 4].note = n /\ r.verdict = "pass"
            /\ Len(Chosen(q.events, {"run_completed"})) = 1
        BY <1>2, <1>10, <2>1 DEF Concluded, Alike, Evaluate
      <3>2. Len(r.events) - 0 = 3 * n + 4 /\ (3 * n + 4) - 1 = 3 * n + 3
        BY <1>2, <3>1
      <3>3. CompletionDeclared(r)
        BY <1>4, <1>6, <1>9, <1>12, <3>1, <3>2 DEF CompletionDeclared
      <3>4. CompletedHolds(r, tasks)
        BY <1>9, <1>11, <3>1 DEF CompletedHolds
      <3> QED BY <3>1, <3>3, <3>4 DEF StatusHolds
    <2>2. CASE ~q.output.good
      <3>1. /\ r.status = "rejected" /\ r.error \in Errors /\ r.verdict = "reject"
            /\ Chosen(q.events, {"run_completed"}) = <<>>
        BY <1>10, <2>2 DEF Concluded, Alike, Evaluate
      <3>2. CompletionDeclared(r)
        BY <1>4, <1>6, <3>1 DEF CompletionDeclared
      <3>3. RejectedHolds(r, tasks)
        BY <1>9, <1>11, <3>1, NoneApart DEF RejectedHolds
      <3> QED BY <3>1, <3>2, <3>3 DEF StatusHolds
    <2> QED BY <2>1, <2>2
  <1> QED BY <1>3, <1>5, <1>6, <1>7, <1>8, <1>9, <1>11, <1>13, <1>14, ValidIs

\* Whichever way execute came to its end, the record passes if it may be over
\* its limits.
LEMMA EndHolds ==
    ASSUME NEW q \in RunRows, NEW r, Alike(r, q), NEW tasks, NEW d, Plan(d, tasks),
           Closed(q, tasks)
    PROVE  Valid(r, tasks, d) <=> WithinLimits(r)
  BY CutHolds, RejectionHolds, ConclusionHolds DEF Closed

\* What compacting does to a trace: it notes what the run had come to.
LEMMA CompactTrace ==
    ASSUME NEW b \in RunRows
    PROVE  LET e == Noted("record_capacity_exceeded", None, b.status)
               ev == Compact(b).events
           IN /\ e \in EventRows /\ e.event = "record_capacity_exceeded" /\ e.note = b.status
              /\ ev = Append(b.events, e) /\ Len(ev) = Len(b.events) + 1 /\ Len(b.events) \in Nat
              /\ Last(ev) = e /\ \A i \in 1 .. Len(b.events) : ev[i] = b.events[i]
              /\ \A kinds : "record_capacity_exceeded" \notin kinds =>
                    Chosen(ev, kinds) = Chosen(b.events, kinds)
              /\ Chosen(b.events, {"record_capacity_exceeded"}) = <<>> =>
                    Len(Chosen(ev, {"record_capacity_exceeded"})) = 1
  <1> DEFINE e == Noted("record_capacity_exceeded", None, b.status)
             ev == Compact(b).events
  <1>1. /\ "record_capacity_exceeded" \in Kinds /\ None \in WorkIds
        /\ b.status \in Verdicts \cup Statuses \cup Nat
    BY RunFields DEF Kinds, WorkIds
  <1>2. /\ e \in EventRows
        /\ e = [event |-> "record_capacity_exceeded", work |-> None, usage |-> None,
                ref |-> None, note |-> b.status]
    BY <1>1, NotedTyped
  <1>3. e.event = "record_capacity_exceeded" /\ e.note = b.status
    BY <1>2
  <1>4. b.events \in Seq(EventRows) /\ ev = Append(b.events, e)
    BY RunFields, CompactRow
  <1> HIDE DEF e, ev
  <1>5. /\ Len(ev) = Len(b.events) + 1 /\ Len(b.events) \in Nat
        /\ Last(ev) = e /\ \A i \in 1 .. Len(b.events) : ev[i] = b.events[i]
    BY <1>2, <1>4 DEF Last
  <1>6. ASSUME NEW kinds, "record_capacity_exceeded" \notin kinds
        PROVE  Chosen(ev, kinds) = Chosen(b.events, kinds)
    BY <1>2, <1>3, <1>4, <1>6, ChosenAppend
  <1>7. ASSUME Chosen(b.events, {"record_capacity_exceeded"}) = <<>>
        PROVE  Len(Chosen(ev, {"record_capacity_exceeded"})) = 1
    <2> DEFINE kinds == {"record_capacity_exceeded"}
    <2>1. e.event \in kinds /\ Chosen(b.events, kinds) = <<>>
      BY <1>3, <1>7
    <2> HIDE DEF kinds
    <2>2. Chosen(Append(b.events, e), kinds) = Append(Chosen(b.events, kinds), e)
      BY <1>2, <1>4, <2>1, ChosenAppend
    <2>3. Chosen(ev, kinds) = Append(<<>>, e)
      BY <1>4, <2>1, <2>2
    <2> QED BY <2>3 DEF kinds
  <1> QED BY <1>2, <1>3, <1>4, <1>5, <1>6, <1>7 DEF e, ev

\* How a run ended shows in its results.
LEMMA EndsSeen ==
    ASSUME NEW q \in RunRows, NEW tasks, Closed(q, tasks)
    PROVE  /\ \E called, answered :
                 /\ Grounded(q.events, q.results, tasks, called, called, answered)
                 /\ q.status = "completed" => called = Synthesis /\ answered = Synthesis
           /\ q.status = "completed" =>
                 /\ Len(q.events) = 3 * Len(q.results) + 4
                 /\ q.events[3 * Len(q.results) + 4].event = "run_completed"
                 /\ q.events[3 * Len(q.results) + 4].note = Len(q.results)
                 /\ q.events[3 * Len(q.results) + 3].event = "synthesis_contract_evaluated"
                 /\ q.events[3 * Len(q.results) + 3].note = "pass"
                 /\ Len(Chosen(q.events, {"run_completed"})) = 1
           /\ q.status # "completed" => Chosen(q.events, {"run_completed"}) = <<>>
           /\ \A i \in 1 .. Len(q.results) - 1 : q.results[i].status = "contract_valid"
           /\ q.status \in {"completed", "rejected", "failed", "budget_exceeded"}
           /\ q.status = "budget_exceeded" => q.complete
           /\ q.stop # "record"
  <1>1. CASE CutShort(q, tasks)
    BY <1>1 DEF CutShort, Unanswered, Grounded
  <1>2. CASE TaskRejected(q, tasks)
    BY <1>2 DEF TaskRejected, Unanswered, Grounded
  <1>3. CASE Concluded(q, tasks)
    <2>1. Grounded(q.events, q.results, tasks, Synthesis, Synthesis, Synthesis)
      BY <1>3 DEF Concluded
    <2>2. \A i \in 1 .. Len(q.results) - 1 : q.results[i].status = "contract_valid"
      BY <2>1 DEF Grounded
    <2>3. q.verdict = IF q.output.good THEN "pass" ELSE "reject"
      BY <1>3 DEF Concluded, Evaluate
    <2> QED BY <1>3, <2>1, <2>2, <2>3 DEF Concluded
  <1> QED BY <1>1, <1>2, <1>3 DEF Closed

\* The compact record of an ended run passes if it may be over its limits.
LEMMA CompactHolds ==
    ASSUME NEW q \in RunRows, NEW r, Alike(r, Compact(q)), NEW tasks, NEW d, Plan(d, tasks),
           Closed(q, tasks)
    PROVE  Valid(r, tasks, d) <=> WithinLimits(r)
  <1> DEFINE n == Len(q.results)
             e == Noted("record_capacity_exceeded", None, q.status)
  <1>1. /\ q.events \in Seq(EventRows) /\ q.results \in Seq(ResultRows) /\ n \in Nat
        /\ DOMAIN q.results = 1 .. n
    BY RunFields
  <1>2. /\ r.usage = q.usage /\ r.complete = q.complete
        /\ r.status = "failed" /\ r.stop = "record"
        /\ r.error = "execution_record_capacity_exceeded"
        /\ r.synthesis = None /\ r.output = None /\ r.verdict = None
        /\ r.events = Compact(q).events
        /\ r.results = [i \in DOMAIN q.results |-> DigestOnly(q.results[i])]
    BY CompactRow DEF Alike
  <1>3. /\ e \in EventRows /\ e.event = "record_capacity_exceeded" /\ e.note = q.status
        /\ r.events = Append(q.events, e) /\ Len(r.events) = Len(q.events) + 1
        /\ Len(q.events) \in Nat
        /\ Last(r.events) = e /\ \A i \in 1 .. Len(q.events) : r.events[i] = q.events[i]
        /\ \A kinds : "record_capacity_exceeded" \notin kinds =>
              Chosen(r.events, kinds) = Chosen(q.events, kinds)
        /\ Chosen(q.events, {"record_capacity_exceeded"}) = <<>> =>
              Len(Chosen(r.events, {"record_capacity_exceeded"})) = 1
    BY <1>2, CompactTrace
  <1> HIDE DEF e
  <1>4. \A kinds : Of(r, kinds) = Chosen(r.events, kinds)
    BY DEF Of, Chosen
  <1>5. PICK called, answered :
            /\ Grounded(q.events, q.results, tasks, called, called, answered)
            /\ q.status = "completed" => called = Synthesis /\ answered = Synthesis
    BY EndsSeen
  <1>6. Grounded(r.events, r.results, tasks, called, called, answered)
    <2>1. e.event \notin Telling /\ e.event \notin WorkEvents
      BY <1>3 DEF Telling, WorkEvents, Ends
    <2>2. Grounded(r.events, q.results, tasks, called, called, answered)
      BY <1>3, <1>5, <2>1, GroundedOther
    <2> QED BY <1>2, <2>2, GroundedDigests
  <1>7. AccountedFor(r)
    <2>1. "record_capacity_exceeded" \notin Metered
      BY DEF Metered, Ends
    <2> QED BY <1>2, <1>3, <1>4, <2>1 DEF AccountedFor, Closed, Counted
  <1>8. /\ r.stop \in StopReasons[r.status] /\ CapacityStop(r) /\ Underlying(r) = q.status
    BY <1>2, <1>3 DEF CapacityStop, Underlying, StopReasons
  <1>9. /\ r.results \in Seq(ResultRows) /\ DOMAIN r.results = 1 .. n /\ Len(r.results) = n
        /\ \A i \in 1 .. n : r.results[i] = DigestOnly(q.results[i])
    <2>1. InOrder(r.results, tasks)
      BY <1>6 DEF Grounded
    <2>2. r.results \in Seq(ResultRows) /\ DOMAIN r.results = 1 .. n
      BY <1>1, <1>2, <2>1 DEF InOrder
    <2> QED BY <1>1, <1>2, <2>2
  <1>10. ASSUME NEW i \in 1 .. n
         PROVE  /\ r.results[i].retention = "digest_only"
                /\ r.results[i].output = r.results[i].ref
                /\ r.results[i].status = q.results[i].status
                /\ r.results[i].verdict = q.results[i].verdict
                /\ ResultWellFormed(r.results[i])
    <2>1. q.results[i] \in ResultRows
      BY <1>1
    <2>2. /\ r.results[i].retention = "digest_only"
          /\ r.results[i].output = r.results[i].ref
          /\ r.results[i].status = q.results[i].status
          /\ r.results[i].verdict = q.results[i].verdict
      BY <1>9, <2>1, DigestRow
    <2>3. ResultWellFormed(q.results[i])
      BY DEF Closed, Retained
    <2>4. ResultWellFormed(r.results[i])
      BY <2>2, <2>3 DEF ResultWellFormed
    <2> QED BY <2>2, <2>4
  <1>11. CapacityDeclared(r)
    <2>1. Len(Of(r, {"record_capacity_exceeded"})) = 1
      BY <1>3, <1>4 DEF Closed, Counted
    <2>2. \A i \in DOMAIN r.results : r.results[i].retention = "digest_only"
      BY <1>9, <1>10
    <2> QED BY <1>3, <1>8, <2>1, <2>2 DEF CapacityDeclared
  <1>12. CompletionDeclared(r)
    <2>1. Of(r, {"run_completed"}) = Chosen(q.events, {"run_completed"})
      BY <1>3, <1>4
    <2>2. CASE q.status = "completed"
      <3>1. /\ Len(q.events) = 3 * n + 4
            /\ q.events[3 * n + 4].event = "run_completed" /\ q.events[3 * n + 4].note = n
            /\ q.events[3 * n + 3].event = "synthesis_contract_evaluated"
            /\ q.events[3 * n + 3].note = "pass"
            /\ Len(Chosen(q.events, {"run_completed"})) = 1
        BY <2>2, EndsSeen
      <3>2. called = Synthesis /\ answered = Synthesis
        BY <1>5, <2>2
      <3>3. SynthesisCompleted(r) /\ n = Len(TaskList)
        BY <1>6, <1>9, <3>2, SynthesisPlaces
      <3>4. /\ Len(r.events) - 1 = 3 * n + 4 /\ (3 * n + 4) - 1 = 3 * n + 3
            /\ 3 * n + 4 \in 1 .. Len(q.events) /\ 3 * n + 3 \in 1 .. Len(q.events)
        BY <1>1, <1>3, <3>1
      <3>5. r.events[3 * n + 4] = q.events[3 * n + 4] /\ r.events[3 * n + 3] = q.events[3 * n + 3]
        BY <1>3, <3>4
      <3> HIDE DEF n
      <3> QED BY <1>8, <2>1, <2>2, <3>1, <3>3, <3>4, <3>5 DEF CompletionDeclared
    <2>3. CASE q.status # "completed"
      BY <1>8, <2>1, <2>3, EndsSeen DEF CompletionDeclared
    <2> QED BY <2>2, <2>3
  <1>13. SynthesisBound(r)
    BY <1>2 DEF SynthesisBound
  <1>14. StatusHolds(r, tasks)
    <2>1. r.error # None
      BY <1>2, NoneApart DEF Errors
    <2>2. \A i \in DOMAIN r.results :
             r.results[i].status = "contract_valid" \/ i = Len(r.results)
      <3>1. \A i \in 1 .. n - 1 : q.results[i].status = "contract_valid"
        BY EndsSeen
      <3> QED BY <1>1, <1>9, <1>10, <3>1
    <2>3. FailedHolds(r)
      BY <1>2, <2>1, <2>2 DEF FailedHolds
    <2> QED BY <1>2, <2>3 DEF StatusHolds
  <1>15. \A i \in DOMAIN r.results : ResultWellFormed(r.results[i])
    BY <1>9, <1>10
  <1> QED BY <1>6, <1>7, <1>8, <1>11, <1>12, <1>13, <1>14, <1>15, ValidIs

-----------------------------------------------------------------------------
(* The trace of a run *)

\* A run that goes on has kept its account and its results, all of them good.
Underway(r) ==
    Counted(r) /\ Retained(r.results) /\ Unanswered(r) /\ AllValid(r.results)

\* Its trace is that of the tasks done, with the call under way, and when it has
\* ended its record is that of such an end, whole or compacted.
TInv ==
    /\ pc \notin {"planning", "refused"} => order = TopologicalOrder(deps)
    /\ Going => Underway(run)
    /\ Going /\ pc # "calling" =>
          /\ Grounded(run.events, run.results, order, None, None, None)
          /\ Len(run.events) = 3 * Len(run.results)
    /\ pc = "calling" =>
          /\ Grounded(run.events, run.results, order, NextWork, None, None)
          /\ Len(run.events) = 3 * Len(run.results) + 1
    /\ ~Going => \E q \in RunRows : Closed(q, order) /\ (run = q \/ run = Compact(q))

\* An event that is no call's end leaves the account of a trace as it is.
LEMMA CountedOther ==
    ASSUME NEW r, r.events \in Seq(EventRows), NEW e \in EventRows, NEW q,
           q.events = Append(r.events, e), q.usage = r.usage, q.complete = r.complete,
           e.event \notin Ends \cup {"record_capacity_exceeded"}, Counted(r)
    PROVE  Counted(q)
  <1>1. ASSUME NEW kinds \in SUBSET (Ends \cup {"record_capacity_exceeded"})
        PROVE  Chosen(q.events, kinds) = Chosen(r.events, kinds)
    <2>1. e.event \notin kinds
      OBVIOUS
    <2> QED BY <2>1, ChosenAppend
  <1>2. /\ Metered \in SUBSET (Ends \cup {"record_capacity_exceeded"})
        /\ {"backend_execution_failed"} \in SUBSET (Ends \cup {"record_capacity_exceeded"})
        /\ {"record_capacity_exceeded"} \in SUBSET (Ends \cup {"record_capacity_exceeded"})
    BY DEF Metered, Ends
  <1> QED BY <1>1, <1>2 DEF Counted

\* The call that failed is in no account, but the run says that it does not know.
LEMMA CountedFailure ==
    ASSUME NEW r, r.events \in Seq(EventRows), NEW e \in EventRows, NEW q,
           q.events = Append(r.events, e), q.usage = r.usage, q.complete = FALSE,
           e.event = "backend_execution_failed", Counted(r)
    PROVE  Counted(q)
  <1>1. e.event \notin Metered /\ e.event \notin {"record_capacity_exceeded"}
    BY DEF Metered
  <1>2. Chosen(q.events, Metered) = Chosen(r.events, Metered)
    BY <1>1, ChosenAppend
  <1>3. Chosen(q.events, {"record_capacity_exceeded"})
            = Chosen(r.events, {"record_capacity_exceeded"})
    BY <1>1, ChosenAppend
  <1> QED BY <1>2, <1>3 DEF Counted

\* An answer's usage is added.
LEMMA CountedAnswer ==
    ASSUME NEW r, r.events \in Seq(EventRows), NEW e \in EventRows, NEW q,
           q.events = Append(r.events, e), q.usage = Plus(r.usage, e.usage),
           q.complete = r.complete, e.event \in Metered, Counted(r)
    PROVE  Counted(q)
  <1>1. /\ e.event \notin {"backend_execution_failed"}
        /\ e.event \notin {"record_capacity_exceeded"}
    BY DEF Metered, Ends
  <1>2. /\ Chosen(r.events, Metered) \in Seq(EventRows)
        /\ Chosen(q.events, Metered) = Append(Chosen(r.events, Metered), e)
    BY ChosenAppend
  <1>3. Spent(Chosen(q.events, Metered)) = Plus(Spent(Chosen(r.events, Metered)), e.usage)
    BY <1>2, SpentAppend
  <1>4. Chosen(q.events, {"record_capacity_exceeded"})
            = Chosen(r.events, {"record_capacity_exceeded"})
    BY <1>1, ChosenAppend
  <1>5. Chosen(q.events, {"backend_execution_failed"})
            = Chosen(r.events, {"backend_execution_failed"})
    BY <1>1, ChosenAppend
  <1> QED BY <1>3, <1>4, <1>5 DEF Counted

\* Until it says that it is complete a run does not.
LEMMA NotYetCompleted ==
    ASSUME NEW r, r.events \in Seq(EventRows), NEW e \in EventRows, e.event # "run_completed",
           Chosen(r.events, {"run_completed"}) = <<>>
    PROVE  Chosen(Append(r.events, e), {"run_completed"}) = <<>>
  <1>1. e.event \notin {"run_completed"}
    OBVIOUS
  <1> QED BY <1>1, ChosenAppend

\* The plan of a run that has one.
LEMMA PlanFollowed ==
    ASSUME IInv, TInv, pc \notin {"planning", "refused"}
    PROVE  Plan(deps, order)
  <1>1. order = TopologicalOrder(deps) /\ IsPlan(deps) /\ deps \in Dependencies
    BY DEF IInv, TInv
  <1>2. Ordered(deps, TopologicalOrder(deps))
    BY <1>1, OrderFound
  <1> QED BY <1>1, <1>2 DEF Plan, IsPlan

\* The work that comes next is the one that follows the results.
LEMMA NextFollows == NextWork = Following(run.results, order)
  BY DEF NextWork, Following

\* Whatever closes a run.
LEMMA EndTraced ==
    ASSUME IInv, TInv, pc \notin {"planning", "refused"}, UNCHANGED <<deps, order>>,
           NEW b \in RunRows, NEW status \in Statuses, NEW stop \in Stops,
           NEW error \in Errors \cup {None}, FinishAs(b, status, stop, error),
           Closed(Ended(b, status, stop, error), order)
    PROVE  TInv'
  <1> DEFINE q == Ended(b, status, stop, error)
  <1>1. q \in RunRows
    BY EndedRow
  <1>2. Finish(q)
    BY DEF FinishAs, Ended
  <1>3. Closed(q, order)
    OBVIOUS
  <1> HIDE DEF q
  <1>4. (run' = q \/ run' = Compact(q)) /\ pc' \in {"done", "raised"}
    BY <1>2 DEF Finish
  <1>5. \E x \in RunRows : Closed(x, order) /\ (run' = x \/ run' = Compact(x))
    BY <1>1, <1>3, <1>4
  <1>6. order' = order /\ deps' = deps /\ order = TopologicalOrder(deps)
    BY DEF TInv
  <1>7. ~Going' /\ pc' # "calling"
    BY <1>4 DEF Going
  <1>8. \E x \in RunRows : Closed(x, order') /\ (run' = x \/ run' = Compact(x))
    BY <1>5, <1>6
  <1> QED BY <1>6, <1>7, <1>8 DEF TInv

\* An end leaves the account, the trace and the results.
LEMMA EndedAccount ==
    ASSUME NEW b \in RunRows, NEW status \in Statuses, NEW stop \in Stops,
           NEW error \in Errors \cup {None}
    PROVE  LET q == Ended(b, status, stop, error)
           IN /\ q.status = status /\ q.stop = stop /\ q.error = error
              /\ q.events = b.events /\ q.results = b.results /\ q.complete = b.complete
              /\ q.synthesis = b.synthesis /\ q.output = b.output /\ q.verdict = b.verdict
              /\ Counted(b) => Counted(q)
              /\ Unanswered(b) => Unanswered(q)
  <1> DEFINE q == Ended(b, status, stop, error)
  <1>1. /\ q.status = status /\ q.stop = stop /\ q.error = error
        /\ q.events = b.events /\ q.results = b.results /\ q.complete = b.complete
        /\ q.synthesis = b.synthesis /\ q.output = b.output /\ q.verdict = b.verdict
        /\ q.usage = b.usage
    BY EndedRow
  <1> HIDE DEF q
  <1>2. (Counted(b) => Counted(q)) /\ (Unanswered(b) => Unanswered(q))
    BY <1>1 DEF Counted, Unanswered
  <1> QED BY <1>1, <1>2 DEF q

\* A run that is cut short.
LEMMA EndsCut ==
    ASSUME IInv, TInv, pc \notin {"planning", "refused"}, UNCHANGED <<deps, order>>,
           NEW b \in RunRows, NEW called \in PlanWorks \cup {None},
           Grounded(b.events, b.results, order, called, called, None),
           AllValid(b.results), Unanswered(b), Counted(b), Retained(b.results),
           (OutOfBudget(b) /\ b.complete) \/ Fails(b)
    PROVE  TInv'
  <1>1. ASSUME NEW status \in Statuses, NEW stop \in Stops, NEW error \in Errors \cup {None},
               FinishAs(b, status, stop, error),
               \/ status = "budget_exceeded" /\ stop = "budget"
                     /\ error = "execution_budget_exceeded" /\ b.complete
               \/ status = "failed" /\ stop = "adapter" /\ error = "adapter_error"
        PROVE  TInv'
    <2> DEFINE q == Ended(b, status, stop, error)
    <2>1. /\ q.status = status /\ q.stop = stop /\ q.error = error
          /\ q.events = b.events /\ q.results = b.results /\ q.complete = b.complete
          /\ Counted(q) /\ Unanswered(q)
      BY EndedAccount
    <2> HIDE DEF q
    <2>2. CutShort(q, order)
      BY <1>1, <2>1 DEF CutShort
    <2>3. Closed(q, order)
      BY <2>1, <2>2 DEF Closed
    <2> QED BY <1>1, <2>3, EndTraced DEF q
  <1>2. /\ {"budget_exceeded", "failed"} \subseteq Statuses
        /\ {"budget", "adapter"} \subseteq Stops
        /\ {"execution_budget_exceeded", "adapter_error"} \subseteq Errors
    BY DEF Statuses, Stops, Errors
  <1> QED BY <1>1, <1>2 DEF OutOfBudget, Fails

\* Planning notes nothing.
LEMMA PlanningTraced ==
    ASSUME IInv, TInv, CreatePlan \/ RefusePlan \/ AdmitRun
    PROVE  TInv'
  <1>1. CASE CreatePlan
    <2>1. run.results = <<>> /\ run \in RunRows /\ Going /\ pc = "planning"
      BY <1>1 DEF CreatePlan, IInv, Going
    <2>2. Len(run.events) = 0 /\ run.events \in Seq(EventRows)
      BY <2>1, RunFields DEF TInv
    <2>3. run.events = <<>>
      BY <2>2
    <2>4. TopologicalOrder(deps) \in Seq(Tasks)
      BY OrderFound DEF IInv, Ordered
    <2>5. Grounded(run.events, run.results, TopologicalOrder(deps), None, None, None)
      BY <2>1, <2>3, <2>4, GroundedNothing
    <2>6. /\ order' = TopologicalOrder(deps) /\ run' = run /\ deps' = deps
          /\ pc' = "admission"
      BY <1>1 DEF CreatePlan
    <2>7. Len(run.events) = 3 * Len(run.results)
      BY <2>1 DEF TInv
    <2>8. Underway(run) /\ Going'
      BY <2>1, <2>6 DEF TInv, Going
    <2> QED BY <2>5, <2>6, <2>7, <2>8 DEF TInv
  <1>2. CASE RefusePlan
    BY <1>2 DEF TInv, Going, RefusePlan
  <1>3. CASE AdmitRun
    BY <1>3 DEF TInv, Going, AdmitRun
  <1> QED BY <1>1, <1>2, <1>3

\* A run that goes on with its trace longer.
LEMMA GoesOn ==
    ASSUME TInv, UNCHANGED <<deps, order>>, pc \notin {"planning", "refused"}, Underway(run'),
           \/ /\ pc' = "ready" /\ Grounded(run'.events, run'.results, order, None, None, None)
              /\ Len(run'.events) = 3 * Len(run'.results)
           \/ /\ pc' = "calling"
              /\ Grounded(run'.events, run'.results, order, NextWork', None, None)
              /\ Len(run'.events) = 3 * Len(run'.results) + 1
    PROVE  TInv'
  BY DEF TInv, Going

\* Between calls what is noted is a start, or something of no call.
LEMMA WaitingTraced ==
    ASSUME IInv, TInv, RejectRun \/ BlockCall \/ FailPreparation \/ StartCall
    PROVE  TInv'
  <1>1. /\ run \in RunRows /\ Followed(run, order) /\ order \in Seq(Tasks)
        /\ pc \in {"admission", "ready"} /\ Going /\ UNCHANGED <<deps, order>> /\ run.complete
        /\ run.events \in Seq(EventRows) /\ run.results \in Seq(ResultRows)
    BY RunFields DEF IInv, RejectRun, BlockCall, FailPreparation, StartCall, Going, Open
  <1>2. /\ Underway(run) /\ Grounded(run.events, run.results, order, None, None, None)
        /\ Len(run.events) = 3 * Len(run.results)
    BY <1>1 DEF TInv
  <1>3. NextWork \in PlanWorks /\ NextWork \in WorkIds /\ None \in WorkIds
    BY <1>1, NextInOrder DEF PlanWorks, WorkIds
  <1>4. {"run_rejected", "call_blocked", "call_preparation_failed", "backend_execution_started"}
            \subseteq Kinds
    BY DEF Kinds, WorkEvents
  <1>5. ASSUME NEW e \in EventRows,
               e.event \in {"run_rejected", "call_blocked", "call_preparation_failed",
                            "backend_execution_started"}
        PROVE  LET b == Log(run, e)
               IN /\ b \in RunRows /\ b.events = Append(run.events, e) /\ b.results = run.results
                  /\ b.complete /\ Counted(b) /\ Retained(b.results) /\ Unanswered(b)
                  /\ AllValid(b.results)
    <2> DEFINE b == Log(run, e)
    <2>1. /\ b \in RunRows /\ Kept(run, b) /\ b.usage = run.usage /\ b.complete = run.complete
          /\ b.events = Append(run.events, e)
      BY <1>1, Logged, Zenon
    <2> HIDE DEF b
    <2>2. e.event \notin Ends \cup {"record_capacity_exceeded"} /\ e.event # "run_completed"
      BY <1>5 DEF Ends
    <2>3. Counted(b)
      BY <1>1, <1>2, <2>1, <2>2, CountedOther DEF Underway
    <2>4. Chosen(b.events, {"run_completed"}) = <<>>
      BY <1>1, <1>2, <2>1, <2>2, NotYetCompleted DEF Underway, Unanswered
    <2>5. /\ Retained(b.results) /\ AllValid(b.results) /\ Unanswered(b)
          /\ b.results = run.results
      BY <1>2, <2>1, <2>4 DEF Kept, Underway, Unanswered
    <2> QED BY <1>1, <2>1, <2>3, <2>5 DEF b
  <1>6. ASSUME NEW e \in EventRows,
               e.event \in {"run_rejected", "call_blocked", "call_preparation_failed"},
               e.event = "run_rejected" \/ e.work \in PlanWorks,
               OutOfBudget(Log(run, e)) \/ Fails(Log(run, e))
        PROVE  TInv'
    <2>1. e.event \notin Telling /\ (e.event \in WorkEvents => e.work \in PlanWorks)
      BY <1>6 DEF Telling, Ends, WorkEvents
    <2>2. Grounded(Append(run.events, e), run.results, order, None, None, None)
      BY <1>2, <2>1, GroundedOther
    <2> DEFINE b == Log(run, e)
    <2>3. /\ b \in RunRows /\ b.events = Append(run.events, e) /\ b.results = run.results
          /\ b.complete /\ Counted(b) /\ Retained(b.results) /\ Unanswered(b)
          /\ AllValid(b.results)
      BY <1>5, <1>6
    <2>4. OutOfBudget(b) \/ Fails(b)
      BY <1>6
    <2> HIDE DEF b, IInv, TInv
    <2>5. Grounded(b.events, b.results, order, None, None, None) /\ None \in PlanWorks \cup {None}
      BY <2>2, <2>3
    <2> QED BY <1>1, <2>3, <2>4, <2>5, EndsCut
  <1>7. CASE RejectRun
    <2> DEFINE e == Event("run_rejected", None)
    <2>1. e \in EventRows /\ e.event = "run_rejected"
      BY <1>3, <1>4, EventTyped
    <2>2. OutOfBudget(Log(run, e))
      BY <1>7 DEF RejectRun
    <2> HIDE DEF e
    <2> QED BY <1>6, <2>1, <2>2
  <1>8. CASE BlockCall
    <2> DEFINE e == Event("call_blocked", NextWork)
    <2>1. e \in EventRows /\ e.event = "call_blocked" /\ e.work = NextWork
      BY <1>3, <1>4, EventTyped
    <2>2. OutOfBudget(Log(run, e))
      BY <1>8 DEF BlockCall
    <2> HIDE DEF e
    <2> QED BY <1>3, <1>6, <2>1, <2>2
  <1>9. CASE FailPreparation
    <2> DEFINE e == Event("call_preparation_failed", NextWork)
    <2>1. e \in EventRows /\ e.event = "call_preparation_failed" /\ e.work = NextWork
      BY <1>3, <1>4, EventTyped
    <2>2. Fails(Log(run, e))
      BY <1>9 DEF FailPreparation
    <2> HIDE DEF e
    <2> QED BY <1>3, <1>6, <2>1, <2>2
  <1>10. CASE StartCall
    <2> DEFINE e == Event("backend_execution_started", NextWork)
               b == Log(run, e)
    <2>1. e \in EventRows /\ e.event = "backend_execution_started" /\ e.work = NextWork
      BY <1>3, <1>4, EventTyped
    <2>2. run' = b /\ pc' = "calling"
      BY <1>10 DEF StartCall
    <2>3. /\ b \in RunRows /\ b.events = Append(run.events, e) /\ b.results = run.results
          /\ b.complete /\ Counted(b) /\ Retained(b.results) /\ Unanswered(b)
          /\ AllValid(b.results)
      BY <1>5, <2>1
    <2> HIDE DEF e, b
    <2>4. AllValid(run.results) /\ NextWork = Following(run.results, order)
      BY <1>2, NextFollows DEF Underway
    <2>5. /\ Grounded(Append(run.events, e), run.results, order, NextWork, None, None)
          /\ Len(Append(run.events, e)) = 3 * Len(run.results) + 1
      <3> DEFINE w == Following(run.results, order)
      <3>1. NextWork = w /\ w = Following(run.results, order) /\ e.work = w
        BY <2>1, <2>4
      <3> HIDE DEF w
      <3>2. /\ order \in Seq(Tasks) /\ Grounded(run.events, run.results, order, None, None, None)
            /\ AllValid(run.results) /\ Len(run.events) = 3 * Len(run.results)
            /\ w = Following(run.results, order)
            /\ e \in EventRows /\ e.event = "backend_execution_started" /\ e.work = w
        BY <1>1, <1>2, <2>1, <2>4, <3>1
      <3>3. /\ Grounded(Append(run.events, e), run.results, order, w, None, None)
            /\ Len(Append(run.events, e)) = 3 * Len(run.results) + 1
        BY ONLY <3>2, GroundedStart
      <3> QED BY <3>1, <3>3
    <2>6. NextWork' = NextWork
      BY <1>1, <2>2, <2>3 DEF NextWork
    <2>7. Underway(run')
      BY <2>2, <2>3 DEF Underway
    <2>8. /\ Grounded(run'.events, run'.results, order, NextWork', None, None)
          /\ Len(run'.events) = 3 * Len(run'.results) + 1
      BY <2>2, <2>3, <2>5, <2>6
    <2> QED BY <1>1, <2>2, <2>7, <2>8, GoesOn
  <1> QED BY <1>7, <1>8, <1>9, <1>10

\* A call that ended with nothing that counts.
LEMMA MissTraced ==
    ASSUME IInv, TInv, pc = "calling", UNCHANGED <<deps, order>>,
           NEW e \in EventRows, e.event \in Misses, e.work = NextWork,
           NEW b \in RunRows, Kept(run, b), b.events = Append(run.events, e), Counted(b),
           (OutOfBudget(b) /\ b.complete) \/ Fails(b)
    PROVE  TInv'
  <1>1. /\ run \in RunRows /\ Followed(run, order) /\ order \in Seq(Tasks) /\ Going
        /\ run.events \in Seq(EventRows)
    BY RunFields DEF IInv, Going
  <1>2. /\ Underway(run) /\ Grounded(run.events, run.results, order, NextWork, None, None)
        /\ Len(run.events) = 3 * Len(run.results) + 1
    BY <1>1 DEF TInv
  <1>3. NextWork \in PlanWorks /\ NextWork # None
    BY <1>1, NextInOrder, KindsApart DEF PlanWorks
  <1>4. Grounded(Append(run.events, e), run.results, order, NextWork, NextWork, None)
    <2>1. /\ order \in Seq(Tasks) /\ NextWork # None /\ e \in EventRows /\ e.event \in Misses
          /\ e.work = NextWork /\ Len(run.events) = 3 * Len(run.results) + 1
          /\ Grounded(run.events, run.results, order, NextWork, None, None)
      BY <1>1, <1>2, <1>3
    <2> QED BY ONLY <2>1, GroundedMiss
  <1>5. e.event # "run_completed"
    BY DEF Misses, Ends
  <1>6. Chosen(b.events, {"run_completed"}) = <<>>
    BY <1>1, <1>2, <1>5, NotYetCompleted DEF Underway, Unanswered
  <1>7. /\ Retained(b.results) /\ AllValid(b.results) /\ Unanswered(b)
        /\ Grounded(b.events, b.results, order, NextWork, NextWork, None)
    BY <1>2, <1>4, <1>6 DEF Kept, Underway, Unanswered
  <1>8. NextWork \in PlanWorks \cup {None} /\ pc \notin {"planning", "refused"}
    BY <1>3
  <1> HIDE DEF IInv, TInv
  <1> QED BY <1>7, <1>8, EndsCut

\* The call that failed.
LEMMA FailureTraced ==
    ASSUME IInv, TInv, CallFailed
    PROVE  TInv'
  <1>1. /\ run \in RunRows /\ Followed(run, order) /\ order \in Seq(Tasks) /\ Going
        /\ pc = "calling" /\ UNCHANGED <<deps, order>> /\ run.events \in Seq(EventRows)
    BY RunFields DEF IInv, CallFailed, Going
  <1>2. NextWork \in WorkIds
    BY <1>1, NextInOrder DEF WorkIds
  <1> DEFINE e == Event("backend_execution_failed", NextWork)
             l == Log(run, e)
             b == Failed(run, NextWork)
  <1>3. e \in EventRows /\ e.event = "backend_execution_failed" /\ e.work = NextWork
    <2>1. "backend_execution_failed" \in Kinds
      BY DEF Kinds, WorkEvents, Ends
    <2> QED BY <1>2, <2>1, EventTyped
  <1>4. b = [l EXCEPT !.complete = FALSE]
    BY DEF Failed
  <1>5. Fails(b)
    BY DEF CallFailed
  <1> HIDE DEF e, b
  <1>6. /\ l \in RunRows /\ Kept(run, l) /\ l.usage = run.usage
        /\ l.events = Append(run.events, e)
    BY <1>1, <1>3, Logged, Zenon
  <1> HIDE DEF l
  <1>7. b \in RunRows
    BY <1>4, <1>6, RunUpdates
  <1>8. b.complete = FALSE /\ Kept(l, b) /\ b.usage = l.usage /\ b.events = l.events
    BY <1>4, <1>6, SMTT(30) DEF RunRows, Kept
  <1>9. Kept(run, b) /\ b.usage = run.usage /\ b.events = Append(run.events, e)
    BY <1>6, <1>8 DEF Kept
  <1>10. Counted(b)
    <2>1. Counted(run)
      BY <1>1 DEF TInv, Underway
    <2> QED BY <1>1, <1>3, <1>8, <1>9, <2>1, CountedFailure
  <1>11. e.event \in Misses
    BY <1>3 DEF Misses, Ends
  <1> HIDE DEF IInv, TInv
  <1> QED BY <1>1, <1>3, <1>5, <1>7, <1>9, <1>10, <1>11, MissTraced

\* An answer that is refused.
LEMMA RefusalTraced ==
    ASSUME IInv, TInv, NEW u \in Usages, RejectOverrun(u) \/ RejectAnswer(u)
    PROVE  TInv'
  <1>1. /\ run \in RunRows /\ Followed(run, order) /\ order \in Seq(Tasks) /\ Going
        /\ pc = "calling" /\ UNCHANGED <<deps, order>> /\ run.events \in Seq(EventRows)
        /\ run.complete
    BY RunFields DEF IInv, RejectOverrun, RejectAnswer, Going, Open
  <1>2. NextWork \in WorkIds
    BY <1>1, NextInOrder DEF WorkIds
  <1>3. ASSUME NEW kind \in {"backend_response_rejected", "backend_response_invalid",
                             "backend_response_incomplete"},
               \/ OutOfBudget(Answered(u, Event(kind, NextWork)))
               \/ Fails(Answered(u, Event(kind, NextWork)))
        PROVE  TInv'
    <2> DEFINE a == Answered(u, Event(kind, NextWork))
               e == Billed(kind, NextWork, u)
    <2>1. kind \in Kinds
      BY DEF Kinds, WorkEvents, Ends
    <2>2. e \in EventRows /\ e.event = kind /\ e.work = NextWork /\ e.usage = u
      BY <1>2, <2>1, BilledTyped
    <2>3. [Event(kind, NextWork) EXCEPT !.usage = u] = e
      BY DEF Billed
    <2>4. [Event(kind, NextWork) EXCEPT !.usage = u] \in EventRows
      BY <2>2, <2>3, Zenon
    <2>5. /\ a \in RunRows /\ Kept(run, a) /\ a.usage = Plus(run.usage, u)
          /\ a.complete = run.complete
          /\ a.events = Append(run.events, [Event(kind, NextWork) EXCEPT !.usage = u])
      BY <1>1, <2>4, AnsweredRow, Zenon
    <2>6. a.events = Append(run.events, e)
      BY <2>3, <2>5, Zenon
    <2>7. OutOfBudget(a) \/ Fails(a)
      BY <1>3
    <2> HIDE DEF a, e
    <2>8. Counted(a)
      <3>1. Counted(run) /\ e.event \in Metered
        BY <1>1, <2>2 DEF TInv, Underway, Metered, Ends
      <3>2. a.usage = Plus(run.usage, e.usage)
        BY <2>2, <2>5
      <3> QED BY <1>1, <2>2, <2>5, <2>6, <3>1, <3>2, CountedAnswer
    <2>9. e.event \in Misses
      BY <2>2 DEF Misses, Ends
    <2>10. (OutOfBudget(a) /\ a.complete) \/ Fails(a)
      BY <1>1, <2>5, <2>7
    <2> HIDE DEF IInv, TInv
    <2> QED BY <1>1, <2>2, <2>5, <2>6, <2>8, <2>9, <2>10, MissTraced
  <1>4. CASE RejectOverrun(u)
    BY <1>3, <1>4 DEF RejectOverrun
  <1>5. CASE RejectAnswer(u)
    BY <1>3, <1>5 DEF RejectAnswer
  <1> QED BY <1>4, <1>5

\* The answer to the current call and its evaluation, as c has them at the end.
Evaluated(c, e, v, u, good, evaluation) ==
    LET output == [work |-> NextWork, good |-> good] IN
    /\ e.event = "backend_execution_completed" /\ e.work = NextWork
    /\ e.usage = u /\ e.ref = Digest(output)
    /\ v.event = evaluation /\ v.work = NextWork /\ v.note = Evaluate(output)
    /\ c \in RunRows /\ Kept(run, c) /\ c.complete /\ Counted(c)
    /\ c.events = Append(Append(run.events, e), v)
    /\ Chosen(c.events, {"run_completed"}) = <<>>

\* An answer that is evaluated has its two events.
LEMMA CompletedTraced ==
    ASSUME IInv, TInv, pc = "calling", NEW u \in Usages, NEW good \in BOOLEAN, ~Over(u),
           NEW evaluation \in {"task_contract_evaluated", "synthesis_contract_evaluated"}
    PROVE  \E e \in EventRows, v \in EventRows :
             Evaluated(Completed(u, good, evaluation), e, v, u, good, evaluation)
  <1> DEFINE c == Completed(u, good, evaluation)
             output == [work |-> NextWork, good |-> good]
             e == Delivered("backend_execution_completed", NextWork, u, Digest(output))
             v == Noted(evaluation, NextWork, Evaluate(output))
  <1>1. /\ run \in RunRows /\ Followed(run, order) /\ order \in Seq(Tasks) /\ Going
        /\ run.events \in Seq(EventRows) /\ run.complete /\ run.usage = billed
    BY RunFields DEF IInv, Going, Open
  <1>2. NextWork \in WorkIds
    BY <1>1, NextInOrder DEF WorkIds
  <1>3. /\ c \in RunRows /\ Kept(run, c) /\ c.usage = Plus(billed, u) /\ c.complete
        /\ Digest(output) \in Refs /\ Evaluate(output) \in Verdicts
        /\ c.events = Append(Append(run.events, e), v)
    BY CompletedFits
  <1> HIDE DEF output
  <1>4. /\ e \in EventRows /\ e.event = "backend_execution_completed" /\ e.work = NextWork
        /\ e.usage = u /\ e.ref = Digest(output)
    <2>1. "backend_execution_completed" \in Kinds
      BY DEF Kinds, WorkEvents, Ends
    <2> QED BY <1>2, <1>3, <2>1, BilledTyped
  <1>5. v \in EventRows /\ v.event = evaluation /\ v.work = NextWork /\ v.note = Evaluate(output)
    <2>1. evaluation \in Kinds /\ Evaluate(output) \in Verdicts \cup Statuses \cup Nat
      BY <1>3 DEF Kinds
    <2>2. /\ v \in EventRows
          /\ v = [event |-> evaluation, work |-> NextWork, usage |-> None, ref |-> None,
                  note |-> Evaluate(output)]
      BY <1>2, <2>1, NotedTyped
    <2> HIDE DEF v
    <2> QED BY <2>2
  <1> HIDE DEF c, e, v
  <1>6. Counted(run) /\ Chosen(run.events, {"run_completed"}) = <<>>
    BY <1>1 DEF TInv, Underway, Unanswered
  <1>7. Counted(c)
    <2> DEFINE a == [usage |-> Plus(run.usage, u), complete |-> TRUE,
                     events |-> Append(run.events, e)]
    <2>1. /\ a.usage = Plus(run.usage, e.usage) /\ a.complete = run.complete
          /\ a.events = Append(run.events, e) /\ a.events \in Seq(EventRows)
      BY <1>1, <1>4
    <2>2. /\ c.events = Append(a.events, v) /\ c.usage = a.usage /\ c.complete = a.complete
      BY <1>1, <1>3, <1>4
    <2> HIDE DEF a
    <2>3. e.event \in Metered
      BY <1>4 DEF Metered, Ends
    <2>4. Counted(a)
      BY <1>1, <1>4, <1>6, <2>1, <2>3, CountedAnswer
    <2>5. v.event \notin Ends \cup {"record_capacity_exceeded"}
      BY <1>5 DEF Ends
    <2> QED BY <1>5, <2>1, <2>2, <2>4, <2>5, CountedOther
  <1>8. Chosen(c.events, {"run_completed"}) = <<>>
    <2> DEFINE a == [events |-> Append(run.events, e)]
    <2>1. a.events \in Seq(EventRows) /\ a.events = Append(run.events, e)
      BY <1>1, <1>4
    <2> HIDE DEF a
    <2>2. e.event # "run_completed" /\ v.event # "run_completed"
      BY <1>4, <1>5
    <2>3. Chosen(a.events, {"run_completed"}) = <<>>
      BY <1>1, <1>4, <1>6, <2>1, <2>2, NotYetCompleted
    <2>4. Chosen(Append(a.events, v), {"run_completed"}) = <<>>
      BY <1>5, <2>1, <2>2, <2>3, NotYetCompleted
    <2> QED BY <1>3, <2>1, <2>4
  <1> QED BY <1>3, <1>4, <1>5, <1>7, <1>8 DEF c, output, Evaluated

\* One good result more.
LEMMA ResultsMore ==
    ASSUME NEW results \in Seq(ResultRows), NEW x \in ResultRows, Retained(results),
           x.retention = "inline", ResultWellFormed(x)
    PROVE  /\ Append(results, x) \in Seq(ResultRows) /\ Retained(Append(results, x))
           /\ Append(results, x) # <<>> /\ Len(Append(results, x)) = Len(results) + 1
           /\ Append(results, x)[Len(Append(results, x))] = x
           /\ AllValid(results) /\ x.status = "contract_valid" => AllValid(Append(results, x))
  <1> DEFINE more == Append(results, x)
  <1>1. /\ more \in Seq(ResultRows) /\ Len(more) = Len(results) + 1 /\ Len(results) \in Nat
        /\ more[Len(results) + 1] = x /\ \A i \in 1 .. Len(results) : more[i] = results[i]
    OBVIOUS
  <1>2. more # <<>> /\ \A i \in 1 .. Len(more) : i \in 1 .. Len(results) \/ i = Len(results) + 1
    BY <1>1
  <1> HIDE DEF more
  <1>3. Retained(more)
    BY <1>1, <1>2 DEF Retained
  <1>4. AllValid(results) /\ x.status = "contract_valid" => AllValid(more)
    BY <1>1, <1>2 DEF AllValid
  <1> QED BY <1>1, <1>2, <1>3, <1>4 DEF more

\* A task that was answered.
LEMMA TaskTraced ==
    ASSUME IInv, TInv, NEW u \in Usages, NEW good \in BOOLEAN, CompleteTask(u, good)
    PROVE  TInv'
  <1>1. /\ run \in RunRows /\ Followed(run, order) /\ order \in Seq(Tasks) /\ Going
        /\ pc = "calling" /\ UNCHANGED <<deps, order>> /\ ~Over(u) /\ NextWork # Synthesis
        /\ run.events \in Seq(EventRows) /\ run.results \in Seq(ResultRows)
    BY RunFields DEF IInv, CompleteTask, Going
  <1>2. NextWork \in Tasks
    BY <1>1, NextInOrder
  <1>3. /\ Underway(run) /\ Grounded(run.events, run.results, order, NextWork, None, None)
        /\ Len(run.events) = 3 * Len(run.results) + 1
    BY <1>1 DEF TInv
  <1> DEFINE c == Completed(u, good, "task_contract_evaluated")
             output == [work |-> NextWork, good |-> good]
             x == Result(u, good)
             more == Append(run.results, x)
             r == [c EXCEPT !.results = Append(@, x)]
  <1>4. PICK e \in EventRows, v \in EventRows :
            Evaluated(c, e, v, u, good, "task_contract_evaluated")
    BY <1>1, CompletedTraced
  <1>17. /\ e.event = "backend_execution_completed" /\ e.work = NextWork
         /\ e.usage = u /\ e.ref = Digest(output)
         /\ v.event = "task_contract_evaluated" /\ v.work = NextWork
         /\ v.note = Evaluate(output)
         /\ c \in RunRows /\ Kept(run, c) /\ c.complete /\ Counted(c)
         /\ c.events = Append(Append(run.events, e), v)
         /\ Chosen(c.events, {"run_completed"}) = <<>>
    BY <1>4 DEF Evaluated
  <1>5. /\ x \in ResultRows /\ x.task = NextWork /\ x.usage = e.usage /\ x.ref = e.ref
        /\ x.verdict = v.note /\ x.retention = "inline" /\ x.status = StatusOf(good)
        /\ ResultWellFormed(x)
    <2>1. /\ x \in ResultRows
          /\ x = [status |-> StatusOf(good), verdict |-> Evaluate(output),
                  usage |-> u, ref |-> Digest(output), task |-> NextWork,
                  output |-> output, retention |-> "inline"]
      BY <1>2, ResultRow
    <2>2. StatusOf(good)
             = IF Evaluate(output) = "pass" THEN "contract_valid" ELSE "contract_rejected"
      BY DEF StatusOf, Evaluate
    <2> HIDE DEF x, output
    <2>3. /\ x.task = NextWork /\ x.usage = u /\ x.ref = Digest(output)
          /\ x.verdict = Evaluate(output) /\ x.retention = "inline" /\ x.status = StatusOf(good)
          /\ x.output = output
      BY <2>1
    <2>4. ResultWellFormed(x)
      BY <2>2, <2>3 DEF ResultWellFormed
    <2> QED BY <1>17, <2>1, <2>3, <2>4
  <1>6. /\ \/ ~good /\ FinishAs(r, "rejected", "quality", "task_accept_spec_rejected")
           \/ good /\ Fails(Log(r, Event("call_preparation_failed", Synthesis)))
           \/ good /\ run' = r /\ pc' = "ready"
    BY DEF CompleteTask
  <1> HIDE DEF c, output, x, r
  <1>7. /\ more \in Seq(ResultRows) /\ Retained(more) /\ more # <<>>
        /\ Len(more) = Len(run.results) + 1 /\ more[Len(more)] = x
        /\ x.status = "contract_valid" => AllValid(more)
    BY <1>1, <1>3, <1>5, ResultsMore DEF Underway
  <1>8. /\ r \in RunRows /\ r.results = more /\ r.usage = c.usage /\ r.complete = c.complete
        /\ r.events = c.events /\ r.synthesis = c.synthesis /\ r.output = c.output
        /\ r.verdict = c.verdict
    <2>1. c.results = run.results
      BY <1>17 DEF Kept
    <2>2. r = WithResults(c, more)
      BY <2>1 DEF WithResults, r
    <2> HIDE DEF more
    <2>3. /\ WithResults(c, more) \in RunRows /\ WithResults(c, more).results = more
          /\ \A f \in {"usage", "complete", "limits", "status", "stop", "events", "mode",
                        "error", "synthesis", "output", "verdict"} :
                 WithResults(c, more)[f] = c[f]
      BY <1>17, <1>7, ResultsSet
    <2> QED BY <2>2, <2>3
  <1>9. /\ Grounded(r.events, r.results, order, None, None, None)
        /\ Len(r.events) = 3 * Len(r.results)
    <2> DEFINE ev == run.events
               results == run.results
               t == NextWork
    <2>1. /\ order \in Seq(Tasks) /\ t \in Tasks
          /\ Grounded(ev, results, order, t, None, None)
          /\ Len(ev) = 3 * Len(results) + 1
          /\ e.event = "backend_execution_completed" /\ e.work = t
          /\ v.event = "task_contract_evaluated" /\ v.work = t
          /\ x \in ResultRows /\ x.task = t /\ x.usage = e.usage /\ x.ref = e.ref
          /\ x.verdict = v.note /\ e \in EventRows /\ v \in EventRows
      BY <1>1, <1>2, <1>3, <1>17, <1>5
    <2> HIDE DEF ev, results, t
    <2>2. /\ Grounded(Append(Append(ev, e), v), Append(results, x), order, None, None, None)
          /\ Len(Append(Append(ev, e), v)) = 3 * Len(Append(results, x))
      BY <2>1, GroundedTask
    <2>3. r.events = Append(Append(run.events, e), v) /\ r.results = Append(run.results, x)
      BY <1>17, <1>8
    <2> QED BY <2>2, <2>3 DEF ev, results
  <1>10. Counted(r) /\ Retained(r.results) /\ Unanswered(r)
    <2>1. Unanswered(run)
      BY <1>3 DEF Underway
    <2>2. Unanswered(r)
      BY <1>17, <1>8, <2>1 DEF Unanswered, Kept
    <2>3. Counted(r)
      BY <1>17, <1>8 DEF Counted
    <2> QED BY <1>7, <1>8, <2>2, <2>3
  <1> HIDE DEF more
  <1>11. pc \notin {"planning", "refused"}
    BY <1>1
  <1>12. CASE ~good /\ FinishAs(r, "rejected", "quality", "task_accept_spec_rejected")
    <2> DEFINE q == Ended(r, "rejected", "quality", "task_accept_spec_rejected")
    <2>1. /\ "rejected" \in Statuses /\ "quality" \in Stops
          /\ "task_accept_spec_rejected" \in Errors
      BY DEF Statuses, Stops, Errors
    <2>2. /\ q.status = "rejected" /\ q.stop = "quality" /\ q.error = "task_accept_spec_rejected"
          /\ q.events = r.events /\ q.results = r.results
          /\ Counted(q) /\ Unanswered(q)
      BY <1>8, <1>10, <2>1, EndedAccount
    <2> HIDE DEF q
    <2>3. x.status = "contract_rejected"
      BY <1>5, <1>12 DEF StatusOf
    <2>4. TaskRejected(q, order)
      BY <1>7, <1>8, <1>9, <2>1, <2>2, <2>3 DEF TaskRejected
    <2>5. Closed(q, order)
      BY <1>10, <2>2, <2>4 DEF Closed
    <2> HIDE DEF IInv, TInv
    <2> QED BY <1>1, <1>8, <1>11, <1>12, <2>1, <2>5, EndTraced DEF q
  <1>13. AllValid(r.results) \/ ~good
    BY <1>5, <1>7, <1>8 DEF StatusOf
  <1>14. CASE good /\ Fails(Log(r, Event("call_preparation_failed", Synthesis)))
    <2> DEFINE f == Event("call_preparation_failed", Synthesis)
               l == Log(r, f)
    <2>1. f \in EventRows /\ f.event = "call_preparation_failed" /\ f.work = Synthesis
      <3>1. "call_preparation_failed" \in Kinds /\ Synthesis \in WorkIds
        BY DEF Kinds, WorkEvents, WorkIds
      <3> QED BY <3>1, EventTyped
    <2>2. Fails(l)
      BY <1>14
    <2> HIDE DEF f
    <2>3. /\ l \in RunRows /\ Kept(r, l) /\ l.usage = r.usage /\ l.complete = r.complete
          /\ l.events = Append(r.events, f)
      BY <1>8, <2>1, Logged, Zenon
    <2> HIDE DEF l
    <2>4. r.events \in Seq(EventRows)
      BY <1>8, RunFields
    <2>5. f.event \notin Telling /\ (f.event \in WorkEvents => f.work \in PlanWorks)
      BY <2>1 DEF Telling, Ends, WorkEvents, PlanWorks
    <2>6. Grounded(l.events, l.results, order, None, None, None)
      <3>1. Grounded(Append(r.events, f), r.results, order, None, None, None)
        BY <1>9, <2>1, <2>5, GroundedOther
      <3> QED BY <2>3, <3>1 DEF Kept
    <2>7. Counted(l)
      <3>1. f.event \notin Ends \cup {"record_capacity_exceeded"}
        BY <2>1 DEF Ends
      <3> QED BY <1>10, <2>1, <2>3, <2>4, <3>1, CountedOther
    <2>8. Chosen(l.events, {"run_completed"}) = <<>>
      BY <1>10, <2>1, <2>3, <2>4, NotYetCompleted DEF Unanswered
    <2>9. Unanswered(l) /\ Retained(l.results) /\ AllValid(l.results)
      BY <1>10, <1>13, <1>14, <2>3, <2>8 DEF Unanswered, Kept
    <2>10. None \in PlanWorks \cup {None}
      OBVIOUS
    <2> HIDE DEF IInv, TInv
    <2> QED BY <1>1, <1>11, <2>2, <2>3, <2>6, <2>7, <2>9, <2>10, EndsCut
  <1>15. CASE good /\ run' = r /\ pc' = "ready"
    <2>1. Underway(run')
      BY <1>10, <1>13, <1>15 DEF Underway
    <2>2. /\ Grounded(run'.events, run'.results, order, None, None, None)
          /\ Len(run'.events) = 3 * Len(run'.results)
      BY <1>9, <1>15
    <2> HIDE DEF TInv
    <2> QED BY <1>1, <1>11, <1>15, <2>1, <2>2, GoesOn
  <1> QED BY <1>6, <1>12, <1>14, <1>15

\* What a run has of its synthesis before it ends.
SynthesisGiven(r, n) ==
    /\ r.output \in Outputs /\ r.output.work = Synthesis /\ r.synthesis \in SynthesisRows
    /\ r.synthesis.ref = Digest(r.output)
    /\ r.synthesis.status = StatusOf(r.output.good)
    /\ r.verdict = Evaluate(r.output)
    /\ r.events[3 * n + 2].usage = r.synthesis.usage /\ r.events[3 * n + 2].ref = r.synthesis.ref
    /\ r.events[3 * n + 3].event = "synthesis_contract_evaluated"
    /\ r.events[3 * n + 3].note = r.verdict

\* A synthesis that was answered.
LEMMA SynthesisTraced ==
    ASSUME IInv, TInv, NEW u \in Usages, NEW good \in BOOLEAN, CompleteSynthesis(u, good)
    PROVE  TInv'
  <1>1. /\ run \in RunRows /\ Followed(run, order) /\ order \in Seq(Tasks) /\ Going
        /\ pc = "calling" /\ UNCHANGED <<deps, order>> /\ ~Over(u) /\ NextWork = Synthesis
        /\ run.events \in Seq(EventRows) /\ run.results \in Seq(ResultRows)
    BY RunFields DEF IInv, CompleteSynthesis, Going
  <1> DEFINE n == Len(run.results)
             c == Completed(u, good, "synthesis_contract_evaluated")
             output == [work |-> Synthesis, good |-> good]
             synthesis == [status |-> StatusOf(good), usage |-> u, ref |-> Digest(output)]
             verdict == Evaluate(output)
             r == [c EXCEPT !.output = output, !.verdict = verdict, !.synthesis = synthesis]
             f == Noted("run_completed", None, n)
  <1>2. /\ Underway(run) /\ Grounded(run.events, run.results, order, Synthesis, None, None)
        /\ Len(run.events) = 3 * n + 1 /\ n \in Nat
    BY <1>1 DEF TInv
  <1>3. PICK e \in EventRows, v \in EventRows :
            Evaluated(c, e, v, u, good, "synthesis_contract_evaluated")
    BY <1>1, CompletedTraced
  <1>4. /\ e.event = "backend_execution_completed" /\ e.work = Synthesis
        /\ e.usage = u /\ e.ref = Digest(output)
        /\ v.event = "synthesis_contract_evaluated" /\ v.work = Synthesis
        /\ v.note = verdict
        /\ c \in RunRows /\ Kept(run, c) /\ c.complete /\ Counted(c)
        /\ c.events = Append(Append(run.events, e), v)
        /\ Chosen(c.events, {"run_completed"}) = <<>>
    BY <1>1, <1>3 DEF Evaluated
  <1>5. /\ \/ ~good /\ FinishAs(r, "rejected", "quality", "synthesis_accept_spec_rejected")
           \/ good /\ FinishAs(Log(r, f), "completed", "completed", None)
    BY DEF CompleteSynthesis, Noted
  <1>6. /\ output \in Outputs /\ output.work = Synthesis /\ output.good = good
        /\ verdict \in Verdicts /\ Digest(output) \in Refs
    BY DEF Outputs, Verdicts, Evaluate, Digest, Refs
  <1>7. /\ synthesis \in SynthesisRows /\ synthesis.status = StatusOf(good)
        /\ synthesis.usage = u /\ synthesis.ref = Digest(output)
    BY <1>6 DEF SynthesisRows, StatusOf, ResultStates
  <1>8. r = Synthesized(c, output, verdict, synthesis)
    BY DEF Synthesized
  <1>9. verdict = Evaluate(output)
    OBVIOUS
  <1>10. pc \notin {"planning", "refused"}
    BY <1>1
  <1> HIDE DEF c, output, synthesis, verdict, r, f
  <1>11. /\ r \in RunRows /\ r.output = output /\ r.verdict = verdict /\ r.synthesis = synthesis
         /\ r.usage = c.usage /\ r.complete = c.complete /\ r.results = c.results
         /\ r.events = c.events
    <2>1. /\ Synthesized(c, output, verdict, synthesis) \in RunRows
          /\ Synthesized(c, output, verdict, synthesis).output = output
          /\ Synthesized(c, output, verdict, synthesis).verdict = verdict
          /\ Synthesized(c, output, verdict, synthesis).synthesis = synthesis
          /\ \A g \in {"usage", "complete", "limits", "status", "stop", "results", "events",
                        "mode", "error"} : Synthesized(c, output, verdict, synthesis)[g] = c[g]
      BY <1>4, <1>6, <1>7, SynthesisSet
    <2> QED BY <1>8, <2>1
  <1>12. r.results = run.results
    BY <1>4, <1>11 DEF Kept
  <1>13. /\ Grounded(r.events, r.results, order, Synthesis, Synthesis, Synthesis)
         /\ Len(r.events) = 3 * n + 3 /\ r.events[3 * n + 2] = e /\ r.events[3 * n + 3] = v
    <2> DEFINE ev == run.events
               results == run.results
    <2>1. /\ order \in Seq(Tasks)
          /\ Grounded(ev, results, order, Synthesis, None, None)
          /\ Len(ev) = 3 * Len(results) + 1 /\ e \in EventRows /\ v \in EventRows
          /\ e.event = "backend_execution_completed" /\ e.work = Synthesis
          /\ v.event = "synthesis_contract_evaluated" /\ v.work = Synthesis
      BY <1>1, <1>2, <1>4
    <2>2. r.events = Append(Append(ev, e), v) /\ r.results = results /\ n = Len(results)
      BY <1>4, <1>11, <1>12
    <2> HIDE DEF ev, results, n
    <2>3. /\ Grounded(Append(Append(ev, e), v), results, order, Synthesis, Synthesis, Synthesis)
          /\ Len(Append(Append(ev, e), v)) = 3 * Len(results) + 3
          /\ Append(Append(ev, e), v)[3 * Len(results) + 2] = e
          /\ Append(Append(ev, e), v)[3 * Len(results) + 3] = v
      BY <2>1, GroundedSynthesis
    <2> QED BY <2>2, <2>3
  <1>14. /\ Counted(r) /\ Retained(r.results) /\ SynthesisGiven(r, n)
         /\ Chosen(r.events, {"run_completed"}) = <<>>
    <2>1. Counted(r)
      BY <1>4, <1>11 DEF Counted
    <2>2. Retained(r.results)
      BY <1>2, <1>12 DEF Underway
    <2>3. SynthesisGiven(r, n)
      BY <1>4, <1>6, <1>7, <1>9, <1>11, <1>13 DEF SynthesisGiven
    <2> QED BY <1>4, <1>11, <2>1, <2>2, <2>3
  <1>15. CASE ~good /\ FinishAs(r, "rejected", "quality", "synthesis_accept_spec_rejected")
    <2> DEFINE q == Ended(r, "rejected", "quality", "synthesis_accept_spec_rejected")
    <2>1. /\ "rejected" \in Statuses /\ "quality" \in Stops
          /\ "synthesis_accept_spec_rejected" \in Errors
      BY DEF Statuses, Stops, Errors
    <2>2. /\ q.status = "rejected" /\ q.stop = "quality"
          /\ q.error = "synthesis_accept_spec_rejected"
          /\ q.events = r.events /\ q.results = r.results
          /\ q.synthesis = r.synthesis /\ q.output = r.output /\ q.verdict = r.verdict
          /\ Counted(q)
      BY <1>11, <1>14, <2>1, EndedAccount
    <2> HIDE DEF q
    <2>3. ~q.output.good /\ Len(q.results) = n
      BY <1>6, <1>11, <1>12, <1>15, <2>2
    <2>4. SynthesisGiven(q, n) /\ Chosen(q.events, {"run_completed"}) = <<>>
      BY <1>14, <2>2 DEF SynthesisGiven
    <2>5. Concluded(q, order)
      BY <1>13, <2>1, <2>2, <2>3, <2>4 DEF Concluded, SynthesisGiven
    <2>6. Closed(q, order)
      BY <1>14, <2>2, <2>5 DEF Closed
    <2> HIDE DEF IInv, TInv
    <2> QED BY <1>1, <1>10, <1>11, <1>15, <2>1, <2>6, EndTraced DEF q
  <1>16. CASE good /\ FinishAs(Log(r, f), "completed", "completed", None)
    <2> DEFINE l == Log(r, f)
               q == Ended(l, "completed", "completed", None)
    <2>1. f \in EventRows /\ f.event = "run_completed" /\ f.note = n
      <3>1. "run_completed" \in Kinds /\ None \in WorkIds /\ n \in Verdicts \cup Statuses \cup Nat
        BY <1>2 DEF Kinds, WorkIds
      <3>2. /\ f \in EventRows
            /\ f = [event |-> "run_completed", work |-> None, usage |-> None,
                    ref |-> None, note |-> n]
        BY <3>1, NotedTyped DEF f
      <3> HIDE DEF n
      <3> QED BY <3>2
    <2>2. /\ l \in RunRows /\ Kept(r, l) /\ l.usage = r.usage /\ l.complete = r.complete
          /\ l.events = Append(r.events, f) /\ Len(l.events) = Len(r.events) + 1
          /\ l.events[Len(r.events) + 1] = f
          /\ \A i \in 1 .. Len(r.events) : l.events[i] = r.events[i]
      BY <1>11, <2>1, Logged, Zenon
    <2>3. r.events \in Seq(EventRows)
      BY <1>11, RunFields
    <2> HIDE DEF l
    <2>4. /\ "completed" \in Statuses /\ "completed" \in Stops /\ None \in Errors \cup {None}
      BY DEF Statuses, Stops
    <2>5. Counted(l)
      <3>1. f.event \notin Ends \cup {"record_capacity_exceeded"}
        BY <2>1 DEF Ends
      <3> QED BY <1>14, <2>1, <2>2, <2>3, <3>1, CountedOther
    <2>6. /\ q.status = "completed" /\ q.stop = "completed" /\ q.error = None
          /\ q.events = l.events /\ q.results = l.results /\ q.complete = l.complete
          /\ q.synthesis = l.synthesis /\ q.output = l.output /\ q.verdict = l.verdict
          /\ Counted(q)
      BY <2>2, <2>4, <2>5, EndedAccount
    <2> HIDE DEF q
    <2>7. /\ q.results = run.results /\ q.synthesis = r.synthesis /\ q.output = r.output
          /\ q.verdict = r.verdict /\ q.complete
      BY <1>4, <1>11, <1>12, <2>2, <2>6 DEF Kept
    <2>8. Grounded(q.events, q.results, order, Synthesis, Synthesis, Synthesis)
      <3>1. f.event \notin Telling /\ f.event \notin WorkEvents
        BY <2>1 DEF Telling, Ends, WorkEvents
      <3>2. Grounded(Append(r.events, f), r.results, order, Synthesis, Synthesis, Synthesis)
        BY <1>13, <2>1, <3>1, GroundedOther
      <3> QED BY <1>12, <2>2, <2>6, <2>7, <3>2
    <2>9. /\ Len(q.events) = 3 * n + 4 /\ q.events[3 * n + 4] = f
          /\ q.events[3 * n + 2] = r.events[3 * n + 2] /\ q.events[3 * n + 3] = r.events[3 * n + 3]
      BY <1>2, <1>13, <2>2, <2>6
    <2>10. SynthesisGiven(q, n)
      BY <1>14, <2>7, <2>9 DEF SynthesisGiven
    <2>11. Len(Chosen(q.events, {"run_completed"})) = 1
      <3> DEFINE kinds == {"run_completed"}
      <3>1. f.event \in kinds /\ Chosen(r.events, kinds) = <<>>
        BY <1>14, <2>1
      <3> HIDE DEF kinds
      <3>2. Chosen(Append(r.events, f), kinds) = Append(Chosen(r.events, kinds), f)
        BY <2>1, <2>3, <3>1, ChosenAppend
      <3>3. Chosen(q.events, kinds) = Append(<<>>, f)
        BY <2>2, <2>6, <3>1, <3>2
      <3> QED BY <3>3 DEF kinds
    <2>12. q.output.good /\ Len(q.results) = n
      BY <1>6, <1>11, <1>16, <2>7
    <2>13. Concluded(q, order)
      BY <2>1, <2>6, <2>7, <2>8, <2>9, <2>10, <2>11, <2>12 DEF Concluded, SynthesisGiven
    <2>14. Closed(q, order)
      BY <1>12, <1>14, <2>6, <2>7, <2>13 DEF Closed
    <2> HIDE DEF IInv, TInv
    <2> QED BY <1>1, <1>10, <1>16, <2>2, <2>4, <2>14, EndTraced DEF q, l
  <1> QED BY <1>5, <1>15, <1>16

\* A run has no trace at first.
LEMMA InitTraced == Init => TInv
  <1> SUFFICES ASSUME Init PROVE TInv
    OBVIOUS
  <1>1. PICK request \in Requests : run = NewRun(request.limits)
    BY DEF Init
  <1>2. /\ run.events = <<>> /\ run.results = <<>> /\ run.usage = NoUsage
        /\ run.synthesis = None /\ run.output = None /\ run.verdict = None
    BY <1>1 DEF NewRun
  <1>3. order = <<>> /\ pc = "planning" /\ Going /\ order \in Seq(Tasks)
    BY DEF Init, Going
  <1>4. Grounded(run.events, run.results, order, None, None, None)
    BY <1>2, <1>3, GroundedNothing
  <1>5. Counted(run)
    <2>1. Spent(<<>>) = NoUsage
      <3>1. \E e : e \in EventRows
        <4>1. Event("run_rejected", None) \in EventRows
          BY EventTyped DEF Kinds, WorkIds
        <4> QED BY <4>1
      <3>2. <<>> \in Seq(EventRows)
        OBVIOUS
      <3> QED BY <3>1, <3>2, SpentAppend
    <2> QED BY <1>2, <2>1, ChosenNone DEF Counted
  <1>6. Underway(run)
    <2>1. Len(<<>>) = 0
      OBVIOUS
    <2>2. Chosen(run.events, {"run_completed"}) = <<>>
      BY <1>2, ChosenNone
    <2> QED BY <1>2, <1>5, <2>1, <2>2 DEF Underway, Retained, Unanswered, AllValid
  <1>7. Len(run.events) = 3 * Len(run.results)
    BY <1>2
  <1> QED BY <1>3, <1>4, <1>6, <1>7 DEF TInv

\* Every step keeps the trace.
LEMMA NextTraced == IInv /\ TInv /\ [Next]_vars => TInv'
  <1> SUFFICES ASSUME IInv, TInv, [Next]_vars PROVE TInv'
    OBVIOUS
  <1>1. CASE CreatePlan \/ RefusePlan \/ AdmitRun
    BY <1>1, PlanningTraced
  <1>2. CASE RejectRun \/ BlockCall \/ FailPreparation \/ StartCall
    BY <1>2, WaitingTraced
  <1>3. CASE CallFailed
    BY <1>3, FailureTraced
  <1>4. CASE \E u \in Usages : Answer(u)
    <2>1. PICK u \in Usages : Answer(u)
      BY <1>4
    <2>2. CASE RejectOverrun(u) \/ RejectAnswer(u)
      BY <2>2, RefusalTraced
    <2>3. CASE \E good \in BOOLEAN : CompleteTask(u, good) \/ CompleteSynthesis(u, good)
      <3>1. PICK good \in BOOLEAN : CompleteTask(u, good) \/ CompleteSynthesis(u, good)
        BY <2>3
      <3>2. CASE CompleteTask(u, good)
        BY <3>2, TaskTraced
      <3>3. CASE CompleteSynthesis(u, good)
        BY <3>3, SynthesisTraced
      <3> QED BY <3>1, <3>2, <3>3
    <2> QED BY <2>1, <2>2, <2>3 DEF Answer
  <1>5. CASE UNCHANGED vars
    <2>1. /\ deps' = deps /\ order' = order /\ pc' = pc /\ run' = run
      BY <1>5 DEF vars
    <2>2. (NextWork = NextWork') /\ (Going <=> Going')
      BY <2>1 DEF NextWork, Going
    <2> QED BY <2>1, <2>2 DEF TInv
  <1> QED BY <1>1, <1>2, <1>3, <1>4, <1>5 DEF Next

-----------------------------------------------------------------------------
(* What is chosen of a trace *)

\* The chosen events are those of the kinds, from places in order.
LEMMA ChosenPlaces ==
    ASSUME NEW ev \in Seq(EventRows), NEW kinds
    PROVE  LET c == Chosen(ev, kinds)
               at(f) == /\ f \in [1 .. Len(c) -> 1 .. Len(ev)]
                        /\ \A j \in 1 .. Len(c) : c[j] = ev[f[j]] /\ ev[f[j]].event \in kinds
                        /\ \A i \in 1 .. Len(ev) : ev[i].event \in kinds =>
                              \E j \in 1 .. Len(c) : f[j] = i
           IN /\ c \in Seq(EventRows) /\ \E f : at(f)
              /\ DOMAIN WorksOf(ev, kinds) = 1 .. Len(c) /\ Len(WorksOf(ev, kinds)) = Len(c)
              /\ \A j \in 1 .. Len(c) : WorksOf(ev, kinds)[j] = c[j].work
  <1> DEFINE I == {i \in DOMAIN ev : ev[i].event \in kinds}
             c == Chosen(ev, kinds)
  <1>1. c = Picked(ev, I) /\ c \in Seq(EventRows)
    BY PickedType DEF Chosen
  <1>2. PICK f : PlacedAt(c, ev, I, Len(ev), f)
    BY <1>1, PickedPositions
  <1>3. \A i \in 1 .. Len(ev) : i \in I <=> ev[i].event \in kinds
    OBVIOUS
  <1> HIDE DEF I
  <1>4. /\ f \in [1 .. Len(c) -> 1 .. Len(ev)]
        /\ \A j \in 1 .. Len(c) : c[j] = ev[f[j]] /\ ev[f[j]].event \in kinds
        /\ \A i \in 1 .. Len(ev) : ev[i].event \in kinds => \E j \in 1 .. Len(c) : f[j] = i
    BY <1>2, <1>3 DEF PlacedAt
  <1>5. /\ DOMAIN WorksOf(ev, kinds) = 1 .. Len(c) /\ Len(WorksOf(ev, kinds)) = Len(c)
        /\ \A j \in 1 .. Len(c) : WorksOf(ev, kinds)[j] = c[j].work
    <2> HIDE DEF c
    <2>1. Works(c) = [j \in 1 .. Len(c) |-> c[j].work] /\ Len(c) \in Nat
      BY <1>1 DEF Works
    <2>2. WorksOf(ev, kinds) = Works(c)
      BY DEF WorksOf, c
    <2> QED BY <2>1, <2>2
  <1> QED BY <1>1, <1>4, <1>5

\* A trace has an event of some kinds about w.
Shows(ev, kinds, w) == \E i \in 1 .. Len(ev) : ev[i].event \in kinds /\ ev[i].work = w

\* It does if w is among the works of those kinds.
LEMMA ShownWorks ==
    ASSUME NEW ev \in Seq(EventRows), NEW kinds, NEW w
    PROVE  /\ w \in Range(WorksOf(ev, kinds)) <=> Shows(ev, kinds, w)
           /\ Len(Chosen(ev, kinds)) = 1 => \E i \in 1 .. Len(ev) : ev[i].event \in kinds
           /\ Len(Chosen(ev, kinds)) = 0 => \A i \in 1 .. Len(ev) : ev[i].event \notin kinds
  <1> DEFINE c == Chosen(ev, kinds)
             ws == WorksOf(ev, kinds)
  <1>1. PICK f :
           /\ f \in [1 .. Len(c) -> 1 .. Len(ev)]
           /\ \A j \in 1 .. Len(c) : c[j] = ev[f[j]] /\ ev[f[j]].event \in kinds
           /\ \A i \in 1 .. Len(ev) : ev[i].event \in kinds => \E j \in 1 .. Len(c) : f[j] = i
    BY ChosenPlaces
  <1>2. DOMAIN ws = 1 .. Len(c) /\ \A j \in 1 .. Len(c) : ws[j] = c[j].work
    BY ChosenPlaces
  <1> HIDE DEF c, ws
  <1>3. w \in Range(ws) <=> \E j \in 1 .. Len(c) : c[j].work = w
    BY <1>2 DEF Range
  <1>4. (\E j \in 1 .. Len(c) : c[j].work = w) <=> Shows(ev, kinds, w)
    BY <1>1 DEF Shows
  <1>5. Len(c) = 1 => \E i \in 1 .. Len(ev) : ev[i].event \in kinds
    <2> SUFFICES ASSUME Len(c) = 1 PROVE \E i \in 1 .. Len(ev) : ev[i].event \in kinds
      OBVIOUS
    <2>1. f[1] \in 1 .. Len(ev) /\ ev[f[1]].event \in kinds
      BY <1>1
    <2> QED BY <2>1
  <1>6. Len(c) = 0 => \A i \in 1 .. Len(ev) : ev[i].event \notin kinds
    BY <1>1
  <1> QED BY <1>3, <1>4, <1>5, <1>6 DEF c, ws

\* One event about each work at most, or one at all.
Single(ev, kinds) == IsInjective(WorksOf(ev, kinds))
Alone(ev, kinds) == Len(Chosen(ev, kinds)) \in {0, 1}

\* Then two of them, about one work or at all, are one.
LEMMA SingleChosen ==
    ASSUME NEW ev \in Seq(EventRows), NEW kinds,
           NEW i \in 1 .. Len(ev), NEW m \in 1 .. Len(ev),
           ev[i].event \in kinds, ev[m].event \in kinds,
           Alone(ev, kinds) \/ (Single(ev, kinds) /\ ev[i].work = ev[m].work)
    PROVE  i = m
  <1> DEFINE c == Chosen(ev, kinds)
             ws == WorksOf(ev, kinds)
  <1>1. PICK f :
           /\ f \in [1 .. Len(c) -> 1 .. Len(ev)]
           /\ \A j \in 1 .. Len(c) : c[j] = ev[f[j]] /\ ev[f[j]].event \in kinds
           /\ \A k \in 1 .. Len(ev) : ev[k].event \in kinds => \E j \in 1 .. Len(c) : f[j] = k
    BY ChosenPlaces
  <1>2. DOMAIN ws = 1 .. Len(c) /\ \A j \in 1 .. Len(c) : ws[j] = c[j].work
    BY ChosenPlaces
  <1>3. (IsInjective(ws) /\ ev[i].work = ev[m].work) \/ Len(c) \in {0, 1}
    BY DEF Single, Alone
  <1> HIDE DEF c, ws
  <1>4. PICK j \in 1 .. Len(c), k \in 1 .. Len(c) : f[j] = i /\ f[k] = m
    BY <1>1
  <1>5. ev[i].work = ev[m].work => ws[j] = ws[k]
    BY <1>1, <1>2, <1>4
  <1>6. j = k
    BY <1>2, <1>3, <1>4, <1>5 DEF IsInjective
  <1> QED BY <1>4, <1>6

\* Works of tasks are among those that are no synthesis.
LEMMA ShownTasks ==
    ASSUME NEW r, r.events \in Seq(EventRows), NEW kinds, NEW t \in Tasks,
           Shows(r.events, kinds, t)
    PROVE  \E j \in 1 .. Len(TaskWorks(Of(r, kinds))) : TaskWorks(Of(r, kinds))[j] = t
  <1> DEFINE evs == Of(r, kinds)
             ws == Works(evs)
             I == {i \in DOMAIN evs : evs[i].work # Synthesis}
             p == Picked(ws, I)
  <1>1. /\ ws = WorksOf(r.events, kinds) /\ ws \in Seq(WorkIds) /\ Len(ws) = Len(evs)
        /\ evs \in Seq(EventRows)
    BY WorksOfRecord
  <1>2. \A j \in 1 .. Len(evs) : ws[j] = evs[j].work
    BY <1>1 DEF Works
  <1>3. t \in Range(ws)
    BY <1>1, ShownWorks
  <1> HIDE DEF evs, ws
  <1>4. PICK i \in 1 .. Len(ws) : ws[i] = t
    BY <1>1, <1>3 DEF Range
  <1>5. i \in I
    BY <1>1, <1>2, <1>4, TaskListAssumption
  <1>6. PICK f : PlacedAt(p, ws, I, Len(ws), f)
    BY <1>1, PickedPositions
  <1> HIDE DEF p, I
  <1>7. PICK j \in 1 .. Len(p) : f[j] = i
    BY <1>4, <1>5, <1>6 DEF PlacedAt
  <1>8. p[j] = t
    BY <1>4, <1>6, <1>7 DEF PlacedAt
  <1>9. p = TaskWorks(evs)
    BY DEF p, I, ws, TaskWorks
  <1> QED BY <1>7, <1>8, <1>9 DEF evs

\* Evidence that there is once, and evidence that there is once for a work.
Marks == {"synthesis_contract_evaluated", "run_completed", "record_capacity_exceeded"}
Steps == {{"backend_execution_started"}, Ends, {"task_contract_evaluated"}}

\* What validation asks of the events of a record, one kind at a time.
Says(r) ==
    LET ev == r.events IN
    /\ \A kinds \in Steps : Single(ev, kinds)
    /\ \A kind \in Marks : Alone(ev, {kind})
    /\ EndsFollow(ev)
    /\ \A w : Shows(ev, {"backend_execution_started"}, w) => Shows(ev, Ends, w)
    /\ WorksOf(ev, {"task_contract_evaluated"}) = Results(r)
    /\ Len(Chosen(ev, {"synthesis_contract_evaluated"}))
          = IF Shows(ev, {"backend_execution_completed"}, Synthesis) THEN 1 ELSE 0
    /\ Len(Chosen(ev, {"record_capacity_exceeded"})) = IF CapacityStop(r) THEN 1 ELSE 0
    /\ CapacityStop(r) => ev[Len(ev)].event = "record_capacity_exceeded"
    /\ Len(Chosen(ev, {"run_completed"})) = IF Underlying(r) = "completed" THEN 1 ELSE 0

\* A prefix has no element twice if the sequence has not.
LEMMA PrefixSingle ==
    ASSUME NEW S, NEW s \in Seq(S), NEW t \in Seq(S), IsPrefix(s, t), Distinct(t)
    PROVE  /\ IsInjective(s) /\ Len(s) <= Len(t)
           /\ \A i \in 1 .. Len(s) : s[i] = t[i]
  <1>1. Len(s) <= Len(t) /\ SubSeq(s, 1, Len(s)) = SubSeq(t, 1, Len(s))
    BY DEF IsPrefix
  <1>2. ASSUME NEW i \in 1 .. Len(s) PROVE s[i] = t[i]
    <2>1. SubSeq(s, 1, Len(s))[i] = s[i] /\ SubSeq(t, 1, Len(s))[i] = t[i]
      BY <1>1
    <2> QED BY <1>1, <2>1
  <1>3. DOMAIN s = 1 .. Len(s)
    OBVIOUS
  <1> QED BY <1>1, <1>2, <1>3 DEF IsInjective, Distinct

\* A valid record says all that.
LEMMA ValidSays ==
    ASSUME NEW r, r.events \in Seq(EventRows), r.results \in Seq(ResultRows),
           NEW tasks \in Seq(Tasks), Distinct(tasks), NEW d, Valid(r, tasks, d)
    PROVE  Says(r)
  <1> DEFINE ev == r.events
  <1>1. /\ PrefixOfPlan(r, tasks) /\ Paired(r) /\ EvaluatedAtOnce(r) /\ SynthesisInTurn(r, tasks)
        /\ CapacityDeclared(r) /\ CompletionDeclared(r)
    BY DEF Valid
  <1>2. \A kinds : /\ Works(Of(r, kinds)) = WorksOf(ev, kinds) /\ Of(r, kinds) = Chosen(ev, kinds)
    BY WorksOfRecord
  <1>3. Single(ev, {"backend_execution_started"}) /\ Single(ev, Ends)
    BY <1>1, <1>2 DEF Paired, StartedOnce, Single
  <1>4. WorksOf(ev, {"task_contract_evaluated"}) = Results(r)
    BY <1>1, <1>2 DEF EvaluatedAtOnce
  <1>5. Single(ev, {"task_contract_evaluated"})
    <2>1. Results(r) = TasksOf(r.results)
      BY DEF Results, TasksOf
    <2>2. Results(r) \in Seq(Tasks) /\ IsPrefix(Results(r), tasks)
      BY <1>1, <2>1, TasksTyped DEF PrefixOfPlan
    <2> QED BY <1>4, <2>2, PrefixSingle DEF Single
  <1>6. EndsFollow(ev)
    <2>1. DOMAIN ev = 1 .. Len(ev)
      OBVIOUS
    <2> QED BY <1>1, <2>1 DEF Paired, EndsFollow
  <1>7. \A w : Shows(ev, {"backend_execution_started"}, w) => Shows(ev, Ends, w)
    <2>1. Range(WorksOf(ev, {"backend_execution_started"})) \subseteq Range(WorksOf(ev, Ends))
      BY <1>1, <1>2 DEF Paired
    <2> QED BY <2>1, ShownWorks
  <1>8. SynthesisCompleted(r) <=> Shows(ev, {"backend_execution_completed"}, Synthesis)
    BY DEF SynthesisCompleted, At, Shows
  <1>9. /\ Len(Chosen(ev, {"synthesis_contract_evaluated"}))
               = IF Shows(ev, {"backend_execution_completed"}, Synthesis) THEN 1 ELSE 0
        /\ Len(Chosen(ev, {"record_capacity_exceeded"})) = IF CapacityStop(r) THEN 1 ELSE 0
        /\ CapacityStop(r) => ev[Len(ev)].event = "record_capacity_exceeded"
        /\ Len(Chosen(ev, {"run_completed"})) = IF Underlying(r) = "completed" THEN 1 ELSE 0
    BY <1>1, <1>2, <1>8 DEF SynthesisInTurn, CapacityDeclared, CompletionDeclared, Last
  <1>10. \A kind \in Marks : Alone(ev, {kind})
    BY <1>9 DEF Marks, Alone
  <1> QED BY <1>3, <1>4, <1>5, <1>6, <1>7, <1>9, <1>10 DEF Says, Steps

\* Evidence is a mark or a step.
LEMMA EvidenceIs ==
    /\ \A kind \in Evidence : kind \in Marks \/ \E kinds \in Steps : kind \in kinds
    /\ \A kinds \in Steps : kinds \subseteq Evidence
    /\ Marks \subseteq Evidence
  BY DEF Evidence, Marks, Steps

-----------------------------------------------------------------------------
(* An event doubled *)

\* c is two sequences in one.
Joins(c, a, b) ==
    /\ Len(c) = Len(a) + Len(b)
    /\ \A k \in 1 .. Len(a) : c[k] = a[k]
    /\ \A k \in 1 .. Len(b) : c[Len(a) + k] = b[k]

\* So is what concatenation gives.
LEMMA JoinedIs ==
    ASSUME NEW S, NEW a \in Seq(S), NEW b \in Seq(S)
    PROVE  a \o b \in Seq(S) /\ Joins(a \o b, a, b)
  BY DEF Joins

\* The event is there twice in a row.
LEMMA DoubledIs ==
    ASSUME NEW ev \in Seq(EventRows), NEW i \in 1 .. Len(ev)
    PROVE  LET t == InsertAt(ev, i, ev[i])
           IN /\ t \in Seq(EventRows) /\ i \in 1 .. Len(t) /\ i + 1 \in 1 .. Len(t)
              /\ t[i] = ev[i] /\ t[i + 1] = ev[i]
  <1> DEFINE a == SubSeq(ev, 1, i - 1)
             b == <<ev[i]>>
             c == SubSeq(ev, i, Len(ev))
             ab == a \o b
  <1>1. a \in Seq(EventRows) /\ Len(a) = i - 1
    OBVIOUS
  <1>2. b \in Seq(EventRows) /\ Len(b) = 1 /\ b[1] = ev[i]
    OBVIOUS
  <1>3. c \in Seq(EventRows) /\ Len(c) = Len(ev) - i + 1 /\ c[1] = ev[i]
    OBVIOUS
  <1> HIDE DEF a, b, c
  <1>4. ab \in Seq(EventRows) /\ Len(ab) = i /\ ab[i] = ev[i]
    <2>1. ab \in Seq(EventRows) /\ Joins(ab, a, b)
      BY <1>1, <1>2, JoinedIs
    <2> HIDE DEF ab
    <2>2. Len(ab) = i /\ Len(a) + 1 = i /\ 1 \in 1 .. Len(b)
      BY <1>1, <1>2, <2>1 DEF Joins
    <2> QED BY <1>2, <2>1, <2>2 DEF Joins
  <1> HIDE DEF ab
  <1>5. /\ ab \o c \in Seq(EventRows) /\ Len(ab \o c) = Len(ev) + 1
        /\ (ab \o c)[i] = ev[i] /\ (ab \o c)[i + 1] = ev[i]
    <2> DEFINE t == ab \o c
    <2>1. t \in Seq(EventRows) /\ Joins(t, ab, c)
      BY <1>3, <1>4, JoinedIs
    <2> HIDE DEF t
    <2>2. i \in 1 .. Len(ab) /\ 1 \in 1 .. Len(c) /\ Len(t) = Len(ev) + 1
      BY <1>3, <1>4, <2>1 DEF Joins
    <2>3. t[i] = ev[i] /\ t[i + 1] = ev[i]
      BY <1>3, <1>4, <2>1, <2>2 DEF Joins
    <2> QED BY <2>1, <2>2, <2>3 DEF t
  <1>6. InsertAt(ev, i, ev[i]) = ab \o c
    BY DEF InsertAt, a, b, c, ab
  <1> QED BY <1>5, <1>6

\* A record does not validate with an event of evidence doubled.
LEMMA DoubledShows ==
    ASSUME NEW ev \in Seq(EventRows), NEW i \in 1 .. Len(ev), ev[i].event \in Evidence,
           NEW s, s.events = InsertAt(ev, i, ev[i]), Says(s)
    PROVE  FALSE
  <1> DEFINE t == s.events
  <1>1. /\ t \in Seq(EventRows) /\ i \in 1 .. Len(t) /\ i + 1 \in 1 .. Len(t)
        /\ t[i] = ev[i] /\ t[i + 1] = ev[i]
    BY DoubledIs
  <1>2. /\ \A kinds \in Steps : Single(t, kinds)
        /\ \A kind \in Marks : Alone(t, {kind})
    BY DEF Says
  <1> HIDE DEF t
  <1>3. PICK kinds : /\ ev[i].event \in kinds /\ (Alone(t, kinds) \/ Single(t, kinds))
    BY <1>2, EvidenceIs
  <1>4. i = i + 1
    BY <1>1, <1>3, SingleChosen
  <1> QED BY <1>4

-----------------------------------------------------------------------------
(* An event removed *)

\* t has the events of ev but for the i-th.
Lacks(t, ev, i) ==
    /\ \A j \in 1 .. Len(t) : \E m \in 1 .. Len(ev) : m # i /\ t[j] = ev[m]
    /\ \A m \in 1 .. Len(ev) : m # i => \E j \in 1 .. Len(t) : t[j] = ev[m]

\* So it is when that is removed.
LEMMA RemovedIs ==
    ASSUME NEW ev \in Seq(EventRows), NEW i \in 1 .. Len(ev)
    PROVE  RemoveAt(ev, i) \in Seq(EventRows) /\ Lacks(RemoveAt(ev, i), ev, i)
  <1> DEFINE a == SubSeq(ev, 1, i - 1)
             b == SubSeq(ev, i + 1, Len(ev))
             t == a \o b
  <1>1. a \in Seq(EventRows) /\ Len(a) = i - 1 /\ \A k \in 1 .. i - 1 : a[k] = ev[k]
    OBVIOUS
  <1>2. /\ b \in Seq(EventRows) /\ Len(b) = Len(ev) - i
        /\ \A k \in 1 .. Len(ev) - i : b[k] = ev[i + k]
    OBVIOUS
  <1> HIDE DEF a, b
  <1>3. t \in Seq(EventRows) /\ Joins(t, a, b)
    BY <1>1, <1>2, JoinedIs
  <1>4. t = RemoveAt(ev, i)
    BY DEF RemoveAt, a, b
  <1> HIDE DEF t
  <1>5. /\ Len(t) = Len(ev) - 1 /\ Len(ev) \in Nat
        /\ \A k \in 1 .. i - 1 : t[k] = ev[k]
        /\ \A k \in 1 .. Len(ev) - i : t[(i - 1) + k] = ev[i + k]
    BY <1>1, <1>2, <1>3 DEF Joins
  <1>6. ASSUME NEW j \in 1 .. Len(t) PROVE \E m \in 1 .. Len(ev) : m # i /\ t[j] = ev[m]
    <2>1. CASE j <= i - 1
      BY <1>5, <2>1
    <2>2. CASE j > i - 1
      <3> DEFINE k == j - (i - 1)
      <3>1. k \in 1 .. Len(ev) - i /\ (i - 1) + k = j /\ i + k \in 1 .. Len(ev) /\ i + k # i
        BY <1>5, <2>2
      <3> HIDE DEF k
      <3> QED BY <1>5, <3>1
    <2> QED BY <1>5, <2>1, <2>2
  <1>7. ASSUME NEW m \in 1 .. Len(ev), m # i PROVE \E j \in 1 .. Len(t) : t[j] = ev[m]
    <2>1. CASE m < i
      BY <1>5, <2>1
    <2>2. CASE m > i
      <3> DEFINE k == m - i
      <3>1. k \in 1 .. Len(ev) - i /\ i + k = m /\ (i - 1) + k \in 1 .. Len(t)
        BY <1>5, <2>2
      <3> HIDE DEF k
      <3> QED BY <1>5, <3>1
    <2> QED BY <1>5, <1>7, <2>1, <2>2
  <1> QED BY <1>3, <1>4, <1>6, <1>7 DEF Lacks

\* What is left shows what another event showed.
LEMMA StillShows ==
    ASSUME NEW ev, NEW t, NEW i, Lacks(t, ev, i), NEW kinds, NEW w
    PROVE  /\ Shows(t, kinds, w)
                 <=> \E m \in 1 .. Len(ev) : m # i /\ ev[m].event \in kinds /\ ev[m].work = w
           /\ ev[i].event \notin kinds => (Shows(t, kinds, w) <=> Shows(ev, kinds, w))
  <1>1. Shows(t, kinds, w)
           <=> \E m \in 1 .. Len(ev) : m # i /\ ev[m].event \in kinds /\ ev[m].work = w
    BY DEF Lacks, Shows
  <1>2. ASSUME ev[i].event \notin kinds
        PROVE  \A m \in 1 .. Len(ev) : ev[m].event \in kinds => m # i
    BY <1>2
  <1> QED BY <1>1, <1>2 DEF Shows

\* r and s are the same record, but for its events.
Otherwise(s, r) ==
    /\ s.results = r.results /\ s.status = r.status /\ s.stop = r.stop
    /\ s.events \in Seq(EventRows) /\ r.events \in Seq(EventRows)

\* If each event of one is one of the other, they claim to have come to the same.
LEMMA SameEnd ==
    ASSUME NEW r, NEW s, Otherwise(s, r), Says(r), Says(s),
           \A j \in 1 .. Len(s.events) : \E m \in 1 .. Len(r.events) : s.events[j] = r.events[m]
    PROVE  /\ CapacityStop(s) <=> CapacityStop(r)
           /\ Underlying(s) = Underlying(r)
           /\ Results(s) = Results(r)
  <1>1. (CapacityStop(s) <=> CapacityStop(r)) /\ Results(s) = Results(r) /\ r.status = s.status
    BY DEF Otherwise, CapacityStop, Results
  <1>2. ASSUME CapacityStop(r) PROVE Last(s.events) = Last(r.events)
    <2> DEFINE ev == r.events
               t == s.events
               mark == {"record_capacity_exceeded"}
    <2>1. ev[Len(ev)].event \in mark /\ t[Len(t)].event \in mark /\ Alone(ev, mark)
      BY <1>1, <1>2 DEF Says, Marks
    <2>2. Len(Chosen(ev, mark)) = 1 /\ Len(Chosen(t, mark)) = 1
      BY <1>1, <1>2 DEF Says
    <2>3. ev \in Seq(EventRows) /\ t \in Seq(EventRows)
      BY DEF Otherwise
    <2> HIDE DEF mark, ev, t
    <2>4. Len(ev) \in 1 .. Len(ev) /\ Len(t) \in 1 .. Len(t)
      <3>1. /\ \E i \in 1 .. Len(ev) : ev[i].event \in mark
            /\ \E i \in 1 .. Len(t) : t[i].event \in mark
        BY <2>2, <2>3, ShownWorks
      <3> QED BY <2>3, <3>1
    <2>5. PICK m \in 1 .. Len(ev) : t[Len(t)] = ev[m]
      BY <2>4 DEF ev, t
    <2>6. m = Len(ev)
      BY <2>1, <2>3, <2>4, <2>5, SingleChosen
    <2> QED BY <2>5, <2>6 DEF Last, ev, t
  <1> QED BY <1>1, <1>2 DEF Underlying

\* A record does not validate with an event of evidence removed.
LEMMA RemovedShows ==
    ASSUME NEW r, NEW s, Otherwise(s, r), Says(r), Says(s),
           NEW i \in 1 .. Len(r.events), r.events[i].event \in Evidence,
           Lacks(s.events, r.events, i)
    PROVE  FALSE
  <1> DEFINE ev == r.events
             t == s.events
             w == ev[i].work
             start == {"backend_execution_started"}
             evaluated == {"task_contract_evaluated"}
  <1>1. /\ Lacks(t, ev, i) /\ ev \in Seq(EventRows) /\ t \in Seq(EventRows)
        /\ i \in 1 .. Len(ev) /\ ev[i].event \in Evidence
    BY DEF Otherwise
  <1>2. /\ CapacityStop(s) <=> CapacityStop(r)
        /\ Underlying(s) = Underlying(r) /\ Results(s) = Results(r)
    <2>1. \A j \in 1 .. Len(t) : \E m \in 1 .. Len(ev) : t[j] = ev[m]
      BY <1>1 DEF Lacks
    <2> QED BY <2>1, SameEnd
  <1>3. /\ \A kinds \in Steps : Single(ev, kinds)
        /\ \A kind \in Marks : Alone(ev, {kind})
        /\ EndsFollow(ev) /\ EndsFollow(t)
        /\ \A x : Shows(ev, start, x) => Shows(ev, Ends, x)
        /\ \A x : Shows(t, start, x) => Shows(t, Ends, x)
        /\ WorksOf(ev, evaluated) = Results(r) /\ WorksOf(t, evaluated) = Results(s)
    BY DEF Says
  <1>4. \A kind \in Marks : \/ Len(Chosen(ev, {kind})) = Len(Chosen(t, {kind}))
                            \/ ev[i].event # kind
    <2>1. CASE ev[i].event = "backend_execution_completed"
      BY <2>1 DEF Marks
    <2>2. CASE ev[i].event # "backend_execution_completed"
      <3> DEFINE done == {"backend_execution_completed"}
      <3>1. ev[i].event \notin done
        BY <2>2
      <3> HIDE DEF ev, t, done
      <3>2. Shows(ev, done, Synthesis) <=> Shows(t, done, Synthesis)
        BY <1>1, <3>1, StillShows
      <3> QED BY <1>2, <3>2 DEF Says, Marks, ev, t, done
    <2> QED BY <2>1, <2>2
  <1> HIDE DEF ev, t, start, evaluated
  <1>5. ASSUME NEW kinds, ev[i].event \in kinds, Shows(t, kinds, w), Single(ev, kinds)
        PROVE  FALSE
    <2>1. PICK m \in 1 .. Len(ev) : m # i /\ ev[m].event \in kinds /\ ev[m].work = w
      BY <1>1, <1>5, StillShows
    <2> QED BY <1>1, <1>5, <2>1, SingleChosen
  <1>6. CASE ev[i].event \in start
    <2>1. Shows(ev, Ends, w)
      BY <1>1, <1>3, <1>6 DEF Shows
    <2>2. ev[i].event \notin Ends
      BY <1>6 DEF start, Ends
    <2>3. Shows(t, Ends, w)
      BY <1>1, <2>1, <2>2, StillShows
    <2>4. Shows(t, start, w)
      BY <1>3, <2>3 DEF Shows, EndsFollow, start
    <2>5. start \in Steps
      BY DEF Steps, start
    <2> QED BY <1>3, <1>5, <1>6, <2>4, <2>5
  <1>7. CASE ev[i].event \in Ends
    <2>1. PICK j \in 1 .. i - 1 : ev[j].event \in start /\ ev[j].work = w
      BY <1>1, <1>3, <1>7 DEF EndsFollow, start
    <2>2. j \in 1 .. Len(ev) /\ j # i
      BY <1>1, <2>1
    <2>3. Shows(t, start, w)
      BY <1>1, <2>1, <2>2, StillShows
    <2>4. Shows(t, Ends, w) /\ Ends \in Steps
      BY <1>3, <2>3 DEF Steps
    <2> QED BY <1>3, <1>5, <1>7, <2>4
  <1>8. CASE ev[i].event \in evaluated
    <2>1. Shows(ev, evaluated, w)
      BY <1>1, <1>8 DEF Shows
    <2>2. Shows(t, evaluated, w)
      BY <1>1, <1>2, <1>3, <2>1, ShownWorks
    <2>3. evaluated \in Steps
      BY DEF Steps, evaluated
    <2> QED BY <1>3, <1>5, <1>8, <2>2, <2>3
  <1>9. ASSUME NEW kind \in Marks, ev[i].event = kind PROVE FALSE
    <2> DEFINE mark == {kind}
    <2>1. ev[i].event \in mark /\ Alone(ev, mark) /\ Len(Chosen(ev, mark)) = Len(Chosen(t, mark))
      BY <1>3, <1>4, <1>9
    <2> HIDE DEF mark
    <2>2. Len(Chosen(ev, mark)) = 1
      BY <1>1, <2>1, ShownWorks DEF Alone
    <2>3. PICK j \in 1 .. Len(t) : t[j].event \in mark
      BY <1>1, <2>1, <2>2, ShownWorks
    <2>4. PICK m \in 1 .. Len(ev) : m # i /\ t[j] = ev[m]
      BY <1>1, <2>3 DEF Lacks
    <2> QED BY <1>1, <2>1, <2>3, <2>4, SingleChosen
  <1> QED BY <1>1, <1>6, <1>7, <1>8, <1>9, EvidenceIs DEF Steps, start, evaluated

-----------------------------------------------------------------------------
(* Events that are no evidence *)

\* All events are evidence, or all but one that comes right after the results.
Vocal(r) == \A i \in 1 .. Len(r.events) : r.events[i].event \in Evidence
Silent(r) == \A i \in 1 .. Len(r.events) :
    r.events[i].event \notin Evidence => i = 3 * Len(r.results) + 1

\* As long as a run goes on it notes evidence only.
SInv ==
    /\ Going => Vocal(run)
    /\ ~Going => Silent(run)

\* What one event more makes of a trace.
LEMMA OneMore ==
    ASSUME NEW a, NEW b, NEW e, a.events \in Seq(EventRows), Vocal(a),
           b.events = Append(a.events, e)
    PROVE  /\ e.event \in Evidence => Vocal(b)
           /\ Len(a.events) = 3 * Len(b.results) => Silent(b)
  <1> DEFINE ev == a.events
             t == b.events
  <1>1. /\ Len(ev) \in Nat /\ Len(t) = Len(ev) + 1 /\ t[Len(ev) + 1] = e
        /\ \A i \in 1 .. Len(ev) : t[i] = ev[i]
    OBVIOUS
  <1>2. \A i \in 1 .. Len(ev) : ev[i].event \in Evidence
    BY DEF Vocal
  <1> HIDE DEF ev, t
  <1>3. \A i \in 1 .. Len(t) : t[i].event \in Evidence \/ i = Len(ev) + 1
    BY <1>1, <1>2
  <1>4. e.event \in Evidence => \A i \in 1 .. Len(t) : t[i].event \in Evidence
    BY <1>1, <1>3
  <1> QED BY <1>3, <1>4 DEF Vocal, Silent, ev, t

\* Ending leaves that so.
LEMMA EndSilent ==
    ASSUME NEW b \in RunRows, NEW status \in Statuses, NEW stop \in Stops,
           NEW error \in Errors \cup {None}, FinishAs(b, status, stop, error),
           Vocal(b) \/ Silent(b)
    PROVE  SInv'
  <1> DEFINE q == Ended(b, status, stop, error)
             e == Noted("record_capacity_exceeded", None, q.status)
  <1>1. q \in RunRows /\ q.events = b.events /\ q.results = b.results
    BY EndedRow
  <1>2. Finish(q)
    BY DEF FinishAs, Ended
  <1> HIDE DEF q
  <1>3. Silent(q)
    BY <1>1 DEF Vocal, Silent
  <1>4. (run' = q \/ run' = Compact(q)) /\ pc' \in {"done", "raised"}
    BY <1>2 DEF Finish
  <1>5. Silent(Compact(q))
    <2>1. /\ e.event = "record_capacity_exceeded"
          /\ Compact(q).events = Append(q.events, e)
          /\ Len(Compact(q).events) = Len(q.events) + 1 /\ Len(q.events) \in Nat
          /\ Last(Compact(q).events) = e
          /\ \A i \in 1 .. Len(q.events) : Compact(q).events[i] = q.events[i]
      BY <1>1, CompactTrace
    <2>2. Compact(q).results = [i \in DOMAIN q.results |-> DigestOnly(q.results[i])]
      BY <1>1, CompactRow
    <2>3. Len(Compact(q).results) = Len(q.results)
      BY <1>1, <2>2, RunFields
    <2>4. e.event \in Evidence
      BY <2>1 DEF Evidence
    <2> DEFINE c == Compact(q)
    <2> HIDE DEF e, c
    <2>5. ASSUME NEW i \in 1 .. Len(c.events), c.events[i].event \notin Evidence
          PROVE  i = 3 * Len(c.results) + 1
      <3>1. i # Len(q.events) + 1
        BY <2>1, <2>4, <2>5 DEF Last, c
      <3>2. i \in 1 .. Len(q.events) /\ c.events[i] = q.events[i]
        BY <2>1, <3>1 DEF c
      <3> QED BY <1>3, <2>3, <2>5, <3>2 DEF Silent, c
    <2> QED BY <2>5 DEF Silent, c
  <1> QED BY <1>3, <1>4, <1>5 DEF SInv, Going

\* The trace starts with nothing.
LEMMA InitSilent == Init => SInv
  <1> SUFFICES ASSUME Init PROVE SInv
    OBVIOUS
  <1>1. run.events = <<>> /\ Going
    BY DEF Init, NewRun, Going
  <1> QED BY <1>1 DEF SInv, Vocal

\* Between calls.
LEMMA WaitingSilent ==
    ASSUME IInv, TInv, SInv, RejectRun \/ BlockCall \/ FailPreparation \/ StartCall
    PROVE  SInv'
  <1>1. /\ run \in RunRows /\ Followed(run, order) /\ order \in Seq(Tasks)
        /\ pc \in {"admission", "ready"} /\ Going /\ run.events \in Seq(EventRows)
    BY RunFields DEF IInv, RejectRun, BlockCall, FailPreparation, StartCall, Going, Open
  <1>2. Len(run.events) = 3 * Len(run.results) /\ Vocal(run)
    BY <1>1 DEF TInv, SInv
  <1>3. NextWork \in WorkIds /\ None \in WorkIds
    BY <1>1, NextInOrder DEF WorkIds
  <1>4. /\ {"run_rejected", "call_blocked", "call_preparation_failed",
            "backend_execution_started"} \subseteq Kinds
        /\ {"failed", "budget_exceeded"} \subseteq Statuses
        /\ {"adapter", "budget"} \subseteq Stops
        /\ {"adapter_error", "execution_budget_exceeded"} \subseteq Errors
    BY DEF Kinds, WorkEvents, Statuses, Stops, Errors
  <1>5. ASSUME NEW e \in EventRows, OutOfBudget(Log(run, e)) \/ Fails(Log(run, e)) PROVE SInv'
    <2> DEFINE b == Log(run, e)
    <2>1. b \in RunRows /\ b.results = run.results /\ b.events = Append(run.events, e)
      BY <1>1, Logged, Zenon DEF Kept
    <2>2. OutOfBudget(b) \/ Fails(b)
      BY <1>5
    <2> HIDE DEF b
    <2>3. Silent(b)
      BY <1>1, <1>2, <2>1, OneMore
    <2> QED BY <1>4, <2>1, <2>2, <2>3, EndSilent DEF OutOfBudget, Fails
  <1>6. \A kind \in {"run_rejected", "call_blocked", "call_preparation_failed",
                     "backend_execution_started"}, w \in WorkIds :
            Event(kind, w) \in EventRows /\ Event(kind, w).event = kind
    BY <1>4, EventTyped
  <1>7. CASE RejectRun \/ BlockCall \/ FailPreparation
    BY <1>3, <1>5, <1>6, <1>7 DEF RejectRun, BlockCall, FailPreparation
  <1>8. CASE StartCall
    <2> DEFINE e == Event("backend_execution_started", NextWork)
    <2>1. run' = Log(run, e) /\ pc' = "calling"
      BY <1>8 DEF StartCall
    <2>2. e \in EventRows /\ e.event = "backend_execution_started"
      BY <1>3, <1>6
    <2> HIDE DEF e
    <2>3. run'.events = Append(run.events, e)
      BY <1>1, <2>1, <2>2, Logged, Zenon
    <2>4. e.event \in Evidence
      BY <2>2 DEF Evidence
    <2>5. Vocal(run')
      BY <1>1, <1>2, <2>3, <2>4, OneMore
    <2> QED BY <2>1, <2>5 DEF SInv, Going
  <1> QED BY <1>7, <1>8

\* A call that comes to nothing.
LEMMA MissSilent ==
    ASSUME IInv, TInv, SInv, NEW u,
           CallFailed \/ (u \in Usages /\ (RejectOverrun(u) \/ RejectAnswer(u)))
    PROVE  SInv'
  <1>1. /\ run \in RunRows /\ Followed(run, order) /\ order \in Seq(Tasks) /\ Going
        /\ run.events \in Seq(EventRows) /\ pc = "calling"
    BY RunFields DEF IInv, CallFailed, RejectOverrun, RejectAnswer, Going
  <1>2. Vocal(run)
    BY <1>1 DEF SInv
  <1>3. NextWork \in WorkIds
    BY <1>1, NextInOrder DEF WorkIds
  <1>4. /\ {"failed", "budget_exceeded"} \subseteq Statuses
        /\ {"adapter", "budget"} \subseteq Stops
        /\ {"adapter_error", "execution_budget_exceeded"} \subseteq Errors
        /\ Ends \subseteq Kinds /\ Ends \subseteq Evidence
    BY DEF Kinds, WorkEvents, Statuses, Stops, Errors, Evidence
  <1>5. ASSUME NEW b \in RunRows, NEW e, e.event \in Ends, b.events = Append(run.events, e),
               OutOfBudget(b) \/ Fails(b)
        PROVE  SInv'
    <2>1. Vocal(b)
      BY <1>1, <1>2, <1>4, <1>5, OneMore
    <2> QED BY <1>4, <1>5, <2>1, EndSilent DEF OutOfBudget, Fails
  <1>6. CASE CallFailed
    <2> DEFINE e == Event("backend_execution_failed", NextWork)
               l == Log(run, e)
               b == Failed(run, NextWork)
    <2>1. "backend_execution_failed" \in Ends
      BY DEF Ends
    <2>2. e \in EventRows /\ e.event \in Ends
      BY <1>3, <1>4, <2>1, EventTyped
    <2>3. b = [l EXCEPT !.complete = FALSE] /\ Fails(b)
      BY <1>6 DEF Failed, CallFailed
    <2> HIDE DEF e, b
    <2>4. l \in RunRows /\ l.events = Append(run.events, e)
      BY <1>1, <2>2, Logged, Zenon
    <2> HIDE DEF l
    <2>5. b \in RunRows
      BY <2>3, <2>4, RunUpdates
    <2>6. b.events = l.events
      BY <2>3, <2>4, SMTT(30) DEF RunRows
    <2> QED BY <1>5, <2>2, <2>3, <2>4, <2>5, <2>6
  <1>7. ASSUME u \in Usages,
               NEW kind \in {"backend_response_rejected", "backend_response_invalid",
                             "backend_response_incomplete"},
               \/ OutOfBudget(Answered(u, Event(kind, NextWork)))
               \/ Fails(Answered(u, Event(kind, NextWork)))
        PROVE  SInv'
    <2> DEFINE a == Answered(u, Event(kind, NextWork))
               e == Billed(kind, NextWork, u)
    <2>1. kind \in Ends
      BY DEF Ends
    <2>2. e \in EventRows /\ e.event = kind
      BY <1>3, <1>4, <1>7, <2>1, BilledTyped
    <2>3. [Event(kind, NextWork) EXCEPT !.usage = u] = e
      BY DEF Billed
    <2>4. [Event(kind, NextWork) EXCEPT !.usage = u] \in EventRows
      BY <2>2, <2>3, Zenon
    <2>5. /\ a \in RunRows
          /\ a.events = Append(run.events, [Event(kind, NextWork) EXCEPT !.usage = u])
      BY <1>1, <1>7, <2>4, AnsweredRow, Zenon
    <2>6. a.events = Append(run.events, e)
      BY <2>3, <2>5, Zenon
    <2>7. OutOfBudget(a) \/ Fails(a)
      BY <1>7
    <2> HIDE DEF a, e
    <2> QED BY <1>5, <2>1, <2>2, <2>5, <2>6, <2>7
  <1>8. CASE u \in Usages /\ (RejectOverrun(u) \/ RejectAnswer(u))
    BY <1>7, <1>8 DEF RejectOverrun, RejectAnswer
  <1> QED BY <1>6, <1>8

\* A task that was answered.
LEMMA TaskSilent ==
    ASSUME IInv, TInv, SInv, NEW u \in Usages, NEW good \in BOOLEAN, CompleteTask(u, good)
    PROVE  SInv'
  <1>1. /\ run \in RunRows /\ Followed(run, order) /\ order \in Seq(Tasks) /\ Going
        /\ pc = "calling" /\ ~Over(u) /\ NextWork # Synthesis
        /\ run.events \in Seq(EventRows) /\ run.results \in Seq(ResultRows)
    BY RunFields DEF IInv, CompleteTask, Going
  <1>2. NextWork \in Tasks
    BY <1>1, NextInOrder
  <1>3. Vocal(run) /\ Len(run.events) = 3 * Len(run.results) + 1
    BY <1>1 DEF TInv, SInv
  <1> DEFINE c == Completed(u, good, "task_contract_evaluated")
             x == Result(u, good)
             more == Append(run.results, x)
             r == [c EXCEPT !.results = Append(@, x)]
             f == Event("call_preparation_failed", Synthesis)
  <1>4. PICK e \in EventRows, v \in EventRows :
            Evaluated(c, e, v, u, good, "task_contract_evaluated")
    BY <1>1, CompletedTraced
  <1>5. /\ e.event \in Evidence /\ v.event \in Evidence
        /\ c \in RunRows /\ c.results = run.results
        /\ c.events = Append(Append(run.events, e), v)
    BY <1>4 DEF Evaluated, Kept, Evidence, Ends
  <1>6. x \in ResultRows
    BY <1>2, ResultRow
  <1>7. /\ \/ ~good /\ FinishAs(r, "rejected", "quality", "task_accept_spec_rejected")
           \/ good /\ Fails(Log(r, f))
           \/ good /\ run' = r /\ pc' = "ready"
    BY DEF CompleteTask
  <1>8. f \in EventRows
    <2>1. Synthesis \in WorkIds /\ "call_preparation_failed" \in Kinds
      BY DEF WorkIds, Kinds, WorkEvents
    <2> QED BY <2>1, EventTyped
  <1> HIDE DEF c, x, r, f
  <1>9. more \in Seq(ResultRows) /\ Len(more) = Len(run.results) + 1
    BY <1>1, <1>6
  <1>10. r \in RunRows /\ r.results = more /\ r.events = c.events
    <2>1. r = WithResults(c, more)
      BY <1>5 DEF WithResults, r
    <2> HIDE DEF more
    <2>2. /\ WithResults(c, more) \in RunRows /\ WithResults(c, more).results = more
          /\ \A g \in {"usage", "complete", "limits", "status", "stop", "events", "mode",
                        "error", "synthesis", "output", "verdict"} :
                 WithResults(c, more)[g] = c[g]
      BY <1>5, <1>9, ResultsSet
    <2> QED BY <2>1, <2>2
  <1>11. Vocal(r) /\ Len(r.events) = 3 * Len(more)
    <2> DEFINE a == [events |-> Append(run.events, e)]
    <2>1. /\ a.events \in Seq(EventRows) /\ a.events = Append(run.events, e)
          /\ Len(a.events) = Len(run.events) + 1
      BY <1>1
    <2> HIDE DEF a
    <2>2. Vocal(a)
      BY <1>1, <1>3, <1>5, <2>1, OneMore
    <2>3. r.events = Append(a.events, v)
      BY <1>5, <1>10, <2>1
    <2>4. Vocal(r)
      BY <1>5, <2>1, <2>2, <2>3, OneMore
    <2>5. Len(r.events) = Len(run.events) + 2
      BY <1>1, <2>1, <2>3
    <2> QED BY <1>1, <1>3, <1>9, <2>4, <2>5
  <1> HIDE DEF more
  <1>12. /\ {"failed", "rejected"} \subseteq Statuses /\ {"adapter", "quality"} \subseteq Stops
         /\ {"adapter_error", "task_accept_spec_rejected"} \subseteq Errors
    BY DEF Statuses, Stops, Errors
  <1>13. CASE FinishAs(r, "rejected", "quality", "task_accept_spec_rejected")
    BY <1>10, <1>11, <1>12, <1>13, EndSilent
  <1>14. CASE Fails(Log(r, f))
    <2> DEFINE b == Log(r, f)
    <2>1. b \in RunRows /\ b.results = r.results /\ b.events = Append(r.events, f)
      BY <1>8, <1>10, Logged, Zenon DEF Kept
    <2>2. Fails(b)
      BY <1>14
    <2> HIDE DEF b
    <2>3. r.events \in Seq(EventRows)
      BY <1>10, RunFields
    <2>4. Silent(b)
      BY <1>10, <1>11, <2>1, <2>3, OneMore
    <2> QED BY <1>12, <2>1, <2>2, <2>4, EndSilent DEF Fails
  <1>15. CASE run' = r /\ pc' = "ready"
    BY <1>11, <1>15 DEF SInv, Going
  <1> QED BY <1>7, <1>13, <1>14, <1>15

\* A synthesis that was answered.
LEMMA SynthesisSilent ==
    ASSUME IInv, TInv, SInv, NEW u \in Usages, NEW good \in BOOLEAN, CompleteSynthesis(u, good)
    PROVE  SInv'
  <1>1. /\ run \in RunRows /\ Followed(run, order) /\ order \in Seq(Tasks) /\ Going
        /\ pc = "calling" /\ ~Over(u) /\ NextWork = Synthesis
        /\ run.events \in Seq(EventRows) /\ run.results \in Seq(ResultRows)
    BY RunFields DEF IInv, CompleteSynthesis, Going
  <1>2. Vocal(run) /\ Len(run.results) \in Nat
    BY <1>1 DEF SInv
  <1> DEFINE c == Completed(u, good, "synthesis_contract_evaluated")
             output == [work |-> Synthesis, good |-> good]
             synthesis == [status |-> StatusOf(good), usage |-> u, ref |-> Digest(output)]
             verdict == Evaluate(output)
             r == [c EXCEPT !.output = output, !.verdict = verdict, !.synthesis = synthesis]
             f == Noted("run_completed", None, Len(run.results))
  <1>3. PICK e \in EventRows, v \in EventRows :
            Evaluated(c, e, v, u, good, "synthesis_contract_evaluated")
    BY <1>1, CompletedTraced
  <1>4. /\ e.event \in Evidence /\ v.event \in Evidence /\ c \in RunRows
        /\ c.events = Append(Append(run.events, e), v)
    BY <1>3 DEF Evaluated, Evidence, Ends
  <1>5. /\ \/ ~good /\ FinishAs(r, "rejected", "quality", "synthesis_accept_spec_rejected")
           \/ good /\ FinishAs(Log(r, f), "completed", "completed", None)
    BY DEF CompleteSynthesis, Noted
  <1>6. output \in Outputs /\ verdict \in Verdicts /\ Digest(output) \in Refs
    BY DEF Outputs, Verdicts, Evaluate, Digest, Refs
  <1>7. synthesis \in SynthesisRows
    BY <1>6 DEF SynthesisRows, StatusOf, ResultStates
  <1>8. r = Synthesized(c, output, verdict, synthesis)
    BY DEF Synthesized
  <1>9. f \in EventRows /\ f.event = "run_completed"
    <2>1. /\ "run_completed" \in Kinds /\ None \in WorkIds
          /\ Len(run.results) \in Verdicts \cup Statuses \cup Nat
      BY <1>2 DEF Kinds, WorkIds
    <2>2. /\ f \in EventRows
          /\ f = [event |-> "run_completed", work |-> None, usage |-> None, ref |-> None,
                  note |-> Len(run.results)]
      BY <2>1, NotedTyped
    <2> HIDE DEF f
    <2> QED BY <2>2
  <1> HIDE DEF c, output, synthesis, verdict, r, f
  <1>10. r \in RunRows /\ r.events = c.events
    <2>1. /\ Synthesized(c, output, verdict, synthesis) \in RunRows
          /\ \A g \in {"usage", "complete", "limits", "status", "stop", "results", "events",
                        "mode", "error"} : Synthesized(c, output, verdict, synthesis)[g] = c[g]
      BY <1>4, <1>6, <1>7, SynthesisSet
    <2> QED BY <1>8, <2>1
  <1>11. Vocal(r) /\ r.events \in Seq(EventRows)
    <2> DEFINE a == [events |-> Append(run.events, e)]
    <2>1. a.events \in Seq(EventRows) /\ a.events = Append(run.events, e)
      BY <1>1
    <2> HIDE DEF a
    <2>2. Vocal(a)
      BY <1>1, <1>2, <1>4, <2>1, OneMore
    <2>3. r.events = Append(a.events, v)
      BY <1>4, <1>10, <2>1
    <2>4. Vocal(r)
      BY <1>4, <2>1, <2>2, <2>3, OneMore
    <2> QED BY <1>10, <2>4, RunFields
  <1>12. /\ {"completed", "rejected"} \subseteq Statuses /\ {"completed", "quality"} \subseteq Stops
         /\ "synthesis_accept_spec_rejected" \in Errors
    BY DEF Statuses, Stops, Errors
  <1>13. CASE FinishAs(r, "rejected", "quality", "synthesis_accept_spec_rejected")
    BY <1>10, <1>11, <1>12, <1>13, EndSilent
  <1>14. CASE FinishAs(Log(r, f), "completed", "completed", None)
    <2> DEFINE b == Log(r, f)
    <2>1. b \in RunRows /\ b.events = Append(r.events, f)
      BY <1>9, <1>10, Logged, Zenon
    <2>2. FinishAs(b, "completed", "completed", None)
      BY <1>14
    <2> HIDE DEF b
    <2>3. Vocal(b)
      <3>1. f.event \in Evidence
        BY <1>9 DEF Evidence
      <3> QED BY <1>11, <2>1, <3>1, OneMore
    <2> QED BY <1>12, <2>1, <2>2, <2>3, EndSilent
  <1> QED BY <1>5, <1>13, <1>14

\* Every step leaves it so.
LEMMA NextSilent == IInv /\ TInv /\ SInv /\ [Next]_vars => SInv'
  <1> SUFFICES ASSUME IInv, TInv, SInv, [Next]_vars PROVE SInv'
    OBVIOUS
  <1>1. CASE CreatePlan \/ RefusePlan \/ AdmitRun
    BY <1>1 DEF CreatePlan, RefusePlan, AdmitRun, SInv, Going
  <1>2. CASE RejectRun \/ BlockCall \/ FailPreparation \/ StartCall
    BY <1>2, WaitingSilent
  <1>3. CASE CallFailed
    BY <1>3, MissSilent
  <1>4. CASE \E u \in Usages : Answer(u)
    <2>1. PICK u \in Usages : Answer(u)
      BY <1>4
    <2> QED BY <2>1, MissSilent, TaskSilent, SynthesisSilent DEF Answer
  <1>5. CASE UNCHANGED vars
    BY <1>5 DEF vars, SInv, Going
  <1> QED BY <1>1, <1>2, <1>3, <1>4, <1>5 DEF Next

-----------------------------------------------------------------------------
(* Where there is evidence *)

\* It is there for the k-th task, m before its evaluation.
ForTask(ev, i, tasks, n, m) == \E k \in 1 .. n : i = 3 * k - m /\ ev[i].work = tasks[k]

\* The kinds of evidence that come right after something else.
Prompt == {"backend_execution_started", "task_contract_evaluated", "synthesis_contract_evaluated"}

\* What the i-th event can be.
Witness(ev, i, tasks, n, called, answered) ==
    LET is(kind) == ev[i].event = kind
        of(w, place) == i = place /\ ev[i].work = w
    IN /\ is("backend_execution_started") =>
             ForTask(ev, i, tasks, n, 2) \/ (called # None /\ of(called, 3 * n + 1))
       /\ is("backend_execution_completed") =>
             ForTask(ev, i, tasks, n, 1) \/ (answered = Synthesis /\ of(Synthesis, 3 * n + 2))
       /\ is("task_contract_evaluated") => ForTask(ev, i, tasks, n, 0)
       /\ is("synthesis_contract_evaluated") => answered = Synthesis /\ of(Synthesis, 3 * n + 3)
       /\ ev[i].event \in Misses => called # None /\ answered = None /\ of(called, 3 * n + 2)

\* The evidence of a grounded trace is where the tasks and the last call have it.
LEMMA EvidencePlaces ==
    ASSUME NEW ev, NEW results, NEW tasks \in Seq(Tasks), NEW called, NEW answered,
           Grounded(ev, results, tasks, called, called, answered), NEW i \in 1 .. Len(ev)
    PROVE  Witness(ev, i, tasks, Len(results), called, answered)
  <1> DEFINE n == Len(results)
             done == TasksOf(results)
             w == ev[i].work
  <1>1. /\ results \in Seq(ResultRows) /\ n \in Nat
        /\ \A k \in 1 .. n : results[k].task = tasks[k]
        /\ Traced(ev, done, called, called, answered) /\ Named(ev)
        /\ CalledFits(results, tasks, called, answered)
    BY DEF Grounded, InOrder
  <1>2. Len(done) = n /\ \A k \in 1 .. n : done[k] = tasks[k]
    BY <1>1, TasksTyped
  <1>3. answered = None \/ (answered = Synthesis /\ called = Synthesis)
    BY <1>1 DEF CalledFits
  <1> HIDE DEF done, n
  <1>4. ASSUME NEW m \in 0 .. 2, i \in Turns(done, w, m) PROVE ForTask(ev, i, tasks, n, m)
    <2>1. PICK k \in 1 .. Len(done) : done[k] = w /\ i = 3 * k - m
      BY <1>4 DEF Turns
    <2> QED BY <1>2, <2>1 DEF ForTask
  <1>5. CASE ev[i].event \in Telling
    <2>1. w \in PlanWorks /\ w # None
      BY <1>1, <1>5, KindsApart, NoneAssumption DEF Named, PlanWorks
    <2>2. SpotsShape(ev, w, done, called, called, answered)
      BY <1>1, <2>1 DEF Traced
    <2>3. i \in Spots(ev, ev[i].event, w)
      BY <1>1 DEF Spots, Traced
    <2>4. \A holds, place : i \in If(holds, place) => holds /\ i = place
      BY DEF If
    <2> HIDE DEF w
    <2>5. ev[i].event = "backend_execution_started" =>
             i \in Turns(done, w, 2) \/ (w = called /\ i = 3 * n + 1)
      <3>1. Spots(ev, "backend_execution_started", w)
               = Turns(done, w, 2) \cup If(w = called, 3 * n + 1)
        BY <1>2, <2>2 DEF SpotsShape
      <3> QED BY <2>3, <2>4, <3>1
    <2>6. ev[i].event = "backend_execution_completed" =>
             i \in Turns(done, w, 1) \/ (w = answered /\ i = 3 * n + 2)
      <3>1. Spots(ev, "backend_execution_completed", w)
               = Turns(done, w, 1) \cup If(w = answered, 3 * n + 2)
        BY <1>2, <2>2 DEF SpotsShape
      <3> QED BY <2>3, <2>4, <3>1
    <2>7. ev[i].event = "task_contract_evaluated" => i \in Turns(done, w, 0)
      BY <1>2, <2>2, <2>3, <2>4 DEF SpotsShape
    <2>8. ev[i].event = "synthesis_contract_evaluated" => w = answered /\ i = 3 * n + 3
      <3>1. Spots(ev, "synthesis_contract_evaluated", w) = If(w = answered, 3 * n + 3)
        BY <1>2, <2>2 DEF SpotsShape
      <3>2. ev[i].event = "synthesis_contract_evaluated" => i \in If(w = answered, 3 * n + 3)
        BY <2>3, <3>1
      <3> QED BY <3>2 DEF If
    <2>9. ev[i].event \in Misses => w = called /\ answered = None /\ i = 3 * n + 2
      <3> SUFFICES ASSUME ev[i].event \in Misses
                   PROVE  w = called /\ answered = None /\ i = 3 * n + 2
        OBVIOUS
      <3>1. i \in If(w = called /\ answered = None, 3 * Len(done) + 2)
        BY <2>2, <2>3 DEF SpotsShape
      <3> QED BY <1>2, <2>4, <3>1
    <2>10. /\ ev[i].event = "backend_execution_started" =>
                ForTask(ev, i, tasks, n, 2) \/ (w = called /\ i = 3 * n + 1)
           /\ ev[i].event = "backend_execution_completed" =>
                ForTask(ev, i, tasks, n, 1) \/ (w = answered /\ i = 3 * n + 2)
           /\ ev[i].event = "task_contract_evaluated" => ForTask(ev, i, tasks, n, 0)
      BY <1>4, <2>5, <2>6, <2>7
    <2> QED BY <1>3, <2>1, <2>8, <2>9, <2>10 DEF Witness, w, n
  <1>6. CASE ev[i].event \notin Telling
    BY <1>6 DEF Witness, Telling, Misses, Ends
  <1> QED BY <1>5, <1>6

-----------------------------------------------------------------------------
(* Two events exchanged *)

\* Where the x-th event goes, and the trace that has it there.
Swap(p, q, x) == IF x = p THEN q ELSE IF x = q THEN p ELSE x
Swapped(t, ev, p, q) ==
    /\ Len(t) = Len(ev) /\ p \in 1 .. Len(ev) /\ q \in 1 .. Len(ev)
    /\ \A x \in 1 .. Len(ev) : t[Swap(p, q, x)] = ev[x]

\* Such is the trace with the p-th and the q-th exchanged.
LEMMA SwappedIs ==
    ASSUME NEW ev \in Seq(EventRows), NEW p \in 1 .. Len(ev), NEW q \in 1 .. Len(ev)
    PROVE  LET t == [ev EXCEPT ![p] = ev[q], ![q] = ev[p]]
           IN t \in Seq(EventRows) /\ Swapped(t, ev, p, q) /\ Swapped(t, ev, q, p)
  <1> DEFINE t == [ev EXCEPT ![p] = ev[q], ![q] = ev[p]]
  <1>1. t \in Seq(EventRows) /\ Len(t) = Len(ev)
    OBVIOUS
  <1>2. \A x \in 1 .. Len(ev) : t[Swap(p, q, x)] = ev[x]
    BY DEF Swap
  <1>3. \A x : Swap(p, q, x) = Swap(q, p, x)
    BY DEF Swap
  <1> QED BY <1>1, <1>2, <1>3 DEF Swapped

\* An event that is nowhere else is nowhere else then.
LEMMA SwappedSpots ==
    ASSUME NEW ev \in Seq(EventRows), NEW t \in Seq(EventRows), NEW p, NEW q,
           Swapped(t, ev, p, q), NEW kind, NEW w, NEW x, Spots(ev, kind, w) = {x}
    PROVE  Spots(t, kind, w) = {Swap(p, q, x)} /\ x \in 1 .. Len(ev)
  <1>1. \A y \in 1 .. Len(ev) : ev[y].event = kind /\ ev[y].work = w <=> y = x
    BY DEF Spots
  <1>2. x \in 1 .. Len(ev)
    BY DEF Spots
  <1>3. \A y \in 1 .. Len(ev) : Swap(p, q, y) \in 1 .. Len(ev) /\ Swap(p, q, Swap(p, q, y)) = y
    BY DEF Swap, Swapped
  <1>4. ASSUME NEW y \in 1 .. Len(t) PROVE t[y].event = kind /\ t[y].work = w <=> y = Swap(p, q, x)
    <2>1. y \in 1 .. Len(ev) /\ Swap(p, q, y) \in 1 .. Len(ev) /\ y = Swap(p, q, Swap(p, q, y))
      BY <1>3 DEF Swapped
    <2>2. t[y] = ev[Swap(p, q, y)]
      BY <2>1 DEF Swapped
    <2>3. t[y].event = kind /\ t[y].work = w <=> Swap(p, q, y) = x
      BY <1>1, <2>1, <2>2
    <2> QED BY <1>2, <1>3, <2>1, <2>3
  <1>5. Swap(p, q, x) \in 1 .. Len(t)
    BY <1>2, <1>3 DEF Swapped
  <1> QED BY <1>2, <1>4, <1>5 DEF Spots

\* s is r with two events exchanged.
Exchanged(r, s, p, q) ==
    /\ Otherwise(s, r) /\ s.mode = "solo"
    /\ Swapped(s.events, r.events, p, q)

\* What comes right after what, and still does.
Turning(p, q, n, called, answered) ==
    LET to(x) == Swap(p, q, x)
    IN /\ \A k \in 1 .. n : to(3 * k) = to(3 * k - 1) + 1
       /\ \A k \in 2 .. n : to(3 * k - 2) = to(3 * k - 3) + 1
       /\ n >= 1 \/ called # None => to(1) = 1
       /\ called # None /\ n >= 1 => to(3 * n + 1) = to(3 * n) + 1
       /\ answered = Synthesis => to(3 * n + 3) = to(3 * n + 2) + 1

\* The event of a kind about a work is at y and nowhere else.
Goes(s, kind, w, y) ==
    /\ Position(s, kind, w) = y /\ At(s, kind, w) = {y}
    /\ Shows(s.events, {kind}, w)

\* An event that is nowhere else goes where the exchange takes it.
LEMMA SwappedGoes ==
    ASSUME NEW r, NEW s, NEW p, NEW q, Exchanged(r, s, p, q),
           NEW kind, NEW w, NEW x, Spots(r.events, kind, w) = {x}
    PROVE  Goes(s, kind, w, Swap(p, q, x)) /\ x \in 1 .. Len(r.events)
  <1>1. /\ r.events \in Seq(EventRows) /\ s.events \in Seq(EventRows)
        /\ Swapped(s.events, r.events, p, q)
    BY DEF Exchanged, Otherwise
  <1>2. Spots(s.events, kind, w) = {Swap(p, q, x)} /\ x \in 1 .. Len(r.events)
    BY <1>1, SwappedSpots
  <1>3. Position(s, kind, w) = Swap(p, q, x) /\ At(s, kind, w) = {Swap(p, q, x)}
    BY <1>2 DEF Position, At, Spots
  <1>4. Shows(s.events, {kind}, w)
    <2>1. Swap(p, q, x) \in Spots(s.events, kind, w)
      BY <1>2
    <2> QED BY <2>1 DEF Spots, Shows
  <1> QED BY <1>2, <1>3, <1>4 DEF Goes

\* A task starts when its turn comes if it is one that started.
LEMMA StartsAt ==
    ASSUME NEW s, s.events \in Seq(EventRows), s.mode = "solo",
           NEW tasks \in Seq(Tasks), Distinct(tasks), NEW d, Valid(s, tasks, d),
           NEW k \in 1 .. Len(tasks), Shows(s.events, {"backend_execution_started"}, tasks[k])
    PROVE  LET x == Position(s, "backend_execution_started", tasks[k])
           IN IF k = 1 THEN x = 1
              ELSE At(s, "task_contract_evaluated", tasks[k - 1]) \cap {x - 1} # {}
  <1> DEFINE started == TaskWorks(Of(s, {"backend_execution_started"}))
  <1>1. /\ CallsFollowPlan(s, tasks) /\ StartsInTurn(s, tasks, d)
    BY DEF Valid
  <1>2. started \in Seq(WorkIds)
    <2> DEFINE evs == Of(s, {"backend_execution_started"})
               I == {i \in DOMAIN evs : evs[i].work # Synthesis}
    <2>1. Works(evs) \in Seq(WorkIds)
      BY WorksOfRecord
    <2> HIDE DEF evs, I
    <2>2. Picked(Works(evs), I) \in Seq(WorkIds)
      BY <2>1, PickedType
    <2>3. started = Picked(Works(evs), I)
      BY DEF TaskWorks, evs, I
    <2> QED BY <2>2, <2>3
  <1>3. IsPrefix(started, tasks)
    BY <1>1 DEF CallsFollowPlan
  <1>4. PICK j \in 1 .. Len(started) : started[j] = tasks[k]
    BY ShownTasks
  <1>5. tasks \in Seq(WorkIds)
    BY DEF WorkIds
  <1> HIDE DEF started
  <1>6. j \in 1 .. Len(tasks) /\ started[j] = tasks[j]
    <2>1. Len(started) <= Len(tasks) /\ \A i \in 1 .. Len(started) : started[i] = tasks[i]
      BY <1>2, <1>3, <1>5, PrefixSingle, Zenon
    <2> QED BY <1>2, <1>4, <2>1
  <1>7. k = j
    BY <1>4, <1>6 DEF Distinct
  <1>8. k \in DOMAIN started
    BY <1>2, <1>4, <1>7
  <1> QED BY <1>1, <1>8 DEF StartsInTurn, started

\* In a valid record the exchange leaves all that.
LEMMA ExchangedTurns ==
    ASSUME NEW r, NEW s, NEW p, NEW q, Exchanged(r, s, p, q),
           NEW tasks, NEW d, Plan(d, tasks), Valid(s, tasks, d), NEW called, NEW answered,
           Grounded(r.events, r.results, tasks, called, called, answered)
    PROVE  Turning(p, q, Len(r.results), called, answered)
  <1> DEFINE ev == r.events
             t == s.events
             n == Len(r.results)
             to(x) == Swap(p, q, x)
  <1>1. /\ tasks \in Seq(Tasks) /\ Distinct(tasks) /\ Len(tasks) >= 1 /\ Len(tasks) \in Nat
    <2>1. Ordered(d, tasks) /\ Len(tasks) = Len(TaskList) /\ Len(TaskList) \in Nat \ {0}
      BY ListedTasks DEF Plan
    <2> QED BY <2>1 DEF Ordered, Distinct
  <1>2. /\ InOrder(r.results, tasks) /\ CalledFits(r.results, tasks, called, answered)
    BY DEF Grounded
  <1>3. /\ n \in Nat /\ n <= Len(tasks) /\ DOMAIN r.results = 1 .. n
        /\ \A k \in 1 .. n : r.results[k].task = tasks[k]
        /\ s.results = r.results
    BY <1>2 DEF InOrder, Exchanged, Otherwise
  <1>4. /\ ev \in Seq(EventRows) /\ t \in Seq(EventRows) /\ Swapped(t, ev, p, q)
        /\ s.mode = "solo"
    BY DEF Exchanged, Otherwise
  <1>5. /\ \A k \in 1 .. n : TurnAt(ev, tasks[k], k)
        /\ SynthesisAt(ev, n, called, answered) /\ CalledAt(ev, n, called, answered)
    BY <1>1, Places
  <1>6. EvaluatedAtOnce(s) /\ SynthesisInTurn(s, tasks)
    BY DEF Valid
  <1> HIDE DEF ev, t, n, to
  <1>7. ASSUME NEW kind, NEW w, NEW x, Spots(ev, kind, w) = {x}
        PROVE  Goes(s, kind, w, to(x))
    BY <1>7, SwappedGoes DEF ev, to
  <1>8. ASSUME NEW k \in 1 .. n
        PROVE  /\ Goes(s, "backend_execution_completed", tasks[k], to(3 * k - 1))
               /\ Goes(s, "task_contract_evaluated", tasks[k], to(3 * k))
    <2>1. /\ Spots(ev, "backend_execution_completed", tasks[k]) = {3 * k - 1}
          /\ Spots(ev, "task_contract_evaluated", tasks[k]) = {3 * k}
      BY <1>5 DEF TurnAt
    <2> QED BY <1>7, <2>1, Zenon
  <1>9. \A k \in 1 .. n : to(3 * k) = to(3 * k - 1) + 1
    <2> SUFFICES ASSUME NEW k \in 1 .. n PROVE to(3 * k) = to(3 * k - 1) + 1
      OBVIOUS
    <2>1. k \in DOMAIN s.results /\ s.results[k].task = tasks[k]
      BY <1>3
    <2>2. Position(s, "task_contract_evaluated", tasks[k])
             = Position(s, "backend_execution_completed", tasks[k]) + 1
      BY <1>6, <2>1 DEF EvaluatedAtOnce
    <2> QED BY <1>8, <2>2 DEF Goes
  <1>10. ASSUME NEW k \in 1 .. Len(tasks), k <= n + 1, NEW x,
                Spots(ev, "backend_execution_started", tasks[k]) = {x}
         PROVE  IF k = 1 THEN to(x) = 1 ELSE to(x) = to(3 * k - 3) + 1
    <2>1. /\ Position(s, "backend_execution_started", tasks[k]) = to(x)
          /\ Shows(t, {"backend_execution_started"}, tasks[k])
      <3>1. Goes(s, "backend_execution_started", tasks[k], to(x))
        BY <1>7, <1>10, Zenon
      <3> QED BY <3>1 DEF Goes, t
    <2>2. IF k = 1 THEN to(x) = 1
          ELSE At(s, "task_contract_evaluated", tasks[k - 1]) \cap {to(x) - 1} # {}
      BY <1>1, <1>4, <2>1, StartsAt DEF t
    <2>3. CASE k # 1
      <3>1. k - 1 \in 1 .. n /\ 3 * (k - 1) = 3 * k - 3
        BY <1>3, <1>10, <2>3
      <3>2. At(s, "task_contract_evaluated", tasks[k - 1]) = {to(3 * k - 3)}
        BY <1>8, <3>1 DEF Goes
      <3>3. to(3 * k - 3) = to(x) - 1
        BY <2>2, <2>3, <3>2
      <3>4. to(x) \in Int
        <4>1. x \in 1 .. Len(ev)
          BY <1>10, SwappedGoes DEF ev
        <4> QED BY <1>4, <4>1 DEF to, Swap, Swapped
      <3> QED BY <2>3, <3>3, <3>4
    <2> QED BY <2>2, <2>3
  <1>11. \A k \in 2 .. n : to(3 * k - 2) = to(3 * k - 3) + 1
    <2> SUFFICES ASSUME NEW k \in 2 .. n PROVE to(3 * k - 2) = to(3 * k - 3) + 1
      OBVIOUS
    <2>1. k \in 1 .. n /\ k \in 1 .. Len(tasks) /\ k <= n + 1 /\ k # 1
      BY <1>3
    <2>2. Spots(ev, "backend_execution_started", tasks[k]) = {3 * k - 2}
      BY <1>5, <2>1 DEF TurnAt
    <2> QED BY <1>10, <2>1, <2>2
  <1>12. n >= 1 => to(1) = 1
    <2> SUFFICES ASSUME n >= 1 PROVE to(1) = 1
      OBVIOUS
    <2>1. 1 \in 1 .. n /\ 1 \in 1 .. Len(tasks) /\ 1 <= n + 1
      BY <1>1, <1>3
    <2>2. Spots(ev, "backend_execution_started", tasks[1]) = {1}
      <3>1. Spots(ev, "backend_execution_started", tasks[1]) = {3 * 1 - 2}
        BY <1>5, <2>1 DEF TurnAt
      <3> QED BY <3>1
    <2> QED BY <1>10, <2>1, <2>2
  <1>13. called = None \/ called = Following(r.results, tasks)
    BY <1>2 DEF CalledFits
  <1>14. CASE called # None /\ called # Synthesis
    <2>1. n < Len(tasks) /\ called = tasks[n + 1] /\ answered # Synthesis
      BY <1>1, <1>2, <1>13, <1>14, FollowingWork, NoneApart DEF CalledFits, n
    <2>2. n + 1 \in 1 .. Len(tasks) /\ n + 1 <= n + 1 /\ 3 * (n + 1) - 3 = 3 * n
      BY <1>1, <1>3, <2>1
    <2>3. Spots(ev, "backend_execution_started", tasks[n + 1]) = {3 * n + 1}
      BY <1>5, <1>14, <2>1 DEF CalledAt
    <2>4. IF n + 1 = 1 THEN to(3 * n + 1) = 1 ELSE to(3 * n + 1) = to(3 * (n + 1) - 3) + 1
      BY <1>10, <2>2, <2>3
    <2>5. IF n = 0 THEN to(1) = 1 ELSE to(3 * n + 1) = to(3 * n) + 1
      BY <1>3, <2>2, <2>4
    <2> QED BY <1>3, <1>9, <1>11, <1>12, <2>1, <2>5 DEF Turning, to, n
  <1>15. CASE called = Synthesis
    <2>1. n = Len(tasks) /\ n \in 1 .. n
      BY <1>1, <1>2, <1>13, <1>15, FollowingWork, NoneApart DEF n
    <2>2. Spots(ev, "backend_execution_started", Synthesis) = {3 * n + 1}
      BY <1>5, <1>15 DEF SynthesisAt, If
    <2>3. /\ Position(s, "backend_execution_started", Synthesis) = to(3 * n + 1)
          /\ At(s, "backend_execution_started", Synthesis) # {}
      <3>1. Goes(s, "backend_execution_started", Synthesis, to(3 * n + 1))
        BY <1>7, <2>2, Zenon
      <3> QED BY <3>1 DEF Goes
    <2>4. Position(s, "backend_execution_started", Synthesis)
             = Position(s, "task_contract_evaluated", Last(tasks)) + 1
      BY <1>4, <1>6, <2>3 DEF SynthesisInTurn
    <2>5. Position(s, "task_contract_evaluated", Last(tasks)) = to(3 * n)
      BY <1>8, <2>1 DEF Last, Goes
    <2>6. to(3 * n + 1) = to(3 * n) + 1
      BY <2>3, <2>4, <2>5
    <2>7. answered = Synthesis => to(3 * n + 3) = to(3 * n + 2) + 1
      <3> SUFFICES ASSUME answered = Synthesis PROVE to(3 * n + 3) = to(3 * n + 2) + 1
        OBVIOUS
      <3>1. /\ Spots(ev, "backend_execution_completed", Synthesis) = {3 * n + 2}
            /\ Spots(ev, "synthesis_contract_evaluated", Synthesis) = {3 * n + 3}
        BY <1>5 DEF SynthesisAt, If
      <3>2. /\ Position(s, "backend_execution_completed", Synthesis) = to(3 * n + 2)
            /\ Position(s, "synthesis_contract_evaluated", Synthesis) = to(3 * n + 3)
            /\ At(s, "backend_execution_completed", Synthesis) # {}
        <4>1. /\ Goes(s, "backend_execution_completed", Synthesis, to(3 * n + 2))
              /\ Goes(s, "synthesis_contract_evaluated", Synthesis, to(3 * n + 3))
          BY <1>7, <3>1, Zenon
        <4> QED BY <4>1 DEF Goes
      <3> QED BY <1>6, <3>2 DEF SynthesisInTurn, SynthesisCompleted
    <2> QED BY <1>9, <1>11, <1>12, <2>1, <2>6, <2>7 DEF Turning, to, n
  <1>16. CASE called = None
    <2>1. answered # Synthesis
      BY <1>2, <1>16, NoneApart DEF CalledFits
    <2> QED BY <1>9, <1>11, <1>12, <1>16, <2>1 DEF Turning, to, n
  <1> QED BY <1>14, <1>15, <1>16

\* The events that end a record.
Closing == {"run_completed", "record_capacity_exceeded"}

\* Each is at its place, by how many events there are.
LEMMA ClosingAt ==
    ASSUME NEW r, r.events \in Seq(EventRows), Says(r), CompletionDeclared(r),
           NEW x \in 1 .. Len(r.events), r.events[x].event \in Closing
    PROVE  x = IF r.events[x].event = "run_completed" /\ CapacityStop(r)
               THEN Len(r.events) - 1 ELSE Len(r.events)
  <1> DEFINE ev == r.events
             cap == {"record_capacity_exceeded"}
             done == {"run_completed"}
  <1>1. /\ Alone(ev, cap) /\ Alone(ev, done)
        /\ Len(Chosen(ev, cap)) = IF CapacityStop(r) THEN 1 ELSE 0
        /\ CapacityStop(r) => ev[Len(ev)].event = "record_capacity_exceeded"
        /\ Len(Chosen(ev, done)) = IF Underlying(r) = "completed" THEN 1 ELSE 0
    BY DEF Says, Marks
  <1>2. Underlying(r) = "completed" =>
            ev[Len(ev) - IF CapacityStop(r) THEN 1 ELSE 0].event = "run_completed"
    BY DEF CompletionDeclared
  <1>3. ev \in Seq(EventRows) /\ x \in 1 .. Len(ev) /\ Len(ev) \in Nat
    OBVIOUS
  <1>4. ev[x].event \in cap \/ ev[x].event \in done
    BY DEF Closing
  <1> HIDE DEF ev
  <1>5. CASE ev[x].event \in cap
    <2>1. CapacityStop(r)
      <3> HIDE DEF cap
      <3>1. Len(Chosen(ev, cap)) # 0
        BY <1>3, <1>5, ShownWorks
      <3> QED BY <1>1, <3>1
    <2>2. Len(ev) \in 1 .. Len(ev) /\ ev[Len(ev)].event \in cap
      BY <1>1, <1>3, <2>1
    <2> HIDE DEF cap
    <2>3. x = Len(ev)
      BY <1>1, <1>3, <1>5, <2>2, SingleChosen
    <2> QED BY <1>5, <2>3 DEF cap, ev
  <1>6. CASE ev[x].event \in done
    <2> DEFINE last == Len(ev) - IF CapacityStop(r) THEN 1 ELSE 0
    <2>1. Underlying(r) = "completed"
      <3> HIDE DEF done
      <3>1. Len(Chosen(ev, done)) # 0
        BY <1>3, <1>6, ShownWorks
      <3> QED BY <1>1, <3>1
    <2>2. last \in 1 .. Len(ev)
      <3>1. CapacityStop(r) => x # Len(ev)
        BY <1>1, <1>6
      <3> QED BY <1>3, <3>1
    <2>3. ev[last].event \in done
      BY <1>2, <2>1
    <2> HIDE DEF last, done
    <2>4. x = last
      BY <1>1, <1>3, <1>6, <2>2, <2>3, SingleChosen
    <2>5. ev[x].event = "run_completed"
      BY <1>6 DEF done
    <2>6. CASE CapacityStop(r)
      BY <2>4, <2>5, <2>6 DEF last, ev
    <2>7. CASE ~CapacityStop(r)
      BY <1>3, <2>4, <2>5, <2>7 DEF last, ev
    <2> QED BY <2>6, <2>7
  <1> QED BY <1>4, <1>5, <1>6

\* So they are not exchanged.
LEMMA ExchangedClosing ==
    ASSUME NEW r, NEW s, NEW p, NEW q, Exchanged(r, s, p, q), Says(r), Says(s),
           CompletionDeclared(r), CompletionDeclared(s),
           NEW x \in 1 .. Len(r.events), r.events[x].event \in Closing
    PROVE  Swap(p, q, x) = x
  <1> DEFINE ev == r.events
             t == s.events
             y == Swap(p, q, x)
  <1>1. /\ Otherwise(s, r) /\ Swapped(t, ev, p, q)
        /\ ev \in Seq(EventRows) /\ t \in Seq(EventRows)
    BY DEF Exchanged, Otherwise
  <1>2. /\ Len(t) = Len(ev) /\ y \in 1 .. Len(t) /\ t[y] = ev[x]
    BY <1>1 DEF Swapped, Swap
  <1>3. \A j \in 1 .. Len(t) : \E m \in 1 .. Len(ev) : t[j] = ev[m]
    <2> SUFFICES ASSUME NEW j \in 1 .. Len(t) PROVE \E m \in 1 .. Len(ev) : t[j] = ev[m]
      OBVIOUS
    <2>1. Swap(p, q, j) \in 1 .. Len(ev) /\ j = Swap(p, q, Swap(p, q, j))
      BY <1>1 DEF Swapped, Swap
    <2> QED BY <1>1, <2>1 DEF Swapped
  <1>4. CapacityStop(s) <=> CapacityStop(r)
    BY <1>1, <1>3, SameEnd
  <1>5. x = IF ev[x].event = "run_completed" /\ CapacityStop(r) THEN Len(ev) - 1 ELSE Len(ev)
    BY <1>1, ClosingAt
  <1>6. y = IF t[y].event = "run_completed" /\ CapacityStop(s) THEN Len(t) - 1 ELSE Len(t)
    <2>1. t[y].event \in Closing
      BY <1>2
    <2> HIDE DEF y
    <2> QED BY <1>1, <1>2, <2>1, ClosingAt
  <1> QED BY <1>2, <1>4, <1>5, <1>6

\* What the exchange leaves of the x-th event's place.
Trail(ev, p, q, n, x) ==
    LET to(y) == Swap(p, q, y)
    IN /\ ev[x].event \in Prompt => IF x = 1 THEN to(x) = 1 ELSE to(x) = to(x - 1) + 1
       /\ ev[x].event \in Ends => x > 1 /\ to(x - 1) < to(x)
       /\ ev[x].event = "backend_execution_completed" =>
             x + 1 \in 1 .. Len(ev) /\ ev[x + 1].event \in Evidence /\ to(x + 1) = to(x) + 1
       /\ ev[x].event \in Misses => x = 3 * n + 2
       /\ ev[x].event \in Closing => to(x) = x

\* No two events of which one is evidence can be exchanged that way.
LEMMA NoExchange ==
    ASSUME NEW ev \in Seq(EventRows), NEW p \in 1 .. Len(ev), NEW q \in 1 .. Len(ev), p < q,
           NEW n \in Nat, \A x \in 1 .. Len(ev) : Trail(ev, p, q, n, x),
           ev[p].event \in Evidence \/ ev[q].event \in Evidence,
           ev[q].event \notin Evidence => q = 3 * n + 1
    PROVE  FALSE
  <1>1. \A kind \in Evidence : \/ kind \in Prompt \/ kind \in Closing \/ kind \in Misses
                               \/ kind = "backend_execution_completed"
    BY DEF Evidence, Prompt, Closing, Misses
  <1>2. /\ Misses \subseteq Ends /\ "backend_execution_completed" \in Ends
    BY DEF Misses, Ends
  <1>3. Len(ev) \in Nat
    OBVIOUS
  <1>4. CASE ev[q].event \in Evidence
    <2>1. Trail(ev, p, q, n, q)
      OBVIOUS
    <2>2. ev[q].event \in Prompt => Swap(p, q, q) = Swap(p, q, q - 1) + 1
      BY <1>3, <2>1 DEF Trail
    <2>3. ev[q].event \in Ends => Swap(p, q, q - 1) < Swap(p, q, q)
      BY <2>1 DEF Trail
    <2>4. ev[q].event \in Closing => Swap(p, q, q) = q
      BY <2>1 DEF Trail
    <2>5. /\ Swap(p, q, q) = p
          /\ Swap(p, q, q - 1) = IF q - 1 = p THEN q ELSE q - 1
      BY <1>3 DEF Swap
    <2>6. ev[q].event \in Prompt \/ ev[q].event \in Closing \/ ev[q].event \in Ends
      BY <1>1, <1>2, <1>4
    <2> QED BY <1>3, <2>2, <2>3, <2>4, <2>5, <2>6
  <1>5. CASE ev[q].event \notin Evidence
    <2>1. Trail(ev, p, q, n, p) /\ ev[p].event \in Evidence /\ q = 3 * n + 1
      BY <1>5
    <2>2. ev[p].event \in Prompt =>
              IF p = 1 THEN Swap(p, q, p) = 1 ELSE Swap(p, q, p) = Swap(p, q, p - 1) + 1
      BY <2>1 DEF Trail
    <2>3. ev[p].event = "backend_execution_completed" =>
              ev[p + 1].event \in Evidence /\ Swap(p, q, p + 1) = Swap(p, q, p) + 1
      BY <2>1 DEF Trail
    <2>4. /\ ev[p].event \in Closing => Swap(p, q, p) = p
          /\ ev[p].event \in Misses => p = 3 * n + 2
      BY <2>1 DEF Trail
    <2>5. /\ Swap(p, q, p) = q /\ Swap(p, q, p - 1) = p - 1
          /\ Swap(p, q, p + 1) = IF p + 1 = q THEN p ELSE p + 1
      BY <1>3 DEF Swap
    <2>6. ev[p].event \notin Prompt
      BY <1>3, <2>2, <2>5
    <2>7. ev[p].event # "backend_execution_completed"
      BY <1>3, <1>5, <2>3, <2>5
    <2>8. ev[p].event \notin Closing /\ ev[p].event \notin Misses
      BY <1>3, <2>1, <2>4, <2>5
    <2> QED BY <1>1, <2>1, <2>6, <2>7, <2>8
  <1> QED BY <1>4, <1>5

\* The start of a call that ended was just before.
LEMMA StartBefore ==
    ASSUME NEW ev, NEW results, NEW tasks \in Seq(Tasks), Distinct(tasks),
           NEW called, NEW answered,
           Grounded(ev, results, tasks, called, called, answered),
           NEW x \in 1 .. Len(ev), ev[x].event \in Ends
    PROVE  Spots(ev, "backend_execution_started", ev[x].work) = {x - 1} /\ x > 1
  <1> DEFINE n == Len(results)
  <1>1. /\ \A k \in 1 .. n : TurnAt(ev, tasks[k], k)
        /\ SynthesisAt(ev, n, called, answered) /\ CalledAt(ev, n, called, answered)
    BY Places
  <1>2. Witness(ev, x, tasks, n, called, answered)
    BY EvidencePlaces
  <1>3. n \in Nat /\ CalledFits(results, tasks, called, answered)
    BY DEF Grounded, InOrder
  <1>4. ev[x].event = "backend_execution_completed" \/ ev[x].event \in Misses
    BY DEF Misses
  <1> HIDE DEF n
  <1>5. CASE ForTask(ev, x, tasks, n, 1)
    <2>1. PICK k \in 1 .. n : x = 3 * k - 1 /\ ev[x].work = tasks[k]
      BY <1>5 DEF ForTask
    <2>2. Spots(ev, "backend_execution_started", tasks[k]) = {3 * k - 2}
      BY <1>1, <2>1 DEF TurnAt
    <2>3. 3 * k - 2 = x - 1 /\ x > 1
      BY <1>3, <2>1
    <2> QED BY <2>1, <2>2, <2>3
  <1>6. CASE answered = Synthesis /\ x = 3 * n + 2 /\ ev[x].work = Synthesis
    <2>1. called = Synthesis
      BY <1>3, <1>6, NoneApart DEF CalledFits
    <2>2. Spots(ev, "backend_execution_started", Synthesis) = {3 * n + 1}
      BY <1>1, <2>1 DEF SynthesisAt, If
    <2> QED BY <1>3, <1>6, <2>2
  <1>7. CASE called # None /\ x = 3 * n + 2 /\ ev[x].work = called
    <2>1. Spots(ev, "backend_execution_started", called) = {3 * n + 1}
      BY <1>1, <1>7 DEF CalledAt
    <2> QED BY <1>3, <1>7, <2>1
  <1> QED BY <1>2, <1>4, <1>5, <1>6, <1>7 DEF Witness

\* The evaluation of a call that was completed is just after.
LEMMA EvaluationAfter ==
    ASSUME NEW ev, NEW results, NEW tasks \in Seq(Tasks), Distinct(tasks),
           NEW called, NEW answered,
           Grounded(ev, results, tasks, called, called, answered),
           NEW x \in 1 .. Len(ev), ev[x].event = "backend_execution_completed"
    PROVE  x + 1 \in 1 .. Len(ev) /\ ev[x + 1].event \in Evidence
  <1> DEFINE n == Len(results)
  <1>1. /\ \A k \in 1 .. n : TurnAt(ev, tasks[k], k)
        /\ SynthesisAt(ev, n, called, answered)
    BY Places
  <1>2. Witness(ev, x, tasks, n, called, answered)
    BY EvidencePlaces
  <1>3. n \in Nat /\ ev \in Seq(EventRows)
    BY DEF Grounded, InOrder, Traced
  <1>4. /\ "task_contract_evaluated" \in Evidence
        /\ "synthesis_contract_evaluated" \in Evidence
    BY DEF Evidence
  <1>5. ASSUME NEW kind \in Evidence, NEW w, Spots(ev, kind, w) = {x + 1}
        PROVE  x + 1 \in 1 .. Len(ev) /\ ev[x + 1].event \in Evidence
    <2>1. x + 1 \in Spots(ev, kind, w)
      BY <1>5
    <2> QED BY <1>3, <2>1 DEF Spots
  <1> HIDE DEF n
  <1>6. CASE ForTask(ev, x, tasks, n, 1)
    <2>1. PICK k \in 1 .. n : x = 3 * k - 1 /\ ev[x].work = tasks[k]
      BY <1>6 DEF ForTask
    <2>2. Spots(ev, "task_contract_evaluated", tasks[k]) = {3 * k}
      BY <1>1, <2>1 DEF TurnAt
    <2>3. 3 * k = x + 1
      BY <1>3, <2>1
    <2>4. Spots(ev, "task_contract_evaluated", tasks[k]) = {x + 1}
      BY <2>2, <2>3
    <2> QED BY <1>4, <1>5, <2>4, Zenon
  <1>7. CASE answered = Synthesis /\ x = 3 * n + 2
    <2>1. Spots(ev, "synthesis_contract_evaluated", Synthesis) = {3 * n + 3}
      BY <1>1, <1>7 DEF SynthesisAt, If
    <2>2. 3 * n + 3 = x + 1
      BY <1>3, <1>7
    <2>3. Spots(ev, "synthesis_contract_evaluated", Synthesis) = {x + 1}
      BY <2>1, <2>2
    <2> QED BY <1>4, <1>5, <2>3, Zenon
  <1> QED BY <1>2, <1>6, <1>7 DEF Witness

\* A valid record with two events exchanged has all trails left.
LEMMA Trails ==
    ASSUME NEW r, NEW s, NEW p, NEW q, Exchanged(r, s, p, q),
           NEW tasks, NEW d, Plan(d, tasks), Valid(s, tasks, d), NEW called, NEW answered,
           Grounded(r.events, r.results, tasks, called, called, answered),
           Says(r), Says(s), CompletionDeclared(r), CompletionDeclared(s),
           NEW x \in 1 .. Len(r.events)
    PROVE  Trail(r.events, p, q, Len(r.results), x)
  <1> DEFINE ev == r.events
             t == s.events
             n == Len(r.results)
             to(y) == Swap(p, q, y)
  <1>1. tasks \in Seq(Tasks) /\ Distinct(tasks)
    BY DEF Plan, Ordered, Distinct
  <1>2. Turning(p, q, n, called, answered)
    BY ExchangedTurns
  <1>3. /\ \A k \in 1 .. n : to(3 * k) = to(3 * k - 1) + 1
        /\ \A k \in 2 .. n : to(3 * k - 2) = to(3 * k - 3) + 1
        /\ n >= 1 \/ called # None => to(1) = 1
        /\ called # None /\ n >= 1 => to(3 * n + 1) = to(3 * n) + 1
        /\ answered = Synthesis => to(3 * n + 3) = to(3 * n + 2) + 1
    BY <1>2 DEF Turning
  <1>4. n \in Nat /\ ev \in Seq(EventRows) /\ Swapped(t, ev, p, q) /\ t \in Seq(EventRows)
    BY DEF Grounded, InOrder, Exchanged, Otherwise
  <1>5. Witness(ev, x, tasks, n, called, answered)
    BY <1>1, EvidencePlaces
  <1>6. ev[x].event \in Closing => to(x) = x
    BY ExchangedClosing
  <1>7. ev[x].event \in Misses => x = 3 * n + 2
    BY <1>5 DEF Witness
  <1>8. ASSUME ev[x].event \in Ends PROVE x > 1 /\ to(x - 1) < to(x)
    <2>1. Spots(ev, "backend_execution_started", ev[x].work) = {x - 1} /\ x > 1
      BY <1>1, <1>8, StartBefore
    <2>2. Spots(t, "backend_execution_started", ev[x].work) = {to(x - 1)}
      <3> DEFINE w == ev[x].work
                 y == x - 1
      <3>1. Spots(r.events, "backend_execution_started", w) = {y}
        BY <2>1
      <3> HIDE DEF w, y
      <3>2. Goes(s, "backend_execution_started", w, Swap(p, q, y))
        BY <3>1, SwappedGoes
      <3>3. At(s, "backend_execution_started", w) = {Swap(p, q, y)}
        BY <3>2 DEF Goes
      <3> QED BY <3>3, AtIs DEF w, y
    <2>3. to(x) \in 1 .. Len(t) /\ t[to(x)] = ev[x]
      BY <1>4 DEF Swapped, Swap
    <2>4. EndsFollow(t)
      BY DEF Says
    <2> HIDE DEF to, ev, t
    <2>5. PICK j \in 1 .. to(x) - 1 :
              t[j].event = "backend_execution_started" /\ t[j].work = ev[x].work
      BY <1>8, <2>3, <2>4 DEF EndsFollow
    <2>6. j \in Spots(t, "backend_execution_started", ev[x].work)
      BY <1>4, <2>3, <2>5 DEF Spots
    <2>7. j = to(x - 1) /\ j < to(x)
      BY <1>4, <2>2, <2>3, <2>5, <2>6
    <2> QED BY <2>1, <2>7
  <1> HIDE DEF to
  <1>9. ASSUME ev[x].event = "backend_execution_completed"
        PROVE  x + 1 \in 1 .. Len(ev) /\ ev[x + 1].event \in Evidence /\ to(x + 1) = to(x) + 1
    <2>1. x + 1 \in 1 .. Len(ev) /\ ev[x + 1].event \in Evidence
      BY <1>1, <1>9, EvaluationAfter
    <2> HIDE DEF n, ev
    <2>2. CASE ForTask(ev, x, tasks, n, 1)
      <3>1. PICK k \in 1 .. n : x = 3 * k - 1
        BY <2>2 DEF ForTask
      <3>2. x + 1 = 3 * k
        BY <1>4, <3>1
      <3> QED BY <1>3, <2>1, <3>1, <3>2
    <2>3. CASE answered = Synthesis /\ x = 3 * n + 2
      <3>1. x + 1 = 3 * n + 3
        BY <1>4, <2>3
      <3> QED BY <1>3, <2>1, <2>3, <3>1
    <2> QED BY <1>5, <1>9, <2>2, <2>3 DEF Witness
  <1>10. ASSUME ev[x].event \in Prompt PROVE IF x = 1 THEN to(x) = 1 ELSE to(x) = to(x - 1) + 1
    <2> HIDE DEF n, ev
    <2>1. \/ ForTask(ev, x, tasks, n, 2) \/ (called # None /\ x = 3 * n + 1)
          \/ ForTask(ev, x, tasks, n, 0) \/ (answered = Synthesis /\ x = 3 * n + 3)
      BY <1>5, <1>10 DEF Witness, Prompt
    <2>2. CASE ForTask(ev, x, tasks, n, 2)
      <3>1. PICK k \in 1 .. n : x = 3 * k - 2
        BY <2>2 DEF ForTask
      <3>2. CASE k = 1
        BY <1>3, <1>4, <3>1, <3>2
      <3>3. CASE k # 1
        <4>1. k \in 2 .. n /\ x # 1 /\ x - 1 = 3 * k - 3
          BY <1>4, <3>1, <3>3
        <4> QED BY <1>3, <3>1, <4>1
      <3> QED BY <3>2, <3>3
    <2>3. CASE called # None /\ x = 3 * n + 1
      <3>1. CASE n = 0
        BY <1>3, <2>3, <3>1
      <3>2. CASE n # 0
        <4>1. n >= 1 /\ x # 1 /\ x - 1 = 3 * n
          BY <1>4, <2>3, <3>2
        <4> QED BY <1>3, <2>3, <4>1
      <3> QED BY <3>1, <3>2
    <2>4. CASE ForTask(ev, x, tasks, n, 0)
      <3>1. PICK k \in 1 .. n : x = 3 * k
        BY <2>4 DEF ForTask
      <3>2. x # 1 /\ x - 1 = 3 * k - 1
        BY <1>4, <3>1
      <3> QED BY <1>3, <3>1, <3>2
    <2>5. CASE answered = Synthesis /\ x = 3 * n + 3
      <3>1. x # 1 /\ x - 1 = 3 * n + 2
        BY <1>4, <2>5
      <3> QED BY <1>3, <2>5, <3>1
    <2> QED BY <2>1, <2>2, <2>3, <2>4, <2>5
  <1> QED BY <1>6, <1>7, <1>8, <1>9, <1>10 DEF Trail, ev, n, to

\* A record does not validate with an event of evidence exchanged with another.
LEMMA ExchangeShows ==
    ASSUME NEW r, NEW s, NEW p, NEW q, p < q, Exchanged(r, s, p, q),
           NEW tasks, NEW d, Plan(d, tasks), Valid(s, tasks, d), NEW called, NEW answered,
           Grounded(r.events, r.results, tasks, called, called, answered), Silent(r),
           Says(r), Says(s), CompletionDeclared(r), CompletionDeclared(s),
           r.events[p].event \in Evidence \/ r.events[q].event \in Evidence
    PROVE  FALSE
  <1>1. /\ r.events \in Seq(EventRows) /\ Len(r.results) \in Nat
        /\ p \in 1 .. Len(r.events) /\ q \in 1 .. Len(r.events)
    BY DEF Grounded, InOrder, Exchanged, Otherwise, Swapped
  <1>2. \A x \in 1 .. Len(r.events) : Trail(r.events, p, q, Len(r.results), x)
    BY Trails
  <1>3. r.events[q].event \notin Evidence => q = 3 * Len(r.results) + 1
    BY <1>1 DEF Silent
  <1> QED BY <1>1, <1>2, <1>3, NoExchange

-----------------------------------------------------------------------------
(* Other claims *)

\* A record with more usage than its trace has does not validate.
LEMMA MoreUsageShows ==
    ASSUME NEW r \in RunRows, NEW w, Alike(w, r), NEW tasks, NEW d, Valid(w, tasks, d),
           NEW u, NEW s, s.events = r.events, s.usage = Plus(r.usage, u), Valid(s, tasks, d)
    PROVE  FALSE
  <1>1. AccountedFor(w) /\ AccountedFor(s)
    BY DEF Valid
  <1>2. Of(w, Metered) = Of(s, Metered)
    BY DEF Of, Alike
  <1>3. r.usage = Plus(r.usage, u)
    BY <1>1, <1>2 DEF AccountedFor, Alike
  <1>4. r.usage.calls \in Nat
    BY RunFields DEF Account
  <1>5. Plus(r.usage, u).calls = r.usage.calls + 1
    BY DEF Plus
  <1> QED BY <1>3, <1>4, <1>5

\* Nor does one that lacks its last result.
LEMMA FewerResultsShow ==
    ASSUME NEW r \in RunRows, r.results # <<>>, NEW w, Alike(w, r),
           NEW tasks, NEW d, Valid(w, tasks, d),
           NEW s, s.events = r.events, s.results = Front(r.results), Valid(s, tasks, d)
    PROVE  FALSE
  <1>1. EvaluatedAtOnce(w) /\ EvaluatedAtOnce(s)
    BY DEF Valid
  <1>2. Of(w, {"task_contract_evaluated"}) = Of(s, {"task_contract_evaluated"})
    BY DEF Of, Alike
  <1>3. Results(w) = Results(s)
    BY <1>1, <1>2 DEF EvaluatedAtOnce
  <1>4. DOMAIN r.results = DOMAIN Front(r.results)
    <2>1. DOMAIN Results(w) = DOMAIN r.results
      BY DEF Results, Alike
    <2>2. DOMAIN Results(s) = DOMAIN Front(r.results)
      BY DEF Results
    <2> QED BY <1>3, <2>1, <2>2
  <1>5. r.results \in Seq(ResultRows)
    BY RunFields
  <1>6. Len(r.results) \in DOMAIN r.results
    BY <1>5
  <1>7. Len(r.results) \notin DOMAIN Front(r.results)
    BY <1>5 DEF Front
  <1> QED BY <1>4, <1>6, <1>7

\* Nor one with the verdict on a result turned round.
LEMMA TurnedVerdictShows ==
    ASSUME NEW r \in RunRows, NEW w, Alike(w, r), NEW tasks, NEW d, Valid(w, tasks, d),
           NEW i \in DOMAIN r.results, NEW s, s.events = r.events,
           i \in DOMAIN s.results, s.results[i].task = r.results[i].task,
           s.results[i].verdict # r.results[i].verdict, Valid(s, tasks, d)
    PROVE  FALSE
  <1> DEFINE t == r.results[i].task
             e == Position(r, "task_contract_evaluated", t)
  <1>1. EvaluatedAtOnce(w) /\ EvaluatedAtOnce(s)
    BY DEF Valid
  <1>2. /\ Position(w, "task_contract_evaluated", t) = e
        /\ Position(s, "task_contract_evaluated", t) = e
    BY DEF Position, At, Alike
  <1>3. w.events[Position(w, "task_contract_evaluated", w.results[i].task)].note
            = w.results[i].verdict
    BY <1>1 DEF EvaluatedAtOnce, Alike
  <1>4. s.events[Position(s, "task_contract_evaluated", s.results[i].task)].note
            = s.results[i].verdict
    BY <1>1 DEF EvaluatedAtOnce
  <1> QED BY <1>2, <1>3, <1>4 DEF Alike

\* Nor one that claims to have completed and did not.
LEMMA CompletionShows ==
    ASSUME NEW r \in RunRows, NEW w, Alike(w, r), NEW tasks, NEW d, Valid(w, tasks, d),
           NEW s, s.events = r.events, s.status = "completed", s.stop = "completed",
           Valid(s, tasks, d)
    PROVE  r.status = "completed" /\ r.stop = "completed" /\ r.error = None
  <1>1. /\ CapacityDeclared(w) /\ CompletionDeclared(w)
        /\ CapacityDeclared(s) /\ CompletionDeclared(s)
        /\ w.stop \in StopReasons[w.status] /\ StatusHolds(w, tasks)
    BY DEF Valid
  <1>2. \A kinds : Of(w, kinds) = Of(s, kinds)
    BY DEF Of, Alike
  <1>3. ~CapacityStop(s) /\ Underlying(s) = "completed"
    BY DEF CapacityStop, Underlying
  <1>4. ~CapacityStop(w)
    BY <1>1, <1>2, <1>3 DEF CapacityDeclared
  <1>5. Underlying(w) = "completed"
    <2> DEFINE done == {"run_completed"}
    <2>1. Len(Of(s, done)) = 1
      BY <1>1, <1>3 DEF CompletionDeclared
    <2>2. Len(Of(w, done)) = IF Underlying(w) = "completed" THEN 1 ELSE 0
      BY <1>1 DEF CompletionDeclared
    <2>3. Of(w, done) = Of(s, done)
      BY <1>2
    <2> HIDE DEF done
    <2> QED BY <2>1, <2>2, <2>3, SMT
  <1>6. w.status = "completed"
    BY <1>4, <1>5 DEF Underlying
  <1>7. w.stop = "completed"
    BY <1>1, <1>6 DEF StopReasons
  <1>8. w.error = None
    BY <1>1, <1>6 DEF StatusHolds, CompletedHolds
  <1> QED BY <1>6, <1>7, <1>8 DEF Alike

\* The claims themselves.
LEMMA ClaimsShow ==
    ASSUME run \in RunRows, NEW w, Alike(w, run), Valid(w, order, deps),
           NEW s \in TamperedClaims, Valid(s, order, deps)
    PROVE  FALSE
  <1>1. CASE \E u \in Usages : s = [run EXCEPT !.usage = Plus(@, u)]
    <2>1. PICK u \in Usages : s = [run EXCEPT !.usage = Plus(@, u)]
      BY <1>1
    <2>2. s.events = run.events /\ s.usage = Plus(run.usage, u)
      BY <2>1, SMTT(30) DEF RunRows
    <2> QED BY <2>2, MoreUsageShows
  <1>2. CASE run.results # <<>> /\ s = [run EXCEPT !.results = Front(@)]
    <2>1. s.events = run.events /\ s.results = Front(run.results)
      BY <1>2, SMTT(30) DEF RunRows
    <2> QED BY <1>2, <2>1, FewerResultsShow
  <1>3. CASE \E i \in {k \in DOMAIN run.results : run.results[k].verdict = "reject"} :
                 s = [run EXCEPT !.results[i].verdict = "pass",
                                 !.results[i].status = "contract_valid"]
    <2>1. PICK i \in DOMAIN run.results :
              /\ run.results[i].verdict = "reject"
              /\ s = [run EXCEPT !.results[i].verdict = "pass",
                                 !.results[i].status = "contract_valid"]
      BY <1>3
    <2> DEFINE x == run.results[i]
               y == [x EXCEPT !.verdict = "pass", !.status = "contract_valid"]
               more == [run.results EXCEPT ![i] = y]
    <2>2. run.results \in Seq(ResultRows) /\ x \in ResultRows
      BY <2>1, RunFields
    <2>3. y.verdict = "pass" /\ y.task = x.task
      BY <2>2 DEF ResultRows
    <2>4. i \in DOMAIN more /\ more[i] = y
      BY <2>1, <2>2
    <2>5. s.events = run.events /\ s.results = more
      <3> DEFINE b == [run.results EXCEPT ![i] = [x EXCEPT !.verdict = "pass"]]
                 a == [run EXCEPT !.results = b]
                 c == [b EXCEPT ![i] = [b[i] EXCEPT !.status = "contract_valid"]]
      <3>1. s = [a EXCEPT !.results[i].status = "contract_valid"]
        BY <2>1
      <3>2. a.results = b
        <4> HIDE DEF b
        <4> QED BY SMTT(30) DEF RunRows
      <3>3. s = [a EXCEPT !.results = c]
        BY <3>1, <3>2
      <3>4. b[i] = [x EXCEPT !.verdict = "pass"]
        BY <2>2
      <3>5. c = more
        BY <2>1, <2>2, <3>4
      <3>6. s = [a EXCEPT !.results = more]
        BY <3>3, <3>5
      <3> HIDE DEF b, more
      <3> QED BY <3>6, SMTT(30) DEF RunRows
    <2>7. i \in DOMAIN s.results /\ s.results[i] = y
      BY <2>4, <2>5
    <2>8. /\ s.results[i].task = run.results[i].task
          /\ s.results[i].verdict # run.results[i].verdict
      BY <2>1, <2>3, <2>7
    <2> HIDE DEF x, y, more
    <2> QED BY <2>1, <2>5, <2>7, <2>8, TurnedVerdictShows
  <1>4. CASE /\ s = [run EXCEPT !.status = "completed", !.stop = "completed", !.error = None]
             /\ s # run
    <2>1. s = Ended(run, "completed", "completed", None)
      BY <1>4 DEF Ended
    <2>2. s.status = "completed" /\ s.stop = "completed" /\ s.events = run.events
      <3>1. "completed" \in Statuses /\ "completed" \in Stops
        BY DEF Statuses, Stops
      <3> QED BY <2>1, <3>1, EndedRow
    <2>3. run.status = "completed" /\ run.stop = "completed" /\ run.error = None
      BY <2>2, CompletionShows
    <2>4. s = run
      <3>1. "completed" \in Statuses /\ "completed" \in Stops
        BY DEF Statuses, Stops
      <3>2. /\ s \in RunRows /\ s.error = None
            /\ \A f \in {"mode", "synthesis", "output", "verdict", "results", "limits",
                         "events", "usage", "complete"} : s[f] = run[f]
        BY <2>1, <3>1, EndedRow
      <3> QED BY <2>2, <2>3, <3>2, SMTT(30) DEF RunRows
    <2> QED BY <1>4, <2>4
  <1> QED BY <1>1, <1>2, <1>3, <1>4 DEF TamperedClaims

-----------------------------------------------------------------------------
(* Records that were tampered with *)

\* What is known of a record that execute returned: there is a valid one that is
\* like it but for the mode, and its trace is grounded.
LEMMA Returned ==
    ASSUME IInv, TInv, pc = "done"
    PROVE  LET w == [run EXCEPT !.mode = "network"]
           IN /\ run \in RunRows /\ Plan(deps, order) /\ Alike(w, run)
              /\ Valid(w, order, deps)
              /\ \E called, answered :
                    Grounded(w.events, w.results, order, called, called, answered)
  <1> DEFINE w == [run EXCEPT !.mode = "network"]
  <1>1. run \in RunRows /\ Plan(deps, order)
    BY PlanFollowed DEF IInv
  <1>2. Alike(w, run) /\ w.mode = "network"
    BY <1>1, SMT DEF RunRows, Alike
  <1>3. PICK q \in RunRows : Closed(q, order) /\ (run = q \/ run = Compact(q))
    BY DEF TInv, Going
  <1>4. WithinLimits(w)
    BY <1>2 DEF WithinLimits
  <1> HIDE DEF w
  <1>5. Alike(w, q) \/ Alike(w, Compact(q))
    BY <1>2, <1>3
  <1>6. Valid(w, order, deps)
    BY <1>1, <1>3, <1>4, <1>5, EndHolds, CompactHolds
  <1>7. PICK called, answered : Grounded(q.events, q.results, order, called, called, answered)
    BY <1>3, EndsSeen
  <1>8. Grounded(run.events, run.results, order, called, called, answered)
    <2>1. CASE run = q
      BY <1>7, <2>1
    <2>2. CASE run = Compact(q)
      <3> DEFINE e == Noted("record_capacity_exceeded", None, q.status)
      <3>1. /\ e \in EventRows /\ e.event = "record_capacity_exceeded"
            /\ run.events = Append(q.events, e)
        BY <1>3, <2>2, CompactTrace
      <3>2. run.results = [i \in DOMAIN q.results |-> DigestOnly(q.results[i])]
        BY <1>3, <2>2, CompactRow
      <3> HIDE DEF e
      <3>3. e.event \notin Telling /\ e.event \notin WorkEvents
        BY <3>1 DEF Telling, WorkEvents, Ends
      <3>4. Grounded(run.events, q.results, order, called, called, answered)
        BY <1>7, <3>1, <3>3, GroundedOther
      <3> QED BY <3>2, <3>4, GroundedDigests
    <2> QED BY <1>3, <2>1, <2>2
  <1>9. Grounded(w.events, w.results, order, called, called, answered)
    BY <1>2, <1>8 DEF Alike
  <1> QED BY <1>1, <1>2, <1>6, <1>9 DEF w

\* No trace that was tampered with passes.
LEMMA TracesShow ==
    ASSUME IInv, TInv, SInv, pc = "done", NEW events \in TamperedTraces,
           Valid([run EXCEPT !.events = events], order, deps)
    PROVE  FALSE
  <1> DEFINE w == [run EXCEPT !.mode = "network"]
             s == [run EXCEPT !.events = events]
             ev == run.events
  <1>1. /\ run \in RunRows /\ Plan(deps, order) /\ Alike(w, run) /\ Valid(w, order, deps)
    BY Returned
  <1>2. PICK called, answered : Grounded(w.events, w.results, order, called, called, answered)
    BY Returned
  <1>3. /\ s.events = events /\ s.results = run.results /\ s.status = run.status
        /\ s.stop = run.stop /\ s.mode = "solo"
    BY <1>1, SMTT(30) DEF RunRows
  <1>4. /\ w.events = ev /\ w.results = run.results /\ w.status = run.status
        /\ w.stop = run.stop
    BY <1>1 DEF Alike
  <1>5. /\ ev \in Seq(EventRows) /\ run.results \in Seq(ResultRows) /\ DOMAIN ev = 1 .. Len(ev)
    BY <1>1, RunFields
  <1>6. order \in Seq(Tasks) /\ Distinct(order)
    BY <1>1 DEF Plan, Ordered, Distinct
  <1>7. Valid(s, order, deps)
    OBVIOUS
  <1>8. Silent(w)
    <2>1. Silent(run)
      BY DEF SInv, Going
    <2> QED BY <1>4, <2>1 DEF Silent
  <1> HIDE DEF w, s
  <1>9. CompletionDeclared(w) /\ CompletionDeclared(s)
    BY <1>1, <1>7 DEF Valid
  <1>10. Says(w)
    BY <1>1, <1>4, <1>5, <1>6, ValidSays
  <1>11. ASSUME events \in Seq(EventRows) PROVE Says(s) /\ Otherwise(s, w)
    BY <1>3, <1>4, <1>5, <1>6, <1>7, <1>11, ValidSays DEF Otherwise
  <1>12. ASSUME NEW i \in 1 .. Len(ev), ev[i].event \in Evidence, events = RemoveAt(ev, i)
         PROVE  FALSE
    <2>1. events \in Seq(EventRows) /\ Lacks(events, ev, i)
      BY <1>5, <1>12, RemovedIs
    <2>2. Says(s) /\ Otherwise(s, w)
      BY <1>11, <2>1
    <2>3. /\ i \in 1 .. Len(w.events) /\ w.events[i].event \in Evidence
          /\ Lacks(s.events, w.events, i)
      BY <1>3, <1>4, <1>12, <2>1
    <2> QED BY <1>10, <2>2, <2>3, RemovedShows
  <1>13. ASSUME NEW i \in 1 .. Len(ev), ev[i].event \in Evidence, events = InsertAt(ev, i, ev[i])
         PROVE  FALSE
    <2>1. events \in Seq(EventRows)
      BY <1>5, <1>13, DoubledIs
    <2>2. Says(s) /\ s.events = InsertAt(ev, i, ev[i])
      BY <1>3, <1>11, <1>13, <2>1
    <2> QED BY <1>5, <1>13, <2>2, DoubledShows
  <1>14. ASSUME NEW i \in 1 .. Len(ev), NEW j \in 1 .. Len(ev), ev[i].event \in Evidence,
                events = [ev EXCEPT ![i] = ev[j], ![j] = ev[i]], events # ev
         PROVE  FALSE
    <2>1. /\ events \in Seq(EventRows) /\ Swapped(events, ev, i, j) /\ Swapped(events, ev, j, i)
      BY <1>5, <1>14, SwappedIs
    <2>2. Says(s)
      BY <1>11, <2>1
    <2>3. Exchanged(w, s, i, j) /\ Exchanged(w, s, j, i)
      BY <1>3, <1>4, <1>11, <2>1 DEF Exchanged
    <2>4. i # j
      <3> SUFFICES ASSUME i = j PROVE FALSE
        OBVIOUS
      <3>1. events = [ev EXCEPT ![i] = ev[i]]
        BY <1>14
      <3> QED BY <1>5, <1>14, <3>1
    <2>5. w.events[i].event \in Evidence
      BY <1>4, <1>14
    <2>6. i < j \/ j < i
      BY <1>5, <2>4
    <2> QED BY <1>1, <1>2, <1>7, <1>8, <1>9, <1>10, <2>2, <2>3, <2>5, <2>6, ExchangeShows
  <1>15. \E i \in 1 .. Len(ev) : ev[i].event \in Evidence /\
            \/ events = RemoveAt(ev, i) \/ events = InsertAt(ev, i, ev[i])
            \/ \E j \in 1 .. Len(ev) :
                  events = [ev EXCEPT ![i] = ev[j], ![j] = ev[i]] /\ events # ev
    BY <1>5 DEF TamperedTraces, IsEvidence
  <1> QED BY <1>12, <1>13, <1>14, <1>15

-----------------------------------------------------------------------------
(* Theorems *)

\* The inductive invariant holds.
THEOREM AlwaysIInv == Spec => []IInv
  BY InitIInv, NextIInv, PTL DEF Spec

\* The run and its account are well typed, and its results are those of the
\* first tasks of the plan's order.
THEOREM RunTypeCorrect == Spec => []TypeOK
  <1>1. IInv => TypeOK
    <2> SUFFICES ASSUME IInv PROVE TypeOK
      OBVIOUS
    <2>1. /\ run \in RunRows /\ order \in Seq(Tasks) /\ Followed(run, order)
      BY DEF IInv
    <2>2. DOMAIN run.results = 1 .. Len(run.results)
      BY <2>1, RunFields
    <2> QED BY <2>1, <2>2, RunFields DEF IInv, TypeOK, Followed, Dependencies, Account, Statuses
  <1> QED BY <1>1, AlwaysIInv, PTL

\* The rounds of the ordering refuse exactly the task graphs in which tasks wait
\* on one another, for any number of tasks in any order.
THEOREM CyclesRefused == Spec => []OnlyCyclesRefused
  <1>1. IInv => OnlyCyclesRefused
    <2> SUFFICES ASSUME IInv, pc # "planning"
                 PROVE  pc = "refused" <=> Waits(deps)
      BY DEF OnlyCyclesRefused, Waits
    <2>1. IsPlan(deps) <=> ~Waits(deps)
      BY PlansHaveNoCycle DEF IInv
    <2> QED BY <2>1 DEF IInv
  <1> QED BY <1>1, AlwaysIInv, PTL

\* What a run reports as used is what was billed, or less by one call of which
\* it says that it does not know; and nothing is bought after an overrun.
THEOREM BillAlwaysKnown == Spec => []BillIsKnown
  <1>1. IInv /\ TypeOK => BillIsKnown
    <2> SUFFICES ASSUME IInv, TypeOK PROVE BillIsKnown
      OBVIOUS
    <2>1. run \in RunRows /\ billed \in Account
      BY DEF IInv
    <2>2. CASE Going
      <3>1. Open(run, billed)
        BY <2>2 DEF IInv
      <3>2. BillFits(run, billed)
        BY <2>1, <3>1, SMTT(30) DEF Open, BillFits, Account
      <3> QED BY <3>1, <3>2 DEF BillIsKnown, BillFits, OverrunIsLast, Open
    <2>3. CASE ~Going
      <3>1. BillFits(run, billed) /\ Overran(run) /\ pc \in {"done", "raised"}
        BY <2>3 DEF IInv, Going
      <3>2. DOMAIN run.events = 1 .. Len(run.events)
        BY <2>1, RunFields
      <3>3. OverrunIsLast
        BY <3>1, <3>2 DEF OverrunIsLast, Overran
      <3> QED BY <3>1, <3>3 DEF BillIsKnown, BillFits
    <2> QED BY <2>2, <2>3
  <1> QED BY <1>1, AlwaysIInv, RunTypeCorrect, PTL

\* A run's trace is that of the tasks done and of the call under way.
THEOREM AlwaysTInv == Spec => []TInv
  <1>1. Init => IInv /\ TInv
    BY InitIInv, InitTraced
  <1>2. IInv /\ TInv /\ [Next]_vars => (IInv /\ TInv)'
    BY NextIInv, NextTraced
  <1> QED BY <1>1, <1>2, PTL DEF Spec

\* Every record that execute returns passes its own validation, as a Solo record
\* and as a Network one, whatever the plan, the limits and the answers, but for
\* an overrun whose record had to be compacted, which never does.
THEOREM RecordsAlwaysValidate == Spec => []RecordsValidate
  <1>1. IInv /\ TInv => RecordsValidate
    <2> SUFFICES ASSUME IInv, TInv, pc = "done"
                 PROVE  /\ Valid(run, order, deps) <=> ~TruncatedOverrun
                        /\ ~TruncatedOverrun =>
                              Valid([run EXCEPT !.mode = "network"], order, deps)
      BY DEF RecordsValidate
    <2>1. run \in RunRows /\ Overran(run) /\ Plan(deps, order)
      BY PlanFollowed DEF IInv, Going
    <2>2. PICK q \in RunRows : Closed(q, order) /\ (run = q \/ run = Compact(q))
      BY DEF TInv, Going
    <2>3. ASSUME NEW r, Alike(r, run) PROVE Valid(r, order, deps) <=> WithinLimits(r)
      BY <2>1, <2>2, <2>3, EndHolds, CompactHolds
    <2>4. Alike(run, run)
      BY DEF Alike
    <2> DEFINE w == [run EXCEPT !.mode = "network"]
    <2>5. Alike(w, run) /\ w.mode = "network"
      BY <2>1, SMT DEF RunRows, Alike
    <2>6. WithinLimits(w)
      BY <2>5 DEF WithinLimits
    <2> HIDE DEF w
    <2>7. WithinLimits(run) <=> ~TruncatedOverrun
      <3>1. run.mode = "solo"
        BY <2>1, RunFields
      <3>2. CASE CapacityStop(run)
        <4>1. Exceeded(run.limits, run.usage) # {} => run.complete
          <5> SUFFICES ASSUME Exceeded(run.limits, run.usage) # {} PROVE run.complete
            OBVIOUS
          <5>1. Underlying(run) = "budget_exceeded"
            BY <2>1 DEF Overran
          <5>2. q.stop # "record" /\ (q.status = "budget_exceeded" => q.complete)
            BY <2>2, EndsSeen
          <5>3. run = Compact(q)
            BY <2>2, <3>2, <5>2 DEF CapacityStop
          <5>4. run.complete = q.complete
            BY <5>3, CompactRow
          <5>5. Last(run.events).note = q.status
            BY <5>3, CompactTrace
          <5> QED BY <3>2, <5>1, <5>2, <5>4, <5>5 DEF Underlying
        <4>2. run.status = "failed"
          BY <3>2 DEF CapacityStop
        <4> QED BY <3>1, <3>2, <4>1, <4>2 DEF WithinLimits, TruncatedOverrun
      <3>3. CASE ~CapacityStop(run)
        BY <2>1, <3>3 DEF WithinLimits, TruncatedOverrun, Overran, Underlying
      <3> QED BY <3>2, <3>3
    <2> QED BY <2>3, <2>4, <2>5, <2>6, <2>7 DEF w
  <1> QED BY <1>1, AlwaysIInv, AlwaysTInv, PTL

\* As long as a run goes on it notes nothing but evidence, and where it ended
\* between calls at most one event more.
THEOREM AlwaysSilent == Spec => []SInv
  <1>1. Init => IInv /\ TInv /\ SInv
    BY InitIInv, InitTraced, InitSilent
  <1>2. IInv /\ TInv /\ SInv /\ [Next]_vars => (IInv /\ TInv /\ SInv)'
    BY NextIInv, NextTraced, NextSilent
  <1> QED BY <1>1, <1>2, PTL DEF Spec

\* A record that execute returned no longer passes validation with one event of
\* a call or a verdict dropped, doubled or exchanged with another, or with a
\* usage, a result or a status that its trace does not bear out: for any plan,
\* any limits and whatever the adapter answered.
THEOREM TamperingAlwaysShows == Spec => []TamperingShows
  <1>1. IInv /\ TInv /\ SInv => TamperingShows
    <2> SUFFICES ASSUME IInv, TInv, SInv, pc = "done" PROVE
            /\ \A events \in TamperedTraces : ~Valid([run EXCEPT !.events = events], order, deps)
            /\ \A r \in TamperedClaims : ~Valid(r, order, deps)
      BY DEF TamperingShows
    <2>1. \A events \in TamperedTraces : ~Valid([run EXCEPT !.events = events], order, deps)
      BY TracesShow
    <2>2. ASSUME NEW r \in TamperedClaims, Valid(r, order, deps) PROVE FALSE
      <3> DEFINE w == [run EXCEPT !.mode = "network"]
      <3>1. run \in RunRows /\ Alike(w, run) /\ Valid(w, order, deps)
        BY Returned
      <3> HIDE DEF w
      <3> QED BY <2>2, <3>1, ClaimsShow
    <2> QED BY <2>1, <2>2
  <1> QED BY <1>1, AlwaysIInv, AlwaysTInv, AlwaysSilent, PTL
=============================================================================
