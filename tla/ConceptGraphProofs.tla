------------------------- MODULE ConceptGraphProofs -------------------------
(***************************************************************************)
(* For any concepts, edges, patches and ascents: no concept is lost; every *)
(* graph is reached from its root and from no other, by induction over the *)
(* rounds of the traversal; a plan that was compiled can run for ever; and *)
(* the snapshots an active graph descends from are those of the log, each  *)
(* applied case once, so that an applied case leaves alone what it did not *)
(* look at.                                                                *)
(***************************************************************************)
EXTENDS ConceptGraph, SharedTheorems

Typed ==
    /\ cases \subseteq [base : {c.base : c \in cases}, patch : Patches, ascent : Routes]
    /\ approved \subseteq cases
    /\ log \in Seq(cases)
    /\ active.nodes \subseteq known

\* The inductive invariant of both theorems.
IInv == Typed /\ ConceptsKept

\* What a changing case leaves of the graph.
LEMMA PatchedParts ==
    ASSUME NEW base, NEW patch, ~IsEmpty(patch)
    PROVE  /\ Patched(base, patch).nodes = (base.nodes \ patch.retired) \cup patch.added
           /\ Patched(base, patch).edges = (base.edges \ patch.cut) \cup patch.drawn
  BY DEF Patched

\* A case that changes nothing leaves the very graph it reviewed.
LEMMA PatchedByNothing ==
    ASSUME NEW base, NEW patch, IsEmpty(patch)
    PROVE  Patched(base, patch) = base
  BY DEF Patched

\* A case retires what an added concept supersedes, and nothing else.
LEMMA RetiredHasHeir ==
    ASSUME NEW base, NEW patch, NEW ascent, Reviewable(base, patch, ascent),
           NEW n \in patch.retired
    PROVE  \E m \in patch.added : n \in Supersedes[m]
  BY DEF Reviewable, RetiresSuperseded, Superseded

\* ConceptsKept survives the step of a case: a retired concept has an added heir,
\* which is active, and other retired concepts keep the heirs they had.
LEMMA ApplyKeeps ==
    ASSUME NEW c, Apply(c), IInv
    PROVE  ConceptsKept'
  <1> SUFFICES ASSUME NEW S \in (SUBSET (known' \ active'.nodes)) \ {{}}
               PROVE  \E n \in S, m \in known' \ S : n \in Supersedes[m]
    BY DEF ConceptsKept
  <1>1. known' = known \cup active'.nodes
    BY DEF Apply
  <1>2. S \subseteq known
    BY <1>1
  <1>3. CASE S \subseteq known \ active.nodes
    <2>1. PICK n \in S, m \in known \ S : n \in Supersedes[m]
      BY <1>3 DEF IInv, ConceptsKept
    <2> QED BY <2>1, <1>1
  <1>4. CASE ~(S \subseteq known \ active.nodes)
    <2>1. PICK n \in S : n \in active.nodes
      BY <1>2, <1>4
    <2>2. n \notin active'.nodes
      OBVIOUS
    <2>3. active' = Patched(active, c.patch) /\ Reviewable(active, c.patch, c.ascent)
      BY DEF Apply
    <2>4. ~IsEmpty(c.patch)
      BY <2>1, <2>2, <2>3, PatchedByNothing
    <2>5. active'.nodes = (active.nodes \ c.patch.retired) \cup c.patch.added
      BY <2>3, <2>4, PatchedParts
    <2>6. n \in c.patch.retired
      BY <2>1, <2>2, <2>5
    <2>7. PICK m \in c.patch.added : n \in Supersedes[m]
      BY <2>3, <2>6, RetiredHasHeir
    <2>8. m \in known' \ S
      BY <2>5, <1>1
    <2> QED BY <2>7, <2>8
  <1> QED BY <1>3, <1>4

\* At the start there is no case, and every active concept is known.
LEMMA TypedInit == Init => Typed
  <1> SUFFICES ASSUME Init PROVE Typed
    OBVIOUS
  <1>1. cases = {} /\ approved = {} /\ log = <<>> /\ known = active.nodes
    BY DEF Init
  <1> QED BY <1>1 DEF Typed

\* Every step keeps the types: cases are only proposed, and logged once approved.
LEMMA TypedNext == Typed /\ [Next]_vars => Typed'
  <1> SUFFICES ASSUME Typed, [Next]_vars PROVE Typed'
    OBVIOUS
  <1>1. ASSUME NEW patch \in Patches, NEW ascent \in Routes, Propose(patch, ascent)
        PROVE  Typed'
    <2>1. cases' = cases \cup {[base |-> active, patch |-> patch, ascent |-> ascent]}
      BY <1>1 DEF Propose
    <2>2. cases' \subseteq [base : {c.base : c \in cases'}, patch : Patches, ascent : Routes]
      BY <2>1 DEF Typed
    <2>3. UNCHANGED <<active, approved, log, known>>
      BY <1>1 DEF Propose
    <2>4. log' \in Seq(cases')
      BY <2>1, <2>3 DEF Typed
    <2> QED BY <2>1, <2>2, <2>3, <2>4 DEF Typed
  <1>2. ASSUME NEW c \in cases, Approve(c) PROVE Typed'
    BY <1>2 DEF Approve, Typed
  <1>3. ASSUME NEW c \in cases, Apply(c) PROVE Typed'
    <2>1. UNCHANGED <<cases, approved>> /\ known' = known \cup active'.nodes
      BY <1>3 DEF Apply
    <2>2. log' = log \/ log' = Append(log, c)
      BY <1>3 DEF Apply
    <2>3. log \in Seq(cases) /\ c \in cases
      BY DEF Typed
    <2>4. log' \in Seq(cases)
      BY <2>2, <2>3
    <2> QED BY <2>1, <2>4 DEF Typed
  <1>4. ASSUME NEW c \in cases, Compile(c) PROVE Typed'
    BY <1>4 DEF Compile, Typed
  <1>5. CASE UNCHANGED vars
    BY <1>5 DEF vars, Typed
  <1> QED BY <1>1, <1>2, <1>3, <1>4, <1>5 DEF Next

\* Concepts are kept by every step; only the application of a case retires any.
LEMMA Inductive == IInv /\ [Next]_vars => IInv'
  <1> SUFFICES ASSUME IInv, [Next]_vars PROVE ConceptsKept'
    BY TypedNext DEF IInv
  <1>1. CASE UNCHANGED <<active, known>>
    BY <1>1 DEF IInv, ConceptsKept
  <1>2. CASE \E c \in cases : Apply(c)
    BY <1>2, ApplyKeeps
  <1> QED BY <1>1, <1>2 DEF Next, Propose, Approve, Compile, vars

\* No concept is lost, for any concepts, patches and routes: whatever ever was
\* active is, or has been revised into something that is.
THEOREM NoConceptLost == Spec => []ConceptsKept
  <1>1. Init => IInv
    <2> SUFFICES ASSUME Init PROVE ConceptsKept
      BY TypedInit DEF IInv
    <2>1. known \ active.nodes = {}
      BY DEF Init
    <2> QED BY <2>1 DEF ConceptsKept
  <1>2. IInv => ConceptsKept
    BY DEF IInv
  <1> QED BY <1>1, <1>2, Inductive, PTL DEF Spec

\* The edges a case draws or cuts end at concepts it looked at.
LEMMA DrawnInClosure ==
    ASSUME NEW base, NEW patch, NEW ascent \in Seq(Refs), ~IsEmpty(patch),
           Reviewable(base, patch, ascent), NEW e \in patch.drawn
    PROVE  {e.parent, e.child} \subseteq Closure(base, patch, ascent)
  <1> DEFINE g == Patched(base, patch)
             slot == [parent |-> e.parent, relation |-> e.relation]
  <1>1. slot \in Stands(g, ascent) /\ Ascends(g, ascent)
    BY DEF Reviewable
  <1>2. e \in g.edges
    BY PatchedParts
  <1>3. e.child \in Children(g, slot.parent, slot.relation)
    BY <1>2 DEF Children
  <1>4. e.child \in Assessed(g, ascent)
    BY <1>1, <1>3 DEF Assessed
  <1>5. e.parent \in {ascent[i] : i \in DOMAIN ascent}
    <2>1. Len(ascent) >= 2
      BY <1>1 DEF Ascends
    <2>2. 1 \in DOMAIN ascent /\ 2 .. Len(ascent) \subseteq DOMAIN ascent
      BY <2>1
    <2>3. slot.parent \in {ascent[i] : i \in 2 .. Len(ascent)} \cup {ascent[1]}
      BY <1>1 DEF Stands, Subject
    <2> QED BY <2>2, <2>3
  <1> QED BY <1>4, <1>5 DEF Closure, Relevant

\* A case that changes the graph leaves a concept outside its closure, and all of
\* that concept's edges, as they are.
LEMMA OutsideClosure ==
    ASSUME NEW base, NEW patch, NEW ascent \in Seq(Refs), ~IsEmpty(patch),
           Reviewable(base, patch, ascent),
           NEW n \in base.nodes \ Closure(base, patch, ascent)
    PROVE  n \in Patched(base, patch).nodes /\ Incident(Patched(base, patch), n) = Incident(base, n)
  <1> DEFINE g == Patched(base, patch)
  <1>1. patch.retired \subseteq Closure(base, patch, ascent)
    BY DEF Reviewable, RetiresSuperseded, Closure
  <1>2. n \in g.nodes
    BY <1>1, PatchedParts
  <1>3. \A e \in patch.cut : n \notin {e.parent, e.child}
    BY DEF Reviewable, CutsInClosure
  <1>4. \A e \in patch.drawn : n \notin {e.parent, e.child}
    BY DrawnInClosure
  <1>5. g.edges = (base.edges \ patch.cut) \cup patch.drawn
    BY PatchedParts
  <1>6. Incident(g, n) = Incident(base, n)
    BY <1>3, <1>4, <1>5 DEF Incident
  <1> QED BY <1>2, <1>6

\* An applied case leaves alone what it did not look at, whatever the graph.
THEOREM OnlyReviewedChanges == Spec => UnreviewedStays
  <1> DEFINE Looked(c) == \A n \in active.nodes \ Closure(active, c.patch, c.ascent) :
                              n \in active'.nodes /\ Incident(active', n) = Incident(active, n)
             Stays == Len(log') > Len(log) => Looked(log'[Len(log')])
  <1>1. Typed /\ [Next]_vars => [Stays]_vars
    <2> SUFFICES ASSUME Typed, Next, Len(log') > Len(log)
                 PROVE  Looked(log'[Len(log')])
      OBVIOUS
    <2>1. PICK c \in cases : Apply(c)
      <3>1. log' # log
        OBVIOUS
      <3> QED BY <3>1 DEF Next, Propose, Approve, Compile
    <2>2. log' = Append(log, c) /\ ~IsEmpty(c.patch)
      BY <2>1 DEF Apply
    <2>3. log \in Seq(cases) /\ c \in cases
      BY DEF Typed
    <2>4. log'[Len(log')] = c
      BY <2>2, <2>3
    <2>5. c.ascent \in Seq(Refs)
      BY InputsAssumption DEF Typed
    <2>6. active' = Patched(active, c.patch) /\ Reviewable(active, c.patch, c.ascent)
      BY <2>1 DEF Apply
    <2> QED BY <2>2, <2>4, <2>5, <2>6, OutsideClosure
  <1>2. Init => Typed
    BY TypedInit
  <1>3. Typed /\ [Next]_vars => Typed'
    BY TypedNext
  <1> QED BY <1>1, <1>2, <1>3, PTL DEF Spec, UnreviewedStays

-----------------------------------------------------------------------------
(* The traversal of a graph, round by round *)

Traverses(g, N, round) ==
    round = [i \in 0 .. N |->
               IF i = 0 THEN {Root} ELSE round[i - 1] \cup Ready(g, round[i - 1])]

\* Rounds are defined, as many as one likes.
LEMMA TraversalExists ==
    ASSUME NEW g
    PROVE  \A N \in Nat : \E round : Traverses(g, N, round)
  <1> DEFINE T == {N \in Nat : \E round : Traverses(g, N, round)}
  <1>1. 0 \in T
    <2> DEFINE h == [i \in 0 .. 0 |-> {Root}]
    <2>1. Traverses(g, 0, h)
      BY DEF Traverses
    <2> QED BY <2>1
  <1>2. ASSUME NEW N \in T PROVE N + 1 \in T
    <2>1. PICK h : Traverses(g, N, h)
      OBVIOUS
    <2> DEFINE last == h[N] \cup Ready(g, h[N])
               k == [i \in 0 .. N + 1 |-> IF i = N + 1 THEN last ELSE h[i]]
    <2>2. h = [i \in 0 .. N |-> IF i = 0 THEN {Root} ELSE h[i - 1] \cup Ready(g, h[i - 1])]
      BY <2>1 DEF Traverses
    <2>3. \A i \in 0 .. N : h[i] = IF i = 0 THEN {Root} ELSE h[i - 1] \cup Ready(g, h[i - 1])
      BY <2>2
    <2> HIDE DEF last
    <2>4. k[N + 1] = last /\ \A i \in 0 .. N : k[i] = h[i]
      OBVIOUS
    <2>5. k[N] = h[N] /\ last = k[N] \cup Ready(g, k[N])
      BY <2>4 DEF last
    <2>6. k = [i \in 0 .. N + 1 |-> k[i]]
      OBVIOUS
    <2> HIDE DEF k
    <2>7. ASSUME NEW i \in 0 .. N + 1
          PROVE  k[i] = IF i = 0 THEN {Root} ELSE k[i - 1] \cup Ready(g, k[i - 1])
      <3>1. CASE i = N + 1
        BY <2>4, <2>5, <3>1
      <3>2. CASE i # N + 1
        <4>1. i \in 0 .. N /\ (i # 0 => i - 1 \in 0 .. N)
          BY <3>2
        <4>2. k[i] = h[i] /\ (i # 0 => k[i - 1] = h[i - 1])
          BY <2>4, <4>1
        <4> QED BY <2>3, <4>1, <4>2
      <3> QED BY <3>1, <3>2
    <2>8. Traverses(g, N + 1, k)
      BY <2>6, <2>7 DEF Traverses
    <2> QED BY <2>8
  <1> HIDE DEF T
  <1>3. T = Nat
    BY <1>1, <1>2, AllNaturals DEF T
  <1> QED BY <1>3 DEF T

\* Visited is the last of them.
LEMMA VisitedIsTraversed ==
    ASSUME NEW g, IsFiniteSet(g.nodes)
    PROVE  \E round : /\ Traverses(g, Cardinality(g.nodes), round)
                      /\ Visited(g) = round[Cardinality(g.nodes)]
  <1>1. Cardinality(g.nodes) \in Nat
    BY FS_CardinalityType
  <1>2. \E round : Traverses(g, Cardinality(g.nodes), round)
    BY <1>1, TraversalExists
  <1> DEFINE round == CHOOSE h : Traverses(g, Cardinality(g.nodes), h)
  <1>3. Traverses(g, Cardinality(g.nodes), round)
    BY <1>2
  <1>4. Visited(g) = round[Cardinality(g.nodes)]
    BY Zenon DEF Visited, Traverses
  <1> QED BY <1>3, <1>4

\* The first round in which some node of S is visited comes after the rounds in
\* which all parents of that node were.
LEMMA FirstVisited ==
    ASSUME NEW g, NEW N \in Nat, NEW round, Traverses(g, N, round),
           NEW i \in 0 .. N, NEW S, round[i] \cap S # {}, Root \notin S
    PROVE  \E j \in 0 .. i - 1, n \in S : /\ n \in Ready(g, round[j]) /\ n \in round[j + 1]
                                          /\ round[j] \cap S = {}
  <1> DEFINE T == {j \in 0 .. i : round[j] \cap S # {}}
  <1>1. \A j \in 0 .. N :
           round[j] = IF j = 0 THEN {Root} ELSE round[j - 1] \cup Ready(g, round[j - 1])
    BY DEF Traverses
  <1>2. T \in SUBSET Nat /\ T # {}
    OBVIOUS
  <1>3. PICK j \in T : \A k \in T : j <= k
    BY <1>2, LeastNatural
  <1>4. j \in 0 .. i /\ j \in 0 .. N /\ round[j] \cap S # {}
    OBVIOUS
  <1>5. j # 0
    <2> SUFFICES ASSUME j = 0 PROVE FALSE
      OBVIOUS
    <2>1. 0 \in 0 .. N
      OBVIOUS
    <2>2. round[0] = {Root}
      BY <1>1, <2>1, Zenon
    <2> QED BY <1>4, <2>2
  <1>6. j - 1 \in 0 .. i - 1 /\ j - 1 \notin T /\ (j - 1) + 1 = j
    BY <1>3, <1>4, <1>5
  <1>7. round[j - 1] \cap S = {}
    BY <1>6
  <1>8. round[j] = round[j - 1] \cup Ready(g, round[j - 1])
    BY <1>1, <1>4, <1>5
  <1>9. PICK n \in S : n \in round[j]
    BY <1>4
  <1>10. n \in Ready(g, round[j - 1])
    BY <1>7, <1>8, <1>9
  <1> QED BY <1>6, <1>7, <1>9, <1>10

\* A node other than the root is visited after all of its parents.
LEMMA VisitedWhenReady ==
    ASSUME NEW g, NEW N \in Nat, NEW round, Traverses(g, N, round),
           NEW i \in 0 .. N, NEW n \in round[i], n # Root
    PROVE  \E j \in 0 .. i - 1 : n \in Ready(g, round[j])
  <1> DEFINE S == {n}
  <1>1. round[i] \cap S # {} /\ Root \notin S
    OBVIOUS
  <1> HIDE DEF S
  <1>2. PICK j \in 0 .. i - 1, m \in S : /\ m \in Ready(g, round[j]) /\ m \in round[j + 1]
                                         /\ round[j] \cap S = {}
    BY <1>1, FirstVisited, SMT
  <1>3. m = n
    BY DEF S
  <1> QED BY <1>2, <1>3, Zenon

\* What was visited stays visited.
LEMMA VisitedStays ==
    ASSUME NEW g, NEW N \in Nat, NEW round, Traverses(g, N, round),
           NEW i \in 0 .. N, NEW j \in 0 .. i
    PROVE  round[j] \subseteq round[i]
  <1> DEFINE T == {k \in Nat : j + k \in 0 .. N => round[j] \subseteq round[j + k]}
  <1>1. \A k \in 0 .. N :
           round[k] = IF k = 0 THEN {Root} ELSE round[k - 1] \cup Ready(g, round[k - 1])
    BY DEF Traverses
  <1>2. 0 \in T
    OBVIOUS
  <1>3. ASSUME NEW k \in T PROVE k + 1 \in T
    <2> SUFFICES ASSUME j + (k + 1) \in 0 .. N PROVE round[j] \subseteq round[j + (k + 1)]
      OBVIOUS
    <2>1. j + k \in 0 .. N /\ (j + (k + 1)) - 1 = j + k /\ j + (k + 1) # 0
      OBVIOUS
    <2>2. round[j + (k + 1)] = round[j + k] \cup Ready(g, round[j + k])
      BY <1>1, <2>1
    <2> QED BY <2>1, <2>2
  <1> HIDE DEF T
  <1>4. T = Nat
    BY <1>2, <1>3, AllNaturals DEF T
  <1>5. i - j \in Nat /\ j + (i - j) = i
    OBVIOUS
  <1> QED BY <1>4, <1>5 DEF T

-----------------------------------------------------------------------------
(* Graphs that were validated *)

\* The graph part of Rooted, of any graph.
RootedGraph(g) ==
    \A S \in (SUBSET g.nodes) \ {{}} :
        /\ Root \notin S => \E e \in g.edges : e.parent \notin S /\ e.child \in S
        /\ \E n \in S : Parents(g, n) \cap S = {}

\* A graph that passes validation is rooted: the node of S that the traversal
\* visits first has all its parents, and it has some, outside S.
LEMMA GraphsAreRooted ==
    ASSUME NEW g, IsGraph(g), IsFiniteSet(g.nodes)
    PROVE  RootedGraph(g)
  <1> DEFINE N == Cardinality(g.nodes)
  <1>1. N \in Nat
    BY FS_CardinalityType
  <1>2. PICK round : Traverses(g, N, round) /\ Visited(g) = round[N]
    BY VisitedIsTraversed
  <1>3. Visited(g) = g.nodes /\ {n \in g.nodes : Parents(g, n) = {}} = {Root}
    BY DEF IsGraph
  <1> HIDE DEF N
  <1>4. ASSUME NEW S \in (SUBSET g.nodes) \ {{}}, Root \notin S
        PROVE  /\ \E e \in g.edges : e.parent \notin S /\ e.child \in S
               /\ \E n \in S : Parents(g, n) \cap S = {}
    <2>1. round[N] \cap S # {} /\ N \in 0 .. N
      BY <1>1, <1>2, <1>3
    <2>2. PICK j \in 0 .. N - 1, n \in S : n \in Ready(g, round[j]) /\ round[j] \cap S = {}
      BY <1>1, <1>2, <1>4, <2>1, FirstVisited
    <2>3. Parents(g, n) # {} /\ Parents(g, n) \cap S = {}
      BY <2>2 DEF Ready
    <2>4. \E e \in g.edges : e.child = n /\ e.parent \in Parents(g, n)
      BY <2>3 DEF Parents
    <2> QED BY <2>3, <2>4
  <1>5. ASSUME NEW S \in (SUBSET g.nodes) \ {{}}, Root \in S
        PROVE  \E n \in S : Parents(g, n) \cap S = {}
    BY <1>3, <1>5
  <1> QED BY <1>4, <1>5 DEF RootedGraph

\* No part of a subject has the subject below it: what the traversal had not
\* visited when it came to the subject is closed under children, and the parts
\* are in it.
LEMMA PartsLieBelow ==
    ASSUME NEW g, IsGraph(g), IsFiniteSet(g.nodes),
           NEW s \in g.nodes, NEW t, NEW edge \in g.edges, edge.parent = s, edge.child = t
    PROVE  \E S \in SUBSET g.nodes : /\ t \in S /\ s \notin S
                                     /\ \A e \in g.edges : e.parent \in S => e.child \in S
  <1> DEFINE N == Cardinality(g.nodes)
  <1>1. N \in Nat
    BY FS_CardinalityType
  <1>2. PICK round : Traverses(g, N, round) /\ Visited(g) = round[N]
    BY VisitedIsTraversed
  <1>3. /\ Visited(g) = g.nodes /\ {n \in g.nodes : Parents(g, n) = {}} = {Root}
        /\ \A e \in g.edges : {e.parent, e.child} \subseteq g.nodes
    BY DEF IsGraph
  <1>4. \A e \in g.edges : e.parent \in Parents(g, e.child) /\ e.child # Root
    <2> SUFFICES ASSUME NEW e \in g.edges
                 PROVE  e.parent \in Parents(g, e.child) /\ e.child # Root
      OBVIOUS
    <2>1. e.parent \in Parents(g, e.child)
      BY DEF Parents
    <2> QED BY <1>3, <2>1
  <1> HIDE DEF N
  <1> DEFINE Late == {i \in 0 .. N : s \in round[i]}
  <1>5. Late \in SUBSET Nat /\ Late # {}
    <2>1. N \in 0 .. N /\ s \in round[N]
      BY <1>1, <1>2, <1>3
    <2> QED BY <1>1, <2>1
  <1>6. PICK i \in Late : \A k \in Late : i <= k
    BY <1>5, LeastNatural
  <1>7. i \in 0 .. N /\ s \in round[i] /\ \A k \in 0 .. i - 1 : s \notin round[k]
    BY <1>1, <1>6
  <1> DEFINE S == g.nodes \ round[i]
  <1>8. ASSUME NEW n \in round[i], n # Root
        PROVE  \E j \in 0 .. i - 1 : n \in Ready(g, round[j])
    <2>1. Traverses(g, N, round) /\ i \in 0 .. N
      BY <1>2, <1>7
    <2> QED BY <1>1, <1>8, <2>1, VisitedWhenReady
  <1>9. \A e \in g.edges : e.child \in round[i] => e.parent \in round[i] \ {s}
    <2> SUFFICES ASSUME NEW e \in g.edges, e.child \in round[i]
                 PROVE  e.parent \in round[i] \ {s}
      OBVIOUS
    <2>1. PICK j \in 0 .. i - 1 : e.child \in Ready(g, round[j])
      BY <1>4, <1>8
    <2>2. e.parent \in round[j]
      BY <1>4, <2>1 DEF Ready
    <2>3. round[j] \subseteq round[i]
      <3>1. j \in 0 .. i
        BY <1>7
      <3> QED BY <1>1, <1>2, <1>7, <3>1, VisitedStays
    <2> QED BY <1>7, <2>2, <2>3
  <1>10. t \in S /\ s \notin S
    BY <1>3, <1>7, <1>9
  <1>11. \A e \in g.edges : e.parent \in S => e.child \in S
    BY <1>3, <1>9
  <1> QED BY <1>10, <1>11

-----------------------------------------------------------------------------
(* What is kept of them *)

\* A plan that was made: TypeOK and PlansCanRun, of one plan.
PlanRuns(p) ==
    /\ p.case \in approved /\ p.tasks \subseteq p.graph.nodes /\ p.graph.nodes \subseteq known
    /\ Cardinality(p.tasks) >= 2
    /\ \A t \in p.tasks :
          /\ Kind[t] \in Executable
          /\ \E S \in SUBSET p.graph.nodes :
                /\ t \in S /\ Subject(p.case.ascent) \notin S
                /\ \A e \in p.graph.edges : e.parent \in S => e.child \in S

\* Graphs are finite, and every case was reviewable against its base.
Valid ==
    /\ IsFiniteSet(active.nodes) /\ RootedGraph(active)
    /\ active.edges \subseteq Edges /\ known \subseteq Refs
    /\ Len(log) <= MaxChanges /\ \A i \in DOMAIN log : log[i] \in approved
    /\ \A c \in cases : IsFiniteSet(c.base.nodes) /\ Reviewable(c.base, c.patch, c.ascent)
    /\ \A p \in plans : PlanRuns(p)

\* A reviewed case makes a finite graph that passes validation, out of known
\* concepts, added ones and edges that may be proposed.
LEMMA PatchedGraph ==
    ASSUME NEW base, NEW patch \in Patches, NEW ascent, Reviewable(base, patch, ascent),
           IsFiniteSet(base.nodes)
    PROVE  /\ IsGraph(Patched(base, patch)) /\ IsFiniteSet(Patched(base, patch).nodes)
           /\ Patched(base, patch).nodes \subseteq base.nodes \cup patch.added
           /\ Patched(base, patch).edges \subseteq base.edges \cup patch.drawn
           /\ patch.added \subseteq Refs /\ patch.drawn \subseteq Edges
  <1>1. IsGraph(Patched(base, patch))
    BY DEF Reviewable
  <1>2. IsFiniteSet(patch.added) /\ patch.added \subseteq Refs /\ patch.drawn \subseteq Edges
    BY InputsAssumption
  <1>3. IsFiniteSet((base.nodes \ patch.retired) \cup patch.added)
    <2>1. base.nodes \ patch.retired \subseteq base.nodes
      OBVIOUS
    <2>2. IsFiniteSet(base.nodes \ patch.retired)
      BY <2>1, FS_Subset
    <2> QED BY <1>2, <2>2, FS_Union
  <1>4. CASE IsEmpty(patch)
    BY <1>1, <1>2, <1>4, PatchedByNothing
  <1>5. CASE ~IsEmpty(patch)
    BY <1>1, <1>2, <1>3, <1>5, PatchedParts, ZenonT(60)
  <1> QED BY <1>4, <1>5

\* The plan of an applied case can run.
LEMMA CompiledRuns ==
    ASSUME Typed, Valid, NEW c \in cases, Compile(c)
    PROVE  PlanRuns(Plan(c))
  <1> DEFINE s == Subject(c.ascent)
             p == Plan(c)
  <1>1. /\ c.patch \in Patches /\ c \in approved /\ active = Patched(c.base, c.patch)
        /\ Reviewable(c.base, c.patch, c.ascent) /\ IsFiniteSet(c.base.nodes)
        /\ c.ascent \in Seq(Refs) /\ active.nodes \subseteq known
    BY InputsAssumption DEF Compile, Typed, Valid
  <1>2. /\ IsGraph(active) /\ IsFiniteSet(active.nodes)
        /\ Ascends(active, c.ascent) /\ Decomposed(active, c.ascent)
    BY <1>1, PatchedGraph DEF Reviewable
  <1>3. /\ p.case = c /\ p.graph = active /\ p.tasks = Children(active, s, "composition")
    BY DEF Plan
  <1>4. s \in active.nodes
    <2>1. Len(c.ascent) >= 2
      BY <1>2 DEF Ascends
    <2>2. 1 \in DOMAIN c.ascent
      BY <1>1, <2>1
    <2> QED BY <1>2, <2>2 DEF Ascends, Subject
  <1>5. Cardinality(p.tasks) >= 2
    BY <1>2, <1>3 DEF Decomposed
  <1>6. ASSUME NEW t \in p.tasks
        PROVE  \E e \in active.edges : /\ e.parent = s /\ e.child = t
                                       /\ e.relation = "composition"
    BY <1>3, <1>6 DEF Children
  <1>7. ASSUME NEW t \in p.tasks
        PROVE  /\ t \in active.nodes /\ Kind[t] \in Executable
               /\ \E S \in SUBSET active.nodes :
                     /\ t \in S /\ s \notin S
                     /\ \A e \in active.edges : e.parent \in S => e.child \in S
    <2>1. PICK e \in active.edges : e.parent = s /\ e.child = t /\ e.relation = "composition"
      BY <1>6, <1>7
    <2>2. t \in active.nodes /\ Kind[t] \in Executable
      BY <1>2, <2>1 DEF IsGraph, CompositionKinds
    <2> HIDE DEF s
    <2>3. \E S \in SUBSET active.nodes :
             /\ t \in S /\ s \notin S
             /\ \A d \in active.edges : d.parent \in S => d.child \in S
      BY <1>2, <1>4, <2>1, PartsLieBelow
    <2> QED BY <2>2, <2>3
  <1> HIDE DEF p
  <1>8. Subject(p.case.ascent) = s
    BY <1>3
  <1> HIDE DEF s
  <1>9. p.tasks \subseteq p.graph.nodes /\ p.graph.nodes \subseteq known
    BY <1>1, <1>3, <1>7
  <1>10. ASSUME NEW t \in p.tasks
         PROVE  /\ Kind[t] \in Executable
                /\ \E S \in SUBSET p.graph.nodes :
                      /\ t \in S /\ Subject(p.case.ascent) \notin S
                      /\ \A e \in p.graph.edges : e.parent \in S => e.child \in S
    BY <1>3, <1>7, <1>8
  <1>11. PlanRuns(p)
    BY <1>1, <1>3, <1>5, <1>9, <1>10 DEF PlanRuns
  <1> QED BY <1>11 DEF p

\* A plan that runs stays one: approvals and known concepts are only added.
LEMMA PlansStay ==
    ASSUME approved \subseteq approved', known \subseteq known', NEW p, PlanRuns(p)
    PROVE  PlanRuns(p)'
  BY DEF PlanRuns

\* Every step keeps the graphs rooted and the compiled plans runnable.
LEMMA ValidNext == Typed /\ Valid /\ [Next]_vars => Valid'
  <1> SUFFICES ASSUME Typed, Valid, [Next]_vars PROVE Valid'
    OBVIOUS
  <1>1. ASSUME NEW patch \in Patches, NEW ascent \in Routes, Propose(patch, ascent)
        PROVE  Valid'
    <2>1. /\ cases' = cases \cup {[base |-> active, patch |-> patch, ascent |-> ascent]}
          /\ UNCHANGED <<active, approved, plans, log, known>>
          /\ Reviewable(active, patch, ascent)
      BY <1>1 DEF Propose
    <2>2. \A c \in cases' : IsFiniteSet(c.base.nodes) /\ Reviewable(c.base, c.patch, c.ascent)
      BY <2>1 DEF Valid
    <2>3. \A p \in plans' : PlanRuns(p)'
      BY <2>1 DEF Valid, PlanRuns
    <2> QED BY <2>1, <2>2, <2>3 DEF Valid, RootedGraph, Parents
  <1>2. ASSUME NEW c \in cases, Approve(c) PROVE Valid'
    <2>1. approved' = approved \cup {c} /\ UNCHANGED <<active, cases, plans, log, known>>
      BY <1>2 DEF Approve
    <2>2. \A p \in plans' : PlanRuns(p)'
      BY <2>1, PlansStay DEF Valid
    <2> QED BY <2>1, <2>2 DEF Valid, RootedGraph, Parents
  <1>3. ASSUME NEW c \in cases, Apply(c) PROVE Valid'
    <2>1. /\ active' = Patched(active, c.patch) /\ known' = known \cup active'.nodes
          /\ UNCHANGED <<cases, approved, plans>> /\ c \in approved
          /\ Reviewable(active, c.patch, c.ascent)
      BY <1>3 DEF Apply
    <2>2. c.patch \in Patches /\ log \in Seq(cases) /\ active.nodes \subseteq known
      BY DEF Typed
    <2>3. /\ IsGraph(active') /\ IsFiniteSet(active'.nodes)
          /\ active'.nodes \subseteq active.nodes \cup c.patch.added
          /\ active'.edges \subseteq active.edges \cup c.patch.drawn
          /\ c.patch.added \subseteq Refs /\ c.patch.drawn \subseteq Edges
      BY <2>1, <2>2, PatchedGraph DEF Valid
    <2>4. RootedGraph(active)'
      BY <2>3, GraphsAreRooted
    <2>5. active'.edges \subseteq Edges /\ known' \subseteq Refs
      BY <2>1, <2>2, <2>3 DEF Valid
    <2>6. log' = log \/ (Len(log) < MaxChanges /\ log' = Append(log, c))
      BY <1>3 DEF Apply
    <2>7. Len(log') <= MaxChanges /\ \A i \in DOMAIN log' : log'[i] \in approved'
      BY <2>1, <2>2, <2>6, BoundsAssumption DEF Valid
    <2>8. \A p \in plans' : PlanRuns(p)'
      BY <2>1, PlansStay DEF Valid
    <2>9. \A k \in cases' : IsFiniteSet(k.base.nodes) /\ Reviewable(k.base, k.patch, k.ascent)
      BY <2>1 DEF Valid
    <2> QED BY <2>3, <2>4, <2>5, <2>7, <2>8, <2>9 DEF Valid
  <1>4. ASSUME NEW c \in cases, Compile(c) PROVE Valid'
    <2>1. plans' = plans \cup {Plan(c)} /\ UNCHANGED <<active, cases, approved, log, known>>
      BY <1>4 DEF Compile
    <2>2. PlanRuns(Plan(c))
      BY <1>4, CompiledRuns
    <2>3. ASSUME NEW p \in plans' PROVE PlanRuns(p)'
      <3>1. PlanRuns(p)
        BY <2>1, <2>2, <2>3 DEF Valid
      <3> QED BY <2>1, <3>1, PlansStay
    <2> QED BY <2>1, <2>3 DEF Valid, RootedGraph, Parents
  <1>5. CASE UNCHANGED vars
    <2>1. \A p \in plans' : PlanRuns(p)'
      BY <1>5 DEF vars, Valid, PlanRuns
    <2> QED BY <1>5, <2>1 DEF vars, Valid, RootedGraph, Parents
  <1> QED BY <1>1, <1>2, <1>3, <1>4, <1>5 DEF Next

\* A genesis graph is rooted, and at the start nothing is planned or logged.
LEMMA ValidInit == Init => Valid
  <1> SUFFICES ASSUME Init PROVE Valid
    OBVIOUS
  <1>1. PICK g \in Genesis :
           IsGraph(g) /\ active = [nodes |-> g.nodes, edges |-> g.edges, predecessor |-> {}]
    BY DEF Init
  <1>2. IsFiniteSet(g.nodes) /\ g.nodes \subseteq Refs /\ g.edges \subseteq Edges
    BY InputsAssumption
  <1>3. RootedGraph(g)
    BY <1>1, <1>2, GraphsAreRooted
  <1>4. active.nodes = g.nodes /\ active.edges = g.edges
    BY <1>1
  <1>5. RootedGraph(active)
    BY <1>3, <1>4 DEF RootedGraph, Parents
  <1>6. cases = {} /\ plans = {} /\ log = <<>> /\ known = active.nodes
    BY DEF Init
  <1> QED BY <1>2, <1>4, <1>5, <1>6, BoundsAssumption DEF Valid

\* Valid holds throughout.
LEMMA ValidAlways == Spec => [](Typed /\ Valid)
  BY TypedInit, TypedNext, ValidInit, ValidNext, PTL DEF Spec

\* Whatever cases are applied, every active concept is reached from the root and
\* none is above itself (_validate_graph), for any graphs and patches.
THEOREM AlwaysRooted == Spec => []Rooted
  <1>1. Valid => Rooted
    BY DEF Valid, RootedGraph, Rooted
  <1> QED BY <1>1, ValidAlways, PTL

\* Every plan that was ever compiled has two tasks at least, of concepts that can
\* be executed, and never one above the subject (execution_plan_from_fi_case).
THEOREM CompiledPlansRun == Spec => []PlansCanRun
  <1>1. Typed /\ Valid => PlansCanRun
    BY DEF Typed, Valid, TypeOK, PlanRuns, PlansCanRun
  <1> QED BY <1>1, ValidAlways, PTL

-----------------------------------------------------------------------------
(* The line of snapshots *)

\* line holds the snapshots that were active, in their order, and each case of
\* the log was made against the one it was applied to.
LineOf(line) ==
    /\ line = [i \in 1 .. Len(log) + 1 |-> line[i]]
    /\ line[1].predecessor = {} /\ line[Len(log) + 1] = active
    /\ \A i \in 1 .. Len(log) : line[i + 1].predecessor = {line[i]} /\ log[i].base = line[i]
    /\ \A i, j \in 1 .. Len(log) + 1 : line[i] = line[j] => i = j

HasLine == \E line : LineOf(line)

\* A change makes a snapshot that was never active before: its predecessor is the
\* active one, which is no other snapshot's.
LEMMA LineNext == Typed /\ HasLine /\ [Next]_vars => HasLine'
  <1> SUFFICES ASSUME Typed, HasLine, [Next]_vars PROVE HasLine'
    OBVIOUS
  <1>1. PICK line : LineOf(line)
    BY DEF HasLine
  <1> DEFINE n == Len(log) + 1
  <1>2. log \in Seq(cases) /\ n \in Nat /\ Len(log) \in Nat
    BY DEF Typed
  <1>3. CASE UNCHANGED <<active, log>>
    <2>1. LineOf(line)'
      BY <1>1, <1>3 DEF LineOf
    <2> QED BY <2>1 DEF HasLine
  <1>4. ASSUME NEW c \in cases, Apply(c), ~IsEmpty(c.patch) PROVE HasLine'
    <2>1. log' = Append(log, c) /\ c.base = active /\ active' = Patched(active, c.patch)
      BY <1>4 DEF Apply
    <2>2. active'.predecessor = {active}
      BY <1>4, <2>1 DEF Patched
    <2>3. /\ Len(log') = n /\ log'[n] = c /\ \A i \in 1 .. Len(log) : log'[i] = log[i]
      BY <1>2, <2>1
    <2>4. /\ line[1].predecessor = {} /\ line[n] = active
          /\ \A i \in 1 .. Len(log) : line[i + 1].predecessor = {line[i]} /\ log[i].base = line[i]
          /\ \A i, j \in 1 .. n : line[i] = line[j] => i = j
      BY <1>1 DEF LineOf
    <2>5. ASSUME NEW i \in 1 .. n PROVE line[i] # active'
      <3>1. CASE i = 1
        BY <2>2, <2>4, <3>1
      <3>2. CASE i # 1
        <4>1. i - 1 \in 1 .. Len(log) /\ (i - 1) + 1 = i
          BY <1>2, <3>2
        <4>2. line[i].predecessor = {line[i - 1]}
          BY <2>4, <4>1
        <4>3. i - 1 \in 1 .. n /\ n \in 1 .. n /\ i - 1 # n
          BY <1>2, <4>1
        <4>4. line[i - 1] # line[n]
          BY <2>4, <4>3
        <4> QED BY <2>2, <2>4, <4>2, <4>4
      <3> QED BY <3>1, <3>2
    <2> PICK next : next = [i \in 1 .. n + 1 |-> IF i = n + 1 THEN active' ELSE line[i]]
      OBVIOUS
    <2>6. next[n + 1] = active' /\ \A i \in 1 .. n : next[i] = line[i]
      BY <1>2
    <2>7. next = [i \in 1 .. n + 1 |-> next[i]]
      OBVIOUS
    <2> HIDE DEF n
    <2>8. next[1].predecessor = {}
      BY <1>2, <2>4, <2>6 DEF n
    <2>9. ASSUME NEW i \in 1 .. n
          PROVE  next[i + 1].predecessor = {next[i]} /\ log'[i].base = next[i]
      <3>1. CASE i = n
        <4>1. next[i + 1] = active' /\ next[i] = active /\ log'[i] = c
          BY <2>3, <2>4, <2>6, <3>1
        <4> QED BY <2>1, <2>2, <4>1
      <3>2. CASE i # n
        <4>1. i \in 1 .. Len(log) /\ i + 1 \in 1 .. n
          BY <1>2, <3>2 DEF n
        <4>2. next[i + 1] = line[i + 1] /\ next[i] = line[i] /\ log'[i] = log[i]
          BY <2>3, <2>6, <4>1
        <4> QED BY <2>4, <4>1, <4>2
      <3> QED BY <3>1, <3>2
    <2>10. ASSUME NEW i \in 1 .. n + 1, NEW j \in 1 .. n + 1, next[i] = next[j] PROVE i = j
      <3>1. (i = n + 1 \/ i \in 1 .. n) /\ (j = n + 1 \/ j \in 1 .. n)
        BY <1>2
      <3>2. CASE i = n + 1 /\ j \in 1 .. n
        BY <2>5, <2>6, <2>10, <3>2
      <3>3. CASE j = n + 1 /\ i \in 1 .. n
        BY <2>5, <2>6, <2>10, <3>3
      <3>4. CASE i \in 1 .. n /\ j \in 1 .. n
        BY <2>4, <2>6, <2>10, <3>4
      <3> QED BY <3>1, <3>2, <3>3, <3>4
    <2>11. LineOf(next)'
      <3>1. next = [i \in 1 .. Len(log') + 1 |-> next[i]]
        BY <2>3, <2>7
      <3> QED BY <2>3, <2>6, <2>7, <2>8, <2>9, <2>10, <3>1 DEF LineOf
    <2> QED BY <2>11 DEF HasLine
  <1>5. ASSUME NEW c \in cases, Apply(c), IsEmpty(c.patch) PROVE UNCHANGED <<active, log>>
    BY <1>5, PatchedByNothing DEF Apply
  <1> QED BY <1>3, <1>4, <1>5 DEF Next, Propose, Approve, Compile, vars

\* A reviewed change takes effect once, whatever later cases bring back the graph
\* it was made against (apply_fractal_case_proposal and the digest of a snapshot).
THEOREM AppliedOnceAlways == Spec => []AppliedOnce
  <1>1. Init => HasLine
    <2> SUFFICES ASSUME Init PROVE HasLine
      OBVIOUS
    <2> DEFINE line == [i \in 1 .. 1 |-> active]
    <2>1. log = <<>> /\ active.predecessor = {}
      BY DEF Init
    <2>2. LineOf(line)
      BY <2>1 DEF LineOf
    <2> QED BY <2>2 DEF HasLine
  <1>2. Typed /\ HasLine => AppliedOnce
    <2> SUFFICES ASSUME Typed, HasLine, NEW i \in DOMAIN log, NEW j \in DOMAIN log, log[i] = log[j]
                 PROVE  i = j
      BY DEF AppliedOnce
    <2>1. PICK line : LineOf(line)
      BY DEF HasLine
    <2>2. DOMAIN log = 1 .. Len(log) /\ Len(log) \in Nat
      BY DEF Typed
    <2>3. i \in 1 .. Len(log) + 1 /\ j \in 1 .. Len(log) + 1
      BY <2>2
    <2>4. log[i].base = line[i] /\ log[j].base = line[j]
      BY <2>1, <2>2 DEF LineOf
    <2>5. line[i] = line[j]
      BY <2>4
    <2> QED BY <2>1, <2>3, <2>5 DEF LineOf
  <1> QED BY <1>1, <1>2, LineNext, TypedInit, TypedNext, PTL DEF Spec
=============================================================================
