---------------------------- MODULE ConceptGraph ----------------------------
(***************************************************************************)
(* topology.py: cases that change a graph of concepts, proposed against    *)
(* one snapshot of it, reviewed, applied, and compiled into plans.         *)
(*                                                                         *)
(* A node's reference is the digest of its contract, so what a node is     *)
(* never changes and is a constant here; likewise an edge, of which the    *)
(* role and the rationale are left out.  A snapshot's digest covers its    *)
(* nodes, its edges and its predecessor's digest: the snapshot itself      *)
(* stands for it, and the first has no predecessor in its set of them.     *)
(* The store, which keeps the active snapshot and sets it only if the      *)
(* snapshot a case was applied to is still active, is the application's    *)
(* and external, as are authors and reviewers.                             *)
(*                                                                         *)
(* A definition whose comment starts with "Mutation:" is a plausible bug   *)
(* in the definition after it and no part of the model.                    *)
(***************************************************************************)
EXTENDS Naturals, Sequences, FiniteSets

CONSTANTS
    Refs,            \* node references
    Kind,            \* kind, name and supersedes of each node
    Name,
    Supersedes,
    Root,            \* the reference of RootSolver
    Edges,           \* edges that may be proposed: [parent, child, relation]
    Genesis,         \* graphs an application starts with: [nodes, edges]
    Patches,         \* patches authors propose: [added, retired, drawn, cut]
    Routes,          \* ascents authors propose
    MaxCases,        \* bound: cases proposed
    MaxChanges       \* bound: cases applied that change the graph

Kinds == {"solver", "composite", "abstraction_parent", "passive"}
Relations == {"specialization", "composition"}
Executable == {"solver", "composite"}

ASSUME NodesAssumption ==
    /\ Kind \in [Refs -> Kinds]
    /\ Supersedes \in [Refs -> SUBSET Refs] /\ \A n \in Refs : n \notin Supersedes[n]
    /\ Root \in Refs /\ Kind[Root] = "composite"
    /\ \A e \in Edges : e \in [parent : Refs, child : Refs, relation : Relations] /\ e.parent # e.child
ASSUME InputsAssumption ==
    /\ \A g \in Genesis : g.nodes \subseteq Refs /\ g.edges \subseteq Edges
                         /\ IsFiniteSet(g.nodes)
    /\ \A patch \in Patches : IsFiniteSet(patch.added)
    /\ Patches \subseteq [added : SUBSET Refs, retired : SUBSET Refs,
                          drawn : SUBSET Edges, cut : SUBSET Edges]
    /\ \A route \in Routes : route \in Seq(Refs)
ASSUME BoundsAssumption == MaxCases \in Nat /\ MaxChanges \in Nat

VARIABLES
    active,          \* the store's snapshot
    cases,           \* cases proposed
    approved,        \* cases whose digest a review approves
    plans,           \* execution plans made of cases
    log,             \* history: the cases that changed the graph
    known            \* history: the nodes that ever were active

vars == <<active, cases, approved, plans, log, known>>

-----------------------------------------------------------------------------
(* Graphs *)

Children(g, n, relation) == {e.child : e \in {d \in g.edges : d.parent = n /\ d.relation = relation}}
Parents(g, n) == {e.parent : e \in {d \in g.edges : d.child = n}}

\* Mutation: a node is ready once one of its parents was visited.
ReadyBySome(g, visited) == {n \in g.nodes : Parents(g, n) \cap visited # {}}

\* Nodes whose incoming edges are all used up.
Ready(g, visited) == {n \in g.nodes : Parents(g, n) # {} /\ Parents(g, n) \subseteq visited}

\* The traversal from the root, which visits a node after all of its parents; it
\* is over after as many rounds as there are nodes.
Visited(g) ==
    LET round[i \in 0 .. Cardinality(g.nodes)] ==
            IF i = 0 THEN {Root}
            ELSE LET before == round[i - 1] IN before \cup Ready(g, before)
    IN round[Cardinality(g.nodes)]

\* Mutation: any node may be a part.
CompositionKindsOfParent(e) == Kind[e.parent] = "composite"

\* Only composites have parts, and only what can be executed is one.
CompositionKinds(e) == Kind[e.parent] = "composite" /\ Kind[e.child] \in Executable

\* _validate_graph.
IsGraph(g) ==
    /\ \A m, n \in g.nodes : Name[m] = Name[n] => m = n
    /\ Root \in g.nodes
    /\ \A e \in g.edges : {e.parent, e.child} \subseteq g.nodes
    /\ \A d, e \in g.edges : d.parent = e.parent /\ d.child = e.child => d = e
    /\ \A e \in g.edges : e.relation = "composition" => CompositionKinds(e)
    /\ {n \in g.nodes : Parents(g, n) = {}} = {Root}
    /\ Visited(g) = g.nodes

-----------------------------------------------------------------------------
(* Patches *)

IsEmpty(patch) ==
    patch.added \cup patch.retired \cup patch.drawn \cup patch.cut = {}

\* The operations can be put in an order in which each finds what it needs.
Applicable(base, patch) ==
    /\ patch.added \cap base.nodes = {}
    /\ \A n \in patch.added : Supersedes[n] \subseteq base.nodes \ {Root}
    /\ patch.drawn \cap base.edges = {} /\ patch.cut \subseteq base.edges
    /\ \A e \in patch.drawn : {e.parent, e.child} \subseteq base.nodes \cup patch.added
    /\ patch.retired \subseteq base.nodes \ {Root}
    /\ \A e \in (base.edges \ patch.cut) \cup patch.drawn :
          {e.parent, e.child} \cap patch.retired = {}

\* Mutation: the digest does not cover the predecessor.
PatchedAnew(base, patch) ==
    [base EXCEPT !.nodes = (@ \ patch.retired) \cup patch.added,
                 !.edges = (@ \ patch.cut) \cup patch.drawn]

\* _apply_patch_unreviewed.
Patched(base, patch) ==
    IF IsEmpty(patch) THEN base
    ELSE [nodes |-> (base.nodes \ patch.retired) \cup patch.added,
          edges |-> (base.edges \ patch.cut) \cup patch.drawn,
          predecessor |-> {base}]

-----------------------------------------------------------------------------
(* Cases: a patch and an ascent from the subject of the decomposition to the root *)

Subject(ascent) == ascent[1]

\* The ascent follows specialization edges of the proposed graph.
Ascends(g, ascent) ==
    /\ Len(ascent) >= 2 /\ ascent[Len(ascent)] = Root
    /\ \A i \in DOMAIN ascent : ascent[i] \in g.nodes
    /\ \A i, j \in DOMAIN ascent : ascent[i] = ascent[j] => i = j
    /\ \A i \in 1 .. Len(ascent) - 1 :
          ascent[i] \in Children(g, ascent[i + 1], "specialization")

\* The children a case takes a stand on: at each step of the ascent all
\* specializations of the parent, and all parts of the subject.
Stands(g, ascent) ==
    [parent : {ascent[i] : i \in 2 .. Len(ascent)}, relation : {"specialization"}]
    \cup [parent : {Subject(ascent)}, relation : {"composition"}]

Assessed(g, ascent) ==
    UNION {Children(g, slot.parent, slot.relation) : slot \in Stands(g, ascent)}

\* A base node is reused as it is (exact_reuse, shared_parent); an added one is
\* new, or supersedes base children of the same parent (new_version, split).
Fits(base, patch, slot, n) ==
    \/ n \in base.nodes
    \/ n \in patch.added /\ Supersedes[n] \subseteq Children(base, slot.parent, slot.relation)

\* Mutation: what is added is taken to supersede what is retired with it.
SupersededByAny(patch, g, ascent) ==
    IF patch.added \cap Assessed(g, ascent) = {} THEN {} ELSE patch.retired

Superseded(patch, g, ascent) ==
    UNION {Supersedes[n] : n \in patch.added \cap Assessed(g, ascent)}

Relevant(g, ascent) == {ascent[i] : i \in DOMAIN ascent} \cup Assessed(g, ascent)

Closure(base, patch, ascent) ==
    LET g == Patched(base, patch)
    IN Relevant(g, ascent) \cup Superseded(patch, g, ascent)

RetiresSuperseded(base, patch, ascent) ==
    patch.retired \subseteq Superseded(patch, Patched(base, patch), ascent)

\* Mutation: one end of the edge was looked at.
CutsAtClosure(base, patch, ascent) ==
    \A e \in patch.cut : {e.parent, e.child} \cap Closure(base, patch, ascent) # {}

CutsInClosure(base, patch, ascent) ==
    \A e \in patch.cut : {e.parent, e.child} \subseteq Closure(base, patch, ascent)

\* The subject has at least two differentiated parts.
Decomposed(g, ascent) == Cardinality(Children(g, Subject(ascent), "composition")) >= 2

\* create_fractal_case_proposal.
Reviewable(base, patch, ascent) ==
    LET g == Patched(base, patch)
        slots == Stands(g, ascent)
    IN /\ Applicable(base, patch) /\ IsGraph(g)
       /\ Ascends(g, ascent) /\ Decomposed(g, ascent)
       /\ \A slot \in slots : \A n \in Children(g, slot.parent, slot.relation) :
             Fits(base, patch, slot, n)
       /\ patch.added \subseteq Relevant(g, ascent)
       /\ \A e \in patch.drawn : [parent |-> e.parent, relation |-> e.relation] \in slots
       /\ RetiresSuperseded(base, patch, ascent)
       /\ CutsInClosure(base, patch, ascent)

-----------------------------------------------------------------------------
(* Actions *)

Init ==
    /\ \E g \in Genesis :
          /\ IsGraph(g)
          /\ active = [nodes |-> g.nodes, edges |-> g.edges, predecessor |-> {}]
    /\ cases = {}
    /\ approved = {}
    /\ plans = {}
    /\ log = <<>>
    /\ known = active.nodes

\* TopologyConstructionEngine.propose, for the snapshot its caller read; other
\* cases may be applied before this one is.
Propose(patch, ascent) ==
    /\ Cardinality(cases) < MaxCases
    /\ Reviewable(active, patch, ascent)
    /\ cases' = cases \cup {[base |-> active, patch |-> patch, ascent |-> ascent]}
    /\ UNCHANGED <<active, approved, plans, log, known>>

Approve(c) ==
    /\ c \in cases
    /\ approved' = approved \cup {c}
    /\ UNCHANGED <<active, cases, plans, log, known>>

\* apply_fractal_case_proposal builds the case again, against the snapshot it is
\* given, and refuses one made against another.
Apply(c) ==
    /\ c \in approved
    /\ c.base = active
    /\ Reviewable(active, c.patch, c.ascent)
    /\ active' = Patched(active, c.patch)
    /\ known' = known \cup active'.nodes
    /\ IF IsEmpty(c.patch) THEN log' = log
       ELSE Len(log) < MaxChanges /\ log' = Append(log, c)
    /\ UNCHANGED <<cases, approved, plans>>

Plan(c) ==
    [case |-> c, graph |-> active,
     tasks |-> Children(active, Subject(c.ascent), "composition")]

\* execution_plan_from_fi_case.  Whether the subject's decomposition is ready to
\* be executed is not modelled: a case that is not is never compiled.
Compile(c) ==
    /\ c \in approved
    /\ active = Patched(c.base, c.patch)
    /\ plans' = plans \cup {Plan(c)}
    /\ UNCHANGED <<active, cases, approved, log, known>>

Next ==
    \/ \E patch \in Patches, ascent \in Routes : Propose(patch, ascent)
    \/ \E c \in cases : Approve(c) \/ Apply(c) \/ Compile(c)

Spec == Init /\ [][Next]_vars

-----------------------------------------------------------------------------
(* Properties *)

\* A plan's work is in the graph it was made of, and that graph in the store's
\* line; approvals are of cases that were made.
TypeOK ==
    /\ active.nodes \subseteq known /\ known \subseteq Refs
    /\ active.edges \subseteq Edges
    /\ approved \subseteq cases
    /\ Len(log) <= MaxChanges
    /\ \A i \in DOMAIN log : log[i] \in approved
    /\ \A p \in plans : p.case \in approved /\ p.tasks \subseteq p.graph.nodes /\ p.graph.nodes \subseteq known

\* Whatever cases are applied, every active concept can be reached from the root
\* and none contains or generalises itself: there is a way into every set of
\* other nodes, and every set of nodes has one without a parent in it.
Rooted ==
    \A S \in (SUBSET active.nodes) \ {{}} :
        /\ Root \notin S => \E e \in active.edges : e.parent \notin S /\ e.child \in S
        /\ \E n \in S : Parents(active, n) \cap S = {}

\* No concept is lost: following the revisions of any concept that ever was
\* active, through concepts that are themselves retired by now, one comes to a
\* concept that is active; there is a revision out of every set of retired ones.
ConceptsKept ==
    \A S \in (SUBSET (known \ active.nodes)) \ {{}} :
        \E n \in S, m \in known \ S : n \in Supersedes[m]

\* A reviewed change takes effect once: when later changes have brought back the
\* very graph a case was made against, the case is stale all the same.
AppliedOnce == \A i, j \in DOMAIN log : log[i] = log[j] => i = j

\* What a case did not look at, its review does not change: a concept outside the
\* case's ascent, siblings, parts and superseded concepts stays, with all of its
\* edges.
Incident(g, n) == {e \in g.edges : n \in {e.parent, e.child}}

UnreviewedStays ==
    [][Len(log') > Len(log) =>
          LET c == log'[Len(log')]
          IN \A n \in active.nodes \ Closure(active, c.patch, c.ascent) :
                n \in active'.nodes /\ Incident(active', n) = Incident(active, n)]_vars

\* A plan's work is done by concepts that can be executed, two of them at least,
\* and never hands a part of its subject to a concept the subject is itself a
\* part or a kind of.
PlansCanRun ==
    /\ TypeOK
    /\ \A p \in plans :
           /\ Cardinality(p.tasks) >= 2
           /\ \A t \in p.tasks :
                 /\ Kind[t] \in Executable
                 /\ \E S \in SUBSET p.graph.nodes :
                       /\ t \in S /\ Subject(p.case.ascent) \notin S
                       /\ \A e \in p.graph.edges : e.parent \in S => e.child \in S
=============================================================================
