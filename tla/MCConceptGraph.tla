--------------------------- MODULE MCConceptGraph ---------------------------
(***************************************************************************)
(* A root, a genus, a composite subject of two solvers x and y that is     *)
(* itself part of a team, and a passive concept p; x2 is a version of x of *)
(* the same name, x3 one of x2, and z a new solver.  Edges of the pool     *)
(* make cycles, second parents, relations in conflict and parts that       *)
(* cannot be executed possible.                                            *)
(***************************************************************************)
EXTENDS ConceptGraph, TLC

CONSTANTS root, genus, subject, x, y, p, x2, x3, z, team

MCRefs == {root, team, genus, subject, x, y, p, x2, x3, z}
MCKind == [n \in MCRefs |->
    CASE n \in {root, team, subject} -> "composite" [] n = genus -> "abstraction_parent"
      [] n = p -> "passive" [] OTHER -> "solver"]
MCName == [n \in MCRefs |-> IF n \in {x2, x3} THEN x ELSE n]
MCSupersedes == [n \in MCRefs |-> IF n = x2 THEN {x} ELSE IF n = x3 THEN {x2} ELSE {}]

Special(parent, child) == [parent |-> parent, child |-> child, relation |-> "specialization"]
Part(parent, child) == [parent |-> parent, child |-> child, relation |-> "composition"]

Start == {Special(root, team), Part(team, subject), Special(root, genus), Special(genus, subject),
          Special(genus, p), Part(subject, x), Part(subject, y)}
More == {Special(root, subject), Special(genus, x), Part(subject, team), Part(subject, x2),
         Special(genus, x2), Part(subject, x3), Part(subject, z), Part(subject, p)}

MCEdges == Start \cup More
MCGenesis == {[nodes |-> {root, team, genus, subject, x, y, p}, edges |-> Start]}

\* At most one node added and one retired, and three edges drawn or cut; an
\* added node has an edge drawn to it, and a retired one an edge cut.
Few(S, k) == {T \in SUBSET S : Cardinality(T) <= k}
Ends(edges) == {e.child : e \in edges}
MCRewirings == {w \in [drawn : Few(MCEdges, 2), cut : Few(MCEdges, 2)] :
                   w.drawn \cap w.cut = {} /\ Cardinality(w.drawn \cup w.cut) <= 3}
MCPatches ==
    {[added |-> a, retired |-> r, drawn |-> w.drawn, cut |-> w.cut] :
        <<a, r, w>> \in {t \in {{}, {x2}, {x3}, {z}} \X {{}, {x}, {x2}} \X MCRewirings :
                            t[1] \subseteq Ends(t[3].drawn) /\ t[2] \subseteq Ends(t[3].cut)}}
MCRoutes == {<<subject, genus, root>>, <<subject, root>>}
=============================================================================
