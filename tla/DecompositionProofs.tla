------------------------- MODULE DecompositionProofs -------------------------
(***************************************************************************)
(* Proofs about Decomposition and what is made of its proposals, for any   *)
(* policies, ratios, answers and capabilities.                             *)
(*                                                                         *)
(* The engine's validation looks at a finished tree; the invariant says of *)
(* an unfinished one what makes it pass in the end, but for what was let   *)
(* in short and is kept long, which Kept leaves open.  LocalOK is about    *)
(* one concept, whatever the others do: how far it is, and what it may     *)
(* hold by then.  Linked is about axes and the concepts below them.  Chain *)
(* is the stack of the recursion: concepts not yet done are the one in     *)
(* hand and its ancestors, and all that was begun between two of them is   *)
(* done.  OInv adds to it who was given the budgets, TInv what an answer   *)
(* may have left waiting, and MInv that plans and work are made of         *)
(* finished trees.                                                         *)
(***************************************************************************)
EXTENDS Materialization, SequenceTheorems, FiniteSetTheorems, TLAPS

Early == {"generate", "assess", "check", "search", "retest", "probe", "route"}
Steps == Early \cup {"value", "allocate", "done"}
Statuses == {"open", "budget_exhausted", "incomplete", "warning", "structurally_clean"}
Decimals == [digits : Nat, exponent : Int]
AxisRecords == [value : Ratios \cup {Unknown, None}, number : Decimals \cup {None},
                decision : Decisions \cup {None}, child : Nat]
NodeRecords ==
    [depth : Nat, parent : Nat, size : Nat, step : Steps, status : Statuses, pending : Nat,
     axes : Seq(AxisRecords), checks : Nat, complete : BOOLEAN, retries : Nat,
     source : {"oracle_generated", "provided"}, left : Nat, probes : Nat, clean : BOOLEAN]

-----------------------------------------------------------------------------
(* The invariant *)

Retesting(node) == IF node.step = "retest" THEN 1 ELSE 0

Sized(node) ==
    /\ node.step = "generate" => node.axes = <<>>
    /\ Len(node.axes) + node.pending + Retesting(node) <= policy.candidates + node.retries
    /\ node.retries <= policy.retries

Checked(node) ==
    /\ node.step \in {"generate", "assess"} => node.checks = 0
    /\ node.step \in {"check", "retest"} => node.checks <= node.retries
    /\ node.step = "search" => node.retries < policy.retries
    /\ node.checks <= node.retries + 1
    /\ node.complete => node.checks > 0

Probed(node) ==
    /\ node.step \in Early \ {"route"} => node.probes = 0
    /\ node.step = "route" => node.left > 0
    /\ node.probes + node.left <= policy.probes

\* A number that was let in can be read again unless it is written too long.
Kept(number) ==
    /\ number \in Decimals
    /\ number.exponent \in -MaxExponent .. MaxExponent
    /\ number.digits <= MaxDigits \/ number.exponent >= MaxDigits

AxisOK(node, axis) ==
    /\ axis.value = None => axis.decision = None
    /\ axis.value = Unknown => axis.decision = "probe"
    /\ axis.value \in Int =>
          axis.decision \in IF axis.value <= Threshold THEN {"leaf"}
                            ELSE {"recurse", "maximum_depth", "node_budget_exhausted",
                                  "oracle_budget_exhausted", "pending_allocation"}
    /\ axis.value \in Int => Kept(axis.number)
    /\ axis.decision = "maximum_depth" => node.depth >= policy.depth
    /\ axis.decision = "pending_allocation" => node.depth < policy.depth
    /\ axis.decision = "recurse" <=> axis.child # 0

\* No axis was taken further or refused yet.
Blank(node) == \A i \in DOMAIN node.axes : node.axes[i].child = 0 /\ ~ Refused(node.axes[i])

\* Values are asked for from the first axis on.
Valued(node) ==
    /\ node.step \in Early => \A i \in DOMAIN node.axes : node.axes[i] = Axis
    /\ node.step = "value" =>
          \E k \in DOMAIN node.axes : \A i \in DOMAIN node.axes :
              (i < k => node.axes[i].value # None) /\ (i >= k => node.axes[i] = Axis)
    /\ node.step = "value" => Blank(node)
    /\ \A i \in DOMAIN node.axes : AxisOK(node, node.axes[i])

Concluded(node) ==
    node.step = "done" =>
        /\ node.status \in {"budget_exhausted", Evident(node)}
        /\ \A i \in DOMAIN node.axes : node.axes[i].decision # "pending_allocation"

LocalOK(node) ==
    /\ node \in NodeRecords
    /\ node.depth <= policy.depth
    /\ Sized(node) /\ Checked(node) /\ Probed(node) /\ Valued(node) /\ Concluded(node)

Linked(tree) ==
    /\ \A n \in DOMAIN tree : \A i \in DOMAIN tree[n].axes :
          tree[n].axes[i].child # 0 =>
              /\ tree[n].axes[i].child \in DOMAIN tree
              /\ tree[tree[n].axes[i].child].depth = tree[n].depth + 1
    /\ \A c \in 2 .. Len(tree) : \E n \in DOMAIN tree : \E i \in DOMAIN tree[n].axes :
          tree[n].axes[i].child = c

WellMade(tree) ==
    /\ tree \in Seq(NodeRecords) /\ Len(tree) \in 1 .. policy.nodes
    /\ tree[1].depth = 0
    /\ \A n \in DOMAIN tree : LocalOK(tree[n])
    /\ Linked(tree)

Open(tree, n) == tree[n].step # "done"

Chain(tree, top) ==
    /\ top \in DOMAIN tree /\ Open(tree, top)
    /\ \A n \in DOMAIN tree : tree[n].parent = 0 <=> n = 1
    /\ \A n \in DOMAIN tree : Open(tree, n) =>
          /\ n <= top
          /\ n # 1 => /\ tree[n].parent \in 1 .. n - 1
                      /\ Open(tree, tree[n].parent)
                      /\ \A k \in tree[n].parent + 1 .. n - 1 : ~ Open(tree, k)

IInv ==
    /\ policy \in Policies
    /\ run \in {"idle", "running", "failed", "proposed", "oversized", "refused"}
    /\ OnlyLengthRefuses
    /\ calls \in Nat /\ calls <= policy.calls /\ exhausted \in BOOLEAN
    /\ run # "idle" => WellMade(nodes)
    /\ run = "running" => Chain(nodes, at)

-----------------------------------------------------------------------------
(* Changes of one concept *)

\* A policy's limits are numbers, and only some of them may be zero.
LEMMA PolicyTyped ==
  ASSUME IInv
  PROVE  /\ policy \in Policy
         /\ policy.candidates \in Nat /\ policy.retries \in Nat /\ policy.probes \in Nat
         /\ policy.depth \in Nat /\ policy.nodes \in Nat \ {0} /\ policy.calls \in Nat \ {0}
  BY PoliciesAssumption DEF IInv, Policy

\* The axes a concept had lead to the same concepts, and new ones to none.
SameChildren(old, new) ==
    /\ DOMAIN old.axes \subseteq DOMAIN new.axes
    /\ \A i \in DOMAIN new.axes :
          new.axes[i].child = IF i \in DOMAIN old.axes THEN old.axes[i].child ELSE 0

\* A tree stays well made if one of its concepts changes and keeps its place in it.
LEMMA WellMadeInPlace ==
  ASSUME WellMade(nodes), at \in DOMAIN nodes, NEW node, LocalOK(node),
         node.depth = Here.depth, SameChildren(Here, node)
  PROVE  WellMade([nodes EXCEPT ![at] = node])
<1> DEFINE tree == [nodes EXCEPT ![at] = node]
<1>1. nodes \in Seq(NodeRecords) /\ node \in NodeRecords /\ at \in 1 .. Len(nodes)
  BY DEF WellMade, LocalOK
<1>2. /\ tree \in Seq(NodeRecords) /\ Len(tree) = Len(nodes) /\ DOMAIN tree = DOMAIN nodes
      /\ \A n \in DOMAIN nodes : tree[n] = IF n = at THEN node ELSE nodes[n]
  BY <1>1, ExceptSeq
<1> HIDE DEF tree
<1>3. \A n \in DOMAIN nodes : tree[n].depth = nodes[n].depth
  BY <1>2 DEF Here
<1>4. 1 \in DOMAIN nodes
  BY <1>1 DEF WellMade
<1>5. \A n \in DOMAIN tree : LocalOK(tree[n])
  BY <1>2 DEF WellMade
<1>6. Linked(tree)
  <2>1. ASSUME NEW n \in DOMAIN tree, NEW i \in DOMAIN tree[n].axes, tree[n].axes[i].child # 0
        PROVE  /\ tree[n].axes[i].child \in DOMAIN tree
               /\ tree[tree[n].axes[i].child].depth = tree[n].depth + 1
    <3>1. i \in DOMAIN nodes[n].axes /\ nodes[n].axes[i].child = tree[n].axes[i].child
      BY <1>2, <2>1 DEF SameChildren, Here
    <3>2. n \in DOMAIN nodes
      BY <1>2
    <3>3. /\ nodes[n].axes[i].child \in DOMAIN nodes
          /\ nodes[nodes[n].axes[i].child].depth = nodes[n].depth + 1
      BY <2>1, <3>1, <3>2 DEF WellMade, Linked
    <3> QED BY <1>2, <1>3, <3>1, <3>2, <3>3
  <2>2. ASSUME NEW c \in 2 .. Len(tree)
        PROVE  \E n \in DOMAIN tree : \E i \in DOMAIN tree[n].axes : tree[n].axes[i].child = c
    <3>1. PICK n \in DOMAIN nodes : \E i \in DOMAIN nodes[n].axes : nodes[n].axes[i].child = c
      BY <1>2 DEF WellMade, Linked
    <3>2. PICK i \in DOMAIN nodes[n].axes : nodes[n].axes[i].child = c
      BY <3>1
    <3>3. i \in DOMAIN tree[n].axes /\ tree[n].axes[i].child = c
      BY <1>2, <3>2 DEF SameChildren, Here
    <3> QED BY <1>2, <3>3
  <2> QED BY <2>1, <2>2 DEF Linked
<1> QED BY <1>2, <1>3, <1>4, <1>5, <1>6 DEF WellMade, tree

\* So does the stack, if the concept is not done thereby.
LEMMA ChainInPlace ==
  ASSUME WellMade(nodes), Chain(nodes, at), NEW node \in NodeRecords, node.step # "done",
         node.parent = Here.parent
  PROVE  Chain([nodes EXCEPT ![at] = node], at)
<1> DEFINE tree == [nodes EXCEPT ![at] = node]
<1>1. nodes \in Seq(NodeRecords) /\ at \in 1 .. Len(nodes)
  BY DEF WellMade, Chain
<1>2. /\ DOMAIN tree = DOMAIN nodes /\ DOMAIN nodes = 1 .. Len(nodes)
      /\ \A n \in DOMAIN nodes : tree[n] = IF n = at THEN node ELSE nodes[n]
  BY <1>1, ExceptSeq
<1> HIDE DEF tree
<1>3. \A n \in DOMAIN nodes : tree[n].parent = nodes[n].parent /\ (Open(tree, n) <=> Open(nodes, n))
  BY <1>2 DEF Here, Open, Chain
<1>4. \A n \in DOMAIN nodes : Open(nodes, n) /\ n # 1 =>
         /\ nodes[n].parent \in DOMAIN nodes
         /\ \A k \in nodes[n].parent + 1 .. n - 1 : k \in DOMAIN nodes
  BY <1>1, <1>2 DEF Chain
<1> QED BY <1>2, <1>3, <1>4 DEF Chain, tree

\* What a question may make of the concept it is about.
Moves(old, new) ==
    /\ LocalOK(new)
    /\ new.depth = old.depth /\ new.parent = old.parent /\ new.step # "done"
    /\ SameChildren(old, new)
    /\ old.step # "allocate" => Blank(new)

\* Being well made depends on the policy only, which a run does not change.
LEMMA WellMadeNext ==
  ASSUME policy' = policy, NEW tree, nodes' = tree, WellMade(tree)
  PROVE  WellMade(nodes)'
  BY DEF WellMade, LocalOK, Sized, Checked, Probed, Valued, Blank, AxisOK, Kept, Concluded,
         Evident, Routed

\* What holds of the concept in hand.
LEMMA HereOK ==
  ASSUME IInv, run = "running"
  PROVE  /\ WellMade(nodes) /\ Chain(nodes, at) /\ at \in DOMAIN nodes
         /\ LocalOK(Here) /\ Here \in NodeRecords
  BY DEF IInv, WellMade, Chain, LocalOK, Here

\* A question keeps the invariant if it makes a move of the concept it is about.
LEMMA InPlace ==
  ASSUME IInv, run = "running", NEW node, Moves(Here, node), Becomes(node), Same,
         calls' \in Nat, calls' <= policy.calls, exhausted' \in BOOLEAN
  PROVE  IInv'
<1> DEFINE tree == [nodes EXCEPT ![at] = node]
<1>1. WellMade(tree)
  BY HereOK, WellMadeInPlace DEF Moves
<1>2. Chain(tree, at)
  BY HereOK, ChainInPlace DEF Moves, LocalOK
<1>3. nodes' = tree /\ policy' = policy /\ at' = at /\ run' = run
  BY DEF Becomes, Same
<1> HIDE DEF tree
<1>4. WellMade(nodes)'
  BY <1>1, <1>3, WellMadeNext
<1>5. Chain(nodes, at)'
  BY <1>2, <1>3 DEF Chain, Open
<1> QED BY <1>3, <1>4, <1>5 DEF IInv, OnlyLengthRefuses

\* A question that was asked or denied leaves the count of them within its limit.
LEMMA Counted ==
  ASSUME IInv, Asked \/ Denied
  PROVE  calls' \in Nat /\ calls' <= policy.calls /\ exhausted' \in BOOLEAN
<1>1. calls \in Nat /\ exhausted \in BOOLEAN /\ policy.calls \in Nat
  BY PolicyTyped DEF IInv
<1>2. calls' \in Nat /\ calls' <= policy.calls
  BY <1>1 DEF IInv, Asked, Denied
<1>3. exhausted' \in BOOLEAN
  BY <1>1 DEF Asked, Denied
<1> QED BY <1>2, <1>3

\* What each question does: it changes the concept in hand, and the count.
Question ==
    /\ run = "running" /\ Here.step # "allocate" /\ Same
    /\ Asked \/ Denied \/ UNCHANGED <<calls, exhausted>>
    /\ \E node : Becomes(node) /\ Moves(Here, node)

\* A question preserves the invariant.
LEMMA QuestionIInv ==
  ASSUME IInv, Question
  PROVE  IInv'
<1>1. calls' \in Nat /\ calls' <= policy.calls /\ exhausted' \in BOOLEAN
  BY Counted DEF IInv, Question, Same
<1>2. PICK node : Becomes(node) /\ Moves(Here, node)
  BY DEF Question
<1> QED BY <1>1, <1>2, InPlace DEF Question

-----------------------------------------------------------------------------
(* The questions about one concept, one after the other *)

\* A fresh axis was neither taken further nor refused.
LEMMA FreshAxis == Axis.child = 0 /\ ~ Refused(Axis)
  BY UnknownAssumption DEF Axis, Refused, Decisions

\* Questions that come before the marginal values find fresh axes and leave them so.
LEMMA AxesKept ==
  ASSUME NEW node, LocalOK(node), node.step \in Early,
         NEW new \in NodeRecords, new.axes = node.axes,
         new.depth = node.depth, new.parent = node.parent,
         new.step # "done", new.step = "value" => node.axes # <<>>,
         Sized(new), Checked(new), Probed(new)
  PROVE  Moves(node, new)
<1>1. node.axes \in Seq(AxisRecords)
  BY DEF LocalOK, NodeRecords
<1>2. \A i \in DOMAIN new.axes : new.axes[i] = Axis /\ AxisOK(new, new.axes[i])
  BY DEF LocalOK, Valued, AxisOK
<1>3. ASSUME new.step = "value"
      PROVE  \E k \in DOMAIN new.axes : \A i \in DOMAIN new.axes :
                (i < k => new.axes[i].value # None) /\ (i >= k => new.axes[i] = Axis)
  <2>1. 1 \in DOMAIN new.axes /\ \A i \in DOMAIN new.axes : ~ (i < 1)
    BY <1>1, <1>3
  <2> QED BY <1>2, <2>1
<1>4. Blank(new)
  BY <1>2, FreshAxis DEF Blank
<1>5. Valued(new)
  BY <1>2, <1>3, <1>4 DEF Valued
<1>6. Concluded(new)
  BY DEF Concluded
<1>7. SameChildren(node, new)
  BY DEF SameChildren
<1> QED BY <1>4, <1>5, <1>6, <1>7 DEF Moves, LocalOK

\* An axis is added fresh, before the marginal values.
LEMMA AxisAdded ==
  ASSUME NEW node, LocalOK(node), node.step \in Early,
         NEW new \in NodeRecords, new.axes = Append(node.axes, Axis),
         new.depth = node.depth, new.parent = node.parent, new.step \in Early,
         Sized(new), Checked(new), Probed(new)
  PROVE  Moves(node, new)
<1>1. node.axes \in Seq(AxisRecords) /\ Axis \in AxisRecords
  BY DEF LocalOK, NodeRecords, AxisRecords, Axis
<1>2. /\ DOMAIN node.axes = 1 .. Len(node.axes) /\ Len(node.axes) \in Nat
      /\ DOMAIN new.axes = 1 .. Len(node.axes) + 1
      /\ \A i \in 1 .. Len(node.axes) : new.axes[i] = node.axes[i]
      /\ new.axes[Len(node.axes) + 1] = Axis
  BY <1>1, AppendProperties
<1>3. \A i \in DOMAIN node.axes : node.axes[i] = Axis
  BY DEF LocalOK, Valued
<1>4. \A i \in DOMAIN new.axes : new.axes[i] = Axis
  BY <1>2, <1>3
<1>5. AxisOK(new, Axis)
  BY UnknownAssumption DEF AxisOK, Axis, Decisions
<1>6. Valued(new) /\ Concluded(new)
  BY <1>4, <1>5 DEF Valued, Concluded, Early
<1>7. SameChildren(node, new)
  BY <1>2, <1>3, <1>4 DEF SameChildren, Axis
<1>8. Blank(new)
  BY <1>4, FreshAxis DEF Blank
<1> QED BY <1>6, <1>7, <1>8 DEF Moves, LocalOK, Early

Generated(node, new) ==
    \/ \E k \in 0 .. policy.candidates : new = [node EXCEPT !.step = "assess", !.pending = k]
    \/ new = [node EXCEPT !.step = "assess"]

\* Candidates are as many as asked for at most, or none.
LEMMA GenerateMoves ==
  ASSUME policy \in Policy, NEW node, LocalOK(node), node.step = "generate",
         NEW new, Generated(node, new)
  PROVE  Moves(node, new)
<1>1. node \in NodeRecords /\ "assess" \in Steps /\ policy.candidates \in Nat
  BY DEF LocalOK, Policy, Steps, Early
<1>2. /\ new \in NodeRecords
      /\ new.step = "assess" /\ new.pending \in {node.pending} \cup (0 .. policy.candidates)
      /\ new.axes = node.axes
      /\ new.checks = node.checks /\ new.retries = node.retries /\ new.complete = node.complete
      /\ new.probes = node.probes /\ new.left = node.left
      /\ new.depth = node.depth /\ new.parent = node.parent
  <2>1. ASSUME NEW k \in 0 .. policy.candidates,
               new = [node EXCEPT !.step = "assess", !.pending = k]
        PROVE  <1>2!:
    <3>2. k \in Nat
      BY <1>1
    <3> QED BY <1>1, <2>1, <3>2 DEF NodeRecords
  <2>2. CASE new = [node EXCEPT !.step = "assess"]
    BY <1>1, <2>2 DEF NodeRecords
  <2> QED BY <2>1, <2>2 DEF Generated
<1>3. Sized(new)
  <2>1. node.retries \in Nat /\ node.axes = <<>> /\ Len(<<>>) = 0 /\ node.pending \in Nat
    BY <1>1 DEF LocalOK, Sized, NodeRecords
  <2>2. node.pending <= policy.candidates + node.retries /\ node.retries <= policy.retries
    BY <1>1, <2>1 DEF LocalOK, Sized, Retesting
  <2>3. new.pending \in Nat /\ new.pending <= policy.candidates + node.retries
    BY <1>1, <1>2, <2>1, <2>2
  <2> QED BY <1>1, <1>2, <2>1, <2>2, <2>3 DEF Sized, Retesting
<1>4. Checked(new) /\ Probed(new)
  BY <1>1, <1>2 DEF LocalOK, Checked, Probed, Early
<1> QED BY <1>2, <1>3, <1>4, AxesKept DEF Early

\* generate_candidates.
LEMMA GenerateAsks ==
  ASSUME IInv, Generate
  PROVE  Question
<1>1. LocalOK(Here) /\ run = "running" /\ Here.step = "generate" /\ policy \in Policy
  BY HereOK, PolicyTyped DEF Generate, Due
<1>2. PICK node : Becomes(node) /\ Generated(Here, node)
  BY DEF Generate, Generated
<1>3. Moves(Here, node)
  BY <1>1, <1>2, GenerateMoves
<1> QED BY <1>1, <1>2, <1>3 DEF Question, Generate

\* What most questions leave alone.
Placed(old, new) ==
    new \in NodeRecords /\ new.depth = old.depth /\ new.parent = old.parent
ChecksKept(old, new) ==
    new.checks = old.checks /\ new.retries = old.retries /\ new.complete = old.complete
ProbesKept(old, new) == new.probes = old.probes /\ new.left = old.left

\* The types of a concept's fields.
LEMMA LocalTypes ==
  ASSUME policy \in Policy, NEW node, LocalOK(node)
  PROVE  /\ node \in NodeRecords
         /\ node.depth \in Nat /\ node.parent \in Nat /\ node.pending \in Nat
         /\ node.checks \in Nat /\ node.retries \in Nat /\ node.left \in Nat /\ node.probes \in Nat
         /\ node.axes \in Seq(AxisRecords) /\ Len(node.axes) \in Nat
         /\ policy.candidates \in Nat /\ policy.retries \in Nat /\ policy.probes \in Nat
         /\ policy.depth \in Nat
<1>1. node \in NodeRecords
  BY DEF LocalOK
<1> QED BY <1>1 DEF NodeRecords, Policy

\* A fresh axis is an axis.
LEMMA AxisTyped == Axis \in AxisRecords
  BY DEF Axis, AxisRecords

\* A test of a candidate: it fails, it passes, or the question is not asked.
Failed(node, new) == new = [node EXCEPT !.pending = @ - 1]
Passed(node, new) == new = [[node EXCEPT !.pending = @ - 1] EXCEPT !.axes = Append(@, Axis)]
Dropped(node, new) == new = [node EXCEPT !.pending = 0]

\* Each candidate becomes an axis at most once, so that there is room for it.
LEMMA AssessMoves ==
  ASSUME policy \in Policy, NEW node, LocalOK(node), node.step = "assess", node.pending > 0,
         NEW new, Failed(node, new) \/ Passed(node, new) \/ Dropped(node, new)
  PROVE  Moves(node, new)
<1>1. node \in NodeRecords /\ node.pending - 1 \in Nat
  BY LocalTypes
<1>2. Append(node.axes, Axis) \in Seq(AxisRecords)
      /\ Len(Append(node.axes, Axis)) = Len(node.axes) + 1
  BY LocalTypes, AxisTyped
<1>3. CASE Failed(node, new) \/ Dropped(node, new)
  <2>1. /\ Placed(node, new) /\ ChecksKept(node, new) /\ ProbesKept(node, new)
        /\ new.step = "assess" /\ new.axes = node.axes
        /\ new.pending \in Nat /\ new.pending <= node.pending
    <3>1. CASE Failed(node, new)
      <4>1. /\ Placed(node, new) /\ ChecksKept(node, new) /\ ProbesKept(node, new)
            /\ new.step = "assess" /\ new.axes = node.axes /\ new.pending = node.pending - 1
        BY <1>1, <3>1 DEF Failed, NodeRecords, Placed, ChecksKept, ProbesKept
      <4> QED BY <1>1, <4>1, LocalTypes
    <3>2. CASE Dropped(node, new)
      BY <1>1, <3>2, LocalTypes, SMTT(30) DEF Dropped, NodeRecords, Placed, ChecksKept, ProbesKept
    <3> QED BY <1>3, <3>1, <3>2
  <2>2. Sized(new)
    BY <2>1, LocalTypes DEF LocalOK, Sized, Retesting, ChecksKept
  <2>3. Checked(new) /\ Probed(new)
    BY <2>1 DEF LocalOK, Checked, Probed, Early, ChecksKept, ProbesKept
  <2> QED BY <2>1, <2>2, <2>3, AxesKept DEF Placed, Early
<1>4. CASE Passed(node, new)
  <2>1. /\ Placed(node, new) /\ ChecksKept(node, new) /\ ProbesKept(node, new)
        /\ new.step = "assess" /\ new.axes = Append(node.axes, Axis)
        /\ new.pending = node.pending - 1
    BY <1>1, <1>2, <1>4 DEF Passed, NodeRecords, Placed, ChecksKept, ProbesKept
  <2>2. Sized(new)
    BY <1>2, <2>1, LocalTypes DEF LocalOK, Sized, Retesting, ChecksKept
  <2>3. Checked(new) /\ Probed(new)
    BY <2>1 DEF LocalOK, Checked, Probed, Early, ChecksKept, ProbesKept
  <2> QED BY <2>1, <2>2, <2>3, AxisAdded DEF Placed, Early
<1> QED BY <1>3, <1>4

\* evaluate_candidate, for the candidates generated.
LEMMA AssessAsks ==
  ASSUME IInv, Assess
  PROVE  Question
<1>1. LocalOK(Here) /\ run = "running" /\ Here.step = "assess" /\ policy \in Policy
  BY HereOK, PolicyTyped DEF Assess, Due
<1>2. PICK node : Becomes(node) /\ (Failed(Here, node) \/ Passed(Here, node) \/ Dropped(Here, node))
  BY DEF Assess, Judged, Failed, Passed, Dropped
<1>3. Moves(Here, node)
  BY <1>1, <1>2, AssessMoves DEF Assess
<1> QED BY <1>1, <1>2, <1>3 DEF Question, Assess

\* Completeness was judged, or the question is not asked.
Judgement(node, new) ==
    \E passed \in BOOLEAN :
        new = [node EXCEPT !.checks = @ + 1, !.complete = passed,
                           !.step = IF ~ passed /\ node.retries < policy.retries
                                    THEN "search" ELSE "probe"]
NoJudgement(node, new) == new = [node EXCEPT !.step = "probe"]

\* There is one check more than there were retries, or fewer.
LEMMA CheckMoves ==
  ASSUME policy \in Policy, NEW node, LocalOK(node),
         (node.step = "assess" /\ node.pending = 0) \/ node.step = "check",
         NEW new, Judgement(node, new) \/ NoJudgement(node, new)
  PROVE  Moves(node, new)
<1>1. node \in NodeRecords /\ node.checks + 1 \in Nat /\ node.step \in {"assess", "check"}
  BY LocalTypes
<1>2. node.checks + 1 <= node.retries + 1 /\ node.probes = 0
  BY <1>1, LocalTypes DEF LocalOK, Checked, Probed, Early
<1>3. CASE Judgement(node, new)
  <2>1. PICK passed \in BOOLEAN :
           new = [node EXCEPT !.checks = @ + 1, !.complete = passed,
                              !.step = IF ~ passed /\ node.retries < policy.retries
                                       THEN "search" ELSE "probe"]
    BY <1>3 DEF Judgement
  <2>2. PICK step \in {"search", "probe"} :
           /\ new = [node EXCEPT !.checks = @ + 1, !.complete = passed, !.step = step]
           /\ step = "search" => node.retries < policy.retries
    BY <2>1
  <2>3. step \in Steps
    BY DEF Steps, Early
  <2>4. /\ Placed(node, new) /\ ProbesKept(node, new) /\ new.retries = node.retries
        /\ new.checks = node.checks + 1 /\ new.axes = node.axes /\ new.pending = node.pending
        /\ new.step = step
    BY <1>1, <2>2, <2>3 DEF NodeRecords, Placed, ProbesKept
  <2>5. Sized(new)
    BY <1>1, <2>4, LocalTypes DEF LocalOK, Sized, Retesting
  <2>6. step = "search" => node.retries < policy.retries
    BY <2>2
  <2>7. Checked(new) /\ Probed(new)
    BY <1>1, <1>2, <2>4, <2>6, LocalTypes DEF LocalOK, Checked, Probed, Early, ProbesKept
  <2> QED BY <1>1, <2>4, <2>5, <2>7, AxesKept DEF Placed, Early
<1>4. CASE NoJudgement(node, new)
  <2>1. /\ Placed(node, new) /\ ProbesKept(node, new) /\ ChecksKept(node, new)
        /\ new.axes = node.axes /\ new.pending = node.pending /\ new.step = "probe"
    <3>1. "probe" \in Steps
      BY DEF Steps, Early
    <3> QED BY <1>1, <1>4, <3>1 DEF NoJudgement, NodeRecords, Placed, ProbesKept, ChecksKept
  <2>2. Sized(new)
    BY <1>1, <2>1, LocalTypes DEF LocalOK, Sized, Retesting, ChecksKept
  <2>3. Checked(new) /\ Probed(new)
    BY <1>1, <1>2, <2>1, LocalTypes DEF LocalOK, Checked, Probed, Early, ProbesKept, ChecksKept
  <2> QED BY <1>1, <2>1, <2>2, <2>3, AxesKept DEF Placed, Early
<1> QED BY <1>3, <1>4

\* evaluate_completeness.
LEMMA CheckAsks ==
  ASSUME IInv, Check
  PROVE  Question
<1>1. /\ LocalOK(Here) /\ run = "running" /\ policy \in Policy
      /\ (Here.step = "assess" /\ Here.pending = 0) \/ Here.step = "check"
  BY HereOK, PolicyTyped DEF Check, Due
<1>2. PICK node : Becomes(node) /\ (Judgement(Here, node) \/ NoJudgement(Here, node))
  BY DEF Check, Judgement, NoJudgement
<1>3. Moves(Here, node)
  BY <1>1, <1>2, CheckMoves
<1> QED BY <1>1, <1>2, <1>3 DEF Question, Check

\* A missing dimension was searched for.
Searched(node, new) ==
    \E step \in {"retest", "check", "probe"} : new = [node EXCEPT !.retries = @ + 1, !.step = step]

\* A retry is counted before it is known whether it can be made.
LEMMA SearchMoves ==
  ASSUME policy \in Policy, NEW node, LocalOK(node), node.step = "search",
         NEW new, Searched(node, new)
  PROVE  Moves(node, new)
<1>1. node \in NodeRecords /\ node.retries + 1 \in Nat
  BY LocalTypes
<1>2. /\ node.checks <= node.retries + 1 /\ node.probes = 0
      /\ node.retries + 1 <= policy.retries
  BY <1>1, LocalTypes DEF LocalOK, Checked, Probed, Early
<1>3. PICK step \in {"retest", "check", "probe"} :
         new = [node EXCEPT !.retries = @ + 1, !.step = step]
  BY DEF Searched
<1>4. step \in Steps
  BY DEF Steps, Early
<1>5. /\ Placed(node, new) /\ ProbesKept(node, new) /\ new.retries = node.retries + 1
      /\ new.checks = node.checks /\ new.complete = node.complete
      /\ new.axes = node.axes /\ new.pending = node.pending /\ new.step = step
  BY <1>1, <1>3, <1>4 DEF NodeRecords, Placed, ProbesKept
<1>6. Sized(new)
  <2>1. Len(node.axes) + node.pending <= policy.candidates + node.retries
    BY LocalTypes DEF LocalOK, Sized, Retesting
  <2>2. Retesting(new) \in {0, 1} /\ new.step # "generate"
    BY <1>5 DEF Retesting
  <2> QED BY <1>2, <1>5, <2>1, <2>2, LocalTypes DEF Sized
<1>7. Checked(new) /\ Probed(new)
  BY <1>1, <1>2, <1>5, LocalTypes DEF LocalOK, Checked, Probed, Early, ProbesKept
<1> QED BY <1>5, <1>6, <1>7, AxesKept DEF Placed, Early

\* search_missing_dimension.
LEMMA SearchAsks ==
  ASSUME IInv, Search
  PROVE  Question
<1>1. LocalOK(Here) /\ run = "running" /\ policy \in Policy /\ Here.step = "search"
  BY HereOK, PolicyTyped DEF Search, Due
<1>2. PICK node : Becomes(node) /\ Searched(Here, node)
  <2>1. CASE Denied
    BY <2>1, PolicyTyped DEF Search, Searched
  <2>2. ASSUME NEW found \in BOOLEAN,
               Becomes([Here EXCEPT !.retries = @ + 1,
                           !.step = IF found THEN "retest" ELSE "check"])
        PROVE  \E node : Becomes(node) /\ Searched(Here, node)
    <3>1. (IF found THEN "retest" ELSE "check") \in {"retest", "check", "probe"}
      OBVIOUS
    <3> QED BY <2>2, <3>1 DEF Searched
  <2> QED BY <2>1, <2>2 DEF Search, Searched
<1>3. Moves(Here, node)
  BY <1>1, <1>2, SearchMoves
<1> QED BY <1>1, <1>2, <1>3 DEF Question, Search

\* The dimension found was tested: it fails, it passes, or the question is not asked.
Retested(node, new) ==
    \E step \in {"check", "probe"} : new = [node EXCEPT !.step = step]
Found(node, new) == new = [[node EXCEPT !.step = "check"] EXCEPT !.axes = Append(@, Axis)]

\* A retry makes room for one axis.
LEMMA RetestMoves ==
  ASSUME policy \in Policy, NEW node, LocalOK(node), node.step = "retest",
         NEW new, Retested(node, new) \/ Found(node, new)
  PROVE  Moves(node, new)
<1>1. node \in NodeRecords /\ "check" \in Steps /\ "probe" \in Steps
  BY LocalTypes DEF Steps, Early
<1>2. Append(node.axes, Axis) \in Seq(AxisRecords)
      /\ Len(Append(node.axes, Axis)) = Len(node.axes) + 1
  BY LocalTypes, AxisTyped
<1>3. node.checks <= node.retries /\ node.probes = 0
  BY DEF LocalOK, Checked, Probed, Early
<1>4. CASE Retested(node, new)
  <2>1. PICK step \in {"check", "probe"} : new = [node EXCEPT !.step = step]
    BY <1>4 DEF Retested
  <2>2. /\ Placed(node, new) /\ ChecksKept(node, new) /\ ProbesKept(node, new)
        /\ new.step = step /\ new.axes = node.axes /\ new.pending = node.pending
    BY <1>1, <2>1 DEF NodeRecords, Placed, ChecksKept, ProbesKept
  <2>3. Sized(new)
    BY <2>2, LocalTypes DEF LocalOK, Sized, Retesting, ChecksKept
  <2>4. Checked(new) /\ Probed(new)
    BY <1>3, <2>2 DEF LocalOK, Checked, Probed, Early, ChecksKept, ProbesKept
  <2> QED BY <2>2, <2>3, <2>4, AxesKept DEF Placed, Early
<1>5. CASE Found(node, new)
  <2>1. /\ Placed(node, new) /\ ChecksKept(node, new) /\ ProbesKept(node, new)
        /\ new.step = "check" /\ new.axes = Append(node.axes, Axis) /\ new.pending = node.pending
    BY <1>1, <1>2, <1>5 DEF Found, NodeRecords, Placed, ChecksKept, ProbesKept
  <2>2. Sized(new)
    BY <1>2, <2>1, LocalTypes DEF LocalOK, Sized, Retesting, ChecksKept
  <2>3. Checked(new) /\ Probed(new)
    BY <1>3, <2>1 DEF LocalOK, Checked, Probed, Early, ChecksKept, ProbesKept
  <2> QED BY <2>1, <2>2, <2>3, AxisAdded DEF Placed, Early
<1> QED BY <1>4, <1>5

\* evaluate_candidate, for the dimension found.
LEMMA RetestAsks ==
  ASSUME IInv, Retest
  PROVE  Question
<1>1. LocalOK(Here) /\ run = "running" /\ policy \in Policy /\ Here.step = "retest"
  BY HereOK, PolicyTyped DEF Retest, Due
<1>2. PICK node : Becomes(node) /\ (Retested(Here, node) \/ Found(Here, node))
  BY DEF Retest, Judged, Retested, Found
<1>3. Moves(Here, node)
  BY <1>1, <1>2, RetestMoves
<1> QED BY <1>1, <1>2, <1>3 DEF Question, Retest

\* Probes are supplied, or routed one by one: in between, only their count, their
\* source and their outcome differ.
LEMMA RoutingMoves ==
  ASSUME policy \in Policy, NEW node, LocalOK(node), node.step \in {"probe", "route"},
         NEW mid, Placed(node, mid), ChecksKept(node, mid),
         mid.axes = node.axes, mid.pending = node.pending,
         NEW k \in Nat, mid.probes + k <= policy.probes, NEW new, new = Routing(mid, k)
  PROVE  Moves(node, new)
<1>1. mid \in NodeRecords /\ mid.probes \in Nat
  BY DEF Placed, NodeRecords
<1>2. PICK step \in {"route", "value", "allocate"} :
         /\ new = [mid EXCEPT !.left = k, !.step = step]
         /\ step = "route" => k > 0
         /\ step = "value" => mid.axes # <<>>
  BY DEF Routing
<1>3. step \in Steps
  BY DEF Steps, Early
<1>4. /\ new \in NodeRecords /\ new.depth = mid.depth /\ new.parent = mid.parent
      /\ ChecksKept(mid, new) /\ new.probes = mid.probes /\ new.left = k
      /\ new.step = step /\ new.axes = mid.axes /\ new.pending = mid.pending
  BY <1>1, <1>2, <1>3 DEF NodeRecords, ChecksKept
<1>5. step = "route" => k > 0
  BY <1>2
<1>6. step = "value" => node.axes # <<>>
  BY <1>2
<1>7. /\ Placed(node, new) /\ ChecksKept(node, new)
      /\ new.axes = node.axes /\ new.pending = node.pending
  BY <1>4 DEF Placed, ChecksKept
<1>8. Sized(new)
  BY <1>4, <1>7, LocalTypes DEF LocalOK, Sized, Retesting, ChecksKept
<1>9. Checked(new) /\ Probed(new)
  BY <1>1, <1>4, <1>5, <1>7 DEF LocalOK, Checked, Probed, Early, ChecksKept
<1> QED BY <1>4, <1>6, <1>7, <1>8, <1>9, AxesKept DEF Placed, Early

Supplied(node, new) ==
    \E source \in {"oracle_generated", "provided"}, k \in 0 .. policy.probes :
        new = Routing([node EXCEPT !.source = source], k)

\* At most as many probes are supplied as the policy says.
LEMMA ProbeMoves ==
  ASSUME policy \in Policy, NEW node, LocalOK(node), node.step = "probe",
         NEW new, Supplied(node, new)
  PROVE  Moves(node, new)
<1>1. PICK source \in {"oracle_generated", "provided"}, k \in 0 .. policy.probes :
         new = Routing([node EXCEPT !.source = source], k)
  BY DEF Supplied
<1> DEFINE mid == [node EXCEPT !.source = source]
<1>2. node \in NodeRecords
  BY LocalTypes
<1>3. /\ Placed(node, mid) /\ ChecksKept(node, mid) /\ mid.axes = node.axes
      /\ mid.pending = node.pending /\ mid.probes = node.probes
  BY <1>2 DEF NodeRecords, Placed, ChecksKept
<1>4. new = Routing(mid, k)
  BY <1>1
<1> HIDE DEF mid
<1>5. k \in Nat /\ mid.probes + k <= policy.probes
  BY <1>3, LocalTypes DEF LocalOK, Probed, Early
<1> QED BY <1>3, <1>4, <1>5, RoutingMoves

\* generate_routing_probes, or the probes of the caller.
LEMMA ProbeAsks ==
  ASSUME IInv, Probe
  PROVE  Question
<1>1. /\ LocalOK(Here) /\ Here \in NodeRecords /\ run = "running"
      /\ policy \in Policy /\ policy.probes \in Nat /\ Here.step = "probe"
  BY HereOK, PolicyTyped DEF Probe, Due
<1> DEFINE source == IF Provided(Here) THEN "provided" ELSE Here.source
           mid == [Here EXCEPT !.source = source]
<1>2. source \in {"oracle_generated", "provided"}
  BY <1>1 DEF NodeRecords
<1>3. /\ \E k \in 0 .. policy.probes : Becomes(Routing(mid, k))
      /\ UNCHANGED <<calls, exhausted>> \/ Asked \/ Denied
  <2>1. 0 \in 0 .. policy.probes /\ policy.probes \in 0 .. policy.probes
    BY <1>1
  <2>2. \A k \in Given(Here) : k \in 0 .. policy.probes
    BY <2>1 DEF Given
  <2>3. Given(mid) = Given(Here)
    BY <1>1 DEF Given, NodeRecords
  <2> QED BY <2>1, <2>2 DEF Probe
<1>4. PICK node : Becomes(node) /\ Supplied(Here, node)
  BY <1>2, <1>3 DEF Supplied
<1>5. Moves(Here, node)
  BY <1>1, <1>4, ProbeMoves
<1>6. Asked \/ Denied \/ UNCHANGED <<calls, exhausted>>
  BY <1>3
<1> QED BY <1>1, <1>4, <1>5, <1>6 DEF Question, Probe

\* A probe was routed, or is left unrouted.
RoutedOne(node, new) ==
    \E clean \in BOOLEAN :
        new = Routing([node EXCEPT !.probes = @ + 1, !.clean = clean], node.left - 1)
NotRouted(node, new) == new = Routing(node, 0)

\* A probe is routed or not, and never twice.
LEMMA RouteMoves ==
  ASSUME policy \in Policy, NEW node, LocalOK(node), node.step = "route",
         NEW new, RoutedOne(node, new) \/ NotRouted(node, new)
  PROVE  Moves(node, new)
<1>1. /\ node \in NodeRecords /\ node.probes + 1 \in Nat /\ node.left - 1 \in Nat
      /\ node.probes + 1 + (node.left - 1) <= policy.probes /\ node.probes + 0 <= policy.probes
  BY LocalTypes DEF LocalOK, Probed
<1>2. CASE RoutedOne(node, new)
  <2>1. PICK clean \in BOOLEAN :
           new = Routing([node EXCEPT !.probes = @ + 1, !.clean = clean], node.left - 1)
    BY <1>2 DEF RoutedOne
  <2> DEFINE mid == [node EXCEPT !.probes = @ + 1, !.clean = clean]
  <2>2. /\ Placed(node, mid) /\ ChecksKept(node, mid) /\ mid.axes = node.axes
        /\ mid.pending = node.pending /\ mid.probes = node.probes + 1
    BY <1>1 DEF NodeRecords, Placed, ChecksKept
  <2>3. new = Routing(mid, node.left - 1)
    BY <2>1
  <2> HIDE DEF mid
  <2> QED BY <1>1, <2>2, <2>3, RoutingMoves
<1>3. CASE NotRouted(node, new)
  <2>1. Placed(node, node) /\ ChecksKept(node, node)
    BY <1>1 DEF Placed, ChecksKept
  <2> QED BY <1>1, <1>3, <2>1, RoutingMoves DEF NotRouted
<1> QED BY <1>2, <1>3

\* route_probe.
LEMMA RouteAsks ==
  ASSUME IInv, Route
  PROVE  Question
<1>1. /\ LocalOK(Here) /\ Here \in NodeRecords /\ run = "running" /\ policy \in Policy
      /\ Here.step = "route"
  BY HereOK, PolicyTyped DEF Route, Due
<1>2. PICK node : Becomes(node) /\ (RoutedOne(Here, node) \/ NotRouted(Here, node))
  <2>1. ASSUME NEW single \in BOOLEAN,
               Becomes(Routing([Here EXCEPT !.probes = @ + 1, !.clean = @ /\ single],
                               Here.left - 1))
        PROVE  \E node : Becomes(node) /\ RoutedOne(Here, node)
    <3>1. (Here.clean /\ single) \in BOOLEAN
      OBVIOUS
    <3> QED BY <2>1, <3>1 DEF RoutedOne
  <2> QED BY <2>1 DEF Route, NotRouted
<1>3. Moves(Here, node)
  BY <1>1, <1>2, RouteMoves
<1> QED BY <1>1, <1>2, <1>3 DEF Question, Route

-----------------------------------------------------------------------------
(* Marginal values *)

\* The first axis without a value is where values end and fresh axes begin.
LEMMA FirstUnvalued ==
  ASSUME NEW node, LocalOK(node), node.step = "value", policy \in Policy
  PROVE  LET i == CHOOSE k \in DOMAIN node.axes :
                     /\ node.axes[k].value = None
                     /\ \A j \in 1 .. k - 1 : node.axes[j].value # None
         IN  /\ i \in DOMAIN node.axes
             /\ \A j \in DOMAIN node.axes :
                   (j < i => node.axes[j].value # None) /\ (j >= i => node.axes[j] = Axis)
<1> DEFINE P(k) == /\ node.axes[k].value = None
                   /\ \A j \in 1 .. k - 1 : node.axes[j].value # None
           i == CHOOSE k \in DOMAIN node.axes : P(k)
<1>1. DOMAIN node.axes = 1 .. Len(node.axes) /\ Len(node.axes) \in Nat
  BY LocalTypes
<1>2. PICK k \in DOMAIN node.axes : \A j \in DOMAIN node.axes :
         (j < k => node.axes[j].value # None) /\ (j >= k => node.axes[j] = Axis)
  BY DEF LocalOK, Valued
<1>3. P(k)
  BY <1>1, <1>2 DEF Axis
<1>4. i \in DOMAIN node.axes /\ P(i)
  BY <1>3
<1> HIDE DEF i
<1>5. i = k
  <2>1. ~ (i < k)
    BY <1>2, <1>4
  <2>2. ~ (k < i)
    BY <1>1, <1>3, <1>4 DEF Axis
  <2> QED BY <1>1, <1>4, <2>1, <2>2
<1> QED BY <1>2, <1>5 DEF i

Estimated(node, new, i, value, number) ==
    new = [node EXCEPT
              !.axes[i] = Valuation(value, number, node.depth),
              !.step = IF i = Len(node.axes) THEN "allocate" ELSE "value"]

\* An axis may be replaced by another that is in order.
LEMMA AxisLocal ==
  ASSUME policy \in Policy, NEW node, LocalOK(node), node.step \in {"value", "allocate"},
         NEW i \in DOMAIN node.axes, NEW e \in AxisRecords, AxisOK(node, e),
         NEW new, Placed(node, new), ChecksKept(node, new), ProbesKept(node, new),
         new.pending = node.pending, new.axes = [node.axes EXCEPT ![i] = e],
         new.step \in {"value", "allocate"},
         new.step = "value" =>
            \E k \in DOMAIN node.axes : \A j \in DOMAIN node.axes :
                (j < k => new.axes[j].value # None) /\ (j >= k => new.axes[j] = Axis),
         new.step = "value" => Blank(new)
  PROVE  LocalOK(new)
<1>1. /\ DOMAIN new.axes = DOMAIN node.axes /\ Len(new.axes) = Len(node.axes)
      /\ \A j \in DOMAIN node.axes : new.axes[j] = IF j = i THEN e ELSE node.axes[j]
  BY LocalTypes, ExceptSeq
<1>2. \A j \in DOMAIN node.axes : AxisOK(node, new.axes[j])
  BY <1>1 DEF LocalOK, Valued
<1>3. \A j \in DOMAIN node.axes : AxisOK(new, new.axes[j])
  BY <1>2 DEF AxisOK, Placed
<1>4. Valued(new)
  BY <1>1, <1>3 DEF Valued, Early
<1>5. Sized(new)
  BY <1>1, LocalTypes DEF LocalOK, Sized, Retesting, ChecksKept
<1>6. Checked(new) /\ Probed(new) /\ Concluded(new)
  BY DEF LocalOK, Checked, Probed, Concluded, Early, ChecksKept, ProbesKept
<1> QED BY <1>4, <1>5, <1>6 DEF LocalOK, Placed

\* It then leads where it led, if its concept is the same.
LEMMA AxisChildren ==
  ASSUME policy \in Policy, NEW node, LocalOK(node),
         NEW i \in DOMAIN node.axes, NEW e, e.child = node.axes[i].child,
         NEW new, new.axes = [node.axes EXCEPT ![i] = e]
  PROVE  SameChildren(node, new)
  BY DEF SameChildren

\* What was let in is kept as it may be, or is long.
LEMMA WrittenKept ==
  ASSUME NEW number \in Numbers, Readable(number)
  PROVE  Kept(Written(number))
<1>1. number \in Decimals /\ MaxDigits \in Nat /\ MaxExponent \in Nat
  BY NumbersAssumption, LimitsAssumption DEF Decimals
<1>2. number.digits \in Nat /\ number.exponent \in Int
  BY <1>1 DEF Decimals
<1> DEFINE digits == IF number.exponent >= number.digits THEN number.exponent + 1
                     ELSE number.digits
<1>3. digits \in Nat /\ (digits <= MaxDigits \/ number.exponent >= MaxDigits)
  BY <1>1, <1>2 DEF Readable
<1>4. Written(number) = [number EXCEPT !.digits = digits]
  BY DEF Written
<1> HIDE DEF digits
<1>5. /\ Written(number) \in Decimals /\ Written(number).digits = digits
      /\ Written(number).exponent = number.exponent
  BY <1>1, <1>3, <1>4 DEF Decimals
<1> QED BY <1>3, <1>5 DEF Kept, Readable

\* What an estimate decides is what the validation expects of it.
LEMMA DecisionOK ==
  ASSUME policy \in Policy, NEW node, LocalOK(node), NEW value \in Ratios \cup {Unknown},
         NEW number \in Numbers, Readable(number),
         NEW e, e = Valuation(value, number, node.depth)
  PROVE  e \in AxisRecords /\ AxisOK(node, e) /\ e.value # None
<1>1. /\ e.value = value /\ e.decision = Decision(value, node.depth) /\ e.child = 0
      /\ e.number = IF value = Unknown THEN None ELSE Written(number)
      /\ e = [value |-> value, number |-> e.number, decision |-> Decision(value, node.depth),
              child |-> 0]
  BY DEF Valuation
<1>2. value # None /\ (value # Unknown => value \in Int) /\ Unknown \notin Int /\ Threshold \in Int
  BY RatiosAssumption, UnknownAssumption
<1>3. Decision(value, node.depth) \in {"probe", "leaf", "maximum_depth", "pending_allocation"}
  BY DEF Decision
<1>4. /\ value # Unknown => Kept(e.number)
      /\ e.number \in Decimals \cup {None}
  BY <1>1, WrittenKept DEF Kept
<1>5. e \in AxisRecords
  BY <1>1, <1>3, <1>4 DEF AxisRecords, Decisions
<1>6. AxisOK(node, e)
  BY <1>1, <1>2, <1>4, LocalTypes DEF AxisOK, Decision
<1> QED BY <1>1, <1>2, <1>5, <1>6

\* An estimate goes to the first axis without one.
LEMMA EstimatedMoves ==
  ASSUME policy \in Policy, NEW node, LocalOK(node), node.step = "value",
         NEW i \in DOMAIN node.axes,
         \A j \in DOMAIN node.axes :
             (j < i => node.axes[j].value # None) /\ (j >= i => node.axes[j] = Axis),
         NEW value \in Ratios \cup {Unknown}, NEW number \in Numbers, Readable(number),
         NEW new, Estimated(node, new, i, value, number)
  PROVE  Moves(node, new)
<1> DEFINE e == Valuation(value, number, node.depth)
<1>1. e \in AxisRecords /\ AxisOK(node, e) /\ e.value # None
  BY DecisionOK
<1>2. e.child = node.axes[i].child
  <2>1. i >= i
    BY LocalTypes
  <2> QED BY <2>1 DEF Axis, Valuation
<1>3. PICK step \in {"value", "allocate"} :
         /\ new = [node EXCEPT !.axes[i] = e, !.step = step]
         /\ step = "value" => i # Len(node.axes)
  BY DEF Estimated
<1> HIDE DEF e
<1>4. [node.axes EXCEPT ![i] = e] \in Seq(AxisRecords) /\ step \in Steps /\ node \in NodeRecords
  BY <1>1, LocalTypes, ExceptSeq DEF Steps, Early
<1>5. /\ Placed(node, new) /\ ChecksKept(node, new) /\ ProbesKept(node, new)
      /\ new.pending = node.pending /\ new.axes = [node.axes EXCEPT ![i] = e]
      /\ new.step = step
  BY <1>3, <1>4 DEF NodeRecords, Placed, ChecksKept, ProbesKept
<1>6. step = "value" => i # Len(node.axes)
  BY <1>3
<1>7. ASSUME step = "value"
      PROVE  \E k \in DOMAIN node.axes : \A j \in DOMAIN node.axes :
                (j < k => new.axes[j].value # None) /\ (j >= k => new.axes[j] = Axis)
  <2>1. DOMAIN node.axes = 1 .. Len(node.axes) /\ Len(node.axes) \in Nat
    BY LocalTypes
  <2>2. i + 1 \in DOMAIN node.axes
    BY <1>6, <1>7, <2>1
  <2>3. \A j \in DOMAIN node.axes : new.axes[j] = IF j = i THEN e ELSE node.axes[j]
    BY <1>5
  <2>4. \A j \in DOMAIN node.axes :
           (j < i + 1 => new.axes[j].value # None) /\ (j >= i + 1 => new.axes[j] = Axis)
    BY <1>1, <2>1, <2>3
  <2> QED BY <2>2, <2>4
<1>8. Blank(new)
  <2>1. Blank(node)
    BY DEF LocalOK, Valued
  <2>2. \A j \in DOMAIN new.axes : j \in DOMAIN node.axes /\ new.axes[j] \in {e, node.axes[j]}
    BY <1>5
  <2>3. e.child = 0 /\ ~ Refused(e)
    <3>1. Decision(value, node.depth) \in {"probe", "leaf", "maximum_depth", "pending_allocation"}
      BY DEF Decision
    <3> QED BY <3>1 DEF e, Refused, Valuation
  <2> QED BY <2>1, <2>2, <2>3 DEF Blank
<1>9. LocalOK(new)
  BY <1>1, <1>5, <1>7, <1>8, AxisLocal
<1>10. SameChildren(node, new)
  BY <1>2, <1>5, AxisChildren
<1> QED BY <1>5, <1>8, <1>9, <1>10 DEF Moves, Placed

\* Axes that got no estimate are left without a decision.
LEMMA NotEstimatedMoves ==
  ASSUME policy \in Policy, NEW node, LocalOK(node), node.step = "value",
         NEW new, new = [node EXCEPT !.step = "allocate"]
  PROVE  Moves(node, new)
<1>1. node \in NodeRecords /\ "allocate" \in Steps
  BY LocalTypes DEF Steps
<1>2. /\ Placed(node, new) /\ ChecksKept(node, new) /\ ProbesKept(node, new)
      /\ new.pending = node.pending /\ new.axes = node.axes /\ new.step = "allocate"
  BY <1>1 DEF NodeRecords, Placed, ChecksKept, ProbesKept
<1>3. Sized(new)
  BY <1>2, LocalTypes DEF LocalOK, Sized, Retesting, ChecksKept
<1>4. Checked(new) /\ Probed(new) /\ Concluded(new)
  BY <1>2 DEF LocalOK, Checked, Probed, Concluded, Early, ChecksKept, ProbesKept
<1>5. Valued(new)
  BY <1>2 DEF LocalOK, Valued, AxisOK, Early, Placed
<1>6. SameChildren(node, new)
  BY <1>2 DEF SameChildren
<1>7. Blank(new)
  BY <1>2 DEF LocalOK, Valued, Blank
<1> QED BY <1>2, <1>3, <1>4, <1>5, <1>6, <1>7 DEF Moves, LocalOK, Placed

\* estimate_marginal_value.
LEMMA ValueAsks ==
  ASSUME IInv, Value
  PROVE  Question
<1>1. LocalOK(Here) /\ run = "running" /\ policy \in Policy /\ Here.step = "value"
  BY HereOK, PolicyTyped DEF Value, Due
<1> DEFINE i == CHOOSE k \in DOMAIN Here.axes :
                   /\ Here.axes[k].value = None
                   /\ \A j \in 1 .. k - 1 : Here.axes[j].value # None
<1>2. /\ i \in DOMAIN Here.axes
      /\ \A j \in DOMAIN Here.axes :
            (j < i => Here.axes[j].value # None) /\ (j >= i => Here.axes[j] = Axis)
  BY <1>1, FirstUnvalued
<1>3. \/ \E value \in Ratios \cup {Unknown}, number \in Numbers : \E node :
            Readable(number) /\ Becomes(node) /\ Estimated(Here, node, i, value, number)
      \/ Becomes([Here EXCEPT !.step = "allocate"])
  BY DEF Value, Estimated
<1> HIDE DEF i
<1>4. PICK node : Becomes(node) /\ Moves(Here, node)
  BY <1>1, <1>2, <1>3, EstimatedMoves, NotEstimatedMoves
<1> QED BY <1>1, <1>4 DEF Question, Value

\* An axis pending allocation has a ratio above the threshold, a depth below it,
\* and nothing below it yet; it may be left alone or taken further.
LEMMA PendingAxis ==
  ASSUME policy \in Policy, NEW node, LocalOK(node), NEW i \in Pending(node)
  PROVE  /\ i \in DOMAIN node.axes /\ node.axes[i] \in AxisRecords
         /\ node.axes[i].value \in Int /\ ~ (node.axes[i].value <= Threshold)
         /\ Kept(node.axes[i].number)
         /\ node.axes[i].child = 0 /\ node.depth < policy.depth
<1>1. i \in DOMAIN node.axes /\ node.axes[i].decision = "pending_allocation"
  BY DEF Pending
<1>2. node.axes[i] \in AxisRecords
  BY <1>1, LocalTypes
<1>3. AxisOK(node, node.axes[i])
  BY <1>1 DEF LocalOK, Valued
<1>4. "pending_allocation" # None
  BY UnknownAssumption DEF Decisions
<1>5. node.axes[i].value \in Int
  BY <1>1, <1>2, <1>3, <1>4, RatiosAssumption DEF AxisOK, AxisRecords
<1> QED BY <1>1, <1>2, <1>3, <1>5 DEF AxisOK

Refusal(node, new, i, decision) == new = [node EXCEPT !.axes[i].decision = decision]

\* An axis that is refused a budget gets a decision and no concept.
LEMMA WithheldMoves ==
  ASSUME policy \in Policy, NEW node, LocalOK(node), node.step = "allocate",
         NEW i \in Pending(node),
         NEW decision \in {"node_budget_exhausted", "oracle_budget_exhausted"},
         NEW new, Refusal(node, new, i, decision)
  PROVE  Moves(node, new)
<1> DEFINE e == [node.axes[i] EXCEPT !.decision = decision]
<1>1. /\ i \in DOMAIN node.axes /\ node.axes[i] \in AxisRecords
      /\ node.axes[i].value \in Int /\ ~ (node.axes[i].value <= Threshold)
      /\ Kept(node.axes[i].number)
      /\ node.axes[i].child = 0 /\ node.depth < policy.depth
  BY PendingAxis
<1>2. decision \in Decisions
  BY DEF Decisions
<1>3. /\ e \in AxisRecords /\ e.decision = decision /\ e.value = node.axes[i].value
      /\ e.child = node.axes[i].child /\ e.number = node.axes[i].number
  BY <1>1, <1>2 DEF AxisRecords
<1>4. new = [node EXCEPT !.axes = [node.axes EXCEPT ![i] = e]]
  BY DEF Refusal
<1> HIDE DEF e
<1>5. AxisOK(node, e)
  BY <1>1, <1>3, UnknownAssumption DEF AxisOK
<1>6. [node.axes EXCEPT ![i] = e] \in Seq(AxisRecords) /\ node \in NodeRecords
  BY <1>1, <1>3, LocalTypes, ExceptSeq
<1>7. /\ Placed(node, new) /\ ChecksKept(node, new) /\ ProbesKept(node, new)
      /\ new.pending = node.pending /\ new.axes = [node.axes EXCEPT ![i] = e]
      /\ new.step = "allocate"
  BY <1>4, <1>6 DEF NodeRecords, Placed, ChecksKept, ProbesKept
<1>8. LocalOK(new)
  BY <1>1, <1>3, <1>5, <1>7, AxisLocal
<1>9. SameChildren(node, new)
  BY <1>1, <1>3, <1>7, AxisChildren
<1> QED BY <1>7, <1>8, <1>9 DEF Moves, Placed

\* The refusal of a budget.
LEMMA WithheldIInv ==
  ASSUME IInv, Withheld
  PROVE  IInv'
<1>1. LocalOK(Here) /\ run = "running" /\ policy \in Policy /\ Here.step = "allocate"
  BY HereOK, PolicyTyped DEF Withheld, Due
<1>2. PICK i \in Best(Here) :
         Becomes([Here EXCEPT !.axes[i].decision =
                     IF exhausted THEN "oracle_budget_exhausted" ELSE "node_budget_exhausted"])
  BY DEF Withheld
<1>3. i \in Pending(Here)
  BY DEF Best
<1> DEFINE decision == IF exhausted THEN "oracle_budget_exhausted" ELSE "node_budget_exhausted"
           node == [Here EXCEPT !.axes[i].decision = decision]
<1>4. decision \in {"node_budget_exhausted", "oracle_budget_exhausted"}
  OBVIOUS
<1>5. Becomes(node) /\ Refusal(Here, node, i, decision)
  BY <1>2 DEF Refusal
<1> HIDE DEF node, decision
<1>6. Moves(Here, node)
  BY <1>1, <1>3, <1>4, <1>5, WithheldMoves
<1> QED BY <1>1, <1>5, <1>6, InPlace DEF Withheld, IInv, Same

-----------------------------------------------------------------------------
(* The recursion *)

\* A concept begun within the depth is in order.
LEMMA FreshOK ==
  ASSUME policy \in Policy, NEW depth \in Nat, depth <= policy.depth, NEW parent \in Nat,
         NEW size \in Sizes
  PROVE  LET fresh == Fresh(depth, parent, size)
         IN  /\ LocalOK(fresh) /\ fresh \in NodeRecords /\ fresh.axes = <<>>
             /\ fresh.depth = depth /\ fresh.parent = parent /\ fresh.step = "generate"
<1> DEFINE fresh == Fresh(depth, parent, size)
<1>1. <<>> \in Seq(AxisRecords) /\ Len(<<>>) = 0 /\ DOMAIN <<>> = {}
  OBVIOUS
<1>2. "generate" \in Steps /\ "open" \in Statuses
  BY DEF Steps, Early, Statuses
<1>3. fresh \in NodeRecords
  BY <1>1, <1>2, SizesAssumption DEF Fresh, NodeRecords
<1>4. /\ fresh.axes = <<>> /\ fresh.depth = depth /\ fresh.parent = parent
      /\ fresh.step = "generate" /\ fresh.pending = 0 /\ fresh.checks = 0 /\ fresh.retries = 0
      /\ fresh.complete = FALSE /\ fresh.probes = 0 /\ fresh.left = 0
  BY DEF Fresh
<1> HIDE DEF fresh
<1>5. policy.candidates \in Nat /\ policy.retries \in Nat /\ policy.probes \in Nat
  BY DEF Policy
<1>6. Sized(fresh)
  BY <1>1, <1>4, <1>5 DEF Sized, Retesting
<1>7. Checked(fresh) /\ Probed(fresh) /\ Concluded(fresh)
  BY <1>4, <1>5 DEF Checked, Probed, Concluded, Early
<1>8. Valued(fresh)
  BY <1>1, <1>4 DEF Valued, Early
<1> QED BY <1>3, <1>4, <1>6, <1>7, <1>8 DEF LocalOK, fresh

\* The axis with the best ratio leads to the concept begun.
Deepened(node, new, i, child) ==
    new = [node EXCEPT !.axes[i] = [@ EXCEPT !.decision = "recurse", !.child = child]]

\* So is the concept whose axis leads to it.
LEMMA DeepenedOK ==
  ASSUME policy \in Policy, NEW node, LocalOK(node), node.step = "allocate",
         NEW i \in Pending(node), NEW child \in Nat \ {0}, NEW new, Deepened(node, new, i, child)
  PROVE  /\ LocalOK(new) /\ new.depth = node.depth /\ new.parent = node.parent
         /\ new.step = "allocate" /\ DOMAIN new.axes = DOMAIN node.axes
         /\ \A j \in DOMAIN node.axes :
               new.axes[j].child = IF j = i THEN child ELSE node.axes[j].child
<1> DEFINE e == [node.axes[i] EXCEPT !.decision = "recurse", !.child = child]
<1>1. /\ i \in DOMAIN node.axes /\ node.axes[i] \in AxisRecords
      /\ node.axes[i].value \in Int /\ ~ (node.axes[i].value <= Threshold)
      /\ Kept(node.axes[i].number)
      /\ node.axes[i].child = 0 /\ node.depth < policy.depth
  BY PendingAxis
<1>2. "recurse" \in Decisions /\ child \in Nat
  BY DEF Decisions
<1>3. /\ e \in AxisRecords /\ e.decision = "recurse" /\ e.value = node.axes[i].value
      /\ e.child = child /\ e.number = node.axes[i].number
  BY <1>1, <1>2 DEF AxisRecords
<1>4. new = [node EXCEPT !.axes = [node.axes EXCEPT ![i] = e]]
  BY DEF Deepened
<1> HIDE DEF e
<1>5. AxisOK(node, e)
  BY <1>1, <1>3, UnknownAssumption DEF AxisOK
<1>6. [node.axes EXCEPT ![i] = e] \in Seq(AxisRecords) /\ node \in NodeRecords
  BY <1>1, <1>3, LocalTypes, ExceptSeq
<1>7. /\ Placed(node, new) /\ ChecksKept(node, new) /\ ProbesKept(node, new)
      /\ new.pending = node.pending /\ new.axes = [node.axes EXCEPT ![i] = e]
      /\ new.step = "allocate"
  BY <1>4, <1>6 DEF NodeRecords, Placed, ChecksKept, ProbesKept
<1>8. LocalOK(new)
  BY <1>1, <1>3, <1>5, <1>7, AxisLocal
<1> QED BY <1>1, <1>3, <1>7, <1>8 DEF Placed

\* The recursion: the concept begun is on top of the stack.
LEMMA RecurseIInv ==
  ASSUME IInv, Recurse
  PROVE  IInv'
<1>1. /\ WellMade(nodes) /\ Chain(nodes, at) /\ at \in DOMAIN nodes /\ LocalOK(Here)
      /\ Here \in NodeRecords /\ run = "running" /\ Here.step = "allocate"
      /\ policy \in Policy /\ policy.nodes \in Nat
  BY HereOK, PolicyTyped DEF Recurse, Due
<1>2. /\ nodes \in Seq(NodeRecords) /\ DOMAIN nodes = 1 .. Len(nodes) /\ Len(nodes) \in Nat
      /\ at \in 1 .. Len(nodes) /\ Len(nodes) + 1 <= policy.nodes
  BY <1>1 DEF WellMade, Recurse
<1> DEFINE new == Len(nodes) + 1
<1>3. PICK i \in Best(Here), size \in Sizes :
         nodes' = Append([nodes EXCEPT ![at].axes[i] =
                             [@ EXCEPT !.decision = "recurse", !.child = new]],
                         Fresh(Here.depth + 1, at, size))
  BY DEF Recurse
<1> DEFINE node == [Here EXCEPT !.axes[i] = [@ EXCEPT !.decision = "recurse", !.child = new]]
           fresh == Fresh(Here.depth + 1, at, size)
           begun == [nodes EXCEPT ![at] = node]
           tree == Append(begun, fresh)
<1>4. i \in Pending(Here)
  BY DEF Best
<1>5. /\ LocalOK(node) /\ node.depth = Here.depth /\ node.parent = Here.parent
      /\ node.step = "allocate" /\ DOMAIN node.axes = DOMAIN Here.axes
      /\ \A j \in DOMAIN Here.axes :
            node.axes[j].child = IF j = i THEN new ELSE Here.axes[j].child
  <2>1. new \in Nat \ {0}
    BY <1>2
  <2>2. Deepened(Here, node, i, new)
    BY DEF Deepened
  <2> HIDE DEF node, new
  <2> QED BY <1>1, <1>4, <2>1, <2>2, DeepenedOK
<1>6. i \in DOMAIN Here.axes /\ Here.axes[i].child = 0 /\ Here.depth < policy.depth
  BY <1>1, <1>4, PendingAxis
<1>7. /\ LocalOK(fresh) /\ fresh \in NodeRecords /\ fresh.axes = <<>>
      /\ fresh.depth = Here.depth + 1 /\ fresh.parent = at /\ fresh.step = "generate"
  <2>1. Here.depth + 1 \in Nat /\ Here.depth + 1 <= policy.depth /\ at \in Nat
    BY <1>1, <1>2, <1>6, LocalTypes
  <2> QED BY <1>1, <2>1, FreshOK
<1>8. nodes' = tree
  BY <1>3 DEF Here
<1> HIDE DEF node, fresh
<1>9. /\ begun \in Seq(NodeRecords) /\ Len(begun) = Len(nodes)
      /\ \A n \in 1 .. Len(nodes) : begun[n] = IF n = at THEN node ELSE nodes[n]
  BY <1>2, <1>5, ExceptSeq DEF LocalOK
<1> HIDE DEF begun
<1>10. /\ tree \in Seq(NodeRecords) /\ Len(tree) = new /\ DOMAIN tree = 1 .. new
       /\ tree[new] = fresh /\ tree[at] = node
       /\ \A n \in 1 .. Len(nodes) : n # at => tree[n] = nodes[n]
  BY <1>2, <1>7, <1>9, AppendProperties
<1> HIDE DEF tree
<1>11. \A n \in DOMAIN nodes :
          tree[n].depth = nodes[n].depth /\ tree[n].parent = nodes[n].parent
  BY <1>2, <1>5, <1>10 DEF Here
<1>12. Linked(tree)
  <2>1. ASSUME NEW n \in DOMAIN tree, NEW j \in DOMAIN tree[n].axes, tree[n].axes[j].child # 0
        PROVE  /\ tree[n].axes[j].child \in DOMAIN tree
               /\ tree[tree[n].axes[j].child].depth = tree[n].depth + 1
    <3>1. n # new /\ n \in DOMAIN nodes
      BY <1>2, <1>7, <1>10, <2>1
    <3>2. CASE n = at /\ j = i
      BY <1>2, <1>5, <1>6, <1>7, <1>10, <3>2
    <3>3. CASE ~ (n = at /\ j = i)
      <4>1. j \in DOMAIN nodes[n].axes /\ tree[n].axes[j].child = nodes[n].axes[j].child
        BY <1>2, <1>5, <1>10, <2>1, <3>1, <3>3 DEF Here
      <4>2. /\ nodes[n].axes[j].child \in DOMAIN nodes
            /\ nodes[nodes[n].axes[j].child].depth = nodes[n].depth + 1
        BY <1>1, <2>1, <3>1, <4>1 DEF WellMade, Linked
      <4> QED BY <1>2, <1>10, <1>11, <3>1, <4>1, <4>2
    <3> QED BY <3>2, <3>3
  <2>2. ASSUME NEW c \in 2 .. Len(tree)
        PROVE  \E n \in DOMAIN tree : \E j \in DOMAIN tree[n].axes : tree[n].axes[j].child = c
    <3>1. CASE c = new
      BY <1>2, <1>5, <1>6, <1>10, <3>1
    <3>2. CASE c # new
      <4>1. c \in 2 .. Len(nodes)
        BY <1>2, <1>10, <3>2
      <4>2. PICK n \in DOMAIN nodes : \E j \in DOMAIN nodes[n].axes : nodes[n].axes[j].child = c
        BY <1>1, <4>1 DEF WellMade, Linked
      <4>3. PICK j \in DOMAIN nodes[n].axes : nodes[n].axes[j].child = c
        BY <4>2
      <4>4. ~ (n = at /\ j = i)
        BY <1>6, <4>3 DEF Here
      <4>5. j \in DOMAIN tree[n].axes /\ tree[n].axes[j].child = c
        BY <1>2, <1>5, <1>10, <4>3, <4>4 DEF Here
      <4> QED BY <1>2, <1>10, <4>5
    <3> QED BY <3>1, <3>2
  <2> QED BY <2>1, <2>2 DEF Linked
<1>13. WellMade(tree)
  <2>1. \A n \in DOMAIN tree : LocalOK(tree[n])
    BY <1>1, <1>2, <1>5, <1>7, <1>10 DEF WellMade
  <2>2. tree[1].depth = 0
    BY <1>1, <1>2, <1>11 DEF WellMade
  <2> QED BY <1>2, <1>10, <1>12, <2>1, <2>2 DEF WellMade
<1>14. Chain(tree, new)
  <2>1. \A n \in DOMAIN nodes : Open(tree, n) <=> Open(nodes, n)
    BY <1>1, <1>2, <1>5, <1>10 DEF Open, Here
  <2>2. Open(tree, new) /\ tree[new].parent = at /\ new # 1 /\ at # 0
    BY <1>2, <1>7, <1>10 DEF Open
  <2>3. \A n \in DOMAIN nodes : Open(nodes, n) /\ n # 1 =>
           /\ nodes[n].parent \in DOMAIN nodes
           /\ \A k \in nodes[n].parent + 1 .. n - 1 : k \in DOMAIN nodes
    BY <1>1, <1>2 DEF Chain
  <2>4. \A n \in DOMAIN tree : tree[n].parent = 0 <=> n = 1
    BY <1>1, <1>2, <1>10, <1>11, <2>2 DEF Chain
  <2>5. ASSUME NEW n \in DOMAIN nodes, Open(tree, n)
        PROVE  /\ n <= new
               /\ n # 1 => /\ tree[n].parent \in 1 .. n - 1
                           /\ Open(tree, tree[n].parent)
                           /\ \A k \in tree[n].parent + 1 .. n - 1 : ~ Open(tree, k)
    <3>1. Open(nodes, n) /\ tree[n].parent = nodes[n].parent
      BY <1>11, <2>1, <2>5
    <3>2. n <= at /\ at <= new
      BY <1>1, <1>2, <3>1 DEF Chain
    <3>3. ASSUME n # 1
          PROVE  /\ nodes[n].parent \in 1 .. n - 1 /\ Open(tree, nodes[n].parent)
                 /\ \A k \in nodes[n].parent + 1 .. n - 1 : ~ Open(tree, k)
      <4>1. /\ nodes[n].parent \in 1 .. n - 1 /\ Open(nodes, nodes[n].parent)
            /\ \A k \in nodes[n].parent + 1 .. n - 1 : ~ Open(nodes, k)
        BY <1>1, <3>1, <3>3 DEF Chain
      <4>2. /\ nodes[n].parent \in DOMAIN nodes
            /\ \A k \in nodes[n].parent + 1 .. n - 1 : k \in DOMAIN nodes
        BY <2>3, <3>1, <3>3
      <4> QED BY <2>1, <4>1, <4>2
    <3> QED BY <1>2, <3>1, <3>2, <3>3
  <2>6. Open(tree, at) /\ \A k \in at + 1 .. new - 1 : ~ Open(tree, k)
    BY <1>1, <1>2, <2>1 DEF Chain
  <2>7. at \in 1 .. new - 1 /\ new \in DOMAIN tree
    BY <1>2, <1>10
  <2>8. ASSUME NEW n \in DOMAIN tree, Open(tree, n)
        PROVE  /\ n <= new
               /\ n # 1 => /\ tree[n].parent \in 1 .. n - 1
                           /\ Open(tree, tree[n].parent)
                           /\ \A k \in tree[n].parent + 1 .. n - 1 : ~ Open(tree, k)
    <3>1. CASE n = new
      BY <1>2, <2>2, <2>6, <2>7, <3>1
    <3>2. CASE n \in DOMAIN nodes
      BY <2>5, <2>8, <3>2
    <3> QED BY <1>2, <1>10, <3>1, <3>2
  <2> QED BY <2>2, <2>4, <2>7, <2>8 DEF Chain
<1>15. at' = new /\ policy' = policy /\ run' = run /\ calls' = calls /\ exhausted' = exhausted
  BY DEF Recurse
<1>16. WellMade(nodes)' /\ Chain(nodes, at)'
  BY <1>8, <1>13, <1>14, <1>15, WellMadeNext DEF Chain, Open
<1> QED BY <1>1, <1>15, <1>16 DEF IInv, OnlyLengthRefuses

-----------------------------------------------------------------------------
(* The end *)

\* What the validation asks of one concept follows from what it may hold when done,
\* unless it holds something long.
LEMMA DoneIsValid ==
  ASSUME policy \in Policy, NEW tree, WellMade(tree), NEW n \in DOMAIN tree, ~ Open(tree, n),
         ~ Long(tree[n])
  PROVE  ValidNode(tree, tree[n])
<1> DEFINE node == tree[n]
<1>1. LocalOK(node) /\ node.step = "done" /\ ~ Long(node)
  BY DEF WellMade, Open
<1> HIDE DEF node
<1>2. \A i \in DOMAIN node.axes : ValidAxis(tree, node, node.axes[i])
  <2>1. SUFFICES ASSUME NEW i \in DOMAIN node.axes
                 PROVE  ValidAxis(tree, node, node.axes[i])
    OBVIOUS
  <2>2. AxisOK(node, node.axes[i]) /\ node.axes[i].decision # "pending_allocation"
    BY <1>1 DEF LocalOK, Valued, Concluded
  <2>3. node.axes[i].child # 0 => tree[node.axes[i].child].depth = node.depth + 1
    BY DEF WellMade, Linked, node
  <2>4. node.axes[i].value \in Int => Readable(node.axes[i].number)
    BY <1>1, <2>2, LimitsAssumption DEF AxisOK, Kept, Long, Readable, Decimals
  <2> QED BY <2>2, <2>3, <2>4 DEF AxisOK, ValidAxis
<1>3. node.depth \in 0 .. policy.depth
  BY <1>1, LocalTypes DEF LocalOK
<1>4. Len(node.axes) <= policy.candidates + policy.retries /\ node.retries <= policy.retries
  BY <1>1, LocalTypes DEF LocalOK, Sized, Retesting
<1>5. /\ node.checks <= policy.retries + 1 /\ (node.complete => node.checks > 0)
      /\ node.probes <= policy.probes
  BY <1>1, <1>4, LocalTypes DEF LocalOK, Checked, Probed
<1>6. node.status \in {"budget_exhausted", Evident(node)}
  BY <1>1 DEF LocalOK, Concluded
<1>7. node.size <= MaxContext
  BY <1>1, LimitsAssumption DEF Long, LocalOK, NodeRecords
<1> QED BY <1>2, <1>3, <1>4, <1>5, <1>6, <1>7 DEF ValidNode, node

\* Every concept that was begun is found again below the root.
LEMMA InTreeIsAll ==
  ASSUME NEW tree, WellMade(tree), policy \in Policy
  PROVE  InTree(tree) = 1 .. Len(tree) /\ DOMAIN tree = 1 .. Len(tree) /\ Len(tree) \in Nat \ {0}
<1>1. DOMAIN tree = 1 .. Len(tree) /\ Len(tree) \in Nat \ {0}
  BY DEF WellMade, Policy
<1>2. ASSUME NEW c \in InTree(tree)
      PROVE  c \in 1 .. Len(tree)
  <2>1. CASE c # 1
    <3>1. PICK n \in DOMAIN tree : \E i \in DOMAIN tree[n].axes :
             c = tree[n].axes[i].child /\ c # 0
      BY <1>2, <2>1 DEF InTree
    <3>2. PICK i \in DOMAIN tree[n].axes : c = tree[n].axes[i].child /\ c # 0
      BY <3>1
    <3> QED BY <1>1, <3>2 DEF WellMade, Linked
  <2> QED BY <1>1, <2>1
<1>3. ASSUME NEW c \in 1 .. Len(tree)
      PROVE  c \in InTree(tree)
  <2>1. CASE c # 1
    <3>1. c \in 2 .. Len(tree) /\ c # 0
      BY <1>1, <2>1
    <3>2. PICK n \in DOMAIN tree : \E i \in DOMAIN tree[n].axes : tree[n].axes[i].child = c
      BY <3>1 DEF WellMade, Linked
    <3> QED BY <3>1, <3>2 DEF InTree
  <2> QED BY <2>1 DEF InTree
<1> QED BY <1>1, <1>2, <1>3

\* So a tree in which all is done, and nothing long, passes the validation.
LEMMA FinishedIsValid ==
  ASSUME policy \in Policy, calls <= policy.calls, NEW tree, WellMade(tree),
         \A n \in DOMAIN tree : ~ Open(tree, n),
         tree[1].status = "budget_exhausted" <=> exhausted,
         \A n \in DOMAIN tree : ~ Long(tree[n])
  PROVE  ValidProposal(tree)
<1>1. InTree(tree) = 1 .. Len(tree) /\ DOMAIN tree = 1 .. Len(tree) /\ Len(tree) \in Nat \ {0}
  BY InTreeIsAll
<1>2. \A n \in InTree(tree) : ValidNode(tree, tree[n])
  BY <1>1, DoneIsValid
<1>3. Cardinality(InTree(tree)) = Len(tree)
  BY <1>1, FS_Interval
<1> QED BY <1>1, <1>2, <1>3 DEF ValidProposal, WellMade

\* A concept is concluded by what is known of it then.
Concluding(node, new) == new = [node EXCEPT !.status = Status(node), !.step = "done"]

\* The status is the one the validation derives, or says that questions ran out.
LEMMA ConcludedOK ==
  ASSUME policy \in Policy, NEW node, LocalOK(node), node.step = "allocate", Pending(node) = {},
         NEW new, Concluding(node, new)
  PROVE  /\ LocalOK(new) /\ new.depth = node.depth /\ SameChildren(node, new)
         /\ new.step = "done" /\ new.status = Status(node)
<1>1. node \in NodeRecords /\ "done" \in Steps /\ Status(node) \in Statuses
  BY LocalTypes DEF Steps, Status, Evident, Statuses
<1>2. /\ Placed(node, new) /\ ChecksKept(node, new) /\ ProbesKept(node, new)
      /\ new.pending = node.pending /\ new.axes = node.axes /\ new.step = "done"
      /\ new.status = Status(node) /\ new.clean = node.clean
  BY <1>1 DEF Concluding, NodeRecords, Placed, ChecksKept, ProbesKept
<1>3. Sized(new)
  BY <1>2, LocalTypes DEF LocalOK, Sized, Retesting, ChecksKept
<1>4. Checked(new) /\ Probed(new)
  BY <1>2 DEF LocalOK, Checked, Probed, Early, ChecksKept, ProbesKept
<1>5. Valued(new)
  BY <1>2 DEF LocalOK, Valued, AxisOK, Early, Placed
<1>6. Evident(new) = Evident(node)
  BY <1>2 DEF Evident, Routed, ChecksKept, ProbesKept
<1>7. Concluded(new)
  BY <1>2, <1>6 DEF Concluded, Status, Pending
<1>8. SameChildren(node, new)
  BY <1>2 DEF SameChildren
<1> QED BY <1>2, <1>3, <1>4, <1>5, <1>7, <1>8 DEF LocalOK, Placed

\* The end of a concept gives the stack back to its parent, and of the root ends the run.
LEMMA CloseIInv ==
  ASSUME IInv, Close
  PROVE  IInv'
<1>1. /\ WellMade(nodes) /\ Chain(nodes, at) /\ at \in DOMAIN nodes /\ LocalOK(Here)
      /\ run = "running" /\ Here.step = "allocate" /\ policy \in Policy
  BY HereOK, PolicyTyped DEF Close, Due
<1> DEFINE node == [Here EXCEPT !.status = Status(Here), !.step = "done"]
           tree == [nodes EXCEPT ![at] = node]
<1>2. /\ LocalOK(node) /\ node.depth = Here.depth /\ SameChildren(Here, node)
      /\ node.step = "done" /\ node.status = Status(Here)
  <2>1. Concluding(Here, node)
    BY DEF Concluding
  <2> HIDE DEF node
  <2> QED BY <1>1, <2>1, ConcludedOK DEF Close
<1>3. tree = Closed
  BY DEF Closed
<1>4. node.parent = Here.parent
  BY <1>1 DEF LocalOK, NodeRecords
<1> HIDE DEF node
<1>5. WellMade(tree)
  BY <1>1, <1>2, WellMadeInPlace
<1>6. /\ DOMAIN tree = DOMAIN nodes /\ DOMAIN nodes = 1 .. Len(nodes)
      /\ at \in 1 .. Len(nodes) /\ Len(nodes) \in Nat
      /\ \A n \in DOMAIN nodes : tree[n] = IF n = at THEN node ELSE nodes[n]
  BY <1>1, <1>2, ExceptSeq DEF WellMade, LocalOK
<1> HIDE DEF tree
<1>7. /\ ~ Open(tree, at)
      /\ \A n \in DOMAIN nodes : n # at => (Open(tree, n) <=> Open(nodes, n))
      /\ \A n \in DOMAIN nodes : tree[n].parent = nodes[n].parent
  BY <1>2, <1>4, <1>6 DEF Open, Here
<1>8. /\ nodes' = tree /\ at' = Here.parent /\ policy' = policy /\ calls' = calls
      /\ exhausted' = exhausted
  BY <1>3 DEF Close
<1>9. WellMade(nodes)'
  BY <1>5, <1>8, WellMadeNext
<1>10. CASE Here.parent = 0
  <2>1. at = 1
    BY <1>1, <1>10 DEF Chain, Here
  <2>2. \A n \in DOMAIN tree : ~ Open(tree, n)
    BY <1>1, <1>6, <1>7, <2>1 DEF Chain
  <2>3. tree[1].status = "budget_exhausted" <=> exhausted
    BY <1>2, <1>6, <2>1 DEF Status, Evident
  <2>4. ValidProposal(tree) \/ \E n \in DOMAIN tree : Long(tree[n])
    BY <1>1, <1>5, <2>2, <2>3, FinishedIsValid DEF IInv
  <2>5. run' \in {"failed", "proposed", "oversized", "refused"}
        /\ (run' = "refused" => ~ ValidProposal(tree))
    BY <1>3, <1>10 DEF Close, Outcomes
  <2>6. OnlyLengthRefuses'
    BY <1>8, <2>4, <2>5 DEF OnlyLengthRefuses, Long
  <2> QED BY <1>8, <1>9, <2>5, <2>6 DEF IInv
<1>11. CASE Here.parent # 0
  <2>1. run' = "running"
    BY <1>11 DEF Close
  <2> DEFINE top == Here.parent
  <2>2. at # 1
    BY <1>1, <1>11 DEF Chain, Here
  <2>3. /\ top \in 1 .. at - 1 /\ Open(nodes, top)
        /\ \A k \in top + 1 .. at - 1 : ~ Open(nodes, k)
    BY <1>1, <2>2 DEF Chain, Here
  <2> HIDE DEF top
  <2>4. top \in DOMAIN tree /\ Open(tree, top)
    BY <1>6, <1>7, <2>3
  <2>5. \A n \in DOMAIN tree : tree[n].parent = 0 <=> n = 1
    BY <1>1, <1>6, <1>7 DEF Chain
  <2>6. ASSUME NEW n \in DOMAIN tree, Open(tree, n)
        PROVE  n <= top
    <3>1. n # at /\ Open(nodes, n) /\ n \in DOMAIN nodes
      BY <1>6, <1>7, <2>6
    <3>2. n <= at
      BY <1>1, <3>1 DEF Chain
    <3> QED BY <1>6, <2>3, <3>1, <3>2
  <2>7. ASSUME NEW n \in DOMAIN tree, Open(tree, n), n # 1
        PROVE  /\ tree[n].parent \in 1 .. n - 1 /\ Open(tree, tree[n].parent)
               /\ \A k \in tree[n].parent + 1 .. n - 1 : ~ Open(tree, k)
    <3>1. n # at /\ Open(nodes, n) /\ n \in DOMAIN nodes /\ n <= top
      BY <1>6, <1>7, <2>6, <2>7
    <3>2. /\ nodes[n].parent \in 1 .. n - 1 /\ Open(nodes, nodes[n].parent)
          /\ \A k \in nodes[n].parent + 1 .. n - 1 : ~ Open(nodes, k)
      BY <1>1, <2>7, <3>1 DEF Chain
    <3>3. \A k \in 1 .. n - 1 : k \in DOMAIN nodes /\ k # at
      BY <1>6, <2>3, <3>1
    <3>4. \A k \in nodes[n].parent + 1 .. n - 1 : k \in 1 .. n - 1
      BY <1>6, <3>1, <3>2
    <3> QED BY <1>7, <3>1, <3>2, <3>3, <3>4
  <2>8. Chain(tree, top)
    BY <2>4, <2>5, <2>6, <2>7 DEF Chain
  <2>9. Chain(nodes, at)'
    BY <1>8, <2>8 DEF Chain, Open, top
  <2> QED BY <1>8, <1>9, <2>1, <2>9 DEF IInv, OnlyLengthRefuses
<1> QED BY <1>10, <1>11

-----------------------------------------------------------------------------

\* A new run starts from nothing that an earlier one left.
LEMMA DecomposeIInv ==
  ASSUME IInv, Decompose
  PROVE  IInv'
<1>1. PICK size \in Sizes :
         /\ policy' \in Policies /\ policy' \in Policy /\ calls' = 0 /\ exhausted' = FALSE
         /\ run' = "running" /\ at' = 1 /\ nodes' = <<Fresh(0, 0, size)>>
  BY PoliciesAssumption DEF Decompose
<1>2. policy'.calls \in Nat /\ policy'.nodes \in Nat \ {0} /\ policy'.depth \in Nat
  BY <1>1 DEF Policy
<1> DEFINE fresh == Fresh(0, 0, size)
<1>3. /\ LocalOK(fresh)' /\ fresh \in NodeRecords /\ fresh.axes = <<>>
      /\ fresh.depth = 0 /\ fresh.parent = 0 /\ fresh.step = "generate"
  <2>1. /\ fresh \in NodeRecords /\ fresh.axes = <<>>
        /\ fresh.depth = 0 /\ fresh.parent = 0 /\ fresh.step = "generate"
    <3>1. policy \in Policy /\ 0 \in Nat /\ 0 <= policy.depth
      BY PolicyTyped
    <3> QED BY <3>1, FreshOK
  <2>2. /\ fresh.pending = 0 /\ fresh.checks = 0 /\ fresh.retries = 0
        /\ fresh.complete = FALSE /\ fresh.probes = 0 /\ fresh.left = 0
    BY DEF Fresh
  <2> HIDE DEF fresh
  <2>3. Len(<<>>) = 0 /\ DOMAIN <<>> = {}
    OBVIOUS
  <2>4. policy'.candidates \in Nat /\ policy'.retries \in Nat /\ policy'.probes \in Nat
    BY <1>1 DEF Policy
  <2>5. Sized(fresh)'
    BY <2>1, <2>2, <2>3, <2>4 DEF Sized, Retesting
  <2>6. Checked(fresh)' /\ Probed(fresh)' /\ Concluded(fresh)'
    BY <2>1, <2>2, <2>4 DEF Checked, Probed, Concluded, Early
  <2>7. Valued(fresh)'
    BY <2>1, <2>3 DEF Valued, Early
  <2> QED BY <1>2, <2>1, <2>5, <2>6, <2>7 DEF LocalOK
<1>4. /\ <<fresh>> \in Seq(NodeRecords) /\ Len(<<fresh>>) = 1 /\ DOMAIN <<fresh>> = {1}
      /\ <<fresh>>[1] = fresh
  BY <1>3
<1> HIDE DEF fresh
<1>5. WellMade(nodes)'
  BY <1>1, <1>2, <1>3, <1>4 DEF WellMade, Linked, fresh
<1>6. Chain(nodes, at)'
  BY <1>1, <1>3, <1>4 DEF Chain, Open, fresh
<1>7. calls' \in Nat /\ calls' <= policy'.calls
  BY <1>1, <1>2
<1>8. exhausted' \in BOOLEAN
  BY <1>1
<1> QED BY <1>1, <1>5, <1>6, <1>7, <1>8 DEF IInv, OnlyLengthRefuses

\* A run that raises leaves things as they are.
LEMMA FailIInv ==
  ASSUME IInv, Fail
  PROVE  IInv'
<1>1. /\ nodes' = nodes /\ policy' = policy /\ calls' = calls /\ exhausted' = exhausted
      /\ run' = "failed" /\ run = "running"
  BY DEF Fail
<1>2. WellMade(nodes)
  BY <1>1 DEF IInv
<1>3. WellMade(nodes)'
  BY <1>1, <1>2, WellMadeNext
<1> QED BY <1>1, <1>3 DEF IInv, OnlyLengthRefuses

\* The invariant holds of an engine that was not used yet.
LEMMA InitIInv == Init => IInv
<1> SUFFICES ASSUME Init PROVE IInv
  OBVIOUS
<1>1. policy \in Policies /\ policy.calls \in Nat
  BY PoliciesAssumption DEF Init, Policy
<1>2. calls \in Nat /\ calls <= policy.calls
  BY <1>1 DEF Init
<1>3. exhausted \in BOOLEAN /\ run = "idle"
  BY DEF Init
<1> QED BY <1>1, <1>2, <1>3 DEF IInv, OnlyLengthRefuses

\* Nothing happens.
LEMMA StutterIInv ==
  ASSUME IInv, UNCHANGED vars
  PROVE  IInv'
<1>1. /\ nodes' = nodes /\ policy' = policy /\ calls' = calls /\ exhausted' = exhausted
      /\ run' = run /\ at' = at
  BY DEF vars
<1>2. run # "idle" => WellMade(nodes)'
  BY <1>1, WellMadeNext DEF IInv
<1>3. run = "running" => Chain(nodes, at)'
  BY <1>1 DEF IInv, Chain, Open
<1>4. OnlyLengthRefuses'
  BY <1>1 DEF IInv, OnlyLengthRefuses, Long
<1> QED BY <1>1, <1>2, <1>3, <1>4 DEF IInv

\* Every step preserves it.
LEMMA NextIInv ==
  ASSUME IInv, [Next]_vars
  PROVE  IInv'
<1>1. CASE Decompose
  BY <1>1, DecomposeIInv
<1>2. CASE Generate
  BY <1>2, GenerateAsks, QuestionIInv
<1>3. CASE Assess
  BY <1>3, AssessAsks, QuestionIInv
<1>4. CASE Check
  BY <1>4, CheckAsks, QuestionIInv
<1>5. CASE Search
  BY <1>5, SearchAsks, QuestionIInv
<1>6. CASE Retest
  BY <1>6, RetestAsks, QuestionIInv
<1>7. CASE Probe
  BY <1>7, ProbeAsks, QuestionIInv
<1>8. CASE Route
  BY <1>8, RouteAsks, QuestionIInv
<1>9. CASE Value
  BY <1>9, ValueAsks, QuestionIInv
<1>10. CASE Withheld
  BY <1>10, WithheldIInv
<1>11. CASE Recurse
  BY <1>11, RecurseIInv
<1>12. CASE Close
  BY <1>12, CloseIInv
<1>13. CASE Fail
  BY <1>13, FailIInv
<1>14. CASE UNCHANGED vars
  BY <1>14, StutterIInv
<1> QED BY <1>1, <1>2, <1>3, <1>4, <1>5, <1>6, <1>7, <1>8, <1>9, <1>10, <1>11, <1>12,
           <1>13, <1>14 DEF Next, Step

\* For every configuration, every limit and every sequence of answers, a tree that
\* _normalize_node or validate_decomposition_proposal refuses holds a number or a
\* context that was let in within the limits and is kept beyond them: whatever else
\* decompose made of its budgets they accept.
THEOREM OnlyLengthEverRefuses == Spec => []OnlyLengthRefuses
<1>1. IInv => OnlyLengthRefuses
  BY DEF IInv
<1> QED BY InitIInv, NextIInv, <1>1, PTL DEF Spec

-----------------------------------------------------------------------------
(* Who gets the budgets *)

Waiting(axis) == axis.decision = "pending_allocation"

\* Axes were taken further from the highest ratio on, and nothing that waits or
\* was refused is worth more.
Ordered(axes) ==
    \A i, j \in DOMAIN axes : axes[i].child # 0 =>
        /\ Refused(axes[j]) \/ Waiting(axes[j]) => axes[i].value >= axes[j].value
        /\ axes[i].child < axes[j].child => axes[i].value >= axes[j].value

\* A budget that was refused is used up.
Excused(tree, axis) ==
    /\ axis.decision = "node_budget_exhausted" => Len(tree) = policy.nodes
    /\ axis.decision = "oracle_budget_exhausted" => exhausted

Fair(tree, axes) == Ordered(axes) /\ \A i \in DOMAIN axes : Excused(tree, axes[i])

OInv ==
    /\ IInv
    /\ exhausted => calls = policy.calls
    /\ \A n \in DOMAIN nodes : Fair(nodes, nodes[n].axes)

\* One concept of the tree has changed.
LEMMA BecomesOne ==
  ASSUME WellMade(nodes), at \in DOMAIN nodes, NEW node \in NodeRecords, Becomes(node)
  PROVE  /\ DOMAIN nodes' = DOMAIN nodes /\ Len(nodes') = Len(nodes)
         /\ \A n \in DOMAIN nodes : nodes'[n] = IF n = at THEN node ELSE nodes[n]
<1>1. nodes \in Seq(NodeRecords) /\ at \in 1 .. Len(nodes)
  BY DEF WellMade
<1> QED BY <1>1, ExceptSeq DEF Becomes

\* Fairness to the other concepts' axes does not depend on the one that changed.
LEMMA FairInPlace ==
  ASSUME OInv, run = "running", NEW node \in NodeRecords, Becomes(node), policy' = policy,
         exhausted => exhausted', Ordered(node.axes),
         \A i \in DOMAIN node.axes : Excused(nodes, node.axes[i])'
  PROVE  (\A n \in DOMAIN nodes : Fair(nodes, nodes[n].axes))'
<1>1. /\ DOMAIN nodes' = DOMAIN nodes /\ Len(nodes') = Len(nodes)
      /\ \A n \in DOMAIN nodes : nodes'[n] = IF n = at THEN node ELSE nodes[n]
  BY HereOK, BecomesOne DEF OInv
<1>2. SUFFICES ASSUME NEW n \in DOMAIN nodes
               PROVE  /\ Ordered(nodes'[n].axes)
                      /\ \A i \in DOMAIN nodes'[n].axes :
                            /\ nodes'[n].axes[i].decision = "node_budget_exhausted"
                                  => Len(nodes') = policy'.nodes
                            /\ nodes'[n].axes[i].decision = "oracle_budget_exhausted" => exhausted'
  BY <1>1 DEF Fair, Ordered, Excused, Refused, Waiting
<1>3. CASE n = at
  BY <1>1, <1>3 DEF Excused
<1>4. CASE n # at
  BY <1>1, <1>4 DEF OInv, Fair, Excused
<1> QED BY <1>3, <1>4

\* A question is asked before anything is taken further or refused.
LEMMA QuestionOInv ==
  ASSUME OInv, Question
  PROVE  OInv'
<1>1. IInv'
  BY QuestionIInv DEF OInv
<1>2. PICK node : Becomes(node) /\ Moves(Here, node)
  BY DEF Question
<1>3. Blank(node) /\ node \in NodeRecords /\ policy' = policy
  BY <1>2 DEF Question, Moves, LocalOK, Same
<1>4. (exhausted => exhausted') /\ (exhausted' => calls' = policy'.calls)
  BY <1>3, PolicyTyped DEF OInv, IInv, Question, Asked, Denied
<1>5. Ordered(node.axes)
  BY <1>3 DEF Blank, Ordered
<1>6. \A i \in DOMAIN node.axes : Excused(nodes, node.axes[i])'
  BY <1>3 DEF Blank, Refused, Excused
<1> QED BY <1>1, <1>2, <1>3, <1>4, <1>5, <1>6, FairInPlace DEF OInv, Question

\* What is refused was waiting, and a budget is used up.
LEMMA WithheldOInv ==
  ASSUME OInv, Withheld
  PROVE  OInv'
<1>1. /\ IInv /\ LocalOK(Here) /\ run = "running" /\ policy \in Policy /\ WellMade(nodes)
      /\ Fair(nodes, Here.axes) /\ policy.nodes \in Nat
  BY HereOK, PolicyTyped DEF OInv, Withheld, Due, Here
<1>2. PICK i \in Best(Here) :
         Becomes([Here EXCEPT !.axes[i].decision =
                     IF exhausted THEN "oracle_budget_exhausted" ELSE "node_budget_exhausted"])
  BY DEF Withheld
<1> DEFINE decision == IF exhausted THEN "oracle_budget_exhausted" ELSE "node_budget_exhausted"
           node == [Here EXCEPT !.axes[i].decision = decision]
<1>3. /\ i \in DOMAIN Here.axes /\ Here.axes[i] \in AxisRecords /\ Here.axes[i].child = 0
      /\ Waiting(Here.axes[i])
  BY <1>1, PendingAxis DEF Best, Pending, Waiting
<1>4. Here \in NodeRecords /\ Here.axes \in Seq(AxisRecords)
  BY <1>1, LocalTypes
<1> DEFINE e == [Here.axes[i] EXCEPT !.decision = decision]
<1>5. e.child = 0 /\ e.value = Here.axes[i].value /\ e.decision = decision
  BY <1>3 DEF AxisRecords
<1>6. e \in AxisRecords
  <2>1. decision \in Decisions
    BY DEF Decisions
  <2> HIDE DEF decision
  <2> QED BY <1>3, <2>1 DEF AxisRecords
<1>7. node = [Here EXCEPT !.axes = [Here.axes EXCEPT ![i] = e]]
  OBVIOUS
<1>8. Becomes(node)
  BY <1>2
<1>9. decision = IF exhausted THEN "oracle_budget_exhausted" ELSE "node_budget_exhausted"
  OBVIOUS
<1> HIDE DEF node, e, decision
<1>10. /\ node \in NodeRecords /\ DOMAIN node.axes = DOMAIN Here.axes
       /\ \A j \in DOMAIN Here.axes : node.axes[j] = IF j = i THEN e ELSE Here.axes[j]
  <2>1. [Here.axes EXCEPT ![i] = e] \in Seq(AxisRecords)
    BY <1>3, <1>4, <1>6, ExceptSeq
  <2>2. node \in NodeRecords /\ node.axes = [Here.axes EXCEPT ![i] = e]
    BY <1>4, <1>7, <2>1 DEF NodeRecords
  <2> QED BY <2>2
<1>11. Ordered(node.axes)
  <2>1. SUFFICES ASSUME NEW k \in DOMAIN Here.axes, NEW j \in DOMAIN Here.axes,
                        node.axes[k].child # 0
                 PROVE  /\ Refused(node.axes[j]) \/ Waiting(node.axes[j])
                              => node.axes[k].value >= node.axes[j].value
                        /\ node.axes[k].child < node.axes[j].child
                              => node.axes[k].value >= node.axes[j].value
    BY <1>10 DEF Ordered
  <2>2. k # i /\ node.axes[k] = Here.axes[k]
    BY <1>5, <1>10, <2>1
  <2>3. node.axes[j].child = Here.axes[j].child /\ node.axes[j].value = Here.axes[j].value
    BY <1>3, <1>5, <1>10
  <2>4. Refused(node.axes[j]) \/ Waiting(node.axes[j])
           => Refused(Here.axes[j]) \/ Waiting(Here.axes[j])
    BY <1>3, <1>10
  <2> QED BY <1>1, <2>1, <2>2, <2>3, <2>4 DEF Fair, Ordered
<1>12. PICK new : new = node
  OBVIOUS
<1>13. Becomes(new) /\ new \in NodeRecords /\ Ordered(new.axes)
  BY <1>8, <1>10, <1>11, <1>12
<1>14. /\ Len(nodes') = Len(nodes) /\ policy' = policy /\ exhausted' = exhausted
       /\ calls' = calls /\ run = "running"
  BY <1>1, <1>13, HereOK, BecomesOne DEF Withheld
<1>15. ~ exhausted => Len(nodes) = policy.nodes
  BY <1>1 DEF Withheld, WellMade
<1>16. \A j \in DOMAIN new.axes :
          /\ new.axes[j].decision = "node_budget_exhausted" => Len(nodes) = policy.nodes
          /\ new.axes[j].decision = "oracle_budget_exhausted" => exhausted
  <2>1. SUFFICES ASSUME NEW j \in DOMAIN Here.axes
                 PROVE  /\ node.axes[j].decision = "node_budget_exhausted"
                              => Len(nodes) = policy.nodes
                        /\ node.axes[j].decision = "oracle_budget_exhausted" => exhausted
    BY <1>10, <1>12
  <2>2. CASE j = i
    BY <1>5, <1>9, <1>10, <1>15, <2>2
  <2>3. CASE j # i
    BY <1>1, <1>10, <2>3 DEF Fair, Excused
  <2> QED BY <2>2, <2>3
<1>17. \A j \in DOMAIN new.axes : Excused(nodes, new.axes[j])'
  BY <1>14, <1>16 DEF Excused
<1>18. (\A n \in DOMAIN nodes : Fair(nodes, nodes[n].axes))'
  BY <1>13, <1>14, <1>17, FairInPlace
<1>19. IInv'
  BY <1>1, WithheldIInv
<1>20. exhausted' => calls' = policy'.calls
  BY <1>14 DEF OInv
<1> QED BY <1>18, <1>19, <1>20 DEF OInv

\* An axis is taken further only while nothing has been refused, and before all
\* that wait beside it; the concept begun comes after all there are.
LEMMA DeepenedOrdered ==
  ASSUME NEW axes, axes \in Seq(AxisRecords), Ordered(axes), NEW child, child \in Nat,
         \A j \in DOMAIN axes : ~ Refused(axes[j]) /\ axes[j].child < child,
         NEW i \in DOMAIN axes, Waiting(axes[i]), axes[i].value \in Int,
         \A j \in DOMAIN axes : Waiting(axes[j]) =>
            axes[j].value \in Int /\ axes[j].value <= axes[i].value,
         NEW new, DOMAIN new = DOMAIN axes,
         \A j \in DOMAIN axes \ {i} : new[j] = axes[j],
         new[i].decision = "recurse", new[i].child = child, new[i].value = axes[i].value
  PROVE  Ordered(new) /\ \A j \in DOMAIN new : ~ Refused(new[j])
<1>1. \A j \in DOMAIN new : ~ Refused(new[j])
  BY DEF Refused
<1>2. SUFFICES ASSUME NEW k \in DOMAIN axes, NEW j \in DOMAIN axes, new[k].child # 0
               PROVE  /\ Waiting(new[j]) => new[k].value >= new[j].value
                      /\ new[k].child < new[j].child => new[k].value >= new[j].value
  BY <1>1 DEF Ordered
<1>3. axes[j].child \in Nat /\ axes[k].child \in Nat
  <2>1. axes[j] \in AxisRecords /\ axes[k] \in AxisRecords
    OBVIOUS
  <2> QED BY <2>1 DEF AxisRecords
<1>4. ~ Waiting(new[i])
  BY DEF Waiting
<1>5. CASE k = i /\ j = i
  BY <1>4, <1>5
<1>6. CASE k = i /\ j # i
  BY <1>3, <1>6
<1>7. CASE k # i /\ j = i
  BY <1>2, <1>4, <1>7 DEF Ordered
<1>8. CASE k # i /\ j # i
  BY <1>2, <1>8 DEF Ordered
<1> QED BY <1>5, <1>6, <1>7, <1>8

\* The recursion goes to the best of the axes that wait.
LEMMA RecurseOInv ==
  ASSUME OInv, Recurse
  PROVE  OInv'
<1>1. /\ WellMade(nodes) /\ at \in DOMAIN nodes /\ LocalOK(Here)
      /\ Here \in NodeRecords /\ run = "running" /\ Here.step = "allocate"
      /\ policy \in Policy /\ policy.nodes \in Nat /\ Fair(nodes, Here.axes)
  BY HereOK, PolicyTyped DEF OInv, Recurse, Due, Here
<1>2. /\ nodes \in Seq(NodeRecords) /\ DOMAIN nodes = 1 .. Len(nodes) /\ Len(nodes) \in Nat
      /\ at \in 1 .. Len(nodes) /\ Len(nodes) < policy.nodes /\ ~ exhausted
  BY <1>1 DEF WellMade, Recurse
<1>3. PICK i \in Best(Here), size \in Sizes :
         nodes' = Append([nodes EXCEPT ![at].axes[i] =
                             [@ EXCEPT !.decision = "recurse", !.child = Len(nodes) + 1]],
                         Fresh(Here.depth + 1, at, size))
  BY DEF Recurse
<1>4. \A n \in DOMAIN nodes : /\ Ordered(nodes[n].axes)
                              /\ \A j \in DOMAIN nodes[n].axes : ~ Refused(nodes[n].axes[j])
  BY <1>2 DEF OInv, Fair, Excused, Refused
<1>5. PICK node : node = [Here EXCEPT !.axes[i] =
                             [@ EXCEPT !.decision = "recurse", !.child = Len(nodes) + 1]]
  OBVIOUS
<1>6. PICK fresh : fresh = Fresh(Here.depth + 1, at, size)
  OBVIOUS
<1>7. nodes' = Append([nodes EXCEPT ![at] = node], fresh)
  BY <1>3, <1>5, <1>6 DEF Here
<1>8. fresh \in NodeRecords /\ fresh.axes = <<>>
  <2>1. i \in Pending(Here)
    BY DEF Best
  <2>2. Here.depth + 1 \in Nat /\ Here.depth + 1 <= policy.depth /\ at \in Nat
    BY <1>1, <1>2, <2>1, PendingAxis, LocalTypes
  <2> QED BY <1>1, <1>6, <2>2, FreshOK
<1>9. i \in DOMAIN Here.axes /\ Waiting(Here.axes[i]) /\ Here.axes[i] \in AxisRecords
  BY <1>1, PendingAxis DEF Best, Pending, Waiting
<1>10. LocalOK(node)
  <2>1. i \in Pending(Here) /\ Len(nodes) + 1 \in Nat \ {0}
    BY <1>2 DEF Best
  <2>2. Deepened(Here, node, i, Len(nodes) + 1)
    BY <1>5 DEF Deepened
  <2> QED BY <1>1, <2>1, <2>2, DeepenedOK
<1>11. /\ Len(nodes') = Len(nodes) + 1 /\ DOMAIN nodes' = 1 .. Len(nodes) + 1
       /\ nodes'[Len(nodes) + 1] = fresh
       /\ \A n \in DOMAIN nodes : nodes'[n] = IF n = at THEN node ELSE nodes[n]
  <2>1. PICK begun : begun = [nodes EXCEPT ![at] = node]
    OBVIOUS
  <2>2. /\ begun \in Seq(NodeRecords) /\ Len(begun) = Len(nodes)
        /\ \A n \in 1 .. Len(nodes) : begun[n] = IF n = at THEN node ELSE nodes[n]
    BY <1>2, <1>10, <2>1, ExceptSeq DEF LocalOK
  <2> QED BY <1>2, <1>7, <1>8, <2>1, <2>2, AppendProperties
<1>12. Ordered(node.axes) /\ \A j \in DOMAIN node.axes : ~ Refused(node.axes[j])
  <2>0. PICK child \in Nat : child = Len(nodes) + 1
    BY <1>2
  <2>1. Here.axes \in Seq(AxisRecords) /\ Ordered(Here.axes)
    BY <1>1, LocalTypes DEF Fair
  <2>2. \A j \in DOMAIN Here.axes : ~ Refused(Here.axes[j]) /\ Here.axes[j].child < child
    <3>1. ASSUME NEW j \in DOMAIN Here.axes
          PROVE  Here.axes[j].child < Len(nodes) + 1
      BY <1>1, <1>2 DEF WellMade, Linked, Here
    <3> QED BY <1>4, <1>1, <2>0, <3>1 DEF Here
  <2>3. \A j \in DOMAIN Here.axes : Waiting(Here.axes[j]) =>
           Here.axes[j].value \in Int /\ Here.axes[j].value <= Here.axes[i].value
    BY <1>1, PendingAxis DEF Best, Pending, Waiting
  <2>4. /\ DOMAIN node.axes = DOMAIN Here.axes
        /\ \A j \in DOMAIN Here.axes \ {i} : node.axes[j] = Here.axes[j]
        /\ node.axes[i] = [Here.axes[i] EXCEPT !.decision = "recurse", !.child = child]
    BY <1>1, <1>5, <1>9, <2>0, <2>1 DEF NodeRecords
  <2>5. /\ node.axes[i].decision = "recurse" /\ node.axes[i].child = child
        /\ node.axes[i].value = Here.axes[i].value
    BY <1>9, <2>4 DEF AxisRecords
  <2>6. Here.axes[i].value \in Int
    BY <1>9, <2>3
  <2>7. PICK axes, new : axes = Here.axes /\ new = node.axes
    OBVIOUS
  <2>8. Ordered(new) /\ \A j \in DOMAIN new : ~ Refused(new[j])
    <3>1. axes \in Seq(AxisRecords) /\ Ordered(axes) /\ child \in Nat
      BY <2>1, <2>7
    <3>2. \A j \in DOMAIN axes : ~ Refused(axes[j]) /\ axes[j].child < child
      BY <2>2, <2>7
    <3>3. i \in DOMAIN axes /\ Waiting(axes[i]) /\ axes[i].value \in Int
      BY <1>9, <2>6, <2>7
    <3>4. \A j \in DOMAIN axes : Waiting(axes[j]) =>
             axes[j].value \in Int /\ axes[j].value <= axes[i].value
      BY <2>3, <2>7
    <3>5. /\ DOMAIN new = DOMAIN axes
          /\ \A j \in DOMAIN axes \ {i} : new[j] = axes[j]
          /\ new[i].decision = "recurse" /\ new[i].child = child
          /\ new[i].value = axes[i].value
      BY <2>4, <2>5, <2>7
    <3> QED BY <3>1, <3>2, <3>3, <3>4, <3>5, DeepenedOrdered
  <2> QED BY <2>7, <2>8
<1>13. \A n \in DOMAIN nodes' :
          /\ Ordered(nodes'[n].axes)
          /\ \A j \in DOMAIN nodes'[n].axes : ~ Refused(nodes'[n].axes[j])
  <2>1. ASSUME NEW n \in DOMAIN nodes
        PROVE  /\ Ordered(nodes'[n].axes)
               /\ \A j \in DOMAIN nodes'[n].axes : ~ Refused(nodes'[n].axes[j])
    BY <1>4, <1>11, <1>12
  <2>2. Ordered(fresh.axes) /\ DOMAIN fresh.axes = {}
    BY <1>8 DEF Ordered
  <2> QED BY <1>2, <1>11, <2>1, <2>2
<1>14. (\A n \in DOMAIN nodes : Fair(nodes, nodes[n].axes))'
  BY <1>13 DEF Fair, Ordered, Refused, Waiting, Excused
<1>15. IInv'
  BY RecurseIInv DEF OInv
<1>16. exhausted' => calls' = policy'.calls
  BY DEF OInv, Recurse
<1> QED BY <1>14, <1>15, <1>16 DEF OInv

\* The end of a concept leaves all axes as they are.
LEMMA CloseOInv ==
  ASSUME OInv, Close
  PROVE  OInv'
<1>1. /\ IInv /\ LocalOK(Here) /\ Here \in NodeRecords /\ run = "running" /\ policy \in Policy
      /\ WellMade(nodes) /\ at \in DOMAIN nodes /\ Fair(nodes, Here.axes)
      /\ Here.step = "allocate"
  BY HereOK, PolicyTyped DEF OInv, Close, Due, Here
<1>2. PICK node : node = [Here EXCEPT !.status = Status(Here), !.step = "done"]
  OBVIOUS
<1>3. node.axes = Here.axes /\ node \in NodeRecords
  <2>1. Concluding(Here, node)
    BY <1>2 DEF Concluding
  <2>2. LocalOK(node)
    BY <1>1, <2>1, ConcludedOK DEF Close
  <2> QED BY <1>1, <1>2, <2>2 DEF LocalOK, NodeRecords
<1>4. Becomes(node) /\ policy' = policy /\ exhausted' = exhausted /\ calls' = calls
  BY <1>2 DEF Close, Closed, Becomes
<1>5. Len(nodes') = Len(nodes)
  BY <1>1, <1>3, <1>4, BecomesOne
<1>6. Ordered(node.axes) /\ \A i \in DOMAIN node.axes : Excused(nodes, node.axes[i])'
  BY <1>1, <1>3, <1>4, <1>5 DEF Fair, Excused
<1>7. (\A n \in DOMAIN nodes : Fair(nodes, nodes[n].axes))'
  BY <1>1, <1>3, <1>4, <1>6, FairInPlace
<1>8. IInv' /\ (exhausted' => calls' = policy'.calls)
  BY <1>1, <1>4, CloseIInv DEF OInv
<1> QED BY <1>7, <1>8 DEF OInv

\* A new run has no axes yet.
LEMMA DecomposeOInv ==
  ASSUME OInv, Decompose
  PROVE  OInv'
<1>1. IInv' /\ exhausted' = FALSE
  BY DecomposeIInv DEF OInv, Decompose
<1>2. DOMAIN nodes' = {1} /\ nodes'[1].axes = <<>>
  BY DEF Decompose, Fresh
<1>3. (\A n \in DOMAIN nodes : Fair(nodes, nodes[n].axes))'
  BY <1>2 DEF Fair, Ordered, Excused
<1> QED BY <1>1, <1>3 DEF OInv

\* What leaves the concepts alone keeps it.
LEMMA StillOInv ==
  ASSUME OInv, IInv', UNCHANGED <<policy, nodes, calls, exhausted>>
  PROVE  OInv'
  BY DEF OInv, Fair, Ordered, Refused, Waiting, Excused

\* Every step preserves it.
LEMMA NextOInv ==
  ASSUME OInv, [Next]_vars
  PROVE  OInv'
<1>1. IInv /\ IInv'
  BY NextIInv DEF OInv
<1>2. CASE Decompose
  BY <1>2, DecomposeOInv
<1>3. CASE Generate \/ Assess \/ Check \/ Search \/ Retest \/ Probe \/ Route \/ Value
  <2>1. Question
    BY <1>1, <1>3, GenerateAsks, AssessAsks, CheckAsks, SearchAsks, RetestAsks, ProbeAsks,
       RouteAsks, ValueAsks
  <2> QED BY <2>1, QuestionOInv
<1>4. CASE Withheld
  BY <1>4, WithheldOInv
<1>5. CASE Recurse
  BY <1>5, RecurseOInv
<1>6. CASE Close
  BY <1>6, CloseOInv
<1>7. CASE Fail
  BY <1>1, <1>7, StillOInv DEF Fail
<1>8. CASE UNCHANGED vars
  BY <1>1, <1>8, StillOInv DEF vars
<1> QED BY <1>2, <1>3, <1>4, <1>5, <1>6, <1>7, <1>8 DEF Next, Step

\* For every configuration and every sequence of answers, _allocate_axes gives the
\* budget of concepts to the highest ratios of a concept's axes, and leaves an axis
\* worth its cost alone only when a budget is really used up.
THEOREM BudgetsGoToTheBest == Spec => []BestFirst
<1>1. Init => OInv
  BY InitIInv DEF Init, OInv
<1>2. OInv => BestFirst
  BY DEF OInv, BestFirst, Fair, Ordered, Excused
<1> QED BY <1>1, NextOInv, <1>2, PTL DEF Spec

-----------------------------------------------------------------------------
(* What becomes of a proposal *)

\* A concept waits for no question but the one its step says, says that its probes
\* were provided only if they were, and has none without axes to route them to.
Tidy(node) ==
    /\ node.pending > 0 => node.step = "assess"
    /\ node.left > 0 => node.step = "route"
    /\ node.source = "provided" => Provided(node)
    /\ node.axes = <<>> => node.probes = 0 /\ node.left = 0

\* A run that ended with a proposal concluded all of its concepts.
Finished ==
    run = "proposed" =>
        /\ \A n \in DOMAIN nodes : ~ Open(nodes, n)
        /\ nodes[1].status = "budget_exhausted" <=> exhausted

TInv ==
    /\ IInv
    /\ run # "idle" => \A n \in DOMAIN nodes : Tidy(nodes[n])
    /\ Finished

\* A concept that waits for no answer stays tidy if nothing but its place in the
\* sequence of questions, and its axes, changes.
LEMMA TidyKept ==
  ASSUME policy \in Policy, NEW node, LocalOK(node), Tidy(node),
         node.left = 0, NEW new, new.left = 0, new.pending = 0 \/ new.step = "assess",
         new.source = node.source, new.depth = node.depth, new.probes = node.probes,
         new.axes = <<>> => node.axes = <<>>
  PROVE  Tidy(new)
  BY DEF Tidy, Provided

\* Probes are set out for routing, and none if there are no axes.
LEMMA TidyRouting ==
  ASSUME NEW node \in NodeRecords, NEW k \in Nat, node.pending = 0,
         node.source = "provided" => Provided(node),
         node.axes = <<>> => node.probes = 0 /\ k = 0,
         NEW new, new = Routing(node, k)
  PROVE  Tidy(new)
<1>1. PICK step \in Steps :
         new = [node EXCEPT !.left = k, !.step = step] /\ (k > 0 => step = "route")
  BY DEF Routing, Steps, Early
<1>2. /\ new.left = k /\ new.step = step /\ new.pending = node.pending /\ new.axes = node.axes
      /\ new.source = node.source /\ new.depth = node.depth /\ new.probes = node.probes
  BY <1>1 DEF NodeRecords
<1> QED BY <1>1, <1>2 DEF Tidy, Provided

\* The questions that come before the probes: candidates wait to be tested, and
\* nothing else.
LEMMA TidyGenerate ==
  ASSUME policy \in Policy, NEW node, LocalOK(node), Tidy(node), node.step = "generate",
         NEW new, Generated(node, new)
  PROVE  Tidy(new)
<1>1. node \in NodeRecords /\ node.left = 0
  BY LocalTypes DEF Tidy
<1>2. /\ new.step = "assess" /\ new.left = 0 /\ new.source = node.source
      /\ new.depth = node.depth /\ new.probes = node.probes /\ new.axes = node.axes
  BY <1>1 DEF Generated, NodeRecords
<1> QED BY <1>1, <1>2, TidyKept

\* A candidate that is tested waits no more, and no axis is taken away by it.
LEMMA TidyAssess ==
  ASSUME policy \in Policy, NEW node, LocalOK(node), Tidy(node), node.step = "assess",
         NEW new, Failed(node, new) \/ Passed(node, new) \/ Dropped(node, new)
  PROVE  Tidy(new)
<1>1. node \in NodeRecords /\ node.left = 0 /\ node.axes \in Seq(AxisRecords)
  BY LocalTypes DEF Tidy
<1>2. /\ new.step = "assess" /\ new.left = 0 /\ new.source = node.source
      /\ new.depth = node.depth /\ new.probes = node.probes
  BY <1>1 DEF Failed, Passed, Dropped, NodeRecords
<1>3. new.axes = node.axes \/ new.axes = Append(node.axes, Axis)
  BY <1>1 DEF Failed, Passed, Dropped, NodeRecords
<1>4. Append(node.axes, Axis) # <<>>
  BY <1>1, AxisTyped, AppendProperties
<1> QED BY <1>1, <1>2, <1>3, <1>4, TidyKept

\* Completeness is judged once no candidate waits.
LEMMA TidyCheck ==
  ASSUME policy \in Policy, NEW node, LocalOK(node), Tidy(node), node.step # "route",
         node.step = "assess" => node.pending = 0,
         NEW new, Judgement(node, new) \/ NoJudgement(node, new)
  PROVE  Tidy(new)
<1>1. node \in NodeRecords /\ node.left = 0 /\ node.pending = 0
  BY LocalTypes DEF Tidy
<1>2. PICK step, checks, complete :
         new = [node EXCEPT !.checks = checks, !.complete = complete, !.step = step]
  <2>1. CASE Judgement(node, new)
    BY <2>1 DEF Judgement
  <2>2. CASE NoJudgement(node, new)
    <3>1. new = [node EXCEPT !.checks = node.checks, !.complete = node.complete,
                             !.step = "probe"]
      BY <1>1, <2>2 DEF NoJudgement, NodeRecords
    <3> QED BY <3>1
  <2> QED BY <2>1, <2>2
<1>3. /\ new.pending = 0 /\ new.left = 0 /\ new.source = node.source
      /\ new.depth = node.depth /\ new.probes = node.probes /\ new.axes = node.axes
  BY <1>1, <1>2 DEF NodeRecords
<1> QED BY <1>1, <1>3, TidyKept

\* The search for a missing dimension leaves axes and probes alone.
LEMMA TidySearch ==
  ASSUME policy \in Policy, NEW node, LocalOK(node), Tidy(node), node.step = "search",
         NEW new, Searched(node, new)
  PROVE  Tidy(new)
<1>1. node \in NodeRecords /\ node.left = 0 /\ node.pending = 0
  BY LocalTypes DEF Tidy
<1>2. /\ new.pending = 0 /\ new.left = 0 /\ new.source = node.source
      /\ new.depth = node.depth /\ new.probes = node.probes /\ new.axes = node.axes
  BY <1>1 DEF Searched, NodeRecords
<1> QED BY <1>1, <1>2, TidyKept

\* The test of the dimension found adds an axis at most.
LEMMA TidyRetest ==
  ASSUME policy \in Policy, NEW node, LocalOK(node), Tidy(node), node.step = "retest",
         NEW new, Retested(node, new) \/ Found(node, new)
  PROVE  Tidy(new)
<1>1. /\ node \in NodeRecords /\ node.left = 0 /\ node.pending = 0
      /\ node.axes \in Seq(AxisRecords)
  BY LocalTypes DEF Tidy
<1>2. /\ new.pending = 0 /\ new.left = 0 /\ new.source = node.source
      /\ new.depth = node.depth /\ new.probes = node.probes
  BY <1>1 DEF Retested, Found, NodeRecords
<1>3. new.axes = node.axes \/ new.axes = Append(node.axes, Axis)
  BY <1>1 DEF Retested, Found, NodeRecords
<1>4. Append(node.axes, Axis) # <<>>
  BY <1>1, AxisTyped, AppendProperties
<1> QED BY <1>1, <1>2, <1>3, <1>4, TidyKept

\* A probe is routed only where there is an axis to route it to.
LEMMA TidyRoute ==
  ASSUME policy \in Policy, NEW node, LocalOK(node), Tidy(node), node.step = "route",
         NEW new, RoutedOne(node, new) \/ NotRouted(node, new)
  PROVE  Tidy(new)
<1>1. /\ node \in NodeRecords /\ node.left \in Nat /\ node.left > 0
      /\ node.probes + 1 \in Nat /\ node.pending = 0
  BY LocalTypes DEF Tidy, LocalOK, Probed
<1>2. node.axes # <<>>
  BY <1>1 DEF Tidy
<1>3. CASE NotRouted(node, new)
  BY <1>1, <1>2, <1>3, TidyRouting DEF NotRouted, Tidy
<1>4. CASE RoutedOne(node, new)
  <2>1. PICK clean \in BOOLEAN :
           new = Routing([node EXCEPT !.probes = @ + 1, !.clean = clean], node.left - 1)
    BY <1>4 DEF RoutedOne
  <2> DEFINE mid == [node EXCEPT !.probes = @ + 1, !.clean = clean]
  <2>2. mid \in NodeRecords
    BY <1>1 DEF NodeRecords
  <2>3. mid.pending = node.pending /\ mid.source = node.source
    BY <1>1 DEF NodeRecords
  <2>4. mid.depth = node.depth /\ mid.axes = node.axes
    BY <1>1 DEF NodeRecords
  <2>5. new = Routing(mid, node.left - 1) /\ node.left - 1 \in Nat
    BY <1>1, <2>1
  <2> HIDE DEF mid
  <2> QED BY <1>1, <1>2, <2>2, <2>3, <2>4, <2>5, TidyRouting DEF Tidy, Provided
<1> QED BY <1>3, <1>4

\* What is known of a concept's axes and of its children leaves it tidy.
LEMMA TidyAxes ==
  ASSUME policy \in Policy, NEW node, LocalOK(node), Tidy(node),
         node.step \in {"value", "allocate"},
         NEW i \in DOMAIN node.axes, NEW e, NEW step,
         NEW new, new = [node EXCEPT !.axes[i] = e, !.step = step]
  PROVE  Tidy(new)
<1>1. node \in NodeRecords /\ node.left = 0 /\ node.pending = 0
  BY LocalTypes DEF Tidy
<1>2. /\ new.pending = 0 /\ new.left = 0 /\ new.source = node.source
      /\ new.depth = node.depth /\ new.probes = node.probes
      /\ new.axes = [node.axes EXCEPT ![i] = e]
  BY <1>1 DEF NodeRecords
<1>3. new.axes # <<>>
  <2>1. DOMAIN new.axes # DOMAIN <<>>
    BY <1>2
  <2> QED BY <2>1
<1> QED BY <1>1, <1>2, <1>3, TidyKept

\* A concept is tidy if it is only taken to its next question, or concluded.
LEMMA TidyStep ==
  ASSUME policy \in Policy, NEW node, LocalOK(node), Tidy(node),
         node.step \in {"value", "allocate"}, NEW step, NEW status,
         NEW new, new = [node EXCEPT !.status = status, !.step = step]
  PROVE  Tidy(new)
<1>1. node \in NodeRecords /\ node.left = 0 /\ node.pending = 0
  BY LocalTypes DEF Tidy
<1>2. /\ new.pending = 0 /\ new.left = 0 /\ new.source = node.source
      /\ new.depth = node.depth /\ new.probes = node.probes /\ new.axes = node.axes
  BY <1>1 DEF NodeRecords
<1> QED BY <1>1, <1>2, TidyKept

\* A concept is begun tidy.
LEMMA TidyFresh ==
  ASSUME NEW depth, NEW parent, NEW size
  PROVE  Tidy(Fresh(depth, parent, size))
  BY DEF Tidy, Fresh

\* A question leaves the concepts other than the one in hand alone, and that one tidy.
LEMMA TidyInPlace ==
  ASSUME IInv, run = "running", \A n \in DOMAIN nodes : Tidy(nodes[n]),
         feed' = feed, policy' = policy, NEW node \in NodeRecords, Becomes(node), Tidy(node)
  PROVE  (\A n \in DOMAIN nodes : Tidy(nodes[n]))'
<1>1. /\ DOMAIN nodes' = DOMAIN nodes
      /\ \A n \in DOMAIN nodes : nodes'[n] = IF n = at THEN node ELSE nodes[n]
  BY HereOK, BecomesOne
<1>2. \A n \in DOMAIN nodes' : Tidy(nodes'[n])
  BY <1>1
<1> QED BY <1>2 DEF Tidy, Provided

\* A question leaves the concept in hand tidy.
LEMMA QuestionTidy ==
  ASSUME TInv, Generate \/ Assess \/ Check \/ Search \/ Retest \/ Probe \/ Route \/ Value
  PROVE  \E node \in NodeRecords : Becomes(node) /\ Tidy(node)
<1>1. /\ IInv /\ run = "running" /\ policy \in Policy /\ LocalOK(Here) /\ Here \in NodeRecords
      /\ Tidy(Here)
  BY HereOK, PolicyTyped
     DEF TInv, Here, Generate, Assess, Check, Search, Retest, Probe, Route, Value, Due
<1> SUFFICES \E node : Becomes(node) /\ Tidy(node) /\ Moves(Here, node)
  BY DEF Moves, LocalOK
<1>2. CASE Generate
  <2>1. PICK node : Becomes(node) /\ Generated(Here, node)
    BY <1>2 DEF Generate, Generated
  <2> QED BY <1>1, <1>2, <2>1, GenerateMoves, TidyGenerate DEF Generate, Due
<1>3. CASE Assess
  <2>1. PICK node :
           Becomes(node) /\ (Failed(Here, node) \/ Passed(Here, node) \/ Dropped(Here, node))
    BY <1>3 DEF Assess, Judged, Failed, Passed, Dropped
  <2> QED BY <1>1, <1>3, <2>1, AssessMoves, TidyAssess DEF Assess, Due
<1>4. CASE Check
  <2>1. PICK node : Becomes(node) /\ (Judgement(Here, node) \/ NoJudgement(Here, node))
    BY <1>4 DEF Check, Judgement, NoJudgement
  <2> QED BY <1>1, <1>4, <2>1, CheckMoves, TidyCheck DEF Check, Due
<1>5. CASE Search
  <2>1. PICK node : Becomes(node) /\ Searched(Here, node)
    <3>1. CASE Denied
      BY <1>5, <3>1, PolicyTyped DEF Search, Searched
    <3>2. ASSUME NEW found \in BOOLEAN,
                 Becomes([Here EXCEPT !.retries = @ + 1,
                             !.step = IF found THEN "retest" ELSE "check"])
          PROVE  \E node : Becomes(node) /\ Searched(Here, node)
      <4>1. (IF found THEN "retest" ELSE "check") \in {"retest", "check", "probe"}
        OBVIOUS
      <4> QED BY <3>2, <4>1 DEF Searched
    <3> QED BY <1>5, <3>1, <3>2 DEF Search, Searched
  <2> QED BY <1>1, <1>5, <2>1, SearchMoves, TidySearch DEF Search, Due
<1>6. CASE Retest
  <2>1. PICK node : Becomes(node) /\ (Retested(Here, node) \/ Found(Here, node))
    BY <1>6 DEF Retest, Judged, Retested, Found
  <2> QED BY <1>1, <1>6, <2>1, RetestMoves, TidyRetest DEF Retest, Due
<1>7. CASE Probe
  <2> DEFINE source == IF Provided(Here) THEN "provided" ELSE Here.source
             mid == [Here EXCEPT !.source = source]
  <2>1. source \in {"oracle_generated", "provided"} /\ policy.probes \in Nat
    BY <1>1, PolicyTyped DEF NodeRecords
  <2>2. PICK k \in 0 .. policy.probes :
           Becomes(Routing(mid, k)) /\ (Here.axes = <<>> => k = 0)
    <3>1. mid.axes = Here.axes
      BY <1>1 DEF NodeRecords
    <3>2. /\ \A k \in Given(Here) : k \in 0 .. policy.probes /\ (Here.axes = <<>> => k = 0)
          /\ 0 \in 0 .. policy.probes
      BY <2>1 DEF Given
    <3> QED BY <1>7, <3>2 DEF Probe
  <2>3. /\ mid \in NodeRecords /\ mid.pending = Here.pending /\ mid.depth = Here.depth
        /\ mid.axes = Here.axes /\ mid.probes = Here.probes /\ mid.source = source
    BY <1>1, <2>1 DEF NodeRecords
  <2>4. mid.source = "provided" => Provided(mid)
    BY <1>1, <2>3 DEF Tidy, Provided
  <2>5. Supplied(Here, Routing(mid, k))
    BY <2>1 DEF Supplied
  <2>6. PICK node : node = Routing(mid, k)
    OBVIOUS
  <2>7. Here.step = "probe" /\ Here.pending = 0 /\ k \in Nat
    BY <1>1, <1>7, <2>1, LocalTypes DEF Probe, Due, Tidy
  <2>8. mid.axes = <<>> => mid.probes = 0 /\ k = 0
    BY <1>1, <2>2, <2>3 DEF Tidy
  <2> HIDE DEF mid, source
  <2>9. Tidy(node)
    BY <2>3, <2>4, <2>6, <2>7, <2>8, TidyRouting
  <2>10. Moves(Here, node) /\ Becomes(node)
    BY <1>1, <2>2, <2>5, <2>6, <2>7, ProbeMoves
  <2> QED BY <2>9, <2>10
<1>8. CASE Route
  <2>1. PICK node : Becomes(node) /\ (RoutedOne(Here, node) \/ NotRouted(Here, node))
    <3>1. ASSUME NEW single \in BOOLEAN,
                 Becomes(Routing([Here EXCEPT !.probes = @ + 1, !.clean = @ /\ single],
                                 Here.left - 1))
          PROVE  \E node : Becomes(node) /\ RoutedOne(Here, node)
      <4>1. (Here.clean /\ single) \in BOOLEAN
        OBVIOUS
      <4> QED BY <3>1, <4>1 DEF RoutedOne
    <3> QED BY <1>8, <3>1 DEF Route, NotRouted
  <2> QED BY <1>1, <1>8, <2>1, RouteMoves, TidyRoute DEF Route, Due
<1>9. CASE Value
  <2> DEFINE i == CHOOSE k \in DOMAIN Here.axes :
                     /\ Here.axes[k].value = None
                     /\ \A j \in 1 .. k - 1 : Here.axes[j].value # None
  <2>1. Here.step = "value"
    BY <1>9 DEF Value, Due
  <2>2. /\ i \in DOMAIN Here.axes
        /\ \A j \in DOMAIN Here.axes :
              (j < i => Here.axes[j].value # None) /\ (j >= i => Here.axes[j] = Axis)
    BY <1>1, <2>1, FirstUnvalued
  <2>3. \/ \E value \in Ratios \cup {Unknown}, number \in Numbers : \E node :
              /\ Readable(number)
              /\ Becomes(node) /\ Estimated(Here, node, i, value, number)
        \/ Becomes([Here EXCEPT !.step = "allocate"])
    BY <1>9 DEF Value, Estimated
  <2> HIDE DEF i
  <2>4. ASSUME NEW value \in Ratios \cup {Unknown}, NEW number \in Numbers, NEW node,
               Estimated(Here, node, i, value, number)
        PROVE  Tidy(node)
    BY <1>1, <2>1, <2>2, <2>4, TidyAxes DEF Estimated
  <2>5. Tidy([Here EXCEPT !.step = "allocate"])
    <3>1. [Here EXCEPT !.step = "allocate"]
             = [Here EXCEPT !.status = Here.status, !.step = "allocate"]
      BY <1>1 DEF NodeRecords
    <3> QED BY <1>1, <2>1, <3>1, TidyStep
  <2> QED BY <1>1, <2>1, <2>2, <2>3, <2>4, <2>5, EstimatedMoves, NotEstimatedMoves
<1> QED BY <1>2, <1>3, <1>4, <1>5, <1>6, <1>7, <1>8, <1>9

\* While a run goes on, it is not finished.
LEMMA QuestionTInv ==
  ASSUME TInv, Generate \/ Assess \/ Check \/ Search \/ Retest \/ Probe \/ Route \/ Value
  PROVE  TInv'
<1>1. Question
  BY GenerateAsks, AssessAsks, CheckAsks, SearchAsks, RetestAsks, ProbeAsks, RouteAsks, ValueAsks
     DEF TInv
<1>2. run = "running" /\ run' = run /\ feed' = feed /\ policy' = policy
  BY <1>1 DEF Question, Same
<1>3. PICK node \in NodeRecords : Becomes(node) /\ Tidy(node)
  BY QuestionTidy
<1>4. (\A n \in DOMAIN nodes : Tidy(nodes[n]))'
  BY <1>2, <1>3, TidyInPlace DEF TInv
<1> QED BY <1>1, <1>2, <1>4, QuestionIInv DEF TInv, Finished

\* A budget that is refused is refused to an axis.
LEMMA WithheldTInv ==
  ASSUME TInv, Withheld
  PROVE  TInv'
<1>1. /\ IInv /\ run = "running" /\ policy \in Policy /\ LocalOK(Here) /\ Here \in NodeRecords
      /\ Tidy(Here) /\ Here.step = "allocate"
  BY HereOK, PolicyTyped DEF TInv, Here, Withheld, Due
<1>2. PICK i \in Best(Here), decision \in {"oracle_budget_exhausted", "node_budget_exhausted"} :
         Becomes([Here EXCEPT !.axes[i].decision = decision])
  BY DEF Withheld
<1>3. i \in Pending(Here) /\ i \in DOMAIN Here.axes
  BY DEF Best, Pending
<1>4. PICK node : node = [Here EXCEPT !.axes[i].decision = decision]
  OBVIOUS
<1>5. node \in NodeRecords
  BY <1>1, <1>3, <1>4, WithheldMoves DEF Refusal, Moves, LocalOK
<1>6. node = [Here EXCEPT !.axes[i] = [Here.axes[i] EXCEPT !.decision = decision],
                          !.step = "allocate"]
  BY <1>1, <1>4 DEF NodeRecords
<1>7. Tidy(node)
  BY <1>1, <1>3, <1>6, TidyAxes
<1>8. feed' = feed /\ policy' = policy /\ run' = run
  BY DEF Withheld
<1>9. (\A n \in DOMAIN nodes : Tidy(nodes[n]))'
  BY <1>1, <1>2, <1>4, <1>5, <1>7, <1>8, TidyInPlace DEF TInv
<1> QED BY <1>1, <1>8, <1>9, WithheldIInv DEF TInv, Finished

\* The concept begun is tidy, and the one it was begun from stays so.
LEMMA RecurseTInv ==
  ASSUME TInv, Recurse
  PROVE  TInv'
<1>1. /\ IInv /\ run = "running" /\ policy \in Policy /\ LocalOK(Here) /\ Here \in NodeRecords
      /\ Tidy(Here) /\ Here.step = "allocate" /\ WellMade(nodes) /\ at \in DOMAIN nodes
  BY HereOK, PolicyTyped DEF TInv, Here, Recurse, Due
<1>2. nodes \in Seq(NodeRecords) /\ at \in 1 .. Len(nodes) /\ Len(nodes) \in Nat
  BY <1>1 DEF WellMade
<1>3. PICK i \in Best(Here), size \in Sizes :
         nodes' = Append([nodes EXCEPT ![at].axes[i] =
                             [@ EXCEPT !.decision = "recurse", !.child = Len(nodes) + 1]],
                         Fresh(Here.depth + 1, at, size))
  BY DEF Recurse
<1>4. i \in Pending(Here) /\ i \in DOMAIN Here.axes
  BY DEF Best, Pending
<1>5. PICK axis : axis = [Here.axes[i] EXCEPT !.decision = "recurse", !.child = Len(nodes) + 1]
  OBVIOUS
<1>6. PICK node : node = [Here EXCEPT !.axes[i] = axis]
  OBVIOUS
<1>7. node \in NodeRecords
  <2>1. Len(nodes) + 1 \in Nat \ {0} /\ Deepened(Here, node, i, Len(nodes) + 1)
    BY <1>2, <1>5, <1>6 DEF Deepened
  <2> QED BY <1>1, <1>4, <2>1, DeepenedOK DEF LocalOK
<1>8. Tidy(node)
  <2>1. node = [Here EXCEPT !.axes[i] = axis, !.step = "allocate"]
    BY <1>1, <1>6 DEF NodeRecords
  <2> QED BY <1>1, <1>4, <2>1, TidyAxes
<1>9. PICK fresh : fresh = Fresh(Here.depth + 1, at, size)
  OBVIOUS
<1>10. Tidy(fresh)
  BY <1>9, TidyFresh
<1>11. nodes' = Append([nodes EXCEPT ![at] = node], fresh)
  BY <1>3, <1>5, <1>6, <1>9 DEF Here
<1>12. PICK tree : tree = [nodes EXCEPT ![at] = node]
  OBVIOUS
<1>13. /\ tree \in Seq(NodeRecords) /\ Len(tree) = Len(nodes) /\ DOMAIN tree = 1 .. Len(nodes)
       /\ \A n \in DOMAIN tree : tree[n] = IF n = at THEN node ELSE nodes[n]
  BY <1>2, <1>7, <1>12, ExceptSeq
<1>14. \A n \in DOMAIN tree : Tidy(tree[n])
  BY <1>1, <1>2, <1>8, <1>13 DEF TInv
<1>15. /\ DOMAIN nodes' = 1 .. Len(tree) + 1 /\ nodes'[Len(tree) + 1] = fresh
       /\ \A n \in 1 .. Len(tree) : nodes'[n] = tree[n]
  BY <1>11, <1>12, <1>13
<1>16. \A n \in DOMAIN nodes' : Tidy(nodes'[n])
  BY <1>2, <1>10, <1>13, <1>14, <1>15
<1>17. feed' = feed /\ policy' = policy /\ run' = run
  BY DEF Recurse
<1>18. (\A n \in DOMAIN nodes : Tidy(nodes[n]))'
  BY <1>16, <1>17 DEF Tidy, Provided
<1> QED BY <1>1, <1>17, <1>18, RecurseIInv DEF TInv, Finished

\* When the root is concluded, no other concept is open, and the root's status says
\* whether questions ran out.
LEMMA CloseTInv ==
  ASSUME TInv, Close
  PROVE  TInv'
<1>1. /\ IInv /\ run = "running" /\ policy \in Policy /\ LocalOK(Here) /\ Here \in NodeRecords
      /\ Tidy(Here) /\ Here.step = "allocate" /\ WellMade(nodes) /\ at \in DOMAIN nodes
      /\ Chain(nodes, at) /\ Pending(Here) = {}
  BY HereOK, PolicyTyped DEF TInv, Here, Close, Due
<1>2. PICK node : node = [Here EXCEPT !.status = Status(Here), !.step = "done"]
  OBVIOUS
<1>3. node \in NodeRecords /\ node.step = "done" /\ node.status = Status(Here)
  BY <1>1, <1>2, ConcludedOK DEF Concluding, LocalOK
<1>4. Tidy(node)
  BY <1>1, <1>2, TidyStep
<1>5. Becomes(node) /\ policy' = policy /\ feed' = feed /\ exhausted' = exhausted
  BY <1>2 DEF Close, Closed, Becomes
<1>6. (\A n \in DOMAIN nodes : Tidy(nodes[n]))'
  BY <1>1, <1>3, <1>4, <1>5, TidyInPlace DEF TInv
<1>7. ASSUME run' = "proposed"
      PROVE  /\ \A n \in DOMAIN nodes' : nodes'[n].step = "done"
             /\ nodes'[1].status = "budget_exhausted" <=> exhausted'
  <2>1. Here.parent = 0
    BY <1>7 DEF Close
  <2>2. at = 1
    BY <1>1, <2>1 DEF Chain, Here
  <2>3. \A n \in DOMAIN nodes : n # at => nodes[n].step = "done"
    BY <1>1, <2>2 DEF Chain, Open, WellMade
  <2>4. /\ DOMAIN nodes' = DOMAIN nodes
        /\ \A n \in DOMAIN nodes : nodes'[n] = IF n = at THEN node ELSE nodes[n]
    BY <1>1, <1>3, <1>5, BecomesOne
  <2>5. Status(Here) = "budget_exhausted" <=> exhausted
    BY DEF Status, Evident
  <2> QED BY <1>1, <1>3, <1>5, <2>2, <2>3, <2>4, <2>5
<1> QED BY <1>1, <1>6, <1>7, CloseIInv DEF TInv, Finished, Open

\* A new run begins with a tidy root.
LEMMA DecomposeTInv ==
  ASSUME TInv, Decompose
  PROVE  TInv'
<1>1. PICK size \in Sizes : IInv' /\ run' = "running" /\ nodes' = <<Fresh(0, 0, size)>>
  BY DecomposeIInv DEF TInv, Decompose
<1>2. PICK fresh : fresh = Fresh(0, 0, size)
  OBVIOUS
<1>3. fresh.pending = 0 /\ fresh.left = 0 /\ fresh.source = "oracle_generated" /\ fresh.probes = 0
  BY <1>2 DEF Fresh
<1>4. DOMAIN nodes' = {1} /\ nodes'[1] = fresh
  BY <1>1, <1>2
<1>5. (\A n \in DOMAIN nodes : Tidy(nodes[n]))'
  BY <1>3, <1>4 DEF Tidy
<1> QED BY <1>1, <1>5 DEF TInv, Finished

\* Without a step of the engine, and with one that raises, the concepts stay as they are.
LEMMA StillTInv ==
  ASSUME TInv, IInv', UNCHANGED <<policy, feed, nodes, exhausted>>,
         run' = run \/ (run' = "failed" /\ run # "idle")
  PROVE  TInv'
<1>1. run' # "idle" => (\A n \in DOMAIN nodes : Tidy(nodes[n]))'
  BY DEF TInv, Tidy, Provided
<1>2. Finished'
  BY DEF TInv, Finished, Open
<1> QED BY <1>1, <1>2 DEF TInv

\* Every step of the engine preserves it.
LEMMA NextTInv ==
  ASSUME TInv, [Next]_vars
  PROVE  TInv'
<1>1. IInv'
  BY NextIInv DEF TInv
<1>2. CASE Generate \/ Assess \/ Check \/ Search \/ Retest \/ Probe \/ Route \/ Value
  BY <1>2, QuestionTInv
<1>3. CASE Fail
  BY <1>1, <1>3, StillTInv DEF Fail
<1>4. CASE UNCHANGED vars
  BY <1>1, <1>4, StillTInv DEF vars
<1> QED BY <1>2, <1>3, <1>4, DecomposeTInv, WithheldTInv, RecurseTInv, CloseTInv DEF Next, Step

\* It holds of an engine that was not used yet.
LEMMA InitTInv == Init => TInv
  BY InitIInv DEF Init, TInv, Finished

-----------------------------------------------------------------------------
(* Plans and work *)

\* A task is bound to each axis of the root of a proposal in which nothing fails.
Bound(tasks) == run = "proposed" /\ ~ Failing /\ DOMAIN tasks = DOMAIN Root.axes

MInv ==
    /\ TInv
    /\ plan \notin {None, Blocked} =>
          Bound(plan.tasks) /\ Len(plan.tasks) \in 1 .. MaxChildren
    /\ work # Nothing => Bound(work.tasks)

\* An axis whose value is neither missing nor unknown, and which no budget was
\* refused to, was taken further, or is not worth more, or is as deep as may be.
LEMMA AxisIsSound ==
  ASSUME policy \in Policy, NEW node, LocalOK(node), node.step = "done",
         node.status # "budget_exhausted",
         NEW i \in DOMAIN node.axes, ~ FailingAxis(node.axes[i])
  PROVE  /\ node.axes[i].value \in Int
         /\ node.axes[i].child = 0 =>
               node.axes[i].value <= Threshold \/ node.depth = policy.depth
<1> DEFINE axis == node.axes[i]
<1>1. /\ AxisOK(node, axis) /\ axis.decision # "pending_allocation" /\ axis \in AxisRecords
      /\ node.depth \in 0 .. policy.depth
  BY LocalTypes DEF LocalOK, Valued, Concluded
<1>2. /\ axis.value # None
      /\ axis.decision \notin {"probe", "node_budget_exhausted", "oracle_budget_exhausted"}
  BY DEF FailingAxis
<1> HIDE DEF axis
<1>3. axis.value \in Int
  BY <1>1, <1>2, RatiosAssumption DEF AxisOK, AxisRecords
<1>4. ASSUME axis.child = 0, ~ (axis.value <= Threshold)
      PROVE  node.depth = policy.depth
  <2>1. axis.decision = "maximum_depth"
    BY <1>1, <1>2, <1>3, <1>4 DEF AxisOK
  <2> QED BY <1>1, <2>1 DEF AxisOK, Policy
<1> QED BY <1>3, <1>4 DEF axis

\* What no FailingNode was found in is sound: this is about each concept of the tree,
\* since every concept begun is in it.
LEMMA ProposalIsSound ==
  ASSUME TInv, run = "proposed", ~ Failing
  PROVE  /\ ~ exhausted /\ Len(Root.axes) \in Nat \ {0} /\ DOMAIN Root.axes = 1 .. Len(Root.axes)
         /\ \A n \in DOMAIN nodes : LET node == nodes[n] IN
               /\ node.status = "structurally_clean" /\ Provided(node)
               /\ node.pending = 0 /\ node.left = 0 /\ node.checks >= 1
               /\ \A i \in DOMAIN node.axes :
                     /\ node.axes[i].value \in Int
                     /\ node.axes[i].child = 0 =>
                           node.axes[i].value <= Threshold \/ node.depth = policy.depth
<1>1. /\ policy \in Policy /\ WellMade(nodes) /\ policy.probes \in Nat \ {0}
      /\ \A n \in DOMAIN nodes : ~ Open(nodes, n) /\ Tidy(nodes[n])
      /\ nodes[1].status = "budget_exhausted" <=> exhausted
  BY PolicyTyped DEF TInv, IInv, Finished, Policy
<1>2. InTree(nodes) = DOMAIN nodes /\ 1 \in DOMAIN nodes
  BY <1>1, InTreeIsAll
<1>3. ASSUME NEW n \in DOMAIN nodes, NEW node, node = nodes[n]
      PROVE  /\ node.status = "structurally_clean" /\ Provided(node) /\ node.axes # <<>>
             /\ node.pending = 0 /\ node.left = 0 /\ node.checks >= 1
             /\ \A i \in DOMAIN node.axes :
                   /\ node.axes[i].value \in Int
                   /\ node.axes[i].child = 0 =>
                         node.axes[i].value <= Threshold \/ node.depth = policy.depth
  <2>1. Tidy(node) /\ node.step = "done" /\ LocalOK(node)
    BY <1>1, <1>3 DEF Open, WellMade
  <2>2. ~ FailingNode(node)
    BY <1>2, <1>3 DEF Failing
  <2>3. /\ node.status # "budget_exhausted" /\ node.complete /\ Routed(node)
        /\ node.source = "provided" /\ \A i \in DOMAIN node.axes : ~ FailingAxis(node.axes[i])
    BY <2>2 DEF FailingNode
  <2>4. node.status = "structurally_clean"
    BY <2>1, <2>3 DEF LocalOK, Concluded, Evident
  <2>5. node.pending \in Nat /\ node.left \in Nat /\ node.checks \in Nat /\ node \in NodeRecords
    BY <1>1, <2>1, LocalTypes
  <2>6. node.pending = 0 /\ node.left = 0 /\ Provided(node)
    BY <2>1, <2>3, <2>5 DEF Tidy
  <2>7. node.checks >= 1
    BY <2>1, <2>3, <2>5 DEF LocalOK, Checked
  <2>8. node.axes # <<>>
    BY <1>1, <2>1, <2>3 DEF Tidy, Routed
  <2> QED BY <1>1, <2>1, <2>3, <2>4, <2>5, <2>6, <2>7, <2>8, AxisIsSound
<1>4. ~ exhausted
  BY <1>1, <1>2, <1>3
<1>5. Root.axes \in Seq(AxisRecords) /\ Root.axes # <<>>
  BY <1>1, <1>2, <1>3, LocalTypes DEF Root, WellMade
<1>6. Len(Root.axes) \in Nat \ {0} /\ DOMAIN Root.axes = 1 .. Len(Root.axes)
  BY <1>5
<1> QED BY <1>3, <1>4, <1>6

\* The tasks bound to the axes are as many as the axes.
LEMMA AsManyTasks ==
  ASSUME NEW tasks, NEW n \in Nat, NEW S, NEW dom, tasks \in [dom -> S], DOMAIN tasks = 1 .. n
  PROVE  Len(tasks) = n
<1>1. tasks \in Seq(S)
  BY SeqDef
<1> QED BY <1>1, LenProperties

\* Plans are made of a finished proposal, and nothing of it changes before the next.
LEMMA NextMInv ==
  ASSUME MInv, [MaterializationNext]_mvars
  PROVE  MInv'
<1>1. TInv'
  <2>1. [Next]_vars
    BY DEF MaterializationNext, mvars, Redecompose, Next, BuildPlan, CompilePayload,
           CompileExecution
  <2> QED BY <2>1, NextTInv DEF MInv
<1>2. ASSUME UNCHANGED vars, NEW tasks, Bound(tasks)
      PROVE  Bound(tasks)'
  <2>1. nodes' = nodes /\ policy' = policy /\ run' = run
    BY <1>2 DEF vars
  <2>2. InTree(nodes)' = InTree(nodes)
    BY <2>1 DEF InTree
  <2>3. ASSUME NEW n \in InTree(nodes)
        PROVE  FailingNode(nodes[n])' <=> FailingNode(nodes[n])
    BY <2>1 DEF FailingNode, FailingAxis, Routed
  <2>4. ~ Failing'
    BY <1>2, <2>2, <2>3 DEF Bound, Failing
  <2> QED BY <1>2, <2>1, <2>4 DEF Bound, Root
<1>3. CASE Redecompose
  BY <1>1, <1>3 DEF Redecompose, MInv
<1>4. CASE Step /\ UNCHANGED <<plan, work>>
  <2>1. run = "running"
    BY <1>4 DEF Step, Generate, Assess, Check, Search, Retest, Probe, Route, Value, Withheld,
                Recurse, Close, Fail, Due
  <2> QED BY <1>1, <1>4, <2>1 DEF MInv, Bound
<1>5. CASE BuildPlan
  <2>1. PICK tasks \in Bindings, admitted \in SUBSET Capabilities :
           plan' = IF /\ DOMAIN tasks = DOMAIN Root.axes
                      /\ \A i \in DOMAIN tasks : tasks[i] \in admitted
                      /\ ~ Failing /\ Len(Root.axes) <= MaxChildren
                   THEN [status |-> "ready", tasks |-> tasks] ELSE Blocked
    BY <1>5 DEF BuildPlan
  <2>2. UNCHANGED <<vars, work>> /\ run = "proposed"
    BY <1>5 DEF BuildPlan
  <2>3. ASSUME plan' # Blocked
        PROVE  Bound(tasks) /\ Len(tasks) \in 1 .. MaxChildren /\ plan'.tasks = tasks
    <3>1. /\ DOMAIN tasks = DOMAIN Root.axes /\ ~ Failing /\ Len(Root.axes) <= MaxChildren
          /\ plan'.tasks = tasks
      BY <2>1, <2>3
    <3>2. Len(Root.axes) \in Nat \ {0} /\ DOMAIN Root.axes = 1 .. Len(Root.axes)
      BY <2>2, <3>1, ProposalIsSound DEF MInv
    <3>3. PICK dom : tasks \in [dom -> Capabilities]
      BY DEF Bindings
    <3>4. Len(tasks) = Len(Root.axes)
      BY <3>1, <3>2, <3>3, AsManyTasks
    <3> QED BY <2>2, <3>1, <3>2, <3>4, ChildrenAssumption DEF Bound
  <2>4. ASSUME plan' # Blocked
        PROVE  (Bound(plan.tasks) /\ Len(plan.tasks) \in 1 .. MaxChildren)'
    <3>1. Bound(tasks)'
      BY <1>2, <2>2, <2>3, <2>4
    <3> QED BY <2>3, <2>4, <3>1 DEF Bound
  <2>5. (work # Nothing => Bound(work.tasks))'
    <3>1. ASSUME work # Nothing PROVE Bound(work.tasks)'
      <4>1. PICK done : done = work.tasks
        OBVIOUS
      <4>2. Bound(done)'
        BY <1>2, <2>2, <3>1, <4>1 DEF MInv
      <4> QED BY <2>2, <4>1, <4>2 DEF Bound
    <3> QED BY <2>2, <3>1
  <2> QED BY <1>1, <2>4, <2>5 DEF MInv, Blocked, Nothing
<1>6. CASE CompilePayload
  <2>1. /\ UNCHANGED <<vars, plan>> /\ plan \notin {None, Blocked}
        /\ work' = [to |-> "coordinator", tasks |-> plan.tasks]
    BY <1>6 DEF CompilePayload
  <2>2. Bound(plan.tasks)' /\ work'.tasks = plan.tasks
    BY <1>2, <2>1 DEF MInv
  <2> QED BY <1>1, <2>1, <2>2 DEF MInv, Blocked, Nothing
<1>7. CASE CompileExecution
  <2>1. PICK tasks \in Bindings :
           DOMAIN tasks = DOMAIN Root.axes /\ work' = [to |-> "solo", tasks |-> tasks]
    BY <1>7 DEF CompileExecution
  <2>2. UNCHANGED <<vars, plan>> /\ Bound(tasks)
    BY <1>7, <2>1 DEF CompileExecution, Bound
  <2>3. Bound(tasks)' /\ work'.tasks = tasks
    BY <1>2, <2>1, <2>2
  <2>4. plan \notin {None, Blocked} => Bound(plan.tasks)'
    BY <1>2, <2>2 DEF MInv
  <2> QED BY <1>1, <2>2, <2>3, <2>4 DEF MInv, Blocked, Nothing
<1>8. CASE UNCHANGED mvars
  <2>1. UNCHANGED <<vars, plan, work>>
    BY <1>8 DEF mvars
  <2>2. plan \notin {None, Blocked} => Bound(plan.tasks)'
    BY <1>2, <2>1 DEF MInv
  <2>3. work # Nothing => Bound(work.tasks)'
    BY <1>2, <2>1 DEF MInv
  <2> QED BY <1>1, <2>1, <2>2, <2>3 DEF MInv, Blocked, Nothing
<1> QED BY <1>3, <1>4, <1>5, <1>6, <1>7, <1>8 DEF MaterializationNext

\* For every configuration, all answers and all capabilities: work is made only of a
\* decomposition that is sound to the last level, by a plan or for a Solo run.
THEOREM WorkIsSound == MaterializationSpec => []WorkRestsOnAll
<1>1. MaterializationInit => MInv
  BY InitTInv DEF MaterializationInit, MInv
<1>2. MInv => WorkRestsOnAll
  BY ProposalIsSound DEF MInv, Bound, WorkRestsOnAll
<1> QED BY <1>1, NextMInv, <1>2, PTL DEF MaterializationSpec

\* Plans and work are made beside the engine, which runs as it would without them.
THEOREM EngineRunsAlone == MaterializationSpec => Spec
<1>1. MaterializationInit => Init
  BY DEF MaterializationInit
<1>2. [MaterializationNext]_mvars => [Next]_vars
  BY DEF MaterializationNext, mvars, Redecompose, Next, BuildPlan, CompilePayload,
         CompileExecution
<1> QED BY <1>1, <1>2, PTL DEF MaterializationSpec, Spec
=============================================================================
