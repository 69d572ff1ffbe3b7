---------------------------- MODULE Decomposition ----------------------------
(***************************************************************************)
(* ConceptualDecompositionEngine: one run of decompose after another, each *)
(* a recursion over concepts that asks an oracle one question at a time    *)
(* and shares two budgets, of questions and of concepts, between all its   *)
(* levels.                                                                 *)
(*                                                                         *)
(* nodes holds the concepts of a run in the order they were begun, the     *)
(* root first; at is the one being worked on, and its step the question    *)
(* that is due.  Judgements are the oracle's choice.  A candidate that     *)
(* repeats one known is ignored, so candidates are distinct and need no    *)
(* names; rejected ones, rationales, warnings and digests leave no trace   *)
(* here.  An axis is known by its place, and a marginal ratio is a number. *)
(*                                                                         *)
(* In the end the engine reads the tree it made as it would read any       *)
(* other.  Two things of it may be longer then than what was accepted: a   *)
(* decimal number, which is kept written out, and the context of a         *)
(* concept, which is put together of what its axis says.  Of the numbers   *)
(* an estimate comes with, number is the one that is written longest.      *)
(***************************************************************************)
EXTENDS Integers, Sequences, FiniteSets

CONSTANTS
    Policies,        \* normalised configurations
    Ratios,          \* marginal ratios that estimates come to
    Threshold,       \* marginal_value_threshold
    Unknown,         \* an estimate without sufficient evidence
    Numbers,         \* decimals: how many digits, and the exponent of the first of them
    MaxDigits,       \* MAX_DECIMAL_DIGITS
    MaxExponent,     \* MAX_DECIMAL_ABS_EXPONENT
    Sizes,           \* bytes that the context of a concept takes
    MaxContext,      \* of which _normalize_context allows this many
    None

Decisions == {"probe", "leaf", "recurse", "maximum_depth", "node_budget_exhausted",
              "oracle_budget_exhausted", "pending_allocation"}

Policy == [candidates : Nat \ {0}, retries : Nat, probes : Nat \ {0},
           depth : Nat, nodes : Nat \ {0}, calls : Nat \ {0}]

ASSUME PoliciesAssumption == Policies \subseteq Policy
ASSUME RatiosAssumption == Ratios \subseteq Int /\ Threshold \in Nat
ASSUME NumbersAssumption == Numbers \subseteq [digits : Nat, exponent : Int]
ASSUME LimitsAssumption == MaxDigits \in Nat /\ MaxExponent \in Nat /\ MaxContext \in Nat
ASSUME SizesAssumption == Sizes \subseteq Nat
ASSUME UnknownAssumption == Unknown \notin Int \cup {None} /\ None \notin Int \cup Decisions

VARIABLES
    policy, feed,    \* the limits, and who supplies routing probes
    nodes, at,       \* the concepts begun, and the one in hand
    calls, exhausted,
    run

vars == <<policy, feed, nodes, at, calls, exhausted, run>>

Feeds == {"oracle", "list", "provider"}

Fresh(depth, parent, size) ==
    [depth |-> depth, parent |-> parent, size |-> size, step |-> "generate", status |-> "open",
     pending |-> 0, axes |-> <<>>, checks |-> 0, complete |-> FALSE, retries |-> 0,
     source |-> "oracle_generated", left |-> 0, probes |-> 0, clean |-> TRUE]

Axis == [value |-> None, number |-> None, decision |-> None, child |-> 0]

Init ==
    /\ policy \in Policies /\ feed \in Feeds
    /\ nodes = <<>> /\ at = 0 /\ calls = 0 /\ exhausted = FALSE
    /\ run = "idle"

\* decompose resets what the engine object holds from an earlier run.  The context
\* of the root it reads first.
Decompose ==
    /\ run # "running"
    /\ policy' \in Policies /\ feed' \in Feeds
    /\ \E size \in Sizes : size <= MaxContext /\ nodes' = <<Fresh(0, 0, size)>>
    /\ at' = 1 /\ calls' = 0 /\ exhausted' = FALSE
    /\ run' = "running"

-----------------------------------------------------------------------------
(* One question *)

Here == nodes[at]
Due(step) == run = "running" /\ Here.step = step
Becomes(node) == nodes' = [nodes EXCEPT ![at] = node]
Same == UNCHANGED <<policy, feed, at, run>>

Asked == calls < policy.calls /\ calls' = calls + 1 /\ exhausted' = exhausted
Denied == calls >= policy.calls /\ calls' = calls /\ exhausted' = TRUE

Generate ==
    /\ Due("generate") /\ Same
    /\ \/ Asked /\ \E k \in 0 .. policy.candidates :
                      Becomes([Here EXCEPT !.step = "assess", !.pending = k])
       \/ Denied /\ Becomes([Here EXCEPT !.step = "assess"])

\* A candidate that passes all three tests becomes an axis.
Judged(node, passed) ==
    IF passed THEN [node EXCEPT !.axes = Append(@, Axis)] ELSE node

Assess ==
    /\ Due("assess") /\ Here.pending > 0 /\ Same
    /\ \/ Asked /\ \E passed \in BOOLEAN :
                      Becomes(Judged([Here EXCEPT !.pending = @ - 1], passed))
       \/ Denied /\ Becomes([Here EXCEPT !.pending = 0])

Check ==
    /\ (Due("assess") /\ Here.pending = 0) \/ Due("check")
    /\ Same
    /\ \/ /\ Asked
          /\ \E passed \in BOOLEAN :
                Becomes([Here EXCEPT !.checks = @ + 1, !.complete = passed,
                            !.step = IF ~ passed /\ Here.retries < policy.retries
                                     THEN "search" ELSE "probe"])
       \/ Denied /\ Becomes([Here EXCEPT !.step = "probe"])

\* The search finds nothing, or a dimension it has already, or a new one to test.
Search ==
    /\ Due("search") /\ Same
    /\ \/ Asked /\ \E found \in BOOLEAN :
                      Becomes([Here EXCEPT !.retries = @ + 1,
                                  !.step = IF found THEN "retest" ELSE "check"])
       \/ Denied /\ Becomes([Here EXCEPT !.retries = @ + 1, !.step = "probe"])

Retest ==
    /\ Due("retest") /\ Same
    /\ \/ Asked /\ \E passed \in BOOLEAN :
                      Becomes(Judged([Here EXCEPT !.step = "check"], passed))
       \/ Denied /\ Becomes([Here EXCEPT !.step = "probe"])

\* With probes left to route; marginal values are asked for complete sets only.
Routing(node, left) ==
    [node EXCEPT !.left = left,
                 !.step = IF left > 0 THEN "route"
                          ELSE IF node.complete /\ node.axes # <<>> THEN "value" ELSE "allocate"]

Provided(node) == feed = "provider" \/ (feed = "list" /\ node.depth = 0)

\* A list has the exact number of probes; a provider may come with fewer.
\* Neither is the oracle, and neither is asked without axes to route to.
Given(node) ==
    IF node.axes = <<>> THEN {0}
    ELSE IF feed = "list" THEN {policy.probes} ELSE 0 .. policy.probes

Probe ==
    /\ Due("probe") /\ Same
    /\ LET node == [Here EXCEPT !.source = IF Provided(Here) THEN "provided" ELSE @]
       IN  \/ /\ Provided(Here) \/ Here.axes = <<>>
              /\ \E k \in Given(Here) : Becomes(Routing(node, k))
              /\ UNCHANGED <<calls, exhausted>>
           \/ /\ ~ Provided(Here) /\ Here.axes # <<>>
              /\ \/ Asked /\ \E k \in 0 .. policy.probes : Becomes(Routing(node, k))
                 \/ Denied /\ Becomes(Routing(node, 0))

\* A probe is routed clean if it selects exactly one axis.
Route ==
    /\ Due("route") /\ Same
    /\ \/ Asked /\ \E single \in BOOLEAN :
                      Becomes(Routing([Here EXCEPT !.probes = @ + 1, !.clean = @ /\ single],
                                      Here.left - 1))
       \/ Denied /\ Becomes(Routing(Here, 0))

-----------------------------------------------------------------------------
(* Marginal values and the two budgets *)

\* _decimal
Readable(number) ==
    number.digits <= MaxDigits /\ number.exponent \in -MaxExponent .. MaxExponent

\* _decimal_string: no exponent is left, and zeros stand for what it moved.
Written(number) ==
    [number EXCEPT !.digits = IF number.exponent >= @ THEN number.exponent + 1 ELSE @]

Decision(value, depth) ==
    IF value = Unknown THEN "probe"
    ELSE IF value <= Threshold THEN "leaf"
    ELSE IF depth >= policy.depth THEN "maximum_depth" ELSE "pending_allocation"

\* An estimate without evidence is kept without numbers.
Valuation(value, number, depth) ==
    [value |-> value, number |-> IF value = Unknown THEN None ELSE Written(number),
     decision |-> Decision(value, depth), child |-> 0]

Value ==
    /\ Due("value") /\ Same
    /\ LET i == CHOOSE k \in DOMAIN Here.axes :
                   /\ Here.axes[k].value = None
                   /\ \A j \in 1 .. k - 1 : Here.axes[j].value # None
       IN  \/ /\ Asked
              /\ \E value \in Ratios \cup {Unknown}, number \in Numbers :
                    /\ Readable(number)
                    /\ Becomes([Here EXCEPT
                        !.axes[i] = Valuation(value, number, Here.depth),
                        !.step = IF i = Len(Here.axes) THEN "allocate" ELSE "value"])
           \/ Denied /\ Becomes([Here EXCEPT !.step = "allocate"])

Pending(node) == {i \in DOMAIN node.axes : node.axes[i].decision = "pending_allocation"}

\* Mutation: axes are taken in the order the oracle gave them.
InOrder(node) == {i \in Pending(node) : \A j \in Pending(node) : i <= j}

\* The highest ratio; ties are broken by a digest.
Best(node) ==
    {i \in Pending(node) : \A j \in Pending(node) : node.axes[j].value <= node.axes[i].value}

Withheld ==
    /\ Due("allocate")
    /\ exhausted \/ Len(nodes) >= policy.nodes
    /\ \E i \in Best(Here) :
          Becomes([Here EXCEPT !.axes[i].decision =
                      IF exhausted THEN "oracle_budget_exhausted" ELSE "node_budget_exhausted"])
    /\ UNCHANGED <<policy, feed, at, calls, exhausted, run>>

\* The context of the concept names its parent and repeats the bounds of the axis.
Recurse ==
    /\ Due("allocate") /\ ~ exhausted /\ Len(nodes) < policy.nodes
    /\ \E i \in Best(Here), size \in Sizes :
          nodes' = Append([nodes EXCEPT ![at].axes[i] =
                              [@ EXCEPT !.decision = "recurse", !.child = Len(nodes) + 1]],
                          Fresh(Here.depth + 1, at, size))
    /\ at' = Len(nodes) + 1
    /\ UNCHANGED <<policy, feed, calls, exhausted, run>>

-----------------------------------------------------------------------------
(* The end of a concept, and of the run *)

Routed(node) == node.probes = policy.probes /\ node.clean

\* What the two kinds of evidence come to.
Evident(node) ==
    IF ~ node.complete THEN "incomplete"
    ELSE IF ~ Routed(node) THEN "warning" ELSE "structurally_clean"

\* Mutation: the flag is looked at last.
StatusByEvidence(node) ==
    IF Evident(node) = "structurally_clean" /\ exhausted THEN "budget_exhausted" ELSE Evident(node)

Status(node) == IF exhausted THEN "budget_exhausted" ELSE Evident(node)

\* _normalize_node, which reads the numbers again as they are written.
ValidAxis(tree, node, axis) ==
    /\ axis.value = None => axis.decision = None
    /\ axis.value = Unknown => axis.decision = "probe"
    /\ axis.value \in Int =>
          axis.decision \in IF axis.value <= Threshold THEN {"leaf"}
                            ELSE {"recurse", "maximum_depth", "node_budget_exhausted",
                                  "oracle_budget_exhausted"}
    /\ axis.value \in Int => Readable(axis.number)
    /\ axis.decision = "maximum_depth" => node.depth >= policy.depth
    /\ axis.decision = "recurse" <=> axis.child # 0
    /\ axis.child # 0 => tree[axis.child].depth = node.depth + 1

ValidNode(tree, node) ==
    /\ node.depth \in 0 .. policy.depth
    /\ node.size <= MaxContext
    /\ Len(node.axes) <= policy.candidates + policy.retries
    /\ \A i \in DOMAIN node.axes : ValidAxis(tree, node, node.axes[i])
    /\ node.checks <= policy.retries + 1 /\ (node.complete => node.checks > 0)
    /\ node.retries <= policy.retries
    /\ node.probes <= policy.probes
    /\ node.status \in {"budget_exhausted", Evident(node)}

\* validate_decomposition_proposal: the tree below the root is what was counted.
InTree(tree) ==
    {1} \cup UNION {{tree[n].axes[i].child : i \in DOMAIN tree[n].axes} \ {0} : n \in DOMAIN tree}

ValidProposal(tree) ==
    /\ \A n \in InTree(tree) : ValidNode(tree, tree[n])
    /\ tree[1].depth = 0
    /\ calls <= policy.calls
    /\ Cardinality(InTree(tree)) = Len(tree) /\ Len(tree) <= policy.nodes
    /\ tree[1].status = "budget_exhausted" <=> exhausted

Closed == [nodes EXCEPT ![at] = [Here EXCEPT !.status = Status(Here), !.step = "done"]]

\* decompose validates the proposal it returns, and one may be too large.  Before
\* that it takes the digest, and a text without an encoding has none.
Outcomes ==
    {"failed"} \cup IF ValidProposal(Closed) THEN {"proposed", "oversized"} ELSE {"refused"}

Close ==
    /\ Due("allocate") /\ Pending(Here) = {}
    /\ nodes' = Closed /\ at' = Here.parent
    /\ run' \in IF Here.parent = 0 THEN Outcomes ELSE {"running"}
    /\ UNCHANGED <<policy, feed, calls, exhausted>>

\* An answer of the wrong form, or an oracle or a provider that raises, ends the
\* run with an exception, and nothing of it is returned.
Fail ==
    /\ run = "running" /\ Here.step # "allocate"
    /\ calls < policy.calls \/ (Due("probe") /\ Provided(Here) /\ Here.axes # <<>>)
    /\ run' = "failed"
    /\ UNCHANGED <<policy, feed, nodes, at, calls, exhausted>>

Step ==
    \/ Generate
    \/ Assess
    \/ Check
    \/ Search
    \/ Retest
    \/ Probe
    \/ Route
    \/ Value
    \/ Withheld
    \/ Recurse
    \/ Close
    \/ Fail

Next == Decompose \/ Step

Spec == Init /\ [][Next]_vars

-----------------------------------------------------------------------------
(* Properties *)

\* However answers, retries and levels share the budgets out, and wherever one of
\* them ends, the engine's own validation finds in the tree what it looks for.  It
\* refuses a run the oracle did not spoil only for what was let in short and kept
\* long: a number of more digits, written out, than _decimal allows, or a context
\* of more bytes than _normalize_context does.
Long(node) ==
    \/ node.size > MaxContext
    \/ \E i \in DOMAIN node.axes :
          node.axes[i].value \in Int /\ node.axes[i].number.exponent >= MaxDigits

OnlyLengthRefuses == run = "refused" => \E n \in DOMAIN nodes : Long(nodes[n])

Refused(axis) == axis.decision \in {"node_budget_exhausted", "oracle_budget_exhausted"}

\* The budget of concepts goes to the highest ratios of a concept's axes, though
\* the levels below each of them draw on it first; and an axis worth its cost is
\* left alone only when a budget is really used up.
BestFirst ==
    \A n \in DOMAIN nodes : LET axes == nodes[n].axes IN
        /\ \A i, j \in DOMAIN axes :
              /\ axes[i].child # 0 /\ Refused(axes[j]) => axes[i].value >= axes[j].value
              /\ axes[i].child # 0 /\ axes[i].child < axes[j].child
                     => axes[i].value >= axes[j].value
        /\ \A i \in DOMAIN axes :
              /\ axes[i].decision = "node_budget_exhausted" => Len(nodes) = policy.nodes
              /\ axes[i].decision = "oracle_budget_exhausted" => calls = policy.calls
=============================================================================
