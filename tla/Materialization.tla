--------------------------- MODULE Materialization ---------------------------
(***************************************************************************)
(* What becomes of a proposal: a materialization plan and the delegation   *)
(* compiled from it, or an execution plan of a Solo run.  Both bind a task *)
(* to each axis of the root and trust the levels below it by their marks.  *)
(*                                                                         *)
(* A task is the capability it asks for.  The capabilities admitted by the *)
(* coordinator are handed in with each call and may differ between them.   *)
(* The review of an execution plan names the digest of the proposal in     *)
(* hand.                                                                   *)
(***************************************************************************)
EXTENDS Decomposition

CONSTANTS
    Capabilities,
    MaxChildren      \* MAX_MATERIALIZED_CHILDREN

ASSUME ChildrenAssumption == MaxChildren \in Nat

VARIABLES
    plan,            \* the materialization plan made of the proposal
    work             \* tasks that were passed on to be executed

mvars == <<vars, plan, work>>

Root == nodes[1]
Blocked == [status |-> "blocked", tasks |-> <<>>]
Nothing == [to |-> "nobody", tasks |-> <<>>]

MaterializationInit == Init /\ plan = None /\ work = Nothing

-----------------------------------------------------------------------------
(* decomposition_execution_failures *)

FailingAxis(axis) ==
    axis.value = None \/ axis.decision \in {"probe", "node_budget_exhausted", "oracle_budget_exhausted"}

FailingNode(node) ==
    \/ node.status = "budget_exhausted"
    \/ ~ node.complete
    \/ ~ Routed(node)
    \/ node.source # "provided"
    \/ \E i \in DOMAIN node.axes : FailingAxis(node.axes[i])

\* Mutation: the levels below the root are not visited.
FailingRoot == FailingNode(Root)

Failing == \E n \in InTree(nodes) : FailingNode(nodes[n])

Bindings == UNION {[bound -> Capabilities] : bound \in SUBSET DOMAIN Root.axes}

\* A blocked plan says what is missing and goes no further.
BuildPlan ==
    /\ run = "proposed" /\ plan = None
    /\ \E tasks \in Bindings, admitted \in SUBSET Capabilities :
          plan' = IF /\ DOMAIN tasks = DOMAIN Root.axes
                     /\ \A i \in DOMAIN tasks : tasks[i] \in admitted
                     /\ ~ Failing /\ Len(Root.axes) <= MaxChildren
                  THEN [status |-> "ready", tasks |-> tasks] ELSE Blocked
    /\ UNCHANGED <<vars, work>>

\* delegation_payload_from_plan, which refuses a capability withdrawn since.
CompilePayload ==
    /\ plan \notin {None, Blocked} /\ work = Nothing
    /\ Len(plan.tasks) \in 1 .. MaxChildren
    /\ \E admitted \in SUBSET Capabilities :
          \A i \in DOMAIN plan.tasks : plan.tasks[i] \in admitted
    /\ work' = [to |-> "coordinator", tasks |-> plan.tasks]
    /\ UNCHANGED <<vars, plan>>

\* execution_plan_from_decomposition
CompileExecution ==
    /\ run = "proposed" /\ work = Nothing
    /\ Root.status = "structurally_clean" /\ Root.source = "provided" /\ ~ Failing
    /\ \E tasks \in Bindings :
          /\ DOMAIN tasks = DOMAIN Root.axes
          /\ work' = [to |-> "solo", tasks |-> tasks]
    /\ UNCHANGED <<vars, plan>>

\* One proposal at a time.
Redecompose == Decompose /\ plan' = None /\ work' = Nothing

MaterializationNext ==
    \/ Redecompose
    \/ Step /\ UNCHANGED <<plan, work>>
    \/ BuildPlan
    \/ CompilePayload
    \/ CompileExecution

MaterializationSpec == MaterializationInit /\ [][MaterializationNext]_mvars

-----------------------------------------------------------------------------
(* Properties *)

\* Work is made only of a decomposition that is sound to the last level: no
\* question of the run was left without its answer, each concept was found
\* complete and its probes, which are not the oracle's own, each went to one
\* axis, and each axis was left alone or taken further for a reason.  It is the
\* whole root, with a task for every axis; and a plan that is ready has no fewer
\* and no more tasks than compiling it allows.
WorkRestsOnAll ==
    /\ plan \notin {None, Blocked} => Len(plan.tasks) \in 1 .. MaxChildren
    /\ work # Nothing =>
        /\ run = "proposed" /\ ~ exhausted
        /\ DOMAIN work.tasks = DOMAIN Root.axes /\ Len(Root.axes) > 0
        /\ \A n \in DOMAIN nodes : LET node == nodes[n] IN
              /\ node.status = "structurally_clean" /\ Provided(node)
              /\ node.pending = 0 /\ node.left = 0 /\ node.checks >= 1
              /\ \A i \in DOMAIN node.axes :
                    /\ node.axes[i].value \in Int
                    /\ node.axes[i].child = 0 =>
                          node.axes[i].value <= Threshold \/ node.depth = policy.depth
=============================================================================
