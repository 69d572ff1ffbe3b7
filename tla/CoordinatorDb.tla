---------------------------- MODULE CoordinatorDb ----------------------------
(***************************************************************************)
(* The coordinator's SQLite database as one value, and the operations the  *)
(* service composes into its transactions: expiry of problems and leases,  *)
(* termination, settlement, insertion of tasks and ledger transfers.       *)
(*                                                                         *)
(* Every public method of CoordinatorService runs in one BEGIN IMMEDIATE   *)
(* transaction, so a handler is a function from a database value to a      *)
(* database value.  The operators below take the database as parameter d   *)
(* and the clock reading as parameter t; module Coordinator applies them.  *)
(*                                                                         *)
(* A task's id is its row number; a problem's id is its funding reference, *)
(* a delegation's id is <<task, n>>, its place in delegations[task].  The  *)
(* lease token, an HMAC of the node's secret, the lease request id and the *)
(* task id, is the triple of those three things.                           *)
(*                                                                         *)
(* A definition whose comment starts with "Mutation:" is no part of the    *)
(* model: it is a plausible bug in the definition after it, put in its     *)
(* place to see that a property notices.                                   *)
(***************************************************************************)
EXTENDS Integers, FiniteSets, Sequences, Totals

CONSTANTS
    Nodes,            \* registered nodes
    Problems,         \* funding references
    TaskPool,         \* bound: rows the tasks table may hold
    Caps,             \* manifest digests
    Requests,         \* lease_request_id values a node may use
    Keys,             \* delegation idempotency keys a node may use
    SubmissionIds,    \* submission_id values a node may use
    Constraints,      \* (name, value) pairs of a task's constraints
    Specs,            \* task specifications clients may send
    Bodies,           \* create_problem bodies
    Plans,            \* lists of child specifications
    LeaseSeconds, MaxDepth, MaxInflight, MaxProposals,
    MaxTasksPerProblem, MaxOfferings,        \* ServiceConfig
    None, Timeout     \* NULL, and the submission ids the server makes up

Tasks == 1 .. TaskPool

Spec4Task == [cap : Caps, reward : Nat \ {0}, budget : Nat, max : Nat \ {0},
              cons : SUBSET Constraints]
ProblemRequest == [funded : Nat \ {0}, deadline : Nat, spec : Specs]

ASSUME PoolAssumption == TaskPool \in Nat /\ IsFiniteSet(Problems) /\ IsFiniteSet(Nodes)
ASSUME SpecsAssumption == Specs \subseteq Spec4Task
ASSUME BodiesAssumption == Bodies \subseteq ProblemRequest
ASSUME PlansAssumption == Plans \subseteq Seq(Specs) \ {<< >>}
ASSUME ConfigAssumption ==
    /\ LeaseSeconds \in Nat \ {0}
    /\ MaxDepth \in Nat \ {0}
    /\ MaxInflight \in Nat \ {0}
    /\ MaxProposals \in Nat \ {0}
    /\ MaxTasksPerProblem \in Nat \ {0}
    /\ MaxOfferings \in Nat \ {0}
ASSUME NoneAssumption ==
    /\ None \notin Nodes /\ None \notin Problems /\ None \notin Tasks /\ None \notin Specs
    /\ None \notin [node : Nodes, request : Requests, until : Nat]
    /\ None \notin [task : Tasks, quote : Nat]
    /\ Timeout \notin SubmissionIds

TerminalStatus == {"completed", "blocked", "cancelled", "expired"}
Status == {"none", "active"} \cup TerminalStatus
TaskState == {"absent", "open", "leased", "awaiting_delegation_approval",
              "waiting_children", "accepted", "failed", "blocked"}
DelegationStatus == {"proposed", "approved", "rejected", "void"}
Outcome == {"pass", "reject"}
BasisPoints == 0 .. 9999

(***************************************************************************)
(* The tables.  pathway_events and accepted_artifacts hold one row per     *)
(* submission (per passed submission), written in the same transaction, so *)
(* submissions stands for them.  delegation_proposal_count is the number   *)
(* of the task's delegations.  The ledger is kept as the balance of each   *)
(* account and the number of transfers made under each idempotency key.    *)
(***************************************************************************)
ProblemRow == [status : Status, funded : Nat, deadline : Nat, fee : BasisPoints]
LeaseRow == [node : Nodes, request : Requests, until : Nat]
TaskRow == [state : TaskState, problem : Problems \cup {None},
            parent : Tasks \cup {None}, depth : Nat, spec : Specs \cup {None},
            attempts : Nat, by : Nodes \cup {None}, selfOk : BOOLEAN,
            lease : LeaseRow \cup {None}, created : Nat]
SubmissionRow == [node : Nodes, sid : SubmissionIds \cup {Timeout},
                  outcome : Outcome, attempt : Nat, earned : Nat]
DelegationRow == [node : Nodes, key : Keys, plan : Plans, status : DelegationStatus]
RequestRow == [task : Tasks, quote : Nat]

OfferingTable == [Nodes -> [Caps -> {"none", "pending", "active"}]]
ProblemTable == [Problems -> ProblemRow]
TaskTable == [Tasks -> TaskRow]
RequestTable == [Nodes -> [Requests -> RequestRow \cup {None}]]
SubmissionTable == [Tasks -> Seq(SubmissionRow)]
DelegationTable == [Tasks -> Seq(DelegationRow)]

Database ==
    [offering : OfferingTable, problem : ProblemTable,
     tasks : 0 .. TaskPool, task : TaskTable, requests : RequestTable,
     submissions : SubmissionTable, delegations : DelegationTable,
     escrow : [Problems -> Int], refund : [Problems -> Nat],
     payable : [Nodes -> Nat], revenue : Nat,
     credits : [Tasks -> Nat], refunds : [Problems -> Nat]]

NoTask == [state |-> "absent", problem |-> None, parent |-> None, depth |-> 0,
           spec |-> None, attempts |-> 0, by |-> None, selfOk |-> FALSE,
           lease |-> None, created |-> 0]

EmptyDatabase ==
    [offering    |-> [n \in Nodes |-> [c \in Caps |-> "none"]],
     problem     |-> [p \in Problems |->
                        [status |-> "none", funded |-> 0, deadline |-> 0, fee |-> 0]],
     tasks       |-> 0,
     task        |-> [x \in Tasks |-> NoTask],
     requests    |-> [n \in Nodes |-> [r \in Requests |-> None]],
     submissions |-> [x \in Tasks |-> << >>],
     delegations |-> [x \in Tasks |-> << >>],
     escrow      |-> [p \in Problems |-> 0],
     refund      |-> [p \in Problems |-> 0],
     payable     |-> [n \in Nodes |-> 0],
     revenue     |-> 0,
     credits     |-> [x \in Tasks |-> 0],
     refunds     |-> [p \in Problems |-> 0]]

-----------------------------------------------------------------------------
(* Queries *)

Existing(d) == 1 .. d.tasks
Of(d, p) == {x \in Existing(d) : d.task[x].problem = p}
Children(d, x) == {c \in Existing(d) : d.task[c].parent = x}
InState(d, s) == {x \in Existing(d) : d.task[x].state = s}
Admitted(d, c) == \E n \in Nodes : d.offering[n][c] = "active"
Rejected(d, n, x) ==
    \E i \in DOMAIN d.submissions[x] :
        d.submissions[x][i].node = n /\ d.submissions[x][i].outcome = "reject"

PlatformFee(reward, bps) == (reward * bps) \div 10000
ProviderEarning(reward, bps) == reward - PlatformFee(reward, bps)

-----------------------------------------------------------------------------
(* Settlement and termination of the problems P *)

\* Whatever the escrow account still holds moves to refund_pending; nothing is
\* transferred when it holds nothing.
Settled(d, P) ==
    LET due == {p \in P : d.escrow[p] > 0}
    IN  [d EXCEPT
           !.escrow  = [p \in Problems |-> IF p \in due THEN 0 ELSE @[p]],
           !.refund  = [p \in Problems |-> IF p \in due THEN @[p] + d.escrow[p] ELSE @[p]],
           !.refunds = [p \in Problems |-> IF p \in due THEN @[p] + 1 ELSE @[p]]]

\* Mutation: proposals outlive their problem.
VoidedNone(rows) == rows

Voided(rows) ==
    [i \in DOMAIN rows |->
        IF rows[i].status = "proposed" THEN [rows[i] EXCEPT !.status = "void"] ELSE rows[i]]

\* Mutation: the lease columns of blocked tasks are not cleared.
TerminatedKeepingLeases(d, P, status) ==
    LET doomed == {x \in Existing(d) : /\ d.task[x].problem \in P
                                       /\ d.task[x].state \notin {"accepted", "failed"}}
    IN  Settled(
          [d EXCEPT
             !.problem = [p \in Problems |->
                IF p \in P /\ @[p].status = "active" THEN [@[p] EXCEPT !.status = status] ELSE @[p]],
             !.task = [x \in Tasks |->
                IF x \in doomed THEN [@[x] EXCEPT !.state = "blocked"] ELSE @[x]],
             !.delegations = [x \in Tasks |->
                IF x \in Existing(d) /\ d.task[x].problem \in P THEN Voided(@[x]) ELSE @[x]]],
          P)

\* Mutation: tasks that are leased at the time are left alone.
TerminatedSparingLeases(d, P, status) ==
    LET doomed == {x \in Existing(d) : /\ d.task[x].problem \in P
                                       /\ d.task[x].state \notin {"accepted", "failed", "leased"}}
    IN  Settled(
          [d EXCEPT
             !.problem = [p \in Problems |->
                IF p \in P /\ @[p].status = "active" THEN [@[p] EXCEPT !.status = status] ELSE @[p]],
             !.task = [x \in Tasks |->
                IF x \in doomed THEN [@[x] EXCEPT !.state = "blocked", !.lease = None] ELSE @[x]],
             !.delegations = [x \in Tasks |->
                IF x \in Existing(d) /\ d.task[x].problem \in P THEN Voided(@[x]) ELSE @[x]]],
          P)

\* Each problem of P is terminated by a call of its own; the rows of different
\* problems are disjoint, so the calls commute and are made here at once.
Terminated(d, P, status) ==
    LET doomed == {x \in Existing(d) : /\ d.task[x].problem \in P
                                       /\ d.task[x].state \notin {"accepted", "failed"}}
    IN  Settled(
          [d EXCEPT
             !.problem = [p \in Problems |->
                IF p \in P /\ @[p].status = "active" THEN [@[p] EXCEPT !.status = status] ELSE @[p]],
             !.task = [x \in Tasks |->
                IF x \in doomed THEN [@[x] EXCEPT !.state = "blocked", !.lease = None] ELSE @[x]],
             !.delegations = [x \in Tasks |->
                IF x \in Existing(d) /\ d.task[x].problem \in P THEN Voided(@[x]) ELSE @[x]]],
          P)

-----------------------------------------------------------------------------
(* Expiry, the work every mutating handler starts with *)

DueProblems(d, t) ==
    {p \in Problems : d.problem[p].status = "active" /\ d.problem[p].deadline <= t}

ProblemsExpired(d, t) == Terminated(d, DueProblems(d, t), "expired")

Overdue(d, t) == {x \in InState(d, "leased") : d.task[x].lease.until <= t}
Final(d, x) == d.task[x].attempts >= d.task[x].spec.max

\* The overdue rows come in no particular order, and a row is skipped when an
\* earlier one has terminated its problem.  So of one problem's rows the loop
\* records all when none is a last attempt; otherwise the last attempts it
\* meets first, and any of the others.
TimeoutChoices(d, t) ==
    {R \in SUBSET Overdue(d, t) :
        \A p \in Problems :
            LET rows == Overdue(d, t) \cap Of(d, p)
                last == {x \in rows : Final(d, x)}
            IN  IF last = {} THEN rows \subseteq R ELSE Cardinality(R \cap last) = 1}

\* A timed-out lease leaves a rejected submission behind and frees the task.
TimedOut(d, R) ==
    [d EXCEPT
       !.submissions = [x \in Tasks |->
          IF x \in R
          THEN Append(@[x], [node |-> d.task[x].lease.node, sid |-> Timeout,
                             outcome |-> "reject", attempt |-> d.task[x].attempts,
                             earned |-> 0])
          ELSE @[x]],
       !.task = [x \in Tasks |->
          IF x \in R
          THEN [@[x] EXCEPT !.state = IF Final(d, x) THEN "failed" ELSE "open", !.lease = None]
          ELSE @[x]]]

LeasesExpired(d, t) ==
    {Terminated(TimedOut(d, R), {d.task[x].problem : x \in {y \in R : Final(d, y)}}, "blocked") :
        R \in TimeoutChoices(d, t)}

\* _expire_due_problems, then _expire_leases: what a handler works on.
Swept(d, t) == LeasesExpired(ProblemsExpired(d, t), t)

-----------------------------------------------------------------------------
(* Rows inserted by the handlers *)

TaskOf(p, parent, depth, spec, t, by, selfOk) ==
    [state |-> "open", problem |-> p, parent |-> parent, depth |-> depth,
     spec |-> spec, attempts |-> 0, by |-> by, selfOk |-> selfOk,
     lease |-> None, created |-> t]

\* Mutation: the fee is charged on top of the reward.
CreditedWithFeeOnTop(d, x, n) ==
    LET p == d.task[x].problem
        reward == d.task[x].spec.reward
        fee == PlatformFee(reward, d.problem[p].fee)
    IN  [d EXCEPT !.escrow[p]  = @ - (reward + fee),
                  !.payable[n] = @ + reward,
                  !.revenue    = @ + fee,
                  !.credits[x] = @ + 1]

\* The accepted task's reward leaves the escrow account: the provider's part to
\* payable:<node>, and the fee, when there is one, to revenue:platform.
Credited(d, x, n) ==
    LET p == d.task[x].problem
        reward == d.task[x].spec.reward
        fee == PlatformFee(reward, d.problem[p].fee)
    IN  [d EXCEPT !.escrow[p]  = @ - reward,
                  !.payable[n] = @ + (reward - fee),
                  !.revenue    = @ + fee,
                  !.credits[x] = @ + 1]

\* Mutation: the first accepted child reopens the parent.
ParentRefreshedEarly(d, parent) ==
    IF /\ parent # None
       /\ \E c \in Children(d, parent) : d.task[c].state = "accepted"
       /\ d.task[parent].state = "waiting_children"
    THEN [d EXCEPT !.task[parent] = [@ EXCEPT !.state = "open"]]
    ELSE d

\* The parent of an accepted child becomes open again once all its children are
\* accepted.
ParentRefreshed(d, parent) ==
    IF /\ parent # None
       /\ Children(d, parent) # {}
       /\ \A c \in Children(d, parent) : d.task[c].state = "accepted"
       /\ d.task[parent].state = "waiting_children"
    THEN [d EXCEPT !.task[parent] = [@ EXCEPT !.state = "open"]]
    ELSE d

\* A problem all of whose tasks are accepted is completed and settled.
StatusRefreshed(d, p) ==
    IF /\ Of(d, p) # {}
       /\ \A x \in Of(d, p) : d.task[x].state = "accepted"
       /\ d.problem[p].status = "active"
    THEN Settled([d EXCEPT !.problem[p] = [@ EXCEPT !.status = "completed"]], {p})
    ELSE d

=============================================================================
