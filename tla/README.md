# Verification of the Fractal Intelligence Protocol

TLA+ modules, TLC model checks and TLAPS proofs for the Fractal Intelligence Protocol
(`src/src/fractal_protocol`): the coordinator with admission and reframing, the connected
node, the result gate, solo execution, decomposition and materialization, topology, and the
benchmark's budget meter.
Paths below are relative to that package unless they say otherwise.

- [1. The system](#1-the-system)
- [2. Modules and their correspondence to the code](#2-modules-and-their-correspondence-to-the-code)
- [3. Runs](#3-runs)
- [4. Proofs](#4-proofs)
- [5. Abstractions and limits](#5-abstractions-and-limits)
- [6. Plan](#6-plan)

## 1. The system

A customer funds a *problem*; its root *task* is offered to provider *nodes* that
published a matching capability and were admitted by the operator. A node leases
a task, and either submits a Result, which a deterministic gate passes or
rejects, or proposes to split the task into children, which the operator approves
or rejects. Accepted work is paid out of the problem's escrow; whatever is left
when the problem ends is set aside as a refund.

### Inventory

| component | state | operations | interacts with | what makes it correct |
|---|---|---|---|---|
| coordinator: problems, tasks, leases, delegation, results (`service.py`) | tables `offerings`, `problems`, `tasks`, `lease_requests`, `submissions`, `delegations` | `publish_offering`, `approve_offering`, `create_problem`, `lease_work`, `delegate_children`, `approve_delegation`, `reject_delegation`, `submit_result`, `cancel_problem`, `reap_expired`, `expire_due_problems`, `get_problem` (which sweeps) | one SQLite transaction per call; HTTP handlers and the reaper thread call it | attempts add up, one say per node and task, tree states fit together, endings are complete and final, leases only where allowed |
| coordinator: ledger (`service.py`) | table `ledger_transfers` | `_insert_transfer`, `_credit_accepted_task`, `_settle_unused_funding` | inside the transactions above | money is conserved, escrow covers commitments, nothing is paid or refunded twice, quotes are honoured |
| schema and transactions (`database.py`) | the SQLite file, `user_version` | `initialize`, `transaction` | all of the service | a refused request changes nothing |
| HTTP server and reaper (`api.py`) | the reaper thread, the bearer of the administrator | `_dispatch`, `_reap_loop` | calls the service | expiry happens although nobody calls |
| result journal (`worker.py`) | tables `result_journal`, `execution_claims` | `claim`, `prepare`, `record_receipt`, `prune_completed_receipts` | shared by the processes of a provider | one Result per id and per lease, no second execution of a lease, agreement with the coordinator |
| connected node (`worker.py`) | the position in `work_once` | `publish`, `work_once` | client, journal, handler | a retry after any crash or lost answer resends the same Result |
| HTTP client (`client.py`) | none | one method per endpoint | the server | nothing of its own: calls may fail, hang or be repeated |
| invites and registration (`service.py`) | `node_invites`, `node_registrations`, `nodes` | `create_node_invite`, `register_node`, `heartbeat` | the coordinator authenticates with `nodes` | an invite makes one node, a retry gets the same token, until the invite expires |
| reframing (`service.py`) | `problem_reframes`, `accepted_artifacts`, `retained_artifact_bindings` | `reframe_problem`, `_archive_accepted_submission` | terminates a problem and creates its successor | one successor, from a quiescent source, funding kept apart |
| gates (`gates.py`, the trace's audit in `execution.py`) | none: a verdict, and a trace of it in a record | `validate_accept_spec`, `evaluate_result`, `_compact_verification`, `_validate_*_verification` | `submit_result`, solo execution | pass exactly when status, schema and clauses say so; the trace proves it |
| validation (`protocol.py`, `schema.py`) | none | `validate_*`, `canonical_json`, `content_digest` | all entry points | what reaches the database is well formed |
| benchmark (`benchmark.py`) | `BudgetMeter`: used, reserved, reservations, violation, seal | `reserve`, `settle`, `charge`, `assert_settled`, `report`; `MatchedBudgetHarness.run` | strategies, possibly in threads | a trial never gets more than its limits unless it is reported as a violation |
| solo execution (`execution.py`) | the run in the making: events, results, usage, error | `create_execution_plan`, `SingleModelBackend.execute`, `validate_execution_record` | a model adapter that answers, fails, bills | every end leaves a record that passes its own audit and bills what was used |
| decomposition (`decomposition.py`) | the tree so far, questions used, the exhausted flag | `ConceptualDecompositionEngine.decompose`, `validate_decomposition_proposal` | an oracle and a probe provider | the engine refuses of what it made only what is kept longer than it was let in, budgets go to the best axes |
| materialization (`materialization.py`, `execution.py`) | a plan bound to a proposal | `build_materialization_plan`, `delegation_payload_from_plan`, `execution_plan_from_decomposition` | takes a proposal, hands tasks to coordinator or solo execution | work rests on a decomposition sound to its last level |
| topology (`topology.py`) | the active snapshot, in the application's store | `create_fractal_case_proposal`, `apply_fractal_case_proposal`, `execution_plan_from_fi_case` | authors and reviewers | no concept is lost, nothing unreviewed changes, a case counts once |
| command line (`cli.py`), examples, demos | none | start-up | starts the server | nothing of its own |

### What is hard in it

Every handler is one `BEGIN IMMEDIATE` transaction, so the interleavings that
matter are those of whole calls: any request may come at any time, late, twice, or
from the holder of a lease that ended for one of six reasons (used, rejected,
expired, delegated, problem terminated, problem completed). Each mutating handler
first *sweeps*: it expires problems past their deadline and then leases past their
time, which may itself fail tasks, block problems and settle money. A handler that
then refuses its request rolls the sweep back with it. On the provider's side the
transactions are those of the local journal, and the interleavings are those of
several processes, their deaths, and submissions still on their way.

The remaining components are sequential, and hard in another way: a run can end at any of
many points and in many ways, its leftovers have to satisfy a validator written
separately, and what was validated once is used later, when something else has
changed. Decomposition shares two budgets between all levels of a recursion; solo
execution may find its limits, its adapter or the size of its own record against it;
cases are made against one snapshot and applied to another.

The hazards are listed one by one, each at its line, in `PROJECT.json`, with the properties
that would notice.

## 2. Modules and their correspondence to the code

| module | models |
|---|---|
| `CoordinatorDb` | the database as a value, and the operations transactions are composed of (`_expire_*`, `_terminate_problem`, `_settle_unused_funding`, `_credit_accepted_task`, `_refresh_*`, `_insert_task`) as operators from database to database |
| `Coordinator` | the public methods as actions, the clock, the restart with another configuration; `Spec`, `FairSpec`, `TypeOK` |
| `CoordinatorSafety` | what the coordinator promises: invariants, action properties, liveness, refinements |
| `FundedOrders` | abstract: each problem as an order that is funded, drawn on and closed |
| `LeaseLife` | abstract: the life of one node's leases of one task, and its answers |
| `ConnectedNode` | processes, journal and wire of a provider working on one task; its coordinator is `LeaseLife` |
| `Registration` | `create_node_invite` and `register_node` with requests and answers in flight |
| `Reframing` | `reframe_problem` beside all of `Coordinator` |
| `ResultGate` | accept specs, verdicts, their shortened traces and both audits of those |
| `Sublists` | what is kept of a sequence at certain positions |
| `ExecutionRecord` | task order, usage and limits, `validate_execution_record`: operators only |
| `SoloExecution` | `SingleModelBackend.execute`, making records for that audit |
| `Decomposition` | `decompose` question by question, and its validator |
| `Materialization` | what is made of a proposal; extends `Decomposition` |
| `ConceptGraph` | snapshots, cases, reviews, their application and compilation |
| `BudgetMeter` | one benchmark trial: the meter's methods, the strategy's threads, and the harness closing, evaluating and reporting the trial |
| `Totals` | sums over finite sets, as cardinalities |
| `MC...` | values of the constants for TLC |
| `...Proofs`, `SharedTheorems` | theorems and proofs (section 4) |

```
 FundedOrders <--refines-- CoordinatorSafety --refines--> LeaseLife
       ^                         |      ^                    ^
       | refines                 |      | extends            | is the coordinator of
       +------------------------ | -- Reframing              |
                             Coordinator               ConnectedNode
                                 |
                           CoordinatorDb

 Decomposition <--extends-- Materialization       ExecutionRecord <--extends-- SoloExecution
 Registration      ConceptGraph      BudgetMeter --> Totals      ResultGate --> Sublists
```

`LeaseLife` is the joint: the run `lifecycle` checks that `Coordinator` implements it
for every node and task, and `ConnectedNode` takes it as the coordinator its
processes talk to. So the properties of the journal hold against everything the
coordinator can do, and no product of the two models has to be explored.

**The database.** `db` is a record with a field per table. A task's id is its row
number and a problem's id its funding reference (both unique in the code); a lease
token is the triple of node, request and task it is derived from with HMAC
(`_derive_token`). `pathway_events` and `accepted_artifacts` get one row per
(passed) submission in the same transaction, so `submissions` stands for them. The
ledger is kept as the balance of each account (`escrow`, `refund`, `payable`,
`revenue`) and, because transfers carry a UNIQUE idempotency key, as the number of
transfers made under each key (`credits`, `refunds`): a second one would abort a
transaction of the real service; that the code never runs into the constraint is a part
of `TerminalIsSettled`.

**Handlers.** A handler is a function from database to database. `Swept(d, t)` is
what `_expire_due_problems` followed by `_expire_leases` can make of `d` at time
`t`; it is a set, because the overdue rows come in no particular order and a last
attempt among them blocks the problem, after which the loop skips its other rows.
An action takes some `d \in Swept(db, now)` and then does what the handler does:
answers an idempotent replay (`db' = d`), or passes every guard and changes rows.
When no guard passes the handler raises, the transaction rolls back, sweep
included, and there is no step. `create_problem` and `cancel_problem` do not sweep,
and neither do their actions; `publish_offering` and `approve_offering` do not
either. `get_problem` sweeps and reads: it is `Reap`.

**The provider.** Each process (`worker`) is at one place of `work_once`: idle,
leased, executing its handler, prepared, waiting for the receipt, holding the
receipt. `Claim`, `Prepare`, `RecordReceipt` and `Prune` are the transactions of
the journal. `Submit` puts a message on the wire, `Deliver` is its arrival, perhaps
after its process died; `Crash` is the death of a process or a call that fails. A
claim's random token is represented by the process that made the claim, since a
process runs one `work_once` at a time. The handler may return any Result on any
run of it.

**Admission.** A request is its invite, registration id and body; the node's token is an
HMAC of the three, and is that triple. Requests, once sent, may arrive any number of
times and at any time, which covers retries, duplicates, reordering and a second
process; they may differ in id and body. `answers` is a history of everything
`register_node` ever answered, lost or not.

**Reframing.** `Reframe` takes the sweep, then every guard of `reframe_problem` in turn:
the cited submission is the latest of the root and a real rejection, no lease,
proposal or unfinished child is left, what is retained was accepted, the successor
changes the frame, the key was not used for anything else. It inserts and funds the
successor with `Inserted` of `CoordinatorDb` and ends an active source with
`Terminated`, both in the one transaction. All actions of `Coordinator` go on beside it.

**The gate.** `EvaluateResult` is `evaluate_result` with the clauses that
`submit_result` adds in front; `CompactVerification` is the trace kept in a record,
where a large or repeated value becomes its digest. `AuditedInline` and
`AuditedDigestOnly` are the two audits, with the output still there and without it.
`Forge` rewrites one part of a stored trace and makes the rest fit.

**Solo execution.** `pc` is where `execute` is: planning, admitting, ready for the next
work, in a call, done, or out of it with an exception. Each action is a stretch of code
that ends at a call, at a return or at a raise. `Finish` is `_finish`, with the choice
whether the record fits, fits after compaction or does not fit at all. `billed` is a
history of what the provider took. `Valid` is the auditor's code, conjunct for
conjunct, and knows nothing of how records are made.

**Decomposition.** The Python recursion is flattened: `nodes` is the list of concepts in
the order they were begun, `at` the one in hand, and a concept's `step` the question that
is due. Returning from the recursion is `at' = Here.parent`. Each question is asked
(`Asked`) or skipped because questions ran out (`Denied`, which sets the flag). The
oracle's answers are choices. `Close` ends a concept and, for the root, runs
`ValidProposal`, the validator that `decompose` ends with: the outcome is a proposal, a
refusal, or a proposal too large to be returned. The validator reads what was kept as it
reads an answer. For most of it that changes nothing. A decimal number, however, is kept
`Written` out without exponent, while `_decimal` reads a bounded number of digits
(`Readable`), and the context of a concept is put together from its axis by `Recurse` without
the size check that `_normalize_context` makes later. Numbers therefore have their digits and
exponent here, and contexts their size.

**Topology.** A node's reference is the digest of its contract, so a reference stands for
its kind, name and supersedes, which are constants. A snapshot includes its
predecessor, as its digest does. `Reviewable` is `create_fractal_case_proposal` with all its
tests, and `Apply` evaluates it a second time, as `apply_fractal_case_proposal` does. Up to
`MaxCases` are proposed, approved and applied in any order.

**The meter.** Every method of `BudgetMeter` holds its lock from beginning to end
and is one step. The harness runs a trial in one thread: `Return` is `solve`
returning and `assert_settled`, `Raise` the `except` clauses when it raises instead,
`Evaluate` the check of the output and the evaluation, `Report` the record appended
to the trials. The strategy's threads are not joined, so calls go on during and after
all of that. A provider call is paid for either way the strategy adapters have,
`reserve` before and `settle` after it, or `charge` after it; `call` says how far it
is, and the history variable `spent` what the provider took for it. The other three
dimensions of a budget are treated like the two of the run.

**Mutations.** A definition whose comment starts with `Mutation:` is not part of
the model. It is a plausible bug in the definition after it; replacing the one by
the other must make TLC find a violation of the property `PROJECT.json` lists it
for. It shows that the property is about the code and that the bounds of the run
are large enough to reach the case.

## 3. Runs

Bounds are constants of the `.cfg` files; the small sets of specifications, plans
and bodies are in `MCCoordinator`.

| run | question | bounds | distinct states |
|---|---|---|---|
| `lifecycle` | do attempts, says, tree, money, quotes, escrow, leases and endings survive every interleaving of delegation, results, timeouts, deadline and restarts? | 2 nodes, 1 problem, 3 tasks, 2 requests per node, in-flight limit 1, 2 proposals, fees 0 and 34 %, two bodies: a root with 2 attempts and 2 children with 1 or 2 attempts (deadline 4), or a chain of three tasks (deadline 2); clock to 4, lease of 2 | 119 900 |
| `market` | is the money of two problems apart, and does every problem settle? | 2 nodes, 2 problems, one of them delegated, one lease per node, clock to 2, no symmetry | 40 305 |
| `lineage` | does what a reframe was decided on stay true, and are its two problems' books apart? | 2 nodes, 3 problems in a chain of reframes, 5 tasks, 2 keys, 3 successor bodies, clock to 1 | 10 907 |
| `retries` | does an invite make one node, whatever is sent how often? | 2 invites of lifetimes 1 or 2, 3 nodes, 2 ids, 2 bodies, clock to 3 | 86 640 |
| `outbox` | do journal and coordinator agree? | 2 processes, 2 lease requests, 2 submission ids, 2 Results | 356 677 |
| `replay` | is a lease executed by one process only? (a violation, see below) | as `outbox` | |
| `gate` | is a pass what the contract says, and does its trace prove that? | 2 paths, 9 values, 10 clauses, specs of up to 2 clauses, 3 minimums, 6 forgeries | 259 751 |
| `remaining` | is the minimum pass rate that of the clauses that are not critical? (a violation, see below) | as `gate` | |
| `solo` | does every end leave a sound record? | all 512 relations over 3 tasks; 5 limits, 4 usages | 44 080 |
| `plans` | does the engine accept its own trees but for lengths, share budgets rightly, and make work of sound ones only? | 4 policies with up to 3 concepts, 3 levels, 2 candidates, 1 retry, 1 probe, 7 to 15 questions; 3 feeds; numbers 10^99 and 10^100, contexts at the limit and one byte over | 3 311 998 |
| `cases` | do cases that are each in order stay so together? | 10 concepts, 15 edges, patches of up to 3 edge changes, 2 routes, 2 cases, 3 changes | 14 062 |
| `trial` | are the books of a trial right however calls and closing interleave? | 3 calls, 2 dimensions with limits 2 and 3, 4 usages | 27 829 |

Why the bounds are enough. Two nodes are needed for one to delegate and the other
to execute, and for "the same node twice" to differ from "two nodes"; a node with
two requests can lease a task, give it back and lease it again, replay the first
request and use the first token. Two attempts and two proposals let an attempt be handed
back, used and timed out in every order. The clock runs past the deadline, and the
lease and deadline are such that a lease can end before the deadline, exactly at
it, and can no longer be given. 34 % of 3 units rounds down to 1 and of 1 unit to
0, so both branches of the fee are taken. In `lifecycle` a plan that costs
more than the budget (a task that delegates, below another such) and one that drops a
constraint (a leaf without any) are offered, and must be refused. There each node has two
requests and may have one lease out, so that only the check of the limit keeps a node from two;
two children of one problem can be leased, and be overdue in one sweep, one of them on its last
attempt.
Two invites let requests of one be confused with the other's; three problems make a
chain in which a successor is reframed in turn. In `gate` two clauses let one be passed
and one failed, critical or not, and repeat a value; the values hold every pair of types
an operator tells apart, `null` beside an absent value, and large ones. With three
tasks there are chains, tasks with two dependencies, and cycles that leave a task out. In
`plans` questions run out at every kind of question and at every level, and with the
right answers some are left over; with 3 concepts the levels below the first axis compete
with the second axis, or three of them below each other are complete. The digits that can be
read are 100, so 10^99 is read back as it was written and 10^100 is not. Two cases
that are approved at the same time are what stale reviews need, and three changes let
the first graph come back.

`TaskPool`, `MaxTime`, `MaxOrders`, `MaxCases`, `MaxChanges`, `Exposed` and the sets of ids
are the only bounds the code does not have; all others are configuration or input.
Three calls allow two open
reservations with a third call refused because of them, or one of them overrunning
while the other is still settled; the usages include one that exhausts a dimension
and one that takes nothing of it. Deadlock is checked in the runs of coordinator, node and
decomposition: retries and sweeps, or another run of the engine, are always possible. It
is not checked where things really end: a trial that was reported and whose calls have
ended, a run that is done, a trace that was rewritten, cases at their bound, invites
after the last request at the last time.

The properties, briefly (each is stated in full where it is defined):

- `AttemptLedger`: a task's attempts are its submissions plus its live lease.
- `OneSubmissionPerNode`: a node has one say on a task, timeouts included.
- `TreeConsistent`: states of parents, children, proposals and problem fit together.
- `TerminalIsSettled`, `TerminalIsFinal`: an ending is complete, every transfer was made
  under a key of its own, and nothing changes afterwards.
- `LeasesAreHonest`: a lease is out only where it may be, and not too many per node.
- `EscrowCoversCommitments`, `FundsConserved`, `QuotesHonoured`, `PaidByLiveLease`,
  `ImplementsOrders`: money.
- `ImplementsLeaseLife`: a lease that ended is never good again.
- `EveryProblemSettles`: funded work is not locked for ever.
- `LineageStands`: a reframe has one successor and its grounds stay as they were.
- `OneIdentityPerInvite`, `TablesAgree`, `RecoverableUntilExpiry`: admission.
- `JournalMatchesCoordinator`, `OneResult`, `OwnerIsFresh`, `SoleLeaseRunsOnce`,
  `OneExecutorPerLease`: the provider's journal.
- `GateIsContract`, `RemainingRateMeets`, `HonestTraceAudits`, `NoUnearnedPass`: what a pass
  means, by the code and by the document, and what a
  trace of it proves to somebody who has the plan but no output.
- `OnlyCyclesRefused`, `BillIsKnown`, `RecordsValidate`, `TamperingShows`: plans, bills and
  records of solo runs.
- `OnlyLengthRefuses`, `BestFirst`, `WorkRestsOnAll`: decompositions and what is made of them.
- `Rooted`, `ConceptsKept`, `AppliedOnce`, `UnreviewedStays`, `PlansCanRun`: the concept graph.
- `EntitlementsFit`, `BooksBalance`, `CompletedIsAccounted`: the meter never promises
  more than is left, its books are the calls' history, and a trial closed in order
  stays as it was reported.

Typing is part of one of these where a module's types say something of their own;
`TypeOK` of the coordinator, with its references between rows, is a property of `lifecycle`.

### Fairness

`FairSpec` has weak fairness of `Tick` and of `Reap` and nothing else. The clock
goes on. `CoordinatorHTTPServer` starts a daemon thread that calls `reap_expired`
every second until the server is closed, and an exception in one round does not end
the loop (`api.py`, `_reap_loop`), so a sweep that remains possible is made.
Nodes, customers and the operator are under no obligation, and `EveryProblemSettles`
holds without any. It needs deadlines to be mandatory (`_insert_problem_request`
requires one in the future), which the model has from the code. The clock stops at
`MaxTime`, which is not before any deadline, so stopping it helps nothing.

### Divergences between documentation and code

`docs/protocol-v1.md:159-162` says that the journal prevents two local processes,
or two submission ids, from executing one lease concurrently. `SoleLeaseRunsOnce` shows
that for a task as long as it was leased once. With two leases of the same task it fails
(`replay`): `claim` deletes the claims of the task under *every other* lease,
whichever is the newer (`worker.py:277-283`). The node leases the task, gives the
lease back by delegating it, and leases it again after the proposal was rejected.
A process claims the new lease and starts its handler. Another process replays the
old lease request, as the protocol invites it to, is answered with the old lease,
and its claim deletes the new lease's claim. A call with the new lease then finds
no claim under it and starts the handler again. The damage is bounded: `prepare`
refuses the process that lost its claim, no two Results are journaled for a lease,
and the coordinator takes one (`OneResult`, `OwnerIsFresh`, `outbox`).

`docs/protocol-v1.md:345-346` says: "Every critical clause must pass. The remaining pass rate
must meet `minimum_pass_rate`." `evaluate_result` takes the rate over all clauses, the critical
ones among them (`gates.py:139-142`). A spec with a minimum of one half, a critical clause that
passes and another that fails comes to exactly one half and passes, though of the remaining
clauses none does: `RemainingRateMeets` states the document, and `remaining` finds this.
`GateIsContract`, which `gate` checks, is the contract with the rate of the code.

`docs/solo-mode.md:249-253` says that a record that would exceed the cap after a paid
response fails closed, with its task outputs as digest references. When the response
also overran a limit, `_finish` turns `budget_exceeded` into `failed` / `record`
(`execution.py:2150-2161`), and the validator then requires the usage to be within the
limits because the status is no longer `budget_exceeded` (`execution.py:1971-1976`).
The record that `execute` makes does not pass its own `validate_execution_record`.
`RecordsValidate` states this exactly: every record is valid but for a
compacted overrun (`TruncatedOverrun`), and that never is.

Some further points were met while modelling and have no run of their own:

- When the traces of the verdicts alone exceed the cap, the second `_finish_record`
  raises out of `execute` (`execution.py:2157`) and there is no terminal record, which
  `docs/solo-mode.md:249-253` does not mention. It is `pc = "raised"` in the model.
- A marginal value of, say, 10^200 is accepted (`decomposition.py:361-366`), kept as 201
  digits (`decomposition.py:382`), and refused when the validator reads it again
  (`decomposition.py:1077-1083`). So is the context of a concept whose axis came with long
  enough bounds (`decomposition.py:960-968`, then `1306` and `198-203`). Either way the run
  ends with an exception after all its questions were asked, and nothing of it is returned.
  `docs/conceptual-decomposition.md:95` says only that decimal
  input is bounded. `OnlyLengthRefuses` says that it is the only such case.
- `docs/benchmarking.md:50-54` says that closing a trial seals its meter. `run` seals when
  `solve` has returned (`benchmark.py:527`); when it raises, the trial is reported with the
  meter open (`benchmark.py:593`), and a call still under way is entered after the
  report. For a trial closed in order the claim holds: `CompletedIsAccounted`.
- `docs/benchmarking.md:45-48` says that an incomplete usage record invalidates the trial.
  In `settle` it leaves the reservation open, which does. In `charge`
  (`benchmark.py:272`) it raises an error and leaves no trace, and a strategy that
  handles the error completes.
- The budget of concepts of a decomposition goes to the best ratios among the axes of
  one concept only: the levels below the best axis draw on it before the second best is
  looked at. `BestFirst` is stated accordingly. An oversized proposal, or an oracle that
  answers in the wrong form once, loses the whole run.
- In topology, concepts on the ascent other than the subject are in the reviewed closure,
  so that a composite there may lose a part to a case about something below it.

## 4. Proofs

`tlapm` checks, for every value of the constants that satisfies their assumptions:

| module | theorem | says |
|---|---|---|
| `CoordinatorProofs` | `TypeCorrect` | `Spec => []TypeOK` |
| | `AttemptLedgerHolds` | `Spec => []AttemptLedger` |
| | `OneSubmissionPerNodeHolds` | `Spec => []OneSubmissionPerNode` |
| | `TreeIsConsistent` | `Spec => []TreeConsistent` |
| `CoordinatorLedgerProofs` | `TerminalStaysFinal` | `Spec => TerminalIsFinal` |
| | `LeasesStayHonest` | `Spec => []LeasesAreHonest` |
| | `EscrowIsEnough` | `Spec => []EscrowCoversCommitments` |
| | `MoneyIsConserved` | `Spec => []FundsConserved` |
| | `EndsAreComplete` | `Spec => []TerminalIsSettled` |
| | `QuotesStand` | `Spec => []QuotesHonoured` |
| | `PaidForLiveLease` | `Spec => PaidByLiveLease` |
| | `OrdersAreImplemented` | `Spec => ImplementsOrders` |
| | `LeasesAreImplemented` | `Spec => ImplementsLeaseLife` |
| | `ReframingTypeCorrect`, `ReframingAttemptLedger`, `ReframingOneSubmission` | the first three for `ReframeSpec` |
| | `LineageHolds` | `ReframeSpec => []LineageStands` |
| | `ReframingOrders` | `ReframeSpec => ImplementsOrders` |
| `ProviderProofs` | `TablesAlwaysAgree` | `AdmissionSpec => []TablesAgree` |
| | `OneIdentity` | `AdmissionSpec => []OneIdentityPerInvite` |
| | `Recoverable` | `AdmissionSpec => []RecoverableUntilExpiry` |
| | `JournalStaysMatched` | `ConnectedNode`: `Spec => []JournalMatchesCoordinator` |
| | `OneResultAlways` | `Spec => []OneResult` |
| | `OwnersAreFresh` | `Spec => []OwnerIsFresh` |
| | `SoleLeaseIsRunOnce` | `Spec => SoleLeaseRunsOnce` |
| | `ServerIsLeaseLife` | `Spec => Task!LeaseLifeSpec` |
| | `GateAlwaysIsContract` | `GateSpec => []GateIsContract` |
| | `HonestTracesAlwaysAudit` | `GateSpec => []HonestTraceAudits` |
| | `NeverAnUnearnedPass` | `GateSpec => []NoUnearnedPass` |
| `ConceptGraphProofs` | `NoConceptLost` | `Spec => []ConceptsKept` |
| | `OnlyReviewedChanges` | `Spec => UnreviewedStays` |
| | `AlwaysRooted` | `Spec => []Rooted` |
| | `CompiledPlansRun` | `Spec => []PlansCanRun` |
| | `AppliedOnceAlways` | `Spec => []AppliedOnce` |
| `DecompositionProofs` | `OnlyLengthEverRefuses` | `Spec => []OnlyLengthRefuses` |
| | `BudgetsGoToTheBest` | `Spec => []BestFirst` |
| | `WorkIsSound` | `MaterializationSpec => []WorkRestsOnAll` |
| | `EngineRunsAlone` | `MaterializationSpec => Spec` |
| `SoloProofs` | `RunTypeCorrect` | `SoloExecution`: `Spec => []TypeOK` |
| | `CyclesRefused` | `Spec => []OnlyCyclesRefused` |
| | `BillAlwaysKnown` | `Spec => []BillIsKnown` |
| | `AlwaysTInv` | `Spec => []TInv`: the trace is that of the tasks done |
| | `RecordsAlwaysValidate` | `Spec => []RecordsValidate` |
| | `AlwaysSilent` | `Spec => []SInv`: what the trace has that is no evidence |
| | `TamperingAlwaysShows` | `Spec => []TamperingShows` |
| `BudgetMeterProofs` | `MeterTypeCorrect` | `BudgetMeter`: `Spec => []TypeOK` |
| | `EntitlementsHold` | `Spec => []EntitlementsFit` |
| | `BooksAlwaysBalance` | `Spec => []BooksBalance` |
| | `CompletedAccounted` | `Spec => []CompletedIsAccounted` |

The assumptions are those named in the modules, and TLC evaluates them in every run. For
the coordinator: finitely many nodes, problems and table rows; specifications, bodies and
plans as `validate_task_spec` and `_normalize_problem_request` leave them; a configuration
`ServiceConfig` accepts; the null value and the made-up submission ids apart from
everything else. For the others: null values that are none of the values beside them
(`ConnectedNode`, `Registration`, `Decomposition`, `BudgetMeter`), a finite graph of known
concepts to start from and reviewable inputs (`ConceptGraph`), task lists without
repetition and natural numbers for limits and usages (`SoloExecution`, `BudgetMeter`), and
specs that are sequences of clauses, values told apart by their texts, digests that are no
values and an absent value that is none either (`ResultGate`; what a spec must *say* is
`ValidSpec`, which the model checks as the code does).

**Types.** `TypeOK` is inductive as it stands, because it contains `ReferencesOK`:
rows refer to rows that exist, and a task holds a lease exactly while it is leased.
The proof follows the composition of the handlers: one lemma per operator of
`CoordinatorDb` says that it takes a well-typed database to a well-typed one
(settling, terminating, expiring, crediting, refreshing), one per action uses them.

**Attempts and submissions.** Neither invariant can be proved action by action
without repetition, since every action contains the sweep. The proof therefore
describes what may happen to a single task's row and submissions in one database
operation: nothing of interest (`QuietMove`), a lease (`LeaseMove`), a lease given
back (`ReturnMove`), a recorded answer or timeout (`RecordMove`). `MovesTo` says
that every existing row makes one of these moves and that new rows are fresh;
`RowOK` is the conjunction of both invariants for one row, and each move preserves
it. What is left is to show that every operator of `CoordinatorDb`, and then every
handler, is a `MovesTo`. The strengthening that makes `OneSubmissionPerNode`
inductive is in `OneEach`: not only are submissions of one task by distinct nodes,
the node now holding the lease is not among them. That follows at leasing from
`Candidates` excluding nodes with a rejected submission, together with the fact
that a passed submission leaves its task accepted, so that an open task has only
rejected ones.

**The tree.** What relates different rows needs the whole database, so each operation is
described once more, as one of a few moves of the database: problems end (`Ends`), leases
lapse (`Frees`) or are given (`Gives`), a proposal is made or refused (`Turns`) or approved
with its children (`Approves`), a task is accepted and with it perhaps ancestors
(`Passes`), a problem is created with its root (`Inserts`), an offering changes. Every
handler is shown to be a sequence of such moves, sweep first, and from then on a fact about
the coordinator is a fact about moves. `Treed` is the inductive invariant: where a row
hangs (`Linked`, `OneRoot`), how its state fits its proposals and children (`Shape`) and
how it fits the status of its problem and the credit it got (`Ending`). It is stronger than
`TreeConsistent` in that a task awaiting approval is less deep than the limit, which is what
bounds the depth of its children, and in that a task is credited exactly if it is accepted.

**Leases, money and ends.** All of these follow from one invariant of a database, `Sound`:
the tree, honest leases (`Honest`), solvent accounts (`Solvent`) and quotes that are paid
(`Quoted`). `SolventAt` says of one problem that escrow, refund and what accepted tasks were
paid add up to what was funded, and that while it is active the escrow covers what it
may still owe: the reward of each task not accepted, and the budget of each that has
no children yet. A delegation turns a budget into rewards and budgets of children that
add up to no more; acceptance pays from the escrow what it takes off the debt; an end
empties it. A task whose problem is active is never paid short for that reason. `Balanced` sums
the same rewards by recipient. `PaidByLiveLease` and `TerminalIsFinal` are then about a
single move, and a handler has at most one that is not an expiry.

**Refinements.** A handler does several moves in one step, and the abstract specification
must make at most one step of them. For the orders, an expiry closes the order (`Settling`)
and a closed order is not touched again, so whatever the handler does after its sweep to
another problem is a step by itself, and to the same problem nothing. For `LeaseLife`,
`LeaseView` is what one node sees of one task; what a sweep shows it is one step or nothing,
and after that step there is nothing left to see (`Quiet`, `Spent`). So the composition of a
sweep with the handler's move is a single step of `LeaseLife` or a stutter, for every node
and task, with the invariant `Sound` supplying the guards.

**Reframing.** The handlers' moves are those above, followed by one more: `Reframed` ends the
source if it has not ended and inserts the successor. So `Sound` holds with reframes too.
`Standing` adds what `LineageStands` needs: problems have a root and blocked ones a failed
task (`Rooted`), a blocked task's problem has ended (`Stopped`), and each reframe is
what it was when it was decided (`LineageAt`), which no move changes because the source has
ended. That the lineage has no cycle follows from the root of a successor being a later row
than the root of its source.

**Admission.** `OneIdentityPerInvite` relates answers given at different times, and is
not inductive. What is, is that every answer ever given is what the registration of its
invite says now (`AnswersRecorded`), together with the types and `TablesAgree`:
registrations are written once, and `TablesAgree` makes a node's row belong to one of them.
All three theorems follow from that one invariant. It holds for any number of invites,
nodes, requests and retries, and for an unbounded clock.

**Results.** The invariant of the connected node follows a Result on its way: what a process
holds, what is on the wire and what the coordinator answered is what the journal holds
under that id (`Agreed`), and a claim is for a lease and an id without a Result, and the
only one (`Claimed`). `OneResult` follows because a journaled Result never changes, and
`SoleLeaseRunsOnce` from `Started`: what was started for the only lease has left a claim or
a Result. A crash keeps the journal and loses the process; that the claim survives it is what
`Claimed` needs. `ServerIsLeaseLife` shows that the coordinator of this model takes only
steps of `LeaseLife`, which `LeasesAreImplemented` proves of the real one.

**The gate.** The state's part is small: `GateInv` says that the verdict is the gate's on
the spec and the submission at hand, and that a record, however it was rewritten, still has
the shape of a trace (`ForgedIs`). The three theorems are then about operators. *Contract:*
the rows of a verdict are those of the coordinator's own failed checks, which are critical
and at most two, before one for each clause of the spec (`AllRowsAre`); if there is none of its
own, the rate is that of the spec, and otherwise the rate does not matter (`PassIsContract`).
*Trace:* a row is shortened given what is in the rows before it. By induction over rows,
what these hold is large or kept among them (`BeforeKept`), so a digest stands for nothing
that is lost; shortening changes no flag and no id, so the trace is still the verdict on its
own rows, and picks the same failed ones (`PickedTogether`, `TraceIsFailed`). The ids are
distinct because `ValidSpec` says so of the clauses and keeps the reserved ones apart.
*Forgeries:* of a trace accepted without its output, the reserved rows are none or the
schema's. One that is there has failed and is critical, so the trace rejects. With none, all rows
are the plan's clauses with the plan's flags for critical and the plan's minimum, and the
rate, which may be any fraction equal to the true one, meets that minimum exactly if the true
one does (`SameFraction`).

**Concepts.** `ConceptsKept` says that there is a revision out of every set of retired
concepts, which is reachability without induction. Applying a case retires only what an
added concept supersedes; a set that contains a newly retired concept either has that
heir outside it, or has an old way out. For `Rooted`, the traversal of `_validate_graph`, which
visits a node after its parents, is a recursive function over rounds. Of any set of
nodes consider the one that is visited in the earliest round: its parents were visited before,
hence lie outside the set, and only the root has none. `AppliedOnce` needs history, which snapshots carry: `LineOf` is the
sequence of snapshots that were active, each the predecessor of the next. They are all
different, because a snapshot contains its predecessor, and a case contains the one it was
made against.

**Decomposition.** The validator looks at a finished tree, and the engine makes it one
question at a time, so the invariant describes unfinished trees. `LocalOK` says of one
concept what it may hold by the step it is at: for instance that axes and
candidates left to judge together stay within what the policy allows, that checks
are at most one more than retries, that values come in order and decisions follow from them.
`Linked` says that every concept but the root hangs from exactly the axis that names it,
one level up. `Chain` is the stack of the recursion: what is not yet done is the
concept in hand and its ancestors, each the last one open before the next, so that
when the root closes all are done. The questions are all alike: they change the concept in
hand by a `Moves` and the count of questions, which is proved once (`QuestionIInv`);
one lemma for each shows that it is such a move. Only recursing, refusing and closing touch the
shape of the tree. When the root closes, `ValidProposal` follows for a tree in which nothing
is `Long`: each local fact is the validator's for that node, and `InTree` is all of the tree by
`Linked`. What makes lengths the only exception is that a number was `Readable` when it came, and
is still so when written out unless its exponent is not below the digits allowed (`Kept`,
`WrittenKept`).
`BestFirst` needs more: `OInv` adds that among the axes of a concept those taken further
are worth no less than those still waiting, and that a refusal is excused by a budget that
is used up. Its inductive heart is that a concept is begun only while nothing at all has been
refused, and gets the largest number so far, so that the order of numbers is that of ratios.

**Work.** `WorkRestsOnAll` looks inside the proposal that the work is made of. `TInv` adds to the
engine's invariant that a concept waits only for what its step says (`Tidy`), and that a
proposal's concepts are all concluded, with `budget_exhausted` at the root exactly if a budget
was (`Finished`); `MInv`, that plans and work exist only for a proposal in which nothing
fails and bind one task to each axis of its root. A materialization changes nothing the engine
reads, so the engine's theorems carry over (`EngineRunsAlone`).

**Solo execution.** Four things are proved. *Order:* `_topological_task_order` works in rounds,
each taking all that is ready. By induction over the rounds, what is placed is `Ordered`:
distinct, and after all it depends on. A round that places nothing means that the tasks left
wait on each other; one that always places something places all after as many rounds as there
are tasks. So the order is incomplete exactly if some set of tasks waits on itself, which is
`OnlyCyclesRefused`. *Account:* as long as a run goes on, it knows its bill and is within its
limits (`Open`). Every way to end is then one step from there, and `BillFits` is about that
step: the response that was billed is noted with its usage, or the call is the one that
is not known. `Overran` adds that a run over its limits ended by the response it rejected.
*Records:* the validator asks more than twenty things of a record, most of them about where an
event stands in the trace. The invariant `TInv` says instead what the trace *is*: for the
k-th task done a start, an end and an evaluation at 3k-2, 3k-1 and 3k, and after them what
there is of the next call (`Grounded`). Each step of a run appends one or two events and keeps
that (`WaitingTraced`, `MissTraced`, `TaskTraced` and the like), with an account that is the sum
over the metered events (`Counted`). A run that ends is `Closed`, in one of four ways: the budget
is out, a call failed, a result was rejected, the synthesis was delivered. For each of these all
places of all events are then known, and `Valid` is evaluated condition by condition
(`CutHolds`, `RejectionHolds`, `ConclusionHolds`). A compacted record keeps its events and
adds one that says what the run had come to, by which its validator finds what it would have
asked of the whole one (`CompactHolds`). All of that holds for any usage within the limits or not;
what is left of the validator is `WithinLimits`, which fails for `TruncatedOverrun` alone.
*Evidence:* `TamperingShows` compares a record with every record that has one thing changed. As
all but its mode is that of a valid Network record (`Returned`), what its trace shows is known,
and so is what validation would ask of the changed one. An event of evidence is single among
those of its kind and work, so doubled it shows (`DoubledShows`); with it missing, a start has no
end, an end no start, or there are fewer evaluations than results or marks than the status
asks for (`RemovedShows`). An exchange keeps all kinds and works and moves places only.
Validation ties almost every event to the one before it: a start to the evaluation before,
an evaluation to its answer, an end, by order, to its start (`Turning`, `Trails`), and the
closing events to the end of the trace. So neither the later of the two can be evidence, as it
would have to stay behind what precedes it, nor the earlier alone (`NoExchange`); for the latter
the proof needs `SInv`, that the one event that may be no evidence comes right after the
last result's. For usage, results, verdicts and status one condition each is
enough (`ClaimsShow`).

**Sums and sublists.** `Total` counts the units of its summands, so `SharedTheorems` obtains what
one more, one less or an equal summand does to a sum from the library's theorems about
cardinalities. Of `Picked`, what both the solo records and the gate keep rows with, it has what
was picked and in which order, that picking from sequences alike picks alike, and how many.

**Induction.** The library's theorems of induction take an operator as a parameter, which no
prover here can instantiate. `AllNaturals` says the same of a set of naturals, and is proved
from the well-foundedness of `<` on them. Where a proof needs induction, the set is defined
by what is to be shown, and the recursive definitions (`Picked` in `Sublists`, the rounds of
the ordering and of the traversal) are recursive functions, never operators.

**The meter.** Assumed are finitely many calls, limits and usages of natural numbers,
and a null value that is none of them. `EntitlementsFit` is inductive with the types:
a settlement within its maximum lowers the promise by at least what it adds to the
use. `BooksBalance` is inductive too, by the theorems on sums. `CompletedIsAccounted`
needs both: at `Return`, no reservation is open, so by the books nothing is promised,
and what is used alone fits the limits. Its strengthening `ReportedLast` says that
nothing is reported before the trial has ended; from there on the seal keeps the rest.

Only model-checked: `EveryProblemSettles`, which is liveness and out of the prover's reach.
Every invariant and every other action property of the passing runs is proved.

## 5. Abstractions and limits

- The clock is monotone and integral. The code reads `time.time()`; a clock set
  back is not modelled. Equal readings are possible, and ties in `ORDER BY
  created_at, id` are broken either way because ids are random.
- Of `ServiceConfig` only the fee changes at a restart. The other parameters are
  constants of an instance.
- Authentication is represented by handlers taking the node as a parameter: a node
  acts only as itself. `last_seen_at` and rows' `updated_at` are left out.
- Inputs, outputs, accept specifications and gates are reduced to the outcome the
  gate may have. Requirements are capabilities and sets of constraint pairs.
- Results with the same outcome count as the same Result in `Coordinator`; what
  happens to differing Results under one id is in `ConnectedNode`.
- `ConnectedNode` looks at one task. Journal rows of different tasks do not
  interact: every query of the journal has the task in its WHERE clause.
- The wire may delay a submission arbitrarily and lose it (it is then never
  delivered); a duplicate is a second `Submit` of the prepared Result.
- Reads that change nothing (`list_*`, `get_node_earnings`, `pathway_summary`) are
  left out, as are `heartbeat` and other uses of `last_seen_at`.
- Digests are collision free: a digest is a wrapper around its content. What becomes of a
  record or a proposal whose bytes exceed a cap is a choice: of sizes, only the digits of
  numbers and the bytes of contexts in `Decomposition` are modelled, each as a number of its own,
  apart from what is in them.
- JSON values at the gate are their type, text, number, parts and whether they are large.
  `minimum_pass_rate` is in per cent and rates are compared as fractions of integers;
  the code compares floating-point numbers.
- In `ExecutionRecord`, "other" stands for input tokens, reasoning tokens and money, which
  the code treats alike.
- In `Decomposition`, an axis is its place among the axes kept, and a ratio a number; of the
  decimals of an estimate the one that is written longest is kept, by its digits and exponent.
  The arithmetic that makes the ratio of them, rationales and warnings are left out. Equal ratios are taken in any order: the
  code breaks ties by a digest.
- In `ConceptGraph` the store that holds the active snapshot, and its compare-and-swap, is the
  application's. Whether a subject's decomposition allows it to be executed is left open.

### Not modelled

- `cli.py`, `examples/` and the demos: argument parsing and start-up.
- Schema migration (`database.py`): it runs before the service starts.
- `client.py`, `api.py` beyond the reaper: encoding, URL checks, sizes and status codes. A call
  that is lost, late or repeated is in `ConnectedNode` and `Registration`.
- `protocol.py`, `schema.py`: JSON shapes and wording. What they let through is in the
  assumptions about specifications, bodies and plans.
- `_aggregate`, the order of arms and the digests of the benchmark: pure functions of the
  trials' records.

## 6. Plan

All components with behaviour of their own are modelled, and all that the passing runs check but
`EveryProblemSettles` is proved. A change of the code comes first to the module that the map of
`PROJECT.json` names for its lines, then to that module's run, and last to its proofs: the
inductive invariants of section 4 are what a new action has to keep.
