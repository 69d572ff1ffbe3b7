--------------------------- MODULE ExecutionRecord ---------------------------
(***************************************************************************)
(* What execution.py says about a run without running it: the plan of      *)
(* tasks, the account of provider usage, and validate_execution_record,    *)
(* the audit of a terminal record against the plan it claims to follow.    *)
(*                                                                         *)
(* An event carries its position as its sequence number.  A content digest *)
(* is a wrapper around the content.  Of the metered token and money        *)
(* dimensions, output tokens have a cap of their own and are kept;         *)
(* "other" stands for input tokens, reasoning tokens and money, which the  *)
(* code treats alike.  Executors, references and schemas are left out.     *)
(*                                                                         *)
(* A definition whose comment starts with "Mutation:" is a plausible bug   *)
(* in the definition after it and no part of the model.                    *)
(***************************************************************************)
EXTENDS Integers, Sequences, SequencesExt, Sublists

CONSTANTS
    Tasks,           \* task ids
    TaskList,        \* the tasks in the order the plan lists them
    Synthesis,       \* the work id of the synthesis
    None

ASSUME TaskListAssumption ==
    /\ TaskList \in Seq(Tasks) \ {<<>>}
    /\ IsInjective(TaskList) /\ Range(TaskList) = Tasks
    /\ Synthesis \notin Tasks

-----------------------------------------------------------------------------
(* The plan *)

\* Mutation: one dependency placed is enough.
ReadyWithAny(deps, placed) ==
    Picked(TaskList, {i \in DOMAIN TaskList :
        /\ TaskList[i] \notin Range(placed)
        /\ deps[TaskList[i]] = {} \/ deps[TaskList[i]] \cap Range(placed) # {}})

\* One round of the ordering: tasks not yet placed whose dependencies are.
Ready(deps, placed) ==
    Picked(TaskList, {i \in DOMAIN TaskList :
        TaskList[i] \notin Range(placed) /\ deps[TaskList[i]] \subseteq Range(placed)})

\* As many rounds as there are tasks are enough; a cycle is never placed.
TopologicalOrder(deps) ==
    LET placed[i \in 0 .. Len(TaskList)] ==
            IF i = 0 THEN <<>>
            ELSE LET before == placed[i - 1] IN before \o Ready(deps, before)
    IN placed[Len(TaskList)]

\* create_execution_plan refuses the task graph otherwise.
IsPlan(deps) ==
    /\ \A t \in Tasks : deps[t] \subseteq Tasks \ {t}
    /\ Len(TopologicalOrder(deps)) = Len(TaskList)

-----------------------------------------------------------------------------
(* The account *)

NoUsage == [calls |-> 0, output |-> 0, other |-> 0]

Plus(total, u) ==
    [calls |-> total.calls + 1, output |-> total.output + u.output,
     other |-> total.other + u.other]

\* What metered events come to.
Spent(events) ==
    LET total[i \in 0 .. Len(events)] ==
            IF i = 0 THEN NoUsage ELSE Plus(total[i - 1], events[i].usage)
    IN total[Len(events)]

\* The dimensions in which a run is over its limits.
Exceeded(limits, usage) ==
    {d \in {"calls", "output", "other"} : usage[d] > limits[d]}

-----------------------------------------------------------------------------
(* The trace *)

Ends == {"backend_execution_failed", "backend_response_invalid", "backend_response_rejected",
         "backend_response_incomplete", "backend_execution_completed"}
Metered == Ends \ {"backend_execution_failed"}
WorkEvents == Ends \cup {"backend_execution_started", "call_blocked", "call_preparation_failed"}

Event(kind, work) ==
    [event |-> kind, work |-> work, usage |-> None, ref |-> None, note |-> None]

Digest(content) == [digest |-> content]

\* The gate's verdict is a function of the output.
Evaluate(output) == IF output.good THEN "pass" ELSE "reject"

Of(r, kinds) == Picked(r.events, {i \in DOMAIN r.events : r.events[i].event \in kinds})
Works(events) == [i \in DOMAIN events |-> events[i].work]
TaskWorks(events) == Picked(Works(events), {i \in DOMAIN events : events[i].work # Synthesis})
At(r, kind, work) == {i \in DOMAIN r.events : r.events[i].event = kind /\ r.events[i].work = work}
Position(r, kind, work) == CHOOSE i \in At(r, kind, work) : TRUE
Results(r) == [i \in DOMAIN r.results |-> r.results[i].task]

\* An event that names work names work of the plan.
RefersToPlan(r) ==
    \A i \in DOMAIN r.events : r.events[i].event \in WorkEvents =>
        r.events[i].work \in Tasks \cup {Synthesis}

StartedOnce(r) == IsInjective(Works(Of(r, {"backend_execution_started"})))

\* Each started call ends exactly once, after it started.
Paired(r) ==
    /\ StartedOnce(r)
    /\ IsInjective(Works(Of(r, Ends)))
    /\ \A i \in DOMAIN r.events : r.events[i].event \in Ends =>
           \E j \in 1 .. i - 1 :
               r.events[j].event = "backend_execution_started" /\ r.events[j].work = r.events[i].work
    /\ Range(Works(Of(r, {"backend_execution_started"}))) \subseteq Range(Works(Of(r, Ends)))

\* Results are those of a prefix of the plan; only the last can be a rejection.
PrefixOfPlan(r, order) ==
    /\ IsPrefix(Results(r), order)
    /\ \A i \in DOMAIN r.results : r.results[i].status = "contract_rejected" => i = Len(r.results)

\* Calls follow the plan's order and the synthesis is the last of them; at most
\* one task was started without coming to a result.
CallsFollowPlan(r, order) ==
    LET starts == Works(Of(r, {"backend_execution_started"}))
        tasks == TaskWorks(Of(r, {"backend_execution_started"}))
    IN /\ \A i \in DOMAIN starts : starts[i] = Synthesis => i = Len(starts)
       /\ IsPrefix(tasks, order)
       /\ Len(tasks) - Len(r.results) \in {0, 1}
       /\ Len(tasks) > Len(r.results) =>
              At(r, "backend_execution_completed", Last(tasks)) = {}

\* Mutation: an evaluation anywhere after the response will do.
EvaluatedLater(r) ==
    /\ TaskWorks(Of(r, {"backend_execution_completed"})) = Results(r)
    /\ Works(Of(r, {"task_contract_evaluated"})) = Results(r)
    /\ \A i \in DOMAIN r.results :
          LET t == r.results[i].task
              e == Position(r, "task_contract_evaluated", t)
          IN e > Position(r, "backend_execution_completed", t) /\ r.events[e].note = r.results[i].verdict

\* The results are those of the completed calls, each evaluated at once.
EvaluatedAtOnce(r) ==
    /\ TaskWorks(Of(r, {"backend_execution_completed"})) = Results(r)
    /\ Works(Of(r, {"task_contract_evaluated"})) = Results(r)
    /\ \A i \in DOMAIN r.results :
          LET t == r.results[i].task
              e == Position(r, "task_contract_evaluated", t)
          IN /\ e = Position(r, "backend_execution_completed", t) + 1
             /\ r.events[e].note = r.results[i].verdict

\* In a Solo trace a task starts right after its predecessor has passed; in a
\* Network trace, some time after its dependencies have.
StartsInTurn(r, order, deps) ==
    LET Passed(t, i) == \E k \in DOMAIN r.results :
            /\ r.results[k].task = t /\ r.results[k].status = "contract_valid"
            /\ At(r, "task_contract_evaluated", t) \cap i # {}
    IN \A k \in DOMAIN TaskWorks(Of(r, {"backend_execution_started"})) :
          LET s == Position(r, "backend_execution_started", order[k])
          IN IF r.mode = "solo"
             THEN IF k = 1 THEN s = 1 ELSE Passed(order[k - 1], {s - 1})
             ELSE \A d \in deps[order[k]] : Passed(d, 1 .. s - 1)

AllPassed(r, order) ==
    Results(r) = order /\ \A i \in DOMAIN r.results : r.results[i].status = "contract_valid"

SynthesisCompleted(r) == At(r, "backend_execution_completed", Synthesis) # {}

\* The synthesis starts when every task has passed, and is evaluated at once.
SynthesisInTurn(r, order) ==
    /\ At(r, "backend_execution_started", Synthesis) # {} =>
          LET s == Position(r, "backend_execution_started", Synthesis)
              evaluations == {i \in DOMAIN r.events : r.events[i].event = "task_contract_evaluated"}
          IN /\ AllPassed(r, order)
             /\ IF r.mode = "solo" THEN s = Position(r, "task_contract_evaluated", Last(order)) + 1
                ELSE \A i \in evaluations : i < s
    /\ Len(Of(r, {"synthesis_contract_evaluated"})) = IF SynthesisCompleted(r) THEN 1 ELSE 0
    /\ SynthesisCompleted(r) =>
          Position(r, "synthesis_contract_evaluated", Synthesis)
              = Position(r, "backend_execution_completed", Synthesis) + 1

\* The usage is the sum of what the metered answers reported, and complete
\* accounting knows of no unmetered failure.
AccountedFor(r) ==
    /\ r.usage = Spent(Of(r, Metered))
    /\ r.complete => Of(r, {"backend_execution_failed"}) = <<>>

-----------------------------------------------------------------------------
(* The terminal state *)

StopReasons == [completed |-> {"completed"}, rejected |-> {"quality"},
                failed |-> {"adapter", "record"}, budget_exceeded |-> {"budget"}]

CapacityStop(r) == r.status = "failed" /\ r.stop = "record"

\* Only a stop for the record's size may keep digests in place of outputs; it is
\* the last event and says what the run would have been.
CapacityDeclared(r) ==
    LET events == Of(r, {"record_capacity_exceeded"})
    IN /\ Len(events) = IF CapacityStop(r) THEN 1 ELSE 0
       /\ CapacityStop(r) => Last(r.events).event = "record_capacity_exceeded"
       /\ \A i \in DOMAIN r.results :
              r.results[i].retention = IF CapacityStop(r) THEN "digest_only" ELSE "inline"

\* What the run came to, before its record was found too large.
Underlying(r) == IF CapacityStop(r) THEN Last(r.events).note ELSE r.status

\* A run that completed says so right after its synthesis passed.
CompletionDeclared(r) ==
    LET last == Len(r.events) - IF CapacityStop(r) THEN 1 ELSE 0
    IN /\ Len(Of(r, {"run_completed"})) = IF Underlying(r) = "completed" THEN 1 ELSE 0
       /\ Underlying(r) = "completed" =>
              /\ SynthesisCompleted(r)
              /\ r.events[last].event = "run_completed" /\ r.events[last].note = Len(TaskList)
              /\ r.events[last - 1].event = "synthesis_contract_evaluated"
              /\ r.events[last - 1].note = "pass"

\* A result's status is its verdict, and the verdict the gate's on the output
\* it retains; an output that is not retained is its digest.
ResultWellFormed(result) ==
    /\ result.status = IF result.verdict = "pass" THEN "contract_valid" ELSE "contract_rejected"
    /\ IF result.retention = "inline"
       THEN Digest(result.output) = result.ref /\ Evaluate(result.output) = result.verdict
       ELSE result.output = result.ref

\* A result is the answer of its completed call.
ResultMatchesCall(r, result) ==
    LET e == r.events[Position(r, "backend_execution_completed", result.task)]
    IN result.usage = e.usage /\ result.ref = e.ref

\* The final output is the synthesis call's answer, and its verdict the gate's.
SynthesisBound(r) ==
    LET s == r.synthesis
        e == r.events[Position(r, "backend_execution_completed", Synthesis)]
        evaluated == r.events[Position(r, "synthesis_contract_evaluated", Synthesis)]
        outcome == IF s.status = "contract_valid" THEN "pass" ELSE "reject"
    IN IF s = None THEN r.output = None /\ r.verdict = None
       ELSE /\ SynthesisCompleted(r) /\ s.usage = e.usage /\ s.ref = e.ref
            /\ evaluated.note = outcome /\ r.verdict = outcome
            /\ r.output # None /\ Digest(r.output) = s.ref /\ Evaluate(r.output) = r.verdict

CompletedHolds(r, order) ==
    /\ AllPassed(r, order) /\ r.synthesis # None /\ r.verdict = "pass" /\ r.error = None
    /\ r.mode = "solo" => r.complete

RejectedHolds(r, order) ==
    /\ r.error # None
    /\ \/ /\ r.results # <<>> /\ Last(r.results).status = "contract_rejected"
          /\ r.output = None /\ r.verdict = None
       \/ AllPassed(r, order) /\ r.synthesis # None /\ r.verdict = "reject"

FailedHolds(r) ==
    /\ r.error # None /\ r.output = None /\ r.verdict = None
    /\ \A i \in DOMAIN r.results :
          r.results[i].status = "contract_valid" \/ (r.stop = "record" /\ i = Len(r.results))
    /\ r.stop = "record" => r.error = "execution_record_capacity_exceeded"

BudgetExceededHolds(r) ==
    /\ r.error = "execution_budget_exceeded" /\ r.output = None /\ r.verdict = None
    /\ \A i \in DOMAIN r.results : r.results[i].status = "contract_valid"

\* A Solo run that knows its usage is over no limit, or says that it is.
WithinLimits(r) ==
    r.mode = "solo" /\ r.complete /\ r.status # "budget_exceeded" =>
        Exceeded(r.limits, r.usage) = {}

\* The status is borne out by results, synthesis and error.
StatusHolds(r, order) ==
    CASE r.status = "completed" -> CompletedHolds(r, order)
      [] r.status = "rejected" -> RejectedHolds(r, order)
      [] r.status = "failed" -> FailedHolds(r)
      [] r.status = "budget_exceeded" -> BudgetExceededHolds(r)

\* validate_execution_record, against the plan, in the code's order.
Valid(r, order, deps) ==
    /\ PrefixOfPlan(r, order)
    /\ RefersToPlan(r) /\ Paired(r)
    /\ CallsFollowPlan(r, order) /\ EvaluatedAtOnce(r)
    /\ StartsInTurn(r, order, deps) /\ SynthesisInTurn(r, order)
    /\ AccountedFor(r)
    /\ r.stop \in StopReasons[r.status]
    /\ CapacityDeclared(r) /\ CompletionDeclared(r)
    /\ CapacityStop(r) \/ SynthesisCompleted(r) = (r.synthesis # None)
    /\ \A i \in DOMAIN r.results : ResultWellFormed(r.results[i]) /\ ResultMatchesCall(r, r.results[i])
    /\ SynthesisBound(r)
    /\ StatusHolds(r, order)
    /\ WithinLimits(r)
=============================================================================
