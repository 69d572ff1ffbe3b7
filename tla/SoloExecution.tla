---------------------------- MODULE SoloExecution ----------------------------
(***************************************************************************)
(* SingleModelBackend.execute: one run of a plan against one model         *)
(* adapter.  The run is a single thread; what is open is the plan, the     *)
(* limits, what the adapter answers and bills, and which requests and      *)
(* records turn out too large.                                             *)
(***************************************************************************)
EXTENDS ExecutionRecord

CONSTANTS
    Requests,        \* what execute may be asked for: task dependencies and ExecutionLimits
    Usages           \* what one call may use: [output, other]

Limits == [calls : Nat, output : Nat, other : Nat, per_call : Nat \ {0}]

ASSUME RequestsAssumption ==
    Requests \subseteq [deps : [Tasks -> SUBSET Tasks], limits : Limits]
ASSUME UsagesAssumption == Usages \subseteq [output : Nat, other : Nat]
\* None is no task, error, answer of a synthesis or account of one.
ASSUME NoneAssumption ==
    /\ None \notin Tasks \cup {Synthesis}
    /\ None \notin {"execution_budget_exceeded", "adapter_error", "task_accept_spec_rejected",
                    "synthesis_accept_spec_rejected", "execution_record_capacity_exceeded"}
    /\ LET answers == [work : {Synthesis}, good : BOOLEAN]
       IN None \notin answers \cup [status : {"contract_valid", "contract_rejected"},
                                   usage : Usages, ref : [digest : answers]]

VARIABLES
    deps,            \* depends_on of each task
    order,           \* task_order of the plan
    pc,              \* where execute is
    run,             \* the record in the making: usage, events, task_results, ...
    billed           \* history: what the provider took, reported or not

vars == <<deps, order, pc, run, billed>>

NewRun(limits) ==
    [mode |-> "solo", status |-> "running", stop |-> None, results |-> <<>>, synthesis |-> None,
     output |-> None, verdict |-> None, usage |-> NoUsage, limits |-> limits,
     events |-> <<>>, error |-> None, complete |-> TRUE]

Init ==
    /\ \E request \in Requests : deps = request.deps /\ run = NewRun(request.limits)
    /\ order = <<>>
    /\ pc = "planning"
    /\ billed = NoUsage

-----------------------------------------------------------------------------
(* Ends of a run *)

Log(r, event) == [r EXCEPT !.events = Append(@, event)]

\* Mutation: the accepted answer of the synthesis stays in the compact record.
CompactKeepingOutput(r) ==
    [r EXCEPT !.status = "failed", !.stop = "record",
              !.results = [i \in DOMAIN r.results |->
                  [r.results[i] EXCEPT !.retention = "digest_only", !.output = r.results[i].ref]],
              !.events = Append(@, [Event("record_capacity_exceeded", None) EXCEPT !.note = r.status]),
              !.error = "execution_record_capacity_exceeded"]

\* What is kept of a record that is too large: digests of the task outputs.
Compact(r) ==
    [r EXCEPT !.status = "failed", !.stop = "record",
              !.results = [i \in DOMAIN r.results |->
                  [r.results[i] EXCEPT !.retention = "digest_only", !.output = r.results[i].ref]],
              !.synthesis = None, !.output = None, !.verdict = None,
              !.events = Append(@, [Event("record_capacity_exceeded", None) EXCEPT !.note = r.status]),
              !.error = "execution_record_capacity_exceeded"]

\* Results make a record too large, and their gate traces can make the compact
\* one too large as well: then execute raises.
Finish(r) ==
    \/ run' = r /\ pc' = "done"
    \/ r.results # <<>> /\ run' = Compact(r) /\ pc' = "done"
    \/ r.results # <<>> /\ run' = Compact(r) /\ pc' = "raised"

FinishAs(r, status, stop, error) ==
    Finish([r EXCEPT !.status = status, !.stop = stop, !.error = error])

OutOfBudget(r) == FinishAs(r, "budget_exceeded", "budget", "execution_budget_exceeded")
Fails(r) == FinishAs(r, "failed", "adapter", "adapter_error")

-----------------------------------------------------------------------------
(* The plan and its admission *)

CreatePlan ==
    /\ pc = "planning" /\ IsPlan(deps)
    /\ order' = TopologicalOrder(deps)
    /\ pc' = "admission"
    /\ UNCHANGED <<deps, run, billed>>

RefusePlan ==
    /\ pc = "planning" /\ ~IsPlan(deps)
    /\ pc' = "refused"
    /\ UNCHANGED <<deps, order, run, billed>>

RequiredCalls == Len(TaskList) + 1

RejectRun ==
    /\ pc = "admission" /\ RequiredCalls > run.limits.calls
    /\ OutOfBudget(Log(run, Event("run_rejected", None)))
    /\ UNCHANGED <<deps, order, billed>>

AdmitRun ==
    /\ pc = "admission" /\ RequiredCalls <= run.limits.calls
    /\ pc' = "ready"
    /\ UNCHANGED <<deps, order, run, billed>>

-----------------------------------------------------------------------------
(* Calls *)

\* The tasks in order, then the synthesis.
NextWork ==
    IF Len(run.results) < Len(order) THEN order[Len(run.results) + 1] ELSE Synthesis

Blocked == run.usage.calls >= run.limits.calls \/ run.usage.output >= run.limits.output

BlockCall ==
    /\ pc = "ready" /\ Blocked
    /\ OutOfBudget(Log(run, Event("call_blocked", NextWork)))
    /\ UNCHANGED <<deps, order, billed>>

\* The request, with the outputs it depends on, is too large.
FailPreparation ==
    /\ pc = "ready" /\ ~Blocked
    /\ Fails(Log(run, Event("call_preparation_failed", NextWork)))
    /\ UNCHANGED <<deps, order, billed>>

StartCall ==
    /\ pc = "ready" /\ ~Blocked
    /\ run' = Log(run, Event("backend_execution_started", NextWork))
    /\ pc' = "calling"
    /\ UNCHANGED <<deps, order, billed>>

\* Mutation: a failed call is taken to have used nothing.
FailedAsFree(r, work) == Log(r, Event("backend_execution_failed", work))

\* The adapter raised, or what it returned does not attest its usage.
Failed(r, work) ==
    [Log(r, Event("backend_execution_failed", work)) EXCEPT !.complete = FALSE]

\* The call may have been billed, the run cannot know.
CallFailed ==
    /\ pc = "calling"
    /\ Fails(Failed(run, NextWork))
    /\ \/ UNCHANGED billed
       \/ \E u \in Usages : billed' = Plus(billed, u)
    /\ UNCHANGED <<deps, order>>

Smaller(a, b) == IF a < b THEN a ELSE b

\* The answer takes the run over a limit, or is longer than the call's cap.
Over(u) ==
    \/ Exceeded(run.limits, Plus(run.usage, u)) # {}
    \/ u.output > Smaller(run.limits.per_call, run.limits.output - run.usage.output)

\* Usage is entered before anything is asked of the answer.
Answered(u, event) == [Log(run, [event EXCEPT !.usage = u]) EXCEPT !.usage = Plus(@, u)]

RejectOverrun(u) ==
    /\ pc = "calling" /\ Over(u)
    /\ OutOfBudget(Answered(u, Event("backend_response_rejected", NextWork)))
    /\ billed' = Plus(billed, u)
    /\ UNCHANGED <<deps, order>>

\* An answer that is malformed, or not finished, is paid for all the same.
RejectAnswer(u) ==
    /\ pc = "calling" /\ ~Over(u)
    /\ \E kind \in {"backend_response_invalid", "backend_response_incomplete"} :
          Fails(Answered(u, Event(kind, NextWork)))
    /\ billed' = Plus(billed, u)
    /\ UNCHANGED <<deps, order>>

\* The run with the answer to the current call, evaluated.
Completed(u, good, evaluation) ==
    LET output == [work |-> NextWork, good |-> good]
        done == [Event("backend_execution_completed", NextWork) EXCEPT !.ref = Digest(output)]
    IN Log(Answered(u, done), [Event(evaluation, NextWork) EXCEPT !.note = Evaluate(output)])

StatusOf(good) == IF good THEN "contract_valid" ELSE "contract_rejected"

Result(u, good) ==
    LET output == [work |-> NextWork, good |-> good]
    IN [status |-> StatusOf(good), verdict |-> Evaluate(output), usage |-> u,
        ref |-> Digest(output), task |-> NextWork, output |-> output, retention |-> "inline"]

\* After a task that passed, the synthesis request is prepared for its size
\* alone, unless this was the last task.
CompleteTask(u, good) ==
    LET r == [Completed(u, good, "task_contract_evaluated")
                 EXCEPT !.results = Append(@, Result(u, good))]
    IN /\ pc = "calling" /\ ~Over(u) /\ NextWork # Synthesis
       /\ \/ ~good /\ FinishAs(r, "rejected", "quality", "task_accept_spec_rejected")
          \/ /\ good /\ Len(r.results) < Len(order)
             /\ Fails(Log(r, Event("call_preparation_failed", Synthesis)))
          \/ good /\ run' = r /\ pc' = "ready"
       /\ billed' = Plus(billed, u)
       /\ UNCHANGED <<deps, order>>

CompleteSynthesis(u, good) ==
    LET output == [work |-> Synthesis, good |-> good]
        r == [Completed(u, good, "synthesis_contract_evaluated")
                 EXCEPT !.output = output, !.verdict = Evaluate(output),
                        !.synthesis = [status |-> StatusOf(good), usage |-> u, ref |-> Digest(output)]]
        accepted == [Event("run_completed", None) EXCEPT !.note = Len(run.results)]
    IN /\ pc = "calling" /\ ~Over(u) /\ NextWork = Synthesis
       /\ \/ ~good /\ FinishAs(r, "rejected", "quality", "synthesis_accept_spec_rejected")
          \/ good /\ FinishAs(Log(r, accepted), "completed", "completed", None)
       /\ billed' = Plus(billed, u)
       /\ UNCHANGED <<deps, order>>

Answer(u) ==
    \/ RejectOverrun(u)
    \/ RejectAnswer(u)
    \/ \E good \in BOOLEAN : CompleteTask(u, good) \/ CompleteSynthesis(u, good)

Next ==
    \/ CreatePlan \/ RefusePlan \/ RejectRun \/ AdmitRun
    \/ BlockCall \/ FailPreparation \/ StartCall \/ CallFailed
    \/ \E u \in Usages : Answer(u)

Spec == Init /\ [][Next]_vars

-----------------------------------------------------------------------------
(* Properties *)

\* The run and its account are well typed, and its results are those of the
\* first tasks of the plan's order.
TypeOK ==
    /\ deps \in [Tasks -> SUBSET Tasks]
    /\ order \in Seq(Tasks)
    /\ pc \in {"planning", "refused", "admission", "ready", "calling", "done", "raised"}
    /\ Len(run.results) <= Len(order)
    /\ \A i \in DOMAIN run.results : run.results[i].task = order[i]
    /\ run.usage \in [calls : Nat, output : Nat, other : Nat]
    /\ run.limits \in Limits
    /\ run.complete \in BOOLEAN
    /\ run.status \in {"running", "completed", "rejected", "failed", "budget_exceeded"}
    /\ billed \in [calls : Nat, output : Nat, other : Nat]

\* The rounds of the task ordering find an order whenever there is one, whatever
\* the order in which the caller listed the tasks: exactly the task graphs with
\* a set of tasks that all wait on one another are refused.
OnlyCyclesRefused ==
    pc # "planning" =>
        (pc = "refused" <=>
            \E S \in (SUBSET Tasks) \ {{}} : \A t \in S : deps[t] \cap S # {})

\* A run goes over its limits by its last answer alone, and goes on to nothing
\* after it: until then it is within every limit, and a run that ends over a
\* limit says that it ran out of budget, or that its record was too large for
\* saying so.
OverrunIsLast ==
    Exceeded(run.limits, run.usage) # {} =>
        /\ pc \in {"done", "raised"}
        /\ Underlying(run) = "budget_exceeded"
        /\ \E i \in DOMAIN run.events :
              /\ run.events[i].event = "backend_response_rejected"
              /\ \A j \in DOMAIN run.events :
                    run.events[j].event \in WorkEvents => j <= i

\* The usage a run reports is what the provider took, to the token, as long as
\* it claims complete accounting; when it cannot know it says so, and what it
\* reports is then less by one call at most.  No answer is bought after one that
\* overran the limits.
BillIsKnown ==
    /\ TypeOK
    /\ run.complete => run.usage = billed
    /\ \A d \in {"calls", "output", "other"} : run.usage[d] <= billed[d]
    /\ billed.calls - run.usage.calls <= 1
    /\ OverrunIsLast

\* A record of a run over its limits that was too large for its task outputs.
TruncatedOverrun == CapacityStop(run) /\ Exceeded(run.limits, run.usage) # {}

\* Every record execute returns passes validate_execution_record against its
\* plan, whichever way the run ended, but for an overrun whose record had to be
\* compacted, which never does.  A Solo trace is a Network trace: what the stricter
\* order of a Solo run allows also satisfies the rule by dependencies, that a call
\* has the outputs it needs, which only a plan's order can ensure.
RecordsValidate ==
    pc = "done" =>
        /\ Valid(run, order, deps) <=> ~TruncatedOverrun
        /\ ~TruncatedOverrun => Valid([run EXCEPT !.mode = "network"], order, deps)

\* Events that give evidence of a call or of a verdict.
Evidence == {"backend_execution_started", "task_contract_evaluated",
             "synthesis_contract_evaluated", "run_completed", "record_capacity_exceeded"} \cup Ends

IsEvidence(i) == run.events[i].event \in Evidence

\* What an unfaithful keeper of the record might do to its trace.
TamperedTraces ==
    LET evidence == {i \in DOMAIN run.events : IsEvidence(i)}
        exchanged == {[run.events EXCEPT ![i] = run.events[j], ![j] = run.events[i]] :
                         i \in evidence, j \in DOMAIN run.events}
    IN {RemoveAt(run.events, i) : i \in evidence}
       \cup {InsertAt(run.events, i, run.events[i]) : i \in evidence}
       \cup (exchanged \ {run.events})

\* Or to its other claims.
TamperedClaims ==
    {[run EXCEPT !.usage = Plus(@, u)] : u \in Usages}
    \cup (IF run.results = <<>> THEN {} ELSE {[run EXCEPT !.results = Front(@)]})
    \cup {[run EXCEPT !.results[i].verdict = "pass", !.results[i].status = "contract_valid"] :
             i \in {k \in DOMAIN run.results : run.results[k].verdict = "reject"}}
    \cup ({[run EXCEPT !.status = "completed", !.stop = "completed", !.error = None]} \ {run})

\* A record is evidence: with one event of a call or a verdict dropped, doubled
\* or exchanged with another, with a usage, a result or a status that the trace
\* does not bear out, it no longer passes validation.
TamperingShows ==
    pc = "done" =>
        /\ \A events \in TamperedTraces : ~Valid([run EXCEPT !.events = events], order, deps)
        /\ \A r \in TamperedClaims : ~Valid(r, order, deps)
=============================================================================
