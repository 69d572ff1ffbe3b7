----------------------------- MODULE Coordinator -----------------------------
(***************************************************************************)
(* The coordinator service: problems with escrowed funding, leased tasks,  *)
(* delegation under operator approval, gated results, and settlement.      *)
(*                                                                         *)
(* One action per public method that changes the database.  Its inputs are *)
(* what the HTTP client sends, and any request may come at any time and    *)
(* any number of times: that is how lost answers, retries, duplicates and  *)
(* late calls reach the service.  A request the service refuses rolls its  *)
(* transaction back, expiry included, and is no step.  The state outlives  *)
(* the process; a restart changes nothing but the configured fee.          *)
(***************************************************************************)
EXTENDS CoordinatorDb

CONSTANTS
    Fees,        \* platform_fee_bps values an operator configures
    MaxTime      \* bound on the clock

ASSUME FeesAssumption == Fees \subseteq BasisPoints
ASSUME TimeAssumption == MaxTime \in Nat

VARIABLES
    now,         \* the clock
    fee,         \* ServiceConfig.platform_fee_bps of the running process
    db           \* the SQLite file

vars == <<now, fee, db>>

Init == now = 0 /\ fee \in Fees /\ db = EmptyDatabase

-----------------------------------------------------------------------------
(* The operator's and the customer's requests *)

PublishOffering(n, c) ==
    /\ db.offering[n][c] = "none"
    /\ Cardinality({k \in Caps : db.offering[n][k] # "none"}) < MaxOfferings
    /\ db' = [db EXCEPT !.offering[n][c] = "pending"]
    /\ UNCHANGED <<now, fee>>

ApproveOffering(n, c) ==
    /\ db.offering[n][c] # "none"
    /\ db' = [db EXCEPT !.offering[n][c] = "active"]
    /\ UNCHANGED <<now, fee>>

\* What a problem's row, root task and funding transfer require.
Insertable(d, b) == b.deadline > now /\ Admitted(d, b.spec.cap) /\ d.tasks < TaskPool

Inserted(d, p, b) ==
    [d EXCEPT
       !.problem[p] = [status |-> "active", funded |-> b.funded, deadline |-> b.deadline,
                       fee |-> fee],
       !.tasks = d.tasks + 1,
       !.task[d.tasks + 1] = TaskOf(p, None, 0, b.spec, now, None, FALSE),
       !.escrow[p] = d.escrow[p] + b.funded]

\* create_problem: the only mutating handler that expires nothing first.
CreateProblem(p, b) ==
    /\ db.problem[p].status = "none"
    /\ b.spec.reward + b.spec.budget <= b.funded
    /\ Insertable(db, b)
    /\ db' = Inserted(db, p, b)
    /\ UNCHANGED <<now, fee>>

\* cancel_problem expires nothing first either; a problem that already ended
\* otherwise than completed is answered with its view.
CancelProblem(p) ==
    /\ db.problem[p].status = "active"
    /\ db' = Terminated(db, {p}, "cancelled")
    /\ UNCHANGED <<now, fee>>

\* Mutation: the reaper looks after leases only.
ReapLeases ==
    /\ db' \in LeasesExpired(db, now)
    /\ UNCHANGED <<now, fee>>

\* The reaper thread's call; get_problem does the same before it reads.
Reap ==
    /\ db' \in Swept(db, now)
    /\ UNCHANGED <<now, fee>>

\* expire_due_problems, the maintenance call that leaves leases alone.
ExpireDueProblems ==
    /\ db' = ProblemsExpired(db, now)
    /\ UNCHANGED <<now, fee>>

-----------------------------------------------------------------------------
(* Leasing *)

InFlight(d, n) == {x \in InState(d, "leased") : d.task[x].lease.node = n}

AtLimit(d, n) == Cardinality(InFlight(d, n)) >= MaxInflight

\* Mutation: a node that was heard on a task may get it again.
CandidatesWithoutHistory(d, n) ==
    {x \in InState(d, "open") :
        LET row == d.task[x] IN
        /\ d.problem[row.problem].status = "active"
        /\ d.problem[row.problem].deadline >= now + LeaseSeconds
        /\ d.offering[n][row.spec.cap] = "active"
        /\ row.attempts < row.spec.max
        /\ row.by = None \/ row.selfOk \/ row.by # n}

\* Mutation: a lease may outlive the problem's deadline.
CandidatesBeforeDeadline(d, n) ==
    {x \in InState(d, "open") :
        LET row == d.task[x] IN
        /\ d.problem[row.problem].status = "active"
        /\ d.problem[row.problem].deadline > now
        /\ d.offering[n][row.spec.cap] = "active"
        /\ row.attempts < row.spec.max
        /\ row.by = None \/ row.selfOk \/ row.by # n
        /\ ~Rejected(d, n, x)}

Candidates(d, n) ==
    {x \in InState(d, "open") :
        LET row == d.task[x] IN
        /\ d.problem[row.problem].status = "active"
        /\ d.problem[row.problem].deadline >= now + LeaseSeconds
        /\ d.offering[n][row.spec.cap] = "active"
        /\ row.attempts < row.spec.max
        /\ row.by = None \/ row.selfOk \/ row.by # n
        /\ ~Rejected(d, n, x)}

\* ORDER BY created_at, id: ids are random, so ties are broken either way.
Oldest(d, X) == {x \in X : \A y \in X : d.task[x].created <= d.task[y].created}

Leased(d, n, r, x) ==
    [d EXCEPT
       !.task[x] = [@ EXCEPT !.state = "leased", !.attempts = d.task[x].attempts + 1,
                             !.lease = [node |-> n, request |-> r,
                                        until |-> now + LeaseSeconds]],
       !.requests[n][r] =
          [task |-> x, quote |-> ProviderEarning(d.task[x].spec.reward,
                                                 d.problem[d.task[x].problem].fee)]]

\* A request id that was answered before is answered with the same lease, dead
\* or alive; a node at its limit, or with nothing to do, gets no lease.
LeaseWork(n, r) ==
    /\ \E d \in Swept(db, now) :
          \/ d.requests[n][r] # None /\ db' = d
          \/ d.requests[n][r] = None /\ AtLimit(d, n) /\ db' = d
          \/ d.requests[n][r] = None /\ Candidates(d, n) = {} /\ db' = d
          \/ /\ d.requests[n][r] = None
             /\ ~AtLimit(d, n)
             /\ \E x \in Oldest(d, Candidates(d, n)) : db' = Leased(d, n, r, x)
    /\ UNCHANGED <<now, fee>>

\* _require_live_lease, for the token of request r.  The token names its task,
\* so a token sent for another task is refused as well.
LiveLease(d, n, r, x) ==
    LET row == d.task[x] IN
    /\ d.problem[row.problem].status = "active"
    /\ row.state = "leased"
    /\ row.lease.node = n
    /\ row.lease.until > now
    /\ row.lease.request = r

-----------------------------------------------------------------------------
(* Delegation *)

\* Mutation: the children's own delegation budgets cost nothing.
PlanCostOfRewards(plan) == Total([i \in DOMAIN plan |-> plan[i].reward], DOMAIN plan)

PlanCost(plan) ==
    Total([i \in DOMAIN plan |-> plan[i].reward + plan[i].budget], DOMAIN plan)

PreservesConstraints(d, x, plan) ==
    \A i \in DOMAIN plan : d.task[x].spec.cons \subseteq plan[i].cons

\* Mutation: a proposal uses the attempt up.
ProposedAtACost(d, n, x, key, plan) ==
    [d EXCEPT
       !.task[x] = [@ EXCEPT !.state = "awaiting_delegation_approval", !.lease = None],
       !.delegations[x] = Append(@, [node |-> n, key |-> key, plan |-> plan,
                                     status |-> "proposed"])]

Proposed(d, n, x, key, plan) ==
    [d EXCEPT
       !.task[x] = [@ EXCEPT !.state = "awaiting_delegation_approval", !.lease = None,
                             !.attempts = IF d.task[x].attempts > 0
                                          THEN d.task[x].attempts - 1 ELSE 0],
       !.delegations[x] = Append(@, [node |-> n, key |-> key, plan |-> plan,
                                     status |-> "proposed"])]

\* A proposal gives the lease and its attempt back, and waits for the operator.
\* The same key with the same children is answered with the first answer.
DelegateChildren(n, r, key, plan) ==
    /\ db.requests[n][r] # None
    /\ LET x == db.requests[n][r].task
           prior == {i \in DOMAIN db.delegations[x] :
                        /\ db.delegations[x][i].node = n
                        /\ db.delegations[x][i].key = key}
       IN  \E d \in Swept(db, now) :
              \/ (\E i \in prior : d.delegations[x][i].plan = plan) /\ db' = d
              \/ /\ prior = {}
                 /\ LiveLease(d, n, r, x)
                 /\ d.task[x].depth < MaxDepth
                 /\ Len(d.delegations[x]) < MaxProposals
                 /\ Children(d, x) = {}
                 /\ PreservesConstraints(d, x, plan)
                 /\ \A i \in DOMAIN plan : Admitted(d, plan[i].cap)
                 /\ PlanCost(plan) <= d.task[x].spec.budget
                 /\ db' = Proposed(d, n, x, key, plan)
    /\ UNCHANGED <<now, fee>>

\* What both decisions require of the proposal's task.
Undecided(d, x, i) ==
    /\ i \in DOMAIN d.delegations[x]
    /\ d.delegations[x][i].status = "proposed"
    /\ d.problem[d.task[x].problem].status = "active"
    /\ d.task[x].state = "awaiting_delegation_approval"

Decided(rows, i, status) == [rows EXCEPT ![i] = [@ EXCEPT !.status = status]]

RejectDelegation(x, i) ==
    /\ \E d \in Swept(db, now) :
          \/ /\ i \in DOMAIN d.delegations[x]
             /\ d.delegations[x][i].status = "rejected"
             /\ db' = d
          \/ /\ Undecided(d, x, i)
             /\ db' = [d EXCEPT !.task[x] = [@ EXCEPT !.state = "open"],
                                !.delegations[x] = Decided(@, i, "rejected")]
    /\ UNCHANGED <<now, fee>>

\* The children become tasks; selfOk is the operator's leave for the proposer
\* to execute them.
Approved(d, x, i, selfOk) ==
    LET row == d.delegations[x][i]
        first == d.tasks + 1
        last == d.tasks + Len(row.plan)
    IN  [d EXCEPT
           !.tasks = last,
           !.task = [c \in Tasks |->
              IF c \in first .. last
              THEN TaskOf(d.task[x].problem, x, d.task[x].depth + 1,
                          row.plan[c - d.tasks], now, row.node, selfOk)
              ELSE IF c = x THEN [@[x] EXCEPT !.state = "waiting_children"]
              ELSE @[c]],
           !.delegations[x] = Decided(@, i, "approved")]

ApproveDelegation(x, i, selfOk) ==
    /\ \E d \in Swept(db, now) :
          \/ /\ i \in DOMAIN d.delegations[x]
             /\ d.delegations[x][i].status = "approved"
             /\ \A c \in Children(d, x) : d.task[c].selfOk = selfOk
             /\ db' = d
          \/ LET plan == d.delegations[x][i].plan IN
             /\ Undecided(d, x, i)
             /\ PreservesConstraints(d, x, plan)
             /\ PlanCost(plan) <= d.task[x].spec.budget
             /\ Cardinality(Of(d, d.task[x].problem)) + Len(plan) <= MaxTasksPerProblem
             /\ d.tasks + Len(plan) <= TaskPool
             /\ db' = Approved(d, x, i, selfOk)
    /\ UNCHANGED <<now, fee>>

-----------------------------------------------------------------------------
(* Results *)

\* Mutation: the earning is reckoned with the fee now configured.
RecordedAtRunningFee(d, n, x, sid, outcome) ==
    LET row == d.task[x]
        passed == outcome = "pass"
        earned == IF passed THEN ProviderEarning(row.spec.reward, fee) ELSE 0
    IN  [d EXCEPT
           !.submissions[x] = Append(@, [node |-> n, sid |-> sid, outcome |-> outcome,
                                         attempt |-> row.attempts, earned |-> earned]),
           !.task[x] = [@ EXCEPT !.lease = None,
                                 !.state = IF passed THEN "accepted"
                                           ELSE IF Final(d, x) THEN "failed" ELSE "open"]]

\* Mutation: the answer leaves the lease out.
RecordedKeepingLease(d, n, x, sid, outcome) ==
    LET row == d.task[x]
        passed == outcome = "pass"
        earned == IF passed
                  THEN ProviderEarning(row.spec.reward, d.problem[row.problem].fee) ELSE 0
    IN  [d EXCEPT
           !.submissions[x] = Append(@, [node |-> n, sid |-> sid, outcome |-> outcome,
                                         attempt |-> row.attempts, earned |-> earned]),
           !.task[x] = [@ EXCEPT !.state = IF passed THEN "accepted"
                                           ELSE IF Final(d, x) THEN "failed" ELSE "open"]]

\* The answer is stored and ends the lease.
Recorded(d, n, x, sid, outcome) ==
    LET row == d.task[x]
        passed == outcome = "pass"
        earned == IF passed
                  THEN ProviderEarning(row.spec.reward, d.problem[row.problem].fee) ELSE 0
    IN  [d EXCEPT
           !.submissions[x] = Append(@, [node |-> n, sid |-> sid, outcome |-> outcome,
                                         attempt |-> row.attempts, earned |-> earned]),
           !.task[x] = [@ EXCEPT !.lease = None,
                                 !.state = IF passed THEN "accepted"
                                           ELSE IF Final(d, x) THEN "failed" ELSE "open"]]

\* A passed result pays the task out of escrow and may reopen the parent or
\* complete the problem; a rejected last attempt blocks the problem.
Submitted(d, n, x, sid, outcome) ==
    LET stored == Recorded(d, n, x, sid, outcome)
        p == d.task[x].problem
    IN  IF outcome = "pass"
        THEN StatusRefreshed(ParentRefreshed(Credited(stored, x, n), d.task[x].parent), p)
        ELSE IF Final(d, x) THEN Terminated(stored, {p}, "blocked")
        ELSE stored

\* A submission id that was used before is answered with the stored outcome.
SubmitResult(n, r, sid, outcome) ==
    /\ db.requests[n][r] # None
    /\ LET x == db.requests[n][r].task IN
       \E d \in Swept(db, now) :
          LET prior == {i \in DOMAIN d.submissions[x] :
                           /\ d.submissions[x][i].node = n
                           /\ d.submissions[x][i].sid = sid}
          IN  \/ (\E i \in prior : d.submissions[x][i].outcome = outcome) /\ db' = d
              \/ prior = {} /\ LiveLease(d, n, r, x) /\ db' = Submitted(d, n, x, sid, outcome)
    /\ UNCHANGED <<now, fee>>

-----------------------------------------------------------------------------
(* The process and the clock *)

Restart(f) ==
    /\ fee' = f
    /\ UNCHANGED <<now, db>>

Tick ==
    /\ now < MaxTime
    /\ now' = now + 1
    /\ UNCHANGED <<fee, db>>

Next ==
    \/ \E n \in Nodes, c \in Caps : PublishOffering(n, c)
    \/ \E n \in Nodes, c \in Caps : ApproveOffering(n, c)
    \/ \E p \in Problems, b \in Bodies : CreateProblem(p, b)
    \/ \E p \in Problems : CancelProblem(p)
    \/ Reap
    \/ ExpireDueProblems
    \/ \E n \in Nodes, r \in Requests : LeaseWork(n, r)
    \/ \E n \in Nodes, r \in Requests, key \in Keys, plan \in Plans :
          DelegateChildren(n, r, key, plan)
    \/ \E x \in Tasks, i \in 1 .. MaxProposals : RejectDelegation(x, i)
    \/ \E x \in Tasks, i \in 1 .. MaxProposals, selfOk \in BOOLEAN :
          ApproveDelegation(x, i, selfOk)
    \/ \E n \in Nodes, r \in Requests, sid \in SubmissionIds, outcome \in Outcome :
          SubmitResult(n, r, sid, outcome)
    \/ \E f \in Fees : Restart(f)
    \/ Tick

Spec == Init /\ [][Next]_vars

\* The clock goes on, and the server's reaper thread calls reap_expired every
\* second for as long as the server runs (api.py, _reap_loop).  Nodes, customers
\* and the operator owe the service nothing.
FairSpec == Spec /\ WF_vars(Tick) /\ WF_vars(Reap)

-----------------------------------------------------------------------------
(* Types *)

\* The rows the foreign keys and NOT NULL columns of the schema allow: a task
\* row belongs to a funded problem and an existing parent, holds a lease exactly
\* while it is leased, and tables never mention a task that is not there.
ReferencesOK(d) ==
    /\ \A x \in Existing(d) :
          LET row == d.task[x] IN
          /\ row.state # "absent"
          /\ row.spec \in Specs
          /\ row.problem \in Problems
          /\ d.problem[row.problem].status # "none"
          /\ row.parent # None => row.parent \in Existing(d)
          /\ row.state = "leased" <=> row.lease # None
    /\ \A x \in Tasks \ Existing(d) :
          d.task[x] = NoTask /\ d.submissions[x] = << >> /\ d.delegations[x] = << >>
    /\ \A n \in Nodes, r \in Requests :
          d.requests[n][r] # None => d.requests[n][r].task \in Existing(d)

TypeOK == now \in 0 .. MaxTime /\ fee \in Fees /\ db \in Database /\ ReferencesOK(db)

=============================================================================
