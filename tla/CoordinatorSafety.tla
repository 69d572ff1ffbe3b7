-------------------------- MODULE CoordinatorSafety --------------------------
(***************************************************************************)
(* What the coordinator promises to customers, providers and the operator. *)
(* State properties are stated of a database value d first, so that proofs *)
(* can speak of the intermediate databases of a transaction.               *)
(***************************************************************************)
EXTENDS Coordinator

-----------------------------------------------------------------------------
(* Attempts and submissions *)

AttemptsAddUp(row, rows) ==
    /\ \A i \in 1 .. Len(rows) : rows[i].attempt = i
    /\ row.state = "leased" => row.attempts = Len(rows) + 1
    /\ row.state = "blocked" => row.attempts \in {Len(rows), Len(rows) + 1}
    /\ row.state \notin {"leased", "blocked"} => row.attempts = Len(rows)
    /\ row.state = "failed" => row.attempts = row.spec.max
    /\ row.attempts <= row.spec.max

AttemptLedgerOf(d) == \A x \in Existing(d) : AttemptsAddUp(d.task[x], d.submissions[x])

\* Attempts are neither lost nor given away: a task's attempt_count is its
\* submissions (timeouts included) plus the lease now out, whatever mixture of
\* delegations, which hand an attempt back, timeouts and rejections came before;
\* it never passes max_attempts, and a task fails only on its last attempt.
\* Termination freezes the count of a task whose lease it takes away.
AttemptLedger == AttemptLedgerOf(db)

OneEach(row, rows) ==
    /\ \A i, j \in DOMAIN rows : rows[i].node = rows[j].node => i = j
    /\ row.state = "leased" => \A i \in DOMAIN rows : rows[i].node # row.lease.node
    /\ (\E i \in DOMAIN rows : rows[i].outcome = "pass") => row.state = "accepted"

OneSubmissionPerNodeOf(d) == \A x \in Existing(d) : OneEach(d.task[x], d.submissions[x])

\* A node has at most one say on a task: once a submission of its own or a
\* timeout is recorded, neither another lease of that task nor a late answer to
\* an old one gets a second row in, through delegation, reopening and re-lease;
\* and a result that passed leaves its task accepted for good.
OneSubmissionPerNode == OneSubmissionPerNodeOf(db)

-----------------------------------------------------------------------------
(* The tree of tasks *)

\* The states of parents and children fit together after every interleaving of
\* decisions, results and terminations: a parent waits exactly while a child is
\* outstanding, a parent is handed out again or accepted only over accepted
\* children, children exist exactly when the last proposal was approved, a
\* proposal is undecided exactly while its task awaits the decision, and the
\* problem is complete exactly when its root is accepted.
TreeConsistentOf(d) ==
    \A x \in Existing(d) :
        LET row == d.task[x]
            sub == Children(d, x)
            done == \A c \in sub : d.task[c].state = "accepted"
            props == d.delegations[x]
        IN  /\ row.parent # None =>
                 /\ row.parent < x
                 /\ d.task[row.parent].problem = row.problem
                 /\ row.depth = d.task[row.parent].depth + 1
                 /\ d.task[row.parent].spec.cons \subseteq row.spec.cons
            /\ row.depth <= MaxDepth
            /\ row.state = "waiting_children" => sub # {} /\ ~done
            /\ row.state \in {"open", "leased", "accepted"} => done
            /\ sub # {} <=> props # << >> /\ props[Len(props)].status = "approved"
            /\ row.state = "awaiting_delegation_approval" <=>
                  props # << >> /\ props[Len(props)].status = "proposed"
            /\ \A i \in 1 .. Len(props) - 1 : props[i].status = "rejected"
            /\ row.parent = None =>
                  (row.state = "accepted" <=> d.problem[row.problem].status = "completed")
TreeConsistent == TreeConsistentOf(db)

\* The idempotency keys of the ledger never collide: no acceptance is paid twice
\* and no problem refunded twice (a second insert would abort the transaction),
\* and a task is paid exactly when it is accepted.
TransferKeysUnique ==
    /\ \A x \in Existing(db) : db.credits[x] = IF db.task[x].state = "accepted" THEN 1 ELSE 0
    /\ \A p \in Problems : db.refunds[p] <= 1

\* Whatever ended a problem, its end is complete: nothing is left in escrow, no
\* task can still be leased, decided on or paid, no proposal awaits a decision,
\* and a completed problem has only accepted tasks.  And it was settled once, like
\* each of its acceptances (TransferKeysUnique).
TerminalIsSettledOf(d) ==
    \A p \in Problems : d.problem[p].status \in TerminalStatus =>
        /\ d.escrow[p] = 0
        /\ \A x \in Of(d, p) :
              /\ d.task[x].state \in IF d.problem[p].status = "completed"
                                     THEN {"accepted"} ELSE {"accepted", "failed", "blocked"}
              /\ d.task[x].lease = None
              /\ \A i \in DOMAIN d.delegations[x] : d.delegations[x][i].status # "proposed"
TerminalIsSettled == TerminalIsSettledOf(db) /\ TransferKeysUnique

-----------------------------------------------------------------------------
(* Leases *)

\* A lease that is out is one the coordinator meant to give: on an active
\* problem, to end before its deadline, to a node whose offering is admitted and
\* that did not propose the task (unless the operator let it), under a token that
\* a stored lease request of that node stands for.  And no node ever holds more of
\* them than max_inflight_per_node, overdue ones nobody has reaped yet included.
LeasesAreHonest ==
    /\ \A n \in Nodes : Cardinality(InFlight(db, n)) <= MaxInflight
    /\ \A x \in InState(db, "leased") :
           LET row == db.task[x]
               n == row.lease.node
           IN  /\ db.problem[row.problem].status = "active"
               /\ row.lease.until <= db.problem[row.problem].deadline
               /\ db.offering[n][row.spec.cap] = "active"
               /\ row.by = n => row.selfOk
               /\ db.requests[n][row.lease.request] # None
               /\ db.requests[n][row.lease.request].task = x

-----------------------------------------------------------------------------
(* Money *)

\* What an active problem may still have to pay: the reward of every task not
\* accepted yet, and the delegation budget of those without children.
Commitments(d, p) ==
    LET due == {x \in Of(d, p) : d.task[x].state # "accepted"}
    IN  Total([x \in due |-> d.task[x].spec.reward
                 + IF Children(d, x) = {} THEN d.task[x].spec.budget ELSE 0], due)

\* Escrow always covers the commitments of an active problem, so no acceptance,
\* at any depth of delegation, can overdraw it.
EscrowCoversCommitments ==
    \A p \in Problems : db.problem[p].status = "active" => db.escrow[p] >= Commitments(db, p)

RewardsAccepted(d, S) ==
    LET paid == {x \in S : d.task[x].state = "accepted"}
    IN  Total([x \in paid |-> d.task[x].spec.reward], paid)

\* Money is neither created nor lost: funding is in escrow, refunded or paid out
\* as the rewards of accepted tasks, and those are what nodes and platform own.
FundsConserved ==
    /\ \A p \in Problems : db.problem[p].status # "none" =>
          db.escrow[p] + db.refund[p] + RewardsAccepted(db, Of(db, p)) = db.problem[p].funded
    /\ Total(db.payable, Nodes) + db.revenue = RewardsAccepted(db, Existing(db))

Passed(d, x, n) ==
    {i \in DOMAIN d.submissions[x] : /\ d.submissions[x][i].node = n
                                     /\ d.submissions[x][i].outcome = "pass"}

\* A node earns what it was quoted when it took a lease of the task, even if the
\* operator restarted the service with another fee in between, and its payable
\* balance is the sum of those earnings.
QuotesHonoured ==
    /\ \A n \in Nodes, x \in Existing(db) : \A i \in Passed(db, x, n) :
          \E r \in Requests : /\ db.requests[n][r] # None
                              /\ db.requests[n][r].task = x
                              /\ db.requests[n][r].quote = db.submissions[x][i].earned
    /\ \A n \in Nodes :
          LET won == {x \in Existing(db) : Passed(db, x, n) # {}}
          IN  db.payable[n] =
                 Total([x \in won |-> db.submissions[x][CHOOSE i \in Passed(db, x, n) : TRUE].earned],
                       won)

-----------------------------------------------------------------------------
(* What a step may never do *)

\* A problem that ended stays as it ended: no late result, decision, expiry,
\* cancellation or retry changes its row, its tasks, their submissions or its
\* refund.
TerminalIsFinal ==
    [][\A p \in Problems : db.problem[p].status \in TerminalStatus =>
          /\ db'.problem[p] = db.problem[p]
          /\ db'.refund[p] = db.refund[p] /\ db'.escrow[p] = db.escrow[p]
          /\ Of(db', p) = Of(db, p)
          /\ \A x \in Of(db, p) : /\ db'.task[x] = db.task[x]
                                  /\ db'.submissions[x] = db.submissions[x]
                                  /\ db'.delegations[x] = db.delegations[x]]_vars

\* A node's balance changes only when a task it holds a lease of, unexpired and
\* on a problem before its deadline, becomes accepted, and by that task's earning.
PaidByLiveLease ==
    [][\A n \in Nodes : db'.payable[n] # db.payable[n] =>
          \E x \in InState(db, "leased") :
              LET row == db.task[x]
                  subs == db'.submissions[x]
              IN  /\ row.lease.node = n /\ row.lease.until > now
                  /\ db.problem[row.problem].deadline > now
                  /\ db'.task[x].state = "accepted"
                  /\ db'.payable[n] = db.payable[n] + subs[Len(subs)].earned]_vars

-----------------------------------------------------------------------------
(* What must happen *)

\* Funded work is never locked: with the clock and the reaper running, every
\* problem ends by its deadline with its escrow settled, whatever nodes,
\* customer and operator fail to do.
EveryProblemSettles ==
    \A p \in Problems : db.problem[p].status = "active"
                        ~> db.problem[p].status \in TerminalStatus /\ db.escrow[p] = 0

-----------------------------------------------------------------------------
(* The abstract specifications *)

\* The order behind a problem: its funding is in escrow, paid out for accepted
\* tasks, or set aside as a refund.
OrderOf(d, p) ==
    [status |-> d.problem[p].status, held |-> d.escrow[p],
     paid |-> RewardsAccepted(d, Of(d, p)), returned |-> d.refund[p]]

Orders == INSTANCE FundedOrders WITH order <- [p \in Problems |-> OrderOf(db, p)]

\* The coordinator implements FundedOrders: seen through the ledger, every step
\* of every handler funds, draws on or closes each order as that specification
\* allows, or leaves it alone.
ImplementsOrders == Orders!OrderSpec

\* What node n sees of task x: the fate of each of its leases, and its answers.
LeaseView(d, n, x) ==
    LET row == d.task[x]
        own == {i \in DOMAIN d.submissions[x] : d.submissions[x][i].node = n}
        Rows(s) == {i \in own : d.submissions[x][i].sid = s}
    IN  [lease |-> [r \in Requests |->
            IF d.requests[n][r] = None \/ d.requests[n][r].task # x THEN "none"
            ELSE IF row.lease # None /\ row.lease.node = n /\ row.lease.request = r THEN "live"
            ELSE "over"],
         answer |-> [s \in SubmissionIds |->
            IF Rows(s) = {} THEN None
            ELSE d.submissions[x][CHOOSE i \in Rows(s) : TRUE].outcome],
         heard |-> own # {}]

Leases == INSTANCE LeaseLife WITH
             Pairs <- Nodes \X Tasks, LeaseRequests <- Requests, AnswerIds <- SubmissionIds,
             Answers <- Outcome, NoAnswer <- None,
             view <- [pair \in Nodes \X Tasks |-> LeaseView(db, pair[1], pair[2])]

\* The coordinator implements LeaseLife for every node and task: a lease that was
\* used, expired, given back for a delegation or taken away by a termination is
\* never good again, although lease_work goes on answering its request with it,
\* and delegation, reopening and late answers never get a node a second say.
ImplementsLeaseLife == Leases!LeaseLifeSpec

=============================================================================
