------------------------- MODULE CoordinatorProofs --------------------------
(***************************************************************************)
(* Types, attempts, submissions and the tree of tasks in Coordinator, for  *)
(* every value of its constants.                                           *)
(*                                                                         *)
(* 1. Types.  Each operator on databases keeps the types; each action      *)
(*    composes such operators after the expiry sweep.                      *)
(* 2. Attempts and submissions.  Every operation makes only moves of a few *)
(*    kinds on each task's row (RowMove); each kind keeps what AttemptLedger *)
(*    and OneSubmissionPerNode say of the row.                             *)
(* 3. The tree.  Each operation is described by what it changes (Ends, Frees, *)
(*    Gives, Turns, Approves, Passes, Inserts) and every handler as a sequence *)
(*    of such moves; TreeConsistent survives each move, whichever made it. *)
(***************************************************************************)
EXTENDS CoordinatorSafety, SharedTheorems

Typed(d) == d \in Database /\ ReferencesOK(d)

-----------------------------------------------------------------------------
(* Arithmetic of the fee *)

\* A fee in basis points is a part of the reward.
LEMMA QuotientBound ==
    ASSUME NEW m \in Nat
    PROVE  m \div 10000 \in Nat /\ 10000 * (m \div 10000) <= m
PROOF BY SMT

\* The platform's fee is less than the reward, so every provider transfer is
\* positive, as _insert_transfer and the schema require.
LEMMA FeeBound ==
    ASSUME NEW reward \in Nat \ {0}, NEW bps \in BasisPoints
    PROVE  PlatformFee(reward, bps) \in 0 .. reward - 1
PROOF
  <1>1. PICK m \in Nat : m = reward * bps
    BY SMT DEF BasisPoints
  <1>2. m <= 9999 * reward
    BY <1>1, SMT DEF BasisPoints
  <1>3. PICK q \in Nat : q = m \div 10000 /\ 10000 * q <= m
    BY QuotientBound
  <1>4. q < reward
    BY <1>2, <1>3, SMT
  <1> QED  BY <1>1, <1>3, <1>4, SMT DEF PlatformFee

-----------------------------------------------------------------------------
(* Updates of one table, or of one row *)

\* The fields of a task specification.
LEMMA SpecFields ==
    ASSUME NEW spec \in Specs
    PROVE  /\ spec.cap \in Caps
           /\ spec.reward \in Nat \ {0}
           /\ spec.budget \in Nat
           /\ spec.max \in Nat \ {0}
PROOF
  <1>1. spec \in Spec4Task
    BY SpecsAssumption
  <1> QED  BY <1>1, SMT DEF Spec4Task

\* A provider earns something, whatever the fee.
LEMMA EarningPositive ==
    ASSUME NEW spec \in Specs, NEW bps \in BasisPoints
    PROVE  /\ ProviderEarning(spec.reward, bps) \in Nat \ {0}
           /\ PlatformFee(spec.reward, bps) \in Nat
           /\ ProviderEarning(spec.reward, bps) + PlatformFee(spec.reward, bps) = spec.reward
PROOF
  <1>1. PICK reward \in Nat \ {0} : reward = spec.reward
    BY SpecFields
  <1>2. PlatformFee(reward, bps) \in 0 .. reward - 1
    BY <1>1, FeeBound
  <1>3. ProviderEarning(reward, bps) = reward - PlatformFee(reward, bps)
    BY DEF ProviderEarning
  <1> QED  BY <1>1, <1>2, <1>3, SMT

\* Replacing a table by one of its type.
LEMMA DatabaseUpdates ==
    ASSUME NEW d \in Database
    PROVE  /\ \A v \in OfferingTable : [d EXCEPT !.offering = v] \in Database
           /\ \A v \in ProblemTable : [d EXCEPT !.problem = v] \in Database
           /\ \A v \in 0 .. TaskPool : [d EXCEPT !.tasks = v] \in Database
           /\ \A v \in TaskTable : [d EXCEPT !.task = v] \in Database
           /\ \A v \in RequestTable : [d EXCEPT !.requests = v] \in Database
           /\ \A v \in SubmissionTable : [d EXCEPT !.submissions = v] \in Database
           /\ \A v \in DelegationTable : [d EXCEPT !.delegations = v] \in Database
           /\ \A v \in [Problems -> Int] : [d EXCEPT !.escrow = v] \in Database
           /\ \A v \in [Problems -> Nat] : [d EXCEPT !.refund = v] \in Database
           /\ \A v \in [Nodes -> Nat] : [d EXCEPT !.payable = v] \in Database
           /\ \A v \in Nat : [d EXCEPT !.revenue = v] \in Database
           /\ \A v \in [Tasks -> Nat] : [d EXCEPT !.credits = v] \in Database
           /\ \A v \in [Problems -> Nat] : [d EXCEPT !.refunds = v] \in Database
PROOF BY SMTT(30) DEF Database

\* The tables of a database.
LEMMA DatabaseTables ==
    ASSUME NEW d \in Database
    PROVE  /\ d.offering \in [Nodes -> [Caps -> {"none", "pending", "active"}]]
           /\ d.problem \in [Problems -> ProblemRow]
           /\ d.tasks \in 0 .. TaskPool
           /\ d.task \in [Tasks -> TaskRow]
           /\ d.requests \in [Nodes -> [Requests -> RequestRow \cup {None}]]
           /\ d.submissions \in [Tasks -> Seq(SubmissionRow)]
           /\ d.delegations \in [Tasks -> Seq(DelegationRow)]
           /\ d.escrow \in [Problems -> Int]
           /\ d.refund \in [Problems -> Nat]
           /\ d.payable \in [Nodes -> Nat]
           /\ d.revenue \in Nat
           /\ d.credits \in [Tasks -> Nat]
           /\ d.refunds \in [Problems -> Nat]
PROOF BY DEF Database, OfferingTable, ProblemTable, TaskTable, RequestTable,
             SubmissionTable, DelegationTable

\* Rows are within the pool.
LEMMA ExistingTasks ==
    ASSUME NEW d \in Database
    PROVE  Existing(d) \subseteq Tasks
PROOF
  <1>1. d.tasks \in 0 .. TaskPool
    BY DatabaseTables
  <1> QED  BY <1>1, PoolAssumption, SMT DEF Existing, Tasks

\* Replacing a column of a task by a value of its type.
LEMMA TaskRowUpdates ==
    ASSUME NEW row \in TaskRow
    PROVE  /\ \A v \in TaskState : [row EXCEPT !.state = v] \in TaskRow
           /\ \A v \in Nat : [row EXCEPT !.attempts = v] \in TaskRow
           /\ \A v \in LeaseRow \cup {None} : [row EXCEPT !.lease = v] \in TaskRow
           /\ \A v \in TaskState, w \in LeaseRow \cup {None} :
                 [row EXCEPT !.state = v, !.lease = w] \in TaskRow
PROOF
  <1> DEFINE L == LeaseRow \cup {None}
  <1> HIDE DEF L
  <1>1. TaskRow = [state : TaskState, problem : Problems \cup {None},
                   parent : Tasks \cup {None}, depth : Nat, spec : Specs \cup {None},
                   attempts : Nat, by : Nodes \cup {None}, selfOk : BOOLEAN,
                   lease : L, created : Nat]
    BY DEF TaskRow, L
  <1>2. \A v \in TaskState : [row EXCEPT !.state = v] \in TaskRow
    BY <1>1, SMTT(30)
  <1>3. \A v \in Nat : [row EXCEPT !.attempts = v] \in TaskRow
    BY <1>1, SMTT(30)
  <1>4. \A v \in L : [row EXCEPT !.lease = v] \in TaskRow
    BY <1>1, SMTT(30)
  <1>5. ASSUME NEW v \in TaskState, NEW w \in L
        PROVE  [row EXCEPT !.state = v, !.lease = w] \in TaskRow
    <2>1. \A r \in TaskRow : [r EXCEPT !.lease = w] \in TaskRow
      BY <1>1, SMTT(30)
    <2>2. [row EXCEPT !.state = v, !.lease = w] = [[row EXCEPT !.state = v] EXCEPT !.lease = w]
      BY SMTT(30) DEF TaskRow
    <2> QED  BY <1>2, <2>1, <2>2
  <1> QED  BY <1>2, <1>3, <1>4, <1>5 DEF L

-----------------------------------------------------------------------------
(* Settlement and termination *)

\* Settlement keeps the types,
LEMMA SettledTyped ==
    ASSUME NEW d, Typed(d), NEW P \in SUBSET Problems
    PROVE  Typed(Settled(d, P))
PROOF
  <1> DEFINE e == Settled(d, P)
             due == {p \in P : d.escrow[p] > 0}
             escrow == [p \in Problems |-> IF p \in due THEN 0 ELSE d.escrow[p]]
             refund == [p \in Problems |-> IF p \in due THEN d.refund[p] + d.escrow[p]
                                                        ELSE d.refund[p]]
             refunds == [p \in Problems |-> IF p \in due THEN d.refunds[p] + 1
                                                         ELSE d.refunds[p]]
             e1 == [d EXCEPT !.escrow = escrow]
             e2 == [e1 EXCEPT !.refund = refund]
             e3 == [e2 EXCEPT !.refunds = refunds]
  <1>1. d \in Database
    BY DEF Typed
  <1>2. /\ escrow \in [Problems -> Int]
        /\ refund \in [Problems -> Nat]
        /\ refunds \in [Problems -> Nat]
    BY <1>1, DatabaseTables, SMT
  <1>3. e3 \in Database
    <2> HIDE DEF escrow, refund, refunds, e1, e2, e3
    <2>1. e1 \in Database  BY <1>1, <1>2, DatabaseUpdates DEF e1
    <2>2. e2 \in Database  BY <2>1, <1>2, DatabaseUpdates DEF e2
    <2> QED  BY <2>2, <1>2, DatabaseUpdates DEF e3
  <1>4. e = e3
    BY <1>1, SMT DEF Settled, Database
  <1>5. ReferencesOK(e)
    BY SMT DEF Typed, ReferencesOK, Settled, Database, Existing
  <1> QED  BY <1>3, <1>4, <1>5 DEF Typed

\* so does voiding proposals,
LEMMA VoidedTyped ==
    ASSUME NEW rows \in Seq(DelegationRow)
    PROVE  /\ Voided(rows) \in Seq(DelegationRow)
           /\ Len(Voided(rows)) = Len(rows)
PROOF
  <1>1. \A i \in DOMAIN rows : rows[i] \in DelegationRow
    BY SMT
  <1>2. \A row \in DelegationRow : [row EXCEPT !.status = "void"] \in DelegationRow
    BY SMT DEF DelegationRow, DelegationStatus
  <1>3. \A i \in DOMAIN rows : Voided(rows)[i] \in DelegationRow
    BY <1>1, <1>2 DEF Voided
  <1>4. DOMAIN Voided(rows) = 1 .. Len(rows)
    BY DEF Voided
  <1> QED  BY <1>3, <1>4, SMT DEF Voided

\* termination,
LEMMA TerminatedTyped ==
    ASSUME NEW d, Typed(d), NEW P \in SUBSET Problems, NEW status \in TerminalStatus
    PROVE  Typed(Terminated(d, P, status))
PROOF
  <1> DEFINE doomed == {x \in Existing(d) : /\ d.task[x].problem \in P
                                            /\ d.task[x].state \notin {"accepted", "failed"}}
             problem == [p \in Problems |->
                IF p \in P /\ d.problem[p].status = "active"
                THEN [d.problem[p] EXCEPT !.status = status] ELSE d.problem[p]]
             task == [x \in Tasks |->
                IF x \in doomed THEN [d.task[x] EXCEPT !.state = "blocked", !.lease = None]
                ELSE d.task[x]]
             delegations == [x \in Tasks |->
                IF x \in Existing(d) /\ d.task[x].problem \in P THEN Voided(d.delegations[x])
                ELSE d.delegations[x]]
             e1 == [d EXCEPT !.problem = problem]
             e2 == [e1 EXCEPT !.task = task]
             e3 == [e2 EXCEPT !.delegations = delegations]
  <1>1. d \in Database /\ ReferencesOK(d)
    BY DEF Typed
  <1>2. problem \in ProblemTable
    <2>1. \A row \in ProblemRow : [row EXCEPT !.status = status] \in ProblemRow
      BY SMT DEF ProblemRow, Status
    <2> QED  BY <1>1, <2>1, DatabaseTables DEF ProblemTable
  <1>3. task \in TaskTable
    <2>1. \A row \in TaskRow : [row EXCEPT !.state = "blocked", !.lease = None] \in TaskRow
      BY TaskRowUpdates DEF TaskState
    <2> QED  BY <1>1, <2>1, DatabaseTables DEF TaskTable
  <1>4. delegations \in DelegationTable
    BY <1>1, VoidedTyped, DatabaseTables DEF DelegationTable
  <1>5. e3 \in Database
    <2> HIDE DEF problem, task, delegations, e1, e2, e3
    <2>1. e1 \in Database  BY <1>1, <1>2, DatabaseUpdates DEF e1
    <2>2. e2 \in Database  BY <2>1, <1>3, DatabaseUpdates DEF e2
    <2> QED  BY <2>2, <1>4, DatabaseUpdates DEF e3
  <1>6. ReferencesOK(e3)
    <2>1. e3.task = task /\ e3.problem = problem /\ e3.delegations = delegations
          /\ e3.tasks = d.tasks /\ e3.submissions = d.submissions /\ e3.requests = d.requests
      <3> HIDE DEF problem, task, delegations
      <3> QED  BY <1>1, SMT DEF Database
    <2>2. \A p \in Problems : d.problem[p].status # "none" => problem[p].status # "none"
      <3>1. \A row \in ProblemRow : [row EXCEPT !.status = status].status # "none"
        BY SMT DEF TerminalStatus, ProblemRow
      <3>2. d.problem \in [Problems -> ProblemRow]
        BY <1>1, DatabaseTables
      <3> QED  BY <3>1, <3>2
    <2>3. \A x \in Existing(d) :
            /\ task[x].spec = d.task[x].spec
            /\ task[x].problem = d.task[x].problem
            /\ task[x].parent = d.task[x].parent
            /\ \/ task[x].state = d.task[x].state /\ task[x].lease = d.task[x].lease
               \/ task[x].state = "blocked" /\ task[x].lease = None
      <3>1. \A row \in TaskRow :
               LET new == [row EXCEPT !.state = "blocked", !.lease = None] IN
               /\ new.spec = row.spec /\ new.problem = row.problem /\ new.parent = row.parent
               /\ new.state = "blocked" /\ new.lease = None
        BY SMT DEF TaskRow
      <3>2. d.task \in [Tasks -> TaskRow]
        BY <1>1, DatabaseTables
      <3>3. Existing(d) \subseteq Tasks
        BY <1>1, ExistingTasks
      <3> QED  BY <3>1, <3>2, <3>3
    <2>4. \A x \in Tasks \ Existing(d) :
            task[x] = d.task[x] /\ delegations[x] = d.delegations[x]
      BY SMT
    <2> HIDE DEF e3, problem, task, delegations
    <2> QED  BY <1>1, <2>1, <2>2, <2>3, <2>4, SMT DEF ReferencesOK, Existing
  <1>7. Terminated(d, P, status) = Settled(e3, P)
    <2>1. e3 = [d EXCEPT !.problem = problem, !.task = task, !.delegations = delegations]
      <3> HIDE DEF problem, task, delegations
      <3> QED  BY <1>1, SMT DEF Database
    <2> QED  BY <2>1, SMT DEF Terminated
  <1> HIDE DEF e3
  <1> QED  BY <1>5, <1>6, <1>7, SettledTyped DEF Typed

-----------------------------------------------------------------------------
(* Expiry *)

\* What ReferencesOK says of a leased task.
LEMMA LeasedRow ==
    ASSUME NEW d, Typed(d), NEW x \in InState(d, "leased")
    PROVE  /\ x \in Existing(d) /\ x \in Tasks
           /\ d.task[x] \in TaskRow
           /\ d.task[x].state = "leased"
           /\ d.task[x].lease \in LeaseRow
           /\ d.task[x].problem \in Problems
           /\ d.task[x].spec \in Specs
           /\ d.task[x].attempts \in Nat
PROOF
  <1>1. d \in Database /\ ReferencesOK(d)
    BY DEF Typed
  <1>2. x \in Existing(d) /\ x \in Tasks /\ d.task[x].state = "leased"
    BY <1>1, ExistingTasks DEF InState
  <1>3. d.task[x] \in TaskRow
    BY <1>1, <1>2, DatabaseTables
  <1>4. d.task[x].lease # None /\ d.task[x].problem \in Problems /\ d.task[x].spec \in Specs
    BY <1>1, <1>2 DEF ReferencesOK
  <1> QED  BY <1>2, <1>3, <1>4, SMT DEF TaskRow

\* the recording of timeouts,
LEMMA TimedOutTyped ==
    ASSUME NEW d, Typed(d), NEW R \in SUBSET InState(d, "leased")
    PROVE  Typed(TimedOut(d, R))
PROOF
  <1> DEFINE row(x) == [node |-> d.task[x].lease.node, sid |-> Timeout, outcome |-> "reject",
                        attempt |-> d.task[x].attempts, earned |-> 0]
             submissions == [x \in Tasks |->
                IF x \in R THEN Append(d.submissions[x], row(x)) ELSE d.submissions[x]]
             task == [x \in Tasks |->
                IF x \in R
                THEN [d.task[x] EXCEPT !.state = IF Final(d, x) THEN "failed" ELSE "open",
                                       !.lease = None]
                ELSE d.task[x]]
             e1 == [d EXCEPT !.submissions = submissions]
             e2 == [e1 EXCEPT !.task = task]
  <1>1. d \in Database /\ ReferencesOK(d)
    BY DEF Typed
  <1>2. submissions \in SubmissionTable
    <2>1. ASSUME NEW x \in R
          PROVE  row(x) \in SubmissionRow
      BY LeasedRow, SMT DEF SubmissionRow, LeaseRow, Outcome
    <2>2. ASSUME NEW x \in Tasks
          PROVE  submissions[x] \in Seq(SubmissionRow)
      <3> HIDE DEF row
      <3>1. d.submissions[x] \in Seq(SubmissionRow)
        BY <1>1, DatabaseTables
      <3> QED  BY <2>1, <3>1
    <2> QED  BY <2>2 DEF SubmissionTable
  <1>3. task \in TaskTable
    <2>1. ASSUME NEW x \in Tasks
          PROVE  task[x] \in TaskRow
      <3>1. d.task[x] \in TaskRow
        BY <1>1, DatabaseTables
      <3>2. (IF Final(d, x) THEN "failed" ELSE "open") \in TaskState
        BY DEF TaskState
      <3>3. \A v \in TaskState : [d.task[x] EXCEPT !.state = v, !.lease = None] \in TaskRow
        BY <3>1, TaskRowUpdates
      <3> QED  BY <3>1, <3>2, <3>3
    <2> QED  BY <2>1 DEF TaskTable
  <1>4. e2 \in Database
    <2> HIDE DEF submissions, task, e1, e2
    <2>1. e1 \in Database  BY <1>1, <1>2, DatabaseUpdates DEF e1
    <2> QED  BY <2>1, <1>3, DatabaseUpdates DEF e2
  <1>5. ReferencesOK(e2)
    <2>1. /\ e2.task = task /\ e2.problem = d.problem /\ e2.delegations = d.delegations
          /\ e2.tasks = d.tasks /\ e2.submissions = submissions /\ e2.requests = d.requests
      <3> HIDE DEF submissions, task
      <3> QED  BY <1>1, SMT DEF Database
    <2>2. ASSUME NEW x \in Existing(d)
          PROVE  /\ task[x].spec = d.task[x].spec
                 /\ task[x].problem = d.task[x].problem
                 /\ task[x].parent = d.task[x].parent
                 /\ \/ task[x].state = d.task[x].state /\ task[x].lease = d.task[x].lease
                    \/ task[x].state \in {"open", "failed"} /\ task[x].lease = None
      <3>1. d.task[x] \in TaskRow /\ x \in Tasks
        BY <1>1, DatabaseTables, ExistingTasks
      <3> QED  BY <3>1, SMT DEF TaskRow
    <2>3. \A x \in Tasks \ Existing(d) :
            task[x] = d.task[x] /\ submissions[x] = d.submissions[x]
      BY SMT DEF InState
    <2> HIDE DEF e2, submissions, task
    <2> QED  BY <1>1, <2>1, <2>2, <2>3, SMT DEF ReferencesOK, Existing
  <1>6. TimedOut(d, R) = e2
    <2>1. e2 = [d EXCEPT !.submissions = submissions, !.task = task]
      <3> HIDE DEF submissions, task
      <3> QED  BY <1>1, SMT DEF Database
    <2> QED  BY <2>1, SMT DEF TimedOut
  <1> QED  BY <1>4, <1>5, <1>6 DEF Typed

\* and the expiry made of these.
LEMMA SweptTyped ==
    ASSUME NEW d, Typed(d), NEW t, NEW e \in Swept(d, t)
    PROVE  Typed(e)
PROOF
  <1> DEFINE d1 == ProblemsExpired(d, t)
  <1>1. Typed(d1)
    BY TerminatedTyped DEF ProblemsExpired, DueProblems, TerminalStatus
  <1> HIDE DEF d1
  <1>2. PICK R \in TimeoutChoices(d1, t) :
           e = Terminated(TimedOut(d1, R),
                          {d1.task[x].problem : x \in {y \in R : Final(d1, y)}}, "blocked")
    BY DEF Swept, LeasesExpired, d1
  <1>3. R \in SUBSET InState(d1, "leased")
    BY DEF TimeoutChoices, Overdue
  <1>4. Typed(TimedOut(d1, R))
    BY <1>1, <1>3, TimedOutTyped
  <1>5. {d1.task[x].problem : x \in {y \in R : Final(d1, y)}} \in SUBSET Problems
    BY <1>1, <1>3, LeasedRow
  <1> QED  BY <1>2, <1>4, <1>5, TerminatedTyped DEF TerminalStatus

\* No expiry deletes or inserts a task.
LEMMA SweptExisting ==
    ASSUME NEW d, Typed(d), NEW t, NEW e \in Swept(d, t)
    PROVE  Existing(e) = Existing(d)
PROOF
  <1>1. \A a, P, s : Typed(a) /\ P \in SUBSET Problems /\ s \in TerminalStatus
           => Terminated(a, P, s).tasks = a.tasks
    BY SMT DEF Terminated, Settled, Typed, Database
  <1>2. \A a, R : Typed(a) => TimedOut(a, R).tasks = a.tasks
    BY SMT DEF TimedOut, Typed, Database
  <1> DEFINE d1 == ProblemsExpired(d, t)
  <1>3. Typed(d1) /\ d1.tasks = d.tasks
    BY <1>1, TerminatedTyped DEF ProblemsExpired, DueProblems, TerminalStatus
  <1> HIDE DEF d1
  <1>4. PICK R \in TimeoutChoices(d1, t) :
           e = Terminated(TimedOut(d1, R),
                          {d1.task[x].problem : x \in {y \in R : Final(d1, y)}}, "blocked")
    BY DEF Swept, LeasesExpired, d1
  <1>5. R \in SUBSET InState(d1, "leased")
    BY DEF TimeoutChoices, Overdue
  <1>6. Typed(TimedOut(d1, R))
    BY <1>3, <1>5, TimedOutTyped
  <1>7. {d1.task[x].problem : x \in {y \in R : Final(d1, y)}} \in SUBSET Problems
    BY <1>3, <1>5, LeasedRow
  <1> QED  BY <1>1, <1>2, <1>3, <1>4, <1>6, <1>7 DEF Existing, TerminalStatus

\* What an undecided proposal refers to is there.
LEMMA UndecidedRow ==
    ASSUME NEW d, Typed(d), NEW x \in Tasks, NEW i, Undecided(d, x, i)
    PROVE  x \in Existing(d) /\ i \in DOMAIN d.delegations[x] /\ d.task[x].state # "leased"
PROOF
  <1>1. x \in Existing(d)
    BY DEF Typed, ReferencesOK, Undecided
  <1> QED  BY <1>1 DEF Undecided

-----------------------------------------------------------------------------
(* One row replaced: the shape of most handlers' updates *)

\* A new version of a task's row that keeps its contract, with whatever changes
\* of the task's own submissions and delegations.
LEMMA RowReplaced ==
    ASSUME NEW d, Typed(d), NEW x \in Existing(d), NEW row \in TaskRow,
           row.state # "absent",
           row.spec = d.task[x].spec, row.problem = d.task[x].problem,
           row.parent = d.task[x].parent,
           row.state = "leased" <=> row.lease # None
    PROVE  Typed([d EXCEPT !.task[x] = row])
PROOF
  <1> DEFINE task == [d.task EXCEPT ![x] = row]
             e == [d EXCEPT !.task = task]
  <1>1. d \in Database /\ ReferencesOK(d) /\ d.task \in [Tasks -> TaskRow] /\ x \in Tasks
    BY DatabaseTables, ExistingTasks DEF Typed
  <1>2. e \in Database
    <2>1. task \in TaskTable  BY <1>1 DEF TaskTable
    <2> QED  BY <1>1, <2>1, DatabaseUpdates
  <1>3. ReferencesOK(e)
    <2>1. /\ e.task = task /\ e.problem = d.problem /\ e.delegations = d.delegations
          /\ e.tasks = d.tasks /\ e.submissions = d.submissions /\ e.requests = d.requests
      <3> HIDE DEF task
      <3> QED  BY <1>1, SMT DEF Database
    <2>2. /\ task[x] = row
          /\ \A y \in Tasks : y # x => task[y] = d.task[y]
      BY <1>1
    <2> HIDE DEF task, e
    <2>3. Existing(e) = Existing(d) /\ Existing(d) \subseteq Tasks
      BY <1>1, <2>1, ExistingTasks DEF Existing
    <2>4. ASSUME NEW y \in Existing(e)
          PROVE  LET r == e.task[y] IN
                 /\ r.state # "absent" /\ r.spec \in Specs /\ r.problem \in Problems
                 /\ e.problem[r.problem].status # "none"
                 /\ r.parent # None => r.parent \in Existing(e)
                 /\ r.state = "leased" <=> r.lease # None
      <3>1. CASE y = x
        BY <1>1, <2>1, <2>2, <2>3, <3>1 DEF ReferencesOK
      <3>2. CASE y # x
        BY <1>1, <2>1, <2>2, <2>3, <3>2 DEF ReferencesOK
      <3> QED  BY <3>1, <3>2
    <2>5. \A y \in Tasks \ Existing(e) :
             e.task[y] = NoTask /\ e.submissions[y] = << >> /\ e.delegations[y] = << >>
      BY <1>1, <2>1, <2>2, <2>3 DEF ReferencesOK
    <2>6. \A n \in Nodes, r \in Requests :
             e.requests[n][r] # None => e.requests[n][r].task \in Existing(e)
      BY <1>1, <2>1, <2>3 DEF ReferencesOK
    <2> QED  BY <2>4, <2>5, <2>6 DEF ReferencesOK
  <1>4. [d EXCEPT !.task[x] = row] = e
    BY <1>1, SMT DEF Database
  <1> QED  BY <1>2, <1>3, <1>4 DEF Typed

\* Replacing a task and its proposals keeps the types,
LEMMA DelegationsReplaced ==
    ASSUME NEW d, Typed(d), NEW x \in Existing(d), NEW rows \in Seq(DelegationRow)
    PROVE  Typed([d EXCEPT !.delegations[x] = rows])
PROOF
  <1> DEFINE delegations == [d.delegations EXCEPT ![x] = rows]
             e == [d EXCEPT !.delegations = delegations]
  <1>1. /\ d \in Database /\ ReferencesOK(d) /\ x \in Tasks
        /\ d.delegations \in [Tasks -> Seq(DelegationRow)]
    BY DatabaseTables, ExistingTasks DEF Typed
  <1>2. e \in Database
    <2>1. delegations \in DelegationTable  BY <1>1 DEF DelegationTable
    <2> QED  BY <1>1, <2>1, DatabaseUpdates
  <1>3. ReferencesOK(e)
    <2>1. /\ e.task = d.task /\ e.problem = d.problem /\ e.delegations = delegations
          /\ e.tasks = d.tasks /\ e.submissions = d.submissions /\ e.requests = d.requests
      <3> HIDE DEF delegations
      <3> QED  BY <1>1, SMT DEF Database
    <2>2. \A y \in Tasks \ Existing(d) : delegations[y] = d.delegations[y]
      BY <1>1
    <2> HIDE DEF delegations, e
    <2> QED  BY <1>1, <2>1, <2>2, SMT DEF ReferencesOK, Existing
  <1>4. [d EXCEPT !.delegations[x] = rows] = e
    BY <1>1, SMT DEF Database
  <1> QED  BY <1>2, <1>3, <1>4 DEF Typed

\* and so does replacing a task and its submissions.
LEMMA SubmissionsReplaced ==
    ASSUME NEW d, Typed(d), NEW x \in Existing(d), NEW rows \in Seq(SubmissionRow)
    PROVE  Typed([d EXCEPT !.submissions[x] = rows])
PROOF
  <1> DEFINE submissions == [d.submissions EXCEPT ![x] = rows]
             e == [d EXCEPT !.submissions = submissions]
  <1>1. /\ d \in Database /\ ReferencesOK(d) /\ x \in Tasks
        /\ d.submissions \in [Tasks -> Seq(SubmissionRow)]
    BY DatabaseTables, ExistingTasks DEF Typed
  <1>2. e \in Database
    <2>1. submissions \in SubmissionTable  BY <1>1 DEF SubmissionTable
    <2> QED  BY <1>1, <2>1, DatabaseUpdates
  <1>3. ReferencesOK(e)
    <2>1. /\ e.task = d.task /\ e.problem = d.problem /\ e.delegations = d.delegations
          /\ e.tasks = d.tasks /\ e.submissions = submissions /\ e.requests = d.requests
      <3> HIDE DEF submissions
      <3> QED  BY <1>1, SMT DEF Database
    <2>2. \A y \in Tasks \ Existing(d) : submissions[y] = d.submissions[y]
      BY <1>1
    <2> HIDE DEF submissions, e
    <2> QED  BY <1>1, <2>1, <2>2, SMT DEF ReferencesOK, Existing
  <1>4. [d EXCEPT !.submissions[x] = rows] = e
    BY <1>1, SMT DEF Database
  <1> QED  BY <1>2, <1>3, <1>4 DEF Typed

-----------------------------------------------------------------------------
(* The handlers *)

\* A lease keeps the types.
LEMMA LeasedTyped ==
    ASSUME NEW d, Typed(d), now \in Nat, NEW n \in Nodes, NEW r \in Requests,
           NEW x \in Candidates(d, n)
    PROVE  Typed(Leased(d, n, r, x))
PROOF
  <1> DEFINE lease == [node |-> n, request |-> r, until |-> now + LeaseSeconds]
             row == [d.task[x] EXCEPT !.state = "leased", !.attempts = @ + 1, !.lease = lease]
             quote == ProviderEarning(d.task[x].spec.reward, d.problem[d.task[x].problem].fee)
             request == [task |-> x, quote |-> quote]
             d1 == [d EXCEPT !.task[x] = row]
             requests == [d1.requests EXCEPT ![n][r] = request]
             e == [d1 EXCEPT !.requests = requests]
  <1>1. /\ d \in Database /\ ReferencesOK(d) /\ x \in Existing(d) /\ x \in Tasks
        /\ d.task[x] \in TaskRow
        /\ d.task[x].spec \in Specs /\ d.task[x].problem \in Problems
    BY DatabaseTables, ExistingTasks DEF Typed, Candidates, InState, ReferencesOK
  <1>2. lease \in LeaseRow /\ lease # None
    BY ConfigAssumption, NoneAssumption, SMT DEF LeaseRow
  <1>3. /\ row \in TaskRow /\ row.state = "leased" /\ row.lease = lease
        /\ row.spec = d.task[x].spec /\ row.problem = d.task[x].problem
        /\ row.parent = d.task[x].parent
    <2> HIDE DEF lease
    <2>1. d.task[x].attempts + 1 \in Nat
      BY <1>1, SMT DEF TaskRow
    <2> DEFINE row1 == [d.task[x] EXCEPT !.state = "leased"]
               row2 == [row1 EXCEPT !.attempts = d.task[x].attempts + 1]
               row3 == [row2 EXCEPT !.lease = lease]
    <2>2. row = row3
      BY <1>1, SMT DEF TaskRow
    <2>3. row \in TaskRow
      <3> HIDE DEF row, row1, row2, row3
      <3>1. row1 \in TaskRow  BY <1>1, TaskRowUpdates DEF TaskState, row1
      <3>2. row2 \in TaskRow  BY <2>1, <3>1, TaskRowUpdates DEF row2
      <3>3. row3 \in TaskRow  BY <1>2, <3>2, TaskRowUpdates DEF row3
      <3> QED  BY <2>2, <3>3
    <2> QED  BY <1>1, <2>3, SMT DEF TaskRow
  <1>4. Typed(d1)
    <2> HIDE DEF row, lease
    <2> QED  BY <1>1, <1>2, <1>3, RowReplaced
  <1>5. request \in RequestRow
    <2>1. d.problem[d.task[x].problem] \in ProblemRow
      BY <1>1, DatabaseTables
    <2>2. d.problem[d.task[x].problem].fee \in BasisPoints
      BY <2>1, SMT DEF ProblemRow
    <2>3. quote \in Nat
      BY <1>1, <2>2, EarningPositive
    <2> HIDE DEF quote
    <2> QED  BY <1>1, <2>3 DEF RequestRow
  <1>6. e \in Database
    <2> HIDE DEF d1, request
    <2>1. d1 \in Database  BY <1>4 DEF Typed
    <2>2. requests \in RequestTable  BY <2>1, <1>5, DatabaseTables DEF RequestTable
    <2> QED  BY <2>1, <2>2, DatabaseUpdates
  <1>7. ReferencesOK(e)
    <2> HIDE DEF d1, request
    <2>1. d1 \in Database /\ ReferencesOK(d1)
      BY <1>4 DEF Typed
    <2>2. /\ e.task = d1.task /\ e.problem = d1.problem /\ e.delegations = d1.delegations
          /\ e.tasks = d1.tasks /\ e.submissions = d1.submissions /\ e.requests = requests
      <3> HIDE DEF requests
      <3> QED  BY <2>1, SMT DEF Database
    <2>3. ASSUME NEW m \in Nodes, NEW k \in Requests, requests[m][k] # None
          PROVE  requests[m][k].task \in Existing(d1)
      <3>1. requests[m][k] = IF m = n /\ k = r THEN request ELSE d1.requests[m][k]
        BY <2>1, DatabaseTables, SMT
      <3>2. request.task = x
        BY DEF request
      <3>3. Existing(d1) = Existing(d)
        BY <1>1, SMT DEF Existing, d1, Database
      <3> QED  BY <1>1, <2>1, <2>3, <3>1, <3>2, <3>3 DEF ReferencesOK
    <2> HIDE DEF requests, e
    <2> QED  BY <2>1, <2>2, <2>3, SMT DEF ReferencesOK, Existing
  <1>8. Leased(d, n, r, x) = e
    <2>1. e = [d EXCEPT !.task[x] = row, !.requests[n][r] = request]
      <3> HIDE DEF row, request
      <3> QED  BY <1>1, SMT DEF Database
    <2>2. Leased(d, n, r, x) = [d EXCEPT !.task[x] = row, !.requests[n][r] = request]
      BY DEF Leased
    <2> QED  BY <2>1, <2>2
  <1> QED  BY <1>6, <1>7, <1>8 DEF Typed

\* A live lease is of a leased task.
LEMMA LiveLeaseRow ==
    ASSUME NEW d, Typed(d), NEW n, NEW r, NEW x \in Existing(d), LiveLease(d, n, r, x)
    PROVE  x \in InState(d, "leased")
PROOF BY DEF LiveLease, InState

\* A proposal keeps the types,
LEMMA ProposedTyped ==
    ASSUME NEW d, Typed(d), NEW n \in Nodes, NEW x \in InState(d, "leased"),
           NEW key \in Keys, NEW plan \in Plans
    PROVE  Typed(Proposed(d, n, x, key, plan))
PROOF
  <1> DEFINE attempts == IF d.task[x].attempts > 0 THEN d.task[x].attempts - 1 ELSE 0
             row == [d.task[x] EXCEPT !.state = "awaiting_delegation_approval",
                                      !.lease = None, !.attempts = attempts]
             new == [node |-> n, key |-> key, plan |-> plan, status |-> "proposed"]
             rows == Append(d.delegations[x], new)
             d1 == [d EXCEPT !.task[x] = row]
             e == [d1 EXCEPT !.delegations[x] = rows]
  <1>1. /\ d \in Database /\ x \in Existing(d) /\ x \in Tasks
        /\ d.task[x] \in TaskRow
        /\ d.delegations[x] \in Seq(DelegationRow)
    BY LeasedRow, DatabaseTables DEF Typed
  <1>2. /\ row \in TaskRow /\ row.state = "awaiting_delegation_approval" /\ row.lease = None
        /\ row.spec = d.task[x].spec /\ row.problem = d.task[x].problem
        /\ row.parent = d.task[x].parent
    <2> DEFINE row1 == [d.task[x] EXCEPT !.state = "awaiting_delegation_approval", !.lease = None]
               row2 == [row1 EXCEPT !.attempts = attempts]
    <2>1. attempts \in Nat
      BY <1>1, SMT DEF TaskRow
    <2>2. row = row2
      <3> HIDE DEF attempts
      <3> QED  BY <1>1, SMT DEF TaskRow
    <2>3. row2 \in TaskRow
      <3> HIDE DEF row1, attempts
      <3>1. row1 \in TaskRow  BY <1>1, TaskRowUpdates DEF TaskState, row1
      <3> QED  BY <2>1, <3>1, TaskRowUpdates
    <2> HIDE DEF attempts
    <2> QED  BY <1>1, <2>2, <2>3, SMT DEF TaskRow
  <1>3. Typed(d1) /\ Existing(d1) = Existing(d) /\ d1.delegations = d.delegations
    <2> HIDE DEF row
    <2>1. Typed(d1)  BY <1>1, <1>2, RowReplaced
    <2> QED  BY <1>1, <2>1, SMT DEF Existing, Database
  <1>4. rows \in Seq(DelegationRow)
    <2>1. new \in DelegationRow
      BY SMT DEF DelegationRow, DelegationStatus
    <2> HIDE DEF new
    <2> QED  BY <1>1, <2>1
  <1>5. Typed(e)
    <2> HIDE DEF d1, rows
    <2> QED  BY <1>1, <1>3, <1>4, DelegationsReplaced
  <1>6. Proposed(d, n, x, key, plan) = e
    <2>1. e = [d EXCEPT !.task[x] = row, !.delegations[x] = rows]
      <3> HIDE DEF row, rows
      <3> QED  BY <1>1, SMT DEF Database
    <2>2. Proposed(d, n, x, key, plan) = [d EXCEPT !.task[x] = row, !.delegations[x] = rows]
      BY DEF Proposed
    <2> QED  BY <2>1, <2>2
  <1> QED  BY <1>5, <1>6

\* and so does a decision.
LEMMA DecidedTyped ==
    ASSUME NEW rows \in Seq(DelegationRow), NEW i \in DOMAIN rows,
           NEW status \in DelegationStatus
    PROVE  Decided(rows, i, status) \in Seq(DelegationRow)
PROOF
  <1>1. rows[i] \in DelegationRow
    BY SMT
  <1>2. [rows[i] EXCEPT !.status = status] \in DelegationRow
    BY <1>1, SMT DEF DelegationRow
  <1> QED  BY <1>2, SMT DEF Decided

\* The decision sets the task's state and the proposal's status.
LEMMA DecisionTyped ==
    ASSUME NEW d, Typed(d), NEW x \in Existing(d), NEW i \in DOMAIN d.delegations[x],
           d.task[x].state # "leased",
           NEW state \in TaskState \ {"absent", "leased"}, NEW status \in DelegationStatus
    PROVE  Typed([d EXCEPT !.task[x] = [d.task[x] EXCEPT !.state = state],
                           !.delegations[x] = Decided(d.delegations[x], i, status)])
PROOF
  <1> DEFINE row == [d.task[x] EXCEPT !.state = state]
             rows == Decided(d.delegations[x], i, status)
             d1 == [d EXCEPT !.task[x] = row]
             e == [d1 EXCEPT !.delegations[x] = rows]
  <1>1. /\ d \in Database /\ x \in Tasks
        /\ d.task[x] \in TaskRow
        /\ d.delegations[x] \in Seq(DelegationRow)
        /\ d.task[x].lease = None
    BY DatabaseTables, ExistingTasks DEF Typed, ReferencesOK
  <1>2. /\ row \in TaskRow /\ row.state = state /\ row.lease = None
        /\ row.spec = d.task[x].spec /\ row.problem = d.task[x].problem
        /\ row.parent = d.task[x].parent
    <2>1. row \in TaskRow  BY <1>1, TaskRowUpdates
    <2> QED  BY <1>1, <2>1, SMT DEF TaskRow
  <1>3. Typed(d1) /\ Existing(d1) = Existing(d) /\ d1.delegations = d.delegations
    <2> HIDE DEF row
    <2>1. Typed(d1)  BY <1>1, <1>2, RowReplaced
    <2> QED  BY <1>1, <2>1, SMT DEF Existing, Database
  <1>4. rows \in Seq(DelegationRow)
    BY <1>1, DecidedTyped
  <1>5. Typed(e)
    <2> HIDE DEF d1, rows
    <2> QED  BY <1>1, <1>3, <1>4, DelegationsReplaced
  <1>6. e = [d EXCEPT !.task[x] = row, !.delegations[x] = rows]
    <2> HIDE DEF row, rows
    <2> QED  BY <1>1, SMT DEF Database
  <1> QED  BY <1>5, <1>6

\* An inserted task has the type of its table.
LEMMA TaskOfTyped ==
    ASSUME NEW p \in Problems, NEW parent \in Tasks \cup {None}, NEW depth \in Nat,
           NEW spec \in Specs, NEW t \in Nat, NEW by \in Nodes \cup {None},
           NEW selfOk \in BOOLEAN
    PROVE  LET row == TaskOf(p, parent, depth, spec, t, by, selfOk) IN
           /\ row \in TaskRow /\ row.state = "open" /\ row.lease = None
           /\ row.problem = p /\ row.spec = spec /\ row.parent = parent
PROOF BY SMT DEF TaskOf, TaskRow, TaskState

\* An approval inserts tasks that are well typed and refer to rows that are there.
LEMMA ApprovedTyped ==
    ASSUME NEW d, Typed(d), now \in Nat, NEW x \in Existing(d), NEW i \in DOMAIN d.delegations[x],
           NEW selfOk \in BOOLEAN, Undecided(d, x, i),
           d.tasks + Len(d.delegations[x][i].plan) <= TaskPool
    PROVE  Typed(Approved(d, x, i, selfOk))
PROOF
  <1> DEFINE plan == d.delegations[x][i].plan
             by == d.delegations[x][i].node
             last == d.tasks + Len(plan)
             child(c) == TaskOf(d.task[x].problem, x, d.task[x].depth + 1, plan[c - d.tasks],
                                now, by, selfOk)
             parent == [d.task[x] EXCEPT !.state = "waiting_children"]
             task == [c \in Tasks |-> IF c \in d.tasks + 1 .. last THEN child(c)
                                      ELSE IF c = x THEN parent ELSE d.task[c]]
             delegations == [d.delegations EXCEPT ![x] = Decided(d.delegations[x], i, "approved")]
             e1 == [d EXCEPT !.tasks = last]
             e2 == [e1 EXCEPT !.task = task]
             e3 == [e2 EXCEPT !.delegations = delegations]
  <1>1. /\ d \in Database /\ ReferencesOK(d) /\ x \in Tasks /\ d.tasks \in Nat
        /\ d.task[x] \in TaskRow /\ d.task \in [Tasks -> TaskRow]
        /\ d.delegations[x] \in Seq(DelegationRow)
        /\ d.delegations \in [Tasks -> Seq(DelegationRow)]
        /\ d.task[x].problem \in Problems
        /\ d.problem[d.task[x].problem].status # "none"
        /\ d.task[x].state = "awaiting_delegation_approval"
        /\ d.task[x].lease = None
    BY DatabaseTables, ExistingTasks DEF Typed, ReferencesOK, Undecided
  <1>2. plan \in Seq(Specs) /\ by \in Nodes /\ Len(plan) \in Nat /\ last \in 0 .. TaskPool
        /\ d.tasks <= last
    <2>1. d.delegations[x][i] \in DelegationRow
      BY <1>1, SMT
    <2>2. plan \in Plans /\ by \in Nodes
      BY <2>1, SMT DEF DelegationRow
    <2>3. plan \in Seq(Specs)
      BY <2>2, PlansAssumption
    <2> HIDE DEF plan
    <2>4. Len(plan) \in Nat
      BY <2>3, SMT
    <2> QED  BY <1>1, <2>2, <2>3, <2>4, PoolAssumption, SMT DEF plan
  <1>3. ASSUME NEW c \in d.tasks + 1 .. last
        PROVE  /\ child(c) \in TaskRow /\ child(c).state = "open" /\ child(c).lease = None
               /\ child(c).problem = d.task[x].problem /\ child(c).spec \in Specs
               /\ child(c).parent = x
    <2>1. plan[c - d.tasks] \in Specs
      <3> HIDE DEF plan
      <3> QED  BY <1>1, <1>2, SMT
    <2>2. d.task[x].depth + 1 \in Nat
      BY <1>1, SMT DEF TaskRow
    <2> DEFINE spec == plan[c - d.tasks]
               depth == d.task[x].depth + 1
               p == d.task[x].problem
               row == TaskOf(p, x, depth, spec, now, by, selfOk)
    <2>3. p \in Problems /\ depth \in Nat /\ spec \in Specs /\ by \in Nodes
      BY <1>1, <1>2, <2>1, <2>2
    <2>4. /\ row \in TaskRow /\ row.state = "open" /\ row.lease = None
          /\ row.problem = p /\ row.spec = spec /\ row.parent = x
      <3> HIDE DEF spec, depth, p, by
      <3> QED  BY <1>1, <2>3, TaskOfTyped
    <2> QED  BY <2>3, <2>4
  <1>4. /\ parent \in TaskRow /\ parent.state = "waiting_children" /\ parent.lease = None
        /\ parent.spec = d.task[x].spec /\ parent.problem = d.task[x].problem
        /\ parent.parent = d.task[x].parent
    <2>1. parent \in TaskRow  BY <1>1, TaskRowUpdates DEF TaskState
    <2> QED  BY <1>1, <2>1, SMT DEF TaskRow
  <1>5. task \in TaskTable
    <2> HIDE DEF child, parent, last
    <2> QED  BY <1>1, <1>3, <1>4 DEF TaskTable
  <1>6. delegations \in DelegationTable
    BY <1>1, DecidedTyped DEF DelegationTable, DelegationStatus
  <1>7. e3 \in Database
    <2> HIDE DEF last, task, delegations, e1, e2, e3
    <2>1. e1 \in Database  BY <1>1, <1>2, DatabaseUpdates DEF e1
    <2>2. e2 \in Database  BY <2>1, <1>5, DatabaseUpdates DEF e2
    <2> QED  BY <2>2, <1>6, DatabaseUpdates DEF e3
  <1>8. ReferencesOK(e3)
    <2>1. /\ e3.task = task /\ e3.problem = d.problem /\ e3.delegations = delegations
          /\ e3.tasks = last /\ e3.submissions = d.submissions /\ e3.requests = d.requests
      <3> HIDE DEF last, task, delegations
      <3> QED  BY <1>1, SMT DEF Database
    <2>2. /\ Existing(d) \subseteq Existing(e3) /\ Existing(e3) \subseteq Tasks
          /\ \A y \in Existing(e3) \ Existing(d) : y \in d.tasks + 1 .. last
          /\ \A y \in Existing(d) : y \notin d.tasks + 1 .. last
      <3> HIDE DEF last, e3
      <3> QED  BY <1>1, <1>2, <2>1, PoolAssumption, SMT DEF Existing, Tasks
    <2>3. \A y \in d.tasks + 1 .. last : y \in Tasks => task[y] = child(y)
      <3> HIDE DEF child, parent
      <3> QED  BY SMT
    <2>4. task[x] = parent
      <3> HIDE DEF child, parent
      <3> QED  BY <1>1, <2>2
    <2>5. \A y \in Tasks : y # x /\ y \notin d.tasks + 1 .. last => task[y] = d.task[y]
      <3> HIDE DEF child, parent
      <3> QED  BY SMT
    <2>6. \A y \in Tasks \ Existing(e3) : delegations[y] = d.delegations[y]
      BY <1>1, <2>2
    <2> HIDE DEF e3, task, delegations, child, parent, last
    <2>7. ASSUME NEW y \in Existing(e3)
          PROVE  LET row == e3.task[y] IN
                 /\ row.state # "absent" /\ row.spec \in Specs /\ row.problem \in Problems
                 /\ e3.problem[row.problem].status # "none"
                 /\ row.parent # None => row.parent \in Existing(e3)
                 /\ row.state = "leased" <=> row.lease # None
      <3>1. CASE y \notin Existing(d)
        BY <1>1, <1>3, <2>1, <2>2, <2>3, <3>1
      <3>2. CASE y = x
        BY <1>1, <1>4, <2>1, <2>2, <2>4, <3>2 DEF ReferencesOK
      <3>3. CASE y \in Existing(d) /\ y # x
        BY <1>1, <2>1, <2>2, <2>5, <3>3 DEF ReferencesOK
      <3> QED  BY <3>1, <3>2, <3>3
    <2>8. \A y \in Tasks \ Existing(e3) :
             e3.task[y] = NoTask /\ e3.submissions[y] = << >> /\ e3.delegations[y] = << >>
      <3>1. \A y \in Tasks \ Existing(e3) : y # x /\ y \notin d.tasks + 1 .. last
        BY <1>1, <1>2, <2>1, <2>2, SMT DEF Existing
      <3> QED  BY <1>1, <2>1, <2>2, <2>5, <2>6, <3>1 DEF ReferencesOK
    <2>9. \A n \in Nodes, r \in Requests :
             e3.requests[n][r] # None => e3.requests[n][r].task \in Existing(e3)
      BY <1>1, <2>1, <2>2 DEF ReferencesOK
    <2> QED  BY <2>7, <2>8, <2>9 DEF ReferencesOK
  <1>9. Approved(d, x, i, selfOk) = e3
    <2>1. e3 = [d EXCEPT !.tasks = last, !.task = task,
                         !.delegations[x] = Decided(d.delegations[x], i, "approved")]
      <3> HIDE DEF last, task
      <3> QED  BY <1>1, SMT DEF Database
    <2>2. Approved(d, x, i, selfOk) =
             [d EXCEPT !.tasks = last, !.task = task,
                       !.delegations[x] = Decided(d.delegations[x], i, "approved")]
      BY DEF Approved
    <2> QED  BY <2>1, <2>2
  <1> QED  BY <1>7, <1>8, <1>9 DEF Typed

\* Credit moves balances only.
LEMMA CreditedTyped ==
    ASSUME NEW d, Typed(d), NEW x \in Existing(d), NEW n \in Nodes
    PROVE  /\ Typed(Credited(d, x, n))
           /\ Credited(d, x, n).task = d.task
           /\ Credited(d, x, n).tasks = d.tasks
           /\ Credited(d, x, n).submissions = d.submissions
PROOF
  <1> DEFINE p == d.task[x].problem
             reward == d.task[x].spec.reward
             cut == PlatformFee(reward, d.problem[p].fee)
             escrow == [d.escrow EXCEPT ![p] = d.escrow[p] - reward]
             payable == [d.payable EXCEPT ![n] = d.payable[n] + (reward - cut)]
             credits == [d.credits EXCEPT ![x] = d.credits[x] + 1]
             e1 == [d EXCEPT !.escrow = escrow]
             e2 == [e1 EXCEPT !.payable = payable]
             e3 == [e2 EXCEPT !.revenue = d.revenue + cut]
             e4 == [e3 EXCEPT !.credits = credits]
  <1>1. /\ d \in Database /\ ReferencesOK(d) /\ x \in Tasks
        /\ p \in Problems /\ d.task[x].spec \in Specs
        /\ d.problem[p] \in ProblemRow
    BY DatabaseTables, ExistingTasks DEF Typed, ReferencesOK
  <1>2. reward \in Nat /\ cut \in Nat /\ reward - cut \in Nat
    <2>1. d.problem[p].fee \in BasisPoints
      BY <1>1, SMT DEF ProblemRow
    <2>2. reward \in Nat \ {0} /\ cut \in 0 .. reward - 1
      <3> HIDE DEF p
      <3> QED  BY <1>1, <2>1, SpecFields, FeeBound
    <2> HIDE DEF reward, cut
    <2> QED  BY <2>2, SMT
  <1>3. escrow \in [Problems -> Int] /\ payable \in [Nodes -> Nat] /\ credits \in [Tasks -> Nat]
        /\ d.revenue + cut \in Nat
    <2>1. /\ d.escrow \in [Problems -> Int] /\ d.payable \in [Nodes -> Nat]
          /\ d.credits \in [Tasks -> Nat] /\ d.revenue \in Nat
      BY <1>1, DatabaseTables
    <2> HIDE DEF reward, cut, p
    <2> QED  BY <1>1, <1>2, <2>1, SMT
  <1>4. e4 \in Database
    <2> HIDE DEF escrow, payable, credits, cut, e1, e2, e3, e4
    <2>1. e1 \in Database  BY <1>1, <1>3, DatabaseUpdates DEF e1
    <2>2. e2 \in Database  BY <2>1, <1>3, DatabaseUpdates DEF e2
    <2>3. e3 \in Database  BY <2>2, <1>3, DatabaseUpdates DEF e3
    <2> QED  BY <2>3, <1>3, DatabaseUpdates DEF e4
  <1>5. /\ e4.task = d.task /\ e4.problem = d.problem /\ e4.delegations = d.delegations
        /\ e4.tasks = d.tasks /\ e4.submissions = d.submissions /\ e4.requests = d.requests
    <2> HIDE DEF escrow, payable, credits, cut
    <2> QED  BY <1>1, SMT DEF Database
  <1>6. ReferencesOK(e4)
    <2> HIDE DEF e4
    <2> QED  BY <1>1, <1>5, SMT DEF ReferencesOK, Existing
  <1>7. Credited(d, x, n) = e4
    <2>1. e4 = [d EXCEPT !.escrow[p] = d.escrow[p] - reward,
                         !.payable[n] = d.payable[n] + (reward - cut),
                         !.revenue = d.revenue + cut,
                         !.credits[x] = d.credits[x] + 1]
      <3> HIDE DEF p, reward, cut
      <3> QED  BY <1>1, SMT DEF Database
    <2>2. Credited(d, x, n) =
             [d EXCEPT !.escrow[p] = d.escrow[p] - reward,
                       !.payable[n] = d.payable[n] + (reward - cut),
                       !.revenue = d.revenue + cut,
                       !.credits[x] = d.credits[x] + 1]
      BY DEF Credited
    <2> QED  BY <2>1, <2>2
  <1> QED  BY <1>4, <1>5, <1>6, <1>7 DEF Typed

\* A waiting parent that is reopened was not leased, and still is not.
LEMMA ParentRefreshedTyped ==
    ASSUME NEW d, Typed(d), NEW parent, parent # None => parent \in Existing(d)
    PROVE  Typed(ParentRefreshed(d, parent))
PROOF
  <1> DEFINE row == [d.task[parent] EXCEPT !.state = "open"]
  <1>1. CASE parent \in Existing(d) /\ d.task[parent].state = "waiting_children"
    <2>1. /\ d \in Database /\ ReferencesOK(d)
          /\ d.task[parent] \in TaskRow /\ d.task[parent].lease = None
      BY <1>1, DatabaseTables, ExistingTasks DEF Typed, ReferencesOK
    <2>2. row \in TaskRow
      BY <2>1, TaskRowUpdates DEF TaskState
    <2>3. /\ row.state = "open" /\ row.lease = None
          /\ row.spec = d.task[parent].spec /\ row.problem = d.task[parent].problem
          /\ row.parent = d.task[parent].parent
      BY <2>1, SMT DEF TaskRow
    <2>4. Typed([d EXCEPT !.task[parent] = row])
      <3> HIDE DEF row
      <3> QED  BY <1>1, <2>1, <2>2, <2>3, RowReplaced
    <2> QED  BY <2>4 DEF ParentRefreshed
  <1>2. CASE ~(parent \in Existing(d) /\ d.task[parent].state = "waiting_children")
    BY <1>2 DEF ParentRefreshed
  <1> QED  BY <1>1, <1>2

\* The completion of a problem keeps the types,
LEMMA StatusRefreshedTyped ==
    ASSUME NEW d, Typed(d), NEW p \in Problems
    PROVE  Typed(StatusRefreshed(d, p))
PROOF
  <1> DEFINE row == [d.problem[p] EXCEPT !.status = "completed"]
             problem == [d.problem EXCEPT ![p] = row]
             e == [d EXCEPT !.problem = problem]
  <1>1. d \in Database /\ ReferencesOK(d) /\ d.problem \in [Problems -> ProblemRow]
    BY DatabaseTables DEF Typed
  <1>2. row \in ProblemRow /\ row.status = "completed"
    BY <1>1, SMT DEF ProblemRow, Status, TerminalStatus
  <1>3. e \in Database
    <2>1. problem \in ProblemTable
      <3> HIDE DEF row
      <3> QED  BY <1>1, <1>2 DEF ProblemTable
    <2> QED  BY <1>1, <2>1, DatabaseUpdates
  <1>4. ReferencesOK(e)
    <2>1. /\ e.task = d.task /\ e.problem = problem /\ e.delegations = d.delegations
          /\ e.tasks = d.tasks /\ e.submissions = d.submissions /\ e.requests = d.requests
      <3> HIDE DEF problem
      <3> QED  BY <1>1, SMT DEF Database
    <2>2. \A q \in Problems : d.problem[q].status # "none" => problem[q].status # "none"
      <3> HIDE DEF row
      <3> QED  BY <1>1, <1>2
    <2> HIDE DEF e, problem
    <2> QED  BY <1>1, <2>1, <2>2, SMT DEF ReferencesOK, Existing
  <1>5. [d EXCEPT !.problem[p] = row] = e
    <2> HIDE DEF row
    <2> QED  BY <1>1, SMT DEF Database
  <1>6. Typed(Settled([d EXCEPT !.problem[p] = row], {p}))
    <2> HIDE DEF e, row
    <2> QED  BY <1>3, <1>4, <1>5, SettledTyped DEF Typed
  <1> QED  BY <1>6 DEF StatusRefreshed

\* so does a stored answer,
LEMMA RecordedTyped ==
    ASSUME NEW d, Typed(d), NEW n \in Nodes, NEW x \in InState(d, "leased"),
           NEW sid \in SubmissionIds, NEW outcome \in Outcome
    PROVE  /\ Typed(Recorded(d, n, x, sid, outcome))
           /\ Existing(Recorded(d, n, x, sid, outcome)) = Existing(d)
PROOF
  <1> DEFINE p == d.task[x].problem
             passed == outcome = "pass"
             earned == IF passed
                       THEN ProviderEarning(d.task[x].spec.reward, d.problem[p].fee) ELSE 0
             new == [node |-> n, sid |-> sid, outcome |-> outcome,
                     attempt |-> d.task[x].attempts, earned |-> earned]
             rows == Append(d.submissions[x], new)
             state == IF passed THEN "accepted" ELSE IF Final(d, x) THEN "failed" ELSE "open"
             row == [d.task[x] EXCEPT !.lease = None, !.state = state]
             d1 == [d EXCEPT !.submissions[x] = rows]
             stored == [d1 EXCEPT !.task[x] = row]
  <1>1. /\ d \in Database /\ ReferencesOK(d) /\ x \in Existing(d) /\ x \in Tasks
        /\ d.task[x] \in TaskRow /\ d.task[x].spec \in Specs /\ p \in Problems
        /\ d.submissions[x] \in Seq(SubmissionRow)
        /\ d.problem[p] \in ProblemRow
        /\ d.task[x].parent # None => d.task[x].parent \in Existing(d)
    BY LeasedRow, DatabaseTables DEF Typed, ReferencesOK
  <1>2. rows \in Seq(SubmissionRow)
    <2>1. d.problem[p].fee \in BasisPoints
      BY <1>1, SMT DEF ProblemRow
    <2>2. ProviderEarning(d.task[x].spec.reward, d.problem[p].fee) \in Nat
      <3> HIDE DEF p
      <3> QED  BY <1>1, <2>1, EarningPositive
    <2>3. earned \in Nat
      BY <2>2
    <2>4. d.task[x].attempts \in Nat
      BY <1>1, SMT DEF TaskRow
    <2>5. new \in SubmissionRow
      <3> HIDE DEF earned
      <3> QED  BY <2>3, <2>4, SMT DEF SubmissionRow
    <2> HIDE DEF new
    <2> QED  BY <1>1, <2>5
  <1>3. /\ row \in TaskRow /\ row.state = state /\ row.lease = None
        /\ state \in {"accepted", "failed", "open"}
        /\ row.spec = d.task[x].spec /\ row.problem = p /\ row.parent = d.task[x].parent
    <2> DEFINE row1 == [d.task[x] EXCEPT !.lease = None]
               row2 == [row1 EXCEPT !.state = state]
    <2>1. state \in {"accepted", "failed", "open"}
      OBVIOUS
    <2>2. row = row2
      <3> HIDE DEF state
      <3> QED  BY <1>1, SMT DEF TaskRow
    <2>3. row2 \in TaskRow
      <3> HIDE DEF state, row1
      <3>1. row1 \in TaskRow  BY <1>1, TaskRowUpdates DEF row1
      <3> QED  BY <2>1, <3>1, TaskRowUpdates DEF TaskState
    <2> HIDE DEF state
    <2> QED  BY <1>1, <2>1, <2>2, <2>3, SMT DEF TaskRow
  <1>4. Typed(d1) /\ Existing(d1) = Existing(d) /\ d1.task = d.task
    <2> HIDE DEF rows
    <2>1. Typed(d1)  BY <1>1, <1>2, SubmissionsReplaced
    <2> QED  BY <1>1, <2>1, SMT DEF Existing, Database
  <1>5. Typed(stored) /\ Existing(stored) = Existing(d)
    <2> HIDE DEF row, state, d1
    <2>1. Typed(stored)  BY <1>1, <1>3, <1>4, RowReplaced
    <2>2. d1 \in Database  BY <1>4 DEF Typed
    <2>3. stored.tasks = d1.tasks  BY <2>2, SMT DEF Database
    <2> QED  BY <1>4, <2>1, <2>3 DEF Existing
  <1>6. stored = Recorded(d, n, x, sid, outcome)
    <2>1. stored = [d EXCEPT !.submissions[x] = rows, !.task[x] = row]
      <3> HIDE DEF rows, row
      <3> QED  BY <1>1, SMT DEF Database
    <2> HIDE DEF stored
    <2> QED  BY <2>1 DEF Recorded
  <1> QED  BY <1>5, <1>6

\* and all that follows from one.
LEMMA SubmittedTyped ==
    ASSUME NEW d, Typed(d), NEW n \in Nodes, NEW x \in InState(d, "leased"),
           NEW sid \in SubmissionIds, NEW outcome \in Outcome
    PROVE  Typed(Submitted(d, n, x, sid, outcome))
PROOF
  <1> DEFINE stored == Recorded(d, n, x, sid, outcome)
             p == d.task[x].problem
  <1>1. /\ x \in Existing(d) /\ p \in Problems
        /\ d.task[x].parent # None => d.task[x].parent \in Existing(d)
    BY LeasedRow DEF Typed, ReferencesOK
  <1>2. Typed(stored) /\ Existing(stored) = Existing(d)
    BY RecordedTyped
  <1>3. Submitted(d, n, x, sid, outcome) =
           IF outcome = "pass"
           THEN StatusRefreshed(ParentRefreshed(Credited(stored, x, n), d.task[x].parent), p)
           ELSE IF Final(d, x) THEN Terminated(stored, {p}, "blocked") ELSE stored
    BY DEF Submitted
  <1> HIDE DEF stored, p
  <1>4. CASE outcome = "pass"
    <2>1. Typed(Credited(stored, x, n)) /\ Existing(Credited(stored, x, n)) = Existing(d)
      BY <1>1, <1>2, CreditedTyped DEF Existing
    <2>2. Typed(ParentRefreshed(Credited(stored, x, n), d.task[x].parent))
      BY <1>1, <2>1, ParentRefreshedTyped
    <2> QED  BY <1>1, <1>3, <1>4, <2>2, StatusRefreshedTyped
  <1>5. CASE outcome # "pass"
    BY <1>1, <1>2, <1>3, <1>5, TerminatedTyped DEF TerminalStatus
  <1> QED  BY <1>4, <1>5

\* A new problem and its root are well typed,
LEMMA InsertedTyped ==
    ASSUME TypeOK, NEW d, Typed(d), NEW p \in Problems, NEW b \in ProblemRequest, Insertable(d, b)
    PROVE  Typed(Inserted(d, p, b))
PROOF
  <1> DEFINE new == [status |-> "active", funded |-> b.funded, deadline |-> b.deadline, fee |-> fee]
             row == TaskOf(p, None, 0, b.spec, now, None, FALSE)
             x == d.tasks + 1
             problem == [d.problem EXCEPT ![p] = new]
             task == [d.task EXCEPT ![x] = row]
             escrow == [d.escrow EXCEPT ![p] = d.escrow[p] + b.funded]
             e1 == [d EXCEPT !.problem = problem]
             e2 == [e1 EXCEPT !.tasks = x]
             e3 == [e2 EXCEPT !.task = task]
             e4 == [e3 EXCEPT !.escrow = escrow]
  <1>1. /\ d \in Database /\ ReferencesOK(d) /\ now \in Nat
        /\ fee \in BasisPoints
        /\ d.tasks \in Nat /\ d.tasks < TaskPool
    BY FeesAssumption, TimeAssumption, PoolAssumption, DatabaseTables, SMT
       DEF TypeOK, Typed, Insertable
  <1>2. b.spec \in Specs /\ b.funded \in Nat /\ b.deadline \in Nat
    BY SMT DEF ProblemRequest
  <1>3. x \in Tasks /\ x \in 0 .. TaskPool
    BY <1>1, PoolAssumption, SMT DEF Tasks
  <1>4. new \in ProblemRow /\ new.status = "active"
    BY <1>1, <1>2, SMT DEF ProblemRow, Status
  <1>5. /\ row \in TaskRow /\ row.state = "open" /\ row.lease = None
        /\ row.problem = p /\ row.spec = b.spec /\ row.parent = None
    BY <1>1, <1>2, SMT DEF TaskOf, TaskRow, TaskState
  <1>6. /\ problem \in ProblemTable /\ task \in TaskTable /\ escrow \in [Problems -> Int]
    <2>1. /\ d.problem \in [Problems -> ProblemRow] /\ d.task \in [Tasks -> TaskRow]
          /\ d.escrow \in [Problems -> Int]
      BY <1>1, DatabaseTables
    <2>2. escrow \in [Problems -> Int]
      BY <1>2, <2>1, SMT
    <2> HIDE DEF new, row, x
    <2> QED  BY <1>4, <1>5, <2>1, <2>2 DEF ProblemTable, TaskTable
  <1>7. e4 \in Database
    <2> HIDE DEF problem, task, escrow, x, e1, e2, e3, e4
    <2>1. e1 \in Database  BY <1>1, <1>6, DatabaseUpdates DEF e1
    <2>2. e2 \in Database  BY <1>3, <2>1, DatabaseUpdates DEF e2
    <2>3. e3 \in Database  BY <1>6, <2>2, DatabaseUpdates DEF e3
    <2> QED  BY <1>6, <2>3, DatabaseUpdates DEF e4
  <1>8. ReferencesOK(e4)
    <2>1. /\ e4.task = task /\ e4.problem = problem /\ e4.delegations = d.delegations
          /\ e4.tasks = x /\ e4.submissions = d.submissions /\ e4.requests = d.requests
      <3> HIDE DEF problem, task, escrow, x
      <3> QED  BY <1>1, SMT DEF Database
    <2>2. /\ \A q \in Problems : q # p => problem[q] = d.problem[q]
          /\ problem[p] = new
          /\ \A y \in Tasks : y # x => task[y] = d.task[y]
          /\ task[x] = row
      <3> HIDE DEF new, row, x
      <3> QED  BY <1>1, <1>3, DatabaseTables
    <2>3. /\ Existing(d) \subseteq Existing(e4) /\ Existing(e4) \subseteq Tasks
          /\ \A y \in Existing(e4) : y = x \/ y \in Existing(d)
          /\ x \in Existing(e4) /\ x \notin Existing(d)
      <3> HIDE DEF e4
      <3> QED  BY <1>1, <1>3, <2>1, PoolAssumption, SMT DEF Existing, Tasks
    <2> HIDE DEF e4, problem, task, new, row, x
    <2>4. ASSUME NEW y \in Existing(e4)
          PROVE  LET r == e4.task[y] IN
                 /\ r.state # "absent" /\ r.spec \in Specs /\ r.problem \in Problems
                 /\ e4.problem[r.problem].status # "none"
                 /\ r.parent # None => r.parent \in Existing(e4)
                 /\ r.state = "leased" <=> r.lease # None
      <3>1. CASE y = x
        BY <1>2, <1>4, <1>5, <2>1, <2>2, <3>1
      <3>2. CASE y # x
        <4>1. y \in Existing(d) /\ e4.task[y] = d.task[y]
          BY <2>1, <2>2, <2>3, <3>2
        <4>2. \A q \in Problems : d.problem[q].status # "none" => e4.problem[q].status # "none"
          BY <1>4, <2>1, <2>2
        <4> QED  BY <1>1, <2>3, <4>1, <4>2 DEF ReferencesOK
      <3> QED  BY <3>1, <3>2
    <2>5. \A y \in Tasks \ Existing(e4) :
             e4.task[y] = NoTask /\ e4.submissions[y] = << >> /\ e4.delegations[y] = << >>
      BY <1>1, <2>1, <2>2, <2>3 DEF ReferencesOK
    <2>6. \A n \in Nodes, r \in Requests :
             e4.requests[n][r] # None => e4.requests[n][r].task \in Existing(e4)
      BY <1>1, <2>1, <2>3 DEF ReferencesOK
    <2> QED  BY <2>4, <2>5, <2>6 DEF ReferencesOK
  <1>9. Inserted(d, p, b) = e4
    <2>1. e4 = [d EXCEPT !.problem[p] = new, !.tasks = d.tasks + 1, !.task[d.tasks + 1] = row,
                          !.escrow[p] = d.escrow[p] + b.funded]
      <3> HIDE DEF new, row
      <3> QED  BY <1>1, SMT DEF Database
    <2> QED  BY <2>1 DEF Inserted
  <1> QED  BY <1>7, <1>8, <1>9 DEF Typed

\* as create_problem makes them,
LEMMA CreateProblemTyped ==
    ASSUME TypeOK, NEW p \in Problems, NEW b \in Bodies, CreateProblem(p, b)
    PROVE  Typed(db')
PROOF
  <1>1. Typed(db)
    BY DEF TypeOK, Typed
  <1> QED  BY <1>1, InsertedTyped, BodiesAssumption DEF CreateProblem

\* and so are offerings.
LEMMA OfferingTyped ==
    ASSUME NEW d, Typed(d), NEW n \in Nodes, NEW c \in Caps,
           NEW status \in {"none", "pending", "active"}
    PROVE  Typed([d EXCEPT !.offering[n][c] = status])
PROOF
  <1> DEFINE offering == [d.offering EXCEPT ![n][c] = status]
             e == [d EXCEPT !.offering = offering]
  <1>1. d \in Database /\ ReferencesOK(d)
    BY DEF Typed
  <1>2. e \in Database
    <2>1. offering \in OfferingTable  BY <1>1, DatabaseTables DEF OfferingTable
    <2> QED  BY <1>1, <2>1, DatabaseUpdates
  <1>3. ReferencesOK(e)
    <2>1. /\ e.task = d.task /\ e.problem = d.problem /\ e.delegations = d.delegations
          /\ e.tasks = d.tasks /\ e.submissions = d.submissions /\ e.requests = d.requests
      <3> HIDE DEF offering
      <3> QED  BY <1>1, SMT DEF Database
    <2> HIDE DEF e
    <2> QED  BY <1>1, <2>1, SMT DEF ReferencesOK, Existing
  <1>4. [d EXCEPT !.offering[n][c] = status] = e
    BY <1>1, SMT DEF Database
  <1> QED  BY <1>2, <1>3, <1>4 DEF Typed

-----------------------------------------------------------------------------
(* Every action keeps the types *)

\* So every step keeps the types,
LEMMA TypeStep ==
    ASSUME TypeOK, [Next]_vars
    PROVE  TypeOK'
PROOF
  <1>1. Typed(db) /\ now \in Nat /\ now \in 0 .. MaxTime /\ fee \in Fees
    BY TimeAssumption, SMT DEF TypeOK, Typed
  <1>2. \A e \in Swept(db, now) : Typed(e)
    BY <1>1, SweptTyped
  <1>3. \A n \in Nodes, r \in Requests :
           db.requests[n][r] # None => db.requests[n][r].task \in Existing(db)
    BY <1>1 DEF Typed, ReferencesOK
  <1>4. ASSUME NEW n \in Nodes, NEW c \in Caps, PublishOffering(n, c) \/ ApproveOffering(n, c)
        PROVE  Typed(db') /\ now' = now /\ fee' = fee
    <2>1. PICK status \in {"none", "pending", "active"} :
             db' = [db EXCEPT !.offering[n][c] = status] /\ UNCHANGED <<now, fee>>
      BY <1>4 DEF PublishOffering, ApproveOffering
    <2> QED  BY <1>1, <2>1, OfferingTyped
  <1>5. ASSUME NEW p \in Problems, NEW b \in Bodies, CreateProblem(p, b)
        PROVE  Typed(db') /\ now' = now /\ fee' = fee
    BY <1>5, CreateProblemTyped DEF CreateProblem
  <1>6. ASSUME NEW p \in Problems, CancelProblem(p)
        PROVE  Typed(db') /\ now' = now /\ fee' = fee
    BY <1>1, <1>6, TerminatedTyped DEF CancelProblem, TerminalStatus
  <1>7. ASSUME Reap
        PROVE  Typed(db') /\ now' = now /\ fee' = fee
    BY <1>2, <1>7 DEF Reap
  <1>8. ASSUME ExpireDueProblems
        PROVE  Typed(db') /\ now' = now /\ fee' = fee
    BY <1>1, <1>8, TerminatedTyped
       DEF ExpireDueProblems, ProblemsExpired, DueProblems, TerminalStatus
  <1>9. ASSUME NEW n \in Nodes, NEW r \in Requests, LeaseWork(n, r)
        PROVE  Typed(db') /\ now' = now /\ fee' = fee
    <2>1. PICK d \in Swept(db, now) :
             db' = d \/ \E x \in Candidates(d, n) : db' = Leased(d, n, r, x)
      BY <1>9 DEF LeaseWork, Oldest
    <2> QED  BY <1>1, <1>2, <1>9, <2>1, LeasedTyped DEF LeaseWork
  <1>10. ASSUME NEW n \in Nodes, NEW r \in Requests, NEW key \in Keys, NEW plan \in Plans,
                DelegateChildren(n, r, key, plan)
         PROVE  Typed(db') /\ now' = now /\ fee' = fee
    <2> DEFINE x == db.requests[n][r].task
    <2>1. PICK d \in Swept(db, now) :
             db' = d \/ (LiveLease(d, n, r, x) /\ db' = Proposed(d, n, x, key, plan))
      BY <1>10 DEF DelegateChildren
    <2>2. x \in Existing(d)
      BY <1>1, <1>3, <1>10, <2>1, SweptExisting DEF DelegateChildren
    <2> QED  BY <1>2, <1>10, <2>1, <2>2, LiveLeaseRow, ProposedTyped DEF DelegateChildren
  <1>11. ASSUME NEW x \in Tasks, NEW i \in 1 .. MaxProposals, RejectDelegation(x, i)
         PROVE  Typed(db') /\ now' = now /\ fee' = fee
    <2>1. PICK d \in Swept(db, now) :
             \/ db' = d
             \/ /\ Undecided(d, x, i)
                /\ db' = [d EXCEPT !.task[x] = [d.task[x] EXCEPT !.state = "open"],
                                   !.delegations[x] = Decided(d.delegations[x], i, "rejected")]
      BY <1>11 DEF RejectDelegation
    <2>2. "open" \in TaskState \ {"absent", "leased"} /\ "rejected" \in DelegationStatus
      BY DEF TaskState, DelegationStatus
    <2>3. CASE Undecided(d, x, i)
      <3>1. Typed(d) /\ x \in Existing(d) /\ i \in DOMAIN d.delegations[x]
            /\ d.task[x].state # "leased"
        BY <1>2, <2>3, UndecidedRow
      <3>2. Typed([d EXCEPT !.task[x] = [d.task[x] EXCEPT !.state = "open"],
                            !.delegations[x] = Decided(d.delegations[x], i, "rejected")])
        BY <2>2, <3>1, DecisionTyped
      <3> QED  BY <1>2, <1>11, <2>1, <3>2 DEF RejectDelegation
    <2>4. CASE ~Undecided(d, x, i)
      BY <1>2, <1>11, <2>1, <2>4 DEF RejectDelegation
    <2> QED  BY <2>3, <2>4
  <1>12. ASSUME NEW x \in Tasks, NEW i \in 1 .. MaxProposals, NEW selfOk \in BOOLEAN,
                ApproveDelegation(x, i, selfOk)
         PROVE  Typed(db') /\ now' = now /\ fee' = fee
    <2>1. PICK d \in Swept(db, now) :
             \/ db' = d
             \/ /\ Undecided(d, x, i)
                /\ d.tasks + Len(d.delegations[x][i].plan) <= TaskPool
                /\ db' = Approved(d, x, i, selfOk)
      BY <1>12 DEF ApproveDelegation
    <2> QED  BY <1>1, <1>2, <1>12, <2>1, UndecidedRow, ApprovedTyped DEF ApproveDelegation
  <1>13. ASSUME NEW n \in Nodes, NEW r \in Requests, NEW sid \in SubmissionIds,
                NEW outcome \in Outcome, SubmitResult(n, r, sid, outcome)
         PROVE  Typed(db') /\ now' = now /\ fee' = fee
    <2> DEFINE x == db.requests[n][r].task
    <2>1. PICK d \in Swept(db, now) :
             db' = d \/ (LiveLease(d, n, r, x) /\ db' = Submitted(d, n, x, sid, outcome))
      BY <1>13 DEF SubmitResult
    <2>2. x \in Existing(d)
      BY <1>1, <1>3, <1>13, <2>1, SweptExisting DEF SubmitResult
    <2> QED  BY <1>2, <1>13, <2>1, <2>2, LiveLeaseRow, SubmittedTyped DEF SubmitResult
  <1>14. ASSUME NEW f \in Fees, Restart(f)
         PROVE  Typed(db') /\ now' = now /\ fee' \in Fees
    BY <1>1, <1>14 DEF Restart
  <1>15. ASSUME Tick
         PROVE  Typed(db') /\ now' \in 0 .. MaxTime /\ fee' = fee
    BY <1>1, <1>15, TimeAssumption, SMT DEF Tick
  <1>16. ASSUME UNCHANGED vars
         PROVE  Typed(db') /\ now' = now /\ fee' = fee
    BY <1>1, <1>16 DEF vars
  <1> DEFINE Good == Typed(db') /\ now' \in 0 .. MaxTime /\ fee' \in Fees
  <1>17. Typed(db') /\ now' = now /\ fee' = fee => Good
    BY <1>1
  <1>18. ASSUME NEW f \in Fees, Restart(f) PROVE Good
    BY <1>1, <1>14, <1>18
  <1>19. ASSUME Tick PROVE Good
    BY <1>1, <1>15, <1>19
  <1> HIDE DEF Good
  <1>20. Good
    <2>1. CASE UNCHANGED vars
      BY <1>16, <1>17, <2>1
    <2>2. CASE Next
      BY <1>4, <1>5, <1>6, <1>7, <1>8, <1>9, <1>10, <1>11, <1>12, <1>13, <1>17, <1>18, <1>19,
         <2>2 DEF Next
    <2> QED  BY <2>1, <2>2
  <1> QED  BY <1>20 DEF Good, TypeOK, Typed

\* and a new database has them.
LEMMA TypeInit == Init => TypeOK
PROOF
  <1> SUFFICES ASSUME Init PROVE TypeOK
    OBVIOUS
  <1>1. db \in Database
    <2>1. NoTask \in TaskRow
      BY SMT DEF NoTask, TaskRow, TaskState
    <2>2. [x \in Tasks |-> NoTask] \in TaskTable
      BY <2>1 DEF TaskTable
    <2>3. [p \in Problems |-> [status |-> "none", funded |-> 0, deadline |-> 0, fee |-> 0]]
             \in ProblemTable
      BY SMT DEF ProblemTable, ProblemRow, Status, BasisPoints
    <2>4. [x \in Tasks |-> << >>] \in SubmissionTable
          /\ [x \in Tasks |-> << >>] \in DelegationTable
      BY SMT DEF SubmissionTable, DelegationTable
    <2>5. [n \in Nodes |-> [r \in Requests |-> None]] \in RequestTable
          /\ [n \in Nodes |-> [c \in Caps |-> "none"]] \in OfferingTable
      BY DEF RequestTable, OfferingTable
    <2>6. 0 \in 0 .. TaskPool
      BY PoolAssumption, SMT
    <2> QED  BY <2>2, <2>3, <2>4, <2>5, <2>6, SMT DEF Init, EmptyDatabase, Database
  <1>2. ReferencesOK(db)
    <2>1. Existing(db) = {}
      BY SMT DEF Init, EmptyDatabase, Existing
    <2>2. \A x \in Tasks :
             db.task[x] = NoTask /\ db.submissions[x] = << >> /\ db.delegations[x] = << >>
      BY DEF Init, EmptyDatabase
    <2>3. \A n \in Nodes, r \in Requests : db.requests[n][r] = None
      BY DEF Init, EmptyDatabase
    <2> QED  BY <2>1, <2>2, <2>3 DEF ReferencesOK
  <1> QED  BY <1>1, <1>2, TimeAssumption, SMT DEF Init, TypeOK

\* In every reachable state the tables hold rows of the types the schema gives
\* them, foreign keys refer to rows that exist, and a task holds a lease exactly
\* while it is leased: whatever the number of nodes, problems, tasks, plans and
\* requests, and whatever the configuration of the service.
THEOREM TypeCorrect == Spec => []TypeOK
PROOF
  <1>1. TypeOK /\ [Next]_vars => TypeOK'
    BY TypeStep
  <1> QED  BY <1>1, TypeInit, PTL DEF Spec

-----------------------------------------------------------------------------
(***************************************************************************)
(* 2. Attempts and submissions                                             *)
(*                                                                         *)
(* AttemptLedger and OneSubmissionPerNode speak of one task's row and its  *)
(* submissions at a time.  Together they are inductive relative to the types; *)
(* neither the tree nor the money is needed.                               *)
(***************************************************************************)

-----------------------------------------------------------------------------
(* Moves of one row *)

\* The state changes, nothing else that matters does.
QuietMove(old, rows, new, rows2) ==
    /\ rows2 = rows /\ new.attempts = old.attempts
    /\ \/ new.state = old.state /\ new.lease = old.lease
       \/ new.state = "blocked" /\ old.state \notin {"accepted", "failed"}
       \/ /\ old.state \in {"awaiting_delegation_approval", "waiting_children"}
          /\ new.state \in {"open", "waiting_children"}

LeaseMove(old, rows, new, rows2) ==
    /\ old.state = "open" /\ new.state = "leased"
    /\ rows2 = rows /\ new.attempts = old.attempts + 1
    /\ old.attempts < old.spec.max
    /\ \A i \in DOMAIN rows : rows[i].node = new.lease.node => rows[i].outcome # "reject"

ReturnMove(old, rows, new, rows2) ==
    /\ old.state = "leased" /\ new.state = "awaiting_delegation_approval"
    /\ rows2 = rows
    /\ new.attempts = IF old.attempts > 0 THEN old.attempts - 1 ELSE 0

RecordMove(old, rows, new, rows2) ==
    \E row \in SubmissionRow :
        /\ old.state = "leased" /\ new.state \in {"open", "failed", "accepted"}
        /\ rows2 = Append(rows, row) /\ new.attempts = old.attempts
        /\ row.attempt = old.attempts /\ row.node = old.lease.node
        /\ new.state = "failed" => old.attempts >= old.spec.max
        /\ row.outcome = "pass" <=> new.state = "accepted"

RowMove(old, rows, new, rows2) ==
    /\ new.spec = old.spec
    /\ \/ QuietMove(old, rows, new, rows2)
       \/ LeaseMove(old, rows, new, rows2)
       \/ ReturnMove(old, rows, new, rows2)
       \/ RecordMove(old, rows, new, rows2)

Fresh(row, rows) == row.state = "open" /\ row.attempts = 0 /\ rows = << >>

MovesTo(d, e) ==
    /\ Existing(d) \subseteq Existing(e)
    /\ \A x \in Existing(d) :
          RowMove(d.task[x], d.submissions[x], e.task[x], e.submissions[x])
    /\ \A x \in Existing(e) \ Existing(d) : Fresh(e.task[x], e.submissions[x])

RowOK(row, rows) == AttemptsAddUp(row, rows) /\ OneEach(row, rows)
RowsOK(d) == \A x \in Existing(d) : RowOK(d.task[x], d.submissions[x])

-----------------------------------------------------------------------------
(* A move keeps RowOK *)

\* A move that leaves the attempts alone keeps them in order,
LEMMA QuietKeeps ==
    ASSUME NEW old, NEW rows, NEW new, new.spec = old.spec, RowOK(old, rows),
           QuietMove(old, rows, new, rows)
    PROVE  RowOK(new, rows)
PROOF BY DEF RowOK, AttemptsAddUp, OneEach, QuietMove

\* so does a lease, which counts one,
LEMMA LeaseKeeps ==
    ASSUME NEW old, old.attempts \in Nat, old.spec.max \in Nat,
           NEW rows \in Seq(SubmissionRow), NEW new, new.spec = old.spec,
           RowOK(old, rows), LeaseMove(old, rows, new, rows)
    PROVE  RowOK(new, rows)
PROOF
  <1>1. AttemptsAddUp(new, rows)
    BY SMT DEF RowOK, AttemptsAddUp, LeaseMove
  <1>2. \A i \in DOMAIN rows : rows[i].outcome \in {"pass", "reject"}
    <2>1. \A i \in DOMAIN rows : rows[i] \in SubmissionRow
      BY SMT
    <2>2. \A row \in SubmissionRow : row.outcome \in {"pass", "reject"}
      BY SMT DEF SubmissionRow, Outcome
    <2> QED  BY <2>1, <2>2
  <1>3. \A i \in DOMAIN rows : rows[i].outcome # "pass"
    BY DEF RowOK, OneEach, LeaseMove
  <1> QED  BY <1>1, <1>2, <1>3 DEF RowOK, OneEach, LeaseMove

\* a proposal, which gives it back,
LEMMA ReturnKeeps ==
    ASSUME NEW old, old.attempts \in Nat, old.spec.max \in Nat,
           NEW rows \in Seq(SubmissionRow), NEW new, new.spec = old.spec,
           RowOK(old, rows), ReturnMove(old, rows, new, rows)
    PROVE  RowOK(new, rows)
PROOF
  <1>1. AttemptsAddUp(new, rows)
    BY SMT DEF RowOK, AttemptsAddUp, ReturnMove
  <1>2. OneEach(new, rows)
    BY DEF RowOK, OneEach, ReturnMove
  <1> QED  BY <1>1, <1>2 DEF RowOK

\* and an answer, which is a row for it.
LEMMA RecordKeeps ==
    ASSUME NEW old, old.attempts \in Nat, old.spec.max \in Nat,
           NEW rows \in Seq(SubmissionRow), NEW new, NEW rows2, new.spec = old.spec,
           RowOK(old, rows), RecordMove(old, rows, new, rows2)
    PROVE  RowOK(new, rows2)
PROOF
  <1>1. PICK row \in SubmissionRow :
           /\ old.state = "leased" /\ new.state \in {"open", "failed", "accepted"}
           /\ rows2 = Append(rows, row) /\ new.attempts = old.attempts
           /\ row.attempt = old.attempts /\ row.node = old.lease.node
           /\ new.state = "failed" => old.attempts >= old.spec.max
           /\ row.outcome = "pass" <=> new.state = "accepted"
    BY DEF RecordMove
  <1>2. /\ Len(rows2) = Len(rows) + 1 /\ Len(rows) \in Nat
        /\ DOMAIN rows = 1 .. Len(rows) /\ DOMAIN rows2 = 1 .. Len(rows2)
        /\ \A i \in 1 .. Len(rows) : rows2[i] = rows[i]
        /\ rows2[Len(rows) + 1] = row
    BY <1>1, SMT
  <1>3. /\ \A i \in 1 .. Len(rows) : rows[i].attempt = i
        /\ old.attempts = Len(rows) + 1 /\ old.attempts <= old.spec.max
    BY <1>1 DEF RowOK, AttemptsAddUp
  <1>4. AttemptsAddUp(new, rows2)
    <2>1. \A i \in 1 .. Len(rows2) : rows2[i].attempt = i
      BY <1>1, <1>2, <1>3, SMT
    <2> QED  BY <1>1, <1>2, <1>3, <2>1, SMT DEF AttemptsAddUp
  <1>5. OneEach(new, rows2)
    <2>1. /\ \A i, j \in 1 .. Len(rows) : rows[i].node = rows[j].node => i = j
          /\ \A i \in 1 .. Len(rows) : rows[i].node # row.node /\ rows[i].outcome # "pass"
      BY <1>1, <1>2 DEF RowOK, OneEach
    <2>2. \A i \in 1 .. Len(rows2) : i \in 1 .. Len(rows) \/ i = Len(rows) + 1
      BY <1>2, SMT
    <2>3. \A i, j \in DOMAIN rows2 : rows2[i].node = rows2[j].node => i = j
      BY <1>2, <2>1, <2>2
    <2>4. (\E i \in DOMAIN rows2 : rows2[i].outcome = "pass") => new.state = "accepted"
      BY <1>1, <1>2, <2>1, <2>2
    <2> QED  BY <1>1, <2>3, <2>4 DEF OneEach
  <1> QED  BY <1>4, <1>5 DEF RowOK

\* The lease's node has no row of the task yet.
LEMMA FreshRow ==
    ASSUME NEW row, row.spec.max \in Nat, NEW rows, Fresh(row, rows)
    PROVE  RowOK(row, rows)
PROOF BY SMT DEF Fresh, RowOK, AttemptsAddUp, OneEach

\* What a typed database says of an existing row.
LEMMA ExistingRow ==
    ASSUME NEW d, Typed(d), NEW x \in Existing(d)
    PROVE  /\ x \in Tasks /\ d.task[x] \in TaskRow
           /\ d.task[x].attempts \in Nat
           /\ d.task[x].spec \in Specs /\ d.task[x].spec.max \in Nat
           /\ d.task[x].problem \in Problems
           /\ d.submissions[x] \in Seq(SubmissionRow)
PROOF
  <1>1. d \in Database /\ x \in Tasks /\ d.task[x].spec \in Specs /\ d.task[x].problem \in Problems
    BY ExistingTasks DEF Typed, ReferencesOK
  <1>2. d.task[x] \in TaskRow /\ d.submissions[x] \in Seq(SubmissionRow)
    BY <1>1, DatabaseTables
  <1>3. d.task[x].attempts \in Nat
    BY <1>2, SMT DEF TaskRow
  <1>4. d.task[x].spec.max \in Nat
    BY <1>1, SpecFields
  <1> QED  BY <1>1, <1>2, <1>3, <1>4

\* Moves of all tasks at once keep every row in order.
LEMMA MovesKeepRows ==
    ASSUME NEW d, Typed(d), NEW e, Typed(e), RowsOK(d), MovesTo(d, e)
    PROVE  RowsOK(e)
PROOF
  <1> SUFFICES ASSUME NEW x \in Existing(e)
               PROVE  RowOK(e.task[x], e.submissions[x])
    BY DEF RowsOK
  <1>1. CASE x \in Existing(d)
    <2>1. /\ RowOK(d.task[x], d.submissions[x])
          /\ RowMove(d.task[x], d.submissions[x], e.task[x], e.submissions[x])
          /\ d.task[x].attempts \in Nat /\ d.task[x].spec.max \in Nat
          /\ d.submissions[x] \in Seq(SubmissionRow)
      BY <1>1, ExistingRow DEF RowsOK, MovesTo
    <2>2. CASE QuietMove(d.task[x], d.submissions[x], e.task[x], e.submissions[x])
      <3>1. e.submissions[x] = d.submissions[x]
        BY <2>2 DEF QuietMove
      <3> QED  BY <2>1, <2>2, <3>1, QuietKeeps DEF RowMove
    <2>3. CASE LeaseMove(d.task[x], d.submissions[x], e.task[x], e.submissions[x])
      <3>1. e.submissions[x] = d.submissions[x]
        BY <2>3 DEF LeaseMove
      <3> QED  BY <2>1, <2>3, <3>1, LeaseKeeps DEF RowMove
    <2>4. CASE ReturnMove(d.task[x], d.submissions[x], e.task[x], e.submissions[x])
      <3>1. e.submissions[x] = d.submissions[x]
        BY <2>4 DEF ReturnMove
      <3> QED  BY <2>1, <2>4, <3>1, ReturnKeeps DEF RowMove
    <2>5. CASE RecordMove(d.task[x], d.submissions[x], e.task[x], e.submissions[x])
      BY <2>1, <2>5, RecordKeeps DEF RowMove
    <2> QED  BY <2>1, <2>2, <2>3, <2>4, <2>5 DEF RowMove
  <1>2. CASE x \notin Existing(d)
    BY <1>2, ExistingRow, FreshRow DEF MovesTo
  <1> QED  BY <1>1, <1>2

-----------------------------------------------------------------------------
(* What each operation moves *)

\* A database that differs from d only in tables that RowsOK does not look at.
LEMMA SameRows ==
    ASSUME NEW d, NEW e,
           e.tasks = d.tasks, e.task = d.task, e.submissions = d.submissions
    PROVE  MovesTo(d, e)
PROOF BY DEF MovesTo, RowMove, QuietMove, Existing

\* A termination moves the tasks of its problems.
LEMMA TerminatedMoves ==
    ASSUME NEW d, Typed(d), NEW P \in SUBSET Problems, NEW status \in TerminalStatus
    PROVE  MovesTo(d, Terminated(d, P, status))
PROOF
  <1> DEFINE e == Terminated(d, P, status)
             Blocked(row) == [row EXCEPT !.state = "blocked", !.lease = None]
  <1>1. /\ e.tasks = d.tasks /\ e.submissions = d.submissions
        /\ \A x \in Tasks :
              e.task[x] = IF /\ x \in Existing(d) /\ d.task[x].problem \in P
                             /\ d.task[x].state \notin {"accepted", "failed"}
                          THEN Blocked(d.task[x]) ELSE d.task[x]
    BY SMT DEF Terminated, Settled, Typed, Database
  <1>2. \A row \in TaskRow : /\ Blocked(row).state = "blocked" /\ Blocked(row).spec = row.spec
                             /\ Blocked(row).attempts = row.attempts
    BY SMT DEF TaskRow
  <1>3. \A x \in Existing(d) : x \in Tasks /\ d.task[x] \in TaskRow
    BY ExistingRow
  <1> HIDE DEF e, Blocked
  <1>4. Existing(e) = Existing(d)
    BY <1>1 DEF Existing
  <1>5. ASSUME NEW x \in Existing(d)
        PROVE  RowMove(d.task[x], d.submissions[x], e.task[x], e.submissions[x])
    BY <1>1, <1>2, <1>3 DEF RowMove, QuietMove
  <1>6. MovesTo(d, e)
    BY <1>4, <1>5 DEF MovesTo
  <1> QED  BY <1>6 DEF e

\* A timeout is an answer.
LEMMA TimedOutMoves ==
    ASSUME NEW d, Typed(d), NEW R \in SUBSET InState(d, "leased")
    PROVE  MovesTo(d, TimedOut(d, R))
PROOF
  <1> DEFINE e == TimedOut(d, R)
             Freed(x) == [d.task[x] EXCEPT !.state = IF Final(d, x) THEN "failed" ELSE "open",
                                           !.lease = None]
             Lapse(x) == [node |-> d.task[x].lease.node, sid |-> Timeout, outcome |-> "reject",
                          attempt |-> d.task[x].attempts, earned |-> 0]
  <1>1. /\ e.tasks = d.tasks
        /\ \A x \in Tasks :
              /\ e.task[x] = IF x \in R THEN Freed(x) ELSE d.task[x]
              /\ e.submissions[x] = IF x \in R THEN Append(d.submissions[x], Lapse(x))
                                               ELSE d.submissions[x]
    BY SMT DEF TimedOut, Typed, Database
  <1>2. ASSUME NEW x \in R
        PROVE  RowMove(d.task[x], d.submissions[x], Freed(x), Append(d.submissions[x], Lapse(x)))
    <2>1. /\ d.task[x] \in TaskRow /\ d.task[x].state = "leased" /\ d.task[x].lease \in LeaseRow
          /\ d.task[x].attempts \in Nat /\ d.task[x].spec \in Specs
      BY <1>2, LeasedRow
    <2>2. /\ Freed(x).spec = d.task[x].spec /\ Freed(x).attempts = d.task[x].attempts
          /\ Freed(x).state = IF Final(d, x) THEN "failed" ELSE "open"
      BY <2>1, SMT DEF TaskRow
    <2>3. Lapse(x) \in SubmissionRow
      BY <2>1, SMT DEF LeaseRow, SubmissionRow, Outcome
    <2>4. /\ Lapse(x).attempt = d.task[x].attempts /\ Lapse(x).node = d.task[x].lease.node
          /\ Lapse(x).outcome = "reject"
      OBVIOUS
    <2> HIDE DEF Freed, Lapse
    <2>5. RecordMove(d.task[x], d.submissions[x], Freed(x), Append(d.submissions[x], Lapse(x)))
      BY <2>1, <2>2, <2>3, <2>4 DEF RecordMove, Final
    <2> QED  BY <2>2, <2>5 DEF RowMove
  <1>3. \A x \in Existing(d) : x \in Tasks
    BY ExistingRow
  <1> HIDE DEF e, Freed, Lapse
  <1>4. Existing(e) = Existing(d)
    BY <1>1 DEF Existing
  <1>5. ASSUME NEW x \in Existing(d)
        PROVE  RowMove(d.task[x], d.submissions[x], e.task[x], e.submissions[x])
    <2>1. CASE x \in R
      BY <1>1, <1>2, <1>3, <2>1
    <2>2. CASE x \notin R
      BY <1>1, <1>3, <2>2 DEF RowMove, QuietMove
    <2> QED  BY <2>1, <2>2
  <1>6. MovesTo(d, e)
    BY <1>4, <1>5 DEF MovesTo
  <1> QED  BY <1>6 DEF e

Kept(d) == Typed(d) /\ RowsOK(d)

\* What an operation keeps, one operation after the other: terminations,
LEMMA TerminatedKeeps ==
    ASSUME NEW d, Kept(d), NEW P \in SUBSET Problems, NEW status \in TerminalStatus
    PROVE  Kept(Terminated(d, P, status))
PROOF
  <1>1. Typed(Terminated(d, P, status)) /\ MovesTo(d, Terminated(d, P, status))
    BY TerminatedTyped, TerminatedMoves DEF Kept
  <1> QED  BY <1>1, MovesKeepRows DEF Kept

\* Timeouts are moves of the leased rows.
LEMMA TimedOutKeeps ==
    ASSUME NEW d, Kept(d), NEW R \in SUBSET InState(d, "leased")
    PROVE  Kept(TimedOut(d, R))
PROOF
  <1>1. Typed(TimedOut(d, R)) /\ MovesTo(d, TimedOut(d, R))
    BY TimedOutTyped, TimedOutMoves DEF Kept
  <1> QED  BY <1>1, MovesKeepRows DEF Kept

\* expiries,
LEMMA SweptKeeps ==
    ASSUME NEW d, Kept(d), NEW t, NEW e \in Swept(d, t)
    PROVE  Kept(e)
PROOF
  <1> DEFINE d1 == ProblemsExpired(d, t)
  <1>1. Kept(d1)
    BY TerminatedKeeps DEF ProblemsExpired, DueProblems, TerminalStatus
  <1> HIDE DEF d1
  <1>2. PICK R \in TimeoutChoices(d1, t) :
           e = Terminated(TimedOut(d1, R),
                          {d1.task[x].problem : x \in {y \in R : Final(d1, y)}}, "blocked")
    BY DEF Swept, LeasesExpired, d1
  <1>3. R \in SUBSET InState(d1, "leased")
    BY DEF TimeoutChoices, Overdue
  <1>4. Kept(TimedOut(d1, R))
    BY <1>1, <1>3, TimedOutKeeps
  <1>5. {d1.task[x].problem : x \in {y \in R : Final(d1, y)}} \in SUBSET Problems
    BY <1>1, <1>3, LeasedRow DEF Kept
  <1> QED  BY <1>2, <1>4, <1>5, TerminatedKeeps DEF TerminalStatus

\* leases,
LEMMA LeasedKeeps ==
    ASSUME NEW d, Kept(d), now \in Nat, NEW n \in Nodes, NEW r \in Requests,
           NEW x \in Candidates(d, n)
    PROVE  Kept(Leased(d, n, r, x))
PROOF
  <1> DEFINE e == Leased(d, n, r, x)
             lease == [node |-> n, request |-> r, until |-> now + LeaseSeconds]
             row == [d.task[x] EXCEPT !.state = "leased", !.attempts = d.task[x].attempts + 1,
                                      !.lease = lease]
             request == [task |-> x, quote |-> ProviderEarning(d.task[x].spec.reward,
                                                 d.problem[d.task[x].problem].fee)]
  <1>1. /\ d \in Database /\ x \in Existing(d) /\ x \in Tasks /\ d.task[x] \in TaskRow
        /\ d.task[x].state = "open" /\ d.task[x].attempts < d.task[x].spec.max
        /\ ~Rejected(d, n, x)
    BY ExistingRow DEF Kept, Typed, Candidates, InState
  <1>2. /\ e.tasks = d.tasks /\ e.submissions = d.submissions
        /\ e.task = [d.task EXCEPT ![x] = row]
    <2>1. e = [d EXCEPT !.task[x] = row, !.requests[n][r] = request]
      BY DEF Leased
    <2> HIDE DEF e, row, request
    <2> QED  BY <1>1, <2>1, SMT DEF Database
  <1>3. /\ row.state = "leased" /\ row.spec = d.task[x].spec /\ row.lease = lease
        /\ row.attempts = d.task[x].attempts + 1
    <2> HIDE DEF lease
    <2> QED  BY <1>1, SMT DEF TaskRow
  <1>4. lease.node = n
    OBVIOUS
  <1> HIDE DEF row, lease
  <1>5. LeaseMove(d.task[x], d.submissions[x], row, d.submissions[x])
    BY <1>1, <1>3, <1>4 DEF LeaseMove, Rejected
  <1>6. d.task \in [Tasks -> TaskRow] /\ Existing(d) \subseteq Tasks
    BY <1>1, DatabaseTables, ExistingTasks
  <1>7. MovesTo(d, e)
    <2> HIDE DEF e
    <2> QED  BY <1>1, <1>2, <1>3, <1>5, <1>6 DEF MovesTo, RowMove, QuietMove, Existing
  <1>8. Typed(e)
    BY LeasedTyped DEF Kept
  <1> QED  BY <1>7, <1>8, MovesKeepRows DEF Kept

\* The handlers that replace one existing row, leaving submissions alone.
LEMMA OneRowMoves ==
    ASSUME NEW d, Typed(d), NEW x \in Existing(d), NEW row, NEW e,
           e.tasks = d.tasks, e.submissions = d.submissions,
           e.task = [d.task EXCEPT ![x] = row],
           RowMove(d.task[x], d.submissions[x], row, d.submissions[x])
    PROVE  MovesTo(d, e)
PROOF
  <1>1. d.task \in [Tasks -> TaskRow] /\ Existing(d) \subseteq Tasks
    BY DatabaseTables, ExistingTasks DEF Typed
  <1> QED  BY <1>1 DEF MovesTo, RowMove, QuietMove, Existing

\* proposals,
LEMMA ProposedKeeps ==
    ASSUME NEW d, Kept(d), NEW n \in Nodes, NEW x \in InState(d, "leased"),
           NEW key \in Keys, NEW plan \in Plans
    PROVE  Kept(Proposed(d, n, x, key, plan))
PROOF
  <1> DEFINE e == Proposed(d, n, x, key, plan)
             attempts == IF d.task[x].attempts > 0 THEN d.task[x].attempts - 1 ELSE 0
             row == [d.task[x] EXCEPT !.state = "awaiting_delegation_approval", !.lease = None,
                                      !.attempts = attempts]
             rows == Append(d.delegations[x], [node |-> n, key |-> key, plan |-> plan,
                                               status |-> "proposed"])
  <1>1. /\ Typed(d) /\ d \in Database /\ x \in Existing(d) /\ x \in Tasks
        /\ d.task[x] \in TaskRow /\ d.task[x].state = "leased"
    BY LeasedRow DEF Kept, Typed
  <1>2. /\ e.tasks = d.tasks /\ e.submissions = d.submissions
        /\ e.task = [d.task EXCEPT ![x] = row]
    <2>1. e = [d EXCEPT !.task[x] = row, !.delegations[x] = rows]
      BY DEF Proposed
    <2> HIDE DEF e, row, rows
    <2> QED  BY <1>1, <2>1, SMT DEF Database
  <1>3. /\ row.state = "awaiting_delegation_approval" /\ row.spec = d.task[x].spec
        /\ row.attempts = attempts
    <2> HIDE DEF attempts
    <2> QED  BY <1>1, SMT DEF TaskRow
  <1>4. RowMove(d.task[x], d.submissions[x], row, d.submissions[x])
    <2> HIDE DEF row
    <2> QED  BY <1>1, <1>3 DEF RowMove, ReturnMove
  <1>5. MovesTo(d, e)
    <2> HIDE DEF e, row
    <2> QED  BY <1>1, <1>2, <1>4, OneRowMoves
  <1>6. Typed(e)
    BY ProposedTyped DEF Kept
  <1> QED  BY <1>5, <1>6, MovesKeepRows DEF Kept

\* their rejection
LEMMA RejectedKeeps ==
    ASSUME NEW d, Kept(d), NEW x \in Tasks, NEW i, Undecided(d, x, i)
    PROVE  Kept([d EXCEPT !.task[x] = [d.task[x] EXCEPT !.state = "open"],
                          !.delegations[x] = Decided(d.delegations[x], i, "rejected")])
PROOF
  <1> DEFINE row == [d.task[x] EXCEPT !.state = "open"]
             rows == Decided(d.delegations[x], i, "rejected")
             e == [d EXCEPT !.task[x] = row, !.delegations[x] = rows]
  <1>1. /\ Typed(d) /\ d \in Database /\ x \in Existing(d) /\ d.task[x] \in TaskRow
        /\ i \in DOMAIN d.delegations[x]
        /\ d.task[x].state = "awaiting_delegation_approval"
    BY UndecidedRow, ExistingRow DEF Kept, Typed, Undecided
  <1>2. /\ e.tasks = d.tasks /\ e.submissions = d.submissions
        /\ e.task = [d.task EXCEPT ![x] = row]
    <2> HIDE DEF row, rows
    <2> QED  BY <1>1, SMT DEF Database
  <1>3. /\ row.state = "open" /\ row.spec = d.task[x].spec
        /\ row.attempts = d.task[x].attempts
    BY <1>1, SMT DEF TaskRow
  <1>4. RowMove(d.task[x], d.submissions[x], row, d.submissions[x])
    <2> HIDE DEF row
    <2> QED  BY <1>1, <1>3 DEF RowMove, QuietMove
  <1>5. MovesTo(d, e)
    <2> HIDE DEF e, row
    <2> QED  BY <1>1, <1>2, <1>4, OneRowMoves
  <1>6. Typed(e)
    <2>1. "open" \in TaskState \ {"absent", "leased"} /\ "rejected" \in DelegationStatus
      BY DEF TaskState, DelegationStatus
    <2> QED  BY <1>1, <2>1, DecisionTyped
  <1> QED  BY <1>5, <1>6, MovesKeepRows DEF Kept

\* or approval,
LEMMA ApprovedKeeps ==
    ASSUME NEW d, Kept(d), now \in Nat, NEW x \in Existing(d), NEW i \in DOMAIN d.delegations[x],
           NEW selfOk \in BOOLEAN, Undecided(d, x, i),
           d.tasks + Len(d.delegations[x][i].plan) <= TaskPool
    PROVE  Kept(Approved(d, x, i, selfOk))
PROOF
  <1> DEFINE e == Approved(d, x, i, selfOk)
             plan == d.delegations[x][i].plan
             last == d.tasks + Len(plan)
             row == [d.task[x] EXCEPT !.state = "waiting_children"]
             child(c) == TaskOf(d.task[x].problem, x, d.task[x].depth + 1, plan[c - d.tasks],
                                now, d.delegations[x][i].node, selfOk)
  <1>1. /\ Typed(d) /\ d \in Database /\ d.task[x] \in TaskRow /\ d.tasks \in Nat
        /\ d.task[x].state = "awaiting_delegation_approval"
        /\ Existing(d) \subseteq Tasks
    <2>1. Typed(d) /\ d \in Database /\ d.task[x] \in TaskRow /\ Existing(d) \subseteq Tasks
      BY ExistingRow DEF Kept, Typed
    <2>2. d.tasks \in 0 .. TaskPool
      BY <2>1, DatabaseTables
    <2> QED  BY <2>1, <2>2, PoolAssumption, SMT DEF Undecided
  <1>2. Len(plan) \in Nat
    <2>1. d.delegations[x] \in Seq(DelegationRow)
      BY <1>1, DatabaseTables
    <2>2. d.delegations[x][i] \in DelegationRow
      BY <2>1, SMT
    <2>3. plan \in Plans
      BY <2>2, SMT DEF DelegationRow
    <2> QED  BY <2>3, PlansAssumption, SMT
  <1>3. /\ e.tasks = last /\ e.submissions = d.submissions
        /\ \A c \in Tasks : e.task[c] = IF c \in d.tasks + 1 .. last THEN child(c)
                                        ELSE IF c = x THEN row ELSE d.task[c]
    BY <1>1, SMT DEF Approved, Database
  <1>4. \A c : child(c).state = "open" /\ child(c).attempts = 0
    BY DEF TaskOf
  <1>5. row.state = "waiting_children" /\ row.spec = d.task[x].spec
        /\ row.attempts = d.task[x].attempts
    BY <1>1, SMT DEF TaskRow
  <1>6. Typed(e)
    BY <1>1, ApprovedTyped
  <1> HIDE DEF e, child, row, last, plan
  <1>7. Existing(d) = 1 .. d.tasks /\ Existing(e) = 1 .. last /\ Existing(e) \subseteq Tasks
    BY <1>3, <1>6, ExistingTasks DEF Existing, Typed
  <1>8. /\ \A c \in Existing(d) : c \in Existing(e) /\ c \notin d.tasks + 1 .. last
        /\ \A c \in Existing(e) \ Existing(d) : c \in d.tasks + 1 .. last
    BY <1>1, <1>2, <1>7, SMT DEF last
  <1>9. \A c \in Existing(e) \ Existing(d) : Fresh(e.task[c], e.submissions[c])
    BY <1>1, <1>3, <1>4, <1>7, <1>8 DEF Fresh, Typed, ReferencesOK
  <1>10. ASSUME NEW c \in Existing(d)
         PROVE  RowMove(d.task[c], d.submissions[c], e.task[c], e.submissions[c])
    <2>1. CASE c = x
      BY <1>1, <1>3, <1>5, <1>7, <1>8, <2>1 DEF RowMove, QuietMove
    <2>2. CASE c # x
      BY <1>3, <1>7, <1>8, <2>2 DEF RowMove, QuietMove
    <2> QED  BY <2>1, <2>2
  <1>11. MovesTo(d, e)
    BY <1>8, <1>9, <1>10 DEF MovesTo
  <1> QED  BY <1>6, <1>11, MovesKeepRows DEF Kept, e

\* the reopening of a parent,
LEMMA ParentRefreshedKeeps ==
    ASSUME NEW d, Kept(d), NEW parent, parent # None => parent \in Existing(d)
    PROVE  Kept(ParentRefreshed(d, parent))
PROOF
  <1> DEFINE row == [d.task[parent] EXCEPT !.state = "open"]
             e == [d EXCEPT !.task[parent] = row]
  <1>1. Typed(ParentRefreshed(d, parent))
    BY ParentRefreshedTyped DEF Kept
  <1>2. CASE parent # None /\ d.task[parent].state = "waiting_children"
    <2>1. Typed(d) /\ d \in Database /\ parent \in Existing(d) /\ d.task[parent] \in TaskRow
      BY <1>2, ExistingRow DEF Kept, Typed
    <2>2. /\ e.tasks = d.tasks /\ e.submissions = d.submissions
          /\ e.task = [d.task EXCEPT ![parent] = row]
      <3> HIDE DEF row
      <3> QED  BY <2>1, SMT DEF Database
    <2>3. row.state = "open" /\ row.spec = d.task[parent].spec
          /\ row.attempts = d.task[parent].attempts
      BY <2>1, SMT DEF TaskRow
    <2>4. RowMove(d.task[parent], d.submissions[parent], row, d.submissions[parent])
      <3> HIDE DEF row
      <3> QED  BY <1>2, <2>3 DEF RowMove, QuietMove
    <2>5. MovesTo(d, e)
      <3> HIDE DEF e, row
      <3> QED  BY <2>1, <2>2, <2>4, OneRowMoves
    <2>6. ParentRefreshed(d, parent) \in {d, e}
      BY DEF ParentRefreshed
    <2> HIDE DEF e
    <2> QED  BY <1>1, <2>5, <2>6, MovesKeepRows DEF Kept
  <1>3. CASE ~(parent # None /\ d.task[parent].state = "waiting_children")
    BY <1>3 DEF ParentRefreshed
  <1> QED  BY <1>2, <1>3

\* the completion of a problem,
LEMMA StatusRefreshedKeeps ==
    ASSUME NEW d, Kept(d), NEW p \in Problems
    PROVE  Kept(StatusRefreshed(d, p))
PROOF
  <1> DEFINE e == StatusRefreshed(d, p)
  <1>1. Typed(e)
    BY StatusRefreshedTyped DEF Kept
  <1>2. e.tasks = d.tasks /\ e.task = d.task /\ e.submissions = d.submissions
    BY SMT DEF Kept, Typed, StatusRefreshed, Settled, Database
  <1>3. MovesTo(d, e)
    BY <1>2, SameRows
  <1> QED  BY <1>1, <1>3, MovesKeepRows DEF Kept

\* An answer that is stored is a move of its task.
LEMMA RecordedKeeps ==
    ASSUME NEW d, Kept(d), NEW n \in Nodes, NEW r, NEW x \in Existing(d),
           LiveLease(d, n, r, x), NEW sid \in SubmissionIds, NEW outcome \in Outcome
    PROVE  Kept(Recorded(d, n, x, sid, outcome))
PROOF
  <1> DEFINE stored == Recorded(d, n, x, sid, outcome)
             p == d.task[x].problem
             passed == outcome = "pass"
             earned == IF passed
                       THEN ProviderEarning(d.task[x].spec.reward, d.problem[p].fee) ELSE 0
             new == [node |-> n, sid |-> sid, outcome |-> outcome,
                     attempt |-> d.task[x].attempts, earned |-> earned]
             state == IF passed THEN "accepted" ELSE IF Final(d, x) THEN "failed" ELSE "open"
             row == [d.task[x] EXCEPT !.lease = None, !.state = state]
  <1>1. /\ Typed(d) /\ d \in Database /\ x \in InState(d, "leased") /\ x \in Tasks
        /\ d.task[x] \in TaskRow /\ d.task[x].spec \in Specs /\ p \in Problems
        /\ d.task[x].state = "leased" /\ d.task[x].lease.node = n
        /\ d.task[x].attempts \in Nat
        /\ d.problem[p] \in ProblemRow
        /\ d.task[x].parent # None => d.task[x].parent \in Existing(d)
    BY LiveLeaseRow, LeasedRow, DatabaseTables DEF Kept, Typed, ReferencesOK, LiveLease
  <1>2. Typed(stored) /\ Existing(stored) = Existing(d)
    BY <1>1, RecordedTyped
  <1>3. /\ stored.tasks = d.tasks /\ stored.task = [d.task EXCEPT ![x] = row]
        /\ stored.submissions = [d.submissions EXCEPT ![x] = Append(d.submissions[x], new)]
    <2>1. stored = [d EXCEPT !.submissions[x] = Append(d.submissions[x], new), !.task[x] = row]
      BY DEF Recorded
    <2> HIDE DEF stored, new, row
    <2> QED  BY <1>1, <2>1, SMT DEF Database
  <1>4. new \in SubmissionRow
    <2>1. d.problem[p].fee \in BasisPoints
      BY <1>1, SMT DEF ProblemRow
    <2>2. ProviderEarning(d.task[x].spec.reward, d.problem[p].fee) \in Nat
      <3> HIDE DEF p
      <3> QED  BY <1>1, <2>1, EarningPositive
    <2>3. earned \in Nat
      BY <2>2
    <2> HIDE DEF earned
    <2> QED  BY <1>1, <2>3, SMT DEF SubmissionRow
  <1>5. new.attempt = d.task[x].attempts /\ new.node = n /\ new.outcome = outcome
    OBVIOUS
  <1>6. /\ row.state = state /\ row.spec = d.task[x].spec
        /\ row.attempts = d.task[x].attempts
    <2> HIDE DEF state
    <2> QED  BY <1>1, SMT DEF TaskRow
  <1>7. RecordMove(d.task[x], d.submissions[x], row, Append(d.submissions[x], new))
    <2>1. /\ state \in {"open", "failed", "accepted"}
          /\ state = "failed" => d.task[x].attempts >= d.task[x].spec.max
          /\ outcome = "pass" <=> state = "accepted"
      BY DEF Final
    <2> HIDE DEF row, new, state
    <2> QED  BY <1>1, <1>4, <1>5, <1>6, <2>1 DEF RecordMove
  <1>8. Kept(stored)
    <2>1. /\ d.task \in [Tasks -> TaskRow] /\ d.submissions \in [Tasks -> Seq(SubmissionRow)]
          /\ Existing(d) \subseteq Tasks
      BY <1>1, DatabaseTables, ExistingTasks
    <2>2. MovesTo(d, stored)
      <3> HIDE DEF stored, row, new
      <3> QED  BY <1>1, <1>2, <1>3, <1>6, <1>7, <2>1 DEF MovesTo, RowMove, QuietMove
    <2> QED  BY <1>2, <2>2, MovesKeepRows DEF Kept
  <1> QED  BY <1>8

\* What the rest of submit_result does keeps the rows as well.
LEMMA SubmittedKeeps ==
    ASSUME NEW d, Kept(d), NEW n \in Nodes, NEW r, NEW x \in Existing(d),
           LiveLease(d, n, r, x), NEW sid \in SubmissionIds, NEW outcome \in Outcome
    PROVE  Kept(Submitted(d, n, x, sid, outcome))
PROOF
  <1> DEFINE stored == Recorded(d, n, x, sid, outcome)
             p == d.task[x].problem
             passed == outcome = "pass"
  <1>1. /\ x \in InState(d, "leased") /\ p \in Problems
        /\ d.task[x].parent # None => d.task[x].parent \in Existing(d)
    BY LiveLeaseRow, LeasedRow DEF Kept, Typed, ReferencesOK
  <1>2. Typed(stored) /\ Existing(stored) = Existing(d)
    BY <1>1, RecordedTyped DEF Kept
  <1>8. Kept(stored)
    BY RecordedKeeps
  <1>9. Submitted(d, n, x, sid, outcome) =
           IF passed
           THEN StatusRefreshed(ParentRefreshed(Credited(stored, x, n), d.task[x].parent), p)
           ELSE IF Final(d, x) THEN Terminated(stored, {p}, "blocked") ELSE stored
    BY DEF Submitted
  <1> HIDE DEF stored, p
  <1>10. CASE passed
    <2> DEFINE e1 == Credited(stored, x, n)
               e2 == ParentRefreshed(e1, d.task[x].parent)
               e3 == StatusRefreshed(e2, p)
    <2>1. Kept(e1) /\ Existing(e1) = Existing(d)
      <3>1. /\ Typed(e1) /\ e1.task = stored.task /\ e1.tasks = stored.tasks
            /\ e1.submissions = stored.submissions
        BY <1>2, <1>8, CreditedTyped DEF Kept
      <3>2. MovesTo(stored, e1)
        BY <3>1, SameRows
      <3> QED  BY <1>2, <1>8, <3>1, <3>2, MovesKeepRows DEF Kept, Existing
    <2> HIDE DEF e1
    <2>2. Kept(e2)
      BY <1>1, <2>1, ParentRefreshedKeeps
    <2> HIDE DEF e2
    <2>3. Kept(e3)
      BY <1>1, <2>2, StatusRefreshedKeeps
    <2> QED  BY <1>9, <1>10, <2>3 DEF e1, e2
  <1>11. CASE ~passed
    BY <1>1, <1>8, <1>9, <1>11, TerminatedKeeps DEF TerminalStatus
  <1> QED  BY <1>10, <1>11

\* and new problems.
LEMMA InsertedKeeps ==
    ASSUME TypeOK, NEW d, Kept(d), NEW p \in Problems, NEW b \in ProblemRequest, Insertable(d, b)
    PROVE  Kept(Inserted(d, p, b))
PROOF
  <1> DEFINE new == d.tasks + 1
             row == TaskOf(p, None, 0, b.spec, now, None, FALSE)
             problem == [status |-> "active", funded |-> b.funded, deadline |-> b.deadline,
                         fee |-> fee]
             money == d.escrow[p] + b.funded
  <1>1. /\ Typed(d) /\ Typed(Inserted(d, p, b)) /\ d \in Database /\ d.tasks \in Nat
        /\ Existing(d) \subseteq Tasks
    <2>1. Typed(d) /\ d \in Database
      BY DEF Kept, Typed
    <2>2. d.tasks \in 0 .. TaskPool /\ Existing(d) \subseteq Tasks
      BY <2>1, DatabaseTables, ExistingTasks
    <2> QED  BY <2>1, <2>2, InsertedTyped, PoolAssumption, SMT
  <1>2. /\ Inserted(d, p, b).tasks = new /\ Inserted(d, p, b).task = [d.task EXCEPT ![new] = row]
        /\ Inserted(d, p, b).submissions = d.submissions
    <2>1. Inserted(d, p, b) = [d EXCEPT !.problem[p] = problem, !.tasks = d.tasks + 1,
                           !.task[d.tasks + 1] = row, !.escrow[p] = money]
      BY DEF Inserted
    <2> HIDE DEF problem, row, money
    <2> QED  BY <1>1, <2>1, SMT DEF Database
  <1>3. Existing(d) = 1 .. d.tasks /\ Existing(Inserted(d, p, b)) = 1 .. new
    BY <1>2 DEF Existing
  <1>4. /\ Existing(d) \subseteq Existing(Inserted(d, p, b)) /\ new \notin Existing(d)
        /\ \A x \in Existing(Inserted(d, p, b)) \ Existing(d) : x = new
    BY <1>1, <1>3, SMT
  <1>5. row.state = "open" /\ row.attempts = 0
    BY DEF TaskOf
  <1>6. new \in Tasks /\ d.task \in [Tasks -> TaskRow]
    <2>1. d.tasks < TaskPool
      BY DEF Insertable
    <2>2. new \in Tasks
      BY <1>1, <2>1, PoolAssumption, SMT DEF Tasks
    <2> QED  BY <1>1, <2>2, DatabaseTables
  <1>7. d.submissions[new] = << >>
    BY <1>1, <1>4, <1>6 DEF Typed, ReferencesOK
  <1> HIDE DEF row, new
  <1>8. MovesTo(d, Inserted(d, p, b))
    BY <1>1, <1>2, <1>4, <1>5, <1>6, <1>7 DEF MovesTo, RowMove, QuietMove, Fresh
  <1> QED  BY <1>1, <1>8, MovesKeepRows DEF Kept

-----------------------------------------------------------------------------
(* Every action *)

\* So every step keeps it,
LEMMA KeptStep ==
    ASSUME TypeOK, Kept(db), [Next]_vars
    PROVE  Kept(db')
PROOF
  <1>1. Typed(db) /\ now \in Nat
    BY TimeAssumption, SMT DEF TypeOK, Typed
  <1>2. \A e \in Swept(db, now) : Kept(e)
    BY SweptKeeps
  <1>3. \A n \in Nodes, r \in Requests :
           db.requests[n][r] # None => db.requests[n][r].task \in Existing(db)
    BY <1>1 DEF Typed, ReferencesOK
  <1>4. ASSUME NEW n \in Nodes, NEW c \in Caps, PublishOffering(n, c) \/ ApproveOffering(n, c)
        PROVE  Kept(db')
    <2>1. PICK status \in {"none", "pending", "active"} :
             db' = [db EXCEPT !.offering[n][c] = status]
      BY <1>4 DEF PublishOffering, ApproveOffering
    <2>2. Typed(db')
      BY <1>1, <2>1, OfferingTyped
    <2>3. db'.tasks = db.tasks /\ db'.task = db.task /\ db'.submissions = db.submissions
      BY <1>1, <2>1, SMT DEF Typed, Database
    <2>4. MovesTo(db, db')
      BY <2>3, SameRows
    <2> QED  BY <1>1, <2>2, <2>4, MovesKeepRows DEF Kept
  <1>5. ASSUME NEW p \in Problems, NEW b \in Bodies, CreateProblem(p, b)
        PROVE  Kept(db')
    BY <1>5, InsertedKeeps, BodiesAssumption DEF CreateProblem
  <1>6. ASSUME NEW p \in Problems, CancelProblem(p)
        PROVE  Kept(db')
    BY <1>6, TerminatedKeeps DEF CancelProblem, TerminalStatus
  <1>7. ASSUME Reap
        PROVE  Kept(db')
    BY <1>2, <1>7 DEF Reap
  <1>8. ASSUME ExpireDueProblems
        PROVE  Kept(db')
    BY <1>8, TerminatedKeeps
       DEF ExpireDueProblems, ProblemsExpired, DueProblems, TerminalStatus
  <1>9. ASSUME NEW n \in Nodes, NEW r \in Requests, LeaseWork(n, r)
        PROVE  Kept(db')
    <2>1. PICK d \in Swept(db, now) :
             db' = d \/ \E x \in Candidates(d, n) : db' = Leased(d, n, r, x)
      BY <1>9 DEF LeaseWork, Oldest
    <2> QED  BY <1>1, <1>2, <2>1, LeasedKeeps
  <1>10. ASSUME NEW n \in Nodes, NEW r \in Requests, NEW key \in Keys, NEW plan \in Plans,
                DelegateChildren(n, r, key, plan)
         PROVE  Kept(db')
    <2> DEFINE x == db.requests[n][r].task
    <2>1. PICK d \in Swept(db, now) :
             db' = d \/ (LiveLease(d, n, r, x) /\ db' = Proposed(d, n, x, key, plan))
      BY <1>10 DEF DelegateChildren
    <2>2. x \in Existing(d) /\ Kept(d) /\ Typed(d)
      BY <1>1, <1>2, <1>3, <1>10, <2>1, SweptExisting DEF DelegateChildren, Kept
    <2> QED  BY <2>1, <2>2, LiveLeaseRow, ProposedKeeps
  <1>11. ASSUME NEW x \in Tasks, NEW i \in 1 .. MaxProposals, RejectDelegation(x, i)
         PROVE  Kept(db')
    <2>1. PICK d \in Swept(db, now) :
             \/ db' = d
             \/ /\ Undecided(d, x, i)
                /\ db' = [d EXCEPT !.task[x] = [d.task[x] EXCEPT !.state = "open"],
                                   !.delegations[x] = Decided(d.delegations[x], i, "rejected")]
      BY <1>11 DEF RejectDelegation
    <2>2. CASE Undecided(d, x, i)
      <3>1. Kept([d EXCEPT !.task[x] = [d.task[x] EXCEPT !.state = "open"],
                           !.delegations[x] = Decided(d.delegations[x], i, "rejected")])
        BY <1>2, <2>2, RejectedKeeps
      <3> QED  BY <1>2, <2>1, <3>1
    <2>3. CASE ~Undecided(d, x, i)
      BY <1>2, <2>1, <2>3
    <2> QED  BY <2>2, <2>3
  <1>12. ASSUME NEW x \in Tasks, NEW i \in 1 .. MaxProposals, NEW selfOk \in BOOLEAN,
                ApproveDelegation(x, i, selfOk)
         PROVE  Kept(db')
    <2>1. PICK d \in Swept(db, now) :
             \/ db' = d
             \/ /\ Undecided(d, x, i)
                /\ d.tasks + Len(d.delegations[x][i].plan) <= TaskPool
                /\ db' = Approved(d, x, i, selfOk)
      BY <1>12 DEF ApproveDelegation
    <2>2. Kept(d) /\ Typed(d)
      BY <1>2, <2>1 DEF Kept
    <2>3. CASE Undecided(d, x, i) /\ d.tasks + Len(d.delegations[x][i].plan) <= TaskPool
      <3>1. x \in Existing(d) /\ i \in DOMAIN d.delegations[x]
        BY <2>2, <2>3, UndecidedRow
      <3> QED  BY <1>1, <2>1, <2>2, <2>3, <3>1, ApprovedKeeps
    <2> QED  BY <2>1, <2>2, <2>3
  <1>13. ASSUME NEW n \in Nodes, NEW r \in Requests, NEW sid \in SubmissionIds,
                NEW outcome \in Outcome, SubmitResult(n, r, sid, outcome)
         PROVE  Kept(db')
    <2> DEFINE x == db.requests[n][r].task
    <2>1. PICK d \in Swept(db, now) :
             db' = d \/ (LiveLease(d, n, r, x) /\ db' = Submitted(d, n, x, sid, outcome))
      BY <1>13 DEF SubmitResult
    <2>2. x \in Existing(d) /\ Kept(d)
      BY <1>1, <1>2, <1>3, <1>13, <2>1, SweptExisting DEF SubmitResult
    <2> QED  BY <2>1, <2>2, SubmittedKeeps
  <1>14. ASSUME UNCHANGED db
         PROVE  Kept(db')
    BY <1>14
  <1>15. CASE Next
    BY <1>4, <1>5, <1>6, <1>7, <1>8, <1>9, <1>10, <1>11, <1>12, <1>13, <1>14, <1>15
       DEF Next, Restart, Tick
  <1> QED  BY <1>14, <1>15 DEF vars

\* a new database has it,
LEMMA KeptInit == Init => Kept(db)
PROOF
  <1> SUFFICES ASSUME Init PROVE Kept(db)
    OBVIOUS
  <1>1. Typed(db)
    BY TypeInit DEF TypeOK, Typed
  <1>2. Existing(db) = {}
    BY SMT DEF Init, EmptyDatabase, Existing
  <1> QED  BY <1>1, <1>2 DEF Kept, RowsOK

\* and every reachable one.
LEMMA KeptAlways == Spec => []Kept(db)
PROOF
  <1>1. TypeOK /\ Kept(db) /\ [Next]_vars => Kept(db)'
    BY KeptStep
  <1> QED  BY <1>1, KeptInit, TypeCorrect, PTL DEF Spec

-----------------------------------------------------------------------------
(* The theorems *)

\* In every reachable state, for any number of nodes and tasks, any plans, any
\* attempt limits and any order of leases, timeouts, delegations, answers and
\* terminations: a task's attempt_count is its recorded submissions plus the
\* lease now out, and never passes max_attempts.
THEOREM AttemptLedgerHolds == Spec => []AttemptLedger
PROOF
  <1>1. Kept(db) => AttemptLedger
    BY DEF Kept, RowsOK, RowOK, AttemptLedger, AttemptLedgerOf
  <1> QED  BY <1>1, KeptAlways, PTL

\* In every reachable state a node has at most one submission or timeout on each
\* task, no node holds a lease of a task it already answered, and a task with a
\* passed result is accepted.
THEOREM OneSubmissionPerNodeHolds == Spec => []OneSubmissionPerNode
PROOF
  <1>1. Kept(db) => OneSubmissionPerNode
    BY DEF Kept, RowsOK, RowOK, OneSubmissionPerNode, OneSubmissionPerNodeOf
  <1> QED  BY <1>1, KeptAlways, PTL

-----------------------------------------------------------------------------
(***************************************************************************)
(* 3. The tree of tasks                                                    *)
(***************************************************************************)

-----------------------------------------------------------------------------
(* What the operations change *)

\* The columns of a task's row that no operation changes.
SameTask(old, new) ==
    /\ new.problem = old.problem /\ new.parent = old.parent /\ new.depth = old.depth
    /\ new.spec = old.spec /\ new.by = old.by /\ new.selfOk = old.selfOk

SameMoney(d, e) ==
    /\ e.escrow = d.escrow /\ e.refund = d.refund /\ e.refunds = d.refunds
    /\ e.payable = d.payable /\ e.revenue = d.revenue /\ e.credits = d.credits

Doomed(d, P, x) == d.task[x].problem \in P /\ d.task[x].state \notin {"accepted", "failed"}

\* The problems P end: their rows, tasks, proposals and what escrow holds.
Ends(d, e, P, status) ==
    /\ e.tasks = d.tasks /\ e.offering = d.offering /\ e.requests = d.requests
    /\ e.submissions = d.submissions
    /\ e.payable = d.payable /\ e.revenue = d.revenue /\ e.credits = d.credits
    /\ \A p \in Problems :
          /\ e.problem[p] = IF p \in P /\ d.problem[p].status = "active"
                            THEN [d.problem[p] EXCEPT !.status = status] ELSE d.problem[p]
          /\ IF p \in P /\ d.escrow[p] > 0
             THEN /\ e.escrow[p] = 0 /\ e.refund[p] = d.refund[p] + d.escrow[p]
                  /\ e.refunds[p] = d.refunds[p] + 1
             ELSE /\ e.escrow[p] = d.escrow[p] /\ e.refund[p] = d.refund[p]
                  /\ e.refunds[p] = d.refunds[p]
    /\ \A x \in Existing(d) :
          /\ IF Doomed(d, P, x)
             THEN /\ SameTask(d.task[x], e.task[x])
                  /\ e.task[x].state = "blocked" /\ e.task[x].lease = None
                  /\ d.task[x].state = "blocked" => e.task[x] = d.task[x]
             ELSE e.task[x] = d.task[x]
          /\ e.delegations[x] = IF d.task[x].problem \in P THEN Voided(d.delegations[x])
                                ELSE d.delegations[x]

\* The leases of the tasks R end with a rejected submission each.
Frees(d, e, R) ==
    /\ e.tasks = d.tasks /\ e.offering = d.offering /\ e.requests = d.requests
    /\ e.problem = d.problem /\ e.delegations = d.delegations /\ SameMoney(d, e)
    /\ \A x \in Existing(d) \ R :
          e.task[x] = d.task[x] /\ e.submissions[x] = d.submissions[x]
    /\ \A x \in R :
          /\ SameTask(d.task[x], e.task[x])
          /\ e.task[x].state \in {"open", "failed"} /\ e.task[x].lease = None
          /\ \E row \in SubmissionRow : /\ row.node = d.task[x].lease.node
                                        /\ row.outcome = "reject"
                                        /\ e.submissions[x] = Append(d.submissions[x], row)

\* Node n gets a lease of task x under request r.
Gives(d, e, n, r, x) ==
    /\ e.tasks = d.tasks /\ e.offering = d.offering
    /\ e.problem = d.problem /\ e.delegations = d.delegations
    /\ e.submissions = d.submissions /\ SameMoney(d, e)
    /\ \A y \in Existing(d) \ {x} : e.task[y] = d.task[y]
    /\ SameTask(d.task[x], e.task[x]) /\ e.task[x].state = "leased"
    /\ e.task[x].lease = [node |-> n, request |-> r, until |-> now + LeaseSeconds]
    /\ \A m \in Nodes, k \in Requests :
          e.requests[m][k] = IF m = n /\ k = r
                             THEN [task |-> x, quote |-> ProviderEarning(d.task[x].spec.reward,
                                                     d.problem[d.task[x].problem].fee)]
                             ELSE d.requests[m][k]

\* The state of task x becomes s and its proposals become rows, without a lease.
Turns(d, e, x, s, rows) ==
    /\ e.tasks = d.tasks /\ e.offering = d.offering /\ e.requests = d.requests
    /\ e.problem = d.problem /\ e.submissions = d.submissions /\ SameMoney(d, e)
    /\ \A y \in Existing(d) \ {x} :
          e.task[y] = d.task[y] /\ e.delegations[y] = d.delegations[y]
    /\ SameTask(d.task[x], e.task[x]) /\ e.task[x].state = s /\ e.task[x].lease = None
    /\ e.delegations[x] = rows

\* Of the other tasks, those of problem p (the children of y) are all accepted.
OthersAccepted(d, x, p) ==
    \A c \in Existing(d) \ {x} : d.task[c].problem = p => d.task[c].state = "accepted"
SiblingsAccepted(d, x, y) ==
    \A c \in Existing(d) \ {x} : d.task[c].parent = y => d.task[c].state = "accepted"

Reopened(d, x, y) ==
    /\ y = d.task[x].parent /\ d.task[y].state = "waiting_children"
    /\ SiblingsAccepted(d, x, y)

\* Task x passes by node n: it is paid, its parent may be reopened and its
\* problem completed.
Passes(d, e, n, x) ==
    LET p == d.task[x].problem
        spec == d.task[x].spec
        cut == PlatformFee(spec.reward, d.problem[p].fee)
        left == d.escrow[p] - spec.reward
        done == OthersAccepted(d, x, p)
    IN  /\ e.tasks = d.tasks /\ e.offering = d.offering /\ e.requests = d.requests
        /\ e.delegations = d.delegations
        /\ SameTask(d.task[x], e.task[x])
        /\ e.task[x].state = "accepted" /\ e.task[x].lease = None
        /\ \E row \in SubmissionRow :
              /\ row.node = n /\ row.outcome = "pass"
              /\ row.earned = spec.reward - cut
              /\ e.submissions[x] = Append(d.submissions[x], row)
        /\ \A c \in Existing(d) \ {x} :
              /\ e.submissions[c] = d.submissions[c]
              /\ IF Reopened(d, x, c)
                 THEN /\ SameTask(d.task[c], e.task[c]) /\ e.task[c].state = "open"
                      /\ e.task[c].lease = d.task[c].lease
                 ELSE e.task[c] = d.task[c]
        /\ \A q \in Problems \ {p} :
              /\ e.problem[q] = d.problem[q] /\ e.escrow[q] = d.escrow[q]
              /\ e.refund[q] = d.refund[q] /\ e.refunds[q] = d.refunds[q]
        /\ e.problem[p] = IF done THEN [d.problem[p] EXCEPT !.status = "completed"]
                          ELSE d.problem[p]
        /\ IF done /\ left > 0
           THEN /\ e.escrow[p] = 0 /\ e.refund[p] = d.refund[p] + left
                /\ e.refunds[p] = d.refunds[p] + 1
           ELSE /\ e.escrow[p] = left /\ e.refund[p] = d.refund[p]
                /\ e.refunds[p] = d.refunds[p]
        /\ e.payable = [d.payable EXCEPT ![n] = d.payable[n] + (spec.reward - cut)]
        /\ e.revenue = d.revenue + cut
        /\ e.credits = [d.credits EXCEPT ![x] = d.credits[x] + 1]

\* The children of x that the approved plan asks for are inserted.
Approves(d, e, x, plan, by, selfOk, rows) ==
    /\ e.tasks = d.tasks + Len(plan)
    /\ e.offering = d.offering /\ e.requests = d.requests
    /\ e.problem = d.problem /\ e.submissions = d.submissions /\ SameMoney(d, e)
    /\ \A y \in Existing(d) \ {x} :
          e.task[y] = d.task[y] /\ e.delegations[y] = d.delegations[y]
    /\ SameTask(d.task[x], e.task[x])
    /\ e.task[x].state = "waiting_children" /\ e.task[x].lease = None
    /\ e.delegations[x] = rows
    /\ \A c \in Existing(e) \ Existing(d) :
          /\ e.task[c] = TaskOf(d.task[x].problem, x, d.task[x].depth + 1,
                                plan[c - d.tasks], now, by, selfOk)
          /\ e.delegations[c] = << >>

\* Problem p and its root are inserted, and its funding goes into escrow.
Inserts(d, e, p, b) ==
    /\ e.tasks = d.tasks + 1
    /\ e.offering = d.offering /\ e.requests = d.requests
    /\ e.submissions = d.submissions
    /\ e.refund = d.refund /\ e.refunds = d.refunds
    /\ e.payable = d.payable /\ e.revenue = d.revenue /\ e.credits = d.credits
    /\ \A x \in Existing(d) : e.task[x] = d.task[x] /\ e.delegations[x] = d.delegations[x]
    /\ e.task[d.tasks + 1] = TaskOf(p, None, 0, b.spec, now, None, FALSE)
    /\ e.delegations[d.tasks + 1] = << >>
    /\ \A q \in Problems \ {p} : e.problem[q] = d.problem[q] /\ e.escrow[q] = d.escrow[q]
    /\ e.problem[p] = [status |-> "active", funded |-> b.funded, deadline |-> b.deadline,
                       fee |-> fee]
    /\ e.escrow[p] = d.escrow[p] + b.funded

\* What blocking a row leaves of it.
LEMMA BlockedRow ==
    ASSUME NEW row \in TaskRow
    PROVE  LET new == [row EXCEPT !.state = "blocked", !.lease = None] IN
           /\ SameTask(row, new) /\ new.state = "blocked" /\ new.lease = None
           /\ row.state = "blocked" /\ row.lease = None => new = row
PROOF
  <1> DEFINE new == [row EXCEPT !.state = "blocked", !.lease = None]
  <1>1. SameTask(row, new) /\ new.state = "blocked" /\ new.lease = None
    BY SMT DEF TaskRow, SameTask
  <1>2. ASSUME row.state = "blocked", row.lease = None
        PROVE  new = row
    <2>1. [row EXCEPT !.state = "blocked"] = row /\ [row EXCEPT !.lease = None] = row
      BY <1>2, Zenon DEF TaskRow
    <2>2. new = [[row EXCEPT !.state = "blocked"] EXCEPT !.lease = None]
      BY SMT DEF TaskRow
    <2> QED  BY <2>1, <2>2
  <1> QED  BY <1>1, <1>2

\* Termination ends its problems, and touches nothing else.
LEMMA TerminatedEnds ==
    ASSUME NEW d, Typed(d), NEW P \in SUBSET Problems, NEW status
    PROVE  Ends(d, Terminated(d, P, status), P, status)
PROOF
  <1> DEFINE e == Terminated(d, P, status)
             Blocked(row) == [row EXCEPT !.state = "blocked", !.lease = None]
  <1>1. d \in Database /\ ReferencesOK(d)
    BY DEF Typed
  <1>2. /\ e.tasks = d.tasks /\ e.offering = d.offering /\ e.requests = d.requests
        /\ e.submissions = d.submissions
        /\ e.payable = d.payable /\ e.revenue = d.revenue /\ e.credits = d.credits
    BY <1>1, SMT DEF Terminated, Settled, Database
  <1>3. \A p \in Problems :
           e.problem[p] = IF p \in P /\ d.problem[p].status = "active"
                          THEN [d.problem[p] EXCEPT !.status = status] ELSE d.problem[p]
    BY <1>1, SMT DEF Terminated, Settled, Database
  <1>4. \A p \in Problems :
           IF p \in P /\ d.escrow[p] > 0
           THEN /\ e.escrow[p] = 0 /\ e.refund[p] = d.refund[p] + d.escrow[p]
                /\ e.refunds[p] = d.refunds[p] + 1
           ELSE /\ e.escrow[p] = d.escrow[p] /\ e.refund[p] = d.refund[p]
                /\ e.refunds[p] = d.refunds[p]
    BY <1>1, SMT DEF Terminated, Settled, Database
  <1>5. \A x \in Tasks :
           /\ e.task[x] = IF x \in Existing(d) /\ Doomed(d, P, x)
                          THEN Blocked(d.task[x]) ELSE d.task[x]
           /\ e.delegations[x] = IF x \in Existing(d) /\ d.task[x].problem \in P
                                 THEN Voided(d.delegations[x]) ELSE d.delegations[x]
    BY <1>1, SMT DEF Terminated, Settled, Database, Doomed
  <1>6. \A x \in Existing(d) :
           /\ x \in Tasks /\ d.task[x] \in TaskRow
           /\ d.task[x].state = "blocked" => d.task[x].lease = None
    BY <1>1, ExistingRow DEF ReferencesOK
  <1> HIDE DEF e
  <1>7. ASSUME NEW x \in Existing(d)
        PROVE  IF Doomed(d, P, x)
               THEN /\ SameTask(d.task[x], e.task[x])
                    /\ e.task[x].state = "blocked" /\ e.task[x].lease = None
                    /\ d.task[x].state = "blocked" => e.task[x] = d.task[x]
               ELSE e.task[x] = d.task[x]
    <2>1. /\ SameTask(d.task[x], Blocked(d.task[x]))
          /\ Blocked(d.task[x]).state = "blocked" /\ Blocked(d.task[x]).lease = None
          /\ d.task[x].state = "blocked" => Blocked(d.task[x]) = d.task[x]
      BY <1>6, BlockedRow
    <2> HIDE DEF Blocked
    <2> QED  BY <1>5, <1>6, <2>1
  <1>8. \A x \in Existing(d) :
           e.delegations[x] = IF d.task[x].problem \in P THEN Voided(d.delegations[x])
                              ELSE d.delegations[x]
    BY <1>5, <1>6
  <1>9. Ends(d, e, P, status)
    BY <1>2, <1>3, <1>4, <1>7, <1>8 DEF Ends
  <1> QED  BY <1>9 DEF e

\* Recording timeouts frees the tasks whose leases ran out.
LEMMA TimedOutFrees ==
    ASSUME NEW d, Typed(d), NEW R \in SUBSET InState(d, "leased")
    PROVE  Frees(d, TimedOut(d, R), R)
PROOF
  <1> DEFINE e == TimedOut(d, R)
             Freed(x) == [d.task[x] EXCEPT !.state = IF Final(d, x) THEN "failed" ELSE "open",
                                           !.lease = None]
             Lapse(x) == [node |-> d.task[x].lease.node, sid |-> Timeout, outcome |-> "reject",
                          attempt |-> d.task[x].attempts, earned |-> 0]
  <1>1. /\ e.tasks = d.tasks /\ e.offering = d.offering /\ e.requests = d.requests
        /\ e.problem = d.problem /\ e.delegations = d.delegations
    BY SMT DEF TimedOut, Typed, Database
  <1>2. SameMoney(d, e)
    BY SMT DEF TimedOut, Typed, Database, SameMoney
  <1>3. \A x \in Tasks :
              /\ e.task[x] = IF x \in R THEN Freed(x) ELSE d.task[x]
              /\ e.submissions[x] = IF x \in R THEN Append(d.submissions[x], Lapse(x))
                                               ELSE d.submissions[x]
    BY SMT DEF TimedOut, Typed, Database
  <1>4. ASSUME NEW x \in R
        PROVE  /\ x \in Tasks
               /\ SameTask(d.task[x], Freed(x))
               /\ Freed(x).state \in {"open", "failed"} /\ Freed(x).lease = None
               /\ Lapse(x) \in SubmissionRow /\ Lapse(x).outcome = "reject"
               /\ Lapse(x).node = d.task[x].lease.node
    <2>1. /\ d.task[x] \in TaskRow /\ d.task[x].lease \in LeaseRow
          /\ d.task[x].attempts \in Nat /\ x \in Tasks
      BY <1>4, LeasedRow
    <2>2. /\ SameTask(d.task[x], Freed(x))
          /\ Freed(x).state \in {"open", "failed"} /\ Freed(x).lease = None
      BY <2>1, SMT DEF TaskRow, SameTask
    <2>3. Lapse(x) \in SubmissionRow
      BY <2>1, SMT DEF LeaseRow, SubmissionRow, Outcome
    <2> QED  BY <2>1, <2>2, <2>3
  <1>5. \A x \in Existing(d) : x \in Tasks
    BY ExistingRow
  <1> HIDE DEF e, Freed, Lapse
  <1>6. Frees(d, e, R)
    BY <1>1, <1>2, <1>3, <1>4, <1>5 DEF Frees
  <1> QED  BY <1>6 DEF e

\* lease_work gives the task to the node.
LEMMA LeasedGives ==
    ASSUME NEW d, Typed(d), NEW n \in Nodes, NEW r \in Requests, NEW x \in Existing(d)
    PROVE  Gives(d, Leased(d, n, r, x), n, r, x)
PROOF
  <1> DEFINE e == Leased(d, n, r, x)
             lease == [node |-> n, request |-> r, until |-> now + LeaseSeconds]
             row == [d.task[x] EXCEPT !.state = "leased", !.attempts = d.task[x].attempts + 1,
                                      !.lease = lease]
             request == [task |-> x, quote |-> ProviderEarning(d.task[x].spec.reward,
                                                 d.problem[d.task[x].problem].fee)]
  <1>1. d \in Database /\ x \in Tasks /\ d.task[x] \in TaskRow /\ Existing(d) \subseteq Tasks
    BY ExistingRow DEF Typed
  <1>2. e = [d EXCEPT !.task[x] = row, !.requests[n][r] = request]
    BY DEF Leased
  <1>3. SameTask(d.task[x], row) /\ row.state = "leased" /\ row.lease = lease
    <2> HIDE DEF lease
    <2> QED  BY <1>1, SMT DEF TaskRow, SameTask
  <1> HIDE DEF e, row, request
  <1>4. /\ e.tasks = d.tasks /\ e.offering = d.offering
        /\ e.problem = d.problem /\ e.delegations = d.delegations
        /\ e.submissions = d.submissions /\ e.task = [d.task EXCEPT ![x] = row]
    BY <1>1, <1>2, SMT DEF Database
  <1>5. SameMoney(d, e)
    BY <1>1, <1>2, SMT DEF Database, SameMoney
  <1>6. \A m \in Nodes, k \in Requests :
          e.requests[m][k] = IF m = n /\ k = r THEN request ELSE d.requests[m][k]
    <2>1. e.requests = [d.requests EXCEPT ![n][r] = request]
      BY <1>1, <1>2, SMT DEF Database
    <2>2. d.requests \in [Nodes -> [Requests -> RequestRow \cup {None}]]
      BY <1>1, DatabaseTables
    <2> QED  BY <2>1, <2>2, SMT
  <1>7. d.task \in [Tasks -> TaskRow]
    BY <1>1, DatabaseTables
  <1>8. Gives(d, e, n, r, x)
    BY <1>1, <1>3, <1>4, <1>5, <1>6, <1>7 DEF Gives, request
  <1> QED  BY <1>8 DEF e

\* A proposal makes the task await the decision.
LEMMA ProposedTurns ==
    ASSUME NEW d, Typed(d), NEW n, NEW x \in Existing(d), NEW key, NEW plan
    PROVE  Turns(d, Proposed(d, n, x, key, plan), x, "awaiting_delegation_approval",
                 Append(d.delegations[x], [node |-> n, key |-> key, plan |-> plan,
                                           status |-> "proposed"]))
PROOF
  <1> DEFINE e == Proposed(d, n, x, key, plan)
             attempts == IF d.task[x].attempts > 0 THEN d.task[x].attempts - 1 ELSE 0
             row == [d.task[x] EXCEPT !.state = "awaiting_delegation_approval", !.lease = None,
                                      !.attempts = attempts]
             rows == Append(d.delegations[x], [node |-> n, key |-> key, plan |-> plan,
                                               status |-> "proposed"])
  <1>1. d \in Database /\ x \in Tasks /\ d.task[x] \in TaskRow /\ Existing(d) \subseteq Tasks
    BY ExistingRow DEF Typed
  <1>2. e = [d EXCEPT !.task[x] = row, !.delegations[x] = rows]
    BY DEF Proposed
  <1>3. /\ SameTask(d.task[x], row)
        /\ row.state = "awaiting_delegation_approval" /\ row.lease = None
    <2> HIDE DEF attempts
    <2> QED  BY <1>1, SMT DEF TaskRow, SameTask
  <1> HIDE DEF e, row, rows
  <1>4. /\ e.tasks = d.tasks /\ e.offering = d.offering /\ e.requests = d.requests
        /\ e.problem = d.problem /\ e.submissions = d.submissions
        /\ e.task = [d.task EXCEPT ![x] = row]
        /\ e.delegations = [d.delegations EXCEPT ![x] = rows]
    BY <1>1, <1>2, SMT DEF Database
  <1>5. SameMoney(d, e)
    BY <1>1, <1>2, SMT DEF Database, SameMoney
  <1>6. d.task \in [Tasks -> TaskRow] /\ d.delegations \in [Tasks -> Seq(DelegationRow)]
    BY <1>1, DatabaseTables
  <1>7. Turns(d, e, x, "awaiting_delegation_approval", rows)
    BY <1>1, <1>3, <1>4, <1>5, <1>6 DEF Turns
  <1> QED  BY <1>7 DEF e, rows

\* A rejected proposal makes its task open again.
LEMMA RejectedTurns ==
    ASSUME NEW d, Typed(d), NEW x \in Existing(d), d.task[x].lease = None, NEW rows
    PROVE  Turns(d, [d EXCEPT !.task[x] = [d.task[x] EXCEPT !.state = "open"],
                              !.delegations[x] = rows], x, "open", rows)
PROOF
  <1> DEFINE row == [d.task[x] EXCEPT !.state = "open"]
             e == [d EXCEPT !.task[x] = row, !.delegations[x] = rows]
  <1>1. d \in Database /\ x \in Tasks /\ d.task[x] \in TaskRow /\ Existing(d) \subseteq Tasks
    BY ExistingRow DEF Typed
  <1>3. SameTask(d.task[x], row) /\ row.state = "open" /\ row.lease = None
    BY <1>1, SMT DEF TaskRow, SameTask
  <1> HIDE DEF row
  <1>4. /\ e.tasks = d.tasks /\ e.offering = d.offering /\ e.requests = d.requests
        /\ e.problem = d.problem /\ e.submissions = d.submissions
        /\ e.task = [d.task EXCEPT ![x] = row]
        /\ e.delegations = [d.delegations EXCEPT ![x] = rows]
    BY <1>1, SMT DEF Database
  <1>5. SameMoney(d, e)
    BY <1>1, SMT DEF Database, SameMoney
  <1>6. d.task \in [Tasks -> TaskRow] /\ d.delegations \in [Tasks -> Seq(DelegationRow)]
    BY <1>1, DatabaseTables
  <1> HIDE DEF e
  <1>7. Turns(d, e, x, "open", rows)
    BY <1>1, <1>3, <1>4, <1>5, <1>6 DEF Turns
  <1> QED  BY <1>7 DEF e, row

\* A rejected answer frees its task, as a timeout does.
LEMMA RecordedFrees ==
    ASSUME NEW d, Typed(d), NEW n \in Nodes, NEW x \in InState(d, "leased"),
           NEW sid \in SubmissionIds, d.task[x].lease.node = n
    PROVE  Frees(d, Recorded(d, n, x, sid, "reject"), {x})
PROOF
  <1> DEFINE e == Recorded(d, n, x, sid, "reject")
             new == [node |-> n, sid |-> sid, outcome |-> "reject",
                     attempt |-> d.task[x].attempts, earned |-> 0]
             state == IF Final(d, x) THEN "failed" ELSE "open"
             row == [d.task[x] EXCEPT !.lease = None, !.state = state]
  <1>1. /\ d \in Database /\ x \in Tasks /\ d.task[x] \in TaskRow /\ Existing(d) \subseteq Tasks
        /\ d.task[x].attempts \in Nat
    BY LeasedRow, ExistingTasks DEF Typed
  <1>2. e = [d EXCEPT !.submissions[x] = Append(d.submissions[x], new), !.task[x] = row]
    BY DEF Recorded
  <1>3. /\ SameTask(d.task[x], row) /\ row.lease = None /\ row.state = state
        /\ state \in {"open", "failed"}
    <2>1. state \in {"open", "failed"}
      OBVIOUS
    <2> HIDE DEF state
    <2> QED  BY <1>1, <2>1, SMT DEF TaskRow, SameTask
  <1>4. new \in SubmissionRow /\ new.outcome = "reject" /\ new.node = n
    BY <1>1, SMT DEF SubmissionRow, Outcome
  <1> HIDE DEF e, row, new, state
  <1>5. /\ e.tasks = d.tasks /\ e.offering = d.offering /\ e.requests = d.requests
        /\ e.problem = d.problem /\ e.delegations = d.delegations
        /\ e.task = [d.task EXCEPT ![x] = row]
        /\ e.submissions = [d.submissions EXCEPT ![x] = Append(d.submissions[x], new)]
    BY <1>1, <1>2, SMT DEF Database
  <1>6. SameMoney(d, e)
    BY <1>1, <1>2, SMT DEF Database, SameMoney
  <1>7. /\ d.task \in [Tasks -> TaskRow] /\ d.submissions \in [Tasks -> Seq(SubmissionRow)]
    BY <1>1, DatabaseTables
  <1>8. Frees(d, e, {x})
    BY <1>1, <1>3, <1>4, <1>5, <1>6, <1>7 DEF Frees
  <1> QED  BY <1>8 DEF e

\* An approved proposal has its children inserted.
LEMMA ApprovedApproves ==
    ASSUME NEW d, Typed(d), NEW x \in Existing(d), NEW i \in DOMAIN d.delegations[x],
           d.task[x].lease = None, NEW selfOk,
           d.tasks + Len(d.delegations[x][i].plan) <= TaskPool
    PROVE  Approves(d, Approved(d, x, i, selfOk), x, d.delegations[x][i].plan,
                    d.delegations[x][i].node, selfOk, Decided(d.delegations[x], i, "approved"))
PROOF
  <1> DEFINE e == Approved(d, x, i, selfOk)
             plan == d.delegations[x][i].plan
             by == d.delegations[x][i].node
             last == d.tasks + Len(plan)
             row == [d.task[x] EXCEPT !.state = "waiting_children"]
             child(c) == TaskOf(d.task[x].problem, x, d.task[x].depth + 1, plan[c - d.tasks],
                                now, by, selfOk)
             rows == Decided(d.delegations[x], i, "approved")
  <1>1. /\ d \in Database /\ ReferencesOK(d) /\ x \in Tasks /\ d.task[x] \in TaskRow
        /\ Existing(d) \subseteq Tasks
        /\ d.tasks \in Nat /\ d.tasks <= TaskPool
        /\ d.task \in [Tasks -> TaskRow] /\ d.delegations \in [Tasks -> Seq(DelegationRow)]
    <2>1. /\ d \in Database /\ ReferencesOK(d) /\ x \in Tasks /\ d.task[x] \in TaskRow
          /\ Existing(d) \subseteq Tasks
      BY ExistingRow DEF Typed
    <2>2. d.tasks \in 0 .. TaskPool
      BY <2>1, DatabaseTables
    <2> QED  BY <2>1, <2>2, DatabaseTables, PoolAssumption, SMT
  <1>2. Len(plan) \in Nat
    <2>1. d.delegations[x][i] \in DelegationRow
      BY <1>1, SMT
    <2>2. plan \in Plans
      BY <2>1, SMT DEF DelegationRow
    <2> QED  BY <2>2, PlansAssumption, SMT
  <1>3. SameTask(d.task[x], row) /\ row.state = "waiting_children" /\ row.lease = None
    BY <1>1, SMT DEF TaskRow, SameTask
  <1>4. /\ e.tasks = last /\ e.offering = d.offering /\ e.requests = d.requests
        /\ e.problem = d.problem /\ e.submissions = d.submissions
    BY <1>1, SMT DEF Approved, Database
  <1>5. SameMoney(d, e)
    BY <1>1, SMT DEF Approved, Database, SameMoney
  <1>6. \A c \in Tasks : e.task[c] = IF c \in d.tasks + 1 .. last THEN child(c)
                                     ELSE IF c = x THEN row ELSE d.task[c]
    BY <1>1, SMT DEF Approved, Database
  <1>7. e.delegations = [d.delegations EXCEPT ![x] = rows]
    BY <1>1, SMT DEF Approved, Database
  <1> HIDE DEF e, row, child, last, plan, by, rows
  <1>8. /\ Existing(d) = 1 .. d.tasks /\ Existing(e) = 1 .. last
    BY <1>4 DEF Existing
  <1>9. /\ \A c \in Existing(d) : c \notin d.tasks + 1 .. last
        /\ \A c \in Existing(e) \ Existing(d) :
              c \in d.tasks + 1 .. last /\ c \in Tasks \ Existing(d) /\ c # x
    <2>1. last <= TaskPool
      BY DEF last, plan
    <2> QED  BY <1>1, <1>2, <1>8, <2>1, PoolAssumption, SMT DEF last, Tasks
  <1>10. \A c \in Existing(e) \ Existing(d) : e.task[c] = child(c) /\ e.delegations[c] = << >>
    BY <1>1, <1>6, <1>7, <1>9 DEF ReferencesOK
  <1>11. \A y \in Existing(d) \ {x} : e.task[y] = d.task[y] /\ e.delegations[y] = d.delegations[y]
    BY <1>1, <1>6, <1>7, <1>9
  <1>12. e.task[x] = row /\ e.delegations[x] = rows
    BY <1>1, <1>6, <1>7, <1>9
  <1>13. Approves(d, e, x, plan, by, selfOk, rows)
    BY <1>3, <1>4, <1>5, <1>10, <1>11, <1>12 DEF Approves, child, last
  <1> QED  BY <1>13 DEF e, plan, by, rows

\* create_problem inserts a problem and its root.
LEMMA InsertedInserts ==
    ASSUME NEW d, Typed(d), NEW p \in Problems, NEW b, d.tasks < TaskPool
    PROVE  Inserts(d, Inserted(d, p, b), p, b)
PROOF
  <1> DEFINE e == Inserted(d, p, b)
             new == d.tasks + 1
             row == TaskOf(p, None, 0, b.spec, now, None, FALSE)
             problem == [status |-> "active", funded |-> b.funded, deadline |-> b.deadline,
                         fee |-> fee]
             money == d.escrow[p] + b.funded
  <1>1. /\ d \in Database /\ ReferencesOK(d) /\ Existing(d) \subseteq Tasks /\ d.tasks \in Nat
        /\ d.task \in [Tasks -> TaskRow] /\ d.problem \in [Problems -> ProblemRow]
        /\ d.escrow \in [Problems -> Int]
    <2>1. d \in Database /\ ReferencesOK(d) /\ Existing(d) \subseteq Tasks
      BY ExistingTasks DEF Typed
    <2>2. d.tasks \in 0 .. TaskPool
      BY <2>1, DatabaseTables
    <2> QED  BY <2>1, <2>2, DatabaseTables, PoolAssumption, SMT
  <1>2. new \in Tasks \ Existing(d)
    BY <1>1, PoolAssumption, SMT DEF Tasks, Existing
  <1>3. e = [d EXCEPT !.problem[p] = problem, !.tasks = new, !.task[new] = row,
                      !.escrow[p] = money]
    BY DEF Inserted
  <1> HIDE DEF e, row, problem, money, new
  <1>4. /\ e.tasks = new /\ e.offering = d.offering /\ e.requests = d.requests
        /\ e.submissions = d.submissions /\ e.delegations = d.delegations
        /\ e.refund = d.refund /\ e.refunds = d.refunds
        /\ e.payable = d.payable /\ e.revenue = d.revenue /\ e.credits = d.credits
    BY <1>1, <1>3, SMT DEF Database
  <1>5. /\ e.task = [d.task EXCEPT ![new] = row]
        /\ e.problem = [d.problem EXCEPT ![p] = problem]
        /\ e.escrow = [d.escrow EXCEPT ![p] = money]
    BY <1>1, <1>3, SMT DEF Database
  <1>6. /\ \A x \in Existing(d) : e.task[x] = d.task[x] /\ e.delegations[x] = d.delegations[x]
        /\ e.task[new] = row /\ e.delegations[new] = << >>
    BY <1>1, <1>2, <1>4, <1>5 DEF ReferencesOK
  <1>7. /\ \A q \in Problems \ {p} : e.problem[q] = d.problem[q] /\ e.escrow[q] = d.escrow[q]
        /\ e.problem[p] = problem /\ e.escrow[p] = money
    BY <1>1, <1>5
  <1>8. Inserts(d, e, p, b)
    BY <1>4, <1>6, <1>7 DEF Inserts, new, row, problem, money
  <1> QED  BY <1>8 DEF e

\* The row of a completed problem.
LEMMA CompletedRow ==
    ASSUME NEW row \in ProblemRow
    PROVE  [row EXCEPT !.status = "completed"] \in ProblemRow
PROOF BY SMT DEF ProblemRow, Status, TerminalStatus

\* The four updates of a passed result, one after the other.
LEMMA SubmittedPasses ==
    ASSUME NEW d, Typed(d), NEW n \in Nodes, NEW x \in InState(d, "leased"),
           NEW sid \in SubmissionIds, d.problem[d.task[x].problem].status = "active"
    PROVE  Passes(d, Submitted(d, n, x, sid, "pass"), n, x)
PROOF
  <1> DEFINE p == d.task[x].problem
             y == d.task[x].parent
             spec == d.task[x].spec
             cut == PlatformFee(spec.reward, d.problem[p].fee)
             left == d.escrow[p] - spec.reward
             new == [node |-> n, sid |-> sid, outcome |-> "pass",
                     attempt |-> d.task[x].attempts,
                     earned |-> ProviderEarning(spec.reward, d.problem[p].fee)]
             row == [d.task[x] EXCEPT !.lease = None, !.state = "accepted"]
             d1 == Recorded(d, n, x, sid, "pass")
             d2 == Credited(d1, x, n)
             d3 == ParentRefreshed(d2, y)
             e == StatusRefreshed(d3, p)
  <1>1. /\ d \in Database /\ ReferencesOK(d)
        /\ x \in Existing(d) /\ x \in Tasks /\ d.task[x] \in TaskRow /\ Existing(d) \subseteq Tasks
        /\ d.task[x].attempts \in Nat /\ p \in Problems /\ spec \in Specs
        /\ d.task[x].state = "leased" /\ None \notin Tasks
        /\ y # None => y \in Existing(d)
    BY LeasedRow, ExistingTasks, NoneAssumption DEF Typed, ReferencesOK
  <1>2. /\ d.task \in [Tasks -> TaskRow] /\ d.submissions \in [Tasks -> Seq(SubmissionRow)]
        /\ d.problem \in [Problems -> ProblemRow] /\ d.escrow \in [Problems -> Int]
        /\ d.refund \in [Problems -> Nat] /\ d.refunds \in [Problems -> Nat]
    BY <1>1, DatabaseTables
  <1>3. SameTask(d.task[x], row) /\ row.lease = None /\ row.state = "accepted"
    BY <1>1, SMT DEF TaskRow, SameTask
  <1>4. new \in SubmissionRow /\ new.outcome = "pass" /\ new.node = n
        /\ new.earned = spec.reward - cut
    <2>1. d.problem[p].fee \in BasisPoints
      <3> HIDE DEF p
      <3> QED  BY <1>1, <1>2, SMT DEF ProblemRow
    <2>2. ProviderEarning(spec.reward, d.problem[p].fee) \in Nat
      <3> HIDE DEF p, spec
      <3> QED  BY <1>1, <2>1, EarningPositive
    <2>3. ProviderEarning(spec.reward, d.problem[p].fee) = spec.reward - cut
      BY DEF ProviderEarning
    <2> DEFINE earned == ProviderEarning(spec.reward, d.problem[p].fee)
    <2> HIDE DEF earned
    <2>4. /\ new \in SubmissionRow
          /\ new.earned = earned
      <3> SUFFICES [node |-> n, sid |-> sid, outcome |-> "pass",
                    attempt |-> d.task[x].attempts, earned |-> earned] \in SubmissionRow
        BY DEF earned
      <3> QED  BY <1>1, <2>2, SMT DEF SubmissionRow, Outcome, earned
    <2> QED  BY <2>3, <2>4 DEF earned
  <1>5. d1 = [d EXCEPT !.submissions[x] = Append(d.submissions[x], new), !.task[x] = row]
    BY DEF Recorded
  <1>6. /\ Submitted(d, n, x, sid, "pass") = e
        /\ d2 = [d1 EXCEPT
             !.escrow[d1.task[x].problem] = d1.escrow[d1.task[x].problem] - d1.task[x].spec.reward,
             !.payable[n] = d1.payable[n] + (d1.task[x].spec.reward
                - PlatformFee(d1.task[x].spec.reward, d1.problem[d1.task[x].problem].fee)),
             !.revenue = d1.revenue
                + PlatformFee(d1.task[x].spec.reward, d1.problem[d1.task[x].problem].fee),
             !.credits[x] = d1.credits[x] + 1]
    BY DEF Submitted, Credited
  <1>7. d1 \in Database /\ d2 \in Database
    <2>1. Typed(d1) /\ Existing(d1) = Existing(d)
      BY RecordedTyped DEF Outcome
    <2> HIDE DEF d1
    <2> QED  BY <1>1, <2>1, CreditedTyped DEF Typed
  <1> HIDE DEF new, row, d1, d2
  <1>8. /\ d1.tasks = d.tasks /\ d1.offering = d.offering /\ d1.requests = d.requests
        /\ d1.problem = d.problem /\ d1.delegations = d.delegations /\ SameMoney(d, d1)
        /\ d1.task = [d.task EXCEPT ![x] = row]
        /\ d1.submissions = [d.submissions EXCEPT ![x] = Append(d.submissions[x], new)]
    BY <1>1, <1>5, SMT DEF Database, SameMoney
  <1>9. /\ d1.task[x] = row /\ row.problem = p /\ row.spec = spec
        /\ \A c \in Tasks \ {x} : d1.task[c] = d.task[c] /\ d1.submissions[c] = d.submissions[c]
        /\ d1.submissions[x] = Append(d.submissions[x], new)
    BY <1>1, <1>2, <1>3, <1>8 DEF SameTask
  <1>10. /\ d2.tasks = d.tasks /\ d2.offering = d.offering /\ d2.requests = d.requests
         /\ d2.problem = d.problem /\ d2.delegations = d.delegations
         /\ d2.task = d1.task /\ d2.submissions = d1.submissions
         /\ d2.refund = d.refund /\ d2.refunds = d.refunds
         /\ d2.escrow = [d.escrow EXCEPT ![p] = left]
         /\ d2.payable = [d.payable EXCEPT ![n] = d.payable[n] + (spec.reward - cut)]
         /\ d2.revenue = d.revenue + cut
         /\ d2.credits = [d.credits EXCEPT ![x] = d.credits[x] + 1]
    <2>1. d2 = [d1 EXCEPT !.escrow[p] = d1.escrow[p] - spec.reward,
                          !.payable[n] = d1.payable[n] + (spec.reward - cut),
                          !.revenue = d1.revenue + cut,
                          !.credits[x] = d1.credits[x] + 1]
      BY <1>6, <1>8, <1>9
    <2> HIDE DEF cut, p, spec
    <2>2. /\ d2.tasks = d1.tasks /\ d2.offering = d1.offering /\ d2.requests = d1.requests
          /\ d2.problem = d1.problem /\ d2.delegations = d1.delegations
          /\ d2.task = d1.task /\ d2.submissions = d1.submissions
          /\ d2.refund = d1.refund /\ d2.refunds = d1.refunds
          /\ d2.escrow = [d1.escrow EXCEPT ![p] = d1.escrow[p] - spec.reward]
          /\ d2.payable = [d1.payable EXCEPT ![n] = d1.payable[n] + (spec.reward - cut)]
          /\ d2.revenue = d1.revenue + cut
          /\ d2.credits = [d1.credits EXCEPT ![x] = d1.credits[x] + 1]
      BY <1>7, <2>1, SMT DEF Database
    <2> QED  BY <1>8, <2>2 DEF SameMoney
  <1>11. Existing(d2) = Existing(d) /\ Of(d2, p) = Of(d, p)
         /\ \A c : Children(d2, c) = Children(d, c)
    <2>1. Existing(d2) = Existing(d)
      BY <1>10 DEF Existing
    <2>2. /\ row.parent = d.task[x].parent
          /\ \A c \in Existing(d) : c # x => d2.task[c] = d.task[c]
      BY <1>1, <1>3, <1>9, <1>10 DEF SameTask
    <2> QED  BY <1>9, <1>10, <2>1, <2>2 DEF Of, Children
  <1>12. \A c \in Existing(d) : c # x => (Reopened(d, x, c)
            <=> /\ c = y /\ Children(d2, y) # {} /\ d2.task[y].state = "waiting_children"
                /\ \A k \in Children(d2, y) : d2.task[k].state = "accepted")
    <2>1. x \in Children(d, y)
      BY <1>1 DEF Children
    <2>2. \A c \in Existing(d) : c # x => d2.task[c] = d.task[c]
      BY <1>1, <1>9, <1>10
    <2>3. d2.task[x].state = "accepted"
      BY <1>3, <1>9, <1>10
    <2> HIDE DEF d2
    <2> QED  BY <1>11, <2>1, <2>2, <2>3 DEF Reopened, SiblingsAccepted, Children
  <1>13. d.task[y].state = "waiting_children" => y # x
    BY <1>1
  <1> DEFINE opened == [d2.task[y] EXCEPT !.state = "open"]
  <1>14. /\ d3.tasks = d.tasks /\ d3.offering = d2.offering /\ d3.requests = d2.requests
         /\ d3.problem = d2.problem /\ d3.delegations = d2.delegations /\ SameMoney(d2, d3)
         /\ d3.submissions = d2.submissions /\ d3 \in Database
         /\ \A c \in Tasks : d3.task[c] =
               IF c \in Existing(d) /\ c # x /\ Reopened(d, x, c) THEN opened ELSE d2.task[c]
    <2> DEFINE guard == /\ y # None /\ Children(d2, y) # {}
                        /\ \A k \in Children(d2, y) : d2.task[k].state = "accepted"
                        /\ d2.task[y].state = "waiting_children"
    <2>1. d3 = IF guard THEN [d2 EXCEPT !.task[y] = opened] ELSE d2
      BY DEF ParentRefreshed
    <2> HIDE DEF opened
    <2>2. CASE guard
      <3>1. y \in Existing(d) /\ y # x /\ y \in Tasks
        BY <1>1, <1>3, <1>9, <1>10, <2>2
      <3>2. \A c \in Existing(d) : c # x => (Reopened(d, x, c) <=> c = y)
        BY <1>12, <2>2
      <3>3. d3 = [d2 EXCEPT !.task[y] = opened]
        BY <2>1, <2>2
      <3>4. d2.task \in [Tasks -> TaskRow] /\ opened \in TaskRow
        <4>1. d2.task \in [Tasks -> TaskRow]
          BY <1>7, DatabaseTables
        <4>2. d2.task[y] \in TaskRow
          BY <3>1, <4>1
        <4> QED  BY <4>1, <4>2, TaskRowUpdates DEF opened, TaskState
      <3> HIDE DEF d3
      <3>5. /\ d3.tasks = d2.tasks /\ d3.offering = d2.offering /\ d3.requests = d2.requests
            /\ d3.problem = d2.problem /\ d3.delegations = d2.delegations
            /\ d3.submissions = d2.submissions
            /\ d3.task = [d2.task EXCEPT ![y] = opened]
        BY <1>7, <3>3, SMT DEF Database
      <3>6. SameMoney(d2, d3)
        BY <1>7, <3>3, SMT DEF Database, SameMoney
      <3>7. d3 \in Database
        <4>1. [d2.task EXCEPT ![y] = opened] \in TaskTable
          BY <3>4 DEF TaskTable
        <4>2. d3 = [d2 EXCEPT !.task = [d2.task EXCEPT ![y] = opened]]
          BY <1>7, <3>3, SMT DEF Database
        <4> QED  BY <1>7, <4>1, <4>2, DatabaseUpdates
      <3> QED  BY <1>10, <3>1, <3>2, <3>4, <3>5, <3>6, <3>7
    <2>3. CASE ~guard
      <3>1. \A c \in Existing(d) : c # x => ~Reopened(d, x, c)
        BY <1>1, <1>12, <2>3
      <3>2. d3 = d2
        BY <2>1, <2>3
      <3> HIDE DEF d3
      <3> QED  BY <1>7, <1>10, <3>1, <3>2 DEF SameMoney
    <2> QED  BY <2>2, <2>3
  <1>15. ASSUME NEW c \in Existing(d), c # x, Reopened(d, x, c)
         PROVE  /\ SameTask(d.task[c], opened) /\ opened.state = "open"
                /\ opened.lease = d.task[c].lease
    <2>1. c = y /\ d2.task[y] = d.task[y] /\ d.task[y] \in TaskRow
      BY <1>1, <1>2, <1>9, <1>10, <1>15 DEF Reopened
    <2> QED  BY <2>1, SMT DEF TaskRow, SameTask
  <1>16. /\ \A c \in Existing(d) \ {x} :
              IF Reopened(d, x, c)
              THEN /\ SameTask(d.task[c], d3.task[c]) /\ d3.task[c].state = "open"
                   /\ d3.task[c].lease = d.task[c].lease
              ELSE d3.task[c] = d.task[c]
         /\ d3.task[x] = row
    <2> HIDE DEF d3, opened
    <2> QED  BY <1>1, <1>9, <1>10, <1>14, <1>15
  <1> HIDE DEF d3
  <1>17. Existing(d3) = Existing(d) /\ Of(d3, p) = Of(d, p) /\ x \in Of(d, p)
    <2>1. Existing(d3) = Existing(d)
      BY <1>14 DEF Existing
    <2> QED  BY <1>1, <1>3, <1>16, <2>1 DEF Of, SameTask
  <1>18. OthersAccepted(d, x, p) <=> \A c \in Of(d3, p) : d3.task[c].state = "accepted"
    <2>1. ASSUME NEW c \in Existing(d) \ {x}
          PROVE  d3.task[c].state = "accepted" <=> d.task[c].state = "accepted"
      BY <1>16 DEF Reopened
    <2> QED  BY <1>3, <1>16, <1>17, <2>1 DEF OthersAccepted, Of
  <1> DEFINE done == OthersAccepted(d, x, p)
             ended == [d3.problem[p] EXCEPT !.status = "completed"]
             d4 == [d3 EXCEPT !.problem[p] = ended]
  <1>19. e = IF done THEN Settled(d4, {p}) ELSE d3
    <2>1. Of(d3, p) # {} /\ d3.problem[p].status = "active"
      BY <1>10, <1>14, <1>17
    <2> QED  BY <1>18, <2>1 DEF StatusRefreshed
  <1>20. /\ d3.escrow[p] = left
         /\ \A q \in Problems \ {p} : d3.escrow[q] = d.escrow[q]
         /\ d3.refund = d.refund /\ d3.refunds = d.refunds
         /\ d3.payable = d2.payable /\ d3.revenue = d2.revenue /\ d3.credits = d2.credits
         /\ d3.problem = d.problem
    BY <1>1, <1>2, <1>10, <1>14, SMTT(90) DEF SameMoney
  <1>24. /\ d4.tasks = d3.tasks /\ d4.offering = d3.offering /\ d4.requests = d3.requests
         /\ d4.delegations = d3.delegations /\ d4.submissions = d3.submissions
         /\ d4.task = d3.task /\ d4.payable = d3.payable /\ d4.revenue = d3.revenue
         /\ d4.credits = d3.credits /\ d4.escrow = d3.escrow
         /\ d4.refund = d3.refund /\ d4.refunds = d3.refunds
         /\ d4.problem = [d3.problem EXCEPT ![p] = ended] /\ d4 \in Database
    <2>1. d3.problem \in [Problems -> ProblemRow] /\ p \in Problems
      BY <1>1, <1>14, DatabaseTables
    <2>2. ended \in ProblemRow
      <3> HIDE DEF p, d3
      <3> QED  BY <2>1, CompletedRow
    <2> HIDE DEF ended
    <2>3. [d3.problem EXCEPT ![p] = ended] \in ProblemTable
      BY <2>1, <2>2 DEF ProblemTable
    <2>4. d4 = [d3 EXCEPT !.problem = [d3.problem EXCEPT ![p] = ended]]
      BY <1>14, SMTT(30) DEF Database
    <2>5. d4 \in Database
      BY <1>14, <2>3, <2>4, DatabaseUpdates
    <2> QED  BY <1>14, <2>5, SMTT(90) DEF Database
  <1> HIDE DEF d4
  <1>21. /\ e.tasks = d3.tasks /\ e.offering = d3.offering /\ e.requests = d3.requests
         /\ e.delegations = d3.delegations /\ e.submissions = d3.submissions
         /\ e.task = d3.task
         /\ e.payable = d3.payable /\ e.revenue = d3.revenue /\ e.credits = d3.credits
    <2>1. CASE done
      <3>1. LET s == Settled(d4, {p}) IN
            /\ s.tasks = d4.tasks /\ s.offering = d4.offering /\ s.requests = d4.requests
            /\ s.delegations = d4.delegations /\ s.submissions = d4.submissions
            /\ s.task = d4.task /\ s.payable = d4.payable /\ s.revenue = d4.revenue
            /\ s.credits = d4.credits
        BY <1>24, SMT DEF Settled, Database
      <3> QED  BY <1>19, <1>24, <2>1, <3>1
    <2>2. CASE ~done
      BY <1>19, <2>2
    <2> QED  BY <2>1, <2>2
  <1>22. /\ \A q \in Problems \ {p} :
              /\ e.problem[q] = d.problem[q] /\ e.escrow[q] = d.escrow[q]
              /\ e.refund[q] = d.refund[q] /\ e.refunds[q] = d.refunds[q]
         /\ e.problem[p] = IF done THEN [d.problem[p] EXCEPT !.status = "completed"]
                           ELSE d.problem[p]
         /\ IF done /\ left > 0
            THEN /\ e.escrow[p] = 0 /\ e.refund[p] = d.refund[p] + left
                 /\ e.refunds[p] = d.refunds[p] + 1
            ELSE /\ e.escrow[p] = left /\ e.refund[p] = d.refund[p]
                 /\ e.refunds[p] = d.refunds[p]
    <2>1. CASE done
      <3> DEFINE s == Settled(d4, {p})
      <3>1. s.problem = d4.problem
        BY <1>24, SMT DEF Settled, Database
      <3>2. \A q \in Problems :
              IF q = p /\ d4.escrow[p] > 0
              THEN /\ s.escrow[q] = 0 /\ s.refund[q] = d4.refund[q] + d4.escrow[q]
                   /\ s.refunds[q] = d4.refunds[q] + 1
              ELSE /\ s.escrow[q] = d4.escrow[q] /\ s.refund[q] = d4.refund[q]
                   /\ s.refunds[q] = d4.refunds[q]
        BY <1>24, SMT DEF Settled, Database
      <3>3. /\ d4.problem[p] = ended /\ \A q \in Problems \ {p} : d4.problem[q] = d3.problem[q]
        <4>1. d3.problem \in [Problems -> ProblemRow] /\ p \in Problems
          BY <1>1, <1>14, DatabaseTables
        <4> HIDE DEF p, ended
        <4> QED  BY <1>24, <4>1
      <3>4. e = s /\ p \in Problems
        BY <1>1, <1>19, <2>1
      <3>5. ended = [d.problem[p] EXCEPT !.status = "completed"]
        BY <1>20
      <3> HIDE DEF ended, left, p, done, s, d3
      <3>6. \A q \in Problems \ {p} :
              /\ e.problem[q] = d.problem[q] /\ e.escrow[q] = d.escrow[q]
              /\ e.refund[q] = d.refund[q] /\ e.refunds[q] = d.refunds[q]
        <4> TAKE q \in Problems \ {p}
        <4>1. q \in Problems /\ q # p
          OBVIOUS
        <4>2. d3.escrow[q] = d.escrow[q] /\ d3.refund[q] = d.refund[q]
              /\ d3.refunds[q] = d.refunds[q] /\ d3.problem[q] = d.problem[q]
          BY <1>20
        <4>3. e.problem[q] = d3.problem[q]
          BY <3>1, <3>3, <3>4
        <4>4. e.escrow[q] = d3.escrow[q] /\ e.refund[q] = d3.refund[q]
              /\ e.refunds[q] = d3.refunds[q]
          BY <1>24, <3>2, <3>4, <4>1
        <4> QED  BY <4>2, <4>3, <4>4
      <3>7. e.problem[p] = [d.problem[p] EXCEPT !.status = "completed"]
        BY <3>1, <3>3, <3>4, <3>5
      <3>8. IF left > 0
            THEN /\ e.escrow[p] = 0 /\ e.refund[p] = d.refund[p] + left
                 /\ e.refunds[p] = d.refunds[p] + 1
            ELSE /\ e.escrow[p] = left /\ e.refund[p] = d.refund[p]
                 /\ e.refunds[p] = d.refunds[p]
        BY <1>20, <1>24, <3>2, <3>4
      <3> QED  BY <2>1, <3>6, <3>7, <3>8
    <2>2. CASE ~done
      BY <1>19, <1>20, <2>2
    <2> QED  BY <2>1, <2>2
  <1> HIDE DEF e, left, cut
  <1>23. Passes(d, e, n, x)
    <2>1. /\ SameTask(d.task[x], e.task[x])
          /\ e.task[x].state = "accepted" /\ e.task[x].lease = None
      BY <1>3, <1>16, <1>21
    <2>2. \E r \in SubmissionRow :
              /\ r.node = n /\ r.outcome = "pass" /\ r.earned = spec.reward - cut
              /\ e.submissions[x] = Append(d.submissions[x], r)
      BY <1>4, <1>9, <1>10, <1>14, <1>21
    <2>3. \A c \in Existing(d) \ {x} : e.submissions[c] = d.submissions[c]
      BY <1>1, <1>9, <1>10, <1>14, <1>21
    <2>4. /\ e.tasks = d.tasks /\ e.offering = d.offering /\ e.requests = d.requests
          /\ e.delegations = d.delegations
          /\ e.payable = [d.payable EXCEPT ![n] = d.payable[n] + (spec.reward - cut)]
          /\ e.revenue = d.revenue + cut
          /\ e.credits = [d.credits EXCEPT ![x] = d.credits[x] + 1]
      BY <1>10, <1>14, <1>20, <1>21
    <2>5. \A c \in Existing(d) \ {x} :
              IF Reopened(d, x, c)
              THEN /\ SameTask(d.task[c], e.task[c]) /\ e.task[c].state = "open"
                   /\ e.task[c].lease = d.task[c].lease
              ELSE e.task[c] = d.task[c]
      BY <1>16, <1>21
    <2> QED  BY <1>22, <2>1, <2>2, <2>3, <2>4, <2>5 DEF Passes, left, cut
  <1> QED  BY <1>6, <1>23

-----------------------------------------------------------------------------
(* The tree of tasks and the ends of problems *)

HasChild(d, x) == \E c \in Existing(d) : d.task[c].parent = x
DoneBelow(d, x) == \A c \in Existing(d) : d.task[c].parent = x => d.task[c].state = "accepted"

\* What became of the last of a task's proposals; without one it is as if all
\* had been rejected.
LastStatus(rows) == IF rows = << >> THEN "rejected" ELSE rows[Len(rows)].status
Past(rows) == \A i \in 1 .. Len(rows) - 1 : rows[i].status = "rejected"

Linked(d) ==
    \A x \in Existing(d) :
        LET row == d.task[x] IN
        row.parent # None =>
            /\ row.parent < x
            /\ d.task[row.parent].problem = row.problem
            /\ row.depth = d.task[row.parent].depth + 1
            /\ d.task[row.parent].spec.cons \subseteq row.spec.cons

OneRoot(d) ==
    \A x, y \in Existing(d) :
        /\ d.task[x].parent = None /\ d.task[y].parent = None
        /\ d.task[x].problem = d.task[y].problem
        => x = y

\* A task's row beside its proposals, whether it has children, and whether all
\* of them are accepted.
Shape(row, rows, child, done) ==
    /\ row.depth <= MaxDepth
    /\ row.state = "awaiting_delegation_approval" => row.depth < MaxDepth
    /\ row.state = "waiting_children" => ~done
    /\ row.state \in {"open", "leased", "accepted"} => done
    /\ child <=> LastStatus(rows) = "approved"
    /\ row.state = "awaiting_delegation_approval" <=> LastStatus(rows) = "proposed"
    /\ LastStatus(rows) = "void" => row.state = "blocked"
    /\ Past(rows)

\* A task's row beside the status of its problem and what it was credited.
Ending(row, status, credit) ==
    /\ status \in TerminalStatus => row.state \in {"accepted", "failed", "blocked"}
    /\ status = "completed" => row.state = "accepted"
    /\ row.parent = None /\ row.state = "accepted" => status = "completed"
    /\ credit = IF row.state = "accepted" THEN 1 ELSE 0

ShapeAt(d, x) == Shape(d.task[x], d.delegations[x], HasChild(d, x), DoneBelow(d, x))
EndingAt(d, x) == Ending(d.task[x], d.problem[d.task[x].problem].status, d.credits[x])

\* The inductive invariant of TreeConsistent: the depth of a task that awaits
\* the decision is what bounds the depth of its children, and the credits are
\* what makes a task accepted once.
Treed(d) ==
    /\ Linked(d) /\ OneRoot(d)
    /\ \A x \in Existing(d) : ShapeAt(d, x) /\ EndingAt(d, x)
    /\ \A x \in Tasks \ Existing(d) : d.credits[x] = 0

Grown(d) == Kept(d) /\ Treed(d)

\* A proposal's status is one of the four.
LEMMA LastStatusType ==
    ASSUME NEW rows \in Seq(DelegationRow)
    PROVE  LastStatus(rows) \in DelegationStatus
PROOF
  <1>1. CASE rows = << >>
    BY <1>1 DEF LastStatus, DelegationStatus
  <1>2. CASE rows # << >>
    <2>1. rows[Len(rows)] \in DelegationRow
      BY <1>2, SMT
    <2>2. \A row \in DelegationRow : row.status \in DelegationStatus
      BY SMT DEF DelegationRow
    <2> QED  BY <1>2, <2>1, <2>2 DEF LastStatus
  <1> QED  BY <1>1, <1>2

\* Voiding touches the last proposal only, when it was undecided.
LEMMA VoidedLast ==
    ASSUME NEW rows \in Seq(DelegationRow), Past(rows)
    PROVE  /\ Past(Voided(rows))
           /\ LastStatus(Voided(rows)) = IF LastStatus(rows) = "proposed" THEN "void"
                                         ELSE LastStatus(rows)
PROOF
  <1>1. /\ Voided(rows) \in Seq(DelegationRow) /\ Len(Voided(rows)) = Len(rows)
        /\ DOMAIN rows = 1 .. Len(rows) /\ Len(rows) \in Nat
    BY VoidedTyped, SMT
  <1>2. \A i \in DOMAIN rows :
           Voided(rows)[i].status = IF rows[i].status = "proposed" THEN "void" ELSE rows[i].status
    <2>1. \A i \in DOMAIN rows : rows[i] \in DelegationRow
      BY SMT
    <2>2. \A row \in DelegationRow : [row EXCEPT !.status = "void"].status = "void"
      BY SMT DEF DelegationRow
    <2> QED  BY <2>1, <2>2 DEF Voided
  <1>3. \A i \in 1 .. Len(rows) - 1 : i \in DOMAIN rows
    BY <1>1, SMT
  <1>4. Past(Voided(rows))
    BY <1>1, <1>2, <1>3 DEF Past
  <1>5. rows = << >> <=> Voided(rows) = << >>
    BY <1>1, SMT
  <1>6. rows # << >> => Len(rows) \in DOMAIN rows
    BY <1>1, SMT
  <1> QED  BY <1>1, <1>2, <1>4, <1>5, <1>6 DEF LastStatus

\* Only the last proposal can be undecided, and deciding it touches no other.
LEMMA DecidedLast ==
    ASSUME NEW rows \in Seq(DelegationRow), Past(rows), NEW i \in DOMAIN rows,
           rows[i].status = "proposed", NEW status
    PROVE  /\ LastStatus(rows) = "proposed"
           /\ LastStatus(Decided(rows, i, status)) = status
           /\ Past(Decided(rows, i, status))
PROOF
  <1> DEFINE new == [rows[i] EXCEPT !.status = status]
             rows2 == Decided(rows, i, status)
  <1>1. DOMAIN rows = 1 .. Len(rows) /\ Len(rows) \in Nat /\ rows[i] \in DelegationRow
    BY SMT
  <1>2. i = Len(rows)
    <2>1. i \notin 1 .. Len(rows) - 1
      BY DEF Past
    <2> QED  BY <1>1, <2>1, SMT
  <1>3. new.status = status
    BY <1>1, SMT DEF DelegationRow
  <1>4. rows2 = [rows EXCEPT ![i] = new]
    BY DEF Decided
  <1> HIDE DEF new, rows2
  <1>5. rows2 \in Seq(DelegationRow \cup {new}) /\ Len(rows2) = Len(rows)
    BY <1>1, <1>4, SMT
  <1>6. rows2[i] = new /\ \A j \in DOMAIN rows \ {i} : rows2[j] = rows[j]
    BY <1>4
  <1>7. \A j \in 1 .. Len(rows) - 1 : j \in 1 .. Len(rows) /\ j # Len(rows)
    <2>1. \A k \in Nat : \A j \in 1 .. k - 1 : j \in 1 .. k /\ j # k
      BY SMT
    <2> QED  BY <1>1, <2>1
  <1>8. Past(rows2)
    BY <1>1, <1>2, <1>5, <1>6, <1>7 DEF Past
  <1>9. rows # << >> /\ rows2 # << >>
    BY <1>1, <1>2, <1>5, SMT
  <1>10. LastStatus(rows) = "proposed" /\ LastStatus(rows2) = status
    BY <1>2, <1>3, <1>5, <1>6, <1>9 DEF LastStatus
  <1> QED  BY <1>8, <1>10 DEF rows2

\* A new proposal comes last.
LEMMA ProposedLast ==
    ASSUME NEW rows \in Seq(DelegationRow), Past(rows), LastStatus(rows) = "rejected", NEW row
    PROVE  LastStatus(Append(rows, row)) = row.status /\ Past(Append(rows, row))
PROOF
  <1> DEFINE rows2 == Append(rows, row)
  <1>1. Len(rows) \in Nat
    BY SMT
  <1>2. /\ Len(rows2) = Len(rows) + 1 /\ rows2[Len(rows) + 1] = row
        /\ \A j \in 1 .. Len(rows) : rows2[j] = rows[j]
        /\ rows2 # << >>
    <2>1. rows \in Seq(DelegationRow \cup {row}) /\ row \in DelegationRow \cup {row}
      BY SMT
    <2> QED  BY <2>1, SMT
  <1> HIDE DEF rows2
  <1>3. LastStatus(rows2) = row.status
    BY <1>2 DEF LastStatus
  <1>4. \A j \in 1 .. Len(rows) : rows[j].status = "rejected"
    <2> TAKE j \in 1 .. Len(rows)
    <2>1. CASE j = Len(rows)
      <3>1. rows # << >>
        BY <2>1, SMT
      <3> QED  BY <2>1, <3>1 DEF LastStatus
    <2>2. CASE j # Len(rows)
      <3>1. j \in 1 .. Len(rows) - 1
        BY <1>1, <2>2, SMT
      <3> QED  BY <3>1 DEF Past
    <2> QED  BY <2>1, <2>2
  <1>5. Len(rows2) - 1 = Len(rows)
    BY <1>1, <1>2, SMT
  <1>6. Past(rows2)
    BY <1>2, <1>4, <1>5 DEF Past
  <1> QED  BY <1>3, <1>6 DEF rows2

-----------------------------------------------------------------------------
(* The moves: what changes, and what the operation required *)

Closed == TerminalStatus \ {"completed"}

\* Some task of each of the problems P has failed.
Hopeless(d, P) == \A p \in P : \E x \in Of(d, p) : d.task[x].state = "failed"

Closing(d, e) ==
    \E P \in SUBSET Problems, status \in Closed :
        /\ \A p \in P : d.problem[p].status = "active"
        /\ status = "blocked" => Hopeless(d, P)
        /\ Ends(d, e, P, status)

Lapsing(d, e) == \E R \in SUBSET InState(d, "leased") : Frees(d, e, R)

Leasing(d, e) ==
    \E n \in Nodes, r \in Requests :
        /\ d.requests[n][r] = None /\ ~AtLimit(d, n)
        /\ \E x \in Candidates(d, n) : Gives(d, e, n, r, x)

Proposing(d, e) ==
    \E x \in InState(d, "leased"), row \in DelegationRow :
        /\ row.status = "proposed"
        /\ d.task[x].depth < MaxDepth /\ Children(d, x) = {}
        /\ Turns(d, e, x, "awaiting_delegation_approval", Append(d.delegations[x], row))

Rejecting(d, e) ==
    \E x \in Existing(d) : \E i \in DOMAIN d.delegations[x] :
        /\ Undecided(d, x, i)
        /\ Turns(d, e, x, "open", Decided(d.delegations[x], i, "rejected"))

Approving(d, e) ==
    \E x \in Existing(d), selfOk \in BOOLEAN : \E i \in DOMAIN d.delegations[x] :
        LET row == d.delegations[x][i] IN
        /\ Undecided(d, x, i)
        /\ PreservesConstraints(d, x, row.plan)
        /\ PlanCost(row.plan) <= d.task[x].spec.budget
        /\ Approves(d, e, x, row.plan, row.node, selfOk,
                    Decided(d.delegations[x], i, "approved"))

Passing(d, e) ==
    \E n \in Nodes, r \in Requests, x \in Existing(d) :
        LiveLease(d, n, r, x) /\ Passes(d, e, n, x)

Inserting(d, e) ==
    \E p \in Problems, b \in ProblemRequest :
        /\ d.problem[p].status = "none"
        /\ b.spec.reward + b.spec.budget <= b.funded
        /\ Inserts(d, e, p, b)

\* Only offerings change, and none that is active becomes anything else.
Offering(d, e) ==
    /\ e = [d EXCEPT !.offering = e.offering]
    /\ \A n \in Nodes, c \in Caps :
          d.offering[n][c] = "active" => e.offering[n][c] = "active"

Move(d, e) ==
    \/ Closing(d, e) \/ Lapsing(d, e) \/ Leasing(d, e) \/ Proposing(d, e) \/ Rejecting(d, e)
    \/ Approving(d, e) \/ Passing(d, e) \/ Inserting(d, e) \/ Offering(d, e)

-----------------------------------------------------------------------------
(* Moves that insert no task *)

SameTree(d, e) ==
    e.tasks = d.tasks /\ \A x \in Existing(d) : SameTask(d.task[x], e.task[x])

SameAccepted(d, e) ==
    \A x \in Existing(d) : e.task[x].state = "accepted" <=> d.task[x].state = "accepted"

\* The links between tasks are as they were when no task is inserted or moved.
LEMMA SameTreeKeeps ==
    ASSUME NEW d, Typed(d), NEW e, SameTree(d, e), Linked(d), OneRoot(d)
    PROVE  /\ Existing(e) = Existing(d) /\ Linked(e) /\ OneRoot(e)
           /\ \A x : HasChild(e, x) <=> HasChild(d, x)
PROOF
  <1>1. Existing(e) = Existing(d)
    BY DEF SameTree, Existing
  <1>2. \A x \in Existing(d) : d.task[x].parent # None => d.task[x].parent \in Existing(d)
    BY DEF Typed, ReferencesOK
  <1>3. \A x \in Existing(d) :
           /\ e.task[x].problem = d.task[x].problem /\ e.task[x].parent = d.task[x].parent
           /\ e.task[x].depth = d.task[x].depth /\ e.task[x].spec = d.task[x].spec
    BY DEF SameTree, SameTask
  <1>4. Linked(e)
    BY <1>1, <1>2, <1>3 DEF Linked
  <1>5. OneRoot(e)
    BY <1>1, <1>3 DEF OneRoot
  <1>6. \A x : HasChild(e, x) <=> HasChild(d, x)
    BY <1>1, <1>3 DEF HasChild
  <1> QED  BY <1>1, <1>4, <1>5, <1>6

\* A move that leaves every parent, and what is accepted, as it was keeps the
\* tree when it keeps the shape and the ending of each row for itself.
LEMMA QuietKeepsTree ==
    ASSUME NEW d, Typed(d), Treed(d), NEW e, SameTree(d, e), SameAccepted(d, e),
           e.credits = d.credits,
           \A x \in Existing(d), child \in BOOLEAN, done \in BOOLEAN :
               Shape(d.task[x], d.delegations[x], child, done) /\ done = DoneBelow(d, x)
                  => Shape(e.task[x], e.delegations[x], child, done),
           \A x \in Existing(d) : EndingAt(e, x)
    PROVE  Treed(e)
PROOF
  <1>1. /\ Existing(e) = Existing(d) /\ Linked(e) /\ OneRoot(e)
        /\ \A x : HasChild(e, x) <=> HasChild(d, x)
    BY SameTreeKeeps DEF Treed
  <1>2. \A x : DoneBelow(e, x) <=> DoneBelow(d, x)
    BY <1>1 DEF DoneBelow, SameTree, SameTask, SameAccepted
  <1>3. \A x : HasChild(d, x) \in BOOLEAN /\ DoneBelow(d, x) \in BOOLEAN
    BY DEF HasChild, DoneBelow
  <1>4. \A x \in Existing(d) : ShapeAt(e, x)
    <2> TAKE x \in Existing(d)
    <2>1. Shape(d.task[x], d.delegations[x], HasChild(d, x), DoneBelow(d, x))
      BY DEF Treed, ShapeAt
    <2>2. Shape(e.task[x], e.delegations[x], HasChild(d, x), DoneBelow(d, x))
      BY <1>3, <2>1
    <2>3. HasChild(e, x) = HasChild(d, x) /\ DoneBelow(e, x) = DoneBelow(d, x)
      BY <1>1, <1>2 DEF HasChild, DoneBelow
    <2> QED  BY <2>2, <2>3 DEF ShapeAt
  <1> QED  BY <1>1, <1>4 DEF Treed

\* The problems of leased and undecided tasks have not ended.
LEMMA ActiveWork ==
    ASSUME NEW d, Typed(d), Treed(d), NEW x \in Existing(d),
           d.task[x].state \notin {"accepted", "failed", "blocked"}
    PROVE  d.task[x].problem \in Problems /\ d.problem[d.task[x].problem].status = "active"
PROOF
  <1>1. EndingAt(d, x)
    BY DEF Treed
  <1>2. d.task[x].problem \in Problems /\ d.problem[d.task[x].problem].status # "none"
    BY DEF Typed, ReferencesOK
  <1>3. d.problem[d.task[x].problem].status \in Status
    <2>1. \A row \in ProblemRow : row.status \in Status
      BY SMT DEF ProblemRow
    <2>2. d.problem \in [Problems -> ProblemRow]
      BY DatabaseTables DEF Typed
    <2> QED  BY <1>2, <2>1, <2>2
  <1> QED  BY <1>1, <1>2, <1>3 DEF EndingAt, Ending, Status

\* A termination keeps the tree in shape,
LEMMA ClosingTreed ==
    ASSUME NEW d, Kept(d), Treed(d), NEW e, Closing(d, e)
    PROVE  Treed(e)
PROOF
  <1>1. PICK P \in SUBSET Problems, status \in Closed : Ends(d, e, P, status)
    BY DEF Closing
  <1>2. \A x \in Existing(d) :
           IF Doomed(d, P, x)
           THEN /\ SameTask(d.task[x], e.task[x]) /\ e.task[x].state = "blocked"
           ELSE e.task[x] = d.task[x]
    BY <1>1 DEF Ends
  <1>3. SameTree(d, e)
    BY <1>1, <1>2 DEF SameTree, SameTask, Ends
  <1>4. SameAccepted(d, e)
    BY <1>2 DEF SameAccepted, Doomed
  <1>5. e.credits = d.credits
    BY <1>1 DEF Ends
  <1>6. ASSUME NEW x \in Existing(d), NEW child \in BOOLEAN, NEW done \in BOOLEAN,
               Shape(d.task[x], d.delegations[x], child, done)
        PROVE  Shape(e.task[x], e.delegations[x], child, done)
    <2> DEFINE rows == d.delegations[x]
    <2>1. d.delegations[x] \in Seq(DelegationRow)
      BY ExistingRow, DatabaseTables DEF Kept, Typed
    <2>2. /\ Past(Voided(rows))
          /\ LastStatus(Voided(rows)) = IF LastStatus(rows) = "proposed" THEN "void"
                                        ELSE LastStatus(rows)
      BY <1>6, <2>1, VoidedLast DEF Shape
    <2>3. e.delegations[x] = IF d.task[x].problem \in P THEN Voided(rows) ELSE rows
      BY <1>1 DEF Ends
    <2> HIDE DEF rows
    <2>4. CASE Doomed(d, P, x)
      <3>1. SameTask(d.task[x], e.task[x]) /\ e.task[x].state = "blocked"
        BY <1>2, <2>4
      <3>2. e.delegations[x] = Voided(rows)
        BY <2>3, <2>4 DEF Doomed
      <3> QED  BY <1>6, <2>2, <3>1, <3>2 DEF Shape, SameTask, rows
    <2>5. CASE ~Doomed(d, P, x)
      <3>1. e.task[x] = d.task[x]
        BY <1>2, <2>5
      <3>2. d.task[x].problem \in P => LastStatus(rows) # "proposed"
        BY <1>6, <2>5 DEF Doomed, Shape, rows
      <3> QED  BY <1>6, <2>2, <2>3, <3>1, <3>2 DEF Shape, rows
    <2> QED  BY <2>4, <2>5
  <1>7. ASSUME NEW x \in Existing(d)
        PROVE  EndingAt(e, x)
    <2> DEFINE p == d.task[x].problem
    <2>1. EndingAt(d, x) /\ p \in Problems /\ d.problem \in [Problems -> ProblemRow]
      BY DatabaseTables DEF Treed, Kept, Typed, ReferencesOK
    <2>2. e.problem[p].status = IF p \in P /\ d.problem[p].status = "active"
                                THEN status ELSE d.problem[p].status
      <3>1. e.problem[p] = IF p \in P /\ d.problem[p].status = "active"
                           THEN [d.problem[p] EXCEPT !.status = status] ELSE d.problem[p]
        BY <1>1, <2>1 DEF Ends
      <3>2. \A row \in ProblemRow : [row EXCEPT !.status = status].status = status
        BY SMT DEF ProblemRow
      <3> QED  BY <2>1, <3>1, <3>2
    <2>3. e.task[x].problem = p /\ e.task[x].parent = d.task[x].parent
      BY <1>3 DEF SameTree, SameTask
    <2>4. status # "completed" /\ status # "active"
      BY DEF Closed, TerminalStatus
    <2>5. e.task[x].state = IF Doomed(d, P, x) THEN "blocked" ELSE d.task[x].state
      BY <1>2
    <2> HIDE DEF p
    <2>6. p = d.task[x].problem
      BY DEF p
    <2> QED  BY <1>5, <2>1, <2>2, <2>3, <2>4, <2>5, <2>6
             DEF EndingAt, Ending, Doomed, TerminalStatus
  <1> QED  BY <1>3, <1>4, <1>5, <1>6, <1>7, QuietKeepsTree DEF Kept

\* so does an expiry of leases,
LEMMA LapsingTreed ==
    ASSUME NEW d, Kept(d), Treed(d), NEW e, Lapsing(d, e)
    PROVE  Treed(e)
PROOF
  <1>1. PICK R \in SUBSET InState(d, "leased") : Frees(d, e, R)
    BY DEF Lapsing
  <1>2. \A x \in Existing(d) :
           IF x \in R
           THEN /\ d.task[x].state = "leased" /\ SameTask(d.task[x], e.task[x])
                /\ e.task[x].state \in {"open", "failed"}
           ELSE e.task[x] = d.task[x]
    BY <1>1 DEF Frees, InState
  <1>3. SameTree(d, e)
    BY <1>1, <1>2 DEF SameTree, SameTask, Frees
  <1>4. SameAccepted(d, e)
    BY <1>2 DEF SameAccepted
  <1>5. e.credits = d.credits /\ e.problem = d.problem /\ e.delegations = d.delegations
    BY <1>1 DEF Frees, SameMoney
  <1>6. ASSUME NEW x \in Existing(d), NEW child \in BOOLEAN, NEW done \in BOOLEAN,
               Shape(d.task[x], d.delegations[x], child, done)
        PROVE  Shape(e.task[x], e.delegations[x], child, done)
    BY <1>2, <1>5, <1>6 DEF Shape, SameTask
  <1>7. ASSUME NEW x \in Existing(d)
        PROVE  EndingAt(e, x)
    <2>1. EndingAt(d, x)
      BY DEF Treed
    <2>2. x \in R => d.problem[d.task[x].problem].status = "active"
      BY <1>2, ActiveWork DEF Kept
    <2> QED  BY <1>2, <1>5, <2>1, <2>2 DEF EndingAt, Ending, SameTask, TerminalStatus
  <1> QED  BY <1>3, <1>4, <1>5, <1>6, <1>7, QuietKeepsTree DEF Kept

\* a lease,
LEMMA LeasingTreed ==
    ASSUME NEW d, Kept(d), Treed(d), NEW e, Leasing(d, e)
    PROVE  Treed(e)
PROOF
  <1>1. PICK n \in Nodes, r \in Requests : \E x \in Candidates(d, n) : Gives(d, e, n, r, x)
    BY DEF Leasing
  <1>2. PICK x \in Candidates(d, n) : Gives(d, e, n, r, x)
    BY <1>1
  <1>3. x \in Existing(d) /\ d.task[x].state = "open"
    BY DEF Candidates, InState
  <1>4. /\ SameTask(d.task[x], e.task[x]) /\ e.task[x].state = "leased"
        /\ \A y \in Existing(d) \ {x} : e.task[y] = d.task[y]
        /\ e.credits = d.credits /\ e.problem = d.problem /\ e.delegations = d.delegations
        /\ e.tasks = d.tasks
    BY <1>2 DEF Gives, SameMoney
  <1>5. SameTree(d, e) /\ SameAccepted(d, e)
    BY <1>3, <1>4 DEF SameTree, SameTask, SameAccepted
  <1>6. ASSUME NEW y \in Existing(d), NEW child \in BOOLEAN, NEW done \in BOOLEAN,
               Shape(d.task[y], d.delegations[y], child, done)
        PROVE  Shape(e.task[y], e.delegations[y], child, done)
    BY <1>3, <1>4, <1>6 DEF Shape, SameTask
  <1>7. ASSUME NEW y \in Existing(d)
        PROVE  EndingAt(e, y)
    <2>1. EndingAt(d, y)
      BY DEF Treed
    <2>2. d.problem[d.task[x].problem].status = "active"
      BY <1>3, ActiveWork DEF Kept
    <2> QED  BY <1>3, <1>4, <2>1, <2>2 DEF EndingAt, Ending, SameTask, TerminalStatus
  <1> QED  BY <1>4, <1>5, <1>6, <1>7, QuietKeepsTree DEF Kept

\* a proposal, which is its task's last one,
LEMMA ProposingTreed ==
    ASSUME NEW d, Kept(d), Treed(d), NEW e, Proposing(d, e)
    PROVE  Treed(e)
PROOF
  <1>1. PICK x \in InState(d, "leased"), row \in DelegationRow :
           /\ row.status = "proposed"
           /\ d.task[x].depth < MaxDepth /\ Children(d, x) = {}
           /\ Turns(d, e, x, "awaiting_delegation_approval", Append(d.delegations[x], row))
    BY DEF Proposing
  <1>2. /\ x \in Existing(d) /\ d.task[x].state = "leased" /\ Typed(d)
        /\ d.delegations[x] \in Seq(DelegationRow)
    BY ExistingRow, DatabaseTables DEF InState, Kept, Typed
  <1>3. /\ SameTask(d.task[x], e.task[x])
        /\ e.task[x].state = "awaiting_delegation_approval"
        /\ e.delegations[x] = Append(d.delegations[x], row)
        /\ \A y \in Existing(d) \ {x} :
              e.task[y] = d.task[y] /\ e.delegations[y] = d.delegations[y]
        /\ e.credits = d.credits /\ e.problem = d.problem /\ e.tasks = d.tasks
    BY <1>1 DEF Turns, SameMoney
  <1>4. SameTree(d, e) /\ SameAccepted(d, e)
    BY <1>2, <1>3 DEF SameTree, SameTask, SameAccepted
  <1>5. LastStatus(d.delegations[x]) = "rejected" /\ Past(d.delegations[x])
    <2>1. ShapeAt(d, x)
      BY <1>2 DEF Treed
    <2>2. ~HasChild(d, x)
      BY <1>1 DEF HasChild, Children
    <2>3. LastStatus(d.delegations[x]) \in {"proposed", "approved", "rejected", "void"}
      BY <1>2, LastStatusType DEF DelegationStatus
    <2> QED  BY <1>2, <2>1, <2>2, <2>3 DEF ShapeAt, Shape
  <1>6. LastStatus(e.delegations[x]) = "proposed" /\ Past(e.delegations[x])
    BY <1>1, <1>2, <1>3, <1>5, ProposedLast
  <1>7. ASSUME NEW y \in Existing(d), NEW child \in BOOLEAN, NEW done \in BOOLEAN,
               Shape(d.task[y], d.delegations[y], child, done)
        PROVE  Shape(e.task[y], e.delegations[y], child, done)
    <2>1. CASE y = x
      BY <1>1, <1>3, <1>5, <1>6, <1>7, <2>1 DEF Shape, SameTask
    <2> QED  BY <1>3, <1>7, <2>1
  <1>8. ASSUME NEW y \in Existing(d)
        PROVE  EndingAt(e, y)
    <2>1. EndingAt(d, y)
      BY DEF Treed
    <2>2. d.problem[d.task[x].problem].status = "active"
      BY <1>2, ActiveWork
    <2> QED  BY <1>2, <1>3, <2>1, <2>2 DEF EndingAt, Ending, SameTask, TerminalStatus
  <1> QED  BY <1>2, <1>3, <1>4, <1>7, <1>8, QuietKeepsTree

\* its rejection,
LEMMA RejectingTreed ==
    ASSUME NEW d, Kept(d), Treed(d), NEW e, Rejecting(d, e)
    PROVE  Treed(e)
PROOF
  <1>1. PICK x \in Existing(d) : \E i \in DOMAIN d.delegations[x] :
           /\ Undecided(d, x, i)
           /\ Turns(d, e, x, "open", Decided(d.delegations[x], i, "rejected"))
    BY DEF Rejecting
  <1>2. PICK i \in DOMAIN d.delegations[x] :
           /\ Undecided(d, x, i)
           /\ Turns(d, e, x, "open", Decided(d.delegations[x], i, "rejected"))
    BY <1>1
  <1>3. /\ d.task[x].state = "awaiting_delegation_approval" /\ Typed(d)
        /\ d.problem[d.task[x].problem].status = "active"
        /\ d.delegations[x][i].status = "proposed"
        /\ d.delegations[x] \in Seq(DelegationRow)
    BY <1>2, ExistingRow, DatabaseTables DEF Undecided, Kept, Typed
  <1>4. /\ SameTask(d.task[x], e.task[x]) /\ e.task[x].state = "open"
        /\ e.delegations[x] = Decided(d.delegations[x], i, "rejected")
        /\ \A y \in Existing(d) \ {x} :
              e.task[y] = d.task[y] /\ e.delegations[y] = d.delegations[y]
        /\ e.credits = d.credits /\ e.problem = d.problem /\ e.tasks = d.tasks
    BY <1>2 DEF Turns, SameMoney
  <1>5. SameTree(d, e) /\ SameAccepted(d, e)
    BY <1>3, <1>4 DEF SameTree, SameTask, SameAccepted
  <1>6. ShapeAt(d, x)
    BY DEF Treed
  <1>7. /\ LastStatus(d.delegations[x]) = "proposed"
        /\ LastStatus(e.delegations[x]) = "rejected" /\ Past(e.delegations[x])
    BY <1>3, <1>4, <1>6, DecidedLast DEF ShapeAt, Shape
  <1>8. DoneBelow(d, x)
    <2>1. ~HasChild(d, x)
      BY <1>6, <1>7 DEF ShapeAt, Shape
    <2> QED  BY <2>1 DEF HasChild, DoneBelow
  <1>9. ASSUME NEW y \in Existing(d), NEW child \in BOOLEAN, NEW done \in BOOLEAN,
               Shape(d.task[y], d.delegations[y], child, done), done = DoneBelow(d, y)
        PROVE  Shape(e.task[y], e.delegations[y], child, done)
    <2>1. CASE y = x
      BY <1>3, <1>4, <1>7, <1>8, <1>9, <2>1 DEF Shape, SameTask
    <2> QED  BY <1>4, <1>9, <2>1
  <1>10. ASSUME NEW y \in Existing(d)
         PROVE  EndingAt(e, y)
    <2>1. EndingAt(d, y)
      BY DEF Treed
    <2> QED  BY <1>3, <1>4, <2>1 DEF EndingAt, Ending, SameTask, TerminalStatus
  <1> QED  BY <1>3, <1>4, <1>5, <1>9, <1>10, QuietKeepsTree

\* and an offering, which no task depends on.
LEMMA OfferingTreed ==
    ASSUME NEW d, Kept(d), Treed(d), NEW e, Offering(d, e)
    PROVE  Treed(e)
PROOF
  <1>1. /\ e.tasks = d.tasks /\ e.task = d.task /\ e.credits = d.credits
        /\ e.problem = d.problem /\ e.delegations = d.delegations
    <2>1. d \in Database /\ e = [d EXCEPT !.offering = e.offering]
      BY DEF Offering, Kept, Typed
    <2> DEFINE v == e.offering
    <2> HIDE DEF v
    <2>2. e = [d EXCEPT !.offering = v]
      BY <2>1 DEF v
    <2> QED  BY <2>1, <2>2, SMT DEF Database
  <1>2. SameTree(d, e) /\ SameAccepted(d, e)
    BY <1>1 DEF SameTree, SameTask, SameAccepted
  <1>3. \A x \in Existing(d) : EndingAt(e, x)
    BY <1>1 DEF Treed, EndingAt
  <1> QED  BY <1>1, <1>2, <1>3, QuietKeepsTree DEF Kept

-----------------------------------------------------------------------------
(* Moves that insert tasks *)

\* Task numbers go up.
LEMMA Numbered ==
    ASSUME NEW d, Typed(d), NEW e, NEW k \in Nat, e.tasks = d.tasks + k
    PROVE  /\ Existing(d) \subseteq Existing(e)
           /\ \A c \in Existing(e) \ Existing(d) :
                 /\ c - d.tasks \in 1 .. k
                 /\ \A x \in Existing(d) : x < c
           /\ \A i \in 1 .. k : d.tasks + i \in Existing(e) \ Existing(d)
           /\ None \notin Existing(d) /\ None \notin Existing(e) \cap Tasks
PROOF
  <1>1. d.tasks \in Nat
    <2>1. d.tasks \in 0 .. TaskPool /\ TaskPool \in Nat
      BY DatabaseTables, PoolAssumption DEF Typed
    <2> QED  BY <2>1, SMT
  <1>2. Existing(d) = 1 .. d.tasks /\ Existing(e) = 1 .. d.tasks + k
    BY DEF Existing
  <1>3. \A m, j \in Nat : /\ 1 .. m \subseteq 1 .. m + j
                          /\ \A c \in (1 .. m + j) \ (1 .. m) : /\ c - m \in 1 .. j
                                                                /\ \A x \in 1 .. m : x < c
                          /\ \A i \in 1 .. j : m + i \in (1 .. m + j) \ (1 .. m)
    BY SMT
  <1>4. None \notin Existing(d) /\ None \notin Existing(e) \cap Tasks
    BY ExistingTasks, NoneAssumption DEF Typed
  <1> QED  BY <1>1, <1>2, <1>3, <1>4

\* A new problem has one task, its root.
LEMMA InsertingTreed ==
    ASSUME NEW d, Kept(d), Treed(d), NEW e, Typed(e), Inserting(d, e)
    PROVE  Treed(e)
PROOF
  <1>1. PICK p \in Problems, b \in ProblemRequest :
           d.problem[p].status = "none" /\ Inserts(d, e, p, b)
    BY DEF Inserting
  <1> DEFINE new == d.tasks + 1
             row == TaskOf(p, None, 0, b.spec, now, None, FALSE)
  <1>2. /\ Existing(d) \subseteq Existing(e) /\ new \in Existing(e) /\ new \notin Existing(d)
        /\ \A c \in Existing(e) : c # new => c \in Existing(d)
        /\ None \notin Existing(d) /\ new \in Tasks /\ Existing(e) \subseteq Tasks
        /\ \A c \in Existing(d) : c \in Tasks
    <2>1. e.tasks = d.tasks + 1 /\ 1 \in Nat /\ Typed(d)
      BY <1>1 DEF Inserts, Kept
    <2>2. /\ Existing(d) \subseteq Existing(e) /\ None \notin Existing(d)
          /\ \A c \in Existing(e) \ Existing(d) : c - d.tasks \in 1 .. 1
          /\ new \in Existing(e) \ Existing(d)
      BY <2>1, Numbered
    <2>3. d.tasks \in Nat
      <3>1. d.tasks \in 0 .. TaskPool /\ TaskPool \in Nat
        BY DatabaseTables, PoolAssumption, <2>1 DEF Typed
      <3> QED  BY <3>1, SMT
    <2>4. \A c \in Existing(e) : c \in Int
      BY SMT DEF Existing
    <2>5. \A c \in Existing(e) : c - d.tasks \in 1 .. 1 => c = new
      BY <2>3, <2>4, SMT
    <2>6. Existing(e) \subseteq Tasks /\ Existing(d) \subseteq Tasks
      BY <2>1, ExistingTasks DEF Typed
    <2> QED  BY <2>2, <2>5, <2>6
  <1>3. /\ \A x \in Existing(d) : e.task[x] = d.task[x] /\ e.delegations[x] = d.delegations[x]
        /\ e.task[new] = row /\ e.delegations[new] = << >>
        /\ e.credits = d.credits
        /\ \A q \in Problems \ {p} : e.problem[q] = d.problem[q]
    BY <1>1 DEF Inserts
  <1>4. e.problem[p].status = "active"
    BY <1>1 DEF Inserts
  <1>5. row.state = "open" /\ row.parent = None /\ row.problem = p /\ row.depth = 0
    BY DEF TaskOf
  <1>6. \A x \in Existing(d) :
           /\ d.task[x].problem \in Problems \ {p}
           /\ d.task[x].parent # None => d.task[x].parent \in Existing(d)
    BY <1>1 DEF Kept, Typed, ReferencesOK
  <1> HIDE DEF new, row
  <1>7. Linked(e) /\ OneRoot(e)
    <2>1. \A x \in Existing(e) : e.task[x].parent # None =>
             /\ x \in Existing(d) /\ e.task[x].parent \in Existing(d)
             /\ e.task[x] = d.task[x] /\ e.task[e.task[x].parent] = d.task[d.task[x].parent]
      BY <1>2, <1>3, <1>5, <1>6
    <2>2. Linked(e)
      BY <2>1 DEF Linked, Treed
    <2>3. \A x \in Existing(d) : e.task[x].problem # e.task[new].problem
      BY <1>3, <1>5, <1>6
    <2>4. OneRoot(e)
      BY <1>2, <1>3, <2>3 DEF OneRoot, Treed
    <2> QED  BY <2>2, <2>4
  <1>8. ASSUME NEW x \in Existing(d)
        PROVE  ShapeAt(e, x) /\ EndingAt(e, x)
    <2>1. ShapeAt(d, x) /\ EndingAt(d, x)
      BY DEF Treed
    <2>2. x # None /\ HasChild(e, x) = HasChild(d, x) /\ DoneBelow(e, x) = DoneBelow(d, x)
      BY <1>2, <1>3, <1>5 DEF HasChild, DoneBelow
    <2> QED  BY <1>3, <1>6, <2>1, <2>2 DEF ShapeAt, EndingAt
  <1>9. ShapeAt(e, new) /\ EndingAt(e, new)
    <2>1. \A c \in Existing(e) : e.task[c].parent # new
      BY <1>2, <1>3, <1>5, <1>6, NoneAssumption
    <2>2. ~HasChild(e, new) /\ DoneBelow(e, new)
      BY <2>1 DEF HasChild, DoneBelow
    <2>3. LastStatus(<< >>) = "rejected" /\ Past(<< >>)
      BY SMT DEF LastStatus, Past
    <2>4. d.credits[new] = 0
      BY <1>2 DEF Treed
    <2>5. row.depth <= MaxDepth
      BY <1>5, ConfigAssumption, SMT
    <2>6. ShapeAt(e, new)
      BY <1>3, <1>5, <2>2, <2>3, <2>5 DEF ShapeAt, Shape
    <2>7. EndingAt(e, new)
      BY <1>3, <1>4, <1>5, <2>4 DEF EndingAt, Ending, TerminalStatus
    <2> QED  BY <2>6, <2>7
  <1>10. \A x \in Tasks \ Existing(e) : e.credits[x] = 0
    BY <1>2, <1>3 DEF Treed
  <1> QED  BY <1>2, <1>7, <1>8, <1>9, <1>10 DEF Treed

\* The plan of a stored proposal has children, and each has a specification.
LEMMA StoredPlan ==
    ASSUME NEW d, Typed(d), NEW x \in Existing(d), NEW i \in DOMAIN d.delegations[x]
    PROVE  LET plan == d.delegations[x][i].plan IN
           /\ plan \in Seq(Specs) /\ Len(plan) \in Nat \ {0} /\ DOMAIN plan = 1 .. Len(plan)
           /\ \A j \in 1 .. Len(plan) : plan[j] \in Specs
PROOF
  <1>1. d.delegations[x] \in Seq(DelegationRow)
    BY ExistingRow, DatabaseTables DEF Typed
  <1>2. d.delegations[x][i] \in DelegationRow
    BY <1>1, SMT
  <1>3. \A row \in DelegationRow : row.plan \in Plans
    BY SMT DEF DelegationRow
  <1>4. \A plan \in Plans : plan \in Seq(Specs) /\ plan # << >>
    BY PlansAssumption
  <1>5. \A plan \in Seq(Specs) : plan # << >> =>
           /\ Len(plan) \in Nat \ {0} /\ DOMAIN plan = 1 .. Len(plan)
           /\ \A j \in 1 .. Len(plan) : plan[j] \in Specs
    BY SMT
  <1> QED  BY <1>2, <1>3, <1>4, <1>5

\* An approved plan becomes the children of the task that waits for them.
LEMMA ApprovingTreed ==
    ASSUME NEW d, Kept(d), Treed(d), NEW e, Typed(e), Approving(d, e)
    PROVE  Treed(e)
PROOF
  <1>1. PICK x \in Existing(d), selfOk \in BOOLEAN : \E i \in DOMAIN d.delegations[x] :
        LET row == d.delegations[x][i] IN
        /\ Undecided(d, x, i)
        /\ PreservesConstraints(d, x, row.plan)
        /\ Approves(d, e, x, row.plan, row.node, selfOk,
                    Decided(d.delegations[x], i, "approved"))
    BY DEF Approving
  <1>2. PICK i \in DOMAIN d.delegations[x] :
        LET row == d.delegations[x][i] IN
        /\ Undecided(d, x, i)
        /\ PreservesConstraints(d, x, row.plan)
        /\ Approves(d, e, x, row.plan, row.node, selfOk,
                    Decided(d.delegations[x], i, "approved"))
    BY <1>1
  <1> DEFINE plan == d.delegations[x][i].plan
             by == d.delegations[x][i].node
             child(c) == TaskOf(d.task[x].problem, x, d.task[x].depth + 1,
                                plan[c - d.tasks], now, by, selfOk)
  <1>3. /\ Typed(d) /\ x \in Tasks /\ x # None
        /\ d.task[x].state = "awaiting_delegation_approval"
        /\ d.problem[d.task[x].problem].status = "active"
        /\ d.delegations[x][i].status = "proposed"
        /\ d.delegations[x] \in Seq(DelegationRow)
        /\ d.task[x].depth \in Nat
    <2>1. Typed(d) /\ d.task[x] \in TaskRow /\ x \in Tasks
      BY ExistingRow DEF Kept
    <2>2. d.task[x].depth \in Nat
      BY <2>1, SMT DEF TaskRow
    <2> QED  BY <1>2, <2>1, <2>2, DatabaseTables, NoneAssumption DEF Undecided, Typed
  <1>4. /\ Len(plan) \in Nat \ {0} /\ DOMAIN plan = 1 .. Len(plan)
        /\ \A j \in 1 .. Len(plan) : d.task[x].spec.cons \subseteq plan[j].cons
    BY <1>2, <1>3, StoredPlan DEF PreservesConstraints
  <1>5. /\ e.tasks = d.tasks + Len(plan)
        /\ e.problem = d.problem /\ e.credits = d.credits
        /\ SameTask(d.task[x], e.task[x]) /\ e.task[x].state = "waiting_children"
        /\ e.delegations[x] = Decided(d.delegations[x], i, "approved")
        /\ \A y \in Existing(d) \ {x} :
              e.task[y] = d.task[y] /\ e.delegations[y] = d.delegations[y]
        /\ \A c \in Existing(e) \ Existing(d) : e.task[c] = child(c) /\ e.delegations[c] = << >>
    BY <1>2 DEF Approves, SameMoney
  <1>6. \A c : /\ child(c).state = "open" /\ child(c).parent = x
               /\ child(c).problem = d.task[x].problem /\ child(c).depth = d.task[x].depth + 1
               /\ child(c).spec = plan[c - d.tasks]
    BY DEF TaskOf
  <1> HIDE DEF plan, by, child
  <1>7. /\ Existing(d) \subseteq Existing(e) /\ Existing(e) \subseteq Tasks
        /\ \A c \in Existing(e) \ Existing(d) :
              c - d.tasks \in 1 .. Len(plan) /\ \A y \in Existing(d) : y < c
        /\ \E c \in Existing(e) : c \notin Existing(d)
    <2>1. 1 \in 1 .. Len(plan)
      BY <1>4, SMT
    <2>2. Len(plan) \in Nat
      BY <1>4
    <2> QED  BY <1>3, <1>5, <2>1, <2>2, Numbered, ExistingTasks DEF Typed
  <1>8. \A y \in Existing(d) :
           /\ e.task[y].problem = d.task[y].problem /\ e.task[y].parent = d.task[y].parent
           /\ e.task[y].depth = d.task[y].depth /\ e.task[y].spec = d.task[y].spec
           /\ e.task[y].state = IF y = x THEN "waiting_children" ELSE d.task[y].state
           /\ d.task[y].parent # None => d.task[y].parent \in Existing(d)
    BY <1>3, <1>5 DEF SameTask, Typed, ReferencesOK
  <1>9. Linked(e)
    <2>1. ASSUME NEW y \in Existing(d), d.task[y].parent # None
          PROVE  /\ e.task[y].parent < y
                 /\ e.task[e.task[y].parent].problem = e.task[y].problem
                 /\ e.task[y].depth = e.task[e.task[y].parent].depth + 1
                 /\ e.task[e.task[y].parent].spec.cons \subseteq e.task[y].spec.cons
      BY <1>8, <2>1 DEF Treed, Linked
    <2>2. ASSUME NEW c \in Existing(e) \ Existing(d)
          PROVE  /\ e.task[c].parent < c
                 /\ e.task[e.task[c].parent].problem = e.task[c].problem
                 /\ e.task[c].depth = e.task[e.task[c].parent].depth + 1
                 /\ e.task[e.task[c].parent].spec.cons \subseteq e.task[c].spec.cons
      BY <1>4, <1>5, <1>6, <1>7, <1>8
    <2> QED  BY <1>8, <2>1, <2>2 DEF Linked
  <1>10. OneRoot(e)
    <2>1. \A c \in Existing(e) : e.task[c].parent = None => c \in Existing(d)
      BY <1>3, <1>5, <1>6
    <2> QED  BY <1>8, <2>1 DEF Treed, OneRoot
  <1>11. ShapeAt(d, x) /\ EndingAt(d, x)
    BY DEF Treed
  <1>12. /\ LastStatus(d.delegations[x]) = "proposed"
         /\ LastStatus(e.delegations[x]) = "approved" /\ Past(e.delegations[x])
    BY <1>3, <1>5, <1>11, DecidedLast DEF ShapeAt, Shape
  <1>13. ShapeAt(e, x) /\ EndingAt(e, x)
    <2>1. HasChild(e, x) /\ ~DoneBelow(e, x)
      <3>1. PICK c \in Existing(e) : c \notin Existing(d)
        BY <1>7
      <3>2. e.task[c].parent = x /\ e.task[c].state # "accepted"
        BY <1>5, <1>6, <3>1
      <3> QED  BY <3>2 DEF HasChild, DoneBelow
    <2>2. ShapeAt(e, x)
      BY <1>8, <1>11, <1>12, <2>1 DEF ShapeAt, Shape
    <2> QED  BY <1>3, <1>5, <1>8, <1>11, <2>2 DEF EndingAt, Ending, TerminalStatus
  <1>14. ASSUME NEW y \in Existing(d) \ {x}
         PROVE  ShapeAt(e, y) /\ EndingAt(e, y)
    <2>1. ShapeAt(d, y) /\ EndingAt(d, y) /\ e.task[y] = d.task[y]
      BY <1>5 DEF Treed
    <2>2. \A c \in Existing(e) : e.task[c].parent = y => c \in Existing(d)
      BY <1>5, <1>6
    <2>3. \A c \in Existing(d) : /\ e.task[c].parent = d.task[c].parent
                                 /\ e.task[c].state = "accepted" <=> d.task[c].state = "accepted"
      BY <1>3, <1>8
    <2>4. HasChild(e, y) = HasChild(d, y) /\ DoneBelow(e, y) = DoneBelow(d, y)
      BY <1>7, <2>2, <2>3 DEF HasChild, DoneBelow
    <2> QED  BY <1>5, <2>1, <2>4 DEF ShapeAt, EndingAt
  <1>15. ASSUME NEW c \in Existing(e) \ Existing(d)
         PROVE  ShapeAt(e, c) /\ EndingAt(e, c)
    <2>1. \A k \in Existing(e) : e.task[k].parent # c
      BY <1>5, <1>6, <1>7, <1>8, NoneAssumption
    <2>2. ~HasChild(e, c) /\ DoneBelow(e, c)
      BY <2>1 DEF HasChild, DoneBelow
    <2>3. LastStatus(<< >>) = "rejected" /\ Past(<< >>)
      BY SMT DEF LastStatus, Past
    <2>4. d.credits[c] = 0
      BY <1>7 DEF Treed
    <2>5. d.task[x].depth + 1 <= MaxDepth
      <3>1. d.task[x].depth < MaxDepth /\ MaxDepth \in Nat
        BY <1>3, <1>11, ConfigAssumption DEF ShapeAt, Shape
      <3> QED  BY <1>3, <3>1, SMT
    <2>6. ShapeAt(e, c)
      BY <1>5, <1>6, <2>2, <2>3, <2>5 DEF ShapeAt, Shape
    <2>7. EndingAt(e, c)
      BY <1>3, <1>5, <1>6, <2>4 DEF EndingAt, Ending, TerminalStatus
    <2> QED  BY <2>6, <2>7
  <1>16. \A c \in Tasks \ Existing(e) : e.credits[c] = 0
    BY <1>5, <1>7 DEF Treed
  <1> QED  BY <1>9, <1>10, <1>13, <1>14, <1>15, <1>16 DEF Treed

\* A set of natural numbers that has an element has a least one.
LEMMA Smallest ==
    ASSUME NEW T \in SUBSET Nat, T # {}
    PROVE  \E x \in T : \A y \in T : x <= y
PROOF
  <1> DEFINE below == {1 .. x : x \in T}
  <1>1. PICK s \in below : \A t \in below : <<t, s>> \notin StrictSubsetOrdering(Nat)
    <2>1. \A x \in T : 1 .. x \in FiniteSubsetsOf(Nat)
      <3> TAKE x \in T
      <3>1. IsFiniteSet(1 .. x)
        BY FS_Interval, SMT
      <3>2. 1 .. x \in SUBSET Nat
        BY SMT
      <3> QED  BY <3>1, <3>2 DEF FiniteSubsetsOf
    <2>2. below \subseteq FiniteSubsetsOf(Nat) /\ below # {}
      BY <2>1
    <2>3. IsWellFoundedOn(StrictSubsetOrdering(Nat), FiniteSubsetsOf(Nat))
      BY FS_StrictSubsetOrderingWellFounded
    <2> HIDE DEF below
    <2> QED  BY <2>2, <2>3, WFMin
  <1>2. PICK x \in T : s = 1 .. x
    OBVIOUS
  <1>3. ASSUME NEW y \in T, y < x
        PROVE  <<1 .. y, 1 .. x>> \in StrictSubsetOrdering(Nat)
    <2>1. 1 .. y \subseteq Nat /\ 1 .. x \subseteq Nat /\ 1 .. y \subseteq 1 .. x
      BY <1>3, SMT
    <2>2. x \in 1 .. x /\ x \notin 1 .. y
      BY <1>3, SMT
    <2> QED  BY <2>1, <2>2 DEF StrictSubsetOrdering
  <1>4. \A y \in T : ~(y < x)
    BY <1>1, <1>2, <1>3
  <1> QED  BY <1>4, SMT

\* When everything below the root of a problem is accepted that has to be for
\* the root to pass, nothing else of the problem is left: take the first task
\* that is not accepted, and its parent.
LEMMA RootLast ==
    ASSUME NEW d, Typed(d), Treed(d), NEW x \in Existing(d), d.task[x].parent = None,
           d.task[x].state \in {"open", "leased", "accepted"}
    PROVE  OthersAccepted(d, x, d.task[x].problem)
PROOF
  <1> DEFINE left == {c \in Existing(d) \ {x} : /\ d.task[c].problem = d.task[x].problem
                                                /\ d.task[c].state # "accepted"}
  <1>1. ASSUME left # {}
        PROVE  FALSE
    <2>1. left \in SUBSET Nat
      BY SMT DEF Existing
    <2> HIDE DEF left
    <2>2. PICK c \in left : \A k \in left : c <= k
      BY <1>1, <2>1, Smallest
    <2>3. /\ c \in Existing(d) /\ c # x /\ d.task[c].problem = d.task[x].problem
          /\ d.task[c].state # "accepted"
      BY <2>2 DEF left
    <2>4. d.task[c].parent # None
      BY <2>3 DEF Treed, OneRoot
    <2> DEFINE k == d.task[c].parent
    <2>5. /\ k \in Existing(d) /\ k < c /\ d.task[k].problem = d.task[c].problem
      BY <2>3, <2>4 DEF Treed, Linked, Typed, ReferencesOK
    <2>6. k \notin left
      <3>1. k \in Nat /\ c \in Nat
        BY <2>3, <2>5, SMT DEF Existing
      <3> HIDE DEF k
      <3> QED  BY <2>2, <2>5, <3>1, SMT
    <2>7. d.task[k].state \in {"open", "leased", "accepted"}
      BY <2>3, <2>5, <2>6 DEF left
    <2>8. DoneBelow(d, k)
      BY <2>5, <2>7 DEF Treed, ShapeAt, Shape
    <2> QED  BY <2>3, <2>8 DEF DoneBelow
  <1> QED  BY <1>1 DEF OthersAccepted

\* A passed result may be the last one its parent, or its problem, waits for.
LEMMA PassingTreed ==
    ASSUME NEW d, Kept(d), Treed(d), NEW e, Passing(d, e)
    PROVE  Treed(e)
PROOF
  <1>1. PICK n \in Nodes, r \in Requests, x \in Existing(d) :
           LiveLease(d, n, r, x) /\ Passes(d, e, n, x)
    BY DEF Passing
  <1> DEFINE p == d.task[x].problem
             done == OthersAccepted(d, x, p)
  <1>2. /\ Typed(d) /\ d.task[x].state = "leased" /\ d.problem[p].status = "active"
        /\ p \in Problems /\ x \in Tasks
        /\ \A c \in Existing(d) : d.task[c].problem \in Problems
    BY <1>1, ExistingRow DEF LiveLease, Kept
  <1>3. /\ e.tasks = d.tasks /\ e.delegations = d.delegations
        /\ SameTask(d.task[x], e.task[x]) /\ e.task[x].state = "accepted"
        /\ e.credits = [d.credits EXCEPT ![x] = d.credits[x] + 1]
        /\ \A q \in Problems \ {p} : e.problem[q] = d.problem[q]
        /\ e.problem[p] = IF done THEN [d.problem[p] EXCEPT !.status = "completed"]
                          ELSE d.problem[p]
    BY <1>1 DEF Passes
  <1>4. \A c \in Existing(d) \ {x} :
           IF Reopened(d, x, c)
           THEN SameTask(d.task[c], e.task[c]) /\ e.task[c].state = "open"
           ELSE e.task[c] = d.task[c]
    BY <1>1 DEF Passes
  <1>5. SameTree(d, e)
    BY <1>3, <1>4 DEF SameTree, SameTask
  <1>6. /\ Existing(e) = Existing(d) /\ Linked(e) /\ OneRoot(e)
        /\ \A c : HasChild(e, c) <=> HasChild(d, c)
    BY <1>2, <1>5, SameTreeKeeps DEF Treed
  <1>7. e.problem[p].status = IF done THEN "completed" ELSE "active"
    <2>1. \A row \in ProblemRow : [row EXCEPT !.status = "completed"].status = "completed"
      BY SMT DEF ProblemRow
    <2>2. d.problem[p] \in ProblemRow
      BY <1>2, DatabaseTables DEF Typed
    <2> HIDE DEF p, done
    <2> QED  BY <1>2, <1>3, <2>1, <2>2
  <1>8. \A c \in Existing(d) \ {x} :
           e.task[c].state = "accepted" <=> d.task[c].state = "accepted"
    BY <1>4 DEF Reopened
  <1>9. \A c \in Existing(d) : e.task[c].parent = d.task[c].parent
                               /\ e.task[c].problem = d.task[c].problem
    BY <1>5 DEF SameTree, SameTask
  <1>10. d.task[x].parent # x /\ (d.task[x].parent # None => d.task[x].parent \in Existing(d))
    <2>1. d.task[x].parent # None => d.task[x].parent < x /\ d.task[x].parent \in Existing(d)
      BY <1>2 DEF Treed, Linked, Typed, ReferencesOK
    <2>2. x \in Nat /\ x # None
      BY <1>2, NoneAssumption, SMT DEF Existing
    <2>3. \A m \in Nat : ~(m < m)
      BY SMT
    <2> QED  BY <2>1, <2>2, <2>3
  <1>11. \A c : DoneBelow(e, c) <=> IF c = d.task[x].parent THEN SiblingsAccepted(d, x, c)
                                    ELSE DoneBelow(d, c)
    <2> TAKE c
    <2>1. CASE c = d.task[x].parent
      BY <1>3, <1>6, <1>8, <1>9, <2>1 DEF DoneBelow, SiblingsAccepted
    <2>2. CASE c # d.task[x].parent
      BY <1>6, <1>8, <1>9, <2>2 DEF DoneBelow
    <2> QED  BY <2>1, <2>2
  <1>12. d.credits \in [Tasks -> Nat]
    BY <1>2, SMT DEF Typed, Database
  <1>13. ShapeAt(d, x) /\ EndingAt(d, x)
    BY DEF Treed
  <1>14. ShapeAt(e, x)
    <2>1. DoneBelow(e, x) /\ HasChild(e, x) = HasChild(d, x)
      BY <1>2, <1>6, <1>10, <1>11, <1>13 DEF ShapeAt, Shape, HasChild
    <2> QED  BY <1>2, <1>3, <1>13, <2>1 DEF ShapeAt, Shape, SameTask
  <1>15. EndingAt(e, x)
    <2>1. e.credits[x] = 1
      <3>1. d.credits[x] = 0
        BY <1>2, <1>13 DEF EndingAt, Ending
      <3> QED  BY <1>2, <1>3, <1>12, <3>1
    <2>2. d.task[x].parent = None => done
      BY <1>2, RootLast
    <2> QED  BY <1>3, <1>7, <1>9, <2>1, <2>2 DEF EndingAt, Ending
  <1>16. ASSUME NEW c \in Existing(d) \ {x}
         PROVE  ShapeAt(e, c)
    <2>1. ShapeAt(d, c) /\ HasChild(e, c) = HasChild(d, c) /\ e.delegations = d.delegations
      BY <1>3, <1>6 DEF Treed, HasChild
    <2>2. CASE c = d.task[x].parent
      <3>1. ~DoneBelow(d, c)
        BY <1>2, <2>2 DEF DoneBelow
      <3>2. DoneBelow(e, c) <=> SiblingsAccepted(d, x, c)
        BY <1>11, <2>2
      <3>3. CASE Reopened(d, x, c)
        <4>1. /\ SameTask(d.task[c], e.task[c]) /\ e.task[c].state = "open"
              /\ d.task[c].state = "waiting_children" /\ DoneBelow(e, c)
          BY <1>4, <3>2, <3>3 DEF Reopened
        <4> QED  BY <2>1, <4>1 DEF ShapeAt, Shape, SameTask
      <3>4. CASE ~Reopened(d, x, c)
        <4>1. /\ e.task[c] = d.task[c]
              /\ d.task[c].state = "waiting_children" => ~DoneBelow(e, c)
          BY <1>4, <2>2, <3>2, <3>4 DEF Reopened
        <4> QED  BY <2>1, <3>1, <4>1 DEF ShapeAt, Shape
      <3> QED  BY <3>3, <3>4
    <2>3. CASE c # d.task[x].parent
      <3>1. e.task[c] = d.task[c] /\ DoneBelow(e, c) = DoneBelow(d, c)
        BY <1>4, <1>11, <2>3 DEF Reopened, DoneBelow
      <3> QED  BY <2>1, <3>1 DEF ShapeAt
    <2> QED  BY <2>2, <2>3
  <1>17. ASSUME NEW c \in Existing(d) \ {x}
         PROVE  EndingAt(e, c)
    <2>1. EndingAt(d, c) /\ e.credits[c] = d.credits[c]
      BY <1>2, <1>3, <1>12 DEF Treed
    <2>2. e.task[c].problem = d.task[c].problem /\ e.task[c].parent = d.task[c].parent
      BY <1>9
    <2>3. CASE d.task[c].problem = p
      <3>1. done => e.task[c].state = "accepted"
        BY <1>8, <2>3 DEF OthersAccepted
      <3>2. d.task[c].parent = None => d.task[c].state # "accepted"
        BY <1>2, <2>1, <2>3 DEF EndingAt, Ending
      <3>3. e.problem[e.task[c].problem].status = IF done THEN "completed" ELSE "active"
        BY <1>7, <2>2, <2>3
      <3>4. d.credits[c] = IF e.task[c].state = "accepted" THEN 1 ELSE 0
        BY <1>8, <2>1 DEF EndingAt, Ending
      <3> HIDE DEF p, done
      <3> QED  BY <1>8, <2>1, <2>2, <3>1, <3>2, <3>3, <3>4 DEF EndingAt, Ending, TerminalStatus
    <2>4. CASE d.task[c].problem # p
      <3>1. e.problem[e.task[c].problem] = d.problem[d.task[c].problem]
        BY <1>2, <1>3, <2>2, <2>4
      <3>2. CASE Reopened(d, x, c)
        <4>1. d.task[c].state = "waiting_children" /\ e.task[c].state = "open"
          BY <1>4, <3>2 DEF Reopened
        <4> QED  BY <2>1, <2>2, <3>1, <4>1 DEF EndingAt, Ending
      <3>3. CASE ~Reopened(d, x, c)
        BY <1>4, <2>1, <3>1, <3>3 DEF EndingAt
      <3> QED  BY <3>2, <3>3
    <2> QED  BY <2>3, <2>4
  <1>18. \A c \in Tasks \ Existing(e) : e.credits[c] = 0
    <2>1. \A c \in Tasks \ Existing(d) : c # x /\ d.credits[c] = 0
      BY DEF Treed
    <2> QED  BY <1>3, <1>6, <1>12, <2>1
  <1> QED  BY <1>6, <1>14, <1>15, <1>16, <1>17, <1>18 DEF Treed

\* Every move keeps the tree.
LEMMA MoveTreed ==
    ASSUME NEW d, Grown(d), NEW e, Kept(e), Move(d, e)
    PROVE  Grown(e)
PROOF
  <1>1. Kept(d) /\ Treed(d) /\ Typed(e)
    BY DEF Grown, Kept
  <1> QED  BY <1>1, ClosingTreed, LapsingTreed, LeasingTreed, ProposingTreed, RejectingTreed,
              ApprovingTreed, PassingTreed, InsertingTreed, OfferingTreed DEF Move, Grown

-----------------------------------------------------------------------------
(* Every operation is a sequence of moves *)

\* What a handler works on: due problems close, overdue leases lapse, and the
\* problems of the lapsed last attempts close.
Sweeps(d, e) ==
    \E d1, d2 : /\ Grown(d1) /\ Grown(d2)
                /\ Closing(d, d1) /\ Lapsing(d1, d2) /\ Closing(d2, e)

\* What it does then: nothing, one move, or recording a rejected last attempt.
Handles(d, e) ==
    \/ e = d
    \/ Move(d, e)
    \/ \E d1 : Grown(d1) /\ Lapsing(d, d1) /\ Closing(d1, e)

\* _terminate_problem is the move that closes its problems.
LEMMA TerminatedMove ==
    ASSUME NEW d, Grown(d), NEW P \in SUBSET Problems, NEW status \in Closed,
           \A p \in P : d.problem[p].status = "active",
           status = "blocked" => Hopeless(d, P)
    PROVE  Closing(d, Terminated(d, P, status)) /\ Grown(Terminated(d, P, status))
PROOF
  <1> DEFINE e == Terminated(d, P, status)
  <1>1. Closing(d, e)
    <2>1. Ends(d, e, P, status)
      BY TerminatedEnds DEF Grown, Kept
    <2> HIDE DEF e
    <2> QED  BY <2>1 DEF Closing
  <1>2. Kept(e)
    BY TerminatedKeeps DEF Grown, Closed
  <1> HIDE DEF e
  <1>3. Grown(e)
    BY <1>1, <1>2, MoveTreed DEF Move
  <1> QED  BY <1>1, <1>3 DEF e

\* Recording the timeouts of overdue leases is the move that frees their tasks.
LEMMA TimedOutMove ==
    ASSUME NEW d, Grown(d), NEW R \in SUBSET InState(d, "leased")
    PROVE  Lapsing(d, TimedOut(d, R)) /\ Grown(TimedOut(d, R))
PROOF
  <1> DEFINE e == TimedOut(d, R)
  <1>1. Lapsing(d, e)
    <2>1. Frees(d, e, R)
      BY TimedOutFrees DEF Grown, Kept
    <2> HIDE DEF e
    <2> QED  BY <2>1 DEF Lapsing
  <1>2. Kept(e)
    BY TimedOutKeeps DEF Grown
  <1> HIDE DEF e
  <1>3. Grown(e)
    BY <1>1, <1>2, MoveTreed DEF Move
  <1> QED  BY <1>1, <1>3 DEF e

\* An expiry is three moves.
LEMMA SweptMoves ==
    ASSUME NEW d, Grown(d), NEW t, NEW e \in Swept(d, t)
    PROVE  Sweeps(d, e) /\ Grown(e)
PROOF
  <1> DEFINE d1 == ProblemsExpired(d, t)
  <1>1. Closing(d, d1) /\ Grown(d1)
    BY TerminatedMove DEF ProblemsExpired, DueProblems, Closed, TerminalStatus
  <1> HIDE DEF d1
  <1>2. PICK R \in TimeoutChoices(d1, t) :
           e = Terminated(TimedOut(d1, R),
                          {d1.task[x].problem : x \in {y \in R : Final(d1, y)}}, "blocked")
    BY DEF Swept, LeasesExpired, d1
  <1>3. R \in SUBSET InState(d1, "leased")
    BY DEF TimeoutChoices, Overdue
  <1> DEFINE d2 == TimedOut(d1, R)
             P == {d1.task[x].problem : x \in {y \in R : Final(d1, y)}}
  <1>4. Lapsing(d1, d2) /\ Grown(d2)
    BY <1>1, <1>3, TimedOutMove
  <1>5. d2.problem = d1.problem
    BY <1>1, SMT DEF TimedOut, Grown, Kept, Typed, Database
  <1>6. P \in SUBSET Problems /\ \A p \in P : d2.problem[p].status = "active"
    <2>1. \A x \in R : x \in Existing(d1) /\ d1.task[x].state = "leased"
      BY <1>3 DEF InState
    <2>2. \A x \in R : /\ d1.task[x].problem \in Problems
                       /\ d1.problem[d1.task[x].problem].status = "active"
      BY <1>1, <2>1, ActiveWork DEF Grown, Kept
    <2> QED  BY <1>5, <2>2
  <1>7. Hopeless(d2, P)
    <2> SUFFICES ASSUME NEW x \in R, Final(d1, x)
                 PROVE  \E y \in Of(d2, d1.task[x].problem) : d2.task[y].state = "failed"
      BY DEF Hopeless
    <2>1. x \in Existing(d1) /\ d1 \in Database /\ x \in Tasks /\ d1.task[x] \in TaskRow
      BY <1>1, <1>3, ExistingRow DEF InState, Grown, Kept, Typed
    <2>2. /\ d2.tasks = d1.tasks
          /\ d2.task[x] = [d1.task[x] EXCEPT !.state = "failed", !.lease = None]
      BY <2>1, SMT DEF TimedOut, Database
    <2>3. d2.task[x].state = "failed" /\ d2.task[x].problem = d1.task[x].problem
      BY <2>1, <2>2, SMT DEF TaskRow
    <2>4. x \in Existing(d2)
      BY <2>1, <2>2 DEF Existing
    <2> QED  BY <2>3, <2>4 DEF Of
  <1> HIDE DEF d2, P
  <1>8. Closing(d2, e) /\ Grown(e)
    BY <1>2, <1>4, <1>6, <1>7, TerminatedMove DEF d2, P, Closed, TerminalStatus
  <1> QED  BY <1>1, <1>4, <1>8 DEF Sweeps

\* A live lease is of a task of an active problem.
LEMMA SubmittedMove ==
    ASSUME NEW d, Grown(d), NEW n \in Nodes, NEW r \in Requests, NEW x \in Existing(d),
           LiveLease(d, n, r, x), NEW sid \in SubmissionIds, NEW outcome \in Outcome
    PROVE  /\ Handles(d, Submitted(d, n, x, sid, outcome))
           /\ outcome = "pass" => /\ Passes(d, Submitted(d, n, x, sid, outcome), n, x)
                                  /\ Passing(d, Submitted(d, n, x, sid, outcome))
PROOF
  <1> DEFINE p == d.task[x].problem
             e == Submitted(d, n, x, sid, outcome)
             stored == Recorded(d, n, x, sid, "reject")
  <1>1. /\ x \in InState(d, "leased") /\ d.problem[p].status = "active" /\ Typed(d)
        /\ d.task[x].lease.node = n /\ p \in Problems
    BY LiveLeaseRow, ExistingRow DEF LiveLease, Grown, Kept
  <1>2. CASE outcome = "pass"
    <2>1. Passes(d, e, n, x)
      BY <1>1, <1>2, SubmittedPasses
    <2> HIDE DEF e
    <2>2. Passing(d, e)
      BY <2>1 DEF Passing
    <2>3. Handles(d, e)
      BY <2>2 DEF Handles, Move
    <2> QED  BY <2>1, <2>2, <2>3 DEF e
  <1>3. CASE outcome = "reject"
    <2>1. Frees(d, stored, {x})
      BY <1>1, RecordedFrees
    <2>2. Kept(stored)
      BY RecordedKeeps DEF Grown, Outcome
    <2>3. e = IF Final(d, x) THEN Terminated(stored, {p}, "blocked") ELSE stored
      BY <1>3 DEF Submitted
    <2>4. stored.problem = d.problem
      BY <2>1 DEF Frees
    <2> HIDE DEF stored, e, p
    <2>5. Lapsing(d, stored)
      BY <1>1, <2>1 DEF Lapsing
    <2>6. Grown(stored)
      BY <2>2, <2>5, MoveTreed DEF Move
    <2>7. CASE Final(d, x)
      <3>1. e = Terminated(stored, {p}, "blocked")
        BY <2>3, <2>7
      <3>2. Closing(stored, e)
        <4>1. d.task[x] \in TaskRow /\ x \in Tasks /\ d \in Database
          BY <1>1, ExistingRow DEF Typed
        <4>2. /\ stored.tasks = d.tasks
              /\ stored.task[x] = [d.task[x] EXCEPT !.lease = None, !.state = "failed"]
          <5> DEFINE new == [node |-> n, sid |-> sid, outcome |-> "reject",
                             attempt |-> d.task[x].attempts, earned |-> 0]
                     row == [d.task[x] EXCEPT !.lease = None, !.state = "failed"]
          <5>1. stored = [d EXCEPT !.submissions[x] = Append(d.submissions[x], new),
                                   !.task[x] = row]
            BY <2>7 DEF stored, Recorded
          <5> HIDE DEF new, row
          <5>2. stored.tasks = d.tasks /\ stored.task = [d.task EXCEPT ![x] = row]
            BY <4>1, <5>1, SMT DEF Database
          <5>3. d.task \in [Tasks -> TaskRow]
            BY <4>1, DatabaseTables
          <5>4. stored.task[x] = row
            BY <4>1, <5>2, <5>3
          <5> QED  BY <5>2, <5>4 DEF row
        <4>3. stored.task[x].state = "failed" /\ stored.task[x].problem = p
          BY <4>1, <4>2, SMT DEF TaskRow, p
        <4>4. Hopeless(stored, {p})
          BY <4>2, <4>3 DEF Hopeless, Of, Existing
        <4> QED  BY <1>1, <2>4, <2>6, <3>1, <4>4, TerminatedMove DEF Closed, TerminalStatus
      <3> QED  BY <1>3, <2>5, <2>6, <3>2 DEF Handles, e
    <2>8. CASE ~Final(d, x)
      BY <1>3, <2>3, <2>5, <2>8 DEF Handles, Move, e
    <2> QED  BY <2>7, <2>8
  <1> QED  BY <1>2, <1>3 DEF Outcome

\* A handler's whole step: what it works on, and what it does to it.
LEMMA NextMoves ==
    ASSUME TypeOK, Grown(db), [Next]_vars
    PROVE  /\ Kept(db')
           /\ \E d : /\ Grown(d) /\ (d = db \/ Sweeps(db, d))
                     /\ Handles(d, db')
PROOF
  <1>1. Typed(db) /\ now \in Nat /\ Kept(db)
    BY TimeAssumption, SMT DEF TypeOK, Typed, Grown
  <1>2. Kept(db')
    BY <1>1, KeptStep
  <1>3. \A d \in Swept(db, now) : Sweeps(db, d) /\ Grown(d) /\ Kept(d) /\ Typed(d)
    BY SweptMoves DEF Grown, Kept
  <1>4. \A n \in Nodes, r \in Requests :
           db.requests[n][r] # None => db.requests[n][r].task \in Existing(db)
    BY <1>1 DEF Typed, ReferencesOK
  <1> DEFINE Goal == \E d : /\ Grown(d) /\ (d = db \/ Sweeps(db, d))
                            /\ Handles(d, db')
  <1>5. ASSUME NEW n \in Nodes, NEW c \in Caps, PublishOffering(n, c) \/ ApproveOffering(n, c)
        PROVE  Goal
    <2>1. PICK status \in {"none", "pending", "active"} :
             /\ db' = [db EXCEPT !.offering[n][c] = status]
             /\ db.offering[n][c] = "active" => status = "active"
      BY <1>5 DEF PublishOffering, ApproveOffering
    <2>2. /\ db \in Database
          /\ db.offering \in [Nodes -> [Caps -> {"none", "pending", "active"}]]
      BY <1>1, DatabaseTables DEF Typed
    <2>3. db' = [db EXCEPT !.offering = db'.offering]
      BY <2>1, <2>2, SMT DEF Database
    <2>4. db'.offering = [db.offering EXCEPT ![n][c] = status]
      BY <2>1, <2>2, SMT DEF Database
    <2>5. \A m \in Nodes, k \in Caps :
             db.offering[m][k] = "active" => db'.offering[m][k] = "active"
      BY <2>1, <2>2, <2>4
    <2>6. Offering(db, db')
      BY <2>3, <2>5 DEF Offering
    <2> QED  BY <2>6 DEF Handles, Move
  <1>6. ASSUME NEW p \in Problems, NEW b \in Bodies, CreateProblem(p, b)
        PROVE  Goal
    <2>1. Inserts(db, db', p, b) /\ b \in ProblemRequest
      BY <1>1, <1>6, InsertedInserts, BodiesAssumption DEF CreateProblem, Insertable
    <2>2. Inserting(db, db')
      BY <1>6, <2>1 DEF Inserting, CreateProblem
    <2> QED  BY <2>2 DEF Handles, Move
  <1>7. ASSUME NEW p \in Problems, CancelProblem(p)
        PROVE  Goal
    <2>1. Closing(db, db')
      BY <1>7, TerminatedMove DEF CancelProblem, Closed, TerminalStatus
    <2> QED  BY <2>1 DEF Handles, Move
  <1>8. ASSUME Reap
        PROVE  Goal
    BY <1>3, <1>8 DEF Reap, Handles
  <1>9. ASSUME ExpireDueProblems
        PROVE  Goal
    <2>1. Closing(db, db')
      BY <1>9, TerminatedMove
         DEF ExpireDueProblems, ProblemsExpired, DueProblems, Closed, TerminalStatus
    <2> QED  BY <2>1 DEF Handles, Move
  <1>10. ASSUME NEW n \in Nodes, NEW r \in Requests, LeaseWork(n, r)
         PROVE  Goal
    <2>1. PICK d \in Swept(db, now) :
             \/ db' = d
             \/ /\ d.requests[n][r] = None /\ ~AtLimit(d, n)
                /\ \E x \in Candidates(d, n) : db' = Leased(d, n, r, x)
      BY <1>10 DEF LeaseWork, Oldest
    <2>2. CASE db' = d
      BY <1>3, <2>2 DEF Handles
    <2>3. CASE /\ d.requests[n][r] = None /\ ~AtLimit(d, n)
               /\ \E x \in Candidates(d, n) : db' = Leased(d, n, r, x)
      <3>1. PICK x \in Candidates(d, n) : db' = Leased(d, n, r, x)
        BY <2>3
      <3>2. x \in Existing(d)
        BY DEF Candidates, InState
      <3>3. Gives(d, db', n, r, x)
        BY <1>3, <3>1, <3>2, LeasedGives
      <3>4. Leasing(d, db')
        BY <2>3, <3>3 DEF Leasing
      <3> QED  BY <1>3, <3>4 DEF Handles, Move
    <2> QED  BY <2>1, <2>2, <2>3
  <1>11. ASSUME NEW n \in Nodes, NEW r \in Requests, NEW key \in Keys, NEW plan \in Plans,
                DelegateChildren(n, r, key, plan)
         PROVE  Goal
    <2> DEFINE x == db.requests[n][r].task
               row == [node |-> n, key |-> key, plan |-> plan, status |-> "proposed"]
    <2>1. PICK d \in Swept(db, now) :
             \/ db' = d
             \/ /\ LiveLease(d, n, r, x) /\ d.task[x].depth < MaxDepth /\ Children(d, x) = {}
                /\ db' = Proposed(d, n, x, key, plan)
      BY <1>11 DEF DelegateChildren
    <2>2. x \in Existing(d)
      BY <1>1, <1>4, <1>11, SweptExisting DEF DelegateChildren
    <2> HIDE DEF x
    <2>3. CASE db' = d
      BY <1>3, <2>3 DEF Handles
    <2>4. CASE /\ LiveLease(d, n, r, x) /\ d.task[x].depth < MaxDepth /\ Children(d, x) = {}
               /\ db' = Proposed(d, n, x, key, plan)
      <3>1. Turns(d, db', x, "awaiting_delegation_approval", Append(d.delegations[x], row))
        BY <1>3, <2>2, <2>4, ProposedTurns
      <3>2. row \in DelegationRow /\ row.status = "proposed"
        BY SMT DEF DelegationRow, DelegationStatus
      <3>3. x \in InState(d, "leased")
        BY <1>3, <2>2, <2>4, LiveLeaseRow
      <3> HIDE DEF row
      <3>4. Proposing(d, db')
        BY <2>4, <3>1, <3>2, <3>3 DEF Proposing
      <3> QED  BY <1>3, <3>4 DEF Handles, Move
    <2> QED  BY <2>1, <2>3, <2>4
  <1>12. ASSUME NEW x \in Tasks, NEW i \in 1 .. MaxProposals, RejectDelegation(x, i)
         PROVE  Goal
    <2>1. PICK d \in Swept(db, now) :
             \/ db' = d
             \/ /\ Undecided(d, x, i)
                /\ db' = [d EXCEPT !.task[x] = [d.task[x] EXCEPT !.state = "open"],
                                   !.delegations[x] = Decided(d.delegations[x], i, "rejected")]
      BY <1>12 DEF RejectDelegation
    <2>2. CASE db' = d
      BY <1>3, <2>2 DEF Handles
    <2>3. CASE /\ Undecided(d, x, i)
               /\ db' = [d EXCEPT !.task[x] = [d.task[x] EXCEPT !.state = "open"],
                                  !.delegations[x] = Decided(d.delegations[x], i, "rejected")]
      <3>1. x \in Existing(d) /\ i \in DOMAIN d.delegations[x] /\ d.task[x].lease = None
        BY <1>3, <2>3, UndecidedRow DEF Typed, ReferencesOK
      <3>2. Turns(d, db', x, "open", Decided(d.delegations[x], i, "rejected"))
        BY <1>3, <2>3, <3>1, RejectedTurns
      <3>3. Rejecting(d, db')
        BY <2>3, <3>1, <3>2 DEF Rejecting
      <3> QED  BY <1>3, <3>3 DEF Handles, Move
    <2> QED  BY <2>1, <2>2, <2>3
  <1>13. ASSUME NEW x \in Tasks, NEW i \in 1 .. MaxProposals, NEW selfOk \in BOOLEAN,
                ApproveDelegation(x, i, selfOk)
         PROVE  Goal
    <2>1. PICK d \in Swept(db, now) :
             \/ db' = d
             \/ LET plan == d.delegations[x][i].plan IN
                /\ Undecided(d, x, i)
                /\ PreservesConstraints(d, x, plan)
                /\ PlanCost(plan) <= d.task[x].spec.budget
                /\ d.tasks + Len(plan) <= TaskPool
                /\ db' = Approved(d, x, i, selfOk)
      BY <1>13 DEF ApproveDelegation
    <2>2. CASE db' = d
      BY <1>3, <2>2 DEF Handles
    <2>3. CASE LET plan == d.delegations[x][i].plan IN
                /\ Undecided(d, x, i)
                /\ PreservesConstraints(d, x, plan)
                /\ PlanCost(plan) <= d.task[x].spec.budget
                /\ d.tasks + Len(plan) <= TaskPool
                /\ db' = Approved(d, x, i, selfOk)
      <3>1. x \in Existing(d) /\ i \in DOMAIN d.delegations[x] /\ d.task[x].lease = None
        BY <1>3, <2>3, UndecidedRow DEF Typed, ReferencesOK
      <3>2. Approves(d, db', x, d.delegations[x][i].plan, d.delegations[x][i].node, selfOk,
                     Decided(d.delegations[x], i, "approved"))
        BY <1>3, <2>3, <3>1, ApprovedApproves
      <3>3. Approving(d, db')
        BY <2>3, <3>1, <3>2 DEF Approving
      <3> QED  BY <1>3, <3>3 DEF Handles, Move
    <2> QED  BY <2>1, <2>2, <2>3
  <1>14. ASSUME NEW n \in Nodes, NEW r \in Requests, NEW sid \in SubmissionIds,
                NEW outcome \in Outcome, SubmitResult(n, r, sid, outcome)
         PROVE  Goal
    <2> DEFINE x == db.requests[n][r].task
    <2>1. PICK d \in Swept(db, now) :
             db' = d \/ (LiveLease(d, n, r, x) /\ db' = Submitted(d, n, x, sid, outcome))
      BY <1>14 DEF SubmitResult
    <2>2. x \in Existing(d)
      BY <1>1, <1>4, <1>14, <2>1, SweptExisting DEF SubmitResult
    <2> HIDE DEF x
    <2>3. CASE db' = d
      BY <1>3, <2>3 DEF Handles
    <2>4. CASE LiveLease(d, n, r, x) /\ db' = Submitted(d, n, x, sid, outcome)
      <3>1. Handles(d, db')
        BY <1>3, <2>2, <2>4, SubmittedMove
      <3> QED  BY <1>3, <3>1
    <2> QED  BY <2>1, <2>3, <2>4
  <1>15. ASSUME db' = db
         PROVE  Goal
    BY <1>15 DEF Handles
  <1> HIDE DEF Goal
  <1>16. ASSUME NEW f \in Fees, Restart(f) \/ Tick
         PROVE  Goal
    BY <1>15, <1>16 DEF Restart, Tick
  <1>17. ASSUME Tick
         PROVE  Goal
    BY <1>15, <1>17 DEF Tick
  <1>18. Next => Goal
    BY <1>5, <1>6, <1>7, <1>8, <1>9, <1>10, <1>11, <1>12, <1>13, <1>14, <1>16, <1>17, Zenon
       DEF Next
  <1>19. vars' = vars => db' = db
    BY DEF vars
  <1>20. Goal
    BY <1>15, <1>18, <1>19
  <1> QED  BY <1>2, <1>20 DEF Goal

-----------------------------------------------------------------------------
(* The tree of tasks is consistent *)

\* What a handler does keeps the tree.
LEMMA HandledGrown ==
    ASSUME NEW d, Grown(d), NEW e, Kept(e), Handles(d, e)
    PROVE  Grown(e)
PROOF BY MoveTreed DEF Handles, Move

\* So every step keeps the tree in shape,
LEMMA GrownStep ==
    ASSUME TypeOK, Grown(db), [Next]_vars
    PROVE  Grown(db')
PROOF
  <1>1. Kept(db') /\ \E d : Grown(d) /\ Handles(d, db')
    BY NextMoves
  <1> QED  BY <1>1, HandledGrown

\* A database without rows.
LEMMA GrownInit == Init => Grown(db)
PROOF
  <1> SUFFICES ASSUME Init PROVE Grown(db)
    OBVIOUS
  <1>1. Kept(db)
    BY KeptInit
  <1>2. Existing(db) = {}
    BY SMT DEF Init, EmptyDatabase, Existing
  <1>3. \A x \in Tasks : db.credits[x] = 0
    BY DEF Init, EmptyDatabase
  <1> QED  BY <1>1, <1>2, <1>3 DEF Grown, Treed, Linked, OneRoot

\* and it always is.
LEMMA GrownAlways == Spec => [](TypeOK /\ Grown(db))
PROOF
  <1>1. Init => TypeOK /\ Grown(db)
    BY TypeInit, GrownInit
  <1>2. TypeOK /\ Grown(db) /\ [Next]_vars => (TypeOK /\ Grown(db))'
    BY TypeStep, GrownStep
  <1> QED  BY <1>1, <1>2, PTL DEF Spec

\* A tree in shape is a consistent one.
LEMMA GrownConsistent ==
    ASSUME NEW d, Grown(d)
    PROVE  TreeConsistentOf(d)
PROOF
  <1> SUFFICES ASSUME NEW x \in Existing(d)
               PROVE  LET row == d.task[x]
                          sub == Children(d, x)
                          done == \A c \in sub : d.task[c].state = "accepted"
                          props == d.delegations[x]
                      IN  /\ row.parent # None =>
                               /\ row.parent < x
                               /\ d.task[row.parent].problem = row.problem
                               /\ row.depth = d.task[row.parent].depth + 1
                               /\ d.task[row.parent].spec.cons \subseteq row.spec.cons
                          /\ row.depth <= MaxDepth
                          /\ row.state = "waiting_children" => sub # {} /\ ~done
                          /\ row.state \in {"open", "leased", "accepted"} => done
                          /\ sub # {} <=> props # << >> /\ props[Len(props)].status = "approved"
                          /\ row.state = "awaiting_delegation_approval" <=>
                                props # << >> /\ props[Len(props)].status = "proposed"
                          /\ \A i \in 1 .. Len(props) - 1 : props[i].status = "rejected"
                          /\ row.parent = None =>
                                (row.state = "accepted"
                                   <=> d.problem[row.problem].status = "completed")
    BY DEF TreeConsistentOf
  <1>1. Linked(d) /\ ShapeAt(d, x) /\ EndingAt(d, x)
    BY DEF Grown, Treed
  <1>2. /\ Children(d, x) # {} <=> HasChild(d, x)
        /\ (\A c \in Children(d, x) : d.task[c].state = "accepted") <=> DoneBelow(d, x)
        /\ ~DoneBelow(d, x) => HasChild(d, x)
    BY DEF Children, HasChild, DoneBelow
  <1>3. LET props == d.delegations[x] IN
        /\ LastStatus(props) = "approved"
              <=> props # << >> /\ props[Len(props)].status = "approved"
        /\ LastStatus(props) = "proposed"
              <=> props # << >> /\ props[Len(props)].status = "proposed"
    BY DEF LastStatus
  <1> QED  BY <1>1, <1>2, <1>3 DEF Linked, ShapeAt, Shape, Past, EndingAt, Ending

\* Parents and children, proposals and problems fit together after every
\* interleaving of decisions, results, expiries and terminations (the guards of
\* approve_delegation and the refreshes that follow a passed result).
THEOREM TreeIsConsistent == Spec => []TreeConsistent
PROOF
  <1>1. Grown(db) => TreeConsistent
    BY GrownConsistent DEF TreeConsistent
  <1> QED  BY <1>1, GrownAlways, PTL

=============================================================================
