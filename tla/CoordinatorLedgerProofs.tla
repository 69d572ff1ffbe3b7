---------------------- MODULE CoordinatorLedgerProofs -----------------------
(***************************************************************************)
(* Leases, money and the ends of problems in Coordinator, the abstract     *)
(* specifications it implements, and reframing.                            *)
(*                                                                         *)
(* 1. Leases, ends and money.  What a move does to the leases that are out and *)
(*    to the order behind each problem; Sound is the inductive invariant.  *)
(* 2. Leases as their nodes see them: Coordinator implements LeaseLife.    *)
(* 3. Reframing.  A reframe is an insertion and a termination on a swept   *)
(*    database, so that everything above survives it; Standing adds what each *)
(*    reframe was decided on.                                              *)
(***************************************************************************)
EXTENDS CoordinatorProofs, Reframing

-----------------------------------------------------------------------------
(* Leases *)

\* A lease that is out, beside its problem, the offerings and the requests.
HonestAt(d, x) ==
    LET row == d.task[x]
        n == row.lease.node
    IN  /\ row.lease.until <= d.problem[row.problem].deadline
        /\ d.offering[n][row.spec.cap] = "active"
        /\ row.by = n => row.selfOk
        /\ d.requests[n][row.lease.request] # None
        /\ d.requests[n][row.lease.request].task = x

Honest(d) ==
    /\ \A n \in Nodes : Cardinality(InFlight(d, n)) <= MaxInflight
    /\ \A x \in InState(d, "leased") : HonestAt(d, x)

\* No lease is new, and what the old ones rest on is still there.
Shrinks(d, e) ==
    /\ e.requests = d.requests
    /\ \A n \in Nodes, c \in Caps : d.offering[n][c] = "active" => e.offering[n][c] = "active"
    /\ \A x \in InState(e, "leased") :
          /\ x \in InState(d, "leased") /\ e.task[x] = d.task[x]
          /\ e.problem[d.task[x].problem].deadline = d.problem[d.task[x].problem].deadline

\* The tasks in flight are finitely many.
LEMMA InFlightFinite ==
    ASSUME NEW d, Typed(d), NEW n
    PROVE  IsFiniteSet(InFlight(d, n)) /\ Cardinality(InFlight(d, n)) \in Nat
PROOF
  <1>1. IsFiniteSet(1 .. d.tasks)
    BY DatabaseTables, FS_Interval, PoolAssumption, SMT DEF Typed
  <1>2. InFlight(d, n) \subseteq 1 .. d.tasks
    BY DEF InFlight, InState, Existing
  <1>3. IsFiniteSet(InFlight(d, n))
    BY <1>1, <1>2, FS_Subset
  <1> QED  BY <1>3, FS_CardinalityType

\* Taking leases away keeps them honest.
LEMMA ShrinksHonest ==
    ASSUME NEW d, Grown(d), NEW e, Grown(e), Honest(d), Shrinks(d, e)
    PROVE  Honest(e)
PROOF
  <1>1. Typed(d) /\ Typed(e)
    BY DEF Grown, Kept
  <1>2. ASSUME NEW n \in Nodes
        PROVE  Cardinality(InFlight(e, n)) <= MaxInflight
    <2>1. InFlight(e, n) \subseteq InFlight(d, n)
      BY DEF Shrinks, InFlight
    <2>2. Cardinality(InFlight(e, n)) <= Cardinality(InFlight(d, n))
      BY <1>1, <2>1, InFlightFinite, FS_Subset
    <2>3. /\ Cardinality(InFlight(e, n)) \in Nat /\ Cardinality(InFlight(d, n)) \in Nat
          /\ Cardinality(InFlight(d, n)) <= MaxInflight
      BY <1>1, InFlightFinite DEF Honest
    <2> QED  BY <2>2, <2>3, ConfigAssumption, SMT
  <1>3. ASSUME NEW x \in InState(e, "leased")
        PROVE  HonestAt(e, x)
    <2>1. HonestAt(d, x) /\ x \in InState(d, "leased") /\ e.task[x] = d.task[x]
      BY DEF Honest, Shrinks
    <2>2. d.task[x].lease.node \in Nodes /\ d.task[x].spec.cap \in Caps
      <3>1. d.task[x].lease \in LeaseRow /\ d.task[x].spec \in Specs
        BY <1>1, <2>1, LeasedRow
      <3>2. \A lease \in LeaseRow : lease.node \in Nodes
        BY SMT DEF LeaseRow
      <3> QED  BY <3>1, <3>2, SpecFields
    <2>3. /\ e.requests = d.requests
          /\ e.problem[d.task[x].problem].deadline = d.problem[d.task[x].problem].deadline
          /\ d.offering[d.task[x].lease.node][d.task[x].spec.cap] = "active"
                => e.offering[d.task[x].lease.node][d.task[x].spec.cap] = "active"
      BY <2>2 DEF Shrinks
    <2> QED  BY <2>1, <2>3 DEF HonestAt
  <1> QED  BY <1>2, <1>3 DEF Honest

\* The moves but leasing.
OtherMove(d, e) ==
    \/ Closing(d, e) \/ Lapsing(d, e) \/ Proposing(d, e) \/ Rejecting(d, e)
    \/ Approving(d, e) \/ Passing(d, e) \/ Inserting(d, e) \/ Offering(d, e)

\* Only lease_work leases.
LEMMA MoveShrinks ==
    ASSUME NEW d, Grown(d), NEW e, Grown(e), OtherMove(d, e)
    PROVE  Shrinks(d, e)
PROOF
  <1>1. Typed(d) /\ Typed(e) /\ Kept(d)
    BY DEF Grown, Kept
  <1>2. \A x \in InState(d, "leased") : /\ d.task[x].problem \in Problems
                                        /\ d.problem[d.task[x].problem].status = "active"
    BY <1>1, ActiveWork DEF Grown, InState
  <1> DEFINE Stays == /\ e.requests = d.requests /\ e.offering = d.offering
                      /\ \A x \in InState(e, "leased") :
                            x \in InState(d, "leased") /\ e.task[x] = d.task[x]
  <1>3. ASSUME Stays, e.problem = d.problem
        PROVE  Shrinks(d, e)
    BY <1>3 DEF Shrinks
  <1>4. CASE Closing(d, e)
    <2>1. PICK P \in SUBSET Problems, status \in Closed : Ends(d, e, P, status)
      BY <1>4 DEF Closing
    <2>2. Stays
      BY <2>1 DEF Ends, InState, Existing
    <2>3. \A p \in Problems : e.problem[p].deadline = d.problem[p].deadline
      <3>1. \A row \in ProblemRow : [row EXCEPT !.status = status].deadline = row.deadline
        BY SMT DEF ProblemRow
      <3>2. \A p \in Problems : d.problem[p] \in ProblemRow
        BY <1>1, DatabaseTables DEF Typed
      <3> QED  BY <2>1, <3>1, <3>2 DEF Ends
    <2> QED  BY <1>2, <2>2, <2>3 DEF Shrinks
  <1>5. CASE Lapsing(d, e)
    <2>1. PICK R \in SUBSET InState(d, "leased") : Frees(d, e, R)
      BY <1>5 DEF Lapsing
    <2>2. \A x \in InState(e, "leased") : x \in Existing(d) \ R
      BY <2>1 DEF Frees, InState, Existing
    <2>3. Stays /\ e.problem = d.problem
      BY <2>1, <2>2 DEF Frees, InState
    <2> QED  BY <1>3, <2>3
  <1>6. ASSUME NEW x \in Existing(d), NEW s \in TaskState \ {"leased"}, NEW rows,
               Turns(d, e, x, s, rows)
        PROVE  Shrinks(d, e)
    <2>1. \A y \in InState(e, "leased") : y \in Existing(d) \ {x}
      BY <1>6 DEF Turns, InState, Existing
    <2>2. Stays /\ e.problem = d.problem
      BY <1>6, <2>1 DEF Turns, InState
    <2> QED  BY <1>3, <2>2
  <1>7. CASE Proposing(d, e)
    BY <1>6, <1>7 DEF Proposing, InState, TaskState
  <1>8. CASE Rejecting(d, e)
    BY <1>6, <1>8 DEF Rejecting, TaskState
  <1>9. CASE Approving(d, e)
    <2>0. PICK x \in Existing(d) :
             \E plan, by, selfOk, rows : Approves(d, e, x, plan, by, selfOk, rows)
      BY <1>9 DEF Approving
    <2>1. PICK plan, by, selfOk, rows : Approves(d, e, x, plan, by, selfOk, rows)
      BY <2>0
    <2>2. \A y \in InState(e, "leased") : y \in Existing(d) \ {x}
      <3>1. \A c \in Existing(e) \ Existing(d) : e.task[c].state = "open"
        <4>1. \A p, parent, depth, spec, t, b, ok :
                 TaskOf(p, parent, depth, spec, t, b, ok).state = "open"
          BY DEF TaskOf
        <4> QED  BY <2>1, <4>1 DEF Approves
      <3>2. e.task[x].state = "waiting_children"
        BY <2>1 DEF Approves
      <3>3. ASSUME NEW y \in InState(e, "leased")
            PROVE  y \in Existing(d) \ {x}
        <4>1. y \in Existing(e) /\ e.task[y].state = "leased"
          BY DEF InState
        <4>2. y # x
          BY <3>2, <4>1
        <4>3. y \in Existing(d)
          BY <3>1, <4>1
        <4> QED  BY <4>2, <4>3
      <3> QED  BY <3>3
    <2>3. Stays /\ e.problem = d.problem
      BY <2>1, <2>2 DEF Approves, InState
    <2> QED  BY <1>3, <2>3
  <1>10. CASE Passing(d, e)
    <2>1. PICK n \in Nodes, x \in Existing(d) : Passes(d, e, n, x)
      BY <1>10 DEF Passing
    <2>2. \A y \in InState(e, "leased") : y \in Existing(d) \ {x}
      BY <2>1 DEF Passes, InState, Existing
    <2>3. \A y \in InState(e, "leased") : e.task[y] = d.task[y]
      BY <2>1, <2>2 DEF Passes, InState
    <2>4. Stays
      BY <2>1, <2>2, <2>3 DEF Passes, InState
    <2>5. \A p \in Problems : e.problem[p].deadline = d.problem[p].deadline
      <3>1. \A row \in ProblemRow : [row EXCEPT !.status = "completed"].deadline = row.deadline
        BY SMT DEF ProblemRow
      <3>2. \A p \in Problems : d.problem[p] \in ProblemRow
        BY <1>1, DatabaseTables DEF Typed
      <3>3. \A p \in Problems : \/ e.problem[p] = d.problem[p]
                                \/ e.problem[p] = [d.problem[p] EXCEPT !.status = "completed"]
        BY <2>1 DEF Passes
      <3> QED  BY <3>1, <3>2, <3>3
    <2> QED  BY <1>2, <2>4, <2>5 DEF Shrinks
  <1>11. CASE Inserting(d, e)
    <2>1. PICK p \in Problems, b \in ProblemRequest :
             d.problem[p].status = "none" /\ Inserts(d, e, p, b)
      BY <1>11 DEF Inserting
    <2>2. \A y \in InState(e, "leased") : y \in Existing(d)
      <3>1. e.task[d.tasks + 1].state = "open"
        BY <2>1 DEF Inserts, TaskOf
      <3>2. \A y \in Existing(e) : y \in Existing(d) \/ y = d.tasks + 1
        <4>1. d.tasks \in Nat /\ e.tasks = d.tasks + 1
          BY <1>1, <2>1, DatabaseTables, PoolAssumption, SMT DEF Typed, Inserts
        <4> QED  BY <4>1, SMT DEF Existing
      <3> QED  BY <3>1, <3>2 DEF InState
    <2>3. Stays
      BY <2>1, <2>2 DEF Inserts, InState
    <2>4. \A x \in InState(d, "leased") : d.task[x].problem \in Problems \ {p}
      BY <1>2, <2>1
    <2>5. \A q \in Problems \ {p} : e.problem[q] = d.problem[q]
      BY <2>1 DEF Inserts
    <2> QED  BY <2>3, <2>4, <2>5 DEF Shrinks
  <1>12. CASE Offering(d, e)
    <2>1. /\ e.requests = d.requests /\ e.task = d.task /\ e.tasks = d.tasks
          /\ e.problem = d.problem
      <3>1. d \in Database /\ e = [d EXCEPT !.offering = e.offering]
        BY <1>1, <1>12 DEF Offering, Typed
      <3> QED  BY <3>1, SMT DEF Database
    <2> QED  BY <1>12, <2>1 DEF Offering, Shrinks, InState, Existing
  <1> QED  BY <1>4, <1>5, <1>7, <1>8, <1>9, <1>10, <1>11, <1>12 DEF OtherMove

\* A new lease is an honest one, and the node has room for it.
LEMMA LeasingHonest ==
    ASSUME NEW d, Grown(d), NEW e, Grown(e), Honest(d), Leasing(d, e)
    PROVE  Honest(e)
PROOF
  <1>1. PICK n \in Nodes, r \in Requests :
           /\ d.requests[n][r] = None /\ ~AtLimit(d, n)
           /\ \E x \in Candidates(d, n) : Gives(d, e, n, r, x)
    BY DEF Leasing
  <1>2. PICK x \in Candidates(d, n) : Gives(d, e, n, r, x)
    BY <1>1
  <1>3. Typed(d) /\ Typed(e) /\ x \in Existing(d) /\ d.task[x].state = "open"
    BY DEF Grown, Kept, Candidates, InState
  <1> DEFINE lease == [node |-> n, request |-> r, until |-> now + LeaseSeconds]
             quote == ProviderEarning(d.task[x].spec.reward, d.problem[d.task[x].problem].fee)
  <1>4. /\ Existing(e) = Existing(d) /\ e.problem = d.problem /\ e.offering = d.offering
        /\ SameTask(d.task[x], e.task[x]) /\ e.task[x].state = "leased"
        /\ e.task[x].lease = lease
        /\ \A y \in Existing(d) \ {x} : e.task[y] = d.task[y]
        /\ \A m \in Nodes, k \in Requests :
              e.requests[m][k] = IF m = n /\ k = r THEN [task |-> x, quote |-> quote]
                                 ELSE d.requests[m][k]
    BY <1>2 DEF Gives, Existing
  <1>5. lease.node = n /\ lease.request = r /\ lease.until = now + LeaseSeconds
    OBVIOUS
  <1>6. [task |-> x, quote |-> quote].task = x
    OBVIOUS
  <1>7. x \in Tasks /\ e.requests[n][r] \in RequestRow
    <2>1. x \in Tasks /\ d.task[x].spec \in Specs /\ d.task[x].problem \in Problems
      BY <1>3, ExistingRow
    <2>2. d.problem[d.task[x].problem].fee \in BasisPoints
      <3>1. \A row \in ProblemRow : row.fee \in BasisPoints
        BY SMT DEF ProblemRow
      <3> QED  BY <1>3, <2>1, <3>1, DatabaseTables DEF Typed
    <2>3. quote \in Nat
      BY <2>1, <2>2, EarningPositive
    <2> HIDE DEF quote
    <2>4. [task |-> x, quote |-> quote] \in RequestRow
      BY <2>1, <2>3 DEF RequestRow
    <2> QED  BY <1>4, <2>1, <2>4
  <1>8. e.requests[n][r] # None
    <2>1. None \notin RequestRow
      BY NoneAssumption DEF RequestRow
    <2> QED  BY <1>7, <2>1
  <1> HIDE DEF lease, quote
  <1>9. ASSUME NEW m \in Nodes
        PROVE  Cardinality(InFlight(e, m)) <= MaxInflight
    <2>1. /\ IsFiniteSet(InFlight(d, m)) /\ Cardinality(InFlight(d, m)) \in Nat
          /\ Cardinality(InFlight(d, m)) <= MaxInflight
      BY <1>3, InFlightFinite DEF Honest
    <2>2. CASE m = n
      <3>1. InFlight(e, n) = InFlight(d, n) \cup {x} /\ x \notin InFlight(d, n)
        BY <1>3, <1>4, <1>5 DEF InFlight, InState
      <3>2. Cardinality(InFlight(e, n)) = Cardinality(InFlight(d, n)) + 1
        BY <2>1, <2>2, <3>1, FS_AddElement
      <3>3. ~(Cardinality(InFlight(d, n)) >= MaxInflight)
        BY <1>1 DEF AtLimit
      <3> QED  BY <2>1, <2>2, <3>2, <3>3, ConfigAssumption, SMT
    <2>3. CASE m # n
      <3>1. InFlight(e, m) = InFlight(d, m)
        BY <1>3, <1>4, <1>5, <2>3 DEF InFlight, InState
      <3> QED  BY <2>1, <3>1
    <2> QED  BY <2>2, <2>3
  <1>10. HonestAt(e, x)
    <2>1. /\ d.problem[d.task[x].problem].deadline >= now + LeaseSeconds
          /\ d.offering[n][d.task[x].spec.cap] = "active"
          /\ d.task[x].by = None \/ d.task[x].selfOk \/ d.task[x].by # n
      BY DEF Candidates
    <2>2. n # None
      BY NoneAssumption
    <2>3. /\ e.task[x].problem = d.task[x].problem /\ e.task[x].spec = d.task[x].spec
          /\ e.task[x].by = d.task[x].by /\ e.task[x].selfOk = d.task[x].selfOk
      BY <1>4 DEF SameTask
    <2>4. e.requests[n][r].task = x
      BY <1>4, <1>6
    <2> QED  BY <1>4, <1>5, <1>8, <2>1, <2>2, <2>3, <2>4 DEF HonestAt
  <1>11. ASSUME NEW y \in InState(e, "leased"), y # x
         PROVE  HonestAt(e, y)
    <2>1. y \in InState(d, "leased") /\ e.task[y] = d.task[y]
      BY <1>4, <1>11 DEF InState
    <2>2. HonestAt(d, y)
      BY <2>1 DEF Honest
    <2>3. d.task[y].lease.node \in Nodes /\ d.task[y].lease.request \in Requests
      <3>1. d.task[y].lease \in LeaseRow
        BY <1>3, <2>1, LeasedRow
      <3>2. \A row \in LeaseRow : row.node \in Nodes /\ row.request \in Requests
        BY SMT DEF LeaseRow
      <3> QED  BY <3>1, <3>2
    <2>4. e.requests[d.task[y].lease.node][d.task[y].lease.request]
             = d.requests[d.task[y].lease.node][d.task[y].lease.request]
      BY <1>1, <1>4, <2>2, <2>3, SMTT(90) DEF HonestAt
    <2> QED  BY <1>4, <2>1, <2>2, <2>4, ZenonT(60) DEF HonestAt
  <1> QED  BY <1>9, <1>10, <1>11 DEF Honest

\* Every move keeps leases honest.
LEMMA MoveHonest ==
    ASSUME NEW d, Grown(d), NEW e, Grown(e), Honest(d), Move(d, e)
    PROVE  Honest(e)
PROOF BY MoveShrinks, ShrinksHonest, LeasingHonest DEF Move, OtherMove

-----------------------------------------------------------------------------
(* What ended stays as it is *)

Rests(d, e) ==
    \A p \in Problems : d.problem[p].status \in TerminalStatus =>
        /\ e.problem[p] = d.problem[p]
        /\ e.refund[p] = d.refund[p] /\ e.escrow[p] = d.escrow[p]
        /\ Of(e, p) = Of(d, p)
        /\ \A x \in Of(d, p) : /\ e.task[x] = d.task[x]
                               /\ e.submissions[x] = d.submissions[x]
                               /\ e.delegations[x] = d.delegations[x]

\* The problem of task x has ended.
Over(d, x) == d.problem[d.task[x].problem].status \in TerminalStatus

\* It is enough to look at the rows one by one.
LEMMA RestsByRows ==
    ASSUME NEW d, NEW e, Existing(d) \subseteq Existing(e),
           \A p \in Problems : d.problem[p].status \in TerminalStatus =>
               /\ e.problem[p] = d.problem[p]
               /\ e.refund[p] = d.refund[p] /\ e.escrow[p] = d.escrow[p],
           \A x \in Existing(d) :
               /\ e.task[x].problem = d.task[x].problem
               /\ Over(d, x) => /\ e.task[x] = d.task[x]
                                /\ e.submissions[x] = d.submissions[x]
                                /\ e.delegations[x] = d.delegations[x],
           \A c \in Existing(e) \ Existing(d) :
               d.problem[e.task[c].problem].status \notin TerminalStatus
    PROVE  Rests(d, e)
PROOF BY DEF Rests, Of, Over

\* What two moves leave alone stays.
LEMMA RestsTransitive ==
    ASSUME NEW d1, NEW d2, NEW d3, Rests(d1, d2), Rests(d2, d3)
    PROVE  Rests(d1, d3)
PROOF BY DEF Rests

\* No move touches a problem that ended.
LEMMA MoveRests ==
    ASSUME NEW d, Grown(d), NEW e, Grown(e), Move(d, e)
    PROVE  Rests(d, e)
PROOF
  <1>1. Typed(d) /\ Typed(e) /\ Treed(d)
    BY DEF Grown, Kept
  <1>2. \A x \in Existing(d) : d.task[x].state \notin {"accepted", "failed", "blocked"}
           => /\ d.task[x].problem \in Problems
              /\ d.problem[d.task[x].problem].status = "active" /\ ~Over(d, x)
    BY <1>1, ActiveWork DEF Over, TerminalStatus
  <1>3. CASE Closing(d, e)
    <2>1. PICK P \in SUBSET Problems, status \in Closed :
             /\ \A p \in P : d.problem[p].status = "active"
             /\ Ends(d, e, P, status)
      BY <1>3 DEF Closing
    <2>2. \A p \in Problems : d.problem[p].status \in TerminalStatus => p \notin P
      BY <2>1 DEF TerminalStatus
    <2>3. \A x \in Existing(d) :
             /\ e.task[x].problem = d.task[x].problem
             /\ d.task[x].problem \notin P => /\ e.task[x] = d.task[x]
                                              /\ e.delegations[x] = d.delegations[x]
      BY <2>1 DEF Ends, Doomed, SameTask
    <2>4. \A x \in Existing(d) : Over(d, x) => d.task[x].problem \notin P
      BY <2>1 DEF Over, TerminalStatus
    <2>5. Existing(e) = Existing(d) /\ e.submissions = d.submissions
      BY <2>1 DEF Ends, Existing
    <2>6. \A p \in Problems : p \notin P =>
             /\ e.problem[p] = d.problem[p]
             /\ e.refund[p] = d.refund[p] /\ e.escrow[p] = d.escrow[p]
      BY <2>1 DEF Ends
    <2> QED  BY <2>2, <2>3, <2>4, <2>5, <2>6, RestsByRows
  <1>4. CASE Lapsing(d, e)
    <2>1. PICK R \in SUBSET InState(d, "leased") : Frees(d, e, R)
      BY <1>4 DEF Lapsing
    <2>2. \A x \in R : ~Over(d, x)
      BY <1>2 DEF InState
    <2>3. /\ Existing(e) = Existing(d) /\ e.problem = d.problem /\ e.delegations = d.delegations
          /\ e.escrow = d.escrow /\ e.refund = d.refund
          /\ \A x \in Existing(d) \ R :
                e.task[x] = d.task[x] /\ e.submissions[x] = d.submissions[x]
          /\ \A x \in R : e.task[x].problem = d.task[x].problem
      BY <2>1 DEF Frees, SameTask, SameMoney, Existing
    <2> QED  BY <2>2, <2>3, RestsByRows
  <1>5. CASE Leasing(d, e)
    <2>1. PICK n \in Nodes, r \in Requests : \E x \in Candidates(d, n) : Gives(d, e, n, r, x)
      BY <1>5 DEF Leasing
    <2>2. PICK x \in Candidates(d, n) : Gives(d, e, n, r, x)
      BY <2>1
    <2>3. x \in Existing(d) /\ ~Over(d, x)
      BY <1>2 DEF Candidates, InState
    <2>4. /\ Existing(e) = Existing(d) /\ e.problem = d.problem /\ e.delegations = d.delegations
          /\ e.submissions = d.submissions /\ e.escrow = d.escrow /\ e.refund = d.refund
          /\ \A y \in Existing(d) \ {x} : e.task[y] = d.task[y]
          /\ e.task[x].problem = d.task[x].problem
      BY <2>2 DEF Gives, SameTask, SameMoney, Existing
    <2> QED  BY <2>3, <2>4, RestsByRows
  <1>6. ASSUME NEW x \in Existing(d), NEW s, NEW rows, Turns(d, e, x, s, rows), ~Over(d, x)
        PROVE  Rests(d, e)
    <2>1. /\ Existing(e) = Existing(d) /\ e.problem = d.problem
          /\ e.submissions = d.submissions /\ e.escrow = d.escrow /\ e.refund = d.refund
          /\ \A y \in Existing(d) \ {x} :
                e.task[y] = d.task[y] /\ e.delegations[y] = d.delegations[y]
          /\ e.task[x].problem = d.task[x].problem
      BY <1>6 DEF Turns, SameTask, SameMoney, Existing
    <2> QED  BY <1>6, <2>1, RestsByRows
  <1>7. CASE Proposing(d, e)
    BY <1>2, <1>6, <1>7 DEF Proposing, InState
  <1>8. CASE Rejecting(d, e)
    BY <1>2, <1>6, <1>8 DEF Rejecting, Undecided
  <1>9. CASE Approving(d, e)
    <2>1. PICK x \in Existing(d), selfOk \in BOOLEAN : \E i \in DOMAIN d.delegations[x] :
             LET row == d.delegations[x][i] IN
             /\ Undecided(d, x, i)
             /\ Approves(d, e, x, row.plan, row.node, selfOk,
                         Decided(d.delegations[x], i, "approved"))
      BY <1>9 DEF Approving
    <2>7. PICK i \in DOMAIN d.delegations[x] :
             /\ Undecided(d, x, i)
             /\ Approves(d, e, x, d.delegations[x][i].plan, d.delegations[x][i].node, selfOk,
                         Decided(d.delegations[x], i, "approved"))
      BY <2>1
    <2>2. PICK plan, by, rows :
             Approves(d, e, x, plan, by, selfOk, rows) /\ Len(plan) \in Nat
      BY <1>1, <2>7, StoredPlan
    <2>8. d.task[x].state = "awaiting_delegation_approval"
      BY <2>7 DEF Undecided
    <2>3. ~Over(d, x)
      BY <1>2, <2>8
    <2>4. /\ e.problem = d.problem
          /\ e.submissions = d.submissions /\ e.escrow = d.escrow /\ e.refund = d.refund
          /\ \A y \in Existing(d) \ {x} :
                e.task[y] = d.task[y] /\ e.delegations[y] = d.delegations[y]
          /\ e.task[x].problem = d.task[x].problem
      BY <2>2 DEF Approves, SameTask, SameMoney
    <2>5. \A c \in Existing(e) \ Existing(d) : e.task[c].problem = d.task[x].problem
      <3>1. \A p, parent, depth, spec, t, b, ok :
               TaskOf(p, parent, depth, spec, t, b, ok).problem = p
        BY DEF TaskOf
      <3> QED  BY <2>2, <3>1 DEF Approves
    <2>6. Existing(d) \subseteq Existing(e)
      <3>1. e.tasks = d.tasks + Len(plan)
        BY <2>2 DEF Approves
      <3> QED  BY <1>1, <2>2, <3>1, Numbered
    <2> QED  BY <2>3, <2>4, <2>5, <2>6, RestsByRows DEF Over
  <1>10. CASE Passing(d, e)
    <2>1. PICK n \in Nodes, x \in Existing(d) : d.task[x].state = "leased" /\ Passes(d, e, n, x)
      BY <1>10 DEF Passing, LiveLease
    <2>2. ~Over(d, x) /\ d.task[x].problem \in Problems
          /\ d.problem[d.task[x].problem].status = "active"
      BY <1>2, <2>1
    <2>3. /\ Existing(e) = Existing(d) /\ e.delegations = d.delegations
          /\ e.task[x].problem = d.task[x].problem
          /\ \A c \in Existing(d) \ {x} :
                /\ e.submissions[c] = d.submissions[c]
                /\ IF Reopened(d, x, c) THEN SameTask(d.task[c], e.task[c])
                   ELSE e.task[c] = d.task[c]
      BY <2>1 DEF Passes, SameTask, Existing
    <2>4. \A c \in Existing(d) : Reopened(d, x, c) => ~Over(d, c)
      BY <1>2 DEF Reopened
    <2>5. \A q \in Problems \ {d.task[x].problem} :
              /\ e.problem[q] = d.problem[q] /\ e.escrow[q] = d.escrow[q]
              /\ e.refund[q] = d.refund[q]
      BY <2>1 DEF Passes
    <2>6. "active" \notin TerminalStatus
      BY DEF TerminalStatus
    <2> QED  BY <2>2, <2>3, <2>4, <2>5, <2>6, RestsByRows DEF SameTask
  <1>11. CASE Inserting(d, e)
    <2>1. PICK p \in Problems, b \in ProblemRequest :
             d.problem[p].status = "none" /\ Inserts(d, e, p, b)
      BY <1>11 DEF Inserting
    <2>2. /\ e.submissions = d.submissions /\ e.refund = d.refund
          /\ \A x \in Existing(d) : e.task[x] = d.task[x] /\ e.delegations[x] = d.delegations[x]
          /\ \A q \in Problems \ {p} : e.problem[q] = d.problem[q] /\ e.escrow[q] = d.escrow[q]
      BY <2>1 DEF Inserts
    <2>3. d.tasks \in Nat /\ e.tasks = d.tasks + 1
      BY <1>1, <2>1, DatabaseTables, PoolAssumption, SMT DEF Typed, Inserts
    <2>4. Existing(d) \subseteq Existing(e) /\ Existing(e) \ Existing(d) \subseteq {d.tasks + 1}
      BY <2>3, SMT DEF Existing
    <2>5. e.task[d.tasks + 1].problem = p
      BY <2>1 DEF Inserts, TaskOf
    <2>6. d.problem[p].status \notin TerminalStatus
      BY <2>1 DEF TerminalStatus
    <2> QED  BY <2>2, <2>4, <2>5, <2>6, RestsByRows
  <1>12. CASE Offering(d, e)
    <2>1. /\ e.task = d.task /\ e.tasks = d.tasks /\ e.problem = d.problem
          /\ e.submissions = d.submissions /\ e.delegations = d.delegations
          /\ e.escrow = d.escrow /\ e.refund = d.refund
      <3>1. d \in Database /\ e = [d EXCEPT !.offering = e.offering]
        BY <1>1, <1>12 DEF Offering, Typed
      <3> QED  BY <3>1, SMT DEF Database
    <2> QED  BY <2>1 DEF Rests, Of, Existing
  <1> QED  BY <1>3, <1>4, <1>5, <1>7, <1>8, <1>9, <1>10, <1>11, <1>12 DEF Move

\* No step does either: what is swept, and what is done then, are moves.
LEMMA NextRests ==
    ASSUME TypeOK, Grown(db), [Next]_vars
    PROVE  Rests(db, db')
PROOF
  <1>1. \A d : Rests(d, d)
    BY DEF Rests
  <1>2. ASSUME NEW d, NEW e, Grown(d), Grown(e), Closing(d, e) \/ Lapsing(d, e)
        PROVE  Rests(d, e)
    BY <1>2, MoveRests DEF Move
  <1>3. PICK d : Grown(d) /\ (d = db \/ Sweeps(db, d)) /\ Handles(d, db')
    BY NextMoves
  <1>4. Grown(db')
    BY GrownStep
  <1>5. Rests(db, d)
    BY <1>1, <1>2, <1>3, RestsTransitive DEF Sweeps
  <1>6. Rests(d, db')
    BY <1>1, <1>2, <1>3, <1>4, MoveRests, RestsTransitive DEF Handles
  <1> QED  BY <1>5, <1>6, RestsTransitive

\* A problem that ended stays as it ended, whatever late results, decisions,
\* expiries, cancellations and retries still come (every handler's check that
\* the problem is active, before and after the expiry it does itself).
THEOREM TerminalStaysFinal == Spec => TerminalIsFinal
PROOF
  <1>1. ASSUME TypeOK, Grown(db), [Next]_vars
        PROVE  \A p \in Problems : db.problem[p].status \in TerminalStatus =>
                  /\ db'.problem[p] = db.problem[p]
                  /\ db'.refund[p] = db.refund[p] /\ db'.escrow[p] = db.escrow[p]
                  /\ Of(db', p) = Of(db, p)
                  /\ \A x \in Of(db, p) : /\ db'.task[x] = db.task[x]
                                          /\ db'.submissions[x] = db.submissions[x]
                                          /\ db'.delegations[x] = db.delegations[x]
    BY <1>1, NextRests DEF Rests
  <1> QED  BY <1>1, GrownAlways, PTL DEF Spec, TerminalIsFinal

-----------------------------------------------------------------------------
(* Sums over all tasks *)

\* What each task was paid out of the escrow of problem p, what it may still
\* cost it, what it was paid at all, and what node n earned with it.
Won(d, p) ==
    [x \in Tasks |-> IF x \in Of(d, p) /\ d.task[x].state = "accepted"
                     THEN d.task[x].spec.reward ELSE 0]
Due(d, p) ==
    [x \in Tasks |-> IF x \in Of(d, p) /\ d.task[x].state # "accepted"
                     THEN d.task[x].spec.reward
                             + IF HasChild(d, x) THEN 0 ELSE d.task[x].spec.budget
                     ELSE 0]
Fetched(d) ==
    [x \in Tasks |-> IF x \in Existing(d) /\ d.task[x].state = "accepted"
                     THEN d.task[x].spec.reward ELSE 0]
Gain(d, n) ==
    [x \in Tasks |-> IF x \in Existing(d) /\ Passed(d, x, n) # {}
                     THEN d.submissions[x][CHOOSE i \in Passed(d, x, n) : TRUE].earned ELSE 0]

PaidOut(d, p) == Total(Won(d, p), Tasks)
Owed(d, p) == Total(Due(d, p), Tasks)

\* Tasks are a bounded range of row numbers.
LEMMA TasksFinite == IsFiniteSet(Tasks)
PROOF BY FS_Interval, PoolAssumption, SMT DEF Tasks

\* The summands are natural numbers, and so are the sums.
LEMMA SummandsTyped ==
    ASSUME NEW d, Typed(d)
    PROVE  /\ \A p : \A x \in Tasks : Won(d, p)[x] \in Nat /\ Due(d, p)[x] \in Nat
           /\ \A x \in Tasks : Fetched(d)[x] \in Nat
           /\ \A n : \A x \in Tasks : Gain(d, n)[x] \in Nat
           /\ \A p : PaidOut(d, p) \in Nat /\ Owed(d, p) \in Nat
PROOF
  <1>1. \A x \in Existing(d) : d.task[x].spec.reward \in Nat /\ d.task[x].spec.budget \in Nat
    BY ExistingRow, SpecFields
  <1>2. \A p : Of(d, p) \subseteq Existing(d)
    BY DEF Of
  <1>3. \A p : \A x \in Tasks : Won(d, p)[x] \in Nat
    BY <1>1, <1>2 DEF Won
  <1>4. \A p : \A x \in Tasks : Due(d, p)[x] \in Nat
    <2> TAKE p
    <2> TAKE x \in Tasks
    <2>1. CASE x \in Of(d, p) /\ d.task[x].state # "accepted"
      <3> DEFINE more == IF HasChild(d, x) THEN 0 ELSE d.task[x].spec.budget
      <3>1. Due(d, p)[x] = d.task[x].spec.reward + more
        BY <2>1 DEF Due
      <3>2. more \in Nat /\ d.task[x].spec.reward \in Nat
        BY <1>1, <1>2, <2>1
      <3> HIDE DEF more
      <3> QED  BY <3>1, <3>2, SMT
    <2>2. CASE ~(x \in Of(d, p) /\ d.task[x].state # "accepted")
      <3>1. Due(d, p)[x] = 0
        BY <2>2 DEF Due
      <3> QED  BY <3>1
    <2> QED  BY <2>1, <2>2
  <1>5. \A x \in Tasks : Fetched(d)[x] \in Nat
    BY <1>1 DEF Fetched
  <1>6. \A n : \A x \in Tasks : Gain(d, n)[x] \in Nat
    <2> TAKE n
    <2> TAKE x \in Tasks
    <2>1. CASE x \in Existing(d) /\ Passed(d, x, n) # {}
      <3> DEFINE i == CHOOSE j \in Passed(d, x, n) : TRUE
      <3>1. i \in DOMAIN d.submissions[x]
        BY <2>1 DEF Passed
      <3> HIDE DEF i
      <3>2. d.submissions[x] \in Seq(SubmissionRow)
        BY <2>1, ExistingRow
      <3>3. d.submissions[x][i] \in SubmissionRow
        BY <3>1, <3>2, SMT
      <3>4. \A row \in SubmissionRow : row.earned \in Nat
        BY SMT DEF SubmissionRow
      <3> QED  BY <2>1, <3>3, <3>4 DEF Gain, i
    <2>2. CASE ~(x \in Existing(d) /\ Passed(d, x, n) # {})
      BY <2>2 DEF Gain
    <2> QED  BY <2>1, <2>2
  <1>7. \A p : PaidOut(d, p) \in Nat /\ Owed(d, p) \in Nat
    <2> TAKE p
    <2>1. \A x \in Tasks : Won(d, p)[x] \in Nat
      BY <1>3
    <2>2. \A x \in Tasks : Due(d, p)[x] \in Nat
      BY <1>4
    <2>3. Total(Won(d, p), Tasks) \in Nat
      BY <2>1, TasksFinite, TotalType, Zenon
    <2>4. Total(Due(d, p), Tasks) \in Nat
      BY <2>2, TasksFinite, TotalType, Zenon
    <2> QED  BY <2>3, <2>4 DEF PaidOut, Owed
  <1> QED  BY <1>3, <1>4, <1>5, <1>6, <1>7

\* The sums of the properties, over the rows they are about, are these.
LEMMA SumsOverTasks ==
    ASSUME NEW d, Typed(d)
    PROVE  /\ \A p : RewardsAccepted(d, Of(d, p)) = PaidOut(d, p)
           /\ \A p : Commitments(d, p) = Owed(d, p)
           /\ RewardsAccepted(d, Existing(d)) = Total(Fetched(d), Tasks)
           /\ \A n : LET won == {x \in Existing(d) : Passed(d, x, n) # {}}
                     IN  Total([x \in won |->
                            d.submissions[x][CHOOSE i \in Passed(d, x, n) : TRUE].earned], won)
                         = Total(Gain(d, n), Tasks)
PROOF
  <1>1. Existing(d) \subseteq Tasks /\ \A p : Of(d, p) \subseteq Tasks
    BY ExistingTasks DEF Typed, Of
  <1>2. \A p : RewardsAccepted(d, Of(d, p)) = PaidOut(d, p)
    <2> TAKE p
    <2> DEFINE paid == {x \in Of(d, p) : d.task[x].state = "accepted"}
               a == [x \in paid |-> d.task[x].spec.reward]
    <2>1. /\ paid \subseteq Tasks /\ \A x \in paid : a[x] = Won(d, p)[x]
          /\ \A x \in Tasks \ paid : Won(d, p)[x] = 0
      BY <1>1 DEF Won
    <2>2. RewardsAccepted(d, Of(d, p)) = Total(a, paid)
      BY DEF RewardsAccepted
    <2> HIDE DEF paid, a
    <2>3. Total(a, paid) = Total(Won(d, p), Tasks)
      BY <2>1, TotalExtend
    <2> QED  BY <2>2, <2>3 DEF PaidOut
  <1>3. \A p : Commitments(d, p) = Owed(d, p)
    <2> TAKE p
    <2> DEFINE due == {x \in Of(d, p) : d.task[x].state # "accepted"}
               a == [x \in due |-> d.task[x].spec.reward
                        + IF Children(d, x) = {} THEN d.task[x].spec.budget ELSE 0]
    <2>1. \A x : HasChild(d, x) <=> Children(d, x) # {}
      BY DEF HasChild, Children
    <2>2. /\ due \subseteq Tasks /\ \A x \in due : a[x] = Due(d, p)[x]
          /\ \A x \in Tasks \ due : Due(d, p)[x] = 0
      BY <1>1, <2>1 DEF Due
    <2>3. Commitments(d, p) = Total(a, due)
      BY DEF Commitments
    <2> HIDE DEF due, a
    <2>4. Total(a, due) = Total(Due(d, p), Tasks)
      BY <2>2, TotalExtend
    <2> QED  BY <2>3, <2>4 DEF Owed
  <1>4. RewardsAccepted(d, Existing(d)) = Total(Fetched(d), Tasks)
    <2> DEFINE paid == {x \in Existing(d) : d.task[x].state = "accepted"}
               a == [x \in paid |-> d.task[x].spec.reward]
    <2>1. /\ paid \subseteq Tasks /\ \A x \in paid : a[x] = Fetched(d)[x]
          /\ \A x \in Tasks \ paid : Fetched(d)[x] = 0
      BY <1>1 DEF Fetched
    <2>2. RewardsAccepted(d, Existing(d)) = Total(a, paid)
      BY DEF RewardsAccepted
    <2> HIDE DEF paid, a
    <2> QED  BY <2>1, <2>2, TotalExtend
  <1>5. \A n : LET won == {x \in Existing(d) : Passed(d, x, n) # {}}
               IN  Total([x \in won |->
                            d.submissions[x][CHOOSE i \in Passed(d, x, n) : TRUE].earned], won)
                   = Total(Gain(d, n), Tasks)
    <2> TAKE n
    <2> DEFINE won == {x \in Existing(d) : Passed(d, x, n) # {}}
               a == [x \in won |->
                        d.submissions[x][CHOOSE i \in Passed(d, x, n) : TRUE].earned]
    <2>1. /\ won \subseteq Tasks /\ \A x \in won : a[x] = Gain(d, n)[x]
          /\ \A x \in Tasks \ won : Gain(d, n)[x] = 0
      BY <1>1 DEF Gain
    <2>2. Total(a, won) = Total(Gain(d, n), Tasks)
      <3> HIDE DEF won, a
      <3> QED  BY <2>1, TotalExtend
    <2> QED  BY <2>2
  <1> QED  BY <1>2, <1>3, <1>4, <1>5

-----------------------------------------------------------------------------
(* What the moves do to the sums *)

\* The sums depend on the tree and on which tasks are accepted.
LEMMA SameSums ==
    ASSUME NEW d, Typed(d), NEW e, SameTree(d, e), SameAccepted(d, e)
    PROVE  /\ \A p : PaidOut(e, p) = PaidOut(d, p) /\ Owed(e, p) = Owed(d, p)
           /\ Total(Fetched(e), Tasks) = Total(Fetched(d), Tasks)
PROOF
  <1>1. Existing(e) = Existing(d) /\ \A x : HasChild(e, x) <=> HasChild(d, x)
    BY DEF SameTree, SameTask, HasChild, Existing
  <1>2. \A p : Of(e, p) = Of(d, p)
    BY <1>1 DEF SameTree, SameTask, Of
  <1>3. \A x \in Existing(d) : /\ e.task[x].spec = d.task[x].spec
                               /\ e.task[x].state = "accepted" <=> d.task[x].state = "accepted"
    BY DEF SameTree, SameTask, SameAccepted
  <1>4. \A p : \A x \in Of(d, p) : x \in Existing(d)
    BY DEF Of
  <1>5. \A p : \A x \in Tasks : Won(e, p)[x] = Won(d, p)[x]
    BY <1>2, <1>3, <1>4 DEF Won
  <1>6. \A p : \A x \in Tasks : Due(e, p)[x] = Due(d, p)[x]
    BY <1>1, <1>2, <1>3, <1>4 DEF Due
  <1>7. \A x \in Tasks : Fetched(e)[x] = Fetched(d)[x]
    BY <1>1, <1>3 DEF Fetched
  <1>8. \A p : PaidOut(e, p) = PaidOut(d, p) /\ Owed(e, p) = Owed(d, p)
    BY <1>5, <1>6, TotalSame DEF PaidOut, Owed
  <1> QED  BY <1>7, <1>8, TotalSame

\* Every task keeps its submissions, or gets a rejected one.
NoPass(d, e) ==
    /\ Existing(d) \subseteq Existing(e)
    /\ \A x \in Existing(d) :
          \/ e.submissions[x] = d.submissions[x]
          \/ \E row \in SubmissionRow :
                row.outcome = "reject" /\ e.submissions[x] = Append(d.submissions[x], row)
    /\ \A x \in Existing(e) \ Existing(d) : e.submissions[x] = << >>

\* Where nothing passed, nobody earned.
LEMMA SameGain ==
    ASSUME NEW d, Typed(d), NEW e, NoPass(d, e)
    PROVE  /\ \A n : \A x \in Existing(d) : Passed(e, x, n) = Passed(d, x, n)
           /\ \A n : \A x \in Existing(e) \ Existing(d) : Passed(e, x, n) = {}
           /\ \A n : \A x \in Existing(d) : \A i \in Passed(d, x, n) :
                 e.submissions[x][i] = d.submissions[x][i]
           /\ \A n : Total(Gain(e, n), Tasks) = Total(Gain(d, n), Tasks)
PROOF
  <1>1. ASSUME NEW x \in Existing(d), NEW n
        PROVE  /\ Passed(e, x, n) = Passed(d, x, n)
               /\ \A i \in Passed(d, x, n) : e.submissions[x][i] = d.submissions[x][i]
    <2>1. d.submissions[x] \in Seq(SubmissionRow)
      BY ExistingRow
    <2>2. CASE e.submissions[x] = d.submissions[x]
      BY <2>2 DEF Passed
    <2>3. CASE \E row \in SubmissionRow :
                  row.outcome = "reject" /\ e.submissions[x] = Append(d.submissions[x], row)
      <3>1. PICK row \in SubmissionRow :
               row.outcome = "reject" /\ e.submissions[x] = Append(d.submissions[x], row)
        BY <2>3
      <3> DEFINE rows == d.submissions[x]
                 rows2 == e.submissions[x]
      <3>2. /\ Len(rows2) = Len(rows) + 1 /\ Len(rows) \in Nat
            /\ DOMAIN rows = 1 .. Len(rows) /\ DOMAIN rows2 = 1 .. Len(rows2)
            /\ \A i \in 1 .. Len(rows) : rows2[i] = rows[i]
            /\ rows2[Len(rows) + 1] = row
        BY <2>1, <3>1, SMT
      <3> HIDE DEF rows, rows2
      <3>3. \A i \in DOMAIN rows2 : i \in DOMAIN rows \/ i = Len(rows) + 1
        BY <3>2, SMT
      <3>4. \A i \in DOMAIN rows : i \in DOMAIN rows2 /\ rows2[i] = rows[i]
        BY <3>2, SMT
      <3>5. rows2[Len(rows) + 1].outcome # "pass"
        BY <3>1, <3>2
      <3> QED  BY <3>3, <3>4, <3>5 DEF Passed, rows, rows2
    <2> QED  BY <2>2, <2>3 DEF NoPass
  <1>2. ASSUME NEW x \in Existing(e) \ Existing(d), NEW n
        PROVE  Passed(e, x, n) = {}
    BY DEF NoPass, Passed
  <1>3. ASSUME NEW n, NEW x \in Tasks
        PROVE  Gain(e, n)[x] = Gain(d, n)[x]
    <2>1. CASE x \in Existing(d) /\ Passed(d, x, n) # {}
      <3>1. x \in Existing(e) /\ Passed(e, x, n) = Passed(d, x, n)
        BY <1>1, <2>1 DEF NoPass
      <3>2. (CHOOSE i \in Passed(d, x, n) : TRUE) \in Passed(d, x, n)
        BY <2>1
      <3> QED  BY <1>1, <2>1, <3>1, <3>2 DEF Gain
    <2>2. CASE ~(x \in Existing(d) /\ Passed(d, x, n) # {})
      <3>1. ~(x \in Existing(e) /\ Passed(e, x, n) # {})
        BY <1>1, <1>2, <2>2
      <3> QED  BY <2>2, <3>1 DEF Gain
    <2> QED  BY <2>1, <2>2
  <1>4. \A n : Total(Gain(e, n), Tasks) = Total(Gain(d, n), Tasks)
    BY <1>3, TotalSame
  <1> QED  BY <1>1, <1>2, <1>4

-----------------------------------------------------------------------------
(* What the moves do to the order behind a problem *)

Idle(d, e, p) ==
    /\ e.problem[p] = d.problem[p]
    /\ e.escrow[p] = d.escrow[p] /\ e.refund[p] = d.refund[p] /\ e.refunds[p] = d.refunds[p]
    /\ PaidOut(e, p) = PaidOut(d, p) /\ Owed(e, p) <= Owed(d, p)

Funds(d, e, p) ==
    \E b \in ProblemRequest :
        /\ d.problem[p].status = "none"
        /\ e.problem[p].status = "active" /\ e.problem[p].funded = b.funded
        /\ e.escrow[p] = d.escrow[p] + b.funded
        /\ e.refund[p] = d.refund[p] /\ e.refunds[p] = d.refunds[p]
        /\ PaidOut(e, p) = PaidOut(d, p) /\ Owed(e, p) <= b.funded

Draws(d, e, p) ==
    \E reward \in Nat \ {0} :
        /\ d.problem[p].status = "active" /\ e.problem[p] = d.problem[p]
        /\ e.escrow[p] = d.escrow[p] - reward
        /\ e.refund[p] = d.refund[p] /\ e.refunds[p] = d.refunds[p]
        /\ PaidOut(e, p) = PaidOut(d, p) + reward /\ Owed(e, p) <= Owed(d, p) - reward

Shuts(d, e, p) ==
    \E reward \in Nat, status \in TerminalStatus :
        /\ d.problem[p].status = "active"
        /\ e.problem[p] = [d.problem[p] EXCEPT !.status = status]
        /\ reward <= Owed(d, p) /\ (reward > 0 <=> status = "completed")
        /\ PaidOut(e, p) = PaidOut(d, p) + reward
        /\ LET left == d.escrow[p] - reward
           IN  IF left > 0
               THEN /\ e.escrow[p] = 0 /\ e.refund[p] = d.refund[p] + left
                    /\ e.refunds[p] = d.refunds[p] + 1
               ELSE /\ e.escrow[p] = left /\ e.refund[p] = d.refund[p]
                    /\ e.refunds[p] = d.refunds[p]

\* What a move does to each order, and that it is done to the ledger as a whole:
\* without a passed result nothing is earned.
Accounts(d, e) ==
    \A p \in Problems : Idle(d, e, p) \/ Funds(d, e, p) \/ Draws(d, e, p) \/ Shuts(d, e, p)

\* Nothing but the end of orders.
Settles(d, e) == \A p \in Problems : Idle(d, e, p) \/ Shuts(d, e, p)

Unearned(d, e) ==
    /\ e.payable = d.payable /\ e.revenue = d.revenue
    /\ Total(Fetched(e), Tasks) = Total(Fetched(d), Tasks)
    /\ NoPass(d, e)

\* Moves that keep the tree and the money.
LEMMA StillAccounts ==
    ASSUME NEW d, Typed(d), NEW e, SameTree(d, e), SameAccepted(d, e), SameMoney(d, e),
           e.problem = d.problem, NoPass(d, e)
    PROVE  Settles(d, e) /\ Unearned(d, e)
PROOF
  <1>1. /\ \A p : PaidOut(e, p) = PaidOut(d, p) /\ Owed(e, p) = Owed(d, p)
        /\ Total(Fetched(e), Tasks) = Total(Fetched(d), Tasks)
    BY SameSums
  <1>2. \A p : Owed(d, p) \in Nat
    BY SummandsTyped
  <1>3. \A p : Owed(e, p) <= Owed(d, p)
    BY <1>1, <1>2, SMT
  <1> QED  BY <1>1, <1>3 DEF Settles, Idle, Unearned, SameMoney

\* An expiry of leases costs nobody anything,
LEMMA LapsingAccounts ==
    ASSUME NEW d, Grown(d), NEW e, Lapsing(d, e)
    PROVE  Settles(d, e) /\ Unearned(d, e)
PROOF
  <1>1. PICK R \in SUBSET InState(d, "leased") : Frees(d, e, R)
    BY DEF Lapsing
  <1>2. Typed(d) /\ Existing(e) = Existing(d) /\ R \subseteq Existing(d)
    BY <1>1 DEF Grown, Kept, Frees, Existing, InState
  <1>3. NoPass(d, e)
    BY <1>1, <1>2 DEF NoPass, Frees
  <1>4. SameTree(d, e) /\ SameAccepted(d, e)
    BY <1>1, <1>2 DEF Frees, SameTree, SameTask, SameAccepted, InState
  <1>5. SameMoney(d, e) /\ e.problem = d.problem
    BY <1>1 DEF Frees
  <1> QED  BY <1>2, <1>3, <1>4, <1>5, StillAccounts

\* nor does a lease,
LEMMA LeasingAccounts ==
    ASSUME NEW d, Grown(d), NEW e, Leasing(d, e)
    PROVE  Settles(d, e) /\ Unearned(d, e)
PROOF
  <1>1. PICK n \in Nodes, r \in Requests : \E x \in Candidates(d, n) : Gives(d, e, n, r, x)
    BY DEF Leasing
  <1>2. PICK x \in Candidates(d, n) : Gives(d, e, n, r, x)
    BY <1>1
  <1>3. Typed(d) /\ Existing(e) = Existing(d) /\ x \in Existing(d) /\ d.task[x].state = "open"
    BY <1>2 DEF Grown, Kept, Gives, Existing, Candidates, InState
  <1>4. NoPass(d, e)
    BY <1>2, <1>3 DEF NoPass, Gives
  <1>5. SameTree(d, e) /\ SameAccepted(d, e)
    BY <1>2, <1>3 DEF Gives, SameTree, SameTask, SameAccepted
  <1>6. SameMoney(d, e) /\ e.problem = d.problem
    BY <1>2 DEF Gives
  <1> QED  BY <1>3, <1>4, <1>5, <1>6, StillAccounts

\* Proposing, and rejecting a proposal.
LEMMA TurningAccounts ==
    ASSUME NEW d, Grown(d), NEW e, Proposing(d, e) \/ Rejecting(d, e)
    PROVE  Settles(d, e) /\ Unearned(d, e)
PROOF
  <1>1. PICK x \in Existing(d) : \E s \in {"awaiting_delegation_approval", "open"} : \E rows :
           Turns(d, e, x, s, rows) /\ d.task[x].state # "accepted"
    BY DEF Proposing, Rejecting, InState, Undecided
  <1>2. PICK s \in {"awaiting_delegation_approval", "open"} : \E rows :
           Turns(d, e, x, s, rows) /\ d.task[x].state # "accepted"
    BY <1>1
  <1>3. PICK rows : Turns(d, e, x, s, rows) /\ d.task[x].state # "accepted"
    BY <1>2
  <1>4. Typed(d) /\ Existing(e) = Existing(d)
    BY <1>3 DEF Grown, Kept, Turns, Existing
  <1>5. NoPass(d, e)
    BY <1>3, <1>4 DEF NoPass, Turns
  <1>6. SameTree(d, e) /\ SameAccepted(d, e)
    BY <1>3, <1>4 DEF Turns, SameTree, SameTask, SameAccepted
  <1>7. SameMoney(d, e) /\ e.problem = d.problem
    BY <1>3 DEF Turns
  <1> QED  BY <1>4, <1>5, <1>6, <1>7, StillAccounts

\* nor does an offering.
LEMMA OfferingAccounts ==
    ASSUME NEW d, Grown(d), NEW e, Offering(d, e)
    PROVE  Settles(d, e) /\ Unearned(d, e)
PROOF
  <1>1. d \in Database /\ Typed(d) /\ e = [d EXCEPT !.offering = e.offering]
    BY DEF Grown, Kept, Typed, Offering
  <1>2. /\ e.task = d.task /\ e.tasks = d.tasks /\ e.problem = d.problem
        /\ e.submissions = d.submissions
        /\ e.escrow = d.escrow /\ e.refund = d.refund /\ e.refunds = d.refunds
        /\ e.payable = d.payable /\ e.revenue = d.revenue /\ e.credits = d.credits
    BY <1>1, SMT DEF Database
  <1>3. /\ SameTree(d, e) /\ SameAccepted(d, e) /\ SameMoney(d, e)
        /\ Existing(e) = Existing(d)
    BY <1>2 DEF SameTree, SameTask, SameAccepted, SameMoney, Existing
  <1>4. NoPass(d, e)
    BY <1>2, <1>3 DEF NoPass
  <1> QED  BY <1>1, <1>2, <1>3, <1>4, StillAccounts

\* A termination shuts the orders of its problems, with all that is left refunded.
LEMMA ClosingAccounts ==
    ASSUME NEW d, Grown(d), NEW e, Closing(d, e)
    PROVE  Settles(d, e) /\ Unearned(d, e)
PROOF
  <1>1. PICK P \in SUBSET Problems, status \in Closed :
           /\ \A p \in P : d.problem[p].status = "active"
           /\ Ends(d, e, P, status)
    BY DEF Closing
  <1>2. Typed(d) /\ Existing(e) = Existing(d)
    BY <1>1 DEF Grown, Kept, Ends, Existing
  <1>3. SameTree(d, e) /\ SameAccepted(d, e)
    BY <1>1 DEF Ends, Doomed, SameTree, SameTask, SameAccepted
  <1>4. NoPass(d, e)
    BY <1>1, <1>2 DEF NoPass, Ends
  <1>5. /\ \A p : PaidOut(e, p) = PaidOut(d, p) /\ Owed(e, p) = Owed(d, p)
        /\ Total(Fetched(e), Tasks) = Total(Fetched(d), Tasks)
    BY <1>2, <1>3, SameSums
  <1>6. ASSUME NEW p \in Problems
        PROVE  Idle(d, e, p) \/ Shuts(d, e, p)
    <2>1. /\ PaidOut(d, p) \in Nat /\ Owed(d, p) \in Nat
          /\ d.escrow[p] \in Int /\ d.refund[p] \in Nat /\ d.refunds[p] \in Nat
      BY <1>2, SummandsTyped, DatabaseTables DEF Typed
    <2>2. CASE p \in P
      <3>1. /\ e.problem[p] = [d.problem[p] EXCEPT !.status = status]
            /\ d.problem[p].status = "active"
        BY <1>1, <2>2 DEF Ends
      <3>2. IF d.escrow[p] > 0
            THEN /\ e.escrow[p] = 0 /\ e.refund[p] = d.refund[p] + d.escrow[p]
                 /\ e.refunds[p] = d.refunds[p] + 1
            ELSE /\ e.escrow[p] = d.escrow[p] /\ e.refund[p] = d.refund[p]
                 /\ e.refunds[p] = d.refunds[p]
        BY <1>1, <2>2 DEF Ends
      <3>3. status \in TerminalStatus /\ status # "completed"
        BY DEF Closed
      <3>4. /\ d.escrow[p] - 0 = d.escrow[p] /\ PaidOut(d, p) + 0 = PaidOut(d, p)
            /\ 0 <= Owed(d, p) /\ ~(0 > 0) /\ 0 \in Nat
        BY <2>1, SMT
      <3>5. Shuts(d, e, p)
        BY <1>5, <3>1, <3>2, <3>3, <3>4, Zenon DEF Shuts
      <3> QED  BY <3>5
    <2>3. CASE p \notin P
      <3>1. Owed(e, p) <= Owed(d, p)
        BY <1>5, <2>1, SMT
      <3> QED  BY <1>1, <1>5, <2>3, <3>1 DEF Ends, Idle
    <2> QED  BY <2>2, <2>3
  <1>7. e.payable = d.payable /\ e.revenue = d.revenue
    BY <1>1 DEF Ends
  <1> QED  BY <1>4, <1>5, <1>6, <1>7 DEF Settles, Unearned

\* The root of a new problem may cost it what it asks for, which is funded.
LEMMA InsertingAccounts ==
    ASSUME NEW d, Grown(d), NEW e, Grown(e), Inserting(d, e)
    PROVE  Accounts(d, e) /\ Unearned(d, e)
PROOF
  <1>1. PICK p \in Problems, b \in ProblemRequest :
           /\ d.problem[p].status = "none"
           /\ b.spec.reward + b.spec.budget <= b.funded
           /\ Inserts(d, e, p, b)
    BY DEF Inserting
  <1> DEFINE c == d.tasks + 1
  <1>2. Typed(d) /\ Typed(e) /\ ReferencesOK(d) /\ ReferencesOK(e)
    BY DEF Grown, Kept, Typed
  <1>3. /\ d.tasks \in Nat /\ e.tasks = c
    BY <1>1, <1>2, DatabaseTables, PoolAssumption, SMT DEF Typed, Inserts
  <1>4. /\ Existing(e) = Existing(d) \cup {c} /\ c \notin Existing(d)
    BY <1>3, SMT DEF Existing
  <1>5. Existing(e) \subseteq Tasks /\ Existing(d) \subseteq Tasks /\ None \notin Tasks
    BY <1>2, ExistingTasks, NoneAssumption DEF Typed
  <1>6. /\ e.task[c].state = "open" /\ e.task[c].problem = p /\ e.task[c].spec = b.spec
        /\ e.task[c].parent = None
    BY <1>1 DEF Inserts, TaskOf
  <1> HIDE DEF c
  <1>7. \A x \in Existing(d) : e.task[x] = d.task[x]
    BY <1>1 DEF Inserts
  <1>8. /\ \A x \in Existing(d) : HasChild(e, x) <=> HasChild(d, x)
        /\ ~HasChild(e, c)
    <2>1. \A x \in Existing(d) : d.task[x].parent # c
      BY <1>2, <1>4, <1>5 DEF ReferencesOK
    <2> QED  BY <1>4, <1>5, <1>6, <1>7, <2>1 DEF HasChild
  <1>9. Of(d, p) = {}
    BY <1>1, <1>2 DEF Of, ReferencesOK
  <1>10. /\ \A q \in Problems : q # p => Of(e, q) = Of(d, q)
         /\ Of(e, p) = {c}
    BY <1>4, <1>6, <1>7, <1>9 DEF Of
  <1>11. \A q : \A x \in Of(d, q) : x \in Existing(d)
    BY DEF Of
  <1>12. \A q \in Problems : \A x \in Tasks : Won(e, q)[x] = Won(d, q)[x]
    BY <1>6, <1>7, <1>9, <1>10, <1>11 DEF Won
  <1>13. \A q \in Problems : PaidOut(e, q) = PaidOut(d, q)
    BY <1>12, TotalSame DEF PaidOut
  <1>14. ASSUME NEW q \in Problems, q # p
         PROVE  Owed(e, q) = Owed(d, q)
    <2>1. \A x \in Tasks : Due(e, q)[x] = Due(d, q)[x]
      BY <1>7, <1>8, <1>10, <1>11, <1>14 DEF Due
    <2> QED  BY <2>1, TotalSame DEF Owed
  <1>15. Owed(e, p) = b.spec.reward + b.spec.budget
    <2>1. \A x \in Tasks : Due(d, p)[x] = 0
      BY <1>9 DEF Due
    <2>2. /\ \A x \in Tasks \ {c} : Due(d, p)[x] = Due(e, p)[x]
          /\ Due(e, p)[c] = b.spec.reward + b.spec.budget
      BY <1>4, <1>5, <1>6, <1>8, <1>10, <2>1 DEF Due
    <2>3. Total(Due(d, p), {}) = Total(Due(d, p), Tasks)
      BY <2>1, TotalExtend
    <2>4. Owed(d, p) = 0
      BY <2>3, TotalEmpty DEF Owed
    <2>5. \A x \in Tasks : Due(d, p)[x] \in Nat /\ Due(e, p)[x] \in Nat
      BY <1>2, SummandsTyped
    <2>6. Owed(e, p) = Owed(d, p) - Due(d, p)[c] + Due(e, p)[c]
      BY <1>4, <1>5, <2>2, <2>5, TasksFinite, TotalChange DEF Owed
    <2>7. Due(e, p)[c] \in Nat /\ Due(d, p)[c] = 0
      BY <1>4, <1>5, <2>1, <2>5
    <2> QED  BY <2>2, <2>4, <2>6, <2>7, SMT
  <1>16. \A x \in Tasks : Fetched(e)[x] = Fetched(d)[x]
    BY <1>4, <1>6, <1>7 DEF Fetched
  <1>17. NoPass(d, e)
    <2>1. e.submissions = d.submissions /\ \A x \in Tasks \ Existing(d) : d.submissions[x] = << >>
      BY <1>1, <1>2 DEF Inserts, ReferencesOK
    <2> QED  BY <1>4, <1>5, <2>1 DEF NoPass
  <1>18. Unearned(d, e)
    BY <1>1, <1>16, <1>17, TotalSame DEF Unearned, Inserts
  <1>19. ASSUME NEW q \in Problems
         PROVE  Idle(d, e, q) \/ Funds(d, e, q)
    <2>1. CASE q = p
      <3>1. Funds(d, e, p)
        BY <1>1, <1>13, <1>15 DEF Funds, Inserts
      <3> QED  BY <2>1, <3>1
    <2>2. CASE q # p
      <3>1. Owed(e, q) <= Owed(d, q)
        <4>1. Owed(d, q) \in Nat /\ Owed(e, q) = Owed(d, q)
          BY <1>2, <1>14, <2>2, SummandsTyped
        <4> QED  BY <4>1, SMT
      <3> QED  BY <1>1, <1>13, <2>2, <3>1 DEF Idle, Inserts
    <2> QED  BY <2>1, <2>2
  <1> QED  BY <1>18, <1>19 DEF Accounts

AddUpTo(due, N, plan) == Total(due, N) = PlanCost(plan)

\* The cost of a plan is what its children may cost.
LEMMA PlanCostOfChildren ==
    ASSUME NEW k, NEW first, NEW plan, NEW N, NEW due,
           k \in Nat, first \in Nat, DOMAIN plan = 1 .. k,
           \A i \in 1 .. k : plan[i] \in Specs,
           \A i \in 1 .. k : first + i \in N,
           \A c \in N : c - first \in 1 .. k /\ c \in Nat,
           \A c \in N : due[c] = plan[c - first].reward + plan[c - first].budget
    PROVE  AddUpTo(due, N, plan) /\ IsFiniteSet(N)
PROOF
  <1> DEFINE f == [i \in 1 .. k |-> first + i]
             cost == [i \in 1 .. k |-> plan[i].reward + plan[i].budget]
  <1>1. f \in Bijection(1 .. k, N)
    <2>1. f \in [1 .. k -> N]
      OBVIOUS
    <2>2. \A i, j \in 1 .. k : first + i = first + j => i = j
      BY SMT
    <2>3. \A c \in N : c - first \in 1 .. k /\ first + (c - first) = c
      BY SMT
    <2>4. \A c \in N : \E i \in 1 .. k : f[i] = c
      BY <2>3
    <2> QED  BY <2>1, <2>2, <2>4 DEF Bijection, Injection, Surjection, IsInjective
  <1>2. IsFiniteSet(1 .. k)
    BY FS_Interval, SMT
  <1>3. \A i \in 1 .. k : cost[i] \in Nat
    <2>1. \A i \in 1 .. k : plan[i].reward \in Nat /\ plan[i].budget \in Nat
      BY SpecFields
    <2> QED  BY <2>1, SMT
  <1>4. \A i \in 1 .. k : due[f[i]] = cost[i]
    <2>1. \A i \in 1 .. k : (first + i) - first = i
      BY SMT
    <2> QED  BY <2>1
  <1>5. PlanCost(plan) = Total(cost, 1 .. k)
    BY DEF PlanCost
  <1>6. IsFiniteSet(N)
    <2>1. f \in Surjection(1 .. k, N)
      BY <1>1 DEF Bijection
    <2> HIDE DEF f
    <2> QED  BY <1>2, <2>1, FS_Surjection
  <1> DEFINE I == 1 .. k
  <1>8. Total(due, N) = Total(cost, I)
    <2>1. f \in Bijection(I, N) /\ IsFiniteSet(I)
      BY <1>1, <1>2
    <2>2. \A i \in I : cost[i] \in Nat /\ due[f[i]] = cost[i]
      BY <1>3, <1>4
    <2> HIDE DEF f, cost, I
    <2> QED  BY <2>1, <2>2, TotalRename
  <1> HIDE DEF f, cost
  <1> QED  BY <1>5, <1>6, <1>8 DEF AddUpTo

\* Approving a plan turns the budget of its task into what its children may cost.
LEMMA ApprovingAccounts ==
    ASSUME NEW d, Grown(d), NEW e, Grown(e), Approving(d, e)
    PROVE  Accounts(d, e) /\ Unearned(d, e)
PROOF
  <1>1. PICK x \in Existing(d), selfOk \in BOOLEAN : \E i \in DOMAIN d.delegations[x] :
           LET row == d.delegations[x][i] IN
           /\ Undecided(d, x, i)
           /\ PlanCost(row.plan) <= d.task[x].spec.budget
           /\ Approves(d, e, x, row.plan, row.node, selfOk,
                       Decided(d.delegations[x], i, "approved"))
    BY DEF Approving
  <1>2. PICK i \in DOMAIN d.delegations[x] :
           LET row == d.delegations[x][i] IN
           /\ Undecided(d, x, i)
           /\ PlanCost(row.plan) <= d.task[x].spec.budget
           /\ Approves(d, e, x, row.plan, row.node, selfOk,
                       Decided(d.delegations[x], i, "approved"))
    BY <1>1
  <1>3. Typed(d) /\ Typed(e) /\ ReferencesOK(d) /\ Treed(d)
    BY DEF Grown, Kept, Typed
  <1>4. PICK plan, by, rows :
           /\ Approves(d, e, x, plan, by, selfOk, rows)
           /\ PlanCost(plan) <= d.task[x].spec.budget
           /\ Len(plan) \in Nat \ {0} /\ DOMAIN plan = 1 .. Len(plan)
           /\ \A j \in 1 .. Len(plan) : plan[j] \in Specs
    BY <1>2, <1>3, StoredPlan
  <1> DEFINE N == Existing(e) \ Existing(d)
             k == Len(plan)
             p == d.task[x].problem
  <1>5. d.task[x].state = "awaiting_delegation_approval" /\ ~HasChild(d, x)
    <2>1. d.task[x].state = "awaiting_delegation_approval"
      BY <1>2 DEF Undecided
    <2>2. ShapeAt(d, x)
      BY <1>3 DEF Treed
    <2> QED  BY <2>1, <2>2 DEF ShapeAt, Shape
  <1>6. /\ Existing(d) \subseteq Existing(e) /\ Existing(e) = Existing(d) \cup N
        /\ \A c \in N : c - d.tasks \in 1 .. k
        /\ \A j \in 1 .. k : d.tasks + j \in N
        /\ Existing(e) \subseteq Tasks /\ None \notin Existing(e)
    <2>1. e.tasks = d.tasks + k
      BY <1>4 DEF Approves
    <2>2. Existing(e) \subseteq Tasks /\ None \notin Tasks
      BY <1>3, ExistingTasks, NoneAssumption DEF Typed
    <2> QED  BY <1>3, <1>4, <2>1, <2>2, Numbered
  <1>7. ASSUME NEW c \in N
        PROVE  /\ e.task[c].problem = p /\ e.task[c].parent = x /\ e.task[c].state = "open"
               /\ e.task[c].spec = plan[c - d.tasks]
    <2>1. \A q, parent, depth, spec, t, b, ok :
             LET row == TaskOf(q, parent, depth, spec, t, b, ok) IN
             row.problem = q /\ row.parent = parent /\ row.state = "open" /\ row.spec = spec
      BY DEF TaskOf
    <2>2. e.task[c] = TaskOf(p, x, d.task[x].depth + 1, plan[c - d.tasks], now, by, selfOk)
      BY <1>4 DEF Approves
    <2> QED  BY <2>1, <2>2
  <1>8. /\ \A y \in Existing(d) \ {x} : e.task[y] = d.task[y]
        /\ e.task[x].problem = p /\ e.task[x].parent = d.task[x].parent
        /\ e.task[x].spec = d.task[x].spec /\ e.task[x].state = "waiting_children"
    BY <1>4 DEF Approves, SameTask
  <1>9. /\ SameMoney(d, e) /\ e.problem = d.problem /\ e.submissions = d.submissions
    BY <1>4 DEF Approves
  <1> HIDE DEF N, k, p
  <1>10. /\ \A y \in Existing(d) \ {x} : HasChild(e, y) <=> HasChild(d, y)
         /\ HasChild(e, x)
         /\ \A c \in N : ~HasChild(e, c)
    <2>1. \A c \in Existing(d) : e.task[c].parent = d.task[c].parent
      BY <1>8
    <2>2. ASSUME NEW y \in Existing(d) \ {x}
          PROVE  HasChild(e, y) <=> HasChild(d, y)
      BY <1>6, <1>7, <2>1 DEF HasChild
    <2>3. HasChild(e, x)
      <3>1. 1 \in 1 .. k
        BY <1>4, SMT DEF k
      <3>2. d.tasks + 1 \in N
        BY <1>6, <3>1
      <3> QED  BY <1>6, <1>7, <3>2 DEF HasChild
    <2>4. ASSUME NEW c \in N
          PROVE  ~HasChild(e, c)
      <3>1. c \notin Existing(d) /\ c # None
        BY <1>6 DEF N
      <3>2. \A y \in Existing(d) : d.task[y].parent # c
        BY <1>3, <3>1 DEF ReferencesOK
      <3> QED  BY <1>6, <1>7, <2>1, <3>1, <3>2 DEF HasChild
    <2> QED  BY <2>2, <2>3, <2>4
  <1>11. /\ \A q : q # p => Of(e, q) = Of(d, q)
         /\ Of(e, p) = Of(d, p) \cup N /\ x \in Of(d, p)
         /\ \A q : Of(d, q) \subseteq Existing(d)
    BY <1>6, <1>7, <1>8 DEF Of, p
  <1>12. N \cap Existing(d) = {} /\ N \subseteq Tasks /\ x \notin N
    BY <1>6 DEF N
  <1>13. ASSUME NEW q
         PROVE  PaidOut(e, q) = PaidOut(d, q)
    <2>1. ASSUME NEW y \in Tasks
          PROVE  Won(e, q)[y] = Won(d, q)[y]
      <3>1. CASE y \in N
        BY <1>7, <1>11, <1>12, <3>1 DEF Won
      <3>2. CASE y = x
        BY <1>5, <1>8, <3>2 DEF Won
      <3>3. CASE y \notin N /\ y # x
        BY <1>8, <1>11, <3>3 DEF Won
      <3> QED  BY <3>1, <3>2, <3>3
    <2> QED  BY <2>1, TotalSame DEF PaidOut
  <1>14. Total(Fetched(e), Tasks) = Total(Fetched(d), Tasks)
    <2>1. ASSUME NEW y \in Tasks
          PROVE  Fetched(e)[y] = Fetched(d)[y]
      <3>1. CASE y \in N
        BY <1>7, <1>12, <3>1 DEF Fetched
      <3>2. CASE y = x
        BY <1>5, <1>8, <3>2 DEF Fetched
      <3>3. CASE y \notin N /\ y # x
        BY <1>6, <1>8, <3>3 DEF Fetched
      <3> QED  BY <3>1, <3>2, <3>3
    <2> QED  BY <2>1, TotalSame
  <1>15. \A q : q # p => Owed(e, q) = Owed(d, q)
    <2> SUFFICES ASSUME NEW q, q # p PROVE Owed(e, q) = Owed(d, q)
      OBVIOUS
    <2>1. x \notin Of(d, q)
      BY <1>8 DEF Of, p
    <2>2. \A y \in Tasks : Due(e, q)[y] = Due(d, q)[y]
      BY <1>8, <1>10, <1>11, <2>1 DEF Due
    <2> QED  BY <2>2, TotalSame DEF Owed
  <1>16. Owed(e, p) <= Owed(d, p)
    <2> DEFINE old == Due(d, p)
               new == Due(e, p)
               Rest == Tasks \ N
    <2>1. /\ \A y \in Tasks : old[y] \in Nat /\ new[y] \in Nat
          /\ Owed(e, p) = Total(new, Tasks) /\ Owed(d, p) = Total(old, Tasks)
      BY <1>3, SummandsTyped DEF Owed
    <2>2. /\ \A c \in N : old[c] = 0
          /\ \A c \in N : new[c] = plan[c - d.tasks].reward + plan[c - d.tasks].budget
      BY <1>7, <1>10, <1>11, <1>12 DEF Due
    <2>3. x \in Rest /\ \A y \in Rest \ {x} : old[y] = new[y]
      BY <1>6, <1>8, <1>10, <1>11, <1>12 DEF Due
    <2>4. /\ old[x] = d.task[x].spec.reward + d.task[x].spec.budget
          /\ new[x] = d.task[x].spec.reward + 0
      BY <1>5, <1>6, <1>8, <1>10, <1>11, <1>12 DEF Due
    <2> HIDE DEF old, new
    <2>5. Total(new, N) = PlanCost(plan) /\ IsFiniteSet(N)
      <3>1. /\ \A j \in 1 .. k : plan[j] \in Specs
            /\ DOMAIN plan = 1 .. k /\ k \in Nat
        BY <1>4 DEF k
      <3>2. /\ d.tasks \in Nat
            /\ \A c \in N : c - d.tasks \in 1 .. k /\ c \in Nat
        BY <1>3, <1>6, <1>12, DatabaseTables, PoolAssumption, SMT DEF Typed, Tasks
      <3>3. /\ \A j \in 1 .. k : d.tasks + j \in N
            /\ \A c \in N : new[c] = plan[c - d.tasks].reward + plan[c - d.tasks].budget
        BY <1>6, <2>2
      <3> DEFINE first == d.tasks
      <3>4. /\ k \in Nat /\ first \in Nat /\ DOMAIN plan = 1 .. k
            /\ \A j \in 1 .. k : plan[j] \in Specs
        BY <3>1, <3>2
      <3>5. /\ \A j \in 1 .. k : first + j \in N
            /\ \A c \in N : c - first \in 1 .. k /\ c \in Nat
            /\ \A c \in N : new[c] = plan[c - first].reward + plan[c - first].budget
        BY <3>2, <3>3
      <3> HIDE DEF first
      <3>6. AddUpTo(new, N, plan) /\ IsFiniteSet(N)
        BY <3>4, <3>5, PlanCostOfChildren, Zenon
      <3> QED  BY <3>6 DEF AddUpTo
    <2>6. IsFiniteSet(Rest) /\ Rest \cup N = Tasks /\ Rest \cap N = {}
      BY <1>12, TasksFinite, FS_Subset
    <2>7. Total(old, Rest) = Total(old, Tasks)
      BY <2>2, <2>6, TotalExtend
    <2>8. Total(new, Tasks) = Total(new, Rest) + Total(new, N)
      BY <2>1, <2>5, <2>6, TotalUnion
    <2>9. Total(new, Rest) = Total(old, Rest) - old[x] + new[x]
      BY <2>1, <2>3, <2>6, TotalChange
    <2>10. /\ d.task[x].spec.reward \in Nat /\ d.task[x].spec.budget \in Nat
           /\ Total(old, Rest) \in Int
      BY <1>3, <2>1, <2>7, SummandsTyped, ExistingRow, SpecFields
    <2>11. Total(new, N) \in Nat
      BY <1>12, <2>1, <2>5, TotalType
    <2> QED  BY <1>4, <2>1, <2>4, <2>5, <2>7, <2>8, <2>9, <2>10, <2>11, SMTT(30)
  <1>17. \A q \in Problems : Owed(e, q) <= Owed(d, q)
    <2>1. \A q : Owed(d, q) \in Nat /\ Owed(e, q) \in Nat
      BY <1>3, SummandsTyped
    <2> QED  BY <1>15, <1>16, <2>1, SMT
  <1>18. NoPass(d, e)
    <2>1. \A y \in Tasks \ Existing(d) : d.submissions[y] = << >>
      BY <1>3 DEF ReferencesOK
    <2> QED  BY <1>6, <1>9, <2>1 DEF NoPass
  <1>19. Accounts(d, e)
    BY <1>9, <1>13, <1>17 DEF Accounts, Idle, SameMoney
  <1>20. Unearned(d, e)
    BY <1>9, <1>14, <1>18 DEF Unearned, SameMoney
  <1> QED  BY <1>19, <1>20

\* What node n earns with task x: its part of the reward, beside the platform's.
Earns(d, e, n, x) ==
    \E pay \in Nat, cut \in Nat :
        /\ pay + cut = d.task[x].spec.reward
        /\ pay = ProviderEarning(d.task[x].spec.reward, d.problem[d.task[x].problem].fee)
        /\ e.payable = [d.payable EXCEPT ![n] = d.payable[n] + pay]
        /\ e.revenue = d.revenue + cut
        /\ Total(Fetched(e), Tasks) = Total(Fetched(d), Tasks) + (pay + cut)
        /\ \E row \in SubmissionRow :
              /\ row.node = n /\ row.outcome = "pass" /\ row.earned = pay
              /\ e.submissions[x] = Append(d.submissions[x], row)
        /\ \A c \in Existing(d) \ {x} : e.submissions[c] = d.submissions[c]

\* A passed result draws its reward on the order, or completes it.
LEMMA PassingAccounts ==
    ASSUME NEW d, Grown(d), NEW e, NEW n \in Nodes, NEW x \in Existing(d),
           d.task[x].state = "leased", Passes(d, e, n, x)
    PROVE  Accounts(d, e) /\ Earns(d, e, n, x)
PROOF
  <1> DEFINE p == d.task[x].problem
             spec == d.task[x].spec
             reward == spec.reward
             cut == PlatformFee(spec.reward, d.problem[p].fee)
             pay == ProviderEarning(spec.reward, d.problem[p].fee)
             left == d.escrow[p] - reward
             done == OthersAccepted(d, x, p)
  <1>1. /\ Typed(d) /\ d \in Database /\ p \in Problems /\ spec \in Specs /\ x \in Tasks
        /\ d.problem[p] \in ProblemRow /\ d.problem[p].status = "active"
    <2>1. Typed(d) /\ Treed(d) /\ d \in Database
      BY DEF Grown, Kept, Typed
    <2> QED  BY <2>1, ExistingRow, ActiveWork, DatabaseTables
  <1>2. pay \in Nat /\ cut \in Nat /\ pay + cut = reward /\ reward \in Nat \ {0}
    <2>1. \A row \in ProblemRow : row.fee \in BasisPoints
      BY SMT DEF ProblemRow
    <2>2. pay \in Nat \ {0} /\ cut \in Nat /\ pay + cut = spec.reward
      BY <1>1, <2>1, EarningPositive
    <2> QED  BY <1>1, <2>2, SpecFields
  <1>3. pay = spec.reward - cut
    BY DEF ProviderEarning
  <1>4. /\ SameTree(d, e) /\ Existing(e) = Existing(d)
        /\ \A c \in Existing(d) \ {x} :
              e.task[c].state = "accepted" <=> d.task[c].state = "accepted"
        /\ e.task[x].state = "accepted"
    BY DEF Passes, SameTree, SameTask, Existing, Reopened
  <1>5. /\ \A q : Of(e, q) = Of(d, q)
        /\ \A c : HasChild(e, c) <=> HasChild(d, c)
        /\ \A c \in Existing(d) : e.task[c].spec = d.task[c].spec
        /\ \A q : \A c \in Of(d, q) : c \in Existing(d)
        /\ x \in Of(d, p) /\ \A q : q # p => x \notin Of(d, q)
    BY <1>4 DEF SameTree, SameTask, Of, HasChild
  <1>6. /\ e.payable = [d.payable EXCEPT ![n] = d.payable[n] + pay]
        /\ e.revenue = d.revenue + cut
        /\ \E row \in SubmissionRow :
              /\ row.node = n /\ row.outcome = "pass" /\ row.earned = pay
              /\ e.submissions[x] = Append(d.submissions[x], row)
        /\ \A c \in Existing(d) \ {x} : e.submissions[c] = d.submissions[c]
    BY <1>3 DEF Passes
  <1>7. /\ \A q \in Problems \ {p} :
              /\ e.problem[q] = d.problem[q] /\ e.escrow[q] = d.escrow[q]
              /\ e.refund[q] = d.refund[q] /\ e.refunds[q] = d.refunds[q]
        /\ e.problem[p] = IF done THEN [d.problem[p] EXCEPT !.status = "completed"]
                          ELSE d.problem[p]
        /\ IF done /\ left > 0
           THEN /\ e.escrow[p] = 0 /\ e.refund[p] = d.refund[p] + left
                /\ e.refunds[p] = d.refunds[p] + 1
           ELSE /\ e.escrow[p] = left /\ e.refund[p] = d.refund[p]
                /\ e.refunds[p] = d.refunds[p]
    BY DEF Passes
  <1> HIDE DEF spec, reward, cut, pay, left, done
  <1>9. ASSUME NEW q, q # p
        PROVE  PaidOut(e, q) = PaidOut(d, q) /\ Owed(e, q) = Owed(d, q)
    <2>1. \A c \in Tasks : Won(e, q)[c] = Won(d, q)[c]
      BY <1>4, <1>5, <1>9 DEF Won
    <2>2. \A c \in Tasks : Due(e, q)[c] = Due(d, q)[c]
      BY <1>4, <1>5, <1>9 DEF Due
    <2> QED  BY <2>1, <2>2, TotalSame DEF PaidOut, Owed
  <1>10. /\ \A c \in Tasks : /\ Won(d, p)[c] \in Nat /\ Due(d, p)[c] \in Nat
                             /\ Fetched(d)[c] \in Nat
         /\ PaidOut(d, p) \in Nat /\ Owed(d, p) \in Nat
         /\ PaidOut(d, p) = Total(Won(d, p), Tasks)
         /\ Owed(d, p) = Total(Due(d, p), Tasks)
         /\ Total(Fetched(d), Tasks) \in Nat
    <2>1. Total(Fetched(d), Tasks) \in Nat
      BY <1>1, SummandsTyped, TasksFinite, TotalType, Zenon
    <2> QED  BY <1>1, <2>1, SummandsTyped DEF PaidOut, Owed
  <1>11. PaidOut(e, p) = PaidOut(d, p) + reward
    <2>1. /\ \A c \in Tasks \ {x} : Won(d, p)[c] = Won(e, p)[c]
          /\ Won(d, p)[x] = 0 /\ Won(e, p)[x] = reward
      BY <1>1, <1>4, <1>5 DEF Won, reward, spec
    <2>2. \A c \in Tasks : Won(e, p)[c] \in Nat
      BY <1>2, <1>10, <2>1
    <2>3. PaidOut(e, p) = PaidOut(d, p) - Won(d, p)[x] + Won(e, p)[x]
      BY <1>1, <1>10, <2>1, <2>2, TasksFinite, TotalChange DEF PaidOut
    <2> QED  BY <1>2, <1>10, <2>1, <2>3, SMT
  <1>12. Owed(e, p) <= Owed(d, p) - reward /\ Owed(e, p) \in Nat
    <2> DEFINE more == IF HasChild(d, x) THEN 0 ELSE spec.budget
    <2>1. /\ \A c \in Tasks \ {x} : Due(d, p)[c] = Due(e, p)[c]
          /\ Due(d, p)[x] = reward + more /\ Due(e, p)[x] = 0
      BY <1>1, <1>4, <1>5 DEF Due, reward, spec
    <2>2. \A c \in Tasks : Due(e, p)[c] \in Nat
      BY <1>10, <2>1
    <2>3. Owed(e, p) = Owed(d, p) - Due(d, p)[x] + Due(e, p)[x]
      BY <1>1, <1>10, <2>1, <2>2, TasksFinite, TotalChange DEF Owed
    <2>4. more \in Nat
      BY <1>1, SpecFields
    <2>5. Owed(e, p) \in Nat
      BY <2>2, TasksFinite, TotalType, Zenon DEF Owed
    <2> HIDE DEF more
    <2> QED  BY <1>2, <1>10, <2>1, <2>3, <2>4, <2>5, SMT
  <1>13. Total(Fetched(e), Tasks) = Total(Fetched(d), Tasks) + reward
    <2>1. /\ \A c \in Tasks \ {x} : Fetched(d)[c] = Fetched(e)[c]
          /\ Fetched(d)[x] = 0 /\ Fetched(e)[x] = reward
      BY <1>1, <1>4, <1>5 DEF Fetched, reward, spec
    <2>2. \A c \in Tasks : Fetched(e)[c] \in Nat
      BY <1>2, <1>10, <2>1
    <2>3. Total(Fetched(e), Tasks) = Total(Fetched(d), Tasks) - Fetched(d)[x] + Fetched(e)[x]
      BY <1>1, <1>10, <2>1, <2>2, TasksFinite, TotalChange
    <2> QED  BY <1>2, <1>10, <2>1, <2>3, SMT
  <1>14. Earns(d, e, n, x)
    <2>1. pay + cut = d.task[x].spec.reward
      BY <1>2 DEF reward, spec
    <2>2. pay = ProviderEarning(d.task[x].spec.reward, d.problem[d.task[x].problem].fee)
      BY DEF pay, spec
    <2>3. Total(Fetched(e), Tasks) = Total(Fetched(d), Tasks) + (pay + cut)
      BY <1>2, <1>13
    <2> QED  BY <1>2, <1>6, <2>1, <2>2, <2>3 DEF Earns
  <1>15. Draws(d, e, p) \/ Shuts(d, e, p)
    <2>1. CASE ~done
      <3>1. Draws(d, e, p)
        BY <1>1, <1>2, <1>7, <1>11, <1>12, <2>1 DEF Draws, left
      <3> QED  BY <3>1
    <2>2. CASE done
      <3>1. "completed" \in TerminalStatus
        BY DEF TerminalStatus
      <3>2. reward <= Owed(d, p) /\ reward > 0 /\ reward \in Nat
        BY <1>2, <1>10, <1>12, SMT
      <3>3. IF left > 0
            THEN /\ e.escrow[p] = 0 /\ e.refund[p] = d.refund[p] + left
                 /\ e.refunds[p] = d.refunds[p] + 1
            ELSE /\ e.escrow[p] = left /\ e.refund[p] = d.refund[p]
                 /\ e.refunds[p] = d.refunds[p]
        BY <1>7, <2>2
      <3>4. e.problem[p] = [d.problem[p] EXCEPT !.status = "completed"]
        BY <1>7, <2>2
      <3>5. Shuts(d, e, p)
        BY <1>1, <1>11, <3>1, <3>2, <3>3, <3>4, Zenon DEF Shuts, left
      <3> QED  BY <3>5
    <2> QED  BY <2>1, <2>2
  <1>16. ASSUME NEW q \in Problems \ {p}
         PROVE  Idle(d, e, q)
    <2>1. Owed(d, q) \in Nat
      BY <1>1, SummandsTyped
    <2>2. Owed(e, q) <= Owed(d, q)
      BY <1>9, <2>1, SMT
    <2> QED  BY <1>7, <1>9, <2>2 DEF Idle
  <1>17. Accounts(d, e)
    BY <1>15, <1>16 DEF Accounts
  <1> QED  BY <1>14, <1>17

\* What a move does to the ledger as a whole.
LEMMA MoveAccounts ==
    ASSUME NEW d, Grown(d), NEW e, Grown(e), Move(d, e)
    PROVE  /\ Accounts(d, e)
           /\ \/ Unearned(d, e)
              \/ \E n \in Nodes, r \in Requests, x \in Existing(d) :
                    LiveLease(d, n, r, x) /\ Passes(d, e, n, x) /\ Earns(d, e, n, x)
PROOF
  <1>1. CASE Passing(d, e)
    <2>1. PICK n \in Nodes, r \in Requests, x \in Existing(d) :
             LiveLease(d, n, r, x) /\ Passes(d, e, n, x)
      BY <1>1 DEF Passing
    <2>2. d.task[x].state = "leased"
      BY <2>1 DEF LiveLease
    <2>3. Accounts(d, e) /\ Earns(d, e, n, x)
      BY <2>1, <2>2, PassingAccounts
    <2> QED  BY <2>1, <2>3
  <1>2. CASE ~Passing(d, e)
    <2>1. \/ Closing(d, e) \/ Lapsing(d, e) \/ Leasing(d, e)
          \/ (Proposing(d, e) \/ Rejecting(d, e))
          \/ Approving(d, e) \/ Inserting(d, e) \/ Offering(d, e)
      BY <1>2 DEF Move
    <2>2. Settles(d, e) => Accounts(d, e)
      BY DEF Settles, Accounts
    <2> QED  BY <2>1, <2>2, ClosingAccounts, LapsingAccounts, LeasingAccounts, TurningAccounts,
                ApprovingAccounts, InsertingAccounts, OfferingAccounts, Zenon
  <1> QED  BY <1>1, <1>2

\* A move keeps the tasks there are, and what they are.
LEMMA MoveSameTask ==
    ASSUME NEW d, Grown(d), NEW e, Move(d, e)
    PROVE  /\ Existing(d) \subseteq Existing(e)
           /\ \A x \in Existing(d) : SameTask(d.task[x], e.task[x])
PROOF
  <1>1. Typed(d)
    BY DEF Grown, Kept
  <1>2. \A row : SameTask(row, row)
    BY DEF SameTask
  <1>3. CASE \/ Closing(d, e) \/ Lapsing(d, e) \/ Leasing(d, e) \/ Proposing(d, e)
             \/ Rejecting(d, e)
    <2>1. SameTree(d, e)
      <3>1. CASE Closing(d, e)
        BY <1>2, <3>1 DEF Closing, Ends, SameTree
      <3>2. CASE Lapsing(d, e)
        BY <1>2, <3>2 DEF Lapsing, Frees, SameTree
      <3>3. CASE Leasing(d, e)
        BY <1>2, <3>3 DEF Leasing, Gives, SameTree
      <3>4. CASE Proposing(d, e) \/ Rejecting(d, e)
        BY <1>2, <3>4 DEF Proposing, Rejecting, Turns, SameTree
      <3> QED  BY <1>3, <3>1, <3>2, <3>3, <3>4
    <2> QED  BY <2>1 DEF SameTree, Existing
  <1>4. CASE Approving(d, e)
    <2>1. PICK x \in Existing(d), selfOk \in BOOLEAN : \E i \in DOMAIN d.delegations[x] :
             LET row == d.delegations[x][i] IN
             Approves(d, e, x, row.plan, row.node, selfOk,
                      Decided(d.delegations[x], i, "approved"))
      BY <1>4 DEF Approving
    <2>2. PICK i \in DOMAIN d.delegations[x] :
             LET row == d.delegations[x][i] IN
             Approves(d, e, x, row.plan, row.node, selfOk,
                      Decided(d.delegations[x], i, "approved"))
      BY <2>1
    <2>3. PICK plan, by, rows : Approves(d, e, x, plan, by, selfOk, rows) /\ Len(plan) \in Nat
      BY <1>1, <2>2, StoredPlan
    <2>4. e.tasks = d.tasks + Len(plan)
      BY <2>3 DEF Approves
    <2>5. Existing(d) \subseteq Existing(e)
      BY <1>1, <2>3, <2>4, Numbered
    <2> QED  BY <1>2, <2>3, <2>5 DEF Approves
  <1>5. CASE Passing(d, e)
    <2>1. PICK n \in Nodes, x \in Existing(d) : Passes(d, e, n, x)
      BY <1>5 DEF Passing
    <2>2. e.tasks = d.tasks /\ \A c \in Existing(d) : SameTask(d.task[c], e.task[c])
      BY <1>2, <2>1 DEF Passes
    <2> QED  BY <2>2 DEF Existing
  <1>6. CASE Inserting(d, e)
    <2>1. PICK p \in Problems, b \in ProblemRequest : Inserts(d, e, p, b)
      BY <1>6 DEF Inserting
    <2>2. e.tasks = d.tasks + 1
      BY <2>1 DEF Inserts
    <2>3. Existing(d) \subseteq Existing(e)
      BY <1>1, <2>2, Numbered, SMT
    <2> QED  BY <1>2, <2>1, <2>3 DEF Inserts
  <1>7. CASE Offering(d, e)
    <2>1. e.task = d.task /\ e.tasks = d.tasks
      <3>1. d \in Database /\ e = [d EXCEPT !.offering = e.offering]
        BY <1>1, <1>7 DEF Offering, Typed
      <3> QED  BY <3>1, SMT DEF Database
    <2> QED  BY <1>2, <2>1 DEF Existing
  <1> QED  BY <1>3, <1>4, <1>5, <1>6, <1>7 DEF Move

-----------------------------------------------------------------------------
(* What a node is quoted it is paid *)

Pay(d, x) == ProviderEarning(d.task[x].spec.reward, d.problem[d.task[x].problem].fee)

\* The fee a task is paid at was fixed when its problem was created.
LEMMA MovePay ==
    ASSUME NEW d, Grown(d), NEW e, Grown(e), Move(d, e)
    PROVE  \A x \in Existing(d) : x \in Existing(e) /\ Pay(e, x) = Pay(d, x)
PROOF
  <1> SUFFICES ASSUME NEW x \in Existing(d) PROVE x \in Existing(e) /\ Pay(e, x) = Pay(d, x)
    OBVIOUS
  <1> DEFINE p == d.task[x].problem
  <1>1. x \in Existing(e) /\ e.task[x].problem = p /\ e.task[x].spec = d.task[x].spec
    BY MoveSameTask DEF SameTask
  <1>2. Typed(d) /\ p \in Problems /\ d.problem[p] \in ProblemRow /\ d.problem[p].status # "none"
    BY ExistingRow, DatabaseTables DEF Grown, Kept, Typed, ReferencesOK
  <1> HIDE DEF p
  <1>3. \A row \in ProblemRow : \A status : [row EXCEPT !.status = status].fee = row.fee
    BY SMT DEF ProblemRow
  <1>4. e.problem[p].fee = d.problem[p].fee
    <2>1. Idle(d, e, p) \/ Draws(d, e, p) \/ Shuts(d, e, p)
      BY <1>2, MoveAccounts DEF Accounts, Funds
    <2> QED  BY <1>2, <1>3, <2>1 DEF Idle, Draws, Shuts
  <1> QED  BY <1>1, <1>4 DEF Pay, p

\* Every lease request quotes what its task pays, and whoever passed has one and
\* was paid that.
Quoted(d) ==
    /\ \A n \in Nodes, r \in Requests :
          d.requests[n][r] # None => d.requests[n][r].quote = Pay(d, d.requests[n][r].task)
    /\ \A x \in Existing(d) : \A i \in DOMAIN d.submissions[x] :
          d.submissions[x][i].outcome = "pass" =>
              /\ d.submissions[x][i].earned = Pay(d, x)
              /\ \E r \in Requests : /\ d.requests[d.submissions[x][i].node][r] # None
                                     /\ d.requests[d.submissions[x][i].node][r].task = x

\* Every move keeps that.
LEMMA MoveQuoted ==
    ASSUME NEW d, Grown(d), NEW e, Grown(e), Honest(d), Quoted(d), Move(d, e)
    PROVE  Quoted(e)
PROOF
  <1>1. Typed(d) /\ Typed(e)
    BY DEF Grown, Kept
  <1>2. \A n \in Nodes, r \in Requests :
           d.requests[n][r] # None => d.requests[n][r].task \in Existing(d)
    BY <1>1 DEF Typed, ReferencesOK
  <1>3. /\ \A n \in Nodes, r \in Requests : d.requests[n][r] # None =>
              e.requests[n][r] = d.requests[n][r]
        /\ \A n \in Nodes, r \in Requests :
              e.requests[n][r] # None /\ d.requests[n][r] = None =>
                 /\ e.requests[n][r].quote = Pay(d, e.requests[n][r].task)
                 /\ e.requests[n][r].task \in Existing(d)
    <2>1. CASE ~Leasing(d, e)
      <3>1. e.requests = d.requests
        BY <2>1, MoveShrinks DEF Shrinks, Move, OtherMove
      <3> QED  BY <3>1
    <2>2. CASE Leasing(d, e)
      <3>1. PICK m \in Nodes, k \in Requests :
               /\ d.requests[m][k] = None
               /\ \E x \in Candidates(d, m) : Gives(d, e, m, k, x)
        BY <2>2 DEF Leasing
      <3>2. PICK x \in Candidates(d, m) : Gives(d, e, m, k, x)
        BY <3>1
      <3>3. x \in Existing(d)
        BY DEF Candidates, InState
      <3>4. \A n \in Nodes, r \in Requests :
               e.requests[n][r] = IF n = m /\ r = k THEN [task |-> x, quote |-> Pay(d, x)]
                                  ELSE d.requests[n][r]
        BY <3>2 DEF Gives, Pay
      <3>5. [task |-> x, quote |-> Pay(d, x)].task = x
            /\ [task |-> x, quote |-> Pay(d, x)].quote = Pay(d, x)
        OBVIOUS
      <3> QED  BY <3>1, <3>3, <3>4, <3>5
    <2> QED  BY <2>1, <2>2
  <1>4. ASSUME NEW n \in Nodes, NEW r \in Requests, e.requests[n][r] # None
        PROVE  e.requests[n][r].quote = Pay(e, e.requests[n][r].task)
    <2>1. CASE d.requests[n][r] = None
      BY <1>3, <1>4, <2>1, MovePay
    <2>2. CASE d.requests[n][r] # None
      BY <1>2, <1>3, <2>2, MovePay DEF Quoted
    <2> QED  BY <2>1, <2>2
  <1> DEFINE Asked(c, n, x) == \E r \in Requests : /\ c.requests[n][r] # None
                                                   /\ c.requests[n][r].task = x
  <1>5. \A n \in Nodes : \A x : Asked(d, n, x) => Asked(e, n, x)
    BY <1>3
  <1>6. ASSUME NEW x \in Existing(d), NEW i \in DOMAIN d.submissions[x],
               d.submissions[x][i].outcome = "pass"
        PROVE  /\ d.submissions[x][i].node \in Nodes
               /\ d.submissions[x][i].earned = Pay(e, x)
               /\ Asked(e, d.submissions[x][i].node, x)
    <2>1. d.submissions[x] \in Seq(SubmissionRow)
      BY <1>1, ExistingRow
    <2>2. d.submissions[x][i] \in SubmissionRow
      BY <2>1, SMT
    <2>3. \A row \in SubmissionRow : row.node \in Nodes
      BY SMT DEF SubmissionRow
    <2>4. d.submissions[x][i].earned = Pay(d, x) /\ Asked(d, d.submissions[x][i].node, x)
      BY <1>6 DEF Quoted
    <2> QED  BY <1>5, <2>2, <2>3, <2>4, MovePay, ZenonT(60)
  <1>7. ASSUME NEW rows \in Seq(SubmissionRow), NEW row, NEW i \in DOMAIN Append(rows, row)
        PROVE  \/ i \in DOMAIN rows /\ Append(rows, row)[i] = rows[i]
               \/ Append(rows, row)[i] = row
    BY SMT
  <1> HIDE DEF Asked
  <1>8. ASSUME NEW x \in Existing(e), NEW i \in DOMAIN e.submissions[x],
               e.submissions[x][i].outcome = "pass"
        PROVE  /\ e.submissions[x][i].earned = Pay(e, x)
               /\ Asked(e, e.submissions[x][i].node, x)
    <2>1. CASE Unearned(d, e)
      <3>1. NoPass(d, e)
        BY <2>1 DEF Unearned
      <3>2. x \in Existing(d)
        BY <1>8, <3>1 DEF NoPass
      <3>3. d.submissions[x] \in Seq(SubmissionRow)
        BY <1>1, <3>2, ExistingRow
      <3>4. i \in DOMAIN d.submissions[x] /\ e.submissions[x][i] = d.submissions[x][i]
        <4>1. CASE e.submissions[x] = d.submissions[x]
          BY <4>1
        <4>2. CASE e.submissions[x] # d.submissions[x]
          <5>1. PICK row \in SubmissionRow :
                   row.outcome = "reject" /\ e.submissions[x] = Append(d.submissions[x], row)
            BY <3>1, <3>2, <4>2 DEF NoPass
          <5> QED  BY <1>7, <1>8, <3>3, <5>1
        <4> QED  BY <4>1, <4>2
      <3> QED  BY <1>6, <1>8, <3>2, <3>4
    <2>2. ASSUME NEW n \in Nodes, NEW r \in Requests, NEW y \in Existing(d),
                 LiveLease(d, n, r, y), Passes(d, e, n, y), Earns(d, e, n, y)
          PROVE  /\ e.submissions[x][i].earned = Pay(e, x)
                 /\ Asked(e, e.submissions[x][i].node, x)
      <3>1. PICK row \in SubmissionRow :
               /\ row.node = n /\ row.earned = Pay(d, y)
               /\ e.submissions[y] = Append(d.submissions[y], row)
        BY <2>2 DEF Earns, Pay
      <3>2. x \in Existing(d) /\ d.submissions[x] \in Seq(SubmissionRow)
        BY <1>1, <2>2, ExistingRow DEF Passes, Existing
      <3>3. CASE i \in DOMAIN d.submissions[x] /\ e.submissions[x][i] = d.submissions[x][i]
        BY <1>6, <1>8, <3>2, <3>3
      <3>4. CASE x = y /\ e.submissions[x][i] = row
        <4>1. HonestAt(d, x)
          BY <2>2, <3>2, <3>4 DEF Honest, LiveLease, InState
        <4>2. d.requests[n][r] # None /\ d.requests[n][r].task = x
          BY <2>2, <3>4, <4>1 DEF LiveLease, HonestAt
        <4>3. Asked(d, n, x)
          BY <4>2 DEF Asked
        <4> QED  BY <1>5, <3>1, <3>2, <3>4, <4>3, MovePay
      <3>5. \/ i \in DOMAIN d.submissions[x] /\ e.submissions[x][i] = d.submissions[x][i]
            \/ x = y /\ e.submissions[x][i] = row
        <4>1. CASE x = y
          BY <1>7, <1>8, <3>1, <3>2, <4>1, ZenonT(60)
        <4>2. CASE x # y
          BY <2>2, <3>2, <4>2 DEF Earns
        <4> QED  BY <4>1, <4>2
      <3> QED  BY <3>3, <3>4, <3>5
    <2> QED  BY <2>1, <2>2, MoveAccounts
  <1> QED  BY <1>4, <1>8 DEF Quoted, Asked

-----------------------------------------------------------------------------
(* Solvency *)

\* What there is in the accounts of problem p.  An active problem holds what it
\* may still owe; one that ended holds nothing and was refunded at most once.
SolventAt(d, p) ==
    LET status == d.problem[p].status IN
    /\ status = "none" => /\ d.escrow[p] = 0 /\ d.refund[p] = 0 /\ d.refunds[p] = 0
                          /\ PaidOut(d, p) = 0
    /\ status = "active" => d.escrow[p] >= Owed(d, p) /\ d.refund[p] = 0 /\ d.refunds[p] = 0
    /\ status \in TerminalStatus => d.escrow[p] = 0 /\ d.refunds[p] <= 1
    /\ status # "none" => d.escrow[p] + d.refund[p] + PaidOut(d, p) = d.problem[p].funded

\* And all of it together.
Balanced(d) ==
    /\ Total(d.payable, Nodes) + d.revenue = Total(Fetched(d), Tasks)
    /\ \A n \in Nodes : d.payable[n] = Total(Gain(d, n), Tasks)

Solvent(d) == (\A p \in Problems : SolventAt(d, p)) /\ Balanced(d)

\* The numbers in the accounts are numbers.
LEMMA AccountsTyped ==
    ASSUME NEW d, Typed(d), NEW p \in Problems
    PROVE  /\ d.problem[p] \in ProblemRow /\ d.problem[p].funded \in Nat
           /\ d.problem[p].status \in Status
           /\ d.escrow[p] \in Int /\ d.refund[p] \in Nat /\ d.refunds[p] \in Nat
           /\ PaidOut(d, p) \in Nat /\ Owed(d, p) \in Nat
PROOF
  <1>1. d.problem[p] \in ProblemRow
    BY DatabaseTables DEF Typed
  <1>2. \A row \in ProblemRow : row.funded \in Nat /\ row.status \in Status
    BY SMT DEF ProblemRow
  <1> QED  BY <1>1, <1>2, SummandsTyped, DatabaseTables DEF Typed

\* Each of the four things a move can do to an order leaves it solvent.
LEMMA OrderSolvent ==
    ASSUME NEW d, Typed(d), NEW e, Typed(e), NEW p \in Problems, SolventAt(d, p),
           Idle(d, e, p) \/ Funds(d, e, p) \/ Draws(d, e, p) \/ Shuts(d, e, p)
    PROVE  SolventAt(e, p)
PROOF
  <1>1. /\ d.problem[p] \in ProblemRow /\ d.problem[p].funded \in Nat
        /\ d.problem[p].status \in Status
        /\ d.escrow[p] \in Int /\ d.refund[p] \in Nat /\ d.refunds[p] \in Nat
        /\ PaidOut(d, p) \in Nat /\ Owed(d, p) \in Nat
    BY AccountsTyped
  <1>2. /\ e.problem[p].funded \in Nat /\ e.escrow[p] \in Int /\ e.refund[p] \in Nat
        /\ e.refunds[p] \in Nat /\ PaidOut(e, p) \in Nat /\ Owed(e, p) \in Nat
    BY AccountsTyped
  <1>3. "none" \notin TerminalStatus /\ "active" \notin TerminalStatus
    BY DEF TerminalStatus
  <1>4. CASE Idle(d, e, p)
    <2>1. d.escrow[p] >= Owed(d, p) => d.escrow[p] >= Owed(e, p)
      BY <1>1, <1>2, <1>4, SMT DEF Idle
    <2> QED  BY <1>4, <2>1 DEF Idle, SolventAt
  <1>5. CASE Funds(d, e, p)
    <2>1. PICK b \in ProblemRequest :
             /\ d.problem[p].status = "none"
             /\ e.problem[p].status = "active" /\ e.problem[p].funded = b.funded
             /\ e.escrow[p] = d.escrow[p] + b.funded
             /\ e.refund[p] = d.refund[p] /\ e.refunds[p] = d.refunds[p]
             /\ PaidOut(e, p) = PaidOut(d, p) /\ Owed(e, p) <= b.funded
      BY <1>5 DEF Funds
    <2>2. /\ d.escrow[p] = 0 /\ d.refund[p] = 0 /\ d.refunds[p] = 0 /\ PaidOut(d, p) = 0
      BY <2>1 DEF SolventAt
    <2>3. e.escrow[p] >= Owed(e, p)
          /\ e.escrow[p] + e.refund[p] + PaidOut(e, p) = e.problem[p].funded
      BY <1>2, <2>1, <2>2, SMT
    <2> QED  BY <1>3, <2>1, <2>2, <2>3 DEF SolventAt
  <1>6. CASE Draws(d, e, p)
    <2>1. PICK reward \in Nat \ {0} :
             /\ d.problem[p].status = "active" /\ e.problem[p] = d.problem[p]
             /\ e.escrow[p] = d.escrow[p] - reward
             /\ e.refund[p] = d.refund[p] /\ e.refunds[p] = d.refunds[p]
             /\ PaidOut(e, p) = PaidOut(d, p) + reward /\ Owed(e, p) <= Owed(d, p) - reward
      BY <1>6 DEF Draws
    <2>2. /\ d.escrow[p] >= Owed(d, p) /\ d.refund[p] = 0 /\ d.refunds[p] = 0
          /\ d.escrow[p] + d.refund[p] + PaidOut(d, p) = d.problem[p].funded
      BY <2>1 DEF SolventAt
    <2>3. e.escrow[p] >= Owed(e, p)
          /\ e.escrow[p] + e.refund[p] + PaidOut(e, p) = e.problem[p].funded
      BY <1>1, <1>2, <2>1, <2>2, SMT
    <2> QED  BY <1>3, <2>1, <2>2, <2>3 DEF SolventAt
  <1>7. CASE Shuts(d, e, p)
    <2>1. PICK reward \in Nat : \E status \in TerminalStatus :
             /\ d.problem[p].status = "active"
             /\ e.problem[p] = [d.problem[p] EXCEPT !.status = status]
             /\ reward <= Owed(d, p)
             /\ PaidOut(e, p) = PaidOut(d, p) + reward
             /\ LET left == d.escrow[p] - reward
                IN  IF left > 0
                    THEN /\ e.escrow[p] = 0 /\ e.refund[p] = d.refund[p] + left
                         /\ e.refunds[p] = d.refunds[p] + 1
                    ELSE /\ e.escrow[p] = left /\ e.refund[p] = d.refund[p]
                         /\ e.refunds[p] = d.refunds[p]
      BY <1>7, Zenon DEF Shuts
    <2>2. \A row \in ProblemRow : \A status :
             LET new == [row EXCEPT !.status = status] IN
             new.status = status /\ new.funded = row.funded
      BY SMT DEF ProblemRow
    <2>3. e.problem[p].status \in TerminalStatus /\ e.problem[p].funded = d.problem[p].funded
      BY <1>1, <2>1, <2>2
    <2>4. /\ d.escrow[p] >= Owed(d, p) /\ d.refund[p] = 0 /\ d.refunds[p] = 0
          /\ d.escrow[p] + d.refund[p] + PaidOut(d, p) = d.problem[p].funded
      BY <2>1 DEF SolventAt
    <2>5. d.escrow[p] - reward >= 0
      BY <1>1, <2>1, <2>4, SMT
    <2> DEFINE left == d.escrow[p] - reward
    <2>6. /\ e.escrow[p] = 0 /\ e.refund[p] = left /\ e.refunds[p] <= 1
      <3>1. CASE left > 0
        <4>1. e.escrow[p] = 0 /\ e.refund[p] = 0 + left /\ e.refunds[p] = 0 + 1
          BY <2>1, <2>4, <3>1
        <4> QED  BY <1>1, <4>1, SMT
      <3>2. CASE ~(left > 0)
        <4>1. e.escrow[p] = left /\ e.refund[p] = 0 /\ e.refunds[p] = 0
          BY <2>1, <2>4, <3>2
        <4>2. left = 0
          BY <1>1, <2>5, <3>2, SMT
        <4> QED  BY <4>1, <4>2, SMT
      <3> QED  BY <3>1, <3>2
    <2>7. e.escrow[p] + e.refund[p] + PaidOut(e, p) = e.problem[p].funded
      BY <1>1, <1>2, <2>1, <2>3, <2>4, <2>6, SMT
    <2> QED  BY <1>3, <2>3, <2>6, <2>7 DEF SolventAt
  <1> QED  BY <1>4, <1>5, <1>6, <1>7

\* A passed result is what its node gains with the task, and nobody else gains.
LEMMA EarnsGain ==
    ASSUME NEW d, Grown(d), NEW e, NEW n \in Nodes, NEW x \in Existing(d),
           d.task[x].state = "leased", Existing(e) = Existing(d), NEW pay \in Nat,
           \E row \in SubmissionRow :
              /\ row.node = n /\ row.outcome = "pass" /\ row.earned = pay
              /\ e.submissions[x] = Append(d.submissions[x], row),
           \A c \in Existing(d) \ {x} : e.submissions[c] = d.submissions[c]
    PROVE  \A m : Total(Gain(e, m), Tasks) = Total(Gain(d, m), Tasks) + IF m = n THEN pay ELSE 0
PROOF
  <1>1. Typed(d) /\ x \in Tasks /\ RowOK(d.task[x], d.submissions[x])
    BY ExistingRow DEF Grown, Kept, RowsOK
  <1>2. PICK row \in SubmissionRow :
           /\ row.node = n /\ row.outcome = "pass" /\ row.earned = pay
           /\ e.submissions[x] = Append(d.submissions[x], row)
    OBVIOUS
  <1> DEFINE rows == d.submissions[x]
             rows2 == e.submissions[x]
             last == Len(rows) + 1
  <1>3. /\ rows \in Seq(SubmissionRow) /\ rows2 = Append(rows, row)
    BY <1>1, <1>2, ExistingRow
  <1>4. \A i \in DOMAIN rows : rows[i].outcome # "pass"
    BY <1>1 DEF RowOK, OneEach
  <1> HIDE DEF rows, rows2
  <1>5. /\ \A i \in DOMAIN rows2 : i = last \/ (i \in DOMAIN rows /\ rows2[i] = rows[i])
        /\ last \in DOMAIN rows2 /\ rows2[last] = row
    BY <1>3, SMT
  <1> HIDE DEF last
  <1>6. \A m : Passed(d, x, m) = {}
    BY <1>4 DEF Passed, rows
  <1>7. Passed(e, x, n) = {last} /\ \A m : m # n => Passed(e, x, m) = {}
    BY <1>2, <1>4, <1>5 DEF Passed, rows2
  <1>8. Gain(e, n)[x] = pay
    <2>1. (CHOOSE i \in {last} : TRUE) = last
      OBVIOUS
    <2>2. Gain(e, n)[x] = e.submissions[x][CHOOSE i \in Passed(e, x, n) : TRUE].earned
      BY <1>1, <1>7 DEF Gain
    <2> QED  BY <1>2, <1>5, <1>7, <2>1, <2>2 DEF rows2
  <1>9. \A m : Gain(d, m)[x] = 0 /\ (m # n => Gain(e, m)[x] = 0)
    BY <1>1, <1>6, <1>7 DEF Gain
  <1>10. \A m : \A c \in Tasks \ {x} : Gain(d, m)[c] = Gain(e, m)[c]
    <2> SUFFICES ASSUME NEW m, NEW c \in Tasks \ {x} PROVE Gain(d, m)[c] = Gain(e, m)[c]
      OBVIOUS
    <2>1. c \in Existing(d) =>
             Passed(e, c, m) = Passed(d, c, m) /\ e.submissions[c] = d.submissions[c]
      BY DEF Passed
    <2>2. CASE c \in Existing(d) /\ Passed(d, c, m) # {}
      <3>1. Gain(d, m)[c] = d.submissions[c][CHOOSE i \in Passed(d, c, m) : TRUE].earned
        BY <2>2 DEF Gain
      <3>2. Gain(e, m)[c] = e.submissions[c][CHOOSE i \in Passed(e, c, m) : TRUE].earned
        BY <2>1, <2>2 DEF Gain
      <3> QED  BY <2>1, <2>2, <3>1, <3>2
    <2>3. CASE ~(c \in Existing(d) /\ Passed(d, c, m) # {})
      BY <2>1, <2>3 DEF Gain
    <2> QED  BY <2>2, <2>3
  <1>11. ASSUME NEW m
         PROVE  Total(Gain(e, m), Tasks)
                   = Total(Gain(d, m), Tasks) + IF m = n THEN pay ELSE 0
    <2>1. \A c \in Tasks : Gain(d, m)[c] \in Nat
      BY <1>1, SummandsTyped
    <2>2. \A c \in Tasks : Gain(e, m)[c] \in Nat
      BY <1>8, <1>9, <1>10, <2>1
    <2>3. Total(Gain(e, m), Tasks) = Total(Gain(d, m), Tasks) - Gain(d, m)[x] + Gain(e, m)[x]
      BY <1>1, <1>10, <2>1, <2>2, TasksFinite, TotalChange
    <2>4. Gain(d, m)[x] = 0 /\ Gain(e, m)[x] = IF m = n THEN pay ELSE 0
      BY <1>8, <1>9
    <2>5. Total(Gain(d, m), Tasks) \in Nat
      BY <2>1, TasksFinite, TotalType
    <2> QED  BY <2>3, <2>4, <2>5, SMT
  <1> QED  BY <1>11

\* Every move keeps the books balanced.
LEMMA MoveSolvent ==
    ASSUME NEW d, Grown(d), NEW e, Grown(e), Solvent(d), Move(d, e)
    PROVE  Solvent(e)
PROOF
  <1>1. Typed(d) /\ Typed(e)
    BY DEF Grown, Kept
  <1>2. \A p \in Problems : SolventAt(e, p)
    BY <1>1, MoveAccounts, OrderSolvent DEF Solvent, Accounts
  <1>3. CASE Unearned(d, e)
    <2>1. \A n : Total(Gain(e, n), Tasks) = Total(Gain(d, n), Tasks)
      BY <1>1, <1>3, SameGain DEF Unearned
    <2>2. Balanced(e)
      BY <1>3, <2>1 DEF Solvent, Balanced, Unearned
    <2> QED  BY <1>2, <2>2 DEF Solvent
  <1>4. ASSUME NEW n \in Nodes, NEW r \in Requests, NEW x \in Existing(d),
               LiveLease(d, n, r, x), Passes(d, e, n, x), Earns(d, e, n, x)
        PROVE  Solvent(e)
    <2>1. PICK pay \in Nat : \E cut \in Nat :
             /\ e.payable = [d.payable EXCEPT ![n] = d.payable[n] + pay]
             /\ e.revenue = d.revenue + cut
             /\ Total(Fetched(e), Tasks) = Total(Fetched(d), Tasks) + (pay + cut)
             /\ \E row \in SubmissionRow :
                   /\ row.node = n /\ row.outcome = "pass" /\ row.earned = pay
                   /\ e.submissions[x] = Append(d.submissions[x], row)
             /\ \A c \in Existing(d) \ {x} : e.submissions[c] = d.submissions[c]
      BY <1>4, Zenon DEF Earns
    <2>2. PICK cut \in Nat :
             /\ e.payable = [d.payable EXCEPT ![n] = d.payable[n] + pay]
             /\ e.revenue = d.revenue + cut
             /\ Total(Fetched(e), Tasks) = Total(Fetched(d), Tasks) + (pay + cut)
      BY <2>1
    <2>3. d.payable \in [Nodes -> Nat] /\ d.revenue \in Nat
      BY <1>1, DatabaseTables DEF Typed
    <2>4. Existing(e) = Existing(d) /\ d.task[x].state = "leased"
      BY <1>4 DEF Passes, Existing, LiveLease
    <2>5. \A m : Total(Gain(e, m), Tasks) = Total(Gain(d, m), Tasks) + IF m = n THEN pay ELSE 0
      BY <2>1, <2>4, EarnsGain
    <2>6. ASSUME NEW m \in Nodes
          PROVE  e.payable[m] = Total(Gain(e, m), Tasks)
      <3>1. d.payable[m] = Total(Gain(d, m), Tasks) /\ d.payable[m] \in Nat
        BY <2>3 DEF Solvent, Balanced
      <3>2. e.payable[m] = d.payable[m] + IF m = n THEN pay ELSE 0
        BY <2>2, <2>3, <3>1, SMT
      <3> QED  BY <2>5, <3>1, <3>2
    <2>7. Total(e.payable, Nodes) = Total(d.payable, Nodes) + pay
      <3>1. /\ \A m \in Nodes : d.payable[m] \in Nat /\ e.payable[m] \in Nat
            /\ \A m \in Nodes \ {n} : d.payable[m] = e.payable[m]
            /\ e.payable[n] = d.payable[n] + pay
        BY <2>2, <2>3, SMT
      <3>2. Total(e.payable, Nodes) = Total(d.payable, Nodes) - d.payable[n] + e.payable[n]
        BY <3>1, PoolAssumption, TotalChange
      <3>3. Total(d.payable, Nodes) \in Nat
        BY <3>1, PoolAssumption, TotalType
      <3> QED  BY <3>1, <3>2, <3>3, SMT
    <2>8. Total(e.payable, Nodes) + e.revenue = Total(Fetched(e), Tasks)
      <3>1. Total(d.payable, Nodes) + d.revenue = Total(Fetched(d), Tasks)
        BY DEF Solvent, Balanced
      <3>2. Total(d.payable, Nodes) \in Nat
        BY <2>3, PoolAssumption, TotalType
      <3> QED  BY <2>2, <2>3, <2>7, <3>1, <3>2, SMT
    <2> QED  BY <1>2, <2>6, <2>8 DEF Solvent, Balanced
  <1> QED  BY <1>3, <1>4, MoveAccounts

-----------------------------------------------------------------------------
(* The inductive invariant, and what follows from it *)

Sound(d) == Grown(d) /\ Honest(d) /\ Solvent(d) /\ Quoted(d)

\* A move keeps it,
LEMMA MoveSound ==
    ASSUME NEW d, Sound(d), NEW e, Grown(e), Move(d, e)
    PROVE  Sound(e)
PROOF BY MoveHonest, MoveSolvent, MoveQuoted DEF Sound

\* so an expiry does, and what a handler does after it,
LEMMA SweepsSound ==
    ASSUME NEW d, Sound(d), NEW e, Grown(e), Sweeps(d, e)
    PROVE  Sound(e)
PROOF
  <1>1. PICK d1, d2 : /\ Grown(d1) /\ Grown(d2)
                      /\ Closing(d, d1) /\ Lapsing(d1, d2) /\ Closing(d2, e)
    BY DEF Sweeps
  <1>2. Sound(d1)
    BY <1>1, MoveSound DEF Move
  <1>3. Sound(d2)
    BY <1>1, <1>2, MoveSound DEF Move
  <1> QED  BY <1>1, <1>3, MoveSound DEF Move

\* and what a handler does after it does.
LEMMA HandlesSound ==
    ASSUME NEW d, Sound(d), NEW e, Grown(e), Handles(d, e)
    PROVE  Sound(e)
PROOF
  <1>1. ASSUME NEW d1, Grown(d1), Lapsing(d, d1), Closing(d1, e)
        PROVE  Sound(e)
    <2>1. Sound(d1)
      BY <1>1, MoveSound DEF Move
    <2> QED  BY <1>1, <2>1, MoveSound DEF Move
  <1> QED  BY <1>1, MoveSound DEF Handles

\* and so every step does.
LEMMA SoundStep ==
    ASSUME TypeOK, Sound(db), [Next]_vars
    PROVE  Sound(db')
PROOF
  <1>1. Grown(db)
    BY DEF Sound
  <1>2. PICK d : Grown(d) /\ (d = db \/ Sweeps(db, d)) /\ Handles(d, db')
    BY <1>1, NextMoves
  <1>3. Grown(db')
    BY <1>1, GrownStep
  <1>4. Sound(d)
    BY <1>2, SweepsSound
  <1> QED  BY <1>2, <1>3, <1>4, HandlesSound

\* A database without rows.
LEMMA SoundInit == Init => Sound(db)
PROOF
  <1> SUFFICES ASSUME Init PROVE Sound(db)
    OBVIOUS
  <1>1. Grown(db)
    BY GrownInit
  <1>2. /\ db.tasks = 0
        /\ \A n \in Nodes, r \in Requests : db.requests[n][r] = None
        /\ \A p \in Problems : /\ db.problem[p].status = "none"
                               /\ db.escrow[p] = 0 /\ db.refund[p] = 0 /\ db.refunds[p] = 0
        /\ \A n \in Nodes : db.payable[n] = 0
        /\ db.revenue = 0
    BY DEF Init, EmptyDatabase
  <1>3. Existing(db) = {}
    BY <1>2, SMT DEF Existing
  <1>4. Honest(db)
    <2>1. \A n \in Nodes : InFlight(db, n) = {} /\ InState(db, "leased") = {}
      BY <1>3 DEF InFlight, InState
    <2>2. Cardinality({}) = 0 /\ 0 <= MaxInflight
      BY FS_EmptySet, ConfigAssumption, SMT
    <2> QED  BY <1>3, <2>1, <2>2 DEF Honest, InState
  <1>5. ASSUME NEW S, NEW a, \A x \in S : a[x] = 0
        PROVE  Total(a, S) = 0
    <2>1. Total(a, {}) = Total(a, S)
      BY <1>5, TotalExtend
    <2> QED  BY <2>1, TotalEmpty
  <1>6. \A p \in Problems : SolventAt(db, p)
    <2>1. ASSUME NEW p \in Problems
          PROVE  PaidOut(db, p) = 0
      <3>1. \A x \in Tasks : Won(db, p)[x] = 0
        BY <1>3 DEF Won, Of
      <3> QED  BY <1>5, <3>1 DEF PaidOut
    <2>2. "none" \notin TerminalStatus
      BY DEF TerminalStatus
    <2> QED  BY <1>2, <2>1, <2>2 DEF SolventAt
  <1>7. Balanced(db)
    <2>1. Total(db.payable, Nodes) = 0
      BY <1>2, <1>5
    <2>2. Total(Fetched(db), Tasks) = 0
      <3>1. \A x \in Tasks : Fetched(db)[x] = 0
        BY <1>3 DEF Fetched
      <3> QED  BY <1>5, <3>1
    <2>3. \A n \in Nodes : Total(Gain(db, n), Tasks) = 0
      <3>1. \A n \in Nodes : \A x \in Tasks : Gain(db, n)[x] = 0
        BY <1>3 DEF Gain
      <3> QED  BY <1>5, <3>1
    <2> QED  BY <1>2, <2>1, <2>2, <2>3, SMT DEF Balanced
  <1>8. Quoted(db)
    BY <1>2, <1>3 DEF Quoted
  <1> QED  BY <1>1, <1>4, <1>6, <1>7, <1>8 DEF Sound, Solvent

\* Leases, money, quotes and the tree are sound in every reachable state.
LEMMA SoundAlways == Spec => [](TypeOK /\ Sound(db))
PROOF
  <1>1. Init => TypeOK /\ Sound(db)
    BY TypeInit, SoundInit
  <1>2. TypeOK /\ Sound(db) /\ [Next]_vars => (TypeOK /\ Sound(db))'
    BY TypeStep, SoundStep
  <1> QED  BY <1>1, <1>2, PTL DEF Spec

\* Every lease that is out is one the coordinator meant to give, within the
\* node's limit (lease_work's query and its count of unexpired leases).
THEOREM LeasesStayHonest == Spec => []LeasesAreHonest
PROOF
  <1>1. Sound(db) => LeasesAreHonest
    <2> SUFFICES ASSUME Sound(db) PROVE LeasesAreHonest
      OBVIOUS
    <2>1. Grown(db) /\ Typed(db) /\ Treed(db) /\ Honest(db)
      BY DEF Sound, Grown, Kept
    <2>2. ASSUME NEW x \in InState(db, "leased")
          PROVE  db.problem[db.task[x].problem].status = "active"
      BY <2>1, ActiveWork DEF InState
    <2> QED  BY <2>1, <2>2 DEF LeasesAreHonest, Honest, HonestAt
  <1> QED  BY <1>1, SoundAlways, PTL

\* No acceptance can overdraw the escrow of an active problem: approving a plan
\* needs no more than the budget its task had (approve_delegation's check).
THEOREM EscrowIsEnough == Spec => []EscrowCoversCommitments
PROOF
  <1>1. Sound(db) => EscrowCoversCommitments
    <2> SUFFICES ASSUME Sound(db) PROVE EscrowCoversCommitments
      OBVIOUS
    <2>1. Typed(db) /\ \A p \in Problems : SolventAt(db, p)
      BY DEF Sound, Grown, Kept, Solvent
    <2>2. \A p \in Problems : Commitments(db, p) = Owed(db, p)
      BY <2>1, SumsOverTasks
    <2> QED  BY <2>1, <2>2 DEF EscrowCoversCommitments, SolventAt
  <1> QED  BY <1>1, SoundAlways, PTL

\* Money is neither created nor lost, by whichever handler moves it
\* (_transfer_locked's two rows, and the callers that pair them).
THEOREM MoneyIsConserved == Spec => []FundsConserved
PROOF
  <1>1. Sound(db) => FundsConserved
    <2> SUFFICES ASSUME Sound(db) PROVE FundsConserved
      OBVIOUS
    <2>1. Typed(db) /\ (\A p \in Problems : SolventAt(db, p)) /\ Balanced(db)
      BY DEF Sound, Grown, Kept, Solvent
    <2>2. /\ \A p \in Problems : RewardsAccepted(db, Of(db, p)) = PaidOut(db, p)
          /\ RewardsAccepted(db, Existing(db)) = Total(Fetched(db), Tasks)
      BY <2>1, SumsOverTasks
    <2> QED  BY <2>1, <2>2 DEF FundsConserved, SolventAt, Balanced
  <1> QED  BY <1>1, SoundAlways, PTL

\* A problem that ended is settled once and for all (_terminate_problem, and the
\* idempotency keys of the transfers).
THEOREM EndsAreComplete == Spec => []TerminalIsSettled
PROOF
  <1>1. ASSUME Sound(db), NEW x \in Existing(db)
        PROVE  /\ db.credits[x] = IF db.task[x].state = "accepted" THEN 1 ELSE 0
               /\ db.problem[db.task[x].problem].status \in TerminalStatus =>
                     /\ db.task[x].state \in
                           IF db.problem[db.task[x].problem].status = "completed"
                           THEN {"accepted"} ELSE {"accepted", "failed", "blocked"}
                     /\ db.task[x].lease = None
                     /\ \A i \in DOMAIN db.delegations[x] :
                           db.delegations[x][i].status # "proposed"
    <2> DEFINE rows == db.delegations[x]
               row == db.task[x]
               status == db.problem[row.problem].status
    <2>1. Typed(db) /\ EndingAt(db, x) /\ ShapeAt(db, x)
      BY <1>1 DEF Sound, Grown, Kept, Treed
    <2>2. rows \in Seq(DelegationRow)
      BY <2>1, DatabaseTables, ExistingTasks DEF Typed
    <2>3. row.lease # None => row.state = "leased"
      BY <2>1 DEF Typed, ReferencesOK
    <2>4. /\ status \in TerminalStatus => row.state \in {"accepted", "failed", "blocked"}
          /\ status = "completed" => row.state = "accepted"
          /\ db.credits[x] = IF row.state = "accepted" THEN 1 ELSE 0
      BY <2>1 DEF EndingAt, Ending
    <2>5. /\ row.state = "awaiting_delegation_approval" <=> LastStatus(rows) = "proposed"
          /\ Past(rows)
      BY <2>1 DEF ShapeAt, Shape
    <2> HIDE DEF rows, row, status
    <2>6. ASSUME LastStatus(rows) # "proposed", NEW i \in DOMAIN rows
          PROVE  rows[i].status # "proposed"
      <3>1. rows # << >> /\ (i = Len(rows) \/ i \in 1 .. Len(rows) - 1)
        BY <2>2, SMT
      <3> QED  BY <2>5, <2>6, <3>1 DEF LastStatus, Past
    <2> QED  BY <2>3, <2>4, <2>5, <2>6 DEF rows, row, status
  <1>2. Sound(db) => TransferKeysUnique
    <2> SUFFICES ASSUME Sound(db) PROVE TransferKeysUnique
      OBVIOUS
    <2>1. ASSUME NEW p \in Problems
          PROVE  db.refunds[p] <= 1
      <3>1. db.problem[p].status \in {"none", "active"} \cup TerminalStatus
        BY AccountsTyped DEF Sound, Grown, Kept, Status
      <3>2. SolventAt(db, p)
        BY DEF Sound, Solvent
      <3>3. db.refunds[p] = 0 => db.refunds[p] <= 1
        BY SMT
      <3> QED  BY <3>1, <3>2, <3>3 DEF SolventAt
    <2> QED  BY <1>1, <2>1 DEF TransferKeysUnique
  <1>3. Sound(db) => TerminalIsSettledOf(db)
    <2> SUFFICES ASSUME Sound(db), NEW p \in Problems,
                        db.problem[p].status \in TerminalStatus
                 PROVE  /\ db.escrow[p] = 0
                        /\ \A x \in Of(db, p) :
                              /\ db.task[x].state \in
                                    IF db.problem[p].status = "completed"
                                    THEN {"accepted"} ELSE {"accepted", "failed", "blocked"}
                              /\ db.task[x].lease = None
                              /\ \A i \in DOMAIN db.delegations[x] :
                                    db.delegations[x][i].status # "proposed"
      BY DEF TerminalIsSettledOf
    <2>1. db.escrow[p] = 0
      BY DEF Sound, Solvent, SolventAt
    <2>2. \A x \in Of(db, p) : x \in Existing(db) /\ db.task[x].problem = p
      BY DEF Of
    <2> QED  BY <1>1, <2>1, <2>2
  <1>4. Sound(db) => TerminalIsSettled
    BY <1>2, <1>3 DEF TerminalIsSettled
  <1> QED  BY <1>4, SoundAlways, PTL

\* A node is paid what it was quoted, whatever fee a restart brought since
\* (problems.fee_bps, and the quote stored with the lease request).
THEOREM QuotesStand == Spec => []QuotesHonoured
PROOF
  <1>1. Sound(db) => QuotesHonoured
    <2> SUFFICES ASSUME Sound(db) PROVE QuotesHonoured
      OBVIOUS
    <2>1. Typed(db) /\ Quoted(db) /\ Balanced(db)
      BY DEF Sound, Grown, Kept, Solvent
    <2>2. ASSUME NEW n \in Nodes, NEW x \in Existing(db), NEW i \in Passed(db, x, n)
          PROVE  \E r \in Requests : /\ db.requests[n][r] # None
                                     /\ db.requests[n][r].task = x
                                     /\ db.requests[n][r].quote = db.submissions[x][i].earned
      <3>1. /\ i \in DOMAIN db.submissions[x] /\ db.submissions[x][i].node = n
            /\ db.submissions[x][i].outcome = "pass"
        BY DEF Passed
      <3>2. /\ db.submissions[x][i].earned = Pay(db, x)
            /\ \E r \in Requests : db.requests[n][r] # None /\ db.requests[n][r].task = x
        BY <2>1, <3>1 DEF Quoted
      <3>3. \A r \in Requests : db.requests[n][r] # None
                                   => db.requests[n][r].quote = Pay(db, db.requests[n][r].task)
        BY <2>1 DEF Quoted
      <3> QED  BY <3>2, <3>3
    <2>3. \A n \in Nodes :
             LET won == {x \in Existing(db) : Passed(db, x, n) # {}}
             IN  db.payable[n] =
                    Total([x \in won |->
                              db.submissions[x][CHOOSE i \in Passed(db, x, n) : TRUE].earned], won)
      BY <2>1, SumsOverTasks DEF Balanced
    <2> QED  BY <2>2, <2>3 DEF QuotesHonoured
  <1> QED  BY <1>1, SoundAlways, PTL

-----------------------------------------------------------------------------
(* Who is paid *)

\* Expiry leases nothing and pays nobody.
LEMMA SweepsShrinks ==
    ASSUME NEW d, Grown(d), NEW e, Grown(e), Sweeps(d, e)
    PROVE  Shrinks(d, e) /\ e.payable = d.payable
PROOF
  <1>1. PICK d1, d2 : /\ Grown(d1) /\ Grown(d2)
                      /\ Closing(d, d1) /\ Lapsing(d1, d2) /\ Closing(d2, e)
    BY DEF Sweeps
  <1>2. Shrinks(d, d1) /\ Shrinks(d1, d2) /\ Shrinks(d2, e)
    BY <1>1, MoveShrinks DEF OtherMove
  <1>3. ASSUME NEW a, NEW b, NEW c, Shrinks(a, b), Shrinks(b, c)
        PROVE  Shrinks(a, c)
    <2>1. ASSUME NEW x \in InState(c, "leased")
          PROVE  /\ x \in InState(a, "leased") /\ c.task[x] = a.task[x]
                 /\ c.problem[a.task[x].problem].deadline = a.problem[a.task[x].problem].deadline
      BY <1>3 DEF Shrinks
    <2> QED  BY <1>3, <2>1 DEF Shrinks
  <1>4. Shrinks(d, e)
    BY <1>2, <1>3
  <1>5. d1.payable = d.payable /\ d2.payable = d1.payable /\ e.payable = d2.payable
    BY <1>1, ClosingAccounts, LapsingAccounts DEF Unearned
  <1> QED  BY <1>4, <1>5

\* Only the holder of a live lease is paid, for the task it then has accepted
\* (submit_result's check of the lease, after the expiry it does first).
THEOREM PaidForLiveLease == Spec => PaidByLiveLease
PROOF
  <1>1. ASSUME TypeOK, Sound(db), [Next]_vars, NEW n \in Nodes,
               db'.payable[n] # db.payable[n]
        PROVE  \E x \in InState(db, "leased") :
                  LET row == db.task[x]
                      subs == db'.submissions[x]
                  IN  /\ row.lease.node = n /\ row.lease.until > now
                      /\ db.problem[row.problem].deadline > now
                      /\ db'.task[x].state = "accepted"
                      /\ db'.payable[n] = db.payable[n] + subs[Len(subs)].earned
    <2>1. PICK d : Grown(d) /\ (d = db \/ Sweeps(db, d)) /\ Handles(d, db')
      BY <1>1, NextMoves DEF Sound
    <2>2. Grown(db') /\ Grown(db) /\ Typed(db) /\ Typed(d) /\ Honest(db)
      BY <1>1, <2>1, GrownStep DEF Sound, Grown, Kept
    <2>3. \A x \in InState(d, "leased") :
             x \in InState(db, "leased") /\ d.task[x] = db.task[x]
      BY <2>1, <2>2, SweepsShrinks DEF Shrinks
    <2>4. d.payable = db.payable
      BY <2>1, <2>2, SweepsShrinks
    <2>5. Move(d, db') /\ ~Unearned(d, db')
      <3>1. db' # d
        BY <1>1, <2>4
      <3>2. ASSUME NEW d1, Grown(d1), Lapsing(d, d1), Closing(d1, db')
            PROVE  FALSE
        <4>1. d1.payable = d.payable /\ db'.payable = d1.payable
          BY <2>1, <3>2, LapsingAccounts, ClosingAccounts DEF Unearned
        <4> QED  BY <1>1, <2>4, <4>1
      <3> QED  BY <1>1, <2>1, <2>4, <3>1, <3>2 DEF Handles, Unearned
    <2>6. PICK m \in Nodes, r \in Requests, x \in Existing(d) :
             LiveLease(d, m, r, x) /\ Passes(d, db', m, x) /\ Earns(d, db', m, x)
      BY <2>1, <2>2, <2>5, MoveAccounts
    <2>7. x \in InState(d, "leased")
      BY <2>2, <2>6, LiveLeaseRow
    <2>8. x \in InState(db, "leased") /\ d.task[x] = db.task[x] /\ HonestAt(db, x)
      BY <2>2, <2>3, <2>7 DEF Honest
    <2>9. PICK pay \in Nat : \E row \in SubmissionRow :
             /\ db'.payable = [d.payable EXCEPT ![m] = d.payable[m] + pay]
             /\ row.earned = pay
             /\ db'.submissions[x] = Append(d.submissions[x], row)
      BY <2>6, Zenon DEF Earns
    <2>10. PICK row \in SubmissionRow :
              row.earned = pay /\ db'.submissions[x] = Append(d.submissions[x], row)
      BY <2>9
    <2>11. m = n /\ db'.payable[n] = db.payable[n] + pay
      <3>1. d.payable \in [Nodes -> Nat]
        BY <2>2, DatabaseTables DEF Typed
      <3> QED  BY <1>1, <2>4, <2>9, <3>1
    <2>12. LET subs == db'.submissions[x] IN subs[Len(subs)].earned = pay
      <3>1. d.submissions[x] \in Seq(SubmissionRow)
        BY <2>2, ExistingRow
      <3>2. \A rows \in Seq(SubmissionRow) :
               Append(rows, row)[Len(Append(rows, row))] = row
        BY SMT
      <3> QED  BY <2>10, <3>1, <3>2
    <2>13. db.task[x].lease.node = n /\ db.task[x].lease.until > now
      BY <2>6, <2>8, <2>11 DEF LiveLease
    <2>14. db.problem[db.task[x].problem].deadline > now
      <3>1. /\ db.task[x].lease.until \in Nat
            /\ db.problem[db.task[x].problem].deadline \in Nat
        <4>1. \A lease \in LeaseRow : lease.until \in Nat
          BY SMT DEF LeaseRow
        <4>2. \A row2 \in ProblemRow : row2.deadline \in Nat
          BY SMT DEF ProblemRow
        <4>3. db.task[x].lease \in LeaseRow /\ db.task[x].problem \in Problems
          BY <2>2, <2>8, LeasedRow
        <4> QED  BY <2>2, <4>1, <4>2, <4>3, DatabaseTables DEF Typed
      <3>2. db.task[x].lease.until <= db.problem[db.task[x].problem].deadline
        BY <2>8 DEF HonestAt
      <3>3. now \in Nat
        BY <1>1, TimeAssumption, SMT DEF TypeOK
      <3> QED  BY <2>13, <3>1, <3>2, <3>3, SMT
    <2>15. db'.task[x].state = "accepted"
      BY <2>6 DEF Passes
    <2> QED  BY <2>8, <2>11, <2>12, <2>13, <2>14, <2>15
  <1>2. TypeOK /\ Sound(db) /\ [Next]_vars =>
           \A n \in Nodes : db'.payable[n] # db.payable[n] =>
              \E x \in InState(db, "leased") :
                  LET row == db.task[x]
                      subs == db'.submissions[x]
                  IN  /\ row.lease.node = n /\ row.lease.until > now
                      /\ db.problem[row.problem].deadline > now
                      /\ db'.task[x].state = "accepted"
                      /\ db'.payable[n] = db.payable[n] + subs[Len(subs)].earned
    BY <1>1
  <1> QED  BY <1>2, SoundAlways, PTL DEF Spec, PaidByLiveLease

-----------------------------------------------------------------------------
(* The coordinator implements FundedOrders *)

\* Each of the four things a move can do to an order is a step of it.
LEMMA OrderSteps ==
    ASSUME NEW d, Typed(d), NEW e, Typed(e), NEW p \in Problems,
           SolventAt(d, p), SolventAt(e, p)
    PROVE  /\ OrderOf(e, p) \in Orders!Account
           /\ Idle(d, e, p) => OrderOf(e, p) = OrderOf(d, p)
           /\ Funds(d, e, p) => Orders!Fund(OrderOf(d, p), OrderOf(e, p))
           /\ Draws(d, e, p) => Orders!Pay(OrderOf(d, p), OrderOf(e, p))
           /\ Shuts(d, e, p) => Orders!Close(OrderOf(d, p), OrderOf(e, p))
PROOF
  <1>1. /\ d.problem[p] \in ProblemRow /\ d.problem[p].status \in Status
        /\ d.escrow[p] \in Int /\ d.refund[p] \in Nat /\ PaidOut(d, p) \in Nat
        /\ Owed(d, p) \in Nat
    BY AccountsTyped
  <1>2. /\ e.problem[p].status \in Status
        /\ e.escrow[p] \in Int /\ e.refund[p] \in Nat /\ PaidOut(e, p) \in Nat
        /\ Owed(e, p) \in Nat
    BY AccountsTyped
  <1>3. /\ OrderOf(d, p) = [status |-> d.problem[p].status, held |-> d.escrow[p],
                            paid |-> PaidOut(d, p), returned |-> d.refund[p]]
        /\ OrderOf(e, p) = [status |-> e.problem[p].status, held |-> e.escrow[p],
                            paid |-> PaidOut(e, p), returned |-> e.refund[p]]
    BY SumsOverTasks DEF OrderOf
  <1>4. d.escrow[p] \in Nat /\ e.escrow[p] \in Nat
    <2>1. ASSUME NEW c, c.problem[p].status \in Status, c.escrow[p] \in Int, Owed(c, p) \in Nat,
                 SolventAt(c, p)
          PROVE  c.escrow[p] \in Nat
      <3>1. c.escrow[p] = 0 \/ c.escrow[p] >= Owed(c, p)
        BY <2>1 DEF SolventAt, Status
      <3> QED  BY <2>1, <3>1, SMT
    <2> QED  BY <1>1, <1>2, <2>1
  <1>5. OrderOf(e, p) \in Orders!Account
    BY <1>2, <1>3, <1>4 DEF Orders!Account, Orders!Closed, Status, TerminalStatus
  <1>6. Idle(d, e, p) => OrderOf(e, p) = OrderOf(d, p)
    BY <1>3 DEF Idle
  <1>7. ASSUME Funds(d, e, p)
        PROVE  Orders!Fund(OrderOf(d, p), OrderOf(e, p))
    <2>1. PICK b \in ProblemRequest :
             /\ d.problem[p].status = "none"
             /\ e.problem[p].status = "active"
             /\ e.escrow[p] = d.escrow[p] + b.funded
             /\ e.refund[p] = d.refund[p] /\ PaidOut(e, p) = PaidOut(d, p)
      BY <1>7 DEF Funds
    <2>2. d.escrow[p] = 0 /\ d.refund[p] = 0 /\ PaidOut(d, p) = 0
      BY <2>1 DEF SolventAt
    <2>3. b.funded \in Nat \ {0}
      BY SMT DEF ProblemRequest
    <2>4. e.escrow[p] = b.funded /\ e.escrow[p] > 0
      BY <2>1, <2>2, <2>3, SMT
    <2>5. OrderOf(d, p) = Orders!Unfunded
      BY <1>3, <2>1, <2>2 DEF Orders!Unfunded
    <2>6. OrderOf(e, p) = [Orders!Unfunded EXCEPT !.status = "active",
                                                 !.held = OrderOf(e, p).held]
      <3> DEFINE h == e.escrow[p]
                 funded == [status |-> "active", held |-> 0, paid |-> 0, returned |-> 0]
      <3>1. OrderOf(e, p) = [status |-> "active", held |-> h, paid |-> 0, returned |-> 0]
        BY <1>3, <2>1, <2>2
      <3>2. OrderOf(e, p).held = h
        BY <1>3
      <3> HIDE DEF h
      <3>3. [Orders!Unfunded EXCEPT !.status = "active"] = funded
        BY SMT DEF Orders!Unfunded
      <3>4. [funded EXCEPT !.held = h]
               = [status |-> "active", held |-> h, paid |-> 0, returned |-> 0]
        BY SMT
      <3> HIDE DEF funded
      <3>5. [Orders!Unfunded EXCEPT !.status = "active", !.held = h]
               = [[Orders!Unfunded EXCEPT !.status = "active"] EXCEPT !.held = h]
        OBVIOUS
      <3> QED  BY <3>1, <3>2, <3>3, <3>4, <3>5, Zenon
    <2>7. OrderOf(e, p).held > 0
      BY <1>3, <2>4
    <2> QED  BY <2>5, <2>6, <2>7 DEF Orders!Fund
  <1>8. ASSUME Draws(d, e, p)
        PROVE  Orders!Pay(OrderOf(d, p), OrderOf(e, p))
    <2>1. PICK reward \in Nat \ {0} :
             /\ d.problem[p].status = "active" /\ e.problem[p] = d.problem[p]
             /\ e.escrow[p] = d.escrow[p] - reward
             /\ e.refund[p] = d.refund[p] /\ PaidOut(e, p) = PaidOut(d, p) + reward
      BY <1>8 DEF Draws
    <2>2. /\ e.escrow[p] \in 0 .. d.escrow[p] - 1
          /\ PaidOut(e, p) = PaidOut(d, p) + (d.escrow[p] - e.escrow[p])
      BY <1>1, <1>4, <2>1, SMT
    <2>3. /\ OrderOf(d, p).status = "active" /\ OrderOf(d, p).held = d.escrow[p]
          /\ OrderOf(e, p).held = e.escrow[p] /\ OrderOf(d, p).paid = PaidOut(d, p)
      BY <1>3, <2>1
    <2>4. OrderOf(e, p) = [OrderOf(d, p) EXCEPT !.held = e.escrow[p], !.paid = PaidOut(e, p)]
      <3> DEFINE h == e.escrow[p]
                 a == PaidOut(e, p)
                 drawn == [status |-> d.problem[p].status, held |-> h,
                           paid |-> PaidOut(d, p), returned |-> d.refund[p]]
      <3>1. e.problem[p].status = d.problem[p].status /\ e.refund[p] = d.refund[p]
        BY <2>1
      <3>2. OrderOf(e, p) = [status |-> d.problem[p].status, held |-> h, paid |-> a,
                             returned |-> d.refund[p]]
        BY <1>3, <3>1
      <3> HIDE DEF h, a
      <3>3. [OrderOf(d, p) EXCEPT !.held = h] = drawn
        BY <1>3, SMT
      <3>4. [drawn EXCEPT !.paid = a] = [status |-> d.problem[p].status, held |-> h,
                                         paid |-> a, returned |-> d.refund[p]]
        BY SMT
      <3> HIDE DEF drawn
      <3>5. [OrderOf(d, p) EXCEPT !.held = h, !.paid = a]
               = [[OrderOf(d, p) EXCEPT !.held = h] EXCEPT !.paid = a]
        OBVIOUS
      <3>6. OrderOf(e, p) = [OrderOf(d, p) EXCEPT !.held = h, !.paid = a]
        BY <3>2, <3>3, <3>4, <3>5, Zenon
      <3> QED  BY <3>6 DEF h, a
    <2> QED  BY <2>2, <2>3, <2>4 DEF Orders!Pay
  <1>9. ASSUME Shuts(d, e, p)
        PROVE  Orders!Close(OrderOf(d, p), OrderOf(e, p))
    <2> DEFINE left(reward) == d.escrow[p] - reward
    <2>1. PICK reward \in Nat : \E status \in TerminalStatus :
             /\ d.problem[p].status = "active"
             /\ e.problem[p] = [d.problem[p] EXCEPT !.status = status]
             /\ reward <= Owed(d, p) /\ (reward > 0 <=> status = "completed")
             /\ PaidOut(e, p) = PaidOut(d, p) + reward
             /\ IF left(reward) > 0
                THEN e.refund[p] = d.refund[p] + left(reward)
                ELSE e.refund[p] = d.refund[p]
      BY <1>9, Zenon DEF Shuts
    <2>2. PICK status \in TerminalStatus :
             /\ d.problem[p].status = "active"
             /\ e.problem[p] = [d.problem[p] EXCEPT !.status = status]
             /\ reward > 0 <=> status = "completed"
      BY <2>1
    <2>3. \A row \in ProblemRow : \A s : [row EXCEPT !.status = s].status = s
      BY SMT DEF ProblemRow
    <2>4. e.problem[p].status = status
      BY <1>1, <2>2, <2>3
    <2>5. d.escrow[p] >= Owed(d, p) /\ d.refund[p] = 0 /\ e.escrow[p] = 0
      BY <2>2, <2>4 DEF SolventAt
    <2>6. left(reward) \in Nat
      BY <1>1, <1>4, <2>1, <2>5, SMT
    <2>7. e.refund[p] = left(reward)
      <3>1. CASE left(reward) > 0
        BY <2>1, <2>5, <2>6, <3>1, SMT
      <3>2. CASE ~(left(reward) > 0)
        <4>1. left(reward) = 0
          BY <2>6, <3>2, SMT
        <4> QED  BY <2>1, <2>5, <3>2, <4>1
      <3> QED  BY <3>1, <3>2
    <2> HIDE DEF left
    <2>8. /\ PaidOut(e, p) >= PaidOut(d, p)
          /\ PaidOut(e, p) > PaidOut(d, p) <=> reward > 0
          /\ e.refund[p] = d.escrow[p] - (PaidOut(e, p) - PaidOut(d, p))
          /\ e.refund[p] >= 0
      BY <1>1, <1>2, <1>4, <2>1, <2>6, <2>7, SMT DEF left
    <2>9. /\ OrderOf(d, p).status = "active" /\ OrderOf(d, p).held = d.escrow[p]
          /\ OrderOf(d, p).paid = PaidOut(d, p) /\ OrderOf(e, p).paid = PaidOut(e, p)
          /\ OrderOf(e, p).status = status /\ OrderOf(e, p).returned = e.refund[p]
      BY <1>3, <2>2, <2>4
    <2>10. OrderOf(e, p) = [status |-> status, held |-> 0, paid |-> PaidOut(e, p),
                            returned |-> e.refund[p]]
      BY <1>3, <2>4, <2>5
    <2>11. status \in Orders!Closed
      BY DEF Orders!Closed, TerminalStatus
    <2> QED  BY <2>2, <2>8, <2>9, <2>10, <2>11 DEF Orders!Close
  <1> QED  BY <1>5, <1>6, <1>7, <1>8, <1>9

\* An order is closed, or left alone.
Settling(old, new) == new = old \/ Orders!Close(old, new)

\* Nothing happens to an order after it was closed, so that what an expiry and a
\* handler do to it one after the other is a single step.
LEMMA SettlingFirst ==
    ASSUME NEW a, NEW b, NEW c, Settling(a, b), Orders!Step(b, c)
    PROVE  Orders!Step(a, c) /\ (Settling(b, c) => Settling(a, c))
PROOF
  <1>1. CASE b = a
    BY <1>1 DEF Settling
  <1>2. CASE Orders!Close(a, b)
    <2>1. b.status \in Orders!Closed
      BY <1>2, SMT DEF Orders!Close
    <2>2. b.status # "active" /\ b.status # "none"
      BY <2>1 DEF Orders!Closed
    <2>3. b # Orders!Unfunded
      BY <2>2 DEF Orders!Unfunded
    <2>4. c = b
      BY <2>2, <2>3 DEF Orders!Step, Orders!Fund, Orders!Pay, Orders!Close
    <2> QED  BY <1>2, <2>4 DEF Orders!Step, Settling
  <1> QED  BY <1>1, <1>2 DEF Settling

\* Each move is a step of each order, and those of an expiry close orders only.
LEMMA MoveOrders ==
    ASSUME NEW d, Sound(d), NEW e, Sound(e), Move(d, e), NEW p \in Problems
    PROVE  /\ Orders!Step(OrderOf(d, p), OrderOf(e, p))
           /\ Closing(d, e) \/ Lapsing(d, e) => Settling(OrderOf(d, p), OrderOf(e, p))
PROOF
  <1>1. /\ Grown(d) /\ Typed(d) /\ SolventAt(d, p)
        /\ Grown(e) /\ Typed(e) /\ SolventAt(e, p)
    BY DEF Sound, Solvent, Grown, Kept
  <1>2. /\ Idle(d, e, p) => OrderOf(e, p) = OrderOf(d, p)
        /\ Funds(d, e, p) => Orders!Fund(OrderOf(d, p), OrderOf(e, p))
        /\ Draws(d, e, p) => Orders!Pay(OrderOf(d, p), OrderOf(e, p))
        /\ Shuts(d, e, p) => Orders!Close(OrderOf(d, p), OrderOf(e, p))
    BY <1>1, OrderSteps
  <1>3. Accounts(d, e)
    BY <1>1, MoveAccounts
  <1>4. Closing(d, e) \/ Lapsing(d, e) => Settles(d, e)
    BY <1>1, ClosingAccounts, LapsingAccounts
  <1>5. Orders!Step(OrderOf(d, p), OrderOf(e, p))
    BY <1>2, <1>3 DEF Accounts, Orders!Step
  <1>6. Closing(d, e) \/ Lapsing(d, e) => Settling(OrderOf(d, p), OrderOf(e, p))
    BY <1>2, <1>4 DEF Settles, Settling
  <1> QED  BY <1>5, <1>6

\* So is an expiry,
LEMMA SweepsOrders ==
    ASSUME NEW d, Sound(d), NEW e, Grown(e), Sweeps(d, e), NEW p \in Problems
    PROVE  Settling(OrderOf(d, p), OrderOf(e, p))
PROOF
  <1>1. PICK d1, d2 : /\ Grown(d1) /\ Grown(d2)
                      /\ Closing(d, d1) /\ Lapsing(d1, d2) /\ Closing(d2, e)
    BY DEF Sweeps
  <1>2. Move(d, d1) /\ Move(d1, d2) /\ Move(d2, e)
    BY <1>1 DEF Move
  <1>3. Sound(d1)
    BY <1>1, <1>2, MoveSound
  <1>4. Sound(d2)
    BY <1>1, <1>2, <1>3, MoveSound
  <1>5. Sound(e)
    BY <1>2, <1>4, MoveSound
  <1>6. Settling(OrderOf(d, p), OrderOf(d1, p))
    BY <1>1, <1>2, <1>3, MoveOrders
  <1>7. /\ Settling(OrderOf(d1, p), OrderOf(d2, p))
        /\ Orders!Step(OrderOf(d1, p), OrderOf(d2, p))
    BY <1>1, <1>2, <1>3, <1>4, MoveOrders
  <1>8. /\ Settling(OrderOf(d2, p), OrderOf(e, p))
        /\ Orders!Step(OrderOf(d2, p), OrderOf(e, p))
    BY <1>1, <1>2, <1>4, <1>5, MoveOrders
  <1>9. Settling(OrderOf(d, p), OrderOf(d2, p))
    BY <1>6, <1>7, SettlingFirst
  <1> QED  BY <1>8, <1>9, SettlingFirst

\* and what a handler does.
LEMMA HandlesOrders ==
    ASSUME NEW d, Sound(d), NEW e, Sound(e), Handles(d, e), NEW p \in Problems
    PROVE  Orders!Step(OrderOf(d, p), OrderOf(e, p))
PROOF
  <1>1. ASSUME NEW d1, Grown(d1), Lapsing(d, d1), Closing(d1, e)
        PROVE  Orders!Step(OrderOf(d, p), OrderOf(e, p))
    <2>1. Move(d, d1) /\ Move(d1, e)
      BY <1>1 DEF Move
    <2>2. Sound(d1)
      BY <1>1, <2>1, MoveSound
    <2>3. Settling(OrderOf(d, p), OrderOf(d1, p))
      BY <1>1, <2>1, <2>2, MoveOrders
    <2>4. Orders!Step(OrderOf(d1, p), OrderOf(e, p))
      BY <2>1, <2>2, MoveOrders
    <2> QED  BY <2>3, <2>4, SettlingFirst
  <1>2. e = d => Orders!Step(OrderOf(d, p), OrderOf(e, p))
    BY DEF Orders!Step
  <1>3. Move(d, e) => Orders!Step(OrderOf(d, p), OrderOf(e, p))
    BY MoveOrders
  <1> QED  BY <1>1, <1>2, <1>3 DEF Handles

\* A coordinator without orders,
LEMMA OrdersInit == Init => Orders!OrderInit
PROOF
  <1> SUFFICES ASSUME Init
               PROVE  \A p \in Problems : OrderOf(db, p) = Orders!Unfunded
    BY DEF Orders!OrderInit
  <1>1. Sound(db)
    BY SoundInit
  <1> TAKE p \in Problems
  <1>2. db.problem[p].status = "none"
    BY DEF Init, EmptyDatabase
  <1>3. SolventAt(db, p) /\ Typed(db)
    BY <1>1 DEF Sound, Solvent, Grown, Kept
  <1>4. db.escrow[p] = 0 /\ db.refund[p] = 0 /\ PaidOut(db, p) = 0
    BY <1>2, <1>3 DEF SolventAt
  <1>5. RewardsAccepted(db, Of(db, p)) = 0
    BY <1>3, <1>4, SumsOverTasks
  <1> QED  BY <1>2, <1>4, <1>5 DEF OrderOf, Orders!Unfunded

\* and what every handler does to each order, with the expiry before it.
LEMMA NextOrders ==
    ASSUME TypeOK, Sound(db), [Next]_vars, NEW p \in Problems
    PROVE  Orders!Step(OrderOf(db, p), OrderOf(db', p))
PROOF
  <1>1. Grown(db) /\ Sound(db')
    BY SoundStep DEF Sound
  <1>2. PICK d : Grown(d) /\ (d = db \/ Sweeps(db, d)) /\ Handles(d, db')
    BY <1>1, NextMoves
  <1>3. Sound(d)
    BY <1>2, SweepsSound
  <1>4. Settling(OrderOf(db, p), OrderOf(d, p))
    BY <1>2, SweepsOrders DEF Settling
  <1>5. Orders!Step(OrderOf(d, p), OrderOf(db', p))
    BY <1>1, <1>2, <1>3, HandlesOrders
  <1> QED  BY <1>4, <1>5, SettlingFirst

\* Steps of every order, to a sound database, are a step of FundedOrders.
LEMMA StepsAreOrders ==
    ASSUME Sound(db), Sound(db'),
           \A p \in Problems : Orders!Step(OrderOf(db, p), OrderOf(db', p))
    PROVE  Orders!OrderNext
PROOF
  <1>1. \A p \in Problems : Typed(db) /\ Typed(db') /\ SolventAt(db, p) /\ SolventAt(db', p)
    BY DEF Sound, Solvent, Grown, Kept
  <1>2. \A p \in Problems : OrderOf(db', p) \in Orders!Account
    BY <1>1, OrderSteps
  <1> QED  BY <1>2 DEF Orders!OrderNext

\* The coordinator implements FundedOrders: through any request, with the expiry
\* before it, each order is funded once, drawn on within what is held, closed once
\* with the rest returned, or left alone.
THEOREM OrdersAreImplemented == Spec => ImplementsOrders
PROOF
  <1>1. TypeOK /\ Sound(db) /\ [Next]_vars => Orders!OrderNext
    BY SoundStep, NextOrders, StepsAreOrders
  <1> QED  BY <1>1, OrdersInit, SoundAlways, PTL DEF Spec, ImplementsOrders, Orders!OrderSpec

-----------------------------------------------------------------------------
(***************************************************************************)
(* 2. Leases as their nodes see them                                       *)
(***************************************************************************)

-----------------------------------------------------------------------------
(* What a node sees of a task: the parts of LeaseView *)

\* The node's rows of a task, and those under one submission id.
Said(subs, n) == {i \in DOMAIN subs : subs[i].node = n}
SaidUnder(subs, n, s) == {i \in Said(subs, n) : subs[i].sid = s}

AnswersOf(subs, n) ==
    [s \in SubmissionIds |->
        IF SaidUnder(subs, n, s) = {} THEN None
        ELSE subs[CHOOSE i \in SaidUnder(subs, n, s) : TRUE].outcome]

LeasesOf(d, n, x) ==
    LET lease == d.task[x].lease IN
    [r \in Requests |->
        IF d.requests[n][r] = None \/ d.requests[n][r].task # x THEN "none"
        ELSE IF lease # None /\ lease.node = n /\ lease.request = r THEN "live"
        ELSE "over"]

\* The view is made of these.
LEMMA ViewParts ==
    \A d, n, x : LeaseView(d, n, x) = [lease |-> LeasesOf(d, n, x),
                                       answer |-> AnswersOf(d.submissions[x], n),
                                       heard |-> Said(d.submissions[x], n) # {}]
PROOF BY DEF LeaseView, LeasesOf, AnswersOf, SaidUnder, Said

\* It is a view of LeaseLife.
LEMMA ViewTyped ==
    ASSUME NEW d, Typed(d), NEW n \in Nodes, NEW x \in Tasks
    PROVE  LeaseView(d, n, x) \in Leases!View
PROOF
  <1> DEFINE subs == d.submissions[x]
  <1>1. subs \in Seq(SubmissionRow)
    BY DatabaseTables DEF Typed
  <1>2. \A i \in DOMAIN subs : subs[i].outcome \in Outcome
    <2>1. \A row \in SubmissionRow : row.outcome \in Outcome
      BY SMT DEF SubmissionRow
    <2>2. \A i \in DOMAIN subs : subs[i] \in SubmissionRow
      BY <1>1, SMT
    <2> QED  BY <2>1, <2>2
  <1> HIDE DEF subs
  <1>3. AnswersOf(subs, n) \in [SubmissionIds -> Outcome \cup {None}]
    <2>1. ASSUME NEW s \in SubmissionIds, SaidUnder(subs, n, s) # {}
          PROVE  subs[CHOOSE i \in SaidUnder(subs, n, s) : TRUE].outcome \in Outcome
      <3>1. (CHOOSE i \in SaidUnder(subs, n, s) : TRUE) \in SaidUnder(subs, n, s)
        BY <2>1
      <3> QED  BY <1>2, <3>1 DEF SaidUnder, Said
    <2> QED  BY <2>1 DEF AnswersOf
  <1>4. LeasesOf(d, n, x) \in [Requests -> {"none", "live", "over"}]
    BY DEF LeasesOf
  <1>5. (Said(subs, n) # {}) \in BOOLEAN
    OBVIOUS
  <1> QED  BY <1>3, <1>4, <1>5, ViewParts DEF Leases!View, subs

\* What one more row adds to what a node said.
LEMMA SaidMore ==
    ASSUME NEW subs \in Seq(SubmissionRow), NEW row \in SubmissionRow, NEW n
    PROVE  LET more == Append(subs, row) IN
           /\ row.node # n => /\ Said(more, n) = Said(subs, n)
                              /\ AnswersOf(more, n) = AnswersOf(subs, n)
           /\ row.node = n => Said(more, n) # {}
           /\ row.node = n /\ Said(subs, n) = {} =>
                 \A s \in SubmissionIds :
                    /\ AnswersOf(subs, n)[s] = None
                    /\ AnswersOf(more, n)[s] = IF s = row.sid THEN row.outcome ELSE None
PROOF
  <1> DEFINE more == Append(subs, row)
             k == Len(subs) + 1
  <1>1. /\ DOMAIN more = DOMAIN subs \cup {k} /\ k \notin DOMAIN subs
        /\ more[k] = row /\ \A i \in DOMAIN subs : more[i] = subs[i]
    BY SMT
  <1> HIDE DEF more, k
  <1>2. row.node # n => Said(more, n) = Said(subs, n)
    BY <1>1 DEF Said
  <1>3. row.node = n => Said(more, n) = Said(subs, n) \cup {k}
    BY <1>1 DEF Said
  <1>4. ASSUME row.node # n
        PROVE  AnswersOf(more, n) = AnswersOf(subs, n)
    <2>1. \A i \in Said(subs, n) : more[i] = subs[i]
      BY <1>1 DEF Said
    <2>2. ASSUME NEW s
          PROVE  SaidUnder(more, n, s) = SaidUnder(subs, n, s)
      BY <1>2, <1>4, <2>1 DEF SaidUnder
    <2>3. ASSUME NEW s, SaidUnder(subs, n, s) # {}
          PROVE  more[CHOOSE i \in SaidUnder(more, n, s) : TRUE]
                    = subs[CHOOSE i \in SaidUnder(subs, n, s) : TRUE]
      <3>1. (CHOOSE i \in SaidUnder(subs, n, s) : TRUE) \in SaidUnder(subs, n, s)
        BY <2>3
      <3>2. (CHOOSE i \in SaidUnder(subs, n, s) : TRUE) \in Said(subs, n)
        BY <3>1 DEF SaidUnder
      <3>3. (CHOOSE i \in SaidUnder(more, n, s) : TRUE)
               = (CHOOSE i \in SaidUnder(subs, n, s) : TRUE)
        BY <2>2
      <3> QED  BY <2>1, <3>2, <3>3
    <2> QED  BY <2>2, <2>3 DEF AnswersOf
  <1>5. ASSUME row.node = n, Said(subs, n) = {}, NEW s \in SubmissionIds
        PROVE  /\ AnswersOf(subs, n)[s] = None
               /\ AnswersOf(more, n)[s] = IF s = row.sid THEN row.outcome ELSE None
    <2>1. SaidUnder(subs, n, s) = {}
      BY <1>5 DEF SaidUnder
    <2>2. SaidUnder(more, n, s) = IF s = row.sid THEN {k} ELSE {}
      BY <1>1, <1>3, <1>5 DEF SaidUnder
    <2>3. (CHOOSE i \in {k} : TRUE) = k
      OBVIOUS
    <2> QED  BY <1>1, <2>1, <2>2, <2>3 DEF AnswersOf
  <1> QED  BY <1>2, <1>3, <1>4, <1>5 DEF more

-----------------------------------------------------------------------------
(* What the moves do to a task's lease *)

\* Nothing,
Holds(d, e, x) ==
    e.task[x].lease = d.task[x].lease /\ e.submissions[x] = d.submissions[x]

\* or an end to it, which may be an answer.
Says(d, e, x) ==
    \E row \in SubmissionRow : /\ row.node = d.task[x].lease.node
                               /\ e.submissions[x] = Append(d.submissions[x], row)

Drops(d, e, x) ==
    /\ x \in InState(d, "leased") /\ e.task[x].lease = None
    /\ e.submissions[x] = d.submissions[x] \/ Says(d, e, x)

\* A termination takes leases away with the problem they are for.
LEMMA ClosingDrops ==
    ASSUME NEW d, Grown(d), NEW e, Grown(e), Closing(d, e), NEW x \in Existing(d)
    PROVE  Holds(d, e, x) \/ (Drops(d, e, x) /\ Over(e, x))
PROOF
  <1>1. PICK P \in SUBSET Problems, status \in Closed :
           /\ \A p \in P : d.problem[p].status = "active"
           /\ Ends(d, e, P, status)
    BY DEF Closing
  <1>2. e.submissions = d.submissions
    BY <1>1 DEF Ends
  <1>3. CASE ~Doomed(d, P, x) \/ d.task[x].lease = None
    <2>1. Doomed(d, P, x) => e.task[x].lease = None
      BY <1>1 DEF Ends
    <2>2. ~Doomed(d, P, x) => e.task[x] = d.task[x]
      BY <1>1 DEF Ends
    <2> QED  BY <1>2, <1>3, <2>1, <2>2 DEF Holds
  <1>4. CASE Doomed(d, P, x) /\ d.task[x].lease # None
    <2>1. x \in InState(d, "leased")
      BY <1>4 DEF Grown, Kept, Typed, ReferencesOK, InState
    <2>2. e.task[x].lease = None /\ e.task[x].problem = d.task[x].problem
      BY <1>1, <1>4 DEF Ends, SameTask
    <2>3. d.task[x].problem \in P /\ d.task[x].problem \in Problems
      BY <1>4 DEF Doomed
    <2>4. e.problem[d.task[x].problem] = [d.problem[d.task[x].problem] EXCEPT !.status = status]
      BY <1>1, <2>3 DEF Ends
    <2>5. \A row \in ProblemRow : [row EXCEPT !.status = status].status = status
      BY SMT DEF ProblemRow
    <2>6. d.problem[d.task[x].problem] \in ProblemRow
      BY <2>3, DatabaseTables DEF Grown, Kept, Typed
    <2>7. Over(e, x)
      BY <2>2, <2>4, <2>5, <2>6 DEF Over, Closed
    <2> QED  BY <1>2, <2>1, <2>2, <2>7 DEF Drops
  <1> QED  BY <1>3, <1>4

\* A lease that ran out is an answer.
LEMMA LapsingDrops ==
    ASSUME NEW d, Grown(d), NEW e, Lapsing(d, e), NEW x \in Existing(d)
    PROVE  Holds(d, e, x) \/ (Drops(d, e, x) /\ Says(d, e, x))
PROOF
  <1>1. PICK R \in SUBSET InState(d, "leased") : Frees(d, e, R)
    BY DEF Lapsing
  <1>2. CASE x \in R
    <2>1. e.task[x].lease = None /\ Says(d, e, x)
      BY <1>1, <1>2 DEF Frees, Says
    <2> QED  BY <1>1, <1>2, <2>1 DEF Drops
  <1>3. CASE x \notin R
    BY <1>1, <1>3 DEF Frees, Holds
  <1> QED  BY <1>2, <1>3

\* Other moves do one or the other, to tasks yet to come as well.
LEMMA MoveDrops ==
    ASSUME NEW d, Grown(d), NEW e, Grown(e), OtherMove(d, e), NEW x \in Tasks
    PROVE  Holds(d, e, x) \/ Drops(d, e, x)
PROOF
  <1>1. Typed(d) /\ Typed(e)
    BY DEF Grown, Kept
  <1>2. \A y \in Existing(d) : d.task[y].state # "leased" => d.task[y].lease = None
    BY <1>1 DEF Typed, ReferencesOK
  <1>3. CASE x \notin Existing(d)
    <2>1. d.task[x].lease = None /\ d.submissions[x] = << >>
      BY <1>1, <1>3 DEF Typed, ReferencesOK, NoTask
    <2>2. CASE x \notin Existing(e)
      <3>1. e.task[x].lease = None /\ e.submissions[x] = << >>
        BY <1>1, <2>2 DEF Typed, ReferencesOK, NoTask
      <3> QED  BY <2>1, <3>1 DEF Holds
    <2>3. CASE x \in Existing(e)
      <3>1. x \notin InState(e, "leased")
        BY <1>3, MoveShrinks DEF Shrinks, InState
      <3>2. e.task[x].lease = None
        BY <1>1, <2>3, <3>1 DEF Typed, ReferencesOK, InState
      <3>3. e.submissions = d.submissions
        <4>1. Approving(d, e) => e.submissions = d.submissions
          BY DEF Approving, Approves
        <4>2. Inserting(d, e) => e.submissions = d.submissions
          BY DEF Inserting, Inserts
        <4>3. ASSUME \/ Closing(d, e) \/ Lapsing(d, e) \/ Proposing(d, e)
                     \/ Rejecting(d, e) \/ Passing(d, e)
              PROVE  e.tasks = d.tasks
          BY <4>3 DEF Closing, Ends, Lapsing, Frees, Proposing, Rejecting, Turns, Passing, Passes
        <4>4. Offering(d, e) => e.tasks = d.tasks
          <5>1. d \in Database
            BY <1>1 DEF Typed
          <5> QED  BY <5>1, SMT DEF Offering, Database
        <4>5. e.tasks # d.tasks
          BY <1>3, <2>3 DEF Existing
        <4> QED  BY <4>1, <4>2, <4>3, <4>4, <4>5 DEF OtherMove
      <3> QED  BY <2>1, <3>2, <3>3 DEF Holds
    <2> QED  BY <2>2, <2>3
  <1>4. CASE x \in Existing(d)
    <2>1. ASSUME NEW y \in Existing(d), e.submissions = d.submissions,
                 e.task[y].lease = None,
                 \A z \in Existing(d) \ {y} : e.task[z] = d.task[z]
          PROVE  Holds(d, e, x) \/ Drops(d, e, x)
      <3>1. CASE x # y \/ d.task[x].state # "leased"
        BY <1>2, <1>4, <2>1, <3>1 DEF Holds
      <3>2. CASE x = y /\ d.task[x].state = "leased"
        BY <1>4, <2>1, <3>2 DEF Drops, InState
      <3> QED  BY <3>1, <3>2
    <2>2. Proposing(d, e) \/ Rejecting(d, e) => Holds(d, e, x) \/ Drops(d, e, x)
      BY <2>1 DEF Proposing, Rejecting, Turns, InState
    <2>3. Approving(d, e) => Holds(d, e, x) \/ Drops(d, e, x)
      BY <2>1 DEF Approving, Approves
    <2>4. ASSUME Passing(d, e)
          PROVE  Holds(d, e, x) \/ Drops(d, e, x)
      <3>1. PICK n \in Nodes, r \in Requests, y \in Existing(d) :
               LiveLease(d, n, r, y) /\ Passes(d, e, n, y)
        BY <2>4 DEF Passing
      <3>2. CASE x = y
        <4>1. d.task[x].state = "leased" /\ d.task[x].lease.node = n
          BY <3>1, <3>2 DEF LiveLease
        <4>2. e.task[x].lease = None /\ Says(d, e, x)
          BY <3>1, <3>2, <4>1 DEF Passes, Says
        <4> QED  BY <1>4, <4>1, <4>2 DEF Drops, InState
      <3>3. CASE x # y
        <4>1. /\ e.submissions[x] = d.submissions[x]
              /\ IF Reopened(d, y, x) THEN e.task[x].lease = d.task[x].lease
                 ELSE e.task[x] = d.task[x]
          BY <1>4, <3>1, <3>3 DEF Passes
        <4> QED  BY <4>1 DEF Holds
      <3> QED  BY <3>2, <3>3
    <2>5. Inserting(d, e) => Holds(d, e, x)
      BY <1>4 DEF Inserting, Inserts, Holds
    <2>6. Offering(d, e) => Holds(d, e, x)
      <3>1. d \in Database
        BY <1>1 DEF Typed
      <3>2. Offering(d, e) => e.task = d.task /\ e.submissions = d.submissions
        BY <3>1, SMT DEF Offering, Database
      <3> QED  BY <3>2 DEF Holds
    <2> QED  BY <1>4, <2>2, <2>3, <2>4, <2>5, <2>6, ClosingDrops, LapsingDrops DEF OtherMove
  <1> QED  BY <1>3, <1>4

-----------------------------------------------------------------------------
(* And to a node's view of it *)

\* The steps of LeaseLife, in terms of the parts of a view: a lease ends without
\* an answer,
LEMMA LapsedStep ==
    ASSUME NEW L, NEW A, NEW H, NEW r \in Requests, L[r] = "live", NEW h \in BOOLEAN
    PROVE  Leases!Step([lease |-> L, answer |-> A, heard |-> H],
                       [lease |-> [L EXCEPT ![r] = "over"], answer |-> A, heard |-> h])
PROOF
  <1> DEFINE old == [lease |-> L, answer |-> A, heard |-> H]
             over == [L EXCEPT ![r] = "over"]
             mid == [lease |-> over, answer |-> A, heard |-> H]
             new == [lease |-> over, answer |-> A, heard |-> h]
  <1>1. [old EXCEPT !.lease[r] = "over"] = mid
    BY SMT
  <1>2. old.lease = L
    OBVIOUS
  <1> HIDE DEF old, over
  <1>3. [mid EXCEPT !.heard = h] = new
    BY SMT
  <1> HIDE DEF mid, new
  <1>4. Leases!Lapsed(old, r, h) = [[old EXCEPT !.lease[r] = "over"] EXCEPT !.heard = h]
    BY DEF Leases!Lapsed
  <1>5. new = Leases!Lapsed(old, r, h)
    BY <1>1, <1>3, <1>4
  <1>6. Leases!Step(old, new)
    BY <1>2, <1>5 DEF Leases!Step
  <1> QED  BY <1>6 DEF old, over, mid, new

\* or with one,
LEMMA AnsweredStep ==
    ASSUME NEW L, NEW A, NEW H, NEW r \in Requests, L[r] = "live",
           NEW s \in SubmissionIds, A[s] = None, NEW a \in Outcome
    PROVE  Leases!Step([lease |-> L, answer |-> A, heard |-> H],
                       [lease |-> [L EXCEPT ![r] = "over"], answer |-> [A EXCEPT ![s] = a],
                        heard |-> TRUE])
PROOF
  <1> DEFINE old == [lease |-> L, answer |-> A, heard |-> H]
             over == [L EXCEPT ![r] = "over"]
             says == [A EXCEPT ![s] = a]
             mid == [lease |-> over, answer |-> A, heard |-> H]
             mid2 == [lease |-> over, answer |-> says, heard |-> H]
             new == [lease |-> over, answer |-> says, heard |-> TRUE]
  <1>1. [old EXCEPT !.lease[r] = "over"] = mid
    BY SMT
  <1>2. old.lease = L /\ old.answer = A
    OBVIOUS
  <1> HIDE DEF old, over
  <1>3. [mid EXCEPT !.answer[s] = a] = mid2
    BY SMT
  <1> HIDE DEF says
  <1>4. [mid2 EXCEPT !.heard = TRUE] = new
    <2>1. \A t : [mid2 EXCEPT !.heard = t] = [lease |-> over, answer |-> says, heard |-> t]
      BY SMT
    <2> QED  BY <2>1, Zenon
  <1> HIDE DEF mid, mid2, new
  <1>5. Leases!Answered(old, r, s, a)
           = [[[old EXCEPT !.lease[r] = "over"] EXCEPT !.answer[s] = a] EXCEPT !.heard = TRUE]
    BY DEF Leases!Answered
  <1>6. new = Leases!Answered(old, r, s, a)
    BY <1>1, <1>3, <1>4, <1>5
  <1>7. Leases!Step(old, new)
    BY <1>2, <1>6 DEF Leases!Step, Leases!Answerable
  <1> QED  BY <1>7 DEF old, over, says, mid, mid2, new

\* and one is issued.
LEMMA IssuedStep ==
    ASSUME NEW L, NEW A, NEW r \in Requests, L[r] = "none", \A q \in Requests : L[q] # "live"
    PROVE  Leases!Step([lease |-> L, answer |-> A, heard |-> FALSE],
                       [lease |-> [L EXCEPT ![r] = "live"], answer |-> A, heard |-> FALSE])
PROOF
  <1> DEFINE old == [lease |-> L, answer |-> A, heard |-> FALSE]
             new == [lease |-> [L EXCEPT ![r] = "live"], answer |-> A, heard |-> FALSE]
  <1>1. [old EXCEPT !.lease[r] = "live"] = new
    <2>1. \A t : [[lease |-> L, answer |-> A, heard |-> t] EXCEPT !.lease[r] = "live"]
                    = [lease |-> [L EXCEPT ![r] = "live"], answer |-> A, heard |-> t]
      BY SMT
    <2> QED  BY <2>1, Zenon
  <1>2. old.lease = L /\ old.heard = FALSE
    OBVIOUS
  <1> HIDE DEF old, new
  <1>3. new = Leases!Issued(old, r)
    BY <1>1 DEF Leases!Issued
  <1>4. Leases!Step(old, new)
    BY <1>2, <1>3 DEF Leases!Step, Leases!Leasable
  <1> QED  BY <1>4 DEF old, new

\* The view depends on the lease, the rows and the node's requests for the task.
LEMMA ViewHeld ==
    ASSUME NEW d, NEW e, NEW n \in Nodes, NEW x, e.requests = d.requests, Holds(d, e, x)
    PROVE  LeasesOf(e, n, x) = LeasesOf(d, n, x) /\ LeaseView(e, n, x) = LeaseView(d, n, x)
PROOF
  <1>1. LeasesOf(e, n, x) = LeasesOf(d, n, x)
    BY DEF LeasesOf, Holds
  <1> QED  BY <1>1, ViewParts DEF Holds

\* The end of its lease is a step of what the lease's node sees; another node
\* sees nothing.
LEMMA ViewDropped ==
    ASSUME NEW d, Grown(d), Honest(d), NEW e, NEW n \in Nodes, NEW x \in Existing(d),
           e.requests = d.requests, Drops(d, e, x)
    PROVE  /\ Leases!Step(LeaseView(d, n, x), LeaseView(e, n, x))
           /\ Says(d, e, x) => \/ LeaseView(e, n, x) = LeaseView(d, n, x)
                               \/ Said(e.submissions[x], n) # {}
PROOF
  <1> DEFINE lease == d.task[x].lease
             subs == d.submissions[x]
  <1>1. x \in InState(d, "leased") /\ Typed(d) /\ RowsOK(d)
    BY DEF Drops, Grown, Kept
  <1>2. lease \in LeaseRow /\ lease # None
    <2>1. lease \in LeaseRow
      BY <1>1, LeasedRow
    <2> QED  BY <2>1, NoneAssumption DEF LeaseRow
  <1>3. lease.request \in Requests
    BY <1>2, SMT DEF LeaseRow
  <1>4. subs \in Seq(SubmissionRow)
    BY <1>1, LeasedRow, DatabaseTables DEF Typed
  <1>5. e.task[x].lease = None
    BY DEF Drops
  <1>6. CASE lease.node # n
    <2>1. LeasesOf(e, n, x) = LeasesOf(d, n, x)
      BY <1>5, <1>6 DEF LeasesOf
    <2>2. /\ AnswersOf(e.submissions[x], n) = AnswersOf(subs, n)
          /\ Said(e.submissions[x], n) = Said(subs, n)
      <3>1. CASE e.submissions[x] = subs
        BY <3>1
      <3>2. CASE Says(d, e, x)
        BY <1>4, <1>6, <3>2, SaidMore DEF Says
      <3> QED  BY <3>1, <3>2 DEF Drops
    <2>3. LeaseView(e, n, x) = LeaseView(d, n, x)
      BY <2>1, <2>2, ViewParts
    <2> QED  BY <2>3 DEF Leases!Step
  <1>7. CASE lease.node = n
    <2> DEFINE r == lease.request
               L == LeasesOf(d, n, x)
               A == AnswersOf(subs, n)
    <2>1. d.requests[n][r] # None /\ d.requests[n][r].task = x
      BY <1>1, <1>7 DEF Honest, HonestAt
    <2>2. L[r] = "live"
      BY <1>2, <1>3, <1>7, <2>1 DEF LeasesOf
    <2>3. LeasesOf(e, n, x) = [L EXCEPT ![r] = "over"]
      <3>1. \A q \in Requests : LeasesOf(e, n, x)[q] = IF q = r THEN "over" ELSE L[q]
        BY <1>5, <2>1 DEF LeasesOf
      <3>2. LeasesOf(e, n, x) = [q \in Requests |-> LeasesOf(e, n, x)[q]]
        BY DEF LeasesOf
      <3>3. L = [q \in Requests |-> L[q]]
        BY DEF LeasesOf
      <3> HIDE DEF L, r
      <3> QED  BY <3>1, <3>2, <3>3
    <2>4. Said(subs, n) = {}
      <3>1. OneEach(d.task[x], subs) /\ d.task[x].state = "leased"
        BY <1>1 DEF RowsOK, RowOK, InState
      <3> QED  BY <1>7, <3>1 DEF OneEach, Said
    <2>5. LeaseView(d, n, x) = [lease |-> L, answer |-> A, heard |-> FALSE]
      BY <2>4, ViewParts
    <2>6. CASE e.submissions[x] = subs
      <3>1. LeaseView(e, n, x) = [lease |-> [L EXCEPT ![r] = "over"], answer |-> A,
                                  heard |-> FALSE]
        BY <2>3, <2>4, <2>6, ViewParts
      <3>2. Leases!Step(LeaseView(d, n, x), LeaseView(e, n, x))
        <4> HIDE DEF L, A, r
        <4> QED  BY <1>3, <2>2, <2>5, <3>1, LapsedStep, ZenonT(60) DEF r
      <3>3. ~Says(d, e, x)
        <4>1. ASSUME NEW row \in SubmissionRow
              PROVE  Append(subs, row) # subs
          <5>1. Len(Append(subs, row)) = Len(subs) + 1 /\ Len(subs) \in Nat
            BY <1>4, SMT
          <5>2. \A k \in Nat : k + 1 # k
            BY SMT
          <5> QED  BY <5>1, <5>2
        <4> QED  BY <2>6, <4>1 DEF Says
      <3> QED  BY <3>2, <3>3
    <2>7. CASE Says(d, e, x)
      <3>1. PICK row \in SubmissionRow : row.node = n /\ e.submissions[x] = Append(subs, row)
        BY <1>7, <2>7 DEF Says
      <3> DEFINE B == AnswersOf(e.submissions[x], n)
      <3>2. /\ Said(e.submissions[x], n) # {}
            /\ \A s \in SubmissionIds : /\ A[s] = None
                                        /\ B[s] = IF s = row.sid THEN row.outcome ELSE None
        BY <1>4, <2>4, <3>1, SaidMore
      <3>3. LeaseView(e, n, x) = [lease |-> [L EXCEPT ![r] = "over"], answer |-> B,
                                  heard |-> TRUE]
        BY <2>3, <3>2, ViewParts
      <3>4. row.sid \in SubmissionIds \cup {Timeout} /\ row.outcome \in Outcome
        BY SMT DEF SubmissionRow
      <3>5. A = [s \in SubmissionIds |-> A[s]] /\ B = [s \in SubmissionIds |-> B[s]]
        BY DEF AnswersOf
      <3> HIDE DEF L, A, B, r
      <3>6. CASE row.sid \in SubmissionIds
        <4>1. B = [A EXCEPT ![row.sid] = row.outcome]
          BY <3>2, <3>5, <3>6
        <4>2. A[row.sid] = None
          BY <3>2, <3>6
        <4>3. Leases!Step(LeaseView(d, n, x), LeaseView(e, n, x))
          BY <1>3, <2>2, <2>5, <3>3, <3>4, <3>6, <4>1, <4>2, AnsweredStep DEF r
        <4> QED  BY <3>2, <4>3
      <3>7. CASE row.sid = Timeout
        <4>1. B = A
          BY <3>2, <3>5, <3>7, NoneAssumption
        <4>2. Leases!Step(LeaseView(d, n, x), LeaseView(e, n, x))
          BY <1>3, <2>2, <2>5, <3>3, <4>1, LapsedStep DEF r
        <4> QED  BY <3>2, <4>2
      <3> QED  BY <3>4, <3>6, <3>7
    <2> QED  BY <2>6, <2>7 DEF Drops
  <1> QED  BY <1>6, <1>7

\* A new lease is a step of what its node sees: the node had no lease of the task
\* and had said nothing.  Nobody else sees it.
LEMMA ViewLeased ==
    ASSUME NEW d, Grown(d), Honest(d), NEW e, Grown(e), Leasing(d, e),
           NEW n \in Nodes, NEW x \in Tasks
    PROVE  /\ Leases!Step(LeaseView(d, n, x), LeaseView(e, n, x))
           /\ x \in Existing(d) /\ Over(d, x) => LeaseView(e, n, x) = LeaseView(d, n, x)
PROOF
  <1>1. PICK m \in Nodes, r \in Requests :
           d.requests[m][r] = None /\ \E y \in Candidates(d, m) : Gives(d, e, m, r, y)
    BY DEF Leasing
  <1>2. PICK y \in Candidates(d, m) : Gives(d, e, m, r, y)
    BY <1>1
  <1>3. /\ Typed(d) /\ RowsOK(d) /\ Typed(e)
        /\ y \in Existing(d) /\ d.task[y].state = "open" /\ y \in Tasks
    BY ExistingTasks DEF Grown, Kept, Typed, Candidates, InState
  <1>4. ~Over(d, y) /\ ~Rejected(d, m, y)
    BY DEF Candidates, Over, TerminalStatus
  <1>5. d.task[y].lease = None
    BY <1>3 DEF Typed, ReferencesOK
  <1>6. /\ e.submissions = d.submissions /\ Existing(e) = Existing(d)
        /\ \A z \in Existing(d) \ {y} : e.task[z] = d.task[z]
        /\ e.task[y].state = "leased"
        /\ e.task[y].lease.node = m /\ e.task[y].lease.request = r
        /\ \A k \in Nodes, q \in Requests :
              k # m \/ q # r => e.requests[k][q] = d.requests[k][q]
    BY <1>2 DEF Gives, Existing
  <1>7. e.task[y].lease # None /\ e.requests[m][r] # None /\ e.requests[m][r].task = y
    <2>1. y \in InState(e, "leased")
      BY <1>3, <1>6 DEF InState
    <2>2. HonestAt(e, y)
      BY <2>1, LeasingHonest DEF Honest
    <2> QED  BY <1>3, <1>6, <2>1, <2>2 DEF HonestAt, Typed, ReferencesOK, InState
  <1>8. ASSUME x # y \/ n # m
        PROVE  LeaseView(e, n, x) = LeaseView(d, n, x)
    <2>1. x # y => e.task[x].lease = d.task[x].lease
      <3>1. CASE x \in Existing(d)
        BY <1>6, <3>1
      <3>2. CASE x \notin Existing(d)
        BY <1>3, <1>6, <3>2 DEF Typed, ReferencesOK
      <3> QED  BY <3>1, <3>2
    <2>2. ASSUME NEW q \in Requests
          PROVE  LeasesOf(e, n, x)[q] = LeasesOf(d, n, x)[q]
      <3>1. CASE n # m
        <4>1. e.requests[n][q] = d.requests[n][q]
          BY <1>6, <3>1
        <4>2. CASE x # y
          BY <2>1, <4>1, <4>2 DEF LeasesOf
        <4>3. CASE x = y
          BY <1>5, <1>6, <3>1, <4>1, <4>3 DEF LeasesOf
        <4> QED  BY <4>2, <4>3
      <3>2. CASE n = m /\ q # r
        <4>1. e.requests[n][q] = d.requests[n][q] /\ x # y
          BY <1>6, <1>8, <3>2
        <4> QED  BY <2>1, <4>1 DEF LeasesOf
      <3>3. CASE n = m /\ q = r
        <4>1. x # y
          BY <1>8, <3>3
        <4>2. LeasesOf(d, n, x)[q] = "none"
          BY <1>1, <3>3 DEF LeasesOf
        <4>3. LeasesOf(e, n, x)[q] = "none"
          BY <1>7, <3>3, <4>1 DEF LeasesOf
        <4> QED  BY <4>2, <4>3
      <3> QED  BY <3>1, <3>2, <3>3
    <2>3. /\ LeasesOf(e, n, x) = [q \in Requests |-> LeasesOf(e, n, x)[q]]
          /\ LeasesOf(d, n, x) = [q \in Requests |-> LeasesOf(d, n, x)[q]]
      BY DEF LeasesOf
    <2>4. LeasesOf(e, n, x) = LeasesOf(d, n, x)
      BY <2>2, <2>3
    <2> QED  BY <1>6, <2>4, ViewParts
  <1>9. ASSUME x = y, n = m
        PROVE  Leases!Step(LeaseView(d, n, x), LeaseView(e, n, x))
    <2> DEFINE L == LeasesOf(d, n, x)
               A == AnswersOf(d.submissions[x], n)
    <2>1. Said(d.submissions[x], n) = {}
      <3>1. OneEach(d.task[x], d.submissions[x])
        BY <1>3, <1>9 DEF RowsOK, RowOK
      <3>2. \A i \in DOMAIN d.submissions[x] : d.submissions[x][i].outcome # "pass"
        BY <1>3, <1>9, <3>1 DEF OneEach
      <3>3. \A i \in DOMAIN d.submissions[x] : d.submissions[x][i].outcome \in Outcome
        <4>1. \A row \in SubmissionRow : row.outcome \in Outcome
          BY SMT DEF SubmissionRow
        <4>2. d.submissions[x] \in Seq(SubmissionRow)
          BY <1>3, DatabaseTables DEF Typed
        <4>3. \A i \in DOMAIN d.submissions[x] : d.submissions[x][i] \in SubmissionRow
          BY <4>2, SMT
        <4> QED  BY <4>1, <4>3
      <3> QED  BY <1>4, <1>9, <3>2, <3>3 DEF Rejected, Said, Outcome
    <2>2. L[r] = "none" /\ \A q \in Requests : L[q] # "live"
      BY <1>1, <1>5, <1>9 DEF LeasesOf
    <2>3. LeasesOf(e, n, x) = [L EXCEPT ![r] = "live"]
      <3>1. \A q \in Requests : LeasesOf(e, n, x)[q] = IF q = r THEN "live" ELSE L[q]
        BY <1>5, <1>6, <1>7, <1>9 DEF LeasesOf
      <3>2. /\ LeasesOf(e, n, x) = [q \in Requests |-> LeasesOf(e, n, x)[q]]
            /\ L = [q \in Requests |-> L[q]]
        BY DEF LeasesOf
      <3> HIDE DEF L
      <3> QED  BY <3>1, <3>2
    <2>4. /\ LeaseView(d, n, x) = [lease |-> L, answer |-> A, heard |-> FALSE]
          /\ LeaseView(e, n, x) = [lease |-> [L EXCEPT ![r] = "live"], answer |-> A,
                                   heard |-> FALSE]
      BY <1>6, <2>1, <2>3, ViewParts
    <2> HIDE DEF L, A
    <2> QED  BY <2>2, <2>4, IssuedStep
  <1>10. Leases!Step(LeaseView(d, n, x), LeaseView(e, n, x))
    BY <1>8, <1>9 DEF Leases!Step
  <1>11. Over(d, x) => x # y
    BY <1>4
  <1> QED  BY <1>8, <1>10, <1>11

\* Nothing is left for the node to see: the problem ended, or the node was heard.
Spent(d, n, x) == (x \in Existing(d) /\ Over(d, x)) \/ Said(d.submissions[x], n) # {}

\* Each move is a step of what each node sees of each task, and after its last
\* one nothing is seen.
LEMMA MoveViews ==
    ASSUME NEW d, Sound(d), NEW e, Sound(e), Move(d, e), NEW n \in Nodes, NEW x \in Tasks
    PROVE  /\ Leases!Step(LeaseView(d, n, x), LeaseView(e, n, x))
           /\ Spent(d, n, x) => LeaseView(e, n, x) = LeaseView(d, n, x) /\ Spent(e, n, x)
           /\ Closing(d, e) \/ Lapsing(d, e) =>
                 LeaseView(e, n, x) = LeaseView(d, n, x) \/ Spent(e, n, x)
PROOF
  <1>1. /\ Grown(d) /\ Honest(d) /\ Grown(e) /\ Honest(e)
        /\ Typed(d) /\ Typed(e) /\ RowsOK(d)
    BY DEF Sound, Grown, Kept
  <1>2. Leasing(d, e) \/ OtherMove(d, e)
    BY DEF Move, OtherMove
  <1>3. OtherMove(d, e) => e.requests = d.requests
    BY <1>1, MoveShrinks DEF Shrinks
  <1>4. Leases!Step(LeaseView(d, n, x), LeaseView(e, n, x))
    <2>1. CASE Leasing(d, e)
      BY <1>1, <2>1, ViewLeased
    <2>2. CASE OtherMove(d, e)
      <3>1. CASE Holds(d, e, x)
        BY <1>3, <2>2, <3>1, ViewHeld DEF Leases!Step
      <3>2. CASE Drops(d, e, x)
        <4>1. x \in Existing(d)
          BY <3>2 DEF Drops, InState
        <4> QED  BY <1>1, <1>3, <2>2, <3>2, <4>1, ViewDropped
      <3> QED  BY <1>1, <2>2, <3>1, <3>2, MoveDrops
    <2> QED  BY <1>2, <2>1, <2>2
  <1>5. ASSUME x \in Existing(d), Over(d, x)
        PROVE  LeaseView(e, n, x) = LeaseView(d, n, x) /\ Spent(e, n, x)
    <2>1. d.task[x].problem \in Problems
      BY <1>1, <1>5 DEF Typed, ReferencesOK
    <2>2. /\ e.problem[d.task[x].problem] = d.problem[d.task[x].problem]
          /\ x \in Existing(e) /\ e.task[x] = d.task[x] /\ e.submissions[x] = d.submissions[x]
      BY <1>1, <1>5, <2>1, MoveRests DEF Rests, Over, Of
    <2>3. Spent(e, n, x)
      BY <1>5, <2>2 DEF Spent, Over
    <2>4. CASE Leasing(d, e)
      BY <1>1, <1>5, <2>3, <2>4, ViewLeased
    <2>5. CASE OtherMove(d, e)
      <3>1. Holds(d, e, x)
        BY <2>2 DEF Holds
      <3> QED  BY <1>3, <2>3, <2>5, <3>1, ViewHeld
    <2> QED  BY <1>2, <2>4, <2>5
  <1>6. ASSUME Said(d.submissions[x], n) # {}
        PROVE  LeaseView(e, n, x) = LeaseView(d, n, x) /\ Spent(e, n, x)
    <2> DEFINE old == LeaseView(d, n, x)
               new == LeaseView(e, n, x)
    <2>1. /\ old.lease = LeasesOf(d, n, x)
          /\ old.heard = (Said(d.submissions[x], n) # {})
          /\ new.heard = (Said(e.submissions[x], n) # {})
      BY ViewParts
    <2>2. \A q \in Requests : LeasesOf(d, n, x)[q] # "live"
      <3>1. x \in Existing(d)
        BY <1>1, <1>6 DEF Said, Typed, ReferencesOK
      <3>2. d.task[x].lease # None => d.task[x].state = "leased"
        BY <1>1, <3>1 DEF Typed, ReferencesOK
      <3>3. OneEach(d.task[x], d.submissions[x])
        BY <1>1, <3>1 DEF RowsOK, RowOK
      <3>4. ~(d.task[x].lease # None /\ d.task[x].lease.node = n)
        BY <1>6, <3>2, <3>3 DEF OneEach, Said
      <3> QED  BY <3>4 DEF LeasesOf
    <2>3. Leases!Step(old, new)
      BY <1>4
    <2> HIDE DEF old, new
    <2>4. new = old
      BY <1>6, <2>1, <2>2, <2>3 DEF Leases!Step, Leases!Leasable, Leases!Answerable
    <2>5. Said(e.submissions[x], n) # {}
      BY <1>6, <2>1, <2>4
    <2> QED  BY <2>4, <2>5 DEF old, new, Spent
  <1>7. ASSUME Closing(d, e) \/ Lapsing(d, e)
        PROVE  LeaseView(e, n, x) = LeaseView(d, n, x) \/ Spent(e, n, x)
    <2>1. OtherMove(d, e) /\ e.requests = d.requests
      BY <1>3, <1>7 DEF OtherMove
    <2>2. CASE Holds(d, e, x)
      BY <2>1, <2>2, ViewHeld
    <2>3. CASE ~Holds(d, e, x)
      <3>1. Drops(d, e, x) /\ x \in Existing(d)
        BY <1>1, <2>1, <2>3, MoveDrops DEF Drops, InState
      <3>2. CASE Closing(d, e)
        <4>1. Over(e, x) /\ Existing(e) = Existing(d)
          BY <1>1, <2>3, <3>1, <3>2, ClosingDrops DEF Closing, Ends, Existing
        <4> QED  BY <3>1, <4>1 DEF Spent
      <3>3. CASE Lapsing(d, e)
        <4>1. Says(d, e, x)
          BY <1>1, <2>3, <3>1, <3>3, LapsingDrops
        <4> QED  BY <1>1, <2>1, <3>1, <4>1, ViewDropped DEF Spent
      <3> QED  BY <1>7, <3>2, <3>3
    <2> QED  BY <2>2, <2>3
  <1> QED  BY <1>4, <1>5, <1>6, <1>7 DEF Spent

-----------------------------------------------------------------------------
(* The coordinator implements LeaseLife *)

\* What the moves of an expiry come to, for one node and task: at most one step
\* is seen, and when one is, nothing is seen from then on.
Quiet(d, e, n, x) ==
    /\ Leases!Step(LeaseView(d, n, x), LeaseView(e, n, x))
    /\ LeaseView(e, n, x) = LeaseView(d, n, x) \/ Spent(e, n, x)
    /\ Spent(d, n, x) => Spent(e, n, x)

\* So what a move makes of the view after it is a step from before it.
LEMMA QuietFirst ==
    ASSUME NEW d, NEW d1, Sound(d1), NEW e, Sound(e), NEW n \in Nodes, NEW x \in Tasks,
           Quiet(d, d1, n, x), Move(d1, e)
    PROVE  /\ Leases!Step(LeaseView(d, n, x), LeaseView(e, n, x))
           /\ Closing(d1, e) \/ Lapsing(d1, e) => Quiet(d, e, n, x)
PROOF
  <1>1. /\ Leases!Step(LeaseView(d1, n, x), LeaseView(e, n, x))
        /\ Spent(d1, n, x) => LeaseView(e, n, x) = LeaseView(d1, n, x) /\ Spent(e, n, x)
        /\ Closing(d1, e) \/ Lapsing(d1, e) =>
              LeaseView(e, n, x) = LeaseView(d1, n, x) \/ Spent(e, n, x)
    BY MoveViews
  <1>2. CASE LeaseView(d1, n, x) = LeaseView(d, n, x)
    BY <1>1, <1>2 DEF Quiet
  <1>3. CASE Spent(d1, n, x)
    BY <1>1, <1>3 DEF Quiet
  <1> QED  BY <1>2, <1>3 DEF Quiet

\* An expiry,
LEMMA SweepsQuiet ==
    ASSUME NEW d, Sound(d), NEW e, Grown(e), Sweeps(d, e), NEW n \in Nodes, NEW x \in Tasks
    PROVE  Quiet(d, e, n, x)
PROOF
  <1>1. PICK d1, d2 : /\ Grown(d1) /\ Grown(d2)
                      /\ Closing(d, d1) /\ Lapsing(d1, d2) /\ Closing(d2, e)
    BY DEF Sweeps
  <1>2. Move(d, d1) /\ Move(d1, d2) /\ Move(d2, e)
    BY <1>1 DEF Move
  <1>3. Sound(d1)
    BY <1>1, <1>2, MoveSound
  <1>4. Sound(d2)
    BY <1>1, <1>2, <1>3, MoveSound
  <1>5. Sound(e)
    BY <1>2, <1>4, MoveSound
  <1>6. Quiet(d, d, n, x)
    BY DEF Quiet, Leases!Step
  <1>7. Quiet(d, d1, n, x)
    BY <1>1, <1>2, <1>3, <1>6, QuietFirst
  <1>8. Quiet(d, d2, n, x)
    BY <1>1, <1>2, <1>3, <1>4, <1>7, QuietFirst
  <1> QED  BY <1>1, <1>2, <1>4, <1>5, <1>8, QuietFirst

\* and what a handler does after it.
LEMMA HandlesViews ==
    ASSUME NEW d, NEW d1, Sound(d1), NEW e, Sound(e), NEW n \in Nodes, NEW x \in Tasks,
           Quiet(d, d1, n, x), Handles(d1, e)
    PROVE  Leases!Step(LeaseView(d, n, x), LeaseView(e, n, x))
PROOF
  <1>1. CASE e = d1
    BY <1>1 DEF Quiet
  <1>2. CASE Move(d1, e)
    BY <1>2, QuietFirst
  <1>3. ASSUME NEW d2, Grown(d2), Lapsing(d1, d2), Closing(d2, e)
        PROVE  Leases!Step(LeaseView(d, n, x), LeaseView(e, n, x))
    <2>1. Move(d1, d2) /\ Move(d2, e)
      BY <1>3 DEF Move
    <2>2. Sound(d2)
      BY <1>3, <2>1, MoveSound
    <2>3. Quiet(d, d2, n, x)
      BY <1>3, <2>1, <2>2, QuietFirst
    <2> QED  BY <2>1, <2>2, <2>3, QuietFirst
  <1> QED  BY <1>1, <1>2, <1>3 DEF Handles

\* The coordinator implements LeaseLife for every node and task, whatever the
\* expiry, delegation, reopening or termination a request brings with it: a lease
\* that ended is never good again, and a node has one say.
THEOREM LeasesAreImplemented == Spec => ImplementsLeaseLife
PROOF
  <1> DEFINE view == [pair \in Nodes \X Tasks |-> LeaseView(db, pair[1], pair[2])]
  <1>1. Init => view = [pair \in Nodes \X Tasks |-> Leases!Unseen]
    <2> SUFFICES ASSUME Init
                 PROVE  \A n \in Nodes : \A x \in Tasks : LeaseView(db, n, x) = Leases!Unseen
      BY Zenon
    <2> TAKE n \in Nodes
    <2> TAKE x \in Tasks
    <2>1. db.submissions[x] = << >> /\ \A r \in Requests : db.requests[n][r] = None
      BY DEF Init, EmptyDatabase
    <2>2. Said(db.submissions[x], n) = {}
      BY <2>1, SMT DEF Said
    <2>3. LeasesOf(db, n, x) = [r \in Requests |-> "none"]
      BY <2>1 DEF LeasesOf
    <2>4. AnswersOf(db.submissions[x], n) = [s \in SubmissionIds |-> None]
      BY <2>2 DEF AnswersOf, SaidUnder
    <2> QED  BY <2>2, <2>3, <2>4, ViewParts DEF Leases!Unseen
  <1>2. TypeOK /\ Sound(db) /\ [Next]_vars =>
           /\ view' \in [Nodes \X Tasks -> Leases!View]
           /\ \A pair \in Nodes \X Tasks : Leases!Step(view[pair], view'[pair])
    <2> SUFFICES ASSUME TypeOK, Sound(db), [Next]_vars
                 PROVE  \A n \in Nodes : \A x \in Tasks :
                           /\ LeaseView(db', n, x) \in Leases!View
                           /\ Leases!Step(LeaseView(db, n, x), LeaseView(db', n, x))
      BY Zenon
    <2>1. Grown(db) /\ Sound(db') /\ Typed(db')
      BY SoundStep DEF Sound, Grown, Kept
    <2>2. PICK d : Grown(d) /\ (d = db \/ Sweeps(db, d)) /\ Handles(d, db')
      BY <2>1, NextMoves
    <2>3. Sound(d)
      BY <2>2, SweepsSound
    <2> TAKE n \in Nodes
    <2> TAKE x \in Tasks
    <2>4. Quiet(db, d, n, x)
      <3>1. CASE d = db
        BY <3>1 DEF Quiet, Leases!Step
      <3>2. CASE Sweeps(db, d)
        BY <2>2, <3>2, SweepsQuiet
      <3> QED  BY <2>2, <3>1, <3>2
    <2>5. Leases!Step(LeaseView(db, n, x), LeaseView(db', n, x))
      BY <2>1, <2>2, <2>3, <2>4, HandlesViews
    <2> QED  BY <2>1, <2>5, ViewTyped
  <1>3. Init => Leases!ViewInit
    BY <1>1 DEF Leases!ViewInit
  <1>4. TypeOK /\ Sound(db) /\ [Next]_vars => [Leases!ViewNext]_view
    BY <1>2 DEF Leases!ViewNext
  <1> QED  BY <1>3, <1>4, SoundAlways, PTL DEF Spec, ImplementsLeaseLife, Leases!LeaseLifeSpec

-----------------------------------------------------------------------------
(***************************************************************************)
(* 3. Reframing                                                            *)
(***************************************************************************)

-----------------------------------------------------------------------------
(* With reframes among the steps: types, attempts and submissions *)

\* What a reframe makes of a database is sound when the database is.
LEMMA ReframedKeeps ==
    ASSUME TypeOK, NEW d, Kept(d), NEW req \in ReframeRequests(db), MayReframe(d, req)
    PROVE  Kept(Reframed(d, req))
PROOF
  <1> DEFINE e == Inserted(d, req.successor, req.body)
  <1>1. req.source \in Problems /\ req.successor \in Problems /\ req.body \in ProblemRequest
    BY SuccessorsAssumption DEF ReframeRequests
  <1>2. Kept(e)
    BY <1>1, InsertedKeeps DEF MayReframe
  <1> HIDE DEF e
  <1>3. Kept(Terminated(e, {req.source}, "cancelled"))
    BY <1>1, <1>2, TerminatedKeeps DEF TerminalStatus
  <1> QED  BY <1>2, <1>3 DEF Reframed, e

\* So every step with reframes among them keeps it,
LEMMA ReframeStep ==
    ASSUME TypeOK, Kept(db), [ReframeNext]_rvars
    PROVE  TypeOK' /\ Kept(db')
PROOF
  <1>1. CASE Reframe
    <2>1. Kept(db')
      <3>1. \A d \in Swept(db, now) : Kept(d)
        <4>1. Typed(db) /\ now \in Nat
          BY TimeAssumption, SMT DEF TypeOK, Typed
        <4> QED  BY <4>1, SweptKeeps
      <3> QED  BY <1>1, <3>1, ReframedKeeps DEF Reframe
    <2>2. now' = now /\ fee' = fee
      BY <1>1 DEF Reframe
    <2> QED  BY <2>1, <2>2 DEF TypeOK, Kept, Typed
  <1>2. CASE [Next]_vars
    BY <1>2, TypeStep, KeptStep
  <1> QED  BY <1>1, <1>2 DEF ReframeNext, rvars

\* and it always holds.
LEMMA ReframingKeeps == ReframeSpec => [](TypeOK /\ Kept(db))
PROOF
  <1>1. ReframeInit => TypeOK /\ Kept(db)
    BY TypeInit, KeptInit DEF ReframeInit
  <1>2. TypeOK /\ Kept(db) /\ [ReframeNext]_rvars => (TypeOK /\ Kept(db))'
    BY ReframeStep
  <1> QED  BY <1>1, <1>2, PTL DEF ReframeSpec

-----------------------------------------------------------------------------

\* With reframes among its steps the coordinator keeps its database well typed,
\* and every reference in it to a row that exists.
THEOREM ReframingTypeCorrect == ReframeSpec => []TypeOK
PROOF
  <1> QED  BY ReframingKeeps, PTL

\* A reframe neither loses nor gives away an attempt, of the source or of any
\* other problem's tasks.
THEOREM ReframingAttemptLedger == ReframeSpec => []AttemptLedger
PROOF
  <1>1. Kept(db) => AttemptLedger
    BY DEF Kept, RowsOK, RowOK, AttemptLedger, AttemptLedgerOf
  <1> QED  BY <1>1, ReframingKeeps, PTL

\* No node gets a second say on a task through a reframe.
THEOREM ReframingOneSubmission == ReframeSpec => []OneSubmissionPerNode
PROOF
  <1>1. Kept(db) => OneSubmissionPerNode
    BY DEF Kept, RowsOK, RowOK, OneSubmissionPerNode, OneSubmissionPerNodeOf
  <1> QED  BY <1>1, ReframingKeeps, PTL

-----------------------------------------------------------------------------
(* Roots, and the failures behind blocked problems *)

\* A problem that was created has a root, and a blocked one a task that failed.
Rooted(d) ==
    \A p \in Problems :
        /\ d.problem[p].status # "none" => \E x \in Of(d, p) : d.task[x].parent = None
        /\ d.problem[p].status = "blocked" => \E x \in Of(d, p) : d.task[x].state = "failed"

\* What a move does to the status of a problem.
LEMMA MoveStatus ==
    ASSUME NEW d, Grown(d), NEW e, Grown(e), Move(d, e), NEW p \in Problems
    PROVE  \/ e.problem[p].status = d.problem[p].status
           \/ /\ d.problem[p].status = "active"
              /\ e.problem[p].status = "blocked" => \E x \in Of(e, p) : e.task[x].state = "failed"
           \/ /\ d.problem[p].status = "none" /\ e.problem[p].status = "active"
              /\ \E x \in Of(e, p) : e.task[x].parent = None
PROOF
  <1> DEFINE old == d.problem[p].status
             new == e.problem[p].status
             Goal == \/ new = old
                     \/ /\ old = "active"
                        /\ new = "blocked" => \E x \in Of(e, p) : e.task[x].state = "failed"
                     \/ /\ old = "none" /\ new = "active"
                        /\ \E x \in Of(e, p) : e.task[x].parent = None
  <1>1. d \in Database /\ Typed(d) /\ \A q \in Problems : d.problem[q] \in ProblemRow
    BY DatabaseTables DEF Grown, Kept, Typed
  <1>2. \A row \in ProblemRow : \A status : [row EXCEPT !.status = status].status = status
    BY SMT DEF ProblemRow
  <1>3. CASE Closing(d, e)
    <2>1. PICK P \in SUBSET Problems, status \in Closed :
             /\ \A q \in P : d.problem[q].status = "active"
             /\ status = "blocked" => Hopeless(d, P)
             /\ Ends(d, e, P, status)
      BY <1>3 DEF Closing
    <2>2. CASE p \in P
      <3>1. old = "active" /\ new = status
        <4>1. old = "active" /\ e.problem[p] = [d.problem[p] EXCEPT !.status = status]
          BY <2>1, <2>2 DEF Ends
        <4>2. d.problem[p] \in ProblemRow
          BY <1>1
        <4> QED  BY <1>2, <4>1, <4>2
      <3>2. ASSUME status = "blocked"
            PROVE  \E x \in Of(e, p) : e.task[x].state = "failed"
        <4>1. PICK x \in Of(d, p) : d.task[x].state = "failed"
          BY <2>1, <2>2, <3>2 DEF Hopeless
        <4>2. x \in Existing(d) /\ ~Doomed(d, P, x)
          BY <4>1 DEF Of, Doomed
        <4>3. e.task[x] = d.task[x] /\ Existing(e) = Existing(d)
          BY <2>1, <4>2 DEF Ends, Existing
        <4> QED  BY <4>1, <4>3 DEF Of
      <3> QED  BY <3>1, <3>2
    <2>3. CASE p \notin P
      BY <2>1, <2>3 DEF Ends
    <2> QED  BY <2>2, <2>3
  <1>4. CASE Passing(d, e)
    <2>1. PICK n \in Nodes, r \in Requests, x \in Existing(d) :
             LiveLease(d, n, r, x) /\ Passes(d, e, n, x)
      BY <1>4 DEF Passing
    <2>2. CASE p = d.task[x].problem
      <3>1. old = "active"
        BY <2>1, <2>2 DEF LiveLease
      <3>2. \/ e.problem[p] = d.problem[p]
            \/ e.problem[p] = [d.problem[p] EXCEPT !.status = "completed"]
        BY <2>1, <2>2 DEF Passes
      <3>3. d.problem[p] \in ProblemRow
        BY <1>1
      <3>4. new = old \/ new = "completed"
        <4>1. [d.problem[p] EXCEPT !.status = "completed"].status = "completed"
          BY <1>2, <3>3
        <4> QED  BY <3>2, <4>1, Zenon
      <3> HIDE DEF new, old
      <3>5. new = old \/ (old = "active" /\ new # "blocked")
        BY <3>1, <3>4
      <3> QED  BY <3>5 DEF new, old
    <2>3. CASE p # d.task[x].problem
      BY <2>1, <2>3 DEF Passes
    <2> QED  BY <2>2, <2>3
  <1>5. CASE Inserting(d, e)
    <2>1. PICK q \in Problems, b \in ProblemRequest :
             d.problem[q].status = "none" /\ Inserts(d, e, q, b)
      BY <1>5 DEF Inserting
    <2>2. CASE p = q
      <3>1. old = "none" /\ new = "active"
        BY <2>1, <2>2 DEF Inserts
      <3>2. d.tasks + 1 \in Existing(e)
        <4>1. d.tasks \in Nat /\ e.tasks = d.tasks + 1
          BY <1>1, <2>1, DatabaseTables, PoolAssumption DEF Inserts
        <4> QED  BY <4>1, SMT DEF Existing
      <3>3. e.task[d.tasks + 1].problem = p /\ e.task[d.tasks + 1].parent = None
        BY <2>1, <2>2 DEF Inserts, TaskOf
      <3> QED  BY <3>1, <3>2, <3>3 DEF Of
    <2>3. CASE p # q
      BY <2>1, <2>3 DEF Inserts
    <2> QED  BY <2>2, <2>3
  <1>6. CASE Offering(d, e)
    <2>1. e.problem = d.problem
      <3>1. e = [d EXCEPT !.offering = e.offering]
        BY <1>6 DEF Offering
      <3> QED  BY <1>1, <3>1, SMT DEF Database
    <2> QED  BY <2>1
  <1>7. CASE \/ Lapsing(d, e) \/ Leasing(d, e) \/ Proposing(d, e) \/ Rejecting(d, e)
             \/ Approving(d, e)
    <2>1. e.problem = d.problem
      BY <1>7 DEF Lapsing, Frees, Leasing, Gives, Proposing, Rejecting, Turns, Approving, Approves
    <2> QED  BY <2>1
  <1> HIDE DEF Goal
  <1>8. Goal
    BY <1>3, <1>4, <1>5, <1>6, <1>7 DEF Move, Goal
  <1> QED  BY <1>8 DEF Goal

\* So every move keeps the roots and the failures.
LEMMA MoveRooted ==
    ASSUME NEW d, Grown(d), NEW e, Grown(e), Move(d, e), Rooted(d)
    PROVE  Rooted(e)
PROOF
  <1> SUFFICES ASSUME NEW p \in Problems
               PROVE  /\ e.problem[p].status # "none" =>
                            \E x \in Of(e, p) : e.task[x].parent = None
                      /\ e.problem[p].status = "blocked" =>
                            \E x \in Of(e, p) : e.task[x].state = "failed"
    BY DEF Rooted
  <1>1. \A x \in Of(d, p) : x \in Of(e, p) /\ e.task[x].parent = d.task[x].parent
    BY MoveSameTask DEF Of, SameTask
  <1>2. d.problem[p].status # "none" => \E x \in Of(e, p) : e.task[x].parent = None
    BY <1>1 DEF Rooted
  <1>3. d.problem[p].status = "blocked" => \E x \in Of(e, p) : e.task[x].state = "failed"
    <2>1. d.problem[p].status = "blocked" => \A x \in Of(d, p) : e.task[x] = d.task[x]
      BY MoveRests DEF Rests, TerminalStatus
    <2> QED  BY <1>1, <2>1 DEF Rooted
  <1> QED  BY <1>2, <1>3, MoveStatus

-----------------------------------------------------------------------------
(* What a reframe was decided on *)

\* Some root of problem p comes after task x.
RootAfter(d, p, x) == \E y \in Of(d, p) : d.task[y].parent = None /\ x < y

\* The row of a reframe beside the rows it refers to: what LineageStands says of
\* one reframe, with the root named instead of looked up.
LineageAt(d, r) ==
    LET x == r.cited[1] IN
    /\ r \in ReframeRequests(d)
    /\ x \in Of(d, r.source) /\ d.task[x].parent = None
    /\ d.problem[r.source].status \in {"blocked", "cancelled"}
    /\ r.cited[2] = Len(d.submissions[x]) /\ d.task[x].attempts = Len(d.submissions[x])
    /\ d.submissions[x][r.cited[2]].outcome = "reject"
    /\ \A y \in Of(d, r.source) : \A i \in DOMAIN d.delegations[y] :
          d.delegations[y][i].status # "void"
    /\ \A s \in r.retained : /\ s[1] \in Of(d, r.source) /\ d.task[s[1]].state = "accepted"
                             /\ Row(d, s).earned > 0
    /\ RootAfter(d, r.successor, x)

\* The fields of a request.
LEMMA RequestFields ==
    ASSUME NEW d, NEW r \in ReframeRequests(d)
    PROVE  /\ r.source \in Problems /\ r.successor \in Problems /\ r.body \in Successors
           /\ r.cited \in SubmissionRefs(d) /\ r.retained \subseteq SubmissionRefs(d)
PROOF
  <1> DEFINE S == SubmissionRefs(d)
  <1>1. r \in [source : Problems, key : ReframeKeys, cited : S, retained : (SUBSET S) \ {{}},
               successor : Problems, body : Successors]
    BY DEF ReframeRequests
  <1> HIDE DEF S
  <1>2. /\ r.source \in Problems /\ r.successor \in Problems /\ r.body \in Successors
        /\ r.cited \in S /\ r.retained \in (SUBSET S) \ {{}}
    BY <1>1, SMT
  <1> QED  BY <1>2 DEF S

\* A reference to a submission is the pair of a task and the place of a row of it.
LEMMA RefParts ==
    ASSUME NEW d, NEW s
    PROVE  s \in SubmissionRefs(d) <=>
              /\ s = <<s[1], s[2]>> /\ s[1] \in Existing(d) /\ s[2] \in DOMAIN d.submissions[s[1]]
PROOF
  <1>1. s \in SubmissionRefs(d) <=> \E x \in Existing(d) : s \in {x} \X DOMAIN d.submissions[x]
    BY Zenon DEF SubmissionRefs
  <1>2. \A x : s \in {x} \X DOMAIN d.submissions[x] <=>
                  s = <<s[1], s[2]>> /\ s[1] = x /\ s[2] \in DOMAIN d.submissions[x]
    <2> TAKE x
    <2> DEFINE D == DOMAIN d.submissions[x]
    <2> HIDE DEF D
    <2>1. s \in {x} \X D <=> s = <<s[1], s[2]>> /\ s[1] = x /\ s[2] \in D
      BY SMT
    <2> QED  BY <2>1 DEF D
  <1> QED  BY <1>1, <1>2, Zenon

\* A request stays one while the submissions it refers to are there.
LEMMA RequestStays ==
    ASSUME NEW d, NEW e, NEW r \in ReframeRequests(d), r.cited \in SubmissionRefs(e),
           r.retained \subseteq SubmissionRefs(e)
    PROVE  r \in ReframeRequests(e)
PROOF
  <1> DEFINE S == SubmissionRefs(d)
             T == SubmissionRefs(e)
  <1>1. r \in [source : Problems, key : ReframeKeys, cited : S, retained : (SUBSET S) \ {{}},
               successor : Problems, body : Successors]
    BY DEF ReframeRequests
  <1>2. r.cited \in T /\ r.retained \subseteq T
    OBVIOUS
  <1> HIDE DEF S, T
  <1>3. r \in [source : Problems, key : ReframeKeys, cited : T, retained : (SUBSET T) \ {{}},
               successor : Problems, body : Successors]
    BY <1>1, <1>2, SMT
  <1> QED  BY <1>3 DEF ReframeRequests, T

\* A later root stays.
LEMMA RootStays ==
    ASSUME NEW d, Grown(d), NEW e, Move(d, e), NEW p, NEW x, RootAfter(d, p, x)
    PROVE  RootAfter(e, p, x)
PROOF BY MoveSameTask DEF RootAfter, Of, SameTask

\* No move changes what a reframe was decided on: its source has ended.
LEMMA MoveLineage ==
    ASSUME NEW d, Grown(d), NEW e, Grown(e), Move(d, e), NEW r, LineageAt(d, r)
    PROVE  LineageAt(e, r)
PROOF
  <1> DEFINE p == r.source
             x == r.cited[1]
  <1>1. /\ r \in ReframeRequests(d) /\ p \in Problems
        /\ r.cited \in SubmissionRefs(d) /\ r.retained \subseteq SubmissionRefs(d)
    BY RequestFields DEF LineageAt
  <1>2. d.problem[p].status \in TerminalStatus
    BY DEF LineageAt, TerminalStatus
  <1>3. /\ e.problem[p] = d.problem[p] /\ Of(e, p) = Of(d, p)
        /\ \A y \in Of(d, p) : /\ e.task[y] = d.task[y]
                               /\ e.submissions[y] = d.submissions[y]
                               /\ e.delegations[y] = d.delegations[y]
    BY <1>1, <1>2, MoveRests DEF Rests
  <1>4. x \in Of(d, p) /\ \A s \in r.retained : s[1] \in Of(d, p)
    BY DEF LineageAt
  <1>5. \A s \in SubmissionRefs(d) : s[1] \in Of(d, p) => s \in SubmissionRefs(e)
    <2>1. \A s : s[1] \in Of(d, p) => s[1] \in Existing(e)
      BY <1>3 DEF Of
    <2> QED  BY <1>3, <2>1, RefParts
  <1>6. r \in ReframeRequests(e)
    BY <1>1, <1>4, <1>5, RequestStays
  <1>7. RootAfter(e, r.successor, x)
    BY RootStays DEF LineageAt
  <1>8. \A s \in r.retained : Row(e, s) = Row(d, s)
    BY <1>3, <1>4 DEF Row
  <1> QED  BY <1>3, <1>4, <1>6, <1>7, <1>8 DEF LineageAt

\* An expiry keeps the submissions there are.
LEMMA SweepsRefs ==
    ASSUME NEW d, Grown(d), NEW e, Sweeps(d, e)
    PROVE  SubmissionRefs(d) \subseteq SubmissionRefs(e)
PROOF
  <1>1. ASSUME NEW a, Grown(a), NEW b, Closing(a, b)
        PROVE  SubmissionRefs(a) \subseteq SubmissionRefs(b)
    <2>1. Existing(b) = Existing(a) /\ b.submissions = a.submissions
      BY <1>1 DEF Closing, Ends, Existing
    <2> QED  BY <2>1, RefParts
  <1>2. ASSUME NEW a, Grown(a), NEW b, Lapsing(a, b)
        PROVE  SubmissionRefs(a) \subseteq SubmissionRefs(b)
    <2>1. PICK R \in SUBSET InState(a, "leased") : Frees(a, b, R)
      BY <1>2 DEF Lapsing
    <2>2. Existing(b) = Existing(a)
      BY <2>1 DEF Frees, Existing
    <2>3. ASSUME NEW x \in Existing(a)
          PROVE  DOMAIN a.submissions[x] \subseteq DOMAIN b.submissions[x]
      <3>1. a.submissions[x] \in Seq(SubmissionRow)
        BY <1>2, ExistingRow DEF Grown, Kept
      <3>2. CASE x \in R
        <4>1. PICK row \in SubmissionRow : b.submissions[x] = Append(a.submissions[x], row)
          BY <2>1, <3>2 DEF Frees
        <4> QED  BY <3>1, <4>1, SMT
      <3>3. CASE x \notin R
        BY <2>1, <3>3 DEF Frees
      <3> QED  BY <3>2, <3>3
    <2> QED  BY <2>2, <2>3, RefParts
  <1> QED  BY <1>1, <1>2 DEF Sweeps

\* A task is blocked only by the end of its problem.
Stopped(d) == \A x \in InState(d, "blocked") : Over(d, x)

\* Every move keeps that.
LEMMA MoveStopped ==
    ASSUME NEW d, Grown(d), NEW e, Grown(e), Move(d, e), Stopped(d)
    PROVE  Stopped(e)
PROOF
  <1> SUFFICES ASSUME NEW x \in Existing(e), e.task[x].state = "blocked"
               PROVE  Over(e, x)
    BY DEF Stopped, InState
  <1> DEFINE Before == x \in Existing(d) /\ d.task[x].state = "blocked"
  <1>1. Typed(d) /\ Typed(e) /\ d \in Database
    BY DEF Grown, Kept, Typed
  <1>2. CASE Before
    <2>1. Over(d, x) /\ d.task[x].problem \in Problems
      BY <1>1, <1>2, ExistingRow DEF Stopped, InState
    <2>2. e.task[x].problem = d.task[x].problem
      BY <1>2, MoveSameTask DEF SameTask
    <2> QED  BY <2>1, <2>2, MoveRests DEF Rests, Over
  <1>3. CASE Closing(d, e)
    <2>1. PICK P \in SUBSET Problems, status \in Closed :
             /\ \A q \in P : d.problem[q].status = "active"
             /\ Ends(d, e, P, status)
      BY <1>3 DEF Closing
    <2>2. x \in Existing(d)
      BY <2>1 DEF Ends, Existing
    <2>3. CASE Doomed(d, P, x)
      <3> DEFINE p == d.task[x].problem
      <3>1. p \in P /\ e.task[x].problem = p
        BY <2>1, <2>2, <2>3 DEF Ends, Doomed, SameTask
      <3>2. e.problem[p] = [d.problem[p] EXCEPT !.status = status] /\ d.problem[p] \in ProblemRow
        BY <1>1, <2>1, <3>1, DatabaseTables DEF Ends
      <3> HIDE DEF p
      <3>3. \A row \in ProblemRow : [row EXCEPT !.status = status].status = status
        BY SMT DEF ProblemRow
      <3>4. e.problem[p].status = status
        BY <3>2, <3>3
      <3> QED  BY <3>1, <3>4 DEF Over, Closed
    <2>4. CASE ~Doomed(d, P, x)
      BY <1>2, <2>1, <2>2, <2>4 DEF Ends
    <2> QED  BY <2>3, <2>4
  <1>4. CASE Lapsing(d, e)
    <2>1. PICK R \in SUBSET InState(d, "leased") : Frees(d, e, R)
      BY <1>4 DEF Lapsing
    <2>2. x \in Existing(d) \ R
      BY <2>1 DEF Frees, Existing
    <2> QED  BY <1>2, <2>1, <2>2 DEF Frees
  <1>5. CASE Leasing(d, e)
    <2>1. PICK n \in Nodes, r \in Requests : \E y \in Candidates(d, n) : Gives(d, e, n, r, y)
      BY <1>5 DEF Leasing
    <2>2. PICK y : Gives(d, e, n, r, y)
      BY <2>1
    <2>3. x \in Existing(d) \ {y}
      BY <2>2 DEF Gives, Existing
    <2> QED  BY <1>2, <2>2, <2>3 DEF Gives
  <1>6. ASSUME NEW y, NEW s \in TaskState \ {"blocked"}, NEW rows, Turns(d, e, y, s, rows)
        PROVE  Before
    <2>1. x \in Existing(d) \ {y}
      BY <1>6 DEF Turns, Existing
    <2> QED  BY <1>6, <2>1 DEF Turns
  <1>7. CASE Proposing(d, e) \/ Rejecting(d, e)
    <2>1. \E y, rows : \/ Turns(d, e, y, "awaiting_delegation_approval", rows)
                       \/ Turns(d, e, y, "open", rows)
      BY <1>7 DEF Proposing, Rejecting
    <2> QED  BY <1>2, <1>6, <2>1 DEF TaskState
  <1>8. CASE Approving(d, e)
    <2>1. PICK y \in Existing(d) : \E plan, by, selfOk, rows :
             Approves(d, e, y, plan, by, selfOk, rows)
      BY <1>8 DEF Approving
    <2>2. PICK plan, by, selfOk, rows : Approves(d, e, y, plan, by, selfOk, rows)
      BY <2>1
    <2>3. x \in Existing(d) \ {y}
      <3>1. x # y
        BY <1>2, <2>2 DEF Approves
      <3>2. ASSUME x \notin Existing(d)
            PROVE  e.task[x].state = "open"
        <4>1. e.task[x] = TaskOf(d.task[y].problem, y, d.task[y].depth + 1, plan[x - d.tasks],
                                 now, by, selfOk)
          BY <2>2, <3>2 DEF Approves
        <4> QED  BY <4>1 DEF TaskOf
      <3> QED  BY <3>1, <3>2
    <2> QED  BY <1>2, <2>2, <2>3 DEF Approves
  <1>9. CASE Passing(d, e)
    <2>1. PICK n \in Nodes, y \in Existing(d) : Passes(d, e, n, y)
      BY <1>9 DEF Passing
    <2>2. x \in Existing(d) \ {y}
      BY <2>1 DEF Passes, Existing
    <2>3. e.task[x] = d.task[x]
      BY <2>1, <2>2 DEF Passes
    <2> QED  BY <1>2, <2>2, <2>3
  <1>10. CASE Inserting(d, e)
    <2>1. PICK p \in Problems, b \in ProblemRequest : Inserts(d, e, p, b)
      BY <1>10 DEF Inserting
    <2>2. x \in Existing(d)
      <3>1. Existing(e) = Existing(d) \cup {d.tasks + 1}
        <4>1. d.tasks \in Nat /\ e.tasks = d.tasks + 1
          BY <1>1, <2>1, DatabaseTables, PoolAssumption DEF Inserts
        <4> QED  BY <4>1, SMT DEF Existing
      <3> QED  BY <2>1, <3>1 DEF Inserts, TaskOf
    <2> QED  BY <1>2, <2>1, <2>2 DEF Inserts
  <1>11. CASE Offering(d, e)
    <2>1. e.task = d.task /\ e.tasks = d.tasks
      BY <1>1, <1>11, SMT DEF Offering, Database
    <2> QED  BY <1>2, <2>1 DEF Existing
  <1> QED  BY <1>3, <1>4, <1>5, <1>7, <1>8, <1>9, <1>10, <1>11 DEF Move

-----------------------------------------------------------------------------
(* What a reframe is decided on, when it is *)

\* What a termination leaves of a row's attempts.
LEMMA TerminatedAttempts ==
    ASSUME NEW d, Typed(d), NEW P \in SUBSET Problems, NEW status, NEW x \in Existing(d)
    PROVE  Terminated(d, P, status).task[x].attempts = d.task[x].attempts
PROOF
  <1> DEFINE e == Terminated(d, P, status)
  <1>1. d \in Database /\ x \in Tasks /\ d.task[x] \in TaskRow
    BY ExistingRow DEF Typed
  <1>2. e.task[x] = d.task[x] \/ e.task[x] = [d.task[x] EXCEPT !.state = "blocked", !.lease = None]
    BY <1>1, SMT DEF Terminated, Settled, Database
  <1> HIDE DEF e
  <1>3. [d.task[x] EXCEPT !.state = "blocked", !.lease = None].attempts = d.task[x].attempts
    BY <1>1, SMT DEF TaskRow
  <1> QED  BY <1>2, <1>3 DEF e

\* The root of a problem is where Root finds it.
LEMMA RootFound ==
    ASSUME NEW d, OneRoot(d), NEW p, NEW x \in Of(d, p), d.task[x].parent = None
    PROVE  Root(d, p) = x
PROOF
  <1>1. \A y \in Of(d, p) : d.task[y].parent = None <=> y = x
    BY DEF OneRoot, Of
  <1> QED  BY <1>1 DEF Root

\* No proposal was cut off and none is undecided where a task is not blocked.
LEMMA NothingVoid ==
    ASSUME NEW d, Grown(d), NEW y \in Existing(d), d.task[y].state # "blocked"
    PROVE  \A i \in DOMAIN d.delegations[y] : d.delegations[y][i].status # "void"
PROOF
  <1> DEFINE rows == d.delegations[y]
  <1>1. rows \in Seq(DelegationRow)
    BY DatabaseTables, ExistingTasks DEF Grown, Kept, Typed
  <1>2. Past(rows) /\ LastStatus(rows) # "void"
    BY DEF Grown, Treed, ShapeAt, Shape
  <1> HIDE DEF rows
  <1>3. ASSUME NEW i \in DOMAIN rows
        PROVE  rows[i].status # "void"
    <2>1. rows # << >> /\ (i = Len(rows) \/ i \in 1 .. Len(rows) - 1)
      BY <1>1, SMT
    <2> QED  BY <1>2, <2>1 DEF LastStatus, Past
  <1> QED  BY <1>3 DEF rows

\* Voiding changes nothing where nothing is undecided.
LEMMA NothingVoided ==
    ASSUME NEW rows \in Seq(DelegationRow), \A i \in DOMAIN rows : rows[i].status # "proposed"
    PROVE  Voided(rows) = rows
PROOF
  <1>1. Voided(rows) = [i \in DOMAIN rows |-> rows[i]]
    BY DEF Voided
  <1>2. [i \in DOMAIN rows |-> rows[i]] = rows
    BY SMT
  <1> QED  BY <1>1, <1>2

\* Accepted work earned something.
LEMMA PassEarns ==
    ASSUME NEW d, Sound(d), NEW x \in Existing(d), NEW i \in DOMAIN d.submissions[x],
           d.submissions[x][i].outcome = "pass"
    PROVE  d.submissions[x][i].earned > 0
PROOF
  <1> DEFINE p == d.task[x].problem
  <1>1. d.submissions[x][i].earned = Pay(d, x)
    BY DEF Sound, Quoted
  <1>2. Typed(d) /\ d.task[x].spec \in Specs /\ p \in Problems
    BY ExistingRow DEF Sound, Grown, Kept
  <1>3. d.problem[p].fee \in BasisPoints
    <2>1. d.problem[p] \in ProblemRow
      BY <1>2, DatabaseTables DEF Typed
    <2>2. \A row \in ProblemRow : row.fee \in BasisPoints
      BY SMT DEF ProblemRow
    <2> QED  BY <2>1, <2>2
  <1>4. Pay(d, x) \in Nat \ {0}
    BY <1>2, <1>3, EarningPositive DEF Pay
  <1>5. Pay(d, x) > 0
    BY <1>4, SMT
  <1> QED  BY <1>1, <1>5

\* What MayReframe finds out of the source, in a sound database.
LEMMA ReframeFinds ==
    ASSUME NEW d, Sound(d), Rooted(d), Stopped(d),
           NEW req \in ReframeRequests(d), MayReframe(d, req)
    PROVE  LET p == req.source
               x == req.cited[1]
           IN  /\ x \in Of(d, p) /\ d.task[x].parent = None
               /\ req.cited[2] = Len(d.submissions[x]) /\ d.task[x].attempts = Len(d.submissions[x])
               /\ d.submissions[x][req.cited[2]].outcome = "reject"
               /\ \A y \in Of(d, p) : \A i \in DOMAIN d.delegations[y] :
                     d.delegations[y][i].status \notin {"void", "proposed"}
               /\ \A s \in req.retained : /\ s[1] \in Of(d, p) /\ d.task[s[1]].state = "accepted"
                                          /\ Row(d, s).earned > 0
PROOF
  <1> DEFINE p == req.source
             x == req.cited[1]
  <1>1. /\ Grown(d) /\ Kept(d) /\ Typed(d) /\ Treed(d) /\ OneRoot(d) /\ p \in Problems
        /\ req.retained \subseteq SubmissionRefs(d)
    BY RequestFields DEF Sound, Grown, Kept, Treed
  <1>2. /\ d.problem[p].status \in {"active", "blocked"} /\ CitesLatestRejection(d, p, req.cited)
        /\ Quiescent(d, p) /\ \A s \in req.retained : Retainable(d, p, s)
    BY DEF MayReframe
  <1>3. x \in Of(d, p) /\ d.task[x].parent = None /\ Root(d, p) = x
    <2>1. PICK y \in Of(d, p) : d.task[y].parent = None
      BY <1>1, <1>2 DEF Rooted
    <2>2. Root(d, p) = y
      BY <1>1, <2>1, RootFound
    <2>3. x = Root(d, p)
      BY <1>2 DEF CitesLatestRejection
    <2> QED  BY <2>1, <2>2, <2>3
  <1>4. x \in Existing(d) /\ d.task[x].problem = p
    BY <1>3 DEF Of
  <1>5. \A y \in Of(d, p) \ {x} : d.task[y].state = "accepted" /\ y \in Descendants(d, p)
    <2> TAKE y \in Of(d, p) \ {x}
    <2>1. d.task[y].parent # None
      BY <1>1, <1>3 DEF OneRoot, Of
    <2> QED  BY <1>2, <2>1 DEF Quiescent, Descendants
  <1>6. d.task[x].state \in {"open", "failed"}
    <2>1. d.task[x].state \in {"open", "failed", "blocked"}
      BY <1>2, <1>3 DEF Quiescent
    <2>2. CASE d.problem[p].status = "active"
      <3>1. d.task[x].state # "blocked"
        BY <1>4, <2>2 DEF Stopped, InState, Over, TerminalStatus
      <3> QED  BY <2>1, <3>1
    <2>3. CASE d.problem[p].status = "blocked"
      <3>1. PICK y \in Of(d, p) : d.task[y].state = "failed"
        BY <1>1, <2>3 DEF Rooted
      <3> QED  BY <1>5, <3>1
    <2> QED  BY <1>2, <2>2, <2>3
  <1>7. d.task[x].attempts = Len(d.submissions[x])
    BY <1>1, <1>4, <1>6 DEF Kept, RowsOK, RowOK, AttemptsAddUp
  <1>8. \A y \in Of(d, p) : \A i \in DOMAIN d.delegations[y] :
           d.delegations[y][i].status \notin {"void", "proposed"}
    <2>1. \A y \in Of(d, p) : y \in Existing(d) /\ d.task[y].state # "blocked"
      BY <1>5, <1>6 DEF Of
    <2> QED  BY <1>1, <1>2, <2>1, NothingVoid DEF Quiescent
  <1>9. ASSUME NEW s \in req.retained
        PROVE  /\ s[1] \in Of(d, p) /\ d.task[s[1]].state = "accepted" /\ Row(d, s).earned > 0
    <2>1. /\ s[1] \in Of(d, p) /\ d.task[s[1]].state = "accepted" /\ Row(d, s).outcome = "pass"
      BY <1>2 DEF Retainable, Descendants
    <2>2. s[1] \in Existing(d) /\ s[2] \in DOMAIN d.submissions[s[1]]
      BY <1>1, RefParts
    <2> QED  BY <2>1, <2>2, PassEarns DEF Row
  <1>10. /\ req.cited[2] = Len(d.submissions[x])
         /\ d.submissions[x][req.cited[2]].outcome = "reject"
    BY <1>2 DEF CitesLatestRejection, Row
  <1> QED  BY <1>3, <1>7, <1>8, <1>9, <1>10

-----------------------------------------------------------------------------
(* A reframe, and every other step, keeps what reframes were decided on *)

\* A reframe inserts its successor and closes its source if it is active.
LEMMA ReframedMoves ==
    ASSUME TypeOK, NEW d, Grown(d), NEW req \in ReframeRequests(db), MayReframe(d, req)
    PROVE  LET e == Inserted(d, req.successor, req.body)
               f == Reframed(d, req)
           IN  /\ Grown(e) /\ Inserts(d, e, req.successor, req.body) /\ Inserting(d, e)
               /\ req.successor # req.source
               /\ Grown(f)
               /\ \/ d.problem[req.source].status = "blocked" /\ f = e
                  \/ /\ d.problem[req.source].status = "active"
                     /\ f = Terminated(e, {req.source}, "cancelled")
                     /\ Ends(e, f, {req.source}, "cancelled") /\ Closing(e, f)
PROOF
  <1> DEFINE p == req.source
             q == req.successor
             e == Inserted(d, q, req.body)
             f == Reframed(d, req)
  <1>1. p \in Problems /\ q \in Problems /\ req.body \in ProblemRequest
    BY RequestFields, SuccessorsAssumption
  <1>2. /\ d.problem[p].status \in {"active", "blocked"} /\ d.problem[q].status = "none"
        /\ req.body.spec.reward + req.body.spec.budget <= req.body.funded
        /\ Insertable(d, req.body)
    BY DEF MayReframe
  <1>3. p # q
    BY <1>2
  <1>4. Inserts(d, e, q, req.body)
    BY <1>1, <1>2, InsertedInserts DEF Insertable, Grown, Kept
  <1>5. Kept(e)
    BY <1>1, <1>2, InsertedKeeps DEF Grown
  <1>6. f = IF d.problem[p].status = "active" THEN Terminated(e, {p}, "cancelled") ELSE e
    BY DEF Reframed
  <1> HIDE DEF e, f, p, q
  <1>7. Inserting(d, e)
    BY <1>1, <1>2, <1>4 DEF Inserting
  <1>8. Grown(e)
    BY <1>5, <1>7, MoveTreed DEF Move
  <1>9. CASE d.problem[p].status = "active"
    <2>1. f = Terminated(e, {p}, "cancelled")
      BY <1>6, <1>9
    <2>2. e.problem[p].status = "active"
      BY <1>1, <1>3, <1>4, <1>9 DEF Inserts
    <2>3. Closing(e, f) /\ Grown(f)
      BY <1>1, <1>8, <2>1, <2>2, TerminatedMove DEF Closed, TerminalStatus
    <2>4. Ends(e, f, {p}, "cancelled")
      BY <1>1, <1>8, <2>1, TerminatedEnds DEF Grown, Kept
    <2> QED  BY <1>3, <1>4, <1>7, <1>8, <1>9, <2>1, <2>3, <2>4 DEF e, f, p, q
  <1>10. CASE d.problem[p].status = "blocked"
    BY <1>3, <1>4, <1>6, <1>7, <1>8, <1>10 DEF e, f, p, q
  <1> QED  BY <1>2, <1>9, <1>10

\* A reframe's own row has its lineage.
LEMMA ReframedLineage ==
    ASSUME TypeOK, NEW d, Sound(d), Rooted(d), Stopped(d),
           NEW req \in ReframeRequests(db), req \in ReframeRequests(d), MayReframe(d, req)
    PROVE  LineageAt(Reframed(d, req), req)
PROOF
  <1> DEFINE p == req.source
             q == req.successor
             x == req.cited[1]
             e == Inserted(d, q, req.body)
             f == Reframed(d, req)
  <1>1. /\ Grown(d) /\ Typed(d) /\ Grown(e) /\ Typed(e) /\ Grown(f)
        /\ Inserts(d, e, q, req.body) /\ Inserting(d, e)
        /\ q # p /\ p \in Problems /\ q \in Problems
        /\ \/ d.problem[p].status = "blocked" /\ f = e
           \/ /\ d.problem[p].status = "active" /\ f = Terminated(e, {p}, "cancelled")
              /\ Ends(e, f, {p}, "cancelled") /\ Closing(e, f)
    BY ReframedMoves, RequestFields DEF Sound, Grown, Kept
  <1>2. /\ x \in Of(d, p) /\ d.task[x].parent = None
        /\ req.cited[2] = Len(d.submissions[x]) /\ d.task[x].attempts = Len(d.submissions[x])
        /\ d.submissions[x][req.cited[2]].outcome = "reject"
        /\ \A y \in Of(d, p) : \A i \in DOMAIN d.delegations[y] :
              d.delegations[y][i].status \notin {"void", "proposed"}
        /\ \A s \in req.retained : /\ s[1] \in Of(d, p) /\ d.task[s[1]].state = "accepted"
                                   /\ Row(d, s).earned > 0
    BY ReframeFinds
  <1>3. req.cited \in SubmissionRefs(d) /\ req.retained \subseteq SubmissionRefs(d)
    BY RequestFields
  <1> HIDE DEF e, f, p, q, x
  <1>4. /\ d.tasks \in Nat /\ Existing(e) = Existing(d) \cup {d.tasks + 1}
        /\ d.tasks + 1 \notin Existing(d)
    <2>1. d.tasks \in Nat
      BY <1>1, DatabaseTables, PoolAssumption DEF Typed
    <2> QED  BY <1>1, <2>1, SMT DEF Existing, Inserts
  <1>5. /\ e.task[d.tasks + 1].problem = q /\ e.task[d.tasks + 1].parent = None
        /\ e.submissions = d.submissions
        /\ \A y \in Existing(d) : e.task[y] = d.task[y] /\ e.delegations[y] = d.delegations[y]
        /\ e.problem[p] = d.problem[p]
    BY <1>1 DEF Inserts, TaskOf
  <1>6. Of(e, p) = Of(d, p) /\ Of(d, p) \subseteq Existing(d) /\ Of(d, p) \subseteq Existing(e)
    BY <1>1, <1>4, <1>5 DEF Of
  <1>7. RootAfter(e, q, x)
    <2>1. x < d.tasks + 1
      BY <1>2, <1>4, <1>6, SMT DEF Existing
    <2> QED  BY <1>4, <1>5, <2>1 DEF RootAfter, Of
  <1>8. /\ f.submissions = d.submissions /\ Existing(f) = Existing(e) /\ Of(f, p) = Of(d, p)
        /\ f.task[x].parent = None /\ f.task[x].attempts = d.task[x].attempts
        /\ \A y \in Of(d, p) : f.delegations[y] = d.delegations[y]
        /\ \A y \in Of(d, p) : d.task[y].state = "accepted" => f.task[y] = d.task[y]
        /\ f.problem[p].status \in {"blocked", "cancelled"}
        /\ RootAfter(f, q, x)
    <2>1. CASE d.problem[p].status = "blocked" /\ f = e
      BY <1>2, <1>5, <1>6, <1>7, <2>1
    <2>2. CASE /\ d.problem[p].status = "active" /\ f = Terminated(e, {p}, "cancelled")
               /\ Ends(e, f, {p}, "cancelled") /\ Closing(e, f)
      <3>1. f.tasks = e.tasks /\ f.submissions = e.submissions
        BY <2>2 DEF Ends
      <3>2. Existing(f) = Existing(e)
        BY <3>1 DEF Existing
      <3>3. \A y \in Existing(e) : SameTask(e.task[y], f.task[y])
        BY <1>1, <2>2, MoveSameTask DEF Move
      <3>4. Of(f, p) = Of(d, p) /\ f.task[x].parent = None
        <4>1. Of(f, p) = Of(e, p)
          BY <3>2, <3>3 DEF Of, SameTask
        <4> QED  BY <1>2, <1>5, <1>6, <3>3, <4>1 DEF SameTask
      <3>5. f.task[x].attempts = d.task[x].attempts
        BY <1>1, <1>2, <1>5, <1>6, <2>2, TerminatedAttempts
      <3>6. \A y \in Of(d, p) : f.delegations[y] = d.delegations[y]
        <4> TAKE y \in Of(d, p)
        <4>1. y \in Existing(d) /\ y \in Tasks /\ e.delegations[y] \in Seq(DelegationRow)
          BY <1>1, <1>6, DatabaseTables, ExistingTasks DEF Typed
        <4>2. \A i \in DOMAIN e.delegations[y] : e.delegations[y][i].status # "proposed"
          BY <1>2, <1>5, <4>1
        <4>3. Voided(e.delegations[y]) = e.delegations[y]
          BY <4>1, <4>2, NothingVoided
        <4> QED  BY <1>5, <1>6, <2>2, <4>1, <4>3, ZenonT(60) DEF Ends
      <3>7. \A y \in Of(d, p) : d.task[y].state = "accepted" => f.task[y] = d.task[y]
        BY <1>5, <1>6, <2>2 DEF Ends, Doomed
      <3>8. f.problem[p].status = "cancelled"
        <4>1. /\ f.problem[p] = [e.problem[p] EXCEPT !.status = "cancelled"]
              /\ e.problem[p] \in ProblemRow
          BY <1>1, <1>5, <2>2, DatabaseTables DEF Ends, Typed
        <4> QED  BY <4>1, SMT DEF ProblemRow
      <3>9. RootAfter(f, q, x)
        BY <1>1, <1>7, <2>2, RootStays DEF Move
      <3> QED  BY <1>5, <3>1, <3>2, <3>4, <3>5, <3>6, <3>7, <3>8, <3>9
    <2> QED  BY <1>1, <2>1, <2>2
  <1>9. req \in ReframeRequests(f)
    <2>1. SubmissionRefs(d) \subseteq SubmissionRefs(f)
      BY <1>4, <1>8, RefParts
    <2> QED  BY <1>3, <2>1, RequestStays
  <1>10. \A s \in req.retained : /\ s[1] \in Of(f, p) /\ f.task[s[1]].state = "accepted"
                                 /\ Row(f, s).earned > 0
    BY <1>2, <1>8 DEF Row
  <1>11. \A y \in Of(f, p) : \A i \in DOMAIN f.delegations[y] : f.delegations[y][i].status # "void"
    BY <1>2, <1>8
  <1> QED  BY <1>2, <1>8, <1>9, <1>10, <1>11 DEF LineageAt, f, p, q, x

\* Two reframes neither cite the same rejection nor make the same successor.
Apart(R) == \A r, s \in R : r.cited = s.cited \/ r.successor = s.successor => r = s

\* The inductive invariant of LineageStands: the coordinator's own, and of each
\* reframe what it was decided on.
Standing(d, R) ==
    /\ Sound(d) /\ Rooted(d) /\ Stopped(d)
    /\ \A r \in R : LineageAt(d, r)

\* A move keeps it,
LEMMA MoveStanding ==
    ASSUME NEW d, NEW R, Standing(d, R), NEW e, Grown(e), Move(d, e)
    PROVE  Standing(e, R)
PROOF
  <1>1. Sound(d) /\ Grown(d)
    BY DEF Standing, Sound
  <1> QED  BY <1>1, MoveSound, MoveRooted, MoveStopped, MoveLineage DEF Standing

\* so an expiry does,
LEMMA SweepsStanding ==
    ASSUME NEW d, NEW R, Standing(d, R), NEW e, Grown(e), Sweeps(d, e)
    PROVE  Standing(e, R)
PROOF
  <1>1. PICK d1, d2 : /\ Grown(d1) /\ Grown(d2)
                      /\ Closing(d, d1) /\ Lapsing(d1, d2) /\ Closing(d2, e)
    BY DEF Sweeps
  <1>2. Standing(d1, R)
    BY <1>1, MoveStanding DEF Move
  <1>3. Standing(d2, R)
    BY <1>1, <1>2, MoveStanding DEF Move
  <1> QED  BY <1>1, <1>3, MoveStanding DEF Move

\* and what a handler does after it,
LEMMA HandlesStanding ==
    ASSUME NEW d, NEW R, Standing(d, R), NEW e, Grown(e), Handles(d, e)
    PROVE  Standing(e, R)
PROOF
  <1>1. ASSUME NEW d1, Grown(d1), Lapsing(d, d1), Closing(d1, e)
        PROVE  Standing(e, R)
    <2>1. Standing(d1, R)
      BY <1>1, MoveStanding DEF Move
    <2> QED  BY <1>1, <2>1, MoveStanding DEF Move
  <1> QED  BY <1>1, MoveStanding DEF Handles

\* and a reframe, of itself too.
LEMMA ReframedStanding ==
    ASSUME TypeOK, NEW d, NEW R, Standing(d, R), NEW req \in ReframeRequests(db),
           req \in ReframeRequests(d), MayReframe(d, req)
    PROVE  Standing(Reframed(d, req), R \cup {req})
PROOF
  <1> DEFINE e == Inserted(d, req.successor, req.body)
             f == Reframed(d, req)
  <1>1. Grown(d)
    BY DEF Standing, Sound
  <1>2. /\ Grown(e) /\ Inserting(d, e) /\ Grown(f)
        /\ f = e \/ Closing(e, f)
    BY <1>1, ReframedMoves
  <1>3. LineageAt(f, req)
    BY ReframedLineage DEF Standing
  <1> HIDE DEF e, f
  <1>4. Standing(e, R)
    BY <1>2, MoveStanding DEF Move
  <1>5. Standing(f, R)
    BY <1>2, <1>4, MoveStanding DEF Move
  <1> QED  BY <1>3, <1>5 DEF Standing, f

\* A rejection that was answered before is not answered again, and a successor is
\* new when it is made.
LEMMA ReframedApart ==
    ASSUME NEW d, Standing(d, reframes), Apart(reframes), NEW req, MayReframe(d, req)
    PROVE  Apart(reframes \cup {req})
PROOF
  <1>1. ASSUME NEW r \in reframes
        PROVE  r.cited # req.cited /\ r.successor # req.successor
    <2>1. r.cited # req.cited /\ d.problem[req.successor].status = "none"
      BY DEF MayReframe, Unanswered
    <2>2. PICK y \in Of(d, r.successor) : d.task[y].parent = None
      BY DEF Standing, LineageAt, RootAfter
    <2>3. d.problem[r.successor].status # "none"
      BY <2>2 DEF Of, Standing, Sound, Grown, Kept, Typed, ReferencesOK
    <2> QED  BY <2>1, <2>3
  <1> QED  BY <1>1 DEF Apart

\* So every step keeps it,
LEMMA StandingStep ==
    ASSUME TypeOK, Standing(db, reframes), Apart(reframes), [ReframeNext]_rvars
    PROVE  Standing(db', reframes') /\ Apart(reframes')
PROOF
  <1>1. Sound(db) /\ Grown(db)
    BY DEF Standing, Sound
  <1>2. CASE [Next]_vars /\ reframes' = reframes
    <2>1. PICK d : Grown(d) /\ (d = db \/ Sweeps(db, d)) /\ Handles(d, db')
      BY <1>1, <1>2, NextMoves
    <2>2. Grown(db')
      BY <1>1, <1>2, GrownStep
    <2>3. Standing(d, reframes)
      BY <2>1, SweepsStanding
    <2>4. Standing(db', reframes)
      BY <2>1, <2>2, <2>3, HandlesStanding
    <2> QED  BY <1>2, <2>4
  <1>3. CASE Reframe
    <2>1. PICK d \in Swept(db, now), req \in ReframeRequests(db) :
             \/ req \in reframes /\ db' = d /\ reframes' = reframes
             \/ MayReframe(d, req) /\ db' = Reframed(d, req) /\ reframes' = reframes \cup {req}
      BY <1>3 DEF Reframe
    <2>2. Sweeps(db, d) /\ Grown(d)
      BY <1>1, SweptMoves
    <2>3. Standing(d, reframes)
      BY <2>2, SweepsStanding
    <2>4. req \in ReframeRequests(d)
      BY <1>1, <2>2, SweepsRefs, RequestFields, RequestStays
    <2> QED  BY <2>1, <2>3, <2>4, ReframedStanding, ReframedApart
  <1> QED  BY <1>2, <1>3 DEF ReframeNext, rvars, vars

\* and it always holds.
LEMMA StandingAlways == ReframeSpec => [](TypeOK /\ Standing(db, reframes) /\ Apart(reframes))
PROOF
  <1>1. ReframeInit => TypeOK /\ Standing(db, reframes) /\ Apart(reframes)
    <2> SUFFICES ASSUME ReframeInit
                 PROVE  TypeOK /\ Standing(db, reframes) /\ Apart(reframes)
      OBVIOUS
    <2>1. TypeOK /\ Sound(db) /\ reframes = {}
      BY TypeInit, SoundInit DEF ReframeInit
    <2>2. Existing(db) = {}
      BY SMT DEF ReframeInit, Init, EmptyDatabase, Existing
    <2>3. \A p \in Problems : db.problem[p].status = "none"
      BY DEF ReframeInit, Init, EmptyDatabase
    <2> QED  BY <2>1, <2>2, <2>3 DEF Standing, Rooted, Stopped, InState, Apart
  <1>2. TypeOK /\ Standing(db, reframes) /\ Apart(reframes) /\ [ReframeNext]_rvars
           => (TypeOK /\ Standing(db, reframes) /\ Apart(reframes))'
    <2> SUFFICES ASSUME TypeOK, Standing(db, reframes), Apart(reframes), [ReframeNext]_rvars
                 PROVE  TypeOK' /\ Standing(db', reframes') /\ Apart(reframes')
      OBVIOUS
    <2>1. Kept(db)
      BY DEF Standing, Sound, Grown
    <2> QED  BY <2>1, ReframeStep, StandingStep
  <1> QED  BY <1>1, <1>2, PTL DEF ReframeSpec

\* What stands is what LineageStands says.
LEMMA StandingLineage ==
    ASSUME TypeOK, Standing(db, reframes), Apart(reframes)
    PROVE  LineageStands
PROOF
  <1>1. /\ Sound(db) /\ Grown(db) /\ Typed(db) /\ Treed(db) /\ OneRoot(db)
        /\ \A r \in reframes : LineageAt(db, r)
    BY DEF Standing, Sound, Grown, Kept, Treed
  <1>2. ASSUME NEW r \in reframes
        PROVE  /\ r \in ReframeRequests(db) /\ r.source \in Problems
               /\ db.problem[r.source].status \in {"blocked", "cancelled"}
               /\ r.cited = <<r.cited[1], r.cited[2]>>
               /\ Root(db, r.source) = r.cited[1]
               /\ r.cited[2] = Len(db.submissions[r.cited[1]])
               /\ db.problem[r.successor].status # "none"
               /\ r.cited[1] < Root(db, r.successor)
    <2>1. r \in ReframeRequests(db) /\ r.source \in Problems /\ r.cited = <<r.cited[1], r.cited[2]>>
      BY <1>1, RequestFields, RefParts DEF LineageAt
    <2>2. Root(db, r.source) = r.cited[1]
      BY <1>1, RootFound DEF LineageAt
    <2>3. PICK y \in Of(db, r.successor) : db.task[y].parent = None /\ r.cited[1] < y
      BY <1>1 DEF LineageAt, RootAfter
    <2>4. Root(db, r.successor) = y
      BY <1>1, <2>3, RootFound
    <2>5. db.problem[r.successor].status # "none"
      BY <1>1, <2>3 DEF Of, Typed, ReferencesOK
    <2> QED  BY <1>1, <2>1, <2>2, <2>3, <2>4, <2>5 DEF LineageAt
  <1>3. ReframesTyped
    <2>1. \A r \in reframes : db.problem[r.source].status # "none"
      BY <1>2
    <2> QED  BY <1>2, <2>1 DEF ReframesTyped
  <1>4. OneSuccessor
    <2>1. ASSUME NEW r \in reframes, NEW s \in reframes, r.source = s.source
          PROVE  r = s
      <3>1. r.cited[1] = s.cited[1]
        BY <1>2, <2>1
      <3>2. r.cited = s.cited
        BY <1>2, <3>1
      <3> QED  BY <3>2 DEF Apart
    <2>2. \A r \in reframes : Root(db, r.source) < Root(db, r.successor)
      BY <1>2
    <2> QED  BY <2>1, <2>2 DEF OneSuccessor, Apart
  <1>5. ASSUME NEW r \in reframes
        PROVE  /\ db.escrow[r.source] = 0
               /\ \A s \in r.retained : /\ db.task[s[1]].problem = r.source
                                        /\ db.credits[s[1]] = 1
    <2>1. db.escrow[r.source] = 0
      BY <1>1, <1>2 DEF Sound, Solvent, SolventAt, TerminalStatus
    <2>2. ASSUME NEW s \in r.retained
          PROVE  db.task[s[1]].problem = r.source /\ db.credits[s[1]] = 1
      <3>1. s[1] \in Of(db, r.source) /\ db.task[s[1]].state = "accepted"
        BY <1>1 DEF LineageAt
      <3>2. s[1] \in Existing(db) /\ db.task[s[1]].problem = r.source
        BY <3>1 DEF Of
      <3>3. EndingAt(db, s[1])
        BY <1>1, <3>2 DEF Treed
      <3> QED  BY <3>1, <3>2, <3>3 DEF EndingAt, Ending
    <2> QED  BY <2>1, <2>2
  <1> QED  BY <1>1, <1>2, <1>3, <1>4, <1>5 DEF LineageStands, LineageAt

\* What a reframe was decided on stays true of its source for good, and it stands
\* alone (reframe_problem's checks, in one transaction with what it inserts and
\* closes, and the unique rejection of problem_reframes).
THEOREM LineageHolds == ReframeSpec => []LineageStands
PROOF
  <1>1. TypeOK /\ Standing(db, reframes) /\ Apart(reframes) => LineageStands
    BY StandingLineage
  <1> QED  BY <1>1, StandingAlways, PTL

-----------------------------------------------------------------------------
(* Orders, with reframes among the steps *)

\* Where status and escrow stay, a step of an order is none.
LEMMA SameOrder ==
    ASSUME NEW a, NEW b, Orders!Step(a, b) \/ Settling(a, b), b.status = a.status, b.held = a.held,
           a.held \in Int
    PROVE  b = a
PROOF
  <1>1. ~Orders!Fund(a, b)
    <2>1. a = Orders!Unfunded => a.status = "none"
      BY DEF Orders!Unfunded
    <2>2. Orders!Fund(a, b) => b.status = "active"
      BY DEF Orders!Fund, Orders!Unfunded
    <2> QED  BY <2>1, <2>2 DEF Orders!Fund
  <1>2. ~Orders!Pay(a, b)
    <2>1. a.held \notin 0 .. a.held - 1
      BY SMT
    <2> QED  BY <2>1 DEF Orders!Pay
  <1>3. ~Orders!Close(a, b)
    BY DEF Orders!Close, Orders!Closed
  <1> QED  BY <1>1, <1>2, <1>3 DEF Orders!Step, Settling

\* What is held is a number.
LEMMA HeldTyped ==
    ASSUME NEW d, Sound(d), NEW p \in Problems
    PROVE  OrderOf(d, p).held \in Int
PROOF
  <1>1. d.escrow[p] \in Int
    BY AccountsTyped DEF Sound, Grown, Kept
  <1> QED  BY <1>1 DEF OrderOf

\* A reframe funds one order and closes another one, or leaves it alone.
LEMMA ReframedOrders ==
    ASSUME TypeOK, NEW a, Sound(a), NEW d, Grown(d), Sweeps(a, d), NEW req \in ReframeRequests(db),
           MayReframe(d, req), NEW p \in Problems
    PROVE  Orders!Step(OrderOf(a, p), OrderOf(Reframed(d, req), p))
PROOF
  <1> DEFINE e == Inserted(d, req.successor, req.body)
             f == Reframed(d, req)
  <1>1. /\ Grown(e) /\ Inserts(d, e, req.successor, req.body) /\ Inserting(d, e)
        /\ req.successor # req.source /\ Grown(f)
        /\ f = e \/ (Ends(e, f, {req.source}, "cancelled") /\ Closing(e, f))
    BY ReframedMoves
  <1> HIDE DEF e, f
  <1>2. Sound(d)
    BY SweepsSound
  <1>3. Sound(e)
    BY <1>1, <1>2, MoveSound DEF Move
  <1>4. Settling(OrderOf(a, p), OrderOf(d, p)) /\ Orders!Step(OrderOf(d, p), OrderOf(e, p))
    BY <1>1, <1>2, <1>3, SweepsOrders, MoveOrders DEF Move
  <1>5. CASE f = e
    BY <1>4, <1>5, SettlingFirst DEF f
  <1>6. CASE Ends(e, f, {req.source}, "cancelled") /\ Closing(e, f)
    <2>1. Sound(f)
      BY <1>1, <1>3, <1>6, MoveSound DEF Move
    <2>2. Settling(OrderOf(e, p), OrderOf(f, p)) /\ Orders!Step(OrderOf(e, p), OrderOf(f, p))
      BY <1>3, <1>6, <2>1, MoveOrders DEF Move
    <2>3. CASE p = req.source
      <3>1. OrderOf(e, p) = OrderOf(d, p)
        <4>1. e.problem[p] = d.problem[p] /\ e.escrow[p] = d.escrow[p] /\ e.refund[p] = d.refund[p]
          BY <1>1, <2>3 DEF Inserts
        <4>2. /\ OrderOf(e, p).status = OrderOf(d, p).status
              /\ OrderOf(e, p).held = OrderOf(d, p).held
          BY <4>1 DEF OrderOf
        <4>3. OrderOf(d, p).held \in Int
          BY <1>2, HeldTyped
        <4> QED  BY <1>4, <4>2, <4>3, SameOrder
      <3> QED  BY <1>4, <2>2, <3>1, SettlingFirst DEF f
    <2>4. CASE p # req.source
      <3>1. OrderOf(f, p) = OrderOf(e, p)
        <4>1. f.problem[p] = e.problem[p] /\ f.escrow[p] = e.escrow[p]
          BY <1>6, <2>4 DEF Ends
        <4>2. /\ OrderOf(f, p).status = OrderOf(e, p).status
              /\ OrderOf(f, p).held = OrderOf(e, p).held
          BY <4>1 DEF OrderOf
        <4>3. OrderOf(e, p).held \in Int
          BY <1>3, HeldTyped
        <4> QED  BY <2>2, <4>2, <4>3, SameOrder
      <3> QED  BY <1>4, <3>1, SettlingFirst DEF f
    <2> QED  BY <2>3, <2>4
  <1> QED  BY <1>1, <1>5, <1>6

\* The coordinator with reframing implements FundedOrders too: through all the
\* requests a successor is an order of its own, and a source is closed like any
\* other (reframe_problem inserts the one and terminates the other at once).
THEOREM ReframingOrders == ReframeSpec => ImplementsOrders
PROOF
  <1>1. ReframeInit => Orders!OrderInit
    BY OrdersInit DEF ReframeInit
  <1>2. TypeOK /\ Standing(db, reframes) /\ Apart(reframes) /\ [ReframeNext]_rvars
           => [Orders!OrderNext]_([p \in Problems |-> OrderOf(db, p)])
    <2> SUFFICES ASSUME TypeOK, Standing(db, reframes), Apart(reframes), [ReframeNext]_rvars
                 PROVE  Orders!OrderNext
      OBVIOUS
    <2>1. Sound(db) /\ Grown(db) /\ Sound(db')
      BY StandingStep DEF Standing, Sound
    <2>2. ASSUME NEW p \in Problems
          PROVE  Orders!Step(OrderOf(db, p), OrderOf(db', p))
      <3>1. CASE [Next]_vars
        BY <2>1, <3>1, NextOrders
      <3>2. CASE Reframe
        <4>1. PICK d \in Swept(db, now), req \in ReframeRequests(db) :
                 db' = d \/ (MayReframe(d, req) /\ db' = Reframed(d, req))
          BY <3>2 DEF Reframe
        <4>2. Sweeps(db, d) /\ Grown(d)
          BY <2>1, SweptMoves
        <4>3. CASE db' = d
          BY <2>1, <4>2, <4>3, SweepsOrders DEF Settling, Orders!Step
        <4>4. CASE MayReframe(d, req) /\ db' = Reframed(d, req)
          BY <2>1, <4>2, <4>4, ReframedOrders
        <4> QED  BY <4>1, <4>3, <4>4
      <3> QED  BY <3>1, <3>2 DEF ReframeNext, rvars, vars
    <2> QED  BY <2>1, <2>2, StepsAreOrders
  <1> QED  BY <1>1, <1>2, StandingAlways, PTL
           DEF ReframeSpec, ImplementsOrders, Orders!OrderSpec

=============================================================================
