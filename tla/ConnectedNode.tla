---------------------------- MODULE ConnectedNode ----------------------------
(***************************************************************************)
(* A provider's processes working on one task through ConnectedNode and    *)
(* one SQLiteResultJournal file they share.                                *)
(*                                                                         *)
(* work_once leases, claims the execution in the journal, runs the         *)
(* handler, journals the Result, submits it, and journals the receipt; a   *)
(* process may die before any of these steps, and its submission may be    *)
(* on its way when it does.  Any process may call work_once again with any *)
(* pair of ids.  The coordinator is LeaseLife, which module Coordinator    *)
(* implements; every journal method is one BEGIN IMMEDIATE transaction.    *)
(***************************************************************************)
EXTENDS Integers

CONSTANTS
    Workers,         \* processes sharing the journal
    Requests,        \* lease_request_id values they use
    SubmissionIds,   \* submission_id values they use
    Results,         \* what the handler may return, on any run of it
    None

VARIABLES
    server,          \* the coordinator's view of this node and task
    wire,            \* submissions on their way to the coordinator
    claims,          \* table execution_claims
    journal,         \* table result_journal
    worker,          \* where each process is in work_once
    ran              \* history: the leases the handler was started for

vars == <<server, wire, claims, journal, worker, ran>>

Task == INSTANCE LeaseLife WITH
            Pairs <- {"this"}, LeaseRequests <- Requests, AnswerIds <- SubmissionIds,
            Answers <- Results, NoAnswer <- None, view <- [p \in {"this"} |-> server]

\* A claim's token, which is random, stands for the process that made it: a
\* process runs one work_once at a time.
ClaimRow == [lease : Requests, token : Workers]
\* result_json goes when the receipt comes, and the receipt when it is pruned;
\* the Result's digest stays.
JournalRow == [lease : Requests, result : Results, state : {"prepared", "completed", "pruned"}]
\* None is no row of a table and nothing a handler returns.
ASSUME NoneAssumption == None \notin Results /\ None \notin ClaimRow /\ None \notin JournalRow

WorkerRow == [at : {"idle", "leased", "executing", "prepared", "waiting", "receipt"},
              request : Requests \cup {None}, sid : SubmissionIds \cup {None},
              result : Results \cup {None}]
Idle == [at |-> "idle", request |-> None, sid |-> None, result |-> None]
Message == [worker : Workers, request : Requests, sid : SubmissionIds, result : Results]

Init ==
    /\ server = Task!Unseen
    /\ wire = {}
    /\ claims = [s \in SubmissionIds |-> None]
    /\ journal = [s \in SubmissionIds |-> None]
    /\ worker = [w \in Workers |-> Idle]
    /\ ran = {}

-----------------------------------------------------------------------------
(* The coordinator *)

\* The application leases the task itself, to delegate it.
TakeLease(r) ==
    /\ Task!Leasable(server, r)
    /\ server' = Task!Issued(server, r)
    /\ UNCHANGED <<wire, claims, journal, worker, ran>>

LeaseEnds(r, heard) ==
    /\ server.lease[r] = "live"
    /\ server' = Task!Lapsed(server, r, heard)
    /\ UNCHANGED <<wire, claims, journal, worker, ran>>

\* A submission arrives: it is answered from the stored row, or accepted under
\* the live lease, or refused.  Its process may no longer be waiting.
Deliver(m) ==
    LET replayed == server.answer[m.sid] = m.result
        accepted == Task!Answerable(server, m.request, m.sid)
        waits == worker[m.worker] = [at |-> "waiting", request |-> m.request,
                                     sid |-> m.sid, result |-> m.result]
    IN  /\ m \in wire
        /\ wire' = wire \ {m}
        /\ server' = IF ~replayed /\ accepted
                     THEN Task!Answered(server, m.request, m.sid, m.result) ELSE server
        /\ worker' = IF ~waits THEN worker
                     ELSE IF replayed \/ accepted
                     THEN [worker EXCEPT ![m.worker].at = "receipt"]
                     ELSE [worker EXCEPT ![m.worker] = Idle]
        /\ UNCHANGED <<claims, journal, ran>>

-----------------------------------------------------------------------------
(* work_once *)

\* An old request is answered with the lease it got, live or over.
Lease(w, r, s) ==
    /\ worker[w].at = "idle"
    /\ \/ server.lease[r] # "none" /\ server' = server
       \/ Task!Leasable(server, r) /\ server' = Task!Issued(server, r)
    /\ worker' = [worker EXCEPT ![w] = [Idle EXCEPT !.at = "leased", !.request = r, !.sid = s]]
    /\ UNCHANGED <<wire, claims, journal, ran>>

\* Mutation: a completed Result no longer bars its lease.
HasPendingResult(r) ==
    \E s \in SubmissionIds :
        journal[s] # None /\ journal[s].lease = r /\ journal[s].state = "prepared"

HasResult(r) == \E s \in SubmissionIds : journal[s] # None /\ journal[s].lease = r

HasClaim(r) == \E s \in SubmissionIds : claims[s] # None /\ claims[s].lease = r

\* Mutation: claims under other leases stay.
Claiming(w, r, s) == [claims EXCEPT ![s] = [lease |-> r, token |-> w]]

\* claim deletes every claim of the task under another lease, whichever of the
\* leases is the newer.
Superseding(w, r, s) ==
    [k \in SubmissionIds |->
        IF k = s THEN [lease |-> r, token |-> w]
        ELSE IF claims[k] # None /\ claims[k].lease # r THEN None ELSE claims[k]]

\* A Result that is journaled is resubmitted, a receipt is returned, a pruned
\* receipt is an error, and a lease with a Result or a claim is not run again.
Claim(w) ==
    LET r == worker[w].request
        s == worker[w].sid
    IN  /\ worker[w].at = "leased"
        /\ \/ /\ journal[s] # None /\ journal[s].state = "prepared"
              /\ worker' = [worker EXCEPT ![w].at = "prepared", ![w].result = journal[s].result]
              /\ UNCHANGED <<claims, ran>>
           \/ /\ IF journal[s] # None THEN journal[s].state # "prepared"
                 ELSE HasResult(r) \/ HasClaim(r)
              /\ worker' = [worker EXCEPT ![w] = Idle]
              /\ UNCHANGED <<claims, ran>>
           \/ /\ journal[s] = None /\ ~HasResult(r) /\ ~HasClaim(r)
              /\ claims' = Superseding(w, r, s)
              /\ worker' = [worker EXCEPT ![w].at = "executing"]
              /\ ran' = ran \cup {r}
        /\ UNCHANGED <<server, wire, journal>>

\* The handler returns (a failure is a Result too), and its Result is journaled
\* if the process still owns the claim.
Prepare(w, result) ==
    LET s == worker[w].sid
        continues == worker' = [worker EXCEPT ![w].at = "prepared", ![w].result = result]
        fails == worker' = [worker EXCEPT ![w] = Idle]
        owner == claims[s] # None /\ claims[s].token = w
    IN  /\ worker[w].at = "executing"
        /\ \/ /\ journal[s] # None
              /\ IF journal[s].result = result /\ journal[s].state = "prepared"
                 THEN continues ELSE fails
              /\ UNCHANGED <<claims, journal>>
           \/ /\ journal[s] = None /\ ~owner
              /\ fails /\ UNCHANGED <<claims, journal>>
           \/ /\ journal[s] = None /\ owner
              /\ journal' = [journal EXCEPT ![s] = [lease |-> claims[s].lease, result |-> result,
                                                    state |-> "prepared"]]
              /\ claims' = [claims EXCEPT ![s] = None]
              /\ continues
        /\ UNCHANGED <<server, wire, ran>>

Submit(w) ==
    /\ worker[w].at = "prepared"
    /\ wire' = wire \cup {[worker |-> w, request |-> worker[w].request,
                           sid |-> worker[w].sid, result |-> worker[w].result]}
    /\ worker' = [worker EXCEPT ![w].at = "waiting"]
    /\ UNCHANGED <<server, claims, journal, ran>>

\* The coordinator's receipt is the stored submission, the same for every call.
RecordReceipt(w) ==
    LET s == worker[w].sid IN
    /\ worker[w].at = "receipt"
    /\ journal' = IF journal[s].state = "prepared"
                  THEN [journal EXCEPT ![s].state = "completed"] ELSE journal
    /\ worker' = [worker EXCEPT ![w] = Idle]
    /\ UNCHANGED <<server, wire, claims, ran>>

\* Mutation: a dying process takes its claim with it.
CrashReleasing(w) ==
    /\ worker[w].at # "idle"
    /\ worker' = [worker EXCEPT ![w] = Idle]
    /\ claims' = [s \in SubmissionIds |->
                    IF claims[s] # None /\ claims[s].token = w THEN None ELSE claims[s]]
    /\ UNCHANGED <<server, wire, journal, ran>>

\* The process dies, or its call times out.
Crash(w) ==
    /\ worker[w].at # "idle"
    /\ worker' = [worker EXCEPT ![w] = Idle]
    /\ UNCHANGED <<server, wire, claims, journal, ran>>

\* Mutation: pruning deletes the row.
PruneRow(s) ==
    /\ journal[s] # None /\ journal[s].state = "completed"
    /\ journal' = [journal EXCEPT ![s] = None]
    /\ UNCHANGED <<server, wire, claims, worker, ran>>

Prune(s) ==
    /\ journal[s] # None /\ journal[s].state = "completed"
    /\ journal' = [journal EXCEPT ![s].state = "pruned"]
    /\ UNCHANGED <<server, wire, claims, worker, ran>>

Next ==
    \/ \E r \in Requests : TakeLease(r)
    \/ \E r \in Requests, heard \in BOOLEAN : LeaseEnds(r, heard)
    \/ \E m \in wire : Deliver(m)
    \/ \E w \in Workers, r \in Requests, s \in SubmissionIds : Lease(w, r, s)
    \/ \E w \in Workers : Claim(w)
    \/ \E w \in Workers, result \in Results : Prepare(w, result)
    \/ \E w \in Workers : Submit(w)
    \/ \E w \in Workers : RecordReceipt(w)
    \/ \E w \in Workers : Crash(w)
    \/ \E s \in SubmissionIds : Prune(s)

Spec == Init /\ [][Next]_vars

-----------------------------------------------------------------------------
(* Properties *)

TypeOK ==
    /\ server \in Task!View
    /\ wire \in SUBSET Message
    /\ claims \in [SubmissionIds -> ClaimRow \cup {None}]
    /\ journal \in [SubmissionIds -> JournalRow \cup {None}]
    /\ worker \in [Workers -> WorkerRow]
    /\ ran \in SUBSET Requests

\* Rows are well typed, and what the coordinator holds under a submission id is
\* what the journal holds under it, pruned or not, and a journaled receipt means
\* the coordinator has the Result: no crash, lost answer or late delivery lets
\* the two drift apart.
JournalMatchesCoordinator ==
    /\ TypeOK
    /\ \A s \in SubmissionIds :
          /\ server.answer[s] # None => journal[s] # None /\ journal[s].result = server.answer[s]
          /\ journal[s] # None /\ journal[s].state # "prepared" =>
                server.answer[s] = journal[s].result

\* All the Results sent under a submission id are the same, so the coordinator
\* never refuses a retry as an idempotency conflict; and no two are journaled under
\* one lease: the unique index on the lease identity is never what stops prepare.
OneResult ==
    /\ \A m \in wire : /\ server.answer[m.sid] \in {None, m.result}
                       /\ \A k \in wire : k.sid = m.sid => k.result = m.result
    /\ \A s, t \in SubmissionIds :
           journal[s] # None /\ journal[t] # None /\ journal[s].lease = journal[t].lease => s = t

Executing(w) == worker[w].at = "executing"
Owns(w) == claims[worker[w].sid] # None /\ claims[worker[w].sid].token = w

\* A process that runs the handler and will be let journal the outcome runs it
\* for a lease and an id without a Result, and is the only such process.
OwnerIsFresh ==
    \A w \in Workers : Executing(w) /\ Owns(w) =>
        /\ journal[worker[w].sid] = None /\ ~HasResult(worker[w].request)
        /\ server.answer[worker[w].sid] = None
        /\ \A v \in Workers \ {w} : ~(Executing(v) /\ Owns(v))

\* The handler is started again for a lease, even though the process that had
\* claimed it died, only after it was started for another lease of the task.
SoleLeaseRunsOnce ==
    [][\A w \in Workers :
          ~Executing(w) /\ Executing(w)' => ran # {worker[w].request}]_vars

\* docs: the claim prevents two processes, or two submission ids, from executing
\* one lease concurrently.  With a second lease of the task they can.
OneExecutorPerLease ==
    \A w, v \in Workers :
        Executing(w) /\ Executing(v) /\ worker[w].request = worker[v].request => w = v
=============================================================================
