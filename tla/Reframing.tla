------------------------------ MODULE Reframing ------------------------------
(***************************************************************************)
(* Reframing a rejected root: reframe_problem, beside everything else the  *)
(* coordinator does.                                                       *)
(*                                                                         *)
(* The administrator cites the rejection of a problem's root, names the    *)
(* accepted work to keep, and sends a new problem.  The successor becomes  *)
(* an order of its own, and the source, if it is still active, is          *)
(* cancelled in the same transaction.                                      *)
(*                                                                         *)
(* A submission's id is <<task, n>>, its place in submissions[task].  A    *)
(* request is everything it commits to: its digest is the request itself,  *)
(* and so is the row it leaves in problem_reframes, with the rows of       *)
(* retained_artifact_bindings in it.  Binding names are left out, and so   *)
(* is intent, problem class and currency, which a successor has from its   *)
(* source.  The structural contract of a root is its capability and its    *)
(* constraints here.                                                       *)
(***************************************************************************)
EXTENDS CoordinatorSafety

CONSTANTS
    ReframeKeys,     \* idempotency keys of reframe requests
    Successors,      \* successor_problem bodies
    MaxOrders        \* bound: problems that create_problem makes

ASSUME SuccessorsAssumption == Successors \subseteq ProblemRequest

VARIABLE reframes

rvars == <<vars, reframes>>

SubmissionRefs(d) == UNION {{x} \X DOMAIN d.submissions[x] : x \in Existing(d)}
Row(d, s) == d.submissions[s[1]][s[2]]
Root(d, p) == CHOOSE x \in Of(d, p) : d.task[x].parent = None
Descendants(d, p) == {x \in Of(d, p) : d.task[x].parent # None}

ReframeInit == Init /\ reframes = {}

-----------------------------------------------------------------------------
(* What a reframe requires of database d *)

\* Mutation: the rejection cited need not be the last word on the root.
CitesAnyRejection(d, p, s) ==
    /\ s[1] = Root(d, p)
    /\ Row(d, s).outcome = "reject" /\ Row(d, s).sid # Timeout

\* The latest submission of the root, a result that was sent in and rejected:
\* the record of a timed-out lease will not do.
CitesLatestRejection(d, p, s) ==
    /\ s[1] = Root(d, p)
    /\ Row(d, s).outcome = "reject" /\ Row(d, s).sid # Timeout
    /\ s[2] = Len(d.submissions[s[1]])

\* The root is not leased, awaiting a decision or waiting for children, and all
\* work below it is accepted.
Quiescent(d, p) ==
    /\ d.task[Root(d, p)].state \in {"open", "failed", "blocked"}
    /\ \A x \in Descendants(d, p) : d.task[x].state = "accepted"
    /\ \A x \in Of(d, p) : \A i \in DOMAIN d.delegations[x] :
           d.delegations[x][i].status # "proposed"

\* The root's structural contract changes and keeps the constraints it has.
\* Reward, delegation budget and attempts are no part of it.
NewFrame(old, new) ==
    /\ <<new.cap, new.cons>> # <<old.cap, old.cons>>
    /\ old.cons \subseteq new.cons

\* Accepted and payable work below the source's root.
Retainable(d, p, s) ==
    /\ s[1] \in Descendants(d, p)
    /\ Row(d, s).outcome = "pass"
    /\ d.task[s[1]].state = "accepted"

\* Neither the key was used for this source nor the rejection answered before.
Unanswered(req) ==
    \A r \in reframes : /\ r.source = req.source => r.key # req.key
                        /\ r.cited # req.cited

MayReframe(d, req) ==
    /\ d.problem[req.source].status \in {"active", "blocked"}
    /\ CitesLatestRejection(d, req.source, req.cited)
    /\ Quiescent(d, req.source)
    /\ Unanswered(req)
    /\ NewFrame(d.task[Root(d, req.source)].spec, req.body.spec)
    /\ d.problem[req.successor].status = "none"
    /\ \A s \in req.retained : Retainable(d, req.source, s)
    /\ req.body.spec.reward + req.body.spec.budget <= req.body.funded
    /\ Insertable(d, req.body)

\* Mutation: the source is marked as cancelled and not terminated.
ReframedInName(d, req) ==
    LET e == Inserted(d, req.successor, req.body)
    IN  IF d.problem[req.source].status = "active"
        THEN [e EXCEPT !.problem[req.source] = [@ EXCEPT !.status = "cancelled"]]
        ELSE e

\* The successor is inserted first; a blocked source stays blocked.
Reframed(d, req) ==
    LET e == Inserted(d, req.successor, req.body)
    IN  IF d.problem[req.source].status = "active"
        THEN Terminated(e, {req.source}, "cancelled") ELSE e

\* What an administrator can send: submissions are known once they are stored.
ReframeRequests(d) ==
    [source : Problems, key : ReframeKeys, cited : SubmissionRefs(d),
     retained : (SUBSET SubmissionRefs(d)) \ {{}}, successor : Problems, body : Successors]

\* A request that was answered before is answered with the same successor.
Reframe ==
    /\ \E d \in Swept(db, now), req \in ReframeRequests(db) :
          \/ req \in reframes /\ db' = d /\ reframes' = reframes
          \/ MayReframe(d, req) /\ db' = Reframed(d, req) /\ reframes' = reframes \cup {req}
    /\ UNCHANGED <<now, fee>>

OrdersBounded ==
    Cardinality({p \in Problems : db.problem[p].status # "none"}) <= MaxOrders + Cardinality(reframes)

ReframeNext ==
    \/ Next /\ UNCHANGED reframes /\ OrdersBounded'
    \/ Reframe

ReframeSpec == ReframeInit /\ [][ReframeNext]_rvars

-----------------------------------------------------------------------------
(* Properties *)

\* The types, and the foreign keys of the two tables of reframes.
ReframesTyped ==
    /\ TypeOK
    /\ reframes \subseteq ReframeRequests(db)
    /\ \A r \in reframes : db.problem[r.source].status # "none"
                           /\ db.problem[r.successor].status # "none"

\* A rejection has one successor, and a successor one source, however reframes
\* are repeated under other keys, before or after the source ended; and a chain
\* of successors leads ever forward.
OneSuccessor ==
    \A r, s \in reframes :
        /\ (r.cited = s.cited \/ r.source = s.source \/ r.successor = s.successor) => r = s
        /\ Root(db, r.source) < Root(db, r.successor)

\* A reframe's rows refer to rows that are there (ReframesTyped), and what it was
\* decided on stays true of its source for good, whatever leases, tokens,
\* proposals and retries are still about: the source has ended, the rejection
\* cited is the last word on its root, no lease of the root and no proposal was
\* cut off by it, and what was retained is accepted and paid once.  And it stands
\* alone (OneSuccessor).
LineageStands ==
    /\ ReframesTyped
    /\ OneSuccessor
    /\ \A r \in reframes :
           LET root == db.task[r.cited[1]]
               rows == db.submissions[r.cited[1]]
           IN  /\ db.problem[r.source].status \in {"blocked", "cancelled"}
               /\ db.escrow[r.source] = 0
               /\ r.cited[2] = Len(rows) /\ root.attempts = Len(rows)
               /\ rows[r.cited[2]].outcome = "reject"
               /\ \A x \in Of(db, r.source) : \A i \in DOMAIN db.delegations[x] :
                      db.delegations[x][i].status # "void"
               /\ \A s \in r.retained : /\ db.task[s[1]].problem = r.source
                                        /\ db.task[s[1]].state = "accepted"
                                        /\ db.credits[s[1]] = 1
                                        /\ Row(db, s).earned > 0
=============================================================================
