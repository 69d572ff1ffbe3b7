------------------------------ MODULE LeaseLife ------------------------------
(***************************************************************************)
(* What the coordinator promises a node about one task, without time,      *)
(* money or other nodes: each lease request is answered by at most one     *)
(* lease, which is live at most once; at most one of the node's leases of  *)
(* the task is live; and once the node was heard on the task, by an answer *)
(* or by letting a lease expire, it gets no other lease and no other say.  *)
(*                                                                         *)
(* A step relates the view before and after it, so that one step of the    *)
(* coordinator may move the views of several nodes and tasks.              *)
(***************************************************************************)
EXTENDS Integers

CONSTANTS
    Pairs,            \* <<node, task>> pairs
    LeaseRequests,    \* lease_request_id values
    AnswerIds,        \* submission_id values
    Answers,          \* what an answer may say
    NoAnswer

VARIABLE view         \* what each pair shows the node

View == [lease : [LeaseRequests -> {"none", "live", "over"}],
         answer : [AnswerIds -> Answers \cup {NoAnswer}],
         heard : BOOLEAN]

Unseen == [lease |-> [r \in LeaseRequests |-> "none"],
           answer |-> [s \in AnswerIds |-> NoAnswer],
           heard |-> FALSE]

Leasable(v, r) ==
    /\ v.lease[r] = "none"
    /\ \A q \in LeaseRequests : v.lease[q] # "live"
    /\ ~v.heard

Issued(v, r) == [v EXCEPT !.lease[r] = "live"]

\* A lease ends without an answer: given back for a delegation or taken away by
\* a termination, or expired, and then the node was heard.
Lapsed(v, r, heard) == [v EXCEPT !.lease[r] = "over", !.heard = heard]

Answerable(v, r, s) == v.lease[r] = "live" /\ v.answer[s] = NoAnswer

Answered(v, r, s, a) ==
    [v EXCEPT !.lease[r] = "over", !.answer[s] = a, !.heard = TRUE]

Step(old, new) ==
    \/ new = old
    \/ \E r \in LeaseRequests : Leasable(old, r) /\ new = Issued(old, r)
    \/ \E r \in LeaseRequests, heard \in BOOLEAN :
          old.lease[r] = "live" /\ new = Lapsed(old, r, heard)
    \/ \E r \in LeaseRequests, s \in AnswerIds, a \in Answers :
          Answerable(old, r, s) /\ new = Answered(old, r, s, a)

ViewInit == view = [p \in Pairs |-> Unseen]

ViewNext ==
    /\ view' \in [Pairs -> View]
    /\ \A p \in Pairs : Step(view[p], view'[p])

LeaseLifeSpec == ViewInit /\ [][ViewNext]_view
=============================================================================
