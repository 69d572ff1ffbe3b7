----------------------------- MODULE ProviderProofs -----------------------------
(***************************************************************************)
(* What a provider sends again, from whatever process and however late, is *)
(* answered as it was the first time: its registration (Registration) and  *)
(* its Results (ConnectedNode); and what it is paid for is what the gate   *)
(* says (ResultGate).  All of it for every value of the constants.         *)
(*                                                                         *)
(* Of a registration the inductive invariant says, besides the types and   *)
(* TablesAgree, that every answer ever given is what the registration of   *)
(* its invite says: answers are given once and registrations never change, *)
(* so they cannot part.                                                    *)
(*                                                                         *)
(* Of a Result, Agreed follows it from the journal, which every copy of it *)
(* was read from, to the wire, to the coordinator and back in the receipt. *)
(* Claimed says what the claims table keeps apart, and Started that a      *)
(* lease the handler was started for leaves a trace until another lease is *)
(* executed.                                                               *)
(*                                                                         *)
(* Of the gate, GateInv says that the verdict at hand is that of the spec  *)
(* and the submission at hand, and that a record, whatever was made of it, *)
(* still has the shape of a trace.  The rest is about operators: the rows  *)
(* a verdict has, what shortening leaves of them, and what the two audits  *)
(* read.                                                                   *)
(***************************************************************************)
EXTENDS Registration, ConnectedNode, ResultGate, SharedTheorems, TLAPS

-----------------------------------------------------------------------------
(* Registrations *)

\* Every answer is the registration of its invite, as it is now.
AnswersRecorded ==
    \A a \in answers :
        LET req == a.request
        IN  /\ node_registrations[req.invite]
                   = [id |-> req.id, body |-> req.body, node |-> a.reply.node]
            /\ a.reply.token = req

Admitted == AdmissionTypeOK /\ TablesAgree /\ AnswersRecorded

\* The invariant holds before anything was created.
LEMMA AdmissionStarts == AdmissionInit => Admitted
  BY NoRowAssumption DEF AdmissionInit, Admitted, AdmissionTypeOK, TablesAgree, AnswersRecorded

\* A request is made of its three parts.
LEMMA RequestParts ==
  ASSUME NEW req \in RegistrationRequests
  PROVE  req = [invite |-> req.invite, id |-> req.id, body |-> req.body]
  BY DEF RegistrationRequests

\* An answer is made of its two.
LEMMA ReplyParts ==
  ASSUME NEW reply \in [node : Nodes, token : RegistrationRequests]
  PROVE  reply = [node |-> reply.node, token |-> reply.token]
  OBVIOUS

\* A new invite is unused and touches no registration.
LEMMA CreateKeeps ==
  ASSUME Admitted, NEW i \in Invites, NEW lifetime \in Lifetimes, CreateNodeInvite(i, lifetime)
  PROVE  Admitted'
<1>1. AdmissionTypeOK'
  <2>1. [expires |-> now + lifetime, uses |-> 0] \in InviteRows
    BY LifetimesAssumption DEF Admitted, AdmissionTypeOK, InviteRows
  <2>2. node_invites' \in [Invites -> InviteRows \cup {NoRow}]
    BY <2>1 DEF CreateNodeInvite, Admitted, AdmissionTypeOK
  <2> QED BY <2>2 DEF CreateNodeInvite, Admitted, AdmissionTypeOK
<1>2. TablesAgree'
  <2>1. node_registrations[i] = NoRow
    BY DEF CreateNodeInvite, Admitted, TablesAgree
  <2> QED BY <2>1 DEF CreateNodeInvite, Admitted, AdmissionTypeOK, TablesAgree
<1>3. AnswersRecorded'
  BY DEF CreateNodeInvite, Admitted, AnswersRecorded
<1> QED BY <1>1, <1>2, <1>3 DEF Admitted

\* A replay is answered from the registration it replays.
LEMMA ReplayKeeps ==
  ASSUME Admitted, NEW req \in RegistrationRequests, Replay(req)
  PROVE  Admitted'
<1> DEFINE i == req.invite
           reply == [node |-> node_registrations[i].node, token |-> req]
<1>1. i \in Invites /\ IsReplay(req) /\ Live(i) /\ Replies(req) = reply
  BY DEF Replay, Replies, RegistrationRequests, Token
<1>2. node_registrations[i] \in RegistrationRows
  BY <1>1 DEF IsReplay, Admitted, AdmissionTypeOK
<1>3. node_registrations[i] = [id |-> req.id, body |-> req.body, node |-> reply.node]
  BY <1>1, <1>2 DEF IsReplay, RegistrationRows
<1>4. answers' = answers \cup {[request |-> req, reply |-> reply, at |-> now]}
  BY <1>1 DEF Replay
<1>5. AdmissionTypeOK'
  <2>1. [request |-> req, reply |-> reply, at |-> now]
           \in [request : RegistrationRequests,
                reply : [node : Nodes, token : RegistrationRequests], at : Nat]
    BY <1>2 DEF Admitted, AdmissionTypeOK, RegistrationRows
  <2> QED BY <2>1, <1>4 DEF Replay, db, Admitted, AdmissionTypeOK
<1>6. TablesAgree'
  BY DEF Replay, db, Admitted, TablesAgree
<1>7. AnswersRecorded'
  <2>1. UNCHANGED node_registrations
    BY DEF Replay, db
  <2>2. ASSUME NEW a \in answers'
        PROVE  /\ node_registrations[a.request.invite]
                     = [id |-> a.request.id, body |-> a.request.body, node |-> a.reply.node]
               /\ a.reply.token = a.request
    <3>1. CASE a \in answers
      BY <3>1 DEF Admitted, AnswersRecorded
    <3>2. CASE a = [request |-> req, reply |-> reply, at |-> now]
      BY <1>3, <3>2
    <3> QED BY <1>4, <2>2, <3>1, <3>2
  <2> QED BY <2>1, <2>2 DEF AnswersRecorded
<1> QED BY <1>5, <1>6, <1>7 DEF Admitted

\* A registration enters one fact in the three tables and answers with it.
LEMMA RegisterKeeps ==
  ASSUME Admitted, NEW req \in RegistrationRequests, NEW n \in Nodes, RegisterNode(req, n)
  PROVE  Admitted'
<1> DEFINE i == req.invite
           row == [id |-> req.id, body |-> req.body, node |-> n]
           reply == [node |-> n, token |-> req]
<1>1. /\ i \in Invites /\ req.id \in Registrations /\ req.body \in Bodies
      /\ req = [invite |-> i, id |-> req.id, body |-> req.body]
  BY DEF RegistrationRequests
<1>2. node_invites[i] # NoRow /\ node_registrations[i] = NoRow /\ nodes[n] = NoRow
  BY DEF RegisterNode, MayRegister, Live
<1>3. node_invites[i] \in InviteRows /\ node_invites[i].uses = 0
  <2>1. node_invites[i] \in InviteRows
    BY <1>1, <1>2 DEF Admitted, AdmissionTypeOK
  <2>2. node_invites[i] = NoRow \/ node_invites[i].uses = 0
    BY <1>1, <1>2 DEF Admitted, TablesAgree
  <2> QED BY <1>2, <2>1, <2>2
<1>4. /\ node_invites' = [node_invites EXCEPT ![i].uses = @ + 1]
      /\ nodes' = [nodes EXCEPT ![n] = req]
      /\ node_registrations' = [node_registrations EXCEPT ![i] = row]
      /\ answers' = answers \cup {[request |-> req, reply |-> reply, at |-> now]}
      /\ UNCHANGED <<now, sent>>
  BY DEF RegisterNode, Token
<1>5. [node_invites[i] EXCEPT !.uses = @ + 1] \in InviteRows
      /\ [node_invites[i] EXCEPT !.uses = @ + 1].uses = 1
  BY <1>3 DEF InviteRows
<1>6. AdmissionTypeOK'
  <2>1. node_invites' \in [Invites -> InviteRows \cup {NoRow}]
    BY <1>4, <1>5 DEF Admitted, AdmissionTypeOK
  <2>2. nodes' \in [Nodes -> RegistrationRequests \cup {NoRow}]
    BY <1>4 DEF Admitted, AdmissionTypeOK
  <2>3. node_registrations' \in
           [Invites -> RegistrationRows \cup {NoRow}]
    BY <1>1, <1>4 DEF Admitted, AdmissionTypeOK, RegistrationRows
  <2>4. answers' \subseteq
           [request : RegistrationRequests,
            reply : [node : Nodes, token : RegistrationRequests], at : Nat]
    BY <1>4 DEF Admitted, AdmissionTypeOK
  <2> QED BY <1>4, <2>1, <2>2, <2>3, <2>4 DEF Admitted, AdmissionTypeOK
<1>7. row \in RegistrationRows /\ row # NoRow /\ req # NoRow
  BY <1>1, NoRowAssumption DEF RegistrationRows, RegistrationRequests
<1>8. [node_invites[i] EXCEPT !.uses = @ + 1] # NoRow
  BY <1>5, NoRowAssumption
<1>9. TablesAgree'
  <2>1. ASSUME NEW j \in Invites, j # i
        PROVE  /\ node_registrations'[j] = node_registrations[j]
               /\ node_invites'[j] = node_invites[j]
               /\ node_registrations[j] # NoRow =>
                     nodes'[node_registrations[j].node] = nodes[node_registrations[j].node]
    <3>1. node_registrations'[j] = node_registrations[j] /\ node_invites'[j] = node_invites[j]
      BY <1>4, <2>1 DEF Admitted, AdmissionTypeOK
    <3>2. CASE node_registrations[j] # NoRow
      <4>1. node_registrations[j] \in RegistrationRows
        BY <3>2 DEF Admitted, AdmissionTypeOK
      <4>2. node_registrations[j].node \in Nodes
        BY <4>1 DEF RegistrationRows
      <4>3. nodes[node_registrations[j].node]
               = [invite |-> j, id |-> node_registrations[j].id,
                  body |-> node_registrations[j].body]
        BY <3>2 DEF Admitted, TablesAgree
      <4>4. [invite |-> j, id |-> node_registrations[j].id, body |-> node_registrations[j].body]
               \in RegistrationRequests
        BY <4>1 DEF RegistrationRows, RegistrationRequests
      <4>5. node_registrations[j].node # n
        BY <1>2, <4>3, <4>4, NoRowAssumption
      <4> QED BY <1>4, <3>1, <4>2, <4>5 DEF Admitted, AdmissionTypeOK
    <3> QED BY <3>1, <3>2
  <2>2. /\ node_registrations'[i] = row /\ nodes'[n] = req
        /\ node_invites'[i] # NoRow /\ node_invites'[i].uses = 1
    BY <1>1, <1>4, <1>5, <1>8 DEF Admitted, AdmissionTypeOK
  <2>3. ASSUME NEW j \in Invites
        PROVE  IF node_registrations'[j] = NoRow
               THEN node_invites'[j] = NoRow \/ node_invites'[j].uses = 0
               ELSE LET r == node_registrations'[j]
                    IN /\ node_invites'[j] # NoRow /\ node_invites'[j].uses = 1
                       /\ nodes'[r.node] = [invite |-> j, id |-> r.id, body |-> r.body]
    <3>1. CASE j = i
      BY <1>1, <1>7, <2>2, <3>1
    <3>2. CASE j # i
      BY <2>1, <3>2 DEF Admitted, TablesAgree
    <3> QED BY <3>1, <3>2
  <2>4. ASSUME NEW m \in Nodes, nodes'[m] # NoRow
        PROVE  /\ node_registrations'[nodes'[m].invite] # NoRow
               /\ node_registrations'[nodes'[m].invite].node = m
    <3>1. CASE m = n
      BY <1>7, <2>2, <3>1
    <3>2. CASE m # n
      <4>1. nodes'[m] = nodes[m]
        BY <1>4, <3>2 DEF Admitted, AdmissionTypeOK
      <4>2. nodes[m].invite \in Invites
        BY <2>4, <4>1 DEF Admitted, AdmissionTypeOK, RegistrationRequests
      <4>3. /\ node_registrations[nodes[m].invite] # NoRow
            /\ node_registrations[nodes[m].invite].node = m
        BY <2>4, <4>1 DEF Admitted, TablesAgree
      <4>4. nodes[m].invite # i
        BY <1>2, <4>3
      <4> QED BY <2>1, <4>1, <4>2, <4>3, <4>4
    <3> QED BY <3>1, <3>2
  <2> QED BY <2>3, <2>4 DEF TablesAgree
<1>10. AnswersRecorded'
  <2>1. ASSUME NEW a \in answers
        PROVE  /\ node_registrations'[a.request.invite]
                     = [id |-> a.request.id, body |-> a.request.body, node |-> a.reply.node]
               /\ a.reply.token = a.request
    <3>1. /\ node_registrations[a.request.invite]
                = [id |-> a.request.id, body |-> a.request.body, node |-> a.reply.node]
          /\ a.reply.token = a.request
      BY DEF Admitted, AnswersRecorded
    <3>2. a.request \in RegistrationRequests /\ a.reply.node \in Nodes
      BY DEF Admitted, AdmissionTypeOK
    <3>3. [id |-> a.request.id, body |-> a.request.body, node |-> a.reply.node] \in RegistrationRows
      BY <3>2 DEF RegistrationRequests, RegistrationRows
    <3>4. a.request.invite \in Invites /\ a.request.invite # i
      BY <1>2, <3>1, <3>2, <3>3, NoRowAssumption DEF RegistrationRequests
    <3> QED BY <1>4, <3>1, <3>4 DEF Admitted, AdmissionTypeOK
  <2>2. node_registrations'[i] = row
    BY <1>1, <1>4 DEF Admitted, AdmissionTypeOK
  <2>3. ASSUME NEW a \in answers'
        PROVE  /\ node_registrations'[a.request.invite]
                     = [id |-> a.request.id, body |-> a.request.body, node |-> a.reply.node]
               /\ a.reply.token = a.request
    <3>1. CASE a \in answers
      BY <2>1, <3>1
    <3>2. CASE a = [request |-> req, reply |-> reply, at |-> now]
      BY <2>2, <3>2
    <3> QED BY <1>4, <2>3, <3>1, <3>2
  <2> QED BY <2>3 DEF AnswersRecorded
<1> QED BY <1>6, <1>9, <1>10 DEF Admitted

\* What is left, sending, the clock and standing still, changes no table.
LEMMA OtherKeeps ==
  ASSUME Admitted,
         \/ \E req \in RegistrationRequests : Send(req)
         \/ Tick
         \/ UNCHANGED admissionVars
  PROVE  Admitted'
<1>1. CASE \E req \in RegistrationRequests : Send(req)
  BY <1>1 DEF Send, db, Admitted, AdmissionTypeOK, TablesAgree, AnswersRecorded
<1>2. CASE Tick
  BY <1>2 DEF Tick, db, Admitted, AdmissionTypeOK, TablesAgree, AnswersRecorded
<1>3. CASE UNCHANGED admissionVars
  BY <1>3 DEF admissionVars, db, Admitted, AdmissionTypeOK, TablesAgree, AnswersRecorded
<1> QED BY <1>1, <1>2, <1>3

\* Every reachable state satisfies the invariant.
THEOREM AlwaysAdmitted == AdmissionSpec => []Admitted
<1>1. AdmissionInit => Admitted
  BY AdmissionStarts
<1>2. Admitted /\ [AdmissionNext]_admissionVars => Admitted'
  BY CreateKeeps, ReplayKeeps, RegisterKeeps, OtherKeeps DEF AdmissionNext
<1> QED BY <1>1, <1>2, PTL DEF AdmissionSpec

-----------------------------------------------------------------------------

\* The invite, the registration and the node of a registration agree, and no
\* node is without one: TablesAgree, in every reachable state.
THEOREM TablesAlwaysAgree == AdmissionSpec => []TablesAgree
<1>1. Admitted => TablesAgree
  BY DEF Admitted
<1> QED BY <1>1, AlwaysAdmitted, PTL

\* However registrations are retried, mixed up and delayed, an invite gives one
\* identity to all who are answered: OneIdentityPerInvite.
THEOREM OneIdentity == AdmissionSpec => []OneIdentityPerInvite
<1>1. Admitted => OneIdentityPerInvite
  <2> SUFFICES ASSUME Admitted, NEW a \in answers
               PROVE  /\ Authenticated(a.reply.token) = {a.reply.node}
                      /\ \A b \in answers : a.request.invite = b.request.invite => a.reply = b.reply
                      /\ \A b \in answers : a.reply.node = b.reply.node => a.request = b.request
    BY DEF OneIdentityPerInvite
  <2> DEFINE Reg(x) == [id |-> x.request.id, body |-> x.request.body, node |-> x.reply.node]
  <2>1. ASSUME NEW x \in answers
        PROVE  /\ x.request \in RegistrationRequests
               /\ x.reply \in [node : Nodes, token : RegistrationRequests]
               /\ node_registrations[x.request.invite] = Reg(x)
               /\ x.reply.token = x.request /\ Reg(x) # NoRow
               /\ nodes[x.reply.node] = x.request
    <3>1. /\ x.request \in RegistrationRequests
          /\ x.reply \in [node : Nodes, token : RegistrationRequests]
          /\ node_registrations[x.request.invite] = Reg(x) /\ x.reply.token = x.request
      BY DEF Admitted, AdmissionTypeOK, AnswersRecorded
    <3>2. Reg(x) \in RegistrationRows /\ Reg(x) # NoRow
      BY <3>1, NoRowAssumption DEF RegistrationRequests, RegistrationRows
    <3>3. nodes[x.reply.node]
             = [invite |-> x.request.invite, id |-> x.request.id, body |-> x.request.body]
      BY <3>1, <3>2 DEF Admitted, TablesAgree, RegistrationRequests
    <3> QED BY <3>1, <3>2, <3>3, RequestParts
  <2>2. ASSUME NEW n \in Nodes, nodes[n] = a.reply.token
        PROVE  n = a.reply.node
    <3>1. nodes[n] # NoRow /\ nodes[n] = a.request
      BY <2>1, <2>2, NoRowAssumption
    <3>2. node_registrations[nodes[n].invite].node = n
      BY <3>1 DEF Admitted, TablesAgree
    <3>3. node_registrations[a.request.invite].node = a.reply.node
      <4>1. node_registrations[a.request.invite] = Reg(a)
        BY <2>1
      <4> QED BY <4>1
    <3> QED BY <3>1, <3>2, <3>3
  <2>3. Authenticated(a.reply.token) = {a.reply.node}
    BY <2>1, <2>2 DEF Authenticated
  <2>4. ASSUME NEW b \in answers, a.request.invite = b.request.invite
        PROVE  a.reply = b.reply
    <3>1. Reg(a) = Reg(b)
      BY <2>1, <2>4
    <3>2. /\ a.reply.node = b.reply.node /\ a.request.id = b.request.id
          /\ a.request.body = b.request.body
      BY <3>1
    <3>3. a.request = b.request
      BY <2>1, <2>4, <3>2, RequestParts
    <3>4. a.reply.token = b.reply.token
      BY <2>1, <3>3
    <3>5. /\ a.reply = [node |-> a.reply.node, token |-> a.reply.token]
          /\ b.reply = [node |-> b.reply.node, token |-> b.reply.token]
      BY <2>1, <2>4, ReplyParts
    <3> QED BY <3>2, <3>4, <3>5
  <2> QED BY <2>1, <2>3, <2>4
<1> QED BY <1>1, AlwaysAdmitted, PTL

\* Until an invite expires, a registration can be had again: RecoverableUntilExpiry.
THEOREM Recoverable == AdmissionSpec => []RecoverableUntilExpiry
<1>1. Admitted => RecoverableUntilExpiry
  <2> SUFFICES ASSUME Admitted, NEW a \in answers, Live(a.request.invite)
               PROVE  Replies(a.request) = a.reply
    BY DEF RecoverableUntilExpiry
  <2>1. /\ a.request \in RegistrationRequests
        /\ a.reply \in [node : Nodes, token : RegistrationRequests]
        /\ node_registrations[a.request.invite]
              = [id |-> a.request.id, body |-> a.request.body, node |-> a.reply.node]
        /\ a.reply.token = a.request
    BY DEF Admitted, AdmissionTypeOK, AnswersRecorded
  <2>2. node_registrations[a.request.invite] # NoRow
    BY <2>1, NoRowAssumption DEF RegistrationRequests, RegistrationRows
  <2>3. IsReplay(a.request)
    BY <2>1, <2>2 DEF IsReplay
  <2>4. Replies(a.request) = [node |-> a.reply.node, token |-> a.request]
    BY <2>1, <2>3 DEF Replies, Token
  <2> QED BY <2>1, <2>4
<1> QED BY <1>1, AlwaysAdmitted, PTL

-----------------------------------------------------------------------------
(* Results: the invariant *)

\* A process in work_once has its ids, and a Result from the time it has one.
Placed ==
    \A w \in Workers :
        /\ worker[w].at # "idle" => worker[w].request \in Requests
                                    /\ worker[w].sid \in SubmissionIds
        /\ worker[w].at \in {"prepared", "waiting", "receipt"} => worker[w].result \in Results

\* The journal holds the Result r under s.
Journaled(s, r) == journal[s] # None /\ journal[s].result = r

SentIsJournaled == \A m \in wire : Journaled(m.sid, m.result)

HeldIsJournaled ==
    \A w \in Workers : worker[w].at \in {"prepared", "waiting", "receipt"} =>
        Journaled(worker[w].sid, worker[w].result)

AnswerIsJournaled ==
    \A s \in SubmissionIds : server.answer[s] # None => Journaled(s, server.answer[s])

ReceiptIsAnswered ==
    /\ \A s \in SubmissionIds : journal[s] # None /\ journal[s].state # "prepared" =>
          server.answer[s] = journal[s].result
    /\ \A w \in Workers : worker[w].at = "receipt" =>
          server.answer[worker[w].sid] = worker[w].result

Agreed == SentIsJournaled /\ HeldIsJournaled /\ AnswerIsJournaled /\ ReceiptIsAnswered

\* No two Results and no two claims share what they were made for, and a claim
\* is for a lease and an id without a Result.
Claimed ==
    /\ \A s, t \in SubmissionIds :
          journal[s] # None /\ journal[t] # None /\ journal[s].lease = journal[t].lease => s = t
    /\ \A s \in SubmissionIds : claims[s] # None => journal[s] = None /\ ~HasResult(claims[s].lease)
    /\ \A s, t \in SubmissionIds : claims[s] # None /\ claims[t] # None => s = t
    /\ \A w \in Workers :
          Executing(w) /\ Owns(w) => claims[worker[w].sid].lease = worker[w].request

Started == \A q \in Requests : ran = {q} => HasResult(q) \/ HasClaim(q)

Inv == TypeOK /\ Placed /\ Agreed /\ Claimed /\ Started

-----------------------------------------------------------------------------
(* Types *)

\* What the coordinator's steps leave a view: a view, with the answers it had and
\* the accepted one.
LEMMA ServerSteps ==
    ASSUME NEW v \in Task!View, NEW r \in Requests
    PROVE  /\ Task!Issued(v, r) \in Task!View /\ Task!Issued(v, r).answer = v.answer
           /\ \A heard \in BOOLEAN : /\ Task!Lapsed(v, r, heard) \in Task!View
                                     /\ Task!Lapsed(v, r, heard).answer = v.answer
           /\ \A s \in SubmissionIds, a \in Results :
                 /\ Task!Answered(v, r, s, a) \in Task!View
                 /\ Task!Answered(v, r, s, a).answer = [v.answer EXCEPT ![s] = a]
  BY DEF Task!View, Task!Issued, Task!Lapsed, Task!Answered

\* Every worker row the actions write is one.
LEMMA WorkerRows ==
    /\ Idle \in WorkerRow
    /\ \A r \in Requests, s \in SubmissionIds :
          [Idle EXCEPT !.at = "leased", !.request = r, !.sid = s] \in WorkerRow
    /\ \A row \in WorkerRow, at \in {"executing", "waiting", "receipt"} :
          [row EXCEPT !.at = at] \in WorkerRow
    /\ \A row \in WorkerRow, result \in Results :
          [row EXCEPT !.at = "prepared", !.result = result] \in WorkerRow
  BY DEF Idle, WorkerRow

\* A change of one process's row, whatever the action writes.
LEMMA WorkerTyped ==
    ASSUME worker \in [Workers -> WorkerRow], NEW w \in Workers, NEW row \in WorkerRow
    PROVE  /\ [worker EXCEPT ![w] = row] \in [Workers -> WorkerRow]
           /\ [worker EXCEPT ![w] = row][w] = row
           /\ \A v \in Workers \ {w} : [worker EXCEPT ![w] = row][v] = worker[v]
  OBVIOUS

\* The other processes stand where they stood.
Only(w) == \A v \in Workers \ {w} : worker'[v] = worker[v]

\* A process that comes in has its ids and is not executing yet.
LEMMA LeaseMoves ==
    ASSUME TypeOK, NEW w \in Workers, NEW r \in Requests, NEW s \in SubmissionIds, Lease(w, r, s)
    PROVE  /\ server' \in Task!View /\ server'.answer = server.answer
           /\ worker' \in [Workers -> WorkerRow] /\ Only(w)
           /\ worker'[w].at = "leased" /\ worker'[w].request = r /\ worker'[w].sid = s
  <1> DEFINE row == [Idle EXCEPT !.at = "leased", !.request = r, !.sid = s]
  <1>1. server' \in Task!View /\ server'.answer = server.answer
    BY ServerSteps DEF TypeOK, Lease
  <1>2. row \in WorkerRow /\ row.at = "leased" /\ row.request = r /\ row.sid = s
    BY WorkerRows DEF Idle
  <1>3. worker' = [worker EXCEPT ![w] = row] /\ worker \in [Workers -> WorkerRow]
    BY DEF Lease, TypeOK
  <1> HIDE DEF row
  <1> QED BY <1>1, <1>2, <1>3, WorkerTyped DEF Only

\* A process that is refused, has its receipt or dies is idle, and only it moves.
LEMMA IdleMoves ==
    ASSUME TypeOK, NEW w \in Workers, worker' = [worker EXCEPT ![w] = Idle]
    PROVE  /\ worker' \in [Workers -> WorkerRow] /\ Only(w)
           /\ worker'[w] = Idle /\ worker'[w].at = "idle"
  <1>1. Idle \in WorkerRow /\ Idle.at = "idle"
    BY WorkerRows DEF Idle
  <1>2. worker \in [Workers -> WorkerRow]
    BY DEF TypeOK
  <1> QED BY <1>1, <1>2, WorkerTyped DEF Only

\* A process that goes on keeps its ids and its Result.
LEMMA GoesOn ==
    ASSUME TypeOK, NEW w \in Workers, NEW at \in {"executing", "waiting", "receipt"},
           worker' = [worker EXCEPT ![w].at = at]
    PROVE  /\ worker' \in [Workers -> WorkerRow] /\ Only(w) /\ worker'[w].at = at
           /\ worker'[w].request = worker[w].request /\ worker'[w].sid = worker[w].sid
           /\ worker'[w].result = worker[w].result
  <1> DEFINE row == [worker[w] EXCEPT !.at = at]
  <1>1. worker \in [Workers -> WorkerRow] /\ worker[w] \in WorkerRow
    BY DEF TypeOK
  <1>2. /\ row \in WorkerRow /\ row.at = at /\ row.request = worker[w].request
        /\ row.sid = worker[w].sid /\ row.result = worker[w].result
    BY <1>1, WorkerRows DEF WorkerRow
  <1>3. worker' = [worker EXCEPT ![w] = row]
    BY <1>1
  <1> HIDE DEF row
  <1> QED BY <1>1, <1>2, <1>3, WorkerTyped DEF Only

\* A process that has a Result to submit keeps its ids.
LEMMA HasPrepared ==
    ASSUME TypeOK, NEW w \in Workers, NEW result \in Results,
           worker' = [worker EXCEPT ![w].at = "prepared", ![w].result = result]
    PROVE  /\ worker' \in [Workers -> WorkerRow] /\ Only(w) /\ worker'[w].at = "prepared"
           /\ worker'[w].request = worker[w].request /\ worker'[w].sid = worker[w].sid
           /\ worker'[w].result = result
  <1> DEFINE row == [worker[w] EXCEPT !.at = "prepared", !.result = result]
  <1>1. worker \in [Workers -> WorkerRow] /\ worker[w] \in WorkerRow
    BY DEF TypeOK
  <1>2. /\ row \in WorkerRow /\ row.at = "prepared" /\ row.request = worker[w].request
        /\ row.sid = worker[w].sid /\ row.result = result
    BY <1>1, WorkerRows DEF WorkerRow
  <1>3. worker' = [worker EXCEPT ![w] = row]
    BY <1>1 DEF WorkerRow
  <1> HIDE DEF row
  <1> QED BY <1>1, <1>2, <1>3, WorkerTyped, ZenonT(60) DEF Only

\* A delivery answers its own submission id at most, once, with its Result; and
\* moves at most the process that waits for it, to the receipt if the
\* coordinator has that Result now.
LEMMA DeliverMoves ==
    ASSUME TypeOK, NEW m \in wire, Deliver(m)
    PROVE  /\ server' \in Task!View /\ wire' = wire \ {m}
           /\ \A s \in SubmissionIds :
                 \/ server'.answer[s] = server.answer[s]
                 \/ s = m.sid /\ server.answer[s] = None /\ server'.answer[s] = m.result
           /\ worker' \in [Workers -> WorkerRow]
           /\ \A w \in Workers :
                 \/ worker'[w] = worker[w]
                 \/ worker'[w].at = "idle"
                 \/ /\ worker[w].at = "waiting" /\ worker'[w].at = "receipt"
                    /\ worker'[w].request = worker[w].request /\ worker'[w].sid = worker[w].sid
                    /\ worker'[w].result = worker[w].result
                    /\ worker[w].sid = m.sid /\ server'.answer[m.sid] = worker[w].result
  <1> DEFINE replayed == server.answer[m.sid] = m.result
             accepted == Task!Answerable(server, m.request, m.sid)
             answered == Task!Answered(server, m.request, m.sid, m.result)
             waits == worker[m.worker] = [at |-> "waiting", request |-> m.request,
                                          sid |-> m.sid, result |-> m.result]
  <1>1. /\ m.worker \in Workers /\ m.request \in Requests /\ m.sid \in SubmissionIds
        /\ m.result \in Results /\ server \in Task!View /\ worker \in [Workers -> WorkerRow]
    BY DEF TypeOK, Message
  <1>2. /\ server.answer \in [SubmissionIds -> Results \cup {None}]
        /\ answered \in Task!View /\ answered.answer = [server.answer EXCEPT ![m.sid] = m.result]
        /\ accepted => server.answer[m.sid] = None
    <2>1. server.answer \in [SubmissionIds -> Results \cup {None}]
      BY <1>1 DEF Task!View
    <2>2. accepted => server.answer[m.sid] = None
      BY DEF Task!Answerable
    <2> QED BY <1>1, <2>1, <2>2, ServerSteps
  <1>3. /\ wire' = wire \ {m}
        /\ server' = IF ~replayed /\ accepted THEN answered ELSE server
        /\ worker' = IF ~waits THEN worker
                     ELSE IF replayed \/ accepted
                     THEN [worker EXCEPT ![m.worker].at = "receipt"]
                     ELSE [worker EXCEPT ![m.worker] = Idle]
    BY DEF Deliver
  <1>4. waits => /\ worker[m.worker].at = "waiting" /\ worker[m.worker].sid = m.sid
                 /\ worker[m.worker].result = m.result
    OBVIOUS
  <1> HIDE DEF accepted, answered, waits
  <1>5. server' \in Task!View
    BY <1>1, <1>2, <1>3
  <1>6. \A s \in SubmissionIds :
           \/ server'.answer[s] = server.answer[s]
           \/ s = m.sid /\ server.answer[s] = None /\ server'.answer[s] = m.result
    BY <1>1, <1>2, <1>3
  <1>7. replayed \/ accepted => server'.answer[m.sid] = m.result
    BY <1>1, <1>2, <1>3
  <1>8. CASE ~waits
    BY <1>1, <1>3, <1>5, <1>6, <1>8
  <1>9. CASE waits /\ (replayed \/ accepted)
    <2>1. worker' = [worker EXCEPT ![m.worker].at = "receipt"]
      BY <1>3, <1>9
    <2>2. /\ worker' \in [Workers -> WorkerRow] /\ Only(m.worker)
          /\ worker'[m.worker].at = "receipt"
          /\ worker'[m.worker].request = worker[m.worker].request
          /\ worker'[m.worker].sid = worker[m.worker].sid
          /\ worker'[m.worker].result = worker[m.worker].result
      BY <1>1, <2>1, GoesOn
    <2> QED BY <1>3, <1>4, <1>5, <1>6, <1>7, <1>9, <2>2 DEF Only
  <1>10. CASE waits /\ ~(replayed \/ accepted)
    <2>1. worker' = [worker EXCEPT ![m.worker] = Idle]
      BY <1>3, <1>10
    <2>2. worker' \in [Workers -> WorkerRow] /\ Only(m.worker) /\ worker'[m.worker].at = "idle"
      BY <1>1, <2>1, IdleMoves
    <2> QED BY <1>3, <1>5, <1>6, <2>2 DEF Only
  <1> QED BY <1>8, <1>9, <1>10

\* A claim that is granted is the only one left, for a lease and an id without a
\* Result; otherwise the tables stand.
LEMMA ClaimMoves ==
    ASSUME TypeOK, Placed, Claimed, NEW w \in Workers, Claim(w)
    PROVE  /\ server' = server /\ wire' = wire /\ journal' = journal
           /\ worker' \in [Workers -> WorkerRow] /\ Only(w) /\ worker[w].at = "leased"
           /\ \/ /\ claims' = claims /\ ran' = ran
                 /\ \/ worker'[w].at = "idle"
                    \/ /\ worker'[w].at = "prepared"
                       /\ worker'[w].sid = worker[w].sid
                       /\ worker'[w].request = worker[w].request
                       /\ worker'[w].result \in Results
                       /\ Journaled(worker[w].sid, worker'[w].result)
              \/ /\ worker'[w].at = "executing"
                 /\ worker'[w].sid = worker[w].sid
                 /\ worker'[w].request = worker[w].request
                 /\ journal[worker[w].sid] = None
                 /\ ~HasResult(worker[w].request) /\ ~HasClaim(worker[w].request)
                 /\ ran' = ran \cup {worker[w].request}
                 /\ claims' = [s \in SubmissionIds |->
                                 IF s = worker[w].sid
                                 THEN [lease |-> worker[w].request, token |-> w] ELSE None]
  <1> DEFINE r == worker[w].request
             s == worker[w].sid
  <1>1. /\ worker \in [Workers -> WorkerRow] /\ worker[w].at = "leased"
        /\ r \in Requests /\ s \in SubmissionIds
        /\ server' = server /\ wire' = wire /\ journal' = journal
    BY DEF TypeOK, Claim, Placed
  <1>2. CASE /\ journal[s] # None /\ journal[s].state = "prepared"
             /\ worker' = [worker EXCEPT ![w].at = "prepared", ![w].result = journal[s].result]
             /\ UNCHANGED <<claims, ran>>
    <2>1. journal[s] \in JournalRow
      BY <1>1, <1>2 DEF TypeOK
    <2>2. journal[s].result \in Results
      BY <2>1 DEF JournalRow
    <2>3. /\ worker' \in [Workers -> WorkerRow] /\ Only(w) /\ worker'[w].at = "prepared"
          /\ worker'[w].request = r /\ worker'[w].sid = s
          /\ worker'[w].result = journal[s].result
      BY <1>2, <2>2, HasPrepared
    <2> QED BY <1>1, <1>2, <2>2, <2>3 DEF Journaled
  <1>3. CASE worker' = [worker EXCEPT ![w] = Idle] /\ UNCHANGED <<claims, ran>>
    <2>1. worker' \in [Workers -> WorkerRow] /\ Only(w) /\ worker'[w].at = "idle"
      BY <1>3, IdleMoves
    <2> QED BY <1>1, <1>3, <2>1
  <1>4. CASE /\ journal[s] = None /\ ~HasResult(r) /\ ~HasClaim(r)
             /\ claims' = Superseding(w, r, s)
             /\ worker' = [worker EXCEPT ![w].at = "executing"]
             /\ ran' = ran \cup {r}
    <2>1. /\ worker' \in [Workers -> WorkerRow] /\ Only(w) /\ worker'[w].at = "executing"
          /\ worker'[w].request = r /\ worker'[w].sid = s
      BY <1>4, GoesOn
    <2>2. \A k \in SubmissionIds : claims[k] # None => claims[k].lease # r
      BY <1>4 DEF HasClaim
    <2>3. claims' = [k \in SubmissionIds |->
                       IF k = s THEN [lease |-> r, token |-> w] ELSE None]
      BY <1>4, <2>2 DEF Superseding
    <2> QED BY <1>1, <1>4, <2>1, <2>3
  <1> QED BY <1>2, <1>3, <1>4 DEF Claim

\* A Result is journaled under its claim's lease, and the claim goes; a Result
\* that was journaled before is the one that is submitted, or the call fails.
LEMMA PrepareMoves ==
    ASSUME TypeOK, Placed, NEW w \in Workers, NEW result \in Results, Prepare(w, result)
    PROVE  /\ server' = server /\ wire' = wire /\ ran' = ran
           /\ worker' \in [Workers -> WorkerRow] /\ Only(w) /\ worker[w].at = "executing"
           /\ \/ worker'[w].at = "idle"
              \/ /\ worker'[w].at = "prepared" /\ worker'[w].result = result
                 /\ worker'[w].sid = worker[w].sid /\ worker'[w].request = worker[w].request
                 /\ Journaled(worker[w].sid, result)'
           /\ \/ claims' = claims /\ journal' = journal
              \/ /\ journal[worker[w].sid] = None /\ claims[worker[w].sid] # None
                 /\ claims' = [claims EXCEPT ![worker[w].sid] = None]
                 /\ journal' = [journal EXCEPT ![worker[w].sid] =
                                  [lease |-> claims[worker[w].sid].lease, result |-> result,
                                   state |-> "prepared"]]
                 /\ claims[worker[w].sid] \in ClaimRow
  <1> DEFINE s == worker[w].sid
             row == [lease |-> claims[s].lease, result |-> result, state |-> "prepared"]
             continues == worker' = [worker EXCEPT ![w].at = "prepared", ![w].result = result]
             fails == worker' = [worker EXCEPT ![w] = Idle]
             owner == claims[s] # None /\ claims[s].token = w
  <1>1. /\ worker[w].at = "executing" /\ s \in SubmissionIds
        /\ server' = server /\ wire' = wire /\ ran' = ran
        /\ journal \in [SubmissionIds -> JournalRow \cup {None}]
    BY DEF TypeOK, Prepare, Placed
  <1>2. fails => worker' \in [Workers -> WorkerRow] /\ Only(w) /\ worker'[w].at = "idle"
    BY IdleMoves
  <1>3. continues => /\ worker' \in [Workers -> WorkerRow] /\ Only(w)
                     /\ worker'[w].at = "prepared" /\ worker'[w].result = result
                     /\ worker'[w].sid = s /\ worker'[w].request = worker[w].request
    BY HasPrepared
  <1>4. \/ journal[s] # None /\ fails /\ UNCHANGED <<claims, journal>>
        \/ journal[s] # None /\ journal[s].result = result /\ continues
           /\ UNCHANGED <<claims, journal>>
        \/ journal[s] = None /\ fails /\ UNCHANGED <<claims, journal>>
        \/ /\ journal[s] = None /\ owner /\ continues
           /\ journal' = [journal EXCEPT ![s] = row] /\ claims' = [claims EXCEPT ![s] = None]
    BY DEF Prepare
  <1>5. owner => claims[s] \in ClaimRow /\ row \in JournalRow /\ row # None /\ row.result = result
    <2> HAVE owner
    <2>1. claims[s] \in ClaimRow
      BY <1>1 DEF TypeOK
    <2>2. row \in JournalRow
      BY <2>1 DEF ClaimRow, JournalRow
    <2> QED BY <2>1, <2>2, NoneAssumption
  <1> HIDE DEF fails, continues
  <1>6. CASE journal[s] # None /\ fails /\ UNCHANGED <<claims, journal>>
    BY <1>1, <1>2, <1>6
  <1>7. CASE /\ journal[s] # None /\ journal[s].result = result /\ continues
             /\ UNCHANGED <<claims, journal>>
    BY <1>1, <1>3, <1>7 DEF Journaled
  <1>8. CASE journal[s] = None /\ fails /\ UNCHANGED <<claims, journal>>
    BY <1>1, <1>2, <1>8
  <1>9. CASE /\ journal[s] = None /\ owner /\ continues
             /\ journal' = [journal EXCEPT ![s] = row] /\ claims' = [claims EXCEPT ![s] = None]
    <2>1. journal'[s] = row
      BY <1>1, <1>9
    <2>2. Journaled(s, result)'
      BY <1>3, <1>5, <1>9, <2>1 DEF Journaled
    <2> QED BY <1>1, <1>3, <1>5, <1>9, <2>2
  <1> QED BY <1>4, <1>6, <1>7, <1>8, <1>9

\* Every row of the journal is there after the step, and no other; only what
\* state a row is in may have changed.
Kept ==
    \A s \in SubmissionIds :
        /\ journal'[s] = None <=> journal[s] = None
        /\ journal[s] # None => /\ journal'[s].lease = journal[s].lease
                                /\ journal'[s].result = journal[s].result

\* Marking a row leaves the others, its lease and its Result alone.
LEMMA MarkMoves ==
    ASSUME journal \in [SubmissionIds -> JournalRow \cup {None}],
           NEW s \in SubmissionIds, NEW state \in {"completed", "pruned"}, journal[s] # None,
           journal' = [journal EXCEPT ![s].state = state]
    PROVE  /\ journal' \in [SubmissionIds -> JournalRow \cup {None}] /\ Kept
           /\ \A t \in SubmissionIds \ {s} : journal'[t] = journal[t]
  <1> DEFINE row == [journal[s] EXCEPT !.state = state]
  <1>1. /\ row \in JournalRow /\ row.lease = journal[s].lease
        /\ row.result = journal[s].result
    BY DEF JournalRow
  <1>2. journal' = [journal EXCEPT ![s] = row] /\ row # None
    BY <1>1, NoneAssumption
  <1> HIDE DEF row
  <1> QED BY <1>1, <1>2 DEF Kept

\* A receipt is recorded once, by a process that has it.
LEMMA ReceiptMoves ==
    ASSUME TypeOK, Placed, HeldIsJournaled, NEW w \in Workers, RecordReceipt(w)
    PROVE  /\ server' = server /\ wire' = wire /\ claims' = claims /\ ran' = ran
           /\ journal' \in [SubmissionIds -> JournalRow \cup {None}] /\ Kept
           /\ \A t \in SubmissionIds \ {worker[w].sid} : journal'[t] = journal[t]
           /\ worker[w].at = "receipt" /\ worker[w].sid \in SubmissionIds
           /\ worker' \in [Workers -> WorkerRow] /\ Only(w) /\ worker'[w].at = "idle"
  <1>1. /\ worker[w].at = "receipt" /\ worker[w].sid \in SubmissionIds
        /\ journal[worker[w].sid] # None
        /\ server' = server /\ wire' = wire /\ claims' = claims /\ ran' = ran
        /\ journal \in [SubmissionIds -> JournalRow \cup {None}]
        /\ worker' = [worker EXCEPT ![w] = Idle]
    BY DEF TypeOK, Placed, HeldIsJournaled, Journaled, RecordReceipt
  <1>2. /\ journal' \in [SubmissionIds -> JournalRow \cup {None}] /\ Kept
        /\ \A t \in SubmissionIds \ {worker[w].sid} : journal'[t] = journal[t]
    <2>1. CASE journal' = journal
      BY <1>1, <2>1 DEF Kept
    <2>2. CASE journal' = [journal EXCEPT ![worker[w].sid].state = "completed"]
      BY <1>1, <2>2, MarkMoves
    <2> QED BY <2>1, <2>2 DEF RecordReceipt
  <1>3. worker' \in [Workers -> WorkerRow] /\ Only(w) /\ worker'[w].at = "idle"
    BY <1>1, IdleMoves
  <1> QED BY <1>1, <1>2, <1>3

\* Pruning marks a row that has its receipt.
LEMMA PruneMoves ==
    ASSUME TypeOK, NEW s \in SubmissionIds, Prune(s)
    PROVE  /\ server' = server /\ wire' = wire /\ claims' = claims /\ ran' = ran
           /\ worker' = worker /\ journal[s] # None /\ journal[s].state # "prepared"
           /\ journal' \in [SubmissionIds -> JournalRow \cup {None}] /\ Kept
           /\ \A t \in SubmissionIds \ {s} : journal'[t] = journal[t]
  <1>1. journal \in [SubmissionIds -> JournalRow \cup {None}] /\ journal[s] # None
    BY DEF TypeOK, Prune
  <1>2. journal' = [journal EXCEPT ![s].state = "pruned"]
    BY DEF Prune
  <1>3. /\ journal' \in [SubmissionIds -> JournalRow \cup {None}] /\ Kept
        /\ \A t \in SubmissionIds \ {s} : journal'[t] = journal[t]
    BY <1>1, <1>2, MarkMoves
  <1> QED BY <1>1, <1>3 DEF Prune

\* A submission leaves as the process holds it.
LEMMA SubmitMoves ==
    ASSUME TypeOK, Placed, NEW w \in Workers, Submit(w)
    PROVE  /\ server' = server /\ claims' = claims /\ journal' = journal /\ ran' = ran
           /\ wire' \in SUBSET Message
           /\ \A m \in wire' : \/ m \in wire
                               \/ m.sid = worker[w].sid /\ m.result = worker[w].result
           /\ worker[w].at = "prepared" /\ worker' \in [Workers -> WorkerRow] /\ Only(w)
           /\ worker'[w].at = "waiting" /\ worker'[w].request = worker[w].request
           /\ worker'[w].sid = worker[w].sid /\ worker'[w].result = worker[w].result
  <1> DEFINE m == [worker |-> w, request |-> worker[w].request,
                   sid |-> worker[w].sid, result |-> worker[w].result]
  <1>1. /\ worker[w].at = "prepared" /\ worker[w].request \in Requests
        /\ worker[w].sid \in SubmissionIds /\ worker[w].result \in Results
    BY DEF Placed, Submit
  <1>2. m \in Message /\ m.sid = worker[w].sid /\ m.result = worker[w].result
    BY <1>1 DEF Message
  <1>3. /\ wire' = wire \cup {m} /\ wire \in SUBSET Message
        /\ server' = server /\ claims' = claims /\ journal' = journal /\ ran' = ran
    BY DEF Submit, TypeOK
  <1>4. worker' = [worker EXCEPT ![w].at = "waiting"]
    BY DEF Submit
  <1>5. /\ worker' \in [Workers -> WorkerRow] /\ Only(w) /\ worker'[w].at = "waiting"
        /\ worker'[w].request = worker[w].request
        /\ worker'[w].sid = worker[w].sid /\ worker'[w].result = worker[w].result
    BY <1>4, GoesOn
  <1> HIDE DEF m
  <1> QED BY <1>1, <1>2, <1>3, <1>5

-----------------------------------------------------------------------------
(* The journal and what was read from it *)

\* A Result that is journaled stays so where the journal is kept.
LEMMA KeptJournaled ==
    ASSUME Kept, NEW s \in SubmissionIds, NEW result
    PROVE  Journaled(s, result) => Journaled(s, result)'
  BY DEF Kept, Journaled

\* A step that keeps the journal, sends nothing new, answers nothing new and
\* gives no process a Result it did not have, keeps what was read agreed.
LEMMA QuietAgreed ==
    ASSUME TypeOK, Placed, Agreed, Kept, wire' \subseteq wire, server'.answer = server.answer,
           \A s \in SubmissionIds :
              journal[s] # None /\ journal'[s].state # "prepared" =>
                 server.answer[s] = journal[s].result,
           \A w \in Workers : \/ worker'[w] = worker[w]
                              \/ worker'[w].at \in {"idle", "leased", "executing"}
    PROVE  Agreed'
  <1>1. SentIsJournaled'
    BY KeptJournaled DEF Agreed, SentIsJournaled, TypeOK, Message
  <1>2. HeldIsJournaled'
    <2> SUFFICES ASSUME NEW w \in Workers, worker'[w].at \in {"prepared", "waiting", "receipt"}
                 PROVE  Journaled(worker[w].sid, worker[w].result)' 
      BY DEF HeldIsJournaled
    <2>1. worker'[w] = worker[w] /\ worker[w].sid \in SubmissionIds
      BY DEF Placed
    <2>2. Journaled(worker[w].sid, worker[w].result)
      BY <2>1 DEF Agreed, HeldIsJournaled
    <2> QED BY <2>1, <2>2 DEF Kept, Journaled
  <1>3. AnswerIsJournaled'
    BY DEF Agreed, AnswerIsJournaled, Kept, Journaled
  <1>4. ReceiptIsAnswered'
    BY DEF Agreed, ReceiptIsAnswered, Kept
  <1> QED BY <1>1, <1>2, <1>3, <1>4 DEF Agreed

\* Every step keeps what was read from the journal in agreement with it.
LEMMA AgreedStep ==
    ASSUME TypeOK, Placed, Agreed, Claimed, Next
    PROVE  Agreed'
  <1>0. /\ journal \in [SubmissionIds -> JournalRow \cup {None}]
        /\ server \in Task!View /\ server.answer \in [SubmissionIds -> Results \cup {None}]
        /\ wire \in SUBSET Message
    BY DEF TypeOK, Task!View
  <1>1. ASSUME NEW r \in Requests, TakeLease(r) PROVE Agreed'
    <2>1. server'.answer = server.answer
      BY <1>0, <1>1, ServerSteps DEF TakeLease
    <2> QED BY <1>1, <2>1, QuietAgreed DEF TakeLease, Kept, Agreed, ReceiptIsAnswered
  <1>2. ASSUME NEW r \in Requests, NEW heard \in BOOLEAN, LeaseEnds(r, heard) PROVE Agreed'
    <2>1. server'.answer = server.answer
      BY <1>0, <1>2, ServerSteps DEF LeaseEnds
    <2> QED BY <1>2, <2>1, QuietAgreed DEF LeaseEnds, Kept, Agreed, ReceiptIsAnswered
  <1>3. ASSUME NEW m \in wire, Deliver(m) PROVE Agreed'
    <2>1. journal' = journal /\ Journaled(m.sid, m.result) /\ m.sid \in SubmissionIds
          /\ m.result \in Results
      BY <1>0, <1>3 DEF Deliver, Agreed, SentIsJournaled, Message
    <2>2. SentIsJournaled'
      BY <1>3, <2>1, DeliverMoves DEF Agreed, SentIsJournaled, Journaled
    <2>3. \A w \in Workers : worker'[w].at \in {"prepared", "waiting", "receipt"} =>
             /\ worker[w].at \in {"prepared", "waiting", "receipt"}
             /\ worker'[w].sid = worker[w].sid /\ worker'[w].result = worker[w].result
             /\ worker'[w].at = "receipt" => \/ worker[w].at = "receipt"
                                             \/ server'.answer[worker[w].sid] = worker[w].result
      BY <1>3, DeliverMoves
    <2>4. HeldIsJournaled'
      BY <2>1, <2>3 DEF Agreed, HeldIsJournaled, Journaled
    <2>5. \A s \in SubmissionIds :
             \/ server'.answer[s] = server.answer[s]
             \/ s = m.sid /\ server.answer[s] = None /\ server'.answer[s] = m.result
      BY <1>3, DeliverMoves
    <2>6. AnswerIsJournaled'
      BY <2>1, <2>5 DEF Agreed, AnswerIsJournaled, Journaled
    <2>7. ReceiptIsAnswered'
      <3>1. \A s \in SubmissionIds : journal[s] # None => journal[s].result \in Results
        BY <1>0 DEF JournalRow
      <3>2. \A s \in SubmissionIds : journal[s] # None /\ journal[s].state # "prepared" =>
               server'.answer[s] = journal[s].result
        BY <2>5, <3>1, NoneAssumption DEF Agreed, ReceiptIsAnswered
      <3>3. ASSUME NEW w \in Workers, worker'[w].at = "receipt"
            PROVE  server'.answer[worker'[w].sid] = worker'[w].result
        <4>1. CASE worker[w].at = "receipt"
          <5>1. /\ server.answer[worker[w].sid] = worker[w].result
                /\ worker[w].sid \in SubmissionIds /\ worker[w].result \in Results
            BY <4>1 DEF Agreed, ReceiptIsAnswered, Placed
          <5> QED BY <2>3, <2>5, <3>3, <5>1, NoneAssumption
        <4>2. CASE worker[w].at # "receipt"
          BY <2>3, <3>3, <4>2
        <4> QED BY <4>1, <4>2
      <3> QED BY <2>1, <3>2, <3>3 DEF ReceiptIsAnswered
    <2> QED BY <2>2, <2>4, <2>6, <2>7 DEF Agreed
  <1>4. ASSUME NEW w \in Workers, NEW r \in Requests, NEW s \in SubmissionIds, Lease(w, r, s)
        PROVE  Agreed'
    <2>1. /\ server'.answer = server.answer /\ wire' = wire /\ journal' = journal
          /\ Only(w) /\ worker'[w].at = "leased"
      BY <1>4, LeaseMoves DEF Lease
    <2> QED BY <2>1, QuietAgreed DEF Only, Kept, Agreed, ReceiptIsAnswered
  <1>5. ASSUME NEW w \in Workers, Claim(w) PROVE Agreed'
    <2>1. /\ server' = server /\ wire' = wire /\ journal' = journal /\ Only(w)
          /\ \/ worker'[w].at \in {"idle", "executing"}
             \/ /\ worker'[w].at = "prepared" /\ worker'[w].sid = worker[w].sid
                /\ Journaled(worker[w].sid, worker'[w].result)
      BY <1>5, ClaimMoves
    <2>2. HeldIsJournaled'
      BY <2>1 DEF Only, Agreed, HeldIsJournaled, Journaled
    <2>3. ReceiptIsAnswered'
      BY <2>1 DEF Only, Agreed, ReceiptIsAnswered
    <2> QED BY <2>1, <2>2, <2>3 DEF Agreed, SentIsJournaled, AnswerIsJournaled, Journaled
  <1>6. ASSUME NEW w \in Workers, NEW result \in Results, Prepare(w, result) PROVE Agreed'
    <2> DEFINE s == worker[w].sid
               row == [lease |-> claims[s].lease, result |-> result, state |-> "prepared"]
    <2>1. /\ server' = server /\ wire' = wire /\ Only(w)
          /\ \/ worker'[w].at = "idle"
             \/ /\ worker'[w].at = "prepared" /\ worker'[w].sid = s
                /\ worker'[w].result = result /\ Journaled(s, result)'
      BY <1>6, PrepareMoves
    <2>2. /\ s \in SubmissionIds
          /\ \/ journal' = journal
             \/ journal[s] = None /\ journal' = [journal EXCEPT ![s] = row]
      BY <1>6, PrepareMoves DEF Placed
    <2>3. row.result = result /\ row.state = "prepared"
      OBVIOUS
    <2> HIDE DEF row, s
    <2>4. \A t \in SubmissionIds : \/ journal'[t] = journal[t]
                                   \/ journal[t] = None /\ journal'[t].state = "prepared"
      BY <1>0, <2>2, <2>3
    <2>5. ASSUME NEW t \in SubmissionIds, NEW x, Journaled(t, x) PROVE Journaled(t, x)'
      BY <2>4, <2>5 DEF Journaled
    <2>6. SentIsJournaled'
      BY <1>0, <2>1, <2>5 DEF Agreed, SentIsJournaled, Message
    <2>7. HeldIsJournaled'
      <3> SUFFICES ASSUME NEW v \in Workers, worker'[v].at \in {"prepared", "waiting", "receipt"}
                   PROVE  Journaled(worker[v].sid, worker[v].result)'
        BY DEF HeldIsJournaled
      <3>1. CASE v = w
        BY <2>1, <3>1 DEF Journaled, s
      <3>2. CASE v # w
        <4>1. worker'[v] = worker[v] /\ worker[v].sid \in SubmissionIds
          BY <2>1, <3>2 DEF Only, Placed
        <4>2. Journaled(worker[v].sid, worker[v].result)
          BY <4>1 DEF Agreed, HeldIsJournaled
        <4> QED BY <2>4, <4>1, <4>2 DEF Journaled
      <3> QED BY <3>1, <3>2
    <2>8. AnswerIsJournaled'
      BY <2>1, <2>5 DEF Agreed, AnswerIsJournaled, Journaled
    <2>9. ReceiptIsAnswered'
      BY <2>1, <2>4 DEF Only, Agreed, ReceiptIsAnswered
    <2> QED BY <2>6, <2>7, <2>8, <2>9 DEF Agreed
  <1>7. ASSUME NEW w \in Workers, Submit(w) PROVE Agreed'
    <2>1. /\ server' = server /\ journal' = journal /\ Only(w)
          /\ \A m \in wire' : \/ m \in wire
                              \/ m.sid = worker[w].sid /\ m.result = worker[w].result
          /\ worker[w].at = "prepared" /\ worker'[w].at = "waiting"
          /\ worker'[w].sid = worker[w].sid /\ worker'[w].result = worker[w].result
      BY <1>7, SubmitMoves
    <2>2. SentIsJournaled'
      BY <2>1 DEF Agreed, SentIsJournaled, HeldIsJournaled, Journaled
    <2>3. HeldIsJournaled'
      BY <2>1 DEF Only, Agreed, HeldIsJournaled, Journaled
    <2>4. ReceiptIsAnswered'
      BY <2>1 DEF Only, Agreed, ReceiptIsAnswered
    <2> QED BY <2>1, <2>2, <2>3, <2>4 DEF Agreed, AnswerIsJournaled, Journaled
  <1>8. ASSUME NEW w \in Workers, RecordReceipt(w) PROVE Agreed'
    <2> DEFINE s == worker[w].sid
    <2>1. /\ server' = server /\ wire' = wire /\ Kept /\ Only(w) /\ worker'[w].at = "idle"
          /\ \A t \in SubmissionIds \ {s} : journal'[t] = journal[t]
          /\ worker[w].at = "receipt" /\ s \in SubmissionIds
      BY <1>8, ReceiptMoves DEF Agreed
    <2>2. server.answer[s] = journal[s].result
      BY <2>1 DEF Agreed, ReceiptIsAnswered, HeldIsJournaled, Journaled
    <2>3. \A t \in SubmissionIds : journal[t] # None /\ journal'[t].state # "prepared" =>
             server.answer[t] = journal[t].result
      BY <2>1, <2>2 DEF Agreed, ReceiptIsAnswered
    <2> QED BY <2>1, <2>3, QuietAgreed DEF Only
  <1>9. ASSUME NEW w \in Workers, Crash(w) PROVE Agreed'
    <2>1. /\ server' = server /\ wire' = wire /\ journal' = journal
          /\ Only(w) /\ worker'[w].at = "idle"
      BY <1>9, IdleMoves DEF Crash
    <2> QED BY <2>1, QuietAgreed DEF Only, Kept, Agreed, ReceiptIsAnswered
  <1>10. ASSUME NEW s \in SubmissionIds, Prune(s) PROVE Agreed'
    <2>1. /\ server' = server /\ wire' = wire /\ worker' = worker /\ Kept
          /\ \A t \in SubmissionIds \ {s} : journal'[t] = journal[t]
          /\ journal[s] # None /\ journal[s].state # "prepared"
      BY <1>10, PruneMoves
    <2>2. \A t \in SubmissionIds : journal[t] # None /\ journal'[t].state # "prepared" =>
             server.answer[t] = journal[t].result
      BY <2>1 DEF Agreed, ReceiptIsAnswered
    <2> QED BY <2>1, <2>2, QuietAgreed
  <1> QED
    BY <1>1, <1>2, <1>3, <1>4, <1>5, <1>6, <1>7, <1>8, <1>9, <1>10 DEF Next

-----------------------------------------------------------------------------
(* Types and ids *)

\* A step that moves one process, to a row with its ids and its Result, keeps
\* every process placed.
LEMMA OnePlaced ==
    ASSUME Placed, NEW w \in Workers, Only(w),
           worker'[w].at # "idle" => worker'[w].request \in Requests
                                     /\ worker'[w].sid \in SubmissionIds,
           worker'[w].at \in {"prepared", "waiting", "receipt"} => worker'[w].result \in Results
    PROVE  Placed'
  BY DEF Placed, Only

\* Every step keeps the rows typed and the processes placed.
LEMMA TypeStep ==
    ASSUME TypeOK, Placed, Agreed, Claimed, Next
    PROVE  TypeOK' /\ Placed'
  <1>0. /\ journal \in [SubmissionIds -> JournalRow \cup {None}]
        /\ claims \in [SubmissionIds -> ClaimRow \cup {None}]
        /\ worker \in [Workers -> WorkerRow]
        /\ server \in Task!View /\ wire \in SUBSET Message /\ ran \in SUBSET Requests
    BY DEF TypeOK
  <1>1. ASSUME NEW r \in Requests, TakeLease(r) PROVE TypeOK' /\ Placed'
    <2>1. server' \in Task!View
      BY <1>0, <1>1, ServerSteps DEF TakeLease
    <2> QED BY <1>1, <2>1 DEF TakeLease, TypeOK, Placed
  <1>2. ASSUME NEW r \in Requests, NEW heard \in BOOLEAN, LeaseEnds(r, heard)
        PROVE  TypeOK' /\ Placed'
    <2>1. server' \in Task!View
      BY <1>0, <1>2, ServerSteps DEF LeaseEnds
    <2> QED BY <1>2, <2>1 DEF LeaseEnds, TypeOK, Placed
  <1>3. ASSUME NEW m \in wire, Deliver(m) PROVE TypeOK' /\ Placed'
    <2>1. UNCHANGED <<claims, journal, ran>>
      BY <1>3 DEF Deliver
    <2>2. /\ server' \in Task!View /\ wire' = wire \ {m} /\ worker' \in [Workers -> WorkerRow]
          /\ \A w \in Workers :
                \/ worker'[w] = worker[w]
                \/ worker'[w].at = "idle"
                \/ /\ worker[w].at = "waiting" /\ worker'[w].at = "receipt"
                   /\ worker'[w].request = worker[w].request /\ worker'[w].sid = worker[w].sid
                   /\ worker'[w].result = worker[w].result
      BY <1>3, DeliverMoves
    <2> QED BY <2>1, <2>2 DEF TypeOK, Placed
  <1>4. ASSUME NEW w \in Workers, NEW r \in Requests, NEW s \in SubmissionIds, Lease(w, r, s)
        PROVE  TypeOK' /\ Placed'
    <2>1. /\ server' \in Task!View /\ worker' \in [Workers -> WorkerRow] /\ Only(w)
          /\ worker'[w].at = "leased" /\ worker'[w].request = r /\ worker'[w].sid = s
      BY <1>4, LeaseMoves
    <2>2. Placed'
      BY <2>1, OnePlaced
    <2> QED BY <1>4, <2>1, <2>2 DEF Lease, TypeOK
  <1>5. ASSUME NEW w \in Workers, Claim(w) PROVE TypeOK' /\ Placed'
    <2>1. worker[w].request \in Requests /\ worker[w].sid \in SubmissionIds
      BY <1>5 DEF Claim, Placed
    <2>2. /\ server' = server /\ wire' = wire /\ journal' = journal
          /\ worker' \in [Workers -> WorkerRow] /\ Only(w)
          /\ \/ worker'[w].at = "idle"
             \/ /\ worker'[w].sid = worker[w].sid /\ worker'[w].request = worker[w].request
                /\ worker'[w].at = "executing" \/ worker'[w].result \in Results
          /\ \/ claims' = claims /\ ran' = ran
             \/ /\ ran' = ran \cup {worker[w].request}
                /\ claims' = [s \in SubmissionIds |->
                                IF s = worker[w].sid
                                THEN [lease |-> worker[w].request, token |-> w] ELSE None]
      BY <1>5, ClaimMoves
    <2>3. Placed'
      BY <2>1, <2>2, OnePlaced
    <2>4. [lease |-> worker[w].request, token |-> w] \in ClaimRow
      BY <2>1 DEF ClaimRow
    <2>5. claims' \in [SubmissionIds -> ClaimRow \cup {None}] /\ ran' \in SUBSET Requests
      BY <1>0, <2>1, <2>2, <2>4
    <2> QED BY <2>2, <2>3, <2>5 DEF TypeOK
  <1>6. ASSUME NEW w \in Workers, NEW result \in Results, Prepare(w, result)
        PROVE  TypeOK' /\ Placed'
    <2> DEFINE s == worker[w].sid
               row == [lease |-> claims[s].lease, result |-> result, state |-> "prepared"]
    <2>1. worker[w].request \in Requests /\ s \in SubmissionIds
      BY <1>6, PrepareMoves DEF Placed
    <2>2. /\ server' = server /\ wire' = wire /\ ran' = ran
          /\ worker' \in [Workers -> WorkerRow] /\ Only(w)
          /\ \/ worker'[w].at = "idle"
             \/ /\ worker'[w].result = result /\ worker'[w].sid = s
                /\ worker'[w].request = worker[w].request
          /\ \/ claims' = claims /\ journal' = journal
             \/ /\ claims' = [claims EXCEPT ![s] = None]
                /\ journal' = [journal EXCEPT ![s] = row] /\ claims[s] \in ClaimRow
      BY <1>6, PrepareMoves
    <2>3. Placed'
      BY <2>1, <2>2, OnePlaced
    <2>4. claims[s] \in ClaimRow => row \in JournalRow
      BY DEF ClaimRow, JournalRow
    <2> HIDE DEF row, s
    <2>5. /\ claims' \in [SubmissionIds -> ClaimRow \cup {None}]
          /\ journal' \in [SubmissionIds -> JournalRow \cup {None}]
      BY <1>0, <2>1, <2>2, <2>4
    <2> QED BY <2>2, <2>3, <2>5 DEF TypeOK
  <1>7. ASSUME NEW w \in Workers, Submit(w) PROVE TypeOK' /\ Placed'
    <2>1. /\ server' = server /\ claims' = claims /\ journal' = journal /\ ran' = ran
          /\ wire' \in SUBSET Message
          /\ worker[w].at = "prepared" /\ worker' \in [Workers -> WorkerRow] /\ Only(w)
          /\ worker'[w].at = "waiting" /\ worker'[w].request = worker[w].request
          /\ worker'[w].sid = worker[w].sid /\ worker'[w].result = worker[w].result
      BY <1>7, SubmitMoves
    <2>2. Placed'
      BY <2>1, OnePlaced DEF Placed
    <2> QED BY <2>1, <2>2 DEF TypeOK
  <1>8. ASSUME NEW w \in Workers, RecordReceipt(w) PROVE TypeOK' /\ Placed'
    <2>1. /\ server' = server /\ wire' = wire /\ claims' = claims /\ ran' = ran
          /\ journal' \in [SubmissionIds -> JournalRow \cup {None}]
          /\ worker' \in [Workers -> WorkerRow] /\ Only(w) /\ worker'[w].at = "idle"
      BY <1>8, ReceiptMoves DEF Agreed
    <2>2. Placed'
      BY <2>1, OnePlaced
    <2> QED BY <2>1, <2>2 DEF TypeOK
  <1>9. ASSUME NEW w \in Workers, Crash(w) PROVE TypeOK' /\ Placed'
    <2>1. worker' \in [Workers -> WorkerRow] /\ Only(w) /\ worker'[w].at = "idle"
      BY <1>9, IdleMoves DEF Crash
    <2>2. Placed'
      BY <2>1, OnePlaced
    <2> QED BY <1>9, <2>1, <2>2 DEF Crash, TypeOK
  <1>10. ASSUME NEW s \in SubmissionIds, Prune(s) PROVE TypeOK' /\ Placed'
    <2>1. /\ server' = server /\ wire' = wire /\ claims' = claims /\ ran' = ran
          /\ worker' = worker /\ journal' \in [SubmissionIds -> JournalRow \cup {None}]
      BY <1>10, PruneMoves
    <2> QED BY <2>1 DEF TypeOK, Placed
  <1> QED
    BY <1>1, <1>2, <1>3, <1>4, <1>5, <1>6, <1>7, <1>8, <1>9, <1>10 DEF Next

-----------------------------------------------------------------------------
(* Claims *)

\* A step that keeps the journal and the claims, and starts no handler, keeps
\* the claims apart and the trace of what was started.
LEMMA QuietClaimed ==
    ASSUME Placed, Claimed, Started, Kept, claims' = claims, ran' = ran,
           \A w \in Workers : worker'[w] = worker[w] \/ worker'[w].at # "executing"
    PROVE  Claimed' /\ Started'
  <1>1. \A r : HasResult(r)' <=> HasResult(r)
    BY DEF HasResult, Kept
  <1>2. \A r : HasClaim(r)' <=> HasClaim(r)
    BY DEF HasClaim
  <1>3. \A s, t \in SubmissionIds :
           journal'[s] # None /\ journal'[t] # None /\ journal'[s].lease = journal'[t].lease
             => s = t
    BY DEF Claimed, Kept
  <1>4. \A s \in SubmissionIds :
           claims'[s] # None => journal'[s] = None /\ ~HasResult(claims[s].lease)'
    BY <1>1 DEF Claimed, Kept
  <1>5. ASSUME NEW w \in Workers, Executing(w)', Owns(w)'
        PROVE  claims'[worker'[w].sid].lease = worker'[w].request
    BY <1>5 DEF Claimed, Executing, Owns
  <1>6. Claimed'
    BY <1>3, <1>4, <1>5 DEF Claimed
  <1>7. Started'
    BY <1>1, <1>2 DEF Started
  <1> QED BY <1>6, <1>7

\* A granted claim is the only one; a journaled Result takes its claim away and
\* leaves its lease with a Result; no other step touches either.
LEMMA ClaimedStep ==
    ASSUME TypeOK, Placed, Agreed, Claimed, Started, Next
    PROVE  Claimed' /\ Started'
  <1>1. ASSUME NEW r \in Requests, TakeLease(r) PROVE Claimed' /\ Started'
    BY <1>1, QuietClaimed DEF TakeLease, Kept
  <1>2. ASSUME NEW r \in Requests, NEW heard \in BOOLEAN, LeaseEnds(r, heard)
        PROVE  Claimed' /\ Started'
    BY <1>2, QuietClaimed DEF LeaseEnds, Kept
  <1>3. ASSUME NEW m \in wire, Deliver(m) PROVE Claimed' /\ Started'
    <2>1. UNCHANGED <<claims, journal, ran>>
      BY <1>3 DEF Deliver
    <2>2. \A w \in Workers : worker'[w] = worker[w] \/ worker'[w].at # "executing"
      BY <1>3, DeliverMoves
    <2> QED BY <2>1, <2>2, QuietClaimed DEF Kept
  <1>4. ASSUME NEW w \in Workers, NEW r \in Requests, NEW s \in SubmissionIds, Lease(w, r, s)
        PROVE  Claimed' /\ Started'
    <2>1. Only(w) /\ worker'[w].at = "leased"
      BY <1>4, LeaseMoves
    <2> QED BY <1>4, <2>1, QuietClaimed DEF Lease, Only, Kept
  <1>5. ASSUME NEW w \in Workers, Claim(w) PROVE Claimed' /\ Started'
    <2> DEFINE s == worker[w].sid
               r == worker[w].request
    <2>1. /\ s \in SubmissionIds /\ journal' = journal /\ Only(w)
          /\ \/ claims' = claims /\ ran' = ran /\ worker'[w].at \in {"idle", "prepared"}
             \/ /\ worker'[w].at = "executing" /\ worker'[w].sid = s /\ worker'[w].request = r
                /\ journal[s] = None /\ ~HasResult(r) /\ ran' = ran \cup {r}
                /\ claims' = [k \in SubmissionIds |->
                                IF k = s THEN [lease |-> r, token |-> w] ELSE None]
      BY <1>5, ClaimMoves DEF Claim, Placed
    <2>2. CASE claims' = claims /\ ran' = ran /\ worker'[w].at \in {"idle", "prepared"}
      BY <2>1, <2>2, QuietClaimed DEF Only, Kept
    <2>3. CASE /\ worker'[w].at = "executing" /\ worker'[w].sid = s /\ worker'[w].request = r
               /\ journal[s] = None /\ ~HasResult(r) /\ ran' = ran \cup {r}
               /\ claims' = [k \in SubmissionIds |->
                               IF k = s THEN [lease |-> r, token |-> w] ELSE None]
      <3> DEFINE row == [lease |-> r, token |-> w]
      <3>1. r \in Requests /\ row \in ClaimRow /\ row.lease = r /\ row.token = w
        BY <1>5 DEF Claim, Placed, ClaimRow
      <3>2. row # None /\ claims'[s] = row
        BY <2>1, <2>3, <3>1, NoneAssumption
      <3>3. \A k \in SubmissionIds : claims'[k] # None => k = s
        BY <2>3
      <3>4. ~HasResult(r)'
        BY <2>1, <2>3 DEF HasResult
      <3>5. ASSUME NEW v \in Workers, Executing(v)', Owns(v)'
            PROVE  claims'[worker'[v].sid].lease = worker'[v].request
        <4>1. CASE v = w
          BY <2>3, <3>1, <3>2, <4>1
        <4>2. CASE v # w
          <5>1. worker'[v] = worker[v] /\ worker[v].sid \in SubmissionIds
            BY <2>1, <3>5, <4>2 DEF Only, Executing, Placed
          <5>2. claims'[worker[v].sid] # None /\ claims'[worker[v].sid].token = v
            BY <3>5, <5>1 DEF Owns
          <5> QED BY <3>1, <3>2, <3>3, <4>2, <5>1, <5>2
        <4> QED BY <4>1, <4>2
      <3> HIDE DEF row
      <3>6. Claimed'
        <4>1. \A j, k \in SubmissionIds :
                 journal'[j] # None /\ journal'[k] # None /\ journal'[j].lease = journal'[k].lease
                   => j = k
          BY <2>1 DEF Claimed
        <4>2. \A k \in SubmissionIds :
                 claims'[k] # None => journal'[k] = None /\ ~HasResult(claims[k].lease)'
          <5> SUFFICES ASSUME NEW k \in SubmissionIds, claims'[k] # None
                       PROVE  journal'[k] = None /\ ~HasResult(claims[k].lease)'
            OBVIOUS
          <5>1. k = s /\ claims'[k].lease = r
            BY <3>1, <3>2, <3>3
          <5>2. journal'[k] = None
            BY <2>1, <2>3, <5>1
          <5>3. ~\E j \in SubmissionIds : journal[j] # None /\ journal[j].lease = r
            BY <2>3 DEF HasResult
          <5>4. ~\E j \in SubmissionIds : journal'[j] # None /\ journal'[j].lease = claims'[k].lease
            BY <2>1, <5>1, <5>3
          <5> QED BY <5>2, <5>4 DEF HasResult
        <4>3. \A j, k \in SubmissionIds : claims'[j] # None /\ claims'[k] # None => j = k
          BY <3>3
        <4> QED BY <3>5, <4>1, <4>2, <4>3 DEF Claimed
      <3>7. Started'
        <4> SUFFICES ASSUME NEW q \in Requests, ran' = {q} PROVE HasClaim(q)'
          BY DEF Started
        <4>1. q = r
          BY <2>3
        <4> QED BY <2>1, <3>1, <3>2, <4>1 DEF HasClaim
      <3> QED BY <3>6, <3>7
    <2> QED BY <2>1, <2>2, <2>3
  <1>6. ASSUME NEW w \in Workers, NEW result \in Results, Prepare(w, result)
        PROVE  Claimed' /\ Started'
    <2> DEFINE s == worker[w].sid
               lease == claims[s].lease
               row == [lease |-> lease, result |-> result, state |-> "prepared"]
    <2>1. /\ s \in SubmissionIds /\ ran' = ran /\ Only(w)
          /\ worker'[w].at \in {"idle", "prepared"}
          /\ \/ claims' = claims /\ journal' = journal
             \/ /\ journal[s] = None /\ claims[s] # None
                /\ claims' = [claims EXCEPT ![s] = None]
                /\ journal' = [journal EXCEPT ![s] = row] /\ claims[s] \in ClaimRow
      BY <1>6, PrepareMoves DEF Placed
    <2>2. CASE claims' = claims /\ journal' = journal
      BY <2>1, <2>2, QuietClaimed DEF Only, Kept
    <2>3. CASE /\ journal[s] = None /\ claims[s] # None
               /\ claims' = [claims EXCEPT ![s] = None]
               /\ journal' = [journal EXCEPT ![s] = row] /\ claims[s] \in ClaimRow
      <3>1. row \in JournalRow /\ row # None /\ row.lease = lease
        <4>1. row \in JournalRow
          BY <2>3 DEF ClaimRow, JournalRow
        <4> QED BY <4>1, NoneAssumption
      <3> HIDE DEF row
      <3>2. /\ \A k \in SubmissionIds : claims'[k] = None
            /\ journal'[s] = row
            /\ \A k \in SubmissionIds \ {s} : journal'[k] = journal[k]
        BY <2>1, <2>3 DEF TypeOK, Claimed
      <3>3. ~\E k \in SubmissionIds : journal[k] # None /\ journal[k].lease = lease
        BY <2>1, <2>3 DEF Claimed, HasResult
      <3> HIDE DEF lease, s
      <3>4. \A j, k \in SubmissionIds :
               journal'[j] # None /\ journal'[k] # None /\ journal'[j].lease = journal'[k].lease
                 => j = k
        BY <3>1, <3>2, <3>3 DEF Claimed
      <3>5. Claimed'
        <4>1. \A v \in Workers : ~Owns(v)' \/ ~Executing(v)'
          <5> SUFFICES ASSUME NEW v \in Workers, Executing(v)' PROVE ~Owns(v)'
            OBVIOUS
          <5>1. v # w
            BY <2>1 DEF Executing
          <5>2. worker'[v] = worker[v] /\ worker[v].sid \in SubmissionIds
            BY <2>1, <5>1 DEF Only, Executing, Placed
          <5> QED BY <3>2, <5>2 DEF Owns
        <4> QED BY <3>2, <3>4, <4>1 DEF Claimed
      <3>6. Started'
        <4> SUFFICES ASSUME NEW q \in Requests, ran = {q} PROVE HasResult(q)'
          BY <2>1 DEF Started
        <4>1. CASE HasResult(q)
          <5>1. PICK k \in SubmissionIds : journal[k] # None /\ journal[k].lease = q
            BY <4>1 DEF HasResult
          <5>2. k # s
            BY <2>3, <5>1
          <5> QED BY <3>2, <5>1, <5>2 DEF HasResult
        <4>2. CASE HasClaim(q)
          <5>1. PICK k \in SubmissionIds : claims[k] # None /\ claims[k].lease = q
            BY <4>2 DEF HasClaim
          <5>2. k = s
            BY <2>1, <2>3, <5>1 DEF Claimed
          <5>3. journal'[s] # None /\ journal'[s].lease = q
            BY <3>1, <3>2, <5>1, <5>2 DEF lease
          <5> QED BY <2>1, <5>3 DEF HasResult
        <4> QED BY <4>1, <4>2 DEF Started
      <3> QED BY <3>5, <3>6
    <2> QED BY <2>1, <2>2, <2>3
  <1>7. ASSUME NEW w \in Workers, Submit(w) PROVE Claimed' /\ Started'
    <2>1. /\ claims' = claims /\ journal' = journal /\ ran' = ran /\ Only(w)
          /\ worker'[w].at = "waiting"
      BY <1>7, SubmitMoves
    <2> QED BY <2>1, QuietClaimed DEF Only, Kept
  <1>8. ASSUME NEW w \in Workers, RecordReceipt(w) PROVE Claimed' /\ Started'
    <2>1. claims' = claims /\ ran' = ran /\ Kept /\ Only(w) /\ worker'[w].at = "idle"
      BY <1>8, ReceiptMoves DEF Agreed
    <2> QED BY <2>1, QuietClaimed DEF Only
  <1>9. ASSUME NEW w \in Workers, Crash(w) PROVE Claimed' /\ Started'
    <2>1. Only(w) /\ worker'[w].at = "idle"
      BY <1>9, IdleMoves DEF Crash
    <2> QED BY <1>9, <2>1, QuietClaimed DEF Crash, Only, Kept
  <1>10. ASSUME NEW s \in SubmissionIds, Prune(s) PROVE Claimed' /\ Started'
    <2>1. claims' = claims /\ ran' = ran /\ worker' = worker /\ Kept
      BY <1>10, PruneMoves
    <2> QED BY <2>1, QuietClaimed
  <1> QED
    BY <1>1, <1>2, <1>3, <1>4, <1>5, <1>6, <1>7, <1>8, <1>9, <1>10 DEF Next

-----------------------------------------------------------------------------
(* The theorems *)

\* The invariant holds of an empty journal.
LEMMA InitInv == Init => Inv
  <1> SUFFICES ASSUME Init PROVE Inv
    OBVIOUS
  <1>1. Idle \in WorkerRow /\ Idle.at = "idle"
    BY WorkerRows DEF Idle
  <1>2. server \in Task!View /\ \A s \in SubmissionIds : server.answer[s] = None
    BY DEF Init, Task!Unseen, Task!View
  <1>3. TypeOK
    BY <1>1, <1>2 DEF Init, TypeOK
  <1>4. Placed
    BY <1>1 DEF Init, Placed
  <1>5. Agreed
    BY <1>1, <1>2 DEF Init, Agreed, SentIsJournaled, HeldIsJournaled, AnswerIsJournaled,
                      ReceiptIsAnswered
  <1>6. Claimed /\ Started
    BY <1>1 DEF Init, Claimed, Started, Executing
  <1> QED BY <1>3, <1>4, <1>5, <1>6 DEF Inv

\* Every step of any process, of the network or of the coordinator keeps it.
LEMMA NextInv == Inv /\ [Next]_vars => Inv'
  <1>1. ASSUME Inv, Next PROVE Inv'
    <2>1. TypeOK /\ Placed /\ Agreed /\ Claimed /\ Started
      BY <1>1 DEF Inv
    <2> QED BY <1>1, <2>1, TypeStep, AgreedStep, ClaimedStep DEF Inv
  <1>2. ASSUME Inv, UNCHANGED vars PROVE Inv'
    <2>1. /\ UNCHANGED <<server, wire, claims, journal, worker, ran>>
          /\ TypeOK /\ Placed /\ Agreed /\ Claimed /\ Started
      BY <1>2 DEF vars, Inv
    <2>2. TypeOK' /\ Placed'
      BY <2>1 DEF TypeOK, Placed
    <2>3. Agreed'
      BY <2>1 DEF Agreed, SentIsJournaled, HeldIsJournaled, AnswerIsJournaled,
                  ReceiptIsAnswered, Journaled
    <2>4. Claimed' /\ Started'
      BY <2>1, QuietClaimed DEF Kept
    <2> QED BY <2>2, <2>3, <2>4 DEF Inv
  <1> QED BY <1>1, <1>2

\* Inv holds throughout.
THEOREM InvAlways == Spec => []Inv
  BY InitInv, NextInv, PTL DEF Spec

\* The journal and the coordinator never drift apart, whatever process dies and
\* whatever answer or submission is lost or late: what the coordinator holds under
\* a submission id is journaled under it, and a recorded receipt means that it
\* holds the Result (SQLiteResultJournal.prepare, complete and prune).
THEOREM JournalStaysMatched == Spec => []JournalMatchesCoordinator
  <1>1. Inv => JournalMatchesCoordinator
    BY DEF Inv, Agreed, AnswerIsJournaled, ReceiptIsAnswered, Journaled,
           JournalMatchesCoordinator
  <1> QED BY <1>1, InvAlways, PTL

\* All submissions under one id carry one Result, which the coordinator's stored
\* answer has too, so that no retry of work_once is an idempotency conflict, and no
\* two Results are journaled under one lease.
THEOREM OneResultAlways == Spec => []OneResult
  <1>1. Inv => OneResult
    <2> SUFFICES ASSUME Inv PROVE OneResult
      OBVIOUS
    <2>1. \A m \in wire : m.sid \in SubmissionIds /\ Journaled(m.sid, m.result)
      BY DEF Inv, TypeOK, Message, Agreed, SentIsJournaled
    <2>2. \A m \in wire : server.answer[m.sid] \in {None, m.result}
      BY <2>1 DEF Inv, Agreed, AnswerIsJournaled, Journaled
    <2>3. \A m, k \in wire : k.sid = m.sid => k.result = m.result
      BY <2>1 DEF Journaled
    <2> QED BY <2>2, <2>3 DEF Inv, Claimed, OneResult
  <1> QED BY <1>1, InvAlways, PTL

\* A process that runs the handler and may journal the outcome is alone in that,
\* and nothing is journaled or answered yet under its lease and its id
\* (claim_execution and the owner check of prepare).
THEOREM OwnersAreFresh == Spec => []OwnerIsFresh
  <1>1. Inv => OwnerIsFresh
    <2> SUFFICES ASSUME Inv, NEW w \in Workers, Executing(w), Owns(w)
                 PROVE  /\ journal[worker[w].sid] = None /\ ~HasResult(worker[w].request)
                        /\ server.answer[worker[w].sid] = None
                        /\ \A v \in Workers \ {w} : ~(Executing(v) /\ Owns(v))
      BY DEF OwnerIsFresh
    <2>1. Placed /\ Claimed /\ AnswerIsJournaled
      BY DEF Inv, Agreed
    <2>2. \A v \in Workers : Executing(v) => worker[v].sid \in SubmissionIds
      BY <2>1 DEF Placed, Executing
    <2>3. journal[worker[w].sid] = None /\ ~HasResult(worker[w].request)
      BY <2>1, <2>2 DEF Claimed, Owns
    <2>4. server.answer[worker[w].sid] = None
      BY <2>1, <2>2, <2>3 DEF AnswerIsJournaled, Journaled
    <2>5. \A v \in Workers \ {w} : ~(Executing(v) /\ Owns(v))
      BY <2>1, <2>2 DEF Claimed, Owns
    <2> QED BY <2>3, <2>4, <2>5
  <1> QED BY <1>1, InvAlways, PTL

\* No step starts the handler a second time for a lease while that lease is the
\* only one it was ever started for: a process that dies takes no work back, its
\* claim bars the lease (claim_execution).
THEOREM SoleLeaseIsRunOnce == Spec => SoleLeaseRunsOnce
  <1> DEFINE Starts == \A w \in Workers :
                          ~Executing(w) /\ Executing(w)' => ran # {worker[w].request}
  <1>1. ASSUME Inv, Next PROVE Starts
    <2> SUFFICES ASSUME NEW w \in Workers, ~Executing(w), Executing(w)'
                 PROVE  ran # {worker[w].request}
      OBVIOUS
    <2>0. TypeOK /\ Placed /\ Agreed /\ Claimed /\ Started
      BY <1>1 DEF Inv
    <2>1. worker'[w] # worker[w] /\ worker'[w].at = "executing"
      BY DEF Executing
    <2>2. ~\E m \in wire : Deliver(m)
      BY <2>0, <2>1, DeliverMoves
    <2>3. ~\E v \in Workers, r \in Requests, s \in SubmissionIds : Lease(v, r, s)
      BY <2>0, <2>1, LeaseMoves DEF Only
    <2>4. ~\E v \in Workers, result \in Results : Prepare(v, result)
      BY <2>0, <2>1, PrepareMoves DEF Only
    <2>5. ~\E v \in Workers : Submit(v)
      BY <2>0, <2>1, SubmitMoves DEF Only
    <2>6. ~\E v \in Workers : RecordReceipt(v)
      BY <2>0, <2>1, ReceiptMoves DEF Only, Agreed
    <2>7. ~\E v \in Workers : Crash(v)
      <3> SUFFICES ASSUME NEW v \in Workers, Crash(v) PROVE FALSE
        OBVIOUS
      <3>1. Only(v) /\ worker'[v].at = "idle"
        BY <2>0, IdleMoves DEF Crash
      <3> QED BY <2>1, <3>1 DEF Only
    <2>8. \E v \in Workers : Claim(v)
      BY <1>1, <2>1, <2>2, <2>3, <2>4, <2>5, <2>6, <2>7 DEF Next, TakeLease, LeaseEnds, Prune
    <2>9. Claim(w)
      BY <2>0, <2>1, <2>8, ClaimMoves DEF Only
    <2>10. /\ ~HasResult(worker[w].request) /\ ~HasClaim(worker[w].request)
           /\ worker[w].request \in Requests
      BY <2>0, <2>1, <2>9, ClaimMoves DEF Claim, Placed
    <2> QED BY <2>0, <2>10 DEF Started
  <1>2. ASSUME Inv, UNCHANGED vars PROVE Starts
    BY <1>2 DEF vars, Executing
  <1>3. Inv /\ [Next]_vars => [Starts]_vars
    BY <1>1, <1>2
  <1> HIDE DEF Starts
  <1>4. Spec => [][Starts]_vars
    BY <1>3, InvAlways, PTL DEF Spec
  <1> QED BY <1>4 DEF SoleLeaseRunsOnce, Starts

\* The coordinator the provider's processes talk to is the one LeaseLife
\* describes, which CoordinatorLedgerProofs shows Coordinator to implement:
\* whatever they do, and in any order, is a life of one node's leases of one task.
THEOREM ServerIsLeaseLife == Spec => Task!LeaseLifeSpec
  <1> DEFINE shown == [p \in {"this"} |-> server]
  <1>1. Init => Task!ViewInit
    BY DEF Init, Task!ViewInit
  <1>2. ASSUME Inv, Inv', Next PROVE Task!Step(server, server')
    <2>0. TypeOK /\ wire \in SUBSET Message
      BY <1>2 DEF Inv, TypeOK
    <2>1. ASSUME NEW r \in Requests, TakeLease(r) PROVE Task!Step(server, server')
      BY <2>1 DEF TakeLease, Task!Step
    <2>2. ASSUME NEW r \in Requests, NEW heard \in BOOLEAN, LeaseEnds(r, heard)
          PROVE  Task!Step(server, server')
      BY <2>2 DEF LeaseEnds, Task!Step
    <2>3. ASSUME NEW m \in wire, Deliver(m) PROVE Task!Step(server, server')
      <3>1. m.request \in Requests /\ m.sid \in SubmissionIds /\ m.result \in Results
        BY <2>0 DEF Message
      <3>2. \/ server' = server
            \/ /\ Task!Answerable(server, m.request, m.sid)
               /\ server' = Task!Answered(server, m.request, m.sid, m.result)
        BY <2>3 DEF Deliver
      <3> QED BY <3>1, <3>2 DEF Task!Step
    <2>4. ASSUME NEW w \in Workers, NEW r \in Requests, NEW s \in SubmissionIds, Lease(w, r, s)
          PROVE  Task!Step(server, server')
      BY <2>4 DEF Lease, Task!Step
    <2>5. ASSUME \/ \E w \in Workers : Claim(w) \/ Submit(w) \/ RecordReceipt(w) \/ Crash(w)
                 \/ \E w \in Workers, result \in Results : Prepare(w, result)
                 \/ \E s \in SubmissionIds : Prune(s)
          PROVE  Task!Step(server, server')
      <3>1. server' = server
        BY <2>5 DEF Claim, Submit, RecordReceipt, Crash, Prepare, Prune
      <3> QED BY <3>1 DEF Task!Step
    <2> QED BY <1>2, <2>1, <2>2, <2>3, <2>4, <2>5 DEF Next
  <1>3. ASSUME Inv, Inv', [Next]_vars PROVE [Task!ViewNext]_shown
    <2>1. CASE Next
      <3>1. server' \in Task!View
        BY <1>3 DEF Inv, TypeOK
      <3>2. shown' \in [{"this"} -> Task!View]
        BY <3>1
      <3>3. \A p \in {"this"} : Task!Step(shown[p], shown'[p])
        BY <1>2, <1>3, <2>1
      <3> QED BY <3>2, <3>3 DEF Task!ViewNext
    <2>2. CASE UNCHANGED vars
      BY <2>2 DEF vars
    <2> QED BY <1>3, <2>1, <2>2
  <1> QED BY <1>1, <1>3, InvAlways, PTL DEF Spec, Task!LeaseLifeSpec, shown

-----------------------------------------------------------------------------
(* The gate *)

(* The rows of a verdict *)

\* The checks of the coordinator's own, and those of the spec.
OwnRows(result) ==
    (IF result.errors = Absent THEN <<>>
     ELSE <<ProtocolClause(SchemaId, "schema", ContractName, result.errors)>>)
    \o (IF result.completed THEN <<>>
        ELSE <<ProtocolClause(CompletionId, "protocol", Null, Null)>>)
DeclaredRows(s, outputs) == [i \in DOMAIN s.clauses |-> EvaluateClause(s.clauses[i], outputs)]
AllRows(s, result) == OwnRows(result) \o DeclaredRows(s, result.outputs)

\* A spec that was let through: its clauses, one by one.
LEMMA SpecClauses ==
    ASSUME NEW s \in RawSpecs, ValidSpec(s)
    PROVE  /\ DOMAIN s.clauses = 1 .. Len(s.clauses) /\ Len(s.clauses) \in Nat \ {0}
           /\ s.minimum \in 0 .. 100
           /\ \A i \in 1 .. Len(s.clauses) :
                 LET c == s.clauses[i]
                 IN /\ c.path \in Paths /\ c.critical \in BOOLEAN
                    /\ c.expected \in Values \cup {Absent}
                    /\ c.id \notin Reserved /\ c.operator \in Operators /\ ExpectedFits(c)
           /\ \A i, j \in 1 .. Len(s.clauses) : s.clauses[i].id = s.clauses[j].id => i = j
  <1>1. s.clauses \in Seq(Range(s.clauses)) /\ s.clauses # <<>>
    BY RawSpecsAssumption DEF ValidSpec
  <1>2. DOMAIN s.clauses = 1 .. Len(s.clauses) /\ Len(s.clauses) \in Nat \ {0}
    BY <1>1
  <1>3. \A i \in 1 .. Len(s.clauses) : s.clauses[i] \in Range(s.clauses)
    BY <1>2 DEF Range
  <1> QED BY <1>2, <1>3, RawSpecsAssumption DEF ValidSpec

\* A test is passed or not.
LEMMA HoldsBoolean ==
    ASSUME NEW c, c.operator \in Operators, c.expected \in Values \cup {Absent}, ExpectedFits(c),
           NEW v \in Values
    PROVE  Holds(c, v) \in BOOLEAN
  <1>1. CASE c.operator = "exists"
    BY <1>1, Zenon DEF Holds
  <1>2. CASE c.operator = "equals"
    BY <1>2 DEF Holds
  <1>3. CASE c.operator = "type"
    BY <1>3 DEF Holds, IsJsonType
  <1>4. CASE c.operator = "minimum"
    BY <1>4 DEF Holds, Numeric
  <1>5. CASE c.operator = "maximum"
    BY <1>5 DEF Holds, Numeric
  <1>6. CASE c.operator = "contains"
    BY <1>6 DEF Holds
  <1> QED BY <1>1, <1>2, <1>3, <1>4, <1>5, <1>6 DEF Operators

\* The ids of clauses.
Ids == {SchemaId, CompletionId} \cup UNION {{c.id : c \in Range(s.clauses)} : s \in RawSpecs}

\* What a clause of the spec comes to.
DeclaredRow(s, outputs, i, row) ==
    LET c == s.clauses[i] IN
    /\ row \in Rows
    /\ row.id = c.id /\ row.path = c.path /\ row.operator = c.operator
    /\ row.critical = c.critical /\ (row.passed <=> Clears(s, outputs, i))
    /\ row.expected = OrNull(c.expected, Absent) /\ row.expected \in Values
    /\ row.observed \in Values

\* The row evaluate_clause makes of it is that.
LEMMA DeclaredRowIs ==
    ASSUME NEW s \in RawSpecs, ValidSpec(s), NEW outputs \in Outputs, NEW i \in 1 .. Len(s.clauses)
    PROVE  DeclaredRow(s, outputs, i, EvaluateClause(s.clauses[i], outputs))
  <1> DEFINE c == s.clauses[i]
             v == outputs[c.path]
             row == EvaluateClause(c, outputs)
             ids == Ids
  <1>1. /\ c.path \in Paths /\ c.critical \in BOOLEAN /\ c.expected \in Values \cup {Absent}
        /\ c.operator \in Operators /\ ExpectedFits(c)
    BY SpecClauses
  <1>2. c.id \in ids
    BY SpecClauses DEF Ids, Range
  <1>3. v \in Values \cup {Missing} /\ Null \in Values
    BY <1>1, ValuesAssumption DEF Outputs
  <1>4. OrNull(c.expected, Absent) \in Values /\ OrNull(v, Missing) \in Values
    BY <1>1, <1>3 DEF OrNull
  <1>5. (v # Missing /\ Holds(c, v)) \in BOOLEAN
    OBVIOUS
  <1>6. Clears(s, outputs, i) <=> (v # Missing /\ Holds(c, v))
    BY DEF Clears
  <1> DEFINE p == v # Missing /\ Holds(c, v)
             m == v = Missing
             x == OrNull(c.expected, Absent)
             y == OrNull(v, Missing)
  <1>7. row = [id |-> c.id, path |-> c.path, operator |-> c.operator, critical |-> c.critical,
               passed |-> p, expected |-> x, observed |-> y, missing |-> m]
    BY DEF EvaluateClause
  <1>8. p \in BOOLEAN /\ m \in BOOLEAN
    OBVIOUS
  <1> DEFINE paths == Paths \cup {""}
             operators == Operators \cup {"schema", "protocol"}
             values == Values \cup {Digest(w) : w \in Values}
  <1>9. c.path \in paths /\ c.operator \in operators /\ x \in values /\ y \in values
    BY <1>1, <1>4
  <1>10. Rows = [id : ids, path : paths, operator : operators, critical : BOOLEAN,
                 passed : BOOLEAN, missing : BOOLEAN, expected : values, observed : values]
    BY DEF Rows, Ids
  <1> HIDE DEF ids, paths, operators, values, p, m, x, y, row
  <1>11. row \in Rows
    BY <1>1, <1>2, <1>7, <1>8, <1>9, <1>10
  <1>12. (row.passed <=> p) /\ row.expected = x /\ row.observed = y
    BY <1>7, <1>8
  <1>13. /\ row.id = c.id /\ row.path = c.path /\ row.operator = c.operator
         /\ row.critical = c.critical
    BY <1>7
  <1> QED BY <1>4, <1>6, <1>11, <1>12, <1>13 DEF DeclaredRow, p, x, y, row

\* The rows of the coordinator's own checks: they failed, and are critical.
OwnRow(row, id, operator, x, y) ==
    /\ row \in Rows /\ row.critical /\ ~row.passed /\ ~row.missing
    /\ row.id = id /\ row.path = "" /\ row.operator = operator
    /\ row.expected = x /\ row.observed = y

\* A check of the coordinator's own comes to such a row.
LEMMA OwnRowIs ==
    ASSUME NEW id \in {SchemaId, CompletionId}, NEW operator \in {"schema", "protocol"},
           NEW x \in Values, NEW y \in Values
    PROVE  OwnRow(ProtocolClause(id, operator, x, y), id, operator, x, y)
  BY DEF ProtocolClause, Rows, OwnRow

\* Which of them a result fails: each at most once, under an id of its own.
LEMMA OwnRowsAre ==
    ASSUME NEW result \in Submissions
    PROVE  LET own == OwnRows(result)
           IN /\ own \in Seq(Rows) /\ Len(own) \in Nat
              /\ \A i \in 1 .. Len(own) :
                    /\ own[i].critical /\ ~own[i].passed /\ own[i].id \in {SchemaId, CompletionId}
                    /\ own[i].expected \in Values /\ own[i].observed \in Values
              /\ result.errors = Absent /\ result.completed => own = <<>>
              /\ result.errors # Absent \/ ~result.completed => Len(own) > 0
              /\ \A i, j \in 1 .. Len(own) : own[i].id = own[j].id => i = j
              /\ result.errors # Absent /\ result.completed =>
                    own = <<ProtocolClause(SchemaId, "schema", ContractName, result.errors)>>
  <1> DEFINE own == OwnRows(result)
             schema == ProtocolClause(SchemaId, "schema", ContractName, result.errors)
             completion == ProtocolClause(CompletionId, "protocol", Null, Null)
  <1>1. /\ ContractName \in Values /\ Null \in Values
        /\ result.errors \in Values \cup {Absent} /\ result.completed \in BOOLEAN
    BY ValuesAssumption DEF Submissions
  <1>2. /\ completion \in Rows /\ completion.critical /\ ~completion.passed
        /\ completion.id = CompletionId
        /\ completion.expected \in Values /\ completion.observed \in Values
    <2>1. CompletionId \in {SchemaId, CompletionId} /\ "protocol" \in {"schema", "protocol"}
      OBVIOUS
    <2>2. OwnRow(completion, CompletionId, "protocol", Null, Null)
      BY <1>1, <2>1, OwnRowIs
    <2> QED BY <1>1, <2>2 DEF OwnRow
  <1>3. result.errors # Absent =>
           /\ schema \in Rows /\ schema.critical /\ ~schema.passed /\ schema.id = SchemaId
           /\ schema.expected \in Values /\ schema.observed \in Values
    <2>1. SchemaId \in {SchemaId, CompletionId} /\ "schema" \in {"schema", "protocol"}
      OBVIOUS
    <2>2. result.errors # Absent => result.errors \in Values
      BY <1>1
    <2>3. ASSUME result.errors # Absent
          PROVE  OwnRow(schema, SchemaId, "schema", ContractName, result.errors)
      BY <1>1, <2>1, <2>2, <2>3, OwnRowIs
    <2> QED BY <1>1, <2>2, <2>3 DEF OwnRow
  <1>4. SchemaId # CompletionId
    BY ReservedAssumption
  <1>5. own = (IF result.errors = Absent THEN <<>> ELSE <<schema>>)
              \o (IF result.completed THEN <<>> ELSE <<completion>>)
    BY DEF OwnRows
  <1> HIDE DEF schema, completion, own
  <1>6. CASE result.errors = Absent
    <2>1. CASE result.completed
      <3>1. own = <<>>
        BY <1>5, <1>6, <2>1
      <3> QED BY <1>6, <2>1, <3>1 DEF own
    <2>2. CASE ~result.completed
      <3>1. own = <<completion>>
        BY <1>2, <1>5, <1>6, <2>2
      <3> QED BY <1>2, <1>6, <2>2, <3>1 DEF own
    <2> QED BY <2>1, <2>2
  <1>7. CASE result.errors # Absent
    <2>1. CASE result.completed
      <3>1. own = <<schema>>
        BY <1>3, <1>5, <1>7, <2>1
      <3> QED BY <1>3, <1>7, <2>1, <3>1 DEF own, schema
    <2>2. CASE ~result.completed
      <3>1. own = <<schema>> \o <<completion>>
        BY <1>5, <1>7, <2>2
      <3>2. <<schema>> \in Seq(Rows) /\ <<completion>> \in Seq(Rows)
        BY <1>2, <1>3, <1>7
      <3>3. own \in Seq(Rows) /\ Len(own) = 2 /\ own[1] = schema /\ own[2] = completion
        BY <3>1, <3>2
      <3> HIDE DEF own
      <3>4. \A i \in 1 .. Len(own) : i = 1 \/ i = 2
        BY <3>3
      <3> QED BY <1>2, <1>3, <1>4, <1>7, <2>2, <3>3, <3>4 DEF own
    <2> QED BY <2>1, <2>2
  <1> QED BY <1>6, <1>7

\* The rows of a verdict: those of the coordinator first, then those of the spec.
LEMMA AllRowsAre ==
    ASSUME NEW s \in RawSpecs, ValidSpec(s), NEW result \in Submissions
    PROVE  LET rows == AllRows(s, result)
               own == OwnRows(result)
           IN /\ rows \in Seq(Rows) /\ Len(rows) = Len(own) + Len(s.clauses)
              /\ Len(own) \in Nat /\ Len(s.clauses) \in Nat \ {0}
              /\ result.outputs \in Outputs
              /\ \A i \in 1 .. Len(own) : rows[i] = own[i]
              /\ \A i \in 1 .. Len(s.clauses) :
                    DeclaredRow(s, result.outputs, i, rows[Len(own) + i])
              /\ own = <<>> => rows = DeclaredRows(s, result.outputs)
  <1> DEFINE own == OwnRows(result)
             declared == DeclaredRows(s, result.outputs)
             l == Len(s.clauses)
  <1>1. own \in Seq(Rows) /\ Len(own) \in Nat
    BY OwnRowsAre
  <1>2. result.outputs \in Outputs
    BY DEF Submissions
  <1>3. l \in Nat \ {0} /\ DOMAIN s.clauses = 1 .. l
    BY SpecClauses
  <1>4. \A i \in 1 .. l :
           DeclaredRow(s, result.outputs, i, EvaluateClause(s.clauses[i], result.outputs))
    BY <1>2, DeclaredRowIs
  <1>5. \A i \in 1 .. l : declared[i] = EvaluateClause(s.clauses[i], result.outputs)
    BY <1>3 DEF DeclaredRows
  <1>6. declared \in Seq(Rows) /\ Len(declared) = l
    <2>1. \A i \in 1 .. l : EvaluateClause(s.clauses[i], result.outputs) \in Rows
      BY <1>4 DEF DeclaredRow
    <2>2. declared \in [1 .. l -> Rows]
      BY <1>3, <2>1 DEF DeclaredRows
    <2> QED BY <1>3, <2>2
  <1>7. AllRows(s, result) = own \o declared
    BY DEF AllRows
  <1> HIDE DEF own, declared
  <1> DEFINE rows == own \o declared
  <1>8. /\ rows \in Seq(Rows) /\ Len(rows) = Len(own) + l
        /\ \A i \in 1 .. Len(own) : rows[i] = own[i]
        /\ \A i \in 1 .. l : rows[Len(own) + i] = declared[i]
        /\ own = <<>> => rows = declared
    BY <1>1, <1>3, <1>6
  <1> HIDE DEF rows
  <1> QED BY <1>1, <1>2, <1>3, <1>4, <1>5, <1>7, <1>8 DEF own, declared, rows

\* A part of a range and the rest of it make up the range.
LEMMA RangeSplit ==
    ASSUME NEW n \in Nat, NEW part, part \subseteq 1 .. n
    PROVE  /\ Cardinality(part) \in Nat /\ Cardinality((1 .. n) \ part) \in Nat
           /\ Cardinality(part) + Cardinality((1 .. n) \ part) = n
           /\ Cardinality(part) = 0 => part = {}
  <1> DEFINE rest == (1 .. n) \ part
  <1>1. IsFiniteSet(1 .. n) /\ Cardinality(1 .. n) = n
    <2>1. \A k \in Nat : IsFiniteSet(1 .. k) /\ Cardinality(1 .. k) = k
      BY FS_Interval, SMT
    <2> QED BY <2>1
  <1>2. /\ rest \subseteq 1 .. n /\ part \cap rest = {} /\ part \cup rest = 1 .. n
    OBVIOUS
  <1> HIDE DEF rest
  <1>3. IsFiniteSet(part) /\ IsFiniteSet(rest)
    BY <1>1, <1>2, FS_Subset
  <1>4. Cardinality(part) \in Nat /\ Cardinality(rest) \in Nat
    BY <1>3, FS_CardinalityType
  <1>5. Cardinality({}) = 0 /\ (Cardinality(part) = 0 => part = {})
    BY <1>3, FS_EmptySet
  <1>6. Cardinality(1 .. n) = Cardinality(part) + Cardinality(rest) - Cardinality(part \cap rest)
    BY <1>2, <1>3, FS_Union
  <1> DEFINE p == Cardinality(part)
             r == Cardinality(rest)
  <1>7. p \in Nat /\ r \in Nat /\ n = p + r - 0
    BY <1>1, <1>2, <1>4, <1>5, <1>6
  <1> HIDE DEF p, r
  <1>8. p + r = n
    BY <1>7
  <1> QED BY <1>4, <1>5, <1>8 DEF p, r, rest

\* How many rows are passed: those that are not among the failed ones.
LEMMA PassedCount ==
    ASSUME NEW rows \in Seq(Rows)
    PROVE  /\ Failed(rows) \in Seq(Rows)
           /\ PassedOf(rows) = Cardinality({i \in 1 .. Len(rows) : rows[i].passed})
           /\ PassedOf(rows) \in 0 .. Len(rows) /\ Len(rows) \in Nat
  <1> DEFINE n == Len(rows)
             bad == {i \in DOMAIN rows : ~rows[i].passed}
             good == {i \in 1 .. n : rows[i].passed}
  <1>1. n \in Nat /\ DOMAIN rows = 1 .. n
    OBVIOUS
  <1>2. Failed(rows) = Picked(rows, bad)
    BY DEF Failed
  <1>3. bad \subseteq 1 .. n /\ good = (1 .. n) \ bad
    BY <1>1
  <1> HIDE DEF bad, good
  <1>4. Failed(rows) \in Seq(Rows)
    BY <1>2, PickedType
  <1>5. Len(Failed(rows)) = Cardinality(bad)
    BY <1>2, <1>3, PickedCount
  <1>6. /\ Cardinality(bad) \in Nat /\ Cardinality(good) \in Nat
        /\ Cardinality(bad) + Cardinality(good) = n
    BY <1>1, <1>3, RangeSplit
  <1>7. PassedOf(rows) = n - Cardinality(bad)
    BY <1>5 DEF PassedOf
  <1> HIDE DEF n
  <1>8. PassedOf(rows) = Cardinality(good) /\ Cardinality(good) \in 0 .. n
    BY <1>1, <1>6, <1>7
  <1> QED BY <1>1, <1>4, <1>8 DEF good, n

-----------------------------------------------------------------------------
(* The verdict *)

\* Verdicts, and what is made of them in records.
Traces == [outcome : {"pass", "reject"}, minimum : Int, rate : Nat \X (Nat \ {0}),
           clauses : Seq(Rows), trace : Seq(Rows) \cup {Absent}]

\* v is the verdict on rows with that rate.
Judged(v, rows, rate, minimum) ==
    /\ v.clauses = rows /\ v.rate = rate /\ v.minimum = minimum
    /\ v.outcome = IF Accepted(rows, rate, minimum) THEN "pass" ELSE "reject"
    /\ v.trace = IF Accepted(rows, rate, minimum) THEN Absent ELSE Failed(rows)

\* A verdict is a trace, and that on its rows.
LEMMA VerdictIs ==
    ASSUME NEW rows \in Seq(Rows), NEW a \in Nat, NEW b \in Nat \ {0}, NEW minimum \in Int
    PROVE  LET v == Verdict(rows, <<a, b>>, minimum)
           IN v \in Traces /\ Judged(v, rows, <<a, b>>, minimum)
  <1> DEFINE accepted == Accepted(rows, <<a, b>>, minimum)
             failed == Failed(rows)
             rate == <<a, b>>
  <1>1. failed \in Seq(Rows) /\ rate \in Nat \X (Nat \ {0})
    BY PassedCount
  <1>2. Verdict(rows, rate, minimum)
            = [outcome |-> IF accepted THEN "pass" ELSE "reject", minimum |-> minimum,
               rate |-> rate, clauses |-> rows, trace |-> IF accepted THEN Absent ELSE failed]
    BY DEF Verdict
  <1> DEFINE rates == Nat \X (Nat \ {0})
             v == Verdict(rows, rate, minimum)
  <1> HIDE DEF accepted, failed, rate, rates, v
  <1>3. CASE accepted
    <2>1. v = [outcome |-> "pass", minimum |-> minimum, rate |-> rate, clauses |-> rows,
               trace |-> Absent]
      BY <1>2, <1>3 DEF v
    <2>2. v \in [outcome : {"pass", "reject"}, minimum : Int, rate : rates,
                 clauses : Seq(Rows), trace : Seq(Rows) \cup {Absent}]
      BY <1>1, <2>1 DEF rates
    <2>3. v \in Traces
      BY <2>2 DEF Traces, rates
    <2>4. /\ v.clauses = rows /\ v.rate = rate /\ v.minimum = minimum
          /\ v.outcome = "pass" /\ v.trace = Absent
      BY <2>1
    <2> QED BY <1>3, <2>3, <2>4 DEF Judged, accepted, failed, rate, v
  <1>4. CASE ~accepted
    <2>1. v = [outcome |-> "reject", minimum |-> minimum, rate |-> rate, clauses |-> rows,
               trace |-> failed]
      BY <1>2, <1>4 DEF v
    <2>2. v \in [outcome : {"pass", "reject"}, minimum : Int, rate : rates,
                 clauses : Seq(Rows), trace : Seq(Rows) \cup {Absent}]
      BY <1>1, <2>1 DEF rates
    <2>3. v \in Traces
      BY <2>2 DEF Traces, rates
    <2>4. /\ v.clauses = rows /\ v.rate = rate /\ v.minimum = minimum
          /\ v.outcome = "reject" /\ v.trace = failed
      BY <2>1
    <2> QED BY <1>4, <2>3, <2>4 DEF Judged, accepted, failed, rate, v
  <1> QED BY <1>3, <1>4 DEF v, rate

\* What the gate comes to.
LEMMA EvaluationIs ==
    ASSUME NEW s \in RawSpecs, ValidSpec(s), NEW result \in Submissions
    PROVE  LET v == EvaluateResult(s, result)
               rows == AllRows(s, result)
           IN /\ v \in Traces /\ rows \in Seq(Rows)
              /\ PassedOf(rows) \in 0 .. Len(rows) /\ Len(rows) \in Nat \ {0}
              /\ Judged(v, rows, <<PassedOf(rows), Len(rows)>>, s.minimum)
  <1> DEFINE rows == AllRows(s, result)
  <1>1. EvaluateResult(s, result) = Verdict(rows, <<PassedOf(rows), Len(rows)>>, s.minimum)
    BY DEF EvaluateResult, AllRows, OwnRows, DeclaredRows
  <1>2. rows \in Seq(Rows) /\ Len(rows) \in Nat \ {0}
    BY AllRowsAre
  <1>3. s.minimum \in Int
    <2>1. s.minimum \in 0 .. 100
      BY SpecClauses
    <2> QED BY <2>1
  <1> HIDE DEF rows
  <1>4. PassedOf(rows) \in 0 .. Len(rows) /\ PassedOf(rows) \in Nat
    <2>1. PassedOf(rows) \in 0 .. Len(rows)
      BY <1>2, PassedCount
    <2> QED BY <1>2, <2>1
  <1> DEFINE p == PassedOf(rows)
             l == Len(rows)
  <1> HIDE DEF p, l
  <1>5. p \in Nat /\ l \in Nat \ {0}
    BY <1>2, <1>4 DEF p, l
  <1>6. LET v == Verdict(rows, <<p, l>>, s.minimum)
        IN v \in Traces /\ Judged(v, rows, <<p, l>>, s.minimum)
    BY <1>2, <1>3, <1>5, VerdictIs
  <1> QED BY <1>1, <1>2, <1>4, <1>6 DEF p, l, rows

\* What a pass asks of the clauses of a spec.
Contract(s, clear) ==
    /\ \A i \in DOMAIN s.clauses : s.clauses[i].critical => i \in clear
    /\ Cardinality(clear) * 100 >= s.minimum * Len(s.clauses)

\* A pass means that the result is completed and fits the schema, and that its
\* clauses are as the spec asks.
LEMMA PassIsContract ==
    ASSUME NEW s \in RawSpecs, ValidSpec(s), NEW result \in Submissions
    PROVE  EvaluateResult(s, result).outcome = "pass" <=>
              /\ result.completed /\ result.errors = Absent
              /\ Contract(s, {i \in DOMAIN s.clauses : Clears(s, result.outputs, i)})
  <1> DEFINE rows == AllRows(s, result)
             own == OwnRows(result)
             n == Len(s.clauses)
             clear == {i \in DOMAIN s.clauses : Clears(s, result.outputs, i)}
             v == EvaluateResult(s, result)
  <1>1. /\ v.rate = <<PassedOf(rows), Len(rows)>> /\ rows \in Seq(Rows)
        /\ v.outcome = IF Accepted(rows, v.rate, s.minimum) THEN "pass" ELSE "reject"
    BY EvaluationIs DEF Judged
  <1>2. v.outcome = "pass" <=>
            ~CriticalFailed(rows) /\ PassedOf(rows) * 100 >= s.minimum * Len(rows)
    BY <1>1 DEF Accepted
  <1>3. /\ Len(rows) = Len(own) + n /\ Len(own) \in Nat /\ n \in Nat \ {0}
        /\ \A i \in 1 .. Len(own) : rows[i] = own[i]
        /\ \A i \in 1 .. n : DeclaredRow(s, result.outputs, i, rows[Len(own) + i])
    BY AllRowsAre
  <1>4. DOMAIN s.clauses = 1 .. n /\ \A i \in 1 .. n : s.clauses[i].critical \in BOOLEAN
    BY SpecClauses
  <1>5. result.completed \in BOOLEAN
    BY DEF Submissions
  <1>6. DOMAIN rows = 1 .. Len(rows)
    BY <1>1
  <1>7. CASE result.errors # Absent \/ ~result.completed
    <2>1. Len(own) > 0 /\ own[1].critical /\ ~own[1].passed
      BY <1>3, <1>7, OwnRowsAre
    <2>2. 1 \in DOMAIN rows /\ rows[1] = own[1]
      BY <1>3, <1>6, <2>1
    <2>3. CriticalFailed(rows)
      BY <2>1, <2>2 DEF CriticalFailed
    <2> QED BY <1>2, <1>7, <2>3
  <1>8. CASE result.errors = Absent /\ result.completed
    <2>1. own = <<>>
      BY <1>8, OwnRowsAre
    <2>2. Len(own) = 0 /\ Len(rows) = n
      BY <1>3, <2>1
    <2> HIDE DEF rows, own
    <2>3. \A i \in 1 .. n : DeclaredRow(s, result.outputs, i, rows[i])
      BY <1>3, <2>2
    <2>4. \A i \in 1 .. n : /\ rows[i].critical = s.clauses[i].critical
                            /\ rows[i].passed <=> Clears(s, result.outputs, i)
      BY <2>3 DEF DeclaredRow
    <2>5. {i \in 1 .. Len(rows) : rows[i].passed} = clear
      BY <1>4, <2>2, <2>4
    <2>6. PassedOf(rows) = Cardinality(clear)
      BY <1>1, <2>5, PassedCount
    <2>7. ~CriticalFailed(rows) <=> \A i \in DOMAIN s.clauses : s.clauses[i].critical => i \in clear
      BY <1>4, <1>6, <2>2, <2>4 DEF CriticalFailed
    <2> QED BY <1>2, <1>8, <2>2, <2>6, <2>7 DEF Contract
  <1> QED BY <1>5, <1>7, <1>8

-----------------------------------------------------------------------------
(* Shortening *)

-----------------------------------------------------------------------------
(* The trace *)

\* What rows before the i-th hold, and the rows as the record keeps them.
Before(rows, i) == UNION {{rows[k].expected, rows[k].observed} : k \in 1 .. i - 1}
ShortRow(rows, i) ==
    [rows[i] EXCEPT !.expected = Shortened(@, Before(rows, i)),
                    !.observed = Shortened(@, Before(rows, i) \cup {rows[i].expected})]
ShortRows(rows) == [i \in DOMAIN rows |-> ShortRow(rows, i)]

\* Rows that are not shortened yet, each with an id of its own.
Plain(rows) ==
    /\ rows \in Seq(Rows)
    /\ \A i \in 1 .. Len(rows) : rows[i].expected \in Values /\ rows[i].observed \in Values
    /\ \A i, j \in 1 .. Len(rows) : rows[i].id = rows[j].id => i = j

\* A digest is no value, and that of one value only.
LEMMA DigestsApart ==
    /\ \A v, w \in Values : v # Digest(w) /\ (Digest(v) = Digest(w) => v = w)
    /\ \A v, w \in Values : v.text = w.text => v = w
  <1>1. \A v, w \in Values : (v.text = w.text => v = w) /\ v # [digest |-> w.text]
    BY ValuesAssumption
  <1>2. \A x, y : [digest |-> x] = [digest |-> y] => x = y
    <2> SUFFICES ASSUME NEW x, NEW y, [digest |-> x] = [digest |-> y] PROVE x = y
      OBVIOUS
    <2>1. [digest |-> x].digest = [digest |-> y].digest
      OBVIOUS
    <2> QED BY <2>1
  <1> QED BY <1>1, <1>2 DEF Digest

\* A value is kept or becomes its digest.
LEMMA ShortenedIs ==
    ASSUME NEW v \in Values, NEW before
    PROVE  /\ Shortened(v, before) \in {v, Digest(v)}
           /\ Shortened(v, before) = v \/ v.large \/ \E w \in before : w.text = v.text
           /\ Shortened(v, before) \in Values \cup {Digest(w) : w \in Values}
  <1>1. v.large \in BOOLEAN
    BY ValuesAssumption
  <1> QED BY <1>1 DEF Shortened

\* A shortened row is the row but for its values.
SameRow(q, row) ==
    /\ q.id = row.id /\ q.path = row.path /\ q.operator = row.operator
    /\ q.critical = row.critical /\ q.passed = row.passed /\ q.missing = row.missing

\* A row shortened is a row, the same but for its two values.
LEMMA ShortRowIs ==
    ASSUME NEW rows, Plain(rows), NEW i \in 1 .. Len(rows)
    PROVE  LET q == ShortRow(rows, i) IN
           /\ q \in Rows /\ SameRow(q, rows[i])
           /\ q.expected = Shortened(rows[i].expected, Before(rows, i))
           /\ q.observed = Shortened(rows[i].observed, Before(rows, i) \cup {rows[i].expected})
  <1> DEFINE row == rows[i]
             x == Shortened(row.expected, Before(rows, i))
             y == Shortened(row.observed, Before(rows, i) \cup {row.expected})
             values == Values \cup {Digest(w) : w \in Values}
  <1>1. row \in Rows /\ row.expected \in Values /\ row.observed \in Values
    BY DEF Plain
  <1>2. x \in values /\ y \in values
    BY <1>1, ShortenedIs
  <1>3. ShortRow(rows, i) = [row EXCEPT !.expected = x, !.observed = y]
    BY DEF ShortRow
  <1> DEFINE ids == Ids
             paths == Paths \cup {""}
             operators == Operators \cup {"schema", "protocol"}
  <1>4. Rows = [id : ids, path : paths, operator : operators, critical : BOOLEAN,
                 passed : BOOLEAN, missing : BOOLEAN, expected : values, observed : values]
    BY DEF Rows, Ids
  <1> HIDE DEF row, x, y, values, ids, paths, operators
  <1>5. [row EXCEPT !.expected = x, !.observed = y] \in Rows
    BY <1>1, <1>2, <1>4
  <1>6. LET q == [row EXCEPT !.expected = x, !.observed = y]
        IN SameRow(q, row) /\ q.expected = x /\ q.observed = y
    BY <1>1, <1>4 DEF SameRow
  <1> QED BY <1>3, <1>5, <1>6 DEF row, x, y

\* All of them are.
LEMMA ShortRowsAre ==
    ASSUME NEW rows, Plain(rows)
    PROVE  LET short == ShortRows(rows) IN
           /\ short \in Seq(Rows) /\ Len(short) = Len(rows) /\ Len(rows) \in Nat
           /\ \A i \in 1 .. Len(rows) : short[i] = ShortRow(rows, i) /\ SameRow(short[i], rows[i])
  <1>1. rows \in Seq(Rows) /\ Len(rows) \in Nat /\ DOMAIN rows = 1 .. Len(rows)
    BY DEF Plain
  <1>2. \A i \in 1 .. Len(rows) : ShortRow(rows, i) \in Rows /\ SameRow(ShortRow(rows, i), rows[i])
    BY ShortRowIs
  <1>3. ShortRows(rows) = [i \in 1 .. Len(rows) |-> ShortRow(rows, i)]
    BY <1>1 DEF ShortRows
  <1>4. ShortRows(rows) \in [1 .. Len(rows) -> Rows]
    BY <1>2, <1>3
  <1>5. ShortRows(rows) \in Seq(Rows) /\ Len(ShortRows(rows)) = Len(rows)
    BY <1>1, <1>4
  <1> QED BY <1>1, <1>2, <1>3, <1>5

\* What the first rows hold is large or kept.
LEMMA BeforeKept ==
    ASSUME NEW rows, Plain(rows), NEW kept,
           \A i \in 1 .. Len(rows) :
              ShortRow(rows, i).expected \in kept /\ ShortRow(rows, i).observed \in kept
    PROVE  \A i \in 1 .. Len(rows) :
              /\ rows[i].expected.large \/ rows[i].expected \in kept
              /\ rows[i].observed.large \/ rows[i].observed \in kept
  <1>1. rows \in Seq(Rows) /\ Len(rows) \in Nat /\ DOMAIN rows = 1 .. Len(rows)
    BY DEF Plain
  <1> DEFINE Fine(w) == w.large \/ w \in kept
             FineAt(i) == Fine(rows[i].expected) /\ Fine(rows[i].observed)
             T == {n \in Nat : \A i \in 1 .. n : i <= Len(rows) => FineAt(i)}
  <1>2. 0 \in T
    OBVIOUS
  <1>3. ASSUME NEW n \in T PROVE n + 1 \in T
    <2> SUFFICES ASSUME n + 1 \in 1 .. Len(rows) PROVE FineAt(n + 1)
      <3>1. \A i \in 1 .. n + 1 : i \in 1 .. n \/ i = n + 1
        OBVIOUS
      <3> QED BY <1>1, <3>1
    <2> DEFINE x == rows[n + 1].expected
               y == rows[n + 1].observed
               q == ShortRow(rows, n + 1)
               before == Before(rows, n + 1)
    <2>1. /\ q.expected = Shortened(x, before) /\ q.observed = Shortened(y, before \cup {x})
          /\ q.expected \in kept /\ q.observed \in kept
      BY ShortRowIs
    <2>2. x \in Values /\ y \in Values
      BY DEF Plain
    <2>3. \A w \in before : w \in Values /\ Fine(w)
      <3> SUFFICES ASSUME NEW w \in before PROVE w \in Values /\ Fine(w)
        OBVIOUS
      <3>1. PICK k \in 1 .. (n + 1) - 1 : w \in {rows[k].expected, rows[k].observed}
        BY DEF Before
      <3>2. k \in 1 .. n /\ k \in 1 .. Len(rows)
        BY <1>1
      <3>3. FineAt(k)
        BY <3>2
      <3> QED BY <3>1, <3>2, <3>3 DEF Plain
    <2> HIDE DEF x, y, q, before, Fine
    <2>4. Fine(x)
      <3>1. Shortened(x, before) = x \/ x.large \/ \E w \in before : w.text = x.text
        BY <2>2, ShortenedIs
      <3>2. ASSUME NEW w \in before, w.text = x.text PROVE Fine(x)
        BY <2>2, <2>3, <3>2, DigestsApart
      <3> QED BY <2>1, <3>1, <3>2 DEF Fine
    <2>5. Fine(y)
      <3>1. \/ Shortened(y, before \cup {x}) = y \/ y.large
            \/ \E w \in before \cup {x} : w.text = y.text
        BY <2>2, ShortenedIs
      <3>2. ASSUME NEW w \in before \cup {x}, w.text = y.text PROVE Fine(y)
        BY <2>2, <2>3, <2>4, <3>2, DigestsApart
      <3> QED BY <2>1, <3>1, <3>2 DEF Fine
    <2> QED BY <2>4, <2>5 DEF x, y
  <1> HIDE DEF T
  <1>4. T = Nat
    BY <1>2, <1>3, AllNaturals DEF T
  <1>5. Len(rows) \in T
    BY <1>1, <1>4
  <1> QED BY <1>1, <1>5 DEF T

\* Shortened rows keep their evidence.
LEMMA ShortKeepsEvidence ==
    ASSUME NEW rows, Plain(rows), NEW v, v.clauses = ShortRows(rows)
    PROVE  EvidenceKept(v)
  <1> DEFINE short == ShortRows(rows)
             kept == UNION {{row.expected, row.observed} : row \in Range(v.clauses)}
  <1>1. /\ short \in Seq(Rows) /\ Len(short) = Len(rows) /\ Len(rows) \in Nat
        /\ \A i \in 1 .. Len(rows) : short[i] = ShortRow(rows, i)
    BY ShortRowsAre
  <1>2. Range(v.clauses) = {short[i] : i \in 1 .. Len(rows)}
    BY <1>1 DEF Range
  <1> HIDE DEF short
  <1>3. \A i \in 1 .. Len(rows) :
           ShortRow(rows, i).expected \in kept /\ ShortRow(rows, i).observed \in kept
    BY <1>1, <1>2
  <1>4. ASSUME NEW x \in kept
        PROVE  \E i \in 1 .. Len(rows) :
                  x = ShortRow(rows, i).expected \/ x = ShortRow(rows, i).observed
    BY <1>1, <1>2
  <1> HIDE DEF kept
  <1>5. \A i \in 1 .. Len(rows) :
              /\ rows[i].expected.large \/ rows[i].expected \in kept
              /\ rows[i].observed.large \/ rows[i].observed \in kept
    BY <1>3, BeforeKept, Zenon
  <1>6. ASSUME NEW w \in Values, Digest(w) \in kept PROVE w.large \/ w \in kept
    <2>1. PICK i \in 1 .. Len(rows) :
              Digest(w) = ShortRow(rows, i).expected \/ Digest(w) = ShortRow(rows, i).observed
      BY <1>4, <1>6
    <2> DEFINE x == rows[i].expected
               y == rows[i].observed
    <2>2. x \in Values /\ y \in Values
      BY DEF Plain
    <2>3. /\ ShortRow(rows, i).expected \in {x, Digest(x)}
          /\ ShortRow(rows, i).observed \in {y, Digest(y)}
      <3>1. /\ ShortRow(rows, i).expected = Shortened(x, Before(rows, i))
            /\ ShortRow(rows, i).observed = Shortened(y, Before(rows, i) \cup {x})
        BY ShortRowIs
      <3> QED BY <2>2, <3>1, ShortenedIs
    <2>4. Digest(w) \in {x, Digest(x), y, Digest(y)}
      BY <2>1, <2>3
    <2>5. w = x \/ w = y
      BY <2>2, <2>4, DigestsApart
    <2> QED BY <1>5, <2>5
  <1> QED BY <1>6 DEF EvidenceKept, kept

\* Rows shortened fail as they failed.
LEMMA ShortFails ==
    ASSUME NEW rows, Plain(rows)
    PROVE  LET short == ShortRows(rows)
               bad == {i \in 1 .. Len(rows) : ~rows[i].passed}
           IN /\ Failed(rows) = Picked(rows, bad) /\ Failed(short) = Picked(short, bad)
              /\ PickedAlike(Failed(rows), Failed(short), rows, short, bad, Len(rows))
              /\ PassedOf(short) = PassedOf(rows)
              /\ \A rate, minimum : Accepted(short, rate, minimum) <=> Accepted(rows, rate, minimum)
  <1> DEFINE short == ShortRows(rows)
             bad == {i \in 1 .. Len(rows) : ~rows[i].passed}
  <1>1. /\ short \in Seq(Rows) /\ Len(short) = Len(rows) /\ Len(rows) \in Nat
        /\ \A i \in 1 .. Len(rows) : SameRow(short[i], rows[i])
    BY ShortRowsAre
  <1>2. rows \in Seq(Rows) /\ DOMAIN rows = 1 .. Len(rows) /\ DOMAIN short = 1 .. Len(rows)
    BY <1>1 DEF Plain
  <1>3. \A i \in 1 .. Len(rows) :
           short[i].passed = rows[i].passed /\ short[i].critical = rows[i].critical
    BY <1>1 DEF SameRow
  <1> HIDE DEF short
  <1>4. {i \in DOMAIN rows : ~rows[i].passed} = bad /\ {i \in DOMAIN short : ~short[i].passed} = bad
    BY <1>2, <1>3
  <1> HIDE DEF bad
  <1>5. Failed(rows) = Picked(rows, bad) /\ Failed(short) = Picked(short, bad)
    BY <1>4 DEF Failed
  <1>6. PickedAlike(Picked(rows, bad), Picked(short, bad), rows, short, bad, Len(rows))
    BY <1>1, <1>2, PickedTogether
  <1>7. Len(Failed(rows)) = Len(Failed(short))
    BY <1>5, <1>6 DEF PickedAlike
  <1>8. PassedOf(short) = PassedOf(rows)
    BY <1>1, <1>7 DEF PassedOf
  <1>9. CriticalFailed(short) <=> CriticalFailed(rows)
    BY <1>2, <1>3 DEF CriticalFailed
  <1> QED BY <1>5, <1>6, <1>8, <1>9 DEF Accepted, short, bad

\* The violations of a shortened verdict are its failed rows.
LEMMA TraceIsFailed ==
    ASSUME NEW v, Plain(v.clauses), v.trace = Failed(v.clauses)
    PROVE  TraceOf(v, ShortRows(v.clauses)) = Failed(ShortRows(v.clauses))
  <1> DEFINE rows == v.clauses
             short == ShortRows(rows)
             bad == {i \in 1 .. Len(rows) : ~rows[i].passed}
             f == Failed(rows)
             g == Failed(short)
             found(j) == {k \in DOMAIN short : short[k].id = f[j].id /\ ~short[k].passed}
  <1>1. /\ short \in Seq(Rows) /\ Len(short) = Len(rows) /\ Len(rows) \in Nat
        /\ \A i \in 1 .. Len(rows) : SameRow(short[i], rows[i])
    BY ShortRowsAre
  <1>2. PickedAlike(f, g, rows, short, bad, Len(rows))
    BY ShortFails
  <1>3. f \in Seq(Rows) /\ g \in Seq(Rows)
    BY <1>1, PassedCount DEF Plain
  <1>4. DOMAIN f = 1 .. Len(f) /\ Len(f) = Len(g) /\ DOMAIN g = 1 .. Len(f)
    BY <1>2, <1>3 DEF PickedAlike
  <1>5. ASSUME NEW j \in 1 .. Len(f) PROVE short[Max(found(j))] = g[j]
    <2>1. PICK i \in 1 .. Len(rows) : i \in bad /\ f[j] = rows[i] /\ g[j] = short[i]
      BY <1>2 DEF PickedAlike
    <2>2. DOMAIN short = 1 .. Len(rows) /\ DOMAIN rows = 1 .. Len(rows)
      BY <1>1 DEF Plain
    <2>3. \A k \in 1 .. Len(rows) : short[k].id = rows[k].id /\ short[k].passed = rows[k].passed
      BY <1>1 DEF SameRow
    <2>4. \A k \in 1 .. Len(rows) : rows[k].id = rows[i].id => k = i
      BY <2>1 DEF Plain
    <2> HIDE DEF rows, short, f, g
    <2>5. found(j) = {i}
      BY <2>1, <2>2, <2>3, <2>4
    <2>6. Max({i}) = i
      BY DEF Max
    <2> QED BY <2>1, <2>5, <2>6
  <1>6. TraceOf(v, short) = [j \in DOMAIN f |-> short[Max(found(j))]]
    BY DEF TraceOf
  <1> HIDE DEF f, g, found, short
  <1>7. TraceOf(v, short) = [j \in 1 .. Len(f) |-> g[j]]
    BY <1>4, <1>5, <1>6
  <1>8. g = [j \in 1 .. Len(f) |-> g[j]]
    BY <1>3, <1>4
  <1> QED BY <1>7, <1>8 DEF g, short

\* A verdict is on its rows, which are not shortened, with the rate of them.
Fresh(v) ==
    /\ v \in Traces /\ Plain(v.clauses) /\ v.clauses # <<>> /\ v.minimum \in 0 .. 100
    /\ Judged(v, v.clauses, <<PassedOf(v.clauses), Len(v.clauses)>>, v.minimum)

\* Shortening a verdict shortens its rows, and leaves it the verdict on them.
LEMMA CompactIs ==
    ASSUME NEW v, Fresh(v)
    PROVE  LET c == CompactVerification(v)
               short == ShortRows(v.clauses)
           IN c \in Traces /\ Judged(c, short, <<PassedOf(short), Len(short)>>, v.minimum)
  <1> DEFINE rows == v.clauses
             short == ShortRows(rows)
             trace == IF v.trace = Absent THEN Absent ELSE TraceOf(v, short)
             c == CompactVerification(v)
             rate == v.rate
  <1>1. v \in Traces /\ rate = <<PassedOf(rows), Len(rows)>> /\ rate \in Nat \X (Nat \ {0})
    BY DEF Fresh, Judged, Traces
  <1>2. /\ short \in Seq(Rows) /\ Len(short) = Len(rows) /\ PassedOf(short) = PassedOf(rows)
        /\ Accepted(short, rate, v.minimum) <=> Accepted(rows, rate, v.minimum)
    BY ShortRowsAre, ShortFails DEF Fresh
  <1>3. c = [v EXCEPT !.clauses = short, !.trace = trace]
    BY DEF CompactVerification, ShortRows, ShortRow, Before
  <1>4. /\ v.outcome = IF Accepted(rows, rate, v.minimum) THEN "pass" ELSE "reject"
        /\ v.trace = IF Accepted(rows, rate, v.minimum) THEN Absent ELSE Failed(rows)
    BY <1>1 DEF Fresh, Judged
  <1>5. trace = IF Accepted(rows, rate, v.minimum) THEN Absent ELSE Failed(short)
    <2>1. Failed(rows) # Absent
      BY PassedCount, AbsentAssumption DEF Fresh, Plain
    <2>2. v.trace = Failed(rows) => TraceOf(v, short) = Failed(short)
      BY TraceIsFailed DEF Fresh
    <2> QED BY <1>4, <2>1, <2>2
  <1>6. Failed(short) \in Seq(Rows)
    BY <1>2, PassedCount
  <1>7. trace \in Seq(Rows) \cup {Absent}
    BY <1>5, <1>6
  <1> DEFINE rates == Nat \X (Nat \ {0})
  <1>8. Traces = [outcome : {"pass", "reject"}, minimum : Int, rate : rates,
                  clauses : Seq(Rows), trace : Seq(Rows) \cup {Absent}]
    BY DEF Traces
  <1> HIDE DEF rows, short, trace, c, rates
  <1>9. /\ c \in Traces /\ c.clauses = short /\ c.trace = trace /\ c.outcome = v.outcome
        /\ c.minimum = v.minimum /\ c.rate = v.rate
    BY <1>1, <1>2, <1>3, <1>7, <1>8
  <1> QED BY <1>1, <1>2, <1>4, <1>5, <1>9 DEF Judged, c, short, rows

-----------------------------------------------------------------------------
(* The audits *)

\* A verdict of the gate is on rows of its own.
LEMMA EvaluationFresh ==
    ASSUME NEW s \in RawSpecs, ValidSpec(s), NEW result \in Submissions
    PROVE  /\ Fresh(EvaluateResult(s, result)) /\ EvaluateResult(s, result).minimum = s.minimum
           /\ EvaluateResult(s, result).clauses = AllRows(s, result)
  <1> DEFINE rows == AllRows(s, result)
             own == OwnRows(result)
             n == Len(own)
             l == Len(s.clauses)
             v == EvaluateResult(s, result)
  <1>1. /\ v \in Traces /\ rows \in Seq(Rows) /\ Len(rows) \in Nat \ {0}
        /\ Judged(v, rows, <<PassedOf(rows), Len(rows)>>, s.minimum)
    BY EvaluationIs
  <1>2. v.clauses = rows /\ v.minimum = s.minimum /\ s.minimum \in 0 .. 100
    BY <1>1, SpecClauses DEF Judged
  <1>3. /\ Len(rows) = n + l /\ n \in Nat /\ l \in Nat \ {0}
        /\ \A i \in 1 .. n : rows[i] = own[i]
        /\ \A i \in 1 .. l : DeclaredRow(s, result.outputs, i, rows[n + i])
    BY AllRowsAre
  <1>4. /\ \A i \in 1 .. n : /\ own[i].id \in {SchemaId, CompletionId}
                             /\ own[i].expected \in Values /\ own[i].observed \in Values
        /\ \A i, j \in 1 .. n : own[i].id = own[j].id => i = j
    BY OwnRowsAre
  <1>5. \A i \in 1 .. l : /\ rows[n + i].id = s.clauses[i].id
                          /\ rows[n + i].expected \in Values /\ rows[n + i].observed \in Values
    BY <1>3 DEF DeclaredRow
  <1>6. /\ \A i \in 1 .. l : s.clauses[i].id \notin {SchemaId, CompletionId}
        /\ \A i, j \in 1 .. l : s.clauses[i].id = s.clauses[j].id => i = j
    BY SpecClauses, ReservedAssumption
  <1> HIDE DEF rows, own, n, l, v
  <1>7. \A i \in 1 .. Len(rows) : i \in 1 .. n \/ (i - n \in 1 .. l /\ n + (i - n) = i)
    BY <1>3
  <1>8. \A i \in 1 .. Len(rows) : rows[i].expected \in Values /\ rows[i].observed \in Values
    BY <1>3, <1>4, <1>5, <1>7
  <1>9. ASSUME NEW i \in 1 .. Len(rows), NEW j \in 1 .. Len(rows), rows[i].id = rows[j].id
        PROVE  i = j
    <2>1. CASE i \in 1 .. n /\ j \in 1 .. n
      BY <1>3, <1>4, <1>9, <2>1
    <2>2. CASE i \notin 1 .. n /\ j \notin 1 .. n
      <3> DEFINE a == i - n
                 b == j - n
      <3>1. a \in 1 .. l /\ n + a = i /\ b \in 1 .. l /\ n + b = j
        BY <1>7, <2>2
      <3> HIDE DEF a, b
      <3>2. s.clauses[a].id = s.clauses[b].id
        BY <1>5, <1>9, <3>1
      <3>3. a = b
        BY <1>6, <3>1, <3>2
      <3> QED BY <3>1, <3>3
    <2>3. ASSUME NEW x \in 1 .. n, NEW y \in 1 .. Len(rows), y \notin 1 .. n
          PROVE  rows[x].id # rows[y].id
      <3> DEFINE b == y - n
      <3>1. b \in 1 .. l /\ n + b = y
        BY <1>7, <2>3
      <3> HIDE DEF b
      <3>2. rows[y].id = s.clauses[b].id /\ rows[x].id \in {SchemaId, CompletionId}
        BY <1>3, <1>4, <1>5, <3>1
      <3> QED BY <1>6, <3>1, <3>2
    <2> QED BY <1>9, <2>1, <2>2, <2>3
  <1>10. rows # <<>>
    BY <1>1
  <1> QED BY <1>1, <1>2, <1>8, <1>9, <1>10 DEF Fresh, Plain, rows, v

\* The shortened trace of a verdict is well formed.
LEMMA CompactWellFormed ==
    ASSUME NEW v, Fresh(v)
    PROVE  WellFormed(CompactVerification(v))
  <1> DEFINE c == CompactVerification(v)
             rows == v.clauses
             short == ShortRows(rows)
             p == PassedOf(short)
             l == Len(short)
             m == v.minimum
  <1>1. c \in Traces /\ Judged(c, short, <<p, l>>, m)
    BY CompactIs
  <1>2. /\ Plain(rows) /\ rows # <<>> /\ m \in 0 .. 100
    BY DEF Fresh
  <1>3. /\ short \in Seq(Rows) /\ l = Len(rows) /\ l \in Nat
        /\ \A i \in 1 .. l : short[i].id = rows[i].id
    BY <1>2, ShortRowsAre DEF SameRow
  <1>4. rows \in Seq(Rows) /\ \A i, j \in 1 .. Len(rows) : rows[i].id = rows[j].id => i = j
    BY <1>2 DEF Plain
  <1> HIDE DEF c, short, rows
  <1>5. l \in Nat \ {0} /\ short # <<>> /\ DOMAIN short = 1 .. l
    BY <1>2, <1>3, <1>4
  <1>6. \A i, j \in DOMAIN short : short[i].id = short[j].id => i = j
    BY <1>3, <1>4, <1>5
  <1>7. /\ p \in 0 .. l /\ Failed(short) \in Seq(Rows) /\ p = l - Len(Failed(short))
    BY <1>3, PassedCount DEF PassedOf
  <1>8. /\ c.clauses = short /\ c.rate = <<p, l>> /\ c.minimum = m
        /\ c.outcome = IF Accepted(short, <<p, l>>, m) THEN "pass" ELSE "reject"
        /\ c.trace = IF Accepted(short, <<p, l>>, m) THEN Absent ELSE Failed(short)
    BY <1>1 DEF Judged
  <1>9. Accepted(short, <<p, l>>, m) <=> ~CriticalFailed(short) /\ p * 100 >= m * l
    BY DEF Accepted
  <1>10. ~Accepted(short, <<p, l>>, m) => Failed(short) # <<>>
    <2> SUFFICES ASSUME Failed(short) = <<>> PROVE Accepted(short, <<p, l>>, m)
      OBVIOUS
    <2>1. p = l
      BY <1>5, <1>7
    <2>2. p * 100 >= m * l
      <3>1. \A x \in Nat : \A y \in 0 .. 100 : x * 100 >= y * x
        OBVIOUS
      <3> QED BY <1>2, <1>5, <2>1, <3>1
    <2>3. ~CriticalFailed(short)
      <3>1. \A i \in 1 .. l : short[i].passed
        <4> DEFINE bad == {i \in DOMAIN short : ~short[i].passed}
        <4>1. bad \subseteq 1 .. Len(short)
          BY <1>5
        <4>2. Cardinality(bad) = Len(Picked(short, bad))
          BY <1>3, <4>1, PickedCount
        <4>3. Cardinality(bad) = 0
          BY <4>2 DEF Failed
        <4>4. bad = {}
          BY <1>5, <4>1, <4>3, RangeSplit
        <4> QED BY <1>5, <4>4
      <3> QED BY <1>5, <3>1 DEF CriticalFailed
    <2> QED BY <1>9, <2>2, <2>3
  <1> HIDE DEF p, l, m
  <1>11. c.rate[1] = p /\ c.rate[2] = l
    BY <1>8
  <1>12. c.rate[1] * Len(c.clauses) = PassedOf(c.clauses) * c.rate[2]
    BY <1>8, <1>11 DEF p, l
  <1>13. c.outcome = IF Accepted(c.clauses, c.rate, c.minimum) THEN "pass" ELSE "reject"
    BY <1>8
  <1>14. c.outcome = "pass" => c.trace = Absent /\ ~CriticalFailed(c.clauses)
    BY <1>8, <1>9
  <1>15. c.outcome = "reject" => c.trace # <<>> /\ c.trace = Failed(c.clauses)
    BY <1>8, <1>10
  <1> QED BY <1>5, <1>6, <1>8, <1>12, <1>13, <1>14, <1>15 DEF WellFormed, c

\* A row is that of a clause.
RowFits(row, c) ==
    /\ row.id = c.id /\ row.path = c.path /\ row.operator = c.operator
    /\ row.critical = c.critical
    /\ MatchesValue(row.expected, OrNull(c.expected, Absent))

\* What the audit takes for the coordinator's own rows, and for those of the spec.
OwnOf(v) == Picked(v.clauses, {i \in DOMAIN v.clauses : v.clauses[i].id \in Reserved})
DeclaredOf(v) == SubSeq(v.clauses, Len(OwnOf(v)) + 1, Len(v.clauses))

\* The audit without the output, clause by clause.
LEMMA AuditIs ==
    ASSUME NEW v, NEW s
    PROVE  AuditedDigestOnly(v, s) <=>
              /\ WellFormed(v) /\ v.minimum = s.minimum
              /\ OwnOf(v) = <<>> \/ (Len(OwnOf(v)) = 1 /\ SchemaClauseFits(v.clauses[1]))
              /\ Len(DeclaredOf(v)) = Len(s.clauses)
              /\ \A i \in DOMAIN DeclaredOf(v) : RowFits(DeclaredOf(v)[i], s.clauses[i])
  BY Zenon DEF AuditedDigestOnly, OwnOf, DeclaredOf, RowFits

\* The audit without the output finds the clauses of the spec after those of the
\* coordinator, of which a completed result has the schema's at most.
LEMMA CompactAudited ==
    ASSUME NEW s \in RawSpecs, ValidSpec(s), NEW result \in Submissions, result.completed
    PROVE  AuditedDigestOnly(CompactVerification(EvaluateResult(s, result)), s)
  <1> DEFINE v == EvaluateResult(s, result)
             c == CompactVerification(v)
             rows == AllRows(s, result)
             short == ShortRows(rows)
             own == OwnRows(result)
             n == Len(own)
             l == Len(s.clauses)
             first == {i \in DOMAIN short : short[i].id \in Reserved}
  <1>1. Fresh(v) /\ v.minimum = s.minimum /\ v.clauses = rows
    BY EvaluationFresh
  <1>2. Plain(rows)
    BY <1>1 DEF Fresh
  <1>3. WellFormed(c) /\ c.clauses = short /\ c.minimum = s.minimum
    BY <1>1, CompactWellFormed, CompactIs DEF Judged
  <1>4. /\ Len(rows) = n + l /\ n \in Nat /\ l \in Nat \ {0}
        /\ \A i \in 1 .. n : rows[i] = own[i]
        /\ \A i \in 1 .. l : DeclaredRow(s, result.outputs, i, rows[n + i])
    BY AllRowsAre
  <1>5. /\ short \in Seq(Rows) /\ Len(short) = n + l
        /\ \A i \in 1 .. n + l : short[i] = ShortRow(rows, i) /\ SameRow(short[i], rows[i])
    BY <1>2, <1>4, ShortRowsAre
  <1>6. \A i \in 1 .. n + l : \E before : short[i].expected = Shortened(rows[i].expected, before)
    <2> TAKE i \in 1 .. n + l
    <2>1. short[i].expected = Shortened(rows[i].expected, Before(rows, i))
      BY <1>2, <1>4, <1>5, ShortRowIs
    <2> QED BY <2>1
  <1>7. /\ \A i \in 1 .. n : own[i].id \in {SchemaId, CompletionId}
        /\ result.errors = Absent => own = <<>>
        /\ result.errors # Absent =>
              own = <<ProtocolClause(SchemaId, "schema", ContractName, result.errors)>>
    BY OwnRowsAre
  <1>8. \A i \in 1 .. l :
           /\ s.clauses[i].id \notin Reserved /\ s.clauses[i].expected \in Values \cup {Absent}
    BY SpecClauses
  <1>9. n \in {0, 1} /\ (n = 1 => result.errors # Absent)
    <2>1. CASE result.errors = Absent
      BY <1>7, <2>1
    <2>2. CASE result.errors # Absent
      BY <1>7, <2>2
    <2> QED BY <2>1, <2>2
  <1> HIDE DEF v, c, rows, short, own, n, l
  <1>10. DOMAIN short = 1 .. n + l /\ first = 1 .. n
    <2>1. DOMAIN short = 1 .. n + l
      BY <1>4, <1>5
    <2>2. \A i \in 1 .. n : i \in 1 .. n + l /\ short[i].id \in Reserved
      BY <1>4, <1>5, <1>7, ReservedAssumption DEF SameRow
    <2>3. ASSUME NEW i \in 1 .. n + l, i \notin 1 .. n PROVE short[i].id \notin Reserved
      <3> DEFINE j == i - n
      <3>1. j \in 1 .. l /\ n + j = i
        BY <1>4, <2>3
      <3> HIDE DEF j
      <3>2. short[i].id = s.clauses[j].id
        BY <1>4, <1>5, <3>1 DEF SameRow, DeclaredRow
      <3> QED BY <1>8, <3>1, <3>2
    <2> QED BY <2>1, <2>2, <2>3
  <1> DEFINE picked == Picked(short, first)
             declared == SubSeq(short, Len(picked) + 1, Len(short))
  <1>11. Len(picked) = n /\ picked \in Seq(Rows)
    <2>1. first \subseteq 1 .. Len(short)
      BY <1>4, <1>5, <1>10
    <2>2. Cardinality(first) = Len(picked) /\ picked \in Seq(Rows)
      BY <1>5, <2>1, PickedCount, PickedType
    <2>3. \A k \in Nat : Cardinality(1 .. k) = k
      BY FS_Interval, SMT
    <2> QED BY <1>4, <1>10, <2>2, <2>3
  <1> HIDE DEF picked, first
  <1>12. /\ Len(declared) = l /\ DOMAIN declared = 1 .. l
         /\ \A i \in 1 .. l : declared[i] = short[n + i]
    <2>1. declared = SubSeq(short, n + 1, n + l)
      BY <1>5, <1>11
    <2> HIDE DEF declared
    <2> QED BY <1>4, <1>5, <2>1
  <1> HIDE DEF declared
  <1>13. ASSUME NEW i \in 1 .. l
         PROVE  RowFits(declared[i], s.clauses[i])
    <2> DEFINE j == n + i
    <2>1. j \in 1 .. n + l
      BY <1>4
    <2>2. DeclaredRow(s, result.outputs, i, rows[j]) /\ SameRow(short[j], rows[j])
      BY <1>4, <1>5, <2>1
    <2>3. declared[i] = short[j]
      BY <1>12
    <2> HIDE DEF j
    <2>4. PICK before : short[j].expected = Shortened(rows[j].expected, before)
      BY <1>6, <2>1
    <2>5. rows[j].expected \in Values /\ rows[j].expected = OrNull(s.clauses[i].expected, Absent)
      BY <2>2 DEF DeclaredRow
    <2>6. short[j].expected \in {rows[j].expected, Digest(rows[j].expected)}
      BY <2>4, <2>5, ShortenedIs
    <2> QED BY <2>2, <2>3, <2>5, <2>6 DEF DeclaredRow, SameRow, MatchesValue, RowFits
  <1>14. ASSUME n = 1 PROVE SchemaClauseFits(short[1])
    <2> DEFINE x == ContractName
               y == result.errors
               row == ProtocolClause(SchemaId, "schema", x, y)
    <2>1. result.errors # Absent /\ rows[1] = own[1]
      BY <1>4, <1>9, <1>14
    <2>2. own = <<row>>
      BY <1>7, <2>1
    <2>3. x \in Values /\ y \in SchemaErrors /\ y \in Values
      BY <2>1, ValuesAssumption DEF Submissions
    <2>4. SchemaId \in {SchemaId, CompletionId} /\ "schema" \in {"schema", "protocol"}
      OBVIOUS
    <2>5. OwnRow(row, SchemaId, "schema", x, y)
      BY <2>3, <2>4, OwnRowIs
    <2> HIDE DEF row
    <2>6. rows[1] = row /\ 1 \in 1 .. Len(rows) /\ 1 \in 1 .. n + l
      BY <1>4, <1>14, <2>1, <2>2
    <2>7. /\ short[1].expected = Shortened(x, Before(rows, 1))
          /\ short[1].observed = Shortened(y, Before(rows, 1) \cup {x})
          /\ SameRow(short[1], row)
      <3>1. rows[1].expected = x /\ rows[1].observed = y
        BY <2>5, <2>6 DEF OwnRow
      <3>2. short[1] = ShortRow(rows, 1) /\ SameRow(short[1], row)
        BY <1>5, <2>6
      <3>3. /\ ShortRow(rows, 1).expected = Shortened(rows[1].expected, Before(rows, 1))
            /\ ShortRow(rows, 1).observed
                  = Shortened(rows[1].observed, Before(rows, 1) \cup {rows[1].expected})
        BY <1>2, <2>6, ShortRowIs
      <3> QED BY <3>1, <3>2, <3>3
    <2> HIDE DEF x, y
    <2>8. short[1].expected \in {x, Digest(x)} /\ short[1].observed \in {y, Digest(y)}
      BY <2>3, <2>7, ShortenedIs
    <2>9. short[1].observed \in SchemaErrors \cup {Digest(w) : w \in Values}
      BY <2>3, <2>8
    <2>10. MatchesValue(short[1].expected, ContractName)
      BY <2>8 DEF MatchesValue, x
    <2>11. /\ short[1].id = SchemaId /\ short[1].path = "" /\ short[1].operator = "schema"
           /\ short[1].critical /\ ~short[1].passed /\ ~short[1].missing
      BY <2>5, <2>7 DEF OwnRow, SameRow
    <2> QED BY <2>9, <2>10, <2>11 DEF SchemaClauseFits
  <1>15. picked = <<>> \/ (Len(picked) = 1 /\ SchemaClauseFits(short[1]))
    BY <1>9, <1>11, <1>14
  <1>16. picked = OwnOf(c)
    BY <1>3 DEF picked, first, OwnOf
  <1>17. declared = DeclaredOf(c)
    BY <1>3, <1>16 DEF declared, DeclaredOf
  <1>18. AuditedDigestOnly(c, s)
    BY <1>3, <1>12, <1>13, <1>15, <1>16, <1>17, AuditIs DEF l
  <1> QED BY <1>18 DEF c, v

\* The shortened trace of a verdict of the gate survives both audits.
LEMMA TraceAudits ==
    ASSUME NEW s \in RawSpecs, ValidSpec(s), NEW result \in Submissions
    PROVE  LET trace == CompactVerification(EvaluateResult(s, result))
           IN /\ EvidenceKept(trace)
              /\ result.completed => AuditedInline(trace, s, result) /\ AuditedDigestOnly(trace, s)
  <1> DEFINE v == EvaluateResult(s, result)
             trace == CompactVerification(v)
  <1>1. Fresh(v)
    BY EvaluationFresh
  <1>2. Plain(v.clauses) /\ trace.clauses = ShortRows(v.clauses)
    BY <1>1, CompactIs DEF Fresh, Judged
  <1>3. WellFormed(trace)
    BY <1>1, CompactWellFormed
  <1>4. EvidenceKept(trace)
    BY <1>2, ShortKeepsEvidence
  <1>5. ASSUME result.completed PROVE AuditedInline(trace, s, result)
    <2>1. [result EXCEPT !.completed = TRUE] = result
      BY <1>5 DEF Submissions
    <2> QED BY <1>3, <2>1 DEF AuditedInline
  <1> QED BY <1>4, <1>5, CompactAudited

\* Rates that are one fraction meet the same minimum.
LEMMA SameFraction ==
    ASSUME NEW a \in Nat, NEW b \in Nat \ {0}, NEW p \in Nat, NEW l \in Nat \ {0}, NEW m \in Int,
           a * l = p * b
    PROVE  a * 100 >= m * b <=> p * 100 >= m * l
  <1>1. \A x, y \in Int : \A k \in Nat \ {0} : x >= y <=> x * k >= y * k
    OBVIOUS
  <1>2. a * 100 >= m * b <=> (a * 100) * l >= (m * b) * l
    BY <1>1
  <1>3. (a * 100) * l = (p * 100) * b /\ (m * b) * l = (m * l) * b
    <2>1. (a * 100) * l = 100 * (a * l) /\ (p * 100) * b = 100 * (p * b)
      OBVIOUS
    <2>2. (m * b) * l = (m * l) * b
      OBVIOUS
    <2> QED BY <2>1, <2>2
  <1>4. p * 100 >= m * l <=> (p * 100) * b >= (m * l) * b
    <2>1. p * 100 \in Int /\ m * l \in Int
      OBVIOUS
    <2> QED BY <1>1, <2>1
  <1> QED BY <1>2, <1>3, <1>4

\* What a record passes on that survives the audit without the output.
Earned(r, s) ==
    LET rows == Picked(r.clauses, {i \in DOMAIN r.clauses : r.clauses[i].id \notin Reserved})
        clear == {i \in DOMAIN s.clauses : rows[i].passed}
    IN r.outcome = "pass" <=> Len(rows) = Len(r.clauses) /\ Contract(s, clear)

\* It is what the spec asks of the flags that the record shows.
LEMMA AuditedIsEarned ==
    ASSUME NEW r \in Traces, NEW s \in RawSpecs, ValidSpec(s), AuditedDigestOnly(r, s)
    PROVE  Earned(r, s)
  <1> DEFINE clauses == r.clauses
             l == Len(clauses)
             a == r.rate[1]
             b == r.rate[2]
             m == r.minimum
             first == {i \in DOMAIN clauses : clauses[i].id \in Reserved}
             others == {i \in DOMAIN clauses : clauses[i].id \notin Reserved}
             rows == Picked(clauses, others)
             clear == {i \in DOMAIN s.clauses : rows[i].passed}
  <1>1. /\ WellFormed(r) /\ r.minimum = s.minimum
        /\ OwnOf(r) = <<>> \/ (Len(OwnOf(r)) = 1 /\ SchemaClauseFits(clauses[1]))
        /\ Len(DeclaredOf(r)) = Len(s.clauses)
        /\ \A i \in DOMAIN DeclaredOf(r) : RowFits(DeclaredOf(r)[i], s.clauses[i])
    BY AuditIs
  <1>2. clauses \in Seq(Rows) /\ r.rate \in Nat \X (Nat \ {0}) /\ m \in Int
    BY DEF Traces
  <1>3. clauses # <<>>
    BY <1>1 DEF WellFormed
  <1>4. l \in Nat \ {0} /\ DOMAIN clauses = 1 .. l
    BY <1>2, <1>3
  <1>5. a \in Nat /\ b \in Nat \ {0}
    BY <1>2
  <1>6. a * l = PassedOf(clauses) * b
    BY <1>1 DEF WellFormed
  <1>7. r.outcome = "pass" <=> ~CriticalFailed(clauses) /\ a * 100 >= m * b
    BY <1>1 DEF WellFormed, Accepted
  <1>8. OwnOf(r) = Picked(clauses, first)
    BY DEF OwnOf
  <1>9. DOMAIN s.clauses = 1 .. Len(s.clauses) /\ Len(s.clauses) \in Nat
    BY SpecClauses
  <1> HIDE DEF a, b
  <1>10. first \subseteq 1 .. l /\ others = (1 .. l) \ first
    BY <1>4
  <1>11. Cardinality(first) = Len(OwnOf(r)) /\ Cardinality(others) = Len(rows)
    <2>1. others \subseteq 1 .. l
      BY <1>10
    <2> QED BY <1>2, <1>8, <1>10, <2>1, PickedCount
  <1>12. /\ Cardinality(first) \in Nat /\ Cardinality(others) \in Nat
         /\ Cardinality(first) + Cardinality(others) = l
         /\ Cardinality(first) = 0 => first = {}
    BY <1>4, <1>10, RangeSplit
  <1> HIDE DEF first, others
  <1>13. CASE Len(OwnOf(r)) = 1 /\ SchemaClauseFits(clauses[1])
    <2>1. Len(rows) = l - 1
      BY <1>4, <1>11, <1>12, <1>13
    <2>2. Len(rows) # Len(clauses)
      BY <1>4, <2>1
    <2>3. clauses[1].critical /\ ~clauses[1].passed
      BY <1>13 DEF SchemaClauseFits
    <2>4. CriticalFailed(clauses)
      BY <1>4, <2>3 DEF CriticalFailed
    <2> QED BY <1>7, <2>2, <2>4 DEF Earned, others
  <1>14. CASE OwnOf(r) = <<>>
    <2>1. first = {} /\ Len(OwnOf(r)) = 0
      BY <1>11, <1>12, <1>14
    <2>2. others = 1 .. l
      BY <1>10, <2>1
    <2>3. rows = clauses
      <3>1. \A i \in 1 .. Len(clauses) : i \in others
        BY <2>2
      <3> QED BY <1>2, <3>1, PickedAll
    <2>4. DeclaredOf(r) = clauses
      <3>1. DeclaredOf(r) = SubSeq(clauses, 1, l)
        BY <2>1 DEF DeclaredOf
      <3> QED BY <1>2, <1>4, <3>1
    <2>5. Len(s.clauses) = l
      BY <1>1, <2>4
    <2>6. \A i \in 1 .. l : clauses[i].critical = s.clauses[i].critical
      BY <1>1, <1>4, <2>4 DEF RowFits
    <2>7. {i \in 1 .. Len(clauses) : clauses[i].passed} = clear
      BY <1>9, <2>3, <2>5
    <2>8. PassedOf(clauses) = Cardinality(clear) /\ PassedOf(clauses) \in 0 .. l
      BY <1>2, <2>7, PassedCount
    <2>9. a * 100 >= m * b <=> PassedOf(clauses) * 100 >= m * l
      <3> DEFINE p == PassedOf(clauses)
                 eq == a * l = p * b
      <3>1. p \in Nat
        BY <1>4, <2>8
      <3>2. eq
        BY <1>6
      <3> HIDE DEF l, m, clauses, p
      <3>3. a * 100 >= m * b <=> p * 100 >= m * l
        BY <1>2, <1>4, <1>5, <3>1, <3>2, SameFraction
      <3> QED BY <3>3 DEF p
    <2>10. ~CriticalFailed(clauses)
              <=> \A i \in DOMAIN s.clauses : s.clauses[i].critical => i \in clear
      BY <1>4, <1>9, <2>3, <2>5, <2>6 DEF CriticalFailed
    <2>11. Contract(s, clear) <=> ~CriticalFailed(clauses) /\ a * 100 >= m * b
      BY <1>1, <2>5, <2>8, <2>9, <2>10 DEF Contract
    <2>12. Len(rows) = Len(r.clauses)
      BY <2>3
    <2> QED BY <1>7, <2>11, <2>12 DEF Earned, others
  <1> QED BY <1>1, <1>13, <1>14

-----------------------------------------------------------------------------
(* The invariant of the gate *)

\* The invariant: the verdict is the gate's on the spec and the submission at
\* hand, and whatever was made of its record, the record has a trace's shape.
GateInv ==
    /\ spec # Absent => spec \in RawSpecs /\ ValidSpec(spec)
    /\ submitted # Absent => submitted \in Submissions
    /\ verdict # Absent => /\ spec # Absent /\ submitted \in Submissions
                           /\ verdict = EvaluateResult(spec, submitted)
    /\ record # Absent => spec # Absent /\ record \in Traces

\* A verdict made anew on some rows is a trace.
LEMMA RebuiltIs ==
    ASSUME NEW rows \in Seq(Rows), NEW m \in Int, Len(Rebuilt(rows, m).clauses) > 0
    PROVE  Rebuilt(rows, m) \in Traces
  <1> DEFINE p == PassedOf(rows)
             l == Len(rows)
  <1>1. Rebuilt(rows, m).clauses = rows
    BY DEF Rebuilt, Verdict
  <1>2. l \in Nat \ {0}
    BY <1>1
  <1>3. p \in Nat
    <2>1. p \in 0 .. l
      BY PassedCount
    <2> QED BY <1>2, <2>1
  <1>4. Rebuilt(rows, m) = Verdict(rows, <<p, l>>, m)
    BY DEF Rebuilt
  <1> HIDE DEF p, l
  <1> QED BY <1>2, <1>3, <1>4, VerdictIs

\* Rows stay rows when a flag of one is turned, or one is dropped.
LEMMA RowsForged ==
    ASSUME NEW rows \in Seq(Rows), NEW i \in DOMAIN rows
    PROVE  /\ [rows EXCEPT ![i].passed = ~@] \in Seq(Rows)
           /\ [rows EXCEPT ![i].critical = ~@] \in Seq(Rows)
           /\ RemoveAt(rows, i) \in Seq(Rows)
  <1>1. rows[i] \in Rows /\ i \in 1 .. Len(rows)
    OBVIOUS
  <1>2. [rows[i] EXCEPT !.passed = ~@] \in Rows /\ [rows[i] EXCEPT !.critical = ~@] \in Rows
    BY <1>1 DEF Rows
  <1>3. \A row \in Rows : [rows EXCEPT ![i] = row] \in Seq(Rows)
    OBVIOUS
  <1>4. /\ [rows EXCEPT ![i].passed = ~@] = [rows EXCEPT ![i] = [rows[i] EXCEPT !.passed = ~@]]
        /\ [rows EXCEPT ![i].critical = ~@]
              = [rows EXCEPT ![i] = [rows[i] EXCEPT !.critical = ~@]]
    OBVIOUS
  <1>5. SubSeq(rows, 1, i - 1) \in Seq(Rows) /\ SubSeq(rows, i + 1, Len(rows)) \in Seq(Rows)
    BY <1>1
  <1>6. RemoveAt(rows, i) \in Seq(Rows)
    BY <1>5 DEF RemoveAt
  <1> QED BY <1>2, <1>3, <1>4, <1>6

\* Whatever is made of a trace, and keeps a clause, is a trace.
LEMMA ForgedIs ==
    ASSUME NEW v \in Traces, NEW how \in Forgeries, NEW w \in Forged(v, how), Len(w.clauses) > 0
    PROVE  w \in Traces
  <1> DEFINE rows == v.clauses
  <1>1. rows \in Seq(Rows) /\ v.minimum \in Int /\ 0 \in Int
    BY DEF Traces
  <1>2. CASE how = "flags"
    <2>1. PICK i \in DOMAIN rows : w = Rebuilt([rows EXCEPT ![i].passed = ~@], v.minimum)
      BY <1>2 DEF Forged
    <2> QED BY <1>1, <2>1, RowsForged, RebuiltIs
  <1>3. CASE how = "critical"
    <2>1. PICK i \in DOMAIN rows : w = Rebuilt([rows EXCEPT ![i].critical = ~@], v.minimum)
      BY <1>3 DEF Forged
    <2> QED BY <1>1, <2>1, RowsForged, RebuiltIs
  <1>4. CASE how = "minimum"
    <2>1. w = Rebuilt(rows, 0)
      BY <1>4 DEF Forged
    <2> QED BY <1>1, <2>1, RebuiltIs
  <1>5. CASE how = "drop"
    <2>1. PICK i \in DOMAIN rows : w = Rebuilt(RemoveAt(rows, i), v.minimum)
      BY <1>5 DEF Forged
    <2> QED BY <1>1, <2>1, RowsForged, RebuiltIs
  <1>6. CASE how = "rate"
    <2>1. w = Verdict(rows, <<1, 1>>, v.minimum)
      BY <1>6 DEF Forged
    <2>2. 1 \in Nat /\ 1 \in Nat \ {0}
      OBVIOUS
    <2> QED BY <1>1, <2>1, <2>2, VerdictIs
  <1>7. CASE how = "outcome"
    <2>1. w \in {[v EXCEPT !.outcome = "pass", !.trace = Absent],
                 [v EXCEPT !.outcome = "reject", !.trace = Failed(rows)]}
      BY <1>7 DEF Forged
    <2>2. Failed(rows) \in Seq(Rows)
      BY <1>1, PassedCount
    <2>3. [v EXCEPT !.outcome = "pass", !.trace = Absent] \in Traces
      BY DEF Traces
    <2>4. [v EXCEPT !.outcome = "reject", !.trace = Failed(rows)] \in Traces
      BY <2>2 DEF Traces
    <2> QED BY <2>1, <2>3, <2>4
  <1> QED BY <1>2, <1>3, <1>4, <1>5, <1>6, <1>7 DEF Forgeries

\* What the invariant says of the properties' pieces.
LEMMA GateInvGives ==
    ASSUME GateInv
    PROVE  GateTypeOK /\ GateIsContract /\ HonestTraceAudits /\ NoUnearnedPass
  <1>1. ASSUME verdict # Absent
        PROVE  /\ spec \in RawSpecs /\ ValidSpec(spec) /\ submitted \in Submissions
               /\ verdict = EvaluateResult(spec, submitted)
    BY <1>1 DEF GateInv
  <1>2. ASSUME record # Absent
        PROVE  spec \in RawSpecs /\ ValidSpec(spec) /\ record \in Traces
    BY <1>2 DEF GateInv
  <1>3. \A v \in Traces : \A row \in Range(v.clauses) : row \in Rows
    BY DEF Traces, Range
  <1>4. verdict # Absent => verdict \in Traces
    BY <1>1, EvaluationIs
  <1>5. GateTypeOK
    BY <1>2, <1>3, <1>4 DEF GateTypeOK, GateInv
  <1>6. GateIsContract
    <2> SUFFICES ASSUME verdict # Absent
                 PROVE  verdict.outcome = "pass" <=>
                           /\ submitted.completed /\ submitted.errors = Absent
                           /\ Contract(spec, {i \in DOMAIN spec.clauses :
                                                 Clears(spec, submitted.outputs, i)})
      BY <1>5 DEF GateIsContract, Contract
    <2> QED BY <1>1, PassIsContract
  <1>7. HonestTraceAudits
    BY <1>1, TraceAudits DEF HonestTraceAudits
  <1>8. NoUnearnedPass
    <2> SUFFICES ASSUME record # Absent, AuditedDigestOnly(record, spec)
                 PROVE  Earned(record, spec)
      BY DEF NoUnearnedPass, Earned, Contract
    <2> QED BY <1>2, AuditedIsEarned
  <1> QED BY <1>5, <1>6, <1>7, <1>8

\* No step breaks the invariant.
LEMMA GateStep ==
    ASSUME GateInv, [GateNext]_gateVars
    PROVE  GateInv'
  <1>1. ASSUME NEW raw \in RawSpecs, AcceptSpec(raw) PROVE GateInv'
    BY <1>1 DEF AcceptSpec, GateInv
  <1>2. ASSUME NEW result \in Submissions, SubmitResult(result) PROVE GateInv'
    BY <1>2 DEF SubmitResult, GateInv
  <1>3. ASSUME Record PROVE GateInv'
    <2>1. spec \in RawSpecs /\ ValidSpec(spec) /\ submitted \in Submissions
      BY <1>3 DEF Record, GateInv
    <2>2. Fresh(verdict)
      BY <1>3, <2>1, EvaluationFresh DEF Record, GateInv
    <2>3. record' \in Traces
      BY <1>3, <2>2, CompactIs DEF Record
    <2> QED BY <1>3, <2>3 DEF Record, GateInv
  <1>4. ASSUME Forge PROVE GateInv'
    <2>1. PICK how \in Forgeries : record' \in Forged(record, how)
      BY <1>4 DEF Forge
    <2>2. record \in Traces /\ spec # Absent
      BY <1>4 DEF Forge, GateInv
    <2>3. record' \in Traces
      BY <1>4, <2>1, <2>2, ForgedIs DEF Forge
    <2> QED BY <1>4, <2>2, <2>3 DEF Forge, GateInv
  <1>5. ASSUME UNCHANGED gateVars PROVE GateInv'
    BY <1>5 DEF gateVars, GateInv
  <1> QED BY <1>1, <1>2, <1>3, <1>4, <1>5 DEF GateNext

\* The gate keeps its invariant: no step of it, and no rewriting, breaks it.
THEOREM GateInvariant == GateSpec => []GateInv
  <1>1. GateInit => GateInv
    BY DEF GateInit, GateInv
  <1> QED BY <1>1, GateStep, PTL DEF GateSpec

\* An incomplete result, or one that breaks the schema or fails a critical
\* clause, never passes, and any other does when enough of the clauses of the
\* spec are passed: evaluate_result, whatever the spec and the result.
THEOREM GateAlwaysIsContract == GateSpec => []GateIsContract
  BY GateInvariant, GateInvGives, PTL

\* The trace _compact_verification leaves of a verdict keeps its evidence, and
\* is accepted when the output is there to run the gate again and when it is not.
THEOREM HonestTracesAlwaysAudit == GateSpec => []HonestTraceAudits
  BY GateInvariant, GateInvGives, PTL

\* However a trace was rewritten, when it is accepted without the output its
\* outcome is what the clauses and the minimum of the plan make of its flags.
THEOREM NeverAnUnearnedPass == GateSpec => []NoUnearnedPass
  BY GateInvariant, GateInvGives, PTL
=============================================================================
