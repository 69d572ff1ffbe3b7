----------------------------- MODULE Registration -----------------------------
(***************************************************************************)
(* Admission of provider nodes: create_node_invite and register_node, with *)
(* providers that may send a registration again, from a second process or  *)
(* with other contents, requests that arrive late, often, out of order or  *)
(* never, and answers that are lost.                                       *)
(*                                                                         *)
(* A definition whose comment starts with "Mutation:" is a plausible bug   *)
(* in the definition after it and no part of the model.                    *)
(*                                                                         *)
(* A request is the invite, whose token it carries, a registration id and  *)
(* a body, whose digest it is.  The node's token is derived from the three *)
(* and the coordinator keeps its hash: both are that triple here.  The     *)
(* administrator's answers are not lost: an invite whose token nobody has  *)
(* is never used.                                                          *)
(***************************************************************************)
EXTENDS Integers, FiniteSets

CONSTANTS
    Invites,         \* invites the administrator may create
    Nodes,           \* node ids the coordinator may draw
    Registrations,   \* registration ids of providers
    Bodies,          \* operator name and metadata
    Lifetimes,       \* expires_in_seconds of an invite
    MaxTime,         \* bound: the clock stops here
    NoRow

ASSUME LifetimesAssumption == Lifetimes \subseteq Nat \ {0}
ASSUME TimeAssumption == MaxTime \in Nat

RegistrationRequests == [invite : Invites, id : Registrations, body : Bodies]
InviteRows == [expires : Nat, uses : Nat]
RegistrationRows == [id : Registrations, body : Bodies, node : Nodes]

ASSUME NoRowAssumption == NoRow \notin RegistrationRequests \cup InviteRows \cup RegistrationRows

VARIABLES
    now,
    node_invites,        \* expiry and use count of each invite
    nodes,               \* token hash of each node
    node_registrations,  \* what each invite was used for
    sent,                \* requests on the way: never taken off it
    answers              \* history: what was answered to which request, and when

db == <<node_invites, nodes, node_registrations>>
admissionVars == <<now, db, sent, answers>>

AdmissionInit ==
    /\ now = 0
    /\ node_invites = [i \in Invites |-> NoRow]
    /\ nodes = [n \in Nodes |-> NoRow]
    /\ node_registrations = [i \in Invites |-> NoRow]
    /\ sent = {}
    /\ answers = {}

MaxUses == 1

\* The HMAC of the id and the body's digest under the invite's token.
Token(req) == req

CreateNodeInvite(i, lifetime) ==
    /\ node_invites[i] = NoRow
    /\ node_invites' = [node_invites EXCEPT ![i] = [expires |-> now + lifetime, uses |-> 0]]
    /\ UNCHANGED <<now, nodes, node_registrations, sent, answers>>

\* A provider, or another process of it, holding the invite's token.
Send(req) ==
    /\ node_invites[req.invite] # NoRow
    /\ sent' = sent \cup {req}
    /\ UNCHANGED <<now, db, answers>>

\* Mutation: whoever has the invite and the id is given the registered node.
IsReplayById(req) ==
    /\ node_registrations[req.invite] # NoRow
    /\ node_registrations[req.invite].id = req.id

\* The invite was used for this very request.
IsReplay(req) ==
    /\ node_registrations[req.invite] # NoRow
    /\ node_registrations[req.invite].id = req.id
    /\ node_registrations[req.invite].body = req.body

Live(i) == node_invites[i] # NoRow /\ node_invites[i].expires > now

\* Mutation: a used invite is refused before the replay is recognised.
RepliesUnused(req) ==
    IF Live(req.invite) /\ IsReplay(req) /\ node_invites[req.invite].uses < MaxUses
    THEN [node |-> node_registrations[req.invite].node, token |-> Token(req)]
    ELSE NoRow

\* What a request that was registered before is answered now.
Replies(req) ==
    IF Live(req.invite) /\ IsReplay(req)
    THEN [node |-> node_registrations[req.invite].node, token |-> Token(req)]
    ELSE NoRow

Replay(req) ==
    /\ req \in sent /\ Replies(req) # NoRow
    /\ answers' = answers \cup {[request |-> req, reply |-> Replies(req), at |-> now]}
    /\ UNCHANGED <<now, db, sent>>

\* Mutation: registrations are not looked up, only uses are counted, afterwards.
MayRegisterTwice(i) == Live(i) /\ node_invites[i].uses <= MaxUses

MayRegister(i) ==
    /\ Live(i) /\ node_registrations[i] = NoRow
    /\ node_invites[i].uses < MaxUses

\* The token's hash and the node's id are unique; any other request is refused
\* and changes nothing.
RegisterNode(req, n) ==
    /\ req \in sent /\ MayRegister(req.invite)
    /\ nodes[n] = NoRow
    /\ node_invites' = [node_invites EXCEPT ![req.invite].uses = @ + 1]
    /\ nodes' = [nodes EXCEPT ![n] = Token(req)]
    /\ node_registrations' =
           [node_registrations EXCEPT ![req.invite] =
               [id |-> req.id, body |-> req.body, node |-> n]]
    /\ answers' = answers \cup
           {[request |-> req, reply |-> [node |-> n, token |-> Token(req)], at |-> now]}
    /\ UNCHANGED <<now, sent>>

Tick ==
    /\ now < MaxTime
    /\ now' = now + 1
    /\ UNCHANGED <<db, sent, answers>>

AdmissionNext ==
    \/ \E i \in Invites, lifetime \in Lifetimes : CreateNodeInvite(i, lifetime)
    \/ \E req \in RegistrationRequests :
          Send(req) \/ Replay(req) \/ \E n \in Nodes : RegisterNode(req, n)
    \/ Tick

AdmissionSpec == AdmissionInit /\ [][AdmissionNext]_admissionVars

-----------------------------------------------------------------------------
(* Properties *)

AdmissionTypeOK ==
    /\ now \in Nat
    /\ node_invites \in [Invites -> InviteRows \cup {NoRow}]
    /\ nodes \in [Nodes -> RegistrationRequests \cup {NoRow}]
    /\ node_registrations \in [Invites -> RegistrationRows \cup {NoRow}]
    /\ sent \subseteq RegistrationRequests
    /\ answers \subseteq
           [request : RegistrationRequests,
            reply : [node : Nodes, token : RegistrationRequests], at : Nat]

\* _authenticate_node: the node a token stands for.
Authenticated(token) == {n \in Nodes : nodes[n] = token}

\* However often, late and mixed up requests with one invite arrive, they make
\* one node, and every answer given to any of them, over all time, names that
\* node and hands out a credential that authenticates it and no other.
OneIdentityPerInvite ==
    \A a \in answers :
        /\ Authenticated(a.reply.token) = {a.reply.node}
        /\ \A b \in answers : a.request.invite = b.request.invite => a.reply = b.reply
        /\ \A b \in answers : a.reply.node = b.reply.node => a.request = b.request

\* An invite's use, its registration and the registered node are one fact in
\* three tables, and no node exists without them.
TablesAgree ==
    /\ \A i \in Invites :
          IF node_registrations[i] = NoRow THEN node_invites[i] = NoRow \/ node_invites[i].uses = 0
          ELSE LET r == node_registrations[i]
               IN /\ node_invites[i] # NoRow /\ node_invites[i].uses = 1
                  /\ nodes[r.node] = [invite |-> i, id |-> r.id, body |-> r.body]
    /\ \A n \in Nodes : nodes[n] # NoRow =>
          /\ node_registrations[nodes[n].invite] # NoRow
          /\ node_registrations[nodes[n].invite].node = n

\* A provider that lost the answer to its registration can have it again: until
\* the invite expires, the same request is answered with the same node and
\* credential as the first time.
RecoverableUntilExpiry ==
    \A a \in answers : Live(a.request.invite) => Replies(a.request) = a.reply
=============================================================================
