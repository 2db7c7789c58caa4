--------------------------- MODULE AccessProofs ---------------------------
(***************************************************************************)
(* Proofs about Access for every set of users, firms, memberships, clients *)
(* and grants, and however often administration changes them.              *)
(*                                                                         *)
(* The argument follows the request: whatever a query finds is true at     *)
(* that moment, what is true at any moment of the request is in seen, and  *)
(* seen only grows until the answer.                                       *)
(***************************************************************************)
EXTENDS Access, TLAPS

\* While a request is in progress, what is true now has been seen.
SeesNow(sn) ==
    /\ activeUser \subseteq sn.users
    /\ \A m \in Member : membership[m].active => <<m, membership[m].role>> \in sn.members
    /\ \A g \in Grant : access[g] = "active" => g \in sn.grants

Identified == {"clients", "authorize", "scope", "owner", "owner_access", "commit", "done"}
Authorized == {"scope", "owner", "owner_access", "commit", "done"}

\* The request has been scoped to a client.
Scoped(q) ==
    \/ q.pc \in {"owner", "owner_access"}
    \/ q.pc \in {"commit", "done"} /\ q.op # "context"

\* What the checks of approve and reject found out about the task, which is still so.
Entitled(q, t) ==
    /\ q.op \in {"approve_review_task", "reject_review_task"} =>
          t.owner = q.member /\ t.status # "absent"
    /\ q.op = "approve_review_task" /\ q.record \in HighRisk =>
          q.role = "senior_reviewer" /\ t.handed = q.member

\* The new owner a request names is a member of its firm that may own its task.
Eligible(q, sn) ==
    /\ q.target \in Member /\ FirmOf[q.target] = q.firm
    /\ \/ <<q.target, "senior_reviewer">> \in sn.members
       \/ q.op = "create_review_task" /\ <<q.target, "accountant">> \in sn.members

\* How far a request has come, what it has established, and from what it saw.
Progress(q, sn) ==
    /\ q.pc \in {"idle", "user", "membership"} \cup Identified
    /\ q.pc \in {"membership"} \cup Identified => q.user \in sn.users
    /\ q.pc \in Identified =>
          /\ q.member \in Member /\ q.role \in Role /\ <<q.member, q.role>> \in sn.members
          /\ UserOf[q.member] = q.user /\ FirmOf[q.member] = q.firm
    /\ \A c \in q.clients : <<q.member, c>> \in sn.grants
    /\ q.pc \in {"user", "membership", "clients"} => q.clients = {}
    /\ q.pc \in Authorized =>
          /\ q.op \in Operation /\ Permitted(q.role, q.op)
          /\ q.role \in ServiceRoles(q.op)
          /\ q.pc = "scope" => q.op # "context"
    /\ Scoped(q) =>
          /\ q.client \in Client /\ <<q.member, q.client>> \in sn.grants
          /\ ClientFirm[q.client] = q.firm /\ q.record = q.client
    /\ q.pc = "owner_access" => Eligible(q, sn)
    /\ q.pc \in {"owner", "owner_access"} => q.op \in NamesOwner
    /\ q.pc \in {"commit", "done"} /\ q.op \in NamesOwner =>
          Eligible(q, sn) /\ <<q.target, q.client>> \in sn.grants

\* Whose a task is: a member of its client's firm, and after an escalation the one it
\* was handed to.
Owned ==
    \A c \in Client :
        /\ task[c].status # "absent" => FirmOf[task[c].owner] = ClientFirm[c]
        /\ task[c].status = "escalated" => task[c].handed = task[c].owner

Typed ==
    /\ membership \in [Member -> [role : Role, active : BOOLEAN]]
    /\ DOMAIN access = Grant /\ DOMAIN task = Client
    /\ \A c \in Client : DOMAIN task[c] = {"owner", "status", "handed"}
    /\ DOMAIN seen = {"users", "members", "grants"}
    /\ DOMAIN req = DOMAIN NoRequest

Invariant ==
    /\ Typed
    /\ Pending => SeesNow(seen)
    /\ Progress(req, seen)
    /\ Scoped(req) => Entitled(req, task[req.record])
    /\ Owned

-----------------------------------------------------------------------------

LEMMA NoRequestFacts ==
    ASSUME NEW sn
    PROVE  /\ Progress(NoRequest, sn) /\ ~Scoped(NoRequest) /\ NoRequest.pc = "idle"
           /\ DOMAIN NoFacts = {"users", "members", "grants"}
  BY DEF NoRequest, NoFacts, Progress, Identified, Authorized, Scoped

LEMMA InvariantInit == Init => Invariant
<1> SUFFICES ASSUME Init PROVE Invariant
  OBVIOUS
<1>1. membership \in [Member -> [role : Role, active : BOOLEAN]]
  BY DEF Init
<1>2. Typed
  BY <1>1, NoRequestFacts DEF Init, Typed
<1>3. req = NoRequest
  BY DEF Init
<1>4. Owned
  BY DEF Init, Owned
<1> QED
  BY <1>2, <1>3, <1>4, NoRequestFacts DEF Invariant, Pending

\* A request that goes on to q, which has established what its place asks for.
LEMMA Proceeds ==
    ASSUME Invariant, Pending, NEW q, Proceed(q), UNCHANGED <<rows, task>>,
           DOMAIN q = DOMAIN NoRequest, Progress(q, seen),
           Scoped(q) => Entitled(q, task[q.record])
    PROVE  Invariant'
<1>1. req' = q /\ UNCHANGED <<activeUser, membership, access, task, seen>>
  BY DEF Proceed, rows
<1>2. Typed'
  BY <1>1 DEF Invariant, Typed
<1>3. SeesNow(seen)'
  BY <1>1 DEF Invariant, SeesNow
<1>4. Owned'
  BY <1>1 DEF Invariant, Owned
<1> QED
  BY <1>1, <1>2, <1>3, <1>4 DEF Invariant

LEMMA Refuses ==
    ASSUME Invariant, Refuse, UNCHANGED <<rows, task>>
    PROVE  Invariant'
<1>1. req' = NoRequest /\ seen' = NoFacts /\ UNCHANGED <<activeUser, membership, access, task>>
  BY DEF Refuse, rows
<1>2. Typed'
  BY <1>1, NoRequestFacts DEF Invariant, Typed
<1>3. Owned'
  BY <1>1 DEF Invariant, Owned
<1> QED
  BY <1>1, <1>2, <1>3, NoRequestFacts DEF Invariant, Pending

-----------------------------------------------------------------------------
(* Administration. *)

LEMMA FactsSeen ==
    ASSUME NEW users, NEW members, NEW grants, NEW sn, DOMAIN sn = {"users", "members", "grants"}
    PROVE  LET j == Join(sn, Facts(users, members, grants))
           IN  /\ DOMAIN j = {"users", "members", "grants"}
               /\ users \subseteq j.users
               /\ \A m \in Member : members[m].active => <<m, members[m].role>> \in j.members
               /\ \A g \in Grant : grants[g] = "active" => g \in j.grants
               /\ sn.users \subseteq j.users /\ sn.members \subseteq j.members
               /\ sn.grants \subseteq j.grants
<1> DEFINE f == Facts(users, members, grants)
           j == Join(sn, f)
<1>1. /\ users = f.users
      /\ \A m \in Member : members[m].active => <<m, members[m].role>> \in f.members
      /\ \A g \in Grant : grants[g] = "active" => g \in f.grants
  BY DEF Facts
<1> HIDE DEF f
<1>2. /\ DOMAIN j = {"users", "members", "grants"}
      /\ j.users = sn.users \cup f.users /\ j.members = sn.members \cup f.members
      /\ j.grants = sn.grants \cup f.grants
  BY DEF Join
<1> QED
  BY <1>1, <1>2 DEF f

\* What a request has established stays established when more has been seen.
LEMMA ProgressLasts ==
    ASSUME NEW q, NEW sn, NEW more, Progress(q, sn),
           sn.users \subseteq more.users, sn.members \subseteq more.members,
           sn.grants \subseteq more.grants
    PROVE  Progress(q, more)
  BY DEF Progress, Eligible

LEMMA Administers ==
    ASSUME Invariant, Administer, membership' \in [Member -> [role : Role, active : BOOLEAN]],
           DOMAIN access' = Grant
    PROVE  Invariant'
<1>1. task' = task /\ DOMAIN seen = {"users", "members", "grants"}
  BY DEF Administer, Invariant, Typed
<1>2. Owned'
  BY <1>1 DEF Invariant, Owned
<1>3. CASE ~Pending
  <2>1. req' = NoRequest /\ seen' = NoFacts
    BY <1>3 DEF Administer
  <2>2. Typed'
    BY <1>1, <2>1, NoRequestFacts DEF Invariant, Typed
  <2> QED
    BY <1>2, <2>1, <2>2, NoRequestFacts DEF Invariant, Pending
<1>4. CASE Pending
  <2>1. req' = req /\ seen' = Join(seen, Facts(activeUser', membership', access'))
    BY <1>4 DEF Administer
  <2>2. /\ DOMAIN seen' = {"users", "members", "grants"}
        /\ activeUser' \subseteq seen'.users
        /\ \A m \in Member : membership'[m].active => <<m, membership'[m].role>> \in seen'.members
        /\ \A g \in Grant : access'[g] = "active" => g \in seen'.grants
        /\ seen.users \subseteq seen'.users /\ seen.members \subseteq seen'.members
        /\ seen.grants \subseteq seen'.grants
    BY <1>1, <2>1, FactsSeen
  <2>3. Typed'
    BY <1>1, <2>1, <2>2 DEF Invariant, Typed
  <2>4. SeesNow(seen)'
    BY <2>2 DEF SeesNow
  <2>5. Progress(req', seen')
    BY <2>1, <2>2, ProgressLasts DEF Invariant
  <2> QED
    BY <1>1, <1>2, <2>1, <2>3, <2>4, <2>5 DEF Invariant
<1> QED
  BY <1>3, <1>4

LEMMA AdministrationKeeps ==
    ASSUME Invariant,
           \/ \E u \in User : ToggleUser(u)
           \/ \E m \in Member : ToggleMembership(m)
           \/ \E m \in Member, r \in Role : AssignRole(m, r)
           \/ \E g \in Grant : ChangeAccess(g)
    PROVE  Invariant'
<1>1. membership \in [Member -> [role : Role, active : BOOLEAN]] /\ DOMAIN access = Grant
  BY DEF Invariant, Typed
<1>2. ASSUME NEW u \in User, ToggleUser(u) PROVE Invariant'
  BY <1>1, <1>2, Administers DEF ToggleUser
<1>3. ASSUME NEW m \in Member, ToggleMembership(m) PROVE Invariant'
  <2>1. membership' \in [Member -> [role : Role, active : BOOLEAN]]
    BY <1>1, <1>3 DEF ToggleMembership
  <2> QED
    BY <1>1, <1>3, <2>1, Administers DEF ToggleMembership
<1>4. ASSUME NEW m \in Member, NEW r \in Role, AssignRole(m, r) PROVE Invariant'
  <2>1. membership' \in [Member -> [role : Role, active : BOOLEAN]]
    BY <1>1, <1>4 DEF AssignRole
  <2> QED
    BY <1>1, <1>4, <2>1, Administers DEF AssignRole
<1>5. ASSUME NEW g \in Grant, ChangeAccess(g) PROVE Invariant'
  <2>1. DOMAIN access' = Grant
    BY <1>1, <1>5 DEF ChangeAccess
  <2> QED
    BY <1>1, <1>5, <2>1, Administers DEF ChangeAccess
<1> QED
  BY <1>2, <1>3, <1>4, <1>5

-----------------------------------------------------------------------------
(* The request. *)

LEMMA RequestFields ==
    ASSUME Invariant
    PROVE  DOMAIN req = {"pc", "user", "firm", "member", "role", "clients", "op", "client",
                         "record", "target"}
  BY DEF Invariant, Typed, NoRequest

LEMMA SendKeeps ==
    ASSUME Invariant, NEW u \in User, NEW f \in Firm, Send(u, f)
    PROVE  Invariant'
<1>1. /\ req' = [NoRequest EXCEPT !.pc = "user", !.user = u, !.firm = f]
      /\ seen' = Facts(activeUser, membership, access)
      /\ UNCHANGED <<activeUser, membership, access, task>>
  BY DEF Send, rows
<1>2. req'.pc = "user" /\ req'.clients = {} /\ DOMAIN req' = DOMAIN NoRequest
  BY <1>1 DEF NoRequest
<1>3. DOMAIN seen' = {"users", "members", "grants"} /\ SeesNow(seen)'
  BY <1>1 DEF Facts, SeesNow
<1>4. Typed'
  BY <1>1, <1>2, <1>3 DEF Invariant, Typed
<1>5. Progress(req, seen)' /\ ~Scoped(req)'
  BY <1>2 DEF Progress, Identified, Authorized, Scoped
<1>6. Owned'
  BY <1>1 DEF Invariant, Owned
<1> QED
  BY <1>3, <1>4, <1>5, <1>6 DEF Invariant

LEMMA ReadUserKeeps ==
    ASSUME Invariant, ReadUser
    PROVE  Invariant'
<1>1. req.pc = "user" /\ Pending /\ UNCHANGED <<rows, task>>
  BY DEF ReadUser, Pending
<1>2. CASE req.user \in activeUser
  <2> DEFINE q == [req EXCEPT !.pc = "membership"]
  <2>1. Proceed(q)
    BY <1>2 DEF ReadUser
  <2>2. q.pc = "membership" /\ q.user = req.user /\ q.clients = req.clients /\ DOMAIN q = DOMAIN req
    BY RequestFields
  <2>3. req.user \in seen.users /\ req.clients = {} /\ DOMAIN req = DOMAIN NoRequest
    BY <1>1, <1>2 DEF Invariant, Typed, SeesNow, Progress
  <2> HIDE DEF q
  <2>4. Progress(q, seen) /\ ~Scoped(q)
    BY <2>2, <2>3 DEF Progress, Identified, Authorized, Scoped
  <2> QED
    BY <1>1, <2>1, <2>2, <2>3, <2>4, Proceeds
<1>3. CASE req.user \notin activeUser
  BY <1>1, <1>3, Refuses DEF ReadUser
<1> QED
  BY <1>2, <1>3

LEMMA ReadMembershipKeeps ==
    ASSUME Invariant, ReadMembership
    PROVE  Invariant'
<1>1. req.pc = "membership" /\ Pending /\ UNCHANGED <<rows, task>>
  BY DEF ReadMembership, Pending
<1>2. CASE Refuse
  BY <1>1, <1>2, Refuses
<1>3. ASSUME NEW m \in ActiveMembershipForFirm(req.user, req.firm),
             Proceed([req EXCEPT !.pc = "clients", !.member = m, !.role = membership[m].role])
      PROVE  Invariant'
  <2> DEFINE q == [req EXCEPT !.pc = "clients", !.member = m, !.role = membership[m].role]
  <2>1. m \in Member /\ UserOf[m] = req.user /\ FirmOf[m] = req.firm /\ membership[m].active
    BY DEF ActiveMembershipForFirm
  <2>2. <<m, membership[m].role>> \in seen.members /\ membership[m].role \in Role
    BY <1>1, <2>1 DEF Invariant, SeesNow, Typed
  <2>3. /\ q.pc = "clients" /\ q.member = m /\ q.role = membership[m].role
        /\ q.user = req.user /\ q.firm = req.firm /\ q.clients = req.clients
        /\ DOMAIN q = DOMAIN req
    BY RequestFields
  <2>4. req.user \in seen.users /\ req.clients = {} /\ DOMAIN req = DOMAIN NoRequest
    BY <1>1 DEF Invariant, Typed, Progress
  <2>5. Proceed(q)
    BY <1>3
  <2> HIDE DEF q
  <2>6. Progress(q, seen) /\ ~Scoped(q)
    BY <2>1, <2>2, <2>3, <2>4 DEF Progress, Identified, Authorized, Scoped
  <2> QED
    BY <1>1, <2>3, <2>4, <2>5, <2>6, Proceeds
<1> QED
  BY <1>2, <1>3 DEF ReadMembership

LEMMA ReadClientsKeeps ==
    ASSUME Invariant, ReadClients
    PROVE  Invariant'
<1> DEFINE ids == AuthorizedClientIds(req.member, req.firm)
           q == [req EXCEPT !.pc = "authorize", !.clients = ids]
<1>1. req.pc = "clients" /\ Pending /\ UNCHANGED <<rows, task>> /\ Proceed(q)
  BY DEF ReadClients, Pending
<1>2. \A c \in ids : <<req.member, c>> \in seen.grants
  BY <1>1 DEF AuthorizedClientIds, Invariant, SeesNow
<1>3. /\ q.pc = "authorize" /\ q.clients = ids /\ DOMAIN q = DOMAIN req
      /\ q.user = req.user /\ q.firm = req.firm /\ q.member = req.member /\ q.role = req.role
  BY RequestFields
<1>4. Progress(req, seen) /\ DOMAIN req = DOMAIN NoRequest
  BY DEF Invariant, Typed
<1> HIDE DEF q, ids
<1>5. Progress(q, seen) /\ ~Scoped(q)
  BY <1>1, <1>2, <1>3, <1>4 DEF Progress, Identified, Authorized, Scoped
<1> QED
  BY <1>1, <1>3, <1>4, <1>5, Proceeds

LEMMA AuthorizeKeeps ==
    ASSUME Invariant, NEW op \in Operation, Authorize(op)
    PROVE  Invariant'
<1>1. req.pc = "authorize" /\ Pending /\ UNCHANGED <<rows, task>>
  BY DEF Authorize, Pending
<1> DEFINE place == IF op = "context" THEN "commit" ELSE "scope"
           list == IF op = "context" THEN req.clients ELSE {}
           q == [req EXCEPT !.pc = place, !.op = op, !.clients = list]
<1>2. CASE Permitted(req.role, op) /\ req.role \in ServiceRoles(op)
  <2>1. Proceed(q)
    BY <1>2, RequestFields DEF Authorize
  <2>2. /\ q.pc = place /\ q.op = op /\ q.clients = list /\ DOMAIN q = DOMAIN req
        /\ q.user = req.user /\ q.firm = req.firm /\ q.member = req.member /\ q.role = req.role
    BY RequestFields
  <2>3. Progress(req, seen) /\ DOMAIN req = DOMAIN NoRequest
    BY DEF Invariant, Typed
  <2> HIDE DEF q
  <2>4. Progress(q, seen) /\ ~Scoped(q)
    BY <1>1, <1>2, <2>2, <2>3 DEF Progress, Identified, Authorized, Scoped, NamesOwner
  <2> QED
    BY <1>1, <2>1, <2>2, <2>3, <2>4, Proceeds
<1>3. CASE ~(Permitted(req.role, op) /\ req.role \in ServiceRoles(op))
  BY <1>1, <1>3, Refuses DEF Authorize
<1> QED
  BY <1>2, <1>3

LEMMA CheckScopeKeeps ==
    ASSUME Invariant, NEW c \in Client, NEW owning \in Client, CheckScope(c, owning)
    PROVE  Invariant'
<1>1. req.pc = "scope" /\ Pending /\ UNCHANGED <<rows, task>>
  BY DEF CheckScope, Pending
<1> DEFINE passes == /\ AuthorizedClient(req.member, req.firm, c)
                     /\ Found(req.firm, c, owning)
                     /\ MayActOnTask(owning)
           place == IF req.op \in NamesOwner THEN "owner" ELSE "commit"
           q == [req EXCEPT !.pc = place, !.client = c, !.record = owning]
<1>2. CASE passes
  <2>1. Proceed(q)
    BY <1>2 DEF CheckScope
  <2>2. /\ q.pc = place /\ q.client = c /\ q.record = owning /\ q.op = req.op
        /\ q.user = req.user /\ q.firm = req.firm /\ q.member = req.member /\ q.role = req.role
        /\ q.clients = req.clients /\ DOMAIN q = DOMAIN req
    BY RequestFields
  <2>3. Progress(req, seen) /\ DOMAIN req = DOMAIN NoRequest
    BY DEF Invariant, Typed
  <2>4. <<req.member, c>> \in seen.grants /\ ClientFirm[c] = req.firm /\ owning = c
    BY <1>1, <1>2 DEF AuthorizedClient, Found, Invariant, SeesNow
  <2>5. Entitled(q, task[owning])
    <3>1. /\ req.op \in {"approve_review_task", "reject_review_task"} =>
                task[owning].owner = req.member /\ task[owning].status # "absent"
          /\ req.op = "approve_review_task" /\ owning \in HighRisk =>
                req.role = "senior_reviewer" /\ task[owning].status = "escalated"
      BY <1>2 DEF MayActOnTask, OwnerOps, TaskOps, ActiveTaskOps
    <3>2. task[owning].status = "escalated" => task[owning].handed = task[owning].owner
      BY DEF Invariant, Owned
    <3> HIDE DEF q
    <3> QED
      BY <2>2, <3>1, <3>2 DEF Entitled
  <2> HIDE DEF q
  <2>6. Progress(q, seen)
    BY <1>1, <2>2, <2>3, <2>4 DEF Progress, Identified, Authorized, Scoped
  <2> QED
    BY <1>1, <2>1, <2>2, <2>3, <2>5, <2>6, Proceeds
<1>3. CASE ~passes
  BY <1>1, <1>3, Refuses DEF CheckScope
<1> QED
  BY <1>2, <1>3

LEMMA ResolveMembershipKeeps ==
    ASSUME Invariant, NEW m \in Member, ResolveMembership(m)
    PROVE  Invariant'
<1>1. req.pc = "owner" /\ Pending /\ UNCHANGED <<rows, task>>
  BY DEF ResolveMembership, Pending
<1> DEFINE q == [req EXCEPT !.pc = "owner_access", !.target = m]
<1>2. CASE Refuse
  BY <1>1, <1>2, Refuses
<1>3. CASE ~Refuse
  <2>1. /\ Proceed(q) /\ FirmOf[m] = req.firm /\ membership[m].active
        /\ \/ membership[m].role = "senior_reviewer"
           \/ req.op = "create_review_task" /\ membership[m].role = "accountant"
    <3>1. req.op \in NamesOwner
      BY <1>1 DEF Invariant, Progress
    <3> QED
      BY <1>3, <3>1 DEF ResolveMembership, ReviewerRoles, NamesOwner
  <2>2. /\ q.pc = "owner_access" /\ q.target = m /\ q.op = req.op /\ q.client = req.client
        /\ q.record = req.record /\ q.user = req.user /\ q.firm = req.firm
        /\ q.member = req.member /\ q.role = req.role
        /\ q.clients = req.clients /\ DOMAIN q = DOMAIN req
    BY RequestFields
  <2>3. /\ Progress(req, seen) /\ DOMAIN req = DOMAIN NoRequest
        /\ Scoped(req) => Entitled(req, task[req.record])
    BY DEF Invariant, Typed
  <2>4. <<m, membership[m].role>> \in seen.members
    BY <1>1, <2>1 DEF Invariant, SeesNow
  <2> HIDE DEF q
  <2>5. Eligible(q, seen)
    BY <2>1, <2>2, <2>4 DEF Eligible
  <2>6. Progress(q, seen)
    BY <1>1, <2>2, <2>3, <2>5 DEF Progress, Identified, Authorized, Scoped
  <2>7. Entitled(q, task[q.record])
    BY <1>1, <2>2, <2>3 DEF Entitled, Scoped
  <2> QED
    BY <1>1, <2>1, <2>2, <2>3, <2>6, <2>7, Proceeds
<1> QED
  BY <1>2, <1>3

LEMMA ResolveAccessKeeps ==
    ASSUME Invariant, ResolveAccess
    PROVE  Invariant'
<1>1. req.pc = "owner_access" /\ Pending /\ UNCHANGED <<rows, task>>
  BY DEF ResolveAccess, Pending
<1> DEFINE q == [req EXCEPT !.pc = "commit"]
<1>2. CASE ~AuthorizedClient(req.target, req.firm, req.client)
  BY <1>1, <1>2, Refuses DEF ResolveAccess
<1>3. CASE AuthorizedClient(req.target, req.firm, req.client)
  <2>1. Proceed(q)
    BY <1>3 DEF ResolveAccess
  <2>2. /\ q.pc = "commit" /\ q.target = req.target /\ q.op = req.op /\ q.client = req.client
        /\ q.record = req.record /\ q.user = req.user /\ q.firm = req.firm
        /\ q.member = req.member /\ q.role = req.role
        /\ q.clients = req.clients /\ DOMAIN q = DOMAIN req
    BY RequestFields
  <2>3. /\ Progress(req, seen) /\ DOMAIN req = DOMAIN NoRequest
        /\ Scoped(req) => Entitled(req, task[req.record])
    BY DEF Invariant, Typed
  <2>4. <<req.target, req.client>> \in seen.grants
    BY <1>1, <1>3 DEF Invariant, SeesNow, AuthorizedClient
  <2> HIDE DEF q
  <2>5. Progress(q, seen)
    BY <1>1, <2>2, <2>3, <2>4 DEF Progress, Identified, Authorized, Scoped, Eligible
  <2>6. Entitled(q, task[q.record])
    BY <1>1, <2>2, <2>3 DEF Entitled, Scoped
  <2> QED
    BY <1>1, <2>1, <2>2, <2>3, <2>5, <2>6, Proceeds
<1> QED
  BY <1>2, <1>3

\* What a commit makes of the task of the record.
LEMMA CommitWrites ==
    ASSUME Invariant, Commit
    PROVE  \/ task' = task
           \/ /\ req.op \in NamesOwner /\ req.record \in Client /\ DOMAIN task' = Client
              /\ \A c \in Client \ {req.record} : task'[c] = task[c]
              /\ task'[req.record].owner = req.target
              /\ task'[req.record].status = "escalated" => task'[req.record].handed = req.target
              /\ DOMAIN task'[req.record] = {"owner", "status", "handed"}
           \/ /\ req.op \in {"approve_review_task", "reject_review_task"}
              /\ req.record \in Client /\ DOMAIN task' = Client
              /\ \A c \in Client \ {req.record} : task'[c] = task[c]
              /\ task'[req.record].owner = task[req.record].owner
              /\ task'[req.record].handed = task[req.record].handed
              /\ task'[req.record].status = "resolved"
              /\ DOMAIN task'[req.record] = {"owner", "status", "handed"}
<1> DEFINE r == req.record
<1>1. req.pc = "commit" /\ DOMAIN task = Client /\ \A c \in Client : DOMAIN task[c] = {"owner", "status", "handed"}
  BY DEF Commit, Invariant, Typed
<1>2. req.op # "context" => r \in Client
  BY <1>1 DEF Invariant, Progress, Scoped
<1> HIDE DEF r
<1>3. CASE req.op = "create_review_task"
  <2>1. task' = [task EXCEPT ![r] = [owner |-> req.target, status |-> "open", handed |-> None]]
    BY <1>3 DEF Commit, r
  <2> QED
    BY <1>1, <1>2, <1>3, <2>1 DEF NamesOwner, r
<1>4. CASE req.op = "escalate_review_task"
  <2>1. task' = [task EXCEPT ![r] = [owner |-> req.target, status |-> "escalated",
                                handed |-> req.target]]
    BY <1>4 DEF Commit, r
  <2> QED
    BY <1>1, <1>2, <1>4, <2>1 DEF NamesOwner, r
<1>5. CASE req.op \in {"approve_review_task", "reject_review_task"}
  <2>1. task' = [task EXCEPT ![r].status = "resolved"]
    BY <1>5 DEF Commit, r
  <2>2. r \in Client /\ DOMAIN task[r] = {"owner", "status", "handed"}
    BY <1>1, <1>2, <1>5
  <2> QED
    BY <1>1, <1>5, <2>1, <2>2 DEF r
<1>6. CASE req.op \notin {"create_review_task", "escalate_review_task", "approve_review_task",
                         "reject_review_task"}
  BY <1>6 DEF Commit
<1> QED
  BY <1>3, <1>4, <1>5, <1>6

LEMMA CommitKeeps ==
    ASSUME Invariant, Commit
    PROVE  Invariant'
<1> DEFINE q == [req EXCEPT !.pc = "done"]
<1>1. /\ req.pc = "commit" /\ req' = q
      /\ UNCHANGED <<activeUser, membership, access, seen>>
  BY DEF Commit, Proceed, rows
<1>2. /\ q.pc = "done" /\ q.target = req.target /\ q.op = req.op /\ q.client = req.client
      /\ q.record = req.record /\ q.user = req.user /\ q.firm = req.firm
      /\ q.member = req.member /\ q.role = req.role
      /\ q.clients = req.clients /\ DOMAIN q = DOMAIN req
  BY RequestFields
<1>3. /\ Progress(req, seen) /\ DOMAIN req = DOMAIN NoRequest
      /\ Scoped(req) => Entitled(req, task[req.record])
  BY DEF Invariant, Typed
<1> HIDE DEF q
<1>4. Progress(q, seen)
  BY <1>1, <1>2, <1>3 DEF Progress, Identified, Authorized, Scoped, Eligible
<1>5. Scoped(q) => Scoped(req) /\ q.record \in Client /\ req.record = req.client
                   /\ ClientFirm[req.client] = req.firm
  BY <1>1, <1>2, <1>3 DEF Scoped, Progress
<1>6. Scoped(q) => Entitled(q, task'[q.record])
  BY <1>1, <1>2, <1>3, <1>5, CommitWrites DEF Entitled, NamesOwner
<1>7. Typed'
  BY <1>1, <1>2, <1>3, CommitWrites DEF Invariant, Typed
<1>8. Owned'
  <2>1. CASE task' = task
    BY <2>1 DEF Invariant, Owned
  <2>2. CASE req.op \in NamesOwner
    <3>1. FirmOf[req.target] = req.firm /\ req.op # "context"
      BY <1>1, <1>3, <2>2 DEF Progress, Eligible, NamesOwner
    <3>2. ClientFirm[req.record] = req.firm
      BY <1>1, <1>3, <3>1 DEF Progress, Scoped
    <3> QED
      BY <2>2, <3>1, <3>2, CommitWrites DEF Invariant, Owned, NamesOwner
  <2>3. CASE req.op \in {"approve_review_task", "reject_review_task"}
    <3>1. task[req.record].status # "absent"
      BY <1>1, <1>3, <2>3 DEF Entitled, Scoped
    <3> QED
      BY <2>3, <3>1, CommitWrites DEF Invariant, Owned, NamesOwner
  <2> QED
    BY <2>1, <2>2, <2>3, CommitWrites
<1> QED
  BY <1>1, <1>2, <1>4, <1>6, <1>7, <1>8 DEF Invariant, Pending

LEMMA InvariantNext == Invariant /\ [Next]_vars => Invariant'
<1> SUFFICES ASSUME Invariant, [Next]_vars PROVE Invariant'
  OBVIOUS
<1>1. CASE RefuseOtherwise
  BY <1>1, Refuses DEF RefuseOtherwise
<1>2. CASE UNCHANGED vars
  BY <1>2 DEF vars, Invariant, Typed, Pending, SeesNow, Owned
<1> QED
  BY <1>1, <1>2, AdministrationKeeps, SendKeeps, ReadUserKeeps, ReadMembershipKeeps,
     ReadClientsKeeps, AuthorizeKeeps, CheckScopeKeeps, ResolveMembershipKeeps,
     ResolveAccessKeeps, CommitKeeps DEF Next

\* The invariant the results below rest on: what is known of a request after each of the
\* queries that authenticate and authorise it, whatever administration changed in between.
THEOREM InvariantHolds == Spec => []Invariant
  BY InvariantInit, InvariantNext, PTL DEF Spec

\* Every fact a request was answered on was true at some moment of the request,
\* although each is read once and administration may change it right after.
THEOREM AuthorityHeld == Spec => []AuthorityWasHeld
<1>1. Invariant => AuthorityWasHeld
  BY DEF Invariant, Progress, Identified, Scoped, Eligible, Answered, AuthorityWasHeld, NamesOwner
<1> QED
  BY <1>1, InvariantHolds, PTL

\* No request crosses the firm or the client it was authorised for, and no task
\* is handed to an owner of another firm.
THEOREM TenantsIsolated == Spec => []TenantIsolation
<1>1. Invariant => TenantIsolation
  BY DEF Invariant, Owned, Progress, Identified, Scoped, Answered, TenantIsolation
<1> QED
  BY <1>1, InvariantHolds, PTL

-----------------------------------------------------------------------------
(* The permission matrix. *)

\* No route grants a role, with what its service asks for, an operation the matrix denies.
LEMMA MatrixRespected ==
    ASSUME NEW r \in Role, NEW op \in Operation, Permitted(r, op), r \in ServiceRoles(op)
    PROVE  op \notin Denied(r)
<1>1. PICK routes \in Routers : op \in DOMAIN routes /\ routes[op] \in RolePermissions[r]
  BY DEF Permitted
<1> USE <1>1 DEF Denied, Processing, ReviewWrites, TaskHandling, TaskViews, ReconciliationWrites,
               ReconciliationViews, RolePermissions, AccountantPermissions, Role
<1>2. CASE routes = DocumentRoutes
  BY <1>2 DEF DocumentRoutes
<1>3. CASE routes = ExtractionRoutes
  BY <1>3 DEF ExtractionRoutes
<1>4. CASE routes = AccountingRoutes
  BY <1>4 DEF AccountingRoutes
<1>5. CASE routes = ReconciliationRoutes
  BY <1>5 DEF ReconciliationRoutes
<1>6. CASE routes = MatchRunRoutes
  BY <1>6 DEF MatchRunRoutes
<1>7. CASE routes = ReconciliationReviewRoutes
  BY <1>7 DEF ReconciliationReviewRoutes
<1>8. CASE routes = ReconciliationOutcomeRoutes
  BY <1>8 DEF ReconciliationOutcomeRoutes
<1>9. CASE routes = ReviewTaskRoutes
  BY <1>9 DEF ReviewTaskRoutes
<1>10. CASE routes = ReviewInformationRoutes
  BY <1>10 DEF ReviewInformationRoutes
<1>11. CASE routes = ReviewOutcomeRoutes
  BY <1>11 DEF ReviewOutcomeRoutes
<1>12. CASE routes = ContextRoute
  BY <1>12 DEF ContextRoute
<1> QED
  BY <1>2, <1>3, <1>4, <1>5, <1>6, <1>7, <1>8, <1>9, <1>10, <1>11, <1>12 DEF Routers

\* Whatever administration does to roles meanwhile, an operation is done only by
\* a member who held a role that the permission matrix and its tests do not deny it
\* to, and a high-risk task is approved only by a senior reviewer whom an escalation
\* handed it to and who still owns it.
THEOREM DutiesAreSeparated == Spec => []DutiesSeparated
<1>1. Invariant => DutiesSeparated
  <2> SUFFICES ASSUME Invariant, Answered
               PROVE  /\ \E r \in Role : <<req.member, r>> \in seen.members /\ req.op \notin Denied(r)
                      /\ req.op = "approve_review_task" /\ req.record \in HighRisk =>
                             /\ <<req.member, "senior_reviewer">> \in seen.members
                             /\ task[req.record].owner = req.member
                             /\ task[req.record].handed = req.member
    BY DEF DutiesSeparated
  <2>1. /\ req.role \in Role /\ <<req.member, req.role>> \in seen.members
        /\ req.op \in Operation /\ Permitted(req.role, req.op) /\ req.role \in ServiceRoles(req.op)
    BY DEF Invariant, Progress, Identified, Authorized, Answered
  <2>2. req.op \notin Denied(req.role)
    BY <2>1, MatrixRespected
  <2>3. req.op # "context" => Entitled(req, task[req.record])
    BY DEF Invariant, Answered, Scoped
  <2> QED
    BY <2>1, <2>2, <2>3 DEF Entitled
<1> QED
  BY <1>1, InvariantHolds, PTL
=============================================================================
