------------------------------- MODULE Access -------------------------------
(***************************************************************************)
(* Who may do what: a request is authenticated, authorised for its route,  *)
(* scoped to a client, and, when it names the owner of a review task, that *)
(* owner is resolved, each by a query of its own.  The queries run under   *)
(* READ COMMITTED, so the rows behind them (users, firm_memberships,       *)
(* client_access) may be changed by administration between any two.        *)
(*                                                                         *)
(* One request at a time: two requests meet only in the rows that          *)
(* HumanReview, Reconciliation and BankImport model.  What those modules   *)
(* model of a handler (states, locks, stale evidence) is here only the     *)
(* chance that a request is refused after it was found authorised.         *)
(***************************************************************************)
EXTENDS FiniteSets, Naturals

CONSTANTS
    User, Firm,
    Member,       \* firm_memberships: one user in one firm each
    Client,       \* client_entities; each has one decision, and records of its own
    UserOf, FirmOf, ClientFirm,
    HighRisk,     \* clients whose decision is classified senior_review_required
    InitRole,     \* roles a membership may start with
    InitAccess,   \* client_access rows at the start, all active
    None,
    MaxChanges    \* bound on the changes administration makes

Role == {"firm_admin", "accountant", "senior_reviewer", "client_submitter", "auditor"}

\* The pairs a client_access row can join: its two composite foreign keys share firm_id.
Grant == {g \in Member \X Client : FirmOf[g[1]] = ClientFirm[g[2]]}

\* uq_firm_memberships_user_firm: a user has one membership in a firm.
ASSUME MembershipAssumption ==
    /\ UserOf \in [Member -> User] /\ FirmOf \in [Member -> Firm]
    /\ \A m, n \in Member : UserOf[m] = UserOf[n] /\ FirmOf[m] = FirmOf[n] => m = n
ASSUME ClientAssumption == ClientFirm \in [Client -> Firm] /\ HighRisk \subseteq Client
ASSUME InitAssumption ==
    InitRole \in [Member -> SUBSET Role] /\ InitAccess \subseteq Grant
ASSUME NoneAssumption == None \notin User \cup Firm \cup Member \cup Client
ASSUME BoundAssumption == MaxChanges \in Nat

VARIABLES
    activeUser,    \* users with is_active
    membership,    \* role and is_active of each membership
    access,        \* client_access: no row, an active row, a revoked row
    task,          \* the review task of each client's decision: who owns it, how far it is,
                   \* and (auxiliary) the reviewer an escalation handed it to
    req,           \* the request in progress, or the last one answered
    seen,          \* what was true at some moment since the request arrived
    changes        \* changes made by administration

vars == <<activeUser, membership, access, task, req, seen, changes>>

-----------------------------------------------------------------------------
(* Permissions. *)

\* ROLE_PERMISSIONS.
AccountantPermissions ==
    {"view_context", "upload_documents", "view_documents", "run_extraction",
     "correct_extracted_information", "run_accounting_decision", "review_recommendations",
     "create_review_task", "view_review_task", "add_review_comment", "view_review_history",
     "approve_ordinary_transaction", "reject_transaction", "escalate_transaction",
     "request_information", "view_audit_history", "import_bank_transactions",
     "view_bank_transactions", "run_reconciliation_matching", "view_reconciliation_matches",
     "create_reconciliation_review", "review_reconciliation", "approve_reconciliation",
     "view_reconciliation_history", "export_approved_entries"}

RolePermissions ==
    [firm_admin |-> {"view_context", "manage_users", "manage_configuration",
                     "manage_integrations", "view_audit_history"},
     accountant |-> AccountantPermissions,
     senior_reviewer |-> AccountantPermissions
         \cup {"approve_high_risk_transaction", "correct_approved_records"},
     client_submitter |-> {"view_context", "upload_documents", "view_documents",
                           "view_information_request", "respond_to_information_request"},
     auditor |-> {"view_context", "view_documents", "review_recommendations",
                  "view_review_task", "view_review_history", "view_audit_history",
                  "view_bank_transactions", "view_reconciliation_matches",
                  "view_reconciliation_history"}]

\* The permission each route requires, router by router.
DocumentRoutes ==
    [upload_document |-> "upload_documents", get_document_metadata |-> "view_documents"]

ExtractionRoutes ==
    [start_extraction |-> "run_extraction", list_extractions |-> "view_documents",
     get_extraction |-> "view_documents",
     correct_extracted_field |-> "correct_extracted_information"]

AccountingRoutes ==
    [start_accounting_decision |-> "run_accounting_decision",
     list_accounting_decisions |-> "review_recommendations",
     get_accounting_decision |-> "review_recommendations"]

ReconciliationRoutes ==
    [list_reconciliation_worklist |-> "view_reconciliation_history",
     create_synthetic_bank_import |-> "import_bank_transactions",
     list_bank_imports |-> "view_bank_transactions",
     get_bank_import |-> "view_bank_transactions",
     list_bank_transactions_for_import |-> "view_bank_transactions",
     get_bank_transaction |-> "view_bank_transactions"]

MatchRunRoutes ==
    [generate_reconciliation_match_run |-> "run_reconciliation_matching",
     list_reconciliation_match_runs |-> "view_reconciliation_matches",
     list_reconciliation_candidates |-> "view_reconciliation_matches"]

ReconciliationReviewRoutes ==
    [create_reconciliation_review |-> "create_reconciliation_review",
     get_reconciliation_review |-> "view_reconciliation_history",
     select_reconciliation_candidate |-> "review_reconciliation",
     dispute_reconciliation_review |-> "review_reconciliation",
     reopen_reconciliation_review |-> "review_reconciliation"]

\* Mutant: approving a match asks for the permission of the history route below it.
MatchApprovalAsksToView ==
    [approve_reconciliation_match |-> "view_reconciliation_history",
     mark_reconciliation_unmatched |-> "approve_reconciliation",
     get_reconciliation_review_history |-> "view_reconciliation_history"]

ReconciliationOutcomeRoutes ==
    [approve_reconciliation_match |-> "approve_reconciliation",
     mark_reconciliation_unmatched |-> "approve_reconciliation",
     get_reconciliation_review_history |-> "view_reconciliation_history"]

ReviewTaskRoutes ==
    [create_review_task |-> "create_review_task", list_review_tasks |-> "view_review_task",
     get_review_task |-> "view_review_task", escalate_review_task |-> "escalate_transaction",
     add_review_comment |-> "add_review_comment"]

ReviewInformationRoutes ==
    [request_review_information |-> "request_information",
     get_outstanding_information_request |-> "view_information_request",
     respond_to_review_information |-> "respond_to_information_request"]

ReviewOutcomeRoutes ==
    [approve_review_task |-> "approve_ordinary_transaction",
     reject_review_task |-> "reject_transaction",
     get_review_history |-> "view_review_history"]

ContextRoute == [context |-> "view_context"]

\* api_router includes these; no operation is in two of them.
Routers == {DocumentRoutes, ExtractionRoutes, AccountingRoutes, ReconciliationRoutes,
            MatchRunRoutes, ReconciliationReviewRoutes, ReconciliationOutcomeRoutes,
            ReviewTaskRoutes, ReviewInformationRoutes, ReviewOutcomeRoutes, ContextRoute}

Operation == UNION {DOMAIN routes : routes \in Routers}

\* require_permission, for the route of an operation.
Permitted(role, op) ==
    \E routes \in Routers : op \in DOMAIN routes /\ routes[op] \in RolePermissions[role]

\* _require_reviewer_role, _require_history_reader_role, _require_client_submitter_role.
ReviewerRoles == {"accountant", "senior_reviewer"}
HistoryReaderRoles == ReviewerRoles \cup {"auditor"}

\* The review services check the role again, apart from the route's permission.
ServiceRoles(op) ==
    CASE op \in {"create_review_task", "escalate_review_task", "add_review_comment",
                 "request_review_information", "approve_review_task",
                 "reject_review_task"} -> ReviewerRoles
      [] op \in {"list_review_tasks", "get_review_task", "get_review_history"} ->
             HistoryReaderRoles
      [] op \in {"get_outstanding_information_request", "respond_to_review_information"} ->
             {"client_submitter"}
      [] OTHER -> Role

\* Operations only the owner of the task may do, those that change a task and are refused
\* once it is resolved, those that name a task, and those that name its new owner.
OwnerOps == {"escalate_review_task", "request_review_information", "approve_review_task",
             "reject_review_task"}
ActiveTaskOps == OwnerOps \cup {"add_review_comment", "respond_to_review_information"}
TaskOps == ActiveTaskOps \cup {"get_review_task", "get_review_history",
                               "get_outstanding_information_request"}
NamesOwner == {"create_review_task", "escalate_review_task"}

-----------------------------------------------------------------------------
(* Queries. *)

\* get_active_membership_for_firm: none, or the one membership.
ActiveMembershipForFirm(u, f) ==
    {m \in Member : UserOf[m] = u /\ FirmOf[m] = f /\ membership[m].active}

\* Mutant: the join on client_access does not look at is_active.
AnyClientAccess(m, f, c) ==
    FirmOf[m] = f /\ ClientFirm[c] = f /\ <<m, c>> \in Grant /\ access[<<m, c>>] # "none"

\* get_authorized_client.
AuthorizedClient(m, f, c) ==
    FirmOf[m] = f /\ ClientFirm[c] = f /\ <<m, c>> \in Grant /\ access[<<m, c>>] = "active"

\* list_authorized_client_ids.
AuthorizedClientIds(m, f) ==
    {c \in Client : FirmOf[m] = f /\ <<m, c>> \in Grant /\ access[<<m, c>>] = "active"}

\* Mutant: a record is fetched by its identifier alone.
FoundById(f, c, owning) == TRUE

\* A repository fetches a record by firm, client and identifier; owning is the client whose
\* record the identifier names.
Found(f, c, owning) == owning = c /\ ClientFirm[owning] = f

-----------------------------------------------------------------------------
(* What is true now, and what was true since the request arrived. *)

Facts(users, members, grants) ==
    [users |-> users,
     members |-> {<<m, members[m].role>> : m \in {n \in Member : members[n].active}},
     grants |-> {g \in Grant : grants[g] = "active"}]

NoFacts == [users |-> {}, members |-> {}, grants |-> {}]

Join(a, b) == [k \in DOMAIN a |-> a[k] \cup b[k]]

NoRequest == [pc |-> "idle", user |-> None, firm |-> None, member |-> None, role |-> None,
              clients |-> {}, op |-> None, client |-> None, record |-> None,
              target |-> None]

Pending == req.pc \notin {"idle", "done"}

Refuse == req' = NoRequest /\ seen' = NoFacts
Proceed(r) == req' = r /\ UNCHANGED seen

-----------------------------------------------------------------------------
(* Administration: the rows change outside the API. *)

Administer ==
    /\ changes < MaxChanges
    /\ changes' = changes + 1
    /\ seen' = IF Pending THEN Join(seen, Facts(activeUser', membership', access')) ELSE NoFacts
    /\ req' = IF Pending THEN req ELSE NoRequest
    /\ UNCHANGED task

ToggleUser(u) ==
    /\ activeUser' = IF u \in activeUser THEN activeUser \ {u} ELSE activeUser \cup {u}
    /\ UNCHANGED <<membership, access>>
    /\ Administer

ToggleMembership(m) ==
    /\ membership' = [membership EXCEPT ![m].active = ~@]
    /\ UNCHANGED <<activeUser, access>>
    /\ Administer

AssignRole(m, r) ==
    /\ membership[m].role # r
    /\ membership' = [membership EXCEPT ![m].role = r]
    /\ UNCHANGED <<activeUser, access>>
    /\ Administer

\* grant_client_access inserts the row; later its is_active is switched.
ChangeAccess(g) ==
    /\ access' = [access EXCEPT ![g] = IF @ = "active" THEN "revoked" ELSE "active"]
    /\ UNCHANGED <<activeUser, membership>>
    /\ Administer

-----------------------------------------------------------------------------
(* The request. *)

rows == <<activeUser, membership, access, changes>>

\* A request arrives with a subject and a firm in its headers.
Send(u, f) ==
    /\ ~Pending
    /\ req' = [NoRequest EXCEPT !.pc = "user", !.user = u, !.firm = f]
    /\ seen' = Facts(activeUser, membership, access)
    /\ UNCHANGED <<rows, task>>

\* authenticate: get_active_user_by_subject, else 401.
ReadUser ==
    /\ req.pc = "user"
    /\ IF req.user \in activeUser
       THEN Proceed([req EXCEPT !.pc = "membership"])
       ELSE Refuse
    /\ UNCHANGED <<rows, task>>

\* authenticate: get_active_membership_for_firm, else 403; the principal keeps its role.
ReadMembership ==
    /\ req.pc = "membership"
    /\ LET found == ActiveMembershipForFirm(req.user, req.firm)
       IN  \/ /\ found = {}
              /\ Refuse
           \/ \E m \in found :
                 Proceed([req EXCEPT !.pc = "clients", !.member = m,
                                     !.role = membership[m].role])
    /\ UNCHANGED <<rows, task>>

\* authenticate: list_authorized_client_ids; the principal keeps the list.
ReadClients ==
    /\ req.pc = "clients"
    /\ Proceed([req EXCEPT !.pc = "authorize",
                           !.clients = AuthorizedClientIds(req.member, req.firm)])
    /\ UNCHANGED <<rows, task>>

\* require_permission of the route, then the role the service asks for, else 403.  Only the
\* context route answers with the list of clients; the services query access again.
Authorize(op) ==
    /\ req.pc = "authorize"
    /\ IF Permitted(req.role, op) /\ req.role \in ServiceRoles(op)
       THEN Proceed([req EXCEPT !.pc = IF op = "context" THEN "commit" ELSE "scope",
                                !.op = op,
                                !.clients = IF op = "context" THEN @ ELSE {}])
       ELSE Refuse
    /\ UNCHANGED <<rows, task>>

\* _lock_task, _require_active_task, _require_owner, and of an approval of a high-risk task
\* the senior reviewer it is escalated to.  An outstanding information request, which only
\* refuses more, is left out.
MayActOnTask(c) ==
    /\ req.op \in TaskOps => task[c].status # "absent"
    /\ req.op \in ActiveTaskOps => task[c].status # "resolved"
    /\ req.op \in OwnerOps => task[c].owner = req.member
    /\ req.op = "escalate_review_task" => task[c].status = "open"
    /\ req.op = "create_review_task" => task[c].status = "absent"
    /\ req.op = "approve_review_task" /\ c \in HighRisk =>
           /\ "approve_high_risk_transaction" \in RolePermissions[req.role]
           /\ req.role = "senior_reviewer"
           /\ task[c].status = "escalated"

\* _require_client_access, then the records named by the path, else 403 or 404.
CheckScope(c, owning) ==
    /\ req.pc = "scope"
    /\ IF /\ AuthorizedClient(req.member, req.firm, c)
          /\ Found(req.firm, c, owning)
          /\ MayActOnTask(owning)
       THEN Proceed([req EXCEPT !.pc = IF req.op \in NamesOwner THEN "owner" ELSE "commit",
                                !.client = c, !.record = owning])
       ELSE Refuse
    /\ UNCHANGED <<rows, task>>

\* _resolve_owner: get_active_membership_by_id_for_firm and the role it needs, else refused.
\* The owner's user is not looked at.
ResolveMembership(m) ==
    /\ req.pc = "owner"
    /\ IF /\ FirmOf[m] = req.firm /\ membership[m].active
          /\ membership[m].role \in (IF req.op = "escalate_review_task"
                                     THEN {"senior_reviewer"} ELSE ReviewerRoles)
       THEN Proceed([req EXCEPT !.pc = "owner_access", !.target = m])
       ELSE Refuse
    /\ UNCHANGED <<rows, task>>

\* _resolve_owner: the new owner's own access to the client.
ResolveAccess ==
    /\ req.pc = "owner_access"
    /\ IF AuthorizedClient(req.target, req.firm, req.client)
       THEN Proceed([req EXCEPT !.pc = "commit"])
       ELSE Refuse
    /\ UNCHANGED <<rows, task>>

\* The transaction commits and the request is answered.
Commit ==
    /\ req.pc = "commit"
    /\ Proceed([req EXCEPT !.pc = "done"])
    /\ task' = CASE req.op = "create_review_task" ->
                        [task EXCEPT ![req.record] = [owner |-> req.target, status |-> "open",
                                                      handed |-> None]]
                 [] req.op = "escalate_review_task" ->
                        [task EXCEPT ![req.record] = [owner |-> req.target,
                                                      status |-> "escalated",
                                                      handed |-> req.target]]
                 [] req.op \in {"approve_review_task", "reject_review_task"} ->
                        [task EXCEPT ![req.record].status = "resolved"]
                 [] OTHER -> task
    /\ UNCHANGED rows

\* A handler refuses for a reason the component's own module models.
RefuseOtherwise ==
    /\ req.pc = "commit" /\ req.op # "context"
    /\ Refuse
    /\ UNCHANGED <<rows, task>>

-----------------------------------------------------------------------------

Init ==
    /\ activeUser = User
    /\ membership \in {f \in [Member -> [role : Role, active : {TRUE}]] :
                          \A m \in Member : f[m].role \in InitRole[m]}
    /\ access = [g \in Grant |-> IF g \in InitAccess THEN "active" ELSE "none"]
    /\ task = [c \in Client |-> [owner |-> None, status |-> "absent", handed |-> None]]
    /\ req = NoRequest
    /\ seen = NoFacts
    /\ changes = 0

Next ==
    \/ \E u \in User : ToggleUser(u)
    \/ \E m \in Member : ToggleMembership(m)
    \/ \E m \in Member, r \in Role : AssignRole(m, r)
    \/ \E g \in Grant : ChangeAccess(g)
    \/ \E u \in User, f \in Firm : Send(u, f)
    \/ ReadUser \/ ReadMembership \/ ReadClients
    \/ \E op \in Operation : Authorize(op)
    \/ \E c, owning \in Client : CheckScope(c, owning)
    \/ \E m \in Member : ResolveMembership(m)
    \/ ResolveAccess \/ Commit \/ RefuseOtherwise

Spec == Init /\ [][Next]_vars

-----------------------------------------------------------------------------
(* Properties. *)

Answered == req.pc = "done"

(***************************************************************************)
(* AuthorityWasHeld: whatever an answered request did, its user was        *)
(* active, its membership was active with the role it acted under, and it  *)
(* had access to the client, each at some moment between arrival and       *)
(* answer; the owner it named was an eligible member with access, a senior *)
(* reviewer if it escalated, each at such a moment too.  A revocation      *)
(* racing the request is the only authority it can outlive: nothing is     *)
(* cached from one request to the next, although every fact is read once   *)
(* and never read again.                                                   *)
(***************************************************************************)
AuthorityWasHeld ==
    Answered =>
        /\ req.user \in seen.users
        /\ <<req.member, req.role>> \in seen.members
        /\ req.op # "context" => <<req.member, req.client>> \in seen.grants
        /\ \A c \in req.clients : <<req.member, c>> \in seen.grants
        /\ req.op \in NamesOwner =>
               /\ \/ <<req.target, "senior_reviewer">> \in seen.members
                  \/ /\ req.op = "create_review_task"
                     /\ <<req.target, "accountant">> \in seen.members
               /\ <<req.target, req.client>> \in seen.grants

(***************************************************************************)
(* TenantIsolation: an answered request acted for a membership of its own  *)
(* user in the firm it named, on a client of that firm, on records of that *)
(* client; and a review task is never owned from outside its client's      *)
(* firm.                                                                   *)
(***************************************************************************)
TenantIsolation ==
    /\ Answered =>
           /\ UserOf[req.member] = req.user /\ FirmOf[req.member] = req.firm
           /\ req.op # "context" =>
                  ClientFirm[req.client] = req.firm /\ req.record = req.client
    /\ \A c \in Client : task[c].status # "absent" => FirmOf[task[c].owner] = ClientFirm[c]

\* The "No" entries of the permission matrix in docs/ROLE_PERMISSION_MODEL.md and the
\* denials of tests/unit/test_rbac.py, by the operations they are about.
ReviewWrites == {"create_review_task", "add_review_comment", "approve_review_task",
                 "reject_review_task"}
TaskHandling == {"escalate_review_task", "request_review_information"}
ReconciliationWrites ==
    {"create_synthetic_bank_import", "generate_reconciliation_match_run",
     "create_reconciliation_review", "select_reconciliation_candidate",
     "dispute_reconciliation_review", "reopen_reconciliation_review",
     "approve_reconciliation_match", "mark_reconciliation_unmatched"}
ReconciliationViews ==
    {"list_reconciliation_worklist", "list_bank_imports", "get_bank_import",
     "list_bank_transactions_for_import", "get_bank_transaction",
     "list_reconciliation_match_runs", "list_reconciliation_candidates",
     "get_reconciliation_review", "get_reconciliation_review_history"}
Processing == {"start_extraction", "correct_extracted_field", "start_accounting_decision"}
TaskViews == {"list_review_tasks", "get_review_task"}

Denied(r) ==
    CASE r = "auditor" ->
             Processing \cup ReviewWrites \cup TaskHandling \cup ReconciliationWrites
             \cup {"upload_document", "respond_to_review_information"}
      [] r = "firm_admin" ->
             Processing \cup (ReviewWrites \ {"add_review_comment"}) \cup TaskViews
             \cup ReconciliationWrites \cup ReconciliationViews
      [] r = "client_submitter" ->
             Processing \cup ReviewWrites \cup TaskHandling \cup TaskViews
             \cup ReconciliationWrites \cup ReconciliationViews
             \cup {"list_accounting_decisions", "get_accounting_decision",
                   "get_review_history"}
      [] OTHER -> {}

(***************************************************************************)
(* DutiesSeparated: an answered operation is one that some role its member *)
(* held during the request is not denied: an auditor writes nothing, an    *)
(* administrator neither decides, reviews, approves nor reconciles, and a  *)
(* submitter takes no part in review but by answering.  A high-risk task   *)
(* is approved only by a member that was senior reviewer during the        *)
(* request, that an escalation handed the task to, and that still owns it. *)
(***************************************************************************)
DutiesSeparated ==
    Answered =>
        /\ \E r \in Role : <<req.member, r>> \in seen.members /\ req.op \notin Denied(r)
        /\ req.op = "approve_review_task" /\ req.record \in HighRisk =>
               /\ <<req.member, "senior_reviewer">> \in seen.members
               /\ task[req.record].owner = req.member
               /\ task[req.record].handed = req.member
=============================================================================
